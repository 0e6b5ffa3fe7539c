SPECIFICATION FairSpec
CONSTANTS
  r1 = r1
  Reader = {r1}
  Cap = 3
  MaxPush = 6
  PipeCap = 2
INVARIANT TimedOutGroupDead
INVARIANT NoLineLost
INVARIANT KillSilences
INVARIANT Window
INVARIANT PollsFaithful
PROPERTY RunReturns
PROPERTY ReaderEnds
CHECK_DEADLOCK FALSE
