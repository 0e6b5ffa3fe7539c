SPECIFICATION Spec
CONSTANTS
  Base = 3
  Digits = 1
  MaxInt = 31
  MaxDelay = 25
  MaxJitter = 3
  BackoffBase <- Bases
  MaxAttempt = 5
  MaxNow = 130
INVARIANT DelaySaturates
INVARIANT WaitKept
CHECK_DEADLOCK FALSE
