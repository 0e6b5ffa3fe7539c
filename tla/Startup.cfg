SPECIFICATION FairSpec
CONSTANTS
  s1 = s1
  s2 = s2
  p1 = p1
  p2 = p2
  Script = {s1, s2}
  Proc = {p1, p2}
  NoProc = noproc
  MaxKills = 2
  MaxFaults = 1
INVARIANT TokenStable
PROPERTY Serves
PROPERTY TaskSettles
CHECK_DEADLOCK FALSE
