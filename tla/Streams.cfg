SPECIFICATION FairSpec
CONSTANTS
  c1 = c1
  c2 = c2
  Client = {c1, c2}
  MaxStreams = 1
  MaxStarts = 3
  MaxCrashes = 1
  Trip = 1
INVARIANT RegistryBounded
INVARIANT NoStray
PROPERTY StopEnds
