SPECIFICATION Spec
CONSTANTS
  MaxTasks = 3
  Legacy = 0
  MaxQueueDepth = 2
  Trip = 1
  DaemonRetries = 1
  MaxCrashes = 1
  MaxStops = 0
  MaxFaults = 0
  SyncExec = FALSE
  v1 = v1
  k1 = k1
  b1 = b1
  b2 = b2
  h1 = h1
  h2 = h2
  Verb = {v1}
  Key = {}
  NoKey = nokey
  Body = {b1}
  NoRequest = norequest
  Handler = {h1, h2}
  Worker = w
  CreatedRank <- Backward
  Retries <- OneRetry
  Catalogs <- AnyCatalog
SYMMETRY Symmetry
INVARIANT DepthBounded
