SPECIFICATION Spec
CONSTANTS
  MaxTasks = 2
  Legacy = 0
  MaxQueueDepth = 2
  Trip = 1
  DaemonRetries = 1
  MaxCrashes = 0
  MaxStops = 0
  MaxFaults = 0
  SyncExec = FALSE
  v1 = v1
  k1 = k1
  b1 = b1
  b2 = b2
  h1 = h1
  h2 = h2
  Verb = {v1}
  Key = {k1}
  NoKey = nokey
  Body = {b1, b2}
  NoRequest = norequest
  Handler = {h1, h2}
  Worker = w
  CreatedRank <- InOrder
  Retries <- OneRetry
  Catalogs <- FullCatalog
SYMMETRY Symmetry
INVARIANT ReplayMatchesRequest
