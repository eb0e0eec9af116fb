SPECIFICATION FairSpec
CONSTANTS
  p1 = p1  p2 = p2  cli = cli  far = far
  Procs <- OneHostProcs
  Servers = {p1, p2}
  Workers = {w1, w2, w3}
  HostOf <- OneHostNames
  PidOf <- OneHostPids
  MaxRevision = 4
  MaxClaims = 8
  NoWorker = NoWorker
CHECK_DEADLOCK FALSE
INVARIANTS ExclusiveExecution LeaseInvariant
PROPERTIES OrderlyHandover ImplementsFencedRun DeadOwnerRecovered
