SPECIFICATION FairSpec
CONSTANTS
  p1 = p1  p2 = p2  cli = cli  far = far
  Procs <- TwoHostProcs
  Servers = {p1, p2, far}
  Workers = {w1, w2, w3}
  HostOf <- TwoHosts
  PidOf <- TwoHostPids
  MaxRevision = 2
  MaxClaims = 4
  NoWorker = NoWorker
CHECK_DEADLOCK FALSE
PROPERTIES FinalIsFinal StaleWorkerStops
