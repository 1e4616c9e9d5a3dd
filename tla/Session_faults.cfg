SPECIFICATION FairSpec
CONSTANTS
  r1 = r1
  r2 = r2
  Reasons = {r1, r2}
  NoReason = NoReason
  NoResult = NoResult
  CapToServer = 1
  CapToClient = 1
  Versions = {2, 3}
  Registry = {"echo"}
  Parallel = 2
  Plan <- ThreePorts
  Faults = {"wire", "client", "server", "timeout"}
  Results <- AllResults
INVARIANTS
  VerdictsTrue
  TalliesComplete
  ExitZeroMeansAllPassed
  PeersAgree
PROPERTIES
  EachTestRunsOnce
  SessionEnds
