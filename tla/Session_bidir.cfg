SPECIFICATION FairSpec
CONSTANTS
  r1 = r1
  r2 = r2
  Reasons = {r1, r2}
  NoReason = NoReason
  NoResult = NoResult
  CapToServer = 3
  CapToClient = 1
  Versions = {2, 3}
  Registry = {"echo"}
  Parallel = 2
  Plan <- TwoPortsBothWays
  Faults = {"client", "timeout"}
  Results <- SomeResults
INVARIANTS
  TypeOK
  OppositeDirectionsExclusive
PROPERTIES
  ImplementsScan
  ScanSucceeds
