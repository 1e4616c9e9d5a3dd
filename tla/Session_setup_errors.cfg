SPECIFICATION Spec
CONSTANTS
  r1 = r1
  r2 = r2
  Reasons = {r1, r2}
  NoReason = NoReason
  NoResult = NoResult
  CapToServer = 1
  CapToClient = 1
  Versions = {3}
  Registry = {"echo"}
  Parallel = 1
  Plan <- OnePortBothWays
  Faults = {}
  Results <- AllResults
INVARIANTS
  SetupErrorShown
