SPECIFICATION FairSpec
CONSTANTS
  r1 = r1
  Reasons = {r1}
  NoReason = NoReason
  NoResult = NoResult
  CapToServer = 1
  CapToClient = 1
  Versions = {3}
  Parallel = 2
  Plan <- ThreePorts
  Inputs <- AnyInputs
  MaxInputs = 6
  Results <- SomeResults
INVARIANTS
  VerdictsBacked
  OnlyExpectedReports
PROPERTIES
  ReportsBounded
  ClientReleased
