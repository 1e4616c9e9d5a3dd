SPECIFICATION LoopSpec
CONSTANTS
  r1 = r1
  Reasons = {r1}
  NoReason = NoReason
  CapToServer = 1
  CapToClient = 1
  Versions = {3}
  Registry = {"echo"}
  Inputs <- AnyInputs
  MaxInputs = 5
  Clients = {c1, c2}
  NoClient = NoClient
  TestIds = {0, 1}
  Results <- SomeResults
INVARIANTS
  EveryTestAnswered
  ParallelBounded
PROPERTIES
  ServerReleased
  WaitingServed
