SPECIFICATION Spec
CONSTANTS
  Reasons = {"refused", "connect", "timeout", "accept", "handshake", "read", "mismatch", "differs", "deadline", "bind", "dns"}
  NoReason = "none"
  None = None
  GaveUp = GaveUp
  Second = 10
  Timeouts = {10}
  Delays = {0, 3, 18, 23}
  Latency = 1
INVARIANTS
  
  NoFalseFailure
