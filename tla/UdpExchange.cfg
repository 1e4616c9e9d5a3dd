SPECIFICATION Spec
CONSTANTS
  Reasons = {"send", "unexpected", "timeout", "mismatch", "differs", "recv", "dns", "deadline", "bind"}
  NoReason = "none"
  None = None
  GaveUp = GaveUp
  Second = 50
  Timeouts = {25}
  Delays = {2, 9}
  Tests = {"port", "dns"}
  Latency = 1
  MaxFaults = 2
INVARIANTS
  
  NoFalseFailure
  ReportInTime
  
