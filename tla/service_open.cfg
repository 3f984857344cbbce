SPECIFICATION ServiceSafety
CONSTANTS
  Subs = {s1}
  OnChain = {s1}
  TestMode = FALSE
  Period = 1
  Trials = {0}
  Grace = 0
  MaxRetries = 1
  MaxNow = 1
  MaxDate = 2
  FaultKinds = {"reject", "crash", "late", "unread"}
  MaxFaults = 1
  None = None
  Cycles = {c1, c2}
  RetryCap = 1
  ChargeCap = 1
  Sweepers = {t1}
  Requests = {}
  Ops = {}
  Manual = {m1}
  ManualOps = {"run", "retry", "inline"}
  Attempts = 3
  Evicts = TRUE
SYMMETRY Symmetry
CHECK_DEADLOCK FALSE
INVARIANT ServiceTypeOK
INVARIANT JobsOwnCalls
