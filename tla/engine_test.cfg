SPECIFICATION Spec
CONSTANTS
  Subs = {s1}
  OnChain = {s1}
  TestMode = TRUE
  Period = 1
  Trials = {0, 1}
  Grace = 1
  MaxRetries = 1
  MaxNow = 1
  MaxDate = 3
  FaultKinds = {"reject", "crash", "late"}
  MaxFaults = 1
  None = None
  Cycles = {c1, c2}
  RetryCap = 2
  ChargeCap = 2
  Sweepers = {w1}
  Requests = {r1}
  Ops = {"cancelNow", "cancelAtEnd", "pause", "resume"}
SYMMETRY Symmetry
INVARIANT TypeOK
INVARIANT GraceHasEnd
PROPERTY ImplementsPaidPeriods
PROPERTY ClosedStaysClosed
CHECK_DEADLOCK FALSE
