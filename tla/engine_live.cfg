SPECIFICATION Spec
CONSTANTS
  Subs = {s1}
  OnChain = {s1}
  TestMode = FALSE
  Period = 1
  Trials = {0}
  Grace = 1
  MaxRetries = 2
  MaxNow = 1
  MaxDate = 3
  FaultKinds = {"reject", "crash", "late"}
  MaxFaults = 1
  None = None
  Cycles = {c1, c2}
  RetryCap = 2
  ChargeCap = 2
  Sweepers = {}
  Requests = {r1}
  Ops = {"cancelNow", "cancelAtEnd"}
SYMMETRY Symmetry
INVARIANT ChargeLeavesTrace
PROPERTY ImplementsPaidPeriods
PROPERTY ClosedStaysClosed
CHECK_DEADLOCK FALSE
