SPECIFICATION ServiceSafety
CONSTANTS
  Subs = {s1}
  OnChain = {s1}
  TestMode = FALSE
  Period = 1
  Trials = {0}
  Grace = 0
  MaxRetries = 1
  MaxNow = 2
  MaxDate = 6
  FaultKinds = {"reject", "late"}
  MaxFaults = 1
  None = None
  Cycles = {c1, c2}
  RetryCap = 9
  ChargeCap = 9
  Sweepers = {t1, t2}
  Requests = {r1}
  Ops = {"cancelNow", "cancelAtEnd", "pause"}
  Manual = {}
  ManualOps = {}
  Attempts = 3
  Evicts = FALSE
SYMMETRY Symmetry
INVARIANT OneCallPerPeriod
INVARIANT ChargedOnce
INVARIANT BilledOnlyWhenDue
INVARIANT EndedIsAccounted
PROPERTY PeriodsInOrder
PROPERTY PaidStaysBooked
CHECK_DEADLOCK FALSE
