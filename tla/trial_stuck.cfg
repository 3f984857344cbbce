SPECIFICATION ServiceSpec
CONSTANTS
  Subs = {s1}
  OnChain = {s1}
  TestMode = FALSE
  Period = 1
  Trials = {0,1}
  Grace = 0
  MaxRetries = 2
  MaxNow = 2
  MaxDate = 6
  FaultKinds = {}
  MaxFaults = 1
  None = None
  Cycles = {c1, c2}
  RetryCap = 9
  ChargeCap = 9
  Sweepers = {t1}
  Requests = {}
  Ops = {}
  Manual = {}
  ManualOps = {}
  Attempts = 3
  Evicts = FALSE
PROPERTY TrialEnds
CHECK_DEADLOCK FALSE
