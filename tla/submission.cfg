SPECIFICATION SubmissionSpec
CONSTANTS
  Calls = {c1, c2}
  Payers = {a, b}
  None = None
  Timeout = 1
  FaultKinds = {"reject", "lag"}
  MaxNow = 1
  MaxFaults = 1
INVARIANT SubmissionTypeOK
PROPERTY ImplementsOutcome
PROPERTY CallsEnd
CHECK_DEADLOCK FALSE
