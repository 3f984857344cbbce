SPECIFICATION WebhookSpec
CONSTANTS
  e1 = e1
  p1 = p1
  Events = {e1}
  Endpoints = {p1, p2}
  Listens <- MCListens
  Attempts = 3
  FaultKinds = {"reject", "crash", "late"}
  MaxFaults = 1
INVARIANT WebhookTypeOK
INVARIANT BooksAreTrue
INVARIANT RepostsNeedFaults
INVARIANT AttemptsCounted
INVARIANT OrphansNeedFaults
 
PROPERTY DeactivatedGoesQuiet
PROPERTY QueuedIsRecorded
PROPERTY ImplementsOutbox
CHECK_DEADLOCK FALSE
