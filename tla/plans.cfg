SPECIFICATION CatalogSpec
CONSTANTS
  Plans = {p1}
  Wallets = {w1}
  Slots = {u1, u2}
  Requests = {r1, r2}
  Cycles = {c1}
  Terms <- MCTerms
  ContractIds = {k1}
  None = None
  Days <- MCDays
  MaxPeriods = 2
SYMMETRY Symmetry
INVARIANT CatalogTypeOK
INVARIANT BillingDayKept
PROPERTY RetiredStaysRetired
CHECK_DEADLOCK FALSE
