SPECIFICATION Spec
CONSTANTS
  r1 = r1
  r2 = r2
  jan = jan
  feb = feb
  cash = cash
  sales = sales
  nolock = nolock
  noperiod = noperiod
  Req = {r1, r2}
  Ops = {"create", "post", "void", "lock", "asset"}
  Period = {jan, feb}
  PeriodEnd <- MCPeriodEnd
  LockDate = {1, 2}
  NoLock = nolock
  NoPeriod = noperiod
  Account = {cash, sales}
  Submission <- OneSubmission
  MaxEntries = 2
SYMMETRY Symmetry
INVARIANTS TypeOK 
PROPERTIES ChecksHeldDuringTransaction 
