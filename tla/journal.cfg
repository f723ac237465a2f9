SPECIFICATION Spec
CONSTANTS
  r1 = r1
  r2 = r2
  jan = jan
  feb = feb
  cash = cash
  sales = sales
  nolock = nolock
  noperiod = noperiod
  Req = {r1, r2}
  Ops = {"create", "post", "void", "subpost", "subvoid"}
  Period = {jan}
  PeriodEnd <- MCPeriodEnd
  LockDate = {1}
  NoLock = nolock
  NoPeriod = noperiod
  Account = {cash, sales}
  Submission <- TwoSubmissions
  MaxEntries = 4
SYMMETRY Symmetry
INVARIANTS NumbersGapFree OneReversalPerVoid
PROPERTIES ImplementsLedger
