SPECIFICATION Spec
CONSTANTS
  r1 = r1
  r2 = r2
  jan = jan
  feb = feb
  cash = cash
  sales = sales
  nolock = nolock
  noperiod = noperiod
  Req = {r1}
  Ops = {"subpost", "subvoid"}
  Period = {jan}
  PeriodEnd <- MCPeriodEnd
  LockDate = {1}
  NoLock = nolock
  NoPeriod = noperiod
  Account = {cash, sales}
  Submission <- OneSubmission
  MaxEntries = 2
PROPERTIES PostedOnlyToOpenPeriod
