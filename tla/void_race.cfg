SPECIFICATION Spec
CONSTANTS
  r1 = r1
  r2 = r2
  jan = jan
  noperiod = noperiod
  Req = {r1, r2}
  Ops = {"create", "pay", "void"}
  Amount = {1}
  TaxRate = {0}
  Batch <- SingleBatch
  Period = {jan}
  NoPeriod = noperiod
  MaxInvoices = 1
  MaxEntries = 2
  MaxSessions = 0
INVARIANTS VoidReversesPayment
