SPECIFICATION Spec
CONSTANTS
  r1 = r1
  r2 = r2
  jan = jan
  noperiod = noperiod
  Req = {r1}
  Ops = {"create", "lines", "tax_rate", "send", "pay", "void", "link", "webhook"}
  Amount = {15, 40}
  TaxRate = {0, 10}
  Batch <- TaxedBatch
  Period = {jan}
  NoPeriod = noperiod
  MaxInvoices = 1
  MaxEntries = 3
  MaxSessions = 1
INVARIANTS TypeOK TotalMatchesTerms VoidReversesPayment
PROPERTIES ImplementsReceivable
