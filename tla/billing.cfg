SPECIFICATION Spec
CONSTANTS
  r1 = r1
  r2 = r2
  c1 = c1
  c2 = c2
  nocontent = nocontent
  FirstYear = 2023
  Req = {r1, r2}
  Exclusive = TRUE
  Content = {c1, c2}
  NoContent = nocontent
  Plan <- Plans
  MaxEstimates = 1
  MaxTemplates = 1
  MaxInvoices = 3
SYMMETRY Symmetry
INVARIANTS TypeOK InvoiceNumbersConsecutive QuoteHonoured RunsOnSchedule
