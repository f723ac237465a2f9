SPECIFICATION Spec
CONSTANTS
  r = r
  r1 = r1
  r2 = r2
  jan = jan
  noperiod = noperiod
  BillCase <- SmallBills
  NoteCase <- SmallNotes
  ExpenseCase <- SmallExpenses
  BankCase <- SmallBanks
  InvoiceCase <- SmallInvoices
SYMMETRY Symmetry
INVARIANTS TypeOK BillSettles  ExpenseSettles ReversedOnce InvoiceNumbersConsecutive 
CHECK_DEADLOCK FALSE
