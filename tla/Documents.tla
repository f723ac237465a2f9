----------------------------- MODULE Documents ------------------------------
(***************************************************************************)
(* Bills, credit notes, expenses, bank accounts and invoices beside each   *)
(* other.  Each keeps to its own documents and entries, so a behaviour is  *)
(* of one of them: part says which component it is of and with which       *)
(* parameters, and never changes.  The modules share the variables they    *)
(* have in common; those of the other modules stay empty.                  *)
(***************************************************************************)
EXTENDS Integers, Sequences

CONSTANTS
  BillCase, NoteCase, ExpenseCase, BankCase,  \* parameters of the modules, by the name of the case
  InvoiceCase                                 \* parameters of Invoices

VARIABLES part, je, txn, period_open, raced, chart, lines, inv,
          bill, payments, skipped,
          note,
          expense,
          balance, rows, last_sync, feed, day,
          session, events

billVars    == <<bill, payments, skipped>>
bankVars    == <<balance, rows, last_sync, feed, day>>
invoiceVars == <<session, events>>
shared      == <<je, txn, period_open, raced, chart, lines, inv>>
vars        == <<part, shared, billVars, note, expense, bankVars, invoiceVars>>

NoBill    == bill = <<>> /\ payments = <<>> /\ skipped = FALSE
NoNote    == note = <<>>
NoExpense == expense = <<>>
NoBank    == balance = 0 /\ rows = <<>> /\ last_sync = 0 /\ feed = <<>> /\ day = 0
NoInvoice == session = <<>> /\ events = {}
NoPeriod  == period_open = FALSE
NoRace    == raced = FALSE
NoLines   == chart = {} /\ lines = <<>>
NoInv     == inv = <<>>

-----------------------------------------------------------------------------
Bill(c) == INSTANCE Bills WITH
  Req <- BillCase[c].req, Lines <- BillCase[c].lines, TaxRates <- BillCase[c].rates,
  Payments <- BillCase[c].payments, MaxEntries <- BillCase[c].entries

Note(c) == INSTANCE CreditNotes WITH
  Req <- NoteCase[c].req, Invoices <- NoteCase[c].invoices, Lines <- NoteCase[c].lines,
  TaxRates <- NoteCase[c].rates, Totals <- NoteCase[c].totals,
  Payments <- NoteCase[c].payments, MaxEntries <- NoteCase[c].entries

Expense(c) == INSTANCE Expenses WITH
  Req <- ExpenseCase[c].req, Amounts <- ExpenseCase[c].amounts,
  MaxEntries <- ExpenseCase[c].entries

Bank(c) == INSTANCE Banking WITH
  Req <- BankCase[c].req, Ops <- BankCase[c].ops, Amounts <- BankCase[c].amounts,
  Window <- BankCase[c].window, MaxDay <- BankCase[c].days, MaxTxns <- BankCase[c].txns,
  MaxFeed <- BankCase[c].feed, MaxEntries <- BankCase[c].entries, MaxUndone <- BankCase[c].undone

Invoice == INSTANCE Invoices WITH
  Req <- InvoiceCase.req, Ops <- InvoiceCase.ops, Amount <- InvoiceCase.amounts,
  TaxRate <- InvoiceCase.rates, Batch <- InvoiceCase.batches, Period <- InvoiceCase.periods,
  NoPeriod <- InvoiceCase.no_period, MaxInvoices <- InvoiceCase.invoices,
  MaxEntries <- InvoiceCase.entries, MaxSessions <- InvoiceCase.sessions

\* What the parameters have to satisfy.
ASSUME DocumentsAssumption ==
  /\ \A c \in DOMAIN BillCase : Bill(c)!BillsAssumption
  /\ \A c \in DOMAIN NoteCase : Note(c)!CreditNotesAssumption
  /\ \A c \in DOMAIN ExpenseCase : Expense(c)!ExpensesAssumption
  /\ \A c \in DOMAIN BankCase : Bank(c)!BankingAssumption
  /\ Invoice!InvoicesAssumption

Init ==
  \/ /\ \E c \in DOMAIN BillCase : part = <<"bill", c>> /\ Bill(c)!Init
     /\ NoNote /\ NoExpense /\ NoBank /\ NoInvoice /\ NoInv
  \/ /\ \E c \in DOMAIN NoteCase : part = <<"note", c>> /\ Note(c)!Init
     /\ NoBill /\ NoExpense /\ NoBank /\ NoInvoice
  \/ /\ \E c \in DOMAIN ExpenseCase : part = <<"expense", c>> /\ Expense(c)!Init
     /\ NoBill /\ NoNote /\ NoBank /\ NoInvoice /\ NoInv /\ NoLines
  \/ /\ \E c \in DOMAIN BankCase : part = <<"bank", c>> /\ Bank(c)!Init
     /\ NoBill /\ NoNote /\ NoExpense /\ NoInvoice /\ NoInv /\ NoLines /\ NoPeriod
  \/ /\ part = <<"invoice">> /\ Invoice!Init
     /\ NoBill /\ NoNote /\ NoExpense /\ NoBank /\ NoLines /\ NoPeriod /\ NoRace

Next ==
  \/ /\ \E c \in DOMAIN BillCase : part = <<"bill", c>> /\ Bill(c)!Next
     /\ UNCHANGED <<part, inv, note, expense, bankVars, invoiceVars>>
  \/ /\ \E c \in DOMAIN NoteCase : part = <<"note", c>> /\ Note(c)!Next
     /\ UNCHANGED <<part, billVars, expense, bankVars, invoiceVars>>
  \/ /\ \E c \in DOMAIN ExpenseCase : part = <<"expense", c>> /\ Expense(c)!Next
     /\ UNCHANGED <<part, chart, lines, inv, billVars, note, bankVars, invoiceVars>>
  \/ /\ \E c \in DOMAIN BankCase : part = <<"bank", c>> /\ Bank(c)!Next
     /\ UNCHANGED <<part, period_open, chart, lines, inv, billVars, note, expense, invoiceVars>>
  \/ /\ part = <<"invoice">> /\ Invoice!Next
     /\ UNCHANGED <<part, period_open, raced, chart, lines, billVars, note, expense, bankVars>>

Spec == Init /\ [][Next]_vars

-----------------------------------------------------------------------------
(* The properties of the components, whatever their parameters.            *)

\* Every variable has its type.
TypeOK == /\ \A c \in DOMAIN BillCase : part = <<"bill", c>> => Bill(c)!TypeOK
          /\ \A c \in DOMAIN NoteCase : part = <<"note", c>> => Note(c)!TypeOK
          /\ \A c \in DOMAIN ExpenseCase : part = <<"expense", c>> => Expense(c)!TypeOK
          /\ \A c \in DOMAIN BankCase : part = <<"bank", c>> => Bank(c)!TypeOK
          /\ part = <<"invoice">> => Invoice!TypeOK

\* Bills.BillSettles.
BillSettles == \A c \in DOMAIN BillCase : part = <<"bill", c>> => Bill(c)!BillSettles

\* CreditNotes.CreditSettles.
CreditSettles == \A c \in DOMAIN NoteCase : part = <<"note", c>> => Note(c)!CreditSettles

\* Expenses.ExpenseSettles.
ExpenseSettles ==
  \A c \in DOMAIN ExpenseCase : part = <<"expense", c>> => Expense(c)!ExpenseSettles

\* ReversedOnce of bills, credit notes and expenses, and
\* Invoices.PaymentReversedOnce.
ReversedOnce ==
  /\ \A c \in DOMAIN BillCase : part = <<"bill", c>> => Bill(c)!ReversedOnce
  /\ \A c \in DOMAIN NoteCase : part = <<"note", c>> => Note(c)!ReversedOnce
  /\ \A c \in DOMAIN ExpenseCase : part = <<"expense", c>> => Expense(c)!ReversedOnce
  /\ part = <<"invoice">> => Invoice!PaymentReversedOnce

\* Invoices.InvoiceNumbersConsecutive, with overlapping creates.
InvoiceNumbersConsecutive == part = <<"invoice">> => Invoice!InvoiceNumbersConsecutive

\* Banking.BalanceIsSum, Banking.EntryPerReconciliation and Banking.SyncComplete.
BankAgrees ==
  \A c \in DOMAIN BankCase : part = <<"bank", c>> =>
    Bank(c)!BalanceIsSum /\ Bank(c)!EntryPerReconciliation /\ Bank(c)!SyncComplete
=============================================================================
