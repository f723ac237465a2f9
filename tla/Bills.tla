-------------------------------- MODULE Bills --------------------------------
(***************************************************************************)
(* One bill of a vendor (BillsService): edited as a draft, received,       *)
(* approved, paid in parts, voided, and the journal entries of each step.  *)
(* Requests overlap: one reads the bill, and later writes what follows     *)
(* from what it read.  Receiving reads the lines in a statement of its     *)
(* own.  Amounts are whole cents, line amounts given.                      *)
(*                                                                         *)
(* Assumption: bills and bill_payments have the columns this service       *)
(* writes (README, "Schema drift").                                        *)
(***************************************************************************)
EXTENDS Integers, Sequences, Functions

CONSTANTS
  Req,        \* request slots
  Lines,      \* sequences of line amounts a create or an update sends
  TaxRates,   \* percentages
  Payments,   \* amounts paid
  MaxEntries  \* bound: journal entries

\* What the constants have to satisfy.
BillsAssumption == /\ Lines \subseteq Seq(Nat) \ {<<>>} /\ TaxRates \subseteq Nat
                   /\ Payments \subseteq Nat \ {0} /\ MaxEntries \in Nat

VARIABLES
  bill,      \* the row of bills
  lines,     \* the amounts of its bill_lines
  payments,  \* the amounts of its bill_payments
  je,        \* its journal entries
  chart,     \* which of the accounts 2000 and 1000 exist
  period_open,
  txn,       \* per slot: the operation, what it read and was sent
  raced,     \* history: a request wrote after another changed what it had read
  skipped    \* history: an entry, or a line of one, was left out

vars == <<bill, lines, payments, je, chart, period_open, txn, raced, skipped>>

Status == {"draft", "received", "approved", "partial", "paid", "voided"}

Bill == [status: Status, rate: TaxRates, subtotal: Nat, tax: Nat, total: Nat, paid: Nat, balance: Int,
         je: 0..MaxEntries]

\* "ap" is what the entry adds to account 2000; "of" the entry it reverses.
Entry == [status: {"posted", "voided"}, debit: Nat, credit: Nat, ap: Int,
          of: 0..MaxEntries]

Idle == [op |-> "none"]

-----------------------------------------------------------------------------
Sum(s) == SumFunction(s)

Tax(subtotal, rate) == (2 * subtotal * rate + 100) \div 200

Priced(b, subtotal, rate) ==
  LET tax == Tax(subtotal, rate) IN
  [b EXCEPT !.rate = rate, !.subtotal = subtotal, !.tax = tax, !.total = subtotal + tax,
            !.balance = subtotal + tax]

NewBill == [status |-> "draft", rate |-> 0, subtotal |-> 0, tax |-> 0, total |-> 0,
            paid |-> 0, balance |-> 0, je |-> 0]

\* create.
Init == /\ \E ls \in Lines, rate \in TaxRates :
             lines = ls /\ bill = Priced(NewBill, Sum(ls), rate)
        /\ payments = <<>> /\ je = <<>>
        /\ chart \in SUBSET {"ap", "cash"} /\ period_open \in BOOLEAN
        /\ txn = [r \in Req |-> Idle]
        /\ raced = FALSE /\ skipped = FALSE

\* The status each handler accepts.
Accepts(op) == CASE op \in {"update", "rate", "receive"} -> {"draft"}
                 [] op = "approve" -> {"received"}
                 [] op = "pay"     -> {"received", "approved", "partial"}
                 [] op = "void"    -> Status \ {"voided"}

\* What a request is sent.
Sent(op) == CASE op = "update" -> [op: {op}, lines: Lines, rate: TaxRates]
              [] op = "rate"   -> [op: {op}, rate: TaxRates]
              [] op = "pay"    -> [op: {op}, amount: Payments, bank: BOOLEAN]
              [] OTHER         -> [op: {op}]

-----------------------------------------------------------------------------
\* The reads and the guards of a handler.
Read(r) ==
  /\ txn[r] = Idle
  /\ \E op \in {"update", "rate", "receive", "approve", "pay", "void"} :
       \E t \in Sent(op) :
         /\ bill.status \in Accepts(op)
         /\ op = "pay" => t.amount <= bill.balance
         /\ txn' = [txn EXCEPT ![r] = [sent |-> t, op |-> op, bill |-> bill, lines |-> lines,
                                       ready |-> op # "receive"]]
  /\ UNCHANGED <<bill, lines, payments, je, chart, period_open, raced, skipped>>

\* receive reads the lines after the bill.
ReadLines(r) ==
  /\ txn[r] # Idle /\ ~txn[r].ready
  /\ txn' = [txn EXCEPT ![r].lines = lines, ![r].ready = TRUE]
  /\ UNCHANGED <<bill, lines, payments, je, chart, period_open, raced, skipped>>

Committing(r, op) == txn[r] # Idle /\ txn[r].op = op /\ txn[r].ready

Finish(r) == /\ txn' = [txn EXCEPT ![r] = Idle]
             /\ raced' = (raced \/ bill # txn[r].bill \/ lines # txn[r].lines)
             /\ UNCHANGED <<chart, period_open>>

CommitUpdate(r) ==
  LET t == txn[r].sent IN
  /\ Committing(r, "update")
  /\ lines' = t.lines
  /\ bill' = Priced(bill, Sum(t.lines), t.rate)
  /\ Finish(r)
  /\ UNCHANGED <<payments, je, skipped>>

\* update with a tax rate and no lines: from the subtotal read.
CommitRate(r) ==
  /\ Committing(r, "rate")
  /\ bill' = Priced(bill, txn[r].bill.subtotal, txn[r].sent.rate)
  /\ Finish(r)
  /\ UNCHANGED <<lines, payments, je, skipped>>

Post(e) == /\ Len(je) < MaxEntries
           /\ je' = Append(je, e)

\* Fault: the entry leaves out the tax.
ReceiptEntryFault(t) ==
  [status |-> "posted", debit |-> Sum(t.lines), of |-> 0,
   credit |-> IF "ap" \in chart THEN t.bill.total ELSE 0,
   ap     |-> IF "ap" \in chart THEN t.bill.total ELSE 0]

\* Debit the accounts of the lines, the first also with the tax; credit 2000.
ReceiptEntry(t) ==
  [status |-> "posted", debit |-> Sum(t.lines) + t.bill.tax, of |-> 0,
   credit |-> IF "ap" \in chart THEN t.bill.total ELSE 0,
   ap     |-> IF "ap" \in chart THEN t.bill.total ELSE 0]

\* Fault: the bill links to an entry that was not made.
LinkFault == Len(je) + 1

\* The id of the entry receive makes, which it makes if a period is open.
Link == IF period_open THEN Len(je) + 1 ELSE 0

\* No line of the entry may be zero (chk_debit_or_credit).
CommitReceive(r) ==
  LET t == txn[r] IN
  /\ Committing(r, "receive")
  /\ IF period_open
     THEN /\ 0 \notin Range(t.lines)
          /\ "ap" \in chart => t.bill.total > 0
          /\ Post(ReceiptEntry(t))
     ELSE UNCHANGED je
  /\ bill' = [bill EXCEPT !.status = "received", !.je = Link]
  /\ skipped' = (skipped \/ ~period_open \/ "ap" \notin chart)
  /\ Finish(r)
  /\ UNCHANGED <<lines, payments>>

CommitApprove(r) ==
  /\ Committing(r, "approve")
  /\ bill' = [bill EXCEPT !.status = "approved"]
  /\ Finish(r)
  /\ UNCHANGED <<lines, payments, je, skipped>>

\* Debit 2000, if there is one, and credit the bank account or else 1000.
PaymentEntry(a) ==
  [status |-> "posted", debit |-> IF "ap" \in chart THEN a ELSE 0, of |-> 0, credit |-> a,
   ap |-> IF "ap" \in chart THEN -a ELSE 0]

\* pay: paid_amount and balance_due follow from the bill that was read.
CommitPay(r) ==
  LET t == txn[r]  a == t.sent.amount  cash == t.sent.bank \/ "cash" \in chart
      paid == t.bill.paid + a  balance == t.bill.total - paid IN
  /\ Committing(r, "pay")
  /\ payments' = Append(payments, a)
  /\ IF period_open /\ cash THEN Post(PaymentEntry(a)) ELSE UNCHANGED je
  /\ bill' = [bill EXCEPT !.paid = paid, !.balance = balance,
                          !.status = IF balance <= 0 THEN "paid" ELSE "partial"]
  /\ skipped' = (skipped \/ ~period_open \/ ~cash \/ "ap" \notin chart)
  /\ Finish(r)
  /\ UNCHANGED lines

Reversal(i) == [status |-> "posted", debit |-> je[i].credit, credit |-> je[i].debit,
                ap |-> -je[i].ap, of |-> i]

\* Fault: the status of the entry is not looked at, by anyone.
ReversibleFault(i) == i # 0

\* The entry is there and posted; of two requests that both find it posted, the
\* immutability trigger refuses the second.
Reversible(i) == i # 0 /\ je[i].status = "posted"

\* voidBill reverses the entry the bill it read links to; the entries of
\* payments stay.
CommitVoid(r) ==
  LET i == txn[r].bill.je IN
  /\ Committing(r, "void")
  /\ IF Reversible(i)
     THEN /\ Len(je) < MaxEntries
          /\ je' = Append([je EXCEPT ![i].status = "voided"], Reversal(i))
     ELSE UNCHANGED je
  /\ bill' = [bill EXCEPT !.status = "voided"]
  /\ Finish(r)
  /\ UNCHANGED <<lines, payments, skipped>>

Rollback(r) == /\ txn[r] # Idle
               /\ txn' = [txn EXCEPT ![r] = Idle]
               /\ UNCHANGED <<bill, lines, payments, je, chart, period_open, raced, skipped>>

TogglePeriod == /\ period_open' = ~period_open
                /\ UNCHANGED <<bill, lines, payments, je, chart, txn, raced, skipped>>

Next == \/ \E r \in Req :
             \/ Read(r) \/ ReadLines(r) \/ Rollback(r)
             \/ CommitUpdate(r) \/ CommitRate(r) \/ CommitReceive(r) \/ CommitApprove(r)
             \/ CommitPay(r) \/ CommitVoid(r)
        \/ TogglePeriod

Spec == Init /\ [][Next]_vars

-----------------------------------------------------------------------------
(* Properties.                                                             *)

\* Every variable has its type, and a bill links to an entry there is.
TypeOK == /\ bill \in Bill /\ bill.je \in 0..Len(je) /\ lines \in Lines
          /\ payments \in Seq(Payments) /\ je \in Seq(Entry)

\* getApAging counts the balance of a bill that is received and not voided.
Aging == IF bill.status \in {"voided", "draft", "paid"} \/ bill.balance <= 0
         THEN 0 ELSE bill.balance

Ap == SumFunction([i \in DOMAIN je |-> je[i].ap])

\* A bill that no request wrote on stale reads: what is paid is the sum of its
\* payments and never more than the total; the status says so; its total is
\* that of its lines and rate, however it was edited; and if no entry was
\* skipped, its entries balance, and leave on account 2000 what the aging
\* report shows, except that a voided bill leaves what had been paid on it.
BillSettles ==
  ~raced =>
    /\ bill.paid = Sum(payments)
    /\ bill.balance = bill.total - bill.paid /\ bill.balance >= 0
    /\ CASE bill.status = "paid"    -> bill.balance = 0
         [] bill.status = "partial" -> bill.balance > 0 /\ bill.paid > 0
         [] bill.status = "voided"  -> TRUE
         [] OTHER                   -> bill.paid = 0
    /\ bill.total = Sum(lines) + Tax(Sum(lines), bill.rate)
    /\ ~skipped => /\ \A e \in Range(je) : e.debit = e.credit
                   /\ Ap = IF bill.status = "voided" THEN -bill.paid ELSE Aging

\* voidBill: whatever overlaps, no entry is reversed twice.
ReversedOnce ==
  \A i, j \in DOMAIN je : je[i].of # 0 /\ je[i].of = je[j].of => i = j
=============================================================================
