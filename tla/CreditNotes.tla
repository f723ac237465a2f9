---------------------------- MODULE CreditNotes ----------------------------
(***************************************************************************)
(* One credit note (CreditNotesService): edited as a draft, issued,        *)
(* applied to an invoice, voided; and the invoices it may be applied to,   *)
(* paid and voided meanwhile (Invoices.tla has their own races).  Requests *)
(* overlap: one reads the note, and the invoice it is for, and later       *)
(* writes what follows.  Issuing reads the lines in a statement of its     *)
(* own.  Amounts are whole cents.                                          *)
(*                                                                         *)
(* Assumption: some line of a note has an amount (a note of nothing would  *)
(* divide by zero).                                                        *)
(***************************************************************************)
EXTENDS Integers, Sequences, Functions

CONSTANTS
  Req,         \* request slots
  Invoices,    \* invoices the note may be applied to
  Lines,       \* sequences of lines: the amount, and whether it has an account
  TaxRates,    \* percentages
  Totals,      \* totals of the invoices
  Payments,    \* amounts an invoice is paid with: any, whatever its total
  MaxEntries   \* bound: journal entries

Subtotal(ls) == SumFunction([i \in DOMAIN ls |-> ls[i].amount])

\* What the constants have to satisfy.
CreditNotesAssumption ==
  /\ Lines \subseteq Seq([amount: Nat, coded: BOOLEAN])
  /\ \A ls \in Lines : Subtotal(ls) > 0
  /\ TaxRates \subseteq Nat /\ Totals \subseteq Nat /\ Payments \subseteq Nat \ {0}
  /\ MaxEntries \in Nat /\ 0 \notin Invoices

VARIABLES
  note,      \* the row of credit_notes
  lines,     \* its credit_note_lines
  inv,       \* the invoices; "last" is history: what set paid_amount last
  je,        \* the journal entries of the note
  chart,     \* which of the accounts 1100 and 4100 (or 4000) exist
  period_open,
  txn,       \* per slot: the operation, what it read and was sent
  raced      \* history: a request wrote after another changed what it had read

vars == <<note, lines, inv, je, chart, period_open, txn, raced>>

Note == [status: {"draft", "issued", "applied", "voided"}, rate: TaxRates,
         subtotal: Nat, total: Nat, je: 0..MaxEntries, invoice: Invoices \cup {0}]

Invoice == [status: {"sent", "paid", "voided"}, total: Totals, paid: Int, cash: Nat,
            last: {"none", "payment", "credit"}]

Entry == [status: {"posted", "voided"}, debit: Nat, credit: Nat, of: 0..MaxEntries]

Idle == [op |-> "none"]

MinOf(a, b) == IF a < b THEN a ELSE b

-----------------------------------------------------------------------------
Total(subtotal, rate) == subtotal + (2 * subtotal * rate + 100) \div 200

Priced(n, subtotal, rate) ==
  [n EXCEPT !.rate = rate, !.subtotal = subtotal, !.total = Total(subtotal, rate)]

\* create.
Init == /\ \E ls \in Lines, rate \in TaxRates :
             /\ lines = ls
             /\ note = Priced([status |-> "draft", rate |-> 0, subtotal |-> 0, total |-> 0,
                               je |-> 0, invoice |-> 0], Subtotal(ls), rate)
        /\ inv \in [Invoices -> [status: {"sent"}, total: Totals, paid: {0}, cash: {0},
                                 last: {"none"}]]
        /\ je = <<>>
        /\ chart \in SUBSET {"ar", "returns"} /\ period_open \in BOOLEAN
        /\ txn = [r \in Req |-> Idle]
        /\ raced = FALSE

Accepts(op) == CASE op \in {"update", "rate", "issue"} -> {"draft"}
                 [] op = "apply" -> {"issued"}
                 [] op = "void"  -> {"draft", "issued"}

Sent(op) == CASE op = "update" -> [op: {op}, lines: Lines, rate: TaxRates, invoice: {0}]
              [] op = "rate"   -> [op: {op}, rate: TaxRates, invoice: {0}]
              [] op = "apply"  -> [op: {op}, invoice: Invoices]
              [] OTHER         -> [op: {op}, invoice: {0}]

\* The reads and the guards of a handler.
Read(r) ==
  /\ txn[r] = Idle
  /\ \E op \in {"update", "rate", "issue", "apply", "void"} : \E t \in Sent(op) :
       /\ note.status \in Accepts(op)
       /\ op = "apply" => inv[t.invoice].status # "voided"
       /\ txn' = [txn EXCEPT ![r] = [sent |-> t, op |-> op, note |-> note, lines |-> lines,
                                     inv |-> IF op = "apply" THEN <<inv[t.invoice]>> ELSE <<>>,
                                     ready |-> op # "issue"]]
  /\ UNCHANGED <<note, lines, inv, je, chart, period_open, raced>>

\* issue reads the lines after the note.
ReadLines(r) ==
  /\ txn[r] # Idle /\ ~txn[r].ready
  /\ txn' = [txn EXCEPT ![r].lines = lines, ![r].ready = TRUE]
  /\ UNCHANGED <<note, lines, inv, je, chart, period_open, raced>>

Committing(r, op) == txn[r] # Idle /\ txn[r].op = op /\ txn[r].ready

Finish(r) ==
  LET t == txn[r] IN
  /\ txn' = [txn EXCEPT ![r] = Idle]
  /\ raced' = (raced \/ note # t.note \/ lines # t.lines
               \/ (t.op = "apply" /\ <<inv[t.sent.invoice]>> # t.inv))
  /\ UNCHANGED <<chart, period_open>>

CommitUpdate(r) ==
  LET t == txn[r].sent IN
  /\ Committing(r, "update")
  /\ lines' = t.lines
  /\ note' = Priced(note, Subtotal(t.lines), t.rate)
  /\ Finish(r)
  /\ UNCHANGED <<inv, je>>

\* update with a tax rate and no lines: from the subtotal read.
CommitRate(r) ==
  /\ Committing(r, "rate")
  /\ note' = Priced(note, txn[r].note.subtotal, txn[r].sent.rate)
  /\ Finish(r)
  /\ UNCHANGED <<lines, inv, je>>

\* The lines that have an account.
Coded(ls) == {i \in DOMAIN ls : ls[i].coded}

\* The share of the total of line i, rounded.
Share(ls, total, i) == (2 * total * ls[i].amount + Subtotal(ls)) \div (2 * Subtotal(ls))

\* Fault: the last line takes its rounded share as well.
SharesFault(ls, total) == [i \in Coded(ls) |-> Share(ls, total, i)]

\* What each line with an account is debited: its share of the total, rounded;
\* the last line, if it has one, the rest.
Shares(ls, total) ==
  [i \in Coded(ls) |->
     IF i # Len(ls) THEN Share(ls, total, i)
     ELSE total - SumFunction([j \in Coded(ls) \ {i} |-> Share(ls, total, j)])]

\* What the lines leave goes to sales returns.
Debits(ls, total) ==
  LET shares == Shares(ls, total)  rest == total - SumFunction(shares) IN
  IF rest > 0 /\ "returns" \in chart
  THEN [i \in Coded(ls) \cup {0} |-> IF i = 0 THEN rest ELSE shares[i]]
  ELSE shares

Post(e) == /\ Len(je) < MaxEntries
           /\ je' = Append(je, e)

\* issue: debit the lines, credit 1100; no line may be zero or less
\* (chk_debit_or_credit).
CommitIssue(r) ==
  LET t == txn[r]  debits == Debits(t.lines, t.note.total) IN
  /\ Committing(r, "issue")
  /\ IF period_open
     THEN /\ \A x \in Range(debits) : x > 0
          /\ Post([status |-> "posted", debit |-> SumFunction(debits), of |-> 0,
                   credit |-> IF "ar" \in chart THEN t.note.total ELSE 0])
     ELSE UNCHANGED je
  /\ note' = [note EXCEPT !.status = "issued", !.je = IF period_open THEN Len(je) + 1 ELSE 0]
  /\ Finish(r)
  /\ UNCHANGED <<lines, inv>>

\* apply: as much of the note as the invoice has a balance, which is less than
\* nothing for an invoice paid too much.
CommitApply(r) ==
  LET t == txn[r]  i == t.sent.invoice  old == t.inv[1]
      paid == old.paid + MinOf(t.note.total, old.total - old.paid) IN
  /\ Committing(r, "apply")
  /\ inv' = [inv EXCEPT ![i].paid = paid, ![i].last = "credit",
                        ![i].status = IF old.total - paid <= 0 THEN "paid" ELSE @]
  /\ note' = [note EXCEPT !.status = "applied", !.invoice = i]
  /\ Finish(r)
  /\ UNCHANGED <<lines, je>>

\* Fault: the status of the entry is not looked at, by anyone.
ReversibleFault(i) == i # 0

\* The entry is there and posted; of two requests that both find it posted, the
\* immutability trigger refuses the second.
Reversible(i) == i # 0 /\ je[i].status = "posted"

\* voidCreditNote reverses the entry the note it read links to.
CommitVoid(r) ==
  LET i == txn[r].note.je IN
  /\ Committing(r, "void")
  /\ IF Reversible(i)
     THEN /\ Len(je) < MaxEntries
          /\ je' = Append([je EXCEPT ![i].status = "voided"],
                          [status |-> "posted", debit |-> je[i].credit, of |-> i,
                           credit |-> je[i].debit])
     ELSE UNCHANGED je
  /\ note' = [note EXCEPT !.status = "voided"]
  /\ Finish(r)
  /\ UNCHANGED <<lines, inv>>

Rollback(r) == /\ txn[r] # Idle
               /\ txn' = [txn EXCEPT ![r] = Idle]
               /\ UNCHANGED <<note, lines, inv, je, chart, period_open, raced>>

\* InvoicesService.pay sets paid_amount to what it is sent.
PayInvoice(i, amount) ==
  /\ inv[i].status = "sent"
  /\ inv' = [inv EXCEPT ![i].status = "paid", ![i].paid = amount, ![i].cash = amount,
                        ![i].last = "payment"]
  /\ UNCHANGED <<note, lines, je, chart, period_open, txn, raced>>

\* InvoicesService.voidInvoice.
VoidInvoice(i) ==
  /\ inv[i].status # "voided"
  /\ inv' = [inv EXCEPT ![i].status = "voided"]
  /\ UNCHANGED <<note, lines, je, chart, period_open, txn, raced>>

Next == \/ \E r \in Req :
             \/ Read(r) \/ ReadLines(r) \/ Rollback(r)
             \/ CommitUpdate(r) \/ CommitRate(r) \/ CommitIssue(r) \/ CommitApply(r)
             \/ CommitVoid(r)
        \/ \E i \in Invoices : VoidInvoice(i) \/ \E a \in Payments : PayInvoice(i, a)

Spec == Init /\ [][Next]_vars

-----------------------------------------------------------------------------
(* Properties.                                                             *)

\* Every variable has its type.
TypeOK == /\ note \in Note /\ lines \in Lines
          /\ inv \in [Invoices -> Invoice] /\ je \in Seq(Entry)

\* The entry of an issued note balances, given both accounts, unless the last
\* line has no account and the rounded shares of the others exceed the total.
IssueBalances(e) ==
  \/ e.of # 0 \/ e.debit = e.credit
  \/ ~lines[Len(lines)].coded /\ e.debit > e.credit /\ 2 * (e.debit - e.credit) < Len(lines)

\* A note that no request wrote on stale reads: it is applied to one invoice,
\* and counts in full there until that invoice is paid, which overwrites it;
\* an applied note is never reversed and a voided one always is; and its entry
\* balances but for the rounding of shares.
CreditSettles ==
  ~raced =>
    /\ note.status = "applied" <=> note.invoice # 0
    /\ \A i \in Invoices :
         LET x == inv[i] IN
         /\ x.last = "credit" => /\ note.invoice = i
                                 /\ x.paid = MinOf(note.total + x.cash, x.total)
         /\ x.last # "credit" => x.paid = x.cash
         /\ note.invoice = i => x.last # "none"
         /\ x.last = "credit" /\ x.status = "sent" => x.paid < x.total
    /\ note.total = Total(Subtotal(lines), note.rate)
    /\ note.je # 0 => ((note.status = "voided") <=> (je[note.je].status = "voided"))
    /\ chart = {"ar", "returns"} => \A e \in Range(je) : IssueBalances(e)

\* voidCreditNote: whatever overlaps, no entry is reversed twice.
ReversedOnce ==
  \A i, j \in DOMAIN je : je[i].of # 0 /\ je[i].of = je[j].of => i = j
=============================================================================
