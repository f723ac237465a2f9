----------------------------- MODULE Purchasing -----------------------------
(***************************************************************************)
(* One purchase order (PurchaseOrdersService): editing, approval, sending, *)
(* receiving in parts, the journal entry of a receipt, cancelling, and the *)
(* expenses made from the order.                                           *)
(*                                                                         *)
(* A request reads the order and later writes it; what it writes follows   *)
(* from what it read.  A receipt has a step in between: it adds to the     *)
(* lines, holding their row locks, and looks at all lines, before the      *)
(* commit shows its work to others.  Quantities are whole units, amounts   *)
(* whole cents.                                                            *)
(*                                                                         *)
(* Assumption: purchase_order_receipts and its lines take the rows this    *)
(* service inserts (README, "Schema drift").                               *)
(***************************************************************************)
EXTENDS Integers, Sequences, FiniteSets, SequencesExt

CONSTANTS
  Req,         \* request slots
  Ops,         \* the operations the clients use
  OrderLines,  \* sequences of lines a create or an update sends
  TaxRates, Shipping,
  ReceiptLines,\* lines of a receipt: position of the order line, quantity
  MaxReceipts, MaxExpenses, MaxEdits  \* bounds

AllOps == {"update", "terms", "approve", "send", "receive", "cancel", "expense"}

\* What the constants have to satisfy.
PurchasingAssumption ==
  /\ Ops \subseteq AllOps
  /\ OrderLines \subseteq Seq([ordered: Nat \ {0}, price: Nat, coded: BOOLEAN]) \ {<<>>}
  /\ TaxRates \subseteq Nat /\ Shipping \subseteq Nat
  /\ ReceiptLines \subseteq Seq([line: Nat, qty: Nat \ {0}]) \ {<<>>}
  /\ MaxReceipts \in Nat /\ MaxExpenses \in Nat /\ MaxEdits \in Nat

VARIABLES
  order,        \* the row of purchase_orders
  lines,        \* its purchase_order_lines
  receipts,     \* how many purchase_order_receipts it has
  received,     \* their purchase_order_receipt_lines
  entry,        \* debit and credit of the last journal entry of a receipt
  expenses,     \* expenses made from the order
  period_open, has_ap,  \* the period a receipt names is open; account 2000 exists
  txn           \* per slot: the operation, where it is, what it read

vars == <<order, lines, receipts, received, entry, expenses, period_open, has_ap, txn>>

Status == {"draft", "sent", "partial", "received", "cancelled"}

Order == [status: Status, approved: BOOLEAN, tax: Nat, shipping: Nat, subtotal: Nat,
          total: Nat]

\* "edition" is history: an update deletes the lines and inserts others.
Line == [ordered: Nat, price: Nat, coded: BOOLEAN, received: Nat, edition: Nat]

\* "stale" is history: the quantity left was not what the request had read.
ReceiptLine == [line: Nat, qty: Nat, stale: BOOLEAN]

NoEntry == [debit |-> 0, credit |-> 0, coded |-> TRUE]

Idle == [op |-> "none", pc |-> "idle", lines |-> <<>>, new |-> <<>>, order |-> <<>>,
         tax |-> 0, shipping |-> 0, receipt |-> <<>>, journal |-> FALSE,
         status |-> "draft"]

-----------------------------------------------------------------------------
Sum(f(_), s) == FoldLeft(LAMBDA sum, x : sum + f(x), 0, s)

Subtotal(ls) == Sum(LAMBDA l : l.ordered * l.price, ls)

\* computeTotals: the tax is rounded to the cent.
Total(subtotal, tax, shipping) == subtotal + (2 * subtotal * tax + 100) \div 200 + shipping

NewLines(ls, edition) ==
  [i \in DOMAIN ls |-> [ordered |-> ls[i].ordered, price |-> ls[i].price,
                        coded |-> ls[i].coded, received |-> 0, edition |-> edition]]

\* create.
Init == \E ls \in OrderLines, t \in TaxRates, s \in Shipping :
  /\ order = [status |-> "draft", approved |-> FALSE, tax |-> t, shipping |-> s,
              subtotal |-> Subtotal(ls), total |-> Total(Subtotal(ls), t, s)]
  /\ lines = NewLines(ls, 0)
  /\ receipts = 0 /\ received = <<>> /\ entry = NoEntry /\ expenses = 0
  /\ period_open \in BOOLEAN /\ has_ap \in BOOLEAN
  /\ txn = [r \in Req |-> Idle]

\* The status each handler accepts; cancel looks for receipts instead.
Accepts(op) == CASE op \in {"update", "terms", "approve", "send"} -> {"draft"}
                 [] op = "receive" -> {"sent", "partial"}
                 [] op = "expense" -> {"received", "partial"}
                 [] op = "cancel"  -> Status

\* What the request is sent.
Sent(op) ==
  CASE op = "update"  -> {[Idle EXCEPT !.new = ls, !.tax = t, !.shipping = s] :
                            ls \in OrderLines, t \in TaxRates, s \in Shipping}
    [] op = "terms"   -> {[Idle EXCEPT !.tax = t, !.shipping = s] :
                            t \in TaxRates, s \in Shipping}
    [] op = "receive" -> {[Idle EXCEPT !.receipt = rs, !.journal = j] :
                            rs \in ReceiptLines, j \in BOOLEAN}
    [] OTHER          -> {Idle}

\* Each receipt line is held against what is left of its order line.
Remaining(rs) ==
  \A k \in DOMAIN rs : /\ rs[k].line \in DOMAIN lines
                       /\ rs[k].qty <= lines[rs[k].line].ordered - lines[rs[k].line].received

\* The reads and the guards of a handler.
Read(r) ==
  \E op \in Ops : \E t \in Sent(op) :
    /\ txn[r].pc = "idle"
    /\ order.status \in Accepts(op)
    /\ op = "send" => order.approved
    /\ op = "receive" => Remaining(t.receipt)
    /\ op = "cancel" => receipts = 0
    /\ op = "expense" => \E i \in DOMAIN lines : lines[i].coded
    /\ txn' = [txn EXCEPT ![r] = [t EXCEPT !.op = op, !.lines = lines, !.order = order,
                                           !.pc = IF op = "receive" THEN "write" ELSE "commit"]]
    /\ UNCHANGED <<order, lines, receipts, received, entry, expenses, period_open, has_ap>>

Committing(r, ops) == txn[r].pc = "commit" /\ txn[r].op \in ops

Finish(r) == txn' = [txn EXCEPT ![r] = Idle]

\* A writer of an order line waits for another that has not committed.
Locked(i) == \E q \in Req : /\ txn[q].op = "receive" /\ txn[q].pc = "commit"
                            /\ i \in {x.line : x \in ToSet(txn[q].receipt)}

\* update with lines: they replace the old ones, whose receipt lines go with
\* them; the approval stays.
CommitUpdate(r) ==
  LET t == txn[r]  subtotal == Subtotal(t.new) IN
  /\ Committing(r, {"update"})
  /\ ~\E i \in DOMAIN lines : Locked(i)
  /\ lines[1].edition < MaxEdits
  /\ order' = [order EXCEPT !.tax = t.tax, !.shipping = t.shipping, !.subtotal = subtotal,
                            !.total = Total(subtotal, t.tax, t.shipping)]
  /\ lines' = NewLines(t.new, lines[1].edition + 1)
  /\ received' = <<>>
  /\ Finish(r)
  /\ UNCHANGED <<receipts, entry, expenses, period_open, has_ap>>

\* update without lines: the total comes from the subtotal read.
CommitTerms(r) ==
  LET t == txn[r] IN
  /\ Committing(r, {"terms"})
  /\ order' = [order EXCEPT !.tax = t.tax, !.shipping = t.shipping,
                            !.total = Total(t.order.subtotal, t.tax, t.shipping)]
  /\ Finish(r)
  /\ UNCHANGED <<lines, receipts, received, entry, expenses, period_open, has_ap>>

CommitStatus(r) ==
  LET op == txn[r].op IN
  /\ Committing(r, {"approve", "send", "cancel"})
  /\ order' = IF op = "approve" THEN [order EXCEPT !.approved = TRUE]
              ELSE [order EXCEPT !.status = IF op = "send" THEN "sent" ELSE "cancelled"]
  /\ Finish(r)
  /\ UNCHANGED <<lines, receipts, received, entry, expenses, period_open, has_ap>>

\* A receipt with a period debits the accounts of its lines and credits 2000
\* with all of it; an uncoded line has no debit, and a coded one may not be
\* worth nothing (chk_debit_or_credit).
Value(x)      == x.qty * lines[x.line].price
CodedLines(t) == SelectSeq(t.receipt, LAMBDA x : lines[x.line].coded)
Journals(t)   == t.journal /\ CodedLines(t) # <<>> /\ Sum(Value, t.receipt) > 0

ReceiptEntry(t) ==
  [debit  |-> Sum(Value, CodedLines(t)),
   credit |-> IF has_ap THEN Sum(Value, t.receipt) ELSE 0,
   coded  |-> CodedLines(t) = t.receipt]

QtyIn(rs, i) == Sum(LAMBDA x : IF x.line = i THEN x.qty ELSE 0, rs)

\* Fault: the quantities of the lines that were read are written back.
SeenFault(t) ==
  [i \in DOMAIN lines |->
     [lines[i] EXCEPT !.received = t.lines[i].received + QtyIn(t.receipt, i)]]

\* The rows this request sees: the committed lines and its own additions.
Seen(t) == [i \in DOMAIN lines |-> [lines[i] EXCEPT !.received = @ + QtyIn(t.receipt, i)]]

Full(ls) == \A i \in DOMAIN ls : ls[i].received >= ls[i].ordered

\* receive inserts the receipt, adds to the lines and reads all of them.
WriteReceipt(r) ==
  LET t == txn[r] IN
  /\ t.op = "receive" /\ t.pc = "write"
  /\ t.lines[1].edition = lines[1].edition
  /\ \A x \in ToSet(t.receipt) : ~Locked(x.line)
  /\ t.journal => period_open
  /\ Journals(t) => \A x \in ToSet(CodedLines(t)) : Value(x) > 0
  /\ txn' = [txn EXCEPT ![r].pc = "commit",
                        ![r].status = IF Full(Seen(t)) THEN "received" ELSE "partial"]
  /\ UNCHANGED <<order, lines, receipts, received, entry, expenses, period_open, has_ap>>

CommitReceipt(r) ==
  LET t == txn[r] IN
  /\ Committing(r, {"receive"})
  /\ receipts < MaxReceipts
  /\ lines' = Seen(t)
  /\ receipts' = receipts + 1
  /\ received' = received \o
       [k \in DOMAIN t.receipt |->
          [line |-> t.receipt[k].line, qty |-> t.receipt[k].qty,
           stale |-> \/ lines[t.receipt[k].line] # t.lines[t.receipt[k].line]
                     \/ \E j \in 1..k - 1 : t.receipt[j].line = t.receipt[k].line]]
  /\ order' = [order EXCEPT !.status = t.status]
  /\ entry' = IF Journals(t) THEN ReceiptEntry(t) ELSE entry
  /\ Finish(r)
  /\ UNCHANGED <<expenses, period_open, has_ap>>

\* createExpenseFromPo, as often as it is asked.
CommitExpense(r) ==
  /\ Committing(r, {"expense"})
  /\ expenses < MaxExpenses
  /\ expenses' = expenses + 1
  /\ Finish(r)
  /\ UNCHANGED <<order, lines, receipts, received, entry, period_open, has_ap>>

Rollback(r) ==
  /\ txn[r].pc # "idle"
  /\ Finish(r)
  /\ UNCHANGED <<order, lines, receipts, received, entry, expenses, period_open, has_ap>>

Next == \E r \in Req :
          \/ Read(r) \/ WriteReceipt(r) \/ Rollback(r)
          \/ CommitUpdate(r) \/ CommitTerms(r) \/ CommitStatus(r) \/ CommitReceipt(r)
          \/ CommitExpense(r)

Spec == Init /\ [][Next]_vars

-----------------------------------------------------------------------------
(* Properties.                                                             *)

\* Every variable has its type.
TypeOK == /\ order \in Order
          /\ ToSet(lines) \subseteq Line
          /\ receipts \in 0..MaxReceipts /\ expenses \in 0..MaxExpenses
          /\ ToSet(received) \subseteq ReceiptLine

\* receive: whatever overlaps, the quantity received of a line is that of its
\* receipts, and exceeds the order only through a receipt that named the line
\* twice or read it before another receipt was written.
ReceiptsAddUp ==
  \A i \in DOMAIN lines :
    /\ lines[i].received = QtyIn(received, i)
    /\ lines[i].received > lines[i].ordered =>
         \E x \in ToSet(received) : x.line = i /\ x.stale

\* Requests that do not overlap: an order counts as received exactly when all
\* of it has come, a cancelled one has no receipt, and the total is that of
\* the lines, the rate and the shipping stored with it, however it was edited.
OrderConsistent ==
  Cardinality(Req) = 1 =>
    /\ receipts > 0 => order.status = (IF Full(lines) THEN "received" ELSE "partial")
    /\ order.status \in {"cancelled", "draft"} => receipts = 0
    /\ order.total = Total(Subtotal(lines), order.tax, order.shipping)

\* The entry of a receipt balances exactly when every line it names has an
\* account and there is an account 2000.
ReceiptEntryBalances ==
  (entry # NoEntry /\ entry.coded /\ has_ap) => entry.debit = entry.credit
=============================================================================
