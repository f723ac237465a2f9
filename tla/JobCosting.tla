----------------------------- MODULE JobCosting -----------------------------
(***************************************************************************)
(* Job costing (JobCostingService): the costs and budgets of one project   *)
(* and its earned value, change orders, and progress billings, from draft  *)
(* to the invoice made of them.  Requests overlap: one reads, and later    *)
(* writes what follows from it.                                            *)
(***************************************************************************)
EXTENDS Integers, Sequences, FiniteSets, Functions

CONSTANTS
  Req,         \* request slots
  Ops,         \* the requests of an instance
  Code,        \* cost codes
  Amounts,     \* of a cost, a budget or a change order
  BillLines,   \* the lists of lines a progress billing may have: amount and retention
  MaxCosts, MaxOrders, MaxBillings, MaxInvoices

AllOps == {"cost", "amend", "approveOrder", "dropOrder", "submit", "approve", "invoice", "drop"}

\* What the constants have to satisfy.
JobCostingAssumption ==
  /\ Ops \subseteq AllOps /\ Amounts \subseteq Nat /\ IsFiniteSet(Code)
  /\ BillLines \subseteq Seq([amount: Nat, percent: 0..100])
  /\ MaxInvoices \in Nat

VARIABLES
  costs,     \* job_cost_entries
  orders,    \* change_orders; "agreed" is history: the amount its approver read
  billings,  \* progress_billings with their lines
  invoices,  \* made of them: number, total, the sum of the lines, the billing
  txn,       \* per slot: the operation and the row it read
  raced      \* history: a request wrote after another changed what it had read

vars == <<costs, orders, billings, invoices, txn, raced>>

CostEntry == [code: Code, cost: Nat, budget: Nat]

ChangeOrder == [status: {"pending", "approved", "deleted"}, amount: Nat, agreed: Nat]

Billing == [status: {"draft", "submitted", "approved", "invoiced", "deleted"},
            lines: BillLines, total: Nat, retention: Nat, net: Nat, invoice: 0..MaxInvoices]

Idle == [op |-> "none"]

Round(n, d) == (2 * n + d) \div (2 * d)

Init == /\ costs = <<>> /\ orders = <<>> /\ billings = <<>> /\ invoices = <<>>
        /\ txn = [r \in Req |-> Idle] /\ raced = FALSE

-----------------------------------------------------------------------------
(* Costs and earned value.                                                 *)

CreateJobCostEntry(e) == /\ "cost" \in Ops /\ Len(costs) < MaxCosts
                         /\ costs' = Append(costs, e)
                         /\ UNCHANGED <<orders, billings, invoices, txn, raced>>

UpdateJobCostEntry(i, e) == /\ costs' = [costs EXCEPT ![i] = e]
                            /\ UNCHANGED <<orders, billings, invoices, txn, raced>>

DeleteJobCostEntry(i) == /\ costs' = SubSeq(costs, 1, i - 1) \o SubSeq(costs, i + 1, Len(costs))
                         /\ UNCHANGED <<orders, billings, invoices, txn, raced>>

Budget(c) == SumFunction([i \in DOMAIN costs |-> IF costs[i].code = c THEN costs[i].budget ELSE 0])
Actual(c) == SumFunction([i \in DOMAIN costs |-> IF costs[i].code = c THEN costs[i].cost ELSE 0])

\* getCostSummary, in hundredths of a percent.
Percent(c) == IF Budget(c) > 0 THEN Round(Actual(c) * 10000, Budget(c)) ELSE 0

\* getEarnedValue, in ten-thousandths.
Bcwp == SumFunction([c \in Code |-> Percent(c) * Budget(c)])

-----------------------------------------------------------------------------
(* Change orders.                                                          *)

CreateChangeOrder(a) ==
  /\ Ops \intersect {"amend", "approveOrder"} # {} /\ Len(orders) < MaxOrders
  /\ orders' = Append(orders, [status |-> "pending", amount |-> a, agreed |-> 0])
  /\ UNCHANGED <<costs, billings, invoices, txn, raced>>

\* updateChangeOrder, approveChangeOrder, deleteChangeOrder.
ReadOrder(r, op, i) ==
  /\ txn[r] = Idle /\ op \in Ops \intersect {"amend", "approveOrder", "dropOrder"}
  /\ orders[i].status = "pending"
  /\ txn' = [txn EXCEPT ![r] = [op |-> op, id |-> i, read |-> orders[i]]]
  /\ UNCHANGED <<costs, orders, billings, invoices, raced>>

WriteOrder(r, row) ==
  /\ orders' = [orders EXCEPT ![txn[r].id] = row]
  /\ txn' = [txn EXCEPT ![r] = Idle]
  /\ raced' = (raced \/ orders[txn[r].id] # txn[r].read)
  /\ UNCHANGED <<costs, billings, invoices>>

CommitOrder(r, a) ==
  LET t == txn[r]
      row == orders[t.id]
  IN \/ t.op = "amend" /\ WriteOrder(r, [row EXCEPT !.amount = a])
     \/ t.op = "approveOrder" /\ WriteOrder(r, [row EXCEPT !.status = "approved",
                                                            !.agreed = t.read.amount])
     \/ t.op = "dropOrder" /\ WriteOrder(r, [row EXCEPT !.status = "deleted"])

-----------------------------------------------------------------------------
(* Progress billings.                                                      *)

Billed(lines) == SumFunction([i \in DOMAIN lines |-> lines[i].amount])

Retention(lines) ==
  Round(SumFunction([i \in DOMAIN lines |-> lines[i].amount * lines[i].percent]), 100)

\* The net is rounded on its own.
Net(lines) ==
  Round(SumFunction([i \in DOMAIN lines |-> lines[i].amount * (100 - lines[i].percent)]), 100)

CreateProgressBilling(lines) ==
  /\ Len(billings) < MaxBillings
  /\ billings' = Append(billings,
       [status |-> "draft", lines |-> lines, total |-> Billed(lines),
        retention |-> Retention(lines), net |-> Net(lines), invoice |-> 0])
  /\ UNCHANGED <<costs, orders, invoices, txn, raced>>

\* Fault: a billing that was only submitted is invoiced.
ExpectsFault(op) == CASE op \in {"submit", "drop"} -> {"draft"}
                      [] op = "approve" -> {"submitted"}
                      [] op = "invoice" -> {"submitted", "approved", "invoiced"}

Expects(op) == CASE op \in {"submit", "drop"} -> {"draft"}
                 [] op = "approve" -> {"submitted"}
                 [] op = "invoice" -> {"approved"}

\* submitProgressBilling, approveProgressBilling, createInvoiceFromBilling,
\* deleteProgressBilling.
ReadBilling(r, op, i) ==
  /\ txn[r] = Idle /\ op \in Ops \intersect {"submit", "approve", "invoice", "drop"}
  /\ billings[i].status \in Expects(op)
  /\ txn' = [txn EXCEPT ![r] = [op |-> op, id |-> i, read |-> billings[i], number |-> 0]]
  /\ UNCHANGED <<costs, orders, billings, invoices, raced>>

LastNumber == IF invoices = <<>> THEN 0 ELSE invoices[Len(invoices)].number

ReadNumber(r) == /\ txn[r].op = "invoice" /\ txn[r].number = 0
                 /\ txn' = [txn EXCEPT ![r].number = LastNumber + 1]
                 /\ UNCHANGED <<costs, orders, billings, invoices, raced>>

WriteBilling(r, row) ==
  /\ billings' = [billings EXCEPT ![txn[r].id] = row]
  /\ txn' = [txn EXCEPT ![r] = Idle]
  /\ raced' = (raced \/ billings[txn[r].id] # txn[r].read)
  /\ UNCHANGED <<costs, orders>>

CommitBilling(r) ==
  LET t == txn[r]
      row == billings[t.id]
      to == CASE t.op = "submit" -> "submitted" [] t.op = "approve" -> "approved"
              [] t.op = "drop" -> "deleted"
  IN /\ t.op \in {"submit", "approve", "drop"}
     /\ WriteBilling(r, [row EXCEPT !.status = to])
     /\ UNCHANGED invoices

\* The invoice asks for the net, its lines list the amounts before retention.
CommitInvoice(r) ==
  LET t == txn[r]
  IN /\ t.op = "invoice" /\ t.number # 0
     /\ \A i \in DOMAIN invoices : invoices[i].number # t.number
     /\ Len(invoices) < MaxInvoices
     /\ invoices' = Append(invoices, [number |-> t.number, total |-> t.read.net, billing |-> t.id,
                                      lines |-> Billed(t.read.lines)])
     /\ WriteBilling(r, [billings[t.id] EXCEPT !.status = "invoiced",
                                               !.invoice = Len(invoices) + 1])

\* getWipReport: what was billed of the project.
Counted(b) == IF b.status \in {"approved", "invoiced"} THEN b.net ELSE 0

BilledToDate == SumFunction([i \in DOMAIN billings |-> Counted(billings[i])])

Rollback(r) == /\ txn[r] # Idle
               /\ txn' = [txn EXCEPT ![r] = Idle]
               /\ UNCHANGED <<costs, orders, billings, invoices, raced>>

Next ==
  \/ \E e \in [code: Code, cost: Amounts, budget: Amounts] :
       \/ CreateJobCostEntry(e)
       \/ \E i \in DOMAIN costs : UpdateJobCostEntry(i, e)
  \/ \E i \in DOMAIN costs : DeleteJobCostEntry(i)
  \/ \E a \in Amounts : CreateChangeOrder(a)
  \/ \E ls \in BillLines : CreateProgressBilling(ls)
  \/ \E r \in Req :
       \/ \E i \in DOMAIN orders, op \in AllOps : ReadOrder(r, op, i)
       \/ \E a \in Amounts : CommitOrder(r, a)
       \/ \E i \in DOMAIN billings, op \in AllOps : ReadBilling(r, op, i)
       \/ ReadNumber(r) \/ CommitBilling(r) \/ CommitInvoice(r) \/ Rollback(r)

Spec == Init /\ [][Next]_vars

-----------------------------------------------------------------------------
(* Properties.                                                             *)

\* Every variable has its type.
TypeOK == /\ costs \in Seq(CostEntry) /\ orders \in Seq(ChangeOrder) /\ billings \in Seq(Billing)

Abs(n) == IF n < 0 THEN -n ELSE n

\* getEarnedValue: the work performed is valued at what it cost.  For the codes
\* that have a budget the two differ by the rounding of the percentages only,
\* so CPI cannot show an overrun of theirs.
EarnedIsSpent ==
  LET budgeted == {c \in Code : Budget(c) > 0}
      spent    == SumFunction([c \in budgeted |-> Actual(c)])
  IN 2 * Abs(Bcwp - 10000 * spent) <= SumFunction([c \in Code |-> Budget(c)])

\* Unless requests overlapped: an approved change order has the amount that was
\* approved; an invoiced billing has one invoice, which leaves out the retention
\* that its lines contain, to a cent; and the WIP report counts every invoice.
BillingsInvoiced ==
  ~raced =>
    /\ \A i \in DOMAIN orders : orders[i].status = "approved" => orders[i].amount = orders[i].agreed
    /\ \A k \in DOMAIN invoices :
         LET b == billings[invoices[k].billing]
         IN /\ b.status = "invoiced" /\ b.invoice = k
            /\ Abs(invoices[k].lines - invoices[k].total - b.retention) <= 1
    /\ SumFunction([k \in DOMAIN invoices |-> invoices[k].total]) <= BilledToDate
=============================================================================
