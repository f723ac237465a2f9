------------------------------ MODULE Projects ------------------------------
(***************************************************************************)
(* Projects and time tracking (ProjectsService, TimeTrackingService): time *)
(* entries written by hand or by a timer, approved and billed on invoices, *)
(* expenses linked to a project, and the totals the project keeps.         *)
(* Requests overlap: one reads, and later writes what follows from it.     *)
(***************************************************************************)
EXTENDS Integers, Sequences, FiniteSetsExt, Functions

CONSTANTS
  Req,         \* request slots
  Ops,         \* the requests of an instance
  Project,
  Minutes,     \* durations of an entry
  Rate,        \* of an hour; an entry keeps it
  Expense,     \* the expenses that may be linked
  Amounts,     \* amounts an expense may have
  MaxEntries, MaxInvoices

AllOps == {"update", "delete", "stop", "approve", "bill", "link", "unlink", "drop"}

\* What the constants have to satisfy.
ProjectsAssumption == /\ Ops \subseteq AllOps /\ Minutes \subseteq Nat /\ Rate \in Nat
                      /\ Amounts \subseteq Nat /\ MaxEntries \in Nat /\ MaxInvoices \in Nat

VARIABLES
  project,   \* status, actual_revenue, actual_cost; status "deleted" when it is gone
  entries,   \* time_entries
  links,     \* project_expenses
  cost,      \* per expense: its amount
  invoices,  \* made of entries: the number, the entries and the amount of each line
  txn,       \* per slot: the operation and what it read
  raced      \* history: a request wrote after another changed what it had read

vars == <<project, entries, links, cost, invoices, txn, raced>>

ProjectRow == [status: {"active", "on_hold", "completed", "cancelled", "deleted"},
               revenue: Int, cost: Int]

\* "stray" is history: marked billed by a request that found it was not approved
\* or not billable, and left it out of its invoice.
Entry == [status: {"draft", "approved", "billed", "deleted"}, project: Project, minutes: Nat,
          billable: BOOLEAN, timer: {"none", "running", "stopped"}, total: Nat,
          invoice: 0..MaxInvoices, stray: BOOLEAN]

Idle == [op |-> "none"]

Sum(f(_), s) == SumFunctionOnSet([i \in DOMAIN s |-> f(s[i])], DOMAIN s)

-----------------------------------------------------------------------------
Total(minutes, billable) == IF billable THEN (2 * minutes * Rate + 60) \div 120 ELSE 0

Init == /\ project = [p \in Project |-> [status |-> "active", revenue |-> 0, cost |-> 0]]
        /\ entries = <<>> /\ links = {} /\ invoices = <<>>
        /\ cost \in [Expense -> Amounts]
        /\ txn = [r \in Req |-> Idle] /\ raced = FALSE

\* create, and startTimer, whose entry has no duration yet.
CreateEntry(p, m, billable, timer) ==
  /\ project[p].status # "deleted" /\ Len(entries) < MaxEntries
  /\ entries' = Append(entries,
       [status |-> "draft", project |-> p, minutes |-> m, billable |-> billable,
        timer |-> timer, total |-> Total(m, billable), invoice |-> 0, stray |-> FALSE])
  /\ UNCHANGED <<project, links, cost, invoices, txn, raced>>

UpdateProject(p, status) ==
  /\ project[p].status # "deleted"
  /\ project' = [project EXCEPT ![p].status = status]
  /\ UNCHANGED <<entries, links, cost, invoices, txn, raced>>

Accepts(op, e) == CASE op \in {"update", "delete", "approve"} -> e.status = "draft"
                    [] op = "stop" -> e.status # "deleted" /\ e.timer = "running"

\* update, delete, stopTimer and approve read one entry.
ReadEntry(r, op, i) ==
  /\ txn[r] = Idle /\ op \in Ops
  /\ Accepts(op, entries[i])
  /\ txn' = [txn EXCEPT ![r] = [op |-> op, id |-> i, read |-> entries[i]]]
  /\ UNCHANGED <<project, entries, links, cost, invoices, raced>>

FinishEntry(r) == /\ txn' = [txn EXCEPT ![r] = Idle]
                  /\ raced' = (raced \/ entries[txn[r].id] # txn[r].read)
                  /\ UNCHANGED <<project, links, cost, invoices>>

\* The columns sent are written, and a total of them and of the ones read.
CommitMinutes(r, m) ==
  LET t == txn[r]
  IN /\ t.op = "update"
     /\ entries' = [entries EXCEPT ![t.id].minutes = m,
                                   ![t.id].total = Total(m, t.read.billable)]
     /\ FinishEntry(r)

CommitBillable(r, billable) ==
  LET t == txn[r]
  IN /\ t.op = "update"
     /\ entries' = [entries EXCEPT ![t.id].billable = billable,
                                   ![t.id].total = Total(t.read.minutes, billable)]
     /\ FinishEntry(r)

CommitDelete(r) == /\ txn[r].op = "delete"
                   /\ entries' = [entries EXCEPT ![txn[r].id].status = "deleted"]
                   /\ FinishEntry(r)

\* stopTimer asks for a running timer, of an entry of any status.
CommitStop(r, m) ==
  LET t == txn[r]
  IN /\ t.op = "stop"
     /\ entries' = [entries EXCEPT ![t.id].timer = "stopped", ![t.id].minutes = m,
                                   ![t.id].total = Total(m, t.read.billable)]
     /\ FinishEntry(r)

CommitApprove(r) == /\ txn[r].op = "approve"
                    /\ entries' = [entries EXCEPT ![txn[r].id].status = "approved"]
                    /\ FinishEntry(r)

-----------------------------------------------------------------------------
\* Fault: entries of any status are put on the invoice.
BillableFault(ids) == {i \in ids : entries[i].status # "deleted" /\ entries[i].billable}

Billable(ids) == {i \in ids : entries[i].status = "approved" /\ entries[i].billable}

\* billTimeEntries reads the entries it was sent, and among them the ones to bill.
ReadBill(r, ids) ==
  /\ txn[r] = Idle /\ "bill" \in Ops
  /\ Billable(ids) # {}
  /\ txn' = [txn EXCEPT ![r] = [op |-> "bill", ids |-> ids, number |-> 0,
                                bill |-> [i \in Billable(ids) |-> entries[i]]]]
  /\ UNCHANGED <<project, entries, links, cost, invoices, raced>>

LastNumber == IF invoices = <<>> THEN 0 ELSE invoices[Len(invoices)].number

ReadNumber(r) == /\ txn[r].op = "bill" /\ txn[r].number = 0
                 /\ txn' = [txn EXCEPT ![r].number = LastNumber + 1]
                 /\ UNCHANGED <<project, entries, links, cost, invoices, raced>>

NumberIsFree(n) == \A i \in DOMAIN invoices : invoices[i].number # n

Revenue(es, p) ==
  Sum(LAMBDA e : IF e.project = p /\ e.status \in {"approved", "billed"} /\ e.billable
                 THEN e.total ELSE 0, es)

\* Every entry of the request becomes billed and points at the invoice, those
\* that are not on it too; the revenue of the projects billed is added up anew.
CommitBill(r) ==
  LET t == txn[r]
      ids == {i \in t.ids : entries[i].status # "deleted"}
      id == Len(invoices) + 1
      marked == [i \in DOMAIN entries |->
                   IF i \in ids
                   THEN [entries[i] EXCEPT !.status = "billed", !.invoice = id,
                                           !.stray = @ \/ i \notin DOMAIN t.bill]
                   ELSE entries[i]]
      billed == {t.bill[i].project : i \in DOMAIN t.bill}
  IN /\ t.op = "bill" /\ t.number # 0 /\ NumberIsFree(t.number)
     /\ Len(invoices) < MaxInvoices
     /\ invoices' = Append(invoices, [number |-> t.number,
                                      lines |-> [i \in DOMAIN t.bill |-> t.bill[i].total]])
     /\ entries' = marked
     /\ project' = [p \in Project |-> IF p \in billed
                                      THEN [project[p] EXCEPT !.revenue = Revenue(marked, p)]
                                      ELSE project[p]]
     /\ txn' = [txn EXCEPT ![r] = Idle]
     /\ raced' = (raced \/ \E i \in DOMAIN t.bill : entries[i] # t.bill[i])
     /\ UNCHANGED <<links, cost>>

-----------------------------------------------------------------------------
Linked(ls, p) == SumFunction([l \in {x \in ls : x.project = p} |-> cost[l.expense]])

\* linkExpense and unlinkExpense write the link and add up the cost over the
\* links they see.
ReadLinks(r, op, p, x) ==
  LET link == [project |-> p, expense |-> x]
  IN /\ txn[r] = Idle /\ op \in Ops \intersect {"link", "unlink"}
     /\ project[p].status # "deleted"
     /\ op = "link" <=> link \notin links
     /\ txn' = [txn EXCEPT ![r] = [op |-> op, link |-> link, read |-> links,
                                   sum |-> Linked(SymDiff(links, {link}), p)]]
     /\ UNCHANGED <<project, entries, links, cost, invoices, raced>>

\* The unique index refuses a link made twice, and a link deleted twice is not found.
CommitLinks(r) ==
  LET t == txn[r]
  IN /\ t.op \in {"link", "unlink"}
     /\ t.op = "link" <=> t.link \notin links
     /\ project[t.link.project].status # "deleted"
     /\ links' = SymDiff(links, {t.link})
     /\ project' = [project EXCEPT ![t.link.project].cost = t.sum]
     /\ txn' = [txn EXCEPT ![r] = Idle]
     /\ raced' = (raced \/ links # t.read)
     /\ UNCHANGED <<entries, cost, invoices>>

\* delete of a project without entries, its links with it.
DropProject(p) ==
  /\ "drop" \in Ops
  /\ project[p].status \in {"active", "on_hold"}
  /\ \A i \in DOMAIN entries : entries[i].project = p => entries[i].status = "deleted"
  /\ project' = [project EXCEPT ![p].status = "deleted"]
  /\ links' = {l \in links : l.project # p}
  /\ UNCHANGED <<entries, cost, invoices, txn, raced>>

Rollback(r) == /\ txn[r] # Idle
               /\ txn' = [txn EXCEPT ![r] = Idle]
               /\ UNCHANGED <<project, entries, links, cost, invoices, raced>>

Next ==
  \/ \E p \in Project : DropProject(p) \/ UpdateProject(p, "completed")
  \/ \E p \in Project, m \in Minutes, b \in BOOLEAN : CreateEntry(p, m, b, "none")
  \/ \E p \in Project, b \in BOOLEAN : CreateEntry(p, 0, b, "running")
  \/ \E r \in Req :
       \/ \E i \in DOMAIN entries, op \in {"update", "delete", "stop", "approve"} :
            ReadEntry(r, op, i)
       \/ \E m \in Minutes : CommitMinutes(r, m) \/ CommitStop(r, m)
       \/ \E b \in BOOLEAN : CommitBillable(r, b)
       \/ CommitDelete(r) \/ CommitApprove(r)
       \/ \E ids \in SUBSET DOMAIN entries : ReadBill(r, ids)
       \/ ReadNumber(r) \/ CommitBill(r) \/ CommitLinks(r) \/ Rollback(r)
       \/ \E p \in Project, x \in Expense, op \in {"link", "unlink"} : ReadLinks(r, op, p, x)

Spec == Init /\ [][Next]_vars

-----------------------------------------------------------------------------
(* Properties.                                                             *)

\* Every variable has its type.
TypeOK == /\ project \in [Project -> ProjectRow] /\ entries \in Seq(Entry)
          /\ links \subseteq [project: Project, expense: Expense]

On(k, i) == i \in DOMAIN invoices[k].lines

\* Unless requests overlapped: no time is on two invoices; an entry is billed
\* only with the line of an invoice, but for those a request named that it could
\* not bill; and the cost of a project is that of its links.
TimeBilledOnce ==
  ~raced =>
    /\ \A k, l \in DOMAIN invoices, i \in DOMAIN entries : On(k, i) /\ On(l, i) => k = l
    /\ \A i \in DOMAIN entries :
         entries[i].status = "billed" /\ ~entries[i].stray => On(entries[i].invoice, i)
    /\ \A p \in Project : project[p].status # "deleted" => project[p].cost = Linked(links, p)

\* "Bill time entries - create invoice, mark entries as billed": an entry marked
\* billed is on the invoice it points at, with one request at a time.
BilledIsInvoiced ==
  \A i \in DOMAIN entries :
    entries[i].status = "billed" /\ ~raced => On(entries[i].invoice, i)
=============================================================================
