------------------------------ MODULE Expenses ------------------------------
(***************************************************************************)
(* One expense (ExpensesService): edited while pending, approved, posted   *)
(* to the journal, voided; and its entry voided in the journal itself      *)
(* (JournalService.void).  Requests overlap: one reads the expense, and    *)
(* later writes what follows from what it read.                            *)
(***************************************************************************)
EXTENDS Integers, Sequences, Functions

CONSTANTS
  Req,        \* request slots
  Amounts,    \* amounts of the expense, in cents
  MaxEntries  \* bound: journal entries

\* What the constants have to satisfy.
ExpensesAssumption == Amounts \subseteq Nat \ {0} /\ MaxEntries \in Nat

VARIABLES
  expense,   \* the row of expenses; "account" is whether it has a payment account
  je,        \* its journal entries: the status, the amount, the entry it reverses
  period_open,
  txn,       \* per slot: the operation, what it read and was sent
  raced      \* history: a request wrote after another changed the expense it had read

vars == <<expense, je, period_open, txn, raced>>

Expense == [status: {"pending", "approved", "posted", "voided"}, amount: Amounts,
            account: BOOLEAN, je: 0..MaxEntries]

Entry == [status: {"posted", "voided"}, amount: Int, of: 0..MaxEntries]

Idle == [op |-> "none"]

-----------------------------------------------------------------------------
\* create.
Init == /\ expense \in [status: {"pending"}, amount: Amounts, account: BOOLEAN, je: {0}]
        /\ je = <<>> /\ period_open \in BOOLEAN
        /\ txn = [r \in Req |-> Idle]
        /\ raced = FALSE

Accepts(op) == CASE op \in {"update", "approve"} -> {"pending"}
                 [] op = "post" -> {"pending", "approved"}
                 [] op = "void" -> {"pending", "approved", "posted"}

Sent(op) == CASE op = "update" -> [op: {op}, amount: Amounts, account: BOOLEAN]
              [] op = "post"   -> [op: {op}, account: BOOLEAN]
              [] OTHER         -> [op: {op}]

\* The reads and the guards of a handler; post also needs an open period and a
\* payment account, its own or one sent.
Read(r) ==
  /\ txn[r] = Idle
  /\ \E op \in {"update", "approve", "post", "void"} : \E t \in Sent(op) :
       /\ expense.status \in Accepts(op)
       /\ op = "post" => period_open /\ (t.account \/ expense.account)
       /\ txn' = [txn EXCEPT ![r] = [op |-> op, sent |-> t, read |-> expense]]
  /\ UNCHANGED <<expense, je, period_open, raced>>

Finish(r) == /\ txn' = [txn EXCEPT ![r] = Idle]
             /\ raced' = (raced \/ expense # txn[r].read)
             /\ UNCHANGED period_open

CommitUpdate(r) ==
  /\ txn[r].op = "update"
  /\ expense' = [expense EXCEPT !.amount = txn[r].sent.amount, !.account = txn[r].sent.account]
  /\ Finish(r)
  /\ UNCHANGED je

CommitApprove(r) ==
  /\ txn[r].op = "approve"
  /\ expense' = [expense EXCEPT !.status = "approved"]
  /\ Finish(r)
  /\ UNCHANGED je

\* Debit the expense account, credit the payment account, by the amount read.
CommitPost(r) ==
  /\ txn[r].op = "post"
  /\ Len(je) < MaxEntries
  /\ je' = Append(je, [status |-> "posted", amount |-> txn[r].read.amount, of |-> 0])
  /\ expense' = [expense EXCEPT !.status = "posted", !.je = Len(je) + 1]
  /\ Finish(r)

ReverseEntry(i) == /\ Len(je) < MaxEntries
              /\ je' = Append([je EXCEPT ![i].status = "voided"],
                              [status |-> "posted", amount |-> -je[i].amount, of |-> i])

\* Fault: the entry is reversed again if the journal has voided it.
ReversibleFault(i) == i # 0

\* The entry is there and posted; of two requests that both find it posted, the
\* immutability trigger refuses the second.
Reversible(i) == i # 0 /\ je[i].status = "posted"

\* voidExpense.
CommitVoid(r) ==
  /\ txn[r].op = "void"
  /\ IF Reversible(txn[r].read.je) THEN ReverseEntry(txn[r].read.je) ELSE UNCHANGED je
  /\ expense' = [expense EXCEPT !.status = "voided"]
  /\ Finish(r)

Rollback(r) == /\ txn[r] # Idle
               /\ txn' = [txn EXCEPT ![r] = Idle]
               /\ UNCHANGED <<expense, je, period_open, raced>>

\* JournalService.void of an entry: the expense is not told.
VoidInJournal(i) ==
  /\ je[i].status = "posted"
  /\ period_open
  /\ ReverseEntry(i)
  /\ UNCHANGED <<expense, period_open, txn, raced>>

TogglePeriod == /\ period_open' = ~period_open
                /\ UNCHANGED <<expense, je, txn, raced>>

Next == \/ \E r \in Req : \/ Read(r) \/ Rollback(r) \/ CommitUpdate(r) \/ CommitApprove(r)
                          \/ CommitPost(r) \/ CommitVoid(r)
        \/ \E i \in DOMAIN je : VoidInJournal(i)
        \/ TogglePeriod

Spec == Init /\ [][Next]_vars

-----------------------------------------------------------------------------
(* Properties.                                                             *)

\* Every variable has its type.
TypeOK == expense \in Expense /\ je \in Seq(Entry)

\* What an entry and its reversals add up to.
Effect(i) == SumFunctionOnSet([k \in DOMAIN je |-> je[k].amount],
                              {k \in DOMAIN je : k = i \/ je[k].of = i})

\* voidExpense and JournalService.void: whatever overlaps, the reversals of an
\* entry never take back more than it had booked.
ReversedOnce ==
  \A i, j \in DOMAIN je : je[i].of # 0 /\ je[i].of = je[j].of => i = j

\* An expense that no request wrote on stale reads has one entry of its own,
\* of its amount, if it is or was posted; nothing is left of a voided one.
ExpenseSettles ==
  ~raced =>
    /\ expense.status \in {"pending", "approved"} => je = <<>>
    /\ expense.status = "posted" => expense.je # 0 /\ je[expense.je].amount = expense.amount
    /\ \A i \in DOMAIN je : je[i].of = 0 /\ i # expense.je => Effect(i) = 0
    /\ expense.status = "voided" /\ expense.je # 0 => Effect(expense.je) = 0
=============================================================================
