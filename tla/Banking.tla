------------------------------- MODULE Banking -------------------------------
(***************************************************************************)
(* One bank account (BankingService): its transactions, entered by hand,   *)
(* from a CSV file, or synced from Plaid; its balance; reconciling and     *)
(* unreconciling a transaction.  Syncs overlap: one reads the time of the  *)
(* last sync and asks Plaid, then looks for duplicates, then commits.      *)
(* Plaid may show a transaction days after its date.  A reconciliation     *)
(* reads the transaction and writes it later.                              *)
(***************************************************************************)
EXTENDS Integers, Sequences, FiniteSets, FiniteSetsExt, Functions

CONSTANTS
  Req,       \* request slots
  Ops,       \* the operations used
  Amounts,   \* amounts, in cents; a withdrawal is negative
  Window,    \* days the first sync looks back: 30
  MaxDay, MaxTxns, MaxFeed, MaxEntries, MaxUndone  \* bounds

\* What the constants have to satisfy.
BankingAssumption == /\ Ops \subseteq {"create", "csv", "sync", "reconcile"}
                     /\ Amounts \subseteq Int /\ Window \in Nat
                     /\ {MaxDay, MaxTxns, MaxFeed, MaxEntries, MaxUndone} \subseteq Nat
                     /\ MaxDay # 0

VARIABLES
  balance,    \* bank_accounts.current_balance
  rows,       \* bank_transactions
  last_sync,  \* plaid_last_sync, as a day; 0 is null
  feed,       \* what Plaid shows: the date, the amount, and, history, whether it came
              \* too late, or was too old, for the syncs that had begun
  day,
  je,         \* entries made by reconciling: the row
  txn,        \* per slot: what is under way
  raced       \* history: a row was reconciled by two requests that overlapped

vars == <<balance, rows, last_sync, feed, day, je, txn, raced>>

\* "ref" is the Plaid transaction; "seen" is history: how many rows the request
\* that wrote the row had seen; "undone" too: how often it was unreconciled.
Row == [amount: Int, ref: 0..MaxFeed, reconciled: BOOLEAN, je: 0..MaxEntries,
        seen: 0..MaxTxns, undone: 0..MaxUndone]

Idle == [op |-> "none"]

-----------------------------------------------------------------------------
Init == /\ balance = 0 /\ rows = <<>> /\ last_sync = 0 /\ feed = <<>> /\ day = 1 /\ je = <<>>
        /\ txn = [r \in Req |-> Idle]
        /\ raced = FALSE

NewRow(amount, ref, seen) == [amount |-> amount, ref |-> ref, reconciled |-> FALSE, je |-> 0,
                              seen |-> seen, undone |-> 0]

Total(rs) == SumFunction([i \in DOMAIN rs |-> rs[i].amount])

\* Insert rows, and add to the balance in the statement that writes it.
Insert(rs) == /\ Len(rows) + Len(rs) <= MaxTxns
              /\ rows' = rows \o rs
              /\ balance' = balance + Total(rs)

\* createTransaction.
CreateTransaction(a) == /\ Insert(<<NewRow(a, 0, Len(rows))>>)
                        /\ UNCHANGED <<last_sync, feed, day, je, txn, raced>>

\* importCsv: the rows that parse.
ImportCsv(as) == /\ Insert([i \in DOMAIN as |-> NewRow(as[i], 0, Len(rows))])
                 /\ UNCHANGED <<last_sync, feed, day, je, txn, raced>>

\* Fault: the day of the last sync is not asked for again.
StartDateFault == IF last_sync # 0 THEN last_sync + 1 ELSE day - Window

\* The day a sync asks Plaid from.
StartDate == IF last_sync # 0 THEN last_sync ELSE day - Window

\* Syncs that have begun, as days.
Begun == {last_sync} \cup {txn[r].day : r \in {q \in Req : txn[q].op = "sync"}}

\* Plaid shows a transaction of some day up to today.
Appear(date, a) ==
  /\ Len(feed) < MaxFeed
  /\ feed' = Append(feed, [date |-> date, amount |-> a, late |-> date < Max(Begun)])
  /\ UNCHANGED <<balance, rows, last_sync, day, je, txn, raced>>

NextDay == /\ day < MaxDay
           /\ day' = day + 1
           /\ UNCHANGED <<balance, rows, last_sync, feed, je, txn, raced>>

\* syncPlaidTransactions asks for what has happened since the last sync.
BeginSync(r) ==
  /\ txn[r] = Idle
  /\ txn' = [txn EXCEPT ![r] =
       [op |-> "sync", day |-> day, seen |-> 0, fresh |-> {}, ready |-> FALSE,
        fetched |-> {f \in DOMAIN feed : feed[f].date >= StartDate}]]
  /\ feed' = [f \in DOMAIN feed |->
                [feed[f] EXCEPT !.late = @ \/ (last_sync = 0 /\ feed[f].date < day - Window)]]
  /\ UNCHANGED <<balance, rows, last_sync, day, je, raced>>

Known == {rows[i].ref : i \in DOMAIN rows}

\* Duplicates are looked for by their reference, among the committed rows.
Check(r) ==
  /\ txn[r].op = "sync" /\ ~txn[r].ready
  /\ txn' = [txn EXCEPT ![r].fresh = txn[r].fetched \ Known, ![r].seen = Len(rows),
                        ![r].ready = TRUE]
  /\ UNCHANGED <<balance, rows, last_sync, feed, day, je, raced>>

\* The rows, the balance, and plaid_last_sync, the time the transaction began.
CommitSync(r) ==
  /\ txn[r].op = "sync" /\ txn[r].ready
  /\ \E order \in Bijection(1..Cardinality(txn[r].fresh), txn[r].fresh) :
       Insert([k \in DOMAIN order |->
                 NewRow(-feed[order[k]].amount, order[k], txn[r].seen)])
  /\ last_sync' = txn[r].day
  /\ txn' = [txn EXCEPT ![r] = Idle]
  /\ UNCHANGED <<feed, day, je, raced>>

\* reconcileTransaction finds the row open.
BeginReconcile(r, i, auto) ==
  /\ txn[r] = Idle
  /\ ~rows[i].reconciled
  /\ txn' = [txn EXCEPT ![r] = [op |-> "reconcile", row |-> i, auto |-> auto,
                                read |-> rows[i]]]
  /\ UNCHANGED <<balance, rows, last_sync, feed, day, je, raced>>

\* With a fiscal period and no entry given it posts one, with a debit and a
\* credit that may not be zero (chk_debit_or_credit).
CommitReconcile(r) ==
  LET t == txn[r] IN
  /\ t.op = "reconcile"
  /\ t.auto => t.read.amount # 0 /\ Len(je) < MaxEntries
  /\ je' = IF t.auto THEN Append(je, t.row) ELSE je
  /\ rows' = [rows EXCEPT ![t.row].reconciled = TRUE,
                          ![t.row].je = IF t.auto THEN Len(je) + 1 ELSE 0]
  /\ raced' = (raced \/ rows[t.row] # t.read)
  /\ txn' = [txn EXCEPT ![r] = Idle]
  /\ UNCHANGED <<balance, last_sync, feed, day>>

\* unreconcileTransaction lets go of the entry, which stays posted.
Unreconcile(i) ==
  /\ rows[i].reconciled /\ rows[i].undone < MaxUndone
  /\ rows' = [rows EXCEPT ![i].reconciled = FALSE, ![i].je = 0, ![i].undone = @ + 1]
  /\ UNCHANGED <<balance, last_sync, feed, day, je, txn, raced>>

Rollback(r) == /\ txn[r] # Idle
               /\ txn' = [txn EXCEPT ![r] = Idle]
               /\ UNCHANGED <<balance, rows, last_sync, feed, day, je, raced>>

Sync(r) == BeginSync(r) \/ Check(r) \/ CommitSync(r)

Reconcile(r) == \/ \E i \in DOMAIN rows, auto \in BOOLEAN : BeginReconcile(r, i, auto)
                \/ CommitReconcile(r)

Plaid == NextDay \/ \E d \in 1..day, a \in Amounts : Appear(d, a)

Next == \/ "create" \in Ops /\ \E a \in Amounts : CreateTransaction(a)
        \/ "csv" \in Ops /\ \E as \in [1..2 -> Amounts] : ImportCsv(as)
        \/ "sync" \in Ops /\ (Plaid \/ \E r \in Req : Sync(r))
        \/ "reconcile" \in Ops /\ (\/ \E r \in Req : Reconcile(r)
                                    \/ \E i \in DOMAIN rows : Unreconcile(i))
        \/ \E r \in Req : Rollback(r)

Spec == Init /\ [][Next]_vars

-----------------------------------------------------------------------------
(* Properties.                                                             *)

\* Every variable has its type.
TypeOK == /\ balance \in Int /\ rows \in Seq(Row) /\ last_sync \in 0..MaxDay
          /\ je \in Seq(1..MaxTxns)

\* What the rows of a set amount to.
Amount(S) == SumFunctionOnSet([i \in DOMAIN rows |-> rows[i].amount], S)

Reconciled == {i \in DOMAIN rows : rows[i].reconciled}

\* reconciliationSummary: bank balance minus book balance is what is not
\* reconciled, however imports and syncs overlap.
Difference == balance - Amount(Reconciled)
BalanceIsSum == Difference = Amount(DOMAIN rows \ Reconciled)

\* syncPlaidTransactions: a Plaid transaction is imported twice only by a sync
\* that had looked for it before the other committed; and one that a sync has
\* passed over, Plaid showed only after a sync had begun on a later day, or it
\* was older than the first sync looks.
SyncComplete ==
  /\ \A i, j \in DOMAIN rows :
       (i < j /\ rows[i].ref # 0 /\ rows[i].ref = rows[j].ref) => rows[j].seen < i
  /\ \A f \in DOMAIN feed :
       feed[f].date < last_sync => f \in Known \/ feed[f].late

\* reconcileTransaction: a row has more than one entry only if it was
\* unreconciled in between, or by two requests that overlapped.
EntryPerReconciliation ==
  ~raced => \A i \in DOMAIN rows :
    /\ Cardinality({k \in DOMAIN je : je[k] = i}) <=
         rows[i].undone + (IF rows[i].je # 0 THEN 1 ELSE 0)
    /\ rows[i].je # 0 => je[rows[i].je] = i
=============================================================================
