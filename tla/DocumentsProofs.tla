--------------------------- MODULE DocumentsProofs --------------------------
(***************************************************************************)
(* Proofs about Documents.tla, for every set of parameters of each of its  *)
(* components.  Expenses, bills and credit notes each keep the entries of  *)
(* one document in the journal: what those entries are, whatever a         *)
(* document does, comes first; then, for each of the three, an inductive   *)
(* invariant with every action that keeps it, from which its properties    *)
(* follow, for every set of requests, lines, rates, amounts and payments.  *)
(* Then bank accounts, whose rows, feed and entries are sequences without  *)
(* a bound but that of the parameters; invoices, from InvoicesProofs.tla;  *)
(* and last the documents beside each other.                               *)
(***************************************************************************)
EXTENDS Documents, SetLemmas, SequenceTheorems, FunctionTheorems

-----------------------------------------------------------------------------
(* The entries of a document: each may be reversed, by one that comes after  *)
(* it and names it.                                                          *)

\* A reversal comes after its entry, and that one is voided.
ReversedIsVoided ==
  \A m \in DOMAIN je : /\ je[m].of \in Nat /\ je[m].of < m
                       /\ je[m].of # 0 => je[je[m].of].status = "voided"

\* A voided entry has a reversal, and only one.
VoidedIsReversed ==
  \A i \in DOMAIN je : je[i].status = "voided" => \E m \in DOMAIN je : je[m].of = i

OnlyReversal == \A i, j \in DOMAIN je : je[i].of # 0 /\ je[i].of = je[j].of => i = j

Entries(E) == je \in Seq(E) /\ ReversedIsVoided /\ VoidedIsReversed /\ OnlyReversal

\* An entry that reverses nothing is added.
LEMMA EntryAdded ==
  ASSUME NEW E, Entries(E), NEW x \in E, x.of = 0, x.status # "voided", je' = Append(je, x)
  PROVE  /\ Entries(E)'
         /\ Len(je) \in Nat /\ Len(je') = Len(je) + 1
         /\ DOMAIN je = 1..Len(je) /\ DOMAIN je' = 1..(Len(je) + 1)
         /\ \A i \in DOMAIN je : je'[i] = je[i]
         /\ je'[Len(je) + 1] = x
  <1>1. je \in Seq(E) /\ Len(je) \in Nat /\ DOMAIN je = 1..Len(je)
    BY LenProperties DEF Entries
  <1>2. /\ je' \in Seq(E) /\ Len(je') = Len(je) + 1 /\ DOMAIN je' = 1..(Len(je) + 1)
        /\ \A i \in DOMAIN je : je'[i] = je[i]
        /\ je'[Len(je) + 1] = x
    BY <1>1, AppendProperties
  <1>3. \A m \in DOMAIN je' : m \in DOMAIN je \/ m = Len(je) + 1
    BY <1>1, <1>2
  <1>4. ReversedIsVoided'
    <2> SUFFICES ASSUME NEW m \in DOMAIN je'
                 PROVE  /\ je'[m].of \in Nat /\ je'[m].of < m
                        /\ je'[m].of # 0 => je'[je'[m].of].status = "voided"
      BY DEF ReversedIsVoided
    <2>1. CASE m \in DOMAIN je
      <3>1. je'[m] = je[m] /\ je[m].of \in Nat /\ je[m].of < m
        BY <1>2, <2>1 DEF Entries, ReversedIsVoided
      <3>2. je[m].of # 0 => je'[je[m].of] = je[je[m].of]
        BY <1>1, <1>2, <2>1, <3>1
      <3> QED
        BY <2>1, <3>1, <3>2 DEF Entries, ReversedIsVoided
    <2>2. CASE m = Len(je) + 1
      BY <1>1, <1>2, <2>2
    <2> QED
      BY <1>3, <2>1, <2>2
  <1>5. VoidedIsReversed'
    <2> SUFFICES ASSUME NEW i \in DOMAIN je', je'[i].status = "voided"
                 PROVE  \E m \in DOMAIN je' : je'[m].of = i
      BY DEF VoidedIsReversed
    <2>1. i \in DOMAIN je /\ je[i].status = "voided"
      BY <1>2, <1>3
    <2>2. PICK m \in DOMAIN je : je[m].of = i
      BY <2>1 DEF Entries, VoidedIsReversed
    <2> QED
      BY <1>1, <1>2, <2>2
  <1>6. OnlyReversal'
    <2> SUFFICES ASSUME NEW i \in DOMAIN je', NEW j \in DOMAIN je',
                        je'[i].of # 0, je'[i].of = je'[j].of
                 PROVE  i = j
      BY DEF OnlyReversal
    <2>1. i \in DOMAIN je /\ j \in DOMAIN je
      BY <1>2, <1>3
    <2> QED
      BY <1>2, <2>1 DEF Entries, OnlyReversal
  <1> QED
    BY <1>1, <1>2, <1>4, <1>5, <1>6 DEF Entries

\* Entry k, which is posted, becomes y, and is reversed by x.
Reversing(k, y, x) ==
  /\ je[k].status = "posted"
  /\ y = [je[k] EXCEPT !.status = "voided"] /\ y.status = "voided" /\ y.of = je[k].of
  /\ x.of = k /\ x.status # "voided"
  /\ je' = Append([je EXCEPT ![k].status = "voided"], x)

\* A posted entry has no reversal, so that a new one is its only one.
LEMMA EntryReversed ==
  ASSUME NEW E, Entries(E), NEW k \in DOMAIN je, NEW y \in E, NEW x \in E, Reversing(k, y, x)
  PROVE  /\ Entries(E)'
         /\ Len(je) \in Nat /\ Len(je') = Len(je) + 1
         /\ DOMAIN je = 1..Len(je) /\ DOMAIN je' = 1..(Len(je) + 1)
         /\ \A i \in DOMAIN je : je'[i] = IF i = k THEN y ELSE je[i]
         /\ je'[Len(je) + 1] = x
         /\ \A m \in DOMAIN je : je[m].of # k
  <1> USE DEF Reversing
  <1> DEFINE voided == [je EXCEPT ![k].status = "voided"]
  <1>1. je \in Seq(E) /\ Len(je) \in Nat /\ DOMAIN je = 1..Len(je)
    BY LenProperties DEF Entries
  <1>2. voided = [je EXCEPT ![k] = y]
    BY <1>1
  <1>3. /\ voided \in Seq(E) /\ Len(voided) = Len(je) /\ DOMAIN voided = DOMAIN je
        /\ \A i \in DOMAIN je : voided[i] = IF i = k THEN y ELSE je[i]
    BY <1>1, <1>2, ExceptSeq, LenProperties
  <1> HIDE DEF voided
  <1>4. PICK v \in Seq(E) : v = voided /\ je' = Append(v, x)
    BY <1>3 DEF voided
  <1>5. /\ je' \in Seq(E) /\ Len(je') = Len(je) + 1 /\ DOMAIN je' = 1..(Len(je) + 1)
        /\ \A i \in DOMAIN je : je'[i] = IF i = k THEN y ELSE je[i]
        /\ je'[Len(je) + 1] = x
    <2>1. /\ Append(v, x) \in Seq(E) /\ Len(Append(v, x)) = Len(v) + 1
          /\ \A i \in DOMAIN v : Append(v, x)[i] = v[i]
          /\ Append(v, x)[Len(v) + 1] = x
      BY AppendProperties, LenProperties
    <2>2. /\ je' \in Seq(E) /\ Len(je') = Len(v) + 1
          /\ \A i \in DOMAIN v : je'[i] = v[i]
          /\ je'[Len(v) + 1] = x
      BY <1>4, <2>1, Zenon
    <2> QED
      BY <1>1, <1>3, <1>4, <2>2, LenProperties
  <1>6. \A m \in DOMAIN je' : m \in DOMAIN je \/ m = Len(je) + 1
    BY <1>1, <1>5
  <1>7. k \in Nat /\ k # 0 /\ k < Len(je) + 1
    BY <1>1
  <1>8. \A m \in DOMAIN je : je'[m].of = je[m].of /\ je[m].of \in Nat /\ je[m].of < m
    BY <1>5 DEF Entries, ReversedIsVoided
  <1>9. \A m \in DOMAIN je : je[m].of # k
    BY <1>7 DEF Entries, ReversedIsVoided
  <1>10. ReversedIsVoided'
    <2> SUFFICES ASSUME NEW m \in DOMAIN je'
                 PROVE  /\ je'[m].of \in Nat /\ je'[m].of < m
                        /\ je'[m].of # 0 => je'[je'[m].of].status = "voided"
      BY DEF ReversedIsVoided
    <2>1. CASE m \in DOMAIN je
      <3>1. je[m].of # 0 => je'[je[m].of] = je[je[m].of]
        BY <1>1, <1>5, <1>8, <1>9, <2>1
      <3> QED
        BY <1>8, <2>1, <3>1 DEF Entries, ReversedIsVoided
    <2>2. CASE m = Len(je) + 1
      BY <1>5, <1>7, <2>2
    <2> QED
      BY <1>6, <2>1, <2>2
  <1>11. VoidedIsReversed'
    <2> SUFFICES ASSUME NEW i \in DOMAIN je', je'[i].status = "voided"
                 PROVE  \E m \in DOMAIN je' : je'[m].of = i
      BY DEF VoidedIsReversed
    <2>1. i \in DOMAIN je
      BY <1>5, <1>6
    <2>2. CASE i = k
      BY <1>1, <1>5, <2>2
    <2>3. CASE i # k
      <3>1. PICK m \in DOMAIN je : je[m].of = i
        BY <1>5, <2>1, <2>3 DEF Entries, VoidedIsReversed
      <3> QED
        BY <1>1, <1>5, <1>8, <3>1
    <2> QED
      BY <2>2, <2>3
  <1>12. OnlyReversal'
    <2> SUFFICES ASSUME NEW i \in DOMAIN je', NEW j \in DOMAIN je',
                        je'[i].of # 0, je'[i].of = je'[j].of
                 PROVE  i = j
      BY DEF OnlyReversal
    <2>1. CASE i \in DOMAIN je /\ j \in DOMAIN je
      BY <1>8, <2>1 DEF Entries, OnlyReversal
    <2>2. CASE i = Len(je) + 1 \/ j = Len(je) + 1
      BY <1>5, <1>6, <1>8, <1>9, <2>2
    <2> QED
      BY <1>6, <2>1, <2>2
  <1> QED
    BY <1>1, <1>5, <1>9, <1>10, <1>11, <1>12 DEF Entries

\* None, at first.
LEMMA NoEntries ==
  ASSUME NEW E, je = <<>>
  PROVE  Entries(E) /\ Len(je) = 0 /\ DOMAIN je = {}
  <1>1. je \in Seq(E) /\ Len(je) = 0 /\ DOMAIN je = {}
    BY EmptySeq
  <1> QED
    BY <1>1 DEF Entries, ReversedIsVoided, VoidedIsReversed, OnlyReversal

-----------------------------------------------------------------------------
(* Expenses.  The inductive invariant.                                     *)

\* What a request may have read: a row that links an entry that exists.
ExpenseSeen(c) == {x \in Expense(c)!Expense : x.je <= Len(je)}

ExpenseUpdating(c) == [op: {"update"}, sent: Expense(c)!Sent("update"), read: ExpenseSeen(c)]
ExpenseOthers(c)   == [op: {"approve", "post", "void"},
             sent: UNION {Expense(c)!Sent(op) : op \in {"approve", "post", "void"}},
             read: ExpenseSeen(c)]

ExpenseSlots(c) == {Expense(c)!Idle} \cup ExpenseUpdating(c) \cup ExpenseOthers(c)

ExpenseTxnOK(c) == txn \in [ExpenseCase[c].req -> ExpenseSlots(c)]

ExpenseLinksOK(c) == Len(je) <= ExpenseCase[c].entries /\ expense \in ExpenseSeen(c)

ExpenseIInv(c) == Expense(c)!TypeOK /\ ExpenseLinksOK(c) /\ ExpenseTxnOK(c)
                   /\ Entries(Expense(c)!Entry)

-----------------------------------------------------------------------------
(* What the statements do to the entries.                                  *)

\* What the assumption says of the parameters.
LEMMA ExpenseConstantsType ==
  ASSUME NEW c, Expense(c)!ExpensesAssumption
  PROVE  ExpenseCase[c].entries \in Nat /\ 0 \in 0..ExpenseCase[c].entries /\ ExpenseCase[c].amounts \subseteq Nat
  BY DEF Expense!ExpensesAssumption

\* The journal keeps its entries and gets one more.
ExpenseGrown(c) == Len(je') = Len(je) + 1 /\ Len(je') <= ExpenseCase[c].entries /\ je' \in Seq(Expense(c)!Entry)

\* What a request has read stays an entry that exists.
LEMMA ExpenseSeenStays ==
  ASSUME NEW c, Expense(c)!ExpensesAssumption, ExpenseIInv(c), ExpenseGrown(c) \/ UNCHANGED je
  PROVE  ExpenseSeen(c) \subseteq ExpenseSeen(c)' /\ ExpenseUpdating(c) \subseteq ExpenseUpdating(c)' /\ ExpenseOthers(c) \subseteq ExpenseOthers(c)'
  <1>1. Len(je) \in Nat /\ Len(je) <= Len(je')
    BY LenProperties DEF ExpenseIInv, Expense!TypeOK, ExpenseGrown
  <1>2. \A x \in Expense(c)!Expense : x.je \in Nat
    BY DEF Expense!Expense
  <1>3. ExpenseSeen(c) \subseteq ExpenseSeen(c)'
    BY <1>1, <1>2 DEF ExpenseSeen, ExpenseGrown
  <1> QED
    BY <1>3 DEF ExpenseUpdating, ExpenseOthers

\* A request that ends leaves the others as they were.
LEMMA ExpenseSlotStep ==
  ASSUME NEW c, Expense(c)!ExpensesAssumption, ExpenseIInv(c), ExpenseGrown(c) \/ UNCHANGED je,
         NEW r \in ExpenseCase[c].req, txn' = [txn EXCEPT ![r] = Expense(c)!Idle]
  PROVE  ExpenseTxnOK(c)'
  <1>1. txn \in [ExpenseCase[c].req -> ExpenseSlots(c)']
    BY ExpenseSeenStays DEF ExpenseIInv, ExpenseTxnOK, ExpenseSlots
  <1>2. txn' \in [ExpenseCase[c].req -> ExpenseSlots(c)']
    BY <1>1 DEF ExpenseSlots, Expense!Idle
  <1> QED
    BY <1>2 DEF ExpenseTxnOK, ExpenseSlots, Expense!Idle

\* What a slot holds.
LEMMA ExpenseSlotType ==
  ASSUME NEW c, ExpenseIInv(c), NEW r \in ExpenseCase[c].req, txn[r] # Expense(c)!Idle
  PROVE  txn[r].read \in ExpenseSeen(c)
  BY DEF ExpenseIInv, ExpenseTxnOK, ExpenseSlots, ExpenseUpdating, ExpenseOthers

\* A new entry that reverses nothing is reversed by nothing.
LEMMA ExpenseAppendKeeps ==
  ASSUME NEW c, Expense(c)!ExpensesAssumption, ExpenseIInv(c), Len(je) < ExpenseCase[c].entries,
         NEW x \in Expense(c)!Entry, x.of = 0, x.status = "posted", je' = Append(je, x)
  PROVE  ExpenseGrown(c) /\ Entries(Expense(c)!Entry)'
  <1>1. Entries(Expense(c)!Entry)' /\ Len(je) \in Nat /\ Len(je') = Len(je) + 1
    BY EntryAdded DEF ExpenseIInv
  <1> QED
    BY <1>1, ExpenseConstantsType DEF ExpenseGrown, Entries

\* What the reversal of an entry makes of it, and is.
LEMMA ExpenseReversal ==
  ASSUME NEW c, Expense(c)!ExpensesAssumption, ExpenseIInv(c), NEW k \in DOMAIN je, je[k].status = "posted",
         Expense(c)!ReverseEntry(k)
  PROVE  \E y, x \in Expense(c)!Entry :
           /\ y = [je[k] EXCEPT !.status = "voided"]
           /\ y.status = "voided" /\ y.of = je[k].of /\ y.amount = je[k].amount
           /\ x.of = k /\ x.status = "posted" /\ x.amount = -je[k].amount
           /\ je' = Append([je EXCEPT ![k].status = "voided"], x)
  <1>1. PICK e \in Expense(c)!Entry : e = je[k]
    BY ElementOfSeq, LenProperties DEF ExpenseIInv, Entries
  <1>2. PICK y \in Expense(c)!Entry : y = [e EXCEPT !.status = "voided"]
    BY DEF Expense!Entry
  <1>3. y.status = "voided" /\ y.of = e.of /\ y.amount = e.amount
    BY <1>2 DEF Expense!Entry
  <1>4. k \in Nat /\ k <= Len(je) /\ Len(je) < ExpenseCase[c].entries /\ e.amount \in Int
        /\ Len(je) \in Nat /\ ExpenseCase[c].entries \in Nat
    BY ExpenseConstantsType, LenProperties DEF ExpenseIInv, Entries, Expense!ReverseEntry, Expense!Entry
  <1>5. PICK x \in Expense(c)!Entry : x = [status |-> "posted", amount |-> -e.amount, of |-> k]
    <2>1. k \in 0..ExpenseCase[c].entries /\ -e.amount \in Int
      BY <1>4
    <2>2. [status |-> "posted", amount |-> -e.amount, of |-> k] \in Expense(c)!Entry
      BY <2>1 DEF Expense!Entry
    <2> QED
      BY <2>2
  <1>6. je' = Append([je EXCEPT ![k].status = "voided"], x)
    BY <1>1, <1>5 DEF Expense!ReverseEntry
  <1>7. x.of = k /\ x.status = "posted" /\ x.amount = -e.amount
    BY <1>5
  <1>8. y = [je[k] EXCEPT !.status = "voided"]
    BY <1>1, <1>2
  <1> QED
    BY <1>1, <1>3, <1>6, <1>7, <1>8

\* An entry that is posted has no reversal, so that a new one is its only one.
LEMMA ExpenseReverseKeeps ==
  ASSUME NEW c, Expense(c)!ExpensesAssumption, ExpenseIInv(c), NEW k \in DOMAIN je, je[k].status = "posted",
         Expense(c)!ReverseEntry(k)
  PROVE  ExpenseGrown(c) /\ Entries(Expense(c)!Entry)'
  <1>1. PICK y \in Expense(c)!Entry, x \in Expense(c)!Entry :
          /\ y = [je[k] EXCEPT !.status = "voided"]
          /\ y.status = "voided" /\ y.of = je[k].of
          /\ x.of = k /\ x.status # "voided"
          /\ je' = Append([je EXCEPT ![k].status = "voided"], x)
    BY ExpenseReversal
  <1>2. Reversing(k, y, x)
    BY <1>1 DEF Reversing
  <1>3. Entries(Expense(c)!Entry)' /\ Len(je) \in Nat /\ Len(je') = Len(je) + 1
    BY <1>2, EntryReversed DEF ExpenseIInv
  <1>4. Len(je) < ExpenseCase[c].entries /\ ExpenseCase[c].entries \in Nat
    BY ExpenseConstantsType DEF Expense!ReverseEntry
  <1> QED
    BY <1>3, <1>4 DEF ExpenseGrown, Entries

-----------------------------------------------------------------------------
(* Expenses.  The steps.                                                   *)

\* The invariant holds at first.
LEMMA ExpenseInitIInv ==
  ASSUME NEW c, Expense(c)!ExpensesAssumption, Expense(c)!Init
  PROVE  ExpenseIInv(c)
  <1>1. je \in Seq(Expense(c)!Entry) /\ Len(je) = 0 /\ Entries(Expense(c)!Entry)
    BY NoEntries DEF Expense!Init, Entries
  <1>2. expense \in Expense(c)!Expense /\ expense.je = 0 /\ ExpenseCase[c].entries \in Nat
    BY ExpenseConstantsType DEF Expense!Init, Expense!Expense
  <1> QED
    BY <1>1, <1>2 DEF Expense!Init, ExpenseIInv, Expense!TypeOK, ExpenseLinksOK, ExpenseSeen, ExpenseTxnOK,
       ExpenseSlots

\* Steps that leave the entries alone.
LEMMA ExpenseQuietEntries ==
  ASSUME NEW c, ExpenseIInv(c), UNCHANGED je, expense' \in ExpenseSeen(c), ExpenseTxnOK(c)'
  PROVE  ExpenseIInv(c)'
  <1>1. ExpenseSeen(c)' = ExpenseSeen(c) /\ ExpenseSeen(c) \subseteq Expense(c)!Expense
    BY DEF ExpenseSeen
  <1> QED
    BY <1>1 DEF ExpenseIInv, Expense!TypeOK, ExpenseLinksOK, Entries, ReversedIsVoided, VoidedIsReversed,
       OnlyReversal

\* Steps that add one.
LEMMA ExpenseGrownEntries ==
  ASSUME NEW c, ExpenseIInv(c), ExpenseGrown(c), Entries(Expense(c)!Entry)', expense' \in ExpenseSeen(c)',
         ExpenseTxnOK(c)'
  PROVE  ExpenseIInv(c)'
  BY DEF ExpenseIInv, Expense!TypeOK, ExpenseLinksOK, ExpenseGrown, ExpenseSeen

\* read: the slot gets the row.
LEMMA ExpenseReadStep ==
  ASSUME NEW c, Expense(c)!ExpensesAssumption, ExpenseIInv(c), NEW r \in ExpenseCase[c].req,
         Expense(c)!Read(r)
  PROVE  ExpenseIInv(c)'
  <1>0. PICK op \in {"update", "approve", "post", "void"} : \E t \in Expense(c)!Sent(op) :
          txn' = [txn EXCEPT ![r] = [op |-> op, sent |-> t, read |-> expense]]
    BY DEF Expense!Read
  <1>1. PICK t \in Expense(c)!Sent(op) :
          txn' = [txn EXCEPT ![r] = [op |-> op, sent |-> t, read |-> expense]]
    BY <1>0
  <1>2. [op |-> op, sent |-> t, read |-> expense] \in ExpenseUpdating(c) \cup ExpenseOthers(c)
    BY DEF ExpenseIInv, ExpenseLinksOK, ExpenseUpdating, ExpenseOthers
  <1>3. txn' \in [ExpenseCase[c].req -> ExpenseSlots(c)]
    BY <1>1, <1>2 DEF ExpenseIInv, ExpenseTxnOK, ExpenseSlots
  <1>4. UNCHANGED <<je, expense>>
    BY DEF Expense!Read
  <1>5. ExpenseUpdating(c)' = ExpenseUpdating(c) /\ ExpenseOthers(c)' = ExpenseOthers(c)
    BY <1>4 DEF ExpenseUpdating, ExpenseOthers, ExpenseSeen
  <1>6. ExpenseTxnOK(c)'
    BY <1>3, <1>5 DEF ExpenseTxnOK, ExpenseSlots, Expense!Idle
  <1> QED
    BY <1>4, <1>6, ExpenseQuietEntries DEF ExpenseIInv, ExpenseLinksOK

\* update.
LEMMA ExpenseCommitUpdateStep ==
  ASSUME NEW c, Expense(c)!ExpensesAssumption, ExpenseIInv(c), NEW r \in ExpenseCase[c].req,
         Expense(c)!CommitUpdate(r)
  PROVE  ExpenseIInv(c)'
  <1>1. txn[r] \in ExpenseUpdating(c)
    BY DEF Expense!CommitUpdate, ExpenseIInv, ExpenseTxnOK, ExpenseSlots, ExpenseOthers, Expense!Idle
  <1>2. PICK s \in Expense(c)!Sent("update") : s = txn[r].sent
    BY <1>1 DEF ExpenseUpdating
  <1>3. s.amount \in ExpenseCase[c].amounts /\ s.account \in BOOLEAN
    BY DEF Expense!Sent
  <1>4. PICK e \in ExpenseSeen(c) : e = expense
    BY DEF ExpenseIInv, ExpenseLinksOK
  <1>5. [e EXCEPT !.amount = s.amount, !.account = s.account] \in ExpenseSeen(c)
    BY <1>3 DEF ExpenseSeen, Expense!Expense
  <1>6. expense' \in ExpenseSeen(c)
    BY <1>2, <1>4, <1>5 DEF Expense!CommitUpdate
  <1>7. UNCHANGED je /\ txn' = [txn EXCEPT ![r] = Expense(c)!Idle]
    BY DEF Expense!CommitUpdate, Expense!Finish
  <1>8. ExpenseTxnOK(c)'
    BY <1>7, ExpenseSlotStep
  <1> QED
    BY <1>6, <1>7, <1>8, ExpenseQuietEntries

\* A row that gets another status, and link, is a row.
LEMMA ExpenseStatusType ==
  ASSUME NEW c, NEW x \in Expense(c)!Expense, NEW s \in {"pending", "approved", "posted", "voided"}
  PROVE  [x EXCEPT !.status = s] \in Expense(c)!Expense /\ [x EXCEPT !.status = s].je = x.je
  BY DEF Expense!Expense

\* approve.
LEMMA ExpenseCommitApproveStep ==
  ASSUME NEW c, Expense(c)!ExpensesAssumption, ExpenseIInv(c), NEW r \in ExpenseCase[c].req,
         Expense(c)!CommitApprove(r)
  PROVE  ExpenseIInv(c)'
  <1>1. expense' \in ExpenseSeen(c)
    BY ExpenseStatusType DEF Expense!CommitApprove, ExpenseIInv, ExpenseLinksOK, ExpenseSeen
  <1>2. UNCHANGED je /\ txn' = [txn EXCEPT ![r] = Expense(c)!Idle]
    BY DEF Expense!CommitApprove, Expense!Finish
  <1>3. ExpenseTxnOK(c)'
    BY <1>2, ExpenseSlotStep
  <1> QED
    BY <1>1, <1>2, <1>3, ExpenseQuietEntries

\* post: an entry is added.
LEMMA ExpenseCommitPostStep ==
  ASSUME NEW c, Expense(c)!ExpensesAssumption, ExpenseIInv(c), NEW r \in ExpenseCase[c].req,
         Expense(c)!CommitPost(r)
  PROVE  ExpenseIInv(c)'
  <1>1. txn[r] # Expense(c)!Idle
    BY DEF Expense!CommitPost, Expense!Idle
  <1>2. PICK n \in ExpenseCase[c].amounts : n = txn[r].read.amount
    BY <1>1, ExpenseSlotType DEF ExpenseSeen, Expense!Expense
  <1>3. n \in Int /\ 0 \in 0..ExpenseCase[c].entries /\ Len(je) \in Nat /\ ExpenseCase[c].entries \in Nat
    BY LenProperties, ExpenseConstantsType DEF ExpenseIInv, Expense!TypeOK
  <1>4. [status |-> "posted", amount |-> n, of |-> 0] \in Expense(c)!Entry
    BY <1>3 DEF Expense!Entry
  <1>5. je' = Append(je, [status |-> "posted", amount |-> n, of |-> 0]) /\ Len(je) < ExpenseCase[c].entries
    BY <1>2 DEF Expense!CommitPost
  <1>6. ExpenseGrown(c) /\ Entries(Expense(c)!Entry)'
    BY <1>4, <1>5, ExpenseAppendKeeps
  <1>7. ExpenseTxnOK(c)'
    BY <1>6, ExpenseSlotStep DEF Expense!CommitPost, Expense!Finish
  <1>8. PICK e \in Expense(c)!Expense : e = expense
    BY DEF ExpenseIInv, ExpenseLinksOK, ExpenseSeen
  <1>9. Len(je) + 1 \in 0..ExpenseCase[c].entries
    BY <1>3, <1>5
  <1>10. [e EXCEPT !.status = "posted", !.je = Len(je) + 1] \in Expense(c)!Expense
    BY <1>9 DEF Expense!Expense
  <1>11. expense' \in Expense(c)!Expense /\ expense'.je = Len(je')
    BY <1>6, <1>8, <1>10 DEF Expense!CommitPost, ExpenseGrown, Expense!Expense
  <1>12. expense' \in ExpenseSeen(c)'
    BY <1>3, <1>6, <1>11 DEF ExpenseSeen, ExpenseGrown
  <1> QED
    BY <1>6, <1>7, <1>12, ExpenseGrownEntries

\* voidExpense: the entry is reversed.
LEMMA ExpenseCommitVoidStep ==
  ASSUME NEW c, Expense(c)!ExpensesAssumption, ExpenseIInv(c), NEW r \in ExpenseCase[c].req,
         Expense(c)!CommitVoid(r)
  PROVE  ExpenseIInv(c)'
  <1>1. txn[r] # Expense(c)!Idle /\ txn' = [txn EXCEPT ![r] = Expense(c)!Idle]
    BY DEF Expense!CommitVoid, Expense!Finish, Expense!Idle
  <1>2. PICK i \in 0..Len(je) : i = txn[r].read.je
    <2>1. txn[r].read \in Expense(c)!Expense /\ txn[r].read.je <= Len(je) /\ Len(je) \in Nat
      BY <1>1, ExpenseSlotType, LenProperties DEF ExpenseSeen, ExpenseIInv, Expense!TypeOK
    <2> QED
      BY <2>1 DEF Expense!Expense
  <1>3. expense' \in ExpenseSeen(c)
    BY ExpenseStatusType DEF Expense!CommitVoid, ExpenseIInv, ExpenseLinksOK, ExpenseSeen
  <1>4. CASE Expense(c)!Reversible(i)
    <2>1. i \in DOMAIN je /\ je[i].status = "posted"
      BY <1>4, LenProperties DEF Expense!Reversible, ExpenseIInv, Expense!TypeOK
    <2>2. Expense(c)!ReverseEntry(i)
      BY <1>2, <1>4 DEF Expense!CommitVoid
    <2>3. ExpenseGrown(c) /\ Entries(Expense(c)!Entry)'
      BY <2>1, <2>2, ExpenseReverseKeeps
    <2>4. expense' \in ExpenseSeen(c)' /\ ExpenseTxnOK(c)'
      BY <1>1, <1>3, <2>3, ExpenseSeenStays, ExpenseSlotStep
    <2> QED
      BY <2>3, <2>4, ExpenseGrownEntries
  <1>5. CASE ~Expense(c)!Reversible(i)
    <2>1. UNCHANGED je
      BY <1>2, <1>5 DEF Expense!CommitVoid
    <2> QED
      BY <1>1, <1>3, <2>1, ExpenseSlotStep, ExpenseQuietEntries
  <1> QED
    BY <1>4, <1>5

\* The journal voids the entry on its own.
LEMMA ExpenseVoidInJournalStep ==
  ASSUME NEW c, Expense(c)!ExpensesAssumption, ExpenseIInv(c), NEW i \in DOMAIN je,
         Expense(c)!VoidInJournal(i)
  PROVE  ExpenseIInv(c)'
  <1>1. ExpenseGrown(c) /\ Entries(Expense(c)!Entry)'
    BY ExpenseReverseKeeps DEF Expense!VoidInJournal
  <1>2. UNCHANGED <<expense, txn>>
    BY DEF Expense!VoidInJournal
  <1>3. expense' \in ExpenseSeen(c)' /\ txn \in [ExpenseCase[c].req -> ExpenseSlots(c)']
    BY <1>1, <1>2, ExpenseSeenStays DEF ExpenseIInv, ExpenseLinksOK, ExpenseTxnOK, ExpenseSlots
  <1>4. ExpenseTxnOK(c)'
    BY <1>2, <1>3 DEF ExpenseTxnOK, ExpenseSlots, Expense!Idle
  <1> QED
    BY <1>1, <1>3, <1>4, ExpenseGrownEntries

\* Steps that write neither the expense nor an entry, and end at most a request.
LEMMA ExpenseOtherStep ==
  ASSUME NEW c, Expense(c)!ExpensesAssumption, ExpenseIInv(c),
         Expense(c)!TogglePeriod \/ UNCHANGED Expense(c)!vars \/ \E r \in ExpenseCase[c].req : Expense(c)!Rollback(r)
  PROVE  ExpenseIInv(c)'
  <1>1. UNCHANGED <<expense, je>>
    BY DEF Expense!TogglePeriod, Expense!vars, Expense!Rollback
  <1>2. ExpenseTxnOK(c)'
    <2>1. CASE UNCHANGED txn
      BY <1>1, <2>1 DEF ExpenseIInv, ExpenseTxnOK, ExpenseSlots, ExpenseUpdating, ExpenseOthers,
         ExpenseSeen, Expense!Idle
    <2>2. ASSUME NEW r \in ExpenseCase[c].req, Expense(c)!Rollback(r)
          PROVE  ExpenseTxnOK(c)'
      BY <1>1, <2>2, ExpenseSlotStep DEF Expense!Rollback
    <2> QED
      BY <2>1, <2>2 DEF Expense!TogglePeriod, Expense!vars
  <1> QED
    BY <1>1, <1>2, ExpenseQuietEntries DEF ExpenseIInv, ExpenseLinksOK

\* Every action keeps the invariant.
LEMMA ExpenseNextStep ==
  ASSUME NEW c, Expense(c)!ExpensesAssumption, ExpenseIInv(c), Expense(c)!Next \/ UNCHANGED Expense(c)!vars
  PROVE  ExpenseIInv(c)'
  <1>1. ASSUME NEW r \in ExpenseCase[c].req, Expense(c)!Read(r)
        PROVE  ExpenseIInv(c)'
    BY <1>1, ExpenseReadStep
  <1>2. ASSUME NEW r \in ExpenseCase[c].req, Expense(c)!CommitUpdate(r)
        PROVE  ExpenseIInv(c)'
    BY <1>2, ExpenseCommitUpdateStep
  <1>3. ASSUME NEW r \in ExpenseCase[c].req, Expense(c)!CommitApprove(r)
        PROVE  ExpenseIInv(c)'
    BY <1>3, ExpenseCommitApproveStep
  <1>4. ASSUME NEW r \in ExpenseCase[c].req, Expense(c)!CommitPost(r)
        PROVE  ExpenseIInv(c)'
    BY <1>4, ExpenseCommitPostStep
  <1>5. ASSUME NEW r \in ExpenseCase[c].req, Expense(c)!CommitVoid(r)
        PROVE  ExpenseIInv(c)'
    BY <1>5, ExpenseCommitVoidStep
  <1>6. ASSUME NEW i \in DOMAIN je, Expense(c)!VoidInJournal(i)
        PROVE  ExpenseIInv(c)'
    BY <1>6, ExpenseVoidInJournalStep
  <1>7. CASE Expense(c)!TogglePeriod \/ UNCHANGED Expense(c)!vars \/ \E r \in ExpenseCase[c].req : Expense(c)!Rollback(r)
    BY <1>7, ExpenseOtherStep
  <1> QED
    BY <1>1, <1>2, <1>3, <1>4, <1>5, <1>6, <1>7 DEF Expense!Next

-----------------------------------------------------------------------------
(* What an expense settles to.                                             *)

\* A request goes on from a status its handler accepts.
ExpenseAccepted(c) ==
  \A r \in ExpenseCase[c].req :
    txn[r] # Expense(c)!Idle => txn[r].read.status \in Expense(c)!Accepts(txn[r].op)

\* A reversal books the opposite of its entry.
ExpenseOpposite ==
  \A m \in DOMAIN je : je[m].of # 0 => je[m].amount = -je[je[m].of].amount

\* An expense that no request wrote on stale reads links its only entry that
\* reverses nothing, once it is posted; that one is voided when it is voided.
ExpenseLinked ==
  ~raced =>
    /\ expense.status \in {"pending", "approved"} => je = <<>> /\ expense.je = 0
    /\ expense.status = "posted" => /\ expense.je \in DOMAIN je
                                    /\ je[expense.je].amount = expense.amount
    /\ \A i \in DOMAIN je : je[i].of = 0 => i = expense.je
    /\ expense.status = "voided" /\ expense.je # 0 => je[expense.je].status = "voided"

ExpenseBooks(c) == ExpenseIInv(c) /\ ExpenseAccepted(c) /\ ExpenseOpposite /\ ExpenseLinked

\* The sum the module takes from the library.
LEMMA ExpenseSum ==
  ASSUME NEW c, NEW h, NEW S
  PROVE  Expense(c)!SumFunctionOnSet(h, S) = SumOver(h, S)
  <1>1. Expense(c)!SumFunctionOnSet(h, S) = SumFunctionOnSet(h, S)
    BY Zenon DEF Expense!SumFunctionOnSet, Expense!FoldFunctionOnSet, Expense!MapThenFoldSet,
                 SumFunctionOnSet, FoldFunctionOnSet, MapThenFoldSet
  <1> QED
    BY <1>1, SumFunctionIs

\* An entry and its only reversal cancel out.
LEMMA ExpenseCancels ==
  ASSUME NEW c, Expense(c)!ExpensesAssumption, ExpenseBooks(c),
         NEW i \in DOMAIN je, je[i].status = "voided"
  PROVE  Expense(c)!Effect(i) = 0
  <1>1. \A k \in DOMAIN je : je[k] \in Expense(c)!Entry
    BY ElementOfSeq, LenProperties DEF ExpenseBooks, ExpenseIInv, Entries
  <1>2. PICK m \in DOMAIN je : je[m].of = i
    BY DEF ExpenseBooks, ExpenseIInv, Entries, VoidedIsReversed
  <1>3. i \in Nat /\ i # 0 /\ i # m
    BY <1>2, LenProperties DEF ExpenseBooks, ExpenseIInv, Entries, ReversedIsVoided
  <1>4. {k \in DOMAIN je : k = i \/ je[k].of = i} = {i, m}
    BY <1>2, <1>3 DEF ExpenseBooks, ExpenseIInv, Entries, OnlyReversal
  <1> DEFINE h == [k \in DOMAIN je |-> je[k].amount]
  <1>5. h[i] \in Int /\ h[m] \in Int /\ h[m] = -h[i]
    BY <1>1, <1>2, <1>3 DEF ExpenseBooks, ExpenseOpposite, Expense!Entry
  <1>6. Expense(c)!Effect(i) = SumOver(h, {i, m})
    <2>1. Expense(c)!Effect(i) = Expense(c)!SumFunctionOnSet(h, {k \in DOMAIN je : k = i \/ je[k].of = i})
      BY Zenon DEF Expense!Effect
    <2> HIDE DEF h
    <2> QED
      BY <1>4, <2>1, ExpenseSum
  <1> HIDE DEF h
  <1>7. SumOver(h, {i, m}) = h[i] + h[m]
    BY <1>3, <1>5, SumPair
  <1> QED
    BY <1>5, <1>6, <1>7

\* The invariant says what ExpenseSettles says.
LEMMA ExpenseBooksSettle ==
  ASSUME NEW c, Expense(c)!ExpensesAssumption, ExpenseBooks(c)
  PROVE  Expense(c)!ExpenseSettles
  <1>1. SUFFICES ASSUME ~raced
                 PROVE  /\ expense.status \in {"pending", "approved"} => je = <<>>
                        /\ expense.status = "posted" =>
                             expense.je # 0 /\ je[expense.je].amount = expense.amount
                        /\ \A i \in DOMAIN je : je[i].of = 0 /\ i # expense.je => Expense(c)!Effect(i) = 0
                        /\ expense.status = "voided" /\ expense.je # 0 => Expense(c)!Effect(expense.je) = 0
    BY DEF Expense!ExpenseSettles
  <1>2. ExpenseLinked /\ ExpenseIInv(c)
    BY DEF ExpenseBooks
  <1>3. 0 \notin DOMAIN je
    BY <1>2, LenProperties DEF ExpenseIInv, Entries
  <1>4. ASSUME expense.je # 0 PROVE expense.je \in DOMAIN je
    <2>1. expense.je \in Nat /\ expense.je <= Len(je) /\ Len(je) \in Nat /\ DOMAIN je = 1..Len(je)
      BY <1>2, LenProperties DEF ExpenseIInv, ExpenseLinksOK, ExpenseSeen, Entries, Expense!Expense
    <2> QED
      BY <1>4, <2>1
  <1>5. expense.status = "voided" /\ expense.je # 0 => Expense(c)!Effect(expense.je) = 0
    BY <1>1, <1>2, <1>4, ExpenseCancels DEF ExpenseLinked
  <1> QED
    BY <1>1, <1>2, <1>3, <1>5 DEF ExpenseLinked

\* At first there are no entries.
LEMMA ExpenseInitBooks ==
  ASSUME NEW c, Expense(c)!ExpensesAssumption, Expense(c)!Init
  PROVE  ExpenseBooks(c)
  <1>1. je = <<>> /\ DOMAIN je = {} /\ expense.je = 0 /\ expense.status = "pending"
    BY NoEntries DEF Expense!Init
  <1>2. ExpenseAccepted(c)
    BY DEF Expense!Init, ExpenseAccepted, Expense!Idle
  <1> QED
    BY <1>1, <1>2, ExpenseInitIInv DEF ExpenseBooks, ExpenseOpposite, ExpenseLinked

\* A request that ends leaves the others as they were.
LEMMA ExpenseAcceptedEnd ==
  ASSUME NEW c, ExpenseBooks(c), NEW r \in ExpenseCase[c].req, txn' = [txn EXCEPT ![r] = Expense(c)!Idle]
  PROVE  ExpenseAccepted(c)'
  <1>1. \A q \in ExpenseCase[c].req : txn'[q] = IF q = r THEN Expense(c)!Idle ELSE txn[q]
    BY DEF ExpenseBooks, ExpenseIInv, ExpenseTxnOK, ExpenseSlots
  <1>2. ASSUME NEW q \in ExpenseCase[c].req, txn'[q] # Expense(c)!Idle
        PROVE  txn'[q].read.status \in Expense(c)!Accepts(txn'[q].op)
    <2>1. txn'[q] = txn[q]
      BY <1>1, <1>2
    <2> QED
      BY <1>2, <2>1 DEF ExpenseBooks, ExpenseAccepted
  <1>3. \A q \in ExpenseCase[c].req : txn'[q] # Expense(c)!Idle' =>
          txn'[q].read.status \in Expense(c)!Accepts(txn'[q].op)
    BY <1>2 DEF Expense!Idle
  <1> QED
    BY <1>3 DEF ExpenseAccepted, Expense!Accepts

\* What a request that commits on fresh reads has read.
LEMMA ExpenseFresh ==
  ASSUME NEW c, ExpenseBooks(c), NEW r \in ExpenseCase[c].req, txn[r] # Expense(c)!Idle,
         Expense(c)!Finish(r), ~raced'
  PROVE  ~raced /\ expense = txn[r].read /\ expense.status \in Expense(c)!Accepts(txn[r].op)
  BY DEF ExpenseBooks, ExpenseAccepted, Expense!Finish

\* Steps that leave the row and the entries alone.
LEMMA ExpenseQuietBooks ==
  ASSUME NEW c, ExpenseBooks(c), UNCHANGED je, ExpenseIInv(c)', ExpenseAccepted(c)', ExpenseLinked'
  PROVE  ExpenseBooks(c)'
  BY DEF ExpenseBooks, ExpenseOpposite

\* What the reversal of an entry leaves of the entries.
LEMMA ExpenseReverseBooks ==
  ASSUME NEW c, Expense(c)!ExpensesAssumption, ExpenseBooks(c), NEW k \in DOMAIN je,
         je[k].status = "posted", Expense(c)!ReverseEntry(k)
  PROVE  /\ ExpenseOpposite'
         /\ Len(je) \in Nat /\ DOMAIN je = 1..Len(je) /\ DOMAIN je' = 1..(Len(je) + 1)
         /\ \A i \in DOMAIN je : /\ je'[i].of = je[i].of /\ je'[i].amount = je[i].amount
                                 /\ je'[i].status = IF i = k THEN "voided" ELSE je[i].status
         /\ je'[Len(je) + 1].of # 0
  <1>1. ExpenseIInv(c)
    BY DEF ExpenseBooks
  <1>2. PICK y \in Expense(c)!Entry, x \in Expense(c)!Entry :
          /\ y = [je[k] EXCEPT !.status = "voided"]
          /\ y.status = "voided" /\ y.of = je[k].of /\ y.amount = je[k].amount
          /\ x.of = k /\ x.status # "voided" /\ x.amount = -je[k].amount
          /\ je' = Append([je EXCEPT ![k].status = "voided"], x)
    BY <1>1, ExpenseReversal
  <1>3. /\ Len(je) \in Nat /\ DOMAIN je = 1..Len(je) /\ DOMAIN je' = 1..(Len(je) + 1)
        /\ \A i \in DOMAIN je : je'[i] = IF i = k THEN y ELSE je[i]
        /\ je'[Len(je) + 1] = x
    <2>1. Reversing(k, y, x)
      BY <1>2 DEF Reversing
    <2> QED
      BY <1>1, <2>1, EntryReversed DEF ExpenseIInv
  <1>4. \A i \in DOMAIN je : /\ je'[i].of = je[i].of /\ je'[i].amount = je[i].amount
                             /\ je'[i].status = IF i = k THEN "voided" ELSE je[i].status
    BY <1>2, <1>3
  <1>5. ExpenseOpposite'
    <2> SUFFICES ASSUME NEW m \in DOMAIN je', je'[m].of # 0
                 PROVE  je'[m].amount = -je'[je'[m].of].amount
      BY DEF ExpenseOpposite
    <2>1. CASE m \in DOMAIN je
      <3>1. je[m].of # 0 /\ je[m].of \in DOMAIN je
        BY <1>1, <1>3, <1>4, <2>1 DEF ExpenseIInv, Entries, ReversedIsVoided
      <3> QED
        BY <1>4, <2>1, <3>1 DEF ExpenseBooks, ExpenseOpposite
    <2>2. CASE m = Len(je) + 1
      BY <1>2, <1>3, <1>4, <2>2
    <2> QED
      BY <1>3, <2>1, <2>2
  <1>6. k # 0
    BY <1>3
  <1> QED
    BY <1>2, <1>3, <1>4, <1>5, <1>6

\* read: the status is one the handler accepts.
LEMMA ExpenseReadBooks ==
  ASSUME NEW c, Expense(c)!ExpensesAssumption, ExpenseBooks(c), NEW r \in ExpenseCase[c].req,
         Expense(c)!Read(r)
  PROVE  ExpenseBooks(c)'
  <1>1. ExpenseIInv(c)' /\ UNCHANGED <<je, expense, raced>>
    BY ExpenseReadStep DEF ExpenseBooks, Expense!Read
  <1>2. PICK op \in {"update", "approve", "post", "void"} :
          \E t \in Expense(c)!Sent(op) :
            /\ expense.status \in Expense(c)!Accepts(op)
            /\ txn' = [txn EXCEPT ![r] = [op |-> op, sent |-> t, read |-> expense]]
    BY DEF Expense!Read
  <1>3. PICK t \in Expense(c)!Sent(op) :
          txn' = [txn EXCEPT ![r] = [op |-> op, sent |-> t, read |-> expense]]
    BY <1>2
  <1>4. \A q \in ExpenseCase[c].req : q # r => txn'[q] = txn[q]
    BY <1>3 DEF ExpenseBooks, ExpenseIInv, ExpenseTxnOK, ExpenseSlots
  <1>5. txn'[r].op = op /\ txn'[r].read = expense
    BY <1>3 DEF ExpenseBooks, ExpenseIInv, ExpenseTxnOK, ExpenseSlots
  <1>6. \A q \in ExpenseCase[c].req : txn'[q] # Expense(c)!Idle' =>
          txn'[q].read.status \in Expense(c)!Accepts(txn'[q].op)
    BY <1>2, <1>4, <1>5 DEF ExpenseBooks, ExpenseAccepted, Expense!Idle
  <1>7. ExpenseAccepted(c)'
    BY <1>6 DEF ExpenseAccepted, Expense!Accepts
  <1>8. ExpenseLinked'
    BY <1>1 DEF ExpenseBooks, ExpenseLinked
  <1> QED
    BY <1>1, <1>7, <1>8, ExpenseQuietBooks

\* update: only while nothing is posted.
LEMMA ExpenseCommitUpdateBooks ==
  ASSUME NEW c, Expense(c)!ExpensesAssumption, ExpenseBooks(c), NEW r \in ExpenseCase[c].req,
         Expense(c)!CommitUpdate(r)
  PROVE  ExpenseBooks(c)'
  <1>0. ExpenseIInv(c)'
    BY ExpenseCommitUpdateStep DEF ExpenseBooks
  <1>1. ExpenseIInv(c)' /\ UNCHANGED je /\ txn[r] # Expense(c)!Idle /\ Expense(c)!Finish(r) /\ txn[r].op = "update"
    BY <1>0 DEF Expense!CommitUpdate, Expense!Idle
  <1>2. ExpenseAccepted(c)'
    BY <1>1, ExpenseAcceptedEnd DEF Expense!Finish
  <1>3. PICK e \in Expense(c)!Expense : e = expense
    BY DEF ExpenseBooks, ExpenseIInv, Expense!TypeOK
  <1>4. expense'.status = e.status /\ expense'.je = e.je
    BY <1>3 DEF Expense!CommitUpdate, Expense!Expense
  <1>5. ASSUME ~raced' PROVE ~raced /\ e.status = "pending"
    BY <1>1, <1>3, <1>5, ExpenseFresh DEF Expense!Accepts
  <1>6. ExpenseLinked'
    BY <1>1, <1>3, <1>4, <1>5 DEF ExpenseBooks, ExpenseLinked
  <1> QED
    BY <1>1, <1>2, <1>6, ExpenseQuietBooks

\* approve.
LEMMA ExpenseCommitApproveBooks ==
  ASSUME NEW c, Expense(c)!ExpensesAssumption, ExpenseBooks(c), NEW r \in ExpenseCase[c].req,
         Expense(c)!CommitApprove(r)
  PROVE  ExpenseBooks(c)'
  <1>1. ExpenseIInv(c)' /\ UNCHANGED je /\ txn[r] # Expense(c)!Idle /\ Expense(c)!Finish(r) /\ txn[r].op = "approve"
    BY ExpenseCommitApproveStep DEF ExpenseBooks, Expense!CommitApprove, Expense!Idle
  <1>2. ExpenseAccepted(c)'
    BY <1>1, ExpenseAcceptedEnd DEF Expense!Finish
  <1>3. PICK e \in Expense(c)!Expense : e = expense
    BY DEF ExpenseBooks, ExpenseIInv, Expense!TypeOK
  <1>4. expense'.status = "approved" /\ expense'.je = e.je
    BY <1>3 DEF Expense!CommitApprove, Expense!Expense
  <1>5. ASSUME ~raced' PROVE ~raced /\ e.status = "pending"
    BY <1>1, <1>3, <1>5, ExpenseFresh DEF Expense!Accepts
  <1>6. ExpenseLinked'
    BY <1>1, <1>3, <1>4, <1>5 DEF ExpenseBooks, ExpenseLinked
  <1> QED
    BY <1>1, <1>2, <1>6, ExpenseQuietBooks

\* post: the first entry, of the amount.
LEMMA ExpenseCommitPostBooks ==
  ASSUME NEW c, Expense(c)!ExpensesAssumption, ExpenseBooks(c), NEW r \in ExpenseCase[c].req,
         Expense(c)!CommitPost(r)
  PROVE  ExpenseBooks(c)'
  <1>1. ExpenseIInv(c)' /\ ExpenseIInv(c) /\ txn[r] # Expense(c)!Idle /\ Expense(c)!Finish(r) /\ txn[r].op = "post"
    BY ExpenseCommitPostStep DEF ExpenseBooks, Expense!CommitPost, Expense!Idle
  <1>2. ExpenseAccepted(c)'
    BY <1>1, ExpenseAcceptedEnd DEF Expense!Finish
  <1>3. PICK e \in Expense(c)!Expense : e = expense
    BY <1>1 DEF ExpenseIInv, Expense!TypeOK
  <1>4. PICK n \in ExpenseCase[c].amounts : n = txn[r].read.amount
    BY <1>1, ExpenseSlotType DEF ExpenseSeen, Expense!Expense
  <1>5. PICK x \in Expense(c)!Entry : x = [status |-> "posted", amount |-> n, of |-> 0]
    <2>1. n \in Int /\ 0 \in 0..ExpenseCase[c].entries
      BY ExpenseConstantsType
    <2>2. [status |-> "posted", amount |-> n, of |-> 0] \in Expense(c)!Entry
      BY <2>1 DEF Expense!Entry
    <2> QED
      BY <2>2
  <1>6. x.of = 0 /\ x.status # "voided" /\ x.amount = n
    BY <1>5
  <1>7. je' = Append(je, x)
    BY <1>4, <1>5 DEF Expense!CommitPost
  <1>8. /\ Len(je) \in Nat /\ DOMAIN je = 1..Len(je) /\ DOMAIN je' = 1..(Len(je) + 1)
        /\ \A i \in DOMAIN je : je'[i] = je[i]
        /\ je'[Len(je) + 1] = x
    BY <1>1, <1>6, <1>7, EntryAdded DEF ExpenseIInv
  <1>9. ExpenseOpposite'
    <2> SUFFICES ASSUME NEW m \in DOMAIN je', je'[m].of # 0
                 PROVE  je'[m].amount = -je'[je'[m].of].amount
      BY DEF ExpenseOpposite
    <2>1. m \in DOMAIN je
      BY <1>6, <1>8
    <2>2. je[m].of # 0 /\ je[m].of \in DOMAIN je
      BY <1>1, <1>8, <2>1 DEF ExpenseIInv, Entries, ReversedIsVoided
    <2> QED
      BY <1>8, <2>1, <2>2 DEF ExpenseBooks, ExpenseOpposite
  <1>10. expense'.status = "posted" /\ expense'.je = Len(je) + 1 /\ expense'.amount = e.amount
    BY <1>3 DEF Expense!CommitPost, Expense!Expense
  <1>11. ASSUME ~raced' PROVE je = <<>> /\ n = e.amount
    <2>1. ~raced /\ expense = txn[r].read /\ expense.status \in {"pending", "approved"}
      BY <1>1, <1>11, ExpenseFresh DEF Expense!Accepts
    <2> QED
      BY <1>3, <1>4, <2>1 DEF ExpenseBooks, ExpenseLinked
  <1>12. ExpenseLinked'
    <2>1. ASSUME ~raced' PROVE \A i \in DOMAIN je' : i = Len(je) + 1
      <3>1. DOMAIN je = {}
        BY <1>11, <2>1, NoEntries
      <3> QED
        BY <1>8, <3>1
    <2> QED
      BY <1>6, <1>8, <1>10, <1>11, <2>1 DEF ExpenseLinked
  <1> QED
    BY <1>1, <1>2, <1>9, <1>12 DEF ExpenseBooks

\* voidExpense: the reversal undoes the entry.
LEMMA ExpenseCommitVoidBooks ==
  ASSUME NEW c, Expense(c)!ExpensesAssumption, ExpenseBooks(c), NEW r \in ExpenseCase[c].req,
         Expense(c)!CommitVoid(r)
  PROVE  ExpenseBooks(c)'
  <1>1. ExpenseIInv(c)' /\ ExpenseIInv(c) /\ txn[r] # Expense(c)!Idle /\ Expense(c)!Finish(r) /\ txn[r].op = "void"
    BY ExpenseCommitVoidStep DEF ExpenseBooks, Expense!CommitVoid, Expense!Idle
  <1>2. ExpenseAccepted(c)'
    BY <1>1, ExpenseAcceptedEnd DEF Expense!Finish
  <1>3. PICK e \in Expense(c)!Expense : e = expense
    BY <1>1 DEF ExpenseIInv, Expense!TypeOK
  <1>4. expense'.status = "voided" /\ expense'.je = e.je
    BY <1>3 DEF Expense!CommitVoid, Expense!Expense
  <1>5. PICK i \in 0..Len(je) : i = txn[r].read.je
    <2>1. txn[r].read \in Expense(c)!Expense /\ txn[r].read.je <= Len(je) /\ Len(je) \in Nat
      BY <1>1, ExpenseSlotType, LenProperties DEF ExpenseSeen, ExpenseIInv, Entries
    <2> QED
      BY <2>1 DEF Expense!Expense
  <1>6. ASSUME ~raced' PROVE ~raced /\ e.je = i /\ e.status \in {"pending", "approved", "posted"}
    BY <1>1, <1>3, <1>5, <1>6, ExpenseFresh DEF Expense!Accepts
  <1>7. CASE Expense(c)!Reversible(i)
    <2>1. i \in DOMAIN je /\ je[i].status = "posted" /\ Expense(c)!ReverseEntry(i)
      BY <1>1, <1>5, <1>7, LenProperties DEF Expense!Reversible, Expense!CommitVoid, ExpenseIInv, Entries
    <2>2. /\ ExpenseOpposite'
          /\ Len(je) \in Nat /\ DOMAIN je = 1..Len(je) /\ DOMAIN je' = 1..(Len(je) + 1)
          /\ \A k \in DOMAIN je : /\ je'[k].of = je[k].of /\ je'[k].amount = je[k].amount
                                  /\ je'[k].status = IF k = i THEN "voided" ELSE je[k].status
          /\ je'[Len(je) + 1].of # 0
      BY <2>1, ExpenseReverseBooks
    <2>3. ExpenseLinked'
      BY <1>3, <1>4, <1>6, <2>1, <2>2 DEF ExpenseBooks, ExpenseLinked
    <2> QED
      BY <1>1, <1>2, <2>2, <2>3 DEF ExpenseBooks
  <1>8. CASE ~Expense(c)!Reversible(i)
    <2>1. UNCHANGED je
      BY <1>5, <1>8 DEF Expense!CommitVoid
    <2>2. i # 0 => je[i].status = "voided"
      <3>1. i # 0 => i \in DOMAIN je /\ je[i] \in Expense(c)!Entry
        BY <1>1, <1>5, ElementOfSeq, LenProperties DEF ExpenseIInv, Entries
      <3> QED
        BY <1>8, <3>1 DEF Expense!Reversible, Expense!Entry
    <2>3. ExpenseLinked'
      BY <1>3, <1>4, <1>6, <2>1, <2>2 DEF ExpenseBooks, ExpenseLinked
    <2> QED
      BY <1>1, <1>2, <2>1, <2>3, ExpenseQuietBooks
  <1> QED
    BY <1>7, <1>8

\* The journal voids the entry, and that counts as a race.
LEMMA ExpenseVoidInJournalBooks ==
  ASSUME NEW c, Expense(c)!ExpensesAssumption, ExpenseBooks(c), NEW i \in DOMAIN je,
         Expense(c)!VoidInJournal(i)
  PROVE  ExpenseBooks(c)'
  <1>1. ExpenseIInv(c)' /\ ExpenseIInv(c) /\ UNCHANGED <<expense, txn, raced>>
    BY ExpenseVoidInJournalStep DEF ExpenseBooks, Expense!VoidInJournal
  <1>2. ExpenseAccepted(c)'
    BY <1>1 DEF ExpenseBooks, ExpenseAccepted, Expense!Idle, Expense!Accepts
  <1>3. je[i].status = "posted" /\ Expense(c)!ReverseEntry(i)
    BY DEF Expense!VoidInJournal
  <1>4. /\ ExpenseOpposite'
        /\ Len(je) \in Nat /\ DOMAIN je = 1..Len(je) /\ DOMAIN je' = 1..(Len(je) + 1)
        /\ \A k \in DOMAIN je : /\ je'[k].of = je[k].of /\ je'[k].amount = je[k].amount
                                /\ je'[k].status = IF k = i THEN "voided" ELSE je[k].status
        /\ je'[Len(je) + 1].of # 0
    BY <1>3, ExpenseReverseBooks
  <1>5. je # <<>>
    BY NoEntries
  <1>6. expense.je # 0 => expense.je \in DOMAIN je
    <2>1. expense.je \in Nat /\ expense.je <= Len(je) /\ Len(je) \in Nat /\ DOMAIN je = 1..Len(je)
      BY <1>1, LenProperties DEF ExpenseIInv, ExpenseLinksOK, ExpenseSeen, Entries, Expense!Expense
    <2> QED
      BY <2>1
  <1>7. ExpenseLinked'
    BY <1>1, <1>4, <1>5, <1>6 DEF ExpenseBooks, ExpenseLinked
  <1> QED
    BY <1>1, <1>2, <1>4, <1>7 DEF ExpenseBooks

\* Rollbacks and fiscal periods.
LEMMA ExpenseOtherBooks ==
  ASSUME NEW c, Expense(c)!ExpensesAssumption, ExpenseBooks(c),
         Expense(c)!TogglePeriod \/ UNCHANGED Expense(c)!vars \/ \E r \in ExpenseCase[c].req : Expense(c)!Rollback(r)
  PROVE  ExpenseBooks(c)'
  <1>1. ExpenseIInv(c)' /\ UNCHANGED <<expense, je, raced>>
    BY ExpenseOtherStep DEF ExpenseBooks, Expense!TogglePeriod, Expense!vars, Expense!Rollback
  <1>2. ExpenseAccepted(c)'
    <2>1. CASE UNCHANGED txn
      BY <2>1 DEF ExpenseBooks, ExpenseAccepted, Expense!Idle, Expense!Accepts
    <2>2. ASSUME NEW r \in ExpenseCase[c].req, Expense(c)!Rollback(r)
          PROVE  ExpenseAccepted(c)'
      BY <2>2, ExpenseAcceptedEnd DEF Expense!Rollback
    <2> QED
      BY <2>1, <2>2 DEF Expense!TogglePeriod, Expense!vars
  <1>3. ExpenseLinked'
    BY <1>1 DEF ExpenseBooks, ExpenseLinked
  <1> QED
    BY <1>1, <1>2, <1>3, ExpenseQuietBooks

\* Every action keeps the books.
LEMMA ExpenseNextBooks ==
  ASSUME NEW c, Expense(c)!ExpensesAssumption, ExpenseBooks(c), Expense(c)!Next \/ UNCHANGED Expense(c)!vars
  PROVE  ExpenseBooks(c)'
  <1>1. ASSUME NEW r \in ExpenseCase[c].req, Expense(c)!Read(r)
        PROVE  ExpenseBooks(c)'
    BY <1>1, ExpenseReadBooks
  <1>2. ASSUME NEW r \in ExpenseCase[c].req, Expense(c)!CommitUpdate(r)
        PROVE  ExpenseBooks(c)'
    BY <1>2, ExpenseCommitUpdateBooks
  <1>3. ASSUME NEW r \in ExpenseCase[c].req, Expense(c)!CommitApprove(r)
        PROVE  ExpenseBooks(c)'
    BY <1>3, ExpenseCommitApproveBooks
  <1>4. ASSUME NEW r \in ExpenseCase[c].req, Expense(c)!CommitPost(r)
        PROVE  ExpenseBooks(c)'
    BY <1>4, ExpenseCommitPostBooks
  <1>5. ASSUME NEW r \in ExpenseCase[c].req, Expense(c)!CommitVoid(r)
        PROVE  ExpenseBooks(c)'
    BY <1>5, ExpenseCommitVoidBooks
  <1>6. ASSUME NEW i \in DOMAIN je, Expense(c)!VoidInJournal(i)
        PROVE  ExpenseBooks(c)'
    BY <1>6, ExpenseVoidInJournalBooks
  <1>7. CASE Expense(c)!TogglePeriod \/ UNCHANGED Expense(c)!vars \/ \E r \in ExpenseCase[c].req : Expense(c)!Rollback(r)
    BY <1>7, ExpenseOtherBooks
  <1> QED
    BY <1>1, <1>2, <1>3, <1>4, <1>5, <1>6, <1>7 DEF Expense!Next

-----------------------------------------------------------------------------
(* Bills.  What a request may have read is a bill that links an entry there  *)
(* is; and it goes on from a status its handler accepts, with no more than   *)
(* the balance it read.                                                      *)

BillSeen(c, n) == {b \in Bill(c)!Bill : b.je <= n}

BillOps == {"update", "rate", "receive", "approve", "pay", "void"}

BillSlots(c, n) ==
  {Bill(c)!Idle} \cup
  {t \in [sent: UNION {Bill(c)!Sent(op) : op \in BillOps}, op: BillOps, bill: BillSeen(c, n),
          lines: BillCase[c].lines, ready: BOOLEAN] :
     /\ t.sent \in Bill(c)!Sent(t.op) /\ t.bill.status \in Bill(c)!Accepts(t.op)
     /\ t.op = "pay" => t.sent.amount <= t.bill.balance}

BillIInv(c) ==
  /\ Entries(Bill(c)!Entry) /\ Len(je) <= BillCase[c].entries
  /\ bill \in BillSeen(c, Len(je)) /\ lines \in BillCase[c].lines
  /\ payments \in Seq(BillCase[c].payments)
  /\ txn \in [BillCase[c].req -> BillSlots(c, Len(je))]

\* What the assumption says of the parameters.
LEMMA BillConstantsType ==
  ASSUME NEW c, Bill(c)!BillsAssumption
  PROVE  /\ BillCase[c].entries \in Nat /\ 0 \in 0..BillCase[c].entries
         /\ \A a \in BillCase[c].payments : a \in Nat /\ a # 0
         /\ \A rate \in BillCase[c].rates : rate \in Nat
         /\ \A ls \in BillCase[c].lines : ls \in Seq(Nat)
  BY DEF Bill!BillsAssumption

\* The sum the module takes from the library.
LEMMA BillSum ==
  ASSUME NEW c, NEW s
  PROVE  Bill(c)!Sum(s) = SumOver(s, DOMAIN s) /\ Bill(c)!SumFunction(s) = SumOver(s, DOMAIN s)
  <1>1. Bill(c)!SumFunction(s) = SumFunctionOnSet(s, DOMAIN s)
    BY Zenon DEF Bill!SumFunction, Bill!FoldFunction, Bill!SumFunctionOnSet, Bill!FoldFunctionOnSet,
       Bill!MapThenFoldSet,
                 SumFunctionOnSet, FoldFunctionOnSet, MapThenFoldSet
  <1>2. Bill(c)!Sum(s) = Bill(c)!SumFunction(s)
    BY Zenon DEF Bill!Sum
  <1> QED
    BY <1>1, <1>2, SumFunctionIs

\* The sum of a sequence of amounts.
LEMMA SumOfSequence ==
  ASSUME NEW s \in Seq(Nat)
  PROVE  SumOver(s, DOMAIN s) \in Nat
  <1>1. PICK S : S = DOMAIN s
    OBVIOUS
  <1>2. IsFiniteSet(S) /\ \A x \in S : s[x] \in Nat
    <2>1. 1 \in Int /\ Len(s) \in Int /\ DOMAIN s = 1..Len(s) /\ s \in [1..Len(s) -> Nat]
      BY LenProperties
    <2>2. IsFiniteSet(S)
      BY <1>1, <2>1, FS_Interval
    <2> QED
      BY <1>1, <2>1, <2>2
  <1> QED
    BY <1>1, <1>2, SumNat

\* The tax is a natural number.
LEMMA BillTax ==
  ASSUME NEW c, NEW s \in Nat, NEW rate \in Nat
  PROVE  Bill(c)!Tax(s, rate) \in Nat
  <1>1. PICK p : p = 2 * s * rate
    OBVIOUS
  <1>2. p \in Nat
    BY <1>1
  <1>3. (p + 100) \div 200 \in Nat
    BY <1>2
  <1> QED
    BY <1>1, <1>3 DEF Bill!Tax

\* A bill that is priced keeps the rest.
LEMMA BillPriced ==
  ASSUME NEW c, Bill(c)!BillsAssumption, NEW n, NEW b \in BillSeen(c, n), NEW s \in Nat,
         NEW rate \in BillCase[c].rates
  PROVE  \E p \in BillSeen(c, n) :
           /\ p = Bill(c)!Priced(b, s, rate)
           /\ p.subtotal = s /\ p.rate = rate /\ p.tax = Bill(c)!Tax(s, rate)
           /\ p.total = s + p.tax /\ p.balance = p.total
           /\ p.paid = b.paid /\ p.status = b.status /\ p.je = b.je
  <1>1. PICK tax \in Nat : tax = Bill(c)!Tax(s, rate)
    BY BillTax, BillConstantsType
  <1>2. s + tax \in Nat /\ s + tax \in Int
    OBVIOUS
  <1>3. PICK p : p = [b EXCEPT !.rate = rate, !.subtotal = s, !.tax = tax, !.total = s + tax,
                               !.balance = s + tax]
    OBVIOUS
  <1>4. /\ p \in Bill(c)!Bill /\ p.subtotal = s /\ p.rate = rate /\ p.tax = tax
        /\ p.total = s + tax /\ p.balance = s + tax
        /\ p.paid = b.paid /\ p.status = b.status /\ p.je = b.je
    BY <1>2, <1>3 DEF BillSeen, Bill!Bill
  <1>5. p = Bill(c)!Priced(b, s, rate)
    BY <1>1, <1>3 DEF Bill!Priced
  <1> QED
    BY <1>1, <1>4, <1>5 DEF BillSeen

\* What a request has read stays an entry that exists.
LEMMA BillSlotsGrow ==
  ASSUME NEW c, NEW n \in Nat, NEW m \in Nat, n <= m
  PROVE  BillSeen(c, n) \subseteq BillSeen(c, m) /\ BillSlots(c, n) \subseteq BillSlots(c, m)
  <1>1. BillSeen(c, n) \subseteq BillSeen(c, m)
    BY DEF BillSeen, Bill!Bill
  <1> QED
    BY <1>1 DEF BillSlots

\* A request that ends leaves the others as they were.
LEMMA BillSlotStep ==
  ASSUME NEW c, BillIInv(c), Len(je') \in Nat, Len(je) <= Len(je'),
         NEW r \in BillCase[c].req, txn' = [txn EXCEPT ![r] = Bill(c)!Idle]
  PROVE  txn' \in [BillCase[c].req -> BillSlots(c, Len(je'))]
  <1>1. Len(je) \in Nat
    BY LenProperties DEF BillIInv, Entries
  <1>2. PICK n \in Nat, m \in Nat : n = Len(je) /\ m = Len(je') /\ n <= m
    BY <1>1
  <1>3. BillSlots(c, n) \subseteq BillSlots(c, m) /\ Bill(c)!Idle \in BillSlots(c, m)
    BY <1>2, BillSlotsGrow DEF BillSlots
  <1>4. txn \in [BillCase[c].req -> BillSlots(c, m)]
    BY <1>2, <1>3 DEF BillIInv
  <1> QED
    BY <1>2, <1>3, <1>4

\* A request that is on its way.
LEMMA BillSlotType ==
  ASSUME NEW c, BillIInv(c), NEW r \in BillCase[c].req, txn[r] # Bill(c)!Idle
  PROVE  /\ txn[r].op \in BillOps /\ txn[r].sent \in Bill(c)!Sent(txn[r].op)
         /\ txn[r].bill \in BillSeen(c, Len(je)) /\ txn[r].bill.status \in Bill(c)!Accepts(txn[r].op)
         /\ txn[r].op = "pay" => txn[r].sent.amount <= txn[r].bill.balance
         /\ txn[r].lines \in BillCase[c].lines
  BY DEF BillIInv, BillSlots

\* A bill that gets another status keeps the rest.
LEMMA BillStatusType ==
  ASSUME NEW c, NEW n, NEW b \in BillSeen(c, n), NEW s \in Bill(c)!Status
  PROVE  \E p \in BillSeen(c, n) :
           /\ p = [b EXCEPT !.status = s]
           /\ p.status = s /\ p.je = b.je /\ p.subtotal = b.subtotal /\ p.tax = b.tax /\ p.rate = b.rate
           /\ p.total = b.total /\ p.paid = b.paid /\ p.balance = b.balance
  <1>1. PICK p : p = [b EXCEPT !.status = s]
    OBVIOUS
  <1>2. p \in Bill(c)!Bill /\ p.status = s /\ p.je = b.je /\ p.subtotal = b.subtotal /\ p.tax = b.tax /\ p.rate = b.rate
        /\ p.total = b.total /\ p.paid = b.paid /\ p.balance = b.balance
    BY <1>1 DEF BillSeen, Bill!Bill
  <1> QED
    BY <1>1, <1>2 DEF BillSeen

-----------------------------------------------------------------------------
(* What a bill settles to.                                                 *)

BillAp == SumOver([i \in DOMAIN je |-> je[i].ap], DOMAIN je)

BillPrice(c) ==
  /\ bill.subtotal = SumOver(lines, DOMAIN lines)
  /\ bill.tax = Bill(c)!Tax(bill.subtotal, bill.rate)
  /\ bill.total = bill.subtotal + bill.tax

BillDue ==
  /\ bill.paid = SumOver(payments, DOMAIN payments)
  /\ bill.balance = bill.total - bill.paid /\ bill.balance >= 0
  /\ bill.status \in {"draft", "received", "approved"} => bill.paid = 0
  /\ bill.status = "paid" => bill.balance = 0
  /\ bill.status = "partial" => bill.balance > 0 /\ bill.paid > 0

\* The entry the bill links to adds its total to 2000, those of its payments
\* take off what they pay.
BillBooked ==
  /\ \A i \in DOMAIN je : je[i].debit = je[i].credit
  /\ bill.status \notin {"draft", "voided"} => /\ bill.je \in DOMAIN je
                                               /\ je[bill.je].status = "posted"
                                               /\ je[bill.je].ap = bill.total
  /\ BillAp = CASE bill.status = "draft"  -> 0
                [] bill.status = "voided" -> -bill.paid
                [] OTHER                  -> bill.total - bill.paid

BillLinked(c) ==
  ~raced => /\ BillPrice(c) /\ BillDue
            /\ bill.status = "draft" => je = <<>> /\ bill.je = 0
            /\ ~skipped => BillBooked

BillBooks(c) == BillIInv(c) /\ BillLinked(c)

\* What a request that commits on fresh reads has read.
LEMMA BillFresh ==
  ASSUME NEW c, BillBooks(c), NEW r \in BillCase[c].req, txn[r] # Bill(c)!Idle,
         Bill(c)!Finish(r), ~raced'
  PROVE  /\ ~raced /\ BillLinked(c) /\ bill = txn[r].bill /\ lines = txn[r].lines
         /\ bill.status \in Bill(c)!Accepts(txn[r].op)
         /\ txn[r].op = "pay" => txn[r].sent.amount <= bill.balance
         /\ txn' = [txn EXCEPT ![r] = Bill(c)!Idle] /\ UNCHANGED chart
  <1>1. ~raced /\ bill = txn[r].bill /\ lines = txn[r].lines /\ txn' = [txn EXCEPT ![r] = Bill(c)!Idle]
        /\ UNCHANGED chart
    BY DEF Bill!Finish
  <1>2. BillIInv(c) /\ BillLinked(c)
    BY DEF BillBooks
  <1> QED
    BY <1>1, <1>2, BillSlotType

\* What another entry adds to account 2000.
LEMMA BillApGrows ==
  ASSUME Len(je) \in Nat, DOMAIN je = 1..Len(je), DOMAIN je' = 1..(Len(je) + 1),
         \A i \in DOMAIN je : je'[i].ap = je[i].ap /\ je[i].ap \in Int,
         je'[Len(je) + 1].ap \in Int
  PROVE  BillAp \in Int /\ BillAp' = BillAp + je'[Len(je) + 1].ap
  <1>1. PICK n \in Nat : n = Len(je)
    OBVIOUS
  <1>2. PICK h, g : h = [i \in DOMAIN je |-> je[i].ap] /\ g = [i \in DOMAIN je' |-> je'[i].ap]
    OBVIOUS
  <1>3. /\ \A k \in 1..n : g[k] = h[k] /\ h[k] \in Int
        /\ g[n + 1] \in Int /\ g[n + 1] = je'[Len(je) + 1].ap
    BY <1>1, <1>2
  <1>4. SumOver(h, 1..n) \in Int /\ SumOver(g, 1..(n + 1)) = SumOver(h, 1..n) + g[n + 1]
    BY <1>3, SumAppend
  <1>5. BillAp = SumOver(h, 1..n) /\ BillAp' = SumOver(g, 1..(n + 1))
    BY <1>1, <1>2 DEF BillAp
  <1> QED
    BY <1>3, <1>4, <1>5

\* No entries, nothing on 2000.
LEMMA BillApNone ==
  ASSUME je = <<>>
  PROVE  BillAp = 0
  <1>1. PICK h : h = [i \in DOMAIN je |-> je[i].ap]
    OBVIOUS
  <1>2. DOMAIN je = {} /\ SumOver(h, {}) = 0
    BY SumEmpty, EmptySeq
  <1> QED
    BY <1>1, <1>2 DEF BillAp

-----------------------------------------------------------------------------
\* A new bill is priced by its lines and has no entries.
LEMMA BillInitBooks ==
  ASSUME NEW c, Bill(c)!BillsAssumption, Bill(c)!Init
  PROVE  BillBooks(c)
  <1>1. PICK ls \in BillCase[c].lines, rate \in BillCase[c].rates :
          lines = ls /\ bill = Bill(c)!Priced(Bill(c)!NewBill, Bill(c)!Sum(ls), rate)
    BY DEF Bill!Init
  <1>2. PICK s \in Nat : s = Bill(c)!Sum(ls) /\ s = SumOver(ls, DOMAIN ls)
    BY BillSum, SumOfSequence, BillConstantsType
  <1>3. PICK tax \in Nat : tax = Bill(c)!Tax(s, rate)
    BY BillTax, BillConstantsType
  <1>4. bill = [status |-> "draft", rate |-> rate, subtotal |-> s, tax |-> tax, total |-> s + tax,
                paid |-> 0, balance |-> s + tax, je |-> 0]
    BY <1>1, <1>2, <1>3 DEF Bill!Priced, Bill!NewBill
  <1>5. Entries(Bill(c)!Entry) /\ Len(je) = 0 /\ je = <<>>
    BY NoEntries DEF Bill!Init
  <1>6. bill \in BillSeen(c, 0)
    BY <1>4, BillConstantsType DEF BillSeen, Bill!Bill, Bill!Status
  <1>7. txn \in [BillCase[c].req -> BillSlots(c, 0)]
    BY DEF Bill!Init, BillSlots
  <1>8. payments = <<>> /\ payments \in Seq(BillCase[c].payments) /\ DOMAIN payments = {}
    BY EmptySeq DEF Bill!Init
  <1>9. BillIInv(c)
    BY <1>1, <1>5, <1>6, <1>7, <1>8, BillConstantsType DEF BillIInv
  <1>10. BillPrice(c)
    BY <1>1, <1>2, <1>3, <1>4 DEF BillPrice
  <1>11. BillDue
    <2>1. SumOver(payments, DOMAIN payments) = 0
      BY <1>8, SumEmpty
    <2> QED
      BY <1>4, <2>1 DEF BillDue
  <1>12. BillBooked
    <2>1. BillAp = 0
      BY <1>5, BillApNone
    <2>2. DOMAIN je = {}
      BY <1>5, EmptySeq
    <2> QED
      BY <1>4, <2>1, <2>2 DEF BillBooked
  <1> QED
    BY <1>4, <1>5, <1>9, <1>10, <1>11, <1>12 DEF BillBooks, BillLinked

\* Steps that leave the entries alone.
LEMMA BillQuiet ==
  ASSUME NEW c, BillIInv(c), UNCHANGED je, bill' \in BillSeen(c, Len(je)), lines' \in BillCase[c].lines,
         payments' \in Seq(BillCase[c].payments), txn' \in [BillCase[c].req -> BillSlots(c, Len(je))]
  PROVE  BillIInv(c)'
  <1>1. Entries(Bill(c)!Entry)' /\ Len(je') <= BillCase[c].entries
    BY DEF BillIInv, Entries, ReversedIsVoided, VoidedIsReversed, OnlyReversal
  <1> QED
    BY <1>1 DEF BillIInv

\* Steps that only change the requests.
LEMMA BillSame ==
  ASSUME NEW c, BillBooks(c), UNCHANGED <<bill, lines, payments, je, raced, skipped>>,
         txn' \in [BillCase[c].req -> BillSlots(c, Len(je))]
  PROVE  BillBooks(c)'
  <1>1. BillIInv(c)'
    BY BillQuiet DEF BillBooks, BillIInv
  <1>2. BillLinked(c)'
    BY DEF BillBooks, BillLinked, BillPrice, BillDue, BillBooked, BillAp, Bill!Tax
  <1> QED
    BY <1>1, <1>2 DEF BillBooks

\* The reads and the guards of a handler.
LEMMA BillReadStep ==
  ASSUME NEW c, Bill(c)!BillsAssumption, BillBooks(c), NEW r \in BillCase[c].req, Bill(c)!Read(r)
  PROVE  BillBooks(c)'
  <1>1. PICK op \in BillOps : \E t \in Bill(c)!Sent(op) :
          /\ bill.status \in Bill(c)!Accepts(op)
          /\ op = "pay" => t.amount <= bill.balance
          /\ txn' = [txn EXCEPT ![r] = [sent |-> t, op |-> op, bill |-> bill, lines |-> lines,
                                        ready |-> op # "receive"]]
    BY DEF Bill!Read, BillOps
  <1>2. PICK t \in Bill(c)!Sent(op) :
          /\ bill.status \in Bill(c)!Accepts(op)
          /\ op = "pay" => t.amount <= bill.balance
          /\ txn' = [txn EXCEPT ![r] = [sent |-> t, op |-> op, bill |-> bill, lines |-> lines,
                                        ready |-> op # "receive"]]
    BY <1>1
  <1>3. PICK x : x = [sent |-> t, op |-> op, bill |-> bill, lines |-> lines, ready |-> op # "receive"]
    OBVIOUS
  <1>4. x \in BillSlots(c, Len(je))
    <2>1. /\ t \in UNION {Bill(c)!Sent(o) : o \in BillOps} /\ (op # "receive") \in BOOLEAN
          /\ bill \in BillSeen(c, Len(je)) /\ lines \in BillCase[c].lines
      BY DEF BillBooks, BillIInv
    <2>2. x \in [sent: UNION {Bill(c)!Sent(o) : o \in BillOps}, op: BillOps, bill: BillSeen(c, Len(je)),
                 lines: BillCase[c].lines, ready: BOOLEAN]
      BY <1>3, <2>1
    <2>3. x.sent = t /\ x.op = op /\ x.bill = bill
      BY <1>3
    <2> QED
      BY <1>2, <2>2, <2>3 DEF BillSlots
  <1>5. txn' \in [BillCase[c].req -> BillSlots(c, Len(je))]
    BY <1>2, <1>3, <1>4 DEF BillBooks, BillIInv
  <1> QED
    BY <1>5, BillSame DEF Bill!Read

\* receive reads the lines.
LEMMA BillReadLinesStep ==
  ASSUME NEW c, Bill(c)!BillsAssumption, BillBooks(c), NEW r \in BillCase[c].req, Bill(c)!ReadLines(r)
  PROVE  BillBooks(c)'
  <1>1. PICK t \in BillSlots(c, Len(je)) : t = txn[r] /\ t # Bill(c)!Idle
    BY DEF BillBooks, BillIInv, Bill!ReadLines
  <1>2. PICK x : x = [t EXCEPT !.lines = lines, !.ready = TRUE]
    OBVIOUS
  <1>3. x \in BillSlots(c, Len(je))
    <2>1. lines \in BillCase[c].lines
      BY DEF BillBooks, BillIInv
    <2>2. /\ x \in [sent: UNION {Bill(c)!Sent(o) : o \in BillOps}, op: BillOps, bill: BillSeen(c, Len(je)),
                    lines: BillCase[c].lines, ready: BOOLEAN]
          /\ x.sent = t.sent /\ x.op = t.op /\ x.bill = t.bill
      BY <1>1, <1>2, <2>1 DEF BillSlots
    <2> QED
      BY <1>1, <2>2 DEF BillSlots
  <1>4. txn' = [txn EXCEPT ![r] = x]
    BY <1>1, <1>2 DEF Bill!ReadLines, BillBooks, BillIInv
  <1>5. txn' \in [BillCase[c].req -> BillSlots(c, Len(je))]
    BY <1>3, <1>4 DEF BillBooks, BillIInv
  <1> QED
    BY <1>5, BillSame DEF Bill!ReadLines

\* The request ends, and no entry is made.
LEMMA BillQuietEnd ==
  ASSUME NEW c, BillBooks(c), NEW r \in BillCase[c].req, UNCHANGED je,
         txn' = [txn EXCEPT ![r] = Bill(c)!Idle]
  PROVE  txn' \in [BillCase[c].req -> BillSlots(c, Len(je))]
  <1>1. Len(je) \in Nat
    BY LenProperties DEF BillBooks, BillIInv, Entries
  <1>2. BillIInv(c) /\ Len(je') = Len(je) /\ Len(je') \in Nat /\ Len(je) <= Len(je')
    BY <1>1 DEF BillBooks
  <1>3. txn' \in [BillCase[c].req -> BillSlots(c, Len(je'))]
    BY <1>2, BillSlotStep
  <1> QED
    BY <1>2, <1>3

\* A draft has no entries.
LEMMA BillDraft ==
  ASSUME NEW c, BillLinked(c), ~raced, bill.status = "draft", UNCHANGED je, bill'.status = "draft",
         ~skipped' => ~skipped
  PROVE  ~skipped' => BillBooked'
  <1>1. je = <<>> /\ DOMAIN je = {}
    BY EmptySeq DEF BillLinked
  <1>2. BillAp' = 0
    <2>1. BillAp = 0 /\ BillAp' = BillAp
      BY BillApNone DEF BillLinked, BillAp
    <2> QED
      BY <2>1
  <1> QED
    BY <1>1, <1>2 DEF BillBooked

\* update with lines: the bill is a draft, and priced again.
LEMMA BillCommitUpdateStep ==
  ASSUME NEW c, Bill(c)!BillsAssumption, BillBooks(c), NEW r \in BillCase[c].req, Bill(c)!CommitUpdate(r)
  PROVE  BillBooks(c)'
  <1>1. /\ txn[r] # Bill(c)!Idle /\ txn[r].op = "update" /\ Bill(c)!Finish(r)
        /\ UNCHANGED <<payments, je, skipped>> /\ txn' = [txn EXCEPT ![r] = Bill(c)!Idle]
    BY DEF Bill!CommitUpdate, Bill!Committing, Bill!Finish
  <1>2. PICK t \in Bill(c)!Sent("update") : t = txn[r].sent
    BY <1>1, BillSlotType DEF BillBooks
  <1>3. t.lines \in BillCase[c].lines /\ t.rate \in BillCase[c].rates
    BY DEF Bill!Sent
  <1>4. PICK s \in Nat : s = Bill(c)!Sum(t.lines) /\ s = SumOver(t.lines, DOMAIN t.lines)
    BY <1>3, BillSum, SumOfSequence, BillConstantsType
  <1>5. PICK b \in BillSeen(c, Len(je)) : b = bill
    BY DEF BillBooks, BillIInv
  <1>6. PICK p \in BillSeen(c, Len(je)) :
          /\ p = Bill(c)!Priced(b, s, t.rate)
          /\ p.subtotal = s /\ p.rate = t.rate /\ p.tax = Bill(c)!Tax(s, t.rate)
          /\ p.total = s + p.tax /\ p.balance = p.total
          /\ p.paid = b.paid /\ p.status = b.status /\ p.je = b.je
    BY <1>3, BillPriced
  <1>7. bill' = p /\ lines' = t.lines
    BY <1>2, <1>4, <1>5, <1>6 DEF Bill!CommitUpdate
  <1>8. BillIInv(c)'
    BY <1>1, <1>3, <1>7, BillQuietEnd, BillQuiet DEF BillBooks, BillIInv
  <1>9. ASSUME ~raced'
        PROVE  /\ BillPrice(c)' /\ BillDue'
               /\ bill'.status = "draft" => je' = <<>> /\ bill'.je = 0
               /\ ~skipped' => BillBooked'
    <2>1. ~raced /\ BillLinked(c) /\ b.status = "draft"
      BY <1>1, <1>5, <1>9, BillFresh DEF Bill!Accepts
    <2>2. BillPrice(c)'
      BY <1>4, <1>6, <1>7 DEF BillPrice, Bill!Tax
    <2>3. p.total \in Nat /\ b.paid = 0
      BY <1>5, <2>1 DEF BillLinked, BillDue, BillSeen, Bill!Bill
    <2>4. BillDue'
      BY <1>1, <1>5, <1>6, <1>7, <2>1, <2>3 DEF BillLinked, BillDue
    <2>5. ~skipped' => BillBooked'
      BY <1>1, <1>5, <1>6, <1>7, <2>1, BillDraft
    <2> QED
      BY <1>1, <1>5, <1>6, <1>7, <2>1, <2>2, <2>4, <2>5 DEF BillLinked
  <1> QED
    BY <1>8, <1>9 DEF BillBooks, BillLinked

\* update with a rate and no lines: from the subtotal read.
LEMMA BillCommitRateStep ==
  ASSUME NEW c, Bill(c)!BillsAssumption, BillBooks(c), NEW r \in BillCase[c].req, Bill(c)!CommitRate(r)
  PROVE  BillBooks(c)'
  <1>1. /\ txn[r] # Bill(c)!Idle /\ txn[r].op = "rate" /\ Bill(c)!Finish(r)
        /\ UNCHANGED <<lines, payments, je, skipped>> /\ txn' = [txn EXCEPT ![r] = Bill(c)!Idle]
    BY DEF Bill!CommitRate, Bill!Committing, Bill!Finish
  <1>2. PICK t \in Bill(c)!Sent("rate") : t = txn[r].sent
    BY <1>1, BillSlotType DEF BillBooks
  <1>3. t.rate \in BillCase[c].rates
    BY DEF Bill!Sent
  <1>4. PICK s \in Nat : s = txn[r].bill.subtotal
    BY <1>1, BillSlotType DEF BillBooks, BillSeen, Bill!Bill
  <1>5. PICK b \in BillSeen(c, Len(je)) : b = bill
    BY DEF BillBooks, BillIInv
  <1>6. PICK p \in BillSeen(c, Len(je)) :
          /\ p = Bill(c)!Priced(b, s, t.rate)
          /\ p.subtotal = s /\ p.rate = t.rate /\ p.tax = Bill(c)!Tax(s, t.rate)
          /\ p.total = s + p.tax /\ p.balance = p.total
          /\ p.paid = b.paid /\ p.status = b.status /\ p.je = b.je
    BY <1>3, BillPriced
  <1>7. bill' = p
    BY <1>2, <1>4, <1>5, <1>6 DEF Bill!CommitRate
  <1>8. BillIInv(c)'
    BY <1>1, <1>7, BillQuietEnd, BillQuiet DEF BillBooks, BillIInv
  <1>9. ASSUME ~raced'
        PROVE  /\ BillPrice(c)' /\ BillDue'
               /\ bill'.status = "draft" => je' = <<>> /\ bill'.je = 0
               /\ ~skipped' => BillBooked'
    <2>1. ~raced /\ BillLinked(c) /\ b.status = "draft" /\ s = b.subtotal
      BY <1>1, <1>4, <1>5, <1>9, BillFresh DEF Bill!Accepts
    <2>2. BillPrice(c)'
      BY <1>1, <1>5, <1>6, <1>7, <2>1 DEF BillLinked, BillPrice, Bill!Tax
    <2>3. p.total \in Nat /\ b.paid = 0
      BY <1>5, <2>1 DEF BillLinked, BillDue, BillSeen, Bill!Bill
    <2>4. BillDue'
      BY <1>1, <1>5, <1>6, <1>7, <2>1, <2>3 DEF BillLinked, BillDue
    <2>5. ~skipped' => BillBooked'
      BY <1>1, <1>5, <1>6, <1>7, <2>1, BillDraft
    <2> QED
      BY <1>1, <1>5, <1>6, <1>7, <2>1, <2>2, <2>4, <2>5 DEF BillLinked
  <1> QED
    BY <1>8, <1>9 DEF BillBooks, BillLinked

\* approve.
LEMMA BillCommitApproveStep ==
  ASSUME NEW c, Bill(c)!BillsAssumption, BillBooks(c), NEW r \in BillCase[c].req, Bill(c)!CommitApprove(r)
  PROVE  BillBooks(c)'
  <1>1. /\ txn[r] # Bill(c)!Idle /\ txn[r].op = "approve" /\ Bill(c)!Finish(r)
        /\ UNCHANGED <<lines, payments, je, skipped>> /\ txn' = [txn EXCEPT ![r] = Bill(c)!Idle]
    BY DEF Bill!CommitApprove, Bill!Committing, Bill!Finish
  <1>5. PICK b \in BillSeen(c, Len(je)) : b = bill
    BY DEF BillBooks, BillIInv
  <1>6. PICK p \in BillSeen(c, Len(je)) :
          /\ p = [b EXCEPT !.status = "approved"]
          /\ p.status = "approved" /\ p.je = b.je /\ p.subtotal = b.subtotal /\ p.tax = b.tax
          /\ p.rate = b.rate /\ p.total = b.total /\ p.paid = b.paid /\ p.balance = b.balance
    BY BillStatusType DEF Bill!Status
  <1>7. bill' = p
    BY <1>5, <1>6 DEF Bill!CommitApprove
  <1>8. BillIInv(c)'
    BY <1>1, <1>7, BillQuietEnd, BillQuiet DEF BillBooks, BillIInv
  <1>9. ASSUME ~raced'
        PROVE  /\ BillPrice(c)' /\ BillDue'
               /\ bill'.status = "draft" => je' = <<>> /\ bill'.je = 0
               /\ ~skipped' => BillBooked'
    <2>1. ~raced /\ BillLinked(c) /\ b.status = "received"
      BY <1>1, <1>5, <1>9, BillFresh DEF Bill!Accepts
    <2>2. BillPrice(c)'
      BY <1>1, <1>5, <1>6, <1>7, <2>1 DEF BillLinked, BillPrice, Bill!Tax
    <2>4. BillDue'
      BY <1>1, <1>5, <1>6, <1>7, <2>1 DEF BillLinked, BillDue
    <2>5. ~skipped' => BillBooked'
      BY <1>1, <1>5, <1>6, <1>7, <2>1 DEF BillLinked, BillBooked, BillAp
    <2> QED
      BY <1>1, <1>6, <1>7, <2>2, <2>4, <2>5
  <1> QED
    BY <1>8, <1>9 DEF BillBooks, BillLinked

\* Steps that add an entry.
LEMMA BillGrown ==
  ASSUME NEW c, BillIInv(c), NEW r \in BillCase[c].req, txn' = [txn EXCEPT ![r] = Bill(c)!Idle],
         Entries(Bill(c)!Entry)', Len(je') <= BillCase[c].entries,
         Len(je') \in Nat, Len(je) <= Len(je'),
         bill' \in BillSeen(c, Len(je')), lines' \in BillCase[c].lines,
         payments' \in Seq(BillCase[c].payments)
  PROVE  BillIInv(c)'
  <1>1. txn' \in [BillCase[c].req -> BillSlots(c, Len(je'))]
    BY BillSlotStep
  <1> QED
    BY <1>1 DEF BillIInv

\* An entry is posted: payable gets its amount.
LEMMA BillPosted ==
  ASSUME NEW c, Bill(c)!BillsAssumption, BillIInv(c), Len(je) < BillCase[c].entries,
         NEW x \in Bill(c)!Entry, x.of = 0, x.status = "posted", je' = Append(je, x)
  PROVE  /\ Entries(Bill(c)!Entry)' /\ Len(je) \in Nat /\ Len(je') = Len(je) + 1
         /\ Len(je') <= BillCase[c].entries
         /\ DOMAIN je = 1..Len(je) /\ DOMAIN je' = 1..(Len(je) + 1)
         /\ \A i \in DOMAIN je : je'[i] = je[i]
         /\ je'[Len(je) + 1] = x
         /\ BillAp \in Int /\ BillAp' = BillAp + x.ap
  <1>1. /\ Entries(Bill(c)!Entry)' /\ Len(je) \in Nat /\ Len(je') = Len(je) + 1
        /\ DOMAIN je = 1..Len(je) /\ DOMAIN je' = 1..(Len(je) + 1)
        /\ \A i \in DOMAIN je : je'[i] = je[i]
        /\ je'[Len(je) + 1] = x
    BY EntryAdded DEF BillIInv
  <1>2. \A i \in DOMAIN je : je[i] \in Bill(c)!Entry
    BY ElementOfSeq, LenProperties DEF BillIInv, Entries
  <1>3. \A i \in DOMAIN je : je'[i].ap = je[i].ap /\ je[i].ap \in Int
    BY <1>1, <1>2 DEF Bill!Entry
  <1>4. je'[Len(je) + 1].ap \in Int
    BY <1>1 DEF Bill!Entry
  <1>5. BillAp \in Int /\ BillAp' = BillAp + x.ap
    BY <1>1, <1>3, <1>4, BillApGrows
  <1>6. Len(je) + 1 <= BillCase[c].entries
    BY <1>1, BillConstantsType
  <1> QED
    BY <1>1, <1>5, <1>6

\* The entry receive makes.
LEMMA BillReceipt ==
  ASSUME NEW c, Bill(c)!BillsAssumption, BillIInv(c), NEW r \in BillCase[c].req, txn[r] # Bill(c)!Idle
  PROVE  \E x \in Bill(c)!Entry :
           /\ x = Bill(c)!ReceiptEntry(txn[r]) /\ x.of = 0 /\ x.status = "posted"
           /\ x.debit = SumOver(txn[r].lines, DOMAIN txn[r].lines) + txn[r].bill.tax
           /\ "ap" \in chart => x.credit = txn[r].bill.total /\ x.ap = txn[r].bill.total
  <1>1. PICK ls \in BillCase[c].lines, b \in BillSeen(c, Len(je)) : ls = txn[r].lines /\ b = txn[r].bill
    BY BillSlotType
  <1>2. PICK s \in Nat : s = Bill(c)!Sum(ls) /\ s = SumOver(ls, DOMAIN ls)
    BY BillSum, SumOfSequence, BillConstantsType
  <1>3. b.tax \in Nat /\ b.total \in Nat
    BY DEF BillSeen, Bill!Bill
  <1>4. PICK d \in Nat, q \in Nat :
          d = s + b.tax /\ q = IF "ap" \in chart THEN b.total ELSE 0
    BY <1>3
  <1>5. PICK x : x = [status |-> "posted", debit |-> d, of |-> 0, credit |-> q, ap |-> q]
    OBVIOUS
  <1>6. x \in Bill(c)!Entry
    <2>1. q \in Int /\ 0 \in 0..BillCase[c].entries
      BY <1>4, BillConstantsType
    <2> QED
      BY <1>5, <2>1 DEF Bill!Entry
  <1>7. x = Bill(c)!ReceiptEntry(txn[r])
    BY <1>1, <1>2, <1>4, <1>5 DEF Bill!ReceiptEntry
  <1> QED
    BY <1>1, <1>2, <1>4, <1>5, <1>6, <1>7

\* receive: payable is what is due.
LEMMA BillCommitReceiveStep ==
  ASSUME NEW c, Bill(c)!BillsAssumption, BillBooks(c), NEW r \in BillCase[c].req, Bill(c)!CommitReceive(r)
  PROVE  BillBooks(c)'
  <1>1. /\ txn[r] # Bill(c)!Idle /\ txn[r].op = "receive" /\ Bill(c)!Finish(r) /\ BillIInv(c)
        /\ UNCHANGED <<lines, payments>> /\ txn' = [txn EXCEPT ![r] = Bill(c)!Idle]
        /\ skipped' = (skipped \/ ~period_open \/ "ap" \notin chart)
    BY DEF Bill!CommitReceive, Bill!Committing, Bill!Finish, BillBooks
  <1>2. PICK x \in Bill(c)!Entry :
          /\ x = Bill(c)!ReceiptEntry(txn[r]) /\ x.of = 0 /\ x.status = "posted"
          /\ x.debit = SumOver(txn[r].lines, DOMAIN txn[r].lines) + txn[r].bill.tax
          /\ "ap" \in chart => x.credit = txn[r].bill.total /\ x.ap = txn[r].bill.total
    BY <1>1, BillReceipt
  <1>3. PICK b \in BillSeen(c, Len(je)) : b = bill
    BY DEF BillBooks, BillIInv
  <1>4. PICK link : link = IF period_open THEN Len(je) + 1 ELSE 0
    OBVIOUS
  <1>5. PICK p : p = [b EXCEPT !.status = "received", !.je = link]
    OBVIOUS
  <1>6. bill' = p
    BY <1>3, <1>4, <1>5 DEF Bill!CommitReceive, Bill!Link
  <1>7. Len(je) \in Nat /\ BillCase[c].entries \in Nat
    BY <1>1, LenProperties, BillConstantsType DEF BillIInv, Entries
  <1>8. /\ link \in 0..BillCase[c].entries => p \in Bill(c)!Bill
        /\ p.status = "received" /\ p.je = link /\ p.subtotal = b.subtotal /\ p.tax = b.tax
        /\ p.rate = b.rate /\ p.total = b.total /\ p.paid = b.paid /\ p.balance = b.balance
        /\ b.total \in Nat
    BY <1>5 DEF BillSeen, Bill!Bill, Bill!Status
  <1>9. ASSUME ~raced'
        PROVE  /\ ~raced /\ BillLinked(c) /\ b.status = "draft" /\ je = <<>> /\ b.paid = 0
               /\ BillPrice(c)' /\ BillDue'
               /\ txn[r].bill = b /\ txn[r].lines = lines
    <2>1. ~raced /\ BillLinked(c) /\ b.status = "draft" /\ txn[r].bill = b /\ txn[r].lines = lines
      BY <1>1, <1>3, <1>9, BillFresh DEF Bill!Accepts
    <2>2. je = <<>> /\ b.paid = 0
      BY <1>3, <2>1 DEF BillLinked, BillDue
    <2>3. BillPrice(c)'
      BY <1>1, <1>3, <1>6, <1>8, <2>1 DEF BillLinked, BillPrice, Bill!Tax
    <2>4. BillDue'
      BY <1>1, <1>3, <1>6, <1>8, <2>1, <2>2 DEF BillLinked, BillDue
    <2> QED
      BY <2>1, <2>2, <2>3, <2>4
  <1>10. CASE ~period_open
    <2>1. UNCHANGED je /\ link = 0 /\ skipped' = TRUE
      BY <1>1, <1>4, <1>10 DEF Bill!CommitReceive
    <2>2. p \in BillSeen(c, Len(je))
      BY <1>7, <1>8, <2>1 DEF BillSeen
    <2>3. BillIInv(c)'
      BY <1>1, <1>6, <2>1, <2>2, BillQuietEnd, BillQuiet DEF BillBooks, BillIInv
    <2> QED
      BY <1>6, <1>8, <1>9, <2>1, <2>3 DEF BillBooks, BillLinked
  <1>11. CASE period_open
    <2>1. je' = Append(je, x) /\ Len(je) < BillCase[c].entries /\ link = Len(je) + 1
      BY <1>2, <1>4, <1>11 DEF Bill!CommitReceive, Bill!Post
    <2>2. /\ Entries(Bill(c)!Entry)' /\ Len(je) \in Nat /\ Len(je') = Len(je) + 1
          /\ Len(je') <= BillCase[c].entries
          /\ DOMAIN je = 1..Len(je) /\ DOMAIN je' = 1..(Len(je) + 1)
          /\ \A i \in DOMAIN je : je'[i] = je[i]
          /\ je'[Len(je) + 1] = x
          /\ BillAp \in Int /\ BillAp' = BillAp + x.ap
      BY <1>1, <1>2, <2>1, BillPosted
    <2>3. p \in BillSeen(c, Len(je'))
      <3>1. link \in 0..BillCase[c].entries
        BY <1>7, <2>1
      <3> QED
        BY <1>8, <2>1, <2>2, <3>1 DEF BillSeen
    <2>4. BillIInv(c)'
      <3>1. /\ Len(je') \in Nat /\ Len(je) <= Len(je') /\ bill' \in BillSeen(c, Len(je'))
            /\ lines' \in BillCase[c].lines /\ payments' \in Seq(BillCase[c].payments)
        BY <1>1, <1>6, <1>7, <2>2, <2>3 DEF BillIInv
      <3> QED
        BY <1>1, <2>2, <3>1, BillGrown
    <2>5. ASSUME ~raced', ~skipped' PROVE BillBooked'
      <3>1. "ap" \in chart
        BY <1>1, <2>5
      <3>2. x.debit = x.credit /\ x.ap = b.total /\ x.credit = b.total
        BY <1>2, <1>3, <1>9, <2>5, <3>1 DEF BillLinked, BillPrice
      <3>3. DOMAIN je = {} /\ Len(je) = 0 /\ BillAp = 0
        BY <1>9, <2>5, EmptySeq, BillApNone
      <3>4. \A i \in DOMAIN je' : je'[i] = x
        BY <2>2, <3>3
      <3>5. bill'.je \in DOMAIN je' /\ bill'.total = b.total /\ bill'.paid = 0 /\ bill'.status = "received"
        BY <1>6, <1>8, <1>9, <2>1, <2>2, <2>5
      <3>6. BillAp' = b.total /\ b.total \in Int
        BY <1>8, <2>2, <3>2, <3>3
      <3> QED
        BY <1>2, <3>2, <3>4, <3>5, <3>6 DEF BillBooked
    <2> QED
      BY <1>6, <1>8, <1>9, <2>4, <2>5 DEF BillBooks, BillLinked
  <1> QED
    BY <1>10, <1>11

\* pay: payable goes down with the balance.
LEMMA BillCommitPayStep ==
  ASSUME NEW c, Bill(c)!BillsAssumption, BillBooks(c), NEW r \in BillCase[c].req, Bill(c)!CommitPay(r)
  PROVE  BillBooks(c)'
  <1>1. /\ txn[r] # Bill(c)!Idle /\ txn[r].op = "pay" /\ Bill(c)!Finish(r) /\ BillIInv(c)
        /\ UNCHANGED lines /\ txn' = [txn EXCEPT ![r] = Bill(c)!Idle]
    BY DEF Bill!CommitPay, Bill!Committing, Bill!Finish, BillBooks
  <1>2. PICK t \in Bill(c)!Sent("pay"), old \in BillSeen(c, Len(je)) :
          t = txn[r].sent /\ old = txn[r].bill /\ t.amount <= old.balance
    BY <1>1, BillSlotType
  <1>0. PICK cash : cash = (t.bank \/ "cash" \in chart)
    OBVIOUS
  <1>3. PICK a \in BillCase[c].payments : a = t.amount /\ cash = (t.bank \/ "cash" \in chart)
    BY <1>0 DEF Bill!Sent
  <1>4. a \in Nat /\ a # 0 /\ a \in Int /\ -a \in Int
    BY BillConstantsType
  <1>5. PICK paid \in Nat, due \in Int : paid = old.paid + a /\ due = old.total - paid
    BY <1>4 DEF BillSeen, Bill!Bill
  <1>6. PICK b \in BillSeen(c, Len(je)) : b = bill
    BY <1>1 DEF BillIInv
  <1>7. PICK status \in {"paid", "partial"} : status = IF due <= 0 THEN "paid" ELSE "partial"
    OBVIOUS
  <1>8. PICK p : p = [b EXCEPT !.paid = paid, !.balance = due, !.status = status]
    OBVIOUS
  <1>9. bill' = p
    BY <1>2, <1>3, <1>5, <1>6, <1>7, <1>8 DEF Bill!CommitPay
  <1>10. /\ p \in BillSeen(c, Len(je)) /\ p.status = status /\ p.je = b.je /\ p.subtotal = b.subtotal
         /\ p.tax = b.tax /\ p.rate = b.rate /\ p.total = b.total /\ p.paid = paid /\ p.balance = due
         /\ b.total \in Nat /\ b.je \in Nat
    <2>1. status \in Bill(c)!Status /\ b \in Bill(c)!Bill /\ b.je <= Len(je)
      BY <1>7 DEF BillSeen, Bill!Status
    <2>2. paid \in Nat /\ due \in Int /\ b.total \in Nat /\ b.je \in Nat
      BY <1>5, <2>1 DEF Bill!Bill
    <2>3. p \in Bill(c)!Bill
      BY <1>8, <2>1, <2>2 DEF Bill!Bill
    <2>4. /\ p.status = status /\ p.je = b.je /\ p.subtotal = b.subtotal /\ p.tax = b.tax
          /\ p.rate = b.rate /\ p.total = b.total /\ p.paid = paid /\ p.balance = due
      BY <1>8, <2>1 DEF Bill!Bill
    <2> QED
      BY <2>1, <2>2, <2>3, <2>4 DEF BillSeen
  <1>11. /\ payments' = Append(payments, a)
         /\ skipped' = (skipped \/ ~period_open \/ ~cash \/ "ap" \notin chart)
    BY <1>2, <1>3 DEF Bill!CommitPay
  <1>12. /\ payments' \in Seq(BillCase[c].payments)
         /\ SumOver(payments, DOMAIN payments) \in Int
         /\ SumOver(payments', DOMAIN payments') = SumOver(payments, DOMAIN payments) + a
    <2>1. payments \in Seq(BillCase[c].payments)
      BY <1>1 DEF BillIInv
    <2>2. PICK n \in Nat : n = Len(payments)
      BY <2>1, LenProperties
    <2>0. PICK h, g : h = payments /\ g = payments'
      OBVIOUS
    <2>3. /\ Append(h, a) \in Seq(BillCase[c].payments) /\ Len(Append(h, a)) = n + 1
          /\ \A i \in 1..n : Append(h, a)[i] = h[i]
          /\ Append(h, a)[n + 1] = a
      BY <2>0, <2>1, <2>2, AppendProperties, LenProperties
    <2>4. /\ g \in Seq(BillCase[c].payments) /\ Len(g) = n + 1 /\ DOMAIN g = 1..(n + 1) /\ DOMAIN h = 1..n
          /\ \A i \in 1..n : g[i] = h[i]
          /\ g[n + 1] = a
      BY <1>11, <2>0, <2>1, <2>2, <2>3, LenProperties
    <2>5. /\ \A i \in 1..n : g[i] = h[i] /\ h[i] \in Int
          /\ g[n + 1] \in Int
      BY <1>4, <2>0, <2>1, <2>2, <2>4, ElementOfSeq, BillConstantsType
    <2>6. SumOver(h, 1..n) \in Int /\ SumOver(g, 1..(n + 1)) = SumOver(h, 1..n) + g[n + 1]
      BY <2>2, <2>5, SumAppend
    <2> QED
      BY <2>0, <2>2, <2>4, <2>6
  <1>13. ASSUME ~raced'
         PROVE  /\ ~raced /\ BillLinked(c) /\ b.status \in {"received", "approved", "partial"}
                /\ b.paid \in Int /\ due = b.total - b.paid - a /\ paid = b.paid + a
                /\ BillPrice(c)' /\ BillDue'
    <2>1. ~raced /\ BillLinked(c) /\ b.status \in {"received", "approved", "partial"} /\ old = b
      BY <1>1, <1>2, <1>6, <1>13, BillFresh DEF Bill!Accepts
    <2>2. b.paid \in Int /\ b.paid >= 0 /\ due = b.total - b.paid - a /\ paid = b.paid + a
      BY <1>4, <1>5, <1>10, <2>1 DEF BillSeen, Bill!Bill
    <2>3. BillPrice(c)'
      BY <1>1, <1>6, <1>9, <1>10, <2>1 DEF BillLinked, BillPrice, Bill!Tax
    <2>4. due >= 0
      <3>1. b.balance = b.total - b.paid /\ a <= b.balance
        BY <1>2, <1>3, <1>6, <2>1 DEF BillLinked, BillDue
      <3> QED
        BY <1>4, <1>10, <2>2, <3>1
    <2>5. bill'.paid = SumOver(payments', DOMAIN payments')
      BY <1>6, <1>9, <1>10, <1>12, <2>1, <2>2 DEF BillLinked, BillDue
    <2>6. due = b.total - paid /\ paid > 0
      BY <1>4, <1>10, <2>2
    <2>7. BillDue'
      BY <1>7, <1>9, <1>10, <2>4, <2>5, <2>6 DEF BillDue
    <2> QED
      BY <2>1, <2>2, <2>3, <2>7
  <1>14. CASE ~(period_open /\ cash)
    <2>1. UNCHANGED je
      BY <1>2, <1>3, <1>14 DEF Bill!CommitPay
    <2>2. BillIInv(c)'
      BY <1>1, <1>9, <1>10, <1>12, <2>1, BillQuietEnd, BillQuiet DEF BillBooks, BillIInv
    <2>3. skipped' = TRUE /\ bill'.status # "draft"
      BY <1>7, <1>9, <1>10, <1>11, <1>14
    <2> QED
      BY <1>13, <2>2, <2>3 DEF BillBooks, BillLinked
  <1>15. CASE period_open /\ cash
    <2>0. PICK d, q :
            d = (IF "ap" \in chart THEN a ELSE 0) /\ q = (IF "ap" \in chart THEN -a ELSE 0)
      OBVIOUS
    <2>1. /\ d \in Nat /\ q \in Int
          /\ d = (IF "ap" \in chart THEN a ELSE 0) /\ q = (IF "ap" \in chart THEN -a ELSE 0)
      BY <1>4, <2>0
    <2>2. PICK x : x = [status |-> "posted", debit |-> d, of |-> 0, credit |-> a, ap |-> q]
      OBVIOUS
    <2>3. x \in Bill(c)!Entry /\ x.of = 0 /\ x.status = "posted" /\ x.debit = d /\ x.credit = a /\ x.ap = q
      <3>1. 0 \in 0..BillCase[c].entries
        BY BillConstantsType
      <3> QED
        BY <1>4, <2>1, <2>2, <3>1 DEF Bill!Entry
    <2>4. x = Bill(c)!PaymentEntry(a)
      BY <2>1, <2>2 DEF Bill!PaymentEntry
    <2>5. je' = Append(je, x) /\ Len(je) < BillCase[c].entries
      BY <1>2, <1>3, <1>15, <2>4 DEF Bill!CommitPay, Bill!Post
    <2>6. /\ Entries(Bill(c)!Entry)' /\ Len(je) \in Nat /\ Len(je') = Len(je) + 1
          /\ Len(je') <= BillCase[c].entries
          /\ DOMAIN je = 1..Len(je) /\ DOMAIN je' = 1..(Len(je) + 1)
          /\ \A i \in DOMAIN je : je'[i] = je[i]
          /\ je'[Len(je) + 1] = x
          /\ BillAp \in Int /\ BillAp' = BillAp + x.ap
      BY <1>1, <2>3, <2>5, BillPosted
    <2>7. BillIInv(c)'
      <3>1. Len(je') \in Nat /\ Len(je) <= Len(je') /\ lines' \in BillCase[c].lines
        BY <1>1, <2>6 DEF BillIInv
      <3>2. bill' \in BillSeen(c, Len(je'))
        BY <1>9, <1>10, <2>6, <3>1, BillSlotsGrow
      <3> QED
        BY <1>1, <1>12, <2>6, <3>1, <3>2, BillGrown
    <2>8. ASSUME ~raced', ~skipped' PROVE BillBooked'
      <3>1. "ap" \in chart /\ ~skipped /\ BillBooked
        BY <1>11, <1>13, <2>8 DEF BillLinked
      <3>2. x.debit = x.credit /\ x.ap = -a
        BY <2>1, <2>3, <3>1
      <3>3. \A i \in DOMAIN je' : je'[i].debit = je'[i].credit
        BY <2>6, <3>1, <3>2 DEF BillBooked
      <3>4. b.je \in DOMAIN je /\ je[b.je].status = "posted" /\ je[b.je].ap = b.total /\ BillAp = b.total - b.paid
        BY <1>6, <1>13, <2>8, <3>1 DEF BillBooked
      <3>5. bill'.je \in DOMAIN je' /\ je'[bill'.je].status = "posted" /\ je'[bill'.je].ap = bill'.total
        BY <1>9, <1>10, <2>6, <3>4
      <3>6. BillAp' = b.total - paid
        BY <1>4, <1>10, <1>13, <2>6, <2>8, <3>2, <3>4
      <3> QED
        BY <1>7, <1>9, <1>10, <3>3, <3>5, <3>6 DEF BillBooked
    <2> QED
      BY <1>7, <1>9, <1>10, <1>13, <2>7, <2>8 DEF BillBooks, BillLinked
  <1> QED
    BY <1>14, <1>15

\* What the reversal of an entry makes of it, and is.
LEMMA BillReversal ==
  ASSUME NEW c, Bill(c)!BillsAssumption, BillIInv(c), NEW k \in DOMAIN je, je[k].status = "posted",
         je' = Append([je EXCEPT ![k].status = "voided"], Bill(c)!Reversal(k))
  PROVE  \E y, x \in Bill(c)!Entry :
           /\ y = [je[k] EXCEPT !.status = "voided"]
           /\ y.status = "voided" /\ y.of = je[k].of
           /\ y.debit = je[k].debit /\ y.credit = je[k].credit /\ y.ap = je[k].ap
           /\ x.of = k /\ x.status = "posted"
           /\ x.debit = je[k].credit /\ x.credit = je[k].debit /\ x.ap = -je[k].ap
           /\ je' = Append([je EXCEPT ![k].status = "voided"], x)
  <1>1. PICK e \in Bill(c)!Entry : e = je[k]
    BY ElementOfSeq, LenProperties DEF BillIInv, Entries
  <1>2. PICK y \in Bill(c)!Entry : y = [e EXCEPT !.status = "voided"]
    BY DEF Bill!Entry
  <1>3. y.status = "voided" /\ y.of = e.of /\ y.debit = e.debit /\ y.credit = e.credit /\ y.ap = e.ap
    BY <1>2 DEF Bill!Entry
  <1>4. /\ k \in 0..BillCase[c].entries /\ -e.ap \in Int /\ e.debit \in Nat /\ e.credit \in Nat
    <2>1. k \in 1..Len(je) /\ Len(je) \in Nat /\ Len(je) <= BillCase[c].entries /\ BillCase[c].entries \in Nat
      BY BillConstantsType, LenProperties DEF BillIInv, Entries
    <2>2. e.ap \in Int /\ e.debit \in Nat /\ e.credit \in Nat
      BY DEF Bill!Entry
    <2> QED
      BY <2>1, <2>2
  <1>5. PICK x : x = [status |-> "posted", debit |-> e.credit, credit |-> e.debit, ap |-> -e.ap, of |-> k]
    OBVIOUS
  <1>6. /\ x \in Bill(c)!Entry /\ x.of = k /\ x.status = "posted" /\ x.ap = -e.ap
        /\ x.debit = e.credit /\ x.credit = e.debit
    BY <1>4, <1>5 DEF Bill!Entry
  <1>7. je' = Append([je EXCEPT ![k].status = "voided"], x)
    BY <1>1, <1>5 DEF Bill!Reversal
  <1>8. y = [je[k] EXCEPT !.status = "voided"]
    BY <1>1, <1>2
  <1> QED
    BY <1>1, <1>3, <1>6, <1>7, <1>8

\* And what that makes of the entries.
LEMMA BillReversed ==
  ASSUME NEW c, Bill(c)!BillsAssumption, BillIInv(c), Len(je) < BillCase[c].entries,
         NEW k \in DOMAIN je, je[k].status = "posted",
         NEW y \in Bill(c)!Entry, y = [je[k] EXCEPT !.status = "voided"], y.status = "voided",
           y.of = je[k].of,
         y.debit = je[k].debit, y.credit = je[k].credit, y.ap = je[k].ap,
         NEW x \in Bill(c)!Entry, x.of = k, x.status = "posted",
         x.debit = je[k].credit, x.credit = je[k].debit, x.ap = -je[k].ap,
         je' = Append([je EXCEPT ![k].status = "voided"], x)
  PROVE  /\ Entries(Bill(c)!Entry)' /\ Len(je) \in Nat /\ Len(je') = Len(je) + 1
         /\ Len(je') <= BillCase[c].entries
         /\ DOMAIN je = 1..Len(je) /\ DOMAIN je' = 1..(Len(je) + 1)
         /\ \A i \in DOMAIN je : je'[i].debit = je[i].debit /\ je'[i].credit = je[i].credit
         /\ je'[Len(je) + 1].debit = je[k].credit /\ je'[Len(je) + 1].credit = je[k].debit
         /\ BillAp \in Int /\ je[k].ap \in Int /\ BillAp' = BillAp - je[k].ap
  <1>1. Entries(Bill(c)!Entry) /\ x.status # "voided"
    BY DEF BillIInv
  <1>2. /\ Entries(Bill(c)!Entry)' /\ Len(je) \in Nat /\ Len(je') = Len(je) + 1
        /\ DOMAIN je = 1..Len(je) /\ DOMAIN je' = 1..(Len(je) + 1)
        /\ \A i \in DOMAIN je : je'[i] = IF i = k THEN y ELSE je[i]
        /\ je'[Len(je) + 1] = x
    <2>1. Reversing(k, y, x)
      BY <1>1 DEF Reversing
    <2> QED
      BY <1>1, <2>1, EntryReversed
  <1>3. \A i \in DOMAIN je : je[i] \in Bill(c)!Entry
    BY ElementOfSeq, LenProperties DEF BillIInv, Entries
  <1>4. \A i \in DOMAIN je : /\ je'[i].debit = je[i].debit /\ je'[i].credit = je[i].credit
                             /\ je'[i].ap = je[i].ap
    BY <1>2
  <1>5. \A i \in DOMAIN je : je[i].ap \in Int
    BY <1>3 DEF Bill!Entry
  <1>6. je'[Len(je) + 1].ap = -je[k].ap /\ -je[k].ap \in Int
    BY <1>2, <1>5
  <1>7. BillAp \in Int /\ BillAp' = BillAp + je'[Len(je) + 1].ap
    BY <1>2, <1>4, <1>5, <1>6, BillApGrows
  <1>8. BillAp' = BillAp - je[k].ap
    BY <1>5, <1>6, <1>7
  <1>9. Len(je) + 1 <= BillCase[c].entries
    BY <1>2, BillConstantsType
  <1> QED
    BY <1>2, <1>4, <1>5, <1>7, <1>8, <1>9

\* voidBill: payable loses the entry of the bill, and not its payments.
LEMMA BillCommitVoidStep ==
  ASSUME NEW c, Bill(c)!BillsAssumption, BillBooks(c), NEW r \in BillCase[c].req, Bill(c)!CommitVoid(r)
  PROVE  BillBooks(c)'
  <1>1. /\ txn[r] # Bill(c)!Idle /\ txn[r].op = "void" /\ Bill(c)!Finish(r) /\ BillIInv(c)
        /\ UNCHANGED <<lines, payments, skipped>> /\ txn' = [txn EXCEPT ![r] = Bill(c)!Idle]
    BY DEF Bill!CommitVoid, Bill!Committing, Bill!Finish, BillBooks
  <1>2. PICK b \in BillSeen(c, Len(je)) : b = bill
    BY <1>1 DEF BillIInv
  <1>3. PICK p \in BillSeen(c, Len(je)) :
          /\ p = [b EXCEPT !.status = "voided"]
          /\ p.status = "voided" /\ p.je = b.je /\ p.subtotal = b.subtotal /\ p.tax = b.tax
          /\ p.rate = b.rate /\ p.total = b.total /\ p.paid = b.paid /\ p.balance = b.balance
    BY BillStatusType DEF Bill!Status
  <1>4. bill' = p
    BY <1>2, <1>3 DEF Bill!CommitVoid
  <1>5. Len(je) \in Nat /\ DOMAIN je = 1..Len(je) /\ \A i \in DOMAIN je : je[i] \in Bill(c)!Entry
    BY <1>1, ElementOfSeq, LenProperties DEF BillIInv, Entries
  <1>6. PICK i \in 0..Len(je) : i = txn[r].bill.je
    <2>1. txn[r].bill \in Bill(c)!Bill /\ txn[r].bill.je <= Len(je)
      BY <1>1, BillSlotType DEF BillSeen
    <2> QED
      BY <1>5, <2>1 DEF Bill!Bill
  <1>7. ASSUME ~raced'
        PROVE  /\ ~raced /\ BillLinked(c) /\ b.status # "voided" /\ b.je = i
               /\ BillPrice(c)' /\ BillDue'
    <2>1. ~raced /\ BillLinked(c) /\ b.status # "voided" /\ b.je = i
      BY <1>1, <1>2, <1>6, <1>7, BillFresh DEF Bill!Accepts
    <2>2. BillPrice(c)'
      BY <1>1, <1>2, <1>3, <1>4, <2>1 DEF BillLinked, BillPrice, Bill!Tax
    <2>3. BillDue'
      BY <1>1, <1>2, <1>3, <1>4, <2>1 DEF BillLinked, BillDue
    <2> QED
      BY <2>1, <2>2, <2>3
  <1>8. CASE Bill(c)!Reversible(i)
    <2>1. i \in DOMAIN je /\ je[i].status = "posted"
      BY <1>5, <1>8 DEF Bill!Reversible
    <2>2. Len(je) < BillCase[c].entries /\ je' = Append([je EXCEPT ![i].status = "voided"],
            Bill(c)!Reversal(i))
      BY <1>6, <1>8 DEF Bill!CommitVoid
    <2>3. /\ Entries(Bill(c)!Entry)' /\ Len(je) \in Nat /\ Len(je') = Len(je) + 1
          /\ Len(je') <= BillCase[c].entries
          /\ DOMAIN je = 1..Len(je) /\ DOMAIN je' = 1..(Len(je) + 1)
          /\ \A k \in DOMAIN je : je'[k].debit = je[k].debit /\ je'[k].credit = je[k].credit
          /\ je'[Len(je) + 1].debit = je[i].credit /\ je'[Len(je) + 1].credit = je[i].debit
          /\ BillAp \in Int /\ je[i].ap \in Int /\ BillAp' = BillAp - je[i].ap
      <3>1. PICK y \in Bill(c)!Entry, x \in Bill(c)!Entry :
              /\ y = [je[i] EXCEPT !.status = "voided"]
              /\ y.status = "voided" /\ y.of = je[i].of
              /\ y.debit = je[i].debit /\ y.credit = je[i].credit /\ y.ap = je[i].ap
              /\ x.of = i /\ x.status = "posted"
              /\ x.debit = je[i].credit /\ x.credit = je[i].debit /\ x.ap = -je[i].ap
              /\ je' = Append([je EXCEPT ![i].status = "voided"], x)
        BY <1>1, <2>1, <2>2, BillReversal
      <3>2. Len(je) < BillCase[c].entries
        BY <2>2
      <3> QED
        BY <1>1, <2>1, <3>1, <3>2, BillReversed
    <2>4. BillIInv(c)'
      <3>1. /\ Len(je') \in Nat /\ Len(je) <= Len(je') /\ lines' \in BillCase[c].lines
            /\ payments' \in Seq(BillCase[c].payments)
        BY <1>1, <2>3 DEF BillIInv
      <3>2. bill' \in BillSeen(c, Len(je'))
        BY <1>3, <1>4, <2>3, <3>1, BillSlotsGrow
      <3> QED
        BY <1>1, <2>3, <3>1, <3>2, BillGrown
    <2>5. ASSUME ~raced', ~skipped' PROVE BillBooked'
      <3>1. BillBooked /\ b.je = i /\ b.status # "voided"
        BY <1>1, <1>7, <2>5 DEF BillLinked
      <3>2. \A k \in DOMAIN je' : je'[k].debit = je'[k].credit
        BY <2>1, <2>3, <3>1 DEF BillBooked
      <3>3. b.status # "draft"
        BY <1>2, <1>7, <2>1, <2>5, EmptySeq DEF BillLinked
      <3>4. je[i].ap = b.total /\ BillAp = b.total - b.paid
        BY <1>2, <3>1, <3>3 DEF BillBooked
      <3>5. BillAp' = -b.paid
        <4>1. b.total \in Int /\ b.paid \in Int
          BY DEF BillSeen, Bill!Bill
        <4> QED
          BY <2>3, <3>4, <4>1
      <3> QED
        BY <1>3, <1>4, <3>2, <3>5 DEF BillBooked
    <2> QED
      BY <1>3, <1>4, <1>7, <2>4, <2>5 DEF BillBooks, BillLinked
  <1>9. CASE ~Bill(c)!Reversible(i)
    <2>1. UNCHANGED je
      BY <1>6, <1>9 DEF Bill!CommitVoid
    <2>2. BillIInv(c)'
      BY <1>1, <1>3, <1>4, <2>1, BillQuietEnd, BillQuiet DEF BillBooks, BillIInv
    <2>3. ASSUME ~raced', ~skipped' PROVE BillBooked'
      <3>1. BillBooked /\ b.je = i /\ b.status # "voided" /\ 0 \notin DOMAIN je
        BY <1>1, <1>5, <1>7, <2>3 DEF BillLinked
      <3>2. b.status = "draft"
        BY <1>2, <1>9, <3>1 DEF BillBooked, Bill!Reversible
      <3>3. b.paid = 0 /\ BillAp = 0
        BY <1>2, <1>7, <2>3, <3>1, <3>2 DEF BillLinked, BillDue, BillBooked
      <3>4. BillAp' = BillAp
        BY <2>1 DEF BillAp
      <3> QED
        BY <1>3, <1>4, <2>1, <3>1, <3>3, <3>4 DEF BillBooked
    <2> QED
      BY <1>3, <1>4, <1>7, <2>2, <2>3 DEF BillBooks, BillLinked
  <1> QED
    BY <1>8, <1>9

\* Rollbacks and fiscal periods.
LEMMA BillOtherStep ==
  ASSUME NEW c, BillBooks(c),
         Bill(c)!TogglePeriod \/ UNCHANGED Bill(c)!vars \/ \E r \in BillCase[c].req : Bill(c)!Rollback(r)
  PROVE  BillBooks(c)'
  <1>1. UNCHANGED <<bill, lines, payments, je, raced, skipped>>
    BY DEF Bill!TogglePeriod, Bill!vars, Bill!Rollback
  <1>2. txn' \in [BillCase[c].req -> BillSlots(c, Len(je))]
    <2>1. CASE UNCHANGED txn
      BY <2>1 DEF BillBooks, BillIInv
    <2>2. ASSUME NEW r \in BillCase[c].req, Bill(c)!Rollback(r)
          PROVE  txn' \in [BillCase[c].req -> BillSlots(c, Len(je))]
      BY <1>1, <2>2, BillQuietEnd DEF Bill!Rollback
    <2> QED
      BY <2>1, <2>2 DEF Bill!TogglePeriod, Bill!vars
  <1> QED
    BY <1>1, <1>2, BillSame

\* Every action keeps the books.
LEMMA BillNextStep ==
  ASSUME NEW c, Bill(c)!BillsAssumption, BillBooks(c), Bill(c)!Next \/ UNCHANGED Bill(c)!vars
  PROVE  BillBooks(c)'
  <1>1. ASSUME NEW r \in BillCase[c].req, Bill(c)!Read(r) PROVE BillBooks(c)'
    BY <1>1, BillReadStep
  <1>2. ASSUME NEW r \in BillCase[c].req, Bill(c)!ReadLines(r) PROVE BillBooks(c)'
    BY <1>2, BillReadLinesStep
  <1>3. ASSUME NEW r \in BillCase[c].req, Bill(c)!CommitUpdate(r) PROVE BillBooks(c)'
    BY <1>3, BillCommitUpdateStep
  <1>4. ASSUME NEW r \in BillCase[c].req, Bill(c)!CommitRate(r) PROVE BillBooks(c)'
    BY <1>4, BillCommitRateStep
  <1>5. ASSUME NEW r \in BillCase[c].req, Bill(c)!CommitReceive(r) PROVE BillBooks(c)'
    BY <1>5, BillCommitReceiveStep
  <1>6. ASSUME NEW r \in BillCase[c].req, Bill(c)!CommitApprove(r) PROVE BillBooks(c)'
    BY <1>6, BillCommitApproveStep
  <1>7. ASSUME NEW r \in BillCase[c].req, Bill(c)!CommitPay(r) PROVE BillBooks(c)'
    BY <1>7, BillCommitPayStep
  <1>8. ASSUME NEW r \in BillCase[c].req, Bill(c)!CommitVoid(r) PROVE BillBooks(c)'
    BY <1>8, BillCommitVoidStep
  <1>9. CASE Bill(c)!TogglePeriod \/ UNCHANGED Bill(c)!vars \/ \E r \in BillCase[c].req : Bill(c)!Rollback(r)
    BY <1>9, BillOtherStep
  <1> QED
    BY <1>1, <1>2, <1>3, <1>4, <1>5, <1>6, <1>7, <1>8, <1>9 DEF Bill!Next

\* The invariant says what the module's properties say.
LEMMA BillTypesHold ==
  ASSUME NEW c, Bill(c)!BillsAssumption, BillIInv(c)
  PROVE  Bill(c)!TypeOK /\ Bill(c)!ReversedOnce
  <1>1. bill.je \in 0..Len(je)
    BY LenProperties DEF BillIInv, BillSeen, Bill!Bill, Entries
  <1> QED
    BY <1>1 DEF BillIInv, BillSeen, Entries, OnlyReversal, Bill!TypeOK, Bill!ReversedOnce

\* and what BillSettles says.
LEMMA BillIsSettled ==
  ASSUME NEW c, Bill(c)!BillsAssumption, BillBooks(c)
  PROVE  Bill(c)!BillSettles
  <1>1. SUFFICES ASSUME ~raced
                 PROVE  /\ bill.paid = Bill(c)!Sum(payments)
                        /\ bill.balance = bill.total - bill.paid /\ bill.balance >= 0
                        /\ CASE bill.status = "paid"    -> bill.balance = 0
                             [] bill.status = "partial" -> bill.balance > 0 /\ bill.paid > 0
                             [] bill.status = "voided"  -> TRUE
                             [] OTHER                   -> bill.paid = 0
                        /\ bill.total = Bill(c)!Sum(lines) + Bill(c)!Tax(Bill(c)!Sum(lines), bill.rate)
                        /\ ~skipped => /\ \A e \in Bill(c)!Range(je) : e.debit = e.credit
                                       /\ Bill(c)!Ap = IF bill.status = "voided" THEN -bill.paid
                                                       ELSE Bill(c)!Aging
    BY DEF Bill!BillSettles
  <1>2. BillPrice(c) /\ BillDue /\ (~skipped => BillBooked)
    BY <1>1 DEF BillBooks, BillLinked
  <1>3. PICK b \in Bill(c)!Bill : b = bill
    BY DEF BillBooks, BillIInv, BillSeen
  <1>4. Bill(c)!Sum(payments) = SumOver(payments, DOMAIN payments) /\ Bill(c)!Sum(lines) = SumOver(lines,
          DOMAIN lines)
    BY BillSum
  <1>5. bill.total = Bill(c)!Sum(lines) + Bill(c)!Tax(Bill(c)!Sum(lines), bill.rate)
    BY <1>2, <1>4 DEF BillPrice
  <1>6. (CASE bill.status = "paid"    -> bill.balance = 0
           [] bill.status = "partial" -> bill.balance > 0 /\ bill.paid > 0
           [] bill.status = "voided"  -> TRUE
           [] OTHER                   -> bill.paid = 0)
    <2>1. bill.status \in Bill(c)!Status
      BY <1>3 DEF Bill!Bill
    <2>2. bill.status \in {"draft", "received", "approved"} => bill.paid = 0
      BY <1>2 DEF BillDue
    <2>3. bill.status # "voided" /\ bill.status # "paid" /\ bill.status # "partial" => bill.paid = 0
      BY <2>1, <2>2 DEF Bill!Status
    <2>4. bill.status = "paid" => bill.balance = 0
      BY <1>2 DEF BillDue
    <2>5. bill.status = "partial" => bill.balance > 0 /\ bill.paid > 0
      BY <1>2 DEF BillDue
    <2>6. CASE bill.status = "paid"
      BY <2>4, <2>6
    <2>7. CASE bill.status = "partial"
      BY <2>5, <2>7
    <2>8. CASE bill.status # "voided" /\ bill.status # "paid" /\ bill.status # "partial"
      BY <2>3, <2>8
    <2>9. CASE bill.status = "voided"
      BY <2>9
    <2> QED
      BY <2>6, <2>7, <2>8, <2>9
  <1>7. ASSUME ~skipped
        PROVE  /\ \A e \in Bill(c)!Range(je) : e.debit = e.credit
               /\ Bill(c)!Ap = IF bill.status = "voided" THEN -bill.paid ELSE Bill(c)!Aging
    <2>1. \A e \in Bill(c)!Range(je) : e.debit = e.credit
      BY <1>2, <1>7 DEF BillBooked, Bill!Range
    <2>2. Bill(c)!Ap = BillAp
      <3>1. PICK h : h = [i \in DOMAIN je |-> je[i].ap]
        OBVIOUS
      <3>2. Bill(c)!Ap = Bill(c)!SumFunction(h)
        BY <3>1 DEF Bill!Ap
      <3>3. DOMAIN h = DOMAIN je /\ Bill(c)!SumFunction(h) = SumOver(h, DOMAIN h)
        BY <3>1, BillSum
      <3> QED
        BY <3>1, <3>2, <3>3 DEF BillAp
    <2>3. b.total \in Int /\ b.paid \in Int /\ b.balance \in Int
      BY DEF Bill!Bill
    <2>4. bill.status # "voided" => BillAp = Bill(c)!Aging
      BY <1>2, <1>3, <1>7, <2>3 DEF BillBooked, BillDue, Bill!Aging
    <2> QED
      BY <1>2, <1>7, <2>1, <2>2, <2>4 DEF BillBooked
  <1> QED
    BY <1>2, <1>4, <1>5, <1>6, <1>7 DEF BillDue

-----------------------------------------------------------------------------
(* Credit notes: what their lines come to.                                 *)

\* What the assumption says of the parameters.
LEMMA NoteConstantsType ==
  ASSUME NEW c, Note(c)!CreditNotesAssumption
  PROVE  /\ NoteCase[c].entries \in Nat /\ 0 \in 0..NoteCase[c].entries /\ 0 \notin NoteCase[c].invoices
         /\ \A a \in NoteCase[c].payments : a \in Nat
         /\ \A rate \in NoteCase[c].rates : rate \in Nat
         /\ \A t \in NoteCase[c].totals : t \in Nat
         /\ \A ls \in NoteCase[c].lines : ls \in Seq([amount: Nat,
              coded: BOOLEAN]) /\ Note(c)!Subtotal(ls) > 0
  BY DEF Note!CreditNotesAssumption

\* The sum the module takes from the library.
LEMMA NoteSum ==
  ASSUME NEW c, NEW s
  PROVE  Note(c)!SumFunction(s) = SumOver(s, DOMAIN s)
  <1>1. Note(c)!SumFunction(s) = SumFunctionOnSet(s, DOMAIN s)
    BY Zenon DEF Note!SumFunction, Note!FoldFunction, Note!SumFunctionOnSet, Note!FoldFunctionOnSet,
                 Note!MapThenFoldSet, SumFunctionOnSet, FoldFunctionOnSet, MapThenFoldSet
  <1> QED
    BY <1>1, SumFunctionIs

NoteAmounts(ls) == [i \in DOMAIN ls |-> ls[i].amount]

\* The lines of a note are finitely many, and come to more than nothing.
LEMMA NoteLines ==
  ASSUME NEW c, Note(c)!CreditNotesAssumption, NEW ls \in NoteCase[c].lines
  PROVE  /\ Len(ls) \in Nat /\ Len(ls) >= 1 /\ DOMAIN ls = 1..Len(ls) /\ IsFiniteSet(DOMAIN ls)
         /\ \A i \in DOMAIN ls : ls[i].amount \in Nat /\ ls[i].coded \in BOOLEAN
         /\ Note(c)!Subtotal(ls) \in Nat /\ Note(c)!Subtotal(ls) > 0
         /\ Note(c)!Subtotal(ls) = SumOver(NoteAmounts(ls), DOMAIN ls)
         /\ Note(c)!Coded(ls) \subseteq DOMAIN ls /\ IsFiniteSet(Note(c)!Coded(ls))
  <1>1. ls \in Seq([amount: Nat, coded: BOOLEAN]) /\ Note(c)!Subtotal(ls) > 0
    BY NoteConstantsType
  <1>2. Len(ls) \in Nat /\ DOMAIN ls = 1..Len(ls)
        /\ \A i \in DOMAIN ls : ls[i] \in [amount: Nat, coded: BOOLEAN]
    BY <1>1, ElementOfSeq, LenProperties
  <1>3. \A i \in DOMAIN ls : ls[i].amount \in Nat /\ ls[i].coded \in BOOLEAN
    BY <1>2
  <1>4. PICK S, h : S = DOMAIN ls /\ h = NoteAmounts(ls)
    OBVIOUS
  <1>5. IsFiniteSet(S) /\ \A i \in S : h[i] \in Nat
    <2>1. 1 \in Int /\ Len(ls) \in Int
      BY <1>2
    <2>2. IsFiniteSet(S)
      BY <1>2, <1>4, <2>1, FS_Interval
    <2> QED
      BY <1>3, <1>4, <2>2 DEF NoteAmounts
  <1>6. SumOver(h, S) \in Nat
    BY <1>5, SumNat
  <1>7. Note(c)!Subtotal(ls) = SumOver(h, S)
    <2>1. Note(c)!Subtotal(ls) = Note(c)!SumFunction(h)
      BY <1>4 DEF Note!Subtotal, NoteAmounts
    <2>2. DOMAIN h = S
      BY <1>4 DEF NoteAmounts
    <2> QED
      BY <2>1, <2>2, NoteSum
  <1>8. Len(ls) >= 1
    <2>1. SUFFICES ASSUME Len(ls) = 0 PROVE FALSE
      BY <1>2
    <2>2. S = {}
      BY <1>2, <1>4, <2>1
    <2>3. SumOver(h, {}) = 0
      BY SumEmpty
    <2> QED
      BY <1>1, <1>7, <2>2, <2>3
  <1>9. Note(c)!Coded(ls) \subseteq S
    BY <1>4 DEF Note!Coded
  <1>10. IsFiniteSet(Note(c)!Coded(ls))
    BY <1>5, <1>9, FS_Subset
  <1> QED
    BY <1>1, <1>2, <1>3, <1>4, <1>5, <1>6, <1>7, <1>8, <1>9, <1>10

\* The total is a natural number.
LEMMA NoteTotal ==
  ASSUME NEW c, NEW s \in Nat, NEW rate \in Nat
  PROVE  Note(c)!Total(s, rate) \in Nat
  <1>1. PICK p : p = 2 * s * rate
    OBVIOUS
  <1>2. p \in Nat
    BY <1>1
  <1>3. s + (p + 100) \div 200 \in Nat
    BY <1>2
  <1> QED
    BY <1>1, <1>3 DEF Note!Total

\* A share is rounded: it is at most half a cent too much.
LEMMA NoteShare ==
  ASSUME NEW c, NEW ls, NEW S \in Nat, S > 0, S = Note(c)!Subtotal(ls), NEW total \in Nat,
         NEW i, ls[i].amount \in Nat
  PROVE  /\ Note(c)!Share(ls, total, i) \in Nat
         /\ 2 * S * Note(c)!Share(ls, total, i) <= 2 * total * ls[i].amount + S
  <1>1. PICK a \in Nat : a = ls[i].amount
    OBVIOUS
  <1>2. PICK m \in Nat, d \in Nat : m = 2 * total * a + S /\ d = 2 * S
    <2>1. total * a \in Nat
      OBVIOUS
    <2> QED
      BY <2>1
  <1>3. d > 0
    BY <1>2
  <1>4. PICK k : k = m \div d
    OBVIOUS
  <1>5. k \in Nat /\ d * k <= m
    BY <1>3, <1>4
  <1>6. Note(c)!Share(ls, total, i) = k
    BY <1>1, <1>2, <1>4 DEF Note!Share
  <1> QED
    BY <1>1, <1>2, <1>5, <1>6

\* Multiplication keeps the order.
LEMMA Monotone ==
  ASSUME NEW a \in Nat, NEW b \in Nat, NEW k \in Nat, a <= b
  PROVE  k * a \in Nat /\ k * b \in Nat /\ k * a <= k * b
  <1>1. PICK w \in Nat : b = a + w
    <2>1. b - a \in Nat /\ b = a + (b - a)
      OBVIOUS
    <2> QED
      BY <2>1
  <1>2. k * b = k * a + k * w
    BY <1>1
  <1>3. k * a \in Nat /\ k * w \in Nat
    OBVIOUS
  <1> QED
    BY <1>2, <1>3

\* The lines with an account are debited what rounding leaves of the total:
\* all of it if the last line has one, and else less, or less than half a cent
\* too much for each line.
LEMMA NoteShares ==
  ASSUME NEW c, Note(c)!CreditNotesAssumption, NEW ls \in NoteCase[c].lines, NEW total \in Nat,
         NEW C, C = Note(c)!Coded(ls), NEW s, s = Note(c)!Shares(ls, total)
  PROVE  /\ DOMAIN s = C /\ \A i \in C : s[i] \in Int
         /\ SumOver(s, C) \in Int
         /\ ls[Len(ls)].coded => SumOver(s, C) = total
         /\ ~ls[Len(ls)].coded => 2 * (SumOver(s, C) - total) < Len(ls)
  <1> DEFINE share == [i \in C |-> Note(c)!Share(ls, total, i)]
  <1>1. PICK n \in Nat, S \in Nat :
          /\ n = Len(ls) /\ n >= 1 /\ DOMAIN ls = 1..n /\ S = Note(c)!Subtotal(ls) /\ S > 0
    BY NoteLines
  <1>2. /\ \A i \in DOMAIN ls : ls[i].amount \in Nat /\ ls[i].coded \in BOOLEAN
        /\ S = SumOver(NoteAmounts(ls), DOMAIN ls)
        /\ C \subseteq DOMAIN ls /\ IsFiniteSet(C) /\ IsFiniteSet(DOMAIN ls)
    BY <1>1, NoteLines
  <1>3. \A i \in C : /\ share[i] \in Nat
                     /\ 2 * S * share[i] <= 2 * total * ls[i].amount + S
    BY <1>1, <1>2, NoteShare
  <1>4. s = [i \in C |-> IF i # n THEN Note(c)!Share(ls, total, i)
                         ELSE total - Note(c)!SumFunction([j \in C \ {i} |-> Note(c)!Share(ls, total, j)])]
    BY <1>1 DEF Note!Shares
  <1>5. DOMAIN s = C /\ \A i \in C : i # n => s[i] = share[i]
    BY <1>4
  <1>6. n \in C <=> ls[n].coded
    BY <1>1 DEF Note!Coded
  <1>7. CASE n \in C
    <2> DEFINE others == [j \in C \ {n} |-> Note(c)!Share(ls, total, j)]
    <2>1. PICK T : T = C \ {n}
      OBVIOUS
    <2>2. IsFiniteSet(T) /\ \A i \in T : others[i] = share[i] /\ s[i] = share[i] /\ share[i] \in Int
      BY <1>2, <1>3, <1>5, <2>1, FS_Subset
    <2>3. s[n] = total - SumOver(others, T)
      <3>1. s[n] = total - Note(c)!SumFunction(others)
        BY <1>4, <1>7
      <3>2. DOMAIN others = T
        BY <2>1
      <3> HIDE DEF others
      <3> QED
        BY <3>1, <3>2, NoteSum
    <2> HIDE DEF share, others
    <2>4. \A x \in T : others[x] = s[x] /\ others[x] \in Int
      BY <2>2
    <2>5. SumOver(others, T) = SumOver(s, T) /\ SumOver(others, T) \in Int
      BY <2>2, <2>4, SumCongruent, SumType
    <2>6. \A i \in C : s[i] \in Int
      BY <2>1, <2>2, <2>3, <2>5
    <2>7. SumOver(s, C) = s[n] + SumOver(s, T)
      BY <1>2, <1>7, <2>1, <2>6, SumRemove
    <2>8. SumOver(s, C) = total
      BY <2>3, <2>5, <2>7
    <2> QED
      BY <1>1, <1>5, <1>6, <1>7, <2>6, <2>8
  <1>8. CASE n \notin C
    <2>1. PICK a, g : a = NoteAmounts(ls) /\ g = share
      OBVIOUS
    <2>2. PICK p \in Nat, q \in Nat : p = 2 * S /\ q = 2 * total
      OBVIOUS
    <2>3. \A i \in C : a[i] \in Nat /\ g[i] \in Nat /\ p * g[i] <= q * a[i] + S
      BY <1>2, <1>3, <2>1, <2>2 DEF NoteAmounts
    <2>4. \A i \in C : s[i] = g[i] /\ s[i] \in Int
      BY <1>5, <1>8, <2>1, <2>3
    <2> HIDE DEF share
    <2>5. /\ SumOver(g, C) \in Nat /\ SumOver(a, C) \in Nat /\ Cardinality(C) \in Nat
          /\ p * SumOver(g, C) <= q * SumOver(a, C) + S * Cardinality(C)
      BY <1>2, <2>3, SumRounded
    <2>6. SumOver(s, C) = SumOver(g, C)
      BY <1>2, <2>4, SumCongruent
    <2>7. SumOver(a, C) <= S
      <3>1. PICK D, U : D = DOMAIN ls /\ U = D \ C
        OBVIOUS
      <3>2. IsFiniteSet(U) /\ C \cap U = {} /\ C \cup U = D /\ \A i \in D : a[i] \in Nat
        BY <1>2, <2>1, <3>1, FS_Subset DEF NoteAmounts
      <3>3. SumOver(a, U) \in Nat
        BY <3>1, <3>2, SumNat
      <3>4. SumOver(a, C \cup U) = SumOver(a, C) + SumOver(a, U)
        <4>1. \A x \in C \cup U : a[x] \in Int
          BY <3>2
        <4> QED
          BY <1>2, <3>2, <4>1, SumUnion
      <3> QED
        BY <1>2, <2>1, <2>5, <3>1, <3>2, <3>3, <3>4
    <2>8. Cardinality(C) <= n - 1
      <3>0. PICK m \in Int : m = n - 1
        BY <1>1
      <3>1. PICK D : m = n - 1 /\ D = 1..m
        BY <3>0
      <3>2. C \subseteq D
        BY <1>1, <1>2, <1>8, <3>1
      <3>3. 1 \in Int
        OBVIOUS
      <3>4. IsFiniteSet(1..m) /\ Cardinality(1..m) = IF 1 > m THEN 0 ELSE m - 1 + 1
        BY <3>3, FS_Interval
      <3>5. IsFiniteSet(D) /\ Cardinality(D) = m
        BY <1>1, <3>1, <3>4
      <3> QED
        BY <3>1, <3>2, <3>5, FS_Subset
    <2>9. PICK x \in Nat, y \in Nat, k \in Nat : x = SumOver(g, C) /\ y = SumOver(a,
            C) /\ k = Cardinality(C)
      BY <2>5
    <2>10. 2 * (x - total) <= n - 1
      <3>1. 2 * S * x <= 2 * total * y + S * k /\ y <= S /\ k <= n - 1
        BY <2>2, <2>5, <2>7, <2>8, <2>9
      <3>0. PICK m \in Int : m = n - 1
        OBVIOUS
      <3>2. m \in Nat /\ k <= m
        BY <1>1, <3>0, <3>1
      <3>3. total * y \in Nat /\ total * S \in Nat /\ total * y <= total * S
        BY <3>1, Monotone
      <3>4. S * k \in Nat /\ S * m \in Nat /\ S * k <= S * m
        BY <3>2, Monotone
      <3>5. PICK z \in Int : z = 2 * (x - total) - m
        OBVIOUS
      <3>7. S * z = 2 * S * x - 2 * total * S - S * m
        BY <3>5
      <3>8. 2 * S * x \in Int /\ 2 * total * S = 2 * (total * S) /\ 2 * total * y = 2 * (total * y)
        OBVIOUS
      <3>9. S * z <= 0
        BY <3>1, <3>3, <3>4, <3>7, <3>8
      <3>6. z <= 0
        BY <1>1, <3>9
      <3> QED
        BY <3>0, <3>2, <3>5, <3>6
    <2>11. SumOver(s, C) \in Int
      BY <2>5, <2>6
    <2> QED
      BY <1>1, <1>5, <1>6, <1>8, <2>4, <2>6, <2>9, <2>10, <2>11
  <1> QED
    BY <1>7, <1>8

\* What issue debits, given the account of sales returns.
LEMMA NoteDebits ==
  ASSUME NEW c, Note(c)!CreditNotesAssumption, NEW ls \in NoteCase[c].lines, NEW total \in Nat,
         NEW d, d = Note(c)!Debits(ls, total)
  PROVE  /\ IsFiniteSet(DOMAIN d) /\ \A i \in DOMAIN d : d[i] \in Int
         /\ "returns" \in chart =>
              LET debit == SumOver(d, DOMAIN d) IN
              \/ debit = total
              \/ ~ls[Len(ls)].coded /\ debit > total /\ 2 * (debit - total) < Len(ls)
  <1>1. PICK C, s : C = Note(c)!Coded(ls) /\ s = Note(c)!Shares(ls, total)
    OBVIOUS
  <1>2. /\ DOMAIN s = C /\ \A i \in C : s[i] \in Int
        /\ SumOver(s, C) \in Int
        /\ ls[Len(ls)].coded => SumOver(s, C) = total
        /\ ~ls[Len(ls)].coded => 2 * (SumOver(s, C) - total) < Len(ls)
    BY <1>1, NoteShares
  <1>3. IsFiniteSet(C) /\ 0 \notin C /\ Len(ls) \in Nat
    BY <1>1, NoteLines
  <1>4. PICK rest \in Int : rest = total - SumOver(s, C)
    BY <1>2
  <1>5. d = IF rest > 0 /\ "returns" \in chart
            THEN [i \in C \cup {0} |-> IF i = 0 THEN rest ELSE s[i]] ELSE s
    <2>1. Note(c)!SumFunction(s) = SumOver(s, C)
      BY <1>2, NoteSum
    <2> QED
      BY <1>1, <1>4, <2>1 DEF Note!Debits
  <1>6. CASE rest > 0 /\ "returns" \in chart
    <2>1. DOMAIN d = C \cup {0} /\ d[0] = rest /\ \A i \in C : d[i] = s[i]
      BY <1>3, <1>5, <1>6
    <2>2. IsFiniteSet(C \cup {0})
      BY <1>3, FS_AddElement
    <2>3. \A x \in C \cup {0} : d[x] \in Int
      BY <1>2, <2>1
    <2>4. SumOver(d, C \cup {0}) = d[0] + SumOver(d, C)
      BY <1>3, <2>3, SumInsert
    <2>5. SumOver(d, C) = SumOver(s, C)
      <3>1. \A x \in C : d[x] = s[x] /\ d[x] \in Int
        BY <1>2, <2>1
      <3> QED
        BY <1>3, <3>1, SumCongruent
    <2>6. SumOver(d, DOMAIN d) = total
      BY <1>2, <1>4, <2>1, <2>4, <2>5
    <2> QED
      BY <2>1, <2>2, <2>3, <2>6
  <1>7. CASE ~(rest > 0 /\ "returns" \in chart)
    <2>1. d = s /\ DOMAIN d = C
      BY <1>2, <1>5, <1>7
    <2> QED
      BY <1>2, <1>3, <1>4, <1>7, <2>1
  <1> QED
    BY <1>6, <1>7

\* The entry that issue makes: its lines are positive.
LEMMA NoteEntry ==
  ASSUME NEW c, Note(c)!CreditNotesAssumption, NEW ls \in NoteCase[c].lines, NEW total \in Nat,
         NEW d, d = Note(c)!Debits(ls, total), \A x \in Note(c)!Range(d) : x > 0
  PROVE  \E x \in Note(c)!Entry :
           /\ x = [status |-> "posted", debit |-> Note(c)!SumFunction(d), of |-> 0,
                   credit |-> IF "ar" \in chart THEN total ELSE 0]
           /\ x.of = 0 /\ x.status = "posted"
           /\ chart = {"ar", "returns"} =>
                \/ x.debit = x.credit
                \/ ~ls[Len(ls)].coded /\ x.debit > x.credit /\ 2 * (x.debit - x.credit) < Len(ls)
  <1>1. /\ IsFiniteSet(DOMAIN d) /\ \A i \in DOMAIN d : d[i] \in Int
        /\ "returns" \in chart =>
             \/ SumOver(d, DOMAIN d) = total
             \/ ~ls[Len(ls)].coded /\ SumOver(d, DOMAIN d) > total /\ 2 * (SumOver(d,
                  DOMAIN d) - total) < Len(ls)
    BY NoteDebits
  <1>2. \A i \in DOMAIN d : d[i] \in Nat
    <2>1. \A i \in DOMAIN d : d[i] > 0
      BY DEF Note!Range
    <2> QED
      BY <1>1, <2>1
  <1>3. PICK debit \in Nat : debit = SumOver(d, DOMAIN d)
    BY <1>1, <1>2, SumNat
  <1>4. Note(c)!SumFunction(d) = debit
    BY <1>3, NoteSum
  <1>5. PICK credit : credit = IF "ar" \in chart THEN total ELSE 0
    OBVIOUS
  <1>6. PICK x : x = [status |-> "posted", debit |-> debit, of |-> 0, credit |-> credit]
    OBVIOUS
  <1>7. x \in Note(c)!Entry /\ x.of = 0 /\ x.status = "posted" /\ x.debit = debit /\ x.credit = credit
    <2>1. credit \in Nat /\ 0 \in 0..NoteCase[c].entries
      BY <1>5, NoteConstantsType
    <2> QED
      BY <1>6, <2>1 DEF Note!Entry
  <1>8. x = [status |-> "posted", debit |-> Note(c)!SumFunction(d), of |-> 0,
             credit |-> IF "ar" \in chart THEN total ELSE 0]
    BY <1>4, <1>5, <1>6
  <1>9. chart = {"ar", "returns"} => credit = total /\ "returns" \in chart
    BY <1>5
  <1> QED
    BY <1>1, <1>3, <1>7, <1>8, <1>9

\* What a request may have read, and the status it goes on from.
NoteSeen(c, n) == {x \in Note(c)!Note : x.je <= n}

NoteOps == {"update", "rate", "issue", "apply", "void"}

NoteSlots(c, n) ==
  {Note(c)!Idle} \cup
  {t \in [sent: UNION {Note(c)!Sent(op) : op \in NoteOps}, op: NoteOps, note: NoteSeen(c, n),
          lines: NoteCase[c].lines, inv: {<<>>} \cup {<<x>> : x \in Note(c)!Invoice}, ready: BOOLEAN] :
     /\ t.sent \in Note(c)!Sent(t.op) /\ t.note.status \in Note(c)!Accepts(t.op)
     /\ t.op = "apply" => t.inv[1] \in Note(c)!Invoice}

NoteIInv(c) ==
  /\ Entries(Note(c)!Entry) /\ Len(je) <= NoteCase[c].entries
  /\ note \in NoteSeen(c, Len(je)) /\ lines \in NoteCase[c].lines
  /\ inv \in [NoteCase[c].invoices -> Note(c)!Invoice]
  /\ txn \in [NoteCase[c].req -> NoteSlots(c, Len(je))]

\* A note that no request wrote on stale reads is priced by its lines,
NotePrice(c) ==
  /\ note.subtotal = Note(c)!Subtotal(lines)
  /\ note.total = Note(c)!Total(note.subtotal, note.rate)

\* counts in full in the invoice it is applied to, until that one is paid,
NoteApplied(c) ==
  /\ note.status = "applied" <=> note.invoice # 0
  /\ \A i \in NoteCase[c].invoices :
       /\ inv[i].last = "credit" => /\ note.invoice = i
                                    /\ inv[i].paid = Note(c)!MinOf(note.total + inv[i].cash, inv[i].total)
       /\ inv[i].last # "credit" => inv[i].paid = inv[i].cash
       /\ note.invoice = i => inv[i].last # "none"
       /\ inv[i].last = "credit" /\ inv[i].status = "sent" => inv[i].paid < inv[i].total

\* and its entry is voided with it,
NoteReversed ==
  /\ note.status = "draft" => je = <<>> /\ note.je = 0
  /\ note.je # 0 => ((note.status = "voided") <=> (je[note.je].status = "voided"))

\* and balances but for the rounding of shares.
NoteBalanced(c) == chart = {"ar", "returns"} => \A i \in DOMAIN je : Note(c)!IssueBalances(je[i])

NoteLinked(c) == ~raced => NotePrice(c) /\ NoteApplied(c) /\ NoteReversed /\ NoteBalanced(c)

NoteBooks(c) == NoteIInv(c) /\ NoteLinked(c)

\* A note that is priced keeps the rest.
LEMMA NotePriced ==
  ASSUME NEW c, Note(c)!CreditNotesAssumption, NEW n, NEW b \in NoteSeen(c, n), NEW s \in Nat,
         NEW rate \in NoteCase[c].rates
  PROVE  \E p \in NoteSeen(c, n) :
           /\ p = Note(c)!Priced(b, s, rate)
           /\ p.subtotal = s /\ p.rate = rate /\ p.total = Note(c)!Total(s, rate)
           /\ p.status = b.status /\ p.je = b.je /\ p.invoice = b.invoice
  <1>1. PICK total \in Nat : total = Note(c)!Total(s, rate)
    BY NoteTotal, NoteConstantsType
  <1>2. PICK p : p = [b EXCEPT !.rate = rate, !.subtotal = s, !.total = total]
    OBVIOUS
  <1>3. /\ p \in Note(c)!Note /\ p.subtotal = s /\ p.rate = rate /\ p.total = total
        /\ p.status = b.status /\ p.je = b.je /\ p.invoice = b.invoice
    BY <1>2 DEF NoteSeen, Note!Note
  <1>4. p = Note(c)!Priced(b, s, rate)
    BY <1>1, <1>2 DEF Note!Priced
  <1> QED
    BY <1>1, <1>3, <1>4 DEF NoteSeen

\* What a request has read stays an entry that exists.
LEMMA NoteSlotsGrow ==
  ASSUME NEW c, NEW n \in Nat, NEW m \in Nat, n <= m
  PROVE  NoteSeen(c, n) \subseteq NoteSeen(c, m) /\ NoteSlots(c, n) \subseteq NoteSlots(c, m)
  <1>1. NoteSeen(c, n) \subseteq NoteSeen(c, m)
    BY DEF NoteSeen, Note!Note
  <1> QED
    BY <1>1 DEF NoteSlots

\* A request that ends leaves the others as they were.
LEMMA NoteSlotStep ==
  ASSUME NEW c, NoteIInv(c), Len(je') \in Nat, Len(je) <= Len(je'),
         NEW r \in NoteCase[c].req, txn' = [txn EXCEPT ![r] = Note(c)!Idle]
  PROVE  txn' \in [NoteCase[c].req -> NoteSlots(c, Len(je'))]
  <1>1. Len(je) \in Nat
    BY LenProperties DEF NoteIInv, Entries
  <1>2. PICK n \in Nat, m \in Nat : n = Len(je) /\ m = Len(je') /\ n <= m
    BY <1>1
  <1>3. NoteSlots(c, n) \subseteq NoteSlots(c, m) /\ Note(c)!Idle \in NoteSlots(c, m)
    BY <1>2, NoteSlotsGrow DEF NoteSlots
  <1>4. txn \in [NoteCase[c].req -> NoteSlots(c, m)]
    BY <1>2, <1>3 DEF NoteIInv
  <1> QED
    BY <1>2, <1>3, <1>4

\* A request that is on its way.
LEMMA NoteSlotType ==
  ASSUME NEW c, NoteIInv(c), NEW r \in NoteCase[c].req, txn[r] # Note(c)!Idle
  PROVE  /\ txn[r].op \in NoteOps /\ txn[r].sent \in Note(c)!Sent(txn[r].op)
         /\ txn[r].note \in NoteSeen(c, Len(je)) /\ txn[r].note.status \in Note(c)!Accepts(txn[r].op)
         /\ txn[r].op = "apply" => txn[r].inv[1] \in Note(c)!Invoice
         /\ txn[r].lines \in NoteCase[c].lines
  BY DEF NoteIInv, NoteSlots

\* What a request that commits on fresh reads has read.
LEMMA NoteFresh ==
  ASSUME NEW c, NoteBooks(c), NEW r \in NoteCase[c].req, txn[r] # Note(c)!Idle,
         Note(c)!Finish(r), ~raced'
  PROVE  /\ ~raced /\ NotePrice(c) /\ NoteApplied(c) /\ NoteReversed /\ NoteBalanced(c)
         /\ note = txn[r].note /\ lines = txn[r].lines
         /\ note.status \in Note(c)!Accepts(txn[r].op)
         /\ txn[r].op = "apply" => txn[r].inv = <<inv[txn[r].sent.invoice]>>
  <1>1. /\ ~raced /\ note = txn[r].note /\ lines = txn[r].lines
        /\ txn[r].op = "apply" => txn[r].inv = <<inv[txn[r].sent.invoice]>>
    BY DEF Note!Finish
  <1>2. NoteIInv(c) /\ NoteLinked(c)
    BY DEF NoteBooks
  <1> QED
    BY <1>1, <1>2, NoteSlotType DEF NoteLinked

\* What is applied stays so.
LEMMA NoteAppliedStays ==
  ASSUME NEW c, Note(c)!CreditNotesAssumption, NoteApplied(c), UNCHANGED inv, note'.invoice = note.invoice,
         note'.status = "applied" <=> note.status = "applied",
         note.invoice # 0 => note'.total = note.total
  PROVE  NoteApplied(c)'
  <1>1. \A i \in NoteCase[c].invoices : i # 0
    BY NoteConstantsType
  <1> QED
    BY <1>1 DEF NoteApplied, Note!MinOf

\* A draft has no entries, none of which is out of balance.
LEMMA NoteDraft ==
  ASSUME NEW c, NoteReversed, note.status = "draft", UNCHANGED je, note'.status = "draft",
         note'.je = note.je
  PROVE  NoteReversed' /\ NoteBalanced(c)'
  <1>1. je = <<>> /\ DOMAIN je = {} /\ note.je = 0
    BY EmptySeq DEF NoteReversed
  <1> QED
    BY <1>1 DEF NoteReversed, NoteBalanced

\* Steps that leave the entries alone.
LEMMA NoteQuiet ==
  ASSUME NEW c, NoteIInv(c), UNCHANGED je, note' \in NoteSeen(c, Len(je)), lines' \in NoteCase[c].lines,
         inv' \in [NoteCase[c].invoices -> Note(c)!Invoice], txn' \in [NoteCase[c].req -> NoteSlots(c,
           Len(je))]
  PROVE  NoteIInv(c)'
  <1>1. Entries(Note(c)!Entry)' /\ Len(je') <= NoteCase[c].entries
    BY DEF NoteIInv, Entries, ReversedIsVoided, VoidedIsReversed, OnlyReversal
  <1> QED
    BY <1>1 DEF NoteIInv

\* The request ends, and no entry is made.
LEMMA NoteQuietEnd ==
  ASSUME NEW c, NoteIInv(c), NEW r \in NoteCase[c].req, UNCHANGED je,
         txn' = [txn EXCEPT ![r] = Note(c)!Idle]
  PROVE  txn' \in [NoteCase[c].req -> NoteSlots(c, Len(je))]
  <1>1. Len(je) \in Nat
    BY LenProperties DEF NoteIInv, Entries
  <1>2. Len(je') = Len(je) /\ Len(je') \in Nat /\ Len(je) <= Len(je')
    BY <1>1
  <1>3. txn' \in [NoteCase[c].req -> NoteSlots(c, Len(je'))]
    BY <1>2, NoteSlotStep
  <1> QED
    BY <1>2, <1>3

\* Steps that only change the requests.
LEMMA NoteSame ==
  ASSUME NEW c, NoteBooks(c), UNCHANGED <<note, lines, inv, je, chart, raced>>,
         txn' \in [NoteCase[c].req -> NoteSlots(c, Len(je))]
  PROVE  NoteBooks(c)'
  <1>1. NoteIInv(c)'
    BY NoteQuiet DEF NoteBooks, NoteIInv
  <1>2. NoteLinked(c)'
    BY DEF NoteBooks, NoteLinked, NotePrice, NoteApplied, NoteReversed, NoteBalanced, Note!IssueBalances,
           Note!Total, Note!Subtotal, Note!MinOf, Note!SumFunction, Note!FoldFunction
  <1> QED
    BY <1>1, <1>2 DEF NoteBooks

\* A new note is priced by its lines and has no entries.
LEMMA NoteInitBooks ==
  ASSUME NEW c, Note(c)!CreditNotesAssumption, Note(c)!Init
  PROVE  NoteBooks(c)
  <1>1. PICK ls \in NoteCase[c].lines, rate \in NoteCase[c].rates :
          /\ lines = ls
          /\ note = Note(c)!Priced([status |-> "draft", rate |-> 0, subtotal |-> 0, total |-> 0,
                                    je |-> 0, invoice |-> 0], Note(c)!Subtotal(ls), rate)
    BY DEF Note!Init
  <1>2. PICK s \in Nat : s = Note(c)!Subtotal(ls)
    BY NoteLines
  <1>3. PICK total \in Nat : total = Note(c)!Total(s, rate)
    BY NoteTotal, NoteConstantsType
  <1>4. note = [status |-> "draft", rate |-> rate, subtotal |-> s, total |-> total, je |-> 0, invoice |-> 0]
    BY <1>1, <1>2, <1>3 DEF Note!Priced
  <1>5. Entries(Note(c)!Entry) /\ Len(je) = 0 /\ je = <<>> /\ DOMAIN je = {}
    BY NoEntries DEF Note!Init
  <1>6. note \in NoteSeen(c, 0)
    BY <1>4, NoteConstantsType DEF NoteSeen, Note!Note
  <1>7. txn \in [NoteCase[c].req -> NoteSlots(c, 0)]
    BY DEF Note!Init, NoteSlots
  <1>8. \A i \in NoteCase[c].invoices : /\ inv[i] \in Note(c)!Invoice /\ inv[i].last = "none"
                                        /\ inv[i].paid = inv[i].cash
    BY NoteConstantsType DEF Note!Init, Note!Invoice
  <1>9. inv \in [NoteCase[c].invoices -> Note(c)!Invoice]
    BY <1>8 DEF Note!Init
  <1>10. NoteIInv(c)
    BY <1>1, <1>5, <1>6, <1>7, <1>9, NoteConstantsType DEF NoteIInv
  <1>11. NotePrice(c) /\ NoteReversed /\ NoteBalanced(c)
    BY <1>1, <1>2, <1>3, <1>4, <1>5 DEF NotePrice, NoteReversed, NoteBalanced
  <1>12. NoteApplied(c)
    BY <1>4, <1>8, NoteConstantsType DEF NoteApplied
  <1> QED
    BY <1>10, <1>11, <1>12 DEF NoteBooks, NoteLinked

\* The reads and the guards of a handler.
LEMMA NoteReadStep ==
  ASSUME NEW c, Note(c)!CreditNotesAssumption, NoteBooks(c), NEW r \in NoteCase[c].req, Note(c)!Read(r)
  PROVE  NoteBooks(c)'
  <1>1. PICK op \in NoteOps : \E t \in Note(c)!Sent(op) :
          /\ note.status \in Note(c)!Accepts(op)
          /\ txn' = [txn EXCEPT ![r] = [sent |-> t, op |-> op, note |-> note, lines |-> lines,
                                        inv |-> IF op = "apply" THEN <<inv[t.invoice]>> ELSE <<>>,
                                        ready |-> op # "issue"]]
    BY DEF Note!Read, NoteOps
  <1>2. PICK t \in Note(c)!Sent(op) :
          /\ note.status \in Note(c)!Accepts(op)
          /\ txn' = [txn EXCEPT ![r] = [sent |-> t, op |-> op, note |-> note, lines |-> lines,
                                        inv |-> IF op = "apply" THEN <<inv[t.invoice]>> ELSE <<>>,
                                        ready |-> op # "issue"]]
    BY <1>1
  <1>3. op = "apply" => t.invoice \in NoteCase[c].invoices
    BY DEF Note!Sent
  <1>4. PICK old : old = IF op = "apply" THEN <<inv[t.invoice]>> ELSE <<>>
    OBVIOUS
  <1>5. /\ old \in {<<>>} \cup {<<x>> : x \in Note(c)!Invoice}
        /\ op = "apply" => old[1] \in Note(c)!Invoice
    <2>1. CASE op = "apply"
      <3>1. PICK i \in Note(c)!Invoice : i = inv[t.invoice]
        BY <1>3, <2>1 DEF NoteBooks, NoteIInv
      <3>2. old = <<i>>
        BY <1>4, <2>1, <3>1
      <3> QED
        BY <3>2
    <2>2. CASE op # "apply"
      BY <1>4, <2>2
    <2> QED
      BY <2>1, <2>2
  <1>6. PICK ready \in BOOLEAN : ready = (op # "issue")
    OBVIOUS
  <1>7. PICK x : x = [sent |-> t, op |-> op, note |-> note, lines |-> lines, inv |-> old, ready |-> ready]
    OBVIOUS
  <1>8. x \in NoteSlots(c, Len(je))
    <2>1. /\ t \in UNION {Note(c)!Sent(o) : o \in NoteOps}
          /\ note \in NoteSeen(c, Len(je)) /\ lines \in NoteCase[c].lines
      BY DEF NoteBooks, NoteIInv
    <2>2. x \in [sent: UNION {Note(c)!Sent(o) : o \in NoteOps}, op: NoteOps, note: NoteSeen(c, Len(je)),
                 lines: NoteCase[c].lines, inv: {<<>>} \cup {<<i>> : i \in Note(c)!Invoice}, ready: BOOLEAN]
      BY <1>5, <1>7, <2>1
    <2>3. x.sent = t /\ x.op = op /\ x.note = note /\ x.inv = old
      BY <1>7
    <2> QED
      BY <1>2, <1>5, <2>2, <2>3 DEF NoteSlots
  <1>9. txn' = [txn EXCEPT ![r] = x]
    BY <1>2, <1>4, <1>6, <1>7
  <1>10. txn' \in [NoteCase[c].req -> NoteSlots(c, Len(je))]
    BY <1>8, <1>9 DEF NoteBooks, NoteIInv
  <1> QED
    BY <1>10, NoteSame DEF Note!Read

\* issue reads the lines.
LEMMA NoteReadLinesStep ==
  ASSUME NEW c, Note(c)!CreditNotesAssumption, NoteBooks(c), NEW r \in NoteCase[c].req, Note(c)!ReadLines(r)
  PROVE  NoteBooks(c)'
  <1>1. PICK t \in NoteSlots(c, Len(je)) : t = txn[r] /\ t # Note(c)!Idle
    BY DEF NoteBooks, NoteIInv, Note!ReadLines
  <1>2. PICK x : x = [t EXCEPT !.lines = lines, !.ready = TRUE]
    OBVIOUS
  <1>3. x \in NoteSlots(c, Len(je))
    <2>1. lines \in NoteCase[c].lines
      BY DEF NoteBooks, NoteIInv
    <2>2. /\ x \in [sent: UNION {Note(c)!Sent(o) : o \in NoteOps}, op: NoteOps, note: NoteSeen(c, Len(je)),
                    lines: NoteCase[c].lines, inv: {<<>>} \cup {<<i>> : i \in Note(c)!Invoice},
                      ready: BOOLEAN]
          /\ x.sent = t.sent /\ x.op = t.op /\ x.note = t.note /\ x.inv = t.inv
      BY <1>1, <1>2, <2>1 DEF NoteSlots
    <2> QED
      BY <1>1, <2>2 DEF NoteSlots
  <1>4. txn' = [txn EXCEPT ![r] = x]
    BY <1>1, <1>2 DEF Note!ReadLines, NoteBooks, NoteIInv
  <1>5. txn' \in [NoteCase[c].req -> NoteSlots(c, Len(je))]
    BY <1>3, <1>4 DEF NoteBooks, NoteIInv
  <1> QED
    BY <1>5, NoteSame DEF Note!ReadLines

\* update with lines: the note is a draft, and priced again.
LEMMA NoteCommitUpdateStep ==
  ASSUME NEW c, Note(c)!CreditNotesAssumption, NoteBooks(c), NEW r \in NoteCase[c].req,
         Note(c)!CommitUpdate(r)
  PROVE  NoteBooks(c)'
  <1>1. /\ txn[r] # Note(c)!Idle /\ txn[r].op = "update" /\ Note(c)!Finish(r)
        /\ UNCHANGED <<inv, je>> /\ txn' = [txn EXCEPT ![r] = Note(c)!Idle]
    BY DEF Note!CommitUpdate, Note!Committing, Note!Finish
  <1>2. PICK t \in Note(c)!Sent("update") : t = txn[r].sent
    BY <1>1, NoteSlotType DEF NoteBooks
  <1>3. t.lines \in NoteCase[c].lines /\ t.rate \in NoteCase[c].rates
    BY DEF Note!Sent
  <1>4. PICK s \in Nat : s = Note(c)!Subtotal(t.lines)
    BY <1>3, NoteLines
  <1>5. PICK b \in NoteSeen(c, Len(je)) : b = note
    BY DEF NoteBooks, NoteIInv
  <1>6. PICK p \in NoteSeen(c, Len(je)) :
          /\ p = Note(c)!Priced(b, s, t.rate)
          /\ p.subtotal = s /\ p.rate = t.rate /\ p.total = Note(c)!Total(s, t.rate)
          /\ p.status = b.status /\ p.je = b.je /\ p.invoice = b.invoice
    BY <1>3, NotePriced
  <1>7. note' = p /\ lines' = t.lines
    BY <1>2, <1>4, <1>5, <1>6 DEF Note!CommitUpdate
  <1>8. NoteIInv(c)'
    BY <1>1, <1>3, <1>7, NoteQuietEnd, NoteQuiet DEF NoteBooks, NoteIInv
  <1>9. ASSUME ~raced'
        PROVE  NotePrice(c)' /\ NoteApplied(c)' /\ NoteReversed' /\ NoteBalanced(c)'
    <2>1. ~raced /\ NoteApplied(c) /\ NoteReversed /\ b.status = "draft"
      BY <1>1, <1>5, <1>9, NoteFresh DEF Note!Accepts
    <2>2. NotePrice(c)'
      BY <1>4, <1>6, <1>7 DEF NotePrice, Note!Total, Note!Subtotal, Note!SumFunction, Note!FoldFunction
    <2>3. note.invoice = 0
      BY <1>5, <2>1, NoteConstantsType DEF NoteApplied, NoteSeen, Note!Note
    <2>4. NoteApplied(c)'
      BY <1>1, <1>5, <1>6, <1>7, <2>1, <2>3, NoteAppliedStays
    <2>5. NoteReversed' /\ NoteBalanced(c)'
      BY <1>1, <1>5, <1>6, <1>7, <2>1, NoteDraft
    <2> QED
      BY <2>2, <2>4, <2>5
  <1> QED
    BY <1>8, <1>9 DEF NoteBooks, NoteLinked

\* update with a rate and no lines: from the subtotal read.
LEMMA NoteCommitRateStep ==
  ASSUME NEW c, Note(c)!CreditNotesAssumption, NoteBooks(c), NEW r \in NoteCase[c].req,
         Note(c)!CommitRate(r)
  PROVE  NoteBooks(c)'
  <1>1. /\ txn[r] # Note(c)!Idle /\ txn[r].op = "rate" /\ Note(c)!Finish(r)
        /\ UNCHANGED <<lines, inv, je>> /\ txn' = [txn EXCEPT ![r] = Note(c)!Idle]
    BY DEF Note!CommitRate, Note!Committing, Note!Finish
  <1>2. PICK t \in Note(c)!Sent("rate") : t = txn[r].sent
    BY <1>1, NoteSlotType DEF NoteBooks
  <1>3. t.rate \in NoteCase[c].rates
    BY DEF Note!Sent
  <1>4. PICK s \in Nat : s = txn[r].note.subtotal
    BY <1>1, NoteSlotType DEF NoteBooks, NoteSeen, Note!Note
  <1>5. PICK b \in NoteSeen(c, Len(je)) : b = note
    BY DEF NoteBooks, NoteIInv
  <1>6. PICK p \in NoteSeen(c, Len(je)) :
          /\ p = Note(c)!Priced(b, s, t.rate)
          /\ p.subtotal = s /\ p.rate = t.rate /\ p.total = Note(c)!Total(s, t.rate)
          /\ p.status = b.status /\ p.je = b.je /\ p.invoice = b.invoice
    BY <1>3, NotePriced
  <1>7. note' = p
    BY <1>2, <1>4, <1>5, <1>6 DEF Note!CommitRate
  <1>8. NoteIInv(c)'
    BY <1>1, <1>7, NoteQuietEnd, NoteQuiet DEF NoteBooks, NoteIInv
  <1>9. ASSUME ~raced'
        PROVE  NotePrice(c)' /\ NoteApplied(c)' /\ NoteReversed' /\ NoteBalanced(c)'
    <2>1. ~raced /\ NotePrice(c) /\ NoteApplied(c) /\ NoteReversed /\ b.status = "draft" /\ s = b.subtotal
      BY <1>1, <1>4, <1>5, <1>9, NoteFresh DEF Note!Accepts
    <2>2. NotePrice(c)'
      BY <1>1, <1>5, <1>6, <1>7, <2>1
         DEF NotePrice, Note!Total, Note!Subtotal, Note!SumFunction, Note!FoldFunction
    <2>3. note.invoice = 0
      BY <1>5, <2>1, NoteConstantsType DEF NoteApplied, NoteSeen, Note!Note
    <2>4. NoteApplied(c)'
      BY <1>1, <1>5, <1>6, <1>7, <2>1, <2>3, NoteAppliedStays
    <2>5. NoteReversed' /\ NoteBalanced(c)'
      BY <1>1, <1>5, <1>6, <1>7, <2>1, NoteDraft
    <2> QED
      BY <2>2, <2>4, <2>5
  <1> QED
    BY <1>8, <1>9 DEF NoteBooks, NoteLinked

\* as much of the note as the invoice has a balance.
LEMMA NoteCommitApplyStep ==
  ASSUME NEW c, Note(c)!CreditNotesAssumption, NoteBooks(c), NEW r \in NoteCase[c].req,
         Note(c)!CommitApply(r)
  PROVE  NoteBooks(c)'
  <1>1. /\ txn[r] # Note(c)!Idle /\ txn[r].op = "apply" /\ Note(c)!Finish(r)
        /\ UNCHANGED <<lines, je>> /\ txn' = [txn EXCEPT ![r] = Note(c)!Idle]
    BY DEF Note!CommitApply, Note!Committing, Note!Finish
  <1>2. PICK i \in NoteCase[c].invoices : i = txn[r].sent.invoice
    BY <1>1, NoteSlotType DEF NoteBooks, Note!Sent
  <1>3. PICK old \in Note(c)!Invoice, credit \in NoteSeen(c, Len(je)) :
          old = txn[r].inv[1] /\ credit = txn[r].note
    BY <1>1, NoteSlotType DEF NoteBooks
  <1>4. PICK total \in Nat, due \in Nat, was \in Int :
          total = credit.total /\ due = old.total /\ was = old.paid
    BY <1>3, NoteConstantsType DEF NoteSeen, Note!Note, Note!Invoice
  <1>5. PICK paid \in Int : paid = was + Note(c)!MinOf(total, due - was)
    BY DEF Note!MinOf
  <1>6. PICK e \in Note(c)!Invoice : e = inv[i]
    BY DEF NoteBooks, NoteIInv
  <1>7. PICK status \in {"sent", "paid", "voided"} : status = IF due - paid <= 0 THEN "paid" ELSE e.status
    BY DEF Note!Invoice
  <1>8. PICK f : f = [e EXCEPT !.paid = paid, !.last = "credit", !.status = status]
    OBVIOUS
  <1>9. /\ f \in Note(c)!Invoice /\ f.paid = paid /\ f.last = "credit" /\ f.status = status
        /\ f.total = e.total /\ f.cash = e.cash
    BY <1>8 DEF Note!Invoice
  <1>10. inv' = [inv EXCEPT ![i] = f]
    <2>1. inv' = [inv EXCEPT ![i].paid = paid, ![i].last = "credit",
                             ![i].status = IF due - paid <= 0 THEN "paid" ELSE @]
      BY <1>2, <1>3, <1>4, <1>5 DEF Note!CommitApply
    <2>2. inv \in [NoteCase[c].invoices -> Note(c)!Invoice]
      BY DEF NoteBooks, NoteIInv
    <2> QED
      BY <1>6, <1>7, <1>8, <2>1, <2>2 DEF Note!Invoice
  <1>11. /\ inv' \in [NoteCase[c].invoices -> Note(c)!Invoice] /\ inv'[i] = f
         /\ \A j \in NoteCase[c].invoices : j # i => inv'[j] = inv[j]
    BY <1>9, <1>10 DEF NoteBooks, NoteIInv
  <1>12. PICK b \in NoteSeen(c, Len(je)) : b = note
    BY DEF NoteBooks, NoteIInv
  <1>0. PICK s \in {"draft", "issued", "applied", "voided"}, k \in NoteCase[c].invoices \cup {0} :
          s = "applied" /\ k = i
    OBVIOUS
  <1>13. PICK p : s = "applied" /\ k = i /\ p = [b EXCEPT !.status = s, !.invoice = k]
    BY <1>0
  <1>14. /\ p \in NoteSeen(c, Len(je)) /\ p.status = s /\ p.je = b.je /\ p.subtotal = b.subtotal
         /\ p.rate = b.rate /\ p.total = b.total /\ p.invoice = k
    <2>1. b \in Note(c)!Note /\ b.je <= Len(je)
      BY DEF NoteSeen
    <2>2. /\ p \in Note(c)!Note /\ p.status = s /\ p.je = b.je /\ p.subtotal = b.subtotal
          /\ p.rate = b.rate /\ p.total = b.total /\ p.invoice = k
      BY <1>13, <2>1 DEF Note!Note
    <2> QED
      BY <2>1, <2>2 DEF NoteSeen
  <1>15. note' = p
    <2>1. note' = [note EXCEPT !.status = "applied", !.invoice = txn[r].sent.invoice]
      BY Zenon DEF Note!CommitApply
    <2> QED
      BY <1>2, <1>12, <1>13, <1>14, <2>1, Zenon
  <1>16. /\ p.status = "applied" /\ p.je = b.je /\ p.subtotal = b.subtotal /\ p.rate = b.rate
         /\ p.total = b.total /\ p.invoice = i
    BY <1>13, <1>14
  <1>17. NoteIInv(c)'
    BY <1>1, <1>11, <1>14, <1>15, NoteQuietEnd, NoteQuiet DEF NoteBooks, NoteIInv
  <1>18. ASSUME ~raced'
         PROVE  NotePrice(c)' /\ NoteApplied(c)' /\ NoteReversed' /\ NoteBalanced(c)'
    <2>1. /\ ~raced /\ NotePrice(c) /\ NoteApplied(c) /\ NoteReversed /\ NoteBalanced(c)
          /\ b.status = "issued" /\ credit = b /\ txn[r].inv = <<inv[i]>>
      BY <1>1, <1>2, <1>3, <1>12, <1>18, NoteFresh DEF Note!Accepts
    <2>2. old = e
      BY <1>3, <1>6, <2>1
    <2>3. NotePrice(c)'
      BY <1>1, <1>12, <1>16, <1>15, <2>1
         DEF NotePrice, Note!Total, Note!Subtotal, Note!SumFunction, Note!FoldFunction
    <2>4. NoteReversed'
      BY <1>1, <1>12, <1>16, <1>15, <2>1 DEF NoteReversed
    <2>5. NoteBalanced(c)'
      BY <1>1, <2>1 DEF NoteBalanced, Note!IssueBalances, Note!Finish
    <2>6. note.invoice = 0 /\ i # 0
      BY <1>12, <2>1, NoteConstantsType DEF NoteApplied
    <2>7. \A j \in NoteCase[c].invoices : j # 0 /\ inv[j].last # "credit" /\ inv[j].paid = inv[j].cash
      BY <2>1, <2>6, NoteConstantsType DEF NoteApplied
    <2>8. e.paid = e.cash /\ e.cash = was /\ e.total = due /\ b.total = total
      BY <1>4, <1>6, <2>1, <2>2, <2>7
    <2>9. paid = Note(c)!MinOf(total + was, due) /\ (due - paid <= 0 \/ paid < due)
      BY <1>5 DEF Note!MinOf
    <2>10. f.paid = Note(c)!MinOf(p.total + f.cash, f.total)
      BY <1>9, <1>16, <2>8, <2>9
    <2>11. f.status = "sent" => f.paid < f.total
      BY <1>7, <1>9, <2>8, <2>9
    <2>12. \A j \in NoteCase[c].invoices :
            /\ inv'[j].last = "credit" => /\ p.invoice = j
                                          /\ inv'[j].paid = Note(c)!MinOf(p.total + inv'[j].cash,
                                               inv'[j].total)
            /\ inv'[j].last # "credit" => inv'[j].paid = inv'[j].cash
            /\ p.invoice = j => inv'[j].last # "none"
            /\ inv'[j].last = "credit" /\ inv'[j].status = "sent" => inv'[j].paid < inv'[j].total
      <3> SUFFICES ASSUME NEW j \in NoteCase[c].invoices
                   PROVE
            /\ inv'[j].last = "credit" => /\ p.invoice = j
                                          /\ inv'[j].paid = Note(c)!MinOf(p.total + inv'[j].cash,
                                               inv'[j].total)
            /\ inv'[j].last # "credit" => inv'[j].paid = inv'[j].cash
            /\ p.invoice = j => inv'[j].last # "none"
            /\ inv'[j].last = "credit" /\ inv'[j].status = "sent" => inv'[j].paid < inv'[j].total
        OBVIOUS
      <3>1. CASE j = i
        BY <1>9, <1>11, <1>16, <2>10, <2>11, <3>1
      <3>2. CASE j # i
        BY <1>11, <1>16, <2>7, <3>2
      <3> QED
        BY <3>1, <3>2
    <2>13. NoteApplied(c)'
      BY <1>16, <1>15, <2>6, <2>12 DEF NoteApplied, Note!MinOf
    <2> QED
      BY <2>3, <2>4, <2>5, <2>13
  <1> QED
    BY <1>17, <1>18 DEF NoteBooks, NoteLinked

\* Steps that add an entry.
LEMMA NoteGrown ==
  ASSUME NEW c, NoteIInv(c), NEW r \in NoteCase[c].req, txn' = [txn EXCEPT ![r] = Note(c)!Idle],
         Entries(Note(c)!Entry)', Len(je') <= NoteCase[c].entries,
         Len(je') \in Nat, Len(je) <= Len(je'),
         note' \in NoteSeen(c, Len(je')), UNCHANGED <<lines, inv>>
  PROVE  NoteIInv(c)'
  <1>1. txn' \in [NoteCase[c].req -> NoteSlots(c, Len(je'))]
    BY NoteSlotStep
  <1> QED
    BY <1>1 DEF NoteIInv

\* The lines with an account, and what they leave, are debited.
LEMMA NoteCommitIssueStep ==
  ASSUME NEW c, Note(c)!CreditNotesAssumption, NoteBooks(c), NEW r \in NoteCase[c].req,
         Note(c)!CommitIssue(r)
  PROVE  NoteBooks(c)'
  <1>1. /\ txn[r] # Note(c)!Idle /\ txn[r].op = "issue" /\ Note(c)!Finish(r) /\ NoteIInv(c)
        /\ UNCHANGED <<lines, inv, chart>> /\ txn' = [txn EXCEPT ![r] = Note(c)!Idle]
    BY DEF Note!CommitIssue, Note!Committing, Note!Finish, NoteBooks
  <1>2. PICK ls \in NoteCase[c].lines, was \in NoteSeen(c, Len(je)) : ls = txn[r].lines /\ was = txn[r].note
    BY <1>1, NoteSlotType
  <1>3. PICK total \in Nat : total = was.total
    BY DEF NoteSeen, Note!Note
  <1>4. PICK b \in NoteSeen(c, Len(je)) : b = note
    BY <1>1 DEF NoteIInv
  <1>5. PICK link : link = IF period_open THEN Len(je) + 1 ELSE 0
    OBVIOUS
  <1>6. PICK p : p = [b EXCEPT !.status = "issued", !.je = link]
    OBVIOUS
  <1>7. note' = p
    BY <1>4, <1>5, <1>6 DEF Note!CommitIssue
  <1>8. Len(je) \in Nat /\ NoteCase[c].entries \in Nat
    BY <1>1, LenProperties, NoteConstantsType DEF NoteIInv, Entries
  <1>9. /\ link \in 0..NoteCase[c].entries => p \in Note(c)!Note
        /\ p.status = "issued" /\ p.je = link /\ p.subtotal = b.subtotal
        /\ p.rate = b.rate /\ p.total = b.total /\ p.invoice = b.invoice
    BY <1>6 DEF NoteSeen, Note!Note
  <1>10. ASSUME ~raced'
         PROVE  /\ ~raced /\ b.status = "draft" /\ je = <<>> /\ ls = lines /\ total = b.total
                /\ NotePrice(c)' /\ NoteApplied(c)'
    <2>1. /\ ~raced /\ NotePrice(c) /\ NoteApplied(c) /\ NoteReversed /\ b.status = "draft"
          /\ ls = lines /\ was = b
      BY <1>1, <1>2, <1>4, <1>10, NoteFresh DEF Note!Accepts
    <2>2. NotePrice(c)'
      BY <1>1, <1>4, <1>7, <1>9, <2>1
         DEF NotePrice, Note!Total, Note!Subtotal, Note!SumFunction, Note!FoldFunction
    <2>3. NoteApplied(c)'
      BY <1>1, <1>4, <1>7, <1>9, <2>1, NoteAppliedStays
    <2>4. je = <<>>
      BY <1>4, <2>1 DEF NoteReversed
    <2> QED
      BY <1>3, <2>1, <2>2, <2>3, <2>4
  <1>11. CASE ~period_open
    <2>1. UNCHANGED je /\ link = 0
      BY <1>1, <1>5, <1>11 DEF Note!CommitIssue
    <2>2. p \in NoteSeen(c, Len(je))
      BY <1>8, <1>9, <2>1 DEF NoteSeen
    <2>3. NoteIInv(c)'
      BY <1>1, <1>7, <2>1, <2>2, NoteQuietEnd, NoteQuiet DEF NoteIInv
    <2>4. ASSUME ~raced' PROVE NoteReversed' /\ NoteBalanced(c)'
      <3>1. DOMAIN je' = {}
        BY <1>10, <2>1, <2>4, EmptySeq
      <3> QED
        BY <1>7, <1>9, <2>1, <3>1 DEF NoteReversed, NoteBalanced
    <2> QED
      BY <1>10, <2>3, <2>4 DEF NoteBooks, NoteLinked
  <1>12. CASE period_open
    <2>1. PICK d : d = Note(c)!Debits(ls, total)
      OBVIOUS
    <2>2. /\ \A x \in Note(c)!Range(d) : x > 0
          /\ Len(je) < NoteCase[c].entries
          /\ je' = Append(je, [status |-> "posted", debit |-> Note(c)!SumFunction(d), of |-> 0,
                               credit |-> IF "ar" \in chart THEN total ELSE 0])
      BY <1>2, <1>3, <1>12, <2>1 DEF Note!CommitIssue, Note!Post
    <2>3. PICK x \in Note(c)!Entry :
            /\ x = [status |-> "posted", debit |-> Note(c)!SumFunction(d), of |-> 0,
                    credit |-> IF "ar" \in chart THEN total ELSE 0]
            /\ x.of = 0 /\ x.status = "posted"
            /\ chart = {"ar", "returns"} =>
                 \/ x.debit = x.credit
                 \/ ~ls[Len(ls)].coded /\ x.debit > x.credit /\ 2 * (x.debit - x.credit) < Len(ls)
      BY <2>1, <2>2, NoteEntry
    <2>4. /\ Entries(Note(c)!Entry)' /\ Len(je') = Len(je) + 1
          /\ DOMAIN je = 1..Len(je) /\ DOMAIN je' = 1..(Len(je) + 1)
          /\ je'[Len(je) + 1] = x
      <3>1. Entries(Note(c)!Entry) /\ je' = Append(je, x) /\ x.status # "voided"
        BY <1>1, <2>2, <2>3 DEF NoteIInv
      <3> QED
        BY <2>3, <3>1, EntryAdded
    <2>5. link = Len(je) + 1
      BY <1>5, <1>12
    <2>6. p \in NoteSeen(c, Len(je'))
      BY <1>8, <1>9, <2>2, <2>4, <2>5 DEF NoteSeen
    <2>7. NoteIInv(c)'
      <3>1. /\ Len(je') \in Nat /\ Len(je) <= Len(je') /\ Len(je') <= NoteCase[c].entries
            /\ note' \in NoteSeen(c, Len(je'))
        BY <1>7, <1>8, <2>2, <2>4, <2>6
      <3> QED
        BY <1>1, <2>4, <3>1, NoteGrown
    <2>8. ASSUME ~raced' PROVE NoteReversed' /\ NoteBalanced(c)'
      <3>1. Len(je) = 0
        BY <1>10, <2>8, EmptySeq
      <3>2. \A i \in DOMAIN je' : je'[i] = x
        BY <2>4, <3>1
      <3>3. link \in DOMAIN je'
        BY <2>4, <2>5, <3>1
      <3>4. NoteReversed'
        BY <1>7, <1>9, <2>3, <3>2, <3>3 DEF NoteReversed
      <3>5. chart = {"ar", "returns"} =>
              \/ x.debit = x.credit
              \/ ~lines[Len(lines)].coded /\ x.debit > x.credit /\ 2 * (x.debit - x.credit) < Len(lines)
        BY <1>10, <2>3, <2>8
      <3>6. NoteBalanced(c)'
        BY <1>1, <3>2, <3>5 DEF NoteBalanced, Note!IssueBalances
      <3> QED
        BY <3>4, <3>6
    <2> QED
      BY <1>10, <2>7, <2>8 DEF NoteBooks, NoteLinked
  <1> QED
    BY <1>11, <1>12

\* What the reversal of an entry makes of it, and is.
LEMMA NoteReversal ==
  ASSUME NEW c, Note(c)!CreditNotesAssumption, NoteIInv(c), NEW k \in DOMAIN je, je[k].status = "posted",
         je' = Append([je EXCEPT ![k].status = "voided"],
                      [status |-> "posted", debit |-> je[k].credit, of |-> k, credit |-> je[k].debit])
  PROVE  \E y, x \in Note(c)!Entry :
           /\ Reversing(k, y, x)
           /\ y.debit = je[k].debit /\ y.credit = je[k].credit
  <1>1. PICK e \in Note(c)!Entry : e = je[k]
    BY ElementOfSeq, LenProperties DEF NoteIInv, Entries
  <1>2. PICK y \in Note(c)!Entry : y = [e EXCEPT !.status = "voided"]
    BY DEF Note!Entry
  <1>3. y.status = "voided" /\ y.of = e.of /\ y.debit = e.debit /\ y.credit = e.credit
    BY <1>2 DEF Note!Entry
  <1>4. /\ k \in 0..NoteCase[c].entries /\ e.debit \in Nat /\ e.credit \in Nat
    <2>1. k \in 1..Len(je) /\ Len(je) \in Nat /\ Len(je) <= NoteCase[c].entries /\ NoteCase[c].entries \in Nat
      BY NoteConstantsType, LenProperties DEF NoteIInv, Entries
    <2>2. e.debit \in Nat /\ e.credit \in Nat
      BY DEF Note!Entry
    <2> QED
      BY <2>1, <2>2
  <1>5. PICK x : x = [status |-> "posted", debit |-> e.credit, of |-> k, credit |-> e.debit]
    OBVIOUS
  <1>6. x \in Note(c)!Entry /\ x.of = k /\ x.status = "posted"
    BY <1>4, <1>5 DEF Note!Entry
  <1>7. je' = Append([je EXCEPT ![k].status = "voided"], x)
    BY <1>1, <1>5
  <1>8. y = [je[k] EXCEPT !.status = "voided"]
    BY <1>1, <1>2
  <1>9. Reversing(k, y, x)
    BY <1>1, <1>3, <1>6, <1>7, <1>8 DEF Reversing
  <1> QED
    BY <1>1, <1>3, <1>6, <1>9

\* voidCreditNote: the entry of the note is reversed with it.
LEMMA NoteCommitVoidStep ==
  ASSUME NEW c, Note(c)!CreditNotesAssumption, NoteBooks(c), NEW r \in NoteCase[c].req,
         Note(c)!CommitVoid(r)
  PROVE  NoteBooks(c)'
  <1>1. /\ txn[r] # Note(c)!Idle /\ txn[r].op = "void" /\ Note(c)!Finish(r) /\ NoteIInv(c)
        /\ UNCHANGED <<lines, inv, chart>> /\ txn' = [txn EXCEPT ![r] = Note(c)!Idle]
    BY DEF Note!CommitVoid, Note!Committing, Note!Finish, NoteBooks
  <1>2. PICK b \in NoteSeen(c, Len(je)) : b = note
    BY <1>1 DEF NoteIInv
  <1>3. PICK p : p = [b EXCEPT !.status = "voided"]
    OBVIOUS
  <1>4. /\ p \in NoteSeen(c, Len(je)) /\ p.status = "voided" /\ p.je = b.je /\ p.subtotal = b.subtotal
        /\ p.rate = b.rate /\ p.total = b.total /\ p.invoice = b.invoice
    <2>1. b \in Note(c)!Note /\ b.je <= Len(je)
      BY DEF NoteSeen
    <2>2. /\ p \in Note(c)!Note /\ p.status = "voided" /\ p.je = b.je /\ p.subtotal = b.subtotal
          /\ p.rate = b.rate /\ p.total = b.total /\ p.invoice = b.invoice
      BY <1>3, <2>1 DEF Note!Note
    <2> QED
      BY <2>1, <2>2 DEF NoteSeen
  <1>5. note' = p
    BY <1>2, <1>3 DEF Note!CommitVoid
  <1>6. Len(je) \in Nat /\ DOMAIN je = 1..Len(je) /\ \A i \in DOMAIN je : je[i] \in Note(c)!Entry
    BY <1>1, ElementOfSeq, LenProperties DEF NoteIInv, Entries
  <1>7. PICK i \in 0..Len(je) : i = txn[r].note.je
    <2>1. txn[r].note \in Note(c)!Note /\ txn[r].note.je <= Len(je)
      BY <1>1, NoteSlotType DEF NoteSeen
    <2> QED
      BY <1>6, <2>1 DEF Note!Note
  <1>8. ASSUME ~raced'
        PROVE  /\ ~raced /\ NoteReversed /\ NoteBalanced(c) /\ b.status # "voided" /\ b.je = i
               /\ NotePrice(c)' /\ NoteApplied(c)'
    <2>1. /\ ~raced /\ NotePrice(c) /\ NoteApplied(c) /\ NoteReversed /\ NoteBalanced(c)
          /\ b.status \in {"draft", "issued"} /\ b.je = i
      BY <1>1, <1>2, <1>7, <1>8, NoteFresh DEF Note!Accepts
    <2>2. NotePrice(c)'
      BY <1>1, <1>2, <1>4, <1>5, <2>1
         DEF NotePrice, Note!Total, Note!Subtotal, Note!SumFunction, Note!FoldFunction
    <2>3. NoteApplied(c)'
      BY <1>1, <1>2, <1>4, <1>5, <2>1, NoteAppliedStays
    <2> QED
      BY <2>1, <2>2, <2>3
  <1>9. CASE Note(c)!Reversible(i)
    <2>1. i \in DOMAIN je /\ je[i].status = "posted"
      BY <1>6, <1>9 DEF Note!Reversible
    <2>2. /\ Len(je) < NoteCase[c].entries
          /\ je' = Append([je EXCEPT ![i].status = "voided"],
                          [status |-> "posted", debit |-> je[i].credit, of |-> i, credit |-> je[i].debit])
      BY <1>7, <1>9 DEF Note!CommitVoid
    <2>3. PICK y \in Note(c)!Entry, x \in Note(c)!Entry :
            /\ Reversing(i, y, x)
            /\ y.debit = je[i].debit /\ y.credit = je[i].credit
      BY <1>1, <2>1, <2>2, NoteReversal
    <2>4. /\ Entries(Note(c)!Entry)' /\ Len(je') = Len(je) + 1
          /\ DOMAIN je' = 1..(Len(je) + 1)
          /\ \A k \in DOMAIN je : je'[k] = IF k = i THEN y ELSE je[k]
          /\ je'[Len(je) + 1] = x
      BY <1>1, <2>1, <2>3, EntryReversed DEF NoteIInv
    <2>5. y.status = "voided" /\ y.of = je[i].of /\ x.of = i
      BY <2>3 DEF Reversing
    <2>6. NoteIInv(c)'
      <3>1. /\ Len(je') \in Nat /\ Len(je) <= Len(je') /\ Len(je') <= NoteCase[c].entries
        BY <1>6, <2>2, <2>4, NoteConstantsType
      <3>2. note' \in NoteSeen(c, Len(je'))
        BY <1>4, <1>5, <1>6, <3>1, NoteSlotsGrow
      <3> QED
        BY <1>1, <2>4, <3>1, <3>2, NoteGrown
    <2>7. ASSUME ~raced' PROVE NoteReversed' /\ NoteBalanced(c)'
      <3>1. NoteReversed'
        BY <1>4, <1>5, <1>8, <2>1, <2>4, <2>5, <2>7 DEF NoteReversed
      <3>2. \A k \in DOMAIN je : je'[k].of = je[k].of /\ je'[k].debit = je[k].debit /\ je'[k].credit = je[k].credit
        BY <2>3, <2>4, <2>5
      <3>3. x.of # 0
        BY <1>6, <2>1, <2>5
      <3>4. \A k \in DOMAIN je' : k \in DOMAIN je \/ je'[k] = x
        BY <1>6, <2>4
      <3>5. NoteBalanced(c)'
        BY <1>1, <1>8, <2>7, <3>2, <3>3, <3>4 DEF NoteBalanced, Note!IssueBalances
      <3> QED
        BY <3>1, <3>5
    <2> QED
      BY <1>8, <2>6, <2>7 DEF NoteBooks, NoteLinked
  <1>10. CASE ~Note(c)!Reversible(i)
    <2>1. UNCHANGED je
      BY <1>7, <1>10 DEF Note!CommitVoid
    <2>2. NoteIInv(c)'
      BY <1>1, <1>4, <1>5, <2>1, NoteQuietEnd, NoteQuiet DEF NoteIInv
    <2>3. ASSUME ~raced' PROVE NoteReversed' /\ NoteBalanced(c)'
      <3>1. i = 0
        <4>1. SUFFICES ASSUME i # 0 PROVE FALSE
          OBVIOUS
        <4>2. i \in DOMAIN je /\ je[i].status # "voided"
          BY <1>2, <1>6, <1>8, <2>3, <4>1 DEF NoteReversed
        <4>3. je[i].status = "posted"
          BY <1>6, <4>2 DEF Note!Entry
        <4> QED
          BY <1>10, <4>1, <4>3 DEF Note!Reversible
      <3>2. NoteReversed'
        BY <1>4, <1>5, <1>8, <2>3, <3>1 DEF NoteReversed
      <3>3. NoteBalanced(c)'
        BY <1>1, <1>8, <2>1, <2>3 DEF NoteBalanced, Note!IssueBalances
      <3> QED
        BY <3>2, <3>3
    <2> QED
      BY <1>8, <2>2, <2>3 DEF NoteBooks, NoteLinked
  <1> QED
    BY <1>9, <1>10

\* An invoice is paid, or voided, by the other module's handlers.
LEMMA NoteInvoiceStep ==
  ASSUME NEW c, Note(c)!CreditNotesAssumption, NoteBooks(c), NEW i \in NoteCase[c].invoices,
         UNCHANGED <<note, lines, je, chart, txn, raced>>,
         NEW f \in Note(c)!Invoice, inv' = [inv EXCEPT ![i] = f], f.total = inv[i].total,
         \/ f.last = "payment" /\ f.paid = f.cash
         \/ /\ f.status = "voided" /\ f.last = inv[i].last
            /\ f.paid = inv[i].paid /\ f.cash = inv[i].cash
  PROVE  NoteBooks(c)'
  <1>1. NoteIInv(c)
    BY DEF NoteBooks
  <1>2. /\ inv' \in [NoteCase[c].invoices -> Note(c)!Invoice] /\ inv'[i] = f
        /\ \A j \in NoteCase[c].invoices : j # i => inv'[j] = inv[j]
    BY <1>1 DEF NoteIInv
  <1>3. NoteIInv(c)'
    BY <1>1, <1>2, NoteQuiet DEF NoteIInv
  <1>4. ASSUME ~raced' PROVE NotePrice(c)' /\ NoteApplied(c)' /\ NoteReversed' /\ NoteBalanced(c)'
    <2>1. NotePrice(c) /\ NoteApplied(c) /\ NoteReversed /\ NoteBalanced(c)
      BY <1>4 DEF NoteBooks, NoteLinked
    <2>2. NotePrice(c)' /\ NoteReversed' /\ NoteBalanced(c)'
      BY <2>1 DEF NotePrice, NoteReversed, NoteBalanced, Note!IssueBalances,
                  Note!Total, Note!Subtotal, Note!SumFunction, Note!FoldFunction
    <2>3. ASSUME NEW j \in NoteCase[c].invoices
          PROVE
           /\ inv'[j].last = "credit" => /\ note.invoice = j
                                         /\ inv'[j].paid = Note(c)!MinOf(note.total + inv'[j].cash,
                                              inv'[j].total)
           /\ inv'[j].last # "credit" => inv'[j].paid = inv'[j].cash
           /\ note.invoice = j => inv'[j].last # "none"
           /\ inv'[j].last = "credit" /\ inv'[j].status = "sent" => inv'[j].paid < inv'[j].total
      <3>1. CASE j = i
        BY <1>2, <2>1, <3>1 DEF NoteApplied
      <3>2. CASE j # i
        BY <1>2, <2>1, <3>2 DEF NoteApplied
      <3> QED
        BY <3>1, <3>2
    <2>4. NoteApplied(c)'
      BY <2>1, <2>3 DEF NoteApplied, Note!MinOf
    <2> QED
      BY <2>2, <2>4
  <1> QED
    BY <1>3, <1>4 DEF NoteBooks, NoteLinked

\* InvoicesService.pay.
LEMMA NotePayInvoiceStep ==
  ASSUME NEW c, Note(c)!CreditNotesAssumption, NoteBooks(c), NEW i \in NoteCase[c].invoices,
         NEW a \in NoteCase[c].payments, Note(c)!PayInvoice(i, a)
  PROVE  NoteBooks(c)'
  <1>1. PICK e \in Note(c)!Invoice : e = inv[i]
    BY DEF NoteBooks, NoteIInv
  <1>2. a \in Nat /\ a \in Int
    BY NoteConstantsType
  <1>3. PICK f : f = [e EXCEPT !.status = "paid", !.paid = a, !.cash = a, !.last = "payment"]
    OBVIOUS
  <1>4. f \in Note(c)!Invoice /\ f.last = "payment" /\ f.paid = f.cash /\ f.total = inv[i].total
    BY <1>1, <1>2, <1>3 DEF Note!Invoice
  <1>5. inv' = [inv EXCEPT ![i] = f]
    <2>1. inv' = [inv EXCEPT ![i].status = "paid", ![i].paid = a, ![i].cash = a, ![i].last = "payment"]
      BY DEF Note!PayInvoice
    <2>2. inv \in [NoteCase[c].invoices -> Note(c)!Invoice]
      BY DEF NoteBooks, NoteIInv
    <2> QED
      BY <1>1, <1>3, <2>1, <2>2 DEF Note!Invoice
  <1>6. UNCHANGED <<note, lines, je, chart, txn, raced>>
    BY DEF Note!PayInvoice
  <1> QED
    BY <1>4, <1>5, <1>6, NoteInvoiceStep

\* InvoicesService.voidInvoice.
LEMMA NoteVoidInvoiceStep ==
  ASSUME NEW c, Note(c)!CreditNotesAssumption, NoteBooks(c), NEW i \in NoteCase[c].invoices,
         Note(c)!VoidInvoice(i)
  PROVE  NoteBooks(c)'
  <1>1. PICK e \in Note(c)!Invoice : e = inv[i]
    BY DEF NoteBooks, NoteIInv
  <1>2. PICK f : f = [e EXCEPT !.status = "voided"]
    OBVIOUS
  <1>3. /\ f \in Note(c)!Invoice /\ f.status = "voided" /\ f.last = inv[i].last
        /\ f.paid = inv[i].paid /\ f.cash = inv[i].cash /\ f.total = inv[i].total
    BY <1>1, <1>2 DEF Note!Invoice
  <1>4. inv' = [inv EXCEPT ![i] = f]
    <2>1. inv \in [NoteCase[c].invoices -> Note(c)!Invoice]
      BY DEF NoteBooks, NoteIInv
    <2> QED
      BY <1>1, <1>2, <2>1 DEF Note!Invoice, Note!VoidInvoice
  <1>5. UNCHANGED <<note, lines, je, chart, txn, raced>>
    BY DEF Note!VoidInvoice
  <1> QED
    BY <1>3, <1>4, <1>5, NoteInvoiceStep

\* Rollbacks.
LEMMA NoteOtherStep ==
  ASSUME NEW c, NoteBooks(c),
         UNCHANGED Note(c)!vars \/ \E r \in NoteCase[c].req : Note(c)!Rollback(r)
  PROVE  NoteBooks(c)'
  <1>1. UNCHANGED <<note, lines, inv, je, chart, raced>>
    BY DEF Note!vars, Note!Rollback
  <1>2. txn' \in [NoteCase[c].req -> NoteSlots(c, Len(je))]
    <2>1. CASE UNCHANGED txn
      BY <2>1 DEF NoteBooks, NoteIInv
    <2>2. ASSUME NEW r \in NoteCase[c].req, Note(c)!Rollback(r)
          PROVE  txn' \in [NoteCase[c].req -> NoteSlots(c, Len(je))]
      BY <1>1, <2>2, NoteQuietEnd DEF NoteBooks, Note!Rollback
    <2> QED
      BY <2>1, <2>2 DEF Note!vars
  <1> QED
    BY <1>1, <1>2, NoteSame

\* Every action keeps the books.
LEMMA NoteNextStep ==
  ASSUME NEW c, Note(c)!CreditNotesAssumption, NoteBooks(c), Note(c)!Next \/ UNCHANGED Note(c)!vars
  PROVE  NoteBooks(c)'
  <1>1. ASSUME NEW r \in NoteCase[c].req, Note(c)!Read(r) PROVE NoteBooks(c)'
    BY <1>1, NoteReadStep
  <1>2. ASSUME NEW r \in NoteCase[c].req, Note(c)!ReadLines(r) PROVE NoteBooks(c)'
    BY <1>2, NoteReadLinesStep
  <1>3. ASSUME NEW r \in NoteCase[c].req, Note(c)!CommitUpdate(r) PROVE NoteBooks(c)'
    BY <1>3, NoteCommitUpdateStep
  <1>4. ASSUME NEW r \in NoteCase[c].req, Note(c)!CommitRate(r) PROVE NoteBooks(c)'
    BY <1>4, NoteCommitRateStep
  <1>5. ASSUME NEW r \in NoteCase[c].req, Note(c)!CommitIssue(r) PROVE NoteBooks(c)'
    BY <1>5, NoteCommitIssueStep
  <1>6. ASSUME NEW r \in NoteCase[c].req, Note(c)!CommitApply(r) PROVE NoteBooks(c)'
    BY <1>6, NoteCommitApplyStep
  <1>7. ASSUME NEW r \in NoteCase[c].req, Note(c)!CommitVoid(r) PROVE NoteBooks(c)'
    BY <1>7, NoteCommitVoidStep
  <1>8. ASSUME NEW i \in NoteCase[c].invoices, Note(c)!VoidInvoice(i) PROVE NoteBooks(c)'
    BY <1>8, NoteVoidInvoiceStep
  <1>9. ASSUME NEW i \in NoteCase[c].invoices, NEW a \in NoteCase[c].payments, Note(c)!PayInvoice(i, a)
        PROVE  NoteBooks(c)'
    BY <1>9, NotePayInvoiceStep
  <1>10. CASE UNCHANGED Note(c)!vars \/ \E r \in NoteCase[c].req : Note(c)!Rollback(r)
    BY <1>10, NoteOtherStep
  <1> QED
    BY <1>1, <1>2, <1>3, <1>4, <1>5, <1>6, <1>7, <1>8, <1>9, <1>10 DEF Note!Next

\* The invariant says what the module's properties say.
LEMMA NoteTypesHold ==
  ASSUME NEW c, Note(c)!CreditNotesAssumption, NoteIInv(c)
  PROVE  Note(c)!TypeOK /\ Note(c)!ReversedOnce
  BY DEF NoteIInv, NoteSeen, Entries, OnlyReversal, Note!TypeOK, Note!ReversedOnce

\* and what CreditSettles says.
LEMMA NoteIsSettled ==
  ASSUME NEW c, Note(c)!CreditNotesAssumption, NoteBooks(c)
  PROVE  Note(c)!CreditSettles
  <1>1. SUFFICES ASSUME ~raced
                 PROVE
    /\ note.status = "applied" <=> note.invoice # 0
    /\ \A i \in NoteCase[c].invoices :
         /\ inv[i].last = "credit" => /\ note.invoice = i
                                      /\ inv[i].paid = Note(c)!MinOf(note.total + inv[i].cash, inv[i].total)
         /\ inv[i].last # "credit" => inv[i].paid = inv[i].cash
         /\ note.invoice = i => inv[i].last # "none"
         /\ inv[i].last = "credit" /\ inv[i].status = "sent" => inv[i].paid < inv[i].total
    /\ note.total = Note(c)!Total(Note(c)!Subtotal(lines), note.rate)
    /\ note.je # 0 => ((note.status = "voided") <=> (je[note.je].status = "voided"))
    /\ chart = {"ar", "returns"} => \A e \in Note(c)!Range(je) : Note(c)!IssueBalances(e)
    BY DEF Note!CreditSettles
  <1>2. NotePrice(c) /\ NoteApplied(c) /\ NoteReversed /\ NoteBalanced(c)
    BY <1>1 DEF NoteBooks, NoteLinked
  <1>3. chart = {"ar", "returns"} => \A e \in Note(c)!Range(je) : Note(c)!IssueBalances(e)
    BY <1>2 DEF NoteBalanced, Note!Range
  <1> QED
    BY <1>2, <1>3 DEF NotePrice, NoteApplied, NoteReversed

-----------------------------------------------------------------------------
(* Bank accounts.  The inductive invariant.                                *)

BankShown(c) == [date: Nat, amount: Int, late: BOOLEAN]

\* A sync, and a reconciliation, that are under way.
BankSyncing(c) == [op: {"sync"}, day: 1..day, seen: 0..Len(rows), ready: BOOLEAN,
            fetched: SUBSET DOMAIN feed, fresh: SUBSET DOMAIN feed]

BankReconciling(c) == [op: {"reconcile"}, row: DOMAIN rows, auto: BOOLEAN, read: Bank(c)!Row]

BankTypes(c) ==
  /\ rows \in Seq(Bank(c)!Row) /\ Len(rows) <= BankCase[c].txns
  /\ feed \in Seq(BankShown(c)) /\ Len(feed) <= BankCase[c].feed
  /\ day \in Nat \ {0} /\ day <= BankCase[c].days /\ last_sync \in 0..day
  /\ je \in Seq(Nat) /\ Len(je) <= BankCase[c].entries
  /\ \A k \in DOMAIN je : je[k] \in DOMAIN rows
  /\ \A i \in DOMAIN rows : rows[i].je \in Nat /\ rows[i].je <= Len(je)
  /\ raced \in BOOLEAN

BankTxnOK(c) == txn \in [BankCase[c].req -> {Bank(c)!Idle} \cup BankSyncing(c) \cup BankReconciling(c)]

BankLate(c, f) == feed[f].late

\* What a sync has not fetched of the days before its own was imported, or
\* came too late; and what it leaves out of its rows was imported.
BankFetchOK(c) ==
  \A r \in BankCase[c].req : txn[r].op = "sync" =>
    /\ \A f \in DOMAIN feed :
         feed[f].date < txn[r].day => f \in txn[r].fetched \/ f \in Bank(c)!Known \/ BankLate(c, f)
    /\ txn[r].ready => txn[r].fetched \subseteq txn[r].fresh \cup Bank(c)!Known

\* The second part of SyncComplete.
BankPassed(c) == \A f \in DOMAIN feed : feed[f].date < last_sync => f \in Bank(c)!Known \/ BankLate(c, f)

\* A sync adds nothing that is in a row it has seen.
BankFreshOK(c) ==
  \A r \in BankCase[c].req : txn[r].op = "sync" /\ txn[r].ready =>
    \A i \in 1..txn[r].seen : rows[i].ref \notin txn[r].fresh

\* The first part of SyncComplete.
BankRepeated(c) == \A i, j \in DOMAIN rows :
              i < j /\ rows[i].ref # 0 /\ rows[i].ref = rows[j].ref => rows[j].seen < i

\* An open row links no entry, and a reconciliation has read an open row.
BankOpenOK(c) ==
  /\ \A i \in DOMAIN rows : ~rows[i].reconciled => rows[i].je = 0
  /\ \A r \in BankCase[c].req : txn[r].op = "reconcile" => ~txn[r].read.reconciled

BankSyncInv(c) == BankFetchOK(c) /\ BankPassed(c) /\ BankFreshOK(c) /\ BankRepeated(c)

\* The entries of a row; and EntryPerReconciliation.
BankBooking(i) == {k \in DOMAIN je : je[k] = i}

BankBooked ==
  ~raced => \A i \in DOMAIN rows :
    /\ Cardinality({k \in DOMAIN je : je[k] = i}) <=
         rows[i].undone + (IF rows[i].je # 0 THEN 1 ELSE 0)
    /\ rows[i].je # 0 => je[rows[i].je] = i

\* The balance is what the rows add up to.
BankAmounts == [i \in DOMAIN rows |-> rows[i].amount]

BankSummed == balance \in Int /\ balance = SumOver(BankAmounts, DOMAIN rows)

BankIInv(c) == BankTypes(c) /\ BankTxnOK(c) /\ BankSyncInv(c) /\ BankOpenOK(c)
               /\ BankBooked /\ BankSummed

-----------------------------------------------------------------------------
(* What the statements do to the rows.                                     *)

BankNew(c, x) == x \in Bank(c)!Row /\ ~x.reconciled /\ x.je = 0 /\ x.undone = 0

\* The rows get rs behind them.
BankExtended(c, rs) ==
  /\ rows' \in Seq(Bank(c)!Row) /\ Len(rows') = Len(rows) + Len(rs) /\ Len(rows') <= BankCase[c].txns
  /\ \A i \in DOMAIN rows : i \in DOMAIN rows' /\ rows'[i] = rows[i]
  /\ \A i \in DOMAIN rows' \ DOMAIN rows :
       i - Len(rows) \in DOMAIN rs /\ rows'[i] = rs[i - Len(rows)]

\* The cardinality the module takes from the library.
LEMMA BankCardinality ==
  ASSUME NEW c, NEW S
  PROVE  Bank(c)!Cardinality(S) = Cardinality(S)
  BY Zenon DEF Bank!Cardinality, Cardinality

\* The sums the module takes from the library.
LEMMA BankSum ==
  ASSUME NEW c, NEW h, NEW S
  PROVE  Bank(c)!SumFunctionOnSet(h, S) = SumOver(h, S)
  <1>1. Bank(c)!SumFunctionOnSet(h, S) = SumFunctionOnSet(h, S)
    BY Zenon DEF Bank!SumFunctionOnSet, Bank!FoldFunctionOnSet, Bank!MapThenFoldSet,
                 SumFunctionOnSet, FoldFunctionOnSet, MapThenFoldSet
  <1> QED
    BY <1>1, SumFunctionIs

\* An insert puts the rows behind those there are.
LEMMA BankInsertExtends ==
  ASSUME NEW c, Bank(c)!BankingAssumption, BankTypes(c), NEW rs \in Seq(Bank(c)!Row), Bank(c)!Insert(rs)
  PROVE  BankExtended(c, rs)
  <1>1. rows \in Seq(Bank(c)!Row) /\ rows' = rows \o rs /\ Len(rows) + Len(rs) <= BankCase[c].txns
    BY DEF BankTypes, Bank!Insert
  <1>2. /\ rows' \in Seq(Bank(c)!Row) /\ Len(rows') = Len(rows) + Len(rs)
        /\ \A i \in 1..Len(rows) + Len(rs) :
             rows'[i] = IF i <= Len(rows) THEN rows[i] ELSE rs[i - Len(rows)]
    BY <1>1, ConcatProperties, Zenon
  <1>3. Len(rows) \in Nat /\ Len(rs) \in Nat /\ DOMAIN rows = 1..Len(rows)
        /\ DOMAIN rs = 1..Len(rs) /\ DOMAIN rows' = 1..Len(rows')
    BY <1>1, <1>2, LenProperties
  <1> QED
    BY <1>1, <1>2, <1>3 DEF BankExtended

\* New rows are booked by nothing, and leave the types and the books alone.
LEMMA BankExtendedKeeps ==
  ASSUME NEW c, Bank(c)!BankingAssumption, BankIInv(c), NEW rs \in Seq(Bank(c)!Row),
         \A k \in DOMAIN rs : BankNew(c, rs[k]),
         BankExtended(c, rs), UNCHANGED <<feed, day, je, raced>>, last_sync' \in 0..day
  PROVE  /\ BankTypes(c)' /\ BankBooked'
         /\ \A i \in DOMAIN rows' : ~rows'[i].reconciled => rows'[i].je = 0
         /\ BankSyncing(c) \subseteq BankSyncing(c)' /\ BankReconciling(c) \subseteq BankReconciling(c)'
         /\ Bank(c)!Known \subseteq Bank(c)!Known'
  <1>1. DOMAIN rows \subseteq DOMAIN rows' /\ Len(rows) \in Nat /\ Len(rs) \in Nat
    BY LenProperties DEF BankExtended, BankIInv, BankTypes
  <1>2. BankTypes(c)'
    <2>1. \A i \in DOMAIN rows' : rows'[i].je \in Nat /\ rows'[i].je <= Len(je)
      <3>1. Len(je) \in Nat
        BY LenProperties DEF BankIInv, BankTypes
      <3>2. ASSUME NEW i \in DOMAIN rows' \ DOMAIN rows PROVE rows'[i].je = 0
        BY <3>2 DEF BankExtended, BankNew
      <3>3. \A i \in DOMAIN rows : rows'[i] = rows[i]
        BY DEF BankExtended
      <3>4. \A i \in DOMAIN rows : rows[i].je \in Nat /\ rows[i].je <= Len(je)
        BY DEF BankIInv, BankTypes
      <3> QED
        BY <3>1, <3>2, <3>3, <3>4
    <2> QED
      BY <1>1, <2>1 DEF BankIInv, BankTypes, BankExtended
  <1>3. \A i \in DOMAIN rows' : ~rows'[i].reconciled => rows'[i].je = 0
    BY DEF BankExtended, BankIInv, BankOpenOK, BankNew
  <1>4. BankSyncing(c) \subseteq BankSyncing(c)' /\ BankReconciling(c) \subseteq BankReconciling(c)'
    BY <1>1 DEF BankSyncing, BankReconciling, BankExtended
  <1>5. Bank(c)!Known \subseteq Bank(c)!Known'
    BY DEF Bank!Known, BankExtended
  <1>6. BankBooked'
    <2> SUFFICES ASSUME ~raced, NEW i \in DOMAIN rows'
                 PROVE  /\ Cardinality({k \in DOMAIN je : je[k] = i}) <=
                             rows'[i].undone + (IF rows'[i].je # 0 THEN 1 ELSE 0)
                        /\ rows'[i].je # 0 => je[rows'[i].je] = i
      BY DEF BankBooked
    <2>1. CASE i \in DOMAIN rows
      BY <2>1 DEF BankExtended, BankIInv, BankBooked
    <2>2. CASE i \notin DOMAIN rows
      <3>1. {k \in DOMAIN je : je[k] = i} = {}
        BY <2>2 DEF BankIInv, BankTypes
      <3>2. rows'[i].undone = 0 /\ rows'[i].je = 0
        BY <2>2 DEF BankExtended, BankNew
      <3>3. Cardinality({k \in DOMAIN je : je[k] = i}) = 0
        BY <3>1, FS_EmptySet, Zenon
      <3> QED
        BY <3>2, <3>3
    <2> QED
      BY <2>1, <2>2
  <1> QED
    BY <1>2, <1>3, <1>4, <1>5, <1>6

\* What requests know survives new rows.
LEMMA BankExtendedTxn ==
  ASSUME NEW c, Bank(c)!BankingAssumption, BankIInv(c), NEW rs \in Seq(Bank(c)!Row),
         \A k \in DOMAIN rs : BankNew(c, rs[k]),
         BankExtended(c, rs), UNCHANGED <<feed, day, je, raced>>, last_sync' \in 0..day,
         txn' \in [BankCase[c].req -> {Bank(c)!Idle} \cup BankSyncing(c) \cup BankReconciling(c)],
         \A r \in BankCase[c].req : txn'[r] \in {Bank(c)!Idle, txn[r]}
  PROVE  BankTxnOK(c)' /\ BankFetchOK(c)' /\ BankFreshOK(c)' /\ BankOpenOK(c)'
  <1> USE DEF BankIInv
  <1>1. /\ \A i \in DOMAIN rows' : ~rows'[i].reconciled => rows'[i].je = 0
        /\ BankSyncing(c) \subseteq BankSyncing(c)' /\ BankReconciling(c) \subseteq BankReconciling(c)'
        /\ Bank(c)!Known \subseteq Bank(c)!Known'
    BY BankExtendedKeeps
  <1>2. BankTxnOK(c)'
    BY <1>1 DEF BankTxnOK
  <1>3. \A r \in BankCase[c].req : txn'[r].op # "none" => txn'[r] = txn[r]
    BY DEF Bank!Idle
  <1>4. BankOpenOK(c)'
    BY <1>1, <1>3 DEF BankOpenOK
  <1>5. BankFetchOK(c)'
    BY <1>1, <1>3 DEF BankFetchOK, BankSyncInv, BankLate
  <1>6. BankFreshOK(c)'
    <2> SUFFICES ASSUME NEW r \in BankCase[c].req, txn'[r].op = "sync", txn'[r].ready,
                        NEW i \in 1..txn'[r].seen
                 PROVE  rows'[i].ref \notin txn'[r].fresh
      BY DEF BankFreshOK
    <2>1. PICK t : t = txn[r]
      OBVIOUS
    <2>2. txn'[r] = t /\ t.op = "sync" /\ t.ready
      BY <1>3, <2>1
    <2>3. t \in BankSyncing(c)
      BY <2>1, <2>2 DEF BankTxnOK, Bank!Idle, BankReconciling
    <2>4. t.seen \in 0..Len(rows) /\ Len(rows) \in Nat /\ DOMAIN rows = 1..Len(rows)
      BY <2>3, LenProperties DEF BankSyncing, BankTypes
    <2>5. i \in 1..t.seen /\ i \in DOMAIN rows
      BY <2>2, <2>4
    <2> QED
      BY <2>1, <2>2, <2>5 DEF BankSyncInv, BankFreshOK, BankExtended
  <1> QED
    BY <1>2, <1>4, <1>5, <1>6

-----------------------------------------------------------------------------
(* Rows that have no Plaid transaction.                                    *)

\* What is added to the balance is what the new rows add up to.
LEMMA BankInserted ==
  ASSUME NEW c, Bank(c)!BankingAssumption, BankTypes(c), BankSummed,
         NEW rs \in Seq(Bank(c)!Row), Bank(c)!Insert(rs)
  PROVE  BankSummed'
  <1>1. BankExtended(c, rs)
    BY BankInsertExtends
  <1>2. PICK n \in Nat, m \in Nat : n = Len(rows) /\ m = Len(rs)
    BY LenProperties DEF BankTypes
  <1>3. DOMAIN rows = 1..n /\ DOMAIN rs = 1..m /\ DOMAIN rows' = 1..(n + m)
    BY <1>1, <1>2, LenProperties DEF BankTypes, BankExtended
  <1>4. PICK h, g, k : /\ h = BankAmounts /\ k = BankAmounts'
                       /\ g = [i \in DOMAIN rs |-> rs[i].amount]
    OBVIOUS
  <1>5. /\ \A i \in 1..n : h[i] \in Int /\ k[i] = h[i]
        /\ \A i \in 1..m : g[i] \in Int /\ k[n + i] = g[i]
    <2>1. \A i \in 1..n : rows[i] \in Bank(c)!Row
      BY <1>2, <1>3, ElementOfSeq DEF BankTypes
    <2>2. \A i \in 1..m : rs[i] \in Bank(c)!Row
      BY <1>2, <1>3, ElementOfSeq
    <2>3. \A x \in Bank(c)!Row : x.amount \in Int
      BY DEF Bank!Row
    <2>4. \A i \in 1..n : i \in 1..(n + m) /\ rows'[i] = rows[i]
      BY <1>1, <1>3 DEF BankExtended
    <2>5. \A i \in 1..m : n + i \in 1..(n + m) /\ rows'[n + i] = rs[i]
      <3> SUFFICES ASSUME NEW i \in 1..m
                   PROVE  n + i \in 1..(n + m) /\ rows'[n + i] = rs[i]
        OBVIOUS
      <3>1. PICK j : j = n + i
        OBVIOUS
      <3>2. j \in 1..(n + m) /\ j \notin 1..n /\ j - n = i
        BY <3>1
      <3>3. rows'[j] = rs[j - n]
        BY <1>1, <1>2, <1>3, <3>2 DEF BankExtended
      <3> QED
        BY <3>1, <3>2, <3>3
    <2> QED
      BY <1>3, <1>4, <2>1, <2>2, <2>3, <2>4, <2>5 DEF BankAmounts
  <1>6. PICK e, I : e = [i \in 1..m |-> n + i] /\ I = {e[i] : i \in 1..m}
    OBVIOUS
  <1>7. I = (n + 1)..(n + m)
    <2>1. \A i \in 1..m : e[i] = n + i
      BY <1>6
    <2>2. \A j \in (n + 1)..(n + m) : j - n \in 1..m /\ e[j - n] = j
      BY <2>1
    <2> QED
      BY <1>6, <2>1, <2>2
  <1>8. SumOver(k, I) = SumOver(g, 1..m)
    <2>1. /\ \A i, j \in 1..m : e[i] = e[j] => i = j
          /\ \A i \in 1..m : g[i] \in Int /\ k[e[i]] = g[i]
      BY <1>5, <1>6
    <2>2. 1 \in Int /\ m \in Int
      OBVIOUS
    <2>3. IsFiniteSet(1..m)
      BY <2>2, FS_Interval
    <2>4. SumOver(k, {e[i] : i \in 1..m}) = SumOver(g, 1..m)
      <3>1. PICK S : S = 1..m
        OBVIOUS
      <3>2. /\ IsFiniteSet(S)
            /\ \A x, y \in S : e[x] = e[y] => x = y
            /\ \A x \in S : g[x] \in Int /\ k[e[x]] = g[x]
        BY <2>1, <2>3, <3>1
      <3>3. SumOver(k, {e[x] : x \in S}) = SumOver(g, S)
        BY <3>2, SumImage
      <3> QED
        BY <3>1, <3>3, Zenon
    <2> QED
      BY <1>6, <2>4, Zenon
  <1>9. /\ IsFiniteSet(1..n) /\ IsFiniteSet(I) /\ (1..n) \cap I = {} /\ (1..n) \cup I = 1..(n + m)
        /\ \A i \in (1..n) \cup I : k[i] \in Int
    <2>1. 1 \in Int /\ n \in Int /\ n + 1 \in Int /\ n + m \in Int
      OBVIOUS
    <2>2. IsFiniteSet(1..n) /\ IsFiniteSet(I)
      BY <1>7, <2>1, FS_Interval
    <2>3. (1..n) \cap I = {} /\ (1..n) \cup I = 1..(n + m)
      BY <1>7
    <2>4. \A i \in I : k[i] \in Int
      <3>1. \A i \in 1..m : e[i] = n + i
        BY <1>6
      <3> QED
        BY <1>5, <1>6, <3>1
    <2> QED
      BY <1>5, <2>2, <2>3, <2>4
  <1>10. SumOver(k, 1..(n + m)) = SumOver(k, 1..n) + SumOver(k, I)
         /\ SumOver(k, 1..n) \in Int /\ SumOver(k, I) \in Int
    <2>1. PICK S : S = 1..n
      OBVIOUS
    <2>2. /\ IsFiniteSet(S) /\ IsFiniteSet(I) /\ S \cap I = {} /\ S \cup I = 1..(n + m)
          /\ \A i \in S \cup I : k[i] \in Int
      BY <1>9, <2>1
    <2>3. /\ SumOver(k, S \cup I) = SumOver(k, S) + SumOver(k, I)
          /\ SumOver(k, S) \in Int /\ SumOver(k, I) \in Int
      BY <2>2, SumUnion, Zenon
    <2> QED
      BY <2>1, <2>2, <2>3
  <1>11. SumOver(k, 1..n) = SumOver(h, 1..n)
    BY <1>5, <1>9, SumCongruent
  <1>12. balance' = balance + SumOver(g, 1..m)
    <2>1. balance' = balance + Bank(c)!Total(rs)
      BY DEF Bank!Insert
    <2>2. Bank(c)!Total(rs) = Bank(c)!SumFunctionOnSet(g, DOMAIN g)
      BY <1>4, Zenon DEF Bank!Total, Bank!SumFunction
    <2>3. DOMAIN g = 1..m
      BY <1>3, <1>4
    <2> QED
      BY <2>1, <2>2, <2>3, BankSum
  <1>13. balance \in Int /\ balance = SumOver(h, 1..n)
    BY <1>3, <1>4 DEF BankSummed
  <1> QED
    BY <1>3, <1>4, <1>8, <1>10, <1>11, <1>12, <1>13 DEF BankSummed

\* A row that is inserted is new.
LEMMA BankNewRowType ==
  ASSUME NEW c, Bank(c)!BankingAssumption, NEW a \in Int, NEW f \in 0..BankCase[c].feed,
         NEW n \in 0..BankCase[c].txns
  PROVE  BankNew(c, Bank(c)!NewRow(a, f, n)) /\ Bank(c)!NewRow(a, f, n).ref = f /\ Bank(c)!NewRow(a, f,
           n).seen = n
  <1>1. BankCase[c].entries \in Nat /\ BankCase[c].undone \in Nat
    BY DEF Bank!BankingAssumption
  <1>2. 0 \in 0..BankCase[c].entries /\ 0 \in 0..BankCase[c].undone
    BY <1>1
  <1> QED
    BY <1>2 DEF BankNew, Bank!NewRow, Bank!Row

\* One that no sync adds is not a duplicate, and passes nothing over.
LEMMA BankUnsyncedStep ==
  ASSUME NEW c, Bank(c)!BankingAssumption, BankIInv(c), NEW rs \in Seq(Bank(c)!Row),
         \A k \in DOMAIN rs : BankNew(c, rs[k]) /\ rs[k].ref = 0,
         Bank(c)!Insert(rs), UNCHANGED <<last_sync, feed, day, je, txn, raced>>
  PROVE  BankIInv(c)'
  <1>1. BankExtended(c, rs) /\ last_sync' \in 0..day
    BY BankInsertExtends DEF BankIInv, BankTypes
  <1>2. BankTypes(c)' /\ BankBooked' /\ Bank(c)!Known \subseteq Bank(c)!Known'
    BY <1>1, BankExtendedKeeps
  <1>3. BankTxnOK(c)' /\ BankFetchOK(c)' /\ BankFreshOK(c)' /\ BankOpenOK(c)'
    BY <1>1, BankExtendedTxn DEF BankIInv, BankTxnOK
  <1>4. BankPassed(c)'
    BY <1>2 DEF BankIInv, BankSyncInv, BankPassed, BankLate
  <1>5. BankRepeated(c)'
    <2> SUFFICES ASSUME NEW i \in DOMAIN rows', NEW j \in DOMAIN rows', i < j,
                        rows'[i].ref # 0, rows'[i].ref = rows'[j].ref
                 PROVE  rows'[j].seen < i
      BY DEF BankRepeated
    <2>1. i \in DOMAIN rows /\ j \in DOMAIN rows
      BY <1>1 DEF BankExtended
    <2> QED
      BY <1>1, <2>1 DEF BankExtended, BankIInv, BankSyncInv, BankRepeated
  <1>6. BankSummed'
    BY BankInserted DEF BankIInv
  <1> QED
    BY <1>2, <1>3, <1>4, <1>5, <1>6 DEF BankIInv, BankSyncInv

\* create.
LEMMA BankCreateStep ==
  ASSUME NEW c, Bank(c)!BankingAssumption, BankIInv(c), NEW a \in BankCase[c].amounts,
         Bank(c)!CreateTransaction(a)
  PROVE  BankIInv(c)'
  <1>1. PICK x : x = Bank(c)!NewRow(a, 0, Len(rows))
    OBVIOUS
  <1>2. BankNew(c, x) /\ x.ref = 0
    BY <1>1, LenProperties DEF BankNew, Bank!NewRow, Bank!Row, Bank!BankingAssumption, BankIInv, BankTypes
  <1>3. <<x>> \in Seq(Bank(c)!Row) /\ \A k \in DOMAIN <<x>> : <<x>>[k] = x
    BY <1>2 DEF BankNew
  <1>4. Bank(c)!Insert(<<x>>) /\ UNCHANGED <<last_sync, feed, day, je, txn, raced>>
    BY <1>1, Zenon DEF Bank!CreateTransaction
  <1> QED
    BY <1>2, <1>3, <1>4, BankUnsyncedStep

\* importCsv.
LEMMA BankCsvStep ==
  ASSUME NEW c, Bank(c)!BankingAssumption, BankIInv(c), NEW as \in [1..2 -> BankCase[c].amounts],
         Bank(c)!ImportCsv(as)
  PROVE  BankIInv(c)'
  <1> DEFINE rs == [i \in DOMAIN as |-> Bank(c)!NewRow(as[i], 0, Len(rows))]
  <1>0. Len(rows) \in 0..BankCase[c].txns
    BY LenProperties DEF BankIInv, BankTypes, Bank!BankingAssumption
  <1>1. \A i \in 1..2 : BankNew(c, Bank(c)!NewRow(as[i], 0, Len(rows))) /\ Bank(c)!NewRow(as[i], 0,
          Len(rows)).ref = 0
    <2>1. BankCase[c].feed \in Nat /\ BankCase[c].amounts \subseteq Int
      BY DEF Bank!BankingAssumption
    <2> HIDE DEF rs
    <2>2. \A i \in 1..2 : as[i] \in Int
      BY <2>1
    <2>3. 0 \in 0..BankCase[c].feed
      BY <2>1
    <2> QED
      BY <1>0, <2>2, <2>3, BankNewRowType
  <1>2. rs \in [1..2 -> Bank(c)!Row] /\ \A i \in DOMAIN rs : BankNew(c, rs[i]) /\ rs[i].ref = 0
    BY <1>1, Zenon DEF BankNew
  <1>3. rs \in Seq(Bank(c)!Row)
    <2> HIDE DEF rs
    <2> QED
      BY <1>2, SeqDef, 2 \in Nat
  <1>4. Bank(c)!Insert(rs) /\ UNCHANGED <<last_sync, feed, day, je, txn, raced>>
    BY DEF Bank!ImportCsv
  <1> HIDE DEF rs
  <1> QED
    BY <1>2, <1>3, <1>4, BankUnsyncedStep

-----------------------------------------------------------------------------
(* Syncs.                                                                  *)

\* syncTransactions reads what Plaid shows.
LEMMA BankBeginSyncStep ==
  ASSUME NEW c, Bank(c)!BankingAssumption, BankIInv(c), NEW r \in BankCase[c].req, Bank(c)!BeginSync(r)
  PROVE  BankIInv(c)'
  <1> USE DEF BankIInv
  <1> DEFINE t == [op |-> "sync", day |-> day, seen |-> 0, fresh |-> {}, ready |-> FALSE,
                   fetched |-> {f \in DOMAIN feed : feed[f].date >= Bank(c)!StartDate}]
  <1>1. txn' = [txn EXCEPT ![r] = t] /\ UNCHANGED <<balance, rows, last_sync, day, je, raced>>
    BY DEF Bank!BeginSync
  <1>2. /\ DOMAIN feed' = DOMAIN feed /\ feed' \in Seq(BankShown(c)) /\ Len(feed') = Len(feed)
        /\ \A f \in DOMAIN feed :
             /\ feed'[f].date = feed[f].date /\ (BankLate(c, f) => BankLate(c, f)')
             /\ last_sync = 0 /\ feed[f].date < day - BankCase[c].window => BankLate(c, f)'
    <2>1. feed \in Seq(BankShown(c)) /\ Len(feed) \in Nat /\ DOMAIN feed = 1..Len(feed)
      BY LenProperties DEF BankTypes
    <2>2. feed' = [f \in DOMAIN feed |->
                [feed[f] EXCEPT !.late = @ \/ (last_sync = 0 /\ feed[f].date < day - BankCase[c].window)]]
      BY DEF Bank!BeginSync
    <2>3. ASSUME NEW f \in DOMAIN feed
          PROVE  LET b == BankLate(c, f) \/ (last_sync = 0 /\ feed[f].date < day - BankCase[c].window) IN
                 /\ feed'[f] \in BankShown(c) /\ feed'[f].date = feed[f].date
                 /\ feed'[f].late = b
      <3>1. PICK x \in BankShown(c) : x = feed[f]
        BY <2>1
      <3>2. PICK b \in BOOLEAN : b = (x.late \/ (last_sync = 0 /\ x.date < day - BankCase[c].window))
        OBVIOUS
      <3>3. feed'[f] = [x EXCEPT !.late = b]
        BY <2>2, <3>1, <3>2, Zenon
      <3>4. [x EXCEPT !.late = b] \in BankShown(c) /\ [x EXCEPT !.late = b].date = x.date
            /\ [x EXCEPT !.late = b].late = b
        BY DEF BankShown
      <3> QED
        BY <3>1, <3>2, <3>3, <3>4, Zenon DEF BankLate
    <2>4. feed' \in [1..Len(feed) -> BankShown(c)]
      BY <2>1, <2>2, <2>3, Zenon
    <2>5. feed' \in Seq(BankShown(c))
      BY <2>1, <2>4, SeqDef
    <2>6. Len(feed') = Len(feed) /\ DOMAIN feed' = DOMAIN feed
      BY <2>1, <2>4, <2>5, LenProperties
    <2> QED
      BY <2>3, <2>5, <2>6, Zenon DEF BankLate
  <1>3. t \in BankSyncing(c) /\ BankSyncing(c)' = BankSyncing(c) /\ BankReconciling(c)' = BankReconciling(c)
    BY <1>1, <1>2, LenProperties DEF BankSyncing, BankReconciling, BankTypes
  <1>4. t.op = "sync" /\ t.day = day /\ ~t.ready
        /\ t.fetched = {f \in DOMAIN feed : feed[f].date >= Bank(c)!StartDate}
    OBVIOUS
  <1> HIDE DEF t
  <1>5. \A q \in BankCase[c].req : txn'[q] = IF q = r THEN t ELSE txn[q]
    BY <1>1 DEF BankTxnOK
  <1>6. BankTypes(c)' /\ BankTxnOK(c)'
    BY <1>1, <1>2, <1>3 DEF BankTypes, BankTxnOK
  <1>7. BankBooked' /\ BankSummed' /\ BankOpenOK(c)'
    BY <1>1, <1>4, <1>5 DEF BankBooked, BankSummed, BankAmounts, BankOpenOK, Bank!BeginSync
  <1>8. BankFreshOK(c)' /\ BankRepeated(c)' /\ BankPassed(c)'
    BY <1>1, <1>2, <1>4, <1>5 DEF BankSyncInv, BankFreshOK, BankRepeated, BankPassed, Bank!Known
  <1>9. BankFetchOK(c)'
    <2>1. ASSUME NEW f \in DOMAIN feed, feed[f].date < day, f \notin t.fetched, f \notin Bank(c)!Known
          PROVE  BankLate(c, f)'
      <3>1. feed[f].date \in Nat /\ last_sync \in Nat /\ day \in Nat /\ BankCase[c].window \in Nat
        <4>1. feed[f] \in BankShown(c)
          BY LenProperties DEF BankTypes
        <4> QED
          BY <4>1 DEF BankTypes, BankShown, Bank!BankingAssumption
      <3>2. feed[f].date < Bank(c)!StartDate
        BY <1>4, <2>1, <3>1 DEF Bank!StartDate
      <3>3. CASE last_sync = 0
        BY <1>2, <3>2, <3>3 DEF Bank!StartDate
      <3>4. CASE last_sync # 0
        BY <1>2, <2>1, <3>2, <3>4 DEF Bank!StartDate, BankSyncInv, BankPassed
      <3> QED
        BY <3>3, <3>4
    <2>2. Bank(c)!Known' = Bank(c)!Known
      BY <1>1 DEF Bank!Known
    <2>3. ASSUME NEW q \in BankCase[c].req, txn'[q].op = "sync"
          PROVE  /\ \A f \in DOMAIN feed : feed[f].date < txn'[q].day =>
                      f \in txn'[q].fetched \/ f \in Bank(c)!Known \/ BankLate(c, f)'
                 /\ txn'[q].ready => txn'[q].fetched \subseteq txn'[q].fresh \cup Bank(c)!Known
      <3>1. CASE q = r
        BY <1>4, <1>5, <2>1, <3>1
      <3>2. CASE q # r
        BY <1>2, <1>5, <2>3, <3>2 DEF BankSyncInv, BankFetchOK
      <3> QED
        BY <3>1, <3>2
    <2> QED
      BY <1>2, <2>2, <2>3, Zenon DEF BankFetchOK, BankLate
  <1> QED
    BY <1>6, <1>7, <1>8, <1>9 DEF BankSyncInv

\* Of the days syncs have begun on, the library's Max is the last.
LEMMA BankLatestBegun ==
  ASSUME NEW c, BankIInv(c)
  PROVE  /\ Bank(c)!Max(Bank(c)!Begun) \in Nat /\ last_sync <= Bank(c)!Max(Bank(c)!Begun)
         /\ \A r \in BankCase[c].req : txn[r].op = "sync" => txn[r].day <= Bank(c)!Max(Bank(c)!Begun)
  <1>1. day \in Nat /\ last_sync \in 0..day
    BY DEF BankIInv, BankTypes
  <1>2. \A r \in BankCase[c].req : txn[r].op = "sync" => txn[r].day \in 1..day
    BY DEF BankIInv, BankTxnOK, BankSyncing, BankReconciling, Bank!Idle
  <1>3. Bank(c)!Begun \subseteq 0..day /\ last_sync \in Bank(c)!Begun
        /\ \A r \in BankCase[c].req : txn[r].op = "sync" => txn[r].day \in Bank(c)!Begun
    BY <1>1, <1>2 DEF Bank!Begun
  <1>4. Bank(c)!Begun \in SUBSET Nat /\ IsFiniteSet(Bank(c)!Begun) /\ Bank(c)!Begun # {}
    <2>1. IsFiniteSet(0..day)
      BY <1>1, FS_Interval
    <2>2. IsFiniteSet(Bank(c)!Begun)
      BY <1>3, <2>1, FS_Subset
    <2> QED
      BY <1>1, <1>3, <2>2
  <1>5. Bank(c)!Max(Bank(c)!Begun) \in Bank(c)!Begun /\ \A d \in Bank(c)!Begun : d <= Bank(c)!Max(Bank(c)!Begun)
    <2>1. Bank(c)!Max(Bank(c)!Begun) = Max(Bank(c)!Begun)
      BY Zenon DEF Bank!Max, Max
    <2> QED
      BY <1>4, <2>1, MaxProperty
  <1> QED
    BY <1>3, <1>4, <1>5

\* A comparison is TRUE or FALSE.
LEMMA BankLessIsBoolean ==
  ASSUME NEW c, NEW m \in Int, NEW n \in Int
  PROVE  (m < n) \in BOOLEAN
  OBVIOUS

\* Plaid shows another transaction.
LEMMA BankAppearStep ==
  ASSUME NEW c, Bank(c)!BankingAssumption, BankIInv(c), NEW date \in 1..day, NEW a \in BankCase[c].amounts,
         Bank(c)!Appear(date, a)
  PROVE  BankIInv(c)'
  <1> USE DEF BankIInv
  <1>0. date \in Nat /\ date \in Int /\ a \in Int /\ Bank(c)!Max(Bank(c)!Begun) \in Int
    BY BankLatestBegun DEF BankTypes, Bank!BankingAssumption
  <1>m. PICK m \in Int : m = Bank(c)!Max(Bank(c)!Begun)
    BY <1>0
  <1>1. PICK late \in BOOLEAN : late = (date < m)
    <2>1. (date < m) \in BOOLEAN
      BY <1>0, BankLessIsBoolean
    <2> QED
      BY <2>1, Zenon
  <1>2. PICK x \in BankShown(c) : x = [date |-> date, amount |-> a, late |-> late]
    BY <1>0 DEF BankShown
  <1>3. feed' = Append(feed, x) /\ Len(feed) < BankCase[c].feed
        /\ UNCHANGED <<balance, rows, last_sync, day, je, txn, raced>>
    BY <1>1, <1>2, <1>m, Zenon DEF Bank!Appear
  <1>4. feed \in Seq(BankShown(c)) /\ Len(feed) \in Nat /\ DOMAIN feed = 1..Len(feed) /\ BankCase[c].feed \in Nat
    BY LenProperties DEF BankTypes, Bank!BankingAssumption
  <1>5. /\ feed' \in Seq(BankShown(c)) /\ Len(feed') = Len(feed) + 1
        /\ DOMAIN feed' = DOMAIN feed \cup {Len(feed) + 1}
        /\ \A f \in DOMAIN feed : feed'[f] = feed[f]
        /\ feed'[Len(feed) + 1] = x
    BY <1>3, <1>4
  <1>6. BankSyncing(c) \subseteq BankSyncing(c)' /\ BankReconciling(c)' = BankReconciling(c)
    BY <1>3, <1>5 DEF BankSyncing, BankReconciling
  <1>7. BankTypes(c)' /\ BankTxnOK(c)'
    BY <1>3, <1>4, <1>5, <1>6 DEF BankTypes, BankTxnOK
  <1>8. BankOpenOK(c)' /\ BankBooked' /\ BankSummed'
    BY <1>3 DEF BankOpenOK, BankBooked, BankSummed, BankAmounts
  <1>9. \A d \in Nat : date < d /\ d <= Bank(c)!Max(Bank(c)!Begun) => x.late
    <2>1. late <=> date < m
      BY <1>0, <1>1
    <2> QED
      BY <1>0, <1>2, <1>m, <2>1
  <1>10. BankFreshOK(c)' /\ BankRepeated(c)' /\ Bank(c)!Known' = Bank(c)!Known
    BY <1>3 DEF BankSyncInv, BankFreshOK, BankRepeated, Bank!Known
  <1>11. BankPassed(c)'
    <2>1. last_sync \in Nat
      BY DEF BankTypes
    <2>2. date < last_sync => x.late
      BY <1>9, <2>1, BankLatestBegun
    <2> QED
      BY <1>2, <1>3, <1>5, <1>10, <2>2 DEF BankSyncInv, BankPassed, BankLate
  <1>12. BankFetchOK(c)'
    <2>1. ASSUME NEW r \in BankCase[c].req, txn[r].op = "sync", date < txn[r].day PROVE x.late
      <3>1. txn[r].day \in 1..day /\ day \in Nat
        BY <2>1 DEF BankTxnOK, BankSyncing, BankReconciling, Bank!Idle, BankTypes
      <3> QED
        BY <1>9, <2>1, <3>1, BankLatestBegun
    <2> QED
      BY <1>2, <1>3, <1>5, <1>10, <2>1 DEF BankSyncInv, BankFetchOK, BankLate
  <1> QED
    BY <1>7, <1>8, <1>10, <1>11, <1>12 DEF BankSyncInv

\* The next day.
LEMMA BankNextDayStep ==
  ASSUME NEW c, Bank(c)!BankingAssumption, BankIInv(c), Bank(c)!NextDay
  PROVE  BankIInv(c)'
  <1>1. day \in Nat /\ day' = day + 1 /\ UNCHANGED <<balance, rows, last_sync, feed, je, txn, raced>>
        /\ day' <= BankCase[c].days
    BY DEF BankIInv, BankTypes, Bank!NextDay, Bank!BankingAssumption
  <1>2. BankSyncing(c) \subseteq BankSyncing(c)' /\ BankReconciling(c)' = BankReconciling(c)
    BY <1>1 DEF BankSyncing, BankReconciling
  <1>3. BankTypes(c)' /\ BankTxnOK(c)'
    BY <1>1, <1>2 DEF BankIInv, BankTypes, BankTxnOK
  <1>4. BankSyncInv(c)' /\ BankOpenOK(c)' /\ BankBooked' /\ BankSummed'
    BY <1>1 DEF BankIInv, BankSyncInv, BankFetchOK, BankPassed, BankFreshOK, BankRepeated, Bank!Known,
       BankLate, BankOpenOK,
                BankBooked, BankSummed, BankAmounts
  <1> QED
    BY <1>3, <1>4 DEF BankIInv

\* The sync looks for what it has already.
LEMMA BankCheckStep ==
  ASSUME NEW c, Bank(c)!BankingAssumption, BankIInv(c), NEW r \in BankCase[c].req, Bank(c)!Check(r)
  PROVE  BankIInv(c)'
  <1> USE DEF BankIInv
  <1>1. PICK t : t = txn[r]
    OBVIOUS
  <1>2. t \in BankSyncing(c) /\ UNCHANGED <<balance, rows, last_sync, feed, day, je, raced>>
    BY <1>1 DEF Bank!Check, BankTxnOK, BankReconciling, Bank!Idle
  <1>3. Len(rows) \in Nat /\ DOMAIN rows = 1..Len(rows)
    BY LenProperties DEF BankTypes
  <1>a. PICK F, n : F = t.fetched \ Bank(c)!Known /\ n = Len(rows)
    OBVIOUS
  <1>b. F \in SUBSET DOMAIN feed /\ n \in 0..Len(rows)
    BY <1>2, <1>3, <1>a DEF BankSyncing
  <1>4. PICK u : u = [t EXCEPT !.fresh = F, !.seen = n, !.ready = TRUE]
    OBVIOUS
  <1>5. u \in BankSyncing(c) /\ u.op = "sync" /\ u.fresh = t.fetched \ Bank(c)!Known /\ u.seen = Len(rows)
        /\ u.day = t.day /\ u.fetched = t.fetched
    BY <1>2, <1>4, <1>a, <1>b DEF BankSyncing
  <1>6. txn' = [txn EXCEPT ![r] = u]
    BY <1>1, <1>4, <1>a, Zenon DEF Bank!Check
  <1>7. /\ BankSyncing(c)' = BankSyncing(c) /\ BankReconciling(c)' = BankReconciling(c)
        /\ \A q \in BankCase[c].req : txn'[q] = IF q = r THEN u ELSE txn[q]
    BY <1>2, <1>6 DEF BankTxnOK, BankSyncing, BankReconciling
  <1>8. BankTypes(c)' /\ BankTxnOK(c)' /\ Bank(c)!Known' = Bank(c)!Known
    BY <1>2, <1>5, <1>6, <1>7 DEF BankTypes, BankTxnOK, Bank!Known
  <1>9. BankOpenOK(c)' /\ BankBooked' /\ BankSummed'
    BY <1>2, <1>5, <1>7 DEF BankOpenOK, BankBooked, BankSummed, BankAmounts
  <1>10. BankPassed(c)' /\ BankRepeated(c)'
    BY <1>2, <1>8 DEF BankSyncInv, BankPassed, BankRepeated, BankLate
  <1>11. BankFreshOK(c)'
    BY <1>2, <1>3, <1>5, <1>7 DEF BankSyncInv, BankFreshOK, Bank!Known
  <1>12. BankFetchOK(c)'
    BY <1>1, <1>2, <1>5, <1>7, <1>8 DEF BankSyncInv, BankFetchOK, BankLate, BankSyncing
  <1> QED
    BY <1>8, <1>9, <1>10, <1>11, <1>12 DEF BankSyncInv

\* The sync inserts the rest.
LEMMA BankCommitSyncStep ==
  ASSUME NEW c, Bank(c)!BankingAssumption, BankIInv(c), NEW r \in BankCase[c].req, Bank(c)!CommitSync(r)
  PROVE  BankIInv(c)'
  <1> USE DEF BankIInv
  <1>1. PICK t : t = txn[r]
    OBVIOUS
  <1>2. t \in BankSyncing(c) /\ t.op = "sync" /\ t.ready /\ txn' = [txn EXCEPT ![r] = Bank(c)!Idle]
        /\ last_sync' = t.day /\ UNCHANGED <<feed, day, je, raced>>
    BY <1>1 DEF Bank!CommitSync, BankTxnOK, BankReconciling, Bank!Idle
  <1>3. t.fresh \subseteq DOMAIN feed /\ t.seen \in 0..Len(rows) /\ t.day \in 1..day
    BY <1>2 DEF BankSyncing
  <1>5. IsFiniteSet(t.fresh)
    <2>1. Len(feed) \in Nat /\ DOMAIN feed = 1..Len(feed)
      BY LenProperties DEF BankTypes
    <2>2. IsFiniteSet(1..Len(feed))
      BY <2>1, FS_Interval
    <2> QED
      BY <1>3, <2>1, <2>2, FS_Subset
  <1>4. PICK n \in Nat : n = Bank(c)!Cardinality(t.fresh)
    BY <1>5, BankCardinality, FS_CardinalityType
  <1>0. PICK L \in Bank(c)!Bijection(1..n, t.fresh) :
          Bank(c)!Insert([k \in DOMAIN L |-> Bank(c)!NewRow(-feed[L[k]].amount, L[k], t.seen)])
    BY <1>1, <1>4, Zenon DEF Bank!CommitSync
  <1>6. /\ n \in Nat /\ L \in [1..n -> t.fresh]
        /\ \A a, b \in 1..n : L[a] = L[b] => a = b
        /\ \A f \in t.fresh : \E a \in 1..n : L[a] = f
    BY DEF Bank!Bijection, Bank!Injection, Bank!Surjection, Bank!IsInjective
  <1>7. PICK rs : rs = [k \in DOMAIN L |-> Bank(c)!NewRow(-feed[L[k]].amount, L[k], t.seen)]
    OBVIOUS
  <1>8. Bank(c)!Insert(rs)
    BY <1>0, <1>7, Zenon
  <1>9. \A k \in 1..n : BankNew(c, rs[k]) /\ rs[k].ref = L[k] /\ rs[k].seen = t.seen
    <2> SUFFICES ASSUME NEW k \in 1..n
                 PROVE  BankNew(c, rs[k]) /\ rs[k].ref = L[k] /\ rs[k].seen = t.seen
      OBVIOUS
    <2>1. L[k] \in DOMAIN feed /\ rs[k] = Bank(c)!NewRow(-feed[L[k]].amount, L[k], t.seen)
      BY <1>3, <1>6, <1>7
    <2>2. feed[L[k]] \in BankShown(c) /\ L[k] \in 0..BankCase[c].feed
      BY <2>1, LenProperties DEF BankTypes, Bank!BankingAssumption
    <2>3. -feed[L[k]].amount \in Int
      BY <2>2 DEF BankShown
    <2>4. t.seen \in 0..BankCase[c].txns
      BY <1>3, LenProperties DEF BankTypes, Bank!BankingAssumption
    <2> QED
      BY <2>1, <2>2, <2>3, <2>4, BankNewRowType
  <1>10. DOMAIN rs = 1..n /\ rs \in Seq(Bank(c)!Row) /\ Len(rs) = n
    <2>1. rs \in [1..n -> Bank(c)!Row]
      BY <1>6, <1>7, <1>9 DEF BankNew
    <2>2. rs \in Seq(Bank(c)!Row)
      BY <1>6, <2>1, SeqDef
    <2> QED
      BY <1>6, <2>1, <2>2, LenProperties
  <1>11. BankExtended(c, rs) /\ last_sync' \in 0..day
    BY <1>2, <1>3, <1>8, <1>10, BankInsertExtends DEF BankTypes
  <1>12. BankTypes(c)' /\ BankBooked' /\ Bank(c)!Known \subseteq Bank(c)!Known'
    BY <1>2, <1>9, <1>10, <1>11, BankExtendedKeeps
  <1>13. BankTxnOK(c)' /\ BankFetchOK(c)' /\ BankFreshOK(c)' /\ BankOpenOK(c)'
    <2>1. /\ txn' \in [BankCase[c].req -> {Bank(c)!Idle} \cup BankSyncing(c) \cup BankReconciling(c)]
          /\ \A q \in BankCase[c].req : txn'[q] \in {Bank(c)!Idle, txn[q]}
      BY <1>2 DEF BankTxnOK
    <2> QED
      BY <1>2, <1>9, <1>10, <1>11, <2>1, BankExtendedTxn
  <1>14. \A i \in DOMAIN rows : i \in DOMAIN rows' /\ rows'[i] = rows[i]
    BY <1>11 DEF BankExtended
  <1>15. \A i \in DOMAIN rows' \ DOMAIN rows :
           i - Len(rows) \in 1..n /\ rows'[i] = rs[i - Len(rows)]
    BY <1>10, <1>11 DEF BankExtended
  <1>16. /\ Len(rows) \in Nat /\ Len(rows') = Len(rows) + n
         /\ DOMAIN rows = 1..Len(rows) /\ DOMAIN rows' = 1..Len(rows')
    BY <1>10, <1>11, LenProperties DEF BankTypes, BankExtended
  <1>17. BankRepeated(c)'
    <2> SUFFICES ASSUME NEW i \in DOMAIN rows', NEW j \in DOMAIN rows', i < j,
                        rows'[i].ref # 0, rows'[i].ref = rows'[j].ref
                 PROVE  rows'[j].seen < i
      BY DEF BankRepeated
    <2>1. CASE j \in DOMAIN rows
      <3>1. i \in DOMAIN rows
        BY <1>16, <2>1
      <3> QED
        BY <1>14, <2>1, <3>1 DEF BankSyncInv, BankRepeated
    <2>2. CASE j \notin DOMAIN rows /\ i \notin DOMAIN rows
      <3>1. L[i - Len(rows)] = L[j - Len(rows)]
        BY <1>9, <1>15, <2>2
      <3>2. i - Len(rows) = j - Len(rows)
        BY <1>6, <1>15, <2>2, <3>1
      <3> QED
        BY <1>16, <3>2
    <2>3. CASE j \notin DOMAIN rows /\ i \in DOMAIN rows
      <3>1. rows[i].ref \in t.fresh /\ rows'[j].seen = t.seen
        BY <1>6, <1>9, <1>14, <1>15, <2>3
      <3>2. i \notin 1..t.seen
        BY <1>1, <1>2, <3>1 DEF BankSyncInv, BankFreshOK
      <3> QED
        BY <1>3, <1>16, <2>3, <3>1, <3>2
    <2> QED
      BY <2>1, <2>2, <2>3
  <1>18. t.fresh \subseteq Bank(c)!Known'
    <2> SUFFICES ASSUME NEW f \in t.fresh PROVE f \in Bank(c)!Known'
      OBVIOUS
    <2>1. PICK a \in 1..n : L[a] = f
      BY <1>6
    <2>2. PICK i : i = Len(rows) + a
      OBVIOUS
    <2>3. i \in DOMAIN rows' /\ i \notin DOMAIN rows /\ i - Len(rows) = a
      BY <1>6, <1>16, <2>2
    <2>4. rows'[i].ref = f
      BY <1>9, <1>15, <2>1, <2>3
    <2> QED
      BY <2>3, <2>4 DEF Bank!Known
  <1>19. BankPassed(c)'
    <2> SUFFICES ASSUME NEW f \in DOMAIN feed,
                          feed[f].date < t.day PROVE f \in Bank(c)!Known' \/ BankLate(c, f)
      BY <1>2 DEF BankPassed, BankLate
    <2>1. f \in t.fetched \/ f \in Bank(c)!Known \/ BankLate(c, f)
      BY <1>1, <1>2 DEF BankSyncInv, BankFetchOK
    <2>2. t.fetched \subseteq t.fresh \cup Bank(c)!Known
      BY <1>1, <1>2 DEF BankSyncInv, BankFetchOK
    <2> QED
      BY <1>12, <1>18, <2>1, <2>2
  <1>20. BankSummed'
    BY <1>8, <1>10, BankInserted
  <1> QED
    BY <1>12, <1>13, <1>17, <1>19, <1>20 DEF BankSyncInv

-----------------------------------------------------------------------------
(* Reconciling.                                                            *)

\* reconcile reads the row.
LEMMA BankBeginReconcileStep ==
  ASSUME NEW c, BankIInv(c), NEW r \in BankCase[c].req, NEW i \in DOMAIN rows, NEW auto \in BOOLEAN,
         Bank(c)!BeginReconcile(r, i, auto)
  PROVE  BankIInv(c)'
  <1> USE DEF BankIInv
  <1>1. PICK t : t = [op |-> "reconcile", row |-> i, auto |-> auto, read |-> rows[i]]
    OBVIOUS
  <1>2. txn' = [txn EXCEPT ![r] = t]
        /\ UNCHANGED <<balance, rows, last_sync, feed, day, je, raced>>
    BY <1>1, Zenon DEF Bank!BeginReconcile
  <1>3. t \in BankReconciling(c) /\ t.op = "reconcile" /\ ~t.read.reconciled
    BY <1>1, LenProperties DEF BankReconciling, Bank!BeginReconcile, BankTypes
  <1>4. /\ BankSyncing(c)' = BankSyncing(c) /\ BankReconciling(c)' = BankReconciling(c)
        /\ \A q \in BankCase[c].req : txn'[q] = IF q = r THEN t ELSE txn[q]
    BY <1>2 DEF BankTxnOK, BankSyncing, BankReconciling
  <1>5. BankTypes(c)' /\ BankTxnOK(c)' /\ Bank(c)!Known' = Bank(c)!Known
    BY <1>2, <1>3, <1>4 DEF BankTypes, BankTxnOK, Bank!Known
  <1>6. BankOpenOK(c)' /\ BankBooked' /\ BankSummed'
    BY <1>2, <1>3, <1>4 DEF BankOpenOK, BankBooked, BankSummed, BankAmounts
  <1>7. BankFetchOK(c)' /\ BankPassed(c)' /\ BankFreshOK(c)' /\ BankRepeated(c)'
    BY <1>2, <1>3, <1>4, <1>5 DEF BankSyncInv, BankFetchOK, BankPassed, BankFreshOK, BankRepeated, BankLate
  <1> QED
    BY <1>5, <1>6, <1>7 DEF BankSyncInv

\* A request lets go of what it had under way.
LEMMA BankRollbackStep ==
  ASSUME NEW c, BankIInv(c), NEW r \in BankCase[c].req, Bank(c)!Rollback(r)
  PROVE  BankIInv(c)'
  <1> USE DEF BankIInv
  <1>1. txn' = [txn EXCEPT ![r] = Bank(c)!Idle]
        /\ UNCHANGED <<balance, rows, last_sync, feed, day, je, raced>>
    BY DEF Bank!Rollback
  <1>2. /\ BankSyncing(c)' = BankSyncing(c) /\ BankReconciling(c)' = BankReconciling(c)
        /\ \A q \in BankCase[c].req : txn'[q] = IF q = r THEN Bank(c)!Idle ELSE txn[q]
    BY <1>1 DEF BankTxnOK, BankSyncing, BankReconciling
  <1>3. BankTypes(c)' /\ BankTxnOK(c)' /\ Bank(c)!Known' = Bank(c)!Known
    BY <1>1, <1>2 DEF BankTypes, BankTxnOK, Bank!Known
  <1>4. BankOpenOK(c)' /\ BankBooked' /\ BankSummed'
    <2>1. BankOpenOK(c)'
      BY <1>1, <1>2 DEF BankOpenOK, Bank!Idle
    <2>2. BankBooked' /\ BankSummed'
      BY <1>1 DEF BankBooked, BankSummed, BankAmounts
    <2> QED
      BY <2>1, <2>2
  <1>5. BankFetchOK(c)' /\ BankPassed(c)' /\ BankFreshOK(c)' /\ BankRepeated(c)'
    BY <1>1, <1>2, <1>3 DEF BankSyncInv, BankFetchOK, BankPassed, BankFreshOK, BankRepeated, BankLate,
       Bank!Idle
  <1> QED
    BY <1>3, <1>4, <1>5 DEF BankSyncInv

\* A row that is reconciled or let go keeps what syncs look at.
BankRewritten(c, i, x) ==
  /\ x \in Bank(c)!Row
  /\ x.ref = rows[i].ref /\ x.seen = rows[i].seen /\ x.amount = rows[i].amount
  /\ ~x.reconciled => x.je = 0
  /\ rows' = [rows EXCEPT ![i] = x]

\* Rows that are rewritten in place keep what they are.
LEMMA BankRewrittenKeeps ==
  ASSUME NEW c, BankIInv(c), NEW i \in DOMAIN rows, NEW x, BankRewritten(c, i, x),
         UNCHANGED <<last_sync, feed, day>>,
         txn' \in [BankCase[c].req -> {Bank(c)!Idle} \cup BankSyncing(c) \cup BankReconciling(c)],
         \A q \in BankCase[c].req : txn'[q] \in {Bank(c)!Idle, txn[q]}
  PROVE  /\ rows' \in Seq(Bank(c)!Row) /\ Len(rows') = Len(rows) /\ DOMAIN rows' = DOMAIN rows
         /\ \A j \in DOMAIN rows : rows'[j] = IF j = i THEN x ELSE rows[j]
         /\ BankTxnOK(c)' /\ BankSyncInv(c)' /\ BankOpenOK(c)'
  <1> USE DEF BankIInv
  <1>1. rows \in Seq(Bank(c)!Row) /\ x \in Bank(c)!Row /\ DOMAIN rows = 1..Len(rows)
    BY LenProperties DEF BankTypes, BankRewritten
  <1>2. rows' \in Seq(Bank(c)!Row) /\ Len(rows') = Len(rows)
        /\ \A j \in DOMAIN rows : rows'[j] = IF j = i THEN x ELSE rows[j]
    BY <1>1, ExceptSeq DEF BankRewritten
  <1>3. DOMAIN rows' = DOMAIN rows
    BY <1>1, <1>2, LenProperties
  <1>4. \A j \in DOMAIN rows : rows'[j].ref = rows[j].ref /\ rows'[j].seen = rows[j].seen
    BY <1>2 DEF BankRewritten
  <1>5. Bank(c)!Known' = Bank(c)!Known
    BY <1>3, <1>4 DEF Bank!Known
  <1>6. BankTxnOK(c)'
    BY <1>2, <1>3 DEF BankTxnOK, BankSyncing, BankReconciling
  <1>7. \A q \in BankCase[c].req : txn'[q].op # "none" => txn'[q] = txn[q]
    BY DEF Bank!Idle
  <1>8. BankOpenOK(c)'
    BY <1>2, <1>3, <1>7 DEF BankOpenOK, BankRewritten
  <1>9. BankFetchOK(c)' /\ BankPassed(c)'
    BY <1>5, <1>7 DEF BankSyncInv, BankFetchOK, BankPassed, BankLate
  <1>10. BankRepeated(c)'
    BY <1>3, <1>4 DEF BankSyncInv, BankRepeated
  <1>11. BankFreshOK(c)'
    <2> SUFFICES ASSUME NEW r \in BankCase[c].req, txn'[r].op = "sync", txn'[r].ready,
                        NEW j \in 1..txn'[r].seen
                 PROVE  rows'[j].ref \notin txn'[r].fresh
      BY DEF BankFreshOK
    <2>1. PICK t : t = txn[r]
      OBVIOUS
    <2>2. txn'[r] = t /\ t.op = "sync" /\ t.ready
      BY <1>7, <2>1
    <2>3. t.seen \in 0..Len(rows) /\ Len(rows) \in Nat
      BY <1>1, <2>1, <2>2, LenProperties DEF BankTxnOK, BankSyncing, Bank!Idle, BankReconciling
    <2>4. j \in 1..t.seen /\ j \in DOMAIN rows
      BY <1>1, <2>2, <2>3
    <2> QED
      BY <1>4, <2>1, <2>2, <2>4 DEF BankSyncInv, BankFreshOK
  <1> QED
    BY <1>2, <1>3, <1>6, <1>8, <1>9, <1>10, <1>11 DEF BankSyncInv

\* and what they come to.
LEMMA BankRewrittenSums ==
  ASSUME NEW c, BankIInv(c), NEW i \in DOMAIN rows, NEW x, BankRewritten(c, i, x), UNCHANGED balance
  PROVE  BankSummed'
  <1>1. rows \in Seq(Bank(c)!Row) /\ x \in Bank(c)!Row /\ DOMAIN rows = 1..Len(rows) /\ Len(rows) \in Nat
    BY LenProperties DEF BankIInv, BankTypes, BankRewritten
  <1>2. rows' \in Seq(Bank(c)!Row) /\ Len(rows') = Len(rows)
        /\ \A j \in DOMAIN rows : rows'[j] = IF j = i THEN x ELSE rows[j]
    BY <1>1, ExceptSeq DEF BankRewritten
  <1>3. DOMAIN rows' = DOMAIN rows
    BY <1>1, <1>2, LenProperties
  <1>4. BankAmounts' = BankAmounts
    BY <1>2, <1>3 DEF BankRewritten, BankAmounts
  <1> QED
    BY <1>3, <1>4 DEF BankIInv, BankSummed

\* The entries of a row are finitely many.
LEMMA BankBookingFinite ==
  ASSUME NEW c, BankIInv(c), NEW i
  PROVE  IsFiniteSet(BankBooking(i)) /\ Cardinality(BankBooking(i)) \in Nat
  <1>1. Len(je) \in Nat /\ DOMAIN je = 1..Len(je)
    BY LenProperties DEF BankIInv, BankTypes
  <1>2. IsFiniteSet(1..Len(je))
    BY <1>1, FS_Interval
  <1>3. BankBooking(i) \in SUBSET (1..Len(je))
    BY <1>1 DEF BankBooking
  <1> QED
    BY <1>2, <1>3, FS_Subset, FS_CardinalityType

\* The row that is reconciled was open, if nobody overlapped, and gets one entry.
LEMMA BankCommitReconcileStep ==
  ASSUME NEW c, Bank(c)!BankingAssumption, BankIInv(c), NEW r \in BankCase[c].req,
         Bank(c)!CommitReconcile(r)
  PROVE  BankIInv(c)'
  <1> USE DEF BankIInv
  <1>1. PICK t : t = txn[r]
    OBVIOUS
  <1>2. PICK i : i = t.row
    OBVIOUS
  <1>3. t \in BankReconciling(c) /\ t.op = "reconcile" /\ i \in DOMAIN rows /\ ~t.read.reconciled
    BY <1>1, <1>2 DEF Bank!CommitReconcile, BankTxnOK, BankSyncing, BankReconciling, Bank!Idle, BankOpenOK
  <1>4. /\ Len(rows) \in Nat /\ DOMAIN rows = 1..Len(rows) /\ rows[i] \in Bank(c)!Row
        /\ Len(je) \in Nat /\ DOMAIN je = 1..Len(je) /\ i \in Nat
        /\ BankCase[c].entries \in Nat
    BY <1>3, LenProperties DEF BankTypes, Bank!BankingAssumption
  <1>5. PICK n : n = IF t.auto THEN Len(je) + 1 ELSE 0
    OBVIOUS
  <1>6. n \in 0..BankCase[c].entries
    BY <1>1, <1>4, <1>5 DEF Bank!CommitReconcile, BankTypes
  <1>7. PICK x : x = [rows[i] EXCEPT !.reconciled = TRUE, !.je = n]
    OBVIOUS
  <1>8. x \in Bank(c)!Row /\ x.reconciled /\ x.je = n /\ x.undone = rows[i].undone
        /\ x.ref = rows[i].ref /\ x.seen = rows[i].seen /\ x.amount = rows[i].amount
    BY <1>4, <1>6, <1>7 DEF Bank!Row
  <1>9. rows' = [rows EXCEPT ![i] = x]
    <2>1. rows' = [rows EXCEPT ![i].reconciled = TRUE, ![i].je = n]
      BY <1>1, <1>2, <1>5, Zenon DEF Bank!CommitReconcile
    <2> QED
      BY <1>3, <1>7, <2>1
  <1>10. BankRewritten(c, i, x)
    BY <1>8, <1>9 DEF BankRewritten
  <1>11. /\ txn' = [txn EXCEPT ![r] = Bank(c)!Idle] /\ UNCHANGED <<balance, last_sync, feed, day>>
         /\ raced' = (raced \/ rows[i] # t.read)
         /\ je' = IF t.auto THEN Append(je, i) ELSE je
    BY <1>1, <1>2, Zenon DEF Bank!CommitReconcile
  <1>12. /\ txn' \in [BankCase[c].req -> {Bank(c)!Idle} \cup BankSyncing(c) \cup BankReconciling(c)]
         /\ \A q \in BankCase[c].req : txn'[q] \in {Bank(c)!Idle, txn[q]}
    BY <1>11 DEF BankTxnOK
  <1>13. /\ rows' \in Seq(Bank(c)!Row) /\ Len(rows') = Len(rows) /\ DOMAIN rows' = DOMAIN rows
         /\ \A j \in DOMAIN rows : rows'[j] = IF j = i THEN x ELSE rows[j]
         /\ BankTxnOK(c)' /\ BankSyncInv(c)' /\ BankOpenOK(c)'
    BY <1>3, <1>10, <1>11, <1>12, BankRewrittenKeeps
  <1>14. /\ je' \in Seq(Nat) /\ Len(je') = Len(je) + (IF t.auto THEN 1 ELSE 0)
         /\ DOMAIN je' = IF t.auto THEN DOMAIN je \cup {Len(je) + 1} ELSE DOMAIN je
         /\ \A k \in DOMAIN je : je'[k] = je[k]
         /\ t.auto => je'[Len(je) + 1] = i
    <2>1. CASE t.auto
      BY <1>4, <1>11, <2>1 DEF BankTypes
    <2>2. CASE ~t.auto
      BY <1>4, <1>11, <2>2 DEF BankTypes
    <2> QED
      BY <2>1, <2>2
  <1>15. BankTypes(c)'
    <2>1. Len(je') <= BankCase[c].entries
      BY <1>1, <1>4, <1>14 DEF Bank!CommitReconcile, BankTypes
    <2>2. raced' \in BOOLEAN
      BY <1>11 DEF BankTypes
    <2>3. \A k \in DOMAIN je' : je'[k] \in DOMAIN rows'
      BY <1>3, <1>13, <1>14 DEF BankTypes
    <2>4. \A k \in DOMAIN rows' : rows'[k].je \in Nat /\ rows'[k].je <= Len(je')
      <3>1. \A k \in DOMAIN rows : rows[k].je \in Nat /\ rows[k].je <= Len(je)
        BY DEF BankTypes
      <3>2. n \in Nat /\ n <= Len(je') /\ Len(je) <= Len(je')
        BY <1>4, <1>5, <1>14
      <3> QED
        BY <1>4, <1>8, <1>13, <3>1, <3>2
    <2> QED
      BY <1>11, <1>13, <1>14, <2>1, <2>2, <2>3, <2>4 DEF BankTypes
  <1>16. BankBooked'
    <2> SUFFICES ASSUME ~raced', NEW j \in DOMAIN rows
                 PROVE  /\ Cardinality(BankBooking(j)') <= rows'[j].undone + (IF rows'[j].je # 0 THEN 1 ELSE 0)
                        /\ rows'[j].je # 0 => je'[rows'[j].je] = j
      BY <1>13 DEF BankBooked, BankBooking
    <2>1. ~raced /\ rows[i] = t.read
      BY <1>11
    <2>2. rows[i].je = 0
      BY <1>3, <2>1 DEF BankOpenOK
    <2>3. /\ Cardinality(BankBooking(j)) <= rows[j].undone + (IF rows[j].je # 0 THEN 1 ELSE 0)
          /\ rows[j].je # 0 => je[rows[j].je] = j
      BY <2>1 DEF BankBooked, BankBooking
    <2>4. Cardinality(BankBooking(j)) \in Nat /\ IsFiniteSet(BankBooking(j))
      BY BankBookingFinite
    <2>5. rows[j].undone \in Nat /\ rows[j].je \in Nat /\ rows[j] \in Bank(c)!Row /\ rows[j].je <= BankCase[c].entries
      <3>1. rows[j] \in Bank(c)!Row
        BY <1>4 DEF BankTypes
      <3> QED
        BY <3>1 DEF Bank!Row, Bank!BankingAssumption
    <2>6. CASE j = i /\ t.auto
      <3>1. BankBooking(j)' = BankBooking(j) \cup {Len(je) + 1} /\ Len(je) + 1 \notin BankBooking(j)
        BY <1>4, <1>14, <2>6 DEF BankBooking
      <3>2. Cardinality(BankBooking(j)') = Cardinality(BankBooking(j)) + 1
        BY <2>4, <3>1, FS_AddElement
      <3>3. rows'[j].je = Len(je) + 1 /\ rows'[j].undone = rows[j].undone /\ rows[j].je = 0
        BY <1>5, <1>8, <1>13, <2>2, <2>6
      <3> QED
        BY <1>4, <1>14, <2>3, <2>4, <2>5, <2>6, <3>2, <3>3
    <2>7. CASE ~(j = i /\ t.auto)
      <3>1. BankBooking(j)' = BankBooking(j)
        BY <1>4, <1>14, <2>7 DEF BankBooking
      <3>2. rows'[j].je = rows[j].je /\ rows'[j].undone = rows[j].undone
        BY <1>5, <1>8, <1>13, <2>2, <2>7
      <3>3. rows[j].je # 0 => rows[j].je \in DOMAIN je
        BY <1>4, <2>5 DEF BankTypes
      <3> QED
        BY <1>14, <2>3, <3>1, <3>2, <3>3
    <2> QED
      BY <2>6, <2>7
  <1>17. BankSummed'
    BY <1>3, <1>10, <1>11, BankRewrittenSums
  <1> QED
    BY <1>13, <1>15, <1>16, <1>17

\* Letting go of a row gives it one more entry to have had.
LEMMA BankUnreconcileStep ==
  ASSUME NEW c, Bank(c)!BankingAssumption, BankIInv(c), NEW i \in DOMAIN rows, Bank(c)!Unreconcile(i)
  PROVE  BankIInv(c)'
  <1> USE DEF BankIInv
  <1>1. /\ Len(rows) \in Nat /\ DOMAIN rows = 1..Len(rows) /\ rows[i] \in Bank(c)!Row
        /\ Len(je) \in Nat /\ BankCase[c].entries \in Nat /\ BankCase[c].undone \in Nat
    BY LenProperties DEF BankTypes, Bank!BankingAssumption
  <1>2. PICK n : n = rows[i].undone + 1
    OBVIOUS
  <1>3. n \in 0..BankCase[c].undone
    BY <1>1, <1>2 DEF Bank!Unreconcile, Bank!Row
  <1>4. PICK x : x = [rows[i] EXCEPT !.reconciled = FALSE, !.je = 0, !.undone = n]
    OBVIOUS
  <1>5. x \in Bank(c)!Row /\ ~x.reconciled /\ x.je = 0 /\ x.undone = n
        /\ x.ref = rows[i].ref /\ x.seen = rows[i].seen /\ x.amount = rows[i].amount
    <2>1. 0 \in 0..BankCase[c].entries
      BY <1>1
    <2> QED
      BY <1>1, <1>3, <1>4, <2>1 DEF Bank!Row
  <1>6. rows' = [rows EXCEPT ![i] = x]
    <2>1. rows' = [rows EXCEPT ![i].reconciled = FALSE, ![i].je = 0, ![i].undone = n]
      BY <1>1, <1>2 DEF Bank!Unreconcile
    <2> QED
      BY <1>4, <2>1
  <1>7. UNCHANGED <<balance, last_sync, feed, day, je, txn, raced>>
    BY DEF Bank!Unreconcile
  <1>8. BankRewritten(c, i, x)
    BY <1>5, <1>6 DEF BankRewritten
  <1>9. txn' \in [BankCase[c].req -> {Bank(c)!Idle} \cup BankSyncing(c) \cup BankReconciling(c)]
        /\ \A q \in BankCase[c].req : txn'[q] \in {Bank(c)!Idle, txn[q]}
    BY <1>7 DEF BankTxnOK
  <1>10. /\ rows' \in Seq(Bank(c)!Row) /\ Len(rows') = Len(rows) /\ DOMAIN rows' = DOMAIN rows
         /\ \A j \in DOMAIN rows : rows'[j] = IF j = i THEN x ELSE rows[j]
         /\ BankTxnOK(c)' /\ BankSyncInv(c)' /\ BankOpenOK(c)'
    BY <1>7, <1>8, <1>9, BankRewrittenKeeps
  <1>11. BankTypes(c)'
    <2>1. \A j \in DOMAIN rows : rows[j].je \in Nat /\ rows[j].je <= Len(je)
      BY DEF BankTypes
    <2>2. \A j \in DOMAIN rows' : rows'[j].je \in Nat /\ rows'[j].je <= Len(je)
      BY <1>1, <1>5, <1>10, <2>1
    <2> QED
      BY <1>7, <1>10, <2>2 DEF BankTypes
  <1>12. BankBooked'
    <2> SUFFICES ASSUME ~raced, NEW j \in DOMAIN rows
                 PROVE  /\ Cardinality(BankBooking(j)) <= rows'[j].undone + (IF rows'[j].je # 0 THEN 1 ELSE 0)
                        /\ rows'[j].je # 0 => je[rows'[j].je] = j
      BY <1>7, <1>10 DEF BankBooked, BankBooking
    <2>1. /\ Cardinality(BankBooking(j)) <= rows[j].undone + (IF rows[j].je # 0 THEN 1 ELSE 0)
          /\ rows[j].je # 0 => je[rows[j].je] = j
      BY DEF BankBooked, BankBooking
    <2>2. Cardinality(BankBooking(j)) \in Nat
      BY BankBookingFinite
    <2>3. rows[i].undone \in Nat
      BY <1>1 DEF Bank!Row
    <2>4. CASE j = i
      BY <1>2, <1>5, <1>10, <2>1, <2>2, <2>3, <2>4
    <2>5. CASE j # i
      BY <1>10, <2>1, <2>5
    <2> QED
      BY <2>4, <2>5
  <1>13. BankSummed'
    BY <1>7, <1>8, BankRewrittenSums
  <1> QED
    BY <1>10, <1>11, <1>12, <1>13

-----------------------------------------------------------------------------
(* Bank accounts.  The whole.                                              *)

\* At first there are no rows.
LEMMA BankInitIInv ==
  ASSUME NEW c, Bank(c)!BankingAssumption, Bank(c)!Init
  PROVE  BankIInv(c)
  <1>1. rows = <<>> /\ je = <<>> /\ feed = <<>> /\ Len(rows) = 0 /\ Len(je) = 0 /\ Len(feed) = 0
        /\ DOMAIN rows = {} /\ DOMAIN je = {} /\ DOMAIN feed = {}
    BY DEF Bank!Init
  <1>2. rows \in Seq(Bank(c)!Row) /\ feed \in Seq(BankShown(c)) /\ je \in Seq(Nat)
    BY <1>1, EmptySeq
  <1>3. BankTypes(c)
    <2>1. BankCase[c].txns \in Nat /\ BankCase[c].feed \in Nat /\ BankCase[c].entries \in Nat
      BY DEF Bank!BankingAssumption
    <2>2. day \in Nat \ {0} /\ day <= BankCase[c].days /\ last_sync \in 0..day /\ raced \in BOOLEAN
      <3>1. day = 1 /\ last_sync = 0 /\ day <= BankCase[c].days
        BY DEF Bank!Init, Bank!BankingAssumption
      <3>2. raced \in BOOLEAN
        BY Zenon DEF Bank!Init
      <3> QED
        BY <3>1, <3>2
    <2>3. Len(rows) <= BankCase[c].txns /\ Len(feed) <= BankCase[c].feed /\ Len(je) <= BankCase[c].entries
      BY <1>1, <2>1
    <2>4. /\ \A k \in DOMAIN je : je[k] \in DOMAIN rows
          /\ \A i \in DOMAIN rows : rows[i].je \in Nat /\ rows[i].je <= Len(je)
      BY <1>1
    <2> QED
      BY <1>2, <2>2, <2>3, <2>4 DEF BankTypes
  <1>4. BankTxnOK(c) /\ \A r \in BankCase[c].req : txn[r].op = "none"
    BY DEF Bank!Init, BankTxnOK, Bank!Idle
  <1>6. BankSummed
    BY <1>1, SumEmpty DEF BankSummed, BankAmounts, Bank!Init
  <1>5. BankSyncInv(c) /\ BankOpenOK(c) /\ BankBooked
    BY <1>1, <1>4 DEF BankSyncInv, BankFetchOK, BankPassed, BankFreshOK, BankRepeated, BankOpenOK,
       BankBooked, BankSummed, BankAmounts
  <1> QED
    BY <1>3, <1>4, <1>5, <1>6 DEF BankIInv

\* Every action keeps the invariant.
LEMMA BankNextStep ==
  ASSUME NEW c, Bank(c)!BankingAssumption, BankIInv(c), (Bank(c)!Next \/ UNCHANGED Bank(c)!vars)
  PROVE  BankIInv(c)'
  <1>1. CASE UNCHANGED Bank(c)!vars
    <2>1. BankTypes(c)' /\ BankTxnOK(c)'
      BY <1>1 DEF Bank!vars, BankIInv, BankTypes, BankTxnOK, BankSyncing, BankReconciling
    <2>2. BankSyncInv(c)' /\ BankOpenOK(c)' /\ BankBooked' /\ BankSummed'
      BY <1>1 DEF Bank!vars, BankIInv, BankSyncInv, BankFetchOK, BankPassed, BankFreshOK, BankRepeated,
         Bank!Known, BankLate, BankOpenOK,
                  BankBooked, BankSummed, BankAmounts
    <2> QED
      BY <2>1, <2>2 DEF BankIInv
  <1>2. CASE \E a \in BankCase[c].amounts : Bank(c)!CreateTransaction(a)
    BY <1>2, BankCreateStep
  <1>3. CASE \E as \in [1..2 -> BankCase[c].amounts] : Bank(c)!ImportCsv(as)
    BY <1>3, BankCsvStep
  <1>4. CASE Bank(c)!Plaid
    BY <1>4, BankNextDayStep, BankAppearStep DEF Bank!Plaid
  <1>5. ASSUME NEW r \in BankCase[c].req, Bank(c)!Sync(r) PROVE BankIInv(c)'
    BY <1>5, BankBeginSyncStep, BankCheckStep, BankCommitSyncStep DEF Bank!Sync
  <1>6. ASSUME NEW r \in BankCase[c].req, Bank(c)!Reconcile(r) PROVE BankIInv(c)'
    BY <1>6, BankBeginReconcileStep, BankCommitReconcileStep DEF Bank!Reconcile
  <1>7. CASE \E i \in DOMAIN rows : Bank(c)!Unreconcile(i)
    BY <1>7, BankUnreconcileStep
  <1>8. CASE \E r \in BankCase[c].req : Bank(c)!Rollback(r)
    BY <1>8, BankRollbackStep
  <1> QED
    BY <1>1, <1>2, <1>3, <1>4, <1>5, <1>6, <1>7, <1>8 DEF Bank!Next

\* The invariant says what TypeOK says.
LEMMA BankTypesHold ==
  ASSUME NEW c, Bank(c)!BankingAssumption, BankIInv(c)
  PROVE  Bank(c)!TypeOK
  <1>1. last_sync \in 0..BankCase[c].days
    <2>1. day \in Nat /\ day <= BankCase[c].days /\ last_sync \in 0..day /\ BankCase[c].days \in Nat
      BY DEF BankIInv, BankTypes, Bank!BankingAssumption
    <2> QED
      BY <2>1
  <1>2. je \in Seq(1..BankCase[c].txns)
    <2>1. Len(rows) \in Nat /\ DOMAIN rows = 1..Len(rows) /\ Len(rows) <= BankCase[c].txns
          /\ BankCase[c].txns \in Nat
      BY LenProperties DEF BankIInv, BankTypes, Bank!BankingAssumption
    <2>2. \A k \in DOMAIN je : je[k] \in 1..BankCase[c].txns
      BY <2>1 DEF BankIInv, BankTypes
    <2>3. je \in Seq(Nat) /\ Len(je) \in Nat /\ DOMAIN je = 1..Len(je) /\ je = [k \in 1..Len(je) |-> je[k]]
      BY LenProperties DEF BankIInv, BankTypes
    <2>4. \A k \in 1..Len(je) : je[k] \in 1..BankCase[c].txns
      BY <2>2, <2>3
    <2>5. je \in [1..Len(je) -> 1..BankCase[c].txns]
      BY <2>3, <2>4
    <2>6. PICK s, n, S : s = je /\ n = Len(je) /\ S = 1..BankCase[c].txns
      OBVIOUS
    <2>7. n \in Nat /\ s \in [1..n -> S]
      BY <2>3, <2>5, <2>6
    <2>8. s \in Seq(S)
      BY <2>7, SeqDef
    <2> QED
      BY <2>6, <2>8
  <1> QED
    BY <1>1, <1>2 DEF BankIInv, BankTypes, BankSummed, Bank!TypeOK

\* The invariant says what the properties of the module say.
LEMMA BankIsAgreed ==
  ASSUME NEW c, Bank(c)!BankingAssumption, BankIInv(c)
  PROVE  Bank(c)!BalanceIsSum /\ Bank(c)!EntryPerReconciliation /\ Bank(c)!SyncComplete
  <1>1. Bank(c)!BalanceIsSum
    <2>1. PICK h, S, T, U : /\ h = BankAmounts /\ S = DOMAIN rows
                            /\ T = Bank(c)!Reconciled /\ U = DOMAIN rows \ Bank(c)!Reconciled
      OBVIOUS
    <2>2. IsFiniteSet(T) /\ IsFiniteSet(U) /\ T \cap U = {} /\ T \cup U = S
      <3>1. 1 \in Int /\ Len(rows) \in Int /\ S = 1..Len(rows)
        BY <2>1, LenProperties DEF BankIInv, BankTypes
      <3>2. IsFiniteSet(S)
        BY <3>1, FS_Interval
      <3>3. T \subseteq S /\ U \subseteq S /\ T \cap U = {} /\ T \cup U = S
        BY <2>1 DEF Bank!Reconciled
      <3> QED
        BY <3>2, <3>3, FS_Subset
    <2>3. \A x \in T \cup U : h[x] \in Int
      <3>1. \A i \in DOMAIN rows : rows[i] \in Bank(c)!Row
        BY ElementOfSeq, LenProperties DEF BankIInv, BankTypes
      <3> QED
        BY <2>1, <2>2, <3>1 DEF BankAmounts, Bank!Row
    <2>4. SumOver(h, S) = SumOver(h, T) + SumOver(h, U) /\ SumOver(h, T) \in Int /\ SumOver(h, U) \in Int
      BY <2>2, <2>3, SumUnion
    <2>5. \A V : Bank(c)!Amount(V) = SumOver(h, V)
      <3> SUFFICES ASSUME NEW V PROVE Bank(c)!Amount(V) = SumOver(h, V)
        OBVIOUS
      <3>1. Bank(c)!Amount(V) = Bank(c)!SumFunctionOnSet(h, V)
        BY <2>1, Zenon DEF Bank!Amount, BankAmounts
      <3> QED
        BY <3>1, BankSum
    <2>6. balance = SumOver(h, S)
      BY <2>1 DEF BankIInv, BankSummed
    <2> QED
      BY <2>1, <2>4, <2>5, <2>6 DEF Bank!BalanceIsSum, Bank!Difference
  <1>2. Bank(c)!EntryPerReconciliation
    <2>1. ASSUME ~raced, NEW i \in DOMAIN rows
          PROVE  Bank(c)!Cardinality({k \in DOMAIN je : je[k] = i}) <=
                   rows[i].undone + (IF rows[i].je # 0 THEN 1 ELSE 0)
      <3>1. PICK V : V = {k \in DOMAIN je : je[k] = i}
        OBVIOUS
      <3>2. Cardinality(V) <= rows[i].undone + (IF rows[i].je # 0 THEN 1 ELSE 0)
        BY <2>1, <3>1 DEF BankIInv, BankBooked
      <3>3. Bank(c)!Cardinality(V) = Cardinality(V)
        BY BankCardinality
      <3> QED
        BY <3>1, <3>2, <3>3, Zenon
    <2>2. ~raced => \A i \in DOMAIN rows : rows[i].je # 0 => je[rows[i].je] = i
      BY DEF BankIInv, BankBooked
    <2> QED
      BY <2>1, <2>2, Zenon DEF Bank!EntryPerReconciliation
  <1>3. Bank(c)!SyncComplete
    BY DEF BankIInv, BankSyncInv, BankPassed, BankRepeated, BankLate, Bank!SyncComplete
  <1> QED
    BY <1>1, <1>2, <1>3

-----------------------------------------------------------------------------
(* Invoices.  Their proofs are those of InvoicesProofs.                      *)

IP == INSTANCE InvoicesProofs WITH
  Req <- InvoiceCase.req, Ops <- InvoiceCase.ops, Amount <- InvoiceCase.amounts,
  TaxRate <- InvoiceCase.rates, Batch <- InvoiceCase.batches, Period <- InvoiceCase.periods,
  NoPeriod <- InvoiceCase.no_period, MaxInvoices <- InvoiceCase.invoices,
  MaxEntries <- InvoiceCase.entries, MaxSessions <- InvoiceCase.sessions

\* The instance of that module has the actions of the instance of Invoices.
LEMMA InvoiceSame ==
  /\ Invoice!Init => IP!Init
  /\ Invoice!Next => IP!Next
  /\ UNCHANGED Invoice!vars => UNCHANGED IP!vars
  /\ Invoice!InvoicesAssumption => IP!InvoicesAssumption
  /\ IP!PaymentReversedOnce => Invoice!PaymentReversedOnce
  /\ IP!InvoiceNumbersConsecutive => Invoice!InvoiceNumbersConsecutive
  /\ IP!TypeOK => Invoice!TypeOK
  <1>1. Invoice!Init => IP!Init
    BY Zenon DEF Invoice!Init, IP!Init, Invoice!Idle, IP!Idle, Invoice!NoTerms, IP!NoTerms
  <1>2. Invoice!Next => IP!Next
    BY Zenon DEF Invoice!Status, IP!Status, Invoice!NoTerms, IP!NoTerms, Invoice!Idle,
      IP!Idle, Invoice!Begin, IP!Begin, Invoice!BeginCreate, IP!BeginCreate,
      Invoice!BeginUpdate, IP!BeginUpdate, Invoice!BeginPay, IP!BeginPay,
      Invoice!BeginOnInvoice, IP!BeginOnInvoice, Invoice!BeginWebhook, IP!BeginWebhook,
      Invoice!Advance, IP!Advance, Invoice!ReadLastInvoice, IP!ReadLastInvoice,
      Invoice!AllowedStatus, IP!AllowedStatus, Invoice!ReadInvoice, IP!ReadInvoice,
      Invoice!SkipWebhook, IP!SkipWebhook, Invoice!ReadEntry, IP!ReadEntry, Invoice!Numbers,
      IP!Numbers, Invoice!ReadNumber, IP!ReadNumber, Invoice!CreateSession,
      IP!CreateSession, Invoice!Finish, IP!Finish, Invoice!Committing, IP!Committing,
      Invoice!InvoiceNumberIsFree, IP!InvoiceNumberIsFree, Invoice!EntryNumberIsFree,
      IP!EntryNumberIsFree, Invoice!Taxable, IP!Taxable, Invoice!Total, IP!Total,
      Invoice!Draft, IP!Draft, Invoice!CommitCreate, IP!CommitCreate, Invoice!Revised,
      IP!Revised, Invoice!CommitUpdate, IP!CommitUpdate, Invoice!CommitSend, IP!CommitSend,
      Invoice!Paid, IP!Paid, Invoice!CommitPayBooked, IP!CommitPayBooked,
      Invoice!CommitPayUnbooked, IP!CommitPayUnbooked, Invoice!TriggerAllowsVoid,
      IP!TriggerAllowsVoid, Invoice!CommitVoidReversal, IP!CommitVoidReversal,
      Invoice!CommitVoidPlain, IP!CommitVoidPlain, Invoice!CommitLink, IP!CommitLink,
      Invoice!CommitWebhook, IP!CommitWebhook, Invoice!Rollback, IP!Rollback,
      Invoice!CustomerPays, IP!CustomerPays, Invoice!Start, IP!Start, Invoice!Read, IP!Read,
      Invoice!Commit, IP!Commit, Invoice!Next, IP!Next, Invoice!Max, IP!Max
  <1>3. UNCHANGED Invoice!vars => UNCHANGED IP!vars
    BY Zenon DEF Invoice!vars, IP!vars
  <1>4. Invoice!InvoicesAssumption => IP!InvoicesAssumption
    BY Zenon DEF Invoice!InvoicesAssumption, IP!InvoicesAssumption, Invoice!AllOps,
      IP!AllOps
  <1>5. IP!PaymentReversedOnce => Invoice!PaymentReversedOnce
    BY Zenon DEF Invoice!PaymentReversedOnce, IP!PaymentReversedOnce, Invoice!Cardinality,
      IP!Cardinality, Invoice!IsFiniteSet, IP!IsFiniteSet
  <1>6. IP!InvoiceNumbersConsecutive => Invoice!InvoiceNumbersConsecutive
    BY Zenon DEF Invoice!InvoiceNumbersConsecutive, IP!InvoiceNumbersConsecutive
  <1>7. IP!TypeOK => Invoice!TypeOK
    BY Zenon DEF Invoice!TypeOK, IP!TypeOK, Invoice!Invoice, IP!Invoice, Invoice!Entry, IP!Entry,
      Invoice!Session, IP!Session, Invoice!Txn, IP!Txn, Invoice!Terms, IP!Terms,
      Invoice!Status, IP!Status, Invoice!AllOps, IP!AllOps
  <1> QED
    BY <1>1, <1>2, <1>3, <1>4, <1>5, <1>6, <1>7

\* The invariant of InvoicesProofs holds at first,
LEMMA InvoiceInit ==
  ASSUME Invoice!Init
  PROVE  IP!IInv
  BY InvoiceSame, IP!InitIInv, DocumentsAssumption

\* every action keeps it,
LEMMA InvoiceNext ==
  ASSUME IP!IInv, Invoice!Next \/ UNCHANGED Invoice!vars
  PROVE  IP!IInv'
  <1>1. IP!Next \/ UNCHANGED IP!vars
    BY InvoiceSame
  <1> QED
    BY <1>1, IP!NextStep, InvoiceSame, DocumentsAssumption

\* and it says what the properties say.
LEMMA InvoiceHolds ==
  ASSUME IP!IInv
  PROVE  Invoice!TypeOK /\ Invoice!InvoiceNumbersConsecutive /\ Invoice!PaymentReversedOnce
  <1>1. IP!TypeOK /\ IP!InvoiceNumbersConsecutive
    BY DEF IP!IInv
  <1>2. IP!PaymentReversedOnce
    BY IP!ReversedByOne, InvoiceSame, DocumentsAssumption
  <1> QED
    BY <1>1, <1>2, InvoiceSame

-----------------------------------------------------------------------------
(* The documents beside each other: a behaviour keeps the invariant of the   *)
(* component, and the parameters, that it is of.                             *)

BillPart    == \A c \in DOMAIN BillCase : part = <<"bill", c>> => BillBooks(c)
NotePart    == \A c \in DOMAIN NoteCase : part = <<"note", c>> => NoteBooks(c)
ExpensePart == \A c \in DOMAIN ExpenseCase : part = <<"expense", c>> => ExpenseBooks(c)
BankPart    == \A c \in DOMAIN BankCase : part = <<"bank", c>> => BankIInv(c)
InvoicePart == part = <<"invoice">> => IP!IInv

DocumentsIInv == BillPart /\ NotePart /\ ExpensePart /\ BankPart /\ InvoicePart

\* A behaviour is of one component, with one set of parameters.
LEMMA OnePart ==
  /\ \A c, d : /\ <<"bill", c>> # <<"note", d>> /\ <<"bill", c>> # <<"expense", d>>
               /\ <<"bill", c>> # <<"bank", d>> /\ <<"note", c>> # <<"expense", d>>
               /\ <<"note", c>> # <<"bank", d>> /\ <<"expense", c>> # <<"bank", d>>
  /\ \A c : /\ <<"invoice">> # <<"bill", c>> /\ <<"invoice">> # <<"note", c>>
            /\ <<"invoice">> # <<"expense", c>> /\ <<"invoice">> # <<"bank", c>>
  /\ \A c, d : /\ <<"bill", c>> = <<"bill", d>> => c = d
               /\ <<"note", c>> = <<"note", d>> => c = d
               /\ <<"expense", c>> = <<"expense", d>> => c = d
               /\ <<"bank", c>> = <<"bank", d>> => c = d
  OBVIOUS

\* The invariant holds at first,
LEMMA DocumentsInit == Init => DocumentsIInv
  <1> SUFFICES ASSUME Init PROVE DocumentsIInv
    OBVIOUS
  <1>1. ASSUME NEW c \in DOMAIN BillCase, part = <<"bill", c>>, Bill(c)!Init PROVE DocumentsIInv
    <2>1. BillBooks(c)
      BY <1>1, BillInitBooks, DocumentsAssumption
    <2> QED
      BY <1>1, <2>1, OnePart DEF DocumentsIInv, BillPart, NotePart, ExpensePart, BankPart, InvoicePart
  <1>2. ASSUME NEW c \in DOMAIN NoteCase, part = <<"note", c>>, Note(c)!Init PROVE DocumentsIInv
    <2>1. NoteBooks(c)
      BY <1>2, NoteInitBooks, DocumentsAssumption
    <2> QED
      BY <1>2, <2>1, OnePart DEF DocumentsIInv, BillPart, NotePart, ExpensePart, BankPart, InvoicePart
  <1>3. ASSUME NEW c \in DOMAIN ExpenseCase, part = <<"expense", c>>, Expense(c)!Init PROVE DocumentsIInv
    <2>1. ExpenseBooks(c)
      BY <1>3, ExpenseInitBooks, DocumentsAssumption
    <2> QED
      BY <1>3, <2>1, OnePart DEF DocumentsIInv, BillPart, NotePart, ExpensePart, BankPart, InvoicePart
  <1>4. ASSUME NEW c \in DOMAIN BankCase, part = <<"bank", c>>, Bank(c)!Init PROVE DocumentsIInv
    <2>1. BankIInv(c)
      BY <1>4, BankInitIInv, DocumentsAssumption
    <2> QED
      BY <1>4, <2>1, OnePart DEF DocumentsIInv, BillPart, NotePart, ExpensePart, BankPart, InvoicePart
  <1>5. CASE part = <<"invoice">> /\ Invoice!Init
    <2>1. IP!IInv
      BY <1>5, InvoiceInit
    <2> QED
      BY <1>5, <2>1, OnePart DEF DocumentsIInv, BillPart, NotePart, ExpensePart, BankPart, InvoicePart
  <1> QED
    BY <1>1, <1>2, <1>3, <1>4, <1>5 DEF Init

\* every action, of whichever component, keeps it,
LEMMA DocumentsNext == DocumentsIInv /\ [Next]_vars => DocumentsIInv'
  <1> SUFFICES ASSUME DocumentsIInv, [Next]_vars PROVE DocumentsIInv'
    OBVIOUS
  <1>1. UNCHANGED part
    BY DEF Next, vars
  <1>2. ASSUME NEW c \in DOMAIN BillCase, part = <<"bill", c>> PROVE BillBooks(c)'
    <2>1. Bill(c)!Next \/ UNCHANGED Bill(c)!vars
      BY <1>2, OnePart DEF Next, vars, shared, billVars, Bill!vars
    <2>2. BillBooks(c)
      BY <1>2 DEF DocumentsIInv, BillPart
    <2> QED
      BY <2>1, <2>2, BillNextStep, DocumentsAssumption
  <1>3. ASSUME NEW c \in DOMAIN NoteCase, part = <<"note", c>> PROVE NoteBooks(c)'
    <2>1. Note(c)!Next \/ UNCHANGED Note(c)!vars
      BY <1>3, OnePart DEF Next, vars, shared, Note!vars
    <2>2. NoteBooks(c)
      BY <1>3 DEF DocumentsIInv, NotePart
    <2> QED
      BY <2>1, <2>2, NoteNextStep, DocumentsAssumption
  <1>4. ASSUME NEW c \in DOMAIN ExpenseCase, part = <<"expense", c>> PROVE ExpenseBooks(c)'
    <2>1. Expense(c)!Next \/ UNCHANGED Expense(c)!vars
      BY <1>4, OnePart DEF Next, vars, shared, Expense!vars
    <2>2. ExpenseBooks(c)
      BY <1>4 DEF DocumentsIInv, ExpensePart
    <2> QED
      BY <2>1, <2>2, ExpenseNextBooks, DocumentsAssumption
  <1>5. ASSUME NEW c \in DOMAIN BankCase, part = <<"bank", c>> PROVE BankIInv(c)'
    <2>1. Bank(c)!Next \/ UNCHANGED Bank(c)!vars
      BY <1>5, OnePart DEF Next, vars, shared, bankVars, Bank!vars
    <2>2. BankIInv(c)
      BY <1>5 DEF DocumentsIInv, BankPart
    <2> QED
      BY <2>1, <2>2, BankNextStep, DocumentsAssumption
  <1>6. ASSUME part = <<"invoice">> PROVE IP!IInv'
    <2>1. Invoice!Next \/ UNCHANGED Invoice!vars
      BY <1>6, OnePart DEF Next, vars, shared, invoiceVars, Invoice!vars
    <2>2. IP!IInv
      BY <1>6 DEF DocumentsIInv, InvoicePart
    <2> QED
      BY <2>1, <2>2, InvoiceNext
  <1> QED
    BY <1>1, <1>2, <1>3, <1>4, <1>5, <1>6 DEF DocumentsIInv, BillPart, NotePart, ExpensePart, BankPart,
       InvoicePart

\* and so it always holds.
LEMMA DocumentsInvariance == Spec => []DocumentsIInv
  BY DocumentsInit, DocumentsNext, PTL DEF Spec

-----------------------------------------------------------------------------
(* The theorems.                                                           *)

\* Every variable of every document has its type.
THEOREM TypesHold == Spec => []TypeOK
  <1>1. DocumentsIInv => TypeOK
    <2> SUFFICES ASSUME DocumentsIInv PROVE TypeOK
      OBVIOUS
    <2>1. \A c \in DOMAIN BillCase : part = <<"bill", c>> => Bill(c)!TypeOK
      BY BillTypesHold, DocumentsAssumption DEF DocumentsIInv, BillPart, BillBooks
    <2>2. \A c \in DOMAIN NoteCase : part = <<"note", c>> => Note(c)!TypeOK
      BY NoteTypesHold, DocumentsAssumption DEF DocumentsIInv, NotePart, NoteBooks
    <2>3. \A c \in DOMAIN ExpenseCase : part = <<"expense", c>> => Expense(c)!TypeOK
      BY DEF DocumentsIInv, ExpensePart, ExpenseBooks, ExpenseIInv
    <2>4. \A c \in DOMAIN BankCase : part = <<"bank", c>> => Bank(c)!TypeOK
      BY BankTypesHold, DocumentsAssumption DEF DocumentsIInv, BankPart
    <2>5. part = <<"invoice">> => Invoice!TypeOK
      BY InvoiceHolds DEF DocumentsIInv, InvoicePart
    <2> QED
      BY <2>1, <2>2, <2>3, <2>4, <2>5 DEF TypeOK
  <1> QED
    BY <1>1, DocumentsInvariance, PTL

\* However the requests on a bill overlap: if none wrote on stale reads, the
\* bill is paid what its payments come to, its status says what is due, and
\* 2000 (payable) has what is due, given the accounts and an open period.
THEOREM BillsSettle == Spec => []BillSettles
  <1>1. DocumentsIInv => BillSettles
    BY BillIsSettled, DocumentsAssumption DEF DocumentsIInv, BillPart, BillSettles
  <1> QED
    BY <1>1, DocumentsInvariance, PTL

\* However the requests on a credit note overlap: if none wrote on stale reads,
\* the note counts in full in the one invoice it is applied to, until that is
\* paid; it is reversed when it is voided; and its entry balances but for the
\* rounding of the shares of its lines, less than half a cent for each.
THEOREM CreditsSettle == Spec => []CreditSettles
  <1>1. DocumentsIInv => CreditSettles
    BY NoteIsSettled, DocumentsAssumption DEF DocumentsIInv, NotePart, CreditSettles
  <1> QED
    BY <1>1, DocumentsInvariance, PTL

\* However the requests on an expense overlap: if none wrote on stale reads, it
\* has one entry of its amount once it is posted, and none is left of a voided one.
THEOREM ExpensesSettle == Spec => []ExpenseSettles
  <1>1. DocumentsIInv => ExpenseSettles
    BY ExpenseBooksSettle, DocumentsAssumption DEF DocumentsIInv, ExpensePart, ExpenseSettles
  <1> QED
    BY <1>1, DocumentsInvariance, PTL

\* However the requests overlap, stale reads or not, no entry is reversed twice.
THEOREM EntriesReversedOnce == Spec => []ReversedOnce
  <1>1. DocumentsIInv => ReversedOnce
    <2> SUFFICES ASSUME DocumentsIInv PROVE ReversedOnce
      OBVIOUS
    <2>1. \A c \in DOMAIN BillCase : part = <<"bill", c>> => Bill(c)!ReversedOnce
      BY BillTypesHold, DocumentsAssumption DEF DocumentsIInv, BillPart, BillBooks
    <2>2. \A c \in DOMAIN NoteCase : part = <<"note", c>> => Note(c)!ReversedOnce
      BY NoteTypesHold, DocumentsAssumption DEF DocumentsIInv, NotePart, NoteBooks
    <2>3. \A c \in DOMAIN ExpenseCase : part = <<"expense", c>> => Expense(c)!ReversedOnce
      BY DEF DocumentsIInv, ExpensePart, ExpenseBooks, ExpenseIInv, Entries, OnlyReversal,
             Expense!ReversedOnce
    <2>4. part = <<"invoice">> => Invoice!PaymentReversedOnce
      BY InvoiceHolds DEF DocumentsIInv, InvoicePart
    <2> QED
      BY <2>1, <2>2, <2>3, <2>4 DEF ReversedOnce
  <1> QED
    BY <1>1, DocumentsInvariance, PTL

\* However creates and batches overlap, invoices are numbered 1, 2, 3 ...
THEOREM NumbersConsecutive == Spec => []InvoiceNumbersConsecutive
  <1>1. DocumentsIInv => InvoiceNumbersConsecutive
    BY InvoiceHolds DEF DocumentsIInv, InvoicePart, InvoiceNumbersConsecutive
  <1> QED
    BY <1>1, DocumentsInvariance, PTL

\* However imports, syncs and reconciliations overlap: the balance is the sum of
\* the rows, so it differs from the reconciled ones by the open ones; each
\* reconciliation booked has its entry, unless two of a row overlapped; and a
\* sync inserts what Plaid showed it, once.
THEOREM BanksAgree == Spec => []BankAgrees
  <1>1. DocumentsIInv => BankAgrees
    BY BankIsAgreed, DocumentsAssumption DEF DocumentsIInv, BankPart, BankAgrees
  <1> QED
    BY <1>1, DocumentsInvariance, PTL
=============================================================================
