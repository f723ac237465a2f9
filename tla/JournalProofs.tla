--------------------------- MODULE JournalProofs ---------------------------
(***************************************************************************)
(* The journal's safety properties, proved for any number of requests,     *)
(* periods, submissions and entries; and what its checks of the fiscal     *)
(* period and of the lock date are worth when requests overlap: the        *)
(* checked value may be stale at the commit, but it was true at some       *)
(* moment of the request's own transaction.                                *)
(***************************************************************************)
EXTENDS Journal, SequenceTheorems, TLAPS

-----------------------------------------------------------------------------
(* The inductive invariant.                                                *)

\* What a transaction has read is still true of the journal where the code
\* relies on it: entries keep their period and lines, and once read as posted
\* an entry can only be posted or voided.
TxnGood(t) ==
  /\ t.pc = "idle" <=> t = Idle
  /\ t.op \in {"create", "subpost"} => t.period \in Period
  /\ t.op = "asset" /\ t.pc = "commit" => t.period \in Period
  /\ t.op \in {"create", "subpost", "asset"} => t.lines \in Submission
  /\ t.pc = "entry" => t.op \in {"post", "void", "subvoid"}
  /\ t.pc = "number" => t.op \in AllOps \ {"lock"}
  /\ t.pc = "pick" => t.op = "asset"
  /\ t.pc = "period" => t.op \in {"create", "subpost", "post", "void"}
  /\ t.op \in {"post", "void", "subvoid"} => t.id \in DOMAIN je
  /\ t.op \in {"post", "void", "subvoid"} /\ t.pc # "entry"
       => /\ t.period = je[t.id].period
          /\ t.lines  = je[t.id].lines
  /\ t.op \in {"void", "subvoid"} /\ t.pc # "entry"
       => je[t.id].status # "draft"
  /\ t.pc # "idle" => t.op \in Ops
  /\ t.pc = "commit" /\ t.op \notin {"post", "lock", "asset"}
       => t.num - 1 \in Numbers(t.period) \cup {0}

TxnOK == \A r \in Req : TxnGood(txn[r])

\* Every period has a largest entry number, which max(entry_number) returns.
HasMaxNumber ==
  \A p \in Period :
    \E m \in Numbers(p) \cup {0} : \A n \in Numbers(p) : n <= m

\* A reversal is written after the entry it reverses.
ReversesEarlier == \A k \in DOMAIN je : je[k].reverses < k

IInv == TypeOK /\ TxnOK /\ HasMaxNumber /\ ReversesEarlier
          /\ EntryNumbersUnique /\ NumbersGapFree /\ OneReversalPerVoid

-----------------------------------------------------------------------------
(* Lemmas about the operators.                                             *)

\* The library's Max is the maximum when there is one.
LEMMA MaxIsLargest ==
  ASSUME NEW S \in SUBSET Nat, NEW m \in S, \A n \in S : n <= m
  PROVE  Max(S) = m
  <1>1. \A y \in S : m >= y
    OBVIOUS
  <1>2. Max(S) \in S /\ \A y \in S : Max(S) >= y
    BY <1>1, Zenon DEF Max
  <1>3. Max(S) \in Nat /\ m \in Nat /\ Max(S) >= m /\ m >= Max(S)
    BY <1>1, <1>2
  <1> HIDE DEF Max
  <1> QED
    BY <1>3

\* Exchanging the debits and credits of lines gives lines.
LEMMA SwappedType ==
  ASSUME NEW lines \in Seq(Line)
  PROVE  Swapped(lines) \in Seq(Line)
  <1> DEFINE n == Len(lines)
  <1>1. n \in Nat /\ DOMAIN lines = 1..n
    OBVIOUS
  <1>2. \A i \in 1..n : lines[i] \in Line
    OBVIOUS
  <1>3. Swapped(lines) \in [1..n -> Line]
    BY <1>1, <1>2 DEF Swapped, Line
  <1> QED
    BY <1>1, <1>3, IsASeq

\* Number(max_num) is a natural number.
LEMMA MaxNumberType ==
  ASSUME TypeOK, HasMaxNumber, NEW p \in Period
  PROVE  /\ MaxNumber(p) \in Nat
         /\ MaxNumber(p) # 0 => MaxNumber(p) \in Numbers(p)
  <1>1. Numbers(p) \in SUBSET Nat
    <2>1. \A i \in DOMAIN je : je[i] \in Entry
      BY DEF TypeOK
    <2> QED
      BY <2>1 DEF Numbers, Entry
  <1>2. PICK m \in Numbers(p) \cup {0} : \A n \in Numbers(p) : n <= m
    BY DEF HasMaxNumber
  <1>3. Max(Numbers(p) \cup {0}) = m
    BY <1>1, <1>2, MaxIsLargest
  <1> QED
    BY <1>1, <1>2, <1>3 DEF MaxNumber

-----------------------------------------------------------------------------
LEMMA IdleType == Idle \in Txn
  <1>1. <<>> \in Seq(Line)
    BY EmptySeq
  <1> QED
    BY <1>1 DEF Idle, Txn

LEMMA InitIInv == Init => IInv
  <1> SUFFICES ASSUME Init PROVE IInv
    OBVIOUS
  <1> USE DEF Init
  <1>1. TypeOK
    BY IdleType DEF TypeOK, Unseen
  <1>2. TxnOK
    BY DEF TxnOK, TxnGood, Idle
  <1>3. HasMaxNumber
    BY DEF HasMaxNumber, Numbers
  <1>4. ReversesEarlier /\ EntryNumbersUnique /\ NumbersGapFree /\ OneReversalPerVoid
    BY DEF ReversesEarlier, EntryNumbersUnique, NumbersGapFree, OneReversalPerVoid
  <1> QED
    BY <1>1, <1>2, <1>3, <1>4 DEF IInv

-----------------------------------------------------------------------------
(* Every step keeps the types.                                             *)

\* A new row is an entry.
LEMMA RowType ==
  ASSUME NEW t \in Txn, t.period \in Period, NEW s \in Status,
         NEW ls \in Seq(Line), NEW rev \in Nat
  PROVE  Row(t, s, ls, rev) \in Entry
  BY DEF Row, Txn, Entry

LEMMA StartType ==
  ASSUME TypeOK, NEW r \in Req, Start(r)
  PROVE  TypeOK'
  <1> DEFINE Requested(op, req) == Begin(r, op, req) /\ [req EXCEPT !.op = op] \in Txn
  <1>1. ASSUME NEW op, NEW req, Requested(op, req)
        PROVE  TypeOK'
    <2>1. OpenPeriods \subseteq Period /\ Unlocked(lock_date) \subseteq Period
      BY DEF OpenPeriods, Unlocked
    <2>2. txn' \in [Req -> Txn]
      BY <1>1 DEF TypeOK, Begin
    <2>3. seen' \in [Req -> [open: SUBSET Period, unlocked: SUBSET Period]]
      BY <1>1, <2>1 DEF TypeOK, Begin
    <2> QED
      BY <1>1, <2>2, <2>3 DEF TypeOK, Begin
  <1>2. ASSUME NEW op \in Ops, BeginEntry(r, op) PROVE TypeOK'
    <2>1. PICK p \in Period, ls \in Submission :
            Begin(r, op, [Idle EXCEPT !.pc = "period", !.period = p, !.lines = ls])
      BY <1>2 DEF BeginEntry
    <2>2. ls \in Seq(Line) /\ op \in AllOps
      BY JournalAssumption DEF Line
    <2>3. [[Idle EXCEPT !.pc = "period", !.period = p, !.lines = ls] EXCEPT !.op = op]
            \in Txn
      BY <2>2, IdleType DEF Txn
    <2> QED
      BY <1>1, <2>1, <2>3
  <1>3. ASSUME NEW op \in Ops, BeginOnEntry(r, op) PROVE TypeOK'
    <2>1. PICK i \in DOMAIN je : Begin(r, op, [Idle EXCEPT !.pc = "entry", !.id = i])
      BY <1>3 DEF BeginOnEntry
    <2>2. i \in Nat /\ op \in AllOps
      BY JournalAssumption DEF TypeOK
    <2>3. [[Idle EXCEPT !.pc = "entry", !.id = i] EXCEPT !.op = op] \in Txn
      BY <2>2, IdleType DEF Txn
    <2> QED
      BY <1>1, <2>1, <2>3
  <1>4. ASSUME BeginAsset(r) PROVE TypeOK'
    <2>1. PICK ls \in Submission :
            Begin(r, "asset", [Idle EXCEPT !.pc = "number", !.lines = ls])
      BY <1>4 DEF BeginAsset
    <2>2. ls \in Seq(Line)
      BY JournalAssumption DEF Line
    <2>3. [[Idle EXCEPT !.pc = "number", !.lines = ls] EXCEPT !.op = "asset"] \in Txn
      BY <2>2, IdleType DEF Txn, AllOps
    <2> QED
      BY <1>1, <2>1, <2>3
  <1>5. ASSUME BeginLock(r) PROVE TypeOK'
    <2>1. PICK d \in LockDate \cup {NoLock} :
            Begin(r, "lock", [Idle EXCEPT !.pc = "lock", !.date = d])
      BY <1>5 DEF BeginLock
    <2>2. [[Idle EXCEPT !.pc = "lock", !.date = d] EXCEPT !.op = "lock"] \in Txn
      BY IdleType DEF Txn, AllOps
    <2> QED
      BY <1>1, <2>1, <2>2
  <1> QED
    BY <1>2, <1>3, <1>4, <1>5 DEF Start

\* A transaction that is to read a maximum has a period.
LEMMA NumberedPeriod ==
  ASSUME TypeOK, TxnOK, NEW r \in Req,
         txn[r].pc = "number", txn[r].op # "asset"
  PROVE  txn[r].period \in Period
  <1> DEFINE t == txn[r]
  <1>1. t.op \in {"create", "subpost", "post", "void", "subvoid"}
    BY DEF TxnOK, TxnGood, AllOps
  <1>2. CASE t.op \in {"create", "subpost"}
    BY <1>2 DEF TxnOK, TxnGood
  <1>3. CASE t.op \in {"post", "void", "subvoid"}
    <2>1. t.id \in DOMAIN je /\ t.period = je[t.id].period
      BY <1>3 DEF TxnOK, TxnGood
    <2>2. je[t.id] \in Entry
      BY <2>1 DEF TypeOK
    <2> QED
      BY <2>1, <2>2 DEF Entry
  <1> QED
    BY <1>1, <1>2, <1>3

LEMMA ReadType ==
  ASSUME IInv, NEW r \in Req, Read(r)
  PROVE  TypeOK'
  <1> DEFINE t == txn[r]
  <1>0. TypeOK /\ TxnOK /\ HasMaxNumber /\ t \in Txn
    BY DEF IInv, TypeOK
  <1>1. ASSUME NEW u \in Txn, Advance(r, u) PROVE TypeOK'
    BY <1>0, <1>1 DEF Advance, TypeOK
  <1>2. CASE ReadEntry(r)
    <2>1. t.id \in DOMAIN je
      BY <1>0, <1>2 DEF ReadEntry, TxnOK, TxnGood
    <2>2. je[t.id] \in Entry
      BY <1>0, <2>1 DEF TypeOK
    <2> QED
      BY <1>0, <1>1, <1>2, <2>2 DEF ReadEntry, Txn, Entry
  <1>3. CASE ReadPeriod(r)
    BY <1>0, <1>1, <1>3 DEF ReadPeriod, Txn
  <1>4. CASE CheckLockDate(r)
    BY <1>0, <1>1, <1>4 DEF CheckLockDate, Txn
  <1>5. CASE ReadLockDate(r)
    BY <1>0, <1>1, <1>5 DEF ReadLockDate, Txn
  <1>6. CASE ReadNumber(r)
    <2>1. t.period \in Period
      BY <1>0, <1>6, NumberedPeriod DEF ReadNumber
    <2>2. MaxNumber(t.period) + 1 \in Nat
      BY <1>0, <2>1, MaxNumberType
    <2> QED
      BY <1>0, <1>1, <1>6, <2>2 DEF ReadNumber, Txn
  <1>7. CASE ReadLastNumber(r)
    <2>1. (IF je = <<>> THEN 1 ELSE je[Len(je)].number + 1) \in Nat
      <3>1. CASE je = <<>>
        BY <3>1
      <3>2. CASE je # <<>>
        <4>1. Len(je) \in DOMAIN je /\ je[Len(je)] \in Entry
          BY <1>0, <3>2 DEF TypeOK
        <4> QED
          BY <3>2, <4>1 DEF Entry
      <3> QED
        BY <3>1, <3>2
    <2> QED
      BY <1>0, <1>1, <1>7, <2>1 DEF ReadLastNumber, Txn
  <1>8. CASE PickOpenPeriod(r)
    BY <1>0, <1>1, <1>8 DEF PickOpenPeriod, OpenPeriods, Txn
  <1> QED
    BY <1>2, <1>3, <1>4, <1>5, <1>6, <1>7, <1>8 DEF Read

-----------------------------------------------------------------------------
(* What a step may do to the journal: insert an entry with a free number,  *)
(* post a draft, or void a posted entry together with its reversal.        *)

\* The number follows one of the period, unless fixed assets number entries.
Follows(e) == "asset" \notin Ops => e.number - 1 \in Numbers(e.period) \cup {0}

Inserts ==
  \E e \in Entry : /\ je' = Append(je, e)
                   /\ NumberIsFree(e.period, e.number)
                   /\ Follows(e)
                   /\ e.status \in {"draft", "posted"}
                   /\ e.lines \in Submission
                   /\ e.reverses = 0

Posts ==
  \E i \in DOMAIN je : /\ je[i].status = "draft"
                       /\ je' = [je EXCEPT ![i].status = "posted"]

Voids ==
  \E i \in DOMAIN je, e \in Entry :
    /\ je[i].status = "posted"
    /\ je' = Append([je EXCEPT ![i].status = "voided"], e)
    /\ NumberIsFree(e.period, e.number)
    /\ Follows(e)
    /\ e.period = je[i].period
    /\ e.status = "posted"
    /\ e.lines = Swapped(je[i].lines)
    /\ e.reverses = i

Effect == UNCHANGED je \/ Inserts \/ Posts \/ Voids

LEMMA CommitEffect ==
  ASSUME IInv, NEW r \in Req, Commit(r)
  PROVE  Effect
  <1> DEFINE t == txn[r]
  <1>0. TypeOK /\ TxnOK /\ t \in Txn
    BY DEF IInv, TypeOK
  <1>1. CASE CommitInsert(r)
    <2> DEFINE e == Row(t, IF t.op = "create" THEN "draft" ELSE "posted", t.lines, 0)
    <2>1. t.period \in Period /\ t.lines \in Submission
      BY <1>0, <1>1 DEF CommitInsert, TxnOK, TxnGood
    <2>2. t.lines \in Seq(Line)
      BY <1>0 DEF Txn
    <2>3. e \in Entry
      BY <1>0, <2>1, <2>2, RowType DEF Status
    <2>4. e.period = t.period /\ e.number = t.num /\ e.lines = t.lines
            /\ e.reverses = 0 /\ e.status \in {"draft", "posted"}
      BY DEF Row
    <2>5. je' = Append(je, e) /\ NumberIsFree(t.period, t.num)
      BY <1>1 DEF CommitInsert
    <2>6. Follows(e)
      BY <1>0, <1>1, <2>4 DEF CommitInsert, TxnOK, TxnGood, Follows
    <2> HIDE DEF e
    <2> QED
      BY <2>1, <2>3, <2>4, <2>5, <2>6 DEF Effect, Inserts
  <1>2. CASE CommitPost(r)
    <2>1. t.id \in DOMAIN je
      BY <1>0, <1>2 DEF CommitPost, TxnOK, TxnGood
    <2>2. je[t.id].status = "draft"
      BY <1>2 DEF CommitPost, TriggerAllows
    <2> QED
      BY <1>2, <2>1, <2>2 DEF CommitPost, Effect, Posts
  <1>3. CASE CommitVoid(r)
    <2> DEFINE e == Row(t, "posted", Swapped(t.lines), t.id)
    <2>1. t.id \in DOMAIN je /\ t.period = je[t.id].period
            /\ t.lines = je[t.id].lines /\ je[t.id].status # "draft"
      BY <1>0, <1>3 DEF CommitVoid, TxnOK, TxnGood
    <2>2. je[t.id].status = "posted"
      BY <1>3, <2>1 DEF CommitVoid, TriggerAllows
    <2>3. je[t.id] \in Entry
      BY <1>0, <2>1 DEF TypeOK
    <2>4. t.period \in Period /\ t.lines \in Seq(Line) /\ t.id \in Nat
      BY <1>0, <2>1, <2>3 DEF Entry, Txn
    <2>5. e \in Entry
      BY <1>0, <2>4, RowType, SwappedType DEF Status
    <2>6. e.period = t.period /\ e.number = t.num /\ e.lines = Swapped(t.lines)
            /\ e.reverses = t.id /\ e.status = "posted"
      BY DEF Row
    <2>7. /\ je' = Append([je EXCEPT ![t.id].status = "voided"], e)
          /\ NumberIsFree(t.period, t.num)
      BY <1>3 DEF CommitVoid
    <2>8. Follows(e)
      BY <1>0, <1>3, <2>6 DEF CommitVoid, TxnOK, TxnGood, Follows
    <2> HIDE DEF e
    <2> QED
      BY <2>1, <2>2, <2>5, <2>6, <2>7, <2>8 DEF Effect, Voids
  <1>4. CASE CommitLock(r)
    BY <1>4 DEF CommitLock, Effect
  <1> QED
    BY <1>1, <1>2, <1>3, <1>4 DEF Commit

LEMMA NextEffect ==
  ASSUME IInv, [Next]_vars
  PROVE  Effect
  <1>1. CASE \E r \in Req : Start(r)
    BY <1>1 DEF Start, BeginEntry, BeginOnEntry, BeginAsset, BeginLock, Begin, Effect
  <1>2. CASE \E r \in Req : Read(r)
    BY <1>2 DEF Read, ReadEntry, ReadPeriod, CheckLockDate, ReadLockDate,
                ReadNumber, ReadLastNumber, PickOpenPeriod, Advance, Effect
  <1>3. CASE \E r \in Req : Commit(r)
    BY <1>3, CommitEffect
  <1>4. CASE \E r \in Req : Rollback(r)
    BY <1>4 DEF Rollback, Effect
  <1>5. CASE \E p \in Period : ClosePeriod(p) \/ OpenPeriod(p)
    BY <1>5 DEF ClosePeriod, OpenPeriod, Effect
  <1>6. CASE UNCHANGED vars
    BY <1>6 DEF vars, Effect
  <1> QED
    BY <1>1, <1>2, <1>3, <1>4, <1>5, <1>6 DEF Next

-----------------------------------------------------------------------------
(* What follows from the effect alone.                                     *)

\* Changing the status of one entry.
LEMMA StatusShape ==
  ASSUME TypeOK, NEW i \in DOMAIN je, NEW s \in Status
  PROVE  LET mid == [je EXCEPT ![i].status = s] IN
         /\ mid \in Seq(Entry)
         /\ Len(mid) = Len(je)
         /\ DOMAIN mid = DOMAIN je
         /\ \A k \in DOMAIN je :
              mid[k] = IF k = i THEN [je[i] EXCEPT !.status = s] ELSE je[k]
  <1>0. je \in Seq(Entry) /\ je[i] \in Entry /\ DOMAIN je = 1..Len(je)
    BY DEF TypeOK
  <1> DEFINE e == [je[i] EXCEPT !.status = s]
             mid == [je EXCEPT ![i] = e]
  <1>1. e \in Entry
    BY <1>0 DEF Entry
  <1>2. mid = [je EXCEPT ![i].status = s]
    OBVIOUS
  <1> HIDE DEF e
  <1>3. /\ mid \in Seq(Entry)
        /\ Len(mid) = Len(je)
        /\ \A k \in 1..Len(je) : mid[k] = IF k = i THEN e ELSE je[k]
    BY <1>0, <1>1, ExceptSeq
  <1>4. DOMAIN mid = DOMAIN je
    OBVIOUS
  <1> QED
    BY <1>0, <1>2, <1>3, <1>4 DEF e

\* Voiding one entry and appending another.
LEMMA VoidShape ==
  ASSUME TypeOK, NEW i \in DOMAIN je, NEW e \in Entry,
         je' = Append([je EXCEPT ![i].status = "voided"], e)
  PROVE  /\ je' \in Seq(Entry)
         /\ Len(je') = Len(je) + 1
         /\ je'[Len(je) + 1] = e
         /\ \A k \in DOMAIN je :
              je'[k] = IF k = i THEN [je[i] EXCEPT !.status = "voided"] ELSE je[k]
  <1> DEFINE mid == [je EXCEPT ![i].status = "voided"]
  <1>1. /\ mid \in Seq(Entry)
        /\ Len(mid) = Len(je)
        /\ DOMAIN mid = DOMAIN je
        /\ \A k \in DOMAIN je :
             mid[k] = IF k = i THEN [je[i] EXCEPT !.status = "voided"] ELSE je[k]
    BY StatusShape DEF Status
  <1>2. je' = Append(mid, e)
    OBVIOUS
  <1> HIDE DEF mid
  <1>3. DOMAIN je = 1..Len(je)
    BY DEF TypeOK
  <1>4. /\ Append(mid, e) \in Seq(Entry)
        /\ Len(Append(mid, e)) = Len(mid) + 1
        /\ \A k \in 1..Len(mid) : Append(mid, e)[k] = mid[k]
        /\ Append(mid, e)[Len(mid) + 1] = e
    <2>1. mid \in Seq(Entry)
      BY <1>1
    <2> QED
      BY ONLY <2>1, AppendProperties, e \in Entry
  <1> QED
    BY <1>1, <1>2, <1>3, <1>4

\* Entries are never removed and keep everything but their status, which only
\* moves forward.
LEMMA EntriesKept ==
  ASSUME TypeOK, Effect
  PROVE  /\ je' \in Seq(Entry)
         /\ DOMAIN je \subseteq DOMAIN je'
         /\ \A i \in DOMAIN je :
              /\ je'[i].period = je[i].period
              /\ je'[i].number = je[i].number
              /\ je'[i].lines = je[i].lines
              /\ je'[i].reverses = je[i].reverses
              /\ je[i].status # "draft" => je'[i].status # "draft"
  <1>0. /\ je \in Seq(Entry) /\ DOMAIN je = 1..Len(je) /\ Len(je) \in Nat
        /\ \A i \in DOMAIN je : je[i] \in Entry
    BY DEF TypeOK
  <1>1. CASE UNCHANGED je
    BY <1>0, <1>1
  <1>2. CASE Inserts
    <2>1. PICK e \in Entry : je' = Append(je, e)
      BY <1>2 DEF Inserts
    <2> QED
      BY <1>0, <2>1, AppendProperties
  <1>3. CASE Posts
    <2>1. PICK i \in DOMAIN je : je' = [je EXCEPT ![i].status = "posted"]
      BY <1>3 DEF Posts
    <2>2. /\ je' \in Seq(Entry) /\ DOMAIN je' = DOMAIN je
          /\ \A k \in DOMAIN je :
               je'[k] = IF k = i THEN [je[i] EXCEPT !.status = "posted"] ELSE je[k]
      BY <2>1, StatusShape DEF Status
    <2> QED
      BY <1>0, <2>2 DEF Entry
  <1>4. CASE Voids
    <2>1. PICK i \in DOMAIN je, e \in Entry :
            je' = Append([je EXCEPT ![i].status = "voided"], e)
      BY <1>4 DEF Voids
    <2>2. /\ je' \in Seq(Entry) /\ Len(je') = Len(je) + 1
          /\ \A k \in DOMAIN je :
               je'[k] = IF k = i THEN [je[i] EXCEPT !.status = "voided"] ELSE je[k]
      BY <2>1, VoidShape
    <2>3. DOMAIN je' = 1..(Len(je) + 1)
      BY <2>2
    <2>4. ASSUME NEW k \in DOMAIN je
          PROVE  /\ je'[k].period = je[k].period
                 /\ je'[k].number = je[k].number
                 /\ je'[k].lines = je[k].lines
                 /\ je'[k].reverses = je[k].reverses
                 /\ je[k].status # "draft" => je'[k].status # "draft"
      BY <1>0, <2>2 DEF Entry
    <2> QED
      BY <1>0, <2>2, <2>3, <2>4
  <1> QED
    BY <1>1, <1>2, <1>3, <1>4 DEF Effect
-----------------------------------------------------------------------------
(* The parts of the invariant that speak of the journal only.              *)

\* A number once used stays used.
LEMMA NumbersGrow ==
  ASSUME TypeOK, Effect, NEW p
  PROVE  Numbers(p) \subseteq Numbers(p)'
  BY EntriesKept DEF Numbers

LEMMA HasMaxStep ==
  ASSUME TypeOK, HasMaxNumber, Effect
  PROVE  HasMaxNumber'
  <1> SUFFICES ASSUME NEW p \in Period
               PROVE  \E m \in Numbers(p)' \cup {0} : \A n \in Numbers(p)' : n <= m
    BY DEF HasMaxNumber
  <1>0. PICK m \in Numbers(p) \cup {0} : \A n \in Numbers(p) : n <= m
    BY DEF HasMaxNumber
  <1>1. /\ DOMAIN je \subseteq DOMAIN je'
        /\ \A i \in DOMAIN je : je'[i].period = je[i].period
                                /\ je'[i].number = je[i].number
    BY EntriesKept
  <1>2. Numbers(p) \subseteq Numbers(p)'
    BY NumbersGrow
  <1>3. Numbers(p) \subseteq Nat
    <2>1. \A i \in DOMAIN je : je[i] \in Entry
      BY DEF TypeOK
    <2> QED
      BY <2>1 DEF Numbers, Entry
  <1>4. \E n \in Nat : Numbers(p)' \subseteq Numbers(p) \cup {n}
    <2>1. ASSUME NEW e \in Entry, DOMAIN je' \subseteq DOMAIN je \cup {Len(je) + 1},
                 je'[Len(je) + 1] = e
          PROVE  Numbers(p)' \subseteq Numbers(p) \cup {e.number}
      BY <1>1, <2>1 DEF Numbers
    <2>2. \A e \in Entry : e.number \in Nat
      BY DEF Entry
    <2>3. ASSUME DOMAIN je' = DOMAIN je
          PROVE  Numbers(p)' \subseteq Numbers(p)
      BY <1>1, <2>3 DEF Numbers
    <2>4. CASE UNCHANGED je
      BY <2>3, <2>4
    <2>5. CASE Inserts
      <3>1. PICK e \in Entry : je' = Append(je, e)
        BY <2>5 DEF Inserts
      <3>2. DOMAIN je' \subseteq DOMAIN je \cup {Len(je) + 1} /\ je'[Len(je) + 1] = e
        BY <3>1, AppendProperties DEF TypeOK
      <3> QED
        BY <2>1, <2>2, <3>2
    <2>6. CASE Posts
      BY <2>3, <2>6, StatusShape DEF Posts, Status
    <2>7. CASE Voids
      <3>1. PICK i \in DOMAIN je, e \in Entry :
              je' = Append([je EXCEPT ![i].status = "voided"], e)
        BY <2>7 DEF Voids
      <3>2. je' \in Seq(Entry) /\ Len(je') = Len(je) + 1 /\ je'[Len(je) + 1] = e
        BY <3>1, VoidShape
      <3>3. DOMAIN je' \subseteq DOMAIN je \cup {Len(je) + 1}
        BY <3>2 DEF TypeOK
      <3> QED
        BY <2>1, <2>2, <3>2, <3>3
    <2> QED
      BY <2>4, <2>5, <2>6, <2>7 DEF Effect
  <1>5. PICK n \in Nat : Numbers(p)' \subseteq Numbers(p) \cup {n}
    BY <1>4
  <1>6. CASE n \notin Numbers(p)'
    BY <1>0, <1>2, <1>5, <1>6
  <1>7. CASE n \in Numbers(p)' /\ n <= m
    BY <1>0, <1>2, <1>5, <1>7
  <1>8. CASE n \in Numbers(p)' /\ ~(n <= m)
    <2>1. m \in Nat
      BY <1>3
    <2>2. \A k \in Numbers(p)' : k <= n
      BY <1>0, <1>3, <1>5, <1>8, <2>1
    <2> QED
      BY <1>8, <2>2
  <1> QED
    BY <1>6, <1>7, <1>8

\* The shape of an insertion, in the form the next lemmas use.
LEMMA InsertShape ==
  ASSUME TypeOK, NEW e \in Entry, je' = Append(je, e)
  PROVE  /\ DOMAIN je = 1..Len(je) /\ Len(je) \in Nat
         /\ DOMAIN je' = 1..(Len(je) + 1)
         /\ je'[Len(je) + 1] = e
         /\ \A k \in DOMAIN je : je'[k] = je[k]
  BY AppendProperties DEF TypeOK

LEMMA ReversesEarlierStep ==
  ASSUME TypeOK, ReversesEarlier, Effect
  PROVE  ReversesEarlier'
  <1>0. /\ DOMAIN je = 1..Len(je) /\ Len(je) \in Nat
        /\ \A i \in DOMAIN je : je[i] \in Entry
    BY DEF TypeOK
  <1>1. CASE UNCHANGED je
    BY <1>1 DEF ReversesEarlier
  <1>2. CASE Inserts
    <2>1. PICK e \in Entry : je' = Append(je, e) /\ e.reverses = 0
      BY <1>2 DEF Inserts
    <2> QED
      BY <1>0, <2>1, InsertShape DEF ReversesEarlier
  <1>3. CASE Posts
    <2>1. PICK i \in DOMAIN je : je' = [je EXCEPT ![i].status = "posted"]
      BY <1>3 DEF Posts
    <2>2. DOMAIN je' = DOMAIN je
      BY <2>1
    <2>3. \A k \in DOMAIN je : je'[k].reverses = je[k].reverses
      BY EntriesKept
    <2> QED
      BY <2>2, <2>3 DEF ReversesEarlier
  <1>4. CASE Voids
    <2>1. PICK i \in DOMAIN je, e \in Entry :
            /\ je' = Append([je EXCEPT ![i].status = "voided"], e)
            /\ e.reverses = i
      BY <1>4 DEF Voids
    <2>2. /\ je' \in Seq(Entry) /\ Len(je') = Len(je) + 1 /\ je'[Len(je) + 1] = e
      BY <2>1, VoidShape
    <2>3. DOMAIN je' = 1..(Len(je) + 1)
      BY <2>2
    <2>4. \A k \in DOMAIN je : je'[k].reverses = je[k].reverses
      BY EntriesKept
    <2> QED
      BY <1>0, <2>1, <2>2, <2>3, <2>4 DEF ReversesEarlier
  <1> QED
    BY <1>1, <1>2, <1>3, <1>4 DEF Effect

LEMMA UniqueStep ==
  ASSUME TypeOK, EntryNumbersUnique, Effect
  PROVE  EntryNumbersUnique'
  <1>1. \A i \in DOMAIN je : je'[i].period = je[i].period
                           /\ je'[i].number = je[i].number
    BY EntriesKept
  <1>2. ASSUME DOMAIN je' = DOMAIN je PROVE EntryNumbersUnique'
    BY <1>1, <1>2 DEF EntryNumbersUnique
  <1>3. ASSUME NEW e \in Entry, DOMAIN je' = DOMAIN je \cup {Len(je) + 1},
               je'[Len(je) + 1] = e, NumberIsFree(e.period, e.number)
        PROVE  EntryNumbersUnique'
    <2>1. \A i \in DOMAIN je : ~(je'[i].period = e.period /\ je'[i].number = e.number)
      BY <1>1, <1>3 DEF NumberIsFree, Numbers
    <2> QED
      BY <1>1, <1>3, <2>1 DEF EntryNumbersUnique
  <1>4. CASE UNCHANGED je
    BY <1>2, <1>4
  <1>5. CASE Inserts
    <2>1. PICK e \in Entry : je' = Append(je, e) /\ NumberIsFree(e.period, e.number)
      BY <1>5 DEF Inserts
    <2>2. DOMAIN je' = DOMAIN je \cup {Len(je) + 1} /\ je'[Len(je) + 1] = e
      BY <2>1, InsertShape
    <2> QED
      BY <1>3, <2>1, <2>2
  <1>6. CASE Posts
    BY <1>2, <1>6 DEF Posts
  <1>7. CASE Voids
    <2>1. PICK i \in DOMAIN je, e \in Entry :
            /\ je' = Append([je EXCEPT ![i].status = "voided"], e)
            /\ NumberIsFree(e.period, e.number)
      BY <1>7 DEF Voids
    <2>2. je' \in Seq(Entry) /\ Len(je') = Len(je) + 1 /\ je'[Len(je) + 1] = e
      BY <2>1, VoidShape
    <2>3. DOMAIN je' = DOMAIN je \cup {Len(je) + 1}
      BY <2>2 DEF TypeOK
    <2> QED
      BY <1>3, <2>1, <2>2, <2>3
  <1> QED
    BY <1>4, <1>5, <1>6, <1>7 DEF Effect

\* Number n is used in period p of journal j.
Used(j, p, n) == \E k \in DOMAIN j : j[k].period = p /\ j[k].number = n

LEMMA GapFreeStep ==
  ASSUME TypeOK, NumbersGapFree, Effect
  PROVE  NumbersGapFree'
  <1> SUFFICES ASSUME "asset" \notin Ops
               PROVE  \A i \in DOMAIN je' : \A n \in 1..je'[i].number :
                        Used(je', je'[i].period, n)
    BY DEF NumbersGapFree, Used
  <1>1. /\ \A i \in DOMAIN je : je'[i].period = je[i].period
                             /\ je'[i].number = je[i].number
        /\ DOMAIN je \subseteq DOMAIN je'
    BY EntriesKept
  <1>2. \A i \in DOMAIN je : \A n \in 1..je[i].number : Used(je, je[i].period, n)
    BY DEF NumbersGapFree, Used
  <1>3. ASSUME NEW i \in DOMAIN je, NEW n \in 1..je'[i].number
        PROVE  Used(je', je'[i].period, n)
    BY <1>1, <1>2 DEF Used
  <1>4. ASSUME NEW e \in Entry, NEW k \in DOMAIN je', je'[k] = e, Follows(e),
               NEW n \in 1..e.number
        PROVE  Used(je', e.period, n)
    <2>1. CASE n = e.number
      BY <1>4, <2>1 DEF Used
    <2>2. CASE n # e.number
      <3>1. e.number \in Nat /\ n \in 1..(e.number - 1) /\ e.number - 1 # 0
        BY <2>2 DEF Entry
      <3>2. PICK i \in DOMAIN je : /\ je[i].period = e.period
                                  /\ je[i].number = e.number - 1
        BY <1>4, <3>1 DEF Follows, Numbers
      <3> QED
        BY <1>1, <1>3, <3>1, <3>2
    <2> QED
      BY <2>1, <2>2
  <1>5. CASE DOMAIN je' = DOMAIN je
    BY <1>3, <1>5
  <1>6. CASE Inserts
    <2>1. PICK e \in Entry : je' = Append(je, e) /\ Follows(e)
      BY <1>6 DEF Inserts
    <2>2. DOMAIN je' = DOMAIN je \cup {Len(je) + 1} /\ je'[Len(je) + 1] = e
      BY <2>1, InsertShape
    <2> QED
      BY <1>3, <1>4, <2>1, <2>2
  <1>7. CASE Voids
    <2>1. PICK i \in DOMAIN je, e \in Entry :
            /\ je' = Append([je EXCEPT ![i].status = "voided"], e)
            /\ Follows(e)
      BY <1>7 DEF Voids
    <2>2. je' \in Seq(Entry) /\ Len(je') = Len(je) + 1 /\ je'[Len(je) + 1] = e
      BY <2>1, VoidShape
    <2>3. DOMAIN je' = DOMAIN je \cup {Len(je) + 1}
      BY <2>2 DEF TypeOK
    <2> QED
      BY <1>3, <1>4, <2>1, <2>2, <2>3
  <1> QED
    BY <1>5, <1>6, <1>7 DEF Effect, Posts

\* The two halves of OneReversalPerVoid for one entry.
Reversed(i) == \E k \in DOMAIN je : /\ Reversals(i) = {k}
                                    /\ je[k].period = je[i].period
                                    /\ je[k].status # "draft"
                                    /\ je[k].lines = Swapped(je[i].lines)

LEMMA ReversalStep ==
  ASSUME TypeOK, ReversesEarlier, OneReversalPerVoid, Effect
  PROVE  OneReversalPerVoid'
  <1> USE DEF Reversed
  <1>0. /\ DOMAIN je = 1..Len(je) /\ Len(je) \in Nat
        /\ \A i \in DOMAIN je : je[i] \in Entry
    BY DEF TypeOK
  <1>n. PICK n \in Nat : n = Len(je) + 1 /\ n \notin DOMAIN je
    BY <1>0
  <1>1. /\ DOMAIN je \subseteq DOMAIN je'
        /\ \A i \in DOMAIN je :
             /\ je'[i].period = je[i].period
             /\ je'[i].lines = je[i].lines
             /\ je'[i].reverses = je[i].reverses
             /\ je[i].status # "draft" => je'[i].status # "draft"
    BY EntriesKept
  <1>2. ASSUME NEW i \in DOMAIN je, Reversals(i)' = Reversals(i), Reversed(i)
        PROVE  Reversed(i)'
    BY <1>1, <1>2 DEF Reversals
  <1>3. ASSUME NEW i \in DOMAIN je, Reversals(i)' = Reversals(i),
               je'[i].status = "voided" <=> je[i].status = "voided"
        PROVE  IF je'[i].status = "voided" THEN Reversed(i)' ELSE Reversals(i)' = {}
    BY <1>2, <1>3 DEF OneReversalPerVoid
  <1>4. CASE UNCHANGED je
    BY <1>4 DEF OneReversalPerVoid, Reversals
  <1>5. CASE Inserts
    <2>1. PICK e \in Entry : /\ je' = Append(je, e) /\ e.reverses = 0
                            /\ e.status # "voided"
      BY <1>5 DEF Inserts
    <2>2. /\ DOMAIN je' = DOMAIN je \cup {n} /\ je'[n] = e
          /\ \A k \in DOMAIN je : je'[k] = je[k]
      BY <1>0, <1>n, <2>1, InsertShape
    <2>3. \A i \in DOMAIN je : Reversals(i)' = Reversals(i)
      BY <1>0, <2>1, <2>2 DEF Reversals
    <2>4. Reversals(n)' = {}
      BY <1>0, <1>n, <2>1, <2>2 DEF Reversals, ReversesEarlier
    <2>5. ASSUME NEW k \in DOMAIN je'
          PROVE  IF je'[k].status = "voided" THEN Reversed(k)' ELSE Reversals(k)' = {}
      BY <1>3, <2>1, <2>2, <2>3, <2>4
    <2> QED
      BY <2>5 DEF OneReversalPerVoid
  <1>6. CASE Posts
    <2>1. PICK i \in DOMAIN je : /\ je[i].status = "draft"
                                /\ je' = [je EXCEPT ![i].status = "posted"]
      BY <1>6 DEF Posts
    <2>2. /\ DOMAIN je' = DOMAIN je
          /\ \A k \in DOMAIN je :
               je'[k] = IF k = i THEN [je[i] EXCEPT !.status = "posted"] ELSE je[k]
      BY <2>1, StatusShape DEF Status
    <2>3. \A k \in DOMAIN je : Reversals(k)' = Reversals(k)
      BY <1>1, <2>2 DEF Reversals
    <2>4. \A k \in DOMAIN je : je'[k].status = "voided" <=> je[k].status = "voided"
      BY <1>0, <2>1, <2>2 DEF Entry
    <2>5. ASSUME NEW k \in DOMAIN je'
          PROVE  IF je'[k].status = "voided" THEN Reversed(k)' ELSE Reversals(k)' = {}
      BY <1>3, <2>2, <2>3, <2>4
    <2> QED
      BY <2>5 DEF OneReversalPerVoid
  <1>7. CASE Voids
    <2>1. PICK i \in DOMAIN je, e \in Entry :
            /\ je[i].status = "posted"
            /\ je' = Append([je EXCEPT ![i].status = "voided"], e)
            /\ e.period = je[i].period
            /\ e.status = "posted"
            /\ e.lines = Swapped(je[i].lines)
            /\ e.reverses = i
      BY <1>7 DEF Voids
    <2>2. /\ je' \in Seq(Entry) /\ Len(je') = n /\ je'[n] = e
          /\ \A k \in DOMAIN je :
               je'[k] = IF k = i THEN [je[i] EXCEPT !.status = "voided"] ELSE je[k]
      BY <1>n, <2>1, VoidShape
    <2>3. DOMAIN je' = DOMAIN je \cup {n}
      BY <1>0, <1>n, <2>2
    <2>4. \A k \in DOMAIN je \ {i} : Reversals(k)' = Reversals(k)
      BY <1>0, <1>1, <2>1, <2>2, <2>3 DEF Reversals
    <2>5. \A k \in DOMAIN je \ {i} : je'[k].status = je[k].status
      BY <2>2
    <2>6. Reversals(i) = {}
      BY <2>1 DEF OneReversalPerVoid
    <2>7. Reversals(i)' = {n}
      BY <1>0, <1>1, <2>1, <2>2, <2>3, <2>6 DEF Reversals
    <2>8. je'[i].status = "voided"
      BY <1>0, <2>2 DEF Entry
    <2>9. /\ n \in DOMAIN je' /\ i \in DOMAIN je'
          /\ je'[n].period = je'[i].period /\ je'[n].status # "draft"
          /\ je'[n].lines = Swapped(je'[i].lines)
      BY <1>1, <2>1, <2>2, <2>3
    <2>10. Reversed(i)'
      BY <2>7, <2>9 DEF Swapped
    <2>11. Reversals(n)' = {} /\ je'[n].status # "voided"
      <3>1. \A k \in DOMAIN je : je'[k].reverses # n
        BY <1>0, <1>n, <1>1 DEF ReversesEarlier, Entry
      <3>2. je'[n].reverses # n
        BY <1>n, <2>1, <2>2
      <3> QED
        BY <2>1, <2>2, <2>3, <3>1, <3>2 DEF Reversals
    <2>12. ASSUME NEW k \in DOMAIN je'
           PROVE  IF je'[k].status = "voided" THEN Reversed(k)' ELSE Reversals(k)' = {}
      <3>1. CASE k = n
        BY <2>11, <3>1
      <3>2. CASE k = i
        BY <2>8, <2>10, <3>2
      <3>3. CASE k \in DOMAIN je \ {i}
        <4>1. IF je'[k].status = "voided" THEN Reversed(k)' ELSE Reversals(k)' = {}
          BY <1>3, <2>4, <2>5, <3>3
        <4> QED
          BY <4>1
      <3> QED
        BY <2>3, <3>1, <3>2, <3>3
    <2> QED
      BY <2>12 DEF OneReversalPerVoid
  <1> QED
    BY <1>4, <1>5, <1>6, <1>7 DEF Effect

-----------------------------------------------------------------------------
(* What the transactions have read stays good.                             *)

LEMMA StillGood ==
  ASSUME TypeOK, Effect, NEW t \in Txn, TxnGood(t)
  PROVE  TxnGood(t)'
  <1>1. /\ DOMAIN je \subseteq DOMAIN je'
        /\ \A i \in DOMAIN je : /\ je'[i].period = je[i].period
                                /\ je'[i].lines = je[i].lines
                                /\ je[i].status # "draft" => je'[i].status # "draft"
    BY EntriesKept
  <1>2. Numbers(t.period) \subseteq Numbers(t.period)'
    BY NumbersGrow
  <1> QED
    BY <1>1, <1>2 DEF TxnGood

LEMMA IdleGood == TxnGood(Idle) /\ TxnGood(Idle)'
  BY DEF TxnGood, Idle

\* A step of one transaction, or of several that it leaves as they were.
LEMMA OthersGood ==
  ASSUME TypeOK, TxnOK, Effect, NEW r \in Req, NEW u, TxnGood(u)',
         txn' = [txn EXCEPT ![r] = u]
  PROVE  TxnOK'
  <1>1. \A q \in Req : txn[q] \in Txn /\ TxnGood(txn[q])
    BY DEF TypeOK, TxnOK
  <1>2. \A q \in Req : txn'[q] = IF q = r THEN u ELSE txn[q]
    BY DEF TypeOK
  <1>3. ASSUME NEW q \in Req PROVE TxnGood(txn[q])'
    <2>1. CASE q = r
      BY <1>2, <2>1 DEF TxnGood
    <2>2. CASE q # r
      <3>1. PICK t \in Txn : t = txn[q] /\ TxnGood(t)
        BY <1>1
      <3>2. TxnGood(t)'
        BY <3>1, StillGood
      <3>3. txn'[q] = t
        BY <1>2, <2>2, <3>1
      <3> QED
        BY <3>2, <3>3 DEF TxnGood
    <2> QED
      BY <2>1, <2>2
  <1> QED
    BY <1>3 DEF TxnOK

LEMMA StartGood ==
  ASSUME IInv, Effect, NEW r \in Req, Start(r)
  PROVE  TxnOK'
  <1>0. TypeOK /\ TxnOK
    BY DEF IInv
  <1>1. ASSUME NEW u, TxnGood(u), txn' = [txn EXCEPT ![r] = u], UNCHANGED je
        PROVE  TxnOK'
    <2>1. TxnGood(u)'
      BY <1>1 DEF TxnGood, Numbers
    <2> QED
      BY <1>0, <1>1, <2>1, OthersGood
  <1>2. ASSUME NEW op \in Ops, BeginEntry(r, op) PROVE TxnOK'
    BY <1>1, <1>2 DEF BeginEntry, Begin, TxnGood, Idle
  <1>3. ASSUME NEW op \in Ops, BeginOnEntry(r, op) PROVE TxnOK'
    BY <1>1, <1>3 DEF BeginOnEntry, Begin, TxnGood, Idle
  <1>4. ASSUME BeginAsset(r) PROVE TxnOK'
    BY <1>1, <1>4 DEF BeginAsset, Begin, TxnGood, Idle, AllOps
  <1>5. ASSUME BeginLock(r) PROVE TxnOK'
    BY <1>1, <1>5 DEF BeginLock, Begin, TxnGood, Idle
  <1> QED
    BY <1>2, <1>3, <1>4, <1>5 DEF Start

LEMMA ReadGood ==
  ASSUME IInv, Effect, NEW r \in Req, Read(r)
  PROVE  TxnOK'
  <1> DEFINE t == txn[r]
  <1>0. TypeOK /\ TxnOK /\ t \in Txn /\ TxnGood(t)
    BY DEF IInv, TypeOK, TxnOK
  <1>1. ASSUME NEW u, TxnGood(u), Advance(r, u)
        PROVE  TxnOK'
    <2>1. TxnGood(u)'
      BY <1>1 DEF TxnGood, Numbers, Advance
    <2> QED
      BY <1>0, <1>1, <2>1, OthersGood DEF Advance
  <1>2. CASE ReadEntry(r)
    BY <1>0, <1>1, <1>2 DEF ReadEntry, TxnGood, Txn, Idle
  <1>3. CASE ReadPeriod(r)
    BY <1>0, <1>1, <1>3 DEF ReadPeriod, TxnGood, Txn, Idle, AllOps
  <1>4. CASE CheckLockDate(r)
    BY <1>0, <1>1, <1>4 DEF CheckLockDate, TxnGood, Txn, Idle, AllOps
  <1>5. CASE ReadLockDate(r)
    BY <1>0, <1>1, <1>5 DEF ReadLockDate, TxnGood, Txn, Idle
  <1>6. CASE ReadNumber(r)
    <2>1. HasMaxNumber /\ t.period \in Period
      BY <1>0, <1>6, NumberedPeriod DEF ReadNumber, IInv
    <2>2. PICK m \in Nat : /\ m = MaxNumber(t.period)
                          /\ m \in Numbers(t.period) \cup {0}
      BY <1>0, <2>1, MaxNumberType
    <2>3. (m + 1) - 1 \in Numbers(t.period) \cup {0}
      BY <2>2
    <2>4. TxnGood([t EXCEPT !.num = m + 1, !.pc = "commit"])
      BY <1>0, <1>6, <2>3 DEF ReadNumber, TxnGood, Txn, Idle
    <2> QED
      BY <1>1, <1>6, <2>2, <2>4 DEF ReadNumber
  <1>7. CASE ReadLastNumber(r)
    BY <1>0, <1>1, <1>7 DEF ReadLastNumber, TxnGood, Txn, Idle
  <1>8. CASE PickOpenPeriod(r)
    BY <1>0, <1>1, <1>8 DEF PickOpenPeriod, OpenPeriods, TxnGood, Txn, Idle
  <1> QED
    BY <1>2, <1>3, <1>4, <1>5, <1>6, <1>7, <1>8 DEF Read

LEMMA TxnStep ==
  ASSUME IInv, [Next]_vars, Effect
  PROVE  TxnOK'
  <1>0. TypeOK /\ TxnOK
    BY DEF IInv
  <1>1. ASSUME NEW r \in Req, txn' = [txn EXCEPT ![r] = Idle] PROVE TxnOK'
    BY <1>0, <1>1, IdleGood, OthersGood
  <1>2. ASSUME txn' = txn PROVE TxnOK'
    <2>1. ASSUME NEW q \in Req PROVE TxnGood(txn[q])'
      <3>1. PICK t \in Txn : t = txn[q] /\ TxnGood(t)
        BY <1>0 DEF TypeOK, TxnOK
      <3>2. TxnGood(t)'
        BY <1>0, <3>1, StillGood
      <3> QED
        BY <1>2, <3>1, <3>2 DEF TxnGood
    <2> QED
      BY <2>1 DEF TxnOK
  <1>3. CASE \E r \in Req : Start(r)
    BY <1>3, StartGood
  <1>4. CASE \E r \in Req : Read(r)
    BY <1>4, ReadGood
  <1>5. CASE \E r \in Req : Commit(r) \/ Rollback(r)
    BY <1>1, <1>5 DEF Commit, CommitInsert, CommitPost, CommitVoid, CommitLock,
                      Rollback, Finish
  <1>6. CASE \E p \in Period : ClosePeriod(p) \/ OpenPeriod(p)
    BY <1>2, <1>6 DEF ClosePeriod, OpenPeriod
  <1>7. CASE UNCHANGED vars
    BY <1>2, <1>7 DEF vars
  <1> QED
    BY <1>3, <1>4, <1>5, <1>6, <1>7 DEF Next

-----------------------------------------------------------------------------
LEMMA TypeStep ==
  ASSUME IInv, [Next]_vars, Effect
  PROVE  TypeOK'
  <1>0. TypeOK /\ JournalAssumption
    BY JournalAssumption DEF IInv
  <1>1. je' \in Seq(Entry)
    BY <1>0, EntriesKept
  <1>2. ASSUME NEW r \in Req, Finish(r)
        PROVE  /\ txn' \in [Req -> Txn]
               /\ seen' \in [Req -> [open: SUBSET Period, unlocked: SUBSET Period]]
    BY <1>0, <1>2, IdleType DEF Finish, TypeOK, Unseen
  <1>3. CASE \E r \in Req : Start(r)
    BY <1>0, <1>3, StartType
  <1>4. CASE \E r \in Req : Read(r)
    BY <1>4, ReadType
  <1>5. CASE \E r \in Req : CommitInsert(r) \/ CommitPost(r) \/ CommitVoid(r) \/ Rollback(r)
    <2>1. PICK r \in Req : CommitInsert(r) \/ CommitPost(r) \/ CommitVoid(r) \/ Rollback(r)
      BY <1>5
    <2>2. Finish(r) /\ UNCHANGED <<period_status, lock_date>>
      BY <2>1 DEF CommitInsert, CommitPost, CommitVoid, Rollback
    <2> QED
      BY <1>0, <1>1, <1>2, <2>2 DEF TypeOK
  <1>6. CASE \E r \in Req : CommitLock(r)
    <2>1. PICK r \in Req : CommitLock(r)
      BY <1>6
    <2>2. txn[r] \in Txn /\ txn[r].date \in LockDate \cup {NoLock}
      BY <1>0 DEF TypeOK, Txn
    <2>3. txn' \in [Req -> Txn]
      BY <1>0, <2>1, IdleType DEF CommitLock, TypeOK
    <2>4. Unlocked(txn[r].date) \subseteq Period
      BY DEF Unlocked
    <2>5. seen' \in [Req -> [open: SUBSET Period, unlocked: SUBSET Period]]
      BY <1>0, <2>1, <2>4 DEF CommitLock, TypeOK, Unseen
    <2> QED
      BY <1>0, <1>1, <2>1, <2>2, <2>3, <2>5 DEF CommitLock, TypeOK
  <1>7. CASE \E p \in Period : ClosePeriod(p)
    BY <1>0, <1>7 DEF ClosePeriod, TypeOK
  <1>8. CASE \E p \in Period : OpenPeriod(p)
    <2>1. PICK p \in Period : OpenPeriod(p)
      BY <1>8
    <2>2. seen' \in [Req -> [open: SUBSET Period, unlocked: SUBSET Period]]
      BY <1>0, <2>1 DEF OpenPeriod, TypeOK, Unseen
    <2> QED
      BY <1>0, <2>1, <2>2 DEF OpenPeriod, TypeOK
  <1>9. CASE UNCHANGED vars
    BY <1>0, <1>9 DEF vars, TypeOK
  <1> QED
    BY <1>3, <1>4, <1>5, <1>6, <1>7, <1>8, <1>9 DEF Next, Commit

LEMMA IInvStep == IInv /\ [Next]_vars => IInv'
  <1> SUFFICES ASSUME IInv, [Next]_vars PROVE IInv'
    OBVIOUS
  <1>1. Effect
    BY NextEffect
  <1>2. TypeOK' /\ TxnOK'
    BY <1>1, TypeStep, TxnStep
  <1>3. /\ HasMaxNumber' /\ ReversesEarlier' /\ EntryNumbersUnique'
        /\ NumbersGapFree' /\ OneReversalPerVoid'
    BY <1>1, HasMaxStep, ReversesEarlierStep, UniqueStep, GapFreeStep, ReversalStep
       DEF IInv
  <1> QED
    BY <1>2, <1>3 DEF IInv

\* The inductive invariant holds in every reachable state.
THEOREM Invariance == Spec => []IInv
  BY InitIInv, IInvStep, PTL DEF Spec

\* Every variable keeps its type.
THEOREM TypeCorrect == Spec => []TypeOK
  <1>1. IInv => TypeOK
    BY DEF IInv
  <1> QED
    BY <1>1, Invariance, PTL

\* No two entries of a period share a number, whatever races.
THEOREM NumbersUnique == Spec => []EntryNumbersUnique
  <1>1. IInv => EntryNumbersUnique
    BY DEF IInv
  <1> QED
    BY <1>1, Invariance, PTL

\* Without fixed-asset postings the numbers of a period have no gap.
THEOREM GapFree == Spec => []NumbersGapFree
  <1>1. IInv => NumbersGapFree
    BY DEF IInv
  <1> QED
    BY <1>1, Invariance, PTL

\* A voided entry has exactly one mirror reversal, whatever races.
THEOREM ReversalPerVoid == Spec => []OneReversalPerVoid
  <1>1. IInv => OneReversalPerVoid
    BY DEF IInv
  <1> QED
    BY <1>1, Invariance, PTL

-----------------------------------------------------------------------------
(* The journal implements the abstract ledger.                             *)

\* What the ledger sees of the journal.
Seen(e) == [period |-> e.period, status |-> e.status, lines |-> e.lines,
            reverses |-> e.reverses]
BookOf(j) == [i \in DOMAIN j |-> Seen(j[i])]
BookEntry == [period: Period, status: Status, lines: Seq(Line), reverses: Nat]

LEMMA BookShape ==
  ASSUME NEW j \in Seq(Entry)
  PROVE  /\ BookOf(j) \in Seq(BookEntry)
         /\ Len(BookOf(j)) = Len(j) /\ DOMAIN BookOf(j) = DOMAIN j
         /\ \A i \in DOMAIN j : BookOf(j)[i] = Seen(j[i]) /\ Seen(j[i]) \in BookEntry
  <1>1. /\ DOMAIN j = 1..Len(j) /\ Len(j) \in Nat
        /\ \A i \in DOMAIN j : j[i] \in Entry
    OBVIOUS
  <1>2. \A i \in DOMAIN j : Seen(j[i]) \in BookEntry
    BY <1>1 DEF Seen, BookEntry, Entry
  <1>3. BookOf(j) \in [1..Len(j) -> BookEntry]
    BY <1>1, <1>2 DEF BookOf
  <1> QED
    BY <1>1, <1>2, <1>3 DEF BookOf

\* An entry appended to the journal is appended to the book.
LEMMA BookAppend ==
  ASSUME NEW j \in Seq(Entry), NEW e \in Entry
  PROVE  BookOf(Append(j, e)) = Append(BookOf(j), Seen(e))
  <1> DEFINE s == BookOf(Append(j, e))
             t == Append(BookOf(j), Seen(e))
  <1>1. /\ Append(j, e) \in Seq(Entry) /\ Len(Append(j, e)) = Len(j) + 1
        /\ DOMAIN Append(j, e) = 1..Len(j) + 1
    OBVIOUS
  <1>2. Seen(e) \in BookEntry
    BY DEF Seen, BookEntry, Entry
  <1>3. /\ s \in Seq(BookEntry) /\ Len(s) = Len(j) + 1
        /\ \A i \in 1..Len(j) + 1 : s[i] = Seen(Append(j, e)[i])
    <2> DEFINE a == Append(j, e)
    <2>1. /\ a \in Seq(Entry) /\ Len(a) = Len(j) + 1 /\ DOMAIN a = 1..Len(j) + 1
      BY <1>1
    <2> HIDE DEF a
    <2>2. /\ BookOf(a) \in Seq(BookEntry) /\ Len(BookOf(a)) = Len(a)
          /\ \A i \in DOMAIN a : BookOf(a)[i] = Seen(a[i])
      BY <2>1, BookShape
    <2> QED
      BY <2>1, <2>2 DEF a
  <1>4. /\ t \in Seq(BookEntry) /\ Len(t) = Len(j) + 1
        /\ \A i \in 1..Len(j) : t[i] = Seen(j[i])
        /\ t[Len(j) + 1] = Seen(e)
    BY <1>2, BookShape, AppendProperties
  <1>5. \A i \in 1..Len(j) + 1 : s[i] = t[i]
    BY <1>3, <1>4
  <1> HIDE DEF s, t
  <1>6. s = t
    BY <1>3, <1>4, <1>5, SeqEqual
  <1> QED
    BY <1>6 DEF s, t

\* A status changed in the journal is changed in the book.
LEMMA BookStatus ==
  ASSUME NEW j \in Seq(Entry), NEW i \in DOMAIN j, NEW st \in Status
  PROVE  BookOf([j EXCEPT ![i].status = st]) = [BookOf(j) EXCEPT ![i].status = st]
  <1>1. \A k \in DOMAIN j : j[k] \in Entry
    OBVIOUS
  <1>2. /\ DOMAIN [j EXCEPT ![i].status = st] = DOMAIN j
        /\ \A k \in DOMAIN j : [j EXCEPT ![i].status = st][k]
                                = IF k = i THEN [j[i] EXCEPT !.status = st] ELSE j[k]
    OBVIOUS
  <1>3. Seen([j[i] EXCEPT !.status = st]) = [Seen(j[i]) EXCEPT !.status = st]
    <2> DEFINE f == [j[i] EXCEPT !.status = st]
               b == [period |-> j[i].period, status |-> st, lines |-> j[i].lines,
                     reverses |-> j[i].reverses]
    <2>1. /\ f.period = j[i].period /\ f.status = st
          /\ f.lines = j[i].lines /\ f.reverses = j[i].reverses
      BY <1>1 DEF Entry
    <2>2. [Seen(j[i]) EXCEPT !.status = st] = b
      BY DEF Seen
    <2> HIDE DEF f
    <2>3. Seen(f) = b
      BY <2>1 DEF Seen
    <2> QED
      BY <2>2, <2>3 DEF f
  <1> QED
    BY <1>2, <1>3 DEF BookOf

LEMMA EffectRefines ==
  ASSUME TypeOK, Effect
  PROVE  L!Next \/ BookOf(je') = BookOf(je)
  <1> DEFINE book == BookOf(je)
  <1>0. /\ je \in Seq(Entry) /\ \A i \in DOMAIN je : je[i] \in Entry
        /\ DOMAIN book = DOMAIN je /\ \A i \in DOMAIN je : book[i] = Seen(je[i])
    BY BookShape DEF TypeOK
  <1>1. CASE UNCHANGED je
    BY <1>1
  <1>2. CASE Inserts
    <2>1. PICK e \in Entry : /\ je' = Append(je, e)
                            /\ e.status \in {"draft", "posted"}
                            /\ e.lines \in Submission
                            /\ e.reverses = 0
      BY <1>2 DEF Inserts
    <2>2. BookOf(je') = Append(book, Seen(e))
      BY <1>0, <2>1, BookAppend
    <2>3. Seen(e) = L!Fresh(e.period, e.status, e.lines, 0) /\ e.period \in Period
      BY <2>1 DEF Seen, L!Fresh, Entry
    <2>4. CASE e.status = "draft"
      <3>1. BookOf(je') = Append(book, L!Fresh(e.period, "draft", e.lines, 0))
        BY <2>2, <2>3, <2>4
      <3> QED
        BY <2>1, <2>3, <3>1 DEF L!Next, L!Draft, BookOf, Seen
    <2>5. CASE e.status = "posted"
      <3>1. BookOf(je') = Append(book, L!Fresh(e.period, "posted", e.lines, 0))
        BY <2>2, <2>3, <2>5
      <3> QED
        BY <2>1, <2>3, <3>1 DEF L!Next, L!PostDirectly, BookOf, Seen
    <2> QED
      BY <2>1, <2>4, <2>5
  <1>3. CASE Posts
    <2>1. PICK i \in DOMAIN je : /\ je[i].status = "draft"
                                /\ je' = [je EXCEPT ![i].status = "posted"]
      BY <1>3 DEF Posts
    <2>2. BookOf(je') = [book EXCEPT ![i].status = "posted"]
      BY <1>0, <2>1, BookStatus DEF Status
    <2>3. i \in DOMAIN book /\ book[i].status = "draft"
      BY <1>0, <2>1 DEF Seen
    <2>4. L!Post(i)
      BY <2>2, <2>3 DEF L!Post, BookOf, Seen
    <2> QED
      BY <2>3, <2>4 DEF L!Next, BookOf, Seen
  <1>4. CASE Voids
    <2>1. PICK i \in DOMAIN je, e \in Entry :
            /\ je[i].status = "posted"
            /\ je' = Append([je EXCEPT ![i].status = "voided"], e)
            /\ e.period = je[i].period
            /\ e.status = "posted"
            /\ e.lines = Swapped(je[i].lines)
            /\ e.reverses = i
      BY <1>4 DEF Voids
    <2> DEFINE mid == [je EXCEPT ![i].status = "voided"]
    <2>2. mid \in Seq(Entry) /\ BookOf(mid) = [book EXCEPT ![i].status = "voided"]
      BY <1>0, <2>1, StatusShape, BookStatus DEF Status
    <2>3. BookOf(Append(mid, e)) = Append(BookOf(mid), Seen(e))
      BY <2>2, BookAppend
    <2>4. BookOf(je') = Append([book EXCEPT ![i].status = "voided"], Seen(e))
      BY <2>1, <2>2, <2>3
    <2>5. /\ i \in DOMAIN book /\ book[i].status = "posted"
          /\ book[i].period = je[i].period /\ book[i].lines = je[i].lines
      BY <1>0, <2>1 DEF Seen
    <2>6. Seen(e) = L!Fresh(book[i].period, "posted", L!Swapped(book[i].lines), i)
      BY <2>1, <2>5 DEF Seen, L!Fresh, L!Swapped, Swapped
    <2>7. L!Reverse(i)
      BY <2>4, <2>5, <2>6 DEF L!Reverse, BookOf, Seen
    <2> QED
      BY <2>5, <2>7 DEF L!Next, BookOf, Seen
  <1> QED
    BY <1>1, <1>2, <1>3, <1>4 DEF Effect

\* The journal, under any interleaving of its requests, implements the ledger.
THEOREM Refinement == Spec => ImplementsLedger
  <1>1. Init => L!Init
    BY DEF Init, L!Init
  <1>2. IInv /\ [Next]_vars =>
          [L!Next]_[i \in DOMAIN je |->
                     [period |-> je[i].period, status |-> je[i].status,
                      lines |-> je[i].lines, reverses |-> je[i].reverses]]
    <2> SUFFICES ASSUME IInv, [Next]_vars
                 PROVE  L!Next \/ BookOf(je') = BookOf(je)
      BY DEF BookOf, Seen
    <2>1. Effect
      BY NextEffect
    <2> QED
      BY <2>1, EffectRefines DEF IInv
  <1> QED
    BY <1>1, <1>2, Invariance, PTL DEF Spec, ImplementsLedger, L!Spec

-----------------------------------------------------------------------------
(* The checks of the fiscal period and of the lock date: what a request    *)
(* has seen.                                                               *)

\* The operations of JournalService.
Guarded == {"create", "post", "void"}

\* What a request in flight has seen includes what holds now, and what its
\* own checks have found.
SeenGood(t, s) ==
  t.pc # "idle" =>
    /\ OpenPeriods \subseteq s.open
    /\ Unlocked(lock_date) \subseteq s.unlocked
    /\ t.op \in Guarded /\ t.pc \in {"lock", "number", "commit"}
         => t.period \in s.open
    /\ t.op \in Guarded /\ t.pc \in {"number", "commit"}
         => t.period \in s.unlocked
    /\ t.op = "lock" /\ t.pc = "commit" /\ t.date # NoLock
         => Unlocked(t.date) \subseteq s.unlocked

SeenOK == \A r \in Req : SeenGood(txn[r], seen[r])

-----------------------------------------------------------------------------
(* The steps.                                                              *)

\* A later lock date frees no more than an earlier one.
LEMMA LaterLocksMore ==
  ASSUME NEW d \in LockDate, NEW e \in LockDate, d >= e
  PROVE  Unlocked(d) \subseteq Unlocked(e)
  <1>1. d \in Nat /\ e \in Nat /\ d # NoLock
    BY JournalAssumption
  <1>2. ASSUME NEW p \in Period, PeriodEnd[p] > d PROVE PeriodEnd[p] > e
    <2>1. PeriodEnd[p] \in Nat
      BY JournalAssumption
    <2> QED
      BY <1>1, <1>2, <2>1
  <1> QED
    BY <1>1, <1>2 DEF Unlocked

\* A request starts having seen what holds, and having checked nothing.
LEMMA StartSeen ==
  ASSUME TypeOK, SeenOK, NEW q \in Req, Start(q)
  PROVE  SeenOK'
  <1> DEFINE Fresh(t) == \/ t.pc \in {"period", "entry"}
                         \/ t.op \notin Guarded /\ t.pc \in {"number", "lock"}
  <1>1. ASSUME NEW op, NEW req, Begin(q, op, req), Fresh([req EXCEPT !.op = op])
        PROVE  SeenOK'
    <2> DEFINE t == [req EXCEPT !.op = op]
    <2>1. /\ txn' = [txn EXCEPT ![q] = t]
          /\ seen' = [seen EXCEPT ![q] = [open |-> OpenPeriods,
                                          unlocked |-> Unlocked(lock_date)]]
          /\ UNCHANGED <<period_status, lock_date>>
      BY <1>1 DEF Begin
    <2>2. OpenPeriods' = OpenPeriods /\ Unlocked(lock_date)' = Unlocked(lock_date)
      BY <2>1 DEF OpenPeriods, Unlocked
    <2>3. Fresh(t)
      BY <1>1
    <2>4. /\ txn'[q] = t
          /\ seen'[q] = [open |-> OpenPeriods', unlocked |-> Unlocked(lock_date)']
      BY <2>1, <2>2 DEF TypeOK
    <2> HIDE DEF t
    <2>5. SeenGood(txn[q], seen[q])'
      <3>1. /\ OpenPeriods' \subseteq seen'[q].open
            /\ Unlocked(lock_date)' \subseteq seen'[q].unlocked
        BY <2>4
      <3>2. ~(t.op \in Guarded /\ t.pc \in {"lock", "number", "commit"})
        BY <2>3 DEF Guarded
      <3>3. t.pc # "commit"
        BY <2>3
      <3> QED
        BY <2>4, <3>1, <3>2, <3>3 DEF SeenGood
    <2>6. ASSUME NEW r \in Req, r # q PROVE SeenGood(txn[r], seen[r])'
      <3>1. txn'[r] = txn[r] /\ seen'[r] = seen[r] /\ SeenGood(txn[r], seen[r])
        BY <2>1, <2>6 DEF SeenOK, TypeOK
      <3> QED
        BY <2>1, <2>2, <3>1 DEF SeenGood, Unlocked
    <2> QED
      BY <2>5, <2>6 DEF SeenOK
  <1>2. ASSUME NEW op \in Ops, BeginEntry(q, op) PROVE SeenOK'
    BY <1>1, <1>2 DEF BeginEntry, Idle
  <1>3. ASSUME NEW op \in Ops, BeginOnEntry(q, op) PROVE SeenOK'
    BY <1>1, <1>3 DEF BeginOnEntry, Idle
  <1>4. CASE BeginAsset(q)
    BY <1>1, <1>4 DEF BeginAsset, Idle, Guarded
  <1>5. CASE BeginLock(q)
    BY <1>1, <1>5 DEF BeginLock, Idle, Guarded
  <1> QED
    BY <1>2, <1>3, <1>4, <1>5 DEF Start

\* A read adds what its check has just found.
LEMMA ReadSeen ==
  ASSUME IInv, SeenOK, NEW q \in Req, Read(q)
  PROVE  SeenOK'
  <1> DEFINE t == txn[q]
  <1>0. TypeOK /\ TxnOK /\ t \in Txn /\ SeenGood(t, seen[q]) /\ TxnGood(t)
    BY DEF IInv, TypeOK, SeenOK, TxnOK
  <1>1. ASSUME NEW u, Advance(q, u), SeenGood(u, seen[q]) PROVE SeenOK'
    <2>1. UNCHANGED <<period_status, lock_date, seen>> /\ txn' = [txn EXCEPT ![q] = u]
      BY <1>1 DEF Advance
    <2>2. OpenPeriods' = OpenPeriods
      BY <2>1 DEF OpenPeriods
    <2>3. ASSUME NEW r \in Req PROVE SeenGood(txn[r], seen[r])'
      <3>1. SeenGood(txn'[r], seen[r])
        BY <1>0, <1>1, <2>1 DEF SeenOK, TypeOK
      <3> QED
        BY <2>1, <2>2, <3>1 DEF SeenGood, Unlocked
    <2> QED
      BY <2>3 DEF SeenOK
  <1>2. CASE ReadEntry(q)
    <2> DEFINE u == [t EXCEPT !.period = je[t.id].period, !.lines = je[t.id].lines,
                              !.pc = IF t.op = "subvoid" THEN "number" ELSE "period"]
    <2>1. Advance(q, u) /\ t.pc = "entry"
      BY <1>2 DEF ReadEntry
    <2>2. u.op = t.op /\ u.pc = (IF t.op = "subvoid" THEN "number" ELSE "period")
      BY <1>0 DEF Txn
    <2> HIDE DEF u
    <2>3. SeenGood(u, seen[q])
      BY <1>0, <2>1, <2>2 DEF SeenGood, Guarded
    <2> QED
      BY <1>1, <2>1, <2>3
  <1>3. CASE ReadPeriod(q)
    <2> DEFINE u == [t EXCEPT !.pc = IF t.op = "subpost" THEN "number" ELSE "lock"]
    <2>1. Advance(q, u) /\ t.pc = "period" /\ period_status[t.period] = "open"
      BY <1>3 DEF ReadPeriod
    <2>2. /\ u.op = t.op /\ u.period = t.period
          /\ u.pc = (IF t.op = "subpost" THEN "number" ELSE "lock")
      BY <1>0 DEF Txn
    <2>3. t.period \in Period
      <3>1. CASE t.op \in {"create", "subpost"}
        BY <1>0, <3>1 DEF TxnGood
      <3>2. CASE t.op \in {"post", "void"}
        <4>1. t.id \in DOMAIN je /\ t.period = je[t.id].period
          BY <1>0, <2>1, <3>2 DEF TxnGood
        <4>2. je[t.id] \in Entry
          BY <1>0, <4>1 DEF TypeOK
        <4> QED
          BY <4>1, <4>2 DEF Entry
      <3> QED
        BY <1>0, <2>1, <3>1, <3>2 DEF TxnGood
    <2> HIDE DEF u
    <2>4. t.period \in OpenPeriods
      BY <2>1, <2>3 DEF OpenPeriods
    <2>5. SeenGood(u, seen[q])
      BY <1>0, <2>1, <2>2, <2>4 DEF SeenGood, Guarded
    <2> QED
      BY <1>1, <2>1, <2>5
  <1>4. CASE CheckLockDate(q)
    <2> DEFINE u == [t EXCEPT !.pc = IF t.op = "post" THEN "commit" ELSE "number"]
    <2>1. Advance(q, u) /\ t.pc = "lock" /\ t.op # "lock" /\ t.period \in Unlocked(lock_date)
      BY <1>4 DEF CheckLockDate
    <2>2. /\ u.op = t.op /\ u.period = t.period
          /\ u.pc = (IF t.op = "post" THEN "commit" ELSE "number")
      BY <1>0 DEF Txn
    <2> HIDE DEF u
    <2>3. SeenGood(u, seen[q])
      BY <1>0, <2>1, <2>2 DEF SeenGood, Guarded
    <2> QED
      BY <1>1, <2>1, <2>3
  <1>5. CASE ReadLockDate(q)
    <2> DEFINE u == [t EXCEPT !.pc = "commit"]
    <2>1. /\ Advance(q, u) /\ t.pc = "lock" /\ t.op = "lock"
          /\ (lock_date # NoLock /\ t.date # NoLock) => t.date >= lock_date
      BY <1>5 DEF ReadLockDate
    <2>2. u.op = t.op /\ u.date = t.date /\ u.pc = "commit"
      BY <1>0 DEF Txn
    <2> HIDE DEF u
    <2>3. t.date # NoLock => Unlocked(t.date) \subseteq Unlocked(lock_date)
      <3>1. CASE lock_date = NoLock
        BY <3>1 DEF Unlocked
      <3>2. CASE lock_date # NoLock /\ t.date # NoLock
        <4>1. lock_date \in LockDate /\ t.date \in LockDate /\ t.date >= lock_date
          BY <1>0, <2>1, <3>2 DEF TypeOK, Txn
        <4> QED
          BY <4>1, LaterLocksMore
      <3> QED
        BY <3>1, <3>2
    <2>4. SeenGood(u, seen[q])
      BY <1>0, <2>1, <2>2, <2>3 DEF SeenGood, Guarded
    <2> QED
      BY <1>1, <2>1, <2>4
  <1>6. CASE ReadNumber(q)
    <2> DEFINE u == [t EXCEPT !.num = MaxNumber(t.period) + 1, !.pc = "commit"]
    <2>1. Advance(q, u) /\ t.pc = "number"
      BY <1>6 DEF ReadNumber
    <2>2. u.op = t.op /\ u.period = t.period /\ u.pc = "commit" /\ t.op # "lock"
      BY <1>0, <2>1 DEF Txn, TxnGood
    <2> HIDE DEF u
    <2>3. SeenGood(u, seen[q])
      BY <1>0, <2>1, <2>2 DEF SeenGood, Guarded
    <2> QED
      BY <1>1, <2>1, <2>3
  <1>7. CASE ReadLastNumber(q)
    <2> DEFINE u == [t EXCEPT !.num = IF je = <<>> THEN 1 ELSE je[Len(je)].number + 1,
                              !.pc = "pick"]
    <2>1. Advance(q, u) /\ t.pc = "number"
      BY <1>7 DEF ReadLastNumber
    <2>2. u.op = t.op /\ u.period = t.period /\ u.pc = "pick"
      BY <1>0 DEF Txn
    <2> HIDE DEF u
    <2>3. SeenGood(u, seen[q])
      BY <1>0, <2>1, <2>2 DEF SeenGood, Guarded
    <2> QED
      BY <1>1, <2>1, <2>3
  <1>8. CASE PickOpenPeriod(q)
    <2>1. PICK p \in OpenPeriods : Advance(q, [t EXCEPT !.period = p, !.pc = "commit"])
      BY <1>8 DEF PickOpenPeriod
    <2> DEFINE u == [t EXCEPT !.period = p, !.pc = "commit"]
    <2>2. t.op = "asset" /\ t.pc = "pick"
      BY <1>0, <1>8 DEF PickOpenPeriod, TxnGood
    <2>3. u.op = t.op /\ u.pc = "commit"
      BY <1>0 DEF Txn
    <2>4. Advance(q, u)
      BY <2>1
    <2> HIDE DEF u
    <2>5. SeenGood(u, seen[q])
      BY <1>0, <2>2, <2>3 DEF SeenGood, Guarded
    <2> QED
      BY <1>1, <2>4, <2>5
  <1> QED
    BY <1>2, <1>3, <1>4, <1>5, <1>6, <1>7, <1>8 DEF Read

\* A request that ends, and leaves the lock date alone, disturbs no other.
LEMMA FinishSeen ==
  ASSUME TypeOK, SeenOK, NEW q \in Req, Finish(q), UNCHANGED <<period_status, lock_date>>
  PROVE  SeenOK'
  <1>1. OpenPeriods' = OpenPeriods
    BY DEF OpenPeriods
  <1>2. ASSUME NEW r \in Req PROVE SeenGood(txn[r], seen[r])'
    <2>1. CASE r = q
      <3>1. txn'[r].pc = "idle"
        BY <2>1 DEF Finish, Idle, TypeOK
      <3> QED
        BY <3>1 DEF SeenGood
    <2>2. CASE r # q
      <3>1. txn'[r] = txn[r] /\ seen'[r] = seen[r] /\ SeenGood(txn[r], seen[r])
        BY <2>2 DEF Finish, TypeOK, SeenOK
      <3> QED
        BY <1>1, <3>1 DEF SeenGood, Unlocked
    <2> QED
      BY <2>1, <2>2
  <1> QED
    BY <1>2 DEF SeenOK

\* A new lock date is recorded by every request in flight.
LEMMA LockSeen ==
  ASSUME TypeOK, SeenOK, NEW q \in Req, CommitLock(q)
  PROVE  SeenOK'
  <1> DEFINE d == txn[q].date
  <1>1. lock_date' = d /\ period_status' = period_status
    BY DEF CommitLock
  <1>2. OpenPeriods' = OpenPeriods
    BY <1>1 DEF OpenPeriods
  <1>3. ASSUME NEW r \in Req PROVE SeenGood(txn[r], seen[r])'
    <2>1. CASE r = q
      <3>1. txn'[r].pc = "idle"
        BY <2>1 DEF CommitLock, Idle, TypeOK
      <3> QED
        BY <3>1 DEF SeenGood
    <2>2. CASE r # q /\ txn[r].pc = "idle"
      <3>1. txn'[r].pc = "idle"
        BY <2>2 DEF CommitLock, TypeOK
      <3> QED
        BY <3>1 DEF SeenGood
    <2>3. CASE r # q /\ txn[r].pc # "idle"
      <3>1. /\ txn'[r] = txn[r]
            /\ seen'[r] = [seen[r] EXCEPT !.unlocked = @ \cup Unlocked(d)]
        BY <2>3 DEF CommitLock, TypeOK
      <3>2. seen[r] \in [open: SUBSET Period, unlocked: SUBSET Period]
        BY DEF TypeOK
      <3>3. seen'[r].open = seen[r].open
              /\ seen'[r].unlocked = seen[r].unlocked \cup Unlocked(d)
        BY <3>1, <3>2
      <3>4. SeenGood(txn[r], seen[r])
        BY DEF SeenOK
      <3>5. \A e : Unlocked(e)' = Unlocked(e)
        BY DEF Unlocked
      <3> QED
        BY <1>1, <1>2, <2>3, <3>1, <3>3, <3>4, <3>5 DEF SeenGood
    <2> QED
      BY <2>1, <2>2, <2>3
  <1> QED
    BY <1>3 DEF SeenOK

\* A period that opens is recorded by every request in flight; one that closes
\* leaves less to have been seen.
LEMMA PeriodSeen ==
  ASSUME TypeOK, SeenOK, NEW p \in Period, ClosePeriod(p) \/ OpenPeriod(p)
  PROVE  SeenOK'
  <1>1. lock_date' = lock_date /\ txn' = txn
    BY DEF ClosePeriod, OpenPeriod
  <1>2. CASE ClosePeriod(p)
    <2>1. seen' = seen /\ OpenPeriods' \subseteq OpenPeriods
      BY <1>2 DEF ClosePeriod, OpenPeriods, TypeOK
    <2>2. ASSUME NEW r \in Req PROVE SeenGood(txn[r], seen[r])'
      <3>1. SeenGood(txn[r], seen[r])
        BY DEF SeenOK
      <3> QED
        BY <1>1, <2>1, <3>1 DEF SeenGood, Unlocked
    <2> QED
      BY <2>2 DEF SeenOK
  <1>3. CASE OpenPeriod(p)
    <2>1. OpenPeriods' \subseteq OpenPeriods \cup {p}
      BY <1>3 DEF OpenPeriod, OpenPeriods, TypeOK
    <2>2. ASSUME NEW r \in Req PROVE SeenGood(txn[r], seen[r])'
      <3>1. CASE txn[r].pc = "idle"
        BY <1>1, <3>1 DEF SeenGood
      <3>2. CASE txn[r].pc # "idle"
        <4>1. seen[r] \in [open: SUBSET Period, unlocked: SUBSET Period]
          BY DEF TypeOK
        <4>2. seen'[r] = [seen[r] EXCEPT !.open = @ \cup {p}]
          BY <1>3, <3>2 DEF OpenPeriod
        <4>3. seen'[r].open = seen[r].open \cup {p} /\ seen'[r].unlocked = seen[r].unlocked
          BY <4>1, <4>2
        <4>4. SeenGood(txn[r], seen[r])
          BY DEF SeenOK
        <4> QED
          BY <1>1, <2>1, <3>2, <4>3, <4>4 DEF SeenGood, Unlocked
      <3> QED
        BY <3>1, <3>2
    <2> QED
      BY <2>2 DEF SeenOK
  <1> QED
    BY <1>2, <1>3

LEMMA SeenStep == IInv /\ SeenOK /\ [Next]_vars => SeenOK'
  <1> SUFFICES ASSUME IInv, SeenOK, [Next]_vars PROVE SeenOK'
    OBVIOUS
  <1>0. TypeOK
    BY DEF IInv
  <1>1. ASSUME NEW q \in Req, Start(q) PROVE SeenOK'
    BY <1>0, <1>1, StartSeen
  <1>2. ASSUME NEW q \in Req, Read(q) PROVE SeenOK'
    BY <1>2, ReadSeen
  <1>3. ASSUME NEW q \in Req, CommitInsert(q) \/ CommitPost(q) \/ CommitVoid(q)
        PROVE  SeenOK'
    BY <1>0, <1>3, FinishSeen DEF CommitInsert, CommitPost, CommitVoid
  <1>4. ASSUME NEW q \in Req, CommitLock(q) PROVE SeenOK'
    BY <1>0, <1>4, LockSeen
  <1>5. ASSUME NEW q \in Req, Rollback(q) PROVE SeenOK'
    BY <1>0, <1>5, FinishSeen DEF Rollback
  <1>6. ASSUME NEW p \in Period, ClosePeriod(p) \/ OpenPeriod(p) PROVE SeenOK'
    BY <1>0, <1>6, PeriodSeen
  <1>7. CASE UNCHANGED vars
    BY <1>7 DEF vars, SeenOK, SeenGood, OpenPeriods, Unlocked
  <1> QED
    BY <1>1, <1>2, <1>3, <1>4, <1>5, <1>6, <1>7 DEF Next, Commit

LEMMA InitSeen == Init => SeenOK
  BY DEF Init, SeenOK, SeenGood, Idle

LEMMA SeenInvariance == Spec => [](IInv /\ SeenOK)
  <1>1. IInv /\ SeenOK /\ [Next]_vars => (IInv /\ SeenOK)'
    BY IInvStep, SeenStep
  <1> QED
    BY InitIInv, InitSeen, <1>1, PTL DEF Spec

-----------------------------------------------------------------------------
(* The theorems.                                                           *)

\* Only the commit of the request that ends changes the journal.
LEMMA JournalChange ==
  ASSUME IInv, [Next]_vars, je' # je, NEW r \in Req,
         txn[r].op \in Guarded, txn'[r] = Idle
  PROVE  txn[r].pc = "commit"
  <1>0. TypeOK /\ txn[r] # Idle
    BY DEF IInv, Idle, Guarded
  <1>1. PICK q \in Req : CommitInsert(q) \/ CommitPost(q) \/ CommitVoid(q)
    <2>1. ASSUME NEW q \in Req, Start(q) PROVE FALSE
      BY <2>1 DEF Start, BeginEntry, BeginOnEntry, BeginAsset, BeginLock, Begin
    <2>2. ASSUME NEW q \in Req, Read(q) PROVE FALSE
      BY <2>2 DEF Read, ReadEntry, ReadPeriod, CheckLockDate, ReadLockDate,
                  ReadNumber, ReadLastNumber, PickOpenPeriod, Advance
    <2>3. ASSUME NEW q \in Req, CommitLock(q) \/ Rollback(q) PROVE FALSE
      BY <2>3 DEF CommitLock, Rollback
    <2>4. ASSUME NEW p \in Period, ClosePeriod(p) \/ OpenPeriod(p) PROVE FALSE
      BY <2>4 DEF ClosePeriod, OpenPeriod
    <2> QED
      BY <2>1, <2>2, <2>3, <2>4 DEF Next, Commit, vars
  <1>2. txn' = [txn EXCEPT ![q] = Idle] /\ txn[q].pc = "commit"
    BY <1>1 DEF CommitInsert, CommitPost, CommitVoid, Finish
  <1>3. q = r
    BY <1>0, <1>2 DEF TypeOK
  <1> QED
    BY <1>2, <1>3

\* JournalService's checks under concurrency: whatever closes, opens and locks
\* periods meanwhile, a create, post or void that commits concerns a period
\* that was open and was unlocked at moments of its own transaction.
THEOREM ChecksHeld == Spec => ChecksHeldDuringTransaction
  <1>1. ASSUME IInv, SeenOK, [Next]_vars, NEW r \in Req,
               txn[r].op \in Guarded, txn'[r] = Idle, je' # je
        PROVE  txn[r].period \in seen[r].open \cap seen[r].unlocked
    <2>1. txn[r].pc = "commit"
      BY <1>1, JournalChange
    <2>2. SeenGood(txn[r], seen[r])
      BY <1>1 DEF SeenOK
    <2> QED
      BY <1>1, <2>1, <2>2 DEF SeenGood
  <1>2. IInv /\ SeenOK /\ [Next]_vars =>
          [\A r \in Req :
             txn[r].op \in {"create", "post", "void"} /\ txn'[r] = Idle /\ je' # je
               => txn[r].period \in seen[r].open \cap seen[r].unlocked]_vars
    BY <1>1 DEF Guarded
  <1> QED
    BY SeenInvariance, <1>2, PTL DEF Spec, ChecksHeldDuringTransaction

\* setLockDate's "only move forward" under concurrency: a new date frees only
\* periods that were free at some moment of the request that sets it.
THEOREM LockForward == Spec => LockNeverFreesLocked
  <1>1. ASSUME IInv, SeenOK, [Next]_vars, lock_date' \notin {lock_date, NoLock}
        PROVE  \E r \in Req : /\ txn[r].op = "lock" /\ txn'[r] = Idle
                              /\ Unlocked(lock_date') \subseteq seen[r].unlocked
    <2>1. PICK q \in Req : CommitLock(q)
      <3>1. ASSUME NEW q \in Req, Start(q) PROVE FALSE
        BY <1>1, <3>1 DEF Start, BeginEntry, BeginOnEntry, BeginAsset, BeginLock, Begin
      <3>2. ASSUME NEW q \in Req, Read(q) PROVE FALSE
        BY <1>1, <3>2 DEF Read, ReadEntry, ReadPeriod, CheckLockDate, ReadLockDate,
                          ReadNumber, ReadLastNumber, PickOpenPeriod, Advance
      <3>3. ASSUME NEW q \in Req,
                   CommitInsert(q) \/ CommitPost(q) \/ CommitVoid(q) \/ Rollback(q)
            PROVE  FALSE
        BY <1>1, <3>3 DEF CommitInsert, CommitPost, CommitVoid, Rollback
      <3>4. ASSUME NEW p \in Period, ClosePeriod(p) \/ OpenPeriod(p) PROVE FALSE
        BY <1>1, <3>4 DEF ClosePeriod, OpenPeriod
      <3> QED
        BY <1>1, <3>1, <3>2, <3>3, <3>4 DEF Next, Commit, vars
    <2>2. txn[q].pc = "commit" /\ txn[q].op = "lock" /\ lock_date' = txn[q].date
      BY <2>1 DEF CommitLock
    <2>3. txn'[q] = Idle
      BY <1>1, <2>1 DEF CommitLock, IInv, TypeOK
    <2>4. SeenGood(txn[q], seen[q])
      BY <1>1 DEF SeenOK
    <2>5. Unlocked(lock_date') \subseteq seen[q].unlocked
      BY <1>1, <2>2, <2>4 DEF SeenGood
    <2> QED
      BY <2>2, <2>3, <2>5
  <1>2. IInv /\ SeenOK /\ [Next]_vars =>
          [lock_date' \notin {lock_date, NoLock} =>
             \E r \in Req : /\ txn[r].op = "lock" /\ txn'[r] = Idle
                            /\ Unlocked(lock_date') \subseteq seen[r].unlocked]_vars
    BY <1>1
  <1> QED
    BY SeenInvariance, <1>2, PTL DEF Spec, LockNeverFreesLocked
=============================================================================
