-------------------------- MODULE OperationsLemmas --------------------------
(***************************************************************************)
(* Four of the components that Operations puts beside each other, for      *)
(* every value of their parameters: the seats of a plan (Members), the     *)
(* time of projects (Projects), job costs (JobCosting) and deals (Crm).    *)
(*                                                                         *)
(* A section per component, each about its instance, for a case c if it    *)
(* has cases, with an inductive invariant of its own (MemberIInv, TimeIInv,*)
(* JobIInv, DealIInv): a lemma per action, one for the initial states      *)
(* (...InitIInv) and one for every step (...NextStep), and what follows    *)
(* from the invariant.                                                     *)
(***************************************************************************)
EXTENDS Operations, SetLemmas, SequenceTheorems, FunctionTheorems

-----------------------------------------------------------------------------
(* Cardinality, as the instance of Members has it.                         *)

LEMMA MemberCardinality ==
  ASSUME NEW c, NEW S
  PROVE  Members(c)!Cardinality(S) = Cardinality(S)
  BY Zenon DEF Members!Cardinality, Cardinality

LEMMA MemberFinite ==
  ASSUME NEW c, NEW S
  PROVE  Members(c)!IsFiniteSet(S) <=> IsFiniteSet(S)
  BY Zenon DEF Members!IsFiniteSet, IsFiniteSet

LEMMA MemberSeatsAre ==
  ASSUME NEW c
  PROVE  /\ Members(c)!Seats = Cardinality(Members(c)!Active) + Cardinality(Members(c)!Pending)
         /\ Members(c)!Seats' = Cardinality(Members(c)!Active') + Cardinality(Members(c)!Pending')
  BY MemberCardinality DEF Members!Seats

LEMMA MemberTaken ==
  ASSUME NEW c
  PROVE  /\ Members(c)!Taken("invite") = Members(c)!Seats
         /\ Members(c)!Taken("create") = Cardinality(Members(c)!Active)
  BY MemberCardinality DEF Members!Taken

-----------------------------------------------------------------------------
(* The seats of a plan.  The inductive invariant.                          *)

\* A request that counts seats, and one that changes the plan.
MemberCounting(c)  == [op: {"invite", "create"}, user: MembersCase[c].users,
                       at: {"fill", "check", "insert"}, limit: Nat, outdated: BOOLEAN]
MemberAssigning(c) == [op: {"assign"}, limit: MembersCase[c].limits, at: {"invalidate", "commit"}]

MemberTxnOK(c) ==
  txn \in [MembersCase[c].req -> {Members(c)!Idle} \cup MemberCounting(c) \cup MemberAssigning(c)]

\* Whoever is about to insert, and was not outdated by another since it counted,
\* would count the same now.
MemberCountsRight(c, t) ==
  t \in MemberCounting(c) /\ t.at = "insert" /\ ~t.outdated =>
    /\ Members(c)!Taken(t.op) < t.limit
    /\ t.op = "invite" => \A i \in Members(c)!Pending : invitations[i].user # t.user

MemberCountedOK(c) == \A r \in MembersCase[c].req : MemberCountsRight(c, txn[r])

MemberCacheOK(c) == cache \in [limit: Nat, until: Int]

MemberIInv(c) == /\ Members(c)!TypeOK /\ MemberTxnOK(c) /\ MemberCacheOK(c)
                 /\ MemberCountedOK(c) /\ Members(c)!SeatsWithinPlan

-----------------------------------------------------------------------------
(* Counting.                                                               *)

LEMMA MemberSeatsType ==
  ASSUME NEW c, Members(c)!MembersAssumption, Members(c)!TypeOK
  PROVE  /\ IsFiniteSet(Members(c)!Active) /\ Cardinality(Members(c)!Active) \in Nat
         /\ IsFiniteSet(Members(c)!Pending) /\ Cardinality(Members(c)!Pending) \in Nat
         /\ Members(c)!Seats \in Nat
  <1>1. IsFiniteSet(Members(c)!Active)
    BY FS_Subset, MemberFinite DEF Members!Active, Members!MembersAssumption
  <1>2. Len(invitations) \in Nat /\ DOMAIN invitations = 1..Len(invitations)
    BY LenProperties DEF Members!TypeOK
  <1>3. IsFiniteSet(1..Len(invitations))
    BY <1>2, FS_Interval
  <1>4. Members(c)!Pending \in SUBSET (1..Len(invitations))
    BY <1>2 DEF Members!Pending
  <1>5. IsFiniteSet(Members(c)!Pending)
    BY <1>3, <1>4, FS_Subset
  <1>6. Cardinality(Members(c)!Active) \in Nat /\ Cardinality(Members(c)!Pending) \in Nat
    BY <1>1, <1>5, FS_CardinalityType
  <1> QED
    BY <1>1, <1>5, <1>6, MemberSeatsAre

LEMMA MemberInvitationType ==
  ASSUME NEW c, MemberIInv(c), NEW i \in DOMAIN invitations
  PROVE  /\ i \in 1..Len(invitations) /\ invitations[i] \in Members(c)!Invitation
         /\ invitations[i].user \in MembersCase[c].users
  <1>1. i \in 1..Len(invitations)
    BY LenProperties DEF MemberIInv, Members!TypeOK
  <1>2. invitations[i] \in Members(c)!Invitation
    BY <1>1, ElementOfSeq DEF MemberIInv, Members!TypeOK
  <1> QED
    BY <1>1, <1>2 DEF Members!Invitation

\* Whoever writes, nobody who has counted before is up to date.
LEMMA MemberOutdateLeavesNone ==
  ASSUME NEW c, Members(c)!MembersAssumption, MemberTxnOK(c), NEW r, txn' = Members(c)!Outdate(r)
  PROVE  MemberTxnOK(c)' /\ MemberCountedOK(c)'
  <1>1. ASSUME NEW x \in MembersCase[c].req
        PROVE  /\ txn'[x] \in {Members(c)!Idle} \cup MemberCounting(c) \cup MemberAssigning(c)
               /\ txn'[x] \in MemberCounting(c) /\ txn'[x].at = "insert" => txn'[x].outdated
    <2>1. PICK t : t = txn[x]
      OBVIOUS
    <2>2. t \in {Members(c)!Idle} \cup MemberCounting(c) \cup MemberAssigning(c)
      BY <2>1 DEF MemberTxnOK
    <2>3. PICK u : u = [t EXCEPT !.outdated = TRUE]
      OBVIOUS
    <2>4. txn'[x] = IF x = r THEN Members(c)!Idle
                    ELSE IF t # Members(c)!Idle /\ t.at = "insert" THEN u ELSE t
      BY <2>1, <2>3 DEF Members!Outdate
    <2>5. CASE t \in MemberCounting(c)
      <3>1. u \in MemberCounting(c) /\ u.outdated
        BY <2>3, <2>5 DEF MemberCounting
      <3>2. Members(c)!Idle.op = "none" /\ t.op # "none" /\ u.op # "none"
        BY <2>5, <3>1 DEF Members!Idle, MemberCounting
      <3> QED
        BY <2>4, <2>5, <3>1, <3>2 DEF MemberCounting
    <2>6. CASE t \notin MemberCounting(c)
      <3>1. t = Members(c)!Idle \/ t.at # "insert"
        BY <2>2, <2>6 DEF MemberAssigning
      <3>2. Members(c)!Idle \notin MemberCounting(c)
        BY DEF Members!Idle, MemberCounting
      <3> QED
        BY <2>2, <2>4, <2>6, <3>1, <3>2
    <2> QED
      BY <2>5, <2>6
  <1>2. txn' = [x \in MembersCase[c].req |-> txn'[x]]
    BY DEF Members!Outdate
  <1>3. MemberCounting(c)' = MemberCounting(c) /\ MemberAssigning(c)' = MemberAssigning(c)
    BY DEF MemberCounting, MemberAssigning
  <1>4. MemberTxnOK(c)'
    BY <1>1, <1>2, <1>3 DEF MemberTxnOK
  <1>5. MemberCountedOK(c)'
    BY <1>1, <1>3 DEF MemberCountedOK, MemberCountsRight
  <1> QED
    BY <1>4, <1>5

\* What is no write to the seats or to the plan keeps what was counted.
LEMMA MemberLooking ==
  ASSUME NEW c, Members(c)!MembersAssumption, MemberIInv(c), UNCHANGED <<plan, member,
         invitations, excused>>
  PROVE  Members(c)!SeatsWithinPlan'
  BY DEF MemberIInv, Members!SeatsWithinPlan, Members!Seats, Members!Pending, Members!Active

LEMMA MemberRightStays ==
  ASSUME NEW c, UNCHANGED <<member, invitations>>
  PROVE  \A u : MemberCountsRight(c, u)' <=> MemberCountsRight(c, u)
  <1>1. \A op : Members(c)!Taken(op)' = Members(c)!Taken(op)
    BY DEF Members!Taken, Members!Seats, Members!Active, Members!Pending
  <1>2. Members(c)!Pending' = Members(c)!Pending
    BY DEF Members!Pending
  <1> QED
    BY <1>1, <1>2 DEF MemberCountsRight, MemberCounting

\* A slot goes on to t, which counts right, and the seats are as they were.
LEMMA MemberSlotTxn ==
  ASSUME NEW c, Members(c)!MembersAssumption, MemberIInv(c), NEW r \in MembersCase[c].req,
         NEW t \in {Members(c)!Idle} \cup MemberCounting(c) \cup MemberAssigning(c),
         txn' = [txn EXCEPT ![r] = t], UNCHANGED <<member, invitations>>, MemberCountsRight(c, t)
  PROVE  MemberTxnOK(c)' /\ MemberCountedOK(c)'
  <1>1. \A x \in MembersCase[c].req : txn'[x] = IF x = r THEN t ELSE txn[x]
    BY DEF MemberIInv, MemberTxnOK
  <1>2. MemberTxnOK(c)'
    BY DEF MemberIInv, MemberTxnOK, MemberCounting, MemberAssigning
  <1>3. \A u : MemberCountsRight(c, u)' <=> MemberCountsRight(c, u)
    BY MemberRightStays
  <1>4. MemberCountedOK(c)'
    <2> SUFFICES ASSUME NEW x \in MembersCase[c].req PROVE MemberCountsRight(c, txn[x])'
      BY DEF MemberCountedOK
    <2>1. PICK u : u = txn'[x]
      OBVIOUS
    <2>2. MemberCountsRight(c, u)
      BY <1>1, <2>1 DEF MemberIInv, MemberCountedOK
    <2>3. MemberCountsRight(c, u)'
      BY <1>3, <2>2
    <2> QED
      BY <2>1, <2>3 DEF MemberCountsRight
  <1> QED
    BY <1>2, <1>4

LEMMA MemberSlotStep ==
  ASSUME NEW c, Members(c)!MembersAssumption, MemberIInv(c), NEW r \in MembersCase[c].req,
         NEW t \in {Members(c)!Idle} \cup MemberCounting(c) \cup MemberAssigning(c),
         txn' = [txn EXCEPT ![r] = t], UNCHANGED <<plan, member, invitations, excused>>,
         MemberCountsRight(c, t)
  PROVE  MemberTxnOK(c)' /\ MemberCountedOK(c)' /\ Members(c)!SeatsWithinPlan'
  BY MemberSlotTxn, MemberLooking

LEMMA MemberTickStep ==
  ASSUME NEW c, Members(c)!MembersAssumption, MemberIInv(c), Members(c)!Tick
  PROVE  MemberIInv(c)'
  <1>1. /\ now' \in 0..MembersCase[c].time
        /\ UNCHANGED <<plan, cache, member, invitations, txn, excused>>
    BY DEF MemberIInv, Members!TypeOK, Members!Tick, Members!MembersAssumption
  <1>2. Members(c)!SeatsWithinPlan'
    BY <1>1, MemberLooking
  <1>3. \A u : MemberCountsRight(c, u)' <=> MemberCountsRight(c, u)
    BY <1>1, MemberRightStays
  <1>4. Members(c)!TypeOK' /\ MemberTxnOK(c)' /\ MemberCacheOK(c)'
    BY <1>1 DEF MemberIInv, Members!TypeOK, MemberTxnOK, MemberCacheOK, MemberCounting,
      MemberAssigning
  <1>5. MemberCountedOK(c)'
    <2> SUFFICES ASSUME NEW x \in MembersCase[c].req PROVE MemberCountsRight(c, txn[x])'
      BY DEF MemberCountedOK
    <2>1. PICK u : u = txn[x] /\ u = txn'[x]
      BY <1>1
    <2>2. MemberCountsRight(c, u)'
      BY <1>3, <2>1 DEF MemberIInv, MemberCountedOK
    <2> QED
      BY <2>1, <2>2 DEF MemberCountsRight
  <1> QED
    BY <1>2, <1>4, <1>5 DEF MemberIInv

LEMMA MemberLookupStep ==
  ASSUME NEW c, Members(c)!MembersAssumption, MemberIInv(c), NEW r \in MembersCase[c].req,
         NEW u \in MembersCase[c].users, NEW op \in {"invite", "create"},
         Members(c)!Lookup(r, op, u)
  PROVE  MemberIInv(c)'
  <1>1. PICK at, limit : /\ at = (IF Members(c)!Fresh THEN "check" ELSE "fill")
                         /\ limit = (IF Members(c)!Fresh THEN cache.limit ELSE plan)
    OBVIOUS
  <1>2. at \in {"check", "fill"} /\ limit \in Nat
    BY <1>1 DEF MemberIInv, MemberCacheOK, Members!TypeOK, Members!MembersAssumption
  <1>3. PICK t : t = [op |-> op, user |-> u, at |-> at, limit |-> limit, outdated |-> FALSE]
    OBVIOUS
  <1>4. t \in MemberCounting(c) /\ t.at # "insert"
    BY <1>2, <1>3 DEF MemberCounting
  <1>5. txn' = [txn EXCEPT ![r] = t] /\ UNCHANGED <<plan, cache, member, invitations, now, excused>>
    BY <1>1, <1>3, Zenon DEF Members!Lookup
  <1>6. MemberTxnOK(c)' /\ MemberCountedOK(c)' /\ Members(c)!SeatsWithinPlan'
    BY <1>4, <1>5, MemberSlotStep DEF MemberCountsRight
  <1> QED
    BY <1>5, <1>6 DEF MemberIInv, Members!TypeOK, MemberCacheOK

LEMMA MemberFillStep ==
  ASSUME NEW c, Members(c)!MembersAssumption, MemberIInv(c), NEW r \in MembersCase[c].req,
         Members(c)!Fill(r)
  PROVE  MemberIInv(c)'
  <1>1. PICK u : u = txn[r]
    OBVIOUS
  <1>2. u \in MemberCounting(c)
    BY <1>1 DEF Members!Fill, MemberIInv, MemberTxnOK, Members!Idle, MemberAssigning
  <1>3. PICK t : t = [u EXCEPT !.at = "check"]
    OBVIOUS
  <1>4. t \in MemberCounting(c) /\ t.at # "insert"
    BY <1>2, <1>3 DEF MemberCounting
  <1>5. txn' = [txn EXCEPT ![r] = t] /\ UNCHANGED <<plan, member, invitations, now, excused>>
    BY <1>1, <1>3 DEF Members!Fill
  <1>6. MemberTxnOK(c)' /\ MemberCountedOK(c)' /\ Members(c)!SeatsWithinPlan'
    BY <1>4, <1>5, MemberSlotStep DEF MemberCountsRight
  <1>7. MemberCacheOK(c)'
    BY <1>1, <1>2 DEF Members!Fill, MemberCacheOK, MemberIInv, Members!TypeOK, MemberCounting,
      Members!MembersAssumption
  <1> QED
    BY <1>5, <1>6, <1>7 DEF MemberIInv, Members!TypeOK

LEMMA MemberCheckStep ==
  ASSUME NEW c, Members(c)!MembersAssumption, MemberIInv(c), NEW r \in MembersCase[c].req,
         Members(c)!Check(r)
  PROVE  MemberIInv(c)'
  <1>1. PICK u : u = txn[r]
    OBVIOUS
  <1>2. u \in MemberCounting(c)
    BY <1>1 DEF Members!Check, MemberIInv, MemberTxnOK, Members!Idle, MemberAssigning
  <1>3. PICK t : t = [u EXCEPT !.at = "insert"]
    OBVIOUS
  <1>4. t \in MemberCounting(c) /\ t.op = u.op /\ t.limit = u.limit /\ t.user = u.user
    BY <1>2, <1>3 DEF MemberCounting
  <1>5. txn' = [txn EXCEPT ![r] = t] /\ UNCHANGED <<plan, cache, member, invitations, now, excused>>
    BY <1>1, <1>3 DEF Members!Check
  <1>6. MemberCountsRight(c, t)
    BY <1>1, <1>4 DEF Members!Check, MemberCountsRight
  <1>7. MemberTxnOK(c)' /\ MemberCountedOK(c)' /\ Members(c)!SeatsWithinPlan'
    BY <1>4, <1>5, <1>6, MemberSlotStep
  <1> QED
    BY <1>5, <1>7 DEF MemberIInv, Members!TypeOK, MemberCacheOK

LEMMA MemberAssignStep ==
  ASSUME NEW c, Members(c)!MembersAssumption, MemberIInv(c), NEW r \in MembersCase[c].req,
         NEW limit \in MembersCase[c].limits, Members(c)!Assign(r, limit)
  PROVE  MemberIInv(c)'
  <1>1. PICK t : t = [op |-> "assign", limit |-> limit, at |-> "invalidate"]
    OBVIOUS
  <1>2. t \in MemberAssigning(c) /\ t.at # "insert"
    BY <1>1 DEF MemberAssigning
  <1>3. txn' = [txn EXCEPT ![r] = t] /\ UNCHANGED <<plan, cache, member, invitations, now, excused>>
    BY <1>1, Zenon DEF Members!Assign
  <1>4. MemberTxnOK(c)' /\ MemberCountedOK(c)' /\ Members(c)!SeatsWithinPlan'
    BY <1>2, <1>3, MemberSlotStep DEF MemberCountsRight
  <1> QED
    BY <1>3, <1>4 DEF MemberIInv, Members!TypeOK, MemberCacheOK

LEMMA MemberInvalidateStep ==
  ASSUME NEW c, Members(c)!MembersAssumption, MemberIInv(c), NEW r \in MembersCase[c].req,
         Members(c)!Invalidate(r)
  PROVE  MemberIInv(c)'
  <1>1. PICK u : u = txn[r]
    OBVIOUS
  <1>2. u \in MemberAssigning(c)
    BY <1>1 DEF Members!Invalidate, MemberIInv, MemberTxnOK, Members!Idle, MemberCounting
  <1>3. PICK t : t = [u EXCEPT !.at = "commit"]
    OBVIOUS
  <1>4. t \in MemberAssigning(c) /\ t.at # "insert"
    BY <1>2, <1>3 DEF MemberAssigning
  <1>5. txn' = [txn EXCEPT ![r] = t] /\ UNCHANGED <<plan, member, invitations, now, excused>>
        /\ cache' = Members(c)!Empty
    BY <1>1, <1>3 DEF Members!Invalidate
  <1>6. MemberTxnOK(c)' /\ MemberCountedOK(c)' /\ Members(c)!SeatsWithinPlan'
    BY <1>4, <1>5, MemberSlotStep DEF MemberCountsRight
  <1>7. MemberCacheOK(c)'
    BY <1>5 DEF MemberCacheOK, Members!Empty
  <1> QED
    BY <1>5, <1>6, <1>7 DEF MemberIInv, Members!TypeOK

LEMMA MemberRefuseStep ==
  ASSUME NEW c, Members(c)!MembersAssumption, MemberIInv(c), NEW r \in MembersCase[c].req,
         Members(c)!Refuse(r)
  PROVE  MemberIInv(c)'
  <1>1. /\ txn' = [txn EXCEPT ![r] = Members(c)!Idle]
        /\ UNCHANGED <<plan, cache, member, invitations, now, excused>>
    BY DEF Members!Refuse
  <1>2. MemberTxnOK(c)' /\ MemberCountedOK(c)' /\ Members(c)!SeatsWithinPlan'
    <2>1. Members(c)!Idle \notin MemberCounting(c)
      BY DEF Members!Idle, MemberCounting
    <2> QED
      BY <1>1, <2>1, MemberSlotStep DEF MemberCountsRight
  <1> QED
    BY <1>1, <1>2 DEF MemberIInv, Members!TypeOK, MemberCacheOK

-----------------------------------------------------------------------------
(* Writes.                                                                 *)

LEMMA MemberCommitPlanStep ==
  ASSUME NEW c, Members(c)!MembersAssumption, MemberIInv(c), NEW r \in MembersCase[c].req,
         Members(c)!CommitPlan(r)
  PROVE  MemberIInv(c)'
  <1>1. PICK u : u = txn[r]
    OBVIOUS
  <1>2. u \in MemberAssigning(c) /\ u.limit \in MembersCase[c].limits
    BY <1>1 DEF Members!CommitPlan, MemberIInv, MemberTxnOK, Members!Idle, MemberCounting,
      MemberAssigning
  <1>3. /\ txn' = [txn EXCEPT ![r] = Members(c)!Idle] /\ plan' = u.limit
        /\ UNCHANGED <<cache, member, invitations, now>>
        /\ excused' = excused \union (IF Members(c)!Seats > u.limit THEN {"downgrade"} ELSE {})
    BY <1>1 DEF Members!CommitPlan
  <1>4. MemberTxnOK(c)' /\ MemberCountedOK(c)'
    <2>1. Members(c)!Idle \notin MemberCounting(c)
      BY DEF Members!Idle, MemberCounting
    <2> QED
      BY <1>3, <2>1, MemberSlotTxn DEF MemberCountsRight
  <1>5. Members(c)!Seats' = Members(c)!Seats /\ Members(c)!Seats \in Nat /\ u.limit \in Nat
    BY <1>2, <1>3, MemberSeatsType DEF Members!Seats, Members!Active, Members!Pending,
      MemberIInv, Members!MembersAssumption
  <1>6. Members(c)!SeatsWithinPlan'
    <2>1. excused' = {} => Members(c)!Seats' <= plan'
      BY <1>3, <1>5
    <2>2. "raced" \notin excused' => "raced" \notin excused
      BY <1>3
    <2> QED
      BY <1>3, <2>1, <2>2 DEF Members!SeatsWithinPlan, Members!Pending, MemberIInv
  <1> QED
    BY <1>2, <1>3, <1>4, <1>6 DEF MemberIInv, Members!TypeOK, MemberCacheOK

\* Who is about to insert has counted right, or is excused.
LEMMA MemberInsertStep ==
  ASSUME NEW c, Members(c)!MembersAssumption, MemberIInv(c), NEW r \in MembersCase[c].req,
         Members(c)!Insert(r)
  PROVE  MemberIInv(c)'
  <1>1. PICK t : t = txn[r]
    OBVIOUS
  <1>2. t \in MemberCounting(c) /\ t.op = "invite" /\ t.at = "insert"
    BY <1>1 DEF Members!Insert, MemberIInv, MemberTxnOK, Members!Idle, MemberAssigning
  <1>3. PICK x : x = [user |-> t.user, status |-> "pending", expires |-> now + MembersCase[c].days]
    OBVIOUS
  <1>4. x \in Members(c)!Invitation /\ x.user = t.user /\ x.status = "pending"
    BY <1>2, <1>3 DEF Members!Invitation, MemberCounting, MemberIInv, Members!TypeOK,
      Members!MembersAssumption
  <1>5. /\ invitations' = Append(invitations, x) /\ excused' = excused \union Members(c)!Excuse(t)
        /\ txn' = Members(c)!Outdate(r) /\ UNCHANGED <<plan, cache, member, now>>
    BY <1>1, <1>3, Zenon DEF Members!Insert
  <1>6. MemberTxnOK(c)' /\ MemberCountedOK(c)'
    BY <1>5, MemberOutdateLeavesNone DEF MemberIInv
  <1>7. PICK n : n = Len(invitations) + 1
    OBVIOUS
  <1>8. /\ invitations' \in Seq(Members(c)!Invitation) /\ n \notin DOMAIN invitations
        /\ DOMAIN invitations' = DOMAIN invitations \cup {n}
        /\ \A i \in DOMAIN invitations : invitations'[i] = invitations[i]
        /\ invitations'[n] = x
    BY <1>4, <1>5, <1>7, LenProperties DEF MemberIInv, Members!TypeOK
  <1>9. /\ Members(c)!Pending' = Members(c)!Pending \cup {n} /\ n \notin Members(c)!Pending
        /\ Members(c)!Active' = Members(c)!Active
    BY <1>4, <1>5, <1>8 DEF Members!Pending, Members!Active
  <1>10. Members(c)!Seats' = Members(c)!Seats + 1 /\ Members(c)!Seats \in Nat
    <2>1. /\ IsFiniteSet(Members(c)!Pending) /\ Cardinality(Members(c)!Pending) \in Nat
          /\ Cardinality(Members(c)!Active) \in Nat
          /\ Members(c)!Seats \in Nat
      BY MemberSeatsType DEF MemberIInv
    <2>2. Cardinality(Members(c)!Pending') = Cardinality(Members(c)!Pending) + 1
      BY <1>9, <2>1, FS_AddElement
    <2> QED
      BY <1>9, <2>1, <2>2, MemberSeatsAre
  <1>11. ASSUME "raced" \notin excused'
         PROVE  /\ "raced" \notin excused /\ Members(c)!Taken("invite") < t.limit
                /\ \A i \in Members(c)!Pending : invitations[i].user # t.user
    <2>1. "raced" \notin excused /\ ~t.outdated
      BY <1>5, <1>11 DEF Members!Excuse
    <2>2. MemberCountsRight(c, t)
      BY <1>1 DEF MemberIInv, MemberCountedOK
    <2> QED
      BY <1>2, <2>1, <2>2 DEF MemberCountsRight
  <1>12. ASSUME excused' = {} PROVE Members(c)!Seats' <= plan'
    <2>1. t.limit = plan
      BY <1>5, <1>12 DEF Members!Excuse
    <2>2. Members(c)!Seats < plan /\ plan \in Nat
      BY <1>11, <1>12, <2>1, MemberTaken DEF MemberIInv, Members!TypeOK,
        Members!MembersAssumption
    <2> QED
      BY <1>5, <1>10, <2>2
  <1>13. Members(c)!SeatsWithinPlan'
    <2>1. "raced" \notin excused' =>
            \A i, j \in Members(c)!Pending' : invitations'[i].user = invitations'[j].user => i = j
      <3> SUFFICES ASSUME "raced" \notin excused',
                          NEW i \in Members(c)!Pending', NEW j \in Members(c)!Pending',
                          invitations'[i].user = invitations'[j].user
                   PROVE  i = j
        OBVIOUS
      <3>1. \A k \in Members(c)!Pending : k \in DOMAIN invitations
        BY DEF Members!Pending
      <3> QED
        BY <1>4, <1>8, <1>9, <1>11, <3>1 DEF MemberIInv, Members!SeatsWithinPlan
    <2>2. \A i \in DOMAIN invitations' : invitations'[i].status = "accepted" =>
            i \in DOMAIN invitations /\ invitations[i].status = "accepted"
            /\ invitations'[i] = invitations[i]
      BY <1>4, <1>8
    <2>3. \A i, j \in DOMAIN invitations' :
            invitations'[i].status = "accepted" =>
              /\ member'[invitations'[i].user] # "none"
              /\ invitations'[j].user = invitations'[i].user /\ invitations'[j].status = "accepted"
                   => i = j
      BY <1>5, <2>2 DEF MemberIInv, Members!SeatsWithinPlan
    <2> QED
      BY <1>12, <2>1, <2>3 DEF Members!SeatsWithinPlan
  <1> QED
    BY <1>5, <1>6, <1>8, <1>13 DEF MemberIInv, Members!TypeOK, MemberCacheOK

LEMMA MemberCreateMembershipStep ==
  ASSUME NEW c, Members(c)!MembersAssumption, MemberIInv(c), NEW r \in MembersCase[c].req,
         Members(c)!CreateMembership(r)
  PROVE  MemberIInv(c)'
  <1>1. PICK t : t = txn[r]
    OBVIOUS
  <1>2. /\ t \in MemberCounting(c) /\ t.op = "create" /\ t.at = "insert"
        /\ t.user \in MembersCase[c].users
    BY <1>1 DEF Members!CreateMembership, MemberIInv, MemberTxnOK, Members!Idle,
      MemberAssigning, MemberCounting
  <1>3. /\ member' = [member EXCEPT ![t.user] = "active"] /\ member[t.user] = "none"
        /\ excused' = excused \union Members(c)!Excuse(t)
                        \union (IF Members(c)!Pending # {} THEN {"invited"} ELSE {})
        /\ txn' = Members(c)!Outdate(r) /\ UNCHANGED <<plan, cache, invitations, now>>
    BY <1>1, Zenon DEF Members!CreateMembership
  <1>4. MemberTxnOK(c)' /\ MemberCountedOK(c)'
    BY <1>3, MemberOutdateLeavesNone DEF MemberIInv
  <1>5. member' \in [MembersCase[c].users -> {"none", "active", "inactive"}]
        /\ \A u \in MembersCase[c].users : member'[u] = IF u = t.user THEN "active" ELSE member[u]
    BY <1>3 DEF MemberIInv, Members!TypeOK
  <1>6. /\ Members(c)!Active' = Members(c)!Active \cup {t.user}
        /\ t.user \notin Members(c)!Active /\ Members(c)!Pending' = Members(c)!Pending
    BY <1>2, <1>3, <1>5 DEF Members!Active, Members!Pending
  <1>7. ASSUME excused' = {} PROVE Members(c)!Seats' <= plan'
    <2>1. excused = {} /\ t.limit = plan /\ ~t.outdated /\ Members(c)!Pending = {}
      BY <1>3, <1>7 DEF Members!Excuse
    <2>2. MemberCountsRight(c, t)
      BY <1>1 DEF MemberIInv, MemberCountedOK
    <2>3. Cardinality(Members(c)!Active) < plan
      BY <1>2, <2>1, <2>2, MemberTaken DEF MemberCountsRight
    <2>4. IsFiniteSet(Members(c)!Active) /\ Cardinality(Members(c)!Active) \in Nat
      BY MemberSeatsType DEF MemberIInv
    <2>5. Cardinality(Members(c)!Active') = Cardinality(Members(c)!Active) + 1
      BY <1>6, <2>4, FS_AddElement
    <2>6. Cardinality(Members(c)!Pending') = 0
      BY <1>6, <2>1, FS_EmptySet
    <2>7. plan \in Nat
      BY DEF MemberIInv, Members!TypeOK, Members!MembersAssumption
    <2> QED
      BY <1>3, <2>3, <2>4, <2>5, <2>6, <2>7, MemberSeatsAre
  <1>8. Members(c)!SeatsWithinPlan'
    <2>1. "raced" \notin excused' => "raced" \notin excused
      BY <1>3
    <2>2. \A u \in MembersCase[c].users : member[u] # "none" => member'[u] # "none"
      BY <1>5
    <2>3. \A i \in DOMAIN invitations : invitations[i].user \in MembersCase[c].users
      BY MemberInvitationType
    <2> QED
      BY <1>3, <1>6, <1>7, <2>1, <2>2, <2>3 DEF MemberIInv, Members!SeatsWithinPlan
  <1> QED
    BY <1>3, <1>4, <1>5, <1>8 DEF MemberIInv, Members!TypeOK, MemberCacheOK

\* An invitation that is pending gets another status.
LEMMA MemberSettled ==
  ASSUME NEW c, Members(c)!MembersAssumption, MemberIInv(c), NEW i \in Members(c)!Pending,
         NEW kept \in {"revoked", "accepted"},
         invitations' = [invitations EXCEPT ![i].status = kept]
  PROVE  /\ invitations' \in Seq(Members(c)!Invitation) /\ DOMAIN invitations' = DOMAIN invitations
         /\ \A j \in DOMAIN invitations :
              /\ invitations'[j].user = invitations[j].user
              /\ invitations'[j].status = IF j = i THEN kept ELSE invitations[j].status
         /\ Members(c)!Pending' = Members(c)!Pending \ {i}
         /\ Cardinality(Members(c)!Pending') = Cardinality(Members(c)!Pending) - 1
  <1>1. i \in DOMAIN invitations /\ invitations[i].status = "pending"
    BY DEF Members!Pending
  <1>2. i \in 1..Len(invitations) /\ invitations \in Seq(Members(c)!Invitation)
        /\ invitations[i] \in Members(c)!Invitation
    BY <1>1, MemberInvitationType DEF MemberIInv, Members!TypeOK
  <1>3. PICK x : x = [invitations[i] EXCEPT !.status = kept]
    OBVIOUS
  <1>4. x \in Members(c)!Invitation /\ x.user = invitations[i].user /\ x.status = kept
    BY <1>2, <1>3 DEF Members!Invitation
  <1>5. invitations' = [invitations EXCEPT ![i] = x]
    BY <1>3
  <1>6. /\ invitations' \in Seq(Members(c)!Invitation) /\ Len(invitations') = Len(invitations)
        /\ \A j \in 1..Len(invitations) : invitations'[j] = IF j = i THEN x ELSE invitations[j]
    BY <1>2, <1>4, <1>5, ExceptSeq
  <1>7. DOMAIN invitations' = DOMAIN invitations /\ DOMAIN invitations = 1..Len(invitations)
    BY <1>2, <1>6, LenProperties
  <1>8. \A j \in DOMAIN invitations :
          /\ invitations'[j].user = invitations[j].user
          /\ invitations'[j].status = IF j = i THEN kept ELSE invitations[j].status
    BY <1>4, <1>6, <1>7
  <1>9. Members(c)!Pending' = Members(c)!Pending \ {i}
    BY <1>7, <1>8 DEF Members!Pending
  <1>10. IsFiniteSet(Members(c)!Pending) /\ Cardinality(Members(c)!Pending) \in Nat
    BY MemberSeatsType DEF MemberIInv
  <1>11. Cardinality(Members(c)!Pending') = Cardinality(Members(c)!Pending) - 1
    BY <1>9, <1>10, FS_RemoveElement
  <1> QED
    BY <1>6, <1>7, <1>8, <1>9, <1>11

LEMMA MemberRevokeStep ==
  ASSUME NEW c, Members(c)!MembersAssumption, MemberIInv(c), NEW i \in DOMAIN invitations,
         Members(c)!Revoke(i)
  PROVE  MemberIInv(c)'
  <1>1. /\ i \in Members(c)!Pending /\ invitations' = [invitations EXCEPT ![i].status = "revoked"]
        /\ txn' = Members(c)!Outdate(0) /\ UNCHANGED <<plan, cache, member, now, excused>>
    BY DEF Members!Revoke
  <1>2. /\ invitations' \in Seq(Members(c)!Invitation) /\ DOMAIN invitations' = DOMAIN invitations
        /\ \A j \in DOMAIN invitations :
             /\ invitations'[j].user = invitations[j].user
             /\ invitations'[j].status = IF j = i THEN "revoked" ELSE invitations[j].status
        /\ Members(c)!Pending' = Members(c)!Pending \ {i}
        /\ Cardinality(Members(c)!Pending') = Cardinality(Members(c)!Pending) - 1
    BY <1>1, MemberSettled
  <1>3. MemberTxnOK(c)' /\ MemberCountedOK(c)'
    BY <1>1, MemberOutdateLeavesNone DEF MemberIInv
  <1>4. /\ Members(c)!Seats' <= Members(c)!Seats /\ Members(c)!Seats \in Nat
        /\ Members(c)!Seats' \in Int /\ plan \in Nat
    <2>1. /\ Cardinality(Members(c)!Pending) \in Nat /\ Cardinality(Members(c)!Active) \in Nat
          /\ Members(c)!Seats \in Nat
      BY MemberSeatsType DEF MemberIInv
    <2>2. Members(c)!Active' = Members(c)!Active /\ plan \in Nat
      BY <1>1 DEF Members!Active, MemberIInv, Members!TypeOK, Members!MembersAssumption
    <2>9. /\ Members(c)!Seats = Cardinality(Members(c)!Active) + Cardinality(Members(c)!Pending)
          /\ Members(c)!Seats' = Cardinality(Members(c)!Active') + Cardinality(Members(c)!Pending')
      BY MemberSeatsAre
    <2> QED
      BY <1>2, <2>1, <2>2, <2>9
  <1>5. Members(c)!SeatsWithinPlan'
    <2>1. excused' = {} => Members(c)!Seats' <= plan'
      BY <1>1, <1>4 DEF MemberIInv, Members!SeatsWithinPlan
    <2>2. "raced" \notin excused' =>
            \A j, k \in Members(c)!Pending' : invitations'[j].user = invitations'[k].user => j = k
      BY <1>1, <1>2 DEF MemberIInv, Members!SeatsWithinPlan, Members!Pending
    <2>3. \A j, k \in DOMAIN invitations' :
            invitations'[j].status = "accepted" =>
              /\ member'[invitations'[j].user] # "none"
              /\ invitations'[k].user = invitations'[j].user /\ invitations'[k].status = "accepted"
                   => j = k
      BY <1>1, <1>2 DEF MemberIInv, Members!SeatsWithinPlan
    <2> QED
      BY <2>1, <2>2, <2>3 DEF Members!SeatsWithinPlan
  <1> QED
    BY <1>1, <1>2, <1>3, <1>5 DEF MemberIInv, Members!TypeOK, MemberCacheOK

\* The seat of the invitation becomes that of the member.
LEMMA MemberAcceptStep ==
  ASSUME NEW c, Members(c)!MembersAssumption, MemberIInv(c), NEW i \in DOMAIN invitations,
         Members(c)!Accept(i)
  PROVE  MemberIInv(c)'
  <1>1. PICK u \in MembersCase[c].users : u = invitations[i].user
    BY MemberInvitationType
  <1>2. /\ i \in Members(c)!Pending /\ invitations' = [invitations EXCEPT ![i].status = "accepted"]
        /\ member' = [member EXCEPT ![u] = "active"] /\ member[u] = "none"
        /\ txn' = Members(c)!Outdate(0) /\ UNCHANGED <<plan, cache, now, excused>>
    BY <1>1 DEF Members!Accept, Members!Acceptable
  <1>3. /\ invitations' \in Seq(Members(c)!Invitation) /\ DOMAIN invitations' = DOMAIN invitations
        /\ \A j \in DOMAIN invitations :
             /\ invitations'[j].user = invitations[j].user
             /\ invitations'[j].status = IF j = i THEN "accepted" ELSE invitations[j].status
        /\ Members(c)!Pending' = Members(c)!Pending \ {i}
        /\ Cardinality(Members(c)!Pending') = Cardinality(Members(c)!Pending) - 1
    BY <1>2, MemberSettled
  <1>4. MemberTxnOK(c)' /\ MemberCountedOK(c)'
    BY <1>2, MemberOutdateLeavesNone DEF MemberIInv
  <1>5. member' \in [MembersCase[c].users -> {"none", "active", "inactive"}]
        /\ \A v \in MembersCase[c].users : member'[v] = IF v = u THEN "active" ELSE member[v]
    BY <1>2 DEF MemberIInv, Members!TypeOK
  <1>6. Members(c)!Active' = Members(c)!Active \cup {u} /\ u \notin Members(c)!Active
    BY <1>2, <1>5 DEF Members!Active
  <1>7. Members(c)!Seats' = Members(c)!Seats
    <2>1. /\ Cardinality(Members(c)!Pending) \in Nat /\ Cardinality(Members(c)!Active) \in Nat
          /\ IsFiniteSet(Members(c)!Active)
      BY MemberSeatsType DEF MemberIInv
    <2>2. Cardinality(Members(c)!Active') = Cardinality(Members(c)!Active) + 1
      BY <1>6, <2>1, FS_AddElement
    <2>9. /\ Members(c)!Seats = Cardinality(Members(c)!Active) + Cardinality(Members(c)!Pending)
          /\ Members(c)!Seats' = Cardinality(Members(c)!Active') + Cardinality(Members(c)!Pending')
      BY MemberSeatsAre
    <2> QED
      BY <1>3, <2>1, <2>2, <2>9
  <1>8. Members(c)!SeatsWithinPlan'
    <2>1. excused' = {} => Members(c)!Seats' <= plan'
      BY <1>2, <1>7 DEF MemberIInv, Members!SeatsWithinPlan
    <2>2. "raced" \notin excused' =>
            \A j, k \in Members(c)!Pending' : invitations'[j].user = invitations'[k].user => j = k
      BY <1>2, <1>3 DEF MemberIInv, Members!SeatsWithinPlan, Members!Pending
    <2>3. \A j \in DOMAIN invitations :
            /\ invitations[j].user \in MembersCase[c].users
            /\ invitations[j].status = "accepted" => member[invitations[j].user] # "none"
      BY MemberInvitationType DEF MemberIInv, Members!SeatsWithinPlan
    <2>4. \A j \in DOMAIN invitations' :
            invitations'[j].status = "accepted" => member'[invitations'[j].user] # "none"
      BY <1>1, <1>3, <1>5, <2>3
    <2>5. \A j, k \in DOMAIN invitations' :
            /\ invitations'[j].status = "accepted" /\ invitations'[k].status = "accepted"
            /\ invitations'[k].user = invitations'[j].user
            => j = k
      BY <1>1, <1>2, <1>3, <2>3 DEF MemberIInv, Members!SeatsWithinPlan
    <2> QED
      BY <2>1, <2>2, <2>4, <2>5 DEF Members!SeatsWithinPlan
  <1> QED
    BY <1>2, <1>3, <1>4, <1>5, <1>8 DEF MemberIInv, Members!TypeOK, MemberCacheOK

\* A member leaves or comes back; who comes back is an excuse.
LEMMA MemberActivityStep ==
  ASSUME NEW c, Members(c)!MembersAssumption, MemberIInv(c), NEW u \in MembersCase[c].users,
         Members(c)!Deactivate(u) \/ Members(c)!Reactivate(u)
  PROVE  MemberIInv(c)'
  <1>1. PICK kept \in {"active", "inactive"} : member' = [member EXCEPT ![u] = kept]
    BY DEF Members!Deactivate, Members!Reactivate
  <1>2. /\ txn' = Members(c)!Outdate(0) /\ UNCHANGED <<plan, cache, invitations, now>>
        /\ member[u] # "none" /\ excused \subseteq excused'
        /\ excused' = {} => Members(c)!Deactivate(u)
    BY DEF Members!Deactivate, Members!Reactivate
  <1>3. MemberTxnOK(c)' /\ MemberCountedOK(c)'
    BY <1>2, MemberOutdateLeavesNone DEF MemberIInv
  <1>4. member' \in [MembersCase[c].users -> {"none", "active", "inactive"}]
        /\ \A v \in MembersCase[c].users : member[v] # "none" => member'[v] # "none"
    BY <1>1, <1>2 DEF MemberIInv, Members!TypeOK
  <1>5. ASSUME Members(c)!Deactivate(u)
        PROVE  Members(c)!Seats' <= Members(c)!Seats /\ Members(c)!Seats' \in Int
    <2>1. Members(c)!Active' = Members(c)!Active \ {u} /\ Members(c)!Pending' = Members(c)!Pending
      BY <1>5 DEF Members!Deactivate, Members!Active, Members!Pending, MemberIInv,
        Members!TypeOK
    <2>2. /\ IsFiniteSet(Members(c)!Active) /\ Cardinality(Members(c)!Active) \in Nat
          /\ Cardinality(Members(c)!Pending) \in Nat
      BY MemberSeatsType DEF MemberIInv
    <2>3. PICK A : A = Members(c)!Active
      OBVIOUS
    <2>4. Cardinality(A \ {u}) \in Int /\ Cardinality(A \ {u}) <= Cardinality(A)
      BY <2>2, <2>3, FS_RemoveElement
    <2>5. Cardinality(Members(c)!Active') = Cardinality(A \ {u})
      BY <2>1, <2>3
    <2>9. /\ Members(c)!Seats = Cardinality(Members(c)!Active) + Cardinality(Members(c)!Pending)
          /\ Members(c)!Seats' = Cardinality(Members(c)!Active') + Cardinality(Members(c)!Pending')
      BY MemberSeatsAre
    <2> QED
      BY <2>1, <2>2, <2>3, <2>4, <2>5, <2>9
  <1>6. Members(c)!SeatsWithinPlan'
    <2>1. excused' = {} => Members(c)!Seats' <= plan'
      <3>1. Members(c)!Seats \in Nat /\ plan \in Nat
        BY MemberSeatsType DEF MemberIInv, Members!TypeOK, Members!MembersAssumption
      <3> QED
        BY <1>2, <1>5, <3>1 DEF MemberIInv, Members!SeatsWithinPlan
    <2>2. "raced" \notin excused' =>
            \A j, k \in Members(c)!Pending' : invitations'[j].user = invitations'[k].user => j = k
      BY <1>2 DEF MemberIInv, Members!SeatsWithinPlan, Members!Pending
    <2>3. \A j \in DOMAIN invitations : invitations[j].user \in MembersCase[c].users
      BY MemberInvitationType
    <2> QED
      BY <1>2, <1>4, <2>1, <2>2, <2>3 DEF MemberIInv, Members!SeatsWithinPlan
  <1> QED
    BY <1>2, <1>3, <1>4, <1>6 DEF MemberIInv, Members!TypeOK, MemberCacheOK

-----------------------------------------------------------------------------
(* Initially, and with every step.                                         *)

LEMMA MemberInitIInv ==
  ASSUME NEW c, Members(c)!MembersAssumption, Members(c)!Init
  PROVE  MemberIInv(c)
  <1>1. invitations = <<>> /\ invitations \in Seq(Members(c)!Invitation) /\ DOMAIN invitations = {}
    BY EmptySeq DEF Members!Init
  <1>2. Members(c)!TypeOK
    <2>1. 0 \in 0..MembersCase[c].time
      BY DEF Members!MembersAssumption
    <2> QED
      BY <1>1, <2>1 DEF Members!Init, Members!TypeOK
  <1>3. MemberTxnOK(c) /\ MemberCountedOK(c)
    <2>1. Members(c)!Idle \notin MemberCounting(c)
      BY DEF Members!Idle, MemberCounting
    <2> QED
      BY <2>1 DEF Members!Init, MemberTxnOK, MemberCountedOK, MemberCountsRight
  <1>4. MemberCacheOK(c)
    BY DEF Members!Init, MemberCacheOK, Members!Empty
  <1>5. Members(c)!SeatsWithinPlan
    <2>1. Members(c)!Pending = {} /\ Cardinality(Members(c)!Pending) = 0
      BY <1>1, FS_EmptySet DEF Members!Pending
    <2>2. Cardinality(Members(c)!Active) = 1 /\ plan \in Nat \ {0}
      BY MemberCardinality DEF Members!Init, Members!MembersAssumption
    <2>3. Members(c)!Seats <= plan
      BY <2>1, <2>2, MemberSeatsAre
    <2> QED
      BY <1>1, <2>1, <2>3 DEF Members!SeatsWithinPlan
  <1> QED
    BY <1>2, <1>3, <1>4, <1>5 DEF MemberIInv

LEMMA MemberNextStep ==
  ASSUME NEW c, Members(c)!MembersAssumption, MemberIInv(c),
         Members(c)!Next \/ UNCHANGED Members(c)!vars
  PROVE  MemberIInv(c)'
  <1>1. CASE UNCHANGED Members(c)!vars
    <2>1. Members(c)!TypeOK' /\ MemberTxnOK(c)' /\ MemberCacheOK(c)' /\ Members(c)!SeatsWithinPlan'
      BY <1>1, MemberLooking DEF Members!vars, MemberIInv, Members!TypeOK, MemberTxnOK,
        MemberCacheOK, MemberCounting, MemberAssigning
    <2>2. MemberCountedOK(c)'
      BY <1>1 DEF Members!vars, MemberIInv, MemberCountedOK, MemberCountsRight, MemberCounting,
        Members!Taken, Members!Seats, Members!Active, Members!Pending
    <2> QED
      BY <2>1, <2>2 DEF MemberIInv
  <1>2. CASE Members(c)!Tick
    BY <1>2, MemberTickStep
  <1>3. ASSUME NEW r \in MembersCase[c].req, NEW u \in MembersCase[c].users,
               NEW op \in {"invite", "create"}, Members(c)!Lookup(r, op, u)
        PROVE  MemberIInv(c)'
    BY <1>3, MemberLookupStep
  <1>4. ASSUME NEW r \in MembersCase[c].req, NEW limit \in MembersCase[c].limits,
               Members(c)!Assign(r, limit) PROVE MemberIInv(c)'
    BY <1>4, MemberAssignStep
  <1>5. ASSUME NEW r \in MembersCase[c].req,
               \/ Members(c)!Fill(r) \/ Members(c)!Invalidate(r) \/ Members(c)!CommitPlan(r)
               \/ Members(c)!Check(r) \/ Members(c)!Insert(r)
               \/ Members(c)!CreateMembership(r) \/ Members(c)!Refuse(r)
        PROVE  MemberIInv(c)'
    BY <1>5, MemberFillStep, MemberInvalidateStep, MemberCommitPlanStep, MemberCheckStep,
      MemberInsertStep, MemberCreateMembershipStep, MemberRefuseStep
  <1>6. ASSUME NEW i \in DOMAIN invitations,
               Members(c)!Revoke(i) \/ Members(c)!Accept(i) PROVE MemberIInv(c)'
    BY <1>6, MemberRevokeStep, MemberAcceptStep
  <1>7. ASSUME NEW u \in MembersCase[c].users,
               Members(c)!Deactivate(u) \/ Members(c)!Reactivate(u) PROVE MemberIInv(c)'
    BY <1>7, MemberActivityStep
  <1> QED
    BY <1>1, <1>2, <1>3, <1>4, <1>5, <1>6, <1>7 DEF Members!Next

-----------------------------------------------------------------------------
(* Time on projects.  The inductive invariant.                             *)

TimeLink(c) == [project: TimeCase[c].projects, expense: TimeCase[c].expenses]

TimeInvoice(c) == [number: Nat, lines: UNION {[d -> Nat] : d \in SUBSET (Nat \ {0})}]

\* What is under way: a write to one entry, which was found in a state the write
\* is for,
TimeEditing(c, t) == /\ t = [op |-> t.op, id |-> t.id, read |-> t.read]
                     /\ t.op \in {"update", "delete", "stop", "approve"}
                     /\ t.id \in DOMAIN entries /\ t.read \in Time(c)!Entry
                     /\ Time(c)!Accepts(t.op, t.read)

\* a bill,
TimeBilling(c, t) == /\ t = [op |-> "bill", ids |-> t.ids, number |-> t.number, bill |-> t.bill]
                     /\ t.ids \subseteq DOMAIN entries /\ t.number \in Nat
                     /\ t.bill = [i \in DOMAIN t.bill |-> t.bill[i]]
                     /\ DOMAIN t.bill \subseteq t.ids
                     /\ \A i \in DOMAIN t.bill : /\ t.bill[i] \in Time(c)!Entry
                                                /\ t.bill[i].status = "approved"

\* and a link made or removed.
TimeLinking(c, t) == /\ t = [op |-> t.op, link |-> t.link, read |-> t.read, sum |-> t.sum]
                     /\ t.op \in {"link", "unlink"} /\ t.link \in TimeLink(c)
                     /\ t.sum = Time(c)!Linked(Time(c)!SymDiff(t.read, {t.link}), t.link.project)

TimeUnderway(c, t) ==
  t = Time(c)!Idle \/ TimeEditing(c, t) \/ TimeBilling(c, t) \/ TimeLinking(c, t)

TimeTxnOK(c) == /\ txn = [r \in TimeCase[c].req |-> txn[r]]
                /\ \A r \in TimeCase[c].req : TimeUnderway(c, txn[r])

TimeRowOK(c, x) == x = [status |-> x.status, revenue |-> x.revenue, cost |-> x.cost]

TimeTypesOK(c) == /\ entries \in Seq(Time(c)!Entry) /\ links \subseteq TimeLink(c)
                  /\ invoices \in Seq(TimeInvoice(c))
                  /\ project = [p \in TimeCase[c].projects |-> project[p]]
                  /\ \A p \in TimeCase[c].projects : TimeRowOK(c, project[p])
                  /\ raced \in BOOLEAN

\* A line is of an entry that is billed, an entry has one line at most, and what
\* is billed is on its invoice.
TimeLinesOK(c) ==
  /\ \A k \in DOMAIN invoices : \A i :
       Time(c)!On(k, i) => i \in DOMAIN entries /\ entries[i].status = "billed"
  /\ \A k, l \in DOMAIN invoices : \A i : Time(c)!On(k, i) /\ Time(c)!On(l, i) => k = l
  /\ \A i \in DOMAIN entries :
       entries[i].status = "billed" /\ ~entries[i].stray =>
         entries[i].invoice \in DOMAIN invoices /\ Time(c)!On(entries[i].invoice, i)

TimeCostsOK(c) == \A p \in TimeCase[c].projects :
                    project[p].status # "deleted" => project[p].cost = Time(c)!Linked(links, p)

TimeIInv(c) == TimeTypesOK(c) /\ TimeTxnOK(c) /\ (~raced => TimeLinesOK(c) /\ TimeCostsOK(c))

-----------------------------------------------------------------------------
(* Slots.                                                                  *)

LEMMA TimeUnderwayStays ==
  ASSUME NEW c, NEW t, TimeUnderway(c, t), DOMAIN entries \subseteq DOMAIN entries', UNCHANGED cost
  PROVE  TimeUnderway(c, t)'
  <1>1. \A ls, p : Time(c)!Linked(ls, p)' = Time(c)!Linked(ls, p)
    BY DEF Time!Linked
  <1>2. TimeLinking(c, t) => TimeLinking(c, t)'
    BY <1>1, Zenon DEF TimeLinking
  <1>3. TimeEditing(c, t) => TimeEditing(c, t)'
    BY Zenon DEF TimeEditing
  <1>4. TimeBilling(c, t) => TimeBilling(c, t)'
    BY Zenon DEF TimeBilling
  <1> QED
    BY <1>2, <1>3, <1>4, Zenon DEF TimeUnderway

\* A slot goes on to t.
LEMMA TimeSlotTxn ==
  ASSUME NEW c, TimeTxnOK(c), NEW r \in TimeCase[c].req, NEW t, TimeUnderway(c, t)',
         txn' = [txn EXCEPT ![r] = t], DOMAIN entries \subseteq DOMAIN entries', UNCHANGED cost
  PROVE  TimeTxnOK(c)'
  <1>1. /\ txn' = [x \in TimeCase[c].req |-> txn'[x]]
        /\ \A x \in TimeCase[c].req : txn'[x] = IF x = r THEN t ELSE txn[x]
    BY DEF TimeTxnOK
  <1>2. ASSUME NEW x \in TimeCase[c].req PROVE TimeUnderway(c, txn[x])'
    <2>1. PICK u : u = txn[x]
      OBVIOUS
    <2>2. TimeUnderway(c, u)'
      BY <2>1, TimeUnderwayStays DEF TimeTxnOK
    <2>3. PICK w : w = txn'[x]
      OBVIOUS
    <2>4. w = u \/ w = t
      BY <1>1, <2>1, <2>3
    <2>5. TimeUnderway(c, w)'
      BY <2>2, <2>4
    <2> QED
      BY <2>3, <2>5 DEF TimeUnderway, TimeEditing, TimeBilling, TimeLinking
  <1> QED
    BY <1>1, <1>2 DEF TimeTxnOK

LEMMA TimeSlotsStay ==
  ASSUME NEW c, TimeTxnOK(c), DOMAIN entries \subseteq DOMAIN entries', UNCHANGED <<cost, txn>>
  PROVE  TimeTxnOK(c)'
  <1>1. ASSUME NEW x \in TimeCase[c].req PROVE TimeUnderway(c, txn[x])'
    <2>1. PICK u : u = txn[x] /\ u = txn'[x]
      OBVIOUS
    <2>2. TimeUnderway(c, u)'
      BY <2>1, TimeUnderwayStays DEF TimeTxnOK
    <2> QED
      BY <2>1, <2>2, Zenon DEF TimeUnderway, TimeEditing, TimeBilling, TimeLinking
  <1> QED
    BY <1>1 DEF TimeTxnOK

LEMMA TimeIdleOK ==
  ASSUME NEW c
  PROVE  TimeUnderway(c, Time(c)!Idle)'
  BY DEF TimeUnderway

\* What is no write at all.
LEMMA TimeReading ==
  ASSUME NEW c, TimeIInv(c), NEW r \in TimeCase[c].req, NEW t, TimeUnderway(c, t)',
         txn' = [txn EXCEPT ![r] = t], UNCHANGED <<project, entries, links, cost, invoices, raced>>
  PROVE  TimeIInv(c)'
  <1>1. TimeTxnOK(c)'
    BY TimeSlotTxn DEF TimeIInv
  <1>2. TimeTypesOK(c)'
    BY DEF TimeIInv, TimeTypesOK, TimeRowOK
  <1>3. ~raced' => TimeLinesOK(c)' /\ TimeCostsOK(c)'
    BY DEF TimeIInv, TimeLinesOK, TimeCostsOK, Time!On, Time!Linked
  <1> QED
    BY <1>1, <1>2, <1>3 DEF TimeIInv

LEMMA TimeEntryType ==
  ASSUME NEW c, TimeTypesOK(c), NEW i \in DOMAIN entries
  PROVE  i \in 1..Len(entries) /\ entries[i] \in Time(c)!Entry
  <1>1. i \in 1..Len(entries)
    BY LenProperties DEF TimeTypesOK
  <1> QED
    BY <1>1, ElementOfSeq DEF TimeTypesOK

LEMMA TimeInvoicesType ==
  ASSUME NEW c, TimeTypesOK(c)
  PROVE  Len(invoices) \in Nat /\ DOMAIN invoices = 1..Len(invoices) /\ Time(c)!LastNumber \in Nat
  <1>1. Len(invoices) \in Nat /\ DOMAIN invoices = 1..Len(invoices)
    BY LenProperties DEF TimeTypesOK
  <1>2. CASE invoices = <<>>
    BY <1>1, <1>2 DEF Time!LastNumber
  <1>3. CASE invoices # <<>>
    <2>1. Len(invoices) \in 1..Len(invoices)
      BY <1>3, EmptySeq DEF TimeTypesOK
    <2>2. invoices[Len(invoices)] \in TimeInvoice(c)
      BY <2>1, ElementOfSeq DEF TimeTypesOK
    <2> QED
      BY <1>1, <1>3, <2>2 DEF Time!LastNumber, TimeInvoice
  <1> QED
    BY <1>2, <1>3

-----------------------------------------------------------------------------
(* Reads.                                                                  *)

LEMMA TimeReadEntryStep ==
  ASSUME NEW c, TimeIInv(c), NEW r \in TimeCase[c].req, NEW i \in DOMAIN entries,
         NEW op \in {"update", "delete", "stop", "approve"}, Time(c)!ReadEntry(r, op, i)
  PROVE  TimeIInv(c)'
  <1>1. PICK e : e = entries[i]
    OBVIOUS
  <1>2. PICK t : t = [op |-> op, id |-> i, read |-> e]
    OBVIOUS
  <1>3. e \in Time(c)!Entry
    BY <1>1, TimeEntryType DEF TimeIInv
  <1>4. Time(c)!Accepts(op, e) /\ txn' = [txn EXCEPT ![r] = t]
        /\ UNCHANGED <<project, entries, links, cost, invoices, raced>>
    BY <1>1, <1>2, Zenon DEF Time!ReadEntry
  <1>5. t.op = op /\ t.id = i /\ t.read = e
    BY <1>2
  <1>6. Time(c)!Accepts(op, e)' = Time(c)!Accepts(op, e)
    BY DEF Time!Accepts
  <1>7. TimeUnderway(c, t)'
    BY <1>2, <1>3, <1>4, <1>5, <1>6 DEF TimeUnderway, TimeEditing
  <1> QED
    BY <1>4, <1>7, TimeReading

LEMMA TimeReadBillStep ==
  ASSUME NEW c, TimeIInv(c), NEW r \in TimeCase[c].req, NEW ids \in SUBSET DOMAIN entries,
         Time(c)!ReadBill(r, ids)
  PROVE  TimeIInv(c)'
  <1>1. PICK b : b = [i \in Time(c)!Billable(ids) |-> entries[i]]
    OBVIOUS
  <1>2. PICK t : t = [op |-> "bill", ids |-> ids, number |-> 0, bill |-> b]
    OBVIOUS
  <1>3. txn' = [txn EXCEPT ![r] = t]
        /\ UNCHANGED <<project, entries, links, cost, invoices, raced>>
    BY <1>1, <1>2, Zenon DEF Time!ReadBill
  <1>4. /\ DOMAIN b = Time(c)!Billable(ids) /\ DOMAIN b \subseteq ids
        /\ b = [i \in DOMAIN b |-> b[i]]
        /\ \A i \in DOMAIN b : i \in DOMAIN entries /\ b[i] = entries[i] /\ b[i].status = "approved"
    BY <1>1 DEF Time!Billable
  <1>5. \A i \in DOMAIN b : b[i] \in Time(c)!Entry
    BY <1>4, TimeEntryType DEF TimeIInv
  <1>6. t.ids = ids /\ t.number = 0 /\ t.bill = b
    BY <1>2
  <1>7. TimeBilling(c, t)'
    BY <1>2, <1>3, <1>4, <1>5, <1>6 DEF TimeBilling
  <1> QED
    BY <1>3, <1>7, TimeReading DEF TimeUnderway

LEMMA TimeReadNumberStep ==
  ASSUME NEW c, TimeIInv(c), NEW r \in TimeCase[c].req, Time(c)!ReadNumber(r)
  PROVE  TimeIInv(c)'
  <1>1. PICK u : u = txn[r]
    OBVIOUS
  <1>2. PICK n : n = Time(c)!LastNumber + 1
    OBVIOUS
  <1>3. PICK t : t = [u EXCEPT !.number = n]
    OBVIOUS
  <1>4. txn' = [txn EXCEPT ![r] = t]
        /\ UNCHANGED <<project, entries, links, cost, invoices, raced>> /\ u.op = "bill"
    BY <1>1, <1>2, <1>3 DEF Time!ReadNumber
  <1>5. TimeBilling(c, u)
    <2>1. TimeUnderway(c, u)
      BY <1>1 DEF TimeIInv, TimeTxnOK
    <2> QED
      BY <1>4, <2>1 DEF TimeUnderway, Time!Idle, TimeEditing, TimeLinking
  <1>6. n \in Nat
    BY <1>2, TimeInvoicesType DEF TimeIInv
  <1>7. /\ t.ids = u.ids /\ t.number = n /\ t.bill = u.bill
        /\ t = [op |-> "bill", ids |-> t.ids, number |-> t.number, bill |-> t.bill]
    BY <1>3, <1>5 DEF TimeBilling
  <1>8. TimeBilling(c, t)'
    BY <1>4, <1>5, <1>6, <1>7 DEF TimeBilling
  <1> QED
    BY <1>4, <1>8, TimeReading DEF TimeUnderway

LEMMA TimeReadLinksStep ==
  ASSUME NEW c, TimeIInv(c), NEW r \in TimeCase[c].req, NEW p \in TimeCase[c].projects,
         NEW x \in TimeCase[c].expenses, NEW op \in {"link", "unlink"},
         Time(c)!ReadLinks(r, op, p, x)
  PROVE  TimeIInv(c)'
  <1>1. PICK l : l = [project |-> p, expense |-> x]
    OBVIOUS
  <1>2. PICK s : s = Time(c)!Linked(Time(c)!SymDiff(links, {l}), p)
    OBVIOUS
  <1>3. PICK ls : ls = links
    OBVIOUS
  <1>4. PICK t : t = [op |-> op, link |-> l, read |-> ls, sum |-> s]
    OBVIOUS
  <1>5. txn' = [txn EXCEPT ![r] = t]
        /\ UNCHANGED <<project, entries, links, cost, invoices, raced>>
    BY <1>1, <1>2, <1>3, <1>4, Zenon DEF Time!ReadLinks
  <1>6. l \in TimeLink(c) /\ l.project = p
    BY <1>1 DEF TimeLink
  <1>7. s = Time(c)!Linked(Time(c)!SymDiff(ls, {l}), p)'
    BY <1>2, <1>3, <1>5 DEF Time!Linked
  <1>8. t.op = op /\ t.link = l /\ t.read = ls /\ t.sum = s
    BY <1>4
  <1>9. TimeLinking(c, t)'
    BY <1>4, <1>6, <1>7, <1>8 DEF TimeLinking
  <1> QED
    BY <1>5, <1>9, TimeReading DEF TimeUnderway

LEMMA TimeRollbackStep ==
  ASSUME NEW c, TimeIInv(c), NEW r \in TimeCase[c].req, Time(c)!Rollback(r)
  PROVE  TimeIInv(c)'
  BY TimeReading, TimeIdleOK DEF Time!Rollback

-----------------------------------------------------------------------------
(* Writes to one entry.                                                    *)

LEMMA TimeTotalType ==
  ASSUME NEW c, Time(c)!ProjectsAssumption, NEW m \in Nat, NEW b
  PROVE  Time(c)!Total(m, b) \in Nat
  <1>1. PICK n \in Nat : n = 2 * m * TimeCase[c].rate + 60
    BY DEF Time!ProjectsAssumption
  <1>2. n \div 120 \in Nat
    OBVIOUS
  <1> QED
    BY <1>1, <1>2 DEF Time!Total

\* Writing e leaves the entry as billed as it was.
TimeKeeps(c, e, i) == \/ /\ e.status = entries[i].status /\ e.stray = entries[i].stray
                         /\ e.invoice = entries[i].invoice
                      \/ entries[i].status = "draft" /\ e.status # "billed"

LEMMA TimeEntryWrite ==
  ASSUME NEW c, TimeIInv(c), NEW r \in TimeCase[c].req, NEW i \in DOMAIN entries,
         NEW e \in Time(c)!Entry, entries' = [entries EXCEPT ![i] = e],
         txn' = [txn EXCEPT ![r] = Time(c)!Idle], UNCHANGED <<project, links, cost, invoices>>,
         raced' \in BOOLEAN, raced => raced', ~raced' => TimeKeeps(c, e, i)
  PROVE  TimeIInv(c)'
  <1>1. i \in 1..Len(entries) /\ DOMAIN entries = 1..Len(entries)
    BY LenProperties DEF TimeIInv, TimeTypesOK
  <1>2. /\ entries' \in Seq(Time(c)!Entry) /\ DOMAIN entries' = DOMAIN entries
        /\ \A j \in DOMAIN entries : entries'[j] = IF j = i THEN e ELSE entries[j]
    <2>1. /\ entries' \in Seq(Time(c)!Entry) /\ Len(entries') = Len(entries)
          /\ \A j \in 1..Len(entries) : entries'[j] = IF j = i THEN e ELSE entries[j]
      BY <1>1, ExceptSeq DEF TimeIInv, TimeTypesOK
    <2> QED
      BY <1>1, <2>1, LenProperties
  <1>3. TimeTxnOK(c)'
    BY <1>2, TimeSlotTxn, TimeIdleOK DEF TimeIInv
  <1>4. TimeTypesOK(c)'
    BY <1>2 DEF TimeIInv, TimeTypesOK, TimeRowOK
  <1>5. ASSUME ~raced' PROVE TimeLinesOK(c)'
    <2>1. TimeLinesOK(c) /\ TimeKeeps(c, e, i)
      BY <1>5 DEF TimeIInv
    <2>2. \A k, j : Time(c)!On(k, j)' <=> Time(c)!On(k, j)
      BY DEF Time!On
    <2>3. \A k \in DOMAIN invoices : \A j :
            Time(c)!On(k, j) => j \in DOMAIN entries /\ entries'[j].status = "billed"
      BY <1>2, <2>1 DEF TimeLinesOK, TimeKeeps
    <2>4. \A j \in DOMAIN entries :
            entries'[j].status = "billed" /\ ~entries'[j].stray =>
              /\ entries[j].status = "billed" /\ ~entries[j].stray
              /\ entries'[j].invoice = entries[j].invoice
      BY <1>2, <2>1 DEF TimeKeeps
    <2> QED
      BY <1>2, <2>1, <2>2, <2>3, <2>4 DEF TimeLinesOK
  <1>6. ~raced' => TimeCostsOK(c)'
    BY DEF TimeIInv, TimeCostsOK, Time!Linked
  <1> QED
    BY <1>3, <1>4, <1>5, <1>6 DEF TimeIInv

\* Of who finishes: the entry it has read, and what is unless it raced.
LEMMA TimeFinishing ==
  ASSUME NEW c, TimeIInv(c), NEW r \in TimeCase[c].req,
         txn[r].op \in {"update", "delete", "stop", "approve"}, Time(c)!FinishEntry(r)
  PROVE  LET i == txn[r].id IN
         /\ i \in DOMAIN entries /\ entries[i] \in Time(c)!Entry /\ txn[r].read \in Time(c)!Entry
         /\ raced' \in BOOLEAN /\ (raced => raced')
         /\ ~raced' => Time(c)!Accepts(txn[r].op, entries[i])
         /\ txn' = [txn EXCEPT ![r] = Time(c)!Idle] /\ UNCHANGED <<project, links, cost, invoices>>
  <1>1. PICK t : t = txn[r]
    OBVIOUS
  <1>2. TimeEditing(c, t)
    <2>1. TimeUnderway(c, t)
      BY <1>1 DEF TimeIInv, TimeTxnOK
    <2> QED
      BY <1>1, <2>1 DEF TimeUnderway, Time!Idle, TimeBilling, TimeLinking
  <1>3. entries[t.id] \in Time(c)!Entry /\ t.id \in DOMAIN entries
    BY <1>2, TimeEntryType DEF TimeEditing, TimeIInv
  <1>4. raced' = (raced \/ entries[t.id] # t.read) /\ raced \in BOOLEAN
    BY <1>1 DEF Time!FinishEntry, TimeIInv, TimeTypesOK
  <1>5. ~raced' => Time(c)!Accepts(t.op, entries[t.id])
    BY <1>2, <1>4 DEF TimeEditing
  <1>6. t.read \in Time(c)!Entry
    BY <1>2 DEF TimeEditing
  <1>7. txn' = [txn EXCEPT ![r] = Time(c)!Idle] /\ UNCHANGED <<project, links, cost, invoices>>
    BY DEF Time!FinishEntry
  <1> QED
    BY <1>1, <1>3, <1>4, <1>5, <1>6, <1>7

LEMMA TimeCommitMinutesStep ==
  ASSUME NEW c, Time(c)!ProjectsAssumption, TimeIInv(c), NEW r \in TimeCase[c].req,
         NEW m \in TimeCase[c].minutes, Time(c)!CommitMinutes(r, m)
  PROVE  TimeIInv(c)'
  <1>1. PICK t : t = txn[r]
    OBVIOUS
  <1>2. t.op = "update" /\ Time(c)!FinishEntry(r)
    BY <1>1 DEF Time!CommitMinutes
  <1>3. PICK i : i = t.id
    OBVIOUS
  <1>4. PICK n : n = Time(c)!Total(m, t.read.billable)
    OBVIOUS
  <1>5. PICK e : e = [entries[i] EXCEPT !.minutes = m, !.total = n]
    OBVIOUS
  <1>6. /\ i \in DOMAIN entries /\ entries[i] \in Time(c)!Entry
        /\ raced' \in BOOLEAN /\ (raced => raced')
        /\ txn' = [txn EXCEPT ![r] = Time(c)!Idle] /\ UNCHANGED <<project, links, cost, invoices>>
    BY <1>1, <1>2, <1>3, TimeFinishing
  <1>7. m \in Nat /\ n \in Nat
    BY <1>4, TimeTotalType DEF Time!ProjectsAssumption
  <1>8. e \in Time(c)!Entry /\ e.status = entries[i].status /\ e.stray = entries[i].stray
        /\ e.invoice = entries[i].invoice
    BY <1>5, <1>6, <1>7 DEF Time!Entry
  <1>9. entries' = [entries EXCEPT ![i] = e]
    BY <1>1, <1>3, <1>4, <1>5 DEF Time!CommitMinutes
  <1>10. ~raced' => TimeKeeps(c, e, i)
    BY <1>8 DEF TimeKeeps
  <1> QED
    BY <1>6, <1>8, <1>9, <1>10, TimeEntryWrite

LEMMA TimeCommitBillableStep ==
  ASSUME NEW c, Time(c)!ProjectsAssumption, TimeIInv(c), NEW r \in TimeCase[c].req,
         NEW b \in BOOLEAN, Time(c)!CommitBillable(r, b)
  PROVE  TimeIInv(c)'
  <1>1. PICK t : t = txn[r]
    OBVIOUS
  <1>2. t.op = "update" /\ Time(c)!FinishEntry(r)
    BY <1>1 DEF Time!CommitBillable
  <1>3. PICK i : i = t.id
    OBVIOUS
  <1>4. PICK n : n = Time(c)!Total(t.read.minutes, b)
    OBVIOUS
  <1>5. PICK e : e = [entries[i] EXCEPT !.billable = b, !.total = n]
    OBVIOUS
  <1>6. /\ i \in DOMAIN entries /\ entries[i] \in Time(c)!Entry /\ t.read \in Time(c)!Entry
        /\ raced' \in BOOLEAN /\ (raced => raced')
        /\ txn' = [txn EXCEPT ![r] = Time(c)!Idle] /\ UNCHANGED <<project, links, cost, invoices>>
    BY <1>1, <1>2, <1>3, TimeFinishing
  <1>7. n \in Nat
    <2>1. t.read.minutes \in Nat
      BY <1>6 DEF Time!Entry
    <2> QED
      BY <1>4, <2>1, TimeTotalType
  <1>8. e \in Time(c)!Entry /\ e.status = entries[i].status /\ e.stray = entries[i].stray
        /\ e.invoice = entries[i].invoice
    BY <1>5, <1>6, <1>7 DEF Time!Entry
  <1>9. entries' = [entries EXCEPT ![i] = e]
    BY <1>1, <1>3, <1>4, <1>5 DEF Time!CommitBillable
  <1>10. ~raced' => TimeKeeps(c, e, i)
    BY <1>8 DEF TimeKeeps
  <1> QED
    BY <1>6, <1>8, <1>9, <1>10, TimeEntryWrite

LEMMA TimeCommitStopStep ==
  ASSUME NEW c, Time(c)!ProjectsAssumption, TimeIInv(c), NEW r \in TimeCase[c].req,
         NEW m \in TimeCase[c].minutes, Time(c)!CommitStop(r, m)
  PROVE  TimeIInv(c)'
  <1>1. PICK t : t = txn[r]
    OBVIOUS
  <1>2. t.op = "stop" /\ Time(c)!FinishEntry(r)
    BY <1>1 DEF Time!CommitStop
  <1>3. PICK i : i = t.id
    OBVIOUS
  <1>4. PICK n : n = Time(c)!Total(m, t.read.billable)
    OBVIOUS
  <1>5. PICK e : e = [entries[i] EXCEPT !.timer = "stopped", !.minutes = m, !.total = n]
    OBVIOUS
  <1>6. /\ i \in DOMAIN entries /\ entries[i] \in Time(c)!Entry
        /\ raced' \in BOOLEAN /\ (raced => raced')
        /\ txn' = [txn EXCEPT ![r] = Time(c)!Idle] /\ UNCHANGED <<project, links, cost, invoices>>
    BY <1>1, <1>2, <1>3, TimeFinishing
  <1>7. m \in Nat /\ n \in Nat
    BY <1>4, TimeTotalType DEF Time!ProjectsAssumption
  <1>8. e \in Time(c)!Entry /\ e.status = entries[i].status /\ e.stray = entries[i].stray
        /\ e.invoice = entries[i].invoice
    BY <1>5, <1>6, <1>7 DEF Time!Entry
  <1>9. entries' = [entries EXCEPT ![i] = e]
    BY <1>1, <1>3, <1>4, <1>5 DEF Time!CommitStop
  <1>10. ~raced' => TimeKeeps(c, e, i)
    BY <1>8 DEF TimeKeeps
  <1> QED
    BY <1>6, <1>8, <1>9, <1>10, TimeEntryWrite

\* Deleted or approved: it was a draft.
LEMMA TimeCommitStatusStep ==
  ASSUME NEW c, TimeIInv(c), NEW r \in TimeCase[c].req,
         Time(c)!CommitDelete(r) \/ Time(c)!CommitApprove(r)
  PROVE  TimeIInv(c)'
  <1>1. PICK t : t = txn[r]
    OBVIOUS
  <1>2. t.op \in {"delete", "approve"} /\ Time(c)!FinishEntry(r)
    BY <1>1 DEF Time!CommitDelete, Time!CommitApprove
  <1>3. PICK i : i = t.id
    OBVIOUS
  <1>4. PICK s \in {"deleted", "approved"} : entries' = [entries EXCEPT ![i].status = s]
    BY <1>1, <1>3 DEF Time!CommitDelete, Time!CommitApprove
  <1>5. PICK e : e = [entries[i] EXCEPT !.status = s]
    OBVIOUS
  <1>6. /\ i \in DOMAIN entries /\ entries[i] \in Time(c)!Entry
        /\ raced' \in BOOLEAN /\ (raced => raced')
        /\ ~raced' => Time(c)!Accepts(t.op, entries[i])
        /\ txn' = [txn EXCEPT ![r] = Time(c)!Idle] /\ UNCHANGED <<project, links, cost, invoices>>
    BY <1>1, <1>2, <1>3, TimeFinishing
  <1>7. e \in Time(c)!Entry /\ e.status = s
    BY <1>4, <1>5, <1>6 DEF Time!Entry
  <1>8. ~raced' => entries[i].status = "draft"
    BY <1>2, <1>6 DEF Time!Accepts
  <1>9. entries' = [entries EXCEPT ![i] = e]
    BY <1>4, <1>5
  <1>10. ~raced' => TimeKeeps(c, e, i)
    BY <1>4, <1>7, <1>8 DEF TimeKeeps
  <1> QED
    BY <1>6, <1>7, <1>9, <1>10, TimeEntryWrite

-----------------------------------------------------------------------------
(* Entries created.                                                        *)

LEMMA TimeCreateEntryStep ==
  ASSUME NEW c, Time(c)!ProjectsAssumption, TimeIInv(c), NEW p \in TimeCase[c].projects,
         NEW m \in Nat, NEW b \in BOOLEAN, NEW timer \in {"none", "running"},
         Time(c)!CreateEntry(p, m, b, timer)
  PROVE  TimeIInv(c)'
  <1>1. PICK n : n = Time(c)!Total(m, b)
    OBVIOUS
  <1>2. PICK e : e = [status |-> "draft", project |-> p, minutes |-> m, billable |-> b,
                      timer |-> timer, total |-> n, invoice |-> 0, stray |-> FALSE]
    OBVIOUS
  <1>3. n \in Nat
    BY <1>1, TimeTotalType
  <1>4. e \in Time(c)!Entry /\ e.status = "draft"
    BY <1>2, <1>3 DEF Time!Entry, Time!ProjectsAssumption
  <1>5. entries' = Append(entries, e) /\ UNCHANGED <<project, links, cost, invoices, txn, raced>>
    BY <1>1, <1>2 DEF Time!CreateEntry
  <1>6. /\ entries' \in Seq(Time(c)!Entry) /\ DOMAIN entries = 1..Len(entries)
        /\ DOMAIN entries' = 1..(Len(entries) + 1) /\ Len(entries) \in Nat
        /\ \A j \in DOMAIN entries : entries'[j] = entries[j]
        /\ entries'[Len(entries) + 1] = e
    BY <1>4, <1>5, AppendProperties, LenProperties DEF TimeIInv, TimeTypesOK
  <1>7. DOMAIN entries \subseteq DOMAIN entries'
    BY <1>6
  <1>8. TimeTxnOK(c)'
    BY <1>5, <1>7, TimeSlotsStay DEF TimeIInv
  <1>9. TimeTypesOK(c)'
    BY <1>5, <1>6 DEF TimeIInv, TimeTypesOK, TimeRowOK
  <1>10. ASSUME ~raced' PROVE TimeLinesOK(c)'
    <2>1. TimeLinesOK(c)
      BY <1>5, <1>10 DEF TimeIInv
    <2>2. \A k, j : Time(c)!On(k, j)' <=> Time(c)!On(k, j)
      BY <1>5 DEF Time!On
    <2>3. \A j \in DOMAIN entries' : entries'[j].status = "billed" => j \in DOMAIN entries
      BY <1>4, <1>6
    <2> QED
      BY <1>5, <1>6, <1>7, <2>1, <2>2, <2>3 DEF TimeLinesOK
  <1>11. ~raced' => TimeCostsOK(c)'
    BY <1>5 DEF TimeIInv, TimeCostsOK, Time!Linked
  <1> QED
    BY <1>8, <1>9, <1>10, <1>11 DEF TimeIInv

LEMMA TimeUpdateProjectStep ==
  ASSUME NEW c, TimeIInv(c), NEW p \in TimeCase[c].projects, Time(c)!UpdateProject(p, "completed")
  PROVE  TimeIInv(c)'
  <1>1. PICK row : row = [project[p] EXCEPT !.status = "completed"]
    OBVIOUS
  <1>2. /\ project[p].status # "deleted" /\ project' = [project EXCEPT ![p] = row]
        /\ UNCHANGED <<entries, links, cost, invoices, txn, raced>>
    BY <1>1 DEF Time!UpdateProject
  <1>3. TimeRowOK(c, project[p]) /\ project = [q \in TimeCase[c].projects |-> project[q]]
    BY DEF TimeIInv, TimeTypesOK
  <1>4. TimeRowOK(c, row) /\ row.cost = project[p].cost
    BY <1>1, <1>3 DEF TimeRowOK
  <1>5. /\ project' = [q \in TimeCase[c].projects |-> project'[q]]
        /\ \A q \in TimeCase[c].projects : project'[q] = IF q = p THEN row ELSE project[q]
    BY <1>2, <1>3
  <1>6. TimeTxnOK(c)'
    BY <1>2, TimeSlotsStay DEF TimeIInv
  <1>7. \A q \in TimeCase[c].projects : TimeRowOK(c, project'[q])
    BY <1>4, <1>5 DEF TimeIInv, TimeTypesOK
  <1>8. TimeTypesOK(c)'
    BY <1>2, <1>5, <1>7 DEF TimeIInv, TimeTypesOK, TimeRowOK
  <1>9. ~raced' => TimeLinesOK(c)'
    BY <1>2 DEF TimeIInv, TimeLinesOK, Time!On
  <1>10. \A ls, q : Time(c)!Linked(ls, q)' = Time(c)!Linked(ls, q)
    BY <1>2 DEF Time!Linked
  <1>11. ~raced' => TimeCostsOK(c)'
    BY <1>2, <1>4, <1>5, <1>10 DEF TimeIInv, TimeCostsOK
  <1> QED
    BY <1>6, <1>8, <1>9, <1>11 DEF TimeIInv

\* The links of another project are left alone.
LEMMA TimeOtherLinks ==
  ASSUME NEW c, NEW A, NEW B, NEW q, \A l : l.project = q => (l \in A <=> l \in B)
  PROVE  Time(c)!Linked(A, q) = Time(c)!Linked(B, q)
  <1>1. {x \in A : x.project = q} = {x \in B : x.project = q}
    OBVIOUS
  <1> QED
    BY <1>1 DEF Time!Linked

LEMMA TimeDropProjectStep ==
  ASSUME NEW c, TimeIInv(c), NEW p \in TimeCase[c].projects, Time(c)!DropProject(p)
  PROVE  TimeIInv(c)'
  <1>1. PICK row : row = [project[p] EXCEPT !.status = "deleted"]
    OBVIOUS
  <1>2. /\ project' = [project EXCEPT ![p] = row] /\ links' = {l \in links : l.project # p}
        /\ UNCHANGED <<entries, cost, invoices, txn, raced>>
    BY <1>1 DEF Time!DropProject
  <1>3. TimeRowOK(c, project[p]) /\ project = [q \in TimeCase[c].projects |-> project[q]]
    BY DEF TimeIInv, TimeTypesOK
  <1>4. TimeRowOK(c, row) /\ row.status = "deleted"
    BY <1>1, <1>3 DEF TimeRowOK
  <1>5. /\ project' = [q \in TimeCase[c].projects |-> project'[q]]
        /\ \A q \in TimeCase[c].projects : project'[q] = IF q = p THEN row ELSE project[q]
    BY <1>2, <1>3
  <1>6. TimeTxnOK(c)'
    BY <1>2, TimeSlotsStay DEF TimeIInv
  <1>7. \A q \in TimeCase[c].projects : TimeRowOK(c, project'[q])
    BY <1>4, <1>5 DEF TimeIInv, TimeTypesOK
  <1>8. TimeTypesOK(c)'
    BY <1>2, <1>5, <1>7 DEF TimeIInv, TimeTypesOK, TimeRowOK
  <1>9. ~raced' => TimeLinesOK(c)'
    BY <1>2 DEF TimeIInv, TimeLinesOK, Time!On
  <1>10. \A ls, q : Time(c)!Linked(ls, q)' = Time(c)!Linked(ls, q)
    BY <1>2 DEF Time!Linked
  <1>11. PICK ls : ls = links'
    OBVIOUS
  <1>12. \A q \in TimeCase[c].projects : q # p => Time(c)!Linked(ls, q) = Time(c)!Linked(links, q)
    BY <1>2, <1>11, TimeOtherLinks
  <1>13. ASSUME ~raced' PROVE TimeCostsOK(c)'
    <2>1. TimeCostsOK(c)
      BY <1>2, <1>13 DEF TimeIInv
    <2>2. \A q \in TimeCase[c].projects :
            project'[q].status # "deleted" => project'[q].cost = Time(c)!Linked(ls, q)'
      BY <1>4, <1>5, <1>10, <1>12, <2>1 DEF TimeCostsOK
    <2> QED
      BY <1>11, <2>2 DEF TimeCostsOK, Time!Linked
  <1> QED
    BY <1>6, <1>8, <1>9, <1>13 DEF TimeIInv

\* A link is made or removed: the cost follows unless the links had changed.
LEMMA TimeCommitLinksStep ==
  ASSUME NEW c, TimeIInv(c), NEW r \in TimeCase[c].req, Time(c)!CommitLinks(r)
  PROVE  TimeIInv(c)'
  <1>1. PICK t : t = txn[r]
    OBVIOUS
  <1>2. PICK p : p = t.link.project
    OBVIOUS
  <1>3. PICK row : row = [project[p] EXCEPT !.cost = t.sum]
    OBVIOUS
  <1>4. /\ t.op \in {"link", "unlink"} /\ links' = Time(c)!SymDiff(links, {t.link})
        /\ project' = [project EXCEPT ![p] = row] /\ txn' = [txn EXCEPT ![r] = Time(c)!Idle]
        /\ raced' = (raced \/ links # t.read) /\ UNCHANGED <<entries, cost, invoices>>
    BY <1>1, <1>2, <1>3 DEF Time!CommitLinks
  <1>5. TimeLinking(c, t)
    <2>1. TimeUnderway(c, t)
      BY <1>1 DEF TimeIInv, TimeTxnOK
    <2> QED
      BY <1>4, <2>1 DEF TimeUnderway, Time!Idle, TimeEditing, TimeBilling
  <1>6. /\ p \in TimeCase[c].projects /\ t.link \in TimeLink(c)
        /\ t.sum = Time(c)!Linked(Time(c)!SymDiff(t.read, {t.link}), p)
    BY <1>2, <1>5 DEF TimeLinking, TimeLink
  <1>7. TimeRowOK(c, project[p]) /\ project = [q \in TimeCase[c].projects |-> project[q]]
    BY <1>6 DEF TimeIInv, TimeTypesOK
  <1>8. TimeRowOK(c, row) /\ row.cost = t.sum
    BY <1>3, <1>7 DEF TimeRowOK
  <1>9. /\ project' = [q \in TimeCase[c].projects |-> project'[q]]
        /\ \A q \in TimeCase[c].projects : project'[q] = IF q = p THEN row ELSE project[q]
    BY <1>4, <1>6, <1>7
  <1>10. TimeTxnOK(c)'
    BY <1>4, TimeSlotTxn, TimeIdleOK DEF TimeIInv
  <1>11. \A q \in TimeCase[c].projects : TimeRowOK(c, project'[q])
    BY <1>8, <1>9 DEF TimeIInv, TimeTypesOK
  <1>12. links' \subseteq TimeLink(c)
    BY <1>4, <1>6 DEF TimeIInv, TimeTypesOK, Time!SymDiff
  <1>13. TimeTypesOK(c)'
    BY <1>4, <1>9, <1>11, <1>12 DEF TimeIInv, TimeTypesOK, TimeRowOK
  <1>14. ~raced' => TimeLinesOK(c)'
    BY <1>4 DEF TimeIInv, TimeLinesOK, Time!On
  <1>15. PICK ls : ls = links'
    OBVIOUS
  <1>16. \A q : Time(c)!Linked(ls, q)' = Time(c)!Linked(ls, q)
    BY <1>4 DEF Time!Linked
  <1>17. \A q \in TimeCase[c].projects : q # p => Time(c)!Linked(ls, q) = Time(c)!Linked(links, q)
    BY <1>2, <1>4, <1>15, TimeOtherLinks DEF Time!SymDiff
  <1>18. ASSUME ~raced' PROVE TimeCostsOK(c)'
    <2>1. TimeCostsOK(c) /\ links = t.read
      BY <1>4, <1>18 DEF TimeIInv, TimeTypesOK
    <2>2. Time(c)!Linked(ls, p) = t.sum
      BY <1>4, <1>6, <1>15, <2>1
    <2>3. \A q \in TimeCase[c].projects :
            project'[q].status # "deleted" => project'[q].cost = Time(c)!Linked(ls, q)'
      BY <1>8, <1>9, <1>16, <1>17, <2>1, <2>2 DEF TimeCostsOK
    <2> QED
      BY <1>15, <2>3 DEF TimeCostsOK, Time!Linked
  <1> QED
    BY <1>10, <1>13, <1>14, <1>18 DEF TimeIInv

-----------------------------------------------------------------------------
(* Bills.                                                                  *)

\* The entries are marked by the bill t, on the invoice n.
TimeMarks(c, t, n) == LET ids == {i \in t.ids : entries[i].status # "deleted"}
               IN entries' = [i \in DOMAIN entries |->
                    IF i \in ids
                    THEN [entries[i] EXCEPT !.status = "billed", !.invoice = n,
                                            !.stray = @ \/ i \notin DOMAIN t.bill]
                    ELSE entries[i]]

LEMMA TimeMarkedEntries ==
  ASSUME NEW c, TimeTypesOK(c), NEW t, TimeBilling(c, t), NEW n \in 0..TimeCase[c].invoices,
         TimeMarks(c, t, n)
  PROVE  /\ entries' \in Seq(Time(c)!Entry) /\ DOMAIN entries' = DOMAIN entries
         /\ \A i \in DOMAIN entries :
              IF i \in t.ids /\ entries[i].status # "deleted"
              THEN /\ entries'[i].status = "billed" /\ entries'[i].invoice = n
                   /\ ~entries'[i].stray => i \in DOMAIN t.bill
              ELSE entries'[i] = entries[i]
  <1>1. DOMAIN entries = 1..Len(entries) /\ Len(entries) \in Nat
    BY LenProperties DEF TimeTypesOK
  <1>2. DOMAIN entries' = DOMAIN entries
    BY DEF TimeMarks
  <1>3. ASSUME NEW i \in DOMAIN entries
        PROVE  /\ entries'[i] \in Time(c)!Entry
               /\ IF i \in t.ids /\ entries[i].status # "deleted"
                  THEN /\ entries'[i].status = "billed" /\ entries'[i].invoice = n
                       /\ ~entries'[i].stray => i \in DOMAIN t.bill
                  ELSE entries'[i] = entries[i]
    <2>1. PICK e \in Time(c)!Entry : e = entries[i]
      BY TimeEntryType
    <2>2. CASE i \in t.ids /\ entries[i].status # "deleted"
      <3>1. PICK s : s = (e.stray \/ i \notin DOMAIN t.bill)
        OBVIOUS
      <3>2. s \in BOOLEAN /\ (~s => i \in DOMAIN t.bill)
        BY <3>1, Zenon
      <3>3. PICK f : f = [e EXCEPT !.status = "billed", !.invoice = n, !.stray = s]
        OBVIOUS
      <3>4. f \in Time(c)!Entry /\ f.status = "billed" /\ f.invoice = n /\ f.stray = s
        BY <3>2, <3>3 DEF Time!Entry
      <3>5. entries'[i] = f
        BY <2>1, <2>2, <3>1, <3>3 DEF TimeMarks
      <3> QED
        BY <2>2, <3>2, <3>4, <3>5
    <2>3. CASE ~(i \in t.ids /\ entries[i].status # "deleted")
      <3>1. entries'[i] = entries[i]
        BY <2>3 DEF TimeMarks
      <3> QED
        BY <2>1, <2>3, <3>1
    <2> QED
      BY <2>2, <2>3
  <1>4. entries' = [i \in 1..Len(entries) |-> entries'[i]]
    BY <1>1 DEF TimeMarks
  <1>5. entries' \in Seq(Time(c)!Entry)
    BY <1>1, <1>3, <1>4, IsASeq
  <1> QED
    BY <1>2, <1>3, <1>5

LEMMA TimeCommitBillStep ==
  ASSUME NEW c, Time(c)!ProjectsAssumption, TimeIInv(c), NEW r \in TimeCase[c].req,
         Time(c)!CommitBill(r)
  PROVE  TimeIInv(c)'
  <1>1. PICK t : t = txn[r]
    OBVIOUS
  <1>2. PICK n : n = Len(invoices) + 1
    OBVIOUS
  <1>3. PICK v : v = [number |-> t.number, lines |-> [i \in DOMAIN t.bill |-> t.bill[i].total]]
    OBVIOUS
  <1>4. /\ t.op = "bill" /\ Len(invoices) < TimeCase[c].invoices /\ invoices' = Append(invoices, v)
        /\ TimeMarks(c, t, n) /\ txn' = [txn EXCEPT ![r] = Time(c)!Idle]
        /\ raced' = (raced \/ \E i \in DOMAIN t.bill : entries[i] # t.bill[i])
        /\ UNCHANGED <<links, cost>>
    BY <1>1, <1>2, <1>3 DEF Time!CommitBill, TimeMarks
  <1>5. TimeBilling(c, t)
    <2>1. TimeUnderway(c, t)
      BY <1>1 DEF TimeIInv, TimeTxnOK
    <2> QED
      BY <1>4, <2>1 DEF TimeUnderway, Time!Idle, TimeEditing, TimeLinking
  <1>6. /\ n \in 0..TimeCase[c].invoices /\ n \in 1..n /\ n \notin DOMAIN invoices
        /\ DOMAIN invoices = 1..Len(invoices) /\ Len(invoices) \in Nat
    BY <1>2, <1>4, TimeInvoicesType DEF TimeIInv, Time!ProjectsAssumption
  <1>7. /\ entries' \in Seq(Time(c)!Entry) /\ DOMAIN entries' = DOMAIN entries
        /\ \A i \in DOMAIN entries :
             IF i \in t.ids /\ entries[i].status # "deleted"
             THEN /\ entries'[i].status = "billed" /\ entries'[i].invoice = n
                  /\ ~entries'[i].stray => i \in DOMAIN t.bill
             ELSE entries'[i] = entries[i]
    BY <1>4, <1>5, <1>6, TimeMarkedEntries DEF TimeIInv
  <1>8. v \in TimeInvoice(c) /\ DOMAIN v.lines = DOMAIN t.bill
    <2>1. \A i \in DOMAIN t.bill : t.bill[i].total \in Nat
      BY <1>5 DEF TimeBilling, Time!Entry
    <2>2. DOMAIN t.bill \in SUBSET (Nat \ {0})
      BY <1>5, LenProperties DEF TimeBilling, TimeIInv, TimeTypesOK
    <2>3. PICK ls : ls = [i \in DOMAIN t.bill |-> t.bill[i].total]
      OBVIOUS
    <2>4. ls \in [DOMAIN t.bill -> Nat]
      BY <2>1, <2>3
    <2>5. ls \in UNION {[d -> Nat] : d \in SUBSET (Nat \ {0})}
      BY <2>2, <2>4
    <2>6. v = [number |-> t.number, lines |-> ls] /\ t.number \in Nat /\ DOMAIN ls = DOMAIN t.bill
      BY <1>3, <1>5, <2>3 DEF TimeBilling
    <2> QED
      BY <2>5, <2>6 DEF TimeInvoice
  <1>9. /\ invoices' \in Seq(TimeInvoice(c)) /\ DOMAIN invoices' = 1..n
        /\ \A k \in DOMAIN invoices : invoices'[k] = invoices[k]
        /\ invoices'[n] = v
    BY <1>2, <1>4, <1>6, <1>8, AppendProperties, LenProperties DEF TimeIInv, TimeTypesOK
  <1>10. TimeTxnOK(c)'
    BY <1>4, <1>7, TimeSlotTxn, TimeIdleOK DEF TimeIInv
  <1>11. /\ project' = [p \in TimeCase[c].projects |-> project'[p]]
         /\ \A p \in TimeCase[c].projects :
              /\ TimeRowOK(c, project'[p]) /\ project'[p].cost = project[p].cost
              /\ project'[p].status = project[p].status
    <2>1. project' = [p \in TimeCase[c].projects |-> project'[p]]
      BY <1>1, Zenon DEF Time!CommitBill
    <2>2. ASSUME NEW p \in TimeCase[c].projects
          PROVE  project'[p] = project[p] \/ \E x : project'[p] = [project[p] EXCEPT !.revenue = x]
      BY <1>1 DEF Time!CommitBill
    <2>3. \A p \in TimeCase[c].projects : TimeRowOK(c, project[p])
      BY DEF TimeIInv, TimeTypesOK
    <2> QED
      BY <2>1, <2>2, <2>3 DEF TimeRowOK
  <1>12. raced' \in BOOLEAN /\ (raced => raced')
         /\ (~raced' => \A i \in DOMAIN t.bill : entries[i] = t.bill[i])
    BY <1>4 DEF TimeIInv, TimeTypesOK
  <1>13. TimeTypesOK(c)'
    BY <1>4, <1>7, <1>9, <1>11, <1>12 DEF TimeIInv, TimeTypesOK, TimeRowOK
  <1>14. ASSUME ~raced' PROVE TimeLinesOK(c)'
    <2>1. TimeLinesOK(c)
      BY <1>12, <1>14 DEF TimeIInv
    <2>2. \A i \in DOMAIN t.bill : /\ i \in DOMAIN entries /\ i \in t.ids
                                   /\ entries[i].status = "approved"
      BY <1>5, <1>12, <1>14 DEF TimeBilling
    <2>3. \A k \in DOMAIN invoices : \A i : Time(c)!On(k, i)' <=> Time(c)!On(k, i)
      BY <1>9 DEF Time!On
    <2>4. \A i : Time(c)!On(n, i)' <=> i \in DOMAIN t.bill
      BY <1>8, <1>9 DEF Time!On
    <2>5. \A k \in DOMAIN invoices' : k \in DOMAIN invoices \/ k = n
      BY <1>2, <1>6, <1>9
    <2>6. \A i \in DOMAIN t.bill : entries'[i].status = "billed"
      BY <1>7, <2>2
    <2>7. \A i \in DOMAIN entries : entries[i].status = "billed" => entries'[i].status = "billed"
      BY <1>7
    <2>8. \A k \in DOMAIN invoices' : \A i : Time(c)!On(k, i)' =>
            i \in DOMAIN entries' /\ entries'[i].status = "billed"
      BY <1>7, <2>1, <2>2, <2>3, <2>4, <2>5, <2>6, <2>7 DEF TimeLinesOK
    <2>9. \A k \in DOMAIN invoices : \A i : ~(Time(c)!On(k, i) /\ i \in DOMAIN t.bill)
      BY <2>1, <2>2 DEF TimeLinesOK
    <2>10. \A k, l \in DOMAIN invoices' : \A i : Time(c)!On(k, i)' /\ Time(c)!On(l, i)' => k = l
      BY <2>1, <2>3, <2>4, <2>5, <2>9 DEF TimeLinesOK
    <2>11. \A i \in DOMAIN entries' :
             entries'[i].status = "billed" /\ ~entries'[i].stray =>
               entries'[i].invoice \in DOMAIN invoices' /\ Time(c)!On(entries[i].invoice, i)'
      <3> SUFFICES ASSUME NEW i \in DOMAIN entries, entries'[i].status = "billed",
                          ~entries'[i].stray
                   PROVE  \E k \in DOMAIN invoices' : k = entries'[i].invoice /\ Time(c)!On(k, i)'
        BY <1>7 DEF Time!On
      <3>1. CASE i \in t.ids /\ entries[i].status # "deleted"
        BY <1>6, <1>7, <1>9, <2>4, <3>1
      <3>2. CASE ~(i \in t.ids /\ entries[i].status # "deleted")
        <4>1. entries'[i] = entries[i]
          BY <1>7, <3>2
        <4>2. entries[i].invoice \in DOMAIN invoices /\ Time(c)!On(entries[i].invoice, i)
          BY <2>1, <4>1 DEF TimeLinesOK
        <4>3. PICK k : k = entries[i].invoice
          OBVIOUS
        <4>4. k \in DOMAIN invoices /\ Time(c)!On(k, i)'
          BY <2>3, <4>2, <4>3
        <4> QED
          BY <1>6, <1>9, <4>1, <4>3, <4>4
      <3> QED
        BY <3>1, <3>2
    <2> QED
      BY <2>8, <2>10, <2>11 DEF TimeLinesOK, Time!On
  <1>15. \A p : Time(c)!Linked(links, p)' = Time(c)!Linked(links, p)
    BY <1>4 DEF Time!Linked
  <1>16. ~raced' => TimeCostsOK(c)'
    BY <1>11, <1>12, <1>15 DEF TimeIInv, TimeCostsOK
  <1> QED
    BY <1>10, <1>13, <1>14, <1>16 DEF TimeIInv

-----------------------------------------------------------------------------
(* The invariant.                                                          *)

LEMMA TimeSum ==
  ASSUME NEW c, NEW f
  PROVE  Time(c)!SumFunction(f) = SumFunction(f)
  BY Zenon DEF Time!SumFunction, Time!SumFunctionOnSet, Time!FoldFunctionOnSet, Time!MapThenFoldSet,
     SumFunction, SumFunctionOnSet, FoldFunctionOnSet, MapThenFoldSet

LEMMA TimeInitIInv ==
  ASSUME NEW c, Time(c)!ProjectsAssumption, Time(c)!Init
  PROVE  TimeIInv(c)
  <1>1. entries = <<>> /\ invoices = <<>> /\ links = {} /\ raced = FALSE
    BY DEF Time!Init
  <1>2. DOMAIN entries = {} /\ DOMAIN invoices = {} /\ entries \in Seq(Time(c)!Entry)
        /\ invoices \in Seq(TimeInvoice(c))
    BY <1>1, EmptySeq
  <1>3. TimeTypesOK(c)
    BY <1>1, <1>2 DEF Time!Init, TimeTypesOK, TimeRowOK
  <1>4. TimeTxnOK(c)
    BY DEF Time!Init, TimeTxnOK, TimeUnderway
  <1>5. TimeLinesOK(c)
    BY <1>2 DEF TimeLinesOK
  <1>6. TimeCostsOK(c)
    <2>1. \A p : {x \in links : x.project = p} = {}
      BY <1>1
    <2>2. \A p : Time(c)!Linked(links, p) = 0
      <3> TAKE p
      <3>1. PICK f : f = [l \in {x \in links : x.project = p} |-> cost[l.expense]]
        OBVIOUS
      <3>2. DOMAIN f = {}
        BY <2>1, <3>1
      <3>3. Time(c)!SumFunction(f) = 0
        BY <3>2, TimeSum, SumFunctionIs, SumEmpty DEF SumFunction
      <3> QED
        BY <3>1, <3>3 DEF Time!Linked
    <2> QED
      BY <2>2 DEF Time!Init, TimeCostsOK
  <1> QED
    BY <1>3, <1>4, <1>5, <1>6 DEF TimeIInv

LEMMA TimeNextStep ==
  ASSUME NEW c, Time(c)!ProjectsAssumption, TimeIInv(c), Time(c)!Next \/ UNCHANGED Time(c)!vars
  PROVE  TimeIInv(c)'
  <1>1. ASSUME NEW p \in TimeCase[c].projects, Time(c)!DropProject(p) PROVE TimeIInv(c)'
    BY <1>1, TimeDropProjectStep
  <1>2. ASSUME NEW p \in TimeCase[c].projects, Time(c)!UpdateProject(p, "completed")
        PROVE  TimeIInv(c)'
    BY <1>2, TimeUpdateProjectStep
  <1>3. ASSUME NEW p \in TimeCase[c].projects, NEW m \in TimeCase[c].minutes, NEW b \in BOOLEAN,
               Time(c)!CreateEntry(p, m, b, "none")
        PROVE  TimeIInv(c)'
    <2>1. m \in Nat
      BY DEF Time!ProjectsAssumption
    <2> QED
      BY <1>3, <2>1, TimeCreateEntryStep
  <1>4. ASSUME NEW p \in TimeCase[c].projects, NEW b \in BOOLEAN,
               Time(c)!CreateEntry(p, 0, b, "running")
        PROVE  TimeIInv(c)'
    BY <1>4, TimeCreateEntryStep
  <1>5. ASSUME NEW r \in TimeCase[c].req, NEW i \in DOMAIN entries,
               NEW op \in {"update", "delete", "stop", "approve"}, Time(c)!ReadEntry(r, op, i)
        PROVE  TimeIInv(c)'
    BY <1>5, TimeReadEntryStep
  <1>6. ASSUME NEW r \in TimeCase[c].req, NEW m \in TimeCase[c].minutes,
               Time(c)!CommitMinutes(r, m) \/ Time(c)!CommitStop(r, m)
        PROVE  TimeIInv(c)'
    BY <1>6, TimeCommitMinutesStep, TimeCommitStopStep
  <1>7. ASSUME NEW r \in TimeCase[c].req, NEW b \in BOOLEAN, Time(c)!CommitBillable(r, b)
        PROVE  TimeIInv(c)'
    BY <1>7, TimeCommitBillableStep
  <1>8. ASSUME NEW r \in TimeCase[c].req, Time(c)!CommitDelete(r) \/ Time(c)!CommitApprove(r)
        PROVE  TimeIInv(c)'
    BY <1>8, TimeCommitStatusStep
  <1>9. ASSUME NEW r \in TimeCase[c].req, NEW ids \in SUBSET DOMAIN entries,
               Time(c)!ReadBill(r, ids)
        PROVE  TimeIInv(c)'
    BY <1>9, TimeReadBillStep
  <1>10. ASSUME NEW r \in TimeCase[c].req,
                \/ Time(c)!ReadNumber(r) \/ Time(c)!CommitBill(r)
                \/ Time(c)!CommitLinks(r) \/ Time(c)!Rollback(r)
         PROVE  TimeIInv(c)'
    BY <1>10, TimeReadNumberStep, TimeCommitBillStep, TimeCommitLinksStep, TimeRollbackStep
  <1>11. ASSUME NEW r \in TimeCase[c].req, NEW p \in TimeCase[c].projects,
                NEW x \in TimeCase[c].expenses, NEW op \in {"link", "unlink"},
                Time(c)!ReadLinks(r, op, p, x)
         PROVE  TimeIInv(c)'
    BY <1>11, TimeReadLinksStep
  <1>12. ASSUME UNCHANGED Time(c)!vars PROVE TimeIInv(c)'
    <2>1. TimeTxnOK(c)'
      BY <1>12, TimeSlotsStay DEF TimeIInv, Time!vars
    <2>2. TimeTypesOK(c)'
      BY <1>12 DEF TimeIInv, TimeTypesOK, TimeRowOK, Time!vars
    <2>3. ~raced' => TimeLinesOK(c)' /\ TimeCostsOK(c)'
      BY <1>12 DEF TimeIInv, TimeLinesOK, TimeCostsOK, Time!On, Time!Linked, Time!vars
    <2> QED
      BY <2>1, <2>2, <2>3 DEF TimeIInv
  <1> QED
    BY <1>1, <1>2, <1>3, <1>4, <1>5, <1>6, <1>7, <1>8, <1>9, <1>10, <1>11, <1>12, Zenon DEF
      Time!Next

LEMMA TimeSettled ==
  ASSUME NEW c, TimeIInv(c)
  PROVE  Time(c)!TimeBilledOnce
  BY DEF TimeIInv, TimeLinesOK, TimeCostsOK, Time!TimeBilledOnce

-----------------------------------------------------------------------------
(* The rows of projects: what is added up is a number.                     *)

TimeRows(c) == /\ project \in [TimeCase[c].projects -> Time(c)!ProjectRow]
               /\ cost \in [TimeCase[c].expenses -> Nat] /\ IsFiniteSet(links)
               /\ \A r \in TimeCase[c].req :
                    txn[r].op \in {"link", "unlink"} => txn[r].sum \in Int

LEMMA TimeRowsInit ==
  ASSUME NEW c, Time(c)!ProjectsAssumption, Time(c)!Init
  PROVE  TimeRows(c)
  <1>1. project \in [TimeCase[c].projects -> Time(c)!ProjectRow]
    BY DEF Time!Init, Time!ProjectRow
  <1>2. cost \in [TimeCase[c].expenses -> Nat]
    BY DEF Time!Init, Time!ProjectsAssumption
  <1>3. IsFiniteSet(links)
    BY FS_EmptySet DEF Time!Init
  <1>4. \A r \in TimeCase[c].req : txn[r].op \notin {"link", "unlink"}
    BY DEF Time!Init, Time!Idle
  <1> QED
    BY <1>1, <1>2, <1>3, <1>4 DEF TimeRows

\* One slot is changed, and what is added up in it is a number.
LEMMA TimeRowsSlot ==
  ASSUME NEW c, TimeTxnOK(c), TimeRows(c), NEW r \in TimeCase[c].req, NEW o,
         txn' = [txn EXCEPT ![r] = o], o.op \in {"link", "unlink"} => o.sum \in Int,
         project' \in [TimeCase[c].projects -> Time(c)!ProjectRow], cost' = cost,
         IsFiniteSet(links')
  PROVE  TimeRows(c)'
  <1>1. \A q \in TimeCase[c].req : txn'[q] = IF q = r THEN o ELSE txn[q]
    BY DEF TimeTxnOK
  <1> QED
    BY <1>1 DEF TimeRows, Time!ProjectRow

\* The slots stay.
LEMMA TimeRowsStay ==
  ASSUME NEW c, TimeRows(c), txn' = txn, cost' = cost, IsFiniteSet(links'),
         project' \in [TimeCase[c].projects -> Time(c)!ProjectRow]
  PROVE  TimeRows(c)'
  BY DEF TimeRows, Time!ProjectRow

\* A request that ends with its slot free.
LEMMA TimeRowsDone ==
  ASSUME NEW c, TimeTxnOK(c), TimeRows(c), NEW r \in TimeCase[c].req,
         txn' = [txn EXCEPT ![r] = Time(c)!Idle], cost' = cost, IsFiniteSet(links'),
         project' \in [TimeCase[c].projects -> Time(c)!ProjectRow]
  PROVE  TimeRows(c)'
  <1>1. Time(c)!Idle.op \notin {"link", "unlink"}
    BY DEF Time!Idle
  <1> QED
    BY <1>1, TimeRowsSlot

\* The cost of some links is a number.
LEMMA TimeLinkedType ==
  ASSUME NEW c, TimeRows(c), NEW ls, IsFiniteSet(ls), ls \subseteq TimeLink(c), NEW p
  PROVE  Time(c)!Linked(ls, p) \in Int
  <1>1. PICK f : f = [l \in {x \in ls : x.project = p} |-> cost[l.expense]]
    OBVIOUS
  <1>2. IsFiniteSet(DOMAIN f)
    <2>1. DOMAIN f \subseteq ls
      BY <1>1
    <2> QED
      BY <2>1, FS_Subset
  <1>3. \A l \in DOMAIN f : f[l] \in Int
    <2>1. \A l \in DOMAIN f : l.expense \in TimeCase[c].expenses /\ f[l] = cost[l.expense]
      BY <1>1 DEF TimeLink
    <2> QED
      BY <2>1 DEF TimeRows
  <1>4. SumOver(f, DOMAIN f) \in Int
    BY <1>2, <1>3, SumType
  <1>5. Time(c)!SumFunction(f) = SumOver(f, DOMAIN f)
    BY TimeSum, SumFunctionIs DEF SumFunction
  <1> QED
    BY <1>1, <1>4, <1>5 DEF Time!Linked

\* And so is the revenue of some entries.
LEMMA TimeRevenueType ==
  ASSUME NEW c, NEW es \in Seq(Time(c)!Entry), NEW p
  PROVE  Time(c)!Revenue(es, p) \in Int
  <1>1. PICK f : f = [i \in DOMAIN es |->
                        IF es[i].project = p /\ es[i].status \in {"approved", "billed"}
                           /\ es[i].billable
                        THEN es[i].total ELSE 0]
    OBVIOUS
  <1>2. IsFiniteSet(DOMAIN es) /\ \A i \in DOMAIN es : es[i] \in Time(c)!Entry
    <2>1. DOMAIN es = 1..Len(es) /\ Len(es) \in Nat
      BY LenProperties
    <2> QED
      BY <2>1, ElementOfSeq, FS_Interval
  <1>3. \A i \in DOMAIN es : f[i] \in Int
    BY <1>1, <1>2 DEF Time!Entry
  <1>4. SumOver(f, DOMAIN es) \in Int
    BY <1>2, <1>3, SumType
  <1>5. Time(c)!SumFunctionOnSet(f, DOMAIN es) = SumOver(f, DOMAIN es)
    <2>1. Time(c)!SumFunctionOnSet(f, DOMAIN es) = SumFunctionOnSet(f, DOMAIN es)
      BY Zenon DEF Time!SumFunctionOnSet, Time!FoldFunctionOnSet, Time!MapThenFoldSet,
                   SumFunctionOnSet, FoldFunctionOnSet, MapThenFoldSet
    <2> QED
      BY <2>1, SumFunctionIs
  <1>6. Time(c)!Revenue(es, p) = Time(c)!SumFunctionOnSet(f, DOMAIN es)
    BY <1>1 DEF Time!Revenue, Time!Sum
  <1> QED
    BY <1>4, <1>5, <1>6

\* A link is added or removed.
LEMMA TimeLinksFinite ==
  ASSUME NEW c, NEW ls, IsFiniteSet(ls), NEW l
  PROVE  IsFiniteSet(Time(c)!SymDiff(ls, {l}))
  <1>1. Time(c)!SymDiff(ls, {l}) \subseteq ls \cup {l}
    BY DEF Time!SymDiff
  <1>2. IsFiniteSet(ls \cup {l})
    BY FS_AddElement
  <1> QED
    BY <1>1, <1>2, FS_Subset

LEMMA TimeRowsStep ==
  ASSUME NEW c, Time(c)!ProjectsAssumption, TimeIInv(c), TimeIInv(c)', TimeRows(c),
         Time(c)!Next \/ UNCHANGED Time(c)!vars
  PROVE  TimeRows(c)'
  <1>0. /\ TimeTxnOK(c) /\ IsFiniteSet(links) /\ cost \in [TimeCase[c].expenses -> Nat]
        /\ project \in [TimeCase[c].projects -> Time(c)!ProjectRow] /\ links \subseteq TimeLink(c)
    BY DEF TimeIInv, TimeTypesOK, TimeRows
  <1>1. ASSUME NEW p \in TimeCase[c].projects,
               Time(c)!DropProject(p) \/ Time(c)!UpdateProject(p, "completed")
        PROVE  TimeRows(c)'
    <2>1. PICK s \in {"completed", "deleted"} : project' = [project EXCEPT ![p].status = s]
      BY <1>1 DEF Time!DropProject, Time!UpdateProject
    <2>2. project' \in [TimeCase[c].projects -> Time(c)!ProjectRow]
      BY <1>0, <2>1 DEF Time!ProjectRow
    <2>3. links' \subseteq links
      BY <1>1 DEF Time!DropProject, Time!UpdateProject
    <2>4. IsFiniteSet(links')
      BY <1>0, <2>3, FS_Subset
    <2>5. UNCHANGED <<txn, cost>>
      BY <1>1 DEF Time!DropProject, Time!UpdateProject
    <2> QED
      BY <2>2, <2>4, <2>5, TimeRowsStay
  <1>2. ASSUME NEW p, NEW m, NEW b, NEW timer, Time(c)!CreateEntry(p, m, b, timer)
        PROVE  TimeRows(c)'
    <2>1. UNCHANGED <<project, links, cost, txn>>
      BY <1>2 DEF Time!CreateEntry
    <2> QED
      BY <1>0, <2>1, TimeRowsStay
  <1>3. ASSUME NEW r \in TimeCase[c].req,
               NEW op \in {"update", "delete", "stop", "approve"},
               NEW i, Time(c)!ReadEntry(r, op, i)
        PROVE  TimeRows(c)'
    <2>1. PICK o : o = [op |-> op, id |-> i, read |-> entries[i]]
      OBVIOUS
    <2>2. o.op = op /\ txn' = [txn EXCEPT ![r] = o] /\ UNCHANGED <<project, links, cost>>
      BY <1>3, <2>1 DEF Time!ReadEntry
    <2> QED
      BY <1>0, <2>1, <2>2, TimeRowsSlot
  <1>4. ASSUME NEW r \in TimeCase[c].req, Time(c)!FinishEntry(r)
        PROVE  TimeRows(c)'
    <2>1. txn' = [txn EXCEPT ![r] = Time(c)!Idle] /\ UNCHANGED <<project, links, cost>>
      BY <1>4 DEF Time!FinishEntry
    <2> QED
      BY <1>0, <2>1, TimeRowsDone
  <1>5. ASSUME NEW r \in TimeCase[c].req, NEW ids, Time(c)!ReadBill(r, ids)
        PROVE  TimeRows(c)'
    <2>1. PICK o : o = [op |-> "bill", ids |-> ids, number |-> 0,
                        bill |-> [i \in Time(c)!Billable(ids) |-> entries[i]]]
      OBVIOUS
    <2>2. o.op = "bill" /\ txn' = [txn EXCEPT ![r] = o] /\ UNCHANGED <<project, links, cost>>
      BY <1>5, <2>1 DEF Time!ReadBill
    <2> QED
      BY <1>0, <2>1, <2>2, TimeRowsSlot
  <1>6. ASSUME NEW r \in TimeCase[c].req, Time(c)!ReadNumber(r)
        PROVE  TimeRows(c)'
    <2>1. PICK t, o : t = txn[r] /\ o = [t EXCEPT !.number = Time(c)!LastNumber + 1]
      OBVIOUS
    <2>2. t.op = "bill" /\ UNCHANGED <<project, links, cost>>
      BY <1>6, <2>1 DEF Time!ReadNumber
    <2>3. txn = [q \in TimeCase[c].req |-> txn[q]] /\ TimeBilling(c, t)
      <3>1. TimeUnderway(c, t) /\ txn = [q \in TimeCase[c].req |-> txn[q]]
        BY <1>0, <2>1 DEF TimeTxnOK
      <3> QED
        BY <2>2, <3>1 DEF TimeUnderway, Time!Idle, TimeEditing, TimeLinking
    <2>4. txn' = [txn EXCEPT ![r] = o]
      BY <1>6, <2>1, <2>3 DEF Time!ReadNumber
    <2>5. o.op = "bill"
      BY <2>1, <2>3 DEF TimeBilling
    <2> QED
      BY <1>0, <2>2, <2>4, <2>5, TimeRowsSlot
  <1>7. ASSUME NEW r \in TimeCase[c].req, Time(c)!CommitBill(r)
        PROVE  TimeRows(c)'
    <2>1. txn' = [txn EXCEPT ![r] = Time(c)!Idle] /\ UNCHANGED <<links, cost>>
      BY <1>7 DEF Time!CommitBill
    <2>2. PICK es : es = entries' /\ es \in Seq(Time(c)!Entry)
      BY DEF TimeIInv, TimeTypesOK, Time!Entry
    <2>3. /\ project' = [p \in TimeCase[c].projects |-> project'[p]]
          /\ \A p \in TimeCase[c].projects :
               \/ project'[p] = project[p]
               \/ project'[p] = [project[p] EXCEPT !.revenue = Time(c)!Revenue(es, p)]
      BY <1>7, <2>2 DEF Time!CommitBill
    <2>4. ASSUME NEW p \in TimeCase[c].projects PROVE project'[p] \in Time(c)!ProjectRow
      <3>1. PICK v \in Int : v = Time(c)!Revenue(es, p)
        BY <2>2, TimeRevenueType
      <3>2. project[p] \in Time(c)!ProjectRow
        BY <1>0
      <3> QED
        BY <2>3, <3>1, <3>2 DEF Time!ProjectRow
    <2>5. project' \in [TimeCase[c].projects -> Time(c)!ProjectRow]
      BY <2>3, <2>4
    <2> QED
      BY <1>0, <2>1, <2>5, TimeRowsDone
  <1>8. ASSUME NEW r \in TimeCase[c].req, Time(c)!CommitLinks(r)
        PROVE  TimeRows(c)'
    <2>1. PICK t : t = txn[r]
      OBVIOUS
    <2>2. /\ t.op \in {"link", "unlink"} /\ txn' = [txn EXCEPT ![r] = Time(c)!Idle]
          /\ links' = Time(c)!SymDiff(links, {t.link}) /\ cost' = cost
          /\ project' = [project EXCEPT ![t.link.project].cost = t.sum]
      BY <1>8, <2>1 DEF Time!CommitLinks
    <2>3. t.sum \in Int
      BY <2>1, <2>2 DEF TimeRows
    <2>4. project' \in [TimeCase[c].projects -> Time(c)!ProjectRow]
      BY <1>0, <2>2, <2>3 DEF Time!ProjectRow
    <2>5. IsFiniteSet(links')
      BY <1>0, <2>2, TimeLinksFinite
    <2> QED
      BY <1>0, <2>2, <2>4, <2>5, TimeRowsDone
  <1>9. ASSUME NEW r \in TimeCase[c].req, NEW p \in TimeCase[c].projects,
               NEW x \in TimeCase[c].expenses, NEW op \in {"link", "unlink"},
               Time(c)!ReadLinks(r, op, p, x)
        PROVE  TimeRows(c)'
    <2>1. PICK l : l = [project |-> p, expense |-> x]
      OBVIOUS
    <2>2. PICK ls : ls = Time(c)!SymDiff(links, {l})
      OBVIOUS
    <2>3. IsFiniteSet(ls) /\ ls \subseteq TimeLink(c)
      <3>1. l \in TimeLink(c)
        BY <2>1 DEF TimeLink
      <3> QED
        BY <1>0, <2>2, <3>1, TimeLinksFinite DEF Time!SymDiff
    <2>4. PICK v \in Int : v = Time(c)!Linked(ls, p)
      BY <2>3, TimeLinkedType
    <2>5. PICK o : o = [op |-> op, link |-> l, read |-> links, sum |-> v]
      OBVIOUS
    <2>6. txn' = [txn EXCEPT ![r] = o] /\ UNCHANGED <<project, links, cost>>
      BY <1>9, <2>1, <2>2, <2>4, <2>5 DEF Time!ReadLinks
    <2>7. o.sum \in Int
      BY <2>4, <2>5
    <2> QED
      BY <1>0, <2>6, <2>7, TimeRowsSlot
  <1>10. ASSUME NEW r \in TimeCase[c].req, Time(c)!Rollback(r)
         PROVE  TimeRows(c)'
    <2>1. txn' = [txn EXCEPT ![r] = Time(c)!Idle] /\ UNCHANGED <<project, links, cost>>
      BY <1>10 DEF Time!Rollback
    <2> QED
      BY <1>0, <2>1, TimeRowsDone
  <1>11. CASE UNCHANGED Time(c)!vars
    <2>1. UNCHANGED <<project, links, cost, txn>>
      BY <1>11 DEF Time!vars
    <2> QED
      BY <1>0, <2>1, TimeRowsStay
  <1>12. ASSUME NEW r \in TimeCase[c].req, NEW m, NEW b,
                \/ Time(c)!CommitMinutes(r, m) \/ Time(c)!CommitStop(r, m)
                \/ Time(c)!CommitBillable(r, b) \/ Time(c)!CommitDelete(r)
                \/ Time(c)!CommitApprove(r)
         PROVE  TimeRows(c)'
    <2>1. Time(c)!FinishEntry(r)
      BY <1>12, Zenon DEF Time!CommitMinutes, Time!CommitStop, Time!CommitBillable,
                          Time!CommitDelete, Time!CommitApprove
    <2> QED
      BY <1>4, <2>1
  <1> QED
    BY <1>1, <1>2, <1>3, <1>5, <1>6, <1>7, <1>8, <1>9, <1>10, <1>11, <1>12, Zenon DEF Time!Next

TimeHolds(c) == TimeIInv(c) /\ TimeRows(c)

LEMMA TimeHoldsInit ==
  ASSUME NEW c, Time(c)!ProjectsAssumption, Time(c)!Init
  PROVE  TimeHolds(c)
  BY TimeInitIInv, TimeRowsInit DEF TimeHolds

LEMMA TimeHoldsStep ==
  ASSUME NEW c, Time(c)!ProjectsAssumption, TimeHolds(c), Time(c)!Next \/ UNCHANGED Time(c)!vars
  PROVE  TimeHolds(c)'
  <1>1. TimeIInv(c)'
    BY TimeNextStep DEF TimeHolds
  <1> QED
    BY <1>1, TimeRowsStep DEF TimeHolds

\* The invariant has the types.
LEMMA TimeTypes ==
  ASSUME NEW c, TimeHolds(c)
  PROVE  Time(c)!TypeOK
  BY DEF TimeHolds, TimeIInv, TimeTypesOK, TimeRows, TimeLink, Time!TypeOK

-----------------------------------------------------------------------------
(* Job costs.  The inductive invariant.                                    *)

JobInvoice == [number: Nat, total: Nat, billing: Nat, lines: Nat]

JobOrdering(c)  == [op: {"amend", "approveOrder", "dropOrder"}, id: Nat, read: Job(c)!ChangeOrder]
JobBilling(c)   == [op: {"submit", "approve", "invoice", "drop"}, id: Nat,
                    read: Job(c)!Billing, number: Nat]

\* What is under way: a change order that was read pending, or a billing that was
\* read in a status the request expects.
JobUnderway(c, t) ==
  \/ t = Job(c)!Idle
  \/ t \in JobOrdering(c) /\ t.id \in DOMAIN orders /\ t.read.status = "pending"
  \/ t \in JobBilling(c) /\ t.id \in DOMAIN billings /\ t.read.status \in Job(c)!Expects(t.op)

JobTxnOK(c) == /\ txn = [r \in JobCase[c].req |-> txn[r]]
               /\ \A r \in JobCase[c].req : JobUnderway(c, txn[r])

\* What is stored of a billing is what its lines add up to.
JobBillingAdds(c, b) == /\ b.total = Job(c)!Billed(b.lines)
                        /\ b.retention = Job(c)!Retention(b.lines)
                        /\ b.net = Job(c)!Net(b.lines)

JobTypesOK(c) == /\ Job(c)!TypeOK
                 /\ invoices \in Seq(JobInvoice) /\ Len(invoices) <= JobCase[c].invoices
                 /\ \A k \in DOMAIN invoices : invoices[k].billing \in DOMAIN billings
                 /\ \A i \in DOMAIN billings : JobBillingAdds(c, billings[i])

JobAgreed == \A i \in DOMAIN orders : orders[i].status = "approved" => orders[i].amount = orders[i].agreed

JobInvoiced == \A k \in DOMAIN invoices :
                 LET b == billings[invoices[k].billing]
                 IN /\ b.status = "invoiced" /\ b.invoice = k
                    /\ invoices[k].total = b.net /\ invoices[k].lines = b.total

JobIInv(c) == JobTypesOK(c) /\ JobTxnOK(c) /\ (~raced => JobAgreed /\ JobInvoiced)

-----------------------------------------------------------------------------
(* Rows and slots.                                                         *)

LEMMA JobRows ==
  ASSUME NEW c, JobTypesOK(c)
  PROVE  /\ costs \in Seq(Job(c)!CostEntry)
         /\ orders \in Seq(Job(c)!ChangeOrder) /\ billings \in Seq(Job(c)!Billing)
         /\ Len(orders) \in Nat /\ DOMAIN orders = 1..Len(orders)
         /\ \A i \in DOMAIN orders : orders[i] \in Job(c)!ChangeOrder
         /\ Len(billings) \in Nat /\ DOMAIN billings = 1..Len(billings)
         /\ \A i \in DOMAIN billings : billings[i] \in Job(c)!Billing
         /\ Len(invoices) \in Nat /\ DOMAIN invoices = 1..Len(invoices)
         /\ \A k \in DOMAIN invoices : invoices[k] \in JobInvoice
  <1>1. /\ costs \in Seq(Job(c)!CostEntry) /\ orders \in Seq(Job(c)!ChangeOrder)
        /\ billings \in Seq(Job(c)!Billing) /\ invoices \in Seq(JobInvoice)
    BY DEF JobTypesOK, Job!TypeOK
  <1>2. /\ Len(orders) \in Nat /\ DOMAIN orders = 1..Len(orders)
        /\ Len(billings) \in Nat /\ DOMAIN billings = 1..Len(billings)
        /\ Len(invoices) \in Nat /\ DOMAIN invoices = 1..Len(invoices)
    BY <1>1, LenProperties
  <1> QED
    BY <1>1, <1>2, ElementOfSeq

LEMMA JobUnderwayStays ==
  ASSUME NEW c, NEW t, JobUnderway(c, t), DOMAIN orders \subseteq DOMAIN orders',
         DOMAIN billings \subseteq DOMAIN billings'
  PROVE  JobUnderway(c, t)'
  BY DEF JobUnderway

\* A slot goes on to t.
LEMMA JobSlot ==
  ASSUME NEW c, JobTxnOK(c), NEW r \in JobCase[c].req, NEW t, JobUnderway(c, t)',
         txn' = [txn EXCEPT ![r] = t], DOMAIN orders \subseteq DOMAIN orders',
         DOMAIN billings \subseteq DOMAIN billings'
  PROVE  JobTxnOK(c)'
  <1>1. /\ txn' = [x \in JobCase[c].req |-> txn'[x]]
        /\ \A x \in JobCase[c].req : txn'[x] = IF x = r THEN t ELSE txn[x]
    BY DEF JobTxnOK
  <1>2. ASSUME NEW x \in JobCase[c].req PROVE JobUnderway(c, txn[x])'
    <2>1. PICK u : u = txn[x]
      OBVIOUS
    <2>2. JobUnderway(c, u)'
      BY <2>1, JobUnderwayStays DEF JobTxnOK
    <2>3. PICK w : w = txn'[x]
      OBVIOUS
    <2>4. w = u \/ w = t
      BY <1>1, <2>1, <2>3
    <2>5. JobUnderway(c, w)'
      BY <2>2, <2>4
    <2> QED
      BY <2>3, <2>5 DEF JobUnderway
  <1> QED
    BY <1>1, <1>2 DEF JobTxnOK

LEMMA JobSlotsStay ==
  ASSUME NEW c, JobTxnOK(c), UNCHANGED txn, DOMAIN orders \subseteq DOMAIN orders',
         DOMAIN billings \subseteq DOMAIN billings'
  PROVE  JobTxnOK(c)'
  <1>1. ASSUME NEW x \in JobCase[c].req PROVE JobUnderway(c, txn[x])'
    <2>1. PICK u : u = txn[x] /\ u = txn'[x]
      OBVIOUS
    <2>2. JobUnderway(c, u)'
      BY <2>1, JobUnderwayStays DEF JobTxnOK
    <2> QED
      BY <2>1, <2>2 DEF JobUnderway
  <1> QED
    BY <1>1 DEF JobTxnOK

LEMMA JobIdleOK ==
  ASSUME NEW c
  PROVE  JobUnderway(c, Job(c)!Idle)'
  BY DEF JobUnderway

\* What is no write at all.
LEMMA JobReading ==
  ASSUME NEW c, JobIInv(c), NEW r \in JobCase[c].req, NEW t, JobUnderway(c, t)',
         txn' = [txn EXCEPT ![r] = t], UNCHANGED <<costs, orders, billings, invoices, raced>>
  PROVE  JobIInv(c)'
  <1>1. JobTxnOK(c)'
    BY JobSlot DEF JobIInv
  <1>2. JobTypesOK(c)'
    <2>1. Job(c)!TypeOK' /\ UNCHANGED <<invoices, billings>>
      BY DEF JobIInv, JobTypesOK, Job!TypeOK
    <2> QED
      BY <2>1 DEF JobIInv, JobTypesOK, JobBillingAdds
  <1>3. ~raced' => JobAgreed' /\ JobInvoiced'
    BY DEF JobIInv, JobAgreed, JobInvoiced
  <1> QED
    BY <1>1, <1>2, <1>3 DEF JobIInv

\* What a slot that is no longer idle holds.
LEMMA JobHolds ==
  ASSUME NEW c, JobIInv(c), NEW r \in JobCase[c].req
  PROVE  /\ txn[r].op \in {"amend", "approveOrder", "dropOrder"} =>
              /\ txn[r] \in JobOrdering(c) /\ txn[r].id \in DOMAIN orders
              /\ txn[r].read \in Job(c)!ChangeOrder /\ txn[r].read.status = "pending"
         /\ txn[r].op \in {"submit", "approve", "invoice", "drop"} =>
              /\ txn[r] \in JobBilling(c) /\ txn[r].id \in DOMAIN billings
              /\ txn[r].read \in Job(c)!Billing /\ txn[r].number \in Nat
              /\ txn[r].read.status \in Job(c)!Expects(txn[r].op)
  <1>1. PICK t : t = txn[r]
    OBVIOUS
  <1>2. JobUnderway(c, t)
    BY <1>1 DEF JobIInv, JobTxnOK
  <1>3. CASE t = Job(c)!Idle
    BY <1>1, <1>3 DEF Job!Idle
  <1>4. CASE t \in JobOrdering(c) /\ t.id \in DOMAIN orders /\ t.read.status = "pending"
    BY <1>1, <1>4 DEF JobOrdering
  <1>5. CASE /\ t \in JobBilling(c) /\ t.id \in DOMAIN billings
             /\ t.read.status \in Job(c)!Expects(t.op)
    BY <1>1, <1>5 DEF JobBilling
  <1> QED
    BY <1>2, <1>3, <1>4, <1>5 DEF JobUnderway

-----------------------------------------------------------------------------
(* Sums and percentages.                                                   *)

\* The library's sums.
LEMMA JobSum ==
  ASSUME NEW c, NEW h
  PROVE  Job(c)!SumFunction(h) = SumOver(h, DOMAIN h)
  <1>1. Job(c)!SumFunction(h) = SumFunctionOnSet(h, DOMAIN h)
    BY Zenon DEF Job!SumFunction, Job!SumFunctionOnSet, Job!FoldFunctionOnSet,
                 Job!MapThenFoldSet, SumFunctionOnSet, FoldFunctionOnSet, MapThenFoldSet
  <1> QED
    BY <1>1, SumFunctionIs

LEMMA JobRound ==
  ASSUME NEW c, NEW n \in Nat, NEW d \in Nat, d > 0
  PROVE  /\ Job(c)!Round(n, d) \in Nat
         /\ 2 * (d * Job(c)!Round(n, d)) <= 2 * n + d
         /\ 2 * n <= 2 * (d * Job(c)!Round(n, d)) + d
  <1>1. PICK q : q = (2 * n + d) \div (2 * d) /\ q = Job(c)!Round(n, d)
    BY DEF Job!Round
  <1>2. n \in Int
    OBVIOUS
  <1>3. q \in Nat /\ 2 * (d * q) <= 2 * n + d /\ 2 * n < 2 * (d * q) + d
    BY <1>1, <1>2, RoundedQuotient
  <1>4. PICK p \in Nat : p = d * q
    BY <1>3
  <1> QED
    BY <1>1, <1>3, <1>4

\* The lines of a billing: what they add up to, what is kept back, and the rest.
LEMMA JobLines ==
  ASSUME NEW c, Job(c)!JobCostingAssumption, NEW ls \in JobCase[c].lines
  PROVE  /\ Job(c)!Billed(ls) \in Nat /\ Job(c)!Retention(ls) \in Nat /\ Job(c)!Net(ls) \in Nat
         /\ Job(c)!Billed(ls) <= Job(c)!Net(ls) + Job(c)!Retention(ls) + 1
         /\ Job(c)!Net(ls) + Job(c)!Retention(ls) <= Job(c)!Billed(ls) + 1
  <1>1. ls \in Seq([amount: Nat, percent: 0..100])
    BY DEF Job!JobCostingAssumption
  <1>2. Len(ls) \in Nat /\ DOMAIN ls = 1..Len(ls)
    BY <1>1, LenProperties
  <1>3. \A i \in DOMAIN ls : ls[i].amount \in Nat /\ ls[i].percent \in 0..100
    <2>1. \A i \in DOMAIN ls : ls[i] \in [amount: Nat, percent: 0..100]
      BY <1>1, <1>2, ElementOfSeq
    <2> QED
      BY <2>1
  <1>4. PICK D : D = DOMAIN ls
    OBVIOUS
  <1>5. IsFiniteSet(D)
    <2>1. 1 \in Int /\ Len(ls) \in Int
      BY <1>2
    <2> QED
      BY <1>2, <1>4, <2>1, FS_Interval
  <1>6. PICK h, g, k : /\ h = [i \in D |-> ls[i].amount]
                       /\ g = [i \in D |-> ls[i].amount * ls[i].percent]
                       /\ k = [i \in D |-> ls[i].amount * (100 - ls[i].percent)]
    OBVIOUS
  <1>7. \A i \in D : /\ h[i] \in Nat /\ g[i] \in Nat /\ k[i] \in Nat
                     /\ g[i] + k[i] = 100 * h[i]
    <2>1. SUFFICES ASSUME NEW i \in D
                   PROVE  /\ h[i] \in Nat /\ g[i] \in Nat /\ k[i] \in Nat
                          /\ g[i] + k[i] = 100 * h[i]
      OBVIOUS
    <2>2. PICK a \in Nat, p \in Nat : a = ls[i].amount /\ p = ls[i].percent /\ p <= 100
      BY <1>3, <1>4
    <2>3. PICK x \in Nat : x = a * p
      OBVIOUS
    <2>4. PICK z \in Nat : z = 100 - p
      BY <2>2
    <2>5. a * z \in Nat /\ a * (100 - p) = a * z /\ a * z = 100 * a - x
      BY <2>3, <2>4
    <2> QED
      BY <1>6, <2>2, <2>3, <2>5
  <1>8. /\ SumOver(h, D) \in Nat /\ SumOver(g, D) \in Nat /\ SumOver(k, D) \in Nat
    BY <1>5, <1>7, SumNat
  <1>9. PICK f : f = [i \in D |-> 100 * h[i]]
    OBVIOUS
  <1>10. SumOver(g, D) + SumOver(k, D) = 100 * SumOver(h, D)
    BY <1>5, <1>7, SumSplits
  <1>11. /\ Job(c)!Billed(ls) = SumOver(h, D)
         /\ Job(c)!Retention(ls) = Job(c)!Round(SumOver(g, D), 100)
         /\ Job(c)!Net(ls) = Job(c)!Round(SumOver(k, D), 100)
    <2>1. DOMAIN h = D /\ DOMAIN g = D /\ DOMAIN k = D
      BY <1>6
    <2>2. /\ Job(c)!SumFunction(h) = SumOver(h, D) /\ Job(c)!SumFunction(g) = SumOver(g, D)
          /\ Job(c)!SumFunction(k) = SumOver(k, D)
      BY <2>1, JobSum
    <2>3. Job(c)!Billed(ls) = Job(c)!SumFunction(h)
      BY <1>4, <1>6, Zenon DEF Job!Billed
    <2>4. Job(c)!Retention(ls) = Job(c)!Round(Job(c)!SumFunction(g), 100)
      BY <1>4, <1>6, Zenon DEF Job!Retention
    <2>5. Job(c)!Net(ls) = Job(c)!Round(Job(c)!SumFunction(k), 100)
      BY <1>4, <1>6, Zenon DEF Job!Net
    <2> QED
      BY <2>2, <2>3, <2>4, <2>5
  <1>12. PICK t \in Nat, m \in Nat, n \in Nat :
                t = SumOver(h, D) /\ m = SumOver(g, D) /\ n = SumOver(k, D)
    BY <1>8
  <1>13. PICK x \in Nat, y \in Nat :
                x = Job(c)!Round(m, 100) /\ y = Job(c)!Round(n, 100)
    BY JobRound
  <1>14. /\ 2 * (100 * x) <= 2 * m + 100 /\ 2 * m <= 2 * (100 * x) + 100
         /\ 2 * (100 * y) <= 2 * n + 100 /\ 2 * n <= 2 * (100 * y) + 100
    BY <1>13, JobRound
  <1>15. m + n = 100 * t
    BY <1>10, <1>12
  <1>16. t <= y + x + 1 /\ y + x <= t + 1
    BY <1>14, <1>15
  <1> QED
    BY <1>11, <1>12, <1>13, <1>16

-----------------------------------------------------------------------------
(* The steps.                                                              *)

\* Costs come and go.
LEMMA JobCosted ==
  ASSUME NEW c, JobIInv(c), costs' \in Seq(Job(c)!CostEntry),
         UNCHANGED <<orders, billings, invoices, txn, raced>>
  PROVE  JobIInv(c)'
  <1>1. JobTxnOK(c)'
    BY JobSlotsStay DEF JobIInv
  <1>2. JobTypesOK(c)'
    <2>1. Job(c)!TypeOK' /\ UNCHANGED <<invoices, billings>>
      BY DEF JobIInv, JobTypesOK, Job!TypeOK
    <2> QED
      BY <2>1 DEF JobIInv, JobTypesOK, JobBillingAdds
  <1>3. ~raced' => JobAgreed' /\ JobInvoiced'
    BY DEF JobIInv, JobAgreed, JobInvoiced
  <1> QED
    BY <1>1, <1>2, <1>3 DEF JobIInv

LEMMA JobCostStep ==
  ASSUME NEW c, Job(c)!JobCostingAssumption, JobIInv(c),
         NEW e \in [code: JobCase[c].codes, cost: JobCase[c].amounts, budget: JobCase[c].amounts],
         \/ Job(c)!CreateJobCostEntry(e)
         \/ \E i \in DOMAIN costs : Job(c)!UpdateJobCostEntry(i, e)
  PROVE  JobIInv(c)'
  <1>1. JobTypesOK(c)
    BY DEF JobIInv
  <1>2. e \in Job(c)!CostEntry
    BY DEF Job!JobCostingAssumption, Job!CostEntry
  <1>3. costs' \in Seq(Job(c)!CostEntry)
    <2>1. CASE Job(c)!CreateJobCostEntry(e)
      BY <1>1, <1>2, <2>1, JobRows, AppendProperties DEF Job!CreateJobCostEntry
    <2>2. CASE \E i \in DOMAIN costs : Job(c)!UpdateJobCostEntry(i, e)
      <3>1. PICK i \in DOMAIN costs : costs' = [costs EXCEPT ![i] = e]
        BY <2>2 DEF Job!UpdateJobCostEntry
      <3>2. costs \in Seq(Job(c)!CostEntry)
        BY <1>1, JobRows
      <3> QED
        BY <1>2, <3>1, <3>2, ExceptSeq
    <2> QED
      BY <2>1, <2>2
  <1>4. UNCHANGED <<orders, billings, invoices, txn, raced>>
    BY DEF Job!CreateJobCostEntry, Job!UpdateJobCostEntry
  <1> QED
    BY <1>3, <1>4, JobCosted

LEMMA JobDeleteStep ==
  ASSUME NEW c, JobIInv(c), NEW i \in DOMAIN costs, Job(c)!DeleteJobCostEntry(i)
  PROVE  JobIInv(c)'
  <1>1. JobTypesOK(c)
    BY DEF JobIInv
  <1>2. costs \in Seq(Job(c)!CostEntry)
    BY <1>1, JobRows
  <1>3. PICK n \in Nat : n = Len(costs) /\ i \in 1..n
    BY <1>2, LenProperties
  <1>4. PICK s, t : s = SubSeq(costs, 1, i - 1) /\ t = SubSeq(costs, i + 1, n)
    OBVIOUS
  <1>5. s \in Seq(Job(c)!CostEntry)
    <2>1. \A k \in 1..(i - 1) : k \in 1..Len(costs)
      BY <1>3
    <2>2. i - 1 \in Int /\ 1 \in Int
      BY <1>3
    <2> QED
      BY <1>2, <1>4, <2>1, <2>2, SubSeqProperties
  <1>6. t \in Seq(Job(c)!CostEntry)
    <2>1. \A k \in (i + 1)..n : k \in 1..Len(costs)
      BY <1>3
    <2>2. i + 1 \in Int /\ n \in Int
      BY <1>3
    <2> QED
      BY <1>2, <1>4, <2>1, <2>2, SubSeqProperties
  <1>7. costs' = s \o t
    BY <1>3, <1>4 DEF Job!DeleteJobCostEntry
  <1>8. costs' \in Seq(Job(c)!CostEntry)
    BY <1>5, <1>6, <1>7, ConcatProperties
  <1>9. UNCHANGED <<orders, billings, invoices, txn, raced>>
    BY DEF Job!DeleteJobCostEntry
  <1> QED
    BY <1>8, <1>9, JobCosted

\* Change orders: a row is added or changed.
LEMMA JobOrdered ==
  ASSUME NEW c, JobIInv(c), orders' \in Seq(Job(c)!ChangeOrder),
         UNCHANGED <<costs, billings, invoices>>, JobTxnOK(c)',
         ~raced' => ~raced /\ JobAgreed'
  PROVE  JobIInv(c)'
  <1>1. JobTypesOK(c)'
    <2>1. Job(c)!TypeOK' /\ UNCHANGED <<invoices, billings>>
      BY DEF JobIInv, JobTypesOK, Job!TypeOK
    <2> QED
      BY <2>1 DEF JobIInv, JobTypesOK, JobBillingAdds
  <1>2. ~raced' => JobInvoiced'
    BY DEF JobIInv, JobInvoiced
  <1> QED
    BY <1>1, <1>2 DEF JobIInv

LEMMA JobCreateOrder ==
  ASSUME NEW c, Job(c)!JobCostingAssumption, JobIInv(c), NEW a \in JobCase[c].amounts,
         Job(c)!CreateChangeOrder(a)
  PROVE  JobIInv(c)'
  <1>1. PICK o : o = [status |-> "pending", amount |-> a, agreed |-> 0]
    OBVIOUS
  <1>2. o \in Job(c)!ChangeOrder /\ o.status = "pending"
    BY <1>1 DEF Job!JobCostingAssumption, Job!ChangeOrder
  <1>3. orders \in Seq(Job(c)!ChangeOrder) /\ Len(orders) \in Nat /\ DOMAIN orders = 1..Len(orders)
    BY JobRows DEF JobIInv
  <1>4. orders' = Append(orders, o) /\ UNCHANGED <<costs, billings, invoices, txn, raced>>
    BY <1>1 DEF Job!CreateChangeOrder
  <1>5. /\ orders' \in Seq(Job(c)!ChangeOrder) /\ DOMAIN orders' = 1..(Len(orders) + 1)
        /\ orders'[Len(orders) + 1] = o /\ \A i \in DOMAIN orders : orders'[i] = orders[i]
    BY <1>2, <1>3, <1>4, AppendProperties
  <1>6. JobTxnOK(c)'
    <2>1. DOMAIN orders \subseteq DOMAIN orders'
      BY <1>3, <1>5
    <2> QED
      BY <1>4, <2>1, JobSlotsStay DEF JobIInv
  <1>7. ~raced' => ~raced /\ JobAgreed'
    <2>1. \A i \in DOMAIN orders' : i \in DOMAIN orders \/ i = Len(orders) + 1
      BY <1>3, <1>5
    <2> QED
      BY <1>2, <1>4, <1>5, <2>1 DEF JobIInv, JobAgreed
  <1> QED
    BY <1>4, <1>5, <1>6, <1>7, JobOrdered

LEMMA JobReadOrder ==
  ASSUME NEW c, JobIInv(c), NEW r \in JobCase[c].req, NEW i \in DOMAIN orders, NEW op,
         Job(c)!ReadOrder(r, op, i)
  PROVE  JobIInv(c)'
  <1>1. PICK o : o = orders[i]
    OBVIOUS
  <1>2. o \in Job(c)!ChangeOrder /\ i \in Nat
    BY <1>1, JobRows DEF JobIInv
  <1>3. PICK t : t = [op |-> op, id |-> i, read |-> o]
    OBVIOUS
  <1>4. JobUnderway(c, t)'
    <2>1. op \in {"amend", "approveOrder", "dropOrder"} /\ o.status = "pending"
      BY <1>1 DEF Job!ReadOrder
    <2>2. t \in JobOrdering(c) /\ t.id = i /\ t.read = o
      BY <1>2, <1>3, <2>1 DEF JobOrdering
    <2>3. i \in DOMAIN orders'
      BY DEF Job!ReadOrder
    <2> QED
      BY <2>1, <2>2, <2>3 DEF JobUnderway
  <1>5. txn' = [txn EXCEPT ![r] = t] /\ UNCHANGED <<costs, orders, billings, invoices, raced>>
    BY <1>1, <1>3 DEF Job!ReadOrder
  <1> QED
    BY <1>4, <1>5, JobReading

\* A change order that was read pending is written.
LEMMA JobWriteOrder ==
  ASSUME NEW c, JobIInv(c), NEW r \in JobCase[c].req, NEW row \in Job(c)!ChangeOrder,
         txn[r].op \in {"amend", "approveOrder", "dropOrder"},
         ~raced /\ orders[txn[r].id] = txn[r].read => (row.status = "approved" => row.amount = row.agreed),
         Job(c)!WriteOrder(r, row)
  PROVE  JobIInv(c)'
  <1>1. PICK k : k = txn[r].id /\ k \in DOMAIN orders
    BY JobHolds
  <1>2. orders \in Seq(Job(c)!ChangeOrder) /\ DOMAIN orders = 1..Len(orders)
    BY JobRows DEF JobIInv
  <1>3. orders' = [orders EXCEPT ![k] = row] /\ UNCHANGED <<costs, billings, invoices>>
    BY <1>1 DEF Job!WriteOrder
  <1>4. /\ orders' \in Seq(Job(c)!ChangeOrder) /\ DOMAIN orders' = DOMAIN orders
        /\ \A i \in DOMAIN orders : orders'[i] = IF i = k THEN row ELSE orders[i]
    <2>1. orders' \in Seq(Job(c)!ChangeOrder)
      BY <1>1, <1>2, <1>3, ExceptSeq
    <2> QED
      BY <1>1, <1>3, <2>1
  <1>5. JobTxnOK(c)'
    <2>1. txn' = [txn EXCEPT ![r] = Job(c)!Idle]
      BY DEF Job!WriteOrder
    <2>2. JobTxnOK(c)
      BY DEF JobIInv
    <2> QED
      BY <1>3, <1>4, <2>1, <2>2, JobIdleOK, JobSlot
  <1>6. ~raced' => ~raced /\ JobAgreed'
    <2>1. SUFFICES ASSUME ~raced'
                   PROVE  ~raced /\ JobAgreed'
      OBVIOUS
    <2>2. ~raced /\ orders[txn[r].id] = txn[r].read
      BY <2>1 DEF Job!WriteOrder
    <2>3. row.status = "approved" => row.amount = row.agreed
      BY <2>2
    <2>4. JobAgreed
      BY <2>2 DEF JobIInv
    <2> QED
      BY <1>4, <2>2, <2>3, <2>4 DEF JobAgreed
  <1> QED
    BY <1>3, <1>4, <1>5, <1>6, JobOrdered

LEMMA JobCommitOrder ==
  ASSUME NEW c, Job(c)!JobCostingAssumption, JobIInv(c), NEW r \in JobCase[c].req,
         NEW a \in JobCase[c].amounts, Job(c)!CommitOrder(r, a)
  PROVE  JobIInv(c)'
  <1>1. txn[r].op \in {"amend", "approveOrder", "dropOrder"}
    BY DEF Job!CommitOrder
  <1>2. PICK k : k = txn[r].id /\ k \in DOMAIN orders
    BY <1>1, JobHolds
  <1>3. PICK d : d = txn[r].read /\ d \in Job(c)!ChangeOrder /\ d.status = "pending"
    BY <1>1, JobHolds
  <1>4. PICK o : o = orders[k] /\ o \in Job(c)!ChangeOrder
    BY <1>2, JobRows DEF JobIInv
  <1>5. CASE /\ txn[r].op = "amend"
             /\ Job(c)!WriteOrder(r, [orders[txn[r].id] EXCEPT !.amount = a])
    <2>1. PICK row : row = [o EXCEPT !.amount = a]
      OBVIOUS
    <2>2. a \in Nat
      BY DEF Job!JobCostingAssumption
    <2>3. row \in Job(c)!ChangeOrder /\ row.status = o.status
      BY <1>4, <2>1, <2>2 DEF Job!ChangeOrder
    <2>4. o = d => row.status # "approved"
      BY <1>3, <2>3
    <2>5. Job(c)!WriteOrder(r, row)
      BY <1>2, <1>4, <1>5, <2>1
    <2> QED
      BY <1>1, <1>2, <1>3, <1>4, <2>3, <2>4, <2>5, JobWriteOrder
  <1>6. CASE /\ txn[r].op = "approveOrder"
             /\ Job(c)!WriteOrder(r, [orders[txn[r].id] EXCEPT !.status = "approved",
                                                            !.agreed = txn[r].read.amount])
    <2>1. PICK row : row = [o EXCEPT !.status = "approved", !.agreed = d.amount]
      OBVIOUS
    <2>2. d.amount \in Nat
      BY <1>3 DEF Job!ChangeOrder
    <2>3. row \in Job(c)!ChangeOrder /\ row.amount = o.amount /\ row.agreed = d.amount
      BY <1>4, <2>1, <2>2 DEF Job!ChangeOrder
    <2>4. o = d => row.amount = row.agreed
      BY <2>3
    <2>5. Job(c)!WriteOrder(r, row)
      BY <1>2, <1>3, <1>4, <1>6, <2>1
    <2> QED
      BY <1>1, <1>2, <1>3, <1>4, <2>3, <2>4, <2>5, JobWriteOrder
  <1>7. CASE /\ txn[r].op = "dropOrder"
             /\ Job(c)!WriteOrder(r, [orders[txn[r].id] EXCEPT !.status = "deleted"])
    <2>1. PICK row : row = [o EXCEPT !.status = "deleted"]
      OBVIOUS
    <2>2. row \in Job(c)!ChangeOrder /\ row.status = "deleted"
      BY <1>4, <2>1 DEF Job!ChangeOrder
    <2>3. Job(c)!WriteOrder(r, row)
      BY <1>2, <1>4, <1>7, <2>1
    <2> QED
      BY <1>1, <2>2, <2>3, JobWriteOrder
  <1> QED
    BY <1>5, <1>6, <1>7, Zenon DEF Job!CommitOrder

\* A progress billing is created.
LEMMA JobCreateBilling ==
  ASSUME NEW c, Job(c)!JobCostingAssumption, JobIInv(c), NEW ls \in JobCase[c].lines,
         Job(c)!CreateProgressBilling(ls)
  PROVE  JobIInv(c)'
  <1>1. PICK b : b = [status |-> "draft", lines |-> ls, total |-> Job(c)!Billed(ls),
                      retention |-> Job(c)!Retention(ls), net |-> Job(c)!Net(ls), invoice |-> 0]
    OBVIOUS
  <1>2. b \in Job(c)!Billing /\ JobBillingAdds(c, b)
    <2>1. /\ Job(c)!Billed(ls) \in Nat /\ Job(c)!Retention(ls) \in Nat /\ Job(c)!Net(ls) \in Nat
      BY JobLines
    <2>2. 0 \in 0..JobCase[c].invoices
      BY DEF Job!JobCostingAssumption
    <2>3. b \in Job(c)!Billing
      BY <1>1, <2>1, <2>2 DEF Job!Billing
    <2> QED
      BY <1>1, <2>3 DEF JobBillingAdds
  <1>3. /\ billings \in Seq(Job(c)!Billing) /\ Len(billings) \in Nat
        /\ DOMAIN billings = 1..Len(billings)
    BY JobRows DEF JobIInv
  <1>4. billings' = Append(billings, b) /\ UNCHANGED <<costs, orders, invoices, txn, raced>>
    BY <1>1 DEF Job!CreateProgressBilling
  <1>5. /\ billings' \in Seq(Job(c)!Billing) /\ DOMAIN billings' = 1..(Len(billings) + 1)
        /\ billings'[Len(billings) + 1] = b /\ \A i \in DOMAIN billings : billings'[i] = billings[i]
    BY <1>2, <1>3, <1>4, AppendProperties
  <1>6. DOMAIN billings \subseteq DOMAIN billings'
    BY <1>3, <1>5
  <1>7. JobTxnOK(c)'
    BY <1>4, <1>6, JobSlotsStay DEF JobIInv
  <1>8. JobTypesOK(c)'
    <2>1. Job(c)!TypeOK'
      BY <1>4, <1>5 DEF JobIInv, JobTypesOK, Job!TypeOK
    <2>2. ASSUME NEW i \in DOMAIN billings'
          PROVE  JobBillingAdds(c, billings[i])'
      <3>1. PICK d : d = billings'[i] /\ JobBillingAdds(c, d)
        <4>1. CASE i \in DOMAIN billings
          <5>1. JobBillingAdds(c, billings[i])
            BY <4>1 DEF JobIInv, JobTypesOK
          <5> QED
            BY <1>5, <4>1, <5>1
        <4>2. CASE i = Len(billings) + 1
          BY <1>2, <1>5, <4>2
        <4> QED
          BY <1>3, <1>5, <4>1, <4>2
      <3> QED
        BY <3>1 DEF JobBillingAdds
    <2>3. /\ (invoices \in Seq(JobInvoice))' /\ (Len(invoices) <= JobCase[c].invoices)'
          /\ \A k \in DOMAIN invoices' : invoices'[k].billing \in DOMAIN billings'
      BY <1>4, <1>6 DEF JobIInv, JobTypesOK
    <2> QED
      BY <2>1, <2>2, <2>3 DEF JobTypesOK
  <1>9. ~raced' => JobAgreed' /\ JobInvoiced'
    <2>1. \A k \in DOMAIN invoices : billings'[invoices[k].billing] = billings[invoices[k].billing]
      BY <1>5 DEF JobIInv, JobTypesOK
    <2> QED
      BY <1>4, <2>1 DEF JobIInv, JobAgreed, JobInvoiced
  <1> QED
    BY <1>7, <1>8, <1>9 DEF JobIInv

LEMMA JobReadBilling ==
  ASSUME NEW c, JobIInv(c), NEW r \in JobCase[c].req, NEW i \in DOMAIN billings, NEW op,
         Job(c)!ReadBilling(r, op, i)
  PROVE  JobIInv(c)'
  <1>1. PICK b : b = billings[i]
    OBVIOUS
  <1>2. b \in Job(c)!Billing /\ i \in Nat
    BY <1>1, JobRows DEF JobIInv
  <1>3. PICK t : t = [op |-> op, id |-> i, read |-> b, number |-> 0]
    OBVIOUS
  <1>4. JobUnderway(c, t)'
    <2>1. op \in {"submit", "approve", "invoice", "drop"} /\ b.status \in Job(c)!Expects(op)
      BY <1>1 DEF Job!ReadBilling
    <2>2. t \in JobBilling(c) /\ t.id = i /\ t.read = b /\ t.op = op
      BY <1>2, <1>3, <2>1 DEF JobBilling
    <2>3. i \in DOMAIN billings'
      BY DEF Job!ReadBilling
    <2> QED
      BY <2>1, <2>2, <2>3 DEF JobUnderway
  <1>5. txn' = [txn EXCEPT ![r] = t] /\ UNCHANGED <<costs, orders, billings, invoices, raced>>
    BY <1>1, <1>3 DEF Job!ReadBilling
  <1> QED
    BY <1>4, <1>5, JobReading

LEMMA JobLastNumber ==
  ASSUME NEW c, JobTypesOK(c)
  PROVE  Job(c)!LastNumber \in Nat
  <1>1. invoices \in Seq(JobInvoice) /\ Len(invoices) \in Nat /\ DOMAIN invoices = 1..Len(invoices)
    BY JobRows DEF JobTypesOK
  <1>2. CASE invoices = <<>>
    BY <1>2 DEF Job!LastNumber
  <1>3. CASE invoices # <<>>
    <2>1. Len(invoices) # 0
      BY <1>1, <1>3, EmptySeq
    <2>2. Len(invoices) \in DOMAIN invoices
      BY <1>1, <2>1
    <2>3. invoices[Len(invoices)] \in JobInvoice
      BY <2>2, JobRows
    <2>4. invoices[Len(invoices)].number \in Nat
      BY <2>3 DEF JobInvoice
    <2> QED
      BY <1>3, <2>4 DEF Job!LastNumber
  <1> QED
    BY <1>2, <1>3

LEMMA JobReadNumber ==
  ASSUME NEW c, JobIInv(c), NEW r \in JobCase[c].req, Job(c)!ReadNumber(r)
  PROVE  JobIInv(c)'
  <1>1. PICK n \in Nat : n = Job(c)!LastNumber + 1
    BY JobLastNumber DEF JobIInv
  <1>2. PICK d : d = txn[r]
    OBVIOUS
  <1>3. /\ d \in JobBilling(c) /\ d.id \in DOMAIN billings /\ d.read.status \in Job(c)!Expects(d.op)
    BY <1>2, JobHolds DEF Job!ReadNumber
  <1>4. PICK t : t = [d EXCEPT !.number = n]
    OBVIOUS
  <1>5. t \in JobBilling(c) /\ t.id = d.id /\ t.read = d.read /\ t.op = d.op
    BY <1>3, <1>4 DEF JobBilling
  <1>6. UNCHANGED <<costs, orders, billings, invoices, raced>>
    BY DEF Job!ReadNumber
  <1>7. JobUnderway(c, t)'
    BY <1>3, <1>5, <1>6 DEF JobUnderway
  <1>8. txn' = [txn EXCEPT ![r] = t]
    BY <1>1, <1>2, <1>4 DEF Job!ReadNumber
  <1> QED
    BY <1>6, <1>7, <1>8, JobReading

\* A billing is written that was read in the status the request expects, and
\* invoices are only made of it.
LEMMA JobWriteBilling ==
  ASSUME NEW c, JobIInv(c), NEW r \in JobCase[c].req, NEW row \in Job(c)!Billing,
         txn[r].op \in {"submit", "approve", "invoice", "drop"},
         JobBillingAdds(c, row), Job(c)!WriteBilling(r, row),
         invoices' \in Seq(JobInvoice), Len(invoices') <= JobCase[c].invoices,
         \A k \in DOMAIN invoices : k \in DOMAIN invoices' /\ invoices'[k] = invoices[k],
         \A k \in DOMAIN invoices' \ DOMAIN invoices :
            /\ invoices'[k].billing = txn[r].id
            /\ ~raced' => /\ row.status = "invoiced" /\ row.invoice = k
                          /\ invoices'[k].total = row.net /\ invoices'[k].lines = row.total
  PROVE  JobIInv(c)'
  <1>1. PICK k : k = txn[r].id /\ k \in DOMAIN billings
    BY JobHolds
  <1>2. billings \in Seq(Job(c)!Billing) /\ DOMAIN billings = 1..Len(billings)
    BY JobRows DEF JobIInv
  <1>3. billings' = [billings EXCEPT ![k] = row] /\ UNCHANGED <<costs, orders>>
    BY <1>1 DEF Job!WriteBilling
  <1>4. /\ billings' \in Seq(Job(c)!Billing) /\ DOMAIN billings' = DOMAIN billings
        /\ \A i \in DOMAIN billings : billings'[i] = IF i = k THEN row ELSE billings[i]
    <2>1. billings' \in Seq(Job(c)!Billing)
      BY <1>1, <1>2, <1>3, ExceptSeq
    <2> QED
      BY <1>1, <1>3, <2>1
  <1>5. JobTxnOK(c)'
    <2>1. txn' = [txn EXCEPT ![r] = Job(c)!Idle]
      BY DEF Job!WriteBilling
    <2>2. JobTxnOK(c)
      BY DEF JobIInv
    <2> QED
      BY <1>3, <1>4, <2>1, <2>2, JobIdleOK, JobSlot
  <1>6. JobTypesOK(c)'
    <2>1. Job(c)!TypeOK'
      BY <1>3, <1>4 DEF JobIInv, JobTypesOK, Job!TypeOK
    <2>2. ASSUME NEW i \in DOMAIN billings'
          PROVE  JobBillingAdds(c, billings[i])'
      <3>1. PICK d : d = billings'[i] /\ JobBillingAdds(c, d)
        <4>1. JobBillingAdds(c, billings[i])
          BY <1>4 DEF JobIInv, JobTypesOK
        <4> QED
          BY <1>4, <4>1
      <3> QED
        BY <3>1 DEF JobBillingAdds
    <2>3. \A j \in DOMAIN invoices' : invoices'[j].billing \in DOMAIN billings'
      <3>1. \A j \in DOMAIN invoices : invoices[j].billing \in DOMAIN billings
        BY DEF JobIInv, JobTypesOK
      <3> QED
        BY <1>1, <1>4, <3>1
    <2> QED
      BY <2>1, <2>2, <2>3 DEF JobTypesOK
  <1>7. ~raced' => JobAgreed' /\ JobInvoiced'
    <2>1. SUFFICES ASSUME ~raced'
                   PROVE  JobAgreed' /\ JobInvoiced'
      OBVIOUS
    <2>2. ~raced /\ billings[k] = txn[r].read
      BY <1>1, <2>1 DEF Job!WriteBilling
    <2>3. JobAgreed /\ JobInvoiced
      BY <2>2 DEF JobIInv
    <2>4. billings[k].status # "invoiced"
      <3>1. billings[k].status \in Job(c)!Expects(txn[r].op)
        BY <2>2, JobHolds
      <3> QED
        BY <3>1 DEF Job!Expects
    <2>5. ASSUME NEW j \in DOMAIN invoices'
          PROVE  LET b == billings'[invoices'[j].billing]
                 IN /\ b.status = "invoiced" /\ b.invoice = j
                    /\ invoices'[j].total = b.net /\ invoices'[j].lines = b.total
      <3>1. CASE j \in DOMAIN invoices
        <4>1. invoices'[j] = invoices[j]
          BY <3>1
        <4>2. invoices[j].billing # k /\ invoices[j].billing \in DOMAIN billings
          BY <2>3, <2>4, <3>1 DEF JobInvoiced, JobIInv, JobTypesOK
        <4>3. billings'[invoices[j].billing] = billings[invoices[j].billing]
          BY <1>4, <4>2
        <4> QED
          BY <2>3, <3>1, <4>1, <4>3 DEF JobInvoiced
      <3>2. CASE j \notin DOMAIN invoices
        <4>1. invoices'[j].billing = k /\ billings'[k] = row
          BY <1>1, <1>4, <3>2
        <4> QED
          BY <2>1, <3>2, <4>1
      <3> QED
        BY <3>1, <3>2
    <2> QED
      BY <1>3, <2>3, <2>5 DEF JobAgreed, JobInvoiced
  <1> QED
    BY <1>5, <1>6, <1>7 DEF JobIInv

LEMMA JobCommitBilling ==
  ASSUME NEW c, JobIInv(c), NEW r \in JobCase[c].req, Job(c)!CommitBilling(r)
  PROVE  JobIInv(c)'
  <1>1. txn[r].op \in {"submit", "approve", "drop"}
    BY DEF Job!CommitBilling
  <1>2. PICK k : k = txn[r].id /\ k \in DOMAIN billings
    BY <1>1, JobHolds
  <1>3. PICK b : b = billings[k] /\ b \in Job(c)!Billing
    BY <1>2, JobRows DEF JobIInv
  <1>4. PICK to : to = CASE txn[r].op = "submit" -> "submitted" [] txn[r].op = "approve" -> "approved"
                         [] txn[r].op = "drop" -> "deleted"
    OBVIOUS
  <1>5. to \in {"submitted", "approved", "deleted"}
    BY <1>1, <1>4
  <1>6. PICK row : row = [b EXCEPT !.status = to]
    OBVIOUS
  <1>7. row \in Job(c)!Billing
    BY <1>3, <1>5, <1>6 DEF Job!Billing
  <1>8. JobBillingAdds(c, row)
    <2>1. JobBillingAdds(c, b)
      BY <1>2, <1>3 DEF JobIInv, JobTypesOK
    <2>2. /\ row.lines = b.lines /\ row.total = b.total /\ row.retention = b.retention
          /\ row.net = b.net
      BY <1>3, <1>6 DEF Job!Billing
    <2> QED
      BY <2>1, <2>2 DEF JobBillingAdds
  <1>9. Job(c)!WriteBilling(r, row) /\ UNCHANGED invoices
    BY <1>2, <1>3, <1>4, <1>6 DEF Job!CommitBilling
  <1>10. invoices \in Seq(JobInvoice) /\ Len(invoices) <= JobCase[c].invoices
    BY DEF JobIInv, JobTypesOK
  <1> QED
    BY <1>1, <1>7, <1>8, <1>9, <1>10, JobWriteBilling

LEMMA JobCommitInvoice ==
  ASSUME NEW c, Job(c)!JobCostingAssumption, JobIInv(c), NEW r \in JobCase[c].req,
         Job(c)!CommitInvoice(r)
  PROVE  JobIInv(c)'
  <1>1. txn[r].op = "invoice"
    BY DEF Job!CommitInvoice
  <1>2. PICK k : k = txn[r].id /\ k \in DOMAIN billings /\ k \in Nat
    BY <1>1, JobHolds, JobRows DEF JobIInv
  <1>3. PICK b : b = billings[k] /\ b \in Job(c)!Billing
    BY <1>2, JobRows DEF JobIInv
  <1>4. PICK d : d = txn[r].read /\ d \in Job(c)!Billing
    BY <1>1, JobHolds
  <1>5. PICK x \in Nat : x = txn[r].number
    BY <1>1, JobHolds
  <1>6. PICK n \in Nat : n = Len(invoices) /\ DOMAIN invoices = 1..n /\ invoices \in Seq(JobInvoice)
    BY JobRows DEF JobIInv, JobTypesOK
  <1>7. PICK w \in Nat : w = Job(c)!Billed(d.lines)
    <2>1. d.lines \in JobCase[c].lines
      BY <1>4 DEF Job!Billing
    <2> QED
      BY <2>1, JobLines
  <1>8. PICK v : v = [number |-> x, total |-> d.net, billing |-> k, lines |-> w]
    OBVIOUS
  <1>9. /\ v \in JobInvoice /\ v.billing = k /\ v.total = d.net /\ v.lines = w
    <2>1. d.net \in Nat
      BY <1>4 DEF Job!Billing
    <2> QED
      BY <1>2, <1>8, <2>1 DEF JobInvoice
  <1>10. PICK row : row = [b EXCEPT !.status = "invoiced", !.invoice = n + 1]
    OBVIOUS
  <1>11. n < JobCase[c].invoices /\ JobCase[c].invoices \in Nat
    BY <1>6 DEF Job!CommitInvoice, Job!JobCostingAssumption
  <1>12. row \in Job(c)!Billing
    <2>1. n + 1 \in 0..JobCase[c].invoices
      BY <1>11
    <2> QED
      BY <1>3, <1>10, <2>1 DEF Job!Billing
  <1>13. /\ row.lines = b.lines /\ row.total = b.total /\ row.retention = b.retention
         /\ row.net = b.net /\ row.status = "invoiced" /\ row.invoice = n + 1
    BY <1>3, <1>10 DEF Job!Billing
  <1>14. JobBillingAdds(c, b) /\ JobBillingAdds(c, row)
    <2>1. JobBillingAdds(c, b)
      BY <1>2, <1>3 DEF JobIInv, JobTypesOK
    <2> QED
      BY <1>13, <2>1 DEF JobBillingAdds
  <1>15. invoices' = Append(invoices, v) /\ Job(c)!WriteBilling(r, row)
    BY <1>2, <1>3, <1>4, <1>5, <1>6, <1>7, <1>8, <1>10 DEF Job!CommitInvoice
  <1>16. /\ invoices' \in Seq(JobInvoice) /\ Len(invoices') = n + 1
         /\ DOMAIN invoices' = 1..(n + 1) /\ invoices'[n + 1] = v
         /\ \A j \in DOMAIN invoices : invoices'[j] = invoices[j]
    <2>1. /\ invoices' \in Seq(JobInvoice) /\ Len(invoices') = n + 1 /\ invoices'[n + 1] = v
          /\ \A j \in DOMAIN invoices : invoices'[j] = invoices[j]
      BY <1>6, <1>9, <1>15, AppendProperties
    <2> QED
      BY <2>1, LenProperties
  <1>17. /\ \A j \in DOMAIN invoices : j \in DOMAIN invoices' /\ invoices'[j] = invoices[j]
         /\ Len(invoices') <= JobCase[c].invoices
    BY <1>6, <1>11, <1>16
  <1>18. ASSUME NEW j \in DOMAIN invoices' \ DOMAIN invoices
         PROVE  /\ invoices'[j].billing = txn[r].id
                /\ ~raced' => /\ row.status = "invoiced" /\ row.invoice = j
                              /\ invoices'[j].total = row.net /\ invoices'[j].lines = row.total
    <2>1. j = n + 1 /\ invoices'[j] = v
      BY <1>6, <1>16
    <2>2. ~raced' => b = d
      BY <1>2, <1>3, <1>4, <1>15 DEF Job!WriteBilling
    <2>3. ~raced' => v.total = row.net /\ v.lines = row.total
      BY <1>7, <1>9, <1>13, <1>14, <2>2 DEF JobBillingAdds
    <2> QED
      BY <1>2, <1>9, <1>13, <2>1, <2>3
  <1> QED
    BY <1>1, <1>12, <1>14, <1>15, <1>16, <1>17, <1>18, JobWriteBilling

LEMMA JobInitIInv ==
  ASSUME NEW c, Job(c)!JobCostingAssumption, Job(c)!Init
  PROVE  JobIInv(c)
  <1>1. costs = <<>> /\ orders = <<>> /\ billings = <<>> /\ invoices = <<>>
    BY DEF Job!Init
  <1>2. /\ costs \in Seq(Job(c)!CostEntry) /\ orders \in Seq(Job(c)!ChangeOrder)
        /\ billings \in Seq(Job(c)!Billing) /\ invoices \in Seq(JobInvoice)
        /\ Len(invoices) = 0
        /\ DOMAIN orders = {} /\ DOMAIN billings = {} /\ DOMAIN invoices = {}
    BY <1>1, EmptySeq
  <1>3. JobTypesOK(c)
    <2>1. Job(c)!TypeOK
      BY <1>2 DEF Job!TypeOK
    <2>2. Len(invoices) <= JobCase[c].invoices
      BY <1>2 DEF Job!JobCostingAssumption
    <2> QED
      BY <1>2, <2>1, <2>2 DEF JobTypesOK
  <1>4. JobTxnOK(c)
    <2>1. txn = [r \in JobCase[c].req |-> Job(c)!Idle]
      BY DEF Job!Init
    <2> QED
      BY <2>1 DEF JobTxnOK, JobUnderway
  <1> QED
    BY <1>2, <1>3, <1>4 DEF JobIInv, JobAgreed, JobInvoiced

LEMMA JobNextStep ==
  ASSUME NEW c, Job(c)!JobCostingAssumption, JobIInv(c), Job(c)!Next \/ UNCHANGED Job(c)!vars
  PROVE  JobIInv(c)'
  <1>1. ASSUME NEW e \in [code: JobCase[c].codes, cost: JobCase[c].amounts,
                          budget: JobCase[c].amounts],
               \/ Job(c)!CreateJobCostEntry(e)
               \/ \E i \in DOMAIN costs : Job(c)!UpdateJobCostEntry(i, e)
        PROVE  JobIInv(c)'
    BY <1>1, JobCostStep
  <1>2. ASSUME NEW i \in DOMAIN costs, Job(c)!DeleteJobCostEntry(i) PROVE JobIInv(c)'
    BY <1>2, JobDeleteStep
  <1>3. ASSUME NEW a \in JobCase[c].amounts, Job(c)!CreateChangeOrder(a) PROVE JobIInv(c)'
    BY <1>3, JobCreateOrder
  <1>4. ASSUME NEW ls \in JobCase[c].lines, Job(c)!CreateProgressBilling(ls) PROVE JobIInv(c)'
    BY <1>4, JobCreateBilling
  <1>5. ASSUME NEW r \in JobCase[c].req, NEW i \in DOMAIN orders, NEW op,
               Job(c)!ReadOrder(r, op, i)
        PROVE  JobIInv(c)'
    BY <1>5, JobReadOrder
  <1>6. ASSUME NEW r \in JobCase[c].req, NEW a \in JobCase[c].amounts, Job(c)!CommitOrder(r, a)
        PROVE  JobIInv(c)'
    BY <1>6, JobCommitOrder
  <1>7. ASSUME NEW r \in JobCase[c].req, NEW i \in DOMAIN billings, NEW op,
               Job(c)!ReadBilling(r, op, i)
        PROVE  JobIInv(c)'
    BY <1>7, JobReadBilling
  <1>8. ASSUME NEW r \in JobCase[c].req,
               Job(c)!ReadNumber(r) \/ Job(c)!CommitBilling(r) \/ Job(c)!CommitInvoice(r)
        PROVE  JobIInv(c)'
    BY <1>8, JobReadNumber, JobCommitBilling, JobCommitInvoice
  <1>9. ASSUME NEW r \in JobCase[c].req, Job(c)!Rollback(r) PROVE JobIInv(c)'
    BY <1>9, JobIdleOK, JobReading DEF Job!Rollback
  <1>10. CASE UNCHANGED Job(c)!vars
    <2>1. UNCHANGED <<costs, orders, billings, invoices, txn, raced>>
      BY <1>10 DEF Job!vars
    <2>2. costs' \in Seq(Job(c)!CostEntry)
      BY <2>1, JobRows DEF JobIInv
    <2> QED
      BY <2>1, <2>2, JobCosted
  <1> QED
    BY <1>1, <1>2, <1>3, <1>4, <1>5, <1>6, <1>7, <1>8, <1>9, <1>10, Zenon DEF Job!Next

-----------------------------------------------------------------------------
(* What was billed, and what was earned.                                   *)

\* What the invoices ask for is what the report counts of their billings.
LEMMA JobCounted ==
  ASSUME NEW c, JobTypesOK(c), JobInvoiced
  PROVE  Job(c)!SumFunction([k \in DOMAIN invoices |-> invoices[k].total]) <= Job(c)!BilledToDate
  <1>1. PICK D, B : D = DOMAIN invoices /\ B = DOMAIN billings
    OBVIOUS
  <1>2. IsFiniteSet(D) /\ IsFiniteSet(B)
    <2>1. 1 \in Int /\ Len(invoices) \in Int /\ Len(billings) \in Int
      BY JobRows
    <2> QED
      BY <1>1, <2>1, JobRows, FS_Interval
  <1>3. PICK g, h, e : /\ g = [k \in D |-> invoices[k].total]
                       /\ h = [i \in B |-> Job(c)!Counted(billings[i])]
                       /\ e = [k \in D |-> invoices[k].billing]
    OBVIOUS
  <1>4. \A i \in B : h[i] \in Nat
    <2>1. \A i \in B : billings[i] \in Job(c)!Billing
      BY <1>1, JobRows
    <2>2. \A b \in Job(c)!Billing : Job(c)!Counted(b) \in Nat
      BY DEF Job!Billing, Job!Counted
    <2> QED
      BY <1>3, <2>1, <2>2
  <1>5. \A k \in D : e[k] \in B /\ g[k] \in Int /\ h[e[k]] = g[k]
    <2>1. SUFFICES ASSUME NEW k \in D
                   PROVE  e[k] \in B /\ g[k] \in Int /\ h[e[k]] = g[k]
      OBVIOUS
    <2>2. e[k] = invoices[k].billing /\ e[k] \in B
      BY <1>1, <1>3 DEF JobTypesOK
    <2>3. PICK b : b = billings[e[k]]
      OBVIOUS
    <2>4. b.status = "invoiced" /\ invoices[k].total = b.net
      BY <1>1, <2>2, <2>3 DEF JobInvoiced
    <2>5. Job(c)!Counted(b) = b.net
      BY <2>4 DEF Job!Counted
    <2>6. h[e[k]] = Job(c)!Counted(b)
      BY <1>3, <2>2, <2>3
    <2>7. g[k] = b.net
      BY <1>3, <2>4
    <2> QED
      BY <1>4, <2>2, <2>5, <2>6, <2>7
  <1>6. \A k, m \in D : e[k] = e[m] => k = m
    <2>1. \A k \in D : billings[e[k]].invoice = k
      BY <1>1, <1>3 DEF JobInvoiced
    <2> QED
      BY <2>1
  <1>7. PICK I : I = {e[k] : k \in D}
    OBVIOUS
  <1>8. I \subseteq B /\ IsFiniteSet(I)
    <2>1. I \subseteq B
      BY <1>5, <1>7
    <2> QED
      BY <1>2, <2>1, FS_Subset
  <1>9. SumOver(h, I) = SumOver(g, D)
    BY <1>2, <1>5, <1>6, <1>7, SumImage
  <1>10. PICK R : R = B \ I
    OBVIOUS
  <1>11. IsFiniteSet(R) /\ I \cap R = {} /\ B = I \cup R
    BY <1>2, <1>8, <1>10, FS_Subset
  <1>12. SumOver(h, R) \in Nat /\ SumOver(h, I) \in Nat
    <2>1. \A i \in R : h[i] \in Nat
      BY <1>4, <1>10
    <2>2. \A i \in I : h[i] \in Nat
      BY <1>4, <1>8
    <2> QED
      BY <1>8, <1>11, <2>1, <2>2, SumNat
  <1>13. SumOver(h, B) = SumOver(h, I) + SumOver(h, R)
    <2>1. \A i \in I \cup R : h[i] \in Int
      BY <1>4, <1>11
    <2> QED
      BY <1>8, <1>11, <2>1, SumUnion
  <1>14. /\ Job(c)!SumFunction([k \in DOMAIN invoices |-> invoices[k].total]) = SumOver(g, D)
         /\ Job(c)!BilledToDate = SumOver(h, B)
    <2>1. DOMAIN g = D /\ DOMAIN h = B
      BY <1>3
    <2>2. Job(c)!SumFunction(g) = SumOver(g, D) /\ Job(c)!SumFunction(h) = SumOver(h, B)
      BY <2>1, JobSum
    <2>3. Job(c)!BilledToDate = Job(c)!SumFunction(h)
      BY <1>1, <1>3, Zenon DEF Job!BilledToDate
    <2> QED
      BY <1>1, <1>3, <2>2, <2>3
  <1>15. PICK u \in Nat, v \in Nat : u = SumOver(h, R) /\ v = SumOver(h, I)
    BY <1>12
  <1> QED
    BY <1>9, <1>13, <1>14, <1>15

LEMMA JobSettled ==
  ASSUME NEW c, Job(c)!JobCostingAssumption, JobIInv(c)
  PROVE  Job(c)!BillingsInvoiced
  <1>1. SUFFICES ASSUME ~raced
                 PROVE  /\ \A i \in DOMAIN orders :
                             orders[i].status = "approved" => orders[i].amount = orders[i].agreed
                        /\ \A k \in DOMAIN invoices :
                             LET b == billings[invoices[k].billing]
                             IN /\ b.status = "invoiced" /\ b.invoice = k
                                /\ Job(c)!Abs(invoices[k].lines - invoices[k].total - b.retention) <= 1
                        /\ Job(c)!SumFunction([k \in DOMAIN invoices |-> invoices[k].total])
                             <= Job(c)!BilledToDate
    BY Zenon DEF Job!BillingsInvoiced
  <1>2. JobTypesOK(c) /\ JobAgreed /\ JobInvoiced
    BY <1>1 DEF JobIInv
  <1>3. ASSUME NEW k \in DOMAIN invoices
        PROVE  LET b == billings[invoices[k].billing]
               IN /\ b.status = "invoiced" /\ b.invoice = k
                  /\ Job(c)!Abs(invoices[k].lines - invoices[k].total - b.retention) <= 1
    <2>1. PICK b : b = billings[invoices[k].billing]
      OBVIOUS
    <2>2. b \in Job(c)!Billing /\ JobBillingAdds(c, b)
      <3>1. invoices[k].billing \in DOMAIN billings
        BY <1>2 DEF JobTypesOK
      <3> QED
        BY <1>2, <2>1, <3>1, JobRows DEF JobTypesOK
    <2>3. PICK ls \in JobCase[c].lines : ls = b.lines
      BY <2>2 DEF Job!Billing
    <2>4. PICK t \in Nat, n \in Nat, m \in Nat :
                 t = Job(c)!Billed(ls) /\ n = Job(c)!Net(ls) /\ m = Job(c)!Retention(ls)
      BY JobLines
    <2>5. t <= n + m + 1 /\ n + m <= t + 1
      BY <2>4, JobLines
    <2>6. b.total = t /\ b.net = n /\ b.retention = m
      BY <2>2, <2>3, <2>4 DEF JobBillingAdds
    <2>7. /\ b.status = "invoiced" /\ b.invoice = k
          /\ invoices[k].total = n /\ invoices[k].lines = t
      BY <1>2, <2>1, <2>6 DEF JobInvoiced
    <2>8. Job(c)!Abs(t - n - m) <= 1
      BY <2>5 DEF Job!Abs
    <2> QED
      BY <2>1, <2>6, <2>7, <2>8
  <1>4. Job(c)!SumFunction([k \in DOMAIN invoices |-> invoices[k].total]) <= Job(c)!BilledToDate
    BY <1>2, JobCounted
  <1> QED
    BY <1>2, <1>3, <1>4 DEF JobAgreed

\* The budget and the cost of a code.
LEMMA JobCodeSums ==
  ASSUME NEW c, JobTypesOK(c), NEW x
  PROVE  Job(c)!Budget(x) \in Nat /\ Job(c)!Actual(x) \in Nat
  <1>1. PICK D : D = DOMAIN costs
    OBVIOUS
  <1>2. PICK n \in Nat : n = Len(costs) /\ D = 1..n
    BY <1>1, JobRows, LenProperties
  <1>3. IsFiniteSet(D)
    <2>1. 1 \in Int /\ n \in Int
      OBVIOUS
    <2> QED
      BY <1>2, <2>1, FS_Interval
  <1>4. PICK g, h : /\ g = [i \in D |-> IF costs[i].code = x THEN costs[i].budget ELSE 0]
                    /\ h = [i \in D |-> IF costs[i].code = x THEN costs[i].cost ELSE 0]
    OBVIOUS
  <1>5. \A i \in D : g[i] \in Nat /\ h[i] \in Nat
    <2>1. \A i \in D : costs[i] \in Job(c)!CostEntry
      BY <1>1, <1>2, JobRows, ElementOfSeq
    <2>2. \A i \in D : costs[i].budget \in Nat /\ costs[i].cost \in Nat
      BY <2>1 DEF Job!CostEntry
    <2> QED
      BY <1>4, <2>2
  <1>6. SumOver(g, D) \in Nat /\ SumOver(h, D) \in Nat
    BY <1>3, <1>5, SumNat
  <1>7. DOMAIN g = D /\ DOMAIN h = D
    BY <1>4
  <1>8. Job(c)!SumFunction(g) = SumOver(g, D) /\ Job(c)!SumFunction(h) = SumOver(h, D)
    BY <1>7, JobSum
  <1>9. Job(c)!Budget(x) = Job(c)!SumFunction(g) /\ Job(c)!Actual(x) = Job(c)!SumFunction(h)
    BY <1>1, <1>4, Zenon DEF Job!Budget, Job!Actual
  <1> QED
    BY <1>6, <1>8, <1>9

\* What is earned of a code that has a budget is its cost, to half a percent point
\* of the budget.
LEMMA JobCodeEarned ==
  ASSUME NEW c, JobTypesOK(c), NEW x, Job(c)!Budget(x) > 0
  PROVE  /\ Job(c)!Percent(x) * Job(c)!Budget(x) \in Nat
         /\ 2 * (Job(c)!Percent(x) * Job(c)!Budget(x)) <= 20000 * Job(c)!Actual(x) + Job(c)!Budget(x)
         /\ 20000 * Job(c)!Actual(x) <= 2 * (Job(c)!Percent(x) * Job(c)!Budget(x)) + Job(c)!Budget(x)
  <1>1. PICK a \in Nat, b \in Nat : a = Job(c)!Actual(x) /\ b = Job(c)!Budget(x)
    BY JobCodeSums
  <1>2. PICK n \in Nat : n = a * 10000
    OBVIOUS
  <1>3. b > 0 /\ Job(c)!Percent(x) = Job(c)!Round(n, b)
    BY <1>1, <1>2 DEF Job!Percent
  <1>4. PICK q \in Nat : q = Job(c)!Round(n, b)
    BY <1>3, JobRound
  <1>5. 2 * (b * q) <= 2 * n + b /\ 2 * n <= 2 * (b * q) + b
    BY <1>3, <1>4, JobRound
  <1>6. PICK p \in Nat : p = q * b /\ p = b * q
    OBVIOUS
  <1>7. 2 * p <= 20000 * a + b /\ 20000 * a <= 2 * p + b
    BY <1>2, <1>5, <1>6
  <1> QED
    BY <1>1, <1>3, <1>4, <1>6, <1>7

LEMMA JobEarned ==
  ASSUME NEW c, Job(c)!JobCostingAssumption, JobIInv(c)
  PROVE  Job(c)!EarnedIsSpent
  <1>1. JobTypesOK(c)
    BY DEF JobIInv
  <1>2. PICK S : S = JobCase[c].codes
    OBVIOUS
  <1>3. IsFiniteSet(S)
    <2>1. Job(c)!IsFiniteSet(S)
      BY <1>2 DEF Job!JobCostingAssumption
    <2> QED
      BY <2>1, Zenon DEF Job!IsFiniteSet, IsFiniteSet
  <1>4. PICK U : U = {x \in S : Job(c)!Budget(x) > 0}
    OBVIOUS
  <1>5. U \in SUBSET S /\ IsFiniteSet(U)
    BY <1>3, <1>4, FS_Subset
  <1>6. PICK e, b, a : /\ e = [x \in S |-> Job(c)!Percent(x) * Job(c)!Budget(x)]
                       /\ b = [x \in S |-> Job(c)!Budget(x)]
                       /\ a = [x \in U |-> Job(c)!Actual(x)]
    OBVIOUS
  <1>7. \A x \in U : /\ e[x] \in Int /\ b[x] \in Int /\ a[x] \in Int
                     /\ 2 * e[x] <= 20000 * a[x] + b[x] /\ 20000 * a[x] <= 2 * e[x] + b[x]
    <2>1. SUFFICES ASSUME NEW x \in U
                   PROVE  /\ e[x] \in Int /\ b[x] \in Int /\ a[x] \in Int
                          /\ 2 * e[x] <= 20000 * a[x] + b[x] /\ 20000 * a[x] <= 2 * e[x] + b[x]
      OBVIOUS
    <2>2. x \in S /\ Job(c)!Budget(x) > 0
      BY <1>4
    <2>3. e[x] = Job(c)!Percent(x) * Job(c)!Budget(x) /\ b[x] = Job(c)!Budget(x)
          /\ a[x] = Job(c)!Actual(x)
      BY <1>6, <2>2
    <2>4. Job(c)!Budget(x) \in Nat /\ Job(c)!Actual(x) \in Nat
      BY <1>1, JobCodeSums
    <2>5. /\ e[x] \in Nat /\ 2 * e[x] <= 20000 * a[x] + b[x]
          /\ 20000 * a[x] <= 2 * e[x] + b[x]
      BY <1>1, <2>2, <2>3, JobCodeEarned
    <2> QED
      BY <2>3, <2>4, <2>5
  <1>8. \A x \in S \ U : e[x] = 0 /\ b[x] = 0
    <2>1. SUFFICES ASSUME NEW x \in S \ U
                   PROVE  e[x] = 0 /\ b[x] = 0
      OBVIOUS
    <2>2. Job(c)!Budget(x) \in Nat /\ ~(Job(c)!Budget(x) > 0)
      BY <1>1, <1>4, JobCodeSums
    <2>3. Job(c)!Budget(x) = 0 /\ Job(c)!Percent(x) = 0
      BY <2>2 DEF Job!Percent
    <2> QED
      BY <1>6, <2>3
  <1>9. /\ SumOver(e, S) = SumOver(e, U) /\ SumOver(e, U) \in Int
        /\ SumOver(b, S) = SumOver(b, U) /\ SumOver(b, U) \in Int
    <2>1. SumOver(e, S) = SumOver(e, U) /\ SumOver(e, U) \in Int
      BY <1>3, <1>5, <1>7, <1>8, SumPart
    <2>2. SumOver(b, S) = SumOver(b, U) /\ SumOver(b, U) \in Int
      BY <1>3, <1>5, <1>7, <1>8, SumPart
    <2> QED
      BY <2>1, <2>2
  <1>10. SumOver(a, U) \in Int
    BY <1>5, <1>7, SumType
  <1>11. /\ 2 * SumOver(e, U) <= 20000 * SumOver(a, U) + SumOver(b, U)
         /\ 20000 * SumOver(a, U) <= 2 * SumOver(e, U) + SumOver(b, U)
    <2>1. 2 * SumOver(e, U) <= 20000 * SumOver(a, U) + SumOver(b, U)
      <3>1. 2 \in Int /\ 20000 \in Int
        OBVIOUS
      <3> QED
        BY <1>5, <1>7, <3>1, SumWithin
    <2>2. 20000 * SumOver(a, U) <= 2 * SumOver(e, U) + SumOver(b, U)
      <3>1. 2 \in Int /\ 20000 \in Int
        OBVIOUS
      <3> QED
        BY <1>5, <1>7, <3>1, SumWithin
    <2> QED
      BY <2>1, <2>2
  <1>12. /\ Job(c)!Bcwp = SumOver(e, S)
         /\ Job(c)!SumFunction(b) = SumOver(b, S) /\ Job(c)!SumFunction(a) = SumOver(a, U)
    <2>1. DOMAIN e = S /\ DOMAIN b = S /\ DOMAIN a = U
      BY <1>6
    <2>2. Job(c)!Bcwp = Job(c)!SumFunction(e)
      BY <1>2, <1>6, Zenon DEF Job!Bcwp
    <2> QED
      BY <2>1, <2>2, JobSum
  <1>13. 2 * Job(c)!Abs(Job(c)!Bcwp - 10000 * Job(c)!SumFunction(a)) <= Job(c)!SumFunction(b)
    <2>1. PICK m \in Int, n \in Int, k \in Int :
                 m = SumOver(e, U) /\ n = SumOver(a, U) /\ k = SumOver(b, U)
      BY <1>9, <1>10
    <2>2. 2 * m <= 20000 * n + k /\ 20000 * n <= 2 * m + k
      BY <1>11, <2>1
    <2>3. 2 * Job(c)!Abs(m - 10000 * n) <= k
      BY <2>2 DEF Job!Abs
    <2> QED
      BY <1>9, <1>12, <2>1, <2>3
  <1>14. SUFFICES 2 * Job(c)!Abs(Job(c)!Bcwp
                     - 10000 * Job(c)!SumFunction(
                         [x \in {y \in S : Job(c)!Budget(y) > 0} |-> Job(c)!Actual(x)]))
                  <= Job(c)!SumFunction([x \in S |-> Job(c)!Budget(x)])
    BY <1>2 DEF Job!EarnedIsSpent
  <1>15. /\ Job(c)!SumFunction([x \in {y \in S : Job(c)!Budget(y) > 0} |-> Job(c)!Actual(x)])
              = Job(c)!SumFunction(a)
         /\ Job(c)!SumFunction([x \in S |-> Job(c)!Budget(x)]) = Job(c)!SumFunction(b)
    BY <1>4, <1>6
  <1> QED
    BY <1>13, <1>15

-----------------------------------------------------------------------------
(* Deals.  The inductive invariant.                                        *)

DealInvoice == [number: Nat, total: Nat, deal: Nat]

\* What is under way: a deal that was read live, and open if it is to be closed.
DealUnderway(t) ==
  \/ t = Deal!Idle
  \/ /\ t = [op |-> t.op, id |-> t.id, read |-> t.read, number |-> t.number]
     /\ t.op \in {"update", "move", "win", "lose"} /\ t.id \in DOMAIN deals
     /\ t.read \in Deal!Deal /\ t.read.live /\ t.number \in Nat
     /\ t.op \in {"win", "lose"} => t.read.status = "open"

DealTxnOK == /\ txn = [r \in DealCase.req |-> txn[r]]
             /\ \A r \in DealCase.req : DealUnderway(txn[r])

DealTypesOK == /\ Deal!TypeOK /\ Len(stages) <= DealCase.stages
               /\ \A d \in DOMAIN deals : deals[d].stage \in DOMAIN stages
               /\ invoices \in Seq(DealInvoice)
               /\ \A i \in DOMAIN invoices : invoices[i].deal \in DOMAIN deals

DealStagesOK == \A d \in DOMAIN deals : deals[d].live => stages[deals[d].stage].live

\* The weighted value is the value times the probability, to half a cent.
DealWeighs(d) == /\ 100 * d.weighted <= d.value * d.odds + 50
                 /\ d.value * d.odds <= 100 * d.weighted + 50

DealGood(d) == /\ d.status = "open" <=> d.closed = "no"
               /\ ~d.edited /\ d.closed = "won" => d.odds = 100 /\ d.weighted = d.value
               /\ ~d.edited /\ d.closed = "lost" => d.weighted = 0
               /\ DealWeighs(d)

DealInvoiced ==
  /\ \A i, j \in DOMAIN invoices : invoices[i].deal = invoices[j].deal => i = j
  /\ \A i \in DOMAIN invoices : deals[invoices[i].deal].closed = "won"

DealIInv == /\ DealTypesOK /\ DealTxnOK /\ DealStagesOK
            /\ ~raced => (\A d \in DOMAIN deals : DealGood(deals[d])) /\ DealInvoiced

-----------------------------------------------------------------------------
(* Rows and slots.                                                         *)

LEMMA DealRows ==
  ASSUME DealTypesOK
  PROVE  /\ Len(stages) \in Nat /\ DOMAIN stages = 1..Len(stages)
         /\ \A s \in DOMAIN stages : stages[s] \in Deal!Stage
         /\ Len(deals) \in Nat /\ DOMAIN deals = 1..Len(deals)
         /\ \A d \in DOMAIN deals : deals[d] \in Deal!Deal
         /\ Len(invoices) \in Nat /\ DOMAIN invoices = 1..Len(invoices)
         /\ \A i \in DOMAIN invoices : invoices[i] \in DealInvoice
  <1>1. stages \in Seq(Deal!Stage) /\ deals \in Seq(Deal!Deal) /\ invoices \in Seq(DealInvoice)
    BY DEF DealTypesOK, Deal!TypeOK
  <1>2. /\ Len(stages) \in Nat /\ DOMAIN stages = 1..Len(stages)
        /\ Len(deals) \in Nat /\ DOMAIN deals = 1..Len(deals)
        /\ Len(invoices) \in Nat /\ DOMAIN invoices = 1..Len(invoices)
    BY <1>1, LenProperties
  <1> QED
    BY <1>1, <1>2, ElementOfSeq

LEMMA DealUnderwayStays ==
  ASSUME NEW t, DealUnderway(t), DOMAIN deals \subseteq DOMAIN deals'
  PROVE  DealUnderway(t)'
  BY DEF DealUnderway

\* A slot goes on to t.
LEMMA DealSlot ==
  ASSUME DealTxnOK, NEW r \in DealCase.req, NEW t, DealUnderway(t)',
         txn' = [txn EXCEPT ![r] = t], DOMAIN deals \subseteq DOMAIN deals'
  PROVE  DealTxnOK'
  <1>1. /\ txn' = [x \in DealCase.req |-> txn'[x]]
        /\ \A x \in DealCase.req : txn'[x] = IF x = r THEN t ELSE txn[x]
    BY DEF DealTxnOK
  <1>2. ASSUME NEW x \in DealCase.req PROVE DealUnderway(txn[x])'
    <2>1. PICK u : u = txn[x]
      OBVIOUS
    <2>2. DealUnderway(u)'
      BY <2>1, DealUnderwayStays DEF DealTxnOK
    <2>3. PICK w : w = txn'[x]
      OBVIOUS
    <2>4. w = u \/ w = t
      BY <1>1, <2>1, <2>3
    <2>5. DealUnderway(w)'
      BY <2>2, <2>4
    <2> QED
      BY <2>3, <2>5 DEF DealUnderway
  <1> QED
    BY <1>1, <1>2 DEF DealTxnOK

LEMMA DealSlotsStay ==
  ASSUME DealTxnOK, DOMAIN deals \subseteq DOMAIN deals', UNCHANGED txn
  PROVE  DealTxnOK'
  <1>1. ASSUME NEW x \in DealCase.req PROVE DealUnderway(txn[x])'
    <2>1. PICK u : u = txn[x] /\ u = txn'[x]
      OBVIOUS
    <2>2. DealUnderway(u)'
      BY <2>1, DealUnderwayStays DEF DealTxnOK
    <2> QED
      BY <2>1, <2>2 DEF DealUnderway
  <1> QED
    BY <1>1 DEF DealTxnOK

\* What is no write at all.
LEMMA DealReading ==
  ASSUME DealIInv, NEW r \in DealCase.req, NEW t, DealUnderway(t)',
         txn' = [txn EXCEPT ![r] = t], UNCHANGED <<stages, deals, invoices, raced>>
  PROVE  DealIInv'
  <1>1. DealTxnOK'
    BY DealSlot DEF DealIInv
  <1>2. DealTypesOK' /\ DealStagesOK'
    BY DEF DealIInv, DealTypesOK, Deal!TypeOK, DealStagesOK
  <1>3. ~raced' => (\A d \in DOMAIN deals : DealGood(deals[d]))' /\ DealInvoiced'
    BY DEF DealIInv, DealGood, DealWeighs, DealInvoiced
  <1> QED
    BY <1>1, <1>2, <1>3 DEF DealIInv

\* The probability of a stage, or one that is sent.
LEMMA DealWeightedType ==
  ASSUME NEW v \in Nat, NEW odds \in 0..100
  PROVE  /\ Deal!Weighted(v, odds) \in Nat
         /\ 100 * Deal!Weighted(v, odds) <= v * odds + 50
         /\ v * odds <= 100 * Deal!Weighted(v, odds) + 50
  <1>1. PICK n \in Nat : n = v * odds
    OBVIOUS
  <1>2. /\ (n + 50) \div 100 \in Nat /\ 100 * ((n + 50) \div 100) <= n + 50
        /\ n <= 100 * ((n + 50) \div 100) + 50
    BY <1>1
  <1> QED
    BY <1>1, <1>2 DEF Deal!Weighted

-----------------------------------------------------------------------------
(* Pipelines and their stages.                                             *)

\* The stages of p are dropped, when no deal is in one, and others may follow.
LEMMA DealStagesChange ==
  ASSUME DealIInv, NEW p, NEW added \in Seq(Deal!Stage),
         \A s \in DOMAIN stages : stages[s].pipeline = p /\ stages[s].live => ~Deal!Used(s),
         stages' = Deal!Drop(p) \o added, Len(stages) + Len(added) <= DealCase.stages,
         UNCHANGED <<deals, invoices, txn, raced>>
  PROVE  DealIInv'
  <1> DEFINE dropped == Deal!Drop(p)
  <1>1. /\ Len(stages) \in Nat /\ DOMAIN stages = 1..Len(stages)
        /\ \A s \in DOMAIN stages : stages[s] \in Deal!Stage
        /\ Len(deals) \in Nat /\ DOMAIN deals = 1..Len(deals)
        /\ \A d \in DOMAIN deals : deals[d] \in Deal!Deal
    BY DealRows DEF DealIInv
  <1>2. dropped = [s \in 1..Len(stages) |->
                     [stages[s] EXCEPT !.live = @ /\ stages[s].pipeline # p]]
    BY <1>1 DEF Deal!Drop
  <1>3. \A s \in 1..Len(stages) : dropped[s] \in Deal!Stage
    <2> SUFFICES ASSUME NEW s \in 1..Len(stages) PROVE dropped[s] \in Deal!Stage
      OBVIOUS
    <2>1. PICK st \in Deal!Stage : st = stages[s]
      BY <1>1
    <2>2. PICK b \in BOOLEAN : b = (st.live /\ st.pipeline # p)
      BY Zenon
    <2>3. dropped[s] = [st EXCEPT !.live = b]
      BY <1>2, <2>1, <2>2, Zenon
    <2> QED
      BY <2>3 DEF Deal!Stage
  <1>4. dropped \in Seq(Deal!Stage) /\ Len(dropped) = Len(stages)
    <2>1. dropped \in [1..Len(stages) -> Deal!Stage]
      BY <1>2, <1>3, Zenon
    <2> HIDE DEF dropped
    <2> QED
      BY <1>1, <2>1, LenProperties
  <1>5. /\ stages' \in Seq(Deal!Stage) /\ Len(stages') = Len(stages) + Len(added)
        /\ \A s \in 1..Len(stages) : stages'[s] = dropped[s]
    <2>1. Len(added) \in Nat
      BY LenProperties
    <2>2. /\ dropped \o added \in Seq(Deal!Stage)
          /\ Len(dropped \o added) = Len(dropped) + Len(added)
          /\ \A i \in 1..(Len(dropped) + Len(added)) : (dropped \o added)[i] =
                IF i <= Len(dropped) THEN dropped[i] ELSE added[i - Len(dropped)]
      BY <1>4, ConcatProperties
    <2>3. \A i \in 1..Len(stages) : i \in 1..(Len(dropped) + Len(added)) /\ i <= Len(dropped)
      BY <1>1, <1>4, <2>1
    <2> QED
      BY <1>4, <2>2, <2>3
  <1>6. DOMAIN stages' = 1..Len(stages') /\ Len(added) \in Nat
    BY <1>5, LenProperties
  <1>7. DOMAIN stages \subseteq DOMAIN stages' /\ Len(stages') <= DealCase.stages
    BY <1>1, <1>5, <1>6
  <1>8. DealTypesOK'
    BY <1>5, <1>7 DEF DealIInv, DealTypesOK, Deal!TypeOK
  <1>9. ASSUME NEW d \in DOMAIN deals, deals[d].live PROVE stages'[deals[d].stage].live
    <2>1. PICK s \in DOMAIN stages : s = deals[d].stage
      BY DEF DealIInv, DealTypesOK
    <2>2. stages[s].live /\ Deal!Used(s)
      BY <1>9, <2>1 DEF DealIInv, DealStagesOK, Deal!Used, Deal!Range
    <2>3. stages[s].pipeline # p
      BY <2>2
    <2>4. dropped[s].live
      BY <1>1, <1>2, <2>2, <2>3 DEF Deal!Stage
    <2> QED
      BY <1>1, <1>5, <2>1, <2>4
  <1>10. DealStagesOK'
    BY <1>9 DEF DealStagesOK
  <1>11. DealTxnOK'
    BY DealSlotsStay DEF DealIInv
  <1>12. ~raced' => (\A d \in DOMAIN deals : DealGood(deals[d]))' /\ DealInvoiced'
    BY DEF DealIInv, DealGood, DealWeighs, DealInvoiced
  <1> QED
    BY <1>8, <1>10, <1>11, <1>12 DEF DealIInv

LEMMA DealPutStagesStep ==
  ASSUME Deal!CrmAssumption, DealIInv, NEW p \in DealCase.pipelines, NEW x \in DealCase.odds,
         Deal!PutStages(p, <<x>>)
  PROVE  DealIInv'
  <1> DEFINE added == [i \in DOMAIN <<x>> |-> [pipeline |-> p, odds |-> <<x>>[i], live |-> TRUE]]
  <1>1. PICK st \in Deal!Stage : st = [pipeline |-> p, odds |-> x, live |-> TRUE]
    BY DEF Deal!Stage
  <1>2. added \in Seq(Deal!Stage) /\ Len(added) = Len(<<x>>)
    <2>1. DOMAIN <<x>> = 1..1 /\ Len(<<x>>) = 1 /\ \A i \in 1..1 : <<x>>[i] = x
      OBVIOUS
    <2>2. added = [i \in 1..1 |-> st]
      BY <1>1, <2>1, Zenon
    <2>3. [i \in 1..1 |-> st] \in Seq(Deal!Stage) /\ Len([i \in 1..1 |-> st]) = 1
      OBVIOUS
    <2> QED
      BY <2>1, <2>2, <2>3, Zenon
  <1>3. PICK more \in Seq(Deal!Stage) : more = added
    BY <1>2
  <1>4. /\ \A s \in DOMAIN stages : stages[s].pipeline = p /\ stages[s].live => ~Deal!Used(s)
        /\ stages' = Deal!Drop(p) \o more /\ UNCHANGED <<deals, invoices, txn, raced>>
        /\ Len(stages) + Len(more) <= DealCase.stages
    BY <1>2, <1>3, Zenon DEF Deal!PutStages
  <1> QED
    BY <1>4, DealStagesChange, Zenon

LEMMA DealDeletePipelineStep ==
  ASSUME DealIInv, NEW p \in DealCase.pipelines, Deal!DeletePipeline(p)
  PROVE  DealIInv'
  <1>1. Len(stages) \in Nat /\ DOMAIN stages = 1..Len(stages) /\ Len(stages) <= DealCase.stages
        /\ \A s \in DOMAIN stages : stages[s] \in Deal!Stage
    BY DealRows DEF DealIInv, DealTypesOK
  <1>2. \A s \in DOMAIN stages :
          [stages[s] EXCEPT !.live = @ /\ stages[s].pipeline # p] \in Deal!Stage
    <2> SUFFICES ASSUME NEW s \in DOMAIN stages
                 PROVE  [stages[s] EXCEPT !.live = @ /\ stages[s].pipeline # p] \in Deal!Stage
      OBVIOUS
    <2>1. PICK st \in Deal!Stage : st = stages[s]
      BY <1>1
    <2>2. PICK b \in BOOLEAN : b = (st.live /\ st.pipeline # p)
      BY Zenon
    <2>3. [stages[s] EXCEPT !.live = @ /\ stages[s].pipeline # p] = [st EXCEPT !.live = b]
      BY <2>1, <2>2, Zenon
    <2> QED
      BY <2>3 DEF Deal!Stage
  <1>3. Deal!Drop(p) \in Seq(Deal!Stage)
    BY <1>1, <1>2 DEF Deal!Drop
  <1>4. PICK none \in Seq(Deal!Stage) : none = <<>>
    BY EmptySeq
  <1>5. Deal!Drop(p) = Deal!Drop(p) \o none
    BY <1>3, <1>4, ConcatEmptySeq
  <1>6. Len(stages) + Len(none) <= DealCase.stages
    BY <1>1, <1>4
  <1>7. /\ \A s \in DOMAIN stages : stages[s].pipeline = p /\ stages[s].live => ~Deal!Used(s)
        /\ stages' = Deal!Drop(p) \o none /\ UNCHANGED <<deals, invoices, txn, raced>>
    BY <1>5, Zenon DEF Deal!DeletePipeline
  <1> QED
    BY <1>6, <1>7, DealStagesChange, Zenon

-----------------------------------------------------------------------------
(* Deals in one statement.                                                 *)

LEMMA DealCreateStep ==
  ASSUME Deal!CrmAssumption, DealIInv, NEW p \in DealCase.pipelines, NEW s \in DOMAIN stages,
         NEW v \in DealCase.values, NEW odds \in Deal!AnyOdds, NEW contact \in BOOLEAN,
         Deal!CreateOpportunity(p, s, v, odds, contact)
  PROVE  DealIInv'
  <1>1. /\ Len(stages) \in Nat /\ DOMAIN stages = 1..Len(stages)
        /\ \A x \in DOMAIN stages : stages[x] \in Deal!Stage
        /\ Len(deals) \in Nat /\ DOMAIN deals = 1..Len(deals) /\ deals \in Seq(Deal!Deal)
        /\ Len(invoices) \in Nat /\ DOMAIN invoices = 1..Len(invoices)
        /\ \A i \in DOMAIN invoices : invoices[i] \in DealInvoice
    BY DealRows DEF DealIInv, DealTypesOK, Deal!TypeOK
  <1>2. v \in Nat /\ odds \in 0..100 /\ s \in 1..DealCase.stages
    <2>1. v \in Nat /\ odds \in 0..100 /\ DealCase.stages \in Nat
      BY DEF Deal!CrmAssumption, Deal!AnyOdds
    <2>2. s \in 1..Len(stages) /\ Len(stages) <= DealCase.stages
      BY <1>1 DEF DealIInv, DealTypesOK
    <2> QED
      BY <1>1, <2>1, <2>2
  <1>3. PICK w \in Nat : /\ w = Deal!Weighted(v, odds)
                         /\ 100 * w <= v * odds + 50 /\ v * odds <= 100 * w + 50
    BY <1>2, DealWeightedType
  <1>4. PICK d : d = [live |-> TRUE, pipeline |-> p, stage |-> s, value |-> v, odds |-> odds,
                      weighted |-> w, status |-> "open", contact |-> contact,
                      closed |-> "no", edited |-> FALSE]
    OBVIOUS
  <1>5. /\ deals' = Append(deals, d) /\ stages[s].live
        /\ UNCHANGED <<stages, invoices, txn, raced>>
    BY <1>3, <1>4, Zenon DEF Deal!CreateOpportunity
  <1>6. d \in Deal!Deal /\ d.stage = s /\ DealGood(d)
    BY <1>2, <1>3, <1>4 DEF Deal!Deal, DealGood, DealWeighs
  <1>7. /\ deals' \in Seq(Deal!Deal) /\ DOMAIN deals' = 1..(Len(deals) + 1)
        /\ \A i \in DOMAIN deals' : deals'[i] = IF i = Len(deals) + 1 THEN d ELSE deals[i]
        /\ DOMAIN deals \subseteq DOMAIN deals'
        /\ \A i \in DOMAIN deals' : i # Len(deals) + 1 => i \in DOMAIN deals
    BY <1>1, <1>5, <1>6, AppendProperties, LenProperties
  <1>8. DealTypesOK'
    BY <1>5, <1>6, <1>7 DEF DealIInv, DealTypesOK, Deal!TypeOK
  <1>9. DealStagesOK'
    BY <1>5, <1>6, <1>7 DEF DealIInv, DealStagesOK
  <1>10. DealTxnOK'
    BY <1>5, <1>7, DealSlotsStay DEF DealIInv
  <1>11. ASSUME ~raced' PROVE (\A i \in DOMAIN deals : DealGood(deals[i]))' /\ DealInvoiced'
    <2>1. \A i \in DOMAIN deals' : DealGood(deals'[i])
      BY <1>5, <1>6, <1>7, <1>11 DEF DealIInv
    <2>2. \A i \in DOMAIN invoices : deals'[invoices[i].deal] = deals[invoices[i].deal]
      <3>1. \A i \in DOMAIN invoices : invoices[i].deal \in DOMAIN deals
        BY DEF DealIInv, DealTypesOK
      <3> QED
        BY <1>1, <1>7, <3>1
    <2>3. DealInvoiced'
      BY <1>5, <1>11, <2>2 DEF DealIInv, DealInvoiced
    <2> QED
      BY <2>1, <2>3 DEF DealGood, DealWeighs
  <1> QED
    BY <1>8, <1>9, <1>10, <1>11 DEF DealIInv

\* Row d becomes row, in the stage it names.
LEMMA DealRowWritten ==
  ASSUME DealIInv, NEW d \in DOMAIN deals, NEW row \in Deal!Deal, row.stage \in DOMAIN stages,
         row.live => stages[row.stage].live, deals' = [deals EXCEPT ![d] = row], UNCHANGED stages
  PROVE  /\ deals' \in Seq(Deal!Deal) /\ DOMAIN deals' = DOMAIN deals
         /\ \A i \in DOMAIN deals : deals'[i] = IF i = d THEN row ELSE deals[i]
         /\ \A i \in DOMAIN deals : deals'[i].stage \in DOMAIN stages
         /\ DealStagesOK'
  <1>1. deals \in Seq(Deal!Deal) /\ DOMAIN deals = 1..Len(deals)
    BY DealRows DEF DealIInv, DealTypesOK, Deal!TypeOK
  <1>2. /\ deals' \in Seq(Deal!Deal) /\ Len(deals') = Len(deals)
        /\ \A i \in 1..Len(deals) : deals'[i] = IF i = d THEN row ELSE deals[i]
    BY <1>1, ExceptSeq
  <1>3. DOMAIN deals' = DOMAIN deals
    BY <1>1, <1>2, LenProperties
  <1> QED
    BY <1>1, <1>2, <1>3 DEF DealIInv, DealTypesOK, DealStagesOK

LEMMA DealDeleteStep ==
  ASSUME DealIInv, NEW d \in DOMAIN deals, Deal!DeleteOpportunity(d)
  PROVE  DealIInv'
  <1>1. PICK old \in Deal!Deal : old = deals[d]
    BY DealRows DEF DealIInv
  <1>2. PICK row : row = [old EXCEPT !.live = FALSE]
    OBVIOUS
  <1>3. /\ row \in Deal!Deal /\ ~row.live /\ row.stage = old.stage /\ row.closed = old.closed
        /\ DealGood(old) => DealGood(row)
    BY <1>1, <1>2 DEF Deal!Deal, DealGood, DealWeighs
  <1>4. deals' = [deals EXCEPT ![d] = row] /\ UNCHANGED <<stages, invoices, txn, raced>>
    BY <1>1, <1>2 DEF Deal!DeleteOpportunity
  <1>5. row.stage \in DOMAIN stages
    BY <1>1, <1>3 DEF DealIInv, DealTypesOK
  <1>6. /\ deals' \in Seq(Deal!Deal) /\ DOMAIN deals' = DOMAIN deals
        /\ \A i \in DOMAIN deals : deals'[i] = IF i = d THEN row ELSE deals[i]
        /\ \A i \in DOMAIN deals : deals'[i].stage \in DOMAIN stages
        /\ DealStagesOK'
    BY <1>3, <1>4, <1>5, DealRowWritten
  <1>7. DealTypesOK'
    BY <1>4, <1>6 DEF DealIInv, DealTypesOK, Deal!TypeOK
  <1>8. DealTxnOK'
    BY <1>4, <1>6, DealSlotsStay DEF DealIInv
  <1>9. ASSUME ~raced' PROVE (\A i \in DOMAIN deals : DealGood(deals[i]))' /\ DealInvoiced'
    <2>1. \A i \in DOMAIN deals' : DealGood(deals'[i])
      BY <1>1, <1>3, <1>4, <1>6, <1>9 DEF DealIInv
    <2>2. \A i \in DOMAIN invoices : deals'[invoices[i].deal].closed = deals[invoices[i].deal].closed
      BY <1>1, <1>3, <1>6 DEF DealIInv, DealTypesOK
    <2>3. DealInvoiced'
      BY <1>4, <1>9, <2>2 DEF DealIInv, DealInvoiced
    <2> QED
      BY <2>1, <2>3 DEF DealGood, DealWeighs
  <1> QED
    BY <1>6, <1>7, <1>8, <1>9 DEF DealIInv

-----------------------------------------------------------------------------
(* Deals read first and written later.                                     *)

LEMMA DealReadStep ==
  ASSUME DealIInv, NEW r \in DealCase.req, NEW op \in {"update", "move", "win", "lose"},
         NEW d \in DOMAIN deals, Deal!Read(r, op, d)
  PROVE  DealIInv'
  <1>1. PICK row \in Deal!Deal : row = deals[d]
    BY DealRows DEF DealIInv
  <1>2. PICK t : t = [op |-> op, id |-> d, read |-> row, number |-> 0]
    OBVIOUS
  <1>3. /\ row.live /\ (op \in {"win", "lose"} => row.status = "open")
        /\ txn' = [txn EXCEPT ![r] = t] /\ UNCHANGED <<stages, deals, invoices, raced>>
    BY <1>1, <1>2, Zenon DEF Deal!Read
  <1>4. t.op = op /\ t.id = d /\ t.read = row /\ t.number = 0
    BY <1>2
  <1>5. DealUnderway(t)'
    BY <1>2, <1>3, <1>4 DEF DealUnderway
  <1> QED
    BY <1>3, <1>5, DealReading

LEMMA DealRollbackStep ==
  ASSUME DealIInv, NEW r \in DealCase.req, Deal!Rollback(r)
  PROVE  DealIInv'
  <1>1. PICK t : t = Deal!Idle
    OBVIOUS
  <1>2. DealUnderway(t)' /\ txn' = [txn EXCEPT ![r] = t] /\ UNCHANGED <<stages, deals, invoices, raced>>
    BY <1>1 DEF DealUnderway, Deal!Rollback
  <1> QED
    BY <1>2, DealReading

LEMMA DealLastNumber ==
  ASSUME DealTypesOK
  PROVE  Deal!LastNumber \in Nat
  <1>1. CASE invoices = <<>>
    BY <1>1 DEF Deal!LastNumber
  <1>2. CASE invoices # <<>>
    <2>1. invoices \in Seq(DealInvoice) /\ Len(invoices) \in Nat /\ DOMAIN invoices = 1..Len(invoices)
      BY DealRows DEF DealTypesOK
    <2>2. Len(invoices) \in 1..Len(invoices)
      BY <1>2, <2>1, EmptySeq
    <2>3. PICK v \in DealInvoice : v = invoices[Len(invoices)]
      BY <2>1, <2>2, ElementOfSeq
    <2>4. v.number \in Nat
      BY DEF DealInvoice
    <2> QED
      BY <1>2, <2>3, <2>4, Zenon DEF Deal!LastNumber, Deal!Last
  <1> QED
    BY <1>1, <1>2

\* What a request that is not idle has read.
LEMMA DealBusy ==
  ASSUME DealIInv, NEW r \in DealCase.req, NEW op, op # "none", txn[r].op = op
  PROVE  LET t == txn[r] IN
         /\ t = [op |-> op, id |-> t.id, read |-> t.read, number |-> t.number]
         /\ t.id \in DOMAIN deals /\ t.read \in Deal!Deal /\ t.read.live /\ t.number \in Nat
         /\ op \in {"win", "lose"} => t.read.status = "open"
  BY DEF DealIInv, DealTxnOK, DealUnderway, Deal!Idle

LEMMA DealReadNumberStep ==
  ASSUME DealIInv, NEW r \in DealCase.req, Deal!ReadNumber(r)
  PROVE  DealIInv'
  <1>1. PICK u : u = txn[r]
    OBVIOUS
  <1>2. PICK n \in Nat : n = Deal!LastNumber + 1
    BY DealLastNumber DEF DealIInv
  <1>3. PICK t : t = [u EXCEPT !.number = n]
    OBVIOUS
  <1>4. /\ u.op = "win" /\ txn' = [txn EXCEPT ![r] = t]
        /\ UNCHANGED <<stages, deals, invoices, raced>>
    BY <1>1, <1>2, <1>3, Zenon DEF Deal!ReadNumber
  <1>5. /\ u = [op |-> "win", id |-> u.id, read |-> u.read, number |-> u.number]
        /\ u.id \in DOMAIN deals /\ u.read \in Deal!Deal /\ u.read.live /\ u.read.status = "open"
    BY <1>1, <1>4, DealBusy
  <1>6. t = [op |-> "win", id |-> u.id, read |-> u.read, number |-> n]
    BY <1>3, <1>5
  <1>7. t.op = "win" /\ t.id = u.id /\ t.read = u.read /\ t.number = n
    BY <1>6
  <1>8. DealUnderway(t)'
    BY <1>4, <1>5, <1>6, <1>7 DEF DealUnderway
  <1> QED
    BY <1>4, <1>8, DealReading

\* What a write does but for invoices: the row it found becomes row, unless it
\* was deleted in between.
LEMMA DealWriting ==
  ASSUME DealIInv, NEW r \in DealCase.req, NEW t, t = txn[r], t.id \in DOMAIN deals,
         t.read.live, NEW old, old = deals[t.id], NEW row \in Deal!Deal, Deal!Write(r, row),
         row.stage \in DOMAIN stages, row.live = old.live,
         old.live => stages[row.stage].live, ~raced /\ old = t.read => DealGood(row)
  PROVE  /\ DOMAIN deals' = DOMAIN deals /\ deals' \in Seq(Deal!Deal)
         /\ \A i \in DOMAIN deals : i # t.id => deals'[i] = deals[i]
         /\ \A i \in DOMAIN deals : deals'[i].stage \in DOMAIN stages
         /\ raced' \in BOOLEAN
         /\ ~raced' => ~raced /\ old = t.read /\ deals'[t.id] = row
         /\ ~raced' => \A i \in DOMAIN deals : DealGood(deals'[i])
         /\ DealTxnOK' /\ DealStagesOK' /\ stages' = stages
  <1>1. /\ raced' = (raced \/ old # t.read) /\ stages' = stages
        /\ txn' = [txn EXCEPT ![r] = Deal!Idle]
        /\ deals' = IF old.live THEN [deals EXCEPT ![t.id] = row] ELSE deals
    BY Zenon DEF Deal!Write
  <1>2. raced \in BOOLEAN /\ deals \in Seq(Deal!Deal)
    BY DEF DealIInv, DealTypesOK, Deal!TypeOK
  <1>3. /\ deals' \in Seq(Deal!Deal) /\ DOMAIN deals' = DOMAIN deals
        /\ \A i \in DOMAIN deals : i # t.id => deals'[i] = deals[i]
        /\ old.live => deals'[t.id] = row
        /\ \A i \in DOMAIN deals : deals'[i].stage \in DOMAIN stages
        /\ DealStagesOK'
    <2>1. CASE old.live
      <3>1. deals' = [deals EXCEPT ![t.id] = row] /\ UNCHANGED stages
        BY <1>1, <2>1
      <3>2. row.live => stages[row.stage].live
        BY <2>1
      <3>3. /\ deals' \in Seq(Deal!Deal) /\ DOMAIN deals' = DOMAIN deals
            /\ \A i \in DOMAIN deals : deals'[i] = IF i = t.id THEN row ELSE deals[i]
            /\ \A i \in DOMAIN deals : deals'[i].stage \in DOMAIN stages
            /\ DealStagesOK'
        BY <3>1, <3>2, DealRowWritten
      <3> QED
        BY <3>3
    <2>2. CASE ~old.live
      <3>1. deals' = deals
        BY <1>1, <2>2
      <3>2. DealStagesOK'
        BY <1>1, <3>1 DEF DealIInv, DealStagesOK
      <3> QED
        BY <1>2, <2>2, <3>1, <3>2 DEF DealIInv, DealTypesOK
    <2> QED
      BY <2>1, <2>2
  <1>4. DealTxnOK'
    <2>1. DealUnderway(Deal!Idle)'
      BY DEF DealUnderway
    <2> QED
      BY <1>1, <1>3, <2>1, DealSlot DEF DealIInv
  <1>5. ASSUME ~raced' PROVE ~raced /\ old = t.read /\ deals'[t.id] = row
    BY <1>1, <1>2, <1>3, <1>5
  <1>6. ASSUME ~raced' PROVE \A i \in DOMAIN deals : DealGood(deals'[i])
    <2>1. DealGood(row)
      BY <1>5, <1>6
    <2>2. \A i \in DOMAIN deals : DealGood(deals[i])
      BY <1>5, <1>6 DEF DealIInv
    <2>3. \A i \in DOMAIN deals : deals'[i] = row \/ deals'[i] = deals[i]
      BY <1>3, <1>5, <1>6
    <2> QED
      BY <2>1, <2>2, <2>3
  <1> QED
    BY <1>1, <1>2, <1>3, <1>4, <1>5, <1>6

\* A write without an invoice, of a deal that stays won.
LEMMA DealWritten ==
  ASSUME DealIInv, NEW r \in DealCase.req, NEW t, t = txn[r], t.id \in DOMAIN deals,
         t.read.live, NEW old, old = deals[t.id], NEW row \in Deal!Deal, Deal!Write(r, row),
         row.stage \in DOMAIN stages, row.live = old.live,
         old.live => stages[row.stage].live, ~raced /\ old = t.read => DealGood(row),
         ~raced /\ old = t.read /\ old.closed = "won" => row.closed = "won", UNCHANGED invoices
  PROVE  DealIInv'
  <1>1. /\ DOMAIN deals' = DOMAIN deals /\ deals' \in Seq(Deal!Deal)
        /\ \A i \in DOMAIN deals : i # t.id => deals'[i] = deals[i]
        /\ \A i \in DOMAIN deals : deals'[i].stage \in DOMAIN stages
        /\ raced' \in BOOLEAN
        /\ ~raced' => ~raced /\ old = t.read /\ deals'[t.id] = row
        /\ ~raced' => \A i \in DOMAIN deals : DealGood(deals'[i])
        /\ DealTxnOK' /\ DealStagesOK' /\ stages' = stages
    BY DealWriting
  <1>2. DealTypesOK'
    BY <1>1 DEF DealIInv, DealTypesOK, Deal!TypeOK
  <1>3. ASSUME ~raced' PROVE DealInvoiced'
    <2>1. \A i \in DOMAIN invoices : deals'[invoices[i].deal].closed = "won"
      <3>1. \A i \in DOMAIN invoices : /\ invoices[i].deal \in DOMAIN deals
                                       /\ deals[invoices[i].deal].closed = "won"
        BY <1>1, <1>3 DEF DealIInv, DealTypesOK, DealInvoiced
      <3> QED
        BY <1>1, <1>3, <3>1
    <2> QED
      BY <1>1, <1>3, <2>1 DEF DealIInv, DealInvoiced
  <1>4. ~raced' => (\A d \in DOMAIN deals : DealGood(deals[d]))'
    BY <1>1 DEF DealGood, DealWeighs
  <1> QED
    BY <1>1, <1>2, <1>3, <1>4 DEF DealIInv

LEMMA DealUpdateStep ==
  ASSUME Deal!CrmAssumption, DealIInv, NEW r \in DealCase.req, NEW v, NEW odds,
         Deal!UpdateOpportunity(r, v, odds)
  PROVE  DealIInv'
  <1>1. PICK t : t = txn[r]
    OBVIOUS
  <1>2. /\ t.id \in DOMAIN deals /\ t.read \in Deal!Deal /\ t.read.live
    BY <1>1, DealBusy DEF Deal!UpdateOpportunity
  <1>3. PICK old \in Deal!Deal : old = deals[t.id]
    BY <1>2, DealRows DEF DealIInv
  <1>4. PICK read \in Deal!Deal : read = t.read
    BY <1>2
  <1>5. /\ v \in DealCase.values /\ v \in Nat /\ odds \in 0..100
        /\ old.value \in DealCase.values /\ old.odds \in 0..100
    BY <1>1, <1>3, <1>4, Zenon DEF Deal!UpdateOpportunity, Deal!CrmAssumption, Deal!Deal
  <1>6. PICK w \in Nat : /\ w = Deal!Weighted(v, odds)
                         /\ 100 * w <= v * odds + 50 /\ v * odds <= 100 * w + 50
    BY <1>5, DealWeightedType
  <1>7. PICK value : value = IF v = read.value THEN old.value ELSE v
    OBVIOUS
  <1>8. PICK share : share = IF odds = read.odds THEN old.odds ELSE odds
    OBVIOUS
  <1>9. PICK row : row = [old EXCEPT !.value = value, !.odds = share, !.weighted = w, !.edited = TRUE]
    OBVIOUS
  <1>10. Deal!Write(r, row) /\ UNCHANGED invoices
    BY <1>1, <1>3, <1>4, <1>6, <1>7, <1>8, <1>9, Zenon DEF Deal!UpdateOpportunity, Deal!Row
  <1>11. /\ row \in Deal!Deal /\ row.stage = old.stage /\ row.live = old.live
         /\ row.closed = old.closed /\ row.status = old.status /\ row.edited = TRUE
         /\ row.value = value /\ row.odds = share /\ row.weighted = w
    BY <1>5, <1>7, <1>8, <1>9 DEF Deal!Deal
  <1>12. row.stage \in DOMAIN stages /\ (old.live => stages[row.stage].live)
    BY <1>2, <1>3, <1>11 DEF DealIInv, DealTypesOK, DealStagesOK
  <1>13. ASSUME ~raced, old = read PROVE DealGood(row)
    <2>1. DealGood(old)
      BY <1>2, <1>3, <1>13 DEF DealIInv
    <2>2. value = v /\ share = odds
      BY <1>7, <1>8, <1>13
    <2> QED
      BY <1>6, <1>11, <2>1, <2>2 DEF DealGood, DealWeighs
  <1> QED
    BY <1>1, <1>2, <1>3, <1>4, <1>10, <1>11, <1>12, <1>13, DealWritten

LEMMA DealMoveStep ==
  ASSUME Deal!CrmAssumption, DealIInv, NEW r \in DealCase.req, NEW s \in DOMAIN stages,
         Deal!MoveOpportunity(r, s)
  PROVE  DealIInv'
  <1>1. PICK t : t = txn[r]
    OBVIOUS
  <1>2. /\ t.id \in DOMAIN deals /\ t.read \in Deal!Deal /\ t.read.live
    BY <1>1, DealBusy DEF Deal!MoveOpportunity
  <1>3. PICK old \in Deal!Deal : old = deals[t.id]
    BY <1>2, DealRows DEF DealIInv
  <1>4. PICK read \in Deal!Deal : read = t.read
    BY <1>2
  <1>5. PICK odds : odds = stages[s].odds
    OBVIOUS
  <1>6. odds \in 0..100 /\ read.value \in Nat /\ s \in 1..DealCase.stages
    <2>1. stages[s] \in Deal!Stage /\ s \in 1..Len(stages)
      BY DealRows DEF DealIInv
    <2>2. Len(stages) <= DealCase.stages /\ DealCase.stages \in Nat /\ Len(stages) \in Nat
      BY DealRows DEF DealIInv, DealTypesOK, Deal!CrmAssumption
    <2>3. odds \in DealCase.odds /\ read.value \in DealCase.values
      BY <1>5, <2>1 DEF Deal!Stage, Deal!Deal
    <2>4. odds \in 0..100 /\ read.value \in Nat
      BY <2>3 DEF Deal!CrmAssumption
    <2> QED
      BY <2>1, <2>2, <2>4
  <1>7. PICK w \in Nat : /\ w = Deal!Weighted(read.value, odds)
                         /\ 100 * w <= read.value * odds + 50 /\ read.value * odds <= 100 * w + 50
    BY <1>6, DealWeightedType
  <1>8. PICK row : row = [old EXCEPT !.stage = s, !.odds = odds, !.edited = TRUE, !.weighted = w]
    OBVIOUS
  <1>9. Deal!Write(r, row) /\ UNCHANGED invoices /\ stages[s].live
    BY <1>1, <1>3, <1>4, <1>5, <1>7, <1>8, Zenon DEF Deal!MoveOpportunity, Deal!Row
  <1>10. /\ row \in Deal!Deal /\ row.stage = s /\ row.live = old.live
         /\ row.closed = old.closed /\ row.status = old.status /\ row.edited = TRUE
         /\ row.value = old.value /\ row.odds = odds /\ row.weighted = w
    BY <1>6, <1>8 DEF Deal!Deal
  <1>11. ASSUME ~raced, old = read PROVE DealGood(row)
    <2>1. DealGood(old)
      BY <1>2, <1>3, <1>11 DEF DealIInv
    <2> QED
      BY <1>7, <1>10, <1>11, <2>1 DEF DealGood, DealWeighs
  <1> QED
    BY <1>1, <1>2, <1>3, <1>4, <1>9, <1>10, <1>11, DealWritten

LEMMA DealLoseStep ==
  ASSUME Deal!CrmAssumption, DealIInv, NEW r \in DealCase.req, Deal!LoseOpportunity(r)
  PROVE  DealIInv'
  <1>1. PICK t : t = txn[r]
    OBVIOUS
  <1>2. t.id \in DOMAIN deals /\ t.read \in Deal!Deal /\ t.read.live /\ t.read.status = "open"
    BY <1>1, DealBusy DEF Deal!LoseOpportunity
  <1>3. PICK old \in Deal!Deal : old = deals[t.id]
    BY <1>2, DealRows DEF DealIInv
  <1>4. PICK row : row = [old EXCEPT !.status = "lost", !.odds = 0, !.weighted = 0,
                                     !.closed = "lost", !.edited = FALSE]
    OBVIOUS
  <1>5. Deal!Write(r, row) /\ UNCHANGED invoices
    BY <1>1, <1>3, <1>4, Zenon DEF Deal!LoseOpportunity, Deal!Row
  <1>6. /\ row \in Deal!Deal /\ row.stage = old.stage /\ row.live = old.live
        /\ row.closed = "lost" /\ row.status = "lost" /\ row.edited = FALSE
        /\ row.value \in Nat /\ row.odds = 0 /\ row.weighted = 0
    <2>1. row = [live |-> old.live, pipeline |-> old.pipeline, stage |-> old.stage,
                 value |-> old.value, odds |-> 0, weighted |-> 0, status |-> "lost",
                 contact |-> old.contact, closed |-> "lost", edited |-> FALSE]
      BY <1>4 DEF Deal!Deal
    <2>2. row \in Deal!Deal
      BY <2>1 DEF Deal!Deal
    <2>3. old.value \in Nat
      BY DEF Deal!CrmAssumption, Deal!Deal
    <2> QED
      BY <2>1, <2>2, <2>3
  <1>7. row.stage \in DOMAIN stages /\ (old.live => stages[row.stage].live)
    BY <1>2, <1>3, <1>6 DEF DealIInv, DealTypesOK, DealStagesOK
  <1>8. ASSUME ~raced, old = t.read PROVE DealGood(row) /\ old.closed = "no"
    <2>1. DealGood(old)
      BY <1>2, <1>3, <1>8 DEF DealIInv
    <2>2. row.value * row.odds = 0
      BY <1>6
    <2> QED
      BY <1>2, <1>6, <1>8, <2>1, <2>2 DEF DealGood, DealWeighs
  <1> QED
    BY <1>1, <1>2, <1>3, <1>5, <1>6, <1>7, <1>8, DealWritten

LEMMA DealWinStep ==
  ASSUME Deal!CrmAssumption, DealIInv, NEW r \in DealCase.req, Deal!WinOpportunity(r)
  PROVE  DealIInv'
  <1>1. PICK t : t = txn[r]
    OBVIOUS
  <1>2. /\ t.id \in DOMAIN deals /\ t.read \in Deal!Deal /\ t.read.live /\ t.read.status = "open"
        /\ t.number \in Nat
    BY <1>1, DealBusy DEF Deal!WinOpportunity
  <1>3. PICK old \in Deal!Deal : old = deals[t.id]
    BY <1>2, DealRows DEF DealIInv
  <1>4. PICK read \in Deal!Deal : read = t.read
    BY <1>2
  <1>5. PICK row : row = [old EXCEPT !.status = "won", !.odds = 100, !.weighted = read.value,
                                     !.closed = "won", !.edited = FALSE]
    OBVIOUS
  <1>6. Deal!Write(r, row)
    BY <1>1, <1>3, <1>4, <1>5, Zenon DEF Deal!WinOpportunity, Deal!Won, Deal!Row
  <1>7. read.value \in Nat /\ old.value \in Nat
    BY DEF Deal!CrmAssumption, Deal!Deal
  <1>8. /\ row \in Deal!Deal /\ row.stage = old.stage /\ row.live = old.live
        /\ row.closed = "won" /\ row.status = "won" /\ row.edited = FALSE
        /\ row.value = old.value /\ row.odds = 100 /\ row.weighted = read.value
    <2>1. row = [live |-> old.live, pipeline |-> old.pipeline, stage |-> old.stage,
                 value |-> old.value, odds |-> 100, weighted |-> read.value, status |-> "won",
                 contact |-> old.contact, closed |-> "won", edited |-> FALSE]
      BY <1>5 DEF Deal!Deal
    <2>2. row \in Deal!Deal
      BY <1>7, <2>1 DEF Deal!Deal
    <2> QED
      BY <2>1, <2>2
  <1>9. row.stage \in DOMAIN stages /\ (old.live => stages[row.stage].live)
    BY <1>2, <1>3, <1>8 DEF DealIInv, DealTypesOK, DealStagesOK
  <1>10. ASSUME ~raced, old = t.read PROVE DealGood(row) /\ old.closed = "no"
    <2>1. DealGood(old)
      BY <1>2, <1>3, <1>10 DEF DealIInv
    <2>2. row.weighted = row.value
      BY <1>4, <1>8, <1>10
    <2> QED
      BY <1>2, <1>7, <1>8, <1>10, <2>1, <2>2 DEF DealGood, DealWeighs
  <1>11. CASE UNCHANGED invoices
    BY <1>1, <1>2, <1>3, <1>6, <1>8, <1>9, <1>10, <1>11, DealWritten
  <1>12. CASE ~UNCHANGED invoices
    <2>1. PICK v : v = [number |-> t.number, total |-> read.value, deal |-> t.id]
      OBVIOUS
    <2>2. invoices' = Append(invoices, v)
      BY <1>1, <1>4, <1>12, <2>1, Zenon DEF Deal!WinOpportunity
    <2>3. /\ Len(invoices) \in Nat /\ DOMAIN invoices = 1..Len(invoices)
          /\ invoices \in Seq(DealInvoice) /\ DOMAIN deals = 1..Len(deals) /\ Len(deals) \in Nat
      BY DealRows DEF DealIInv, DealTypesOK
    <2>4. v \in DealInvoice /\ v.deal = t.id
      BY <1>2, <1>7, <2>1, <2>3 DEF DealInvoice
    <2>5. /\ invoices' \in Seq(DealInvoice) /\ DOMAIN invoices' = 1..(Len(invoices) + 1)
          /\ \A i \in DOMAIN invoices' : invoices'[i] = IF i = Len(invoices) + 1 THEN v ELSE invoices[i]
          /\ \A i \in DOMAIN invoices' : i # Len(invoices) + 1 => i \in DOMAIN invoices
      BY <2>2, <2>3, <2>4, AppendProperties, LenProperties
    <2>6. /\ DOMAIN deals' = DOMAIN deals /\ deals' \in Seq(Deal!Deal)
          /\ \A i \in DOMAIN deals : i # t.id => deals'[i] = deals[i]
          /\ \A i \in DOMAIN deals : deals'[i].stage \in DOMAIN stages
          /\ raced' \in BOOLEAN
          /\ ~raced' => ~raced /\ old = t.read /\ deals'[t.id] = row
          /\ ~raced' => \A i \in DOMAIN deals : DealGood(deals'[i])
          /\ DealTxnOK' /\ DealStagesOK' /\ stages' = stages
      BY <1>1, <1>2, <1>3, <1>6, <1>8, <1>9, <1>10, DealWriting
    <2>7. \A i \in DOMAIN invoices' : invoices'[i].deal \in DOMAIN deals'
      BY <1>2, <2>4, <2>5, <2>6 DEF DealIInv, DealTypesOK
    <2>8. DealTypesOK'
      BY <2>5, <2>6, <2>7 DEF DealIInv, DealTypesOK, Deal!TypeOK
    <2>9. ASSUME ~raced' PROVE DealInvoiced'
      <3>1. /\ \A i \in DOMAIN invoices : /\ invoices[i].deal \in DOMAIN deals
                                          /\ deals[invoices[i].deal].closed = "won"
            /\ \A i, j \in DOMAIN invoices : invoices[i].deal = invoices[j].deal => i = j
        BY <2>6, <2>9 DEF DealIInv, DealTypesOK, DealInvoiced
      <3>2. old.closed = "no" /\ deals[t.id].closed = "no" /\ deals'[t.id].closed = "won"
        BY <1>3, <1>8, <1>10, <2>6, <2>9
      <3>3. \A i \in DOMAIN invoices : invoices[i].deal # t.id
        BY <3>1, <3>2
      <3>4. \A i \in DOMAIN invoices' : deals'[invoices'[i].deal].closed = "won"
        BY <2>4, <2>5, <2>6, <3>1, <3>2, <3>3
      <3>5. \A i, j \in DOMAIN invoices' : invoices'[i].deal = invoices'[j].deal => i = j
        BY <2>4, <2>5, <3>1, <3>3
      <3> QED
        BY <3>4, <3>5 DEF DealInvoiced
    <2>10. ~raced' => (\A d \in DOMAIN deals : DealGood(deals[d]))'
      BY <2>6 DEF DealGood, DealWeighs
    <2> QED
      BY <2>6, <2>8, <2>9, <2>10 DEF DealIInv
  <1> QED
    BY <1>11, <1>12

-----------------------------------------------------------------------------
(* Every step, and what it is for.                                         *)

LEMMA DealInitIInv ==
  ASSUME Deal!CrmAssumption, Deal!Init
  PROVE  DealIInv
  <1>1. DealTypesOK
    <2>1. DealCase.stages \in Nat
      BY DEF Deal!CrmAssumption
    <2>2. stages = <<>> /\ deals = <<>> /\ invoices = <<>> /\ raced = FALSE
      BY DEF Deal!Init
    <2>3. Deal!TypeOK
      BY <2>2, EmptySeq DEF Deal!TypeOK
    <2>4. invoices \in Seq(DealInvoice) /\ DOMAIN invoices = {} /\ DOMAIN deals = {}
      BY <2>2, EmptySeq
    <2>5. Len(stages) <= DealCase.stages
      <3>1. PICK n \in Nat : n = DealCase.stages
        BY <2>1, Zenon
      <3>2. Len(stages) = 0
        BY <2>2
      <3>3. 0 <= n
        OBVIOUS
      <3> QED
        BY <3>1, <3>2, <3>3, Zenon
    <2> QED
      BY <2>3, <2>4, <2>5 DEF DealTypesOK
  <1>2. DealTxnOK /\ DealStagesOK /\ DealInvoiced /\ \A d \in DOMAIN deals : DealGood(deals[d])
    BY DEF Deal!Init, DealTxnOK, DealUnderway, DealStagesOK, DealInvoiced
  <1> QED
    BY <1>1, <1>2 DEF DealIInv

LEMMA DealNextStep ==
  ASSUME Deal!CrmAssumption, DealIInv, Deal!Next \/ UNCHANGED Deal!vars
  PROVE  DealIInv'
  <1>1. ASSUME NEW p \in DealCase.pipelines,
               \/ Deal!DeletePipeline(p)
               \/ \E odds \in {<<x>> : x \in DealCase.odds} : Deal!PutStages(p, odds)
        PROVE  DealIInv'
    BY <1>1, DealDeletePipelineStep, DealPutStagesStep
  <1>2. ASSUME NEW p \in DealCase.pipelines, NEW s \in DOMAIN stages, NEW v \in DealCase.values,
               NEW odds \in Deal!AnyOdds, NEW c \in BOOLEAN,
               Deal!CreateOpportunity(p, s, v, odds, c)
        PROVE  DealIInv'
    BY <1>2, DealCreateStep
  <1>3. ASSUME NEW d \in DOMAIN deals, Deal!DeleteOpportunity(d) PROVE DealIInv'
    BY <1>3, DealDeleteStep
  <1>4. ASSUME NEW r \in DealCase.req, NEW d \in DOMAIN deals,
               NEW op \in {"update", "move", "win", "lose"}, Deal!Read(r, op, d)
        PROVE  DealIInv'
    BY <1>4, DealReadStep
  <1>5. ASSUME NEW r \in DealCase.req, NEW v \in DealCase.values, NEW odds \in Deal!AnyOdds,
               Deal!UpdateOpportunity(r, v, odds)
        PROVE  DealIInv'
    BY <1>5, DealUpdateStep
  <1>6. ASSUME NEW r \in DealCase.req, NEW s \in DOMAIN stages, Deal!MoveOpportunity(r, s)
        PROVE  DealIInv'
    BY <1>6, DealMoveStep
  <1>7. ASSUME NEW r \in DealCase.req,
               \/ Deal!LoseOpportunity(r) \/ Deal!ReadNumber(r) \/ Deal!WinOpportunity(r)
               \/ Deal!Rollback(r)
        PROVE  DealIInv'
    BY <1>7, DealLoseStep, DealReadNumberStep, DealWinStep, DealRollbackStep
  <1>8. ASSUME UNCHANGED Deal!vars PROVE DealIInv'
    <2>1. UNCHANGED <<stages, deals, invoices, txn, raced>>
      BY <1>8 DEF Deal!vars
    <2>2. DealTxnOK'
      BY <2>1, DealSlotsStay DEF DealIInv
    <2> QED
      BY <2>1, <2>2 DEF DealIInv, DealTypesOK, Deal!TypeOK, DealStagesOK, DealGood, DealWeighs,
        DealInvoiced
  <1> QED
    BY <1>1, <1>2, <1>3, <1>4, <1>5, <1>6, <1>7, <1>8 DEF Deal!Next

LEMMA DealSum ==
  ASSUME NEW h, NEW S
  PROVE  Deal!SumFunctionOnSet(h, S) = SumOver(h, S)
  <1>1. Deal!SumFunctionOnSet(h, S) = SumFunctionOnSet(h, S)
    BY Zenon DEF Deal!SumFunctionOnSet, Deal!FoldFunctionOnSet, Deal!MapThenFoldSet,
                 SumFunctionOnSet, FoldFunctionOnSet, MapThenFoldSet
  <1> QED
    BY <1>1, SumFunctionIs

LEMMA DealCardinality ==
  ASSUME NEW S
  PROVE  Deal!Cardinality(S) = Cardinality(S)
  BY Zenon DEF Deal!Cardinality, Cardinality

\* The forecast is the sum of the deals' values, each taken with its own
\* probability, to half a cent a deal.
LEMMA DealForecast ==
  ASSUME Deal!CrmAssumption, DealIInv, ~raced
  PROVE  LET exact == Deal!SumFunctionOnSet([d \in Deal!Open |-> deals[d].value * deals[d].odds],
                                            Deal!Open)
         IN  exact - 50 * Deal!Cardinality(Deal!Open) <= 100 * Deal!Expected
             /\ 100 * Deal!Expected <= exact + 50 * Deal!Cardinality(Deal!Open)
  <1> DEFINE h == [d \in Deal!Open |-> deals[d].value * deals[d].odds]
             g == [d \in Deal!Open |-> deals[d].weighted]
  <1>1. /\ Len(deals) \in Nat /\ DOMAIN deals = 1..Len(deals)
        /\ \A d \in DOMAIN deals : deals[d] \in Deal!Deal
    BY DealRows DEF DealIInv
  <1>2. IsFiniteSet(Deal!Open) /\ Deal!Open \subseteq DOMAIN deals
    <2>1. Deal!Open \subseteq 1..Len(deals)
      BY <1>1 DEF Deal!Open
    <2>2. Deal!Open \subseteq DOMAIN deals
      BY DEF Deal!Open
    <2>3. PICK n \in Nat : n = Len(deals)
      BY <1>1, Zenon
    <2>4. IsFiniteSet(1..n)
      <3>1. 1 \in Int /\ n \in Int
        OBVIOUS
      <3> QED
        BY <3>1, FS_Interval
    <2> QED
      BY <2>1, <2>2, <2>3, <2>4, FS_Subset
  <1>3. \A d \in Deal!Open : /\ h[d] \in Nat /\ g[d] \in Nat
                             /\ 100 * g[d] <= 1 * h[d] + 50 /\ 1 * h[d] <= 100 * g[d] + 50
    <2> SUFFICES ASSUME NEW d \in Deal!Open
                 PROVE  /\ h[d] \in Nat /\ g[d] \in Nat
                        /\ 100 * g[d] <= 1 * h[d] + 50 /\ 1 * h[d] <= 100 * g[d] + 50
      OBVIOUS
    <2>1. PICK row \in Deal!Deal : row = deals[d]
      BY <1>1, <1>2
    <2>2. DealGood(row)
      BY <1>2, <2>1 DEF DealIInv
    <2>3. row.value \in Nat /\ row.odds \in Nat /\ row.weighted \in Nat
      BY DEF Deal!Deal, Deal!CrmAssumption
    <2>4. PICK n \in Nat : n = row.value * row.odds
      BY <2>3
    <2>5. h[d] = n /\ g[d] = row.weighted
      BY <2>1, <2>4
    <2> HIDE DEF h, g
    <2> QED
      BY <2>2, <2>3, <2>4, <2>5 DEF DealGood, DealWeighs
  <1>4. Deal!Expected = SumOver(g, Deal!Open)
    BY DealSum DEF Deal!Expected
  <1> HIDE DEF h, g
  <1>5. /\ SumOver(g, Deal!Open) \in Nat /\ SumOver(h, Deal!Open) \in Nat
        /\ Cardinality(Deal!Open) \in Nat
        /\ 100 * SumOver(g, Deal!Open) <= 1 * SumOver(h, Deal!Open) + 50 * Cardinality(Deal!Open)
    <2>1. \A d \in Deal!Open : h[d] \in Nat /\ g[d] \in Nat
      BY <1>3
    <2>2. \A d \in Deal!Open : 100 * g[d] <= 1 * h[d] + 50
      BY <1>3
    <2>3. 100 \in Nat /\ 1 \in Nat /\ 50 \in Nat
      OBVIOUS
    <2> QED
      BY <1>2, <2>1, <2>2, <2>3, SumRounded, Zenon
  <1>6. 1 * SumOver(h, Deal!Open) <= 100 * SumOver(g, Deal!Open) + 50 * Cardinality(Deal!Open)
    <2>1. \A d \in Deal!Open : g[d] \in Nat /\ h[d] \in Nat
      BY <1>3
    <2>2. \A d \in Deal!Open : 1 * h[d] <= 100 * g[d] + 50
      BY <1>3
    <2>3. 100 \in Nat /\ 1 \in Nat /\ 50 \in Nat
      OBVIOUS
    <2> QED
      BY <1>2, <2>1, <2>2, <2>3, SumRounded, Zenon
  <1>7. Deal!SumFunctionOnSet(h, Deal!Open) = SumOver(h, Deal!Open)
    BY DealSum
  <1>8. Deal!Cardinality(Deal!Open) = Cardinality(Deal!Open)
    BY DealCardinality
  <1>9. /\ Deal!SumFunctionOnSet(h, Deal!Open) - 50 * Deal!Cardinality(Deal!Open)
             <= 100 * Deal!Expected
        /\ 100 * Deal!Expected
             <= Deal!SumFunctionOnSet(h, Deal!Open) + 50 * Deal!Cardinality(Deal!Open)
    <2>1. PICK x \in Nat, y \in Nat, k \in Nat : /\ x = SumOver(h, Deal!Open)
                                                /\ y = SumOver(g, Deal!Open)
                                                /\ k = Cardinality(Deal!Open)
      BY <1>5
    <2>2. 100 * y <= x + 50 * k /\ x <= 100 * y + 50 * k
      BY <1>5, <1>6, <2>1
    <2>3. x - 50 * k <= 100 * y /\ 100 * y <= x + 50 * k
      BY <2>2
    <2> QED
      BY <1>4, <1>7, <1>8, <2>1, <2>3
  <1> QED
    BY <1>9 DEF h

LEMMA DealConsistent ==
  ASSUME Deal!CrmAssumption, DealIInv
  PROVE  Deal!DealsConsistent
  <1>1. \A d \in Deal!Range(deals) : d.live => stages[d.stage].live
    BY DEF DealIInv, DealStagesOK, Deal!Range
  <1>2. ASSUME ~raced
        PROVE  /\ \A d \in Deal!Range(deals) :
                    /\ d.status = "open" <=> d.closed = "no"
                    /\ d.live /\ ~d.edited /\ d.closed = "won" => d.odds = 100 /\ d.weighted = d.value
                    /\ d.live /\ ~d.edited /\ d.closed = "lost" => d.weighted = 0
               /\ \A i, j \in DOMAIN invoices : invoices[i].deal = invoices[j].deal => i = j
               /\ \A v \in Deal!Range(invoices) : deals[v.deal].closed = "won"
    <2>1. (\A d \in DOMAIN deals : DealGood(deals[d])) /\ DealInvoiced
      BY <1>2 DEF DealIInv
    <2> QED
      BY <2>1 DEF DealGood, DealInvoiced, Deal!Range
  <1> QED
    BY <1>1, <1>2, DealForecast, Zenon DEF Deal!DealsConsistent
=============================================================================
