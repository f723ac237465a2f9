------------------------------ MODULE Members ------------------------------
(***************************************************************************)
(* The seats of one tenant's plan: invitations (InvitationsService),       *)
(* memberships (AdminController), and the plan itself, changed by the      *)
(* billing system (TierController.assignTier) and read through a cache     *)
(* whose entries live for a while (EntitlementService, CacheStore).        *)
(* Requests overlap, and time passes between their steps.                  *)
(***************************************************************************)
EXTENDS Integers, Sequences, FiniteSets

CONSTANTS
  Req,         \* request slots
  Ops,         \* the requests of an instance
  User,        \* users, known by their e-mail address
  Limits,      \* limit.max_users of the plans; a plan without one has a large number
  Ttl,         \* CACHE_TTL_MS
  Days,        \* how long an invitation is good for
  MaxTime, MaxInvitations

\* What the constants have to satisfy.
MembersAssumption ==
  /\ Ops \subseteq {"invite", "create", "assign", "revoke", "accept", "activity"}
  /\ 0 \notin Req /\ IsFiniteSet(User) /\ Limits \subseteq Nat \ {0} /\ Ttl \in Nat
  /\ Days \in Nat /\ MaxTime \in Nat

VARIABLES
  plan,         \* the limit of the tenant's active tier
  cache,        \* [limit, until] or Empty
  member,       \* tenant_memberships: per user
  invitations,  \* in the order they were made
  now,
  txn,          \* per slot: the request and what it read
  excused       \* history: why the seats may be more than the plan's

vars == <<plan, cache, member, invitations, now, txn, excused>>

Empty == [limit |-> 0, until |-> -1]
Idle  == [op |-> "none"]

Invitation == [user: User, status: {"pending", "accepted", "revoked"}, expires: Nat]

Pending == {i \in DOMAIN invitations : invitations[i].status = "pending"}
Active  == {u \in User : member[u] = "active"}

Init == /\ plan \in Limits /\ cache = Empty
        /\ member \in [User -> {"none", "active"}] /\ Cardinality(Active) = 1
        /\ invitations = <<>> /\ now = 0
        /\ txn = [r \in Req |-> Idle] /\ excused = {}

-----------------------------------------------------------------------------
(* The plan.                                                               *)

\* The clock the cache and the invitations compare with.
Tick == now < MaxTime /\ now' = now + 1
        /\ UNCHANGED <<plan, cache, member, invitations, txn, excused>>

Fresh == cache # Empty /\ now <= cache.until

\* getLimit: the cached plan, or the one in the database, put into the cache next.
Lookup(r, op, u) ==
  /\ txn[r] = Idle /\ op \in Ops
  /\ txn' = [txn EXCEPT ![r] =
       [op |-> op, user |-> u, at |-> (IF Fresh THEN "check" ELSE "fill"),
        limit |-> (IF Fresh THEN cache.limit ELSE plan), outdated |-> FALSE]]
  /\ UNCHANGED <<plan, cache, member, invitations, now, excused>>

Fill(r) == /\ txn[r].op \in {"invite", "create"} /\ txn[r].at = "fill"
           /\ cache' = [limit |-> txn[r].limit, until |-> now + Ttl]
           /\ txn' = [txn EXCEPT ![r].at = "check"]
           /\ UNCHANGED <<plan, member, invitations, now, excused>>

\* assignTier: a downgrade needs no more active members than the plan allows; the
\* pending invitations are not counted.
Assign(r, limit) ==
  /\ txn[r] = Idle /\ "assign" \in Ops /\ Cardinality(Active) <= limit
  /\ txn' = [txn EXCEPT ![r] = [op |-> "assign", limit |-> limit, at |-> "invalidate"]]
  /\ UNCHANGED <<plan, cache, member, invitations, now, excused>>

\* The cache is emptied before the transaction that changes the plan commits.
Invalidate(r) ==
  /\ txn[r].op = "assign" /\ txn[r].at = "invalidate"
  /\ cache' = Empty
  /\ txn' = [txn EXCEPT ![r].at = "commit"]
  /\ UNCHANGED <<plan, member, invitations, now, excused>>

Seats == Cardinality(Active) + Cardinality(Pending)

CommitPlan(r) ==
  /\ txn[r].op = "assign" /\ txn[r].at = "commit"
  /\ plan' = txn[r].limit
  /\ excused' = excused \union (IF Seats > txn[r].limit THEN {"downgrade"} ELSE {})
  /\ txn' = [txn EXCEPT ![r] = Idle]
  /\ UNCHANGED <<cache, member, invitations, now>>

\* The slots whose count is older than what slot r, or no slot, writes now.
Outdate(r) == [x \in Req |-> IF x = r THEN Idle
                             ELSE IF txn[x] # Idle /\ txn[x].at = "insert"
                             THEN [txn[x] EXCEPT !.outdated = TRUE] ELSE txn[x]]

-----------------------------------------------------------------------------
(* Invitations and memberships.                                            *)

\* Fault: an invitation takes no seat before it is accepted.
TakenFault(op) == Cardinality(Active)

\* What each of the two counts.
Taken(op) == IF op = "invite" THEN Seats ELSE Cardinality(Active)

\* The count, and for an invitation that there is none for the address yet, where
\* one that has expired is still pending.
Check(r) ==
  LET t == txn[r]
  IN /\ t.op \in {"invite", "create"} /\ t.at = "check"
     /\ Taken(t.op) < t.limit
     /\ t.op = "invite" => \A i \in Pending : invitations[i].user # t.user
     /\ txn' = [txn EXCEPT ![r].at = "insert"]
     /\ UNCHANGED <<plan, cache, member, invitations, now, excused>>

\* Why one seat more may be one too many.
Excuse(t) == (IF t.limit # plan THEN {"stale"} ELSE {})
             \union (IF t.outdated THEN {"raced"} ELSE {})

Insert(r) ==
  LET t == txn[r]
  IN /\ t.op = "invite" /\ t.at = "insert" /\ Len(invitations) < MaxInvitations
     /\ invitations' = Append(invitations, [user |-> t.user, status |-> "pending",
                                            expires |-> now + Days])
     /\ excused' = excused \union Excuse(t)
     /\ txn' = Outdate(r)
     /\ UNCHANGED <<plan, cache, member, now>>

\* A user has one membership in a tenant.
CreateMembership(r) ==
  LET t == txn[r]
  IN /\ t.op = "create" /\ t.at = "insert" /\ member[t.user] = "none"
     /\ member' = [member EXCEPT ![t.user] = "active"]
     /\ excused' = excused \union Excuse(t)
                     \union (IF Pending # {} THEN {"invited"} ELSE {})
     /\ txn' = Outdate(r)
     /\ UNCHANGED <<plan, cache, invitations, now>>

\* revoke
Revoke(i) == /\ "revoke" \in Ops /\ i \in Pending
             /\ invitations' = [invitations EXCEPT ![i].status = "revoked"]
             /\ txn' = Outdate(0)
             /\ UNCHANGED <<plan, cache, member, now, excused>>

\* An invitation past its date is refused; the status "expired" it is given is
\* undone together with the transaction that refuses.
Acceptable(i) == i \in Pending /\ now <= invitations[i].expires

\* accept, of somebody who is no member, active or not; no limit is asked for.
Accept(i) ==
  /\ "accept" \in Ops /\ Acceptable(i) /\ member[invitations[i].user] = "none"
  /\ member' = [member EXCEPT ![invitations[i].user] = "active"]
  /\ invitations' = [invitations EXCEPT ![i].status = "accepted"]
  /\ txn' = Outdate(0)
  /\ UNCHANGED <<plan, cache, now, excused>>

\* revokeAccess, and updateMembership with is_active.
Deactivate(u) == /\ "activity" \in Ops /\ member[u] = "active"
                 /\ member' = [member EXCEPT ![u] = "inactive"]
                 /\ txn' = Outdate(0)
                 /\ UNCHANGED <<plan, cache, invitations, now, excused>>

Reactivate(u) == /\ "activity" \in Ops /\ member[u] = "inactive"
                 /\ member' = [member EXCEPT ![u] = "active"]
                 /\ excused' = excused \union {"reactivated"}
                 /\ txn' = Outdate(0)
                 /\ UNCHANGED <<plan, cache, invitations, now>>

Refuse(r) == /\ txn[r] # Idle /\ txn' = [txn EXCEPT ![r] = Idle]
             /\ UNCHANGED <<plan, cache, member, invitations, now, excused>>

Next == \/ Tick
        \/ \E r \in Req :
             \/ \E u \in User, op \in {"invite", "create"} : Lookup(r, op, u)
             \/ \E limit \in Limits : Assign(r, limit)
             \/ Fill(r) \/ Invalidate(r) \/ CommitPlan(r)
             \/ Check(r) \/ Insert(r) \/ CreateMembership(r) \/ Refuse(r)
        \/ \E i \in DOMAIN invitations : Revoke(i) \/ Accept(i)
        \/ \E u \in User : Deactivate(u) \/ Reactivate(u)

Spec == Init /\ [][Next]_vars

-----------------------------------------------------------------------------
(* Properties.                                                             *)

\* Every variable has its type.
TypeOK == /\ plan \in Limits /\ now \in 0..MaxTime
          /\ member \in [User -> {"none", "active", "inactive"}]
          /\ invitations \in Seq(Invitation)

\* "User limit reached": the members and the invitations that may become members
\* are within the plan, unless a request counted before another one inserted, a
\* plan was stale, a downgrade overlooked the invitations, a member was added
\* beside them, or one came back.  Nobody has two pending invitations unless two
\* requests overlapped; and an invitation was used by one who is a member since.
SeatsWithinPlan ==
  /\ excused = {} => Seats <= plan
  /\ "raced" \notin excused =>
       \A i, j \in Pending : invitations[i].user = invitations[j].user => i = j
  /\ \A i, j \in DOMAIN invitations :
       invitations[i].status = "accepted" =>
         /\ member[invitations[i].user] # "none"
         /\ invitations[j].user = invitations[i].user /\ invitations[j].status = "accepted" => i = j
=============================================================================
