------------------------------ MODULE Journal ------------------------------
(***************************************************************************)
(* The journal: every writer of journal_entries and journal_lines, the     *)
(* lock date of the tenant and the status of its fiscal periods, for one   *)
(* tenant (row-level security keeps tenants apart).                        *)
(*                                                                         *)
(* A request runs in one READ COMMITTED database transaction               *)
(* (TenantContextService.runInTenantContext).  Each SELECT is a step of    *)
(* its own that sees the last committed state; no SELECT locks.  The       *)
(* writes of a transaction become visible together, so they are one        *)
(* Commit step, guarded by what the database itself checks then: the       *)
(* unique index on entry numbers, the immutability trigger and the CHECK   *)
(* on lines.  A guard the code throws on, a constraint the database        *)
(* rejects, and a lost connection all leave only Rollback.                 *)
(***************************************************************************)
EXTENDS Integers, Sequences, FiniteSets, FiniteSetsExt

CONSTANTS
  Req,          \* request slots: transactions that may be in flight together
  Ops,          \* the operations the clients use (a subset of AllOps)
  Period,       \* fiscal periods
  PeriodEnd,    \* [Period -> Nat]: the day a period ends
  LockDate,     \* the days a lock date may be set to
  NoLock,       \* lock_date IS NULL
  NoPeriod,     \* a transaction that has not chosen a period
  Account,      \* accounts of the chart
  Submission,   \* the sequences of lines callers submit
  MaxEntries    \* bound on the number of journal entries

AllOps == {"create", "post", "void",       \* JournalService
           "lock",                         \* AdminController.setLockDate
           "subpost", "subvoid",           \* expenses, invoices, banking, ...
           "asset"}                        \* depreciation and disposal

ASSUME JournalAssumption ==
  /\ Ops \subseteq AllOps
  /\ PeriodEnd \in [Period -> Nat]
  /\ LockDate \subseteq Nat /\ NoLock \notin Nat
  /\ NoPeriod \notin Period
  /\ Submission \subseteq Seq([account: Account, debit: Nat, credit: Nat])
  /\ MaxEntries \in Nat

VARIABLES
  je,             \* journal_entries with their journal_lines; id = position
  period_status,  \* fiscal_periods.status
  lock_date,      \* tenants.lock_date
  txn,            \* per slot: the operation, its next statement, what it read
  seen            \* history: per slot, periods open / unlocked since it began

vars == <<je, period_status, lock_date, txn, seen>>

-----------------------------------------------------------------------------
(* Lines and balances; amounts are multiples of 0.0001 (decimal(18,4)).    *)

CheckedLine(l) == \/ l.debit > 0 /\ l.credit = 0
                  \/ l.debit = 0 /\ l.credit > 0

Debit(lines)  == MapThenSumSet(LAMBDA i : lines[i].debit,  DOMAIN lines)
Credit(lines) == MapThenSumSet(LAMBDA i : lines[i].credit, DOMAIN lines)

\* Math.abs(totalDebit - totalCredit) > 0.0001 is refused.
WithinTolerance(lines) == Debit(lines) - Credit(lines) \in -1..1

\* Fault: the reversal repeats the entry.
SwappedFault(lines) == lines

Swapped(lines) ==
  [i \in DOMAIN lines |-> [lines[i] EXCEPT !.debit  = lines[i].credit,
                                           !.credit = lines[i].debit]]

-----------------------------------------------------------------------------
(* Entries and requests.                                                   *)

Status == {"draft", "posted", "voided"}
Line   == [account: Account, debit: Nat, credit: Nat]

\* "reverses" is a history field: the id a reversal was written for, else 0.
Entry == [period: Period, number: Nat, status: Status, lines: Seq(Line),
          reverses: Nat]

Numbers(p) == {je[i].number : i \in {k \in DOMAIN je : je[k].period = p}}

\* Fault: the first number of a period is 2.
MaxNumberFault(p) == Max(Numbers(p) \cup {1})

\* (Number(max_num) || 0): the largest entry number of the period, or 0.
MaxNumber(p) == Max(Numbers(p) \cup {0})

Unlocked(date) == {p \in Period : date = NoLock \/ PeriodEnd[p] > date}
OpenPeriods    == {p \in Period : period_status[p] = "open"}

Idle == [op |-> "none", pc |-> "idle", period |-> NoPeriod, id |-> 0,
         lines |-> <<>>, num |-> 0, date |-> NoLock]
Unseen == [open |-> {}, unlocked |-> {}]

Txn == [op: AllOps \cup {"none"},
        pc: {"idle", "entry", "period", "lock", "number", "pick", "commit"},
        period: Period \cup {NoPeriod}, id: Nat, lines: Seq(Line), num: Nat,
        date: LockDate \cup {NoLock}]

Init == /\ je = <<>>
        /\ period_status \in [Period -> {"open", "closed"}]
        /\ lock_date = NoLock
        /\ txn = [r \in Req |-> Idle]
        /\ seen = [r \in Req |-> Unseen]

-----------------------------------------------------------------------------
(* A request opens its transaction.                                        *)

Begin(r, op, req) ==
  /\ op \in Ops
  /\ txn[r].pc = "idle"
  /\ txn' = [txn EXCEPT ![r] = [req EXCEPT !.op = op]]
  /\ seen' = [seen EXCEPT ![r] = [open |-> OpenPeriods,
                                  unlocked |-> Unlocked(lock_date)]]
  /\ UNCHANGED <<je, period_status, lock_date>>

\* POST /journal: create a draft.  Also the subledger writers that post an
\* entry of their own (subpost), which start by reading the period too.
BeginEntry(r, op) ==
  /\ op \in {"create", "subpost"}
  /\ \E p \in Period, ls \in Submission :
       Begin(r, op, [Idle EXCEPT !.pc = "period", !.period = p, !.lines = ls])

\* POST /journal/:id/post and /void, and the subledger voids.
BeginOnEntry(r, op) ==
  /\ op \in {"post", "void", "subvoid"}
  /\ \E i \in DOMAIN je :
       Begin(r, op, [Idle EXCEPT !.pc = "entry", !.id = i])

\* Depreciation run or disposal: numbers the entry before it picks a period.
BeginAsset(r) ==
  \E ls \in Submission :
    Begin(r, "asset", [Idle EXCEPT !.pc = "number", !.lines = ls])

\* PATCH /admin/lock-date.
BeginLock(r) ==
  \E d \in LockDate \cup {NoLock} :
    Begin(r, "lock", [Idle EXCEPT !.pc = "lock", !.date = d])

-----------------------------------------------------------------------------
(* The reads.  A guard that throws disables the step.                      *)

Advance(r, t) == /\ txn' = [txn EXCEPT ![r] = t]
                 /\ UNCHANGED <<je, period_status, lock_date, seen>>

\* Read the entry: post wants a draft, the voids a posted one.  The subledger
\* voids read neither the period nor the lock date.
ReadEntry(r) ==
  LET t == txn[r]  e == je[t.id] IN
  /\ t.pc = "entry"
  /\ e.status = (IF t.op = "post" THEN "draft" ELSE "posted")
  /\ Advance(r, [t EXCEPT !.period = e.period,
                          !.lines  = e.lines,
                          !.pc = IF t.op = "subvoid" THEN "number" ELSE "period"])

\* Read the fiscal period: it must be open.
ReadPeriod(r) ==
  LET t == txn[r] IN
  /\ t.pc = "period"
  /\ period_status[t.period] = "open"
  /\ Advance(r, [t EXCEPT !.pc = IF t.op = "subpost" THEN "number" ELSE "lock"])

\* Fault: a post skips the lock date.
CheckLockDateFault(r) ==
  LET t == txn[r] IN
  /\ t.pc = "lock" /\ t.op \in {"create", "post", "void"}
  /\ t.op # "post" => t.period \in Unlocked(lock_date)
  /\ t.op = "create" => WithinTolerance(t.lines)
  /\ Advance(r, [t EXCEPT !.pc = IF t.op = "post" THEN "commit" ELSE "number"])

\* checkLockDate, then, for a new entry, the balance of the lines submitted.
CheckLockDate(r) ==
  LET t == txn[r] IN
  /\ t.pc = "lock" /\ t.op \in {"create", "post", "void"}
  /\ t.period \in Unlocked(lock_date)
  /\ t.op = "create" => WithinTolerance(t.lines)
  /\ Advance(r, [t EXCEPT !.pc = IF t.op = "post" THEN "commit" ELSE "number"])

\* Fault: the date is not compared with the current one.
ReadLockDateFault(r) ==
  /\ txn[r].pc = "lock" /\ txn[r].op = "lock"
  /\ Advance(r, [txn[r] EXCEPT !.pc = "commit"])

\* setLockDate reads the date: a non-null date may not be moved back.
ReadLockDate(r) ==
  LET t == txn[r] IN
  /\ t.pc = "lock" /\ t.op = "lock"
  /\ (lock_date # NoLock /\ t.date # NoLock) => t.date >= lock_date
  /\ Advance(r, [t EXCEPT !.pc = "commit"])

\* The next number: the largest of the period, plus one.
ReadNumber(r) ==
  LET t == txn[r] IN
  /\ t.pc = "number" /\ t.op # "asset"
  /\ Advance(r, [t EXCEPT !.num = MaxNumber(t.period) + 1, !.pc = "commit"])

\* Fixed assets: the number of the tenant's last entry, in whatever period,
\* plus one ...
ReadLastNumber(r) ==
  LET t == txn[r] IN
  /\ t.pc = "number" /\ t.op = "asset"
  /\ Advance(r, [t EXCEPT !.num = IF je = <<>> THEN 1 ELSE je[Len(je)].number + 1,
                          !.pc = "pick"])

\* Fault: the entry is written even when no period is open.
PickOpenPeriodFault(r) ==
  /\ txn[r].pc = "pick"
  /\ \E p \in OpenPeriods \cup {NoPeriod} :
       Advance(r, [txn[r] EXCEPT !.period = p, !.pc = "commit"])

\* ... and then any open period (an unordered .first()).
PickOpenPeriod(r) ==
  /\ txn[r].pc = "pick"
  /\ \E p \in OpenPeriods :
       Advance(r, [txn[r] EXCEPT !.period = p, !.pc = "commit"])

-----------------------------------------------------------------------------
(* The writes.                                                             *)

Finish(r) == /\ txn'  = [txn  EXCEPT ![r] = Idle]
             /\ seen' = [seen EXCEPT ![r] = Unseen]

\* Fault: no unique index.
NumberIsFreeFault(p, n) == TRUE

\* idx_je_entry_number (tenant, period, entry_number).
NumberIsFree(p, n) == n \notin Numbers(p)

\* chk_debit_or_credit on every line.
LinesAccepted(lines) == \A i \in DOMAIN lines : CheckedLine(lines[i])

\* Fault: no immutability trigger.
TriggerAllowsFault(e, status) == TRUE

\* trg_journal_entries_immutability: draft entries may change, posted ones
\* only to voided.
TriggerAllows(e, status) ==
  e.status = "draft" \/ (e.status = "posted" /\ status = "voided")

Row(t, status, lines, reverses) ==
  [period |-> t.period, number |-> t.num, status |-> status,
   lines |-> lines, reverses |-> reverses]

\* INSERT of an entry and its lines, draft for JournalService.create and
\* posted for the other writers.
CommitInsert(r) ==
  LET t == txn[r] IN
  /\ t.pc = "commit" /\ t.op \in {"create", "subpost", "asset"}
  /\ Len(je) < MaxEntries
  /\ NumberIsFree(t.period, t.num)
  /\ LinesAccepted(t.lines)
  /\ je' = Append(je, Row(t, IF t.op = "create" THEN "draft" ELSE "posted",
                          t.lines, 0))
  /\ Finish(r)
  /\ UNCHANGED <<period_status, lock_date>>

\* UPDATE status = 'posted'.
CommitPost(r) ==
  LET t == txn[r] IN
  /\ t.pc = "commit" /\ t.op = "post"
  /\ TriggerAllows(je[t.id], "posted")
  /\ je' = [je EXCEPT ![t.id].status = "posted"]
  /\ Finish(r)
  /\ UNCHANGED <<period_status, lock_date>>

\* UPDATE status = 'voided' and INSERT of the reversal with its lines.
CommitVoid(r) ==
  LET t == txn[r] IN
  /\ t.pc = "commit" /\ t.op \in {"void", "subvoid"}
  /\ Len(je) < MaxEntries
  /\ TriggerAllows(je[t.id], "voided")
  /\ NumberIsFree(t.period, t.num)
  /\ LinesAccepted(Swapped(t.lines))
  /\ je' = Append([je EXCEPT ![t.id].status = "voided"],
                   Row(t, "posted", Swapped(t.lines), t.id))
  /\ Finish(r)
  /\ UNCHANGED <<period_status, lock_date>>

\* UPDATE tenants SET lock_date.
CommitLock(r) ==
  LET t == txn[r] IN
  /\ t.pc = "commit" /\ t.op = "lock"
  /\ lock_date' = t.date
  /\ txn' = [txn EXCEPT ![r] = Idle]
  /\ seen' = [q \in Req |-> IF q = r \/ txn[q].pc = "idle" THEN Unseen
                ELSE [seen[q] EXCEPT !.unlocked = @ \cup Unlocked(t.date)]]
  /\ UNCHANGED <<je, period_status>>

\* An exception, a constraint or a lost connection undoes the transaction.
Rollback(r) == /\ txn[r].pc # "idle"
               /\ Finish(r)
               /\ UNCHANGED <<je, period_status, lock_date>>

-----------------------------------------------------------------------------
(* Periods are opened and closed by operators, outside this code.          *)

ClosePeriod(p) == /\ period_status[p] = "open"
                  /\ period_status' = [period_status EXCEPT ![p] = "closed"]
                  /\ UNCHANGED <<je, lock_date, txn, seen>>

OpenPeriod(p) ==
  /\ period_status[p] = "closed"
  /\ period_status' = [period_status EXCEPT ![p] = "open"]
  /\ seen' = [r \in Req |-> IF txn[r].pc = "idle" THEN Unseen
                ELSE [seen[r] EXCEPT !.open = @ \cup {p}]]
  /\ UNCHANGED <<je, lock_date, txn>>

-----------------------------------------------------------------------------
Start(r) == \/ \E op \in Ops : BeginEntry(r, op) \/ BeginOnEntry(r, op)
            \/ BeginAsset(r)
            \/ BeginLock(r)

Read(r) == \/ ReadEntry(r)   \/ ReadPeriod(r) \/ CheckLockDate(r)
           \/ ReadLockDate(r) \/ ReadNumber(r) \/ ReadLastNumber(r)
           \/ PickOpenPeriod(r)

Commit(r) == \/ CommitInsert(r) \/ CommitPost(r) \/ CommitVoid(r)
             \/ CommitLock(r)

Next == \/ \E r \in Req : Start(r) \/ Read(r) \/ Commit(r) \/ Rollback(r)
        \/ \E p \in Period : ClosePeriod(p) \/ OpenPeriod(p)

Spec == Init /\ [][Next]_vars

-----------------------------------------------------------------------------
(* Properties.                                                             *)

\* Every variable has its type.
TypeOK ==
  /\ je \in Seq(Entry)
  /\ period_status \in [Period -> {"open", "closed"}]
  /\ lock_date \in LockDate \cup {NoLock}
  /\ txn \in [Req -> Txn]
  /\ seen \in [Req -> [open: SUBSET Period, unlocked: SUBSET Period]]

\* No two entries of a period carry the same number, whichever writers raced
\* from the same stale max(entry_number).
EntryNumbersUnique ==
  \A i, k \in DOMAIN je :
    je[i].period = je[k].period /\ je[i].number = je[k].number => i = k

\* As long as nobody depreciates or disposes of a fixed asset, the numbers of
\* a period have no gap, however the requests interleave, abort and retry
\* (JournalService.create's "max + 1").
NumbersGapFree ==
  "asset" \notin Ops =>
    \A i \in DOMAIN je : \A n \in 1..je[i].number :
      \E k \in DOMAIN je : je[k].period = je[i].period /\ je[k].number = n

\* A voided entry has exactly one reversal, of the same period and with the
\* debits and credits exchanged, and only voided entries have one: two voids
\* that both read the entry as posted do not both reverse it.
Reversals(i) == {k \in DOMAIN je : je[k].reverses = i}
OneReversalPerVoid ==
  \A i \in DOMAIN je :
    IF je[i].status = "voided"
    THEN \E k \in DOMAIN je : /\ Reversals(i) = {k}
                              /\ je[k].period = je[i].period
                              /\ je[k].status # "draft"
                              /\ je[k].lines = Swapped(je[i].lines)
    ELSE Reversals(i) = {}

\* What JournalService's checks amount to under concurrency: a create, post or
\* void changes a period only if, at some moment of its own transaction, the
\* period was open and, at some moment, the lock date left it free.
ChecksHeldDuringTransaction ==
  [][\A r \in Req :
       txn[r].op \in {"create", "post", "void"} /\ txn'[r] = Idle /\ je' # je
         => txn[r].period \in seen[r].open \cap seen[r].unlocked]_vars

\* What setLockDate's "only move forward" amounts to under concurrency: a
\* change of the date never frees a period that was locked during the whole of
\* the request, except by an explicit clear.
LockNeverFreesLocked ==
  [][lock_date' \notin {lock_date, NoLock} =>
       \E r \in Req : /\ txn[r].op = "lock" /\ txn'[r] = Idle
                      /\ Unlocked(lock_date') \subseteq seen[r].unlocked]_vars

\* SPEC-001, invariant 2: entries are only posted to open fiscal periods.
PostedOnlyToOpenPeriod ==
  [][\A i \in DOMAIN je' :
       je'[i].status = "posted" /\ (i \notin DOMAIN je \/ je[i].status = "draft")
         => je'[i].period \in OpenPeriods]_je

\* trialBalance: per account, debit minus credit over the posted entries.
AccountNet(lines, a) ==
  MapThenSumSet(LAMBDA i : IF lines[i].account = a
                           THEN lines[i].debit - lines[i].credit ELSE 0,
                DOMAIN lines)
NetOver(ids, a)  == MapThenSumSet(LAMBDA i : AccountNet(je[i].lines, a), ids)
TrialBalance(a)  == NetOver({i \in DOMAIN je : je[i].status = "posted"}, a)

\* SPEC-001, invariant 3: a reversal corrects its entry.  The trial balance
\* is then that of the entries neither voided nor written as a reversal.
VoidCancelsEntry ==
  (\A i \in DOMAIN je : je[i].reverses # 0 => je[i].status = "posted") =>
    \A a \in Account :
      TrialBalance(a) =
        NetOver({i \in DOMAIN je : je[i].status = "posted" /\ je[i].reverses = 0}, a)

\* The journal implements the abstract ledger: read steps, aborted requests,
\* the lock date and the numbering are invisible there.
L == INSTANCE Ledger WITH
       Lines <- Submission,
       book  <- [i \in DOMAIN je |->
                  [period |-> je[i].period, status |-> je[i].status,
                   lines |-> je[i].lines, reverses |-> je[i].reverses]]
ImplementsLedger == L!Spec
=============================================================================
