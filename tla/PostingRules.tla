---------------------------- MODULE PostingRules ----------------------------
(***************************************************************************)
(* Events turned into journal entries by posting rules                     *)
(* (PostingRulesController.processEvent, PostingRulesService): an event    *)
(* that was booked before, by its idempotency key, is not booked again;    *)
(* otherwise every active rule for it makes one entry, all in one          *)
(* transaction.  Requests overlap; nothing locks the key.                  *)
(***************************************************************************)
EXTENDS Integers, Sequences, FiniteSetsExt, SequencesExt

CONSTANTS
  Req,          \* request slots
  Key,          \* idempotency keys, references of entries
  Event,        \* event types
  Period,       \* fiscal periods
  Amounts,      \* payload.amount
  Rule,         \* posting_rules with their lines, by their id
  MaxEntries

\* A line takes its amount from the payload, or it is the number given; 0 stands for
\* a field that is missing and a text that is not a number, which are refused alike.
Payload == -1

\* What the constants have to satisfy.
RulesAssumption ==
  /\ Amounts \subseteq Nat
  /\ DOMAIN Rule \subseteq Nat \ {0}
  /\ \A i \in DOMAIN Rule :
       /\ Rule[i].event \in Event /\ Rule[i].active \in BOOLEAN
       /\ \A l \in Range(Rule[i].lines) :
            l.side \in {"debit", "credit"} /\ l.source \in Nat \union {Payload}

VARIABLES
  entries,   \* journal_entries: reference, period, number, the rule (0: none) and totals
  open,      \* the periods an entry may be made in
  txn,       \* per slot: the event, the rules left to execute and the entries made
  raced      \* history: an event was booked while another request booked it

vars == <<entries, open, txn, raced>>

Idle == [op |-> "none"]

Init == /\ entries = <<>> /\ open \in SUBSET Period
        /\ txn = [r \in Req |-> Idle] /\ raced = FALSE

\* findMatchingRules, which asks for no order.
Matching(event) == {i \in DOMAIN Rule : Rule[i].active /\ Rule[i].event = event}

\* resolveAmount
Resolve(line, amount) == IF line.source = Payload THEN amount ELSE line.source

Side(lines, side, amount) ==
  FoldLeft(LAMBDA sum, l : sum + (IF l.side = side THEN Resolve(l, amount) ELSE 0), 0, lines)

\* executeRule, and the balance JournalService.create asks for once more.
Executable(lines, amount) ==
  /\ Len(lines) >= 2
  /\ \A l \in Range(lines) : Resolve(l, amount) > 0
  /\ Side(lines, "debit", amount) = Side(lines, "credit", amount)

Booked(k) == {i \in DOMAIN entries : entries[i].reference = k}

\* Fault: the key is looked for among the entries of the period only.
DuplicateFault(k, p) == \E i \in Booked(k) : entries[i].period = p

Duplicate(k, p) == Booked(k) # {}

\* A duplicate is answered with the entry there is, and an event without a rule
\* is refused; neither changes anything.
Process(r, k, event, amount, p) ==
  /\ txn[r] = Idle /\ ~Duplicate(k, p) /\ Matching(event) # {}
  /\ txn' = [txn EXCEPT ![r] = [op |-> "process", key |-> k, period |-> p, amount |-> amount,
                                rules |-> Matching(event), made |-> <<>>,
                                seen |-> Booked(k)]]
  /\ UNCHANGED <<entries, open, raced>>

Numbers(s, p) == {e.number : e \in {e \in Range(s) : e.period = p}}

\* The next rule: its entry is a draft in a period that must be open.
Execute(r, i) ==
  LET t == txn[r]
      rule == Rule[i]
      entry == [reference |-> t.key, period |-> t.period, rule |-> i,
                number |-> Max({0} \union Numbers(entries \o t.made, t.period)) + 1,
                debit |-> Side(rule.lines, "debit", t.amount),
                credit |-> Side(rule.lines, "credit", t.amount)]
  IN /\ t.op = "process" /\ i \in t.rules
     /\ Executable(rule.lines, t.amount) /\ t.period \in open
     /\ txn' = [txn EXCEPT ![r].rules = t.rules \ {i}, ![r].made = Append(t.made, entry)]
     /\ UNCHANGED <<entries, open, raced>>

\* The entry numbers of a period are unique.
Commit(r) ==
  LET t == txn[r]
  IN /\ t.op = "process" /\ t.rules = {} /\ Len(entries) + Len(t.made) <= MaxEntries
     /\ Numbers(t.made, t.period) \intersect Numbers(entries, t.period) = {}
     /\ entries' = entries \o t.made
     /\ txn' = [txn EXCEPT ![r] = Idle]
     /\ raced' = (raced \/ Booked(t.key) # t.seen)
     /\ UNCHANGED open

\* A rule that cannot be executed, a closed period or a number that is taken ends
\* the request with all it made.
Rollback(r) == /\ txn[r] # Idle /\ txn' = [txn EXCEPT ![r] = Idle]
               /\ UNCHANGED <<entries, open, raced>>

\* An entry made by hand may have any reference.
Manual(k, p) ==
  /\ Len(entries) < MaxEntries /\ p \in open
  /\ entries' = Append(entries, [reference |-> k, period |-> p, rule |-> 0, debit |-> 1, credit |-> 1,
                                 number |-> Max({0} \union Numbers(entries, p)) + 1])
  /\ UNCHANGED <<open, txn, raced>>

Close(p) == /\ p \in open /\ open' = open \ {p}
            /\ UNCHANGED <<entries, txn, raced>>

Next == \/ \E r \in Req :
             \/ \E k \in Key, e \in Event, a \in Amounts, p \in Period : Process(r, k, e, a, p)
             \/ \E i \in DOMAIN Rule : Execute(r, i)
             \/ Commit(r) \/ Rollback(r)
        \/ \E p \in Period : Close(p) \/ \E k \in Key : Manual(k, p)

Spec == Init /\ [][Next]_vars

-----------------------------------------------------------------------------
(* Properties.                                                             *)

\* Every variable has its type.
TypeOK ==
  /\ \A e \in Range(entries) : e.reference \in Key /\ e.period \in Period /\ e.number \in Nat
  /\ open \subseteq Period /\ raced \in BOOLEAN

\* processEvent: the entries of rules balance.  Unless two requests with one key
\* overlapped, the rules' entries for it are one for each rule of one event or none
\* at all, however often the event is sent, for whatever period, and whatever the
\* second rule does after the first made its entry.
EventsOnce ==
  /\ \A e \in Range(entries) : e.debit = e.credit
  /\ ~raced =>
       \A k \in Key :
         LET made == {i \in Booked(k) : entries[i].rule # 0}
         IN /\ made = {} \/ \E event \in Event : {entries[i].rule : i \in made} = Matching(event)
            /\ \A i, j \in made : entries[i].rule = entries[j].rule => i = j
=============================================================================
