-------------------------------- MODULE Crm --------------------------------
(***************************************************************************)
(* Opportunities (CrmService): a deal in a stage of a pipeline, moved,     *)
(* edited, won with or without an invoice, or lost.  Requests overlap: one *)
(* reads the deal, and later writes what follows from what it read.        *)
(***************************************************************************)
EXTENDS Integers, Sequences, FiniteSetsExt, SequencesExt

CONSTANTS
  Req,             \* request slots
  Pipeline,        \* pipelines
  Odds,            \* probabilities a stage or a deal may have, in percent
  Values,          \* what a deal may be worth, in cents
  MaxStages, MaxDeals, MaxInvoices

\* What the constants have to satisfy.
CrmAssumption == Odds \subseteq 0..100 /\ Values \subseteq Nat /\ MaxStages \in Nat

VARIABLES
  stages,   \* crm_stages: a row keeps its id, deleted ones are not live
  deals,    \* crm_opportunities; "closed" and "edited" are history: how the deal
            \* was closed, and whether it was moved or edited after that
  invoices, \* invoices made of deals: number, total and the deal
  txn,      \* per slot: the request and the deal it read
  raced     \* history: a deal was written by one that had read an older row

vars == <<stages, deals, invoices, txn, raced>>

Stage == [pipeline: Pipeline, odds: Odds, live: BOOLEAN]

Deal == [live: BOOLEAN, pipeline: Pipeline, stage: 1..MaxStages, value: Values,
         odds: 0..100, weighted: Nat, status: {"open", "won", "lost"}, contact: BOOLEAN,
         closed: {"no", "won", "lost"}, edited: BOOLEAN]

Idle == [op |-> "none"]

\* Fault: the value is weighted by the odds as they are written, not as a share.
WeightedFault(value, odds) == value * odds

\* Math.round(value * probability / 100 * 100) / 100
Weighted(value, odds) == (value * odds + 50) \div 100

AnyOdds == Odds \union {0, 100}

Init == /\ stages = <<>> /\ deals = <<>> /\ invoices = <<>>
        /\ txn = [r \in Req |-> Idle] /\ raced = FALSE

-----------------------------------------------------------------------------
(* Pipelines.                                                              *)

Used(s) == \E d \in Range(deals) : d.live /\ d.stage = s

Drop(p) == [s \in DOMAIN stages |-> [stages[s] EXCEPT !.live = @ /\ stages[s].pipeline # p]]

\* createPipeline, and updatePipeline with stages: every stage of the pipeline is
\* replaced, and a foreign key refuses it while a deal is in one.
PutStages(p, odds) ==
  /\ \A s \in DOMAIN stages : stages[s].pipeline = p /\ stages[s].live => ~Used(s)
  /\ Len(stages) + Len(odds) <= MaxStages
  /\ stages' = Drop(p) \o [i \in DOMAIN odds |-> [pipeline |-> p, odds |-> odds[i], live |-> TRUE]]
  /\ UNCHANGED <<deals, invoices, txn, raced>>

\* A pipeline with a deal is not deleted either, whatever stage the deal is in.
DeletePipeline(p) ==
  /\ \A s \in DOMAIN stages : stages[s].pipeline = p /\ stages[s].live => ~Used(s)
  /\ \A d \in Range(deals) : d.live => d.pipeline # p
  /\ stages' = Drop(p)
  /\ UNCHANGED <<deals, invoices, txn, raced>>

-----------------------------------------------------------------------------
(* Deals in one statement.                                                 *)

\* The stage is looked up by its id alone: it may be of another pipeline.
CreateOpportunity(p, s, v, odds, contact) ==
  /\ stages[s].live /\ Len(deals) < MaxDeals
  /\ odds \in Odds \union {stages[s].odds}
  /\ deals' = Append(deals,
       [live |-> TRUE, pipeline |-> p, stage |-> s, value |-> v, odds |-> odds,
        weighted |-> Weighted(v, odds), status |-> "open", contact |-> contact,
        closed |-> "no", edited |-> FALSE])
  /\ UNCHANGED <<stages, invoices, txn, raced>>

DeleteOpportunity(d) ==
  /\ deals[d].live
  /\ deals' = [deals EXCEPT ![d].live = FALSE]
  /\ UNCHANGED <<stages, invoices, txn, raced>>

-----------------------------------------------------------------------------
(* Deals read first and written later.                                     *)

\* updateOpportunity and moveOpportunity take a deal in any status.
Read(r, op, d) ==
  /\ txn[r] = Idle /\ deals[d].live
  /\ op \in {"win", "lose"} => deals[d].status = "open"
  /\ txn' = [txn EXCEPT ![r] = [op |-> op, id |-> d, read |-> deals[d], number |-> 0]]
  /\ UNCHANGED <<stages, deals, invoices, raced>>

\* The write finds the row unless it was deleted in between.
Write(r, row) ==
  /\ deals' = IF deals[txn[r].id].live THEN [deals EXCEPT ![txn[r].id] = row] ELSE deals
  /\ txn' = [txn EXCEPT ![r] = Idle]
  /\ raced' = (raced \/ deals[txn[r].id] # txn[r].read)
  /\ UNCHANGED stages

Row(r) == deals[txn[r].id]

\* The fields sent are written; the weighted value comes from them and, for the
\* rest, from the row read before.
UpdateOpportunity(r, v, odds) ==
  /\ txn[r].op = "update"
  /\ v \in Values \union {txn[r].read.value} /\ odds \in Odds \union {txn[r].read.odds}
  /\ LET value == IF v = txn[r].read.value THEN Row(r).value ELSE v
         share == IF odds = txn[r].read.odds THEN Row(r).odds ELSE odds
     IN Write(r, [Row(r) EXCEPT !.value = value, !.odds = share,
                                !.weighted = Weighted(v, odds), !.edited = TRUE])
  /\ UNCHANGED invoices

MoveOpportunity(r, s) ==
  /\ txn[r].op = "move" /\ stages[s].live
  /\ Write(r, [Row(r) EXCEPT !.stage = s, !.odds = stages[s].odds, !.edited = TRUE,
                             !.weighted = Weighted(txn[r].read.value, stages[s].odds)])
  /\ UNCHANGED invoices

\* Fault: the status is none the CHECK of the column allows.
LoseOpportunityFault(r) ==
  /\ txn[r].op = "lose"
  /\ Write(r, [Row(r) EXCEPT !.status = "closed", !.odds = 0, !.weighted = 0,
                             !.closed = "lost", !.edited = FALSE])
  /\ UNCHANGED invoices

LoseOpportunity(r) ==
  /\ txn[r].op = "lose"
  /\ Write(r, [Row(r) EXCEPT !.status = "lost", !.odds = 0, !.weighted = 0,
                             !.closed = "lost", !.edited = FALSE])
  /\ UNCHANGED invoices

Won(r) == [Row(r) EXCEPT !.status = "won", !.odds = 100, !.weighted = txn[r].read.value,
                         !.closed = "won", !.edited = FALSE]

LastNumber == IF invoices = <<>> THEN 0 ELSE Last(invoices).number

ReadNumber(r) == /\ txn[r].op = "win" /\ txn[r].number = 0 /\ txn[r].read.contact
                 /\ txn' = [txn EXCEPT ![r].number = LastNumber + 1]
                 /\ UNCHANGED <<stages, deals, invoices, raced>>

\* winOpportunity: no invoice when none was asked for, or there is no contact.
WinOpportunity(r) ==
  /\ txn[r].op = "win" /\ Write(r, Won(r))
  /\ \/ txn[r].number = 0 /\ UNCHANGED invoices
     \/ /\ txn[r].number # 0 /\ Len(invoices) < MaxInvoices
        /\ \A v \in Range(invoices) : v.number # txn[r].number
        /\ invoices' = Append(invoices, [number |-> txn[r].number, total |-> txn[r].read.value,
                                         deal |-> txn[r].id])

Rollback(r) == /\ txn[r] # Idle /\ txn' = [txn EXCEPT ![r] = Idle]
               /\ UNCHANGED <<stages, deals, invoices, raced>>

Next ==
  \/ \E p \in Pipeline : \/ DeletePipeline(p)
                         \/ \E odds \in {<<x>> : x \in Odds} : PutStages(p, odds)
  \/ \E p \in Pipeline, s \in DOMAIN stages, v \in Values, odds \in AnyOdds, c \in BOOLEAN :
       CreateOpportunity(p, s, v, odds, c)
  \/ \E d \in DOMAIN deals : DeleteOpportunity(d)
  \/ \E r \in Req :
       \/ \E d \in DOMAIN deals, op \in {"update", "move", "win", "lose"} : Read(r, op, d)
       \/ \E v \in Values, odds \in AnyOdds : UpdateOpportunity(r, v, odds)
       \/ \E s \in DOMAIN stages : MoveOpportunity(r, s)
       \/ LoseOpportunity(r) \/ ReadNumber(r) \/ WinOpportunity(r) \/ Rollback(r)

Spec == Init /\ [][Next]_vars

-----------------------------------------------------------------------------
(* Properties.                                                             *)

\* Every variable has its type.
TypeOK == stages \in Seq(Stage) /\ deals \in Seq(Deal) /\ raced \in BOOLEAN

\* getDashboard: the open deals and what they are expected to bring.
Open == {d \in DOMAIN deals : deals[d].live /\ deals[d].status = "open"}

Expected == SumFunctionOnSet([d \in Open |-> deals[d].weighted], Open)

\* A deal is in a stage that exists, even while pipelines are edited.  Unless two
\* requests on one deal overlapped: the forecast is the deals' values, each taken
\* with its own probability, to half a cent; a won or lost deal that nobody moved or edited since
\* counts in full or not at all; a deal has one invoice at most, made when it was
\* won, and a deal that was lost has none.
DealsConsistent ==
  /\ \A d \in Range(deals) : d.live => stages[d.stage].live
  /\ ~raced =>
       /\ LET exact == SumFunctionOnSet([d \in Open |-> deals[d].value * deals[d].odds], Open)
          IN  exact - 50 * Cardinality(Open) <= 100 * Expected
              /\ 100 * Expected <= exact + 50 * Cardinality(Open)
       /\ \A d \in Range(deals) :
            /\ d.status = "open" <=> d.closed = "no"
            /\ d.live /\ ~d.edited /\ d.closed = "won" => d.odds = 100 /\ d.weighted = d.value
            /\ d.live /\ ~d.edited /\ d.closed = "lost" => d.weighted = 0
       /\ \A i, j \in DOMAIN invoices : invoices[i].deal = invoices[j].deal => i = j
       /\ \A v \in Range(invoices) : deals[v.deal].closed = "won"
=============================================================================
