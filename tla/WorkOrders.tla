----------------------------- MODULE WorkOrders -----------------------------
(***************************************************************************)
(* Manufacturing (ManufacturingService): a bill of materials, the work     *)
(* orders made from it, the material and labour recorded on them, and the  *)
(* stock moves and journal entries of a completed order.  The stock it     *)
(* uses is that of Stock.tla, whose operations go on beside it.            *)
(*                                                                         *)
(* Requests are taken one at a time.  The rows of usage and of labour are  *)
(* kept as their totals.  A work order has a location: without one its     *)
(* moves are refused (inventory_transactions.location_id).                 *)
(***************************************************************************)
EXTENDS Stock

CONSTANTS
  Boms,              \* bills of materials a user may save
  NoBom,             \* the bill is deleted
  Usage,             \* lines of material usage: product, quantity, unit cost
  Labor,             \* costs of a labour line: hours times rate
  Produced,          \* quantities to produce, and produced
  MaxOrders, MaxCost \* bounds: work orders, and the cost recorded on one

Bom == [yield: Nat \ {0},
        materials: Seq([qty: Nat, waste: Nat, cost: Nat]),
        labor: Seq([hours: Nat, rate: Nat]),
        overhead: Seq([type: {"fixed", "per_unit"}, amount: Nat])]

\* What the constants have to satisfy.
WorkOrdersAssumption ==
  /\ Boms \subseteq Bom /\ NoBom \notin Bom
  /\ Usage \subseteq [product: Products, qty: Nat \ {0}, unit: Nat]
  /\ Labor \subseteq Nat /\ Produced \subseteq Nat \ {0}
  /\ MaxOrders \in Nat /\ MaxCost \in Nat

VARIABLES
  bom,   \* the bill of materials
  wo,    \* work orders, by id
  gl     \* what completed orders left on the accounts 1400, 1300, 5100 and 1500

vars == <<bom, wo, gl, product, moves, doc, entries, period_open, txn>>

WorkOrder == [status: {"draft", "released", "in_progress", "completed", "cancelled"},
              product: Products, location: Locations, quantity: Produced,
              estimated: Nat, actual: Nat, variance: Int, produced: Nat,
              materials: Nat, labor: Nat, used: BOOLEAN, worked: BOOLEAN]

Accounts == {"wip", "raw", "labor", "goods"}

-----------------------------------------------------------------------------
Sum(f(_), s) == FoldLeft(LAMBDA sum, x : sum + f(x), 0, s)

\* getBomCostEstimate: materials with their waste, labour, overhead per batch
\* or per unit of it.
Estimate(b) ==
  Sum(LAMBDA l : Round(l.qty * (100 + l.waste) * l.cost, 100), b.materials)
  + Sum(LAMBDA l : l.hours * l.rate, b.labor)
  + Sum(LAMBDA o : IF o.type = "per_unit" THEN o.amount * b.yield ELSE o.amount, b.overhead)

UsageCost(lines) == Sum(LAMBDA l : l.qty * l.unit, lines)

-----------------------------------------------------------------------------
WOInit == /\ Init
          /\ bom = NoBom /\ wo = <<>> /\ gl = [a \in Accounts |-> 0]

OrdersWith(statuses) == {i \in DOMAIN wo : wo[i].status \in statuses}

CreateBom(b) == /\ bom = NoBom
                /\ bom' = b
                /\ UNCHANGED <<wo, gl, stockVars>>

UpdateBom(b) == /\ bom # NoBom
                /\ OrdersWith({"released", "in_progress"}) = {}
                /\ bom' = b
                /\ UNCHANGED <<wo, gl, stockVars>>

DeleteBom == /\ bom # NoBom /\ wo = <<>>
             /\ bom' = NoBom
             /\ UNCHANGED <<wo, gl, stockVars>>

\* createWorkOrder takes the estimate of the bill as it is now.
CreateWorkOrder(p, l, q) ==
  /\ bom # NoBom /\ Len(wo) < MaxOrders
  /\ wo' = Append(wo, [status |-> "draft", product |-> p, location |-> l, quantity |-> q,
                       estimated |-> Round(Estimate(bom) * q, bom.yield),
                       actual |-> 0, variance |-> 0, produced |-> 0, materials |-> 0,
                       labor |-> 0, used |-> FALSE, worked |-> FALSE])
  /\ UNCHANGED <<bom, gl, stockVars>>

Step(i, from, to) == /\ wo[i].status = from
                     /\ wo' = [wo EXCEPT ![i].status = to]
                     /\ UNCHANGED <<bom, gl, stockVars>>

ReleaseWorkOrder(i) == Step(i, "draft", "released")
StartWorkOrder(i)   == Step(i, "released", "in_progress")

\* The stock is checked line by line before anything is written, so a product
\* named twice is checked twice against the same stock.
Available(i, lines) ==
  \A l \in ToSet(lines) : StockAt(moves, l.product, wo[i].location) >= l.qty

AssemblyOut(i, lines) ==
  [k \in DOMAIN lines |->
     [product |-> lines[k].product, location |-> wo[i].location, qty |-> -lines[k].qty,
      unit |-> lines[k].unit, total |-> -(lines[k].qty * lines[k].unit),
      type |-> "assembly_out", doc |-> i,
      stale |-> \E j \in 1..k - 1 : lines[j].product = lines[k].product]]

\* recordMaterials, at the unit cost the user sends.
RecordMaterials(i, lines) ==
  /\ wo[i].status = "in_progress"
  /\ Available(i, lines)
  /\ Len(moves) + Len(lines) <= MaxMoves
  /\ moves' = moves \o AssemblyOut(i, lines)
  /\ wo' = [wo EXCEPT ![i].materials = @ + UsageCost(lines), ![i].used = TRUE]
  /\ UNCHANGED <<bom, gl, product, doc, entries, period_open, txn>>

RecordLabor(i, cost) ==
  /\ wo[i].status = "in_progress"
  /\ wo[i].labor + cost <= MaxCost
  /\ wo' = [wo EXCEPT ![i].labor = @ + cost, ![i].worked = TRUE]
  /\ UNCHANGED <<bom, gl, stockVars>>

\* Debit work in progress, credit materials and labour; then, if the account
\* exists, debit finished goods and credit work in progress.
WipEntry(i, found) ==
  LET w == wo[i]  actual == w.materials + w.labor IN
  [gl EXCEPT !["wip"] = @ + actual - (IF "goods" \in found THEN actual ELSE 0),
             !["raw"] = @ - w.materials, !["labor"] = @ - w.labor,
             !["goods"] = @ + (IF "goods" \in found THEN actual ELSE 0)]

Journaled(found) == period_open /\ {"wip", "raw", "labor"} \subseteq found

\* completeWorkOrder.  The debit of work in progress may not be zero
\* (chk_debit_or_credit): an order nothing was recorded on completes only
\* while no entry is written.
CompleteWorkOrder(i, produced, found) ==
  LET w      == wo[i]
      actual == w.materials + w.labor
      unit   == Round(actual, produced) IN
  /\ w.status = "in_progress"
  /\ Len(moves) < MaxMoves
  /\ Journaled(found) => actual > 0
  /\ moves' = Append(moves, [product |-> w.product, location |-> w.location, qty |-> produced,
                             unit |-> unit, total |-> produced * unit,
                             type |-> "assembly_in", doc |-> i, stale |-> FALSE])
  /\ gl' = IF Journaled(found) THEN WipEntry(i, found) ELSE gl
  /\ wo' = [wo EXCEPT ![i].status = "completed", ![i].produced = produced,
                      ![i].actual = actual, ![i].variance = w.estimated - actual]
  /\ UNCHANGED <<bom, product, doc, entries, period_open, txn>>

\* Fault: only the labour is looked at.
CancelWorkOrderFault(i) ==
  /\ ~wo[i].worked /\ wo[i].status # "completed"
  /\ wo' = [wo EXCEPT ![i].status = "cancelled"]
  /\ UNCHANGED <<bom, gl, stockVars>>

CancelWorkOrder(i) ==
  /\ ~wo[i].used /\ ~wo[i].worked /\ wo[i].status # "completed"
  /\ wo' = [wo EXCEPT ![i].status = "cancelled"]
  /\ UNCHANGED <<bom, gl, stockVars>>

OnOrder(i) ==
  \/ ReleaseWorkOrder(i) \/ StartWorkOrder(i) \/ CancelWorkOrder(i)
  \/ \E lines \in LinesOf(Usage) : RecordMaterials(i, lines)
  \/ \E c \in Labor : RecordLabor(i, c)
  \/ \E q \in Produced, found \in SUBSET Accounts : CompleteWorkOrder(i, q, found)

WONext == \/ \E b \in Boms : CreateBom(b) \/ UpdateBom(b)
          \/ DeleteBom
          \/ \E p \in Products, l \in Locations, q \in Produced : CreateWorkOrder(p, l, q)
          \/ \E i \in DOMAIN wo : OnOrder(i)
          \/ Next /\ UNCHANGED <<bom, wo, gl>>

WOSpec == WOInit /\ [][WONext]_vars

-----------------------------------------------------------------------------
(* Properties.                                                             *)

\* Every variable has its type.
WOTypeOK == /\ TypeOK
            /\ bom \in Boms \cup {NoBom}
            /\ ToSet(wo) \subseteq WorkOrder
            /\ gl \in [Accounts -> Int]

Consumed(i) ==
  -Value(SelectSeq(moves, LAMBDA x : x.type = "assembly_out" /\ x.doc = i))

Output(i) == SelectSeq(moves, LAMBDA x : x.type = "assembly_in" /\ x.doc = i)

\* completeWorkOrder and cancelWorkOrder: whatever was recorded on an order in
\* whatever sequence, its usage is what left the stock; a cancelled order used
\* nothing; a completed one put in stock what it produced, once, worth what it
\* cost up to half a cent a unit; and the four accounts balance.
ProductionSettles ==
  /\ \A i \in DOMAIN wo :
       LET w == wo[i] IN
       /\ Consumed(i) = w.materials
       /\ w.status = "cancelled" => w.materials + w.labor = 0 /\ ~w.used
       /\ IF w.status # "completed" THEN Output(i) = <<>>
          ELSE /\ Len(Output(i)) = 1
               /\ LET off == Output(i)[1].total - (w.materials + w.labor)
                  IN  -w.produced <= 2 * off /\ 2 * off <= w.produced
  /\ gl["wip"] + gl["raw"] + gl["labor"] + gl["goods"] = 0
=============================================================================
