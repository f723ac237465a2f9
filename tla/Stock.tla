------------------------------- MODULE Stock -------------------------------
(***************************************************************************)
(* Inventory: products, adjustments and transfers (InventoryService), and  *)
(* the cost of what leaves a location (InventoryCostingService).  Stock is *)
(* never stored: it is the sum of the moves, the rows of                   *)
(* inventory_transactions, and they are append-only.                       *)
(*                                                                         *)
(* Quantities are whole units and amounts whole cents.  Posting and        *)
(* completing a document take two steps: the request reads the document    *)
(* and the moves, and later writes what follows from them.  Requests in    *)
(* different slots overlap.                                                *)
(*                                                                         *)
(* Assumption: the inventory tables have the columns and the transaction   *)
(* types this service writes (README, "Schema drift").                     *)
(***************************************************************************)
EXTENDS Integers, Sequences, FiniteSets, FiniteSetsExt, SequencesExt

CONSTANTS
  Req,                 \* request slots
  Products, Locations,
  Methods, Coded,      \* what a product may be switched to: costing methods, accounts set
  Open,                \* whether a fiscal period may be open
  Variances,           \* counted minus on hand, of an adjustment line
  UnitCosts,           \* unit costs of an adjustment line
  Quantities,          \* quantities of a transfer line
  MaxLines, MaxDocs, MaxMoves  \* bounds

AllMethods == {"fifo", "lifo", "average_cost"}

\* What the constants have to satisfy.
StockAssumption ==
  /\ Methods \subseteq AllMethods /\ Coded \subseteq BOOLEAN /\ Open \subseteq BOOLEAN
  /\ Variances \subseteq Int /\ UnitCosts \subseteq Nat
  /\ Quantities \subseteq Nat \ {0}
  /\ MaxLines \in Nat /\ MaxDocs \in Nat /\ MaxMoves \in Nat

VARIABLES
  product,      \* products: the costing method, and whether both accounts are set
  moves,        \* inventory_transactions, by id
  doc,          \* adjustments and transfers
  entries,      \* the journal entries of adjustments: the document and the lines; "seen"
                \* is history: how many there were when the request read the document
  period_open,  \* some fiscal period is open
  txn           \* per slot: the document being posted, and how much it read

stockVars == <<product, moves, doc, entries, period_open, txn>>

Product == [method: AllMethods, coded: BOOLEAN]

\* "doc" is reference_id; "stale" is history: other requests wrote moves
\* between this request's reads and its writes.
Move == [product: Products, location: Locations, qty: Int, unit: Int, total: Int,
         type: {"adjustment", "transfer_out", "transfer_in", "assembly_out", "assembly_in"},
         doc: Nat, stale: BOOLEAN]

\* The variance is what remains of the two counts an adjustment line is sent.
AdjustmentLine == [product: Products, location: Locations, variance: Variances,
                   unit: UnitCosts]
TransferLine   == [product: Products, qty: Quantities]

\* Lines of at most MaxLines.
LinesOf(S) == UNION {[1..n -> S] : n \in 1..MaxLines}

Adjustment == [kind: {"adjustment"}, status: {"draft", "posted"},
               lines: LinesOf(AdjustmentLine)]

Transfer == [kind: {"transfer"}, status: {"draft", "completed"},
             from: Locations, to: Locations, lines: LinesOf(TransferLine)]

Idle == [doc |-> 0, seen |-> 0, entries |-> 0]

-----------------------------------------------------------------------------
(* InventoryCostingService.  "m" is a sequence of moves.                   *)

Round(n, d) == (2 * n + d) \div (2 * d)

At(m, p, l) == SelectSeq(m, LAMBDA x : x.product = p /\ x.location = l)

Qty(m)   == FoldLeft(LAMBDA sum, x : sum + x.qty, 0, m)
Value(m) == FoldLeft(LAMBDA sum, x : sum + x.total, 0, m)

\* getStock.
StockAt(m, p, l) == Qty(At(m, p, l))

In(m)      == SelectSeq(m, LAMBDA x : x.qty > 0)
OutQty(m)  == -Qty(SelectSeq(m, LAMBDA x : x.qty < 0))

\* Fault: what was consumed is taken off every layer.
LayersFault(m) ==
  LET in == In(m) IN
  [i \in DOMAIN in |-> [qty  |-> Max({0, in[i].qty - OutQty(m)}),
                        unit |-> in[i].unit]]

\* The receipts with what is left of each: everything consumed so far is taken
\* off the oldest, by both methods.
Layers(m) ==
  LET in == In(m) IN
  [i \in DOMAIN in |->
     [qty  |-> Max({0, Min({in[i].qty, Qty(SubSeq(in, 1, i)) - OutQty(m)})}),
      unit |-> in[i].unit]]

LayerQty(layers) == FoldLeft(LAMBDA sum, x : sum + x.qty, 0, layers)

\* Take q from the layers in their order: the cost of each part is rounded.
Consume(layers, q) ==
  FoldLeft(LAMBDA acc, x : LET take == Min({acc.left, x.qty}) IN
                           [left |-> acc.left - take, cost |-> acc.cost + take * x.unit],
           [left |-> q, cost |-> 0], layers)

\* Whether q can be costed, and the unit cost as a fraction.
Cost(method, m, q) ==
  IF method = "average_cost"
  THEN [enough |-> Qty(m) >= q,
        num    |-> IF Qty(m) > 0 THEN Round(Value(m), Qty(m)) ELSE 0,
        den    |-> 1]
  ELSE LET used == Consume(IF method = "fifo" THEN Layers(m) ELSE Reverse(Layers(m)), q)
       IN  [enough |-> used.left = 0, num |-> used.cost, den |-> q]

-----------------------------------------------------------------------------
Init == /\ product \in [Products -> [method: Methods, coded: Coded]]
        /\ moves = <<>> /\ doc = <<>> /\ entries = <<>>
        /\ period_open \in Open
        /\ txn = [r \in Req |-> Idle]

\* PUT /inventory/products/:id: the costing method may change at any time.
UpdateProduct(p, x) ==
  /\ product' = [product EXCEPT ![p] = x]
  /\ UNCHANGED <<moves, doc, entries, period_open, txn>>

CreateDoc(d) == /\ Len(doc) < MaxDocs
                /\ doc' = Append(doc, d)
                /\ UNCHANGED <<product, moves, entries, period_open, txn>>

CreateAdjustment(lines) ==
  CreateDoc([kind |-> "adjustment", status |-> "draft", lines |-> lines])

\* Fault: the locations are not compared.
CreateTransferFault(from, to, lines) ==
  CreateDoc([kind |-> "transfer", status |-> "draft", from |-> from, to |-> to,
             lines |-> lines])

CreateTransfer(from, to, lines) ==
  /\ from # to
  /\ CreateDoc([kind |-> "transfer", status |-> "draft", from |-> from, to |-> to,
                lines |-> lines])

\* Fault: the status is not looked at.
ReadDocFault(r, d) ==
  /\ txn[r] = Idle
  /\ txn' = [txn EXCEPT ![r] = [doc |-> d, seen |-> Len(moves), entries |-> Len(entries)]]
  /\ UNCHANGED <<product, moves, doc, entries, period_open>>

\* postAdjustment and completeTransfer find the document in draft.
ReadDoc(r, d) ==
  /\ txn[r] = Idle
  /\ doc[d].status = "draft"
  /\ txn' = [txn EXCEPT ![r] = [doc |-> d, seen |-> Len(moves), entries |-> Len(entries)]]
  /\ UNCHANGED <<product, moves, doc, entries, period_open>>

Stale(r) == txn[r].seen # Len(moves)

Finish(r, status) ==
  /\ txn' = [txn EXCEPT ![r] = Idle]
  /\ doc' = [doc EXCEPT ![txn[r].doc].status = status]

Counted(lines)   == SelectSeq(lines, LAMBDA l : l.variance # 0)
LineValue(l)     == l.variance * l.unit
TotalValue(lines) == FoldLeft(LAMBDA sum, l : sum + LineValue(l), 0, lines)

\* The lines an adjustment posts, for products that have both accounts; a line
\* of no value is refused (chk_debit_or_credit).
Booked(lines) == SelectSeq(Counted(lines), LAMBDA l : product[l.product].coded)

AdjustmentMoves(r, lines) ==
  [i \in DOMAIN Counted(lines) |->
     LET l == Counted(lines)[i] IN
     [product |-> l.product, location |-> l.location, qty |-> l.variance, unit |-> l.unit,
      total |-> LineValue(l), type |-> "adjustment", doc |-> txn[r].doc, stale |-> Stale(r)]]

\* postAdjustment writes the moves, and an entry if they have a value and a
\* period is open; the entry's number is read late enough to be free.
PostAdjustment(r) ==
  LET d == doc[txn[r].doc]
      journaled == TotalValue(d.lines) # 0 /\ period_open IN
  /\ txn[r] # Idle /\ d.kind = "adjustment"
  /\ Len(moves) + Len(d.lines) <= MaxMoves
  /\ moves' = moves \o AdjustmentMoves(r, d.lines)
  /\ journaled => \A l \in ToSet(Booked(d.lines)) : LineValue(l) # 0
  /\ entries' = IF journaled
                THEN Append(entries, [doc |-> txn[r].doc, lines |-> Booked(d.lines),
                                      seen |-> txn[r].entries])
                ELSE entries
  /\ Finish(r, "posted")
  /\ UNCHANGED <<product, period_open>>

TransferMoves(r, d, l, cost) ==
  LET move(location, sign, type) ==
        [product |-> l.product, location |-> location, qty |-> sign * l.qty,
         unit |-> Round(cost.num, cost.den), total |-> sign * Round(l.qty * cost.num, cost.den),
         type |-> type, doc |-> txn[r].doc, stale |-> Stale(r)]
  IN  <<move(d.from, -1, "transfer_out"), move(d.to, 1, "transfer_in")>>

\* The moves of a transfer, line by line: each line is costed on the moves the
\* request read and those it has itself written.
Transferred(r, d) ==
  LET read == SubSeq(moves, 1, txn[r].seen) IN
  FoldLeft(LAMBDA acc, l :
             LET cost == Cost(product[l.product].method,
                              At(read \o acc.moves, l.product, d.from), l.qty)
             IN  [ok    |-> acc.ok /\ cost.enough /\ StockAt(read, l.product, d.from) >= l.qty,
                  moves |-> acc.moves \o TransferMoves(r, d, l, cost)],
           [ok |-> TRUE, moves |-> <<>>], d.lines)

\* Fault: the stock is not looked at.
CompleteTransferFault(r) ==
  LET d == doc[txn[r].doc]  t == Transferred(r, d) IN
  /\ txn[r] # Idle /\ d.kind = "transfer"
  /\ Len(moves) + 2 * Len(d.lines) <= MaxMoves
  /\ moves' = moves \o t.moves
  /\ Finish(r, "completed")
  /\ UNCHANGED <<product, entries, period_open>>

CompleteTransfer(r) ==
  LET d == doc[txn[r].doc]  t == Transferred(r, d) IN
  /\ txn[r] # Idle /\ d.kind = "transfer"
  /\ Len(moves) + 2 * Len(d.lines) <= MaxMoves
  /\ t.ok
  /\ moves' = moves \o t.moves
  /\ Finish(r, "completed")
  /\ UNCHANGED <<product, entries, period_open>>

\* A guard throws, a constraint fails or the connection is lost.
Rollback(r) == /\ txn[r] # Idle
               /\ txn' = [txn EXCEPT ![r] = Idle]
               /\ UNCHANGED <<product, moves, doc, entries, period_open>>

\* Periods are opened and closed outside this code.
TogglePeriod == /\ period_open' \in Open
                /\ UNCHANGED <<product, moves, doc, entries, txn>>

Create == \/ \E lines \in LinesOf(AdjustmentLine) : CreateAdjustment(lines)
          \/ \E from, to \in Locations, lines \in LinesOf(TransferLine) :
               CreateTransfer(from, to, lines)

Next == \/ Create
        \/ \E p \in Products, x \in [method: Methods, coded: Coded] : UpdateProduct(p, x)
        \/ \E r \in Req : \/ \E d \in DOMAIN doc : ReadDoc(r, d)
                          \/ PostAdjustment(r) \/ CompleteTransfer(r) \/ Rollback(r)
        \/ TogglePeriod

Spec == Init /\ [][Next]_stockVars

-----------------------------------------------------------------------------
(* Properties.                                                             *)

\* Every variable has its type; a transfer is between two locations.
TypeOK == /\ product \in [Products -> Product]
          /\ ToSet(moves) \subseteq Move
          /\ \A d \in ToSet(doc) : IF d.kind = "adjustment" THEN d \in Adjustment
                                                            ELSE d \in Transfer /\ d.from # d.to
          /\ period_open \in BOOLEAN
          /\ \A r \in Req : txn[r].doc \in 0..Len(doc) /\ txn[r].seen \in 0..Len(moves)

\* completeTransfer ("Validate sufficient stock"): however transfers name and
\* repeat products, a location goes below zero only by a count that lowers it
\* or by a transfer whose stock was read before another request wrote.
NegativeExplained ==
  \A p \in Products, l \in Locations :
    StockAt(moves, p, l) < 0 =>
      \E i \in DOMAIN moves :
        LET x == moves[i] IN
        /\ x.product = p /\ x.location = l /\ x.qty < 0
        /\ x.type = "adjustment" \/ x.stale

\* calculateFifoCost: while a product is costed first in, first out and only
\* transfers take from it, the book value of a location is that of the layers
\* left, up to what rounding a unit cost lost when a layer came in.
FifoBooks ==
  Methods = {"fifo"} =>
    \A p \in Products, l \in Locations :
      LET m == At(moves, p, l)
          lost == FoldLeft(LAMBDA sum, x : sum + x.total - x.qty * x.unit, 0, In(m)) IN
      (\A x \in ToSet(m) : ~x.stale /\ (x.qty < 0 => x.type = "transfer_out")) =>
        Value(m) = FoldLeft(LAMBDA sum, x : sum + x.qty * x.unit, 0, Layers(m)) + lost

\* postAdjustment: an adjustment is in the journal a second time only through a
\* request that had read it before the first entry was written.
BookedOnce ==
  \A i, j \in DOMAIN entries :
    (i < j /\ entries[i].doc = entries[j].doc) => entries[j].seen < i
=============================================================================
