------------------------------ MODULE MCSupply ------------------------------
(***************************************************************************)
(* Small instances of Stock, WorkOrders and Purchasing for TLC.  They do   *)
(* not interact, so one run explores them one beside the other: "part"     *)
(* says which instance a behaviour is of, and never changes.  The modules  *)
(* share the variables they have in common; those of the other modules     *)
(* stay empty.                                                             *)
(***************************************************************************)
EXTENDS Integers, Sequences

CONSTANTS shelf, truck, part1, part2, nobom

VARIABLES part, product, moves, doc, entries, period_open, txn, bom, wo, gl,
          order, lines, receipts, received, entry, expenses, has_ap

stockVars == <<product, moves, doc, entries>>
orderVars == <<wo, bom, gl>>
poVars    == <<order, lines, receipts, received, entry, expenses, has_ap>>
vars      == <<part, stockVars, orderVars, poVars, period_open, txn>>

NoStock == product = <<>> /\ moves = <<>> /\ doc = <<>> /\ entries = <<>>
NoWork  == wo = <<>> /\ bom = nobom /\ gl = <<>>
NoOrder == /\ order = <<>> /\ lines = <<>> /\ receipts = 0 /\ received = <<>>
           /\ entry = <<>> /\ expenses = 0 /\ has_ap = FALSE

-----------------------------------------------------------------------------
\* Transfers and counts of one product that overlap.
Race == INSTANCE Stock WITH
  Req <- {1, 2}, Products <- {part1}, Locations <- {shelf, truck}, Methods <- {"average_cost"},
  Coded <- {TRUE}, Open <- BOOLEAN, Variances <- {2}, UnitCosts <- {1}, Quantities <- {2},
  MaxLines <- 1, MaxDocs <- 3, MaxMoves <- 5

\* Layers at two costs, taken from by transfers of one or two units, one or two lines.
Fifo == INSTANCE Stock WITH
  Req <- {1}, Products <- {part1}, Locations <- {shelf, truck}, Methods <- {"fifo"},
  Coded <- {TRUE}, Open <- {FALSE}, Variances <- {2}, UnitCosts <- {2, 5}, Quantities <- {1, 2},
  MaxLines <- 1, MaxDocs <- 4, MaxMoves <- 6

\* Any method, switched at will; lines that repeat a product.
Mixed == INSTANCE Stock WITH
  Req <- {1}, Products <- {part1}, Locations <- {shelf, truck},
  Methods <- {"fifo", "lifo", "average_cost"}, Coded <- BOOLEAN, Open <- {TRUE},
  Variances <- {-1, 3}, UnitCosts <- {1}, Quantities <- {2}, MaxLines <- 2, MaxDocs <- 2,
  MaxMoves <- 6

OneBom == [yield     |-> 2,
           materials |-> <<[qty |-> 1, waste |-> 50, cost |-> 1]>>,
           labor     |-> <<[hours |-> 1, rate |-> 2]>>,
           overhead  |-> <<[type |-> "per_unit", amount |-> 1]>>]

Shop == INSTANCE WorkOrders WITH
  Req <- {1}, Products <- {part1, part2}, Locations <- {shelf}, Methods <- {"average_cost"},
  Coded <- {TRUE}, Open <- BOOLEAN, Variances <- {2}, UnitCosts <- {1}, Quantities <- {1}, MaxLines <- 2, MaxDocs <- 1,
  MaxMoves <- 4, Boms <- {OneBom, [OneBom EXCEPT !.labor = <<>>]}, NoBom <- nobom,
  Usage <- {[product |-> part1, qty |-> 1, unit |-> 3], [product |-> part1, qty |-> 2, unit |-> 1]},
  Labor <- {0, 2}, Produced <- {1, 2}, MaxOrders <- 1, MaxCost <- 2

-----------------------------------------------------------------------------
Goods(n, price, coded) == [ordered |-> n, price |-> price, coded |-> coded]

Take(line, qty) == [line |-> line, qty |-> qty]

AllReceipts == {<<Take(1, 1)>>, <<Take(2, 1)>>, <<Take(1, 2)>>, <<Take(1, 1), Take(1, 1)>>,
                <<Take(1, 1), Take(2, 1)>>}

\* One request at a time: every operation, coded and uncoded lines, a line worth nothing.
Order == INSTANCE Purchasing WITH
  Req <- {1}, Ops <- {"update", "terms", "approve", "send", "receive", "cancel", "expense"},
  OrderLines <- {<<Goods(2, 5, TRUE)>>, <<Goods(2, 5, TRUE), Goods(1, 3, FALSE)>>,
                 <<Goods(2, 5, TRUE), Goods(1, 0, TRUE)>>},
  TaxRates <- {0, 10}, Shipping <- {0, 2}, ReceiptLines <- AllReceipts,
  MaxReceipts <- 3, MaxExpenses <- 1, MaxEdits <- 1

\* Two requests: overlapping receipts of one order, edits, sending and cancelling.
Receipts == INSTANCE Purchasing WITH
  Req <- {1, 2}, Ops <- {"update", "approve", "send", "receive", "cancel"},
  OrderLines <- {<<Goods(2, 5, TRUE), Goods(1, 3, TRUE)>>},
  TaxRates <- {0}, Shipping <- {0}, ReceiptLines <- AllReceipts,
  MaxReceipts <- 2, MaxExpenses <- 0, MaxEdits <- 1

ASSUME SupplyAssumption ==
  /\ Race!StockAssumption /\ Fifo!StockAssumption /\ Mixed!StockAssumption
  /\ Shop!StockAssumption /\ Shop!WorkOrdersAssumption
  /\ Order!PurchasingAssumption /\ Receipts!PurchasingAssumption

Init == \/ part = "race" /\ Race!Init /\ NoWork /\ NoOrder
        \/ part = "fifo" /\ Fifo!Init /\ NoWork /\ NoOrder
        \/ part = "mixed" /\ Mixed!Init /\ NoWork /\ NoOrder
        \/ part = "shop" /\ Shop!WOInit /\ NoOrder
        \/ part = "order" /\ Order!Init /\ NoStock /\ NoWork
        \/ part = "receipts" /\ Receipts!Init /\ NoStock /\ NoWork

Next == \/ part = "race" /\ Race!Next /\ UNCHANGED <<part, orderVars, poVars>>
        \/ part = "fifo" /\ Fifo!Next /\ UNCHANGED <<part, orderVars, poVars>>
        \/ part = "mixed" /\ Mixed!Next /\ UNCHANGED <<part, orderVars, poVars>>
        \/ part = "shop" /\ Shop!WONext /\ UNCHANGED <<part, poVars>>
        \/ part = "order" /\ Order!Next /\ UNCHANGED <<part, stockVars, orderVars>>
        \/ part = "receipts" /\ Receipts!Next /\ UNCHANGED <<part, stockVars, orderVars>>

Spec == Init /\ [][Next]_vars

-----------------------------------------------------------------------------
(* The properties of the instances.                                        *)

\* Every variable has its type.
TypeOK == /\ part = "race" => Race!TypeOK
          /\ part = "fifo" => Fifo!TypeOK
          /\ part = "mixed" => Mixed!TypeOK
          /\ part = "shop" => Shop!WOTypeOK
          /\ part = "order" => Order!TypeOK
          /\ part = "receipts" => Receipts!TypeOK

\* Stock.NegativeExplained, also with the materials of work orders.
NegativeExplained == /\ part = "race" => Race!NegativeExplained
                     /\ part = "fifo" => Fifo!NegativeExplained
                     /\ part = "mixed" => Mixed!NegativeExplained
                     /\ part = "shop" => Shop!NegativeExplained

\* Stock.FifoBooks.
FifoBooks == part = "fifo" => Fifo!FifoBooks

\* Stock.BookedOnce, with overlapping posts.
BookedOnce == part = "race" => Race!BookedOnce

\* WorkOrders.ProductionSettles.
ProductionSettles == part = "shop" => Shop!ProductionSettles

\* Purchasing.ReceiptsAddUp, with overlapping receipts, and one request at a time
\* Purchasing.OrderConsistent and Purchasing.ReceiptEntryBalances.
OrdersAddUp ==
  /\ part = "order" => Order!ReceiptsAddUp /\ Order!OrderConsistent /\ Order!ReceiptEntryBalances
  /\ part = "receipts" => Receipts!ReceiptsAddUp
=============================================================================
