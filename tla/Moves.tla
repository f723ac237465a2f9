-------------------------------- MODULE Moves --------------------------------
(***************************************************************************)
(* What the services do to the status of a document: from which they act,  *)
(* to which.  May says that the handler has other reasons to refuse (an    *)
(* amount, a period, an account, what was recorded before).                *)
(***************************************************************************)
Move(name, from, to)    == [name |-> name, from |-> from, to |-> to, may |-> FALSE]
MayMove(name, from, to) == [name |-> name, from |-> from, to |-> to, may |-> TRUE]

InvoiceMoves ==
    {Move("send", {"draft"}, "sent"),
     MayMove("pay", {"draft", "sent"}, "paid"),
     Move("void", {"draft", "sent", "paid"}, "voided")}

BillMoves ==
    {Move("receive", {"draft"}, "received"),
     Move("approve", {"received"}, "approved"),
     MayMove("pay", {"approved", "received", "partial"}, "partial"),
     MayMove("pay", {"approved", "received", "partial"}, "paid"),
     Move("void", {"draft", "received", "approved", "partial", "paid"}, "voided")}

CreditNoteMoves ==
    {Move("issue", {"draft"}, "issued"),
     MayMove("apply", {"issued"}, "applied"),
     Move("void", {"draft", "issued"}, "voided")}

EstimateMoves ==
    {Move("send", {"draft"}, "sent"),
     Move("accept", {"sent"}, "accepted"),
     Move("reject", {"sent"}, "rejected"),
     Move("convert", {"draft", "sent", "accepted"}, "converted")}

ExpenseMoves ==
    {Move("approve", {"pending"}, "approved"),
     MayMove("post", {"pending", "approved"}, "posted"),
     Move("void", {"pending", "approved", "posted"}, "voided")}

PurchaseOrderMoves ==
    {Move("approve", {"draft", "approved draft"}, "approved draft"),
     Move("send", {"approved draft"}, "sent"),
     MayMove("receive", {"sent", "partial"}, "partial"),
     MayMove("receive", {"sent", "partial"}, "received"),
     Move("cancel", {"draft", "approved draft", "sent", "cancelled"}, "cancelled")}

WorkOrderMoves ==
    {Move("release", {"draft"}, "released"),
     Move("start", {"released"}, "in_progress"),
     MayMove("record-materials", {"in_progress"}, "in_progress"),
     MayMove("record-labor", {"in_progress"}, "in_progress"),
     MayMove("complete", {"in_progress"}, "completed"),
     MayMove("cancel", {"draft", "released", "in_progress", "cancelled"}, "cancelled")}

JournalMoves ==
    {MayMove("post", {"draft"}, "posted"), MayMove("void", {"posted"}, "voided")}

RecurringInvoiceMoves ==
    {Move("pause", {"active"}, "paused"), Move("resume", {"paused"}, "active")}

DealMoves ==
    {Move("win", {"open"}, "won"), Move("lose", {"open"}, "lost")}

AssetMoves ==
    {Move("depreciate", {"active"}, "fully_depreciated"),
     MayMove("dispose", {"active", "fully_depreciated"}, "disposed")}

BankMoves ==
    {MayMove("reconcile", {"unreconciled"}, "reconciled"),
     Move("unreconcile", {"reconciled"}, "unreconciled")}

\* The moves of the document a page shows, and the status it is created with.
Moves ==
    [invoice |-> InvoiceMoves, bill |-> BillMoves, creditNote |-> CreditNoteMoves,
     estimate |-> EstimateMoves, expenses |-> ExpenseMoves, purchaseOrder |-> PurchaseOrderMoves,
     workOrder |-> WorkOrderMoves, journal |-> JournalMoves,
     recurringInvoices |-> RecurringInvoiceMoves, opportunity |-> DealMoves,
     fixedAsset |-> AssetMoves, bankAccount |-> BankMoves]

Created ==
    [invoice |-> "draft", bill |-> "draft", creditNote |-> "draft", estimate |-> "draft",
     expenses |-> "pending", purchaseOrder |-> "draft", workOrder |-> "draft",
     journal |-> "draft", recurringInvoices |-> "active", opportunity |-> "open",
     fixedAsset |-> "active", bankAccount |-> "unreconciled"]
=============================================================================
