----------------------------- MODULE Receivable -----------------------------
(***************************************************************************)
(* What invoicing promises, with no transactions, numbering, payment       *)
(* provider or journal: a list of invoices, each draft, sent, paid or      *)
(* voided, whose total changes only while it is a draft, together with the *)
(* amount the ledger carries for its payment, which is booked at most once *)
(* and is gone when the invoice is voided.                                 *)
(***************************************************************************)
EXTENDS Naturals, Sequences

CONSTANTS Amount,        \* amounts of money
          Most           \* the most invoices one request issues

VARIABLE doc             \* sequence of invoices

Fresh(total) == [status |-> "draft", total |-> total, booked |-> 0]

Init == doc = <<>>

\* One request may issue several invoices.
Issue == \E n \in 0..Most : \E new \in [1..n -> Amount] :
           doc' = doc \o [k \in 1..n |-> Fresh(new[k])]

Revise(i) == /\ doc[i].status = "draft"
             /\ \E a \in Amount : doc' = [doc EXCEPT ![i].total = a]

Send(i) == /\ doc[i].status = "draft"
           /\ doc' = [doc EXCEPT ![i].status = "sent"]

\* Paid by hand, booked in the ledger or not, or online, never booked.
Settle(i) ==
  /\ doc[i].status \in {"draft", "sent"}
  /\ \E a \in Amount \cup {0} :
       doc' = [doc EXCEPT ![i].status = "paid", ![i].booked = a]

Void(i) == /\ doc[i].status # "voided"
           /\ doc' = [doc EXCEPT ![i].status = "voided", ![i].booked = 0]

Next == Issue \/ \E i \in DOMAIN doc : Revise(i) \/ Send(i) \/ Settle(i) \/ Void(i)

Spec == Init /\ [][Next]_doc
=============================================================================
