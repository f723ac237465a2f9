------------------------------- MODULE Ledger -------------------------------
(***************************************************************************)
(* What the general ledger promises, with no transactions, statements or   *)
(* numbering: a book of entries that only grows, in which an entry goes    *)
(* from draft to posted to voided and never back, its period and its lines *)
(* never change, and the step that voids an entry is the one that posts    *)
(* its mirror image.  Journal.tla is shown to implement this module.       *)
(***************************************************************************)
EXTENDS Naturals, Sequences

CONSTANTS Period,       \* fiscal periods
          Lines         \* the sequences of lines that may be written

VARIABLE book           \* sequence of entries, in the order they were written

Swapped(lines) ==
  [i \in DOMAIN lines |-> [lines[i] EXCEPT !.debit  = lines[i].credit,
                                           !.credit = lines[i].debit]]

\* A new entry; "reverses" is the position of the entry a reversal undoes, 0
\* for any other.
Fresh(p, s, ls, rev) ==
  [period |-> p, status |-> s, lines |-> ls, reverses |-> rev]

Init == book = <<>>

Draft == \E p \in Period, ls \in Lines :
           book' = Append(book, Fresh(p, "draft", ls, 0))

PostDirectly == \E p \in Period, ls \in Lines :
                  book' = Append(book, Fresh(p, "posted", ls, 0))

Post(i) == /\ book[i].status = "draft"
           /\ book' = [book EXCEPT ![i].status = "posted"]

Reverse(i) ==
  /\ book[i].status = "posted"
  /\ book' = Append([book EXCEPT ![i].status = "voided"],
                    Fresh(book[i].period, "posted", Swapped(book[i].lines), i))

Next == \/ Draft
        \/ PostDirectly
        \/ \E i \in DOMAIN book : Post(i) \/ Reverse(i)

Spec == Init /\ [][Next]_book
=============================================================================
