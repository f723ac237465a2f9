----------------------------- MODULE MCJournal -----------------------------
(* Small instances of Journal for TLC. *)
EXTENDS Journal, TLC

CONSTANTS r1, r2, jan, feb, cash, sales, nolock, noperiod

\* January ends on day 1, February on day 2.
MCPeriodEnd == [p \in Period |-> IF p = jan THEN 1 ELSE 2]

Ln(a, d, c) == [account |-> a, debit |-> d, credit |-> c]

\* A balanced sale, and one with an empty line, which the CHECK refuses.
Balanced  == <<Ln(cash, 2, 0), Ln(sales, 0, 2)>>
EmptyLine == <<Ln(cash, 2, 0), Ln(sales, 0, 2), Ln(sales, 0, 0)>>

OneSubmission  == {Balanced}
TwoSubmissions == {Balanced, EmptyLine}

Symmetry == Permutations({r1, r2})
=============================================================================
