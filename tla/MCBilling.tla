----------------------------- MODULE MCBilling ------------------------------
(* Small instances of Billing for TLC. *)
EXTENDS Billing, TLC

CONSTANTS r1, r2, c1, c2, nocontent

\* January 31st and November 30th 2023 (month 0 is January), February 29th 2024.
From(frequency, m, d) == [frequency |-> frequency, next |-> [m |-> m, d |-> d],
                          auto_send |-> frequency = "weekly"]
Plans == {From("weekly", 0, 31), From("biweekly", 13, 29), From("monthly", 0, 31),
          From("quarterly", 10, 30), From("annually", 13, 29)}

Symmetry == Permutations({r1, r2}) \cup Permutations({c1, c2})
=============================================================================
