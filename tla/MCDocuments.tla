---------------------------- MODULE MCDocuments ----------------------------
(* Small instances of Documents for TLC. *)
EXTENDS Documents, TLC

CONSTANTS r, r1, r2, jan, noperiod

Symmetry == Permutations({r1, r2})

\* Bills: one request at a time, taxed bills of one or two lines, one of them
\* nothing; and two requests that overlap.
SmallBills ==
  <<[req |-> {r}, lines |-> {<<4>>, <<3, 2>>, <<5, 0>>}, rates |-> {0, 10},
     payments |-> 1..6, entries |-> 3],
    [req |-> {r1, r2}, lines |-> {<<1>>, <<2>>}, rates |-> {0}, payments |-> {1}, entries |-> 3]>>

Line(amount, coded) == [amount |-> amount, coded |-> coded]

\* Credit notes: one request at a time, with payments and voids of the
\* invoices; and two requests that overlap.
SmallNotes ==
  <<[req |-> {r}, invoices |-> {1, 2}, rates |-> {0, 50}, totals |-> {2, 6}, payments |-> {1, 7},
     lines |-> {<<Line(3, TRUE)>>, <<Line(1, TRUE), Line(1, TRUE), Line(0, FALSE)>>,
                <<Line(1, FALSE), Line(1, TRUE), Line(1, TRUE)>>, <<Line(1, TRUE), Line(1, TRUE)>>},
     entries |-> 2],
    [req |-> {r1, r2}, invoices |-> {1}, rates |-> {0}, totals |-> {3}, payments |-> {3},
     lines |-> {<<Line(2, TRUE)>>, <<Line(3, TRUE)>>}, entries |-> 2]>>

SmallExpenses == <<[req |-> {r1, r2}, amounts |-> {1, 2}, entries |-> 4]>>

\* Bank accounts: two syncs that overlap, and transactions Plaid shows late; and
\* deposits, withdrawals and rows of nothing, reconciled and unreconciled.
SmallBanks ==
  <<[req |-> {r1, r2}, ops |-> {"create", "sync"}, amounts |-> {1}, window |-> 1, days |-> 3,
     txns |-> 3, feed |-> 2, entries |-> 0, undone |-> 0],
    [req |-> {r1, r2}, ops |-> {"create", "csv", "reconcile"}, amounts |-> {-1, 0, 2},
     window |-> 30, days |-> 1, txns |-> 2, feed |-> 1, entries |-> 2, undone |-> 1]>>

Sale(subtotal) == [subtotal |-> subtotal, tax_rate |-> 0, discount |-> 0, shipping |-> 0]

\* Creates, batches of two, payments and voids of invoices that overlap.
SmallInvoices ==
  [req |-> {r1, r2}, ops |-> {"create", "pay", "void"}, amounts |-> {1}, rates |-> {0},
   batches |-> {<<Sale(1)>>, <<Sale(1), Sale(1)>>}, periods |-> {jan}, no_period |-> noperiod,
   invoices |-> 2, entries |-> 4, sessions |-> 0]
=============================================================================
