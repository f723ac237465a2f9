----------------------------- MODULE MCInvoices -----------------------------
(* Small instances of Invoices for TLC. *)
EXTENDS Invoices, TLC

CONSTANTS r1, r2, jan, noperiod

Sale(subtotal, rate, discount, shipping) ==
  [subtotal |-> subtotal, tax_rate |-> rate, discount |-> discount, shipping |-> shipping]

\* One invoice of 1; or also a batch of two; or a plain one, or one with 10 percent tax,
\* a discount of 20, above the other amount lines are given, and shipping.
SingleBatch == {<<Sale(1, 0, 0, 0)>>}
SomeBatches == {<<Sale(1, 0, 0, 0)>>, <<Sale(1, 0, 0, 0), Sale(1, 0, 0, 0)>>}
TaxedBatch  == {<<Sale(15, 0, 0, 0)>>, <<Sale(40, 10, 20, 1)>>}

Symmetry == Permutations({r1, r2})
=============================================================================
