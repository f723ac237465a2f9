---------------------------- MODULE PaymentSplit ----------------------------
(***************************************************************************)
(* How InvoicesService.pay distributes the amount paid over the accounts   *)
(* of the invoice lines.  Amounts are whole cents; shares are computed     *)
(* exactly and rounded half up (the code's doubles round the same way but  *)
(* for representation error at a tie).                                     *)
(***************************************************************************)
EXTENDS Integers, Sequences, FiniteSetsExt, Functions

CONSTANTS Cents,      \* amounts of a line and of a payment
          MaxLines    \* bound on the lines of an invoice

\* What the constants have to satisfy.
SplitAssumption == Cents \subseteq Nat /\ MaxLines \in Nat

VARIABLES
  lines,    \* invoice_lines in sort_order: the amount, and whether account_id is set
  has_ar,   \* account 1100, Accounts Receivable, exists
  entry     \* the posted entry: debit to cash, credit per line, credit to 1100

vars == <<lines, has_ar, entry>>

Coded(i)  == lines[i].coded
LineTotal == SumFunction([i \in DOMAIN lines |-> lines[i].amount])

\* Math.round of n / d.
Round(n, d) == (2 * n + d) \div (2 * d)

Share(i, paid) == Round(paid * lines[i].amount, LineTotal)

CreditedBefore(paid) ==
  LET before == {i \in 1..Len(lines) - 1 : Coded(i)}
  IN  SumFunction([i \in before |-> Share(i, paid)])

\* The credit of line i: its share, and for the last line what is left.
Credit(i, paid) ==
  IF ~Coded(i) THEN 0
  ELSE IF i = Len(lines) THEN paid - CreditedBefore(paid) ELSE Share(i, paid)

Credits(paid)  == [i \in DOMAIN lines |-> Credit(i, paid)]
Credited(paid) == SumFunction(Credits(paid))

\* What goes to 1100; with neither a coded line nor a 1100 the credit falls
\* back to the cash account itself.
ToReceivable(paid) ==
  IF (\E i \in DOMAIN lines : Coded(i)) => has_ar
  THEN Max({paid - Credited(paid), 0}) ELSE 0

NoEntry == [debit |-> 0, credits |-> <<>>, ar |-> 0]

Init == /\ lines = <<>>
        /\ has_ar \in BOOLEAN
        /\ entry = NoEntry

AddLine(amount, coded) ==
  /\ entry = NoEntry /\ Len(lines) < MaxLines
  /\ lines' = Append(lines, [amount |-> amount, coded |-> coded])
  /\ UNCHANGED <<has_ar, entry>>

\* chk_debit_or_credit refuses the entry, and with it the payment, if a coded
\* line is credited nothing or less; a share of an empty total is not a number.
Pay(paid) ==
  /\ entry = NoEntry /\ lines # <<>> /\ paid > 0
  /\ (\E i \in DOMAIN lines : Coded(i)) => LineTotal > 0
  /\ \A i \in DOMAIN lines : Coded(i) => Credit(i, paid) > 0
  /\ entry' = [debit |-> paid, credits |-> Credits(paid), ar |-> ToReceivable(paid)]
  /\ UNCHANGED <<lines, has_ar>>

Next == \/ \E a \in Cents, c \in BOOLEAN : AddLine(a, c)
        \/ \E p \in Cents : Pay(p)

Spec == Init /\ [][Next]_vars

-----------------------------------------------------------------------------
(* Properties.                                                             *)

CreditTotal == entry.ar + SumFunction(entry.credits)
Last        == Len(lines)

\* pay: rounding is the only thing that can unbalance a payment, and only if the
\* last line, which absorbs it, has no account: then the cents rounded up exceed
\* the payment, or there is no 1100 to take what is left.  When every line has an
\* account, each is credited its exact share of the payment up to half a cent,
\* and the last one up to half a cent per line.
FairShares ==
  /\ entry.debit # CreditTotal =>
       ~Coded(Last) /\ (entry.debit < CreditTotal \/ ~has_ar)
  /\ (entry # NoEntry /\ \A i \in DOMAIN lines : Coded(i)) =>
       \A i \in DOMAIN lines :
         LET off == 2 * (entry.credits[i] * LineTotal - entry.debit * lines[i].amount)
             cap == LineTotal * (IF i = Last THEN Last - 1 ELSE 1)
         IN  -cap <= off /\ off <= cap
=============================================================================
