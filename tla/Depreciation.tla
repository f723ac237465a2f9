---------------------------- MODULE Depreciation ----------------------------
(***************************************************************************)
(* One fixed asset: editing it, the monthly depreciation run, the schedule *)
(* shown for it, and its disposal.  Amounts are whole cents.               *)
(*                                                                         *)
(* Requests are taken one at a time, so every action is a whole handler;   *)
(* what happens to entry numbers and periods when runs and other writers   *)
(* of the journal overlap is in Journal.tla (the "asset" operation).       *)
(***************************************************************************)
EXTENDS Integers, Sequences, FiniteSetsExt, Functions

CONSTANTS
  Price, Salvage, Life,   \* values of purchase_price, salvage_value, useful_life_months
  Proceeds,               \* values of disposal_price
  Month                   \* the period dates a run may be asked for

\* What the constants have to satisfy.
DepreciationAssumption ==
  /\ Price \subseteq Nat /\ Salvage \subseteq Nat /\ Proceeds \subseteq Nat
  /\ Life \subseteq Nat \ {0}
  /\ Month \subseteq Nat

VARIABLES
  asset,        \* the row of fixed_assets
  dep,          \* its depreciation_entries, by id
  period_open,  \* some fiscal period is open
  reserve,      \* credit balance of its accumulated depreciation account
  disposal,     \* debit and credit total of the disposal entry, and the accounts found
  promised      \* history: the schedule shown when the asset was last edited

vars == <<asset, dep, period_open, reserve, disposal, promised>>

\* The accounts 1000, 4900 and 6900 a disposal looks up.
DisposalAccounts == {"cash", "gain", "loss"}

Method == {"straight_line", "declining_balance"}
Asset  == [price: Price, salvage: Salvage, life: Life, method: Method,
           status: {"active", "fully_depreciated", "disposed"}]
Charge == [month: Month, amount: Nat \ {0}, accumulated: Int, book: Int,
           journaled: BOOLEAN]

-----------------------------------------------------------------------------
(* DepreciationService's arithmetic.                                       *)

\* Math.round of the quotient, in cents.
Rounded(n, d) == (2 * n + d) \div (2 * d)

StraightLine(a) == Rounded(a.price - a.salvage, a.life)

\* Double declining (2 / years, a twelfth of it a month), never below salvage.
DecliningBalance(a, book) ==
  LET monthly == Rounded(2 * book, a.life) IN
  IF book - monthly < a.salvage THEN Max({0, book - a.salvage}) ELSE monthly

MonthlyCharge(a, book) ==
  IF a.method = "straight_line" THEN StraightLine(a) ELSE DecliningBalance(a, book)

Exhausted(a, book) == book <= a.salvage

\* ORDER BY period_date DESC, first.
LastEntry(d) == CHOOSE e \in Range(d) : \A f \in Range(d) : e.month >= f.month

\* Fault: the last charge is taken for the total.
AccumulatedFault(d) == IF d = <<>> THEN 0 ELSE LastEntry(d).amount

Accumulated(d) == IF d = <<>> THEN 0 ELSE LastEntry(d).accumulated

BookValue(a, d) == IF d = <<>> THEN a.price ELSE LastEntry(d).book

\* getDepreciationSchedule: the book value after n charges, from the entries
\* there are up to the asset's useful life.
Schedule(a, d) ==
  LET book[n \in Len(d)..a.life] ==
        IF n = Len(d) THEN BookValue(a, d)
        ELSE book[n - 1] - (IF Exhausted(a, book[n - 1]) THEN 0
                            ELSE MonthlyCharge(a, book[n - 1]))
  IN  book

-----------------------------------------------------------------------------
Init == /\ asset \in {a \in Asset : a.status = "active"}
        /\ dep = <<>>
        /\ period_open \in BOOLEAN
        /\ reserve = 0
        /\ disposal = [debit |-> 0, credit |-> 0, accounts |-> {}]
        /\ promised = Schedule(asset, <<>>)

\* PUT /fixed-assets/:id, active assets only.
Update(salvage, life, method) ==
  /\ asset.status = "active"
  /\ asset' = [asset EXCEPT !.salvage = salvage, !.life = life, !.method = method]
  /\ promised' = Schedule(asset', dep)
  /\ UNCHANGED <<dep, period_open, reserve, disposal>>

Chargeable(amount) == amount > 0

\* A run for month m selects the asset, and has not charged that month yet.
Due(m) == /\ asset.status = "active"
          /\ \A e \in Range(dep) : e.month # m

\* The run finds nothing left to charge.
MarkDepreciated(m) ==
  /\ Due(m)
  /\ Exhausted(asset, BookValue(asset, dep))
  /\ asset' = [asset EXCEPT !.status = "fully_depreciated"]
  /\ UNCHANGED <<dep, period_open, reserve, disposal, promised>>

\* The run charges the month; the journal entry is left out when no fiscal
\* period is open.
ChargeMonth(m) ==
  LET amount      == MonthlyCharge(asset, BookValue(asset, dep))
      accumulated == Accumulated(dep) + amount
      book        == asset.price - accumulated
  IN
  /\ Due(m)
  /\ ~Exhausted(asset, BookValue(asset, dep))
  /\ Chargeable(amount)
  /\ dep' = Append(dep, [month |-> m, amount |-> amount, accumulated |-> accumulated,
                         book |-> book, journaled |-> period_open])
  /\ reserve' = reserve + (IF period_open THEN amount ELSE 0)
  /\ asset' = IF Exhausted(asset, book)
              THEN [asset EXCEPT !.status = "fully_depreciated"] ELSE asset
  /\ UNCHANGED <<period_open, disposal, promised>>

\* Debit cash, accumulated depreciation and a loss, credit the asset and a
\* gain; a line whose account is missing is left out.
DisposalEntry(gain, price, found) ==
  [debit    |-> (IF "cash" \in found THEN price ELSE 0) + Accumulated(dep)
                + (IF gain < 0 /\ "loss" \in found THEN -gain ELSE 0),
   credit   |-> asset.price + (IF gain > 0 /\ "gain" \in found THEN gain ELSE 0),
   accounts |-> found]

\* The line that reverses accumulated depreciation.
ReserveAfterDisposal == reserve - Accumulated(dep)

\* The line that credits the asset may not be zero (chk_debit_or_credit);
\* without an open period there is no entry.
Dispose(price, found) ==
  /\ asset.status # "disposed"
  /\ period_open => asset.price > 0
  /\ asset' = [asset EXCEPT !.status = "disposed"]
  /\ IF period_open
     THEN /\ disposal' = DisposalEntry(price - (asset.price - Accumulated(dep)), price, found)
          /\ reserve' = ReserveAfterDisposal
     ELSE UNCHANGED <<disposal, reserve>>
  /\ UNCHANGED <<dep, period_open, promised>>

\* Periods are opened and closed by operators, outside this code.
TogglePeriod == /\ period_open' = ~period_open
                /\ UNCHANGED <<asset, dep, reserve, disposal, promised>>

Next == \/ \E s \in Salvage, l \in Life, m \in Method : Update(s, l, m)
        \/ \E m \in Month : MarkDepreciated(m) \/ ChargeMonth(m)
        \/ \E p \in Proceeds, found \in SUBSET DisposalAccounts : Dispose(p, found)
        \/ TogglePeriod

Spec == Init /\ [][Next]_vars

-----------------------------------------------------------------------------
(* Properties.                                                             *)

\* Every variable has its type.
TypeOK == /\ asset \in Asset /\ dep \in Seq(Charge)
          /\ period_open \in BOOLEAN
          /\ reserve \in Int
          /\ disposal \in [debit: Nat, credit: Nat, accounts: SUBSET DisposalAccounts]

Charged == SumFunction([i \in DOMAIN dep |-> dep[i].amount])

InOrder == \A i, j \in DOMAIN dep : i < j => dep[i].month < dep[j].month

Unedited == 0 \in DOMAIN promised

\* runDepreciation, getDepreciationSchedule, update: the schedule a user is shown
\* is what the runs then book, charge by charge, until the asset is edited.  As
\* long as the months are run in order, the last entry accounts for all the asset
\* was ever charged.  An asset never edited and charged in order ends as its method
\* says: declining balance at salvage or above; straight line by less than a charge
\* below it and, if that charge is half a cent a month or more, after one month
\* more than its life at most.
ChargesAsShown ==
  InOrder =>
    /\ \A n \in DOMAIN promised : n \in DOMAIN dep => dep[n].book = promised[n]
    /\ Accumulated(dep) = Charged
    /\ (Unedited /\ dep # <<>>) =>
         IF asset.method = "declining_balance"
         THEN BookValue(asset, dep) >= asset.salvage
         ELSE /\ BookValue(asset, dep) > asset.salvage - StraightLine(asset)
              /\ 2 * StraightLine(asset) >= asset.life => Len(dep) <= asset.life + 1

\* disposeAsset: the entry balances when the tenant has all three accounts, for
\* every price; and when every charge reached the journal, in order, it leaves
\* nothing on accumulated depreciation.
DisposalSettles ==
  /\ disposal.accounts = DisposalAccounts => disposal.debit = disposal.credit
  /\ (/\ asset.status = "disposed" /\ disposal.credit > 0 /\ InOrder
      /\ \A i \in DOMAIN dep : dep[i].journaled) => reserve = 0
=============================================================================
