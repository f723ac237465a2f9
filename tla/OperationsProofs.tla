-------------------------- MODULE OperationsProofs --------------------------
(***************************************************************************)
(* What Operations promises of its components, for every value of the      *)
(* parameters.                                                             *)
(*                                                                         *)
(* A section per component, each with an inductive invariant of its own: a *)
(* lemma per action, one for the initial states and one for every step,    *)
(* and what follows from the invariant.  Here are those of a fixed asset,  *)
(* the financial statements and the web client; the others are in          *)
(* OperationsLemmas and OperationsAmounts.  The last section puts them     *)
(* together: part says whose behaviour it is, and the steps are then those *)
(* of that component.                                                      *)
(***************************************************************************)
EXTENDS OperationsLemmas, OperationsAmounts

-----------------------------------------------------------------------------
(* A fixed asset.  The inductive invariant.                                *)

AssetTypesOK ==
  /\ Asset!TypeOK
  /\ \A i \in DOMAIN dep : /\ dep[i].accumulated \in Nat
                           /\ dep[i].book = asset.price - dep[i].accumulated

\* The book value that the terms a leave after one more charge.
AssetAfter(a, book) ==
  book - (IF Asset!Exhausted(a, book) THEN 0 ELSE Asset!MonthlyCharge(a, book))

\* The schedule shown when the asset was last edited, which was after so many
\* charges as it starts with.
AssetPlan ==
  \E first \in Nat :
    /\ first <= Len(dep)
    /\ DOMAIN promised = first..asset.life
    /\ \A n \in DOMAIN promised : promised[n] \in Int
    /\ \A n \in DOMAIN promised :
         n # first => promised[n] = AssetAfter(asset, promised[n - 1])
    /\ first = 0 => promised[first] = asset.price
    /\ Asset!InOrder => \A n \in DOMAIN promised : n \in DOMAIN dep => dep[n].book = promised[n]

\* What is left of an asset whose terms never changed.
AssetLeft ==
  Asset!InOrder /\ Asset!Unedited /\ dep # <<>> =>
    IF asset.method = "declining_balance"
    THEN Asset!BookValue(asset, dep) >= asset.salvage
    ELSE /\ Asset!StraightLine(asset) > 0
         /\ Asset!Accumulated(dep) = Len(dep) * Asset!StraightLine(asset)
         /\ asset.price - (Len(dep) - 1) * Asset!StraightLine(asset) > asset.salvage

AssetJournaled == \A i \in DOMAIN dep : dep[i].journaled

\* The two sides of the disposal, and what is on the reserve.
AssetBooks ==
  /\ Asset!InOrder => Asset!Accumulated(dep) = Asset!Charged
  /\ disposal.accounts = Asset!DisposalAccounts => disposal.debit = disposal.credit
  /\ asset.status # "disposed" => disposal.credit = 0
  /\ Asset!InOrder /\ AssetJournaled =>
       IF asset.status # "disposed" THEN reserve = Asset!Accumulated(dep)
       ELSE disposal.credit > 0 => reserve = 0

AssetIInv == AssetTypesOK /\ AssetPlan /\ AssetLeft /\ AssetBooks

-----------------------------------------------------------------------------
(* Entries and terms.                                                      *)

LEMMA AssetRows ==
  ASSUME AssetTypesOK
  PROVE  /\ asset \in Asset!Asset /\ dep \in Seq(Asset!Charge)
         /\ Len(dep) \in Nat /\ DOMAIN dep = 1..Len(dep) /\ (dep = <<>> <=> Len(dep) = 0)
         /\ \A i \in DOMAIN dep : /\ dep[i] \in Asset!Charge
                                  /\ dep[i].accumulated \in Nat
                                  /\ dep[i].book = asset.price - dep[i].accumulated
  <1>1. asset \in Asset!Asset /\ dep \in Seq(Asset!Charge)
    BY DEF AssetTypesOK, Asset!TypeOK
  <1>2. Len(dep) \in Nat /\ DOMAIN dep = 1..Len(dep) /\ (dep = <<>> <=> Len(dep) = 0)
    BY <1>1, LenProperties, EmptySeq
  <1>3. \A i \in DOMAIN dep : dep[i] \in Asset!Charge
    BY <1>1, <1>2, ElementOfSeq
  <1> QED
    BY <1>1, <1>2, <1>3 DEF AssetTypesOK

LEMMA AssetFields ==
  ASSUME Asset!DepreciationAssumption, NEW a \in Asset!Asset
  PROVE  /\ a.price \in Nat /\ a.salvage \in Nat /\ a.life \in Nat /\ a.life > 0
         /\ a.method \in Asset!Method
         /\ a.status \in {"active", "fully_depreciated", "disposed"}
  BY DEF Asset!DepreciationAssumption, Asset!Asset

\* Of any sequence of charges: the fields of one, and the last of charges in
\* order.
LEMMA AssetChargesOf ==
  ASSUME Asset!DepreciationAssumption, NEW d \in Seq(Asset!Charge)
  PROVE  /\ Len(d) \in Nat /\ DOMAIN d = 1..Len(d) /\ (d = <<>> <=> Len(d) = 0)
         /\ \A i \in DOMAIN d : /\ d[i].month \in Nat /\ d[i].amount \in Nat /\ d[i].amount > 0
                                /\ d[i].book \in Int /\ d[i].journaled \in BOOLEAN
  <1>1. Len(d) \in Nat /\ DOMAIN d = 1..Len(d) /\ (d = <<>> <=> Len(d) = 0)
    BY LenProperties, EmptySeq
  <1>2. \A i \in DOMAIN d : d[i] \in Asset!Charge
    BY <1>1, ElementOfSeq
  <1> QED
    BY <1>1, <1>2 DEF Asset!DepreciationAssumption, Asset!Charge

LEMMA AssetLastOf ==
  ASSUME Asset!DepreciationAssumption, NEW d \in Seq(Asset!Charge), d # <<>>,
         \A i, j \in DOMAIN d : i < j => d[i].month < d[j].month
  PROVE  Asset!LastEntry(d) = d[Len(d)] /\ Len(d) \in DOMAIN d
  <1>1. PICK n \in Nat : n = Len(d) /\ n > 0 /\ DOMAIN d = 1..n
    <2>1. PICK n : n = Len(d)
      OBVIOUS
    <2>2. n \in Nat /\ n # 0 /\ DOMAIN d = 1..n
      BY <2>1, AssetChargesOf
    <2> QED
      BY <2>1, <2>2
  <1>2. n \in DOMAIN d /\ \A i \in DOMAIN d : i # n => i < n
    BY <1>1
  <1>3. \A i \in DOMAIN d : d[i].month \in Nat
    BY AssetChargesOf
  <1>4. \A i \in DOMAIN d : i # n => d[i].month < d[n].month
    BY <1>2
  <1> DEFINE Latest(e) == \A f \in Asset!Range(d) : e.month >= f.month
  <1>5. d[n] \in Asset!Range(d) /\ Latest(d[n])
    BY <1>2, <1>3, <1>4 DEF Asset!Range
  <1>6. ASSUME NEW e \in Asset!Range(d), Latest(e) PROVE e = d[n]
    <2>1. PICK i \in DOMAIN d : e = d[i]
      BY DEF Asset!Range
    <2>2. d[i].month >= d[n].month
      BY <1>5, <1>6, <2>1
    <2>3. i = n
      BY <1>2, <1>3, <1>4, <2>2
    <2> QED
      BY <2>1, <2>3
  <1>7. (CHOOSE e \in Asset!Range(d) : Latest(e)) = d[n]
    <2> HIDE DEF Latest
    <2> QED
      BY <1>5, <1>6
  <1>8. Asset!LastEntry(d) = d[n]
    BY <1>7 DEF Asset!LastEntry
  <1> QED
    BY <1>1, <1>2, <1>8

LEMMA AssetEntry ==
  ASSUME Asset!DepreciationAssumption, AssetTypesOK, NEW i \in DOMAIN dep
  PROVE  /\ dep[i].month \in Nat /\ dep[i].amount \in Nat /\ dep[i].amount > 0
         /\ dep[i].book \in Int /\ dep[i].journaled \in BOOLEAN
  BY AssetRows, AssetChargesOf

LEMMA AssetLast ==
  ASSUME Asset!DepreciationAssumption, AssetTypesOK, Asset!InOrder, dep # <<>>
  PROVE  Asset!LastEntry(dep) = dep[Len(dep)] /\ Len(dep) \in DOMAIN dep
  BY AssetRows, AssetLastOf DEF Asset!InOrder

\* Out of order it is one of them still.
LEMMA AssetLastIn ==
  ASSUME Asset!DepreciationAssumption, AssetTypesOK, dep # <<>>
  PROVE  \E i \in DOMAIN dep : Asset!LastEntry(dep) = dep[i]
  <1>1. PICK K : K = {dep[i].month : i \in DOMAIN dep}
    OBVIOUS
  <1>2. IsFiniteSet(DOMAIN dep)
    <2>1. 1 \in Int /\ Len(dep) \in Int /\ DOMAIN dep = 1..Len(dep)
      BY AssetRows
    <2> QED
      BY <2>1, FS_Interval
  <1>3. IsFiniteSet(K)
    <2>1. PICK f : f = [i \in DOMAIN dep |-> dep[i].month]
      OBVIOUS
    <2>2. f \in Surjection(DOMAIN dep, K)
      BY <1>1, <2>1 DEF Surjection
    <2> QED
      BY <1>2, <2>2, FS_Surjection
  <1>4. K \in SUBSET Nat /\ K # {}
    <2>1. \A i \in DOMAIN dep : dep[i].month \in Nat
      BY AssetEntry
    <2>2. 1 \in DOMAIN dep
      BY AssetRows
    <2> QED
      BY <1>1, <2>1, <2>2
  <1>5. PICK m \in K : \A k \in K : k <= m
    BY <1>3, <1>4, LargestExists
  <1>6. PICK n \in DOMAIN dep : dep[n].month = m
    BY <1>1
  <1> DEFINE Latest(e) == \A f \in Asset!Range(dep) : e.month >= f.month
  <1>7. dep[n] \in Asset!Range(dep) /\ Latest(dep[n])
    <2>1. \A f \in Asset!Range(dep) : f.month \in K
      BY <1>1 DEF Asset!Range
    <2>2. \A k \in K : m >= k
      BY <1>4, <1>5
    <2>3. dep[n] \in Asset!Range(dep)
      BY DEF Asset!Range
    <2> QED
      BY <1>6, <2>1, <2>2, <2>3
  <1>8. (CHOOSE e \in Asset!Range(dep) : Latest(e)) \in Asset!Range(dep)
    <2> HIDE DEF Latest
    <2> QED
      BY <1>7
  <1>9. Asset!LastEntry(dep) \in Asset!Range(dep)
    BY <1>8 DEF Asset!LastEntry
  <1> QED
    BY <1>9 DEF Asset!Range

\* The books so far.
LEMMA AssetSoFar ==
  ASSUME Asset!DepreciationAssumption, AssetTypesOK
  PROVE  /\ Asset!Accumulated(dep) \in Nat /\ asset.price \in Nat
         /\ Asset!BookValue(asset, dep) \in Int
         /\ Asset!BookValue(asset, dep) = asset.price - Asset!Accumulated(dep)
         /\ dep = <<>> => /\ Asset!Accumulated(dep) = 0
                          /\ Asset!BookValue(asset, dep) = asset.price
         /\ Asset!InOrder /\ dep # <<>> =>
              /\ Len(dep) \in DOMAIN dep
              /\ Asset!Accumulated(dep) = dep[Len(dep)].accumulated
              /\ Asset!BookValue(asset, dep) = dep[Len(dep)].book
  <1>1. asset.price \in Nat
    BY AssetRows, AssetFields
  <1>2. CASE dep = <<>>
    BY <1>1, <1>2 DEF Asset!Accumulated, Asset!BookValue
  <1>3. CASE dep # <<>>
    <2>1. PICK i \in DOMAIN dep : Asset!LastEntry(dep) = dep[i]
      BY <1>3, AssetLastIn
    <2>2. Asset!Accumulated(dep) = dep[i].accumulated /\ Asset!BookValue(asset, dep) = dep[i].book
      BY <1>3, <2>1 DEF Asset!Accumulated, Asset!BookValue
    <2>3. dep[i].accumulated \in Nat /\ dep[i].book = asset.price - dep[i].accumulated
      BY AssetRows
    <2>4. Asset!InOrder => /\ Len(dep) \in DOMAIN dep
                           /\ Asset!Accumulated(dep) = dep[Len(dep)].accumulated
                           /\ Asset!BookValue(asset, dep) = dep[Len(dep)].book
      BY <1>3, AssetLast DEF Asset!Accumulated, Asset!BookValue
    <2> QED
      BY <1>1, <1>3, <2>2, <2>3, <2>4
  <1> QED
    BY <1>2, <1>3

-----------------------------------------------------------------------------
(* Charges.                                                                *)

LEMMA AssetMax ==
  ASSUME NEW n \in Int
  PROVE  Asset!Max({0, n}) = IF n > 0 THEN n ELSE 0
  <1>1. PICK m \in {0, n} : \A y \in {0, n} : m >= y
    <2>1. n >= 0 \/ 0 >= n
      OBVIOUS
    <2> QED
      BY <2>1
  <1>2. Asset!Max({0, n}) \in {0, n} /\ \A y \in {0, n} : Asset!Max({0, n}) >= y
    BY <1>1, Zenon DEF Asset!Max
  <1> QED
    BY <1>2

\* Rounding is by half at most.
LEMMA AssetRounded ==
  ASSUME NEW n \in Int, NEW d \in Nat, d > 0
  PROVE  /\ Asset!Rounded(n, d) \in Int
         /\ 2 * n < 2 * (d * Asset!Rounded(n, d)) + d
  <1>1. PICK q : q = (2 * n + d) \div (2 * d) /\ q = Asset!Rounded(n, d)
    BY DEF Asset!Rounded
  <1>2. q \in Int /\ 2 * n < 2 * (d * q) + d
    BY <1>1, RoundedQuotient
  <1> QED
    BY <1>1, <1>2

LEMMA AssetCharge ==
  ASSUME Asset!DepreciationAssumption, NEW a \in Asset!Asset, NEW book \in Int
  PROVE  /\ Asset!StraightLine(a) \in Int /\ Asset!MonthlyCharge(a, book) \in Int
         /\ AssetAfter(a, book) \in Int
         /\ 2 * (a.price - a.salvage) < 2 * (a.life * Asset!StraightLine(a)) + a.life
         /\ ~Asset!Exhausted(a, book) /\ a.method = "declining_balance"
              => book - Asset!MonthlyCharge(a, book) >= a.salvage
  <1>1. PICK p \in Nat, s \in Nat, l \in Nat : p = a.price /\ s = a.salvage /\ l = a.life /\ l > 0
    BY AssetFields
  <1>2. p - s \in Int /\ 2 * book \in Int
    OBVIOUS
  <1>3. /\ Asset!StraightLine(a) \in Int
        /\ 2 * (p - s) < 2 * (l * Asset!StraightLine(a)) + l
    BY <1>1, <1>2, AssetRounded DEF Asset!StraightLine
  <1>4. PICK m \in Int : m = Asset!Rounded(2 * book, l)
    BY <1>1, <1>2, AssetRounded
  <1>5. Asset!DecliningBalance(a, book) = IF book - m < s THEN Asset!Max({0, book - s}) ELSE m
    BY <1>1, <1>4 DEF Asset!DecliningBalance
  <1>6. book - s \in Int /\ Asset!Max({0, book - s}) = IF book - s > 0 THEN book - s ELSE 0
    <2>1. book - s \in Int
      OBVIOUS
    <2> QED
      BY <2>1, AssetMax
  <1>7. Asset!MonthlyCharge(a, book) \in Int
    BY <1>3, <1>5, <1>6 DEF Asset!MonthlyCharge
  <1>8. ASSUME ~Asset!Exhausted(a, book), a.method = "declining_balance"
        PROVE  book - Asset!MonthlyCharge(a, book) >= a.salvage
    <2>1. book > s
      BY <1>1, <1>8 DEF Asset!Exhausted
    <2>2. Asset!MonthlyCharge(a, book) = IF book - m < s THEN book - s ELSE m
      BY <1>5, <1>6, <1>8, <2>1 DEF Asset!MonthlyCharge
    <2> QED
      BY <1>1, <2>2
  <1>9. AssetAfter(a, book) \in Int
    BY <1>7 DEF AssetAfter
  <1> QED
    BY <1>1, <1>3, <1>7, <1>8, <1>9

\* The schedule that is shown.
LEMMA AssetSchedule ==
  ASSUME Asset!DepreciationAssumption, NEW a \in Asset!Asset, NEW d, Len(d) \in Nat,
         Asset!BookValue(a, d) \in Int, NEW g, g = Asset!Schedule(a, d)
  PROVE  /\ DOMAIN g = Len(d)..a.life
         /\ \A n \in DOMAIN g : g[n] \in Int
         /\ \A n \in DOMAIN g : n # Len(d) => g[n] = AssetAfter(a, g[n - 1])
         /\ \A n \in DOMAIN g : n = Len(d) => g[n] = Asset!BookValue(a, d)
  <1> DEFINE Books(b) == b = [n \in Len(d)..a.life |->
                                IF n = Len(d) THEN Asset!BookValue(a, d)
                                ELSE b[n - 1] - (IF Asset!Exhausted(a, b[n - 1]) THEN 0
                                                 ELSE Asset!MonthlyCharge(a, b[n - 1]))]
  <1>1. g = CHOOSE b : Books(b)
    BY Zenon DEF Asset!Schedule
  <1>2. PICK step : step = [x \in Int |-> AssetAfter(a, x)]
    OBVIOUS
  <1>3. \A x \in Int : step[x] = AssetAfter(a, x) /\ step[x] \in Int
    BY <1>2, AssetCharge
  <1>4. PICK s \in Nat, z \in Nat, v \in Int :
               s = Len(d) /\ z = a.life /\ v = Asset!BookValue(a, d)
    BY AssetFields
  <1>5. PICK h : Iterates(h, s, z, v, step)
    <2>1. \A n \in Int : step[n] \in Int
      BY <1>3
    <2> QED
      BY <1>4, <2>1, IterationExists
  <1>6. \A n \in s..z : n # s => n - 1 \in s..z
    BY <1>4
  <1>7. ASSUME NEW b, Books(b) PROVE \A n \in s..z : n # s => b[n] = AssetAfter(a, b[n - 1])
    BY <1>4, <1>7, Zenon DEF AssetAfter
  <1>8. h = [n \in s..z |-> IF n = s THEN v ELSE AssetAfter(a, h[n - 1])]
    <2>1. \A n \in s..z : h[n] = IF n = s THEN v ELSE AssetAfter(a, h[n - 1])
      BY <1>3, <1>5, <1>6 DEF Iterates
    <2>2. h = [n \in s..z |-> h[n]]
      BY <1>5 DEF Iterates
    <2> QED
      BY <2>1, <2>2
  <1>9. Books(h)
    BY <1>4, <1>8, Zenon DEF AssetAfter
  <1>10. Books(g)
    <2> HIDE DEF Books
    <2> QED
      BY <1>1, <1>9, Zenon
  <1>11. DOMAIN g = s..z /\ \A n \in s..z : n = s => g[n] = v
    BY <1>4, <1>10
  <1>12. ASSUME NEW n \in s..z PROVE g[n] = h[n]
    <2> DEFINE K == {k \in Nat : k \in s..z /\ g[k] # h[k]}
    <2>1. ASSUME K # {} PROVE FALSE
      <3>1. PICK m \in K : \A k \in K : m <= k
        <4>1. K \in SUBSET Nat
          OBVIOUS
        <4> HIDE DEF K
        <4> QED
          BY <2>1, <4>1, LeastExists
      <3>2. m \in s..z /\ g[m] # h[m]
        OBVIOUS
      <3>3. m # s
        BY <1>5, <1>11, <3>2 DEF Iterates
      <3>4. m - 1 \in s..z /\ m - 1 \in Nat /\ ~(m <= m - 1)
        BY <1>6, <3>2, <3>3
      <3>5. g[m - 1] = h[m - 1]
        BY <3>1, <3>4
      <3>6. g[m] = AssetAfter(a, g[m - 1])
        BY <1>7, <1>10, <3>2, <3>3
      <3>7. h[m] = AssetAfter(a, h[m - 1])
        BY <1>8, <3>2, <3>3
      <3> QED
        BY <3>2, <3>5, <3>6, <3>7
    <2>2. n \in Nat
      OBVIOUS
    <2> QED
      BY <2>1, <2>2
  <1>13. \A n \in s..z : n # s => g[n] = AssetAfter(a, g[n - 1])
    BY <1>7, <1>10
  <1> QED
    BY <1>4, <1>5, <1>11, <1>12, <1>13 DEF Iterates

-----------------------------------------------------------------------------
(* Steps.                                                                  *)

\* The library's sum of the charges.
LEMMA AssetSum ==
  ASSUME Asset!DepreciationAssumption, NEW d \in Seq(Asset!Charge),
         NEW h, h = [i \in DOMAIN d |-> d[i].amount]
  PROVE  /\ Asset!SumFunction(h) = SumOver(h, DOMAIN d) /\ IsFiniteSet(DOMAIN d)
         /\ \A i \in DOMAIN d : h[i] \in Nat /\ h[i] = d[i].amount
  <1>1. Asset!SumFunction(h) = SumFunctionOnSet(h, DOMAIN h)
    BY Zenon DEF Asset!SumFunction, Asset!SumFunctionOnSet, Asset!FoldFunctionOnSet,
                 Asset!MapThenFoldSet, SumFunctionOnSet, FoldFunctionOnSet, MapThenFoldSet
  <1>2. IsFiniteSet(DOMAIN d)
    <2>1. 1 \in Int /\ Len(d) \in Int /\ DOMAIN d = 1..Len(d)
      BY AssetChargesOf
    <2> QED
      BY <2>1, FS_Interval
  <1>3. DOMAIN h = DOMAIN d
    OBVIOUS
  <1> QED
    BY <1>1, <1>2, <1>3, SumFunctionIs, AssetChargesOf

LEMMA AssetCharged ==
  ASSUME Asset!DepreciationAssumption, AssetTypesOK,
         NEW h, h = [i \in DOMAIN dep |-> dep[i].amount]
  PROVE  /\ Asset!Charged = SumOver(h, DOMAIN dep) /\ IsFiniteSet(DOMAIN dep)
         /\ \A i \in DOMAIN dep : h[i] \in Nat /\ h[i] = dep[i].amount
  <1>1. Asset!Charged = Asset!SumFunction(h)
    BY Zenon DEF Asset!Charged
  <1> QED
    BY <1>1, AssetRows, AssetSum

\* What a request or an operator changes besides the charges made.
LEMMA AssetSame ==
  ASSUME UNCHANGED dep
  PROVE  /\ Asset!InOrder' = Asset!InOrder /\ AssetJournaled' = AssetJournaled
         /\ Asset!Charged' = Asset!Charged /\ Asset!Accumulated(dep)' = Asset!Accumulated(dep)
         /\ Asset!LastEntry(dep)' = Asset!LastEntry(dep)
  <1>1. Asset!InOrder' = Asset!InOrder /\ AssetJournaled' = AssetJournaled
    BY DEF Asset!InOrder, AssetJournaled
  <1>2. Asset!LastEntry(dep)' = Asset!LastEntry(dep)
    BY Zenon DEF Asset!LastEntry, Asset!Range
  <1>3. Asset!Accumulated(dep)' = Asset!Accumulated(dep)
    BY <1>2 DEF Asset!Accumulated
  <1>4. Asset!Charged' = Asset!Charged
    BY Zenon DEF Asset!Charged
  <1> QED
    BY <1>1, <1>2, <1>3, <1>4

\* Two rows with the same terms.
AssetSameTerms(a, b) == /\ a.price = b.price /\ a.salvage = b.salvage
                        /\ a.life = b.life /\ a.method = b.method

LEMMA AssetTerms ==
  ASSUME NEW a, NEW b, AssetSameTerms(a, b)
  PROVE  /\ Asset!StraightLine(a) = Asset!StraightLine(b)
         /\ \A book : /\ AssetAfter(a, book) = AssetAfter(b, book)
                      /\ Asset!Exhausted(a, book) = Asset!Exhausted(b, book)
         /\ \A d : Asset!BookValue(a, d) = Asset!BookValue(b, d)
  BY DEF AssetSameTerms, AssetAfter, Asset!Exhausted, Asset!MonthlyCharge, Asset!StraightLine,
         Asset!DecliningBalance, Asset!BookValue

\* With the charges and the terms, the plan stays.
LEMMA AssetPlanStays ==
  ASSUME AssetPlan, UNCHANGED <<dep, promised>>, AssetSameTerms(asset', asset)
  PROVE  AssetPlan'
  <1>1. PICK first \in Nat :
               /\ first <= Len(dep)
               /\ DOMAIN promised = first..asset.life
               /\ \A n \in DOMAIN promised : promised[n] \in Int
               /\ \A n \in DOMAIN promised :
                    n # first => promised[n] = AssetAfter(asset, promised[n - 1])
               /\ first = 0 => promised[first] = asset.price
               /\ Asset!InOrder =>
                    \A n \in DOMAIN promised : n \in DOMAIN dep => dep[n].book = promised[n]
    BY DEF AssetPlan
  <1>2. PICK a, b : a = asset /\ b = asset'
    OBVIOUS
  <1>3. a.life = b.life /\ a.price = b.price /\ \A book : AssetAfter(b, book) = AssetAfter(a, book)
    BY <1>2, AssetTerms DEF AssetSameTerms
  <1>4. Asset!InOrder' = Asset!InOrder
    BY AssetSame
  <1>5. \A n \in DOMAIN promised : AssetAfter(asset', promised'[n - 1]) = AssetAfter(a, promised[n - 1])
    BY <1>2, <1>3
  <1>6. \A n \in DOMAIN promised :
          n # first => promised'[n] = AssetAfter(asset', promised'[n - 1])
    BY <1>1, <1>2, <1>5
  <1>7. AssetPlan' <=>
          \E f \in Nat :
            /\ f <= Len(dep')
            /\ DOMAIN promised' = f..asset'.life
            /\ \A n \in DOMAIN promised' : promised'[n] \in Int
            /\ \A n \in DOMAIN promised' :
                 n # f => promised'[n] = AssetAfter(asset', promised'[n - 1])
            /\ f = 0 => promised'[f] = asset'.price
            /\ Asset!InOrder' =>
                 \A n \in DOMAIN promised' : n \in DOMAIN dep' => dep'[n].book = promised'[n]
    BY Zenon DEF AssetPlan, AssetAfter, Asset!Exhausted, Asset!MonthlyCharge, Asset!StraightLine,
                 Asset!DecliningBalance, Asset!Max, Asset!Rounded
  <1>8. /\ first <= Len(dep')
        /\ DOMAIN promised' = first..asset'.life
        /\ \A n \in DOMAIN promised' : promised'[n] \in Int
        /\ first = 0 => promised'[first] = asset'.price
        /\ Asset!InOrder' =>
             \A n \in DOMAIN promised' : n \in DOMAIN dep' => dep'[n].book = promised'[n]
    BY <1>1, <1>2, <1>3, <1>4
  <1>9. DOMAIN promised' = DOMAIN promised
    OBVIOUS
  <1> QED
    BY <1>6, <1>7, <1>8, <1>9, Zenon

LEMMA AssetLeftStays ==
  ASSUME AssetLeft, UNCHANGED <<dep, promised>>, AssetSameTerms(asset', asset)
  PROVE  AssetLeft'
  <1>1. /\ Asset!InOrder' = Asset!InOrder /\ Asset!Unedited' = Asset!Unedited
        /\ Asset!Accumulated(dep)' = Asset!Accumulated(dep)
    BY AssetSame DEF Asset!Unedited
  <1>2. PICK a, b : a = asset /\ b = asset'
    OBVIOUS
  <1>3. /\ Asset!StraightLine(a) = Asset!StraightLine(b)
        /\ Asset!BookValue(a, dep) = Asset!BookValue(b, dep)
        /\ b.price = a.price /\ b.salvage = a.salvage /\ b.method = a.method
    BY <1>2, AssetTerms DEF AssetSameTerms
  <1>4. /\ Asset!StraightLine(asset)' = Asset!StraightLine(a)
        /\ Asset!BookValue(asset, dep)' = Asset!BookValue(a, dep)
    <2>1. Asset!StraightLine(asset)' = Asset!StraightLine(b)
      BY <1>2 DEF Asset!StraightLine, Asset!Rounded
    <2>2. Asset!BookValue(asset, dep)' = Asset!BookValue(b, dep)
      BY <1>2, AssetSame DEF Asset!BookValue
    <2> QED
      BY <1>3, <2>1, <2>2
  <1> QED
    BY <1>1, <1>2, <1>3, <1>4 DEF AssetLeft

\* A row with another status.
LEMMA AssetStatus ==
  ASSUME NEW a \in Asset!Asset, NEW to \in {"active", "fully_depreciated", "disposed"},
         NEW b, b = [a EXCEPT !.status = to]
  PROVE  b \in Asset!Asset /\ AssetSameTerms(b, a) /\ b.status = to
  BY DEF Asset!Asset, AssetSameTerms

LEMMA AssetInitIInv ==
  ASSUME Asset!DepreciationAssumption, Asset!Init
  PROVE  AssetIInv
  <1>1. /\ asset \in Asset!Asset /\ asset.status = "active" /\ dep = <<>>
        /\ period_open \in BOOLEAN /\ reserve = 0
        /\ disposal = [debit |-> 0, credit |-> 0, accounts |-> {}]
        /\ promised = Asset!Schedule(asset, dep)
    BY DEF Asset!Init
  <1>2. AssetTypesOK
    <2>1. dep \in Seq(Asset!Charge) /\ DOMAIN dep = {}
      BY <1>1
    <2>2. disposal \in [debit: Nat, credit: Nat, accounts: SUBSET Asset!DisposalAccounts]
      BY <1>1
    <2> QED
      BY <1>1, <2>1, <2>2 DEF AssetTypesOK, Asset!TypeOK
  <1>3. Len(dep) = 0 /\ DOMAIN dep = {} /\ 0 \in Nat
    BY <1>1
  <1>4. /\ Asset!Accumulated(dep) = 0 /\ asset.price \in Nat
        /\ Asset!BookValue(asset, dep) = asset.price /\ Asset!BookValue(asset, dep) \in Int
    BY <1>1, <1>2, AssetSoFar
  <1>5. PICK g : g = promised
    OBVIOUS
  <1>6. /\ DOMAIN g = Len(dep)..asset.life
        /\ \A n \in DOMAIN g : g[n] \in Int
        /\ \A n \in DOMAIN g : n # Len(dep) => g[n] = AssetAfter(asset, g[n - 1])
        /\ \A n \in DOMAIN g : n = Len(dep) => g[n] = Asset!BookValue(asset, dep)
    <2>1. Len(dep) \in Nat /\ g = Asset!Schedule(asset, dep)
      BY <1>1, <1>3, <1>5
    <2> QED
      BY <1>1, <1>4, <2>1, AssetSchedule
  <1>7. AssetPlan
    <2>1. 0 \in DOMAIN g
      <3>1. asset.life \in Nat
        BY <1>1, AssetFields
      <3> QED
        BY <1>3, <1>6, <3>1
    <2> QED
      BY <1>3, <1>4, <1>5, <1>6, <2>1 DEF AssetPlan
  <1>8. AssetLeft
    BY <1>1 DEF AssetLeft
  <1>9. AssetBooks
    <2>1. Asset!Charged = 0
      <3>1. PICK h : h = [i \in DOMAIN dep |-> dep[i].amount]
        OBVIOUS
      <3> QED
        BY <1>2, <1>3, <3>1, AssetCharged, SumEmpty
    <2>2. Asset!DisposalAccounts # {}
      BY DEF Asset!DisposalAccounts
    <2> QED
      BY <1>1, <1>4, <2>1, <2>2 DEF AssetBooks
  <1> QED
    BY <1>2, <1>7, <1>8, <1>9 DEF AssetIInv

LEMMA AssetUpdate ==
  ASSUME Asset!DepreciationAssumption, AssetIInv, NEW s \in AssetCase.salvages,
         NEW l \in AssetCase.lives, NEW m \in Asset!Method, Asset!Update(s, l, m)
  PROVE  AssetIInv'
  <1>1. PICK a, b : a = asset /\ b = [a EXCEPT !.salvage = s, !.life = l, !.method = m]
    OBVIOUS
  <1>2. /\ asset' = b /\ UNCHANGED <<dep, period_open, reserve, disposal>>
        /\ promised' = Asset!Schedule(b, dep)
    <2>1. asset' = b /\ UNCHANGED <<dep, period_open, reserve, disposal>>
      BY <1>1 DEF Asset!Update
    <2>2. promised' = Asset!Schedule(asset', dep)
      BY DEF Asset!Update
    <2> QED
      BY <2>1, <2>2
  <1>3. b \in Asset!Asset /\ b.price = a.price /\ b.status = a.status
    <2>1. a \in Asset!Asset
      BY <1>1, AssetRows DEF AssetIInv
    <2> QED
      BY <1>1, <2>1 DEF Asset!Asset
  <1>4. AssetTypesOK'
    BY <1>1, <1>2, <1>3 DEF AssetIInv, AssetTypesOK, Asset!TypeOK
  <1>5. /\ Len(dep) \in Nat /\ DOMAIN dep = 1..Len(dep) /\ a.price \in Nat
        /\ Asset!BookValue(a, dep) = Asset!BookValue(b, dep)
        /\ Asset!BookValue(b, dep) \in Int
        /\ dep = <<>> => Asset!BookValue(b, dep) = a.price
        /\ Asset!InOrder /\ dep # <<>> => Asset!BookValue(b, dep) = dep[Len(dep)].book
        /\ dep = <<>> <=> Len(dep) = 0
    <2>1. Asset!BookValue(a, dep) = Asset!BookValue(b, dep)
      BY <1>3 DEF Asset!BookValue
    <2> QED
      BY <1>1, <2>1, AssetSoFar, AssetRows DEF AssetIInv
  <1>6. PICK g : g = promised'
    OBVIOUS
  <1>7. /\ DOMAIN g = Len(dep)..b.life
        /\ \A n \in DOMAIN g : g[n] \in Int
        /\ \A n \in DOMAIN g : n # Len(dep) => g[n] = AssetAfter(b, g[n - 1])
        /\ \A n \in DOMAIN g : n = Len(dep) => g[n] = Asset!BookValue(b, dep)
    <2>1. g = Asset!Schedule(b, dep)
      BY <1>2, <1>6
    <2> QED
      BY <1>3, <1>5, <2>1, AssetSchedule
  <1>8. b.life \in Nat
    BY <1>3, AssetFields
  <1>9. /\ Len(dep) = 0 => Len(dep) \in DOMAIN g
        /\ \A n \in DOMAIN g : n \in DOMAIN dep => n = Len(dep) /\ dep # <<>>
    BY <1>5, <1>7, <1>8
  <1>10. AssetPlan'
    <2>1. AssetPlan' <=>
            \E f \in Nat :
              /\ f <= Len(dep')
              /\ DOMAIN promised' = f..asset'.life
              /\ \A n \in DOMAIN promised' : promised'[n] \in Int
              /\ \A n \in DOMAIN promised' :
                   n # f => promised'[n] = AssetAfter(asset', promised'[n - 1])
              /\ f = 0 => promised'[f] = asset'.price
              /\ Asset!InOrder' =>
                   \A n \in DOMAIN promised' : n \in DOMAIN dep' => dep'[n].book = promised'[n]
      BY Zenon DEF AssetPlan, AssetAfter, Asset!Exhausted, Asset!MonthlyCharge,
                   Asset!StraightLine, Asset!DecliningBalance, Asset!Max, Asset!Rounded
    <2>2. PICK f \in Nat : f = Len(dep)
      BY <1>5
    <2>3. /\ f <= Len(dep')
          /\ DOMAIN promised' = f..asset'.life
          /\ \A n \in DOMAIN promised' : promised'[n] \in Int
          /\ \A n \in DOMAIN promised' :
               n # f => promised'[n] = AssetAfter(asset', promised'[n - 1])
          /\ f = 0 => promised'[f] = asset'.price
      BY <1>2, <1>3, <1>5, <1>6, <1>7, <1>9, <2>2
    <2>4. Asset!InOrder' =>
            \A n \in DOMAIN promised' : n \in DOMAIN dep' => dep'[n].book = promised'[n]
      BY <1>2, <1>5, <1>6, <1>7, <1>9, AssetSame
    <2> QED
      BY <2>1, <2>3, <2>4, Zenon
  <1>11. AssetLeft'
    <2>1. Asset!Unedited' => Len(dep) = 0
      BY <1>5, <1>6, <1>7 DEF Asset!Unedited
    <2> QED
      BY <1>2, <1>5, <2>1 DEF AssetLeft
  <1>12. AssetBooks'
    BY <1>1, <1>2, <1>3, AssetSame DEF AssetIInv, AssetBooks
  <1> QED
    BY <1>4, <1>10, <1>11, <1>12 DEF AssetIInv

LEMMA AssetMarkDepreciated ==
  ASSUME Asset!DepreciationAssumption, AssetIInv, NEW m \in AssetCase.months,
         Asset!MarkDepreciated(m)
  PROVE  AssetIInv'
  <1>1. PICK a, b : a = asset /\ b = [a EXCEPT !.status = "fully_depreciated"]
    OBVIOUS
  <1>2. /\ asset' = b /\ UNCHANGED <<dep, period_open, reserve, disposal, promised>>
        /\ a.status = "active" /\ a \in Asset!Asset
    BY <1>1, AssetRows DEF AssetIInv, Asset!MarkDepreciated, Asset!Due
  <1>3. b \in Asset!Asset /\ AssetSameTerms(b, a) /\ b.status = "fully_depreciated"
    BY <1>1, <1>2, AssetStatus
  <1>4. AssetTypesOK'
    BY <1>1, <1>2, <1>3 DEF AssetIInv, AssetTypesOK, Asset!TypeOK, AssetSameTerms
  <1>5. AssetSameTerms(asset', asset)
    BY <1>1, <1>2, <1>3
  <1>6. AssetPlan' /\ AssetLeft'
    BY <1>2, <1>5, AssetPlanStays, AssetLeftStays DEF AssetIInv
  <1>7. AssetBooks'
    BY <1>1, <1>2, <1>3, AssetSame DEF AssetIInv, AssetBooks
  <1> QED
    BY <1>4, <1>6, <1>7 DEF AssetIInv

LEMMA AssetTogglePeriod ==
  ASSUME Asset!DepreciationAssumption, AssetIInv,
         \/ Asset!TogglePeriod
         \/ UNCHANGED Asset!vars
  PROVE  AssetIInv'
  <1>1. UNCHANGED <<asset, dep, reserve, disposal, promised>> /\ period_open' \in BOOLEAN
    BY DEF Asset!TogglePeriod, Asset!vars, AssetIInv, AssetTypesOK, Asset!TypeOK
  <1>2. AssetTypesOK'
    BY <1>1 DEF AssetIInv, AssetTypesOK, Asset!TypeOK
  <1>3. AssetSameTerms(asset', asset)
    BY <1>1 DEF AssetSameTerms
  <1>4. AssetPlan' /\ AssetLeft'
    BY <1>1, <1>3, AssetPlanStays, AssetLeftStays DEF AssetIInv
  <1>5. AssetBooks'
    BY <1>1, AssetSame DEF AssetIInv, AssetBooks
  <1> QED
    BY <1>2, <1>4, <1>5 DEF AssetIInv

LEMMA AssetDispose ==
  ASSUME Asset!DepreciationAssumption, AssetIInv, NEW p \in AssetCase.proceeds,
         NEW found \in SUBSET Asset!DisposalAccounts, Asset!Dispose(p, found)
  PROVE  AssetIInv'
  <1>1. PICK a, b : a = asset /\ b = [a EXCEPT !.status = "disposed"]
    OBVIOUS
  <1>2. /\ asset' = b /\ UNCHANGED <<dep, period_open, promised>>
        /\ a.status # "disposed" /\ a \in Asset!Asset
    BY <1>1, AssetRows DEF AssetIInv, Asset!Dispose
  <1>3. b \in Asset!Asset /\ AssetSameTerms(b, a) /\ b.status = "disposed"
    BY <1>1, <1>2, AssetStatus
  <1>4. PICK w \in Nat, v \in Nat, x \in Nat :
               w = Asset!Accumulated(dep) /\ v = a.price /\ x = p
    BY <1>1, AssetSoFar DEF AssetIInv, Asset!DepreciationAssumption
  <1>5. PICK gain \in Int : gain = x - (v - w)
    <2>1. x - (v - w) \in Int
      OBVIOUS
    <2> QED
      BY <2>1
  <1>6. CASE period_open
    <2>1. /\ disposal' = Asset!DisposalEntry(gain, p, found)
          /\ reserve' = reserve - w /\ v > 0
      BY <1>1, <1>4, <1>5, <1>6 DEF Asset!Dispose, Asset!ReserveAfterDisposal
    <2>2. PICK debit, credit :
            /\ debit = (IF "cash" \in found THEN x ELSE 0) + w
                         + (IF gain < 0 /\ "loss" \in found THEN -gain ELSE 0)
            /\ credit = v + (IF gain > 0 /\ "gain" \in found THEN gain ELSE 0)
      OBVIOUS
    <2>3. disposal' = [debit |-> debit, credit |-> credit, accounts |-> found]
      BY <1>1, <1>4, <2>1, <2>2 DEF Asset!DisposalEntry
    <2>4. debit \in Nat /\ credit \in Nat /\ credit > 0
      BY <1>4, <1>5, <2>1, <2>2
    <2>5. found = Asset!DisposalAccounts => debit = credit
      BY <1>4, <1>5, <2>2 DEF Asset!DisposalAccounts
    <2>6. disposal' \in [debit: Nat, credit: Nat, accounts: SUBSET Asset!DisposalAccounts]
      BY <2>3, <2>4
    <2>7. AssetTypesOK'
      BY <1>1, <1>2, <1>3, <1>4, <2>1, <2>6
      DEF AssetIInv, AssetTypesOK, Asset!TypeOK, AssetSameTerms
    <2>8. AssetBooks'
      <3>1. Asset!InOrder /\ AssetJournaled => reserve' = 0
        BY <1>1, <1>2, <1>4, <2>1 DEF AssetIInv, AssetBooks
      <3> QED
        BY <1>2, <1>3, <2>3, <2>5, <3>1, AssetSame DEF AssetIInv, AssetBooks
    <2> QED
      BY <1>1, <1>2, <1>3, <2>7, <2>8, AssetPlanStays, AssetLeftStays DEF AssetIInv
  <1>7. CASE ~period_open
    <2>1. UNCHANGED <<disposal, reserve>>
      BY <1>7 DEF Asset!Dispose
    <2>2. AssetTypesOK'
      BY <1>1, <1>2, <1>3, <2>1 DEF AssetIInv, AssetTypesOK, Asset!TypeOK, AssetSameTerms
    <2>3. AssetBooks'
      <3>1. disposal'.credit = 0
        BY <1>1, <1>2, <2>1 DEF AssetIInv, AssetBooks
      <3> QED
        BY <1>2, <1>3, <2>1, <3>1, AssetSame DEF AssetIInv, AssetBooks
    <2> QED
      BY <1>1, <1>2, <1>3, <2>2, <2>3, AssetPlanStays, AssetLeftStays DEF AssetIInv
  <1> QED
    BY <1>6, <1>7

\* A charge e at the end of the entries.
LEMMA AssetAppend ==
  ASSUME Asset!DepreciationAssumption, AssetTypesOK, AssetTypesOK',
         NEW e, dep' = Append(dep, e)
  PROVE  /\ Len(dep') = Len(dep) + 1 /\ dep' # <<>>
         /\ \A i \in DOMAIN dep : i \in DOMAIN dep' /\ dep'[i] = dep[i] /\ i <= Len(dep)
         /\ \A i \in DOMAIN dep' : i \in DOMAIN dep \/ i = Len(dep) + 1
         /\ dep'[Len(dep) + 1] = e /\ Len(dep) + 1 \in DOMAIN dep'
         /\ Asset!InOrder' => Asset!InOrder
         /\ Asset!InOrder' => Asset!Accumulated(dep)' = e.accumulated
         /\ Asset!InOrder' => Asset!LastEntry(dep)' = e
         /\ Asset!Charged' = Asset!Charged + e.amount /\ Asset!Charged \in Int
         /\ AssetJournaled' => AssetJournaled /\ e.journaled
  <1>1. PICK n \in Nat : n = Len(dep) /\ DOMAIN dep = 1..n
    BY AssetRows
  <1>2. /\ Len(dep') = n + 1 /\ DOMAIN dep' = 1..(n + 1) /\ dep'[n + 1] = e
        /\ \A i \in 1..n : dep'[i] = dep[i]
    <2>1. dep \in Seq(Asset!Charge) /\ dep' \in Seq(Asset!Charge)
      BY DEF AssetTypesOK, Asset!TypeOK
    <2> QED
      BY <1>1, <2>1, AppendProperties, LenProperties
  <1>3. /\ \A i \in DOMAIN dep : i \in DOMAIN dep' /\ dep'[i] = dep[i] /\ i <= n
        /\ \A i \in DOMAIN dep' : i \in DOMAIN dep \/ i = n + 1
        /\ n + 1 \in DOMAIN dep'
    BY <1>1, <1>2
  <1>4. dep' # <<>>
    BY <1>2
  <1>5. Asset!InOrder' => Asset!InOrder
    BY <1>3 DEF Asset!InOrder
  <1>6. ASSUME Asset!InOrder' PROVE Asset!LastEntry(dep)' = e
    <2>1. PICK d : d = dep'
      OBVIOUS
    <2>2. d \in Seq(Asset!Charge) /\ d # <<>>
      BY <1>4, <2>1 DEF AssetTypesOK, Asset!TypeOK
    <2>3. \A i, j \in DOMAIN d : i < j => d[i].month < d[j].month
      BY <1>6, <2>1 DEF Asset!InOrder
    <2>4. Asset!LastEntry(d) = d[Len(d)]
      BY <2>2, <2>3, AssetLastOf
    <2>5. Asset!LastEntry(dep)' = Asset!LastEntry(d)
      BY <2>1, Zenon DEF Asset!LastEntry, Asset!Range
    <2> QED
      BY <1>2, <2>1, <2>4, <2>5
  <1>7. Asset!InOrder' => Asset!Accumulated(dep)' = e.accumulated
    BY <1>4, <1>6 DEF Asset!Accumulated
  <1>8. Asset!Charged' = Asset!Charged + e.amount /\ Asset!Charged \in Int
    <2>1. PICK h, g : /\ h = [i \in DOMAIN dep |-> dep[i].amount]
                      /\ g = [i \in DOMAIN dep' |-> dep'[i].amount]
      OBVIOUS
    <2>2. Asset!Charged = SumOver(h, 1..n) /\ \A i \in 1..n : h[i] \in Nat /\ h[i] = dep[i].amount
      BY <1>1, <2>1, AssetCharged
    <2>3. /\ Asset!Charged' = SumOver(g, 1..(n + 1))
          /\ \A i \in 1..(n + 1) : g[i] \in Nat /\ g[i] = dep'[i].amount
      <3>1. dep' \in Seq(Asset!Charge)
        BY DEF AssetTypesOK, Asset!TypeOK
      <3>2. Asset!Charged' = Asset!SumFunction(g)
        <4>1. Asset!Charged' = Asset!SumFunction([i \in DOMAIN dep' |-> dep'[i].amount])
          BY DEF Asset!Charged
        <4> QED
          BY <2>1, <4>1, Zenon
      <3> QED
        BY <1>2, <2>1, <3>1, <3>2, AssetSum
    <2>4. \A i \in 1..n : g[i] = h[i] /\ h[i] \in Int
      BY <1>1, <1>2, <1>3, <2>2, <2>3
    <2>5. g[n + 1] \in Int /\ g[n + 1] = e.amount
      BY <1>2, <2>3
    <2>6. SumOver(h, 1..n) \in Int /\ SumOver(g, 1..(n + 1)) = SumOver(h, 1..n) + g[n + 1]
      BY <2>4, <2>5, SumAppend
    <2> QED
      BY <2>2, <2>3, <2>5, <2>6
  <1>9. AssetJournaled' => AssetJournaled /\ e.journaled
    BY <1>2, <1>3 DEF AssetJournaled
  <1> QED
    BY <1>1, <1>2, <1>3, <1>4, <1>5, <1>6, <1>7, <1>8, <1>9

LEMMA AssetChargeMonth ==
  ASSUME Asset!DepreciationAssumption, AssetIInv, NEW month \in AssetCase.months,
         Asset!ChargeMonth(month)
  PROVE  AssetIInv'
  <1>1. PICK a, b : a = asset /\ b = asset'
    OBVIOUS
  <1>2. PICK w \in Nat, p \in Nat, s \in Nat :
               w = Asset!Accumulated(dep) /\ p = a.price /\ s = a.salvage
    BY <1>1, AssetSoFar, AssetRows, AssetFields DEF AssetIInv
  <1>3. PICK v \in Int : v = Asset!BookValue(a, dep) /\ v = p - w
    BY <1>1, <1>2, AssetSoFar DEF AssetIInv
  <1>4. a \in Asset!Asset
    BY <1>1, AssetRows DEF AssetIInv
  <1>5. PICK m \in Nat : m = Asset!MonthlyCharge(a, v) /\ m > 0 /\ ~Asset!Exhausted(a, v) /\ v > s
    <2>1. Asset!MonthlyCharge(a, v) \in Int
      BY <1>4, AssetCharge
    <2>2. Asset!MonthlyCharge(a, v) > 0 /\ ~Asset!Exhausted(a, v)
      BY <1>1, <1>3 DEF Asset!ChargeMonth, Asset!Chargeable
    <2> QED
      BY <1>2, <1>3, <2>1, <2>2 DEF Asset!Exhausted
  <1>6. PICK e : e = [month |-> month, amount |-> m, accumulated |-> w + m, book |-> p - (w + m),
                      journaled |-> period_open]
    OBVIOUS
  <1>7. /\ dep' = Append(dep, e) /\ UNCHANGED <<period_open, disposal, promised>>
        /\ reserve' = reserve + (IF period_open THEN m ELSE 0)
        /\ a.status = "active"
        /\ b = IF Asset!Exhausted(a, p - (w + m)) THEN [a EXCEPT !.status = "fully_depreciated"] ELSE a
    BY <1>1, <1>2, <1>3, <1>5, <1>6 DEF Asset!ChargeMonth, Asset!Due
  <1>8. b \in Asset!Asset /\ AssetSameTerms(b, a) /\ b.status # "disposed"
    <2>1. CASE b = a
      BY <1>4, <1>7, <2>1 DEF AssetSameTerms
    <2>2. CASE b = [a EXCEPT !.status = "fully_depreciated"]
      BY <1>4, <2>2, AssetStatus
    <2> QED
      BY <1>7, <2>1, <2>2
  <1>9. e \in Asset!Charge /\ e.accumulated \in Nat /\ e.book = p - e.accumulated
    <2>1. period_open \in BOOLEAN /\ reserve \in Int
      BY DEF AssetIInv, AssetTypesOK, Asset!TypeOK
    <2>2. w + m \in Nat /\ p - (w + m) \in Int /\ m \in Nat \ {0}
      BY <1>5
    <2> QED
      BY <1>6, <2>1, <2>2 DEF Asset!Charge
  <1>10. AssetTypesOK'
    <2>1. dep' \in Seq(Asset!Charge) /\ dep \in Seq(Asset!Charge)
      BY <1>7, <1>9, AssetRows, AppendProperties DEF AssetIInv
    <2>2. reserve' \in Int
      BY <1>7 DEF AssetIInv, AssetTypesOK, Asset!TypeOK
    <2>3. Asset!TypeOK'
      BY <1>1, <1>7, <1>8, <2>1, <2>2 DEF AssetIInv, AssetTypesOK, Asset!TypeOK
    <2>4. \A i \in DOMAIN dep' : \/ i \in DOMAIN dep /\ dep'[i] = dep[i]
                                 \/ dep'[i] = e
      BY <1>7, <2>1, AppendProperties, LenProperties
    <2>5. b.price = p
      BY <1>2, <1>8 DEF AssetSameTerms
    <2>6. \A i \in DOMAIN dep : /\ dep[i].accumulated \in Nat
                                /\ dep[i].book = p - dep[i].accumulated
      BY <1>1, <1>2, AssetRows DEF AssetIInv
    <2> QED
      BY <1>1, <1>9, <2>3, <2>4, <2>5, <2>6 DEF AssetTypesOK
  <1>11. PICK n \in Nat : n = Len(dep) /\ DOMAIN dep = 1..n /\ (dep = <<>> <=> n = 0)
    BY AssetRows DEF AssetIInv
  <1>12. /\ Len(dep') = n + 1 /\ dep' # <<>>
         /\ \A i \in DOMAIN dep : i \in DOMAIN dep' /\ dep'[i] = dep[i] /\ i <= n
         /\ \A i \in DOMAIN dep' : i \in DOMAIN dep \/ i = n + 1
         /\ dep'[n + 1] = e
         /\ Asset!InOrder' => /\ Asset!InOrder
                              /\ Asset!Accumulated(dep)' = w + m
                              /\ Asset!LastEntry(dep)' = e
         /\ Asset!Charged' = Asset!Charged + m /\ Asset!Charged \in Int
         /\ AssetJournaled' => AssetJournaled /\ period_open
    BY <1>6, <1>7, <1>10, <1>11, AssetAppend DEF AssetIInv
  <1>13. AssetPlan'
    <2>1. PICK first \in Nat :
                 /\ first <= Len(dep)
                 /\ DOMAIN promised = first..asset.life
                 /\ \A k \in DOMAIN promised : promised[k] \in Int
                 /\ \A k \in DOMAIN promised :
                      k # first => promised[k] = AssetAfter(asset, promised[k - 1])
                 /\ first = 0 => promised[first] = asset.price
                 /\ Asset!InOrder =>
                      \A k \in DOMAIN promised : k \in DOMAIN dep => dep[k].book = promised[k]
      BY DEF AssetIInv, AssetPlan
    <2>2. AssetPlan' <=>
            \E f \in Nat :
              /\ f <= Len(dep')
              /\ DOMAIN promised' = f..asset'.life
              /\ \A k \in DOMAIN promised' : promised'[k] \in Int
              /\ \A k \in DOMAIN promised' :
                   k # f => promised'[k] = AssetAfter(asset', promised'[k - 1])
              /\ f = 0 => promised'[f] = asset'.price
              /\ Asset!InOrder' =>
                   \A k \in DOMAIN promised' : k \in DOMAIN dep' => dep'[k].book = promised'[k]
      BY Zenon DEF AssetPlan, AssetAfter, Asset!Exhausted, Asset!MonthlyCharge,
                   Asset!StraightLine, Asset!DecliningBalance, Asset!Max, Asset!Rounded
    <2>3. /\ \A book : AssetAfter(b, book) = AssetAfter(a, book)
          /\ b.life = a.life /\ b.price = a.price
      BY <1>8, AssetTerms DEF AssetSameTerms
    <2>4. ASSUME Asset!InOrder', n + 1 \in DOMAIN promised PROVE e.book = promised[n + 1]
      <3>1. n \in DOMAIN promised /\ n + 1 # first
        <4>1. a.life \in Nat
          BY <1>4, AssetFields
        <4> QED
          BY <1>1, <1>11, <2>1, <2>4, <4>1
      <3>2. promised[n] = v
        <4>1. CASE n = 0
          <5>1. first = 0
            BY <1>11, <2>1, <4>1
          <5>2. v = p
            BY <1>1, <1>2, <1>3, <1>11, <4>1, AssetSoFar DEF AssetIInv
          <5> QED
            BY <1>1, <1>2, <2>1, <4>1, <5>1, <5>2
        <4>2. CASE n # 0
          <5>1. n \in DOMAIN dep
            BY <1>11, <4>2
          <5>2. v = dep[n].book
            BY <1>1, <1>3, <1>11, <1>12, <2>4, <4>2, AssetSoFar DEF AssetIInv
          <5> QED
            BY <1>12, <2>1, <2>4, <3>1, <5>1, <5>2
        <4> QED
          BY <4>1, <4>2
      <3>3. n + 1 - 1 = n
        OBVIOUS
      <3>4. promised[n + 1] = AssetAfter(a, v)
        BY <1>1, <2>1, <2>4, <3>1, <3>2, <3>3
      <3>5. AssetAfter(a, v) = v - m
        BY <1>5 DEF AssetAfter
      <3>6. e.book = p - (w + m)
        BY <1>6
      <3> QED
        BY <1>3, <3>4, <3>5, <3>6
    <2>5. /\ first <= Len(dep')
          /\ DOMAIN promised' = first..asset'.life
          /\ \A k \in DOMAIN promised' : promised'[k] \in Int
          /\ first = 0 => promised'[first] = asset'.price
      BY <1>1, <1>7, <1>11, <1>12, <2>1, <2>3
    <2>6. \A k \in DOMAIN promised' :
            k # first => promised'[k] = AssetAfter(asset', promised'[k - 1])
      BY <1>1, <1>7, <2>1, <2>3
    <2>7. Asset!InOrder' =>
            \A k \in DOMAIN promised' : k \in DOMAIN dep' => dep'[k].book = promised'[k]
      BY <1>7, <1>12, <2>1, <2>4
    <2> QED
      BY <2>2, <2>5, <2>6, <2>7, Zenon
  <1>14. AssetLeft'
    <2>1. PICK sl \in Int : sl = Asset!StraightLine(a)
      BY <1>4, AssetCharge
    <2>2. Asset!StraightLine(asset)' = sl
      <3>1. Asset!StraightLine(asset)' = Asset!StraightLine(b)
        BY <1>1 DEF Asset!StraightLine, Asset!Rounded
      <3> QED
        BY <1>8, <2>1, <3>1, AssetTerms
    <2>3. b.price = p /\ b.salvage = s /\ b.method = a.method
      BY <1>2, <1>8 DEF AssetSameTerms
    <2>4. ASSUME Asset!InOrder', Asset!Unedited'
          PROVE  IF asset'.method = "declining_balance"
                 THEN Asset!BookValue(asset, dep)' >= asset'.salvage
                 ELSE /\ sl > 0
                      /\ Asset!Accumulated(dep)' = Len(dep') * sl
                      /\ asset'.price - (Len(dep') - 1) * sl > asset'.salvage
      <3>1. Asset!BookValue(asset, dep)' = p - (w + m)
        <4>1. Asset!BookValue(asset, dep)' = e.book
          BY <1>12, <2>4 DEF Asset!BookValue
        <4> QED
          BY <1>6, <4>1
      <3>2. CASE a.method = "declining_balance"
        <4>1. v - m >= s
          BY <1>2, <1>4, <1>5, <3>2, AssetCharge
        <4>2. p - (w + m) >= s
          BY <1>2, <1>3, <1>5, <4>1
        <4> QED
          BY <1>1, <2>3, <3>1, <3>2, <4>2
      <3>3. CASE a.method # "declining_balance"
        <4>1. m = sl
          <5>1. a.method = "straight_line"
            BY <1>4, <3>3, AssetFields DEF Asset!Method
          <5> QED
            BY <1>5, <2>1, <5>1 DEF Asset!MonthlyCharge
        <4>2. w = n * sl
          <5>1. CASE dep = <<>>
            <6>1. w = 0 /\ n = 0
              BY <1>2, <1>11, <5>1, AssetSoFar DEF AssetIInv
            <6> QED
              BY <6>1
          <5>2. CASE dep # <<>>
            <6>1. Asset!InOrder /\ Asset!Unedited
              BY <1>7, <1>12, <2>4 DEF Asset!Unedited
            <6> QED
              BY <1>1, <1>2, <1>11, <2>1, <3>3, <5>2, <6>1 DEF AssetIInv, AssetLeft
          <5> QED
            BY <5>1, <5>2
        <4>3. w + m = (n + 1) * sl
          BY <4>1, <4>2
        <4>4. (n + 1 - 1) * sl = w
          BY <4>2
        <4>5. p - w > s
          BY <1>3, <1>5
        <4>6. /\ Asset!Accumulated(dep)' = Len(dep') * sl
              /\ asset'.price - (Len(dep') - 1) * sl > asset'.salvage
          BY <1>1, <1>12, <2>3, <2>4, <4>3, <4>4, <4>5
        <4> QED
          BY <1>1, <1>5, <2>3, <3>3, <4>1, <4>6
      <3> QED
        BY <3>2, <3>3
    <2> QED
      BY <2>2, <2>4 DEF AssetLeft
  <1>15. AssetBooks'
    <2>1. Asset!InOrder' => Asset!Accumulated(dep)' = Asset!Charged'
      BY <1>2, <1>12 DEF AssetIInv, AssetBooks
    <2>2. Asset!InOrder' /\ AssetJournaled' => reserve' = Asset!Accumulated(dep)'
      BY <1>1, <1>2, <1>7, <1>12 DEF AssetIInv, AssetBooks
    <2> QED
      BY <1>1, <1>7, <1>8, <2>1, <2>2 DEF AssetIInv, AssetBooks
  <1> QED
    BY <1>10, <1>13, <1>14, <1>15 DEF AssetIInv

LEMMA AssetNextStep ==
  ASSUME Asset!DepreciationAssumption, AssetIInv, Asset!Next \/ UNCHANGED Asset!vars
  PROVE  AssetIInv'
  <1>1. CASE Asset!Next
    BY <1>1, AssetUpdate, AssetMarkDepreciated, AssetChargeMonth, AssetDispose, AssetTogglePeriod
    DEF Asset!Next
  <1>2. CASE UNCHANGED Asset!vars
    BY <1>2, AssetTogglePeriod
  <1> QED
    BY <1>1, <1>2

-----------------------------------------------------------------------------
(* What a user was shown, and the end of an asset.                         *)

\* Charges of at least half a cent per month of the life use it up in that many
\* months, or one more.
LEMMA AssetLife ==
  ASSUME NEW x \in Int, NEW life \in Nat, NEW sl \in Int, NEW k \in Nat, life > 0, sl > 0,
         2 * x < 2 * (life * sl) + life, k * sl < x, 2 * sl >= life
  PROVE  k <= life
  <1>1. ASSUME k > life PROVE FALSE
    <2>1. k >= life + 1
      BY <1>1
    <2>2. PICK d \in Nat : k = life + 1 + d
      <3>1. k - (life + 1) \in Nat
        BY <2>1
      <3>2. k = life + 1 + (k - (life + 1))
        OBVIOUS
      <3> QED
        BY <3>1, <3>2
    <2>3. PICK u \in Int : u = life * sl
      OBVIOUS
    <2>4. PICK t \in Nat : t = d * sl
      OBVIOUS
    <2>5. k * sl = u + sl + t
      BY <2>2, <2>3, <2>4
    <2>6. 2 * x < 2 * u + life
      BY <2>3
    <2> QED
      BY <2>4, <2>5, <2>6
  <1> QED
    BY <1>1

LEMMA AssetShown ==
  ASSUME Asset!DepreciationAssumption, AssetIInv
  PROVE  Asset!ChargesAsShown
  <1>1. ASSUME Asset!InOrder
        PROVE  \A n \in DOMAIN promised : n \in DOMAIN dep => dep[n].book = promised[n]
    BY <1>1 DEF AssetIInv, AssetPlan
  <1>2. Asset!InOrder => Asset!Accumulated(dep) = Asset!Charged
    BY DEF AssetIInv, AssetBooks
  <1>3. ASSUME Asset!InOrder, Asset!Unedited, dep # <<>>, asset.method # "declining_balance"
        PROVE  /\ Asset!BookValue(asset, dep) > asset.salvage - Asset!StraightLine(asset)
               /\ 2 * Asset!StraightLine(asset) >= asset.life => Len(dep) <= asset.life + 1
    <2>1. asset \in Asset!Asset
      BY AssetRows DEF AssetIInv
    <2>2. PICK p \in Nat, s \in Nat, life \in Nat :
                 p = asset.price /\ s = asset.salvage /\ life = asset.life /\ life > 0
      BY <2>1, AssetFields
    <2>3. PICK sl \in Int : /\ sl = Asset!StraightLine(asset)
                            /\ 2 * (p - s) < 2 * (life * sl) + life
      <3>1. 0 \in Int
        OBVIOUS
      <3> QED
        BY <2>1, <2>2, <3>1, AssetCharge
    <2>4. PICK k \in Nat : Len(dep) = k + 1
      <3>1. Len(dep) \in Nat /\ Len(dep) # 0
        BY <1>3, AssetRows DEF AssetIInv
      <3>2. Len(dep) - 1 \in Nat /\ Len(dep) = (Len(dep) - 1) + 1
        BY <3>1
      <3> QED
        BY <3>2
    <2>5. /\ sl > 0 /\ Asset!Accumulated(dep) = (k + 1) * sl
          /\ p - (k + 1 - 1) * sl > s
      BY <1>3, <2>2, <2>3, <2>4 DEF AssetIInv, AssetLeft
    <2>6. PICK u \in Int : u = k * sl
      OBVIOUS
    <2>7. (k + 1) * sl = u + sl /\ (k + 1 - 1) * sl = u
      BY <2>6
    <2>8. Asset!BookValue(asset, dep) = p - Asset!Accumulated(dep)
      BY <2>2, AssetSoFar DEF AssetIInv
    <2>9. Asset!BookValue(asset, dep) = p - (u + sl) /\ p - u > s
      BY <2>5, <2>7, <2>8
    <2>10. Asset!BookValue(asset, dep) > s - sl
      BY <2>9
    <2>11. ASSUME 2 * sl >= life PROVE k <= life
      <3>1. p - s \in Int /\ k * sl < p - s
        BY <2>6, <2>9
      <3> QED
        BY <2>2, <2>3, <2>5, <2>11, <3>1, AssetLife
    <2> QED
      BY <2>2, <2>3, <2>4, <2>10, <2>11
  <1>4. Asset!InOrder /\ Asset!Unedited /\ dep # <<>> /\ asset.method = "declining_balance"
          => Asset!BookValue(asset, dep) >= asset.salvage
    BY DEF AssetIInv, AssetLeft
  <1> QED
    BY <1>1, <1>2, <1>3, <1>4 DEF Asset!ChargesAsShown

LEMMA AssetDisposed ==
  ASSUME AssetIInv
  PROVE  Asset!DisposalSettles
  BY DEF AssetIInv, AssetBooks, AssetJournaled, Asset!DisposalSettles

-----------------------------------------------------------------------------
(* Financial statements.  Entries and their lines.                         *)

\* The library's sums and finite sets.
LEMMA StatementSum ==
  ASSUME NEW h
  PROVE  Statements!SumFunction(h) = SumOver(h, DOMAIN h)
  <1>1. Statements!SumFunction(h) = SumFunctionOnSet(h, DOMAIN h)
    BY Zenon DEF Statements!SumFunction, Statements!SumFunctionOnSet, Statements!FoldFunctionOnSet,
                 Statements!MapThenFoldSet, SumFunctionOnSet, FoldFunctionOnSet, MapThenFoldSet
  <1> QED
    BY <1>1, SumFunctionIs

LEMMA StatementFinite ==
  ASSUME NEW S
  PROVE  Statements!IsFiniteSet(S) <=> IsFiniteSet(S)
  BY Zenon DEF Statements!IsFiniteSet, IsFiniteSet

\* What create accepts.
StatementEntry(e) == /\ e \subseteq Statements!Line /\ IsFiniteSet(e)
                     /\ Statements!Debits(e) = Statements!Credits(e)

LEMMA StatementLine ==
  ASSUME NEW l \in Statements!Line
  PROVE  l.account \in StatementCase.codes /\ l.debit \in Nat /\ l.credit \in Nat
  BY DEF Statements!Line

LEMMA StatementSides ==
  ASSUME NEW e
  PROVE  /\ Statements!Debits(e) = SumOver([l \in e |-> l.debit], e)
         /\ Statements!Credits(e) = SumOver([l \in e |-> l.credit], e)
  <1>1. PICK d, k : d = [l \in e |-> l.debit] /\ k = [l \in e |-> l.credit]
    OBVIOUS
  <1>2. Statements!Debits(e) = Statements!SumFunction(d) /\ Statements!Credits(e) = Statements!SumFunction(k)
    BY <1>1, Zenon DEF Statements!Debits, Statements!Credits
  <1>3. DOMAIN d = e /\ DOMAIN k = e
    BY <1>1
  <1> QED
    BY <1>1, <1>2, <1>3, StatementSum

LEMMA StatementMoved ==
  ASSUME NEW K, NEW e
  PROVE  Statements!Moved(K, e) = SumOver([l \in e |-> IF l.account \in K THEN l.debit - l.credit ELSE 0], e)
  <1>1. PICK d : d = [l \in e |-> IF l.account \in K THEN l.debit - l.credit ELSE 0]
    OBVIOUS
  <1>2. Statements!Moved(K, e) = Statements!SumFunction(d)
    BY <1>1, Zenon DEF Statements!Moved
  <1>3. DOMAIN d = e
    BY <1>1
  <1> QED
    BY <1>1, <1>2, <1>3, StatementSum

\* Reversing an entry exchanges its sides.
LEMMA StatementReversed ==
  ASSUME NEW e, StatementEntry(e)
  PROVE  StatementEntry(Statements!Reversal(e))
  <1>1. PICK r : r = [l \in e |-> [account |-> l.account, debit |-> l.credit, credit |-> l.debit]]
    OBVIOUS
  <1>2. PICK R : R = Statements!Reversal(e)
    OBVIOUS
  <1>3. R = {r[l] : l \in e}
    BY <1>1, <1>2 DEF Statements!Reversal
  <1>4. \A l \in e : /\ l.account \in StatementCase.codes /\ l.debit \in Nat /\ l.credit \in Nat
                     /\ l = [account |-> l.account, debit |-> l.debit, credit |-> l.credit]
    BY DEF StatementEntry, Statements!Line
  <1>5. \A l \in e : /\ r[l] \in Statements!Line
                     /\ r[l].account = l.account /\ r[l].debit = l.credit /\ r[l].credit = l.debit
    BY <1>1, <1>4 DEF Statements!Line
  <1>6. \A x, y \in e : r[x] = r[y] => x = y
    <2>1. SUFFICES ASSUME NEW x \in e, NEW y \in e, r[x] = r[y] PROVE x = y
      OBVIOUS
    <2>2. x.account = y.account /\ x.debit = y.debit /\ x.credit = y.credit
      BY <1>5, <2>1
    <2> QED
      BY <1>4, <2>2
  <1>7. IsFiniteSet(e) /\ IsFiniteSet(R) /\ R \subseteq Statements!Line
    <2>1. IsFiniteSet(e)
      BY DEF StatementEntry
    <2>2. r \in Surjection(e, R)
      BY <1>1, <1>3 DEF Surjection
    <2>3. IsFiniteSet(R)
      BY <2>1, <2>2, FS_Surjection
    <2> QED
      BY <1>3, <1>5, <2>1, <2>3
  <1>8. PICK d, k : d = [l \in e |-> l.debit] /\ k = [l \in e |-> l.credit]
    OBVIOUS
  <1>9. PICK dr, kr : dr = [l \in R |-> l.debit] /\ kr = [l \in R |-> l.credit]
    OBVIOUS
  <1>10. \A l \in e : /\ k[l] \in Int /\ dr[r[l]] = k[l]
                      /\ d[l] \in Int /\ kr[r[l]] = d[l]
    <2>1. \A l \in e : r[l] \in R
      BY <1>3
    <2>2. \A l \in e : dr[r[l]] = r[l].debit /\ kr[r[l]] = r[l].credit
      BY <1>9, <2>1
    <2> QED
      BY <1>4, <1>5, <1>8, <2>2
  <1>11. SumOver(dr, R) = SumOver(k, e) /\ SumOver(kr, R) = SumOver(d, e)
    <2>1. SumOver(dr, {r[l] : l \in e}) = SumOver(k, e)
      BY <1>6, <1>7, <1>10, SumImage
    <2>2. SumOver(kr, {r[l] : l \in e}) = SumOver(d, e)
      BY <1>6, <1>7, <1>10, SumImage
    <2> QED
      BY <1>3, <2>1, <2>2
  <1>12. Statements!Debits(R) = Statements!Credits(R)
    <2>1. Statements!Debits(R) = SumOver(dr, R) /\ Statements!Credits(R) = SumOver(kr, R)
      BY <1>9, StatementSides
    <2>2. Statements!Debits(e) = SumOver(d, e) /\ Statements!Credits(e) = SumOver(k, e)
      BY <1>8, StatementSides
    <2>3. Statements!Debits(e) = Statements!Credits(e)
      BY DEF StatementEntry
    <2> QED
      BY <1>11, <2>1, <2>2, <2>3
  <1> QED
    BY <1>2, <1>7, <1>12 DEF StatementEntry

\* What an entry moves of all accounts is nothing, and of several what it moves of
\* each.
LEMMA StatementMovesNothing ==
  ASSUME NEW e, StatementEntry(e)
  PROVE  Statements!Moved(StatementCase.codes, e) = 0
  <1>1. PICK d, k : d = [l \in e |-> l.debit] /\ k = [l \in e |-> l.credit]
    OBVIOUS
  <1>2. PICK m : m = [l \in e |-> IF l.account \in StatementCase.codes THEN l.debit - l.credit ELSE 0]
    OBVIOUS
  <1>3. \A l \in e : l.account \in StatementCase.codes /\ l.debit \in Nat /\ l.credit \in Nat
    BY StatementLine DEF StatementEntry
  <1>4. \A l \in e : d[l] \in Int /\ k[l] \in Int /\ m[l] \in Int /\ m[l] + k[l] = 1 * d[l]
    <2>1. \A u, v \in Nat : u - v \in Int /\ (u - v) + v = 1 * u /\ u \in Int /\ v \in Int
      OBVIOUS
    <2> QED
      BY <1>1, <1>2, <1>3, <2>1
  <1>5. IsFiniteSet(e) /\ SumOver(d, e) = SumOver(k, e)
    BY <1>1, StatementSides DEF StatementEntry
  <1>6. SumOver(m, e) + SumOver(k, e) = 1 * SumOver(d, e)
    BY <1>4, <1>5, SumSplits
  <1>7. SumOver(m, e) \in Int /\ SumOver(k, e) \in Int
    BY <1>4, <1>5, SumType
  <1>8. SumOver(m, e) = 0
    BY <1>5, <1>6, <1>7
  <1> QED
    BY <1>2, <1>8, StatementMoved

StatementParts(K, e) == [c \in K |-> Statements!Moved({c}, e)]

LEMMA StatementMovesEach ==
  ASSUME NEW e, StatementEntry(e), NEW K, IsFiniteSet(K)
  PROVE  /\ SumOver(StatementParts(K, e), K) = Statements!Moved(K, e)
         /\ \A c : Statements!Moved({c}, e) \in Int
         /\ Statements!Moved(K, e) \in Int
  <1>1. IsFiniteSet(e) /\ \A l \in e : l.debit - l.credit \in Int
    <2>1. \A l \in e : l.debit \in Nat /\ l.credit \in Nat
      BY StatementLine DEF StatementEntry
    <2> QED
      BY <2>1 DEF StatementEntry
  <1>2. PICK v : v = [l \in e |-> l.debit - l.credit]
    OBVIOUS
  <1>3. \A l \in e : v[l] \in Int
    BY <1>1, <1>2
  <1>4. PICK h : h = [c \in K |-> [l \in e |-> IF l.account \in {c} THEN v[l] ELSE 0]]
    OBVIOUS
  <1>5. PICK t : t = [l \in e |-> [c \in K |-> IF l.account \in {c} THEN v[l] ELSE 0]]
    OBVIOUS
  <1>6. \A c \in K : \A l \in e : /\ h[c][l] = IF l.account \in {c} THEN v[l] ELSE 0
                                  /\ t[l][c] = IF l.account \in {c} THEN v[l] ELSE 0
    BY <1>4, <1>5
  <1>7. PICK row : row = [c \in K |-> Statements!Moved({c}, e)]
    OBVIOUS
  <1>0. row = StatementParts(K, e)
    BY <1>7 DEF StatementParts
  <1>8. PICK m : m = [l \in e |-> IF l.account \in K THEN v[l] ELSE 0]
    OBVIOUS
  <1>9. \A c \in K : row[c] = SumOver(h[c], e)
    <2>1. SUFFICES ASSUME NEW c \in K PROVE row[c] = SumOver(h[c], e)
      OBVIOUS
    <2>2. PICK n : n = [l \in e |-> IF l.account \in {c} THEN l.debit - l.credit ELSE 0]
      OBVIOUS
    <2>3. n = h[c]
      BY <1>2, <1>4, <2>2
    <2> QED
      BY <1>7, <2>2, <2>3, StatementMoved
  <1>10. \A l \in e : m[l] = SumOver(t[l], K)
    <2>1. SUFFICES ASSUME NEW l \in e PROVE m[l] = SumOver(t[l], K)
      OBVIOUS
    <2>2. PICK g, a : g = t[l] /\ a = l.account
      OBVIOUS
    <2>3. \A c \in K : g[c] = IF c = a THEN v[l] ELSE 0
      BY <1>6, <2>2
    <2>4. SumOver(g, K) = IF a \in K THEN v[l] ELSE 0
      BY <1>3, <2>3, SumOnly
    <2> QED
      BY <1>8, <2>2, <2>4
  <1>11. \A c \in K : \A l \in e : h[c][l] \in Int /\ t[l][c] = h[c][l]
    BY <1>3, <1>6
  <1>12. SumOver(row, K) = SumOver(m, e)
    <2>1. IsFiniteSet(K) /\ IsFiniteSet(e)
      BY <1>1
    <2>2. Turned(h, t, K, e) /\ Totals(row, h, K, e) /\ Totals(m, t, e, K)
      BY <1>9, <1>10, <1>11, Zenon DEF Turned, Totals
    <2> QED
      BY <2>1, <2>2, SumExchange
  <1>13. m = [l \in e |-> IF l.account \in K THEN l.debit - l.credit ELSE 0]
    BY <1>2, <1>8
  <1>14. Statements!Moved(K, e) = SumOver(m, e)
    BY <1>13, StatementMoved
  <1>15. ASSUME NEW X PROVE Statements!Moved(X, e) \in Int
    <2>1. PICK n : n = [l \in e |-> IF l.account \in X THEN l.debit - l.credit ELSE 0]
      OBVIOUS
    <2>2. \A l \in e : n[l] \in Int
      BY <1>1, <2>1
    <2>3. SumOver(n, e) \in Int
      BY <1>1, <2>2, SumType
    <2> QED
      BY <2>1, <2>3, StatementMoved
  <1> QED
    BY <1>0, <1>12, <1>14, <1>15

-----------------------------------------------------------------------------
(* Financial statements.  The inductive invariant.                         *)

StatementPosted == [posted: BOOLEAN, day: Nat, lines: SUBSET Statements!Line]

StatementIInv == /\ StatementCase.days \in Nat /\ today \in 0..StatementCase.days
                 /\ journal \in Seq(StatementPosted)
                 /\ \A i \in DOMAIN journal : /\ journal[i].day <= today
                                              /\ StatementEntry(journal[i].lines)

LEMMA StatementCodes ==
  ASSUME Statements!StatementsAssumption
  PROVE  /\ StatementCase.codes \subseteq Nat /\ IsFiniteSet(StatementCase.codes)
         /\ \A e \in StatementCase.entry : StatementEntry(e)
  <1>1. /\ StatementCase.codes \subseteq Nat /\ Statements!IsFiniteSet(StatementCase.codes)
        /\ \A e \in StatementCase.entry : /\ e \subseteq Statements!Line /\ Statements!IsFiniteSet(e)
                                          /\ Statements!Debits(e) = Statements!Credits(e)
    BY Zenon DEF Statements!StatementsAssumption
  <1> QED
    BY <1>1, StatementFinite, Zenon DEF StatementEntry

LEMMA StatementRows ==
  ASSUME StatementIInv
  PROVE  /\ Len(journal) \in Nat /\ DOMAIN journal = 1..Len(journal)
         /\ \A i \in DOMAIN journal : /\ journal[i] \in StatementPosted
                                      /\ journal[i].posted \in BOOLEAN /\ journal[i].day \in Nat
                                      /\ StatementEntry(journal[i].lines)
  <1>1. Len(journal) \in Nat /\ DOMAIN journal = 1..Len(journal)
    BY LenProperties DEF StatementIInv
  <1>2. \A i \in DOMAIN journal : journal[i] \in StatementPosted
    BY <1>1, ElementOfSeq DEF StatementIInv
  <1>3. \A i \in DOMAIN journal : journal[i].posted \in BOOLEAN /\ journal[i].day \in Nat
    BY <1>2 DEF StatementPosted
  <1> QED
    BY <1>1, <1>2, <1>3 DEF StatementIInv

LEMMA StatementInitIInv ==
  ASSUME Statements!StatementsAssumption, Statements!Init
  PROVE  StatementIInv
  <1>1. StatementCase.days \in Nat /\ journal = <<>> /\ today = 0
    BY DEF Statements!StatementsAssumption, Statements!Init
  <1>2. journal \in Seq(StatementPosted) /\ DOMAIN journal = {}
    BY <1>1
  <1> QED
    BY <1>1, <1>2 DEF StatementIInv

\* One more entry.
LEMMA StatementAppended ==
  ASSUME StatementIInv, NEW j \in Seq(StatementPosted), Len(j) = Len(journal),
         \A i \in DOMAIN j : j[i].day = journal[i].day /\ j[i].lines = journal[i].lines,
         NEW e, StatementEntry(e), UNCHANGED today,
         journal' = Append(j, [posted |-> TRUE, day |-> today, lines |-> e])
  PROVE  StatementIInv'
  <1>1. PICK x : x = [posted |-> TRUE, day |-> today, lines |-> e]
    OBVIOUS
  <1>2. today \in Nat
    BY DEF StatementIInv
  <1>3. x \in StatementPosted /\ x.day = today /\ x.lines = e
    BY <1>1, <1>2 DEF StatementPosted, StatementEntry
  <1>4. PICK k : k = Append(j, x) /\ journal' = k
    BY <1>1
  <1>5. /\ k \in Seq(StatementPosted) /\ Len(k) = Len(j) + 1 /\ k[Len(j) + 1] = x
        /\ \A i \in 1..Len(j) : k[i] = j[i]
    BY <1>3, <1>4, AppendProperties
  <1>6. /\ Len(j) \in Nat /\ DOMAIN j = 1..Len(j) /\ DOMAIN k = 1..Len(k) /\ Len(k) \in Nat
        /\ DOMAIN journal = 1..Len(j)
    BY <1>5, LenProperties DEF StatementIInv
  <1>7. \A i \in DOMAIN k : k[i].day <= today /\ StatementEntry(k[i].lines)
    <2>1. SUFFICES ASSUME NEW i \in DOMAIN k PROVE k[i].day <= today /\ StatementEntry(k[i].lines)
      OBVIOUS
    <2>2. CASE i = Len(j) + 1
      BY <1>2, <1>3, <1>5, <2>2
    <2>3. CASE i # Len(j) + 1
      <3>1. i \in 1..Len(j)
        BY <1>5, <1>6, <2>3
      <3>2. k[i].day = journal[i].day /\ k[i].lines = journal[i].lines /\ i \in DOMAIN journal
        BY <1>5, <1>6, <3>1
      <3>3. journal[i].day <= today /\ StatementEntry(journal[i].lines)
        BY <3>2 DEF StatementIInv
      <3> QED
        BY <3>2, <3>3
    <2> QED
      BY <2>2, <2>3
  <1>8. (\A i \in DOMAIN journal : journal[i].day <= today /\ StatementEntry(journal[i].lines))'
    <2>1. \A i \in DOMAIN k : k[i].day <= today' /\ StatementEntry(k[i].lines)'
      BY <1>7 DEF StatementEntry, Statements!Line, Statements!Debits, Statements!Credits
    <2> QED
      BY <1>4, <2>1
  <1>9. (journal \in Seq(StatementPosted))'
    BY <1>4, <1>5 DEF StatementPosted, Statements!Line
  <1> QED
    BY <1>8, <1>9 DEF StatementIInv

LEMMA StatementNextStep ==
  ASSUME Statements!StatementsAssumption, StatementIInv, Statements!Next \/ UNCHANGED Statements!vars
  PROVE  StatementIInv'
  <1>1. ASSUME NEW e \in StatementCase.entry, Statements!Post(e) PROVE StatementIInv'
    <2>1. /\ UNCHANGED today
          /\ journal' = Append(journal, [posted |-> TRUE, day |-> today, lines |-> e])
      BY <1>1 DEF Statements!Post
    <2>2. StatementEntry(e)
      BY StatementCodes
    <2>3. journal \in Seq(StatementPosted)
      BY DEF StatementIInv
    <2> QED
      BY <2>1, <2>2, <2>3, StatementAppended
  <1>2. ASSUME NEW i \in DOMAIN journal, Statements!Void(i) PROVE StatementIInv'
    <2>1. PICK j, e : j = [journal EXCEPT ![i].posted = FALSE] /\ e = Statements!Reversal(journal[i].lines)
      OBVIOUS
    <2>2. UNCHANGED today /\ journal' = Append(j, [posted |-> TRUE, day |-> today, lines |-> e])
      BY <1>2, <2>1 DEF Statements!Void
    <2>3. StatementEntry(e)
      BY <2>1, StatementReversed DEF StatementIInv
    <2>4. PICK n \in Nat : n = Len(journal) /\ DOMAIN journal = 1..n
      BY StatementRows
    <2>5. \A k \in 1..n : journal[k] \in StatementPosted
      BY <2>4, StatementRows
    <2>6. PICK x : x = [journal[i] EXCEPT !.posted = FALSE]
      OBVIOUS
    <2>7. x \in StatementPosted /\ x.day = journal[i].day /\ x.lines = journal[i].lines
      BY <2>4, <2>5, <2>6 DEF StatementPosted
    <2>8. DOMAIN j = 1..n /\ \A k \in 1..n : j[k] = IF k = i THEN x ELSE journal[k]
      BY <2>1, <2>4, <2>6
    <2>9. j \in Seq(StatementPosted) /\ Len(j) = n
      <3>1. j = [k \in 1..n |-> j[k]]
        BY <2>1, <2>4
      <3>2. \A k \in 1..n : j[k] \in StatementPosted
        BY <2>5, <2>7, <2>8
      <3> HIDE <2>1
      <3>3. j \in [1..n -> StatementPosted]
        BY <3>1, <3>2
      <3>4. j \in Seq(StatementPosted)
        BY <2>4, <3>3, SeqDef
      <3> QED
        BY <2>4, <2>8, <3>4, LenProperties
    <2>10. \A k \in DOMAIN j : j[k].day = journal[k].day /\ j[k].lines = journal[k].lines
      BY <2>7, <2>8
    <2> QED
      BY <2>2, <2>3, <2>4, <2>9, <2>10, StatementAppended
  <1>3. ASSUME Statements!NextDay PROVE StatementIInv'
    <2>1. today < StatementCase.days /\ today' = today + 1 /\ UNCHANGED journal
      BY <1>3 DEF Statements!NextDay
    <2>2. today' \in 0..StatementCase.days
      BY <2>1 DEF StatementIInv
    <2>3. \A i \in DOMAIN journal : journal[i].day <= today'
      <3>1. \A i \in DOMAIN journal : journal[i].day \in Nat
        BY StatementRows
      <3> QED
        BY <2>1, <3>1 DEF StatementIInv
    <2>4. (journal \in Seq(StatementPosted))'
      BY <2>1 DEF StatementIInv, StatementPosted, Statements!Line
    <2>5. \A i \in DOMAIN journal : StatementEntry(journal[i].lines)'
      BY <2>1 DEF StatementIInv, StatementEntry, Statements!Line, Statements!Debits, Statements!Credits
    <2> QED
      BY <2>1, <2>2, <2>3, <2>4, <2>5 DEF StatementIInv
  <1>4. ASSUME UNCHANGED Statements!vars PROVE StatementIInv'
    <2>1. UNCHANGED <<journal, today>>
      BY <1>4 DEF Statements!vars
    <2> QED
      BY <2>1 DEF StatementIInv, StatementPosted, StatementEntry, Statements!Line, Statements!Debits,
                  Statements!Credits
  <1> QED
    BY <1>1, <1>2, <1>3, <1>4 DEF Statements!Next

-----------------------------------------------------------------------------
(* Financial statements.  Balances.                                        *)

LEMMA StatementPeriod ==
  ASSUME StatementIInv, NEW a, NEW b
  PROVE  /\ IsFiniteSet(Statements!Posted(a, b))
         /\ \A i \in Statements!Posted(a, b) : StatementEntry(journal[i].lines)
  <1>1. Statements!Posted(a, b) \subseteq DOMAIN journal
    BY DEF Statements!Posted
  <1>2. IsFiniteSet(DOMAIN journal)
    <2>1. Len(journal) \in Nat /\ DOMAIN journal = 1..Len(journal) /\ 1 \in Int /\ Len(journal) \in Int
      BY StatementRows
    <2> QED
      BY <2>1, FS_Interval
  <1> QED
    BY <1>1, <1>2, FS_Subset, StatementRows

\* What the entries of a period move of accounts, and the balances of each.
StatementEntries(K, a, b) ==
  [i \in Statements!Posted(a, b) |-> Statements!Moved(K, journal[i].lines)]
StatementAccounts(K, a, b) == [c \in K |-> Statements!Balance(c, a, b)]

LEMMA StatementBalance ==
  ASSUME StatementIInv, NEW a, NEW b, NEW c
  PROVE  /\ Statements!Balance(c, a, b) =
              SumOver(StatementEntries({c}, a, b), Statements!Posted(a, b))
         /\ Statements!Balance(c, a, b) \in Int
  <1>1. PICK P : P = Statements!Posted(a, b)
    OBVIOUS
  <1>2. PICK h : h = [i \in P |-> Statements!Moved({c}, journal[i].lines)]
    OBVIOUS
  <1>0. h = StatementEntries({c}, a, b)
    BY <1>1, <1>2 DEF StatementEntries
  <1>3. Statements!Balance(c, a, b) = Statements!SumFunction(h)
    BY <1>1, <1>2, Zenon DEF Statements!Balance
  <1>4. Statements!Balance(c, a, b) = SumOver(h, P)
    <2>1. DOMAIN h = P
      BY <1>2
    <2> QED
      BY <1>3, <2>1, StatementSum
  <1>5. IsFiniteSet(P) /\ \A i \in P : h[i] \in Int
    <2>1. \A i \in P : Statements!Moved({c}, journal[i].lines) \in Int
      BY <1>1, StatementPeriod, StatementMovesEach, FS_EmptySet
    <2> QED
      BY <1>1, <1>2, <2>1, StatementPeriod
  <1>6. SumOver(h, P) \in Int
    BY <1>5, SumType
  <1> QED
    BY <1>0, <1>1, <1>4, <1>6

\* The balances of accounts, added up account by account and entry by entry.
LEMMA StatementBalanceOf ==
  ASSUME Statements!StatementsAssumption, StatementIInv, NEW a, NEW b,
         NEW K \in SUBSET StatementCase.codes
  PROVE  /\ IsFiniteSet(K) /\ Statements!BalanceOf(K, a, b) \in Int
         /\ Statements!BalanceOf(K, a, b) = SumOver(StatementAccounts(K, a, b), K)
         /\ Statements!BalanceOf(K, a, b) =
              SumOver(StatementEntries(K, a, b), Statements!Posted(a, b))
  <1>1. PICK P : P = Statements!Posted(a, b)
    OBVIOUS
  <1>2. IsFiniteSet(P) /\ IsFiniteSet(K) /\ \A i \in P : StatementEntry(journal[i].lines)
    BY <1>1, StatementPeriod, StatementCodes, FS_Subset
  <1>3. PICK g : g = [c \in K |-> Statements!Balance(c, a, b)]
    OBVIOUS
  <1>4. Statements!BalanceOf(K, a, b) = SumOver(g, K)
    <2>1. Statements!BalanceOf(K, a, b) = Statements!SumFunction(g)
      BY <1>3, Zenon DEF Statements!BalanceOf
    <2>2. DOMAIN g = K
      BY <1>3
    <2> QED
      BY <2>1, <2>2, StatementSum
  <1>5. SumOver(g, K) \in Int
    <2>1. \A c \in K : g[c] \in Int
      BY <1>3, StatementBalance
    <2> QED
      BY <1>2, <2>1, SumType
  <1>6. PICK h : h = [c \in K |-> [i \in P |-> Statements!Moved({c}, journal[i].lines)]]
    OBVIOUS
  <1>7. PICK t : t = [i \in P |-> [c \in K |-> Statements!Moved({c}, journal[i].lines)]]
    OBVIOUS
  <1>8. PICK m : m = [i \in P |-> Statements!Moved(K, journal[i].lines)]
    OBVIOUS
  <1>9. Turned(h, t, K, P)
    <2>1. \A i \in P : \A c : Statements!Moved({c}, journal[i].lines) \in Int
      BY <1>2, StatementMovesEach
    <2>2. \A c \in K : \A i \in P : /\ h[c][i] = Statements!Moved({c}, journal[i].lines)
                                    /\ t[i][c] = Statements!Moved({c}, journal[i].lines)
      BY <1>6, <1>7
    <2> QED
      BY <2>1, <2>2 DEF Turned
  <1>10. Totals(g, h, K, P)
    <2>1. SUFFICES ASSUME NEW c \in K PROVE g[c] = SumOver(h[c], P)
      BY DEF Totals
    <2>2. h[c] = StatementEntries({c}, a, b)
      BY <1>1, <1>6 DEF StatementEntries
    <2> QED
      BY <1>1, <1>3, <2>2, StatementBalance
  <1>11. Totals(m, t, P, K)
    <2>1. SUFFICES ASSUME NEW i \in P PROVE m[i] = SumOver(t[i], K)
      BY DEF Totals
    <2>2. PICK e : e = journal[i].lines /\ StatementEntry(e)
      BY <1>2
    <2>3. t[i] = StatementParts(K, e) /\ m[i] = Statements!Moved(K, e)
      BY <1>7, <1>8, <2>2 DEF StatementParts
    <2>4. SumOver(StatementParts(K, e), K) = Statements!Moved(K, e)
      BY <1>2, <2>2, StatementMovesEach
    <2> QED
      BY <2>3, <2>4
  <1>12. SumOver(g, K) = SumOver(m, P)
    BY <1>2, <1>9, <1>10, <1>11, SumExchange
  <1> QED
    <2>1. g = StatementAccounts(K, a, b) /\ m = StatementEntries(K, a, b)
      BY <1>1, <1>3, <1>8 DEF StatementAccounts, StatementEntries
    <2> QED
      BY <1>1, <1>2, <1>4, <1>5, <1>12, <2>1

LEMMA StatementJoins ==
  ASSUME Statements!StatementsAssumption, StatementIInv, NEW a, NEW b,
         NEW K \in SUBSET StatementCase.codes, NEW L \in SUBSET StatementCase.codes, K \cap L = {}
  PROVE  Statements!BalanceOf(K \cup L, a, b) = Statements!BalanceOf(K, a, b) + Statements!BalanceOf(L, a, b)
  <1>1. PICK M : M = K \cup L
    OBVIOUS
  <1>2. PICK g, h, w : /\ g = StatementAccounts(K, a, b) /\ h = StatementAccounts(L, a, b)
                       /\ w = StatementAccounts(M, a, b)
    OBVIOUS
  <1>3. /\ Statements!BalanceOf(K, a, b) = SumOver(g, K) /\ Statements!BalanceOf(L, a, b) = SumOver(h, L)
        /\ IsFiniteSet(K) /\ IsFiniteSet(L)
    <2>1. K \in SUBSET StatementCase.codes /\ L \in SUBSET StatementCase.codes
      OBVIOUS
    <2>2. Statements!BalanceOf(K, a, b) = SumOver(StatementAccounts(K, a, b), K)
      BY <2>1, StatementBalanceOf
    <2>3. Statements!BalanceOf(L, a, b) = SumOver(StatementAccounts(L, a, b), L)
      BY <2>1, StatementBalanceOf
    <2>4. IsFiniteSet(K) /\ IsFiniteSet(L)
      BY <2>1, StatementBalanceOf, Zenon
    <2> QED
      BY <1>2, <2>2, <2>3, <2>4
  <1>4. Statements!BalanceOf(M, a, b) = SumOver(w, M)
    <2>1. M \in SUBSET StatementCase.codes
      BY <1>1
    <2>2. Statements!BalanceOf(M, a, b) = SumOver(StatementAccounts(M, a, b), M)
      BY <2>1, StatementBalanceOf
    <2> QED
      BY <1>2, <2>2
  <1>5. \A c \in M : w[c] \in Int
    BY <1>2, StatementBalance DEF StatementAccounts
  <1>6. SumOver(w, M) = SumOver(w, K) + SumOver(w, L)
    BY <1>1, <1>3, <1>5, SumUnion
  <1>7. (\A c \in K : w[c] = g[c] /\ w[c] \in Int) /\ \A c \in L : w[c] = h[c] /\ w[c] \in Int
    BY <1>1, <1>2, <1>5 DEF StatementAccounts
  <1>8. SumOver(w, K) = SumOver(g, K) /\ SumOver(w, L) = SumOver(h, L)
    BY <1>3, <1>7, SumCongruent
  <1> QED
    BY <1>1, <1>3, <1>4, <1>6, <1>8

\* The books balance.
LEMMA StatementBooks ==
  ASSUME Statements!StatementsAssumption, StatementIInv, NEW a, NEW b
  PROVE  Statements!BalanceOf(StatementCase.codes, a, b) = 0
  <1>1. PICK K, P : K = StatementCase.codes /\ P = Statements!Posted(a, b)
    OBVIOUS
  <1>2. PICK m : m = StatementEntries(K, a, b)
    OBVIOUS
  <1>3. Statements!BalanceOf(K, a, b) = SumOver(m, P)
    BY <1>1, <1>2, StatementBalanceOf
  <1>4. IsFiniteSet(P) /\ \A i \in P : m[i] = 0
    BY <1>1, <1>2, StatementPeriod, StatementMovesNothing DEF StatementEntries
  <1>5. SumOver(m, P) = 0
    BY <1>4, SumNothing
  <1> QED
    BY <1>1, <1>3, <1>5

-----------------------------------------------------------------------------
(* Financial statements.  What they state.                                 *)

LEMMA StatementMax ==
  ASSUME NEW n \in Int
  PROVE  Statements!Max({0, n}) = IF n > 0 THEN n ELSE 0
  <1>1. PICK m \in {0, n} : \A y \in {0, n} : m >= y
    <2>1. n >= 0 \/ 0 >= n
      OBVIOUS
    <2> QED
      BY <2>1
  <1>2. Statements!Max({0, n}) \in {0, n} /\ \A y \in {0, n} : Statements!Max({0, n}) >= y
    BY <1>1, Zenon DEF Statements!Max
  <1> QED
    BY <1>2

\* Every account is of one kind.
LEMMA StatementKinds ==
  ASSUME Statements!StatementsAssumption, StatementIInv, NEW a, NEW b
  PROVE  /\ \A k : Statements!BalanceOf(Statements!OfKind(k), a, b) \in Int
         /\ Statements!BalanceOf(Statements!OfKind("asset"), a, b)
              + Statements!BalanceOf(Statements!OfKind("liability"), a, b)
              + Statements!BalanceOf(Statements!OfKind("equity"), a, b)
              + Statements!BalanceOf(Statements!OfKind("revenue"), a, b)
              + Statements!BalanceOf(Statements!OfKind("expense"), a, b) = 0
  <1>1. \A k : Statements!OfKind(k) \in SUBSET StatementCase.codes
    BY DEF Statements!OfKind
  <1>2. \A k : Statements!BalanceOf(Statements!OfKind(k), a, b) \in Int
    BY <1>1, StatementBalanceOf
  <1>3. PICK A, L, Q, R, E : /\ A = Statements!OfKind("asset") /\ L = Statements!OfKind("liability")
                             /\ Q = Statements!OfKind("equity") /\ R = Statements!OfKind("revenue")
                             /\ E = Statements!OfKind("expense")
    OBVIOUS
  <1>4. PICK U, V, W : U = A \cup L /\ V = U \cup Q /\ W = V \cup R
    OBVIOUS
  <1>5. /\ A \in SUBSET StatementCase.codes /\ L \in SUBSET StatementCase.codes
        /\ Q \in SUBSET StatementCase.codes /\ R \in SUBSET StatementCase.codes
        /\ E \in SUBSET StatementCase.codes
    BY <1>1, <1>3
  <1>6. /\ U \in SUBSET StatementCase.codes /\ V \in SUBSET StatementCase.codes
        /\ W \in SUBSET StatementCase.codes
    BY <1>4, <1>5
  <1>7. A \cap L = {} /\ U \cap Q = {} /\ V \cap R = {} /\ W \cap E = {}
    BY <1>3, <1>4 DEF Statements!OfKind
  <1>8. StatementCase.codes = W \cup E
    <2>1. \A c \in StatementCase.codes :
            StatementCase.kinds[c] \in {"asset", "liability", "equity", "revenue", "expense"}
      BY DEF Statements!StatementsAssumption
    <2>2. StatementCase.codes \subseteq W \cup E
      BY <1>3, <1>4, <2>1 DEF Statements!OfKind
    <2> QED
      BY <1>5, <1>6, <2>2
  <1>9. PICK x, l, q, r, e, u, v, w, z : /\ x = Statements!BalanceOf(A, a, b)
                                         /\ l = Statements!BalanceOf(L, a, b)
                                         /\ q = Statements!BalanceOf(Q, a, b)
                                         /\ r = Statements!BalanceOf(R, a, b)
                                         /\ e = Statements!BalanceOf(E, a, b)
                                         /\ u = Statements!BalanceOf(U, a, b)
                                         /\ v = Statements!BalanceOf(V, a, b)
                                         /\ w = Statements!BalanceOf(W, a, b)
                                         /\ z = Statements!BalanceOf(StatementCase.codes, a, b)
    OBVIOUS
  <1>10. u = x + l
    BY <1>4, <1>5, <1>7, <1>9, StatementJoins
  <1>11. v = u + q
    BY <1>4, <1>5, <1>6, <1>7, <1>9, StatementJoins
  <1>12. w = v + r
    BY <1>4, <1>5, <1>6, <1>7, <1>9, StatementJoins
  <1>13. z = w + e
    BY <1>5, <1>6, <1>7, <1>8, <1>9, StatementJoins
  <1>14. z = 0
    BY <1>9, StatementBooks
  <1>15. x \in Int /\ l \in Int /\ q \in Int /\ r \in Int /\ e \in Int
    BY <1>2, <1>3, <1>9
  <1>16. x + l + q + r + e = 0
    BY <1>10, <1>11, <1>12, <1>13, <1>14, <1>15
  <1> QED
    BY <1>2, <1>3, <1>9, <1>16

\* The accounts of a kind, split at a number.
LEMMA StatementNumbers ==
  ASSUME Statements!StatementsAssumption, NEW k
  PROVE  /\ Statements!OfKind(k) \in SUBSET StatementCase.codes
         /\ Statements!AtLeast(k, 0) = Statements!OfKind(k)
         /\ \A low : Statements!AtLeast(k, low) \in SUBSET StatementCase.codes
         /\ \A low, high : Statements!Within(k, low, high) \in SUBSET StatementCase.codes
         /\ \A c \in Statements!OfKind(k) : c \in Nat
  <1>1. Statements!OfKind(k) \subseteq StatementCase.codes /\ StatementCase.codes \subseteq Nat
    BY StatementCodes DEF Statements!OfKind
  <1> QED
    BY <1>1 DEF Statements!Within, Statements!AtLeast

LEMMA StatementBand ==
  ASSUME Statements!StatementsAssumption, StatementIInv, NEW a, NEW b, NEW k,
         NEW low \in Nat, NEW high \in Nat
  PROVE  Statements!BalanceOf(Statements!Within(k, low, high), a, b) \in Int
  BY StatementNumbers, StatementBalanceOf

LEMMA StatementBandSplit ==
  ASSUME Statements!StatementsAssumption, StatementIInv, NEW a, NEW b, NEW k,
         NEW low \in Nat, NEW mid \in Nat, NEW high \in Nat, low <= mid, mid <= high
  PROVE  Statements!BalanceOf(Statements!Within(k, low, high), a, b) =
           Statements!BalanceOf(Statements!Within(k, low, mid), a, b)
             + Statements!BalanceOf(Statements!Within(k, mid, high), a, b)
  <1>1. PICK X, Y, P : /\ X = Statements!Within(k, low, mid) /\ Y = Statements!Within(k, mid, high)
                       /\ P = Statements!Within(k, low, high)
    OBVIOUS
  <1>2. X \in SUBSET StatementCase.codes /\ Y \in SUBSET StatementCase.codes
    BY <1>1, StatementNumbers
  <1>3. X \cap Y = {} /\ P = X \cup Y
    <2>1. \A c \in Statements!OfKind(k) : c \in Nat
      BY StatementNumbers
    <2> QED
      BY <1>1, <2>1 DEF Statements!Within, Statements!AtLeast
  <1>4. Statements!BalanceOf(P, a, b) = Statements!BalanceOf(X, a, b) + Statements!BalanceOf(Y, a, b)
    BY <1>2, <1>3, StatementJoins
  <1> QED
    BY <1>1, <1>4

LEMMA StatementKindSplit ==
  ASSUME Statements!StatementsAssumption, StatementIInv, NEW a, NEW b, NEW k, NEW mid \in Nat
  PROVE  /\ Statements!BalanceOf(Statements!OfKind(k), a, b) =
              Statements!BalanceOf(Statements!Within(k, 0, mid), a, b)
                + Statements!BalanceOf(Statements!AtLeast(k, mid), a, b)
         /\ Statements!BalanceOf(Statements!AtLeast(k, mid), a, b) \in Int
         /\ Statements!BalanceOf(Statements!Within(k, 0, mid), a, b) \in Int
  <1>1. PICK X, Z, P : /\ X = Statements!Within(k, 0, mid) /\ Z = Statements!AtLeast(k, mid)
                       /\ P = Statements!OfKind(k)
    OBVIOUS
  <1>2. X \in SUBSET StatementCase.codes /\ Z \in SUBSET StatementCase.codes
    BY <1>1, StatementNumbers
  <1>3. X \cap Z = {} /\ P = X \cup Z
    <2>1. \A c \in Statements!OfKind(k) : c \in Nat
      BY StatementNumbers
    <2> QED
      BY <1>1, <2>1 DEF Statements!Within, Statements!AtLeast
  <1>4. Statements!BalanceOf(P, a, b) = Statements!BalanceOf(X, a, b) + Statements!BalanceOf(Z, a, b)
    BY <1>2, <1>3, StatementJoins
  <1>5. Statements!BalanceOf(X, a, b) \in Int /\ Statements!BalanceOf(Z, a, b) \in Int
    BY <1>2, StatementBalanceOf
  <1> QED
    BY <1>1, <1>4, <1>5

\* The balance sheet and the trial balance.
LEMMA StatementSheet ==
  ASSUME Statements!StatementsAssumption, StatementIInv, NEW b
  PROVE  /\ Statements!Assets(b) = Statements!Liabilities(b) + Statements!Equity(b)
         /\ Statements!TrialDebit(b) = Statements!TrialCredit(b)
  <1>1. PICK x, l, q, r, e : /\ x = Statements!BalanceOf(Statements!OfKind("asset"), 0, b)
                             /\ l = Statements!BalanceOf(Statements!OfKind("liability"), 0, b)
                             /\ q = Statements!BalanceOf(Statements!OfKind("equity"), 0, b)
                             /\ r = Statements!BalanceOf(Statements!OfKind("revenue"), 0, b)
                             /\ e = Statements!BalanceOf(Statements!OfKind("expense"), 0, b)
    OBVIOUS
  <1>2. /\ x \in Int /\ l \in Int /\ q \in Int /\ r \in Int /\ e \in Int
        /\ x + l + q + r + e = 0
    BY <1>1, StatementKinds
  <1>3. Statements!Signed("asset") = 1 /\ Statements!Signed("liability") = -1 /\ Statements!Signed("equity") = -1
    BY DEF Statements!Signed
  <1>4. Statements!Assets(b) = 1 * x /\ Statements!Liabilities(b) = (-1) * l
    BY <1>1, <1>3 DEF Statements!Assets, Statements!Liabilities, Statements!Total
  <1>5. Statements!Equity(b) = (-1) * q + (- r - e)
    BY <1>1, <1>3 DEF Statements!Equity, Statements!NetIncome, Statements!Total
  <1>6. Statements!Assets(b) = Statements!Liabilities(b) + Statements!Equity(b)
    BY <1>2, <1>4, <1>5
  <1>7. PICK C, h : C = StatementCase.codes /\ h = StatementAccounts(C, 0, b)
    OBVIOUS
  <1>8. PICK d, k : /\ d = [c \in C |-> Statements!Max({0, Statements!Balance(c, 0, b)})]
                    /\ k = [c \in C |-> Statements!Max({0, - Statements!Balance(c, 0, b)})]
    OBVIOUS
  <1>9. Statements!TrialDebit(b) = SumOver(d, C) /\ Statements!TrialCredit(b) = SumOver(k, C)
    <2>1. Statements!TrialDebit(b) = Statements!SumFunction(d)
      BY <1>7, <1>8, Zenon DEF Statements!TrialDebit
    <2>2. Statements!TrialCredit(b) = Statements!SumFunction(k)
      BY <1>7, <1>8, Zenon DEF Statements!TrialCredit
    <2>3. DOMAIN d = C /\ DOMAIN k = C
      BY <1>8
    <2> QED
      BY <2>1, <2>2, <2>3, StatementSum
  <1>10. \A c \in C : d[c] \in Int /\ h[c] \in Int /\ k[c] \in Int /\ h[c] + k[c] = 1 * d[c]
    <2>1. SUFFICES ASSUME NEW c \in C
                   PROVE  d[c] \in Int /\ h[c] \in Int /\ k[c] \in Int /\ h[c] + k[c] = 1 * d[c]
      OBVIOUS
    <2>2. PICK n \in Int : n = Statements!Balance(c, 0, b)
      BY StatementBalance
    <2>3. h[c] = n /\ d[c] = Statements!Max({0, n}) /\ k[c] = Statements!Max({0, - n})
      BY <1>7, <1>8, <2>2 DEF StatementAccounts
    <2>4. - n \in Int
      OBVIOUS
    <2>5. d[c] = (IF n > 0 THEN n ELSE 0) /\ k[c] = IF - n > 0 THEN - n ELSE 0
      BY <2>3, <2>4, StatementMax
    <2> QED
      BY <2>3, <2>5
  <1>11. IsFiniteSet(C)
    BY <1>7, StatementCodes
  <1>12. SumOver(h, C) + SumOver(k, C) = 1 * SumOver(d, C)
    BY <1>10, <1>11, SumSplits
  <1>13. SumOver(h, C) = 0
    <2>1. C \in SUBSET StatementCase.codes
      BY <1>7
    <2> QED
      BY <1>7, <2>1, StatementBalanceOf, StatementBooks
  <1>14. SumOver(k, C) \in Int /\ SumOver(d, C) \in Int
    BY <1>10, <1>11, SumType
  <1> QED
    BY <1>6, <1>9, <1>12, <1>13, <1>14

\* The income statement.
LEMMA StatementIncome ==
  ASSUME Statements!StatementsAssumption, StatementIInv, NEW a, NEW b
  PROVE  Statements!StatedIncome(a, b) =
           Statements!NetIncome(a, b) + 2 * Statements!Max({0, - Statements!Revenue(a, b)})
             + Statements!Unstated(a, b)
  <1>1. PICK r, e : /\ r = Statements!BalanceOf(Statements!OfKind("revenue"), a, b)
                    /\ e = Statements!BalanceOf(Statements!OfKind("expense"), a, b)
    OBVIOUS
  <1>2. r \in Int /\ e \in Int
    BY <1>1, StatementKinds
  <1>3. PICK x, y : /\ x = Statements!BalanceOf(Statements!Within("expense", 0, 5000), a, b)
                    /\ y = Statements!BalanceOf(Statements!AtLeast("expense", 5000), a, b)
    OBVIOUS
  <1>5. e = x + y /\ x \in Int /\ y \in Int
    BY <1>1, <1>3, StatementKindSplit
  <1>6. Statements!Signed("revenue") = -1 /\ Statements!Signed("expense") = 1
    BY DEF Statements!Signed
  <1>7. Statements!Revenue(a, b) = (-1) * r
    BY <1>1, <1>6 DEF Statements!Revenue, Statements!Total
  <1>8. Statements!StatedIncome(a, b) = Statements!Abs((-1) * r) - 1 * y
    BY <1>3, <1>6, <1>7 DEF Statements!StatedIncome, Statements!Total
  <1>9. Statements!NetIncome(a, b) = - r - e
    BY <1>1 DEF Statements!NetIncome
  <1>10. Statements!Max({0, - Statements!Revenue(a, b)}) = IF r > 0 THEN r ELSE 0
    <2>1. - Statements!Revenue(a, b) = r
      BY <1>2, <1>7
    <2> QED
      BY <1>2, <2>1, StatementMax
  <1>11. Statements!Unstated(a, b) = x
    BY <1>3 DEF Statements!Unstated, Statements!OddExpenses
  <1> QED
    BY <1>2, <1>5, <1>8, <1>9, <1>10, <1>11 DEF Statements!Abs

\* The cash flow statement.
LEMMA StatementActivities ==
  ASSUME Statements!StatementsAssumption, StatementIInv, NEW a, NEW b
  PROVE  Statements!FromActivities(a, b) =
           Statements!CashChange(a, b)
             + Statements!BalanceOf(Statements!Within("expense", 6500, 6600), a, b)
             + Statements!Unexplained(a, b)
  <1>1. PICK x, l, q, r, e : /\ x = Statements!BalanceOf(Statements!OfKind("asset"), a, b)
                             /\ l = Statements!BalanceOf(Statements!OfKind("liability"), a, b)
                             /\ q = Statements!BalanceOf(Statements!OfKind("equity"), a, b)
                             /\ r = Statements!BalanceOf(Statements!OfKind("revenue"), a, b)
                             /\ e = Statements!BalanceOf(Statements!OfKind("expense"), a, b)
    OBVIOUS
  <1>2. /\ x \in Int /\ l \in Int /\ q \in Int /\ r \in Int /\ e \in Int
        /\ x + l + q + r + e = 0
    BY <1>1, StatementKinds
  <1>3. PICK wear, l1, l2 : /\ wear = Statements!BalanceOf(Statements!Within("expense", 6500, 6600), a, b)
                            /\ l1 = Statements!BalanceOf(Statements!Within("liability", 0, 2500), a, b)
                            /\ l2 = Statements!BalanceOf(Statements!AtLeast("liability", 2500), a, b)
    OBVIOUS
  <1>4. PICK cash, cur, fix, short, all :
          /\ cash = Statements!BalanceOf(Statements!Within("asset", 1000, 1100), a, b)
          /\ cur = Statements!BalanceOf(Statements!Within("asset", 1100, 1500), a, b)
          /\ fix = Statements!BalanceOf(Statements!Within("asset", 1500, 2000), a, b)
          /\ short = Statements!BalanceOf(Statements!Within("asset", 1000, 1500), a, b)
          /\ all = Statements!BalanceOf(Statements!Within("asset", 1000, 2000), a, b)
    OBVIOUS
  <1>5. PICK odd : odd = Statements!Unexplained(a, b)
    OBVIOUS
  <1>6. l = l1 + l2 /\ l1 \in Int /\ l2 \in Int
    BY <1>1, <1>3, StatementKindSplit
  <1>7. short = cash + cur /\ all = short + fix
    <2>1. short = cash + cur
      BY <1>4, StatementBandSplit
    <2>2. all = short + fix
      BY <1>4, StatementBandSplit
    <2> QED
      BY <2>1, <2>2
  <1>8. cash \in Int /\ cur \in Int /\ fix \in Int /\ wear \in Int
    BY <1>3, <1>4, StatementBand
  <1>9. x = all + odd
    <2>1. PICK K, L : K = Statements!Within("asset", 1000, 2000) /\ L = Statements!OddAssets
      OBVIOUS
    <2>2. K \subseteq Statements!OfKind("asset") /\ Statements!OfKind("asset") \subseteq StatementCase.codes
      BY <2>1 DEF Statements!Within, Statements!AtLeast, Statements!OfKind
    <2>3. /\ K \in SUBSET StatementCase.codes /\ L \in SUBSET StatementCase.codes
          /\ K \cap L = {} /\ Statements!OfKind("asset") = K \cup L
      BY <2>1, <2>2 DEF Statements!OddAssets
    <2>4. Statements!BalanceOf(K \cup L, a, b) = Statements!BalanceOf(K, a, b) + Statements!BalanceOf(L, a, b)
      BY <2>3, StatementJoins
    <2>5. odd = Statements!BalanceOf(L, a, b)
      BY <1>5, <2>1, Zenon DEF Statements!Unexplained
    <2> QED
      BY <1>1, <1>4, <2>1, <2>3, <2>4, <2>5
  <1>10. odd \in Int
    <2>1. PICK L : L = Statements!OddAssets
      OBVIOUS
    <2>2. L \in SUBSET StatementCase.codes
      BY <2>1, StatementNumbers DEF Statements!OddAssets
    <2>3. odd = Statements!BalanceOf(L, a, b)
      BY <1>5, <2>1, Zenon DEF Statements!Unexplained
    <2> QED
      BY <2>2, <2>3, StatementBalanceOf
  <1>11. Statements!Operating(a, b) = (- r - e) + wear - cur - l1
    BY <1>1, <1>3, <1>4 DEF Statements!Operating, Statements!NetIncome
  <1>12. Statements!Investing(a, b) = - fix /\ Statements!Financing(a, b) = - l2 - q
    BY <1>1, <1>3, <1>4 DEF Statements!Investing, Statements!Financing
  <1>13. Statements!FromActivities(a, b) = ((- r - e) + wear - cur - l1) + (- fix) + (- l2 - q)
    BY <1>11, <1>12, Zenon DEF Statements!FromActivities
  <1>14. Statements!CashChange(a, b) = cash
    BY <1>4 DEF Statements!CashChange, Statements!CashAccounts
  <1>15. ((- r - e) + wear - cur - l1) + (- fix) + (- l2 - q) = cash + wear + odd
    BY <1>2, <1>6, <1>7, <1>8, <1>9, <1>10
  <1> QED
    BY <1>3, <1>5, <1>13, <1>14, <1>15

\* The cash flow trend.
LEMMA StatementTrend ==
  ASSUME Statements!StatementsAssumption, StatementIInv, NEW a, NEW b
  PROVE  Statements!Inflow(a, b) - Statements!Outflow(a, b) = Statements!CashChange(a, b)
  <1>1. PICK C, P : C = Statements!CashAccounts /\ P = Statements!Posted(a, b)
    OBVIOUS
  <1>2. ASSUME NEW e, StatementEntry(e)
        PROVE  /\ Statements!CashIn(e) \in Int /\ Statements!CashOut(e) \in Int
               /\ Statements!Moved(C, e) \in Int
               /\ Statements!Moved(C, e) + Statements!CashOut(e) = 1 * Statements!CashIn(e)
    <2>1. PICK d, k, m : /\ d = [l \in e |-> IF l.account \in C THEN l.debit ELSE 0]
                         /\ k = [l \in e |-> IF l.account \in C THEN l.credit ELSE 0]
                         /\ m = [l \in e |-> IF l.account \in C THEN l.debit - l.credit ELSE 0]
      OBVIOUS
    <2>2. \A l \in e : l.debit \in Nat /\ l.credit \in Nat
      BY <1>2, StatementLine DEF StatementEntry
    <2>3. \A l \in e : d[l] \in Int /\ k[l] \in Int /\ m[l] \in Int /\ m[l] + k[l] = 1 * d[l]
      <3>1. SUFFICES ASSUME NEW l \in e
                     PROVE  d[l] \in Int /\ k[l] \in Int /\ m[l] \in Int /\ m[l] + k[l] = 1 * d[l]
        OBVIOUS
      <3>2. PICK x \in Nat, y \in Nat : x = l.debit /\ y = l.credit
        BY <2>2
      <3>3. \/ d[l] = x /\ k[l] = y /\ m[l] = x - y
            \/ d[l] = 0 /\ k[l] = 0 /\ m[l] = 0
        BY <2>1, <3>2
      <3> QED
        BY <3>3
    <2>4. IsFiniteSet(e)
      BY <1>2 DEF StatementEntry
    <2>5. SumOver(m, e) + SumOver(k, e) = 1 * SumOver(d, e)
      BY <2>3, <2>4, SumSplits
    <2>6. Statements!CashIn(e) = SumOver(d, e)
      <3>1. Statements!CashIn(e) = Statements!SumFunction(d)
        BY <1>1, <2>1, Zenon DEF Statements!CashIn
      <3>2. DOMAIN d = e
        BY <2>1
      <3> QED
        BY <3>1, <3>2, StatementSum
    <2>7. Statements!CashOut(e) = SumOver(k, e)
      <3>1. Statements!CashOut(e) = Statements!SumFunction(k)
        BY <1>1, <2>1, Zenon DEF Statements!CashOut
      <3>2. DOMAIN k = e
        BY <2>1
      <3> QED
        BY <3>1, <3>2, StatementSum
    <2>8. Statements!Moved(C, e) = SumOver(m, e)
      BY <2>1, StatementMoved
    <2>9. SumOver(m, e) \in Int /\ SumOver(k, e) \in Int /\ SumOver(d, e) \in Int
      BY <2>3, <2>4, SumType
    <2> QED
      BY <2>5, <2>6, <2>7, <2>8, <2>9
  <1>3. PICK d, k, m : /\ d = [i \in P |-> Statements!CashIn(journal[i].lines)]
                       /\ k = [i \in P |-> Statements!CashOut(journal[i].lines)]
                       /\ m = StatementEntries(C, a, b)
    OBVIOUS
  <1>4. IsFiniteSet(P) /\ \A i \in P : StatementEntry(journal[i].lines)
    BY <1>1, StatementPeriod
  <1>5. \A i \in P : d[i] \in Int /\ k[i] \in Int /\ m[i] \in Int /\ m[i] + k[i] = 1 * d[i]
    <2>1. \A i \in P : /\ d[i] = Statements!CashIn(journal[i].lines)
                       /\ k[i] = Statements!CashOut(journal[i].lines)
                       /\ m[i] = Statements!Moved(C, journal[i].lines)
      BY <1>1, <1>3 DEF StatementEntries
    <2> QED
      BY <1>2, <1>4, <2>1
  <1>6. SumOver(m, P) + SumOver(k, P) = 1 * SumOver(d, P)
    BY <1>4, <1>5, SumSplits
  <1>7. SumOver(m, P) \in Int /\ SumOver(k, P) \in Int /\ SumOver(d, P) \in Int
    BY <1>4, <1>5, SumType
  <1>8. Statements!Inflow(a, b) = SumOver(d, P)
    <2>1. Statements!Inflow(a, b) = Statements!SumFunction(d)
      BY <1>1, <1>3, Zenon DEF Statements!Inflow
    <2>2. DOMAIN d = P
      BY <1>3
    <2> QED
      BY <2>1, <2>2, StatementSum
  <1>9. Statements!Outflow(a, b) = SumOver(k, P)
    <2>1. Statements!Outflow(a, b) = Statements!SumFunction(k)
      BY <1>1, <1>3, Zenon DEF Statements!Outflow
    <2>2. DOMAIN k = P
      BY <1>3
    <2> QED
      BY <2>1, <2>2, StatementSum
  <1>10. Statements!CashChange(a, b) = SumOver(m, P)
    <2>1. C \in SUBSET StatementCase.codes
      BY <1>1 DEF Statements!CashAccounts, Statements!Within, Statements!AtLeast, Statements!OfKind
    <2>2. Statements!BalanceOf(C, a, b) = SumOver(m, P)
      BY <1>1, <1>3, <2>1, StatementBalanceOf
    <2> QED
      BY <1>1, <2>2, Zenon DEF Statements!CashChange
  <1> QED
    BY <1>6, <1>7, <1>8, <1>9, <1>10

\* Working capital.
StatementUpright(b) ==
  /\ \A c \in Statements!Within("asset", 1000, 1500) : Statements!Balance(c, 0, b) >= 0
  /\ \A c \in Statements!Within("liability", 2000, 2500) : Statements!Balance(c, 0, b) <= 0

LEMMA StatementCapital ==
  ASSUME Statements!StatementsAssumption, StatementIInv, NEW b, StatementUpright(b)
  PROVE  Statements!WorkingCapital(b) =
           Statements!Total("asset", Statements!Within("asset", 1000, 1500), 0, b)
             - Statements!Total("liability", Statements!Within("liability", 2000, 2500), 0, b)
  <1>1. PICK A, L : A = Statements!Within("asset", 1000, 1500) /\ L = Statements!Within("liability", 2000, 2500)
    OBVIOUS
  <1>2. A \in SUBSET StatementCase.codes /\ L \in SUBSET StatementCase.codes
    BY <1>1 DEF Statements!Within, Statements!AtLeast, Statements!OfKind
  <1>3. PICK g, h : g = StatementAccounts(A, 0, b) /\ h = StatementAccounts(L, 0, b)
    OBVIOUS
  <1>4. PICK x, l : x = Statements!BalanceOf(A, 0, b) /\ l = Statements!BalanceOf(L, 0, b)
    OBVIOUS
  <1>5. IsFiniteSet(A) /\ x \in Int /\ x = SumOver(g, A)
    BY <1>2, <1>3, <1>4, StatementBalanceOf
  <1>6. IsFiniteSet(L) /\ l \in Int /\ l = SumOver(h, L)
    BY <1>2, <1>3, <1>4, StatementBalanceOf
  <1>7. PICK u : u = [c \in A |-> Statements!Abs(Statements!Balance(c, 0, b))]
    OBVIOUS
  <1>0. PICK v : v = [c \in L |-> Statements!Abs(Statements!Balance(c, 0, b))]
    OBVIOUS
  <1>8. Statements!SumByType("asset", 1000, 1500, b) = SumOver(u, A)
    <2>0. u = [c \in Statements!Within("asset", 1000, 1500) |-> Statements!Abs(Statements!Balance(c, 0, b))]
      BY <1>1, <1>7, Zenon
    <2>1. Statements!SumByType("asset", 1000, 1500, b) = Statements!SumFunction(u)
      BY <2>0 DEF Statements!SumByType
    <2>2. DOMAIN u = A
      BY <1>7
    <2> QED
      BY <2>1, <2>2, StatementSum
  <1>9. Statements!SumByType("liability", 2000, 2500, b) = SumOver(v, L)
    <2>0. v = [c \in Statements!Within("liability", 2000, 2500) |-> Statements!Abs(Statements!Balance(c, 0, b))]
      BY <1>0, <1>1, Zenon
    <2>1. Statements!SumByType("liability", 2000, 2500, b) = Statements!SumFunction(v)
      BY <2>0 DEF Statements!SumByType
    <2>2. DOMAIN v = L
      BY <1>0
    <2> QED
      BY <2>1, <2>2, StatementSum
  <1>10. SumOver(u, A) = x
    <2>1. SUFFICES ASSUME NEW c \in A PROVE u[c] = g[c] /\ u[c] \in Int
      BY <1>5, SumCongruent
    <2>2. PICK n \in Int : n = Statements!Balance(c, 0, b)
      BY StatementBalance
    <2>3. n >= 0
      BY <1>1, <2>2 DEF StatementUpright
    <2>4. g[c] = n /\ u[c] = Statements!Abs(n)
      BY <1>3, <1>7, <2>2 DEF StatementAccounts
    <2>5. u[c] = n
      BY <2>3, <2>4 DEF Statements!Abs
    <2> QED
      BY <2>4, <2>5
  <1>11. SumOver(v, L) = - l
    <2>1. \A c \in L : v[c] \in Int /\ h[c] \in Int /\ v[c] + h[c] = 0 * h[c]
      <3>1. SUFFICES ASSUME NEW c \in L PROVE v[c] \in Int /\ h[c] \in Int /\ v[c] + h[c] = 0 * h[c]
        OBVIOUS
      <3>2. PICK n \in Int : n = Statements!Balance(c, 0, b)
        BY StatementBalance
      <3>5. n <= 0
        BY <1>1, <3>2 DEF StatementUpright
      <3>3. h[c] = n /\ v[c] = Statements!Abs(n)
        BY <1>0, <1>3, <3>2 DEF StatementAccounts
      <3>4. v[c] = - n
        BY <3>3, <3>5 DEF Statements!Abs
      <3> QED
        BY <3>3, <3>4
    <2>2. SumOver(v, L) + SumOver(h, L) = 0 * SumOver(h, L)
      BY <1>6, <2>1, SumSplits
    <2>3. SumOver(v, L) \in Int
      BY <1>6, <2>1, SumType
    <2> QED
      BY <1>6, <2>2, <2>3
  <1>12. Statements!WorkingCapital(b) = x - (- l)
    BY <1>8, <1>9, <1>10, <1>11 DEF Statements!WorkingCapital
  <1>13. Statements!Signed("liability") = -1 /\ Statements!Signed("asset") = 1
    BY DEF Statements!Signed
  <1>14. Statements!Total("asset", A, 0, b) = 1 * x /\ Statements!Total("liability", L, 0, b) = (-1) * l
    BY <1>4, <1>13 DEF Statements!Total
  <1> QED
    BY <1>1, <1>5, <1>6, <1>12, <1>14

\* Budgets.
LEMMA StatementBudget ==
  ASSUME Statements!StatementsAssumption, StatementIInv, NEW u \in StatementCase.budgets,
         StatementCase.kinds[u.account] \in {"revenue", "expense"}, NEW planned,
         planned = IF StatementCase.kinds[u.account] = "revenue" THEN u.amount ELSE - u.amount
  PROVE  Statements!Favorable(u) <=> - Statements!Balance(u.account, u.from, u.to) >= planned
  <1>1. PICK n \in Int : n = Statements!Balance(u.account, u.from, u.to)
    BY StatementBalance
  <1>2. PICK m \in Nat : m = u.amount
    BY DEF Statements!StatementsAssumption
  <1>3. CASE StatementCase.kinds[u.account] = "revenue"
    <2>1. ~Statements!DebitNormal(u.account) /\ planned = m
      BY <1>2, <1>3 DEF Statements!DebitNormal
    <2>2. Statements!Favorable(u) <=> - n >= m
      BY <1>1, <1>2, <2>1 DEF Statements!Favorable, Statements!Actual
    <2> QED
      BY <1>1, <2>1, <2>2
  <1>4. CASE StatementCase.kinds[u.account] = "expense"
    <2>1. Statements!DebitNormal(u.account) /\ planned = - m
      BY <1>2, <1>4 DEF Statements!DebitNormal
    <2>2. Statements!Favorable(u) <=> n <= m
      BY <1>1, <1>2, <2>1 DEF Statements!Favorable, Statements!Actual
    <2> QED
      BY <1>1, <2>1, <2>2
  <1> QED
    BY <1>3, <1>4

LEMMA StatementsHold ==
  ASSUME Statements!StatementsAssumption, StatementIInv
  PROVE  Statements!StatementsAgree
  <1>1. \A b \in Statements!Days : Statements!SheetBalances(b)
    BY StatementSheet DEF Statements!SheetBalances
  <1>2. ASSUME NEW b PROVE Statements!CapitalAgrees(b)
    <2>1. CASE StatementUpright(b)
      <3>1. Statements!WorkingCapital(b) =
              Statements!Total("asset", Statements!Within("asset", 1000, 1500), 0, b)
                - Statements!Total("liability", Statements!Within("liability", 2000, 2500), 0, b)
        BY <2>1, StatementCapital
      <3> QED
        BY <3>1 DEF Statements!CapitalAgrees
    <2>2. CASE ~StatementUpright(b)
      BY <2>2 DEF Statements!CapitalAgrees, StatementUpright
    <2> QED
      BY <2>1, <2>2
  <1>3. ASSUME NEW a, NEW b PROVE Statements!PeriodAgrees(a, b)
    BY StatementIncome, StatementActivities, StatementTrend DEF Statements!PeriodAgrees
  <1>4. \A u \in StatementCase.budgets : Statements!BudgetAgrees(u)
    BY StatementBudget, Zenon DEF Statements!BudgetAgrees
  <1> QED
    BY <1>1, <1>2, <1>3, <1>4, Zenon DEF Statements!StatementsAgree

-----------------------------------------------------------------------------
(* The web client: its types.                                              *)

ConsoleIInv == /\ Console!TypeOK
               /\ requests = [s \in Console!Slot |-> requests[s]]

LEMMA ConsoleInitIInv ==
  ASSUME Console!ConsoleAssumption, Console!Init
  PROVE  ConsoleIInv
  <1>1. kind \in Kinds /\ requests = [s \in Console!Slot |-> Console!Free]
    BY DEF Console!Init
  <1>2. status \in Console!Statuses
    BY DEF Console!Init, Console!Statuses
  <1>3. shown \in [Tab -> Console!Statuses \cup {"nothing"}]
    <2>1. shown = [t \in Tab |-> IF Console!HasDocument THEN "nothing" ELSE "none"]
      BY DEF Console!Init
    <2>2. ~Console!HasDocument => "none" \in Console!Statuses
      BY DEF Console!Statuses
    <2> QED
      BY <2>1, <2>2
  <1> QED
    BY <1>1, <1>2, <1>3 DEF ConsoleIInv, Console!TypeOK

\* A request leaves, of a tab, for a free slot.
LEMMA ConsoleAsk ==
  ASSUME ConsoleIInv, NEW t \in Tab, NEW name, NEW filled, Console!Ask(t, name, filled),
         UNCHANGED <<kind, routed, status, shown>>
  PROVE  ConsoleIInv'
  <1>1. PICK n, o : /\ requests' = [requests EXCEPT ![n] = o] /\ o.tab = t
    <2> DEFINE n == CHOOSE s \in Console!FreeSlots : \A r \in Console!FreeSlots : s <= r
               o == [phase |-> "asked", tab |-> t, name |-> name, filled |-> filled,
                     showed |-> shown[t]]
    <2>1. requests' = [requests EXCEPT ![n] = o]
      BY DEF Console!Ask
    <2>2. o.tab = t
      OBVIOUS
    <2> HIDE DEF n, o
    <2> QED
      BY <2>1, <2>2
  <1>2. /\ requests' = [s \in Console!Slot |-> requests'[s]]
        /\ \A s \in Console!Slot : requests'[s] = requests[s] \/ requests'[s] = o
    BY <1>1 DEF ConsoleIInv
  <1>3. \A s \in Console!Slot : requests'[s] # Console!Free => requests'[s].tab \in Tab
    BY <1>1, <1>2 DEF ConsoleIInv, Console!TypeOK
  <1>4. Console!Statuses' = Console!Statuses
    BY DEF Console!Statuses, Console!HasDocument
  <1>5. Console!Slot' = Console!Slot /\ Console!Free' = Console!Free
    BY DEF Console!Slot, Console!Free
  <1> QED
    BY <1>2, <1>3, <1>4 DEF ConsoleIInv, Console!TypeOK

\* A slot is freed, or what its tab waits for changes.
LEMMA ConsoleSlot ==
  ASSUME ConsoleIInv, NEW s \in Console!Slot, NEW o,
         requests' = [requests EXCEPT ![s] = o], o = Console!Free \/ o.tab \in Tab
  PROVE  /\ requests' = [r \in Console!Slot |-> requests'[r]]
         /\ \A r \in Console!Slot : requests'[r] # Console!Free => requests'[r].tab \in Tab
  <1>1. \A r \in Console!Slot : requests'[r] = IF r = s THEN o ELSE requests[r]
    BY DEF ConsoleIInv
  <1> QED
    BY <1>1 DEF ConsoleIInv, Console!TypeOK

\* The tab of a request under way.
LEMMA ConsoleTab ==
  ASSUME ConsoleIInv, NEW s \in Console!Slot, requests[s].phase \in {"asked", "answered"}
  PROVE  requests[s].tab \in Tab
  <1>1. requests[s] # Console!Free
    BY DEF Console!Free
  <1> QED
    BY <1>1 DEF ConsoleIInv, Console!TypeOK

\* The server answers.
LEMMA ConsoleServe ==
  ASSUME ConsoleIInv, NEW s \in Console!Slot, Console!Serve(s)
  PROVE  ConsoleIInv'
  <1>1. requests[s].tab \in Tab /\ UNCHANGED <<kind, routed, shown>>
    BY ConsoleTab DEF Console!Serve
  <1>2. \E answer : Console!Answered(s, answer)
    BY DEF Console!Serve, Console!Handle
  <1>3. PICK o : requests' = [requests EXCEPT ![s] = o] /\ o.tab = requests[s].tab
    BY <1>2 DEF Console!Answered
  <1>4. /\ requests' = [r \in Console!Slot |-> requests'[r]]
        /\ \A r \in Console!Slot : requests'[r] # Console!Free => requests'[r].tab \in Tab
    BY <1>1, <1>3, ConsoleSlot
  <1>5. status' \in Console!Statuses
    <2>1. CASE UNCHANGED status
      BY <2>1 DEF ConsoleIInv, Console!TypeOK
    <2>2. CASE \E move \in Console!MovesOf(requests[s].name) : status' = move.to
      BY <2>2 DEF Console!MovesOf, Console!Statuses
    <2> QED
      BY <2>1, <2>2 DEF Console!Serve, Console!Handle
  <1>6. Console!Statuses' = Console!Statuses
    BY <1>1 DEF Console!Statuses, Console!HasDocument
  <1> QED
    BY <1>1, <1>4, <1>5, <1>6 DEF ConsoleIInv, Console!TypeOK

\* A tab takes the answer to a load, or to a press.
LEMMA ConsoleTake ==
  ASSUME ConsoleIInv, NEW s \in Console!Slot, Console!Show(s) \/ Console!React(s)
  PROVE  ConsoleIInv'
  <1>1. PICK t : t = requests[s].tab /\ t \in Tab
    BY ConsoleTab DEF Console!Show, Console!React
  <1>2. UNCHANGED <<kind, routed, status>>
    BY DEF Console!Show, Console!React
  <1>3. \E o : requests' = [requests EXCEPT ![s] = o] /\ (o = Console!Free \/ o.tab \in Tab)
    <2>1. CASE Console!Show(s)
      BY <2>1 DEF Console!Show
    <2>2. CASE Console!React(s)
      <3> DEFINE again == [phase |-> "asked", tab |-> t, name |-> "load", filled |-> FALSE,
                           showed |-> shown[t]]
      <3>1. \/ requests' = [requests EXCEPT ![s] = again]
            \/ requests' = [requests EXCEPT ![s] = Console!Free]
        BY <1>1, <2>2 DEF Console!React
      <3>2. again.tab \in Tab
        BY <1>1
      <3> HIDE DEF again
      <3> QED
        BY <3>1, <3>2
    <2> QED
      BY <2>1, <2>2
  <1>4. /\ requests' = [r \in Console!Slot |-> requests'[r]]
        /\ \A r \in Console!Slot : requests'[r] # Console!Free => requests'[r].tab \in Tab
    BY <1>3, ConsoleSlot
  <1>5. shown' \in [Tab -> Console!Statuses \cup {"nothing"}]
    <2>1. \/ shown' = shown
          \/ \E x \in Console!Statuses \cup {"nothing"} : shown' = [shown EXCEPT ![t] = x]
      BY <1>1 DEF Console!Show, Console!React
    <2> QED
      BY <2>1 DEF ConsoleIInv, Console!TypeOK
  <1>6. Console!Statuses' = Console!Statuses
    BY <1>2 DEF Console!Statuses, Console!HasDocument
  <1> QED
    BY <1>2, <1>4, <1>5, <1>6 DEF ConsoleIInv, Console!TypeOK

\* A request is lost.
LEMMA ConsoleLose ==
  ASSUME ConsoleIInv, NEW s \in Console!Slot, Console!Lose(s)
  PROVE  ConsoleIInv'
  <1>1. requests' = [requests EXCEPT ![s] = Console!Free] /\ UNCHANGED <<kind, status, shown>>
    BY DEF Console!Lose
  <1>2. /\ requests' = [r \in Console!Slot |-> requests'[r]]
        /\ \A r \in Console!Slot : requests'[r] # Console!Free => requests'[r].tab \in Tab
    BY <1>1, ConsoleSlot
  <1>3. Console!Statuses' = Console!Statuses
    BY <1>1 DEF Console!Statuses, Console!HasDocument
  <1> QED
    BY <1>1, <1>2, <1>3 DEF ConsoleIInv, Console!TypeOK

\* The document moves, or nothing of the types changes.
LEMMA ConsoleElsewhere ==
  ASSUME ConsoleIInv, UNCHANGED <<kind, shown, requests>>,
         status' = status \/ (Console!HasDocument
                              /\ \E move \in Console!Moves[kind] : status' = move.to)
  PROVE  ConsoleIInv'
  <1>1. status' \in Console!Statuses
    BY DEF ConsoleIInv, Console!TypeOK, Console!Statuses
  <1>2. Console!Statuses' = Console!Statuses
    BY DEF Console!Statuses, Console!HasDocument
  <1> QED
    BY <1>1, <1>2 DEF ConsoleIInv, Console!TypeOK

\* Every step.
LEMMA ConsoleNextStep ==
  ASSUME Console!ConsoleAssumption, ConsoleIInv, Console!Next \/ UNCHANGED Console!vars
  PROVE  ConsoleIInv'
  <1>1. ASSUME NEW t \in Tab, Console!Load(t) PROVE ConsoleIInv'
    BY <1>1, ConsoleAsk DEF Console!Load
  <1>2. ASSUME NEW t \in Tab, NEW press, NEW filled, Console!Click(t, press, filled)
        PROVE  ConsoleIInv'
    BY <1>2, ConsoleAsk DEF Console!Click
  <1>3. ASSUME NEW s \in Console!Slot,
               Console!Serve(s) \/ Console!Show(s) \/ Console!React(s) \/ Console!Lose(s)
        PROVE  ConsoleIInv'
    BY <1>3, ConsoleServe, ConsoleTake, ConsoleLose
  <1>4. ASSUME Console!Elsewhere PROVE ConsoleIInv'
    BY <1>4, ConsoleElsewhere DEF Console!Elsewhere
  <1>5. CASE UNCHANGED Console!vars
    BY <1>5, ConsoleElsewhere DEF Console!vars
  <1> QED
    BY <1>1, <1>2, <1>3, <1>4, <1>5, Zenon DEF Console!Next

-----------------------------------------------------------------------------
(* The components beside each other.                                       *)

\* A behaviour of the pay runs for c is one of that component.
LEMMA PayPart ==
  ASSUME NEW c \in DOMAIN PayrollCase, part = <<"payroll", c>>
  PROVE  /\ Init => Payroll(c)!Init
         /\ [Next]_vars => part' = part /\ (Payroll(c)!Next \/ UNCHANGED Payroll(c)!vars)
  <1>1. /\ \A d : <<"time", d>> # part /\ <<"job", d>> # part /\ <<"members", d>> # part
        /\ \A d : <<"payroll", d>> = part => d = c
        /\ <<"deals">> # part /\ <<"asset">> # part /\ <<"split">> # part
        /\ <<"events">> # part /\ <<"rules">> # part /\ <<"statements">> # part
        /\ <<"console">> # part
    OBVIOUS
  <1>2. Init => Payroll(c)!Init
    BY <1>1, Zenon DEF Init
  <1>3. Next => part' = part /\ Payroll(c)!Next
    BY <1>1, Zenon DEF Next
  <1>4. UNCHANGED vars => part' = part /\ UNCHANGED Payroll(c)!vars
    BY DEF vars, payrollVars, Payroll!vars
  <1> QED
    BY <1>2, <1>3, <1>4

\* A behaviour of the members for c is one of that component.
LEMMA MemberPart ==
  ASSUME NEW c \in DOMAIN MembersCase, part = <<"members", c>>
  PROVE  /\ Init => Members(c)!Init
         /\ [Next]_vars => part' = part /\ (Members(c)!Next \/ UNCHANGED Members(c)!vars)
  <1>1. /\ \A d : <<"payroll", d>> # part /\ <<"time", d>> # part /\ <<"job", d>> # part
        /\ \A d : <<"members", d>> = part => d = c
        /\ <<"deals">> # part /\ <<"asset">> # part /\ <<"split">> # part
        /\ <<"events">> # part /\ <<"rules">> # part /\ <<"statements">> # part
        /\ <<"console">> # part
    OBVIOUS
  <1>2. Init => Members(c)!Init
    BY <1>1, Zenon DEF Init
  <1>3. Next => part' = part /\ Members(c)!Next
    BY <1>1, Zenon DEF Next
  <1>4. UNCHANGED vars => part' = part /\ UNCHANGED Members(c)!vars
    BY DEF vars, memberVars, Members!vars
  <1> QED
    BY <1>2, <1>3, <1>4

\* A behaviour of the projects for c is one of that component.
LEMMA TimePart ==
  ASSUME NEW c \in DOMAIN TimeCase, part = <<"time", c>>
  PROVE  /\ Init => Time(c)!Init
         /\ [Next]_vars => part' = part /\ (Time(c)!Next \/ UNCHANGED Time(c)!vars)
  <1>1. /\ \A d : <<"payroll", d>> # part /\ <<"job", d>> # part /\ <<"members", d>> # part
        /\ \A d : <<"time", d>> = part => d = c
        /\ <<"deals">> # part /\ <<"asset">> # part /\ <<"split">> # part
        /\ <<"events">> # part /\ <<"rules">> # part /\ <<"statements">> # part
        /\ <<"console">> # part
    OBVIOUS
  <1>2. Init => Time(c)!Init
    BY <1>1, Zenon DEF Init
  <1>3. Next => part' = part /\ Time(c)!Next
    BY <1>1, Zenon DEF Next
  <1>4. UNCHANGED vars => part' = part /\ UNCHANGED Time(c)!vars
    BY DEF vars, projectVars, Time!vars
  <1> QED
    BY <1>2, <1>3, <1>4

\* A behaviour of the job costs for c is one of that component.
LEMMA JobPart ==
  ASSUME NEW c \in DOMAIN JobCase, part = <<"job", c>>
  PROVE  /\ Init => Job(c)!Init
         /\ [Next]_vars => part' = part /\ (Job(c)!Next \/ UNCHANGED Job(c)!vars)
  <1>1. /\ \A d : <<"payroll", d>> # part /\ <<"time", d>> # part /\ <<"members", d>> # part
        /\ \A d : <<"job", d>> = part => d = c
        /\ <<"deals">> # part /\ <<"asset">> # part /\ <<"split">> # part
        /\ <<"events">> # part /\ <<"rules">> # part /\ <<"statements">> # part
        /\ <<"console">> # part
    OBVIOUS
  <1>2. Init => Job(c)!Init
    BY <1>1, Zenon DEF Init
  <1>3. Next => part' = part /\ Job(c)!Next
    BY <1>1, Zenon DEF Next
  <1>4. UNCHANGED vars => part' = part /\ UNCHANGED Job(c)!vars
    BY DEF vars, jobVars, Job!vars
  <1> QED
    BY <1>2, <1>3, <1>4

\* A behaviour of deals is one of that component.
LEMMA DealPart ==
  ASSUME part = <<"deals">>
  PROVE  /\ Init => Deal!Init
         /\ [Next]_vars => part' = part /\ (Deal!Next \/ UNCHANGED Deal!vars)
  <1>1. /\ \A d : <<"payroll", d>> # part /\ <<"time", d>> # part /\ <<"job", d>> # part
        /\ \A d : <<"members", d>> # part
        /\ <<"asset">> # part /\ <<"split">> # part /\ <<"events">> # part
        /\ <<"rules">> # part /\ <<"statements">> # part /\ <<"console">> # part
    OBVIOUS
  <1>2. Init => Deal!Init
    BY <1>1, Zenon DEF Init
  <1>3. Next => part' = part /\ Deal!Next
    BY <1>1, Zenon DEF Next
  <1>4. UNCHANGED vars => part' = part /\ UNCHANGED Deal!vars
    BY DEF vars, dealVars, Deal!vars
  <1> QED
    BY <1>2, <1>3, <1>4

\* A behaviour of posting rules is one of that component.
LEMMA EventPart ==
  ASSUME part = <<"events">>
  PROVE  /\ Init => Events!Init
         /\ [Next]_vars => part' = part /\ (Events!Next \/ UNCHANGED Events!vars)
  <1>1. /\ \A d : <<"payroll", d>> # part /\ <<"time", d>> # part /\ <<"job", d>> # part
        /\ \A d : <<"members", d>> # part
        /\ <<"deals">> # part /\ <<"asset">> # part /\ <<"split">> # part
        /\ <<"rules">> # part /\ <<"statements">> # part /\ <<"console">> # part
    OBVIOUS
  <1>2. Init => Events!Init
    BY <1>1, Zenon DEF Init
  <1>3. Next => part' = part /\ Events!Next
    BY <1>1, Zenon DEF Next
  <1>4. UNCHANGED vars => part' = part /\ UNCHANGED Events!vars
    BY DEF vars, Events!vars
  <1> QED
    BY <1>2, <1>3, <1>4

\* A behaviour of bank rules is one of that component.
LEMMA BankRulePart ==
  ASSUME part = <<"rules">>
  PROVE  /\ Init => BankRules!Init
         /\ [Next]_vars => part' = part /\ (BankRules!Next \/ UNCHANGED BankRules!vars)
  <1>1. /\ \A d : <<"payroll", d>> # part /\ <<"time", d>> # part /\ <<"job", d>> # part
        /\ \A d : <<"members", d>> # part
        /\ <<"deals">> # part /\ <<"asset">> # part /\ <<"split">> # part
        /\ <<"events">> # part /\ <<"statements">> # part /\ <<"console">> # part
    OBVIOUS
  <1>2. Init => BankRules!Init
    BY <1>1, Zenon DEF Init
  <1>3. Next => part' = part /\ BankRules!Next
    BY <1>1, Zenon DEF Next
  <1>4. UNCHANGED vars => part' = part /\ UNCHANGED BankRules!vars
    BY DEF vars, BankRules!vars
  <1> QED
    BY <1>2, <1>3, <1>4

\* A behaviour of a fixed asset is one of that component.
LEMMA AssetPart ==
  ASSUME part = <<"asset">>
  PROVE  /\ Init => Asset!Init
         /\ [Next]_vars => part' = part /\ (Asset!Next \/ UNCHANGED Asset!vars)
  <1>1. /\ \A d : <<"payroll", d>> # part /\ <<"time", d>> # part /\ <<"job", d>> # part
        /\ \A d : <<"members", d>> # part
        /\ <<"deals">> # part /\ <<"split">> # part /\ <<"events">> # part
        /\ <<"rules">> # part /\ <<"statements">> # part /\ <<"console">> # part
    OBVIOUS
  <1>2. Init => Asset!Init
    BY <1>1, Zenon DEF Init
  <1>3. Next => part' = part /\ Asset!Next
    BY <1>1, Zenon DEF Next
  <1>4. UNCHANGED vars => part' = part /\ UNCHANGED Asset!vars
    BY DEF vars, assetVars, Asset!vars
  <1> QED
    BY <1>2, <1>3, <1>4

\* A behaviour of a payment is one of that component.
LEMMA SplitPart ==
  ASSUME part = <<"split">>
  PROVE  /\ Init => Split!Init
         /\ [Next]_vars => part' = part /\ (Split!Next \/ UNCHANGED Split!vars)
  <1>1. /\ \A d : <<"payroll", d>> # part /\ <<"time", d>> # part /\ <<"job", d>> # part
        /\ \A d : <<"members", d>> # part
        /\ <<"deals">> # part /\ <<"asset">> # part /\ <<"events">> # part
        /\ <<"rules">> # part /\ <<"statements">> # part /\ <<"console">> # part
    OBVIOUS
  <1>2. Init => Split!Init
    BY <1>1, Zenon DEF Init
  <1>3. Next => part' = part /\ Split!Next
    BY <1>1, Zenon DEF Next
  <1>4. UNCHANGED vars => part' = part /\ UNCHANGED Split!vars
    BY DEF vars, splitVars, Split!vars
  <1> QED
    BY <1>2, <1>3, <1>4

\* A behaviour of the statements is one of that component.
LEMMA StatementPart ==
  ASSUME part = <<"statements">>
  PROVE  /\ Init => Statements!Init
         /\ [Next]_vars => part' = part /\ (Statements!Next \/ UNCHANGED Statements!vars)
  <1>1. /\ \A d : <<"payroll", d>> # part /\ <<"time", d>> # part /\ <<"job", d>> # part
        /\ \A d : <<"members", d>> # part
        /\ <<"deals">> # part /\ <<"asset">> # part /\ <<"split">> # part
        /\ <<"events">> # part /\ <<"rules">> # part /\ <<"console">> # part
    OBVIOUS
  <1>2. Init => Statements!Init
    BY <1>1, Zenon DEF Init
  <1>3. Next => part' = part /\ Statements!Next
    BY <1>1, Zenon DEF Next
  <1>4. UNCHANGED vars => part' = part /\ UNCHANGED Statements!vars
    BY DEF vars, statementVars, Statements!vars
  <1> QED
    BY <1>2, <1>3, <1>4

\* A behaviour of the client is one of that component.
LEMMA ConsolePart ==
  ASSUME part = <<"console">>
  PROVE  /\ Init => Console!Init
         /\ [Next]_vars => part' = part /\ (Console!Next \/ UNCHANGED Console!vars)
  <1>1. /\ \A d : <<"payroll", d>> # part /\ <<"time", d>> # part /\ <<"job", d>> # part
        /\ \A d : <<"members", d>> # part
        /\ <<"deals">> # part /\ <<"asset">> # part /\ <<"split">> # part
        /\ <<"events">> # part /\ <<"rules">> # part /\ <<"statements">> # part
    OBVIOUS
  <1>2. Init => Console!Init
    BY <1>1, Zenon DEF Init
  <1>3. Next => part' = part /\ Console!Next
    BY <1>1, Zenon DEF Next
  <1>4. UNCHANGED vars => part' = part /\ UNCHANGED Console!vars
    BY DEF vars, consoleVars, Console!vars
  <1> QED
    BY <1>2, <1>3, <1>4

\* Whose behaviour it is keeps its invariant.
OperationsIInv ==
  /\ \A c \in DOMAIN PayrollCase : part = <<"payroll", c>> => PayIInv(c)
  /\ \A c \in DOMAIN MembersCase : part = <<"members", c>> => MemberIInv(c)
  /\ \A c \in DOMAIN TimeCase : part = <<"time", c>> => TimeHolds(c)
  /\ \A c \in DOMAIN JobCase : part = <<"job", c>> => JobIInv(c)
  /\ part = <<"deals">> => DealIInv
  /\ part = <<"events">> => EventIInv
  /\ part = <<"rules">> => BankRuleIInv
  /\ part = <<"asset">> => AssetIInv
  /\ part = <<"split">> => SplitIInv
  /\ part = <<"statements">> => StatementIInv
  /\ part = <<"console">> => ConsoleIInv

LEMMA OperationsInit == Init => OperationsIInv
  <1> SUFFICES ASSUME Init PROVE OperationsIInv
    OBVIOUS
  <1>1. ASSUME NEW c \in DOMAIN PayrollCase, part = <<"payroll", c>> PROVE PayIInv(c)
    <2>1. Payroll(c)!PayrollAssumption
      BY OperationsAssumption
    <2>2. Payroll(c)!Init
      BY <1>1, PayPart
    <2> QED
      BY <2>1, <2>2, PayInitIInv
  <1>2. ASSUME NEW c \in DOMAIN MembersCase, part = <<"members", c>> PROVE MemberIInv(c)
    <2>1. Members(c)!MembersAssumption
      BY OperationsAssumption
    <2>2. Members(c)!Init
      BY <1>2, MemberPart
    <2> QED
      BY <2>1, <2>2, MemberInitIInv
  <1>3. ASSUME NEW c \in DOMAIN TimeCase, part = <<"time", c>> PROVE TimeHolds(c)
    <2>1. Time(c)!ProjectsAssumption
      BY OperationsAssumption
    <2>2. Time(c)!Init
      BY <1>3, TimePart
    <2> QED
      BY <2>1, <2>2, TimeHoldsInit
  <1>4. ASSUME NEW c \in DOMAIN JobCase, part = <<"job", c>> PROVE JobIInv(c)
    <2>1. Job(c)!JobCostingAssumption
      BY OperationsAssumption
    <2>2. Job(c)!Init
      BY <1>4, JobPart
    <2> QED
      BY <2>1, <2>2, JobInitIInv
  <1>5. ASSUME part = <<"deals">> PROVE DealIInv
    <2>1. Deal!CrmAssumption
      BY OperationsAssumption
    <2>2. Deal!Init
      BY <1>5, DealPart
    <2> QED
      BY <2>1, <2>2, DealInitIInv
  <1>6. ASSUME part = <<"events">> PROVE EventIInv
    <2>1. Events!RulesAssumption
      BY OperationsAssumption
    <2>2. Events!Init
      BY <1>6, EventPart
    <2> QED
      BY <2>1, <2>2, EventInitIInv
  <1>7. ASSUME part = <<"rules">> PROVE BankRuleIInv
    <2>1. BankRules!BankRulesAssumption
      BY OperationsAssumption
    <2>2. BankRules!Init
      BY <1>7, BankRulePart
    <2> QED
      BY <2>1, <2>2, BankRuleInitIInv
  <1>8. ASSUME part = <<"asset">> PROVE AssetIInv
    <2>1. Asset!DepreciationAssumption
      BY OperationsAssumption
    <2>2. Asset!Init
      BY <1>8, AssetPart
    <2> QED
      BY <2>1, <2>2, AssetInitIInv
  <1>9. ASSUME part = <<"split">> PROVE SplitIInv
    <2>1. Split!SplitAssumption
      BY OperationsAssumption
    <2>2. Split!Init
      BY <1>9, SplitPart
    <2> QED
      BY <2>1, <2>2, SplitInitIInv
  <1>10. ASSUME part = <<"statements">> PROVE StatementIInv
    <2>1. Statements!StatementsAssumption
      BY OperationsAssumption
    <2>2. Statements!Init
      BY <1>10, StatementPart
    <2> QED
      BY <2>1, <2>2, StatementInitIInv
  <1>11. ASSUME part = <<"console">> PROVE ConsoleIInv
    <2>1. Console!ConsoleAssumption
      BY OperationsAssumption
    <2>2. Console!Init
      BY <1>11, ConsolePart
    <2> QED
      BY <2>1, <2>2, ConsoleInitIInv
  <1> QED
    BY <1>1, <1>2, <1>3, <1>4, <1>5, <1>6, <1>7, <1>8, <1>9, <1>10, <1>11 DEF OperationsIInv

LEMMA OperationsStep == OperationsIInv /\ [Next]_vars => OperationsIInv'
  <1> SUFFICES ASSUME OperationsIInv, [Next]_vars PROVE OperationsIInv'
    OBVIOUS
  <1>0. part' = part
    BY DEF Next, vars
  <1>1. ASSUME NEW c \in DOMAIN PayrollCase, part' = <<"payroll", c>> PROVE PayIInv(c)'
    <2>1. Payroll(c)!PayrollAssumption
      BY OperationsAssumption
    <2>2. Payroll(c)!Next \/ UNCHANGED Payroll(c)!vars
      BY <1>0, <1>1, PayPart
    <2>3. PayIInv(c)
      BY <1>0, <1>1 DEF OperationsIInv
    <2> QED
      BY <2>1, <2>2, <2>3, PayNextStep
  <1>2. ASSUME NEW c \in DOMAIN MembersCase, part' = <<"members", c>> PROVE MemberIInv(c)'
    <2>1. Members(c)!MembersAssumption
      BY OperationsAssumption
    <2>2. Members(c)!Next \/ UNCHANGED Members(c)!vars
      BY <1>0, <1>2, MemberPart
    <2>3. MemberIInv(c)
      BY <1>0, <1>2 DEF OperationsIInv
    <2> QED
      BY <2>1, <2>2, <2>3, MemberNextStep
  <1>3. ASSUME NEW c \in DOMAIN TimeCase, part' = <<"time", c>> PROVE TimeHolds(c)'
    <2>1. Time(c)!ProjectsAssumption
      BY OperationsAssumption
    <2>2. Time(c)!Next \/ UNCHANGED Time(c)!vars
      BY <1>0, <1>3, TimePart
    <2>3. TimeHolds(c)
      BY <1>0, <1>3 DEF OperationsIInv
    <2> QED
      BY <2>1, <2>2, <2>3, TimeHoldsStep
  <1>4. ASSUME NEW c \in DOMAIN JobCase, part' = <<"job", c>> PROVE JobIInv(c)'
    <2>1. Job(c)!JobCostingAssumption
      BY OperationsAssumption
    <2>2. Job(c)!Next \/ UNCHANGED Job(c)!vars
      BY <1>0, <1>4, JobPart
    <2>3. JobIInv(c)
      BY <1>0, <1>4 DEF OperationsIInv
    <2> QED
      BY <2>1, <2>2, <2>3, JobNextStep
  <1>5. ASSUME part' = <<"deals">> PROVE DealIInv'
    <2>1. Deal!CrmAssumption
      BY OperationsAssumption
    <2>2. Deal!Next \/ UNCHANGED Deal!vars
      BY <1>0, <1>5, DealPart
    <2>3. DealIInv
      BY <1>0, <1>5 DEF OperationsIInv
    <2> QED
      BY <2>1, <2>2, <2>3, DealNextStep
  <1>6. ASSUME part' = <<"events">> PROVE EventIInv'
    <2>1. Events!RulesAssumption
      BY OperationsAssumption
    <2>2. Events!Next \/ UNCHANGED Events!vars
      BY <1>0, <1>6, EventPart
    <2>3. EventIInv
      BY <1>0, <1>6 DEF OperationsIInv
    <2> QED
      BY <2>1, <2>2, <2>3, EventNextStep
  <1>7. ASSUME part' = <<"rules">> PROVE BankRuleIInv'
    <2>1. BankRules!BankRulesAssumption
      BY OperationsAssumption
    <2>2. BankRules!Next \/ UNCHANGED BankRules!vars
      BY <1>0, <1>7, BankRulePart
    <2>3. BankRuleIInv
      BY <1>0, <1>7 DEF OperationsIInv
    <2> QED
      BY <2>1, <2>2, <2>3, BankRuleNextStep
  <1>8. ASSUME part' = <<"asset">> PROVE AssetIInv'
    <2>1. Asset!DepreciationAssumption
      BY OperationsAssumption
    <2>2. Asset!Next \/ UNCHANGED Asset!vars
      BY <1>0, <1>8, AssetPart
    <2>3. AssetIInv
      BY <1>0, <1>8 DEF OperationsIInv
    <2> QED
      BY <2>1, <2>2, <2>3, AssetNextStep
  <1>9. ASSUME part' = <<"split">> PROVE SplitIInv'
    <2>1. Split!SplitAssumption
      BY OperationsAssumption
    <2>2. Split!Next \/ UNCHANGED Split!vars
      BY <1>0, <1>9, SplitPart
    <2>3. SplitIInv
      BY <1>0, <1>9 DEF OperationsIInv
    <2> QED
      BY <2>1, <2>2, <2>3, SplitNextStep
  <1>10. ASSUME part' = <<"statements">> PROVE StatementIInv'
    <2>1. Statements!StatementsAssumption
      BY OperationsAssumption
    <2>2. Statements!Next \/ UNCHANGED Statements!vars
      BY <1>0, <1>10, StatementPart
    <2>3. StatementIInv
      BY <1>0, <1>10 DEF OperationsIInv
    <2> QED
      BY <2>1, <2>2, <2>3, StatementNextStep
  <1>11. ASSUME part' = <<"console">> PROVE ConsoleIInv'
    <2>1. Console!ConsoleAssumption
      BY OperationsAssumption
    <2>2. Console!Next \/ UNCHANGED Console!vars
      BY <1>0, <1>11, ConsolePart
    <2>3. ConsoleIInv
      BY <1>0, <1>11 DEF OperationsIInv
    <2> QED
      BY <2>1, <2>2, <2>3, ConsoleNextStep
  <1> QED
    BY <1>1, <1>2, <1>3, <1>4, <1>5, <1>6, <1>7, <1>8, <1>9, <1>10, <1>11 DEF OperationsIInv

LEMMA OperationsInvariance == Spec => []OperationsIInv
  BY OperationsInit, OperationsStep, PTL DEF Spec

LEMMA OperationsTypes == OperationsIInv => TypeOK
  <1> SUFFICES ASSUME OperationsIInv PROVE TypeOK
    OBVIOUS
  <1>1. ASSUME NEW c \in DOMAIN PayrollCase, part = <<"payroll", c>> PROVE Payroll(c)!TypeOK
    BY <1>1, PayTypes DEF OperationsIInv
  <1>2. ASSUME NEW c \in DOMAIN TimeCase, part = <<"time", c>> PROVE Time(c)!TypeOK
    BY <1>2, TimeTypes DEF OperationsIInv
  <1>3. ASSUME NEW c \in DOMAIN JobCase, part = <<"job", c>> PROVE Job(c)!TypeOK
    BY <1>3 DEF OperationsIInv, JobIInv, JobTypesOK
  <1>4. ASSUME NEW c \in DOMAIN MembersCase, part = <<"members", c>> PROVE Members(c)!TypeOK
    BY <1>4 DEF OperationsIInv, MemberIInv
  <1>5. ASSUME part = <<"deals">> PROVE Deal!TypeOK
    BY <1>5 DEF OperationsIInv, DealIInv, DealTypesOK
  <1>6. ASSUME part = <<"asset">> PROVE Asset!TypeOK
    BY <1>6 DEF OperationsIInv, AssetIInv, AssetTypesOK
  <1>7. ASSUME part = <<"events">> PROVE Events!TypeOK
    <2>1. /\ entries \in Seq(EventEntry) /\ open \subseteq EventCase.periods /\ raced \in BOOLEAN
      BY <1>7 DEF OperationsIInv, EventIInv
    <2>2. \A i \in DOMAIN entries : entries[i] \in EventEntry
      BY <2>1, ElementOfSeq, LenProperties
    <2>3. \A i \in DOMAIN entries : /\ entries[i].reference \in EventCase.keys
                                    /\ entries[i].period \in EventCase.periods
                                    /\ entries[i].number \in Nat
      BY <2>2 DEF EventEntry
    <2> QED
      BY <2>1, <2>3 DEF Events!TypeOK, Events!Range
  <1>8. ASSUME part = <<"statements">> PROVE Statements!TypeOK
    <2>1. /\ today \in 0..StatementCase.days /\ journal \in Seq(StatementPosted)
          /\ \A i \in DOMAIN journal : journal[i].day <= today
      BY <1>8 DEF OperationsIInv, StatementIInv
    <2>2. \A i \in DOMAIN journal : journal[i] \in StatementPosted
      BY <2>1, ElementOfSeq, LenProperties
    <2>3. \A i \in DOMAIN journal : journal[i].posted \in BOOLEAN /\ journal[i].day \in 0..today
      BY <2>1, <2>2 DEF StatementPosted
    <2> QED
      BY <2>1, <2>3 DEF Statements!TypeOK
  <1>9. ASSUME part = <<"console">> PROVE Console!TypeOK
    BY <1>9 DEF OperationsIInv, ConsoleIInv
  <1> QED
    BY <1>1, <1>2, <1>3, <1>4, <1>5, <1>6, <1>7, <1>8, <1>9 DEF TypeOK

\* Every variable has its type, whichever component a behaviour is of.
THEOREM TypesHold == Spec => []TypeOK
  BY OperationsInvariance, OperationsTypes, PTL

\* Unless requests overlapped, the totals of a pay run are those of its items, a
\* posted run has one entry, off balance by exactly the pre-tax deductions of the
\* items nobody overrode, and when each run of a year counted those before it
\* nobody's FUTA wage base is used beyond its cap; and of two pays the higher one
\* leaves no less, but for the rounding of four taxes (PayrollService,
\* PayrollCalculationService).
THEOREM PayrollAlwaysSettles == Spec => []PayrollSettles
  <1>1. OperationsIInv => PayrollSettles
    BY PayDoes, PayRaise, OperationsAssumption DEF OperationsIInv, PayrollSettles
  <1> QED
    BY <1>1, OperationsInvariance, PTL

\* Of a company whose seats nobody took while another was counting them, nobody
\* reactivated, and whose plan was not made smaller, the members and the open
\* invitations are never more than the plan allows
\* (MembershipsService, InvitationsService, TierLimitGuard).
THEOREM SeatsAreWithinPlan == Spec => []SeatsWithinPlan
  <1>1. OperationsIInv => SeatsWithinPlan
    BY DEF OperationsIInv, MemberIInv, SeatsWithinPlan
  <1> QED
    BY <1>1, OperationsInvariance, PTL

\* Unless requests overlapped, no time is ever on two invoices, an entry that is
\* billed is on the invoice it points at (but for those a request named that it
\* could not bill), and the cost of a project is that of its links
\* (TimeTrackingService, ProjectsService).
THEOREM TimeIsBilledOnce == Spec => []TimeBilledOnce
  <1>1. OperationsIInv => TimeBilledOnce
    BY TimeSettled DEF OperationsIInv, TimeHolds, TimeBilledOnce
  <1> QED
    BY <1>1, OperationsInvariance, PTL

\* A deal that is not deleted is in a stage that is not either; unless requests
\* overlapped, a deal is closed as its status says and weighs what it closed at,
\* has one invoice at most, of a deal that was won, and the forecast is the sum of
\* the open deals' values, each taken with its probability, to half a cent a deal
\* (CrmService).
THEOREM DealsAreConsistent == Spec => []DealsConsistent
  <1>1. OperationsIInv => DealsConsistent
    BY DealConsistent, OperationsAssumption DEF OperationsIInv, DealsConsistent
  <1> QED
    BY <1>1, OperationsInvariance, PTL

\* The entries posting rules make balance, and unless two requests with one key
\* overlapped they are, for a key, none or one for each rule of one event
\* (PostingRulesController.processEvent).  A transaction that a bank rule matches
\* gets a suggestion, and a broader rule that comes first hides a narrower one
\* (BankRuleService.applyRules).
THEOREM RulesAreApplied == Spec => []RulesApply
  <1>1. OperationsIInv => RulesApply
    BY EventsBookedOnce, BankRuleHides, OperationsAssumption DEF OperationsIInv, RulesApply
  <1> QED
    BY <1>1, OperationsInvariance, PTL

\* The percentage that says how much of a code's budget was earned values the work
\* at what it cost, to half a percent point of the budget; unless requests
\* overlapped, an approved change order has the amount that was approved, an
\* invoiced billing has one invoice, which leaves out its retention to a cent, and
\* the WIP report counts every invoice (JobCostingService).
THEOREM JobCostsAlwaysAgree == Spec => []JobCostsAgree
  <1>1. OperationsIInv => JobCostsAgree
    BY JobEarned, JobSettled, OperationsAssumption DEF OperationsIInv, JobCostsAgree
  <1> QED
    BY <1>1, OperationsInvariance, PTL

\* As long as its months are run in order an asset is charged what the schedule
\* showed and ends as its method says, and a disposal's entry balances and leaves
\* nothing on accumulated depreciation (DepreciationService).  Only a last line
\* without an account can unbalance a payment, and with an account each line is
\* credited its share, to half a cent, the last to half a cent per line
\* (InvoicesService.pay).
THEOREM RoundingIsSettled == Spec => []RoundingSettles
  <1>1. OperationsIInv => RoundingSettles
    BY AssetShown, AssetDisposed, SplitFairShares, OperationsAssumption
       DEF OperationsIInv, RoundingSettles
  <1> QED
    BY <1>1, OperationsInvariance, PTL

\* The balance sheet and the trial balance agree on every date, the income
\* statement and the cash flow with the balances up to the terms that are named,
\* the cash flow trend with the cash accounts, working capital with the balance
\* sheet while every account is on its side, and what is favorable to a budget with
\* what the account earned or cost (ReportsService, BudgetsService).
THEOREM StatementsAlwaysAgree == Spec => []StatementsAgree
  <1>1. OperationsIInv => StatementsAgree
    BY StatementsHold, OperationsAssumption DEF OperationsIInv, StatementsAgree
  <1> QED
    BY <1>1, OperationsInvariance, PTL
=============================================================================
