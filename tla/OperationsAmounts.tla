-------------------------- MODULE OperationsAmounts --------------------------
(***************************************************************************)
(* Four of the components that Operations puts beside each other, those    *)
(* that compute the lines of entries from amounts, for every value of      *)
(* their parameters: pay runs (Payroll), posting rules (PostingRules),     *)
(* bank rules (BankRules) and payments (PaymentSplit).                     *)
(*                                                                         *)
(* A section per component, with an inductive invariant of its own         *)
(* (PayIInv, EventIInv, BankRuleIInv, SplitIInv): a lemma per action, one  *)
(* for the initial states and one for every step, and what follows.        *)
(***************************************************************************)
EXTENDS Operations, SetLemmas, SequenceTheorems, FunctionTheorems

-----------------------------------------------------------------------------
(* Pay runs: what a pay is worth.                                          *)

\* The library sum of Pay is SumOver.
LEMMA PaySum ==
  ASSUME NEW h
  PROVE  Pay!SumFunction(h) = SumOver(h, DOMAIN h)
  <1>1. Pay!SumFunction(h) = SumFunctionOnSet(h, DOMAIN h)
    BY Zenon DEF Pay!SumFunction, Pay!SumFunctionOnSet, Pay!FoldFunctionOnSet,
                 Pay!MapThenFoldSet, SumFunctionOnSet, FoldFunctionOnSet, MapThenFoldSet
  <1> QED
    BY <1>1, SumFunctionIs

\* Rounding to a cent is off by half of one at most.
LEMMA PayRound ==
  ASSUME NEW n \in Int
  PROVE  /\ Pay!Round(n, 100) \in Int
         /\ 100 * Pay!Round(n, 100) <= n + 50 /\ n < 100 * Pay!Round(n, 100) + 50
  <1>1. PICK q : q = Pay!Round(n, 100)
    OBVIOUS
  <1>2. q = (2 * n + 100) \div (2 * 100)
    BY <1>1 DEF Pay!Round
  <1>3. q \in Int /\ 2 * (100 * q) <= 2 * n + 100 /\ 2 * n < 2 * (100 * q) + 100
    BY <1>2, RoundedQuotient
  <1> QED
    BY <1>1, <1>3

\* Multiplying by a natural number keeps the order.
LEMMA PayGrows ==
  ASSUME NEW a \in Nat, NEW b \in Int, NEW d \in Int, b <= d
  PROVE  a * b <= a * d
  <1>1. PICK e \in Nat : e = d - b
    OBVIOUS
  <1>2. a * e >= 0 /\ d = b + e
    BY <1>1
  <1>3. a * (b + e) = a * b + a * e
    BY <1>1
  <1>4. a * b \in Int /\ a * e \in Int
    BY <1>1
  <1> QED
    BY <1>2, <1>3, <1>4

\* What is more of an income is taxed at a rate of at most k.
LEMMA PayMore ==
  ASSUME NEW x \in Nat, NEW y \in Nat, NEW r \in Nat, NEW k \in Nat, x <= y, r <= k
  PROVE  y * r <= k * (y - x) + x * r
  <1>1. PICK d \in Nat : d = y - x
    OBVIOUS
  <1>2. d * r <= d * k
    BY PayGrows
  <1>3. y * r = x * r + d * r /\ d * k = k * d
    <2>1. y = x + d
      BY <1>1
    <2> QED
      BY <2>1
  <1>4. x * r \in Int /\ d * r \in Int /\ k * d \in Int
    OBVIOUS
  <1> QED
    BY <1>1, <1>2, <1>3, <1>4

PayBracket == [min: Nat, max: Nat, rate: Nat]

\* What is left of a pay for the taxes on income, at most.
PayTop == 100 - PayCase.ss_rate - PayCase.medicare_rate - PayCase.state_rate

\* The brackets lie end to end from zero.
LEMMA PayBrackets ==
  ASSUME Pay!PayrollAssumption
  PROVE  /\ Len(PayCase.brackets) \in Nat /\ Len(PayCase.brackets) > 0
         /\ DOMAIN PayCase.brackets = 1..Len(PayCase.brackets)
         /\ \A i \in DOMAIN PayCase.brackets : PayCase.brackets[i] \in PayBracket
         /\ PayCase.brackets[1].min = 0
         /\ \A i \in DOMAIN PayCase.brackets :
              /\ PayCase.brackets[i].min <= PayCase.brackets[i].max
              /\ i > 1 => PayCase.brackets[i].min = PayCase.brackets[i - 1].max
              /\ PayCase.brackets[i].rate <= PayTop
         /\ PayTop \in Nat
         /\ PayCase.ss_rate \in Nat /\ PayCase.medicare_rate \in Nat /\ PayCase.state_rate \in Nat
  <1>1. PICK b : b = PayCase.brackets
    OBVIOUS
  <1>2. b \in Seq(PayBracket) /\ b # <<>> /\ b[1].min = 0
    BY <1>1 DEF Pay!PayrollAssumption, PayBracket
  <1>3. /\ PayCase.ss_rate \in Nat /\ PayCase.medicare_rate \in Nat /\ PayCase.state_rate \in Nat
        /\ \A i \in DOMAIN b :
             /\ b[i].min <= b[i].max
             /\ i > 1 => b[i].min = b[i - 1].max
             /\ b[i].rate + PayCase.ss_rate + PayCase.medicare_rate + PayCase.state_rate <= 100
    BY <1>1 DEF Pay!PayrollAssumption
  <1>4. Len(b) \in Nat /\ DOMAIN b = 1..Len(b) /\ \A i \in DOMAIN b : b[i] \in PayBracket
    BY <1>2, LenProperties, ElementOfSeq
  <1>5. Len(b) > 0
    BY <1>2, <1>4, EmptySeq
  <1>6. \A i \in DOMAIN b : b[i].rate \in Nat /\ b[i].rate <= PayTop
    BY <1>3, <1>4 DEF PayTop, PayBracket
  <1>7. PayTop \in Nat
    <2>1. 1 \in DOMAIN b
      BY <1>4, <1>5
    <2>2. b[1].rate \in Nat /\ b[1].rate <= PayTop
      BY <1>6, <2>1
    <2>3. PayTop \in Int
      BY <1>3 DEF PayTop
    <2> QED
      BY <2>2, <2>3
  <1> QED
    BY <1>1, <1>2, <1>3, <1>4, <1>5, <1>6, <1>7

\* Of what a pay is raised by, income tax takes the rate of the top bracket at most.
LEMMA PayTaxRaise ==
  ASSUME Pay!PayrollAssumption, NEW low \in Nat, NEW high \in Nat, low <= high
  PROVE  /\ Pay!FederalTax(low) \in Int /\ Pay!FederalTax(high) \in Int
         /\ 100 * (Pay!FederalTax(high) - Pay!FederalTax(low)) < PayTop * (high - low) + 100
  <1>1. PICK b, n : b = PayCase.brackets /\ n = Len(b)
    OBVIOUS
  <1>2. /\ n \in Nat /\ n > 0 /\ DOMAIN b = 1..n
        /\ \A i \in 1..n : /\ b[i] \in PayBracket /\ b[i].min <= b[i].max /\ b[i].rate <= PayTop
                           /\ i > 1 => b[i].min = b[i - 1].max
        /\ b[1].min = 0 /\ PayTop \in Nat
    BY <1>1, PayBrackets
  <1>3. IsFiniteSet(1..n)
    <2>1. 1 \in Int /\ n \in Int
      BY <1>2
    <2> QED
      BY <2>1, FS_Interval
  <1>4. PICK f, g, w, t :
          /\ f = [i \in 1..n |-> Pay!Within(low, b[i]) * b[i].rate]
          /\ g = [i \in 1..n |-> Pay!Within(high, b[i]) * b[i].rate]
          /\ w = [i \in 1..n |-> Pay!Within(high, b[i]) - Pay!Within(low, b[i])]
          /\ t = [i \in 0..n |-> IF i = 0 THEN 0
                                 ELSE Pay!Lesser(high, b[i].max) - Pay!Lesser(low, b[i].max)]
    OBVIOUS
  <1>5. \A x \in PayBracket : x.min <= x.max =>
          /\ Pay!Within(low, x) \in Nat /\ Pay!Within(high, x) \in Nat
          /\ Pay!Within(low, x) <= Pay!Within(high, x)
    BY DEF PayBracket, Pay!Within, Pay!Lesser
  <1>6. \A i \in 1..n : /\ f[i] \in Int /\ g[i] \in Int /\ w[i] \in Int
                        /\ 1 * g[i] <= PayTop * w[i] + f[i]
    <2>1. SUFFICES ASSUME NEW i \in 1..n
                   PROVE  /\ f[i] \in Int /\ g[i] \in Int /\ w[i] \in Int
                          /\ 1 * g[i] <= PayTop * w[i] + f[i]
      OBVIOUS
    <2>2. PICK x, y, r : x = Pay!Within(low, b[i]) /\ y = Pay!Within(high, b[i]) /\ r = b[i].rate
      OBVIOUS
    <2>3. x \in Nat /\ y \in Nat /\ x <= y /\ r \in Nat /\ r <= PayTop
      BY <1>2, <1>5, <2>2 DEF PayBracket
    <2>4. f[i] = x * r /\ g[i] = y * r /\ w[i] = y - x
      BY <1>4, <2>2
    <2>5. y * r <= PayTop * (y - x) + x * r
      BY <1>2, <2>3, PayMore
    <2> QED
      BY <2>3, <2>4, <2>5
  <1>7. SumOver(w, 1..n) = t[n] - t[0]
    <2>1. t[0] \in Int /\ t[0] = 0
      BY <1>2, <1>4
    <2>2. ASSUME NEW i \in 1..n PROVE t[i] \in Int /\ w[i] = t[i] - t[i - 1]
      <3>1. PICK x \in PayBracket : x = b[i] /\ x.min <= x.max
        BY <1>2
      <3>2. t[i] = Pay!Lesser(high, x.max) - Pay!Lesser(low, x.max)
        BY <1>2, <1>4, <3>1
      <3>3. t[i - 1] = Pay!Lesser(high, x.min) - Pay!Lesser(low, x.min)
        <4>1. CASE i = 1
          <5>1. t[i - 1] = 0 /\ x.min = 0
            BY <1>2, <2>1, <3>1, <4>1
          <5> QED
            BY <5>1 DEF Pay!Lesser
        <4>2. CASE i # 1
          <5>1. i - 1 \in 0..n /\ i - 1 # 0 /\ i > 1
            BY <1>2, <4>2
          <5> QED
            BY <1>2, <1>4, <3>1, <5>1
        <4> QED
          BY <4>1, <4>2
      <3>4. w[i] = Pay!Within(high, x) - Pay!Within(low, x)
        BY <1>4, <3>1
      <3> QED
        BY <3>1, <3>2, <3>3, <3>4 DEF PayBracket, Pay!Within, Pay!Lesser
    <2> QED
      BY <1>2, <2>1, <2>2, SumTelescopes
  <1>8. SumOver(w, 1..n) \in Int /\ SumOver(w, 1..n) <= high - low
    <2>1. b[n].max \in Nat /\ n \in 1..n /\ n \in 0..n
      BY <1>2 DEF PayBracket
    <2>2. t[n] = Pay!Lesser(high, b[n].max) - Pay!Lesser(low, b[n].max) /\ t[0] = 0
      BY <1>2, <1>4, <2>1
    <2> QED
      BY <1>7, <2>1, <2>2 DEF Pay!Lesser
  <1>9. 1 * SumOver(g, 1..n) <= PayTop * SumOver(w, 1..n) + SumOver(f, 1..n)
    <2>1. PICK S, k, q : S = 1..n /\ k \in Int /\ k = 1 /\ q \in Int /\ q = PayTop
      BY <1>2
    <2>2. \A x \in S : g[x] \in Int /\ w[x] \in Int /\ f[x] \in Int /\ k * g[x] <= q * w[x] + f[x]
      BY <1>6, <2>1
    <2>3. k * SumOver(g, S) <= q * SumOver(w, S) + SumOver(f, S)
      BY <1>3, <2>1, <2>2, SumWithin
    <2> QED
      BY <2>1, <2>3
  <1>10. PICK F, G : F = SumOver(f, 1..n) /\ G = SumOver(g, 1..n)
    OBVIOUS
  <1>11. F \in Int /\ G \in Int
    BY <1>3, <1>6, <1>10, SumType
  <1>12. G <= PayTop * (high - low) + F
    <2>1. PICK v \in Int : v = SumOver(w, 1..n)
      BY <1>8
    <2>2. PayTop * v <= PayTop * (high - low)
      <3>1. PICK e \in Int : e = high - low
        OBVIOUS
      <3>2. v <= e
        BY <1>8, <2>1, <3>1
      <3> QED
        BY <1>2, <3>1, <3>2, PayGrows
    <2>3. PayTop * v \in Int /\ PayTop * (high - low) \in Int
      BY <1>2, <2>1
    <2> QED
      BY <1>9, <1>10, <1>11, <2>1, <2>2, <2>3
  <1>13. Pay!FederalTax(low) = Pay!Round(F, 100) /\ Pay!FederalTax(high) = Pay!Round(G, 100)
    <2>1. DOMAIN f = 1..n /\ DOMAIN g = 1..n
      BY <1>4
    <2>2. Pay!SumFunction(f) = F /\ Pay!SumFunction(g) = G
      BY <1>10, <2>1, PaySum
    <2> QED
      BY <1>1, <1>2, <1>4, <2>2 DEF Pay!FederalTax
  <1>14. PICK p, q : p = Pay!Round(F, 100) /\ q = Pay!Round(G, 100)
    OBVIOUS
  <1>15. /\ p \in Int /\ 100 * p <= F + 50 /\ F < 100 * p + 50
         /\ q \in Int /\ 100 * q <= G + 50 /\ G < 100 * q + 50
    BY <1>11, <1>14, PayRound
  <1>16. PayTop * (high - low) \in Int
    BY <1>2
  <1> QED
    BY <1>11, <1>12, <1>13, <1>14, <1>15, <1>16

\* A tax of a flat rate.
LEMMA PayFlatRaise ==
  ASSUME NEW r \in Nat, NEW low \in Nat, NEW high \in Nat, low <= high,
         NEW p, p = Pay!Round(low * r, 100), NEW q, q = Pay!Round(high * r, 100)
  PROVE  p \in Int /\ q \in Int /\ 100 * (q - p) < r * (high - low) + 100
  <1>1. PICK x, y : x = low * r /\ y = high * r
    OBVIOUS
  <1>2. x \in Int /\ y \in Int /\ r * (high - low) = y - x
    BY <1>1
  <1>3. /\ p \in Int /\ 100 * p <= x + 50 /\ x < 100 * p + 50
        /\ q \in Int /\ 100 * q <= y + 50 /\ y < 100 * q + 50
    BY <1>1, <1>2, PayRound
  <1> QED
    BY <1>2, <1>3

\* Of two pays the higher one leaves more, but for the rounding of four taxes.
LEMMA PayRaise ==
  ASSUME Pay!PayrollAssumption
  PROVE  Pay!RaiseNeverHurts
  <1>1. SUFFICES ASSUME NEW low \in PayCase.rates, NEW high \in PayCase.rates,
                        NEW d \in PayCase.overrides, NEW ytd, low <= high
                 PROVE  Pay!Calculate(0, low, d, 0, ytd).net
                          <= Pay!Calculate(0, high, d, 0, ytd).net + 3
    BY DEF Pay!RaiseNeverHurts
  <1>2. low \in Nat /\ high \in Nat /\ d \in Nat
    BY DEF Pay!PayrollAssumption
  <1>3. PICK a \in Nat, b \in Nat :
          a = (IF low > d THEN low - d ELSE 0) /\ b = (IF high > d THEN high - d ELSE 0)
    BY <1>2
  <1>4. a <= b /\ b - a <= high - low
    BY <1>1, <1>2, <1>3
  <1>5. PICK s, m, t : s = PayCase.ss_rate /\ m = PayCase.medicare_rate /\ t = PayCase.state_rate
    OBVIOUS
  <1>6. s \in Nat /\ m \in Nat /\ t \in Nat /\ PayTop = 100 - s - m - t /\ PayTop \in Nat
    BY <1>5, PayBrackets DEF PayTop
  <1>7. PICK f1, f2, s1, s2, m1, m2, t1, t2 :
          /\ f1 = Pay!FederalTax(a) /\ f2 = Pay!FederalTax(b)
          /\ s1 = (IF ytd < PayCase.ss_cap THEN Pay!Round(a * s, 100) ELSE 0)
          /\ s2 = (IF ytd < PayCase.ss_cap THEN Pay!Round(b * s, 100) ELSE 0)
          /\ m1 = Pay!Round(a * m, 100) /\ m2 = Pay!Round(b * m, 100)
          /\ t1 = Pay!Round(a * t, 100) /\ t2 = Pay!Round(b * t, 100)
    OBVIOUS
  <1>8. f1 \in Int /\ f2 \in Int /\ 100 * (f2 - f1) < PayTop * (b - a) + 100
    BY <1>3, <1>4, <1>7, PayTaxRaise
  <1>9. m1 \in Int /\ m2 \in Int /\ 100 * (m2 - m1) < m * (b - a) + 100
    BY <1>4, <1>6, <1>7, PayFlatRaise, Zenon
  <1>10. t1 \in Int /\ t2 \in Int /\ 100 * (t2 - t1) < t * (b - a) + 100
    BY <1>4, <1>6, <1>7, PayFlatRaise, Zenon
  <1>11. s1 \in Int /\ s2 \in Int /\ 100 * (s2 - s1) < s * (b - a) + 100
    <2>1. CASE ytd < PayCase.ss_cap
      <3>1. s1 = Pay!Round(a * s, 100) /\ s2 = Pay!Round(b * s, 100)
        BY <1>7, <2>1, Zenon
      <3> QED
        BY <1>4, <1>6, <3>1, PayFlatRaise, Zenon
    <2>2. CASE ~(ytd < PayCase.ss_cap)
      <3>1. s1 = 0 /\ s2 = 0
        BY <1>7, <2>2
      <3>2. s * (b - a) \in Nat
        <4>1. b - a \in Nat
          BY <1>3, <1>4
        <4> QED
          BY <1>6, <4>1
      <3> QED
        BY <3>1, <3>2
    <2> QED
      BY <2>1, <2>2
  <1>12. PayTop * (b - a) + s * (b - a) + m * (b - a) + t * (b - a) = 100 * (b - a)
    <2>1. PICK e \in Nat : e = b - a
      BY <1>3, <1>4
    <2>2. PayTop * e + s * e + m * e + t * e = (PayTop + s + m + t) * e
      BY <1>6, <2>1
    <2>3. PayTop + s + m + t = 100
      BY <1>6
    <2> QED
      BY <2>1, <2>2, <2>3
  <1>13. PICK u, v, x, y : /\ u = PayTop * (b - a) /\ v = s * (b - a)
                           /\ x = m * (b - a) /\ y = t * (b - a)
    OBVIOUS
  <1>14. u \in Int /\ v \in Int /\ x \in Int /\ y \in Int
    BY <1>3, <1>6, <1>13
  <1>15. (f2 + s2 + m2 + t2) - (f1 + s1 + m1 + t1) <= (b - a) + 3
    BY <1>3, <1>8, <1>9, <1>10, <1>11, <1>12, <1>13, <1>14
  <1>16. /\ Pay!Calculate(0, low, d, 0, ytd).net = low - ((f1 + s1 + m1 + t1) + d + 0)
         /\ Pay!Calculate(0, high, d, 0, ytd).net = high - ((f2 + s2 + m2 + t2) + d + 0)
    BY <1>3, <1>5, <1>7 DEF Pay!Calculate
  <1> QED
    BY <1>2, <1>3, <1>4, <1>8, <1>9, <1>10, <1>11, <1>15, <1>16

-----------------------------------------------------------------------------
(* Pay runs.  The inductive invariant.                                     *)

\* The posted runs of a year.
PayPosted(rs, y) == {id \in DOMAIN rs : rs[id].status = "posted" /\ rs[id].year = y}

\* The items of a run: their keys, and the table of them.
PayRowsOf(its, id) == {k \in DOMAIN its : its[k].run = id}

PayTaken(its, id) == [k \in PayRowsOf(its, id) |-> its[k]]

\* The items of an employee in the runs ids, and what they add up to.
PayOf(its, e, ids) == {k \in DOMAIN its : k[2] = e /\ its[k].run \in ids}

PayColumn(its, S, column) == [k \in S |-> its[k][column]]

PayGross(its, e, ids) == SumOver(PayColumn(its, PayOf(its, e, ids), "gross"), PayOf(its, e, ids))
PayFuta(its, e, ids)  == SumOver(PayColumn(its, PayOf(its, e, ids), "futa"), PayOf(its, e, ids))

\* What the wage base leaves after pay of g.
PayLeft(c, g) == IF g < PayrollCase[c].futa_cap THEN PayrollCase[c].futa_cap - g ELSE 0

\* The columns of an item add up, but for what its net pay lacks.
PayAdds(x) == x.net = x.gross - (x.withheld + x.other + x.pre)

\* Types.
PayPeople(c, rt, dd) == /\ rt \in [PayrollCase[c].employees -> Nat]
                        /\ dd \subseteq PayrollCase[c].deductions /\ IsFiniteSet(dd)

PayRunsTyped(c, rs) == rs \in Seq(Payroll(c)!Run) /\ Len(rs) <= PayrollCase[c].runs

PayTable(c, its, n) ==
  /\ its = [k \in DOMAIN its |-> its[k]] /\ IsFiniteSet(DOMAIN its)
  /\ DOMAIN its \subseteq Nat \X PayrollCase[c].employees
  /\ \A k \in DOMAIN its : its[k] \in Payroll(c)!Item /\ its[k].run \in 1..n /\ PayAdds(its[k])

PayEntry(c) == [run: Nat, chart: PayrollCase[c].charts, debit: Int, credit: Int]

PayJournal(c, es, n) == /\ es \in Seq(PayEntry(c)) /\ Len(es) <= PayrollCase[c].entries
                        /\ \A i \in DOMAIN es : es[i].run \in 1..n

PayTypesOK(c) == /\ PayPeople(c, rate, deducted) /\ PayRunsTyped(c, runs)
                 /\ PayTable(c, items, Len(runs)) /\ PayJournal(c, je, Len(runs))
                 /\ raced \in BOOLEAN

\* The status a request has read its run in.
PayStatus(op) == IF op \in {"calculate", "insert"} THEN "draft"
                 ELSE IF op = "post" THEN "approved" ELSE "calculated"

\* The items a request is about to insert are of its run.
PayComputed(c, t) ==
  /\ DOMAIN t.new \subseteq PayrollCase[c].employees
  /\ \A e \in DOMAIN t.new :
       t.new[e] \in Payroll(c)!Item /\ t.new[e].run = t.run /\ PayAdds(t.new[e])

\* A request that has read one of n runs.
PayUnderway(c, t, n) ==
  /\ t = [op |-> t.op, run |-> t.run, read |-> t.read, items |-> t.items, new |-> t.new,
          seen |-> t.seen]
  /\ t.op \in {"calculate", "insert", "override", "approve", "post"} /\ t.run \in 1..n
  /\ t.read.status = PayStatus(t.op) /\ t.seen \subseteq 1..PayrollCase[c].runs
  /\ PayTable(c, t.items, n)
  /\ t.op = "insert" => PayComputed(c, t)

\* Every slot is free or has read a run.
PayTxnOK(c, tx, n) ==
  /\ tx = [r \in PayrollCase[c].req |-> tx[r]]
  /\ \A r \in PayrollCase[c].req : tx[r] = Payroll(c)!Idle \/ PayUnderway(c, tx[r], n)

\* The runs a request counted are posted, and their pay is what it was.
PayFresh(c, t, its, rs) ==
  t.op = "insert" =>
    /\ t.seen \subseteq PayPosted(rs, rs[t.run].year)
    /\ \A e \in DOMAIN t.new : t.new[e].futa <= PayLeft(c, PayGross(its, e, t.seen))

PayAllFresh(c, tx, its, rs) == \A r \in PayrollCase[c].req : PayFresh(c, tx[r], its, rs)

\* The totals of a run are those of its.
PayAddsUp(c, run, its) ==
  /\ run.gross = Payroll(c)!Added(its, "gross") /\ run.net = Payroll(c)!Added(its, "net")
  /\ run.deductions = Payroll(c)!Added(its, "gross") - Payroll(c)!Added(its, "net")
  /\ run.employer = Payroll(c)!Added(its, "employer")

\* A run counted posted runs of its year, and has the totals of its items.
PayRunOK(c, its, rs, id) ==
  /\ rs[id].seen \subseteq PayPosted(rs, rs[id].year)
  /\ rs[id].status # "draft" => PayAddsUp(c, rs[id], PayTaken(its, id))

\* An employee has one item in a run, which used what the runs counted had left.
PayItemsOK(c, its, rs, id) ==
  /\ \A k, l \in PayRowsOf(its, id) : k[2] = l[2] => k = l
  /\ \A k \in PayRowsOf(its, id) : its[k].futa <= PayLeft(c, PayGross(its, k[2], rs[id].seen))

\* Entry i is that of its run, and off balance by what the net pay of its items lacks.
PayBooked(c, its, rs, es, i) ==
  /\ rs[es[i].run].status = "posted" /\ rs[es[i].run].je = i
  /\ es[i].chart = Payroll(c)!Codes =>
       es[i].debit - es[i].credit = Payroll(c)!Added(PayTaken(its, es[i].run), "pre")

\* Of two posted runs of a year one counted the other.
PayCounted(rs, y) ==
  \A a, b \in PayPosted(rs, y) : a # b => a \in rs[b].seen \/ b \in rs[a].seen

\* No override took a pay below the base it had used.
PayKept(its, ids) == \A k \in DOMAIN its : its[k].run \in ids => its[k].futa <= its[k].gross

\* Then nobody uses more than the cap.
PayCapped(c, its, rs, y) ==
  PayCounted(rs, y) /\ PayKept(its, PayPosted(rs, y)) =>
    \A e \in PayrollCase[c].employees : PayFuta(its, e, PayPosted(rs, y)) <= PayrollCase[c].futa_cap

\* What holds unless requests overlapped.
PayOK(c, its, rs, es) ==
  /\ \A id \in DOMAIN rs : PayRunOK(c, its, rs, id) /\ PayItemsOK(c, its, rs, id)
  /\ \A i \in DOMAIN es : PayBooked(c, its, rs, es, i)
  /\ \A y \in PayrollCase[c].years : PayCapped(c, its, rs, y)

PayIInv(c) ==
  /\ PayTypesOK(c) /\ PayTxnOK(c, txn, Len(runs))
  /\ ~raced => PayOK(c, items, runs, je) /\ PayAllFresh(c, txn, items, runs)

-----------------------------------------------------------------------------
(* Rows, slots and columns.                                                *)

\* What the types say of runs and entries, one by one.
LEMMA PayTyped ==
  ASSUME NEW c, PayTypesOK(c)
  PROVE  /\ Len(runs) \in Nat /\ DOMAIN runs = 1..Len(runs) /\ Len(runs) <= PayrollCase[c].runs
         /\ \A id \in DOMAIN runs : runs[id] \in Payroll(c)!Run
         /\ Len(je) \in Nat /\ DOMAIN je = 1..Len(je) /\ je \in Seq(PayEntry(c))
         /\ \A i \in DOMAIN je : je[i] \in PayEntry(c) /\ je[i].run \in DOMAIN runs
  <1>1. /\ runs \in Seq(Payroll(c)!Run) /\ Len(runs) <= PayrollCase[c].runs
        /\ je \in Seq(PayEntry(c)) /\ \A i \in DOMAIN je : je[i].run \in 1..Len(runs)
    BY DEF PayTypesOK, PayRunsTyped, PayJournal
  <1>2. /\ Len(runs) \in Nat /\ DOMAIN runs = 1..Len(runs)
        /\ Len(je) \in Nat /\ DOMAIN je = 1..Len(je)
    BY <1>1, LenProperties
  <1>3. \A id \in DOMAIN runs : runs[id] \in Payroll(c)!Run
    BY <1>1, <1>2, ElementOfSeq
  <1>4. \A i \in DOMAIN je : je[i] \in PayEntry(c)
    BY <1>1, <1>2, ElementOfSeq
  <1> QED
    BY <1>1, <1>2, <1>3, <1>4

\* The library sum of Payroll(c) is SumOver.
LEMMA PaySumOf ==
  ASSUME NEW c, NEW h
  PROVE  Payroll(c)!SumFunction(h) = SumOver(h, DOMAIN h)
  <1>1. Payroll(c)!SumFunction(h) = SumFunctionOnSet(h, DOMAIN h)
    BY Zenon DEF Payroll!SumFunction, Payroll!SumFunctionOnSet, Payroll!FoldFunctionOnSet,
                 Payroll!MapThenFoldSet, SumFunctionOnSet, FoldFunctionOnSet, MapThenFoldSet
  <1> QED
    BY <1>1, SumFunctionIs

\* A column of items added up is a sum over their keys.
LEMMA PayAdded ==
  ASSUME NEW c, NEW its, NEW column
  PROVE  Payroll(c)!Added(its, column) = SumOver(PayColumn(its, DOMAIN its, column), DOMAIN its)
  <1>1. PICK h : h = PayColumn(its, DOMAIN its, column)
    OBVIOUS
  <1>2. DOMAIN h = DOMAIN its
    BY <1>1 DEF PayColumn
  <1>3. Payroll(c)!Added(its, column) = Payroll(c)!SumFunction(h)
    BY <1>1, Zenon DEF PayColumn, Payroll!Added
  <1> QED
    BY <1>1, <1>2, <1>3, PaySumOf

\* The rows an operation sums up are items.
PayRows(c, its) == IsFiniteSet(DOMAIN its) /\ \A k \in DOMAIN its : its[k] \in Payroll(c)!Item

\* The totals are integers.
LEMMA PayAddedType ==
  ASSUME NEW c, NEW its, PayRows(c, its)
  PROVE  \A x \in {"gross", "withheld", "other", "pre", "net", "employer"} :
           Payroll(c)!Added(its, x) \in Int
  <1>1. SUFFICES ASSUME NEW x \in {"gross", "withheld", "other", "pre", "net", "employer"}
                 PROVE  Payroll(c)!Added(its, x) \in Int
    OBVIOUS
  <1>2. PICK h, S : h = PayColumn(its, DOMAIN its, x) /\ S = DOMAIN its
    OBVIOUS
  <1>3. \A k \in S : h[k] \in Int
    <2>1. SUFFICES ASSUME NEW k \in S PROVE h[k] \in Int
      OBVIOUS
    <2>2. PICK y : y = its[k] /\ y \in Payroll(c)!Item
      BY <1>2 DEF PayRows
    <2>3. h[k] = y[x]
      BY <1>2, <2>2 DEF PayColumn
    <2>4. /\ y.gross \in Int /\ y.withheld \in Int /\ y.other \in Int /\ y.pre \in Int
          /\ y.net \in Int /\ y.employer \in Int
      BY <2>2 DEF Payroll!Item
    <2> QED
      BY <2>3, <2>4
  <1>4. SumOver(h, S) \in Int
    BY <1>2, <1>3, SumType DEF PayRows
  <1> QED
    BY <1>2, <1>4, PayAdded

\* What the columns of a table that adds up come to.
LEMMA PayColumnsAdd ==
  ASSUME NEW c, NEW its, PayRows(c, its), \A k \in DOMAIN its : PayAdds(its[k])
  PROVE  Payroll(c)!Added(its, "gross")
           = Payroll(c)!Added(its, "withheld") + Payroll(c)!Added(its, "other")
             + Payroll(c)!Added(its, "pre") + Payroll(c)!Added(its, "net")
  <1>1. PICK S, g, w, o, p, n :
          /\ S = DOMAIN its /\ g = PayColumn(its, S, "gross") /\ w = PayColumn(its, S, "withheld")
          /\ o = PayColumn(its, S, "other") /\ p = PayColumn(its, S, "pre")
          /\ n = PayColumn(its, S, "net")
    OBVIOUS
  <1>2. \A k \in S : /\ g[k] \in Int /\ w[k] \in Int /\ o[k] \in Int /\ p[k] \in Int /\ n[k] \in Int
                     /\ n[k] = g[k] - (w[k] + o[k] + p[k])
    <2>1. SUFFICES ASSUME NEW k \in S
                   PROVE  /\ g[k] \in Int /\ w[k] \in Int /\ o[k] \in Int /\ p[k] \in Int
                          /\ n[k] \in Int /\ n[k] = g[k] - (w[k] + o[k] + p[k])
      OBVIOUS
    <2>2. PICK y : y = its[k] /\ y \in Payroll(c)!Item /\ PayAdds(y)
      BY <1>1 DEF PayRows
    <2>3. /\ g[k] = y.gross /\ w[k] = y.withheld /\ o[k] = y.other /\ p[k] = y.pre
          /\ n[k] = y.net
      BY <1>1, <2>2 DEF PayColumn
    <2>4. /\ y.gross \in Int /\ y.withheld \in Int /\ y.other \in Int /\ y.pre \in Int
          /\ y.net \in Int
      BY <2>2 DEF Payroll!Item
    <2> QED
      BY <2>2, <2>3, <2>4 DEF PayAdds
  <1>3. PICK a, b : a = [k \in S |-> w[k] + o[k]] /\ b = [k \in S |-> p[k] + n[k]]
    OBVIOUS
  <1>4. \A k \in S : /\ a[k] \in Int /\ b[k] \in Int
                     /\ w[k] + o[k] = 1 * a[k] /\ p[k] + n[k] = 1 * b[k] /\ a[k] + b[k] = 1 * g[k]
    BY <1>2, <1>3
  <1>5. IsFiniteSet(S) /\ 1 \in Int
    BY <1>1 DEF PayRows
  <1>6. SumOver(w, S) + SumOver(o, S) = 1 * SumOver(a, S)
    BY <1>2, <1>4, <1>5, SumSplits
  <1>7. SumOver(p, S) + SumOver(n, S) = 1 * SumOver(b, S)
    BY <1>2, <1>4, <1>5, SumSplits
  <1>8. SumOver(a, S) + SumOver(b, S) = 1 * SumOver(g, S)
    BY <1>2, <1>4, <1>5, SumSplits
  <1>9. /\ SumOver(w, S) \in Int /\ SumOver(o, S) \in Int /\ SumOver(a, S) \in Int
        /\ SumOver(p, S) \in Int /\ SumOver(n, S) \in Int /\ SumOver(b, S) \in Int
        /\ SumOver(g, S) \in Int
    BY <1>2, <1>4, <1>5, SumType
  <1>10. SumOver(g, S) = SumOver(w, S) + SumOver(o, S) + SumOver(p, S) + SumOver(n, S)
    BY <1>6, <1>7, <1>8, <1>9
  <1> QED
    BY <1>1, <1>10, PayAdded

\* What Totals writes is a run whose totals are those of the items.
LEMMA PayTotals ==
  ASSUME NEW c, NEW run \in Payroll(c)!Run, NEW its, PayRows(c, its), NEW new,
         new = Payroll(c)!Totals(run, its)
  PROVE  /\ new \in Payroll(c)!Run /\ PayAddsUp(c, new, its)
         /\ new.year = run.year /\ new.status = run.status /\ new.je = run.je
         /\ new.seen = run.seen
  <1>1. PICK g, n, p : /\ g = Payroll(c)!Added(its, "gross") /\ n = Payroll(c)!Added(its, "net")
                       /\ p = Payroll(c)!Added(its, "employer")
    OBVIOUS
  <1>2. g \in Int /\ n \in Int /\ p \in Int /\ g - n \in Int
    BY <1>1, PayAddedType
  <1>3. new = [run EXCEPT !.gross = g, !.net = n, !.deductions = g - n, !.employer = p]
    BY <1>1 DEF Payroll!Totals
  <1>4. /\ new \in Payroll(c)!Run
        /\ new.gross = g /\ new.net = n /\ new.deductions = g - n /\ new.employer = p
        /\ new.year = run.year /\ new.status = run.status /\ new.je = run.je
        /\ new.seen = run.seen
    BY <1>2, <1>3 DEF Payroll!Run
  <1> QED
    BY <1>1, <1>4 DEF PayAddsUp

\* A run with these totals is what Totals makes of it.
LEMMA PayTotalsHold ==
  ASSUME NEW c, NEW run \in Payroll(c)!Run, NEW its, PayAddsUp(c, run, its)
  PROVE  run = Payroll(c)!Totals(run, its)
  <1>1. PICK g, n, p : /\ g = Payroll(c)!Added(its, "gross") /\ n = Payroll(c)!Added(its, "net")
                       /\ p = Payroll(c)!Added(its, "employer")
    OBVIOUS
  <1>2. run.gross = g /\ run.net = n /\ run.deductions = g - n /\ run.employer = p
    BY <1>1 DEF PayAddsUp
  <1>3. Payroll(c)!Totals(run, its)
          = [run EXCEPT !.gross = g, !.net = n, !.deductions = g - n, !.employer = p]
    BY <1>1 DEF Payroll!Totals
  <1>4. run = [year |-> run.year, status |-> run.status, gross |-> run.gross, net |-> run.net,
               deductions |-> run.deductions, employer |-> run.employer, je |-> run.je,
               seen |-> run.seen]
    BY DEF Payroll!Run
  <1>5. run = [run EXCEPT !.gross = g, !.net = n, !.deductions = g - n, !.employer = p]
    BY <1>2, <1>4
  <1> QED
    BY <1>3, <1>5

-----------------------------------------------------------------------------
(* One run changes, the others stay.                                       *)

\* The rows of the other runs are the same.
PaySame(its, new, id) ==
  /\ {k \in DOMAIN its : its[k].run # id} = {k \in DOMAIN new : new[k].run # id}
  /\ \A k \in DOMAIN its : its[k].run # id => new[k] = its[k]

\* Items that a step left alone are found where they were.
LEMMA PaySameOf ==
  ASSUME NEW its, NEW new, NEW id, PaySame(its, new, id), NEW ids, id \notin ids, NEW e
  PROVE  /\ PayOf(new, e, ids) = PayOf(its, e, ids)
         /\ PayGross(new, e, ids) = PayGross(its, e, ids)
         /\ PayFuta(new, e, ids) = PayFuta(its, e, ids)
  <1>1. \A k : k \in PayOf(new, e, ids) <=> k \in PayOf(its, e, ids)
    BY DEF PaySame, PayOf
  <1>2. PayOf(new, e, ids) = PayOf(its, e, ids)
    BY <1>1
  <1>3. PICK S : S = PayOf(its, e, ids)
    OBVIOUS
  <1>4. \A k \in S : new[k] = its[k]
    BY <1>3 DEF PaySame, PayOf
  <1>5. /\ PayColumn(new, S, "gross") = PayColumn(its, S, "gross")
        /\ PayColumn(new, S, "futa") = PayColumn(its, S, "futa")
    BY <1>4 DEF PayColumn
  <1> QED
    BY <1>2, <1>3, <1>5 DEF PayGross, PayFuta

\* A run that a step left alone has the items it had.
LEMMA PaySameTaken ==
  ASSUME NEW its, NEW new, NEW id, PaySame(its, new, id), NEW x, x # id
  PROVE  PayRowsOf(new, x) = PayRowsOf(its, x) /\ PayTaken(new, x) = PayTaken(its, x)
  <1>1. \A k : k \in PayRowsOf(new, x) <=> k \in PayRowsOf(its, x)
    BY DEF PaySame, PayRowsOf
  <1>2. PayRowsOf(new, x) = PayRowsOf(its, x)
    BY <1>1
  <1>3. \A k \in PayRowsOf(its, x) : new[k] = its[k]
    BY DEF PaySame, PayRowsOf
  <1> QED
    BY <1>2, <1>3 DEF PayTaken

\* Of the runs, id alone changes, in the same year; it is not posted yet.
PayWritten(rs, new, id) ==
  /\ DOMAIN new = DOMAIN rs /\ id \in DOMAIN rs
  /\ new[id].year = rs[id].year /\ rs[id].status # "posted"
  /\ \A x \in DOMAIN rs : x # id => new[x] = rs[x]

\* Writing a run that is not posted, as one that is not, posts nothing.
LEMMA PaySamePosted ==
  ASSUME NEW rs, NEW new, NEW id, PayWritten(rs, new, id), new[id].status # "posted", NEW y
  PROVE  PayPosted(new, y) = PayPosted(rs, y) /\ id \notin PayPosted(rs, y)
  <1>1. \A x : x \in PayPosted(new, y) <=> x \in PayPosted(rs, y)
    BY DEF PayWritten, PayPosted
  <1> QED
    BY <1>1 DEF PayWritten, PayPosted

\* The other runs are as good as they were.
LEMMA PayOthers ==
  ASSUME NEW c, NEW its, NEW rs, NEW id, NEW its2, NEW rs2,
         PaySame(its, its2, id), PayWritten(rs, rs2, id), rs2[id].status # "posted",
         NEW x \in DOMAIN rs, x # id, PayRunOK(c, its, rs, x), PayItemsOK(c, its, rs, x)
  PROVE  PayRunOK(c, its2, rs2, x) /\ PayItemsOK(c, its2, rs2, x)
  <1>1. rs2[x] = rs[x] /\ rs[x].seen \subseteq PayPosted(rs, rs[x].year)
    BY DEF PayWritten, PayRunOK
  <1>2. PICK y, S : y = rs[x].year /\ S = rs[x].seen
    OBVIOUS
  <1>3. PayPosted(rs2, y) = PayPosted(rs, y) /\ id \notin PayPosted(rs, y)
    BY PaySamePosted
  <1>4. id \notin S
    BY <1>1, <1>2, <1>3
  <1>5. PayRowsOf(its2, x) = PayRowsOf(its, x) /\ PayTaken(its2, x) = PayTaken(its, x)
    BY PaySameTaken
  <1>6. PayRunOK(c, its2, rs2, x)
    BY <1>1, <1>2, <1>3, <1>5 DEF PayRunOK
  <1>7. PayItemsOK(c, its2, rs2, x)
    <2>1. \A k \in PayRowsOf(its2, x) : /\ its2[k] = its[k]
                                        /\ PayGross(its2, k[2], S) = PayGross(its, k[2], S)
      <3>1. \A k \in PayRowsOf(its, x) : its2[k] = its[k]
        BY DEF PaySame, PayRowsOf
      <3>2. \A e : PayGross(its2, e, S) = PayGross(its, e, S)
        BY <1>4, PaySameOf
      <3> QED
        BY <1>5, <3>1, <3>2
    <2> QED
      BY <1>1, <1>2, <1>5, <2>1 DEF PayItemsOK
  <1> QED
    BY <1>6, <1>7

\* A run that is not posted is written, with its items.
LEMMA PayOKStays ==
  ASSUME NEW c, NEW its, NEW rs, NEW es, NEW id, NEW its2, NEW rs2,
         PayOK(c, its, rs, es), \A i \in DOMAIN es : es[i].run \in DOMAIN rs,
         PaySame(its, its2, id), PayWritten(rs, rs2, id), rs2[id].status # "posted",
         PayRunOK(c, its2, rs2, id), PayItemsOK(c, its2, rs2, id)
  PROVE  PayOK(c, its2, rs2, es)
  <1>1. ASSUME NEW x \in DOMAIN rs2 PROVE PayRunOK(c, its2, rs2, x) /\ PayItemsOK(c, its2, rs2, x)
    <2>1. CASE x = id
      BY <2>1
    <2>2. CASE x # id
      <3>1. x \in DOMAIN rs
        BY DEF PayWritten
      <3>2. PayRunOK(c, its, rs, x) /\ PayItemsOK(c, its, rs, x)
        BY <3>1 DEF PayOK
      <3> QED
        BY <2>2, <3>1, <3>2, PayOthers
    <2> QED
      BY <2>1, <2>2
  <1>2. ASSUME NEW i \in DOMAIN es PROVE PayBooked(c, its2, rs2, es, i)
    <2>1. PICK x : x = es[i].run /\ x \in DOMAIN rs
      OBVIOUS
    <2>2. PayBooked(c, its, rs, es, i)
      BY DEF PayOK
    <2>3. x # id
      BY <2>1, <2>2 DEF PayBooked, PayWritten
    <2>4. rs2[x] = rs[x] /\ PayTaken(its2, x) = PayTaken(its, x)
      BY <2>1, <2>3, PaySameTaken DEF PayWritten
    <2> QED
      BY <2>1, <2>2, <2>4 DEF PayBooked
  <1>3. ASSUME NEW y \in PayrollCase[c].years PROVE PayCapped(c, its2, rs2, y)
    <2>1. PICK P : P = PayPosted(rs, y)
      OBVIOUS
    <2>2. PayPosted(rs2, y) = P /\ id \notin P
      BY <2>1, PaySamePosted
    <2>3. \A a \in P : rs2[a] = rs[a]
      BY <2>1, <2>2 DEF PayWritten, PayPosted
    <2>4. PayCounted(rs2, y) => PayCounted(rs, y)
      BY <2>1, <2>2, <2>3 DEF PayCounted
    <2>5. PayKept(its2, P) => PayKept(its, P)
      <3>1. \A k \in DOMAIN its : its[k].run \in P => k \in DOMAIN its2 /\ its2[k] = its[k]
        BY <2>2 DEF PaySame
      <3> QED
        BY <3>1 DEF PayKept
    <2>6. \A e : PayFuta(its2, e, P) = PayFuta(its, e, P)
      BY <2>2, PaySameOf
    <2>7. PayCapped(c, its, rs, y)
      BY DEF PayOK
    <2> QED
      BY <2>1, <2>2, <2>4, <2>5, <2>6, <2>7 DEF PayCapped
  <1> QED
    BY <1>1, <1>2, <1>3 DEF PayOK

\* Posted runs stay, and so does what a request counted of them.
LEMMA PayFreshStays ==
  ASSUME NEW c, NEW its, NEW rs, NEW id, NEW its2, NEW rs2, NEW t,
         PayFresh(c, t, its, rs), t.op = "insert" => t.run \in DOMAIN rs,
         PaySame(its, its2, id), PayWritten(rs, rs2, id)
  PROVE  PayFresh(c, t, its2, rs2)
  <1>1. SUFFICES ASSUME t.op = "insert"
                 PROVE  /\ t.seen \subseteq PayPosted(rs2, rs2[t.run].year)
                        /\ \A e \in DOMAIN t.new :
                             t.new[e].futa <= PayLeft(c, PayGross(its2, e, t.seen))
    BY DEF PayFresh
  <1>2. PICK y, S : y = rs[t.run].year /\ S = t.seen
    OBVIOUS
  <1>3. /\ S \subseteq PayPosted(rs, y)
        /\ \A e \in DOMAIN t.new : t.new[e].futa <= PayLeft(c, PayGross(its, e, S))
    BY <1>1, <1>2 DEF PayFresh
  <1>4. rs2[t.run].year = y
    BY <1>1, <1>2 DEF PayWritten
  <1>5. id \notin S
    BY <1>3 DEF PayPosted, PayWritten
  <1>6. S \subseteq PayPosted(rs2, y)
    BY <1>3, <1>5 DEF PayPosted, PayWritten
  <1>7. \A e : PayGross(its2, e, S) = PayGross(its, e, S)
    BY <1>5, PaySameOf
  <1> QED
    BY <1>2, <1>3, <1>4, <1>6, <1>7

-----------------------------------------------------------------------------
(* Slots.                                                                  *)

\* A request that read one of n runs read one of more.
LEMMA PaySlotsGrow ==
  ASSUME NEW c, NEW tx, NEW n \in Nat, NEW m \in Nat, n <= m, PayTxnOK(c, tx, n)
  PROVE  PayTxnOK(c, tx, m)
  <1>1. ASSUME NEW its, PayTable(c, its, n) PROVE PayTable(c, its, m)
    <2>1. \A k \in 1..n : k \in 1..m
      OBVIOUS
    <2> QED
      BY <1>1, <2>1 DEF PayTable
  <1>2. ASSUME NEW t, PayUnderway(c, t, n) PROVE PayUnderway(c, t, m)
    <2>1. t.run \in 1..m
      BY <1>2 DEF PayUnderway
    <2> QED
      BY <1>1, <1>2, <2>1 DEF PayUnderway
  <1> QED
    BY <1>2 DEF PayTxnOK

\* One slot is changed.
LEMMA PaySlot ==
  ASSUME NEW c, NEW tx, NEW n, PayTxnOK(c, tx, n), NEW r \in PayrollCase[c].req, NEW t,
         t = Payroll(c)!Idle \/ PayUnderway(c, t, n), NEW new, new = [tx EXCEPT ![r] = t]
  PROVE  /\ PayTxnOK(c, new, n)
         /\ \A its, rs : PayAllFresh(c, tx, its, rs) /\ PayFresh(c, t, its, rs)
                           => PayAllFresh(c, new, its, rs)
  <1>1. /\ new = [x \in PayrollCase[c].req |-> new[x]]
        /\ \A x \in PayrollCase[c].req : new[x] = IF x = r THEN t ELSE tx[x]
    BY DEF PayTxnOK
  <1>2. PayTxnOK(c, new, n)
    BY <1>1 DEF PayTxnOK
  <1>3. ASSUME NEW its, NEW rs, PayAllFresh(c, tx, its, rs), PayFresh(c, t, its, rs)
        PROVE  PayAllFresh(c, new, its, rs)
    <2>1. SUFFICES ASSUME NEW x \in PayrollCase[c].req PROVE PayFresh(c, new[x], its, rs)
      BY DEF PayAllFresh
    <2>2. PayFresh(c, tx[x], its, rs)
      BY <1>3 DEF PayAllFresh
    <2>3. new[x] = t \/ new[x] = tx[x]
      BY <1>1
    <2> QED
      BY <1>3, <2>2, <2>3
  <1> QED
    BY <1>2, <1>3

\* A slot that is free counted nothing.
LEMMA PayIdle ==
  ASSUME NEW c, NEW its, NEW rs
  PROVE  PayFresh(c, Payroll(c)!Idle, its, rs)
  BY DEF PayFresh, Payroll!Idle

\* What a slot that is no longer idle holds.
LEMMA PayHolds ==
  ASSUME NEW c, PayIInv(c), NEW r \in PayrollCase[c].req, NEW t, t = txn[r], t.op # "none"
  PROVE  PayUnderway(c, t, Len(runs)) /\ t.run \in DOMAIN runs
  <1>1. PayTypesOK(c) /\ PayTxnOK(c, txn, Len(runs))
    BY DEF PayIInv
  <1>2. t # Payroll(c)!Idle
    BY DEF Payroll!Idle
  <1>3. PayUnderway(c, t, Len(runs))
    BY <1>1, <1>2 DEF PayTxnOK
  <1>4. DOMAIN runs = 1..Len(runs)
    BY <1>1, PayTyped
  <1> QED
    BY <1>3, <1>4 DEF PayUnderway

\* What is no write at all.
LEMMA PayReading ==
  ASSUME NEW c, PayIInv(c), NEW r \in PayrollCase[c].req, NEW t,
         t = Payroll(c)!Idle \/ PayUnderway(c, t, Len(runs)),
         ~raced => PayFresh(c, t, items, runs), txn' = [txn EXCEPT ![r] = t],
         UNCHANGED <<rate, deducted, runs, items, je, raced>>
  PROVE  PayIInv(c)'
  <1>1. PayTypesOK(c)'
    BY DEF PayIInv, PayTypesOK
  <1>2. PICK n, its, rs : n = Len(runs) /\ its = items /\ rs = runs
    OBVIOUS
  <1>3. PayTxnOK(c, txn', n) /\ (~raced => PayAllFresh(c, txn', its, rs))
    <2>1. PayTxnOK(c, txn, n) /\ (~raced => PayAllFresh(c, txn, its, rs) /\ PayFresh(c, t, its, rs))
      BY <1>2 DEF PayIInv
    <2> QED
      BY <1>2, <2>1, PaySlot
  <1>4. n = Len(runs') /\ its = items' /\ rs = runs'
    BY <1>2
  <1> QED
    BY <1>1, <1>3, <1>4 DEF PayIInv

-----------------------------------------------------------------------------
(* The steps that write no run of a request.                               *)

\* A step that changes employees or deductions only.
LEMMA PayPeopleStep ==
  ASSUME NEW c, PayIInv(c), PayPeople(c, rate', deducted'),
         UNCHANGED <<runs, items, je, txn, raced>>
  PROVE  PayIInv(c)'
  <1>1. PayTypesOK(c)'
    BY DEF PayIInv, PayTypesOK
  <1> QED
    BY <1>1 DEF PayIInv

\* An employee is created, changed or deactivated.
LEMMA PayEmployeeStep ==
  ASSUME NEW c, Payroll(c)!PayrollAssumption, PayIInv(c), NEW e \in PayrollCase[c].employees,
         NEW p \in PayrollCase[c].rates \cup {0}, Payroll(c)!UpdateEmployee(e, p)
  PROVE  PayIInv(c)'
  <1>1. p \in Nat
    BY DEF Payroll!PayrollAssumption
  <1>2. PayPeople(c, rate, deducted)
    BY DEF PayIInv, PayTypesOK
  <1>3. rate' = [rate EXCEPT ![e] = p] /\ UNCHANGED <<deducted, runs, items, je, txn, raced>>
    BY DEF Payroll!UpdateEmployee
  <1>4. PayPeople(c, rate', deducted')
    BY <1>1, <1>2, <1>3 DEF PayPeople
  <1> QED
    BY <1>3, <1>4, PayPeopleStep

\* A deduction is created or deleted.
LEMMA PayDeductionStep ==
  ASSUME NEW c, PayIInv(c), NEW d \in PayrollCase[c].deductions, Payroll(c)!SetDeduction(d)
  PROVE  PayIInv(c)'
  <1>1. PayPeople(c, rate, deducted)
    BY DEF PayIInv, PayTypesOK
  <1>2. /\ deducted' = (deducted \ {d}) \cup ({d} \ deducted)
        /\ UNCHANGED <<rate, runs, items, je, txn, raced>>
    BY DEF Payroll!SetDeduction, Payroll!SymDiff
  <1>3. IsFiniteSet(deducted \ {d}) /\ IsFiniteSet(deducted \cup {d})
    BY <1>1, FS_Subset, FS_AddElement DEF PayPeople
  <1>4. deducted' = deducted \ {d} \/ deducted' = deducted \cup {d}
    BY <1>2
  <1>5. PayPeople(c, rate', deducted')
    BY <1>1, <1>2, <1>3, <1>4 DEF PayPeople
  <1> QED
    BY <1>2, <1>5, PayPeopleStep

\* A draft has no items, and nothing was counted before it.
LEMMA PayDrafted ==
  ASSUME NEW c, NEW its, NEW rs, NEW rs2, NEW es, NEW n \in Nat, DOMAIN rs = 1..n,
         DOMAIN rs2 = 1..(n + 1), \A x \in 1..n : rs2[x] = rs[x],
         rs2[n + 1].status = "draft", rs2[n + 1].seen = {},
         \A k \in DOMAIN its : its[k].run \in 1..n, \A i \in DOMAIN es : es[i].run \in 1..n,
         PayOK(c, its, rs, es)
  PROVE  /\ PayOK(c, its, rs2, es)
         /\ \A t : PayFresh(c, t, its, rs) /\ (t.op = "insert" => t.run \in 1..n)
                     => PayFresh(c, t, its, rs2)
  <1>1. \A y : PayPosted(rs2, y) = PayPosted(rs, y)
    <2>1. SUFFICES ASSUME NEW y PROVE PayPosted(rs2, y) = PayPosted(rs, y)
      OBVIOUS
    <2>2. \A x : x \in PayPosted(rs2, y) <=> x \in PayPosted(rs, y)
      BY DEF PayPosted
    <2> QED
      BY <2>2
  <1>2. ASSUME NEW x \in DOMAIN rs2 PROVE PayRunOK(c, its, rs2, x) /\ PayItemsOK(c, its, rs2, x)
    <2>1. CASE x \in 1..n
      <3>1. PayRunOK(c, its, rs, x) /\ PayItemsOK(c, its, rs, x) /\ rs2[x] = rs[x]
        BY <2>1 DEF PayOK
      <3> QED
        BY <1>1, <3>1 DEF PayRunOK, PayItemsOK
    <2>2. CASE x = n + 1
      <3>1. PayRowsOf(its, x) = {}
        BY <2>2 DEF PayRowsOf
      <3> QED
        BY <2>2, <3>1 DEF PayRunOK, PayItemsOK
    <2> QED
      BY <2>1, <2>2
  <1>3. \A i \in DOMAIN es : PayBooked(c, its, rs2, es, i)
    BY DEF PayOK, PayBooked
  <1>4. \A y : PayCounted(rs2, y) <=> PayCounted(rs, y)
    <2>1. \A y : \A x \in PayPosted(rs, y) : rs2[x] = rs[x]
      BY DEF PayPosted
    <2> QED
      BY <1>1, <2>1 DEF PayCounted
  <1>5. \A y \in PayrollCase[c].years : PayCapped(c, its, rs2, y)
    BY <1>1, <1>4 DEF PayOK, PayCapped
  <1>6. ASSUME NEW t, PayFresh(c, t, its, rs), t.op = "insert" => t.run \in 1..n
        PROVE  PayFresh(c, t, its, rs2)
    BY <1>1, <1>6 DEF PayFresh
  <1> QED
    BY <1>2, <1>3, <1>5, <1>6 DEF PayOK

\* A run is created.
LEMMA PayCreateStep ==
  ASSUME NEW c, PayIInv(c), NEW y \in PayrollCase[c].years,
         Payroll(c)!PayrollAssumption, Payroll(c)!CreatePayrollRun(y)
  PROVE  PayIInv(c)'
  <1>1. PICK o : o = [year |-> y, status |-> "draft", gross |-> 0, net |-> 0,
                      deductions |-> 0, employer |-> 0, je |-> 0, seen |-> {}]
    OBVIOUS
  <1>2. o \in Payroll(c)!Run /\ o.status = "draft" /\ o.seen = {}
    BY <1>1 DEF Payroll!Run, Payroll!PayrollAssumption
  <1>3. PayTypesOK(c) /\ runs \in Seq(Payroll(c)!Run)
    BY DEF PayIInv, PayTypesOK, PayRunsTyped
  <1>4. PICK n \in Nat : n = Len(runs) /\ DOMAIN runs = 1..n
    BY <1>3, PayTyped
  <1>5. /\ runs' = Append(runs, o) /\ n < PayrollCase[c].runs
        /\ UNCHANGED <<rate, deducted, items, je, txn, raced>>
    BY <1>1, <1>4 DEF Payroll!CreatePayrollRun
  <1>6. /\ runs' \in Seq(Payroll(c)!Run) /\ Len(runs') = n + 1 /\ DOMAIN runs' = 1..(n + 1)
        /\ runs'[n + 1] = o /\ \A x \in 1..n : runs'[x] = runs[x]
    <2>1. Len(runs') = Len(runs) + 1 /\ runs' \in Seq(Payroll(c)!Run)
      BY <1>2, <1>3, <1>5, AppendProperties
    <2>2. DOMAIN runs' = 1..Len(runs')
      BY <2>1, LenProperties
    <2>3. runs'[Len(runs) + 1] = o /\ \A x \in 1..Len(runs) : runs'[x] = runs[x]
      BY <1>2, <1>3, <1>5, AppendProperties
    <2> QED
      BY <1>4, <2>1, <2>2, <2>3
  <1>7. PayTable(c, items, n) /\ PayJournal(c, je, n)
    BY <1>3, <1>4 DEF PayTypesOK
  <1>8. \A x \in 1..n : x \in 1..(n + 1)
    OBVIOUS
  <1>9. PayTypesOK(c)'
    <2>1. PayRunsTyped(c, runs')
      <3>1. PayrollCase[c].runs \in Nat
        BY DEF Payroll!PayrollAssumption
      <3>2. Len(runs') <= PayrollCase[c].runs
        BY <1>5, <1>6, <3>1
      <3> QED
        BY <1>6, <3>2 DEF PayRunsTyped
    <2>2. PayTable(c, items', Len(runs'))
      BY <1>5, <1>6, <1>7, <1>8 DEF PayTable
    <2>3. PayJournal(c, je', Len(runs'))
      BY <1>5, <1>6, <1>7, <1>8 DEF PayJournal
    <2> QED
      BY <1>3, <1>5, <2>1, <2>2, <2>3 DEF PayTypesOK
  <1>10. PayTxnOK(c, txn', Len(runs'))
    <2>1. PayTxnOK(c, txn, n) /\ n + 1 \in Nat /\ n <= n + 1
      BY <1>4 DEF PayIInv
    <2>2. PayTxnOK(c, txn, n + 1)
      BY <2>1, PaySlotsGrow
    <2> QED
      BY <1>5, <1>6, <2>2
  <1>11. ASSUME ~raced'
         PROVE  PayOK(c, items', runs', je') /\ PayAllFresh(c, txn', items', runs')
    <2>1. PICK its, es, rs2, tx : its = items /\ es = je /\ rs2 = runs' /\ tx = txn
      OBVIOUS
    <2>2. its = items' /\ es = je' /\ tx = txn' /\ ~raced
      BY <1>5, <1>11, <2>1
    <2>3. PayOK(c, its, runs, es) /\ PayAllFresh(c, tx, its, runs) /\ PayTxnOK(c, tx, n)
      BY <1>4, <2>1, <2>2 DEF PayIInv
    <2>4. \A k \in DOMAIN its : its[k].run \in 1..n
      BY <1>7, <2>1 DEF PayTable
    <2>5. \A i \in DOMAIN es : es[i].run \in 1..n
      BY <1>7, <2>1 DEF PayJournal
    <2>6. /\ DOMAIN rs2 = 1..(n + 1) /\ \A x \in 1..n : rs2[x] = runs[x]
          /\ rs2[n + 1].status = "draft" /\ rs2[n + 1].seen = {}
      BY <1>2, <1>6, <2>1
    <2>7. /\ PayOK(c, its, rs2, es)
          /\ \A t : PayFresh(c, t, its, runs) /\ (t.op = "insert" => t.run \in 1..n)
                      => PayFresh(c, t, its, rs2)
      BY <1>4, <2>3, <2>4, <2>5, <2>6, PayDrafted
    <2>8. PayAllFresh(c, tx, its, rs2)
      <3>1. SUFFICES ASSUME NEW r \in PayrollCase[c].req PROVE PayFresh(c, tx[r], its, rs2)
        BY DEF PayAllFresh
      <3>2. PICK t : t = tx[r]
        OBVIOUS
      <3>3. t = Payroll(c)!Idle \/ PayUnderway(c, t, n)
        BY <2>3, <3>2 DEF PayTxnOK
      <3>4. t.op = "insert" => t.run \in 1..n
        BY <3>3 DEF PayUnderway, Payroll!Idle
      <3>5. PayFresh(c, t, its, runs)
        BY <2>3, <3>2 DEF PayAllFresh
      <3> QED
        BY <2>7, <3>2, <3>4, <3>5
    <2> QED
      BY <2>1, <2>2, <2>7, <2>8
  <1> QED
    BY <1>9, <1>10, <1>11 DEF PayIInv

\* The items of a run are items.
LEMMA PayTakenTable ==
  ASSUME NEW c, NEW its, NEW n, PayTable(c, its, n), NEW id
  PROVE  PayTable(c, PayTaken(its, id), n)
  <1>1. PayRowsOf(its, id) \in SUBSET DOMAIN its
    BY DEF PayRowsOf
  <1>2. IsFiniteSet(PayRowsOf(its, id))
    BY <1>1, FS_Subset DEF PayTable
  <1>3. PICK w, S : w = PayTaken(its, id) /\ S = PayRowsOf(its, id)
    OBVIOUS
  <1>4. w = [k \in S |-> its[k]] /\ DOMAIN w = S
    BY <1>3 DEF PayTaken
  <1> QED
    BY <1>1, <1>2, <1>3, <1>4 DEF PayTable

\* A request reads its run.
LEMMA PayReadStep ==
  ASSUME NEW c, PayIInv(c), NEW r \in PayrollCase[c].req,
         NEW op \in {"calculate", "override", "approve", "post"}, NEW id \in DOMAIN runs,
         Payroll(c)!Read(r, op, id)
  PROVE  PayIInv(c)'
  <1>1. PICK t, x : /\ x = runs[id]
                    /\ t = [op |-> op, run |-> id, read |-> x, items |-> PayTaken(items, id),
                            new |-> <<>>, seen |-> {}]
    OBVIOUS
  <1>2. PayTaken(items, id) = Payroll(c)!ItemsOf(id)
    BY DEF PayTaken, PayRowsOf, Payroll!ItemsOf
  <1>3. /\ txn' = [txn EXCEPT ![r] = t] /\ x.status = Payroll(c)!Expects(op)
        /\ UNCHANGED <<rate, deducted, runs, items, je, raced>>
    BY <1>1, <1>2 DEF Payroll!Read
  <1>4. x.status = PayStatus(op)
    BY <1>3 DEF Payroll!Expects, PayStatus
  <1>5. PayTypesOK(c) /\ DOMAIN runs = 1..Len(runs)
    BY PayTyped DEF PayIInv
  <1>6. PayTable(c, PayTaken(items, id), Len(runs))
    BY <1>5, PayTakenTable DEF PayTypesOK
  <1>7. PayUnderway(c, t, Len(runs))
    BY <1>1, <1>4, <1>5, <1>6 DEF PayUnderway
  <1>8. PayFresh(c, t, items, runs)
    BY <1>1 DEF PayFresh
  <1> QED
    BY <1>3, <1>7, <1>8, PayReading

\* A request fails.
LEMMA PayRollbackStep ==
  ASSUME NEW c, PayIInv(c), NEW r \in PayrollCase[c].req, Payroll(c)!Rollback(r)
  PROVE  PayIInv(c)'
  BY PayIdle, PayReading DEF Payroll!Rollback

-----------------------------------------------------------------------------
(* What a run computes.                                                    *)

\* Rates of natural numbers, rounded, are natural.
LEMMA PayRoundNat ==
  ASSUME NEW c, NEW a \in Nat, NEW b \in Nat
  PROVE  Payroll(c)!Round(a * b, 100) \in Nat
  <1>1. PICK n \in Nat : n = a * b
    OBVIOUS
  <1>2. PICK q : q = Payroll(c)!Round(n, 100)
    OBVIOUS
  <1>3. q = (2 * n + 100) \div (2 * 100)
    BY <1>2 DEF Payroll!Round
  <1>4. q \in Nat
    BY <1>3, RoundedQuotient
  <1> QED
    BY <1>1, <1>2, <1>4

\* No tax is below zero.
LEMMA PayTaxNat ==
  ASSUME NEW c, Payroll(c)!PayrollAssumption, NEW income \in Nat
  PROVE  Payroll(c)!FederalTax(income) \in Nat
  <1>1. PICK b, n : b = PayrollCase[c].brackets /\ n = Len(b)
    OBVIOUS
  <1>2. b \in Seq(PayBracket) /\ \A i \in DOMAIN b : b[i].min <= b[i].max
    BY <1>1 DEF Payroll!PayrollAssumption, PayBracket
  <1>3. n \in Nat /\ DOMAIN b = 1..n
    BY <1>1, <1>2, LenProperties
  <1>4. \A i \in 1..n : b[i] \in PayBracket
    BY <1>2, <1>3, ElementOfSeq
  <1>5. PICK f : f = [i \in 1..n |-> Payroll(c)!Within(income, b[i]) * b[i].rate]
    OBVIOUS
  <1>6. \A i \in 1..n : f[i] \in Nat
    <2>1. SUFFICES ASSUME NEW i \in 1..n PROVE f[i] \in Nat
      OBVIOUS
    <2>2. b[i].min \in Nat /\ b[i].max \in Nat /\ b[i].rate \in Nat /\ b[i].min <= b[i].max
      BY <1>2, <1>3, <1>4 DEF PayBracket
    <2>3. PICK u, v : u = Payroll(c)!Within(income, b[i]) /\ v = b[i].rate
      OBVIOUS
    <2>4. u \in Nat /\ v \in Nat
      BY <2>2, <2>3 DEF Payroll!Within, Payroll!Lesser
    <2>5. u * v \in Nat
      BY <2>4
    <2> QED
      BY <1>5, <2>3, <2>5
  <1>7. IsFiniteSet(1..n)
    <2>1. 1 \in Int /\ n \in Int
      BY <1>3
    <2> QED
      BY <2>1, FS_Interval
  <1>8. PICK m \in Nat : m = SumOver(f, 1..n)
    BY <1>6, <1>7, SumNat
  <1>9. Payroll(c)!FederalTax(income) = Payroll(c)!Round(m, 100)
    <2>1. DOMAIN f = 1..n
      BY <1>5
    <2>2. Payroll(c)!SumFunction(f) = m
      BY <1>8, <2>1, PaySumOf
    <2> QED
      BY <1>1, <1>3, <1>5, <2>2 DEF Payroll!FederalTax
  <1>10. Payroll(c)!Round(m * 1, 100) \in Nat /\ m * 1 = m
    BY PayRoundNat
  <1> QED
    BY <1>9, <1>10

\* An item has its type, adds up, and uses what the wage base has left.
LEMMA PayItem ==
  ASSUME NEW c, Payroll(c)!PayrollAssumption, NEW id \in 1..PayrollCase[c].runs, NEW gross \in Nat,
         NEW pre \in Nat, NEW post \in Nat, NEW ytd \in Nat,
         NEW x, x = Payroll(c)!Calculate(id, gross, pre, post, ytd)
  PROVE  x \in Payroll(c)!Item /\ PayAdds(x) /\ x.futa <= PayLeft(c, ytd)
  <1>1. /\ PayrollCase[c].ss_rate \in Nat /\ PayrollCase[c].medicare_rate \in Nat
        /\ PayrollCase[c].state_rate \in Nat /\ PayrollCase[c].futa_cap \in Nat
        /\ PayrollCase[c].futa_rate \in Nat
    BY DEF Payroll!PayrollAssumption
  <1>2. PICK taxable : taxable = (IF gross > pre THEN gross - pre ELSE 0)
    OBVIOUS
  <1>3. taxable \in Nat
    BY <1>2
  <1>4. PICK f, m, s, u :
          /\ f = Payroll(c)!FederalTax(taxable)
          /\ m = Payroll(c)!Round(taxable * PayrollCase[c].medicare_rate, 100)
          /\ s = Payroll(c)!Round(taxable * PayrollCase[c].state_rate, 100)
          /\ u = (IF ytd < PayrollCase[c].ss_cap
                  THEN Payroll(c)!Round(taxable * PayrollCase[c].ss_rate, 100) ELSE 0)
    OBVIOUS
  <1>5. f \in Nat /\ m \in Nat /\ s \in Nat
    BY <1>1, <1>3, <1>4, PayTaxNat, PayRoundNat
  <1>6. u \in Nat
    <2>1. Payroll(c)!Round(taxable * PayrollCase[c].ss_rate, 100) \in Nat
      BY <1>1, <1>3, PayRoundNat
    <2> QED
      BY <1>4, <2>1, Zenon
  <1>7. PICK b : b = Payroll(c)!FutaBase(gross, ytd)
    OBVIOUS
  <1>8. b \in Nat /\ b <= PayLeft(c, ytd)
    BY <1>1, <1>7 DEF Payroll!FutaBase, Payroll!Lesser, PayLeft
  <1>9. PICK v \in Nat : v = Payroll(c)!Round(b * PayrollCase[c].futa_rate, 100)
    BY <1>1, <1>8, PayRoundNat
  <1>10. x = [run |-> id, gross |-> gross, withheld |-> f + u + m + s, other |-> post, pre |-> pre,
              net |-> gross - ((f + u + m + s) + pre + post), employer |-> u + m + v, futa |-> b]
    BY <1>2, <1>4, <1>7, <1>9 DEF Payroll!Calculate
  <1>11. PICK w \in Nat, z \in Nat : w = f + u + m + s /\ z = u + m + v
    BY <1>5, <1>6, <1>9
  <1>12. x = [run |-> id, gross |-> gross, withheld |-> w, other |-> post, pre |-> pre,
              net |-> gross - (w + pre + post), employer |-> z, futa |-> b]
    BY <1>10, <1>11
  <1>13. PayAdds(x)
    BY <1>12 DEF PayAdds
  <1> QED
    BY <1>8, <1>12, <1>13 DEF Payroll!Item

\* Deductions add up to a natural number.
LEMMA PayDeducted ==
  ASSUME NEW c, Payroll(c)!PayrollAssumption, PayIInv(c), NEW e, NEW x
  PROVE  Payroll(c)!Deducted(e, x) \in Nat
  <1>1. PICK S : S = {d \in deducted : d.emp = e /\ d.category = x}
    OBVIOUS
  <1>2. deducted \subseteq PayrollCase[c].deductions /\ IsFiniteSet(deducted)
    BY DEF PayIInv, PayTypesOK, PayPeople
  <1>3. S \in SUBSET deducted
    BY <1>1
  <1>4. IsFiniteSet(S)
    BY <1>2, <1>3, FS_Subset
  <1>5. PICK h : h = [d \in S |-> d.amount]
    OBVIOUS
  <1>6. \A d \in S : h[d] \in Nat
    BY <1>2, <1>3, <1>5 DEF Payroll!PayrollAssumption
  <1>7. SumOver(h, S) \in Nat
    BY <1>4, <1>6, SumNat
  <1>8. Payroll(c)!Deducted(e, x) = Payroll(c)!SumFunction(h)
    BY <1>1, <1>5, Zenon DEF Payroll!Deducted
  <1> QED
    BY <1>5, <1>7, <1>8, PaySumOf

\* What an employee was paid, and what it used of the wage base.
LEMMA PayUse ==
  ASSUME NEW c, NEW its, NEW n, PayTable(c, its, n), NEW e, NEW ids
  PROVE  /\ IsFiniteSet(PayOf(its, e, ids))
         /\ PayGross(its, e, ids) \in Nat /\ PayFuta(its, e, ids) \in Nat
         /\ PayKept(its, ids) => PayFuta(its, e, ids) <= PayGross(its, e, ids)
  <1>1. PICK S : S = PayOf(its, e, ids)
    OBVIOUS
  <1>2. IsFiniteSet(S) /\ \A k \in S : k \in DOMAIN its /\ its[k].run \in ids
    <2>1. S \in SUBSET DOMAIN its /\ \A k \in S : its[k].run \in ids
      BY <1>1 DEF PayOf
    <2> QED
      BY <2>1, FS_Subset DEF PayTable
  <1>3. PICK g, f : g = PayColumn(its, S, "gross") /\ f = PayColumn(its, S, "futa")
    OBVIOUS
  <1>4. \A k \in S : /\ g[k] = its[k].gross /\ f[k] = its[k].futa
                     /\ its[k].gross \in Nat /\ its[k].futa \in Nat
    <2>1. \A k \in S : its[k] \in Payroll(c)!Item
      BY <1>2 DEF PayTable
    <2> QED
      BY <1>3, <2>1 DEF PayColumn, Payroll!Item
  <1>5. \A k \in S : g[k] \in Nat /\ f[k] \in Nat
    BY <1>4
  <1>6. SumOver(g, S) \in Nat /\ SumOver(f, S) \in Nat
    BY <1>2, <1>5, SumNat
  <1>7. ASSUME PayKept(its, ids) PROVE SumOver(f, S) <= SumOver(g, S)
    <2>1. \A k \in S : f[k] <= g[k]
      BY <1>2, <1>4, <1>7 DEF PayKept
    <2>2. PICK z : z = [k \in S |-> 0]
      OBVIOUS
    <2>3. SumOver(z, S) = 0
      BY <1>2, <2>2, SumNothing
    <2>4. 1 \in Int /\ \A k \in S : /\ g[k] \in Int /\ f[k] \in Int /\ z[k] \in Int
                                    /\ 1 * f[k] <= 1 * g[k] + z[k]
      BY <1>5, <2>1, <2>2
    <2>5. 1 * SumOver(f, S) <= 1 * SumOver(g, S) + SumOver(z, S)
      BY <1>2, <2>4, SumWithin
    <2> QED
      BY <1>6, <2>3, <2>5
  <1> QED
    BY <1>1, <1>2, <1>3, <1>6, <1>7 DEF PayGross, PayFuta

\* The operators of the model are those of the invariant.
LEMMA PayToDate ==
  ASSUME NEW c, NEW e, NEW y
  PROVE  /\ Payroll(c)!PostedRuns(y) = PayPosted(runs, y)
         /\ Payroll(c)!Ytd(e, y) = PayGross(items, e, PayPosted(runs, y))
         /\ Payroll(c)!FutaUsed(e, y) = PayFuta(items, e, PayPosted(runs, y))
  <1>1. Payroll(c)!PostedRuns(y) = PayPosted(runs, y)
    BY DEF Payroll!PostedRuns, PayPosted
  <1>2. PICK S : S = PayOf(items, e, PayPosted(runs, y))
    OBVIOUS
  <1>3. Payroll(c)!Paid(e, Payroll(c)!PostedRuns(y)) = S
    BY <1>1, <1>2 DEF Payroll!Paid, PayOf
  <1>4. PICK g, f : g = PayColumn(items, S, "gross") /\ f = PayColumn(items, S, "futa")
    OBVIOUS
  <1>5. Payroll(c)!Ytd(e, y) = Payroll(c)!SumFunction(g)
    BY <1>3, <1>4 DEF PayColumn, Payroll!Ytd
  <1>6. Payroll(c)!FutaUsed(e, y) = Payroll(c)!SumFunction(f)
    BY <1>3, <1>4 DEF PayColumn, Payroll!FutaUsed
  <1>7. DOMAIN g = S /\ DOMAIN f = S
    BY <1>4 DEF PayColumn
  <1>8. Payroll(c)!SumFunction(g) = SumOver(g, S) /\ Payroll(c)!SumFunction(f) = SumOver(f, S)
    BY <1>7, PaySumOf
  <1> QED
    BY <1>1, <1>2, <1>4, <1>5, <1>6, <1>8 DEF PayGross, PayFuta

\* A calculation computes its items.
LEMMA PayComputeStep ==
  ASSUME NEW c, Payroll(c)!PayrollAssumption, PayIInv(c), NEW r \in PayrollCase[c].req,
         Payroll(c)!Compute(r)
  PROVE  PayIInv(c)'
  <1>1. PICK t : t = txn[r] /\ t.op = "calculate"
    BY DEF Payroll!Compute
  <1>2. PICK id : id = t.run
    OBVIOUS
  <1>3. PayUnderway(c, t, Len(runs)) /\ id \in DOMAIN runs
    BY <1>1, <1>2, PayHolds
  <1>4. PayTypesOK(c)
    BY DEF PayIInv
  <1>5. PICK y, P : y = runs[id].year /\ P = PayPosted(runs, y)
    OBVIOUS
  <1>6. PICK A, new : /\ A = {e \in PayrollCase[c].employees : rate[e] > 0}
                      /\ new = [e \in A |-> Payroll(c)!NewItem(e, id)]
    OBVIOUS
  <1>7. PayTaken(items, id) = Payroll(c)!ItemsOf(id) /\ P = Payroll(c)!PostedRuns(y)
    <2>1. PayTaken(items, id) = Payroll(c)!ItemsOf(id)
      BY DEF PayTaken, PayRowsOf, Payroll!ItemsOf
    <2> QED
      BY <1>5, <2>1, PayToDate
  <1>8. PICK u : u = [t EXCEPT !.op = "insert", !.items = PayTaken(items, id), !.new = new,
                               !.seen = P]
    OBVIOUS
  <1>9. txn' = [txn EXCEPT ![r] = u] /\ UNCHANGED <<rate, deducted, runs, items, je, raced>>
    BY <1>1, <1>2, <1>5, <1>6, <1>7, <1>8, Zenon DEF Payroll!Compute
  <1>10. /\ u.op = "insert" /\ u.run = id /\ u.read = t.read /\ u.new = new /\ u.seen = P
         /\ u.items = PayTaken(items, id)
         /\ u = [op |-> u.op, run |-> u.run, read |-> u.read, items |-> u.items, new |-> u.new,
                 seen |-> u.seen]
    <2>1. t = [op |-> t.op, run |-> t.run, read |-> t.read, items |-> t.items, new |-> t.new,
               seen |-> t.seen]
      BY <1>3 DEF PayUnderway
    <2>2. u = [op |-> "insert", run |-> t.run, read |-> t.read, items |-> PayTaken(items, id),
               new |-> new, seen |-> P]
      BY <1>8, <2>1
    <2> QED
      BY <1>2, <2>2
  <1>11. \A e \in A : /\ new[e] \in Payroll(c)!Item /\ new[e].run = id /\ PayAdds(new[e])
                      /\ new[e].futa <= PayLeft(c, PayGross(items, e, P))
    <2>1. SUFFICES ASSUME NEW e \in A
                   PROVE  /\ new[e] \in Payroll(c)!Item /\ new[e].run = id /\ PayAdds(new[e])
                          /\ new[e].futa <= PayLeft(c, PayGross(items, e, P))
      OBVIOUS
    <2>2. PICK g, p, q, d : /\ g = rate[e] /\ p = Payroll(c)!Deducted(e, "pre_tax")
                            /\ q = Payroll(c)!Deducted(e, "post_tax") /\ d = PayGross(items, e, P)
      OBVIOUS
    <2>3. g \in Nat
      BY <1>4, <1>6, <2>2 DEF PayTypesOK, PayPeople
    <2>4. p \in Nat /\ q \in Nat
      BY <2>2, PayDeducted
    <2>5. d \in Nat
      BY <1>4, <2>2, PayUse DEF PayTypesOK
    <2>6. id \in 1..PayrollCase[c].runs
      <3>1. PayrollCase[c].runs \in Nat
        BY DEF Payroll!PayrollAssumption
      <3>2. id \in 1..Len(runs) /\ Len(runs) \in Nat /\ Len(runs) <= PayrollCase[c].runs
        BY <1>3, <1>4, PayTyped
      <3> QED
        BY <3>1, <3>2
    <2>7. new[e] = Payroll(c)!Calculate(id, g, p, q, d)
      <3>1. Payroll(c)!Ytd(e, y) = d
        BY <1>5, <2>2, PayToDate
      <3>2. new[e] = Payroll(c)!NewItem(e, id)
        BY <1>6
      <3> QED
        BY <1>5, <2>2, <3>1, <3>2, Zenon DEF Payroll!NewItem
    <2> QED
      <3>1. PICK x : x = new[e]
        OBVIOUS
      <3>2. x = Payroll(c)!Calculate(id, g, p, q, d)
        BY <2>7, <3>1
      <3>3. x \in Payroll(c)!Item /\ PayAdds(x) /\ x.futa <= PayLeft(c, d)
        BY <2>3, <2>4, <2>5, <2>6, <3>2, PayItem
      <3>4. x.run = id
        BY <3>2 DEF Payroll!Calculate
      <3> QED
        BY <2>2, <3>1, <3>3, <3>4
  <1>12. PayComputed(c, u)
    <2>1. DOMAIN new = A /\ A \subseteq PayrollCase[c].employees
      BY <1>6
    <2> QED
      BY <1>10, <1>11, <2>1 DEF PayComputed
  <1>13. PayTable(c, PayTaken(items, id), Len(runs))
    BY <1>4, PayTakenTable DEF PayTypesOK
  <1>14. P \subseteq 1..PayrollCase[c].runs
    <2>1. PayrollCase[c].runs \in Nat
      BY DEF Payroll!PayrollAssumption
    <2>2. DOMAIN runs = 1..Len(runs) /\ Len(runs) \in Nat /\ Len(runs) <= PayrollCase[c].runs
      BY <1>4, PayTyped
    <2>3. P \subseteq DOMAIN runs
      BY <1>5 DEF PayPosted
    <2> QED
      BY <2>1, <2>2, <2>3
  <1>15. PayUnderway(c, u, Len(runs))
    <2>1. u.read.status = PayStatus(u.op) /\ u.run \in 1..Len(runs)
      BY <1>1, <1>2, <1>3, <1>10 DEF PayUnderway, PayStatus
    <2> QED
      BY <1>10, <1>12, <1>13, <1>14, <2>1 DEF PayUnderway
  <1>16. PayFresh(c, u, items, runs)
    <2>1. DOMAIN new = A
      BY <1>6
    <2> QED
      BY <1>5, <1>10, <1>11, <2>1 DEF PayFresh
  <1> QED
    BY <1>9, <1>15, <1>16, PayReading

-----------------------------------------------------------------------------
(* What a request writes.                                                  *)

\* A request that finished saw the run and the items as they still are, or it raced.
LEMMA PayFinish ==
  ASSUME NEW c, PayIInv(c), NEW r \in PayrollCase[c].req, Payroll(c)!Finish(r), NEW t, t = txn[r]
  PROVE  /\ txn' = [txn EXCEPT ![r] = Payroll(c)!Idle] /\ UNCHANGED <<rate, deducted>>
         /\ raced' \in BOOLEAN
         /\ ~raced' => ~raced /\ runs[t.run] = t.read /\ PayTaken(items, t.run) = t.items
  <1>1. PayTaken(items, t.run) = Payroll(c)!ItemsOf(t.run)
    BY DEF PayTaken, PayRowsOf, Payroll!ItemsOf
  <1>2. raced \in BOOLEAN
    BY DEF PayIInv, PayTypesOK
  <1>3. /\ txn' = [txn EXCEPT ![r] = Payroll(c)!Idle] /\ UNCHANGED <<rate, deducted>>
        /\ raced' = (raced \/ runs[t.run] # t.read \/ Payroll(c)!ItemsOf(t.run) # t.items)
    BY DEF Payroll!Finish
  <1>4. PICK a, b : a = (runs[t.run] # t.read) /\ b = (Payroll(c)!ItemsOf(t.run) # t.items)
    OBVIOUS
  <1>5. a \in BOOLEAN /\ b \in BOOLEAN /\ raced' = (raced \/ a \/ b)
    BY <1>3, <1>4
  <1>6. raced' \in BOOLEAN /\ (~raced' => ~raced /\ ~a /\ ~b)
    BY <1>2, <1>5
  <1> QED
    BY <1>1, <1>3, <1>4, <1>6

\* A request writes its run, and no row of another.
LEMMA PayCommit ==
  ASSUME NEW c, PayIInv(c), NEW r \in PayrollCase[c].req, NEW t, t = txn[r], t.op # "none",
         Payroll(c)!Finish(r), NEW row \in Payroll(c)!Run, runs' = [runs EXCEPT ![t.run] = row],
         PayTable(c, items', Len(runs)), PayJournal(c, je', Len(runs)),
         ~raced' => /\ PayOK(c, items', runs', je')
                    /\ PaySame(items, items', t.run) /\ PayWritten(runs, runs', t.run)
  PROVE  PayIInv(c)'
  <1>1. t.run \in DOMAIN runs
    BY PayHolds
  <1>2. PayTypesOK(c) /\ runs \in Seq(Payroll(c)!Run) /\ Len(runs) <= PayrollCase[c].runs
    BY DEF PayIInv, PayTypesOK, PayRunsTyped
  <1>3. runs' \in Seq(Payroll(c)!Run) /\ Len(runs') = Len(runs)
    BY <1>1, <1>2, ExceptSeq
  <1>4. /\ txn' = [txn EXCEPT ![r] = Payroll(c)!Idle] /\ UNCHANGED <<rate, deducted>>
        /\ raced' \in BOOLEAN /\ (~raced' => ~raced)
    BY PayFinish
  <1>5. PayTypesOK(c)'
    <2>1. PayPeople(c, rate', deducted')
      BY <1>2, <1>4 DEF PayTypesOK
    <2>2. PayRunsTyped(c, runs')
      BY <1>2, <1>3 DEF PayRunsTyped
    <2>3. PayTable(c, items', Len(runs')) /\ PayJournal(c, je', Len(runs'))
      BY <1>3
    <2> QED
      BY <1>4, <2>1, <2>2, <2>3 DEF PayTypesOK
  <1>6. PICK n, its, rs, its2, rs2 :
          n = Len(runs) /\ its = items /\ rs = runs /\ its2 = items' /\ rs2 = runs'
    OBVIOUS
  <1>7. PayTxnOK(c, txn, n)
    BY <1>6 DEF PayIInv
  <1>8. /\ PayTxnOK(c, txn', n)
        /\ PayAllFresh(c, txn, its2, rs2) => PayAllFresh(c, txn', its2, rs2)
    <2>1. PayFresh(c, Payroll(c)!Idle, its2, rs2)
      BY PayIdle
    <2> QED
      BY <1>4, <1>7, <2>1, PaySlot
  <1>9. ASSUME ~raced' PROVE PayAllFresh(c, txn, its2, rs2)
    <2>1. SUFFICES ASSUME NEW x \in PayrollCase[c].req PROVE PayFresh(c, txn[x], its2, rs2)
      BY DEF PayAllFresh
    <2>2. PICK u : u = txn[x]
      OBVIOUS
    <2>3. PayFresh(c, u, its, rs)
      BY <1>4, <1>6, <1>9, <2>2 DEF PayIInv, PayAllFresh
    <2>4. u.op = "insert" => u.run \in DOMAIN rs
      <3>1. u.op = "insert" => u.op # "none"
        OBVIOUS
      <3> QED
        BY <1>6, <2>2, <3>1, PayHolds
    <2>5. PaySame(its, its2, t.run) /\ PayWritten(rs, rs2, t.run)
      BY <1>6, <1>9
    <2>6. PayFresh(c, u, its2, rs2)
      BY <2>3, <2>4, <2>5, PayFreshStays
    <2> QED
      BY <2>2, <2>6
  <1>10. PayTxnOK(c, txn', Len(runs'))
    BY <1>3, <1>6, <1>8
  <1>11. ~raced' => PayAllFresh(c, txn', items', runs')
    BY <1>6, <1>8, <1>9
  <1> QED
    BY <1>5, <1>10, <1>11 DEF PayIInv

\* A run is written that is not posted yet, nor by this.
LEMMA PayCommitOpen ==
  ASSUME NEW c, PayIInv(c), NEW r \in PayrollCase[c].req, NEW t, t = txn[r],
         t.op \in {"insert", "override", "approve"},
         Payroll(c)!Finish(r), NEW row \in Payroll(c)!Run, runs' = [runs EXCEPT ![t.run] = row],
         UNCHANGED je, row.year = runs[t.run].year, PayTable(c, items', Len(runs)),
         ~raced' => /\ row.status # "posted" /\ PaySame(items, items', t.run)
                    /\ PayRunOK(c, items', runs', t.run) /\ PayItemsOK(c, items', runs', t.run)
  PROVE  PayIInv(c)'
  <1>1. PayUnderway(c, t, Len(runs)) /\ t.run \in DOMAIN runs
    BY PayHolds
  <1>2. PayTypesOK(c)
    BY DEF PayIInv
  <1>3. PayJournal(c, je', Len(runs))
    BY <1>2 DEF PayTypesOK
  <1>4. ASSUME ~raced' PROVE PayWritten(runs, runs', t.run)
    <2>1. runs[t.run] = t.read
      BY <1>4, PayFinish
    <2>2. t.read.status # "posted"
      BY <1>1 DEF PayUnderway, PayStatus
    <2> QED
      BY <1>1, <2>1, <2>2 DEF PayWritten
  <1>5. ASSUME ~raced' PROVE PayOK(c, items', runs', je')
    <2>1. PICK its, rs, es, its2, rs2, id :
            /\ its = items /\ rs = runs /\ es = je /\ its2 = items' /\ rs2 = runs' /\ id = t.run
      OBVIOUS
    <2>2. ~raced
      BY <1>5, PayFinish
    <2>3. PayOK(c, its, rs, es)
      BY <2>1, <2>2 DEF PayIInv
    <2>4. \A i \in DOMAIN es : es[i].run \in DOMAIN rs
      BY <1>2, <2>1, PayTyped
    <2>5. rs2[id].status # "posted"
      BY <1>1, <1>5, <2>1
    <2>6. PayWritten(rs, rs2, id)
      BY <1>4, <1>5, <2>1
    <2>7. PaySame(its, its2, id) /\ PayRunOK(c, its2, rs2, id) /\ PayItemsOK(c, its2, rs2, id)
      BY <1>5, <2>1
    <2>8. PayOK(c, its2, rs2, es)
      BY <2>3, <2>4, <2>5, <2>6, <2>7, PayOKStays
    <2> QED
      BY <2>1, <2>8
  <1>6. t.op # "none"
    OBVIOUS
  <1> QED
    BY <1>3, <1>4, <1>5, <1>6, PayCommit

\* A run is approved.
LEMMA PayApproveStep ==
  ASSUME NEW c, PayIInv(c), NEW r \in PayrollCase[c].req, Payroll(c)!CommitApprove(r)
  PROVE  PayIInv(c)'
  <1>1. PICK t, id : t = txn[r] /\ id = t.run
    OBVIOUS
  <1>2. t.op = "approve" /\ Payroll(c)!Finish(r) /\ UNCHANGED <<items, je>>
    BY <1>1 DEF Payroll!CommitApprove
  <1>3. PayTypesOK(c) /\ PayUnderway(c, t, Len(runs)) /\ id \in DOMAIN runs
    BY <1>1, <1>2, PayHolds DEF PayIInv
  <1>4. PICK x : x = runs[id] /\ x \in Payroll(c)!Run
    BY <1>3, PayTyped
  <1>5. PICK row : row = [x EXCEPT !.status = "approved"]
    OBVIOUS
  <1>6. /\ row \in Payroll(c)!Run /\ row.status = "approved" /\ row.year = x.year
        /\ row.seen = x.seen /\ row.gross = x.gross /\ row.net = x.net
        /\ row.deductions = x.deductions /\ row.employer = x.employer
    BY <1>4, <1>5 DEF Payroll!Run
  <1>7. runs' = [runs EXCEPT ![id] = row]
    BY <1>1, <1>4, <1>5 DEF Payroll!CommitApprove
  <1>8. PayTable(c, items', Len(runs))
    BY <1>2, <1>3 DEF PayTypesOK
  <1>9. ASSUME ~raced'
        PROVE  /\ PaySame(items, items', id) /\ PayRunOK(c, items', runs', id)
               /\ PayItemsOK(c, items', runs', id)
    <2>1. ~raced /\ x.status = "calculated"
      <3>1. ~raced /\ x = t.read
        BY <1>1, <1>2, <1>4, <1>9, PayFinish
      <3>2. t.read.status = "calculated"
        BY <1>2, <1>3 DEF PayUnderway, PayStatus
      <3> QED
        BY <3>1, <3>2
    <2>2. PICK its, rs, rs2 : its = items /\ rs = runs /\ rs2 = runs'
      OBVIOUS
    <2>3. PayRunOK(c, its, rs, id) /\ PayItemsOK(c, its, rs, id)
      BY <1>3, <2>1, <2>2 DEF PayIInv, PayOK
    <2>4. rs2[id] = row /\ rs[id] = x
      BY <1>3, <1>4, <1>7, <2>2
    <2>5. PayWritten(rs, rs2, id)
      BY <1>3, <1>6, <1>7, <2>1, <2>2, <2>4 DEF PayWritten
    <2>6. \A y : PayPosted(rs2, y) = PayPosted(rs, y)
      BY <1>6, <2>4, <2>5, PaySamePosted
    <2>7. PayRunOK(c, its, rs2, id)
      BY <1>6, <2>1, <2>3, <2>4, <2>6 DEF PayRunOK, PayAddsUp
    <2>8. PayItemsOK(c, its, rs2, id)
      BY <1>6, <2>3, <2>4 DEF PayItemsOK
    <2>9. PaySame(its, its, id)
      BY DEF PaySame
    <2> QED
      BY <1>2, <2>2, <2>7, <2>8, <2>9
  <1>10. t.op \in {"insert", "override", "approve"} /\ row.status # "posted"
    BY <1>2, <1>6
  <1> QED
    BY <1>1, <1>2, <1>4, <1>6, <1>7, <1>8, <1>9, <1>10, PayCommitOpen

-----------------------------------------------------------------------------
(* A calculation replaces the items of its run.                            *)

\* The number of the calculation is a new one.
LEMMA PayBatch ==
  ASSUME NEW c, NEW its, NEW n, PayTable(c, its, n), NEW b,
         b = Payroll(c)!Max({0} \cup {k[1] : k \in DOMAIN its}) + 1
  PROVE  b \in Nat /\ \A k \in DOMAIN its : k[1] # b
  <1>1. PICK K : K = {k[1] : k \in DOMAIN its}
    OBVIOUS
  <1>2. IsFiniteSet(K)
    <2>1. PICK f : f = [k \in DOMAIN its |-> k[1]]
      OBVIOUS
    <2>2. f \in Surjection(DOMAIN its, K)
      BY <1>1, <2>1 DEF Surjection
    <2> QED
      BY <2>2, FS_Surjection DEF PayTable
  <1>3. PICK J : J = K \cup {0}
    OBVIOUS
  <1>4. J = {0} \cup {k[1] : k \in DOMAIN its}
    BY <1>1, <1>3
  <1>5. IsFiniteSet(J)
    BY <1>2, <1>3, FS_AddElement
  <1>6. J \in SUBSET Nat /\ J # {}
    <2>1. \A k \in DOMAIN its : k[1] \in Nat
      BY DEF PayTable
    <2> QED
      BY <1>1, <1>3, <2>1
  <1>7. PICK m : m = Max(J)
    OBVIOUS
  <1>8. m \in J /\ \A k \in J : k <= m
    BY <1>5, <1>6, <1>7, MaxProperty
  <1>9. b = m + 1
    <2>1. Payroll(c)!Max(J) = Max(J)
      BY Zenon DEF Payroll!Max, Max
    <2> QED
      BY <1>4, <1>7, <2>1
  <1>10. \A k \in DOMAIN its : k[1] \in J
    BY <1>4
  <1>11. m \in Nat /\ \A k \in DOMAIN its : k[1] \in Nat /\ k[1] <= m
    BY <1>6, <1>8, <1>10
  <1> QED
    BY <1>9, <1>11

\* The rows kept, and one for each employee of new.
PayInserted(its, kept, b, new) ==
  [k \in kept \cup ({b} \X DOMAIN new) |-> IF k \in kept THEN its[k] ELSE new[k[2]]]

PayNew(c, new, id) ==
  /\ DOMAIN new \subseteq PayrollCase[c].employees /\ IsFiniteSet(DOMAIN new)
  /\ \A e \in DOMAIN new : new[e] \in Payroll(c)!Item /\ new[e].run = id /\ PayAdds(new[e])

\* The rows of a table after a calculation: those kept and the new ones.
LEMMA PayInsertedRows ==
  ASSUME NEW its, NEW new, NEW kept \in SUBSET DOMAIN its, NEW b, \A k \in DOMAIN its : k[1] # b,
         NEW its2, its2 = PayInserted(its, kept, b, new)
  PROVE  /\ its2 = [k \in DOMAIN its2 |-> its2[k]]
         /\ \A k : k \in DOMAIN its2 <=> k \in kept \/ k \in {b} \X DOMAIN new
         /\ \A k \in kept : its2[k] = its[k] /\ k \notin {b} \X DOMAIN new
         /\ \A k \in {b} \X DOMAIN new :
              k[2] \in DOMAIN new /\ its2[k] = new[k[2]] /\ k = <<b, k[2]>>
  <1>1. \A k \in {b} \X DOMAIN new : k[1] = b /\ k[2] \in DOMAIN new /\ k = <<b, k[2]>>
    OBVIOUS
  <1>2. DOMAIN its2 = kept \cup ({b} \X DOMAIN new)
    BY DEF PayInserted
  <1>3. \A k \in DOMAIN its2 : its2[k] = IF k \in kept THEN its[k] ELSE new[k[2]]
    BY DEF PayInserted
  <1>4. its2 = [k \in DOMAIN its2 |-> its2[k]]
    BY DEF PayInserted
  <1>5. \A k \in kept : k[1] # b
    OBVIOUS
  <1> QED
    BY <1>1, <1>2, <1>3, <1>4, <1>5

\* They make a table.
LEMMA PayInsertedTable ==
  ASSUME NEW c, NEW its, NEW n, PayTable(c, its, n), NEW id \in 1..n, NEW new, PayNew(c, new, id),
         NEW kept \in SUBSET DOMAIN its, NEW b \in Nat, \A k \in DOMAIN its : k[1] # b,
         NEW its2, its2 = PayInserted(its, kept, b, new)
  PROVE  PayTable(c, its2, n)
  <1>1. PICK B : B = {b} \X DOMAIN new
    OBVIOUS
  <1>2. /\ its2 = [k \in DOMAIN its2 |-> its2[k]]
        /\ \A k : k \in DOMAIN its2 <=> k \in kept \/ k \in B
        /\ \A k \in kept : its2[k] = its[k]
        /\ \A k \in B : k[2] \in DOMAIN new /\ its2[k] = new[k[2]]
    BY <1>1, PayInsertedRows
  <1>3. DOMAIN its2 = kept \cup B
    BY <1>2
  <1>4. IsFiniteSet(kept) /\ IsFiniteSet(B)
    BY <1>1, FS_Subset, FS_Singleton, FS_Product DEF PayTable, PayNew
  <1>5. IsFiniteSet(DOMAIN its2)
    BY <1>3, <1>4, FS_Union
  <1>6. DOMAIN its2 \subseteq Nat \X PayrollCase[c].employees
    BY <1>1, <1>3 DEF PayTable, PayNew
  <1>7. \A k \in kept : its[k] \in Payroll(c)!Item /\ its[k].run \in 1..n /\ PayAdds(its[k])
    BY DEF PayTable
  <1>8. \A e \in DOMAIN new : new[e] \in Payroll(c)!Item /\ new[e].run \in 1..n /\ PayAdds(new[e])
    BY DEF PayNew
  <1>9. \A k \in DOMAIN its2 :
          its2[k] \in Payroll(c)!Item /\ its2[k].run \in 1..n /\ PayAdds(its2[k])
    BY <1>2, <1>7, <1>8
  <1> QED
    BY <1>2, <1>5, <1>6, <1>9 DEF PayTable

\* The totals of a run of these rows and of those are the same.
PaySameTotals(c, its, new) ==
  \A x \in {"gross", "net", "employer"} : Payroll(c)!Added(its, x) = Payroll(c)!Added(new, x)

\* When the rows kept are those of the other runs, the run has the new ones alone.
LEMMA PayInsertedRun ==
  ASSUME NEW c, NEW its, NEW id, NEW new, PayNew(c, new, id),
         NEW kept, kept = DOMAIN its \ PayRowsOf(its, id), NEW b, \A k \in DOMAIN its : k[1] # b,
         NEW its2, its2 = PayInserted(its, kept, b, new)
  PROVE  /\ PaySame(its, its2, id) /\ PayRowsOf(its2, id) = {b} \X DOMAIN new
         /\ PaySameTotals(c, PayTaken(its2, id), new)
  <1>1. PICK N, B : N = DOMAIN new /\ B = {b} \X N
    OBVIOUS
  <1>2. kept \in SUBSET DOMAIN its /\ \A k : k \in kept <=> k \in DOMAIN its /\ its[k].run # id
    BY DEF PayRowsOf
  <1>3. /\ \A k : k \in DOMAIN its2 <=> k \in kept \/ k \in B
        /\ \A k \in kept : its2[k] = its[k]
        /\ \A k \in B : k[2] \in N /\ its2[k] = new[k[2]] /\ k = <<b, k[2]>>
    BY <1>1, <1>2, PayInsertedRows
  <1>4. \A k \in B : its2[k].run = id
    BY <1>1, <1>3 DEF PayNew
  <1>5. PaySame(its, its2, id)
    BY <1>2, <1>3, <1>4 DEF PaySame
  <1>6. PayRowsOf(its2, id) = B
    <2>1. \A k : k \in PayRowsOf(its2, id) <=> k \in B
      BY <1>2, <1>3, <1>4 DEF PayRowsOf
    <2> QED
      BY <2>1
  <1>7. ASSUME NEW x \in {"gross", "net", "employer"}
        PROVE  Payroll(c)!Added(PayTaken(its2, id), x) = Payroll(c)!Added(new, x)
    <2>1. PICK w, h, g, f : /\ w = PayTaken(its2, id) /\ h = PayColumn(w, B, x)
                            /\ g = PayColumn(new, N, x) /\ f = [e \in N |-> <<b, e>>]
      OBVIOUS
    <2>2. DOMAIN w = B /\ \A k \in B : w[k] = its2[k]
      BY <1>6, <2>1 DEF PayTaken
    <2>3. \A e \in N : f[e] \in B /\ w[f[e]] = new[e]
      <3>1. SUFFICES ASSUME NEW e \in N PROVE f[e] \in B /\ w[f[e]] = new[e]
        OBVIOUS
      <3>2. PICK k : k = <<b, e>>
        OBVIOUS
      <3>3. k \in B /\ k[2] = e /\ f[e] = k
        BY <1>1, <2>1, <3>2
      <3> QED
        BY <1>3, <2>2, <3>3
    <2>4. \A d, e \in N : f[d] = f[e] => d = e
      BY <2>1
    <2>5. \A e \in N : g[e] \in Int /\ h[f[e]] = g[e]
      <3>1. SUFFICES ASSUME NEW e \in N PROVE g[e] \in Int /\ h[f[e]] = g[e]
        OBVIOUS
      <3>2. PICK y : y = new[e] /\ y \in Payroll(c)!Item
        BY <1>1 DEF PayNew
      <3>3. g[e] = y[x] /\ h[f[e]] = y[x]
        BY <2>1, <2>3, <3>2 DEF PayColumn
      <3>4. y.gross \in Int /\ y.net \in Int /\ y.employer \in Int
        BY <3>2 DEF Payroll!Item
      <3> QED
        BY <3>3, <3>4
    <2>6. {f[e] : e \in N} = B
      BY <1>1, <1>3, <2>1, <2>3
    <2>7. IsFiniteSet(N)
      BY <1>1 DEF PayNew
    <2>8. SumOver(h, {f[e] : e \in N}) = SumOver(g, N)
      BY <2>4, <2>5, <2>7, SumImage
    <2> QED
      BY <1>1, <2>1, <2>2, <2>6, <2>8, PayAdded
  <1> QED
    BY <1>1, <1>5, <1>6, <1>7 DEF PaySameTotals

\* A calculation writes its items and totals.
LEMMA PayCalculateStep ==
  ASSUME NEW c, Payroll(c)!PayrollAssumption, PayIInv(c), NEW r \in PayrollCase[c].req,
         Payroll(c)!CommitCalculate(r)
  PROVE  PayIInv(c)'
  <1>1. PICK t, id, new : t = txn[r] /\ id = t.run /\ new = t.new
    OBVIOUS
  <1>2. t.op = "insert" /\ Payroll(c)!Finish(r) /\ UNCHANGED je
    BY <1>1 DEF Payroll!CommitCalculate
  <1>3. PayTypesOK(c) /\ PayUnderway(c, t, Len(runs)) /\ id \in DOMAIN runs /\ id \in 1..Len(runs)
    <2>1. PayTypesOK(c) /\ PayUnderway(c, t, Len(runs)) /\ id \in DOMAIN runs
      BY <1>1, <1>2, PayHolds DEF PayIInv
    <2>2. DOMAIN runs = 1..Len(runs)
      BY <2>1, PayTyped
    <2> QED
      BY <2>1, <2>2
  <1>4. PayNew(c, new, id)
    <2>1. PayComputed(c, t)
      BY <1>2, <1>3 DEF PayUnderway
    <2>2. IsFiniteSet(PayrollCase[c].employees)
      <3>1. Payroll(c)!IsFiniteSet(PayrollCase[c].employees)
        BY DEF Payroll!PayrollAssumption
      <3> QED
        BY <3>1, Zenon DEF Payroll!IsFiniteSet, IsFiniteSet
    <2>3. DOMAIN new \in SUBSET PayrollCase[c].employees
      BY <1>1, <2>1 DEF PayComputed
    <2>4. IsFiniteSet(DOMAIN new)
      BY <2>2, <2>3, FS_Subset
    <2> QED
      BY <1>1, <2>1, <2>4 DEF PayComputed, PayNew
  <1>5. PICK x : x = runs[id] /\ x \in Payroll(c)!Run
    BY <1>3, PayTyped
  <1>6. PICK z : z = Payroll(c)!Totals(x, new)
    OBVIOUS
  <1>7. z \in Payroll(c)!Run /\ PayAddsUp(c, z, new) /\ z.year = x.year
    <2>1. PayRows(c, new)
      BY <1>4 DEF PayNew, PayRows
    <2> QED
      BY <1>5, <1>6, <2>1, PayTotals
  <1>8. PICK row : row = [z EXCEPT !.status = "calculated", !.seen = t.seen]
    OBVIOUS
  <1>9. /\ row \in Payroll(c)!Run /\ row.status = "calculated" /\ row.seen = t.seen
        /\ row.year = x.year /\ PayAddsUp(c, row, new)
    <2>1. t.seen \in SUBSET (1..PayrollCase[c].runs)
      BY <1>3 DEF PayUnderway
    <2>2. /\ row \in Payroll(c)!Run /\ row.status = "calculated" /\ row.seen = t.seen
          /\ row.year = z.year /\ row.gross = z.gross /\ row.net = z.net
          /\ row.deductions = z.deductions /\ row.employer = z.employer
      BY <1>7, <1>8, <2>1 DEF Payroll!Run
    <2> QED
      BY <1>7, <2>2 DEF PayAddsUp
  <1>10. PICK kept, b : /\ kept = DOMAIN items \ DOMAIN t.items
                        /\ b = Payroll(c)!Max({0} \cup {k[1] : k \in DOMAIN items}) + 1
    OBVIOUS
  <1>11. /\ runs' = [runs EXCEPT ![id] = row]
         /\ items' = PayInserted(items, kept, b, new)
    <2>1. runs' = [runs EXCEPT ![id] = row]
      BY <1>1, <1>5, <1>6, <1>8 DEF Payroll!CommitCalculate
    <2>2. items' = PayInserted(items, kept, b, new)
      BY <1>1, <1>10, Zenon DEF Payroll!CommitCalculate, PayInserted
    <2> QED
      BY <2>1, <2>2
  <1>12. PICK its, its2, rs, rs2 : its = items /\ its2 = items' /\ rs = runs /\ rs2 = runs'
    OBVIOUS
  <1>13. PayTable(c, its, Len(runs))
    BY <1>3, <1>12 DEF PayTypesOK
  <1>14. b \in Nat /\ \A k \in DOMAIN its : k[1] # b
    BY <1>10, <1>12, <1>13, PayBatch
  <1>15. its2 = PayInserted(its, kept, b, new) /\ kept \in SUBSET DOMAIN its
    BY <1>10, <1>11, <1>12
  <1>16. PayTable(c, its2, Len(runs))
    BY <1>3, <1>4, <1>13, <1>14, <1>15, PayInsertedTable
  <1>17. ASSUME ~raced'
         PROVE  PaySame(its, its2, id) /\ PayRunOK(c, its2, rs2, id) /\ PayItemsOK(c, its2, rs2, id)
    <2>1. ~raced /\ x = t.read /\ PayTaken(its, id) = t.items
      BY <1>1, <1>2, <1>5, <1>12, <1>17, PayFinish
    <2>2. x.status = "draft"
      BY <1>2, <1>3, <2>1 DEF PayUnderway, PayStatus
    <2>3. kept = DOMAIN its \ PayRowsOf(its, id)
      BY <1>10, <1>12, <2>1 DEF PayTaken
    <2>4. /\ PaySame(its, its2, id) /\ PayRowsOf(its2, id) = {b} \X DOMAIN new
          /\ PaySameTotals(c, PayTaken(its2, id), new)
      BY <1>4, <1>14, <1>15, <2>3, PayInsertedRun
    <2>5. PayFresh(c, t, its, rs)
      <3>1. PayAllFresh(c, txn, its, rs)
        BY <1>12, <2>1 DEF PayIInv
      <3> QED
        BY <1>1, <3>1 DEF PayAllFresh
    <2>6. rs2[id] = row /\ rs[id] = x
      BY <1>3, <1>5, <1>11, <1>12
    <2>7. PayWritten(rs, rs2, id)
      BY <1>3, <1>9, <1>11, <1>12, <2>2, <2>6 DEF PayWritten
    <2>8. PayPosted(rs2, x.year) = PayPosted(rs, x.year) /\ id \notin PayPosted(rs, x.year)
      BY <1>9, <2>6, <2>7, PaySamePosted
    <2>9. /\ t.seen \subseteq PayPosted(rs, x.year)
          /\ \A e \in DOMAIN new : new[e].futa <= PayLeft(c, PayGross(its, e, t.seen))
      BY <1>1, <1>2, <2>5, <2>6 DEF PayFresh
    <2>10. PayAddsUp(c, row, PayTaken(its2, id))
      BY <1>9, <2>4 DEF PayAddsUp, PaySameTotals
    <2>11. PayRunOK(c, its2, rs2, id)
      BY <1>9, <2>6, <2>8, <2>9, <2>10 DEF PayRunOK
    <2>12. PayItemsOK(c, its2, rs2, id)
      <3>1. id \notin t.seen
        BY <2>8, <2>9
      <3>2. \A e : PayGross(its2, e, t.seen) = PayGross(its, e, t.seen)
        BY <2>4, <3>1, PaySameOf
      <3>3. \A k \in {b} \X DOMAIN new :
              k[2] \in DOMAIN new /\ its2[k] = new[k[2]] /\ k = <<b, k[2]>>
        BY <1>14, <1>15, PayInsertedRows
      <3>4. \A k, l \in {b} \X DOMAIN new : k[2] = l[2] => k = l
        BY <3>3
      <3>5. \A k \in {b} \X DOMAIN new : its2[k].futa <= PayLeft(c, PayGross(its2, k[2], t.seen))
        BY <2>9, <3>2, <3>3
      <3> QED
        BY <1>9, <2>4, <2>6, <3>4, <3>5 DEF PayItemsOK
    <2> QED
      BY <2>4, <2>11, <2>12
  <1>18. /\ PayTable(c, items', Len(runs))
         /\ ~raced' => /\ PaySame(items, items', id) /\ PayRunOK(c, items', runs', id)
                       /\ PayItemsOK(c, items', runs', id)
    BY <1>12, <1>16, <1>17
  <1>19. t.op \in {"insert", "override", "approve"} /\ row.status # "posted"
    BY <1>2, <1>9
  <1> QED
    BY <1>1, <1>2, <1>5, <1>9, <1>11, <1>18, <1>19, PayCommitOpen

-----------------------------------------------------------------------------
(* An override changes an item of its run.                                 *)

\* An overridden item adds up, and none of it lacks.
LEMMA PayOverridden ==
  ASSUME NEW c, NEW x \in Payroll(c)!Item, NEW column \in {"gross", "withheld", "other"},
         NEW a \in Nat, NEW z, z = Payroll(c)!Overridden(x, column, a)
  PROVE  z \in Payroll(c)!Item /\ PayAdds(z) /\ z.run = x.run /\ z.futa = x.futa
  <1>1. PICK y : y = [x EXCEPT ![column] = a]
    OBVIOUS
  <1>2. y \in Payroll(c)!Item /\ y.run = x.run /\ y.futa = x.futa
    <2>1. CASE column = "gross"
      BY <1>1, <2>1 DEF Payroll!Item
    <2>2. CASE column = "withheld"
      BY <1>1, <2>2 DEF Payroll!Item
    <2>3. CASE column = "other"
      BY <1>1, <2>3 DEF Payroll!Item
    <2> QED
      BY <2>1, <2>2, <2>3
  <1>3. z = [y EXCEPT !.net = y.gross - (y.withheld + y.other), !.pre = 0]
    BY <1>1 DEF Payroll!Overridden
  <1>4. PICK n : n = y.gross - (y.withheld + y.other)
    OBVIOUS
  <1>5. n \in Int /\ y.gross \in Nat /\ y.withheld \in Nat /\ y.other \in Nat
    BY <1>2, <1>4 DEF Payroll!Item
  <1>6. z = [y EXCEPT !.net = n, !.pre = 0]
    BY <1>3, <1>4
  <1>7. /\ z \in Payroll(c)!Item /\ z.run = y.run /\ z.futa = y.futa /\ z.net = n /\ z.pre = 0
        /\ z.gross = y.gross /\ z.withheld = y.withheld /\ z.other = y.other
    <2>1. y = [run |-> y.run, gross |-> y.gross, withheld |-> y.withheld, other |-> y.other,
               pre |-> y.pre, net |-> y.net, employer |-> y.employer, futa |-> y.futa]
      BY <1>2 DEF Payroll!Item
    <2>2. z = [run |-> y.run, gross |-> y.gross, withheld |-> y.withheld, other |-> y.other,
               pre |-> 0, net |-> n, employer |-> y.employer, futa |-> y.futa]
      BY <1>6, <2>1
    <2>3. y.run \in 1..PayrollCase[c].runs /\ y.employer \in Nat /\ y.futa \in Nat
      BY <1>2 DEF Payroll!Item
    <2> QED
      BY <1>5, <2>2, <2>3 DEF Payroll!Item
  <1>8. PayAdds(z)
    BY <1>4, <1>5, <1>7 DEF PayAdds
  <1> QED
    BY <1>2, <1>7, <1>8

PayPatched(its, k, z) == [its EXCEPT ![k] = z]

PaySameFuta(its, its2) == \A k \in DOMAIN its : its2[k].futa = its[k].futa

\* A table with one item changed, of the same run, is a table.
LEMMA PayChanged ==
  ASSUME NEW c, NEW its, NEW n, PayTable(c, its, n), NEW k \in DOMAIN its, NEW z,
         z \in Payroll(c)!Item, PayAdds(z), z.run = its[k].run, z.futa = its[k].futa,
         NEW its2, its2 = PayPatched(its, k, z), NEW id, id = its[k].run
  PROVE  /\ PayTable(c, its2, n) /\ PaySame(its, its2, id)
         /\ PayRowsOf(its2, id) = PayRowsOf(its, id)
         /\ PaySameFuta(its, its2) /\ PayTaken(its2, id) = PayPatched(PayTaken(its, id), k, z)
  <1>1. /\ DOMAIN its2 = DOMAIN its /\ its2 = [l \in DOMAIN its |-> its2[l]] /\ its2[k] = z
        /\ \A l \in DOMAIN its : l # k => its2[l] = its[l]
    BY DEF PayTable, PayPatched
  <1>2. \A l \in DOMAIN its : its2[l].run = its[l].run /\ its2[l].futa = its[l].futa
    BY <1>1
  <1>3. PayTable(c, its2, n)
    <2>1. \A l \in DOMAIN its :
            its2[l] \in Payroll(c)!Item /\ its2[l].run \in 1..n /\ PayAdds(its2[l])
      BY <1>1, <1>2 DEF PayTable
    <2> QED
      BY <1>1, <2>1 DEF PayTable
  <1>4. PaySame(its, its2, id)
    BY <1>1, <1>2 DEF PaySame
  <1>5. PayRowsOf(its2, id) = PayRowsOf(its, id)
    BY <1>1, <1>2 DEF PayRowsOf
  <1>6. PayTaken(its2, id) = PayPatched(PayTaken(its, id), k, z)
    <2>1. PICK S : S = PayRowsOf(its, id) /\ k \in S /\ \A l \in S : l \in DOMAIN its
      BY DEF PayRowsOf
    <2>2. PICK v, w : v = [l \in S |-> its[l]] /\ w = [l \in S |-> its2[l]]
      OBVIOUS
    <2>3. w = [v EXCEPT ![k] = z]
      <3>1. \A l \in S : w[l] = IF l = k THEN z ELSE v[l]
        BY <1>1, <2>1, <2>2
      <3> QED
        BY <2>1, <2>2, <3>1
    <2> QED
      BY <1>5, <2>1, <2>2, <2>3 DEF PayTaken, PayPatched
  <1> QED
    BY <1>2, <1>3, <1>4, <1>5, <1>6 DEF PaySameFuta

\* An item is overridden.
LEMMA PayOverrideStep ==
  ASSUME NEW c, Payroll(c)!PayrollAssumption, PayIInv(c), NEW r \in PayrollCase[c].req,
         NEW k \in DOMAIN items, NEW column \in {"gross", "withheld", "other"},
         NEW a \in PayrollCase[c].overrides, Payroll(c)!CommitOverride(r, k, column, a)
  PROVE  PayIInv(c)'
  <1>1. PICK t, id : t = txn[r] /\ id = t.run
    OBVIOUS
  <1>2. /\ t.op = "override" /\ Payroll(c)!Finish(r) /\ UNCHANGED je /\ items[k].run = id
    BY <1>1 DEF Payroll!CommitOverride
  <1>3. PayTypesOK(c) /\ PayUnderway(c, t, Len(runs)) /\ id \in DOMAIN runs
    BY <1>1, <1>2, PayHolds DEF PayIInv
  <1>4. PICK its, its2, rs, rs2 : its = items /\ its2 = items' /\ rs = runs /\ rs2 = runs'
    OBVIOUS
  <1>5. PayTable(c, its, Len(runs))
    BY <1>3, <1>4 DEF PayTypesOK
  <1>6. PICK z : z = Payroll(c)!Overridden(its[k], column, a)
    OBVIOUS
  <1>7. z \in Payroll(c)!Item /\ PayAdds(z) /\ z.run = its[k].run /\ z.futa = its[k].futa
    <2>1. its[k] \in Payroll(c)!Item
      BY <1>4, <1>5 DEF PayTable
    <2>2. a \in Nat
      BY DEF Payroll!PayrollAssumption
    <2> QED
      BY <1>6, <2>1, <2>2, PayOverridden
  <1>8. PICK w : w = PayTaken(its2, id)
    OBVIOUS
  <1>9. its2 = PayPatched(its, k, z)
    <2>1. items' = [items EXCEPT ![k] = Payroll(c)!Overridden(items[k], column, a)]
      BY Zenon DEF Payroll!CommitOverride
    <2> QED
      BY <1>4, <1>6, <2>1 DEF PayPatched
  <1>10. /\ PayTable(c, its2, Len(runs)) /\ PaySame(its, its2, id)
         /\ PayRowsOf(its2, id) = PayRowsOf(its, id)
         /\ PaySameFuta(its, its2) /\ w = PayPatched(PayTaken(its, id), k, z)
    <2>1. k \in DOMAIN its /\ id = its[k].run
      BY <1>2, <1>4
    <2> QED
      BY <1>5, <1>7, <1>8, <1>9, <2>1, PayChanged
  <1>11. PICK x : x = runs[id] /\ x \in Payroll(c)!Run
    BY <1>3, PayTyped
  <1>12. PICK row : row = Payroll(c)!Totals(x, w)
    OBVIOUS
  <1>13. runs' = [runs EXCEPT ![id] = row]
    <2>1. PayTaken(its, id) = Payroll(c)!ItemsOf(id)
      BY <1>4 DEF PayTaken, PayRowsOf, Payroll!ItemsOf
    <2>2. runs' = [runs EXCEPT ![id] =
                     Payroll(c)!Totals(runs[id], [Payroll(c)!ItemsOf(id) EXCEPT ![k] =
                                                    Payroll(c)!Overridden(items[k], column, a)])]
      BY <1>1 DEF Payroll!CommitOverride
    <2> QED
      BY <1>4, <1>6, <1>10, <1>11, <1>12, <2>1, <2>2 DEF PayPatched
  <1>14. /\ row \in Payroll(c)!Run /\ PayAddsUp(c, row, w)
         /\ row.year = x.year /\ row.status = x.status /\ row.seen = x.seen
    <2>1. PayTable(c, w, Len(runs))
      BY <1>8, <1>10, PayTakenTable
    <2>2. PayRows(c, w)
      BY <2>1 DEF PayTable, PayRows
    <2> QED
      BY <1>11, <1>12, <2>2, PayTotals
  <1>15. ASSUME ~raced'
         PROVE  x.status # "posted" /\ PayRunOK(c, its2, rs2, id) /\ PayItemsOK(c, its2, rs2, id)
    <2>1. ~raced /\ x = t.read
      BY <1>1, <1>2, <1>11, <1>15, PayFinish
    <2>2. x.status = "calculated"
      BY <1>2, <1>3, <2>1 DEF PayUnderway, PayStatus
    <2>3. PayRunOK(c, its, rs, id) /\ PayItemsOK(c, its, rs, id)
      BY <1>3, <1>4, <2>1 DEF PayIInv, PayOK
    <2>4. rs2[id] = row /\ rs[id] = x
      BY <1>3, <1>4, <1>11, <1>13
    <2>5. PayWritten(rs, rs2, id)
      BY <1>3, <1>4, <1>13, <1>14, <2>2, <2>4 DEF PayWritten
    <2>6. PayPosted(rs2, x.year) = PayPosted(rs, x.year) /\ id \notin PayPosted(rs, x.year)
      BY <1>14, <2>2, <2>4, <2>5, PaySamePosted
    <2>7. x.seen \subseteq PayPosted(rs, x.year)
      BY <2>3, <2>4 DEF PayRunOK
    <2>8. PayRunOK(c, its2, rs2, id)
      BY <1>8, <1>14, <2>4, <2>6, <2>7 DEF PayRunOK
    <2>9. PayItemsOK(c, its2, rs2, id)
      <3>1. \A e : PayGross(its2, e, x.seen) = PayGross(its, e, x.seen)
        BY <1>10, <2>6, <2>7, PaySameOf
      <3>2. \A l \in PayRowsOf(its, id) : its2[l].futa = its[l].futa
        BY <1>10 DEF PayRowsOf, PaySameFuta
      <3> QED
        BY <1>10, <1>14, <2>3, <2>4, <3>1, <3>2 DEF PayItemsOK
    <2> QED
      BY <2>2, <2>8, <2>9
  <1>16. /\ t.op \in {"insert", "override", "approve"} /\ PayTable(c, items', Len(runs))
         /\ row.year = runs[id].year
         /\ ~raced' => /\ row.status # "posted" /\ PaySame(items, items', id)
                       /\ PayRunOK(c, items', runs', id) /\ PayItemsOK(c, items', runs', id)
    BY <1>2, <1>4, <1>10, <1>11, <1>14, <1>15
  <1> QED
    BY <1>1, <1>2, <1>13, <1>14, <1>16, PayCommitOpen

-----------------------------------------------------------------------------
(* A run is posted.                                                        *)

\* What a run used of the wage base is within what the others of its year left.
LEMMA PayCap ==
  ASSUME NEW c, PayrollCase[c].futa_cap \in Nat, NEW its, NEW n, PayTable(c, its, n),
         NEW e, NEW P, NEW id, id \notin P, PayKept(its, P),
         PayFuta(its, e, P) <= PayrollCase[c].futa_cap,
         \A k, l \in PayRowsOf(its, id) : k[2] = l[2] => k = l,
         \A k \in PayRowsOf(its, id) : its[k].futa <= PayLeft(c, PayGross(its, k[2], P))
  PROVE  PayFuta(its, e, P \cup {id}) <= PayrollCase[c].futa_cap
  <1>1. PICK S, T : S = PayOf(its, e, P) /\ T = PayOf(its, e, P \cup {id})
    OBVIOUS
  <1>2. /\ IsFiniteSet(S) /\ PayGross(its, e, P) \in Nat /\ PayFuta(its, e, P) \in Nat
        /\ PayFuta(its, e, P) <= PayGross(its, e, P)
    BY <1>1, PayUse
  <1>3. CASE \A k \in PayRowsOf(its, id) : k[2] # e
    <2>1. \A k : k \in T <=> k \in S
      BY <1>1, <1>3 DEF PayOf, PayRowsOf
    <2>2. T = S
      BY <2>1
    <2> QED
      BY <1>1, <2>2 DEF PayFuta
  <1>4. CASE \E k \in PayRowsOf(its, id) : k[2] = e
    <2>1. PICK k \in PayRowsOf(its, id) : k[2] = e
      BY <1>4
    <2>2. k \in DOMAIN its /\ its[k].run = id
      BY DEF PayRowsOf
    <2>3. T = S \cup {k} /\ k \notin S
      <3>1. \A l : l \in T <=> l \in S \/ l = k
        BY <1>1, <2>1, <2>2 DEF PayOf, PayRowsOf
      <3>2. k \notin S
        BY <1>1, <2>2 DEF PayOf
      <3> QED
        BY <3>1, <3>2
    <2>4. PICK h, g : h = PayColumn(its, S, "futa") /\ g = PayColumn(its, T, "futa")
      OBVIOUS
    <2>5. \A l \in T : g[l] = its[l].futa /\ g[l] \in Int
      <3>1. \A l \in T : its[l] \in Payroll(c)!Item
        BY <1>1 DEF PayOf, PayTable
      <3> QED
        BY <2>4, <3>1 DEF PayColumn, Payroll!Item
    <2>6. \A l \in S : h[l] = g[l] /\ h[l] \in Int
      <3>1. \A l \in S : h[l] = its[l].futa /\ l \in T
        BY <2>3, <2>4 DEF PayColumn
      <3> QED
        BY <2>5, <3>1
    <2>7. SumOver(g, S) = SumOver(h, S)
      BY <1>2, <2>6, SumCongruent
    <2>8. SumOver(g, T) = g[k] + SumOver(g, S)
      <3>1. \A l \in S \cup {k} : g[l] \in Int
        BY <2>3, <2>5
      <3> QED
        BY <1>2, <2>3, <3>1, SumInsert
    <2>9. PICK a, b : a = PayFuta(its, e, P) /\ b = PayGross(its, e, P)
      OBVIOUS
    <2>10. SumOver(h, S) = a
      BY <1>1, <2>4, <2>9 DEF PayFuta
    <2>11. PayFuta(its, e, P \cup {id}) = g[k] + a
      BY <1>1, <2>4, <2>7, <2>8, <2>10 DEF PayFuta
    <2>12. g[k] \in Int /\ g[k] <= PayLeft(c, b)
      <3>1. its[k].futa <= PayLeft(c, PayGross(its, e, P))
        BY <2>1
      <3> QED
        BY <2>3, <2>5, <2>9, <3>1
    <2>13. a \in Nat /\ b \in Nat /\ a <= b /\ a <= PayrollCase[c].futa_cap
      BY <1>2, <2>9
    <2>14. g[k] + a <= PayrollCase[c].futa_cap
      BY <2>12, <2>13 DEF PayLeft
    <2> QED
      BY <2>11, <2>14
  <1> QED
    BY <1>3, <1>4

\* The run has become a posted one, and nothing else of it has changed but its entry.
PayNowPosted(rs, new, id, entry_id) ==
  /\ PayWritten(rs, new, id) /\ rs[id].status = "approved" /\ new[id].status = "posted"
  /\ new[id].je = entry_id /\ new[id].seen = rs[id].seen
  /\ new[id].gross = rs[id].gross /\ new[id].net = rs[id].net
  /\ new[id].deductions = rs[id].deductions /\ new[id].employer = rs[id].employer

\* Posting a run adds it to the posted ones of its year.
LEMMA PayPostedGrows ==
  ASSUME NEW rs, NEW new, NEW id, NEW m, PayNowPosted(rs, new, id, m), NEW y
  PROVE  /\ PayPosted(new, y) =
              IF rs[id].year = y THEN PayPosted(rs, y) \cup {id} ELSE PayPosted(rs, y)
         /\ id \notin PayPosted(rs, y)
  <1>1. \A x : x \in PayPosted(new, y) <=> x \in PayPosted(rs, y) \/ (x = id /\ rs[id].year = y)
    BY DEF PayNowPosted, PayWritten, PayPosted
  <1>2. id \notin PayPosted(rs, y)
    BY DEF PayNowPosted, PayPosted
  <1> QED
    BY <1>1, <1>2

\* The wage base stays within its cap when a run is posted.
LEMMA PayCappedStill ==
  ASSUME NEW c, PayrollCase[c].futa_cap \in Nat, NEW its, NEW n, PayTable(c, its, n),
         NEW rs, NEW new, NEW id, NEW m, PayNowPosted(rs, new, id, m),
         \A x \in DOMAIN rs : PayRunOK(c, its, rs, x) /\ PayItemsOK(c, its, rs, x),
         NEW y, PayCapped(c, its, rs, y)
  PROVE  PayCapped(c, its, new, y)
  <1>1. SUFFICES ASSUME PayCounted(new, y), PayKept(its, PayPosted(new, y)),
                        NEW e \in PayrollCase[c].employees
                 PROVE  PayFuta(its, e, PayPosted(new, y)) <= PayrollCase[c].futa_cap
    BY DEF PayCapped
  <1>2. PICK P, Q : P = PayPosted(rs, y) /\ Q = PayPosted(new, y)
    OBVIOUS
  <1>3. Q = (IF rs[id].year = y THEN P \cup {id} ELSE P) /\ id \notin P
    BY <1>2, PayPostedGrows
  <1>4. \A x \in P : x \in DOMAIN rs /\ new[x] = rs[x] /\ x \in Q
    BY <1>2, <1>3 DEF PayNowPosted, PayWritten, PayPosted
  <1>5. PayCounted(rs, y)
    BY <1>1, <1>2, <1>4 DEF PayCounted
  <1>6. PayKept(its, P)
    BY <1>1, <1>2, <1>4 DEF PayKept
  <1>7. PayFuta(its, e, P) <= PayrollCase[c].futa_cap
    BY <1>2, <1>5, <1>6 DEF PayCapped
  <1>8. CASE rs[id].year = y
    <2>1. Q = P \cup {id}
      BY <1>3, <1>8
    <2>2. id \in DOMAIN rs /\ new[id].seen = rs[id].seen
      BY DEF PayNowPosted, PayWritten
    <2>3. rs[id].seen \subseteq P
      BY <1>2, <1>8, <2>2 DEF PayRunOK
    <2>4. \A a \in P : a \in rs[id].seen
      <3>1. SUFFICES ASSUME NEW a \in P PROVE a \in rs[id].seen
        OBVIOUS
      <3>2. a \in new[id].seen \/ id \in new[a].seen
        <4>1. a \in Q /\ id \in Q /\ a # id
          BY <1>3, <1>4, <2>1
        <4> QED
          BY <1>1, <1>2, <4>1 DEF PayCounted
      <3>3. new[a].seen = rs[a].seen /\ rs[a].seen \subseteq PayPosted(rs, rs[a].year)
        BY <1>4 DEF PayRunOK
      <3>4. rs[a].year = y
        BY <1>2 DEF PayPosted
      <3> QED
        BY <1>2, <1>3, <2>2, <3>2, <3>3, <3>4
    <2>5. rs[id].seen = P
      BY <2>3, <2>4
    <2>6. /\ \A k, l \in PayRowsOf(its, id) : k[2] = l[2] => k = l
          /\ \A k \in PayRowsOf(its, id) : its[k].futa <= PayLeft(c, PayGross(its, k[2], P))
      <3>1. PayItemsOK(c, its, rs, id)
        BY <2>2
      <3> QED
        BY <2>5, <3>1 DEF PayItemsOK
    <2>7. PayFuta(its, e, P \cup {id}) <= PayrollCase[c].futa_cap
      BY <1>3, <1>6, <1>7, <2>6, PayCap
    <2> QED
      BY <1>2, <2>1, <2>7
  <1>9. CASE rs[id].year # y
    <2>1. Q = P
      BY <1>3, <1>9
    <2> QED
      BY <1>2, <1>7, <2>1
  <1> QED
    BY <1>8, <1>9

\* A post by run id, whose items lack due, appended to a journal of m posts.
PayAppended(c, rs, es, es2, m, id, due) ==
  /\ DOMAIN es = 1..m /\ DOMAIN es2 = 1..(m + 1)
  /\ \A i \in DOMAIN es : es[i].run \in DOMAIN rs
  /\ \A i \in 1..m : es2[i] = es[i]
  /\ es2[m + 1].run = id
  /\ es2[m + 1].chart = Payroll(c)!Codes => es2[m + 1].debit - es2[m + 1].credit = due

\* After a post everything still agrees.
LEMMA PayPostedOK ==
  ASSUME NEW c, PayrollCase[c].futa_cap \in Nat, NEW its, NEW n, PayTable(c, its, n),
         NEW rs, NEW es, PayOK(c, its, rs, es), NEW new, NEW id, NEW m \in Nat,
         PayNowPosted(rs, new, id, m + 1),
         NEW es2, NEW due, PayAppended(c, rs, es, es2, m, id, due),
         due = Payroll(c)!Added(PayTaken(its, id), "pre")
  PROVE  PayOK(c, its, new, es2)
  <1>1. /\ DOMAIN new = DOMAIN rs /\ id \in DOMAIN rs /\ new[id].status = "posted"
        /\ new[id].seen = rs[id].seen /\ new[id].year = rs[id].year /\ new[id].je = m + 1
        /\ rs[id].status = "approved"
        /\ new[id].gross = rs[id].gross /\ new[id].net = rs[id].net
        /\ new[id].deductions = rs[id].deductions /\ new[id].employer = rs[id].employer
        /\ \A x \in DOMAIN rs : x # id => new[x] = rs[x]
    BY DEF PayNowPosted, PayWritten
  <1>2. \A x \in DOMAIN rs : PayRunOK(c, its, rs, x) /\ PayItemsOK(c, its, rs, x)
    BY DEF PayOK
  <1>3. \A x \in DOMAIN rs : new[x].seen = rs[x].seen /\ new[x].year = rs[x].year
    BY <1>1
  <1>4. \A y : PayPosted(rs, y) \subseteq PayPosted(new, y)
    BY <1>1 DEF PayPosted
  <1>5. ASSUME NEW x \in DOMAIN new PROVE PayRunOK(c, its, new, x) /\ PayItemsOK(c, its, new, x)
    <2>1. x \in DOMAIN rs /\ PayRunOK(c, its, rs, x) /\ PayItemsOK(c, its, rs, x)
      BY <1>1, <1>2
    <2>2. new[x].seen \subseteq PayPosted(new, new[x].year)
      BY <1>3, <1>4, <2>1 DEF PayRunOK
    <2>3. PayItemsOK(c, its, new, x)
      BY <1>3, <2>1 DEF PayItemsOK
    <2>4. new[x].status # "draft" => PayAddsUp(c, new[x], PayTaken(its, x))
      <3>1. new[x].status # "draft" => rs[x].status # "draft"
        BY <1>1, <2>1
      <3>2. PayAddsUp(c, rs[x], PayTaken(its, x)) => PayAddsUp(c, new[x], PayTaken(its, x))
        BY <1>1, <2>1 DEF PayAddsUp
      <3> QED
        BY <2>1, <3>1, <3>2 DEF PayRunOK
    <2> QED
      BY <2>2, <2>3, <2>4 DEF PayRunOK
  <1>6. ASSUME NEW i \in DOMAIN es2 PROVE PayBooked(c, its, new, es2, i)
    <2>1. CASE i \in 1..m
      <3>1. PayBooked(c, its, rs, es, i) /\ es2[i] = es[i] /\ es[i].run \in DOMAIN rs
        BY <2>1 DEF PayOK, PayAppended
      <3>2. es[i].run # id
        BY <1>1, <3>1 DEF PayBooked
      <3> QED
        BY <1>1, <3>1, <3>2 DEF PayBooked
    <2>2. CASE i = m + 1
      BY <1>1, <2>2 DEF PayBooked, PayAppended
    <2> QED
      BY <2>1, <2>2 DEF PayAppended
  <1>7. ASSUME NEW y \in PayrollCase[c].years PROVE PayCapped(c, its, new, y)
    <2>1. PayCapped(c, its, rs, y)
      BY DEF PayOK
    <2> QED
      BY <1>2, <2>1, PayCappedStill
  <1> QED
    BY <1>5, <1>6, <1>7 DEF PayOK

\* The two sides of an entry of all accounts differ by what the net pay lacks.
LEMMA PayEntrySides ==
  ASSUME NEW c, NEW its, PayRows(c, its), \A k \in DOMAIN its : PayAdds(its[k]), NEW chart
  PROVE  /\ Payroll(c)!Debit(its, chart) \in Int /\ Payroll(c)!Credit(its, chart) \in Int
         /\ chart = Payroll(c)!Codes =>
              Payroll(c)!Debit(its, chart) - Payroll(c)!Credit(its, chart)
                = Payroll(c)!Added(its, "pre")
  <1>1. PICK g, w, o, p, n, f :
          /\ g = Payroll(c)!Added(its, "gross") /\ w = Payroll(c)!Added(its, "withheld")
          /\ o = Payroll(c)!Added(its, "other") /\ p = Payroll(c)!Added(its, "pre")
          /\ n = Payroll(c)!Added(its, "net") /\ f = Payroll(c)!Added(its, "employer")
    OBVIOUS
  <1>2. g \in Int /\ w \in Int /\ o \in Int /\ p \in Int /\ n \in Int /\ f \in Int
    BY <1>1, PayAddedType
  <1>3. g = w + o + p + n
    BY <1>1, PayColumnsAdd
  <1>4. /\ Payroll(c)!Debit(its, chart)
             = Payroll(c)!Line("salary", g, chart) + Payroll(c)!Line("taxExpense", f, chart)
        /\ Payroll(c)!Credit(its, chart)
             = Payroll(c)!Line("payable", w + o, chart) + Payroll(c)!Line("taxPayable", f, chart)
               + Payroll(c)!Line("cash", n, chart)
    BY <1>1 DEF Payroll!Debit, Payroll!Credit
  <1>5. \A x, a : Payroll(c)!Line(x, a, chart) = IF x \in chart THEN a ELSE 0
    BY DEF Payroll!Line
  <1>6. Payroll(c)!Debit(its, chart) \in Int /\ Payroll(c)!Credit(its, chart) \in Int
    <2>1. w + o \in Int
      BY <1>2
    <2>2. \A x, a : a \in Int => Payroll(c)!Line(x, a, chart) \in Int
      BY <1>5
    <2> QED
      BY <1>2, <1>4, <2>1, <2>2
  <1>7. ASSUME chart = Payroll(c)!Codes
        PROVE  Payroll(c)!Debit(its, chart) - Payroll(c)!Credit(its, chart) = p
    <2>1. /\ "salary" \in chart /\ "taxExpense" \in chart /\ "payable" \in chart
          /\ "taxPayable" \in chart /\ "cash" \in chart
      BY <1>7 DEF Payroll!Codes
    <2>2. /\ Payroll(c)!Debit(its, chart) = g + f
          /\ Payroll(c)!Credit(its, chart) = (w + o) + f + n
      BY <1>4, <1>5, <2>1
    <2> QED
      BY <1>2, <1>3, <2>2
  <1> QED
    BY <1>1, <1>6, <1>7

\* A run is posted.
LEMMA PayPostStep ==
  ASSUME NEW c, Payroll(c)!PayrollAssumption, PayIInv(c), NEW r \in PayrollCase[c].req,
         NEW chart \in PayrollCase[c].charts, Payroll(c)!CommitPost(r, chart)
  PROVE  PayIInv(c)'
  <1>1. PICK t, id : t = txn[r] /\ id = t.run
    OBVIOUS
  <1>2. /\ t.op = "post" /\ t.op # "none" /\ Payroll(c)!Finish(r) /\ items' = items
        /\ Len(je) < PayrollCase[c].entries
    BY <1>1 DEF Payroll!CommitPost
  <1>3. PayTypesOK(c) /\ PayUnderway(c, t, Len(runs)) /\ id \in DOMAIN runs /\ id \in 1..Len(runs)
    <2>1. PayTypesOK(c) /\ PayUnderway(c, t, Len(runs)) /\ id \in DOMAIN runs
      BY <1>1, <1>2, PayHolds DEF PayIInv
    <2>2. DOMAIN runs = 1..Len(runs)
      BY <2>1, PayTyped
    <2> QED
      BY <2>1, <2>2
  <1>4. PICK m \in Nat : m = Len(je) /\ DOMAIN je = 1..m
    BY <1>3, PayTyped
  <1>5. PICK its, rs, es, rs2, es2 : its = items /\ rs = runs /\ es = je /\ rs2 = runs' /\ es2 = je'
    OBVIOUS
  <1>6. /\ PayTable(c, its, Len(runs)) /\ PayJournal(c, es, Len(runs))
        /\ PayTable(c, t.items, Len(runs))
    BY <1>3, <1>5 DEF PayTypesOK, PayUnderway
  <1>7. PICK x : x = runs[id] /\ x \in Payroll(c)!Run
    BY <1>3, PayTyped
  <1>8. PICK row : row = [x EXCEPT !.status = "posted", !.je = m + 1]
    OBVIOUS
  <1>9. PayrollCase[c].entries \in Nat /\ PayrollCase[c].futa_cap \in Nat
    BY DEF Payroll!PayrollAssumption
  <1>10. /\ row \in Payroll(c)!Run /\ row.status = "posted" /\ row.je = m + 1
         /\ row.seen = x.seen /\ row.year = x.year /\ row.gross = x.gross /\ row.net = x.net
         /\ row.deductions = x.deductions /\ row.employer = x.employer
    <2>1. m + 1 \in 0..PayrollCase[c].entries
      BY <1>2, <1>4, <1>9
    <2> QED
      BY <1>7, <1>8, <2>1 DEF Payroll!Run
  <1>11. rs2 = [rs EXCEPT ![id] = row]
    <2>1. runs' = [runs EXCEPT ![id].status = "posted", ![id].je = m + 1]
      BY <1>1, <1>4 DEF Payroll!CommitPost
    <2>2. runs' = [runs EXCEPT ![id] = [x EXCEPT !.status = "posted", !.je = m + 1]]
      BY <1>3, <1>7, <2>1
    <2> QED
      BY <1>5, <1>8, <2>2
  <1>12. PICK d, e : d = Payroll(c)!Debit(t.items, chart) /\ e = Payroll(c)!Credit(t.items, chart)
    OBVIOUS
  <1>13. /\ d \in Int /\ e \in Int
         /\ chart = Payroll(c)!Codes => d - e = Payroll(c)!Added(t.items, "pre")
    <2>1. PayRows(c, t.items) /\ \A k \in DOMAIN t.items : PayAdds(t.items[k])
      BY <1>6 DEF PayTable, PayRows
    <2> QED
      BY <1>12, <2>1, PayEntrySides
  <1>14. PICK o : o = [run |-> id, chart |-> chart, debit |-> d, credit |-> e]
    OBVIOUS
  <1>15. o \in PayEntry(c) /\ o.run = id /\ o.chart = chart /\ o.debit = d /\ o.credit = e
    BY <1>3, <1>13, <1>14 DEF PayEntry
  <1>16. es2 = Append(es, o)
    BY <1>1, <1>5, <1>12, <1>14 DEF Payroll!CommitPost
  <1>17. /\ es2 \in Seq(PayEntry(c)) /\ Len(es2) = m + 1 /\ DOMAIN es2 = 1..(m + 1)
         /\ es2[m + 1] = o /\ \A i \in 1..m : es2[i] = es[i]
    <2>1. es \in Seq(PayEntry(c)) /\ Len(es) = m
      BY <1>4, <1>5, <1>6 DEF PayJournal
    <2>2. es2 \in Seq(PayEntry(c)) /\ Len(es2) = m + 1
      BY <1>15, <1>16, <2>1, AppendProperties
    <2>3. DOMAIN es2 = 1..Len(es2)
      BY <2>2, LenProperties
    <2>4. es2[m + 1] = o /\ \A i \in 1..m : es2[i] = es[i]
      BY <1>15, <1>16, <2>1, AppendProperties
    <2> QED
      BY <2>2, <2>3, <2>4
  <1>18. PayJournal(c, es2, Len(runs))
    <2>1. Len(es2) <= PayrollCase[c].entries
      BY <1>2, <1>4, <1>9, <1>17
    <2>2. \A i \in 1..m : es[i].run \in 1..Len(runs)
      BY <1>4, <1>5, <1>6 DEF PayJournal
    <2>3. \A i \in 1..(m + 1) : i \in 1..m \/ i = m + 1
      OBVIOUS
    <2>4. \A i \in DOMAIN es2 : es2[i].run \in 1..Len(runs)
      BY <1>3, <1>15, <1>17, <2>2, <2>3
    <2> QED
      BY <1>17, <2>1, <2>4 DEF PayJournal
  <1>19. ASSUME ~raced'
         PROVE  PayOK(c, its, rs2, es2) /\ PaySame(its, its, id) /\ PayWritten(rs, rs2, id)
    <2>1. ~raced /\ x = t.read /\ PayTaken(its, id) = t.items
      BY <1>1, <1>2, <1>5, <1>7, <1>19, PayFinish
    <2>2. x.status = "approved"
      BY <1>2, <1>3, <2>1 DEF PayUnderway, PayStatus
    <2>3. PayOK(c, its, rs, es)
      BY <1>5, <2>1 DEF PayIInv
    <2>4. /\ rs2[id] = row /\ rs[id] = x /\ id \in DOMAIN rs /\ DOMAIN rs2 = DOMAIN rs
          /\ \A y \in DOMAIN rs : y # id => rs2[y] = rs[y]
      BY <1>3, <1>5, <1>7, <1>11
    <2>5. PayWritten(rs, rs2, id)
      BY <1>10, <2>2, <2>4 DEF PayWritten
    <2>6. PayNowPosted(rs, rs2, id, m + 1)
      BY <1>10, <2>2, <2>4, <2>5 DEF PayNowPosted
    <2>7. PICK due : due = Payroll(c)!Added(PayTaken(its, id), "pre")
      OBVIOUS
    <2>8. DOMAIN es = 1..m /\ \A i \in DOMAIN es : es[i].run \in DOMAIN rs
      BY <1>3, <1>4, <1>5, PayTyped
    <2>9. PayAppended(c, rs, es, es2, m, id, due)
      BY <1>13, <1>15, <1>17, <2>1, <2>7, <2>8 DEF PayAppended
    <2>10. PayOK(c, its, rs2, es2)
      BY <1>6, <1>9, <2>3, <2>6, <2>7, <2>9, PayPostedOK
    <2>11. PaySame(its, its, id)
      BY DEF PaySame
    <2> QED
      BY <2>5, <2>10, <2>11
  <1>20. /\ runs' = [runs EXCEPT ![id] = row]
         /\ PayTable(c, items', Len(runs)) /\ PayJournal(c, je', Len(runs))
         /\ ~raced' => /\ PayOK(c, items', runs', je')
                       /\ PaySame(items, items', id) /\ PayWritten(runs, runs', id)
    BY <1>2, <1>5, <1>6, <1>11, <1>18, <1>19
  <1> QED
    BY <1>1, <1>2, <1>10, <1>20, PayCommit

-----------------------------------------------------------------------------
(* Every step, and what follows.                                           *)

\* There are no runs yet.
LEMMA PayInitIInv ==
  ASSUME NEW c, Payroll(c)!PayrollAssumption, Payroll(c)!Init
  PROVE  PayIInv(c)
  <1>1. /\ rate \in [PayrollCase[c].employees -> PayrollCase[c].rates \cup {0}]
        /\ deducted = {} /\ runs = <<>> /\ items = <<>> /\ je = <<>> /\ raced = FALSE
        /\ txn = [r \in PayrollCase[c].req |-> Payroll(c)!Idle]
    BY DEF Payroll!Init
  <1>2. PayPeople(c, rate, deducted)
    <2>1. PayrollCase[c].rates \cup {0} \subseteq Nat
      BY DEF Payroll!PayrollAssumption
    <2> QED
      BY <1>1, <2>1, FS_EmptySet DEF PayPeople
  <1>3. PICK its, rs, es, tx : its = items /\ rs = runs /\ es = je /\ tx = txn
    OBVIOUS
  <1>4. its = <<>> /\ rs = <<>> /\ es = <<>> /\ DOMAIN its = {} /\ DOMAIN rs = {} /\ DOMAIN es = {}
        /\ Len(rs) = 0 /\ Len(es) = 0
    BY <1>1, <1>3
  <1>5. PayTable(c, its, Len(rs))
    <2>1. its = [k \in DOMAIN its |-> its[k]] /\ IsFiniteSet(DOMAIN its)
      BY <1>4, FS_EmptySet
    <2> QED
      BY <1>4, <2>1 DEF PayTable
  <1>6. PayRunsTyped(c, rs) /\ PayJournal(c, es, Len(rs))
    <2>1. PayrollCase[c].runs \in Nat /\ PayrollCase[c].entries \in Nat
      BY DEF Payroll!PayrollAssumption
    <2>2. rs \in Seq(Payroll(c)!Run) /\ es \in Seq(PayEntry(c))
      BY <1>4
    <2> QED
      BY <1>4, <2>1, <2>2 DEF PayRunsTyped, PayJournal
  <1>7. PayTypesOK(c)
    BY <1>1, <1>2, <1>3, <1>5, <1>6 DEF PayTypesOK
  <1>8. PayTxnOK(c, tx, Len(rs)) /\ PayAllFresh(c, tx, its, rs)
    <2>1. \A r \in PayrollCase[c].req : tx[r] = Payroll(c)!Idle
      BY <1>1, <1>3
    <2>2. PayFresh(c, Payroll(c)!Idle, its, rs)
      BY PayIdle
    <2> QED
      BY <1>1, <1>3, <2>1, <2>2 DEF PayTxnOK, PayAllFresh
  <1>9. PayOK(c, its, rs, es)
    <2>1. \A y : PayPosted(rs, y) = {}
      BY <1>4 DEF PayPosted
    <2>2. PayrollCase[c].futa_cap \in Nat
      BY DEF Payroll!PayrollAssumption
    <2>3. \A e : PayFuta(its, e, {}) = 0
      <3>1. SUFFICES ASSUME NEW e PROVE PayFuta(its, e, {}) = 0
        OBVIOUS
      <3>2. PayOf(its, e, {}) = {}
        BY DEF PayOf
      <3> QED
        BY <3>2, SumEmpty DEF PayFuta
    <2>4. \A y \in PayrollCase[c].years : PayCapped(c, its, rs, y)
      BY <2>1, <2>2, <2>3 DEF PayCapped
    <2> QED
      BY <1>4, <2>4 DEF PayOK
  <1> QED
    BY <1>3, <1>7, <1>8, <1>9 DEF PayIInv

\* Every step.
LEMMA PayNextStep ==
  ASSUME NEW c, Payroll(c)!PayrollAssumption, PayIInv(c),
         Payroll(c)!Next \/ UNCHANGED Payroll(c)!vars
  PROVE  PayIInv(c)'
  <1>1. ASSUME NEW e \in PayrollCase[c].employees, NEW p \in PayrollCase[c].rates \cup {0},
               Payroll(c)!UpdateEmployee(e, p)
        PROVE  PayIInv(c)'
    BY <1>1, PayEmployeeStep
  <1>2. ASSUME NEW d \in PayrollCase[c].deductions, Payroll(c)!SetDeduction(d)
        PROVE  PayIInv(c)'
    BY <1>2, PayDeductionStep
  <1>3. ASSUME NEW y \in PayrollCase[c].years, Payroll(c)!CreatePayrollRun(y) PROVE PayIInv(c)'
    BY <1>3, PayCreateStep
  <1>4. ASSUME NEW r \in PayrollCase[c].req,
               NEW op \in {"calculate", "override", "approve", "post"},
               NEW id \in DOMAIN runs, Payroll(c)!Read(r, op, id)
        PROVE  PayIInv(c)'
    BY <1>4, PayReadStep
  <1>5. ASSUME NEW r \in PayrollCase[c].req, Payroll(c)!Compute(r) PROVE PayIInv(c)'
    BY <1>5, PayComputeStep
  <1>6. ASSUME NEW r \in PayrollCase[c].req, Payroll(c)!CommitCalculate(r) PROVE PayIInv(c)'
    BY <1>6, PayCalculateStep
  <1>7. ASSUME NEW r \in PayrollCase[c].req, Payroll(c)!CommitApprove(r) PROVE PayIInv(c)'
    BY <1>7, PayApproveStep
  <1>8. ASSUME NEW r \in PayrollCase[c].req, Payroll(c)!Rollback(r) PROVE PayIInv(c)'
    BY <1>8, PayRollbackStep
  <1>9. ASSUME NEW r \in PayrollCase[c].req, NEW k \in DOMAIN items,
               NEW column \in {"gross", "withheld", "other"}, NEW a \in PayrollCase[c].overrides,
               Payroll(c)!CommitOverride(r, k, column, a)
        PROVE  PayIInv(c)'
    BY <1>9, PayOverrideStep
  <1>10. ASSUME NEW r \in PayrollCase[c].req, NEW chart \in PayrollCase[c].charts,
                Payroll(c)!CommitPost(r, chart)
         PROVE  PayIInv(c)'
    BY <1>10, PayPostStep
  <1>11. CASE UNCHANGED Payroll(c)!vars
    <2>1. UNCHANGED <<rate, deducted, runs, items, je, txn, raced>>
      BY <1>11 DEF Payroll!vars
    <2>2. PayPeople(c, rate', deducted')
      BY <2>1 DEF PayIInv, PayTypesOK
    <2> QED
      BY <2>1, <2>2, PayPeopleStep
  <1>12. CASE Payroll(c)!Next
    BY <1>1, <1>2, <1>3, <1>4, <1>5, <1>6, <1>7, <1>8, <1>9, <1>10, <1>12 DEF Payroll!Next
  <1> QED
    BY <1>11, <1>12

\* The invariant is what Payroll promises, and more.
LEMMA PayDoes ==
  ASSUME NEW c, PayIInv(c)
  PROVE  Payroll(c)!PayrollSettles
  <1>1. SUFFICES ASSUME ~raced
                 PROVE  /\ \A id \in DOMAIN runs : runs[id].status # "draft" =>
                             runs[id] = Payroll(c)!Totals(runs[id], Payroll(c)!ItemsOf(id))
                        /\ \A i \in DOMAIN je :
                             /\ runs[je[i].run].je = i
                             /\ je[i].chart = Payroll(c)!Codes =>
                                  je[i].debit - je[i].credit
                                    = Payroll(c)!Added(Payroll(c)!ItemsOf(je[i].run), "pre")
                        /\ \A y \in PayrollCase[c].years :
                             (/\ Payroll(c)!Counted(y)
                              /\ \A k \in DOMAIN items : items[k].futa <= items[k].gross) =>
                               \A e \in PayrollCase[c].employees :
                                 Payroll(c)!FutaUsed(e, y) <= PayrollCase[c].futa_cap
    BY DEF Payroll!PayrollSettles
  <1>2. PayOK(c, items, runs, je) /\ PayTypesOK(c)
    BY <1>1 DEF PayIInv
  <1>3. \A id : PayTaken(items, id) = Payroll(c)!ItemsOf(id)
    BY DEF PayTaken, PayRowsOf, Payroll!ItemsOf
  <1>4. ASSUME NEW id \in DOMAIN runs, runs[id].status # "draft"
        PROVE  runs[id] = Payroll(c)!Totals(runs[id], Payroll(c)!ItemsOf(id))
    <2>1. PICK x, w : x = runs[id] /\ x \in Payroll(c)!Run /\ w = PayTaken(items, id)
      BY <1>2, PayTyped
    <2>2. PayAddsUp(c, x, w)
      BY <1>2, <1>4, <2>1 DEF PayOK, PayRunOK
    <2>3. x = Payroll(c)!Totals(x, w)
      BY <2>1, <2>2, PayTotalsHold
    <2> QED
      BY <1>3, <2>1, <2>3
  <1>5. ASSUME NEW i \in DOMAIN je
        PROVE  /\ runs[je[i].run].je = i
               /\ je[i].chart = Payroll(c)!Codes =>
                    je[i].debit - je[i].credit
                      = Payroll(c)!Added(Payroll(c)!ItemsOf(je[i].run), "pre")
    BY <1>2, <1>3 DEF PayOK, PayBooked
  <1>6. ASSUME NEW y \in PayrollCase[c].years, Payroll(c)!Counted(y),
               \A k \in DOMAIN items : items[k].futa <= items[k].gross,
               NEW e \in PayrollCase[c].employees
        PROVE  Payroll(c)!FutaUsed(e, y) <= PayrollCase[c].futa_cap
    <2>1. /\ Payroll(c)!PostedRuns(y) = PayPosted(runs, y)
          /\ Payroll(c)!FutaUsed(e, y) = PayFuta(items, e, PayPosted(runs, y))
      BY PayToDate
    <2>2. PayCounted(runs, y)
      BY <1>6, <2>1 DEF PayCounted, Payroll!Counted
    <2>3. PayKept(items, PayPosted(runs, y))
      BY <1>6 DEF PayKept
    <2>4. PayCapped(c, items, runs, y)
      BY <1>2 DEF PayOK
    <2> QED
      BY <2>1, <2>2, <2>3, <2>4 DEF PayCapped
  <1> QED
    BY <1>4, <1>5, <1>6

\* The invariant has the types.
LEMMA PayTypes ==
  ASSUME NEW c, PayIInv(c)
  PROVE  Payroll(c)!TypeOK
  <1>1. PayTypesOK(c)
    BY DEF PayIInv
  <1>2. runs \in Seq(Payroll(c)!Run)
    BY <1>1 DEF PayTypesOK, PayRunsTyped
  <1>3. /\ DOMAIN items \subseteq Nat \X PayrollCase[c].employees
        /\ \A k \in DOMAIN items : items[k] \in Payroll(c)!Item
    BY <1>1 DEF PayTypesOK, PayTable
  <1>4. \A i \in DOMAIN je : je[i].run \in DOMAIN runs /\ je[i].chart \in PayrollCase[c].charts
    BY <1>1, PayTyped DEF PayEntry
  <1> QED
    BY <1>2, <1>3, <1>4 DEF Payroll!TypeOK

-----------------------------------------------------------------------------
(* Posting rules.  The inductive invariant.                                *)

EventSums ==
  {1} \cup {Events!Side(EventCase.rules[i].lines, side, a) :
              i \in DOMAIN EventCase.rules, side \in {"debit", "credit"}, a \in EventCase.amounts}

EventEntry == [reference: EventCase.keys, period: EventCase.periods, number: Nat,
               rule: {0} \cup DOMAIN EventCase.rules, debit: EventSums, credit: EventSums]

EventBalanced(s) == \A i \in DOMAIN s : s[i].debit = s[i].credit

\* The entries of s are of rules that are no more than one of event's each, and
\* left are the other ones.
EventShared(s, left, event) ==
  /\ {s[i].rule : i \in DOMAIN s} \cup left = Events!Matching(event)
  /\ \A i \in DOMAIN s : s[i].rule \notin left
  /\ \A i, j \in DOMAIN s : s[i].rule = s[j].rule => i = j

EventRequest == [op: {"process"}, key: EventCase.keys, period: EventCase.periods,
                 amount: EventCase.amounts, rules: SUBSET DOMAIN EventCase.rules,
                 made: Seq(EventEntry), seen: {{}}]

\* What is under way: entries of one key that had none, made by an event's rules.
EventUnderway(t) ==
  \/ t = Events!Idle
  \/ /\ t \in EventRequest /\ EventBalanced(t.made)
     /\ \A i \in DOMAIN t.made : t.made[i].reference = t.key
     /\ \E event \in EventCase.events : EventShared(t.made, t.rules, event)

EventTxnOK == /\ txn = [r \in EventCase.req |-> txn[r]]
              /\ \A r \in EventCase.req : EventUnderway(txn[r])

\* The entries of s for k that rules made.
EventMade(s, k) == {i \in DOMAIN s : s[i].reference = k /\ s[i].rule # 0}

EventSettled(s, k) ==
  /\ \/ EventMade(s, k) = {}
     \/ \E event \in EventCase.events : {s[i].rule : i \in EventMade(s, k)} = Events!Matching(event)
  /\ \A i, j \in EventMade(s, k) : s[i].rule = s[j].rule => i = j

EventIInv == /\ entries \in Seq(EventEntry) /\ EventBalanced(entries)
             /\ open \subseteq EventCase.periods /\ raced \in BOOLEAN
             /\ EventTxnOK
             /\ ~raced => \A k \in EventCase.keys : EventSettled(entries, k)

-----------------------------------------------------------------------------
(* Numbers and slots.                                                      *)

LEMMA EventNumber ==
  ASSUME NEW s \in Seq(EventEntry), NEW p
  PROVE  Events!Max({0} \cup Events!Numbers(s, p)) + 1 \in Nat
  <1> DEFINE K == {0} \cup Events!Numbers(s, p)
             R == Events!Range(s)
             f == [i \in 1..Len(s) |-> s[i].number]
             T == {f[i] : i \in 1..Len(s)}
  <1>1. Len(s) \in Nat /\ DOMAIN s = 1..Len(s) /\ \A i \in 1..Len(s) : s[i] \in EventEntry
    BY LenProperties, ElementOfSeq
  <1>2. \A i \in 1..Len(s) : f[i] = s[i].number /\ f[i] \in Nat
    BY <1>1 DEF EventEntry
  <1>3. IsFiniteSet(T)
    <2>1. f \in Surjection(1..Len(s), T)
      BY DEF Surjection
    <2>2. IsFiniteSet(1..Len(s))
      BY <1>1, FS_Interval
    <2> HIDE DEF f, T
    <2> QED
      BY <2>1, <2>2, FS_Surjection
  <1>4. Events!Numbers(s, p) \subseteq T
    BY <1>1, <1>2 DEF Events!Numbers, Events!Range
  <1>5. K \subseteq Nat /\ K # {} /\ IsFiniteSet(K)
    <2>1. IsFiniteSet(Events!Numbers(s, p))
      BY <1>3, <1>4, FS_Subset
    <2>2. IsFiniteSet(Events!Numbers(s, p) \cup {0})
      BY <2>1, FS_AddElement
    <2>3. T \subseteq Nat
      BY <1>2
    <2>4. K = Events!Numbers(s, p) \cup {0}
      OBVIOUS
    <2>5. Events!Numbers(s, p) \subseteq Nat
      BY <1>4, <2>3
    <2>6. K \subseteq Nat /\ K # {}
      BY <2>5
    <2> HIDE DEF K
    <2> QED
      BY <2>2, <2>4, <2>6
  <1>6. Events!Max(K) = Max(K)
    BY Zenon DEF Events!Max, Max
  <1> HIDE DEF K
  <1>7. Max(K) \in Nat
    BY <1>5, MaxProperty
  <1>8. Events!Max(K) + 1 \in Nat
    BY <1>6, <1>7
  <1> QED
    BY <1>8 DEF K

LEMMA EventSideType ==
  ASSUME NEW i \in DOMAIN EventCase.rules, NEW a \in EventCase.amounts,
         NEW side \in {"debit", "credit"}
  PROVE  Events!Side(EventCase.rules[i].lines, side, a) \in EventSums
  BY DEF EventSums

\* A slot goes on to t.
LEMMA EventSlot ==
  ASSUME EventTxnOK, NEW r \in EventCase.req, NEW t, EventUnderway(t),
         txn' = [txn EXCEPT ![r] = t]
  PROVE  EventTxnOK'
  <1>1. /\ txn' = [x \in EventCase.req |-> txn'[x]]
        /\ \A x \in EventCase.req : txn'[x] = IF x = r THEN t ELSE txn[x]
    BY DEF EventTxnOK
  <1>2. ASSUME NEW x \in EventCase.req PROVE EventUnderway(txn'[x])
    <2>1. PICK u : u = txn[x]
      OBVIOUS
    <2>2. txn'[x] = u \/ txn'[x] = t
      BY <1>1, <2>1
    <2>3. EventUnderway(u)
      BY <2>1 DEF EventTxnOK
    <2> QED
      BY <2>2, <2>3
  <1> QED
    BY <1>1, <1>2 DEF EventTxnOK

-----------------------------------------------------------------------------
(* The actions.                                                            *)

LEMMA EventProcessStep ==
  ASSUME EventIInv, NEW r \in EventCase.req, NEW k \in EventCase.keys,
         NEW event \in EventCase.events, NEW a \in EventCase.amounts, NEW p \in EventCase.periods,
         Events!Process(r, k, event, a, p)
  PROVE  EventIInv'
  <1>1. PICK t : t = [op |-> "process", key |-> k, period |-> p, amount |-> a,
                      rules |-> Events!Matching(event), made |-> <<>>, seen |-> {}]
    OBVIOUS
  <1>2. Events!Booked(k) = {}
    BY DEF Events!Process, Events!Duplicate
  <1>3. txn' = [txn EXCEPT ![r] = t] /\ UNCHANGED <<entries, open, raced>>
    BY <1>1, <1>2 DEF Events!Process
  <1>4. EventShared(<<>>, Events!Matching(event), event)
    BY DEF EventShared
  <1>5. EventUnderway(t)
    <2>1. t \in EventRequest
      BY <1>1, EmptySeq DEF EventRequest, Events!Matching
    <2> QED
      BY <1>1, <1>4, <2>1 DEF EventUnderway, EventBalanced
  <1>6. EventTxnOK'
    BY <1>3, <1>5, EventSlot DEF EventIInv
  <1> QED
    BY <1>3, <1>6 DEF EventIInv

LEMMA EventExecuteStep ==
  ASSUME Events!RulesAssumption, EventIInv, NEW r \in EventCase.req,
         NEW i \in DOMAIN EventCase.rules, Events!Execute(r, i)
  PROVE  EventIInv'
  <1>1. PICK t : t = txn[r]
    OBVIOUS
  <1>2. t.op = "process" /\ i \in t.rules /\ EventUnderway(t) /\ t # Events!Idle
    <2>1. t.op = "process" /\ i \in t.rules
      BY <1>1 DEF Events!Execute
    <2>2. EventUnderway(t)
      BY <1>1, Zenon DEF EventIInv, EventTxnOK
    <2> QED
      BY <2>1, <2>2 DEF Events!Idle
  <1>3. /\ t \in EventRequest /\ EventBalanced(t.made)
        /\ t.key \in EventCase.keys /\ t.period \in EventCase.periods /\ t.amount \in EventCase.amounts
        /\ t.made \in Seq(EventEntry) /\ t.rules \in SUBSET DOMAIN EventCase.rules
        /\ \A j \in DOMAIN t.made : t.made[j].reference = t.key
        /\ \E event \in EventCase.events : EventShared(t.made, t.rules, event)
    BY <1>2 DEF EventUnderway, EventRequest
  <1>4. PICK made \in Seq(EventEntry) : made = t.made
    BY <1>3, Zenon
  <1>5. PICK num \in Nat : num = Events!Max({0} \cup Events!Numbers(entries \o made, t.period)) + 1
    <2>1. entries \o made \in Seq(EventEntry)
      BY ConcatProperties DEF EventIInv
    <2> QED
      BY <2>1, EventNumber, Zenon
  <1>6. PICK e : e = [reference |-> t.key, period |-> t.period, rule |-> i, number |-> num,
                      debit |-> Events!Side(EventCase.rules[i].lines, "debit", t.amount),
                      credit |-> Events!Side(EventCase.rules[i].lines, "credit", t.amount)]
    OBVIOUS
  <1>7. /\ txn' = [txn EXCEPT ![r].rules = t.rules \ {i}, ![r].made = Append(made, e)]
        /\ UNCHANGED <<entries, open, raced>>
        /\ Events!Executable(EventCase.rules[i].lines, t.amount)
    BY <1>1, <1>4, <1>5, <1>6, Zenon DEF Events!Execute
  <1>8. e.debit = e.credit /\ e \in EventEntry /\ e.reference = t.key /\ e.rule = i
    <2>1. /\ Events!Side(EventCase.rules[i].lines, "debit", t.amount) \in EventSums
          /\ Events!Side(EventCase.rules[i].lines, "credit", t.amount) \in EventSums
      BY <1>3, EventSideType, Zenon
    <2>2. Events!Side(EventCase.rules[i].lines, "debit", t.amount)
            = Events!Side(EventCase.rules[i].lines, "credit", t.amount)
      BY <1>7, Zenon DEF Events!Executable
    <2> QED
      BY <1>3, <1>6, <2>1, <2>2 DEF EventEntry
  <1>9. PICK new, left : new = Append(made, e) /\ left = t.rules \ {i}
    OBVIOUS
  <1>10. PICK w : w = [t EXCEPT !.rules = left, !.made = new]
    OBVIOUS
  <1>11. /\ Append(made, e) \in Seq(EventEntry) /\ Len(made) \in Nat
         /\ DOMAIN Append(made, e) = 1..(Len(made) + 1) /\ DOMAIN made = 1..Len(made)
         /\ \A j \in DOMAIN Append(made, e) :
              Append(made, e)[j] = IF j = Len(made) + 1 THEN e ELSE made[j]
         /\ \A j \in DOMAIN Append(made, e) : j # Len(made) + 1 => j \in DOMAIN made
    BY <1>8, AppendProperties, LenProperties
  <1>12. PICK n \in Nat : n = Len(made) + 1
    BY <1>11
  <1>13. /\ n \in DOMAIN new /\ n \notin DOMAIN made /\ new[n] = e
         /\ DOMAIN new = DOMAIN made \cup {n} /\ \A j \in DOMAIN made : new[j] = made[j]
    BY <1>9, <1>11, <1>12
  <1>14. EventBalanced(new) /\ \A j \in DOMAIN new : new[j].reference = t.key
    BY <1>3, <1>4, <1>8, <1>13 DEF EventBalanced
  <1>15. ASSUME NEW event \in EventCase.events, EventShared(made, t.rules, event)
         PROVE  EventShared(new, left, event)
    <2>1. {new[j].rule : j \in DOMAIN new} = {made[j].rule : j \in DOMAIN made} \cup {i}
      BY <1>8, <1>13
    <2>2. \A j \in DOMAIN made : made[j].rule # i
      BY <1>2, <1>15 DEF EventShared
    <2> QED
      BY <1>2, <1>8, <1>9, <1>13, <1>15, <2>1, <2>2 DEF EventShared
  <1>16. EventUnderway(w)
    <2>1. new \in Seq(EventEntry) /\ left \in SUBSET DOMAIN EventCase.rules
      BY <1>3, <1>9, <1>11
    <2>2. w \in EventRequest /\ w.made = new /\ w.rules = left /\ w.key = t.key
      BY <1>3, <1>10, <2>1 DEF EventRequest
    <2> QED
      BY <1>3, <1>4, <1>14, <1>15, <2>2 DEF EventUnderway
  <1>17. txn' = [txn EXCEPT ![r] = w]
    BY <1>1, <1>7, <1>9, <1>10 DEF EventIInv, EventTxnOK
  <1>18. EventTxnOK'
    BY <1>16, <1>17, EventSlot DEF EventIInv
  <1> QED
    BY <1>7, <1>18 DEF EventIInv

LEMMA EventRollbackStep ==
  ASSUME EventIInv, NEW r \in EventCase.req, Events!Rollback(r)
  PROVE  EventIInv'
  <1>1. EventUnderway(Events!Idle)
    BY DEF EventUnderway
  <1>2. EventTxnOK'
    BY <1>1, EventSlot DEF EventIInv, Events!Rollback
  <1> QED
    BY <1>2 DEF EventIInv, Events!Rollback

\* Entries of which none is of a rule for k, and the ones of a rule for k alone,
\* put behind others.
LEMMA EventAppended ==
  ASSUME NEW s \in Seq(EventEntry), NEW made \in Seq(EventEntry), NEW k
  PROVE  /\ s \o made \in Seq(EventEntry)
         /\ DOMAIN (s \o made) = DOMAIN s \cup {Len(s) + j : j \in DOMAIN made}
         /\ \A i \in DOMAIN s : (s \o made)[i] = s[i]
         /\ \A j \in DOMAIN made : (s \o made)[Len(s) + j] = made[j]
         /\ \A j \in DOMAIN made : Len(s) + j \notin DOMAIN s
         /\ \A i, j \in DOMAIN made : Len(s) + i = Len(s) + j => i = j
  <1>1. /\ Len(s) \in Nat /\ DOMAIN s = 1..Len(s) /\ Len(made) \in Nat
        /\ DOMAIN made = 1..Len(made)
    BY LenProperties
  <1>2. /\ s \o made \in Seq(EventEntry) /\ Len(s \o made) = Len(s) + Len(made)
        /\ \A i \in 1..(Len(s) + Len(made)) : (s \o made)[i] =
              IF i <= Len(s) THEN s[i] ELSE made[i - Len(s)]
    BY ConcatProperties
  <1>3. DOMAIN (s \o made) = 1..Len(s \o made)
    BY <1>2, LenProperties
  <1> DEFINE both == s \o made
  <1>4. /\ both \in Seq(EventEntry) /\ DOMAIN both = 1..(Len(s) + Len(made))
        /\ \A i \in 1..(Len(s) + Len(made)) : both[i] =
              IF i <= Len(s) THEN s[i] ELSE made[i - Len(s)]
    BY <1>2, <1>3
  <1> HIDE DEF both
  <1>5. PICK m \in Nat, n \in Nat : m = Len(s) /\ n = Len(made)
    BY <1>1, Zenon
  <1>6. 1..(m + n) = 1..m \cup {m + j : j \in 1..n}
    <2>1. ASSUME NEW i \in 1..(m + n), i \notin 1..m PROVE i \in {m + j : j \in 1..n}
      <3>1. i - m \in 1..n /\ m + (i - m) = i
        BY <2>1
      <3> QED
        BY <3>1
    <2>2. \A i \in 1..m : i \in 1..(m + n)
      OBVIOUS
    <2>3. \A j \in 1..n : m + j \in 1..(m + n)
      OBVIOUS
    <2>4. \A i : i \in 1..(m + n) <=> i \in 1..m \cup {m + j : j \in 1..n}
      BY <2>1, <2>2, <2>3
    <2> QED
      BY <2>4
  <1>7. /\ \A i \in DOMAIN s : both[i] = s[i]
        /\ \A j \in DOMAIN made : both[Len(s) + j] = made[j]
        /\ \A j \in DOMAIN made : Len(s) + j \notin DOMAIN s
        /\ \A i, j \in DOMAIN made : Len(s) + i = Len(s) + j => i = j
    <2>1. /\ DOMAIN s = 1..m /\ DOMAIN made = 1..n
          /\ \A i \in 1..(m + n) : both[i] = IF i <= m THEN s[i] ELSE made[i - m]
      BY <1>1, <1>4, <1>5
    <2>2. \A i \in 1..m : i \in 1..(m + n) /\ i <= m
      OBVIOUS
    <2>3. \A j \in 1..n : /\ m + j \in 1..(m + n) /\ ~(m + j <= m) /\ m + j - m = j
                          /\ m + j \notin 1..m
      OBVIOUS
    <2>4. \A i, j \in 1..n : m + i = m + j => i = j
      OBVIOUS
    <2>5. \A i \in 1..m : both[i] = s[i]
      BY <2>1, <2>2
    <2>6. \A j \in 1..n : both[m + j] = made[j]
      BY <2>1, <2>3
    <2> QED
      BY <1>5, <2>1, <2>3, <2>4, <2>5, <2>6
  <1>8. DOMAIN both = DOMAIN s \cup {Len(s) + j : j \in DOMAIN made}
    BY <1>1, <1>4, <1>5, <1>6
  <1> QED
    BY <1>4, <1>7, <1>8 DEF both

LEMMA EventManualStep ==
  ASSUME EventIInv, NEW k \in EventCase.keys, NEW p \in EventCase.periods, Events!Manual(k, p)
  PROVE  EventIInv'
  <1>1. PICK num \in Nat : num = Events!Max({0} \cup Events!Numbers(entries, p)) + 1
    BY EventNumber, Zenon DEF EventIInv
  <1>2. PICK e : e = [reference |-> k, period |-> p, rule |-> 0, debit |-> 1, credit |-> 1,
                      number |-> num]
    OBVIOUS
  <1>3. entries' = Append(entries, e) /\ UNCHANGED <<open, txn, raced>>
    BY <1>1, <1>2, Zenon DEF Events!Manual
  <1>4. e \in EventEntry /\ e.rule = 0 /\ e.debit = e.credit
    BY <1>2 DEF EventEntry, EventSums
  <1>5. /\ entries' \in Seq(EventEntry)
        /\ DOMAIN entries = 1..Len(entries) /\ Len(entries) \in Nat
        /\ DOMAIN entries' = 1..(Len(entries) + 1)
        /\ \A i \in 1..Len(entries) : entries'[i] = entries[i]
        /\ entries'[Len(entries) + 1] = e
    BY <1>3, <1>4, AppendProperties, LenProperties DEF EventIInv
  <1>6. PICK n \in Nat : n = Len(entries) + 1
    BY <1>5
  <1>7. /\ DOMAIN entries' = DOMAIN entries \cup {n} /\ n \notin DOMAIN entries
        /\ \A i \in DOMAIN entries : entries'[i] = entries[i]
        /\ entries'[n] = e
    BY <1>5, <1>6
  <1>8. EventBalanced(entries)'
    BY <1>4, <1>7 DEF EventIInv, EventBalanced
  <1>9. ASSUME ~raced', NEW l \in EventCase.keys PROVE EventSettled(entries, l)'
    <2>1. EventMade(entries, l)' = EventMade(entries, l)
      BY <1>4, <1>7 DEF EventMade
    <2>2. EventSettled(entries, l)
      BY <1>3, <1>9 DEF EventIInv
    <2>3. \A i \in EventMade(entries, l) : i \in DOMAIN entries /\ entries'[i] = entries[i]
      BY <1>7 DEF EventMade
    <2>4. {entries'[i].rule : i \in EventMade(entries, l)'}
            = {entries[i].rule : i \in EventMade(entries, l)}
      BY <2>1, <2>3
    <2> QED
      BY <2>1, <2>2, <2>3, <2>4 DEF EventSettled
  <1>10. EventTxnOK'
    BY <1>3 DEF EventIInv, EventTxnOK
  <1> QED
    BY <1>3, <1>5, <1>8, <1>9, <1>10 DEF EventIInv

LEMMA EventCommitStep ==
  ASSUME Events!RulesAssumption, EventIInv, NEW r \in EventCase.req, Events!Commit(r)
  PROVE  EventIInv'
  <1>1. PICK t : t = txn[r]
    OBVIOUS
  <1>2. EventUnderway(t) /\ t # Events!Idle /\ t.rules = {}
    <2>1. t.op = "process" /\ t.rules = {}
      BY <1>1 DEF Events!Commit
    <2>2. EventUnderway(t)
      BY <1>1, Zenon DEF EventIInv, EventTxnOK
    <2> QED
      BY <2>1, <2>2 DEF Events!Idle
  <1>3. /\ t.key \in EventCase.keys /\ t.seen = {}
        /\ t.made \in Seq(EventEntry) /\ EventBalanced(t.made)
        /\ \A j \in DOMAIN t.made : t.made[j].reference = t.key
        /\ \E event \in EventCase.events : EventShared(t.made, t.rules, event)
    BY <1>2 DEF EventUnderway, EventRequest
  <1>4. PICK made \in Seq(EventEntry), event \in EventCase.events :
          made = t.made /\ EventShared(made, {}, event)
    BY <1>2, <1>3, Zenon
  <1>5. /\ entries' = entries \o made /\ txn' = [txn EXCEPT ![r] = Events!Idle]
        /\ raced' = (raced \/ Events!Booked(t.key) # t.seen) /\ open' = open
    BY <1>1, <1>4, Zenon DEF Events!Commit
  <1>6. raced' \in BOOLEAN /\ (~raced' => ~raced /\ Events!Booked(t.key) = {})
    <2>1. t.seen = {}
      BY <1>3
    <2> QED
      BY <1>5, <2>1
  <1>7. EventTxnOK'
    <2>1. EventUnderway(Events!Idle)
      BY DEF EventUnderway
    <2> QED
      BY <1>5, <2>1, EventSlot DEF EventIInv
  <1> DEFINE at(j) == Len(entries) + j
  <1>8. /\ entries' \in Seq(EventEntry)
        /\ DOMAIN entries' = DOMAIN entries \cup {at(j) : j \in DOMAIN made}
        /\ \A i \in DOMAIN entries : entries'[i] = entries[i]
        /\ \A j \in DOMAIN made : entries'[at(j)] = made[j]
        /\ \A j \in DOMAIN made : at(j) \notin DOMAIN entries
        /\ \A i, j \in DOMAIN made : at(i) = at(j) => i = j
    BY <1>5, EventAppended DEF EventIInv
  <1> HIDE DEF at
  <1>9. EventBalanced(entries)'
    BY <1>3, <1>4, <1>8 DEF EventIInv, EventBalanced
  <1>10. \A j \in DOMAIN made : made[j].reference = t.key /\ made[j].rule # 0
    <2>1. \A j \in DOMAIN made : made[j].rule \in DOMAIN EventCase.rules
      BY <1>4 DEF EventShared, Events!Matching
    <2>2. 0 \notin DOMAIN EventCase.rules
      BY DEF Events!RulesAssumption
    <2> QED
      BY <1>3, <1>4, <2>1, <2>2
  <1>11. ASSUME ~raced', NEW k \in EventCase.keys, k # t.key PROVE EventSettled(entries, k)'
    <2>1. EventMade(entries, k)' = EventMade(entries, k)
      BY <1>8, <1>10, <1>11 DEF EventMade
    <2>2. EventSettled(entries, k)
      BY <1>6, <1>11 DEF EventIInv
    <2>3. \A i \in EventMade(entries, k) : i \in DOMAIN entries /\ entries'[i] = entries[i]
      BY <1>8 DEF EventMade
    <2>4. {entries'[i].rule : i \in EventMade(entries, k)'}
            = {entries[i].rule : i \in EventMade(entries, k)}
      BY <2>1, <2>3
    <2> QED
      BY <2>1, <2>2, <2>3, <2>4 DEF EventSettled
  <1>12. ASSUME ~raced' PROVE EventSettled(entries, t.key)'
    <2>1. \A i \in DOMAIN entries : entries[i].reference # t.key
      BY <1>6, <1>12 DEF Events!Booked
    <2>2. EventMade(entries, t.key)' = {at(j) : j \in DOMAIN made}
      BY <1>8, <1>10, <2>1 DEF EventMade
    <2>3. {entries'[i].rule : i \in EventMade(entries, t.key)'} = {made[j].rule : j \in DOMAIN made}
      BY <1>8, <2>2
    <2>4. {made[j].rule : j \in DOMAIN made} = Events!Matching(event)
      BY <1>4 DEF EventShared
    <2>5. \A i, j \in EventMade(entries, t.key)' : entries'[i].rule = entries'[j].rule => i = j
      BY <1>4, <1>8, <2>2 DEF EventShared
    <2> QED
      BY <2>3, <2>4, <2>5 DEF EventSettled
  <1>13. ~raced' => \A k \in EventCase.keys : EventSettled(entries, k)'
    BY <1>11, <1>12
  <1> QED
    BY <1>5, <1>6, <1>7, <1>8, <1>9, <1>13 DEF EventIInv

LEMMA EventInitIInv ==
  ASSUME Events!Init
  PROVE  EventIInv
  <1>1. EventTxnOK
    BY DEF Events!Init, EventTxnOK, EventUnderway
  <1>2. entries \in Seq(EventEntry) /\ DOMAIN entries = {} /\ open \subseteq EventCase.periods
        /\ raced = FALSE
    BY EmptySeq DEF Events!Init
  <1>3. EventBalanced(entries) /\ \A k : EventSettled(entries, k)
    BY <1>2 DEF EventBalanced, EventSettled, EventMade
  <1> QED
    BY <1>1, <1>2, <1>3 DEF EventIInv

LEMMA EventNextStep ==
  ASSUME Events!RulesAssumption, EventIInv, Events!Next \/ UNCHANGED Events!vars
  PROVE  EventIInv'
  <1>1. ASSUME NEW r \in EventCase.req,
               \/ \E k \in EventCase.keys, e \in EventCase.events, a \in EventCase.amounts,
                     p \in EventCase.periods : Events!Process(r, k, e, a, p)
               \/ \E i \in DOMAIN EventCase.rules : Events!Execute(r, i)
               \/ Events!Commit(r) \/ Events!Rollback(r)
        PROVE  EventIInv'
    BY <1>1, EventProcessStep, EventExecuteStep, EventCommitStep, EventRollbackStep
  <1>2. ASSUME NEW p \in EventCase.periods, Events!Close(p) PROVE EventIInv'
    BY <1>2 DEF EventIInv, EventTxnOK, Events!Close
  <1>3. ASSUME NEW p \in EventCase.periods, NEW k \in EventCase.keys, Events!Manual(k, p)
        PROVE  EventIInv'
    BY <1>3, EventManualStep
  <1>4. ASSUME UNCHANGED Events!vars PROVE EventIInv'
    BY <1>4 DEF EventIInv, EventTxnOK, Events!vars
  <1> QED
    BY <1>1, <1>2, <1>3, <1>4 DEF Events!Next

LEMMA EventsBookedOnce ==
  ASSUME EventIInv
  PROVE  Events!EventsOnce
  <1>1. \A k : EventMade(entries, k) = {i \in Events!Booked(k) : entries[i].rule # 0}
    BY DEF EventMade, Events!Booked
  <1>2. \A e \in Events!Range(entries) : e.debit = e.credit
    BY DEF EventIInv, EventBalanced, Events!Range
  <1> QED
    BY <1>1, <1>2 DEF EventIInv, EventSettled, Events!EventsOnce

-----------------------------------------------------------------------------
(* Bank rules.                                                             *)

BankRuleIInv == /\ rules = [s \in DOMAIN rules |-> rules[s]]
                /\ \A s \in DOMAIN rules : rules[s] \in BankRules!BankRule

LEMMA BankRuleInitIInv ==
  ASSUME BankRules!Init
  PROVE  BankRuleIInv
  BY DEF BankRules!Init, BankRuleIInv

LEMMA BankRuleNextStep ==
  ASSUME BankRuleIInv, BankRules!Next \/ UNCHANGED BankRules!vars
  PROVE  BankRuleIInv'
  <1>1. ASSUME NEW s, BankRules!Delete(s) PROVE BankRuleIInv'
    BY <1>1 DEF BankRuleIInv, BankRules!Delete, BankRules!Restrict
  <1>2. ASSUME NEW s, NEW r \in BankRules!BankRule, BankRules!Create(s, r) PROVE BankRuleIInv'
    BY <1>2 DEF BankRuleIInv, BankRules!Create
  <1>3. ASSUME NEW s, NEW r \in BankRules!BankRule, BankRules!Update(s, r) PROVE BankRuleIInv'
    BY <1>3 DEF BankRuleIInv, BankRules!Update
  <1>4. ASSUME UNCHANGED BankRules!vars PROVE BankRuleIInv'
    BY <1>4 DEF BankRuleIInv, BankRules!vars
  <1> QED
    BY <1>1, <1>2, <1>3, <1>4 DEF BankRules!Next

\* Of the rules that match, one comes first.
LEMMA BankRuleFirst ==
  ASSUME BankRules!BankRulesAssumption, BankRuleIInv, NEW t, BankRules!Matches(t) # {}
  PROVE  BankRules!Suggestions(t) # {}
  <1> DEFINE P == {rules[s].priority : s \in BankRules!Matches(t)}
  <1>1. \A s \in BankRules!Matches(t) : s \in DOMAIN rules /\ rules[s].priority \in Nat
    BY DEF BankRules!Matches, BankRuleIInv, BankRules!BankRule, BankRules!BankRulesAssumption
  <1>2. P \subseteq Nat /\ P # {}
    BY <1>1
  <1>3. PICK least \in P : \A p \in P : least <= p
    <2> HIDE DEF P
    <2> QED
      BY <1>2, LeastExists
  <1>4. PICK s \in BankRules!Matches(t) : rules[s].priority = least
    OBVIOUS
  <1>5. \A o \in BankRules!Matches(t) : rules[o].priority \in P
    OBVIOUS
  <1> HIDE DEF P
  <1>6. s \in BankRules!Suggestions(t)
    BY <1>3, <1>4, <1>5 DEF BankRules!Suggestions
  <1> QED
    BY <1>6

LEMMA BankRuleHides ==
  ASSUME BankRules!BankRulesAssumption, BankRuleIInv
  PROVE  BankRules!NarrowerRuleHidden
  <1> SUFFICES ASSUME NEW t \in BankRules!Transaction
               PROVE  /\ BankRules!Suggestions(t) = {} <=> BankRules!Matches(t) = {}
                      /\ \A a, b \in DOMAIN rules :
                           /\ a \in BankRules!Suggestions(t) /\ b \in BankRules!Suggestions(t)
                                => rules[a].priority = rules[b].priority
                           /\ (/\ rules[a].conditions \subseteq rules[b].conditions
                               /\ rules[a].active /\ rules[a].priority < rules[b].priority)
                                => b \notin BankRules!Suggestions(t)
    BY Zenon DEF BankRules!NarrowerRuleHidden
  <1>1. BankRules!Suggestions(t) = {} <=> BankRules!Matches(t) = {}
    BY BankRuleFirst DEF BankRules!Suggestions
  <1>2. ASSUME NEW a \in DOMAIN rules, NEW b \in DOMAIN rules
        PROVE  /\ a \in BankRules!Suggestions(t) /\ b \in BankRules!Suggestions(t)
                    => rules[a].priority = rules[b].priority
               /\ (/\ rules[a].conditions \subseteq rules[b].conditions
                   /\ rules[a].active /\ rules[a].priority < rules[b].priority)
                    => b \notin BankRules!Suggestions(t)
    <2>1. rules[a].priority \in Nat /\ rules[b].priority \in Nat
      BY DEF BankRuleIInv, BankRules!BankRule, BankRules!BankRulesAssumption
    <2>2. a \in BankRules!Suggestions(t) /\ b \in BankRules!Suggestions(t)
            => rules[a].priority <= rules[b].priority /\ rules[b].priority <= rules[a].priority
      BY DEF BankRules!Suggestions
    <2>3. ASSUME rules[a].conditions \subseteq rules[b].conditions, rules[a].active,
                 rules[a].priority < rules[b].priority, b \in BankRules!Suggestions(t)
          PROVE  FALSE
      <3>1. b \in BankRules!Matches(t)
        BY <2>3 DEF BankRules!Suggestions
      <3>2. a \in BankRules!Matches(t)
        BY <2>3, <3>1 DEF BankRules!Matches, BankRules!MatchesRule
      <3>3. rules[b].priority <= rules[a].priority
        BY <2>3, <3>2 DEF BankRules!Suggestions
      <3> QED
        BY <2>1, <2>3, <3>3
    <2> QED
      BY <2>1, <2>2, <2>3
  <1> QED
    BY <1>1, <1>2

-----------------------------------------------------------------------------
(* Payments of an invoice.  The inductive invariant.                       *)

SplitLine == [amount: Nat, coded: BOOLEAN]

\* What pay checks before it posts an entry.
SplitPaid(paid) ==
  /\ lines # <<>> /\ paid \in Nat /\ paid > 0
  /\ (\E i \in DOMAIN lines : Split!Coded(i)) => Split!LineTotal > 0
  /\ \A i \in DOMAIN lines : Split!Coded(i) => Split!Credit(i, paid) > 0
  /\ entry = [debit |-> paid, credits |-> Split!Credits(paid), ar |-> Split!ToReceivable(paid)]

SplitIInv == /\ lines \in Seq(SplitLine) /\ has_ar \in BOOLEAN
             /\ entry = Split!NoEntry \/ \E paid \in Nat : SplitPaid(paid)

LEMMA SplitInitIInv ==
  ASSUME Split!Init
  PROVE  SplitIInv
  BY DEF Split!Init, SplitIInv

LEMMA SplitNextStep ==
  ASSUME Split!SplitAssumption, SplitIInv, Split!Next \/ UNCHANGED Split!vars
  PROVE  SplitIInv'
  <1>1. ASSUME NEW a \in SplitCase.cents, NEW b \in BOOLEAN, Split!AddLine(a, b)
        PROVE  SplitIInv'
    <2>1. PICK e : e = [amount |-> a, coded |-> b]
      OBVIOUS
    <2>2. e \in SplitLine
      BY <2>1 DEF Split!SplitAssumption, SplitLine
    <2>3. lines' = Append(lines, e) /\ UNCHANGED <<has_ar, entry>> /\ entry = Split!NoEntry
      BY <1>1, <2>1 DEF Split!AddLine
    <2>4. lines' \in Seq(SplitLine)
      BY <2>2, <2>3, AppendProperties DEF SplitIInv
    <2>5. (entry = Split!NoEntry)'
      BY <2>3 DEF Split!NoEntry
    <2> QED
      BY <2>3, <2>4, <2>5 DEF SplitIInv
  <1>2. ASSUME NEW p \in SplitCase.cents, Split!Pay(p)
        PROVE  SplitIInv'
    <2>1. p \in Nat
      BY DEF Split!SplitAssumption
    <2>2. UNCHANGED <<lines, has_ar>>
      BY <1>2 DEF Split!Pay
    <2>3. SplitPaid(p)'
      BY <1>2, <2>1, Zenon DEF Split!Pay, SplitPaid, Split!Coded, Split!LineTotal, Split!Credit,
        Split!Credits, Split!ToReceivable, Split!Share, Split!CreditedBefore, Split!Credited
    <2> QED
      BY <2>1, <2>2, <2>3 DEF SplitIInv
  <1>3. ASSUME UNCHANGED Split!vars PROVE SplitIInv'
    <2>1. UNCHANGED <<lines, has_ar, entry>>
      BY <1>3 DEF Split!vars
    <2>2. ASSUME NEW p \in Nat, SplitPaid(p) PROVE SplitPaid(p)'
      BY <2>1, <2>2, Zenon DEF SplitPaid, Split!Coded, Split!LineTotal, Split!Credit,
        Split!Credits, Split!ToReceivable, Split!Share, Split!CreditedBefore, Split!Credited
    <2>3. (entry = Split!NoEntry) => (entry = Split!NoEntry)'
      BY <2>1 DEF Split!NoEntry
    <2> QED
      BY <2>1, <2>2, <2>3 DEF SplitIInv
  <1> QED
    BY <1>1, <1>2, <1>3 DEF Split!Next

-----------------------------------------------------------------------------
(* Shares and what is left.                                                *)

\* The library's sums.
LEMMA SplitSum ==
  ASSUME NEW h
  PROVE  Split!SumFunction(h) = SumOver(h, DOMAIN h)
  <1>1. Split!SumFunction(h) = SumFunctionOnSet(h, DOMAIN h)
    BY Zenon DEF Split!SumFunction, Split!SumFunctionOnSet, Split!FoldFunctionOnSet,
                 Split!MapThenFoldSet, SumFunctionOnSet, FoldFunctionOnSet, MapThenFoldSet
  <1> QED
    BY <1>1, SumFunctionIs

LEMMA SplitMax ==
  ASSUME NEW n \in Int
  PROVE  Split!Max({n, 0}) = IF n > 0 THEN n ELSE 0
  <1>1. PICK m \in {n, 0} : \A y \in {n, 0} : m >= y
    <2>1. n >= 0 \/ 0 >= n
      OBVIOUS
    <2> QED
      BY <2>1
  <1>2. Split!Max({n, 0}) \in {n, 0} /\ \A y \in {n, 0} : Split!Max({n, 0}) >= y
    BY <1>1, Zenon DEF Split!Max
  <1> QED
    BY <1>2

\* Rounding is by half at most.
LEMMA SplitRounded ==
  ASSUME NEW n \in Nat, NEW d \in Nat, d > 0
  PROVE  /\ Split!Round(n, d) \in Nat
         /\ 2 * d * Split!Round(n, d) <= 2 * n + d
         /\ 2 * n <= 2 * d * Split!Round(n, d) + d
  <1>1. PICK q : q = (2 * n + d) \div (2 * d) /\ q = Split!Round(n, d)
    BY DEF Split!Round
  <1>2. q \in Nat /\ 2 * (d * q) <= 2 * n + d /\ 2 * n < 2 * (d * q) + d
    <2>1. n \in Int
      OBVIOUS
    <2> QED
      BY <1>1, <2>1, RoundedQuotient
  <1>3. PICK p \in Nat : p = d * q
    BY <1>2
  <1>4. 2 * d * q = 2 * p /\ 2 * p <= 2 * n + d /\ 2 * n <= 2 * p + d
    BY <1>2, <1>3
  <1> QED
    BY <1>1, <1>2, <1>4

\* The lines and their total.
LEMMA SplitRows ==
  ASSUME SplitIInv
  PROVE  /\ Len(lines) \in Nat /\ DOMAIN lines = 1..Len(lines)
         /\ \A i \in DOMAIN lines : lines[i].amount \in Nat /\ lines[i].coded \in BOOLEAN
         /\ IsFiniteSet(DOMAIN lines)
         /\ Split!LineTotal = SumOver([i \in DOMAIN lines |-> lines[i].amount], DOMAIN lines)
         /\ Split!LineTotal \in Nat
  <1>1. Len(lines) \in Nat /\ DOMAIN lines = 1..Len(lines)
    BY LenProperties DEF SplitIInv
  <1>2. \A i \in DOMAIN lines : lines[i].amount \in Nat /\ lines[i].coded \in BOOLEAN
    <2>1. \A i \in DOMAIN lines : lines[i] \in SplitLine
      BY <1>1, ElementOfSeq DEF SplitIInv
    <2> QED
      BY <2>1 DEF SplitLine
  <1>3. IsFiniteSet(DOMAIN lines)
    <2>1. 1 \in Int /\ Len(lines) \in Int
      BY <1>1
    <2> QED
      BY <1>1, <2>1, FS_Interval
  <1>4. PICK h : h = [i \in DOMAIN lines |-> lines[i].amount]
    OBVIOUS
  <1>5. Split!LineTotal = SumOver(h, DOMAIN lines)
    <2>1. Split!LineTotal = Split!SumFunction(h)
      BY <1>4, Zenon DEF Split!LineTotal
    <2>2. DOMAIN h = DOMAIN lines
      BY <1>4
    <2> QED
      BY <2>1, <2>2, SplitSum
  <1>6. SumOver(h, DOMAIN lines) \in Nat
    <2>1. \A i \in DOMAIN lines : h[i] \in Nat
      BY <1>2, <1>4
    <2> QED
      BY <1>3, <2>1, SumNat
  <1> QED
    BY <1>1, <1>2, <1>3, <1>4, <1>5, <1>6

\* The share of a line, to half a cent.
LEMMA SplitShare ==
  ASSUME SplitIInv, NEW paid \in Nat, NEW i \in DOMAIN lines, Split!LineTotal > 0
  PROVE  /\ Split!Share(i, paid) \in Nat
         /\ 2 * Split!LineTotal * Split!Share(i, paid)
              <= 2 * (paid * lines[i].amount) + Split!LineTotal
         /\ 2 * (paid * lines[i].amount)
              <= 2 * Split!LineTotal * Split!Share(i, paid) + Split!LineTotal
  <1>1. PICK a \in Nat, t \in Nat : a = lines[i].amount /\ t = Split!LineTotal
    BY SplitRows
  <1>2. PICK n \in Nat : n = paid * a
    OBVIOUS
  <1>3. Split!Share(i, paid) = Split!Round(n, t)
    BY <1>1, <1>2 DEF Split!Share
  <1> QED
    BY <1>1, <1>2, <1>3, SplitRounded

\* The lines before the last that have an account, and what they are credited.
SplitBefore == {i \in 1..(Len(lines) - 1) : Split!Coded(i)}

LEMMA SplitCreditedBefore ==
  ASSUME SplitIInv, lines # <<>>, NEW paid \in Nat, Split!LineTotal > 0
  PROVE  /\ IsFiniteSet(SplitBefore) /\ SplitBefore \subseteq DOMAIN lines
         /\ Split!CreditedBefore(paid)
              = SumOver([i \in SplitBefore |-> Split!Share(i, paid)], SplitBefore)
         /\ Split!CreditedBefore(paid) \in Nat
  <1>1. IsFiniteSet(SplitBefore) /\ SplitBefore \subseteq DOMAIN lines
    <2>1. SplitBefore \subseteq DOMAIN lines
      BY SplitRows DEF SplitBefore
    <2> QED
      BY <2>1, SplitRows, FS_Subset
  <1>2. PICK h : h = [i \in SplitBefore |-> Split!Share(i, paid)]
    OBVIOUS
  <1>3. DOMAIN h = SplitBefore /\ \A i \in SplitBefore : h[i] \in Nat
    BY <1>1, <1>2, SplitShare
  <1>4. Split!CreditedBefore(paid) = Split!SumFunction(h)
    BY <1>2, Zenon DEF Split!CreditedBefore, SplitBefore
  <1>5. Split!SumFunction(h) = SumOver(h, SplitBefore)
    BY <1>3, SplitSum
  <1>6. SumOver(h, SplitBefore) \in Nat
    BY <1>1, <1>3, SumNat
  <1> QED
    BY <1>1, <1>2, <1>4, <1>5, <1>6

\* If the last line has an account, the credits are the payment.
LEMMA SplitLastTakesRest ==
  ASSUME SplitIInv, lines # <<>>, NEW paid \in Nat, Split!LineTotal > 0,
         Split!Coded(Len(lines))
  PROVE  Split!Credited(paid) = paid
  <1>1. /\ Len(lines) \in Nat /\ DOMAIN lines = 1..Len(lines) /\ IsFiniteSet(DOMAIN lines)
        /\ Len(lines) > 0
    <2>1. Len(lines) # 0
      BY EmptySeq DEF SplitIInv
    <2> QED
      BY <2>1, SplitRows
  <1>2. PICK n \in Nat : n = Len(lines) /\ n > 0
    BY <1>1
  <1>3. PICK h : h = Split!Credits(paid)
    OBVIOUS
  <1>4. DOMAIN h = 1..n /\ \A i \in 1..n : h[i] = Split!Credit(i, paid)
    BY <1>1, <1>2, <1>3 DEF Split!Credits
  <1>5. PICK g : g = [i \in SplitBefore |-> Split!Share(i, paid)]
    OBVIOUS
  <1>6. /\ IsFiniteSet(SplitBefore) /\ Split!CreditedBefore(paid) = SumOver(g, SplitBefore)
        /\ SumOver(g, SplitBefore) \in Nat
    BY <1>5, SplitCreditedBefore
  <1>7. PICK S : S = 1..(n - 1)
    OBVIOUS
  <1>8. IsFiniteSet(S) /\ SplitBefore \in SUBSET S /\ n \notin S /\ 1..n = S \cup {n}
    <2>1. 1 \in Int /\ n - 1 \in Int
      OBVIOUS
    <2>2. IsFiniteSet(S)
      BY <1>7, <2>1, FS_Interval
    <2>3. n \notin S /\ 1..n = S \cup {n}
      BY <1>2, <1>7
    <2> QED
      BY <1>2, <1>7, <2>2, <2>3 DEF SplitBefore
  <1>9. /\ \A i \in SplitBefore : h[i] = g[i] /\ h[i] \in Int
        /\ \A i \in S \ SplitBefore : h[i] = 0
    <2>1. \A i \in SplitBefore : h[i] = g[i]
      <3>1. \A i \in SplitBefore : i \in S /\ i # n /\ i \in 1..n /\ Split!Coded(i)
        BY <1>8 DEF SplitBefore
      <3>2. \A i \in SplitBefore : h[i] = Split!Share(i, paid)
        BY <1>2, <1>4, <3>1 DEF Split!Credit
      <3> QED
        BY <1>5, <3>2
    <2>2. \A i \in SplitBefore : g[i] \in Nat
      BY <1>5, SplitShare, SplitCreditedBefore
    <2>3. \A i \in S \ SplitBefore : i \in 1..n /\ ~Split!Coded(i)
      BY <1>2, <1>7, <1>8 DEF SplitBefore
    <2>4. \A i \in S \ SplitBefore : h[i] = 0
      BY <1>4, <2>3 DEF Split!Credit
    <2> QED
      BY <2>1, <2>2, <2>4
  <1>10. SumOver(h, S) = SumOver(g, SplitBefore)
    BY <1>8, <1>9, SumPart
  <1>11. n \in 1..n /\ h[n] = paid - SumOver(g, SplitBefore)
    BY <1>2, <1>4, <1>6 DEF Split!Credit
  <1>12. SumOver(h, S \cup {n}) = h[n] + SumOver(h, S)
    <2>1. \A i \in S \cup {n} : h[i] \in Int
      BY <1>6, <1>8, <1>9, <1>11
    <2> QED
      BY <1>8, <2>1, SumInsert
  <1>13. Split!Credited(paid) = SumOver(h, 1..n)
    BY <1>3, <1>4, SplitSum DEF Split!Credited
  <1> QED
    <2>1. PICK x \in Nat : x = SumOver(g, SplitBefore)
      BY <1>6
    <2>2. h[n] = paid - x /\ SumOver(h, S) = x
      BY <1>10, <1>11, <2>1
    <2>3. SumOver(h, S \cup {n}) = (paid - x) + x
      BY <1>12, <2>2
    <2>4. Split!Credited(paid) = (paid - x) + x
      BY <1>8, <1>13, <2>3
    <2> QED
      BY <2>1, <2>4

\* When every line has an account, the last is credited its share to half a
\* cent per line before it.
LEMMA SplitLastShare ==
  ASSUME SplitIInv, lines # <<>>, NEW paid \in Nat, Split!LineTotal > 0,
         \A i \in DOMAIN lines : Split!Coded(i), NEW n \in Nat, n = Len(lines)
  PROVE  LET off == 2 * ((paid - Split!CreditedBefore(paid)) * Split!LineTotal
                           - paid * lines[n].amount)
             cap == Split!LineTotal * (n - 1)
         IN  -cap <= off /\ off <= cap
  <1>1. n > 0 /\ DOMAIN lines = 1..n
    <2>1. Len(lines) # 0
      BY EmptySeq DEF SplitIInv
    <2> QED
      BY <2>1, SplitRows
  <1>2. PICK t \in Nat : t = Split!LineTotal
    BY SplitRows
  <1>3. PICK h : h = [i \in DOMAIN lines |-> lines[i].amount]
    OBVIOUS
  <1>4. t = SumOver(h, 1..n) /\ \A i \in 1..n : h[i] \in Nat /\ h[i] = lines[i].amount
    BY <1>1, <1>2, <1>3, SplitRows
  <1>5. PICK S : S = 1..(n - 1)
    OBVIOUS
  <1>6. /\ IsFiniteSet(S) /\ n \notin S /\ 1..n = S \cup {n} /\ Cardinality(S) = n - 1
        /\ SplitBefore = S
    <2>2. IsFiniteSet(S) /\ Cardinality(S) = n - 1
      BY <1>1, <1>5, RowsBefore
    <2>3. n \notin S /\ 1..n = S \cup {n}
      BY <1>1, <1>5
    <2>4. SplitBefore = S
      BY <1>1, <1>5 DEF SplitBefore
    <2> QED
      BY <2>2, <2>3, <2>4
  <1>7. PICK g : g = [i \in S |-> Split!Share(i, paid)]
    OBVIOUS
  <1>8. /\ Split!CreditedBefore(paid) = SumOver(g, S)
        /\ \A i \in S : /\ g[i] \in Nat
                        /\ 2 * t * g[i] <= 2 * (paid * h[i]) + t
                        /\ 2 * (paid * h[i]) <= 2 * t * g[i] + t
    <2>1. \A i \in S : i \in DOMAIN lines /\ g[i] = Split!Share(i, paid)
      BY <1>1, <1>6, <1>7
    <2>2. Split!CreditedBefore(paid) = SumOver(g, S)
      BY <1>6, <1>7, SplitCreditedBefore
    <2> QED
      BY <1>1, <1>2, <1>4, <2>1, <2>2, SplitShare
  <1>9. PICK p \in Nat, q \in Nat : p = 2 * t /\ q = 2 * paid
    <2>1. 2 * t \in Nat /\ 2 * paid \in Nat
      OBVIOUS
    <2> QED
      BY <2>1
  <1>10. \A i \in S : /\ h[i] \in Nat /\ g[i] \in Nat
                      /\ p * g[i] <= q * h[i] + t /\ q * h[i] <= p * g[i] + t
    <2>1. SUFFICES ASSUME NEW i \in S
                   PROVE  /\ h[i] \in Nat /\ g[i] \in Nat
                          /\ p * g[i] <= q * h[i] + t /\ q * h[i] <= p * g[i] + t
      OBVIOUS
    <2>2. PICK x \in Nat, y \in Nat : x = h[i] /\ y = g[i]
      BY <1>4, <1>6, <1>8
    <2>3. 2 * t * y <= 2 * (paid * x) + t /\ 2 * (paid * x) <= 2 * t * y + t
      BY <1>8, <2>2
    <2>4. 2 * t * y = p * y /\ 2 * (paid * x) = q * x
      BY <1>9
    <2> QED
      BY <2>2, <2>3, <2>4
  <1>11. /\ SumOver(g, S) \in Nat /\ SumOver(h, S) \in Nat
         /\ p * SumOver(g, S) <= q * SumOver(h, S) + t * (n - 1)
         /\ q * SumOver(h, S) <= p * SumOver(g, S) + t * (n - 1)
    <2>1. /\ SumOver(g, S) \in Nat /\ SumOver(h, S) \in Nat
          /\ p * SumOver(g, S) <= q * SumOver(h, S) + t * Cardinality(S)
      BY <1>6, <1>10, SumRounded
    <2>2. q * SumOver(h, S) <= p * SumOver(g, S) + t * Cardinality(S)
      BY <1>6, <1>10, SumRounded
    <2> QED
      BY <1>6, <2>1, <2>2
  <1>12. t = h[n] + SumOver(h, S) /\ n \in 1..n
    <2>1. \A i \in S \cup {n} : h[i] \in Int
      BY <1>4, <1>6
    <2>2. SumOver(h, S \cup {n}) = h[n] + SumOver(h, S)
      BY <1>6, <2>1, SumInsert
    <2> QED
      BY <1>1, <1>4, <1>6, <2>2
  <1>13. PICK a \in Nat, b \in Nat, c \in Nat, m \in Nat :
                a = SumOver(h, S) /\ b = SumOver(g, S) /\ c = h[n] /\ m = n - 1
    <2>1. n - 1 \in Nat
      BY <1>1
    <2> QED
      BY <1>4, <1>11, <1>12, <2>1
  <1>14. /\ p * b <= q * a + t * m /\ q * a <= p * b + t * m /\ t = c + a
    BY <1>11, <1>12, <1>13
  <1>15. 2 * ((paid - b) * t - paid * c) = q * a - p * b
    BY <1>9, <1>14
  <1>16. -(t * m) <= q * a - p * b /\ q * a - p * b <= t * m
    <2>1. PICK u \in Int, v \in Int, w \in Int : u = q * a /\ v = p * b /\ w = t * m
      OBVIOUS
    <2>2. v <= u + w /\ u <= v + w
      BY <1>14, <2>1
    <2>3. -w <= u - v /\ u - v <= w
      BY <2>2
    <2> QED
      BY <2>1, <2>3
  <1>17. Split!CreditedBefore(paid) = b /\ lines[n].amount = c /\ t * (n - 1) = t * m
    BY <1>4, <1>8, <1>12, <1>13
  <1> QED
    BY <1>2, <1>15, <1>16, <1>17

\* What is credited in all, whatever has an account.
LEMMA SplitCreditedType ==
  ASSUME SplitIInv, NEW paid \in Nat, SplitPaid(paid)
  PROVE  Split!Credited(paid) \in Nat
  <1>1. PICK h : h = Split!Credits(paid)
    OBVIOUS
  <1>2. DOMAIN h = DOMAIN lines /\ \A i \in DOMAIN lines : h[i] = Split!Credit(i, paid)
    BY <1>1 DEF Split!Credits
  <1>3. ASSUME NEW i \in DOMAIN lines PROVE h[i] \in Nat
    <2>1. CASE ~Split!Coded(i)
      BY <1>2, <2>1 DEF Split!Credit
    <2>2. CASE Split!Coded(i)
      <3>1. Split!LineTotal > 0 /\ Split!Credit(i, paid) > 0 /\ lines # <<>>
        BY <2>2 DEF SplitPaid
      <3>2. Split!Share(i, paid) \in Int /\ paid - Split!CreditedBefore(paid) \in Int
        <4>1. Split!Share(i, paid) \in Nat
          BY <3>1, SplitShare
        <4>2. PICK x \in Nat : x = Split!CreditedBefore(paid)
          BY <3>1, SplitCreditedBefore
        <4>3. paid - x \in Int
          OBVIOUS
        <4> QED
          BY <4>1, <4>2, <4>3
      <3>3. Split!Credit(i, paid) \in Int
        BY <2>2, <3>2 DEF Split!Credit
      <3> QED
        BY <1>2, <3>1, <3>3
    <2> QED
      BY <2>1, <2>2
  <1>4. SumOver(h, DOMAIN h) \in Nat
    BY <1>2, <1>3, SplitRows, SumNat
  <1>5. Split!Credited(paid) = SumOver(h, DOMAIN h)
    BY <1>1, SplitSum DEF Split!Credited
  <1> QED
    BY <1>4, <1>5

\* So an entry that does not balance is one whose last line has no account.
LEMMA SplitBalances ==
  ASSUME SplitIInv, NEW paid \in Nat, SplitPaid(paid)
  PROVE  LET total == Split!ToReceivable(paid) + Split!Credited(paid)
         IN  paid # total => ~Split!Coded(Len(lines)) /\ (paid < total \/ ~has_ar)
  <1>1. PICK x \in Nat : x = Split!Credited(paid)
    BY SplitCreditedType
  <1>2. PICK y : y = Split!ToReceivable(paid)
    OBVIOUS
  <1>3. /\ y = IF (\E i \in DOMAIN lines : Split!Coded(i)) => has_ar
               THEN IF paid - x > 0 THEN paid - x ELSE 0 ELSE 0
        /\ y \in Nat
    <2>1. paid - x \in Int
      OBVIOUS
    <2>2. Split!Max({paid - x, 0}) = IF paid - x > 0 THEN paid - x ELSE 0
      BY <2>1, SplitMax
    <2>3. y = IF (\E i \in DOMAIN lines : Split!Coded(i)) => has_ar
              THEN IF paid - x > 0 THEN paid - x ELSE 0 ELSE 0
      BY <1>1, <1>2, <2>2 DEF Split!ToReceivable
    <2> QED
      BY <2>3
  <1>4. Split!Coded(Len(lines)) => x = paid
    <2>1. ASSUME Split!Coded(Len(lines)) PROVE x = paid
      <3>1. Len(lines) \in DOMAIN lines
        <4>1. lines # <<>> /\ lines \in Seq(SplitLine)
          BY DEF SplitPaid, SplitIInv
        <4>2. Len(lines) # 0
          BY <4>1, EmptySeq
        <4> QED
          BY <4>2, SplitRows
      <3>2. lines # <<>> /\ Split!LineTotal > 0
        BY <2>1, <3>1 DEF SplitPaid
      <3> QED
        BY <1>1, <2>1, <3>2, SplitLastTakesRest
    <2> QED
      BY <2>1
  <1>5. paid # y + x => ~Split!Coded(Len(lines)) /\ (paid < y + x \/ ~has_ar)
    <2>1. Split!Coded(Len(lines)) => paid = y + x
      BY <1>3, <1>4
    <2>2. has_ar => paid <= y + x
      BY <1>3
    <2> QED
      BY <1>3, <2>1, <2>2
  <1> QED
    BY <1>1, <1>2, <1>5

\* The credit of a line, to half a cent, or to half a cent per line.
LEMMA SplitFair ==
  ASSUME SplitIInv, NEW paid \in Nat, SplitPaid(paid), \A i \in DOMAIN lines : Split!Coded(i),
         NEW i \in DOMAIN lines
  PROVE  LET off == 2 * (Split!Credit(i, paid) * Split!LineTotal - paid * lines[i].amount)
             cap == Split!LineTotal * (IF i = Len(lines) THEN Len(lines) - 1 ELSE 1)
         IN  -cap <= off /\ off <= cap
  <1>1. lines # <<>> /\ Split!LineTotal > 0
    BY DEF SplitPaid
  <1>2. PICK t \in Nat, a \in Nat, n \in Nat :
               t = Split!LineTotal /\ a = lines[i].amount /\ n = Len(lines)
    BY SplitRows
  <1>3. CASE i = n
    <2>1. Split!Credit(i, paid) = paid - Split!CreditedBefore(paid)
      BY <1>2, <1>3 DEF Split!Credit
    <2>2. LET off == 2 * ((paid - Split!CreditedBefore(paid)) * Split!LineTotal
                           - paid * lines[n].amount)
              cap == Split!LineTotal * (n - 1)
          IN  -cap <= off /\ off <= cap
      BY <1>1, <1>2, SplitLastShare
    <2> QED
      BY <1>2, <1>3, <2>1, <2>2
  <1>4. CASE i # n
    <2>1. PICK x \in Nat : x = Split!Share(i, paid)
      BY <1>1, SplitShare
    <2>2. Split!Credit(i, paid) = x
      BY <1>2, <1>4, <2>1 DEF Split!Credit
    <2>3. 2 * t * x <= 2 * (paid * a) + t /\ 2 * (paid * a) <= 2 * t * x + t
      BY <1>1, <1>2, <2>1, SplitShare
    <2>4. -(t * 1) <= 2 * (x * t - paid * a) /\ 2 * (x * t - paid * a) <= t * 1
      <3>1. PICK u \in Int, v \in Int : u = t * x /\ v = paid * a
        OBVIOUS
      <3>2. 2 * t * x = 2 * u /\ x * t = u /\ t * 1 = t
        BY <3>1
      <3>3. 2 * u <= 2 * v + t /\ 2 * v <= 2 * u + t
        BY <2>3, <3>1, <3>2
      <3>4. -t <= 2 * (u - v) /\ 2 * (u - v) <= t
        BY <3>3
      <3> QED
        BY <3>1, <3>2, <3>4
    <2> QED
      BY <1>2, <1>4, <2>2, <2>4
  <1> QED
    BY <1>3, <1>4

LEMMA SplitFairShares ==
  ASSUME SplitIInv
  PROVE  Split!FairShares
  <1>1. CASE entry = Split!NoEntry
    <2>1. entry.debit = 0 /\ entry.ar = 0 /\ entry.credits = <<>>
      BY <1>1 DEF Split!NoEntry
    <2>2. Split!SumFunction(<<>>) = 0
      <3>1. DOMAIN <<>> = {}
        OBVIOUS
      <3> QED
        BY <3>1, SplitSum, SumEmpty
    <2>3. Split!CreditTotal = 0
      BY <2>1, <2>2 DEF Split!CreditTotal
    <2> QED
      BY <1>1, <2>1, <2>3 DEF Split!FairShares
  <1>2. ASSUME NEW paid \in Nat, SplitPaid(paid) PROVE Split!FairShares
    <2>1. /\ entry.debit = paid /\ entry.credits = Split!Credits(paid)
          /\ entry.ar = Split!ToReceivable(paid)
      BY <1>2 DEF SplitPaid
    <2>2. Split!CreditTotal = Split!ToReceivable(paid) + Split!Credited(paid)
      BY <2>1 DEF Split!CreditTotal, Split!Credited
    <2>3. \A i \in DOMAIN lines : entry.credits[i] = Split!Credit(i, paid)
      BY <2>1 DEF Split!Credits
    <2>4. entry.debit # Split!CreditTotal =>
            ~Split!Coded(Split!Last) /\ (entry.debit < Split!CreditTotal \/ ~has_ar)
      BY <1>2, <2>1, <2>2, SplitBalances DEF Split!Last
    <2>5. ASSUME \A i \in DOMAIN lines : Split!Coded(i), NEW i \in DOMAIN lines
          PROVE  LET off == 2 * (entry.credits[i] * Split!LineTotal
                                   - entry.debit * lines[i].amount)
                     cap == Split!LineTotal * (IF i = Split!Last THEN Split!Last - 1 ELSE 1)
                 IN  -cap <= off /\ off <= cap
      BY <1>2, <2>1, <2>3, <2>5, SplitFair DEF Split!Last
    <2> QED
      BY <2>4, <2>5 DEF Split!FairShares
  <1> QED
    BY <1>1, <1>2 DEF SplitIInv
==============================================================================
