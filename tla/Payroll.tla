------------------------------ MODULE Payroll ------------------------------
(***************************************************************************)
(* Pay runs (PayrollService, PayrollCalculationService): employees and     *)
(* their deductions, a run calculated from them, overridden item by item,  *)
(* approved and posted to the journal.  Amounts are integers, rates are    *)
(* percent.  Requests overlap: one reads the run, and later writes what    *)
(* follows from what it read.                                              *)
(***************************************************************************)
EXTENDS Integers, Sequences, FiniteSets, FiniteSetsExt, Functions

CONSTANTS
  Req,         \* request slots
  Employees,
  Rates,       \* gross pay of a period
  Deductions,  \* the rows employee_deductions may hold
  Brackets,    \* sequence of [min, max, rate]; the last max stands for Infinity
  SSRate, SSCap,
  MedicareRate, StateRate,
  FutaCap, FutaRate,   \* SUTA has the same base
  Years,       \* of the pay dates
  Charts,      \* sets of accounts a tenant may have
  Overrides,   \* amounts an override may set
  MaxRuns, MaxEntries

Codes == {"salary", "taxExpense", "payable", "taxPayable", "cash"}

\* What the constants have to satisfy.  (The rates of the code add up to less than
\* half of a pay.)
PayrollAssumption ==
  /\ IsFiniteSet(Employees) /\ Rates \subseteq Nat /\ Overrides \subseteq Nat
  /\ {SSRate, SSCap, MedicareRate, StateRate, FutaCap, FutaRate} \subseteq Nat
  /\ Brackets \in Seq([min: Nat, max: Nat, rate: Nat]) /\ Brackets # <<>> /\ Brackets[1].min = 0
  /\ \A i \in DOMAIN Brackets :
       /\ Brackets[i].min <= Brackets[i].max
       /\ i > 1 => Brackets[i].min = Brackets[i - 1].max
       /\ Brackets[i].rate + SSRate + MedicareRate + StateRate <= 100
  /\ Deductions \subseteq [category: {"pre_tax", "post_tax"}, emp: Employees, amount: Nat]
  /\ \A c \in Charts : c \subseteq Codes
  /\ MaxRuns \in Nat /\ MaxEntries \in Nat

VARIABLES
  rate,        \* per employee: the pay of a period, 0 when not active
  deducted,    \* the rows of employee_deductions
  runs,        \* payroll_runs; "seen" is history: the posted runs the year-to-date counted
  items,       \* payroll_items, by <<calculation, employee>>; "pre" is history: what the net
               \* pay lacks beyond the columns
  je,          \* the journal entries of runs
  txn,         \* per slot: the operation and what it read
  raced        \* history: a request wrote after another changed what it had read

vars == <<rate, deducted, runs, items, je, txn, raced>>

-----------------------------------------------------------------------------
(* PayrollCalculationService.                                              *)

Round(n, d) == (2 * n + d) \div (2 * d)

Lesser(a, b) == IF a < b THEN a ELSE b

\* Each bracket taxes the part of the income that falls in it.  (The code takes the
\* parts off one after the other.)
Within(income, b) == Lesser(income, b.max) - Lesser(income, b.min)

FederalTax(income) ==
  Round(SumFunction([i \in DOMAIN Brackets |-> Within(income, Brackets[i]) * Brackets[i].rate]), 100)

\* What the year's earlier posted pay leaves of the FUTA wage base.
FutaBase(gross, ytd) == Lesser(gross, IF ytd < FutaCap THEN FutaCap - ytd ELSE 0)

\* Social Security is due on all of a pay or none: the cap is tested before it.
Calculate(run, gross, pre, post, ytd) ==
  LET taxable == IF gross > pre THEN gross - pre ELSE 0
      ss == IF ytd < SSCap THEN Round(taxable * SSRate, 100) ELSE 0
      medicare == Round(taxable * MedicareRate, 100)
      withheld == FederalTax(taxable) + ss + medicare + Round(taxable * StateRate, 100)
  IN [run |-> run, gross |-> gross, withheld |-> withheld, other |-> post, pre |-> pre,
      net |-> gross - (withheld + pre + post),
      employer |-> ss + medicare + Round(FutaBase(gross, ytd) * FutaRate, 100),
      futa |-> FutaBase(gross, ytd)]

-----------------------------------------------------------------------------
Run == [year: Years, status: {"draft", "calculated", "approved", "posted"},
        gross: Int, net: Int, deductions: Int, employer: Int,
        je: 0..MaxEntries, seen: SUBSET (1..MaxRuns)]

Item == [run: 1..MaxRuns, gross: Nat, withheld: Nat, other: Nat, pre: Nat, net: Int,
         employer: Nat, futa: Nat]

Idle == [op |-> "none"]

Init == /\ rate \in [Employees -> Rates \union {0}]
        /\ deducted = {} /\ runs = <<>> /\ items = <<>> /\ je = <<>>
        /\ txn = [r \in Req |-> Idle] /\ raced = FALSE

\* createEmployee and updateEmployee: the rate, or status inactive.
UpdateEmployee(e, p) == /\ rate' = [rate EXCEPT ![e] = p]
                        /\ UNCHANGED <<deducted, runs, items, je, txn, raced>>

\* createEmployeeDeduction, updateEmployeeDeduction, deleteEmployeeDeduction.
SetDeduction(d) == /\ deducted' = SymDiff(deducted, {d})
                   /\ UNCHANGED <<rate, runs, items, je, txn, raced>>

CreatePayrollRun(y) ==
  /\ Len(runs) < MaxRuns
  /\ runs' = Append(runs, [year |-> y, status |-> "draft", gross |-> 0, net |-> 0,
                           deductions |-> 0, employer |-> 0, je |-> 0, seen |-> {}])
  /\ UNCHANGED <<rate, deducted, items, je, txn, raced>>

\* The rows of a run.
ItemsOf(id) == [k \in {k \in DOMAIN items : items[k].run = id} |-> items[k]]

Expects(op) == CASE op = "calculate" -> "draft"
                 [] op \in {"override", "approve"} -> "calculated"
                 [] op = "post" -> "approved"

\* The reads and the guards of a handler; post also reads the items.
Read(r, op, id) ==
  /\ txn[r] = Idle
  /\ runs[id].status = Expects(op)
  /\ op = "post" => DOMAIN ItemsOf(id) # {}
  /\ txn' = [txn EXCEPT ![r] = [op |-> op, run |-> id, read |-> runs[id],
                                items |-> ItemsOf(id), new |-> <<>>, seen |-> {}]]
  /\ UNCHANGED <<rate, deducted, runs, items, je, raced>>

PostedRuns(y) == {id \in DOMAIN runs : runs[id].status = "posted" /\ runs[id].year = y}

\* The items of an employee in the runs ids.
Paid(e, ids) == {k \in DOMAIN items : k[2] = e /\ items[k].run \in ids}

Ytd(e, y) == SumFunction([k \in Paid(e, PostedRuns(y)) |-> items[k].gross])

Deducted(e, category) ==
  SumFunction([d \in {d \in deducted : d.emp = e /\ d.category = category} |-> d.amount])

NewItem(e, id) ==
  Calculate(id, rate[e], Deducted(e, "pre_tax"), Deducted(e, "post_tax"), Ytd(e, runs[id].year))

\* calculatePayroll deletes the items it sees, and computes one for each active
\* employee.
Compute(r) ==
  LET id == txn[r].run
      active == {e \in Employees : rate[e] > 0}
  IN /\ txn[r].op = "calculate" /\ active # {}
     /\ txn' = [txn EXCEPT ![r].op = "insert", ![r].items = ItemsOf(id),
                           ![r].new = [e \in active |-> NewItem(e, id)],
                           ![r].seen = PostedRuns(runs[id].year)]
     /\ UNCHANGED <<rate, deducted, runs, items, je, raced>>

Finish(r) ==
  /\ txn' = [txn EXCEPT ![r] = Idle]
  /\ raced' = (raced \/ runs[txn[r].run] # txn[r].read \/ ItemsOf(txn[r].run) # txn[r].items)
  /\ UNCHANGED <<rate, deducted>>

Added(its, column) == SumFunction([k \in DOMAIN its |-> its[k][column]])

Totals(run, its) ==
  [run EXCEPT !.gross = Added(its, "gross"), !.net = Added(its, "net"),
              !.deductions = Added(its, "gross") - Added(its, "net"),
              !.employer = Added(its, "employer")]

CommitCalculate(r) ==
  LET id    == txn[r].run  new == txn[r].new
      kept  == DOMAIN items \ DOMAIN txn[r].items
      batch == Max({0} \union {k[1] : k \in DOMAIN items}) + 1
  IN /\ txn[r].op = "insert"
     /\ items' = [k \in kept \union ({batch} \X DOMAIN new) |->
                    IF k \in kept THEN items[k] ELSE new[k[2]]]
     /\ runs' = [runs EXCEPT ![id] = [Totals(@, new) EXCEPT !.status = "calculated",
                                                             !.seen = txn[r].seen]]
     /\ Finish(r)
     /\ UNCHANGED je

\* Fault: an override of one column leaves the net pay alone.
OverriddenFault(item, column, amount) == [item EXCEPT ![column] = amount]

\* The total of the deductions is added up from the columns, and no column holds
\* the pre-tax deductions.
Overridden(item, column, amount) ==
  LET x == [item EXCEPT ![column] = amount]
  IN [x EXCEPT !.net = x.gross - (x.withheld + x.other), !.pre = 0]

\* updatePayrollItem; the totals are those of all items of the run.
CommitOverride(r, k, column, amount) ==
  LET id  == txn[r].run
      row == Overridden(items[k], column, amount)
  IN /\ txn[r].op = "override" /\ items[k].run = id
     /\ items' = [items EXCEPT ![k] = row]
     /\ runs' = [runs EXCEPT ![id] = Totals(@, [ItemsOf(id) EXCEPT ![k] = row])]
     /\ Finish(r)
     /\ UNCHANGED je

CommitApprove(r) ==
  /\ txn[r].op = "approve"
  /\ runs' = [runs EXCEPT ![txn[r].run].status = "approved"]
  /\ Finish(r)
  /\ UNCHANGED <<items, je>>

\* Each side of the entry, a line for each account found.
Line(account, amount, chart) == IF account \in chart THEN amount ELSE 0

Debit(its, chart) == Line("salary", Added(its, "gross"), chart)
                       + Line("taxExpense", Added(its, "employer"), chart)

Credit(its, chart) == Line("payable", Added(its, "withheld") + Added(its, "other"), chart)
                        + Line("taxPayable", Added(its, "employer"), chart)
                        + Line("cash", Added(its, "net"), chart)

\* postRun, in the open period of the pay date.
CommitPost(r, chart) ==
  /\ txn[r].op = "post"
  /\ Len(je) < MaxEntries
  /\ je' = Append(je, [run |-> txn[r].run, chart |-> chart, debit |-> Debit(txn[r].items, chart),
                       credit |-> Credit(txn[r].items, chart)])
  /\ runs' = [runs EXCEPT ![txn[r].run].status = "posted", ![txn[r].run].je = Len(je) + 1]
  /\ Finish(r)
  /\ UNCHANGED items

Rollback(r) == /\ txn[r] # Idle
               /\ txn' = [txn EXCEPT ![r] = Idle]
               /\ UNCHANGED <<rate, deducted, runs, items, je, raced>>

Next ==
  \/ \E e \in Employees, p \in Rates \union {0} : UpdateEmployee(e, p)
  \/ \E d \in Deductions : SetDeduction(d)
  \/ \E y \in Years : CreatePayrollRun(y)
  \/ \E r \in Req :
       \/ \E op \in {"calculate", "override", "approve", "post"}, id \in DOMAIN runs :
            Read(r, op, id)
       \/ Compute(r) \/ CommitCalculate(r) \/ CommitApprove(r) \/ Rollback(r)
       \/ \E k \in DOMAIN items, c \in {"gross", "withheld", "other"}, a \in Overrides :
            CommitOverride(r, k, c, a)
       \/ \E c \in Charts : CommitPost(r, c)

Spec == Init /\ [][Next]_vars

-----------------------------------------------------------------------------
(* Properties.                                                             *)

\* Every variable has its type.
TypeOK == /\ runs \in Seq(Run)
          /\ DOMAIN items \subseteq Nat \X Employees /\ \A k \in DOMAIN items : items[k] \in Item
          /\ \A i \in DOMAIN je : je[i].run \in DOMAIN runs /\ je[i].chart \in Charts

\* No two runs of a year were calculated without one counting the other.
Counted(y) == \A a, b \in PostedRuns(y) : a # b => a \in runs[b].seen \/ b \in runs[a].seen

FutaUsed(e, y) == SumFunction([k \in Paid(e, PostedRuns(y)) |-> items[k].futa])

\* Unless requests overlapped: the totals of a run are those of its items; a
\* posted run has one entry, off balance by exactly the pre-tax deductions of the
\* items nobody overrode (they lower the net pay and reach no account); and when
\* each run of a year counted those before it, and no override took a pay below
\* the base it had used, the FUTA wage base of an employee is never used beyond
\* its cap.
PayrollSettles ==
  ~raced =>
    /\ \A id \in DOMAIN runs : runs[id].status # "draft" => runs[id] = Totals(runs[id], ItemsOf(id))
    /\ \A i \in DOMAIN je :
         /\ runs[je[i].run].je = i
         /\ je[i].chart = Codes =>
              je[i].debit - je[i].credit = Added(ItemsOf(je[i].run), "pre")
    /\ \A y \in Years : Counted(y) /\ (\A k \in DOMAIN items : items[k].futa <= items[k].gross) =>
         \A e \in Employees : FutaUsed(e, y) <= FutaCap

\* PayrollCalculationService: of two pays, the higher one never leaves less to
\* the employee, but for what the rounding of four taxes can take, whatever the
\* deductions, the brackets and the pay of the year.
RaiseNeverHurts ==
  \A low, high \in Rates, d \in Overrides, ytd \in {0, FutaCap, SSCap} :
    low <= high => Calculate(0, low, d, 0, ytd).net <= Calculate(0, high, d, 0, ytd).net + 3
=============================================================================
