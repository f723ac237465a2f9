----------------------------- MODULE Statements -----------------------------
(***************************************************************************)
(* The financial statements (ReportsService) and the budget report         *)
(* (BudgetsService) over a journal whose entries are posted and voided day *)
(* by day.  Accounts are known by their codes; amounts are whole cents.    *)
(***************************************************************************)
EXTENDS Integers, Sequences, FiniteSets, FiniteSetsExt, Functions

CONSTANTS
  Code,          \* the account codes in use
  Kind,          \* Kind[code]: asset, liability, equity, revenue or expense
  Entry,         \* the entries that may be posted: sets of lines
  Budgets,       \* budget lines: [account, from, to, amount]
  LastDay, MaxEntries

Line == [account: Code, debit: Nat, credit: Nat]

\* Entries balance (JournalService.create).  Equal lines of one entry are one line
\* of their sum: every report adds the lines up.
Debits(e)  == SumFunction([l \in e |-> l.debit])
Credits(e) == SumFunction([l \in e |-> l.credit])

\* What the constants have to satisfy.
StatementsAssumption ==
  /\ Code \subseteq Nat /\ IsFiniteSet(Code) /\ LastDay \in Nat
  /\ \A e \in Entry : e \subseteq Line /\ IsFiniteSet(e) /\ Debits(e) = Credits(e)
  /\ \A c \in Code : Kind[c] \in {"asset", "liability", "equity", "revenue", "expense"}
  /\ \A b \in Budgets : b.account \in Code /\ b.from \in Nat /\ b.to \in Nat /\ b.amount \in Nat

VARIABLES
  journal,   \* journal_entries: status, the day it was posted, lines
  today

vars == <<journal, today>>

Init == journal = <<>> /\ today = 0

Post(e) == /\ Len(journal) < MaxEntries
           /\ journal' = Append(journal, [posted |-> TRUE, day |-> today, lines |-> e])
           /\ UNCHANGED today

Reversal(e) == {[account |-> l.account, debit |-> l.credit, credit |-> l.debit] : l \in e}

\* JournalService.void: the entry is no longer posted, its reversal is.
Void(i) == /\ journal[i].posted /\ Len(journal) < MaxEntries
           /\ journal' = Append([journal EXCEPT ![i].posted = FALSE],
                                [posted |-> TRUE, day |-> today, lines |-> Reversal(journal[i].lines)])
           /\ UNCHANGED today

NextDay == today < LastDay /\ today' = today + 1 /\ UNCHANGED journal

Next == \/ \E e \in Entry : Post(e)
        \/ \E i \in DOMAIN journal : Void(i)
        \/ NextDay

Spec == Init /\ [][Next]_vars

-----------------------------------------------------------------------------
(* ReportsService.  A balance is debits less credits.                      *)

\* The entries posted from one day to another.
Posted(from, to) == {i \in DOMAIN journal : /\ journal[i].posted
                                            /\ from <= journal[i].day /\ journal[i].day <= to}

\* What an entry moves of the accounts.
Moved(codes, e) == SumFunction([l \in e |-> IF l.account \in codes THEN l.debit - l.credit ELSE 0])

\* getAccountBalances.
Balance(c, from, to) == SumFunction([i \in Posted(from, to) |-> Moved({c}, journal[i].lines)])

\* The balances of accounts together.
BalanceOf(codes, from, to) == SumFunction([c \in codes |-> Balance(c, from, to)])

OfKind(k) == {c \in Code : Kind[c] = k}

\* Accounts of a kind with a code from low, and up to but not including high.
AtLeast(k, low) == {c \in OfKind(k) : low <= c}
Within(k, low, high) == {c \in AtLeast(k, low) : c < high}

Signed(k) == IF k \in {"liability", "equity", "revenue"} THEN -1 ELSE 1

\* groupAccounts, all groups of a kind together.
Total(k, codes, from, to) == Signed(k) * BalanceOf(codes, from, to)

NetIncome(from, to) == - BalanceOf(OfKind("revenue"), from, to)
                       - BalanceOf(OfKind("expense"), from, to)

\* balanceSheet: "Net income flows into equity for balance sheet".
Equity(to) == Total("equity", OfKind("equity"), 0, to) + NetIncome(0, to)

Assets(to)      == Total("asset", OfKind("asset"), 0, to)
Liabilities(to) == Total("liability", OfKind("liability"), 0, to)

Abs(n) == IF n < 0 THEN -n ELSE n

Revenue(from, to) == Total("revenue", OfKind("revenue"), from, to)

\* Fault: expenses from 7000 on, the other ones, are left out.
StatedIncomeFault(from, to) ==
  Abs(Revenue(from, to)) - Total("expense", Within("expense", 5000, 7000), from, to)

\* incomeStatement: revenue by its absolute value, less the cost of goods sold
\* (5000), operating (6000) and other expenses (7000 and more).
StatedIncome(from, to) ==
  Abs(Revenue(from, to)) - Total("expense", AtLeast("expense", 5000), from, to)

\* cashFlow: the changes of the accounts, and depreciation added back.
Operating(from, to) ==
  NetIncome(from, to)
    + BalanceOf(Within("expense", 6500, 6600), from, to)
    - BalanceOf(Within("asset", 1100, 1500), from, to)
    - BalanceOf(Within("liability", 0, 2500), from, to)

\* Fixed assets, accumulated depreciation among them.
Investing(from, to) == - BalanceOf(Within("asset", 1500, 2000), from, to)

Financing(from, to) == - BalanceOf(AtLeast("liability", 2500), from, to)
                       - BalanceOf(OfKind("equity"), from, to)

CashAccounts == Within("asset", 1000, 1100)

CashChange(from, to) == BalanceOf(CashAccounts, from, to)

FromActivities(from, to) == Operating(from, to) + Investing(from, to) + Financing(from, to)

\* trialBalance: each account on the side of its balance.
TrialDebit(to)  == SumFunction([c \in Code |-> Max({0, Balance(c, 0, to)})])
TrialCredit(to) == SumFunction([c \in Code |-> Max({0, - Balance(c, 0, to)})])

\* getFinancialRatios adds the accounts up by their absolute values.
SumByType(k, low, high, to) == SumFunction([c \in Within(k, low, high) |-> Abs(Balance(c, 0, to))])

WorkingCapital(to) == SumByType("asset", 1000, 1500, to) - SumByType("liability", 2000, 2500, to)

\* The cash flow trend of the executive dashboard, a period at a time.
CashIn(e)  == SumFunction([l \in e |-> IF l.account \in CashAccounts THEN l.debit ELSE 0])
CashOut(e) == SumFunction([l \in e |-> IF l.account \in CashAccounts THEN l.credit ELSE 0])

Inflow(from, to)  == SumFunction([i \in Posted(from, to) |-> CashIn(journal[i].lines)])
Outflow(from, to) == SumFunction([i \in Posted(from, to) |-> CashOut(journal[i].lines)])

-----------------------------------------------------------------------------
(* BudgetsService.                                                         *)

DebitNormal(c) == Kind[c] \in {"asset", "expense"}

\* getBudgetVsActual
Actual(b) == IF DebitNormal(b.account) THEN Balance(b.account, b.from, b.to)
                                       ELSE - Balance(b.account, b.from, b.to)

Variance(b) == b.amount - Actual(b)

Favorable(b) == IF DebitNormal(b.account) THEN Actual(b) <= b.amount ELSE Actual(b) >= b.amount

-----------------------------------------------------------------------------
(* Properties.                                                             *)

\* The variables have their types.
TypeOK == /\ today \in 0..LastDay
          /\ \A i \in DOMAIN journal : journal[i].posted \in BOOLEAN /\ journal[i].day \in 0..today

Days == 0..today

\* The balances no statement has a line for: expenses numbered below 5000, and
\* assets numbered outside 1000 to 1999.
OddExpenses == Within("expense", 0, 5000)
OddAssets   == OfKind("asset") \ Within("asset", 1000, 2000)

Unstated(from, to)    == BalanceOf(OddExpenses, from, to)
Unexplained(from, to) == BalanceOf(OddAssets, from, to)

SheetBalances(to) == /\ Assets(to) = Liabilities(to) + Equity(to)
                     /\ TrialDebit(to) = TrialCredit(to)

PeriodAgrees(from, to) ==
  /\ StatedIncome(from, to) =
       NetIncome(from, to) + 2 * Max({0, - Revenue(from, to)}) + Unstated(from, to)
  /\ FromActivities(from, to) =
       CashChange(from, to) + BalanceOf(Within("expense", 6500, 6600), from, to)
         + Unexplained(from, to)
  /\ Inflow(from, to) - Outflow(from, to) = CashChange(from, to)

CapitalAgrees(to) ==
  (/\ \A c \in Within("asset", 1000, 1500) : Balance(c, 0, to) >= 0
   /\ \A c \in Within("liability", 2000, 2500) : Balance(c, 0, to) <= 0) =>
    WorkingCapital(to) =
      Total("asset", Within("asset", 1000, 1500), 0, to)
      - Total("liability", Within("liability", 2000, 2500), 0, to)

BudgetAgrees(b) ==
  Kind[b.account] \in {"revenue", "expense"} =>
    LET planned == IF Kind[b.account] = "revenue" THEN b.amount ELSE -b.amount
    IN  Favorable(b) <=> - Balance(b.account, b.from, b.to) >= planned

\* "Assets = Liabilities + Equity as of a given date", on every date, whatever was
\* voided; so do the two sides of the trial balance.  The income statement states
\* the income the balance sheet has, except where revenue is negative (a sale of an
\* earlier period was voided or credited in this one): then it is off by twice the
\* revenue; and except for expenses whose number no section of it takes.  The cash
\* the activities explain is the change in cash plus the depreciation of the
\* period, which is both added back and, on the accumulated depreciation account,
\* counted as property sold, and plus what went to assets whose number no section
\* takes.  Inflow less outflow is the change in cash.  Working capital is what the
\* balance sheet says unless an account is on the wrong side.  A budget line is
\* favorable when what the account earned or cost is no worse for the income than
\* planned.
StatementsAgree ==
  /\ \A to \in Days : SheetBalances(to) /\ CapitalAgrees(to)
  /\ \A from \in Days : \A to \in from..today : PeriodAgrees(from, to)
  /\ \A b \in Budgets : BudgetAgrees(b)
=============================================================================
