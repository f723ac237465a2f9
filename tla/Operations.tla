----------------------------- MODULE Operations -----------------------------
(***************************************************************************)
(* The components that keep to their own tables beside each other: pay     *)
(* runs, projects and their time, job costs, deals, fixed assets,          *)
(* payments, posting rules, bank rules, members, the statements, and the   *)
(* web client.  A behaviour is of one of them: part says which component   *)
(* it is of and with which parameters, and never changes.  The variables   *)
(* of the others stay empty.                                               *)
(***************************************************************************)
EXTENDS Integers, Sequences

CONSTANTS
  PayrollCase, TimeCase, JobCase, MembersCase, \* parameters, by the name of the case
  DealCase, AssetCase, SplitCase, EventCase, RuleCase, StatementCase,  \* parameters
  Tab, Role, Features, Kinds, MaxBusy,         \* parameters of Console
  PayCase                                      \* parameters of Payroll, for what it computes

VARIABLES part, txn, raced,
          rate, deducted, runs, items, je,
          project, entries, links, cost, invoices,
          costs, orders, billings,
          stages, deals,
          asset, dep, period_open, reserve, disposal, promised,
          lines, has_ar, entry,
          open,
          rules,
          plan, cache, member, invitations, now, excused,
          journal, today,
          kind, routed, status, shown, requests

payrollVars   == <<rate, deducted, runs, items, je>>
projectVars   == <<project, links, cost>>
jobVars       == <<costs, orders, billings>>
dealVars      == <<stages, deals>>
assetVars     == <<asset, dep, period_open, reserve, disposal, promised>>
splitVars     == <<lines, has_ar, entry>>
memberVars    == <<plan, cache, member, invitations, now, excused>>
statementVars == <<journal, today>>
consoleVars   == <<kind, routed, status, shown, requests>>
vars == <<part, txn, raced, payrollVars, projectVars, entries, invoices, jobVars, dealVars,
          assetVars, splitVars, open, rules, memberVars, statementVars, consoleVars>>

NoTxn        == txn = <<>>
NoRace       == raced = FALSE
NoPayroll    == rate = <<>> /\ deducted = <<>> /\ runs = <<>> /\ items = <<>> /\ je = <<>>
NoProject    == project = <<>> /\ links = {} /\ cost = <<>>
NoEntries    == entries = <<>>
NoInvoices   == invoices = <<>>
NoJob        == costs = <<>> /\ orders = <<>> /\ billings = <<>>
NoDeal       == stages = <<>> /\ deals = <<>>
NoAsset      == /\ asset = <<>> /\ dep = <<>> /\ period_open = FALSE /\ reserve = 0
                /\ disposal = <<>> /\ promised = <<>>
NoSplit      == lines = <<>> /\ has_ar = FALSE /\ entry = <<>>
NoOpen       == open = {}
NoRules      == rules = <<>>
NoMember     == /\ plan = 0 /\ cache = <<>> /\ member = <<>> /\ invitations = <<>>
                /\ now = 0 /\ excused = {}
NoStatement  == journal = <<>> /\ today = 0
NoConsole    == /\ kind = <<>> /\ routed = <<>> /\ status = <<>> /\ shown = <<>>
                /\ requests = <<>>

-----------------------------------------------------------------------------
Payroll(c) == INSTANCE Payroll WITH
  Req <- PayrollCase[c].req, Employees <- PayrollCase[c].employees,
  Rates <- PayrollCase[c].rates, Deductions <- PayrollCase[c].deductions,
  Brackets <- PayrollCase[c].brackets, SSRate <- PayrollCase[c].ss_rate,
  SSCap <- PayrollCase[c].ss_cap, MedicareRate <- PayrollCase[c].medicare_rate,
  StateRate <- PayrollCase[c].state_rate,
  FutaCap <- PayrollCase[c].futa_cap, FutaRate <- PayrollCase[c].futa_rate,
  Years <- PayrollCase[c].years, Charts <- PayrollCase[c].charts,
  Overrides <- PayrollCase[c].overrides, MaxRuns <- PayrollCase[c].runs,
  MaxEntries <- PayrollCase[c].entries

Pay == INSTANCE Payroll WITH
  Req <- PayCase.req, Employees <- PayCase.employees, Rates <- PayCase.rates,
  Deductions <- PayCase.deductions, Brackets <- PayCase.brackets, SSRate <- PayCase.ss_rate,
  SSCap <- PayCase.ss_cap, MedicareRate <- PayCase.medicare_rate,
  StateRate <- PayCase.state_rate, FutaCap <- PayCase.futa_cap,
  FutaRate <- PayCase.futa_rate, Years <- PayCase.years, Charts <- PayCase.charts,
  Overrides <- PayCase.overrides, MaxRuns <- PayCase.runs, MaxEntries <- PayCase.entries

Time(c) == INSTANCE Projects WITH
  Req <- TimeCase[c].req, Ops <- TimeCase[c].ops, Project <- TimeCase[c].projects,
  Minutes <- TimeCase[c].minutes, Rate <- TimeCase[c].rate, Expense <- TimeCase[c].expenses,
  Amounts <- TimeCase[c].amounts, MaxEntries <- TimeCase[c].entries,
  MaxInvoices <- TimeCase[c].invoices

Job(c) == INSTANCE JobCosting WITH
  Req <- JobCase[c].req, Ops <- JobCase[c].ops, Code <- JobCase[c].codes,
  Amounts <- JobCase[c].amounts, BillLines <- JobCase[c].lines, MaxCosts <- JobCase[c].costs,
  MaxOrders <- JobCase[c].orders, MaxBillings <- JobCase[c].billings,
  MaxInvoices <- JobCase[c].invoices

Members(c) == INSTANCE Members WITH
  Req <- MembersCase[c].req, Ops <- MembersCase[c].ops, User <- MembersCase[c].users,
  Limits <- MembersCase[c].limits, Ttl <- MembersCase[c].ttl, Days <- MembersCase[c].days,
  MaxTime <- MembersCase[c].time, MaxInvitations <- MembersCase[c].invitations

Deal == INSTANCE Crm WITH
  Req <- DealCase.req, Pipeline <- DealCase.pipelines, Odds <- DealCase.odds,
  Values <- DealCase.values, MaxStages <- DealCase.stages, MaxDeals <- DealCase.deals,
  MaxInvoices <- DealCase.invoices

Asset == INSTANCE Depreciation WITH
  Price <- AssetCase.prices, Salvage <- AssetCase.salvages, Life <- AssetCase.lives,
  Proceeds <- AssetCase.proceeds, Month <- AssetCase.months

Split == INSTANCE PaymentSplit WITH
  Cents <- SplitCase.cents, MaxLines <- SplitCase.lines

Events == INSTANCE PostingRules WITH
  Req <- EventCase.req, Key <- EventCase.keys, Event <- EventCase.events,
  Period <- EventCase.periods, Amounts <- EventCase.amounts, Rule <- EventCase.rules,
  MaxEntries <- EventCase.entries

BankRules == INSTANCE BankRules WITH
  Slot <- RuleCase.slots, Priority <- RuleCase.priorities, Condition <- RuleCase.conditions,
  Words <- RuleCase.words, Amounts <- RuleCase.amounts, Kinds <- RuleCase.kinds,
  MaxConditions <- RuleCase.bound

Statements == INSTANCE Statements WITH
  Code <- StatementCase.codes, Kind <- StatementCase.kinds, LastDay <- StatementCase.days,
  MaxEntries <- StatementCase.entries, Entry <- StatementCase.entry,
  Budgets <- StatementCase.budgets

Console == INSTANCE Console

\* What the parameters have to satisfy.
ASSUME OperationsAssumption ==
  /\ Pay!PayrollAssumption /\ \A c \in DOMAIN PayrollCase : Payroll(c)!PayrollAssumption
  /\ \A c \in DOMAIN TimeCase : Time(c)!ProjectsAssumption
  /\ \A c \in DOMAIN JobCase : Job(c)!JobCostingAssumption
  /\ \A c \in DOMAIN MembersCase : Members(c)!MembersAssumption
  /\ Deal!CrmAssumption /\ Asset!DepreciationAssumption /\ Split!SplitAssumption
  /\ Events!RulesAssumption /\ BankRules!BankRulesAssumption
  /\ Statements!StatementsAssumption /\ Console!ConsoleAssumption

Init ==
  \/ /\ \E c \in DOMAIN PayrollCase : part = <<"payroll", c>> /\ Payroll(c)!Init
     /\ NoProject /\ NoEntries /\ NoInvoices /\ NoJob /\ NoDeal /\ NoAsset /\ NoSplit /\ NoOpen
     /\ NoRules /\ NoMember /\ NoStatement /\ NoConsole
  \/ /\ \E c \in DOMAIN TimeCase : part = <<"time", c>> /\ Time(c)!Init
     /\ NoPayroll /\ NoJob /\ NoDeal /\ NoAsset /\ NoSplit /\ NoOpen
     /\ NoRules /\ NoMember /\ NoStatement /\ NoConsole
  \/ /\ \E c \in DOMAIN JobCase : part = <<"job", c>> /\ Job(c)!Init
     /\ NoPayroll /\ NoProject /\ NoEntries /\ NoDeal /\ NoAsset /\ NoSplit /\ NoOpen
     /\ NoRules /\ NoMember /\ NoStatement /\ NoConsole
  \/ /\ \E c \in DOMAIN MembersCase : part = <<"members", c>> /\ Members(c)!Init
     /\ NoRace /\ NoPayroll /\ NoProject /\ NoEntries /\ NoInvoices /\ NoJob /\ NoDeal /\ NoAsset
     /\ NoSplit /\ NoOpen /\ NoRules /\ NoStatement /\ NoConsole
  \/ /\ part = <<"deals">> /\ Deal!Init
     /\ NoPayroll /\ NoProject /\ NoEntries /\ NoJob /\ NoAsset /\ NoSplit /\ NoOpen
     /\ NoRules /\ NoMember /\ NoStatement /\ NoConsole
  \/ /\ part = <<"asset">> /\ Asset!Init
     /\ NoTxn /\ NoRace /\ NoPayroll /\ NoProject /\ NoEntries /\ NoInvoices /\ NoJob /\ NoDeal
     /\ NoSplit /\ NoOpen /\ NoRules /\ NoMember /\ NoStatement /\ NoConsole
  \/ /\ part = <<"split">> /\ Split!Init
     /\ NoTxn /\ NoRace /\ NoPayroll /\ NoProject /\ NoEntries /\ NoInvoices /\ NoJob /\ NoDeal
     /\ NoAsset /\ NoOpen /\ NoRules /\ NoMember /\ NoStatement /\ NoConsole
  \/ /\ part = <<"events">> /\ Events!Init
     /\ NoPayroll /\ NoProject /\ NoInvoices /\ NoJob /\ NoDeal /\ NoAsset /\ NoSplit
     /\ NoRules /\ NoMember /\ NoStatement /\ NoConsole
  \/ /\ part = <<"rules">> /\ BankRules!Init
     /\ NoTxn /\ NoRace /\ NoPayroll /\ NoProject /\ NoEntries /\ NoInvoices /\ NoJob /\ NoDeal
     /\ NoAsset /\ NoSplit /\ NoOpen /\ NoMember /\ NoStatement /\ NoConsole
  \/ /\ part = <<"statements">> /\ Statements!Init
     /\ NoTxn /\ NoRace /\ NoPayroll /\ NoProject /\ NoEntries /\ NoInvoices /\ NoJob /\ NoDeal
     /\ NoAsset /\ NoSplit /\ NoOpen /\ NoRules /\ NoMember /\ NoConsole
  \/ /\ part = <<"console">> /\ Console!Init
     /\ NoTxn /\ NoRace /\ NoPayroll /\ NoProject /\ NoEntries /\ NoInvoices /\ NoJob /\ NoDeal
     /\ NoAsset /\ NoSplit /\ NoOpen /\ NoRules /\ NoMember /\ NoStatement

Next ==
  \/ /\ \E c \in DOMAIN PayrollCase : part = <<"payroll", c>> /\ Payroll(c)!Next
     /\ UNCHANGED <<part, projectVars, entries, invoices, jobVars, dealVars, assetVars, splitVars,
                    open, rules, memberVars, statementVars, consoleVars>>
  \/ /\ \E c \in DOMAIN TimeCase : part = <<"time", c>> /\ Time(c)!Next
     /\ UNCHANGED <<part, payrollVars, jobVars, dealVars, assetVars, splitVars,
                    open, rules, memberVars, statementVars, consoleVars>>
  \/ /\ \E c \in DOMAIN JobCase : part = <<"job", c>> /\ Job(c)!Next
     /\ UNCHANGED <<part, payrollVars, projectVars, entries, dealVars, assetVars, splitVars,
                    open, rules, memberVars, statementVars, consoleVars>>
  \/ /\ \E c \in DOMAIN MembersCase : part = <<"members", c>> /\ Members(c)!Next
     /\ UNCHANGED <<part, raced, payrollVars, projectVars, entries, invoices, jobVars, dealVars,
                    assetVars, splitVars, open, rules, statementVars, consoleVars>>
  \/ /\ part = <<"deals">> /\ Deal!Next
     /\ UNCHANGED <<part, payrollVars, projectVars, entries, jobVars, assetVars, splitVars,
                    open, rules, memberVars, statementVars, consoleVars>>
  \/ /\ part = <<"asset">> /\ Asset!Next
     /\ UNCHANGED <<part, txn, raced, payrollVars, projectVars, entries, invoices, jobVars,
                    dealVars, splitVars, open, rules, memberVars, statementVars, consoleVars>>
  \/ /\ part = <<"split">> /\ Split!Next
     /\ UNCHANGED <<part, txn, raced, payrollVars, projectVars, entries, invoices, jobVars,
                    dealVars, assetVars, open, rules, memberVars, statementVars, consoleVars>>
  \/ /\ part = <<"events">> /\ Events!Next
     /\ UNCHANGED <<part, payrollVars, projectVars, invoices, jobVars, dealVars, assetVars,
                    splitVars, rules, memberVars, statementVars, consoleVars>>
  \/ /\ part = <<"rules">> /\ BankRules!Next
     /\ UNCHANGED <<part, txn, raced, payrollVars, projectVars, entries, invoices, jobVars,
                    dealVars, assetVars, splitVars, open, memberVars, statementVars, consoleVars>>
  \/ /\ part = <<"statements">> /\ Statements!Next
     /\ UNCHANGED <<part, txn, raced, payrollVars, projectVars, entries, invoices, jobVars,
                    dealVars, assetVars, splitVars, open, rules, memberVars, consoleVars>>
  \/ /\ part = <<"console">> /\ Console!Next
     /\ UNCHANGED <<part, txn, raced, payrollVars, projectVars, entries, invoices, jobVars,
                    dealVars, assetVars, splitVars, open, rules, memberVars, statementVars>>

Spec == Init /\ [][Next]_vars

-----------------------------------------------------------------------------
(* The properties of the components, whatever their parameters.            *)

\* Every variable has its type.
TypeOK == /\ \A c \in DOMAIN PayrollCase : part = <<"payroll", c>> => Payroll(c)!TypeOK
          /\ \A c \in DOMAIN TimeCase : part = <<"time", c>> => Time(c)!TypeOK
          /\ \A c \in DOMAIN JobCase : part = <<"job", c>> => Job(c)!TypeOK
          /\ \A c \in DOMAIN MembersCase : part = <<"members", c>> => Members(c)!TypeOK
          /\ part = <<"deals">> => Deal!TypeOK
          /\ part = <<"asset">> => Asset!TypeOK
          /\ part = <<"events">> => Events!TypeOK
          /\ part = <<"statements">> => Statements!TypeOK
          /\ part = <<"console">> => Console!TypeOK

\* Payroll.PayrollSettles, and Payroll.RaiseNeverHurts.
PayrollSettles ==
  \A c \in DOMAIN PayrollCase : part = <<"payroll", c>> =>
    Payroll(c)!PayrollSettles /\ (runs = <<>> => Pay!RaiseNeverHurts)

\* Projects.TimeBilledOnce, of time and of linked expenses.
TimeBilledOnce == \A c \in DOMAIN TimeCase : part = <<"time", c>> => Time(c)!TimeBilledOnce

\* Projects.BilledIsInvoiced.
BilledIsInvoiced == \A c \in DOMAIN TimeCase : part = <<"time", c>> => Time(c)!BilledIsInvoiced

\* JobCosting.EarnedIsSpent and JobCosting.BillingsInvoiced.
JobCostsAgree ==
  \A c \in DOMAIN JobCase : part = <<"job", c>> =>
    Job(c)!EarnedIsSpent /\ Job(c)!BillingsInvoiced

\* Crm.DealsConsistent.
DealsConsistent == part = <<"deals">> => Deal!DealsConsistent

\* PostingRules.EventsOnce and BankRules.NarrowerRuleHidden.
RulesApply == /\ part = <<"events">> => Events!EventsOnce
              /\ part = <<"rules">> => BankRules!NarrowerRuleHidden

\* Statements.StatementsAgree.
StatementsAgree == part = <<"statements">> => Statements!StatementsAgree

\* Members.SeatsWithinPlan.
SeatsWithinPlan == \A c \in DOMAIN MembersCase : part = <<"members", c>> => Members(c)!SeatsWithinPlan

\* What rounding may do to a charge, a disposal and a payment:
\* Depreciation.ChargesAsShown, Depreciation.DisposalSettles, PaymentSplit.FairShares.
RoundingSettles == /\ part = <<"asset">> => Asset!ChargesAsShown /\ Asset!DisposalSettles
                   /\ part = <<"split">> => Split!FairShares

\* Console.OffersAnswered.
OffersAnswered == part = <<"console">> => Console!OffersAnswered
=============================================================================
