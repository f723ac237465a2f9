---------------------------- MODULE MCOperations ----------------------------
(* Small instances of Operations for TLC. *)
EXTENDS Operations

Bracket(min, max, pct) == [min |-> min, max |-> max, rate |-> pct]
Deduction(category) == [emp |-> 1, category |-> category, amount |-> 100]

\* Pay of up to 1000, with every bracket and wage base.
Wages == [req |-> {1}, employees |-> {1}, rates |-> {400}, deductions |-> {Deduction("pre_tax")},
          brackets |-> <<Bracket(0, 300, 10), Bracket(300, 500, 40), Bracket(500, 1000000, 60)>>,
          ss_rate |-> 6, ss_cap |-> 600, medicare_rate |-> 1, state_rate |-> 4,
          futa_cap |-> 700, futa_rate |-> 1, years |-> {1, 2},
          charts |-> {{"salary", "taxExpense", "payable", "taxPayable", "cash"}},
          overrides |-> {500}, runs |-> 2, entries |-> 2]

\* Runs of one year whose items are overridden, runs of two years, one request
\* at a time; and requests that overlap, on a run of two employees.
SmallPayrolls ==
  <<[Wages EXCEPT !.years = {1}],
    [Wages EXCEPT !.overrides = {}],
    [Wages EXCEPT !.req = {1, 2}, !.employees = {1, 2}, !.deductions = {},
                  !.brackets = <<Bracket(0, 300, 10), Bracket(300, 1000000, 60)>>, !.years = {1},
                  !.charts = {{"salary", "cash"}}, !.overrides = {}, !.runs = 1]>>

\* Every pay in steps of a dollar up to the top bracket, and some in steps of a cent.
EveryPay == [Wages EXCEPT !.rates = {100 * i : i \in 0..10} \union 20..30,
                          !.deductions = {}, !.years = {1}, !.charts = {}, !.overrides = {0, 250},
                          !.runs = 0, !.entries = 0]

\* Time entries of one project, one request at a time; bills, approvals and
\* timers that overlap; and links to two expenses made and removed at once.
SmallTimes ==
  <<[req |-> {1}, ops |-> {"update", "delete", "stop", "approve", "bill"}, projects |-> {1},
     minutes |-> {2}, rate |-> 60, expenses |-> {}, amounts |-> {}, entries |-> 2, invoices |-> 2],
    [req |-> {1, 2}, ops |-> {"approve", "bill"}, projects |-> {1},
     minutes |-> {2}, rate |-> 60, expenses |-> {}, amounts |-> {}, entries |-> 2, invoices |-> 2],
    [req |-> {1, 2}, ops |-> {"link", "unlink", "drop"}, projects |-> {1},
     minutes |-> {}, rate |-> 60, expenses |-> {1, 2}, amounts |-> {2}, entries |-> 0, invoices |-> 0]>>

Retained(amount, percent) == [amount |-> amount, percent |-> percent]

\* Costs of two codes; and change orders and billings, with requests that overlap.
SmallJobs ==
  <<[req |-> {1}, ops |-> {"cost"}, codes |-> {1, 2}, amounts |-> {0, 1, 3}, lines |-> {},
     costs |-> 3, orders |-> 0, billings |-> 0, invoices |-> 0],
    [req |-> {1, 2}, codes |-> {1}, amounts |-> {1, 3},
     ops |-> {"amend", "approveOrder", "dropOrder", "submit", "approve", "invoice", "drop"},
     lines |-> {<<Retained(5, 10)>>, <<Retained(3, 50), Retained(4, 0)>>},
     costs |-> 0, orders |-> 1, billings |-> 1, invoices |-> 2]>>

\* Two seats or one, one request at a time, with members that come and go or
\* with plans that change; and invitations, additions and a change of plan that
\* overlap.
SmallMembers ==
  <<[req |-> {1}, ops |-> {"invite", "create", "revoke", "accept", "activity"},
     users |-> {1, 2}, limits |-> {1, 2}, ttl |-> 0, days |-> 0, time |-> 1, invitations |-> 2],
    [req |-> {1}, ops |-> {"invite", "create", "assign", "revoke", "accept"},
     users |-> {1, 2}, limits |-> {1, 2}, ttl |-> 0, days |-> 0, time |-> 1, invitations |-> 2],
    [req |-> {1, 2}, ops |-> {"invite", "create", "assign"},
     users |-> {1, 2}, limits |-> {1, 2}, ttl |-> 0, days |-> 0, time |-> 0, invitations |-> 2]>>

\* One deal in two stages, with requests that overlap.
SmallDeals == [req |-> {1, 2}, pipelines |-> {1}, odds |-> {50}, values |-> {1, 3},
               stages |-> 2, deals |-> 1, invoices |-> 2]

\* An asset charged month by month, in any order of the months.
SmallAsset == [prices |-> {10, 11}, salvages |-> {6}, lives |-> {3}, proceeds |-> {12}, months |-> 1..4]

\* Every payment of every list of up to three lines.
SmallSplit == [cents |-> 0..6, lines |-> 3]

\* Two events, one of them with two rules, and one with a rule that may not balance.
Line(side, source) == [side |-> side, source |-> source]
EventRules == <<[event |-> 1, active |-> TRUE,
                 lines |-> <<Line("debit", -1), Line("credit", -1)>>],
                [event |-> 1, active |-> TRUE,
                 lines |-> <<Line("debit", -1), Line("credit", 1), Line("credit", 1)>>],
                [event |-> 2, active |-> TRUE,
                 lines |-> <<Line("debit", 2), Line("credit", -1)>>],
                [event |-> 2, active |-> TRUE,
                 lines |-> <<Line("debit", 1), Line("credit", -1)>>],
                [event |-> 2, active |-> FALSE, lines |-> <<Line("debit", 0)>>]>>
SmallEvents == [req |-> {1, 2}, keys |-> {1}, events |-> {1, 2}, periods |-> {1, 2},
                amounts |-> {2}, rules |-> EventRules, entries |-> 4]

\* Three rules of one condition.
Text(field, operator, value) == [field |-> field, operator |-> operator, value |-> value, number |-> 0]
Over(n) == [field |-> "amount", operator |-> "greater_than", value |-> "", number |-> n]
SmallRules ==
  [slots |-> {1, 2, 3}, priorities |-> {1, 2}, words |-> {"rent"}, amounts |-> {2, 3},
   kinds |-> {"deposit", "withdrawal"}, bound |-> 1,
   conditions |-> {Text("description", "contains", "rent"), Over(2), Over(-1),
                   Text("type", "contains", "deposit")}]

\* A sale and its collection, property bought and depreciated, a loan and its
\* interest, capital, and rent on credit.  Property (900) and rent (4900) have numbers
\* outside the ranges of the statements.
Books == [c \in {900, 1000, 1100, 1600, 2000, 2500, 3000, 4000, 4900, 6500, 7000} |->
            CASE c < 2000 -> "asset" [] c \in 2000..2999 -> "liability" [] c = 3000 -> "equity"
              [] c = 4000 -> "revenue" [] OTHER -> "expense"]
Booking(debit, credit, amount) == {[account |-> debit, debit |-> amount, credit |-> 0],
                                   [account |-> credit, debit |-> 0, credit |-> amount]}
SmallStatements ==
  [codes |-> DOMAIN Books, kinds |-> Books, days |-> 1, entries |-> 3,
   entry |-> {Booking(1100, 4000, 3), Booking(1000, 1100, 3), Booking(900, 1000, 5),
              Booking(6500, 1600, 1), Booking(1000, 2500, 5), Booking(7000, 1000, 1),
              Booking(1000, 3000, 5), Booking(4900, 2000, 2)},
   budgets |-> {[account |-> c, from |-> 0, to |-> d, amount |-> 2] : c \in {4000, 4900}, d \in {0, 1}}]

\* Two tabs on every page.
Client == INSTANCE Pages
TwoTabs == {1, 2}
TwoRoles == <<"owner", "manager">>
EveryPage == DOMAIN Client!Pages
PlanFeatures == {"feature.accounts", "feature.admin", "feature.chart_of_accounts", "feature.journal"}
=============================================================================
