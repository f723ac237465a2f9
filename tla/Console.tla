------------------------------- MODULE Console -------------------------------
(***************************************************************************)
(* Two browser tabs on one page, each of a signed-in member, and the       *)
(* server behind them.  A tab shows the status it loaded last, offers the  *)
(* buttons of that status, and learns of a change only when it loads       *)
(* again: after a press that succeeded, or when the user reloads.  Other   *)
(* clients (the portal, Stripe, API keys) move the document meanwhile.     *)
(***************************************************************************)
EXTENDS Pages, Moves, FiniteSets

CONSTANTS
  Tab,        \* the tabs
  Role,       \* the role of the member behind each tab
  Features,   \* the features of the tenant's plan
  Kinds,      \* the pages, by the names of Pages
  MaxBusy     \* bound: requests on their way at once

ConsoleAssumption ==
  /\ Role \in [Tab -> Anyone]
  /\ Kinds \subseteq DOMAIN Pages
  /\ MaxBusy \in Nat \ {0}

VARIABLES
  kind,      \* the page the tabs show
  routed,    \* what the server makes of each of its requests before a handler runs
  status,    \* the status of its document in the database
  shown,     \* per tab, the status it shows ("nothing" before a load)
  requests   \* the requests on their way

vars == <<kind, routed, status, shown, requests>>

-----------------------------------------------------------------------------
\* The other pages show no document.
HasDocument == kind \in DOMAIN Moves

MovesOf(name) ==
    IF HasDocument THEN {move \in Moves[kind] : move.name = name} ELSE {}

Statuses ==
    IF HasDocument THEN {Created[kind]} \cup {move.to : move \in Moves[kind]} ELSE {"none"}

-----------------------------------------------------------------------------
Slot == 1..MaxBusy
Free == [phase |-> "free"]

FreeSlots == {s \in Slot : requests[s] = Free}

Waits(t) == \E s \in Slot : requests[s] # Free /\ requests[s].tab = t

\* A request of tab t leaves the browser in the first free slot.
Ask(t, name, filled) ==
    /\ FreeSlots # {}
    /\ LET s == CHOOSE s \in FreeSlots : \A r \in FreeSlots : s <= r IN
       requests' = [requests EXCEPT ![s] =
                      [phase |-> "asked", tab |-> t, name |-> name, filled |-> filled,
                       showed |-> shown[t]]]

LoadPress == Press("load", {}, "GET", Pages[kind].loads, Blank)

Presses == Pages[kind].presses \cup (IF Pages[kind].loads = <<>> THEN {} ELSE {LoadPress})

\* The routes, the roles and the classes do not change while the server runs.
Verdict(press, filled, t) ==
    [answer |-> Answer(press.verb, press.path, Sends(press.form, filled), Role[t], Features),
     logged |-> Logs(press.verb, press.path)]

\* A form has boxes that may stay blank or has none.
Fillings(press) ==
    {filled \in BOOLEAN : filled => Sends(press.form, FALSE) # Sends(press.form, TRUE)}

Init ==
    /\ kind \in Kinds
    /\ routed = [press \in {p.name : p \in Presses} |->
                   LET p == CHOOSE p \in Presses : p.name = press IN
                   [filled \in Fillings(p) |-> [t \in Tab |-> Verdict(p, filled, t)]]]
    /\ status = IF HasDocument THEN Created[kind] ELSE "none"
    /\ shown = [t \in Tab |-> IF HasDocument THEN "nothing" ELSE "none"]
    /\ requests = [s \in Slot |-> Free]

\* The user opens the page or reloads it.
Load(t) ==
    /\ "load" \in DOMAIN routed
    /\ ~Waits(t)
    /\ Ask(t, "load", FALSE)
    /\ UNCHANGED <<kind, routed, status, shown>>

\* A click on a button the page offers for the status it shows, with the
\* boxes of its form left blank or filled in.
Click(t, press, filled) ==
    /\ shown[t] \in press.when
    /\ Pages[kind].disables => ~Waits(t)
    /\ filled \in DOMAIN routed[press.name]
    /\ Ask(t, press.name, filled)
    /\ UNCHANGED <<kind, routed, status, shown>>

\* The answer to a request, and whether the tab had shown another status.
Answered(s, answer) ==
    requests' = [requests EXCEPT ![s] =
        [phase |-> "answered", tab |-> requests[s].tab, name |-> requests[s].name,
         answer |-> answer, stale |-> requests[s].showed # status]]

\* What the handler does: it reads, it moves the status, or it refuses.
Handle(s) ==
    LET moves == MovesOf(requests[s].name)
        fits  == {move \in moves : status \in move.from} IN
    \/ /\ moves = {}
       /\ Answered(s, IF requests[s].name = "load" THEN status ELSE "done")
       /\ UNCHANGED status
    \/ \E move \in fits : status' = move.to /\ Answered(s, "done")
    \/ /\ \E move \in fits : move.may
       /\ Answered(s, "declined")
       /\ UNCHANGED status
    \/ /\ moves # {} /\ fits = {}
       /\ Answered(s, "refused")
       /\ UNCHANGED status

Serve(s) ==
    /\ requests[s].phase = "asked"
    /\ LET answer == routed[requests[s].name][requests[s].filled][requests[s].tab].answer IN
       IF answer = "handled" THEN Handle(s) ELSE Answered(s, answer) /\ UNCHANGED status
    /\ UNCHANGED <<kind, routed, shown>>

\* A load shows what it read, or keeps what was shown when it was refused.
Show(s) ==
    /\ requests[s].phase = "answered"
    /\ requests[s].name = "load"
    /\ shown' = IF requests[s].answer \in Statuses
               THEN [shown EXCEPT ![requests[s].tab] = requests[s].answer]
               ELSE shown
    /\ requests' = [requests EXCEPT ![s] = Free]
    /\ UNCHANGED <<kind, routed, status>>

\* After a press that was done the page loads again; after any other answer
\* it shows the message and keeps the status it had.
React(s) ==
    /\ requests[s].phase = "answered"
    /\ requests[s].name # "load"
    /\ LET t    == requests[s].tab
           done == requests[s].answer = "done"
           page == Pages[kind] IN
       /\ requests' = [requests EXCEPT ![s] =
             IF done /\ page.loads # <<>> /\ ~page.closes
             THEN [phase |-> "asked", tab |-> t, name |-> "load", filled |-> FALSE,
                   showed |-> shown[t]]
             ELSE Free]
       /\ shown' = IF done /\ page.closes THEN [shown EXCEPT ![t] = "nothing"] ELSE shown
    /\ UNCHANGED <<kind, routed, status>>

\* The connection fails, before the server reads the request or after: the
\* page shows an error and nothing else changes.
Lose(s) ==
    /\ requests[s] # Free
    /\ requests' = [requests EXCEPT ![s] = Free]
    /\ UNCHANGED <<kind, routed, status, shown>>

\* Another client moves the document.
Elsewhere ==
    /\ HasDocument
    /\ \E move \in Moves[kind] : status \in move.from /\ status' = move.to
    /\ UNCHANGED <<kind, routed, shown, requests>>

Next ==
    \/ \E t \in Tab : Load(t)
    \/ \E t \in Tab, press \in Pages[kind].presses, filled \in BOOLEAN : Click(t, press, filled)
    \/ \E s \in Slot : Serve(s) \/ Show(s) \/ React(s) \/ Lose(s)
    \/ Elsewhere

Spec == Init /\ [][Next]_vars

-----------------------------------------------------------------------------
TypeOK ==
    /\ kind \in Kinds
    /\ status \in Statuses
    /\ shown \in [Tab -> Statuses \cup {"nothing"}]
    /\ \A s \in Slot : requests[s] # Free => requests[s].tab \in Tab

(* The buttons whose request no route of the server takes.                 *)
Misaddressed ==
    {<<"estimate", "convert">>, <<"recurringInvoices", "generate">>,
     <<"opportunity", "activities">>, <<"fixedAsset", "run-depreciation">>,
     <<"companies", "createGroup">>, <<"companies", "addTenant">>, <<"companies", "removeTenant">>}
    \cup {"newMileage", "newCostCode", "newProduct", "newAdjustment", "newTransfer", "newLocation",
          "newEmployee", "newPayroll", "newBankRule", "newTaxRate", "onboarding"} \X {"save"}

(* The buttons whose body does not fit the class of their route, as it     *)
(* always is or with every box filled in.                                  *)
Misfitting ==
    {<<"bill", "pay">>, <<"workOrder", "record-materials">>, <<"workOrder", "record-labor">>,
     <<"workOrder", "complete">>, <<"fixedAsset", "dispose">>, <<"templates", "saveEdit">>,
     <<"settings", "save">>, <<"settings", "savePaymentMethods">>, <<"settings", "savePlaid">>}
    \cup {"newBill", "newCreditNote", "newEstimate", "newExpense", "newRecurringExpense",
          "newBudget", "newContact", "newBom", "newWorkOrder", "newOpportunity", "newFixedAsset",
          "newMaintenance", "newMaintenanceSchedule", "newEquipment"} \X {"save"}

(* The buttons a page offers in a status in which the service refuses.     *)
OfferedTooOften ==
    {<<"creditNote", "void">>, <<"opportunity", "win">>, <<"opportunity", "lose">>}

(* A press is refused for the status of the document only when something   *)
(* changed it after the page was loaded: another client, the other tab, or *)
(* an earlier press whose answer is not shown yet or was lost; a request   *)
(* that reaches no handler is of a button known not to work; and a press   *)
(* that moved the document left an audit_log row.  (The conditions of the  *)
(* buttons in the pages, the guards of the services, the routes and the    *)
(* DTOs.)                                                                  *)
OffersAnswered ==
    \A s \in Slot : requests[s].phase = "answered" =>
        LET request == requests[s]
            button  == <<kind, request.name>> IN
        /\ request.answer = "refused" => request.stale \/ button \in OfferedTooOften
        /\ request.answer = "noRoute" => request.name = "load" \/ button \in Misaddressed
        /\ request.answer = "invalid" => button \in Misfitting
        /\ request.answer = "done" /\ MovesOf(request.name) # {}
           => \A t \in Tab : routed[request.name][FALSE][t].logged
=============================================================================
