----------------------------- MODULE BankRules -----------------------------
(***************************************************************************)
(* Bank rules (BankRuleService): kept in a table, and applied to the open  *)
(* transactions of a bank account, each of which gets the suggestion of    *)
(* the first rule it matches.  A description is a set of words.            *)
(***************************************************************************)
EXTENDS Integers, FiniteSets, Functions

CONSTANTS
  Slot,       \* rows a rule may have
  Priority,
  Condition,  \* field, operator and value of a condition; a number is NaN or in "number"
  Words,      \* what a description may contain
  Amounts,
  Kinds,      \* the types of a bank transaction
  MaxConditions

NaN == -1

\* What the constants have to satisfy (CreateBankRuleDto).
BankRulesAssumption == Priority \subseteq Nat

VARIABLE rules   \* bank_rules: the priority, the set of conditions and is_active

vars == <<rules>>

BankRule == [priority: Priority, conditions: SUBSET Condition, active: BOOLEAN]

Transaction == [description: SUBSET Words, amount: Amounts, type: Kinds]

\* A condition with a field or an operator matchesRule does not know holds of every
\* transaction; an amount that is not a number holds of none.
Holds(c, t) ==
  CASE c.field = "description" /\ c.operator = "contains" -> c.value \in t.description
    [] c.field = "description" /\ c.operator = "equals" -> t.description = {c.value}
    [] c.field = "amount" -> /\ c.number # NaN
                             /\ c.operator = "greater_than" => t.amount > c.number
                             /\ c.operator = "less_than" => t.amount < c.number
                             /\ c.operator = "equals" => t.amount = c.number
    [] c.field = "type" /\ c.operator = "equals" -> t.type = c.value
    [] OTHER -> TRUE

MatchesRule(r, t) == \A c \in r.conditions : Holds(c, t)

Matches(t) == {s \in DOMAIN rules : rules[s].active /\ MatchesRule(rules[s], t)}

\* testRule and applyRules: ORDER BY priority says nothing of two rules of one
\* priority, so that each of them may be the first.
Suggestions(t) == {s \in Matches(t) : \A o \in Matches(t) : rules[s].priority <= rules[o].priority}

Init == rules = <<>>

Bounded(r) == Cardinality(r.conditions) <= MaxConditions

\* create: a rule is active.
Create(s, r) == /\ s \notin DOMAIN rules /\ r.active /\ Bounded(r)
                /\ rules' = [x \in DOMAIN rules \union {s} |-> IF x = s THEN r ELSE rules[x]]

\* update: any of the fields, the conditions as a whole.
Update(s, r) == s \in DOMAIN rules /\ Bounded(r) /\ rules' = [rules EXCEPT ![s] = r]

Delete(s) == s \in DOMAIN rules /\ rules' = Restrict(rules, DOMAIN rules \ {s})

Next == \E s \in Slot : Delete(s) \/ \E r \in BankRule : Create(s, r) \/ Update(s, r)

Spec == Init /\ [][Next]_vars

-----------------------------------------------------------------------------
(* Properties.                                                             *)

\* applyRules: a transaction that some active rule matches has a suggestion, and
\* one only when priorities differ; of two rules one of which asks for all that the
\* other asks for and more, the broader one hides the narrower one exactly when it
\* comes first.
NarrowerRuleHidden ==
  \A t \in Transaction :
    /\ Suggestions(t) = {} <=> Matches(t) = {}
    /\ \A a, b \in DOMAIN rules :
         /\ a \in Suggestions(t) /\ b \in Suggestions(t) => rules[a].priority = rules[b].priority
         /\ (rules[a].conditions \subseteq rules[b].conditions /\ rules[a].active
             /\ rules[a].priority < rules[b].priority) => b \notin Suggestions(t)
=============================================================================
