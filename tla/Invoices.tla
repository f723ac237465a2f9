------------------------------ MODULE Invoices ------------------------------
(***************************************************************************)
(* The life of an invoice: InvoicesService (create, update, send, pay,     *)
(* void, payment link), the entries it writes in the journal, and the      *)
(* Stripe webhook that settles an invoice from outside.                    *)
(*                                                                         *)
(* As in Journal.tla a request is one READ COMMITTED transaction: each     *)
(* SELECT is a step that sees the last committed state, the writes are one *)
(* Commit step guarded by the constraints of the database, and a guard     *)
(* that throws, a constraint or a lost connection leave only Rollback.     *)
(* Stripe is outside the transaction: a checkout session created by a      *)
(* request that rolls back still exists and can be paid.                   *)
(***************************************************************************)
EXTENDS Integers, Sequences, FiniteSets, FiniteSetsExt, Functions

CONSTANTS
  Req,          \* request slots: transactions that may be in flight together
  Ops,          \* the operations the clients use
  Amount,       \* positive amounts: subtotals of new lines, payments
  TaxRate,      \* the values of tax_rate an update sends
  Batch,        \* sequences of terms: what a create, or batch create, sends
  Period,       \* open fiscal periods a payment may name
  NoPeriod,     \* a payment that names none
  MaxInvoices, MaxEntries, MaxSessions    \* bounds

AllOps == {"create", "lines", "tax_rate", "send", "pay", "void", "link", "webhook"}

ASSUME InvoicesAssumption ==
  /\ Ops \subseteq AllOps
  /\ Amount \subseteq Nat \ {0} /\ TaxRate \subseteq Nat
  /\ Batch \subseteq Seq([subtotal: Nat, tax_rate: Nat, discount: Nat, shipping: Nat])
  /\ NoPeriod \notin Period
  /\ MaxInvoices \in Nat /\ MaxEntries \in Nat /\ MaxSessions \in Nat

VARIABLES
  inv,        \* invoices; id = position
  je,         \* the journal entries of payments and of their reversals
  session,    \* Stripe checkout sessions
  events,     \* sessions whose completion Stripe still has to deliver
  txn         \* per slot: the operation, its next statement, what it read

vars == <<inv, je, session, events, txn>>

-----------------------------------------------------------------------------
Status == {"draft", "sent", "paid", "voided"}

\* What the total is made of: subtotal stands for the lines, tax_rate is in
\* percent, and the discount is a fixed one.
Terms   == [subtotal: Nat, tax_rate: Nat, discount: Nat, shipping: Nat]
NoTerms == [subtotal |-> 0, tax_rate |-> 0, discount |-> 0, shipping |-> 0]

\* "je" is journal_entry_id and "link" is stripe_session_id, 0 when NULL.
Invoice == [number: Nat, status: Status, terms: Terms, total: Int, paid: Nat,
            je: Nat, link: Nat]

\* "inv" and "reverses" are history: the invoice, and the entry reversed or 0.
Entry == [period: Period, number: Nat, status: {"posted", "voided"}, amount: Nat,
          inv: Nat, reverses: Nat]

Session == [inv: Nat, amount: Nat, state: {"open", "complete"}]

Idle == [op |-> "none", pc |-> "idle", id |-> 0, batch |-> <<>>, amount |-> 0,
         terms |-> NoTerms, period |-> NoPeriod, num |-> 0, je |-> 0, session |-> 0]

Txn == [op: AllOps \cup {"none"},
        pc: {"idle", "last", "invoice", "entry", "number", "stripe", "commit"},
        id: Nat, batch: Seq(Terms), amount: Int, terms: Terms, period: Period \cup {NoPeriod},
        num: Nat, je: Nat, session: Nat]

Init == /\ inv = <<>> /\ je = <<>> /\ session = <<>>
        /\ events = {}
        /\ txn = [r \in Req |-> Idle]

Begin(r, op, t) == /\ op \in Ops
                   /\ txn[r].pc = "idle"
                   /\ txn' = [txn EXCEPT ![r] = [t EXCEPT !.op = op]]
                   /\ UNCHANGED <<inv, je, session, events>>

BeginCreate(r) ==
  \E b \in Batch : Begin(r, "create", [Idle EXCEPT !.pc = "last", !.batch = b])

\* An update sends new lines, or another tax rate.
BeginUpdate(r) ==
  \E i \in DOMAIN inv :
    \/ \E a \in Amount :
         Begin(r, "lines", [Idle EXCEPT !.pc = "invoice", !.id = i, !.amount = a])
    \/ \E a \in TaxRate :
         Begin(r, "tax_rate", [Idle EXCEPT !.pc = "invoice", !.id = i, !.amount = a])

BeginPay(r) ==
  \E i \in DOMAIN inv, a \in Amount, p \in Period \cup {NoPeriod} :
    Begin(r, "pay", [Idle EXCEPT !.pc = "invoice", !.id = i, !.amount = a, !.period = p])

BeginOnInvoice(r, op) ==
  /\ op \in {"send", "void", "link"}
  /\ \E i \in DOMAIN inv : Begin(r, op, [Idle EXCEPT !.pc = "invoice", !.id = i])

\* Fault: the webhook does not look at the type of the event.
BeginWebhookFault(r) ==
  \E s \in DOMAIN session :
    Begin(r, "webhook", [Idle EXCEPT !.pc = "invoice", !.id = session[s].inv,
                                     !.amount = session[s].amount, !.session = s])

\* Stripe delivers, or delivers again, the completion of a session.
BeginWebhook(r) ==
  \E s \in events :
    Begin(r, "webhook", [Idle EXCEPT !.pc = "invoice", !.id = session[s].inv,
                                     !.amount = session[s].amount, !.session = s])

-----------------------------------------------------------------------------
(* The reads.                                                              *)

Advance(r, t) == /\ txn' = [txn EXCEPT ![r] = t]
                 /\ UNCHANGED <<inv, je, session, events>>

\* nextInvoiceNumber: the number of the last invoice by id, plus one.
ReadLastInvoice(r) ==
  LET t == txn[r] IN
  /\ t.pc = "last"
  /\ Advance(r, [t EXCEPT !.num = IF inv = <<>> THEN 1 ELSE inv[Len(inv)].number + 1,
                          !.pc = "commit"])

\* Fault: send and update do not look at the status.
AllowedStatusFault(op) ==
  CASE op \in {"lines", "tax_rate", "send"} -> Status
    [] op = "pay"                           -> {"draft", "sent"}
    [] op \in {"link", "webhook"}           -> {"draft", "sent"}
    [] op = "void"                          -> Status \ {"voided"}

\* The status each handler accepts.
AllowedStatus(op) ==
  CASE op \in {"lines", "tax_rate", "send"} -> {"draft"}
    [] op = "pay"                           -> {"draft", "sent"}
    [] op \in {"link", "webhook"}           -> {"draft", "sent"}
    [] op = "void"                          -> Status \ {"voided"}

\* Every other handler starts by reading the invoice.  What the request of an
\* update does not send is taken from there; a link is for the total read.
ReadInvoice(r) ==
  LET t == txn[r]  i == inv[t.id] IN
  /\ t.pc = "invoice"
  /\ i.status \in AllowedStatus(t.op)
  /\ Advance(r, [t EXCEPT
       !.je = i.je,
       !.terms = CASE t.op = "lines"    -> [i.terms EXCEPT !.subtotal = t.amount]
                   [] t.op = "tax_rate" -> [i.terms EXCEPT !.tax_rate = t.amount]
                   [] OTHER             -> NoTerms,
       !.amount = IF t.op = "link" THEN i.total ELSE t.amount,
       !.pc = CASE t.op = "pay" /\ t.period # NoPeriod -> "number"
                [] t.op = "void" /\ i.je # 0           -> "entry"
                [] t.op = "link"                       -> "stripe"
                [] OTHER                               -> "commit"])

\* The webhook answers 200 and does nothing for a settled invoice.
SkipWebhook(r) ==
  LET t == txn[r] IN
  /\ t.pc = "invoice" /\ t.op = "webhook"
  /\ inv[t.id].status \in {"paid", "voided"}
  /\ txn' = [txn EXCEPT ![r] = Idle]
  /\ events' \in {events, events \ {t.session}}
  /\ UNCHANGED <<inv, je, session>>

\* void reads the entry of the invoice: a posted one has to be reversed, in
\* the period it was posted to.
ReadEntry(r) ==
  LET t == txn[r]  e == je[t.je] IN
  /\ t.pc = "entry"
  /\ Advance(r, IF e.status = "posted"
                THEN [t EXCEPT !.period = e.period, !.amount = e.amount, !.pc = "number"]
                ELSE [t EXCEPT !.je = 0, !.pc = "commit"])

Numbers(p) == {je[k].number : k \in {m \in DOMAIN je : je[m].period = p}}

\* The next entry number of the period (for pay, after the period was found
\* open; Journal.tla has the periods).
ReadNumber(r) ==
  LET t == txn[r] IN
  /\ t.pc = "number"
  /\ Advance(r, [t EXCEPT !.num = Max(Numbers(t.period) \cup {0}) + 1, !.pc = "commit"])

\* generatePaymentLink calls Stripe from inside the transaction; Stripe takes
\* no negative amount.
CreateSession(r) ==
  LET t == txn[r] IN
  /\ t.pc = "stripe"
  /\ Len(session) < MaxSessions /\ t.amount >= 0
  /\ session' = Append(session, [inv |-> t.id, amount |-> t.amount, state |-> "open"])
  /\ txn' = [txn EXCEPT ![r].session = Len(session) + 1, ![r].pc = "commit"]
  /\ UNCHANGED <<inv, je, events>>

-----------------------------------------------------------------------------
(* The writes.                                                             *)

Finish(r) == txn' = [txn EXCEPT ![r] = Idle]

Committing(r, op) == txn[r].pc = "commit" /\ txn[r].op = op

\* Fault: no unique index on the invoice number.
InvoiceNumberIsFreeFault(n) == TRUE

\* invoices_tenant_number_uniq.
InvoiceNumberIsFree(n) == n \notin {inv[i].number : i \in DOMAIN inv}

\* idx_je_entry_number.
EntryNumberIsFree(p, n) == n \notin Numbers(p)

Taxable(d) == d.subtotal - d.discount

\* computeTotals: the tax is rounded to the cent.
Total(d) == Taxable(d) + (2 * Taxable(d) * d.tax_rate + 100) \div 200 + d.shipping

Draft(number, d) == [number |-> number, status |-> "draft", terms |-> d,
                     total |-> Total(d), paid |-> 0, je |-> 0, link |-> 0]

\* A batch is created in one transaction, which sees its own inserts.
CommitCreate(r) ==
  LET t == txn[r] IN
  /\ Committing(r, "create")
  /\ Len(inv) + Len(t.batch) <= MaxInvoices
  /\ \A k \in DOMAIN t.batch : InvoiceNumberIsFree(t.num + k - 1)
  /\ inv' = inv \o [k \in DOMAIN t.batch |-> Draft(t.num + k - 1, t.batch[k])]
  /\ Finish(r)
  /\ UNCHANGED <<je, session, events>>

\* The columns an update writes in row i: both kinds write the tax rate.
Revised(i, t) ==
  [i EXCEPT !.total = Total(t.terms),
            !.terms.tax_rate = t.terms.tax_rate,
            !.terms.subtotal = IF t.op = "lines" THEN t.terms.subtotal ELSE @]

\* Fault: the total is not recalculated when only the tax rate changes.
CommitUpdateFault(r) ==
  LET t == txn[r] IN
  /\ t.pc = "commit" /\ t.op \in {"lines", "tax_rate"}
  /\ inv' = IF t.op = "lines" THEN [inv EXCEPT ![t.id] = Revised(@, t)]
            ELSE [inv EXCEPT ![t.id].terms.tax_rate = t.amount]
  /\ Finish(r)
  /\ UNCHANGED <<je, session, events>>

\* The total is that of the terms put together when the row was read.
CommitUpdate(r) ==
  LET t == txn[r] IN
  /\ t.pc = "commit" /\ t.op \in {"lines", "tax_rate"}
  /\ inv' = [inv EXCEPT ![t.id] = Revised(@, t)]
  /\ Finish(r)
  /\ UNCHANGED <<je, session, events>>

CommitSend(r) ==
  /\ Committing(r, "send")
  /\ inv' = [inv EXCEPT ![txn[r].id].status = "sent"]
  /\ Finish(r)
  /\ UNCHANGED <<je, session, events>>

\* The amount paid and the entry are overwritten, the status is not read again.
Paid(i, amount, entry) ==
  [inv EXCEPT ![i].status = "paid", ![i].paid = amount, ![i].je = entry]

CommitPayBooked(r) ==
  LET t == txn[r] IN
  /\ Committing(r, "pay") /\ t.period # NoPeriod
  /\ Len(je) < MaxEntries
  /\ EntryNumberIsFree(t.period, t.num)
  /\ je' = Append(je, [period |-> t.period, number |-> t.num, status |-> "posted",
                       amount |-> t.amount, inv |-> t.id, reverses |-> 0])
  /\ inv' = Paid(t.id, t.amount, Len(je) + 1)
  /\ Finish(r)
  /\ UNCHANGED <<session, events>>

\* Fault: the invoice links an entry that was not written.
CommitPayUnbookedFault(r) ==
  LET t == txn[r] IN
  /\ Committing(r, "pay") /\ t.period = NoPeriod
  /\ inv' = Paid(t.id, t.amount, Len(je) + 1)
  /\ Finish(r)
  /\ UNCHANGED <<je, session, events>>

\* Without a fiscal period there is no entry.
CommitPayUnbooked(r) ==
  LET t == txn[r] IN
  /\ Committing(r, "pay") /\ t.period = NoPeriod
  /\ inv' = Paid(t.id, t.amount, 0)
  /\ Finish(r)
  /\ UNCHANGED <<je, session, events>>

\* Fault: the entry of the payment stays posted.
CommitVoidReversalFault(r) ==
  LET t == txn[r] IN
  /\ Committing(r, "void") /\ t.je # 0
  /\ Len(je) < MaxEntries
  /\ EntryNumberIsFree(t.period, t.num)
  /\ je' = Append(je, [period |-> t.period, number |-> t.num, status |-> "posted",
                       amount |-> t.amount, inv |-> t.id, reverses |-> t.je])
  /\ inv' = [inv EXCEPT ![t.id].status = "voided"]
  /\ Finish(r)
  /\ UNCHANGED <<session, events>>

\* Fault: no immutability trigger.
TriggerAllowsVoidFault(e) == TRUE

\* The immutability trigger: only a posted entry can be voided.
TriggerAllowsVoid(e) == e.status = "posted"

\* The reversal and the void of the entry, with the void of the invoice.
CommitVoidReversal(r) ==
  LET t == txn[r] IN
  /\ Committing(r, "void") /\ t.je # 0
  /\ Len(je) < MaxEntries
  /\ EntryNumberIsFree(t.period, t.num)
  /\ TriggerAllowsVoid(je[t.je])
  /\ je' = Append([je EXCEPT ![t.je].status = "voided"],
                   [period |-> t.period, number |-> t.num, status |-> "posted",
                    amount |-> t.amount, inv |-> t.id, reverses |-> t.je])
  /\ inv' = [inv EXCEPT ![t.id].status = "voided"]
  /\ Finish(r)
  /\ UNCHANGED <<session, events>>

CommitVoidPlain(r) ==
  /\ Committing(r, "void") /\ txn[r].je = 0
  /\ inv' = [inv EXCEPT ![txn[r].id].status = "voided"]
  /\ Finish(r)
  /\ UNCHANGED <<je, session, events>>

CommitLink(r) ==
  /\ Committing(r, "link")
  /\ inv' = [inv EXCEPT ![txn[r].id].link = txn[r].session]
  /\ Finish(r)
  /\ UNCHANGED <<je, session, events>>

\* handleCheckoutCompleted; the 200 may not reach Stripe, which then retries.
CommitWebhook(r) ==
  LET t == txn[r] IN
  /\ Committing(r, "webhook")
  /\ inv' = [inv EXCEPT ![t.id].status = "paid", ![t.id].paid = t.amount]
  /\ events' \in {events, events \ {t.session}}
  /\ Finish(r)
  /\ UNCHANGED <<je, session>>

\* Fault: the webhook answers 200 to Stripe when its transaction fails.
RollbackFault(r) ==
  /\ txn[r].pc # "idle"
  /\ Finish(r)
  /\ events' = IF txn[r].op = "webhook" THEN events \ {txn[r].session} ELSE events
  /\ UNCHANGED <<inv, je, session>>

\* For a webhook: 500, and Stripe keeps the event.
Rollback(r) == /\ txn[r].pc # "idle"
               /\ Finish(r)
               /\ UNCHANGED <<inv, je, session, events>>

-----------------------------------------------------------------------------
\* The customer pays at Stripe.
CustomerPays(s) == /\ session[s].state = "open"
                   /\ session' = [session EXCEPT ![s].state = "complete"]
                   /\ events' = events \cup {s}
                   /\ UNCHANGED <<inv, je, txn>>

Start(r) == \/ BeginCreate(r) \/ BeginUpdate(r) \/ BeginPay(r) \/ BeginWebhook(r)
            \/ \E op \in Ops : BeginOnInvoice(r, op)

Read(r) == \/ ReadLastInvoice(r) \/ ReadInvoice(r) \/ SkipWebhook(r)
           \/ ReadEntry(r) \/ ReadNumber(r) \/ CreateSession(r)

Commit(r) == \/ CommitCreate(r) \/ CommitUpdate(r) \/ CommitSend(r)
             \/ CommitPayBooked(r) \/ CommitPayUnbooked(r)
             \/ CommitVoidReversal(r) \/ CommitVoidPlain(r)
             \/ CommitLink(r) \/ CommitWebhook(r)

Next == \/ \E r \in Req : Start(r) \/ Read(r) \/ Commit(r) \/ Rollback(r)
        \/ \E s \in DOMAIN session : CustomerPays(s)

Spec == Init /\ [][Next]_vars

\* A request in flight ends; Stripe keeps delivering; and a delivery that is
\* retried for ever is not undone by the database every time.
Fairness == \A r \in Req : /\ WF_vars(Read(r) \/ Commit(r) \/ Rollback(r))
                           /\ SF_vars(BeginWebhook(r))
                           /\ SF_vars(ReadInvoice(r) /\ txn[r].op = "webhook")
                           /\ SF_vars(SkipWebhook(r))
                           /\ SF_vars(CommitWebhook(r))

FairSpec == Spec /\ Fairness

-----------------------------------------------------------------------------
(* Properties.                                                             *)

\* Every variable has its type, and an invoice links an existing entry and
\* checkout session or none.
TypeOK == /\ \A i \in DOMAIN inv : inv[i].je \in 0..Len(je) /\ inv[i].link \in 0..Len(session)
          /\ inv \in Seq(Invoice) /\ je \in Seq(Entry) /\ session \in Seq(Session)
          /\ events \subseteq DOMAIN session
          /\ txn \in [Req -> Txn]

\* However many creates and batches race, the invoices of a tenant are
\* numbered 1, 2, 3 ... in the order of their ids: nextInvoiceNumber's stale
\* read costs a failed request, never a gap or a duplicate.
InvoiceNumbersConsecutive == \A i \in DOMAIN inv : inv[i].number = i

\* Two voids of one invoice, or of two invoices that share an entry, never
\* reverse a payment twice; a voided entry has its reversal, of its amount.
PaymentReversedOnce ==
  \A k \in DOMAIN je :
    LET rev == {m \in DOMAIN je : je[m].reverses = k} IN
    /\ Cardinality(rev) = (IF je[k].status = "voided" THEN 1 ELSE 0)
    /\ \A m \in rev : je[m].amount = je[k].amount /\ je[m].period = je[k].period

\* Stripe's at-least-once delivery is harmless among itself: an invoice that
\* no one pays by hand carries the amount of a checkout its customer really
\* completed, and has been settled by it.
PaidByCheckout ==
  "pay" \notin Ops =>
    \A i \in DOMAIN inv : inv[i].paid # 0 =>
      \E s \in DOMAIN session : /\ session[s].inv = i
                                /\ session[s].state = "complete"
                                /\ session[s].amount = inv[i].paid

\* The payments of an invoice that are in the ledger and not reversed.
Booked(i) == {k \in DOMAIN je : je[k].inv = i /\ je[k].reverses = 0
                                /\ je[k].status = "posted"}

\* voidInvoice ("creates reversal journal entry if one exists"): a voided
\* invoice has no payment left in the ledger.
VoidReversesPayment ==
  \A i \in DOMAIN inv : inv[i].status = "voided" => Booked(i) = {}

\* update ("Recalculate totals if lines, tax_rate, discount, or shipping
\* changed"): however an invoice was edited, its total is that of the lines,
\* rate, discount and shipping now stored with it, as PDF and client see them.
TotalMatchesTerms == \A i \in DOMAIN inv : inv[i].total = Total(inv[i].terms)

\* handleCheckoutCompleted: once a customer has completed a checkout, its
\* invoice is eventually paid (or voided), through lost answers, failed
\* transactions and repeated deliveries.
CheckoutSettles ==
  \A s \in 1..MaxSessions :
    (s \in DOMAIN session /\ session[s].state = "complete")
      ~> (s \in DOMAIN session /\ inv[session[s].inv].status \in {"paid", "voided"})

\* What an invoice can be made of: terms sent, and later edits of them.
Sent == UNION {Range(b) : b \in Batch}
Subtotals == Amount \cup {d.subtotal : d \in Sent}
Rates     == TaxRate \cup {d.tax_rate : d \in Sent}
Form(d, a, q) == [d EXCEPT !.subtotal = a, !.tax_rate = q]
Documents == {Form(d, a, q) : d \in Sent, a \in Subtotals, q \in Rates}
Charged == Amount \cup {Total(d) : d \in Documents}

\* What the ledger still carries for an invoice.
Carried(e, S) == MapThenSumSet(LAMBDA k : e[k].amount, S)
InLedger(i)   == Carried(je, Booked(i))

\* One request at a time, invoicing implements Receivable.
Doc == [i \in DOMAIN inv |->
          [status |-> inv[i].status, total |-> inv[i].total, booked |-> InLedger(i)]]
R == INSTANCE Receivable WITH Amount <- Charged, Most <- MaxInvoices, doc <- Doc
ImplementsReceivable == R!Spec
=============================================================================
