------------------------------ MODULE Billing -------------------------------
(***************************************************************************)
(* Where invoices come from: EstimatesService (quotes, and their           *)
(* conversion), RecurringInvoicesService (templates, and the invoices      *)
(* generated from them) and direct creates, all numbering the invoices of  *)
(* one tenant with their own copy of nextInvoiceNumber.                    *)
(*                                                                         *)
(* A handler that touches one document only is one action.  A handler that *)
(* numbers what it creates is three: it reads its document, it reads the   *)
(* last number, it commits; the reads see the last committed state.  With  *)
(* Exclusive, no two requests are on the same document at once.            *)
(***************************************************************************)
EXTENDS Sequences, FiniteSets, Calendar

CONSTANTS
  Req,          \* request slots: numbering requests in flight together
  Exclusive,    \* whether requests on one document never overlap
  Content,      \* what an estimate quotes: customer, lines, tax and totals
  NoContent,    \* nothing quoted
  Plan,         \* the frequency, next_run_date and auto_send clients send
  MaxEstimates, MaxTemplates, MaxInvoices    \* bounds

AllFrequencies == {"weekly", "biweekly", "monthly", "quarterly", "annually"}

ASSUME BillingAssumption ==
  /\ Exclusive \in BOOLEAN /\ NoContent \notin Content
  /\ Plan \subseteq [frequency: AllFrequencies, next: Date, auto_send: BOOLEAN]
  /\ MaxEstimates \in Nat /\ MaxTemplates \in Nat /\ MaxInvoices \in Nat

VARIABLES
  est,    \* estimates with their lines; id = position
  rec,    \* recurring_invoices with their lines; id = position
  inv,    \* invoices; id = position
  txn     \* per slot: the request, its next statement, what it read

vars == <<est, rec, inv, txn>>

-----------------------------------------------------------------------------
(* Rows.  A deleted row keeps its id, which is never used again.           *)

\* "agreed" is history: what the quote said when it was accepted.
Estimate == [number: Nat, content: Content,
             status: {"draft", "sent", "accepted", "rejected", "converted", "deleted"},
             invoice: Nat, agreed: Content \cup {NoContent}]

\* "runs" is history: the run dates invoiced since the template was edited.
Template == [status: {"active", "paused", "deleted"},
             frequency: AllFrequencies, next: Date, auto_send: BOOLEAN,
             runs: Seq(Date)]

\* "source" and "of" are history: the document the invoice was made from.
\* What an invoice says is only followed from an estimate.
Invoice == [number: Nat, content: Content \cup {NoContent}, status: {"draft", "sent"},
            source: {"direct", "estimate", "template"}, of: Nat]

Idle == [op |-> "none", pc |-> "idle", id |-> 0, doc |-> <<>>, num |-> 0]

Init == /\ est = <<>> /\ rec = <<>> /\ inv = <<>>
        /\ txn = [r \in Req |-> Idle]

\* Operations that work on an estimate, on a template.
OnEstimate == {"convert"}
OnTemplate == {"generate"}

Free(ops, id) == Exclusive => \A r \in Req : txn[r].op \notin ops \/ txn[r].id # id

-----------------------------------------------------------------------------
(* Estimates.                                                              *)

SetEstimate(e, row) == est' = [est EXCEPT ![e] = row] /\ UNCHANGED <<rec, inv, txn>>

Editable == {"draft", "sent"}

\* PUT /estimates/:id.
UpdateEstimate(e, c) ==
  /\ est[e].status \in Editable /\ Free(OnEstimate, e)
  /\ SetEstimate(e, [est[e] EXCEPT !.content = c])

SendEstimate(e) ==
  /\ est[e].status = "draft" /\ Free(OnEstimate, e)
  /\ SetEstimate(e, [est[e] EXCEPT !.status = "sent"])

AcceptEstimate(e) ==
  /\ est[e].status = "sent" /\ Free(OnEstimate, e)
  /\ SetEstimate(e, [est[e] EXCEPT !.status = "accepted", !.agreed = est[e].content])

RejectEstimate(e) ==
  /\ est[e].status = "sent" /\ Free(OnEstimate, e)
  /\ SetEstimate(e, [est[e] EXCEPT !.status = "rejected"])

DeleteEstimate(e) ==
  /\ est[e].status # "deleted" /\ Free(OnEstimate, e)
  /\ SetEstimate(e, [est[e] EXCEPT !.status = "deleted"])

-----------------------------------------------------------------------------
(* Recurring templates.                                                    *)

\* Fault: a month is four weeks.
AdvanceNextRunDateFault(date, frequency) ==
  CASE frequency = "weekly"    -> AddDays(date, 7)
    [] frequency = "biweekly"  -> AddDays(date, 14)
    [] frequency = "monthly"   -> AddDays(date, 28)
    [] frequency = "quarterly" -> AddMonths(date, 3)
    [] frequency = "annually"  -> AddMonths(date, 12)

AdvanceNextRunDate(date, frequency) ==
  CASE frequency = "weekly"    -> AddDays(date, 7)
    [] frequency = "biweekly"  -> AddDays(date, 14)
    [] frequency = "monthly"   -> AddMonths(date, 1)
    [] frequency = "quarterly" -> AddMonths(date, 3)
    [] frequency = "annually"  -> AddMonths(date, 12)

SetTemplates(rows) == rec' = rows /\ UNCHANGED <<est, inv, txn>>

Row(p, status) ==
  [status |-> status, frequency |-> p.frequency, next |-> p.next,
   auto_send |-> p.auto_send, runs |-> <<>>]

CreateTemplate(p) ==
  /\ Len(rec) < MaxTemplates
  /\ SetTemplates(Append(rec, Row(p, "active")))

\* PUT /recurring-invoices/:id sends the whole template, next_run_date too.
UpdateTemplate(t, p) ==
  /\ rec[t].status \in {"active", "paused"} /\ Free(OnTemplate, t)
  /\ SetTemplates([rec EXCEPT ![t] = Row(p, rec[t].status)])

PauseTemplate(t) ==
  /\ rec[t].status = "active" /\ Free(OnTemplate, t)
  /\ SetTemplates([rec EXCEPT ![t].status = "paused"])

ResumeTemplate(t) ==
  /\ rec[t].status = "paused" /\ Free(OnTemplate, t)
  /\ SetTemplates([rec EXCEPT ![t].status = "active"])

DeleteTemplate(t) ==
  /\ rec[t].status # "deleted" /\ Free(OnTemplate, t)
  /\ SetTemplates([rec EXCEPT ![t].status = "deleted"])

-----------------------------------------------------------------------------
(* The handlers that number what they create: first read.                  *)

Begin(r, op, id, doc) ==
  /\ txn[r].pc = "idle"
  /\ txn' = [txn EXCEPT ![r] = [Idle EXCEPT !.op = op, !.pc = "number", !.id = id,
                                            !.doc = doc]]
  /\ UNCHANGED <<est, rec, inv>>

BeginQuote(r, c) == Begin(r, "quote", 0, [content |-> c])
BeginDirect(r)   == Begin(r, "direct", 0, <<>>)

\* Fault: an estimate may be converted again.
ConvertibleFault == {"draft", "sent", "accepted", "converted"}

Convertible == {"draft", "sent", "accepted"}

BeginConvert(r, e) == /\ est[e].status \in Convertible /\ Free(OnEstimate, e)
                      /\ Begin(r, "convert", e, est[e])

\* A paused template still generates; its end_date is not looked at.
BeginGenerate(r, t) == /\ rec[t].status \in {"active", "paused"} /\ Free(OnTemplate, t)
                       /\ Begin(r, "generate", t, rec[t])

(* Second read: the number after that of the row with the greatest id.     *)

Kept(rows) == {i \in DOMAIN rows : rows[i].number # 0 /\ rows[i].status # "deleted"}

NextNumber(rows) ==
  IF Kept(rows) = {} THEN 1 ELSE rows[Max(Kept(rows))].number + 1

ReadNumber(r) ==
  /\ txn[r].pc = "number"
  /\ txn' = [txn EXCEPT ![r].num = NextNumber(IF txn[r].op = "quote" THEN est ELSE inv),
                        ![r].pc = "commit"]
  /\ UNCHANGED <<est, rec, inv>>

-----------------------------------------------------------------------------
(* Commits.                                                                *)

Committing(r, op) == txn[r].pc = "commit" /\ txn[r].op = op

Finish(r) == txn' = [txn EXCEPT ![r] = Idle]

\* Fault: no unique indexes.
IsFreeFault(rows, n) == TRUE

\* The unique indexes on estimate_number and invoice_number.
IsFree(rows, n) == n \notin {rows[i].number : i \in Kept(rows)}

AddInvoice(r, content, status, source) ==
  /\ Len(inv) < MaxInvoices
  /\ IsFree(inv, txn[r].num)
  /\ inv' = Append(inv, [number |-> txn[r].num, content |-> content,
                         status |-> status, source |-> source, of |-> txn[r].id])

CommitQuote(r) ==
  /\ Committing(r, "quote") /\ Len(est) < MaxEstimates
  /\ IsFree(est, txn[r].num)
  /\ est' = Append(est, [number |-> txn[r].num, content |-> txn[r].doc.content,
                         status |-> "draft", invoice |-> 0, agreed |-> NoContent])
  /\ Finish(r)
  /\ UNCHANGED <<rec, inv>>

CommitDirect(r) == /\ Committing(r, "direct")
                   /\ AddInvoice(r, NoContent, "draft", "direct")
                   /\ Finish(r)
                   /\ UNCHANGED <<est, rec>>

\* An UPDATE of a row deleted meanwhile changes nothing.
Updated(rows, id, row) ==
  IF rows[id].status = "deleted" THEN rows ELSE [rows EXCEPT ![id] = row]

\* Fault: the insert of the invoice is lost.
CommitConvertFault(r) ==
  LET e == txn[r].id IN
  /\ Committing(r, "convert")
  /\ est' = Updated(est, e, [est[e] EXCEPT !.status = "converted",
                                           !.invoice = Len(inv) + 1])
  /\ Finish(r)
  /\ UNCHANGED <<rec, inv>>

CommitConvert(r) ==
  LET e == txn[r].id IN
  /\ Committing(r, "convert")
  /\ AddInvoice(r, txn[r].doc.content, "draft", "estimate")
  /\ est' = Updated(est, e, [est[e] EXCEPT !.status = "converted",
                                           !.invoice = Len(inv) + 1])
  /\ Finish(r)
  /\ UNCHANGED rec

\* The next run date is advanced from the one that was read.
CommitGenerate(r) ==
  LET t == txn[r].id  read == txn[r].doc IN
  /\ Committing(r, "generate")
  /\ AddInvoice(r, NoContent, IF read.auto_send THEN "sent" ELSE "draft", "template")
  /\ rec' = Updated(rec, t, [rec[t] EXCEPT
              !.next = AdvanceNextRunDate(read.next, read.frequency),
              !.runs = Append(rec[t].runs, read.next)])
  /\ Finish(r)
  /\ UNCHANGED est

\* A number already taken, or a lost connection: the transaction is undone.
Rollback(r) == txn[r].pc # "idle" /\ Finish(r) /\ UNCHANGED <<est, rec, inv>>

-----------------------------------------------------------------------------
OnDocuments ==
  \/ \E e \in DOMAIN est :
       \/ \E c \in Content : UpdateEstimate(e, c)
       \/ SendEstimate(e) \/ AcceptEstimate(e) \/ RejectEstimate(e) \/ DeleteEstimate(e)
  \/ \E p \in Plan : CreateTemplate(p) \/ \E t \in DOMAIN rec : UpdateTemplate(t, p)
  \/ \E t \in DOMAIN rec : PauseTemplate(t) \/ ResumeTemplate(t) \/ DeleteTemplate(t)

Numbering(r) ==
  \/ BeginDirect(r) \/ \E c \in Content : BeginQuote(r, c)
  \/ \E e \in DOMAIN est : BeginConvert(r, e)
  \/ \E t \in DOMAIN rec : BeginGenerate(r, t)
  \/ ReadNumber(r)
  \/ CommitQuote(r) \/ CommitDirect(r) \/ CommitConvert(r) \/ CommitGenerate(r)
  \/ Rollback(r)

Next == OnDocuments \/ \E r \in Req : Numbering(r)

Spec == Init /\ [][Next]_vars

-----------------------------------------------------------------------------
(* Properties.                                                             *)

\* Every variable has its type; an estimate links an existing invoice or none.
TypeOK == /\ est \in Seq(Estimate) /\ rec \in Seq(Template) /\ inv \in Seq(Invoice)
          /\ \A e \in DOMAIN est : est[e].invoice \in 0..Len(inv)
          /\ \A r \in Req : /\ txn[r].pc \in {"idle", "number", "commit"}
                            /\ txn[r].num \in Nat

\* Estimates, templates and direct creates race for invoice numbers, each
\* with its own nextInvoiceNumber: the invoices are still numbered 1, 2, 3 ...
\* in the order of their ids.
InvoiceNumbersConsecutive == \A i \in DOMAIN inv : inv[i].number = i

InvoicesOf(source, id) == {i \in DOMAIN inv : inv[i].source = source /\ inv[i].of = id}

\* convertToInvoice: through edits, retries, taken numbers and a later delete,
\* an estimate is invoiced once at most, a converted one links that invoice,
\* and what is invoiced is what the estimate says and the customer accepted.
QuoteHonoured ==
  \A e \in DOMAIN est :
    LET made == InvoicesOf("estimate", e) IN
    /\ Cardinality(made) <= 1
    /\ est[e].status = "converted" => made = {est[e].invoice}
    /\ est[e].status \notin {"converted", "deleted"} => made = {}
    /\ \A i \in made : /\ inv[i].content = est[e].content
                       /\ est[e].agreed \in {NoContent, inv[i].content}

\* The run dates of a template: those invoiced, and the next one.
Runs(t) == Append(rec[t].runs, rec[t].next)

Months(frequency) == CASE frequency = "monthly"   -> 1
                       [] frequency = "quarterly" -> 3
                       [] frequency = "annually"  -> 12

\* The runs of a template after which the next one is not on the same day of the
\* month: advanceNextRunDate let a day the month lacks slide into the month after.
Slips(t) == {k \in 1..(Len(Runs(t)) - 1) :
               Runs(t)[k + 1] # [m |-> Runs(t)[k].m + Months(rec[t].frequency),
                                 d |-> Runs(t)[k].d]}

\* generateNow, advanceNextRunDate: between two edits of a template no run date is
\* invoiced twice or out of order, paused or not; weekly means seven days; and a
\* day of the month (Jan 31, Mar 3) slips once at most, after which the runs stay on
\* the day they slipped to.
RunsOnSchedule ==
  \A t \in DOMAIN rec :
    /\ \A k \in 1..(Len(Runs(t)) - 1) :
         LET a == Runs(t)[k]  b == Runs(t)[k + 1] IN
         /\ Before(a, b)
         /\ rec[t].frequency = "weekly"   => DayNumber(b) - DayNumber(a) = 7
         /\ rec[t].frequency = "biweekly" => DayNumber(b) - DayNumber(a) = 14
    /\ rec[t].frequency \in {"monthly", "quarterly", "annually"} => Cardinality(Slips(t)) <= 1
=============================================================================
