--------------------------- MODULE BillingProofs ----------------------------
(***************************************************************************)
(* Proofs about Billing.tla, for every number of requests and documents:   *)
(* the types, the numbering of invoices whoever creates them, and, when    *)
(* requests on one document do not overlap, that an estimate is invoiced   *)
(* once and as accepted and that a template runs on its schedule.          *)
(***************************************************************************)
EXTENDS Billing, SetLemmas, SequenceTheorems, TLAPS

-----------------------------------------------------------------------------
(* The inductive invariant.                                                *)

Op == {"none", "quote", "direct", "convert", "generate"}

\* A request works on a document that exists, and has read one; the number it
\* gives an invoice is at most the next one.
TxnGood(t) ==
  /\ t \in [op: Op, pc: {"idle", "number", "commit"}, id: Nat, doc: {t.doc}, num: Nat]
  /\ t.pc = "idle" <=> t.op = "none"
  /\ t.op = "quote" => t.doc \in [content: Content]
  /\ t.op = "convert" => t.id \in DOMAIN est /\ t.doc \in Estimate
  /\ t.op = "generate" => t.id \in DOMAIN rec /\ t.doc \in Template
  /\ t.pc = "commit" /\ t.op # "quote" => t.num \in 1..(Len(inv) + 1)

TxnOK == txn = [r \in Req |-> txn[r]] /\ \A r \in Req : TxnGood(txn[r])

IInv == TypeOK /\ TxnOK /\ InvoiceNumbersConsecutive

-----------------------------------------------------------------------------
(* Types of what the operators return.                                     *)

LEMMA LengthOfMonth ==
  ASSUME NEW m \in Nat
  PROVE  MonthLength(m) \in 28..31
  BY DEF MonthLength

LEMMA AdvancedType ==
  ASSUME NEW date \in Date, NEW f \in AllFrequencies
  PROVE  AdvanceNextRunDate(date, f) \in Date
  <1>1. ASSUME NEW m \in Nat, NEW d \in 1..45 PROVE Carried(m, d) \in Date
    <2>1. MonthLength(m) \in 28..31
      BY LengthOfMonth
    <2> HIDE DEF MonthLength
    <2>2. CASE d > MonthLength(m)
      <3>1. d - MonthLength(m) \in 1..31 /\ m + 1 \in Nat
        BY <2>1, <2>2
      <3> QED
        BY <2>2, <3>1 DEF Carried, Date
    <2>3. CASE ~(d > MonthLength(m))
      <3>1. d \in 1..31
        BY <2>1, <2>3
      <3> QED
        BY <2>3, <3>1 DEF Carried, Date
    <2> QED
      BY <2>2, <2>3
  <1>2. date.m \in Nat /\ date.d \in 1..31
    BY DEF Date
  <1>3. /\ date.d + 7 \in 1..45 /\ date.d + 14 \in 1..45 /\ date.d \in 1..45
        /\ date.m + 1 \in Nat /\ date.m + 3 \in Nat /\ date.m + 12 \in Nat
    BY <1>2
  <1>4. /\ Carried(date.m, date.d + 7) \in Date
        /\ Carried(date.m, date.d + 14) \in Date
        /\ Carried(date.m + 1, date.d) \in Date
        /\ Carried(date.m + 3, date.d) \in Date
        /\ Carried(date.m + 12, date.d) \in Date
    BY <1>1, <1>2, <1>3
  <1> HIDE DEF Carried
  <1> QED
    BY <1>4 DEF AdvanceNextRunDate, AddDays, AddMonths, AllFrequencies

\* The number after the last is a number, whatever was deleted.
LEMMA NextEstimateType ==
  ASSUME TypeOK
  PROVE  NextNumber(est) \in Nat
  <1>1. CASE Kept(est) = {}
    BY <1>1 DEF NextNumber
  <1>2. CASE Kept(est) # {}
    <2>1. Kept(est) \in SUBSET Nat /\ \A k \in Kept(est) : k <= Len(est)
      BY DEF TypeOK, Kept
    <2>2. Len(est) \in Nat
      BY DEF TypeOK
    <2>3. IsFiniteSet(Kept(est))
      BY <2>1, <2>2, FS_BoundedSetOfNaturals
    <2>4. PICK m \in DOMAIN est : m = Max(Kept(est))
      BY <1>2, <2>1, <2>3, MaxProperty DEF Kept
    <2>5. est[m] \in Estimate
      BY DEF TypeOK
    <2>6. est[m].number + 1 \in Nat
      BY <2>5 DEF Estimate
    <2> QED
      BY <1>2, <2>4, <2>6, Zenon DEF NextNumber
  <1> QED
    BY <1>1, <1>2

\* The next invoice number is one more than the number of invoices.
LEMMA NextInvoiceNumber ==
  ASSUME TypeOK, InvoiceNumbersConsecutive
  PROVE  NextNumber(inv) = Len(inv) + 1 /\ Kept(inv) = DOMAIN inv
  <1>1. Kept(inv) = DOMAIN inv
    <2>1. ASSUME NEW i \in DOMAIN inv PROVE i \in Kept(inv)
      <3>1. inv[i] \in Invoice /\ inv[i].number = i /\ i # 0
        BY DEF TypeOK, InvoiceNumbersConsecutive
      <3> QED
        BY <3>1 DEF Kept, Invoice
    <2> QED
      BY <2>1 DEF Kept
  <1>2. Len(inv) \in Nat /\ DOMAIN inv = 1..Len(inv)
    BY DEF TypeOK
  <1>3. CASE DOMAIN inv = {}
    BY <1>1, <1>2, <1>3 DEF NextNumber
  <1>4. CASE DOMAIN inv # {}
    <2>1. /\ IsFiniteSet(1..Len(inv)) /\ 1..Len(inv) # {}
          /\ 1..Len(inv) \in SUBSET Nat /\ Len(inv) \in 1..Len(inv)
      <3>1. 0 \in Int /\ Len(inv) \in Nat
        BY <1>2
      <3>2. IsFiniteSet(1..Len(inv))
        BY <3>1, FS_Interval
      <3> QED
        BY <1>2, <1>4, <3>2
    <2>2. Max(1..Len(inv)) \in 1..Len(inv) /\ Len(inv) <= Max(1..Len(inv))
      BY <2>1, MaxProperty
    <2> HIDE DEF Max
    <2>3. Max(1..Len(inv)) = Len(inv)
      BY <1>2, <2>2
    <2>4. inv[Len(inv)].number = Len(inv)
      BY <1>2, <2>1 DEF InvoiceNumbersConsecutive
    <2> QED
      BY <1>1, <1>2, <1>4, <2>3, <2>4 DEF NextNumber
  <1> QED
    BY <1>1, <1>3, <1>4

-----------------------------------------------------------------------------
(* The steps.                                                              *)

LEMMA InitIInv == Init => IInv
  BY DEF Init, IInv, TypeOK, TxnOK, TxnGood, InvoiceNumbersConsecutive, Idle, Op

\* Nothing a request relies on is taken back: documents are never removed.
LEMMA StillGood ==
  ASSUME NEW CONSTANT t, TxnGood(t), TypeOK,
         est' \in Seq(Estimate), rec' \in Seq(Template), inv' \in Seq(Invoice),
         Len(est) <= Len(est'), Len(rec) <= Len(rec'), Len(inv) <= Len(inv')
  PROVE  TxnGood(t)'
  <1>1. DOMAIN est \subseteq DOMAIN est' /\ DOMAIN rec \subseteq DOMAIN rec'
    BY DEF TypeOK
  <1>2. 1..(Len(inv) + 1) \subseteq 1..(Len(inv') + 1)
    BY DEF TypeOK
  <1> QED
    BY <1>1, <1>2 DEF TxnGood

\* The documents that a step may leave: typed, and no fewer.
Grown ==
  /\ est' \in Seq(Estimate) /\ rec' \in Seq(Template) /\ inv' \in Seq(Invoice)
  /\ Len(est) <= Len(est') /\ Len(rec) <= Len(rec') /\ Len(inv) <= Len(inv')
  /\ \A e \in DOMAIN est' : est'[e].invoice \in 0..Len(inv')

\* It is enough that each request that changes is good afterwards.
LEMMA Establish ==
  ASSUME IInv, Grown, InvoiceNumbersConsecutive',
         txn' = [q \in Req |-> txn'[q]],
         \A q \in Req : txn'[q] = txn[q] \/ TxnGood(txn[q])'
  PROVE  IInv'
  <1>1. ASSUME NEW q \in Req PROVE TxnGood(txn[q])'
    <2>1. CASE txn'[q] = txn[q]
      <3>1. PICK u : u = txn[q]
        OBVIOUS
      <3>2. TxnGood(u) /\ TypeOK
        BY <3>1 DEF IInv, TxnOK
      <3>3. TxnGood(u)'
        BY <3>2, StillGood DEF Grown
      <3> QED
        BY <2>1, <3>1, <3>3 DEF TxnGood
    <2> QED
      BY <2>1
  <1>2. TxnOK'
    BY <1>1 DEF TxnOK
  <1>3. TypeOK'
    <2>1. \A q \in Req : /\ txn'[q].pc \in {"idle", "number", "commit"}
                         /\ txn'[q].num \in Nat
      BY <1>1 DEF TxnGood
    <2> QED
      BY <2>1 DEF TypeOK, Grown
  <1> QED
    BY <1>2, <1>3 DEF IInv

\* A step of one request.
LEMMA OneStep ==
  ASSUME IInv, Grown, InvoiceNumbersConsecutive',
         NEW r \in Req, NEW t, TxnGood(t)', txn' = [txn EXCEPT ![r] = t]
  PROVE  IInv'
  <1>1. txn' = [q \in Req |-> txn'[q]] /\ txn'[r] = t
    BY DEF IInv, TxnOK
  <1>2. \A q \in Req : q # r => txn'[q] = txn[q]
    BY DEF IInv, TxnOK
  <1>3. TxnGood(txn[r])'
    BY <1>1 DEF TxnGood
  <1> QED
    BY <1>1, <1>2, <1>3, Establish

\* A request ends.
LEMMA FinishStep ==
  ASSUME IInv, Grown, InvoiceNumbersConsecutive', NEW r \in Req, Finish(r)
  PROVE  IInv'
  <1>1. TxnGood(Idle)'
    BY DEF TxnGood, Idle, Op
  <1> QED
    BY <1>1, OneStep DEF Finish

\* A request that leaves the documents alone.
LEMMA ReadStep ==
  ASSUME IInv, NEW r \in Req, NEW t, TxnGood(t), txn' = [txn EXCEPT ![r] = t],
         UNCHANGED <<est, rec, inv>>
  PROVE  IInv'
  <1>1. Grown
    BY DEF IInv, TypeOK, Grown
  <1>2. InvoiceNumbersConsecutive'
    BY DEF IInv, InvoiceNumbersConsecutive
  <1>3. TxnGood(t)'
    BY DEF TxnGood
  <1> QED
    BY <1>1, <1>2, <1>3, OneStep

-----------------------------------------------------------------------------
(* The requests on one document.                                           *)

LEMMA SetEstimateStep ==
  ASSUME IInv, NEW e \in DOMAIN est, NEW row \in Estimate,
         row.invoice = est[e].invoice, SetEstimate(e, row)
  PROVE  IInv'
  <1>1. TypeOK /\ e \in 1..Len(est)
    BY DEF IInv, TypeOK
  <1>2. est' \in Seq(Estimate) /\ Len(est') = Len(est)
    BY <1>1, ExceptSeq DEF TypeOK, SetEstimate
  <1>3. Grown
    BY <1>1, <1>2 DEF Grown, TypeOK, SetEstimate
  <1>4. InvoiceNumbersConsecutive' /\ txn' = txn /\ txn = [q \in Req |-> txn[q]]
    BY DEF IInv, TxnOK, InvoiceNumbersConsecutive, SetEstimate
  <1> QED
    BY <1>3, <1>4, Establish

LEMMA SetTemplatesStep ==
  ASSUME IInv, NEW rows \in Seq(Template), Len(rec) <= Len(rows), SetTemplates(rows)
  PROVE  IInv'
  <1>1. Grown
    BY DEF Grown, IInv, TypeOK, SetTemplates
  <1>2. InvoiceNumbersConsecutive' /\ txn' = txn /\ txn = [q \in Req |-> txn[q]]
    BY DEF IInv, TxnOK, InvoiceNumbersConsecutive, SetTemplates
  <1> QED
    BY <1>1, <1>2, Establish

LEMMA OnEstimateStep ==
  ASSUME IInv, NEW e \in DOMAIN est,
         \/ \E c \in Content : UpdateEstimate(e, c)
         \/ SendEstimate(e) \/ AcceptEstimate(e) \/ RejectEstimate(e) \/ DeleteEstimate(e)
  PROVE  IInv'
  <1>1. est[e] \in Estimate
    BY DEF IInv, TypeOK
  <1>2. ASSUME NEW c \in Content, UpdateEstimate(e, c) PROVE IInv'
    BY <1>1, <1>2, SetEstimateStep DEF UpdateEstimate, Estimate
  <1>3. CASE SendEstimate(e)
    BY <1>1, <1>3, SetEstimateStep DEF SendEstimate, Estimate
  <1>4. CASE AcceptEstimate(e)
    BY <1>1, <1>4, SetEstimateStep DEF AcceptEstimate, Estimate
  <1>5. CASE RejectEstimate(e)
    BY <1>1, <1>5, SetEstimateStep DEF RejectEstimate, Estimate
  <1>6. CASE DeleteEstimate(e)
    BY <1>1, <1>6, SetEstimateStep DEF DeleteEstimate, Estimate
  <1> QED
    BY <1>2, <1>3, <1>4, <1>5, <1>6

LEMMA OnTemplateStep ==
  ASSUME IInv,
         \/ \E p \in Plan : CreateTemplate(p) \/ \E t \in DOMAIN rec : UpdateTemplate(t, p)
         \/ \E t \in DOMAIN rec : PauseTemplate(t) \/ ResumeTemplate(t) \/ DeleteTemplate(t)
  PROVE  IInv'
  <1>1. rec \in Seq(Template)
    BY DEF IInv, TypeOK
  <1>2. ASSUME NEW t \in DOMAIN rec, NEW row \in Template,
               SetTemplates([rec EXCEPT ![t] = row])
        PROVE  IInv'
    <2>1. t \in 1..Len(rec) /\ Len(rec) \in Nat
      BY <1>1
    <2>2. /\ [rec EXCEPT ![t] = row] \in Seq(Template)
          /\ Len(rec) <= Len([rec EXCEPT ![t] = row])
      BY <1>1, <2>1, ExceptSeq
    <2> QED
      BY <1>2, <2>2, SetTemplatesStep
  <1>3. ASSUME NEW p \in Plan, NEW s \in {"active", "paused"} PROVE Row(p, s) \in Template
    BY BillingAssumption DEF Row, Template
  <1>4. ASSUME NEW p \in Plan, CreateTemplate(p) PROVE IInv'
    <2>1. Row(p, "active") \in Template
      BY <1>3
    <2>2. /\ Append(rec, Row(p, "active")) \in Seq(Template)
          /\ Len(rec) <= Len(Append(rec, Row(p, "active")))
      BY <1>1, <2>1
    <2> QED
      BY <1>4, <2>2, SetTemplatesStep DEF CreateTemplate
  <1>5. ASSUME NEW p \in Plan, NEW t \in DOMAIN rec, UpdateTemplate(t, p) PROVE IInv'
    BY <1>2, <1>3, <1>5 DEF UpdateTemplate
  <1>6. ASSUME NEW t \in DOMAIN rec, NEW s \in {"active", "paused", "deleted"},
               SetTemplates([rec EXCEPT ![t].status = s])
        PROVE  IInv'
    <2>1. [rec[t] EXCEPT !.status = s] \in Template
      <3>1. rec[t] \in Template
        BY <1>1
      <3> QED
        BY <3>1 DEF Template
    <2>2. [rec EXCEPT ![t].status = s] = [rec EXCEPT ![t] = [rec[t] EXCEPT !.status = s]]
      OBVIOUS
    <2> QED
      BY <1>2, <1>6, <2>1, <2>2
  <1>7. ASSUME NEW t \in DOMAIN rec,
               PauseTemplate(t) \/ ResumeTemplate(t) \/ DeleteTemplate(t)
        PROVE  IInv'
    BY <1>6, <1>7 DEF PauseTemplate, ResumeTemplate, DeleteTemplate
  <1> QED
    BY <1>4, <1>5, <1>7

-----------------------------------------------------------------------------
(* The requests that number what they create.                              *)

LEMMA BeginStep ==
  ASSUME IInv, NEW r \in Req,
         \/ BeginDirect(r) \/ \E c \in Content : BeginQuote(r, c)
         \/ \E e \in DOMAIN est : BeginConvert(r, e)
         \/ \E t \in DOMAIN rec : BeginGenerate(r, t)
  PROVE  IInv'
  <1> DEFINE New(op, id, doc) ==
        [Idle EXCEPT !.op = op, !.pc = "number", !.id = id, !.doc = doc]
  <1>1. ASSUME NEW op, NEW id, NEW doc, Begin(r, op, id, doc), TxnGood(New(op, id, doc))
        PROVE  IInv'
    BY <1>1, ReadStep DEF Begin
  <1>2. CASE BeginDirect(r)
    <2>1. TxnGood(New("direct", 0, <<>>))
      BY DEF TxnGood, Idle, Op
    <2> QED
      BY <1>1, <1>2, <2>1 DEF BeginDirect
  <1>3. ASSUME NEW c \in Content, BeginQuote(r, c) PROVE IInv'
    <2>1. TxnGood(New("quote", 0, [content |-> c]))
      BY DEF TxnGood, Idle, Op
    <2> QED
      BY <1>1, <1>3, <2>1 DEF BeginQuote
  <1>4. ASSUME NEW e \in DOMAIN est, BeginConvert(r, e) PROVE IInv'
    <2>1. e \in Nat /\ est[e] \in Estimate
      BY DEF IInv, TypeOK
    <2>2. TxnGood(New("convert", e, est[e]))
      BY <2>1 DEF TxnGood, Idle, Op
    <2> QED
      BY <1>1, <1>4, <2>2 DEF BeginConvert
  <1>5. ASSUME NEW t \in DOMAIN rec, BeginGenerate(r, t) PROVE IInv'
    <2>1. t \in Nat /\ rec[t] \in Template
      BY DEF IInv, TypeOK
    <2>2. TxnGood(New("generate", t, rec[t]))
      BY <2>1 DEF TxnGood, Idle, Op
    <2> QED
      BY <1>1, <1>5, <2>2 DEF BeginGenerate
  <1> QED
    BY <1>2, <1>3, <1>4, <1>5

LEMMA ReadNumberStep ==
  ASSUME IInv, NEW r \in Req, ReadNumber(r)
  PROVE  IInv'
  <1>1. TypeOK /\ InvoiceNumbersConsecutive /\ TxnGood(txn[r])
    BY DEF IInv, TxnOK
  <1>2. PICK n : n = NextNumber(IF txn[r].op = "quote" THEN est ELSE inv)
    OBVIOUS
  <1>3. n \in Nat /\ (txn[r].op # "quote" => n \in 1..(Len(inv) + 1))
    <2>1. CASE txn[r].op = "quote"
      BY <1>1, <1>2, <2>1, NextEstimateType
    <2>2. CASE txn[r].op # "quote"
      <3>1. n = Len(inv) + 1 /\ Len(inv) \in Nat
        BY <1>1, <1>2, <2>2, NextInvoiceNumber DEF TypeOK
      <3> QED
        BY <3>1
    <2> QED
      BY <2>1, <2>2
  <1> DEFINE t == [txn[r] EXCEPT !.num = n, !.pc = "commit"]
  <1>4. TxnGood(t)
    BY <1>1, <1>3 DEF ReadNumber, TxnGood
  <1>5. txn' = [txn EXCEPT ![r] = t]
    BY <1>2 DEF ReadNumber
  <1> QED
    BY <1>4, <1>5, ReadStep DEF ReadNumber

\* A new invoice takes the next number: the ones below are taken.
LEMMA AddInvoiceStep ==
  ASSUME IInv, NEW r \in Req, txn[r].pc = "commit", txn[r].op # "quote",
         NEW content \in Content \cup {NoContent}, NEW status \in {"draft", "sent"},
         NEW source \in {"direct", "estimate", "template"},
         AddInvoice(r, content, status, source)
  PROVE  /\ inv' \in Seq(Invoice) /\ Len(inv') = Len(inv) + 1
         /\ InvoiceNumbersConsecutive'
  <1>1. TypeOK /\ InvoiceNumbersConsecutive /\ TxnGood(txn[r])
    BY DEF IInv, TxnOK
  <1>2. inv \in Seq(Invoice) /\ Len(inv) \in Nat
    BY <1>1 DEF TypeOK
  <1>3. txn[r].num = Len(inv) + 1
    <2>1. txn[r].num \in 1..(Len(inv) + 1)
      BY <1>1 DEF TxnGood
    <2>2. \A i \in 1..Len(inv) : txn[r].num # i
      BY <1>1, <1>2, NextInvoiceNumber DEF AddInvoice, IsFree, InvoiceNumbersConsecutive
    <2> QED
      BY <1>2, <2>1, <2>2
  <1> DEFINE row == [number |-> txn[r].num, content |-> content, status |-> status,
                     source |-> source, of |-> txn[r].id]
  <1>4. row \in Invoice /\ row.number = Len(inv) + 1
    BY <1>1, <1>2, <1>3 DEF TxnGood, Invoice
  <1>5. inv' = Append(inv, row)
    BY DEF AddInvoice
  <1> HIDE DEF row
  <1>6. inv' \in Seq(Invoice) /\ Len(inv') = Len(inv) + 1
    BY <1>2, <1>4, <1>5
  <1>7. \A i \in 1..Len(inv') : inv'[i].number = i
    <2>1. \A i \in 1..Len(inv) : inv'[i] = inv[i]
      BY <1>2, <1>5
    <2>2. inv'[Len(inv) + 1] = row
      BY <1>2, <1>5
    <2> QED
      BY <1>1, <1>2, <1>4, <1>6, <2>1, <2>2 DEF InvoiceNumbersConsecutive
  <1> QED
    BY <1>6, <1>7 DEF InvoiceNumbersConsecutive

\* Writing a row back, deleted meanwhile or not.
LEMMA UpdatedType ==
  ASSUME NEW S, NEW rows \in Seq(S), NEW i \in DOMAIN rows, NEW row \in S
  PROVE  /\ Updated(rows, i, row) \in Seq(S) /\ Len(Updated(rows, i, row)) = Len(rows)
         /\ \A k \in DOMAIN rows :
              Updated(rows, i, row)[k] \in {rows[k]} \cup (IF k = i THEN {row} ELSE {})
  <1>1. i \in 1..Len(rows) /\ DOMAIN rows = 1..Len(rows)
    OBVIOUS
  <1> QED
    BY <1>1, ExceptSeq DEF Updated

LEMMA CommitStep ==
  ASSUME IInv, NEW r \in Req,
         CommitQuote(r) \/ CommitDirect(r) \/ CommitConvert(r) \/ CommitGenerate(r)
  PROVE  IInv'
  <1> DEFINE t == txn[r]
  <1>1. TypeOK /\ InvoiceNumbersConsecutive /\ TxnGood(t)
    BY DEF IInv, TxnOK
  <1>2. /\ est \in Seq(Estimate) /\ rec \in Seq(Template) /\ inv \in Seq(Invoice)
        /\ Len(est) \in Nat /\ Len(rec) \in Nat /\ Len(inv) \in Nat
        /\ \A e \in DOMAIN est : est[e].invoice \in 0..Len(inv)
    BY <1>1 DEF TypeOK
  <1>3. CASE CommitQuote(r)
    <2> DEFINE row == [number |-> t.num, content |-> t.doc.content, status |-> "draft",
                       invoice |-> 0, agreed |-> NoContent]
    <2>1. row \in Estimate /\ row.invoice = 0
      BY <1>1, <1>3 DEF CommitQuote, Committing, TxnGood, Estimate
    <2>2. est' = Append(est, row) /\ rec' = rec /\ inv' = inv /\ Finish(r)
      BY <1>3 DEF CommitQuote
    <2> HIDE DEF row
    <2>3. est' \in Seq(Estimate) /\ Len(est) <= Len(est')
      BY <1>2, <2>1, <2>2
    <2>4. \A e \in DOMAIN est' : est'[e].invoice \in 0..Len(inv')
      BY <1>2, <2>1, <2>2
    <2>5. Grown /\ InvoiceNumbersConsecutive'
      BY <1>1, <1>2, <2>2, <2>3, <2>4 DEF Grown, InvoiceNumbersConsecutive
    <2> QED
      BY <2>2, <2>5, FinishStep
  <1>4. CASE CommitDirect(r)
    <2>1. /\ t.pc = "commit" /\ t.op # "quote" /\ NoContent \in Content \cup {NoContent}
          /\ AddInvoice(r, NoContent, "draft", "direct")
          /\ est' = est /\ rec' = rec /\ Finish(r)
      BY <1>4 DEF CommitDirect, Committing
    <2>2. /\ inv' \in Seq(Invoice) /\ Len(inv') = Len(inv) + 1
          /\ InvoiceNumbersConsecutive'
      BY <2>1, AddInvoiceStep
    <2>3. Grown
      BY <1>2, <2>1, <2>2 DEF Grown
    <2> QED
      BY <2>1, <2>2, <2>3, FinishStep
  <1>5. CASE CommitConvert(r)
    <2> DEFINE row == [est[t.id] EXCEPT !.status = "converted", !.invoice = Len(inv) + 1]
    <2>1. /\ t.pc = "commit" /\ t.op = "convert"
          /\ AddInvoice(r, t.doc.content, "draft", "estimate")
          /\ est' = Updated(est, t.id, row) /\ rec' = rec /\ Finish(r)
      BY <1>5 DEF CommitConvert, Committing
    <2>2. t.id \in DOMAIN est /\ t.doc.content \in Content
      BY <1>1, <2>1 DEF TxnGood, Estimate
    <2>3. /\ inv' \in Seq(Invoice) /\ Len(inv') = Len(inv) + 1
          /\ InvoiceNumbersConsecutive'
      BY <2>1, <2>2, AddInvoiceStep
    <2>4. row \in Estimate /\ row.invoice = Len(inv) + 1
      <3>1. est[t.id] \in Estimate
        BY <1>2, <2>2
      <3>2. Len(inv) + 1 \in Nat
        BY <1>2
      <3>3. row \in Estimate
        BY <3>1, <3>2 DEF Estimate
      <3>4. row.invoice = Len(inv) + 1
        BY <3>1 DEF Estimate
      <3> QED
        BY <3>3, <3>4
    <2> HIDE DEF row
    <2>5. /\ est' \in Seq(Estimate) /\ Len(est') = Len(est)
          /\ \A k \in DOMAIN est : est'[k] \in {est[k], row}
      BY <1>2, <2>1, <2>2, <2>4, UpdatedType
    <2>6. \A k \in DOMAIN est' : est'[k].invoice \in 0..Len(inv')
      <3>1. DOMAIN est' = DOMAIN est
        BY <1>2, <2>5
      <3> SUFFICES ASSUME NEW k \in DOMAIN est
                   PROVE  est'[k].invoice \in 0..Len(inv')
        BY <3>1
      <3>2. CASE est'[k] = est[k]
        <4>1. est[k].invoice \in 0..Len(inv)
          BY <1>2
        <4> QED
          BY <1>2, <2>3, <3>2, <4>1
      <3>3. CASE est'[k] = row
        <4>1. est'[k].invoice = Len(inv) + 1
          BY <2>4, <3>3
        <4> QED
          BY <1>2, <2>3, <4>1
      <3> QED
        BY <2>5, <3>2, <3>3
    <2>7. Grown
      BY <1>2, <2>1, <2>3, <2>5, <2>6 DEF Grown
    <2> QED
      BY <2>1, <2>3, <2>7, FinishStep
  <1>6. CASE CommitGenerate(r)
    <2> DEFINE row == [rec[t.id] EXCEPT
                         !.next = AdvanceNextRunDate(t.doc.next, t.doc.frequency),
                         !.runs = Append(rec[t.id].runs, t.doc.next)]
    <2>1. /\ t.pc = "commit" /\ t.op = "generate"
          /\ AddInvoice(r, NoContent, IF t.doc.auto_send THEN "sent" ELSE "draft",
                        "template")
          /\ rec' = Updated(rec, t.id, row) /\ est' = est /\ Finish(r)
      BY <1>6 DEF CommitGenerate, Committing
    <2>2. t.id \in DOMAIN rec /\ t.doc \in Template
      BY <1>1, <2>1 DEF TxnGood
    <2>3. /\ inv' \in Seq(Invoice) /\ Len(inv') = Len(inv) + 1
          /\ InvoiceNumbersConsecutive'
      BY <2>1, AddInvoiceStep
    <2>4. row \in Template
      <3>1. rec[t.id] \in Template
        BY <1>2, <2>2
      <3>2. /\ t.doc.next \in Date /\ t.doc.frequency \in AllFrequencies
            /\ rec[t.id].runs \in Seq(Date)
        BY <2>2, <3>1 DEF Template
      <3>3. AdvanceNextRunDate(t.doc.next, t.doc.frequency) \in Date
        BY <3>2, AdvancedType
      <3>4. Append(rec[t.id].runs, t.doc.next) \in Seq(Date)
        BY <3>2
      <3> QED
        BY <3>1, <3>3, <3>4 DEF Template
    <2> HIDE DEF row
    <2>5. rec' \in Seq(Template) /\ Len(rec') = Len(rec)
      BY <1>2, <2>1, <2>2, <2>4, UpdatedType
    <2>6. Grown
      BY <1>2, <2>1, <2>3, <2>5 DEF Grown
    <2> QED
      BY <2>1, <2>3, <2>6, FinishStep
  <1> QED
    BY <1>3, <1>4, <1>5, <1>6

LEMMA IInvStep == IInv /\ [Next]_vars => IInv'
  <1> SUFFICES ASSUME IInv, [Next]_vars PROVE IInv'
    OBVIOUS
  <1>1. CASE OnDocuments
    BY <1>1, OnEstimateStep, OnTemplateStep DEF OnDocuments
  <1>2. ASSUME NEW r \in Req, Numbering(r) PROVE IInv'
    <2>1. CASE Rollback(r)
      <3>1. Grown /\ InvoiceNumbersConsecutive'
        BY <2>1 DEF Rollback, IInv, TypeOK, Grown, InvoiceNumbersConsecutive
      <3> QED
        BY <2>1, <3>1, FinishStep DEF Rollback
    <2> QED
      BY <1>2, <2>1, BeginStep, ReadNumberStep, CommitStep DEF Numbering
  <1>3. CASE UNCHANGED vars
    BY <1>3 DEF vars, IInv, TypeOK, TxnOK, TxnGood, InvoiceNumbersConsecutive
  <1> QED
    BY <1>1, <1>2, <1>3 DEF Next

-----------------------------------------------------------------------------
(* The theorems that hold however requests overlap.                        *)

\* The inductive invariant holds in every reachable state.
THEOREM Invariance == Spec => []IInv
  BY InitIInv, IInvStep, PTL DEF Spec

\* Every variable keeps its type, and estimates link existing invoices.
THEOREM TypeCorrect == Spec => []TypeOK
  <1>1. IInv => TypeOK
    BY DEF IInv
  <1> QED
    BY <1>1, Invariance, PTL

\* Invoices are numbered 1, 2, 3 ... by id, whichever service creates them and
\* however stale the last number it read.
THEOREM NumbersConsecutive == Spec => []InvoiceNumbersConsecutive
  <1>1. IInv => InvoiceNumbersConsecutive
    BY DEF IInv
  <1> QED
    BY <1>1, Invariance, PTL

-----------------------------------------------------------------------------
(* What each estimate promises, when requests on one do not overlap.       *)

Made(e) == InvoicesOf("estimate", e)

\* What was agreed is what is quoted; the invoice made from it is the linked one.
Promise(e) ==
  /\ est[e].status \in Editable => est[e].agreed = NoContent
  /\ est[e].agreed \in {NoContent, est[e].content}
  /\ Made(e) \subseteq {est[e].invoice}
  /\ est[e].status = "converted" => est[e].invoice \in Made(e)
  /\ est[e].status \notin {"converted", "deleted"} => Made(e) = {}
  /\ \A i \in Made(e) : inv[i].content = est[e].content

\* A conversion in flight has read its estimate as it still is.
Current(t) ==
  t.op = "convert" => est[t.id].status \in Convertible /\ t.doc = est[t.id]

Alone == \A q, r \in Req :
  txn[q].op = "convert" /\ txn[r].op = "convert" /\ txn[q].id = txn[r].id => q = r

Sourced == \A i \in DOMAIN inv : inv[i].source = "estimate" => inv[i].of \in DOMAIN est

HInv == /\ \A e \in DOMAIN est : Promise(e)
        /\ \A r \in Req : Current(txn[r])
        /\ Alone /\ Sourced

LEMMA InitHInv == Init => HInv
  BY DEF Init, HInv, Alone, Sourced, Current, Idle

\* Conversions in flight stay as they are when their estimates do.
LEMMA Undisturbed ==
  ASSUME HInv,
         \A q \in Req : txn'[q].op = "convert" =>
           /\ txn[q].op = "convert" /\ txn'[q].id = txn[q].id /\ txn'[q].doc = txn[q].doc
           /\ est'[txn[q].id] = est[txn[q].id]
  PROVE  (\A r \in Req : Current(txn[r]))' /\ Alone'
  <1>1. ASSUME NEW r \in Req PROVE Current(txn[r])'
    BY DEF HInv, Current
  <1>2. Alone'
    BY DEF HInv, Alone
  <1> QED
    BY <1>1, <1>2

\* An estimate whose row and invoices a step leaves alone.
LEMMA SamePromise ==
  ASSUME NEW e \in DOMAIN est, Promise(e), est'[e] = est[e], Made(e)' = Made(e),
         \A i \in Made(e) : inv'[i] = inv[i]
  PROVE  Promise(e)'
  BY DEF Promise

\* The invoices made from an estimate, after one more invoice.
LEMMA MadeStep ==
  ASSUME IInv, NEW e, NEW row, inv' = Append(inv, row)
  PROVE  /\ DOMAIN inv' = DOMAIN inv \cup {Len(inv) + 1}
         /\ inv'[Len(inv) + 1] = row
         /\ \A i \in DOMAIN inv : inv'[i] = inv[i]
         /\ row.source = "estimate" /\ row.of = e => Made(e)' = Made(e) \cup {Len(inv) + 1}
         /\ ~(row.source = "estimate" /\ row.of = e) => Made(e)' = Made(e)
  <1>1. inv \in Seq(Invoice) /\ Len(inv) \in Nat
    BY DEF IInv, TypeOK
  <1>2. /\ DOMAIN inv' = DOMAIN inv \cup {Len(inv) + 1}
        /\ inv'[Len(inv) + 1] = row
        /\ \A i \in DOMAIN inv : inv'[i] = inv[i]
    BY <1>1
  <1> QED
    BY <1>2 DEF Made, InvoicesOf

\* A step that leaves the estimates and the invoices alone.
LEMMA HRequestStep ==
  ASSUME HInv, est' = est, inv' = inv,
         \A q \in Req : txn'[q].op = "convert" =>
           txn[q].op = "convert" /\ txn'[q].id = txn[q].id /\ txn'[q].doc = txn[q].doc
  PROVE  HInv'
  <1>1. (\A r \in Req : Current(txn[r]))' /\ Alone'
    BY Undisturbed
  <1>2. (\A e \in DOMAIN est : Promise(e))' /\ Sourced'
    BY DEF HInv, Promise, Made, InvoicesOf, Sourced
  <1> QED
    BY <1>1, <1>2 DEF HInv

\* A change of one estimate on which no conversion is in flight.
LEMMA HSetEstimateStep ==
  ASSUME IInv, HInv, Exclusive, NEW e \in DOMAIN est, NEW row, Free(OnEstimate, e),
         SetEstimate(e, row), Promise(e)'
  PROVE  HInv'
  <1>1. /\ DOMAIN est' = DOMAIN est /\ \A k \in DOMAIN est : k # e => est'[k] = est[k]
        /\ inv' = inv /\ txn' = txn
    BY DEF SetEstimate
  <1>2. \A k \in DOMAIN est : Made(k)' = Made(k)
    BY <1>1 DEF Made, InvoicesOf
  <1>3. (\A k \in DOMAIN est : Promise(k))'
    BY <1>1, <1>2, SamePromise DEF HInv
  <1>4. Sourced'
    BY <1>1 DEF HInv, Sourced
  <1>5. \A q \in Req : txn[q].op = "convert" => est'[txn[q].id] = est[txn[q].id]
    <2> SUFFICES ASSUME NEW q \in Req, txn[q].op = "convert"
                 PROVE  est'[txn[q].id] = est[txn[q].id]
      OBVIOUS
    <2>1. txn[q].id \in DOMAIN est
      BY DEF IInv, TxnOK, TxnGood
    <2>2. txn[q].id # e
      BY DEF Free, OnEstimate
    <2> QED
      BY <1>1, <2>1, <2>2
  <1>6. (\A r \in Req : Current(txn[r]))' /\ Alone'
    BY <1>1, <1>5, Undisturbed
  <1> QED
    BY <1>3, <1>4, <1>6 DEF HInv

LEMMA HOnEstimateStep ==
  ASSUME IInv, HInv, Exclusive, NEW e \in DOMAIN est,
         \/ \E c \in Content : UpdateEstimate(e, c)
         \/ SendEstimate(e) \/ AcceptEstimate(e) \/ RejectEstimate(e) \/ DeleteEstimate(e)
  PROVE  HInv'
  <1>1. est[e] \in Estimate /\ Promise(e)
    BY DEF IInv, TypeOK, HInv
  <1>2. ASSUME NEW row \in Estimate, SetEstimate(e, row), row.invoice = est[e].invoice
        PROVE  est'[e] = row /\ Made(e)' = Made(e) /\ inv' = inv
    BY <1>2 DEF SetEstimate, Made, InvoicesOf
  <1>3. ASSUME NEW c \in Content, UpdateEstimate(e, c) PROVE HInv'
    <2> DEFINE row == [est[e] EXCEPT !.content = c]
    <2>1. row \in Estimate /\ row.invoice = est[e].invoice /\ row.content = c
          /\ row.status = est[e].status /\ row.agreed = est[e].agreed
      BY <1>1 DEF Estimate
    <2>2. SetEstimate(e, row) /\ Free(OnEstimate, e) /\ est[e].status \in Editable
      BY <1>3 DEF UpdateEstimate
    <2> HIDE DEF row
    <2>3. est'[e] = row /\ Made(e)' = Made(e)
      BY <1>2, <2>1, <2>2
    <2>4. est[e].agreed = NoContent /\ Made(e) = {}
      BY <1>1, <2>2 DEF Promise, Editable
    <2>5. Promise(e)'
      BY <1>1, <2>1, <2>2, <2>3, <2>4 DEF Promise, Editable
    <2> QED
      BY <2>2, <2>5, HSetEstimateStep
  <1>4. ASSUME NEW s \in {"sent", "rejected", "deleted"},
               SetEstimate(e, [est[e] EXCEPT !.status = s]), Free(OnEstimate, e),
               s = "sent" => est[e].status = "draft",
               s = "rejected" => est[e].status = "sent"
        PROVE  HInv'
    <2> DEFINE row == [est[e] EXCEPT !.status = s]
    <2>1. row \in Estimate /\ row.invoice = est[e].invoice /\ row.status = s
          /\ row.content = est[e].content /\ row.agreed = est[e].agreed
      BY <1>1 DEF Estimate
    <2>2. SetEstimate(e, row)
      BY <1>4
    <2> HIDE DEF row
    <2>3. est'[e] = row /\ Made(e)' = Made(e) /\ inv' = inv
      BY <1>2, <2>1, <2>2
    <2>4. Promise(e)'
      BY <1>1, <1>4, <2>1, <2>3 DEF Promise, Editable
    <2> QED
      BY <1>4, <2>2, <2>4, HSetEstimateStep
  <1>5. CASE AcceptEstimate(e)
    <2> DEFINE row == [est[e] EXCEPT !.status = "accepted", !.agreed = est[e].content]
    <2>1. row \in Estimate /\ row.invoice = est[e].invoice /\ row.status = "accepted"
          /\ row.content = est[e].content /\ row.agreed = est[e].content
      BY <1>1 DEF Estimate
    <2>2. SetEstimate(e, row) /\ Free(OnEstimate, e) /\ est[e].status = "sent"
      BY <1>5 DEF AcceptEstimate
    <2> HIDE DEF row
    <2>3. est'[e] = row /\ Made(e)' = Made(e)
      BY <1>2, <2>1, <2>2
    <2>4. Made(e) = {}
      BY <1>1, <2>2 DEF Promise
    <2>5. Promise(e)'
      BY <2>1, <2>3, <2>4 DEF Promise, Editable
    <2> QED
      BY <2>2, <2>5, HSetEstimateStep
  <1>6. CASE SendEstimate(e) \/ RejectEstimate(e) \/ DeleteEstimate(e)
    BY <1>4, <1>6 DEF SendEstimate, RejectEstimate, DeleteEstimate
  <1> QED
    BY <1>3, <1>5, <1>6

LEMMA HBeginStep ==
  ASSUME IInv, HInv, Exclusive, NEW r \in Req,
         \/ BeginDirect(r) \/ \E c \in Content : BeginQuote(r, c)
         \/ \E e \in DOMAIN est : BeginConvert(r, e)
         \/ \E t \in DOMAIN rec : BeginGenerate(r, t)
  PROVE  HInv'
  <1>1. ASSUME NEW op, NEW id, NEW doc, Begin(r, op, id, doc)
        PROVE  /\ est' = est /\ inv' = inv
               /\ txn'[r].op = op /\ txn'[r].id = id /\ txn'[r].doc = doc
               /\ \A q \in Req : q # r => txn'[q] = txn[q]
    BY <1>1 DEF Begin, Idle, IInv, TxnOK
  <1>2. ASSUME NEW op \in {"quote", "direct", "generate"}, NEW id, NEW doc,
               Begin(r, op, id, doc)
        PROVE  HInv'
    <2>1. /\ est' = est /\ inv' = inv /\ txn'[r].op = op
          /\ \A q \in Req : q # r => txn'[q] = txn[q]
      BY <1>1, <1>2
    <2> QED
      BY <2>1, HRequestStep
  <1>3. ASSUME NEW e \in DOMAIN est, BeginConvert(r, e) PROVE HInv'
    <2>1. /\ est' = est /\ inv' = inv
          /\ txn'[r].op = "convert" /\ txn'[r].id = e /\ txn'[r].doc = est[e]
          /\ \A q \in Req : q # r => txn'[q] = txn[q]
      BY <1>1, <1>3 DEF BeginConvert
    <2>2. est[e].status \in Convertible
      BY <1>3 DEF BeginConvert
    <2>3. \A q \in Req : txn[q].op = "convert" => txn[q].id # e
      BY <1>3 DEF BeginConvert, Free, OnEstimate
    <2>4. (\A q \in Req : Current(txn[q]))'
      <3> SUFFICES ASSUME NEW q \in Req PROVE Current(txn[q])'
        OBVIOUS
      <3>1. CASE q = r
        BY <2>1, <2>2, <3>1 DEF Current
      <3>2. CASE q # r
        BY <2>1, <3>2 DEF HInv, Current
      <3> QED
        BY <3>1, <3>2
    <2>5. Alone'
      BY <2>1, <2>3 DEF HInv, Alone
    <2>6. (\A k \in DOMAIN est : Promise(k))' /\ Sourced'
      BY <2>1 DEF HInv, Promise, Made, InvoicesOf, Sourced
    <2> QED
      BY <2>4, <2>5, <2>6 DEF HInv
  <1> QED
    BY <1>2, <1>3 DEF BeginDirect, BeginQuote, BeginGenerate

\* The requests in flight other than the one that commits.
LEMMA HFinish ==
  ASSUME IInv, NEW r \in Req, Finish(r)
  PROVE  \A q \in Req : txn'[q].op = "convert" => q # r /\ txn'[q] = txn[q]
  BY DEF Finish, Idle, IInv, TxnOK

LEMMA HCommitQuoteStep ==
  ASSUME IInv, HInv, NEW r \in Req, CommitQuote(r)
  PROVE  HInv'
  <1>0. PICK n : n = Len(est) + 1
    OBVIOUS
  <1>1. PICK row : /\ est' = Append(est, row)
                   /\ row.status = "draft" /\ row.agreed = NoContent
    BY DEF CommitQuote
  <1>2. inv' = inv /\ Finish(r)
    BY DEF CommitQuote
  <1>3. /\ DOMAIN est' = DOMAIN est \cup {n} /\ n \notin DOMAIN est /\ est'[n] = row
        /\ \A e \in DOMAIN est : est'[e] = est[e]
    BY <1>0, <1>1 DEF IInv, TypeOK
  <1>4. \A e : Made(e)' = Made(e)
    BY <1>2 DEF Made, InvoicesOf
  <1>5. Promise(n)'
    <2>1. Made(n) = {}
      BY <1>3 DEF Made, InvoicesOf, HInv, Sourced
    <2> QED
      BY <1>1, <1>3, <1>4, <2>1 DEF Promise
  <1>6. \A e \in DOMAIN est : Promise(e)'
    BY <1>2, <1>3, <1>4, SamePromise DEF HInv
  <1>7. Sourced'
    BY <1>2, <1>3 DEF HInv, Sourced
  <1>8. (\A q \in Req : Current(txn[q]))' /\ Alone'
    <2>1. \A q \in Req : txn'[q].op = "convert" =>
            txn'[q] = txn[q] /\ est'[txn[q].id] = est[txn[q].id]
      BY <1>2, <1>3, HFinish DEF IInv, TxnOK, TxnGood
    <2> QED
      BY <2>1, Undisturbed
  <1> QED
    BY <1>3, <1>5, <1>6, <1>7, <1>8 DEF HInv

\* An invoice that is not made from an estimate.
LEMMA HOtherInvoiceStep ==
  ASSUME IInv, HInv, NEW r \in Req, NEW content, NEW status,
         NEW source \in {"direct", "template"},
         AddInvoice(r, content, status, source), est' = est, Finish(r)
  PROVE  HInv'
  <1>1. PICK row : inv' = Append(inv, row) /\ row.source = source
    BY DEF AddInvoice
  <1>2. \A e \in DOMAIN est : Made(e)' = Made(e) /\ \A i \in DOMAIN inv : inv'[i] = inv[i]
    BY <1>1, MadeStep
  <1>3. (\A e \in DOMAIN est : Promise(e))'
    <2>1. \A e \in DOMAIN est : Made(e) \subseteq DOMAIN inv
      BY DEF Made, InvoicesOf
    <2> QED
      BY <1>2, <2>1, SamePromise DEF HInv
  <1>4. Sourced'
    BY <1>1, MadeStep DEF HInv, Sourced
  <1>5. (\A q \in Req : Current(txn[q]))' /\ Alone'
    BY HFinish, Undisturbed
  <1> QED
    BY <1>3, <1>4, <1>5 DEF HInv

\* The conversion: no invoice was made before, this one says what was quoted.
LEMMA HCommitConvertStep ==
  ASSUME IInv, HInv, NEW r \in Req, CommitConvert(r)
  PROVE  HInv'
  <1>0. PICK e, n : e = txn[r].id /\ n = Len(inv) + 1
    OBVIOUS
  <1>1. txn[r].op = "convert" /\ Finish(r)
    BY DEF CommitConvert, Committing
  <1>2. e \in DOMAIN est /\ est[e] \in Estimate /\ n \in Nat
    BY <1>0, <1>1 DEF IInv, TxnOK, TxnGood, TypeOK
  <1>3. est[e].status \in Convertible /\ txn[r].doc = est[e]
    BY <1>0, <1>1 DEF HInv, Current
  <1>4. PICK bill : /\ inv' = Append(inv, bill)
                    /\ bill.source = "estimate" /\ bill.of = e
                    /\ bill.content = est[e].content
    BY <1>0, <1>3 DEF CommitConvert, AddInvoice
  <1>5. PICK row : row = [est[e] EXCEPT !.status = "converted", !.invoice = n]
    OBVIOUS
  <1>6. /\ est' = [est EXCEPT ![e] = row]
        /\ row.status = "converted" /\ row.invoice = n /\ row.content = est[e].content
        /\ row.agreed = est[e].agreed
    <2>1. est' = [est EXCEPT ![e] = row]
      BY <1>0, <1>3, <1>5 DEF CommitConvert, Updated, Convertible
    <2> QED
      BY <1>2, <1>5, <2>1 DEF Estimate
  <1>7. /\ DOMAIN est' = DOMAIN est /\ est'[e] = row
        /\ \A k \in DOMAIN est : k # e => est'[k] = est[k]
    BY <1>2, <1>6
  <1>8. /\ DOMAIN inv' = DOMAIN inv \cup {n} /\ inv'[n] = bill
        /\ \A i \in DOMAIN inv : inv'[i] = inv[i]
        /\ Made(e)' = Made(e) \cup {n}
        /\ \A k : k # e => Made(k)' = Made(k)
    BY <1>0, <1>4, MadeStep
  <1>9. Promise(e)'
    <2>1. Made(e) = {} /\ est[e].agreed \in {NoContent, est[e].content}
      BY <1>2, <1>3 DEF HInv, Promise, Convertible
    <2>2. Made(e)' = {n}
      BY <1>8, <2>1
    <2> QED
      BY <1>4, <1>6, <1>7, <1>8, <2>1, <2>2 DEF Promise, Editable
  <1>10. \A k \in DOMAIN est : k # e => Promise(k)'
    <2>1. \A k : Made(k) \subseteq DOMAIN inv
      BY DEF Made, InvoicesOf
    <2> QED
      BY <1>7, <1>8, <2>1, SamePromise DEF HInv
  <1>11. Sourced'
    BY <1>2, <1>4, <1>7, <1>8 DEF HInv, Sourced
  <1>12. (\A q \in Req : Current(txn[q]))' /\ Alone'
    <2> SUFFICES ASSUME NEW q \in Req, txn'[q].op = "convert"
                 PROVE  txn'[q] = txn[q] /\ est'[txn[q].id] = est[txn[q].id]
      BY Undisturbed
    <2>1. q # r /\ txn'[q] = txn[q]
      BY <1>1, HFinish
    <2>2. txn[q].id # e
      BY <1>0, <1>1, <2>1 DEF HInv, Alone
    <2>3. txn[q].id \in DOMAIN est
      BY <2>1 DEF IInv, TxnOK, TxnGood
    <2> QED
      BY <1>7, <2>1, <2>2, <2>3
  <1> QED
    BY <1>7, <1>9, <1>10, <1>11, <1>12 DEF HInv

LEMMA HInvStep == Exclusive /\ IInv /\ HInv /\ [Next]_vars => HInv'
  <1> SUFFICES ASSUME Exclusive, IInv, HInv, [Next]_vars PROVE HInv'
    OBVIOUS
  <1>1. ASSUME OnDocuments PROVE HInv'
    <2>1. CASE est' = est /\ inv' = inv /\ txn' = txn
      BY <2>1, HRequestStep
    <2> QED
      BY <1>1, <2>1, HOnEstimateStep
      DEF OnDocuments, SetTemplates, CreateTemplate, UpdateTemplate, PauseTemplate,
          ResumeTemplate, DeleteTemplate
  <1>2. ASSUME NEW r \in Req, Numbering(r) PROVE HInv'
    <2>1. CASE ReadNumber(r)
      BY <2>1, HRequestStep DEF ReadNumber, IInv, TxnOK, TxnGood
    <2>2. CASE Rollback(r)
      BY <2>2, HFinish, HRequestStep DEF Rollback
    <2>3. CASE CommitDirect(r)
      BY <2>3, HOtherInvoiceStep DEF CommitDirect
    <2>4. CASE CommitGenerate(r)
      BY <2>4, HOtherInvoiceStep DEF CommitGenerate
    <2> QED
      BY <1>2, <2>1, <2>2, <2>3, <2>4, HBeginStep, HCommitQuoteStep, HCommitConvertStep
      DEF Numbering
  <1>3. CASE UNCHANGED vars
    BY <1>3, HRequestStep DEF vars
  <1> QED
    BY <1>1, <1>2, <1>3 DEF Next

\* Accepted once, invoiced once and as accepted: convertToInvoice keeps what
\* an estimate promises, whatever edits, retries and deletes come between,
\* provided two requests on one estimate do not overlap.
THEOREM Honoured ==
  ASSUME Exclusive
  PROVE  Spec => []QuoteHonoured
  <1>1. IInv /\ HInv => QuoteHonoured
    <2> SUFFICES ASSUME HInv, IInv, NEW e \in DOMAIN est
                 PROVE  /\ Cardinality(Made(e)) <= 1
                        /\ est[e].status = "converted" => Made(e) = {est[e].invoice}
                        /\ est[e].status \notin {"converted", "deleted"} => Made(e) = {}
                        /\ \A i \in Made(e) :
                             /\ inv[i].content = est[e].content
                             /\ est[e].agreed \in {NoContent, inv[i].content}
      BY DEF QuoteHonoured, Made
    <2>1. Promise(e)
      BY DEF HInv
    <2>2. Cardinality(Made(e)) <= 1
      <3>1. Made(e) = {} \/ Made(e) = {est[e].invoice}
        BY <2>1 DEF Promise
      <3>2. CASE Made(e) = {}
        BY <3>2, FS_EmptySet
      <3>3. CASE Made(e) = {est[e].invoice}
        <4>1. Cardinality({est[e].invoice}) = 1
          BY FS_Singleton
        <4> QED
          BY <3>3, <4>1
      <3> QED
        BY <3>1, <3>2, <3>3
    <2> QED
      BY <2>1, <2>2 DEF Promise
  <1>2. Init => IInv /\ HInv
    BY InitIInv, InitHInv
  <1>3. IInv /\ HInv /\ [Next]_vars => (IInv /\ HInv)'
    BY IInvStep, HInvStep
  <1> QED
    BY <1>1, <1>2, <1>3, PTL DEF Spec

-----------------------------------------------------------------------------
(* Calendar arithmetic: what a schedule does from one run to the next.     *)

\* The days before a month are the sum of SetLemmas.
LEMMA DaysAreSum ==
  ASSUME NEW S, IsFiniteSet(S), \A x \in S : MonthLength(x) \in Int
  PROVE  MapThenSumSet(MonthLength, S) = SumOver([k \in S |-> MonthLength(k)], S)
  <1> DEFINE h == [k \in S |-> MonthLength(k)]
             c == Arbitrary(S)
             Rec(f) == f = [s \in SUBSET S |->
                              IF s = {} THEN 0
                              ELSE LET x == CHOOSE x \in s : TRUE IN
                                   MonthLength(x) + f[s \ {x}]]
  <1>1. MapThenSumSet(MonthLength, S) = (CHOOSE f : Rec(f))[S]
    BY Zenon DEF MapThenSumSet, MapThenFoldSet
  <1>2. ASSUME NEW f PROVE Rec(f) <=> Sums(h, c, S, f)
    <2>1. ASSUME NEW s \in SUBSET S, s # {}
          PROVE  (CHOOSE x \in s : TRUE) = c[s] /\ h[c[s]] = MonthLength(c[s])
      BY <2>1 DEF Arbitrary
    <2>2. ASSUME NEW s \in SUBSET S, s # {}
          PROVE  (LET x == CHOOSE x \in s : TRUE IN MonthLength(x) + f[s \ {x}])
                   = h[c[s]] + f[s \ {c[s]}]
      <3> HIDE DEF c, h
      <3>1. (CHOOSE x \in s : TRUE) = c[s] /\ h[c[s]] = MonthLength(c[s])
        BY <2>1, <2>2
      <3> QED
        BY <3>1, Zenon
    <2>3. [s \in SUBSET S |-> IF s = {} THEN 0
                              ELSE LET x == CHOOSE x \in s : TRUE IN
                                   MonthLength(x) + f[s \ {x}]]
            = [s \in SUBSET S |-> IF s = {} THEN 0 ELSE h[c[s]] + f[s \ {c[s]}]]
      <3> HIDE DEF c, h
      <3> QED
        BY <2>2, Zenon
    <2> QED
      BY <2>3, Zenon DEF Sums
  <1>3. Takes(c, S)
    BY ArbitraryTakes
  <1>4. \E f : Rec(f)
    <2>1. PICK g : Sums(h, c, S, g)
      <3> HIDE DEF h, c
      <3> QED
        BY <1>3, SumsExist
    <2>2. Rec(g)
      BY <1>2, <2>1, Zenon
    <2> QED
      BY <2>2, Zenon
  <1> DEFINE it == CHOOSE f : Rec(f)
  <1>5. Rec(it)
    BY <1>4, Zenon
  <1> HIDE DEF it
  <1>6. Sums(h, c, S, it)
    BY <1>2, <1>5, Zenon
  <1>7. S \in SUBSET S /\ \A x \in S : h[x] \in Int
    OBVIOUS
  <1> HIDE DEF h, c, Rec
  <1>8. it[S] = SumOver(h, S)
    BY <1>3, <1>6, <1>7, SumIs
  <1> QED
    BY <1>1, <1>8, Zenon DEF h, it

\* A month later there are as many days more as the month has.
LEMMA MonthPasses ==
  ASSUME NEW m \in Nat
  PROVE  LET n == MapThenSumSet(MonthLength, 0..(m - 1)) IN
         n \in Int /\ MapThenSumSet(MonthLength, 0..(m + 1 - 1)) = n + MonthLength(m)
  <1> DEFINE S == 0..(m - 1)
             T == 0..(m + 1 - 1)
             g == [k \in T |-> MonthLength(k)]
             h == [k \in S |-> MonthLength(k)]
  <1>1. T = S \cup {m} /\ m \notin S /\ S \subseteq Nat /\ T \subseteq Nat
    OBVIOUS
  <1>2. IsFiniteSet(S) /\ IsFiniteSet(T)
    <2>1. 0 \in Int /\ m - 1 \in Int /\ m + 1 - 1 \in Int
      OBVIOUS
    <2> QED
      BY <2>1, FS_Interval
  <1>3. /\ \A x \in T : MonthLength(x) \in Int
        /\ \A x \in S : MonthLength(x) \in Int
    BY LengthOfMonth
  <1>4. /\ MapThenSumSet(MonthLength, S) = SumOver(h, S)
        /\ MapThenSumSet(MonthLength, T) = SumOver(g, T)
    <2> HIDE DEF S, T
    <2> QED
      BY <1>2, <1>3, DaysAreSum
  <1>5. /\ \A x \in S : h[x] = g[x] /\ h[x] \in Int
        /\ \A x \in S \cup {m} : g[x] \in Int
        /\ g[m] = MonthLength(m)
    BY <1>1, <1>3
  <1> HIDE DEF S, T, g, h
  <1>6. SumOver(h, S) = SumOver(g, S)
    BY <1>2, <1>5, SumCongruent
  <1>7. SumOver(g, S) \in Int /\ SumOver(g, T) = g[m] + SumOver(g, S)
    BY <1>1, <1>2, <1>5, SumInsert
  <1>8. /\ MapThenSumSet(MonthLength, S) \in Int
        /\ MapThenSumSet(MonthLength, T) = MapThenSumSet(MonthLength, S) + MonthLength(m)
    <2>1. MonthLength(m) \in Int
      BY LengthOfMonth
    <2> QED
      BY <1>4, <1>5, <1>6, <1>7, <2>1
  <1> QED
    BY <1>8 DEF S, T

\* setDate: so many days later.
LEMMA DaysPass ==
  ASSUME NEW a \in Date, NEW n \in 1..14
  PROVE  Before(a, AddDays(a, n)) /\ DayNumber(AddDays(a, n)) - DayNumber(a) = n
  <1>1. PICK m \in Nat, d \in 1..31 : a.m = m /\ a.d = d
    BY DEF Date
  <1>2. PICK l \in 28..31 : l = MonthLength(m)
    BY LengthOfMonth
  <1>3. PICK s \in Int : /\ s = MapThenSumSet(MonthLength, 0..(m - 1))
                         /\ MapThenSumSet(MonthLength, 0..(m + 1 - 1)) = s + l
    BY <1>2, MonthPasses
  <1>4. DayNumber(a) = d + s
    BY <1>1, <1>3, Zenon DEF DayNumber
  <1>5. CASE d + n > l
    <2>1. PICK b : b = [m |-> m + 1, d |-> d + n - l]
      OBVIOUS
    <2>2. AddDays(a, n) = b
      BY <1>1, <1>2, <1>5, <2>1 DEF AddDays, Carried
    <2>3. b.m = m + 1 /\ b.d = d + n - l
      BY <2>1
    <2>4. DayNumber(b) = d + n - l + (s + l)
      <3>1. DayNumber(b) = b.d + MapThenSumSet(MonthLength, 0..(b.m - 1))
        BY Zenon DEF DayNumber
      <3> QED
        BY <1>3, <2>3, <3>1
    <2> QED
      BY <1>1, <1>4, <2>2, <2>3, <2>4 DEF Before
  <1>6. CASE ~(d + n > l)
    <2>1. PICK b : b = [m |-> m, d |-> d + n]
      OBVIOUS
    <2>2. AddDays(a, n) = b
      BY <1>1, <1>2, <1>6, <2>1 DEF AddDays, Carried
    <2>3. b.m = m /\ b.d = d + n
      BY <2>1
    <2>4. DayNumber(b) = d + n + s
      BY <1>3, <2>3, Zenon DEF DayNumber
    <2> QED
      BY <1>1, <1>4, <2>2, <2>3, <2>4 DEF Before
  <1> QED
    BY <1>5, <1>6

\* setMonth: the same day, or one of the first three of the month after.
LEMMA MonthsPass ==
  ASSUME NEW a \in Date, NEW n \in {1, 3, 12}
  PROVE  LET b == AddMonths(a, n) IN
         /\ Before(a, b)
         /\ a.d <= 3 => b = [m |-> a.m + n, d |-> a.d]
         /\ b # [m |-> a.m + n, d |-> a.d] => b.d <= 3
  <1>1. PICK m \in Nat, d \in 1..31 : a.m = m /\ a.d = d
    BY DEF Date
  <1>2. PICK l \in 28..31 : l = MonthLength(m + n)
    <2>1. m + n \in Nat
      OBVIOUS
    <2> QED
      BY <2>1, LengthOfMonth
  <1>3. CASE d > l
    <2>1. AddMonths(a, n) = [m |-> m + n + 1, d |-> d - l]
      BY <1>1, <1>2, <1>3 DEF AddMonths, Carried
    <2> QED
      BY <1>1, <1>3, <2>1 DEF Before
  <1>4. CASE ~(d > l)
    <2>1. AddMonths(a, n) = [m |-> m + n, d |-> d]
      BY <1>1, <1>2, <1>4 DEF AddMonths, Carried
    <2> QED
      BY <1>1, <1>4, <2>1 DEF Before
  <1> QED
    BY <1>3, <1>4

-----------------------------------------------------------------------------
(* The run dates of a template, when requests on one do not overlap.       *)

Monthly == {"monthly", "quarterly", "annually"}

\* The run after date a is not on its day of the month.
SlipsTo(a, b, f) == b # [m |-> a.m + Months(f), d |-> a.d]

\* Each run date in s is the advance of the one before; once one has slipped,
\* the runs are on the first days of a month, which no month lacks.
Scheduled(s, f) ==
  /\ \A k \in 1..(Len(s) - 1) : s[k + 1] = AdvanceNextRunDate(s[k], f)
  /\ f \in Monthly =>
       \A k \in 1..(Len(s) - 1), j \in 1..Len(s) :
         k < j /\ SlipsTo(s[k], s[k + 1], f) => s[j].d <= 3

\* A generation in flight has read its template as it still is.
Reading(t) ==
  t.op = "generate" => rec[t.id].status # "deleted" /\ t.doc = rec[t.id]

AloneOnTemplate == \A q, r \in Req :
  txn[q].op = "generate" /\ txn[r].op = "generate" /\ txn[q].id = txn[r].id => q = r

RunsOf(w) == Append(w.runs, w.next)

SInv == /\ \A t \in DOMAIN rec : Scheduled(RunsOf(rec[t]), rec[t].frequency)
        /\ \A r \in Req : Reading(txn[r])
        /\ AloneOnTemplate

\* What one advance does.
LEMMA AdvanceIs ==
  ASSUME NEW a \in Date, NEW f \in AllFrequencies
  PROVE  LET b == AdvanceNextRunDate(a, f) IN
         /\ Before(a, b)
         /\ f = "weekly"   => DayNumber(b) - DayNumber(a) = 7
         /\ f = "biweekly" => DayNumber(b) - DayNumber(a) = 14
         /\ f \in Monthly /\ a.d <= 3 => ~SlipsTo(a, b, f) /\ b.d <= 3
         /\ f \in Monthly /\ SlipsTo(a, b, f) => b.d <= 3
  <1>1. PICK b : b = AdvanceNextRunDate(a, f)
    OBVIOUS
  <1>2. CASE f \in {"weekly", "biweekly"}
    <2>1. PICK n \in {7, 14} : n = IF f = "weekly" THEN 7 ELSE 14
      OBVIOUS
    <2>2. b = AddDays(a, n)
      BY <1>1, <1>2, <2>1 DEF AdvanceNextRunDate
    <2>3. Before(a, b) /\ DayNumber(b) - DayNumber(a) = n
      <3>1. n \in 1..14
        OBVIOUS
      <3> QED
        BY <2>2, <3>1, DaysPass
    <2> QED
      BY <1>1, <1>2, <2>1, <2>3 DEF Monthly
  <1>3. CASE f \in Monthly
    <2>1. PICK n \in {1, 3, 12} : n = Months(f)
      BY <1>3 DEF Months, Monthly
    <2>2. b = AddMonths(a, n)
      BY <1>1, <1>3, <2>1 DEF AdvanceNextRunDate, Months, Monthly
    <2>3. /\ Before(a, b)
          /\ a.d <= 3 => b = [m |-> a.m + n, d |-> a.d]
          /\ b # [m |-> a.m + n, d |-> a.d] => b.d <= 3
      BY <2>2, MonthsPass
    <2>4. a.d <= 3 => b.d <= 3
      BY <2>3
    <2> QED
      BY <1>1, <1>3, <2>1, <2>3, <2>4 DEF SlipsTo, Monthly
  <1> QED
    BY <1>2, <1>3 DEF AllFrequencies, Monthly

\* One run date is a schedule.
LEMMA ScheduleStarts ==
  ASSUME NEW s, Len(s) = 1, NEW f
  PROVE  Scheduled(s, f)
  BY DEF Scheduled

\* And it goes on with the advance of its last.
LEMMA ScheduleGoesOn ==
  ASSUME NEW f \in AllFrequencies, NEW s \in Seq(Date), Scheduled(s, f), Len(s) > 0
  PROVE  Scheduled(Append(s, AdvanceNextRunDate(s[Len(s)], f)), f)
  <1>1. PICK n \in Nat : n = Len(s)
    OBVIOUS
  <1>2. n > 0 /\ s[n] \in Date
    BY <1>1
  <1>3. PICK b : b = AdvanceNextRunDate(s[n], f)
    OBVIOUS
  <1>4. PICK u : u = Append(s, b)
    OBVIOUS
  <1>5. b \in Date
    BY <1>2, <1>3, AdvancedType
  <1>6. Len(u) = n + 1 /\ u[n + 1] = b /\ \A k \in 1..n : u[k] = s[k]
    BY <1>1, <1>4, <1>5
  <1>7. ASSUME NEW k \in 1..n PROVE u[k + 1] = AdvanceNextRunDate(u[k], f)
    <2>1. CASE k = n
      BY <1>2, <1>3, <1>6, <2>1
    <2>2. CASE k # n
      <3>1. k \in 1..(n - 1) /\ k + 1 \in 1..n
        BY <1>1, <2>2
      <3>2. s[k + 1] = AdvanceNextRunDate(s[k], f)
        BY <1>1, <3>1 DEF Scheduled
      <3> QED
        BY <1>6, <3>1, <3>2
    <2> QED
      BY <2>1, <2>2
  <1>8. ASSUME f \in Monthly, NEW k \in 1..n, NEW j \in 1..(n + 1), k < j,
               SlipsTo(u[k], u[k + 1], f)
        PROVE  u[j].d <= 3
    <2>1. CASE k = n
      <3>1. j = n + 1 /\ SlipsTo(s[n], b, f)
        BY <1>2, <1>6, <1>8, <2>1
      <3>2. b.d <= 3
        BY <1>2, <1>3, <1>8, <3>1, AdvanceIs
      <3> QED
        BY <1>6, <3>1, <3>2
    <2>2. CASE k # n
      <3>1. k \in 1..(n - 1) /\ k + 1 \in 1..n /\ n \in 1..n /\ k < n
        BY <1>1, <2>2
      <3>2. SlipsTo(s[k], s[k + 1], f)
        BY <1>6, <1>8, <3>1
      <3>3. \A i \in 1..n : k < i => s[i].d <= 3
        BY <1>1, <1>8, <3>1, <3>2 DEF Scheduled
      <3>4. CASE j = n + 1
        <4>1. s[n].d <= 3
          BY <3>1, <3>3
        <4>2. b.d <= 3
          BY <1>2, <1>3, <1>8, <4>1, AdvanceIs
        <4> QED
          BY <1>6, <3>4, <4>2
      <3>5. CASE j # n + 1
        <4>1. j \in 1..n
          BY <3>5
        <4> QED
          BY <1>6, <1>8, <3>3, <4>1
      <3> QED
        BY <3>4, <3>5
    <2> QED
      BY <2>1, <2>2
  <1>9. Scheduled(u, f)
    <2>1. Len(u) - 1 = n
      BY <1>6
    <2> QED
      BY <1>6, <1>7, <1>8, <2>1 DEF Scheduled
  <1> QED
    BY <1>1, <1>3, <1>4, <1>9

LEMMA InitSInv == Init => SInv
  BY DEF Init, SInv, AloneOnTemplate, Reading, Idle

\* Generations in flight stay as they are when their templates do.
LEMMA SUndisturbed ==
  ASSUME SInv,
         \A q \in Req : txn'[q].op = "generate" =>
           /\ txn[q].op = "generate" /\ txn'[q].id = txn[q].id /\ txn'[q].doc = txn[q].doc
           /\ rec'[txn[q].id] = rec[txn[q].id]
  PROVE  (\A r \in Req : Reading(txn[r]))' /\ AloneOnTemplate'
  <1>1. ASSUME NEW r \in Req PROVE Reading(txn[r])'
    BY DEF SInv, Reading
  <1>2. AloneOnTemplate'
    BY DEF SInv, AloneOnTemplate
  <1> QED
    BY <1>1, <1>2

\* A step that leaves the templates alone.
LEMMA SRequestStep ==
  ASSUME SInv, rec' = rec,
         \A q \in Req : txn'[q].op = "generate" =>
           txn[q].op = "generate" /\ txn'[q].id = txn[q].id /\ txn'[q].doc = txn[q].doc
  PROVE  SInv'
  <1>1. (\A r \in Req : Reading(txn[r]))' /\ AloneOnTemplate'
    BY SUndisturbed
  <1>2. (\A t \in DOMAIN rec : Scheduled(RunsOf(rec[t]), rec[t].frequency))'
    BY DEF SInv
  <1> QED
    BY <1>1, <1>2 DEF SInv

\* A change of one template, of which no generation in flight remains.
LEMMA STemplateStep ==
  ASSUME IInv, SInv, NEW t \in DOMAIN rec, NEW row, rec' = [rec EXCEPT ![t] = row],
         Scheduled(RunsOf(row), row.frequency),
         \A q \in Req : txn'[q].op = "generate" => txn'[q] = txn[q] /\ txn[q].id # t
  PROVE  SInv'
  <1>1. /\ DOMAIN rec' = DOMAIN rec /\ rec'[t] = row
        /\ \A k \in DOMAIN rec : k # t => rec'[k] = rec[k]
    OBVIOUS
  <1>2. (\A k \in DOMAIN rec : Scheduled(RunsOf(rec[k]), rec[k].frequency))'
    <2>1. ASSUME NEW k \in DOMAIN rec' PROVE Scheduled(RunsOf(rec'[k]), rec'[k].frequency)
      BY <1>1 DEF SInv
    <2> QED
      BY <2>1
  <1>3. (\A q \in Req : Reading(txn[q]))' /\ AloneOnTemplate'
    <2>1. \A q \in Req : txn[q].op = "generate" => txn[q].id \in DOMAIN rec
      BY DEF IInv, TxnOK, TxnGood
    <2> QED
      BY <1>1, <2>1, SUndisturbed
  <1> QED
    BY <1>2, <1>3 DEF SInv

\* The requests that change a template exclude those that generate from it.
LEMMA SOnTemplateStep ==
  ASSUME IInv, SInv, Exclusive,
         \/ \E p \in Plan : CreateTemplate(p) \/ \E t \in DOMAIN rec : UpdateTemplate(t, p)
         \/ \E t \in DOMAIN rec : PauseTemplate(t) \/ ResumeTemplate(t) \/ DeleteTemplate(t)
  PROVE  SInv'
  <1>1. rec \in Seq(Template) /\ \A t \in DOMAIN rec : rec[t] \in Template
    BY DEF IInv, TypeOK
  <1>2. ASSUME NEW t \in DOMAIN rec, Free(OnTemplate, t), txn' = txn, NEW row,
               rec' = [rec EXCEPT ![t] = row], Scheduled(RunsOf(row), row.frequency)
        PROVE  SInv'
    <2>1. \A q \in Req : txn[q].op = "generate" => txn[q].id # t
      BY <1>2 DEF Free, OnTemplate
    <2> QED
      BY <1>2, <2>1, STemplateStep
  <1>3. ASSUME NEW p, NEW s
        PROVE  Scheduled(RunsOf(Row(p, s)), Row(p, s).frequency)
    <2>1. Len(RunsOf(Row(p, s))) = 1
      BY DEF RunsOf, Row
    <2> QED
      BY <2>1, ScheduleStarts
  <1>4. ASSUME NEW p \in Plan, CreateTemplate(p) PROVE SInv'
    <2>1. PICK row : row = Row(p, "active")
      OBVIOUS
    <2>2. PICK n : n = Len(rec) + 1
      OBVIOUS
    <2>3. rec' = Append(rec, row) /\ txn' = txn
      BY <1>4, <2>1 DEF CreateTemplate, SetTemplates
    <2>4. /\ DOMAIN rec' = DOMAIN rec \cup {n} /\ rec'[n] = row
          /\ \A k \in DOMAIN rec : rec'[k] = rec[k]
      BY <1>1, <2>2, <2>3
    <2>5. Scheduled(RunsOf(row), row.frequency)
      BY <1>3, <2>1
    <2>6. (\A k \in DOMAIN rec : Scheduled(RunsOf(rec[k]), rec[k].frequency))'
      <3>1. ASSUME NEW k \in DOMAIN rec' PROVE Scheduled(RunsOf(rec'[k]), rec'[k].frequency)
        BY <2>4, <2>5 DEF SInv
      <3> QED
        BY <3>1
    <2>7. (\A q \in Req : Reading(txn[q]))' /\ AloneOnTemplate'
      <3>1. \A q \in Req : txn[q].op = "generate" => txn[q].id \in DOMAIN rec
        BY DEF IInv, TxnOK, TxnGood
      <3> QED
        BY <2>3, <2>4, <3>1, SUndisturbed
    <2> QED
      BY <2>6, <2>7 DEF SInv
  <1>5. ASSUME NEW p \in Plan, NEW t \in DOMAIN rec, UpdateTemplate(t, p) PROVE SInv'
    <2>1. PICK row : row = Row(p, rec[t].status)
      OBVIOUS
    <2>2. rec' = [rec EXCEPT ![t] = row] /\ txn' = txn /\ Free(OnTemplate, t)
      BY <1>5, <2>1 DEF UpdateTemplate, SetTemplates
    <2>3. Scheduled(RunsOf(row), row.frequency)
      BY <1>3, <2>1
    <2> QED
      BY <1>2, <2>2, <2>3
  <1>6. ASSUME NEW t \in DOMAIN rec, NEW s, Free(OnTemplate, t), txn' = txn,
               rec' = [rec EXCEPT ![t].status = s]
        PROVE  SInv'
    <2>1. PICK row : row = [rec[t] EXCEPT !.status = s]
      OBVIOUS
    <2>2. rec' = [rec EXCEPT ![t] = row]
      BY <1>6, <2>1
    <2>3. rec[t] \in Template
      BY <1>1
    <2>4. row.runs = rec[t].runs /\ row.next = rec[t].next /\ row.frequency = rec[t].frequency
      BY <2>1, <2>3 DEF Template
    <2>5. Scheduled(RunsOf(row), row.frequency)
      <3>1. Scheduled(RunsOf(rec[t]), rec[t].frequency)
        BY DEF SInv
      <3> QED
        BY <2>4, <3>1 DEF RunsOf
    <2> QED
      BY <1>2, <1>6, <2>2, <2>5
  <1>7. ASSUME NEW t \in DOMAIN rec,
               PauseTemplate(t) \/ ResumeTemplate(t) \/ DeleteTemplate(t)
        PROVE  SInv'
    BY <1>6, <1>7 DEF PauseTemplate, ResumeTemplate, DeleteTemplate, SetTemplates
  <1> QED
    BY <1>4, <1>5, <1>7

LEMMA SBeginGenerateStep ==
  ASSUME IInv, SInv, Exclusive, NEW r \in Req, NEW t \in DOMAIN rec, BeginGenerate(r, t)
  PROVE  SInv'
  <1>1. /\ rec' = rec
        /\ txn'[r].op = "generate" /\ txn'[r].id = t /\ txn'[r].doc = rec[t]
        /\ \A q \in Req : q # r => txn'[q] = txn[q]
    BY DEF BeginGenerate, Begin, Idle, IInv, TxnOK
  <1>2. rec[t].status # "deleted"
    BY DEF BeginGenerate
  <1>3. \A q \in Req : txn[q].op = "generate" => txn[q].id # t
    BY DEF BeginGenerate, Free, OnTemplate
  <1>4. (\A q \in Req : Reading(txn[q]))'
    <2> SUFFICES ASSUME NEW q \in Req PROVE Reading(txn[q])'
      OBVIOUS
    <2>1. CASE q = r
      BY <1>1, <1>2, <2>1 DEF Reading
    <2>2. CASE q # r
      BY <1>1, <2>2 DEF SInv, Reading
    <2> QED
      BY <2>1, <2>2
  <1>5. AloneOnTemplate'
    BY <1>1, <1>3 DEF SInv, AloneOnTemplate
  <1>6. (\A k \in DOMAIN rec : Scheduled(RunsOf(rec[k]), rec[k].frequency))'
    BY <1>1 DEF SInv
  <1> QED
    BY <1>4, <1>5, <1>6 DEF SInv

\* The requests that do not generate.
LEMMA SBeginStep ==
  ASSUME IInv, SInv, NEW r \in Req,
         \/ BeginDirect(r) \/ \E c \in Content : BeginQuote(r, c)
         \/ \E e \in DOMAIN est : BeginConvert(r, e)
  PROVE  SInv'
  <1>1. ASSUME NEW op \in {"quote", "direct", "convert"}, NEW id, NEW doc, Begin(r, op, id, doc)
        PROVE  SInv'
    <2>1. /\ rec' = rec /\ txn'[r].op = op
          /\ \A q \in Req : q # r => txn'[q] = txn[q]
      BY <1>1 DEF Begin, Idle, IInv, TxnOK
    <2> QED
      BY <2>1, SRequestStep
  <1> QED
    BY <1>1 DEF BeginDirect, BeginQuote, BeginConvert

\* The requests in flight other than the one that ends.
LEMMA SFinish ==
  ASSUME IInv, NEW r \in Req, Finish(r)
  PROVE  \A q \in Req : txn'[q].op = "generate" => q # r /\ txn'[q] = txn[q]
  BY DEF Finish, Idle, IInv, TxnOK

\* The run date that was read is the one in the row: the schedule goes on.
LEMMA SCommitGenerateStep ==
  ASSUME IInv, SInv, NEW r \in Req, CommitGenerate(r)
  PROVE  SInv'
  <1>0. PICK t : t = txn[r].id
    OBVIOUS
  <1>1. txn[r].op = "generate" /\ Finish(r)
    BY DEF CommitGenerate, Committing
  <1>2. t \in DOMAIN rec /\ rec[t] \in Template
    BY <1>0, <1>1 DEF IInv, TxnOK, TxnGood, TypeOK
  <1>3. rec[t].status # "deleted" /\ txn[r].doc = rec[t]
    BY <1>0, <1>1 DEF SInv, Reading
  <1>4. PICK old, d, f : old = rec[t].runs /\ d = rec[t].next /\ f = rec[t].frequency
    OBVIOUS
  <1>5. PICK b : b = AdvanceNextRunDate(d, f)
    OBVIOUS
  <1>6. PICK row : row = [rec[t] EXCEPT !.next = b, !.runs = Append(old, d)]
    OBVIOUS
  <1>7. rec' = [rec EXCEPT ![t] = row]
    BY <1>0, <1>3, <1>4, <1>5, <1>6 DEF CommitGenerate, Updated
  <1>8. row.next = b /\ row.runs = Append(old, d) /\ row.frequency = f
    BY <1>2, <1>4, <1>6 DEF Template
  <1>9. old \in Seq(Date) /\ d \in Date /\ f \in AllFrequencies
    BY <1>2, <1>4 DEF Template
  <1>10. Scheduled(RunsOf(row), row.frequency)
    <2>1. PICK s : s = Append(old, d)
      OBVIOUS
    <2>2. s \in Seq(Date) /\ Len(s) > 0 /\ s[Len(s)] = d
      BY <1>9, <2>1
    <2>3. Scheduled(s, f)
      BY <1>2, <1>4, <2>1 DEF SInv, RunsOf
    <2>4. Scheduled(Append(s, b), f)
      BY <1>5, <1>9, <2>2, <2>3, ScheduleGoesOn
    <2> QED
      BY <1>8, <2>1, <2>4 DEF RunsOf
  <1>11. \A q \in Req : txn'[q].op = "generate" => txn'[q] = txn[q] /\ txn[q].id # t
    <2> SUFFICES ASSUME NEW q \in Req, txn'[q].op = "generate"
                 PROVE  txn'[q] = txn[q] /\ txn[q].id # t
      OBVIOUS
    <2>1. q # r /\ txn'[q] = txn[q]
      BY <1>1, SFinish
    <2> QED
      BY <1>0, <1>1, <2>1 DEF SInv, AloneOnTemplate
  <1> QED
    BY <1>2, <1>7, <1>10, <1>11, STemplateStep

LEMMA SInvStep == Exclusive /\ IInv /\ SInv /\ [Next]_vars => SInv'
  <1> SUFFICES ASSUME Exclusive, IInv, SInv, [Next]_vars PROVE SInv'
    OBVIOUS
  <1>1. ASSUME OnDocuments PROVE SInv'
    <2>1. CASE rec' = rec /\ txn' = txn
      BY <2>1, SRequestStep
    <2> QED
      BY <1>1, <2>1, SOnTemplateStep
      DEF OnDocuments, SetEstimate, UpdateEstimate, SendEstimate, AcceptEstimate,
          RejectEstimate, DeleteEstimate
  <1>2. ASSUME NEW r \in Req, Numbering(r) PROVE SInv'
    <2>1. CASE ReadNumber(r)
      BY <2>1, SRequestStep DEF ReadNumber, IInv, TxnOK, TxnGood
    <2>2. CASE Rollback(r) \/ CommitQuote(r) \/ CommitDirect(r) \/ CommitConvert(r)
      BY <2>2, SFinish, SRequestStep DEF Rollback, CommitQuote, CommitDirect, CommitConvert
    <2> QED
      BY <1>2, <2>1, <2>2, SBeginStep, SBeginGenerateStep, SCommitGenerateStep DEF Numbering
  <1>3. CASE UNCHANGED vars
    BY <1>3, SRequestStep DEF vars
  <1> QED
    BY <1>1, <1>2, <1>3 DEF Next

\* Between two edits of a template its run dates only go forward, by seven or
\* fourteen days, or by months from a day that changes once at most; provided two
\* requests on one template do not overlap.
THEOREM OnSchedule ==
  ASSUME Exclusive
  PROVE  Spec => []RunsOnSchedule
  <1>1. IInv /\ SInv => RunsOnSchedule
    <2> SUFFICES ASSUME IInv, SInv, NEW t \in DOMAIN rec
                 PROVE  /\ \A k \in 1..(Len(Runs(t)) - 1) :
                             LET a == Runs(t)[k]  b == Runs(t)[k + 1] IN
                             /\ Before(a, b)
                             /\ rec[t].frequency = "weekly"
                                  => DayNumber(b) - DayNumber(a) = 7
                             /\ rec[t].frequency = "biweekly"
                                  => DayNumber(b) - DayNumber(a) = 14
                        /\ rec[t].frequency \in Monthly => Cardinality(Slips(t)) <= 1
      BY DEF RunsOnSchedule, Monthly
    <2>1. PICK s, f : s = Runs(t) /\ f = rec[t].frequency
      OBVIOUS
    <2>2. rec[t] \in Template /\ Scheduled(s, f)
      BY <2>1 DEF IInv, TypeOK, SInv, RunsOf, Runs
    <2>3. s \in Seq(Date) /\ f \in AllFrequencies
      <3>1. rec[t].runs \in Seq(Date) /\ rec[t].next \in Date /\ f \in AllFrequencies
        BY <2>1, <2>2 DEF Template
      <3> QED
        BY <2>1, <3>1 DEF Runs
    <2>4. ASSUME NEW k \in 1..(Len(s) - 1)
          PROVE  /\ s[k] \in Date /\ s[k + 1] = AdvanceNextRunDate(s[k], f)
                 /\ k \in 1..Len(s) /\ k + 1 \in 1..Len(s)
      BY <2>2, <2>3 DEF Scheduled
    <2>5. ASSUME f \in Monthly PROVE Cardinality(Slips(t)) <= 1
      <3>1. \A k \in Slips(t) : k \in 1..(Len(s) - 1) /\ SlipsTo(s[k], s[k + 1], f)
        BY <2>1 DEF Slips, SlipsTo
      <3>2. ASSUME NEW k \in Slips(t), NEW j \in Slips(t), k < j PROVE FALSE
        <4>1. s[j].d <= 3
          BY <2>2, <2>4, <2>5, <3>1, <3>2 DEF Scheduled
        <4>2. ~SlipsTo(s[j], s[j + 1], f)
          BY <2>3, <2>4, <2>5, <3>1, <4>1, AdvanceIs
        <4> QED
          BY <3>1, <4>2
      <3>3. ASSUME NEW k \in Slips(t) PROVE Slips(t) = {k}
        <4>1. ASSUME NEW j \in Slips(t) PROVE j = k
          <5>1. j \in Int /\ k \in Int
            BY <2>3, <3>1
          <5>2. ~(k < j) /\ ~(j < k)
            BY <3>2
          <5> QED
            BY <5>1, <5>2
        <4> QED
          BY <4>1, Zenon
      <3>4. CASE Slips(t) = {}
        BY <3>4, FS_EmptySet
      <3>5. CASE Slips(t) # {}
        <4>1. PICK k : Slips(t) = {k}
          BY <3>3, <3>5
        <4>2. Cardinality({k}) = 1
          BY FS_Singleton
        <4> QED
          BY <4>1, <4>2
      <3> QED
        BY <3>4, <3>5
    <2>6. ASSUME NEW k \in 1..(Len(s) - 1)
          PROVE  /\ Before(s[k], s[k + 1])
                 /\ f = "weekly" => DayNumber(s[k + 1]) - DayNumber(s[k]) = 7
                 /\ f = "biweekly" => DayNumber(s[k + 1]) - DayNumber(s[k]) = 14
      BY <2>3, <2>4, AdvanceIs
    <2> QED
      BY <2>1, <2>5, <2>6
  <1>2. Init => IInv /\ SInv
    BY InitIInv, InitSInv
  <1>3. IInv /\ SInv /\ [Next]_vars => (IInv /\ SInv)'
    BY IInvStep, SInvStep
  <1> QED
    BY <1>1, <1>2, <1>3, PTL DEF Spec
=============================================================================
