--------------------------- MODULE InvoicesProofs ---------------------------
(***************************************************************************)
(* Proofs about Invoices.tla, for every number of requests, invoices,      *)
(* entries and checkout sessions: the types, the numbering of invoices,    *)
(* that no payment is reversed twice, and that what Stripe settles was     *)
(* paid at Stripe; and what invoicing promises when requests do not        *)
(* overlap: totals agree with the terms stored beside them, a void leaves  *)
(* no payment in the ledger, and invoicing implements Receivable.  With    *)
(* two requests in flight these fail: the run void_race shows a void that  *)
(* leaves a payment.                                                       *)
(***************************************************************************)
EXTENDS Invoices, SetLemmas, SequenceTheorems, FiniteSetTheorems, TLAPS

-----------------------------------------------------------------------------
(* The inductive invariant.                                                *)

\* A webhook carries the checkout that it completes.
Delivers(t) == /\ t.session \in DOMAIN session
               /\ session[t.session].state = "complete"
               /\ session[t.session].inv = t.id /\ session[t.session].amount = t.amount

\* A void that is to reverse an entry has read it.
Reverses(t) == /\ t.je \in DOMAIN je
               /\ t.period = je[t.je].period /\ t.amount = je[t.je].amount

\* What a request knows, and no other request can undo.
TxnGood(t) ==
  /\ t \in Txn
  /\ t.op = "none" => t.pc = "idle"
  /\ t.op # "none" => t.op \in Ops
  /\ t.op \notin {"none", "create"} => t.id \in DOMAIN inv
  /\ t.op = "create" => t.pc \in {"last", "commit"} /\ t.batch \in Batch
  /\ t.op = "create" /\ t.pc = "commit" => t.num \in 1..(Len(inv) + 1)
  /\ t.op \in {"lines", "tax_rate", "pay"} => t.amount \in Nat
  /\ t.op = "webhook" => Delivers(t)
  /\ t.op = "link" /\ t.pc = "commit" => t.session \in DOMAIN session
  /\ t.op = "void" /\ t.pc \in {"number", "commit"} /\ t.je # 0 => Reverses(t)
  /\ t.pc = "last" => t.op = "create"
  /\ t.pc = "stripe" => t.op = "link"
  /\ t.pc = "entry" => t.op = "void" /\ t.je \in DOMAIN je
  /\ t.pc = "number" => t.op \in {"pay", "void"} /\ (t.op = "void" => t.je # 0)
  /\ t.pc = "number" => t.period \in Period

TxnOK == txn = [r \in Req |-> txn[r]] /\ \A r \in Req : TxnGood(txn[r])

\* A session is of an invoice, and Stripe announces those that are complete.
SessionsOK == /\ \A s \in DOMAIN session : session[s].inv \in DOMAIN inv
              /\ \A s \in events : session[s].state = "complete"

\* The numbers of a period have a greatest one.
HasMaxNumber ==
  \A p \in Period :
    \E m \in Numbers(p) \cup {0} : \A n \in Numbers(p) : n <= m

\* PaymentReversedOnce, entry by entry; and a reversal comes after its entry.
ReversalsOK ==
  /\ \A m \in DOMAIN je : je[m].reverses < m
  /\ \A k \in DOMAIN je :
       je[k].status = "voided" <=> \E m \in DOMAIN je : je[m].reverses = k
  /\ \A k, m \in DOMAIN je :
       je[m].reverses = k => je[m].amount = je[k].amount /\ je[m].period = je[k].period
  /\ \A m, n \in DOMAIN je : je[m].reverses # 0 /\ je[m].reverses = je[n].reverses => m = n

IInv == TypeOK /\ TxnOK /\ SessionsOK /\ HasMaxNumber /\ ReversalsOK
          /\ InvoiceNumbersConsecutive

-----------------------------------------------------------------------------
(* What the operators return.                                              *)

LEMMA IdleType == Idle \in Txn
  <1>1. <<>> \in Seq(Terms)
    BY EmptySeq
  <1> QED
    BY <1>1 DEF Idle, Txn, NoTerms, Terms

LEMMA TotalType ==
  ASSUME NEW d \in Terms
  PROVE  Total(d) \in Int
  <1>1. d.subtotal \in Int /\ d.tax_rate \in Int /\ d.discount \in Int /\ d.shipping \in Int
    BY DEF Terms
  <1>2. Taxable(d) \in Int
    BY <1>1 DEF Taxable
  <1> DEFINE tax == 2 * Taxable(d) * d.tax_rate + 100
  <1> HIDE DEF Taxable
  <1>3. tax \in Int
    BY <1>1, <1>2
  <1> HIDE DEF tax
  <1>4. tax \div 200 \in Int
    BY <1>3
  <1> QED
    BY <1>1, <1>2, <1>4 DEF Total, tax

LEMMA DraftType ==
  ASSUME NEW n \in Nat, NEW d \in Terms
  PROVE  Draft(n, d) \in Invoice
  BY TotalType DEF Draft, Invoice, Status

LEMMA RevisedType ==
  ASSUME NEW i \in Invoice, NEW t \in Txn
  PROVE  /\ Revised(i, t) \in Invoice
         /\ Revised(i, t).number = i.number /\ Revised(i, t).je = i.je
         /\ Revised(i, t).link = i.link /\ Revised(i, t).paid = i.paid
  <1>1. t.terms \in Terms /\ i.terms \in Terms
    BY DEF Txn, Invoice
  <1>2. Total(t.terms) \in Int
    BY <1>1, TotalType
  <1>3. PICK n \in Nat : n = IF t.op = "lines" THEN t.terms.subtotal ELSE i.terms.subtotal
    BY <1>1 DEF Terms
  <1>4. Revised(i, t) = [i EXCEPT !.total = Total(t.terms),
                                  !.terms.tax_rate = t.terms.tax_rate, !.terms.subtotal = n]
    BY <1>3 DEF Revised
  <1>5. PICK d \in Terms : d = [i.terms EXCEPT !.tax_rate = t.terms.tax_rate, !.subtotal = n]
    BY <1>1 DEF Terms
  <1>6. Revised(i, t) = [i EXCEPT !.total = Total(t.terms), !.terms = d]
    BY <1>1, <1>4, <1>5 DEF Invoice, Terms
  <1> QED
    BY <1>2, <1>6 DEF Invoice

\* The library's Max is the maximum when there is one.
LEMMA MaxIsLargest ==
  ASSUME NEW S \in SUBSET Nat, NEW m \in S, \A n \in S : n <= m
  PROVE  Max(S) = m
  <1>1. \A y \in S : m >= y
    OBVIOUS
  <1>2. Max(S) \in S /\ \A y \in S : Max(S) >= y
    BY <1>1, Zenon DEF Max
  <1>3. Max(S) \in Nat /\ m \in Nat /\ Max(S) >= m /\ m >= Max(S)
    BY <1>1, <1>2
  <1> HIDE DEF Max
  <1> QED
    BY <1>3

LEMMA NumbersType ==
  ASSUME TypeOK, NEW p
  PROVE  Numbers(p) \in SUBSET Nat
  <1>1. \A k \in DOMAIN je : je[k] \in Entry
    BY DEF TypeOK
  <1> QED
    BY <1>1 DEF Numbers, Entry

\* The number read for the next entry is a number.
LEMMA NextNumberType ==
  ASSUME TypeOK, HasMaxNumber, NEW p \in Period
  PROVE  Max(Numbers(p) \cup {0}) + 1 \in Nat
  <1>1. Numbers(p) \in SUBSET Nat
    BY NumbersType
  <1>2. PICK m \in Numbers(p) \cup {0} : \A n \in Numbers(p) : n <= m
    BY DEF HasMaxNumber
  <1>3. Max(Numbers(p) \cup {0}) = m
    BY <1>1, <1>2, MaxIsLargest
  <1> QED
    BY <1>1, <1>2, <1>3

-----------------------------------------------------------------------------
LEMMA InitIInv == Init => IInv
  <1> SUFFICES ASSUME Init PROVE IInv
    OBVIOUS
  <1> USE DEF Init
  <1>1. TypeOK
    BY IdleType, EmptySeq DEF TypeOK
  <1>2. TxnGood(Idle)
    BY IdleType DEF TxnGood, Idle
  <1>3. TxnOK
    BY <1>2 DEF TxnOK
  <1>4. SessionsOK /\ HasMaxNumber /\ ReversalsOK /\ InvoiceNumbersConsecutive
    BY DEF SessionsOK, HasMaxNumber, Numbers, ReversalsOK, InvoiceNumbersConsecutive
  <1> QED
    BY <1>1, <1>3, <1>4 DEF IInv

-----------------------------------------------------------------------------
(* What a step may change, so that other requests stay good.               *)

\* Nothing is deleted; an entry keeps its period and amount, a session its
\* invoice, its amount and, once complete, its state.
Grown ==
  /\ inv' \in Seq(Invoice) /\ je' \in Seq(Entry) /\ session' \in Seq(Session)
  /\ Len(inv) <= Len(inv') /\ Len(je) <= Len(je') /\ Len(session) <= Len(session')
  /\ \A i \in DOMAIN inv' : inv'[i].je \in 0..Len(je') /\ inv'[i].link \in 0..Len(session')
  /\ \A k \in DOMAIN je : je'[k].period = je[k].period /\ je'[k].amount = je[k].amount
  /\ \A s \in DOMAIN session :
       /\ session'[s].inv = session[s].inv /\ session'[s].amount = session[s].amount
       /\ session[s].state = "complete" => session'[s].state = "complete"
  /\ events' \subseteq DOMAIN session'

LEMMA StillGood ==
  ASSUME TypeOK, Grown, NEW t, TxnGood(t)
  PROVE  TxnGood(t)'
  <1>1. /\ DOMAIN inv \subseteq DOMAIN inv' /\ DOMAIN je \subseteq DOMAIN je'
        /\ DOMAIN session \subseteq DOMAIN session'
    BY DEF Grown, TypeOK
  <1>2. 1..(Len(inv) + 1) \subseteq 1..(Len(inv') + 1)
    BY DEF Grown, TypeOK
  <1>3. Delivers(t) => Delivers(t)'
    BY <1>1 DEF Delivers, Grown
  <1>4. Reverses(t) => Reverses(t)'
    BY <1>1 DEF Reverses, Grown
  <1> QED
    BY <1>1, <1>2, <1>3, <1>4 DEF TxnGood

\* The parts of the invariant a step has to show of its own.
Kept == /\ Grown
        /\ SessionsOK' /\ HasMaxNumber' /\ ReversalsOK' /\ InvoiceNumbersConsecutive'

LEMMA Establish ==
  ASSUME IInv, Kept, NEW r \in Req, NEW t, TxnGood(t)', txn' = [txn EXCEPT ![r] = t]
  PROVE  IInv'
  <1>1. txn' = [q \in Req |-> txn'[q]] /\ txn'[r] = t /\ \A q \in Req : q # r => txn'[q] = txn[q]
    BY DEF IInv, TxnOK
  <1>2. ASSUME NEW q \in Req PROVE TxnGood(txn[q])'
    <2>1. CASE q = r
      BY <1>1, <2>1 DEF TxnGood, Delivers, Reverses
    <2>2. CASE q # r
      <3>1. PICK u : u = txn[q]
        OBVIOUS
      <3>2. TxnGood(u)'
        BY <3>1, StillGood DEF IInv, TxnOK, Kept
      <3> QED
        BY <1>1, <2>2, <3>1, <3>2 DEF TxnGood, Delivers, Reverses
    <2> QED
      BY <2>1, <2>2
  <1>3. TxnOK'
    BY <1>1, <1>2 DEF TxnOK
  <1>4. TypeOK'
    <2>1. \A q \in Req : txn'[q] \in Txn
      BY <1>2 DEF TxnGood
    <2> QED
      BY <1>1, <2>1 DEF TypeOK, Kept, Grown
  <1> QED
    BY <1>3, <1>4 DEF IInv, Kept

\* A request ends.
LEMMA FinishStep ==
  ASSUME IInv, Kept, NEW r \in Req, Finish(r)
  PROVE  IInv'
  <1>1. TxnGood(Idle)'
    BY IdleType DEF TxnGood, Idle
  <1> QED
    BY <1>1, Establish DEF Finish

\* A step that leaves the tables alone.
LEMMA NothingWritten ==
  ASSUME IInv, UNCHANGED <<inv, je, session>>, events' \subseteq events
  PROVE  Kept
  <1>1. Grown
    BY DEF IInv, TypeOK, Grown
  <1>2. SessionsOK' /\ InvoiceNumbersConsecutive'
    BY DEF IInv, SessionsOK, InvoiceNumbersConsecutive
  <1>3. HasMaxNumber'
    BY DEF IInv, HasMaxNumber, Numbers
  <1>4. ReversalsOK'
    BY DEF IInv, ReversalsOK
  <1> QED
    BY <1>1, <1>2, <1>3, <1>4 DEF Kept

\* A request that has read something.
LEMMA ReadStep ==
  ASSUME IInv, NEW r \in Req, NEW t, TxnGood(t), txn' = [txn EXCEPT ![r] = t],
         UNCHANGED <<inv, je, session, events>>
  PROVE  IInv'
  <1>1. Kept
    BY NothingWritten
  <1>2. TxnGood(t)'
    BY <1>1, StillGood DEF IInv, Kept
  <1> QED
    BY <1>1, <1>2, Establish

-----------------------------------------------------------------------------
(* The steps that begin a request, and those that read.                    *)

LEMMA StartStep ==
  ASSUME IInv, NEW r \in Req, Start(r)
  PROVE  IInv'
  <1> USE InvoicesAssumption
  <1>1. ASSUME NEW op, NEW u, TxnGood([u EXCEPT !.op = op]), Begin(r, op, u)
        PROVE  IInv'
    BY <1>1, ReadStep DEF Begin
  <1>2. CASE BeginCreate(r)
    <2>1. PICK b \in Batch : Begin(r, "create", [Idle EXCEPT !.pc = "last", !.batch = b])
      BY <1>2 DEF BeginCreate
    <2>2. b \in Seq(Terms)
      BY DEF Terms
    <2>3. TxnGood([[Idle EXCEPT !.pc = "last", !.batch = b] EXCEPT !.op = "create"])
      BY <2>1, <2>2, IdleType DEF TxnGood, Txn, Idle, AllOps, Begin
    <2> QED
      BY <1>1, <2>1, <2>3
  <1>3. CASE BeginPay(r)
    <2>1. PICK i \in DOMAIN inv, a \in Nat, p \in Period \cup {NoPeriod} :
            Begin(r, "pay", [Idle EXCEPT !.pc = "invoice", !.id = i, !.amount = a,
                                         !.period = p])
      BY <1>3 DEF BeginPay
    <2>2. i \in Nat /\ a \in Int
      BY DEF IInv, TypeOK
    <2>3. TxnGood([[Idle EXCEPT !.pc = "invoice", !.id = i, !.amount = a, !.period = p]
                     EXCEPT !.op = "pay"])
      BY <2>1, <2>2, IdleType DEF TxnGood, Txn, Idle, AllOps, Begin
    <2> QED
      BY <1>1, <2>1, <2>3
  <1>4. CASE BeginUpdate(r)
    <2>1. PICK op \in {"lines", "tax_rate"}, i \in DOMAIN inv, a \in Nat :
            Begin(r, op, [Idle EXCEPT !.pc = "invoice", !.id = i, !.amount = a])
      BY <1>4 DEF BeginUpdate
    <2>2. i \in Nat /\ a \in Int
      BY DEF IInv, TypeOK
    <2>3. TxnGood([[Idle EXCEPT !.pc = "invoice", !.id = i, !.amount = a] EXCEPT !.op = op])
      BY <2>1, <2>2, IdleType DEF TxnGood, Txn, Idle, AllOps, Begin
    <2> QED
      BY <1>1, <2>1, <2>3
  <1>5. CASE BeginWebhook(r)
    <2>1. PICK s \in events :
            Begin(r, "webhook", [Idle EXCEPT !.pc = "invoice", !.id = session[s].inv,
                                             !.amount = session[s].amount, !.session = s])
      BY <1>5 DEF BeginWebhook
    <2>2. /\ s \in DOMAIN session /\ s \in Nat /\ session[s] \in Session
          /\ session[s].inv \in DOMAIN inv /\ session[s].state = "complete"
      BY <2>1 DEF IInv, TypeOK, SessionsOK
    <2>3. session[s].inv \in Nat /\ session[s].amount \in Int
      BY <2>2 DEF Session
    <2>4. TxnGood([[Idle EXCEPT !.pc = "invoice", !.id = session[s].inv,
                                !.amount = session[s].amount, !.session = s]
                     EXCEPT !.op = "webhook"])
      BY <2>1, <2>2, <2>3, IdleType DEF TxnGood, Delivers, Txn, Idle, AllOps, Begin
    <2> QED
      BY <1>1, <2>1, <2>4
  <1>6. ASSUME NEW op \in Ops, BeginOnInvoice(r, op) PROVE IInv'
    <2>1. PICK i \in DOMAIN inv : Begin(r, op, [Idle EXCEPT !.pc = "invoice", !.id = i])
      BY <1>6 DEF BeginOnInvoice
    <2>2. i \in Nat /\ op \in {"send", "void", "link"}
      BY <1>6 DEF IInv, TypeOK, BeginOnInvoice
    <2>3. TxnGood([[Idle EXCEPT !.pc = "invoice", !.id = i] EXCEPT !.op = op])
      BY <2>1, <2>2, IdleType DEF TxnGood, Txn, Idle, AllOps, Begin
    <2> QED
      BY <1>1, <2>1, <2>3
  <1> QED
    BY <1>2, <1>3, <1>4, <1>5, <1>6 DEF Start

LEMMA ReadInvoiceStep ==
  ASSUME IInv, NEW r \in Req, ReadInvoice(r)
  PROVE  IInv'
  <1> DEFINE t == txn[r]
             i == inv[t.id]
  <1>1. /\ TypeOK /\ TxnGood(t) /\ t.pc = "invoice"
        /\ i.status \in AllowedStatus(t.op)
    BY DEF IInv, TxnOK, ReadInvoice
  <1>2. /\ t \in Txn /\ t.id \in DOMAIN inv /\ t.op \notin {"none", "create"}
        /\ t.op \in AllOps
    BY <1>1, InvoicesAssumption DEF TxnGood
  <1>3. i \in Invoice /\ i.je \in 0..Len(je)
    BY <1>1, <1>2 DEF TypeOK
  <1>4. PICK d : d = CASE t.op = "lines"    -> [i.terms EXCEPT !.subtotal = t.amount]
                       [] t.op = "tax_rate" -> [i.terms EXCEPT !.tax_rate = t.amount]
                       [] OTHER             -> NoTerms
    OBVIOUS
  <1>5. PICK a : a = IF t.op = "link" THEN i.total ELSE t.amount
    OBVIOUS
  <1>6. PICK pc : pc = CASE t.op = "pay" /\ t.period # NoPeriod -> "number"
                         [] t.op = "void" /\ i.je # 0           -> "entry"
                         [] t.op = "link"                       -> "stripe"
                         [] OTHER                               -> "commit"
    OBVIOUS
  <1> DEFINE u == [t EXCEPT !.je = i.je, !.terms = d, !.amount = a, !.pc = pc]
  <1>7. Advance(r, u)
    BY <1>4, <1>5, <1>6 DEF ReadInvoice
  <1>8. d \in Terms
    <2>1. t.op \in {"lines", "tax_rate"} => t.amount \in Nat
      BY <1>1 DEF TxnGood
    <2>2. i.terms \in Terms
      BY <1>3 DEF Invoice
    <2>3. NoTerms \in Terms
      BY DEF NoTerms, Terms
    <2>4. CASE t.op = "lines"
      BY <1>4, <2>1, <2>2, <2>4 DEF Terms
    <2>5. CASE t.op = "tax_rate"
      BY <1>4, <2>1, <2>2, <2>5 DEF Terms
    <2>6. CASE t.op \notin {"lines", "tax_rate"}
      BY <1>4, <2>3, <2>6
    <2> QED
      BY <2>4, <2>5, <2>6
  <1>9. a \in Int /\ (t.op # "link" => a = t.amount)
    BY <1>2, <1>3, <1>5 DEF Txn, Invoice
  <1>10. /\ pc \in {"number", "entry", "stripe", "commit"}
         /\ pc = "number" => t.op = "pay" /\ t.period \in Period
         /\ pc = "entry" => t.op = "void" /\ i.je # 0
         /\ pc = "stripe" => t.op = "link"
         /\ t.op = "link" => pc = "stripe"
         /\ t.op = "void" /\ i.je # 0 => pc = "entry"
    <2>1. t.period \in Period \cup {NoPeriod}
      BY <1>2 DEF Txn
    <2> QED
      BY <1>6, <2>1
  <1>11. u \in Txn
    <2>1. i.je \in Nat
      BY <1>3 DEF Invoice
    <2> QED
      BY <1>2, <1>8, <1>9, <1>10, <2>1 DEF Txn
  <1>12. /\ u.op = t.op /\ u.pc = pc /\ u.id = t.id /\ u.amount = a /\ u.je = i.je
         /\ u.session = t.session /\ u.period = t.period
    BY <1>2 DEF Txn
  <1>13. t.op = "webhook" => Delivers(u)
    BY <1>1, <1>9, <1>12 DEF TxnGood, Delivers
  <1>14. i.je # 0 => i.je \in DOMAIN je
    BY <1>1, <1>3 DEF TypeOK
  <1> HIDE DEF u, i
  <1>15. TxnGood(u)
    BY <1>1, <1>2, <1>9, <1>10, <1>11, <1>12, <1>13, <1>14 DEF TxnGood
  <1> QED
    BY <1>7, <1>15, ReadStep DEF Advance

\* The last invoice has the number of its place.
LEMMA ReadLastInvoiceStep ==
  ASSUME IInv, NEW r \in Req, ReadLastInvoice(r)
  PROVE  IInv'
  <1>1. TypeOK /\ InvoiceNumbersConsecutive /\ TxnGood(txn[r]) /\ txn[r].pc = "last"
    BY DEF IInv, TxnOK, ReadLastInvoice
  <1>2. PICK n : n = IF inv = <<>> THEN 1 ELSE inv[Len(inv)].number + 1
    OBVIOUS
  <1>3. n \in Nat /\ n \in 1..(Len(inv) + 1)
    <2>1. inv \in Seq(Invoice) /\ Len(inv) \in Nat
      BY <1>1 DEF TypeOK
    <2>2. CASE inv = <<>>
      BY <1>2, <2>1, <2>2
    <2>3. CASE inv # <<>>
      <3>1. Len(inv) \in DOMAIN inv
        BY <2>1, <2>3
      <3>2. inv[Len(inv)].number = Len(inv)
        BY <1>1, <3>1 DEF InvoiceNumbersConsecutive
      <3> QED
        BY <1>2, <2>1, <2>3, <3>2
    <2> QED
      BY <2>2, <2>3
  <1> DEFINE u == [txn[r] EXCEPT !.num = n, !.pc = "commit"]
  <1>4. Advance(r, u)
    BY <1>2 DEF ReadLastInvoice
  <1>5. TxnGood(u)
    BY <1>1, <1>3 DEF TxnGood, Txn
  <1> QED
    BY <1>4, <1>5, ReadStep DEF Advance

LEMMA SkipWebhookStep ==
  ASSUME IInv, NEW r \in Req, SkipWebhook(r)
  PROVE  IInv'
  <1>1. Kept
    BY NothingWritten DEF SkipWebhook
  <1> QED
    BY <1>1, FinishStep DEF SkipWebhook, Finish

LEMMA ReadEntryStep ==
  ASSUME IInv, NEW r \in Req, ReadEntry(r)
  PROVE  IInv'
  <1> DEFINE t == txn[r]
  <1>1. TypeOK /\ TxnGood(t) /\ t.pc = "entry"
    BY DEF IInv, TxnOK, ReadEntry
  <1>2. t \in Txn /\ t.op = "void" /\ t.je \in DOMAIN je
    BY <1>1 DEF TxnGood
  <1>3. je[t.je] \in Entry /\ t.je # 0
    BY <1>1, <1>2 DEF TypeOK
  <1>4. CASE je[t.je].status = "posted"
    <2> DEFINE u == [t EXCEPT !.period = je[t.je].period, !.amount = je[t.je].amount,
                              !.pc = "number"]
    <2>1. Advance(r, u)
      BY <1>4 DEF ReadEntry
    <2>2. u \in Txn /\ u.period \in Period
      <3>1. je[t.je].period \in Period /\ je[t.je].amount \in Int
        BY <1>3 DEF Entry
      <3> QED
        BY <1>2, <3>1 DEF Txn
    <2>3. Reverses(u)
      BY <1>2 DEF Reverses, Txn
    <2>4. TxnGood(u)
      BY <1>1, <1>2, <1>3, <2>2, <2>3 DEF TxnGood, Txn
    <2> QED
      BY <2>1, <2>4, ReadStep DEF Advance
  <1>5. CASE je[t.je].status # "posted"
    <2> DEFINE u == [t EXCEPT !.je = 0, !.pc = "commit"]
    <2>1. Advance(r, u)
      BY <1>5 DEF ReadEntry
    <2>2. u \in Txn /\ u.op = t.op /\ u.pc = "commit" /\ u.je = 0 /\ u.id = t.id
      BY <1>2 DEF Txn
    <2>3. TxnGood(u)
      BY <1>1, <1>2, <2>2 DEF TxnGood
    <2> QED
      BY <2>1, <2>3, ReadStep DEF Advance
  <1> QED
    BY <1>4, <1>5

LEMMA ReadNumberStep ==
  ASSUME IInv, NEW r \in Req, ReadNumber(r)
  PROVE  IInv'
  <1> DEFINE t == txn[r]
  <1>1. TypeOK /\ HasMaxNumber /\ TxnGood(t) /\ t.pc = "number" /\ t.period \in Period
    BY DEF IInv, TxnOK, ReadNumber, TxnGood
  <1>2. PICK n \in Nat : n = Max(Numbers(t.period) \cup {0}) + 1
    BY <1>1, NextNumberType
  <1> DEFINE u == [t EXCEPT !.num = n, !.pc = "commit"]
  <1>3. Advance(r, u)
    BY <1>2 DEF ReadNumber
  <1>4. Reverses(t) => Reverses(u)
    BY <1>1 DEF Reverses, TxnGood, Txn
  <1>5. TxnGood(u)
    BY <1>1, <1>4 DEF TxnGood, Txn
  <1> QED
    BY <1>3, <1>5, ReadStep DEF Advance

LEMMA CreateSessionStep ==
  ASSUME IInv, NEW r \in Req, CreateSession(r)
  PROVE  IInv'
  <1> DEFINE t == txn[r]
             new == [inv |-> t.id, amount |-> t.amount, state |-> "open"]
  <1>1. /\ TypeOK /\ SessionsOK /\ TxnGood(t) /\ t.pc = "stripe" /\ t.amount >= 0
        /\ session' = Append(session, new) /\ UNCHANGED <<inv, je, events>>
    BY DEF IInv, TxnOK, CreateSession
  <1>2. t \in Txn /\ t.op = "link" /\ t.id \in DOMAIN inv
    BY <1>1 DEF TxnGood
  <1>3. new \in Session
    BY <1>1, <1>2 DEF Txn, Session
  <1>4. new.inv \in DOMAIN inv
    BY <1>2
  <1> HIDE DEF new
  <1>5. /\ session' \in Seq(Session) /\ Len(session') = Len(session) + 1
        /\ Len(session) \in Nat /\ session'[Len(session) + 1] = new
        /\ \A s \in DOMAIN session : s \in DOMAIN session' /\ session'[s] = session[s]
        /\ \A s \in DOMAIN session' : s \in DOMAIN session \/ s = Len(session) + 1
    BY <1>1, <1>3 DEF TypeOK
  <1>6. Grown
    <2>1. \A i \in DOMAIN inv : inv[i].link \in 0..Len(session')
      BY <1>1, <1>5 DEF TypeOK
    <2> QED
      BY <1>1, <1>5, <2>1 DEF Grown, TypeOK
  <1>7. SessionsOK'
    BY <1>1, <1>4, <1>5 DEF SessionsOK, TypeOK
  <1>8. HasMaxNumber' /\ ReversalsOK' /\ InvoiceNumbersConsecutive'
    BY <1>1 DEF IInv, HasMaxNumber, Numbers, ReversalsOK, InvoiceNumbersConsecutive
  <1> DEFINE u == [t EXCEPT !.session = Len(session) + 1, !.pc = "commit"]
  <1>9. txn' = [txn EXCEPT ![r] = u]
    BY DEF CreateSession
  <1>10. PICK x : x = t
    OBVIOUS
  <1>11. TxnGood(x)'
    BY <1>1, <1>6, <1>10, StillGood
  <1>12. PICK n : n = Len(session) + 1
    OBVIOUS
  <1>13. n \in Nat /\ n \in DOMAIN session'
    BY <1>5, <1>12
  <1>14. TxnGood([x EXCEPT !.session = n, !.pc = "commit"])'
    BY <1>2, <1>10, <1>11, <1>13 DEF TxnGood, Txn
  <1> QED
    BY <1>6, <1>7, <1>8, <1>9, <1>10, <1>12, <1>14, Establish DEF Kept


-----------------------------------------------------------------------------
(* The steps that write.                                                   *)

\* A row of an invoice is written, with the links it had or new ones.
LEMMA RowWritten ==
  ASSUME IInv, NEW i \in DOMAIN inv, NEW row \in Invoice,
         row.number = inv[i].number, row.link \in 0..Len(session),
         row.je \in 0..Len(je'),
         inv' = [inv EXCEPT ![i] = row],
         je' \in Seq(Entry), Len(je) <= Len(je'),
         \A k \in DOMAIN je : je'[k].period = je[k].period /\ je'[k].amount = je[k].amount,
         HasMaxNumber', ReversalsOK', UNCHANGED session, events' \subseteq events
  PROVE  Kept
  <1>1. TypeOK /\ SessionsOK /\ InvoiceNumbersConsecutive
    BY DEF IInv
  <1>2. /\ inv \in Seq(Invoice) /\ i \in 1..Len(inv) /\ Len(inv) \in Nat
        /\ DOMAIN inv = 1..Len(inv) /\ Len(je) \in Nat /\ Len(je') \in Nat
    BY <1>1 DEF TypeOK
  <1>3. /\ inv' \in Seq(Invoice) /\ Len(inv') = Len(inv) /\ DOMAIN inv' = DOMAIN inv
        /\ inv'[i] = row /\ \A x \in DOMAIN inv : x # i => inv'[x] = inv[x]
    BY <1>2, ExceptSeq
  <1>4. Grown
    <2>1. \A x \in DOMAIN inv' : inv'[x].je \in 0..Len(je') /\ inv'[x].link \in 0..Len(session')
      BY <1>1, <1>2, <1>3 DEF TypeOK
    <2> QED
      BY <1>1, <1>2, <1>3, <2>1 DEF Grown, TypeOK
  <1>5. SessionsOK'
    BY <1>1, <1>3 DEF SessionsOK
  <1>6. InvoiceNumbersConsecutive'
    BY <1>1, <1>3 DEF InvoiceNumbersConsecutive
  <1> QED
    BY <1>4, <1>5, <1>6 DEF Kept

\* The same when the journal is not written.
LEMMA RowStep ==
  ASSUME IInv, NEW r \in Req, NEW i \in DOMAIN inv, NEW row \in Invoice,
         row.number = inv[i].number, row.link \in 0..Len(session), row.je \in 0..Len(je),
         inv' = [inv EXCEPT ![i] = row], Finish(r),
         UNCHANGED <<je, session>>, events' \subseteq events
  PROVE  IInv'
  <1>1. HasMaxNumber' /\ ReversalsOK'
    BY DEF IInv, HasMaxNumber, Numbers, ReversalsOK
  <1>2. /\ je' \in Seq(Entry) /\ Len(je) <= Len(je')
        /\ \A k \in DOMAIN je : je'[k].period = je[k].period /\ je'[k].amount = je[k].amount
    BY DEF IInv, TypeOK
  <1>3. Kept
    BY <1>1, <1>2, RowWritten
  <1> QED
    BY <1>3, FinishStep

LEMMA OneRowStep ==
  ASSUME IInv, NEW r \in Req,
         \/ CommitUpdate(r) \/ CommitSend(r) \/ CommitPayUnbooked(r)
         \/ CommitVoidPlain(r) \/ CommitLink(r) \/ CommitWebhook(r)
  PROVE  IInv'
  <1> DEFINE t == txn[r]
  <1>1. TypeOK /\ TxnGood(t) /\ t \in Txn /\ t.pc = "commit"
    BY DEF IInv, TxnOK, TxnGood, CommitUpdate, CommitSend, CommitPayUnbooked,
           CommitVoidPlain, CommitLink, CommitWebhook, Committing
  <1>2. t.op \in {"lines", "tax_rate", "send", "pay", "void", "link", "webhook"}
    BY DEF CommitUpdate, CommitSend, CommitPayUnbooked, CommitVoidPlain, CommitLink,
           CommitWebhook, Committing
  <1>3. t.id \in DOMAIN inv
    BY <1>1, <1>2 DEF TxnGood
  <1> DEFINE i == inv[t.id]
  <1>4. i \in Invoice /\ i.je \in 0..Len(je) /\ i.link \in 0..Len(session)
    BY <1>1, <1>3 DEF TypeOK
  <1>5. ASSUME NEW row \in Invoice, row.number = i.number,
               row.link \in 0..Len(session), row.je \in 0..Len(je),
               inv' = [inv EXCEPT ![t.id] = row], Finish(r),
               UNCHANGED <<je, session>>, events' \subseteq events
        PROVE  IInv'
    BY <1>3, <1>5, RowStep
  <1>6. CASE CommitUpdate(r)
    <2>1. PICK row : row = Revised(i, t)
      OBVIOUS
    <2>2. inv' = [inv EXCEPT ![t.id] = row]
      BY <1>6, <2>1 DEF CommitUpdate
    <2>3. row \in Invoice /\ row.number = i.number /\ row.je = i.je /\ row.link = i.link
      BY <1>1, <1>4, <2>1, RevisedType
    <2> QED
      BY <1>4, <1>5, <1>6, <2>2, <2>3 DEF CommitUpdate
  <1>7. ASSUME NEW s \in Status, inv' = [inv EXCEPT ![t.id].status = s], Finish(r),
               UNCHANGED <<je, session>>, events' \subseteq events
        PROVE  IInv'
    <2>1. PICK row : row = [i EXCEPT !.status = s]
      OBVIOUS
    <2>2. row \in Invoice /\ row.number = i.number /\ row.je = i.je /\ row.link = i.link
      BY <1>4, <2>1 DEF Invoice
    <2>3. inv' = [inv EXCEPT ![t.id] = row]
      BY <1>7, <2>1
    <2> QED
      BY <1>4, <1>5, <1>7, <2>2, <2>3
  <1>8. CASE CommitSend(r)
    BY <1>7, <1>8 DEF CommitSend, Status
  <1>9. CASE CommitVoidPlain(r)
    BY <1>7, <1>9 DEF CommitVoidPlain, Status
  <1>10. CASE CommitPayUnbooked(r)
    <2>1. t.amount \in Nat
      BY <1>1, <1>10 DEF TxnGood, CommitPayUnbooked, Committing
    <2>2. PICK row : row = [i EXCEPT !.status = "paid", !.paid = t.amount, !.je = 0]
      OBVIOUS
    <2>3. row \in Invoice /\ row.number = i.number /\ row.je = 0 /\ row.link = i.link
      BY <1>4, <2>1, <2>2 DEF Invoice, Status
    <2>4. inv' = [inv EXCEPT ![t.id] = row]
      BY <1>10, <2>2 DEF CommitPayUnbooked, Paid
    <2>5. row.je \in 0..Len(je)
      BY <1>1, <2>3 DEF TypeOK
    <2> QED
      BY <1>4, <1>5, <1>10, <2>3, <2>4, <2>5 DEF CommitPayUnbooked
  <1>11. CASE CommitLink(r)
    <2>1. t.session \in DOMAIN session /\ t.session \in Nat
      BY <1>1, <1>11 DEF TxnGood, CommitLink, Committing, Txn
    <2>2. t.session \in 0..Len(session)
      BY <1>1, <2>1 DEF TypeOK
    <2>3. PICK row : row = [i EXCEPT !.link = t.session]
      OBVIOUS
    <2>4. row \in Invoice /\ row.number = i.number /\ row.je = i.je /\ row.link = t.session
      BY <1>4, <2>1, <2>3 DEF Invoice
    <2>5. inv' = [inv EXCEPT ![t.id] = row]
      BY <1>11, <2>3 DEF CommitLink
    <2> QED
      BY <1>4, <1>5, <1>11, <2>2, <2>4, <2>5 DEF CommitLink
  <1>12. CASE CommitWebhook(r)
    <2>1. Delivers(t)
      BY <1>1, <1>12 DEF TxnGood, CommitWebhook, Committing
    <2>2. session[t.session] \in Session
      BY <1>1, <2>1 DEF TypeOK, Delivers
    <2>3. t.amount \in Nat
      BY <2>1, <2>2 DEF Delivers, Session
    <2>4. PICK row : row = [i EXCEPT !.status = "paid", !.paid = t.amount]
      OBVIOUS
    <2>5. row \in Invoice /\ row.number = i.number /\ row.je = i.je /\ row.link = i.link
      BY <1>4, <2>3, <2>4 DEF Invoice, Status
    <2>6. inv' = [inv EXCEPT ![t.id] = row]
      BY <1>12, <2>4 DEF CommitWebhook
    <2> QED
      BY <1>4, <1>5, <1>12, <2>5, <2>6 DEF CommitWebhook
  <1> QED
    BY <1>6, <1>8, <1>9, <1>10, <1>11, <1>12

\* The number read may be too small, and is then taken; so a number that is free
\* is the next one, and a batch goes on from there.  So a create leaves the rows
\* there were, and after them one for each of the batch.
LEMMA CreatedRows ==
  ASSUME TypeOK, InvoiceNumbersConsecutive, NEW r \in Req, TxnGood(txn[r]), CommitCreate(r)
  PROVE  LET b == txn[r].batch IN
         /\ Len(inv) \in Nat /\ DOMAIN inv = 1..Len(inv)
         /\ Len(b) \in Nat /\ DOMAIN b = 1..Len(b)
         /\ inv' \in Seq(Invoice) /\ Len(inv') = Len(inv) + Len(b)
         /\ \A i \in DOMAIN inv : inv'[i] = inv[i]
         /\ \A k \in DOMAIN b : /\ b[k] \in Terms
                                /\ inv'[Len(inv) + k] = Draft(Len(inv) + k, b[k])
         /\ \A i \in DOMAIN inv' : i \notin DOMAIN inv => \E k \in DOMAIN b : i = Len(inv) + k
  <1> DEFINE t == txn[r]
             b == t.batch
             rows == [k \in DOMAIN b |-> Draft(t.num + k - 1, b[k])]
  <1>1. /\ TypeOK /\ InvoiceNumbersConsecutive /\ TxnGood(t)
        /\ t.op = "create" /\ t.pc = "commit"
        /\ \A k \in DOMAIN b : InvoiceNumberIsFree(t.num + k - 1)
        /\ inv' = inv \o rows /\ Finish(r) /\ UNCHANGED <<je, session, events>>
    BY DEF CommitCreate, Committing
  <1>2. b \in Seq(Terms) /\ t.num \in 1..(Len(inv) + 1)
    BY <1>1, InvoicesAssumption DEF TxnGood, Terms
  <1>3. inv \in Seq(Invoice) /\ Len(inv) \in Nat /\ DOMAIN inv = 1..Len(inv)
    BY <1>1 DEF TypeOK
  <1>4. /\ DOMAIN b = 1..Len(b) /\ Len(b) \in Nat
        /\ \A k \in DOMAIN b : b[k] \in Terms /\ k \in Nat /\ k >= 1
    BY <1>2
  <1>5. ASSUME NEW k \in DOMAIN b PROVE t.num = Len(inv) + 1
    <2>1. 1 \in DOMAIN b
      BY <1>4
    <2>2. InvoiceNumberIsFree(t.num)
      BY <1>1, <1>2, <2>1
    <2>3. t.num \notin 1..Len(inv)
      BY <1>1, <1>3, <2>2 DEF InvoiceNumberIsFree, InvoiceNumbersConsecutive
    <2> QED
      BY <1>2, <1>3, <2>3
  <1>6. ASSUME NEW k \in DOMAIN b
        PROVE  rows[k] \in Invoice /\ rows[k] = Draft(Len(inv) + k, b[k])
    <2>1. t.num + k - 1 = Len(inv) + k /\ Len(inv) + k \in Nat
      BY <1>3, <1>4, <1>5
    <2>2. rows[k] = Draft(Len(inv) + k, b[k])
      BY <2>1
    <2> QED
      BY <1>4, <2>1, <2>2, DraftType
  <1>7. rows \in Seq(Invoice) /\ Len(rows) = Len(b)
    <2>1. rows \in [1..Len(b) -> Invoice]
      BY <1>4, <1>6
    <2> QED
      BY <1>4, <2>1, IsASeq
  <1>8. DOMAIN rows = DOMAIN b
    OBVIOUS
  <1> HIDE DEF rows
  <1>9. /\ inv' \in Seq(Invoice) /\ Len(inv') = Len(inv) + Len(b)
        /\ \A i \in 1..Len(inv) : inv'[i] = inv[i]
        /\ \A k \in 1..Len(b) : inv'[Len(inv) + k] = rows[k]
    <2>1. PICK rs \in Seq(Invoice) : rs = rows /\ Len(rs) = Len(b)
      BY <1>7
    <2>2. inv' = inv \o rs
      BY <1>1, <2>1
    <2>3. /\ inv' \in Seq(Invoice) /\ Len(inv') = Len(inv) + Len(b)
          /\ \A i \in 1..(Len(inv) + Len(b)) :
               inv'[i] = IF i <= Len(inv) THEN inv[i] ELSE rs[i - Len(inv)]
      <3>1. /\ inv \o rs \in Seq(Invoice) /\ Len(inv \o rs) = Len(inv) + Len(rs)
            /\ \A i \in 1..(Len(inv) + Len(rs)) :
                 (inv \o rs)[i] = IF i <= Len(inv) THEN inv[i] ELSE rs[i - Len(inv)]
        <4>1. inv \in Seq(Invoice) /\ rs \in Seq(Invoice)
          BY <1>3, <2>1
        <4> QED
          BY <4>1, ConcatProperties, Zenon
      <3> QED
        BY <2>1, <2>2, <3>1, Zenon
    <2>4. \A i \in 1..Len(inv) : i \in 1..(Len(inv) + Len(b)) /\ i <= Len(inv)
      BY <1>3, <1>4
    <2>5. \A k \in 1..Len(b) : /\ Len(inv) + k \in 1..(Len(inv) + Len(b))
                              /\ ~(Len(inv) + k <= Len(inv)) /\ Len(inv) + k - Len(inv) = k
      BY <1>3, <1>4
    <2> QED
      BY <2>1, <2>3, <2>4, <2>5
  <1>10. ASSUME NEW i \in DOMAIN inv', i \notin DOMAIN inv
         PROVE  \E k \in DOMAIN b : i = Len(inv) + k
    <2>1. i - Len(inv) \in 1..Len(b) /\ i = Len(inv) + (i - Len(inv))
      BY <1>3, <1>4, <1>9, <1>10
    <2> QED
      BY <1>4, <2>1
  <1>11. \A k \in DOMAIN b : inv'[Len(inv) + k] = Draft(Len(inv) + k, b[k])
    BY <1>4, <1>6, <1>9
  <1> QED
    BY <1>3, <1>4, <1>9, <1>10, <1>11

LEMMA CommitCreateStep ==
  ASSUME IInv, NEW r \in Req, CommitCreate(r)
  PROVE  IInv'
  <1> DEFINE t == txn[r]
             b == t.batch
  <1>1. /\ TypeOK /\ SessionsOK /\ InvoiceNumbersConsecutive /\ TxnGood(t)
        /\ Finish(r) /\ UNCHANGED <<je, session, events>>
    BY DEF IInv, TxnOK, CommitCreate
  <1>2. /\ Len(inv) \in Nat /\ DOMAIN inv = 1..Len(inv)
        /\ Len(b) \in Nat /\ DOMAIN b = 1..Len(b)
        /\ inv' \in Seq(Invoice) /\ Len(inv') = Len(inv) + Len(b)
        /\ \A i \in DOMAIN inv : inv'[i] = inv[i]
        /\ \A k \in DOMAIN b : inv'[Len(inv) + k] = Draft(Len(inv) + k, b[k])
        /\ \A i \in DOMAIN inv' : i \notin DOMAIN inv => \E k \in DOMAIN b : i = Len(inv) + k
    BY <1>1, CreatedRows
  <1>3. ASSUME NEW i \in DOMAIN inv', i \notin DOMAIN inv
        PROVE  inv'[i].number = i /\ inv'[i].je = 0 /\ inv'[i].link = 0
    <2>1. PICK k \in DOMAIN b : i = Len(inv) + k
      BY <1>2, <1>3
    <2>2. inv'[i] = Draft(i, b[k])
      BY <1>2, <2>1
    <2> QED
      BY <2>2 DEF Draft
  <1>4. Grown
    <2>1. \A i \in DOMAIN inv' : inv'[i].je \in 0..Len(je) /\ inv'[i].link \in 0..Len(session)
      <3> SUFFICES ASSUME NEW i \in DOMAIN inv'
                   PROVE  inv'[i].je \in 0..Len(je) /\ inv'[i].link \in 0..Len(session)
        OBVIOUS
      <3>1. 0 \in 0..Len(je) /\ 0 \in 0..Len(session)
        BY <1>1 DEF TypeOK
      <3>2. CASE i \in DOMAIN inv
        BY <1>1, <1>2, <3>2 DEF TypeOK
      <3>3. CASE i \notin DOMAIN inv
        BY <1>3, <3>1, <3>3
      <3> QED
        BY <3>2, <3>3
    <2> QED
      BY <1>1, <1>2, <2>1 DEF Grown, TypeOK
  <1>5. SessionsOK'
    <2>1. DOMAIN inv \subseteq DOMAIN inv'
      BY <1>2
    <2> QED
      BY <1>1, <2>1 DEF SessionsOK
  <1>6. InvoiceNumbersConsecutive'
    <2>1. \A i \in DOMAIN inv' : inv'[i].number = i
      BY <1>1, <1>2, <1>3 DEF InvoiceNumbersConsecutive
    <2> QED
      BY <2>1 DEF InvoiceNumbersConsecutive
  <1>7. HasMaxNumber' /\ ReversalsOK'
    BY <1>1 DEF IInv, HasMaxNumber, Numbers, ReversalsOK
  <1> QED
    BY <1>1, <1>4, <1>5, <1>6, <1>7, FinishStep DEF Kept

\* A new entry may raise the maximum of its period.
LEMMA MaxNumberKept ==
  ASSUME TypeOK, HasMaxNumber, NEW e \in Entry,
         DOMAIN je' = DOMAIN je \cup {Len(je) + 1}, je'[Len(je) + 1] = e,
         \A k \in DOMAIN je : je'[k].period = je[k].period /\ je'[k].number = je[k].number
  PROVE  HasMaxNumber'
  <1> SUFFICES ASSUME NEW p \in Period
               PROVE  \E m \in Numbers(p)' \cup {0} : \A n \in Numbers(p)' : n <= m
    BY DEF HasMaxNumber
  <1>1. PICK m \in Numbers(p) \cup {0} : \A n \in Numbers(p) : n <= m
    BY DEF HasMaxNumber
  <1>2. Numbers(p) \in SUBSET Nat /\ m \in Nat /\ e.number \in Nat
    BY <1>1, NumbersType DEF Entry
  <1>3. Len(je) + 1 \notin DOMAIN je
    BY DEF TypeOK
  <1>4. Numbers(p)' = Numbers(p) \cup (IF e.period = p THEN {e.number} ELSE {})
    BY <1>3 DEF Numbers
  <1>5. CASE e.period = p /\ e.number > m
    <2>1. \A n \in Numbers(p)' : n <= e.number
      BY <1>1, <1>2, <1>4, <1>5
    <2> QED
      BY <1>4, <1>5, <2>1
  <1>6. CASE ~(e.period = p /\ e.number > m)
    BY <1>1, <1>2, <1>4, <1>6
  <1> QED
    BY <1>5, <1>6

LEMMA CommitPayBookedStep ==
  ASSUME IInv, NEW r \in Req, CommitPayBooked(r)
  PROVE  IInv'
  <1> DEFINE t == txn[r]
             e == [period |-> t.period, number |-> t.num, status |-> "posted",
                   amount |-> t.amount, inv |-> t.id, reverses |-> 0]
             row == [inv[t.id] EXCEPT !.status = "paid", !.paid = t.amount, !.je = Len(je) + 1]
  <1>1. /\ TypeOK /\ HasMaxNumber /\ ReversalsOK /\ TxnGood(t) /\ t \in Txn
        /\ t.op = "pay" /\ t.period # NoPeriod
        /\ je' = Append(je, e) /\ Finish(r) /\ UNCHANGED <<session, events>>
    BY DEF IInv, TxnOK, TxnGood, CommitPayBooked, Committing
  <1>2. inv' = [inv EXCEPT ![t.id] = row]
    BY DEF CommitPayBooked, Paid
  <1>3. t.id \in DOMAIN inv /\ t.amount \in Nat /\ t.period \in Period
    BY <1>1 DEF TxnGood, Txn
  <1>4. e \in Entry /\ e.reverses = 0 /\ e.status = "posted"
    BY <1>1, <1>3 DEF Txn, Entry
  <1>5. je \in Seq(Entry) /\ Len(je) \in Nat /\ DOMAIN je = 1..Len(je)
    BY <1>1 DEF TypeOK
  <1>6. inv[t.id] \in Invoice /\ inv[t.id].link \in 0..Len(session)
    BY <1>1, <1>3 DEF TypeOK
  <1>7. /\ row \in Invoice /\ row.number = inv[t.id].number
        /\ row.link = inv[t.id].link /\ row.je = Len(je) + 1
    <2>1. PICK n \in Nat : n = Len(je) + 1
      BY <1>5
    <2>2. row = [inv[t.id] EXCEPT !.status = "paid", !.paid = t.amount, !.je = n]
      BY <2>1
    <2> HIDE DEF row
    <2> QED
      BY <1>3, <1>6, <2>1, <2>2 DEF Invoice, Status
  <1> HIDE DEF e, row
  <1>8. /\ je' \in Seq(Entry) /\ Len(je') = Len(je) + 1
        /\ DOMAIN je' = DOMAIN je \cup {Len(je) + 1} /\ je'[Len(je) + 1] = e
        /\ \A k \in DOMAIN je : je'[k] = je[k]
    BY <1>1, <1>4, <1>5
  <1>9. HasMaxNumber'
    BY <1>1, <1>4, <1>8, MaxNumberKept
  <1>10. ReversalsOK'
    <2>1. \A k \in DOMAIN je : je[k].reverses \in Nat /\ je[k].reverses < k
      <3>1. \A k \in DOMAIN je : je[k] \in Entry
        BY <1>5
      <3> QED
        BY <1>1, <3>1 DEF ReversalsOK, Entry
    <2>2. Len(je) + 1 \notin DOMAIN je /\ 0 \notin DOMAIN je'
      BY <1>5, <1>8
    <2>3. \A m \in DOMAIN je' : je'[m].reverses < m
      BY <1>4, <1>5, <1>8, <2>1
    <2>4. \A m \in DOMAIN je' : je'[m].reverses # Len(je) + 1
      BY <1>4, <1>5, <1>8, <2>1
    <2>5. \A k \in DOMAIN je' :
            je'[k].status = "voided" <=> \E m \in DOMAIN je' : je'[m].reverses = k
      BY <1>1, <1>4, <1>8, <2>2, <2>4 DEF ReversalsOK
    <2>6. \A k, m \in DOMAIN je' :
            je'[m].reverses = k => je'[m].amount = je'[k].amount /\ je'[m].period = je'[k].period
      BY <1>1, <1>4, <1>8, <2>2, <2>4 DEF ReversalsOK
    <2>7. \A m, n \in DOMAIN je' :
            je'[m].reverses # 0 /\ je'[m].reverses = je'[n].reverses => m = n
      BY <1>1, <1>4, <1>8 DEF ReversalsOK
    <2> QED
      BY <2>3, <2>5, <2>6, <2>7 DEF ReversalsOK
  <1>11. row.je \in 0..Len(je') /\ row.link \in 0..Len(session) /\ Len(je) <= Len(je')
    BY <1>5, <1>6, <1>7, <1>8
  <1>12. Kept
    BY <1>1, <1>2, <1>3, <1>7, <1>8, <1>9, <1>10, <1>11, RowWritten
  <1> QED
    BY <1>1, <1>12, FinishStep

\* The entry was posted, so nothing reverses it yet.
LEMMA CommitVoidReversalStep ==
  ASSUME IInv, NEW r \in Req, CommitVoidReversal(r)
  PROVE  IInv'
  <1> DEFINE t == txn[r]
             v == t.je
             e == [period |-> t.period, number |-> t.num, status |-> "posted",
                   amount |-> t.amount, inv |-> t.id, reverses |-> v]
             row == [inv[t.id] EXCEPT !.status = "voided"]
  <1>1. /\ TypeOK /\ HasMaxNumber /\ ReversalsOK /\ TxnGood(t) /\ t \in Txn
        /\ t.op = "void" /\ t.pc = "commit" /\ v # 0 /\ je[v].status = "posted"
        /\ je' = Append([je EXCEPT ![v].status = "voided"], e)
        /\ Finish(r) /\ UNCHANGED <<session, events>>
    BY DEF IInv, TxnOK, TxnGood, CommitVoidReversal, Committing, TriggerAllowsVoid
  <1>2. inv' = [inv EXCEPT ![t.id] = row]
    BY DEF CommitVoidReversal
  <1>3. t.id \in DOMAIN inv /\ Reverses(t)
    BY <1>1 DEF TxnGood
  <1>4. /\ je \in Seq(Entry) /\ Len(je) \in Nat /\ DOMAIN je = 1..Len(je)
        /\ v \in DOMAIN je /\ je[v] \in Entry
    BY <1>1, <1>3 DEF TypeOK, Reverses
  <1>5. /\ e \in Entry /\ e.reverses = v /\ e.status = "posted"
        /\ e.period = je[v].period /\ e.amount = je[v].amount
    BY <1>1, <1>3, <1>4 DEF Txn, Entry, Reverses
  <1>6. inv[t.id] \in Invoice /\ inv[t.id].link \in 0..Len(session) /\ inv[t.id].je \in 0..Len(je)
    BY <1>1, <1>3 DEF TypeOK
  <1>7. /\ row \in Invoice /\ row.number = inv[t.id].number
        /\ row.link = inv[t.id].link /\ row.je = inv[t.id].je
    BY <1>6 DEF Invoice, Status
  <1> DEFINE old == [je[v] EXCEPT !.status = "voided"]
  <1>8. /\ old \in Entry /\ old.status = "voided" /\ old.period = je[v].period
        /\ old.number = je[v].number /\ old.amount = je[v].amount
        /\ old.reverses = je[v].reverses
    BY <1>4 DEF Entry
  <1>9. [je EXCEPT ![v].status = "voided"] = [je EXCEPT ![v] = old]
    OBVIOUS
  <1>10. je' = Append([je EXCEPT ![v] = old], e)
    BY <1>1, <1>9
  <1> HIDE DEF e, row, old
  <1>11. /\ je' \in Seq(Entry) /\ Len(je') = Len(je) + 1
         /\ DOMAIN je' = DOMAIN je \cup {Len(je) + 1} /\ je'[Len(je) + 1] = e
         /\ je'[v] = old /\ \A k \in DOMAIN je : k # v => je'[k] = je[k]
    <2>1. /\ [je EXCEPT ![v] = old] \in Seq(Entry) /\ Len([je EXCEPT ![v] = old]) = Len(je)
          /\ [je EXCEPT ![v] = old][v] = old
          /\ \A k \in DOMAIN je : k # v => [je EXCEPT ![v] = old][k] = je[k]
      BY <1>4, <1>8, ExceptSeq
    <2>2. PICK x \in Seq(Entry) : x = [je EXCEPT ![v] = old]
      BY <2>1
    <2> QED
      BY <1>4, <1>5, <1>10, <2>1, <2>2
  <1>12. HasMaxNumber'
    BY <1>1, <1>5, <1>8, <1>11, MaxNumberKept
  <1>13. ReversalsOK'
    <2>1. \A k \in DOMAIN je : je[k].reverses \in Nat /\ je[k].reverses < k
      <3>1. \A k \in DOMAIN je : je[k] \in Entry
        BY <1>4
      <3> QED
        BY <1>1, <3>1 DEF ReversalsOK, Entry
    <2>2. Len(je) + 1 \notin DOMAIN je /\ 0 \notin DOMAIN je' /\ v < Len(je) + 1
      BY <1>4, <1>11
    <2>3. \A k \in DOMAIN je : /\ je'[k].reverses = je[k].reverses
                               /\ je'[k].amount = je[k].amount /\ je'[k].period = je[k].period
                               /\ k # v => je'[k].status = je[k].status
      BY <1>8, <1>11
    <2>4. \A m \in DOMAIN je : je[m].reverses # v
      BY <1>1, <1>4 DEF ReversalsOK
    <2>5. \A m \in DOMAIN je' : je'[m].reverses < m
      BY <1>5, <1>11, <2>1, <2>2, <2>3
    <2>6. \A m \in DOMAIN je' : je'[m].reverses # Len(je) + 1
      BY <1>4, <1>5, <1>11, <2>1, <2>2, <2>3
    <2>7. \A k \in DOMAIN je' :
            je'[k].status = "voided" <=> \E m \in DOMAIN je' : je'[m].reverses = k
      <3> SUFFICES ASSUME NEW k \in DOMAIN je'
                   PROVE  je'[k].status = "voided" <=> \E m \in DOMAIN je' : je'[m].reverses = k
        OBVIOUS
      <3>1. CASE k = Len(je) + 1
        BY <1>5, <1>11, <2>6, <3>1
      <3>2. CASE k = v
        BY <1>5, <1>8, <1>11, <3>2
      <3>3. CASE k \in DOMAIN je /\ k # v
        BY <1>1, <1>5, <1>11, <2>3, <3>3 DEF ReversalsOK
      <3> QED
        BY <1>11, <3>1, <3>2, <3>3
    <2>8. \A k, m \in DOMAIN je' :
            je'[m].reverses = k => je'[m].amount = je'[k].amount /\ je'[m].period = je'[k].period
      BY <1>1, <1>4, <1>5, <1>11, <2>3, <2>6 DEF ReversalsOK
    <2>9. \A m, n \in DOMAIN je' :
            je'[m].reverses # 0 /\ je'[m].reverses = je'[n].reverses => m = n
      BY <1>1, <1>5, <1>11, <2>3, <2>4 DEF ReversalsOK
    <2> QED
      BY <2>5, <2>7, <2>8, <2>9 DEF ReversalsOK
  <1>14. row.je \in 0..Len(je') /\ row.link \in 0..Len(session) /\ Len(je) <= Len(je')
    BY <1>4, <1>6, <1>7, <1>11
  <1>15. \A k \in DOMAIN je : je'[k].period = je[k].period /\ je'[k].amount = je[k].amount
    BY <1>8, <1>11
  <1>16. Kept
    BY <1>1, <1>2, <1>3, <1>7, <1>11, <1>12, <1>13, <1>14, <1>15, RowWritten
  <1> QED
    BY <1>1, <1>16, FinishStep

-----------------------------------------------------------------------------
LEMMA CustomerPaysStep ==
  ASSUME IInv, NEW s \in DOMAIN session, CustomerPays(s)
  PROVE  IInv' /\ Grown
  <1>1. /\ TypeOK /\ TxnOK /\ SessionsOK /\ session[s] \in Session
        /\ session' = [session EXCEPT ![s].state = "complete"]
        /\ events' = events \cup {s} /\ UNCHANGED <<inv, je, txn>>
    BY DEF IInv, TypeOK, CustomerPays
  <1>2. PICK row \in Session : row = [session[s] EXCEPT !.state = "complete"]
    BY <1>1 DEF Session
  <1>3. /\ session' = [session EXCEPT ![s] = row] /\ row.state = "complete"
        /\ row.inv = session[s].inv /\ row.amount = session[s].amount
    BY <1>1, <1>2 DEF Session
  <1>4. /\ session' \in Seq(Session) /\ Len(session') = Len(session)
        /\ DOMAIN session' = DOMAIN session /\ session'[s] = row
        /\ \A x \in DOMAIN session : x # s => session'[x] = session[x]
    <2>1. session \in Seq(Session) /\ s \in 1..Len(session)
      BY <1>1 DEF TypeOK
    <2> QED
      BY <1>3, <2>1, ExceptSeq
  <1>5. Grown
    BY <1>1, <1>3, <1>4 DEF Grown, TypeOK
  <1>6. TxnOK'
    <2>1. ASSUME NEW q \in Req PROVE TxnGood(txn[q])'
      <3>1. PICK u : u = txn[q]
        OBVIOUS
      <3>2. TxnGood(u)'
        BY <1>1, <1>5, <3>1, StillGood DEF TxnOK
      <3> QED
        BY <1>1, <3>1, <3>2 DEF TxnGood, Delivers, Reverses
    <2> QED
      BY <1>1, <2>1 DEF TxnOK
  <1>7. TypeOK'
    BY <1>1, <1>5 DEF TypeOK, Grown
  <1>8. SessionsOK'
    BY <1>1, <1>3, <1>4 DEF SessionsOK, TypeOK
  <1>9. HasMaxNumber' /\ ReversalsOK' /\ InvoiceNumbersConsecutive'
    BY <1>1 DEF IInv, HasMaxNumber, Numbers, ReversalsOK, InvoiceNumbersConsecutive
  <1> QED
    BY <1>5, <1>6, <1>7, <1>8, <1>9 DEF IInv

LEMMA NextStep == IInv /\ [Next]_vars => IInv'
  <1> SUFFICES ASSUME IInv, [Next]_vars PROVE IInv'
    OBVIOUS
  <1>1. CASE UNCHANGED vars
    <2>1. TypeOK' /\ SessionsOK' /\ HasMaxNumber' /\ ReversalsOK' /\ InvoiceNumbersConsecutive'
      BY <1>1 DEF vars, IInv, TypeOK, SessionsOK, HasMaxNumber, Numbers, ReversalsOK,
                  InvoiceNumbersConsecutive
    <2>2. TxnOK'
      BY <1>1 DEF vars, IInv, TxnOK, TxnGood, Delivers, Reverses
    <2> QED
      BY <2>1, <2>2 DEF IInv
  <1>2. ASSUME NEW r \in Req, Read(r) PROVE IInv'
    BY <1>2, ReadLastInvoiceStep, ReadInvoiceStep, SkipWebhookStep, ReadEntryStep,
       ReadNumberStep, CreateSessionStep DEF Read
  <1>3. ASSUME NEW r \in Req, Commit(r) PROVE IInv'
    BY <1>3, CommitCreateStep, OneRowStep, CommitPayBookedStep, CommitVoidReversalStep DEF Commit
  <1>4. ASSUME NEW r \in Req, Rollback(r) PROVE IInv'
    <2>1. Kept
      BY <1>4, NothingWritten DEF Rollback
    <2> QED
      BY <1>4, <2>1, FinishStep DEF Rollback
  <1>5. CASE \E r \in Req : Start(r) \/ Read(r) \/ Commit(r) \/ Rollback(r)
    BY <1>2, <1>3, <1>4, <1>5, StartStep
  <1>6. CASE \E s \in DOMAIN session : CustomerPays(s)
    BY <1>6, CustomerPaysStep
  <1> QED
    BY <1>1, <1>5, <1>6 DEF Next

LEMMA Invariance == Spec => []IInv
  BY InitIInv, NextStep, PTL DEF Spec

-----------------------------------------------------------------------------
(* The theorems.                                                           *)

\* Every variable always has its type, and an invoice links an entry and a
\* checkout session that exist.
THEOREM TypeCorrect == Spec => []TypeOK
  <1>1. IInv => TypeOK
    BY DEF IInv
  <1> QED
    BY <1>1, Invariance, PTL

\* However many creates and batches race, invoices are numbered 1, 2, 3 ... in
\* the order of their ids.
THEOREM NumbersConsecutive == Spec => []InvoiceNumbersConsecutive
  <1>1. IInv => InvoiceNumbersConsecutive
    BY DEF IInv
  <1> QED
    BY <1>1, Invariance, PTL

\* Since entries and reversals are one to one.
LEMMA ReversedByOne == IInv => PaymentReversedOnce
  <1> SUFFICES ASSUME IInv, NEW k \in DOMAIN je
               PROVE  LET rev == {m \in DOMAIN je : je[m].reverses = k} IN
                      /\ Cardinality(rev) = (IF je[k].status = "voided" THEN 1 ELSE 0)
                      /\ \A m \in rev : je[m].amount = je[k].amount
                                       /\ je[m].period = je[k].period
    BY DEF PaymentReversedOnce
  <1> DEFINE rev == {m \in DOMAIN je : je[m].reverses = k}
  <1>1. k # 0 /\ ReversalsOK
    BY DEF IInv, TypeOK
  <1>2. \A m \in rev : je[m].amount = je[k].amount /\ je[m].period = je[k].period
    BY <1>1 DEF ReversalsOK
  <1>3. CASE je[k].status = "voided"
    <2>1. PICK m \in DOMAIN je : je[m].reverses = k
      BY <1>1, <1>3 DEF ReversalsOK
    <2>2. rev = {m}
      BY <1>1, <2>1 DEF ReversalsOK
    <2>3. Cardinality(rev) = 1
      BY <2>2, FS_Singleton
    <2> QED
      BY <1>2, <1>3, <2>3
  <1>4. CASE je[k].status # "voided"
    <2>1. rev = {}
      BY <1>1, <1>4 DEF ReversalsOK
    <2>2. Cardinality(rev) = 0
      BY <2>1, FS_EmptySet
    <2> QED
      BY <1>2, <1>4, <2>2
  <1> QED
    BY <1>3, <1>4

\* However many payments and voids race, an entry has one reversal if it is
\* voided and else none, in its period and of its amount.
THEOREM ReversedOnce == Spec => []PaymentReversedOnce
  BY ReversedByOne, Invariance, PTL

-----------------------------------------------------------------------------
(* What is paid online.                                                    *)

\* The checkout of invoice i for an amount, completed at Stripe.
Checkout(i, amount) ==
  \E s \in DOMAIN session : /\ session[s].inv = i
                            /\ session[s].state = "complete"
                            /\ session[s].amount = amount

\* A checkout that was completed stays so.
LEMMA CheckoutStays ==
  ASSUME IInv, [Next]_vars, NEW i, NEW a, Checkout(i, a)
  PROVE  Checkout(i, a)'
  <1>1. PICK s \in DOMAIN session :
          session[s].inv = i /\ session[s].state = "complete" /\ session[s].amount = a
    BY DEF Checkout
  <1>2. session \in Seq(Session)
    BY DEF IInv, TypeOK
  <1>3. CASE UNCHANGED session
    BY <1>1, <1>3 DEF Checkout
  <1>4. ASSUME NEW r \in Req, CreateSession(r) PROVE Checkout(i, a)'
    <2>1. PICK x : session' = Append(session, x)
      BY <1>4 DEF CreateSession
    <2>2. s \in DOMAIN session' /\ session'[s] = session[s]
      BY <1>2, <2>1
    <2> QED
      BY <1>1, <2>2 DEF Checkout
  <1>5. ASSUME NEW q \in DOMAIN session, CustomerPays(q) PROVE Checkout(i, a)'
    <2>1. Grown
      BY <1>5, CustomerPaysStep
    <2>2. s \in DOMAIN session'
      BY <1>2, <2>1 DEF Grown
    <2> QED
      BY <1>1, <2>1, <2>2 DEF Checkout, Grown
  <1>6. ASSUME NEW r \in Req, Start(r) \/ Commit(r) \/ Rollback(r) PROVE UNCHANGED session
    BY <1>6 DEF Start, BeginCreate, BeginUpdate, BeginPay, BeginOnInvoice, BeginWebhook, Begin,
       Commit, CommitCreate, CommitUpdate, CommitSend, CommitPayBooked, CommitPayUnbooked,
       CommitVoidReversal, CommitVoidPlain, CommitLink, CommitWebhook, Rollback
  <1>7. ASSUME NEW r \in Req, Read(r), ~CreateSession(r) PROVE UNCHANGED session
    BY <1>7 DEF Read, ReadLastInvoice, ReadInvoice, SkipWebhook, ReadEntry, ReadNumber, Advance
  <1> QED
    BY <1>3, <1>4, <1>5, <1>6, <1>7 DEF Next, vars

\* No step writes an amount paid, except a webhook, and it writes that of its
\* checkout.
LEMMA PaidOnline ==
  ASSUME IInv, [Next]_vars, "pay" \notin Ops, NEW i \in DOMAIN inv', inv'[i].paid # 0
  PROVE  \/ i \in DOMAIN inv /\ inv[i].paid = inv'[i].paid
         \/ \E a : a = inv'[i].paid /\ Checkout(i, a)
  <1> DEFINE Same == i \in DOMAIN inv /\ inv[i].paid = inv'[i].paid
  <1>1. inv \in Seq(Invoice) /\ \A x \in DOMAIN inv : inv[x] \in Invoice
    BY DEF IInv, TypeOK
  <1>2. CASE UNCHANGED inv
    BY <1>2
  <1>3. ASSUME NEW r \in Req, CommitCreate(r) PROVE Same
    <2> DEFINE b == txn[r].batch
               rows == [k \in DOMAIN b |-> Draft(txn[r].num + k - 1, b[k])]
    <2>1. inv' = inv \o rows /\ b \in Seq(Terms)
      BY <1>3, InvoicesAssumption DEF CommitCreate, Committing, IInv, TxnOK, TxnGood, Terms
    <2>2. \A k \in DOMAIN b : rows[k].paid = 0
      BY DEF Draft
    <2>3. Len(rows) = Len(b) /\ DOMAIN b = 1..Len(b) /\ Len(b) \in Nat
      BY <2>1
    <2> HIDE DEF rows
    <2>4. CASE i <= Len(inv)
      <3>1. i \in DOMAIN inv /\ inv'[i] = inv[i]
        BY <1>1, <2>1, <2>3, <2>4
      <3> QED
        BY <3>1
    <2>5. CASE ~(i <= Len(inv))
      <3>1. inv'[i] = rows[i - Len(inv)] /\ i - Len(inv) \in 1..Len(b)
        BY <1>1, <2>1, <2>3, <2>5
      <3> QED
        BY <2>2, <2>3, <3>1
    <2> QED
      BY <2>4, <2>5
  <1>4. ASSUME NEW x \in DOMAIN inv, NEW row, inv' = [inv EXCEPT ![x] = row],
               row.paid = inv[x].paid
        PROVE  Same
    BY <1>1, <1>4
  <1>5. ASSUME NEW r \in Req, Commit(r), ~CommitCreate(r), inv' # inv
        PROVE  Same \/ \E a : a = inv'[i].paid /\ Checkout(i, a)
    <2> DEFINE t == txn[r]
    <2>1. t.pc = "commit" /\ TxnGood(t) /\ t.op \notin {"none", "create"}
      BY <1>5 DEF IInv, TxnOK, Commit, CommitUpdate, CommitSend, CommitPayBooked,
         CommitPayUnbooked, CommitVoidReversal, CommitVoidPlain, CommitLink, CommitWebhook,
         Committing
    <2>2. t \in Txn /\ t.id \in DOMAIN inv /\ t.op \in Ops
      BY <2>1 DEF TxnGood
    <2>3. inv[t.id] \in Invoice
      BY <1>1, <2>2
    <2>4. CASE CommitUpdate(r)
      <3>1. Revised(inv[t.id], t).paid = inv[t.id].paid
        BY <2>2, <2>3, RevisedType
      <3>2. inv' = [inv EXCEPT ![t.id] = Revised(inv[t.id], t)]
        BY <2>4 DEF CommitUpdate
      <3> QED
        BY <1>4, <2>2, <3>1, <3>2
    <2>5. ASSUME NEW s, inv' = [inv EXCEPT ![t.id].status = s] PROVE Same
      <3>1. [inv[t.id] EXCEPT !.status = s].paid = inv[t.id].paid
        BY <2>3 DEF Invoice
      <3>2. inv' = [inv EXCEPT ![t.id] = [inv[t.id] EXCEPT !.status = s]]
        BY <2>5
      <3> QED
        BY <1>4, <2>2, <3>1, <3>2
    <2>6. CASE CommitSend(r) \/ CommitVoidReversal(r) \/ CommitVoidPlain(r)
      BY <2>5, <2>6 DEF CommitSend, CommitVoidReversal, CommitVoidPlain
    <2>7. CASE CommitLink(r)
      <3>1. [inv[t.id] EXCEPT !.link = t.session].paid = inv[t.id].paid
        BY <2>3 DEF Invoice
      <3>2. inv' = [inv EXCEPT ![t.id] = [inv[t.id] EXCEPT !.link = t.session]]
        BY <2>7 DEF CommitLink
      <3> QED
        BY <1>4, <2>2, <3>1, <3>2
    <2>8. CASE CommitWebhook(r)
      <3>1. Delivers(t)
        BY <2>1, <2>8 DEF TxnGood, CommitWebhook, Committing
      <3>2. inv' = [inv EXCEPT ![t.id] = [inv[t.id] EXCEPT !.status = "paid", !.paid = t.amount]]
        BY <2>8 DEF CommitWebhook
      <3>3. CASE i = t.id
        <4>1. inv'[i].paid = t.amount
          BY <1>1, <2>2, <2>3, <3>2, <3>3 DEF Invoice
        <4>2. Checkout(t.id, t.amount)
          BY <3>1 DEF Delivers, Checkout
        <4> QED
          BY <3>3, <4>1, <4>2
      <3>4. CASE i # t.id
        BY <1>1, <2>2, <3>2, <3>4
      <3> QED
        BY <3>3, <3>4
    <2>9. CASE CommitPayBooked(r) \/ CommitPayUnbooked(r)
      BY <2>2, <2>9 DEF CommitPayBooked, CommitPayUnbooked, Committing
    <2> QED
      BY <1>5, <2>4, <2>6, <2>7, <2>8, <2>9 DEF Commit
  <1>6. ASSUME NEW r \in Req, Start(r) \/ Read(r) \/ Rollback(r) PROVE UNCHANGED inv
    BY <1>6 DEF Start, BeginCreate, BeginUpdate, BeginPay, BeginOnInvoice, BeginWebhook, Begin,
       Read, ReadLastInvoice, ReadInvoice, SkipWebhook, ReadEntry, ReadNumber, CreateSession,
       Advance, Rollback
  <1>7. ASSUME NEW q \in DOMAIN session, CustomerPays(q) PROVE UNCHANGED inv
    BY <1>7 DEF CustomerPays
  <1> QED
    BY <1>2, <1>3, <1>5, <1>6, <1>7 DEF Next, vars

\* Unless someone pays by hand, what an invoice carries as paid is the amount
\* of a checkout of it that its customer completed, however deliveries repeat,
\* fail and race with voids and links.
THEOREM PaidAtStripe == Spec => []PaidByCheckout
  <1>1. Init => PaidByCheckout
    BY DEF Init, PaidByCheckout
  <1>2. ASSUME IInv, PaidByCheckout, [Next]_vars PROVE PaidByCheckout'
    <2> SUFFICES ASSUME "pay" \notin Ops, NEW i \in DOMAIN inv', inv'[i].paid # 0
                 PROVE  \E s \in DOMAIN session' : /\ session'[s].inv = i
                                                   /\ session'[s].state = "complete"
                                                   /\ session'[s].amount = inv'[i].paid
      BY DEF PaidByCheckout
    <2>1. PICK a : a = inv'[i].paid
      OBVIOUS
    <2>2. Checkout(i, a)
      <3>1. CASE i \in DOMAIN inv /\ inv[i].paid = inv'[i].paid
        BY <1>2, <2>1, <3>1 DEF PaidByCheckout, Checkout
      <3> QED
        BY <1>2, <2>1, <3>1, PaidOnline
    <2>3. Checkout(i, a)'
      BY <1>2, <2>2, CheckoutStays
    <2> QED
      BY <2>1, <2>3 DEF Checkout
  <1> QED
    BY <1>1, <1>2, Invariance, PTL DEF Spec

-----------------------------------------------------------------------------
(***************************************************************************)
(* Requests that do not overlap.                                           *)
(***************************************************************************)
OneAtATime == \A r, q \in Req : r = q

-----------------------------------------------------------------------------
(* The inductive invariant.                                                *)

\* Booked, of a journal e.
BookedIn(e, i) == {k \in DOMAIN e : e[k].inv = i /\ e[k].reverses = 0
                                    /\ e[k].status = "posted"}

\* Invoice i as a row v of a journal e: the total is that of the terms, only a
\* paid invoice has a payment booked, and the payment is the one it links.
RowGood(v, i, e) ==
  /\ v.terms \in Documents
  /\ v.total = Total(v.terms)
  /\ v.status # "paid" => BookedIn(e, i) = {}
  /\ BookedIn(e, i) \subseteq {v.je}
  /\ v.je # 0 => e[v.je].inv = i

RowsOK == \A i \in DOMAIN inv : RowGood(inv[i], i, je)

\* Entries are of invoices, and payments are of amounts that requests send.
EntriesOK == \A k \in DOMAIN je : /\ je[k].inv \in DOMAIN inv
                                  /\ je[k].reverses = 0 => je[k].amount \in Amount

\* The terms d with the change that an update brings.
Edited(t, d) == IF t.op = "lines" THEN [d EXCEPT !.subtotal = t.amount]
                                  ELSE [d EXCEPT !.tax_rate = t.amount]

\* What a request sent, and what it has read of its invoice v: alone, it finds
\* it unchanged when it writes.
Current(t, v, e) ==
  /\ t.op \in {"lines", "pay"} => t.amount \in Amount
  /\ t.op = "tax_rate" => t.amount \in TaxRate
  /\ t.op \notin {"none", "create"} /\ t.pc # "invoice" =>
       /\ v[t.id].status \in AllowedStatus(t.op)
       /\ t.op \in {"lines", "tax_rate"} => t.terms = Edited(t, v[t.id].terms)
       /\ t.op = "void" => \/ t.je = v[t.id].je
                           \/ t.je = 0 /\ BookedIn(e, t.id) = {}
       /\ t.op = "void" /\ t.pc # "commit" => t.je # 0

Serial == RowsOK /\ EntriesOK /\ \A r \in Req : Current(txn[r], inv, je)

-----------------------------------------------------------------------------
(* What the operators return.                                              *)

\* The sum of the amounts of entries is the sum of SetLemmas.
LEMMA CarriedIsSum ==
  ASSUME NEW e, NEW S, IsFiniteSet(S), \A k \in S : e[k].amount \in Int
  PROVE  Carried(e, S) = SumOver([k \in S |-> e[k].amount], S)
  <1> DEFINE h == [k \in S |-> e[k].amount]
             c == Arbitrary(S)
             Rec(f) == f = [s \in SUBSET S |->
                              IF s = {} THEN 0
                              ELSE LET x == CHOOSE x \in s : TRUE IN
                                   e[x].amount + f[s \ {x}]]
  <1>1. Carried(e, S) = (CHOOSE f : Rec(f))[S]
    BY Zenon DEF MapThenSumSet, MapThenFoldSet, Carried
  <1>2. ASSUME NEW f PROVE Rec(f) <=> Sums(h, c, S, f)
    <2>1. ASSUME NEW s \in SUBSET S, s # {}
          PROVE  (CHOOSE x \in s : TRUE) = c[s] /\ h[c[s]] = e[c[s]].amount
      BY <2>1 DEF Arbitrary
    <2>2. ASSUME NEW s \in SUBSET S, s # {}
          PROVE  (LET x == CHOOSE x \in s : TRUE IN e[x].amount + f[s \ {x}])
                   = h[c[s]] + f[s \ {c[s]}]
      <3> HIDE DEF c, h
      <3>1. (CHOOSE x \in s : TRUE) = c[s] /\ h[c[s]] = e[c[s]].amount
        BY <2>1, <2>2
      <3> QED
        BY <3>1, Zenon
    <2>3. [s \in SUBSET S |-> IF s = {} THEN 0
                              ELSE LET x == CHOOSE x \in s : TRUE IN
                                   e[x].amount + f[s \ {x}]]
            = [s \in SUBSET S |-> IF s = {} THEN 0 ELSE h[c[s]] + f[s \ {c[s]}]]
      <3> HIDE DEF c, h
      <3> QED
        BY <2>2, Zenon
    <2> QED
      BY <2>3, Zenon DEF Sums
  <1>3. Takes(c, S)
    BY ArbitraryTakes
  <1>4. \E f : Rec(f)
    <2>1. PICK g : Sums(h, c, S, g)
      <3> HIDE DEF h, c
      <3> QED
        BY <1>3, SumsExist
    <2>2. Rec(g)
      BY <1>2, <2>1, Zenon
    <2> QED
      BY <2>2, Zenon
  <1> DEFINE it == CHOOSE f : Rec(f)
  <1>5. Rec(it)
    BY <1>4, Zenon
  <1> HIDE DEF it
  <1>6. Sums(h, c, S, it)
    BY <1>2, <1>5, Zenon
  <1>7. S \in SUBSET S /\ \A x \in S : h[x] \in Int
    OBVIOUS
  <1> HIDE DEF h, c, Rec
  <1>8. it[S] = SumOver(h, S)
    BY <1>3, <1>6, <1>7, SumIs
  <1> QED
    BY <1>1, <1>8, Zenon DEF h, it

\* An invoice with at most one payment booked carries its amount, or nothing.
LEMMA CarriedIs ==
  ASSUME NEW e, NEW S, NEW k, S \subseteq {k}, k \in S => e[k].amount \in Int
  PROVE  Carried(e, S) = IF S = {} THEN 0 ELSE e[k].amount
  <1>1. IsFiniteSet(S) /\ \A m \in S : e[m].amount \in Int
    BY FS_Subset, FS_Singleton
  <1>2. PICK h : h = [m \in S |-> e[m].amount]
    OBVIOUS
  <1>3. Carried(e, S) = SumOver(h, S)
    BY <1>1, <1>2, CarriedIsSum
  <1>4. CASE S = {}
    BY <1>3, <1>4, SumEmpty
  <1>5. CASE S # {}
    <2>1. S = {k} /\ h[k] = e[k].amount /\ h[k] \in Int
      BY <1>1, <1>2, <1>5
    <2> QED
      BY <1>3, <1>5, <2>1, SumOne
  <1> QED
    BY <1>4, <1>5

\* What an invoice carries, in a journal e where rows are good.
LEMMA RowCarries ==
  ASSUME NEW e, \A k \in DOMAIN e : e[k].amount \in Int, NEW v, NEW i, RowGood(v, i, e)
  PROVE  /\ BookedIn(e, i) = {} => Carried(e, BookedIn(e, i)) = 0
         /\ BookedIn(e, i) # {} => Carried(e, BookedIn(e, i)) = e[v.je].amount
  <1>1. BookedIn(e, i) \subseteq DOMAIN e /\ BookedIn(e, i) \subseteq {v.je}
    BY DEF BookedIn, RowGood
  <1>2. PICK S : S = BookedIn(e, i)
    OBVIOUS
  <1>3. Carried(e, S) = IF S = {} THEN 0 ELSE e[v.je].amount
    BY <1>1, <1>2, CarriedIs
  <1> QED
    BY <1>2, <1>3

LEMMA SentType == Sent \subseteq Terms
  <1> SUFFICES ASSUME NEW b \in Batch, NEW k \in DOMAIN b PROVE b[k] \in Terms
    BY DEF Sent, Range
  <1>1. b \in Seq(Terms)
    BY InvoicesAssumption DEF Terms
  <1> QED
    BY <1>1

\* The terms sent are documents, as they are.
LEMMA SentAreDocuments == Sent \subseteq Documents
  <1> SUFFICES ASSUME NEW d \in Sent PROVE d \in Documents
    OBVIOUS
  <1>1. d = Form(d, d.subtotal, d.tax_rate)
    BY SentType DEF Terms, Form
  <1>2. d.subtotal \in Subtotals /\ d.tax_rate \in Rates
    BY DEF Subtotals, Rates
  <1> QED
    BY <1>1, <1>2 DEF Documents

\* Edits stay within the documents.
LEMMA EditedType ==
  ASSUME NEW d \in Documents, NEW t, t.op \in {"lines", "tax_rate"},
         t.op = "lines" => t.amount \in Amount,
         t.op = "tax_rate" => t.amount \in TaxRate
  PROVE  d \in Terms /\ Edited(t, d) \in Documents
  <1>1. \E s \in Sent, a \in Subtotals, q \in Rates : d = Form(s, a, q)
    BY DEF Documents
  <1>2. PICK s \in Sent, a \in Subtotals, q \in Rates : d = Form(s, a, q)
    BY <1>1
  <1>3. a \in Nat /\ q \in Nat /\ s \in Terms
    BY SentType, InvoicesAssumption DEF Terms, Subtotals, Rates
  <1>4. d \in Terms
    BY <1>2, <1>3 DEF Terms, Form
  <1>5. CASE t.op = "lines"
    <2>1. Edited(t, d) = Form(s, t.amount, q) /\ t.amount \in Subtotals
      BY <1>2, <1>3, <1>5 DEF Edited, Terms, Form, Subtotals
    <2> QED
      BY <1>4, <2>1 DEF Documents
  <1>6. CASE t.op = "tax_rate"
    <2>1. Edited(t, d) = Form(s, a, t.amount) /\ t.amount \in Rates
      BY <1>2, <1>3, <1>6 DEF Edited, Terms, Form, Rates
    <2> QED
      BY <1>4, <2>1 DEF Documents
  <1> QED
    BY <1>5, <1>6

-----------------------------------------------------------------------------
(* The invoices as a Receivable.                                           *)

\* Invoice v of a journal e.
AsDoc(s, a, n)  == [status |-> s, total |-> a, booked |-> n]
RowDoc(v, e, i) == AsDoc(v.status, v.total, Carried(e, BookedIn(e, i)))

LEMMA DocShape ==
  /\ Doc = [i \in DOMAIN inv |-> RowDoc(inv[i], je, i)]
  /\ Doc' = [i \in DOMAIN inv' |-> RowDoc(inv'[i], je', i)]
  <1>1. \A i : Booked(i) = BookedIn(je, i) /\ InLedger(i) = Carried(je, BookedIn(je, i))
    BY DEF Booked, BookedIn, InLedger
  <1>2. \A i : Booked(i)' = BookedIn(je', i) /\ InLedger(i)' = Carried(je', BookedIn(je', i))
    BY DEF Booked, BookedIn, InLedger
  <1>3. Doc = [i \in DOMAIN inv |-> RowDoc(inv[i], je, i)]
    BY <1>1 DEF Doc, RowDoc, AsDoc
  <1>4. Doc' = [i \in DOMAIN inv' |-> RowDoc(inv'[i], je', i)]
    BY <1>2 DEF Doc, RowDoc, AsDoc
  <1> QED
    BY <1>3, <1>4

LEMMA AmountType ==
  ASSUME TypeOK
  PROVE  \A k \in DOMAIN je : je[k].amount \in Int
  <1>1. \A k \in DOMAIN je : je[k] \in Entry
    BY DEF TypeOK
  <1> QED
    BY <1>1 DEF Entry

\* One row is written, and perhaps the journal, but for no other invoice.
LEMMA RowRefines ==
  ASSUME TypeOK, RowsOK, NEW i \in DOMAIN inv, NEW v, inv' = [inv EXCEPT ![i] = v],
         RowGood(v, i, je'), \A k \in DOMAIN je' : je'[k].amount \in Int,
         \A k \in DOMAIN je : k \in DOMAIN je' /\ je'[k].amount = je[k].amount
                              /\ je'[k].inv = je[k].inv,
         \A j \in DOMAIN inv : j # i => BookedIn(je', j) = BookedIn(je, j)
  PROVE  RowsOK' /\ Doc' = [Doc EXCEPT ![i] = RowDoc(v, je', i)]
  <1>1. DOMAIN inv' = DOMAIN inv /\ inv'[i] = v /\ \A j \in DOMAIN inv : j # i => inv'[j] = inv[j]
    OBVIOUS
  <1>2. \A k \in DOMAIN je : je[k].amount \in Int
    BY AmountType
  <1>3. ASSUME NEW j \in DOMAIN inv, j # i
        PROVE  RowGood(inv[j], j, je') /\ RowDoc(inv[j], je', j) = RowDoc(inv[j], je, j)
    <2>1. RowGood(inv[j], j, je) /\ BookedIn(je', j) = BookedIn(je, j)
      BY <1>3 DEF RowsOK
    <2>2. inv[j].je # 0 => inv[j].je \in DOMAIN je
      BY DEF TypeOK
    <2>3. RowGood(inv[j], j, je')
      BY <2>1, <2>2 DEF RowGood
    <2>4. BookedIn(je, j) # {} => inv[j].je \in DOMAIN je
      BY <2>1 DEF RowGood, BookedIn
    <2>5. Carried(je', BookedIn(je', j)) = Carried(je, BookedIn(je, j))
      BY <1>2, <2>1, <2>3, <2>4, RowCarries
    <2> QED
      BY <2>3, <2>5 DEF RowDoc
  <1>4. RowsOK'
    <2>1. \A j \in DOMAIN inv' : RowGood(inv'[j], j, je')
      BY <1>1, <1>3
    <2> QED
      BY <2>1 DEF RowsOK
  <1>5. Doc' = [Doc EXCEPT ![i] = RowDoc(v, je', i)]
    <2>1. Doc = [j \in DOMAIN inv |-> RowDoc(inv[j], je, j)]
      BY DocShape
    <2>2. Doc' = [j \in DOMAIN inv |-> RowDoc(inv'[j], je', j)]
      BY <1>1, DocShape
    <2>3. \A j \in DOMAIN inv : j # i => RowDoc(inv'[j], je', j) = RowDoc(inv[j], je, j)
      BY <1>1, <1>3
    <2>4. [Doc EXCEPT ![i] = RowDoc(v, je', i)]
            = [j \in DOMAIN inv |-> IF j = i THEN RowDoc(v, je', i) ELSE RowDoc(inv[j], je, j)]
      BY <2>1
    <2> QED
      BY <1>1, <2>2, <2>3, <2>4
  <1> QED
    BY <1>4, <1>5

-----------------------------------------------------------------------------
(* The steps that write neither invoices nor the journal.                  *)

LEMMA NothingChanged ==
  ASSUME UNCHANGED <<inv, je>>
  PROVE  Doc' = Doc
  BY DocShape

\* The request in flight learns what is true.
LEMMA SerialRead ==
  ASSUME OneAtATime, TxnOK, Serial, NEW r \in Req, NEW u, Current(u, inv, je),
         txn' = [txn EXCEPT ![r] = u], UNCHANGED <<inv, je>>
  PROVE  Serial'
  <1>1. RowsOK' /\ EntriesOK'
    BY DEF Serial, RowsOK, EntriesOK
  <1>2. ASSUME NEW q \in Req PROVE Current(txn[q], inv, je)'
    <2>1. q = r /\ txn'[q] = u
      BY DEF OneAtATime, TxnOK
    <2> QED
      BY <2>1
  <1> QED
    BY <1>1, <1>2 DEF Serial

LEMMA IdleCurrent ==
  ASSUME NEW v, NEW e
  PROVE  Current(Idle, v, e)
  BY DEF Current, Idle

LEMMA StartSerial ==
  ASSUME OneAtATime, IInv, Serial, NEW r \in Req, Start(r)
  PROVE  Serial' /\ UNCHANGED <<inv, je>>
  <1>1. ASSUME NEW op, NEW u, Begin(r, op, u), Current([u EXCEPT !.op = op], inv, je)
        PROVE  Serial' /\ UNCHANGED <<inv, je>>
    BY <1>1, SerialRead DEF Begin, IInv
  <1>2. CASE BeginCreate(r)
    <2>1. PICK b \in Batch : Begin(r, "create", [Idle EXCEPT !.pc = "last", !.batch = b])
      BY <1>2 DEF BeginCreate
    <2>2. Current([[Idle EXCEPT !.pc = "last", !.batch = b] EXCEPT !.op = "create"], inv, je)
      BY DEF Current, Idle
    <2> QED
      BY <1>1, <2>1, <2>2
  <1>3. CASE BeginPay(r)
    <2>1. PICK i \in DOMAIN inv, a \in Amount, p \in Period \cup {NoPeriod} :
            Begin(r, "pay", [Idle EXCEPT !.pc = "invoice", !.id = i, !.amount = a,
                                         !.period = p])
      BY <1>3 DEF BeginPay
    <2>2. Current([[Idle EXCEPT !.pc = "invoice", !.id = i, !.amount = a, !.period = p]
                     EXCEPT !.op = "pay"], inv, je)
      BY DEF Current, Idle
    <2> QED
      BY <1>1, <2>1, <2>2
  <1>4. CASE BeginUpdate(r)
    <2>1. PICK op \in {"lines", "tax_rate"}, i \in DOMAIN inv, a \in Amount \cup TaxRate :
            /\ op = "lines" => a \in Amount
            /\ op = "tax_rate" => a \in TaxRate
            /\ Begin(r, op, [Idle EXCEPT !.pc = "invoice", !.id = i, !.amount = a])
      BY <1>4 DEF BeginUpdate
    <2>2. Current([[Idle EXCEPT !.pc = "invoice", !.id = i, !.amount = a] EXCEPT !.op = op],
                  inv, je)
      BY <2>1 DEF Current, Idle
    <2> QED
      BY <1>1, <2>1, <2>2
  <1>5. CASE BeginWebhook(r)
    <2>1. PICK s \in events :
            Begin(r, "webhook", [Idle EXCEPT !.pc = "invoice", !.id = session[s].inv,
                                             !.amount = session[s].amount, !.session = s])
      BY <1>5 DEF BeginWebhook
    <2>2. Current([[Idle EXCEPT !.pc = "invoice", !.id = session[s].inv,
                                !.amount = session[s].amount, !.session = s]
                     EXCEPT !.op = "webhook"], inv, je)
      BY DEF Current, Idle
    <2> QED
      BY <1>1, <2>1, <2>2
  <1>6. ASSUME NEW op \in Ops, BeginOnInvoice(r, op)
        PROVE  Serial' /\ UNCHANGED <<inv, je>>
    <2>1. op \in {"send", "void", "link"}
      BY <1>6 DEF BeginOnInvoice
    <2>2. PICK i \in DOMAIN inv : Begin(r, op, [Idle EXCEPT !.pc = "invoice", !.id = i])
      BY <1>6 DEF BeginOnInvoice
    <2>3. Current([[Idle EXCEPT !.pc = "invoice", !.id = i] EXCEPT !.op = op], inv, je)
      BY <2>1 DEF Current, Idle
    <2> QED
      BY <1>1, <2>2, <2>3
  <1> QED
    BY <1>2, <1>3, <1>4, <1>5, <1>6 DEF Start

\* What a later read adds: not what Current is about.
LEMMA StillCurrent ==
  ASSUME NEW t, NEW u, Current(t, inv, je), t.pc # "invoice",
         u.op = t.op, u.id = t.id, u.amount = t.amount, u.terms = t.terms, u.je = t.je,
         u.op = "void" => t.je # 0 \/ u.pc = "commit"
  PROVE  Current(u, inv, je)
  BY DEF Current, Edited

\* What it reads of its invoice is what the row holds.
LEMMA ReadInvoiceSerial ==
  ASSUME OneAtATime, IInv, Serial, NEW r \in Req, ReadInvoice(r)
  PROVE  Serial' /\ UNCHANGED <<inv, je>>
  <1> DEFINE t == txn[r]
  <1>1. /\ TypeOK /\ TxnOK /\ TxnGood(t) /\ t.pc = "invoice" /\ Current(t, inv, je)
        /\ inv[t.id].status \in AllowedStatus(t.op)
    BY DEF IInv, TxnOK, ReadInvoice, Serial
  <1>2. t \in Txn /\ t.op \in AllOps /\ t.op # "create"
    BY <1>1, InvoicesAssumption DEF TxnGood
  <1>3. PICK i : i = inv[t.id]
    OBVIOUS
  <1>4. PICK d : d = CASE t.op = "lines"    -> [i.terms EXCEPT !.subtotal = t.amount]
                       [] t.op = "tax_rate" -> [i.terms EXCEPT !.tax_rate = t.amount]
                       [] OTHER             -> NoTerms
    OBVIOUS
  <1>5. PICK a : a = IF t.op = "link" THEN i.total ELSE t.amount
    OBVIOUS
  <1>6. PICK pc : pc = CASE t.op = "pay" /\ t.period # NoPeriod -> "number"
                         [] t.op = "void" /\ i.je # 0           -> "entry"
                         [] t.op = "link"                       -> "stripe"
                         [] OTHER                               -> "commit"
    OBVIOUS
  <1> DEFINE u == [t EXCEPT !.je = i.je, !.terms = d, !.amount = a, !.pc = pc]
  <1>7. Advance(r, u)
    BY <1>3, <1>4, <1>5, <1>6 DEF ReadInvoice
  <1>8. /\ u.op = t.op /\ u.pc = pc /\ u.id = t.id /\ u.amount = a /\ u.je = i.je
        /\ u.terms = d
    BY <1>2 DEF Txn
  <1>9. /\ t.op = "lines" => d = [i.terms EXCEPT !.subtotal = t.amount]
        /\ t.op = "tax_rate" => d = [i.terms EXCEPT !.tax_rate = t.amount]
    BY <1>4
  <1>10. t.op = "void" => i.je # 0 \/ pc = "commit"
    BY <1>6
  <1> HIDE DEF u
  <1>11. Current(u, inv, je)
    BY <1>1, <1>3, <1>5, <1>8, <1>9, <1>10 DEF Current, Edited
  <1> QED
    BY <1>1, <1>7, <1>11, SerialRead DEF Advance

\* An entry that is not posted any more carries nothing for the invoice.
LEMMA ReadEntrySerial ==
  ASSUME OneAtATime, IInv, Serial, NEW r \in Req, ReadEntry(r)
  PROVE  Serial' /\ UNCHANGED <<inv, je>>
  <1> DEFINE t == txn[r]
  <1>1. /\ TypeOK /\ TxnOK /\ TxnGood(t) /\ t.pc = "entry" /\ Current(t, inv, je)
        /\ RowsOK
    BY DEF IInv, TxnOK, ReadEntry, Serial
  <1>2. t \in Txn /\ t.op = "void" /\ t.je \in DOMAIN je /\ t.id \in DOMAIN inv
    BY <1>1 DEF TxnGood
  <1>3. t.je = inv[t.id].je /\ t.je # 0 /\ inv[t.id].status \in AllowedStatus("void")
    BY <1>1, <1>2 DEF Current
  <1>4. CASE je[t.je].status = "posted"
    <2> DEFINE u == [t EXCEPT !.period = je[t.je].period, !.amount = je[t.je].amount,
                              !.pc = "number"]
    <2>1. Advance(r, u)
      BY <1>4 DEF ReadEntry
    <2>2. u.op = "void" /\ u.pc = "number" /\ u.je = t.je /\ u.id = t.id
      BY <1>2 DEF Txn
    <2> HIDE DEF u
    <2>3. Current(u, inv, je)
      BY <1>3, <2>2 DEF Current
    <2> QED
      BY <1>1, <2>1, <2>3, SerialRead DEF Advance
  <1>5. CASE je[t.je].status # "posted"
    <2> DEFINE u == [t EXCEPT !.je = 0, !.pc = "commit"]
    <2>1. Advance(r, u)
      BY <1>5 DEF ReadEntry
    <2>2. u.op = "void" /\ u.pc = "commit" /\ u.je = 0 /\ u.id = t.id
      BY <1>2 DEF Txn
    <2>3. BookedIn(je, t.id) = {}
      BY <1>1, <1>2, <1>3, <1>5 DEF RowsOK, RowGood, BookedIn
    <2> HIDE DEF u
    <2>4. Current(u, inv, je)
      BY <1>3, <2>2, <2>3 DEF Current
    <2> QED
      BY <1>1, <2>1, <2>4, SerialRead DEF Advance
  <1> QED
    BY <1>4, <1>5

LEMMA ReadSerial ==
  ASSUME OneAtATime, IInv, Serial, NEW r \in Req, Read(r)
  PROVE  Serial' /\ UNCHANGED <<inv, je>>
  <1> DEFINE t == txn[r]
  <1>1. TypeOK /\ TxnOK /\ TxnGood(t) /\ t \in Txn /\ Current(t, inv, je)
    BY DEF IInv, TxnOK, Serial, TxnGood
  <1>2. CASE ReadLastInvoice(r)
    <2>1. PICK n : n = IF inv = <<>> THEN 1 ELSE inv[Len(inv)].number + 1
      OBVIOUS
    <2> DEFINE u == [t EXCEPT !.num = n, !.pc = "commit"]
    <2>2. Advance(r, u) /\ t.pc = "last"
      BY <1>2, <2>1 DEF ReadLastInvoice
    <2>3. u.op = t.op /\ t.op = "create"
      BY <1>1, <2>2 DEF Txn, TxnGood
    <2> HIDE DEF u
    <2>4. Current(u, inv, je)
      BY <2>3 DEF Current
    <2> QED
      BY <1>1, <2>2, <2>4, SerialRead DEF Advance
  <1>3. CASE ReadInvoice(r)
    BY <1>3, ReadInvoiceSerial
  <1>4. CASE SkipWebhook(r)
    BY <1>1, <1>4, IdleCurrent, SerialRead DEF SkipWebhook
  <1>5. CASE ReadEntry(r)
    BY <1>5, ReadEntrySerial
  <1>6. CASE ReadNumber(r)
    <2>1. PICK n : n = Max(Numbers(t.period) \cup {0}) + 1
      OBVIOUS
    <2> DEFINE u == [t EXCEPT !.num = n, !.pc = "commit"]
    <2>2. Advance(r, u) /\ t.pc = "number"
      BY <1>6, <2>1 DEF ReadNumber
    <2>3. /\ u.op = t.op /\ u.pc = "commit" /\ u.je = t.je /\ u.id = t.id
          /\ u.amount = t.amount /\ u.terms = t.terms
      BY <1>1 DEF Txn
    <2> HIDE DEF u
    <2>4. Current(u, inv, je)
      BY <1>1, <2>2, <2>3, StillCurrent
    <2> QED
      BY <1>1, <2>2, <2>4, SerialRead DEF Advance
  <1>7. CASE CreateSession(r)
    <2>1. PICK s : s = Len(session) + 1
      OBVIOUS
    <2> DEFINE u == [t EXCEPT !.session = s, !.pc = "commit"]
    <2>2. /\ txn' = [txn EXCEPT ![r] = u] /\ t.pc = "stripe" /\ UNCHANGED <<inv, je>>
      BY <1>7, <2>1 DEF CreateSession
    <2>3. /\ u.op = t.op /\ u.pc = "commit" /\ u.je = t.je /\ u.id = t.id
          /\ u.amount = t.amount /\ u.terms = t.terms
      BY <1>1 DEF Txn
    <2> HIDE DEF u
    <2>4. Current(u, inv, je)
      BY <1>1, <2>2, <2>3, StillCurrent
    <2> QED
      BY <1>1, <2>2, <2>4, SerialRead
  <1> QED
    BY <1>2, <1>3, <1>4, <1>5, <1>6, <1>7 DEF Read

-----------------------------------------------------------------------------
(* The steps that write an invoice.                                        *)

LEMMA SerialWrite ==
  ASSUME OneAtATime, TxnOK, RowsOK', EntriesOK', NEW r \in Req, Finish(r)
  PROVE  Serial'
  <1>1. ASSUME NEW q \in Req PROVE Current(txn[q], inv, je)'
    <2>1. q = r /\ txn'[q] = Idle
      BY DEF OneAtATime, TxnOK, Finish
    <2> QED
      BY <2>1, IdleCurrent
  <1> QED
    BY <1>1 DEF Serial

\* One row is written, and not the journal.
LEMMA RowOnly ==
  ASSUME OneAtATime, TypeOK, TxnOK, Serial, NEW r \in Req, Finish(r), UNCHANGED je,
         NEW i \in DOMAIN inv, NEW v, inv' = [inv EXCEPT ![i] = v], RowGood(v, i, je)
  PROVE  Serial' /\ Doc' = [Doc EXCEPT ![i] = RowDoc(v, je, i)]
  <1>1. \A k \in DOMAIN je' : je'[k].amount \in Int
    BY AmountType
  <1>2. RowsOK' /\ Doc' = [Doc EXCEPT ![i] = RowDoc(v, je', i)]
    BY <1>1, RowRefines DEF Serial
  <1>3. EntriesOK'
    BY DEF Serial, EntriesOK
  <1> QED
    BY <1>2, <1>3, SerialWrite

\* Row i as a Receivable sees it, with what it carries when it is not paid.
LEMMA DocRow ==
  ASSUME TypeOK, RowsOK, NEW i \in DOMAIN inv
  PROVE  /\ i \in DOMAIN Doc /\ Doc[i] = RowDoc(inv[i], je, i)
         /\ Doc[i].status = inv[i].status
         /\ BookedIn(je, i) = {} => Carried(je, BookedIn(je, i)) = 0
  <1>1. \A k \in DOMAIN je : je[k].amount \in Int
    BY AmountType
  <1>2. RowGood(inv[i], i, je)
    BY DEF RowsOK
  <1>3. BookedIn(je, i) = {} => Carried(je, BookedIn(je, i)) = 0
    BY <1>1, <1>2, RowCarries
  <1> QED
    BY <1>3, DocShape DEF RowDoc, AsDoc

\* What it takes to settle, and to void, an invoice of the Receivable.
LEMMA SettleIs ==
  ASSUME NEW i \in DOMAIN Doc, NEW x \in {"draft", "sent"}, NEW a, NEW n,
         Doc[i] = AsDoc(x, a, n), NEW m \in Charged \cup {0},
         Doc' = [Doc EXCEPT ![i] = AsDoc("paid", a, m)]
  PROVE  R!Settle(i)
  <1>1. PICK d : d = Doc[i]
    OBVIOUS
  <1>2. DOMAIN d = {"status", "total", "booked"} /\ d.total = a /\ d.status = x
    BY <1>1 DEF AsDoc
  <1>3. [d EXCEPT !.status = "paid", !.booked = m]
          = [k \in DOMAIN d |-> IF k = "status" THEN "paid" ELSE IF k = "booked" THEN m ELSE d[k]]
    OBVIOUS
  <1>4. [d EXCEPT !.status = "paid", !.booked = m]
          = [k \in {"status", "total", "booked"} |->
               IF k = "status" THEN "paid" ELSE IF k = "booked" THEN m ELSE a]
    BY <1>2, <1>3
  <1>5. [d EXCEPT !.status = "paid", !.booked = m] = AsDoc("paid", a, m)
    BY <1>4 DEF AsDoc
  <1>6. Doc' = [Doc EXCEPT ![i].status = "paid", ![i].booked = m]
    BY <1>1, <1>5
  <1> QED
    BY <1>1, <1>2, <1>6 DEF R!Settle

LEMMA VoidIs ==
  ASSUME NEW i \in DOMAIN Doc, NEW x, x # "voided", NEW a, NEW n,
         Doc[i] = AsDoc(x, a, n), Doc' = [Doc EXCEPT ![i] = AsDoc("voided", a, 0)]
  PROVE  R!Void(i)
  <1>1. PICK d : d = Doc[i]
    OBVIOUS
  <1>2. DOMAIN d = {"status", "total", "booked"} /\ d.total = a /\ d.status = x
    BY <1>1 DEF AsDoc
  <1>3. [d EXCEPT !.status = "voided", !.booked = 0]
          = [k \in DOMAIN d |-> IF k = "status" THEN "voided" ELSE IF k = "booked" THEN 0 ELSE d[k]]
    OBVIOUS
  <1>4. [d EXCEPT !.status = "voided", !.booked = 0]
          = [k \in {"status", "total", "booked"} |->
               IF k = "status" THEN "voided" ELSE IF k = "booked" THEN 0 ELSE a]
    BY <1>2, <1>3
  <1>5. [d EXCEPT !.status = "voided", !.booked = 0] = AsDoc("voided", a, 0)
    BY <1>4 DEF AsDoc
  <1>6. Doc' = [Doc EXCEPT ![i].status = "voided", ![i].booked = 0]
    BY <1>1, <1>5
  <1> QED
    BY <1>1, <1>2, <1>6 DEF R!Void

LEMMA CommitUpdateSerial ==
  ASSUME OneAtATime, IInv, Serial, NEW r \in Req, CommitUpdate(r)
  PROVE  Serial' /\ R!Next
  <1> DEFINE t == txn[r]
  <1>1. /\ TypeOK /\ TxnOK /\ RowsOK /\ TxnGood(t) /\ Current(t, inv, je)
        /\ t.pc = "commit" /\ t.op \in {"lines", "tax_rate"}
        /\ Finish(r) /\ UNCHANGED je
    BY DEF IInv, TxnOK, Serial, CommitUpdate
  <1>2. t \in Txn /\ t.id \in DOMAIN inv
    BY <1>1 DEF TxnGood
  <1>3. PICK i : i = inv[t.id]
    OBVIOUS
  <1>4. i \in Invoice /\ RowGood(i, t.id, je)
    BY <1>1, <1>2, <1>3 DEF TypeOK, RowsOK
  <1>5. i.status = "draft" /\ t.terms = Edited(t, i.terms)
    BY <1>1, <1>3 DEF Current, AllowedStatus
  <1>6. PICK d : d = Edited(t, i.terms)
    OBVIOUS
  <1>7. /\ i.terms \in Documents /\ i.terms \in Terms /\ d \in Documents
        /\ t.op = "lines" => t.amount \in Amount
    BY <1>1, <1>4, <1>6, EditedType DEF Current, RowGood
  <1>8. Revised(i, t) = [i EXCEPT !.total = Total(d), !.terms = d]
    <2>1. i.terms.subtotal = (IF t.op = "lines" THEN i.terms.subtotal ELSE d.subtotal)
          /\ d.tax_rate = (IF t.op = "tax_rate" THEN t.amount ELSE i.terms.tax_rate)
      BY <1>1, <1>6, <1>7 DEF Edited, Terms
    <2>2. PICK n : n = IF t.op = "lines" THEN d.subtotal ELSE i.terms.subtotal
      OBVIOUS
    <2>3. Revised(i, t) = [i EXCEPT !.total = Total(d), !.terms.tax_rate = d.tax_rate,
                                    !.terms.subtotal = n]
      BY <1>5, <1>6, <2>2 DEF Revised
    <2>4. [i.terms EXCEPT !.tax_rate = d.tax_rate, !.subtotal = n] = d
      BY <1>1, <1>6, <1>7, <2>1, <2>2 DEF Edited, Terms
    <2>5. [i EXCEPT !.total = Total(d), !.terms.tax_rate = d.tax_rate, !.terms.subtotal = n]
            = [i EXCEPT !.total = Total(d),
                        !.terms = [i.terms EXCEPT !.tax_rate = d.tax_rate, !.subtotal = n]]
      BY <1>4, <1>7 DEF Invoice, Terms
    <2> QED
      BY <2>3, <2>4, <2>5
  <1>9. PICK v : v = [i EXCEPT !.total = Total(d), !.terms = d]
    OBVIOUS
  <1>10. /\ v.status = i.status /\ v.total = Total(d) /\ v.terms = d /\ v.je = i.je
    BY <1>4, <1>9 DEF Invoice
  <1>11. inv' = [inv EXCEPT ![t.id] = v]
    BY <1>3, <1>8, <1>9 DEF CommitUpdate
  <1>12. RowGood(v, t.id, je)
    BY <1>4, <1>7, <1>10 DEF RowGood
  <1>13. Serial' /\ Doc' = [Doc EXCEPT ![t.id] = RowDoc(v, je, t.id)]
    BY <1>1, <1>2, <1>11, <1>12, RowOnly
  <1>14. t.id \in DOMAIN Doc /\ Doc[t.id] = RowDoc(i, je, t.id) /\ Doc[t.id].status = "draft"
    BY <1>1, <1>2, <1>3, <1>5, DocRow
  <1>15. RowDoc(v, je, t.id) = [Doc[t.id] EXCEPT !.total = Total(d)]
    BY <1>10, <1>14 DEF RowDoc, AsDoc
  <1>16. Total(d) \in Charged
    BY <1>7 DEF Charged
  <1>17. R!Revise(t.id)
    <2>1. Doc' = [Doc EXCEPT ![t.id].total = Total(d)]
      BY <1>13, <1>15
    <2> QED
      BY <1>14, <1>16, <2>1 DEF R!Revise
  <1> QED
    BY <1>13, <1>14, <1>17 DEF R!Next

LEMMA CommitSendSerial ==
  ASSUME OneAtATime, IInv, Serial, NEW r \in Req, CommitSend(r)
  PROVE  Serial' /\ R!Next
  <1> DEFINE t == txn[r]
  <1>1. /\ TypeOK /\ TxnOK /\ RowsOK /\ TxnGood(t) /\ Current(t, inv, je)
        /\ t.pc = "commit" /\ t.op = "send" /\ Finish(r) /\ UNCHANGED je
    BY DEF IInv, TxnOK, Serial, CommitSend, Committing
  <1>2. t.id \in DOMAIN inv
    BY <1>1 DEF TxnGood
  <1>3. PICK i : i = inv[t.id]
    OBVIOUS
  <1>4. i \in Invoice /\ RowGood(i, t.id, je) /\ i.status = "draft"
    BY <1>1, <1>2, <1>3 DEF TypeOK, RowsOK, Current, AllowedStatus
  <1>5. PICK v : v = [i EXCEPT !.status = "sent"]
    OBVIOUS
  <1>6. v.status = "sent" /\ v.total = i.total /\ v.terms = i.terms /\ v.je = i.je
    BY <1>4, <1>5 DEF Invoice
  <1>7. inv' = [inv EXCEPT ![t.id] = v]
    BY <1>3, <1>5 DEF CommitSend
  <1>8. RowGood(v, t.id, je)
    BY <1>4, <1>6 DEF RowGood
  <1>9. Serial' /\ Doc' = [Doc EXCEPT ![t.id] = RowDoc(v, je, t.id)]
    BY <1>1, <1>2, <1>7, <1>8, RowOnly
  <1>10. t.id \in DOMAIN Doc /\ Doc[t.id] = RowDoc(i, je, t.id) /\ Doc[t.id].status = "draft"
    BY <1>1, <1>2, <1>3, <1>4, DocRow
  <1>11. RowDoc(v, je, t.id) = [Doc[t.id] EXCEPT !.status = "sent"]
    BY <1>6, <1>10 DEF RowDoc, AsDoc
  <1>12. Doc' = [Doc EXCEPT ![t.id].status = "sent"]
    BY <1>9, <1>11
  <1> QED
    BY <1>9, <1>10, <1>12 DEF R!Next, R!Send

\* Paid without an entry, by hand or online.
LEMMA SettleUnbooked ==
  ASSUME OneAtATime, IInv, Serial, NEW r \in Req,
         CommitPayUnbooked(r) \/ CommitWebhook(r)
  PROVE  Serial' /\ R!Next
  <1> DEFINE t == txn[r]
  <1>1. /\ TypeOK /\ TxnOK /\ RowsOK /\ TxnGood(t) /\ Current(t, inv, je)
        /\ t.pc = "commit" /\ t.op \in {"pay", "webhook"} /\ Finish(r) /\ UNCHANGED je
    BY DEF IInv, TxnOK, Serial, CommitPayUnbooked, CommitWebhook, Committing
  <1>2. t.id \in DOMAIN inv
    BY <1>1 DEF TxnGood
  <1>3. PICK i : i = inv[t.id]
    OBVIOUS
  <1>4. i \in Invoice /\ RowGood(i, t.id, je) /\ i.status \in {"draft", "sent"}
    BY <1>1, <1>2, <1>3 DEF TypeOK, RowsOK, Current, AllowedStatus
  <1>5. PICK v : /\ inv' = [inv EXCEPT ![t.id] = v]
                 /\ v.status = "paid" /\ v.total = i.total /\ v.terms = i.terms
                 /\ v.je \in {0, i.je}
    <2>1. CASE CommitPayUnbooked(r)
      <3>1. PICK v : v = [i EXCEPT !.status = "paid", !.paid = t.amount, !.je = 0]
        OBVIOUS
      <3>2. v.status = "paid" /\ v.total = i.total /\ v.terms = i.terms /\ v.je = 0
        BY <1>4, <3>1 DEF Invoice
      <3>3. inv' = [inv EXCEPT ![t.id] = v]
        BY <1>3, <2>1, <3>1 DEF CommitPayUnbooked, Paid
      <3> QED
        BY <3>2, <3>3
    <2>2. CASE CommitWebhook(r)
      <3>1. PICK v : v = [i EXCEPT !.status = "paid", !.paid = t.amount]
        OBVIOUS
      <3>2. v.status = "paid" /\ v.total = i.total /\ v.terms = i.terms /\ v.je = i.je
        BY <1>4, <3>1 DEF Invoice
      <3>3. inv' = [inv EXCEPT ![t.id] = v]
        BY <1>3, <2>2, <3>1 DEF CommitWebhook
      <3> QED
        BY <3>2, <3>3
    <2> QED
      BY <2>1, <2>2
  <1>6. BookedIn(je, t.id) = {}
    BY <1>4 DEF RowGood
  <1>7. RowGood(v, t.id, je)
    BY <1>4, <1>5, <1>6 DEF RowGood
  <1>8. Serial' /\ Doc' = [Doc EXCEPT ![t.id] = RowDoc(v, je, t.id)]
    BY <1>1, <1>2, <1>5, <1>7, RowOnly
  <1>9. /\ t.id \in DOMAIN Doc /\ Doc[t.id] = RowDoc(i, je, t.id)
        /\ Doc[t.id].status \in {"draft", "sent"}
        /\ Carried(je, BookedIn(je, t.id)) = 0
    BY <1>1, <1>2, <1>3, <1>4, <1>6, DocRow
  <1>10. RowDoc(v, je, t.id) = AsDoc("paid", i.total, 0)
    BY <1>5, <1>9, Zenon DEF RowDoc
  <1>11. Doc[t.id] = AsDoc(i.status, i.total, 0)
    BY <1>9, Zenon DEF RowDoc
  <1>12. PICK m \in Charged \cup {0} : m = 0
    OBVIOUS
  <1>13. R!Settle(t.id)
    <2>1. Doc' = [Doc EXCEPT ![t.id] = AsDoc("paid", i.total, m)]
      BY <1>8, <1>10, <1>12
    <2> QED
      BY <1>4, <1>9, <1>11, <2>1, SettleIs
  <1> QED
    BY <1>8, <1>9, <1>13 DEF R!Next

\* Nothing is booked: nothing was read, or the entry was not posted any more.
LEMMA CommitVoidPlainSerial ==
  ASSUME OneAtATime, IInv, Serial, NEW r \in Req, CommitVoidPlain(r)
  PROVE  Serial' /\ R!Next
  <1> DEFINE t == txn[r]
  <1>1. /\ TypeOK /\ TxnOK /\ RowsOK /\ TxnGood(t) /\ Current(t, inv, je)
        /\ t.pc = "commit" /\ t.op = "void" /\ t.je = 0 /\ Finish(r) /\ UNCHANGED je
    BY DEF IInv, TxnOK, Serial, CommitVoidPlain, Committing
  <1>2. t.id \in DOMAIN inv
    BY <1>1 DEF TxnGood
  <1>3. PICK i : i = inv[t.id]
    OBVIOUS
  <1>4. i \in Invoice /\ RowGood(i, t.id, je) /\ i.status \in Status \ {"voided"}
    BY <1>1, <1>2, <1>3 DEF TypeOK, RowsOK, Current, AllowedStatus
  <1>5. BookedIn(je, t.id) = {}
    <2>1. i.je = 0 \/ BookedIn(je, t.id) = {}
      BY <1>1, <1>3 DEF Current
    <2>2. 0 \notin DOMAIN je
      BY <1>1 DEF TypeOK
    <2> QED
      BY <1>4, <2>1, <2>2 DEF RowGood, BookedIn
  <1>6. PICK v : v = [i EXCEPT !.status = "voided"]
    OBVIOUS
  <1>7. v.status = "voided" /\ v.total = i.total /\ v.terms = i.terms /\ v.je = i.je
    BY <1>4, <1>6 DEF Invoice
  <1>8. inv' = [inv EXCEPT ![t.id] = v]
    BY <1>3, <1>6 DEF CommitVoidPlain
  <1>9. RowGood(v, t.id, je)
    BY <1>4, <1>5, <1>7 DEF RowGood
  <1>10. Serial' /\ Doc' = [Doc EXCEPT ![t.id] = RowDoc(v, je, t.id)]
    BY <1>1, <1>2, <1>8, <1>9, RowOnly
  <1>11. /\ t.id \in DOMAIN Doc /\ Doc[t.id] = RowDoc(i, je, t.id)
         /\ Doc[t.id].status # "voided" /\ Carried(je, BookedIn(je, t.id)) = 0
    BY <1>1, <1>2, <1>3, <1>4, <1>5, DocRow
  <1>12. RowDoc(v, je, t.id) = AsDoc("voided", i.total, 0)
    BY <1>7, <1>11, Zenon DEF RowDoc
  <1>13. Doc[t.id] = AsDoc(i.status, i.total, 0)
    BY <1>11, Zenon DEF RowDoc
  <1>14. R!Void(t.id)
    BY <1>4, <1>10, <1>11, <1>12, <1>13, VoidIs
  <1> QED
    BY <1>10, <1>11, <1>14 DEF R!Next

LEMMA CommitLinkSerial ==
  ASSUME OneAtATime, IInv, Serial, NEW r \in Req, CommitLink(r)
  PROVE  Serial' /\ Doc' = Doc
  <1> DEFINE t == txn[r]
  <1>1. /\ TypeOK /\ TxnOK /\ RowsOK /\ TxnGood(t) /\ t.op = "link"
        /\ Finish(r) /\ UNCHANGED je
    BY DEF IInv, TxnOK, Serial, CommitLink, Committing
  <1>2. t.id \in DOMAIN inv
    BY <1>1 DEF TxnGood
  <1>3. PICK i : i = inv[t.id]
    OBVIOUS
  <1>4. i \in Invoice /\ RowGood(i, t.id, je)
    BY <1>1, <1>2, <1>3 DEF TypeOK, RowsOK
  <1>5. PICK v : v = [i EXCEPT !.link = t.session]
    OBVIOUS
  <1>6. v.status = i.status /\ v.total = i.total /\ v.terms = i.terms /\ v.je = i.je
    BY <1>4, <1>5 DEF Invoice
  <1>7. inv' = [inv EXCEPT ![t.id] = v]
    BY <1>3, <1>5 DEF CommitLink
  <1>8. RowGood(v, t.id, je)
    BY <1>4, <1>6 DEF RowGood
  <1>9. Serial' /\ Doc' = [Doc EXCEPT ![t.id] = RowDoc(v, je, t.id)]
    BY <1>1, <1>2, <1>7, <1>8, RowOnly
  <1>10. t.id \in DOMAIN Doc /\ Doc[t.id] = RowDoc(i, je, t.id)
    BY <1>1, <1>2, <1>3, DocRow
  <1>11. RowDoc(v, je, t.id) = Doc[t.id]
    BY <1>6, <1>10 DEF RowDoc, AsDoc
  <1>12. Doc = [j \in DOMAIN inv |-> RowDoc(inv[j], je, j)]
    BY DocShape
  <1>13. Doc' = Doc
    BY <1>9, <1>11, <1>12
  <1> QED
    BY <1>9, <1>13

\* The payment is the only entry booked for its invoice.
LEMMA CommitPayBookedSerial ==
  ASSUME OneAtATime, IInv, Serial, NEW r \in Req, CommitPayBooked(r)
  PROVE  Serial' /\ R!Next
  <1> DEFINE t == txn[r]
             e == [period |-> t.period, number |-> t.num, status |-> "posted",
                   amount |-> t.amount, inv |-> t.id, reverses |-> 0]
  <1>1. /\ TypeOK /\ TxnOK /\ RowsOK /\ EntriesOK /\ TxnGood(t) /\ Current(t, inv, je)
        /\ t.pc = "commit" /\ t.op = "pay" /\ Finish(r) /\ je' = Append(je, e)
    BY DEF IInv, TxnOK, Serial, CommitPayBooked, Committing
  <1>2. t.id \in DOMAIN inv /\ t.amount \in Amount /\ t.amount \in Int
    BY <1>1 DEF TxnGood, Current
  <1>3. PICK i : i = inv[t.id]
    OBVIOUS
  <1>4. i \in Invoice /\ RowGood(i, t.id, je) /\ i.status \in {"draft", "sent"}
    BY <1>1, <1>2, <1>3 DEF TypeOK, RowsOK, Current, AllowedStatus
  <1>5. PICK n : n = Len(je) + 1
    OBVIOUS
  <1>6. DOMAIN je = 1..Len(je) /\ Len(je) \in Nat /\ n \notin DOMAIN je /\ n # 0
    BY <1>1, <1>5 DEF TypeOK
  <1>7. e.inv = t.id /\ e.reverses = 0 /\ e.status = "posted" /\ e.amount = t.amount
    OBVIOUS
  <1> HIDE DEF e
  <1>8. /\ DOMAIN je' = DOMAIN je \cup {n} /\ je'[n] = e
        /\ \A k \in DOMAIN je : je'[k] = je[k]
    BY <1>1, <1>5, <1>6 DEF TypeOK
  <1>9. PICK v : v = [i EXCEPT !.status = "paid", !.paid = t.amount, !.je = n]
    OBVIOUS
  <1>10. v.status = "paid" /\ v.total = i.total /\ v.terms = i.terms /\ v.je = n
    BY <1>4, <1>9 DEF Invoice
  <1>11. inv' = [inv EXCEPT ![t.id] = v]
    BY <1>3, <1>5, <1>9 DEF CommitPayBooked, Paid
  <1>12. BookedIn(je, t.id) = {}
    BY <1>4 DEF RowGood
  <1>13. BookedIn(je', t.id) = {n}
    BY <1>7, <1>8, <1>12 DEF BookedIn
  <1>14. \A j \in DOMAIN inv : j # t.id => BookedIn(je', j) = BookedIn(je, j)
    BY <1>6, <1>7, <1>8 DEF BookedIn
  <1>15. RowGood(v, t.id, je')
    BY <1>4, <1>7, <1>8, <1>10, <1>13 DEF RowGood
  <1>16. \A k \in DOMAIN je' : je'[k].amount \in Int
    BY <1>1, <1>2, <1>7, <1>8, AmountType
  <1>17. RowsOK' /\ Doc' = [Doc EXCEPT ![t.id] = RowDoc(v, je', t.id)]
    BY <1>1, <1>2, <1>8, <1>11, <1>14, <1>15, <1>16, RowRefines
  <1>18. EntriesOK'
    BY <1>1, <1>2, <1>7, <1>8, <1>11 DEF EntriesOK
  <1>19. Serial'
    BY <1>1, <1>17, <1>18, SerialWrite
  <1>20. t.id \in DOMAIN Doc /\ Doc[t.id] = AsDoc(i.status, i.total, Carried(je, BookedIn(je, t.id)))
    <2>1. t.id \in DOMAIN Doc /\ Doc[t.id] = RowDoc(i, je, t.id)
      BY <1>1, <1>2, <1>3, DocRow
    <2> QED
      BY <2>1 DEF RowDoc
  <1>21. Carried(je', BookedIn(je', t.id)) = t.amount
    <2>1. Carried(je', BookedIn(je', t.id)) = je'[v.je].amount
      BY <1>13, <1>15, <1>16, RowCarries
    <2> QED
      BY <1>7, <1>8, <1>10, <2>1
  <1>22. RowDoc(v, je', t.id) = AsDoc("paid", i.total, t.amount)
    BY <1>10, <1>21 DEF RowDoc
  <1>23. t.amount \in Charged \cup {0}
    BY <1>2 DEF Charged
  <1>24. R!Settle(t.id)
    <2>1. Doc' = [Doc EXCEPT ![t.id] = AsDoc("paid", i.total, t.amount)]
      BY <1>17, <1>22
    <2> QED
      BY <1>4, <1>20, <1>23, <2>1, SettleIs
  <1> QED
    BY <1>19, <1>20, <1>24 DEF R!Next

\* The entry voided is the one that was booked.
LEMMA CommitVoidReversalSerial ==
  ASSUME OneAtATime, IInv, Serial, NEW r \in Req, CommitVoidReversal(r)
  PROVE  Serial' /\ R!Next
  <1> DEFINE t == txn[r]
             b == t.je
             e == [period |-> t.period, number |-> t.num, status |-> "posted",
                   amount |-> t.amount, inv |-> t.id, reverses |-> b]
             mid == [je EXCEPT ![b].status = "voided"]
  <1>1. /\ TypeOK /\ TxnOK /\ RowsOK /\ EntriesOK /\ TxnGood(t) /\ Current(t, inv, je)
        /\ t.pc = "commit" /\ t.op = "void" /\ b # 0 /\ Finish(r)
        /\ je' = Append(mid, e)
    BY DEF IInv, TxnOK, Serial, CommitVoidReversal, Committing
  <1>2. t.id \in DOMAIN inv /\ b \in DOMAIN je /\ t.amount = je[b].amount
    BY <1>1 DEF TxnGood, Reverses
  <1>3. PICK i : i = inv[t.id]
    OBVIOUS
  <1>4. i \in Invoice /\ RowGood(i, t.id, je) /\ i.status \in Status \ {"voided"} /\ i.je = b
    BY <1>1, <1>2, <1>3 DEF TypeOK, RowsOK, Current, AllowedStatus
  <1>5. je[b] \in Entry /\ je[b].inv = t.id /\ je[b].amount \in Int
    <2>1. je[b] \in Entry
      BY <1>1, <1>2 DEF TypeOK
    <2> QED
      BY <1>1, <1>4, <2>1 DEF RowGood, Entry
  <1>6. PICK n : n = Len(je) + 1
    OBVIOUS
  <1>7. DOMAIN je = 1..Len(je) /\ Len(je) \in Nat /\ n \notin DOMAIN je /\ n # 0
    BY <1>1, <1>6 DEF TypeOK
  <1>8. e.inv = t.id /\ e.reverses # 0 /\ e.amount = je[b].amount
    BY <1>1, <1>2
  <1> HIDE DEF e
  <1>9. PICK old : old = [je[b] EXCEPT !.status = "voided"]
    OBVIOUS
  <1>10. /\ old.status = "voided" /\ old.inv = t.id /\ old.amount = je[b].amount
         /\ old.reverses = je[b].reverses /\ old \in Entry
    BY <1>5, <1>9 DEF Entry
  <1>11. /\ DOMAIN je' = DOMAIN je \cup {n} /\ je'[n] = e /\ je'[b] = old
         /\ \A k \in DOMAIN je : k # b => je'[k] = je[k]
    <2>1. je \in Seq(Entry)
      BY <1>1 DEF TypeOK
    <2>2. /\ [je EXCEPT ![b] = old] \in Seq(Entry) /\ Len([je EXCEPT ![b] = old]) = Len(je)
          /\ [je EXCEPT ![b] = old][b] = old
          /\ \A k \in DOMAIN je : k # b => [je EXCEPT ![b] = old][k] = je[k]
      BY <1>2, <1>10, <2>1, ExceptSeq
    <2>3. mid = [je EXCEPT ![b] = old]
      BY <1>9
    <2>4. PICK x \in Seq(Entry) : x = mid
      BY <2>2, <2>3
    <2>5. Len(x) = Len(je) /\ x[b] = old /\ \A k \in DOMAIN je : k # b => x[k] = je[k]
      BY <2>2, <2>3, <2>4
    <2>6. je' = Append(x, e)
      BY <1>1, <2>4
    <2> HIDE DEF mid
    <2> QED
      BY <1>2, <1>6, <1>7, <2>5, <2>6
  <1>12. PICK v : v = [i EXCEPT !.status = "voided"]
    OBVIOUS
  <1>13. v.status = "voided" /\ v.total = i.total /\ v.terms = i.terms /\ v.je = b
    BY <1>4, <1>12 DEF Invoice
  <1>14. inv' = [inv EXCEPT ![t.id] = v]
    BY <1>3, <1>12 DEF CommitVoidReversal
  <1>15. BookedIn(je', t.id) = {}
    <2>1. BookedIn(je, t.id) \subseteq {b}
      BY <1>4 DEF RowGood
    <2> QED
      BY <1>8, <1>10, <1>11, <2>1 DEF BookedIn
  <1>16. \A j \in DOMAIN inv : j # t.id => BookedIn(je', j) = BookedIn(je, j)
    BY <1>5, <1>7, <1>8, <1>10, <1>11 DEF BookedIn
  <1>17. \A k \in DOMAIN je : /\ k \in DOMAIN je' /\ je'[k].amount = je[k].amount
                              /\ je'[k].inv = je[k].inv /\ je'[k].reverses = je[k].reverses
    BY <1>5, <1>10, <1>11
  <1>18. RowGood(v, t.id, je')
    BY <1>2, <1>4, <1>5, <1>13, <1>15, <1>17 DEF RowGood
  <1>19. \A k \in DOMAIN je' : je'[k].amount \in Int
    BY <1>1, <1>5, <1>8, <1>11, <1>17, AmountType
  <1>20. RowsOK' /\ Doc' = [Doc EXCEPT ![t.id] = RowDoc(v, je', t.id)]
    <2>1. \A k \in DOMAIN je : k \in DOMAIN je' /\ je'[k].amount = je[k].amount
                               /\ je'[k].inv = je[k].inv
      BY <1>17
    <2> HIDE DEF mid
    <2> QED
      BY <1>1, <1>2, <1>14, <1>16, <1>18, <1>19, <2>1, RowRefines
  <1>21. EntriesOK'
    BY <1>1, <1>2, <1>8, <1>11, <1>14, <1>17 DEF EntriesOK
  <1>22. Serial'
    BY <1>1, <1>20, <1>21, SerialWrite
  <1>23. /\ t.id \in DOMAIN Doc
         /\ Doc[t.id] = AsDoc(i.status, i.total, Carried(je, BookedIn(je, t.id)))
    <2>1. t.id \in DOMAIN Doc /\ Doc[t.id] = RowDoc(i, je, t.id)
      BY <1>1, <1>2, <1>3, DocRow
    <2> QED
      BY <2>1 DEF RowDoc
  <1>24. Carried(je', BookedIn(je', t.id)) = 0
    BY <1>15, <1>18, <1>19, RowCarries
  <1>25. RowDoc(v, je', t.id) = AsDoc("voided", i.total, 0)
    BY <1>13, <1>24, Zenon DEF RowDoc
  <1>26. R!Void(t.id)
    <2>1. Doc' = [Doc EXCEPT ![t.id] = AsDoc("voided", i.total, 0)]
      BY <1>20, <1>25
    <2> QED
      BY <1>4, <1>23, <2>1, VoidIs
  <1> QED
    BY <1>22, <1>23, <1>26 DEF R!Next

\* The rows of a batch have no entry, and their totals are those of their terms.
LEMMA CommitCreateSerial ==
  ASSUME OneAtATime, IInv, Serial, NEW r \in Req, CommitCreate(r)
  PROVE  Serial' /\ R!Next
  <1> DEFINE t == txn[r]
             b == t.batch
             new == [k \in 1..Len(b) |-> Total(b[k])]
  <1>1. /\ TypeOK /\ InvoiceNumbersConsecutive /\ TxnOK /\ RowsOK /\ EntriesOK
        /\ TxnGood(t) /\ t.op = "create" /\ t.pc = "commit"
        /\ Len(inv) + Len(b) <= MaxInvoices /\ Finish(r) /\ UNCHANGED je
    BY DEF IInv, TxnOK, Serial, CommitCreate, Committing
  <1>2. /\ Len(inv) \in Nat /\ DOMAIN inv = 1..Len(inv)
        /\ Len(b) \in Nat /\ DOMAIN b = 1..Len(b)
        /\ inv' \in Seq(Invoice) /\ Len(inv') = Len(inv) + Len(b)
        /\ \A i \in DOMAIN inv : inv'[i] = inv[i]
        /\ \A k \in DOMAIN b : inv'[Len(inv) + k] = Draft(Len(inv) + k, b[k])
        /\ \A i \in DOMAIN inv' : i \notin DOMAIN inv => \E k \in DOMAIN b : i = Len(inv) + k
    BY <1>1, CreatedRows
  <1>3. ASSUME NEW k \in DOMAIN b PROVE b[k] \in Documents /\ Total(b[k]) \in Charged
    <2>1. b \in Batch /\ b[k] \in Range(b)
      BY <1>1 DEF TxnGood, Range
    <2>2. b[k] \in Documents
      BY <2>1, SentAreDocuments DEF Sent
    <2> QED
      BY <2>2 DEF Charged
  <1>4. DOMAIN inv' = 1..(Len(inv) + Len(b))
    BY <1>2
  <1>5. ASSUME NEW k \in DOMAIN b
        PROVE  /\ Len(inv) + k \in DOMAIN inv' /\ BookedIn(je, Len(inv) + k) = {}
               /\ RowGood(inv'[Len(inv) + k], Len(inv) + k, je)
               /\ RowDoc(inv'[Len(inv) + k], je, Len(inv) + k) = R!Fresh(Total(b[k]))
    <2>1. PICK i : i = Len(inv) + k
      OBVIOUS
    <2>2. i \in DOMAIN inv' /\ i \notin DOMAIN inv
      BY <1>2, <1>4, <2>1
    <2>3. BookedIn(je, i) = {}
      BY <1>1, <2>2 DEF EntriesOK, BookedIn
    <2>4. PICK v : v = inv'[i]
      OBVIOUS
    <2>5. v.status = "draft" /\ v.terms = b[k] /\ v.total = Total(b[k]) /\ v.je = 0
      <3>1. v = Draft(i, b[k])
        BY <1>2, <2>1, <2>4
      <3> QED
        BY <3>1 DEF Draft
    <2>6. RowGood(v, i, je)
      BY <1>3, <2>3, <2>5 DEF RowGood
    <2>7. Carried(je, BookedIn(je, i)) = 0
      BY <1>1, <2>3, <2>6, AmountType, RowCarries
    <2>8. RowDoc(v, je, i) = R!Fresh(Total(b[k]))
      BY <2>5, <2>7 DEF RowDoc, AsDoc, R!Fresh
    <2> QED
      BY <2>1, <2>2, <2>3, <2>4, <2>6, <2>8
  <1>6. Serial'
    <2>1. ASSUME NEW i \in DOMAIN inv' PROVE RowGood(inv'[i], i, je)
      <3>1. CASE i \in DOMAIN inv
        BY <1>1, <1>2, <3>1 DEF RowsOK
      <3>2. CASE i \notin DOMAIN inv
        BY <1>2, <1>5, <3>2
      <3> QED
        BY <3>1, <3>2
    <2>2. RowsOK'
      BY <1>1, <2>1 DEF RowsOK
    <2>3. EntriesOK'
      BY <1>1, <1>2, <1>4 DEF EntriesOK
    <2> QED
      BY <1>1, <2>2, <2>3, SerialWrite
  <1>7. new \in [1..Len(b) -> Charged] /\ Len(b) \in 0..MaxInvoices
    <2>1. MaxInvoices \in Nat
      BY InvoicesAssumption
    <2> QED
      BY <1>1, <1>2, <1>3, <2>1
  <1>8. Doc = [i \in DOMAIN inv |-> RowDoc(inv[i], je, i)]
    BY DocShape
  <1>9. Doc' = [i \in DOMAIN inv' |-> RowDoc(inv'[i], je, i)]
    BY <1>1, DocShape
  <1>10. Doc' = Doc \o [k \in 1..Len(b) |-> R!Fresh(new[k])]
    <2> DEFINE fresh == [k \in 1..Len(b) |-> R!Fresh(new[k])]
    <2>1. Len(Doc) = Len(inv) /\ Len(fresh) = Len(b)
      BY <1>2, <1>8
    <2>2. Doc \o fresh = [i \in 1..(Len(inv) + Len(b)) |->
                            IF i <= Len(inv) THEN Doc[i] ELSE fresh[i - Len(inv)]]
      BY <2>1
    <2>3. ASSUME NEW i \in 1..(Len(inv) + Len(b))
          PROVE  Doc'[i] = IF i <= Len(inv) THEN Doc[i] ELSE fresh[i - Len(inv)]
      <3>1. CASE i <= Len(inv)
        <4>1. i \in DOMAIN inv /\ i \in DOMAIN inv' /\ inv'[i] = inv[i]
          BY <1>2, <1>4, <3>1
        <4>2. Doc[i] = RowDoc(inv[i], je, i) /\ Doc'[i] = RowDoc(inv'[i], je, i)
          BY <1>8, <1>9, <4>1
        <4> QED
          BY <3>1, <4>1, <4>2
      <3>2. CASE ~(i <= Len(inv))
        <4>1. PICK k : k = i - Len(inv)
          OBVIOUS
        <4>2. k \in DOMAIN b /\ k \in 1..Len(b) /\ i = Len(inv) + k
          BY <1>2, <3>2, <4>1
        <4> QED
          BY <1>4, <1>5, <1>9, <3>2, <4>1, <4>2
      <3> QED
        BY <3>1, <3>2
    <2> QED
      BY <1>4, <1>9, <2>2, <2>3
  <1>11. R!Issue
    <2>1. PICK n : n = Len(b)
      OBVIOUS
    <2>2. PICK f : f = new
      OBVIOUS
    <2>3. n \in 0..MaxInvoices /\ f \in [1..n -> Charged]
      BY <1>7, <2>1, <2>2
    <2>4. Doc' = Doc \o [k \in 1..n |-> R!Fresh(f[k])]
      BY <1>10, <2>1, <2>2
    <2> HIDE DEF new, t, b
    <2> QED
      BY <2>3, <2>4, Zenon DEF R!Issue
  <1> QED
    BY <1>6, <1>11 DEF R!Next

-----------------------------------------------------------------------------
(* Every step.                                                             *)

LEMMA InitSerial == Init => Serial /\ R!Init
  <1> SUFFICES ASSUME Init PROVE Serial /\ R!Init
    OBVIOUS
  <1>1. /\ inv = <<>> /\ je = <<>> /\ \A r \in Req : txn[r] = Idle
    BY DEF Init
  <1>2. RowsOK /\ EntriesOK
    BY <1>1 DEF RowsOK, EntriesOK
  <1>3. \A r \in Req : Current(txn[r], inv, je)
    BY <1>1, IdleCurrent
  <1>4. Doc = [i \in DOMAIN inv |-> RowDoc(inv[i], je, i)]
    BY DocShape
  <1>5. Doc = <<>>
    BY <1>1, <1>4
  <1> QED
    BY <1>2, <1>3, <1>5 DEF Serial, R!Init

LEMMA CommitSerial ==
  ASSUME OneAtATime, IInv, Serial, NEW r \in Req, Commit(r)
  PROVE  Serial' /\ (R!Next \/ Doc' = Doc)
  BY CommitCreateSerial, CommitUpdateSerial, CommitSendSerial, SettleUnbooked,
     CommitPayBookedSerial, CommitVoidReversalSerial, CommitVoidPlainSerial,
     CommitLinkSerial DEF Commit

\* What neither writes an invoice nor an entry, nor gives a request something
\* to know.
LEMMA OtherSerial ==
  ASSUME OneAtATime, IInv, Serial, UNCHANGED <<inv, je>>,
         txn' = txn \/ \E r \in Req : Finish(r)
  PROVE  Serial'
  <1>1. TxnOK /\ RowsOK' /\ EntriesOK'
    BY DEF IInv, Serial, RowsOK, EntriesOK
  <1>2. CASE txn' = txn
    BY <1>1, <1>2 DEF Serial
  <1>3. CASE \E r \in Req : Finish(r)
    BY <1>1, <1>3, SerialWrite
  <1> QED
    BY <1>2, <1>3

LEMMA NextSerial ==
  ASSUME OneAtATime, IInv, Serial, [Next]_vars
  PROVE  Serial' /\ (R!Next \/ Doc' = Doc)
  <1>1. CASE UNCHANGED vars
    BY <1>1, OtherSerial, NothingChanged DEF vars
  <1>2. ASSUME NEW r \in Req, Start(r) PROVE Serial' /\ Doc' = Doc
    BY <1>2, StartSerial, NothingChanged
  <1>3. ASSUME NEW r \in Req, Read(r) PROVE Serial' /\ Doc' = Doc
    BY <1>3, ReadSerial, NothingChanged
  <1>4. ASSUME NEW r \in Req, Rollback(r) PROVE Serial' /\ Doc' = Doc
    BY <1>4, OtherSerial, NothingChanged DEF Rollback
  <1>5. ASSUME NEW s \in DOMAIN session, CustomerPays(s) PROVE Serial' /\ Doc' = Doc
    BY <1>5, OtherSerial, NothingChanged DEF CustomerPays
  <1>6. CASE \E r \in Req : Start(r) \/ Read(r) \/ Commit(r) \/ Rollback(r)
    BY <1>2, <1>3, <1>4, <1>6, CommitSerial
  <1>7. CASE \E s \in DOMAIN session : CustomerPays(s)
    BY <1>5, <1>7
  <1> QED
    BY <1>1, <1>6, <1>7 DEF Next

LEMMA SerialInvariance ==
  ASSUME OneAtATime
  PROVE  Spec => []Serial
  <1>1. Init => Serial
    BY InitSerial
  <1>2. IInv /\ Serial /\ [Next]_vars => Serial'
    BY NextSerial
  <1> QED
    BY <1>1, <1>2, Invariance, PTL DEF Spec

-----------------------------------------------------------------------------
(* The theorems.                                                           *)

\* When requests do not overlap, an invoice's total is always that of the
\* terms stored with it, however it was created and edited.
THEOREM TotalsMatch ==
  ASSUME OneAtATime
  PROVE  Spec => []TotalMatchesTerms
  <1>1. Serial => TotalMatchesTerms
    BY DEF Serial, RowsOK, RowGood, TotalMatchesTerms
  <1> QED
    BY <1>1, SerialInvariance, PTL

\* When requests do not overlap, a voided invoice has no payment left in the
\* ledger, whether it was paid in a period, without one, online, or not at all.
THEOREM VoidReverses ==
  ASSUME OneAtATime
  PROVE  Spec => []VoidReversesPayment
  <1>1. ASSUME Serial PROVE VoidReversesPayment
    <2> SUFFICES ASSUME NEW i \in DOMAIN inv, inv[i].status = "voided" PROVE Booked(i) = {}
      BY DEF VoidReversesPayment
    <2>1. RowGood(inv[i], i, je)
      BY <1>1 DEF Serial, RowsOK
    <2> QED
      BY <2>1 DEF RowGood, BookedIn, Booked
  <1> QED
    BY <1>1, SerialInvariance, PTL

\* When requests do not overlap, invoicing with its transactions, its numbers,
\* its journal and Stripe is a list of receivables: every step issues, revises,
\* sends, settles or voids one, or changes nothing that a receivable shows.
THEOREM SerialRefinement ==
  ASSUME OneAtATime
  PROVE  Spec => ImplementsReceivable
  <1>1. Init => R!Init
    BY InitSerial
  <1>2. IInv /\ Serial /\ [Next]_vars => [R!Next]_Doc
    BY NextSerial
  <1> QED
    BY <1>1, <1>2, SerialInvariance, Invariance, PTL DEF Spec, ImplementsReceivable, R!Spec
=============================================================================
