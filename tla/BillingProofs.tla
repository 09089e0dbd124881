--------------------------- MODULE BillingProofs ---------------------------
(***************************************************************************)
(* Billing's safety properties and its refinement of Settlement, for every *)
(* number of invoices, workers, attempts and crashes.                      *)
(***************************************************************************)
EXTENDS Billing, SequenceTheorems, TLAPS

(* What makes the safety properties inductive: work in progress refers to  *)
(* payment rows that exist, an open invoice whose budget is used up still  *)
(* has its last attempt unresolved, and a success that is about to be      *)
(* recorded is one the provider has captured.                              *)

RowsExist ==
  /\ \A w \in Workers : \A t \in tasks[w] : t.n \in DOMAIN payment[t.inv]
  /\ \A e \in replied \cup events : e.n \in DOMAIN payment[e.inv]
  /\ \A h \in hooks : h.event \in events

UnbilledHasNoPayment ==
  \A i \in Invoices : invoice[i].status = "none" => payment[i] = <<>>

LastAttemptOpen ==
  \A i \in Invoices :
    invoice[i].status = "open" /\ Len(payment[i]) = MaxAttempts => InFlight(i) # {}

SuccessIsCaptured ==
  /\ \A e \in replied \cup events : e.status = "succeeded" => <<e.inv, e.n>> \in captured
  /\ \A w \in Workers : \A t \in tasks[w] : t.step = "succeeded" => <<t.inv, t.n>> \in captured

BillingInv ==
  /\ TypeOK
  /\ RowsExist
  /\ UnbilledHasNoPayment
  /\ OneAttemptInFlight
  /\ LastAttemptOpen
  /\ BooksFollowInvoice
  /\ PaidByLastAttempt
  /\ AttemptBudget
  /\ SuccessIsCaptured
  /\ SucceededIsCaptured

-----------------------------------------------------------------------------
(* Payment rows.                                                           *)

\* A payment column is a sequence of statuses, one per attempt.
LEMMA PaymentRows ==
  ASSUME TypeOK, NEW i \in Invoices
  PROVE  /\ payment[i] \in Seq(PaymentStatus)
         /\ Len(payment[i]) \in Nat
         /\ DOMAIN payment[i] = 1..Len(payment[i])
         /\ \A n \in 1..Len(payment[i]) : payment[i][n] \in PaymentStatus
<1>1. payment[i] \in Seq(PaymentStatus)
  BY DEF TypeOK
<1> QED
  BY <1>1, LenProperties, ElementOfSeq

\* A guarded UPDATE changes one row's status and nothing else.
LEMMA UpdateRow ==
  ASSUME TypeOK, NEW i \in Invoices, NEW n \in DOMAIN payment[i], NEW x \in PaymentStatus,
         payment' = [payment EXCEPT ![i][n] = x]
  PROVE  /\ payment' \in [Invoices -> Seq(PaymentStatus)]
         /\ \A j \in Invoices : /\ Len(payment'[j]) = Len(payment[j])
                                /\ DOMAIN payment'[j] = DOMAIN payment[j]
                                /\ j # i => payment'[j] = payment[j]
         /\ \A m \in DOMAIN payment[i] : payment'[i][m] = IF m = n THEN x ELSE payment[i][m]
<1>1. payment[i] \in Seq(PaymentStatus) /\ n \in 1..Len(payment[i])
  BY PaymentRows
<1>2. payment \in [Invoices -> Seq(PaymentStatus)]
  BY DEF TypeOK
<1> DEFINE s == [payment[i] EXCEPT ![n] = x]
<1>3. payment' = [payment EXCEPT ![i] = s]
  BY <1>2
<1>4. /\ s \in Seq(PaymentStatus)
      /\ Len(s) = Len(payment[i])
      /\ \A m \in 1..Len(payment[i]) : s[m] = IF m = n THEN x ELSE payment[i][m]
  BY <1>1, ExceptSeq
<1>5. DOMAIN s = DOMAIN payment[i]
  OBVIOUS
<1> HIDE DEF s
<1>6. /\ payment'[i] = s
      /\ \A j \in Invoices : j # i => payment'[j] = payment[j]
      /\ payment' \in [Invoices -> Seq(PaymentStatus)]
  BY <1>2, <1>3, <1>4
<1>7. DOMAIN payment[i] = 1..Len(payment[i])
  BY PaymentRows
<1> QED
  BY <1>4, <1>5, <1>6, <1>7

\* A claim appends at most one pending row to each invoice.
LEMMA AppendRows ==
  ASSUME TypeOK, NEW S,
         payment' = [i \in Invoices |->
                       IF i \in S THEN Append(payment[i], "pending") ELSE payment[i]]
  PROVE  /\ payment' \in [Invoices -> Seq(PaymentStatus)]
         /\ \A i \in Invoices :
              /\ DOMAIN payment'[i] = 1..Len(payment'[i])
              /\ i \notin S => payment'[i] = payment[i]
              /\ i \in S => /\ Len(payment'[i]) = Len(payment[i]) + 1
                            /\ payment'[i][Len(payment[i]) + 1] = "pending"
                            /\ \A m \in 1..Len(payment[i]) : payment'[i][m] = payment[i][m]
<1>1. "pending" \in PaymentStatus
  BY DEF PaymentStatus, NonTerminal
<1>2. ASSUME NEW i \in Invoices, i \in S
      PROVE  /\ payment'[i] \in Seq(PaymentStatus)
             /\ Len(payment'[i]) = Len(payment[i]) + 1
             /\ payment'[i][Len(payment[i]) + 1] = "pending"
             /\ \A m \in 1..Len(payment[i]) : payment'[i][m] = payment[i][m]
  <2>1. payment'[i] = Append(payment[i], "pending") /\ payment[i] \in Seq(PaymentStatus)
    BY <1>2, PaymentRows
  <2> QED
    BY <1>1, <2>1, AppendProperties
<1>3. ASSUME NEW i \in Invoices, i \notin S
      PROVE  payment'[i] = payment[i] /\ payment'[i] \in Seq(PaymentStatus)
  BY <1>3, PaymentRows
<1>4. \A i \in Invoices : payment'[i] \in Seq(PaymentStatus)
  BY <1>2, <1>3
<1>5. payment' \in [Invoices -> Seq(PaymentStatus)]
  BY <1>4
<1>6. \A i \in Invoices : DOMAIN payment'[i] = 1..Len(payment'[i])
  BY <1>4, LenProperties
<1> QED
  BY <1>2, <1>3, <1>5, <1>6

\* In flight means unresolved; the current attempt is one of those in flight.
LEMMA CurrentInFlight ==
  ASSUME TypeOK, OneAttemptInFlight, NEW i \in Invoices, InFlight(i) # {}
  PROVE  /\ Current(i) \in InFlight(i)
         /\ Current(i) = Len(payment[i])
         /\ Len(payment[i]) \in Nat \ {0}
<1>1. PICK k : k \in InFlight(i)
  OBVIOUS
<1>2. \A n \in InFlight(i) : n = Len(payment[i])
  BY DEF OneAttemptInFlight
<1>3. Len(payment[i]) \in Nat /\ DOMAIN payment[i] = 1..Len(payment[i])
  BY PaymentRows
<1>4. k = Len(payment[i]) /\ k \in 1..Len(payment[i])
  BY <1>1, <1>2, <1>3 DEF InFlight
<1>5. \A m \in InFlight(i) : m <= k
  BY <1>1, <1>2, <1>3, <1>4
<1>6. Current(i) \in InFlight(i)
  BY <1>1, <1>5 DEF Current
<1> QED
  BY <1>2, <1>3, <1>4, <1>6

-----------------------------------------------------------------------------
(* Every step of the service, seen from the database, is one of seven.     *)

QuietStep ==
  /\ \A i \in Invoices : invoice'[i].status = invoice[i].status
  /\ UNCHANGED <<payment, ledger, outbox>>

OpenStep(i) ==
  /\ invoice[i].status = "none"
  /\ invoice' = [invoice EXCEPT ![i] = [status |-> "open", next |-> "due"]]
  /\ ledger' = [ledger EXCEPT ![i].opened = @ + 1]
  /\ UNCHANGED <<payment, outbox>>

AttemptStep(S) ==
  /\ \A i \in S : invoice[i].status = "open" /\ InFlight(i) = {}
  /\ payment' = [i \in Invoices |->
                   IF i \in S THEN Append(payment[i], "pending") ELSE payment[i]]
  /\ UNCHANGED <<invoice, ledger, outbox>>

ProcessingStep(i, n) ==
  /\ n \in InFlight(i)
  /\ payment' = [payment EXCEPT ![i][n] = "processing"]
  /\ UNCHANGED <<invoice, ledger, outbox>>

PayStep(i, n) ==
  /\ n \in InFlight(i)
  /\ payment' = [payment EXCEPT ![i][n] = "succeeded"]
  /\ invoice' = [invoice EXCEPT ![i] = [status |-> "paid", next |-> "nil"]]
  /\ ledger' = [ledger EXCEPT ![i].succeeded = @ + 1]
  /\ outbox' = [outbox EXCEPT ![i].completed = @ + 1]

FailStep(i, n) ==
  /\ n \in InFlight(i) /\ AttemptsLeft(i)
  /\ payment' = [payment EXCEPT ![i][n] = "failed"]
  /\ invoice' = [invoice EXCEPT ![i].next = "later"]
  /\ UNCHANGED <<ledger, outbox>>

WriteOffStep(i, n) ==
  /\ n \in InFlight(i) /\ ~AttemptsLeft(i)
  /\ payment' = [payment EXCEPT ![i][n] = "failed"]
  /\ invoice' = [invoice EXCEPT ![i] = [status |-> "uncollectible", next |-> "nil"]]
  /\ ledger' = [ledger EXCEPT ![i].uncollectible = @ + 1]
  /\ outbox' = [outbox EXCEPT ![i].failed = @ + 1]

RowStep(i, n) == ProcessingStep(i, n) \/ PayStep(i, n) \/ FailStep(i, n) \/ WriteOffStep(i, n)

DbStep ==
  \/ QuietStep
  \/ \E i \in Invoices : OpenStep(i)
  \/ \E S \in SUBSET Invoices : AttemptStep(S)
  \/ \E i \in Invoices : \E n \in DOMAIN payment[i] : RowStep(i, n)

\* A finalization that loses the race, because the row is resolved, changes
\* nothing; one that wins finds its invoice still open.
LEMMA FinalizeIsRowStep ==
  ASSUME TypeOK, OneAttemptInFlight, NEW i \in Invoices, NEW n \in DOMAIN payment[i],
         FinalizeChargeSucceeded(i, n) \/ FinalizeChargeFailed(i, n)
  PROVE  QuietStep \/ RowStep(i, n)
<1>1. CASE ~Resolvable(i, n)
  BY <1>1 DEF FinalizeChargeSucceeded, FinalizeChargeFailed, QuietStep
<1>2. CASE Resolvable(i, n)
  <2>1. n \in InFlight(i)
    BY <1>2 DEF Resolvable, InFlight
  <2>2. StillOpen(i)
    BY <2>1 DEF OneAttemptInFlight, StillOpen
  <2>3. CASE FinalizeChargeSucceeded(i, n)
    BY <1>2, <2>1, <2>2, <2>3 DEF FinalizeChargeSucceeded, RowStep, PayStep
  <2>4. CASE FinalizeChargeFailed(i, n)
    <3>1. CASE AttemptsLeft(i)
      BY <1>2, <2>1, <2>2, <2>4, <3>1 DEF FinalizeChargeFailed, RowStep, FailStep
    <3>2. CASE ~AttemptsLeft(i)
      BY <1>2, <2>1, <2>2, <2>4, <3>2 DEF FinalizeChargeFailed, RowStep, WriteOffStep
    <3> QED
      BY <3>1, <3>2
  <2> QED
    BY <2>3, <2>4
<1> QED
  BY <1>1, <1>2

\* MarkProcessing touches a pending row or nothing.
LEMMA MarkProcessingIsRowStep ==
  ASSUME TypeOK, NEW i \in Invoices, NEW n \in DOMAIN payment[i],
         MarkProcessing(i, n), UNCHANGED <<invoice, ledger, outbox>>
  PROVE  QuietStep \/ RowStep(i, n)
<1>1. CASE StillPending(i, n)
  <2>1. n \in InFlight(i)
    BY <1>1 DEF StillPending, InFlight, NonTerminal
  <2> QED
    BY <1>1, <2>1 DEF MarkProcessing, RowStep, ProcessingStep
<1>2. CASE ~StillPending(i, n)
  BY <1>2 DEF MarkProcessing, QuietStep
<1> QED
  BY <1>1, <1>2

\* Each action of the service is one of the seven database steps.
LEMMA NextIsDbStep ==
  ASSUME TypeOK, OneAttemptInFlight, RowsExist, Next
  PROVE  DbStep
<1>q. QuietStep => DbStep
  BY DEF DbStep
<1>r. \A i \in Invoices : \A n \in DOMAIN payment[i] : RowStep(i, n) => DbStep
  BY DEF DbStep
<1>n. ASSUME NEW i \in Invoices, NEW x \in {"nil", "due", "later"},
             invoice' = [invoice EXCEPT ![i].next = x], UNCHANGED <<payment, ledger, outbox>>
      PROVE  QuietStep
  BY <1>n DEF QuietStep, TypeOK
<1>1. ASSUME NEW i \in Invoices, CreateInvoiceFromRide(i)
      PROVE  DbStep
  BY <1>1 DEF CreateInvoiceFromRide, Unbilled, DbStep, OpenStep
<1>2. ASSUME NEW i \in Invoices, BackoffElapses(i)
      PROVE  DbStep
  BY <1>2, <1>n, <1>q DEF BackoffElapses
<1>3. ASSUME NEW i \in Invoices, LeaseExpires(i)
      PROVE  DbStep
  BY <1>3, <1>q DEF LeaseExpires, QuietStep
<1>4. ASSUME NEW c \in Clients,
             AddPaymentMethod(c) \/ RemovePaymentMethodCheck(c) \/ RemovePaymentMethodCommit(c)
      PROVE  DbStep
  BY <1>4, <1>q DEF AddPaymentMethod, RemovePaymentMethodCheck, RemovePaymentMethodCommit,
                    QuietStep, dbVars
<1>5. ASSUME NEW w \in Workers, ClaimBatch(w)
      PROVE  DbStep
  <2>1. PICK S \in SUBSET Due :
          payment' = [i \in Invoices |->
                        IF i \in FreshFor(S) THEN Append(payment[i], "pending") ELSE payment[i]]
    BY <1>5 DEF ClaimBatch
  <2>2. UNCHANGED <<invoice, ledger, outbox>>
    BY <1>5 DEF ClaimBatch
  <2>3. FreshFor(S) \in SUBSET Invoices
    BY <2>1 DEF FreshFor, Due
  <2>4. \A i \in FreshFor(S) : invoice[i].status = "open" /\ InFlight(i) = {}
    BY <2>1 DEF FreshFor, Due
  <2>5. AttemptStep(FreshFor(S))
    BY <2>1, <2>2, <2>4 DEF AttemptStep
  <2> QED
    BY <2>3, <2>5 DEF DbStep
<1>6. ASSUME NEW w \in Workers, WorkerCrash(w)
      PROVE  DbStep
  BY <1>6, <1>q DEF WorkerCrash, QuietStep, dbVars
<1>7. ASSUME NEW w \in Workers, NEW t \in tasks[w], WorkerStep(w, t) \/ AbandonTask(w, t)
      PROVE  DbStep
  <2>1. t.inv \in Invoices /\ t.n \in DOMAIN payment[t.inv]
    BY DEF TypeOK, Task, RowsExist
  <2>2. CASE Charge(w, t) \/ ChargeTransportError(w, t) \/ AbandonTask(w, t)
    BY <2>2, <1>q DEF Charge, ChargeTransportError, AbandonTask, QuietStep, dbVars
  <2>3. CASE WorkerFinalizeSucceeded(w, t) \/ WorkerFinalizeFailed(w, t)
    <3>1. FinalizeChargeSucceeded(t.inv, t.n) \/ FinalizeChargeFailed(t.inv, t.n)
      BY <2>3 DEF WorkerFinalizeSucceeded, WorkerFinalizeFailed
    <3> QED
      BY <2>1, <3>1, FinalizeIsRowStep, <1>q, <1>r
  <2>4. CASE WorkerMarkProcessing(w, t)
    <3>1. MarkProcessing(t.inv, t.n) /\ UNCHANGED <<invoice, ledger, outbox>>
      BY <2>4 DEF WorkerMarkProcessing
    <3> QED
      BY <2>1, <3>1, MarkProcessingIsRowStep, <1>q, <1>r
  <2>5. CASE WorkerClearNextAttempt(w, t)
    BY <2>1, <2>5, <1>n, <1>q DEF WorkerClearNextAttempt, ClearNextAttempt
  <2> QED
    BY <1>7, <2>2, <2>3, <2>4, <2>5 DEF WorkerStep
<1>8. ASSUME NEW e \in replied, NEW r \in {"succeeded", "failed"}, ProviderSettle(e.inv, e.n, r)
      PROVE  DbStep
  BY <1>8, <1>q DEF ProviderSettle, QuietStep, dbVars
<1>9. ASSUME NEW e \in events, WebhookDispatch(e)
      PROVE  DbStep
  <2>1. e.inv \in Invoices /\ e.n \in DOMAIN payment[e.inv]
    BY DEF TypeOK, Event, RowsExist
  <2>2. CASE WebhookUnmatched(e)
    BY <2>2, <1>q DEF WebhookUnmatched, QuietStep, dbVars
  <2>3. CASE WebhookSucceeded(e) \/ WebhookFailed(e)
    <3>1. FinalizeChargeSucceeded(e.inv, e.n) \/ FinalizeChargeFailed(e.inv, e.n)
      BY <2>3 DEF WebhookSucceeded, WebhookFailed
    <3> QED
      BY <2>1, <3>1, FinalizeIsRowStep, <1>q, <1>r
  <2>4. CASE WebhookProcessing(e)
    <3>1. MarkProcessing(e.inv, e.n) /\ UNCHANGED <<invoice, ledger, outbox>>
      BY <2>4 DEF WebhookProcessing
    <3> QED
      BY <2>1, <3>1, MarkProcessingIsRowStep, <1>q, <1>r
  <2> QED
    BY <1>9, <2>2, <2>3, <2>4 DEF WebhookDispatch
<1>10. ASSUME NEW h \in hooks, WebhookClear(h) \/ WebhookMarkProcessed(h) \/ WebhookAbort(h)
       PROVE  DbStep
  <2>1. h.event.inv \in Invoices
    BY DEF TypeOK, Hook, Event
  <2>2. CASE WebhookClear(h)
    BY <2>1, <2>2, <1>n, <1>q DEF WebhookClear, ClearNextAttempt
  <2>3. CASE WebhookMarkProcessed(h) \/ WebhookAbort(h)
    BY <2>3, <1>q DEF WebhookMarkProcessed, WebhookAbort, QuietStep, dbVars
  <2> QED
    BY <1>10, <2>2, <2>3
<1> QED
  BY <1>1, <1>2, <1>3, <1>4, <1>5, <1>6, <1>7, <1>8, <1>9, <1>10 DEF Next

-----------------------------------------------------------------------------
(* The part of the invariant that only reads the database.                 *)

CoreInv ==
  /\ UnbilledHasNoPayment
  /\ OneAttemptInFlight
  /\ LastAttemptOpen
  /\ BooksFollowInvoice
  /\ PaidByLastAttempt
  /\ AttemptBudget

\* Rows are never deleted.
LEMMA RowsKept ==
  ASSUME TypeOK, DbStep
  PROVE  \A i \in Invoices : DOMAIN payment[i] \subseteq DOMAIN payment'[i]
<1>1. CASE QuietStep
  BY <1>1 DEF QuietStep
<1>2. ASSUME NEW i \in Invoices, OpenStep(i)
      PROVE  UNCHANGED payment
  BY <1>2 DEF OpenStep
<1>3. ASSUME NEW S \in SUBSET Invoices, AttemptStep(S)
      PROVE  \A i \in Invoices : DOMAIN payment[i] \subseteq DOMAIN payment'[i]
  <2>1. \A i \in Invoices :
           /\ DOMAIN payment'[i] = 1..Len(payment'[i])
           /\ i \notin S => payment'[i] = payment[i]
           /\ i \in S => Len(payment'[i]) = Len(payment[i]) + 1
    BY <1>3, AppendRows DEF AttemptStep
  <2>2. \A i \in Invoices : DOMAIN payment[i] = 1..Len(payment[i]) /\ Len(payment[i]) \in Nat
    BY PaymentRows
  <2> QED
    BY <2>1, <2>2
<1>4. ASSUME NEW i \in Invoices, NEW n \in DOMAIN payment[i], RowStep(i, n)
      PROVE  \A j \in Invoices : DOMAIN payment[j] \subseteq DOMAIN payment'[j]
  <2>1. PICK x \in PaymentStatus : payment' = [payment EXCEPT ![i][n] = x]
    BY <1>4 DEF RowStep, ProcessingStep, PayStep, FailStep, WriteOffStep, PaymentStatus, NonTerminal
  <2> QED
    BY <2>1, UpdateRow
<1> QED
  BY <1>1, <1>2, <1>3, <1>4 DEF DbStep

\* Opening an invoice, starting attempts and scheduling preserve the core.
LEMMA CoreOpen ==
  ASSUME TypeOK, CoreInv, NEW i \in Invoices, OpenStep(i)
  PROVE  CoreInv'
<1>1. payment[i] = <<>>
  BY DEF CoreInv, UnbilledHasNoPayment, OpenStep
<1>2. Len(payment[i]) = 0 /\ DOMAIN payment[i] = {}
  BY <1>1, PaymentRows
<1>3. /\ \A j \in Invoices : j # i => invoice'[j] = invoice[j] /\ ledger'[j] = ledger[j]
      /\ invoice'[i].status = "open"
      /\ ledger'[i].opened = ledger[i].opened + 1
      /\ ledger'[i].succeeded = ledger[i].succeeded
      /\ ledger'[i].uncollectible = ledger[i].uncollectible
      /\ payment' = payment /\ outbox' = outbox
  BY DEF OpenStep, TypeOK
<1>4. \A j \in Invoices : InFlight(j)' = InFlight(j)
  BY <1>3 DEF InFlight
<1>5. UnbilledHasNoPayment'
  BY <1>3 DEF CoreInv, UnbilledHasNoPayment
<1>6. OneAttemptInFlight'
  BY <1>2, <1>3, <1>4 DEF CoreInv, OneAttemptInFlight, InFlight
<1>7. LastAttemptOpen'
  BY <1>2, <1>3, <1>4, BillingAssumption DEF CoreInv, LastAttemptOpen
<1>8. BooksFollowInvoice'
  BY <1>3 DEF CoreInv, BooksFollowInvoice, OpenStep
<1>9. PaidByLastAttempt'
  BY <1>2, <1>3 DEF CoreInv, PaidByLastAttempt
<1>10. AttemptBudget'
  BY <1>3 DEF CoreInv, AttemptBudget
<1> QED
  BY <1>5, <1>6, <1>7, <1>8, <1>9, <1>10 DEF CoreInv

LEMMA CoreAttempt ==
  ASSUME TypeOK, CoreInv, NEW S \in SUBSET Invoices, AttemptStep(S)
  PROVE  CoreInv'
<1>1. \A i \in Invoices :
        /\ DOMAIN payment'[i] = 1..Len(payment'[i])
        /\ i \notin S => payment'[i] = payment[i]
        /\ i \in S => /\ Len(payment'[i]) = Len(payment[i]) + 1
                      /\ payment'[i][Len(payment[i]) + 1] = "pending"
                      /\ \A m \in 1..Len(payment[i]) : payment'[i][m] = payment[i][m]
  BY AppendRows DEF AttemptStep
<1>2. \A i \in Invoices : DOMAIN payment[i] = 1..Len(payment[i]) /\ Len(payment[i]) \in Nat
  BY PaymentRows
<1>3. invoice' = invoice /\ ledger' = ledger /\ outbox' = outbox
  BY DEF AttemptStep
<1>4. \A i \in S : invoice[i].status = "open" /\ InFlight(i) = {}
  BY DEF AttemptStep
<1>5. \A i \in Invoices \ S : InFlight(i)' = InFlight(i)
  BY <1>1 DEF InFlight
<1>6. \A i \in S : InFlight(i)' = {Len(payment'[i])}
  <2>1. ASSUME NEW i \in S
        PROVE  \A m \in 1..Len(payment[i]) : payment[i][m] \notin NonTerminal
    BY <1>2, <1>4 DEF InFlight
  <2>2. ASSUME NEW i \in S
        PROVE  InFlight(i)' = {Len(payment'[i])}
    <3>1. /\ Len(payment[i]) \in Nat /\ DOMAIN payment'[i] = 1..(Len(payment[i]) + 1)
          /\ payment'[i][Len(payment[i]) + 1] = "pending"
          /\ \A m \in 1..Len(payment[i]) : payment'[i][m] \notin NonTerminal
      BY <1>1, <1>2, <2>1, <2>2
    <3>2. Len(payment'[i]) = Len(payment[i]) + 1
      BY <1>1, <2>2
    <3> QED
      BY <3>1, <3>2 DEF InFlight, NonTerminal
  <2> QED
    BY <2>2
<1>7. UnbilledHasNoPayment'
  BY <1>1, <1>3, <1>4 DEF CoreInv, UnbilledHasNoPayment
<1>8. OneAttemptInFlight'
  <2> SUFFICES ASSUME NEW i \in Invoices, NEW n \in InFlight(i)'
               PROVE  n = Len(payment'[i]) /\ invoice'[i].status = "open"
    BY DEF OneAttemptInFlight
  <2>1. CASE i \in S
    BY <2>1, <1>3, <1>4, <1>6
  <2>2. CASE i \notin S
    BY <2>2, <1>1, <1>3, <1>5 DEF CoreInv, OneAttemptInFlight
  <2> QED
    BY <2>1, <2>2
<1>9. LastAttemptOpen'
  BY <1>1, <1>3, <1>5, <1>6 DEF CoreInv, LastAttemptOpen
<1>10. BooksFollowInvoice'
  BY <1>3 DEF CoreInv, BooksFollowInvoice
<1>11. PaidByLastAttempt'
  <2> SUFFICES ASSUME NEW i \in Invoices, NEW n \in DOMAIN payment'[i]
               PROVE  payment'[i][n] = "succeeded" <=>
                        invoice'[i].status = "paid" /\ n = Len(payment'[i])
    BY DEF PaidByLastAttempt
  <2>1. CASE i \in S
    <3>1. invoice'[i].status = "open"
      BY <1>3, <1>4, <2>1
    <3>2. \A m \in 1..Len(payment[i]) : payment[i][m] # "succeeded"
      BY <1>2, <1>4, <2>1 DEF CoreInv, PaidByLastAttempt
    <3>3. n \in 1..Len(payment[i]) \/ n = Len(payment[i]) + 1
      BY <1>1, <1>2, <2>1
    <3>4. payment'[i][n] # "succeeded"
      BY <1>1, <2>1, <3>2, <3>3
    <3> QED
      BY <3>1, <3>4
  <2>2. CASE i \notin S
    BY <1>1, <1>3, <2>2 DEF CoreInv, PaidByLastAttempt
  <2> QED
    BY <2>1, <2>2
<1>12. AttemptBudget'
  <2>1. \A i \in S : Len(payment[i]) < MaxAttempts
    BY <1>2, <1>4, BillingAssumption DEF CoreInv, LastAttemptOpen, AttemptBudget
  <2> QED
    BY <1>1, <1>2, <1>3, <1>4, <2>1, BillingAssumption DEF CoreInv, AttemptBudget
<1> QED
  BY <1>7, <1>8, <1>9, <1>10, <1>11, <1>12 DEF CoreInv

LEMMA CoreRow ==
  ASSUME TypeOK, CoreInv, NEW i \in Invoices, NEW n \in DOMAIN payment[i], RowStep(i, n)
  PROVE  CoreInv'
<1> DEFINE x == payment'[i][n]
<1>1. /\ x \in PaymentStatus
      /\ payment' \in [Invoices -> Seq(PaymentStatus)]
      /\ \A j \in Invoices : /\ Len(payment'[j]) = Len(payment[j])
                             /\ DOMAIN payment'[j] = DOMAIN payment[j]
                             /\ j # i => payment'[j] = payment[j]
      /\ \A m \in DOMAIN payment[i] : payment'[i][m] = IF m = n THEN x ELSE payment[i][m]
  <2>1. PICK y \in PaymentStatus : payment' = [payment EXCEPT ![i][n] = y]
    BY DEF RowStep, ProcessingStep, PayStep, FailStep, WriteOffStep, PaymentStatus, NonTerminal
  <2>2. /\ payment' \in [Invoices -> Seq(PaymentStatus)]
        /\ \A j \in Invoices : /\ Len(payment'[j]) = Len(payment[j])
                               /\ DOMAIN payment'[j] = DOMAIN payment[j]
                               /\ j # i => payment'[j] = payment[j]
        /\ \A m \in DOMAIN payment[i] : payment'[i][m] = IF m = n THEN y ELSE payment[i][m]
    BY <2>1, UpdateRow
  <2>3. x = y
    BY <2>2
  <2> QED
    BY <2>2, <2>3
<1>2. /\ n \in InFlight(i) /\ n = Len(payment[i]) /\ invoice[i].status = "open"
      /\ payment[i][n] \in NonTerminal
  BY DEF RowStep, ProcessingStep, PayStep, FailStep, WriteOffStep, CoreInv, OneAttemptInFlight,
         InFlight
<1>3. \A j \in Invoices : j # i =>
        /\ invoice'[j] = invoice[j] /\ ledger'[j] = ledger[j] /\ outbox'[j] = outbox[j]
  BY DEF RowStep, ProcessingStep, PayStep, FailStep, WriteOffStep, TypeOK
<1>4. /\ invoice[i] \in [status : InvoiceStatus, next : {"nil", "due", "later"}]
      /\ ledger[i] \in [opened : Nat, succeeded : Nat, uncollectible : Nat]
      /\ outbox[i] \in [completed : Nat, failed : Nat]
  BY DEF TypeOK
<1>5. \/ /\ x = "processing" /\ invoice'[i].status = "open"
         /\ ledger'[i] = ledger[i] /\ outbox'[i] = outbox[i]
      \/ /\ x = "failed" /\ invoice'[i].status = "open" /\ AttemptsLeft(i)
         /\ ledger'[i] = ledger[i] /\ outbox'[i] = outbox[i]
      \/ /\ x = "succeeded" /\ invoice'[i].status = "paid"
         /\ ledger'[i] = [ledger[i] EXCEPT !.succeeded = @ + 1]
         /\ outbox'[i] = [outbox[i] EXCEPT !.completed = @ + 1]
      \/ /\ x = "failed" /\ invoice'[i].status = "uncollectible" /\ ~AttemptsLeft(i)
         /\ ledger'[i] = [ledger[i] EXCEPT !.uncollectible = @ + 1]
         /\ outbox'[i] = [outbox[i] EXCEPT !.failed = @ + 1]
  <2>0. /\ invoice \in [Invoices -> [status : InvoiceStatus, next : {"nil", "due", "later"}]]
        /\ ledger \in [Invoices -> [opened : Nat, succeeded : Nat, uncollectible : Nat]]
        /\ outbox \in [Invoices -> [completed : Nat, failed : Nat]]
        /\ payment \in [Invoices -> Seq(PaymentStatus)]
        /\ payment[i] \in Seq(PaymentStatus)
    BY DEF TypeOK
  <2>1. CASE ProcessingStep(i, n)
    BY <1>2, <2>0, <2>1 DEF ProcessingStep
  <2>2. CASE PayStep(i, n)
    BY <1>2, <2>0, <2>2 DEF PayStep
  <2>3. CASE FailStep(i, n)
    BY <1>2, <2>0, <2>3 DEF FailStep
  <2>4. CASE WriteOffStep(i, n)
    BY <1>2, <2>0, <2>4 DEF WriteOffStep
  <2> QED
    BY <2>1, <2>2, <2>3, <2>4 DEF RowStep
<1> HIDE DEF x
<1>6. \A j \in Invoices : j # i => InFlight(j)' = InFlight(j)
  BY <1>1 DEF InFlight
<1>7. /\ InFlight(i)' \subseteq {n}
      /\ x = "processing" => n \in InFlight(i)'
      /\ x # "processing" => n \notin InFlight(i)' \/ x = "pending"
  <2>1. \A m \in InFlight(i) : m = n
    BY <1>2 DEF CoreInv, OneAttemptInFlight
  <2> QED
    BY <1>1, <2>1 DEF InFlight, NonTerminal
<1>8. DOMAIN payment[i] = 1..Len(payment[i]) /\ Len(payment[i]) \in Nat
  BY PaymentRows
<1>9. UnbilledHasNoPayment'
  BY <1>1, <1>3, <1>5 DEF CoreInv, UnbilledHasNoPayment
<1>10. OneAttemptInFlight'
  BY <1>1, <1>2, <1>3, <1>5, <1>6, <1>7 DEF CoreInv, OneAttemptInFlight
<1>11. LastAttemptOpen'
  <2> SUFFICES ASSUME NEW j \in Invoices, invoice'[j].status = "open",
                      Len(payment'[j]) = MaxAttempts
               PROVE  InFlight(j)' # {}
    BY DEF LastAttemptOpen
  <2>1. CASE j = i
    <3>1. ~AttemptsLeft(i)
      BY <1>1, <1>8, <2>1, BillingAssumption DEF AttemptsLeft
    <3> QED
      BY <1>5, <1>7, <2>1, <3>1
  <2>2. CASE j # i
    BY <1>1, <1>3, <1>6, <2>2 DEF CoreInv, LastAttemptOpen
  <2> QED
    BY <2>1, <2>2
<1>12. BooksFollowInvoice'
  BY <1>2, <1>3, <1>4, <1>5 DEF CoreInv, BooksFollowInvoice
<1>13. PaidByLastAttempt'
  <2> SUFFICES ASSUME NEW j \in Invoices, NEW m \in DOMAIN payment'[j]
               PROVE  payment'[j][m] = "succeeded" <=>
                        invoice'[j].status = "paid" /\ m = Len(payment'[j])
    BY DEF PaidByLastAttempt
  <2>1. CASE j = i
    <3>1. \A k \in DOMAIN payment[i] : payment[i][k] # "succeeded"
      BY <1>2 DEF CoreInv, PaidByLastAttempt
    <3> QED
      BY <1>1, <1>2, <1>5, <2>1, <3>1
  <2>2. CASE j # i
    BY <1>1, <1>3, <2>2 DEF CoreInv, PaidByLastAttempt
  <2> QED
    BY <2>1, <2>2
<1>14. AttemptBudget'
  <2>1. Len(payment[i]) <= MaxAttempts
    BY DEF CoreInv, AttemptBudget
  <2>2. ~AttemptsLeft(i) => Len(payment[i]) = MaxAttempts
    BY <1>8, <2>1, BillingAssumption DEF AttemptsLeft
  <2> QED
    BY <1>1, <1>3, <1>5, <2>1, <2>2 DEF CoreInv, AttemptBudget
<1> QED
  BY <1>9, <1>10, <1>11, <1>12, <1>13, <1>14 DEF CoreInv

\* The core holds after every database step.
LEMMA CoreStep ==
  ASSUME TypeOK, CoreInv, DbStep
  PROVE  CoreInv'
<1>1. CASE QuietStep
  <2>1. \A i \in Invoices : InFlight(i)' = InFlight(i)
    BY <1>1 DEF QuietStep, InFlight
  <2> QED
    BY <1>1, <2>1 DEF QuietStep, CoreInv, UnbilledHasNoPayment, OneAttemptInFlight,
      LastAttemptOpen, BooksFollowInvoice, PaidByLastAttempt, AttemptBudget
<1> QED
  BY <1>1, CoreOpen, CoreAttempt, CoreRow DEF DbStep

-----------------------------------------------------------------------------
(* Types.                                                                  *)

DbType ==
  /\ invoice \in [Invoices -> [status : InvoiceStatus, next : {"nil", "due", "later"}]]
  /\ payment \in [Invoices -> Seq(PaymentStatus)]
  /\ ledger \in [Invoices -> [opened : Nat, succeeded : Nat, uncollectible : Nat]]
  /\ outbox \in [Invoices -> [completed : Nat, failed : Nat]]

KeyType == noMethod \subseteq Keys /\ leased \subseteq Keys /\ intentSet \subseteq Keys

PspType ==
  /\ replied \subseteq Event
  /\ captured \subseteq Keys /\ canceled \subseteq Keys
  /\ events \subseteq Event

RestType ==
  /\ defaultPM \subseteq Clients /\ removing \subseteq Clients
  /\ tasks \in [Workers -> SUBSET Task]
  /\ hooks \subseteq Hook
  /\ processed \subseteq Event
  /\ crashes \in Nat

LEMMA TypeParts == TypeOK <=> DbType /\ KeyType /\ PspType /\ RestType
  BY DEF TypeOK, DbType, KeyType, PspType, RestType

LEMMA TypePartsNext == TypeOK' <=> DbType' /\ KeyType' /\ PspType' /\ RestType'
  BY DEF TypeOK, DbType, KeyType, PspType, RestType

\* The provider only ever extends what it has answered, captured, canceled and
\* emitted, and a success it reports is one it captured.
PspStep(i, n) ==
  /\ replied \subseteq replied' /\ events \subseteq events' /\ captured \subseteq captured'
  /\ \A e \in (replied' \cup events') \ (replied \cup events) :
       e.inv = i /\ e.n = n /\ (e.status = "succeeded" => <<i, n>> \in captured')

LEMMA ChargeIsPspStep ==
  ASSUME TypeOK, SuccessIsCaptured,
         NEW i \in Invoices, NEW n \in Nat \ {0}, NEW r \in ReplyKinds,
         ProviderCharge(i, n, r)
  PROVE  /\ PspType' /\ PspStep(i, n)
         /\ r = "succeeded" => <<i, n>> \in captured'
<1> DEFINE e == [inv |-> i, n |-> n, status |-> r]
<1>1. e \in Event /\ <<i, n>> \in Keys
  BY DEF Event, Keys
<1>2. CASE r \in SavedReply(i, n) /\ UNCHANGED pspVars
  <2>1. PICK f \in replied : f.inv = i /\ f.n = n /\ f.status = r
    BY <1>2 DEF SavedReply
  <2>2. r = "succeeded" => <<i, n>> \in captured
    BY <2>1 DEF SuccessIsCaptured
  <2> QED
    BY <1>2, <2>2 DEF pspVars, TypeOK, PspType, PspStep
<1>3. CASE /\ SavedReply(i, n) = {}
           /\ replied' = replied \cup {e}
           /\ captured' = IF r = "succeeded" THEN captured \cup {<<i, n>>} ELSE captured
           /\ canceled' = IF r = "failed" THEN canceled \cup {<<i, n>>} ELSE canceled
           /\ Emit(i, n, r)
  <2>1. events' = events \/ events' = events \cup {e}
    BY <1>3 DEF Emit
  <2>2. r = "succeeded" => <<i, n>> \in captured'
    BY <1>3
  <2>3. PspType'
    BY <1>1, <1>3, <2>1 DEF TypeOK, PspType
  <2>4. e.inv = i /\ e.n = n /\ e.status = r
    OBVIOUS
  <2> HIDE DEF e
  <2>5. PspStep(i, n)
    BY <1>3, <2>1, <2>2, <2>4 DEF PspStep
  <2> QED
    BY <2>2, <2>3, <2>5
<1> QED
  BY <1>2, <1>3 DEF ProviderCharge

LEMMA SettleIsPspStep ==
  ASSUME TypeOK, NEW i \in Invoices, NEW n \in Nat \ {0}, NEW r \in {"succeeded", "failed"},
         ProviderSettle(i, n, r)
  PROVE  PspType' /\ PspStep(i, n)
<1> DEFINE e == [inv |-> i, n |-> n, status |-> r]
<1>1. e \in Event /\ <<i, n>> \in Keys
  BY DEF Event, Keys, ReplyKinds
<1>2. events' = events \/ events' = events \cup {e}
  BY DEF ProviderSettle, Emit
<1>3. e.inv = i /\ e.n = n /\ e.status = r
  OBVIOUS
<1> HIDE DEF e
<1>4. r = "succeeded" => <<i, n>> \in captured'
  BY DEF ProviderSettle
<1>5. replied' = replied /\ captured \subseteq captured'
  BY DEF ProviderSettle
<1>6. PspType'
  BY <1>1, <1>2, <1>5 DEF ProviderSettle, TypeOK, PspType
<1> QED
  BY <1>2, <1>3, <1>4, <1>5, <1>6 DEF PspStep

Postings == [opened : Nat, succeeded : Nat, uncollectible : Nat]
Topics   == [completed : Nat, failed : Nat]

\* Counting one more posting, or one more event, stays within the type.
LEMMA CountOneMore ==
  ASSUME NEW l \in [Invoices -> Postings], NEW o \in [Invoices -> Topics], NEW i \in Invoices
  PROVE  /\ [l EXCEPT ![i].opened = @ + 1] \in [Invoices -> Postings]
         /\ [l EXCEPT ![i].succeeded = @ + 1] \in [Invoices -> Postings]
         /\ [l EXCEPT ![i].uncollectible = @ + 1] \in [Invoices -> Postings]
         /\ [o EXCEPT ![i].completed = @ + 1] \in [Invoices -> Topics]
         /\ [o EXCEPT ![i].failed = @ + 1] \in [Invoices -> Topics]
<1>1. /\ [l[i] EXCEPT !.opened = @ + 1] \in Postings
      /\ [l[i] EXCEPT !.succeeded = @ + 1] \in Postings
      /\ [l[i] EXCEPT !.uncollectible = @ + 1] \in Postings
  BY DEF Postings
<1>2. /\ [o[i] EXCEPT !.completed = @ + 1] \in Topics
      /\ [o[i] EXCEPT !.failed = @ + 1] \in Topics
  BY DEF Topics
<1> QED
  BY <1>1, <1>2

\* The statements of a finalization keep the database well typed.
LEMMA DbStepType ==
  ASSUME TypeOK, DbStep,
         invoice' \in [Invoices -> [status : InvoiceStatus, next : {"nil", "due", "later"}]]
  PROVE  DbType'
<1>1. DbType
  BY TypeParts
<1>2. CASE QuietStep
  BY <1>1, <1>2 DEF QuietStep, DbType
<1>3. ASSUME NEW i \in Invoices, OpenStep(i)
      PROVE  DbType'
  BY <1>1, <1>3, CountOneMore DEF OpenStep, DbType, Postings, Topics
<1>4. ASSUME NEW S \in SUBSET Invoices, AttemptStep(S)
      PROVE  DbType'
  BY <1>1, <1>4, AppendRows DEF AttemptStep, DbType
<1>5. ASSUME NEW i \in Invoices, NEW n \in DOMAIN payment[i], RowStep(i, n)
      PROVE  DbType'
  <2>1. PICK x \in PaymentStatus : payment' = [payment EXCEPT ![i][n] = x]
    BY <1>5 DEF RowStep, ProcessingStep, PayStep, FailStep, WriteOffStep, PaymentStatus, NonTerminal
  <2>2. payment' \in [Invoices -> Seq(PaymentStatus)]
    BY <2>1, UpdateRow
  <2>3. ledger \in [Invoices -> Postings] /\ outbox \in [Invoices -> Topics]
    BY <1>1 DEF DbType, Postings, Topics
  <2>4. ledger' \in [Invoices -> Postings] /\ outbox' \in [Invoices -> Topics]
    <3>1. CASE ProcessingStep(i, n) \/ FailStep(i, n)
      BY <2>3, <3>1 DEF ProcessingStep, FailStep
    <3>2. CASE PayStep(i, n)
      BY <2>3, <3>2, CountOneMore DEF PayStep
    <3>3. CASE WriteOffStep(i, n)
      BY <2>3, <3>3, CountOneMore DEF WriteOffStep
    <3> QED
      BY <1>5, <3>1, <3>2, <3>3 DEF RowStep
  <2> QED
    BY <2>2, <2>4 DEF DbType, Postings, Topics
<1> QED
  BY <1>2, <1>3, <1>4, <1>5 DEF DbStep

InvoiceRow == [status : InvoiceStatus, next : {"nil", "due", "later"}]

\* The invoice row stays within its type: every action writes it as a whole, or
\* its schedule only, or not at all.
InvoiceWrite ==
  \/ UNCHANGED invoice
  \/ \E i \in Invoices :
       \/ \E r \in InvoiceRow :
            invoice' = [invoice EXCEPT ![i] = r]
       \/ \E x \in {"nil", "due", "later"} : invoice' = [invoice EXCEPT ![i].next = x]

LEMMA InvoiceWriteType ==
  ASSUME TypeOK, InvoiceWrite
  PROVE  invoice' \in [Invoices -> InvoiceRow]
<1>1. invoice \in [Invoices -> InvoiceRow]
  BY DEF TypeOK, InvoiceRow
<1>2. ASSUME NEW i \in Invoices, NEW x \in {"nil", "due", "later"},
             invoice' = [invoice EXCEPT ![i].next = x]
      PROVE  invoice' \in [Invoices -> InvoiceRow]
  <2>1. [invoice[i] EXCEPT !.next = x] \in InvoiceRow
    BY <1>1 DEF InvoiceRow
  <2> QED
    BY <1>1, <1>2, <2>1
<1> QED
  BY <1>1, <1>2 DEF InvoiceWrite

LEMMA FinalizeWrites ==
  ASSUME TypeOK, NEW i \in Invoices, NEW n \in Nat \ {0},
         FinalizeChargeSucceeded(i, n) \/ FinalizeChargeFailed(i, n)
  PROVE  InvoiceWrite /\ KeyType'
<1>1. <<i, n>> \in Keys
  BY DEF Keys
<1>2. KeyType'
  BY <1>1 DEF FinalizeChargeSucceeded, FinalizeChargeFailed, TypeOK, KeyType
<1> DEFINE closed(s) == [status |-> s, next |-> "nil"]
<1>3. closed("paid") \in InvoiceRow /\ closed("uncollectible") \in InvoiceRow
  BY DEF InvoiceRow, InvoiceStatus
<1>4. \/ UNCHANGED invoice
      \/ invoice' = [invoice EXCEPT ![i].next = "later"]
      \/ invoice' = [invoice EXCEPT ![i] = closed("paid")]
      \/ invoice' = [invoice EXCEPT ![i] = closed("uncollectible")]
  BY DEF FinalizeChargeSucceeded, FinalizeChargeFailed
<1> HIDE DEF closed
<1>5. InvoiceWrite
  BY <1>3, <1>4 DEF InvoiceWrite
<1> QED
  BY <1>2, <1>5

LEMMA MarkProcessingWrites ==
  ASSUME TypeOK, NEW i \in Invoices, NEW n \in Nat \ {0}, MarkProcessing(i, n),
         UNCHANGED <<invoice, noMethod, leased>>
  PROVE  InvoiceWrite /\ KeyType'
<1>1. <<i, n>> \in Keys
  BY DEF Keys
<1> QED
  BY <1>1 DEF MarkProcessing, InvoiceWrite, TypeOK, KeyType

\* What a worker holds stays a set of claims.
LEMMA TaskMoves ==
  ASSUME TypeOK, NEW w \in Workers, NEW t \in tasks[w], NEW s \in TaskStep
  PROVE  /\ t \in Task
         /\ Done(w, t) => tasks' \in [Workers -> SUBSET Task]
         /\ Advance(w, t, s) => tasks' \in [Workers -> SUBSET Task]
<1>1. t \in Task /\ tasks \in [Workers -> SUBSET Task]
  BY DEF TypeOK
<1>2. [t EXCEPT !.step = s] \in Task
  BY <1>1 DEF Task
<1> QED
  BY <1>1, <1>2 DEF Done, Advance

\* The attempt a claim works on is a row that exists once the claim is made.
LEMMA ClaimedRow ==
  ASSUME TypeOK, OneAttemptInFlight, NEW i \in Invoices
  PROVE  /\ ClaimNo(i) \in Nat \ {0} /\ <<i, ClaimNo(i)>> \in Keys
         /\ ClaimFor(i) \in Task /\ ClaimFor(i).inv = i /\ ClaimFor(i).n = ClaimNo(i)
         /\ ClaimFor(i).step # "succeeded"
         /\ InFlight(i) = {} => ClaimNo(i) = Len(payment[i]) + 1
         /\ InFlight(i) # {} => ClaimNo(i) \in DOMAIN payment[i]
<1>1. Len(payment[i]) \in Nat
  BY PaymentRows
<1>2. InFlight(i) # {} => /\ ClaimNo(i) = Len(payment[i]) /\ Len(payment[i]) \in Nat \ {0}
                          /\ ClaimNo(i) \in DOMAIN payment[i]
  BY CurrentInFlight DEF ClaimNo, InFlight
<1>3. InFlight(i) = {} => ClaimNo(i) = Len(payment[i]) + 1
  BY DEF ClaimNo
<1>4. ClaimNo(i) \in Nat \ {0}
  BY <1>1, <1>2, <1>3
<1> QED
  BY <1>2, <1>3, <1>4 DEF ClaimFor, Task, TaskStep, Keys

LEMMA TypeStep ==
  ASSUME BillingInv, Next
  PROVE  TypeOK'
<1>0. TypeOK /\ OneAttemptInFlight /\ RowsExist /\ SuccessIsCaptured
  BY DEF BillingInv
<1>t. DbType /\ KeyType /\ PspType /\ RestType
  BY <1>0, TypeParts
<1> SUFFICES InvoiceWrite /\ KeyType' /\ PspType' /\ RestType'
  <2>1. DbStep
    BY <1>0, NextIsDbStep
  <2>2. InvoiceWrite => DbType'
    BY <1>0, <2>1, InvoiceWriteType, DbStepType DEF InvoiceRow
  <2> QED
    BY <2>2, TypePartsNext
<1>1. ASSUME NEW i \in Invoices, CreateInvoiceFromRide(i)
      PROVE  InvoiceWrite /\ KeyType' /\ PspType' /\ RestType'
  <2> DEFINE r == [status |-> "open", next |-> "due"]
  <2>1. r \in InvoiceRow
    BY DEF InvoiceRow, InvoiceStatus
  <2>2. invoice' = [invoice EXCEPT ![i] = r]
    BY <1>1 DEF CreateInvoiceFromRide
  <2> HIDE DEF r
  <2>3. InvoiceWrite
    BY <2>1, <2>2 DEF InvoiceWrite
  <2> QED
    BY <1>1, <1>t, <2>3 DEF CreateInvoiceFromRide, KeyType, PspType, RestType, pmVars, pspVars,
       hookVars
<1>2. ASSUME NEW i \in Invoices, BackoffElapses(i) \/ LeaseExpires(i)
      PROVE  InvoiceWrite /\ KeyType' /\ PspType' /\ RestType'
  BY <1>2, <1>t DEF BackoffElapses, LeaseExpires, InvoiceWrite, KeyType, PspType, RestType,
     pmVars, pspVars, hookVars
<1>3. ASSUME NEW c \in Clients,
             AddPaymentMethod(c) \/ RemovePaymentMethodCheck(c) \/ RemovePaymentMethodCommit(c)
      PROVE  InvoiceWrite /\ KeyType' /\ PspType' /\ RestType'
  BY <1>3, <1>t DEF AddPaymentMethod, RemovePaymentMethodCheck, RemovePaymentMethodCommit,
       InvoiceWrite, KeyType, PspType, RestType, dbVars, pspVars, hookVars
<1>4. ASSUME NEW w \in Workers, ClaimBatch(w)
      PROVE  InvoiceWrite /\ KeyType' /\ PspType' /\ RestType'
  <2>1. PICK S \in SUBSET Due :
          /\ noMethod' = noMethod \cup {<<i, ClaimNo(i)>> : i \in {i \in FreshFor(S) : Immediate(i)}}
          /\ leased' = leased \cup {<<i, ClaimNo(i)>> :
                          i \in (FreshFor(S) \ {i \in FreshFor(S) : Immediate(i)}) \cup ResumedFor(S)}
          /\ tasks' = [tasks EXCEPT ![w] = {ClaimFor(i) : i \in FreshFor(S) \cup ResumedFor(S)}]
    BY <1>4 DEF ClaimBatch
  <2>2. FreshFor(S) \subseteq Invoices /\ ResumedFor(S) \subseteq Invoices
    BY <2>1 DEF FreshFor, ResumedFor, Due
  <2>3. \A i \in Invoices : <<i, ClaimNo(i)>> \in Keys /\ ClaimFor(i) \in Task
    BY <1>0, ClaimedRow
  <2>4. noMethod' \subseteq Keys /\ leased' \subseteq Keys
    BY <1>t, <2>1, <2>2, <2>3 DEF KeyType
  <2>5. tasks' \in [Workers -> SUBSET Task]
    BY <1>t, <2>1, <2>2, <2>3 DEF RestType
  <2> QED
    BY <1>4, <1>t, <2>4, <2>5 DEF ClaimBatch, InvoiceWrite, KeyType, PspType, RestType, pmVars,
       pspVars, hookVars
<1>5. ASSUME NEW w \in Workers, WorkerCrash(w)
      PROVE  InvoiceWrite /\ KeyType' /\ PspType' /\ RestType'
  BY <1>5, <1>t DEF WorkerCrash, InvoiceWrite, KeyType, PspType, RestType, dbVars, pmVars,
     pspVars, hookVars
<1>6. ASSUME NEW w \in Workers, NEW t \in tasks[w], WorkerStep(w, t) \/ AbandonTask(w, t)
      PROVE  InvoiceWrite /\ KeyType' /\ PspType' /\ RestType'
  <2>1. t.inv \in Invoices /\ t.n \in Nat \ {0}
    BY <1>t DEF RestType, Task
  <2>2. Done(w, t) => tasks' \in [Workers -> SUBSET Task]
    BY <1>0, TaskMoves DEF TaskStep
  <2>3. \A s \in TaskStep : Advance(w, t, s) => tasks' \in [Workers -> SUBSET Task]
    BY <1>0, TaskMoves
  <2>4. CASE Charge(w, t) \/ ChargeTransportError(w, t)
    <3>1. PspType'
      <4>1. ASSUME NEW r \in Replies, ProviderCharge(t.inv, t.n, r)
            PROVE  PspType'
        BY <1>0, <2>1, <4>1, ChargeIsPspStep, BillingAssumption
      <4>2. UNCHANGED pspVars => PspType'
        BY <1>t DEF PspType, pspVars
      <4> QED
        BY <2>4, <4>1, <4>2 DEF Charge, ChargeTransportError
    <3>2. tasks' \in [Workers -> SUBSET Task]
      <4>1. \A r \in Replies : StepFor(r) \in TaskStep
        BY DEF StepFor, TaskStep
      <4>2. "failed" \in TaskStep
        BY DEF TaskStep
      <4> QED
        BY <2>3, <2>4, <4>1, <4>2 DEF Charge, ChargeTransportError
    <3>3. UNCHANGED <<invoice, noMethod, leased, intentSet, defaultPM, removing, hooks, processed, crashes>>
      BY <2>4 DEF Charge, ChargeTransportError, dbVars, pmVars, hookVars
    <3> QED
      BY <1>t, <3>1, <3>2, <3>3 DEF InvoiceWrite, KeyType, RestType
  <2>5. CASE WorkerFinalizeSucceeded(w, t) \/ WorkerFinalizeFailed(w, t)
    <3>1. /\ FinalizeChargeSucceeded(t.inv, t.n) \/ FinalizeChargeFailed(t.inv, t.n)
          /\ Done(w, t) /\ UNCHANGED <<pmVars, pspVars, hookVars, crashes>>
      BY <2>5 DEF WorkerFinalizeSucceeded, WorkerFinalizeFailed
    <3>2. InvoiceWrite /\ KeyType'
      BY <1>0, <2>1, <3>1, FinalizeWrites
    <3> QED
      BY <1>t, <2>2, <3>1, <3>2 DEF PspType, RestType, pmVars, pspVars, hookVars
  <2>6. CASE WorkerMarkProcessing(w, t)
    <3>1. /\ MarkProcessing(t.inv, t.n) /\ UNCHANGED <<invoice, noMethod, leased>>
          /\ Advance(w, t, "clear") \/ Done(w, t)
          /\ UNCHANGED <<pmVars, pspVars, hookVars, crashes>>
      BY <2>6 DEF WorkerMarkProcessing
    <3>2. InvoiceWrite /\ KeyType'
      BY <1>0, <2>1, <3>1, MarkProcessingWrites
    <3>3. tasks' \in [Workers -> SUBSET Task]
      BY <2>2, <2>3, <3>1 DEF TaskStep
    <3> QED
      BY <1>t, <3>1, <3>2, <3>3 DEF PspType, RestType, pmVars, pspVars, hookVars
  <2>7. CASE WorkerClearNextAttempt(w, t)
    <3>1. InvoiceWrite
      BY <2>1, <2>7 DEF WorkerClearNextAttempt, ClearNextAttempt, InvoiceWrite
    <3> QED
      BY <1>t, <2>2, <2>7, <3>1 DEF WorkerClearNextAttempt, KeyType, PspType, RestType, pmVars,
         pspVars, hookVars
  <2>8. CASE AbandonTask(w, t)
    BY <1>t, <2>2, <2>8 DEF AbandonTask, InvoiceWrite, KeyType, PspType, RestType, dbVars, pmVars,
       pspVars, hookVars
  <2> QED
    BY <1>6, <2>4, <2>5, <2>6, <2>7, <2>8 DEF WorkerStep
<1>7. ASSUME NEW e \in replied, NEW r \in {"succeeded", "failed"}, ProviderSettle(e.inv, e.n, r)
      PROVE  InvoiceWrite /\ KeyType' /\ PspType' /\ RestType'
  <2>1. e.inv \in Invoices /\ e.n \in Nat \ {0}
    BY <1>t DEF PspType, Event
  <2>2. PspType'
    BY <1>0, <1>7, <2>1, SettleIsPspStep
  <2> QED
    BY <1>7, <1>t, <2>2 DEF ProviderSettle, InvoiceWrite, KeyType, RestType, dbVars, pmVars,
       hookVars
<1>8. ASSUME NEW e \in events, WebhookDispatch(e)
      PROVE  InvoiceWrite /\ KeyType' /\ PspType' /\ RestType'
  <2>1. e \in Event /\ e.inv \in Invoices /\ e.n \in Nat \ {0}
    BY <1>t DEF PspType, Event
  <2>2. \A s \in {"clear", "mark"} : [event |-> e, step |-> s] \in Hook
    BY <2>1 DEF Hook
  <2>3. hooks' \subseteq Hook
    BY <1>8, <1>t, <2>2 DEF WebhookDispatch, WebhookUnmatched, WebhookSucceeded, WebhookProcessing,
                            WebhookFailed, RestType
  <2>4. InvoiceWrite /\ KeyType'
    <3>1. CASE WebhookUnmatched(e)
      BY <1>t, <3>1 DEF WebhookUnmatched, dbVars, InvoiceWrite, KeyType
    <3>2. CASE WebhookSucceeded(e) \/ WebhookFailed(e)
      BY <1>0, <2>1, <3>2, FinalizeWrites DEF WebhookSucceeded, WebhookFailed
    <3>3. CASE WebhookProcessing(e)
      BY <1>0, <2>1, <3>3, MarkProcessingWrites DEF WebhookProcessing
    <3> QED
      BY <1>8, <3>1, <3>2, <3>3 DEF WebhookDispatch
  <2> QED
    BY <1>8, <1>t, <2>3, <2>4 DEF WebhookDispatch, PspType, RestType, pmVars, pspVars
<1>9. ASSUME NEW h \in hooks, WebhookClear(h) \/ WebhookMarkProcessed(h) \/ WebhookAbort(h)
      PROVE  InvoiceWrite /\ KeyType' /\ PspType' /\ RestType'
  <2>1. h \in Hook /\ h.event \in Event /\ h.event.inv \in Invoices
    BY <1>t DEF RestType, Hook, Event
  <2>2. [h EXCEPT !.step = "mark"] \in Hook
    BY <2>1 DEF Hook
  <2>3. hooks' \subseteq Hook
    BY <1>9, <1>t, <2>2 DEF WebhookClear, WebhookMarkProcessed, WebhookAbort, RestType
  <2>4. InvoiceWrite
    BY <1>9, <2>1 DEF WebhookClear, WebhookMarkProcessed, WebhookAbort, ClearNextAttempt,
                      InvoiceWrite, dbVars
  <2> QED
    BY <1>9, <1>t, <2>1, <2>3, <2>4 DEF WebhookClear, WebhookMarkProcessed, WebhookAbort, KeyType,
         PspType, RestType, dbVars, pmVars, pspVars
<1> QED
  BY <1>1, <1>2, <1>3, <1>4, <1>5, <1>6, <1>7, <1>8, <1>9 DEF Next

-----------------------------------------------------------------------------
(* Work in progress and the provider.                                      *)

\* Claims, answers and events refer to rows that exist, and every success
\* among them is captured.
TasksBacked ==
  \A w \in Workers : \A t \in tasks[w] :
    t.n \in DOMAIN payment[t.inv] /\ (t.step = "succeeded" => <<t.inv, t.n>> \in captured)

EventsBacked ==
  \A e \in replied \cup events :
    e.n \in DOMAIN payment[e.inv] /\ (e.status = "succeeded" => <<e.inv, e.n>> \in captured)

HooksBacked == \A h \in hooks : h.event \in events

LEMMA Backed ==
  /\ RowsExist /\ SuccessIsCaptured <=> TasksBacked /\ EventsBacked /\ HooksBacked
  /\ RowsExist' /\ SuccessIsCaptured' <=> TasksBacked' /\ EventsBacked' /\ HooksBacked'
  BY DEF RowsExist, SuccessIsCaptured, TasksBacked, EventsBacked, HooksBacked

\* The provider's steps: none, or a charge or settlement of an existing row.
PspEvolves ==
  \/ UNCHANGED pspVars
  \/ \E i \in Invoices : \E n \in DOMAIN payment[i] : PspStep(i, n)

LEMMA NextEvolvesPsp ==
  ASSUME BillingInv, Next
  PROVE  PspEvolves
<1>0. TypeOK /\ RowsExist /\ SuccessIsCaptured
  BY DEF BillingInv
<1>1. ASSUME NEW w \in Workers, NEW t \in tasks[w], Charge(w, t) \/ ChargeTransportError(w, t)
      PROVE  PspEvolves
  <2>1. /\ t.inv \in Invoices /\ t.n \in Nat \ {0}
        /\ t.n \in DOMAIN payment[t.inv]
    BY <1>0 DEF TypeOK, Task, RowsExist
  <2>2. ASSUME NEW r \in Replies, ProviderCharge(t.inv, t.n, r)
        PROVE  PspStep(t.inv, t.n)
    BY <1>0, <2>1, <2>2, ChargeIsPspStep, BillingAssumption
  <2>3. UNCHANGED pspVars \/ PspStep(t.inv, t.n)
    BY <1>1, <2>2 DEF Charge, ChargeTransportError
  <2> QED
    BY <2>1, <2>3 DEF PspEvolves
<1>2. ASSUME NEW e \in replied, NEW r \in {"succeeded", "failed"}, ProviderSettle(e.inv, e.n, r)
      PROVE  PspEvolves
  <2>1. /\ e.inv \in Invoices /\ e.n \in Nat \ {0}
        /\ e.n \in DOMAIN payment[e.inv]
    BY <1>0 DEF TypeOK, Event, RowsExist
  <2>2. PspStep(e.inv, e.n)
    BY <1>0, <1>2, <2>1, SettleIsPspStep
  <2> QED
    BY <2>1, <2>2 DEF PspEvolves
<1>3. ASSUME NEW w \in Workers, NEW t \in tasks[w],
             \/ WorkerFinalizeSucceeded(w, t) \/ WorkerFinalizeFailed(w, t)
             \/ WorkerMarkProcessing(w, t) \/ WorkerClearNextAttempt(w, t) \/ AbandonTask(w, t)
      PROVE  UNCHANGED pspVars
  BY <1>3 DEF WorkerFinalizeSucceeded, WorkerFinalizeFailed, WorkerMarkProcessing,
       WorkerClearNextAttempt, AbandonTask
<1>4. ASSUME NEW w \in Workers, ClaimBatch(w) \/ WorkerCrash(w)
      PROVE  UNCHANGED pspVars
  BY <1>4 DEF ClaimBatch, WorkerCrash
<1>5. ASSUME NEW i \in Invoices, CreateInvoiceFromRide(i) \/ BackoffElapses(i) \/ LeaseExpires(i)
      PROVE  UNCHANGED pspVars
  BY <1>5 DEF CreateInvoiceFromRide, BackoffElapses, LeaseExpires
<1>6. ASSUME NEW c \in Clients,
             AddPaymentMethod(c) \/ RemovePaymentMethodCheck(c) \/ RemovePaymentMethodCommit(c)
      PROVE  UNCHANGED pspVars
  BY <1>6 DEF AddPaymentMethod, RemovePaymentMethodCheck, RemovePaymentMethodCommit
<1>7. ASSUME NEW e \in events, WebhookDispatch(e)
      PROVE  UNCHANGED pspVars
  BY <1>7 DEF WebhookDispatch
<1>8. ASSUME NEW h \in hooks, WebhookClear(h) \/ WebhookMarkProcessed(h) \/ WebhookAbort(h)
      PROVE  UNCHANGED pspVars
  BY <1>8 DEF WebhookClear, WebhookMarkProcessed, WebhookAbort
<1> QED
  BY <1>1, <1>2, <1>3, <1>4, <1>5, <1>6, <1>7, <1>8 DEF Next, WorkerStep, PspEvolves

LEMMA EventsBackedStep ==
  ASSUME BillingInv, Next
  PROVE  EventsBacked' /\ captured \subseteq captured' /\ events \subseteq events'
<1>1. TypeOK /\ EventsBacked
  BY Backed DEF BillingInv
<1>2. \A i \in Invoices : DOMAIN payment[i] \subseteq DOMAIN payment'[i]
  BY NextIsDbStep, RowsKept DEF BillingInv
<1>3. \A e \in replied \cup events : e.inv \in Invoices
  BY <1>1 DEF TypeOK, Event
<1>4. CASE UNCHANGED pspVars
  BY <1>1, <1>2, <1>3, <1>4 DEF pspVars, EventsBacked
<1>5. ASSUME NEW i \in Invoices, NEW n \in DOMAIN payment[i], PspStep(i, n)
      PROVE  EventsBacked' /\ captured \subseteq captured' /\ events \subseteq events'
  <2>1. n \in DOMAIN payment'[i]
    BY <1>2, <1>5
  <2> QED
    BY <1>1, <1>2, <1>3, <1>5, <2>1 DEF PspStep, EventsBacked
<1> QED
  BY <1>4, <1>5, NextEvolvesPsp DEF PspEvolves

LEMMA HooksBackedStep ==
  ASSUME BillingInv, Next
  PROVE  HooksBacked'
<1>1. HooksBacked /\ events \subseteq events'
  BY Backed, EventsBackedStep DEF BillingInv
<1>2. \/ hooks' = hooks
      \/ \E e \in events, s \in {"clear", "mark"} : hooks' = hooks \cup {[event |-> e, step |-> s]}
      \/ \E h \in hooks : hooks' = hooks \ {h}
      \/ \E h \in hooks : hooks' = (hooks \ {h}) \cup {[h EXCEPT !.step = "mark"]}
  <2>1. ASSUME NEW e \in events, WebhookDispatch(e)
        PROVE  \E s \in {"clear", "mark"} : hooks' = hooks \cup {[event |-> e, step |-> s]}
    BY <2>1 DEF WebhookDispatch, WebhookUnmatched, WebhookSucceeded, WebhookProcessing,
       WebhookFailed
  <2>2. ASSUME NEW h \in hooks, WebhookClear(h) \/ WebhookMarkProcessed(h) \/ WebhookAbort(h)
        PROVE  \/ hooks' = hooks \ {h}
               \/ hooks' = (hooks \ {h}) \cup {[h EXCEPT !.step = "mark"]}
    BY <2>2 DEF WebhookClear, WebhookMarkProcessed, WebhookAbort
  <2>3. ASSUME NEW w \in Workers, NEW t \in tasks[w], WorkerStep(w, t) \/ AbandonTask(w, t)
        PROVE  hooks' = hooks
    BY <2>3 DEF WorkerStep, Charge, ChargeTransportError, WorkerFinalizeSucceeded,
         WorkerFinalizeFailed, WorkerMarkProcessing, WorkerClearNextAttempt, AbandonTask, hookVars
  <2>4. ASSUME NEW w \in Workers, ClaimBatch(w) \/ WorkerCrash(w)
        PROVE  hooks' = hooks
    BY <2>4 DEF ClaimBatch, WorkerCrash, hookVars
  <2>5. ASSUME NEW i \in Invoices, CreateInvoiceFromRide(i) \/ BackoffElapses(i) \/ LeaseExpires(i)
        PROVE  hooks' = hooks
    BY <2>5 DEF CreateInvoiceFromRide, BackoffElapses, LeaseExpires, hookVars
  <2>6. ASSUME NEW c \in Clients,
               AddPaymentMethod(c) \/ RemovePaymentMethodCheck(c) \/ RemovePaymentMethodCommit(c)
        PROVE  hooks' = hooks
    BY <2>6 DEF AddPaymentMethod, RemovePaymentMethodCheck, RemovePaymentMethodCommit, hookVars
  <2>7. ASSUME NEW e \in replied, NEW r \in {"succeeded", "failed"}, ProviderSettle(e.inv, e.n, r)
        PROVE  hooks' = hooks
    BY <2>7 DEF ProviderSettle, hookVars
  <2> QED
    BY <2>1, <2>2, <2>3, <2>4, <2>5, <2>6, <2>7 DEF Next
<1>3. ASSUME NEW e \in events, NEW k \in {"clear", "mark"},
             hooks' = hooks \cup {[event |-> e, step |-> k]}
      PROVE  HooksBacked'
  BY <1>1, <1>3 DEF HooksBacked
<1>4. ASSUME NEW h \in hooks, hooks' = (hooks \ {h}) \cup {[h EXCEPT !.step = "mark"]}
      PROVE  HooksBacked'
  <2>1. [h EXCEPT !.step = "mark"].event = h.event
    BY DEF BillingInv, TypeOK, Hook
  <2> QED
    BY <1>1, <1>4, <2>1 DEF HooksBacked
<1>5. ASSUME hooks' \subseteq hooks
      PROVE  HooksBacked'
  BY <1>1, <1>5 DEF HooksBacked
<1> QED
  BY <1>2, <1>3, <1>4, <1>5

\* A claim that moves on keeps its row; only an answer that was captured makes
\* it a success.
LEMMA TasksBackedStep ==
  ASSUME BillingInv, Next
  PROVE  TasksBacked'
<1>0. TypeOK /\ OneAttemptInFlight /\ RowsExist /\ SuccessIsCaptured /\ TasksBacked
  BY Backed DEF BillingInv
<1>1. /\ \A i \in Invoices : DOMAIN payment[i] \subseteq DOMAIN payment'[i]
      /\ captured \subseteq captured'
  BY NextIsDbStep, RowsKept, EventsBackedStep DEF BillingInv
<1>2. tasks \in [Workers -> SUBSET Task]
  BY <1>0 DEF TypeOK
<1>3. \A w \in Workers : \A t \in tasks[w] :
         t.n \in DOMAIN payment'[t.inv] /\ (t.step = "succeeded" => <<t.inv, t.n>> \in captured')
  <2>1. \A w \in Workers : \A t \in tasks[w] : t.inv \in Invoices
    BY <1>2 DEF Task
  <2> QED
    BY <1>0, <1>1, <2>1 DEF TasksBacked
<1>4. ASSUME \A w \in Workers : tasks'[w] \subseteq tasks[w]
      PROVE  TasksBacked'
  BY <1>3, <1>4 DEF TasksBacked
<1>5. ASSUME NEW w \in Workers, NEW t \in tasks[w], NEW s \in TaskStep,
             Advance(w, t, s), s = "succeeded" => <<t.inv, t.n>> \in captured'
      PROVE  TasksBacked'
  <2> DEFINE u == [t EXCEPT !.step = s]
  <2>1. u.inv = t.inv /\ u.n = t.n /\ u.step = s
    BY <1>2 DEF Task
  <2>2. \A v \in Workers : tasks'[v] \subseteq tasks[v] \cup {u}
    BY <1>2, <1>5 DEF Advance
  <2>3. t.n \in DOMAIN payment'[t.inv]
    BY <1>3
  <2> HIDE DEF u
  <2>4. ASSUME NEW v \in Workers, NEW x \in tasks'[v]
        PROVE  x.n \in DOMAIN payment'[x.inv] /\ (x.step = "succeeded" => <<x.inv, x.n>> \in captured')
    <3>1. CASE x \in tasks[v]
      BY <1>3, <3>1
    <3>2. CASE x = u
      BY <1>5, <2>1, <2>3, <3>2
    <3> QED
      BY <2>2, <3>1, <3>2
  <2> QED
    BY <2>4 DEF TasksBacked
<1>6. ASSUME NEW w \in Workers, NEW t \in tasks[w], Done(w, t)
      PROVE  TasksBacked'
  BY <1>2, <1>4, <1>6 DEF Done
<1>7. ASSUME UNCHANGED tasks
      PROVE  TasksBacked'
  BY <1>4, <1>7
<1>8. ASSUME NEW w \in Workers, ClaimBatch(w)
      PROVE  TasksBacked'
  <2>1. PICK S \in SUBSET Due :
          /\ payment' = [i \in Invoices |->
                           IF i \in FreshFor(S) THEN Append(payment[i], "pending") ELSE payment[i]]
          /\ tasks' = [tasks EXCEPT ![w] = {ClaimFor(i) : i \in FreshFor(S) \cup ResumedFor(S)}]
    BY <1>8 DEF ClaimBatch
  <2>2. /\ FreshFor(S) \subseteq Invoices /\ ResumedFor(S) \subseteq Invoices
        /\ \A i \in FreshFor(S) : InFlight(i) = {}
        /\ \A i \in ResumedFor(S) : InFlight(i) # {}
    BY <2>1 DEF FreshFor, ResumedFor, Due
  <2>3. \A i \in Invoices : /\ DOMAIN payment'[i] = 1..Len(payment'[i])
                            /\ i \in FreshFor(S) => Len(payment'[i]) = Len(payment[i]) + 1
    BY <1>0, <2>1, AppendRows
  <2>4. ASSUME NEW i \in FreshFor(S) \cup ResumedFor(S)
        PROVE  ClaimFor(i).n \in DOMAIN payment'[ClaimFor(i).inv] /\ ClaimFor(i).step # "succeeded"
    <3>1. i \in Invoices
      BY <2>2
    <3>2. /\ ClaimFor(i).inv = i /\ ClaimFor(i).n = ClaimNo(i)
          /\ ClaimFor(i).step # "succeeded" /\ ClaimNo(i) \in Nat \ {0}
          /\ InFlight(i) = {} => ClaimNo(i) = Len(payment[i]) + 1
          /\ InFlight(i) # {} => ClaimNo(i) \in DOMAIN payment[i]
      BY <1>0, <3>1, ClaimedRow
    <3>3. CASE i \in FreshFor(S)
      BY <2>2, <2>3, <3>1, <3>2, <3>3
    <3>4. CASE i \in ResumedFor(S)
      BY <1>1, <2>2, <3>1, <3>2, <3>4
    <3> QED
      BY <3>3, <3>4
  <2>5. \A v \in Workers : v # w => tasks'[v] = tasks[v]
    BY <1>2, <2>1
  <2>6. tasks'[w] = {ClaimFor(i) : i \in FreshFor(S) \cup ResumedFor(S)}
    BY <1>2, <2>1
  <2>7. ASSUME NEW v \in Workers, NEW t \in tasks'[v]
        PROVE  t.n \in DOMAIN payment'[t.inv] /\ (t.step = "succeeded" => <<t.inv, t.n>> \in captured')
    <3>1. CASE v # w
      BY <1>3, <2>5, <3>1
    <3>2. CASE v = w
      <4>1. PICK i \in FreshFor(S) \cup ResumedFor(S) : t = ClaimFor(i)
        BY <2>6, <3>2
      <4> QED
        BY <2>4, <4>1
    <3> QED
      BY <3>1, <3>2
  <2> QED
    BY <2>7 DEF TasksBacked
<1>9. ASSUME NEW w \in Workers, WorkerCrash(w)
      PROVE  TasksBacked'
  BY <1>2, <1>4, <1>9 DEF WorkerCrash
<1>10. ASSUME NEW w \in Workers, NEW t \in tasks[w], WorkerStep(w, t) \/ AbandonTask(w, t)
       PROVE  TasksBacked'
  <2>1. CASE Charge(w, t)
    <3>1. PICK r \in Replies : ProviderCharge(t.inv, t.n, r) /\ Advance(w, t, StepFor(r))
      BY <2>1 DEF Charge
    <3>2. t.inv \in Invoices /\ t.n \in Nat \ {0} /\ r \in ReplyKinds
      BY <1>2, <3>1, BillingAssumption DEF Task
    <3>3. r = "succeeded" => <<t.inv, t.n>> \in captured'
      BY <1>0, <3>1, <3>2, ChargeIsPspStep
    <3>4. StepFor(r) \in TaskStep /\ (StepFor(r) = "succeeded" => r = "succeeded")
      BY DEF StepFor, TaskStep
    <3> QED
      BY <1>5, <3>1, <3>3, <3>4
  <2>2. CASE ChargeTransportError(w, t)
    <3>1. Advance(w, t, "failed") /\ "failed" \in TaskStep
      BY <2>2 DEF ChargeTransportError, TaskStep
    <3> QED
      BY <1>5, <3>1
  <2>3. CASE WorkerMarkProcessing(w, t)
    <3>1. (Advance(w, t, "clear") \/ Done(w, t)) /\ "clear" \in TaskStep
      BY <2>3 DEF WorkerMarkProcessing, TaskStep
    <3> QED
      BY <1>5, <1>6, <3>1
  <2>4. CASE \/ WorkerFinalizeSucceeded(w, t) \/ WorkerFinalizeFailed(w, t)
             \/ WorkerClearNextAttempt(w, t) \/ AbandonTask(w, t)
    BY <1>6, <2>4 DEF WorkerFinalizeSucceeded, WorkerFinalizeFailed, WorkerClearNextAttempt,
       AbandonTask
  <2> QED
    BY <1>10, <2>1, <2>2, <2>3, <2>4 DEF WorkerStep
<1>11. ASSUME NEW i \in Invoices, CreateInvoiceFromRide(i) \/ BackoffElapses(i) \/ LeaseExpires(i)
       PROVE  UNCHANGED tasks
  BY <1>11 DEF CreateInvoiceFromRide, BackoffElapses, LeaseExpires
<1>12. ASSUME NEW c \in Clients,
              AddPaymentMethod(c) \/ RemovePaymentMethodCheck(c) \/ RemovePaymentMethodCommit(c)
       PROVE  UNCHANGED tasks
  BY <1>12 DEF AddPaymentMethod, RemovePaymentMethodCheck, RemovePaymentMethodCommit
<1>13. ASSUME NEW e \in replied, NEW r \in {"succeeded", "failed"}, ProviderSettle(e.inv, e.n, r)
       PROVE  UNCHANGED tasks
  BY <1>13 DEF ProviderSettle
<1>14. ASSUME NEW e \in events, WebhookDispatch(e)
       PROVE  UNCHANGED tasks
  BY <1>14 DEF WebhookDispatch
<1>15. ASSUME NEW h \in hooks, WebhookClear(h) \/ WebhookMarkProcessed(h) \/ WebhookAbort(h)
       PROVE  UNCHANGED tasks
  BY <1>15 DEF WebhookClear, WebhookMarkProcessed, WebhookAbort
<1> QED
  BY <1>7, <1>8, <1>9, <1>10, <1>11, <1>12, <1>13, <1>14, <1>15 DEF Next

\* A row becomes succeeded only through a claim or an event that is captured.
LEMMA PaidRowIsCaptured ==
  ASSUME BillingInv, Next, NEW i \in Invoices, NEW n \in DOMAIN payment[i], PayStep(i, n)
  PROVE  <<i, n>> \in captured
<1>0. TypeOK /\ RowsExist /\ SuccessIsCaptured /\ CoreInv
  BY DEF BillingInv, CoreInv
<1>1. /\ payment'[i][n] = "succeeded" /\ payment[i][n] # "succeeded"
  <2>1. payment'[i][n] = "succeeded"
    BY <1>0, UpdateRow DEF PayStep, PaymentStatus
  <2> QED
    BY <2>1 DEF PayStep, InFlight, NonTerminal
<1>2. ASSUME NEW j \in Invoices, NEW m \in DOMAIN payment[j], FinalizeChargeSucceeded(j, m)
      PROVE  i = j /\ n = m
  <2>1. payment' # payment
    BY <1>1
  <2>2. payment' = [payment EXCEPT ![j][m] = "succeeded"]
    BY <1>2, <2>1 DEF FinalizeChargeSucceeded
  <2>3. /\ \A k \in Invoices : k # j => payment'[k] = payment[k]
        /\ \A k \in DOMAIN payment[j] : payment'[j][k] = IF k = m THEN "succeeded" ELSE payment[j][k]
    BY <1>0, <2>2, UpdateRow DEF PaymentStatus
  <2> QED
    BY <1>1, <2>3
<1>3. ASSUME NEW j \in Invoices, NEW m \in DOMAIN payment[j],
             FinalizeChargeFailed(j, m) \/ MarkProcessing(j, m)
      PROVE  FALSE
  <2>1. \/ payment' = payment
        \/ payment' = [payment EXCEPT ![j][m] = "failed"]
        \/ payment' = [payment EXCEPT ![j][m] = "processing"]
    BY <1>3 DEF FinalizeChargeFailed, MarkProcessing
  <2>2. ASSUME NEW x \in {"failed", "processing"}, payment' = [payment EXCEPT ![j][m] = x]
        PROVE  /\ \A k \in Invoices : k # j => payment'[k] = payment[k]
               /\ \A k \in DOMAIN payment[j] : payment'[j][k] = IF k = m THEN x ELSE payment[j][k]
    BY <1>0, <2>2, UpdateRow DEF PaymentStatus, NonTerminal
  <2> QED
    BY <1>1, <2>1, <2>2
<1>4. payment' # payment
  BY <1>1
<1>5. ASSUME NEW w \in Workers, NEW t \in tasks[w], WorkerStep(w, t) \/ AbandonTask(w, t)
      PROVE  <<i, n>> \in captured
  <2>1. t.inv \in Invoices /\ t.n \in DOMAIN payment[t.inv]
    BY <1>0 DEF TypeOK, Task, RowsExist
  <2>2. CASE WorkerFinalizeSucceeded(w, t)
    BY <1>0, <1>2, <2>1, <2>2 DEF WorkerFinalizeSucceeded, SuccessIsCaptured
  <2>3. CASE WorkerFinalizeFailed(w, t) \/ WorkerMarkProcessing(w, t)
    BY <1>3, <2>1, <2>3 DEF WorkerFinalizeFailed, WorkerMarkProcessing
  <2>4. CASE \/ Charge(w, t) \/ ChargeTransportError(w, t)
             \/ WorkerClearNextAttempt(w, t) \/ AbandonTask(w, t)
    BY <1>4, <2>4 DEF Charge, ChargeTransportError, WorkerClearNextAttempt, AbandonTask, dbVars
  <2> QED
    BY <1>5, <2>2, <2>3, <2>4 DEF WorkerStep
<1>6. ASSUME NEW e \in events, WebhookDispatch(e)
      PROVE  <<i, n>> \in captured
  <2>1. e.inv \in Invoices /\ e.n \in DOMAIN payment[e.inv]
    BY <1>0 DEF TypeOK, Event, RowsExist
  <2>2. CASE WebhookSucceeded(e)
    BY <1>0, <1>2, <2>1, <2>2 DEF WebhookSucceeded, SuccessIsCaptured
  <2>3. CASE WebhookFailed(e) \/ WebhookProcessing(e)
    BY <1>3, <2>1, <2>3 DEF WebhookFailed, WebhookProcessing
  <2>4. CASE WebhookUnmatched(e)
    BY <1>4, <2>4 DEF WebhookUnmatched, dbVars
  <2> QED
    BY <1>6, <2>2, <2>3, <2>4 DEF WebhookDispatch
<1>7. ASSUME NEW w \in Workers, ClaimBatch(w) \/ WorkerCrash(w)
      PROVE  FALSE
  <2>1. UNCHANGED invoice
    BY <1>7 DEF ClaimBatch, WorkerCrash, dbVars
  <2>2. invoice[i].status = "open"
    BY <1>0 DEF PayStep, CoreInv, OneAttemptInFlight
  <2>3. invoice'[i].status = "paid"
    BY <1>0 DEF PayStep, TypeOK
  <2> QED
    BY <2>1, <2>2, <2>3
<1>8. ASSUME NEW j \in Invoices, CreateInvoiceFromRide(j) \/ BackoffElapses(j) \/ LeaseExpires(j)
      PROVE  FALSE
  BY <1>4, <1>8 DEF CreateInvoiceFromRide, BackoffElapses, LeaseExpires
<1>9. ASSUME NEW c \in Clients,
             AddPaymentMethod(c) \/ RemovePaymentMethodCheck(c) \/ RemovePaymentMethodCommit(c)
      PROVE  FALSE
  BY <1>4, <1>9 DEF AddPaymentMethod, RemovePaymentMethodCheck, RemovePaymentMethodCommit, dbVars
<1>10. ASSUME NEW e \in replied, NEW r \in {"succeeded", "failed"}, ProviderSettle(e.inv, e.n, r)
       PROVE  FALSE
  BY <1>4, <1>10 DEF ProviderSettle, dbVars
<1>11. ASSUME NEW h \in hooks, WebhookClear(h) \/ WebhookMarkProcessed(h) \/ WebhookAbort(h)
       PROVE  FALSE
  BY <1>4, <1>11 DEF WebhookClear, WebhookMarkProcessed, WebhookAbort, dbVars
<1> QED
  BY <1>5, <1>6, <1>7, <1>8, <1>9, <1>10, <1>11 DEF Next

LEMMA SucceededIsCapturedStep ==
  ASSUME BillingInv, Next
  PROVE  SucceededIsCaptured'
<1>0. TypeOK /\ SucceededIsCaptured /\ DbStep /\ captured \subseteq captured'
  BY NextIsDbStep, EventsBackedStep DEF BillingInv
<1> SUFFICES ASSUME NEW i \in Invoices, NEW n \in DOMAIN payment'[i], payment'[i][n] = "succeeded"
             PROVE  <<i, n>> \in captured
  BY <1>0 DEF SucceededIsCaptured
<1>1. CASE UNCHANGED payment
  BY <1>0, <1>1 DEF SucceededIsCaptured
<1>2. ASSUME NEW S \in SUBSET Invoices, AttemptStep(S)
      PROVE  <<i, n>> \in captured
  <2>1. /\ DOMAIN payment'[i] = 1..Len(payment'[i])
        /\ i \notin S => payment'[i] = payment[i]
        /\ i \in S => /\ Len(payment'[i]) = Len(payment[i]) + 1
                      /\ payment'[i][Len(payment[i]) + 1] = "pending"
                      /\ \A m \in 1..Len(payment[i]) : payment'[i][m] = payment[i][m]
    BY <1>0, <1>2, AppendRows DEF AttemptStep
  <2>2. DOMAIN payment[i] = 1..Len(payment[i]) /\ Len(payment[i]) \in Nat
    BY <1>0, PaymentRows
  <2>3. n \in DOMAIN payment[i] /\ payment[i][n] = "succeeded"
    BY <2>1, <2>2
  <2> QED
    BY <1>0, <2>3 DEF SucceededIsCaptured
<1>3. ASSUME NEW j \in Invoices, NEW m \in DOMAIN payment[j], RowStep(j, m)
      PROVE  <<i, n>> \in captured
  <2>1. CASE PayStep(j, m)
    <3>1. <<j, m>> \in captured
      BY <2>1, PaidRowIsCaptured
    <3>2. /\ DOMAIN payment'[i] = DOMAIN payment[i]
          /\ i # j => payment'[i] = payment[i]
          /\ \A k \in DOMAIN payment[j] : payment'[j][k] = IF k = m THEN "succeeded" ELSE payment[j][k]
      BY <1>0, <2>1, UpdateRow DEF PayStep, PaymentStatus
    <3> QED
      BY <1>0, <3>1, <3>2 DEF SucceededIsCaptured
  <2>2. CASE ~PayStep(j, m)
    <3>1. PICK x \in {"processing", "failed"} : payment' = [payment EXCEPT ![j][m] = x]
      BY <1>3, <2>2 DEF RowStep, ProcessingStep, FailStep, WriteOffStep
    <3>2. x \in PaymentStatus
      BY DEF PaymentStatus, NonTerminal
    <3>3. /\ DOMAIN payment'[i] = DOMAIN payment[i]
          /\ i # j => payment'[i] = payment[i]
          /\ \A k \in DOMAIN payment[j] : payment'[j][k] = IF k = m THEN x ELSE payment[j][k]
      BY <1>0, <3>1, <3>2, UpdateRow
    <3> QED
      BY <1>0, <3>1, <3>3 DEF SucceededIsCaptured
  <2> QED
    BY <2>1, <2>2
<1> QED
  BY <1>0, <1>1, <1>2, <1>3 DEF DbStep, QuietStep, OpenStep

-----------------------------------------------------------------------------
(* The theorems.                                                           *)

LEMMA InitInv == Init => BillingInv
<1> SUFFICES ASSUME Init PROVE BillingInv
  OBVIOUS
<1>1. TypeOK
  <2>1. \A i \in Invoices : payment[i] = <<>>
    BY DEF Init
  <2>2. payment \in [Invoices -> Seq(PaymentStatus)]
    BY EmptySeq DEF Init
  <2> QED
    BY <2>2 DEF Init, TypeOK, InvoiceStatus
<1>2. \A i \in Invoices : /\ payment[i] = <<>> /\ Len(payment[i]) = 0
                          /\ DOMAIN payment[i] = {} /\ InFlight(i) = {}
  <2>1. \A i \in Invoices : payment[i] = <<>>
    BY DEF Init
  <2> QED
    BY <2>1, EmptySeq DEF InFlight
<1>3. RowsExist /\ SuccessIsCaptured
  BY DEF Init, RowsExist, SuccessIsCaptured
<1>4. \A i \in Invoices : /\ invoice[i].status = "none"
                          /\ ledger[i].opened = 0 /\ ledger[i].succeeded = 0
                          /\ ledger[i].uncollectible = 0
                          /\ outbox[i].completed = 0 /\ outbox[i].failed = 0
  BY DEF Init
<1>5. UnbilledHasNoPayment /\ OneAttemptInFlight /\ LastAttemptOpen
  BY <1>2, <1>4 DEF UnbilledHasNoPayment, OneAttemptInFlight, LastAttemptOpen
<1>6. BooksFollowInvoice
  BY <1>4 DEF BooksFollowInvoice
<1>7. PaidByLastAttempt /\ SucceededIsCaptured
  BY <1>2 DEF PaidByLastAttempt, SucceededIsCaptured
<1>8. AttemptBudget
  BY <1>2, <1>4, BillingAssumption DEF AttemptBudget
<1> QED
  BY <1>1, <1>3, <1>5, <1>6, <1>7, <1>8 DEF BillingInv

LEMMA NextInv == BillingInv /\ [Next]_vars => BillingInv'
<1>1. ASSUME BillingInv, Next PROVE BillingInv'
  <2>1. TypeOK'
    BY <1>1, TypeStep
  <2>2. CoreInv'
    <3>1. TypeOK /\ CoreInv /\ OneAttemptInFlight /\ RowsExist
      BY <1>1 DEF BillingInv, CoreInv
    <3> QED
      BY <1>1, <3>1, NextIsDbStep, CoreStep
  <2>3. RowsExist' /\ SuccessIsCaptured'
    BY <1>1, TasksBackedStep, EventsBackedStep, HooksBackedStep, Backed
  <2>4. SucceededIsCaptured'
    BY <1>1, SucceededIsCapturedStep
  <2> QED
    BY <2>1, <2>2, <2>3, <2>4 DEF BillingInv, CoreInv
<1>2. ASSUME BillingInv, UNCHANGED vars PROVE BillingInv'
  BY <1>2 DEF vars, dbVars, pmVars, pspVars, hookVars, BillingInv, TypeOK, RowsExist,
    UnbilledHasNoPayment, OneAttemptInFlight, LastAttemptOpen, BooksFollowInvoice,
    PaidByLastAttempt, AttemptBudget, SuccessIsCaptured, SucceededIsCaptured, InFlight
<1> QED
  BY <1>1, <1>2

\* BillingInv is an inductive invariant of the service.
THEOREM Invariance == Spec => []BillingInv
  BY InitInv, NextInv, PTL DEF Spec

\* Every variable keeps its type.
THEOREM TypeCorrect == Spec => []TypeOK
<1>1. BillingInv => TypeOK
  BY DEF BillingInv
<1> QED
  BY <1>1, Invariance, PTL

\* However many workers and webhook deliveries race, an invoice has at most one
\* unresolved attempt, its last, and none once it is closed.
THEOREM SingleFlight == Spec => []OneAttemptInFlight
<1>1. BillingInv => OneAttemptInFlight
  BY DEF BillingInv
<1> QED
  BY <1>1, Invariance, PTL

\* The ledger and the outbox follow the invoice exactly once.
THEOREM ExactlyOnceBooks == Spec => []BooksFollowInvoice
<1>1. BillingInv => BooksFollowInvoice
  BY DEF BillingInv
<1> QED
  BY <1>1, Invariance, PTL

\* A paid invoice is paid by its last attempt, and only by it.
THEOREM PaidOnce == Spec => []PaidByLastAttempt
<1>1. BillingInv => PaidByLastAttempt
  BY DEF BillingInv
<1> QED
  BY <1>1, Invariance, PTL

\* MAX_PAYMENT_ATTEMPTS is never exceeded, and a write-off uses all of it.
THEOREM BudgetKept == Spec => []AttemptBudget
<1>1. BillingInv => AttemptBudget
  BY DEF BillingInv
<1> QED
  BY <1>1, Invariance, PTL

\* No success is recorded that the provider did not capture.
THEOREM CapturedSuccess == Spec => []SucceededIsCaptured
<1>1. BillingInv => SucceededIsCaptured
  BY DEF BillingInv
<1> QED
  BY <1>1, Invariance, PTL

\* No step reopens or alters a closed invoice, its books or a resolved attempt.
FinalStep ==
  \A i \in Invoices :
    /\ invoice[i].status \in {"paid", "uncollectible"} =>
         /\ invoice'[i].status = invoice[i].status
         /\ payment'[i] = payment[i]
         /\ ledger'[i] = ledger[i]
         /\ outbox'[i] = outbox[i]
    /\ \A n \in DOMAIN payment[i] :
         /\ n \in DOMAIN payment'[i]
         /\ payment[i][n] \notin NonTerminal => payment'[i][n] = payment[i][n]

LEMMA DbStepIsFinal ==
  ASSUME TypeOK, CoreInv, DbStep
  PROVE  FinalStep
<1>1. CASE QuietStep
  BY <1>1 DEF QuietStep, FinalStep
<1>2. ASSUME NEW i \in Invoices, OpenStep(i)
      PROVE  FinalStep
  BY <1>2 DEF OpenStep, FinalStep, TypeOK
<1>3. ASSUME NEW S \in SUBSET Invoices, AttemptStep(S)
      PROVE  FinalStep
  <2>1. \A i \in Invoices :
           /\ DOMAIN payment'[i] = 1..Len(payment'[i])
           /\ i \notin S => payment'[i] = payment[i]
           /\ i \in S => /\ Len(payment'[i]) = Len(payment[i]) + 1
                         /\ \A m \in 1..Len(payment[i]) : payment'[i][m] = payment[i][m]
    BY <1>3, AppendRows DEF AttemptStep
  <2>2. \A i \in Invoices : DOMAIN payment[i] = 1..Len(payment[i]) /\ Len(payment[i]) \in Nat
    BY PaymentRows
  <2>3. \A i \in S : invoice[i].status = "open"
    BY <1>3 DEF AttemptStep
  <2>4. UNCHANGED <<invoice, ledger, outbox>>
    BY <1>3 DEF AttemptStep
  <2> QED
    BY <2>1, <2>2, <2>3, <2>4 DEF FinalStep
<1>4. ASSUME NEW i \in Invoices, NEW n \in DOMAIN payment[i], RowStep(i, n)
      PROVE  FinalStep
  <2>1. n \in InFlight(i)
    BY <1>4 DEF RowStep, ProcessingStep, PayStep, FailStep, WriteOffStep
  <2>2. invoice[i].status = "open" /\ payment[i][n] \in NonTerminal
    BY <2>1 DEF CoreInv, OneAttemptInFlight, InFlight
  <2>3. PICK x \in PaymentStatus : payment' = [payment EXCEPT ![i][n] = x]
    BY <1>4 DEF RowStep, ProcessingStep, PayStep, FailStep, WriteOffStep, PaymentStatus, NonTerminal
  <2>4. /\ \A j \in Invoices : /\ DOMAIN payment'[j] = DOMAIN payment[j]
                               /\ j # i => payment'[j] = payment[j]
        /\ \A m \in DOMAIN payment[i] : payment'[i][m] = IF m = n THEN x ELSE payment[i][m]
    BY <2>3, UpdateRow
  <2>5. \A j \in Invoices : j # i =>
          /\ invoice'[j] = invoice[j] /\ ledger'[j] = ledger[j] /\ outbox'[j] = outbox[j]
    BY <1>4 DEF RowStep, ProcessingStep, PayStep, FailStep, WriteOffStep, TypeOK
  <2> QED
    BY <2>2, <2>4, <2>5 DEF FinalStep
<1> QED
  BY <1>1, <1>2, <1>3, <1>4 DEF DbStep

\* A closed invoice, its books and the outcome of every attempt are final.
THEOREM Finality == Spec => ClosedIsFinal
<1>1. ASSUME BillingInv, Next PROVE FinalStep
  BY <1>1, NextIsDbStep, DbStepIsFinal DEF BillingInv, CoreInv
<1>2. BillingInv /\ [Next]_vars => [FinalStep]_vars
  BY <1>1
<1>3. ClosedIsFinal <=> [][FinalStep]_vars
  BY PTL DEF ClosedIsFinal, FinalStep
<1> QED
  BY <1>2, <1>3, Invariance, PTL DEF Spec

-----------------------------------------------------------------------------
(* Refinement: the service implements Settlement.                          *)

statusBar == [i \in Invoices |-> invoice[i].status]
triesBar  == [i \in Invoices |-> Len(payment[i])]
tryingBar == {i \in Invoices : InFlight(i) # {}}

LEMMA InitRefines == Init => Abstract!Init
<1> SUFFICES ASSUME Init PROVE Abstract!Init
  OBVIOUS
<1>1. \A i \in Invoices : Len(payment[i]) = 0 /\ InFlight(i) = {}
  <2>1. \A i \in Invoices : payment[i] = <<>>
    BY DEF Init
  <2> QED
    BY <2>1, EmptySeq DEF InFlight
<1> QED
  BY <1>1 DEF Init, Abstract!Init

LEMMA RowRefines ==
  ASSUME TypeOK, CoreInv, NEW i \in Invoices, NEW n \in DOMAIN payment[i], RowStep(i, n)
  PROVE  Abstract!Next \/ UNCHANGED Abstract!vars
<1>1. n \in InFlight(i) /\ i \in tryingBar
  BY DEF RowStep, ProcessingStep, PayStep, FailStep, WriteOffStep, tryingBar
<1>2. /\ invoice[i].status = "open"
      /\ \A m \in InFlight(i) : m = n
      /\ Len(payment[i]) <= MaxAttempts /\ Len(payment[i]) \in Nat
  BY <1>1, PaymentRows DEF CoreInv, OneAttemptInFlight, AttemptBudget
<1>3. PICK x \in {"processing", "succeeded", "failed"} : payment' = [payment EXCEPT ![i][n] = x]
  BY DEF RowStep, ProcessingStep, PayStep, FailStep, WriteOffStep
<1>4. /\ \A j \in Invoices : /\ Len(payment'[j]) = Len(payment[j])
                             /\ DOMAIN payment'[j] = DOMAIN payment[j]
                             /\ j # i => payment'[j] = payment[j]
      /\ \A m \in DOMAIN payment[i] : payment'[i][m] = IF m = n THEN x ELSE payment[i][m]
  BY <1>3, UpdateRow DEF PaymentStatus, NonTerminal
<1>5. triesBar' = triesBar
  BY <1>4 DEF triesBar
<1>6. \A j \in Invoices : j # i => InFlight(j)' = InFlight(j)
  BY <1>4 DEF InFlight
<1>7. /\ x = "processing" => n \in InFlight(i)'
      /\ x # "processing" => InFlight(i)' = {}
  BY <1>2, <1>4 DEF InFlight, NonTerminal
<1>8. tryingBar' = IF x = "processing" THEN tryingBar ELSE tryingBar \ {i}
  BY <1>1, <1>6, <1>7 DEF tryingBar
<1>9. invoice \in [Invoices -> [status : InvoiceStatus, next : {"nil", "due", "later"}]]
  BY DEF TypeOK
<1>10. payment'[i][n] = x
  BY <1>4
<1>11. CASE ProcessingStep(i, n)
  <2>1. x = "processing"
    BY <1>10, <1>11, UpdateRow DEF ProcessingStep, PaymentStatus, NonTerminal
  <2> QED
    BY <1>5, <1>8, <1>11, <2>1 DEF ProcessingStep, Abstract!vars, triesBar, tryingBar
<1>12. CASE PayStep(i, n)
  <2>1. x = "succeeded"
    BY <1>10, <1>12, UpdateRow DEF PayStep, PaymentStatus
  <2>2. statusBar' = [statusBar EXCEPT ![i] = "paid"]
    BY <1>9, <1>12 DEF PayStep, statusBar
  <2>3. Abstract!Pay(i)
    BY <1>1, <1>2, <1>5, <1>8, <1>12, <2>1, <2>2 DEF PayStep, Abstract!Pay, statusBar, triesBar,
       tryingBar
  <2> QED
    BY <2>3 DEF Abstract!Next
<1>13. CASE FailStep(i, n)
  <2>1. x = "failed"
    BY <1>10, <1>13, UpdateRow DEF FailStep, PaymentStatus
  <2>2. statusBar' = statusBar
    BY <1>9, <1>13 DEF FailStep, statusBar
  <2>3. Abstract!Fail(i)
    BY <1>1, <1>2, <1>5, <1>8, <1>13, <2>1, <2>2
      DEF FailStep, AttemptsLeft, Abstract!Fail, statusBar, triesBar, tryingBar
  <2> QED
    BY <2>3 DEF Abstract!Next
<1>14. CASE WriteOffStep(i, n)
  <2>1. x = "failed"
    BY <1>10, <1>14, UpdateRow DEF WriteOffStep, PaymentStatus
  <2>2. statusBar' = [statusBar EXCEPT ![i] = "uncollectible"]
    BY <1>9, <1>14 DEF WriteOffStep, statusBar
  <2>3. Len(payment[i]) = MaxAttempts
    BY <1>2, <1>14, BillingAssumption DEF WriteOffStep, AttemptsLeft
  <2>4. Abstract!WriteOff(i)
    BY <1>1, <1>2, <1>5, <1>8, <1>14, <2>1, <2>2, <2>3
      DEF WriteOffStep, Abstract!WriteOff, statusBar, triesBar, tryingBar
  <2> QED
    BY <2>4 DEF Abstract!Next
<1> QED
  BY <1>11, <1>12, <1>13, <1>14 DEF RowStep

LEMMA DbStepRefines ==
  ASSUME TypeOK, CoreInv, DbStep
  PROVE  Abstract!Next \/ UNCHANGED Abstract!vars
<1>1. CASE QuietStep
  <2>1. \A i \in Invoices : InFlight(i)' = InFlight(i)
    BY <1>1 DEF QuietStep, InFlight
  <2> QED
    BY <1>1, <2>1 DEF QuietStep, Abstract!vars
<1>2. ASSUME NEW i \in Invoices, OpenStep(i)
      PROVE  Abstract!Next
  <2>1. \A j \in Invoices : InFlight(j)' = InFlight(j)
    BY <1>2 DEF OpenStep, InFlight
  <2>2. statusBar' = [statusBar EXCEPT ![i] = "open"]
    BY <1>2 DEF OpenStep, statusBar, TypeOK
  <2>3. Abstract!Open(i)
    BY <1>2, <2>1, <2>2 DEF OpenStep, Abstract!Open, statusBar
  <2> QED
    BY <2>3 DEF Abstract!Next
<1>3. ASSUME NEW S \in SUBSET Invoices, AttemptStep(S)
      PROVE  Abstract!Next
  <2>1. \A i \in Invoices :
           /\ DOMAIN payment'[i] = 1..Len(payment'[i])
           /\ i \notin S => payment'[i] = payment[i]
           /\ i \in S => /\ Len(payment'[i]) = Len(payment[i]) + 1
                         /\ payment'[i][Len(payment[i]) + 1] = "pending"
    BY <1>3, AppendRows DEF AttemptStep
  <2>2. \A i \in Invoices : DOMAIN payment[i] = 1..Len(payment[i]) /\ Len(payment[i]) \in Nat
    BY PaymentRows
  <2>3. \A i \in S : invoice[i].status = "open" /\ InFlight(i) = {}
    BY <1>3 DEF AttemptStep
  <2>4. \A i \in S : Len(payment[i]) < MaxAttempts
    BY <2>2, <2>3, BillingAssumption DEF CoreInv, LastAttemptOpen, AttemptBudget
  <2>5. \A i \in Invoices \ S : InFlight(i)' = InFlight(i)
    BY <2>1 DEF InFlight
  <2>6. \A i \in S : Len(payment[i]) + 1 \in InFlight(i)'
    BY <2>1, <2>2 DEF InFlight, NonTerminal
  <2>7. tryingBar' = tryingBar \cup S
    BY <2>5, <2>6 DEF tryingBar
  <2>8. triesBar' = [i \in Invoices |-> IF i \in S THEN triesBar[i] + 1 ELSE triesBar[i]]
    BY <2>1 DEF triesBar
  <2>9. Abstract!Attempt(S)
    BY <1>3, <2>3, <2>4, <2>7, <2>8 DEF AttemptStep, Abstract!Attempt, triesBar, tryingBar
  <2> QED
    BY <2>9 DEF Abstract!Next
<1> QED
  BY <1>1, <1>2, <1>3, RowRefines DEF DbStep

\* Every behaviour of the service, seen through status, number of attempts,
\* attempt under way, postings and events, is a behaviour of Settlement.
THEOREM Refinement == Spec => ImplementsSettlement
<1>1. BillingInv /\ [Next]_vars => [Abstract!Next]_(Abstract!vars)
  <2>1. ASSUME BillingInv, Next PROVE Abstract!Next \/ UNCHANGED Abstract!vars
    BY <2>1, NextIsDbStep, DbStepRefines DEF BillingInv, CoreInv
  <2>2. ASSUME UNCHANGED vars PROVE UNCHANGED Abstract!vars
    <3>1. \A i \in Invoices : InFlight(i)' = InFlight(i)
      BY <2>2 DEF vars, dbVars, InFlight
    <3> QED
      BY <2>2, <3>1 DEF vars, dbVars, Abstract!vars
  <2> QED
    BY <2>1, <2>2
<1> QED
  BY <1>1, InitRefines, Invariance, PTL DEF Spec, ImplementsSettlement, Abstract!Spec

-----------------------------------------------------------------------------
(* One capture per invoice.  A second attempt is made only after the first *)
(* one failed, and with a provider whose answers arrive and are final an   *)
(* attempt fails only when its intent is canceled or was never asked for.  *)

\* Provider calls do not fail in transport, and no intent waits for the customer.
Reliable == ~Lossy /\ "requires_action" \notin Replies

FailedIsBarred ==
  \A i \in Invoices : \A n \in DOMAIN payment[i] :
    payment[i][n] = "failed" => <<i, n>> \in canceled \cup noMethod

ClaimSorted(t) ==
  /\ t.step = "failed" => <<t.inv, t.n>> \in canceled
  /\ t.step = "immediate" => <<t.inv, t.n>> \in noMethod
  /\ t.step = "charge" => <<t.inv, t.n>> \notin noMethod

ClaimsSorted == \A w \in Workers : \A t \in tasks[w] : ClaimSorted(t)

AnswersFinal ==
  /\ \A e \in replied \cup events : /\ e.status # "requires_action"
                                    /\ e.status = "failed" => <<e.inv, e.n>> \in canceled
  /\ \A e \in replied : <<e.inv, e.n>> \notin noMethod
  /\ \A k \in captured \cup canceled : \E e \in replied : k = <<e.inv, e.n>>
  /\ captured \cap canceled = {}

BareRowsExist == \A i \in Invoices : \A n : <<i, n>> \in noMethod => n \in DOMAIN payment[i]

CaptureInv == FailedIsBarred /\ ClaimsSorted /\ AnswersFinal /\ BareRowsExist

\* The first call with a key decides; a replay finds the decision.
LEMMA ChargeIsFinal ==
  ASSUME AnswersFinal, Reliable, NEW i \in Invoices, NEW n \in Nat \ {0}, NEW r \in Replies,
         ProviderCharge(i, n, r), <<i, n>> \notin noMethod, UNCHANGED noMethod
  PROVE  /\ AnswersFinal' /\ canceled \subseteq canceled'
         /\ r = "failed" => <<i, n>> \in canceled'
<1>1. r # "requires_action"
  BY DEF Reliable
<1>2. CASE r \in SavedReply(i, n) /\ UNCHANGED pspVars
  <2>1. PICK f \in replied : f.inv = i /\ f.n = n /\ f.status = r
    BY <1>2 DEF SavedReply
  <2> QED
    BY <1>2, <2>1 DEF AnswersFinal, pspVars
<1>3. CASE /\ SavedReply(i, n) = {}
           /\ replied' = replied \cup {[inv |-> i, n |-> n, status |-> r]}
           /\ captured' = IF r = "succeeded" THEN captured \cup {<<i, n>>} ELSE captured
           /\ canceled' = IF r = "failed" THEN canceled \cup {<<i, n>>} ELSE canceled
           /\ Emit(i, n, r)
  <2>1. PICK e : e = [inv |-> i, n |-> n, status |-> r]
    OBVIOUS
  <2>2. e.inv = i /\ e.n = n /\ e.status = r
    BY <2>1
  <2>3. replied' = replied \cup {e} /\ events' \subseteq events \cup {e}
    BY <1>3, <2>1 DEF Emit
  <2>4. \A f \in replied : <<f.inv, f.n>> # <<i, n>>
    BY <1>3 DEF SavedReply
  <2>5. <<i, n>> \notin captured \cup canceled
    BY <2>4 DEF AnswersFinal
  <2>6. \A f \in replied' \cup events' : /\ f.status # "requires_action"
                                         /\ f.status = "failed" => <<f.inv, f.n>> \in canceled'
    BY <1>1, <1>3, <2>2, <2>3 DEF AnswersFinal
  <2>7. \A f \in replied' : <<f.inv, f.n>> \notin noMethod'
    BY <2>2, <2>3 DEF AnswersFinal
  <2>8. \A k \in captured' \cup canceled' : \E f \in replied' : k = <<f.inv, f.n>>
    BY <1>3, <2>2, <2>3 DEF AnswersFinal
  <2>9. captured' \cap canceled' = {}
    BY <1>3, <2>5 DEF AnswersFinal
  <2> QED
    BY <1>3, <2>6, <2>7, <2>8, <2>9 DEF AnswersFinal
<1> QED
  BY <1>2, <1>3 DEF ProviderCharge

\* An intent settles one way.
LEMMA SettleIsFinal ==
  ASSUME AnswersFinal, NEW i \in Invoices, NEW n \in Nat \ {0}, NEW r \in {"succeeded", "failed"},
         ProviderSettle(i, n, r)
  PROVE  AnswersFinal' /\ canceled \subseteq canceled'
<1>1. /\ replied' = replied /\ noMethod' = noMethod /\ <<i, n>> \notin captured \cup canceled
      /\ captured' = IF r = "succeeded" THEN captured \cup {<<i, n>>} ELSE captured
      /\ canceled' = IF r = "failed" THEN canceled \cup {<<i, n>>} ELSE canceled
  BY DEF ProviderSettle, dbVars
<1>2. PICK e : e = [inv |-> i, n |-> n, status |-> r]
  OBVIOUS
<1>3. e.inv = i /\ e.n = n /\ e.status = r
  BY <1>2
<1>4. events' \subseteq events \cup {e}
  BY <1>2 DEF ProviderSettle, Emit
<1>5. \E f \in replied : <<i, n>> = <<f.inv, f.n>>
  BY DEF ProviderSettle, SavedReply
<1>6. \A f \in replied' \cup events' : /\ f.status # "requires_action"
                                       /\ f.status = "failed" => <<f.inv, f.n>> \in canceled'
  BY <1>1, <1>3, <1>4 DEF AnswersFinal
<1>7. \A f \in replied' : <<f.inv, f.n>> \notin noMethod'
  BY <1>1 DEF AnswersFinal
<1>8. \A k \in captured' \cup canceled' : \E f \in replied' : k = <<f.inv, f.n>>
  BY <1>1, <1>5 DEF AnswersFinal
<1>9. captured' \cap canceled' = {}
  BY <1>1 DEF AnswersFinal
<1> QED
  BY <1>1, <1>6, <1>7, <1>8, <1>9 DEF AnswersFinal

\* A step that creates no row: what has failed, and what is claimed, stays so.
LEMMA CaptureKept ==
  ASSUME TypeOK, CaptureInv, AnswersFinal', canceled \subseteq canceled', noMethod' = noMethod,
         \A w \in Workers : \A t \in tasks'[w] : t \in tasks[w] \/ ClaimSorted(t)',
         \A i \in Invoices : /\ DOMAIN payment'[i] = DOMAIN payment[i]
                             /\ \A n \in DOMAIN payment[i] :
                                  payment'[i][n] = "failed" =>
                                    payment[i][n] = "failed" \/ <<i, n>> \in canceled \cup noMethod
  PROVE  CaptureInv'
<1>1. FailedIsBarred'
  BY DEF CaptureInv, FailedIsBarred
<1>2. \A t : ClaimSorted(t) => ClaimSorted(t)'
  BY DEF ClaimSorted
<1>3. ClaimsSorted'
  BY <1>2 DEF CaptureInv, ClaimsSorted
<1>4. BareRowsExist'
  BY DEF CaptureInv, BareRowsExist
<1> QED
  BY <1>1, <1>3, <1>4 DEF CaptureInv

\* A guarded UPDATE of one row: to failed only when the intent is barred.
LEMMA RowWritten ==
  ASSUME TypeOK, NEW i \in Invoices, NEW n \in DOMAIN payment[i], NEW x \in PaymentStatus,
         payment' = payment \/ payment' = [payment EXCEPT ![i][n] = x],
         x = "failed" => <<i, n>> \in canceled \cup noMethod
  PROVE  \A j \in Invoices : /\ DOMAIN payment'[j] = DOMAIN payment[j]
                             /\ \A m \in DOMAIN payment[j] :
                                  payment'[j][m] = "failed" =>
                                    payment[j][m] = "failed" \/ <<j, m>> \in canceled \cup noMethod
<1>1. CASE payment' = payment
  BY <1>1
<1>2. CASE payment' = [payment EXCEPT ![i][n] = x]
  BY <1>2, UpdateRow
<1> QED
  BY <1>1, <1>2

\* A claim asks the provider only for rows with a payment method.
LEMMA CaptureClaim ==
  ASSUME BillingInv, CaptureInv, NEW w \in Workers, ClaimBatch(w)
  PROVE  CaptureInv'
<1>0. TypeOK /\ OneAttemptInFlight /\ RowsExist
  BY DEF BillingInv
<1>1. PICK S \in SUBSET Due :
        /\ payment' = [i \in Invoices |->
                         IF i \in FreshFor(S) THEN Append(payment[i], "pending") ELSE payment[i]]
        /\ noMethod' = noMethod \cup {<<i, ClaimNo(i)>> : i \in {j \in FreshFor(S) : Immediate(j)}}
        /\ tasks' = [tasks EXCEPT ![w] = {ClaimFor(i) : i \in FreshFor(S) \cup ResumedFor(S)}]
  BY DEF ClaimBatch
<1>2. /\ FreshFor(S) \subseteq Invoices /\ ResumedFor(S) \subseteq Invoices
      /\ \A i \in FreshFor(S) : InFlight(i) = {}
      /\ \A i \in ResumedFor(S) : InFlight(i) # {}
  BY <1>1 DEF FreshFor, ResumedFor, Due
<1>3. UNCHANGED pspVars
  BY DEF ClaimBatch
<1>4. \A i \in Invoices :
         /\ DOMAIN payment'[i] = 1..Len(payment'[i])
         /\ i \notin FreshFor(S) => payment'[i] = payment[i]
         /\ i \in FreshFor(S) => /\ Len(payment'[i]) = Len(payment[i]) + 1
                                 /\ payment'[i][Len(payment[i]) + 1] = "pending"
                                 /\ \A m \in 1..Len(payment[i]) : payment'[i][m] = payment[i][m]
  BY <1>0, <1>1, AppendRows
<1>5. \A i \in Invoices : DOMAIN payment[i] = 1..Len(payment[i]) /\ Len(payment[i]) \in Nat
  BY <1>0, PaymentRows
<1>6. \A i \in FreshFor(S) : ClaimNo(i) = Len(payment[i]) + 1
  BY <1>2 DEF ClaimNo
<1>7. \A i \in Invoices : \A n \in DOMAIN payment[i] : <<i, n>> \in noMethod' <=> <<i, n>> \in noMethod
  BY <1>1, <1>2, <1>5, <1>6
<1>8. FailedIsBarred'
  <2>1. ASSUME NEW i \in Invoices, NEW n \in DOMAIN payment'[i], payment'[i][n] = "failed"
        PROVE  n \in DOMAIN payment[i] /\ payment[i][n] = "failed"
    BY <1>4, <1>5, <2>1
  <2> QED
    BY <1>1, <1>3, <2>1 DEF FailedIsBarred, CaptureInv, pspVars
<1>9. BareRowsExist'
  <2>1. ASSUME NEW i \in Invoices, NEW n, <<i, n>> \in noMethod'
        PROVE  n \in DOMAIN payment'[i]
    <3>1. CASE <<i, n>> \in noMethod
      <4>1. n \in 1..Len(payment[i])
        BY <1>5, <3>1 DEF CaptureInv, BareRowsExist
      <4> QED
        BY <1>4, <1>5, <4>1
    <3>2. CASE <<i, n>> \notin noMethod
      <4>1. i \in FreshFor(S) /\ n = Len(payment[i]) + 1
        BY <1>1, <1>6, <2>1, <3>2
      <4> QED
        BY <1>4, <1>5, <4>1
    <3> QED
      BY <3>1, <3>2
  <2> QED
    BY <2>1 DEF BareRowsExist
<1>10. AnswersFinal'
  <2>1. \A e \in replied : <<e.inv, e.n>> \notin noMethod'
    <3>1. \A e \in replied : e.inv \in Invoices /\ e.n \in DOMAIN payment[e.inv]
      BY <1>0 DEF TypeOK, Event, RowsExist
    <3> QED
      BY <1>7, <3>1 DEF CaptureInv, AnswersFinal
  <2> QED
    BY <1>3, <2>1 DEF CaptureInv, AnswersFinal, pspVars
<1>11. ASSUME NEW v \in Workers, NEW t \in tasks[v] PROVE ClaimSorted(t)'
  <2>1. t.inv \in Invoices /\ t.n \in DOMAIN payment[t.inv]
    BY <1>0 DEF TypeOK, Task, RowsExist
  <2>2. <<t.inv, t.n>> \in noMethod' <=> <<t.inv, t.n>> \in noMethod
    BY <1>7, <2>1
  <2> QED
    BY <1>3, <2>2 DEF CaptureInv, ClaimsSorted, ClaimSorted, pspVars
<1>12. ASSUME NEW i \in FreshFor(S) \cup ResumedFor(S), NEW t, t = ClaimFor(i) PROVE ClaimSorted(t)'
  <2>1. i \in Invoices
    BY <1>2
  <2>2. /\ t.inv = i /\ t.n = ClaimNo(i)
        /\ t.step = IF Immediate(i) THEN "immediate" ELSE "charge"
    BY <1>12 DEF ClaimFor
  <2>3. Immediate(i) <=> <<i, ClaimNo(i)>> \in noMethod'
    <3>1. CASE i \in FreshFor(S)
      <4>1. ClaimNo(i) \notin DOMAIN payment[i]
        BY <1>5, <1>6, <2>1, <3>1
      <4>2. <<i, ClaimNo(i)>> \notin noMethod
        BY <2>1, <4>1 DEF CaptureInv, BareRowsExist
      <4> QED
        BY <1>1, <3>1, <4>2
    <3>2. CASE i \in ResumedFor(S)
      <4>1. InFlight(i) # {} /\ ClaimNo(i) = Current(i) /\ ClaimNo(i) \in DOMAIN payment[i]
        BY <1>0, <1>2, <2>1, <3>2, ClaimedRow DEF ClaimNo
      <4> QED
        BY <1>7, <2>1, <4>1 DEF Immediate
    <3> QED
      BY <3>1, <3>2
  <2> QED
    BY <2>2, <2>3 DEF ClaimSorted
<1>13. ClaimsSorted'
  <2>1. ASSUME NEW v \in Workers, NEW t \in tasks'[v] PROVE ClaimSorted(t)'
    <3>1. tasks \in [Workers -> SUBSET Task]
      BY <1>0 DEF TypeOK
    <3>2. CASE v = w
      <4>1. PICK i \in FreshFor(S) \cup ResumedFor(S) : t = ClaimFor(i)
        BY <1>1, <2>1, <3>1, <3>2
      <4> QED
        BY <1>12, <4>1
    <3>3. CASE v # w
      BY <1>1, <1>11, <2>1, <3>1, <3>3
    <3> QED
      BY <3>2, <3>3
  <2> QED
    BY <2>1 DEF ClaimsSorted
<1> QED
  BY <1>8, <1>9, <1>10, <1>13 DEF CaptureInv

\* A worker's step: the answer "failed" is a canceled intent, and only that, or a row without
\* a payment method, is recorded as failed.
LEMMA CaptureWorker ==
  ASSUME BillingInv, CaptureInv, Reliable, NEW w \in Workers, NEW t \in tasks[w],
         WorkerStep(w, t) \/ AbandonTask(w, t)
  PROVE  CaptureInv'
<1>0. TypeOK /\ RowsExist /\ AnswersFinal /\ ClaimSorted(t)
  BY DEF BillingInv, CaptureInv, ClaimsSorted
<1>1. /\ t.inv \in Invoices /\ t.n \in Nat \ {0} /\ t.n \in DOMAIN payment[t.inv]
      /\ tasks \in [Workers -> SUBSET Task]
  BY <1>0 DEF TypeOK, Task, RowsExist
<1>2. ASSUME Done(w, t) PROVE \A v \in Workers : tasks'[v] \subseteq tasks[v]
  BY <1>1, <1>2 DEF Done
<1>3. ASSUME NEW s \in TaskStep, Advance(w, t, s),
             s = "failed" => <<t.inv, t.n>> \in canceled', s \notin {"immediate", "charge"}
      PROVE  \A v \in Workers : \A u \in tasks'[v] : u \in tasks[v] \/ ClaimSorted(u)'
  <2>1. PICK u : u = [t EXCEPT !.step = s]
    OBVIOUS
  <2>2. u.inv = t.inv /\ u.n = t.n /\ u.step = s
    BY <1>1, <2>1 DEF Task
  <2>3. \A v \in Workers : tasks'[v] \subseteq tasks[v] \cup {u}
    BY <1>1, <1>3, <2>1 DEF Advance
  <2>4. ClaimSorted(u)'
    BY <1>3, <2>2 DEF ClaimSorted
  <2> QED
    BY <2>3, <2>4
<1>4. CASE Charge(w, t)
  <2>1. PICK r \in Replies : ProviderCharge(t.inv, t.n, r) /\ Advance(w, t, StepFor(r))
    BY <1>4 DEF Charge
  <2>2. /\ <<t.inv, t.n>> \notin noMethod /\ noMethod' = noMethod /\ payment' = payment
    BY <1>0, <1>4 DEF Charge, ClaimSorted, dbVars
  <2>3. /\ AnswersFinal' /\ canceled \subseteq canceled'
        /\ r = "failed" => <<t.inv, t.n>> \in canceled'
    BY <1>0, <1>1, <2>1, <2>2, ChargeIsFinal
  <2>4. /\ StepFor(r) \in TaskStep /\ StepFor(r) \notin {"immediate", "charge"}
        /\ StepFor(r) = "failed" => r = "failed"
    BY BillingAssumption DEF StepFor, TaskStep, Reliable, ReplyKinds
  <2>5. \A v \in Workers : \A u \in tasks'[v] : u \in tasks[v] \/ ClaimSorted(u)'
    BY <1>3, <2>1, <2>3, <2>4
  <2> QED
    BY <1>0, <2>2, <2>3, <2>5, CaptureKept
<1>5. ASSUME UNCHANGED pspVars, noMethod' = noMethod,
             \A v \in Workers : \A u \in tasks'[v] : u \in tasks[v] \/ ClaimSorted(u)',
             NEW x \in PaymentStatus,
             payment' = payment \/ payment' = [payment EXCEPT ![t.inv][t.n] = x],
             x = "failed" => <<t.inv, t.n>> \in canceled \cup noMethod
      PROVE  CaptureInv'
  <2>1. AnswersFinal' /\ canceled' = canceled
    BY <1>0, <1>5 DEF AnswersFinal, pspVars
  <2>2. \A j \in Invoices : /\ DOMAIN payment'[j] = DOMAIN payment[j]
                            /\ \A m \in DOMAIN payment[j] :
                                 payment'[j][m] = "failed" =>
                                   payment[j][m] = "failed" \/ <<j, m>> \in canceled \cup noMethod
    BY <1>0, <1>1, <1>5, RowWritten
  <2> QED
    BY <1>0, <1>5, <2>1, <2>2, CaptureKept
<1>6. {"succeeded", "failed", "processing"} \subseteq PaymentStatus
  BY DEF PaymentStatus, NonTerminal
<1>7. CASE WorkerFinalizeSucceeded(w, t)
  <2>1. /\ UNCHANGED pspVars /\ noMethod' = noMethod /\ Done(w, t)
        /\ payment' = payment \/ payment' = [payment EXCEPT ![t.inv][t.n] = "succeeded"]
    BY <1>7 DEF WorkerFinalizeSucceeded, FinalizeChargeSucceeded
  <2> QED
    BY <1>2, <1>5, <1>6, <2>1
<1>8. CASE WorkerFinalizeFailed(w, t)
  <2>1. /\ UNCHANGED pspVars /\ noMethod' = noMethod /\ Done(w, t)
        /\ payment' = payment \/ payment' = [payment EXCEPT ![t.inv][t.n] = "failed"]
    BY <1>8 DEF WorkerFinalizeFailed, FinalizeChargeFailed
  <2>2. <<t.inv, t.n>> \in canceled \cup noMethod
    BY <1>0, <1>8 DEF WorkerFinalizeFailed, ClaimSorted
  <2> QED
    BY <1>2, <1>5, <1>6, <2>1, <2>2
<1>9. CASE WorkerMarkProcessing(w, t)
  <2>1. /\ UNCHANGED pspVars /\ noMethod' = noMethod /\ (Done(w, t) \/ Advance(w, t, "clear"))
        /\ payment' = payment \/ payment' = [payment EXCEPT ![t.inv][t.n] = "processing"]
    BY <1>9 DEF WorkerMarkProcessing, MarkProcessing
  <2>2. \A v \in Workers : \A u \in tasks'[v] : u \in tasks[v] \/ ClaimSorted(u)'
    BY <1>2, <1>3, <2>1 DEF TaskStep
  <2> QED
    BY <1>5, <1>6, <2>1, <2>2
<1>10. CASE WorkerClearNextAttempt(w, t) \/ AbandonTask(w, t)
  <2>1. UNCHANGED pspVars /\ noMethod' = noMethod /\ Done(w, t) /\ payment' = payment
    BY <1>10 DEF WorkerClearNextAttempt, AbandonTask, dbVars
  <2> QED
    BY <1>2, <1>5, <1>6, <2>1
<1>11. ~ChargeTransportError(w, t)
  BY DEF ChargeTransportError, Reliable
<1> QED
  BY <1>4, <1>7, <1>8, <1>9, <1>10, <1>11 DEF WorkerStep

LEMMA CaptureStep ==
  ASSUME BillingInv, CaptureInv, Reliable, Next
  PROVE  CaptureInv'
<1>0. TypeOK /\ RowsExist /\ AnswersFinal
  BY DEF BillingInv, CaptureInv
<1>1. ASSUME AnswersFinal', canceled \subseteq canceled', noMethod' = noMethod, payment' = payment,
             \A w \in Workers : tasks'[w] \subseteq tasks[w]
      PROVE  CaptureInv'
  BY <1>0, <1>1, CaptureKept
<1>2. UNCHANGED <<pspVars, noMethod>> => AnswersFinal' /\ canceled' = canceled
  BY <1>0 DEF AnswersFinal, pspVars
<1>3. ASSUME NEW i \in Invoices, CreateInvoiceFromRide(i) \/ BackoffElapses(i) \/ LeaseExpires(i)
      PROVE  CaptureInv'
  BY <1>1, <1>2, <1>3 DEF CreateInvoiceFromRide, BackoffElapses, LeaseExpires
<1>4. ASSUME NEW c \in Clients,
             AddPaymentMethod(c) \/ RemovePaymentMethodCheck(c) \/ RemovePaymentMethodCommit(c)
      PROVE  CaptureInv'
  BY <1>1, <1>2, <1>4 DEF AddPaymentMethod, RemovePaymentMethodCheck, RemovePaymentMethodCommit,
     dbVars
<1>5. ASSUME NEW w \in Workers, WorkerCrash(w) PROVE CaptureInv'
  <2>1. UNCHANGED <<pspVars, noMethod, payment>> /\ \A v \in Workers : tasks'[v] \subseteq tasks[v]
    BY <1>0, <1>5 DEF WorkerCrash, dbVars, TypeOK
  <2> QED
    BY <1>1, <1>2, <2>1
<1>6. ASSUME NEW e \in replied, NEW r \in {"succeeded", "failed"}, ProviderSettle(e.inv, e.n, r)
      PROVE  CaptureInv'
  <2>1. e.inv \in Invoices /\ e.n \in Nat \ {0}
    BY <1>0 DEF TypeOK, Event
  <2>2. AnswersFinal' /\ canceled \subseteq canceled'
    BY <1>0, <1>6, <2>1, SettleIsFinal
  <2> QED
    BY <1>1, <1>6, <2>2 DEF ProviderSettle, dbVars
<1>7. ASSUME NEW e \in events, WebhookDispatch(e) PROVE CaptureInv'
  <2>1. e.inv \in Invoices /\ e.n \in DOMAIN payment[e.inv]
    BY <1>0 DEF TypeOK, Event, RowsExist
  <2>2. UNCHANGED pspVars /\ tasks' = tasks /\ noMethod' = noMethod
    BY <1>7 DEF WebhookDispatch, WebhookUnmatched, WebhookSucceeded, WebhookProcessing,
       WebhookFailed,
                FinalizeChargeSucceeded, FinalizeChargeFailed, dbVars
  <2>3. PICK x \in PaymentStatus : /\ payment' = payment \/ payment' = [payment EXCEPT ![e.inv][e.n] = x]
                                   /\ x = "failed" => <<e.inv, e.n>> \in canceled
    <3>1. CASE WebhookUnmatched(e)
      BY <3>1 DEF WebhookUnmatched, dbVars, PaymentStatus
    <3>2. CASE WebhookSucceeded(e)
      BY <3>2 DEF WebhookSucceeded, FinalizeChargeSucceeded, PaymentStatus
    <3>3. CASE WebhookProcessing(e)
      BY <3>3 DEF WebhookProcessing, MarkProcessing, PaymentStatus, NonTerminal
    <3>4. CASE WebhookFailed(e)
      BY <1>0, <3>4 DEF WebhookFailed, FinalizeChargeFailed, PaymentStatus, AnswersFinal
    <3> QED
      BY <1>7, <3>1, <3>2, <3>3, <3>4 DEF WebhookDispatch
  <2>4. \A j \in Invoices : /\ DOMAIN payment'[j] = DOMAIN payment[j]
                            /\ \A m \in DOMAIN payment[j] :
                                 payment'[j][m] = "failed" =>
                                   payment[j][m] = "failed" \/ <<j, m>> \in canceled \cup noMethod
    BY <1>0, <2>1, <2>3, RowWritten
  <2> QED
    BY <1>0, <1>2, <2>2, <2>4, CaptureKept
<1>8. ASSUME NEW h \in hooks, WebhookClear(h) \/ WebhookMarkProcessed(h) \/ WebhookAbort(h)
      PROVE  CaptureInv'
  BY <1>1, <1>2, <1>8 DEF WebhookClear, WebhookMarkProcessed, WebhookAbort, dbVars
<1> QED
  BY <1>3, <1>4, <1>5, <1>6, <1>7, <1>8, CaptureClaim, CaptureWorker DEF Next

\* A captured attempt has not failed, so it is the invoice's last one.
LEMMA CapturedIsLast ==
  ASSUME BillingInv, CaptureInv PROVE NoDoubleCharge
<1>1. ASSUME NEW k \in captured
      PROVE  \E i \in Invoices : k = <<i, Len(payment[i])>>
  <2>1. PICK e \in replied : k = <<e.inv, e.n>>
    BY DEF CaptureInv, AnswersFinal
  <2>2. e.inv \in Invoices /\ e.n \in DOMAIN payment[e.inv]
    BY DEF BillingInv, TypeOK, Event, RowsExist
  <2>3. payment[e.inv][e.n] # "failed"
    BY <2>1, <2>2 DEF CaptureInv, AnswersFinal, FailedIsBarred
  <2>4. payment[e.inv][e.n] \in PaymentStatus
    BY <2>2, PaymentRows DEF BillingInv
  <2>5. e.n = Len(payment[e.inv])
    BY <2>2, <2>3, <2>4 DEF BillingInv, PaidByLastAttempt, OneAttemptInFlight, InFlight,
       PaymentStatus
  <2> QED
    BY <2>1, <2>2, <2>5
<1> QED
  BY <1>1 DEF NoDoubleCharge

\* The idempotency key, the claim's look at unresolved attempts and the guarded updates together
\* take a client's money at most once per invoice, for any number of workers, crashes, leases
\* that run out and webhook deliveries, as long as provider calls do not fail in transport and
\* no intent waits for the customer; with transport failures it is false (MCBilling_lossy.cfg).
THEOREM ChargedOnce == Reliable => (Spec => []NoDoubleCharge)
<1> SUFFICES ASSUME Reliable PROVE Spec => []NoDoubleCharge
  OBVIOUS
<1>1. Init => CaptureInv
  <2> SUFFICES ASSUME Init PROVE CaptureInv
    OBVIOUS
  <2>1. \A i \in Invoices : DOMAIN payment[i] = {}
    BY EmptySeq DEF Init
  <2> QED
    BY <2>1 DEF Init, CaptureInv, FailedIsBarred, ClaimsSorted, AnswersFinal, BareRowsExist
<1>2. BillingInv /\ CaptureInv /\ [Next]_vars => CaptureInv'
  <2>1. ASSUME BillingInv, CaptureInv, Next PROVE CaptureInv'
    BY <2>1, CaptureStep
  <2>2. ASSUME CaptureInv, UNCHANGED vars PROVE CaptureInv'
    BY <2>2 DEF vars, dbVars, pspVars, CaptureInv, FailedIsBarred, ClaimsSorted, ClaimSorted,
                AnswersFinal, BareRowsExist
  <2> QED
    BY <2>1, <2>2
<1>3. BillingInv /\ CaptureInv => NoDoubleCharge
  BY CapturedIsLast
<1> QED
  BY <1>1, <1>2, <1>3, Invariance, PTL DEF Spec
=============================================================================
