------------------------------ MODULE Billing ------------------------------
(***************************************************************************)
(* billing-service: invoices opened from ride events, the ChargeWorker     *)
(* that collects them through a payment provider, the Stripe webhook that  *)
(* resolves payments behind its back, and the ledger and outbox rows that  *)
(* are written in the same transactions.                                   *)
(*                                                                         *)
(* One database transaction is one step.  A provider call, and every       *)
(* statement the code executes outside a transaction, is a step of its     *)
(* own, so that workers, webhooks, clients and crashes interleave between  *)
(* them.                                                                   *)
(***************************************************************************)
EXTENDS Integers, Sequences, FiniteSets

CONSTANTS
  Invoices,     \* the (ride_id, type) pairs ride events can ask an invoice for
  Clients,
  ClientOf,     \* client_id of each invoice
  Workers,      \* ChargeWorker instances
  MaxAttempts,  \* MAX_PAYMENT_ATTEMPTS
  Replies,      \* the charge outcomes the configured provider can answer
  Lossy,        \* provider calls can fail in transport
  Webhooks,     \* the provider reports outcomes through the webhook as well
  MaxCrashes    \* bound on worker crashes and failed database statements

ReplyKinds == {"succeeded", "processing", "requires_action", "failed"}

ASSUME BillingAssumption ==
  /\ ClientOf \in [Invoices -> Clients]
  /\ MaxAttempts \in Nat \ {0}
  /\ Replies \subseteq ReplyKinds
  /\ Lossy \in BOOLEAN
  /\ Webhooks \in BOOLEAN
  /\ MaxCrashes \in Nat

VARIABLES
  invoice,    \* billing.invoice: status, and next_attempt_at as nil/due/later
  payment,    \* billing.payment: per invoice, the status of attempt 1, 2, ...
  noMethod,   \* payment rows created without a payment_method_id
  leased,     \* payment rows whose claimed_until is in the future
  intentSet,  \* payment rows whose provider_payment_intent_id is stored
  ledger,     \* billing.ledger_transaction: postings per invoice and type
  outbox,     \* billing.outbox_message: events per invoice and topic
  defaultPM,  \* clients with an active default payment method
  removing,   \* clients whose RemovePaymentMethod passed its check
  tasks,      \* per worker: the claims of the current batch not resolved yet
  replied,    \* provider: the answer saved for each idempotency key
  captured,   \* provider: the keys for which the customer's money was taken
  canceled,   \* provider: the keys that can no longer be captured
  events,     \* provider: every webhook event it has emitted
  hooks,      \* webhook deliveries between two of their statements
  processed,  \* billing.psp_event rows with processed_at set
  crashes

dbVars   == <<invoice, payment, noMethod, leased, intentSet, ledger, outbox>>
pmVars   == <<defaultPM, removing>>
pspVars  == <<replied, captured, canceled, events>>
hookVars == <<hooks, processed>>
vars == <<dbVars, pmVars, tasks, pspVars, hookVars, crashes>>

-----------------------------------------------------------------------------
(* A payment row, its idempotency key and the provider's intent are the    *)
(* same pair <<invoice, attempt_no>>: the key is derived from it and the   *)
(* UNIQUE constraints make both columns one to one.                        *)
Keys == Invoices \X (Nat \ {0})

NonTerminal    == {"pending", "processing"}
InvoiceStatus  == {"none", "open", "paid", "uncollectible"}
PaymentStatus  == NonTerminal \cup {"succeeded", "failed"}
TaskStep       == {"charge", "immediate", "succeeded", "processing", "failed", "clear"}
Task           == [inv : Invoices, n : Nat \ {0}, step : TaskStep]
Event          == [inv : Invoices, n : Nat \ {0}, status : ReplyKinds]
Hook           == [event : Event, step : {"clear", "mark"}]

TypeOK ==
  /\ invoice \in [Invoices -> [status : InvoiceStatus, next : {"nil", "due", "later"}]]
  /\ payment \in [Invoices -> Seq(PaymentStatus)]
  /\ noMethod \subseteq Keys /\ leased \subseteq Keys /\ intentSet \subseteq Keys
  /\ ledger \in [Invoices -> [opened : Nat, succeeded : Nat, uncollectible : Nat]]
  /\ outbox \in [Invoices -> [completed : Nat, failed : Nat]]
  /\ defaultPM \subseteq Clients /\ removing \subseteq Clients
  /\ tasks \in [Workers -> SUBSET Task]
  /\ replied \subseteq Event
  /\ captured \subseteq Keys /\ canceled \subseteq Keys
  /\ events \subseteq Event
  /\ hooks \subseteq Hook
  /\ processed \subseteq Event
  /\ crashes \in Nat

Init ==
  /\ invoice = [i \in Invoices |-> [status |-> "none", next |-> "nil"]]
  /\ payment = [i \in Invoices |-> <<>>]
  /\ noMethod = {} /\ leased = {} /\ intentSet = {}
  /\ ledger = [i \in Invoices |-> [opened |-> 0, succeeded |-> 0, uncollectible |-> 0]]
  /\ outbox = [i \in Invoices |-> [completed |-> 0, failed |-> 0]]
  /\ defaultPM = {} /\ removing = {}
  /\ tasks = [w \in Workers |-> {}]
  /\ replied = {} /\ captured = {} /\ canceled = {} /\ events = {}
  /\ hooks = {} /\ processed = {}
  /\ crashes = 0

-----------------------------------------------------------------------------
(* Opening an invoice.                                                     *)

\* The UNIQUE (ride_id, type) constraint admits the INSERT.
\* Mutant: no constraint, every delivery of the event inserts and posts.
UnbilledNoConstraint(i) == TRUE
Unbilled(i) == invoice[i].status = "none"

\* A ride.completed or fee-bearing ride.cancelled event: invoice, line and the
\* T1 posting in one transaction.  UNIQUE (ride_id, type) turns a redelivered
\* event into a rolled-back no-op.
CreateInvoiceFromRide(i) ==
  /\ Unbilled(i)
  /\ invoice' = [invoice EXCEPT ![i] = [status |-> "open", next |-> "due"]]
  /\ ledger' = [ledger EXCEPT ![i].opened = @ + 1]
  /\ UNCHANGED <<payment, noMethod, leased, intentSet, outbox, pmVars, tasks,
                 pspVars, hookVars, crashes>>

-----------------------------------------------------------------------------
(* Payment methods, as far as collection depends on them.                  *)

\* Adding with SetDefault moves the default to the new row (ClearDefault, then
\* Create), so a removal in progress no longer concerns the default.
AddPaymentMethod(c) ==
  /\ c \notin defaultPM \/ c \in removing
  /\ defaultPM' = defaultPM \cup {c}
  /\ removing' = removing \ {c}
  /\ UNCHANGED <<dbVars, tasks, pspVars, hookVars, crashes>>

\* The default method's removal counts the client's open invoices first ...
RemovePaymentMethodCheck(c) ==
  /\ c \in defaultPM \ removing
  /\ \A i \in Invoices : ClientOf[i] = c => invoice[i].status # "open"
  /\ removing' = removing \cup {c}
  /\ UNCHANGED <<dbVars, defaultPM, tasks, pspVars, hookVars, crashes>>

\* ... and updates the row in a later statement of the same transaction, which
\* locks no invoice.
RemovePaymentMethodCommit(c) ==
  /\ c \in removing
  /\ removing' = removing \ {c}
  /\ defaultPM' = defaultPM \ {c}
  /\ UNCHANGED <<dbVars, tasks, pspVars, hookVars, crashes>>

-----------------------------------------------------------------------------
(* ChargeWorker: claim.                                                    *)

\* GetDueForCharge
Due == {i \in Invoices : invoice[i].status = "open" /\ invoice[i].next = "due"}

\* GetNonTerminalByInvoiceID
\* Mutant: the query forgets rows that are still pending.
InFlightProcessingOnly(i) == {n \in DOMAIN payment[i] : payment[i][n] = "processing"}
InFlight(i) == {n \in DOMAIN payment[i] : payment[i][n] \in NonTerminal}
Current(i)  == CHOOSE n \in InFlight(i) : \A m \in InFlight(i) : m <= n

\* claimOne's three outcomes: a fresh attempt, a resumed one, or a skip.
\* Mutant: an attempt whose lease expired is abandoned for a fresh one.
FreshForUnleased(S) == {i \in S : \A n \in InFlight(i) : <<i, n>> \notin leased}
FreshFor(S)   == {i \in S : InFlight(i) = {}}
\* Mutant: an attempt whose worker died is never resumed.
ResumedForNever(S) == {}
ResumedFor(S) == {i \in S : InFlight(i) # {} /\ <<i, Current(i)>> \notin leased}

\* The attempt number a claim of invoice i works on.
ClaimNo(i) == IF InFlight(i) = {} THEN Len(payment[i]) + 1 ELSE Current(i)

\* A fresh attempt of a client without a default method, or a resumed row
\* without one, is finalized as failed without calling the provider.
Immediate(i) == IF InFlight(i) = {} THEN ClientOf[i] \notin defaultPM
                                    ELSE <<i, Current(i)>> \in noMethod

ClaimFor(i) == [inv |-> i, n |-> ClaimNo(i),
                step |-> IF Immediate(i) THEN "immediate" ELSE "charge"]

\* claimBatch: one transaction over a set of due invoices; FOR UPDATE SKIP
\* LOCKED and LIMIT may leave any of them to a later tick.  A row created
\* without a payment method carries no lease.
ClaimBatch(w) ==
  /\ tasks[w] = {}
  /\ \E S \in SUBSET Due :
       LET fresh   == FreshFor(S)
           resumed == ResumedFor(S)
           bare    == {i \in fresh : Immediate(i)}
       IN /\ fresh \cup resumed # {}
          /\ payment' = [i \in Invoices |->
                IF i \in fresh THEN Append(payment[i], "pending") ELSE payment[i]]
          /\ noMethod' = noMethod \cup {<<i, ClaimNo(i)>> : i \in bare}
          /\ leased' = leased \cup {<<i, ClaimNo(i)>> : i \in (fresh \ bare) \cup resumed}
          /\ tasks' = [tasks EXCEPT ![w] = {ClaimFor(i) : i \in fresh \cup resumed}]
  /\ UNCHANGED <<invoice, intentSet, ledger, outbox, pmVars, pspVars, hookVars, crashes>>

-----------------------------------------------------------------------------
(* The payment provider (external): the first call with a key decides its  *)
(* outcome, a later call with the same key replays the saved answer.       *)

Key(t) == <<t.inv, t.n>>

SavedReply(i, n) == {e.status : e \in {f \in replied : f.inv = i /\ f.n = n}}

Emit(i, n, r) ==
  events' = IF Webhooks THEN events \cup {[inv |-> i, n |-> n, status |-> r]} ELSE events

ProviderCharge(i, n, r) ==
  \/ /\ r \in SavedReply(i, n)
     /\ UNCHANGED pspVars
  \/ /\ SavedReply(i, n) = {}
     /\ replied' = replied \cup {[inv |-> i, n |-> n, status |-> r]}
     /\ captured' = IF r = "succeeded" THEN captured \cup {<<i, n>>} ELSE captured
     /\ canceled' = IF r = "failed" THEN canceled \cup {<<i, n>>} ELSE canceled
     /\ Emit(i, n, r)

\* An intent answered with processing, or waiting for the customer, settles.
ProviderSettle(i, n, r) ==
  /\ SavedReply(i, n) \cap {"processing", "requires_action"} # {}
  /\ <<i, n>> \notin captured \cup canceled
  /\ \/ /\ r = "succeeded"
        /\ captured' = captured \cup {<<i, n>>}
        /\ UNCHANGED canceled
     \/ /\ r = "failed"
        /\ canceled' = canceled \cup {<<i, n>>}
        /\ UNCHANGED captured
  /\ Emit(i, n, r)
  /\ UNCHANGED <<dbVars, pmVars, tasks, replied, hookVars, crashes>>

-----------------------------------------------------------------------------
(* ChargeWorker: charge.  A worker resolves its claims one after another.  *)

Waiting == {"charge", "immediate"}
Free(w, t) == t.step \in Waiting => \A u \in tasks[w] : u.step \in Waiting

Advance(w, t, s) == tasks' = [tasks EXCEPT ![w] = (@ \ {t}) \cup {[t EXCEPT !.step = s]}]
Done(w, t)       == tasks' = [tasks EXCEPT ![w] = @ \ {t}]

\* The step a worker takes on an answer: RequiresAction is handled as Failed.
\* Mutants: the default branch is missing; processing is taken for success.
StepForUnmapped(r)   == r
StepForOptimistic(r) == IF r \in {"succeeded", "processing"} THEN "succeeded" ELSE "failed"
StepFor(r) == IF r \in {"succeeded", "processing"} THEN r ELSE "failed"

Charge(w, t) ==
  /\ t \in tasks[w] /\ t.step = "charge" /\ Free(w, t)
  /\ \E r \in Replies : ProviderCharge(t.inv, t.n, r) /\ Advance(w, t, StepFor(r))
  /\ UNCHANGED <<dbVars, pmVars, hookVars, crashes>>

\* A transport error or timeout counts as a failed attempt, whether or not the
\* provider executed the request.
ChargeTransportError(w, t) ==
  /\ Lossy
  /\ t \in tasks[w] /\ t.step = "charge" /\ Free(w, t)
  /\ Advance(w, t, "failed")
  /\ \/ UNCHANGED pspVars
     \/ \E r \in Replies : ProviderCharge(t.inv, t.n, r)
  /\ UNCHANGED <<dbVars, pmVars, hookVars, crashes>>

-----------------------------------------------------------------------------
(* Finalization, shared by the worker and the webhook.                     *)

\* The guard of MarkSucceeded and MarkFailed.
Resolvable(i, n) == payment[i][n] \in NonTerminal

\* The guard of MarkPaid and MarkUncollectible.
StillOpen(i) == invoice[i].status = "open"

\* AttemptCount < maxAttempts.
AttemptsLeft(i) == Len(payment[i]) < MaxAttempts

\* MarkSucceeded wins, then MarkPaid, T2 and payment.completed.
FinalizeChargeSucceeded(i, n) ==
  /\ UNCHANGED <<noMethod, leased>>
  /\ IF Resolvable(i, n)
     THEN /\ payment' = [payment EXCEPT ![i][n] = "succeeded"]
          /\ intentSet' = intentSet \cup {<<i, n>>}
          /\ IF StillOpen(i)
             THEN /\ invoice' = [invoice EXCEPT ![i] = [status |-> "paid", next |-> "nil"]]
                  /\ ledger' = [ledger EXCEPT ![i].succeeded = @ + 1]
                  /\ outbox' = [outbox EXCEPT ![i].completed = @ + 1]
             ELSE UNCHANGED <<invoice, ledger, outbox>>
     ELSE UNCHANGED <<payment, intentSet, invoice, ledger, outbox>>

\* MarkFailed wins, then a retry is scheduled, or the attempts are exhausted:
\* MarkUncollectible, T3 and payment.failed.
FinalizeChargeFailed(i, n) ==
  /\ UNCHANGED <<noMethod, leased, intentSet>>
  /\ IF Resolvable(i, n)
     THEN /\ payment' = [payment EXCEPT ![i][n] = "failed"]
          /\ CASE ~StillOpen(i) -> UNCHANGED <<invoice, ledger, outbox>>
               [] StillOpen(i) /\ AttemptsLeft(i) ->
                    /\ invoice' = [invoice EXCEPT ![i].next = "later"]
                    /\ UNCHANGED <<ledger, outbox>>
               [] StillOpen(i) /\ ~AttemptsLeft(i) ->
                    /\ invoice' = [invoice EXCEPT ![i] = [status |-> "uncollectible", next |-> "nil"]]
                    /\ ledger' = [ledger EXCEPT ![i].uncollectible = @ + 1]
                    /\ outbox' = [outbox EXCEPT ![i].failed = @ + 1]
     ELSE UNCHANGED <<payment, invoice, ledger, outbox>>

WorkerFinalizeSucceeded(w, t) ==
  /\ t \in tasks[w] /\ t.step = "succeeded"
  /\ FinalizeChargeSucceeded(t.inv, t.n)
  /\ Done(w, t)
  /\ UNCHANGED <<pmVars, pspVars, hookVars, crashes>>

WorkerFinalizeFailed(w, t) ==
  /\ t \in tasks[w] /\ t.step \in {"failed", "immediate"} /\ Free(w, t)
  /\ FinalizeChargeFailed(t.inv, t.n)
  /\ Done(w, t)
  /\ UNCHANGED <<pmVars, pspVars, hookVars, crashes>>

\* The guard of MarkProcessing.
\* Mutant: the UPDATE matches a row in any state.
StillPendingAlways(i, n) == TRUE
StillPending(i, n) == payment[i][n] = "pending"

\* MarkProcessing: only a pending row, which also stores the intent id.
MarkProcessing(i, n) ==
  /\ payment' = IF StillPending(i, n)
                THEN [payment EXCEPT ![i][n] = "processing"] ELSE payment
  /\ intentSet' = IF StillPending(i, n) THEN intentSet \cup {<<i, n>>} ELSE intentSet

WorkerMarkProcessing(w, t) ==
  /\ t \in tasks[w] /\ t.step = "processing"
  /\ MarkProcessing(t.inv, t.n)
  /\ IF StillPending(t.inv, t.n) THEN Advance(w, t, "clear") ELSE Done(w, t)
  /\ UNCHANGED <<invoice, noMethod, leased, ledger, outbox, pmVars, pspVars, hookVars, crashes>>

\* SetNextAttemptAt(nil), a second statement outside any transaction.
ClearNextAttempt(i) == invoice' = [invoice EXCEPT ![i].next = "nil"]

WorkerClearNextAttempt(w, t) ==
  /\ t \in tasks[w] /\ t.step = "clear"
  /\ ClearNextAttempt(t.inv)
  /\ Done(w, t)
  /\ UNCHANGED <<payment, noMethod, leased, intentSet, ledger, outbox, pmVars,
                 pspVars, hookVars, crashes>>

\* A failed statement after the provider answered is logged and the claim is
\* dropped: its transaction rolled back.
AbandonTask(w, t) ==
  /\ crashes < MaxCrashes /\ crashes' = crashes + 1
  /\ t \in tasks[w] /\ t.step # "charge" /\ Free(w, t)
  /\ Done(w, t)
  /\ UNCHANGED <<dbVars, pmVars, pspVars, hookVars>>

WorkerCrash(w) ==
  /\ crashes < MaxCrashes /\ crashes' = crashes + 1
  /\ tasks[w] # {}
  /\ tasks' = [tasks EXCEPT ![w] = {}]
  /\ UNCHANGED <<dbVars, pmVars, pspVars, hookVars>>

-----------------------------------------------------------------------------
(* The webhook.  An event may be delivered any number of times, in any     *)
(* order, until one delivery has stored processed_at.                      *)

\* No row with this provider_payment_intent_id: logged, and acked for good.
WebhookUnmatched(e) ==
  /\ <<e.inv, e.n>> \notin intentSet
  /\ hooks' = hooks \cup {[event |-> e, step |-> "mark"]}
  /\ UNCHANGED dbVars

WebhookSucceeded(e) ==
  /\ <<e.inv, e.n>> \in intentSet /\ e.status = "succeeded"
  /\ FinalizeChargeSucceeded(e.inv, e.n)
  /\ hooks' = hooks \cup {[event |-> e, step |-> "mark"]}

\* MarkProcessing's result is ignored here: the schedule is cleared either way.
WebhookProcessing(e) ==
  /\ <<e.inv, e.n>> \in intentSet /\ e.status = "processing"
  /\ MarkProcessing(e.inv, e.n)
  /\ hooks' = hooks \cup {[event |-> e, step |-> "clear"]}
  /\ UNCHANGED <<invoice, noMethod, leased, ledger, outbox>>

WebhookFailed(e) ==
  /\ <<e.inv, e.n>> \in intentSet /\ e.status \in {"failed", "requires_action"}
  /\ FinalizeChargeFailed(e.inv, e.n)
  /\ hooks' = hooks \cup {[event |-> e, step |-> "mark"]}

\* apply's psp_event insert and dispatch; an event already processed is acked.
WebhookDispatch(e) ==
  /\ e \in events \ processed
  /\ WebhookUnmatched(e) \/ WebhookSucceeded(e) \/ WebhookProcessing(e) \/ WebhookFailed(e)
  /\ UNCHANGED <<pmVars, tasks, pspVars, processed, crashes>>

WebhookClear(h) ==
  /\ h \in hooks /\ h.step = "clear"
  /\ ClearNextAttempt(h.event.inv)
  /\ hooks' = (hooks \ {h}) \cup {[h EXCEPT !.step = "mark"]}
  /\ UNCHANGED <<payment, noMethod, leased, intentSet, ledger, outbox, pmVars, tasks,
                 pspVars, processed, crashes>>

WebhookMarkProcessed(h) ==
  /\ h \in hooks /\ h.step = "mark"
  /\ processed' = processed \cup {h.event}
  /\ hooks' = hooks \ {h}
  /\ UNCHANGED <<dbVars, pmVars, tasks, pspVars, crashes>>

\* A 500 or a crash between two statements: the provider delivers again later.
WebhookAbort(h) ==
  /\ h \in hooks
  /\ hooks' = hooks \ {h}
  /\ UNCHANGED <<dbVars, pmVars, tasks, pspVars, processed, crashes>>

-----------------------------------------------------------------------------
(* Time.                                                                   *)

BackoffElapses(i) ==
  /\ invoice[i].next = "later"
  /\ invoice' = [invoice EXCEPT ![i].next = "due"]
  /\ UNCHANGED <<payment, noMethod, leased, intentSet, ledger, outbox, pmVars, tasks,
                 pspVars, hookVars, crashes>>

\* leaseActive turns false; the lease of a terminal row is never read again.
LeaseExpires(i) ==
  /\ InFlight(i) # {} /\ <<i, Current(i)>> \in leased
  /\ leased' = leased \ {<<i, Current(i)>>}
  /\ UNCHANGED <<invoice, payment, noMethod, intentSet, ledger, outbox, pmVars, tasks,
                 pspVars, hookVars, crashes>>

-----------------------------------------------------------------------------
WorkerStep(w, t) ==
  \/ Charge(w, t)
  \/ ChargeTransportError(w, t)
  \/ WorkerFinalizeSucceeded(w, t)
  \/ WorkerFinalizeFailed(w, t)
  \/ WorkerMarkProcessing(w, t)
  \/ WorkerClearNextAttempt(w, t)

Next ==
  \/ \E i \in Invoices : CreateInvoiceFromRide(i) \/ BackoffElapses(i) \/ LeaseExpires(i)
  \/ \E c \in Clients : \/ AddPaymentMethod(c)
                        \/ RemovePaymentMethodCheck(c)
                        \/ RemovePaymentMethodCommit(c)
  \/ \E w \in Workers :
       \/ ClaimBatch(w)
       \/ WorkerCrash(w)
       \/ \E t \in tasks[w] : WorkerStep(w, t) \/ AbandonTask(w, t)
  \/ \E e \in replied, r \in {"succeeded", "failed"} : ProviderSettle(e.inv, e.n, r)
  \/ \E e \in events : WebhookDispatch(e)
  \/ \E h \in hooks : WebhookClear(h) \/ WebhookMarkProcessed(h) \/ WebhookAbort(h)

Spec == Init /\ [][Next]_vars

\* The ticker keeps running and clocks advance; clients, ride events, the
\* provider's own decisions and crashes are under no obligation.
Fairness ==
  /\ \A w \in Workers : /\ WF_vars(ClaimBatch(w))
                        /\ WF_vars(\E t \in tasks[w] : WorkerStep(w, t))
  /\ \A i \in Invoices : WF_vars(BackoffElapses(i)) /\ WF_vars(LeaseExpires(i))

FairSpec == Spec /\ Fairness

-----------------------------------------------------------------------------
(* Safety.                                                                 *)

\* The claim step, the webhook and any number of workers never leave an
\* invoice with two unresolved attempts, nor with one once it is closed
\* (claimOne's GetNonTerminalByInvoiceID check and the guarded updates).
OneAttemptInFlight ==
  \A i \in Invoices : \A n \in InFlight(i) :
    n = Len(payment[i]) /\ invoice[i].status = "open"

\* Whoever wins the race to finalize, the books follow the invoice: T1 is posted
\* once when it opens, T2 and payment.completed once if it is paid, T3 and
\* payment.failed once if it is written off, and nothing is posted twice.
BooksFollowInvoice ==
  \A i \in Invoices :
    /\ ledger[i].opened = IF invoice[i].status = "none" THEN 0 ELSE 1
    /\ ledger[i].succeeded = IF invoice[i].status = "paid" THEN 1 ELSE 0
    /\ ledger[i].uncollectible = IF invoice[i].status = "uncollectible" THEN 1 ELSE 0
    /\ outbox[i].completed = ledger[i].succeeded
    /\ outbox[i].failed = ledger[i].uncollectible

\* An invoice is paid by exactly one attempt, its last; every other attempt of
\* any invoice that is resolved has failed (MarkSucceeded then MarkPaid in one
\* transaction, a new attempt only after the previous one failed).
PaidByLastAttempt ==
  \A i \in Invoices : \A n \in DOMAIN payment[i] :
    payment[i][n] = "succeeded" <=> invoice[i].status = "paid" /\ n = Len(payment[i])

\* The retry budget: never more than MAX_PAYMENT_ATTEMPTS attempts, and an invoice
\* is written off only after all of them (FinalizeChargeFailed's test of
\* AttemptCount against claimOne's numbering of attempts).
AttemptBudget ==
  \A i \in Invoices :
    /\ Len(payment[i]) <= MaxAttempts
    /\ invoice[i].status = "uncollectible" => Len(payment[i]) = MaxAttempts

\* A payment is recorded as succeeded only if the provider took the money for
\* that very attempt, whichever of worker and webhook recorded it.
SucceededIsCaptured ==
  \A i \in Invoices : \A n \in DOMAIN payment[i] :
    payment[i][n] = "succeeded" => <<i, n>> \in captured

\* A closed invoice, the outcome of an attempt and the postings are final: no
\* late webhook, resumed claim or redelivered event changes them.
ClosedIsFinal ==
  [][\A i \in Invoices :
       /\ invoice[i].status \in {"paid", "uncollectible"} =>
            /\ invoice'[i].status = invoice[i].status
            /\ payment'[i] = payment[i]
            /\ ledger'[i] = ledger[i]
            /\ outbox'[i] = outbox[i]
       /\ \A n \in DOMAIN payment[i] :
            /\ n \in DOMAIN payment'[i]
            /\ payment[i][n] \notin NonTerminal => payment'[i][n] = payment[i][n]]_vars

\* "A crashed-and-retried attempt reuses the same key and cannot double-charge"
\* (BILLING_SPEC.md): the provider takes a client's money at most once per invoice.
NoDoubleCharge ==
  \A k1, k2 \in captured : k1[1] = k2[1] => k1 = k2

\* An open invoice is never forgotten: a retry is scheduled, or an attempt is
\* unresolved.
NeverStranded ==
  \A i \in Invoices :
    invoice[i].status = "open" => invoice[i].next # "nil" \/ InFlight(i) # {}

(* Refinement: the service implements the settlement protocol.             *)

Abstract == INSTANCE Settlement WITH
  status <- [i \in Invoices |-> invoice[i].status],
  tries  <- [i \in Invoices |-> Len(payment[i])],
  trying <- {i \in Invoices : InFlight(i) # {}}

\* Workers, webhooks, crashes and retries together never do anything to an
\* invoice that the five-action protocol of Settlement does not allow.
ImplementsSettlement == Abstract!Spec

(* Liveness.                                                               *)

\* Every opened invoice is eventually paid or written off.
EventuallyClosed ==
  \A i \in Invoices :
    invoice[i].status = "open" ~> invoice[i].status \in {"paid", "uncollectible"}
=============================================================================
