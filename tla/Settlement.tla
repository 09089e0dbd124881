---------------------------- MODULE Settlement ----------------------------
(***************************************************************************)
(* What billing-service promises about one invoice, without workers,       *)
(* webhooks, leases or a provider: it is opened once, collected by at most *)
(* MaxAttempts attempts, one at a time, and closed once, either paid by    *)
(* the attempt under way or written off when the last one failed.  Every   *)
(* opening and closing is booked and announced in the same step.           *)
(***************************************************************************)
EXTENDS Naturals

CONSTANTS Invoices, MaxAttempts

VARIABLES status, tries, trying, ledger, outbox

vars == <<status, tries, trying, ledger, outbox>>

Init ==
  /\ status = [i \in Invoices |-> "none"]
  /\ tries = [i \in Invoices |-> 0]
  /\ trying = {}
  /\ ledger = [i \in Invoices |-> [opened |-> 0, succeeded |-> 0, uncollectible |-> 0]]
  /\ outbox = [i \in Invoices |-> [completed |-> 0, failed |-> 0]]

Open(i) ==
  /\ status[i] = "none"
  /\ status' = [status EXCEPT ![i] = "open"]
  /\ ledger' = [ledger EXCEPT ![i].opened = @ + 1]
  /\ UNCHANGED <<tries, trying, outbox>>

\* One sweep starts an attempt for several invoices at once.
Attempt(S) ==
  /\ \A i \in S : status[i] = "open" /\ i \notin trying /\ tries[i] < MaxAttempts
  /\ tries' = [i \in Invoices |-> IF i \in S THEN tries[i] + 1 ELSE tries[i]]
  /\ trying' = trying \cup S
  /\ UNCHANGED <<status, ledger, outbox>>

Pay(i) ==
  /\ i \in trying /\ status[i] = "open"
  /\ status' = [status EXCEPT ![i] = "paid"]
  /\ trying' = trying \ {i}
  /\ ledger' = [ledger EXCEPT ![i].succeeded = @ + 1]
  /\ outbox' = [outbox EXCEPT ![i].completed = @ + 1]
  /\ UNCHANGED tries

Fail(i) ==
  /\ i \in trying /\ status[i] = "open" /\ tries[i] < MaxAttempts
  /\ trying' = trying \ {i}
  /\ UNCHANGED <<status, tries, ledger, outbox>>

WriteOff(i) ==
  /\ i \in trying /\ status[i] = "open" /\ tries[i] = MaxAttempts
  /\ status' = [status EXCEPT ![i] = "uncollectible"]
  /\ trying' = trying \ {i}
  /\ ledger' = [ledger EXCEPT ![i].uncollectible = @ + 1]
  /\ outbox' = [outbox EXCEPT ![i].failed = @ + 1]
  /\ UNCHANGED tries

Next ==
  \/ \E i \in Invoices : Open(i) \/ Pay(i) \/ Fail(i) \/ WriteOff(i)
  \/ \E S \in SUBSET Invoices : Attempt(S)

Spec == Init /\ [][Next]_vars
=============================================================================
