------------------------------- MODULE Outbox -------------------------------
(***************************************************************************)
(* common/outbox.Worker over one service's outbox_message table: workers   *)
(* lease a batch of rows in a short transaction, publish them one after    *)
(* another with no transaction open, and record each outcome in a          *)
(* statement of its own.                                                   *)
(*                                                                         *)
(* Time is counted in ticks.  A publish and a statement end within         *)
(* PublishTimeout ticks because their contexts do, so a tick waits for a   *)
(* worker whose deadline is reached.                                       *)
(***************************************************************************)
EXTENDS Integers, FiniteSets

CONSTANTS
  Messages,        \* rows, numbered in the order of created_at
  Poison,          \* rows the writer always refuses: no such topic, too large
  Workers,
  BatchSize,
  MaxRetries,
  PublishTimeout,
  ClaimLease,
  ClaimSlack,      \* ticks a lease loses: whole seconds, and time to commit
  MaxFaults,       \* bound on crashes, lost answers and failed statements
  MaxStops         \* bound on graceful shutdowns

ASSUME OutboxAssumption ==
  /\ Messages \subseteq Nat
  /\ Poison \subseteq Messages
  /\ BatchSize \in Nat \ {0}
  /\ MaxRetries \in Nat \ {0}
  /\ PublishTimeout \in Nat \ {0}
  /\ ClaimLease \in Nat /\ ClaimSlack \in Nat
  /\ MaxFaults \in Nat /\ MaxStops \in Nat

\* 10 rows, each a publish and a statement of 5 s at most, fit in 2 minutes.
ASSUME LeaseAssumption ==
  ClaimLease - ClaimSlack > 2 * PublishTimeout * BatchSize

VARIABLES
  present,     \* rows whose INSERT is committed
  processed,   \* rows with processed = true
  retries,     \* the retries column
  lease,       \* ticks until claimed_until; 0 when it is null or past
  batch,       \* per worker: the claimed rows it has not finished
  phase,       \* per worker: the call it is in, for the first row of batch
  left,        \* per worker: ticks until that call's context expires
  stopping,    \* workers whose Run context is cancelled
  published,   \* copies of each row's message in the topic
  unstored,    \* history: rows whose publish was answered nil and stored by no broker
  faults,
  stops

rowVars    == <<present, processed, retries, lease>>
workerVars == <<batch, phase, left, stopping>>
vars == <<rowVars, workerVars, published, unstored, faults, stops>>

Phase == {"idle", "publish", "mark", "retry"}

TypeOK ==
  /\ present \subseteq Messages /\ processed \subseteq Messages
  /\ retries \in [Messages -> Nat]
  /\ lease \in [Messages -> Nat]
  /\ batch \in [Workers -> SUBSET Messages]
  /\ phase \in [Workers -> Phase]
  /\ left \in [Workers -> Nat]
  /\ stopping \subseteq Workers
  /\ published \in [Messages -> Nat]
  /\ unstored \subseteq Messages
  /\ faults \in Nat /\ stops \in Nat

Init ==
  /\ present = {} /\ processed = {}
  /\ retries = [m \in Messages |-> 0]
  /\ lease = [m \in Messages |-> 0]
  /\ batch = [w \in Workers |-> {}]
  /\ phase = [w \in Workers |-> "idle"]
  /\ left = [w \in Workers |-> 0]
  /\ stopping = {}
  /\ published = [m \in Messages |-> 0]
  /\ unstored = {}
  /\ faults = 0 /\ stops = 0

-----------------------------------------------------------------------------
(* The table.                                                              *)

\* Insert, in the transaction of the command that emits the event: created_at
\* is the transaction's start, so rows need not commit in its order.
Insert(m) ==
  /\ m \notin present
  /\ present' = present \cup {m}
  /\ UNCHANGED <<processed, retries, lease, workerVars, published, unstored, faults, stops>>

\* The WHERE clause of GetUnprocessedBatch.
\* Mutant: rows under a live lease are selected too.
UnprocessedAnyLease == present \ processed
Unprocessed == {m \in present \ processed : lease[m] = 0}

\* ORDER BY created_at LIMIT BatchSize: parked rows take their place as well.
IsFirst(B) ==
  /\ B \subseteq Unprocessed /\ IsFiniteSet(B)
  /\ Cardinality(B) <= BatchSize
  /\ B # Unprocessed => Cardinality(B) = BatchSize
  /\ \A m \in B, k \in Unprocessed \ B : m < k

\* Mutant: one failure parks the row.
BelowCapNoRetry(m) == retries[m] = 0
BelowCap(m) == retries[m] < MaxRetries

-----------------------------------------------------------------------------
(* The worker.                                                             *)

\* The lease is taken from the clock before the rows are updated and committed,
\* and formatted in whole seconds.
Leases == (ClaimLease - ClaimSlack)..ClaimLease

\* claimBatch.  Rows past the cap are skipped: parked.
ClaimBatch(w) ==
  /\ phase[w] = "idle" /\ w \notin stopping
  /\ \E B \in SUBSET Unprocessed, l \in Leases :
       LET claimed == {m \in B : BelowCap(m)}
       IN /\ IsFirst(B) /\ claimed # {}
          /\ lease' = [m \in Messages |-> IF m \in claimed THEN l ELSE lease[m]]
          /\ batch' = [batch EXCEPT ![w] = claimed]
  /\ phase' = [phase EXCEPT ![w] = "publish"]
  /\ left' = [left EXCEPT ![w] = PublishTimeout]
  /\ UNCHANGED <<present, processed, retries, stopping, published, unstored, faults, stops>>

\* The row being worked on.
Current(w) == CHOOSE m \in batch[w] : \A k \in batch[w] : m <= k

\* Publish returned: the outcome is recorded under a fresh timeout.
Record(w, p) ==
  /\ phase' = [phase EXCEPT ![w] = p]
  /\ left' = [left EXCEPT ![w] = PublishTimeout]
  /\ UNCHANGED <<rowVars, batch, stopping, stops>>

Deliver(m) == published' = [published EXCEPT ![m] = @ + 1]

Fault == faults < MaxFaults /\ faults' = faults + 1

\* Publish answers nil.  The writer asks for no acknowledgement (New leaves
\* RequiredAcks at zero, RequireNone): nil says that the request was sent, and
\* whether a broker stores the message nobody learns.
PublishOk(w) ==
  /\ phase[w] = "publish" /\ Current(w) \notin Poison
  /\ \/ Deliver(Current(w)) /\ UNCHANGED unstored
     \/ UNCHANGED published /\ unstored' = unstored \cup {Current(w)}
  /\ Record(w, "mark")
  /\ UNCHANGED faults

\* The writer refuses the message, or the cancelled context fails the call.
PublishFails(w) ==
  /\ phase[w] = "publish"
  /\ Current(w) \in Poison \/ w \in stopping
  /\ Record(w, "retry")
  /\ UNCHANGED <<published, unstored, faults>>

\* A timeout, a transport error or a cancellation, before or after the broker
\* has stored the message.
PublishLost(w) ==
  /\ phase[w] = "publish" /\ Fault
  /\ Deliver(Current(w)) \/ UNCHANGED published
  /\ Record(w, "retry")
  /\ UNCHANGED unstored

\* Inside one Publish: the write times out although its message gets through,
\* and the writer sends it again.
WriterResends(w) ==
  /\ phase[w] = "publish" /\ Fault
  /\ Deliver(Current(w))
  /\ UNCHANGED <<rowVars, workerVars, unstored, stops>>

\* The next row of the batch, or back to the ticker.
Proceed(w) ==
  LET rest == batch[w] \ {Current(w)}
  IN /\ batch' = [batch EXCEPT ![w] = rest]
     /\ phase' = [phase EXCEPT ![w] = IF rest = {} THEN "idle" ELSE "publish"]
     /\ left' = [left EXCEPT ![w] = IF rest = {} THEN 0 ELSE PublishTimeout]
     /\ UNCHANGED <<present, lease, stopping, published, unstored, stops>>

\* The finalizing context is not cancelled with Run's.
\* Mutant: a shutdown aborts the statement.
RunsToEndUnlessStopping(w) == w \notin stopping
RunsToEnd(w) == TRUE

\* Mutant: a failed publish is recorded as processed.
ProcessedPhaseAny == {"mark", "retry"}
ProcessedPhase == {"mark"}

MarkProcessed(w) ==
  /\ phase[w] \in ProcessedPhase
  /\ processed' = IF RunsToEnd(w) THEN processed \cup {Current(w)} ELSE processed
  /\ Proceed(w)
  /\ UNCHANGED <<retries, faults>>

\* The lease stays: the row is tried again when it runs out.
IncrementRetries(w) ==
  /\ phase[w] = "retry"
  /\ retries' = [retries EXCEPT ![Current(w)] = @ + 1]
  /\ Proceed(w)
  /\ UNCHANGED <<processed, faults>>

\* The statement fails or times out; it is logged and the batch goes on.
StatementFails(w) ==
  /\ phase[w] \in {"mark", "retry"} /\ Fault
  /\ Proceed(w)
  /\ UNCHANGED <<processed, retries>>

Crash(w) ==
  /\ phase[w] # "idle" /\ Fault
  /\ batch' = [batch EXCEPT ![w] = {}]
  /\ phase' = [phase EXCEPT ![w] = "idle"]
  /\ left' = [left EXCEPT ![w] = 0]
  /\ stopping' = stopping \ {w}
  /\ UNCHANGED <<rowVars, published, unstored, stops>>

\* SIGTERM during a batch; the batch is finished, then Run returns.
Stop(w) ==
  /\ phase[w] # "idle" /\ w \notin stopping
  /\ stops < MaxStops /\ stops' = stops + 1
  /\ stopping' = stopping \cup {w}
  /\ UNCHANGED <<rowVars, batch, phase, left, published, unstored, faults>>

Restart(w) ==
  /\ phase[w] = "idle" /\ w \in stopping
  /\ stopping' = stopping \ {w}
  /\ UNCHANGED <<rowVars, batch, phase, left, published, unstored, faults, stops>>

-----------------------------------------------------------------------------
Busy == {w \in Workers : phase[w] # "idle"}

\* What is left of a lease after one tick.
Less(n) == IF n > 0 THEN n - 1 ELSE 0

Tick ==
  /\ \A w \in Busy : left[w] > 0
  /\ Busy # {} \/ \E m \in Messages : lease[m] > 0
  /\ lease' = [m \in Messages |-> Less(lease[m])]
  /\ left' = [w \in Workers |-> IF w \in Busy THEN left[w] - 1 ELSE left[w]]
  /\ UNCHANGED <<present, processed, retries, batch, phase, stopping, published, unstored, faults,
                 stops>>

PublishOne(w) ==
  \/ PublishOk(w) \/ PublishFails(w) \/ PublishLost(w) \/ WriterResends(w)
  \/ MarkProcessed(w) \/ IncrementRetries(w) \/ StatementFails(w)

Next ==
  \/ \E m \in Messages : Insert(m)
  \/ \E w \in Workers : ClaimBatch(w) \/ PublishOne(w) \/ Crash(w) \/ Stop(w) \/ Restart(w)
  \/ Tick

Spec == Init /\ [][Next]_vars

\* The ticker keeps firing, every call ends by its deadline, a stopped process
\* is started again, and time passes.
Fairness ==
  /\ \A w \in Workers : WF_vars(ClaimBatch(w)) /\ WF_vars(PublishOne(w)) /\ WF_vars(Restart(w))
  /\ WF_vars(Tick)

FairSpec == Spec /\ Fairness

-----------------------------------------------------------------------------
\* "without also letting a slow-but-alive worker's claim expire out from under
\* it" (worker.go): two workers never work on the same row, although nothing but
\* the lease keeps them apart once the claim has committed.
ExclusiveClaim ==
  \A w, v \in Workers : w # v => batch[w] \cap batch[v] = {}

\* The events are published "reliably ... via the transactional outbox pattern"
\* (README.md): a row is marked processed (worker.go:183) only when its message is
\* in the topic.  It is not so: the publisher does not wait for the broker.
ProcessedWasPublished ==
  \A m \in processed : published[m] > 0

\* The unacknowledged write is the only way to lose an event: a row whose message is
\* not in the topic is marked processed only after a Publish of it answered nil.  No
\* crash, lost answer, failed statement, second worker, expired lease or shutdown
\* between claim, publish and MarkProcessed (worker.go:118-186) loses one.
LostOnlyUnacknowledged ==
  \A m \in processed : published[m] > 0 \/ m \in unstored

\* Every copy beyond the first is owed to a crash, a lost answer or a failed
\* statement: neither an expiring lease, nor a second worker, nor a graceful
\* shutdown between publish and MarkProcessed sends a message twice.
DuplicatesExplained ==
  \A m \in Messages : published[m] <= 1 + faults

\* DefaultMaxRetries caps the attempts: no row counts more failures than the cap,
\* and a parked row is never worked on again.
RetriesCapped ==
  \A m \in Messages :
    /\ retries[m] <= MaxRetries
    /\ retries[m] = MaxRetries => \A w \in Workers : m \notin batch[w]

\* A row past the retry cap is "parked (skipped ...)" (worker.go:18-19): a message the
\* writer accepts is sent in the end, although crashed claims have to wait for their
\* lease and rows ahead of it are parked.  So it is as long as a batch has room for a
\* row that is not parked; GetUnprocessedBatch selects parked rows as well.
EventuallySent ==
  \A m \in Messages \ Poison : m \in present ~> published[m] > 0 \/ m \in unstored
=============================================================================
