------------------------------ MODULE Process ------------------------------
(***************************************************************************)
(* One service process: its background workers, its health checker and its *)
(* shutdown (common/health, common/shutdown and each cmd/main.go).         *)
(*                                                                         *)
(* A worker is a goroutine started by GoSafe.  It may return or panic on   *)
(* its own; its deferred Done runs first, then GoSafe looks whether it had *)
(* been told to stop.  The checker's ticker pings the backends next to all *)
(* that, and main walks through WaitForShutdown.                           *)
(***************************************************************************)
EXTENDS Integers, FiniteSets

CONSTANTS Services,      \* the services whose process is run
          MaxExits       \* bound: workers that stop without being told to

ASSUME ProcessAssumption == Services \subseteq {"auth", "ride", "driver", "matching", "billing", "location"}

\* The goroutines main starts with Add and GoSafe, by their names.
AuthWorkers == {}

RideWorkers == {"outbox-worker", "ride-accepted-consumer", "payment-completed-consumer",
                "ride-matching-failed-consumer"}

DriverWorkers == {"outbox-worker", "ride-accepted-consumer", "ride-cancelled-consumer",
                  "ride-completed-consumer"}

MatchingWorkers == {"ride-requested-consumer", "shift-updated-consumer",
                    "ride-cancelled-consumer", "match-retry-worker"}

BillingWorkers == {"outbox-worker", "charge-worker", "ride-completed-consumer",
                   "ride-cancelled-consumer", "ride-summary-ready-consumer"}

LocationWorkers == {"pubsub-dispatcher", "shift-updated-consumer", "ride-requested-consumer",
                    "ride-accepted-consumer", "ride-completed-consumer",
                    "ride-cancelled-consumer", "staleness-worker", "outbox-worker",
                    "archive-worker"}

WorkersOf(service) ==
  CASE service = "auth"     -> AuthWorkers
    [] service = "ride"     -> RideWorkers
    [] service = "driver"   -> DriverWorkers
    [] service = "matching" -> MatchingWorkers
    [] service = "billing"  -> BillingWorkers
    [] service = "location" -> LocationWorkers

VARIABLES worker,     \* per worker: "running", "returned" (Done called), "gone"
          waitGroup,  \* the counter of the manager's WaitGroup
          live, ready, shuttingDown,    \* the Checker
          ping,       \* updateReady: "idle", or "pinging" past its first look at the flag
          main,       \* where main is in WaitForShutdown
          cancelled,  \* the workers' context
          deadline,   \* the shutdown timeout has passed
          serving,    \* a request is in progress
          flushed,    \* the telemetry providers were shut down
          missed      \* ghost: a worker exited on its own and GoSafe looked before cancellation

processVars == <<worker, waitGroup, live, ready, shuttingDown, ping, main, cancelled,
                 deadline, serving, flushed, missed>>

\* main up to WaitForShutdown: Add, GoSafe and Start; a new Checker is live and not ready.
ProcessInit ==
  /\ \E service \in Services :
       /\ worker = [w \in WorkersOf(service) |-> "running"]
       /\ waitGroup = Cardinality(WorkersOf(service))
  /\ live = TRUE /\ ready = FALSE /\ shuttingDown = FALSE
  /\ ping = "idle"
  /\ main = "serve"
  /\ cancelled = FALSE /\ deadline = FALSE /\ serving = FALSE
  /\ flushed = FALSE /\ missed = FALSE

Workers == DOMAIN worker

---------------------------------------------------------------------------
(* Workers *)

\* A worker's loop sees that its context is done and returns; Done, then nothing to mark.
WorkerStops(w) ==
  /\ cancelled /\ worker[w] = "running"
  /\ worker' = [worker EXCEPT ![w] = "gone"]
  /\ waitGroup' = waitGroup - 1
  /\ UNCHANGED <<live, ready, shuttingDown, ping, main, cancelled, deadline, serving, flushed, missed>>

\* A worker panics, or its source closes, while its context is alive: deferred Done.
WorkerExits(w) ==
  /\ ~cancelled /\ worker[w] = "running"
  /\ Cardinality({v \in Workers : worker[v] # "running"}) < MaxExits
  /\ worker' = [worker EXCEPT ![w] = "returned"]
  /\ waitGroup' = waitGroup - 1
  /\ UNCHANGED <<live, ready, shuttingDown, ping, main, cancelled, deadline, serving, flushed, missed>>

MarkNotLive == live' = FALSE

\* The deferred function of GoSafe: recover, then MarkNotLive unless told to stop.
GoSafeRecovers(w) ==
  /\ worker[w] = "returned"
  /\ worker' = [worker EXCEPT ![w] = "gone"]
  /\ IF cancelled THEN UNCHANGED live ELSE MarkNotLive
  /\ missed' = (missed \/ ~cancelled)
  /\ UNCHANGED <<waitGroup, ready, shuttingDown, ping, main, cancelled, deadline, serving, flushed>>

---------------------------------------------------------------------------
(* Health *)

\* updateReady, the first critical section; the ticker runs until main returns.
BeginPing ==
  /\ ping = "idle" /\ main # "exit"
  /\ ~shuttingDown
  /\ ping' = "pinging"
  /\ UNCHANGED <<worker, waitGroup, live, ready, shuttingDown, main, cancelled, deadline, serving, flushed, missed>>

\* Mutant of EndPing: the flag is not looked at again.
EndPingBlindly(ok) ==
  /\ ping = "pinging"
  /\ ping' = "idle"
  /\ ready' = ok
  /\ UNCHANGED <<worker, waitGroup, live, shuttingDown, main, cancelled, deadline, serving, flushed, missed>>

\* The pinger has answered, or its timeout has; the second critical section.
EndPing(ok) ==
  /\ ping = "pinging"
  /\ ping' = "idle"
  /\ ready' = IF shuttingDown THEN ready ELSE ok
  /\ UNCHANGED <<worker, waitGroup, live, shuttingDown, main, cancelled, deadline, serving, flushed, missed>>

---------------------------------------------------------------------------
(* WaitForShutdown *)

RequestArrives ==
  /\ main = "serve" /\ ~serving
  /\ serving' = TRUE
  /\ UNCHANGED <<worker, waitGroup, live, ready, shuttingDown, ping, main, cancelled, deadline, flushed, missed>>

RequestEnds ==
  /\ serving
  /\ serving' = FALSE
  /\ UNCHANGED <<worker, waitGroup, live, ready, shuttingDown, ping, main, cancelled, deadline, flushed, missed>>

\* SIGTERM or SIGINT
ShutdownSignal ==
  /\ main = "serve"
  /\ main' = "closing"
  /\ UNCHANGED <<worker, waitGroup, live, ready, shuttingDown, ping, cancelled, deadline, serving, flushed, missed>>

DeadlinePasses ==
  /\ main \notin {"serve", "exit"} /\ ~deadline
  /\ deadline' = TRUE
  /\ UNCHANGED <<worker, waitGroup, live, ready, shuttingDown, ping, main, cancelled, serving, flushed, missed>>

\* server.Shutdown returns when no request is left, or with the deadline.
ServerShutdown ==
  /\ main = "closing" /\ (~serving \/ deadline)
  /\ main' = "onStop"
  /\ UNCHANGED <<worker, waitGroup, live, ready, shuttingDown, ping, cancelled, deadline, serving, flushed, missed>>

\* The first OnStop hook of every service.
MarkNotReady ==
  /\ main = "onStop"
  /\ ready' = FALSE /\ shuttingDown' = TRUE
  /\ main' = "cancel"
  /\ UNCHANGED <<worker, waitGroup, live, ping, cancelled, deadline, serving, flushed, missed>>

\* The second one cancels the workers' context; auth-service has none to cancel.
CancelWorkers ==
  /\ main = "cancel"
  /\ cancelled' = TRUE
  /\ main' = "wait"
  /\ UNCHANGED <<worker, waitGroup, live, ready, shuttingDown, ping, deadline, serving, flushed, missed>>

\* The select on the WaitGroup and the deadline, then the OnDrained hooks.
Drain ==
  /\ main = "wait" /\ (waitGroup = 0 \/ deadline)
  /\ flushed' = TRUE
  /\ main' = "exit"
  /\ UNCHANGED <<worker, waitGroup, live, ready, shuttingDown, ping, cancelled, deadline, serving, missed>>

ProcessNext ==
  \/ \E w \in Workers : WorkerStops(w) \/ WorkerExits(w) \/ GoSafeRecovers(w)
  \/ BeginPing \/ \E ok \in BOOLEAN : EndPing(ok)
  \/ RequestArrives \/ RequestEnds
  \/ ShutdownSignal \/ DeadlinePasses \/ ServerShutdown \/ MarkNotReady \/ CancelWorkers \/ Drain

---------------------------------------------------------------------------
(* Properties *)

\* What the probes say, however the ticker, the workers and main interleave: once the stop
\* hooks have begun a late ping cannot make the service ready again (health.go:54); live
\* turns false exactly when a worker was found to have exited before it was told to
\* (gosafe.go:15); and telemetry is flushed with a worker still running only after the
\* timeout (shutdown.go:38).
HealthHonest ==
  /\ shuttingDown => ~ready
  /\ live = ~missed
  /\ flushed => deadline \/ \A w \in Workers : worker[w] # "running"

=============================================================================
