# A TLA+ model of MyUberGo

MyUberGo is a ride-hailing back end of Go services that talk through Kafka and
HTTP and keep their state in PostgreSQL (auth, ride, driver, billing) or Redis
(matching, location). This directory models the parts where concurrency,
crashes and unreliable delivery decide whether the system is right, checks them
with TLC on small instances and proves the central guarantees with TLAPS for
every instance.

`PROJECT.json` is the index: components, runs, mutants, the map from definitions
to source lines, findings, hazards and theorems.

## Inventory

| Component | State | Operations | What is hard | What makes it correct |
|---|---|---|---|---|
| billing-service: collection | invoices, payments (one row per attempt), outbox, `psp_event` | invoice from a ride event, claim, charge, finalize, webhook | workers, webhooks and crashes race on one payment; provider answers are lost; leases expire; webhooks repeat and overtake each other | books follow the invoice exactly once, one attempt at a time, bounded retries, no double charge, every invoice closes |
| billing-service: ledger | accounts, transactions, entries | T1, T2, T3, balances, ride actuals | accounts are created lazily by transactions that race; a message that cannot be posted blocks its topic | the books balance and agree with the invoices; every charge is invoiced |
| billing-service: payment methods | `customer`, `payment_method` with two partial unique indexes | add, remove | overlapping requests, write skew with invoices | one default per client, lost only to its removal |
| `common/outbox` (ride, driver, billing, location) | `outbox_message` rows: processed, retries, `claimed_until` | insert, claim a batch, publish, mark processed, count a retry | no transaction is open while publishing: only a lease excludes a second worker; crash between publish and mark; shutdown mid-batch | exclusive claims, no loss but by an unacknowledged publish, copies only through faults, progress |
| matching-service | Redis: ride hash, claim, cancelled flag, pending deadline, offers, online pool | request, broadcast round, accept, cancel, retry sweep, shift update | no transactions at all: each Redis command interleaves with HTTP requests, two consumers and several sweepers | one winner, all rounds before giving up, no stalled ride, every ride settles |
| matching-service: discovery | ratings of online drivers; positions in location-service | search, rank, select | the search is cut before it is filtered; ranking on two scales; a fallback | nobody is passed over for a worse choice |
| ride-service | ride row (requested, matched, in progress, completed, cancelled, failed), outbox | create, start, complete, cancel; match, fail and bill events | events of different topics overtake each other and HTTP commands | legal life cycle, no resurrection, events agree with rows |
| driver-service | driver status, ride counter, shifts, outbox | create and update a shift, ride accepted, cancelled, completed | late and reordered ride events; check-then-insert of shifts | bounded active shifts, status follows the current ride, rides counted once |
| location-service: tracking | Redis windows, track streams, presence index; DynamoDB archive; Postgres summaries | ingest, open and close windows, archive, summarize, evict | read-then-delete on keys of the next ride; openings that arrive after the end; archive cursor and crash | positions are private outside the ride, nothing is archived with a gap, one summary of the whole ride |
| location-service: pings and summaries | position hash | accept pings, simplify and encode a track | requests of one driver overlap between their read and their write; the hash keeps whole seconds; rounding; recursion | a position goes back only among overlapping requests; the line stays within the tolerance |
| location-service: websocket hub | one connection per ride and role, subscriptions, goroutines | register, unregister, deliver, close a ride, close all | subscription outside the lock; late cleanup; connections that arrive during shutdown | the newest connection is kept and served, all others end |
| auth-service | users, clients, refresh tokens | signup, login, refresh, logout | a refresh racing a logout; tokens that are equal | a login can be used as long as it should and no longer |
| process: `health`, `shutdown`, `cmd/main.go` | live, ready, workers, wait group | ping, exit, panic, signal, hooks, drain | the ticker, dying workers and main interleave | the probes tell the truth |
| HTTP handlers, lists | none | decode, check, answer; count and select a page | lost answers and retries; writes between pages | answers tell the caller what happened; walks miss nothing |
| `common/kafkaconsumer`, `dbexec` | none of their own | handle, commit, retry; transactions | at-least-once delivery | part of the modules that use them |
| contracts, observability, gateway, web client, e2e tests | none a property is about | | | not modelled |

Interactions: ride-service publishes `ride.requested` and `ride.cancelled`
through its outbox; matching-service consumes them and publishes `ride.accepted`
and `ride.matching_failed` directly; ride-, driver- and location-service consume
those; `ride.completed` reaches billing-, driver- and location-service;
driver-service's `shift.updated` feeds matching's pool of online drivers;
billing-service publishes `payment.completed` and `payment.failed`, which
ride-service consumes. Every topic is independent of the others, so events about
one ride may arrive in any order, and each may arrive again.

## Modules

| Module | Models | Theorems |
|---|---|---|
| `Settlement` | what billing promises about an invoice, in five actions | |
| `Billing` | `ChargeWorker`, the finalize commands, the Stripe webhook, invoices, ledger and outbox rows, the provider | `BillingProofs` |
| `Ledger` | the consumers and the finalizer that post legs to accounts | `LedgerProofs` |
| `Wallet` | payment methods of a client | `ServiceProofs` |
| `Outbox` | `outbox.Worker` over one table, with time | `OutboxProofs` |
| `Matching` | matching-service over Redis | `MatchingProofs` |
| `Discovery` | whom a round of offers goes to | `ServiceProofs` |
| `Topics` | the Kafka topics between ride- and driver-service: reordered and repeated messages | |
| `RideService` | ride-service: commands, consumers and the messages of a ride row | |
| `DriverService` | driver-service: status, ride counter, shifts | |
| `Dispatch` | the two services composed, with matching and billing as environment | `DispatchProofs` |
| `Tracking` | location-service: windows, track, archive, summary, presence | `TrackingProofs` |
| `Geo` | acceptance of pings, simplification and encoding of tracks, as operators | |
| `Track` | the overlapping uploads of one driver's pings; a summary of a track (uses `Geo`) | `ServiceProofs` |
| `Hub` | websocket hub, dispatcher and shutdown of location-service | `HubProofs` |
| `Sessions` | auth-service | `ServiceProofs` |
| `Process` | health checker, `GoSafe` and shutdown of the six processes | `ServiceProofs` |
| `Listing` | paged lists | `ServiceProofs` |
| `Api` | the handlers of the six services under a caller that retries | `ServiceProofs` |
| `MCBilling`, `MCBillingLive`, `MCOutbox`, `MCMatching`, `MCTracking`, `MCLive`, `MCHub`, `MCServices` | the instances TLC checks | |

### Billing

One database transaction is one step; a provider call and each statement outside
a transaction are steps of their own. `invoice`, `payment`, `ledger` and `outbox`
are the tables; `leased`, `intentSet` and `noMethod` the columns
`claimed_until`, `provider_payment_intent_id` and `payment_method_id` as far as
the code tests them; `next_attempt_at` is nil, due or later. `tasks` is the batch
a worker still has to resolve, `hooks` the webhook deliveries between two of
their statements. `ClaimBatch` is `claimBatch` with `claimOne` and `buildClaim`;
`Charge` and `ChargeTransportError` the two ways `charge` returns;
`FinalizeChargeSucceeded` and `FinalizeChargeFailed` the commands of the same
name, shared by worker and webhook; `WebhookDispatch` is `apply` and `dispatch`.
A worker may crash, and a statement may fail, between any two steps. Here a
posting is only counted; its legs and amounts are the subject of `Ledger`.

The provider is external: the first request with an idempotency key decides its
outcome, a later one with the same key replays the saved answer, a processing or
waiting intent settles at some time, and every outcome may also be reported by
webhook, any number of times and in any order until one delivery is acknowledged.

### Ledger

Two consumers, one per topic, and a finalizer open and settle invoices. A posting
is one transaction of several statements: `SelectAccount` and `InsertAccount` are
`getOrCreateAccount` for one leg, `CommitTx` the commit. An INSERT that meets an
uncommitted account of another transaction waits for it; if that one commits, the
unique violation aborts the loser's transaction, so the read-back in
`getOrCreateAccount` cannot succeed and the message is handled again. Amounts are
integers, the fee is rounded down as in `buildT1Legs`, and `Rates` lets the
commission change between T1 and T2. `RecordActuals` is the UPDATE that matches no
row when the summary overtakes the invoice. `Billing` and `Ledger` meet only in the
guarded updates of an invoice row, which both respect, so `MCBillingLive` runs one
of them in each behaviour.

### Wallet

`AddPaymentMethod` is cut into its reads, the call of the vault, the snapshot and
the row lock of `ClearDefault` (READ COMMITTED) and the INSERT with its commit;
`RemovePaymentMethod` into the read, the count of open invoices and the removal.
Invoices open and close beside them. A `setDefault` is silently ignored when the
card already exists, as in the code.

### Outbox

Rows are numbered by `created_at`, which is the start of the inserting
transaction, so they may become visible in another order. Time is counted in
ticks: a lease counts down, a publish or a statement ends within
`PublishTimeout` because its context does, and a tick waits for a worker whose
deadline has come. `ClaimSlack` is what a lease loses to formatting in whole
seconds and to the commit. Faults are crashes, failed statements, publishes
whose outcome the worker does not learn, and resends by the Kafka writer itself.

`kafkapublisher.New` leaves `RequiredAcks` at `RequireNone`, so in `PublishOk` a nil
answer may leave the topic as it was. `unstored`, a history variable, remembers the
rows this has happened to. That every processed row is in the topic is therefore false
(`outbox_unacked`); `LostOnlyUnacknowledged` says that nothing else loses an event. The
loss is modelled here only: `Dispatch`, `Matching`, `Tracking` and `Ledger` take it that
a published message reaches its topic, so what they say of an event's arrival holds for
events that were stored.

### Matching

One Redis command is one step; a handler's consecutive reads are one. `round`
holds the broadcast rounds in flight per caller (the consumer or a retry worker)
and ride, `accepting` and `cancelling` where the other handlers are. A handler
that returns an error and one that crashes stop at the same points and leave the
same keys; the consumer then handles its message again. The candidates of a
round are any set of online drivers without a live offer that were not offered
the ride before: radius, ranking and rate limit only make that set smaller.
`made` and `abandoned` are history variables for the properties.

### Discovery

A ride goes through its rounds over a fixed scene of drivers (distance, rating,
fresh or stale, busy). `FindNearbyDrivers` is GEOSEARCH with COUNT, cut before the
staleness filter; ties in distance come in any order. `RankCandidates` normalizes
distance and rating over the candidates and weighs them with integers
(`Score`); `TopOnlineDrivers` is the fallback when location-service fails. A sort is
the set of arrangements its order allows (`Orderings`): one for ZREVRANGE and for
SliceStable, any of the equally near for GEOSEARCH.
`Matching` leaves the choice open, so what it shows holds for this one.

### Dispatch

`Topics` declares the messages and what each consumer group has handled. A
message that was committed to an outbox may be handled at any later time, in any
order (publishers use no key, topics are independent), and again at the price of
a fault. `RideService` has one action per command and consumer: a command locks
the row, checks it and writes row and outbox message in one transaction, so it is
one step; a guarded update that matches no row still handles its message.
`DriverService` has one action per transaction. `CreateShift` is two statements
(`RequestShift`, `InsertShift`), and so is ending a shift, because
`PostgresShiftRepository.EndShift` runs on `r.db` and not on the transaction:
`EndShift` commits first, then `CommitEndShift` or `AbortEndShift` decides about
the rest. `serves` and `recounted` are history variables. `Dispatch` lets
matching answer a requested ride, with one driver whose shift it has heard of,
and billing report a payment for a ride that is to be paid for.

### Tracking

A step is one Redis command, one pipeline (executed without interruption by
Redis unless it is long) or one Postgres transaction. `consumer` holds where the
goroutine of each topic stands in its handler: `RecordRideRequested` and
`RecordRideAccepted` set a pending key, look for the other's and open the window;
the two enders read the participants, build the summary, read the window again and
delete its keys. An error sends a handler back to its start, an uncommitted offset
redelivers the message, `Expire` is the time to live of the keys. `track` is the
whole stream, `trimmed` what MAXLEN has dropped, `archivedId` the cursor. The
archive worker's sweep is cut ride by ride. The staleness worker lists and evicts
in two steps; `raced` remembers drivers who sent a position in between. `atEnd`,
`overtaken` and `raced` are history variables. A driver's batch stores only the
last ping it accepts, so `Ingest` records one position.

### Geo and Track

Coordinates are millionths of a degree, times ticks of half a second.
`RejectReason` has the code's checks in the code's order; `ByDeviceTs` is the
unstable sort of a batch, any arrangement of equal times; `IngestPings` compares
the batch with the position from the hash, which lost its fractions of a second.
Several requests of one driver are in flight (`uploading`): `ReadLastPosition` is
HGETALL, `ValidatePings` the loop, `UpsertPosition` the pipeline, and any of them may
run between two of another request. Nothing then keeps an older request from writing
last, as `ping.go:42` and section 5.5 of the location specification accept; TLC reaches such
states. `IngestKeepsOrder` says how far the position can fall: `latest` is the time of
the ping in the hash, `settled` what it was when no request was last in flight, and the
first stays less than a second behind the second. A request is in flight until its
write has been done or can no longer be. The hash expires (`PositionExpires`), which
forgets both.
`RdpRange`, `EncodeUnsigned`, `DecodeSigned` and the `Walk` of `DecodePolyline` are
recursive functions; `SummaryFaithful` compares them with a reference: the decoded line has the ends of
the track, its points are points of the track, and every dropped point is within
the tolerance of the infinite line, not the segment, through the kept points around it, as
in `perpendicularDistance`. The distances are exact along
meridians and parallels; the code's haversine and flat projection agree with them
at the size of the tracks that are checked.

### Hub

The hub's mutex and the dispatcher's are held for single assignments, so a step is
one critical section or one call on a socket or on Redis. `pc` is where the
goroutine of a connection stands, from the handshake to its deferred
`Unregister`. `manager` walks through `WaitForShutdown`. `late` remembers
connections that registered after the snapshot that should have closed them,
`disturbed` rides whose subscribe and unsubscribe overlapped or failed: these are
the two cases the code leaves open, and the properties leave them out.

There is one instance. Section 7.3 of the location specification designs for several; the
positions do reach all of them through Redis, but `CloseRide` closes only the sockets of the
instance whose consumer got the message of the ride's end. `SocketsReleased` holds
for a single instance and not for more.

### Sessions, Process, Listing, Api

`Sessions` cuts `Refresh` between the check of the row and the minting of the
token; a token is its user and second, since the JWT has no random part.
`Process` takes the workers of each service from its `cmd/main.go`; a worker may
return or panic at any time, and the ping of the checker is two steps.
`Listing` walks the pages of a list; equal sort values come in any order.
`Api` describes every handler by a record (required headers, checks in order,
status per error) and lets the caller send a request again after a lost answer or
a 5xx. The commands behind the handlers are the other modules; here they succeed,
fail, or fail after their effect. A resent batch of pings comes in two kinds: the position
keeps it out, or it passes again, because its last ping has a fraction of a second that
the hash has lost (`position_codec.go:19`), or because the position was overwritten or has
expired. So `CreateRide`, `Login` and `IngestPings` may have their effect twice.

## Runs

| Run | Shows |
|---|---|
| `billing_webhook` | one worker, which may crash once, against a webhook with all four outcomes and lost answers, two attempts: the safety properties and the refinement of `Settlement` |
| `billing_live` | two workers and up to two crashes or failed statements, a synchronous provider that answers every call: one attempt in flight, no double charge, every invoice closes. Three charges on two topics, a redelivery and a change of the commission: the books balance, every charge is invoiced |
| `billing_lossy` | violation: a lost answer is booked as a failure and the next attempt charges again under a new key |
| `outbox` | two workers, two rows (one always refused), batch of two, two faults, a shutdown: safety and progress |
| `outbox_unacked` | violation: a row is marked processed and its message is in no topic |
| `outbox_parked` | violation: a parked row fills the batch of one, and the row behind it is never sent |
| `matching` | one ride, two drivers, consumer and retry worker, two rounds, a cancellation, one fault |
| `matching_live` | one ride, one driver, two faults: every requested ride settles |
| `tracking` | one ride, two positions, a stream of one entry, one fault: privacy, summary, archive, presence |
| `live` | two machines that share no state. `Tracking`, two rides of the same driver and client: whose keys a closing takes, and every window closes. `Dispatch`, one ride, two shifts, overlapping shift requests, two faults: drivers are released, answers arrive |
| `hub` | two connections of the driver and one of the client: replacement, subscription, the end of the ride, shutdown |
| `services` | nine machines that share no state: pings, summaries, sessions, process, lists, discovery, wallet, API, and ride- and driver-service with two rides of one driver, reordered events, one repeated message or failed statement: rows, messages and the ride counter |

Bounds. Two attempts separate the first, the last and the exhausted one; a second
invoice shares nothing with the first but the batch (the proofs cover any number).
Two workers and two faults are the least with which a resumed claim can crash
again. Two rows and a batch of two give a poisoned head, a batch of one a head
that fills it, and `MaxRetries` leaves room for the faults the run spends. Two
uploads are the least that overlap, two seconds the least to fall back by one. Two
drivers are needed to race for a claim, two rounds for the retry worker to
broadcast, give up and be overtaken by a redelivered request; drivers are
interchangeable and form a symmetry set in the safety run. Two rides are the least
for a repeated message to meet the driver on another ride; two shifts and two
requests the least to open two shifts at once. Drivers and shifts of different
drivers share nothing in `Dispatch`, so one driver is enough there. A stream of
one entry with two positions is the least that overflows and leaves an archive
behind; a batch of one makes the archive take several rounds. Two rides are the
least for a closing to meet the keys of the next ride; since the positions of two
rides share nothing, `live` has none. Two connections of one role are needed to
supersede, one of the other role so that the ride stays occupied when one leaves.
In `Ledger` the amounts 1, 11 and the rate of 20% give a fee of zero, a rounded
one and a charge behind a blocked one. In `services`: two overlapping uploads of
two pings over two seconds of two ticks, tracks of up to four points on both sides
of the rounding, two logins over three seconds, one worker that dies, three rows
with one insert and one update over pages of zero, two and the default, three
drivers over three rounds, two overlapping requests with four calls, three tries
of a request.

`MCLive`, `MCBillingLive` and `MCServices` put machines without a common variable
side by side: one machine is chosen per behaviour and the others stand still in
one state, so each is checked as if it were alone and the product of their state
spaces stays out of the run. Deadlock checking is off because finished instances
really stop.

Fairness. Tickers fire for ever, so claiming, listing and the steps of a batch are
weakly fair, as are clocks (leases, back-off, deadlines, offers, the expiry of
keys); a stopped process is restarted by its orchestrator, and a Kafka consumer
retries until it commits. In `Ledger` a poster's step is strongly fair: a waiting
INSERT is woken when the transaction it waits for ends, before that one's retry
after the back-off. In `Hub` goroutines are scheduled and a closed socket is
noticed by its reader. Nothing is assumed of clients, drivers, the provider's
decisions, webhooks, crashes or faults, which are bounded.

Every property of a passing run has a mutant: an operator next to the mapped
definition that changes it the way a plausible bug would, with which TLC finds
the property violated.

Some properties leave out a case through a history variable: `PrivateOutsideRide`
(`overtaken`), `FreshIsIndexed` (`raced`), `SocketsReleased` and `DrainCompletes`
(`late`), `SubscriptionExplained` (`disturbed`), `CountedOnce` (`recounted`),
`KeysLostToAnotherRide` (any ride that is over), and `DriverReleased` speaks of ends still
to be handled. The code does go wrong in the case left out. They show that it goes
wrong in no other, and are no guard against that case; `PROJECT.json` says so at
the hazard.

## Where the code disagrees with its documents

`NoDoubleCharge` holds when workers crash (`billing_live`) and fails when an
answer is lost (`billing_lossy`): the idempotency key contains the attempt number,
and a transport error ends the attempt.

`ProcessedWasPublished` fails (`outbox_unacked`): the outbox is to publish "reliably"
(`README.md:35`), and its publisher does not wait for the broker
(`kafkapublisher.go:30`).

`EventuallySent` holds while a batch has room for a row that is not parked (`outbox`)
and fails when parked rows fill it (`outbox_parked`): they are still selected
(`outbox_postgres_repository.go:51`) and starve the rows behind them; `worker.go:18`
calls them "skipped".

Three more disagreements were found with properties that are kept in the modules
and that TLC refutes on instances as small as those of the runs:

* `Billing!NeverStranded` (with `Webhooks = TRUE`): the worker clears
  `next_attempt_at` after `MarkProcessing` in a statement of its own
  (`charge_worker.go:316`) and so erases the retry a failed-event webhook has just
  scheduled. The invoice stays open and is never selected again, although
  `README.md:97` promises a retry or `uncollectible`.
* `Matching!CancelWins`: an accept that passed its check of the cancelled flag
  (`accept_ride.go:75`) overwrites the cancellation, which `cancel_ride.go:40` says
  blocks any accept in flight.
* `Matching!OneRideAtATime` (two rides): the offer is cleared before the driver
  leaves the pool (`accept_ride.go:130`), so a second ride can be offered to and won
  by the same driver.

Others are visible in the modules and limit what the properties say:

* A webhook that overtakes the worker's own write of the intent id finds no row, is
  acknowledged and is not delivered again (`WebhookUnmatched`). With an asynchronous
  provider a payment can stay in processing for ever, as `PLAN.md` says of the
  missing poller; `EventuallyClosed` is stated for a synchronous one.
* A ride cancelled before ride-service has heard of its match is announced without
  a driver, and the driver whom `ride.accepted` made OnRide is never released; so is
  one whose `ride.accepted` is handled after the end of the ride. A driver who ends
  the shift during a ride is made Online by the ride's end, although a comment in
  `process_ride_cancelled.go` says such a driver "should stay Offline". A ride in
  the terminal state Failed (`README.md:44`) can still be cancelled.
* `PostgresShiftRepository.EndShift` does not run in `UpdateShift`'s transaction.
* A ledger leg of zero passes `ValidateLegs` and is refused by the table: the message
  is retried for ever and blocks its topic. `getOrCreateAccount`'s read-back after a
  unique violation runs in an aborted transaction. After a change of the commission
  `payment.completed` reports another split than T1 posted. Actuals are lost when
  the summary overtakes the invoice.
* `CloseWindow` deletes active-ride keys without looking which ride they name; a
  window opened beside or after its closing stays until it expires. `Trim` is never
  called, although `track.go:25` says it is.
* `MarkNotReady` runs after `server.Shutdown` has returned, so readiness does not
  flip "the moment shutdown begins" (`location-service/cmd/main.go:219`). `OnDrained`
  hooks also run when the wait ended by its timeout.
* Two logins of one user in one second share one refresh token and one logout ends
  both. A login succeeds although its refresh token could not be stored.
* Two overlapping requests that add a default card can end in a 500 for one of them.
  Driver-service answers 400 to every error, also after a change was committed. A
  short password at signup, a malformed id in a path and an unknown tariff are
  answered with 500.

## Proofs

`BillingProofs` (for every `Invoices`, `Clients`, `Workers`, `MaxAttempts` and
either kind of provider, from `BillingAssumption`). No safety property of
`Billing` is inductive alone: that the books follow the invoice needs that an
unresolved attempt belongs to an open invoice, which needs that it is the last
one. `BillingInv` conjoins `TypeOK`, `RowsExist` (tasks, events and hooks refer
to existing payment rows), `UnbilledHasNoPayment`, `OneAttemptInFlight`,
`LastAttemptOpen`, `BooksFollowInvoice`, `PaidByLastAttempt`, `AttemptBudget`,
`SuccessIsCaptured` (a reported success was captured) and `SucceededIsCaptured`.
The proof first reduces each of the two dozen actions to one of seven effects on
the tables (`NextIsDbStep`) and shows that each effect preserves the invariant.
`Finality` (the action property) and `Refinement` (the initial state maps to an
initial state, each effect to an action of `Settlement` or a stutter) use the
same seven effects.

`ChargedOnce` of the same module states `NoDoubleCharge` for a `Reliable`
provider: every call is answered (`~Lossy`) and none is answered
`requires_action`. The hypothesis is needed: the worker books a transport error as a
failed attempt, and may fail an attempt that waits for the customer, although the
intent can still be captured; the run `billing_lossy` shows the second charge that
follows a lost answer. `CaptureInv` says why nothing else goes wrong: a row booked
as failed has a canceled intent or no payment method (`FailedIsBarred`), what a
worker is about to do with a claimed row fits that row (`ClaimsSorted`), an answer
once given is final and no intent is both captured and canceled (`AnswersFinal`),
and only existing rows lack a payment method (`BareRowsExist`).

`LedgerProofs` (for all sequences of messages on the two topics, all amounts and all
commission rates, from `LedgerAssumption`: the topics share no charge, amounts and
rates are naturals). `LedgerBalances` is about sums over accounts, and
the sums are the library's folds. The first half shows what a fold over a finite
set computes: the induction is written as the choice of a smallest set on which the
claim fails (`MinimalSubset`), from which the fold is well defined
(`AddsExists`), independent of the order (`SumRemove`) and changed by a posting
exactly by its amount (`SumPost`, `SumTwo`, `SumThree`). The second half is
inductive: `LedgerInv` adds to the balance that an open transaction posts exactly
the legs of its own charge, at the rate in force, while that invoice is as the
transaction found it (`TxOK`), and that until the first redeployment every share that
was posted or told is the one of today's rate (`SharesKept`).

`OutboxProofs` (for every set of rows and workers, from `OutboxAssumption` and
`LeaseAssumption`: the lease less its slack exceeds two timeouts per row of a
batch; in the code 120 s against 10 rows of 5 s + 5 s). The key is `LeaseCovers`:
the lease of every claimed row exceeds `Owed(w)`, the ticks its worker may still
need for the whole batch. A tick lowers both, finishing a row lowers the debt by
that row's two calls, so a lease never expires under a live worker and a row
under a live lease is never selected: `Exclusion`. `CopiesOwed` accounts for each
copy by the row, by the worker about to mark it, or by a fault. `LossIsUnacknowledged`
needs that a worker about to mark a row had a nil answer for it (`MarkWasAnswered`).

`DispatchProofs` (for every set of rides and drivers, every finite set of shifts
and every number of faults, from `TopicsAssumption` and
`DriverServiceAssumption`). `EventsAgree` is not inductive: that a late
`ride.accepted` cannot disturb a ride that is over, and that a completed ride
names a driver, needs where `driver_id` comes from (`DriverFollowsStatus`,
`AcceptNamesDriver`), what a started ride may become (`StartedIsUnderWay`) and
what billing may have been paid for (`PaidIsOver`). `RideInv` conjoins these;
every step is first reduced to one of four effects on rows and topics
(`NextRideEffect`). `DriverInv` adds the driver's side, with `RideInv` for the
driver a message names, and bounds the active shifts by cardinality lemmas.
`CountedOnceAlways` needs `CountInv`: the counter of a driver never exceeds the
`ride.completed` messages that name the driver and were handled, plus those a fault
let be counted again.

`MatchingProofs` (for every set of rides, drivers and processes and every number of
rounds, from `MatchingAssumption`). Every Redis command is a step of its own, so the
invariant must say what a round in flight knows, however stale: `RoundInv` says that
the rounds before its own were made and that a decision to drop the ride was never
wrong; `RideInv` relates claim, hash, deadline and events of one ride. From them
`OneWinner`, `FailsAfterAllRounds` and `NeverUnarmed`.

`HubProofs` (for every set of connections and rides, from `HubAssumption`).
`SubscriptionExplained` speaks only of rides that nobody is subscribing or
unsubscribing; `RideSettled` says what becomes of the others, and makes it
inductive together with `NewestSocketKept`.

`TrackingProofs` (for every set of rides and subjects, stream length and number of
positions, from `TrackingAssumption`). The invariant has six layers, each resting
on the ones before and untouched by a step that leaves its variables alone:
`PresenceInv` (who is in the index), `MessageInv` (a handler's message is
uncommitted, a ride ends once), `WindowInv` (who owns the keys of a window),
`StreamInv` (what the stream holds was accepted), `SummaryInv` (what a summary has
read or will read), `ArchiveInv` (cursor, batch and archive).
They give `FreshIsIndexed`, `KeysLostToAnotherRide`, `PrivateOutsideRide`,
`SummarySound` and `NoArchiveGap`.

`ServiceProofs` treats the machines that share no state, each with its own
specification.

* `HealthHonest`, for every choice of the six services and any number of exits
  (`ProcessInv`: the wait group counts the workers that run); `SessionsSound`, for
  every set of users and tokens (`SessionsInv`: which token rows exist and which
  tokens callers hold); `WalletSound`, for every set of cards and calls (`WalletInv`:
  one default per client, the default is kept until it is removed, and what each
  overlapping call has read that still holds).
* `PagesComplete`, for any number of rows and any page sizes (`ListingAssumption`: the
  resources are the five of the code, sizes are integers). An offset counts places in
  an order that an insert shifts, so `ListingInv` speaks of the `Place` of a row, the
  number of rows up to it: a row not shown yet lies behind the offset
  (`NothingSkipped`), a row shown is still in the place it was shown at when inserts
  come last or not at all (`NothingMoved`), and the total is the length of the list when it
  was counted (`CountKept`).
* `AnswersHonest`, for every number of tries. Each of the 35 handler records is shown to
  be `WellFormed` (which statuses its errors give, and that a command which may not be
  repeated notices that it is done); from then on a handler is any well-formed record.
  `ApiInv` adds that after an effect the target is done and no check refuses the request
  for a lasting reason (`EffectMarked`).
* `IngestKeepsOrder`, for all pings, batches, limits and sets of overlapping requests
  (`TrackAssumption`: times and limits are naturals; two ticks a second). `RoundOK` is the
  invariant of the loop over a batch. `TrackInv` adds that the hash holds the second of the
  latest ping, and that whatever a request in flight has read lies not before the
  second of `settled` (`NotBefore`); what it accepted is later still, so its write lies
  not before that second either, however stale its reading (`UpsertKeeps`).
* `TargetsFair`, for all drivers, scenes, sizes and radii (`DiscoveryAssumption`:
  finitely many drivers, distances and ratings are naturals, the pool has a place). The
  argument follows a driver through the round: everybody left out by the cut has a full
  pool ahead (`CutPool`); the filters keep the order (`AmongLists`); a stable sort puts
  higher keys first (`RankedLists`), and who is nearer and rated no worse has the higher
  score, whatever the extremes of the candidates (`NearerScores`).

* `SummaryFaithful`, for all tracks of integer coordinates and natural tolerances
  (`TrackAssumption`). `SummaryInv` is only what was drawn; the work is in the operators.
  What `rdpRange` marks between two points covers the points between them (`Covered`, by
  the width of the stretch: `HalvesCover` when it is cut at the farthest point,
  `NearEnough` when it is not). The chunks of a number read back as that number wherever
  they stand in a code (`UnsignedReadsBack`, `SignedReadsBack`), since only its last chunk
  lacks bit 0x20 (`Closed`); so the code of a line `Spells` its numbers, the decoder
  finds every end (`EndsAre`), and the sums pass through the rounded points
  (`WalkPasses`). The numbers are mathematical integers: the coordinates `NewCoordinate`
  admits need 27 bits of the code's 64.

The loops of these modules are recursive functions. That such a function exists and what
it computes is shown by choosing the smallest argument for which the claim fails
(`LeastNat`, then `LoopExists` and `RoundKeeps`, `KeepsExists` and `KeptStep`), since the
library's induction theorems cannot be instantiated.

Only model-checked:

* the liveness properties (`EventuallyClosed`, `EventuallyInvoiced`,
  `EventuallySent`, `EventuallySettled`, `DriverReleased`, `AnswerArrives`,
  `EndedWindowCloses`, `SocketsReleased`, `DrainCompletes`): fairness is out of the
  prover's reach.

`BudgetKept`, `Finality`, `OnlyOverIsBilled`, `ShiftsStayBounded` and `CapKept` are
proved and not also checked by a run.

## Not modelled

* `UpdateDriver` and shift statuses other than Online and Ended: descriptive columns
  and a message without effect on the state modelled.
* Fares and their formula, addresses, time zones, brands and expiry dates of cards.
* In `Matching` the one-hour expiry of claims and offered sets; in `Tracking` the
  24-hour expiry of the stream and two positions of one subject in the same
  millisecond, which share a key in the archive.
* Messages that cannot be decoded, the length of back-offs, row locks inside one
  transaction except in `Ledger` and `Wallet`, and so deadlocks that Postgres resolves.
* The Stripe adapter, the map-matching service, the vault and Kafka itself: external,
  modelled from how the code uses them.
* Tracing, metrics, contracts and configuration parsing; the Kong gateway, the web
  client and the end-to-end test driver, which are not part of the system's logic.

## Plan

1. Done: collection, outbox, matching and dispatch with their runs; `BillingProofs`,
   `OutboxProofs`, `DispatchProofs`.
2. Done: `Tracking`, `Hub`, `Geo` and `Track`, `Ledger`, `Wallet`, `Discovery`,
   `Sessions`, `Process`, `Listing`, `Api` with their runs.
3. Done: `MatchingProofs`, `HubProofs`, `TrackingProofs`, `ServiceProofs`,
   `LedgerProofs`, and the theorems on `NoDoubleCharge` and `CountedOnce`.
4. Done: `AnswersHonest`, `PagesComplete`, `IngestKeepsOrder`, `TargetsFair` and
   `SummaryFaithful`, with the smallest-counterexample induction of `LedgerProofs`. Every
   invariant and action property of a run is now stated by a theorem.
5. An abstract life cycle of a ride that `Dispatch` implements.
