------------------------------ MODULE Tracking ------------------------------
(***************************************************************************)
(* The tracking windows of location-service: Redis keys that say who may   *)
(* see whom while a ride runs, the stream of positions recorded in that    *)
(* time, its archive in DynamoDB and its summary in Postgres.              *)
(*                                                                         *)
(* Four consumers, one goroutine per topic, open and close a window; the   *)
(* topics are not ordered among each other and every message is handled at *)
(* least once.  They race the ingest of positions and the archive worker.  *)
(* A step is one Redis command, one Redis pipeline (a short pipeline       *)
(* is executed without interruption) or one Postgres transaction.          *)
(***************************************************************************)
EXTENDS Integers, Sequences, FiniteSets

CONSTANTS
  Rides,
  Drivers,
  Clients,
  DriverOf,    \* the driver matching assigns to a ride
  ClientOf,    \* the client who requests it
  None,        \* no ride: an absent activeRide key
  StreamCap,   \* trackStreamMaxLen
  Batch,       \* LOCATION_ARCHIVE_BATCH
  MaxPings,    \* bound on the positions that are accepted
  MaxFaults    \* bound on crashes, failed commands and uncommitted offsets

ASSUME TrackingAssumption ==
  /\ DriverOf \in [Rides -> Drivers]
  /\ ClientOf \in [Rides -> Clients]
  /\ Drivers \cap Clients = {}
  /\ None \notin Rides
  /\ StreamCap \in Nat \ {0} /\ Batch \in Nat \ {0}
  /\ MaxPings \in Nat /\ MaxFaults \in Nat

VARIABLES
  phase,         \* what ride- and matching-service have made of a ride
  queue,         \* messages whose offset location-service has not committed
  consumer,      \* the handler each topic's goroutine is in
  pendingClient, \* rides with a pending_client key
  pendingDriver, \* rides with a pending_driver key
  participants,  \* rides with a participants hash: the open windows
  activeRide,    \* the activeRide key of every driver and client
  activeIndex,   \* loc:tracking:active
  track,         \* every position ever appended for a ride, by whose it was
  trimmed,       \* how many of them the stream's MAXLEN has dropped
  archivedId,    \* the archive cursor of a ride
  history,       \* archived positions: ride and stream id
  archiver,      \* the archive worker
  ingest,        \* the ride an ingest has read and not yet appended to
  owners,        \* drivers whose user shift.updated has made known
  pings,         \* how many positions have been accepted
  indexed,       \* drivers in loc:drivers:geo and loc:drivers:lastseen
  fresh,         \* drivers whose last position is younger than the threshold
  stale,         \* what the staleness worker has listed and not yet evicted
  summary,       \* location.ride_summary
  ready,         \* ride.summary.ready rows in the outbox
  atEnd,         \* history: the driver's positions when the end was first handled
  overtaken,     \* history: rides whose opening ran beside or after their closing
  raced,         \* history: drivers whose last position arrived while they were listed
  faults

window == <<pendingClient, pendingDriver, participants, activeRide, activeIndex>>
records == <<track, trimmed, archivedId, history>>
presence == <<owners, pings, indexed, fresh, stale, raced>>
ghosts == <<atEnd, overtaken>>
vars == <<phase, queue, consumer, window, records, archiver, ingest, presence, summary, ready,
          ghosts, faults>>

Subjects == Drivers \cup Clients

Topics == {"ride.requested", "ride.accepted", "ride.completed", "ride.cancelled"}

Openers == {"ride.requested", "ride.accepted"}

Message == [topic : Topics, ride : Rides, matched : BOOLEAN]

Msg(topic, r, matched) == [topic |-> topic, ride |-> r, matched |-> matched]

\* A goroutine between two messages; "found" is what CloseWindow has read.
Idle == [pc |-> "idle", ride |-> None, matched |-> FALSE, found |-> FALSE]

Resting == [pc |-> "rest", ride |-> None, found |-> {}]

NoSummary == [built |-> FALSE, points |-> {}]

Init ==
  /\ phase = [r \in Rides |-> "new"]
  /\ queue = {}
  /\ consumer = [t \in Topics |-> Idle]
  /\ pendingClient = {} /\ pendingDriver = {} /\ participants = {}
  /\ activeRide = [s \in Subjects |-> None]
  /\ activeIndex = {}
  /\ track = [r \in Rides |-> << >>]
  /\ trimmed = [r \in Rides |-> 0]
  /\ archivedId = [r \in Rides |-> 0]
  /\ history = {}
  /\ archiver = Resting
  /\ ingest = [s \in Subjects |-> None]
  /\ owners = {} /\ pings = 0 /\ indexed = {} /\ fresh = {} /\ stale = {} /\ raced = {}
  /\ summary = [r \in Rides |-> NoSummary]
  /\ ready = [r \in Rides |-> 0]
  /\ atEnd = [r \in Rides |-> {}]
  /\ overtaken = {}
  /\ faults = 0

Fault == faults < MaxFaults /\ faults' = faults + 1

---------------------------------------------------------------------------
(* The other services *)

Publish(m) ==
  /\ queue' = queue \cup {m}
  /\ UNCHANGED <<consumer, window, records, archiver, ingest, presence, summary, ready, ghosts, faults>>

Request(r) ==
  /\ phase[r] = "new"
  /\ phase' = [phase EXCEPT ![r] = "requested"]
  /\ Publish(Msg("ride.requested", r, FALSE))

\* A driver serves one ride at a time.
Accept(r) ==
  /\ phase[r] = "requested"
  /\ \A q \in Rides \ {r} : DriverOf[q] = DriverOf[r] => phase[q] # "accepted"
  /\ phase' = [phase EXCEPT ![r] = "accepted"]
  /\ Publish(Msg("ride.accepted", r, TRUE))

\* ride.completed and ride.cancelled of a matched ride name its driver; a ride may be
\* cancelled before ride-service has heard of the match.
End(r) ==
  /\ \/ phase[r] = "accepted" /\ \E t \in Topics \ Openers : Publish(Msg(t, r, TRUE))
     \/ phase[r] \in {"requested", "accepted"} /\ Publish(Msg("ride.cancelled", r, FALSE))
  /\ phase' = [phase EXCEPT ![r] = "over"]

---------------------------------------------------------------------------
(* The consumers.  Start takes up a message, or the same one again after an   *)
(* error; Step moves on in the handler; Commit ends it and commits the offset. *)

Local(t, rec) == consumer' = [consumer EXCEPT ![t] = rec]

Step(t, pc) ==
  /\ Local(t, [consumer[t] EXCEPT !.pc = pc])
  /\ UNCHANGED queue

\* A failed commit is only logged: the message comes again after a restart.
Commit(t) ==
  /\ Local(t, Idle)
  /\ \/ /\ queue' = queue \ {Msg(t, consumer[t].ride, consumer[t].matched)}
        /\ UNCHANGED faults
     \/ Fault /\ UNCHANGED queue

At(t, pc) == consumer[t].pc = pc

Start(t, m, pc) ==
  /\ m \in queue /\ m.topic = t
  /\ \/ At(t, "idle")
     \/ At(t, "retry") /\ consumer[t].ride = m.ride
  /\ Local(t, [Idle EXCEPT !.pc = pc, !.ride = m.ride, !.matched = m.matched])
  /\ UNCHANGED queue

\* The ride's end is being handled or has been.
Ended(r) ==
  \/ \E t \in Topics \ Openers : consumer[t].ride = r
  \/ phase[r] = "over" /\ \A m \in queue : m.ride = r => m.topic \in Openers

\* History: an opener of a ride whose end was or is being handled.
Overtake(r) == overtaken' = IF Ended(r) THEN overtaken \cup {r} ELSE overtaken

\* SET the own half; GetPending then looks for the other one.
RecordRideRequested(m) ==
  /\ Start("ride.requested", m, "get")
  /\ pendingClient' = pendingClient \cup {m.ride}
  /\ Overtake(m.ride)
  /\ UNCHANGED <<phase, pendingDriver, participants, activeRide, activeIndex, records, archiver, ingest,
                 presence, summary, ready, atEnd, faults>>

RecordRideAccepted(m) ==
  /\ Start("ride.accepted", m, "get")
  /\ pendingDriver' = pendingDriver \cup {m.ride}
  /\ Overtake(m.ride)
  /\ UNCHANGED <<phase, pendingClient, participants, activeRide, activeIndex, records, archiver, ingest,
                 presence, summary, ready, atEnd, faults>>

OtherHalf(t) == IF t = "ride.requested" THEN pendingDriver ELSE pendingClient

GetPending(t) ==
  /\ t \in Openers /\ At(t, "get")
  /\ IF consumer[t].ride \in OtherHalf(t)
       THEN Step(t, "open") /\ UNCHANGED faults
       ELSE Commit(t)
  /\ UNCHANGED <<phase, window, records, archiver, ingest, presence, summary, ready, ghosts>>

CompleteWindow(r) ==
  /\ participants' = participants \cup {r}
  /\ activeRide' = [activeRide EXCEPT ![DriverOf[r]] = r, ![ClientOf[r]] = r]
  /\ activeIndex' = activeIndex \cup {r}
  /\ pendingClient' = pendingClient \ {r}
  /\ pendingDriver' = pendingDriver \ {r}

OpenWindow(t) ==
  /\ t \in Openers /\ At(t, "open")
  /\ CompleteWindow(consumer[t].ride)
  /\ Commit(t)
  /\ UNCHANGED <<phase, records, archiver, ingest, presence, summary, ready, ghosts>>

---------------------------------------------------------------------------
(* The end of a ride: BuildRideSummary, CloseTrackingWindow, CloseRide *)

Enders == Topics \ Openers

\* Stream ids of ride r that XRANGE still returns after id a.
Entries(r, a) == {i \in 1..Len(track[r]) : i > a /\ i > trimmed[r]}

ByDriver(r, ids) == {i \in ids : track[r][i] = "Driver"}

\* A pre-match cancellation skips the summary; so does a ride without a window.
ReadParticipants(t, m) ==
  LET r == m.ride
      tracked == m.matched /\ r \in participants IN
  /\ t \in Enders
  /\ Start(t, m, IF tracked THEN "range" ELSE "close")
  /\ atEnd' = IF tracked /\ ~summary[r].built
                THEN [atEnd EXCEPT ![r] = ByDriver(r, Entries(r, 0))] ELSE atEnd
  /\ UNCHANGED <<phase, window, records, archiver, ingest, presence, summary, ready, overtaken, faults>>

\* The driver's own positions, or everything if the driver never sent one.
DriverPositions(r, seen) == IF ByDriver(r, seen) # {} THEN ByDriver(r, seen) ELSE seen

\* Mutant of InsertSummary: only what the archive worker has not taken is read.
InsertSummarySinceCursor(t) ==
  LET r == consumer[t].ride
      seen == Entries(r, archivedId[r]) IN
  /\ t \in Enders /\ At(t, "range")
  /\ IF seen = {} \/ summary[r].built
       THEN UNCHANGED <<summary, ready>>
       ELSE /\ summary' = [summary EXCEPT ![r] =
                  [built |-> TRUE, points |-> DriverPositions(r, seen)]]
            /\ ready' = [ready EXCEPT ![r] = @ + 1]
  /\ Step(t, "close")
  /\ UNCHANGED <<phase, window, records, archiver, ingest, presence, ghosts, faults>>

\* The stream is read and one transaction inserts the summary, ON CONFLICT DO NOTHING,
\* and the outbox row only if it inserted.  What is appended between is in neither.
InsertSummary(t) ==
  LET r == consumer[t].ride
      seen == Entries(r, 0) IN
  /\ t \in Enders /\ At(t, "range")
  /\ IF seen = {} \/ summary[r].built
       THEN UNCHANGED <<summary, ready>>
       ELSE /\ summary' = [summary EXCEPT ![r] =
                  [built |-> TRUE, points |-> DriverPositions(r, seen)]]
            /\ ready' = [ready EXCEPT ![r] = @ + 1]
  /\ Step(t, "close")
  /\ UNCHANGED <<phase, window, records, archiver, ingest, presence, ghosts, faults>>

\* CloseWindow reads the participants and then deletes, whatever has happened between.
ReadWindow(t) ==
  LET r == consumer[t].ride IN
  /\ t \in Enders /\ At(t, "close")
  /\ Local(t, [consumer[t] EXCEPT !.pc = "delete", !.found = r \in participants])
  /\ overtaken' = IF \E o \in Openers : consumer[o].ride = r THEN overtaken \cup {r} ELSE overtaken
  /\ UNCHANGED <<phase, queue, window, records, archiver, ingest, presence, summary, ready, atEnd, faults>>

\* Mutant of CloseWindow: the client's activeRide key is forgotten.
CloseWindowKeepsClientKey(r, found) ==
  /\ participants' = participants \ {r}
  /\ pendingClient' = pendingClient \ {r}
  /\ pendingDriver' = pendingDriver \ {r}
  /\ activeRide' = IF found THEN [activeRide EXCEPT ![DriverOf[r]] = None] ELSE activeRide
  /\ activeIndex' = activeIndex \ {r}

\* Mutant of CloseWindow: the participants hash is forgotten.
CloseWindowKeepsParticipants(r, found) ==
  /\ pendingClient' = pendingClient \ {r}
  /\ pendingDriver' = pendingDriver \ {r}
  /\ activeRide' = IF found
       THEN [activeRide EXCEPT ![DriverOf[r]] = None, ![ClientOf[r]] = None]
       ELSE activeRide
  /\ activeIndex' = activeIndex \ {r}
  /\ UNCHANGED participants

CloseWindow(r, found) ==
  /\ participants' = participants \ {r}
  /\ pendingClient' = pendingClient \ {r}
  /\ pendingDriver' = pendingDriver \ {r}
  /\ activeRide' = IF found
       THEN [activeRide EXCEPT ![DriverOf[r]] = None, ![ClientOf[r]] = None]
       ELSE activeRide
  /\ activeIndex' = activeIndex \ {r}

DeleteWindow(t) ==
  /\ t \in Enders /\ At(t, "delete")
  /\ CloseWindow(consumer[t].ride, consumer[t].found)
  /\ Commit(t)
  /\ UNCHANGED <<phase, records, archiver, ingest, presence, summary, ready, ghosts>>

\* An error sends the handler back to its first statement, with the same message.
HandlerError(t) ==
  /\ consumer[t].pc \notin {"idle", "retry"}
  /\ Fault
  /\ Local(t, [consumer[t] EXCEPT !.pc = "retry", !.found = FALSE])
  /\ UNCHANGED <<phase, queue, window, records, archiver, ingest, presence, summary, ready, ghosts>>

---------------------------------------------------------------------------
(* Ingest: an accepted position is stored, and recorded for the ride one is on *)

Role(s) == IF s \in Drivers THEN "Driver" ELSE "Client"

ReadActiveRide(s) ==
  /\ ingest[s] = None
  /\ pings < MaxPings /\ pings' = pings + 1
  /\ ingest' = [ingest EXCEPT ![s] = activeRide[s]]

\* shift.updated names the user of a driver; the two keys live for a week.
UpsertOwner(d) ==
  /\ d \notin owners
  /\ owners' = owners \cup {d}
  /\ UNCHANGED <<phase, queue, consumer, window, records, archiver, ingest, pings, indexed, fresh, stale,
                 raced, summary, ready, ghosts, faults>>

\* IngestPings refuses a user without a driver; then geo index, lastseen and hash in one pipeline, then publishIfTracked.
DriverPing(d) ==
  /\ d \in owners
  /\ ReadActiveRide(d)
  /\ indexed' = indexed \cup {d}
  /\ fresh' = fresh \cup {d}
  /\ raced' = IF d \in stale THEN raced \cup {d} ELSE raced \ {d}
  /\ UNCHANGED <<phase, queue, consumer, window, records, archiver, owners, stale, summary, ready, ghosts, faults>>

\* IngestClientPing refuses a client without an open ride.
ClientPing(c) ==
  /\ activeRide[c] # None
  /\ ReadActiveRide(c)
  /\ UNCHANGED <<phase, queue, consumer, window, records, archiver, owners, indexed, fresh, stale,
                 raced, summary, ready, ghosts, faults>>

\* XADD with an approximate MAXLEN: at least StreamCap entries stay.
AppendPosition(s) ==
  LET r == ingest[s]
      surplus == Len(track[r]) + 1 - StreamCap IN
  /\ r # None
  /\ track' = [track EXCEPT ![r] = @ \o <<Role(s)>>]
  /\ \E n \in trimmed[r]..(IF surplus > trimmed[r] THEN surplus ELSE trimmed[r]) :
       trimmed' = [trimmed EXCEPT ![r] = n]
  /\ ingest' = [ingest EXCEPT ![s] = None]
  /\ UNCHANGED <<phase, queue, consumer, window, archivedId, history, archiver, presence, summary, ready,
                 ghosts, faults>>

\* A failed append is logged and the position is not recorded.
AppendFails(s) ==
  /\ ingest[s] # None
  /\ Fault
  /\ ingest' = [ingest EXCEPT ![s] = None]
  /\ UNCHANGED <<phase, queue, consumer, window, records, archiver, presence, summary, ready, ghosts>>

---------------------------------------------------------------------------
(* The staleness worker *)

\* The threshold passes without another position.
Age(d) ==
  /\ d \in fresh
  /\ fresh' = fresh \ {d}
  /\ UNCHANGED <<phase, queue, consumer, window, records, archiver, ingest, owners, pings, indexed, stale, raced,
                 summary, ready, ghosts, faults>>

\* Mutant of StaleDriverIDs: everybody in lastseen is listed.
AllDriverIDs ==
  /\ stale = {} /\ indexed # {}
  /\ stale' = indexed
  /\ UNCHANGED <<phase, queue, consumer, window, records, archiver, ingest, owners, pings, indexed, fresh, raced,
                 summary, ready, ghosts, faults>>

StaleDriverIDs ==
  /\ stale = {} /\ indexed \ fresh # {}
  /\ stale' = indexed \ fresh
  /\ UNCHANGED <<phase, queue, consumer, window, records, archiver, ingest, owners, pings, indexed, fresh, raced,
                 summary, ready, ghosts, faults>>

Evict ==
  /\ stale # {}
  /\ indexed' = indexed \ stale
  /\ stale' = {}
  /\ UNCHANGED <<phase, queue, consumer, window, records, archiver, ingest, owners, pings, fresh, raced,
                 summary, ready, ghosts, faults>>

\* A failed eviction leaves the drivers for the next sweep.
EvictFails ==
  /\ stale # {} /\ Fault
  /\ stale' = {}
  /\ UNCHANGED <<phase, queue, consumer, window, records, archiver, ingest, owners, pings, indexed, fresh, raced,
                 summary, ready, ghosts>>

---------------------------------------------------------------------------
(* The archive worker *)

\* The oldest entries behind the cursor, at most a batch of them.
OldestBatch(ids) ==
  {i \in ids : Cardinality({j \in ids : j < i}) < Batch}

Latest(ids) == CHOOSE i \in ids : \A j \in ids : j <= i

\* A sweep lists the active rides and takes them one by one; a ride whose window has
\* closed since, or with nothing behind its cursor, is skipped.
ReadBehindCursor(r) ==
  LET found == OldestBatch(Entries(r, archivedId[r])) IN
  /\ archiver.pc = "rest" /\ r \in activeIndex \cap participants
  /\ found # {}
  /\ archiver' = [pc |-> "put", ride |-> r, found |-> found]
  /\ UNCHANGED <<phase, queue, consumer, window, records, ingest, presence, summary, ready, ghosts, faults>>

\* Items are keyed by subject and time: writing one again changes nothing.
PutBatch ==
  /\ archiver.pc = "put"
  /\ history' = history \cup {archiver.ride} \X archiver.found
  /\ archiver' = [archiver EXCEPT !.pc = "cursor"]
  /\ UNCHANGED <<phase, queue, consumer, window, track, trimmed, archivedId, ingest, presence, summary,
                 ready, ghosts, faults>>

\* Mutant of PutBatchFails: the error is swallowed and the cursor moves on.
PutBatchFailsSilently ==
  /\ archiver.pc = "put"
  /\ Fault
  /\ \E done \in SUBSET archiver.found : history' = history \cup {archiver.ride} \X done
  /\ archiver' = [archiver EXCEPT !.pc = "cursor"]
  /\ UNCHANGED <<phase, queue, consumer, window, track, trimmed, archivedId, ingest, presence, summary,
                 ready, ghosts>>

\* Items may stay unprocessed after the retry; the others are written.
PutBatchFails ==
  /\ archiver.pc = "put"
  /\ Fault
  /\ \E done \in SUBSET archiver.found : history' = history \cup {archiver.ride} \X done
  /\ archiver' = Resting
  /\ UNCHANGED <<phase, queue, consumer, window, track, trimmed, archivedId, ingest, presence, summary,
                 ready, ghosts>>

SetCursor ==
  /\ archiver.pc = "cursor"
  /\ \/ archivedId' = [archivedId EXCEPT ![archiver.ride] = Latest(archiver.found)] /\ UNCHANGED faults
     \/ Fault /\ UNCHANGED archivedId
  /\ archiver' = Resting
  /\ UNCHANGED <<phase, queue, consumer, window, track, trimmed, history, ingest, presence, summary, ready,
                 ghosts>>

---------------------------------------------------------------------------

\* The process dies and is restarted; what it had not committed is fetched again.
Crash ==
  /\ Fault
  /\ consumer' = [t \in Topics |-> Idle]
  /\ ingest' = [s \in Subjects |-> None]
  /\ archiver' = Resting
  /\ stale' = {}
  /\ UNCHANGED <<phase, queue, window, records, owners, pings, indexed, fresh, raced, summary, ready, ghosts>>

\* Nothing of ride r is on its way any more.
Quiet(r) ==
  /\ phase[r] = "over"
  /\ \A m \in queue : m.ride # r
  /\ \A t \in Topics : consumer[t].ride # r

\* Mutant of Expire: the activeRide keys have no TTL.
ExpireParticipantsOnly(r) ==
  /\ Quiet(r)
  /\ r \in participants \cup pendingClient \cup pendingDriver
  /\ participants' = participants \ {r}
  /\ pendingClient' = pendingClient \ {r}
  /\ pendingDriver' = pendingDriver \ {r}
  /\ UNCHANGED <<phase, queue, consumer, activeRide, activeIndex, records, archiver, ingest, presence,
                 summary, ready, ghosts, faults>>

\* The keys of a window that was never closed expire; the index has no TTL.
Expire(r) ==
  /\ Quiet(r)
  /\ r \in participants \cup pendingClient \cup pendingDriver \/ \E s \in Subjects : activeRide[s] = r
  /\ participants' = participants \ {r}
  /\ pendingClient' = pendingClient \ {r}
  /\ pendingDriver' = pendingDriver \ {r}
  /\ activeRide' = [s \in Subjects |-> IF activeRide[s] = r THEN None ELSE activeRide[s]]
  /\ UNCHANGED <<phase, queue, consumer, activeIndex, records, archiver, ingest, presence, summary, ready,
                 ghosts, faults>>

\* The steps of each handler; its first one takes up a message.
RideRequestedConsumer ==
  \/ \E m \in queue : RecordRideRequested(m)
  \/ GetPending("ride.requested") \/ OpenWindow("ride.requested")

RideAcceptedConsumer ==
  \/ \E m \in queue : RecordRideAccepted(m)
  \/ GetPending("ride.accepted") \/ OpenWindow("ride.accepted")

\* BuildRideSummary, then CloseTrackingWindow, then CloseRide (Hub.tla).
RideCompletedConsumer ==
  \/ \E m \in queue : ReadParticipants("ride.completed", m)
  \/ InsertSummary("ride.completed") \/ ReadWindow("ride.completed") \/ DeleteWindow("ride.completed")

RideCancelledConsumer ==
  \/ \E m \in queue : ReadParticipants("ride.cancelled", m)
  \/ InsertSummary("ride.cancelled") \/ ReadWindow("ride.cancelled") \/ DeleteWindow("ride.cancelled")

ShiftUpdatedConsumer == \E d \in Drivers : UpsertOwner(d)

Consume ==
  \/ RideRequestedConsumer \/ RideAcceptedConsumer
  \/ RideCompletedConsumer \/ RideCancelledConsumer

Archive ==
  \/ \E r \in Rides : ReadBehindCursor(r)
  \/ PutBatch \/ PutBatchFails \/ SetCursor

Next ==
  \/ \E r \in Rides : Request(r) \/ Accept(r) \/ End(r) \/ Expire(r)
  \/ Consume \/ ShiftUpdatedConsumer
  \/ \E t \in Topics : HandlerError(t)
  \/ \E s \in Subjects : AppendPosition(s) \/ AppendFails(s)
  \/ \E d \in Drivers : DriverPing(d) \/ Age(d)
  \/ \E c \in Clients : ClientPing(c)
  \/ StaleDriverIDs \/ Evict \/ EvictFails
  \/ Archive
  \/ Crash

Spec == Init /\ [][Next]_vars

\* The consumers run for ever and Redis expires keys.
Fairness ==
  /\ WF_vars(RideRequestedConsumer) /\ WF_vars(RideAcceptedConsumer)
  /\ WF_vars(RideCompletedConsumer) /\ WF_vars(RideCancelledConsumer)
  /\ \A r \in Rides : WF_vars(Expire(r))

---------------------------------------------------------------------------
(* Queries *)

\* GetCounterpartyPosition: whose position s is shown for ride r, None if refused.
Counterparty(r, s) ==
  IF r \notin participants THEN None
  ELSE IF s = ClientOf[r] THEN DriverOf[r]
  ELSE IF s = DriverOf[r] /\ s \in owners THEN ClientOf[r]
  ELSE None

\* ListLivePositions: the rides whose client is on the fleet map.
LiveRides == activeIndex \cap participants

---------------------------------------------------------------------------
(* Properties *)

\* Every variable has its type.
TypeOK ==
  /\ phase \in [Rides -> {"new", "requested", "accepted", "over"}]
  /\ queue \subseteq Message
  /\ \A t \in Topics :
       /\ consumer[t].pc \in {"idle", "retry", "get", "open", "range", "close", "delete"}
       /\ consumer[t].ride \in Rides \cup {None}
       /\ consumer[t].ride = None <=> consumer[t].pc = "idle"
  /\ participants \cup pendingClient \cup pendingDriver \cup activeIndex \subseteq Rides
  /\ activeRide \in [Subjects -> Rides \cup {None}]
  /\ ingest \in [Subjects -> Rides \cup {None}]
  /\ \A r \in Rides :
       /\ track[r] \in Seq({"Driver", "Client"}) /\ Len(track[r]) <= MaxPings
       /\ trimmed[r] \in 0..Len(track[r])
       /\ archivedId[r] \in 0..Len(track[r])
       /\ summary[r].points \cup atEnd[r] \subseteq 1..Len(track[r])
  /\ pings \in 0..MaxPings
  /\ archiver.pc \in {"rest", "put", "cursor"}
  /\ overtaken \subseteq Rides
  /\ owners \cup indexed \cup fresh \cup stale \cup raced \subseteq Drivers
  /\ faults \in 0..MaxFaults

\* Nobody sees anybody before the match, and once the end of a ride has been handled
\* nobody does any more: no counterparty, no place on the fleet map, no activeRide key
\* that would admit a websocket or record a position.  The exception is a ride whose
\* requested or accepted message was handled beside or after its end.
PrivateOutsideRide ==
  \A r \in Rides :
    /\ (\E s \in Subjects : Counterparty(r, s) # None \/ activeRide[s] = r)
         => phase[r] \in {"accepted", "over"}
    /\ Quiet(r) /\ r \notin overtaken
         => /\ \A s \in Subjects : Counterparty(r, s) = None /\ activeRide[s] # r
            /\ r \notin LiveRides

\* An open window loses its activeRide keys, and with them the recording of positions,
\* only to another ride of the same driver or client: one whose window was opened later,
\* or one that is over, since CloseWindow deletes the keys whatever ride they name.
KeysLostToAnotherRide ==
  \A r \in participants, s \in Subjects :
    /\ s \in {DriverOf[r], ClientOf[r]}
    /\ activeRide[s] # r
    => \E q \in Rides \ {r} :
         /\ s \in {DriverOf[q], ClientOf[q]}
         /\ activeRide[s] = q \/ phase[q] = "over"

\* Whatever is redelivered, retried or interrupted, a ride has one summary and one
\* ride.summary.ready message, or neither.
SummaryPublishedOnce ==
  \A r \in Rides : ready[r] = (IF summary[r].built THEN 1 ELSE 0)

\* Once the end of a ride has been handled, its summary holds every position of the
\* driver that was on record when the handling began, except those MAXLEN has dropped.
SummaryCoversRide ==
  \A r \in Rides :
    Quiet(r) /\ atEnd[r] # {}
      => /\ summary[r].built
         /\ \A i \in atEnd[r] \ summary[r].points : i <= trimmed[r]

\* The fare's distance and the rider's map rest on the two together: one summary, announced
\* once, of the whole ride.
SummarySound == SummaryPublishedOnce /\ SummaryCoversRide

\* Everything up to the archive cursor is in the history, unless the stream dropped it
\* before it was read: crashes and partial batches move the cursor over nothing.
NoArchiveGap ==
  \A r \in Rides : \A i \in 1..archivedId[r] : <<r, i>> \in history \/ i <= trimmed[r]

\* A driver whose last position is younger than the threshold is in the geo index, where
\* matching looks for candidates, unless that position arrived between the two
\* statements of a staleness sweep.
FreshIsIndexed == fresh \ raced \subseteq indexed

\* A ride that is over does not keep its window for ever, even when it was opened
\* after the end was handled: then the keys' time to live is what ends it.
EndedWindowCloses ==
  \A r \in Rides :
    phase[r] = "over" ~> (r \notin participants /\ \A s \in Subjects : activeRide[s] # r)

=============================================================================
