--------------------------- MODULE TrackingProofs ---------------------------
(***************************************************************************)
(* What the tracking windows, the archive and the summaries of             *)
(* location-service keep, for any number of rides, drivers, clients,       *)
(* positions and failures, and any order of the four topics.               *)
(*                                                                         *)
(* The invariant is built in layers, each on the ones before it: presence, *)
(* messages and handlers, windows, streams, summaries, archive.  A layer   *)
(* speaks of a few variables, and a step that leaves them alone keeps it.  *)
(***************************************************************************)
EXTENDS Tracking, FiniteSetTheorems, WellFoundedInduction, TLAPS

-----------------------------------------------------------------------------
(* Definitions of the layers.                                              *)

\* A listed driver who is fresh has been raced by a position.
PresenceInv ==
  /\ stale \cap fresh \subseteq raced
  /\ FreshIsIndexed

Phases == {"new", "requested", "accepted", "over"}
Matched == {"accepted", "over"}

OpenerPc == {"idle", "retry", "get", "open"}
EnderPc == {"idle", "retry", "range", "close", "delete"}

Handler == [pc : OpenerPc \cup EnderPc, ride : Rides \cup {None}, matched : BOOLEAN, found : BOOLEAN]

MessageType ==
  /\ phase \in [Rides -> Phases]
  /\ queue \subseteq Message
  /\ consumer \in [Topics -> Handler]
  /\ \A t \in Topics : consumer[t].ride = None <=> consumer[t].pc = "idle"
  /\ \A t \in Openers : consumer[t].pc \in OpenerPc
  /\ \A t \in Enders : consumer[t].pc \in EnderPc

\* A handler's message is not committed before it is done, and a ride ends once.
MessageInv ==
  /\ MessageType
  /\ \A t \in Topics : consumer[t].pc # "idle" => Msg(t, consumer[t].ride, consumer[t].matched) \in queue
  /\ \A m \in queue : m.topic \in Enders => phase[m.ride] = "over"
  /\ \A m \in queue : m.topic = "ride.accepted" => phase[m.ride] \in Matched
  /\ \A m, n \in queue : (m.topic \in Enders /\ n.topic \in Enders /\ m.ride = n.ride) => m = n

WindowType ==
  /\ participants \subseteq Rides /\ pendingClient \subseteq Rides /\ pendingDriver \subseteq Rides
  /\ activeIndex \subseteq Rides /\ overtaken \subseteq Rides
  /\ activeRide \in [Subjects -> Rides \cup {None}]

\* An activeRide key names a ride of its owner.
KeyOwner ==
  \A s \in Subjects, r \in Rides : activeRide[s] = r => s \in {DriverOf[r], ClientOf[r]}

\* A window has both halves, and the driver's half comes from the match.
MatchedFirst(r) ==
  /\ r \in participants \cup pendingDriver => phase[r] \in Matched
  /\ \A s \in Subjects : activeRide[s] = r => phase[r] \in Matched
  /\ consumer["ride.requested"].ride = r /\ consumer["ride.requested"].pc = "open" => phase[r] \in Matched

NobodyOpens(r) == \A o \in Openers : consumer[o].ride # r

\* What CloseWindow has read of a ride that nobody opens stays true until it
\* deletes, and once the end is committed the window is gone for good.
InOrder(r) ==
  r \notin overtaken =>
    /\ \A s \in Subjects : activeRide[s] = r => r \in participants
    /\ \A t \in Enders : consumer[t].ride = r /\ consumer[t].pc = "delete" =>
         NobodyOpens(r) /\ (consumer[t].found <=> r \in participants)
    /\ phase[r] = "over" /\ (\A m \in queue : m.ride = r => m.topic \in Openers) =>
         NobodyOpens(r) /\ r \notin participants

WindowInv ==
  /\ WindowType
  /\ KeyOwner
  /\ \A r \in Rides : MatchedFirst(r) /\ InOrder(r)
  /\ KeysLostToAnotherRide

\* MAXLEN keeps at least one entry, and every recorded position was accepted.
InFlight == {s \in Subjects : ingest[s] # None}
InFlightTo(r) == {s \in Subjects : ingest[s] = r}

StreamInv ==
  /\ track \in [Rides -> Seq({"Driver", "Client"})]
  /\ trimmed \in [Rides -> Nat]
  /\ ingest \in [Subjects -> Rides \cup {None}]
  /\ pings \in 0..MaxPings
  /\ \A r \in Rides : trimmed[r] = 0 \/ trimmed[r] < Len(track[r])
  /\ IsFiniteSet(InFlight)
  /\ \A r \in Rides : Len(track[r]) + Cardinality(InFlightTo(r)) <= pings

SummaryType ==
  /\ summary \in [Rides -> [built : BOOLEAN, points : SUBSET Nat]]
  /\ ready \in [Rides -> Nat]
  /\ atEnd \in [Rides -> SUBSET Nat]
  /\ \A r \in Rides : summary[r].points \cup atEnd[r] \subseteq 1..Len(track[r])
  /\ \A r \in Rides : \A i \in atEnd[r] : track[r][i] = "Driver"

\* The positions found when the end was first handled are in the summary, or the
\* end is still to be handled with its window open.
Waiting(r) ==
  /\ r \in participants
  /\ \E m \in queue :
       m.topic \in Enders /\ m.ride = r /\ m.matched
  /\ \A t \in Enders : consumer[t].ride = r => consumer[t].pc \in {"retry", "range"}

Covered(r) ==
  atEnd[r] # {} =>
    IF summary[r].built THEN \A i \in atEnd[r] \ summary[r].points : i <= trimmed[r] ELSE Waiting(r)

SummaryInv ==
  /\ SummaryType
  /\ SummaryPublishedOnce
  /\ \A r \in Rides : Covered(r)

\* What the archive worker holds: between the cursor and any entry of the batch
\* there is nothing outside the batch that the stream still has.
BatchInv ==
  /\ archiver \in [pc : {"rest", "put", "cursor"}, ride : Rides \cup {None}, found : SUBSET Nat]
  /\ archiver.pc # "rest" =>
       /\ archiver.ride \in Rides
       /\ archiver.found # {} /\ archiver.found \subseteq 1..Len(track[archiver.ride])
       /\ \A i \in 1..Len(track[archiver.ride]), j \in archiver.found :
            archivedId[archiver.ride] < i /\ i <= j => i \in archiver.found \/ i <= trimmed[archiver.ride]
  /\ archiver.pc = "cursor" => \A i \in archiver.found : <<archiver.ride, i>> \in history

ArchiveInv ==
  /\ archivedId \in [Rides -> Nat]
  /\ \A r \in Rides : archivedId[r] <= Len(track[r])
  /\ BatchInv
  /\ NoArchiveGap

\* The whole of it, as TLC checks it.
TrackingInv ==
  PresenceInv /\ MessageInv /\ WindowInv /\ StreamInv /\ SummaryInv /\ ArchiveInv

-----------------------------------------------------------------------------
(* Presence.                                                               *)

PresenceStep ==
  \/ \E d \in Drivers : DriverPing(d) \/ Age(d)
  \/ StaleDriverIDs \/ Evict \/ EvictFails \/ Crash

\* The other actions do not touch the geo index.
LEMMA PresenceFrame ==
  ASSUME [Next]_vars, ~PresenceStep PROVE UNCHANGED <<indexed, fresh, stale, raced>>
<1>1. CASE \E r \in Rides : Request(r) \/ Accept(r) \/ End(r) \/ Expire(r)
  BY <1>1 DEF Request, Accept, End, Expire, Publish, presence
<1>2. CASE Consume
  BY <1>2 DEF Consume, RideRequestedConsumer, RideAcceptedConsumer, RideCompletedConsumer,
     RideCancelledConsumer, RecordRideRequested, RecordRideAccepted, GetPending, OpenWindow,
     ReadParticipants, InsertSummary, ReadWindow, DeleteWindow, presence
<1>3. CASE ShiftUpdatedConsumer \/ \E t \in Topics : HandlerError(t)
  BY <1>3 DEF ShiftUpdatedConsumer, UpsertOwner, HandlerError, presence
<1>4. CASE \E s \in Subjects : AppendPosition(s) \/ AppendFails(s)
  BY <1>4 DEF AppendPosition, AppendFails, presence
<1>5. CASE Archive \/ \E c \in Clients : ClientPing(c)
  BY <1>5 DEF Archive, ReadBehindCursor, PutBatch, PutBatchFails, SetCursor, ClientPing, presence
<1>6. CASE UNCHANGED vars
  BY <1>6 DEF vars, presence
<1> QED
  BY <1>1, <1>2, <1>3, <1>4, <1>5, <1>6 DEF Next, PresenceStep

LEMMA PresenceInitially == Init => PresenceInv
BY DEF Init, PresenceInv, FreshIsIndexed

\* A position and the two statements of a staleness sweep interleave in any order.
LEMMA PresenceKept == PresenceInv /\ [Next]_vars => PresenceInv'
<1> SUFFICES ASSUME PresenceInv, [Next]_vars PROVE PresenceInv'
  OBVIOUS
<1> USE DEF PresenceInv, FreshIsIndexed
<1>1. ASSUME NEW d \in Drivers, DriverPing(d) PROVE PresenceInv'
  BY <1>1 DEF DriverPing
<1>2. ASSUME NEW d \in Drivers, Age(d) PROVE PresenceInv'
  BY <1>2 DEF Age
<1>3. CASE StaleDriverIDs
  BY <1>3 DEF StaleDriverIDs
<1>4. CASE Evict
  BY <1>4 DEF Evict
<1>5. CASE EvictFails
  BY <1>5 DEF EvictFails
<1>6. CASE Crash
  BY <1>6 DEF Crash
<1>7. CASE ~PresenceStep
  BY <1>7, PresenceFrame
<1> QED
  BY <1>1, <1>2, <1>3, <1>4, <1>5, <1>6, <1>7 DEF PresenceStep

-----------------------------------------------------------------------------
(* Messages and handlers.                                                  *)

\* A message of the model has its three fields.
LEMMA MsgFields ==
  ASSUME NEW t \in Topics, NEW r \in Rides, NEW b \in BOOLEAN
  PROVE  /\ Msg(t, r, b) \in Message
         /\ Msg(t, r, b).topic = t /\ Msg(t, r, b).ride = r /\ Msg(t, r, b).matched = b
BY DEF Msg, Message

\* A message is its three fields.
LEMMA MsgIs ==
  ASSUME NEW m \in Message PROVE m = Msg(m.topic, m.ride, m.matched)
BY DEF Msg, Message

PcOf(t) == IF t \in Openers THEN OpenerPc ELSE EnderPc

\* What the other services may do to a ride.
PublishStep(r) ==
  \/ /\ phase[r] = "new" /\ phase' = [phase EXCEPT ![r] = "requested"]
     /\ queue' = queue \cup {Msg("ride.requested", r, FALSE)}
     /\ UNCHANGED consumer
  \/ /\ phase[r] = "requested" /\ phase' = [phase EXCEPT ![r] = "accepted"]
     /\ queue' = queue \cup {Msg("ride.accepted", r, TRUE)}
     /\ UNCHANGED consumer
  \/ /\ phase[r] \in {"requested", "accepted"} /\ phase' = [phase EXCEPT ![r] = "over"]
     /\ \E t \in Enders, b \in BOOLEAN : queue' = queue \cup {Msg(t, r, b)}
     /\ UNCHANGED consumer

Taken(m, p) == [Idle EXCEPT !.pc = p, !.ride = m.ride, !.matched = m.matched]

\* A handler takes up a message ...
TakeStep(t, m, p) ==
  /\ m \in queue /\ m.topic = t
  /\ consumer' = [consumer EXCEPT ![t] = Taken(m, p)]
  /\ UNCHANGED <<phase, queue>>

\* ... moves on with it ...
MoveStep(t, p, b) ==
  /\ consumer[t].pc # "idle"
  /\ consumer' = [consumer EXCEPT ![t] = [consumer[t] EXCEPT !.pc = p, !.found = b]]
  /\ UNCHANGED <<phase, queue>>

\* ... and is done with it.
DoneStep(t) ==
  /\ consumer[t].pc # "idle"
  /\ consumer' = [consumer EXCEPT ![t] = Idle]
  /\ queue' = queue \/ queue' = queue \ {Msg(t, consumer[t].ride, consumer[t].matched)}
  /\ UNCHANGED phase

CrashStep ==
  /\ consumer' = [t \in Topics |-> Idle]
  /\ UNCHANGED <<phase, queue>>

MessageStep ==
  \/ \E r \in Rides : PublishStep(r)
  \/ \E t \in Topics : \E p \in PcOf(t) \ {"idle"} :
       (\E m \in queue : TakeStep(t, m, p)) \/ (\E b \in BOOLEAN : MoveStep(t, p, b))
  \/ \E t \in Topics : DoneStep(t)
  \/ CrashStep
  \/ UNCHANGED <<phase, queue, consumer>>

\* What a handler holds when it starts.
LEMMA TakenFields ==
  ASSUME NEW m \in Message, NEW p \in OpenerPc \cup EnderPc
  PROVE  /\ Taken(m, p) \in Handler
         /\ Taken(m, p).pc = p /\ Taken(m, p).ride = m.ride
         /\ Taken(m, p).matched = m.matched
<1>1. Idle \in Handler
  BY DEF Idle, Handler, OpenerPc
<1>2. m.ride \in Rides /\ m.matched \in BOOLEAN
  BY DEF Message
<1> QED
  BY <1>1, <1>2 DEF Taken, Handler

\* Start, Step and Commit in these terms.
LEMMA StartTakes ==
  ASSUME NEW t, NEW m, NEW p, Start(t, m, p), UNCHANGED phase PROVE TakeStep(t, m, p)
BY DEF Start, Local, TakeStep, Taken

LEMMA StepMoves ==
  ASSUME MessageType, NEW t \in Topics, NEW p, Step(t, p), consumer[t].pc # "idle", UNCHANGED phase
  PROVE  MoveStep(t, p, consumer[t].found) /\ consumer[t].found \in BOOLEAN
<1>1. consumer[t] \in Handler
  BY DEF MessageType
<1>2. [consumer[t] EXCEPT !.pc = p] = [consumer[t] EXCEPT !.pc = p, !.found = consumer[t].found]
  BY <1>1 DEF Handler
<1>3. consumer[t].found \in BOOLEAN
  BY <1>1 DEF Handler
<1> QED
  BY <1>2, <1>3 DEF Step, Local, MoveStep

LEMMA CommitDone ==
  ASSUME NEW t, Commit(t), consumer[t].pc # "idle", UNCHANGED phase PROVE DoneStep(t)
BY DEF Commit, Local, DoneStep

\* Every step is one of them for the messages and the handlers.
LEMMA MessageSteps == MessageType /\ [Next]_vars => MessageStep
<1> SUFFICES ASSUME MessageType, [Next]_vars PROVE MessageStep
  OBVIOUS
<1>1. CASE \E r \in Rides : Request(r) \/ Accept(r) \/ End(r)
  BY <1>1 DEF Request, Accept, End, Publish, PublishStep, MessageStep, Enders, Openers, Topics
<1>2. ASSUME NEW m \in queue, RecordRideRequested(m) PROVE MessageStep
  <2>1. TakeStep("ride.requested", m, "get")
    BY <1>2, StartTakes DEF RecordRideRequested
  <2> QED
    BY <2>1 DEF MessageStep, PcOf, OpenerPc, Openers, Topics
<1>3. ASSUME NEW m \in queue, RecordRideAccepted(m) PROVE MessageStep
  <2>1. TakeStep("ride.accepted", m, "get")
    BY <1>3, StartTakes DEF RecordRideAccepted
  <2> QED
    BY <2>1 DEF MessageStep, PcOf, OpenerPc, Openers, Topics
<1>4. ASSUME NEW t \in Openers, GetPending(t) PROVE MessageStep
  <2>1. t \in Topics /\ consumer[t].pc # "idle"
    BY <1>4 DEF GetPending, At, Openers, Topics
  <2>2. CASE Step(t, "open")
    <3>1. MoveStep(t, "open", consumer[t].found) /\ consumer[t].found \in BOOLEAN
      BY <1>4, <2>1, <2>2, StepMoves DEF GetPending
    <3> QED
      BY <2>1, <3>1 DEF MessageStep, PcOf, OpenerPc
  <2>3. CASE Commit(t)
    BY <1>4, <2>1, <2>3, CommitDone DEF GetPending, MessageStep
  <2> QED
    BY <1>4, <2>2, <2>3 DEF GetPending
<1>5. ASSUME NEW t \in Openers, OpenWindow(t) PROVE MessageStep
  <2>1. t \in Topics /\ consumer[t].pc # "idle"
    BY <1>5 DEF OpenWindow, At, Openers, Topics
  <2> QED
    BY <1>5, <2>1, CommitDone DEF OpenWindow, MessageStep
<1>6. ASSUME NEW t \in Enders, NEW m \in queue, ReadParticipants(t, m) PROVE MessageStep
  <2>1. PICK p \in {"range", "close"} : Start(t, m, p)
    BY <1>6 DEF ReadParticipants
  <2>2. TakeStep(t, m, p)
    BY <1>6, <2>1, StartTakes DEF ReadParticipants
  <2> QED
    BY <2>2 DEF MessageStep, PcOf, EnderPc, Enders
<1>7. ASSUME NEW t \in Enders, InsertSummary(t) PROVE MessageStep
  <2>1. t \in Topics /\ t \notin Openers /\ consumer[t].pc # "idle"
    BY <1>7 DEF InsertSummary, At, Enders
  <2>2. MoveStep(t, "close", consumer[t].found) /\ consumer[t].found \in BOOLEAN
    BY <1>7, <2>1, StepMoves DEF InsertSummary
  <2> QED
    BY <2>1, <2>2 DEF MessageStep, PcOf, EnderPc
<1>8. ASSUME NEW t \in Enders, ReadWindow(t) PROVE MessageStep
  <2>1. t \in Topics /\ t \notin Openers /\ consumer[t].pc # "idle"
    BY <1>8 DEF ReadWindow, At, Enders
  <2>2. MoveStep(t, "delete", consumer[t].ride \in participants)
    BY <1>8, <2>1 DEF ReadWindow, MoveStep, Local
  <2>3. \E b \in BOOLEAN : MoveStep(t, "delete", b)
    <3>1. (consumer[t].ride \in participants) \in BOOLEAN
      OBVIOUS
    <3> QED
      BY <2>2, <3>1, Zenon
  <2>4. "delete" \in PcOf(t) \ {"idle"}
    BY <2>1 DEF PcOf, EnderPc
  <2> QED
    BY <2>1, <2>3, <2>4 DEF MessageStep
<1>9. ASSUME NEW t \in Enders, DeleteWindow(t) PROVE MessageStep
  <2>1. t \in Topics /\ consumer[t].pc # "idle"
    BY <1>9 DEF DeleteWindow, At, Enders
  <2> QED
    BY <1>9, <2>1, CommitDone DEF DeleteWindow, MessageStep
<1>10. ASSUME NEW t \in Topics, HandlerError(t) PROVE MessageStep
  <2>1. MoveStep(t, "retry", FALSE)
    BY <1>10 DEF HandlerError, MoveStep, Local
  <2>2. "retry" \in PcOf(t) \ {"idle"}
    BY DEF PcOf, OpenerPc, EnderPc
  <2>3. \E b \in BOOLEAN : MoveStep(t, "retry", b)
    BY <2>1, Zenon
  <2> QED
    BY <2>2, <2>3 DEF MessageStep
<1>11. CASE Crash
  BY <1>11 DEF Crash, CrashStep, MessageStep
<1>12. CASE \/ \E r \in Rides : Expire(r)
            \/ ShiftUpdatedConsumer
            \/ \E s \in Subjects : AppendPosition(s) \/ AppendFails(s)
            \/ \E d \in Drivers : DriverPing(d) \/ Age(d)
            \/ \E c \in Clients : ClientPing(c)
            \/ StaleDriverIDs \/ Evict \/ EvictFails
  BY <1>12 DEF Expire, ShiftUpdatedConsumer, UpsertOwner, AppendPosition, AppendFails, DriverPing,
     Age, ClientPing, StaleDriverIDs, Evict, EvictFails, MessageStep
<1>13. CASE Archive \/ UNCHANGED vars
  BY <1>13 DEF Archive, ReadBehindCursor, PutBatch, PutBatchFails, SetCursor, vars, MessageStep
<1>14. "ride.requested" \in Openers /\ "ride.accepted" \in Openers /\ "ride.completed" \in Enders /\ "ride.cancelled" \in Enders
  BY DEF Openers, Enders, Topics
<1> QED
  BY <1>1, <1>2, <1>3, <1>4, <1>5, <1>6, <1>7, <1>8, <1>9, <1>10, <1>11, <1>12, <1>13, <1>14 DEF
     Next, Consume, RideRequestedConsumer, RideAcceptedConsumer, RideCompletedConsumer,
     RideCancelledConsumer

\* Openers and enders are the topics.
LEMMA TopicSets ==
  /\ Topics = Openers \cup Enders /\ Openers \cap Enders = {}
  /\ "ride.requested" \in Openers /\ "ride.accepted" \in Openers
  /\ "ride.completed" \in Enders /\ "ride.cancelled" \in Enders
BY DEF Topics, Openers, Enders

\* A step of one handler leaves the other handlers alone.
LEMMA HandlerUpdate ==
  ASSUME MessageType, NEW t \in Topics, NEW v \in Handler, consumer' = [consumer EXCEPT ![t] = v]
  PROVE  /\ consumer' \in [Topics -> Handler]
         /\ \A u \in Topics : consumer'[u] = IF u = t THEN v ELSE consumer[u]
BY DEF MessageType

LEMMA TakeEffect ==
  ASSUME MessageType, NEW t \in Topics, NEW p \in PcOf(t), NEW m \in queue, TakeStep(t, m, p)
  PROVE  /\ consumer' \in [Topics -> Handler]
         /\ \A u \in Topics : u # t => consumer'[u] = consumer[u]
         /\ consumer'[t].pc = p /\ consumer'[t].ride = m.ride
         /\ consumer'[t].matched = m.matched
<1>1. m \in Message /\ p \in OpenerPc \cup EnderPc
  BY DEF MessageType, PcOf
<1>2. Taken(m, p) \in Handler
  BY <1>1, TakenFields
<1>3. /\ consumer' \in [Topics -> Handler]
      /\ \A u \in Topics : consumer'[u] = IF u = t THEN Taken(m, p) ELSE consumer[u]
  BY <1>2, HandlerUpdate DEF TakeStep
<1> QED
  BY <1>1, <1>3, TakenFields

LEMMA MoveEffect ==
  ASSUME MessageType, NEW t \in Topics, NEW p \in PcOf(t), NEW b \in BOOLEAN, MoveStep(t, p, b)
  PROVE  /\ consumer' \in [Topics -> Handler]
         /\ \A u \in Topics : u # t => consumer'[u] = consumer[u]
         /\ consumer'[t].pc = p /\ consumer'[t].ride = consumer[t].ride
         /\ consumer'[t].matched = consumer[t].matched /\ consumer'[t].found = b
<1> DEFINE v == [consumer[t] EXCEPT !.pc = p, !.found = b]
<1>1. consumer[t] \in Handler /\ p \in OpenerPc \cup EnderPc
  BY DEF MessageType, PcOf
<1>2. v \in Handler /\ v.pc = p /\ v.ride = consumer[t].ride /\ v.matched = consumer[t].matched /\ v.found = b
  BY <1>1 DEF Handler
<1>3. consumer' = [consumer EXCEPT ![t] = v]
  BY DEF MoveStep
<1> HIDE DEF v
<1>4. /\ consumer' \in [Topics -> Handler]
      /\ \A u \in Topics : consumer'[u] = IF u = t THEN v ELSE consumer[u]
  BY <1>2, <1>3, HandlerUpdate
<1> QED
  BY <1>2, <1>4

LEMMA DoneEffect ==
  ASSUME MessageType, NEW t \in Topics, DoneStep(t)
  PROVE  /\ consumer' \in [Topics -> Handler]
         /\ \A u \in Topics : u # t => consumer'[u] = consumer[u]
         /\ consumer'[t] = Idle /\ Idle.pc = "idle" /\ Idle.ride = None
<1>1. Idle \in Handler /\ Idle.pc = "idle" /\ Idle.ride = None
  BY DEF Idle, Handler, OpenerPc
<1>2. /\ consumer' \in [Topics -> Handler]
      /\ \A u \in Topics : consumer'[u] = IF u = t THEN Idle ELSE consumer[u]
  BY <1>1, HandlerUpdate DEF DoneStep
<1> QED
  BY <1>1, <1>2

\* A busy handler has a ride.
LEMMA BusyHasRide ==
  ASSUME MessageInv, NEW t \in Topics, consumer[t].pc # "idle"
  PROVE  /\ consumer[t].ride \in Rides /\ consumer[t].matched \in BOOLEAN
         /\ Msg(t, consumer[t].ride, consumer[t].matched) \in queue
<1>1. consumer[t] \in Handler /\ consumer[t].ride # None
  BY DEF MessageInv, MessageType
<1> QED
  BY <1>1 DEF MessageInv, Handler

LEMMA MessageInitially == Init => MessageInv
<1> SUFFICES ASSUME Init PROVE MessageInv
  OBVIOUS
<1>1. Idle \in Handler /\ Idle.pc = "idle" /\ Idle.ride = None
  BY DEF Idle, Handler, OpenerPc
<1>2. \A t \in Topics : consumer[t] = Idle
  BY DEF Init
<1>3. MessageType
  BY <1>1, <1>2, TopicSets DEF Init, MessageType, Phases, OpenerPc, EnderPc
<1> QED
  BY <1>1, <1>2, <1>3 DEF Init, MessageInv

\* The other services publish, and a ride ends once.
LEMMA PublishKeeps ==
  ASSUME MessageInv, NEW r \in Rides, PublishStep(r) PROVE MessageInv'
<1>1. PICK t \in Topics, b \in BOOLEAN :
        /\ queue' = queue \cup {Msg(t, r, b)}
        /\ t \in Enders => phase[r] \in {"requested", "accepted"} /\ phase'[r] = "over"
        /\ t = "ride.accepted" => phase'[r] \in Matched
  <2>1. phase \in [Rides -> Phases] /\ "ride.accepted" \notin Enders /\ "ride.requested" \notin Enders
    BY TopicSets DEF MessageInv, MessageType
  <2>2. CASE phase[r] \in {"requested", "accepted"} /\ phase' = [phase EXCEPT ![r] = "over"]
             /\ \E t \in Enders, b \in BOOLEAN : queue' = queue \cup {Msg(t, r, b)}
    BY <2>1, <2>2, TopicSets DEF Matched
  <2>3. CASE phase' = [phase EXCEPT ![r] = "accepted"] /\ queue' = queue \cup {Msg("ride.accepted", r, TRUE)}
    BY <2>1, <2>3, TopicSets DEF Matched
  <2>4. CASE queue' = queue \cup {Msg("ride.requested", r, FALSE)}
    <3>1. "ride.requested" \in Topics /\ "ride.requested" # "ride.accepted"
      BY TopicSets
    <3> QED
      BY <2>1, <2>4, <3>1, Zenon
  <2> QED
    BY <2>2, <2>3, <2>4 DEF PublishStep
<1>2. phase' \in [Rides -> Phases] /\ \A q \in Rides : q # r => phase'[q] = phase[q]
  BY DEF PublishStep, MessageInv, MessageType, Phases
<1>3. phase[r] = "over" => FALSE
  BY DEF PublishStep
<1>4. phase[r] \in Matched => phase'[r] \in Matched
  BY DEF PublishStep, MessageInv, MessageType, Matched
<1>5. consumer' = consumer
  BY DEF PublishStep
<1>6. Msg(t, r, b) \in Message /\ Msg(t, r, b).topic = t /\ Msg(t, r, b).ride = r
  BY MsgFields
<1>7. \A m \in queue : m \in Message /\ m.ride \in Rides
  BY DEF MessageInv, MessageType, Message
<1>8. MessageType'
  BY <1>1, <1>2, <1>5, <1>6 DEF MessageInv, MessageType
<1>9. \A m \in queue' : (m.topic \in Enders => phase'[m.ride] = "over") /\ (m.topic = "ride.accepted" => phase'[m.ride] \in Matched)
  BY <1>1, <1>2, <1>3, <1>4, <1>6, <1>7 DEF MessageInv
<1>10. \A m, n \in queue' : (m.topic \in Enders /\ n.topic \in Enders /\ m.ride = n.ride) => m = n
  BY <1>1, <1>3, <1>6 DEF MessageInv
<1> QED
  BY <1>1, <1>5, <1>8, <1>9, <1>10 DEF MessageInv

LEMMA TakeKeeps ==
  ASSUME MessageInv, NEW t \in Topics, NEW p \in PcOf(t) \ {"idle"}, NEW m \in queue, TakeStep(t, m, p)
  PROVE  MessageInv'
<1>1. /\ consumer' \in [Topics -> Handler]
      /\ \A u \in Topics : u # t => consumer'[u] = consumer[u]
      /\ consumer'[t].pc = p /\ consumer'[t].ride = m.ride /\ consumer'[t].matched = m.matched
  BY TakeEffect DEF MessageInv
<1>2. m.ride \in Rides /\ m.ride # None /\ m = Msg(t, m.ride, m.matched)
  BY MsgIs, TrackingAssumption DEF MessageInv, MessageType, Message, TakeStep
<1>3. UNCHANGED <<phase, queue>>
  BY DEF TakeStep
<1>4. MessageType'
  BY <1>1, <1>2, <1>3, TopicSets DEF MessageInv, MessageType, PcOf
<1>5. ASSUME NEW u \in Topics, consumer'[u].pc # "idle"
      PROVE  Msg(u, consumer'[u].ride, consumer'[u].matched) \in queue'
  BY <1>1, <1>2, <1>3, <1>5 DEF MessageInv
<1> QED
  BY <1>3, <1>4, <1>5 DEF MessageInv

LEMMA MoveKeeps ==
  ASSUME MessageInv, NEW t \in Topics, NEW p \in PcOf(t) \ {"idle"}, NEW b \in BOOLEAN, MoveStep(t, p, b)
  PROVE  MessageInv'
<1>1. /\ consumer' \in [Topics -> Handler]
      /\ \A u \in Topics : u # t => consumer'[u] = consumer[u]
      /\ consumer'[t].pc = p /\ consumer'[t].ride = consumer[t].ride /\ consumer'[t].matched = consumer[t].matched
  BY MoveEffect DEF MessageInv
<1>2. UNCHANGED <<phase, queue>> /\ consumer[t].pc # "idle"
  BY DEF MoveStep
<1>3. MessageType'
  BY <1>1, <1>2, TopicSets DEF MessageInv, MessageType, PcOf
<1>4. ASSUME NEW u \in Topics, consumer'[u].pc # "idle"
      PROVE  Msg(u, consumer'[u].ride, consumer'[u].matched) \in queue'
  BY <1>1, <1>2, <1>4 DEF MessageInv
<1> QED
  BY <1>2, <1>3, <1>4 DEF MessageInv

LEMMA DoneKeeps ==
  ASSUME MessageInv, NEW t \in Topics, DoneStep(t) PROVE MessageInv'
<1>1. /\ consumer' \in [Topics -> Handler]
      /\ \A u \in Topics : u # t => consumer'[u] = consumer[u]
      /\ consumer'[t] = Idle /\ Idle.pc = "idle" /\ Idle.ride = None
  BY DoneEffect DEF MessageInv
<1>2. phase' = phase /\ queue' \subseteq queue /\ consumer[t].pc # "idle"
  BY DEF DoneStep
<1>3. MessageType'
  BY <1>1, <1>2, TopicSets DEF MessageInv, MessageType, OpenerPc, EnderPc
<1>4. ASSUME NEW u \in Topics, consumer'[u].pc # "idle"
      PROVE  Msg(u, consumer'[u].ride, consumer'[u].matched) \in queue'
  <2>1. u # t /\ consumer'[u] = consumer[u]
    BY <1>1, <1>4
  <2>2. Msg(u, consumer[u].ride, consumer[u].matched).topic = u /\ Msg(t, consumer[t].ride, consumer[t].matched).topic = t
    BY DEF Msg
  <2>3. Msg(u, consumer[u].ride, consumer[u].matched) \in queue
    BY <1>4, <2>1 DEF MessageInv
  <2> QED
    BY <2>1, <2>2, <2>3 DEF DoneStep
<1> QED
  BY <1>2, <1>3, <1>4 DEF MessageInv

\* A crash forgets the handlers and loses no message.
LEMMA CrashKeeps == ASSUME MessageInv, CrashStep PROVE MessageInv'
<1>1. Idle \in Handler /\ Idle.pc = "idle" /\ Idle.ride = None
  BY DEF Idle, Handler, OpenerPc
<1>2. UNCHANGED <<phase, queue>> /\ \A t \in Topics : consumer'[t] = Idle
  BY DEF CrashStep
<1>3. MessageType'
  BY <1>1, <1>2, TopicSets DEF CrashStep, MessageInv, MessageType, OpenerPc, EnderPc
<1> QED
  BY <1>1, <1>2, <1>3 DEF MessageInv

\* Every step keeps the second layer.
LEMMA MessageKept == MessageInv /\ [Next]_vars => MessageInv'
<1> SUFFICES ASSUME MessageInv, MessageStep PROVE MessageInv'
  BY MessageSteps DEF MessageInv
<1>1. CASE UNCHANGED <<phase, queue, consumer>>
  BY <1>1 DEF MessageInv, MessageType
<1> QED
  BY <1>1, PublishKeeps, TakeKeeps, MoveKeeps, DoneKeeps, CrashKeeps DEF MessageStep

-----------------------------------------------------------------------------
(* Windows.                                                                *)

windowVars == <<participants, pendingClient, pendingDriver, activeRide, activeIndex, overtaken>>

LEMMA WindowInitially == Init => WindowInv
<1> SUFFICES ASSUME Init PROVE WindowInv
  OBVIOUS
<1>1. \A t \in Topics : consumer[t] = Idle /\ Idle.pc = "idle" /\ Idle.ride = None
  BY DEF Init, Idle
<1>2. \A r \in Rides : r # None
  BY TrackingAssumption
<1> QED
  BY <1>1, <1>2, TopicSets DEF Init, WindowInv, WindowType, KeyOwner, MatchedFirst, InOrder,
     NobodyOpens, KeysLostToAnotherRide

\* Steps that take up nothing new to open, decide nothing and commit no end.
LEMMA WindowUntouched ==
  ASSUME WindowInv, UNCHANGED phase, UNCHANGED windowVars,
         \A o \in Openers : consumer'[o].ride # None => consumer'[o].ride = consumer[o].ride,
         \A t \in Enders : consumer'[t].pc = "delete" => consumer'[t] = consumer[t],
         consumer'["ride.requested"].pc = "open" => phase[consumer'["ride.requested"].ride] \in Matched,
         \A m \in queue : m \in queue' \/ m.topic \in Openers
  PROVE  WindowInv'
<1>1. \A r \in Rides : NobodyOpens(r) => NobodyOpens(r)'
  BY TrackingAssumption DEF NobodyOpens
<1>2. ASSUME NEW r \in Rides PROVE MatchedFirst(r)'
  BY DEF WindowInv, MatchedFirst, windowVars
<1>3. ASSUME NEW r \in Rides PROVE InOrder(r)'
  BY <1>1 DEF WindowInv, InOrder, windowVars
<1> QED
  BY <1>2, <1>3 DEF WindowInv, WindowType, KeyOwner, KeysLostToAnotherRide, windowVars

LEMMA PublishKeepsWindow ==
  ASSUME MessageInv, WindowInv, NEW r \in Rides, PublishStep(r), UNCHANGED windowVars PROVE WindowInv'
<1>1. \A q \in Rides : (phase[q] \in Matched => phase'[q] \in Matched) /\ (phase[q] = "over" => phase'[q] = "over")
  BY DEF PublishStep, MessageInv, MessageType, Matched
<1>2. consumer' = consumer /\ queue \subseteq queue'
  BY DEF PublishStep
<1>3. \A q \in Rides : phase'[q] = "over" => phase[q] = "over" \/ \E m \in queue' : m.ride = q /\ m.topic \in Enders
  <2> SUFFICES ASSUME NEW q \in Rides, phase'[q] = "over", phase[q] # "over"
               PROVE  \E m \in queue' : m.ride = q /\ m.topic \in Enders
    OBVIOUS
  <2>1. q = r /\ phase' = [phase EXCEPT ![r] = "over"]
    BY DEF PublishStep, MessageInv, MessageType
  <2>2. PICK t \in Enders, b \in BOOLEAN : queue' = queue \cup {Msg(t, r, b)}
    BY <2>1 DEF PublishStep, MessageInv, MessageType
  <2>3. Msg(t, r, b).ride = r /\ Msg(t, r, b).topic = t
    BY MsgFields, TopicSets
  <2> QED
    BY <2>1, <2>2, <2>3
<1>4. ASSUME NEW q \in Rides PROVE MatchedFirst(q)'
  BY <1>1, <1>2 DEF WindowInv, MatchedFirst, windowVars
<1>5. ASSUME NEW q \in Rides PROVE InOrder(q)'
  BY <1>2, <1>3, TopicSets DEF WindowInv, InOrder, NobodyOpens, windowVars
<1>6. KeysLostToAnotherRide'
  BY <1>1 DEF WindowInv, KeysLostToAnotherRide, windowVars
<1> QED
  BY <1>4, <1>5, <1>6 DEF WindowInv, WindowType, KeyOwner, windowVars

\* An opener takes up a ride: if its end was there first, the ride is overtaken.
LEMMA RecordKeepsWindow ==
  ASSUME MessageInv, WindowInv, NEW t \in Openers, NEW m \in queue, TakeStep(t, m, "get"), Overtake(m.ride),
         UNCHANGED <<participants, activeRide, activeIndex>>,
         pendingClient' \in {pendingClient, pendingClient \cup {m.ride}},
         \/ pendingDriver' = pendingDriver
         \/ pendingDriver' = pendingDriver \cup {m.ride} /\ t = "ride.accepted"
  PROVE  WindowInv'
<1>1. t \in Topics /\ "get" \in PcOf(t) /\ m.topic = t /\ m.ride \in Rides
  BY TopicSets DEF PcOf, OpenerPc, TakeStep, MessageInv, MessageType, Message
<1>2. /\ \A u \in Topics : u # t => consumer'[u] = consumer[u]
      /\ consumer'[t].pc = "get" /\ consumer'[t].ride = m.ride
  BY <1>1, TakeEffect DEF MessageInv
<1>3. UNCHANGED <<phase, queue>>
  BY DEF TakeStep
<1>4. WindowType'
  BY <1>1 DEF WindowInv, WindowType, Overtake
<1>5. ASSUME NEW q \in Rides PROVE MatchedFirst(q)'
  <2>1. pendingDriver' # pendingDriver => phase[m.ride] \in Matched
    BY <1>1 DEF MessageInv
  <2>2. consumer'["ride.requested"].pc = "open" => consumer'["ride.requested"] = consumer["ride.requested"]
    BY <1>2, TopicSets
  <2> QED
    BY <1>3, <2>1, <2>2 DEF WindowInv, MatchedFirst
<1>6. ASSUME NEW q \in Rides PROVE InOrder(q)'
  <2>1. CASE q # m.ride
    <3>1. NobodyOpens(q) => NobodyOpens(q)'
      BY <1>1, <1>2, <2>1, TopicSets DEF NobodyOpens
    <3>2. \A u \in Enders : consumer'[u] = consumer[u]
      BY <1>2, TopicSets
    <3>3. q \notin overtaken' => q \notin overtaken
      BY DEF Overtake
    <3> QED
      BY <1>3, <3>1, <3>2, <3>3 DEF WindowInv, InOrder
  <2>2. CASE q = m.ride /\ Ended(q)
    BY <2>2 DEF InOrder, Overtake
  <2>3. CASE q = m.ride /\ ~Ended(q)
    <3>1. \A u \in Enders : consumer'[u].ride # q
      BY <1>2, <2>3, TopicSets DEF Ended, Enders
    <3>2. ~(phase'[q] = "over" /\ \A n \in queue' : n.ride = q => n.topic \in Openers)
      BY <1>3, <2>3 DEF Ended
    <3>3. q \notin overtaken' => \A s \in Subjects : activeRide[s] = q => q \in participants
      BY DEF WindowInv, InOrder, Overtake
    <3> QED
      BY <3>1, <3>2, <3>3 DEF InOrder
  <2> QED
    BY <2>1, <2>2, <2>3
<1>7. KeysLostToAnotherRide' /\ KeyOwner'
  BY <1>3 DEF WindowInv, KeysLostToAnotherRide, KeyOwner
<1> QED
  BY <1>4, <1>5, <1>6, <1>7 DEF WindowInv

\* The window opens with both halves known.
LEMMA OpenKeepsWindow ==
  ASSUME MessageInv, WindowInv, NEW t \in Openers, OpenWindow(t) PROVE WindowInv'
<1> DEFINE r == consumer[t].ride
<1>1. t \in Topics /\ consumer[t].pc = "open" /\ DoneStep(t)
  BY TopicSets, CommitDone DEF OpenWindow, At
<1>2. r \in Rides /\ r # None /\ Msg(t, r, consumer[t].matched) \in queue
      /\ Msg(t, r, consumer[t].matched).topic = t /\ Msg(t, r, consumer[t].matched).ride = r
  BY <1>1, BusyHasRide, MsgFields, TrackingAssumption
<1> HIDE DEF r
<1>3. /\ \A u \in Topics : u # t => consumer'[u] = consumer[u]
      /\ consumer'[t].ride = None /\ consumer'[t].pc = "idle"
  BY <1>1, DoneEffect DEF MessageInv
<1>4. phase' = phase /\ \A m \in queue : m \in queue' \/ m = Msg(t, r, consumer[t].matched)
  BY <1>1 DEF DoneStep, r
<1>5. phase[r] \in Matched
  <2>1. CASE t = "ride.requested"
    BY <1>1, <1>2, <2>1 DEF WindowInv, MatchedFirst, r
  <2>2. CASE t = "ride.accepted"
    BY <1>2, <2>2 DEF MessageInv
  <2> QED
    BY <2>1, <2>2 DEF Openers
<1>6. /\ participants' = participants \cup {r} /\ overtaken' = overtaken
      /\ pendingDriver' \subseteq pendingDriver
      /\ DriverOf[r] \in Subjects /\ ClientOf[r] \in Subjects
      /\ \A s \in Subjects : activeRide'[s] = IF s \in {DriverOf[r], ClientOf[r]} THEN r ELSE activeRide[s]
  BY <1>2, TrackingAssumption DEF OpenWindow, CompleteWindow, WindowInv, WindowType, ghosts,
     Subjects, r
<1>7. WindowType'
  BY <1>2, TrackingAssumption DEF OpenWindow, CompleteWindow, WindowInv, WindowType, ghosts,
     Subjects, r
<1>8. KeyOwner'
  BY <1>2, <1>6 DEF WindowInv, KeyOwner
<1>9. ASSUME NEW q \in Rides PROVE MatchedFirst(q)'
  <2>1. consumer'["ride.requested"].pc = "open" => consumer'["ride.requested"] = consumer["ride.requested"]
    BY <1>3, TopicSets
  <2> QED
    BY <1>4, <1>5, <1>6, <2>1 DEF WindowInv, MatchedFirst
<1>10. ASSUME NEW q \in Rides PROVE InOrder(q)'
  <2>1. ~NobodyOpens(r)
    BY DEF NobodyOpens, r
  <2>2. \A u \in Enders : consumer'[u] = consumer[u]
    BY <1>3, TopicSets
  <2>3. NobodyOpens(q) => NobodyOpens(q)'
    BY <1>3, TopicSets, TrackingAssumption DEF NobodyOpens
  <2>4. (\A m \in queue' : m.ride = q => m.topic \in Openers) => \A m \in queue : m.ride = q => m.topic \in Openers
    BY <1>2, <1>4
  <2>5. CASE q = r
    BY <1>4, <1>6, <2>1, <2>2, <2>4, <2>5 DEF WindowInv, InOrder
  <2>6. CASE q # r
    BY <1>4, <1>6, <2>2, <2>3, <2>4, <2>6 DEF WindowInv, InOrder
  <2> QED
    BY <2>5, <2>6
<1>11. KeysLostToAnotherRide'
  <2> SUFFICES ASSUME NEW p \in participants', NEW s \in Subjects,
                      s \in {DriverOf[p], ClientOf[p]}, activeRide'[s] # p
               PROVE  \E q \in Rides \ {p} :
                        /\ s \in {DriverOf[q], ClientOf[q]}
                        /\ activeRide'[s] = q \/ phase'[q] = "over"
    BY DEF KeysLostToAnotherRide
  <2>1. p # r /\ p \in participants
    BY <1>6
  <2>2. CASE s \in {DriverOf[r], ClientOf[r]}
    BY <1>2, <1>6, <2>1, <2>2
  <2>3. CASE s \notin {DriverOf[r], ClientOf[r]}
    BY <1>4, <1>6, <2>1, <2>3 DEF WindowInv, KeysLostToAnotherRide
  <2> QED
    BY <2>2, <2>3
<1> QED
  BY <1>7, <1>8, <1>9, <1>10, <1>11 DEF WindowInv

\* CloseWindow reads: from here on nobody may open the ride unnoticed.
LEMMA ReadKeepsWindow ==
  ASSUME MessageInv, WindowInv, NEW t \in Enders, ReadWindow(t) PROVE WindowInv'
<1> DEFINE r == consumer[t].ride
<1>1. t \in Topics /\ t \notin Openers /\ consumer[t].pc = "close"
  BY DEF ReadWindow, At, Enders
<1>2. r \in Rides
  BY <1>1, BusyHasRide
<1> HIDE DEF r
<1>3. PICK b \in BOOLEAN : MoveStep(t, "delete", b) /\ (b <=> r \in participants)
  <2>1. (r \in participants) \in BOOLEAN
    OBVIOUS
  <2>2. MoveStep(t, "delete", r \in participants)
    BY <1>1 DEF ReadWindow, MoveStep, Local, r
  <2> QED
    BY <2>1, <2>2, Zenon
<1>4. /\ \A u \in Topics : u # t => consumer'[u] = consumer[u]
      /\ consumer'[t].ride = r
      /\ consumer'[t].found <=> r \in participants
  <2>1. "delete" \in PcOf(t)
    BY <1>1 DEF PcOf, EnderPc
  <2> QED
    BY <1>1, <1>3, <2>1, MoveEffect DEF MessageInv, r
<1>5. UNCHANGED <<phase, queue, participants, pendingClient, pendingDriver, activeRide, activeIndex>>
  BY DEF ReadWindow, window
<1>6. \A o \in Openers : consumer'[o] = consumer[o]
  BY <1>1, <1>4, TopicSets
<1>7. overtaken' = IF NobodyOpens(r) THEN overtaken ELSE overtaken \cup {r}
  BY DEF ReadWindow, NobodyOpens, r
<1>8. WindowType' /\ KeyOwner' /\ KeysLostToAnotherRide'
  BY <1>2, <1>5, <1>7 DEF WindowInv, WindowType, KeyOwner, KeysLostToAnotherRide
<1>9. ASSUME NEW q \in Rides PROVE MatchedFirst(q)'
  BY <1>5, <1>6, TopicSets DEF WindowInv, MatchedFirst
<1>10. ASSUME NEW q \in Rides PROVE InOrder(q)'
  <2>1. NobodyOpens(q)' <=> NobodyOpens(q)
    BY <1>6 DEF NobodyOpens
  <2>2. CASE q = r /\ ~NobodyOpens(r)
    BY <1>7, <2>2 DEF InOrder
  <2>3. CASE q = r /\ NobodyOpens(r)
    BY <1>4, <1>5, <1>7, <2>1, <2>3, TopicSets DEF WindowInv, InOrder
  <2>4. CASE q # r
    BY <1>4, <1>5, <1>7, <2>1, <2>4, TopicSets DEF WindowInv, InOrder
  <2> QED
    BY <2>2, <2>3, <2>4
<1> QED
  BY <1>8, <1>9, <1>10 DEF WindowInv

\* Only one message ends a ride, so only one handler does.
LEMMA OneEnder ==
  ASSUME MessageInv, NEW t \in Enders, NEW m \in queue, m.topic \in Enders,
         consumer[t].pc # "idle", consumer[t].ride = m.ride
  PROVE  m = Msg(t, consumer[t].ride, consumer[t].matched) /\ m.topic = t /\ m.matched = consumer[t].matched
<1>1. /\ Msg(t, consumer[t].ride, consumer[t].matched) \in queue
      /\ consumer[t].ride \in Rides /\ consumer[t].matched \in BOOLEAN /\ t \in Topics
  BY BusyHasRide, TopicSets
<1>2. /\ Msg(t, consumer[t].ride, consumer[t].matched).topic = t
      /\ Msg(t, consumer[t].ride, consumer[t].matched).ride = consumer[t].ride
      /\ Msg(t, consumer[t].ride, consumer[t].matched).matched = consumer[t].matched
  BY <1>1, MsgFields
<1>3. m = Msg(t, consumer[t].ride, consumer[t].matched)
  BY <1>1, <1>2 DEF MessageInv
<1> QED
  BY <1>2, <1>3

\* A handler of an end has a ride that is over.
LEMMA EnderIsOver ==
  ASSUME MessageInv, NEW t \in Enders, consumer[t].pc # "idle"
  PROVE  consumer[t].ride \in Rides /\ phase[consumer[t].ride] = "over"
<1>1. /\ Msg(t, consumer[t].ride, consumer[t].matched) \in queue
      /\ consumer[t].ride \in Rides /\ consumer[t].matched \in BOOLEAN /\ t \in Topics
  BY BusyHasRide, TopicSets
<1> QED
  BY <1>1, MsgFields DEF MessageInv

\* The window closes: with what was read before, and for an undisturbed ride that
\* is what there is.
LEMMA DeleteKeepsWindow ==
  ASSUME MessageInv, WindowInv, NEW t \in Enders, DeleteWindow(t) PROVE WindowInv'
<1> DEFINE r == consumer[t].ride
           found == consumer[t].found
<1>1. t \in Topics /\ consumer[t].pc = "delete" /\ DoneStep(t)
  BY TopicSets, CommitDone DEF DeleteWindow, At
<1>2. r \in Rides /\ phase[r] = "over" /\ r # None
  BY <1>1, EnderIsOver, TrackingAssumption
<1>3. /\ Msg(t, r, consumer[t].matched).topic = t /\ Msg(t, r, consumer[t].matched).ride = r
  BY <1>1, BusyHasRide, MsgFields
<1>4. \A u \in Enders : consumer[u].pc # "idle" /\ consumer[u].ride = r => u = t
  BY <1>1, <1>3, BusyHasRide, OneEnder
<1> HIDE DEF r, found
<1>5. /\ \A u \in Topics : u # t => consumer'[u] = consumer[u]
      /\ consumer'[t].ride = None /\ consumer'[t].pc = "idle"
  BY <1>1, DoneEffect DEF MessageInv
<1>6. phase' = phase /\ \A m \in queue : m \in queue' \/ m = Msg(t, r, consumer[t].matched)
  BY <1>1 DEF DoneStep, r
<1>7. /\ participants' = participants \ {r} /\ overtaken' = overtaken
      /\ pendingDriver' \subseteq pendingDriver
      /\ \A s \in Subjects : activeRide'[s] = IF found /\ s \in {DriverOf[r], ClientOf[r]} THEN None ELSE activeRide[s]
  BY <1>2, TrackingAssumption DEF DeleteWindow, CloseWindow, WindowInv, WindowType, ghosts,
     Subjects, r, found
<1>8. WindowType'
  BY <1>2, TrackingAssumption DEF DeleteWindow, CloseWindow, WindowInv, WindowType, ghosts,
     Subjects, r, found
<1>9. KeyOwner'
  BY <1>7, TrackingAssumption DEF WindowInv, KeyOwner
<1>10. \A o \in Openers : consumer'[o] = consumer[o]
  BY <1>5, TopicSets
<1>11. ASSUME NEW q \in Rides PROVE MatchedFirst(q)'
  BY <1>6, <1>7, <1>10, TopicSets, TrackingAssumption DEF WindowInv, MatchedFirst
<1>12. ASSUME NEW q \in Rides PROVE InOrder(q)'
  <2>1. NobodyOpens(q)' <=> NobodyOpens(q)
    BY <1>10 DEF NobodyOpens
  <2>2. CASE q = r
    <3> SUFFICES ASSUME r \notin overtaken PROVE InOrder(q)'
      BY <1>7, <2>2 DEF InOrder
    <3>1. NobodyOpens(r) /\ (found <=> r \in participants)
      BY <1>1, <1>2 DEF WindowInv, InOrder, r, found
    <3>2. ASSUME NEW s \in Subjects PROVE activeRide'[s] # r
      <4>1. activeRide[s] = r => found /\ s \in {DriverOf[r], ClientOf[r]}
        BY <1>2, <3>1 DEF WindowInv, InOrder, KeyOwner
      <4> QED
        BY <1>2, <1>7, <4>1
    <3>3. \A u \in Enders : ~(consumer'[u].ride = r /\ consumer'[u].pc = "delete")
      BY <1>2, <1>4, <1>5, TopicSets
    <3> QED
      BY <1>7, <2>1, <2>2, <3>1, <3>2, <3>3 DEF InOrder
  <2>3. CASE q # r
    <3>1. (\A m \in queue' : m.ride = q => m.topic \in Openers) => \A m \in queue : m.ride = q => m.topic \in Openers
      BY <1>3, <1>6, <2>3
    <3>2. \A u \in Enders : consumer'[u].ride = q => consumer'[u] = consumer[u]
      BY <1>5, TopicSets, TrackingAssumption
    <3>3. \A s \in Subjects : activeRide'[s] = q => activeRide[s] = q
      BY <1>7, TrackingAssumption
    <3> QED
      BY <1>6, <1>7, <2>1, <2>3, <3>1, <3>2, <3>3 DEF WindowInv, InOrder
  <2> QED
    BY <2>2, <2>3
<1>13. KeysLostToAnotherRide'
  <2> SUFFICES ASSUME NEW p \in participants', NEW s \in Subjects,
                      s \in {DriverOf[p], ClientOf[p]}, activeRide'[s] # p
               PROVE  \E q \in Rides \ {p} :
                        /\ s \in {DriverOf[q], ClientOf[q]}
                        /\ activeRide'[s] = q \/ phase'[q] = "over"
    BY DEF KeysLostToAnotherRide
  <2>1. p # r /\ p \in participants
    BY <1>7
  <2>2. CASE s \in {DriverOf[r], ClientOf[r]}
    BY <1>2, <1>6, <2>1, <2>2
  <2>3. CASE s \notin {DriverOf[r], ClientOf[r]}
    BY <1>6, <1>7, <2>1, <2>3 DEF WindowInv, KeysLostToAnotherRide
  <2> QED
    BY <2>2, <2>3
<1> QED
  BY <1>8, <1>9, <1>11, <1>12, <1>13 DEF WindowInv

\* The keys of a ride that is over expire.
LEMMA ExpireKeepsWindow ==
  ASSUME MessageInv, WindowInv, NEW r \in Rides, Expire(r) PROVE WindowInv'
<1>1. phase[r] = "over" /\ \A t \in Topics : consumer[t].ride # r
  BY DEF Expire, Quiet
<1>2. UNCHANGED <<phase, queue, consumer, overtaken, activeIndex>>
  BY DEF Expire, ghosts
<1>3. /\ participants' = participants \ {r} /\ pendingDriver' = pendingDriver \ {r}
      /\ pendingClient' = pendingClient \ {r}
      /\ \A s \in Subjects : activeRide'[s] = IF activeRide[s] = r THEN None ELSE activeRide[s]
  BY DEF Expire
<1>4. WindowType'
  BY <1>2, <1>3 DEF WindowInv, WindowType, Expire
<1>5. KeyOwner'
  BY <1>3, TrackingAssumption DEF WindowInv, KeyOwner
<1>6. ASSUME NEW q \in Rides PROVE MatchedFirst(q)'
  BY <1>2, <1>3, TrackingAssumption DEF WindowInv, MatchedFirst
<1>7. ASSUME NEW q \in Rides PROVE InOrder(q)'
  <2>1. \A s \in Subjects : activeRide'[s] = q => activeRide[s] = q /\ q # r
    BY <1>3, TrackingAssumption
  <2>2. \A t \in Enders : consumer[t].ride # r
    BY <1>1, TopicSets
  <2> QED
    BY <1>2, <1>3, <2>1, <2>2 DEF WindowInv, InOrder, NobodyOpens
<1>8. KeysLostToAnotherRide'
  <2> SUFFICES ASSUME NEW p \in participants', NEW s \in Subjects,
                      s \in {DriverOf[p], ClientOf[p]}, activeRide'[s] # p
               PROVE  \E q \in Rides \ {p} :
                        /\ s \in {DriverOf[q], ClientOf[q]}
                        /\ activeRide'[s] = q \/ phase'[q] = "over"
    BY DEF KeysLostToAnotherRide
  <2>1. p # r /\ p \in participants
    BY <1>3
  <2>2. CASE activeRide[s] = r
    BY <1>1, <1>2, <2>1, <2>2 DEF WindowInv, KeyOwner
  <2>3. CASE activeRide[s] # r
    BY <1>2, <1>3, <2>1, <2>3 DEF WindowInv, KeysLostToAnotherRide
  <2> QED
    BY <2>2, <2>3
<1> QED
  BY <1>4, <1>5, <1>6, <1>7, <1>8 DEF WindowInv

\* Every step keeps the third layer.
LEMMA WindowKept == MessageInv /\ WindowInv /\ [Next]_vars => WindowInv'
<1> SUFFICES ASSUME MessageInv, WindowInv, [Next]_vars PROVE WindowInv'
  OBVIOUS
<1> USE DEF window, ghosts, windowVars
<1>1. ASSUME NEW r \in Rides, Request(r) \/ Accept(r) \/ End(r) PROVE WindowInv'
  <2>1. PublishStep(r) /\ UNCHANGED windowVars
    BY <1>1 DEF Request, Accept, End, Publish, PublishStep, Enders, Openers, Topics
  <2> QED
    BY <2>1, PublishKeepsWindow
<1>2. ASSUME NEW m \in queue, RecordRideRequested(m) PROVE WindowInv'
  <2>1. TakeStep("ride.requested", m, "get")
    BY <1>2, StartTakes DEF RecordRideRequested
  <2> QED
    BY <1>2, <2>1, RecordKeepsWindow, TopicSets DEF RecordRideRequested
<1>3. ASSUME NEW m \in queue, RecordRideAccepted(m) PROVE WindowInv'
  <2>1. TakeStep("ride.accepted", m, "get")
    BY <1>3, StartTakes DEF RecordRideAccepted
  <2> QED
    BY <1>3, <2>1, RecordKeepsWindow, TopicSets DEF RecordRideAccepted
<1>4. ASSUME NEW t \in Openers, GetPending(t) PROVE WindowInv'
  <2>1. t \in Topics /\ t \notin Enders /\ consumer[t].pc = "get" /\ UNCHANGED phase /\ UNCHANGED windowVars
    BY <1>4, TopicSets DEF GetPending, At
  <2>2. consumer[t].ride \in Rides /\ Msg(t, consumer[t].ride, consumer[t].matched).topic = t
    BY <2>1, BusyHasRide, MsgFields
  <2>3. CASE consumer[t].ride \in OtherHalf(t)
    <3>1. MoveStep(t, "open", consumer[t].found) /\ consumer[t].found \in BOOLEAN
      BY <1>4, <2>1, <2>3, StepMoves DEF GetPending, MessageInv
    <3>2. /\ \A u \in Topics : u # t => consumer'[u] = consumer[u]
          /\ consumer'[t].ride = consumer[t].ride /\ queue' = queue
      BY <2>1, <3>1, MoveEffect DEF PcOf, OpenerPc, MessageInv, MoveStep
    <3>3. t = "ride.requested" => phase[consumer[t].ride] \in Matched
      BY <2>2, <2>3 DEF OtherHalf, WindowInv, MatchedFirst
    <3>4. consumer'["ride.requested"].pc = "open" => phase[consumer'["ride.requested"].ride] \in Matched
      BY <3>2, <3>3, TopicSets DEF WindowInv, MatchedFirst, MessageInv, MessageType, Handler,
         OpenerPc, EnderPc
    <3> QED
      BY <2>1, <3>2, <3>4, TopicSets, WindowUntouched
  <2>4. CASE consumer[t].ride \notin OtherHalf(t)
    <3>1. DoneStep(t)
      BY <1>4, <2>1, <2>4, CommitDone DEF GetPending
    <3>2. /\ \A u \in Topics : u # t => consumer'[u] = consumer[u]
          /\ consumer'[t].ride = None /\ consumer'[t].pc = "idle"
      BY <2>1, <3>1, DoneEffect DEF MessageInv
    <3>3. \A m \in queue : m \in queue' \/ m.topic \in Openers
      BY <2>2, <3>1 DEF DoneStep
    <3>4. consumer'["ride.requested"].pc = "open" => phase[consumer'["ride.requested"].ride] \in Matched
      BY <3>2, TopicSets, BusyHasRide DEF WindowInv, MatchedFirst
    <3> QED
      BY <2>1, <3>2, <3>3, <3>4, TopicSets, WindowUntouched
  <2> QED
    BY <2>3, <2>4
<1>5. ASSUME NEW t \in Openers, OpenWindow(t) PROVE WindowInv'
  BY <1>5, OpenKeepsWindow
<1>6. ASSUME NEW t \in Enders, NEW m \in queue, ReadParticipants(t, m) PROVE WindowInv'
  <2>1. PICK p \in {"range", "close"} : TakeStep(t, m, p)
    BY <1>6, StartTakes DEF ReadParticipants
  <2>2. t \in Topics /\ t \notin Openers /\ p \in PcOf(t) /\ p # "delete" /\ UNCHANGED windowVars
    BY <1>6, TopicSets DEF PcOf, EnderPc, ReadParticipants
  <2>3. /\ \A u \in Topics : u # t => consumer'[u] = consumer[u]
        /\ consumer'[t].pc = p
    BY <1>6, <2>1, <2>2, TakeEffect DEF MessageInv
  <2>4. UNCHANGED <<phase, queue>>
    BY <2>1 DEF TakeStep
  <2>5. consumer'["ride.requested"].pc = "open" => phase[consumer'["ride.requested"].ride] \in Matched
    BY <2>2, <2>3, TopicSets, BusyHasRide DEF WindowInv, MatchedFirst
  <2> QED
    BY <2>2, <2>3, <2>4, <2>5, TopicSets, WindowUntouched
<1>7. ASSUME NEW t \in Topics, NEW p \in PcOf(t) \ {"idle", "open", "delete"}, NEW b \in BOOLEAN,
             MoveStep(t, p, b), UNCHANGED windowVars
      PROVE  WindowInv'
  <2>1. /\ \A u \in Topics : u # t => consumer'[u] = consumer[u]
        /\ consumer'[t].pc = p /\ consumer'[t].ride = consumer[t].ride /\ UNCHANGED <<phase, queue>>
    BY <1>7, MoveEffect DEF MessageInv, MoveStep
  <2>2. consumer'["ride.requested"].pc = "open" => phase[consumer'["ride.requested"].ride] \in Matched
    BY <2>1, TopicSets, BusyHasRide DEF WindowInv, MatchedFirst
  <2> QED
    BY <1>7, <2>1, <2>2, TopicSets, WindowUntouched
<1>8. ASSUME NEW t \in Enders, InsertSummary(t) PROVE WindowInv'
  <2>1. t \in Topics /\ t \notin Openers /\ consumer[t].pc = "range" /\ UNCHANGED windowVars
    BY <1>8, TopicSets DEF InsertSummary, At
  <2>2. MoveStep(t, "close", consumer[t].found) /\ consumer[t].found \in BOOLEAN
    BY <1>8, <2>1, StepMoves DEF InsertSummary, MessageInv
  <2> QED
    BY <1>7, <2>1, <2>2 DEF PcOf, EnderPc
<1>9. ASSUME NEW t \in Topics, HandlerError(t) PROVE WindowInv'
  <2>1. MoveStep(t, "retry", FALSE) /\ UNCHANGED windowVars
    BY <1>9 DEF HandlerError, MoveStep, Local
  <2>2. "retry" \in PcOf(t) \ {"idle", "open", "delete"} /\ FALSE \in BOOLEAN
    BY DEF PcOf, OpenerPc, EnderPc
  <2> QED
    BY <1>7, <2>1, <2>2, Zenon
<1>10. ASSUME NEW t \in Enders, ReadWindow(t) PROVE WindowInv'
  BY <1>10, ReadKeepsWindow
<1>11. ASSUME NEW t \in Enders, DeleteWindow(t) PROVE WindowInv'
  BY <1>11, DeleteKeepsWindow
<1>12. ASSUME NEW r \in Rides, Expire(r) PROVE WindowInv'
  BY <1>12, ExpireKeepsWindow
<1>13. CASE Crash
  <2>1. \A t \in Topics : consumer'[t].ride = None /\ consumer'[t].pc = "idle"
    BY <1>13 DEF Crash, Idle
  <2>2. UNCHANGED <<phase, queue>> /\ UNCHANGED windowVars
    BY <1>13 DEF Crash
  <2> QED
    BY <2>1, <2>2, TopicSets, WindowUntouched
<1>14. ASSUME UNCHANGED <<phase, queue, consumer>>, UNCHANGED windowVars PROVE WindowInv'
  <2>1. consumer["ride.requested"].pc = "open" => phase[consumer["ride.requested"].ride] \in Matched
    BY TopicSets, BusyHasRide DEF WindowInv, MatchedFirst
  <2> QED
    BY <1>14, <2>1, WindowUntouched
<1>15. CASE \/ ShiftUpdatedConsumer
            \/ \E s \in Subjects : AppendPosition(s) \/ AppendFails(s)
            \/ \E d \in Drivers : DriverPing(d) \/ Age(d)
            \/ \E c \in Clients : ClientPing(c)
            \/ StaleDriverIDs \/ Evict \/ EvictFails
  <2>1. UNCHANGED <<phase, queue, consumer>> /\ UNCHANGED windowVars
    BY <1>15 DEF ShiftUpdatedConsumer, UpsertOwner, AppendPosition, AppendFails, DriverPing, Age,
       ClientPing, StaleDriverIDs, Evict, EvictFails
  <2> QED
    BY <1>14, <2>1
<1>16. CASE Archive \/ UNCHANGED vars
  <2>1. UNCHANGED <<phase, queue, consumer>> /\ UNCHANGED windowVars
    BY <1>16 DEF Archive, ReadBehindCursor, PutBatch, PutBatchFails, SetCursor, vars
  <2> QED
    BY <1>14, <2>1
<1> QED
  BY <1>1, <1>2, <1>3, <1>4, <1>5, <1>6, <1>8, <1>9, <1>10, <1>11, <1>12, <1>13, <1>15, <1>16,
     TopicSets DEF Next, Consume, RideRequestedConsumer, RideAcceptedConsumer,
     RideCompletedConsumer, RideCancelledConsumer

-----------------------------------------------------------------------------
(* Streams.                                                                *)

streamVars == <<track, trimmed, ingest, pings>>

StreamStep ==
  \/ \E s \in Subjects : AppendPosition(s) \/ AppendFails(s)
  \/ \E d \in Drivers : DriverPing(d)
  \/ \E c \in Clients : ClientPing(c)
  \/ Crash

\* The other actions do not touch the streams.
LEMMA StreamFrame == ASSUME [Next]_vars, ~StreamStep PROVE UNCHANGED streamVars
<1> USE DEF streamVars, records, presence
<1>1. CASE \E r \in Rides : Request(r) \/ Accept(r) \/ End(r) \/ Expire(r)
  BY <1>1 DEF Request, Accept, End, Expire, Publish
<1>2. CASE Consume
  BY <1>2 DEF Consume, RideRequestedConsumer, RideAcceptedConsumer, RideCompletedConsumer,
     RideCancelledConsumer, RecordRideRequested, RecordRideAccepted, GetPending, OpenWindow,
     ReadParticipants, InsertSummary, ReadWindow, DeleteWindow
<1>3. CASE ShiftUpdatedConsumer \/ \E t \in Topics : HandlerError(t)
  BY <1>3 DEF ShiftUpdatedConsumer, UpsertOwner, HandlerError
<1>4. CASE Archive
  BY <1>4 DEF Archive, ReadBehindCursor, PutBatch, PutBatchFails, SetCursor
<1>5. CASE (\E d \in Drivers : Age(d)) \/ StaleDriverIDs \/ Evict \/ EvictFails
  BY <1>5 DEF Age, StaleDriverIDs, Evict, EvictFails
<1>6. CASE UNCHANGED vars
  BY <1>6 DEF vars
<1> QED
  BY <1>1, <1>2, <1>3, <1>4, <1>5, <1>6 DEF Next, StreamStep

\* The positions on their way to one ride are finitely many.
LEMMA InFlightFinite ==
  ASSUME StreamInv, NEW r \in Rides
  PROVE  IsFiniteSet(InFlightTo(r)) /\ Cardinality(InFlightTo(r)) \in Nat
<1>1. InFlightTo(r) \subseteq InFlight
  BY TrackingAssumption DEF InFlightTo, InFlight
<1> QED
  BY <1>1, FS_Subset, FS_CardinalityType DEF StreamInv

LEMMA StreamInitially == Init => StreamInv
<1> SUFFICES ASSUME Init PROVE StreamInv
  OBVIOUS
<1>1. InFlight = {} /\ \A r \in Rides : InFlightTo(r) = {}
  BY TrackingAssumption DEF Init, InFlight, InFlightTo
<1>2. IsFiniteSet({}) /\ Cardinality({}) = 0
  BY FS_EmptySet
<1>3. << >> \in Seq({"Driver", "Client"}) /\ Len(<< >>) = 0
  OBVIOUS
<1>4. track = [r \in Rides |-> << >>] /\ track \in [Rides -> Seq({"Driver", "Client"})]
  BY <1>3 DEF Init
<1>5. \A r \in Rides : Len(track[r]) = 0 /\ trimmed[r] = 0
  BY <1>3, <1>4 DEF Init
<1>6. trimmed \in [Rides -> Nat] /\ ingest \in [Subjects -> Rides \cup {None}] /\ pings = 0 /\ 0 \in 0..MaxPings
  BY TrackingAssumption DEF Init
<1>7. ASSUME NEW r \in Rides PROVE Len(track[r]) + Cardinality(InFlightTo(r)) <= pings
  <2>1. Cardinality(InFlightTo(r)) = 0
    BY <1>1, <1>2
  <2> QED
    BY <1>5, <1>6, <2>1
<1> QED
  BY <1>1, <1>2, <1>4, <1>5, <1>6, <1>7 DEF StreamInv

\* A position is accepted: one more ping, at most one more on its way to any ride.
LEMMA PingKeeps ==
  ASSUME WindowInv, StreamInv, NEW s \in Subjects, ReadActiveRide(s), UNCHANGED <<track, trimmed>>
  PROVE  StreamInv'
<1>1. /\ ingest' \in [Subjects -> Rides \cup {None}] /\ pings' \in 0..MaxPings /\ pings' = pings + 1 /\ pings \in Nat
      /\ \A q \in Subjects : ingest'[q] = IF q = s THEN activeRide[s] ELSE ingest[q]
  BY TrackingAssumption DEF ReadActiveRide, StreamInv, WindowInv, WindowType
<1>2. IsFiniteSet(InFlight')
  <2>1. InFlight' \subseteq InFlight \cup {s}
    BY <1>1 DEF InFlight
  <2> QED
    BY <2>1, FS_AddElement, FS_Subset DEF StreamInv
<1>3. ASSUME NEW r \in Rides PROVE Len(track'[r]) + Cardinality(InFlightTo(r)') <= pings'
  <2>1. InFlightTo(r)' \subseteq InFlightTo(r) \cup {s}
    BY <1>1 DEF InFlightTo
  <2>2. IsFiniteSet(InFlightTo(r)) /\ Cardinality(InFlightTo(r)) \in Nat
    BY InFlightFinite
  <2>3. /\ IsFiniteSet(InFlightTo(r) \cup {s})
        /\ Cardinality(InFlightTo(r) \cup {s}) \in {Cardinality(InFlightTo(r)), Cardinality(InFlightTo(r)) + 1}
    BY <2>2, FS_AddElement
  <2>4. Cardinality(InFlightTo(r)') <= Cardinality(InFlightTo(r) \cup {s}) /\ Cardinality(InFlightTo(r)') \in Nat
    BY <2>1, <2>3, FS_Subset, FS_CardinalityType
  <2>5. Len(track[r]) \in Nat /\ Len(track[r]) + Cardinality(InFlightTo(r)) <= pings /\ track' = track
    BY DEF StreamInv
  <2> QED
    BY <1>1, <2>2, <2>3, <2>4, <2>5
<1> QED
  BY <1>1, <1>2, <1>3 DEF StreamInv

\* XADD: the position is no longer on its way, and MAXLEN leaves the newest.
LEMMA AppendKeeps ==
  ASSUME StreamInv, NEW s \in Subjects, AppendPosition(s)
  PROVE  /\ StreamInv'
         /\ \A r \in Rides : /\ Len(track[r]) <= Len(track'[r]) /\ trimmed[r] <= trimmed'[r]
                             /\ \A i \in 1..Len(track[r]) : track'[r][i] = track[r][i]
<1>0. PICK r \in Rides : r = ingest[s]
  BY DEF AppendPosition, StreamInv
<1>1. Role(s) \in {"Driver", "Client"}
  BY DEF Role
<1>2. track[r] \in Seq({"Driver", "Client"}) /\ Len(track[r]) \in Nat /\ trimmed[r] \in Nat
  BY <1>1 DEF StreamInv
<1>3. track' = [track EXCEPT ![r] = track[r] \o <<Role(s)>>]
  BY <1>0 DEF AppendPosition
<1>4. PICK n \in trimmed[r]..(IF Len(track[r]) + 1 - StreamCap > trimmed[r] THEN Len(track[r]) + 1 - StreamCap ELSE trimmed[r]) :
        trimmed' = [trimmed EXCEPT ![r] = n]
  BY <1>0 DEF AppendPosition
<1>5. n \in Nat /\ n >= trimmed[r] /\ (n = 0 \/ n < Len(track[r]) + 1)
  BY <1>1, <1>2, TrackingAssumption DEF StreamInv
<1>6. /\ track[r] \o <<Role(s)>> \in Seq({"Driver", "Client"})
      /\ Len(track[r] \o <<Role(s)>>) = Len(track[r]) + 1
      /\ \A i \in 1..Len(track[r]) : (track[r] \o <<Role(s)>>)[i] = track[r][i]
  BY <1>1, <1>2
<1>7. /\ track' \in [Rides -> Seq({"Driver", "Client"})] /\ track'[r] = track[r] \o <<Role(s)>>
      /\ \A q \in Rides : q # r => track'[q] = track[q]
  BY <1>1, <1>3, <1>6 DEF StreamInv
<1>8. /\ trimmed' \in [Rides -> Nat] /\ trimmed'[r] = n
      /\ \A q \in Rides : q # r => trimmed'[q] = trimmed[q]
  BY <1>1, <1>4, <1>5 DEF StreamInv
<1>9. /\ ingest' \in [Subjects -> Rides \cup {None}] /\ pings' = pings
      /\ \A q \in Subjects : ingest'[q] = IF q = s THEN None ELSE ingest[q]
  BY DEF AppendPosition, StreamInv, presence
<1>10. IsFiniteSet(InFlight')
  <2>1. InFlight' \subseteq InFlight
    BY <1>9 DEF InFlight
  <2> QED
    BY <2>1, FS_Subset DEF StreamInv
<1>11. ASSUME NEW q \in Rides PROVE Len(track'[q]) + Cardinality(InFlightTo(q)') <= pings'
  <2>1. CASE q = r
    <3>1. s \in InFlightTo(r) /\ InFlightTo(r)' = InFlightTo(r) \ {s}
      BY <1>0, <1>9, TrackingAssumption DEF InFlightTo
    <3>2. IsFiniteSet(InFlightTo(r)) /\ Cardinality(InFlightTo(r)) \in Nat
      BY <1>1, InFlightFinite
    <3>3. Cardinality(InFlightTo(r)') = Cardinality(InFlightTo(r)) - 1
      BY <3>1, <3>2, FS_RemoveElement
    <3>4. Len(track[r]) + Cardinality(InFlightTo(r)) <= pings /\ pings \in Nat
      BY <1>1, TrackingAssumption DEF StreamInv
    <3>5. Len(track'[r]) = Len(track[r]) + 1
      BY <1>6, <1>7
    <3> QED
      BY <1>2, <1>9, <2>1, <3>2, <3>3, <3>4, <3>5
  <2>2. CASE q # r
    <3>1. InFlightTo(q)' = InFlightTo(q)
      BY <1>0, <1>9, <2>2, TrackingAssumption DEF InFlightTo
    <3> QED
      BY <1>7, <1>9, <2>2, <3>1 DEF StreamInv
  <2> QED
    BY <2>1, <2>2
<1>12. ASSUME NEW q \in Rides PROVE trimmed'[q] = 0 \/ trimmed'[q] < Len(track'[q])
  BY <1>5, <1>6, <1>7, <1>8 DEF StreamInv
<1>13. StreamInv'
  BY <1>7, <1>8, <1>9, <1>10, <1>11, <1>12 DEF StreamInv
<1>14. ASSUME NEW q \in Rides
       PROVE  /\ Len(track[q]) <= Len(track'[q]) /\ trimmed[q] <= trimmed'[q]
              /\ \A i \in 1..Len(track[q]) : track'[q][i] = track[q][i]
  <2>1. Len(track[q]) \in Nat /\ trimmed[q] \in Nat
    BY DEF StreamInv
  <2> QED
    BY <1>5, <1>6, <1>7, <1>8, <2>1
<1> QED
  BY <1>13, <1>14

\* A failed append and a crash only forget positions.
LEMMA ForgetKeeps ==
  ASSUME StreamInv, UNCHANGED <<track, trimmed, pings>>,
         ingest' \in [Subjects -> Rides \cup {None}],
         \A s \in Subjects : ingest'[s] \in {ingest[s], None}
  PROVE  StreamInv'
<1>1. IsFiniteSet(InFlight')
  <2>1. InFlight' \subseteq InFlight
    BY DEF InFlight
  <2> QED
    BY <2>1, FS_Subset DEF StreamInv
<1>2. ASSUME NEW r \in Rides PROVE Len(track[r]) + Cardinality(InFlightTo(r)') <= pings
  <2>1. InFlightTo(r)' \subseteq InFlightTo(r)
    BY TrackingAssumption DEF InFlightTo
  <2>2. IsFiniteSet(InFlightTo(r)) /\ Cardinality(InFlightTo(r)) \in Nat
    BY InFlightFinite
  <2>3. Cardinality(InFlightTo(r)') <= Cardinality(InFlightTo(r)) /\ Cardinality(InFlightTo(r)') \in Nat
    BY <2>1, <2>2, FS_Subset, FS_CardinalityType
  <2>4. Len(track[r]) \in Nat /\ pings \in Nat /\ Len(track[r]) + Cardinality(InFlightTo(r)) <= pings
    BY DEF StreamInv
  <2> QED
    BY <2>2, <2>3, <2>4
<1> QED
  BY <1>1, <1>2 DEF StreamInv

\* Every step keeps the fourth layer, and streams only grow.
LEMMA StreamKept ==
  ASSUME WindowInv, StreamInv, [Next]_vars
  PROVE  /\ StreamInv'
         /\ \A r \in Rides : /\ Len(track[r]) <= Len(track'[r]) /\ trimmed[r] <= trimmed'[r]
                             /\ \A i \in 1..Len(track[r]) : track'[r][i] = track[r][i]
<1>1. \A r \in Rides : Len(track[r]) \in Nat /\ trimmed[r] \in Nat
  BY DEF StreamInv
<1>2. ASSUME UNCHANGED <<track, trimmed>>
      PROVE  \A r \in Rides : /\ Len(track[r]) <= Len(track'[r]) /\ trimmed[r] <= trimmed'[r]
                              /\ \A i \in 1..Len(track[r]) : track'[r][i] = track[r][i]
  BY <1>1, <1>2
<1>3. CASE \E s \in Subjects : AppendPosition(s)
  BY <1>3, AppendKeeps
<1>4. CASE \E s \in Subjects : AppendFails(s)
  <2>1. UNCHANGED <<track, trimmed, pings>>
    BY <1>4 DEF AppendFails, records, presence
  <2>2. StreamInv'
    BY <1>4, <2>1, ForgetKeeps DEF AppendFails, StreamInv
  <2> QED
    BY <1>2, <2>1, <2>2
<1>5. CASE \E s \in Subjects : DriverPing(s) \/ ClientPing(s)
  <2>1. UNCHANGED <<track, trimmed>>
    BY <1>5 DEF DriverPing, ClientPing, records
  <2>2. StreamInv'
    BY <1>5, <2>1, PingKeeps DEF DriverPing, ClientPing
  <2> QED
    BY <1>2, <2>1, <2>2
<1>6. CASE Crash
  <2>1. UNCHANGED <<track, trimmed, pings>>
    BY <1>6 DEF Crash, records
  <2>2. StreamInv'
    BY <1>6, <2>1, ForgetKeeps DEF Crash
  <2> QED
    BY <1>2, <2>1, <2>2
<1>7. CASE ~StreamStep
  <2>1. UNCHANGED streamVars
    BY <1>7, StreamFrame
  <2>2. StreamInv'
    BY <2>1 DEF StreamInv, streamVars, InFlight, InFlightTo
  <2> QED
    BY <1>2, <2>1, <2>2 DEF streamVars
<1> QED
  BY <1>3, <1>4, <1>5, <1>6, <1>7 DEF StreamStep, Subjects

-----------------------------------------------------------------------------
(* Summaries.                                                              *)

summaryVars == <<summary, ready, atEnd>>

SummaryStep == \E t \in Enders : (\E m \in queue : ReadParticipants(t, m)) \/ InsertSummary(t)

\* The other actions touch neither the summaries nor the outbox.
LEMMA SummaryFrame == ASSUME [Next]_vars, ~SummaryStep PROVE UNCHANGED summaryVars
<1> USE DEF summaryVars, ghosts
<1>1. CASE \E r \in Rides : Request(r) \/ Accept(r) \/ End(r) \/ Expire(r)
  BY <1>1 DEF Request, Accept, End, Expire, Publish
<1>2. CASE Consume
  BY <1>2, TopicSets DEF Consume, RideRequestedConsumer, RideAcceptedConsumer,
     RideCompletedConsumer, RideCancelledConsumer, RecordRideRequested, RecordRideAccepted,
     GetPending, OpenWindow, ReadWindow, DeleteWindow, SummaryStep
<1>3. CASE ShiftUpdatedConsumer \/ \E t \in Topics : HandlerError(t)
  BY <1>3 DEF ShiftUpdatedConsumer, UpsertOwner, HandlerError
<1>4. CASE Archive \/ Crash
  BY <1>4 DEF Archive, ReadBehindCursor, PutBatch, PutBatchFails, SetCursor, Crash
<1>5. CASE \/ \E s \in Subjects : AppendPosition(s) \/ AppendFails(s)
           \/ \E d \in Drivers : DriverPing(d) \/ Age(d)
           \/ \E c \in Clients : ClientPing(c)
           \/ StaleDriverIDs \/ Evict \/ EvictFails
  BY <1>5 DEF AppendPosition, AppendFails, DriverPing, Age, ClientPing, StaleDriverIDs, Evict,
     EvictFails
<1>6. CASE UNCHANGED vars
  BY <1>6 DEF vars
<1> QED
  BY <1>1, <1>2, <1>3, <1>4, <1>5, <1>6 DEF Next

\* What a step must leave of a ride whose end is still to be handled.
LEMMA WaitingFrame ==
  ASSUME NEW r \in Rides, Waiting(r), r \in participants',
         \A m \in queue : m.topic \in Enders /\ m.ride = r => m \in queue',
         \A t \in Enders : consumer'[t].ride = r => consumer'[t].pc \in {"retry", "range"}
  PROVE  Waiting(r)'
BY DEF Waiting

\* Until the summary is inserted the window stays open and the message of the end
\* uncommitted: an error starts the handler again and a crash delivers the message again.
LEMMA WaitingKept ==
  ASSUME MessageInv, WindowInv, [Next]_vars, NEW r \in Rides, Waiting(r),
         \A t \in Enders : InsertSummary(t) => consumer[t].ride # r
  PROVE  Waiting(r)'
<1>1. PICK m \in queue : m.topic \in Enders /\ m.ride = r /\ m.matched
  BY DEF Waiting
<1>2. r \in participants /\ r # None /\ \A t \in Enders : consumer[t].ride = r => consumer[t].pc \in {"retry", "range"}
  BY TrackingAssumption DEF Waiting
<1>3. ASSUME NEW q \in Rides, PublishStep(q), UNCHANGED windowVars PROVE Waiting(r)'
  BY <1>2, <1>3, WaitingFrame DEF PublishStep, windowVars
<1>4. ASSUME NEW t \in Openers, NEW n \in queue, TakeStep(t, n, "get"), UNCHANGED participants PROVE Waiting(r)'
  <2>1. t \in Topics /\ t \notin Enders /\ "get" \in PcOf(t)
    BY TopicSets DEF PcOf, OpenerPc
  <2>2. (\A u \in Topics : u # t => consumer'[u] = consumer[u]) /\ queue' = queue
    BY <1>4, <2>1, TakeEffect DEF MessageInv, TakeStep
  <2> QED
    BY <1>2, <1>4, <2>1, <2>2, TopicSets, WaitingFrame
<1>5. ASSUME NEW t \in Openers, DoneStep(t), participants \subseteq participants' PROVE Waiting(r)'
  <2>1. t \in Topics /\ t \notin Enders
    BY TopicSets
  <2>2. \A u \in Topics : u # t => consumer'[u] = consumer[u]
    BY <1>5, <2>1, DoneEffect DEF MessageInv
  <2>3. Msg(t, consumer[t].ride, consumer[t].matched).topic = t
    BY DEF Msg
  <2>4. \A n \in queue : n.topic \in Enders => n \in queue'
    BY <1>5, <2>1, <2>3 DEF DoneStep
  <2> QED
    BY <1>2, <1>5, <2>1, <2>2, <2>4, TopicSets, WaitingFrame
<1>6. ASSUME NEW t \in Openers, GetPending(t) PROVE Waiting(r)'
  <2>1. t \in Topics /\ t \notin Enders /\ consumer[t].pc = "get" /\ UNCHANGED participants /\ UNCHANGED phase
    BY <1>6, TopicSets DEF GetPending, At, window
  <2>2. CASE Step(t, "open")
    <3>1. MoveStep(t, "open", consumer[t].found) /\ consumer[t].found \in BOOLEAN /\ "open" \in PcOf(t)
      BY <1>6, <2>1, <2>2, StepMoves DEF MessageInv, PcOf, OpenerPc
    <3>2. (\A u \in Topics : u # t => consumer'[u] = consumer[u]) /\ queue' = queue
      BY <2>1, <3>1, MoveEffect DEF MessageInv, MoveStep
    <3> QED
      BY <1>2, <2>1, <3>2, TopicSets, WaitingFrame
  <2>3. CASE Commit(t)
    <3>1. DoneStep(t)
      BY <2>1, <2>3, CommitDone
    <3> QED
      BY <1>5, <2>1, <3>1
  <2> QED
    BY <1>6, <2>2, <2>3 DEF GetPending
<1>7. ASSUME NEW t \in Openers, OpenWindow(t) PROVE Waiting(r)'
  <2>1. consumer[t].pc # "idle" /\ Commit(t) /\ UNCHANGED phase /\ participants \subseteq participants'
    BY <1>7 DEF OpenWindow, At, CompleteWindow
  <2>2. DoneStep(t)
    BY <2>1, CommitDone
  <2> QED
    BY <1>5, <2>1, <2>2
<1>8. ASSUME NEW t \in Enders, NEW n \in queue, ReadParticipants(t, n) PROVE Waiting(r)'
  <2>1. PICK p \in {"range", "close"} : Start(t, n, p) /\ (n.matched /\ n.ride \in participants => p = "range")
    BY <1>8 DEF ReadParticipants
  <2>2. TakeStep(t, n, p) /\ t \in Topics /\ p \in PcOf(t) /\ UNCHANGED participants
    BY <1>8, <2>1, StartTakes, TopicSets DEF ReadParticipants, PcOf, EnderPc, window
  <2>3. /\ \A u \in Topics : u # t => consumer'[u] = consumer[u]
        /\ consumer'[t].pc = p /\ consumer'[t].ride = n.ride
    BY <2>2, TakeEffect DEF MessageInv
  <2>5. queue' = queue /\ n.topic = t
    BY <2>2 DEF TakeStep
  <2>4. n.ride = r => n = m
    BY <1>1, <2>5 DEF MessageInv
  <2> QED
    BY <1>1, <1>2, <2>1, <2>2, <2>3, <2>4, <2>5, TopicSets, WaitingFrame
<1>9. ASSUME NEW t \in Topics, NEW p \in PcOf(t), NEW b \in BOOLEAN, MoveStep(t, p, b), UNCHANGED participants,
             t \in Enders /\ consumer[t].ride = r => p = "retry"
      PROVE  Waiting(r)'
  <2>1. (\A u \in Topics : u # t => consumer'[u] = consumer[u]) /\ queue' = queue /\ consumer'[t].pc = p /\ consumer'[t].ride = consumer[t].ride
    BY <1>9, MoveEffect DEF MessageInv, MoveStep
  <2> QED
    BY <1>2, <1>9, <2>1, TopicSets, WaitingFrame
<1>10. ASSUME NEW t \in Enders, InsertSummary(t) PROVE Waiting(r)'
  <2>1. t \in Topics /\ t \notin Openers /\ consumer[t].pc # "idle" /\ "close" \in PcOf(t) /\ consumer[t].ride # r /\ UNCHANGED participants
    BY <1>10, TopicSets DEF InsertSummary, At, PcOf, EnderPc, window
  <2>2. MoveStep(t, "close", consumer[t].found) /\ consumer[t].found \in BOOLEAN
    BY <1>10, <2>1, StepMoves DEF InsertSummary, MessageInv
  <2> QED
    BY <1>9, <2>1, <2>2
<1>11. ASSUME NEW t \in Enders, ReadWindow(t) PROVE Waiting(r)'
  <2>1. t \in Topics /\ t \notin Openers /\ consumer[t].pc = "close" /\ "delete" \in PcOf(t) /\ UNCHANGED participants
    BY <1>11, TopicSets DEF ReadWindow, At, PcOf, EnderPc, window
  <2>2. MoveStep(t, "delete", consumer[t].ride \in participants)
    BY <1>11, <2>1 DEF ReadWindow, MoveStep, Local
  <2>3. PICK b \in BOOLEAN : MoveStep(t, "delete", b)
    <3>1. (consumer[t].ride \in participants) \in BOOLEAN
      OBVIOUS
    <3> QED
      BY <2>2, <3>1, Zenon
  <2>4. consumer[t].ride # r
    BY <1>2, <2>1
  <2> QED
    BY <1>9, <2>1, <2>3, <2>4
<1>12. ASSUME NEW t \in Enders, DeleteWindow(t) PROVE Waiting(r)'
  <2>1. t \in Topics /\ consumer[t].pc = "delete" /\ consumer[t].ride # r
    BY <1>2, <1>12, TopicSets DEF DeleteWindow, At
  <2>2. DoneStep(t) /\ participants' = participants \ {consumer[t].ride}
    BY <1>12, <2>1, CommitDone DEF DeleteWindow, CloseWindow
  <2>3. (\A u \in Topics : u # t => consumer'[u] = consumer[u]) /\ consumer'[t].ride = None
    BY <2>1, <2>2, DoneEffect DEF MessageInv
  <2>4. Msg(t, consumer[t].ride, consumer[t].matched).ride = consumer[t].ride
    BY DEF Msg
  <2>5. \A n \in queue : n.ride = r => n \in queue'
    BY <2>1, <2>2, <2>4 DEF DoneStep
  <2> QED
    BY <1>2, <2>1, <2>2, <2>3, <2>5, TopicSets, WaitingFrame
<1>13. ASSUME NEW t \in Topics, HandlerError(t) PROVE Waiting(r)'
  <2>1. MoveStep(t, "retry", FALSE) /\ UNCHANGED participants
    BY <1>13 DEF HandlerError, MoveStep, Local, window
  <2>2. "retry" \in PcOf(t)
    BY DEF PcOf, OpenerPc, EnderPc
  <2>3. PICK b \in BOOLEAN : MoveStep(t, "retry", b)
    BY <2>1, Zenon
  <2> QED
    BY <1>9, <2>1, <2>2, <2>3
<1>14. ASSUME NEW q \in Rides, Expire(q) PROVE Waiting(r)'
  BY <1>1, <1>2, <1>14, WaitingFrame DEF Expire, Quiet
<1>15. CASE Crash
  <2>1. \A t \in Topics : consumer'[t].ride = None
    BY <1>15 DEF Crash, Idle
  <2>2. UNCHANGED <<queue, participants>>
    BY <1>15 DEF Crash, window
  <2> QED
    BY <1>2, <2>1, <2>2, TopicSets, WaitingFrame
<1>16. CASE UNCHANGED <<queue, consumer, participants>>
  BY <1>2, <1>16, WaitingFrame
<1>17. CASE \/ ShiftUpdatedConsumer
            \/ \E s \in Subjects : AppendPosition(s) \/ AppendFails(s)
            \/ \E d \in Drivers : DriverPing(d) \/ Age(d)
            \/ \E c \in Clients : ClientPing(c)
            \/ StaleDriverIDs \/ Evict \/ EvictFails
  BY <1>16, <1>17 DEF ShiftUpdatedConsumer, UpsertOwner, AppendPosition, AppendFails, DriverPing,
     Age, ClientPing, StaleDriverIDs, Evict, EvictFails, window
<1>18. CASE Archive \/ UNCHANGED vars
  BY <1>16, <1>18 DEF Archive, ReadBehindCursor, PutBatch, PutBatchFails, SetCursor, vars, window
<1>19. CASE \E q \in Rides : Request(q) \/ Accept(q) \/ End(q)
  <2>1. PICK q \in Rides : Request(q) \/ Accept(q) \/ End(q)
    BY <1>19
  <2>2. PublishStep(q) /\ UNCHANGED windowVars
    BY <2>1 DEF Request, Accept, End, Publish, PublishStep, Enders, Openers, Topics, window,
       ghosts, windowVars
  <2> QED
    BY <1>3, <2>2
<1>20. ASSUME NEW n \in queue, RecordRideRequested(n) \/ RecordRideAccepted(n) PROVE Waiting(r)'
  <2>1. UNCHANGED participants /\ \E t \in Openers : TakeStep(t, n, "get")
    BY <1>20, StartTakes, TopicSets DEF RecordRideRequested, RecordRideAccepted
  <2> QED
    BY <1>4, <2>1
<1> QED
  BY <1>6, <1>7, <1>8, <1>10, <1>11, <1>12, <1>13, <1>14, <1>15, <1>17, <1>18, <1>19, <1>20,
     TopicSets DEF Next, Consume, RideRequestedConsumer, RideAcceptedConsumer,
     RideCompletedConsumer, RideCancelledConsumer

LEMMA SummaryInitially == Init => SummaryInv
<1> SUFFICES ASSUME Init PROVE SummaryInv
  OBVIOUS
<1>1. NoSummary \in [built : BOOLEAN, points : SUBSET Nat] /\ NoSummary.built = FALSE /\ NoSummary.points = {}
  BY DEF NoSummary
<1>2. \A r \in Rides : summary[r] = NoSummary /\ ready[r] = 0 /\ atEnd[r] = {}
  BY DEF Init
<1>3. SummaryType
  BY <1>1, <1>2 DEF Init, SummaryType
<1> QED
  BY <1>1, <1>2, <1>3 DEF SummaryInv, SummaryPublishedOnce, Covered

\* Steps that leave the summaries alone: the streams only grow.
LEMMA SummaryUntouched ==
  ASSUME MessageInv, WindowInv, StreamInv, SummaryInv, [Next]_vars, ~SummaryStep PROVE SummaryInv'
<1>1. UNCHANGED summaryVars
  BY SummaryFrame
<1>2. \A r \in Rides : /\ Len(track[r]) <= Len(track'[r]) /\ trimmed[r] <= trimmed'[r]
                       /\ \A i \in 1..Len(track[r]) : track'[r][i] = track[r][i]
  BY StreamKept
<1>3. \A r \in Rides : Len(track[r]) \in Nat /\ trimmed[r] \in Nat /\ Len(track'[r]) \in Nat /\ trimmed'[r] \in Nat
  BY StreamKept DEF StreamInv
<1>4. SummaryType'
  BY <1>1, <1>2, <1>3 DEF SummaryInv, SummaryType, summaryVars
<1>5. ASSUME NEW r \in Rides PROVE Covered(r)'
  <2>1. Waiting(r) => Waiting(r)'
    BY WaitingKept DEF SummaryStep
  <2>2. \A i \in atEnd[r] : i \in Nat
    BY DEF SummaryInv, SummaryType
  <2> QED
    BY <1>1, <1>2, <1>3, <2>1, <2>2 DEF SummaryInv, Covered, summaryVars
<1> QED
  BY <1>1, <1>4, <1>5 DEF SummaryInv, SummaryPublishedOnce, summaryVars

\* The end is handled for the first time, or again.
LEMMA ReadKeepsSummary ==
  ASSUME MessageInv, WindowInv, StreamInv, SummaryInv, [Next]_vars,
         NEW t \in Enders, NEW m \in queue, ReadParticipants(t, m)
  PROVE  SummaryInv'
<1> DEFINE r == m.ride
           tracked == m.matched /\ r \in participants
<1>1. r \in Rides /\ m \in Message
  BY DEF MessageInv, MessageType, Message
<1>2. UNCHANGED <<track, trimmed, summary, ready, participants, queue, phase>>
  BY DEF ReadParticipants, records, window, Start
<1>3. ByDriver(r, Entries(r, 0)) \subseteq 1..Len(track[r]) /\ \A i \in ByDriver(r, Entries(r, 0)) : track[r][i] = "Driver"
  BY DEF ByDriver, Entries
<1>4. Len(track[r]) \in Nat
  BY <1>1 DEF StreamInv
<1>5. atEnd' = [atEnd EXCEPT ![r] = ByDriver(r, Entries(r, 0))] \/ atEnd' = atEnd
  BY DEF ReadParticipants
<1> HIDE DEF r
<1>6. SummaryType'
  <2>1. /\ atEnd' \in [Rides -> SUBSET Nat]
        /\ \A q \in Rides : atEnd'[q] = atEnd[q] \/ (q = r /\ atEnd'[q] = ByDriver(r, Entries(r, 0)))
    BY <1>1, <1>3, <1>4, <1>5 DEF SummaryInv, SummaryType
  <2> QED
    <3>1. UNCHANGED <<summary, ready, track>> /\ SummaryType
      BY <1>2 DEF SummaryInv
    <3>2. \A q \in Rides : atEnd'[q] \subseteq 1..Len(track[q]) /\ \A i \in atEnd'[q] : track[q][i] = "Driver"
      BY <1>3, <2>1, <3>1 DEF SummaryType
    <3> QED
      BY <2>1, <3>1, <3>2 DEF SummaryType
<1> USE DEF r
<1>7. ASSUME NEW q \in Rides PROVE Covered(q)'
  <2>1. CASE atEnd'[q] = atEnd[q]
    <3>1. Waiting(q) => Waiting(q)'
      <4>1. ASSUME NEW u \in Enders, InsertSummary(u) PROVE FALSE
        <5>1. PICK p \in {"range", "close"} : Start(t, m, p)
          BY DEF ReadParticipants
        <5>2. TakeStep(t, m, p) /\ t \in Topics /\ p \in PcOf(t) /\ u \in Topics
          BY <1>2, <5>1, StartTakes, TopicSets DEF PcOf, EnderPc
        <5>3. consumer'[t].pc = p
          BY <5>2, TakeEffect DEF MessageInv
        <5>4. consumer[t].pc \in {"idle", "retry"} /\ consumer[u].pc = "range"
          BY <4>1, <5>1 DEF Start, At, InsertSummary
        <5>5. consumer' = [consumer EXCEPT ![u] = [consumer[u] EXCEPT !.pc = "close"]]
          BY <4>1 DEF InsertSummary, Step, Local
        <5>6. consumer'[t] = consumer[t]
          BY <5>2, <5>4, <5>5 DEF MessageInv, MessageType
        <5> QED
          BY <5>1, <5>3, <5>4, <5>6
      <4> QED
        BY <4>1, WaitingKept
    <3> QED
      BY <1>2, <2>1, <3>1 DEF SummaryInv, Covered
  <2>2. CASE atEnd'[q] # atEnd[q]
    <3>1. q = r /\ m.matched /\ r \in participants
      BY <1>1, <2>2 DEF ReadParticipants, SummaryInv, SummaryType
    <3>2. TakeStep(t, m, "range") /\ t \in Topics /\ "range" \in PcOf(t)
      BY <1>2, <3>1, StartTakes, TopicSets DEF ReadParticipants, PcOf, EnderPc
    <3>3. (\A u \in Topics : u # t => consumer'[u] = consumer[u]) /\ consumer'[t].pc = "range" /\ m.topic = t
      BY <3>2, TakeEffect DEF MessageInv, TakeStep
    <3>4. ASSUME NEW u \in Enders, u # t, consumer[u].ride = r PROVE FALSE
      <4>1. consumer[u].pc # "idle"
        BY <1>1, <3>4, TrackingAssumption, TopicSets DEF MessageInv, MessageType
      <4> QED
        BY <3>3, <3>4, <4>1, OneEnder
    <3>5. Waiting(r)'
      BY <1>2, <3>1, <3>3, <3>4, TopicSets DEF Waiting
    <3>6. summary[r].built = FALSE
      BY <2>2, <3>1 DEF ReadParticipants
    <3> QED
      BY <1>2, <3>1, <3>5, <3>6 DEF Covered
  <2> QED
    BY <2>1, <2>2
<1> QED
  BY <1>2, <1>6, <1>7 DEF SummaryInv, SummaryPublishedOnce

\* The summary is inserted, once, with everything of the driver that the stream still has.
LEMMA InsertKeepsSummary ==
  ASSUME MessageInv, WindowInv, StreamInv, SummaryInv, [Next]_vars, NEW t \in Enders, InsertSummary(t)
  PROVE  SummaryInv'
<1>1. t \in Topics /\ consumer[t].pc = "range"
  BY TopicSets DEF InsertSummary, At
<1>2. PICK r \in Rides : r = consumer[t].ride
  BY <1>1, BusyHasRide
<1>3. UNCHANGED <<track, trimmed, atEnd>>
  BY DEF InsertSummary, records, ghosts
<1>4. Len(track[r]) \in Nat /\ trimmed[r] \in Nat /\ (trimmed[r] = 0 \/ trimmed[r] < Len(track[r]))
  BY DEF StreamInv
<1>5. ASSUME NEW u \in Enders, InsertSummary(u) PROVE consumer[u].ride = r
  <2>1. u \in Topics /\ consumer[u].pc = "range" /\ consumer[u] \in Handler
    BY <1>5, TopicSets DEF InsertSummary, At, MessageInv, MessageType
  <2>2. consumer' = [consumer EXCEPT ![u] = [consumer[u] EXCEPT !.pc = "close"]]
    BY <1>5 DEF InsertSummary, Step, Local
  <2>3. consumer' = [consumer EXCEPT ![t] = [consumer[t] EXCEPT !.pc = "close"]]
    BY DEF InsertSummary, Step, Local
  <2>4. consumer'[u].pc = "close"
    BY <2>1, <2>2 DEF MessageInv, MessageType, Handler
  <2>5. u # t => consumer'[u] = consumer[u]
    BY <2>1, <2>3 DEF MessageInv, MessageType
  <2> QED
    BY <1>2, <2>1, <2>4, <2>5
<1>6. CASE UNCHANGED <<summary, ready>>
  <2>1. SummaryType' /\ SummaryPublishedOnce'
    BY <1>3, <1>6 DEF SummaryInv, SummaryType, SummaryPublishedOnce
  <2>2. ASSUME NEW q \in Rides, q # r PROVE Covered(q)'
    BY <1>3, <1>5, <1>6, <2>2, WaitingKept DEF SummaryInv, Covered
  <2>3. Entries(r, 0) = {} \/ summary[r].built
    <3> SUFFICES ASSUME ~summary[r].built, Entries(r, 0) # {} PROVE FALSE
      OBVIOUS
    <3>1. ready' = [ready EXCEPT ![r] = ready[r] + 1]
      BY <1>2 DEF InsertSummary
    <3>2. ready[r] \in Nat /\ ready' = ready
      BY <1>6 DEF SummaryInv, SummaryType
    <3> QED
      BY <3>1, <3>2 DEF SummaryInv, SummaryType
  <2>4. Entries(r, 0) = {} => atEnd[r] = {}
    <3> SUFFICES ASSUME NEW i \in atEnd[r] PROVE Entries(r, 0) # {}
      OBVIOUS
    <3>1. i \in 1..Len(track[r])
      BY DEF SummaryInv, SummaryType
    <3>2. Len(track[r]) \in Entries(r, 0)
      BY <1>4, <3>1 DEF Entries
    <3> QED
      BY <3>2
  <2>5. Covered(r)'
    BY <1>3, <1>6, <2>3, <2>4 DEF SummaryInv, Covered
  <2> QED
    BY <2>1, <2>2, <2>5 DEF SummaryInv
<1>7. CASE ~UNCHANGED <<summary, ready>>
  <2> DEFINE s == [built |-> TRUE, points |-> DriverPositions(r, Entries(r, 0))]
  <2>1. summary' = [summary EXCEPT ![r] = s] /\ ready' = [ready EXCEPT ![r] = ready[r] + 1] /\ ~summary[r].built
    BY <1>2, <1>7 DEF InsertSummary
  <2>2. DriverPositions(r, Entries(r, 0)) \subseteq 1..Len(track[r])
    BY DEF DriverPositions, ByDriver, Entries
  <2>3. s \in [built : BOOLEAN, points : SUBSET Nat] /\ s.built = TRUE /\ s.points = DriverPositions(r, Entries(r, 0))
    BY <1>4, <2>2
  <2>4. ASSUME NEW i \in atEnd[r], i > trimmed[r] PROVE i \in DriverPositions(r, Entries(r, 0))
    <3>1. i \in 1..Len(track[r]) /\ track[r][i] = "Driver"
      BY DEF SummaryInv, SummaryType
    <3>2. i \in ByDriver(r, Entries(r, 0))
      BY <1>4, <2>4, <3>1 DEF ByDriver, Entries
    <3> QED
      BY <3>2 DEF DriverPositions
  <2> HIDE DEF s
  <2>5. /\ summary' \in [Rides -> [built : BOOLEAN, points : SUBSET Nat]] /\ summary'[r] = s
        /\ \A q \in Rides : q # r => summary'[q] = summary[q]
    BY <2>1, <2>3 DEF SummaryInv, SummaryType
  <2>6. ready' \in [Rides -> Nat] /\ ready'[r] = ready[r] + 1 /\ \A q \in Rides : q # r => ready'[q] = ready[q]
    BY <2>1 DEF SummaryInv, SummaryType
  <2>7. SummaryType'
    <3>1. ASSUME NEW q \in Rides PROVE summary'[q].points \subseteq 1..Len(track[q])
      <4>1. CASE q = r
        BY <2>2, <2>3, <2>5, <4>1
      <4>2. CASE q # r
        BY <2>5, <4>2 DEF SummaryInv, SummaryType
      <4> QED
        BY <4>1, <4>2
    <3> QED
      BY <1>3, <2>5, <2>6, <3>1 DEF SummaryInv, SummaryType
  <2>8. SummaryPublishedOnce'
    <3>1. ready[r] = 0
      BY <2>1 DEF SummaryInv, SummaryPublishedOnce
    <3> QED
      BY <2>3, <2>5, <2>6, <3>1 DEF SummaryInv, SummaryPublishedOnce
  <2>9. ASSUME NEW q \in Rides, q # r PROVE Covered(q)'
    BY <1>3, <1>5, <2>5, <2>9, WaitingKept DEF SummaryInv, Covered
  <2>10. Covered(r)'
    <3>1. \A i \in atEnd[r] : i \in Nat
      BY DEF SummaryInv, SummaryType
    <3> QED
      BY <1>3, <1>4, <2>3, <2>4, <2>5, <3>1 DEF Covered
  <2> QED
    BY <2>7, <2>8, <2>9, <2>10 DEF SummaryInv
<1> QED
  BY <1>6, <1>7

\* Every step keeps the fifth layer.
LEMMA SummaryKept == MessageInv /\ WindowInv /\ StreamInv /\ SummaryInv /\ [Next]_vars => SummaryInv'
BY SummaryUntouched, ReadKeepsSummary, InsertKeepsSummary DEF SummaryStep

-----------------------------------------------------------------------------
(* The archive.                                                            *)

archiveVars == <<archivedId, history, archiver>>

\* The other actions touch neither the cursor nor the history.
LEMMA ArchiveFrame == ASSUME [Next]_vars, ~Archive, ~Crash PROVE UNCHANGED archiveVars
<1> USE DEF archiveVars, records
<1>1. CASE \E r \in Rides : Request(r) \/ Accept(r) \/ End(r) \/ Expire(r)
  BY <1>1 DEF Request, Accept, End, Expire, Publish
<1>2. CASE Consume
  BY <1>2 DEF Consume, RideRequestedConsumer, RideAcceptedConsumer, RideCompletedConsumer,
     RideCancelledConsumer, RecordRideRequested, RecordRideAccepted, GetPending, OpenWindow,
     ReadParticipants, InsertSummary, ReadWindow, DeleteWindow
<1>3. CASE ShiftUpdatedConsumer \/ \E t \in Topics : HandlerError(t)
  BY <1>3 DEF ShiftUpdatedConsumer, UpsertOwner, HandlerError
<1>4. CASE \/ \E s \in Subjects : AppendPosition(s) \/ AppendFails(s)
           \/ \E d \in Drivers : DriverPing(d) \/ Age(d)
           \/ \E c \in Clients : ClientPing(c)
           \/ StaleDriverIDs \/ Evict \/ EvictFails
  BY <1>4 DEF AppendPosition, AppendFails, DriverPing, Age, ClientPing, StaleDriverIDs, Evict,
     EvictFails
<1>5. CASE UNCHANGED vars
  BY <1>5 DEF vars
<1> QED
  BY <1>1, <1>2, <1>3, <1>4, <1>5 DEF Next

\* A batch of positions has a latest one.
LEMMA LatestIsLast ==
  ASSUME NEW N \in Nat, NEW S, S \subseteq 1..N, S # {}
  PROVE  Latest(S) \in S /\ \A j \in S : j <= Latest(S)
<1> DEFINE D == {n \in Nat : N - n \in S}
<1>1. D \subseteq Nat /\ D # {}
  <2>1. PICK i \in S : TRUE
    OBVIOUS
  <2>2. N - i \in Nat /\ N - (N - i) = i
    BY <2>1
  <2> QED
    BY <2>2
<1>2. PICK n \in D : \A k \in D : ~(<<k, n>> \in OpToRel(<, Nat))
  BY <1>1, WFMin, NatLessThanWellFounded
<1>3. n \in Nat /\ N - n \in S /\ \A k \in D : ~(k < n)
  BY <1>2 DEF OpToRel
<1>4. \A j \in S : j <= N - n
  <2> SUFFICES ASSUME NEW j \in S PROVE j <= N - n
    OBVIOUS
  <2>1. j \in 1..N
    OBVIOUS
  <2>2. N - j \in Nat /\ N - (N - j) = j
    BY <2>1
  <2>3. N - j \in D
    BY <2>2
  <2>4. ~(N - j < n)
    BY <1>3, <2>3
  <2> QED
    BY <1>3, <2>1, <2>4
<1> QED
  BY <1>3, <1>4 DEF Latest

\* The oldest entries are closed downwards.
LEMMA OldestFirst ==
  ASSUME NEW N \in Nat, NEW E, E \subseteq 1..N, NEW j \in OldestBatch(E), NEW i \in E, i <= j
  PROVE  i \in OldestBatch(E)
<1> DEFINE Below(k) == {e \in E : e < k}
<1>1. IsFiniteSet(E)
  <2>1. IsFiniteSet(1..N)
    BY FS_Interval
  <2> QED
    BY <2>1, FS_Subset
<1>2. Below(i) \subseteq Below(j) /\ Below(j) \subseteq E
  <2>1. \A e \in E : e \in Int
    OBVIOUS
  <2>2. i \in Int /\ j \in Int
    BY <2>1 DEF OldestBatch
  <2>3. ASSUME NEW e \in E, e < i PROVE e < j
    BY <2>1, <2>2, <2>3
  <2> QED
    BY <2>3
<1>3. IsFiniteSet(Below(j))
  BY <1>1, <1>2, FS_Subset
<1>4. Cardinality(Below(i)) <= Cardinality(Below(j)) /\ Cardinality(Below(i)) \in Nat /\ Cardinality(Below(j)) \in Nat
  BY <1>2, <1>3, FS_Subset, FS_CardinalityType
<1>5. Cardinality(Below(j)) < Batch
  BY DEF OldestBatch
<1>6. Cardinality(Below(i)) < Batch
  <2> HIDE DEF Below
  <2> QED
    BY <1>4, <1>5, TrackingAssumption
<1> QED
  BY <1>6 DEF OldestBatch

LEMMA ArchiveInitially == Init => ArchiveInv
<1> SUFFICES ASSUME Init PROVE ArchiveInv
  OBVIOUS
<1>1. archiver.pc = "rest" /\ archiver \in [pc : {"rest", "put", "cursor"}, ride : Rides \cup {None}, found : SUBSET Nat]
  BY DEF Init, Resting
<1>2. << >> \in Seq({"Driver", "Client"}) /\ Len(<< >>) = 0
  OBVIOUS
<1>3. archivedId \in [Rides -> Nat] /\ \A r \in Rides : archivedId[r] = 0 /\ Len(track[r]) = 0
  BY <1>2 DEF Init
<1>4. NoArchiveGap
  BY <1>3 DEF NoArchiveGap
<1> QED
  BY <1>1, <1>3, <1>4 DEF ArchiveInv, BatchInv

\* A worker that rests holds nothing.
LEMMA AtRest ==
  ASSUME archiver' = Resting PROVE BatchInv'
<1>1. Resting.pc = "rest" /\ Resting \in [pc : {"rest", "put", "cursor"}, ride : Rides \cup {None}, found : SUBSET Nat]
  BY DEF Resting
<1> QED
  BY <1>1 DEF BatchInv

\* The streams grow and are trimmed beside the worker.
LEMMA ArchiveUntouched ==
  ASSUME WindowInv, StreamInv, ArchiveInv, [Next]_vars, ~Archive, ~Crash PROVE ArchiveInv'
<1>1. UNCHANGED <<archivedId, history, archiver>>
  BY ArchiveFrame DEF archiveVars
<1>2. \A r \in Rides : /\ Len(track[r]) <= Len(track'[r]) /\ trimmed[r] <= trimmed'[r]
                       /\ Len(track[r]) \in Nat /\ trimmed[r] \in Nat /\ Len(track'[r]) \in Nat /\ trimmed'[r] \in Nat
  BY StreamKept DEF StreamInv
<1>3. NoArchiveGap'
  <2> SUFFICES ASSUME NEW r \in Rides, NEW i \in 1..archivedId[r] PROVE <<r, i>> \in history \/ i <= trimmed'[r]
    BY <1>1 DEF NoArchiveGap
  <2>1. <<r, i>> \in history \/ i <= trimmed[r]
    BY DEF ArchiveInv, NoArchiveGap
  <2>2. i \in Int
    BY DEF ArchiveInv
  <2> QED
    BY <1>2, <2>1, <2>2
<1>4. BatchInv'
  <2>1. CASE archiver.pc = "rest"
    BY <1>1, <2>1 DEF ArchiveInv, BatchInv
  <2>2. CASE archiver.pc # "rest"
    <3>1. PICK r \in Rides : r = archiver.ride
      BY <2>2 DEF ArchiveInv, BatchInv
    <3>2. archiver.found # {} /\ archiver.found \subseteq 1..Len(track[r])
      BY <2>2, <3>1 DEF ArchiveInv, BatchInv
    <3>3. archiver.found \subseteq 1..Len(track'[r])
      BY <1>2, <3>2
    <3>4. ASSUME NEW i \in 1..Len(track'[r]), NEW j \in archiver.found, archivedId[r] < i, i <= j
          PROVE  i \in archiver.found \/ i <= trimmed'[r]
      <4>1. i \in 1..Len(track[r])
        BY <1>2, <3>2, <3>4
      <4>2. i \in archiver.found \/ i <= trimmed[r]
        BY <2>2, <3>1, <3>4, <4>1 DEF ArchiveInv, BatchInv
      <4> QED
        BY <1>2, <4>1, <4>2
    <3>5. archiver.pc = "cursor" => \A i \in archiver.found : <<r, i>> \in history
      BY <3>1 DEF ArchiveInv, BatchInv
    <3> QED
      BY <1>1, <3>1, <3>2, <3>3, <3>4, <3>5 DEF ArchiveInv, BatchInv
  <2> QED
    BY <2>1, <2>2
<1> QED
  BY <1>1, <1>2, <1>3, <1>4 DEF ArchiveInv

LEMMA ReadKeepsArchive ==
  ASSUME StreamInv, ArchiveInv, NEW r \in Rides, ReadBehindCursor(r) PROVE ArchiveInv'
<1> DEFINE E == Entries(r, archivedId[r])
<1>1. UNCHANGED <<track, trimmed, archivedId, history>>
  BY DEF ReadBehindCursor, records
<1>2. Len(track[r]) \in Nat /\ trimmed[r] \in Nat /\ archivedId[r] \in Nat
  BY DEF StreamInv, ArchiveInv
<1>3. E \subseteq 1..Len(track[r]) /\ \A i \in 1..Len(track[r]) : archivedId[r] < i => i \in E \/ i <= trimmed[r]
  BY <1>2 DEF Entries
<1>4. archiver' = [pc |-> "put", ride |-> r, found |-> OldestBatch(E)] /\ OldestBatch(E) # {}
  BY DEF ReadBehindCursor
<1> HIDE DEF E
<1>5. OldestBatch(E) \subseteq E
  BY DEF OldestBatch
<1>6. ASSUME NEW i \in 1..Len(track[r]), NEW j \in OldestBatch(E), archivedId[r] < i, i <= j
      PROVE  i \in OldestBatch(E) \/ i <= trimmed[r]
  BY <1>2, <1>3, <1>6, OldestFirst
<1>7. /\ archiver'.pc = "put" /\ archiver'.ride = r /\ archiver'.found = OldestBatch(E)
      /\ archiver' \in [pc : {"rest", "put", "cursor"}, ride : Rides \cup {None}, found : SUBSET Nat]
  <2>1. OldestBatch(E) \in SUBSET Nat
    <3>1. 1..Len(track[r]) \subseteq Nat
      BY <1>2
    <3> QED
      BY <1>3, <1>5, <3>1, Zenon
  <2> QED
    BY <1>4, <2>1
<1>8. BatchInv'
  BY <1>1, <1>3, <1>4, <1>5, <1>6, <1>7 DEF BatchInv
<1> QED
  BY <1>1, <1>8 DEF ArchiveInv, NoArchiveGap

LEMMA PutKeepsArchive ==
  ASSUME ArchiveInv, PutBatch PROVE ArchiveInv'
<1>1. UNCHANGED <<track, trimmed, archivedId>> /\ history \subseteq history'
  BY DEF PutBatch
<1>2. /\ archiver'.pc = "cursor" /\ archiver'.ride = archiver.ride /\ archiver'.found = archiver.found
      /\ archiver' \in [pc : {"rest", "put", "cursor"}, ride : Rides \cup {None}, found : SUBSET Nat]
  BY DEF PutBatch, ArchiveInv, BatchInv
<1>3. archiver.pc = "put" /\ \A i \in archiver.found : <<archiver.ride, i>> \in history'
  BY DEF PutBatch
<1>4. BatchInv'
  BY <1>1, <1>2, <1>3 DEF ArchiveInv, BatchInv
<1> QED
  BY <1>1, <1>4 DEF ArchiveInv, NoArchiveGap

LEMMA FailKeepsArchive ==
  ASSUME ArchiveInv, PutBatchFails PROVE ArchiveInv'
<1>1. UNCHANGED <<track, trimmed, archivedId>> /\ history \subseteq history'
  BY DEF PutBatchFails
<1>2. BatchInv'
  BY AtRest DEF PutBatchFails
<1> QED
  BY <1>1, <1>2 DEF ArchiveInv, NoArchiveGap

\* The cursor moves to the end of the batch, over entries that are archived or trimmed.
LEMMA CursorKeepsArchive ==
  ASSUME StreamInv, ArchiveInv, SetCursor PROVE ArchiveInv'
<1>1. UNCHANGED <<track, trimmed, history>> /\ archiver.pc = "cursor"
  BY DEF SetCursor
<1>2. BatchInv'
  BY AtRest DEF SetCursor
<1>3. CASE UNCHANGED archivedId
  BY <1>1, <1>2, <1>3 DEF ArchiveInv, NoArchiveGap
<1>4. CASE archivedId' # archivedId
  <2>1. PICK r \in Rides : r = archiver.ride
    BY <1>1 DEF ArchiveInv, BatchInv
  <2>2. PICK last : last = Latest(archiver.found)
    OBVIOUS
  <2>3. archiver.found # {} /\ archiver.found \subseteq 1..Len(track[r]) /\ Len(track[r]) \in Nat
    BY <1>1, <2>1 DEF ArchiveInv, BatchInv, StreamInv
  <2>4. last \in archiver.found /\ \A j \in archiver.found : j <= last
    BY <2>2, <2>3, LatestIsLast
  <2>5. archivedId' = [archivedId EXCEPT ![r] = last]
    BY <1>4, <2>1, <2>2 DEF SetCursor
  <2>6. archivedId' \in [Rides -> Nat] /\ archivedId'[r] = last /\ \A q \in Rides : q # r => archivedId'[q] = archivedId[q]
    BY <2>3, <2>4, <2>5 DEF ArchiveInv
  <2>7. ASSUME NEW i \in 1..last PROVE <<r, i>> \in history \/ i <= trimmed[r]
    <3>1. archivedId[r] \in Nat /\ i \in 1..Len(track[r])
      BY <2>3, <2>4 DEF ArchiveInv
    <3>2. CASE i <= archivedId[r]
      BY <3>1, <3>2 DEF ArchiveInv, NoArchiveGap
    <3>3. CASE archivedId[r] < i
      <4>1. i <= last
        BY <2>3, <2>4
      <4>2. i \in archiver.found \/ i <= trimmed[r]
        BY <1>1, <2>1, <2>4, <3>1, <3>3, <4>1 DEF ArchiveInv, BatchInv
      <4> QED
        BY <1>1, <2>1, <4>2 DEF ArchiveInv, BatchInv
    <3> QED
      BY <2>3, <2>4, <3>1, <3>2, <3>3
  <2>8. NoArchiveGap'
    BY <1>1, <2>6, <2>7 DEF ArchiveInv, NoArchiveGap
  <2>9. \A q \in Rides : archivedId'[q] <= Len(track'[q])
    BY <1>1, <2>3, <2>4, <2>6 DEF ArchiveInv
  <2> QED
    BY <1>2, <2>6, <2>8, <2>9 DEF ArchiveInv
<1> QED
  BY <1>3, <1>4

\* Every step keeps the sixth layer.
LEMMA ArchiveKept == WindowInv /\ StreamInv /\ ArchiveInv /\ [Next]_vars => ArchiveInv'
<1> SUFFICES ASSUME WindowInv, StreamInv, ArchiveInv, [Next]_vars PROVE ArchiveInv'
  OBVIOUS
<1>1. CASE Crash
  <2>1. UNCHANGED <<track, trimmed, archivedId, history>> /\ BatchInv'
    BY <1>1, AtRest DEF Crash, records
  <2> QED
    BY <2>1 DEF ArchiveInv, NoArchiveGap
<1>2. CASE Archive
  BY <1>2, ReadKeepsArchive, PutKeepsArchive, FailKeepsArchive, CursorKeepsArchive DEF Archive
<1> QED
  BY <1>1, <1>2, ArchiveUntouched

-----------------------------------------------------------------------------
(* The whole.                                                              *)

\* The invariant holds initially and every step keeps it.
LEMMA TrackingInvariant == Spec => []TrackingInv
<1>1. Init => TrackingInv
  BY PresenceInitially, MessageInitially, WindowInitially, StreamInitially, SummaryInitially,
     ArchiveInitially DEF TrackingInv
<1>2. TrackingInv /\ [Next]_vars => TrackingInv'
  BY PresenceKept, MessageKept, WindowKept, StreamKept, SummaryKept, ArchiveKept DEF TrackingInv
<1> QED
  BY <1>1, <1>2, PTL DEF Spec

\* FreshIsIndexed: the driver a geo search misses although he has just sent a position is
\* one whose position arrived between StaleDriverIDs and Evict of the staleness worker.
THEOREM FreshIsIndexedAlways == Spec => []FreshIsIndexed
<1>1. TrackingInv => FreshIsIndexed
  BY DEF TrackingInv, PresenceInv
<1> QED
  BY <1>1, TrackingInvariant, PTL

\* KeysLostToAnotherRide: OpenWindow, CloseWindow and Expire, in any interleaving, take the
\* activeRide keys of an open window only on behalf of another ride of its driver or client.
THEOREM KeysLostToAnotherRideAlways == Spec => []KeysLostToAnotherRide
<1>1. TrackingInv => KeysLostToAnotherRide
  BY DEF TrackingInv, WindowInv
<1> QED
  BY <1>1, TrackingInvariant, PTL

\* PrivateOutsideRide: no counterparty is shown before the match, and none after CloseWindow
\* has handled the end, unless an opener's handler overlapped or followed it.
THEOREM PrivateOutsideRideAlways == Spec => []PrivateOutsideRide
<1>1. ASSUME TrackingInv PROVE PrivateOutsideRide
  <2> SUFFICES ASSUME NEW r \in Rides
               PROVE  /\ (\E s \in Subjects : Counterparty(r, s) # None \/ activeRide[s] = r)
                           => phase[r] \in {"accepted", "over"}
                      /\ Quiet(r) /\ r \notin overtaken
                           => /\ \A s \in Subjects : Counterparty(r, s) = None /\ activeRide[s] # r
                              /\ r \notin LiveRides
    BY DEF PrivateOutsideRide
  <2>1. \A s \in Subjects : Counterparty(r, s) # None => r \in participants
    BY DEF Counterparty
  <2>2. MatchedFirst(r) /\ InOrder(r)
    BY <1>1 DEF TrackingInv, WindowInv
  <2>3. (\E s \in Subjects : Counterparty(r, s) # None \/ activeRide[s] = r) => phase[r] \in {"accepted", "over"}
    BY <2>1, <2>2 DEF MatchedFirst, Matched
  <2>4. ASSUME Quiet(r), r \notin overtaken PROVE r \notin participants /\ \A s \in Subjects : activeRide[s] # r
    BY <2>2, <2>4 DEF Quiet, InOrder
  <2> QED
    BY <2>1, <2>3, <2>4 DEF LiveRides
<1> QED
  BY <1>1, TrackingInvariant, PTL

\* SummarySound: redelivered, retried or interrupted, BuildRideSummary leaves one summary and
\* one ride.summary.ready row, and the summary has every position of the driver that was on
\* record when the end was first handled and that MAXLEN has not dropped.
THEOREM SummarySoundAlways == Spec => []SummarySound
<1>1. ASSUME TrackingInv PROVE SummarySound
  <2>1. SummaryPublishedOnce
    BY <1>1 DEF TrackingInv, SummaryInv
  <2>2. ASSUME NEW r \in Rides, Quiet(r), atEnd[r] # {}
        PROVE  summary[r].built /\ \A i \in atEnd[r] \ summary[r].points : i <= trimmed[r]
    <3>1. ~Waiting(r)
      BY <2>2 DEF Quiet, Waiting
    <3> QED
      BY <1>1, <2>2, <3>1 DEF TrackingInv, SummaryInv, Covered
  <2> QED
    BY <2>1, <2>2 DEF SummarySound, SummaryCoversRide
<1> QED
  BY <1>1, TrackingInvariant, PTL

\* NoArchiveGap: the archive worker's cursor, set after PutBatch, passes over nothing that
\* the history lacks and the stream still had, for any batch size and any failures.
THEOREM NoArchiveGapAlways == Spec => []NoArchiveGap
<1>1. TrackingInv => NoArchiveGap
  BY DEF TrackingInv, ArchiveInv
<1> QED
  BY <1>1, TrackingInvariant, PTL

-----------------------------------------------------------------------------
(* Types.                                                                  *)

\* What the layers do not say of the types.
OtherTypes ==
  /\ owners \subseteq Drivers /\ indexed \subseteq Drivers /\ fresh \subseteq Drivers
  /\ stale \subseteq Drivers /\ raced \subseteq Drivers
  /\ faults \in 0..MaxFaults

LEMMA FaultType == ASSUME faults \in 0..MaxFaults, Fault PROVE faults' \in 0..MaxFaults
BY TrackingAssumption DEF Fault

LEMMA OtherTypesKept == OtherTypes /\ [Next]_vars => OtherTypes'
<1> SUFFICES ASSUME OtherTypes, [Next]_vars PROVE OtherTypes'
  OBVIOUS
<1> USE DEF presence
<1>1. faults \in 0..MaxFaults
  BY DEF OtherTypes
<1>2. faults' \in 0..MaxFaults
  <2>1. faults' = faults \/ Fault
    <3>1. CASE \E r \in Rides : Request(r) \/ Accept(r) \/ End(r) \/ Expire(r)
      BY <3>1 DEF Request, Accept, End, Expire, Publish
    <3>2. CASE Consume
      BY <3>2 DEF Consume, RideRequestedConsumer, RideAcceptedConsumer, RideCompletedConsumer,
         RideCancelledConsumer, RecordRideRequested, RecordRideAccepted, GetPending, OpenWindow,
         ReadParticipants, InsertSummary, ReadWindow, DeleteWindow, Commit
    <3>3. CASE ShiftUpdatedConsumer \/ \E t \in Topics : HandlerError(t)
      BY <3>3 DEF ShiftUpdatedConsumer, UpsertOwner, HandlerError
    <3>4. CASE \/ \E s \in Subjects : AppendPosition(s) \/ AppendFails(s)
               \/ \E d \in Drivers : DriverPing(d) \/ Age(d)
               \/ \E c \in Clients : ClientPing(c)
               \/ StaleDriverIDs \/ Evict \/ EvictFails
      BY <3>4 DEF AppendPosition, AppendFails, DriverPing, Age, ClientPing, StaleDriverIDs, Evict,
         EvictFails
    <3>5. CASE Archive \/ Crash
      BY <3>5 DEF Archive, ReadBehindCursor, PutBatch, PutBatchFails, SetCursor, Crash
    <3>6. CASE UNCHANGED vars
      BY <3>6 DEF vars
    <3> QED
      BY <3>1, <3>2, <3>3, <3>4, <3>5, <3>6 DEF Next
  <2> QED
    BY <1>1, <2>1, FaultType
<1>3. owners' \subseteq Drivers
  <2>1. CASE \E r \in Rides : Request(r) \/ Accept(r) \/ End(r) \/ Expire(r)
    BY <2>1 DEF Request, Accept, End, Expire, Publish, OtherTypes
  <2>2. CASE Consume
    BY <2>2 DEF Consume, RideRequestedConsumer, RideAcceptedConsumer, RideCompletedConsumer,
       RideCancelledConsumer, RecordRideRequested, RecordRideAccepted, GetPending, OpenWindow,
       ReadParticipants, InsertSummary, ReadWindow, DeleteWindow, OtherTypes
  <2>3. CASE ShiftUpdatedConsumer \/ \E t \in Topics : HandlerError(t)
    BY <2>3 DEF ShiftUpdatedConsumer, UpsertOwner, HandlerError, OtherTypes
  <2>4. CASE \/ \E s \in Subjects : AppendPosition(s) \/ AppendFails(s)
             \/ \E d \in Drivers : DriverPing(d) \/ Age(d)
             \/ \E c \in Clients : ClientPing(c)
             \/ StaleDriverIDs \/ Evict \/ EvictFails
    BY <2>4 DEF AppendPosition, AppendFails, DriverPing, Age, ClientPing, StaleDriverIDs, Evict,
       EvictFails, OtherTypes
  <2>5. CASE Archive \/ Crash
    BY <2>5 DEF Archive, ReadBehindCursor, PutBatch, PutBatchFails, SetCursor, Crash, OtherTypes
  <2>6. CASE UNCHANGED vars
    BY <2>6 DEF vars, OtherTypes
  <2> QED
    BY <2>1, <2>2, <2>3, <2>4, <2>5, <2>6 DEF Next
<1>4. indexed' \subseteq Drivers /\ fresh' \subseteq Drivers /\ stale' \subseteq Drivers /\ raced' \subseteq Drivers
  <2>1. CASE PresenceStep
    BY <2>1 DEF PresenceStep, DriverPing, Age, StaleDriverIDs, Evict, EvictFails, Crash, OtherTypes
  <2>2. CASE ~PresenceStep
    BY <2>2, PresenceFrame DEF OtherTypes
  <2> QED
    BY <2>1, <2>2
<1> QED
  BY <1>2, <1>3, <1>4 DEF OtherTypes

\* Every variable keeps its type; in particular no stream is longer than the positions accepted.
THEOREM TrackingTypes == Spec => []TypeOK
<1>1. Init => OtherTypes
  BY TrackingAssumption DEF Init, OtherTypes
<1>2. ASSUME TrackingInv, OtherTypes PROVE TypeOK
  <2>1. /\ phase \in [Rides -> {"new", "requested", "accepted", "over"}] /\ queue \subseteq Message
        /\ \A t \in Topics : /\ consumer[t] \in Handler
                             /\ consumer[t].ride = None <=> consumer[t].pc = "idle"
    BY <1>2 DEF TrackingInv, MessageInv, MessageType, Phases
  <2>2. \A t \in Topics : /\ consumer[t].pc \in {"idle", "retry", "get", "open", "range", "close", "delete"}
                          /\ consumer[t].ride \in Rides \cup {None}
    BY <2>1 DEF Handler, OpenerPc, EnderPc
  <2>3. /\ participants \cup pendingClient \cup pendingDriver \cup activeIndex \subseteq Rides
        /\ activeRide \in [Subjects -> Rides \cup {None}] /\ overtaken \subseteq Rides
    BY <1>2 DEF TrackingInv, WindowInv, WindowType
  <2>4. ingest \in [Subjects -> Rides \cup {None}] /\ pings \in 0..MaxPings
    BY <1>2 DEF TrackingInv, StreamInv
  <2>5. ASSUME NEW r \in Rides
        PROVE  /\ track[r] \in Seq({"Driver", "Client"}) /\ Len(track[r]) <= MaxPings
               /\ trimmed[r] \in 0..Len(track[r])
               /\ archivedId[r] \in 0..Len(track[r])
               /\ summary[r].points \cup atEnd[r] \subseteq 1..Len(track[r])
    <3>1. /\ track[r] \in Seq({"Driver", "Client"}) /\ Len(track[r]) \in Nat /\ trimmed[r] \in Nat
          /\ trimmed[r] = 0 \/ trimmed[r] < Len(track[r])
          /\ Len(track[r]) + Cardinality(InFlightTo(r)) <= pings
      BY <1>2 DEF TrackingInv, StreamInv
    <3>2. Cardinality(InFlightTo(r)) \in Nat
      BY <1>2, InFlightFinite DEF TrackingInv
    <3>3. archivedId[r] \in Nat /\ archivedId[r] <= Len(track[r])
      BY <1>2 DEF TrackingInv, ArchiveInv
    <3>4. summary[r].points \cup atEnd[r] \subseteq 1..Len(track[r])
      BY <1>2 DEF TrackingInv, SummaryInv, SummaryType
    <3>5. Len(track[r]) <= MaxPings
      BY <2>4, <3>1, <3>2, TrackingAssumption
    <3> QED
      BY <3>1, <3>3, <3>4, <3>5
  <2>6. archiver.pc \in {"rest", "put", "cursor"}
    BY <1>2 DEF TrackingInv, ArchiveInv, BatchInv
  <2> QED
    BY <1>2, <2>1, <2>2, <2>3, <2>4, <2>5, <2>6 DEF TypeOK, OtherTypes
<1> QED
  BY <1>1, <1>2, TrackingInvariant, OtherTypesKept, PTL DEF Spec

=============================================================================
