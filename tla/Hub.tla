-------------------------------- MODULE Hub --------------------------------
(***************************************************************************)
(* The websocket side of location-service: the hub with one slot per ride  *)
(* and role, the dispatcher's Redis subscriptions, the goroutines of every *)
(* connection, and the shutdown manager that has to get rid of them all.   *)
(*                                                                         *)
(* The hub's mutex and the dispatcher's are held for single assignments,   *)
(* never across a call: a step is one critical section, or one call on a   *)
(* socket or on Redis.                                                     *)
(***************************************************************************)
EXTENDS Integers, FiniteSets

CONSTANTS
  Rides,
  Sockets,    \* connections, each of which is opened once
  RideOf,     \* the ride whose window the caller's key names
  RoleOf,     \* "Driver" or "Client"
  None

Roles == {"Driver", "Client"}

ASSUME HubAssumption ==
  /\ RideOf \in [Sockets -> Rides] /\ RoleOf \in [Sockets -> Roles]
  /\ None \notin Sockets

VARIABLES
  pc,          \* where the goroutine that owns a connection stands
  closed,      \* connections that were closed and whose read pump has not noticed yet
  superseded,  \* the connection a Register has replaced and must close
  slot,        \* Hub.rides
  subscribed,  \* Dispatcher.subscribed
  channels,    \* the channels Redis delivers to this instance
  dispatching, \* the dispatcher goroutine runs
  open,        \* rides with an open tracking window
  closing,     \* connections that CloseRide has read and not yet closed
  snapshot,    \* the same for CloseAll
  manager,     \* where WaitForShutdown stands
  late,        \* history: connections registered after the snapshot meant to close them
  disturbed    \* history: rides whose subscribe and unsubscribe overlapped, or failed

hub == <<slot, superseded, late>>
dispatcher == <<subscribed, channels, dispatching>>
vars == <<pc, closed, hub, dispatcher, open, closing, snapshot, manager, disturbed>>

Slots == Rides \X Roles

Place(c) == <<RideOf[c], RoleOf[c]>>

Opposite(role) == IF role = "Driver" THEN "Client" ELSE "Driver"

Init ==
  /\ pc = [c \in Sockets |-> "new"]
  /\ closed = {}
  /\ superseded = [c \in Sockets |-> None]
  /\ slot = [s \in Slots |-> None]
  /\ subscribed = {} /\ channels = {}
  /\ dispatching = TRUE
  /\ open = Rides
  /\ closing = {} /\ snapshot = {}
  /\ manager = "serving"
  /\ late = {} /\ disturbed = {}

Go(c, here, there) == pc[c] = here /\ pc' = [pc EXCEPT ![c] = there]

Registered(c) == pc[c] \in {"supersede", "flagged", "subscribe", "flag", "pumps", "read", "unregister"}

\* Closing a connection a second time has no effect.
Unnoticed(cs) == {c \in cs : Registered(c) /\ pc[c] # "unregister"}

Occupied(r) == \E role \in Roles : slot[<<r, role>>] # None

Subscribing(r) == \E c \in Sockets : RideOf[c] = r /\ pc[c] \in {"flagged", "subscribe", "flag"}

Unsubscribing(r) == \E c \in Sockets : RideOf[c] = r /\ pc[c] \in {"unflagged", "unsubscribe", "unflag"}

---------------------------------------------------------------------------
(* ServeWS *)

\* resolveSubject looks up the caller's ride and websocket.Accept hijacks the connection;
\* without an open window, or when the handshake fails, the request is refused.  Once
\* the manager has begun server.Shutdown no request arrives.
ServeWS(c) ==
  /\ manager = "serving"
  /\ \/ RideOf[c] \in open /\ Go(c, "new", "register")
     \/ Go(c, "new", "gone")
  /\ UNCHANGED <<closed, hub, dispatcher, open, closing, snapshot, manager, disturbed>>

\* Snapshots that were to find the connection and have been taken without it.
Missed(c) == RideOf[c] \notin open \/ manager \in {"closing", "waiting", "drained", "forced"}

\* Under the mutex the slot is taken; the one who created the ride's entry subscribes.
Register(c) ==
  LET r == RideOf[c]
      stale == slot[Place(c)] IN
  /\ Go(c, "register", IF stale # None THEN "supersede" ELSE IF Occupied(r) THEN "pumps" ELSE "flagged")
  /\ superseded' = [superseded EXCEPT ![c] = stale]
  /\ slot' = [slot EXCEPT ![Place(c)] = c]
  /\ late' = IF Missed(c) THEN late \cup {c} ELSE late
  /\ disturbed' = IF ~Occupied(r) /\ (Unsubscribing(r) \/ Subscribing(r)) THEN disturbed \cup {r} ELSE disturbed
  /\ UNCHANGED <<closed, dispatcher, open, closing, snapshot, manager>>

\* The ride's entry existed, so there is nothing to subscribe.
CloseSuperseded(c) ==
  /\ Go(c, "supersede", "pumps")
  /\ closed' = closed \cup Unnoticed({superseded[c]})
  /\ superseded' = [superseded EXCEPT ![c] = None]
  /\ UNCHANGED <<slot, late, dispatcher, open, closing, snapshot, manager, disturbed>>

\* The two pumps are added to the wait group and started.  The heartbeat ends with the
\* read pump, or alone when a ping fails; the read pump learns nothing of that.
StartPumps(c) ==
  /\ Go(c, "pumps", "read")
  /\ UNCHANGED <<closed, hub, dispatcher, open, closing, snapshot, manager, disturbed>>

---------------------------------------------------------------------------
(* Dispatcher *)

\* SubscribeRide reads the flag, calls Redis and sets the flag.
ReadSubscribed(c) ==
  /\ Go(c, "flagged", IF RideOf[c] \in subscribed THEN "pumps" ELSE "subscribe")
  /\ UNCHANGED <<closed, hub, dispatcher, open, closing, snapshot, manager, disturbed>>

\* It fails once Run has closed the subscription; an error is only logged.
Subscribe(c) ==
  /\ \/ /\ dispatching
        /\ Go(c, "subscribe", "flag")
        /\ channels' = channels \cup {RideOf[c]}
        /\ UNCHANGED disturbed
     \/ /\ Go(c, "subscribe", "pumps")
        /\ disturbed' = disturbed \cup {RideOf[c]}
        /\ UNCHANGED channels
  /\ UNCHANGED <<closed, hub, subscribed, dispatching, open, closing, snapshot, manager>>

SetSubscribed(c) ==
  /\ Go(c, "flag", "pumps")
  /\ subscribed' = subscribed \cup {RideOf[c]}
  /\ UNCHANGED <<closed, hub, channels, dispatching, open, closing, snapshot, manager, disturbed>>

\* UnsubscribeRide mirrors it.
ReadUnsubscribed(c) ==
  /\ Go(c, "unflagged", IF RideOf[c] \in subscribed THEN "unsubscribe" ELSE "gone")
  /\ UNCHANGED <<closed, hub, dispatcher, open, closing, snapshot, manager, disturbed>>

Unsubscribe(c) ==
  /\ \/ /\ dispatching
        /\ Go(c, "unsubscribe", "unflag")
        /\ channels' = channels \ {RideOf[c]}
        /\ UNCHANGED disturbed
     \/ /\ Go(c, "unsubscribe", "gone")
        /\ disturbed' = disturbed \cup {RideOf[c]}
        /\ UNCHANGED channels
  /\ UNCHANGED <<closed, hub, subscribed, dispatching, open, closing, snapshot, manager>>

DeleteSubscribed(c) ==
  /\ Go(c, "unflag", "gone")
  /\ subscribed' = subscribed \ {RideOf[c]}
  /\ UNCHANGED <<closed, hub, channels, dispatching, open, closing, snapshot, manager, disturbed>>

\* Deliver: a position of subject goes to the opposite role's connection, if there is one.
DeliverTarget(r, subject) == IF dispatching /\ r \in channels THEN slot[<<r, Opposite(subject)>>] ELSE None

\* Run returns when the context is cancelled, and closes the subscription.
DispatcherStops ==
  /\ manager \notin {"serving", "stopping"}
  /\ dispatching
  /\ dispatching' = FALSE /\ channels' = {}
  /\ UNCHANGED <<pc, closed, hub, subscribed, open, closing, snapshot, manager, disturbed>>

---------------------------------------------------------------------------
(* readPump and heartbeatPump *)

\* Read fails on a connection that either side has closed, the peer at any time.
ReadFails(c) ==
  /\ Go(c, "read", "unregister")
  /\ closed' = closed \ {c}
  /\ UNCHANGED <<hub, dispatcher, open, closing, snapshot, manager, disturbed>>

\* Mutant of Unregister: the slot is cleared whoever holds it.
UnregisterAnyone(c) ==
  LET r == RideOf[c]
      rest == [slot EXCEPT ![Place(c)] = None]
      empty == Occupied(r) /\ \A role \in Roles : rest[<<r, role>>] = None IN
  /\ Go(c, "unregister", IF empty THEN "unflagged" ELSE "gone")
  /\ slot' = rest
  /\ disturbed' = IF empty /\ (Subscribing(r) \/ Unsubscribing(r)) THEN disturbed \cup {r} ELSE disturbed
  /\ late' = late \ {c}
  /\ UNCHANGED <<closed, superseded, dispatcher, open, closing, snapshot, manager>>

\* Mutant of Unregister: the subscription goes with either connection.
UnregisterUnsubscribesEarly(c) ==
  LET r == RideOf[c]
      mine == slot[Place(c)] = c
      rest == [slot EXCEPT ![Place(c)] = None] IN
  /\ Go(c, "unregister", IF mine THEN "unflagged" ELSE "gone")
  /\ slot' = IF mine THEN rest ELSE slot
  /\ disturbed' = IF mine /\ (Subscribing(r) \/ Unsubscribing(r)) THEN disturbed \cup {r} ELSE disturbed
  /\ late' = late \ {c}
  /\ UNCHANGED <<closed, superseded, dispatcher, open, closing, snapshot, manager>>

\* A connection that has been replaced leaves its successor alone; the last of a ride
\* unsubscribes.  (CloseNow, the last statement of the pump, finds the connection closed.)
Unregister(c) ==
  LET r == RideOf[c]
      mine == slot[Place(c)] = c
      rest == [slot EXCEPT ![Place(c)] = None]
      empty == mine /\ \A role \in Roles : rest[<<r, role>>] = None IN
  /\ Go(c, "unregister", IF empty THEN "unflagged" ELSE "gone")
  /\ slot' = IF mine THEN rest ELSE slot
  /\ disturbed' = IF empty /\ (Subscribing(r) \/ Unsubscribing(r)) THEN disturbed \cup {r} ELSE disturbed
  /\ late' = late \ {c}
  /\ UNCHANGED <<closed, superseded, dispatcher, open, closing, snapshot, manager>>

---------------------------------------------------------------------------
(* The end of a ride *)

\* Mutant of WindowCloses: CloseRide forgets the client's connection.
WindowClosesDriver(r) ==
  /\ r \in open
  /\ open' = open \ {r}
  /\ closing' = closing \cup ({slot[<<r, "Driver">>]} \ {None})
  /\ UNCHANGED <<pc, closed, hub, dispatcher, snapshot, manager, disturbed>>

\* CloseTrackingWindow, then the snapshot of CloseRide.
WindowCloses(r) ==
  /\ r \in open
  /\ open' = open \ {r}
  /\ closing' = closing \cup ({slot[<<r, role>>] : role \in Roles} \ {None})
  /\ UNCHANGED <<pc, closed, hub, dispatcher, snapshot, manager, disturbed>>

CloseRide ==
  /\ closing # {}
  /\ closing' = {}
  /\ closed' = closed \cup Unnoticed(closing)
  /\ UNCHANGED <<pc, hub, dispatcher, open, snapshot, manager, disturbed>>

---------------------------------------------------------------------------
(* WaitForShutdown *)

Proceed(here, there) ==
  /\ manager = here /\ manager' = there
  /\ UNCHANGED <<pc, hub, dispatcher, open, closing, disturbed>>

\* SIGTERM or SIGINT: server.Shutdown closes the listener and waits.
Signal == Proceed("serving", "stopping") /\ UNCHANGED <<closed, snapshot>>

\* Shutdown returns when no request is active, or by its timeout; a hijacked connection
\* does not count.  Only then do the OnStop hooks run: the readiness is taken away, the
\* background context is cancelled.
ServerStopped == Proceed("stopping", "closeall") /\ UNCHANGED <<closed, snapshot>>

\* Mutant of CloseAll: the clients' connections are forgotten.
CloseAllDrivers ==
  /\ Proceed("closeall", "closing")
  /\ snapshot' = {slot[<<r, "Driver">>] : r \in Rides} \ {None}
  /\ UNCHANGED closed

\* The last hook reads the connections under the mutex ...
CloseAll ==
  /\ Proceed("closeall", "closing")
  /\ snapshot' = {slot[s] : s \in Slots} \ {None}
  /\ UNCHANGED closed

\* ... and closes them without it; then WaitForShutdown waits.
CloseSnapshot ==
  /\ Proceed("closing", "waiting")
  /\ snapshot' = {}
  /\ closed' = closed \cup Unnoticed(snapshot)

\* The wait group: two pumps per connection, the dispatcher, the other goroutines.
Reading(c) == pc[c] \in {"read", "unregister", "unflagged", "unsubscribe", "unflag"}

WaitGroupIsZero == (\A c \in Sockets : ~Reading(c)) /\ ~dispatching

\* The wait group is down to zero or the timeout comes first.
EndWait ==
  /\ \/ WaitGroupIsZero /\ Proceed("waiting", "drained")
     \/ Proceed("waiting", "forced")
  /\ UNCHANGED <<closed, snapshot>>

---------------------------------------------------------------------------

\* The process exists until WaitForShutdown returns.
Alive == manager \notin {"drained", "forced"}

\* What the goroutine of a connection does next; waiting in Read, it does nothing.
Serve(c) ==
  \/ Register(c) \/ CloseSuperseded(c) \/ StartPumps(c)
  \/ ReadSubscribed(c) \/ Subscribe(c) \/ SetSubscribed(c)
  \/ Unregister(c) \/ ReadUnsubscribed(c) \/ Unsubscribe(c) \/ DeleteSubscribed(c)

Next ==
  /\ Alive
  /\ \/ \E c \in Sockets : ServeWS(c) \/ Serve(c) \/ ReadFails(c)
     \/ \E r \in Rides : WindowCloses(r)
     \/ DispatcherStops
     \/ CloseRide
     \/ Signal \/ ServerStopped \/ CloseAll \/ CloseSnapshot \/ EndWait

Spec == Init /\ [][Next]_vars

\* Goroutines are scheduled, writes and closes end by their timeouts, and a wait group
\* at zero is noticed.  Nobody has to connect, to leave or to signal.
FairSpec ==
  /\ Spec
  /\ \A c \in Sockets : WF_vars(Alive /\ (Serve(c) \/ (c \in closed /\ ReadFails(c))))
  /\ WF_vars(Alive /\ DispatcherStops) /\ WF_vars(Alive /\ CloseRide)
  /\ WF_vars(Alive /\ (ServerStopped \/ CloseAll \/ CloseSnapshot \/ (WaitGroupIsZero /\ EndWait)))

---------------------------------------------------------------------------
(* Properties *)

\* Of the connections of one role that are registered for a ride, the newest holds the
\* slot: the cleanup of an older one, however late, does not take it away; and
\* whoever holds a slot has its own cleanup still to come.
NewestSocketKept ==
  /\ \A c \in Sockets :
       Registered(c) /\ slot[Place(c)] # c
         => c \in closed \/ pc[c] = "unregister" \/ \E d \in Sockets : superseded[d] = c
  /\ \A s \in Slots : slot[s] # None => Place(slot[s]) = s /\ Registered(slot[s])

\* When no subscribe or unsubscribe of a ride is under way, this instance gets its
\* positions exactly if somebody is connected for it.  It may be otherwise only after a
\* failed Redis call, or after a first connection arrived while the last one before it
\* was still unsubscribing (or the reverse): these are not ordered, and nobody repairs it.
SubscriptionExplained ==
  \A r \in Rides \ disturbed :
    dispatching /\ ~Subscribing(r) /\ ~Unsubscribing(r)
      => /\ \A subject \in Roles : DeliverTarget(r, subject) = slot[<<r, Opposite(subject)>>]
         /\ r \in channels => Occupied(r)
         /\ r \in subscribed <=> r \in channels

\* A connection that was replaced, or whose ride is over, is closed and its goroutines
\* end, unless it registered after CloseRide had looked for it.
SocketsReleased ==
  \A c \in Sockets :
    (Registered(c) /\ (slot[Place(c)] # c \/ RideOf[c] \notin open))
      ~> (pc[c] = "gone" \/ c \in late \/ ~Alive)

\* A shutdown gets rid of every goroutine before its timeout, unless a connection
\* registered after CloseAll had looked for it: nothing closes that one.
DrainCompletes == manager = "waiting" ~> (~Alive \/ late # {})

=============================================================================
