----------------------------- MODULE HubProofs -----------------------------
(***************************************************************************)
(* What the websocket hub of location-service keeps for any number of      *)
(* rides and connections, opened, replaced, closed and shut down in any    *)
(* order.                                                                  *)
(***************************************************************************)
EXTENDS Hub, TLAPS

SocketPc == {"new", "register", "supersede", "flagged", "subscribe", "flag", "pumps", "read",
             "unregister", "unflagged", "unsubscribe", "unflag", "gone"}

ManagerPc == {"serving", "stopping", "closeall", "closing", "waiting", "drained", "forced"}

\* The types, and that a Register remembers whom it has replaced exactly until it
\* has closed that connection.
HubType ==
  /\ pc \in [Sockets -> SocketPc]
  /\ closed \subseteq Sockets /\ closing \subseteq Sockets /\ snapshot \subseteq Sockets
  /\ superseded \in [Sockets -> Sockets \cup {None}]
  /\ \A c \in Sockets : superseded[c] # None <=> pc[c] = "supersede"
  /\ slot \in [Slots -> Sockets \cup {None}]
  /\ subscribed \subseteq Rides /\ channels \subseteq Rides /\ open \subseteq Rides
  /\ dispatching \in BOOLEAN
  /\ manager \in ManagerPc
  /\ late \subseteq Sockets /\ disturbed \subseteq Rides

\* A connection between the two ends of SubscribeRide or of UnsubscribeRide.
Entering(c) == pc[c] \in {"flagged", "subscribe", "flag"}
Leaving(c) == pc[c] \in {"unflagged", "unsubscribe", "unflag"}

\* The state of an undisturbed ride's subscription: settled when nobody is at it, and
\* known at each statement of the only one who is.
RideSettled(r) ==
  r \notin disturbed /\ dispatching =>
    /\ \A c, d \in Sockets :
         (RideOf[c] = r /\ RideOf[d] = r /\ (Entering(c) \/ Leaving(c)) /\ (Entering(d) \/ Leaving(d))) => c = d
    /\ (\A c \in Sockets : RideOf[c] = r => ~Entering(c) /\ ~Leaving(c)) =>
         (Occupied(r) <=> r \in channels) /\ (Occupied(r) <=> r \in subscribed)
    /\ \A c \in Sockets : RideOf[c] = r =>
         /\ Entering(c) => Occupied(r) /\ r \notin subscribed
         /\ Leaving(c) => ~Occupied(r) /\ r \in subscribed
         /\ pc[c] \in {"flag", "unflagged", "unsubscribe"} => r \in channels
         /\ pc[c] \in {"flagged", "subscribe", "unflag"} => r \notin channels

\* SubscriptionExplained speaks of rides nobody is at; what becomes of one that
\* somebody is at needs RideSettled.
HubInv ==
  /\ HubType
  /\ NewestSocketKept
  /\ \A r \in Rides : RideSettled(r)

-----------------------------------------------------------------------------
\* What RideSettled reads.
LEMMA RideUntouched ==
  ASSUME HubInv, NEW r \in Rides,
         UNCHANGED <<pc, slot, subscribed, channels, dispatching, disturbed>>
  PROVE  RideSettled(r)'
<1>1. RideSettled(r)
  BY DEF HubInv
<1>2. \A c \in Sockets : (Entering(c)' <=> Entering(c)) /\ (Leaving(c)' <=> Leaving(c))
  BY DEF Entering, Leaving
<1>3. Occupied(r)' <=> Occupied(r)
  BY DEF Occupied
<1> QED
  BY <1>1, <1>2, <1>3 DEF RideSettled

\* No connection, no subscription.
LEMMA HubInitially == Init => HubInv
<1> SUFFICES ASSUME Init PROVE HubInv
  OBVIOUS
<1>1. HubType
  BY DEF Init, HubType, SocketPc, ManagerPc
<1>2. NewestSocketKept
  BY DEF Init, NewestSocketKept, Registered
<1>3. ASSUME NEW r \in Rides PROVE RideSettled(r)
  BY DEF Init, RideSettled, Entering, Leaving, Occupied, Slots
<1> QED
  BY <1>1, <1>2, <1>3 DEF HubInv

LEMMA ServeWSKeeps ==
  ASSUME HubInv, NEW c \in Sockets, ServeWS(c) PROVE HubInv'
<1>1. HubType'
  BY HubAssumption DEF HubInv, ServeWS, hub, dispatcher, Go, HubType, SocketPc
<1>2. NewestSocketKept'
  BY HubAssumption DEF HubInv, ServeWS, hub, Go, Registered, HubType, NewestSocketKept
<1>3. ASSUME NEW q \in Rides PROVE RideSettled(q)'
  BY HubAssumption DEF HubInv, ServeWS, hub, dispatcher, Go, Roles, Occupied, HubType,
     RideSettled, Entering, Leaving
<1> QED
  BY <1>1, <1>2, <1>3 DEF HubInv

LEMMA RegisterKeeps ==
  ASSUME HubInv, NEW c \in Sockets, Register(c) PROVE HubInv'
<1>1. HubType'
  <2>1. Place(c) \in Slots /\ RideOf[c] \in Rides
    BY HubAssumption DEF Place, Slots
  <2>2. slot[Place(c)] \in Sockets \cup {None}
    BY <2>1 DEF HubInv, HubType
  <2>3. pc' \in [Sockets -> SocketPc]
    BY DEF HubInv, HubType, Register, Go, SocketPc
  <2>4. superseded' \in [Sockets -> Sockets \cup {None}] /\ slot' \in [Slots -> Sockets \cup {None}]
    BY <2>1, <2>2 DEF HubInv, HubType, Register
  <2>5. ASSUME NEW d \in Sockets PROVE superseded'[d] # None <=> pc'[d] = "supersede"
    BY <2>2 DEF HubInv, HubType, Register, Go
  <2> QED
    BY <2>1, <2>3, <2>4, <2>5 DEF HubInv, HubType, Register, dispatcher
<1>2. NewestSocketKept'
  <2>1. Place(c) \in Slots /\ None \notin Sockets
    BY HubAssumption DEF Place, Slots
  <2>2. \A d \in Sockets : Registered(d)' <=> d = c \/ Registered(d)
    BY DEF HubInv, HubType, Register, Go, Registered
  <2>3. \A s \in Slots : slot'[s] = IF s = Place(c) THEN c ELSE slot[s]
    BY DEF HubInv, HubType, Register
  <2>4. ASSUME NEW d \in Sockets, Registered(d)', slot'[Place(d)] # d
        PROVE  d \in closed' \/ pc'[d] = "unregister" \/ \E e \in Sockets : superseded'[e] = d
    <3>1. Place(d) \in Slots /\ d # c /\ Registered(d)
      BY <2>1, <2>2, <2>3, <2>4, HubAssumption DEF Place, Slots
    <3>2. CASE slot[Place(d)] = d
      <4>1. Place(d) = Place(c)
        BY <2>3, <2>4, <3>1, <3>2
      <4>2. superseded'[c] = d
        BY <3>2, <4>1 DEF HubInv, HubType, Register
      <4> QED
        BY <4>2
    <3>3. CASE slot[Place(d)] # d
      <4>1. d \in closed \/ pc[d] = "unregister" \/ \E e \in Sockets : superseded[e] = d
        BY <3>1, <3>3 DEF HubInv, NewestSocketKept
      <4>2. superseded[c] = None
        BY DEF HubInv, HubType, Register, Go
      <4> QED
        BY <2>1, <3>1, <4>1, <4>2 DEF HubInv, HubType, Register, Go
    <3> QED
      BY <3>2, <3>3
  <2>5. ASSUME NEW s \in Slots, NEW d \in Sockets, slot'[s] = d PROVE Place(d) = s /\ Registered(d)'
    <3>1. CASE s = Place(c)
      BY <2>2, <2>3, <2>5, <3>1
    <3>2. CASE s # Place(c)
      <4>1. slot[s] = d
        BY <2>3, <2>5, <3>2
      <4>2. Place(d) = s /\ Registered(d)
        BY <2>1, <4>1 DEF HubInv, NewestSocketKept
      <4> QED
        BY <2>2, <4>2
    <3> QED
      BY <3>1, <3>2
  <2>6. \A s \in Slots : slot'[s] # None => slot'[s] \in Sockets
    BY <1>1 DEF HubType
  <2> QED
    BY <2>4, <2>5, <2>6 DEF NewestSocketKept, Place, Registered
<1>3. ASSUME NEW q \in Rides PROVE RideSettled(q)'
  <2>1. Place(c) = <<RideOf[c], RoleOf[c]>> /\ Place(c) \in Slots /\ RoleOf[c] \in Roles /\ None \notin Sockets
    BY HubAssumption DEF Place, Slots
  <2>2. \A s \in Slots : slot'[s] = IF s = Place(c) THEN c ELSE slot[s]
    BY DEF HubInv, HubType, Register
  <2>3. Occupied(q)' <=> q = RideOf[c] \/ Occupied(q)
    <3>1. \A role \in Roles : <<q, role>> \in Slots /\ (<<q, role>> = Place(c) <=> q = RideOf[c] /\ role = RoleOf[c])
      BY <2>1 DEF Slots
    <3> QED
      BY <2>1, <2>2, <3>1 DEF Occupied
  <2>4. \A d \in Sockets : d # c => pc'[d] = pc[d]
    BY DEF HubInv, HubType, Register, Go
  <2>5. CASE q # RideOf[c]
    <3>1. \A d \in Sockets : RideOf[d] = q => pc'[d] = pc[d]
      BY <2>4, <2>5
    <3>2. q \in disturbed' <=> q \in disturbed
      BY <2>5 DEF Register
    <3> QED
      BY <2>3, <2>5, <3>1, <3>2 DEF HubInv, Register, dispatcher, RideSettled, Entering, Leaving
  <2>6. CASE q = RideOf[c] /\ Occupied(q)
    <3>1. pc[c] = "register" /\ pc'[c] \in {"supersede", "pumps"} /\ disturbed' = disturbed
      BY <2>6 DEF HubInv, HubType, Register, Go
    <3>2. \A d \in Sockets : (Entering(d)' <=> Entering(d)) /\ (Leaving(d)' <=> Leaving(d))
      BY <2>4, <3>1 DEF Entering, Leaving
    <3>3. \A d \in Sockets : Entering(d) \/ Leaving(d) => pc'[d] = pc[d]
      BY <2>4, <3>1 DEF Entering, Leaving
    <3> QED
      BY <2>3, <2>6, <3>1, <3>2, <3>3 DEF HubInv, Register, dispatcher, RideSettled, Entering,
         Leaving
  <2>7. CASE q = RideOf[c] /\ ~Occupied(q)
    <3>1. slot[Place(c)] = None
      BY <2>1, <2>7 DEF Occupied
    <3>2. pc[c] = "register" /\ pc'[c] = "flagged"
      BY <2>7, <3>1 DEF HubInv, HubType, Register, Go
    <3>3. CASE Subscribing(q) \/ Unsubscribing(q)
      BY <2>7, <3>3 DEF Register, RideSettled
    <3>4. CASE ~Subscribing(q) /\ ~Unsubscribing(q)
      <4>1. \A d \in Sockets : RideOf[d] = q => ~Entering(d) /\ ~Leaving(d)
        BY <3>4 DEF Subscribing, Unsubscribing, Entering, Leaving
      <4>2. \A d \in Sockets : RideOf[d] = q /\ d # c => ~Entering(d)' /\ ~Leaving(d)'
        BY <2>4, <4>1 DEF Entering, Leaving
      <4>3. q \notin disturbed' /\ dispatching' => q \notin subscribed /\ q \notin channels
        BY <2>7, <4>1 DEF HubInv, Register, dispatcher, RideSettled
      <4>4. Entering(c)' /\ ~Leaving(c)' /\ Occupied(q)'
        BY <2>3, <2>7, <3>2 DEF Entering, Leaving
      <4> QED
        BY <2>7, <3>2, <4>2, <4>3, <4>4 DEF Register, dispatcher, RideSettled, Entering, Leaving
    <3> QED
      BY <3>3, <3>4
  <2> QED
    BY <2>5, <2>6, <2>7
<1> QED
  BY <1>1, <1>2, <1>3 DEF HubInv

LEMMA CloseSupersededKeeps ==
  ASSUME HubInv, NEW c \in Sockets, CloseSuperseded(c) PROVE HubInv'
<1>1. HubType'
  BY HubAssumption DEF HubInv, CloseSuperseded, dispatcher, Go, Unnoticed, HubType, SocketPc
<1>2. NewestSocketKept'
  BY HubAssumption DEF HubInv, CloseSuperseded, Go, Registered, Unnoticed, NewestSocketKept
<1>3. ASSUME NEW q \in Rides PROVE RideSettled(q)'
  BY HubAssumption DEF HubInv, CloseSuperseded, dispatcher, Go, Roles, Occupied, RideSettled,
     Entering, Leaving
<1> QED
  BY <1>1, <1>2, <1>3 DEF HubInv

LEMMA StartPumpsKeeps ==
  ASSUME HubInv, NEW c \in Sockets, StartPumps(c) PROVE HubInv'
<1>1. HubType'
  BY HubAssumption DEF HubInv, StartPumps, hub, dispatcher, Go, HubType, SocketPc
<1>2. NewestSocketKept'
  BY HubAssumption DEF HubInv, StartPumps, hub, Go, Registered, NewestSocketKept
<1>3. ASSUME NEW q \in Rides PROVE RideSettled(q)'
  BY HubAssumption DEF HubInv, StartPumps, hub, dispatcher, Go, Roles, Occupied, RideSettled,
     Entering, Leaving
<1> QED
  BY <1>1, <1>2, <1>3 DEF HubInv

LEMMA ReadSubscribedKeeps ==
  ASSUME HubInv, NEW c \in Sockets, ReadSubscribed(c) PROVE HubInv'
<1>1. HubType'
  BY HubAssumption DEF HubInv, ReadSubscribed, hub, dispatcher, Go, HubType, SocketPc
<1>2. NewestSocketKept'
  BY HubAssumption DEF HubInv, ReadSubscribed, hub, Go, Registered, NewestSocketKept
<1>3. ASSUME NEW q \in Rides PROVE RideSettled(q)'
  BY HubAssumption DEF HubInv, ReadSubscribed, hub, dispatcher, Go, Roles, Occupied, RideSettled,
     Entering, Leaving
<1> QED
  BY <1>1, <1>2, <1>3 DEF HubInv

LEMMA SubscribeKeeps ==
  ASSUME HubInv, NEW c \in Sockets, Subscribe(c) PROVE HubInv'
<1>1. HubType'
  BY HubAssumption DEF HubInv, Subscribe, hub, Go, HubType, SocketPc
<1>2. NewestSocketKept'
  BY HubAssumption DEF HubInv, Subscribe, hub, Go, Registered, HubType, NewestSocketKept
<1>3. ASSUME NEW q \in Rides PROVE RideSettled(q)'
  BY HubAssumption DEF HubInv, Subscribe, hub, Go, Roles, Occupied, HubType, RideSettled,
     Entering, Leaving
<1> QED
  BY <1>1, <1>2, <1>3 DEF HubInv

LEMMA SetSubscribedKeeps ==
  ASSUME HubInv, NEW c \in Sockets, SetSubscribed(c) PROVE HubInv'
<1>1. HubType'
  <2>1. pc' \in [Sockets -> SocketPc]
    BY DEF HubInv, HubType, SetSubscribed, Go, SocketPc
  <2>2. \A d \in Sockets : superseded'[d] # None <=> pc'[d] = "supersede"
    BY DEF HubInv, HubType, SetSubscribed, Go, hub
  <2>3. RideOf[c] \in Rides
    BY HubAssumption
  <2> QED
    BY <2>1, <2>2, <2>3 DEF HubInv, HubType, SetSubscribed, hub
<1>2. NewestSocketKept'
  BY HubAssumption DEF HubInv, SetSubscribed, hub, Go, Registered, NewestSocketKept
<1>3. ASSUME NEW q \in Rides PROVE RideSettled(q)'
  BY HubAssumption DEF HubInv, SetSubscribed, hub, Go, Roles, Occupied, HubType, NewestSocketKept,
     RideSettled, Entering, Leaving
<1> QED
  BY <1>1, <1>2, <1>3 DEF HubInv

LEMMA ReadUnsubscribedKeeps ==
  ASSUME HubInv, NEW c \in Sockets, ReadUnsubscribed(c) PROVE HubInv'
<1>1. HubType'
  BY HubAssumption DEF HubInv, ReadUnsubscribed, hub, dispatcher, Go, HubType, SocketPc
<1>2. NewestSocketKept'
  BY HubAssumption DEF HubInv, ReadUnsubscribed, hub, Go, Registered, NewestSocketKept
<1>3. ASSUME NEW q \in Rides PROVE RideSettled(q)'
  BY HubAssumption DEF HubInv, ReadUnsubscribed, hub, dispatcher, Go, Roles, Occupied,
     RideSettled, Entering, Leaving
<1> QED
  BY <1>1, <1>2, <1>3 DEF HubInv

LEMMA UnsubscribeKeeps ==
  ASSUME HubInv, NEW c \in Sockets, Unsubscribe(c) PROVE HubInv'
<1>1. HubType'
  BY HubAssumption DEF HubInv, Unsubscribe, hub, Go, HubType, SocketPc
<1>2. NewestSocketKept'
  BY HubAssumption DEF HubInv, Unsubscribe, hub, Go, Registered, HubType, NewestSocketKept
<1>3. ASSUME NEW q \in Rides PROVE RideSettled(q)'
  BY HubAssumption DEF HubInv, Unsubscribe, hub, Go, Roles, Occupied, HubType, RideSettled,
     Entering, Leaving
<1> QED
  BY <1>1, <1>2, <1>3 DEF HubInv

LEMMA DeleteSubscribedKeeps ==
  ASSUME HubInv, NEW c \in Sockets, DeleteSubscribed(c) PROVE HubInv'
<1>1. HubType'
  BY HubAssumption DEF HubInv, DeleteSubscribed, hub, Go, HubType, SocketPc
<1>2. NewestSocketKept'
  BY HubAssumption DEF HubInv, DeleteSubscribed, hub, Go, Registered, NewestSocketKept
<1>3. ASSUME NEW q \in Rides PROVE RideSettled(q)'
  BY HubAssumption DEF HubInv, DeleteSubscribed, hub, Go, Roles, Occupied, HubType, RideSettled,
     Entering, Leaving
<1> QED
  BY <1>1, <1>2, <1>3 DEF HubInv

LEMMA DispatcherStopsKeeps ==
  ASSUME HubInv, DispatcherStops PROVE HubInv'
<1>1. HubType'
  BY HubAssumption DEF HubInv, DispatcherStops, hub, HubType
<1>2. NewestSocketKept'
  BY HubAssumption DEF HubInv, DispatcherStops, hub, Registered, NewestSocketKept
<1>3. ASSUME NEW q \in Rides PROVE RideSettled(q)'
  BY HubAssumption DEF DispatcherStops, RideSettled
<1> QED
  BY <1>1, <1>2, <1>3 DEF HubInv

LEMMA ReadFailsKeeps ==
  ASSUME HubInv, NEW c \in Sockets, ReadFails(c) PROVE HubInv'
<1>1. HubType'
  BY HubAssumption DEF HubInv, ReadFails, hub, dispatcher, Go, HubType, SocketPc
<1>2. NewestSocketKept'
  BY HubAssumption DEF HubInv, ReadFails, hub, Go, Registered, HubType, NewestSocketKept
<1>3. ASSUME NEW q \in Rides PROVE RideSettled(q)'
  BY HubAssumption DEF HubInv, ReadFails, hub, dispatcher, Go, Roles, Occupied, RideSettled,
     Entering, Leaving
<1> QED
  BY <1>1, <1>2, <1>3 DEF HubInv

LEMMA UnregisterKeeps ==
  ASSUME HubInv, NEW c \in Sockets, Unregister(c) PROVE HubInv'
<1>1. HubType'
  BY HubAssumption DEF HubInv, Unregister, dispatcher, Go, Place, Slots, Roles, Unsubscribing,
     HubType, SocketPc, ManagerPc
<1>2. NewestSocketKept'
  BY HubAssumption DEF HubInv, Unregister, Go, Registered, HubType, NewestSocketKept
<1>3. ASSUME NEW q \in Rides PROVE RideSettled(q)'
  <2>1. Place(c) = <<RideOf[c], RoleOf[c]>> /\ Place(c) \in Slots /\ RoleOf[c] \in Roles /\ None \notin Sockets
    BY HubAssumption DEF Place, Slots
  <2>2. \A d \in Sockets : d # c => pc'[d] = pc[d]
    BY DEF HubInv, HubType, Unregister, Go
  <2>3. pc[c] = "unregister" /\ pc'[c] \in {"unflagged", "gone"}
    BY DEF HubInv, HubType, Unregister, Go
  <2>4. CASE q # RideOf[c]
    <3>1. \A d \in Sockets : RideOf[d] = q => pc'[d] = pc[d]
      BY <2>2, <2>4
    <3>2. q \in disturbed' <=> q \in disturbed
      BY <2>4 DEF Unregister
    <3>3. \A role \in Roles : slot'[<<q, role>>] = slot[<<q, role>>]
      BY <2>1, <2>4 DEF HubInv, HubType, Unregister, Slots
    <3>4. Occupied(q)' <=> Occupied(q)
      BY <3>3 DEF Occupied
    <3>5. UNCHANGED <<subscribed, channels, dispatching>>
      BY DEF Unregister, dispatcher
    <3> QED
      BY <3>1, <3>2, <3>4, <3>5 DEF HubInv, RideSettled, Entering, Leaving
  <2> DEFINE rest == [slot EXCEPT ![Place(c)] = None]
             empty == slot[Place(c)] = c /\ \A role \in Roles : rest[<<RideOf[c], role>>] = None
  <2>5. CASE q = RideOf[c] /\ ~empty
    <3>1. pc'[c] = "gone" /\ disturbed' = disturbed
      BY <2>5 DEF HubInv, HubType, Unregister, Go
    <3>2. \A d \in Sockets : (Entering(d)' <=> Entering(d)) /\ (Leaving(d)' <=> Leaving(d))
      BY <2>2, <2>3, <3>1 DEF Entering, Leaving
    <3>3. \A d \in Sockets : Entering(d) \/ Leaving(d) => pc'[d] = pc[d]
      BY <2>2, <2>3 DEF Entering, Leaving
    <3>4. Occupied(q)' <=> Occupied(q)
      <4>1. CASE slot[Place(c)] = c
        <5>1. PICK role \in Roles : rest[<<RideOf[c], role>>] # None
          BY <2>5, <4>1
        <5>2. slot' = rest
          BY <4>1 DEF Unregister
        <5>3. Occupied(q)'
          BY <2>5, <5>1, <5>2 DEF Occupied
        <5>4. Occupied(q)
          BY <2>1, <2>5, <4>1 DEF Occupied
        <5> QED
          BY <5>3, <5>4
      <4>2. CASE slot[Place(c)] # c
        BY <4>2 DEF Unregister, Occupied
      <4> QED
        BY <4>1, <4>2
    <3> QED
      BY <2>5, <3>1, <3>2, <3>3, <3>4 DEF HubInv, Unregister, dispatcher, RideSettled, Entering,
         Leaving
  <2>6. CASE q = RideOf[c] /\ empty
    <3>1. pc'[c] = "unflagged" /\ slot' = rest
      BY <2>6 DEF HubInv, HubType, Unregister, Go
    <3>2. Occupied(q) /\ ~Occupied(q)'
      BY <2>1, <2>6, <3>1 DEF Occupied
    <3>3. CASE Subscribing(q) \/ Unsubscribing(q)
      <4>1. q \in disturbed'
        BY <2>6, <3>3 DEF Unregister
      <4> QED
        BY <4>1 DEF RideSettled
    <3>4. CASE ~Subscribing(q) /\ ~Unsubscribing(q)
      <4>1. \A d \in Sockets : RideOf[d] = q => ~Entering(d) /\ ~Leaving(d)
        BY <3>4 DEF Subscribing, Unsubscribing, Entering, Leaving
      <4>2. \A d \in Sockets : RideOf[d] = q /\ d # c => ~Entering(d)' /\ ~Leaving(d)'
        BY <2>2, <4>1 DEF Entering, Leaving
      <4>3. q \notin disturbed' /\ dispatching' => q \in subscribed /\ q \in channels
        BY <3>2, <4>1 DEF HubInv, Unregister, dispatcher, RideSettled
      <4>4. ~Entering(c)' /\ Leaving(c)'
        BY <3>1 DEF Entering, Leaving
      <4> QED
        BY <2>6, <3>1, <3>2, <4>2, <4>3, <4>4 DEF Unregister, dispatcher, RideSettled, Entering,
           Leaving
    <3> QED
      BY <3>3, <3>4
  <2> QED
    BY <2>4, <2>5, <2>6
<1> QED
  BY <1>1, <1>2, <1>3 DEF HubInv

LEMMA WindowClosesKeeps ==
  ASSUME HubInv, NEW r \in Rides, WindowCloses(r) PROVE HubInv'
<1>1. HubType'
  BY HubAssumption DEF HubInv, WindowCloses, hub, dispatcher, Slots, Roles, HubType
<1>2. NewestSocketKept'
  BY HubAssumption DEF HubInv, WindowCloses, hub, Registered, NewestSocketKept
<1>3. ASSUME NEW q \in Rides PROVE RideSettled(q)'
  BY RideUntouched DEF WindowCloses, hub, dispatcher, Proceed
<1> QED
  BY <1>1, <1>2, <1>3 DEF HubInv

LEMMA CloseRideKeeps ==
  ASSUME HubInv, CloseRide PROVE HubInv'
<1>1. HubType'
  BY HubAssumption DEF HubInv, CloseRide, hub, dispatcher, Unnoticed, HubType
<1>2. NewestSocketKept'
  BY HubAssumption DEF HubInv, CloseRide, hub, Registered, NewestSocketKept
<1>3. ASSUME NEW q \in Rides PROVE RideSettled(q)'
  BY RideUntouched DEF CloseRide, hub, dispatcher, Proceed
<1> QED
  BY <1>1, <1>2, <1>3 DEF HubInv

LEMMA SignalKeeps ==
  ASSUME HubInv, Signal PROVE HubInv'
<1>1. HubType'
  BY HubAssumption DEF HubInv, Signal, hub, dispatcher, Proceed, HubType, ManagerPc
<1>2. NewestSocketKept'
  BY HubAssumption DEF HubInv, Signal, hub, Proceed, Registered, NewestSocketKept
<1>3. ASSUME NEW q \in Rides PROVE RideSettled(q)'
  BY RideUntouched DEF Signal, hub, dispatcher, Proceed
<1> QED
  BY <1>1, <1>2, <1>3 DEF HubInv

LEMMA ServerStoppedKeeps ==
  ASSUME HubInv, ServerStopped PROVE HubInv'
<1>1. HubType'
  BY HubAssumption DEF HubInv, ServerStopped, hub, dispatcher, Proceed, HubType, ManagerPc
<1>2. NewestSocketKept'
  BY HubAssumption DEF HubInv, ServerStopped, hub, Proceed, Registered, NewestSocketKept
<1>3. ASSUME NEW q \in Rides PROVE RideSettled(q)'
  BY RideUntouched DEF ServerStopped, hub, dispatcher, Proceed
<1> QED
  BY <1>1, <1>2, <1>3 DEF HubInv

LEMMA CloseAllKeeps ==
  ASSUME HubInv, CloseAll PROVE HubInv'
<1>1. HubType'
  BY HubAssumption DEF HubInv, CloseAll, hub, dispatcher, Proceed, HubType, ManagerPc
<1>2. NewestSocketKept'
  BY HubAssumption DEF HubInv, CloseAll, hub, Proceed, Registered, NewestSocketKept
<1>3. ASSUME NEW q \in Rides PROVE RideSettled(q)'
  BY RideUntouched DEF CloseAll, hub, dispatcher, Proceed
<1> QED
  BY <1>1, <1>2, <1>3 DEF HubInv

LEMMA CloseSnapshotKeeps ==
  ASSUME HubInv, CloseSnapshot PROVE HubInv'
<1>1. HubType'
  BY HubAssumption DEF HubInv, CloseSnapshot, hub, dispatcher, Proceed, Unnoticed, HubType,
     ManagerPc
<1>2. NewestSocketKept'
  BY HubAssumption DEF HubInv, CloseSnapshot, hub, Proceed, Registered, NewestSocketKept
<1>3. ASSUME NEW q \in Rides PROVE RideSettled(q)'
  BY RideUntouched DEF CloseSnapshot, hub, dispatcher, Proceed
<1> QED
  BY <1>1, <1>2, <1>3 DEF HubInv

LEMMA EndWaitKeeps ==
  ASSUME HubInv, EndWait PROVE HubInv'
<1>1. HubType'
  BY HubAssumption DEF HubInv, EndWait, hub, dispatcher, Proceed, HubType, ManagerPc
<1>2. NewestSocketKept'
  BY HubAssumption DEF HubInv, EndWait, hub, Proceed, Registered, NewestSocketKept
<1>3. ASSUME NEW q \in Rides PROVE RideSettled(q)'
  BY RideUntouched DEF EndWait, hub, dispatcher, Proceed
<1> QED
  BY <1>1, <1>2, <1>3 DEF HubInv

-----------------------------------------------------------------------------
\* Every step keeps the invariant.
LEMMA HubStep == HubInv /\ [Next]_vars => HubInv'
<1> SUFFICES ASSUME HubInv, [Next]_vars PROVE HubInv'
  OBVIOUS
<1>1. ASSUME NEW c \in Sockets, ServeWS(c) PROVE HubInv'
  BY <1>1, ServeWSKeeps
<1>2. ASSUME NEW c \in Sockets, Register(c) PROVE HubInv'
  BY <1>2, RegisterKeeps
<1>3. ASSUME NEW c \in Sockets, CloseSuperseded(c) PROVE HubInv'
  BY <1>3, CloseSupersededKeeps
<1>4. ASSUME NEW c \in Sockets, StartPumps(c) PROVE HubInv'
  BY <1>4, StartPumpsKeeps
<1>5. ASSUME NEW c \in Sockets, ReadSubscribed(c) PROVE HubInv'
  BY <1>5, ReadSubscribedKeeps
<1>6. ASSUME NEW c \in Sockets, Subscribe(c) PROVE HubInv'
  BY <1>6, SubscribeKeeps
<1>7. ASSUME NEW c \in Sockets, SetSubscribed(c) PROVE HubInv'
  BY <1>7, SetSubscribedKeeps
<1>8. ASSUME NEW c \in Sockets, ReadUnsubscribed(c) PROVE HubInv'
  BY <1>8, ReadUnsubscribedKeeps
<1>9. ASSUME NEW c \in Sockets, Unsubscribe(c) PROVE HubInv'
  BY <1>9, UnsubscribeKeeps
<1>10. ASSUME NEW c \in Sockets, DeleteSubscribed(c) PROVE HubInv'
  BY <1>10, DeleteSubscribedKeeps
<1>11. CASE DispatcherStops
  BY <1>11, DispatcherStopsKeeps
<1>12. ASSUME NEW c \in Sockets, ReadFails(c) PROVE HubInv'
  BY <1>12, ReadFailsKeeps
<1>13. ASSUME NEW c \in Sockets, Unregister(c) PROVE HubInv'
  BY <1>13, UnregisterKeeps
<1>14. ASSUME NEW r \in Rides, WindowCloses(r) PROVE HubInv'
  BY <1>14, WindowClosesKeeps
<1>15. CASE CloseRide
  BY <1>15, CloseRideKeeps
<1>16. CASE Signal
  BY <1>16, SignalKeeps
<1>17. CASE ServerStopped
  BY <1>17, ServerStoppedKeeps
<1>18. CASE CloseAll
  BY <1>18, CloseAllKeeps
<1>19. CASE CloseSnapshot
  BY <1>19, CloseSnapshotKeeps
<1>20. CASE EndWait
  BY <1>20, EndWaitKeeps
<1>21. CASE UNCHANGED vars
  <2>1. HubType'
    BY <1>21 DEF vars, hub, dispatcher, HubInv, HubType
  <2>2. NewestSocketKept'
    BY <1>21 DEF vars, hub, HubInv, NewestSocketKept, Registered
  <2>3. ASSUME NEW r \in Rides PROVE RideSettled(r)'
    BY <1>21, RideUntouched DEF vars, hub, dispatcher, HubInv
  <2> QED
    BY <2>1, <2>2, <2>3 DEF HubInv
<1> QED
  BY <1>1, <1>2, <1>3, <1>4, <1>5, <1>6, <1>7, <1>8, <1>9, <1>10, <1>11, <1>12, <1>13, <1>14,
     <1>15, <1>16, <1>17, <1>18, <1>19, <1>20, <1>21 DEF Next, Serve

\* The inductive invariant holds of every behaviour of the hub.
LEMMA HubInvariant == Spec => []HubInv
BY HubInitially, HubStep, PTL DEF Spec

\* Every variable of the hub, the dispatcher and the shutdown manager has its type.
THEOREM HubTypes == Spec => []HubType
<1>1. HubInv => HubType
  BY DEF HubInv
<1> QED
  BY <1>1, HubInvariant, PTL

\* Whatever order connections of one role are replaced and cleaned up in, the newest
\* keeps the slot, and every other one is closed or about to be.
THEOREM NewestSocketKeptAlways == Spec => []NewestSocketKept
<1>1. HubInv => NewestSocketKept
  BY DEF HubInv
<1> QED
  BY <1>1, HubInvariant, PTL

\* Outside a disturbed ride and a subscribe or unsubscribe under way, this instance
\* gets a ride's positions exactly if somebody is connected for it.
THEOREM SubscriptionExplainedAlways == Spec => []SubscriptionExplained
<1>1. HubInv => SubscriptionExplained
  <2> SUFFICES ASSUME HubInv, NEW r \in Rides \ disturbed, dispatching, ~Subscribing(r), ~Unsubscribing(r)
               PROVE  /\ \A subject \in Roles : DeliverTarget(r, subject) = slot[<<r, Opposite(subject)>>]
                      /\ r \in channels => Occupied(r)
                      /\ r \in subscribed <=> r \in channels
    BY DEF SubscriptionExplained
  <2>1. (Occupied(r) <=> r \in channels) /\ (Occupied(r) <=> r \in subscribed)
    BY DEF HubInv, RideSettled, Subscribing, Unsubscribing, Entering, Leaving
  <2>2. ASSUME NEW subject \in Roles PROVE DeliverTarget(r, subject) = slot[<<r, Opposite(subject)>>]
    BY <2>1 DEF DeliverTarget, Occupied, Opposite, Roles
  <2> QED
    BY <2>1, <2>2
<1> QED
  BY <1>1, HubInvariant, PTL

=============================================================================
