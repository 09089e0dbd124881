---------------------------- MODULE DriverService ----------------------------
(***************************************************************************)
(* driver-service: the status of a driver and the shifts, under HTTP       *)
(* commands and the events of a ride.  The status is flipped by guarded    *)
(* updates that know the driver and not the ride.  Opening a shift checks  *)
(* and inserts in two statements; ending one commits ended_at on its own   *)
(* connection, before the transaction that flips the status and writes the *)
(* outbox message.                                                         *)
(***************************************************************************)
EXTENDS Topics

CONSTANTS
  Shifts,
  MaxRequests  \* bound on CreateShift requests of one driver in flight

ASSUME DriverServiceAssumption == MaxRequests \in Nat \ {0} /\ IsFiniteSet(Shifts)

VARIABLES
  status,     \* driver.driver.status; "none" before the row exists
  counted,    \* driver.driver.total_rides_completed
  shift,      \* driver.shift: its driver (None before the row exists), ended_at set
  creating,   \* CreateShift requests past HasActiveShift, per driver
  ending,     \* shifts whose end is committed and whose transaction is not
  announced,  \* statuses a shift.updated was committed with, per shift
  serves,    \* history: the ride whose ride.accepted made the driver OnRide
  recounted   \* history: repeated ride.completed that found the driver OnRide

driverVars == <<status, counted, shift, creating, ending, announced, serves, recounted>>
shiftVars == <<shift, creating, ending, announced>>

DriverType ==
  /\ status \in [Drivers -> {"none", "Offline", "Online", "OnRide"}]
  /\ counted \in [Drivers -> Nat]
  /\ shift \in [Shifts -> [driver : Drivers \cup {None}, ended : BOOLEAN]]
  /\ creating \in [Drivers -> 0..MaxRequests]
  /\ ending \subseteq Shifts
  /\ announced \in [Shifts -> SUBSET {"Online", "Ended"}]
  /\ serves \in [Drivers -> Rides \cup {None}]
  /\ recounted \in [Drivers -> Nat]

DriverInit ==
  /\ status = [d \in Drivers |-> "none"]
  /\ counted = [d \in Drivers |-> 0]
  /\ shift = [s \in Shifts |-> [driver |-> None, ended |-> FALSE]]
  /\ creating = [d \in Drivers |-> 0]
  /\ ending = {}
  /\ announced = [s \in Shifts |-> {}]
  /\ serves = [d \in Drivers |-> None]
  /\ recounted = [d \in Drivers |-> 0]

ActiveShifts(d) == {s \in Shifts : shift[s].driver = d /\ ~shift[s].ended}

HasActiveShift(d) == ActiveShifts(d) # {}

\* UPDATE driver.driver SET status = to WHERE id = d AND status = from
UpdateDriverStatus(d, from, to) ==
  status' = IF status[d] = from THEN [status EXCEPT ![d] = to] ELSE status

---------------------------------------------------------------------------
(* Drivers and shifts *)

CreateDriver(d) ==
  /\ status[d] = "none"
  /\ status' = [status EXCEPT ![d] = "Offline"]
  /\ UNCHANGED <<counted, shiftVars, serves, recounted, topicVars>>

\* CreateShift, first statement: refused while the driver has an active shift.
RequestShift(d) ==
  /\ ~HasActiveShift(d)
  /\ status[d] # "none" /\ creating[d] < MaxRequests
  /\ creating' = [creating EXCEPT ![d] = @ + 1]
  /\ UNCHANGED <<status, counted, shift, ending, announced, serves, recounted, topicVars>>

\* CreateShift, second statement: the insert, which may also fail.
InsertShift(d) ==
  /\ creating[d] > 0
  /\ creating' = [creating EXCEPT ![d] = @ - 1]
  /\ \/ /\ \E s \in Shifts : /\ shift[s].driver = None
                             /\ shift' = [shift EXCEPT ![s].driver = d]
        /\ UNCHANGED faults
     \/ Fault /\ UNCHANGED shift
  /\ UNCHANGED <<status, counted, ending, announced, serves, recounted, sent, handled>>

\* UpdateShift with status Online: it does not look at ended_at.  (With a status
\* that is neither Online nor Ended it only publishes a shift.updated.)
StartShift(s) ==
  /\ shift[s].driver # None
  /\ UpdateDriverStatus(shift[s].driver, "Offline", "Online")
  /\ announced' = [announced EXCEPT ![s] = @ \cup {"Online"}]
  /\ UNCHANGED <<counted, shift, creating, ending, serves, recounted, topicVars>>

\* UpdateShift with status Ended, as far as EndShift.
EndShift(s) ==
  /\ shift[s].driver # None /\ ~shift[s].ended
  /\ shift' = [shift EXCEPT ![s].ended = TRUE]
  /\ ending' = ending \cup {s}
  /\ UNCHANGED <<status, counted, creating, announced, serves, recounted, topicVars>>

\* The rest of UpdateShift with status Ended: its transaction commits ...
CommitEndShift(s) ==
  /\ s \in ending
  /\ ending' = ending \ {s}
  /\ UpdateDriverStatus(shift[s].driver, "Online", "Offline")
  /\ announced' = [announced EXCEPT ![s] = @ \cup {"Ended"}]
  /\ UNCHANGED <<counted, shift, creating, serves, recounted, topicVars>>

\* ... or is rolled back.  The shift stays ended.
AbortEndShift(s) ==
  /\ s \in ending /\ Fault
  /\ ending' = ending \ {s}
  /\ UNCHANGED <<status, counted, shift, creating, announced, serves, recounted, sent, handled>>

---------------------------------------------------------------------------
(* Events of a ride *)

Flips(d, from) == status[d] = from

ProcessRideAccepted(m) ==
  /\ UpdateDriverStatus(m.driver, "Online", "OnRide")
  /\ serves' = IF Flips(m.driver, "Online") THEN [serves EXCEPT ![m.driver] = m.ride] ELSE serves
  /\ UNCHANGED <<counted, shiftVars, recounted>>

\* Mutant: the flip asks for the status it is about to write.
ReleaseNever(d) == UpdateDriverStatus(d, "Online", "Online") /\ UNCHANGED serves

Release(d) ==
  /\ UpdateDriverStatus(d, "OnRide", "Online")
  /\ serves' = IF Flips(d, "OnRide") THEN [serves EXCEPT ![d] = None] ELSE serves

ProcessRideCancelled(m) ==
  /\ IF m.driver = None THEN UNCHANGED <<status, serves>> ELSE Release(m.driver)
  /\ UNCHANGED <<counted, shiftVars, recounted>>

\* Mutant: the increment is not tied to the flip.
CountsAlways(d) == TRUE

\* IncrementRidesCompleted runs only when the status was flipped.
Counts(d) == Flips(d, "OnRide")

ProcessRideCompleted(m) ==
  /\ Release(m.driver)
  /\ counted' = IF Counts(m.driver) THEN [counted EXCEPT ![m.driver] = @ + 1] ELSE counted
  /\ recounted' = IF m \in handled["driver"] /\ Flips(m.driver, "OnRide")
                  THEN [recounted EXCEPT ![m.driver] = @ + 1] ELSE recounted
  /\ UNCHANGED shiftVars

DriverRideAcceptedConsumer ==
  \E m \in sent : m.topic = "ride.accepted" /\ Receive("driver", m) /\ ProcessRideAccepted(m)

RideCancelledConsumer ==
  \E m \in sent : m.topic = "ride.cancelled" /\ Receive("driver", m) /\ ProcessRideCancelled(m)

RideCompletedConsumer ==
  \E m \in sent : m.topic = "ride.completed" /\ Receive("driver", m) /\ ProcessRideCompleted(m)

DriverNext ==
  \/ \E d \in Drivers : CreateDriver(d) \/ RequestShift(d) \/ InsertShift(d)
  \/ \E s \in Shifts : StartShift(s) \/ EndShift(s) \/ CommitEndShift(s) \/ AbortEndShift(s)
  \/ DriverRideAcceptedConsumer \/ RideCancelledConsumer \/ RideCompletedConsumer

=============================================================================
