------------------------------ MODULE Dispatch ------------------------------
(***************************************************************************)
(* ride-service and driver-service together, connected by topics that      *)
(* reorder and repeat, with matching- and billing-service as the           *)
(* environment: matching answers a requested ride, naming one driver whose *)
(* shift it has heard of (OneWinner of module Matching); billing reports   *)
(* the payment of a ride that is to be paid for.                           *)
(***************************************************************************)
EXTENDS RideService, DriverService

vars == <<topicVars, ride, driverVars>>

Init ==
  /\ sent = {} /\ handled = [g \in Groups |-> {}] /\ faults = 0
  /\ RideInit /\ DriverInit

---------------------------------------------------------------------------
(* The environment *)

Sent(topic) == {m \in sent : m.topic = topic}

About(r, ms) == {m \in ms : m.ride = r}

\* AcceptRide of matching-service publishes ride.accepted.
MatchingAccepts(r, d) ==
  /\ Msg("ride.requested", r, None) \in sent
  /\ About(r, Sent("ride.accepted")) = {}
  /\ \E s \in Shifts : shift[s].driver = d /\ "Online" \in announced[s]
  /\ Send(Msg("ride.accepted", r, d))

MatchingGivesUp(r) ==
  /\ Msg("ride.requested", r, None) \in sent
  /\ Msg("ride.matching_failed", r, None) \notin sent
  /\ Send(Msg("ride.matching_failed", r, None))

\* Billing is paid for a completed ride, and for a cancelled one with a fee.
BillingPaid(r) ==
  /\ \E m \in About(r, Sent("ride.completed") \cup Sent("ride.cancelled")) : m.driver # None
  /\ Msg("payment.completed", r, None) \notin sent
  /\ Send(Msg("payment.completed", r, None))

Environment ==
  \/ \E r \in Rides, d \in Drivers : MatchingAccepts(r, d)
  \/ \E r \in Rides : MatchingGivesUp(r) \/ BillingPaid(r)

Next ==
  \/ RideNext /\ UNCHANGED driverVars
  \/ DriverNext /\ UNCHANGED ride
  \/ Environment /\ UNCHANGED <<ride, driverVars>>

Spec == Init /\ [][Next]_vars

\* A consumer fetches for ever and retries a message until it is handled.
Fairness ==
  /\ WF_vars(RideAcceptedConsumer /\ UNCHANGED driverVars)
  /\ WF_vars(RideMatchingFailedConsumer /\ UNCHANGED driverVars)
  /\ WF_vars(PaymentCompletedConsumer /\ UNCHANGED driverVars)
  /\ WF_vars(DriverRideAcceptedConsumer /\ UNCHANGED ride)
  /\ WF_vars(RideCancelledConsumer /\ UNCHANGED ride)
  /\ WF_vars(RideCompletedConsumer /\ UNCHANGED ride)

---------------------------------------------------------------------------
(* Properties *)

\* Every variable has its type, and a driver is OnRide exactly while the ride
\* whose ride.accepted flipped the status has not been released.
TypeOK ==
  /\ sent \subseteq Message
  /\ handled \in [Groups -> SUBSET Message]
  /\ faults \in 0..MaxFaults
  /\ RideType /\ DriverType
  /\ \A d \in Drivers : status[d] = "OnRide" <=> serves[d] # None

EndMessages(r) == About(r, Sent("ride.completed") \cup Sent("ride.cancelled"))

\* A ride ends once, with one message, and the row never moves away from what the
\* message told billing- and driver-service: completed or cancelled, and by or
\* without which driver.  A ride that was started is not cancelled.  Late and
\* repeated ride.accepted, which race every command, do not break this.
EventsAgree ==
  \A r \in Rides :
    /\ \A m, n \in EndMessages(r) : m = n
    /\ ride[r].status \in {"Completed", "Cancelled"} <=> EndMessages(r) # {}
    /\ \A m \in EndMessages(r) :
         /\ m.driver = ride[r].driver
         /\ ride[r].status = IF m.topic = "ride.completed" THEN "Completed" ELSE "Cancelled"
         /\ m.topic = "ride.cancelled" => About(r, Sent("ride.started")) = {}

\* bill_id is set without looking at the status, yet only rides that are over and
\* had a driver have one, also after late events.
BilledIsOver ==
  \A r \in Rides :
    ride[r].billed => ride[r].status \in {"Completed", "Cancelled"} /\ ride[r].driver # None

\* total_rides_completed counts a completed ride once.  The only way to count one
\* again is a repeated ride.completed that finds the driver on another ride, which
\* the guard on the status cannot tell apart.
CountedOnce ==
  \A d \in Drivers :
    counted[d] <= Cardinality({m \in Sent("ride.completed") : m.driver = d}) + recounted[d]

\* HasActiveShift and the insert are two statements: a driver never has more
\* active shifts than requests that overlapped, and one if none did.
ShiftsBounded ==
  \A d \in Drivers : Cardinality(ActiveShifts(d)) + creating[d] <= MaxRequests

\* A driver on a ride is released by the message that the ride is over, if it names
\* the driver and is still to be handled, whatever arrives in between.
DriverReleased ==
  \A r \in Rides, d \in Drivers :
    (serves[d] = r /\ \E m \in Unhandled("driver") \cap EndMessages(r) : m.driver = d)
      ~> serves[d] # r

\* A ride matching has answered does not stay Requested.
AnswerArrives ==
  \A r \in Rides :
    (About(r, Sent("ride.accepted") \cup Sent("ride.matching_failed")) # {})
      ~> ride[r].status # "Requested"

=============================================================================
