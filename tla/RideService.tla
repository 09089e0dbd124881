----------------------------- MODULE RideService -----------------------------
(***************************************************************************)
(* ride-service: the row of a ride under HTTP commands and the events of   *)
(* matching- and billing-service.  A command locks the row, checks it and  *)
(* writes it together with its outbox message in one transaction: one      *)
(* step.  A command that is refused or rolled back changes nothing.  Each  *)
(* command comes from the client who owns the ride or names a driver: any  *)
(* other caller is refused.                                                *)
(***************************************************************************)
EXTENDS Topics

VARIABLE ride   \* ride.ride: status ("none" before the row exists), driver_id, bill_id set

RideStatus == {"none", "Requested", "Matched", "InProgress", "Completed", "Cancelled", "Failed"}

RideType == ride \in [Rides -> [status : RideStatus, driver : Drivers \cup {None}, billed : BOOLEAN]]

RideInit == ride = [r \in Rides |-> [status |-> "none", driver |-> None, billed |-> FALSE]]

\* Mutant of Unmatched: the guard asks for a driver instead of none.
UnmatchedAssigned(r) == ride[r].status = "Requested" /\ ride[r].driver # None

\* WHERE status = 'Requested'
Unmatched(r) == ride[r].status = "Requested"

\* Mutant of Cancellable: a ride in progress is not refused.
CancellableUnlessOver(r) == ride[r].status \notin {"none", "Completed", "Cancelled"}

\* What CancelRide does not refuse: a failed ride among others.
Cancellable(r) == ride[r].status \notin {"none", "InProgress", "Completed", "Cancelled"}

SetStatus(r, s) == ride' = [ride EXCEPT ![r].status = s]

---------------------------------------------------------------------------
(* HTTP commands *)

CreateRide(r) ==
  /\ ride[r].status = "none"
  /\ SetStatus(r, "Requested")
  /\ Send(Msg("ride.requested", r, None))

StartRide(r, d) ==
  /\ ride[r].driver = d
  /\ ride[r].status = "Matched"
  /\ SetStatus(r, "InProgress")
  /\ Send(Msg("ride.started", r, d))

CompleteRide(r, d) ==
  /\ ride[r].driver = d
  /\ ride[r].status = "InProgress"
  /\ SetStatus(r, "Completed")
  /\ Send(Msg("ride.completed", r, d))

\* The message carries a fee exactly when it names a driver.
CancelRide(r) ==
  /\ Cancellable(r)
  /\ SetStatus(r, "Cancelled")
  /\ Send(Msg("ride.cancelled", r, ride[r].driver))

---------------------------------------------------------------------------
(* Consumers: a guard that misses is not an error, the message is handled. *)

MarkRideMatched(m) ==
  ride' = IF Unmatched(m.ride)
          THEN [ride EXCEPT ![m.ride].status = "Matched", ![m.ride].driver = m.driver]
          ELSE ride

FailRide(m) ==
  ride' = IF Unmatched(m.ride) THEN [ride EXCEPT ![m.ride].status = "Failed"] ELSE ride

\* UPDATE ... WHERE id = ...: a ride that does not exist matches no row.
MarkRideBilled(m) == ride' = [ride EXCEPT ![m.ride].billed = TRUE]

RideAcceptedConsumer ==
  \E m \in sent : m.topic = "ride.accepted" /\ Receive("ride", m) /\ MarkRideMatched(m)

RideMatchingFailedConsumer ==
  \E m \in sent : m.topic = "ride.matching_failed" /\ Receive("ride", m) /\ FailRide(m)

PaymentCompletedConsumer ==
  \E m \in sent : m.topic = "payment.completed" /\ Receive("ride", m) /\ MarkRideBilled(m)

RideNext ==
  \/ \E r \in Rides : CreateRide(r) \/ CancelRide(r)
  \/ \E r \in Rides, d \in Drivers : StartRide(r, d) \/ CompleteRide(r, d)
  \/ RideAcceptedConsumer \/ RideMatchingFailedConsumer \/ PaymentCompletedConsumer

=============================================================================
