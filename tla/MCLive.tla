------------------------------- MODULE MCLive -------------------------------
(***************************************************************************)
(* Small instances of two machines that must get somewhere: the tracking   *)
(* windows of location-service (Tracking) and ride- and driver-service     *)
(* (Dispatch).  They share no state, so one of them runs in a behaviour    *)
(* and the other stands still in its initial state.                        *)
(***************************************************************************)
EXTENDS MCTracking

CONSTANTS s1, s2

VARIABLES
  machine,
  sent, handled, dispatchFaults, ride, status, counted, shift, creating, ending, announced,
  serves, recounted

dispatchVars ==
  <<sent, handled, dispatchFaults, ride, status, counted, shift, creating, ending, announced,
    serves, recounted>>

\* One ride, one driver, two shifts, overlapping shift requests.
DispatchRides == {r1}
DispatchDrivers == {d1}
DispatchShifts == {s1, s2}

D == INSTANCE Dispatch WITH
  Rides <- DispatchRides, Drivers <- DispatchDrivers, Shifts <- DispatchShifts,
  MaxFaults <- 2, MaxRequests <- 2, faults <- dispatchFaults

LiveInit == machine \in {"tracking", "dispatch"} /\ Init /\ D!Init

LiveNext ==
  /\ UNCHANGED machine
  /\ \/ machine = "tracking" /\ Next /\ UNCHANGED dispatchVars
     \/ machine = "dispatch" /\ D!Next /\ UNCHANGED vars

\* A machine that stands still has no message and no key to deal with, so its own
\* fairness asks nothing of it.
LiveSpec ==
  /\ LiveInit
  /\ [][LiveNext]_<<machine, vars, dispatchVars>>
  /\ Fairness
  /\ D!Fairness

\* The release of a driver whose ride is over (driver-service), as Dispatch states it.
DriverReleased == D!DriverReleased

\* The end of waiting for matching's answer (ride-service), as Dispatch states it.
AnswerArrives == D!AnswerArrives
=============================================================================
