----------------------------- MODULE MCTracking -----------------------------
(***************************************************************************)
(* Small instances of Tracking for TLC: one driver and one client, who     *)
(* have two rides one after the other.                                     *)
(***************************************************************************)
EXTENDS Tracking

CONSTANTS r1, r2, d1, c1

AllD1 == [r \in Rides |-> d1]
AllC1 == [r \in Rides |-> c1]
=============================================================================
