------------------------------- MODULE MCHub -------------------------------
(***************************************************************************)
(* An instance of Hub for TLC: one ride, a driver who connects twice and a *)
(* client.                                                                 *)
(***************************************************************************)
EXTENDS Hub

CONSTANTS r1, a1, a2, b1

OneRide == [c \in Sockets |-> r1]
TwoRoles == [c \in Sockets |-> IF c = b1 THEN "Client" ELSE "Driver"]
=============================================================================
