---------------------------- MODULE MCBilling ----------------------------
(***************************************************************************)
(* Small instances of Billing for TLC.                                     *)
(***************************************************************************)
EXTENDS Billing

CONSTANTS i1, c1, w1, w2

\* Every invoice belongs to the one client.
MCClientOf == [i \in Invoices |-> c1]
=============================================================================
