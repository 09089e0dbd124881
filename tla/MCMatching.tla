----------------------------- MODULE MCMatching -----------------------------
(***************************************************************************)
(* Small instances of Matching for TLC.                                    *)
(***************************************************************************)
EXTENDS Matching, TLC

CONSTANTS r1, r2, d1, d2, s1, s2

\* The drivers are interchangeable.
DriverSymmetry == Permutations(Drivers)
=============================================================================
