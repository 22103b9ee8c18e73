---------------------------- MODULE MCReachable ----------------------------
(* Small instances of Reachable for TLC. *)
EXTENDS Reachable, TLC

CONSTANTS s1, s2

\* The slots are interchangeable: for the run without temporal properties.
SlotSymmetry == Permutations({s1, s2})
=============================================================================
