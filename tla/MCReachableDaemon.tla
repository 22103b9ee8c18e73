------------------------- MODULE MCReachableDaemon -------------------------
(* Small instances of ReachableDaemon for TLC. *)
EXTENDS ReachableDaemon, TLC

CONSTANTS c1, c2
=============================================================================
