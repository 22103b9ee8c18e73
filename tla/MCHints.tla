------------------------------ MODULE MCHints ------------------------------
(* Small instances of Hints for TLC. *)
EXTENDS Hints, TLC

CONSTANTS a, b, across, own, page

\* An item of a's found in b's world, another in its own.
MCReceiverOf == (across :> a) @@ (own :> a)
MCFinderOf   == (across :> b) @@ (own :> a)

\* The one that is printed to the bridge is an admin's.
MCMadeAs     == (across :> {Priority}) @@ (own :> {Unspecified})
=============================================================================
