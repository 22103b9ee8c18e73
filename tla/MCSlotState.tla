---------------------------- MODULE MCSlotState ----------------------------
(* Small instances of SlotState for TLC. *)
EXTENDS SlotState, TLC

CONSTANTS a, b, sent, silent

\* a finds an item for b; the server prints nothing of b's own one.
MCFinderOf   == (sent :> a) @@ (silent :> b)
MCReceiverOf == (sent :> b) @@ (silent :> b)
=============================================================================
