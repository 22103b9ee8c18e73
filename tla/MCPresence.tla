----------------------------- MODULE MCPresence -----------------------------
(* Small instances of Presence for TLC. *)
EXTENDS Presence, TLC

CONSTANTS bridgeSlot, slot, other, alice, bob, carol, tracker

MCTag == {"AP", "NoText", "DeathLink", "TextOnly", "Tracker", "HintGame"}

\* Two game clients with different tags and a tracker, all on one slot.
MCSlotOf   == (alice :> slot) @@ (bob :> slot) @@ (tracker :> slot)
MCBaseTags == (alice :> {"AP"}) @@ (bob :> {"AP", "NoText"})
              @@ (tracker :> {"AP", "Tracker"})

\* Two game clients share a slot, a third and a tracker share another.
PairsSlotOf   == (alice :> slot) @@ (bob :> slot)
                 @@ (carol :> other) @@ (tracker :> other)
PairsBaseTags == MCBaseTags @@ (carol :> {"AP"})
=============================================================================
