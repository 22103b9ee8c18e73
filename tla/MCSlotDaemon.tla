---------------------------- MODULE MCSlotDaemon ----------------------------
(* Small instances of SlotDaemon for TLC. *)
EXTENDS SlotDaemon

CONSTANTS s1, s2, s3
=============================================================================
