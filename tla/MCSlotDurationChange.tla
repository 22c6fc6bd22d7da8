------------------------- MODULE MCSlotDurationChange -------------------------
(* Instances of SlotDurationChange for TLC. *)
EXTENDS SlotDurationChange

CONSTANTS n1, n2

MCAuthorities == <<n1, n2>>

==============================================================================
