--------------------------- MODULE MCAuraAuthoring ---------------------------
(* Instances of AuraAuthoring for TLC. *)
EXTENDS AuraAuthoring

CONSTANTS n1, n2

MCAuthorities == <<n1, n2>>

==============================================================================
