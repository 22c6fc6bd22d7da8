--------------------------- MODULE MCTemplatePallet ---------------------------
(* Instances of TemplatePallet for TLC. *)
EXTENDS TemplatePallet

CONSTANTS alice, bob

==============================================================================
