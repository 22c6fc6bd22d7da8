---------------------------- MODULE MCNodeService ----------------------------
(* NodeService has no parameters: TLC explores all of it. *)
EXTENDS NodeService

==============================================================================
