------------------------------- MODULE Assets -------------------------------
(***************************************************************************)
(* The data of the asset chaincode (interoperability_fabric.go): the asset *)
(* record kept in the world state, its JSON form, and the invocations that *)
(* clients may send.                                                       *)
(*                                                                         *)
(* Color, Size and AppraisedValue always travel together (CreateAsset and  *)
(* UpdateAsset set all three, TransferAsset keeps all three), so they are  *)
(* one value, Details.                                                     *)
(***************************************************************************)

CONSTANTS
  Ids,          \* asset IDs, the keys of the world state
  Names,        \* owner strings a client may pass
  Details,      \* values of <<Color, Size, AppraisedValue>>
  Malformed,    \* the Names that are not valid UTF-8
  Replacement,  \* what encoding/json writes in place of such a name
  NoAsset,      \* the world state holds nothing under a key (GetState = nil)
  NoReturn      \* the function returns no value to the client

ASSUME NamesAssumption ==
  /\ Malformed \subseteq Names
  /\ Replacement \in Names \ Malformed

Asset == [ID : Ids, Owner : Names, Details : Details]

ASSUME NoAssetAssumption == NoAsset \notin Asset

(* json.Marshal keeps every well-formed string and coerces a malformed one. *)
Encoded(name) == IF name \in Malformed THEN Replacement ELSE name

(* json.Marshal followed, in a later transaction, by json.Unmarshal. *)
Marshal(asset) == [asset EXCEPT !.Owner = Encoded(@)]

(* Assets that have been through Marshal: all that GetState can decode to. *)
StoredAsset == [ID : Ids, Owner : Names \ Malformed, Details : Details]

WorldState == [Ids -> StoredAsset \cup {NoAsset}]

Updating == {"CreateAsset", "UpdateAsset", "DeleteAsset", "TransferAsset"}
Reading  == {"ReadAsset", "AssetExists", "GetAllAssets"}

(* One shape for all invocations; a function ignores what it does not take. *)
Invocation == [fn      : Updating \cup Reading,
               id      : Ids,
               owner   : Names,
               details : Details,
               flag    : BOOLEAN]

==============================================================================
