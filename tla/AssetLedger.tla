----------------------------- MODULE AssetLedger -----------------------------
(***************************************************************************)
(* What the asset chaincode promises its clients: a ledger of assets on    *)
(* which committed transactions take effect one at a time, each on the     *)
(* holdings that its predecessor left.  `chain` is the list of committed   *)
(* transactions with what each of them returned.                           *)
(***************************************************************************)
EXTENDS Assets, Naturals, Sequences

CONSTANT Txs    \* transaction identifiers

VARIABLES
  holding,      \* the assets, by ID
  chain         \* the committed transactions, in order

vars == <<holding, chain>>

Fresh(t) == \A i \in DOMAIN chain : chain[i].tx # t

Record(t, inv, ret) ==
  /\ Fresh(t)
  /\ chain' = Append(chain, [tx |-> t, inv |-> inv, ret |-> ret])

AsGiven(inv) == [ID |-> inv.id, Owner |-> Encoded(inv.owner), Details |-> inv.details]

Issue(t, inv) ==
  /\ inv.fn = "CreateAsset"
  /\ holding[inv.id] = NoAsset
  /\ holding' = [holding EXCEPT ![inv.id] = AsGiven(inv)]
  /\ Record(t, inv, NoReturn)

Amend(t, inv) ==
  /\ inv.fn = "UpdateAsset"
  /\ holding[inv.id] # NoAsset
  /\ holding' = [holding EXCEPT ![inv.id] = AsGiven(inv)]
  /\ Record(t, inv, NoReturn)

Retire(t, inv) ==
  /\ inv.fn = "DeleteAsset"
  /\ holding[inv.id] # NoAsset
  /\ holding' = [holding EXCEPT ![inv.id] = NoAsset]
  /\ Record(t, inv, NoReturn)

(* The owner changes, the details stay, and the client learns the old owner. *)
HandOver(t, inv) ==
  /\ inv.fn = "TransferAsset"
  /\ inv.flag
  /\ holding[inv.id] # NoAsset
  /\ holding' = [holding EXCEPT ![inv.id].Owner = Encoded(inv.owner)]
  /\ Record(t, inv, holding[inv.id].Owner)

(* A transfer with its flag unset only requires the asset to exist. *)
Withhold(t, inv) ==
  /\ inv.fn = "TransferAsset"
  /\ ~inv.flag
  /\ holding[inv.id] # NoAsset
  /\ UNCHANGED holding
  /\ Record(t, inv, NoReturn)

Consult(t, inv) ==
  /\ UNCHANGED holding
  /\ \/ /\ inv.fn = "ReadAsset"
        /\ holding[inv.id] # NoAsset
        /\ Record(t, inv, holding[inv.id])
     \/ /\ inv.fn = "AssetExists"
        /\ Record(t, inv, holding[inv.id] # NoAsset)
     \/ /\ inv.fn = "GetAllAssets"
        /\ Record(t, inv, {holding[k] : k \in {j \in Ids : holding[j] # NoAsset}})

Init ==
  /\ holding = [k \in Ids |-> NoAsset]
  /\ chain = <<>>

Next == \E t \in Txs, inv \in Invocation :
          \/ Issue(t, inv)
          \/ Amend(t, inv)
          \/ Retire(t, inv)
          \/ HandOver(t, inv)
          \/ Withhold(t, inv)
          \/ Consult(t, inv)

Spec == Init /\ [][Next]_vars

------------------------------------------------------------------------------
(* Readings of one committed transaction. *)

Creates(e, id) == e.inv.fn = "CreateAsset" /\ e.inv.id = id
Deletes(e, id) == e.inv.fn = "DeleteAsset" /\ e.inv.id = id
Moves(e, id)   == e.inv.fn = "TransferAsset" /\ e.inv.flag /\ e.inv.id = id

SetsDetails(e, id) == e.inv.fn \in {"CreateAsset", "UpdateAsset"} /\ e.inv.id = id
SetsOwner(e, id)   == SetsDetails(e, id) \/ Moves(e, id)

(* Two committed creations of one ID have its deletion between them: the   *)
(* existence check of CreateAsset is never passed twice for one asset.     *)
OneCreatePerLife ==
  \A id \in Ids : \A i, j \in DOMAIN chain :
    (i < j /\ Creates(chain[i], id) /\ Creates(chain[j], id))
      => \E k \in DOMAIN chain : i < k /\ k < j /\ Deletes(chain[k], id)

(* Every committed transfer returned the owner that the last committed     *)
(* transaction to set an owner had set, with no deletion in between.       *)
TransferReturnsOldOwner ==
  \A id \in Ids : \A j \in DOMAIN chain :
    Moves(chain[j], id)
      => \E i \in DOMAIN chain :
           /\ i < j
           /\ SetsOwner(chain[i], id)
           /\ chain[j].ret = Encoded(chain[i].inv.owner)
           /\ \A k \in DOMAIN chain :
                (i < k /\ k < j)
                  => ~SetsOwner(chain[k], id) /\ ~Deletes(chain[k], id)

(* No update is lost: a live asset has the details given by the last       *)
(* committed transaction to give any, whatever transfers came after it.    *)
NoLostUpdate ==
  \A id \in Ids :
    holding[id] # NoAsset
      => \E i \in DOMAIN chain :
           /\ SetsDetails(chain[i], id)
           /\ holding[id].Details = chain[i].inv.details
           /\ \A k \in DOMAIN chain :
                i < k => ~SetsDetails(chain[k], id) /\ ~Deletes(chain[k], id)

==============================================================================
