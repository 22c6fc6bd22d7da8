---------------------------- MODULE AssetContract ----------------------------
(***************************************************************************)
(* The chaincode functions, each as an operator of the world state that it *)
(* is simulated on.  The outcome of a simulation says whether the function *)
(* returned an error, what it returned otherwise, and which keys it put or *)
(* deleted.  No function reads a key after having written it, so it does   *)
(* not matter that Fabric hides a simulation's own writes from it.         *)
(***************************************************************************)
EXTENDS Assets

NoPut          == [k \in {} |-> NoAsset]
PutState(k, a) == [j \in {k} |-> a]
DelState(k)    == [j \in {k} |-> NoAsset]

Failure           == [err |-> TRUE, ret |-> NoReturn, put |-> NoPut]
Success(put, ret) == [err |-> FALSE, ret |-> ret, put |-> put]

(* `assetJSON != nil` *)
Exists(state, id) == state[id] # NoAsset

AssetExists(state, id) == Success(NoPut, Exists(state, id))

(* Slip: the answer of AssetExists is not looked at. *)
CreateAssetUnchecked(state, id, details, owner) ==
  Success(PutState(id, Marshal([ID |-> id, Owner |-> owner, Details |-> details])),
          NoReturn)

CreateAsset(state, id, details, owner) ==
  IF Exists(state, id)
  THEN Failure
  ELSE Success(PutState(id, Marshal([ID |-> id, Owner |-> owner, Details |-> details])),
               NoReturn)

ReadAsset(state, id) ==
  IF Exists(state, id) THEN Success(NoPut, state[id]) ELSE Failure

UpdateAsset(state, id, details, owner) ==
  IF Exists(state, id)
  THEN Success(PutState(id, Marshal([ID |-> id, Owner |-> owner, Details |-> details])),
               NoReturn)
  ELSE Failure

(* Slip: deleting what does not exist is no error. *)
DeleteAssetUnchecked(state, id) == Success(DelState(id), NoReturn)

DeleteAsset(state, id) ==
  IF Exists(state, id) THEN Success(DelState(id), NoReturn) ELSE Failure

(* Slips: the owner stored without json.Marshal, the owner read after it   *)
(* was assigned.                                                           *)
TransferAssetRaw(state, id, newOwner, flag) ==
  IF ~Exists(state, id) THEN Failure
  ELSE Success(PutState(id, [state[id] EXCEPT !.Owner = newOwner]), state[id].Owner)

TransferAssetLateRead(state, id, newOwner, flag) ==
  IF ~Exists(state, id) THEN Failure
  ELSE Success(PutState(id, Marshal([state[id] EXCEPT !.Owner = newOwner])), newOwner)

(***************************************************************************)
(* With flag unset the function reads the asset and then falls through an  *)
(* empty else branch to its end: it writes nothing and has no return       *)
(* statement to take.                                                      *)
(***************************************************************************)
TransferAsset(state, id, newOwner, flag) ==
  IF ~Exists(state, id) THEN Failure
  ELSE IF flag
       THEN Success(PutState(id, Marshal([state[id] EXCEPT !.Owner = newOwner])),
                    state[id].Owner)
       ELSE Success(NoPut, NoReturn)

(* The list comes in key order, so its set of elements determines it. *)
GetAllAssets(state) ==
  Success(NoPut, {state[k] : k \in {j \in Ids : Exists(state, j)}})

(* Dispatch of an invocation to its function by the contract API. *)
Run(state, inv) ==
  CASE inv.fn = "CreateAsset"   -> CreateAsset(state, inv.id, inv.details, inv.owner)
    [] inv.fn = "ReadAsset"     -> ReadAsset(state, inv.id)
    [] inv.fn = "UpdateAsset"   -> UpdateAsset(state, inv.id, inv.details, inv.owner)
    [] inv.fn = "DeleteAsset"   -> DeleteAsset(state, inv.id)
    [] inv.fn = "AssetExists"   -> AssetExists(state, inv.id)
    [] inv.fn = "TransferAsset" -> TransferAsset(state, inv.id, inv.owner, inv.flag)
    [] inv.fn = "GetAllAssets"  -> GetAllAssets(state)

(* Slip: transfers work on an asset that the contract object has kept. *)
ReadSetCached(inv) == IF inv.fn = "TransferAsset" THEN {} ELSE {inv.id}

(* The keys an invocation reads: by GetState, or by the open-ended range query. *)
ReadSet(inv) == IF inv.fn = "GetAllAssets" THEN Ids ELSE {inv.id}

==============================================================================
