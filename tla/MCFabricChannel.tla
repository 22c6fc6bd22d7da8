--------------------------- MODULE MCFabricChannel ---------------------------
(* Instances of FabricChannel for TLC. *)
EXTENDS FabricChannel, TLC

CONSTANTS a1, a2, alice, bob, garbled, ufffd, red, blue, t1, t2, t3, t4

MCNames     == {alice, bob, garbled, ufffd}
MCMalformed == {garbled}
MCDetails   == {red, blue}

Inv(f, ids, owners, details, flags) ==
  {[fn |-> f, id |-> i, owner |-> o, details |-> d, flag |-> b] :
     i \in ids, o \in owners, d \in details, b \in flags}

(* Every function of the chaincode; arguments a function ignores are fixed. *)
InvocationsOn(ids) ==
  UNION {Inv("CreateAsset", ids, {alice, bob}, {red}, {TRUE}),
         Inv("UpdateAsset", ids, {alice}, {blue}, {TRUE}),
         Inv("TransferAsset", ids, {bob, garbled}, {red}, BOOLEAN),
         Inv("DeleteAsset", ids, {alice}, {red}, {TRUE}),
         Inv("ReadAsset", ids, {alice}, {red}, {TRUE}),
         Inv("AssetExists", {a1}, {alice}, {red}, {TRUE}),
         Inv("GetAllAssets", {a1}, {alice}, {red}, {TRUE})}

InvocationsOnOne == InvocationsOn({a1})
InvocationsOnTwo == InvocationsOn({a1, a2})

TxSymmetry == Permutations(Txs)

==============================================================================
