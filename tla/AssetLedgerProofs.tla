-------------------------- MODULE AssetLedgerProofs --------------------------
(***************************************************************************)
(* The promises of the asset ledger, proved for any number of assets,      *)
(* owners and transactions.                                                *)
(***************************************************************************)
EXTENDS AssetLedger, TLAPS

Return == (Names \ Malformed) \cup StoredAsset \cup BOOLEAN
            \cup (SUBSET StoredAsset) \cup {NoReturn}

Entry == [tx : Txs, inv : Invocation, ret : Return]

LedgerType ==
  /\ holding \in WorldState
  /\ chain \in Seq(Entry)

(* A committed name is well-formed whatever the client passed. *)
LEMMA EncodedType == \A n \in Names : Encoded(n) \in Names \ Malformed
  BY NamesAssumption DEF Encoded

(* An absent key is never mistaken for a stored asset. *)
LEMMA StoredIsNotNone == NoAsset \notin StoredAsset
  BY NoAssetAssumption DEF Asset, StoredAsset

(* What CreateAsset and UpdateAsset store has the form of a stored asset. *)
LEMMA AsGivenType == \A inv \in Invocation : AsGiven(inv) \in StoredAsset
  BY EncodedType DEF AsGiven, Invocation, StoredAsset

(* Record, in the form the proofs below use it. *)
LEMMA RecordAppends ==
  ASSUME LedgerType, NEW t \in Txs, NEW inv \in Invocation, NEW ret \in Return,
         Record(t, inv, ret)
  PROVE  /\ chain' \in Seq(Entry)
         /\ Len(chain') = Len(chain) + 1
         /\ DOMAIN chain = 1 .. Len(chain)
         /\ DOMAIN chain' = 1 .. Len(chain) + 1
         /\ \A i \in DOMAIN chain : chain'[i] = chain[i]
         /\ chain'[Len(chain) + 1] = [tx |-> t, inv |-> inv, ret |-> ret]
  <1>1. [tx |-> t, inv |-> inv, ret |-> ret] \in Entry
    BY DEF Entry
  <1>2. QED
    BY <1>1 DEF Record, LedgerType

(* Every committed transaction keeps the types. *)
LEMMA LedgerTypeInductive ==
  ASSUME LedgerType, [Next]_vars
  PROVE  LedgerType'
  <1> USE EncodedType, StoredIsNotNone, AsGivenType DEF LedgerType, WorldState
  <1>1. ASSUME NEW t \in Txs, NEW inv \in Invocation, Issue(t, inv)
        PROVE  LedgerType'
    BY <1>1, RecordAppends DEF Issue, Return, Invocation
  <1>2. ASSUME NEW t \in Txs, NEW inv \in Invocation, Amend(t, inv)
        PROVE  LedgerType'
    BY <1>2, RecordAppends DEF Amend, Return, Invocation
  <1>3. ASSUME NEW t \in Txs, NEW inv \in Invocation, Retire(t, inv)
        PROVE  LedgerType'
    BY <1>3, RecordAppends DEF Retire, Return, Invocation
  <1>4. ASSUME NEW t \in Txs, NEW inv \in Invocation, HandOver(t, inv)
        PROVE  LedgerType'
    <2>1. inv.id \in Ids /\ inv.owner \in Names
      BY DEF Invocation
    <2>2. holding[inv.id] \in StoredAsset
      BY <1>4, <2>1 DEF HandOver
    <2>3. [holding[inv.id] EXCEPT !.Owner = Encoded(inv.owner)] \in StoredAsset
      BY <2>1, <2>2 DEF StoredAsset
    <2>4. holding' \in WorldState
      BY <1>4, <2>1, <2>3 DEF HandOver
    <2>5. holding[inv.id].Owner \in Return
      BY <2>2 DEF StoredAsset, Return
    <2>6. QED
      BY <1>4, <2>4, <2>5, RecordAppends DEF HandOver
  <1>5. ASSUME NEW t \in Txs, NEW inv \in Invocation, Withhold(t, inv)
        PROVE  LedgerType'
    BY <1>5, RecordAppends DEF Withhold, Return
  <1>6. ASSUME NEW t \in Txs, NEW inv \in Invocation, Consult(t, inv)
        PROVE  LedgerType'
    <2>1. inv.id \in Ids
      BY DEF Invocation
    <2>2. CASE inv.fn = "ReadAsset" /\ holding[inv.id] # NoAsset
                 /\ Record(t, inv, holding[inv.id])
      BY <1>6, <2>1, <2>2, RecordAppends DEF Consult, Return
    <2>3. CASE inv.fn = "AssetExists" /\ Record(t, inv, holding[inv.id] # NoAsset)
      BY <1>6, <2>3, RecordAppends DEF Consult, Return
    <2>4. CASE /\ inv.fn = "GetAllAssets"
               /\ Record(t, inv, {holding[k] : k \in {j \in Ids : holding[j] # NoAsset}})
      <3>1. {holding[k] : k \in {j \in Ids : holding[j] # NoAsset}} \in SUBSET StoredAsset
        OBVIOUS
      <3>2. QED
        BY <1>6, <2>4, <3>1, RecordAppends DEF Consult, Return
    <2>5. QED
      BY <1>6, <2>2, <2>3, <2>4 DEF Consult
  <1>7. CASE UNCHANGED vars
    BY <1>7 DEF vars
  <1>8. QED
    BY <1>1, <1>2, <1>3, <1>4, <1>5, <1>6, <1>7 DEF Next

(* The ledger's state has its type: every stored asset is one that         *)
(* json.Unmarshal can give back to a later transaction.                    *)
THEOREM LedgerTypeCorrect == Spec => []LedgerType
  <1>1. Init => LedgerType
    BY DEF Init, LedgerType, WorldState
  <1>2. LedgerType /\ [Next]_vars => LedgerType'
    BY LedgerTypeInductive
  <1>3. QED
    BY <1>1, <1>2, PTL DEF Spec

------------------------------------------------------------------------------
(***************************************************************************)
(* What one committed transaction e does to the holdings, whichever action *)
(* took it.  All three promises are proved from this alone.                *)
(***************************************************************************)
Effect(e) == \A id \in Ids :
  /\ Creates(e, id) => holding[id] = NoAsset
  /\ Moves(e, id) => holding[id] # NoAsset /\ e.ret = holding[id].Owner
  /\ SetsOwner(e, id) => /\ holding'[id] # NoAsset
                         /\ holding'[id].Owner = Encoded(e.inv.owner)
  /\ SetsDetails(e, id) => holding'[id].Details = e.inv.details
  /\ Moves(e, id) => holding'[id].Details = holding[id].Details
  /\ Deletes(e, id) => holding'[id] = NoAsset
  /\ (~SetsOwner(e, id) /\ ~Deletes(e, id)) => holding'[id] = holding[id]

Committed(e) ==
  /\ Len(chain') = Len(chain) + 1
  /\ DOMAIN chain = 1 .. Len(chain)
  /\ DOMAIN chain' = 1 .. Len(chain) + 1
  /\ \A i \in DOMAIN chain : chain'[i] = chain[i]
  /\ chain'[Len(chain) + 1] = e

(* Every step appends one entry, and has that entry's effect. *)
LEMMA StepCommits ==
  ASSUME LedgerType, Next
  PROVE  \E e \in Entry : Committed(e) /\ Effect(e)
  <1> DEFINE Commits(t, inv, ret) ==
               LET e == [tx |-> t, inv |-> inv, ret |-> ret]
               IN  e \in Entry /\ Committed(e) /\ Effect(e)
  <1> USE EncodedType, StoredIsNotNone, AsGivenType
  <1>0. ASSUME NEW t \in Txs, NEW inv \in Invocation, NEW ret \in Return,
               Record(t, inv, ret)
        PROVE  /\ [tx |-> t, inv |-> inv, ret |-> ret] \in Entry
               /\ Committed([tx |-> t, inv |-> inv, ret |-> ret])
    BY <1>0, RecordAppends DEF Committed, Entry
  <1>1. ASSUME NEW t \in Txs, NEW inv \in Invocation, Issue(t, inv)
        PROVE  Commits(t, inv, NoReturn)
    BY <1>0, <1>1 DEF Issue, AsGiven, Return, Effect, LedgerType, WorldState, Invocation,
                      Creates, Deletes, Moves, SetsDetails, SetsOwner
  <1>2. ASSUME NEW t \in Txs, NEW inv \in Invocation, Amend(t, inv)
        PROVE  Commits(t, inv, NoReturn)
    BY <1>0, <1>2 DEF Amend, AsGiven, Return, Effect, LedgerType, WorldState, Invocation,
                      Creates, Deletes, Moves, SetsDetails, SetsOwner
  <1>3. ASSUME NEW t \in Txs, NEW inv \in Invocation, Retire(t, inv)
        PROVE  Commits(t, inv, NoReturn)
    BY <1>0, <1>3 DEF Retire, Return, Effect, LedgerType, WorldState, Invocation,
                      Creates, Deletes, Moves, SetsDetails, SetsOwner
  <1>4. ASSUME NEW t \in Txs, NEW inv \in Invocation, HandOver(t, inv)
        PROVE  Commits(t, inv, holding[inv.id].Owner)
    <2>1. inv.id \in Ids /\ inv.owner \in Names
      BY DEF Invocation
    <2>2. holding[inv.id] \in StoredAsset
      BY <1>4, <2>1 DEF HandOver, LedgerType, WorldState
    <2> DEFINE moved == [holding[inv.id] EXCEPT !.Owner = Encoded(inv.owner)]
    <2>3. /\ moved \in StoredAsset
          /\ moved.Owner = Encoded(inv.owner)
          /\ moved.Details = holding[inv.id].Details
      BY <2>1, <2>2 DEF StoredAsset
    <2>4. holding[inv.id].Owner \in Return
      BY <2>2 DEF StoredAsset, Return
    <2>5. /\ holding'[inv.id] = moved
          /\ \A id \in Ids : id # inv.id => holding'[id] = holding[id]
      BY <1>4, <2>1 DEF HandOver, LedgerType, WorldState
    <2> HIDE DEF moved
    <2>6. Effect([tx |-> t, inv |-> inv, ret |-> holding[inv.id].Owner])
      BY <1>4, <2>1, <2>2, <2>3, <2>5 DEF HandOver, Effect,
                      Creates, Deletes, Moves, SetsDetails, SetsOwner
    <2>7. QED
      BY <1>0, <1>4, <2>4, <2>6 DEF HandOver
  <1>5. ASSUME NEW t \in Txs, NEW inv \in Invocation, Withhold(t, inv)
        PROVE  Commits(t, inv, NoReturn)
    BY <1>0, <1>5 DEF Withhold, Return, Effect,
                      Creates, Deletes, Moves, SetsDetails, SetsOwner
  <1>6. ASSUME NEW t \in Txs, NEW inv \in Invocation, Consult(t, inv)
        PROVE  \E ret \in Return : Commits(t, inv, ret)
    <2>1. inv.id \in Ids
      BY DEF Invocation
    <2>2. ASSUME NEW ret \in Return, Record(t, inv, ret)
          PROVE  Commits(t, inv, ret)
      BY <1>0, <1>6, <2>2 DEF Consult, Effect,
                      Creates, Deletes, Moves, SetsDetails, SetsOwner
    <2>3. \E ret \in Return : Record(t, inv, ret)
      <3>1. CASE inv.fn = "ReadAsset" /\ holding[inv.id] # NoAsset
                   /\ Record(t, inv, holding[inv.id])
        BY <2>1, <3>1 DEF Return, LedgerType, WorldState
      <3>2. CASE inv.fn = "AssetExists" /\ Record(t, inv, holding[inv.id] # NoAsset)
        <4>1. (holding[inv.id] # NoAsset) \in Return
          BY DEF Return
        <4>2. QED
          BY <3>2, <4>1
      <3>3. CASE /\ inv.fn = "GetAllAssets"
                 /\ Record(t, inv, {holding[k] : k \in {j \in Ids : holding[j] # NoAsset}})
        <4>1. {holding[k] : k \in {j \in Ids : holding[j] # NoAsset}} \in SUBSET StoredAsset
          BY DEF LedgerType, WorldState
        <4>2. QED
          BY <3>3, <4>1 DEF Return
      <3>4. QED
        BY <1>6, <3>1, <3>2, <3>3 DEF Consult
    <2>4. QED
      BY <2>2, <2>3
  <1>7. QED
    BY <1>1, <1>2, <1>3, <1>4, <1>5, <1>6 DEF Next

------------------------------------------------------------------------------
(* The three promises are inductive together with these facts about the    *)
(* present: what is committed of an absent asset, and of a live one.       *)

(* An absent asset that was created has been deleted since. *)
AbsentWasDeleted ==
  \A id \in Ids : \A i \in DOMAIN chain :
    (Creates(chain[i], id) /\ holding[id] = NoAsset)
      => \E k \in DOMAIN chain : i < k /\ Deletes(chain[k], id)

(* A live asset has the owner that the last transaction to set one set. *)
OwnerIsLastSet ==
  \A id \in Ids :
    holding[id] # NoAsset
      => \E i \in DOMAIN chain :
           /\ SetsOwner(chain[i], id)
           /\ holding[id].Owner = Encoded(chain[i].inv.owner)
           /\ \A k \in DOMAIN chain :
                i < k => ~SetsOwner(chain[k], id) /\ ~Deletes(chain[k], id)

(* A creation needs an absent ID, so a deletion after the last creation. *)
LEMMA CreatesStep ==
  ASSUME LedgerType, OneCreatePerLife, AbsentWasDeleted,
         NEW e \in Entry, Committed(e), Effect(e)
  PROVE  OneCreatePerLife' /\ AbsentWasDeleted'
  <1> DEFINE n == Len(chain) + 1
  <1>1. n \in Nat \ {0} /\ DOMAIN chain = 1 .. n - 1 /\ DOMAIN chain' = 1 .. n /\ chain'[n] = e
    BY DEF Committed, LedgerType
  <1>2. \A i \in DOMAIN chain : i \in Nat /\ i < n /\ i \in DOMAIN chain' /\ chain'[i] = chain[i]
    BY DEF Committed, LedgerType
  <1>3. \A i \in DOMAIN chain' : i = n \/ i \in DOMAIN chain
    BY <1>1
  <1> HIDE DEF n
  <1>4. OneCreatePerLife'
    <2> SUFFICES ASSUME NEW id \in Ids, NEW i \in DOMAIN chain', NEW j \in DOMAIN chain',
                        i < j, Creates(chain'[i], id), Creates(chain'[j], id)
                 PROVE  \E k \in DOMAIN chain' : i < k /\ k < j /\ Deletes(chain'[k], id)
      BY DEF OneCreatePerLife, Creates, Deletes
    <2>1. i \in DOMAIN chain
      BY <1>1, <1>3
    <2>2. CASE j \in DOMAIN chain
      BY <1>2, <2>1, <2>2 DEF OneCreatePerLife
    <2>3. CASE j = n
      <3>1. holding[id] = NoAsset
        BY <1>1, <2>3 DEF Effect
      <3>2. QED
        BY <1>2, <2>1, <2>3, <3>1 DEF AbsentWasDeleted
    <2>4. QED
      BY <1>3, <2>2, <2>3
  <1>5. AbsentWasDeleted'
    <2> SUFFICES ASSUME NEW id \in Ids, NEW i \in DOMAIN chain',
                        Creates(chain'[i], id), holding'[id] = NoAsset
                 PROVE  \E k \in DOMAIN chain' : i < k /\ Deletes(chain'[k], id)
      BY DEF AbsentWasDeleted, Creates, Deletes
    <2>1. ~SetsOwner(e, id)
      BY DEF Effect
    <2>2. i \in DOMAIN chain
      BY <1>1, <1>3, <2>1 DEF SetsOwner, SetsDetails, Creates
    <2>3. CASE Deletes(e, id)
      BY <1>1, <1>2, <2>2, <2>3
    <2>4. CASE ~Deletes(e, id)
      <3>1. holding[id] = NoAsset
        BY <2>1, <2>4 DEF Effect
      <3>2. QED
        BY <1>2, <2>2, <3>1 DEF AbsentWasDeleted
    <2>5. QED
      BY <2>3, <2>4
  <1>6. QED
    BY <1>4, <1>5

(* The recorded owner is the last one set, and a transfer returns it. *)
LEMMA OwnerStep ==
  ASSUME LedgerType, TransferReturnsOldOwner, OwnerIsLastSet,
         NEW e \in Entry, Committed(e), Effect(e)
  PROVE  TransferReturnsOldOwner' /\ OwnerIsLastSet'
  <1> DEFINE n == Len(chain) + 1
  <1>1. n \in Nat \ {0} /\ DOMAIN chain = 1 .. n - 1 /\ DOMAIN chain' = 1 .. n /\ chain'[n] = e
    BY DEF Committed, LedgerType
  <1>2. \A i \in DOMAIN chain : i \in Nat /\ i < n /\ i \in DOMAIN chain' /\ chain'[i] = chain[i]
    BY DEF Committed, LedgerType
  <1>3. \A i \in DOMAIN chain' : i = n \/ i \in DOMAIN chain
    BY <1>1
  <1> HIDE DEF n
  <1>4. TransferReturnsOldOwner'
    <2> SUFFICES ASSUME NEW id \in Ids, NEW j \in DOMAIN chain', Moves(chain'[j], id)
                 PROVE  \E i \in DOMAIN chain' :
                          /\ i < j
                          /\ SetsOwner(chain'[i], id)
                          /\ chain'[j].ret = Encoded(chain'[i].inv.owner)
                          /\ \A k \in DOMAIN chain' :
                               (i < k /\ k < j)
                                 => ~SetsOwner(chain'[k], id) /\ ~Deletes(chain'[k], id)
      BY DEF TransferReturnsOldOwner, SetsOwner, SetsDetails, Moves, Deletes, Encoded
    <2>1. CASE j \in DOMAIN chain
      <3>1. PICK i \in DOMAIN chain :
                          /\ i < j
                          /\ SetsOwner(chain[i], id)
                          /\ chain[j].ret = Encoded(chain[i].inv.owner)
                          /\ \A k \in DOMAIN chain :
                               (i < k /\ k < j)
                                 => ~SetsOwner(chain[k], id) /\ ~Deletes(chain[k], id)
        BY <1>2, <2>1 DEF TransferReturnsOldOwner
      <3>2. \A k \in DOMAIN chain' : k < j => k \in DOMAIN chain
        BY <1>1, <2>1
      <3>3. QED
        BY <1>2, <2>1, <3>1, <3>2
    <2>2. CASE j = n
      <3>1. holding[id] # NoAsset /\ e.ret = holding[id].Owner
        BY <1>1, <2>2 DEF Effect
      <3>2. PICK i \in DOMAIN chain :
                   /\ SetsOwner(chain[i], id)
                   /\ holding[id].Owner = Encoded(chain[i].inv.owner)
                   /\ \A k \in DOMAIN chain :
                        i < k => ~SetsOwner(chain[k], id) /\ ~Deletes(chain[k], id)
        BY <3>1 DEF OwnerIsLastSet
      <3>3. \A k \in DOMAIN chain' : k < j => k \in DOMAIN chain
        BY <1>1, <1>3, <2>2
      <3>4. QED
        BY <1>1, <1>2, <2>2, <3>1, <3>2, <3>3
    <2>3. QED
      BY <1>3, <2>1, <2>2
  <1>5. OwnerIsLastSet'
    <2> SUFFICES ASSUME NEW id \in Ids, holding'[id] # NoAsset
                 PROVE  \E i \in DOMAIN chain' :
                          /\ SetsOwner(chain'[i], id)
                          /\ holding'[id].Owner = Encoded(chain'[i].inv.owner)
                          /\ \A k \in DOMAIN chain' :
                               i < k => ~SetsOwner(chain'[k], id) /\ ~Deletes(chain'[k], id)
      BY DEF OwnerIsLastSet, SetsOwner, SetsDetails, Moves, Deletes, Encoded
    <2>1. ~Deletes(e, id)
      BY DEF Effect
    <2>2. CASE SetsOwner(e, id)
      <3>1. holding'[id].Owner = Encoded(e.inv.owner)
        BY <2>2 DEF Effect
      <3>2. \A k \in DOMAIN chain' : ~(n < k)
        BY <1>1
      <3>3. n \in DOMAIN chain'
        BY <1>1
      <3>4. QED
        BY <1>1, <2>2, <3>1, <3>2, <3>3
    <2>3. CASE ~SetsOwner(e, id)
      <3>1. holding'[id] = holding[id]
        BY <2>1, <2>3 DEF Effect
      <3>2. PICK i \in DOMAIN chain :
                   /\ SetsOwner(chain[i], id)
                   /\ holding[id].Owner = Encoded(chain[i].inv.owner)
                   /\ \A k \in DOMAIN chain :
                        i < k => ~SetsOwner(chain[k], id) /\ ~Deletes(chain[k], id)
        BY <3>1 DEF OwnerIsLastSet
      <3>3. QED
        BY <1>1, <1>2, <1>3, <2>1, <2>3, <3>1, <3>2
    <2>4. QED
      BY <2>2, <2>3
  <1>6. QED
    BY <1>4, <1>5

(* The recorded details are the last ones given. *)
LEMMA DetailsStep ==
  ASSUME LedgerType, NoLostUpdate, NEW e \in Entry, Committed(e), Effect(e)
  PROVE  NoLostUpdate'
  <1> DEFINE n == Len(chain) + 1
  <1>1. n \in Nat \ {0} /\ DOMAIN chain = 1 .. n - 1 /\ DOMAIN chain' = 1 .. n /\ chain'[n] = e
    BY DEF Committed, LedgerType
  <1>2. \A i \in DOMAIN chain : i \in Nat /\ i < n /\ i \in DOMAIN chain' /\ chain'[i] = chain[i]
    BY DEF Committed, LedgerType
  <1>3. \A i \in DOMAIN chain' : i = n \/ i \in DOMAIN chain
    BY <1>1
  <1> HIDE DEF n
  <1> SUFFICES ASSUME NEW id \in Ids, holding'[id] # NoAsset
               PROVE  \E i \in DOMAIN chain' :
                        /\ SetsDetails(chain'[i], id)
                        /\ holding'[id].Details = chain'[i].inv.details
                        /\ \A k \in DOMAIN chain' :
                             i < k => ~SetsDetails(chain'[k], id) /\ ~Deletes(chain'[k], id)
    BY DEF NoLostUpdate, SetsDetails, Deletes
  <1>4. ~Deletes(e, id)
    BY DEF Effect
  <1>5. CASE SetsDetails(e, id)
    <2>1. holding'[id].Details = e.inv.details
      BY <1>5 DEF Effect
    <2>2. n \in DOMAIN chain' /\ \A k \in DOMAIN chain' : ~(n < k)
      BY <1>1
    <2>3. QED
      BY <1>1, <1>5, <2>1, <2>2
  <1>6. CASE ~SetsDetails(e, id)
    <2>1. holding[id] # NoAsset /\ holding'[id].Details = holding[id].Details
      BY <1>4, <1>6 DEF Effect, SetsOwner
    <2>2. PICK i \in DOMAIN chain :
                 /\ SetsDetails(chain[i], id)
                 /\ holding[id].Details = chain[i].inv.details
                 /\ \A k \in DOMAIN chain :
                      i < k => ~SetsDetails(chain[k], id) /\ ~Deletes(chain[k], id)
      BY <2>1 DEF NoLostUpdate
    <2>3. QED
      BY <1>1, <1>2, <1>3, <1>4, <1>6, <2>1, <2>2
  <1>7. QED
    BY <1>5, <1>6

------------------------------------------------------------------------------
LedgerInv ==
  /\ LedgerType
  /\ OneCreatePerLife
  /\ AbsentWasDeleted
  /\ TransferReturnsOldOwner
  /\ OwnerIsLastSet
  /\ NoLostUpdate

(* LedgerInv is an inductive invariant of the ledger. *)
THEOREM LedgerInvariant == Spec => []LedgerInv
  <1>1. Init => LedgerInv
    <2>1. Init => LedgerType /\ DOMAIN chain = {}
      BY DEF Init, LedgerType, WorldState
    <2>2. QED
      BY <2>1 DEF Init, LedgerInv, OneCreatePerLife, AbsentWasDeleted,
                  TransferReturnsOldOwner, OwnerIsLastSet, NoLostUpdate
  <1>2. LedgerInv /\ [Next]_vars => LedgerInv'
    <2> SUFFICES ASSUME LedgerInv, [Next]_vars
                 PROVE  LedgerInv'
      OBVIOUS
    <2>1. CASE Next
      <3>1. PICK e \in Entry : Committed(e) /\ Effect(e)
        BY <2>1, StepCommits DEF LedgerInv
      <3>2. QED
        BY <3>1, LedgerTypeInductive, CreatesStep, OwnerStep, DetailsStep DEF LedgerInv
    <2>2. CASE UNCHANGED vars
      BY <2>2 DEF vars, LedgerInv, LedgerType, OneCreatePerLife, AbsentWasDeleted,
                  TransferReturnsOldOwner, OwnerIsLastSet, NoLostUpdate
    <2>3. QED
      BY <2>1, <2>2
  <1>3. QED
    BY <1>1, <1>2, PTL DEF Spec

(* Two committed creations of an ID have its deletion between them; a      *)
(* committed transfer returned the owner it replaced; and the details of a *)
(* live asset are those of the last committed update.                      *)
THEOREM LedgerKeepsItsPromises ==
  Spec => [](OneCreatePerLife /\ TransferReturnsOldOwner /\ NoLostUpdate)
  <1>1. LedgerInv => OneCreatePerLife /\ TransferReturnsOldOwner /\ NoLostUpdate
    BY DEF LedgerInv
  <1>2. QED
    BY <1>1, LedgerInvariant, PTL

==============================================================================
