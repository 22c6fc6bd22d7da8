------------------------- MODULE FabricChannelProofs -------------------------
(***************************************************************************)
(* The channel implements the asset ledger, for any number of assets,      *)
(* owners, invocations and transactions.  The argument: a transaction that *)
(* passes validation saw the values its keys have now, a chaincode         *)
(* function depends on nothing but the keys it reads, so its outcome is    *)
(* the one it would have had if it had run at the time of the commit.      *)
(***************************************************************************)
EXTENDS FabricChannel, TLAPS

Slot == StoredAsset \cup {NoAsset}

(* json.Marshal always writes a well-formed name. *)
LEMMA EncodedName == \A n \in Names : Encoded(n) \in Names \ Malformed
  BY NamesAssumption DEF Encoded

(* GetState = nil is never mistaken for a stored asset. *)
LEMMA NoAssetIsNotStored == NoAsset \notin StoredAsset
  BY NoAssetAssumption DEF Asset, StoredAsset

(* What Marshal makes of the two records that the chaincode gives it. *)
LEMMA MarshalNew ==
  ASSUME NEW inv \in Invocation
  PROVE  LET given == [ID |-> inv.id, Owner |-> inv.owner, Details |-> inv.details]
         IN  /\ Marshal(given) = [ID |-> inv.id, Owner |-> Encoded(inv.owner),
                                  Details |-> inv.details]
             /\ Marshal(given) \in StoredAsset
  BY EncodedName DEF Marshal, Invocation, StoredAsset

(* A transferred asset has the form of a stored one. *)
LEMMA MarshalMoved ==
  ASSUME NEW inv \in Invocation, NEW a \in StoredAsset
  PROVE  LET moved == [a EXCEPT !.Owner = inv.owner]
         IN  /\ Marshal(moved) = [a EXCEPT !.Owner = Encoded(inv.owner)]
             /\ Marshal(moved) \in StoredAsset
  BY EncodedName DEF Marshal, Invocation, StoredAsset

------------------------------------------------------------------------------
(* The outcome of a function: what it returns and what it puts. *)

(* What a chaincode function puts and returns has its type. *)
LEMMA RunType ==
  ASSUME NEW inv \in Invocation, NEW state,
         \A k \in ReadSet(inv) : state[k] \in Slot,
         ~Run(state, inv).err
  PROVE  /\ DOMAIN Run(state, inv).put \subseteq {inv.id}
         /\ \A k \in DOMAIN Run(state, inv).put : Run(state, inv).put[k] \in Slot
         /\ Run(state, inv).ret \in Returned(inv.fn)
  <1> USE NoAssetIsNotStored DEF Run, Success, Failure, NoPut, PutState, DelState,
          Exists, Returned, Slot
  <1>0. inv.fn \in Updating \cup Reading /\ inv.id \in Ids
    BY DEF Invocation
  <1>1. CASE inv.fn = "CreateAsset"
    BY <1>1, MarshalNew DEF CreateAsset
  <1>2. CASE inv.fn = "UpdateAsset"
    BY <1>2, MarshalNew DEF UpdateAsset
  <1>3. CASE inv.fn = "DeleteAsset"
    BY <1>3 DEF DeleteAsset
  <1>4. CASE inv.fn = "TransferAsset"
    <2>1. state[inv.id] \in StoredAsset
      BY <1>4 DEF TransferAsset, ReadSet
    <2>2. state[inv.id].Owner \in Names \ Malformed
      BY <2>1 DEF StoredAsset
    <2>3. CASE inv.flag
      BY <1>4, <2>1, <2>2, <2>3, MarshalMoved DEF TransferAsset
    <2>4. CASE ~inv.flag
      BY <1>4, <2>1, <2>4 DEF TransferAsset
    <2>5. QED
      BY <2>3, <2>4
  <1>5. CASE inv.fn = "ReadAsset"
    BY <1>5 DEF ReadAsset, ReadSet
  <1>6. CASE inv.fn = "AssetExists"
    BY <1>6 DEF AssetExists
  <1>7. CASE inv.fn = "GetAllAssets"
    BY <1>7 DEF GetAllAssets, ReadSet
  <1>8. QED
    BY <1>0, <1>1, <1>2, <1>3, <1>4, <1>5, <1>6, <1>7 DEF Updating, Reading

(* A function depends on nothing but the keys it reads. *)
LEMMA RunLocal ==
  ASSUME NEW inv \in Invocation, NEW s1, NEW s2,
         \A k \in ReadSet(inv) : s1[k] = s2[k]
  PROVE  Run(s1, inv) = Run(s2, inv)
  <1>0. inv.fn \in Updating \cup Reading /\ inv.id \in Ids
    BY DEF Invocation
  <1>1. CASE inv.fn = "GetAllAssets"
    <2>1. \A k \in Ids : s1[k] = s2[k]
      BY <1>1 DEF ReadSet
    <2>2. {s1[k] : k \in {j \in Ids : Exists(s1, j)}} = {s2[k] : k \in {j \in Ids : Exists(s2, j)}}
      BY <2>1 DEF Exists
    <2>3. QED
      BY <1>1, <2>2 DEF Run, GetAllAssets
  <1>2. CASE inv.fn # "GetAllAssets"
    <2>1. s1[inv.id] = s2[inv.id]
      BY <1>2 DEF ReadSet
    <2>2. QED
      BY <1>0, <1>2, <2>1 DEF Run, Updating, Reading, Exists, CreateAsset, ReadAsset,
                              UpdateAsset, DeleteAsset, AssetExists, TransferAsset
  <1>3. QED
    BY <1>1, <1>2

------------------------------------------------------------------------------
(* The inductive invariant. *)

Entry == {e \in [tx : Txs, inv : Invocations, ret : UNION {Returned(i.fn) : i \in Invocations}] :
            e.ret \in Returned(e.inv.fn)}

ChannelType ==
  /\ world \in WorldState
  /\ ver \in [Ids -> Nat]
  /\ DOMAIN tx = Txs
  /\ inflight \in [Txs -> 0 .. MaxCopies]
  /\ verdict \in [Txs -> {"NOT_VALIDATED", "VALID", "MVCC_READ_CONFLICT"}]
  /\ chain \in Seq(Entry)

(* Versions are commits of the past; absent keys, and only they, have 0. *)
VersionsArePast ==
  \A k \in Ids : ver[k] <= Len(chain) /\ (ver[k] = 0 <=> world[k] = NoAsset)

(* A simulation is the run of a function on what it saw, which was the     *)
(* world state of the past; where versions have not moved, values have not. *)
Faithful(s) ==
  /\ DOMAIN s = {"inv", "reads", "seen", "out"}
  /\ s.inv \in Invocations
  /\ s.reads \in [ReadSet(s.inv) -> Nat]
  /\ s.seen \in [ReadSet(s.inv) -> Slot]
  /\ s.out = Run(s.seen, s.inv)
  /\ ~s.out.err
  /\ \A k \in ReadSet(s.inv) :
       /\ s.reads[k] <= Len(chain)
       /\ s.reads[k] = 0 <=> s.seen[k] = NoAsset
       /\ s.reads[k] = ver[k] => s.seen[k] = world[k]

SimulationsFaithful == \A t \in Txs : Endorsed(t) => Faithful(tx[t])

(* Only endorsed transactions travel, and what is in the chain was judged. *)
JudgedOnce ==
  /\ \A t \in Txs : inflight[t] > 0 => Endorsed(t)
  /\ \A i \in DOMAIN chain : verdict[chain[i].tx] = "VALID"

ChannelInv == ChannelType /\ VersionsArePast /\ SimulationsFaithful /\ JudgedOnce

(* Only asset IDs are read. *)
LEMMA ReadSetInIds == \A inv \in Invocation : ReadSet(inv) \subseteq Ids
  BY DEF ReadSet, Invocation

(* The invariant holds on the empty channel. *)
LEMMA InitInv == Init => ChannelInv
  BY ChannelAssumption
  DEF Init, ChannelInv, ChannelType, WorldState, VersionsArePast, SimulationsFaithful,
      JudgedOnce, Endorsed

(* A transaction about to be committed would have the same outcome now. *)
LEMMA OutcomeIsCurrent ==
  ASSUME ChannelInv, NEW t \in Txs, Deliver(t), ~Conflict(t)
  PROVE  /\ tx[t].inv \in Invocations
         /\ tx[t].out = Run(world, tx[t].inv)
         /\ ~tx[t].out.err
  <1>1. Endorsed(t)
    BY DEF ChannelInv, JudgedOnce, Deliver
  <1>2. Faithful(tx[t])
    BY <1>1 DEF ChannelInv, SimulationsFaithful
  <1>3. \A k \in ReadSet(tx[t].inv) : tx[t].seen[k] = world[k]
    BY <1>2 DEF Faithful, Conflict
  <1>4. tx[t].inv \in Invocation
    BY <1>2, ChannelAssumption DEF Faithful
  <1>5. Run(tx[t].seen, tx[t].inv) = Run(world, tx[t].inv)
    BY <1>3, <1>4, RunLocal
  <1>6. QED
    BY <1>2, <1>5 DEF Faithful

(* What a delivered transaction puts and returns. *)
LEMMA OutcomeType ==
  ASSUME ChannelInv, NEW t \in Txs, Deliver(t)
  PROVE  /\ tx[t].inv \in Invocations
         /\ DOMAIN tx[t].out.put \subseteq {tx[t].inv.id}
         /\ \A k \in DOMAIN tx[t].out.put : tx[t].out.put[k] \in Slot
         /\ tx[t].out.ret \in Returned(tx[t].inv.fn)
  <1>1. Endorsed(t)
    BY DEF ChannelInv, JudgedOnce, Deliver
  <1>2. Faithful(tx[t])
    BY <1>1 DEF ChannelInv, SimulationsFaithful
  <1>3. tx[t].inv \in Invocation
    BY <1>2, ChannelAssumption DEF Faithful
  <1>4. QED
    BY <1>2, <1>3, RunType DEF Faithful

(* A new simulation is faithful to the state it ran on. *)
LEMMA EndorseInv ==
  ASSUME ChannelInv, NEW t \in Txs, NEW inv \in Invocations, Endorse(t, inv)
  PROVE  ChannelInv'
  <1>1. inv \in Invocation /\ ReadSet(inv) \subseteq Ids
    BY ChannelAssumption, ReadSetInIds
  <1>2. \A k \in ReadSet(inv) : [j \in ReadSet(inv) |-> world[j]][k] = world[k]
    OBVIOUS
  <1>3. Run([j \in ReadSet(inv) |-> world[j]], inv) = Run(world, inv)
    BY <1>1, <1>2, RunLocal
  <1>4. tx'[t] = Simulation(inv) /\ \A u \in Txs : u # t => tx'[u] = tx[u]
    BY DEF Endorse, ChannelInv, ChannelType
  <1>5. Faithful(tx[t])'
    BY <1>1, <1>3, <1>4 DEF Endorse, Faithful, Simulation, ChannelInv, ChannelType, WorldState,
                            VersionsArePast, Slot
  <1>6. SimulationsFaithful'
    <2> SUFFICES ASSUME NEW u \in Txs, Endorsed(u)'
                 PROVE  Faithful(tx[u])'
      BY DEF SimulationsFaithful
    <2>1. CASE u = t
      BY <1>5, <2>1
    <2>2. CASE u # t
      BY <1>4, <2>2 DEF Endorse, SimulationsFaithful, ChannelInv, Endorsed, Faithful
    <2>3. QED
      BY <2>1, <2>2
  <1>7. ChannelType' /\ VersionsArePast'
    BY DEF Endorse, ChannelInv, ChannelType, VersionsArePast
  <1>8. JudgedOnce'
    BY <1>4 DEF Endorse, ChannelInv, ChannelType, JudgedOnce, Endorsed
  <1>9. QED
    BY <1>6, <1>7, <1>8 DEF ChannelInv

(* Refuse and StubError leave t as Refused. *)
LEMMA RefusalInv ==
  ASSUME ChannelInv, NEW t \in Txs, tx[t] = Idle,
         tx' = [tx EXCEPT ![t] = Refused],
         UNCHANGED <<world, ver, inflight, verdict, chain>>
  PROVE  ChannelInv'
  <1>1. \A u \in Txs : Endorsed(u)' <=> Endorsed(u)
    BY DEF ChannelInv, ChannelType, Endorsed
  <1>2. \A u \in Txs : Endorsed(u) => tx'[u] = tx[u]
    BY DEF ChannelInv, ChannelType, Endorsed
  <1>3. SimulationsFaithful'
    BY <1>1, <1>2 DEF ChannelInv, SimulationsFaithful, Faithful
  <1>4. QED
    BY <1>1, <1>3 DEF ChannelInv, ChannelType, VersionsArePast, JudgedOnce

(* Steps that only move envelopes, or judge one without a commit. *)
LEMMA EnvelopeInv ==
  ASSUME ChannelInv, NEW t \in Txs, UNCHANGED <<world, ver, tx, chain>>,
         \/ Submit(t) \/ Lose(t) \/ CommitInvalid(t) \/ CommitDuplicate(t)
  PROVE  ChannelInv'
  <1>1. SimulationsFaithful' /\ VersionsArePast'
    BY DEF ChannelInv, SimulationsFaithful, VersionsArePast, Endorsed, Faithful
  <1>2. ChannelType'
    <2>1. inflight \in [Txs -> 0 .. MaxCopies] /\ inflight[t] \in 0 .. MaxCopies /\ MaxCopies \in Nat
      BY ChannelAssumption DEF ChannelInv, ChannelType
    <2>2. inflight' \in [Txs -> 0 .. MaxCopies]
      BY <2>1 DEF Submit, Lose, CommitInvalid, CommitDuplicate, Deliver
    <2>3. verdict' \in [Txs -> {"NOT_VALIDATED", "VALID", "MVCC_READ_CONFLICT"}]
      BY DEF ChannelInv, ChannelType, Submit, Lose, CommitInvalid, CommitDuplicate
    <2>4. QED
      BY <2>2, <2>3 DEF ChannelInv, ChannelType
  <1>3. \A u \in Txs : inflight'[u] > 0 => Endorsed(u)'
    BY ChannelAssumption DEF ChannelInv, ChannelType, JudgedOnce, Endorsed, Submit, Lose,
                             CommitInvalid, CommitDuplicate, Deliver
  <1>4. \A i \in DOMAIN chain' : verdict'[chain'[i].tx] = "VALID"
    BY DEF ChannelInv, ChannelType, JudgedOnce, Submit, Lose, CommitInvalid, CommitDuplicate, Entry
  <1>5. QED
    BY <1>1, <1>2, <1>3, <1>4 DEF ChannelInv, JudgedOnce

(* A commit leaves every other simulation faithful to what it saw. *)
LEMMA CommitInv ==
  ASSUME ChannelInv, NEW t \in Txs, CommitValid(t)
  PROVE  ChannelInv'
  <1> DEFINE put == tx[t].out.put
             e == [tx |-> t, inv |-> tx[t].inv, ret |-> tx[t].out.ret]
  <1>1. /\ tx[t].inv \in Invocations
        /\ DOMAIN put \subseteq {tx[t].inv.id}
        /\ \A k \in DOMAIN put : put[k] \in Slot
        /\ tx[t].out.ret \in Returned(tx[t].inv.fn)
    BY OutcomeType DEF CommitValid
  <1>2. e \in Entry
    BY <1>1 DEF Entry
  <1>3. /\ chain' \in Seq(Entry)
        /\ Len(chain') = Len(chain) + 1
        /\ Len(chain) \in Nat
        /\ \A i \in DOMAIN chain' : chain'[i] = e \/ (i \in DOMAIN chain /\ chain'[i] = chain[i])
    BY <1>2 DEF CommitValid, ChannelInv, ChannelType
  <1>4. \A k \in Ids :
          /\ k \in DOMAIN put => /\ world'[k] = put[k]
                                 /\ ver'[k] = IF put[k] = NoAsset THEN 0 ELSE Len(chain) + 1
          /\ k \notin DOMAIN put => world'[k] = world[k] /\ ver'[k] = ver[k]
    BY DEF CommitValid
  <1>5. ChannelType'
    <2>1. world' \in WorldState
      BY <1>1 DEF CommitValid, ChannelInv, ChannelType, WorldState, Slot
    <2>2. ver' \in [Ids -> Nat]
      BY <1>3 DEF CommitValid, ChannelInv, ChannelType
    <2>3. inflight' \in [Txs -> 0 .. MaxCopies]
      BY ChannelAssumption DEF CommitValid, Deliver, ChannelInv, ChannelType
    <2>4. QED
      BY <1>3, <2>1, <2>2, <2>3 DEF CommitValid, ChannelInv, ChannelType
  <1>6. VersionsArePast'
    BY <1>3, <1>4 DEF VersionsArePast, ChannelInv, ChannelType
  <1>7. SimulationsFaithful'
    <2> SUFFICES ASSUME NEW u \in Txs, Endorsed(u)'
                 PROVE  Faithful(tx[u])'
      BY DEF SimulationsFaithful
    <2>1. tx' = tx /\ Faithful(tx[u])
      BY DEF CommitValid, ChannelInv, SimulationsFaithful, Endorsed
    <2>2. tx[u].inv \in Invocation /\ ReadSet(tx[u].inv) \subseteq Ids
      BY <2>1, ChannelAssumption, ReadSetInIds DEF Faithful
    <2>3. ASSUME NEW k \in ReadSet(tx[u].inv)
          PROVE  /\ tx[u].reads[k] <= Len(chain')
                 /\ tx[u].reads[k] = ver'[k] => tx[u].seen[k] = world'[k]
      <3>1. k \in Ids /\ tx[u].reads[k] \in Nat
        BY <2>1, <2>2, <2>3 DEF Faithful
      <3>2. QED
        BY <1>3, <1>4, <2>1, <2>3, <3>1 DEF Faithful
    <2>4. QED
      BY <2>1, <2>3 DEF Faithful
  <1>8. JudgedOnce'
    <2>1. \A u \in Txs : inflight'[u] > 0 => Endorsed(u)'
      BY DEF CommitValid, Deliver, ChannelInv, ChannelType, JudgedOnce, Endorsed
    <2>2. verdict'[t] = "VALID" /\ \A u \in Txs : verdict[u] = "VALID" => verdict'[u] = "VALID"
      BY DEF CommitValid, ChannelInv, ChannelType
    <2>3. \A i \in DOMAIN chain' : verdict'[chain'[i].tx] = "VALID"
      <3>1. \A i \in DOMAIN chain : chain[i].tx \in Txs /\ verdict[chain[i].tx] = "VALID"
        BY DEF ChannelInv, ChannelType, JudgedOnce, Entry
      <3>2. QED
        BY <1>3, <2>2, <3>1
    <2>4. QED
      BY <2>1, <2>3 DEF JudgedOnce
  <1>9. QED
    BY <1>5, <1>6, <1>7, <1>8 DEF ChannelInv

(* Every step keeps the invariant. *)
LEMMA StepInv == ChannelInv /\ [Next]_vars => ChannelInv'
  <1> SUFFICES ASSUME ChannelInv, [Next]_vars
               PROVE  ChannelInv'
    OBVIOUS
  <1>1. ASSUME NEW t \in Txs, NEW inv \in Invocations, Endorse(t, inv)
        PROVE  ChannelInv'
    BY <1>1, EndorseInv
  <1>2. ASSUME NEW t \in Txs, NEW inv \in Invocations, Refuse(t, inv)
        PROVE  ChannelInv'
    BY <1>2, RefusalInv DEF Refuse
  <1>3. ASSUME NEW t \in Txs, StubError(t)
        PROVE  ChannelInv'
    BY <1>3, RefusalInv DEF StubError
  <1>4. ASSUME NEW t \in Txs, Submit(t) \/ Lose(t) \/ CommitInvalid(t) \/ CommitDuplicate(t)
        PROVE  ChannelInv'
    BY <1>4, EnvelopeInv DEF Submit, Lose, CommitInvalid, CommitDuplicate
  <1>5. ASSUME NEW t \in Txs, CommitValid(t)
        PROVE  ChannelInv'
    BY <1>5, CommitInv
  <1>6. CASE UNCHANGED vars
    BY <1>6 DEF vars, ChannelInv, ChannelType, VersionsArePast, SimulationsFaithful, Faithful,
                JudgedOnce, Endorsed
  <1>7. QED
    BY <1>1, <1>2, <1>3, <1>4, <1>5, <1>6 DEF Next

(* ChannelInv is an inductive invariant of the channel. *)
THEOREM ChannelInvariant == Spec => []ChannelInv
  BY InitInv, StepInv, PTL DEF Spec

(* The channel's state has its type: whatever bytes a client passes as an  *)
(* owner, every function can decode what another one has stored.           *)
THEOREM ChannelTypeCorrect == Spec => []TypeOK
  <1>1. ChannelInv => TypeOK
    <2> SUFFICES ASSUME ChannelInv
                 PROVE  TypeOK
      OBVIOUS
    <2>1. ASSUME NEW t \in Txs, Endorsed(t)
          PROVE  Simulated(tx[t])
      <3>1. Faithful(tx[t])
        BY <2>1 DEF ChannelInv, SimulationsFaithful
      <3>2. tx[t].inv \in Invocation
        BY <3>1, ChannelAssumption DEF Faithful
      <3>3. QED
        BY <3>1, <3>2, RunType DEF Faithful, Simulated, Slot
    <2>2. DOMAIN chain = 1 .. Len(chain)
      BY DEF ChannelInv, ChannelType
    <2>3. \A i \in DOMAIN chain : chain[i] \in Entry
      BY DEF ChannelInv, ChannelType
    <2>4. QED
      BY <2>1, <2>2, <2>3 DEF TypeOK, ChannelInv, ChannelType, Entry
  <1>2. QED
    BY <1>1, ChannelInvariant, PTL

------------------------------------------------------------------------------
(* Refinement. *)

(* A commit is a step of the ledger: the one of the function it ran. *)
LEMMA CommitIsLedgerStep ==
  ASSUME ChannelInv, NEW t \in Txs, CommitValid(t)
  PROVE  L!Next
  <1> DEFINE inv == tx[t].inv
  <1>1. /\ inv \in Invocation
        /\ tx[t].out = Run(world, inv)
        /\ ~Run(world, inv).err
    BY OutcomeIsCurrent, ChannelAssumption DEF CommitValid
  <1>2. inv.fn \in Updating \cup Reading /\ inv.id \in Ids
    BY <1>1 DEF Invocation
  <1>3. L!Record(t, inv, Run(world, inv).ret)
    <2>1. \A i \in DOMAIN chain : chain[i].tx # t
      BY DEF CommitValid, ChannelInv, JudgedOnce
    <2>2. QED
      BY <1>1, <2>1 DEF L!Record, L!Fresh, CommitValid
  <1>4. world' = [k \in Ids |-> IF k \in DOMAIN Run(world, inv).put
                                THEN Run(world, inv).put[k] ELSE world[k]]
    BY <1>1 DEF CommitValid
  <1>5. world \in [Ids -> Slot]
    BY DEF ChannelInv, ChannelType, WorldState, Slot
  <1> HIDE DEF inv
  <1> DEFINE Step == L!Issue(t, inv) \/ L!Amend(t, inv) \/ L!Retire(t, inv)
                       \/ L!HandOver(t, inv) \/ L!Withhold(t, inv) \/ L!Consult(t, inv)
  <1> SUFFICES Step
    <2>1. inv \in L!Invocation
      BY <1>1 DEF Invocation, Updating, Reading, L!Invocation, L!Updating, L!Reading
    <2>2. QED
      BY <2>1 DEF L!Next
  <1>a. ASSUME NEW a, Run(world, inv).put = PutState(inv.id, a)
        PROVE  world' = [world EXCEPT ![inv.id] = a]
    BY <1>2, <1>4, <1>5, <1>a DEF PutState
  <1>b. ASSUME Run(world, inv).put = NoPut
        PROVE  world' = world
    BY <1>4, <1>5, <1>b DEF NoPut
  <1>c. Marshal([ID |-> inv.id, Owner |-> inv.owner, Details |-> inv.details]) = L!AsGiven(inv)
    BY <1>1, MarshalNew DEF L!AsGiven, L!Encoded, Encoded
  <1>6. CASE inv.fn = "CreateAsset"
    <2>1. world[inv.id] = NoAsset
      BY <1>1, <1>6 DEF Run, Success, Failure, Exists, CreateAsset
    <2>2. Run(world, inv) = Success(PutState(inv.id, L!AsGiven(inv)), NoReturn)
      BY <1>1, <1>6, <2>1, <1>c DEF Run, Success, Failure, Exists, CreateAsset
    <2>3. world' = [world EXCEPT ![inv.id] = L!AsGiven(inv)]
      BY <1>a, <2>2 DEF Success
    <2>4. QED
      BY <1>3, <1>6, <2>1, <2>2, <2>3 DEF Success, L!Issue
  <1>7. CASE inv.fn = "UpdateAsset"
    <2>1. world[inv.id] # NoAsset
      BY <1>1, <1>7 DEF Run, Success, Failure, Exists, UpdateAsset
    <2>2. Run(world, inv) = Success(PutState(inv.id, L!AsGiven(inv)), NoReturn)
      BY <1>1, <1>7, <2>1, <1>c DEF Run, Success, Failure, Exists, UpdateAsset
    <2>3. world' = [world EXCEPT ![inv.id] = L!AsGiven(inv)]
      BY <1>a, <2>2 DEF Success
    <2>4. QED
      BY <1>3, <1>7, <2>1, <2>2, <2>3 DEF Success, L!Amend
  <1>8. CASE inv.fn = "DeleteAsset"
    <2>1. world[inv.id] # NoAsset
      BY <1>1, <1>8 DEF Run, Success, Failure, Exists, DeleteAsset
    <2>2. Run(world, inv) = Success(DelState(inv.id), NoReturn)
      BY <1>8, <2>1 DEF Run, Success, Failure, Exists, DeleteAsset
    <2>3. world' = [world EXCEPT ![inv.id] = NoAsset]
      BY <1>a, <2>2 DEF Success, DelState, PutState
    <2>4. QED
      BY <1>3, <1>8, <2>1, <2>2, <2>3 DEF Success, L!Retire
  <1>9. CASE inv.fn = "TransferAsset" /\ inv.flag
    <2>1. world[inv.id] # NoAsset
      BY <1>1, <1>9 DEF Run, Success, Failure, Exists, TransferAsset
    <2>2. world[inv.id] \in StoredAsset
      BY <1>2, <1>5, <2>1 DEF Slot
    <2> DEFINE moved == [world[inv.id] EXCEPT !.Owner = Encoded(inv.owner)]
    <2>3. Run(world, inv) = Success(PutState(inv.id, moved), world[inv.id].Owner)
      BY <1>1, <1>9, <2>1, <2>2, MarshalMoved DEF Run, Success, Failure, Exists, TransferAsset
    <2> HIDE DEF moved
    <2>4. world' = [world EXCEPT ![inv.id] = moved]
      BY <1>a, <2>3 DEF Success
    <2>5. world' = [world EXCEPT ![inv.id].Owner = Encoded(inv.owner)]
      BY <2>4 DEF moved
    <2>6. QED
      BY <1>3, <1>9, <2>1, <2>3, <2>5 DEF Success, L!HandOver, L!Encoded, Encoded
  <1>10. CASE inv.fn = "TransferAsset" /\ ~inv.flag
    <2>1. world[inv.id] # NoAsset
      BY <1>1, <1>10 DEF Run, Success, Failure, Exists, TransferAsset
    <2>2. Run(world, inv) = Success(NoPut, NoReturn)
      BY <1>10, <2>1 DEF Run, Success, Failure, Exists, TransferAsset
    <2>3. world' = world
      BY <1>b, <2>2 DEF Success
    <2>4. QED
      BY <1>3, <1>10, <2>1, <2>2, <2>3 DEF Success, L!Withhold
  <1>11. CASE inv.fn \in Reading
    <2>1. Run(world, inv).put = NoPut
      BY <1>1, <1>11 DEF Run, Success, Failure, Reading, ReadAsset, AssetExists, GetAllAssets
    <2>2. world' = world
      BY <1>b, <2>1
    <2>3. CASE inv.fn = "ReadAsset"
      <3>1. world[inv.id] # NoAsset /\ Run(world, inv).ret = world[inv.id]
        BY <1>1, <2>3 DEF Run, Success, Failure, Exists, ReadAsset
      <3>2. QED
        BY <1>3, <2>2, <2>3, <3>1 DEF L!Consult
    <2>4. CASE inv.fn = "AssetExists"
      <3>1. Run(world, inv).ret = (world[inv.id] # NoAsset)
        BY <2>4 DEF Run, Success, Failure, Exists, AssetExists
      <3>2. QED
        BY <1>3, <2>2, <2>4, <3>1 DEF L!Consult
    <2>5. CASE inv.fn = "GetAllAssets"
      <3>1. Run(world, inv).ret = {world[k] : k \in {j \in Ids : world[j] # NoAsset}}
        BY <2>5 DEF Run, Success, Failure, Exists, GetAllAssets
      <3>2. QED
        BY <1>3, <2>2, <2>5, <3>1 DEF L!Consult
    <2>6. QED
      BY <1>11, <2>3, <2>4, <2>5 DEF Reading
  <1>12. QED
    BY <1>2, <1>6, <1>7, <1>8, <1>9, <1>10, <1>11 DEF Updating

(* The channel implements the asset ledger: transactions take effect as if *)
(* each had been executed, whole, at the moment of its commit.             *)
THEOREM ChannelImplementsLedger == Spec => ImplementsLedger
  <1>1. Init => L!Init
    BY DEF Init, L!Init
  <1>2. ChannelInv /\ [Next]_vars => [L!Next]_(L!vars)
    BY CommitIsLedgerStep
    DEF Next, vars, L!vars, Endorse, Refuse, StubError, Submit, Lose, CommitInvalid,
        CommitDuplicate
  <1>3. QED
    BY <1>1, <1>2, ChannelInvariant, PTL DEF Spec, ImplementsLedger, L!Spec

LP == INSTANCE AssetLedgerProofs WITH holding <- world

(* Hence the ledger's promises hold of the channel: no ID is created twice *)
(* without a deletion, however many clients found it absent; a transfer    *)
(* returned the owner it replaced; and no transfer undoes an update.       *)
THEOREM ChannelKeepsLedgerPromises ==
  Spec => [](OneCreatePerLife /\ TransferReturnsOldOwner /\ NoLostUpdate)
  <1>1. ImplementsLedger => LP!Spec
    <2>1. L!Init => LP!Init
      BY DEF L!Init, LP!Init
    <2>2. [L!Next]_(L!vars) => [LP!Next]_(LP!vars)
      BY DEF L!Next, LP!Next, L!vars, LP!vars, L!Invocation, LP!Invocation,
             L!Updating, LP!Updating, L!Reading, LP!Reading, L!Encoded, LP!Encoded,
             L!Issue, LP!Issue, L!Amend, LP!Amend, L!Retire, LP!Retire,
             L!HandOver, LP!HandOver, L!Withhold, LP!Withhold, L!Consult, LP!Consult,
             L!Record, LP!Record, L!Fresh, LP!Fresh, L!AsGiven, LP!AsGiven
    <2>3. QED
      BY <2>1, <2>2, PTL DEF ImplementsLedger, L!Spec, LP!Spec
  <1>2. LP!Spec => [](LP!OneCreatePerLife /\ LP!TransferReturnsOldOwner /\ LP!NoLostUpdate)
    BY LP!LedgerKeepsItsPromises, NamesAssumption, NoAssetAssumption, PTL
    DEF LP!NamesAssumption, LP!NoAssetAssumption, LP!Asset, Asset
  <1>3. LP!OneCreatePerLife => OneCreatePerLife
    BY DEF LP!OneCreatePerLife, OneCreatePerLife, L!OneCreatePerLife,
           LP!Creates, L!Creates, LP!Deletes, L!Deletes
  <1>4. LP!TransferReturnsOldOwner => TransferReturnsOldOwner
    BY DEF LP!TransferReturnsOldOwner, TransferReturnsOldOwner, L!TransferReturnsOldOwner,
           LP!Moves, L!Moves, LP!SetsOwner, L!SetsOwner, LP!SetsDetails, L!SetsDetails,
           LP!Deletes, L!Deletes, LP!Encoded, L!Encoded
  <1>5. LP!NoLostUpdate => NoLostUpdate
    BY DEF LP!NoLostUpdate, NoLostUpdate, L!NoLostUpdate,
           LP!SetsDetails, L!SetsDetails, LP!Deletes, L!Deletes
  <1>6. QED
    BY <1>1, <1>2, <1>3, <1>4, <1>5, ChannelImplementsLedger, PTL

(* Clients that find the same ID absent at the same time do not both       *)
(* create it: between two committed creations there is a deletion.         *)
THEOREM NoSecondCreation == Spec => []OneCreatePerLife
  <1>1. OneCreatePerLife /\ TransferReturnsOldOwner /\ NoLostUpdate => OneCreatePerLife
    OBVIOUS
  <1>2. QED
    BY <1>1, ChannelKeepsLedgerPromises, PTL

(* The owner that a committed transfer has returned, read while it was     *)
(* simulated, is the one it has replaced.                                  *)
THEOREM TransfersReturnTheOldOwner == Spec => []TransferReturnsOldOwner
  <1>1. OneCreatePerLife /\ TransferReturnsOldOwner /\ NoLostUpdate => TransferReturnsOldOwner
    OBVIOUS
  <1>2. QED
    BY <1>1, ChannelKeepsLedgerPromises, PTL

==============================================================================
