---------------------------- MODULE FabricChannel ----------------------------
(***************************************************************************)
(* The asset chaincode on a Fabric channel.  A transaction is simulated on *)
(* a peer against the world state committed there (its function runs, its  *)
(* reads are recorded with the versions they saw, its writes are kept      *)
(* aside), then sent to the ordering service, and committed much later:    *)
(* only if every key it read still has the version it saw.                 *)
(*                                                                         *)
(* A peer that lags behind simulates on an older state; that is the same   *)
(* as simulating early and being ordered late, so one world state is       *)
(* enough.  Envelopes on their way to the ordering service may be          *)
(* reordered, sent again or lost.                                          *)
(***************************************************************************)
EXTENDS AssetContract, Naturals, Sequences

CONSTANTS
  Txs,          \* transaction identifiers
  Invocations,  \* the invocations clients make
  MaxCopies,    \* bound on the copies of one envelope in flight
  Idle,         \* the transaction has not been proposed
  Refused       \* its simulation failed, so it was not endorsed

ASSUME ChannelAssumption ==
  /\ Invocations \subseteq Invocation
  /\ MaxCopies \in Nat \ {0}
  /\ Idle # Refused

VARIABLES
  world,     \* key -> asset: the committed world state
  ver,       \* key -> version: the commit that last put it, 0 when it is absent
  tx,        \* transaction -> its simulation, Idle or Refused
  inflight,  \* transaction -> copies of its envelope on the way to ordering
  verdict,   \* transaction -> its validation code
  chain      \* the valid transactions, in commit order

vars == <<world, ver, tx, inflight, verdict, chain>>

Init ==
  /\ world = [k \in Ids |-> NoAsset]
  /\ ver = [k \in Ids |-> 0]
  /\ tx = [t \in Txs |-> Idle]
  /\ inflight = [t \in Txs |-> 0]
  /\ verdict = [t \in Txs |-> "NOT_VALIDATED"]
  /\ chain = <<>>

------------------------------------------------------------------------------
(* Simulation and endorsement. *)

(* The read set pairs each key that was read with its version; `seen` are  *)
(* the values GetState returned for them.                                  *)
Simulation(inv) ==
  [inv   |-> inv,
   reads |-> [k \in ReadSet(inv) |-> ver[k]],
   seen  |-> [k \in ReadSet(inv) |-> world[k]],
   out   |-> Run(world, inv)]

Endorse(t, inv) ==
  /\ tx[t] = Idle
  /\ ~Run(world, inv).err
  /\ tx' = [tx EXCEPT ![t] = Simulation(inv)]
  /\ UNCHANGED <<world, ver, inflight, verdict, chain>>

(* The function returned an error: there is no endorsement to submit. *)
Refuse(t, inv) ==
  /\ tx[t] = Idle
  /\ Run(world, inv).err
  /\ tx' = [tx EXCEPT ![t] = Refused]
  /\ UNCHANGED <<world, ver, inflight, verdict, chain>>

(* GetState, PutState, DelState or the range query returned an error, which *)
(* every function passes on to its caller before anything else is written.  *)
StubError(t) ==
  /\ tx[t] = Idle
  /\ tx' = [tx EXCEPT ![t] = Refused]
  /\ UNCHANGED <<world, ver, inflight, verdict, chain>>

------------------------------------------------------------------------------
(* Ordering, validation and commit. *)

Endorsed(t) == tx[t] \notin {Idle, Refused}

(* A client that hears nothing may submit again, also what was committed. *)
Submit(t) ==
  /\ Endorsed(t)
  /\ inflight[t] < MaxCopies
  /\ inflight' = [inflight EXCEPT ![t] = @ + 1]
  /\ UNCHANGED <<world, ver, tx, verdict, chain>>

Lose(t) ==
  /\ inflight[t] > 0
  /\ inflight' = [inflight EXCEPT ![t] = @ - 1]
  /\ UNCHANGED <<world, ver, tx, verdict, chain>>

(* Some key read by t has been put or deleted since. *)
Conflict(t) == \E k \in DOMAIN tx[t].reads : tx[t].reads[k] # ver[k]

Deliver(t) ==
  /\ inflight[t] > 0
  /\ inflight' = [inflight EXCEPT ![t] = @ - 1]

CommitValid(t) ==
  /\ Deliver(t)
  /\ verdict[t] = "NOT_VALIDATED"
  /\ ~Conflict(t)
  /\ LET put == tx[t].out.put IN
       /\ world' = [k \in Ids |-> IF k \in DOMAIN put THEN put[k] ELSE world[k]]
       /\ ver' = [k \in Ids |-> IF k \notin DOMAIN put THEN ver[k]
                                ELSE IF put[k] = NoAsset THEN 0 ELSE Len(chain) + 1]
  /\ verdict' = [verdict EXCEPT ![t] = "VALID"]
  /\ chain' = Append(chain, [tx |-> t, inv |-> tx[t].inv, ret |-> tx[t].out.ret])
  /\ UNCHANGED tx

CommitInvalid(t) ==
  /\ Deliver(t)
  /\ verdict[t] = "NOT_VALIDATED"
  /\ Conflict(t)
  /\ verdict' = [verdict EXCEPT ![t] = "MVCC_READ_CONFLICT"]
  /\ UNCHANGED <<world, ver, tx, chain>>

(* A second envelope with the same transaction ID has no effect. *)
CommitDuplicate(t) ==
  /\ Deliver(t)
  /\ verdict[t] # "NOT_VALIDATED"
  /\ UNCHANGED <<world, ver, tx, verdict, chain>>

Next == \E t \in Txs :
          \/ \E inv \in Invocations : Endorse(t, inv) \/ Refuse(t, inv)
          \/ StubError(t)
          \/ Submit(t)
          \/ Lose(t)
          \/ CommitValid(t)
          \/ CommitInvalid(t)
          \/ CommitDuplicate(t)

Spec == Init /\ [][Next]_vars

------------------------------------------------------------------------------
(* Properties. *)

Returned(fn) ==
  CASE fn = "ReadAsset"     -> StoredAsset
    [] fn = "AssetExists"   -> BOOLEAN
    [] fn = "GetAllAssets"  -> SUBSET StoredAsset
    [] fn = "TransferAsset" -> (Names \ Malformed) \cup {NoReturn}
    [] OTHER                -> {NoReturn}

Simulated(s) ==
  /\ DOMAIN s = {"inv", "reads", "seen", "out"}
  /\ s.inv \in Invocations
  /\ s.reads \in [ReadSet(s.inv) -> Nat]
  /\ s.seen \in [ReadSet(s.inv) -> StoredAsset \cup {NoAsset}]
  /\ DOMAIN s.out.put \subseteq {s.inv.id}
  /\ \A k \in DOMAIN s.out.put : s.out.put[k] \in StoredAsset \cup {NoAsset}
  /\ s.out.ret \in Returned(s.inv.fn)

(* Types of the state.  A stored asset always has the form json.Unmarshal  *)
(* can give back, so no function fails on bytes another one has written.   *)
TypeOK ==
  /\ world \in WorldState
  /\ ver \in [Ids -> Nat]
  /\ DOMAIN tx = Txs
  /\ \A t \in Txs : Endorsed(t) => Simulated(tx[t])
  /\ inflight \in [Txs -> 0 .. MaxCopies]
  /\ verdict \in [Txs -> {"NOT_VALIDATED", "VALID", "MVCC_READ_CONFLICT"}]
  /\ DOMAIN chain = 1 .. Len(chain)
  /\ \A i \in DOMAIN chain :
       /\ chain[i].tx \in Txs
       /\ chain[i].inv \in Invocations
       /\ chain[i].ret \in Returned(chain[i].inv.fn)

L == INSTANCE AssetLedger WITH holding <- world

(* The channel implements the asset ledger: each committed transaction has *)
(* the effect and the response of its chaincode function run alone on the  *)
(* current world state, however old the state it was simulated on.         *)
ImplementsLedger == L!Spec

(* The promises of the ledger, on the channel's own chain. *)

(* CreateAsset commits at most once between two deletions of an ID, also   *)
(* when several clients saw the ID absent at the same time.                *)
OneCreatePerLife == L!OneCreatePerLife

(* TransferAsset returned the owner that its commit replaced. *)
TransferReturnsOldOwner == L!TransferReturnsOldOwner

(* TransferAsset writes back the whole record it read; no committed        *)
(* UpdateAsset is undone by that.                                          *)
NoLostUpdate == L!NoLostUpdate

(* The comment above TransferAsset: "updates the owner field of asset with *)
(* given id in world state".  Said of every committed TransferAsset.       *)
TransferUpdatesOwner ==
  [][\A inv \in Invocations : \A ret \in Returned("TransferAsset") : \A t \in Txs :
       (inv.fn = "TransferAsset" /\ chain' = Append(chain, [tx |-> t, inv |-> inv, ret |-> ret]))
         => world'[inv.id].Owner = Encoded(inv.owner)]_vars

==============================================================================
