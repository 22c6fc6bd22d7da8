# Verification of SubstrateFabricIntegration

TLA+ models of the program, checked with TLC on small instances and, for the
properties that matter most, proved with TLAPS for every value of the
constants. Paths are relative to the repository (`src/` here).

## 1. Inventory

The repository holds two programs that its root README plans to connect: a
chaincode for Hyperledger Fabric, and a Substrate node with its runtime. The
relays, the broker and the locking of assets that the README describes between
them have no code yet.

| component | state | operations | interacts with |
|---|---|---|---|
| asset chaincode (`interoperability_fabric.go`) | assets in the world state, by ID | `CreateAsset`, `ReadAsset`, `UpdateAsset`, `DeleteAsset`, `AssetExists`, `TransferAsset`, `GetAllAssets` | Fabric's stub: reads see the committed state of the peer, writes take effect at commit |
| Fabric channel (external) | world state with versions, transactions being simulated, ordered, committed | endorse, submit, order, validate, commit | runs the chaincode |
| template pallet (`pallets/template/src/lib.rs`) | `Something: Option<u32>`, the block's events | `do_something`, `cause_error` | dispatched by the runtime from signed extrinsics or through sudo |
| runtime (`runtime/src/lib.rs`) | accounts, nonces, balances, current slot, timestamp, sudo key | block initialisation, inherents, extrinsics, finalisation | called by the node through its runtime APIs |
| authoring and import (`node/src/service.rs`) | block tree, best block, slot in progress | claim a slot, propose, seal, verify, import | clocks; the runtime's checks |
| node service (`service.rs`, `command.rs`) | construction in progress, running tasks | build a partial or full service, spawn tasks, start the network, shut down | operating system signals; tasks of the libraries |
| benchmark extrinsics (`benchmarking.rs`) | the next nonce | build extrinsics and inherent data | the database of a node; the runtime judges the block |
| chain specification (`chain_spec.rs`) | none | genesis for `dev` and `local` | initial states of the above |
| RPC, CLI, install scripts | none of their own | | RPC modules are merged while the service is built |

What is hard in it, and the properties that matter:

* **Chaincode.** Every function reads and decides long before its writes take
  effect. Check-then-put (`CreateAsset`), read-modify-write (`TransferAsset`)
  and range queries (`GetAllAssets`) race with other transactions; envelopes
  are lost, resent and reordered. Correct means: committed transactions behave
  as if run one at a time, no ID is created twice, no update is undone by a
  transfer, and a transfer returns the owner it replaced.
* **Authoring.** Slot and timestamp come from a local clock, the parent from a
  chain that other clocks have stamped; `MinimumPeriod` is half a slot. Correct
  means: one block per slot on a chain, a proposal made for its slot is never
  refused by the author's own runtime, timestamps do not run away.
  An upgrade may change the slot duration under nodes that read it once.
* **Runtime pipeline.** Nonce and fee are taken before a call that may fail or
  remove its signer; accounts vanish with their nonce and come back; eras
  recur; classes of extrinsics share a block. Correct means: an extrinsic takes
  effect once, in its era and on its chain, money adds up and moves by its
  owner's signature only, and blocks stay within their limits.
* **Benchmarks.** They run on whatever chain the database holds, with nonces,
  times and eras made up for a fresh one.
* **Pallet.** Arithmetic at `u32::MAX`, origins changed by sudo, events that live for one block. Correct means: value and
  events are exactly explained by the successful calls.
* **Node service.** Some ten fallible steps, each with tasks of earlier steps
  already running; essential tasks may end before anyone waits for them.
  Correct means: nothing authors or votes unless configured, no peer is let in
  before everything is built, the end of an essential task ends the node, and
  the other subcommands end by themselves.

`PROJECT.json` lists every component and every hazard with its line.

## 2. Modules

| module | models |
|---|---|
| `Assets` | the asset record, its JSON form, the invocations |
| `AssetContract` | the seven chaincode functions, as operators of the world state |
| `AssetLedger` | abstract specification: transactions take effect one at a time |
| `FabricChannel` | the chaincode on a channel; implements `AssetLedger` |
| `AuraTime` | slots and timestamps: the runtime's checks of a block on its parent |
| `AuraAuthoring` | proposals and imports of the authorities; extends `AuraTime` |
| `SlotDurationChange` | an upgrade of the slot duration; instantiates `AuraTime` once per duration |
| `Era`, `BlockLimits` | mortal eras; what fits into a block |
| `Runtime` | the pipeline of signed extrinsics and the balances; extends both |
| `BenchmarkBlock` | the benchmark commands on a used chain; composes `Runtime` and `AuraTime` |
| `TemplatePallet` | the pallet in blocks, called directly or through sudo |
| `NodeService` | construction, tasks and end of the node process |
| `AssetLedgerProofs`, `FabricChannelProofs`, `AuraAuthoringProofs`, `SlotDurationChangeProofs`, `TemplatePalletProofs`, `RuntimeProofs`, `BenchmarkBlockProofs`, `NodeServiceProofs` | theorems about the module they are named after |
| `MC*` | instances for TLC |

Operators commented *Slip* are plausible mistakes in the code they stand next
to. No specification uses them; each shows that some property notices it.

### Asset chaincode and channel

`AssetContract` gives each function as an operator: from the state simulated on
and the arguments to an error, or to a return value and a set of puts.
Errors returned by the stub are the action `StubError`. Color, size and
appraised value always travel together and are one value. `json.Marshal` is
modelled by what it does to an owner that is not valid UTF-8: it is replaced.

`TransferAsset` as committed does not compile: its `else` stands on a line of
its own, and the function ends without a return. It is modelled as what
remains when both are repaired in the obvious way: with the flag unset it reads
the asset, fails if there is none, and does nothing else.

`FabricChannel` is the code's environment, modelled from how the chaincode uses
it: `Endorse` (the function ran on the committed state; its reads are recorded
with versions), `Refuse` and `StubError` (it returned an error), `Submit`,
`Lose`, and one of `CommitValid`, `CommitInvalid` (a version read has changed)
and `CommitDuplicate` (same transaction ID again). A deleted key has no version,
as in Fabric, so create followed by delete goes unnoticed by a reader of the
absent key; the refinement shows that this does no harm. One world state stands
for all peers: simulating on a peer that lags is simulating early.

`AssetLedger` knows nothing of versions or simulations. The refinement maps
`holding` to `world` and `chain` to `chain`; a valid commit is the ledger's
step, all else is stuttering.

### Authoring

State: each node's clock, the block tree, what each node knows and builds on,
the last slot it saw and the proposal under way. `NewSlot` reads clock and chain
head together (the closure at `service.rs:240` and the slot worker); `Propose`
builds and seals the block later, with `CreateInherent` (timestamp pushed to
`parent + MinimumPeriod`) and the runtime's checks; `ProposeFails` is a failed
assertion. `Import` has the checks of the import queue (`service.rs:84`): author,
slot not in the future, timestamp within the drift, and execution. Clocks are
independent, can tick at any rate and be set back (`Tick`, `SetBack`). `SkipSlot` is a node without peers or still syncing, `Discard` a proposal past its
share of the slot. `Restart` forgets what is not in the database. What Aura and the timestamp pallet do is
library code, modelled as the runtime configures it (`lib.rs:179-207`).

`SlotDurationChange` gives every block the slot duration it leaves in the state
and every node the one its authoring task was started with; `Author` uses the
node's for the slot and the parent's for the rest, `Restart` reads it anew. It
keeps to one chain and one clock, since what the durations do does not depend on
forks. The note at `runtime/src/lib.rs:118` ("will brick block production") turns
out to describe the time until the authorities are restarted if the duration
gets shorter; if it gets longer by a factor, it takes until the clock, counted
from 1970, has grown by that factor.

### Runtime pipeline

`Verdict` is what `SignedExtra` makes of an extrinsic, in the order of the tuple;
`Apply` takes nonce and fee (`PreDispatch`), dispatches the call and refunds
sudo; `Refuse` changes nothing, since the block builder rolls back. A signature
over another genesis, version or fork is the hash `Elsewhere`; a block's hash is
its number, for there is one chain. Block hashes are kept as `BlockHashCount`
says and an era's birth block is computed from the number of the block at hand
(`Era`). An account below the existential deposit is removed with its nonce
(`SetFree`), its dust and all fees are burnt (`DustRemoval = ()`,
`CurrencyAdapter<Balances, ()>`). Calls are the two transfers,
`force_set_balance` through sudo, and `remark` for all that leave balances
alone. `CheckNonZeroSender` refuses the all-zero account only, which is no account
of the model. Nothing reserves, locks or freezes here. `force_adjust_total_issuance`,
whose purpose is to break `IssuanceAccounted`, is left out. Weights are of one
dimension (the proof size has no limit), calls weigh what they declare. A block
begins with what hooks and inherents weigh (`Initialization`) and with the
length of the timestamp inherent (`InherentLength`).

`BenchmarkBlock` lets the runtime run (`ChainRuns`), stops it between two blocks
(`Start`) and builds a block of Bob's extrinsics: `Push` until `Full`; any other
error is `Fail`. The block has no digest, so its timestamp, zero pushed to
`parent + MinimumPeriod`, has to fall into the parent's slot. In these commands
nothing imports blocks, so the best block does not change while it is read.
`bench.found` records what `Start` met of Bob and of the time; no action reads
it. The library's optional cap on the number of extrinsics (`--max-ext-per-block`)
is left out.

### Template pallet

`do_something` and `cause_error` return the result, the new value and the events
deposited; an error restores the storage. `ApplySigned`, `ApplySudo` and
`ApplySudoAs` give the origins with which a call can arrive; `SetKey` stands for
`set_key` and `remove_key`. `InitializeBlock` resets the events. `log` records
the dispatches for the properties.

### Node service

`Steps` is the sequence of construction steps for a subcommand and a
configuration, each with whether it can fail and what it spawns; `RpcSteps` are
the merges of `rpc.rs`. Subcommands are grouped by what they build and wait for:
`import` are check-block and import-blocks, which are both handed the import
queue (`command.rs:64` and `86`), `chain` are export-blocks, export-state and
revert, which are not.
`StepSucceeds`, `StepFails` and `Built` run it; `TaskEnds` may strike at any
time, during construction too; `TakeDown`, `CommandCompletes` and `NotCompiledIn`
end the process. A command may return at any time, with its result or an error;
`Served` says when it has what it waits for. Dropping the task manager kills
every task: this is the library's doing, and no property is stated of it.

## 3. Runs

| run | configuration | shows |
|---|---|---|
| `fabric_ledger` | 2 assets, 3 transactions | `TypeOK`, and `ImplementsLedger`: every interleaving is a behaviour of the ledger |
| `fabric_life` | 1 asset, 4 transactions | `OneCreatePerLife`, `TransferReturnsOldOwner`, `NoLostUpdate` |
| `fabric_transfer` | 1 asset, 2 transactions | **violated**: `TransferUpdatesOwner`, the comment above `TransferAsset` |
| `aura` | 2 authorities, slots of 4 ticks, clocks to 9, 3 blocks | `TypeOK`, `OneBlockPerSlotOnAChain`, `ProposalsExecute`, `TimestampsNearClock` |
| `aura_spacing` | the same | **violated**: `SlotDurationApart`, the comment on `MILLISECS_PER_BLOCK` |
| `aura_change` | 2 authorities, durations 2, 4 and 8, clock 16-40, 3 blocks on genesis | `TypeOK`, `StaleNodesDoNotAuthor`, `ChangeStallsInProportion` |
| `runtime` | 3 accounts, 4 extrinsics, 1 block | `TypeOK`, `IssuanceAccounted`, `OnlySudoTouchesOthers` |
| `runtime_eras` | an account removed and revived, eras of 4, 7 blocks, 4 extrinsics | `OncePerLife`, `EraRespected` |
| `runtime_limits` | extrinsics of 10 kinds, a block of 20, 7 extrinsics | `BlockNotOverfull`, `OperationalGetsIn` |
| `benchmark` | up to 9 blocks and 2 extrinsics before it | `FailsOnlyOnUsedChain`, `EraFromBestIsValid`, `PeriodWithinHistory`, `BenchmarkEnds` |
| `template` | 2 accounts, values 0-2, 3 dispatches, 2 blocks | `TypeOK`, `ValueAccountedFor`, `EventsOfThisBlock`, `ChangesAreSigned` |
| `node` | every subcommand and configuration | `ConsensusOnlyAsConfigured`, `NetworkStartsLast`, `EssentialFailureStops`, `SubcommandsEnd` |

Bounds. `MaxCopies = 1` bounds the copies of an envelope in flight *at once*;
a transaction may be submitted again after each delivery or loss, so duplicates
and retries occur. Four transactions are what it takes to create, delete and
create again with one more transaction in a race with them; two assets make a
range query differ from a read. Clients call every function; arguments that a
function ignores are fixed. `SYMMETRY` permutes transaction identifiers, which
nothing orders; the refinement checked under it is a safety property. Slots of four ticks
distinguish the minimum period from the slot and leave room on both sides of
the middle; the clocks reach the third slot and three blocks include a fork and
its extension. `MaxDrift` is longer than a slot, as in the runtime (30 s and 6 s).
`MaxU32 = 2` lets two increments reach the limit and the third fail, or a stored
value be at it at once. `NodeService` has no bounds.

An endowment of 6 with a deposit of 3 and fees of 1 or 2 lets one transfer empty
an account with or without dust, and a refund fall short of the deposit. Four
extrinsics suffice to use a nonce, remove the account, revive it and replay.
Seven blocks with eras of four let an era recur with its new birth block known;
`BlockHashCount = 5` gives the benchmark a period of 4 (2400 gives 2048) and
nine blocks let hashes be forgotten. A block of 20 splits into 15 and 5; weights
of 1, 5, 9 and 14, base included, fill each part exactly or overshoot it; of a
length of 12 normal extrinsics may have 9, which the inherent and two of length
4 take up.
`MaxApplied = 20` in `benchmark` is more than a block holds. The clock of
`aura_change` starts at 16, when slots of any two of its durations have numbers
two apart (`StartedAssumption`), and goes on to more than twice that. Close to
zero two durations can give a time the same slot, which no clock since 1970
meets.

Deadlock is not checked: bounded runs stop at their bounds, transactions are
finite, and a node that has failed or stopped stays so.

Fairness. `NodeService`: the construction is straight-line code that goes on
(`WF` of its steps), what the process waits for is polled (`WF` of `TakeDown`),
and a command that is served has finite work (`WF` of `CommandCompletes /\ Served`).
A check-block or import-blocks whose import queue has ended may return but need
not: `SubcommandsEnd` names this one exception. Nothing is assumed of tasks and
signals. `BenchmarkBlock`: the loop over nonces goes on (`WF` of its steps).

Findings. `fabric_transfer`: a committed `TransferAsset` with the flag unset
moves nothing and returns no old owner. `aura_spacing`: a block stamped in the
second half of its slot is followed by one early in the next slot, less than
`SLOT_DURATION` later and at the extreme half of it; the slot duration is the
average distance, not the minimum.

## 4. Proofs

Every invariant that a passing run checks, and the two safety properties that
are not invariants (`ImplementsLedger`, `OnlySudoTouchesOthers`), are proved
for arbitrary constants: any number of nodes, accounts, transactions, blocks
and extrinsics. The bounds of the runs (`MaxBlock` and the like) are constants
too, of any size. What the constants must satisfy is stated next to them:

| assumption | says | because |
|---|---|---|
| `NamesAssumption`, `NoAssetAssumption`, `ChannelAssumption` | the replacement name is well-formed, markers are no values | they stand for U+FFFD and `nil` |
| `AuraAssumption` | a slot lasts two ticks or more | half of it is the minimum period, and 6000 ms |
| `SlotDurationAssumption` | durations are even | as 6000 is; an odd one would lose a tick to `SLOT_DURATION / 2` |
| `StartedAssumption` | `2cd <= Started * (d - c)` for durations `c < d` | the clock counts from 1970; for 6 s and 12 s it takes 24 seconds, for 6 s and 6.002 s ten hours |
| `PalletAssumption` | `None` is neither number nor account | it stands for `Option::None` |
| `BlockLimitsAssumption` | initialisation takes a tenth of a block at most, its inherents are shorter than the normal share, an extrinsic weighs something | `AvgBlockInitialization` of `with_sensible_defaults`; a timestamp has some ten bytes of 3.75 MB; `ExtrinsicBaseWeight` |
| `BlockHashCountAssumption` | 1 to 65536 | it is 2400; 65536 is the longest period |
| `RuntimeAssumption` | finitely many endowed accounts, each at least the existential deposit; `Elsewhere` is no block | `testnet_genesis` |
| `ParametersAssumption` | `BlockHashCount` of 2 to 8192, room for one benchmark extrinsic, an endowment for a block of them | 2400; a block has two seconds of weight, the genesis balance is 2^60 |

Two of these came out of failed attempts. With a `BlockHashCount` above 8192
`EraFromBestIsValid` is false: the period would exceed 4096 and `Era::mortal`
would round the phase, so that the era counts from a block before the best one.
And without `StartedAssumption` a stale node does author, in slots that two
durations share.

* **Channel.** `ChannelImplementsLedger` is `Spec => ImplementsLedger`. The
  inductive invariant `ChannelInv` says of each endorsed transaction that its
  outcome is what the function gives on the values it *saw*, and that a version
  read which is still current means the value seen is still current
  (`Faithful`); of the versions, that a key is absent exactly when its version
  is 0 and that no version is in the future (`VersionsArePast`); and that a
  transaction in the chain has been judged (`JudgedOnce`). It needs the lemma
  `RunLocal`: a function's outcome depends only on the keys in its read set.
  With that, a transaction without conflict has the outcome its function has on
  the current state (`OutcomeIsCurrent`), which is the ledger's step. The
  version of an absent key is the subtle part: it is reused, so the invariant
  ties it to the *value*, not to a point in history.
  `LedgerKeepsItsPromises` proves the three promises on the ledger. They
  become inductive with two more facts: the recorded owner is the last one set
  (`OwnerIsLastSet`), and an ID that is absent has no creation without a later
  deletion (`AbsentWasDeleted`). `ChannelKeepsLedgerPromises`,
  `NoSecondCreation` and `TransfersReturnTheOldOwner` carry them to the channel
  by the refinement.
* **Authoring.** `ProposalsAlwaysExecute` and `TimestampsStayNearClock`: the
  timestamp of every block lies in its slot and a proposal's slot is that of the
  time it noted. Then a parent in an earlier slot is stamped before the slot
  begins, and half a slot after that is still before its end
  (`PushStaysInSlot`). `ChainsHaveOneBlockPerSlot`: a block has a later slot
  than its parent (`SlotsAscend`). An ancestor is given by a path; if the claim
  failed somewhere on it there would be a least such place (`Least`), and its
  neighbour contradicts it. This takes the place of an induction over the path.
* **Changes of the slot duration.** `DurationInv` says that every block's slot
  is that of its timestamp by the duration of the runtime that executed it, and
  that its author was started with that duration. `OnlyCurrent` is the step:
  a node with a longer duration counts slots behind those of any timestamp
  that the runtime takes; one with a shorter duration is two slots ahead
  (`Apart`), while a timestamp can be pushed by half a slot only.
  `ChangesStallTheChain` is then arithmetic (`InProportion`).
* **Pallet.** `ValueIsAccountedFor` and `ChangesAreAlwaysSigned` are inductive
  together with the types; the count of increments needs the finiteness of the
  log. `EventsAreOfThisBlock`: the stores of a block are numbered by their order
  in the log and an event sits at the number of its store (`EventsByStores`),
  which a new store or a failed call evidently preserves; the property's own
  filtered sequence would need induction.
* **Runtime.** `RuntimeInv` has six parts. `RuntimeType` includes that a removed
  account has neither balance nor nonce (`Clean`). `NoncesUsed`: each applied
  extrinsic of an account's present life has a nonce below the account's, which
  with `Once` gives `NoReplayWithinALife`; every write to a balance, dispatch
  and refund is shown to keep nonces unless it removes the account (`Follows`).
  `InEra` gives `ErasAreRespected`: the birth block computed at dispatch is less
  than a period back (`BirthBounds`) and `CheckEra` has compared its hash.
  `Limits`: once the block's weight is exceeded operational extrinsics are
  within their reserve, and this is what makes `BlocksAreNotOverfull`
  inductive; and until the first operational extrinsic the block is no longer
  than the normal class may make it, which with the reserve gives
  `OperationalAlwaysGetsIn`. `Balanced`: the balances are counted as a finite set of units, one
  pair of account and number for each, so that `IssuanceIsAccounted` needs no
  recursion over accounts. The lemmas follow the *gap* between issuance and
  units through each operation: writing a balance opens it by the difference,
  and a transfer, fee, refund or removal closes what it has opened.
  `OthersAreSafe` is an action property, from the same lemmas.
* **Benchmarks.** `BenchmarksFailOnlyOnUsedChain`. `BenchInv` adds to
  `RuntimeInv` what is true of Bob where the command found all it assumes
  (`Ready`): after `n` extrinsics his nonce is `n`, the block has the weight of
  `n` and he has paid for at most `n` (`Filling`). As the block has room for
  only so many, the endowment lasts (`Affordable`), and the first one fits
  (`FirstFits`). A parent stamped in the first half of its slot leaves room for
  the timestamp (`InherentInFirstHalf`). On genesis Bob is as endowed until the
  command starts and the time is zero, so all of it is found.
  `HistoryLastsThePeriod` is arithmetic of eras: two multiples of the period
  that are closer than the period are equal (`SameMultiple`).
* **Node service.** `Builds(s, T, N)` says of a sequence of steps that it spawns
  exactly the tasks `T`, in steps with names in `N`, and it
  composes (`BuildsOneAfterTheOther`); `StepsBuild` applies it to the
  construction of every command and configuration. `ServiceInv` then ties tasks
  to steps: a task has been spawned if and only if its step is done. As the
  start of the network is the last step, once it is done everything has been
  spawned and no step is left to fail (`StartedLast`): `TheNetworkStartsLast`.

Only model-checked: the liveness properties (`EssentialFailureStops`,
`SubcommandsEnd`, `BenchmarkEnds`), since they rest on fairness and `ENABLED`,
which are out of the prover's reach; and the two violations. What recursive
definitions compute for every input could not be proved either, which is why
sums and paths are stated as sets and functions here.

## 5. Not modelled

* Relays, broker, asset locking: described, not implemented.
* `impl pallet_contracts::Config` (`runtime/src/lib.rs:256-287`): trait bounds
  where types belong; the pallet is not in the runtime.
* GRANDPA's protocol, networking, the transaction pool's own logic: libraries.
* Constants of `weights.rs`, the pallet's benchmarks, mock runtime and tests: no
  state beyond the dispatchables that `TemplatePallet` models.
* Runtime APIs that only read (metadata, session keys, fee queries), key
  derivation, install scripts: no state that a property could be about.
* Authoring: equivocation checks, and which extrinsics a proposal picks.
* What library commands do to the database (`revert`, `purge-chain`).

## 6. Plan

1. Done: the chaincode and its channel, authoring and changes of the slot
   duration, the pallet, the runtime pipeline, the benchmarks and the node
   service.
2. Done: proofs of all safety properties of the passing runs.
3. Left: what the liveness properties rest on as safety facts, among them that
   a reported failure is never withdrawn while a node runs, and that each
   extrinsic of a benchmark adds weight and a full block admits no more; that
   the benchmark's chain implements `Runtime`, so that all of the latter's
   theorems hold of it; shorter proofs where two lemmas say almost the same.
