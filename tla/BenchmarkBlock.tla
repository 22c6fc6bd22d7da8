---------------------------- MODULE BenchmarkBlock ----------------------------
(***************************************************************************)
(* `benchmark overhead` and `benchmark extrinsic`: node/src/benchmarking.rs *)
(* supplies Bob's extrinsics, with nonces from zero and an era from the    *)
(* best block, and a timestamp of zero; the command builds a block of them *)
(* on the best block, until it is full.  The database is the node's own,   *)
(* so the chain may have seen anything before: the runtime of module       *)
(* Runtime runs first, is stopped at some block, and judges the extrinsics. *)
(***************************************************************************)
EXTENDS Runtime, AuraTime

CONSTANTS
  Bob, Alice,      \* the keyring accounts
  RemarkWeight, TransferWeight,
  ParentTimes,     \* timestamps that a best block other than genesis may have
  MaxBefore        \* bound on the extrinsics applied before the benchmark

ASSUME BenchmarkAssumption ==
  /\ Bob \in Endowed /\ Alice \in Endowed
  /\ RemarkWeight \in Nat /\ TransferWeight \in Nat
  /\ SLOT_DURATION \in Nat /\ SLOT_DURATION >= 2
  /\ ParentTimes \subseteq Nat /\ MaxBefore \in Nat

(* What the runtime's parameters give the builders: hashes for a period    *)
(* that eras resolve to the block (from 8192 on they are coarser), blocks  *)
(* with room for one of their extrinsics, and an endowment that pays for a *)
(* block full of them.                                                     *)
ASSUME ParametersAssumption ==
  /\ BlockHashCount \in 2 .. 8192
  /\ RemarkWeight <= max_extrinsic("normal") /\ TransferWeight <= max_extrinsic("normal")
  /\ InherentLength + 1 <= max_length("normal")
  /\ ExistentialDeposit + max_total("normal") * (1 + LengthFee + ExistentialDeposit) <= Endowment

VARIABLE bench    \* the command: its builder, the next nonce, how far it is, and,
                  \* for the properties, what of Bob and of the time it found

benchVars == <<vars, bench>>

Builders == {"remark", "transfer_keep_alive"}

(* RemarkBuilder and TransferKeepAliveBuilder. *)
BuilderCall(builder) ==
  [fn |-> builder, dest |-> Alice, value |-> ExistentialDeposit, class |-> "normal",
   weight |-> IF builder = "remark" THEN RemarkWeight ELSE TransferWeight, length |-> 1]

best_block == number - 1

(* Slip: an era from the block being built. *)
create_benchmark_extrinsic_Ahead(builder, nonce) ==
  [signer |-> Bob, nonce |-> nonce, call |-> BuilderCall(builder),
   era |-> mortal(benchmark_period, number), hash |-> best_block]

create_benchmark_extrinsic(builder, nonce) ==
  [signer |-> Bob, nonce |-> nonce, call |-> BuilderCall(builder),
   era |-> mortal(benchmark_period, best_block), hash |-> best_block]

(* Slip: the timestamp is that of the clock. *)
inherent_benchmark_data_Now == 600 * slot_duration

inherent_benchmark_data == 0

(* The inherent passes the runtime.  The block has no digest, so that the  *)
(* current slot is still the parent's.                                     *)
InherentApplies(parentTime) ==
  LET parent == [time |-> parentTime] IN
    SetTimestamp(parent, SlotOf(parentTime), CreateInherent(parent, inherent_benchmark_data))

------------------------------------------------------------------------------
BenchmarkInit ==
  /\ Init
  /\ bench = [state |-> "idle", builder |-> "remark", next |-> 0,
              found |-> [nonce |-> 0, free |-> Endowment, time |-> 0]]

(* The node runs. *)
ChainRuns ==
  /\ bench.state = "idle"
  /\ \/ Len(applied) < MaxBefore /\ \E e \in Extrinsics : Apply(e)
     \/ NextBlock
  /\ UNCHANGED bench

(* The node is stopped between two blocks and the command started: a block *)
(* is begun on the best one.                                               *)
Start(builder) ==
  /\ bench.state = "idle"
  /\ used = EmptyBlock
  /\ \E time \in IF best_block = 0 THEN {0} ELSE ParentTimes :
       bench' = [state |-> IF InherentApplies(time) THEN "building" ELSE "failed",
                 builder |-> builder, next |-> 0,
                 found |-> [nonce |-> storage.nonce[Bob], free |-> storage.free[Bob],
                            time |-> time]]
  /\ UNCHANGED vars

NextExtrinsic == create_benchmark_extrinsic(bench.builder, bench.next)

Push ==
  /\ bench.state = "building"
  /\ Apply(NextExtrinsic)
  /\ bench' = [bench EXCEPT !.next = @ + 1]

(* The block is full, which is how the loop ends; an empty block is no use. *)
Full ==
  /\ bench.state = "building"
  /\ Verdict(NextExtrinsic) = "ExhaustsResources"
  /\ bench' = [bench EXCEPT !.state = IF bench.next = 0 THEN "failed" ELSE "built"]
  /\ UNCHANGED vars

(* Any other error ends the command. *)
Fail ==
  /\ bench.state = "building"
  /\ Verdict(NextExtrinsic) \notin {"Valid", "ExhaustsResources"}
  /\ bench' = [bench EXCEPT !.state = "failed"]
  /\ UNCHANGED vars

BenchmarkNext ==
  \/ ChainRuns
  \/ \E builder \in Builders : Start(builder)
  \/ Push
  \/ Full
  \/ Fail

(* The loop is straight-line code. *)
BenchmarkSpec ==
  BenchmarkInit /\ [][BenchmarkNext]_benchVars /\ WF_benchVars(Push \/ Full \/ Fail)

------------------------------------------------------------------------------
(* Properties. *)

(* What the command assumes of the database and never asks: that Bob has   *)
(* signed nothing yet and has what he was endowed with, and that half a    *)
(* slot after the parent's timestamp is still in the parent's slot.        *)
Ready(found) ==
  /\ found.nonce = 0
  /\ found.free >= Endowment
  /\ found.time % slot_duration < MinimumPeriod

(* A benchmark fails for one of these three reasons or not at all: where   *)
(* they hold the block is filled to the last extrinsic, never with one     *)
(* that Bob cannot pay for or whose nonce or era has gone wrong, however   *)
(* long the chain; and they always hold on a chain with no block yet.      *)
FailsOnlyOnUsedChain == bench.state = "failed" => best_block > 0 /\ ~Ready(bench.found)

(* The block is never refused for the era of its extrinsics, however long  *)
(* the chain, which recent hashes it still has and wherever it stopped.    *)
EraFromBestIsValid == \A b \in Builders : CheckEra(create_benchmark_extrinsic(b, 0))

(* The period is one the runtime remembers hashes for: an extrinsic signed *)
(* at some block stays valid, as far as its era goes, for exactly the      *)
(* period's blocks that follow.                                            *)
PeriodWithinHistory ==
  \A b \in 0 .. best_block :
    LET era == mortal(benchmark_period, b)
        valid == birth(era, number) = b /\ b \in KnownHashes(number)
    IN  valid <=> number < b + era.period

(* The loop ends: each extrinsic weighs something, so the block fills up.  *)
BenchmarkEnds == (bench.state = "building") ~> (bench.state \in {"built", "failed"})

==============================================================================
