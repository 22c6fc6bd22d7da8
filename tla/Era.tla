--------------------------------- MODULE Era ---------------------------------
(***************************************************************************)
(* sp_runtime::generic::Era, the life span written into an extrinsic, as   *)
(* node/src/benchmarking.rs and CheckEra of the runtime's SignedExtra use  *)
(* it.  A mortal era is a period, a power of two, and a phase within it;   *)
(* which block it was born at is worked out anew from the number of the    *)
(* block at hand, so an era on its own outlives its period and is reborn:  *)
(* what ends its life is the birth block's hash, which is signed over.     *)
(***************************************************************************)
EXTENDS Integers

CONSTANT BlockHashCount     \* runtime/src/lib.rs: block hashes kept in the state

ASSUME BlockHashCountAssumption == BlockHashCount \in 1 .. 65536

Larger(m, n) == IF m < n THEN n ELSE m
Smaller(m, n) == IF m < n THEN m ELSE n

(* Up to 2^16, the longest period there is. *)
PowersOfTwo == {1, 2, 4, 8, 16, 32, 64, 128, 256, 512, 1024, 2048, 4096, 8192, 16384, 32768, 65536}

(* For n in 1 .. 65536. *)
next_power_of_two(n) == CHOOSE p \in PowersOfTwo : p >= n /\ p < 2 * n

Immortal == [period |-> 0, phase |-> 0]

Eras == {Immortal} \cup [period : Nat \ {0}, phase : Nat]

(* Era::mortal: the phase is coarser for periods beyond 4096. *)
mortal(period, current) ==
  LET p == Smaller(Larger(next_power_of_two(period), 4), 65536)
      quantize == Larger(p \div 4096, 1)
  IN  [period |-> p, phase |-> ((current % p) \div quantize) * quantize]

(* Era::birth: the block an era counts from, seen from block `current`. *)
birth(era, current) ==
  IF era = Immortal THEN 0
  ELSE ((Larger(current, era.phase) - era.phase) \div era.period) * era.period + era.phase

(* Slip: BlockHashCount rounded up, without halving. *)
benchmark_period_Whole == next_power_of_two(BlockHashCount)

(* create_benchmark_extrinsic's period: half of BlockHashCount rounded up. *)
benchmark_period == next_power_of_two(BlockHashCount) \div 2

(* The block numbers whose hashes block `number` finds in the state: the   *)
(* last ones and genesis.                                                  *)
KnownHashes(number) == {0} \cup {b \in 1 .. number - 1 : b + BlockHashCount + 1 >= number}

==============================================================================
