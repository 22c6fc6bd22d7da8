----------------------------- MODULE BlockLimits -----------------------------
(***************************************************************************)
(* How much fits into a block: BlockWeights with_sensible_defaults and     *)
(* BlockLength max_with_normal_ratio as runtime/src/lib.rs sets them up,   *)
(* and what CheckWeight makes of them.  A block keeps what its extrinsics  *)
(* weigh by class; mandatory work (hooks, inherents) is never refused.     *)
(* Weight is its ref_time: the proof size has no limit here.               *)
(***************************************************************************)
EXTENDS Integers

CONSTANTS
  MaxBlockWeight,   \* two seconds of compute in runtime/src/lib.rs
  MaxBlockLength,   \* five megabytes there
  BaseExtrinsic,    \* ExtrinsicBaseWeight
  Initialization,   \* what hooks and inherents weigh in every block
  InherentLength    \* the length of every block's inherents

Classes == {"normal", "operational"}

(* NORMAL_DISPATCH_RATIO *)
NormalShare(whole) == (whole * 3) \div 4

ASSUME BlockLimitsAssumption ==
  /\ MaxBlockWeight \in Nat /\ MaxBlockLength \in Nat
  /\ BaseExtrinsic \in Nat \ {0} /\ Initialization \in Nat /\ InherentLength \in Nat
  /\ Initialization <= MaxBlockWeight \div 10
  /\ InherentLength <= NormalShare(MaxBlockLength)

max_total(class) == IF class = "normal" THEN NormalShare(MaxBlockWeight) ELSE MaxBlockWeight

reserved(class) == IF class = "normal" THEN 0 ELSE MaxBlockWeight - NormalShare(MaxBlockWeight)

max_length(class) == IF class = "normal" THEN NormalShare(MaxBlockLength) ELSE MaxBlockLength

(* The heaviest extrinsic of the class; a tenth is left to initialization. *)
max_extrinsic(class) == max_total(class) - MaxBlockWeight \div 10 - BaseExtrinsic

(* A block before its first signed extrinsic: the inherents are in it. *)
EmptyBlock ==
  [normal |-> 0, operational |-> 0, mandatory |-> Initialization, length |-> InherentLength]

Total(used) == used.normal + used.operational + used.mandatory

(* Slip: the counters are not written back. *)
AccruedNowhere(used, class, weight, length) == used

Accrued(used, class, weight, length) ==
  [used EXCEPT ![class] = @ + weight + BaseExtrinsic, !.length = @ + length]

(* Slip: the reserve is open to every extrinsic of its class. *)
FitsLoose(used, class, weight, length) ==
  LET after == Accrued(used, class, weight, length) IN
    /\ after[class] <= max_total(class)
    /\ Total(after) > MaxBlockWeight => reserved(class) > 0
    /\ after.length <= max_length(class)
    /\ weight <= max_extrinsic(class)

(* Slip: nothing is reserved beyond the block's limit. *)
FitsUnreserved(used, class, weight, length) ==
  LET after == Accrued(used, class, weight, length) IN
    /\ after[class] <= max_total(class)
    /\ Total(after) <= MaxBlockWeight
    /\ after.length <= max_length(class)
    /\ weight <= max_extrinsic(class)

(* CheckWeight: a class has its own limit; beyond the block's limit it has *)
(* what is reserved for it.                                                *)
Fits(used, class, weight, length) ==
  LET after == Accrued(used, class, weight, length) IN
    /\ after[class] <= max_total(class)
    /\ Total(after) > MaxBlockWeight => after[class] <= reserved(class)
    /\ after.length <= max_length(class)
    /\ weight <= max_extrinsic(class)

==============================================================================
