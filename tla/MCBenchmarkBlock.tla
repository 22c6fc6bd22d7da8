--------------------------- MODULE MCBenchmarkBlock ---------------------------
(* Instances of BenchmarkBlock for TLC. *)
EXTENDS BenchmarkBlock

CONSTANTS alice, bob

Used(fn, dest, value) ==
  [fn |-> fn, dest |-> dest, value |-> value, class |-> "normal", weight |-> 0, length |-> 1]

(* What the chain may have seen: Bob's extrinsics, and his balance reduced *)
(* or removed by sudo.                                                     *)
MCExtrinsics ==
  {[signer |-> bob, nonce |-> n, call |-> Used(fn, alice, 197), era |-> Immortal, hash |-> 0] :
     n \in {0, 1}, fn \in {"remark", "transfer_allow_death"}}
  \cup {[signer |-> alice, nonce |-> n, call |-> Used("force_set_balance", bob, v),
         era |-> Immortal, hash |-> 0] : n \in {0, 1}, v \in {0, 3, 9}}

==============================================================================
