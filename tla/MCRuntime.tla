------------------------------ MODULE MCRuntime ------------------------------
(* Instances of Runtime for TLC. *)
EXTENDS Runtime

CONSTANTS alice, bob, charlie, SignedNonces, SignedAt

Money(fn, dest, value) ==
  [fn |-> fn, dest |-> dest, value |-> value, class |-> "normal", weight |-> 0, length |-> 1]

Remark(class, weight, length) ==
  [fn |-> "remark", dest |-> alice, value |-> 0,
   class |-> class, weight |-> weight, length |-> length]

(* What wallets sign: immortally, mortally at some block, or for elsewhere. *)
Signed(signers, nonces, blocks, calls) ==
  {[signer |-> s, nonce |-> n, call |-> c, era |-> l[1], hash |-> l[2]] :
     s \in signers, n \in nonces, c \in calls,
     l \in {<<Immortal, 0>>, <<Immortal, Elsewhere>>} \cup {<<mortal(4, b), b>> : b \in blocks}}

BalanceCalls ==
  {Money("transfer_allow_death", d, v) : d \in {alice, bob, charlie}, v \in {3, 5}}
  \cup {Money("transfer_keep_alive", d, v) : d \in {bob, charlie}, v \in {1, 4}}
  \cup {[Money("force_set_balance", d, v) EXCEPT !.weight = 1] : d \in {alice, bob}, v \in {1, 7}}

MoneyExtrinsics == Signed(Accounts, SignedNonces, SignedAt, BalanceCalls)

(* Enough to empty bob's account, fill it again and replay. *)
EraExtrinsics ==
  Signed({bob}, SignedNonces, SignedAt, {Remark("normal", 0, 1), Money("transfer_allow_death", alice, 5)})
  \cup Signed({alice}, SignedNonces, {}, {Money("transfer_keep_alive", bob, 4)})

(* Six sizes of extrinsics and one account that can afford them. *)
LimitCalls ==
  {Remark(c, w, 1) : c \in Classes, w \in {0, 4, 8, 13}} \cup {Remark(c, 0, 4) : c \in Classes}

LimitExtrinsics == Signed({alice}, SignedNonces, SignedAt, LimitCalls)

==============================================================================
