------------------------------- MODULE Runtime -------------------------------
(***************************************************************************)
(* The pipeline every signed extrinsic goes through: the SignedExtra tuple *)
(* of runtime/src/lib.rs (signature over genesis, versions and era; nonce, *)
(* weight, fee), the dispatch of the call, and the balances it moves, with *)
(* the pallets configured as that file configures them: an existential     *)
(* deposit below which an account is removed together with its nonce, and  *)
(* fees and dust that nobody receives.                                     *)
(*                                                                         *)
(* Extrinsics are signed by anyone at any time, so every well-formed one   *)
(* may arrive, any number of times; blocks are only built, on one chain.   *)
(***************************************************************************)
EXTENDS Era, BlockLimits, Sequences, FiniteSets

CONSTANTS
  Accounts,
  Endowed, Endowment,   \* testnet_genesis: accounts with a balance, and which
  Sudo,                 \* the account holding the sudo key
  ExistentialDeposit,
  LengthFee,            \* the fee for an extrinsic's length
  Extrinsics,           \* the extrinsics that get signed
  Elsewhere,            \* a signature over another fork, genesis or version
  MaxBlock, MaxApplied  \* bounds: last block, applied extrinsics

Transfers == {"transfer_allow_death", "transfer_keep_alive"}

(* force_set_balance is wrapped in sudo; remark stands for every call that *)
(* leaves balances alone, whether it succeeds or fails.                    *)
Call == [fn : Transfers \cup {"force_set_balance", "remark"},
         dest : Accounts, value : Nat, class : Classes, weight : Nat, length : Nat]

(* The hash is that of the block, by its number, that was signed over. *)
Extrinsic == [signer : Accounts, nonce : Nat, call : Call, era : Eras,
              hash : Nat \cup {Elsewhere}]

ASSUME RuntimeAssumption ==
  /\ Endowed \subseteq Accounts /\ IsFiniteSet(Endowed) /\ Sudo \in Accounts
  /\ ExistentialDeposit \in Nat \ {0}
  /\ Endowment \in Nat /\ Endowment >= ExistentialDeposit
  /\ LengthFee \in Nat
  /\ Extrinsics \subseteq Extrinsic
  /\ MaxBlock \in Nat \ {0} /\ MaxApplied \in Nat
  /\ Elsewhere \notin Nat

VARIABLES
  storage,   \* free balances, nonces, total issuance; and how often each
             \* account has been removed, for the properties only
  number,    \* the block being built
  used,      \* what its extrinsics weigh, by class
  applied    \* every extrinsic applied so far, for the properties only

vars == <<storage, number, used, applied>>

------------------------------------------------------------------------------
(* IdentityFee for weight and length, with FeeMultiplier one and no tip. *)
Fee(call) == BaseExtrinsic + call.weight + LengthFee

------------------------------------------------------------------------------
(* Balances. *)

Alive(s, a) == s.free[a] >= ExistentialDeposit

(* An account's balance is changed: below the existential deposit it is    *)
(* removed, with its nonce, and what is left is burnt (DustRemoval = ()).  *)
SetFree(s, a, balance) ==
  IF balance >= ExistentialDeposit THEN [s EXCEPT !.free[a] = balance]
  ELSE [s EXCEPT !.free[a] = 0, !.issuance = @ - balance,
                 !.nonce[a] = 0, !.removed[a] = @ + (IF Alive(s, a) THEN 1 ELSE 0)]

Transferable(s, from, call) ==
  LET left == s.free[from] - call.value IN
    \/ call.value = 0
    \/ /\ left >= 0
       /\ call.fn = "transfer_keep_alive" => left >= ExistentialDeposit
       /\ s.free[call.dest] + call.value >= ExistentialDeposit

(* Slip: the receiver's balance is worked out before the sender's is written. *)
TransferReadEarly(s, from, call) ==
  IF ~Transferable(s, from, call) THEN s
  ELSE LET paid == SetFree(s, from, s.free[from] - call.value)
       IN  SetFree(paid, call.dest, s.free[call.dest] + call.value)

(* A transfer to oneself is checked and then left alone. *)
Transfer(s, from, call) ==
  IF from = call.dest \/ ~Transferable(s, from, call) THEN s
  ELSE LET paid == SetFree(s, from, s.free[from] - call.value)
       IN  SetFree(paid, call.dest, paid.free[call.dest] + call.value)

(* force_set_balance: issuance follows. *)
ForceSetBalance(s, call) ==
  LET new == IF call.value < ExistentialDeposit THEN 0 ELSE call.value
  IN  [SetFree(s, call.dest, new) EXCEPT !.issuance = s.issuance + new - s.free[call.dest]]

(* CurrencyAdapter's withdrawal: the signer has to stay alive. *)
CanPay(s, a, fee) == s.free[a] - fee >= ExistentialDeposit

Charge(s, a, fee) == [s EXCEPT !.free[a] = @ - fee, !.issuance = @ - fee]

(* Slip: the signer is credited although its account may be gone. *)
RefundAlways(s, a, fee) == [s EXCEPT !.free[a] = @ + fee, !.issuance = @ + fee]

(* deposit_into_existing: no refund to an account that is gone. *)
Refund(s, a, fee) ==
  IF Alive(s, a) THEN [s EXCEPT !.free[a] = @ + fee, !.issuance = @ + fee] ELSE s

------------------------------------------------------------------------------
(* The signed extensions, in the order of SignedExtra. *)

(* Slip: the era alone decides. *)
CheckEraUnsigned(e) == birth(e.era, number) \in KnownHashes(number)

(* The signature is over the hash of the era's birth block on this chain. *)
CheckEra(e) ==
  LET b == birth(e.era, number) IN b \in KnownHashes(number) /\ e.hash = b

CheckWeight(e) == Fits(used, e.call.class, e.call.weight, e.call.length)

(* apply_extrinsic's verdict before the call is dispatched. *)
Verdict(e) ==
  IF ~CheckEra(e) THEN "BadProof"
  ELSE IF ~Alive(storage, e.signer) THEN "Payment"
  ELSE IF e.nonce < storage.nonce[e.signer] THEN "Stale"
  ELSE IF e.nonce > storage.nonce[e.signer] THEN "Future"
  ELSE IF ~CheckWeight(e) THEN "ExhaustsResources"
  ELSE IF ~CanPay(storage, e.signer, Fee(e.call)) THEN "Payment"
  ELSE "Valid"

(* Slip: root is not asked for. *)
DispatchAnyOrigin(s, e) ==
  CASE e.call.fn \in Transfers -> Transfer(s, e.signer, e.call)
    [] e.call.fn = "force_set_balance" ->
         Refund(ForceSetBalance(s, e.call), e.signer, Fee(e.call))
    [] OTHER -> s

(* The call; a dispatch that fails leaves the storage as it was. *)
Dispatch(s, e) ==
  CASE e.call.fn \in Transfers -> Transfer(s, e.signer, e.call)
    [] e.call.fn = "force_set_balance" /\ e.signer = Sudo ->
         Refund(ForceSetBalance(s, e.call), e.signer, Fee(e.call))    \* Pays::No
    [] OTHER -> s

(* Slip: the nonce is not used up by a call that fails. *)
PreDispatchKeepingNonce(e) ==
  LET charged == Charge(storage, e.signer, Fee(e.call)) IN
    IF Dispatch(charged, e) = charged THEN charged ELSE [charged EXCEPT !.nonce[e.signer] = @ + 1]

(* The nonce goes up and the fee is paid whatever becomes of the call. *)
PreDispatch(e) ==
  [Charge(storage, e.signer, Fee(e.call)) EXCEPT !.nonce[e.signer] = @ + 1]

------------------------------------------------------------------------------
Init ==
  /\ storage = [free |-> [a \in Accounts |-> IF a \in Endowed THEN Endowment ELSE 0],
                nonce |-> [a \in Accounts |-> 0],
                removed |-> [a \in Accounts |-> 0],
                issuance |-> Cardinality(Endowed) * Endowment]
  /\ number = 1
  /\ used = EmptyBlock
  /\ applied = <<>>

Apply(e) ==
  /\ Len(applied) < MaxApplied
  /\ Verdict(e) = "Valid"
  /\ storage' = Dispatch(PreDispatch(e), e)
  /\ used' = Accrued(used, e.call.class, e.call.weight, e.call.length)
  /\ applied' = Append(applied, [signer |-> e.signer, nonce |-> e.nonce, era |-> e.era,
                                 hash |-> e.hash, at |-> number,
                                 life |-> storage.removed[e.signer]])
  /\ UNCHANGED number

(* The block builder rolls back what the extensions have done so far. *)
Refuse(e) ==
  /\ Verdict(e) # "Valid"
  /\ UNCHANGED vars

(* The block is finalized and the next one initialized. *)
NextBlock ==
  /\ number < MaxBlock
  /\ number' = number + 1
  /\ used' = EmptyBlock
  /\ UNCHANGED <<storage, applied>>

Next ==
  \/ \E e \in Extrinsics : Apply(e)
  \/ \E e \in Extrinsics : Refuse(e)
  \/ NextBlock

Spec == Init /\ [][Next]_vars

------------------------------------------------------------------------------
(* Properties. *)

Balances == [Accounts -> Nat]

(* Types; and a balance is either none or at least the existential deposit, *)
(* whichever way accounts are emptied, and nobody without one has a nonce.  *)
TypeOK ==
  /\ storage \in [free : Balances, nonce : Balances, removed : Balances, issuance : Int]
  /\ \A a \in Accounts : ~Alive(storage, a) => storage.free[a] = 0 /\ storage.nonce[a] = 0
  /\ number \in 1 .. MaxBlock
  /\ used \in [normal : Nat, operational : Nat, mandatory : Nat, length : Nat]
  /\ Len(applied) <= MaxApplied

(* Every unit of the currency, by its holder. *)
Units(free) == UNION {{a} \X (1 .. free[a]) : a \in Accounts}

(* The total issuance is what the accounts hold: through fees, refunds,    *)
(* dust, removed accounts and balances set by sudo nothing is created or   *)
(* lost on the way.                                                        *)
IssuanceAccounted == storage.issuance = Cardinality(Units(storage.free))

(* An extrinsic is not applied twice, nor another one with its nonce,      *)
(* unless its signer's account was removed in between: removal resets the  *)
(* nonce.                                                                  *)
OncePerLife ==
  \A i, j \in DOMAIN applied :
    (i < j /\ applied[i].signer = applied[j].signer /\ applied[i].nonce = applied[j].nonce)
      => applied[i].life < applied[j].life

(* A mortal extrinsic is applied in the blocks of its period that follow   *)
(* the one it was signed over and in no later one, although eras recur;    *)
(* this bounds what OncePerLife leaves open.                               *)
EraRespected ==
  \A i \in DOMAIN applied :
    LET x == applied[i] IN
      x.era # Immortal => x.hash < x.at /\ x.at < x.hash + x.era.period

(* Whatever comes in which order, normal extrinsics leave operational ones *)
(* their quarter and together they stay within the block's limit.          *)
BlockNotOverfull ==
  /\ used.normal <= max_total("normal")
  /\ used.normal + used.operational <= MaxBlockWeight

(* Normal extrinsics do not shut operational ones out: however many of     *)
(* them a block has taken and whatever its hooks and inherents weigh, its  *)
(* first operational one gets in, if weight and length stay within what    *)
(* the normal dispatch ratio leaves of the block.                          *)
OperationalGetsIn ==
  used.operational = 0 =>
    \A w \in 0 .. reserved("operational") - BaseExtrinsic :
      \A l \in 0 .. MaxBlockLength - max_length("normal") : Fits(used, "operational", w, l)

(* Nobody but the sudo key takes from an account without its signature, or *)
(* raises the issuance.                                                    *)
OnlySudoTouchesOthers ==
  [][LET signer == applied'[Len(applied')].signer IN
       /\ \A a \in Accounts : storage'.free[a] < storage.free[a] => signer \in {a, Sudo}
       /\ storage'.issuance > storage.issuance => signer = Sudo]_vars

==============================================================================
