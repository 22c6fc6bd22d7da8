---------------------------- MODULE TemplatePallet ----------------------------
(***************************************************************************)
(* The template pallet in the node's runtime: its storage item and its two *)
(* dispatchables (pallets/template/src/lib.rs), called by signed           *)
(* extrinsics or through the sudo pallet, block after block.               *)
(*                                                                         *)
(* What the pallet does with an origin, what it writes and which events it *)
(* deposits is translated from the pallet; blocks, the roll-back of a      *)
(* failed dispatch and the sudo pallet are modelled as far as the runtime  *)
(* (runtime/src/lib.rs) puts them around the pallet.                       *)
(***************************************************************************)
EXTENDS Naturals, Sequences, FiniteSets

CONSTANTS
  Accounts,       \* account identifiers
  MaxU32,         \* u32::MAX
  None,           \* the storage value is not set, or there is no sudo key
  InitialKey,     \* the sudo key of the genesis configuration
  MaxBlock,       \* bound on the number of blocks
  MaxDispatches   \* bound on the dispatches into the pallet

ASSUME PalletAssumption ==
  /\ MaxU32 \in Nat
  /\ None \notin Nat /\ None \notin Accounts
  /\ InitialKey \in Accounts
  /\ MaxBlock \in Nat /\ MaxDispatches \in Nat

VARIABLES
  something,  \* Something<T>: Option<u32>
  events,     \* the pallet's events of the current block, in order
  number,     \* the current block, 0 for genesis
  open,       \* the block takes extrinsics (initialised, not finalised)
  key,        \* the sudo key
  log         \* the dispatches into the pallet so far, for the properties only

vars == <<something, events, number, open, key, log>>

u32 == 0 .. MaxU32

------------------------------------------------------------------------------
(* Origins, calls and results. *)

Signed(a) == [kind |-> "Signed", who |-> a]
Root      == [kind |-> "Root"]

(* The fields of the event SomethingStored. *)
SomethingStored == [something : u32, who : Accounts]

Calls == [fn : {"do_something"}, something : u32] \cup [fn : {"cause_error"}]

Ok(value, deposited) == [result |-> "Ok", something |-> value, events |-> deposited]

(* An error: with_storage_layer undoes what the call has written. *)
Err(error) == [result |-> error, something |-> something, events |-> <<>>]

do_something(origin, value) ==
  IF origin.kind # "Signed" THEN Err("BadOrigin")
  ELSE Ok(value, <<[something |-> value, who |-> origin.who]>>)

(* Slip: ensure_signed is left out. *)
cause_error_AnyOrigin(origin) ==
  IF something = None THEN Err("NoneValue")
  ELSE IF something + 1 > MaxU32 THEN Err("StorageOverflow")
  ELSE Ok(something + 1, <<>>)

(* Slip: wrapping_add in place of checked_add. *)
cause_error_Wrapping(origin) ==
  IF origin.kind # "Signed" THEN Err("BadOrigin")
  ELSE IF something = None THEN Err("NoneValue")
  ELSE Ok((something + 1) % (MaxU32 + 1), <<>>)

(* Slip: no overflow check at all, and a type that is wide enough. *)
cause_error_Unchecked(origin) ==
  IF origin.kind # "Signed" THEN Err("BadOrigin")
  ELSE IF something = None THEN Err("NoneValue")
  ELSE Ok(something + 1, <<>>)

(* Increments the value, and deposits no event. *)
cause_error(origin) ==
  IF origin.kind # "Signed" THEN Err("BadOrigin")
  ELSE IF something = None THEN Err("NoneValue")
  ELSE IF something + 1 > MaxU32 THEN Err("StorageOverflow")
  ELSE Ok(something + 1, <<>>)

Dispatched(call, origin) ==
  IF call.fn = "do_something" THEN do_something(origin, call.something)
  ELSE cause_error(origin)

(* The call is dispatched in an extrinsic of `signer`. *)
Dispatch(call, origin, signer) ==
  /\ open
  /\ Len(log) < MaxDispatches
  /\ LET r == Dispatched(call, origin) IN
       /\ something' = r.something
       /\ events' = events \o r.events
       /\ log' = Append(log, [call |-> call, origin |-> origin, signer |-> signer,
                              result |-> r.result, block |-> number, key |-> key])
  /\ UNCHANGED <<number, open, key>>

------------------------------------------------------------------------------
(* Blocks. *)

(* Slip: the events of the block before are not reset. *)
InitializeBlockKeeping ==
  /\ ~open
  /\ number < MaxBlock
  /\ open' = TRUE
  /\ number' = number + 1
  /\ UNCHANGED <<something, events, key, log>>

InitializeBlock ==
  /\ ~open
  /\ number < MaxBlock
  /\ open' = TRUE
  /\ number' = number + 1
  /\ events' = <<>>
  /\ UNCHANGED <<something, key, log>>

FinalizeBlock ==
  /\ open
  /\ open' = FALSE
  /\ UNCHANGED <<something, events, number, key, log>>

(* Extrinsics: the pallet's calls, and those of the sudo pallet. *)

ApplySigned(a, call) == Dispatch(call, Signed(a), a)

(* sudo and sudo_as require the signer to be the key; the extrinsic then   *)
(* succeeds whether or not the inner call does.                            *)
ApplySudo(a, call) == a = key /\ Dispatch(call, Root, a)

ApplySudoAs(a, who, call) == a = key /\ Dispatch(call, Signed(who), a)

SetKey(a, new) ==
  /\ open
  /\ a = key
  /\ key' = new
  /\ UNCHANGED <<something, events, number, open, log>>

(* Genesis sets the sudo key and no value; nothing is applied in block 0. *)
Init ==
  /\ something = None
  /\ events = <<>>
  /\ number = 0
  /\ open = FALSE
  /\ key = InitialKey
  /\ log = <<>>

Next ==
  \/ InitializeBlock
  \/ FinalizeBlock
  \/ \E a \in Accounts :
       \/ \E call \in Calls :
            \/ ApplySigned(a, call)
            \/ ApplySudo(a, call)
            \/ \E who \in Accounts : ApplySudoAs(a, who, call)
       \/ \E new \in Accounts \cup {None} : SetKey(a, new)

Spec == Init /\ [][Next]_vars

------------------------------------------------------------------------------
(* Properties. *)

Origin == [kind : {"Signed"}, who : Accounts] \cup {Root}

Result == {"Ok", "BadOrigin", "NoneValue", "StorageOverflow"}

Entry == [call : Calls, origin : Origin, signer : Accounts, result : Result, block : Nat,
          key : Accounts \cup {None}]

(* Types; in particular the value stays within u32. *)
TypeOK ==
  /\ something \in u32 \cup {None}
  /\ \A i \in DOMAIN events : events[i] \in SomethingStored
  /\ number \in Nat
  /\ open \in BOOLEAN
  /\ key \in Accounts \cup {None}
  /\ \A i \in DOMAIN log : log[i] \in Entry /\ log[i].block \in 1 .. number

Succeeded(i) == log[i].result = "Ok"
Stored(i) == Succeeded(i) /\ log[i].call.fn = "do_something"
Bumped(i) == Succeeded(i) /\ log[i].call.fn = "cause_error"

(* The bumps after the i-th dispatch. *)
BumpsSince(i) == {j \in DOMAIN log : i < j /\ Bumped(j)}

(* The value is what the last successful do_something stored, plus one for *)
(* each successful cause_error since: nothing else writes it, no failed    *)
(* call leaves a trace, and no increment wraps or saturates.               *)
ValueAccountedFor ==
  IF something = None
  THEN \A i \in DOMAIN log : ~Succeeded(i)
  ELSE \E i \in DOMAIN log :
         /\ Stored(i)
         /\ \A j \in DOMAIN log : i < j => ~Stored(j)
         /\ something = log[i].call.something + Cardinality(BumpsSince(i))

(* The events that an observer finds in a block are exactly those of the   *)
(* successful do_something calls of that block, in order.                  *)
EventsOfThisBlock ==
  LET stores == {i \in DOMAIN log : Stored(i) /\ log[i].block = number} IN
    /\ Len(events) = Cardinality(stores)
    /\ \A i \in stores :
         events[Cardinality({j \in stores : j <= i})]
           = [something |-> log[i].call.something, who |-> log[i].origin.who]

(* A value changes only in the name of an account that signed the          *)
(* extrinsic itself, or that the holder of the sudo key named; root, and   *)
(* with it plain sudo, cannot change it.                                   *)
ChangesAreSigned ==
  \A i \in DOMAIN log :
    Succeeded(i)
      => /\ log[i].origin.kind = "Signed"
         /\ log[i].origin.who = log[i].signer \/ log[i].signer = log[i].key

==============================================================================
