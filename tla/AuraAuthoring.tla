---------------------------- MODULE AuraAuthoring ----------------------------
(***************************************************************************)
(* Block authoring with Aura: how node/src/service.rs turns a node's clock *)
(* into a slot and a timestamp, what the runtime makes of them when it is  *)
(* configured as in runtime/src/lib.rs, and what other nodes check of the  *)
(* block on import.                                                        *)
(*                                                                         *)
(* Every node has a clock of its own, which may lag, run ahead and be set  *)
(* back.  A proposal starts from the chain head and the time read at the   *)
(* beginning of the slot, and is built some time later; in between blocks  *)
(* arrive and nodes restart.  The authority set does not change.           *)
(***************************************************************************)
EXTENDS AuraTime, Sequences

CONSTANTS
  Nodes,          \* the authorities' nodes
  Authorities,    \* the Aura authority list, a sequence over Nodes
  MaxDrift,       \* pallet_timestamp's MAX_TIMESTAMP_DRIFT_MILLIS
  MaxClock,       \* bound on the clocks
  MaxBlocks,      \* bound on the number of blocks
  NoJob           \* no proposal under way

ASSUME AuraAssumption ==
  /\ Authorities \in Seq(Nodes) /\ Authorities # <<>>
  /\ SLOT_DURATION \in Nat /\ SLOT_DURATION >= 2
  /\ MaxDrift \in Nat /\ MaxClock \in Nat /\ MaxBlocks \in Nat

VARIABLES
  clock,     \* node -> its system time
  blocks,    \* all blocks ever sealed; a block is known by its index
  known,     \* node -> the blocks it has imported, genesis (0) included
  best,      \* node -> the block it builds on
  lastSlot,  \* node -> the last slot its slot stream has yielded
  job        \* node -> the proposal it is working on

vars == <<clock, blocks, known, best, lastSlot, job>>

------------------------------------------------------------------------------
(* The chain. *)

AuthorOf(slot) == Authorities[(slot % Len(Authorities)) + 1]

Block == [parent : Nat, number : Nat, slot : Nat, time : Nat, author : Nodes,
          at : Nat]     \* at: the author's clock, for the properties only

(* What a child of block b finds in the state: CurrentSlot and Now. *)
StateOf(b) ==
  IF b = 0 THEN GenesisState
  ELSE [number |-> blocks[b].number, slot |-> blocks[b].slot, time |-> blocks[b].time]

------------------------------------------------------------------------------
Init ==
  /\ clock = [n \in Nodes |-> 0]
  /\ blocks = <<>>
  /\ known = [n \in Nodes |-> {0}]
  /\ best = [n \in Nodes |-> 0]
  /\ lastSlot = [n \in Nodes |-> 0]
  /\ job = [n \in Nodes |-> NoJob]

Tick(n) ==
  /\ clock[n] < MaxClock
  /\ clock' = [clock EXCEPT ![n] = @ + 1]
  /\ UNCHANGED <<blocks, known, best, lastSlot, job>>

SetBack(n) ==
  /\ \E c \in 0 .. MaxClock : c < clock[n] /\ clock' = [clock EXCEPT ![n] = c]
  /\ UNCHANGED <<blocks, known, best, lastSlot, job>>

(* Slip: the slot is that of the time rounded to the nearest slot. *)
InherentDataRounded(n) == [slot |-> SlotOf(clock[n] + MinimumPeriod), now |-> clock[n]]

(* The slot and the timestamp that the authoring closure reads off the clock. *)
InherentData(n) == [slot |-> SlotOf(clock[n]), now |-> clock[n]]

(* A new slot: the worker notes it and, if the slot is its own, reads the  *)
(* chain head and starts a proposal on it.                                 *)
NewSlot(n) ==
  LET data == InherentData(n) IN
    /\ job[n] = NoJob
    /\ data.slot > lastSlot[n]
    /\ lastSlot' = [lastSlot EXCEPT ![n] = data.slot]
    /\ job' = IF AuthorOf(data.slot) = n
              THEN [job EXCEPT ![n] = [parent |-> best[n], slot |-> data.slot, now |-> data.now]]
              ELSE job
    /\ UNCHANGED <<clock, blocks, known, best>>

(* The node is syncing, or has no peers and force_authoring is off: it     *)
(* lets its slot pass.                                                     *)
SkipSlot(n) ==
  /\ job[n] = NoJob
  /\ SlotOf(clock[n]) > lastSlot[n]
  /\ lastSlot' = [lastSlot EXCEPT ![n] = SlotOf(clock[n])]
  /\ UNCHANGED <<clock, blocks, known, best, job>>

(* Slip: a block becomes best before it is in the database. *)
AdoptForgets(n, b, number) ==
  /\ known' = known
  /\ best' = IF number > StateOf(best[n]).number THEN [best EXCEPT ![n] = b] ELSE best

(* LongestChain: a block becomes best if it is higher. *)
Adopt(n, b, number) ==
  /\ known' = [known EXCEPT ![n] = @ \cup {b}]
  /\ best' = IF number > StateOf(best[n]).number THEN [best EXCEPT ![n] = b] ELSE best

Propose(n) ==
  /\ job[n] # NoJob
  /\ Len(blocks) < MaxBlocks
  /\ LET j == job[n]
         parent == StateOf(j.parent)
         time == CreateInherent(parent, j.now) IN
       /\ Executes(parent, j.slot, time)
       /\ blocks' = Append(blocks, [parent |-> j.parent, number |-> parent.number + 1,
                                    slot |-> j.slot, time |-> time, author |-> n, at |-> j.now])
       /\ Adopt(n, Len(blocks) + 1, parent.number + 1)
  /\ job' = [job EXCEPT ![n] = NoJob]
  /\ UNCHANGED <<clock, lastSlot>>

(* An assertion of the runtime fails, so the proposal comes to nothing. *)
ProposeFails(n) ==
  /\ job[n] # NoJob
  /\ LET parent == StateOf(job[n].parent) IN
       ~Executes(parent, job[n].slot, CreateInherent(parent, job[n].now))
  /\ job' = [job EXCEPT ![n] = NoJob]
  /\ UNCHANGED <<clock, blocks, known, best, lastSlot>>

(* The proposal has taken longer than block_proposal_slot_portion allows. *)
Discard(n) ==
  /\ job[n] # NoJob
  /\ job' = [job EXCEPT ![n] = NoJob]
  /\ UNCHANGED <<clock, blocks, known, best, lastSlot>>

(* The header is not of a later slot than the next one, and the timestamp  *)
(* is not too far ahead of the importing node's clock.                     *)
ClockAllows(n, b) ==
  /\ blocks[b].slot <= SlotOf(clock[n]) + 1
  /\ blocks[b].time <= clock[n] + MaxDrift

Import(n, b) ==
  /\ b \notin known[n]
  /\ blocks[b].parent \in known[n]
  /\ blocks[b].author = AuthorOf(blocks[b].slot)
  /\ ClockAllows(n, b)
  /\ Executes(StateOf(blocks[b].parent), blocks[b].slot, blocks[b].time)
  /\ Adopt(n, b, blocks[b].number)
  /\ UNCHANGED <<clock, blocks, lastSlot, job>>

(* The database survives; the slot stream starts anew. *)
Restart(n) ==
  /\ job' = [job EXCEPT ![n] = NoJob]
  /\ lastSlot' = [lastSlot EXCEPT ![n] = 0]
  /\ UNCHANGED <<clock, blocks, known, best>>

Next == \E n \in Nodes :
          \/ Tick(n)
          \/ SetBack(n)
          \/ NewSlot(n)
          \/ SkipSlot(n)
          \/ Propose(n)
          \/ ProposeFails(n)
          \/ Discard(n)
          \/ \E b \in 1 .. Len(blocks) : Import(n, b)
          \/ Restart(n)

Spec == Init /\ [][Next]_vars

------------------------------------------------------------------------------
(* Properties. *)

Job == [parent : Nat, slot : Nat, now : Nat]

(* Types; every reference to a block is to one that exists. *)
TypeOK ==
  /\ clock \in [Nodes -> Nat]
  /\ \A i \in DOMAIN blocks : blocks[i] \in Block /\ blocks[i].parent < i
  /\ known \in [Nodes -> SUBSET (0 .. Len(blocks))]
  /\ \A n \in Nodes : best[n] \in known[n]
  /\ lastSlot \in [Nodes -> Nat]
  /\ \A n \in Nodes : job[n] # NoJob => job[n] \in Job /\ job[n].parent \in known[n]

(* a is an ancestor of b: a path of parents leads from b down to a. *)
Ancestor(a, b) ==
  \E path \in SUBSET (1 .. b) :
    /\ a \in path /\ b \in path /\ a # b
    /\ \A i \in path : i # a => blocks[i].parent \in path

(* A chain has at most one block per slot, so an authority that restarts   *)
(* within its slot, or whose clock is set back into it, does not add a     *)
(* second one (AllowMultipleBlocksPerSlot = false).                        *)
OneBlockPerSlotOnAChain ==
  \A a, b \in 1 .. Len(blocks) : Ancestor(a, b) => blocks[a].slot < blocks[b].slot

(* A proposal in a later slot than its parent's always passes the runtime: *)
(* pushing the timestamp MinimumPeriod past the parent's never pushes it   *)
(* out of the slot, although parent and proposal are from different clocks. *)
ProposalsExecute ==
  \A n \in Nodes :
    (job[n] # NoJob /\ job[n].slot > StateOf(job[n].parent).slot)
      => LET parent == StateOf(job[n].parent)
         IN  Executes(parent, job[n].slot, CreateInherent(parent, job[n].now))

(* Timestamps do not run away from the clocks: the author of a block       *)
(* itself had at most MinimumPeriod to go to its timestamp.                *)
TimestampsNearClock ==
  \A i \in DOMAIN blocks : blocks[i].time < blocks[i].at + MinimumPeriod

(* "Blocks will be produced at a minimum duration defined by SLOT_DURATION" *)
(* (runtime/src/lib.rs, MILLISECS_PER_BLOCK), said of the timestamps.       *)
SlotDurationApart ==
  \A i \in DOMAIN blocks :
    blocks[i].parent # 0 => blocks[i].time >= blocks[blocks[i].parent].time + SLOT_DURATION

==============================================================================
