------------------------- MODULE AuraAuthoringProofs -------------------------
(***************************************************************************)
(* Slots and timestamps, for any slot duration, any clocks, and any number *)
(* of nodes and blocks.                                                    *)
(***************************************************************************)
EXTENDS AuraAuthoring, WellFoundedInduction, TLAPS

(* Division, as slots use it. *)
LEMMA DivBounds ==
  ASSUME NEW t \in Nat, NEW d \in Nat, d > 0
  PROVE  /\ t \div d \in Nat
         /\ d * (t \div d) <= t
         /\ t < d * (t \div d) + d
  OBVIOUS

(* The quotient is the only number with these bounds. *)
LEMMA DivUnique ==
  ASSUME NEW t \in Nat, NEW d \in Nat, d > 0, NEW q \in Nat, d * q <= t, t < d * q + d
  PROVE  t \div d = q
  OBVIOUS

(* Multiplication is monotonic: a later slot starts a slot duration later. *)
LEMMA Multiples ==
  ASSUME NEW a \in Nat, NEW b \in Nat, NEW d \in Nat, a < b
  PROVE  d * a + d <= d * b
  OBVIOUS

(* The slot duration is twice the minimum period and positive. *)
LEMMA PeriodType ==
  /\ MinimumPeriod \in Nat
  /\ MinimumPeriod > 0
  /\ slot_duration \in Nat
  /\ slot_duration > 0
  /\ slot_duration = 2 * MinimumPeriod
  BY AuraAssumption DEF MinimumPeriod, slot_duration

(* Slots are natural numbers. *)
LEMMA SlotOfType == \A t \in Nat : SlotOf(t) \in Nat
  BY PeriodType, DivBounds DEF SlotOf

(***************************************************************************)
(* The core of the argument.  A parent of an earlier slot has its time     *)
(* before the beginning of the current slot, so half a slot later is still *)
(* within the current slot.                                                *)
(***************************************************************************)
LEMMA PushStaysInSlot ==
  ASSUME NEW p \in Nat, NEW now \in Nat, SlotOf(p) < SlotOf(now)
  PROVE  /\ p < now
         /\ now < p + MinimumPeriod => SlotOf(p + MinimumPeriod) = SlotOf(now)
  <1> DEFINE d == slot_duration
             s == SlotOf(now)
  <1>1. d \in Nat /\ d > 0 /\ d = 2 * MinimumPeriod /\ MinimumPeriod \in Nat /\ MinimumPeriod > 0
    BY PeriodType
  <1>2. s \in Nat /\ d * s <= now /\ now < d * s + d
    BY <1>1, DivBounds DEF SlotOf
  <1>3. SlotOf(p) \in Nat /\ p < d * SlotOf(p) + d
    BY <1>1, DivBounds DEF SlotOf
  <1>4. d * SlotOf(p) + d <= d * s
    BY <1>1, <1>2, <1>3, Multiples
  <1>5. d * s \in Nat /\ d * SlotOf(p) \in Nat
    BY <1>1, <1>2, <1>3
  <1> HIDE DEF d, s
  <1>6. p < now
    BY <1>1, <1>2, <1>3, <1>4, <1>5
  <1>7. ASSUME now < p + MinimumPeriod
        PROVE  SlotOf(p + MinimumPeriod) = s
    <2>1. p + MinimumPeriod \in Nat /\ d * s <= p + MinimumPeriod
      BY <1>1, <1>2, <1>5, <1>7
    <2>2. p + MinimumPeriod < d * s + d
      BY <1>1, <1>3, <1>4, <1>5
    <2>3. QED
      BY <1>1, <1>2, <2>1, <2>2, DivUnique DEF SlotOf, d
  <1>8. QED
    BY <1>6, <1>7 DEF s

------------------------------------------------------------------------------
(* The inductive invariant. *)

AuraType ==
  /\ clock \in [Nodes -> Nat]
  /\ blocks \in Seq(Block)
  /\ known \in [Nodes -> SUBSET (0 .. Len(blocks))]
  /\ best \in [Nodes -> Nat]
  /\ \A n \in Nodes : best[n] \in known[n]
  /\ lastSlot \in [Nodes -> Nat]
  /\ DOMAIN job = Nodes

(* A block's timestamp lies in its slot, and near its author's clock. *)
BlocksInSlot ==
  \A i \in 1 .. Len(blocks) :
    /\ blocks[i].parent < i
    /\ SlotOf(blocks[i].time) = blocks[i].slot
    /\ blocks[i].time < blocks[i].at + MinimumPeriod

(* A proposal is for the slot of the time it has noted. *)
JobsInSlot ==
  \A n \in Nodes :
    job[n] # NoJob => /\ job[n] \in Job
                      /\ job[n].parent \in known[n]
                      /\ job[n].slot = SlotOf(job[n].now)

AuraInv == AuraType /\ BlocksInSlot /\ JobsInSlot

(* The invariant holds at genesis. *)
LEMMA InitInv == Init => AuraInv
  BY DEF Init, AuraInv, AuraType, BlocksInSlot, JobsInSlot

(* The state a child finds has its time in its slot. *)
LEMMA ParentInSlot ==
  ASSUME AuraType, BlocksInSlot, NEW b \in 0 .. Len(blocks)
  PROVE  /\ StateOf(b).time \in Nat
         /\ StateOf(b).number \in Nat
         /\ StateOf(b).slot \in Nat
         /\ SlotOf(StateOf(b).time) = StateOf(b).slot
  <1>1. CASE b = 0
    <2>1. SlotOf(0) = 0
      BY PeriodType, DivUnique DEF SlotOf
    <2>2. QED
      BY <1>1, <2>1 DEF StateOf, GenesisState
  <1>2. CASE b # 0
    <2>1. b \in 1 .. Len(blocks) /\ blocks[b] \in Block
      BY <1>2 DEF AuraType
    <2>2. QED
      BY <1>2, <2>1 DEF StateOf, BlocksInSlot, Block
  <1>3. QED
    BY <1>1, <1>2

(* What a proposal of a later slot than its parent's does in the runtime. *)
LEMMA ProposalInSlot ==
  ASSUME AuraInv, NEW n \in Nodes, job[n] # NoJob,
         job[n].slot > StateOf(job[n].parent).slot
  PROVE  LET parent == StateOf(job[n].parent)
             time == CreateInherent(parent, job[n].now)
         IN  /\ time \in Nat
             /\ Executes(parent, job[n].slot, time)
             /\ time < job[n].now + MinimumPeriod
  <1> DEFINE parent == StateOf(job[n].parent)
             p == parent.time
             now == job[n].now
  <1>1. now \in Nat /\ job[n].slot \in Nat /\ job[n].slot = SlotOf(now)
        /\ job[n].parent \in 0 .. Len(blocks)
    BY DEF AuraInv, AuraType, JobsInSlot, Job
  <1>2. p \in Nat /\ SlotOf(p) = parent.slot /\ parent.slot \in Nat
    BY <1>1, ParentInSlot DEF AuraInv
  <1>3. /\ p < now
        /\ now < p + MinimumPeriod => SlotOf(p + MinimumPeriod) = SlotOf(now)
    BY <1>1, <1>2, PushStaysInSlot
  <1> HIDE DEF parent
  <1>4. QED
    BY <1>1, <1>2, <1>3, PeriodType
    DEF CreateInherent, Executes, Initialize, SetTimestamp, parent

(* A sealed block has its timestamp in its slot. *)
LEMMA ProposeInv ==
  ASSUME AuraInv, NEW n \in Nodes, Propose(n)
  PROVE  AuraInv'
  <1> DEFINE j == job[n]
             parent == StateOf(j.parent)
             time == CreateInherent(parent, j.now)
             sealed == [parent |-> j.parent, number |-> parent.number + 1,
                        slot |-> j.slot, time |-> time, author |-> n, at |-> j.now]
             len == Len(blocks)
  <1>1. /\ j # NoJob
        /\ Executes(parent, j.slot, time)
        /\ blocks' = Append(blocks, sealed)
        /\ known' = [known EXCEPT ![n] = @ \cup {len + 1}]
        /\ best' = best \/ best' = [best EXCEPT ![n] = len + 1]
        /\ job' = [job EXCEPT ![n] = NoJob]
        /\ UNCHANGED <<clock, lastSlot>>
    BY DEF Propose, Adopt
  <1>2. j \in Job /\ j.parent \in 0 .. len /\ len \in Nat
    BY <1>1 DEF AuraInv, AuraType, JobsInSlot
  <1>3. parent.number \in Nat /\ parent.slot \in Nat /\ parent.time \in Nat
    BY <1>2, ParentInSlot DEF AuraInv
  <1>4. time \in Nat /\ time < j.now + MinimumPeriod
    <2>1. j.slot > parent.slot
      BY <1>1, <1>2, <1>3 DEF Executes, Initialize, Job
    <2>2. QED
      BY <1>1, <2>1, ProposalInSlot
  <1>5. SlotOf(time) = j.slot
    BY <1>1 DEF Executes, SetTimestamp
  <1> HIDE DEF parent, time, j
  <1>6. /\ sealed \in Block
        /\ sealed.parent = j.parent /\ sealed.slot = j.slot
        /\ sealed.time = time /\ sealed.at = j.now
    BY <1>2, <1>3, <1>4 DEF Block, Job
  <1> HIDE DEF sealed
  <1>7. /\ blocks' \in Seq(Block)
        /\ Len(blocks') = len + 1
        /\ \A i \in 1 .. len : blocks'[i] = blocks[i]
        /\ blocks'[len + 1] = sealed
    BY <1>1, <1>6 DEF AuraInv, AuraType
  <1>8. AuraType'
    BY <1>1, <1>2, <1>7 DEF AuraInv, AuraType
  <1>9. BlocksInSlot'
    <2> SUFFICES ASSUME NEW i \in 1 .. len + 1
                 PROVE  /\ blocks'[i].parent < i
                        /\ SlotOf(blocks'[i].time) = blocks'[i].slot
                        /\ blocks'[i].time < blocks'[i].at + MinimumPeriod
      BY <1>7 DEF BlocksInSlot, SlotOf, slot_duration, MinimumPeriod
    <2>1. CASE i \in 1 .. len
      BY <1>7, <2>1 DEF AuraInv, BlocksInSlot
    <2>2. CASE i = len + 1
      BY <1>2, <1>4, <1>5, <1>6, <1>7, <2>2
    <2>3. QED
      BY <1>2, <2>1, <2>2
  <1>10. JobsInSlot'
    BY <1>1 DEF AuraInv, AuraType, JobsInSlot, SlotOf, slot_duration, MinimumPeriod
  <1>11. QED
    BY <1>8, <1>9, <1>10 DEF AuraInv

(* A new proposal is for the slot of the time it notes. *)
LEMMA NewSlotInv ==
  ASSUME AuraInv, NEW n \in Nodes, NewSlot(n)
  PROVE  AuraInv'
  <1>1. clock[n] \in Nat /\ SlotOf(clock[n]) \in Nat /\ best[n] \in Nat /\ best[n] \in known[n]
    BY SlotOfType DEF AuraInv, AuraType
  <1> DEFINE started == [parent |-> best[n], slot |-> SlotOf(clock[n]), now |-> clock[n]]
  <1>2. started \in Job /\ started.parent \in known[n] /\ started.slot = SlotOf(started.now)
    BY <1>1 DEF Job
  <1>3. job' = job \/ job' = [job EXCEPT ![n] = started]
    BY DEF NewSlot, InherentData
  <1> HIDE DEF started
  <1>4. JobsInSlot'
    BY <1>2, <1>3 DEF NewSlot, AuraInv, AuraType, JobsInSlot, SlotOf, slot_duration, MinimumPeriod
  <1>5. AuraType'
    BY <1>1, <1>3 DEF NewSlot, InherentData, AuraInv, AuraType
  <1>6. BlocksInSlot'
    BY DEF NewSlot, AuraInv, BlocksInSlot, SlotOf, slot_duration, MinimumPeriod
  <1>7. QED
    BY <1>4, <1>5, <1>6 DEF AuraInv

(* Importing a block changes only what its node knows and builds on. *)
LEMMA ImportInv ==
  ASSUME AuraInv, NEW n \in Nodes, NEW b \in 1 .. Len(blocks), Import(n, b)
  PROVE  AuraInv'
  <1>1. /\ known' = [known EXCEPT ![n] = @ \cup {b}]
        /\ best' = best \/ best' = [best EXCEPT ![n] = b]
        /\ UNCHANGED <<clock, blocks, lastSlot, job>>
    BY DEF Import, Adopt
  <1>2. b \in Nat /\ b \in 0 .. Len(blocks)
    BY DEF AuraInv, AuraType
  <1>3. AuraType'
    BY <1>1, <1>2 DEF AuraInv, AuraType
  <1>4. BlocksInSlot' /\ JobsInSlot'
    BY <1>1 DEF AuraInv, AuraType, BlocksInSlot, JobsInSlot, SlotOf, slot_duration, MinimumPeriod
  <1>5. QED
    BY <1>3, <1>4 DEF AuraInv

(* Steps that touch neither the chain nor, but for dropping them, the jobs. *)
LEMMA LocalInv ==
  ASSUME AuraInv, NEW n \in Nodes,
         \/ Tick(n) \/ SetBack(n) \/ SkipSlot(n) \/ ProposeFails(n) \/ Discard(n) \/ Restart(n)
  PROVE  AuraInv'
  <1>1. UNCHANGED <<blocks, known, best>> /\ (job' = job \/ job' = [job EXCEPT ![n] = NoJob])
    BY DEF Tick, SetBack, SkipSlot, ProposeFails, Discard, Restart
  <1>2. clock' \in [Nodes -> Nat] /\ lastSlot' \in [Nodes -> Nat]
    <2>1. CASE Tick(n)
      BY <2>1 DEF Tick, AuraInv, AuraType
    <2>2. CASE SetBack(n)
      BY <2>2, AuraAssumption DEF SetBack, AuraInv, AuraType
    <2>3. CASE ProposeFails(n) \/ Discard(n) \/ Restart(n)
      BY <2>3 DEF ProposeFails, Discard, Restart, AuraInv, AuraType
    <2>4. CASE SkipSlot(n)
      BY <2>4, SlotOfType DEF SkipSlot, AuraInv, AuraType
    <2>5. QED
      BY <2>1, <2>2, <2>3, <2>4
  <1>3. AuraType'
    BY <1>1, <1>2 DEF AuraInv, AuraType
  <1>4. BlocksInSlot'
    BY <1>1 DEF AuraInv, BlocksInSlot, SlotOf, slot_duration, MinimumPeriod
  <1>5. JobsInSlot'
    BY <1>1 DEF AuraInv, AuraType, JobsInSlot, SlotOf, slot_duration, MinimumPeriod
  <1>6. QED
    BY <1>3, <1>4, <1>5 DEF AuraInv

(* AuraInv is an inductive invariant. *)
THEOREM AuraInvariant == Spec => []AuraInv
  <1>1. AuraInv /\ [Next]_vars => AuraInv'
    <2> SUFFICES ASSUME AuraInv, [Next]_vars
                 PROVE  AuraInv'
      OBVIOUS
    <2>1. ASSUME NEW n \in Nodes,
                 \/ Tick(n) \/ SetBack(n) \/ SkipSlot(n) \/ ProposeFails(n) \/ Discard(n) \/ Restart(n)
          PROVE  AuraInv'
      BY <2>1, LocalInv
    <2>2. ASSUME NEW n \in Nodes, NewSlot(n)
          PROVE  AuraInv'
      BY <2>2, NewSlotInv
    <2>3. ASSUME NEW n \in Nodes, Propose(n)
          PROVE  AuraInv'
      BY <2>3, ProposeInv
    <2>4. ASSUME NEW n \in Nodes, NEW b \in 1 .. Len(blocks), Import(n, b)
          PROVE  AuraInv'
      BY <2>4, ImportInv
    <2>5. CASE UNCHANGED vars
      BY <2>5 DEF vars, AuraInv, AuraType, BlocksInSlot, JobsInSlot, SlotOf, slot_duration,
                  MinimumPeriod
    <2>6. QED
      BY <2>1, <2>2, <2>3, <2>4, <2>5 DEF Next
  <1>2. QED
    BY <1>1, InitInv, PTL DEF Spec

(* The state has its type; every reference to a block is to one that exists. *)
THEOREM AuraTypeCorrect == Spec => []TypeOK
  <1>1. AuraInv => TypeOK
    BY DEF AuraInv, AuraType, BlocksInSlot, JobsInSlot, TypeOK
  <1>2. QED
    BY <1>1, AuraInvariant, PTL

(* A proposal for a later slot than its parent's never fails in the runtime, *)
(* however far apart the clocks of its author and of the parent's author are. *)
THEOREM ProposalsAlwaysExecute == Spec => []ProposalsExecute
  <1>1. AuraInv => ProposalsExecute
    BY ProposalInSlot DEF ProposalsExecute
  <1>2. QED
    BY <1>1, AuraInvariant, PTL

(* A block's timestamp is less than MinimumPeriod ahead of its author's clock, *)
(* on any chain: pushing timestamps forward does not add up from block to block. *)
THEOREM TimestampsStayNearClock == Spec => []TimestampsNearClock
  <1>1. AuraInv => TimestampsNearClock
    <2>1. AuraInv => DOMAIN blocks = 1 .. Len(blocks)
      BY DEF AuraInv, AuraType
    <2>2. QED
      BY <2>1 DEF AuraInv, BlocksInSlot, TimestampsNearClock
  <1>2. QED
    BY <1>1, AuraInvariant, PTL

------------------------------------------------------------------------------
(***************************************************************************)
(* One block per slot on a chain.  A block is in a later slot than its     *)
(* parent; from block to block this carries to every ancestor, by the      *)
(* least block of a path for which it would not.                           *)
(***************************************************************************)

Ascending ==
  \A i \in 1 .. Len(blocks) :
    blocks[i].parent # 0 => blocks[blocks[i].parent].slot < blocks[i].slot

(* Aura's on_initialize puts every block in a later slot than its parent. *)
LEMMA SlotsAscend == Spec => []Ascending
  <1>1. Init => Ascending
    BY DEF Init, Ascending
  <1>2. AuraInv /\ AuraInv' /\ Ascending /\ [Next]_vars => Ascending'
    <2> SUFFICES ASSUME AuraInv, AuraInv', Ascending, [Next]_vars PROVE Ascending'
      OBVIOUS
    <2>1. CASE UNCHANGED blocks
      BY <2>1 DEF Ascending
    <2>2. ASSUME NEW n \in Nodes, Propose(n) PROVE Ascending'
      <3> DEFINE parent == StateOf(job[n].parent)
                 len == Len(blocks)
      <3>1. PICK sealed : /\ blocks' = Append(blocks, sealed)
                          /\ sealed.parent = job[n].parent /\ sealed.slot = job[n].slot
        BY <2>2 DEF Propose
      <3>2. parent.slot < job[n].slot /\ job[n] # NoJob
        BY <2>2 DEF Propose, Executes, Initialize
      <3>3. job[n].parent \in 0 .. len /\ len \in Nat /\ blocks \in Seq(Block)
        BY <3>2 DEF AuraInv, AuraType, JobsInSlot
      <3>4. /\ Len(blocks') = len + 1 /\ blocks'[len + 1] = sealed
            /\ \A i \in 1 .. len : blocks'[i] = blocks[i]
        <4>1. blocks' \in Seq(Block)
          BY DEF AuraInv, AuraType
        <4>2. QED
          BY <3>1, <3>3, <4>1
      <3>5. sealed.parent # 0 => blocks[sealed.parent].slot < sealed.slot
        BY <3>1, <3>2 DEF StateOf
      <3>6. \A i \in 1 .. len : blocks[i].parent \in Nat /\ blocks[i].parent < i
        <4>1. \A i \in 1 .. len : blocks[i] \in Block
          BY <3>3
        <4>2. \A i \in 1 .. len : blocks[i].parent < i
          BY DEF AuraInv, BlocksInSlot
        <4>3. QED
          BY <4>1, <4>2 DEF Block
      <3> HIDE DEF parent
      <3> SUFFICES ASSUME NEW i \in 1 .. len + 1, blocks'[i].parent # 0
                   PROVE  blocks'[blocks'[i].parent].slot < blocks'[i].slot
        BY <3>4 DEF Ascending
      <3>7. CASE i = len + 1
        BY <3>1, <3>3, <3>4, <3>5, <3>7
      <3>8. CASE i \in 1 .. len
        BY <3>3, <3>4, <3>6, <3>8 DEF Ascending
      <3>9. QED
        BY <3>3, <3>7, <3>8
    <2>3. QED
      BY <2>1, <2>2 DEF Next, vars, Tick, SetBack, NewSlot, SkipSlot, ProposeFails, Discard,
                        Import, Restart
  <1>3. QED
    BY <1>1, <1>2, AuraInvariant, PTL DEF Spec

(* A set of natural numbers has a least element. *)
LEMMA Least ==
  ASSUME NEW T \in SUBSET Nat, T # {}
  PROVE  \E x \in T : \A y \in T : x <= y
  <1> DEFINE R == {p \in Nat \X Nat : p[1] < p[2]}
  <1>1. IsWellFoundedOn(R, Nat)
    BY NatLessThanWellFounded, Zenon DEF OpToRel
  <1>2. \A m, n \in Nat : m < n => <<m, n>> \in R
    OBVIOUS
  <1> HIDE DEF R
  <1>3. PICK x \in T : \A y \in T : <<y, x>> \notin R
    BY <1>1, WFMin
  <1>4. ASSUME NEW y \in T, ~(x <= y) PROVE FALSE
    <2>1. y < x
      BY <1>4
    <2>2. <<y, x>> \in R
      BY <1>2, <2>1
    <2>3. QED
      BY <1>3, <2>2
  <1>5. QED
    BY <1>4

(* Along every chain, slots strictly increase: restarts and clocks that    *)
(* are set back never give an authority a second block in its slot there.  *)
THEOREM ChainsHaveOneBlockPerSlot == Spec => []OneBlockPerSlotOnAChain
  <1>1. AuraInv /\ Ascending => OneBlockPerSlotOnAChain
    <2> SUFFICES ASSUME AuraInv, Ascending,
                        NEW a \in 1 .. Len(blocks), NEW b \in 1 .. Len(blocks), Ancestor(a, b)
                 PROVE  blocks[a].slot < blocks[b].slot
      BY DEF OneBlockPerSlotOnAChain
    <2>1. PICK path \in SUBSET (1 .. b) :
            /\ a \in path /\ b \in path /\ a # b
            /\ \A i \in path : i # a => blocks[i].parent \in path
      BY DEF Ancestor
    <2>2. /\ Len(blocks) \in Nat /\ path \subseteq Nat
          /\ \A i \in path : /\ i \in 1 .. Len(blocks) /\ i \in Nat /\ i # 0
                             /\ blocks[i].slot \in Nat
                             /\ blocks[i].parent \in Nat /\ blocks[i].parent < i
      <3>1. Len(blocks) \in Nat /\ \A i \in 1 .. Len(blocks) : blocks[i] \in Block
        BY DEF AuraInv, AuraType
      <3>2. \A i \in 1 .. Len(blocks) : blocks[i].parent < i
        BY DEF AuraInv, BlocksInSlot
      <3>3. QED
        BY <2>1, <3>1, <3>2 DEF Block
    <2> DEFINE T == {i \in path : i # a /\ ~(blocks[a].slot < blocks[i].slot)}
    <2>3. T = {}
      <3> SUFFICES ASSUME T # {} PROVE FALSE
        OBVIOUS
      <3>1. T \in SUBSET Nat
        BY <2>2
      <3>2. PICK i \in T : \A j \in T : i <= j
        <4> HIDE DEF T
        <4>1. QED
          BY <3>1, Least
      <3>3. i \in path /\ i # a /\ ~(blocks[a].slot < blocks[i].slot)
        OBVIOUS
      <3>4. PICK p \in path : p = blocks[i].parent /\ p < i
        BY <2>1, <2>2, <3>3
      <3>5. blocks[p].slot < blocks[i].slot
        BY <2>2, <3>3, <3>4 DEF Ascending
      <3>6. p \notin T
        BY <2>2, <3>2, <3>3, <3>4
      <3>7. p = a \/ blocks[a].slot < blocks[p].slot
        BY <3>4, <3>6
      <3>8. QED
        BY <2>1, <2>2, <3>3, <3>4, <3>5, <3>7
    <2>4. QED
      BY <2>1, <2>3
  <1>2. QED
    BY <1>1, AuraInvariant, SlotsAscend, PTL

==============================================================================
