----------------------- MODULE SlotDurationChangeProofs -----------------------
(***************************************************************************)
(* A change of the slot duration, for any durations and any number of      *)
(* changes, restarts and blocks.                                           *)
(***************************************************************************)
EXTENDS SlotDurationChange, SequenceTheorems, TLAPS

------------------------------------------------------------------------------
(* Arithmetic. *)

(* Products keep the order. *)
LEMMA Times ==
  ASSUME NEW a \in Nat, NEW b \in Nat, NEW k \in Nat, a <= b
  PROVE  a * k <= b * k
  OBVIOUS

(* The remainder is smaller than the divisor. *)
LEMMA Division ==
  ASSUME NEW t \in Nat, NEW d \in Nat, d > 0
  PROVE  /\ t \div d \in Nat
         /\ (t \div d) * d <= t
         /\ t < (t \div d + 1) * d
  OBVIOUS

(* A longer duration counts fewer slots. *)
LEMMA Fewer ==
  ASSUME NEW t \in Nat, NEW u \in Nat, t <= u, NEW c \in Nat, NEW d \in Nat, c > 0, c <= d
  PROVE  t \div d <= u \div c
  <1>1. PICK x \in Nat : x = u \div c
    BY Division
  <1>2. PICK y \in Nat : y = t \div d
    BY Division
  <1>3. y * d <= t /\ u < (x + 1) * c
    BY <1>1, <1>2, Division
  <1>4. ASSUME x + 1 <= y
        PROVE  FALSE
    <2>1. (x + 1) * c <= y * c /\ c * y <= d * y
      BY <1>4, Times
    <2>2. (x + 1) * c \in Nat /\ y * c \in Nat /\ y * d \in Nat /\ y * c = c * y /\ y * d = d * y
      OBVIOUS
    <2>3. QED
      BY <1>3, <2>1, <2>2
  <1>5. QED
    BY <1>1, <1>2, <1>4

(* The clock is late enough for slots of two durations to be two apart. *)
LEMMA Apart ==
  ASSUME NEW t \in Nat, NEW c \in Nat, NEW d \in Nat, c > 0, c < d,
         2 * (c * d) <= t * (d - c)
  PROVE  t \div d + 2 <= t \div c
  <1>1. PICK x \in Nat : x = t \div c
    BY Division
  <1>2. PICK y \in Nat : y = t \div d
    BY Division
  <1>3. t < (x + 1) * c /\ y * d <= t
    BY <1>1, <1>2, Division
  <1>4. ASSUME x <= y + 1
        PROVE  FALSE
    <2>1. (x + 1) * c <= (y + 2) * c
      BY <1>4, Times
    <2>2. t + 1 <= (y + 2) * c
      <3>1. (x + 1) * c \in Nat /\ (y + 2) * c \in Nat
        OBVIOUS
      <3>2. QED
        BY <1>3, <2>1, <3>1
    <2>3. (t + 1) * d <= ((y + 2) * c) * d
      BY <2>2, Times
    <2>4. (y * d) * c <= t * c
      BY <1>3, Times
    <2>5. ((y + 2) * c) * d = (y * d) * c + 2 * (c * d)
      OBVIOUS
    <2>6. (t + 1) * d = t * d + d /\ t * (d - c) = t * d - t * c
      OBVIOUS
    <2>7. /\ t * d \in Nat /\ t * c \in Nat /\ (y * d) * c \in Nat /\ c * d \in Nat
          /\ t * (d - c) \in Int
      OBVIOUS
    <2>8. QED
      BY <2>3, <2>4, <2>5, <2>6, <2>7
  <1>5. QED
    BY <1>1, <1>2, <1>4

(* A later slot of another duration is later in proportion. *)
LEMMA InProportion ==
  ASSUME NEW t \in Nat, NEW u \in Nat, NEW c \in Nat, NEW d \in Nat, c > 0, d > 0,
         t \div c < u \div d
  PROVE  u * c > t * d
  <1>1. PICK x \in Nat : x = t \div c
    BY Division
  <1>2. PICK y \in Nat : y = u \div d
    BY Division
  <1>3. t + 1 <= (x + 1) * c /\ y * d <= u /\ x + 1 <= y
    BY <1>1, <1>2, Division
  <1>4. (t + 1) * d <= ((x + 1) * c) * d
    BY <1>3, Times
  <1>5. ((x + 1) * c) * d = (x + 1) * (c * d) /\ (y * d) * c = y * (c * d)
    OBVIOUS
  <1>6. (x + 1) * (c * d) <= y * (c * d)
    <2>1. c * d \in Nat
      OBVIOUS
    <2>2. QED
      BY <1>3, <2>1, Times
  <1>7. (y * d) * c <= u * c
    BY <1>3, Times
  <1>8. (t + 1) * d = t * d + d
    OBVIOUS
  <1>9. /\ t * d \in Nat /\ u * c \in Nat /\ (x + 1) * (c * d) \in Nat /\ y * (c * d) \in Nat
    OBVIOUS
  <1>10. QED
    BY <1>4, <1>5, <1>6, <1>7, <1>8, <1>9

------------------------------------------------------------------------------
(* Slots of an even duration. *)
LEMMA SlotIs ==
  ASSUME NEW d \in Nat, d > 0, d % 2 = 0, NEW t
  PROVE  Under(d)!SlotOf(t) = t \div d
  <1>1. 2 * (d \div 2) = d
    OBVIOUS
  <1>2. QED
    BY <1>1 DEF Under!SlotOf, Under!slot_duration, Under!MinimumPeriod

------------------------------------------------------------------------------
(* The invariant. *)

Block == [slot : Nat, time : Nat, duration : Durations, ran : Durations, by : Durations]

(* Slots are those of the timestamps, by the duration of the runtime that  *)
(* executed the block, which its author was started with as well.          *)
InItsSlot(b) == b.slot = b.time \div b.ran /\ b.by = b.ran

DurationInv ==
  /\ clock \in Nat /\ Started <= clock
  /\ chain \in Seq(Block) /\ Len(chain) \in Nat \ {0}
  /\ configured \in [Nodes -> Durations]
  /\ \A i \in 1 .. Len(chain) : InItsSlot(chain[i])
  /\ \A i, j \in 1 .. Len(chain) : i < j => chain[i].slot < chain[j].slot

(* Durations are even and not zero. *)
LEMMA DurationType ==
  ASSUME NEW d \in Durations
  PROVE  d \in Nat /\ d > 0 /\ d % 2 = 0
  BY SlotDurationAssumption

(* Genesis is in slot zero of any duration. *)
LEMMA InitDuration == Init => DurationInv
  <1> SUFFICES ASSUME Init
               PROVE  DurationInv
    OBVIOUS
  <1>1. PICK d \in Durations : chain = <<Genesis(d)>> /\ configured = [n \in Nodes |-> d]
    BY DEF Init
  <1>2. PICK g : g = Genesis(d)
    OBVIOUS
  <1>3. d \in Nat /\ d > 0
    BY DurationType
  <1>4. g \in Block
    BY <1>2 DEF Genesis, Block
  <1>5. InItsSlot(g)
    <2>1. 0 \div d = 0
      BY <1>3
    <2>2. QED
      BY <1>2, <2>1 DEF Genesis, InItsSlot
  <1> HIDE DEF Block
  <1>6. chain = <<g>> /\ chain \in Seq(Block) /\ Len(chain) = 1 /\ chain[1] = g
    BY <1>1, <1>2, <1>4
  <1>7. configured \in [Nodes -> Durations]
    BY <1>1
  <1>8. clock = Started /\ Started \in Nat
    BY SlotDurationAssumption DEF Init
  <1>9. QED
    BY <1>5, <1>6, <1>7, <1>8 DEF DurationInv

(***************************************************************************)
(* A block by an author that was started with duration c, on a state with  *)
(* duration d.  The runtime accepts it only if its slot is the one of its  *)
(* timestamp by d, and its timestamp is the clock's or later.  If c is     *)
(* larger its slots are behind; if it is smaller they are two ahead, which *)
(* is more than the timestamp can be pushed for an importable block.       *)
(***************************************************************************)
LEMMA OnlyCurrent ==
  ASSUME NEW c \in Durations, NEW d \in Durations, NEW t \in Nat, NEW u \in Nat,
         Started <= t, t <= u,
         t \div c = u \div d,
         t \div c <= t \div d + 1
  PROVE  c = d
  <1>1. c \in Nat /\ c > 0 /\ d \in Nat /\ d > 0 /\ Started \in Nat
    BY DurationType, SlotDurationAssumption
  <1>2. PICK x \in Nat : x = t \div c
    BY <1>1, Division
  <1>3. PICK y \in Nat : y = t \div d
    BY <1>1, Division
  <1>4. ASSUME c < d
        PROVE  FALSE
    <2>1. 2 * (c * d) <= Started * (d - c)
      BY <1>4, StartedAssumption
    <2>2. PICK k \in Nat : k = d - c
      BY <1>1, <1>4
    <2>3. Started * k <= t * k
      BY <1>1, <2>2, Times
    <2>4. 2 * (c * d) <= t * (d - c)
      <3>1. c * d \in Nat /\ Started * k \in Nat /\ t * k \in Nat
        BY <1>1
      <3>2. QED
        BY <2>1, <2>2, <2>3, <3>1
    <2>5. t \div d + 2 <= t \div c
      BY <1>1, <1>4, <2>4, Apart
    <2>6. QED
      BY <1>2, <1>3, <2>5
  <1>5. ASSUME d < c
        PROVE  FALSE
    <2>1. 2 * (d * c) <= Started * (c - d)
      BY <1>5, StartedAssumption
    <2>2. PICK k \in Nat : k = c - d
      BY <1>1, <1>5
    <2>3. Started * k <= t * k
      BY <1>1, <2>2, Times
    <2>4. 2 * (d * c) <= t * (c - d)
      <3>1. d * c \in Nat /\ Started * k \in Nat /\ t * k \in Nat
        BY <1>1
      <3>2. QED
        BY <2>1, <2>2, <2>3, <3>1
    <2>5. t \div c + 2 <= t \div d
      BY <1>1, <1>5, <2>4, Apart
    <2>6. t \div d <= u \div d
      BY <1>1, Fewer
    <2>7. QED
      BY <1>2, <1>3, <2>5, <2>6
  <1>6. QED
    BY <1>1, <1>4, <1>5

(* What is appended to the chain. *)
LEMMA AuthorMeans ==
  ASSUME DurationInv, NEW n \in Nodes, NEW upgraded \in Durations, Author(n, upgraded)
  PROVE  \E b \in Block : /\ chain' = Append(chain, b)
                          /\ InItsSlot(b)
                          /\ chain[Len(chain)].slot < b.slot
  <1>1. PICK p \in Block : p = Best
    <2> HIDE DEF Block
    <2>1. chain \in Seq(Block) /\ Len(chain) \in 1 .. Len(chain)
      BY DEF DurationInv
    <2>2. QED
      BY <2>1, ElementOfSeq DEF Best
  <1>2. PICK d \in Durations : d = Best.duration
    BY <1>1 DEF Block
  <1>3. PICK c \in Durations : c = configured[n]
    BY DEF DurationInv
  <1>4. c \in Nat /\ c > 0 /\ c % 2 = 0 /\ d \in Nat /\ d > 0 /\ d % 2 = 0
    BY DurationType
  <1>5. clock \in Nat /\ Started <= clock
    BY DEF DurationInv
  <1>6. PICK slot \in Nat : slot = clock \div c
    BY <1>4, <1>5, Division
  <1>7. Under(c)!SlotOf(clock) = slot
    BY <1>4, <1>6, SlotIs
  <1>8. PICK time : time = Under(d)!CreateInherent(Best, clock)
    OBVIOUS
  <1>9. time \in Nat /\ clock <= time
    <2>1. Best.time \in Nat
      BY <1>1 DEF Block
    <2>2. d \div 2 \in Nat
      BY <1>4
    <2>3. QED
      BY <1>5, <1>8, <2>1, <2>2 DEF Under!CreateInherent, Under!MinimumPeriod
  <1>10. Under(d)!Executes(Best, slot, time) /\ Importable(slot)
    BY <1>2, <1>3, <1>7, <1>8 DEF Author
  <1>11. Best.slot < slot /\ Under(d)!SlotOf(time) = slot
    BY <1>10 DEF Under!Executes, Under!Initialize, Under!SetTimestamp
  <1>12. time \div d = slot
    BY <1>4, <1>11, SlotIs
  <1>13. slot <= clock \div d + 1
    BY <1>2, <1>4, <1>10, SlotIs DEF Importable
  <1>14. c = d
    BY <1>5, <1>6, <1>9, <1>12, <1>13, OnlyCurrent
  <1>15. PICK b : b = [slot |-> slot, time |-> time, duration |-> upgraded, ran |-> d, by |-> c]
    OBVIOUS
  <1>16. chain' = Append(chain, b)
    BY <1>2, <1>3, <1>7, <1>8, <1>15 DEF Author
  <1>17. b \in Block
    BY <1>9, <1>15 DEF Block
  <1>18. InItsSlot(b)
    BY <1>12, <1>14, <1>15 DEF InItsSlot
  <1>19. QED
    BY <1>11, <1>15, <1>16, <1>17, <1>18 DEF Best

(* A new block keeps the invariant. *)
LEMMA AuthorInv ==
  ASSUME DurationInv, NEW n \in Nodes, NEW upgraded \in Durations, Author(n, upgraded)
  PROVE  DurationInv'
  <1>1. PICK b \in Block : /\ chain' = Append(chain, b)
                           /\ InItsSlot(b)
                           /\ chain[Len(chain)].slot < b.slot
    BY AuthorMeans
  <1>2. \A i \in 1 .. Len(chain) : chain[i].slot \in Nat
    <2>1. \A i \in 1 .. Len(chain) : chain[i] \in Block
      BY ElementOfSeq DEF DurationInv
    <2>2. QED
      BY <2>1 DEF Block
  <1>3. b.slot \in Nat
    BY DEF Block
  <1> HIDE DEF Block
  <1>4. PICK k \in Nat \ {0} : k = Len(chain)
    BY DEF DurationInv
  <1>5. /\ chain' \in Seq(Block)
        /\ Len(chain') = k + 1
        /\ \A i \in 1 .. k : chain'[i] = chain[i]
        /\ chain'[k + 1] = b
    BY <1>1, <1>4, AppendProperties DEF DurationInv
  <1>6. \A i \in 1 .. k : chain[i].slot < b.slot
    BY <1>1, <1>2, <1>3, <1>4 DEF DurationInv
  <1>7. \A i \in 1 .. Len(chain') : InItsSlot(chain'[i])
    BY <1>1, <1>4, <1>5 DEF DurationInv
  <1>8. \A i, j \in 1 .. Len(chain') : i < j => chain'[i].slot < chain'[j].slot
    <2> SUFFICES ASSUME NEW i \in 1 .. k + 1, NEW j \in 1 .. k + 1, i < j
                 PROVE  chain'[i].slot < chain'[j].slot
      BY <1>5
    <2>1. CASE j = k + 1
      BY <1>5, <1>6, <2>1
    <2>2. CASE j # k + 1
      <3>1. i \in 1 .. k /\ j \in 1 .. k
        BY <2>2
      <3>2. QED
        BY <1>4, <1>5, <3>1 DEF DurationInv
    <2>3. QED
      BY <2>1, <2>2
  <1>9. clock' = clock /\ configured' = configured
    BY DEF Author
  <1>10. QED
    BY <1>4, <1>5, <1>7, <1>8, <1>9 DEF DurationInv

(* Every step keeps the invariant. *)
LEMMA NextDuration == DurationInv /\ [Next]_vars => DurationInv'
  <1> SUFFICES ASSUME DurationInv, [Next]_vars
               PROVE  DurationInv'
    OBVIOUS
  <1>1. CASE Tick
    <2>1. clock' \in Nat /\ Started <= clock'
      BY <1>1, SlotDurationAssumption DEF Tick, DurationInv
    <2>2. QED
      BY <1>1, <2>1 DEF Tick, DurationInv
  <1>2. ASSUME NEW n \in Nodes, NEW d \in Durations, Author(n, d)
        PROVE  DurationInv'
    BY <1>2, AuthorInv
  <1>3. ASSUME NEW n \in Nodes, Restart(n)
        PROVE  DurationInv'
    <2>1. Best.duration \in Durations
      <3>1. chain \in Seq(Block) /\ Len(chain) \in 1 .. Len(chain)
        BY DEF DurationInv
      <3>2. Best \in Block
        BY <3>1, ElementOfSeq DEF Best
      <3>3. QED
        BY <3>2 DEF Block
    <2>2. configured' \in [Nodes -> Durations]
      BY <1>3, <2>1 DEF Restart, DurationInv
    <2>3. QED
      BY <1>3, <2>2 DEF Restart, DurationInv
  <1>4. CASE UNCHANGED vars
    BY <1>4 DEF vars, DurationInv
  <1>5. QED
    BY <1>1, <1>2, <1>3, <1>4 DEF Next

(* The invariant holds always. *)
THEOREM DurationInvariant == Spec => []DurationInv
  BY InitDuration, NextDuration, PTL DEF Spec

------------------------------------------------------------------------------
(* The properties. *)

(* Types, and slots that rise along the chain whatever happens to their    *)
(* duration.                                                               *)
THEOREM DurationTypeCorrect == Spec => []TypeOK
  <1>1. DurationInv => TypeOK
    <2> SUFFICES ASSUME DurationInv
                 PROVE  TypeOK
      OBVIOUS
    <2>1. DOMAIN chain = 1 .. Len(chain)
      BY LenProperties DEF DurationInv
    <2>2. \A i \in 1 .. Len(chain) : chain[i] \in Block
      BY ElementOfSeq DEF DurationInv
    <2>3. QED
      BY <2>1, <2>2 DEF TypeOK, DurationInv, Block
  <1>2. QED
    BY <1>1, DurationInvariant, PTL

(* A node that is still counting slots of another duration than its        *)
(* runtime's does not get a block into the chain.                          *)
THEOREM StaleNodesNeverAuthor == Spec => []StaleNodesDoNotAuthor
  <1>1. DurationInv => StaleNodesDoNotAuthor
    <2> SUFFICES ASSUME DurationInv
                 PROVE  StaleNodesDoNotAuthor
      OBVIOUS
    <2>1. DOMAIN chain = 1 .. Len(chain)
      BY LenProperties DEF DurationInv
    <2>2. QED
      BY <2>1 DEF DurationInv, InItsSlot, StaleNodesDoNotAuthor
  <1>2. QED
    BY <1>1, DurationInvariant, PTL

(* A block of another duration than its parent is later in proportion: a   *)
(* longer duration stalls the chain, restarts or not.                      *)
THEOREM ChangesStallTheChain == Spec => []ChangeStallsInProportion
  <1>1. DurationInv => ChangeStallsInProportion
    <2> SUFFICES ASSUME DurationInv, NEW i \in DOMAIN chain \ {1}
                 PROVE  chain[i].time * chain[i - 1].ran > chain[i - 1].time * chain[i].ran
      BY DEF ChangeStallsInProportion
    <2>1. DOMAIN chain = 1 .. Len(chain)
      BY LenProperties DEF DurationInv
    <2>2. i \in 1 .. Len(chain) /\ i - 1 \in 1 .. Len(chain) /\ i - 1 < i
      BY <2>1 DEF DurationInv
    <2>3. PICK a \in Block : a = chain[i - 1]
      BY <2>2, ElementOfSeq DEF DurationInv
    <2>4. PICK b \in Block : b = chain[i]
      BY <2>2, ElementOfSeq DEF DurationInv
    <2>5. a.slot < b.slot /\ a.slot = a.time \div a.ran /\ b.slot = b.time \div b.ran
      BY <2>2, <2>3, <2>4 DEF DurationInv, InItsSlot
    <2>6. /\ a.time \in Nat /\ b.time \in Nat
          /\ a.ran \in Nat /\ a.ran > 0 /\ b.ran \in Nat /\ b.ran > 0
      BY DurationType DEF Block
    <2>7. b.time * a.ran > a.time * b.ran
      BY <2>5, <2>6, InProportion
    <2>8. QED
      BY <2>3, <2>4, <2>7
  <1>2. QED
    BY <1>1, DurationInvariant, PTL

==============================================================================
