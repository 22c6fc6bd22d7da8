-------------------------- MODULE SlotDurationChange --------------------------
(***************************************************************************)
(* A runtime upgrade that changes SLOT_DURATION, which a comment in        *)
(* runtime/src/lib.rs warns of.  Three parties then measure slots: the     *)
(* runtime, with the duration in the state of the parent; the import       *)
(* queue, which asks for the same at every block; and the authoring task,  *)
(* whose closure keeps the duration read when the node started.            *)
(*                                                                         *)
(* One chain, which every node has seen, and clocks that agree: what the   *)
(* durations do on their own.  AuraAuthoring has forks and clocks.         *)
(***************************************************************************)
EXTENDS Integers, Sequences

CONSTANTS
  Nodes, Authorities,   \* as in AuraAuthoring
  Durations,            \* the slot durations of the runtimes
  Started,              \* the clock when the chain starts
  MaxClock, MaxChain    \* bounds on the clock and on the chain

ASSUME SlotDurationAssumption ==
  /\ Authorities \in Seq(Nodes) /\ Authorities # <<>>
  /\ Durations # {} /\ \A d \in Durations : d \in Nat \ {0} /\ d % 2 = 0
  /\ Started \in Nat /\ MaxClock \in Nat /\ MaxChain \in Nat

(* The clock counts from 1970: by now, slots of different durations have   *)
(* numbers that are well apart (by two and more, which is what is needed). *)
ASSUME StartedAssumption ==
  \A c, d \in Durations : c < d => 2 * (c * d) <= Started * (d - c)

VARIABLES
  clock,       \* the time
  chain,       \* the blocks; each with what it leaves in the state
  configured   \* node -> the slot duration its authoring task was given

vars == <<clock, chain, configured>>

(* Slots and timestamps under a given duration. *)
Under(SLOT_DURATION) == INSTANCE AuraTime

AuthorOf(slot) == Authorities[(slot % Len(Authorities)) + 1]

(* What genesis or the last block has left in the state. *)
Genesis(d) == [slot |-> 0, time |-> 0, duration |-> d, ran |-> d, by |-> d]

Best == chain[Len(chain)]

------------------------------------------------------------------------------
Init ==
  /\ clock = Started
  /\ \E d \in Durations : chain = <<Genesis(d)>> /\ configured = [n \in Nodes |-> d]

Tick ==
  /\ clock < MaxClock
  /\ clock' = clock + 1
  /\ UNCHANGED <<chain, configured>>

(* The import queue of the other nodes takes the block: its slot is not    *)
(* beyond the next one by the parent's duration.                           *)
Importable(slot) == slot <= Under(Best.duration)!SlotOf(clock) + 1

(* A block by n.  The slot is by the duration n was started with, the rest *)
(* is up to the runtime; the block may upgrade it, for its children.       *)
Author(n, upgraded) ==
  LET slot == Under(configured[n])!SlotOf(clock)
      time == Under(Best.duration)!CreateInherent(Best, clock)
  IN  /\ Len(chain) < MaxChain
      /\ AuthorOf(slot) = n
      /\ Under(Best.duration)!Executes(Best, slot, time)
      /\ Importable(slot)
      /\ chain' = Append(chain, [slot |-> slot, time |-> time, duration |-> upgraded,
                                 ran |-> Best.duration, by |-> configured[n]])
      /\ UNCHANGED <<clock, configured>>

(* slot_duration() is asked for at the best block. *)
Restart(n) ==
  /\ configured' = [configured EXCEPT ![n] = Best.duration]
  /\ UNCHANGED <<clock, chain>>

Next ==
  \/ Tick
  \/ \E n \in Nodes : (\E d \in Durations : Author(n, d)) \/ Restart(n)

Spec == Init /\ [][Next]_vars

------------------------------------------------------------------------------
(* Properties.  Of a block, duration is what it leaves to its children,    *)
(* ran what it was executed with and by what its author was started with.  *)

(* Types; slots rise along the chain, whatever happens to their duration.  *)
TypeOK ==
  /\ clock \in Nat
  /\ \A i \in DOMAIN chain :
       chain[i] \in [slot : Nat, time : Nat, duration : Durations, ran : Durations, by : Durations]
  /\ configured \in [Nodes -> Durations]
  /\ \A i, j \in DOMAIN chain : i < j => chain[i].slot < chain[j].slot

(* A node that was not restarted since the slot duration has changed does  *)
(* not author: its slots are not those of its timestamps.  So an upgrade   *)
(* stops the chain until authorities are restarted ("will brick block      *)
(* production"), and it does not make them author out of turn.             *)
StaleNodesDoNotAuthor == \A i \in DOMAIN chain : chain[i].by = chain[i].ran

(* Slots are counted from zero, and the next block needs a higher one by   *)
(* its own duration.  A change to f times the duration stops the chain     *)
(* until its clock shows f times the time of the upgrade: no restart helps *)
(* against a longer duration.                                              *)
ChangeStallsInProportion ==
  \A i \in DOMAIN chain \ {1} :
    chain[i].time * chain[i - 1].ran > chain[i - 1].time * chain[i].ran

==============================================================================
