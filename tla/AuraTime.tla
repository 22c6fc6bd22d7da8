------------------------------- MODULE AuraTime -------------------------------
(***************************************************************************)
(* Slots and timestamps: what pallet_aura and pallet_timestamp, configured *)
(* as in runtime/src/lib.rs, make of a block on its parent.  Of a parent   *)
(* they know what it left in the state: CurrentSlot and Now.               *)
(***************************************************************************)
EXTENDS Integers

CONSTANT SLOT_DURATION  \* runtime/src/lib.rs, in milliseconds

MinimumPeriod == SLOT_DURATION \div 2

(* Aura::slot_duration(): twice the minimum period. *)
slot_duration == 2 * MinimumPeriod

(* InherentDataProvider::from_timestamp_and_slot_duration *)
SlotOf(time) == time \div slot_duration

GenesisState == [number |-> 0, slot |-> 0, time |-> 0]

(* Slip: several blocks per slot. *)
InitializeLoose(parent, slot) == parent.slot <= slot

(* Aura's on_initialize with AllowMultipleBlocksPerSlot = false. *)
Initialize(parent, slot) == parent.slot < slot

(* Slip: a whole slot after the parent's timestamp. *)
CreateInherentFullSlot(parent, now) ==
  IF now >= parent.time + slot_duration THEN now ELSE parent.time + slot_duration

(* Timestamp's create_inherent: the time given, but MinimumPeriod after the *)
(* parent's at the earliest.                                                *)
CreateInherent(parent, now) ==
  IF now >= parent.time + MinimumPeriod THEN now ELSE parent.time + MinimumPeriod

(* Slip: OnTimestampSet = (), so that nobody compares timestamp and slot. *)
SetTimestampUnhooked(parent, slot, time) ==
  parent.time = 0 \/ time >= parent.time + MinimumPeriod

(* Timestamp's set, whose OnTimestampSet is Aura. *)
SetTimestamp(parent, slot, time) ==
  /\ parent.time = 0 \/ time >= parent.time + MinimumPeriod
  /\ SlotOf(time) = slot

(* The block can be executed on its parent: no assertion of the runtime fails. *)
Executes(parent, slot, time) == Initialize(parent, slot) /\ SetTimestamp(parent, slot, time)

==============================================================================
