\* Two authorities; slots of four ticks, the third cut short; three blocks.
CONSTANTS
  n1 = n1  n2 = n2
  Nodes = {n1, n2}
  Authorities <- MCAuthorities
  SLOT_DURATION = 4
  MaxDrift = 6
  MaxClock = 9
  MaxBlocks = 3
  NoJob = NoJob
SPECIFICATION Spec
INVARIANTS
  TypeOK
  OneBlockPerSlotOnAChain
  ProposalsExecute
  TimestampsNearClock
CHECK_DEADLOCK FALSE
