\* Two accounts, values 0 to 2, three dispatches in two blocks.
CONSTANTS
  alice = alice  bob = bob
  Accounts = {alice, bob}
  MaxU32 = 2
  None = None
  InitialKey = alice
  MaxBlock = 2
  MaxDispatches = 3
SPECIFICATION Spec
INVARIANTS
  TypeOK
  ValueAccountedFor
  EventsOfThisBlock
  ChangesAreSigned
CHECK_DEADLOCK FALSE
