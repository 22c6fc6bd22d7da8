\* Durations of 4, halved or doubled; the clock starts late enough for their
\* slots to be apart and goes on to more than twice that; three blocks.
CONSTANTS
  n1 = n1  n2 = n2
  Nodes = {n1, n2}
  Authorities <- MCAuthorities
  Durations = {2, 4, 8}
  Started = 16
  MaxClock = 40
  MaxChain = 4
SPECIFICATION Spec
INVARIANTS
  TypeOK
  StaleNodesDoNotAuthor
  ChangeStallsInProportion
CHECK_DEADLOCK FALSE
