\* Every subcommand with every configuration.
SPECIFICATION Spec
INVARIANTS
  ConsensusOnlyAsConfigured
  NetworkStartsLast
PROPERTIES
  EssentialFailureStops
  SubcommandsEnd
CHECK_DEADLOCK FALSE
