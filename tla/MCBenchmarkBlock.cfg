\* A chain of up to eight blocks with up to two extrinsics, stopped anywhere; the
\* parent's time anywhere in its slot of four; a block that holds three transfers
\* or seven remarks.
CONSTANTS
  alice = alice  bob = bob
  Alice = alice  Bob = bob
  Accounts = {alice, bob}
  Endowed = {alice, bob}
  Endowment = 200
  Sudo = alice
  ExistentialDeposit = 3
  LengthFee = 0
  BaseExtrinsic = 1
  MaxBlockWeight = 20
  MaxBlockLength = 20
  Initialization = 2
  InherentLength = 1
  RemarkWeight = 1
  TransferWeight = 4
  BlockHashCount = 5
  SLOT_DURATION = 4
  ParentTimes = {4, 5, 6, 7}
  Extrinsics <- MCExtrinsics
  Elsewhere = Elsewhere
  MaxBlock = 9
  MaxApplied = 20
  MaxBefore = 2
SPECIFICATION BenchmarkSpec
INVARIANTS
  FailsOnlyOnUsedChain
  EraFromBestIsValid
  PeriodWithinHistory
PROPERTY BenchmarkEnds
CHECK_DEADLOCK FALSE
