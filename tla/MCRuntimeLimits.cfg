\* One rich account and a block of 20: 15 for normal extrinsics, 5 in reserve; a length
\* of 12: 9 for normal ones.
CONSTANTS
  alice = alice  bob = bob  charlie = charlie
  Accounts = {alice, bob, charlie}
  Endowed = {alice, bob}
  Endowment = 200
  Sudo = alice
  ExistentialDeposit = 3
  LengthFee = 0
  BaseExtrinsic = 1
  MaxBlockWeight = 20
  MaxBlockLength = 12
  Initialization = 2
  InherentLength = 1
  BlockHashCount = 5
  Extrinsics <- LimitExtrinsics
  SignedNonces = {0, 1, 2, 3, 4, 5, 6}
  SignedAt = {}
  Elsewhere = Elsewhere
  MaxBlock = 2
  MaxApplied = 7
SPECIFICATION Spec
INVARIANTS
  BlockNotOverfull
  OperationalGetsIn
CHECK_DEADLOCK FALSE
