\* Three accounts, two of them endowed; an existential deposit of 3, a fee of 1
\* or 2; three extrinsics in a block.
CONSTANTS
  alice = alice  bob = bob  charlie = charlie
  Accounts = {alice, bob, charlie}
  Endowed = {alice, bob}
  Endowment = 6
  Sudo = alice
  ExistentialDeposit = 3
  LengthFee = 0
  BaseExtrinsic = 1
  MaxBlockWeight = 20
  MaxBlockLength = 20
  Initialization = 2
  InherentLength = 1
  BlockHashCount = 5
  Extrinsics <- MoneyExtrinsics
  SignedNonces = {0, 1, 2, 3}
  SignedAt = {}
  Elsewhere = Elsewhere
  MaxBlock = 1
  MaxApplied = 4
SPECIFICATION Spec
INVARIANTS
  TypeOK
  IssuanceAccounted
PROPERTY OnlySudoTouchesOthers
CHECK_DEADLOCK FALSE
