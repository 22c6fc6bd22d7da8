\* An account that is emptied and filled again; eras of four blocks, and blocks
\* enough for the first of them to recur; four extrinsics.
CONSTANTS
  alice = alice  bob = bob  charlie = charlie
  Accounts = {alice, bob, charlie}
  Endowed = {alice, bob}
  Endowment = 6
  Sudo = alice
  ExistentialDeposit = 3
  LengthFee = 0
  BaseExtrinsic = 1
  MaxBlockWeight = 20
  MaxBlockLength = 20
  Initialization = 2
  InherentLength = 1
  BlockHashCount = 5
  Extrinsics <- EraExtrinsics
  SignedNonces = {0, 1}
  SignedAt = {0, 1, 2}
  Elsewhere = Elsewhere
  MaxBlock = 7
  MaxApplied = 4
SPECIFICATION Spec
INVARIANTS
  OncePerLife
  EraRespected
CHECK_DEADLOCK FALSE
