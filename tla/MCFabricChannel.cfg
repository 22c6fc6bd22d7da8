\* Two assets and three concurrent transactions of every kind.
CONSTANTS
  a1 = a1  a2 = a2
  alice = alice  bob = bob  garbled = garbled  ufffd = ufffd
  red = red  blue = blue
  t1 = t1  t2 = t2  t3 = t3  t4 = t4
  Ids = {a1, a2}
  Names <- MCNames
  Malformed <- MCMalformed
  Replacement = ufffd
  Details <- MCDetails
  NoAsset = NoAsset
  NoReturn = NoReturn
  Txs = {t1, t2, t3}
  Invocations <- InvocationsOnTwo
  MaxCopies = 1
  Idle = Idle
  Refused = Refused
SPECIFICATION Spec
SYMMETRY TxSymmetry
INVARIANT TypeOK
PROPERTY ImplementsLedger
CHECK_DEADLOCK FALSE
