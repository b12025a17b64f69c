SPECIFICATION Spec
CONSTANTS
  n1 = n1
  n2 = n2
  r1 = r1
  r2 = r2
  Natives = {n1, n2}
  Relays = {r1, r2}
  TreasuryAccount = pot
  Proofs <- MCProofs
  ExistentialDeposit = 2
  TransferAmounts = {3}
  Contributions = {2, 5}
  Rates = {1}
  Endowments = {4}
  MaxBlock = 3
INVARIANTS
  TypeOK
  PeriodPositive
  PaidWithinReward
  VestedOnSchedule
PROPERTIES
  PaidOnlyWithProof
  RelayStaysAssociated
  ImplementsVesting
