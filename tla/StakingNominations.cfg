SPECIFICATION Spec
CONSTANTS
  BalanceModulus = 1024
  ExistentialDeposit = 1
  AccountIds = {1, 2, 3}
  Candidates = {1, 2}
  Backers = {3}
  Endowment <- Scant
  GenesisStakers <- TwoStakers
  GenesisSettings <- EveryBlock
  SettingChoices <- OneSetting
  MinCollatorStake = 2
  MinNominatorStake = 1
  MaxNominationsPerCollator = 2
  PayoutDuration = 1
  BondAmounts = {2}
  ExtraAmounts = {}
  LessAmounts = {}
  NominateAmounts = {1, 2}
  NominateExtras = {1}
  NominateLesses = {1}
  Rewards = {0}
  MaxRound = 3
  MaxListed = 3
  MaxTotal = 4
  MaxStaked = 8
INVARIANTS
  TypeOK
  NominatorLedger
  NominationMirrored
  NominatorRefunds
  StakeCovered
