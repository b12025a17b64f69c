SPECIFICATION Spec
CONSTANTS
  BalanceModulus = 1024
  ExistentialDeposit = 1
  AccountIds = {1, 2, 3}
  Candidates = {1}
  Backers = {3}
  Endowment <- Rich
  GenesisStakers <- OneRejected
  GenesisSettings <- EveryBlock
  SettingChoices <- TimeSettings
  MinCollatorStake = 2
  MinNominatorStake = 1
  MaxNominationsPerCollator = 2
  PayoutDuration = 2
  BondAmounts = {}
  ExtraAmounts = {}
  LessAmounts = {}
  NominateAmounts = {1}
  NominateExtras = {}
  NominateLesses = {}
  Rewards = {0, 2}
  MaxRound = 4
  MaxListed = 2
  MaxTotal = 2
  MaxStaked = 8
INVARIANTS
  ExposureWindow
  RoundTiming
PROPERTIES
  ElectedAreActive
