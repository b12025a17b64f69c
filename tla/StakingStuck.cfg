SPECIFICATION Spec
CONSTANTS
  BalanceModulus = 1024
  ExistentialDeposit = 1
  AccountIds = {1, 2, 3}
  Candidates = {1}
  Backers = {}
  Endowment <- Rich
  GenesisStakers <- NoStaker
  GenesisSettings <- EveryBlock
  SettingChoices <- OneSetting
  MinCollatorStake = 2
  MinNominatorStake = 1
  MaxNominationsPerCollator = 2
  PayoutDuration = 1
  BondAmounts = {2}
  ExtraAmounts = {1}
  LessAmounts = {1}
  NominateAmounts = {}
  NominateExtras = {}
  NominateLesses = {}
  Rewards = {0}
  MaxRound = 4
  MaxListed = 2
  MaxTotal = 4
  MaxStaked = 8
INVARIANTS
  NothingLeftReserved
