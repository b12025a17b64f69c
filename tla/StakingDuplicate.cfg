SPECIFICATION Spec
CONSTANTS
  BalanceModulus = 1024
  ExistentialDeposit = 1
  AccountIds = {1, 2, 3}
  Candidates = {1, 2}
  Backers = {3}
  Endowment <- Rich
  GenesisStakers <- TwoStakers
  GenesisSettings <- EveryBlock
  SettingChoices <- OneSetting
  MinCollatorStake = 2
  MinNominatorStake = 1
  MaxNominationsPerCollator = 2
  PayoutDuration = 1
  BondAmounts = {}
  ExtraAmounts = {}
  LessAmounts = {}
  NominateAmounts = {1}
  NominateExtras = {}
  NominateLesses = {}
  Rewards = {0}
  MaxRound = 2
  MaxListed = 3
  MaxTotal = 4
  MaxStaked = 10
INVARIANTS
  OneNominationPerCollator
