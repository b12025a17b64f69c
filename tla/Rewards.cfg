SPECIFICATION FairSpec
CONSTANTS
  Accuracy = 100
  Ln2 = 69
  OnePercent = 1
  MaxTerms = 30
  NoAuthor = NoAuthor
  c1 = c1
  c2 = c2
  n1 = n1
  n2 = n2
  Authors = {c1, c2}
  MaxClaims = 2
  Collators = {c1, c2}
  Nominators = {n1, n2}
  Endowment <- MCEndowment
  Elsewhere = 200
  ExistentialDeposit = 1
  BlocksPerRound = 2
  PayoutDuration = 1
  Portion = 100
  Elections <- MCElections
  GenesisStaked = 500
  MaxNotes = 1
  MaxBlock = 4
INVARIANTS
  TypeOK
  AuthorIsLogged
  SealedWithAuthor
  PointsMatchBlocks
  MintWithinBudget
PROPERTIES
  HonestBlockSealed
