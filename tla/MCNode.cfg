SPECIFICATION FairSpec
CONSTANTS
  Features = {"halongbay", "polkasmith"}
  Commands <- Various
  Txs = {t1}
  FilterIds = {f1}
  PendingRetain = 1
  FilterRetain = 2
  MaxStoredFilters = 1
  MaxBlock = 2
  MaxInbox = 2
CONSTANTS
  t1 = t1
  f1 = f1
INVARIANTS
  TypeOK
  NothingMissed
  IncludedForgotten
PROPERTIES
  KeptForItsLifespan
  NothingLeaks
CHECK_DEADLOCK FALSE
