\* Two handlers follow the open orders of their markets on a shared channel.
CONSTANTS
  None = None
  m1 = m1
  m2 = m2
  group = group
  user = user
  dex1 = dex1
  dex2 = dex2
  bids1 = bids1
  bids2 = bids2
  asks1 = asks1
  asks2 = asks2
  oo1 = oo1
  oo2 = oo2
  Markets <- MCMarkets
  GroupKey = group
  UserKey = user
  MarketKey <- MCMarketKey
  BidsKey <- MCBidsKey
  AsksKey <- MCAsksKey
  OpenOrdersKey <- MCOpenOrdersKey
  Providers <- MCProviders
  KeyCap = 1
  StateCap = 2
  BookCap = 1
  Keys <- MCKeys
  BatchSize = 2
  MaxSnapshot = 2
  Absent <- MCAbsent
SPECIFICATION Spec
INVARIANTS StaleCopyIsPending KeptIsOwn
CHECK_DEADLOCK FALSE
