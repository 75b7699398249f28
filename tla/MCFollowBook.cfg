\* A handler catches up with both sides of its book.
CONSTANTS
  None = None
  m1 = m1
  group = group
  user = user
  dex = dex
  bids = bids
  asks = asks
  oo = oo
  Markets <- MCMarkets
  GroupKey = group
  UserKey = user
  MarketKey <- MCMarketKey
  BidsKey <- MCBidsKey
  AsksKey <- MCAsksKey
  OpenOrdersKey <- MCOpenOrdersKey
  Providers <- MCBookOnly
  KeyCap = 2
  StateCap = 1
  BookCap = 1
  Keys <- MCBookKeys
  BatchSize = 2
  MaxSnapshot = 2
  Absent <- MCAbsent
SPECIFICATION FairSpec
PROPERTIES ViewsCatchUp ShutdownEnds
CHECK_DEADLOCK FALSE
