\* A handler catches up with its open orders; the market account shares the channel.
CONSTANTS
  None = None
  m1 = m1
  group = group
  user = user
  dex = dex
  bids = bids
  asks = asks
  oo = oo
  Markets <- MCMarkets
  GroupKey = group
  UserKey = user
  MarketKey <- MCMarketKey
  BidsKey <- MCBidsKey
  AsksKey <- MCAsksKey
  OpenOrdersKey <- MCOpenOrdersKey
  Providers <- MCOpenOrdersOnly
  KeyCap = 2
  StateCap = 1
  BookCap = 1
  Keys <- MCOpenOrdersKeys
  BatchSize = 1
  MaxSnapshot = 2
  Absent <- MCAbsent
SPECIFICATION FairSpec
PROPERTIES ViewsCatchUp
CHECK_DEADLOCK FALSE
