\* The order book provider rebuilds the two sides; the handler shares the book.
CONSTANTS
  None = None
  m1 = m1
  group = group
  user = user
  dex = dex
  bids = bids
  asks = asks
  oo = oo
  Markets <- MCMarkets
  GroupKey = group
  UserKey = user
  MarketKey <- MCMarketKey
  BidsKey <- MCBidsKey
  AsksKey <- MCAsksKey
  OpenOrdersKey <- MCOpenOrdersKey
  Providers <- MCProviders
  KeyCap = 2
  StateCap = 1
  BookCap = 2
  Keys <- MCKeys
  BatchSize = 2
  MaxSnapshot = 3
  Absent <- MCAbsent
SPECIFICATION Spec
INVARIANTS TypeOK CacheFaithful StaleBookIsPending KeptIsOwn
PROPERTIES MirrorSpec
CHECK_DEADLOCK FALSE
