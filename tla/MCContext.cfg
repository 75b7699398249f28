\* The cypher context follows the user and the group through tiny channels.
CONSTANTS
  None = None
  group = group
  user = user
  Markets = {}
  GroupKey = group
  UserKey = user
  MarketKey <- MCNoKeys
  BidsKey <- MCNoKeys
  AsksKey <- MCNoKeys
  OpenOrdersKey <- MCNoKeys
  Providers <- MCProviders
  KeyCap = 1
  StateCap = 2
  BookCap = 1
  Keys <- MCKeys
  BatchSize = 1
  MaxSnapshot = 2
  Absent <- MCAbsent
SPECIFICATION Spec
INVARIANTS NotifiedIsCached StaleCopyIsPending
PROPERTIES MirrorSpec
CHECK_DEADLOCK FALSE
