\* Every book, read to every depth, in both directions.
CONSTANTS
  Key <- MCKey
  Child0 <- MCChild0
  Child1 <- MCChild1
  Quantity <- MCQuantity
  MaxDepth = 4
  U64 = 8
  PcLot = 3
  CoinLot = 2
  Own <- MCOwn
  Client <- MCClient
SPECIFICATION FairListSpec
INVARIANTS TypeOK BestFirst LinesInOrder UniqueIsExact
PROPERTIES EndsInFull
CHECK_DEADLOCK FALSE
