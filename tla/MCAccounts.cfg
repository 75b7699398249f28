\* Two markets, one restart, two commands; native units of a hundredth.
CONSTANTS
  NumMarkets = 2
  LaggingNode = TRUE
  MaxRestarts = 1
  Devnet = TRUE
  Numbers <- MCNumbers
  Delegates <- MCDelegates
  NoKey = "none"
  Amounts <- MCAmounts
  AirdropAmount = 40
  Scale = 100
  Precision = 6
  MaxExp = 14
  U64 = 256
  MaxLines = 2
SPECIFICATION AccountsFairSpec
INVARIANTS TypeOK PreparedExist OutcomeHasCause RecreatesOnlyIfMisled FundTypeOK AirdropFits DepositIsTyped DepositsAreAsked
PROPERTIES HealthyNodeSuffices
CHECK_DEADLOCK FALSE
