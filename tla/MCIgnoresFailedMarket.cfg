\* A node that never lags, no restart.
CONSTANTS
  NumMarkets = 3
  LaggingNode = FALSE
  MaxRestarts = 0
SPECIFICATION Spec
INVARIANTS IgnoresFailedMarket
CHECK_DEADLOCK FALSE
