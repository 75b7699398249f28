\* The same instance.
CONSTANTS
  Config <- MCConfig
  Handled <- MCHandled
  Lines <- MCLines
  Value <- MCValue
  PublicKeys <- MCKeys
  OrdersAt <- MCOrdersAt
  Devnet = TRUE
  Checked = FALSE
  NoRates <- MCNoRates
  U64 = 16
  MaxVersion = 2
SPECIFICATION Spec
INVARIANTS StatusAnswers
CHECK_DEADLOCK FALSE
