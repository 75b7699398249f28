\* Every kind of line, any number of them, copies of up to two versions.
CONSTANTS
  Config <- MCConfig
  Handled <- MCHandled
  Lines <- MCLines
  Value <- MCValue
  PublicKeys <- MCKeys
  OrdersAt <- MCOrdersAt
  Devnet = TRUE
  Checked = FALSE
  NoRates <- MCNoRates
  U64 = 16
  MaxVersion = 2
SPECIFICATION FairSpec
INVARIANTS TypeOK ReadsAreCurrent PanicsAreKnown
PROPERTIES OnePerLine CommandEnds HashCatchesUp
CHECK_DEADLOCK FALSE
