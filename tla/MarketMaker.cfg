SPECIFICATION FairSpec
CONSTANTS
  OrderSize = 1
  BidMost = 2
  Target = 2
  MaxBase = 4
  Threshold = 2
  MaxRebalance = 1
  MaxFee = 1
  Venue = 1
  Collateral = 1
  MaxTotalFees = 2
  MaxRecent = 2
  MaxForks = 1
  MaxPaid = 1
INVARIANTS
  NeverTwoPairs
  BaseWithinLimit
  AdmissionBudget
PROPERTIES
  CancelHolds
  CancelCompletes
CHECK_DEADLOCK FALSE
