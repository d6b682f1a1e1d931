SPECIFICATION Spec
CONSTANTS
  Places = 9
  Wallets <- MCWallets
  Percent = 150
  MinAda = 2
  MaxFunding = 12
  CollateralAda = 6
  Target = 11
  MinProfit = 1
  MaxMaintenance = 3
  MaxDrawdown = 5
  FeeCaps = {}
  Nets = {1, 3, 5, 14, 30}
  Fees = {0, 1, 2, 4}
  Totals = {0, 2, 3, 5}
  MaxBuilds = 4
INVARIANTS
  BuiltIsAccepted
  SignedIsBounded
  WalletWithinDrawdown
PROPERTIES
  RolesKept
  ReservesKept
CHECK_DEADLOCK FALSE
