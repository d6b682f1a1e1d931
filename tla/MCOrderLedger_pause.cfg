SPECIFICATION Spec
CONSTANTS
  create = create
  other = other
  fill = fill
  close1 = close1
  close2 = close2
  o1 = o1
  o2 = o2
  o3 = o3
  Creates = {create, other}
  Fills = {fill}
  Closes = {close1, close2}
  None = None
  Takes <- MCTakes
  Makes <- MCMakes
  Confirmations = 2
  Lag = 2
  Gaps = 1
  MaxHeight = 4
  MaxForks = 1
  MaxReorg = 4
INVARIANT DisagreementPauses
CHECK_DEADLOCK FALSE
