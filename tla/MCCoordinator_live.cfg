SPECIFICATION FairSpec
CONSTANTS
  A = A
  B = B
  F = F
  x = x
  m = m
  c = c
  Intents = {A}
  Foreign = {F}
  Refs = {x, m, c}
  Spends <- MCSpends
  Pledges <- MCPledges
  Expires <- MCExpires
  NoTx = NoTx
  Nobody = Nobody
  MaxHeight = 3
  MaxForks = 1
  MaxGap = 1
  MaxReorg = 3
  Confirmations = 1
  Lag = 1
PROPERTIES
  EventuallyClosed
  EventuallyTrue
CHECK_DEADLOCK FALSE
