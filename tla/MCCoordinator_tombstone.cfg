SPECIFICATION Spec
CONSTANTS
  A = A
  B = B
  F = F
  x = x
  m = m
  c = c
  Intents = {A, B}
  Foreign = {F}
  Refs = {x, m, c}
  Spends <- MCSpends
  Pledges <- MCPledges
  Expires <- MCExpires
  NoTx = NoTx
  Nobody = Nobody
  MaxHeight = 5
  MaxForks = 1
  MaxGap = 1
  MaxReorg = 5
  Confirmations = 2
  Lag = 2
INVARIANT ConfirmedTombstones
CHECK_DEADLOCK FALSE
