SPECIFICATION Spec
CONSTANTS
  A = A
  B = B
  F = F
  x = x
  m = m
  c = c
  Intents = {A, B}
  Foreign = {F}
  Refs = {x, m, c}
  Spends <- MCSpends
  Pledges <- MCPledges
  Expires <- MCExpires
  NoTx = NoTx
  Nobody = Nobody
  MaxHeight = 5
  MaxForks = 2
  MaxGap = 1
  MaxReorg = 2
  Confirmations = 3
  Lag = 1
INVARIANTS
  TerminalIsFinal
  LandableStaysReserved
  ConfirmedTombstones
PROPERTIES
  StopHolds
  ImplementsOutbox
CHECK_DEADLOCK FALSE
