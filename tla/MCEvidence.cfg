SPECIFICATION Spec
CONSTANTS
  A = A
  B = B
  C = C
  x = x
  y = y
  c = c
  Intents = {}
  Foreign <- MCForeign
  Refs <- MCRefs
  Spends <- MCSpends
  Pledges <- MCPledges
  Expires <- MCExpires
  NoTx = NoTx
  MaxHeight = 5
  MaxForks = 1
  MaxGap = 1
  MaxReorg = 1
  Ref = x
  Own = A
  Rank <- MCRank
  PageSize = 2
  MaxPages = 4
  Confirmations = 2
INVARIANTS
  HistoryIsWhole
  SpenderIsSettled
CHECK_DEADLOCK FALSE
