SPECIFICATION Spec
CONSTANTS
  p = p
  a = a
  q = q
  Intents = {p, a, q}
  Foreign = {}
  Refs <- MCRefs
  Spends <- MCSpends
  Pledges <- MCPledges
  Expires <- MCExpires
  Gain <- MCGain
  Risk <- MCRisk
  Limit = 4
  NoTx = NoTx
  Nobody = Nobody
  MaxHeight = 5
  MaxForks = 1
  MaxGap = 1
  MaxReorg = 3
  Confirmations = 2
INVARIANTS
  AnchorVouches
  BooksFollowBlocks
  DrawdownWithinLimit
CHECK_DEADLOCK FALSE
PROPERTY IncidentPauses
