SPECIFICATION Spec
CONSTANTS
  x = x
  y = y
  z = z
  a = a
  b = b
  c = c
  Refs = {x, y, z}
  Credential <- MCCredential
  Credentials = 2
  Plans = {a, b, c}
  Uses <- MCUses
  Gain <- MCGain
  Dano = {a}
  Until <- MCUntil
  Fees = {1, 2}
  MinProfit = 1
  MaxAge = 5
  Margin = 1
  MaxEvaluations = 3
  Confirmations = 1
  TtlSpan = 6
  DanoSpan = 4
  EpochLength = 5
  Eras <- MCEras
  MaxTime = 8
  MaxHeight = 1
PROPERTIES
  ObservationHolds
  BestIsSent
CHECK_DEADLOCK FALSE
