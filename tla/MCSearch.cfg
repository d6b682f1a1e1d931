SPECIFICATION Spec
CONSTANTS
  ada = ada
  t = t
  u = u
  Units <- MCUnits
  Ada = ada
  Refs = {1, 2, 3, 4, 5}
  Books <- MCBooks
  MinAda = 2
  FeeScale = 10
  RatioScale = 1000
  FeeShare = 4
  Buffer = 3
  MaxBudget = 10
  MaxTakes = 4
  Assets <- MCUnits
  MaxHops = 3
  MaxTrade = 12
  Grid = 5
  MaxBefore = 1
  MinProfit = 1
  MaxEvaluations = 2
  Budgets <- MCBudgets
  Position <- MCPosition
  FeeBase = 1
  Shared <- MCShared
  Marginal <- MCMarginal
INVARIANTS
  QuoteSurvivesConstruction
  MakersServed
  SearchIsExhaustive
  FitIsMaximal
  BudgetsAreShared
CHECK_DEADLOCK FALSE
