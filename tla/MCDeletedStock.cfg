SPECIFICATION Spec
CONSTANTS
  LastDate = 6
  MonthEnd <- MCMonthEnd
  UnitCost = 2
  CommissionPct = 10
  Share <- MCShare
  Scenarios <- MCScenarios
INVARIANT StockRestored
CHECK_DEADLOCK FALSE
