SPECIFICATION Spec
CONSTANTS
  LastDate = 6
  MonthEnd <- MCMonthEnd
  UnitCost = 2
  CommissionPct = 10
  Share <- MCShare
  d1 = d1
  d2 = d2
  Devices <- MCDevices
  Scenarios <- MCScenarios
SYMMETRY Symmetry
CHECK_DEADLOCK FALSE
INVARIANTS
  AllocationsAgree
