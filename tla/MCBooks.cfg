SPECIFICATION Spec
CONSTANTS
  LastDate = 6
  MonthEnd <- MCMonthEnd
  UnitCost = 2
  CommissionPct = 10
  Share <- MCShare
  Scenarios <- MCScenarios
INVARIANTS
  TypeOK
  PeriodsDisjoint
  JournalsInPeriod
  DoubleEntry
  PartyPositions
  AllocationsFunded
  OneReversal
  ClosedZero
  CapitalAgrees
  OneOpening
  StockValued
PROPERTIES
  ClosedFrozen
CHECK_DEADLOCK FALSE
