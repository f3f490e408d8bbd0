SPECIFICATION ClocksSpec
CONSTANTS
  Families <- AllFamilies
  Clocks <- ClocksValue
  WrpllClocks <- WrpllValue
  Budgets <- BudgetsValue
  WrpllScale = 2000
  RefMin = 260
  PMax = 8
  NMax = 8192
INVARIANTS
  NearestDividers RegistersDescribe LinkCarriesMode
PROPERTY
  ChangedOnlyWhileStopped
