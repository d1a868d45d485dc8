SPECIFICATION Spec
CONSTANTS
  State <- SmallStates
  Tasks <- FactTasks
  INT_MAX = 20
  Domain <- SmallDomain
  MaxStates = 4
  ValueCaps <- Caps
  Budgets <- PdbBudgets
  m = 1
INVARIANTS
  LevelsTypeOK
  MapAgreesWithLookup
  LevelsAreConsistent
  PatternFillsBudget
