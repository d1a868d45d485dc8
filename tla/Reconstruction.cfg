SPECIFICATION RegistryFairSpec
CONSTANTS
  State <- FiveStates
  Tasks <- CycleTasks
  INT_MAX = 10
  Searches = {"fw", "bw"}
  MaxIncreases = 0
  MaxPlanLength = 8
INVARIANTS
  RegistryTypeOK
  PlanValid
  PlanFound
  PlanSimple
PROPERTIES
  ReconstructionEnds
