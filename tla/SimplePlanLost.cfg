SPECIFICATION RegistrySpec
CONSTANTS
  State <- FiveStates
  Tasks <- LoopTasks
  INT_MAX = 10
  Searches = {"fw", "bw"}
  MaxIncreases = 0
  MaxPlanLength = 8
INVARIANTS
  SimplePlanFound
