SPECIFICATION TopKSpec
CONSTANTS
  State <- FourStates
  Tasks <- HastyTasks
  INT_MAX = 20
  Searches = {"fw"}
  MaxIncreases = 0
  MaxPlanLength = 8
INVARIANTS
  NoneLeftWhenProven
