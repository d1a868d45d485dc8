SPECIFICATION TopKFairSpec
CONSTANTS
  State <- ThreeStates
  Tasks <- LoopWithoutGoal
  INT_MAX = 12
  Searches = {"fw"}
  MaxIncreases = 0
  MaxPlanLength = 4
PROPERTIES
  TerminatesWhenProven
