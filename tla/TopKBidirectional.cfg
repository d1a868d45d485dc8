SPECIFICATION TopKSpec
CONSTANTS
  State <- ThreeStates
  Tasks <- BothDirectionsTasks
  INT_MAX = 10
  Searches = {"fw", "bw"}
  MaxIncreases = 1
  MaxPlanLength = 6
INVARIANTS
  TopKTypeOK
  NoPlanMissed
  ReportedArePlans
PROPERTIES
  PlansInOrder
