SPECIFICATION TopKFairSpec
CONSTANTS
  State <- ThreeStates
  Tasks <- OneDirectionTasks
  INT_MAX = 12
  Searches = {"bw"}
  MaxIncreases = 0
  MaxPlanLength = 8
INVARIANTS
  PlansWithinQuality
  AnswerComplete
PROPERTIES
  KPlansFound
