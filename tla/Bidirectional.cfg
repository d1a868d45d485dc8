SPECIFICATION Spec
CONSTANTS
  State <- FourStates
  Tasks <- BidirectionalTasks
  INT_MAX = 16
  Searches = {"fw", "bw"}
  MaxIncreases = 1
INVARIANTS
  BoundsSound
  ExactLevels
  PlanReconstructible
  NothingLost
  AnswerOptimal
PROPERTIES
  ClosedInOrder
  ClosedAfterPredecessor
