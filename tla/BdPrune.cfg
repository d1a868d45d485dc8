SPECIFICATION BdSpec
CONSTANTS
  State <- FourStates
  Tasks <- PruneTasks
  INT_MAX = 12
  Searches = {"fw", "bw"}
  MaxIncreases = 1
  Abstractions <- AllAbstractions
  DeferBuild = TRUE
INVARIANTS
  BlindUntilSolution
  BoundsSound
  PrunedAreUseless
  AnswerOptimal
