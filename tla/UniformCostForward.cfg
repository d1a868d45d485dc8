SPECIFICATION Spec
CONSTANTS
  State <- ThreeStates
  Tasks <- SmallTasks
  INT_MAX = 8
  Searches = {"fw"}
  MaxIncreases = 0
INVARIANTS
  TypeOK
  AnswerOptimal
