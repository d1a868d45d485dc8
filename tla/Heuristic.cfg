SPECIFICATION FairSpec
CONSTANTS
  State <- SixStates
  Tasks <- HeuristicTasks
  INT_MAX = 16
  Values <- SmallValues
INVARIANTS
  TypeOK
  BoundsSound
  NothingLost
  
  
PROPERTIES
  SelectionOrder
  
  Termination
