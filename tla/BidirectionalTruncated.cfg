SPECIFICATION FairSpec
CONSTANTS
  State <- FourStates
  Tasks <- RowTasksDag
  INT_MAX = 10
  Searches = {"fw", "bw"}
  MaxIncreases = 2
PROPERTIES
  Termination
  ImplementsBounds
