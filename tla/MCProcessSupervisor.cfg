SPECIFICATION FairSpec
CONSTANTS
  Depth = 2
  MaxWrites = 2
  Capacity = 1
INVARIANTS SuccessIsComplete TimeoutContained GoodRunSucceeds
PROPERTIES ReturnsOnceReleased
CHECK_DEADLOCK FALSE
