CONSTANTS
  SIZE = 3
  Overlap = TRUE
  MaxPresses = 2
SPECIFICATION FairSpec
PROPERTY KeysDelivered
CHECK_DEADLOCK FALSE
