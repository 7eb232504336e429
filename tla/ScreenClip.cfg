SPECIFICATION Spec
INVARIANT InWindow
CHECK_DEADLOCK FALSE
CONSTANTS
  Versions = {5}
  Height = 4
  Width = 3
  MoreWidth = 2
  Heights = {0, 1}
  Lengths = {0, 2}
  MinInput = 2
  MaxInput = 3
  Clips = TRUE
  MaxSteps = 4
