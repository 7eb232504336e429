SPECIFICATION MCSpec
INVARIANTS Kept Paged Follows AsPrinted
PROPERTIES ImplementsLine UpperKeeps
CHECK_DEADLOCK FALSE
CONSTANTS
  Char = {97, 98}
  LineMax = 3
  Preload = 3
  Column = {1}
  Screen = {0, 1}
