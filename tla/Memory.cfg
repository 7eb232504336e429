CONSTANTS
  Cell = {1, 2}
  Header = {1}
  HeaderSet = {1}
  Regs = {r1, r2}
  SLOTS = 2
  Block = {b1, b2, b3}
  NULL = NULL
  MallocFails = TRUE
SPECIFICATION MCSpec
INVARIANTS Consistent ListIntact Computed
PROPERTIES Allocates ImplementsFiles ImplementsHistory SaveTerminates
CHECK_DEADLOCK FALSE
