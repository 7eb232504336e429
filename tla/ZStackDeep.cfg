CONSTANTS
  STACK_SIZE = 16
  MaxLocals = 0
  MaxArgs = 0
  MaxCalls = 1
  MaxEval = 0
  Word <- MCWord
  PC = {512}
  START_PC = 512
  ROUTINES <- MCRoutines
  Abrupt = {"throw", "restart", "quit"}
  Parts = {"frames", "values"}
SPECIFICATION MCSpec
PROPERTIES ImplementsFrames ImplementsValues
CHECK_DEADLOCK FALSE
