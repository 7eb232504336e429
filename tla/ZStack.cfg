CONSTANTS
  STACK_SIZE = 10
  MaxLocals = 1
  MaxArgs = 1
  MaxCalls = 2
  MaxEval = 1
  Word <- MCWord
  PC <- MCPC
  START_PC = 511
  ROUTINES <- MCRoutines
  Abrupt = {}
  Parts = {"frames"}
SPECIFICATION MCSpec
INVARIANTS TypeOK FrameIntegrity LoopPerDirectCall
PROPERTIES DirectCallTransparent ImplementsFrames
CHECK_DEADLOCK FALSE
