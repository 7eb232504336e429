CONSTANTS
  TEXT_BUFFER_SIZE = 4
  MAX_NESTING = 1
  WIDTH = 2
  XSIZES = {2}
  Table = {t1}
  Reentrant = FALSE
  MaxPrinted = 4
  MaxSwitches = 2
  MaxCalls = 2
  t1 = t1
SPECIFICATION Spec
INVARIANTS Consistent Wrapped Prompted
PROPERTIES WidthReported ImplementsStreams
CHECK_DEADLOCK FALSE
