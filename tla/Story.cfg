SPECIFICATION MCSpec
INVARIANTS ListsComplete Computed TextKept
PROPERTIES ImplementsForest MoveEnds WritesOnly Predictable
CHECK_DEADLOCK FALSE
CONSTANTS
  Version = {3, 5}
  ObjectOf <- MCObjectOf
  AttributeOf <- MCAttributeOf
