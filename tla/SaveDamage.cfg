CONSTANTS
  STACK_SIZE = 40
  Version = {5, 6}
  Machine <- MCMachine
  Later <- MCLater
  Story <- MCStory
  h_dynamic_size <- MCSize
  HEADER = {0}
  Variant = {"own", "cut", "spare"}
SPECIFICATION Spec
INVARIANT NoDamage
CHECK_DEADLOCK FALSE
