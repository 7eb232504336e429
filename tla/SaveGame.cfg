CONSTANTS
  STACK_SIZE = 40
  Version = {5, 6}
  Machine <- MCMachine
  Later <- MCLater
  Story <- MCStory
  h_dynamic_size <- MCSize
  HEADER = {0}
  Variant = {"own", "abroad", "plain", "noted", "twice", "swapped", "late", "foreign", "no IFhd", "no CMem", "no Stks"}
SPECIFICATION Spec
PROPERTIES ImplementsSaved Restored
CHECK_DEADLOCK FALSE
