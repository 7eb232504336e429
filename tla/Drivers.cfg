CONSTANTS
  SIZE = 4
  MaxPresses = 3
  SECTORS = 4
  TRIES = 2
  MaxReads = 2
  WORDS = 2
  DIRS = 3
  GAMEDISK = 4
  RAM = 7
  PAGE_SIZE = 2
  MODULUS = 64
  SECTOR_SIZE = 1
  Atapi = FALSE
  Junk <- MCJunk
  Value <- MCValue
  Instruction <- MCInstruction
SPECIFICATION MCFairSpec
INVARIANTS InOrder PagesPrivate
PROPERTIES KeysDelivered PollingEnds ImplementsFlat AccessEnds
CHECK_DEADLOCK FALSE
