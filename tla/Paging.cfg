SPECIFICATION Spec
CONSTANTS
  ENTRIES = 4
  DIR_ENTRIES = 8
  NUM_TABLES = 7
  PAGE_TABLES = 2
  USER_FLOOR = 4
  KernelPages <- BufferPages
  UserPages <- LoaderPages
  Pool <- MCPool
INVARIANTS MappingsHold UserReachesOwnFrames
CHECK_DEADLOCK FALSE
