SPECIFICATION FairDiskSpec
CONSTANTS
  REG = 2
  TOP = 2
  WORDS = 2
  Lbas = {0, 1, 6, 13, 18}
INVARIANTS ReadsRequestedSector
PROPERTIES ReadReturns
CHECK_DEADLOCK FALSE
