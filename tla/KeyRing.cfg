SPECIFICATION FairRingSpec
CONSTANTS
  KB_BUF_SIZE = 4
  Chars = {k1, k2}
  NUL = NUL
INVARIANTS GetReturnsKey
PROPERTIES SlotInFlight EveryKeyTaken ImplementsQueue
