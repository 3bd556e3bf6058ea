SPECIFICATION FairSpec
CONSTANTS
  W = 4
  MaxKeys = 2
  MaxSleep = 2
  MaxPrograms = 2
INVARIANTS KernelHasInterruptsOn ContextIsOwnExec SleepLength
PROPERTIES WaitsEnd LineTaken
