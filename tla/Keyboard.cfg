SPECIFICATION Spec
CONSTANTS
  WireSize = 2
  Capacity = 1
  Keys <- MCKeys
CONSTRAINT Bound
INVARIANTS TypedIsRead ModifiersRecover
