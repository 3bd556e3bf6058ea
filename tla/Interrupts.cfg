SPECIFICATION FairSpec
CONSTANTS
  Irqs = {0, 1, 14}
  Bytes = {b1, b2}
  EOI = EOI
INVARIANTS NothingLeftInService TimerNeverDefault
PROPERTIES EoiRetiresOwn EveryIrqHandled
