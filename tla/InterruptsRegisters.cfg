SPECIFICATION Spec
CONSTANTS
  Irqs = {0, 1, 14}
  Bytes = {b1, b2}
  EOI = EOI
PROPERTIES RegistersPreserved
