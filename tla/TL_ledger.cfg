CONSTANTS
  a = a
  b = b
  MaxTime = 4
  Payloads = {a, b}
  None = None
SPECIFICATION Spec
SYMMETRY Symmetry
INVARIANTS
  TypeOK
  NeverRefused
  CurrentViewIsLedger
PROPERTIES
  KeepsHistory
