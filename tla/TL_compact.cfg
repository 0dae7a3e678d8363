CONSTANTS
  a = a
  b = b
  MaxTime = 3
  Payloads = {a, b}
  None = None
SPECIFICATION CompactSpec
PROPERTIES
  CompactIsLossless
