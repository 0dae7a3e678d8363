CONSTANTS
  Files = {f1, f2}
  Versions = {1, 2}
  Length <- MCLength
  MaxChars = 2
  Overlap = 1
  MaxFails = 1
SPECIFICATION Spec
PROPERTY StartReturns
CHECK_DEADLOCK FALSE
