CONSTANTS
  Local = {1}
  Remote = {2}
  Starts = 2
  N = 2
  Width = 2
  Fetchers = {"f1", "f2"}
  MaxVersions = 2
  MaxSearches = 1
  Mems = {"m1", "m2"}
  Workers = {"w"}
  Operators = {"o"}
  Low = {"m1", "m2"}
  Pinned = {"m1"}
  PastTime = {"m2"}
  PageSize = 2
  MaxUpdates = 1
  Floor = 1
  cuMaxFails = 1
  Docs = {"a"}
  Projects = {"p"}
  Callers = {"c"}
  Evictors = {"e1", "e2"}
  PartsOf <- MCPartsOf
  Size <- MCSize
  Cap = 2
  MaxRows = 3
  Hooks = {"h1", "h2"}
  MaxDenies = 2
  cgMaxFails = 1
SPECIFICATION UpkeepSpec
INVARIANTS
  TypesOK
  OldIsLate
  LimitsHold
PROPERTIES
  CreditSticks
  UpkeepEnds
CHECK_DEADLOCK FALSE
