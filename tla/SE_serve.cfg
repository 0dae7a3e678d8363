CONSTANTS
  Files = {f1, f2}
  Versions = {1, 2}
  Length <- MCLength
  MaxChars = 2
  Overlap = 1
  MaxFails = 1
  Mems = {"m"}
  Gens = {1, 2}
  Serves = {1, 2}
  vcOwn = 2
  MaxRev = 2
  MaxSwaps = 1
  Sessions = {"s"}
  ServeIdle = 0
  HubIdle = 2
  erOwn = "own"
  Siblings = {"a", "b"}
  MaxEmbeds = 3
  erMaxFails = 1
  Searches = {"s1", "s2"}
  RecentLimit = 1
  MaxInserts = 2
  MaxDeletes = 1
  MaxDetects = 2
  elMaxFails = 0
SPECIFICATION ServeSpec
INVARIANTS
  TypesOK
  SpacesStayApart
  MarksAreTrue
PROPERTIES
  ServeSettles
CHECK_DEADLOCK FALSE
