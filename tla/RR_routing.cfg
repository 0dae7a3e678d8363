CONSTANTS
  search = search
  write1 = write1
  write2 = write2
  Searches = {search}
  Writes = {write1, write2}
  Remotes = 2
  TTL = 2
  MissTTL = 1
  MaxAsk = 1
SPECIFICATION Spec
SYMMETRY Symmetry
INVARIANT TypeOK
PROPERTIES
  WriteNeverPassesOver
  SearchPrefersHigher
  MissesAreShort
  SearchKeepsHold
