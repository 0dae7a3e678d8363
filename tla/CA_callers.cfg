CONSTANTS
  Users = {"u1", "u2"}
  shMaxWrites = 2
  msMems = {"m1", "m2"}
  msTexts <- MCmsTexts
  msCallers = {"p", "q"}
  msMaxWrites = 2
  Keys = {"k"}
  Notes = {"n1", "n2"}
  ttSessions = {"s"}
  Topics = {"t1", "t2"}
  ttCallers = {"p1", "p2"}
  MaxCalls = 3
  drMems = {1, 2, 3}
  drTexts = {1, 2}
  Runners = {"r1", "r2"}
  ProjectOf <- MCProjectOf
  NearPairs <- MCNearPairs
  drMaxEdits = 1
  MaxRuns = 2
  hmSessions = {"s1", "s2"}
  hmTexts = {"a"}
  Limit = 2
  MaxSaves = 2
  Recent = 1
  hmMaxRows = 2
  MaxHooks = 2
  Dirs = {"r", "w1", "w2", "c"}
  Writers = {"w"}
  Operators = {"o1", "o2"}
  RootOf <- MCRootOf
  RemoteOf <- MCRemoteOf
  pjMaxRows = 9
  imItems <- MCItems
  Importers = {"r1", "r2"}
  DirToPath <- MCDirToPath
  CategoryOf <- MCCategoryOf
  MaxClock = 3
  MaxRecords = 2
  imMaxFails = 1
  Machines = {"c1", "c2"}
  Projects = {"app", "web", "notes"}
  ByHand = {"c1"}
  KeyOf <- MCKeyOf
  SlugOf <- MCSlugOf
  Remotes = {"home", "work"}
  bsRoute <- MCRoute
  AtFirst <- MCAtFirst
  AutoSynced = {"home"}
  Memories <- MCMemories
  PerBatch = 1
  LocalKey <- MCLocalKey
  SuffixedSlug <- MCSuffixedSlug
  StampedKeys <- MCStampedKeys
  bsMaxFails = 1
  MaxLinks = 1
  Runs = {"u1", "u2"}
  suMaxVersion = 2
  suMaxFails = 1
  psSessions = {"i1", "i2"}
  psMaxVersion = 3
  MaxCrashes = 1
  psMaxEdits = 1
  Procs = {"d1", "d2"}
  Size = 2
  MaxRetries = 2
  MaxStarts = 3
  mdMaxFails = 2
  Lengths = {1, 5}
  MinRules = 1
  CharsPerToken = 2
  Budget = 5
  MaxItems = 2
  sbMaxEdits = 1
  srMems = {1, 2, 3}
  Elsewhere = {3}
  Global = {1}
  Covering = {2}
  Low = {1}
  Pinned = {}
  Aged = {1}
  Focus = {1}
  PerOrigin = 1
  Overscan = 1
  Limits = {1}
  fsIds = {1, 2, 3}
  fsTexts = {"t1", "t2"}
  MaxHits = 2
  fsLimit = 4
  none = none
  nokey = nokey
SPECIFICATION CallersSpec
INVARIANTS
  TypesOK
  RepositoriesStayApart
  DoneMeansDone
  AnswersAreSound
  TokensAreBest
  WholeOrNotAtAll
PROPERTIES
  NothingIsUndone
CHECK_DEADLOCK FALSE
