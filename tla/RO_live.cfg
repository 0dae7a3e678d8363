CONSTANTS
  p1 = p1
  p2 = p2
  m1 = m1
  m2 = m2
  Procs = {p1}
  Memories = {m1}
  MaxItems = 2
  MaxAttempts = 2
  Lease = 1
  MaxDelay = 1
  HeldRetry = 1
  Requeueable = {}
  None = None
SPECIFICATION FairSpec
PROPERTIES
  EveryItemSettles
