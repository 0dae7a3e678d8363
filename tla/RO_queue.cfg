CONSTANTS
  p1 = p1
  p2 = p2
  m1 = m1
  m2 = m2
  Procs = {p1, p2}
  Memories = {m1, m2}
  MaxItems = 2
  MaxAttempts = 2
  Lease = 2
  MaxDelay = 1
  HeldRetry = 1
  Requeueable = {1}
  None = None
SPECIFICATION Spec
SYMMETRY Symmetry
INVARIANTS
  TypeOK
  AttemptsAreFailures
  DeliveredWasApplied
  OneSenderPerMemory
PROPERTIES
  RemoteNeverGoesBack
  CancelledStaysCancelled
