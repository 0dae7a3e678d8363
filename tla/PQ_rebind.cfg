CONSTANTS
  p1 = p1
  p2 = p2
  m1 = m1
  g1 = g1
  g2 = g2
  Procs = {p1, p2}
  Memories = {m1}
  MaxRev = 1
  Gens = {g1, g2}
  KindOf <- MCKindOf2
  Bindings <- TwoBindings
  MaxAttempts = 2
  Lease = 1
  Grace = 0
  Backoff <- MCBackoff
  MaxRequeues = 0
  RawDeletes = FALSE
  None = None
SPECIFICATION Spec
SYMMETRY Symmetry
INVARIANTS
  DoneIsEmbedded
PROPERTIES
  DoneReopenedOnlyIfMissing
