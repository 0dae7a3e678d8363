CONSTANTS
  p1 = p1
  p2 = p2
  m1 = m1
  g1 = g1
  g2 = g2
  Procs = {p1, p2}
  Memories = {m1}
  MaxRev = 2
  Gens = {g1}
  KindOf <- MCKindOf1
  Bindings <- OneBinding
  MaxAttempts = 2
  Lease = 1
  Grace = 1
  Backoff <- MCBackoff
  MaxRequeues = 0
  RawDeletes = FALSE
  None = None
SPECIFICATION BuildSpec
PROPERTIES
  EveryJobSettles
  BuildCompletes
