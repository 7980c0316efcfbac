SPECIFICATION Spec
CONSTANTS
  t = t
  u = u
  v = v
  d1 = d1
  d2 = d2
  Task = {t, u, v}
  Root = {t, u}
  Db = {d1, d2}
  MaxTrx = 2
  MaxDepth <- Depths
  MaxAttempts = 2
  Retried = {"transient"}
SYMMETRY Symmetry
INVARIANTS OneRunPerAttempt ContextsIsolated
PROPERTIES EndsWithItsCall
