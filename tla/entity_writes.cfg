SPECIFICATION FairSpec
CONSTANTS
  h1 = h1
  h2 = h2
  h3 = h3
  k1 = k1
  k2 = k2
  k3 = k3
  k4 = k4
  k5 = k5
  k6 = k6
  x = x
  u = u
  y = y
  v = v
  c1 = c1
  c2 = c2
  touched = touched
  now = now
  Handle = {h1, h2, h3}
  Key = {k1, k2, k3, k4, k5, k6}
  Column = {x, u, y}
  CreateDate = {u}
  UpdateDate = {}
  HookSets = {y}
  Touched = touched
  Now = now
  Value = {v}
  Call = {c1, c2}
  BatchSize = 2
  RemoveHook = TRUE
  Entities <- OneFlaw
  Lists <- InTwo
  MaxFaults = 1
  MaxRequests = 3
  Null = Null
  Unset = Unset
  None = None
CHECK_DEADLOCK FALSE
INVARIANTS OneRowPerEntity RefusedWritesNothing AfterInsertWhenStored
PROPERTIES WritesWhatIsThere EventuallyStored
