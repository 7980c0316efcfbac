SPECIFICATION Spec
CONSTANTS
  k = k
  x = x
  y = y
  b = b
  text = text
  stamp = stamp
  i = i
  j = j
  items = items
  links = links
  Column = {k, x, y, b}
  Type = {text, stamp}
  Unsupported = unsupported
  Temporal = {stamp}
  Blind <- MCBlind
  Index = {i, j}
  None = none
  Replica = {r1, r2}
  Tables <- MCTables
  Version <- MCVersion
  Initial <- MCInitial
  MaxFaults = 1
CHECK_DEADLOCK FALSE
INVARIANTS SyncedStaysClean PlanRuns
PROPERTIES EventuallySynced
