SPECIFICATION Spec
CONSTANTS
  nA = nA
  nB = nB
  h1 = h1
  h2 = h2
  none = none
  noRow = noRow
  Name = {nA, nB}
  Hash = {h1, h2}
  NoHash = none
  RowId = {1, 2}
  NoRow = noRow
  DeriveRowId <- MCDerive
  Proc = {p, q}
  Reverter = {p}
  Operator = {p, q}
  Drifting = {p, q}
  Inputs <- OldAndNew
  InitRows <- EmptyTable
  MaxFaults = 2
  MaxHaste = 2
INVARIANTS LedgerTruthful CrashSafe
PROPERTIES ImplementsLifecycle
