SPECIFICATION FairSpec
CONSTANTS
  nA = nA
  nB = nB
  h1 = h1
  h2 = h2
  none = none
  noRow = noRow
  Name = {nA, nB}
  Hash = {h1, h2}
  NoHash = none
  RowId = {1, 2}
  NoRow = noRow
  DeriveRowId <- MCDerive
  Proc = {p, q, op}
  Reverter = {}
  Operator = {op}
  Drifting = {p}
  Inputs <- OldAndNew
  InitRows <- EmptyTable
  MaxFaults = 2
  MaxHaste = 1
INVARIANTS NoDoubleApplication OrderedApplication
PROPERTIES EventuallyUpToDate
