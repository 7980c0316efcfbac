SPECIFICATION Spec
CONSTANTS
  nA = nA
  nB = nB
  nC = nC
  h1 = h1
  h2 = h2
  none = none
  noRow = noRow
  Name <- MCName
  Hash <- MCHash
  NoHash = none
  RowId <- MCRowId
  NoRow = noRow
  DeriveRowId <- MCDerive
  Proc = {p, q}
  Reverter = {q}
  Operator = {q}
  Drifting = {}
  Inputs <- MCInputs
  Directories <- MCDirectories
  Drift = {"none", "issues", "error"}
  Unset = Unset
  Refused = Refused
  Missing = Missing
  InitRows <- AnyTable
  MaxFaults = 1
  MaxHaste = 0
INVARIANTS VerdictForetellsRun
