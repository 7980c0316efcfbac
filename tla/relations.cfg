SPECIFICATION Spec
CONSTANTS
  A = A
  B = B
  C = C
  id = id
  b = b
  other = other
  x = x
  y = y
  tA = tA
  tB = tB
  tC = tC
  J = J
  K = K
  a1 = a1
  a2 = a2
  b1 = b1
  b2 = b2
  Unset = Unset
  Rejected = Rejected
  Fault = Fault
  Null = Null
  ObjectTypes = {"Json"}
  DateTypes = {"Date"}
  NumericTypes = {"Uint32"}
  Text = "Utf8"
  Starts <- MCStarts
  Modes <- AllModes
  ChunkSize = 1
  MaxWrites = 1
CHECK_DEADLOCK FALSE
INVARIANTS AcceptedIsReadable ConflictSeenByAll SidesAgree LoadsTheGraph HookedOnce
PROPERTIES HookedAfterDescendants InTransaction
