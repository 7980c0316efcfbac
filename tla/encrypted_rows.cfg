SPECIFICATION Spec
CONSTANTS
  k1 = k1
  k2 = k2
  a = a
  h1 = h1
  c1 = c1
  c2 = c2
  Key = {k1, k2}
  Plain = {a}
  N = 2
  Lazy = {2}
  Indexed = {1, 2}
  Handle = {h1}
  Call = {c1, c2}
  Garbled = Garbled
  Null = Null
  Unset = Unset
  None = None
SYMMETRY Symmetry
PROPERTIES RowsReadable IndexFaithful StoresWhatWasSaid
CONSTRAINT Bounded
