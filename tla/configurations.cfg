SPECIFICATION Spec
CONSTANTS
  a = a
  b = b
  r = r
  e = e
  f = f
  Core = {a, b, r}
  Entity = {e, f}
  Default = default
  Library = {lib}
  None = none
  App <- MCApp
  Name <- MCName
  Features <- MCFeatures
INVARIANTS BooksAgree RunningIsWired
