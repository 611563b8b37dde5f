SPECIFICATION Spec
CONSTANTS
  t1 = t1
  t2 = t2
  h1 = h1
  h2 = h2
  Tasks = {t1, t2}
  Names = {1, 2}
  MaxDepth = 3
  v1 = v1
  v2 = v2
  Bytes = {v1, v2}
  Addrs = {h1, h2}
  NameSpaces = {1}
  Keys = {1, 2}
SYMMETRY Symmetry
CHECK_DEADLOCK FALSE
INVARIANTS  RemoveComplete FilesOfCalls
PROPERTIES ImplementsKeyValue
