SPECIFICATION Spec
CONSTANTS
  t1 = t1
  t2 = t2
  h1 = h1
  h2 = h2
  Tasks = {t1, t2}
  Removers = {t1}
  Names = {1}
  MaxDepth = 2
  Bytes = {7}
  Addrs = {h1, h2}
  MaxLen = 1
CHECK_DEADLOCK FALSE
INVARIANTS HandlesOwned
PROPERTIES  RemoveReturns
