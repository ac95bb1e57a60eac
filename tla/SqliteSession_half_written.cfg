\* Three requests: two pieces of work inside transaction(), one call of two
\* rows and one node outside it, each of which may be retried.
SPECIFICATION Spec
CONSTANTS
  t1 = t1  t2 = t2  t3 = t3
  Task = {t1, t2, t3}
  x1 = x1  x2 = x2  c = c  n = n
  TxKey = {x1, x2}
  CallKey = {c}
  NodeKey = {n}
  Parts = 2
  Shared = Shared
  NoOne = NoOne
INVARIANT CallAtomic
