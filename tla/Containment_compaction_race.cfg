\* A compaction racing a designation.
SPECIFICATION Spec
CONSTANTS
  x = x  y = y  z = z
  Node = {x, y, z}
  FreshNode = {}
  FallbackParent = x
  t1 = t1  t2 = t2
  Task = {t1, t2}
  Endpoint = {"context-compacted", "designate", "seed-root"}
  Lax = {}
  ShadowMode = FALSE
  MaxParents = 1
  MaxSweeps = 2
  Blank = Blank
INVARIANTS ContainmentClosed
\* The ids are a finite supply: clients may have nothing left to send.
CHECK_DEADLOCK FALSE
