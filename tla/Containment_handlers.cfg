\* Every endpoint at once in shadow mode, which commits unresolved, cyclic and
\* tainted lineage, with clients that resubmit ids below other parents.
SPECIFICATION Spec
CONSTANTS
  x = x  y = y  z = z
  Node = {x, y, z}
  FreshNode = {z}
  FallbackParent = x
  t1 = t1  t2 = t2
  Task = {t1, t2}
  Endpoint = {"context-compacted", "designate", "detector", "continuity", "seed-root"}
  Lax = {"reuse"}
  ShadowMode = TRUE
  MaxParents = 1
  MaxSweeps = 1
  Blank = Blank
PROPERTIES AppendOnly SweepComplete
SYMMETRY TaskSymmetry
\* The ids are a finite supply: clients may have nothing left to send.
CHECK_DEADLOCK FALSE
