\* Disciplined clients; submissions, both kinds of designation and seeds.
SPECIFICATION Spec
CONSTANTS
  x = x  y = y  z = z
  Node = {x, y, z}
  FreshNode = {}
  FallbackParent = x
  t1 = t1  t2 = t2
  Task = {t1, t2}
  Endpoint = {"designate", "detector", "seed-root"}
  Lax = {}
  ShadowMode = FALSE
  MaxParents = 2
  MaxSweeps = 2
  Blank = Blank
INVARIANTS TypeOK ContainmentClosed ContainmentLogged AuditBacked
PROPERTIES AdmittedClean DigestFaithful SweepComplete
SYMMETRY FullSymmetry
\* The ids are a finite supply: clients may have nothing left to send.
CHECK_DEADLOCK FALSE
