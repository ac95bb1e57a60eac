CONSTANTS
  r = r
  m = m
  s = s
  Node = {r, m, s, q, n, f}
  ClientNode = {q, n}
  FreshNode = {f}
  Task = {t1}
  CheckpointId = {k1}
  Critical = {m, f}
  ClientTarget = {r}
  Substitution <- Pairs
  Snapshot <- Snapshots
  Exposable = {q, n}
  FallbackParent = s
  InitNode = {r, m, s}
  InitEdge <- Chain
  MaxParents = 1
  MaxSweeps = 2
  MaxPrepared = 1
  NoNode = none
SPECIFICATION Spec
INVARIANTS
  OneRow
  OfferedCommitted
  CompletionBacked
  ReplacesQuarantined
PROPERTIES
  AdmittedRests
  CompletionClean
  WriteOnce
SYMMETRY Symmetry
CHECK_DEADLOCK FALSE
