\* Four lineages over three ids, with and without an adapter, two requests.
SPECIFICATION Spec
CONSTANTS
  a = a  b = b  c = c
  Base = {a, b, c}
  Graphs <- AllGraphs
  f = f  g = g
  FreshNode = {f, g}
  t1 = t1  t2 = t2
  Task = {t1, t2}
  MaxSignals = 2
  MaxAmplification = 2
  None = None
INVARIANTS TypeOK ReducibleBacked RebuiltFromFrontier RebuiltTwiceDerived
           WithdrawalBacked
SYMMETRY Symmetry
\* Signals are bounded: a behaviour may come to its end.
CHECK_DEADLOCK FALSE
