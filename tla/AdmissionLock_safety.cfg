\* Three admissions and two designations, no nesting.
SPECIFICATION FairSpec
CONSTANTS
  a1 = a1  a2 = a2  a3 = a3  d1 = d1  d2 = d2
  Task = {a1, a2, a3, d1, d2}
  Designator = {d1, d2}
  Nesting = {}
INVARIANTS TypeOK Accounting MutualExclusion
PROPERTIES RWSpec ReaderProceeds RequestHonoured
