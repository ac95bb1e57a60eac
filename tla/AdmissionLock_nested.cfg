\* A designation that has a replacement to commit inside its exclusive section.
SPECIFICATION FairSpec
CONSTANTS
  a1 = a1  d1 = d1
  Task = {a1, d1}
  Designator = {d1}
  Nesting = {d1}
CHECK_DEADLOCK FALSE
PROPERTIES DesignationFinishes
