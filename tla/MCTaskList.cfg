SPECIFICATION Spec
CONSTANTS
  Task = {t1, t2, t3}
  Node = {n1, n2, n3, n4}
  null = null
INVARIANT
  WellLinked
PROPERTY
  RefinesQueue
