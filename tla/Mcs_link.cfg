CONSTANTS
  Model = "ARM"
  Thread = {t1, t2, t3}
  Node = {n1, n2, n3}
  NULL = NULL
SPECIFICATION Spec
INVARIANTS InitBeforeLink
CHECK_DEADLOCK FALSE
