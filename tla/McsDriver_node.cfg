CONSTANTS
  Model = "SC"
  Thread = {0, 1}
  Main = main
  Node1 = n1
  Node2 = n2
  Node = {n1, n2}
  NULL = NULL
SPECIFICATION DSpec
INVARIANTS OwnNode
CHECK_DEADLOCK FALSE
