CONSTANTS
  Model = "ARM"
  Thread = {0, 1}
  Main = main
  Node1 = n1
  Node2 = n2
  Node = {n1, n2}
  NULL = NULL
SPECIFICATION DSpec
INVARIANTS DTypeOK NeverTogether OwnNodesSuffice
CHECK_DEADLOCK FALSE
