SPECIFICATION RunqSpec
CONSTANTS
  MaxSize = 11
  Nodes = {1, 2, 3, 4, 5, 6, 7, 8, 9, 10, 11}
  NULL = NULL
  Keys = {0, 1, 2}
INVARIANTS
  InOrder
  CacheExact
  RedBlack
  Traversal
