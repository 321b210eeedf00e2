CONSTANTS
  NR_TASKLETS = 2
  NR_NODES = 7
  Key = {1, 2, 3, 4, 5, 6, 7}
  Null = Null
  Tree = Tree
  MaxLoad = 5
  Cases <- AllCases
SPECIFICATION Spec
INVARIANTS
  TypeOK
  NothingThroughNull
  OnlyKeptNodes
  TreeOK
  FindsSnapshot
PROPERTY TableImplemented
