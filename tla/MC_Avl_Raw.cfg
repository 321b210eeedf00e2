CONSTANTS
  NR_TASKLETS = 2
  NR_NODES = 3
  Key = {1, 2, 3, 4, 5}
  Null = Null
  Tree = Tree
  MaxLoad = 2
  Cases <- Crossing
SPECIFICATION Spec
INVARIANTS
  SoundButForLoads
