SPECIFICATION FairSpec
CONSTANTS
  Nodes = {n1, n2, n3}
  n1 = n1
  n2 = n2
  n3 = n3
  Null = Null
  NameLens = {1, 3}
  list_capacity = 7
INVARIANTS
  TypeOK
  BufferHoldsList
  WalkCoversStayers
PROPERTY WalkEnds
CHECK_DEADLOCK FALSE
