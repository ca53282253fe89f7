SPECIFICATION FairSpec
CONSTANTS
  Clients = {c1, c2, c3}
  c1 = c1
  c2 = c2
  c3 = c3
  Main = Main
  Null = Null
  MAX_CLIENT = 2
  OutOfMemory = TRUE
  Interrupted = {c1, Main}
  MaxSignals = 1
INVARIANTS
  TypeOK
  FreesJoinedNodes
  UndefinedHasCause
  ServingKeepsNode

  
  
  
CHECK_DEADLOCK FALSE
