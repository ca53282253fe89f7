SPECIFICATION Spec
CONSTANTS
  Size = 4
  KeyEnd = 3
  MaxMsgs = 3
INVARIANTS
  TypeOK
  AckWasWhole
  KeyWasSeen
  ActedInOrder
  ServerNeverMixes
CHECK_DEADLOCK FALSE
