SPECIFICATION Spec
CONSTANTS
  NoClient = NoClient
  Fds <- MCFds
  DefaultName <- MCDefaultName
  UNDEF_NAME = "NAME_NOT_DEFINED"
  DISCONNECT_CMD = "disconnect"
  SOMETHING_IS_WRONG = "SOMETHING_IS_WRONG"
  NoArg = NoArg
  Nobody = Nobody
  Gone = Gone
  Clients = {c1, c2, c3}
  c1 = c1
  c2 = c2
  c3 = c3
  Names <- MCNames
  Stored <- MCStored
  NewNames <- MCNewNames
  AskNames <- MCNames
  MAX_CLIENT = 2
  OutOfMemory = FALSE
  MaxTyped = 2
  MaxLeaving = 2
  Lines <- NameLines
SYMMETRY Symmetry
INVARIANTS
  TypeOK
  CountMatches
  FdNamesOneClient
  ChosenNamesDistinct
  OpenFdsAccounted
  GreetingFirst
PROPERTY AdmissionSpec
CHECK_DEADLOCK FALSE
