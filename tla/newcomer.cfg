SPECIFICATION TwoConnectedSpec
CONSTANTS
  NoClient = NoClient
  Fds <- MCFds
  DefaultName <- MCDefaultName
  UNDEF_NAME = "NAME_NOT_DEFINED"
  DISCONNECT_CMD = "disconnect"
  SOMETHING_IS_WRONG = "SOMETHING_IS_WRONG"
  NoArg = NoArg
  Nobody = Nobody
  Gone = Gone
  Clients = {c1, c2, c3}
  c1 = c1
  c2 = c2
  c3 = c3
  Names <- NamesAreDefault
  Stored <- StoredAsIs
  NewNames <- NoNewNames
  AskNames <- SecondName
  MAX_CLIENT = 3
  OutOfMemory = FALSE
  MaxTyped = 3
  MaxLeaving = 2
  Lines <- ChatLines
SYMMETRY Symmetry
INVARIANTS
  ServedIsListed
  ThreadHoldsFd
  OnlineIsListed
PROPERTIES
  ChatLinksSpec
  
CHECK_DEADLOCK FALSE
