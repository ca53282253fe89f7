SPECIFICATION FairSpec
CONSTANTS
  NoClient = NoClient
  Fds <- MCFds
  DefaultName <- MCDefaultName
  UNDEF_NAME = "NAME_NOT_DEFINED"
  DISCONNECT_CMD = "disconnect"
  SOMETHING_IS_WRONG = "SOMETHING_IS_WRONG"
  NoArg = NoArg
  Nobody = Nobody
  Gone = Gone
  Clients = {c1, c2}
  c1 = c1
  c2 = c2
  Names <- NamesAreDefault
  Stored <- StoredAsIs
  NewNames <- NoNewNames
  AskNames <- NamesAreDefault
  MAX_CLIENT = 2
  OutOfMemory = TRUE
  MaxTyped = 2
  MaxLeaving = 2
  Lines <- QuietLines
PROPERTIES
  LeaverRemoved
  HandshakeEnds
CHECK_DEADLOCK FALSE
