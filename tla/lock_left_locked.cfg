SPECIFICATION ConnectedSpec
CONSTANTS
  NoClient = NoClient
  Fds <- MCFds
  DefaultName <- MCDefaultName
  UNDEF_NAME = "NAME_NOT_DEFINED"
  DISCONNECT_CMD = "disconnect"
  SOMETHING_IS_WRONG = "SOMETHING_IS_WRONG"
  NoArg = NoArg
  Nobody = Nobody
  Gone = Gone
  Clients = {c1, c2}
  c1 = c1
  c2 = c2
  Names <- NamesAreDefault
  Stored <- StoredAsIs
  NewNames <- NoNewNames
  AskNames <- NamesAreDefault
  MAX_CLIENT = 2
  OutOfMemory = FALSE
  MaxTyped = 5
  MaxLeaving = 0
  Lines <- RequestDisconnectLines
SYMMETRY Symmetry
INVARIANT LockReleased
CHECK_DEADLOCK FALSE
