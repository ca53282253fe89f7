---------------------------- MODULE MCChatSystem ----------------------------
(***************************************************************************)
(* Values of the constants for TLC, and the state the longer runs start    *)
(* in: every client connected, greeted and named by its descriptor.        *)
(***************************************************************************)
EXTENDS ChatRefinement

MCFds == 4..(3 + Cardinality(Clients))

MCDefaultName == [f \in MCFds |-> "temp_client_name_" \o ToString(f)]
MCDefaultNames == {MCDefaultName[f] : f \in MCFds}

(* A name that fits, two that are equal once cut, and a default name.      *)
LongNames == {"long_a", "long_b"}
MCNewNames == {"bob", "temp_client_name_5"} \cup LongNames
MCNames == MCDefaultNames \cup MCNewNames \cup {"cut"}
MCStored == [n \in MCNames |-> IF n \in LongNames THEN "cut" ELSE n]

(* For the runs in which nobody changes a name.                            *)
NamesAreDefault == MCDefaultNames
StoredAsIs == [n \in MCDefaultNames |-> n]
NoNewNames == {}
SecondName == {MCDefaultName[5]}
OuterNames == {MCDefaultName[4], MCDefaultName[6]}
ThirdName == {MCDefaultName[6]}

RequestLines == {"connect", "yes", "no"}
YesLines == {"connect", "yes", "disconnect"}
ChatLines == RequestLines \cup {"chat", "disconnect"}
RequestDisconnectLines == RequestLines \cup {"disconnect"}
QuietLines == RequestLines \cup {"chat", "get_list"}
NameLines == {"set_name"}

Symmetry == Permutations(Clients)
-----------------------------------------------------------------------------
(* The clients of order have connected, in that order; the others have     *)
(* not.                                                                    *)
Connected(order) ==
  LET fd(c) == 3 + CHOOSE i \in DOMAIN order : order[i] = c
      here == Range(order)
  IN  /\ clientList = order
      /\ total_available_clients = Len(order)
      /\ my_socket = [c \in Clients |-> IF c \in here THEN fd(c) ELSE INVALID_FD]
      /\ fdOwner = [f \in Fds |-> IF f - 3 \in DOMAIN order THEN order[f - 3] ELSE NoClient]
      /\ name = [c \in Clients |-> IF c \in here THEN DefaultName[fd(c)] ELSE UNDEF_NAME]
      /\ chat_status = [c \in Clients |-> "CHAT_STATUS_FREE"]
      /\ to_fd = [c \in Clients |-> INVALID_FD]
      /\ peer = [c \in Clients |-> IF c \in here THEN "open" ELSE "none"]
      /\ toServer = [c \in Clients |-> <<>>]
      /\ toClient = [c \in Clients |-> <<>>]
      /\ serverUp = TRUE
      /\ pc = [c \in Clients |-> IF c \in here THEN "loop" ELSE "none"]
      /\ out = [c \in Clients |-> <<>>]
      /\ loc = [c \in Clients |-> NoLocals]
      /\ client_data_mutex = NoClient
      /\ phase = [c \in Clients |-> IF c \in here THEN "on" ELSE "off"]
      /\ conn_request_rx = [c \in Clients |-> FALSE]
      /\ busy_in_chat = [c \in Clients |-> FALSE]
      /\ connected_client_name = [c \in Clients |-> UNDEF_NAME]
      /\ typed = 0

Orders(n) == {s \in [1..n -> Clients] : IsInjective(s)}

ConnectedSpec == (\E s \in Orders(Cardinality(Clients)) : Connected(s)) /\ [][Next]_vars
TwoConnectedSpec == (\E s \in Orders(2) : Connected(s)) /\ [][Next]_vars
=============================================================================
