--------------------------- MODULE ClientRegistry ---------------------------
(***************************************************************************)
(* server/lib_src/server_queue.c: client_list, the linked list of the      *)
(* clients the server knows, and total_available_clients.                  *)
(*                                                                         *)
(* clientList holds the nodes in list order; a node's fields are functions *)
(* of the node.  data.fd is a copy of the descriptor main got from accept  *)
(* and passed to the thread, never assigned again: one variable, my_socket,*)
(* stands for socket_fd, my_socket and data.fd.  Every lookup returns the  *)
(* first match, whatever the list holds.                                   *)
(***************************************************************************)
EXTENDS Sockets

CONSTANT MAX_CLIENT
ASSUME MaxClientAssumption == MAX_CLIENT \in 1..255

VARIABLES
  clientList,              \* client_list, the nodes in order
  total_available_clients, \* uint8_t
  my_socket,               \* data.fd
  chat_status, to_fd, name \* data.chat_status, data.to_fd, data.name

listVars == <<clientList, total_available_clients>>
nodeVars == <<chat_status, to_fd, name>>

ChatStatus == {"CHAT_STATUS_FREE", "CHAT_STATUS_BUSY", "CHAT_STATUS_REQ_PENDING"}

RegistryInit ==
  /\ clientList = <<>>
  /\ total_available_clients = 0
  /\ my_socket = [c \in Clients |-> INVALID_FD]
  /\ chat_status = [c \in Clients |-> "CHAT_STATUS_FREE"]
  /\ to_fd = [c \in Clients |-> INVALID_FD]
  /\ name = [c \in Clients |-> UNDEF_NAME]

RegistryTypeOK ==
  /\ clientList \in Seq(Clients)
  /\ total_available_clients \in 0..255
  /\ my_socket \in [Clients -> Fds \cup {INVALID_FD}]
  /\ chat_status \in [Clients -> ChatStatus]
  /\ to_fd \in [Clients -> Fds \cup {INVALID_FD}]
  /\ name \in [Clients -> Names \cup {UNDEF_NAME}]

Listed == Range(clientList)
-----------------------------------------------------------------------------
(* The lookups.                                                            *)

PositionsOfFd(f) == {i \in DOMAIN clientList : my_socket[clientList[i]] = f}
PositionsOfName(n) == {i \in DOMAIN clientList : name[clientList[i]] = n}

NodeByFd(f) ==
  IF PositionsOfFd(f) = {} THEN NoClient ELSE clientList[Min(PositionsOfFd(f))]
NodeByName(n) ==
  IF PositionsOfName(n) = {} THEN NoClient ELSE clientList[Min(PositionsOfName(n))]

get_client_name_by_fd(f) ==
  IF NodeByFd(f) = NoClient THEN UNDEF_NAME ELSE name[NodeByFd(f)]

get_client_fd_by_name(n) ==
  IF NodeByName(n) = NoClient THEN INVALID_FD ELSE my_socket[NodeByName(n)]

get_conn_fd_by_fd(f) ==
  IF NodeByFd(f) = NoClient THEN INVALID_FD ELSE to_fd[NodeByFd(f)]

get_client_chatting_status_by_fd(f) ==
  IF NodeByFd(f) = NoClient THEN "CHAT_STATUS_CLIENT_NOT_FOUND" ELSE chat_status[NodeByFd(f)]

get_client_chatting_status_by_name(n) ==
  IF NodeByName(n) = NoClient THEN "CHAT_STATUS_CLIENT_NOT_FOUND"
  ELSE chat_status[NodeByName(n)]

check_client_with_same_name_exist_or_not(n) ==
  IF clientList = <<>> THEN "NAME_FIND_ERR"
  ELSE IF NodeByName(n) = NoClient THEN "NAME_NOT_EXIST" ELSE "NAME_EXISTS"
-----------------------------------------------------------------------------
(* The setters, as functions from the old field values to the new ones, so *)
(* that one critical section can compose several.  A setter that finds no  *)
(* node changes nothing.                                                   *)

set_client_chatting_status_by_fd(status, f, s) ==
  IF NodeByFd(f) = NoClient THEN status ELSE [status EXCEPT ![NodeByFd(f)] = s]

set_to_fd_by_fd(to, f, t) ==
  IF NodeByFd(f) = NoClient THEN to ELSE [to EXCEPT ![NodeByFd(f)] = t]

set_name_of_client_by_client_fd(names, f, n) ==
  IF NodeByFd(f) = NoClient THEN names ELSE [names EXCEPT ![NodeByFd(f)] = Stored[n]]
-----------------------------------------------------------------------------
(* Adding and removing a node.                                             *)

(* Variants with a bug, for the mutants of PROJECT.json.                   *)
QueueFullOffByOne == total_available_clients > MAX_CLIENT
AddLeavesToFdUnset(c) ==
  /\ clientList' = Append(clientList, c)
  /\ total_available_clients' = (total_available_clients + 1) % 256
  /\ chat_status' = [chat_status EXCEPT ![c] = "CHAT_STATUS_FREE"]
  /\ to_fd' = [to_fd EXCEPT ![c] = 0]
  /\ name' = [name EXCEPT ![c] = DefaultName[my_socket[c]]]

(* ERR_SERVER_QUEUE_FULL *)
QueueFull == total_available_clients >= MAX_CLIENT

(* The thread of connection c appends its node.                            *)
add_client_node_to_queue(c) ==
  /\ clientList' = Append(clientList, c)
  /\ total_available_clients' = (total_available_clients + 1) % 256
  /\ chat_status' = [chat_status EXCEPT ![c] = "CHAT_STATUS_FREE"]
  /\ to_fd' = [to_fd EXCEPT ![c] = INVALID_FD]
  /\ name' = [name EXCEPT ![c] = DefaultName[my_socket[c]]]

(* Another bug: the counter is not taken back.                             *)
RemovalKeepsCount(f, status, to) ==
  IF NodeByFd(f) = NoClient
  THEN /\ chat_status' = status
       /\ to_fd' = to
       /\ UNCHANGED <<clientList, total_available_clients, name, my_socket, fdOwner>>
  ELSE LET n == NodeByFd(f)
       IN  /\ clientList' = RemoveAt(clientList, Min(PositionsOfFd(f)))
           /\ fdOwner' = [fdOwner EXCEPT ![f] = NoClient]
           /\ my_socket' = [my_socket EXCEPT ![n] = INVALID_FD]
           /\ chat_status' = [status EXCEPT ![n] = "CHAT_STATUS_FREE"]
           /\ to_fd' = [to EXCEPT ![n] = INVALID_FD]
           /\ name' = [name EXCEPT ![n] = UNDEF_NAME]
           /\ UNCHANGED total_available_clients

(* And another: the descriptor is not closed.                              *)
RemovalLeavesOpen(f, status, to) ==
  IF NodeByFd(f) = NoClient
  THEN /\ chat_status' = status
       /\ to_fd' = to
       /\ UNCHANGED <<clientList, total_available_clients, name, my_socket, fdOwner>>
  ELSE LET n == NodeByFd(f)
       IN  /\ clientList' = RemoveAt(clientList, Min(PositionsOfFd(f)))
           /\ total_available_clients' = (total_available_clients - 1) % 256
           /\ my_socket' = [my_socket EXCEPT ![n] = INVALID_FD]
           /\ chat_status' = [status EXCEPT ![n] = "CHAT_STATUS_FREE"]
           /\ to_fd' = [to EXCEPT ![n] = INVALID_FD]
           /\ name' = [name EXCEPT ![n] = UNDEF_NAME]
           /\ UNCHANGED fdOwner

(* Unlink and free the first node with descriptor f and close f; status,   *)
(* to and the names are the field values the caller has computed so far.   *)
(* The fields of a freed node go back to their initial values: nothing     *)
(* may depend on them (a read through a dangling pointer is NamesAt).      *)
remove_client_node_from_queue_by_fd(f, status, to) ==
  IF NodeByFd(f) = NoClient
  THEN /\ chat_status' = status
       /\ to_fd' = to
       /\ UNCHANGED <<clientList, total_available_clients, name, my_socket, fdOwner>>
  ELSE LET n == NodeByFd(f)
       IN  /\ clientList' = RemoveAt(clientList, Min(PositionsOfFd(f)))
           /\ total_available_clients' = (total_available_clients - 1) % 256
           /\ fdOwner' = [fdOwner EXCEPT ![f] = NoClient]
           /\ my_socket' = [my_socket EXCEPT ![n] = INVALID_FD]
           /\ chat_status' = [status EXCEPT ![n] = "CHAT_STATUS_FREE"]
           /\ to_fd' = [to EXCEPT ![n] = INVALID_FD]
           /\ name' = [name EXCEPT ![n] = UNDEF_NAME]
-----------------------------------------------------------------------------
(* What must hold of the list.                                             *)

(* total_available_clients counts the nodes, and there are never more than *)
(* MAX_CLIENT, although main reads the count, unlocks, and only then       *)
(* creates the thread that will add its node.                              *)
CountMatches ==
  /\ total_available_clients = Len(clientList)
  /\ Len(clientList) <= MAX_CLIENT

(* A listed node's descriptor is open and is its own client's connection,  *)
(* and no client is listed twice: so the by-fd lookups of server_queue.c   *)
(* never reach another client's node, whatever descriptors accept reused.  *)
FdNamesOneClient ==
  /\ \A i \in DOMAIN clientList :
       my_socket[clientList[i]] \in Fds /\ fdOwner[my_socket[clientList[i]]] = clientList[i]
  /\ \A i, j \in DOMAIN clientList : clientList[i] = clientList[j] => i = j
=============================================================================
