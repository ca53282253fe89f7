---------------------------- MODULE ChatProtocol ----------------------------
(***************************************************************************)
(* What client and server share: common_inc/chat_app_common.h.             *)
(*                                                                         *)
(* A client process opens one connection in its life, so a client, its     *)
(* connection, the server thread that serves it and the client_node_t that *)
(* thread allocates are all identified by one element of Clients.          *)
(***************************************************************************)
EXTENDS Integers, Sequences, FiniteSets, SequencesExt

CONSTANTS
  Clients,            \* the client processes
  NoClient,           \* no client, no connection, no node (a null pointer)
  Fds,                \* the descriptors the server may have open for clients
  Names,              \* strings that can name a client
  DefaultName,        \* DefaultName[f] is the string "temp_client_name_<f>"
  Stored,             \* Stored[n] is n cut to MAX_CLIENT_NAME_LEN-1 characters
  UNDEF_NAME,         \* the string the lookups return for "no such client"
  DISCONNECT_CMD,     \* the string "disconnect"
  SOMETHING_IS_WRONG, \* the string of that name in handle_conn_accept
  NoArg               \* a payload no property looks at

INVALID_FD == -1

ASSUME FdsAssumption == Fds \subseteq Nat
ASSUME NoClientAssumption == NoClient \notin Clients
ASSUME NamesAssumption ==
  /\ DefaultName \in [Fds -> Names]
  /\ \A f, g \in Fds : DefaultName[f] = DefaultName[g] => f = g
  /\ Stored \in [Names -> Names]
  /\ \A n \in Names : Stored[Stored[n]] = Stored[n]
  /\ \A f \in Fds : Stored[DefaultName[f]] = DefaultName[f]

(* The members of msg_type_t that some statement of the program sends.     *)
MsgTypes ==
  { "MSG_CONN_ESTABLISH_REQ", "MSG_CONN_ESTABLISH_ACK", "MSG_MAX_CLIENT_REACHED",
    "MSG_SET_NAME_REQ_TYPE", "MSG_SET_NAME_ACK_TYPE", "MSG_SET_NAME_NACK_TYPE",
    "MSG_GET_CLIENT_LIST_TYPE",
    "MSG_CONNECT_TO_CLIENT", "MSG_CONNECTION_REQ_RX", "MSG_CLIENT_FREE",
    "MSG_CLIENT_BUSY", "MSG_CLIENT_STATUS_REQ_PENDING", "MSG_CLIENT_NOT_EXIST",
    "MSG_ATTEMPT_TO_CONNECT_TO_SELF",
    "MSG_CLIENT_ACCEPT_CONNECTION", "MSG_CLIENT_ACCEPT_CONNECTION_ACK",
    "MSG_CLIENT_CHAT_READY", "MSG_CLIENT_NO_MORE_FREE", "MSG_CLIENT_NO_MORE_EXIST",
    "MSG_CLIENT_DECLINE_CONNECTION", "MSG_CLIENT_DECLINE_CONNECTION_ACK",
    "MSG_CLIENT_TX_TYPE", "MSG_CLIENT_RX_TYPE",
    "MSG_CLIENT_DISCONNECTED", "MSG_CLIENT_TERMINATION" }

(* msg_data.buffer, as far as a receiver acts on it: a name, a command, or *)
(* a chat line, which is represented by the client that typed it.          *)
NameValues == Names \cup {UNDEF_NAME, SOMETHING_IS_WRONG}
Args == NameValues \cup {DISCONNECT_CMD, NoArg} \cup Clients

(* msg_t; to_client_id is written by one sender and read by nobody.        *)
Messages == [type : MsgTypes, arg : Args]

(* The messages a client sends.                                            *)
ClientMessages ==
  [type : {"MSG_SET_NAME_REQ_TYPE", "MSG_CONNECT_TO_CLIENT"}, arg : Names]
    \cup [type : {"MSG_CLIENT_TX_TYPE"}, arg : Clients \cup {DISCONNECT_CMD}]
    \cup [type : {"MSG_CONN_ESTABLISH_ACK", "MSG_GET_CLIENT_LIST_TYPE",
                  "MSG_CLIENT_ACCEPT_CONNECTION", "MSG_CLIENT_DECLINE_CONNECTION"},
          arg : {NoArg}]

Msg(t, a) == [type |-> t, arg |-> a]
=============================================================================
