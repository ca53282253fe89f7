----------------------------- MODULE ChatClient -----------------------------
(***************************************************************************)
(* A client process: client/lib_src/client_lib.c (handshake, io_thread,    *)
(* handle_rx_msg_lib), client/lib_src/user_iterectaions.c (what the user   *)
(* types) and the globals of client/main_client.c.  io_thread handles one  *)
(* message or one typed line at a time, so each is one step.               *)
(***************************************************************************)
EXTENDS Sockets

CONSTANTS
  NewNames,  \* the names users type after set_name
  AskNames,  \* the names users type after connect
  Lines,     \* the kinds of lines users type, a subset of LineKinds
  MaxTyped,  \* bound: lines typed by all users together
  MaxLeaving \* bound: clients that leave of their own accord
ASSUME NewNamesAssumption == NewNames \subseteq Names
ASSUME AskNamesAssumption == AskNames \subseteq Names
ASSUME MaxTypedAssumption == MaxTyped \in Nat
ASSUME MaxLeavingAssumption == MaxLeaving \in Nat

LineKinds == {"chat", "disconnect", "yes", "no", "get_list", "set_name", "connect"}
ASSUME LinesAssumption == Lines \subseteq LineKinds

VARIABLES
  phase,                 \* off, connecting, on (in chat_on), gone
  conn_request_rx, busy_in_chat, connected_client_name,
  typed                  \* lines typed so far

clientVars == <<phase, conn_request_rx, busy_in_chat, connected_client_name, typed>>
flagVars == <<conn_request_rx, busy_in_chat, connected_client_name>>

Phases == {"off", "connecting", "on", "gone"}

ClientInit ==
  /\ phase = [c \in Clients |-> "off"]
  /\ conn_request_rx = [c \in Clients |-> FALSE]
  /\ busy_in_chat = [c \in Clients |-> FALSE]
  /\ connected_client_name = [c \in Clients |-> UNDEF_NAME]
  /\ typed = 0

ClientTypeOK ==
  /\ phase \in [Clients -> Phases]
  /\ conn_request_rx \in [Clients -> BOOLEAN]
  /\ busy_in_chat \in [Clients -> BOOLEAN]
  /\ connected_client_name \in [Clients -> Args]
  /\ typed \in 0..MaxTyped
-----------------------------------------------------------------------------
(* connect_to_server                                                       *)

Connect(c) ==
  /\ phase[c] = "off"
  /\ IF serverUp
     THEN /\ phase' = [phase EXCEPT ![c] = "connecting"]
          /\ peer' = [peer EXCEPT ![c] = "open"]
     ELSE /\ phase' = [phase EXCEPT ![c] = "gone"]
          /\ UNCHANGED peer
  /\ UNCHANGED <<fdOwner, toServer, toClient, serverUp, flagVars, typed>>

(* The process ends, with unread left in its socket; its globals end too.  *)
Exit(c, unread) ==
  /\ phase' = [phase EXCEPT ![c] = "gone"]
  /\ conn_request_rx' = [conn_request_rx EXCEPT ![c] = FALSE]
  /\ busy_in_chat' = [busy_in_chat EXCEPT ![c] = FALSE]
  /\ connected_client_name' = [connected_client_name EXCEPT ![c] = UNDEF_NAME]
  /\ CloseByClient(c, unread)
  /\ UNCHANGED <<fdOwner, toServer, serverUp, typed>>

(* The first message must be MSG_CONN_ESTABLISH_REQ.                       *)
Handshake(c) ==
  /\ phase[c] = "connecting" /\ toClient[c] # <<>>
  /\ IF Head(toClient[c]).type = "MSG_CONN_ESTABLISH_REQ"
     THEN /\ phase' = [phase EXCEPT ![c] = "on"]
          /\ toClient' = [toClient EXCEPT ![c] = Tail(@)]
          /\ SendToServer(c, Msg("MSG_CONN_ESTABLISH_ACK", NoArg))
          /\ UNCHANGED <<fdOwner, peer, serverUp, flagVars, typed>>
     ELSE Exit(c, Tail(toClient[c]))

(* recv_with_timeout waits 5 seconds, or finds the server gone, and the    *)
(* client gives up.                                                        *)
HandshakeTimeout(c) ==
  /\ phase[c] = "connecting" /\ toClient[c] = <<>>
  /\ Exit(c, <<>>)
-----------------------------------------------------------------------------
(* io_thread, a message from the server: handle_rx_msg_lib                 *)

EndsChat == {"MSG_CLIENT_NO_MORE_FREE", "MSG_CLIENT_TERMINATION", "MSG_CLIENT_DISCONNECTED"}

Rx(c) ==
  LET m == Head(toClient[c])
      starts == m.type \in {"MSG_CLIENT_ACCEPT_CONNECTION_ACK", "MSG_CLIENT_CHAT_READY"}
      ends == m.type \in EndsChat
      set(v, x) == [v EXCEPT ![c] = x]
  IN  /\ phase[c] = "on" /\ toClient[c] # <<>>
      /\ toClient' = [toClient EXCEPT ![c] = Tail(@)]
      /\ conn_request_rx' =
           IF m.type = "MSG_CONNECTION_REQ_RX" THEN set(conn_request_rx, TRUE)
           ELSE IF ends \/ m.type = "MSG_CLIENT_ACCEPT_CONNECTION_ACK"
           THEN set(conn_request_rx, FALSE) ELSE conn_request_rx
      /\ busy_in_chat' = IF starts \/ ends THEN set(busy_in_chat, starts) ELSE busy_in_chat
      /\ connected_client_name' =
           IF starts \/ ends
           THEN set(connected_client_name, IF starts THEN m.arg ELSE UNDEF_NAME)
           ELSE connected_client_name
      /\ UNCHANGED <<fdOwner, peer, toServer, serverUp, phase, typed>>

(* SIGINT ends poll or select; or recv finds that the server has gone.     *)
Quit(c) ==
  /\ phase[c] \in {"connecting", "on"}
  /\ Cardinality({d \in Clients : phase[d] = "gone"}) < MaxLeaving
  /\ Exit(c, toClient[c])
-----------------------------------------------------------------------------
(* io_thread, a line from the user: process_send_msg                       *)

(* For the mutants: a line is taken while the handshake goes on.           *)
TypesEarly(c, kind, m) ==
  /\ kind \in Lines
  /\ phase[c] \in {"connecting", "on"} /\ typed < MaxTyped
  /\ typed' = typed + 1
  /\ SendToServer(c, m)
  /\ UNCHANGED <<fdOwner, peer, toClient, serverUp, phase>>

Types(c, kind, m) ==
  /\ kind \in Lines
  /\ phase[c] = "on" /\ typed < MaxTyped
  /\ typed' = typed + 1
  /\ SendToServer(c, m)
  /\ UNCHANGED <<fdOwner, peer, toClient, serverUp, phase>>

(* handle_send_msg_to_client *)
TypeChat(c) ==
  /\ busy_in_chat[c]
  /\ Types(c, "chat", Msg("MSG_CLIENT_TX_TYPE", c))
  /\ UNCHANGED flagVars

TypeDisconnect(c) ==
  /\ busy_in_chat[c]
  /\ Types(c, "disconnect", Msg("MSG_CLIENT_TX_TYPE", DISCONNECT_CMD))
  /\ busy_in_chat' = [busy_in_chat EXCEPT ![c] = FALSE]
  /\ connected_client_name' = [connected_client_name EXCEPT ![c] = UNDEF_NAME]
  /\ UNCHANGED conn_request_rx

(* While a request is shown, only "yes" and "no" are taken.                *)
TypeAnswer(c) ==
  /\ ~ busy_in_chat[c] /\ conn_request_rx[c]
  /\ \/ Types(c, "yes", Msg("MSG_CLIENT_ACCEPT_CONNECTION", NoArg))
     \/ Types(c, "no", Msg("MSG_CLIENT_DECLINE_CONNECTION", NoArg))
  /\ conn_request_rx' = [conn_request_rx EXCEPT ![c] = FALSE]
  /\ UNCHANGED <<busy_in_chat, connected_client_name>>

TypeGetList(c) ==
  /\ ~ busy_in_chat[c] /\ ~ conn_request_rx[c]
  /\ Types(c, "get_list", Msg("MSG_GET_CLIENT_LIST_TYPE", NoArg))
  /\ UNCHANGED flagVars

TypeSetName(c, n) ==
  /\ ~ busy_in_chat[c] /\ ~ conn_request_rx[c]
  /\ Types(c, "set_name", Msg("MSG_SET_NAME_REQ_TYPE", n))
  /\ UNCHANGED flagVars

TypeConnect(c, n) ==
  /\ ~ busy_in_chat[c] /\ ~ conn_request_rx[c]
  /\ Types(c, "connect", Msg("MSG_CONNECT_TO_CLIENT", n))
  /\ UNCHANGED flagVars
-----------------------------------------------------------------------------
(* What the process does by itself, and what its user does.                *)
ProcessNext(c) == Handshake(c) \/ HandshakeTimeout(c) \/ Rx(c)

UserNext(c) ==
  \/ Connect(c) \/ Quit(c)
  \/ TypeChat(c) \/ TypeDisconnect(c) \/ TypeAnswer(c) \/ TypeGetList(c)
  \/ \E n \in NewNames : TypeSetName(c, n)
  \/ \E n \in AskNames : TypeConnect(c, n)

ClientNext == \E c \in Clients : ProcessNext(c) \/ UserNext(c)
=============================================================================
