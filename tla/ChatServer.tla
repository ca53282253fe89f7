----------------------------- MODULE ChatServer -----------------------------
(***************************************************************************)
(* server/lib_src/server_mgmt.c: the main thread, which accepts, and one   *)
(* thread per connection, which registers its client, greets it, and then  *)
(* handles its messages one at a time.                                     *)
(*                                                                         *)
(* A step of a thread is a stretch of code between two points where other  *)
(* threads can get in the way: one critical section of client_data_mutex   *)
(* with the receive that precedes it (nobody else reads that stream), or   *)
(* one send outside the mutex, which waits its turn in out.                *)
(***************************************************************************)
EXTENDS ClientRegistry

CONSTANT OutOfMemory \* malloc and pthread_create may fail
ASSUME OutOfMemoryAssumption == OutOfMemory \in BOOLEAN

VARIABLES
  pc,                \* where the thread of connection c is
  out,               \* the sends its handler has still to make
  loc,               \* the locals a handler carries from one step to the next
  client_data_mutex  \* who left the mutex locked, or NoClient

threadVars == <<pc, out, loc, client_data_mutex>>

(***************************************************************************)
(* Control points: before accept; with main; turned away; before the       *)
(* registration; greeting; in the receive loop; in the middle of           *)
(* handle_chat_connection_request (req_), handle_conn_accept (acc_),       *)
(* handle_tx_msg and handle_decline_conn_request; finished.                *)
(***************************************************************************)
HandlerPcs == {"req_mark", "req_link", "acc_busy", "acc_pair", "acc_reply",
               "tx_disc", "decl_free"}
ServingPcs == {"greet", "loop"} \cup HandlerPcs
Pcs == {"none", "accepted", "refused", "start", "exited"} \cup ServingPcs

Local(n, f, node) == [conn_name |-> n, conn_fd |-> f, conn_node |-> node]
NoLocals == Local(UNDEF_NAME, INVALID_FD, NoClient)
LocalSet == [conn_name : Names \cup {UNDEF_NAME},
             conn_fd : Fds \cup {INVALID_FD},
             conn_node : Clients \cup {NoClient}]

Sends == [fd : Fds \cup {INVALID_FD}, msg : Messages]

ServerInit ==
  /\ pc = [c \in Clients |-> "none"]
  /\ out = [c \in Clients |-> <<>>]
  /\ loc = [c \in Clients |-> NoLocals]
  /\ client_data_mutex = NoClient

ServerTypeOK ==
  /\ pc \in [Clients -> Pcs]
  /\ out \in [Clients -> Seq(Sends)]
  /\ loc \in [Clients -> LocalSet]
  /\ client_data_mutex \in Clients \cup {NoClient}
-----------------------------------------------------------------------------
(* What the actions share.                                                 *)

(* LOCK_CLIENT_DATA_MUTEX returns.                                         *)
MutexFree == client_data_mutex = NoClient

(* The thread is at p and has made the sends of its previous steps.        *)
At(c, p) == serverUp /\ pc[c] = p /\ out[c] = <<>>

GoTo(c, p) == pc' = [pc EXCEPT ![c] = p]
Locals(c, l) == loc' = [loc EXCEPT ![c] = l]
Emit(c, sends) == out' = [out EXCEPT ![c] = sends]
To(f, t, a) == [fd |-> f, msg |-> Msg(t, a)]

(* The stream the thread reads, and whether its client has gone.           *)
Conn(c) == fdOwner[my_socket[c]]
Inbox(c) == IF Conn(c) \in Clients THEN toServer[Conn(c)] ELSE <<>>
PeerGone(c) == Conn(c) \in Clients => peer[Conn(c)] # "open"

(* wait_to_recv_something returns a message of type t; handle_rx_msg picks *)
(* the handler.                                                            *)
Receive(c) ==
  /\ Inbox(c) # <<>>
  /\ toServer' = [toServer EXCEPT ![Conn(c)] = Tail(@)]
Received(c, t) ==
  /\ At(c, "loop")
  /\ Inbox(c) # <<>> /\ Head(Inbox(c)).type = t
  /\ Receive(c)
Buffer(c) == Head(Inbox(c)).arg

(* What strcpy finds behind a name pointer it kept after the unlock: the   *)
(* node's name as it is by then or, once the node is freed, anything.      *)
NamesAt(node) == IF node \in Listed THEN {name[node]} ELSE Names \cup {UNDEF_NAME}
-----------------------------------------------------------------------------
(* wait_for_client_conn_and_accept                                         *)

MainIdle == \A c \in Clients : pc[c] # "accepted"

Accept(c, f) ==
  /\ serverUp /\ MainIdle
  /\ pc[c] = "none" /\ peer[c] # "none"
  /\ IsNextFd(f)
  /\ fdOwner' = [fdOwner EXCEPT ![f] = c]
  /\ my_socket' = [my_socket EXCEPT ![c] = f]
  /\ GoTo(c, "accepted")
  /\ UNCHANGED <<sendVars, toServer, listVars, nodeVars, out, loc, client_data_mutex>>

(* The count is read under the mutex, the thread created after the unlock. *)
Admit(c) ==
  /\ At(c, "accepted") /\ MutexFree
  /\ ~ QueueFull
  /\ GoTo(c, "start")
  /\ UNCHANGED <<sockVars, listVars, my_socket, nodeVars, out, loc, client_data_mutex>>

(* The refused connection's descriptor stays open.                         *)
TurnAway(c) ==
  /\ At(c, "accepted") /\ MutexFree
  /\ QueueFull
  /\ Send(my_socket[c], Msg("MSG_MAX_CLIENT_REACHED", NoArg))
  /\ GoTo(c, "refused")
  /\ UNCHANGED <<fdOwner, toServer, listVars, my_socket, nodeVars, out, loc, client_data_mutex>>

(* malloc fails and main goes on, or pthread_create fails and main returns,*)
(* which ends the server.                                                  *)
SpawnFails(c) ==
  /\ OutOfMemory
  /\ At(c, "accepted") /\ MutexFree
  /\ ~ QueueFull
  /\ serverUp' \in BOOLEAN
  /\ GoTo(c, "refused")
  /\ UNCHANGED <<fdOwner, peer, toServer, toClient, listVars, my_socket, nodeVars, out, loc,
                 client_data_mutex>>
-----------------------------------------------------------------------------
(* client_thread up to its receive loop                                    *)

Register(c) ==
  /\ At(c, "start") /\ MutexFree
  /\ ~ QueueFull
  /\ add_client_node_to_queue(c)
  /\ Emit(c, <<To(my_socket[c], "MSG_CONN_ESTABLISH_REQ", NoArg)>>)
  /\ GoTo(c, "greet")
  /\ UNCHANGED <<sockVars, my_socket, loc, client_data_mutex>>

(* The thread returns without closing its descriptor.                      *)
RegisterFails(c) ==
  /\ At(c, "start") /\ MutexFree
  /\ QueueFull \/ OutOfMemory
  /\ Send(my_socket[c], Msg("MSG_MAX_CLIENT_REACHED", NoArg))
  /\ GoTo(c, "refused")
  /\ UNCHANGED <<fdOwner, toServer, listVars, my_socket, nodeVars, out, loc, client_data_mutex>>

(* send_conn_establish_msg after its send                                  *)
Greeted(c) ==
  /\ At(c, "greet")
  /\ Inbox(c) # <<>> /\ Head(Inbox(c)).type = "MSG_CONN_ESTABLISH_ACK"
  /\ Receive(c)
  /\ GoTo(c, "loop")
  /\ UNCHANGED <<fdOwner, sendVars, listVars, my_socket, nodeVars, out, loc, client_data_mutex>>

(* A bug for the mutants: the obvious repair of the leaked descriptor,     *)
(* which forgets the node.                                                 *)
GreetFailsCloses(c) ==
  /\ At(c, "greet")
  /\ IF Inbox(c) = <<>> THEN PeerGone(c)
     ELSE Head(Inbox(c)).type # "MSG_CONN_ESTABLISH_ACK"
  /\ fdOwner' = [fdOwner EXCEPT ![my_socket[c]] = NoClient]
  /\ GoTo(c, "exited")
  /\ UNCHANGED <<sendVars, toServer, listVars, my_socket, nodeVars, out, loc, client_data_mutex>>

(* Another: the closed connection is not noticed, only a wrong answer is.  *)
GreetFailsOnAnswer(c) ==
  /\ At(c, "greet")
  /\ Inbox(c) # <<>> /\ Head(Inbox(c)).type # "MSG_CONN_ESTABLISH_ACK"
  /\ GoTo(c, "exited")
  /\ UNCHANGED <<sockVars, listVars, my_socket, nodeVars, out, loc, client_data_mutex>>

(* The thread returns; node and descriptor stay.                           *)
GreetFails(c) ==
  /\ At(c, "greet")
  /\ IF Inbox(c) = <<>> THEN PeerGone(c)
     ELSE Head(Inbox(c)).type # "MSG_CONN_ESTABLISH_ACK"
  /\ GoTo(c, "exited")
  /\ UNCHANGED <<sockVars, listVars, my_socket, nodeVars, out, loc, client_data_mutex>>

(* One send outside the mutex.                                             *)
Flush(c) ==
  /\ serverUp /\ out[c] # <<>>
  /\ Send(Head(out[c]).fd, Head(out[c]).msg)
  /\ Emit(c, Tail(out[c]))
  /\ UNCHANGED <<fdOwner, toServer, listVars, my_socket, nodeVars, pc, loc, client_data_mutex>>
-----------------------------------------------------------------------------
(* What a section of a handler does not touch.                             *)
HandlerFrame == UNCHANGED <<fdOwner, sendVars, listVars, my_socket>>

Reply(c, t, a) == Emit(c, <<To(my_socket[c], t, a)>>)

-----------------------------------------------------------------------------
(* For the mutants: only a failed search is refused.                       *)
NameTakenNever(n) == check_client_with_same_name_exist_or_not(n) = "NAME_FIND_ERR"

(* set_name_handler: the search and the change are one section.            *)
NameTaken(n) == check_client_with_same_name_exist_or_not(n) # "NAME_NOT_EXIST"

SetName(c) ==
  /\ Received(c, "MSG_SET_NAME_REQ_TYPE") /\ MutexFree
  /\ IF NameTaken(Buffer(c))
     THEN /\ Reply(c, "MSG_SET_NAME_NACK_TYPE", NoArg)
          /\ UNCHANGED name
     ELSE /\ Emit(c, IF NodeByFd(my_socket[c]) = NoClient THEN <<>>
                     ELSE <<To(my_socket[c], "MSG_SET_NAME_ACK_TYPE", NoArg)>>)
          /\ name' = set_name_of_client_by_client_fd(name, my_socket[c], Buffer(c))
  /\ HandlerFrame
  /\ UNCHANGED <<chat_status, to_fd, pc, loc, client_data_mutex>>

(* send_client_list_handler does not take the mutex.                       *)
GetClientList(c) ==
  /\ Received(c, "MSG_GET_CLIENT_LIST_TYPE")
  /\ Reply(c, "MSG_GET_CLIENT_LIST_TYPE", NoArg)
  /\ HandlerFrame
  /\ UNCHANGED <<nodeVars, pc, loc, client_data_mutex>>
-----------------------------------------------------------------------------
(* handle_chat_connection_request                                          *)

(* The answer to a request for a client with a given status.               *)
StatusAnswer ==
  [CHAT_STATUS_FREE |-> "MSG_CLIENT_FREE",
   CHAT_STATUS_BUSY |-> "MSG_CLIENT_BUSY",
   CHAT_STATUS_REQ_PENDING |-> "MSG_CLIENT_STATUS_REQ_PENDING"]

(* For the mutants: without the test for one's own name.                   *)
VerdictWithoutSelf(c, n) ==
  IF check_client_with_same_name_exist_or_not(n) # "NAME_EXISTS"
  THEN "MSG_CLIENT_NOT_EXIST"
  ELSE StatusAnswer[get_client_chatting_status_by_name(n)]

(* What the first section makes of a request of thread c for the name n.   *)
Verdict(c, n) ==
  IF check_client_with_same_name_exist_or_not(n) # "NAME_EXISTS"
  THEN "MSG_CLIENT_NOT_EXIST"
  ELSE IF get_client_name_by_fd(my_socket[c]) = n
  THEN "MSG_ATTEMPT_TO_CONNECT_TO_SELF"
  ELSE StatusAnswer[get_client_chatting_status_by_name(n)]

Request(c) ==
  /\ Received(c, "MSG_CONNECT_TO_CLIENT") /\ MutexFree
  /\ IF Verdict(c, Buffer(c)) = "MSG_CLIENT_FREE"
     THEN /\ GoTo(c, "req_mark")
          /\ Locals(c, Local(Buffer(c), INVALID_FD, NoClient))
          /\ UNCHANGED out
     ELSE /\ Reply(c, Verdict(c, Buffer(c)), Buffer(c))
          /\ UNCHANGED <<pc, loc>>
  /\ HandlerFrame
  /\ UNCHANGED <<nodeVars, client_data_mutex>>

(* The name is looked up again, and whatever has it is marked.             *)
RequestMark(c) ==
  LET conn == get_client_fd_by_name(loc[c].conn_name)
  IN  /\ At(c, "req_mark") /\ MutexFree
      /\ chat_status' =
           set_client_chatting_status_by_fd(chat_status, conn, "CHAT_STATUS_REQ_PENDING")
      /\ IF conn = INVALID_FD
         THEN /\ GoTo(c, "loop")
              /\ Locals(c, NoLocals)
              /\ Reply(c, "MSG_CLIENT_NOT_EXIST", loc[c].conn_name)
         ELSE /\ GoTo(c, "req_link")
              /\ Locals(c, Local(loc[c].conn_name, conn, NoClient))
              /\ UNCHANGED out
      /\ HandlerFrame
      /\ UNCHANGED <<toServer, to_fd, name, client_data_mutex>>

(* For the mutants: only the requester's end is linked.                    *)
RequestLinksOneEnd(c) ==
  LET conn == loc[c].conn_fd
  IN  /\ At(c, "req_link") /\ MutexFree
      /\ to_fd' = set_to_fd_by_fd(to_fd, my_socket[c], conn)
      /\ Emit(c, <<To(conn, "MSG_CONNECTION_REQ_RX", name[c]),
                   To(my_socket[c], "MSG_CLIENT_FREE", loc[c].conn_name)>>)
      /\ GoTo(c, "loop")
      /\ Locals(c, NoLocals)
      /\ HandlerFrame
      /\ UNCHANGED <<toServer, chat_status, name, client_data_mutex>>

(* Another: the section is left out.                                       *)
RequestLinkUnlocked(c) ==
  LET conn == loc[c].conn_fd
  IN  /\ At(c, "req_link")
      /\ to_fd' = set_to_fd_by_fd(set_to_fd_by_fd(to_fd, my_socket[c], conn),
                                  conn, my_socket[c])
      /\ Emit(c, <<To(conn, "MSG_CONNECTION_REQ_RX", name[c]),
                   To(my_socket[c], "MSG_CLIENT_FREE", loc[c].conn_name)>>)
      /\ GoTo(c, "loop")
      /\ Locals(c, NoLocals)
      /\ HandlerFrame
      /\ UNCHANGED <<toServer, chat_status, name, client_data_mutex>>

RequestLink(c) ==
  LET conn == loc[c].conn_fd
  IN  /\ At(c, "req_link") /\ MutexFree
      /\ to_fd' = set_to_fd_by_fd(set_to_fd_by_fd(to_fd, my_socket[c], conn),
                                  conn, my_socket[c])
      /\ Emit(c, <<To(conn, "MSG_CONNECTION_REQ_RX", name[c]),
                   To(my_socket[c], "MSG_CLIENT_FREE", loc[c].conn_name)>>)
      /\ GoTo(c, "loop")
      /\ Locals(c, NoLocals)
      /\ HandlerFrame
      /\ UNCHANGED <<toServer, chat_status, name, client_data_mutex>>
-----------------------------------------------------------------------------
(* handle_conn_accept.  Its first section ends in one of four ways.        *)

(* No requester: the handler returns and leaves the mutex locked.          *)
AcceptNoFd(c) ==
  /\ Received(c, "MSG_CLIENT_ACCEPT_CONNECTION") /\ MutexFree
  /\ get_conn_fd_by_fd(my_socket[c]) = INVALID_FD
  /\ client_data_mutex' = c
  /\ HandlerFrame
  /\ UNCHANGED <<nodeVars, pc, loc, out>>

(* No client has the requester's descriptor any more (or its name is the   *)
(* string UNDEF_NAME).                                                     *)
AcceptNoMoreExist(c) ==
  /\ Received(c, "MSG_CLIENT_ACCEPT_CONNECTION") /\ MutexFree
  /\ get_conn_fd_by_fd(my_socket[c]) # INVALID_FD
  /\ get_client_name_by_fd(get_conn_fd_by_fd(my_socket[c])) = UNDEF_NAME
  /\ chat_status' =
       set_client_chatting_status_by_fd(chat_status, my_socket[c], "CHAT_STATUS_FREE")
  /\ to_fd' = set_to_fd_by_fd(to_fd, my_socket[c], INVALID_FD)
  /\ Reply(c, "MSG_CLIENT_NO_MORE_EXIST", NoArg)
  /\ HandlerFrame
  /\ UNCHANGED <<name, pc, loc, client_data_mutex>>

(* The rest is decided from what the first section read.                   *)
AcceptReads(c) ==
  LET conn == get_conn_fd_by_fd(my_socket[c])
  IN  /\ Received(c, "MSG_CLIENT_ACCEPT_CONNECTION") /\ MutexFree
      /\ conn # INVALID_FD
      /\ get_client_name_by_fd(conn) # UNDEF_NAME
      /\ IF get_client_chatting_status_by_fd(conn) = "CHAT_STATUS_BUSY"
         THEN /\ GoTo(c, "acc_busy")
              /\ Locals(c, Local(UNDEF_NAME, INVALID_FD, NodeByFd(conn)))
              /\ UNCHANGED out
         ELSE IF get_client_chatting_status_by_fd(my_socket[c]) # "CHAT_STATUS_REQ_PENDING"
         THEN /\ Reply(c, "MSG_CLIENT_ACCEPT_CONNECTION_ACK", SOMETHING_IS_WRONG)
              /\ UNCHANGED <<pc, loc>>
         ELSE /\ GoTo(c, "acc_pair")
              /\ Locals(c, Local(UNDEF_NAME, conn, NoClient))
              /\ UNCHANGED out
      /\ HandlerFrame
      /\ UNCHANGED <<nodeVars, client_data_mutex>>

(* For the mutants: the busy requester is freed, not the client itself.    *)
AcceptBusyFreesRequester(c) ==
  /\ At(c, "acc_busy") /\ MutexFree
  /\ chat_status' = set_client_chatting_status_by_fd(
                      chat_status, get_conn_fd_by_fd(my_socket[c]), "CHAT_STATUS_FREE")
  /\ \E n \in NamesAt(loc[c].conn_node) : Reply(c, "MSG_CLIENT_NO_MORE_FREE", n)
  /\ GoTo(c, "loop")
  /\ Locals(c, NoLocals)
  /\ HandlerFrame
  /\ UNCHANGED <<toServer, to_fd, name, client_data_mutex>>

(* The requester was busy: its name is read through the kept pointer.      *)
AcceptBusy(c) ==
  /\ At(c, "acc_busy") /\ MutexFree
  /\ chat_status' =
       set_client_chatting_status_by_fd(chat_status, my_socket[c], "CHAT_STATUS_FREE")
  /\ \E n \in NamesAt(loc[c].conn_node) : Reply(c, "MSG_CLIENT_NO_MORE_FREE", n)
  /\ GoTo(c, "loop")
  /\ Locals(c, NoLocals)
  /\ HandlerFrame
  /\ UNCHANGED <<toServer, to_fd, name, client_data_mutex>>

(* For the mutants: the requester's end is left to the requester.          *)
AcceptMarksOneEnd(c) ==
  LET conn == loc[c].conn_fd
  IN  /\ At(c, "acc_pair") /\ MutexFree
      /\ chat_status' = set_client_chatting_status_by_fd(chat_status, my_socket[c],
                                                         "CHAT_STATUS_BUSY")
      /\ to_fd' = set_to_fd_by_fd(to_fd, my_socket[c], conn)
      /\ GoTo(c, "acc_reply")
      /\ Locals(c, Local(UNDEF_NAME, conn, NodeByFd(conn)))
      /\ HandlerFrame
      /\ UNCHANGED <<toServer, name, out, client_data_mutex>>

AcceptPair(c) ==
  LET conn == loc[c].conn_fd
  IN  /\ At(c, "acc_pair") /\ MutexFree
      /\ chat_status' = set_client_chatting_status_by_fd(
                          set_client_chatting_status_by_fd(chat_status, my_socket[c],
                                                           "CHAT_STATUS_BUSY"),
                          conn, "CHAT_STATUS_BUSY")
      /\ to_fd' = set_to_fd_by_fd(set_to_fd_by_fd(to_fd, my_socket[c], conn),
                                  conn, my_socket[c])
      /\ GoTo(c, "acc_reply")
      /\ Locals(c, Local(UNDEF_NAME, conn, NodeByFd(conn)))
      /\ HandlerFrame
      /\ UNCHANGED <<toServer, name, out, client_data_mutex>>

(* Both names are read after the unlock; if the requester's node was gone  *)
(* (NoClient) its name is UNDEF_NAME and nobody is told.                   *)
AcceptReply(c) ==
  /\ At(c, "acc_reply")
  /\ \E n \in IF loc[c].conn_node = NoClient THEN {UNDEF_NAME} ELSE NamesAt(loc[c].conn_node) :
       Emit(c, IF n = UNDEF_NAME \/ name[c] = UNDEF_NAME THEN <<>>
               ELSE <<To(my_socket[c], "MSG_CLIENT_CHAT_READY", n),
                      To(loc[c].conn_fd, "MSG_CLIENT_ACCEPT_CONNECTION_ACK", name[c])>>)
  /\ GoTo(c, "loop")
  /\ Locals(c, NoLocals)
  /\ HandlerFrame
  /\ UNCHANGED <<toServer, nodeVars, client_data_mutex>>
-----------------------------------------------------------------------------
(* handle_tx_msg                                                           *)

Tx(c) ==
  LET conn == get_conn_fd_by_fd(my_socket[c])
      busy == get_client_chatting_status_by_fd(my_socket[c]) = "CHAT_STATUS_BUSY"
  IN  /\ Received(c, "MSG_CLIENT_TX_TYPE") /\ MutexFree
      /\ IF ~ busy \/ conn = INVALID_FD
         THEN UNCHANGED <<pc, loc, out>>
         ELSE IF Buffer(c) = DISCONNECT_CMD
         THEN /\ GoTo(c, "tx_disc")
              /\ Locals(c, Local(UNDEF_NAME, conn, NoClient))
              /\ UNCHANGED out
         ELSE /\ Emit(c, <<To(conn, "MSG_CLIENT_RX_TYPE", Buffer(c))>>)
              /\ UNCHANGED <<pc, loc>>
      /\ HandlerFrame
      /\ UNCHANGED <<nodeVars, client_data_mutex>>

(* For the mutants: the partner's link is cleared, its status is not.      *)
DisconnectLeavesPartnerBusy(c) ==
  LET conn == loc[c].conn_fd
  IN  /\ At(c, "tx_disc") /\ MutexFree
      /\ chat_status' = set_client_chatting_status_by_fd(chat_status, my_socket[c],
                                                         "CHAT_STATUS_FREE")
      /\ to_fd' = set_to_fd_by_fd(set_to_fd_by_fd(to_fd, my_socket[c], INVALID_FD),
                                  conn, INVALID_FD)
      /\ Emit(c, <<To(conn, "MSG_CLIENT_DISCONNECTED", get_client_name_by_fd(my_socket[c]))>>)
      /\ GoTo(c, "loop")
      /\ Locals(c, NoLocals)
      /\ HandlerFrame
      /\ UNCHANGED <<toServer, name, client_data_mutex>>

(* Both ends are freed, with the descriptor read one section earlier.      *)
Disconnect(c) ==
  LET conn == loc[c].conn_fd
  IN  /\ At(c, "tx_disc") /\ MutexFree
      /\ chat_status' = set_client_chatting_status_by_fd(
                          set_client_chatting_status_by_fd(chat_status, my_socket[c],
                                                           "CHAT_STATUS_FREE"),
                          conn, "CHAT_STATUS_FREE")
      /\ to_fd' = set_to_fd_by_fd(set_to_fd_by_fd(to_fd, my_socket[c], INVALID_FD),
                                  conn, INVALID_FD)
      /\ Emit(c, <<To(conn, "MSG_CLIENT_DISCONNECTED", get_client_name_by_fd(my_socket[c]))>>)
      /\ GoTo(c, "loop")
      /\ Locals(c, NoLocals)
      /\ HandlerFrame
      /\ UNCHANGED <<toServer, name, client_data_mutex>>
-----------------------------------------------------------------------------
(* handle_decline_conn_request: the requester is told, then, in a section  *)
(* of its own, this client becomes free whatever it is by then.            *)
Decline(c) ==
  LET conn == get_conn_fd_by_fd(my_socket[c])
      pending == get_client_chatting_status_by_fd(my_socket[c]) = "CHAT_STATUS_REQ_PENDING"
  IN  /\ Received(c, "MSG_CLIENT_DECLINE_CONNECTION") /\ MutexFree
      /\ IF pending /\ conn # INVALID_FD
         THEN /\ Emit(c, <<To(conn, "MSG_CLIENT_DECLINE_CONNECTION_ACK", name[c])>>)
              /\ GoTo(c, "decl_free")
         ELSE UNCHANGED <<pc, out>>
      /\ HandlerFrame
      /\ UNCHANGED <<nodeVars, loc, client_data_mutex>>

DeclineFree(c) ==
  /\ At(c, "decl_free") /\ MutexFree
  /\ chat_status' =
       set_client_chatting_status_by_fd(chat_status, my_socket[c], "CHAT_STATUS_FREE")
  /\ GoTo(c, "loop")
  /\ HandlerFrame
  /\ UNCHANGED <<toServer, to_fd, name, loc, out, client_data_mutex>>
-----------------------------------------------------------------------------
(* client_thread, when its client has closed the connection: the client it *)
(* was linked to is told and freed, unless that client is free already, in *)
(* the section that removes the node.                                      *)

(* For the mutants: the link, not the thread's own node, is removed.       *)
ClientClosedRemovesLink(c) ==
  LET me == my_socket[c]
      conn == get_conn_fd_by_fd(me)
  IN  /\ At(c, "loop") /\ MutexFree
      /\ Inbox(c) = <<>> /\ PeerGone(c)
      /\ UNCHANGED sendVars
      /\ remove_client_node_from_queue_by_fd(IF conn = INVALID_FD THEN me ELSE conn,
                                             chat_status, to_fd)
      /\ GoTo(c, "exited")
      /\ UNCHANGED <<toServer, out, loc, client_data_mutex>>

(* Another: a linked client's node stays in the list.                      *)
ClientClosedKeepsLinkedNode(c) ==
  LET me == my_socket[c]
      conn == get_conn_fd_by_fd(me)
  IN  /\ At(c, "loop") /\ MutexFree
      /\ Inbox(c) = <<>> /\ PeerGone(c)
      /\ UNCHANGED sendVars
      /\ IF conn # INVALID_FD
         THEN UNCHANGED <<fdOwner, listVars, my_socket, nodeVars>>
         ELSE remove_client_node_from_queue_by_fd(me, chat_status, to_fd)
      /\ GoTo(c, "exited")
      /\ UNCHANGED <<toServer, out, loc, client_data_mutex>>

(* And another: the client it was linked to is not told.                   *)
ClientClosedTellsNobody(c) ==
  /\ At(c, "loop") /\ MutexFree
  /\ Inbox(c) = <<>> /\ PeerGone(c)
  /\ UNCHANGED sendVars
  /\ remove_client_node_from_queue_by_fd(my_socket[c], chat_status, to_fd)
  /\ GoTo(c, "exited")
  /\ UNCHANGED <<toServer, out, loc, client_data_mutex>>

ClientClosed(c) ==
  LET me == my_socket[c]
      conn == get_conn_fd_by_fd(me)
      linked == /\ conn # INVALID_FD
                /\ get_client_chatting_status_by_fd(conn) # "CHAT_STATUS_FREE"
  IN  /\ At(c, "loop") /\ MutexFree
      /\ Inbox(c) = <<>> /\ PeerGone(c)
      /\ IF linked
         THEN /\ Send(conn, Msg("MSG_CLIENT_TERMINATION", get_client_name_by_fd(me)))
              /\ remove_client_node_from_queue_by_fd(me,
                   set_client_chatting_status_by_fd(chat_status, conn, "CHAT_STATUS_FREE"),
                   set_to_fd_by_fd(to_fd, me, INVALID_FD))
         ELSE /\ UNCHANGED sendVars
              /\ remove_client_node_from_queue_by_fd(me, chat_status, to_fd)
      /\ GoTo(c, "exited")
      /\ UNCHANGED <<toServer, out, loc, client_data_mutex>>
-----------------------------------------------------------------------------
MainNext(c) == (\E f \in Fds : Accept(c, f)) \/ Admit(c) \/ TurnAway(c) \/ SpawnFails(c)

ThreadNext(c) ==
  \/ Register(c) \/ RegisterFails(c) \/ Greeted(c) \/ GreetFails(c)
  \/ SetName(c) \/ GetClientList(c)
  \/ Request(c) \/ RequestMark(c) \/ RequestLink(c)
  \/ AcceptNoFd(c) \/ AcceptNoMoreExist(c) \/ AcceptReads(c)
  \/ AcceptBusy(c) \/ AcceptPair(c) \/ AcceptReply(c)
  \/ Tx(c) \/ Disconnect(c)
  \/ Decline(c) \/ DeclineFree(c)
  \/ ClientClosed(c)
  \/ Flush(c)

ServerNext == \E c \in Clients : MainNext(c) \/ ThreadNext(c)
=============================================================================
