-------------------------- MODULE ChatSystemProofs --------------------------
(***************************************************************************)
(* Theorems about ChatSystem, for any number of clients, descriptors,      *)
(* names and typed lines.  IInv is the inductive invariant they rest on.   *)
(***************************************************************************)
EXTENDS ChatSystem, ClientRegistryProofs

(* What a handler carries from one section to the next: the name a request *)
(* is for is not the requester's own, and the descriptor is set and is not *)
(* the thread's own.                                                       *)
LocalsOf(c) ==
  /\ pc[c] = "req_mark" => loc[c].conn_name # name[c]
  /\ pc[c] \in {"req_link", "acc_pair", "acc_reply", "tx_disc"} =>
       loc[c].conn_fd # INVALID_FD /\ loc[c].conn_fd # my_socket[c]
LocalsInv == \A c \in Clients : LocalsOf(c)

ListInv == CountMatches /\ FdNamesOneClient /\ ServedIsListed /\ ThreadHoldsFd
LinkInv == LocalsInv /\ BusyHasLink /\ PendingHasRequester /\ NeverOwnLink

IInv == TypeOK /\ ListInv /\ LinkInv

-----------------------------------------------------------------------------
(* Types                                                                   *)

(* Every message and send an action builds has the declared type.          *)
LEMMA MessagesTyped ==
  /\ \A t \in MsgTypes, a \in Args : Msg(t, a) \in Messages
  /\ \A f \in Fds \cup {INVALID_FD}, t \in MsgTypes, a \in Args : To(f, t, a) \in Sends
  /\ Names \cup {UNDEF_NAME, SOMETHING_IS_WRONG, NoArg} \subseteq Args
BY DEF Msg, To, Messages, Sends, Args, NameValues

(* What a handler has to send is a sequence of sends.                      *)
LEMMA EmitTyped ==
  ASSUME ServerTypeOK, NEW c \in Clients
  PROVE  /\ Emit(c, <<>>) => out' \in [Clients -> Seq(Sends)]
         /\ \A x \in Sends : Emit(c, <<x>>) => out' \in [Clients -> Seq(Sends)]
         /\ \A x, y \in Sends : Emit(c, <<x, y>>) => out' \in [Clients -> Seq(Sends)]
<1>1. \A s \in Seq(Sends) : Emit(c, s) => out' \in [Clients -> Seq(Sends)]
  BY DEF Emit, ServerTypeOK
<1>2. \A x, y \in Sends : <<x>> \in Seq(Sends) /\ <<x, y>> \in Seq(Sends)
  OBVIOUS
<1>3. <<>> \in Seq(Sends)
  OBVIOUS
<1> QED
  BY <1>1, <1>2, <1>3

(* A move to a control point, and a new set of locals.                     *)
LEMMA MovesTyped ==
  ASSUME ServerTypeOK, NEW c \in Clients
  PROVE  /\ \A p \in Pcs : GoTo(c, p) => pc' \in [Clients -> Pcs]
         /\ \A l \in LocalSet : Locals(c, l) => loc' \in [Clients -> LocalSet]
         /\ \A n \in Names \cup {UNDEF_NAME}, f \in Fds \cup {INVALID_FD},
               d \in Clients \cup {NoClient} : Local(n, f, d) \in LocalSet
         /\ NoLocals \in LocalSet
BY DEF GoTo, Locals, Local, LocalSet, NoLocals, ServerTypeOK

(* Receiving takes one client message off the thread's stream.             *)
LEMMA ReceiveTyped ==
  ASSUME SocketsTypeOK, NEW c \in Clients, Inbox(c) # <<>>
  PROVE  /\ Head(Inbox(c)) \in ClientMessages
         /\ Receive(c) => toServer' \in [Clients -> Seq(ClientMessages)]
<1>1. Conn(c) \in Clients /\ Inbox(c) = toServer[Conn(c)]
  BY DEF Inbox
<1>2. Inbox(c) \in Seq(ClientMessages)
  BY <1>1 DEF SocketsTypeOK
<1>3. Head(Inbox(c)) \in ClientMessages /\ Tail(Inbox(c)) \in Seq(ClientMessages)
  BY <1>2, HeadTailProperties
<1> QED
  BY <1>1, <1>3 DEF Receive, SocketsTypeOK

(* The payload of a received message, by its type.                         *)
LEMMA BufferTyped ==
  ASSUME SocketsTypeOK, NEW c \in Clients, Inbox(c) # <<>>
  PROVE  /\ Head(Inbox(c)).type \in {"MSG_SET_NAME_REQ_TYPE", "MSG_CONNECT_TO_CLIENT"} =>
              Buffer(c) \in Names
         /\ Buffer(c) \in Args
BY ReceiveTyped DEF ClientMessages, Buffer, Args, NameValues

(* Actions of the handlers leave most variables alone.                     *)
LEMMA FrameTyped ==
  ASSUME TypeOK, HandlerFrame, UNCHANGED clientVars,
         toServer' \in [Clients -> Seq(ClientMessages)],
         chat_status' \in [Clients -> ChatStatus],
         to_fd' \in [Clients -> Fds \cup {INVALID_FD}],
         name' \in [Clients -> Names \cup {UNDEF_NAME}],
         ServerTypeOK'
  PROVE  TypeOK'
BY DEF TypeOK, HandlerFrame, clientVars, flagVars, sendVars, listVars,
       SocketsTypeOK, RegistryTypeOK, ClientTypeOK

(* The answer to a request is a message type.                              *)
LEMMA VerdictTyped ==
  ASSUME RegistryTypeOK, NEW c \in Clients, NEW n
  PROVE  Verdict(c, n) \in MsgTypes
<1>1. CASE check_client_with_same_name_exist_or_not(n) # "NAME_EXISTS"
  BY <1>1 DEF Verdict, MsgTypes
<1>2. CASE check_client_with_same_name_exist_or_not(n) = "NAME_EXISTS"
  <2>1. NodeByName(n) # NoClient
    BY <1>2 DEF check_client_with_same_name_exist_or_not
  <2>2. get_client_chatting_status_by_name(n) \in ChatStatus
    BY <2>1, NodeByNameFinds DEF get_client_chatting_status_by_name, RegistryTypeOK
  <2>3. StatusAnswer[get_client_chatting_status_by_name(n)] \in MsgTypes
    BY <2>2 DEF StatusAnswer, ChatStatus, MsgTypes
  <2> QED
    BY <1>2, <2>3 DEF Verdict, MsgTypes
<1> QED
  BY <1>1, <1>2

(* What main and the start of a thread do keeps the types.                 *)
LEMMA AdmissionTyped ==
  ASSUME TypeOK, ThreadHoldsFd, NEW c \in Clients, UNCHANGED clientVars,
         MainNext(c) \/ Register(c) \/ RegisterFails(c) \/ Greeted(c) \/ GreetFails(c)
  PROVE  TypeOK'
<1> USE DEF TypeOK, clientVars, flagVars
<1>1. ClientTypeOK'
  BY DEF ClientTypeOK
<1>2. Msg("MSG_MAX_CLIENT_REACHED", NoArg) \in Messages
  BY MessagesTyped DEF MsgTypes
<1>3. \A p \in Pcs : GoTo(c, p) => pc' \in [Clients -> Pcs]
  BY DEF GoTo, ServerTypeOK
<1>a. ASSUME NEW f \in Fds, Accept(c, f) PROVE TypeOK'
  BY <1>1, <1>3, <1>a
  DEF Accept, SocketsTypeOK, RegistryTypeOK, ServerTypeOK, sendVars, listVars, nodeVars, Pcs
<1>b. CASE Admit(c)
  BY <1>1, <1>3, <1>b
  DEF Admit, SocketsTypeOK, RegistryTypeOK, ServerTypeOK, sockVars, listVars, nodeVars, Pcs
<1>c. CASE TurnAway(c)
  BY <1>1, <1>2, <1>3, <1>c, SendTyped
  DEF TurnAway, SocketsTypeOK, RegistryTypeOK, ServerTypeOK, listVars, nodeVars, Pcs
<1>d. CASE SpawnFails(c)
  BY <1>1, <1>3, <1>d
  DEF SpawnFails, SocketsTypeOK, RegistryTypeOK, ServerTypeOK, listVars, nodeVars, Pcs
<1>e. CASE Register(c)
  <2>1. my_socket[c] \in Fds \cup {INVALID_FD}
    BY DEF RegistryTypeOK
  <2>2. out' \in [Clients -> Seq(Sends)]
    <3>1. To(my_socket[c], "MSG_CONN_ESTABLISH_REQ", NoArg) \in Sends
      BY <2>1, MessagesTyped DEF MsgTypes
    <3> QED
      BY <1>e, <3>1, EmitTyped DEF Register
  <2>3. ServerTypeOK'
    BY <1>3, <1>e, <2>2 DEF Register, ServerTypeOK, Pcs, ServingPcs
  <2>4. clientList' \in Seq(Clients) /\ total_available_clients' \in 0..255
    <3>1. clientList' = Append(clientList, c)
          /\ total_available_clients' = (total_available_clients + 1) % 256
      BY <1>e DEF Register, add_client_node_to_queue
    <3>2. \A n \in Int : n % 256 \in 0..255
      OBVIOUS
    <3>3. Append(clientList, c) \in Seq(Clients)
      BY AppendProperties DEF RegistryTypeOK
    <3> QED
      BY <3>1, <3>2, <3>3 DEF RegistryTypeOK
  <2>5. name' \in [Clients -> Names \cup {UNDEF_NAME}]
    <3>1. DefaultName[my_socket[c]] \in Names
      BY <1>e, NamesAssumption DEF Register, At, ThreadHoldsFd
    <3> QED
      BY <1>e, <3>1 DEF Register, add_client_node_to_queue, RegistryTypeOK
  <2> QED
    BY <1>1, <1>e, <2>3, <2>4, <2>5
    DEF Register, add_client_node_to_queue, SocketsTypeOK, RegistryTypeOK, sockVars, ChatStatus
<1>f. CASE RegisterFails(c)
  BY <1>1, <1>2, <1>3, <1>f, SendTyped
  DEF RegisterFails, SocketsTypeOK, RegistryTypeOK, ServerTypeOK, listVars, nodeVars, Pcs
<1>g. CASE Greeted(c)
  BY <1>1, <1>3, <1>g, ReceiveTyped
  DEF Greeted, SocketsTypeOK, RegistryTypeOK, ServerTypeOK, sendVars, listVars, nodeVars, Pcs,
      ServingPcs
<1>h. CASE GreetFails(c)
  BY <1>1, <1>3, <1>h
  DEF GreetFails, SocketsTypeOK, RegistryTypeOK, ServerTypeOK, sockVars, listVars, nodeVars, Pcs
<1> QED
  BY <1>a, <1>b, <1>c, <1>d, <1>e, <1>f, <1>g, <1>h DEF MainNext

(* The handlers that fit in one section keep the types.                    *)
LEMMA ShortHandlersTyped ==
  ASSUME TypeOK, NEW c \in Clients, UNCHANGED clientVars,
         SetName(c) \/ GetClientList(c) \/ Request(c) \/ AcceptNoFd(c)
           \/ AcceptNoMoreExist(c) \/ AcceptReads(c) \/ Tx(c) \/ Decline(c)
  PROVE  TypeOK'
<1> DEFINE me == my_socket[c]
<1> USE NoClientAssumption
<1>0. SocketsTypeOK /\ RegistryTypeOK /\ ServerTypeOK /\ UNCHANGED nodeVars => 
        /\ chat_status' \in [Clients -> ChatStatus]
        /\ to_fd' \in [Clients -> Fds \cup {INVALID_FD}]
        /\ name' \in [Clients -> Names \cup {UNDEF_NAME}]
  BY DEF RegistryTypeOK, nodeVars
<1>1. /\ SocketsTypeOK /\ RegistryTypeOK /\ ServerTypeOK
      /\ me \in Fds \cup {INVALID_FD}
      /\ get_conn_fd_by_fd(me) \in Fds \cup {INVALID_FD}
      /\ name[c] \in Names \cup {UNDEF_NAME}
  BY LookupsTyped DEF TypeOK, RegistryTypeOK
<1>2. \A p \in Pcs : GoTo(c, p) => pc' \in [Clients -> Pcs]
  BY <1>1, MovesTyped
<1>3. \A f \in Fds \cup {INVALID_FD}, t \in MsgTypes, a \in Args :
        Emit(c, <<To(f, t, a)>>) => out' \in [Clients -> Seq(Sends)]
  BY <1>1, MessagesTyped, EmitTyped
<1>4. Emit(c, <<>>) => out' \in [Clients -> Seq(Sends)]
  BY <1>1, EmitTyped
<1>5. \A t \in MsgTypes, a \in Args : Reply(c, t, a) => out' \in [Clients -> Seq(Sends)]
  BY <1>1, <1>3 DEF Reply
<1>6. ASSUME NEW t, Received(c, t)
      PROVE  /\ toServer' \in [Clients -> Seq(ClientMessages)]
             /\ Buffer(c) \in Args
             /\ t \in {"MSG_SET_NAME_REQ_TYPE", "MSG_CONNECT_TO_CLIENT"} => Buffer(c) \in Names
  BY <1>1, <1>6, ReceiveTyped, BufferTyped DEF Received
<1>7. \A g : \A n \in Names \cup {UNDEF_NAME}, f \in Fds \cup {INVALID_FD} :
        \A l \in {Local(n, f, NoClient), Local(n, f, NodeByFd(g))} :
          Locals(c, l) => loc' \in [Clients -> LocalSet]
  BY <1>1, MovesTyped, NodeByFdFinds
<1>a. CASE SetName(c)
  <2>1. name' \in [Clients -> Names \cup {UNDEF_NAME}]
    <3>1. Buffer(c) \in Names
      BY <1>6, <1>a DEF SetName
    <3>2. Stored[Buffer(c)] \in Names
      BY <3>1, NamesAssumption
    <3>3. set_name_of_client_by_client_fd(name, me, Buffer(c))
            \in [Clients -> Names \cup {UNDEF_NAME}]
      BY <1>1, <3>2, NodeByFdFinds DEF set_name_of_client_by_client_fd, RegistryTypeOK
    <3> QED
      BY <1>1, <1>a, <3>3 DEF SetName, RegistryTypeOK
  <2>2. out' \in [Clients -> Seq(Sends)]
    BY <1>1, <1>3, <1>4, <1>5, <1>a, MessagesTyped DEF SetName, MsgTypes
  <2> QED
    BY <1>1, <1>6, <1>a, <2>1, <2>2, FrameTyped DEF SetName, RegistryTypeOK, ServerTypeOK
<1>b. CASE GetClientList(c)
  <2>1. out' \in [Clients -> Seq(Sends)]
    BY <1>5, <1>b, MessagesTyped DEF GetClientList, MsgTypes
  <2> QED
    BY <1>0, <1>1, <1>6, <1>b, <2>1, FrameTyped DEF GetClientList, ServerTypeOK
<1>c. CASE Request(c)
  <2>1. Buffer(c) \in Names /\ Buffer(c) \in Args /\ Verdict(c, Buffer(c)) \in MsgTypes
    BY <1>1, <1>6, <1>c, VerdictTyped DEF Request
  <2>2. ServerTypeOK'
    BY <1>1, <1>2, <1>5, <1>7, <1>c, <2>1
    DEF Request, ServerTypeOK, Pcs, ServingPcs, HandlerPcs
  <2> QED
    BY <1>0, <1>1, <1>6, <1>c, <2>2, FrameTyped DEF Request
<1>d. CASE AcceptNoFd(c)
  <2>1. ServerTypeOK'
    BY <1>1, <1>d DEF AcceptNoFd, ServerTypeOK
  <2> QED
    BY <1>0, <1>1, <1>6, <1>d, <2>1, FrameTyped DEF AcceptNoFd
<1>e. CASE AcceptNoMoreExist(c)
  <2>1. /\ chat_status' \in [Clients -> ChatStatus]
        /\ to_fd' \in [Clients -> Fds \cup {INVALID_FD}]
    BY <1>1, <1>e, SettersTyped DEF AcceptNoMoreExist, RegistryTypeOK, ChatStatus
  <2>2. out' \in [Clients -> Seq(Sends)]
    BY <1>5, <1>e, MessagesTyped DEF AcceptNoMoreExist, MsgTypes
  <2> QED
    BY <1>1, <1>6, <1>e, <2>1, <2>2, FrameTyped
    DEF AcceptNoMoreExist, RegistryTypeOK, ServerTypeOK
<1>f. CASE AcceptReads(c)
  <2>1. "MSG_CLIENT_ACCEPT_CONNECTION_ACK" \in MsgTypes /\ SOMETHING_IS_WRONG \in Args
    BY MessagesTyped DEF MsgTypes
  <2>2. ServerTypeOK'
    BY <1>1, <1>2, <1>5, <1>7, <1>f, <2>1
    DEF AcceptReads, ServerTypeOK, Pcs, ServingPcs, HandlerPcs
  <2> QED
    BY <1>0, <1>1, <1>6, <1>f, <2>2, FrameTyped DEF AcceptReads
<1>g. CASE Tx(c)
  <2>1. "MSG_CLIENT_RX_TYPE" \in MsgTypes
    BY DEF MsgTypes
  <2>2. ServerTypeOK'
    BY <1>1, <1>2, <1>3, <1>6, <1>7, <1>g, <2>1
    DEF Tx, ServerTypeOK, Pcs, ServingPcs, HandlerPcs
  <2> QED
    BY <1>0, <1>1, <1>6, <1>g, <2>2, FrameTyped DEF Tx
<1>h. CASE Decline(c)
  <2>1. "MSG_CLIENT_DECLINE_CONNECTION_ACK" \in MsgTypes /\ name[c] \in Args
    BY <1>1, MessagesTyped DEF MsgTypes
  <2>2. ServerTypeOK'
    BY <1>1, <1>2, <1>3, <1>h, <2>1
    DEF Decline, ServerTypeOK, Pcs, ServingPcs, HandlerPcs
  <2> QED
    BY <1>0, <1>1, <1>6, <1>h, <2>2, FrameTyped DEF Decline
<1> QED
  BY <1>a, <1>b, <1>c, <1>d, <1>e, <1>f, <1>g, <1>h

(* The later sections of the longer handlers keep the types.               *)
LEMMA LaterSectionsTyped ==
  ASSUME TypeOK, NEW c \in Clients, UNCHANGED clientVars,
         RequestMark(c) \/ RequestLink(c) \/ AcceptBusy(c) \/ AcceptPair(c)
           \/ AcceptReply(c) \/ Disconnect(c) \/ DeclineFree(c)
  PROVE  TypeOK'
<1> DEFINE me == my_socket[c]
           conn == loc[c].conn_fd
<1> USE NoClientAssumption
<1>1. /\ SocketsTypeOK /\ RegistryTypeOK /\ ServerTypeOK
      /\ me \in Fds \cup {INVALID_FD}
      /\ name[c] \in Names \cup {UNDEF_NAME}
  BY DEF TypeOK, RegistryTypeOK
<1>2. /\ loc[c].conn_name \in Names \cup {UNDEF_NAME}
      /\ conn \in Fds \cup {INVALID_FD}
      /\ loc[c].conn_node \in Clients \cup {NoClient}
      /\ NoLocals \in LocalSet
  BY <1>1, MovesTyped DEF ServerTypeOK, LocalSet
<1>3. /\ UNCHANGED toServer => toServer' \in [Clients -> Seq(ClientMessages)]
      /\ UNCHANGED to_fd => to_fd' \in [Clients -> Fds \cup {INVALID_FD}]
      /\ UNCHANGED chat_status => chat_status' \in [Clients -> ChatStatus]
      /\ UNCHANGED name => name' \in [Clients -> Names \cup {UNDEF_NAME}]
  BY <1>1 DEF SocketsTypeOK, RegistryTypeOK
<1>4. \A f, s : s \in ChatStatus =>
        set_client_chatting_status_by_fd(chat_status, f, s) \in [Clients -> ChatStatus]
  BY <1>1, SettersTyped DEF RegistryTypeOK
<1>5. \A node \in Clients \cup {NoClient} : NamesAt(node) \subseteq Names \cup {UNDEF_NAME}
  BY <1>1, LenProperties DEF NamesAt, Listed, Range, RegistryTypeOK
<1>6. Names \cup {UNDEF_NAME} \subseteq Args
  BY MessagesTyped
<1>7. \A p \in {"loop", "req_link", "acc_reply"} : GoTo(c, p) => pc' \in [Clients -> Pcs]
  BY <1>1, MovesTyped DEF Pcs, ServingPcs, HandlerPcs
<1>8. {"MSG_CLIENT_NOT_EXIST", "MSG_CONNECTION_REQ_RX", "MSG_CLIENT_FREE",
       "MSG_CLIENT_NO_MORE_FREE", "MSG_CLIENT_CHAT_READY", "MSG_CLIENT_ACCEPT_CONNECTION_ACK",
       "MSG_CLIENT_DISCONNECTED"} \subseteq MsgTypes
  BY DEF MsgTypes
<1>9. \A f \in Fds \cup {INVALID_FD}, t \in MsgTypes, n \in Names \cup {UNDEF_NAME} :
        To(f, t, n) \in Sends
  BY <1>6, MessagesTyped
<1>a. CASE RequestMark(c)
  <2> DEFINE fd == get_client_fd_by_name(loc[c].conn_name)
  <2>1. fd \in Fds \cup {INVALID_FD}
    BY <1>1, LookupsTyped
  <2>2. Local(loc[c].conn_name, fd, NoClient) \in LocalSet
    BY <1>1, <1>2, <2>1, MovesTyped
  <2>3. out' \in [Clients -> Seq(Sends)]
    BY <1>1, <1>2, <1>8, <1>9, <1>a, EmitTyped DEF RequestMark, Reply, ServerTypeOK
  <2>4. loc' \in [Clients -> LocalSet] /\ pc' \in [Clients -> Pcs]
    BY <1>1, <1>2, <1>7, <1>a, <2>2, MovesTyped DEF RequestMark
  <2>5. ServerTypeOK'
    BY <1>1, <1>a, <2>3, <2>4 DEF RequestMark, ServerTypeOK
  <2> QED
    BY <1>3, <1>4, <1>a, <2>5, FrameTyped DEF RequestMark, ChatStatus
<1>b. CASE RequestLink(c)
  <2>1. to_fd' \in [Clients -> Fds \cup {INVALID_FD}]
    BY <1>1, <1>2, <1>b, SettersTyped DEF RequestLink, RegistryTypeOK
  <2>2. out' \in [Clients -> Seq(Sends)]
    BY <1>1, <1>2, <1>8, <1>9, <1>b, EmitTyped DEF RequestLink
  <2>3. ServerTypeOK'
    BY <1>1, <1>2, <1>7, <1>b, <2>2, MovesTyped DEF RequestLink, ServerTypeOK
  <2> QED
    BY <1>3, <1>b, <2>1, <2>3, FrameTyped DEF RequestLink
<1>c. CASE AcceptBusy(c)
  <2>1. out' \in [Clients -> Seq(Sends)]
    BY <1>1, <1>2, <1>5, <1>8, <1>9, <1>c, EmitTyped DEF AcceptBusy, Reply
  <2>2. ServerTypeOK'
    BY <1>1, <1>2, <1>7, <1>c, <2>1, MovesTyped DEF AcceptBusy, ServerTypeOK
  <2> QED
    BY <1>3, <1>4, <1>c, <2>2, FrameTyped DEF AcceptBusy, ChatStatus
<1>d. CASE AcceptPair(c)
  <2>1. to_fd' \in [Clients -> Fds \cup {INVALID_FD}]
    BY <1>1, <1>2, <1>d, SettersTyped DEF AcceptPair, RegistryTypeOK
  <2>2. chat_status' \in [Clients -> ChatStatus]
    BY <1>1, <1>d, SettersTyped DEF AcceptPair, RegistryTypeOK, ChatStatus
  <2>3. Local(UNDEF_NAME, conn, NodeByFd(conn)) \in LocalSet
    BY <1>1, <1>2, MovesTyped, NodeByFdFinds
  <2>4. ServerTypeOK'
    BY <1>1, <1>7, <1>d, <2>3, MovesTyped DEF AcceptPair, ServerTypeOK
  <2> QED
    BY <1>3, <1>d, <2>1, <2>2, <2>4, FrameTyped DEF AcceptPair
<1>e. CASE AcceptReply(c)
  <2>1. PICK n \in Names \cup {UNDEF_NAME} :
          Emit(c, IF n = UNDEF_NAME \/ name[c] = UNDEF_NAME THEN <<>>
                  ELSE <<To(me, "MSG_CLIENT_CHAT_READY", n),
                         To(conn, "MSG_CLIENT_ACCEPT_CONNECTION_ACK", name[c])>>)
    BY <1>2, <1>5, <1>e DEF AcceptReply
  <2>2. /\ To(me, "MSG_CLIENT_CHAT_READY", n) \in Sends
        /\ To(conn, "MSG_CLIENT_ACCEPT_CONNECTION_ACK", name[c]) \in Sends
    BY <1>1, <1>2, <1>8, <1>9
  <2>3. out' \in [Clients -> Seq(Sends)]
    BY <1>1, <2>1, <2>2, EmitTyped
  <2>4. ServerTypeOK'
    BY <1>1, <1>2, <1>7, <1>e, <2>3, MovesTyped DEF AcceptReply, ServerTypeOK
  <2> QED
    BY <1>3, <1>e, <2>4, FrameTyped DEF AcceptReply, nodeVars
<1>f. CASE Disconnect(c)
  <2>1. to_fd' \in [Clients -> Fds \cup {INVALID_FD}]
    BY <1>1, <1>f, SettersTyped DEF Disconnect, RegistryTypeOK
  <2>2. chat_status' \in [Clients -> ChatStatus]
    BY <1>1, <1>f, SettersTyped DEF Disconnect, RegistryTypeOK, ChatStatus
  <2>3. out' \in [Clients -> Seq(Sends)]
    BY <1>1, <1>2, <1>8, <1>9, <1>f, EmitTyped, LookupsTyped DEF Disconnect
  <2>4. ServerTypeOK'
    BY <1>1, <1>2, <1>7, <1>f, <2>3, MovesTyped DEF Disconnect, ServerTypeOK
  <2> QED
    BY <1>3, <1>f, <2>1, <2>2, <2>4, FrameTyped DEF Disconnect
<1>g. CASE DeclineFree(c)
  <2>1. ServerTypeOK'
    BY <1>1, <1>7, <1>g DEF DeclineFree, ServerTypeOK
  <2> QED
    BY <1>3, <1>4, <1>g, <2>1, FrameTyped DEF DeclineFree, ChatStatus
<1> QED
  BY <1>a, <1>b, <1>c, <1>d, <1>e, <1>f, <1>g

(* The end of a thread and the sends outside the mutex keep the types.     *)
LEMMA ClosedAndFlushTyped ==
  ASSUME TypeOK, NEW c \in Clients, UNCHANGED clientVars, ClientClosed(c) \/ Flush(c)
  PROVE  TypeOK'
<1> USE NoClientAssumption
<1>1. SocketsTypeOK /\ RegistryTypeOK /\ ServerTypeOK /\ ClientTypeOK'
  BY DEF TypeOK, clientVars, flagVars, ClientTypeOK
<1>2. UNCHANGED sendVars => /\ peer' \in [Clients -> PeerStates]
                            /\ toClient' \in [Clients -> Seq(Messages)]
                            /\ serverUp' \in BOOLEAN
  BY <1>1 DEF sendVars, SocketsTypeOK
<1>a. CASE ClientClosed(c)
  <2> DEFINE me == my_socket[c]
             conn == get_conn_fd_by_fd(me)
             linked == conn # INVALID_FD /\ get_client_chatting_status_by_fd(conn) # "CHAT_STATUS_FREE"
             freed == set_client_chatting_status_by_fd(chat_status, conn, "CHAT_STATUS_FREE")
             unlinked == set_to_fd_by_fd(to_fd, me, INVALID_FD)
  <2>1. me \in Fds \cup {INVALID_FD}
    BY <1>1 DEF RegistryTypeOK
  <2>2. freed \in [Clients -> ChatStatus] /\ unlinked \in [Clients -> Fds \cup {INVALID_FD}]
    BY <1>1, SettersTyped DEF RegistryTypeOK, ChatStatus
  <2>3. Msg("MSG_CLIENT_TERMINATION", get_client_name_by_fd(me)) \in Messages
    BY <1>1, LookupsTyped, MessagesTyped DEF MsgTypes
  <2>4. CASE linked
    <3>1. /\ Send(conn, Msg("MSG_CLIENT_TERMINATION", get_client_name_by_fd(me)))
          /\ remove_client_node_from_queue_by_fd(me, freed, unlinked)
      BY <1>a, <2>4 DEF ClientClosed
    <3>2. RegistryTypeOK' /\ fdOwner' \in [Fds -> Clients \cup {NoClient}]
      BY <1>1, <2>1, <2>2, <3>1, RemoveTyped
    <3>3. /\ peer' \in [Clients -> PeerStates]
          /\ toClient' \in [Clients -> Seq(Messages)]
          /\ serverUp' \in BOOLEAN
      BY <1>1, <2>3, <3>1, SendTyped
    <3>4. ServerTypeOK'
      BY <1>1, <1>a, MovesTyped DEF ClientClosed, ServerTypeOK, Pcs
    <3> QED
      BY <1>1, <1>a, <3>2, <3>3, <3>4 DEF ClientClosed, TypeOK, SocketsTypeOK
  <2>5. CASE ~ linked
    <3>1. UNCHANGED sendVars /\ remove_client_node_from_queue_by_fd(me, chat_status, to_fd)
      BY <1>a, <2>5 DEF ClientClosed
    <3>2. RegistryTypeOK' /\ fdOwner' \in [Fds -> Clients \cup {NoClient}]
      BY <1>1, <2>1, <3>1, RemoveTyped DEF RegistryTypeOK
    <3>3. ServerTypeOK'
      BY <1>1, <1>a, MovesTyped DEF ClientClosed, ServerTypeOK, Pcs
    <3> QED
      BY <1>1, <1>2, <1>a, <3>1, <3>2, <3>3 DEF ClientClosed, TypeOK, SocketsTypeOK
  <2> QED
    BY <2>4, <2>5
<1>b. CASE Flush(c)
  <2>1. out[c] \in Seq(Sends) /\ out[c] # <<>>
    BY <1>1, <1>b DEF Flush, ServerTypeOK
  <2>2. Head(out[c]) \in Sends /\ Tail(out[c]) \in Seq(Sends)
    BY <2>1, HeadTailProperties
  <2>3. Head(out[c]).msg \in Messages
    BY <2>2 DEF Sends
  <2>4. /\ peer' \in [Clients -> PeerStates]
        /\ toClient' \in [Clients -> Seq(Messages)]
        /\ serverUp' \in BOOLEAN
    BY <1>1, <1>b, <2>3, SendTyped DEF Flush
  <2>5. ServerTypeOK'
    BY <1>1, <1>b, <2>2 DEF Flush, Emit, ServerTypeOK
  <2>6. RegistryTypeOK'
    BY <1>1, <1>b DEF Flush, RegistryTypeOK, listVars, nodeVars
  <2> QED
    BY <1>1, <1>b, <2>4, <2>5, <2>6 DEF Flush, TypeOK, SocketsTypeOK
<1> QED
  BY <1>a, <1>b

(* What a client does keeps the types.                                     *)
LEMMA ClientTyped ==
  ASSUME TypeOK, NEW c \in Clients, ProcessNext(c) \/ UserNext(c), UNCHANGED serverVars
  PROVE  TypeOK'
<1>1. SocketsTypeOK /\ ClientTypeOK /\ RegistryTypeOK' /\ ServerTypeOK'
  BY DEF TypeOK, serverVars, listVars, nodeVars, threadVars, RegistryTypeOK, ServerTypeOK
<1>2. UNDEF_NAME \in Args /\ NoArg \in Args
  BY MessagesTyped
<1>3. \A m \in ClientMessages :
        SendToServer(c, m) => toServer' \in [Clients -> Seq(ClientMessages)]
  BY <1>1, AppendProperties DEF SendToServer, SocketsTypeOK
<1>4. \A u : CloseByClient(c, u) => /\ peer' \in [Clients -> PeerStates]
                                    /\ toClient' \in [Clients -> Seq(Messages)]
  BY <1>1 DEF CloseByClient, SocketsTypeOK, PeerStates
<1>5. toClient[c] # <<>> => Head(toClient[c]) \in Messages /\ Tail(toClient[c]) \in Seq(Messages)
  BY <1>1, HeadTailProperties DEF SocketsTypeOK
<1>6. \A u : Exit(c, u) => SocketsTypeOK' /\ ClientTypeOK'
  BY <1>1, <1>2, <1>4 DEF Exit, SocketsTypeOK, ClientTypeOK, Phases
<1>7. \A kind : \A m \in ClientMessages : Types(c, kind, m) =>
        SocketsTypeOK' /\ typed' \in 0..MaxTyped /\ phase' \in [Clients -> Phases]
  BY <1>1, <1>3, MaxTypedAssumption DEF Types, SocketsTypeOK, ClientTypeOK
<1>8. /\ \A t \in {"MSG_CONN_ESTABLISH_ACK", "MSG_GET_CLIENT_LIST_TYPE",
                   "MSG_CLIENT_ACCEPT_CONNECTION", "MSG_CLIENT_DECLINE_CONNECTION"} :
           Msg(t, NoArg) \in ClientMessages
      /\ \A a \in {c, DISCONNECT_CMD} : Msg("MSG_CLIENT_TX_TYPE", a) \in ClientMessages
      /\ \A t \in {"MSG_SET_NAME_REQ_TYPE", "MSG_CONNECT_TO_CLIENT"}, n \in Names :
           Msg(t, n) \in ClientMessages
  BY DEF Msg, ClientMessages
<1>a. CASE Connect(c)
  BY <1>1, <1>a DEF Connect, TypeOK, SocketsTypeOK, ClientTypeOK, flagVars, PeerStates, Phases
<1>b. CASE Handshake(c)
  <2>1. CASE Head(toClient[c]).type = "MSG_CONN_ESTABLISH_REQ"
    BY <1>1, <1>3, <1>5, <1>8, <1>b, <2>1
    DEF Handshake, TypeOK, SocketsTypeOK, ClientTypeOK, flagVars, Phases
  <2>2. CASE Head(toClient[c]).type # "MSG_CONN_ESTABLISH_REQ"
    BY <1>1, <1>6, <1>b, <2>2 DEF Handshake, TypeOK
  <2> QED
    BY <2>1, <2>2
<1>c. CASE HandshakeTimeout(c) \/ Quit(c)
  BY <1>1, <1>6, <1>c DEF HandshakeTimeout, Quit, TypeOK
<1>d. CASE Rx(c)
  <2>1. Head(toClient[c]).arg \in Args
    BY <1>5, <1>d DEF Rx, Messages
  <2>2. SocketsTypeOK'
    BY <1>1, <1>5, <1>d DEF Rx, SocketsTypeOK
  <2>3. ClientTypeOK'
    BY <1>1, <1>2, <1>d, <2>1 DEF Rx, ClientTypeOK, EndsChat
  <2> QED
    BY <1>1, <2>2, <2>3 DEF TypeOK
<1>e. CASE TypeChat(c) \/ TypeDisconnect(c) \/ TypeAnswer(c) \/ TypeGetList(c)
  BY <1>1, <1>2, <1>7, <1>8, <1>e
  DEF TypeChat, TypeDisconnect, TypeAnswer, TypeGetList, TypeOK, ClientTypeOK, flagVars
<1>f. ASSUME NEW n \in AskNames, TypeConnect(c, n) PROVE TypeOK'
  BY <1>1, <1>7, <1>8, <1>f, AskNamesAssumption DEF TypeConnect, TypeOK, ClientTypeOK, flagVars
<1>g. ASSUME NEW n \in NewNames, TypeSetName(c, n) PROVE TypeOK'
  BY <1>1, <1>7, <1>8, <1>g, NewNamesAssumption DEF TypeSetName, TypeOK, ClientTypeOK, flagVars
<1> QED
  BY <1>a, <1>b, <1>c, <1>d, <1>e, <1>f, <1>g DEF ProcessNext, UserNext
-----------------------------------------------------------------------------
(* The list                                                                *)

(* A thread that moves on without touching the list, its descriptor or the *)
(* descriptors keeps the invariant of the list.                            *)
LEMMA MoveKeepsList ==
  ASSUME ListInv, ServerTypeOK, NEW c \in Clients, NEW p, pc' = [pc EXCEPT ![c] = p],
         \/ pc[c] \in ServingPcs /\ p \in ServingPcs \cup {"exited"}
         \/ pc[c] \in {"accepted", "start"} /\ p \in {"start", "refused"},
         UNCHANGED <<listVars, my_socket, fdOwner>>
  PROVE  ListInv'
<1>1. CountMatches' /\ FdNamesOneClient' /\ Listed' = Listed
  BY DEF ListInv, CountMatches, FdNamesOneClient, listVars, Listed
<1>2. pc[c] \in {"accepted", "start"} => c \notin Listed
  BY DEF ListInv, ServedIsListed, ServingPcs, HandlerPcs
<1>3. ServedIsListed'
  BY <1>1, <1>2 DEF ListInv, ServedIsListed, ServerTypeOK, ServingPcs, HandlerPcs
<1>4. ThreadHoldsFd'
  BY DEF ListInv, ThreadHoldsFd, ServerTypeOK, ServingPcs, HandlerPcs
<1> QED
  BY <1>1, <1>3, <1>4 DEF ListInv

(* A step that changes neither the list nor a control point keeps it.      *)
LEMMA StayKeepsList ==
  ASSUME ListInv, UNCHANGED <<listVars, my_socket, fdOwner, pc>>
  PROVE  ListInv'
BY DEF ListInv, CountMatches, FdNamesOneClient, ServedIsListed, ThreadHoldsFd, listVars, Listed

(* Main and the thread before its receive loop keep it.                    *)
LEMMA AdmissionKeepsList ==
  ASSUME TypeOK, ListInv, NEW c \in Clients,
         MainNext(c) \/ Register(c) \/ RegisterFails(c) \/ Greeted(c) \/ GreetFails(c)
  PROVE  ListInv'
<1>0. ServerTypeOK /\ RegistryTypeOK /\ SocketsTypeOK /\ NoClient \notin Clients
  BY NoClientAssumption DEF TypeOK
<1>a. ASSUME NEW f \in Fds, Accept(c, f) PROVE ListInv'
  <2>1. /\ fdOwner[f] = NoClient /\ fdOwner' = [fdOwner EXCEPT ![f] = c]
        /\ my_socket' = [my_socket EXCEPT ![c] = f]
        /\ pc[c] = "none" /\ pc' = [pc EXCEPT ![c] = "accepted"]
        /\ UNCHANGED listVars
    BY <1>a DEF Accept, IsNextFd, GoTo
  <2>2. c \notin Listed /\ Listed' = Listed /\ CountMatches'
    BY <2>1 DEF ListInv, ServedIsListed, ServingPcs, HandlerPcs, CountMatches, listVars, Listed
  <2>3. FdNamesOneClient'
    <3>1. \A d \in Listed : my_socket[d] \in Fds /\ fdOwner[my_socket[d]] = d /\ d \in Clients
      BY <1>0, LenProperties, ElementOfSeq
      DEF ListInv, FdNamesOneClient, RegistryTypeOK, Listed, Range
    <3>2. \A d \in Listed : my_socket'[d] = my_socket[d] /\ fdOwner'[my_socket[d]] = d
      BY <1>0, <2>1, <2>2, <3>1 DEF RegistryTypeOK, SocketsTypeOK
    <3>3. \A i \in DOMAIN clientList : clientList[i] \in Listed
      BY DEF Listed, Range
    <3> QED
      BY <2>1, <3>1, <3>2, <3>3 DEF ListInv, FdNamesOneClient, listVars
  <2>4. ServedIsListed'
    BY <1>0, <2>1, <2>2 DEF ListInv, ServedIsListed, ServerTypeOK, ServingPcs, HandlerPcs
  <2>5. ThreadHoldsFd'
    <3> SUFFICES ASSUME NEW d \in Clients, pc'[d] \in {"accepted", "start"} \cup ServingPcs
                 PROVE  my_socket'[d] \in Fds /\ fdOwner'[my_socket'[d]] = d
      BY DEF ThreadHoldsFd
    <3>1. CASE d = c
      BY <1>0, <2>1, <3>1 DEF RegistryTypeOK, SocketsTypeOK
    <3>2. CASE d # c
      BY <1>0, <2>1, <3>2 DEF ListInv, ThreadHoldsFd, RegistryTypeOK, SocketsTypeOK, ServerTypeOK
    <3> QED
      BY <3>1, <3>2
  <2> QED
    BY <2>2, <2>3, <2>4, <2>5 DEF ListInv
<1>b. CASE Admit(c)
  BY <1>0, <1>b, MoveKeepsList DEF Admit, At, GoTo, sockVars
<1>c. CASE TurnAway(c)
  BY <1>0, <1>c, MoveKeepsList DEF TurnAway, At, GoTo
<1>d. CASE SpawnFails(c)
  BY <1>0, <1>d, MoveKeepsList DEF SpawnFails, At, GoTo
<1>e. CASE Register(c)
  <2>1. /\ pc[c] = "start" /\ pc' = [pc EXCEPT ![c] = "greet"]
        /\ ~ QueueFull /\ add_client_node_to_queue(c) /\ UNCHANGED <<my_socket, fdOwner>>
    BY <1>e DEF Register, At, GoTo, sockVars
  <2>2. c \notin Listed
    BY <2>1 DEF ListInv, ServedIsListed, ServingPcs, HandlerPcs
  <2>3. my_socket[c] \in Fds /\ fdOwner[my_socket[c]] = c
    BY <2>1 DEF ListInv, ThreadHoldsFd
  <2>4. Listed' = Listed \cup {c} /\ CountMatches' /\ FdNamesOneClient'
    BY <1>0, <2>1, <2>2, <2>3, AddKeepsList DEF ListInv
  <2>5. ServedIsListed' /\ ThreadHoldsFd'
    BY <1>0, <2>1, <2>3, <2>4
    DEF ListInv, ServedIsListed, ThreadHoldsFd, ServerTypeOK, ServingPcs, HandlerPcs
  <2> QED
    BY <2>4, <2>5 DEF ListInv
<1>f. CASE RegisterFails(c)
  BY <1>0, <1>f, MoveKeepsList DEF RegisterFails, At, GoTo
<1>g. CASE Greeted(c)
  BY <1>0, <1>g, MoveKeepsList DEF Greeted, At, GoTo, ServingPcs
<1>h. CASE GreetFails(c)
  BY <1>0, <1>h, MoveKeepsList DEF GreetFails, At, GoTo, ServingPcs, sockVars
<1> QED
  BY <1>a, <1>b, <1>c, <1>d, <1>e, <1>f, <1>g, <1>h DEF MainNext

(* The thread in its receive loop and its handlers, the end of the thread  *)
(* apart, only move from one control point to another.                     *)
LEMMA HandlersOnlyMove ==
  ASSUME NEW c \in Clients,
         \/ SetName(c) \/ GetClientList(c) \/ Request(c) \/ AcceptNoFd(c)
              \/ AcceptNoMoreExist(c) \/ AcceptReads(c) \/ Tx(c) \/ Decline(c) \/ Flush(c)
         \/ RequestMark(c) \/ RequestLink(c) \/ AcceptBusy(c) \/ AcceptPair(c)
              \/ AcceptReply(c) \/ Disconnect(c) \/ DeclineFree(c)
  PROVE  /\ UNCHANGED <<listVars, my_socket, fdOwner>>
         /\ \/ UNCHANGED pc
            \/ \E p \in ServingPcs : pc[c] \in ServingPcs /\ pc' = [pc EXCEPT ![c] = p]
<1> USE DEF HandlerFrame
<1>1. UNCHANGED <<listVars, my_socket, fdOwner>>
  BY DEF SetName, GetClientList, Request, AcceptNoFd, AcceptNoMoreExist, AcceptReads, Tx,
         Decline, Flush, RequestMark, RequestLink, AcceptBusy, AcceptPair, AcceptReply,
         Disconnect, DeclineFree
<1>2. UNCHANGED pc \/ \E p \in ServingPcs : pc[c] \in ServingPcs /\ pc' = [pc EXCEPT ![c] = p]
  <2> USE DEF GoTo, At, Received, ServingPcs, HandlerPcs
  <2>1. CASE SetName(c) \/ GetClientList(c) \/ AcceptNoFd(c) \/ AcceptNoMoreExist(c) \/ Flush(c)
    BY <2>1 DEF SetName, GetClientList, AcceptNoFd, AcceptNoMoreExist, Flush
  <2>2. CASE Request(c) \/ AcceptReads(c) \/ Tx(c) \/ Decline(c)
    BY <2>2 DEF Request, AcceptReads, Tx, Decline
  <2>3. CASE RequestMark(c) \/ RequestLink(c) \/ AcceptBusy(c) \/ AcceptPair(c)
    BY <2>3 DEF RequestMark, RequestLink, AcceptBusy, AcceptPair
  <2>4. CASE AcceptReply(c) \/ Disconnect(c) \/ DeclineFree(c)
    BY <2>4 DEF AcceptReply, Disconnect, DeclineFree
  <2> QED
    BY <2>1, <2>2, <2>3, <2>4
<1> QED
  BY <1>1, <1>2

(* So they keep the invariant of the list.                                 *)
LEMMA HandlersKeepList ==
  ASSUME TypeOK, ListInv, NEW c \in Clients,
         \/ SetName(c) \/ GetClientList(c) \/ Request(c) \/ AcceptNoFd(c)
              \/ AcceptNoMoreExist(c) \/ AcceptReads(c) \/ Tx(c) \/ Decline(c) \/ Flush(c)
         \/ RequestMark(c) \/ RequestLink(c) \/ AcceptBusy(c) \/ AcceptPair(c)
              \/ AcceptReply(c) \/ Disconnect(c) \/ DeclineFree(c)
  PROVE  ListInv'
<1>1. ServerTypeOK /\ UNCHANGED <<listVars, my_socket, fdOwner>>
  BY HandlersOnlyMove DEF TypeOK
<1>2. CASE UNCHANGED pc
  BY <1>1, <1>2, StayKeepsList
<1>3. CASE \E p \in ServingPcs : pc[c] \in ServingPcs /\ pc' = [pc EXCEPT ![c] = p]
  BY <1>1, <1>3, MoveKeepsList
<1> QED
  BY <1>2, <1>3, HandlersOnlyMove

(* What removing the thread's own node does, as the other lemmas use it.   *)
LEMMA ClosedRemovesOwnNode ==
  ASSUME TypeOK, ListInv, NEW c \in Clients, ClientClosed(c)
  PROVE  \E status, to :
           /\ c \in Listed /\ Listed' = Listed \ {c}
           /\ CountMatches' /\ FdNamesOneClient'
           /\ my_socket' = [my_socket EXCEPT ![c] = INVALID_FD]
           /\ fdOwner' = [fdOwner EXCEPT ![my_socket[c]] = NoClient]
           /\ pc[c] = "loop" /\ pc' = [pc EXCEPT ![c] = "exited"]
           /\ UNCHANGED loc
           /\ status \in {chat_status,
                set_client_chatting_status_by_fd(chat_status, get_conn_fd_by_fd(my_socket[c]),
                                                 "CHAT_STATUS_FREE")}
           /\ to \in {to_fd, set_to_fd_by_fd(to_fd, my_socket[c], INVALID_FD)}
           /\ chat_status' = [status EXCEPT ![c] = "CHAT_STATUS_FREE"]
           /\ to_fd' = [to EXCEPT ![c] = INVALID_FD]
           /\ name' = [name EXCEPT ![c] = UNDEF_NAME]
<1>1. RegistryTypeOK /\ SocketsTypeOK /\ NoClient \notin Clients
  BY NoClientAssumption DEF TypeOK
<1>2. pc[c] = "loop" /\ pc' = [pc EXCEPT ![c] = "exited"] /\ UNCHANGED loc
  BY DEF ClientClosed, At, GoTo
<1>3. c \in Listed
  BY <1>2 DEF ListInv, ServedIsListed, ServingPcs
<1>4. \E status \in {chat_status,
                set_client_chatting_status_by_fd(chat_status, get_conn_fd_by_fd(my_socket[c]),
                                                 "CHAT_STATUS_FREE")},
         to \in {to_fd, set_to_fd_by_fd(to_fd, my_socket[c], INVALID_FD)} :
           remove_client_node_from_queue_by_fd(my_socket[c], status, to)
  BY DEF ClientClosed
<1> QED
  BY <1>1, <1>2, <1>3, <1>4, RemoveKeepsList DEF ListInv

(* So does the end of a thread.                                            *)
LEMMA ClosedKeepsList ==
  ASSUME TypeOK, ListInv, NEW c \in Clients, ClientClosed(c)
  PROVE  ListInv'
<1>1. /\ c \in Listed /\ Listed' = Listed \ {c}
      /\ CountMatches' /\ FdNamesOneClient'
      /\ my_socket' = [my_socket EXCEPT ![c] = INVALID_FD]
      /\ fdOwner' = [fdOwner EXCEPT ![my_socket[c]] = NoClient]
      /\ pc[c] = "loop" /\ pc' = [pc EXCEPT ![c] = "exited"]
  BY ClosedRemovesOwnNode
<1>2. ServerTypeOK /\ RegistryTypeOK /\ SocketsTypeOK
  BY DEF TypeOK
<1>3. ServedIsListed'
  BY <1>1, <1>2 DEF ListInv, ServedIsListed, ServerTypeOK, ServingPcs, HandlerPcs
<1>4. ThreadHoldsFd'
  <2> SUFFICES ASSUME NEW d \in Clients, pc'[d] \in {"accepted", "start"} \cup ServingPcs
               PROVE  my_socket'[d] \in Fds /\ fdOwner'[my_socket'[d]] = d
    BY DEF ThreadHoldsFd
  <2>1. d # c /\ pc[d] = pc'[d]
    BY <1>1, <1>2 DEF ServerTypeOK, ServingPcs, HandlerPcs
  <2>2. my_socket[d] \in Fds /\ fdOwner[my_socket[d]] = d /\ fdOwner[my_socket[c]] = c
    BY <1>1, <2>1 DEF ListInv, ThreadHoldsFd, ServingPcs
  <2> QED
    BY <1>1, <1>2, <2>1, <2>2 DEF RegistryTypeOK, SocketsTypeOK
<1> QED
  BY <1>1, <1>3, <1>4 DEF ListInv
-----------------------------------------------------------------------------
(* The links                                                               *)

(* What the list invariant says of listed clients and of the lookups and   *)
(* setters: a setter writes at the listed client with that descriptor.     *)
LEMMA ListedFacts ==
  ASSUME TypeOK, ListInv
  PROVE  /\ \A d \in Listed : /\ d \in Clients /\ NodeByFd(my_socket[d]) = d
                              /\ my_socket[d] \in Fds /\ my_socket[d] # INVALID_FD
         /\ \A d, e \in Listed : my_socket[d] = my_socket[e] => d = e
         /\ \A c \in Clients : pc[c] \in ServingPcs => c \in Listed
         /\ \A f : NodeByFd(f) # NoClient => NodeByFd(f) \in Listed /\ my_socket[NodeByFd(f)] = f
         /\ \A f, s : \A d \in Listed : \A status \in [Clients -> ChatStatus] :
              set_client_chatting_status_by_fd(status, f, s)[d] =
                IF my_socket[d] = f THEN s ELSE status[d]
         /\ \A f, t : \A d \in Listed : \A to \in [Clients -> Fds \cup {INVALID_FD}] :
              set_to_fd_by_fd(to, f, t)[d] = IF my_socket[d] = f THEN t ELSE to[d]
<1>1. RegistryTypeOK /\ NoClient \notin Clients /\ FdNamesOneClient
  BY NoClientAssumption DEF TypeOK, ListInv
<1>2. \A d \in Listed : d \in Clients
  BY <1>1, LenProperties, ElementOfSeq DEF RegistryTypeOK, Listed, Range
<1>3. \A d \in Listed : NodeByFd(my_socket[d]) = d
  BY <1>1, NodeByFdOfListed
<1>4. \A d \in Listed : my_socket[d] \in Fds /\ my_socket[d] # INVALID_FD
  BY <1>1, FdsAssumption DEF FdNamesOneClient, Listed, Range, INVALID_FD
<1>5. \A d, e \in Listed : my_socket[d] = my_socket[e] => d = e
  BY <1>3
<1>6. \A c \in Clients : pc[c] \in ServingPcs => c \in Listed
  BY DEF ListInv, ServedIsListed
<1>7. \A f : NodeByFd(f) # NoClient => NodeByFd(f) \in Listed /\ my_socket[NodeByFd(f)] = f
  BY <1>1, NodeByFdFinds
<1>8. \A f : \A d \in Listed : my_socket[d] = f <=> NodeByFd(f) = d
  BY <1>1, <1>2, <1>3, <1>7
<1>9. \A f, s : \A d \in Listed : \A status \in [Clients -> ChatStatus] :
        set_client_chatting_status_by_fd(status, f, s)[d] =
          IF my_socket[d] = f THEN s ELSE status[d]
  BY <1>1, <1>2, <1>8 DEF set_client_chatting_status_by_fd
<1>10. \A f, t : \A d \in Listed : \A to \in [Clients -> Fds \cup {INVALID_FD}] :
        set_to_fd_by_fd(to, f, t)[d] = IF my_socket[d] = f THEN t ELSE to[d]
  BY <1>1, <1>2, <1>8 DEF set_to_fd_by_fd
<1> QED
  BY <1>2, <1>3, <1>4, <1>5, <1>6, <1>7, <1>9, <1>10

(* The invariant of the links, for a step of thread c that keeps the list: *)
(* it is enough that c's locals are right and that every listed client's   *)
(* status and link are as before, or free, or with a link that is not its  *)
(* own, or pending with c about to link it.                                *)
LEMMA StepKeepsLinks ==
  ASSUME LinkInv, NEW c \in Clients, LocalsOf(c)',
         \A d \in Clients : d # c => /\ pc'[d] = pc[d] /\ loc'[d] = loc[d]
                                     /\ name'[d] = name[d] /\ my_socket'[d] = my_socket[d],
         UNCHANGED listVars,
         \A d \in Listed : d \in Clients /\ my_socket[d] # INVALID_FD,
         \A d \in Listed :
           /\ my_socket'[d] = my_socket[d]
           /\ \/ /\ chat_status'[d] = chat_status[d] /\ to_fd'[d] = to_fd[d]
                 /\ \/ pc'[c] = pc[c] /\ loc'[c] = loc[c]
                    \/ ~ (pc[c] = "req_link" /\ loc[c].conn_fd = my_socket[d])
              \/ chat_status'[d] = "CHAT_STATUS_FREE" /\ to_fd'[d] \in {to_fd[d], INVALID_FD}
              \/ to_fd'[d] # INVALID_FD /\ to_fd'[d] # my_socket[d]
              \/ /\ chat_status'[d] = "CHAT_STATUS_REQ_PENDING" /\ to_fd'[d] = to_fd[d]
                 /\ pc'[c] = "req_link" /\ loc'[c].conn_fd = my_socket[d]
  PROVE  LinkInv'
<1>1. Listed' = Listed
  BY DEF listVars, Listed
<1>2. LocalsInv'
  BY DEF LinkInv, LocalsInv, LocalsOf
<1>3. BusyHasLink'
  BY <1>1 DEF LinkInv, BusyHasLink
<1>4. NeverOwnLink'
  BY <1>1 DEF LinkInv, NeverOwnLink
<1>5. PendingHasRequester'
  <2> SUFFICES ASSUME NEW d \in Listed, chat_status'[d] = "CHAT_STATUS_REQ_PENDING",
                      to_fd'[d] = INVALID_FD
               PROVE  \E e \in Clients : pc'[e] = "req_link" /\ loc'[e].conn_fd = my_socket'[d]
    BY <1>1 DEF PendingHasRequester
  <2>1. CASE chat_status'[d] = chat_status[d] /\ to_fd'[d] = to_fd[d]
               /\ (\/ pc'[c] = pc[c] /\ loc'[c] = loc[c]
                   \/ ~ (pc[c] = "req_link" /\ loc[c].conn_fd = my_socket[d]))
    <3>1. PICK e \in Clients : pc[e] = "req_link" /\ loc[e].conn_fd = my_socket[d]
      BY <2>1 DEF LinkInv, PendingHasRequester
    <3>2. pc'[e] = pc[e] /\ loc'[e] = loc[e]
      BY <2>1, <3>1
    <3> QED
      BY <3>1, <3>2
  <2>2. CASE pc'[c] = "req_link" /\ loc'[c].conn_fd = my_socket[d]
    BY <2>2
  <2> QED
    BY <2>1, <2>2
<1> QED
  BY <1>2, <1>3, <1>4, <1>5 DEF LinkInv

(* Main and the thread before its receive loop.                            *)
LEMMA AdmissionKeepsLinks ==
  ASSUME TypeOK, ListInv, LinkInv, NEW c \in Clients,
         MainNext(c) \/ Register(c) \/ RegisterFails(c) \/ Greeted(c) \/ GreetFails(c)
  PROVE  LinkInv'
<1>1. ServerTypeOK /\ RegistryTypeOK
  BY DEF TypeOK
<1>2. \A d \in Listed : d \in Clients /\ my_socket[d] # INVALID_FD
  BY ListedFacts
<1>a. CASE \E f \in Fds : Accept(c, f)
  <2>1. PICK f \in Fds : Accept(c, f)
    BY <1>a
  <2>2. /\ pc[c] = "none" /\ pc' = [pc EXCEPT ![c] = "accepted"]
        /\ my_socket' = [my_socket EXCEPT ![c] = f]
        /\ UNCHANGED <<listVars, nodeVars, loc>>
    BY <2>1 DEF Accept, GoTo
  <2>3. c \notin Listed
    BY <2>2 DEF ListInv, ServedIsListed, ServingPcs, HandlerPcs
  <2> QED
    BY <1>1, <1>2, <2>2, <2>3, StepKeepsLinks
    DEF nodeVars, LocalsOf, ServerTypeOK, RegistryTypeOK
<1>b. CASE Register(c)
  <2>1. /\ pc[c] = "start" /\ pc' = [pc EXCEPT ![c] = "greet"]
        /\ ~ QueueFull /\ add_client_node_to_queue(c)
        /\ UNCHANGED <<my_socket, fdOwner, loc>>
    BY <1>b DEF Register, At, GoTo, sockVars
  <2>2. c \notin Listed /\ my_socket[c] \in Fds /\ fdOwner[my_socket[c]] = c
    BY <2>1 DEF ListInv, ServedIsListed, ThreadHoldsFd, ServingPcs, HandlerPcs
  <2>3. Listed' = Listed \cup {c}
    BY <1>1, <2>1, <2>2, AddKeepsList DEF ListInv
  <2>4. /\ chat_status' = [chat_status EXCEPT ![c] = "CHAT_STATUS_FREE"]
        /\ to_fd' = [to_fd EXCEPT ![c] = INVALID_FD]
        /\ \A d \in Clients : d # c => name'[d] = name[d]
    BY <1>1, <2>1 DEF add_client_node_to_queue, RegistryTypeOK
  <2>5. my_socket[c] # INVALID_FD
    BY <2>2, FdsAssumption DEF INVALID_FD
  <2>6. LocalsInv'
    BY <1>1, <2>1, <2>4 DEF LinkInv, LocalsInv, LocalsOf, ServerTypeOK
  <2>7. BusyHasLink' /\ NeverOwnLink'
    BY <1>1, <1>2, <2>1, <2>3, <2>4, <2>5 DEF LinkInv, BusyHasLink, NeverOwnLink, RegistryTypeOK
  <2>8. PendingHasRequester'
    <3> SUFFICES ASSUME NEW d \in Listed', chat_status'[d] = "CHAT_STATUS_REQ_PENDING",
                        to_fd'[d] = INVALID_FD
                 PROVE  \E e \in Clients : pc'[e] = "req_link" /\ loc'[e].conn_fd = my_socket'[d]
      BY DEF PendingHasRequester
    <3>1. d \in Listed /\ d # c /\ chat_status[d] = chat_status'[d] /\ to_fd[d] = to_fd'[d]
      BY <1>1, <1>2, <2>3, <2>4 DEF RegistryTypeOK
    <3>2. PICK e \in Clients : pc[e] = "req_link" /\ loc[e].conn_fd = my_socket[d]
      BY <3>1 DEF LinkInv, PendingHasRequester
    <3> QED
      BY <1>1, <2>1, <3>2 DEF ServerTypeOK
  <2> QED
    BY <2>6, <2>7, <2>8 DEF LinkInv
<1>c. CASE Admit(c) \/ TurnAway(c) \/ SpawnFails(c) \/ RegisterFails(c) \/ Greeted(c) \/ GreetFails(c)
  <2>1. /\ UNCHANGED <<listVars, nodeVars, my_socket, loc>>
        /\ pc[c] \in {"accepted", "start", "greet"}
        /\ \E p \in {"start", "refused", "loop", "exited"} : pc' = [pc EXCEPT ![c] = p]
    BY <1>c DEF Admit, TurnAway, SpawnFails, RegisterFails, Greeted, GreetFails, At, GoTo
  <2> QED
    BY <1>1, <1>2, <2>1, StepKeepsLinks DEF nodeVars, LocalsOf, ServerTypeOK
<1> QED
  BY <1>a, <1>b, <1>c DEF MainNext

(* The handlers, and parts of handlers, that change no status and no link. *)
LEMMA ReadersKeepLinks ==
  ASSUME TypeOK, ListInv, LinkInv, NEW c \in Clients,
         SetName(c) \/ GetClientList(c) \/ Request(c) \/ AcceptNoFd(c) \/ AcceptReads(c)
           \/ Tx(c) \/ Decline(c) \/ Flush(c) \/ AcceptReply(c)
  PROVE  LinkInv'
<1> DEFINE me == my_socket[c]
<1>1. ServerTypeOK /\ RegistryTypeOK
  BY DEF TypeOK
<1>2. \A d \in Listed : d \in Clients /\ my_socket[d] # INVALID_FD
  BY ListedFacts
<1>3. pc[c] \in ServingPcs => NodeByFd(me) = c /\ c \in Listed /\ c # NoClient
  BY ListedFacts, NoClientAssumption
<1>4. UNCHANGED <<listVars, my_socket, chat_status, to_fd>>
  BY DEF SetName, GetClientList, Request, AcceptNoFd, AcceptReads, Tx, Decline, Flush,
         AcceptReply, HandlerFrame, nodeVars
<1> USE DEF At, Received, GoTo, Locals, Local
<1>5. ASSUME pc[c] # "req_link",
             \A d \in Clients : d # c => /\ pc'[d] = pc[d] /\ loc'[d] = loc[d]
                                         /\ name'[d] = name[d],
             LocalsOf(c)'
      PROVE  LinkInv'
  BY <1>2, <1>4, <1>5, StepKeepsLinks
<1>a. CASE SetName(c)
  <2>1. pc[c] = "loop" /\ UNCHANGED <<pc, loc>>
    BY <1>a DEF SetName
  <2>2. \A d \in Clients : d # c => name'[d] = name[d]
    BY <1>1, <1>3, <1>a, <2>1 DEF SetName, set_name_of_client_by_client_fd, RegistryTypeOK, ServingPcs
  <2> QED
    BY <1>5, <2>1, <2>2 DEF LocalsOf
<1>b. CASE GetClientList(c) \/ AcceptNoFd(c)
  BY <1>5, <1>b DEF GetClientList, AcceptNoFd, LocalsOf, nodeVars
<1>c. CASE Request(c)
  <2>1. CASE UNCHANGED <<pc, loc>>
    BY <1>5, <1>c, <2>1 DEF Request, LocalsOf, nodeVars
  <2>2. CASE Verdict(c, Buffer(c)) = "MSG_CLIENT_FREE"
    <3>1. /\ pc[c] = "loop" /\ UNCHANGED name
          /\ pc' = [pc EXCEPT ![c] = "req_mark"]
          /\ loc' = [loc EXCEPT ![c] = Local(Buffer(c), INVALID_FD, NoClient)]
      BY <1>c, <2>2 DEF Request, nodeVars
    <3>2. get_client_name_by_fd(me) # Buffer(c)
      BY <2>2 DEF Verdict
    <3>3. get_client_name_by_fd(me) = name[c]
      BY <1>3, <3>1 DEF get_client_name_by_fd, ServingPcs
    <3> QED
      BY <1>1, <1>5, <3>1, <3>2, <3>3 DEF LocalsOf, ServerTypeOK
  <2> QED
    BY <1>c, <2>1, <2>2 DEF Request
<1>d. CASE AcceptReads(c) \/ Tx(c)
  <2>1. pc[c] = "loop" /\ UNCHANGED name
    BY <1>d DEF AcceptReads, Tx, nodeVars
  <2>2. get_conn_fd_by_fd(me) = to_fd[c] /\ to_fd[c] # me
    BY <1>3, <2>1 DEF get_conn_fd_by_fd, ServingPcs, LinkInv, NeverOwnLink
  <2>3. \/ UNCHANGED <<pc, loc>>
        \/ \E n : /\ pc' = [pc EXCEPT ![c] = "acc_busy"]
                  /\ loc' = [loc EXCEPT ![c] = Local(UNDEF_NAME, INVALID_FD, n)]
        \/ \E p \in {"acc_pair", "tx_disc"} :
             /\ to_fd[c] # INVALID_FD
             /\ pc' = [pc EXCEPT ![c] = p]
             /\ loc' = [loc EXCEPT ![c] = Local(UNDEF_NAME, to_fd[c], NoClient)]
    BY <1>d, <2>2 DEF AcceptReads, Tx
  <2>4. UNCHANGED my_socket
    BY <1>4
  <2>5. LocalsOf(c)'
    BY <1>1, <2>1, <2>2, <2>3, <2>4 DEF LocalsOf, ServerTypeOK
  <2>6. \A d \in Clients : d # c => pc'[d] = pc[d] /\ loc'[d] = loc[d] /\ name'[d] = name[d]
    BY <1>1, <2>1, <2>3 DEF ServerTypeOK
  <2> QED
    BY <1>5, <2>1, <2>5, <2>6
<1>e. CASE Decline(c) \/ AcceptReply(c)
  <2>1. /\ pc[c] \in {"loop", "acc_reply"} /\ UNCHANGED name
        /\ UNCHANGED loc \/ loc' = [loc EXCEPT ![c] = NoLocals]
        /\ \/ pc[c] = "loop" /\ UNCHANGED pc
           \/ \E p \in {"loop", "decl_free"} : pc' = [pc EXCEPT ![c] = p]
    BY <1>e DEF Decline, AcceptReply, nodeVars
  <2> QED
    BY <1>1, <1>5, <2>1 DEF LocalsOf, ServerTypeOK
<1>f. CASE Flush(c)
  <2>1. UNCHANGED <<pc, loc, nodeVars>>
    BY <1>f DEF Flush
  <2>2. LocalsOf(c)'
    BY <1>4, <2>1 DEF LinkInv, LocalsInv, LocalsOf, nodeVars
  <2> QED
    BY <1>2, <1>4, <2>1, <2>2, StepKeepsLinks DEF nodeVars
<1> QED
  BY <1>a, <1>b, <1>c, <1>d, <1>e, <1>f

(* The sections that write statuses or links.                              *)
LEMMA WritersKeepLinks ==
  ASSUME TypeOK, ListInv, LinkInv, NEW c \in Clients,
         RequestMark(c) \/ RequestLink(c) \/ AcceptNoMoreExist(c) \/ AcceptBusy(c)
           \/ AcceptPair(c) \/ Disconnect(c) \/ DeclineFree(c)
  PROVE  LinkInv'
<1> DEFINE me == my_socket[c]
           conn == loc[c].conn_fd
           Status(status, f, x) == set_client_chatting_status_by_fd(status, f, x)
           Link(to, f, t) == set_to_fd_by_fd(to, f, t)
<1>1. /\ ServerTypeOK /\ RegistryTypeOK
      /\ chat_status \in [Clients -> ChatStatus]
      /\ to_fd \in [Clients -> Fds \cup {INVALID_FD}]
      /\ {"CHAT_STATUS_FREE", "CHAT_STATUS_BUSY", "CHAT_STATUS_REQ_PENDING"} = ChatStatus
      /\ me \in Fds \cup {INVALID_FD} /\ conn \in Fds \cup {INVALID_FD}
  BY DEF TypeOK, RegistryTypeOK, ServerTypeOK, ChatStatus, LocalSet
<1>2. \A d \in Listed : d \in Clients /\ my_socket[d] # INVALID_FD
  BY ListedFacts
<1>3. pc[c] \in ServingPcs /\ UNCHANGED <<listVars, my_socket, name>>
  BY DEF RequestMark, RequestLink, AcceptNoMoreExist, AcceptBusy, AcceptPair, Disconnect,
         DeclineFree, HandlerFrame, At, Received, ServingPcs, HandlerPcs
<1>4. c \in Listed /\ me # INVALID_FD
  BY <1>2, <1>3, ListedFacts
<1>5. /\ \A f, s : \A d \in Listed : \A status \in [Clients -> ChatStatus] :
           Status(status, f, s)[d] = IF my_socket[d] = f THEN s ELSE status[d]
      /\ \A f, t : \A d \in Listed : \A to \in [Clients -> Fds \cup {INVALID_FD}] :
           Link(to, f, t)[d] = IF my_socket[d] = f THEN t ELSE to[d]
  BY ListedFacts
<1>6. /\ \A f : \A s \in ChatStatus : Status(chat_status, f, s) \in [Clients -> ChatStatus]
      /\ \A f : \A t \in Fds \cup {INVALID_FD} :
           Link(to_fd, f, t) \in [Clients -> Fds \cup {INVALID_FD}]
  BY <1>1, NoClientAssumption, SettersTyped
<1>7. ASSUME NEW p, NEW l, pc' = [pc EXCEPT ![c] = p], loc' = [loc EXCEPT ![c] = l],
             p \in {"loop", "req_link", "acc_reply"},
             p # "loop" => l.conn_fd # INVALID_FD /\ l.conn_fd # me
      PROVE  /\ LocalsOf(c)'
             /\ \A d \in Clients : d # c =>
                  /\ pc'[d] = pc[d] /\ loc'[d] = loc[d]
                  /\ name'[d] = name[d] /\ my_socket'[d] = my_socket[d]
             /\ pc'[c] = p /\ loc'[c] = l
  BY <1>1, <1>3, <1>7 DEF LocalsOf, ServerTypeOK
<1> HIDE DEF Status, Link
<1> USE DEF GoTo, Locals, At, Received
<1>a. CASE RequestMark(c)
  <2> DEFINE fd == get_client_fd_by_name(loc[c].conn_name)
  <2>1. /\ pc[c] = "req_mark" /\ UNCHANGED to_fd
        /\ chat_status' = Status(chat_status, fd, "CHAT_STATUS_REQ_PENDING")
        /\ fd = INVALID_FD => /\ pc' = [pc EXCEPT ![c] = "loop"]
                              /\ loc' = [loc EXCEPT ![c] = NoLocals]
        /\ fd # INVALID_FD => /\ pc' = [pc EXCEPT ![c] = "req_link"]
                              /\ loc' = [loc EXCEPT ![c] = Local(loc[c].conn_name, fd, NoClient)]
    BY <1>a DEF RequestMark, Status
  <2>2. \A n, node : Local(n, fd, node).conn_fd = fd
    BY DEF Local
  <2>3. fd # me
    <3>1. name[c] # loc[c].conn_name
      BY <2>1 DEF LinkInv, LocalsInv, LocalsOf
    <3>2. CASE NodeByName(loc[c].conn_name) = NoClient
      BY <1>4, <3>2 DEF get_client_fd_by_name
    <3>3. CASE NodeByName(loc[c].conn_name) # NoClient
      <4> DEFINE d == NodeByName(loc[c].conn_name)
      <4>1. d \in Listed /\ name[d] = loc[c].conn_name /\ fd = my_socket[d]
        BY <1>1, <3>3, NodeByNameFinds DEF get_client_fd_by_name
      <4>2. my_socket[d] = my_socket[c] => d = c
        BY <1>4, <4>1, ListedFacts
      <4> QED
        BY <3>1, <4>1, <4>2
    <3> QED
      BY <3>2, <3>3
  <2>4. \A d \in Listed : chat_status'[d] = IF my_socket[d] = fd THEN "CHAT_STATUS_REQ_PENDING"
                                           ELSE chat_status[d]
    BY <1>1, <1>5, <2>1
  <2> HIDE DEF fd
  <2>5. CASE fd = INVALID_FD
    <3>1. \A d \in Listed : chat_status'[d] = chat_status[d]
      BY <1>2, <2>4, <2>5
    <3> QED
      BY <1>2, <1>3, <1>7, <2>1, <2>5, <3>1, StepKeepsLinks
  <2>6. CASE fd # INVALID_FD
    <3>1. /\ LocalsOf(c)' /\ pc'[c] = "req_link" /\ loc'[c].conn_fd = fd
          /\ \A d \in Clients : d # c =>
               /\ pc'[d] = pc[d] /\ loc'[d] = loc[d]
               /\ name'[d] = name[d] /\ my_socket'[d] = my_socket[d]
      <4> DEFINE l == Local(loc[c].conn_name, fd, NoClient)
      <4>1. l.conn_fd = fd /\ loc' = [loc EXCEPT ![c] = l]
        BY <2>1, <2>2, <2>6
      <4> HIDE DEF l
      <4> QED
        BY <1>7, <2>1, <2>3, <2>6, <4>1
    <3> QED
      BY <1>2, <1>3, <2>1, <2>4, <3>1, StepKeepsLinks
  <2> QED
    BY <2>5, <2>6
<1>b. CASE RequestLink(c)
  <2>1. /\ pc[c] = "req_link" /\ UNCHANGED chat_status
        /\ to_fd' = Link(Link(to_fd, me, conn), conn, me)
        /\ pc' = [pc EXCEPT ![c] = "loop"] /\ loc' = [loc EXCEPT ![c] = NoLocals]
    BY <1>b DEF RequestLink, Link
  <2>2. conn # INVALID_FD /\ conn # me
    BY <2>1 DEF LinkInv, LocalsInv, LocalsOf
  <2>3. \A d \in Listed : to_fd'[d] = IF my_socket[d] = conn THEN me
                                     ELSE IF my_socket[d] = me THEN conn ELSE to_fd[d]
    BY <1>1, <1>5, <1>6, <2>1
  <2>4. \A d \in Listed : \/ to_fd'[d] # INVALID_FD /\ to_fd'[d] # my_socket[d]
                          \/ to_fd'[d] = to_fd[d] /\ my_socket[d] # conn
    BY <1>4, <2>2, <2>3
  <2> QED
    BY <1>2, <1>3, <1>7, <2>1, <2>4, StepKeepsLinks
<1>c. CASE AcceptNoMoreExist(c)
  <2>1. /\ pc[c] = "loop" /\ UNCHANGED <<pc, loc>>
        /\ chat_status' = Status(chat_status, me, "CHAT_STATUS_FREE")
        /\ to_fd' = Link(to_fd, me, INVALID_FD)
    BY <1>c DEF AcceptNoMoreExist, Status, Link
  <2>2. \A d \in Listed : \/ chat_status'[d] = "CHAT_STATUS_FREE" /\ to_fd'[d] = INVALID_FD
                          \/ chat_status'[d] = chat_status[d] /\ to_fd'[d] = to_fd[d]
    BY <1>1, <1>5, <2>1
  <2>3. LocalsOf(c)'
    BY <2>1 DEF LocalsOf
  <2> QED
    BY <1>2, <1>3, <2>1, <2>2, <2>3, StepKeepsLinks
<1>d. CASE AcceptBusy(c) \/ DeclineFree(c)
  <2>1. /\ pc[c] \in {"acc_busy", "decl_free"} /\ UNCHANGED to_fd
        /\ chat_status' = Status(chat_status, me, "CHAT_STATUS_FREE")
        /\ pc' = [pc EXCEPT ![c] = "loop"]
        /\ UNCHANGED loc \/ loc' = [loc EXCEPT ![c] = NoLocals]
    BY <1>d DEF AcceptBusy, DeclineFree, Status
  <2>2. \A d \in Listed : /\ to_fd'[d] = to_fd[d]
                          /\ chat_status'[d] \in {"CHAT_STATUS_FREE", chat_status[d]}
    BY <1>1, <1>5, <2>1
  <2>3. /\ LocalsOf(c)'
        /\ \A d \in Clients : d # c => pc'[d] = pc[d] /\ loc'[d] = loc[d]
    BY <1>1, <2>1 DEF LocalsOf, ServerTypeOK
  <2> QED
    BY <1>2, <1>3, <2>1, <2>2, <2>3, StepKeepsLinks
<1>e. CASE AcceptPair(c)
  <2>1. /\ pc[c] = "acc_pair"
        /\ to_fd' = Link(Link(to_fd, me, conn), conn, me)
        /\ chat_status' = Status(Status(chat_status, me, "CHAT_STATUS_BUSY"), conn, "CHAT_STATUS_BUSY")
        /\ pc' = [pc EXCEPT ![c] = "acc_reply"]
        /\ loc' = [loc EXCEPT ![c] = Local(UNDEF_NAME, conn, NodeByFd(conn))]
    BY <1>e DEF AcceptPair, Link, Status
  <2>2. conn # INVALID_FD /\ conn # me
    BY <2>1 DEF LinkInv, LocalsInv, LocalsOf
  <2>3. \A d \in Listed : to_fd'[d] = IF my_socket[d] = conn THEN me
                                     ELSE IF my_socket[d] = me THEN conn ELSE to_fd[d]
    BY <1>1, <1>5, <1>6, <2>1
  <2>4. \A d \in Listed : my_socket[d] \notin {conn, me} => chat_status'[d] = chat_status[d]
    BY <1>1, <1>5, <1>6, <2>1
  <2>5. \A d \in Listed : \/ to_fd'[d] # INVALID_FD /\ to_fd'[d] # my_socket[d]
                          \/ to_fd'[d] = to_fd[d] /\ chat_status'[d] = chat_status[d]
    BY <1>4, <2>2, <2>3, <2>4
  <2>6. Local(UNDEF_NAME, conn, NodeByFd(conn)).conn_fd = conn
    BY DEF Local
  <2>7. /\ LocalsOf(c)'
        /\ \A d \in Clients : d # c =>
             /\ pc'[d] = pc[d] /\ loc'[d] = loc[d]
             /\ name'[d] = name[d] /\ my_socket'[d] = my_socket[d]
    BY <1>7, <2>1, <2>2, <2>6
  <2> QED
    BY <1>2, <1>3, <2>1, <2>5, <2>7, StepKeepsLinks
<1>f. CASE Disconnect(c)
  <2>1. /\ pc[c] = "tx_disc"
        /\ to_fd' = Link(Link(to_fd, me, INVALID_FD), conn, INVALID_FD)
        /\ chat_status' = Status(Status(chat_status, me, "CHAT_STATUS_FREE"), conn, "CHAT_STATUS_FREE")
        /\ pc' = [pc EXCEPT ![c] = "loop"] /\ loc' = [loc EXCEPT ![c] = NoLocals]
    BY <1>f DEF Disconnect, Link, Status
  <2>2. /\ Link(to_fd, me, INVALID_FD) \in [Clients -> Fds \cup {INVALID_FD}]
        /\ Status(chat_status, me, "CHAT_STATUS_FREE") \in [Clients -> ChatStatus]
    BY <1>1, <1>6
  <2>3. \A d \in Listed : \/ chat_status'[d] = "CHAT_STATUS_FREE" /\ to_fd'[d] = INVALID_FD
                          \/ chat_status'[d] = chat_status[d] /\ to_fd'[d] = to_fd[d]
    BY <1>1, <1>5, <2>1, <2>2
  <2> QED
    BY <1>2, <1>3, <1>7, <2>1, <2>3, StepKeepsLinks
<1> QED
  BY <1>a, <1>b, <1>c, <1>d, <1>e, <1>f

(* A departure: the others keep their links, the freed one is free.        *)
LEMMA ClosedKeepsLinks ==
  ASSUME TypeOK, ListInv, LinkInv, NEW c \in Clients, ClientClosed(c)
  PROVE  LinkInv'
<1>1. /\ RegistryTypeOK /\ ServerTypeOK
      /\ chat_status \in [Clients -> ChatStatus]
      /\ to_fd \in [Clients -> Fds \cup {INVALID_FD}]
      /\ "CHAT_STATUS_FREE" \in ChatStatus /\ my_socket[c] \in Fds \cup {INVALID_FD}
  BY DEF TypeOK, RegistryTypeOK, ChatStatus
<1>2. PICK status, to :
        /\ c \in Listed /\ Listed' = Listed \ {c}
        /\ my_socket' = [my_socket EXCEPT ![c] = INVALID_FD]
        /\ pc[c] = "loop" /\ pc' = [pc EXCEPT ![c] = "exited"]
        /\ UNCHANGED loc
        /\ status \in {chat_status,
             set_client_chatting_status_by_fd(chat_status, get_conn_fd_by_fd(my_socket[c]),
                                              "CHAT_STATUS_FREE")}
        /\ to \in {to_fd, set_to_fd_by_fd(to_fd, my_socket[c], INVALID_FD)}
        /\ chat_status' = [status EXCEPT ![c] = "CHAT_STATUS_FREE"]
        /\ to_fd' = [to EXCEPT ![c] = INVALID_FD]
        /\ name' = [name EXCEPT ![c] = UNDEF_NAME]
  BY ClosedRemovesOwnNode
<1>3. \A d \in Listed : d \in Clients /\ (my_socket[d] = my_socket[c] => d = c)
  BY <1>2, ListedFacts
<1>4. \A d \in Listed : status[d] \in {chat_status[d], "CHAT_STATUS_FREE"}
  BY <1>1, <1>2, ListedFacts
<1>5. \A d \in Listed : d # c => to[d] = to_fd[d]
  BY <1>1, <1>2, <1>3, ListedFacts
<1>6. status \in [Clients -> ChatStatus] /\ to \in [Clients -> Fds \cup {INVALID_FD}]
  <2>1. set_client_chatting_status_by_fd(chat_status, get_conn_fd_by_fd(my_socket[c]),
                                         "CHAT_STATUS_FREE") \in [Clients -> ChatStatus]
    BY <1>1, SettersTyped, NoClientAssumption
  <2>2. set_to_fd_by_fd(to_fd, my_socket[c], INVALID_FD) \in [Clients -> Fds \cup {INVALID_FD}]
    BY <1>1, SettersTyped, NoClientAssumption
  <2>3. status \in [Clients -> ChatStatus]
    BY <1>1, <1>2, <2>1
  <2>4. to \in [Clients -> Fds \cup {INVALID_FD}]
    BY <1>1, <1>2, <2>2
  <2> QED
    BY <2>3, <2>4
<1>7. \A d \in Listed' : /\ d \in Listed /\ d \in Clients /\ d # c /\ my_socket'[d] = my_socket[d]
                         /\ chat_status'[d] \in {chat_status[d], "CHAT_STATUS_FREE"}
                         /\ to_fd'[d] = to_fd[d]
  BY <1>1, <1>2, <1>3, <1>4, <1>5, <1>6 DEF RegistryTypeOK
<1>8. LocalsInv'
  BY <1>1, <1>2 DEF LinkInv, LocalsInv, LocalsOf, ServerTypeOK, RegistryTypeOK
<1>9. BusyHasLink' /\ NeverOwnLink'
  BY <1>7 DEF LinkInv, BusyHasLink, NeverOwnLink
<1>10. PendingHasRequester'
  BY <1>1, <1>2, <1>7 DEF LinkInv, PendingHasRequester, ServerTypeOK
<1> QED
  BY <1>8, <1>9, <1>10 DEF LinkInv
-----------------------------------------------------------------------------
(* The invariant and what follows from it                                  *)

(* The invariant holds before anything has happened.                       *)
LEMMA InitIInv == Init => IInv
<1> SUFFICES ASSUME Init PROVE IInv
  OBVIOUS
<1>1. SocketsTypeOK
  BY DEF Init, SocketsInit, SocketsTypeOK, PeerStates
<1>2. RegistryTypeOK
  BY DEF Init, RegistryInit, RegistryTypeOK, ChatStatus
<1>3. ServerTypeOK
  BY MovesTyped DEF Init, ServerInit, ServerTypeOK, Pcs, NoLocals, Local, LocalSet
<1>4. ClientTypeOK
  BY MaxTypedAssumption, MessagesTyped DEF Init, ClientInit, ClientTypeOK, Phases
<1>5. clientList = <<>> /\ Len(clientList) = 0 /\ DOMAIN clientList = {}
  BY DEF Init, RegistryInit
<1>6. Listed = {}
  BY <1>5 DEF Listed, Range
<1>7. ListInv
  BY <1>5, <1>6, MaxClientAssumption
  DEF Init, RegistryInit, ServerInit, ListInv, CountMatches, FdNamesOneClient, ServedIsListed,
      ThreadHoldsFd, ServingPcs, HandlerPcs
<1>8. LinkInv
  BY <1>6 DEF Init, ServerInit, LinkInv, LocalsInv, LocalsOf, BusyHasLink, PendingHasRequester,
              NeverOwnLink
<1> QED
  BY <1>1, <1>2, <1>3, <1>4, <1>7, <1>8 DEF IInv, TypeOK

(* Every step keeps it.                                                    *)
LEMMA NextIInv == IInv /\ [Next]_vars => IInv'
<1> SUFFICES ASSUME IInv, [Next]_vars PROVE IInv'
  OBVIOUS
<1>0. TypeOK /\ ListInv /\ LinkInv /\ ThreadHoldsFd
  BY DEF IInv, ListInv
<1>1. ASSUME NEW c \in Clients, MainNext(c) \/ ThreadNext(c), UNCHANGED clientVars
      PROVE  IInv'
  <2>1. CASE MainNext(c) \/ Register(c) \/ RegisterFails(c) \/ Greeted(c) \/ GreetFails(c)
    BY <1>0, <1>1, <2>1, AdmissionTyped, AdmissionKeepsList, AdmissionKeepsLinks DEF IInv
  <2>2. CASE SetName(c) \/ GetClientList(c) \/ Request(c) \/ AcceptNoFd(c)
               \/ AcceptReads(c) \/ Tx(c) \/ Decline(c)
    BY <1>0, <1>1, <2>2, ShortHandlersTyped, HandlersKeepList, ReadersKeepLinks DEF IInv
  <2>3. CASE AcceptNoMoreExist(c)
    BY <1>0, <1>1, <2>3, ShortHandlersTyped, HandlersKeepList, WritersKeepLinks DEF IInv
  <2>4. CASE AcceptReply(c)
    BY <1>0, <1>1, <2>4, LaterSectionsTyped, HandlersKeepList, ReadersKeepLinks DEF IInv
  <2>5. CASE RequestMark(c) \/ RequestLink(c) \/ AcceptBusy(c) \/ AcceptPair(c)
               \/ Disconnect(c) \/ DeclineFree(c)
    BY <1>0, <1>1, <2>5, LaterSectionsTyped, HandlersKeepList, WritersKeepLinks DEF IInv
  <2>6. CASE Flush(c)
    BY <1>0, <1>1, <2>6, ClosedAndFlushTyped, HandlersKeepList, ReadersKeepLinks DEF IInv
  <2>7. CASE ClientClosed(c)
    BY <1>0, <1>1, <2>7, ClosedAndFlushTyped, ClosedKeepsList, ClosedKeepsLinks DEF IInv
  <2> QED
    BY <1>1, <2>1, <2>2, <2>3, <2>4, <2>5, <2>6, <2>7 DEF ThreadNext
<1>2. ASSUME NEW c \in Clients, ProcessNext(c) \/ UserNext(c), UNCHANGED serverVars
      PROVE  IInv'
  <2>1. TypeOK'
    BY <1>0, <1>2, ClientTyped
  <2>2. UNCHANGED fdOwner
    BY <1>2 DEF ProcessNext, UserNext, Connect, Handshake, HandshakeTimeout, Exit, Rx, Quit, Types,
                TypeChat, TypeDisconnect, TypeAnswer, TypeGetList, TypeSetName, TypeConnect
  <2>3. UNCHANGED <<listVars, my_socket, chat_status, to_fd, name, pc, loc>>
    BY <1>2 DEF serverVars, nodeVars, threadVars
  <2>4. ListInv'
    BY <1>0, <2>2, <2>3, StayKeepsList
  <2>5. LinkInv'
    BY <1>0, <2>3 DEF LinkInv, LocalsInv, LocalsOf, BusyHasLink, PendingHasRequester, NeverOwnLink,
                      listVars, Listed
  <2> QED
    BY <2>1, <2>4, <2>5 DEF IInv
<1>3. CASE UNCHANGED vars
  <2> USE DEF vars, serverVars, sockVars, listVars, nodeVars, threadVars, clientVars, flagVars
  <2>1. TypeOK'
    <3>1. SocketsTypeOK' /\ RegistryTypeOK'
      BY <1>0, <1>3 DEF TypeOK, SocketsTypeOK, RegistryTypeOK
    <3>2. ServerTypeOK' /\ ClientTypeOK'
      BY <1>0, <1>3 DEF TypeOK, ServerTypeOK, ClientTypeOK
    <3> QED
      BY <3>1, <3>2 DEF TypeOK
  <2>2. ListInv'
    BY <1>0, <1>3, StayKeepsList
  <2>3. LinkInv'
    BY <1>0, <1>3 DEF LinkInv, LocalsInv, LocalsOf, BusyHasLink, PendingHasRequester, NeverOwnLink,
                      Listed
  <2> QED
    BY <2>1, <2>2, <2>3 DEF IInv
<1> QED
  BY <1>1, <1>2, <1>3 DEF Next, ServerNext, ClientNext

(* The inductive invariant holds in every reachable state.                 *)
THEOREM Invariance == Spec => []IInv
<1>1. Init => IInv
  BY InitIInv
<1>2. IInv /\ [Next]_vars => IInv'
  BY NextIInv
<1> QED
  BY <1>1, <1>2, PTL DEF Spec

(* Every variable keeps its type, whatever the clients and users do.       *)
THEOREM TypesHold == Spec => []TypeOK
<1>1. IInv => TypeOK
  BY DEF IInv
<1> QED
  BY <1>1, Invariance, PTL

(* The count of client_list is its length and never exceeds MAX_CLIENT,    *)
(* although it is read in one section and the node added in a later one.   *)
THEOREM CountIsRight == Spec => []CountMatches
<1>1. IInv => CountMatches
  BY DEF IInv, ListInv
<1> QED
  BY <1>1, Invariance, PTL

(* The by-fd lookups and setters reach only the descriptor's own client,   *)
(* however accept reuses descriptors.                                      *)
THEOREM FdsNameTheirClients == Spec => []FdNamesOneClient
<1>1. IInv => FdNamesOneClient
  BY DEF IInv, ListInv
<1> QED
  BY <1>1, Invariance, PTL

(* The node of a client that is being served is not freed under it.        *)
THEOREM ServedAreListed == Spec => []ServedIsListed
<1>1. IInv => ServedIsListed
  BY DEF IInv, ListInv
<1> QED
  BY <1>1, Invariance, PTL

(* Nor is its descriptor closed, or given to another connection.           *)
THEOREM ThreadsHoldTheirFds == Spec => []ThreadHoldsFd
<1>1. IInv => ThreadHoldsFd
  BY DEF IInv, ListInv
<1> QED
  BY <1>1, Invariance, PTL

(* A busy client has a link, whatever third clients do meanwhile.          *)
THEOREM BusyIsLinked == Spec => []BusyHasLink
<1>1. IInv => BusyHasLink
  BY DEF IInv, LinkInv
<1> QED
  BY <1>1, Invariance, PTL

(* A client with a pending request has a link to answer to, or gets one.   *)
THEOREM PendingIsLinked == Spec => []PendingHasRequester
<1>1. IInv => PendingHasRequester
  BY DEF IInv, LinkInv
<1> QED
  BY <1>1, Invariance, PTL

(* No client is linked to itself, although names and descriptors are       *)
(* looked up in one section and used in another.                           *)
THEOREM NobodyIsOwnPartner == Spec => []NeverOwnLink
<1>1. IInv => NeverOwnLink
  BY DEF IInv, LinkInv
<1> QED
  BY <1>1, Invariance, PTL

(* No step but AcceptPair makes anyone busy.                               *)
LEMMA OnlyPairMakesBusy ==
  ASSUME IInv, NEW e \in Clients, MainNext(e) \/ ThreadNext(e), ~ AcceptPair(e),
         NEW c \in Clients, chat_status[c] # "CHAT_STATUS_BUSY"
  PROVE  chat_status'[c] # "CHAT_STATUS_BUSY"
<1>1. chat_status \in [Clients -> ChatStatus] /\ RegistryTypeOK /\ NoClient \notin Clients
  BY NoClientAssumption DEF IInv, TypeOK, RegistryTypeOK
<1>2. \A f : \A s \in ChatStatus \ {"CHAT_STATUS_BUSY"} :
        \A status \in [Clients -> ChatStatus] : status[c] # "CHAT_STATUS_BUSY" =>
          set_client_chatting_status_by_fd(status, f, s)[c] # "CHAT_STATUS_BUSY"
  BY <1>1 DEF set_client_chatting_status_by_fd
<1>3. {"CHAT_STATUS_FREE", "CHAT_STATUS_REQ_PENDING"} \subseteq ChatStatus \ {"CHAT_STATUS_BUSY"}
  BY DEF ChatStatus
<1>4. \A f : \A s \in ChatStatus :
        set_client_chatting_status_by_fd(chat_status, f, s) \in [Clients -> ChatStatus]
  BY <1>1, SettersTyped
<1>a. CASE MainNext(e) \/ RegisterFails(e) \/ Greeted(e) \/ GreetFails(e) \/ SetName(e)
             \/ GetClientList(e) \/ Request(e) \/ AcceptNoFd(e) \/ AcceptReads(e) \/ Tx(e)
             \/ Decline(e) \/ Flush(e) \/ AcceptReply(e) \/ RequestLink(e)
  BY <1>a DEF MainNext, Accept, Admit, TurnAway, SpawnFails, RegisterFails, Greeted, GreetFails,
              SetName, GetClientList, Request, AcceptNoFd, AcceptReads, Tx, Decline, Flush,
              AcceptReply, RequestLink, nodeVars
<1>b. CASE Register(e)
  BY <1>1, <1>b DEF Register, add_client_node_to_queue
<1>c. CASE RequestMark(e) \/ AcceptNoMoreExist(e) \/ AcceptBusy(e) \/ DeclineFree(e)
  BY <1>1, <1>2, <1>3, <1>c DEF RequestMark, AcceptNoMoreExist, AcceptBusy, DeclineFree
<1>d. CASE Disconnect(e)
  BY <1>1, <1>2, <1>3, <1>4, <1>d DEF Disconnect
<1>e. CASE ClientClosed(e)
  <2>1. PICK status :
          /\ status \in {chat_status,
               set_client_chatting_status_by_fd(chat_status, get_conn_fd_by_fd(my_socket[e]),
                                                "CHAT_STATUS_FREE")}
          /\ chat_status' = [status EXCEPT ![e] = "CHAT_STATUS_FREE"]
    BY <1>e, ClosedRemovesOwnNode DEF IInv
  <2>2. status \in [Clients -> ChatStatus] /\ status[c] # "CHAT_STATUS_BUSY"
    BY <1>1, <1>2, <1>3, <1>4, <2>1
  <2> QED
    BY <2>1, <2>2
<1> QED
  BY <1>a, <1>b, <1>c, <1>d, <1>e DEF ThreadNext

(* Chats start between two clients linked to each other: the two sections  *)
(* of an accept may be as far apart as they like.                          *)
THEOREM ChatsStartMutual == Spec => ChatStartsMutual
<1> DEFINE Starts(c) == chat_status[c] # "CHAT_STATUS_BUSY" /\ chat_status'[c] = "CHAT_STATUS_BUSY"
           Mutual == \A c \in Clients : Starts(c) =>
             \A d \in Listed : my_socket[d] = to_fd'[c] =>
               chat_status'[d] = "CHAT_STATUS_BUSY" /\ to_fd'[d] = my_socket[c]
<1>1. IInv /\ [Next]_vars => [Mutual]_vars
  <2> SUFFICES ASSUME IInv, Next, NEW c \in Clients, Starts(c), NEW d \in Listed,
                      my_socket[d] = to_fd'[c]
               PROVE  chat_status'[d] = "CHAT_STATUS_BUSY" /\ to_fd'[d] = my_socket[c]
    OBVIOUS
  <2>1. PICK e \in Clients : AcceptPair(e)
    BY OnlyPairMakesBusy
    DEF Next, ServerNext, ClientNext, serverVars, nodeVars
  <2> DEFINE me == my_socket[e]
             conn == loc[e].conn_fd
  <2>2. /\ TypeOK /\ ListInv /\ RegistryTypeOK /\ NoClient \notin Clients
        /\ chat_status \in [Clients -> ChatStatus]
        /\ to_fd \in [Clients -> Fds \cup {INVALID_FD}]
        /\ "CHAT_STATUS_BUSY" \in ChatStatus
        /\ me \in Fds \cup {INVALID_FD} /\ conn \in Fds \cup {INVALID_FD}
    BY NoClientAssumption
    DEF IInv, TypeOK, RegistryTypeOK, ServerTypeOK, ChatStatus, LocalSet
  <2>3. /\ pc[e] = "acc_pair"
        /\ chat_status' = set_client_chatting_status_by_fd(
                            set_client_chatting_status_by_fd(chat_status, me, "CHAT_STATUS_BUSY"),
                            conn, "CHAT_STATUS_BUSY")
        /\ to_fd' = set_to_fd_by_fd(set_to_fd_by_fd(to_fd, me, conn), conn, me)
    BY <2>1 DEF AcceptPair, At
  <2>4. e \in Listed /\ conn # me /\ NodeByFd(me) = e
    BY <2>2, <2>3, ListedFacts DEF IInv, LinkInv, LocalsInv, LocalsOf, ServingPcs, HandlerPcs
  <2>5. /\ set_client_chatting_status_by_fd(chat_status, me, "CHAT_STATUS_BUSY")
             \in [Clients -> ChatStatus]
        /\ set_to_fd_by_fd(to_fd, me, conn) \in [Clients -> Fds \cup {INVALID_FD}]
    BY <2>2, SettersTyped
  <2>6. c = e \/ c = NodeByFd(conn)
    BY <2>2, <2>3, <2>4, <2>5 DEF set_client_chatting_status_by_fd
  <2>7. c \in Listed /\ my_socket[c] \in {me, conn}
    BY <2>2, <2>4, <2>6, ListedFacts
  <2>8. \A x \in Listed :
          /\ my_socket[x] \in {me, conn} => chat_status'[x] = "CHAT_STATUS_BUSY"
          /\ to_fd'[x] = IF my_socket[x] = conn THEN me
                         ELSE IF my_socket[x] = me THEN conn ELSE to_fd[x]
    BY <2>2, <2>3, <2>5, ListedFacts
  <2> QED
    BY <2>4, <2>7, <2>8
<1> QED
  BY <1>1, Invariance, PTL DEF Spec, ChatStartsMutual
-----------------------------------------------------------------------------
(* Who changes the list, the descriptors and the chats                     *)

(* A thread that only moves keeps the account of the descriptors, if it    *)
(* was serving (its client is listed) or goes on being on its way in.      *)
LEMMA MoveKeepsAccount ==
  ASSUME TypeOK, ListInv, OpenFdsAccounted, NEW c \in Clients, NEW p,
         pc' = [pc EXCEPT ![c] = p],
         pc[c] \in ServingPcs \/ p \in {"accepted", "start", "refused"},
         UNCHANGED <<listVars, my_socket, fdOwner>>
  PROVE  OpenFdsAccounted'
<1>1. Listed' = Listed /\ pc \in [Clients -> Pcs]
  BY DEF listVars, Listed, TypeOK, ServerTypeOK
<1>2. c \in Listed \/ pc'[c] \in {"accepted", "start", "refused"}
  BY <1>1 DEF ListInv, ServedIsListed
<1> QED
  BY <1>1, <1>2 DEF OpenFdsAccounted

(* Every step keeps the account.                                           *)
LEMMA NextKeepsAccount ==
  ASSUME IInv, OpenFdsAccounted, Next
  PROVE  OpenFdsAccounted'
<1>0. TypeOK /\ ListInv /\ RegistryTypeOK /\ SocketsTypeOK /\ ServerTypeOK /\ NoClient \notin Clients
  BY NoClientAssumption DEF IInv, TypeOK
<1>a. ASSUME NEW c \in Clients, NEW f \in Fds, Accept(c, f) PROVE OpenFdsAccounted'
  <2>1. /\ fdOwner[f] = NoClient /\ fdOwner' = [fdOwner EXCEPT ![f] = c]
        /\ my_socket' = [my_socket EXCEPT ![c] = f]
        /\ pc[c] = "none" /\ pc' = [pc EXCEPT ![c] = "accepted"]
        /\ UNCHANGED listVars
    BY <1>a DEF Accept, IsNextFd, GoTo
  <2>2. c \notin Listed /\ Listed' = Listed
    BY <1>0, <2>1 DEF ListInv, ServedIsListed, ServingPcs, HandlerPcs, listVars, Listed
  <2>3. \A g \in Fds : g # f => fdOwner[g] # c /\ fdOwner'[g] = fdOwner[g]
    BY <1>0, <2>1, <2>2 DEF OpenFdsAccounted, SocketsTypeOK
  <2>4. \A d \in Clients : d # c => my_socket'[d] = my_socket[d] /\ pc'[d] = pc[d]
    BY <1>0, <2>1 DEF RegistryTypeOK, ServerTypeOK
  <2>5. my_socket'[c] = f /\ pc'[c] = "accepted" /\ fdOwner'[f] = c
    BY <1>0, <2>1 DEF RegistryTypeOK, ServerTypeOK, SocketsTypeOK
  <2>6. \A g \in Fds : fdOwner[g] # NoClient => fdOwner[g] \in Clients
    BY <1>0 DEF SocketsTypeOK
  <2> QED
    BY <2>2, <2>3, <2>4, <2>5, <2>6 DEF OpenFdsAccounted
<1>b. ASSUME NEW c \in Clients, Admit(c) \/ TurnAway(c) \/ SpawnFails(c) \/ RegisterFails(c)
      PROVE  OpenFdsAccounted'
  <2>1. \E p \in {"start", "refused"} : pc' = [pc EXCEPT ![c] = p]
    BY <1>b DEF Admit, TurnAway, SpawnFails, RegisterFails, GoTo
  <2>2. UNCHANGED <<listVars, my_socket, fdOwner>>
    BY <1>b DEF Admit, TurnAway, SpawnFails, RegisterFails, sockVars
  <2> QED
    BY <1>0, <2>1, <2>2, MoveKeepsAccount
<1>c. ASSUME NEW c \in Clients, Register(c) PROVE OpenFdsAccounted'
  <2>1. /\ pc[c] = "start" /\ pc' = [pc EXCEPT ![c] = "greet"]
        /\ ~ QueueFull /\ add_client_node_to_queue(c) /\ UNCHANGED <<my_socket, fdOwner>>
    BY <1>c DEF Register, At, GoTo, sockVars
  <2>2. c \notin Listed /\ my_socket[c] \in Fds /\ fdOwner[my_socket[c]] = c
    BY <1>0, <2>1 DEF ListInv, ServedIsListed, ThreadHoldsFd, ServingPcs, HandlerPcs
  <2>3. Listed' = Listed \cup {c}
    BY <1>0, <2>1, <2>2, AddKeepsList DEF ListInv
  <2>4. \A d \in Clients : d # c => pc'[d] = pc[d]
    BY <1>0, <2>1 DEF ServerTypeOK
  <2>5. \A f \in Fds : fdOwner[f] # NoClient => fdOwner[f] \in Clients
    BY <1>0 DEF SocketsTypeOK
  <2> QED
    BY <2>1, <2>3, <2>4, <2>5 DEF OpenFdsAccounted
<1>d. ASSUME NEW c \in Clients, Greeted(c) \/ GreetFails(c) PROVE OpenFdsAccounted'
  <2>1. pc[c] \in ServingPcs /\ \E p : pc' = [pc EXCEPT ![c] = p]
    BY <1>d DEF Greeted, GreetFails, At, GoTo, ServingPcs
  <2>2. UNCHANGED <<listVars, my_socket, fdOwner>>
    BY <1>d DEF Greeted, GreetFails, sockVars
  <2> QED
    BY <1>0, <2>1, <2>2, MoveKeepsAccount
<1>e. ASSUME NEW c \in Clients,
             \/ SetName(c) \/ GetClientList(c) \/ Request(c) \/ AcceptNoFd(c)
                  \/ AcceptNoMoreExist(c) \/ AcceptReads(c) \/ Tx(c) \/ Decline(c) \/ Flush(c)
             \/ RequestMark(c) \/ RequestLink(c) \/ AcceptBusy(c) \/ AcceptPair(c)
                  \/ AcceptReply(c) \/ Disconnect(c) \/ DeclineFree(c)
      PROVE  OpenFdsAccounted'
  <2>1. UNCHANGED <<listVars, my_socket, fdOwner>>
    BY <1>e, HandlersOnlyMove
  <2>2. CASE UNCHANGED pc
    BY <2>1, <2>2 DEF OpenFdsAccounted, listVars, Listed
  <2>3. CASE \E p \in ServingPcs : pc[c] \in ServingPcs /\ pc' = [pc EXCEPT ![c] = p]
    BY <1>0, <2>1, <2>3, MoveKeepsAccount
  <2> QED
    BY <1>e, <2>2, <2>3, HandlersOnlyMove
<1>f. ASSUME NEW c \in Clients, ClientClosed(c) PROVE OpenFdsAccounted'
  <2>1. /\ c \in Listed /\ Listed' = Listed \ {c}
        /\ my_socket' = [my_socket EXCEPT ![c] = INVALID_FD]
        /\ fdOwner' = [fdOwner EXCEPT ![my_socket[c]] = NoClient]
        /\ pc[c] = "loop" /\ pc' = [pc EXCEPT ![c] = "exited"]
    BY <1>0, <1>f, ClosedRemovesOwnNode
  <2>2. \A f \in Fds : fdOwner'[f] # NoClient =>
          /\ fdOwner'[f] = fdOwner[f] /\ f # my_socket[c]
          /\ fdOwner[f] \in Clients
    BY <1>0, <2>1 DEF SocketsTypeOK
  <2>3. \A f \in Fds : fdOwner'[f] # NoClient => fdOwner[f] # c
    BY <2>2 DEF OpenFdsAccounted
  <2>4. \A d \in Clients : d # c => my_socket'[d] = my_socket[d] /\ pc'[d] = pc[d]
    BY <1>0, <2>1 DEF RegistryTypeOK, ServerTypeOK
  <2> QED
    BY <2>1, <2>2, <2>3, <2>4 DEF OpenFdsAccounted
<1>g. ASSUME NEW c \in Clients, ProcessNext(c) \/ UserNext(c), UNCHANGED serverVars
      PROVE  OpenFdsAccounted'
  <2>1. UNCHANGED fdOwner
    BY <1>g DEF ProcessNext, UserNext, Connect, Handshake, HandshakeTimeout, Exit, Rx, Quit, Types,
                TypeChat, TypeDisconnect, TypeAnswer, TypeGetList, TypeSetName, TypeConnect
  <2> QED
    BY <1>g, <2>1 DEF OpenFdsAccounted, serverVars, listVars, threadVars, Listed
<1> QED
  BY <1>a, <1>b, <1>c, <1>d, <1>e, <1>f, <1>g
  DEF Next, ServerNext, ClientNext, MainNext, ThreadNext

(* A client that leaves loses its descriptor with its node; only refused   *)
(* connections keep one for nothing, however many there are.               *)
THEOREM DescriptorsAreAccounted == Spec => []OpenFdsAccounted
<1>1. Init => OpenFdsAccounted
  BY DEF Init, SocketsInit, OpenFdsAccounted
<1>2. IInv /\ OpenFdsAccounted /\ [Next]_vars => OpenFdsAccounted'
  <2>1. CASE UNCHANGED vars
    BY <2>1 DEF vars, sockVars, serverVars, listVars, threadVars, OpenFdsAccounted, Listed
  <2> QED
    BY <2>1, NextKeepsAccount
<1> QED
  BY <1>1, <1>2, Invariance, PTL DEF Spec

(* While the mutex is left locked no step changes the list or a field.     *)
LEMMA LockedStep ==
  ASSUME ~ MutexFree, Next
  PROVE  UNCHANGED <<listVars, nodeVars>>
<1>1. CASE ClientNext /\ UNCHANGED serverVars
  BY <1>1 DEF serverVars
<1>2. ASSUME NEW c \in Clients, MainNext(c) PROVE UNCHANGED <<listVars, nodeVars>>
  BY <1>2 DEF MainNext, Accept, Admit, TurnAway, SpawnFails
<1>3. ASSUME NEW c \in Clients, ThreadNext(c) PROVE UNCHANGED <<listVars, nodeVars>>
  <2>1. CASE Greeted(c) \/ GreetFails(c) \/ GetClientList(c) \/ AcceptReply(c) \/ Flush(c)
    BY <2>1 DEF Greeted, GreetFails, GetClientList, AcceptReply, Flush, HandlerFrame
  <2>2. ~ (\/ Register(c) \/ RegisterFails(c) \/ SetName(c) \/ Request(c) \/ RequestMark(c)
           \/ RequestLink(c) \/ AcceptNoFd(c) \/ AcceptNoMoreExist(c))
    BY DEF Register, RegisterFails, SetName, Request, RequestMark, RequestLink, AcceptNoFd,
           AcceptNoMoreExist
  <2>3. ~ (\/ AcceptReads(c) \/ AcceptBusy(c) \/ AcceptPair(c) \/ Tx(c) \/ Disconnect(c)
           \/ Decline(c) \/ DeclineFree(c) \/ ClientClosed(c))
    BY DEF AcceptReads, AcceptBusy, AcceptPair, Tx, Disconnect, Decline, DeclineFree, ClientClosed
  <2> QED
    BY <1>3, <2>1, <2>2, <2>3 DEF ThreadNext
<1> QED
  BY <1>1, <1>2, <1>3 DEF Next, ServerNext

(* Every change of the list and of the nodes is made in a critical         *)
(* section: a mutex left locked freezes them for good.                     *)
THEOREM RegistryIsGuarded == Spec => RegistryGuarded
<1>1. [Next]_vars => [~ MutexFree => UNCHANGED <<listVars, nodeVars>>]_vars
  BY LockedStep
<1> QED
  BY <1>1, PTL DEF Spec, RegistryGuarded

(* A thread that takes a message off its stream has moved.                 *)
LEMMA ReceivingMoves ==
  ASSUME TypeOK, ListInv, NEW c \in Clients, pc[c] = "loop", Inbox(c) # <<>>, Receive(c)
  PROVE  toServer'[c] = Tail(toServer[c]) /\ toServer[c] # <<>> /\ Moves(c)
<1>1. fdOwner[my_socket[c]] = c
  BY DEF ListInv, ThreadHoldsFd, ServingPcs
<1>2. toServer[c] # <<>> /\ toServer' = [toServer EXCEPT ![c] = Tail(@)]
  BY <1>1 DEF Inbox, Conn, Receive
<1>3. toServer \in [Clients -> Seq(ClientMessages)]
  BY DEF TypeOK, SocketsTypeOK
<1>4. toServer'[c] = Tail(toServer[c])
  BY <1>2, <1>3
<1>5. Len(toServer[c]) \in Nat /\ Len(Tail(toServer[c])) = Len(toServer[c]) - 1
  BY <1>2, <1>3, HeadTailProperties, LenProperties
<1>6. Len(Tail(toServer[c])) # Len(toServer[c])
  BY <1>5
<1> QED
  BY <1>2, <1>4, <1>6 DEF Moves

(* One that goes to another control point has moved.                       *)
LEMMA GoingMoves ==
  ASSUME TypeOK, NEW c \in Clients, NEW p, NEW q, pc[c] = p, p # q, GoTo(c, q)
  PROVE  Moves(c) /\ pc'[c] = q
BY DEF GoTo, Moves, TypeOK, ServerTypeOK

(* A handler changes the status or the link of its own client, of the one  *)
(* whose descriptor it holds, or of the one whose name it was asked for.   *)
LEMMA HandlersTouchHeld ==
  ASSUME TypeOK, ListInv, NEW e \in Clients,
         \/ RequestMark(e) \/ RequestLink(e) \/ AcceptPair(e) \/ Disconnect(e)
         \/ AcceptBusy(e) \/ DeclineFree(e) \/ AcceptNoMoreExist(e),
         NEW d \in Listed, chat_status'[d] # chat_status[d] \/ to_fd'[d] # to_fd[d]
  PROVE  Moves(e) /\ (d = e \/ Holds(e, d))
<1> DEFINE me == my_socket[e]
           conn == loc[e].conn_fd
           setS(s, f, v) == set_client_chatting_status_by_fd(s, f, v)
           setL(l, f, v) == set_to_fd_by_fd(l, f, v)
<1>1. /\ RegistryTypeOK /\ NoClient \notin Clients
      /\ chat_status \in [Clients -> ChatStatus]
      /\ to_fd \in [Clients -> Fds \cup {INVALID_FD}]
      /\ {"CHAT_STATUS_FREE", "CHAT_STATUS_BUSY", "CHAT_STATUS_REQ_PENDING"} \subseteq ChatStatus
      /\ me \in Fds \cup {INVALID_FD} /\ conn \in Fds \cup {INVALID_FD}
  BY NoClientAssumption DEF TypeOK, RegistryTypeOK, ServerTypeOK, ChatStatus, LocalSet
<1>2. /\ pc[e] \in ServingPcs /\ e \in Listed
      /\ \A x \in Listed : my_socket[x] = me => x = e
  <2>1. pc[e] \in {"loop"} \cup HandlerPcs
    BY DEF RequestMark, RequestLink, AcceptPair, Disconnect, AcceptBusy, DeclineFree,
           AcceptNoMoreExist, Received, At, HandlerPcs
  <2>2. pc[e] \in ServingPcs
    BY <2>1 DEF ServingPcs
  <2> QED
    BY <2>2, ListedFacts
<1>3. /\ \A f : \A v \in ChatStatus : setS(chat_status, f, v) \in [Clients -> ChatStatus]
      /\ \A f : \A v \in Fds \cup {INVALID_FD} :
           setL(to_fd, f, v) \in [Clients -> Fds \cup {INVALID_FD}]
  BY <1>1, SettersTyped
<1>4. \A f, v : \A s \in [Clients -> ChatStatus] :
        setS(s, f, v)[d] = IF my_socket[d] = f THEN v ELSE s[d]
  BY ListedFacts
<1>5. \A f, v : \A l \in [Clients -> Fds \cup {INVALID_FD}] :
        setL(l, f, v)[d] = IF my_socket[d] = f THEN v ELSE l[d]
  BY ListedFacts
<1> HIDE DEF setS, setL
<1>a. CASE RequestMark(e)
  <2> DEFINE asked == get_client_fd_by_name(loc[e].conn_name)
  <2>1. /\ chat_status' = setS(chat_status, asked, "CHAT_STATUS_REQ_PENDING")
        /\ UNCHANGED to_fd /\ pc[e] = "req_mark"
        /\ GoTo(e, "loop") \/ GoTo(e, "req_link")
    BY <1>a DEF RequestMark, At, setS
  <2>2. my_socket[d] = asked
    BY <1>1, <1>4, <2>1
  <2>3. NodeByName(loc[e].conn_name) # NoClient
    BY <2>2, ListedFacts DEF get_client_fd_by_name
  <2>4. /\ NodeByName(loc[e].conn_name) \in Listed
        /\ name[NodeByName(loc[e].conn_name)] = loc[e].conn_name
        /\ my_socket[NodeByName(loc[e].conn_name)] = asked
    BY <1>1, <2>3, NodeByNameFinds DEF get_client_fd_by_name
  <2>5. d = NodeByName(loc[e].conn_name)
    BY <2>2, <2>4, ListedFacts
  <2> QED
    BY <2>1, <2>4, <2>5, GoingMoves DEF Holds
<1>b. CASE RequestLink(e)
  <2>1. /\ to_fd' = setL(setL(to_fd, me, conn), conn, me)
        /\ UNCHANGED chat_status /\ pc[e] = "req_link" /\ GoTo(e, "loop")
    BY <1>b DEF RequestLink, At, setL
  <2>2. my_socket[d] \in {me, conn}
    BY <1>1, <1>3, <1>5, <2>1
  <2> QED
    BY <1>2, <2>1, <2>2, GoingMoves DEF Holds
<1>c. CASE AcceptPair(e)
  <2>1. /\ chat_status' = setS(setS(chat_status, me, "CHAT_STATUS_BUSY"), conn, "CHAT_STATUS_BUSY")
        /\ to_fd' = setL(setL(to_fd, me, conn), conn, me)
        /\ pc[e] = "acc_pair" /\ GoTo(e, "acc_reply")
    BY <1>c DEF AcceptPair, At, setS, setL
  <2>2. my_socket[d] \in {me, conn}
    BY <1>1, <1>3, <1>4, <1>5, <2>1
  <2> QED
    BY <1>2, <2>1, <2>2, GoingMoves DEF Holds
<1>d. CASE Disconnect(e)
  <2>1. /\ chat_status' = setS(setS(chat_status, me, "CHAT_STATUS_FREE"), conn, "CHAT_STATUS_FREE")
        /\ to_fd' = setL(setL(to_fd, me, INVALID_FD), conn, INVALID_FD)
        /\ pc[e] = "tx_disc" /\ GoTo(e, "loop")
    BY <1>d DEF Disconnect, At, setS, setL
  <2>2. my_socket[d] \in {me, conn}
    BY <1>1, <1>3, <1>4, <1>5, <2>1
  <2> QED
    BY <1>2, <2>1, <2>2, GoingMoves DEF Holds
<1>e. CASE AcceptBusy(e) \/ DeclineFree(e)
  <2>1. /\ chat_status' = setS(chat_status, me, "CHAT_STATUS_FREE")
        /\ UNCHANGED to_fd /\ pc[e] \in {"acc_busy", "decl_free"} /\ GoTo(e, "loop")
    BY <1>e DEF AcceptBusy, DeclineFree, At, setS
  <2>2. my_socket[d] = me
    BY <1>1, <1>4, <2>1
  <2> QED
    BY <1>2, <2>1, <2>2, GoingMoves
<1>f. CASE AcceptNoMoreExist(e)
  <2>1. /\ chat_status' = setS(chat_status, me, "CHAT_STATUS_FREE")
        /\ to_fd' = setL(to_fd, me, INVALID_FD)
        /\ pc[e] = "loop" /\ Inbox(e) # <<>> /\ Receive(e)
    BY <1>f DEF AcceptNoMoreExist, Received, At, setS, setL
  <2>2. my_socket[d] = me
    BY <1>1, <1>4, <1>5, <2>1
  <2> QED
    BY <1>2, <2>1, <2>2, ReceivingMoves
<1> QED
  BY <1>a, <1>b, <1>c, <1>d, <1>e, <1>f

(* A client that leaves changes the status of nobody but its link.         *)
LEMMA LeavingTouchesLink ==
  ASSUME TypeOK, ListInv, NEW e \in Clients, ClientClosed(e),
         NEW d \in Listed, d \in Listed',
         chat_status'[d] # chat_status[d] \/ to_fd'[d] # to_fd[d]
  PROVE  Moves(e) /\ Holds(e, d)
<1>1. /\ RegistryTypeOK
      /\ chat_status \in [Clients -> ChatStatus]
      /\ to_fd \in [Clients -> Fds \cup {INVALID_FD}]
      /\ "CHAT_STATUS_FREE" \in ChatStatus
  BY DEF TypeOK, RegistryTypeOK, ChatStatus
<1>2. PICK status, to :
        /\ e \in Listed /\ Listed' = Listed \ {e}
        /\ pc[e] = "loop" /\ pc' = [pc EXCEPT ![e] = "exited"]
        /\ status \in {chat_status,
             set_client_chatting_status_by_fd(chat_status, get_conn_fd_by_fd(my_socket[e]),
                                              "CHAT_STATUS_FREE")}
        /\ to \in {to_fd, set_to_fd_by_fd(to_fd, my_socket[e], INVALID_FD)}
        /\ chat_status' = [status EXCEPT ![e] = "CHAT_STATUS_FREE"]
        /\ to_fd' = [to EXCEPT ![e] = INVALID_FD]
  BY ClosedRemovesOwnNode
<1>3. d # e /\ my_socket[d] # my_socket[e] /\ get_conn_fd_by_fd(my_socket[e]) = to_fd[e]
  <2>1. d # e /\ my_socket[d] # my_socket[e]
    BY <1>2, ListedFacts
  <2>2. NodeByFd(my_socket[e]) = e /\ e # NoClient
    BY <1>2, ListedFacts, NoClientAssumption
  <2> QED
    BY <2>1, <2>2 DEF get_conn_fd_by_fd
<1>4. to[d] = to_fd[d]
  BY <1>1, <1>2, <1>3, ListedFacts
<1>5. to_fd'[d] = to[d] /\ chat_status'[d] = status[d]
  BY <1>2, <1>3
<1>6. status # chat_status
  BY <1>4, <1>5
<1>7. my_socket[d] = to_fd[e]
  BY <1>1, <1>2, <1>3, <1>4, <1>5, <1>6, ListedFacts
<1>8. Moves(e) /\ pc'[e] = "exited"
  BY <1>2, GoingMoves DEF GoTo
<1> QED
  BY <1>7, <1>8 DEF Holds

(* A chat ends, or changes hands, by its own thread or by a client that    *)
(* holds it: strangers, newcomers and main have no part in it.             *)
THEOREM ChatsEndForCause == Spec => ChatEndsForCause
<1> DEFINE ForCause == \A d \in Listed :
             (/\ d \in Listed' /\ chat_status[d] = "CHAT_STATUS_BUSY"
              /\ chat_status'[d] # "CHAT_STATUS_BUSY" \/ to_fd'[d] # to_fd[d])
             => Moves(d) \/ \E c \in Clients : Moves(c) /\ Holds(c, d)
<1>1. IInv /\ [Next]_vars => [ForCause]_vars
  <2> SUFFICES ASSUME IInv, Next, NEW d \in Listed, d \in Listed',
                      chat_status[d] = "CHAT_STATUS_BUSY",
                      chat_status'[d] # "CHAT_STATUS_BUSY" \/ to_fd'[d] # to_fd[d]
               PROVE  Moves(d) \/ \E c \in Clients : Moves(c) /\ Holds(c, d)
    OBVIOUS
  <2>1. /\ TypeOK /\ ListInv /\ d \in Clients
        /\ chat_status'[d] # chat_status[d] \/ to_fd'[d] # to_fd[d]
    BY ListedFacts DEF IInv
  <2>2. PICK e \in Clients : MainNext(e) \/ ThreadNext(e)
    BY <2>1 DEF Next, ServerNext, ClientNext, serverVars, nodeVars
  <2>3. CASE \/ RequestMark(e) \/ RequestLink(e) \/ AcceptPair(e) \/ Disconnect(e)
             \/ AcceptBusy(e) \/ DeclineFree(e) \/ AcceptNoMoreExist(e)
    BY <2>1, <2>3, HandlersTouchHeld
  <2>4. CASE ClientClosed(e)
    BY <2>1, <2>4, LeavingTouchesLink
  <2>5. CASE Register(e)
    <3>1. e # d
      <4>1. pc[e] = "start"
        BY <2>5 DEF Register, At
      <4> QED
        BY <2>1, <4>1 DEF ListInv, ServedIsListed, ServingPcs, HandlerPcs
    <3>2. chat_status'[d] = chat_status[d] /\ to_fd'[d] = to_fd[d]
      BY <2>1, <2>5, <3>1 DEF Register, add_client_node_to_queue, TypeOK, RegistryTypeOK
    <3> QED
      BY <2>1, <3>2
  <2>6. CASE MainNext(e) \/ RegisterFails(e) \/ Greeted(e) \/ GreetFails(e) \/ SetName(e)
               \/ GetClientList(e) \/ Request(e) \/ AcceptNoFd(e) \/ AcceptReads(e) \/ Tx(e)
               \/ Decline(e) \/ Flush(e) \/ AcceptReply(e)
    <3>1. UNCHANGED <<chat_status, to_fd>>
      BY <2>6 DEF MainNext, Accept, Admit, TurnAway, SpawnFails, RegisterFails, Greeted, GreetFails,
                  SetName, GetClientList, Request, AcceptNoFd, AcceptReads, Tx, Decline, Flush,
                  AcceptReply, nodeVars
    <3> QED
      BY <2>1, <3>1
  <2> QED
    BY <2>2, <2>3, <2>4, <2>5, <2>6 DEF ThreadNext
<1> QED
  BY <1>1, Invariance, PTL DEF Spec, ChatEndsForCause
=============================================================================
