-------------------------- MODULE ChatClientsProofs --------------------------
(***************************************************************************)
(* Theorems about what the clients of ChatSystem can rely on, for any      *)
(* number of them: that the names they choose are their own, that they     *)
(* stay listed for as long as they are in their chat loop, and that the    *)
(* answer to the greeting is the first message the server has from them.   *)
(* All rest on IInv of ChatSystemProofs.                                   *)
(***************************************************************************)
EXTENDS ChatSystemProofs

(* The names two listed clients may share.                                 *)
SharedNames == Range(DefaultName) \cup CutNames
-----------------------------------------------------------------------------
(* Names                                                                   *)

(* The search by name that ends in NAME_NOT_EXIST has seen every node.     *)
LEMMA FreeNameIsNobodys ==
  ASSUME RegistryTypeOK, NoClient \notin Clients, NEW n, ~ NameTaken(n)
  PROVE  \A d \in Listed : name[d] # n
<1>1. NodeByName(n) = NoClient
  BY DEF NameTaken, check_client_with_same_name_exist_or_not
<1>2. /\ clientList \in Seq(Clients) /\ DOMAIN clientList = 1..Len(clientList)
      /\ Len(clientList) \in Nat
  BY LenProperties DEF RegistryTypeOK
<1>3. PositionsOfName(n) = {}
  <2> SUFFICES ASSUME PositionsOfName(n) # {} PROVE FALSE
    OBVIOUS
  <2>1. PositionsOfName(n) \in SUBSET Nat
    BY <1>2 DEF PositionsOfName
  <2>2. Min(PositionsOfName(n)) \in DOMAIN clientList
    BY <2>1, MinIsLeast DEF PositionsOfName
  <2>3. clientList[Min(PositionsOfName(n))] \in Clients
    BY <1>2, <2>2, ElementOfSeq
  <2> QED
    BY <1>1, <2>3 DEF NodeByName
<1> QED
  BY <1>3 DEF PositionsOfName, Listed, Range

(* The actions that write a name or change the list are three.             *)
LEMMA NameSteps ==
  ASSUME Next
  PROVE  \/ UNCHANGED <<listVars, name>>
         \/ \E c \in Clients : Register(c) \/ SetName(c) \/ ClientClosed(c)
<1>1. ASSUME NEW c \in Clients, MainNext(c) PROVE UNCHANGED <<listVars, name>>
  BY <1>1 DEF MainNext, Accept, Admit, TurnAway, SpawnFails, nodeVars
<1>2. ASSUME NEW c \in Clients, ThreadNext(c), ~ Register(c), ~ SetName(c), ~ ClientClosed(c)
      PROVE  UNCHANGED <<listVars, name>>
  <2>1. CASE RegisterFails(c) \/ Greeted(c) \/ GreetFails(c) \/ GetClientList(c) \/ Request(c)
               \/ RequestMark(c) \/ RequestLink(c) \/ AcceptNoFd(c) \/ AcceptNoMoreExist(c)
    BY <2>1 DEF RegisterFails, Greeted, GreetFails, GetClientList, Request, RequestMark,
                RequestLink, AcceptNoFd, AcceptNoMoreExist, HandlerFrame, nodeVars
  <2>2. CASE AcceptReads(c) \/ AcceptBusy(c) \/ AcceptPair(c) \/ AcceptReply(c) \/ Tx(c)
               \/ Disconnect(c) \/ Decline(c) \/ DeclineFree(c) \/ Flush(c)
    BY <2>2 DEF AcceptReads, AcceptBusy, AcceptPair, AcceptReply, Tx, Disconnect, Decline,
                DeclineFree, Flush, HandlerFrame, nodeVars
  <2> QED
    BY <1>2, <2>1, <2>2 DEF ThreadNext
<1>3. CASE UNCHANGED serverVars
  BY <1>3 DEF serverVars, nodeVars
<1> QED
  BY <1>1, <1>2, <1>3 DEF Next, ServerNext

(* A step keeps ChosenNamesDistinct: a new name is a default name, or was  *)
(* searched for in the section that stores it, or was cut while stored.    *)
LEMMA NextKeepsNames ==
  IInv /\ ChosenNamesDistinct /\ [Next]_vars => ChosenNamesDistinct'
<1> SUFFICES ASSUME IInv, ChosenNamesDistinct, Next PROVE ChosenNamesDistinct'
  BY DEF vars, serverVars, nodeVars, listVars, ChosenNamesDistinct, Listed
<1>0. TypeOK /\ ListInv /\ RegistryTypeOK /\ SocketsTypeOK /\ NoClient \notin Clients
  BY NoClientAssumption DEF IInv, TypeOK
<1>1. CASE UNCHANGED <<listVars, name>>
  BY <1>1 DEF listVars, ChosenNamesDistinct, Listed
<1>2. ASSUME NEW c \in Clients, Register(c) PROVE ChosenNamesDistinct'
  <2>1. Listed' = Listed \cup {c} /\ c \notin Listed
    <3>1. pc[c] = "start" /\ ~ QueueFull /\ add_client_node_to_queue(c) /\ UNCHANGED <<my_socket, fdOwner>>
      BY <1>2 DEF Register, At, sockVars
    <3> QED
      BY <1>0, <3>1, AddKeepsList
      DEF ListInv, ServedIsListed, ThreadHoldsFd, ServingPcs, HandlerPcs
  <2>2. name'[c] \in SharedNames
    <3>1. my_socket[c] \in Fds
      BY <1>0, <1>2 DEF Register, At, ListInv, ThreadHoldsFd
    <3> QED
      BY <1>0, <1>2, <3>1, NamesAssumption
      DEF Register, add_client_node_to_queue, RegistryTypeOK, SharedNames, Range
  <2>3. \A d \in Listed : name'[d] = name[d]
    BY <1>0, <1>2, <2>1, ListedFacts DEF Register, add_client_node_to_queue, RegistryTypeOK
  <2> QED
    BY <2>1, <2>2, <2>3 DEF ChosenNamesDistinct, SharedNames
<1>3. ASSUME NEW c \in Clients, SetName(c) PROVE ChosenNamesDistinct'
  <2>1. Listed' = Listed
    BY <1>3 DEF SetName, HandlerFrame, listVars, Listed
  <2>2. CASE UNCHANGED name
    BY <2>1, <2>2 DEF ChosenNamesDistinct
  <2>3. CASE ~ NameTaken(Buffer(c))
    <3> DEFINE n == Buffer(c)
    <3>1. c \in Listed /\ NodeByFd(my_socket[c]) = c
      BY <1>0, <1>3, ListedFacts DEF SetName, Received, At, ServingPcs
    <3>2. name' = [name EXCEPT ![c] = Stored[n]]
      BY <1>0, <1>3, <2>3, <3>1 DEF SetName, set_name_of_client_by_client_fd
    <3>3. n \in Names
      BY <1>0, <1>3, BufferTyped DEF SetName, Received
    <3>4. \A d \in Listed : name[d] # n
      BY <1>0, <2>3, FreeNameIsNobodys
    <3>5. Stored[n] = n \/ Stored[n] \in SharedNames
      BY <3>3 DEF CutNames, SharedNames
    <3>6. \A d \in Listed : name'[d] = IF d = c THEN Stored[n] ELSE name[d]
      BY <1>0, <3>1, <3>2, ListedFacts DEF RegistryTypeOK
    <3> HIDE DEF n
    <3> QED
      BY <2>1, <3>1, <3>4, <3>5, <3>6 DEF ChosenNamesDistinct, SharedNames
  <2> QED
    BY <1>3, <2>2, <2>3 DEF SetName
<1>4. ASSUME NEW c \in Clients, ClientClosed(c) PROVE ChosenNamesDistinct'
  <2>1. Listed' = Listed \ {c} /\ name' = [name EXCEPT ![c] = UNDEF_NAME]
    BY <1>0, <1>4, ClosedRemovesOwnNode
  <2>2. \A d \in Listed' : d \in Listed /\ name'[d] = name[d]
    BY <1>0, <2>1, ListedFacts DEF RegistryTypeOK
  <2> QED
    BY <2>2 DEF ChosenNamesDistinct
<1> QED
  BY <1>1, <1>2, <1>3, <1>4, NameSteps

(* A name a user has chosen is held by one listed client at a time, unless *)
(* it was cut when stored or is some descriptor's default name: threads    *)
(* set and look up names in any interleaving.                              *)
THEOREM ChosenNamesAreDistinct == Spec => []ChosenNamesDistinct
<1>1. Init => ChosenNamesDistinct
  <2>1. Init => Listed = {}
    BY DEF Init, RegistryInit, Listed, Range
  <2> QED
    BY <2>1 DEF ChosenNamesDistinct
<1> QED
  BY <1>1, NextKeepsNames, Invariance, PTL DEF Spec
-----------------------------------------------------------------------------
(* Clients that are on                                                     *)

(* MSG_CONN_ESTABLISH_REQ is on its way to client c.                       *)
IsGreeting(m) == m.type = "MSG_CONN_ESTABLISH_REQ"
GreetingSent(c) == \E i \in DOMAIN toClient[c] : IsGreeting(toClient[c][i])

(* A client in its handshake or its chat loop has its socket open, and     *)
(* nothing waits at a socket that is not.                                  *)
PeerInv ==
  \A c \in Clients :
    /\ phase[c] \in {"connecting", "on"} => peer[c] = "open"
    /\ peer[c] # "open" => toClient[c] = <<>>

(* The greeting a thread has still to send is its own client's.            *)
GreetingDueInv ==
  \A c \in Clients : \A i \in DOMAIN out[c] :
    IsGreeting(out[c][i].msg) => pc[c] = "greet" /\ out[c][i].fd = my_socket[c]

(* Who has been greeted is listed.                                         *)
GreetedIsListed ==
  \A c \in Clients : phase[c] = "on" \/ GreetingSent(c) => c \in Listed

OnlineInv == PeerInv /\ GreetingDueInv /\ GreetedIsListed

(* A send opens and closes no client's socket, and adds to one stream.     *)
LEMMA SendReaches ==
  ASSUME SocketsTypeOK, NEW f, NEW m \in Messages, Send(f, m), NEW c \in Clients
  PROVE  /\ peer'[c] = "open" <=> peer[c] = "open"
         /\ \/ toClient'[c] = toClient[c]
            \/ /\ c = fdOwner[f] /\ peer[c] = "open"
               /\ toClient'[c] = Append(toClient[c], m)
<1> DEFINE d == fdOwner[f]
<1>1. CASE UNCHANGED sendVars
  BY <1>1 DEF sendVars
<1>2. CASE peer[d] = "open" /\ toClient' = [toClient EXCEPT ![d] = Append(@, m)] /\ UNCHANGED <<peer, serverUp>>
  BY <1>2 DEF SocketsTypeOK
<1>3. CASE peer[d] = "closed" /\ peer' = [peer EXCEPT ![d] = "reset"] /\ UNCHANGED <<toClient, serverUp>>
  BY <1>3 DEF SocketsTypeOK
<1>4. CASE UNCHANGED <<peer, toClient>>
  BY <1>4
<1> QED
  BY <1>1, <1>2, <1>3, <1>4 DEF Send

(* A greeting at a client was there before or has just been sent to it.    *)
LEMMA SendGreets ==
  ASSUME SocketsTypeOK, NEW f, NEW m \in Messages, Send(f, m),
         NEW c \in Clients, GreetingSent(c)'
  PROVE  GreetingSent(c) \/ (c = fdOwner[f] /\ IsGreeting(m))
<1>1. CASE toClient'[c] = toClient[c]
  BY <1>1 DEF GreetingSent
<1>2. CASE c = fdOwner[f] /\ toClient'[c] = Append(toClient[c], m)
  <2>1. toClient[c] \in Seq(Messages)
    BY DEF SocketsTypeOK
  <2>2. PICK i \in DOMAIN toClient'[c] : IsGreeting(toClient'[c][i])
    BY DEF GreetingSent
  <2>3. \/ i \in DOMAIN toClient[c] /\ toClient'[c][i] = toClient[c][i]
        \/ toClient'[c][i] = m
    BY <1>2, <2>1, <2>2, AppendProperties, LenProperties
  <2> QED
    BY <1>2, <2>2, <2>3 DEF GreetingSent
<1> QED
  BY <1>1, <1>2, SendReaches

(* So a send keeps the invariant as long as a greeting goes to a listed    *)
(* client.                                                                 *)
LEMMA SendKeepsOnline ==
  ASSUME SocketsTypeOK, PeerInv, GreetedIsListed, NEW f, NEW m \in Messages, Send(f, m),
         UNCHANGED phase, Listed \subseteq Listed',
         IsGreeting(m) /\ fdOwner[f] \in Clients => fdOwner[f] \in Listed
  PROVE  PeerInv' /\ GreetedIsListed'
<1>1. PeerInv'
  BY SendReaches DEF PeerInv
<1>2. \A c \in Clients : GreetingSent(c)' => GreetingSent(c) \/ c \in Listed
  BY SendGreets
<1> QED
  BY <1>1, <1>2 DEF GreetedIsListed

(* A step of the server that sends nothing keeps it too, unless it removes *)
(* a client that is on or about to be.                                     *)
LEMMA SilentKeepsOnline ==
  ASSUME PeerInv, GreetedIsListed, UNCHANGED <<peer, toClient, phase>>,
         \A c \in Listed : phase[c] = "on" \/ GreetingSent(c) => c \in Listed'
  PROVE  PeerInv' /\ GreetedIsListed'
BY DEF PeerInv, GreetedIsListed, GreetingSent

(* What thread c leaves to be sent, after a step that is not Register or a *)
(* send: no greeting.                                                      *)
LEMMA NoGreetingDue ==
  ASSUME TypeOK, NEW c \in Clients, ThreadNext(c), ~ Register(c), ~ Flush(c)
  PROVE  \A i \in DOMAIN out'[c] : ~ IsGreeting(out'[c][i].msg)
<1>1. ServerTypeOK /\ RegistryTypeOK
  BY DEF TypeOK
<1>2. out[c] = <<>>
  <2>1. CASE RegisterFails(c) \/ Greeted(c) \/ GreetFails(c) \/ SetName(c) \/ GetClientList(c)
               \/ Request(c) \/ RequestMark(c) \/ RequestLink(c) \/ AcceptNoFd(c)
               \/ AcceptNoMoreExist(c)
    BY <2>1 DEF RegisterFails, Greeted, GreetFails, SetName, GetClientList, Request, RequestMark,
                RequestLink, AcceptNoFd, AcceptNoMoreExist, Received, At
  <2>2. CASE AcceptReads(c) \/ AcceptBusy(c) \/ AcceptPair(c) \/ AcceptReply(c) \/ Tx(c)
               \/ Disconnect(c) \/ Decline(c) \/ DeclineFree(c) \/ ClientClosed(c)
    BY <2>2 DEF AcceptReads, AcceptBusy, AcceptPair, AcceptReply, Tx, Disconnect, Decline,
                DeclineFree, ClientClosed, Received, At
  <2> QED
    BY <2>1, <2>2 DEF ThreadNext
<1> DEFINE Quiet == \A i \in DOMAIN out'[c] : ~ IsGreeting(out'[c][i].msg)
           Other == MsgTypes \ {"MSG_CONN_ESTABLISH_REQ"}
<1>3. out' = out => Quiet
  BY <1>2
<1>4. /\ Emit(c, <<>>) => Quiet
      /\ \A f, a : \A t \in Other : Emit(c, <<To(f, t, a)>>) => Quiet
      /\ \A f, a, g, b : \A t, u \in Other : Emit(c, <<To(f, t, a), To(g, u, b)>>) => Quiet
  <2>1. \A s : Emit(c, s) => out'[c] = s
    BY <1>1 DEF Emit, ServerTypeOK
  <2>2. \A f, a : \A t \in Other : ~ IsGreeting(To(f, t, a).msg)
    BY DEF To, Msg, IsGreeting
  <2>3. \A x, y : DOMAIN <<x>> = {1} /\ DOMAIN <<x, y>> = {1, 2} /\ DOMAIN <<>> = {}
    OBVIOUS
  <2> HIDE DEF Other
  <2> QED
    BY <2>1, <2>2, <2>3
<1>5. \A a : \A t \in Other : Reply(c, t, a) => Quiet
  BY <1>4 DEF Reply
<1>6. \A n : Verdict(c, n) \in Other
  <2> TAKE n
  <2>1. Verdict(c, n) \in MsgTypes
    BY <1>1, VerdictTyped
  <2>2. CASE check_client_with_same_name_exist_or_not(n) # "NAME_EXISTS"
    BY <2>1, <2>2 DEF Verdict
  <2>3. CASE check_client_with_same_name_exist_or_not(n) = "NAME_EXISTS"
    <3>1. NodeByName(n) # NoClient
      BY <2>3 DEF check_client_with_same_name_exist_or_not
    <3>2. get_client_chatting_status_by_name(n) \in ChatStatus
      BY <1>1, <3>1, NodeByNameFinds DEF get_client_chatting_status_by_name, RegistryTypeOK
    <3>3. StatusAnswer[get_client_chatting_status_by_name(n)] # "MSG_CONN_ESTABLISH_REQ"
      BY <3>2 DEF StatusAnswer, ChatStatus
    <3> QED
      BY <2>1, <2>3, <3>3 DEF Verdict
  <2> QED
    BY <2>2, <2>3
<1>7. {"MSG_SET_NAME_ACK_TYPE", "MSG_SET_NAME_NACK_TYPE", "MSG_GET_CLIENT_LIST_TYPE",
       "MSG_CLIENT_NOT_EXIST", "MSG_CONNECTION_REQ_RX", "MSG_CLIENT_FREE",
       "MSG_CLIENT_NO_MORE_EXIST", "MSG_CLIENT_ACCEPT_CONNECTION_ACK", "MSG_CLIENT_NO_MORE_FREE",
       "MSG_CLIENT_CHAT_READY", "MSG_CLIENT_RX_TYPE", "MSG_CLIENT_DISCONNECTED",
       "MSG_CLIENT_DECLINE_CONNECTION_ACK"} \subseteq Other
  BY DEF MsgTypes
<1> SUFFICES Quiet
  OBVIOUS
<1> HIDE DEF Quiet, Other
<1>a. CASE RegisterFails(c) \/ Greeted(c) \/ GreetFails(c) \/ AcceptNoFd(c) \/ AcceptPair(c)
             \/ DeclineFree(c) \/ ClientClosed(c)
  BY <1>3, <1>a DEF RegisterFails, Greeted, GreetFails, AcceptNoFd, AcceptPair, DeclineFree,
                    ClientClosed
<1>b. CASE SetName(c) \/ GetClientList(c)
  BY <1>3, <1>4, <1>5, <1>7, <1>b DEF SetName, GetClientList
<1>c. CASE Request(c)
  BY <1>3, <1>5, <1>6, <1>c DEF Request
<1>d. CASE RequestMark(c)
  BY <1>3, <1>5, <1>7, <1>d DEF RequestMark
<1>e. CASE RequestLink(c)
  BY <1>4, <1>7, <1>e DEF RequestLink
<1>f. CASE AcceptNoMoreExist(c) \/ AcceptBusy(c)
  BY <1>5, <1>7, <1>f DEF AcceptNoMoreExist, AcceptBusy
<1>g. CASE AcceptReads(c)
  BY <1>3, <1>5, <1>7, <1>g DEF AcceptReads
<1>h. CASE AcceptReply(c)
  BY <1>4, <1>7, <1>h DEF AcceptReply
<1>i. CASE Tx(c)
  BY <1>3, <1>4, <1>7, <1>i DEF Tx
<1>j. CASE Disconnect(c)
  BY <1>4, <1>7, <1>j DEF Disconnect
<1>k. CASE Decline(c)
  BY <1>3, <1>4, <1>7, <1>k DEF Decline
<1> QED
  BY <1>a, <1>b, <1>c, <1>d, <1>e, <1>f, <1>g, <1>h, <1>i, <1>j, <1>k DEF ThreadNext

(* A thread that ends finds its client's socket closed: the client is not  *)
(* on and no greeting waits for it, so its node may go.                    *)
LEMMA ClosedKeepsOnline ==
  ASSUME TypeOK, ListInv, PeerInv, GreetedIsListed, NEW c \in Clients, ClientClosed(c),
         UNCHANGED phase
  PROVE  PeerInv' /\ GreetedIsListed'
<1>1. SocketsTypeOK /\ RegistryTypeOK /\ NoClient \notin Clients
  BY NoClientAssumption DEF TypeOK
<1>2. Listed' = Listed \ {c}
  BY ClosedRemovesOwnNode
<1>3. peer[c] # "open"
  <2>1. fdOwner[my_socket[c]] = c
    BY DEF ClientClosed, At, ListInv, ThreadHoldsFd, ServingPcs
  <2> QED
    BY <2>1 DEF ClientClosed, PeerGone, Conn
<1>4. phase[c] # "on" /\ toClient[c] = <<>>
  BY <1>3 DEF PeerInv
<1>5. ~ GreetingSent(c)
  BY <1>4 DEF GreetingSent
<1>6. CASE UNCHANGED sendVars
  <2>1. \A d \in Listed : phase[d] = "on" \/ GreetingSent(d) => d \in Listed'
    BY <1>2, <1>4, <1>5
  <2> QED
    BY <1>6, <2>1, SilentKeepsOnline DEF sendVars
<1>7. ASSUME NEW f, NEW a, Send(f, Msg("MSG_CLIENT_TERMINATION", a)), a \in Args
      PROVE  PeerInv' /\ GreetedIsListed'
  <2> DEFINE m == Msg("MSG_CLIENT_TERMINATION", a)
  <2>1. m \in Messages /\ ~ IsGreeting(m)
    BY <1>7, MessagesTyped DEF MsgTypes, Msg, IsGreeting
  <2> HIDE DEF m
  <2>2. Send(f, m)
    BY <1>7 DEF m
  <2>3. PeerInv'
    BY <1>1, <2>1, <2>2, SendReaches DEF PeerInv
  <2>4. \A d \in Clients : GreetingSent(d)' => GreetingSent(d)
    BY <1>1, <2>1, <2>2, SendGreets
  <2> QED
    BY <1>2, <1>4, <1>5, <2>3, <2>4 DEF GreetedIsListed
<1>8. get_client_name_by_fd(my_socket[c]) \in Args
  BY <1>1, LookupsTyped, MessagesTyped
<1> QED
  BY <1>6, <1>7, <1>8 DEF ClientClosed

(* Every step of the server keeps who is on listed.                        *)
LEMMA ServerKeepsGreeted ==
  ASSUME IInv, OnlineInv, NEW c \in Clients, MainNext(c) \/ ThreadNext(c), UNCHANGED phase
  PROVE  PeerInv' /\ GreetedIsListed'
<1>1. /\ TypeOK /\ ListInv /\ SocketsTypeOK /\ ServerTypeOK /\ PeerInv /\ GreetedIsListed
      /\ UNCHANGED listVars => Listed' = Listed
  BY DEF IInv, TypeOK, OnlineInv, listVars, Listed
<1>2. CASE UNCHANGED <<peer, toClient, listVars>>
  BY <1>1, <1>2, SilentKeepsOnline
<1>3. CASE TurnAway(c) \/ RegisterFails(c)
  <2>1. Send(my_socket[c], Msg("MSG_MAX_CLIENT_REACHED", NoArg)) /\ UNCHANGED listVars
    BY <1>3 DEF TurnAway, RegisterFails
  <2>2. /\ Msg("MSG_MAX_CLIENT_REACHED", NoArg) \in Messages
        /\ ~ IsGreeting(Msg("MSG_MAX_CLIENT_REACHED", NoArg))
    BY MessagesTyped DEF MsgTypes, Msg, IsGreeting
  <2> QED
    BY <1>1, <2>1, <2>2, SendKeepsOnline
<1>4. CASE Register(c)
  <2>1. UNCHANGED <<peer, toClient>>
    BY <1>4 DEF Register, sockVars
  <2>2. Listed \subseteq Listed'
    <3>1. /\ pc[c] = "start" /\ ~ QueueFull /\ add_client_node_to_queue(c)
          /\ UNCHANGED <<my_socket, fdOwner>>
      BY <1>4 DEF Register, At, sockVars
    <3> QED
      BY <1>1, <3>1, AddKeepsList
      DEF TypeOK, ListInv, ServedIsListed, ThreadHoldsFd, ServingPcs, HandlerPcs
  <2> QED
    BY <1>1, <2>1, <2>2, SilentKeepsOnline
<1>5. CASE Flush(c)
  <2> DEFINE s == Head(out[c])
  <2>1. s \in Sends /\ s = out[c][1] /\ 1 \in DOMAIN out[c]
    <3>1. out[c] \in Seq(Sends) /\ out[c] # <<>>
      BY <1>1, <1>5 DEF Flush, ServerTypeOK
    <3> QED
      BY <3>1, HeadTailProperties, LenProperties
  <2>2. Send(s.fd, s.msg) /\ s.msg \in Messages /\ UNCHANGED listVars
    BY <1>5, <2>1 DEF Flush, Sends
  <2>3. IsGreeting(s.msg) => fdOwner[s.fd] = c /\ c \in Listed
    <3>1. IsGreeting(s.msg) => pc[c] = "greet" /\ s.fd = my_socket[c]
      BY <2>1 DEF OnlineInv, GreetingDueInv
    <3> QED
      BY <1>1, <3>1 DEF ListInv, ThreadHoldsFd, ServedIsListed, ServingPcs
  <2> HIDE DEF s
  <2> QED
    BY <1>1, <2>2, <2>3, SendKeepsOnline
<1>6. CASE ClientClosed(c)
  BY <1>1, <1>6, ClosedKeepsOnline
<1>7. CASE MainNext(c) /\ ~ TurnAway(c)
  BY <1>2, <1>7 DEF MainNext, Accept, Admit, SpawnFails, sendVars, sockVars
<1>8. CASE Greeted(c) \/ GreetFails(c) \/ SetName(c) \/ GetClientList(c) \/ Request(c)
             \/ RequestMark(c) \/ RequestLink(c) \/ AcceptNoFd(c) \/ AcceptNoMoreExist(c)
  BY <1>2, <1>8 DEF Greeted, GreetFails, SetName, GetClientList, Request, RequestMark,
                    RequestLink, AcceptNoFd, AcceptNoMoreExist, HandlerFrame, sendVars, sockVars
<1>9. CASE AcceptReads(c) \/ AcceptBusy(c) \/ AcceptPair(c) \/ AcceptReply(c) \/ Tx(c)
             \/ Disconnect(c) \/ Decline(c) \/ DeclineFree(c)
  BY <1>2, <1>9 DEF AcceptReads, AcceptBusy, AcceptPair, AcceptReply, Tx, Disconnect, Decline,
                    DeclineFree, HandlerFrame, sendVars
<1> QED
  BY <1>3, <1>4, <1>5, <1>6, <1>7, <1>8, <1>9 DEF ThreadNext

(* A step of thread c leaves the sends, control points and descriptors of  *)
(* the others alone.                                                       *)
LEMMA OthersStay ==
  ASSUME TypeOK, ListInv, NEW c \in Clients, MainNext(c) \/ ThreadNext(c),
         NEW d \in Clients, d # c
  PROVE  out'[d] = out[d] /\ pc'[d] = pc[d] /\ my_socket'[d] = my_socket[d]
<1> USE DEF GoTo, Emit, Reply, HandlerFrame
<1>0. ServerTypeOK /\ RegistryTypeOK
  BY DEF TypeOK
<1>1. CASE MainNext(c)
  BY <1>0, <1>1 DEF MainNext, Accept, Admit, TurnAway, SpawnFails, ServerTypeOK, RegistryTypeOK
<1>2. CASE Register(c) \/ RegisterFails(c) \/ Greeted(c) \/ GreetFails(c) \/ SetName(c)
             \/ GetClientList(c) \/ Request(c)
  BY <1>0, <1>2 DEF Register, RegisterFails, Greeted, GreetFails, SetName, GetClientList, Request,
                    ServerTypeOK
<1>3. CASE RequestMark(c) \/ RequestLink(c) \/ AcceptNoFd(c) \/ AcceptNoMoreExist(c)
             \/ AcceptReads(c) \/ AcceptBusy(c) \/ AcceptPair(c)
  BY <1>0, <1>3 DEF RequestMark, RequestLink, AcceptNoFd, AcceptNoMoreExist, AcceptReads,
                    AcceptBusy, AcceptPair, ServerTypeOK
<1>4. CASE AcceptReply(c) \/ Tx(c) \/ Disconnect(c) \/ Decline(c) \/ DeclineFree(c) \/ Flush(c)
  BY <1>0, <1>4 DEF AcceptReply, Tx, Disconnect, Decline, DeclineFree, Flush, ServerTypeOK
<1>5. CASE ClientClosed(c)
  <2>1. /\ my_socket' = [my_socket EXCEPT ![c] = INVALID_FD]
        /\ pc' = [pc EXCEPT ![c] = "exited"]
    BY <1>5, ClosedRemovesOwnNode
  <2> QED
    BY <1>0, <1>5, <2>1 DEF ClientClosed, ServerTypeOK, RegistryTypeOK
<1> QED
  BY <1>1, <1>2, <1>3, <1>4, <1>5 DEF ThreadNext

(* A greeting that is due stays the thread's own until it is sent.         *)
LEMMA ServerKeepsGreetingDue ==
  ASSUME IInv, GreetingDueInv, NEW c \in Clients, MainNext(c) \/ ThreadNext(c)
  PROVE  GreetingDueInv'
<1>0. TypeOK /\ ListInv /\ ServerTypeOK
  BY DEF IInv, TypeOK
<1> DEFINE Due(d) == \A i \in DOMAIN out[d] :
                       IsGreeting(out[d][i].msg) => pc[d] = "greet" /\ out[d][i].fd = my_socket[d]
<1>1. \A d \in Clients : d # c => Due(d)'
  BY <1>0, OthersStay DEF GreetingDueInv
<1>2. Due(c)'
  <2>1. CASE MainNext(c)
    <3>1. \A i \in DOMAIN out[c] : ~ IsGreeting(out[c][i].msg)
      <4>1. pc[c] # "greet"
        BY <2>1 DEF MainNext, Accept, Admit, TurnAway, SpawnFails, At
      <4> QED
        BY <4>1 DEF GreetingDueInv
    <3>2. UNCHANGED out
      BY <2>1 DEF MainNext, Accept, Admit, TurnAway, SpawnFails
    <3> QED
      BY <3>1, <3>2
  <2>2. CASE Register(c)
    <3>1. /\ out'[c] = <<To(my_socket[c], "MSG_CONN_ESTABLISH_REQ", NoArg)>>
          /\ pc'[c] = "greet" /\ UNCHANGED my_socket
      BY <1>0, <2>2 DEF Register, Emit, GoTo, ServerTypeOK
    <3>2. DOMAIN out'[c] = {1}
      BY <3>1
    <3> QED
      BY <3>1, <3>2 DEF To
  <2>3. CASE Flush(c)
    <3>1. out[c] \in Seq(Sends) /\ out[c] # <<>>
      BY <1>0, <2>3 DEF Flush, ServerTypeOK
    <3>2. out'[c] = Tail(out[c]) /\ UNCHANGED <<pc, my_socket>>
      BY <1>0, <2>3 DEF Flush, Emit, ServerTypeOK
    <3>3. \A i \in DOMAIN Tail(out[c]) : i + 1 \in DOMAIN out[c] /\ Tail(out[c])[i] = out[c][i + 1]
      BY <3>1, HeadTailProperties, LenProperties
    <3> QED
      BY <3>2, <3>3 DEF GreetingDueInv
  <2>4. CASE ThreadNext(c) /\ ~ Register(c) /\ ~ Flush(c)
    BY <1>0, <2>4, NoGreetingDue
  <2> QED
    BY <2>1, <2>2, <2>3, <2>4
<1> QED
  BY <1>1, <1>2 DEF GreetingDueInv

(* A client comes on only with a greeting in its hand, and leaves by       *)
(* closing its socket.                                                     *)
LEMMA ClientKeepsOnline ==
  ASSUME TypeOK, PeerInv, GreetedIsListed, NEW c \in Clients, ProcessNext(c) \/ UserNext(c),
         UNCHANGED listVars
  PROVE  PeerInv' /\ GreetedIsListed'
<1>1. /\ peer \in [Clients -> PeerStates] /\ phase \in [Clients -> Phases]
      /\ toClient \in [Clients -> Seq(Messages)] /\ Listed' = Listed
  BY DEF TypeOK, SocketsTypeOK, ClientTypeOK, listVars, Listed
<1>2. CASE UNCHANGED <<peer, toClient, phase>>
  BY <1>1, <1>2, SilentKeepsOnline
<1>3. CASE Connect(c)
  BY <1>1, <1>3 DEF Connect, PeerInv, GreetedIsListed, GreetingSent, flagVars
<1>4. ASSUME NEW unread, Exit(c, unread) PROVE PeerInv' /\ GreetedIsListed'
  <2>1. /\ phase' = [phase EXCEPT ![c] = "gone"] /\ toClient' = [toClient EXCEPT ![c] = <<>>]
        /\ \A d \in Clients : d # c => peer'[d] = peer[d]
    BY <1>1, <1>4 DEF Exit, CloseByClient
  <2> QED
    BY <1>1, <2>1 DEF PeerInv, GreetedIsListed, GreetingSent
<1>5. ASSUME phase[c] \in {"connecting", "on"}, toClient[c] # <<>>,
             toClient' = [toClient EXCEPT ![c] = Tail(@)], UNCHANGED peer,
             \/ UNCHANGED phase
             \/ IsGreeting(Head(toClient[c])) /\ phase' = [phase EXCEPT ![c] = "on"]
      PROVE  PeerInv' /\ GreetedIsListed'
  <2>1. toClient[c] \in Seq(Messages)
    BY <1>1
  <2>2. /\ Head(toClient[c]) = toClient[c][1] /\ 1 \in DOMAIN toClient[c]
        /\ \A i \in DOMAIN Tail(toClient[c]) :
             i + 1 \in DOMAIN toClient[c] /\ Tail(toClient[c])[i] = toClient[c][i + 1]
    BY <1>5, <2>1, HeadTailProperties, LenProperties
  <2>3. \A d \in Clients : GreetingSent(d)' => GreetingSent(d)
    BY <1>1, <1>5, <2>2 DEF GreetingSent
  <2>4. IsGreeting(Head(toClient[c])) => GreetingSent(c)
    BY <2>2 DEF GreetingSent
  <2>5. GreetedIsListed'
    BY <1>1, <1>5, <2>3, <2>4 DEF GreetedIsListed
  <2>6. PeerInv'
    BY <1>1, <1>5 DEF PeerInv
  <2> QED
    BY <2>5, <2>6
<1>6. CASE Handshake(c)
  BY <1>4, <1>5, <1>6 DEF Handshake, IsGreeting
<1>7. CASE HandshakeTimeout(c) \/ Quit(c)
  BY <1>4, <1>7 DEF HandshakeTimeout, Quit
<1>8. CASE Rx(c)
  BY <1>5, <1>8 DEF Rx
<1>9. CASE TypeChat(c) \/ TypeDisconnect(c) \/ TypeAnswer(c) \/ TypeGetList(c)
             \/ (\E n : TypeSetName(c, n) \/ TypeConnect(c, n))
  BY <1>2, <1>9 DEF TypeChat, TypeDisconnect, TypeAnswer, TypeGetList, TypeSetName, TypeConnect,
                    Types
<1> QED
  BY <1>3, <1>6, <1>7, <1>8, <1>9 DEF ProcessNext, UserNext

(* OnlineInv is inductive, given IInv.                                     *)
LEMMA NextKeepsOnline == IInv /\ OnlineInv /\ [Next]_vars => OnlineInv'
<1> SUFFICES ASSUME IInv, OnlineInv, [Next]_vars PROVE OnlineInv'
  OBVIOUS
<1>1. ASSUME NEW c \in Clients, MainNext(c) \/ ThreadNext(c), UNCHANGED clientVars
      PROVE  OnlineInv'
  <2>1. PeerInv' /\ GreetedIsListed'
    BY <1>1, ServerKeepsGreeted DEF clientVars
  <2>2. GreetingDueInv'
    BY <1>1, ServerKeepsGreetingDue DEF OnlineInv
  <2> QED
    BY <2>1, <2>2 DEF OnlineInv
<1>2. ASSUME NEW c \in Clients, ProcessNext(c) \/ UserNext(c), UNCHANGED serverVars
      PROVE  OnlineInv'
  <2>1. UNCHANGED <<listVars, pc, out, my_socket>>
    BY <1>2 DEF serverVars, threadVars
  <2>2. PeerInv' /\ GreetedIsListed'
    BY <1>2, <2>1, ClientKeepsOnline DEF IInv, OnlineInv
  <2> QED
    BY <2>1, <2>2 DEF OnlineInv, GreetingDueInv
<1>3. CASE UNCHANGED vars
  BY <1>3 DEF vars, sockVars, serverVars, listVars, threadVars, clientVars, Listed, OnlineInv,
              PeerInv, GreetingDueInv, GreetedIsListed, GreetingSent
<1> QED
  BY <1>1, <1>2, <1>3 DEF Next, ServerNext, ClientNext

(* A client that has passed the handshake stays on the list until it       *)
(* leaves, whatever the other threads do: its greeting was sent after its  *)
(* node was added, and only its own thread, having found its socket        *)
(* closed, takes the node away.                                            *)
THEOREM OnlineAreListed == Spec => []OnlineIsListed
<1>1. Init => OnlineInv
  BY DEF Init, SocketsInit, ServerInit, ClientInit, OnlineInv, PeerInv, GreetingDueInv,
         GreetedIsListed, GreetingSent
<1>2. OnlineInv => OnlineIsListed
  BY DEF OnlineInv, GreetedIsListed, OnlineIsListed
<1> QED
  BY <1>1, <1>2, NextKeepsOnline, Invariance, PTL DEF Spec
-----------------------------------------------------------------------------
(* The greeting's answer                                                   *)

Entering == {"none", "accepted", "start", "greet"}
Handling == {"loop"} \cup HandlerPcs

IsAnswer(m) == m.type = "MSG_CONN_ESTABLISH_ACK"

(* What client c has sent and its thread has not received yet: nothing     *)
(* before the handshake, then the answer and whatever follows it until the *)
(* thread receives the answer, then no answer any more.                    *)
AnswerOf(c) ==
  /\ phase[c] \in {"off", "connecting"} => toServer[c] = <<>> /\ pc[c] \notin Handling
  /\ phase[c] = "on" /\ serverUp /\ pc[c] \in Entering => toServer[c] # <<>>
  /\ \A i \in DOMAIN toServer[c] :
       /\ pc[c] \in Entering => (IsAnswer(toServer[c][i]) <=> i = 1)
       /\ pc[c] \in Handling => ~ IsAnswer(toServer[c][i])
AnswerInv == \A c \in Clients : AnswerOf(c)

(* A thread moves along its way in, or along its handlers, or ends, and    *)
(* takes nothing off its stream; or it receives a message of its client.   *)
MovesOn(c) ==
  /\ toServer'[c] = toServer[c]
  /\ \/ pc'[c] = pc[c]
     \/ pc[c] \in Entering /\ pc'[c] \in Entering
     \/ pc[c] \in Handling /\ pc'[c] \in Handling
     \/ pc'[c] \in {"refused", "exited"}
TakesMessage(c) ==
  /\ toServer[c] # <<>> /\ toServer'[c] = Tail(toServer[c])
  /\ pc[c] \in {"greet"} \cup Handling /\ pc'[c] \in Handling

(* Nobody but its own thread takes a client's message.                     *)
LEMMA OwnMessage ==
  ASSUME TypeOK, ListInv, NEW c \in Clients, pc[c] \in {"greet", "loop"},
         Inbox(c) # <<>>, Receive(c)
  PROVE  /\ toServer[c] # <<>> /\ toServer'[c] = Tail(toServer[c])
         /\ \A d \in Clients : d # c => toServer'[d] = toServer[d]
<1>1. fdOwner[my_socket[c]] = c
  BY DEF ListInv, ThreadHoldsFd, ServingPcs
<1>2. toServer[c] # <<>> /\ toServer' = [toServer EXCEPT ![c] = Tail(@)]
  BY <1>1 DEF Inbox, Conn, Receive
<1> QED
  BY <1>2 DEF TypeOK, SocketsTypeOK

(* Every step of main and of a thread is one of these.                     *)
LEMMA ServerTakesOwn ==
  ASSUME TypeOK, ListInv, NEW c \in Clients, MainNext(c) \/ ThreadNext(c)
  PROVE  /\ MovesOn(c) \/ TakesMessage(c)
         /\ \A d \in Clients : d # c => toServer'[d] = toServer[d]
         /\ serverUp' => serverUp
<1>1. /\ toServer \in [Clients -> Seq(ClientMessages)] /\ pc \in [Clients -> Pcs]
      /\ "loop" \in Handling /\ HandlerPcs \subseteq Handling /\ "greet" \in Entering
  BY DEF TypeOK, SocketsTypeOK, ServerTypeOK, Handling, Entering
<1>2. serverUp' => serverUp
  BY DEF MainNext, Accept, Admit, TurnAway, SpawnFails, ThreadNext, Register, RegisterFails,
         Greeted, GreetFails, SetName, GetClientList, Request, RequestMark, RequestLink,
         AcceptNoFd, AcceptNoMoreExist, AcceptReads, AcceptBusy, AcceptPair, AcceptReply, Tx,
         Disconnect, Decline, DeclineFree, ClientClosed, Flush, Received, At
<1>3. CASE MainNext(c)
  <2>1. UNCHANGED toServer
    BY <1>3 DEF MainNext, Accept, Admit, TurnAway, SpawnFails, sockVars
  <2>2. pc[c] \in Entering /\ pc'[c] \in Entering \cup {"refused"}
    BY <1>1, <1>3 DEF MainNext, Accept, Admit, TurnAway, SpawnFails, At, GoTo, Entering
  <2> QED
    BY <1>2, <2>1, <2>2 DEF MovesOn
<1>4. CASE Register(c) \/ RegisterFails(c) \/ GreetFails(c)
  <2>1. UNCHANGED toServer
    BY <1>4 DEF Register, RegisterFails, GreetFails, sockVars
  <2>2. pc[c] \in Entering /\ pc'[c] \in Entering \cup {"refused", "exited"}
    BY <1>1, <1>4 DEF Register, RegisterFails, GreetFails, At, GoTo, Entering
  <2> QED
    BY <1>2, <2>1, <2>2 DEF MovesOn
<1>5. CASE Greeted(c)
  <2>1. pc[c] = "greet" /\ pc'[c] = "loop" /\ Inbox(c) # <<>> /\ Receive(c)
    BY <1>1, <1>5 DEF Greeted, At, GoTo
  <2> QED
    BY <1>1, <1>2, <2>1, OwnMessage DEF TakesMessage
<1>6. CASE \/ SetName(c) \/ GetClientList(c) \/ Request(c) \/ AcceptNoFd(c)
           \/ AcceptNoMoreExist(c) \/ AcceptReads(c) \/ Tx(c) \/ Decline(c)
  <2>1. pc[c] = "loop" /\ Inbox(c) # <<>> /\ Receive(c)
    BY <1>6 DEF SetName, GetClientList, Request, AcceptNoFd, AcceptNoMoreExist, AcceptReads, Tx,
                Decline, Received, At
  <2>2. pc'[c] \in {"loop"} \cup HandlerPcs
    BY <1>1, <1>6, <2>1
    DEF SetName, GetClientList, Request, AcceptNoFd, AcceptNoMoreExist, AcceptReads, Tx, Decline,
        GoTo, HandlerPcs
  <2> QED
    BY <1>1, <1>2, <2>1, <2>2, OwnMessage DEF TakesMessage, Handling
<1>7. CASE \/ RequestMark(c) \/ RequestLink(c) \/ AcceptBusy(c) \/ AcceptPair(c)
           \/ AcceptReply(c) \/ Disconnect(c) \/ DeclineFree(c)
  <2>1. UNCHANGED toServer
    BY <1>7 DEF RequestMark, RequestLink, AcceptBusy, AcceptPair, AcceptReply, Disconnect,
                DeclineFree
  <2>2. pc[c] \in HandlerPcs /\ pc'[c] \in {"loop"} \cup HandlerPcs
    BY <1>1, <1>7 DEF RequestMark, RequestLink, AcceptBusy, AcceptPair, AcceptReply, Disconnect,
                      DeclineFree, At, GoTo, HandlerPcs
  <2> QED
    BY <1>1, <1>2, <2>1, <2>2 DEF MovesOn, Handling
<1>8. CASE ClientClosed(c) \/ Flush(c)
  <2>1. UNCHANGED toServer
    BY <1>8 DEF ClientClosed, Flush
  <2>2. pc'[c] = pc[c] \/ pc'[c] = "exited"
    BY <1>1, <1>8 DEF ClientClosed, Flush, GoTo
  <2> QED
    BY <1>2, <2>1, <2>2 DEF MovesOn
<1> QED
  BY <1>3, <1>4, <1>5, <1>6, <1>7, <1>8 DEF ThreadNext

(* The server keeps the place of the answer.                               *)
LEMMA ServerKeepsAnswer ==
  ASSUME TypeOK, ListInv, AnswerInv, NEW c \in Clients, MainNext(c) \/ ThreadNext(c),
         UNCHANGED phase
  PROVE  AnswerInv'
<1>1. Entering \cap Handling = {} /\ {"refused", "exited"} \cap (Entering \cup Handling) = {}
  BY DEF Entering, Handling, HandlerPcs
<1>2. \A d \in Clients : d # c => AnswerOf(d)'
  BY ServerTakesOwn, OthersStay DEF AnswerInv, AnswerOf
<1>3. AnswerOf(c) /\ (serverUp' => serverUp)
  BY ServerTakesOwn DEF AnswerInv
<1>4. CASE MovesOn(c)
  <2>1. toServer'[c] = toServer[c]
    BY <1>4 DEF MovesOn
  <2>2. /\ pc'[c] \in Entering => pc[c] \in Entering
        /\ pc'[c] \in Handling => pc[c] \in Handling
    BY <1>1, <1>4 DEF MovesOn
  <2> QED
    BY <1>2, <1>3, <2>1, <2>2 DEF AnswerInv, AnswerOf
<1>5. CASE TakesMessage(c)
  <2>1. toServer[c] \in Seq(ClientMessages) /\ toServer[c] # <<>>
    BY <1>5 DEF TakesMessage, TypeOK, SocketsTypeOK
  <2>2. \A i \in DOMAIN Tail(toServer[c]) :
          i + 1 \in DOMAIN toServer[c] /\ i + 1 # 1 /\ Tail(toServer[c])[i] = toServer[c][i + 1]
    BY <2>1, HeadTailProperties, LenProperties
  <2>3. pc[c] \in Entering \cup Handling /\ pc'[c] \in Handling /\ pc'[c] \notin Entering
    BY <1>1, <1>5 DEF TakesMessage, Entering
  <2>4. \A i \in DOMAIN Tail(toServer[c]) : ~ IsAnswer(Tail(toServer[c])[i])
    BY <1>3, <2>2, <2>3 DEF AnswerOf
  <2>5. phase[c] \notin {"off", "connecting"}
    BY <1>3, <2>1 DEF AnswerOf
  <2>6. toServer'[c] = Tail(toServer[c])
    BY <1>5 DEF TakesMessage
  <2>7. AnswerOf(c)'
    BY <2>3, <2>4, <2>5, <2>6 DEF AnswerOf
  <2> QED
    BY <1>2, <2>7 DEF AnswerInv
<1> QED
  BY <1>4, <1>5, ServerTakesOwn

(* A client's step that sends nothing keeps it.                            *)
LEMMA SilenceKeepsAnswer ==
  ASSUME AnswerInv, UNCHANGED <<toServer, serverUp, pc>>,
         \A d \in Clients : \/ phase'[d] = phase[d] \/ phase'[d] = "gone"
                            \/ phase[d] = "off" /\ phase'[d] = "connecting"
  PROVE  AnswerInv'
BY DEF AnswerInv, AnswerOf

(* So does sending the answer in the handshake, or a line after it.        *)
LEMMA SendingKeepsAnswer ==
  ASSUME AnswerInv, TypeOK, NEW c \in Clients, NEW m \in ClientMessages, SendToServer(c, m),
         UNCHANGED <<serverUp, pc>>, phase' = [phase EXCEPT ![c] = "on"],
         \/ phase[c] = "connecting" /\ IsAnswer(m)
         \/ phase[c] = "on" /\ ~ IsAnswer(m)
  PROVE  AnswerInv'
<1>1. toServer \in [Clients -> Seq(ClientMessages)] /\ phase \in [Clients -> Phases]
  BY DEF TypeOK, SocketsTypeOK, ClientTypeOK
<1>2. CASE ~ serverUp
  BY <1>1, <1>2 DEF SendToServer, AnswerInv, AnswerOf
<1>3. CASE serverUp
  <2> DEFINE s == toServer[c]
             n == Len(s) + 1
  <2>1. toServer' = [toServer EXCEPT ![c] = Append(s, m)]
    BY <1>3 DEF SendToServer
  <2>2. \A d \in Clients : d # c => AnswerOf(d)'
    BY <1>1, <2>1 DEF AnswerInv, AnswerOf
  <2>3. s \in Seq(ClientMessages) /\ DOMAIN s = 1..Len(s) /\ Len(s) \in Nat
    BY <1>1, LenProperties
  <2>4. /\ Append(s, m) \in Seq(ClientMessages) /\ Len(Append(s, m)) = n
        /\ Append(s, m)[n] = m
        /\ \A i \in 1..Len(s) : Append(s, m)[i] = s[i]
    BY <2>3, AppendProperties
  <2>5. \A i \in DOMAIN Append(s, m) :
          \/ i \in DOMAIN s /\ Append(s, m)[i] = s[i]
          \/ i = n /\ Append(s, m)[i] = m
    <3>1. DOMAIN Append(s, m) = 1..n
      BY <2>4, LenProperties
    <3>2. \A i \in 1..n : i \in 1..Len(s) \/ i = n
      BY <2>3
    <3> QED
      BY <2>3, <2>4, <3>1, <3>2
  <2>6. Append(s, m) # <<>>
    <3>1. n # 0 /\ Len(<<>>) = 0
      BY <2>3
    <3> QED
      BY <2>4, <3>1
  <2>7. s = <<>> => n = 1
    OBVIOUS
  <2>8. s # <<>> => n # 1
    <3>1. s # <<>> => Len(s) # 0
      BY <2>3, EmptySeq
    <3> QED
      BY <2>3, <3>1
  <2>9. AnswerOf(c)
    BY DEF AnswerInv
  <2>10. toServer'[c] = Append(s, m) /\ phase'[c] = "on" /\ pc'[c] = pc[c]
    BY <1>1, <2>1
  <2> HIDE DEF n, s
  <2>11. ASSUME NEW i \in DOMAIN Append(s, m)
         PROVE  /\ pc[c] \in Entering => (IsAnswer(Append(s, m)[i]) <=> i = 1)
                /\ pc[c] \in Handling => ~ IsAnswer(Append(s, m)[i])
    <3>1. CASE i \in DOMAIN s /\ Append(s, m)[i] = s[i]
      BY <2>9, <3>1 DEF AnswerOf, s
    <3>2. CASE i = n /\ Append(s, m)[i] = m /\ phase[c] = "connecting"
      BY <2>7, <2>9, <3>2 DEF AnswerOf, s
    <3>3. CASE i = n /\ Append(s, m)[i] = m /\ phase[c] = "on"
      BY <1>3, <2>8, <2>9, <3>3 DEF AnswerOf, s
    <3> QED
      BY <2>5, <2>11, <3>1, <3>2, <3>3
  <2>12. AnswerOf(c)'
    BY <2>6, <2>10, <2>11 DEF AnswerOf
  <2> QED
    BY <2>2, <2>12 DEF AnswerInv
<1> QED
  BY <1>2, <1>3

(* A client sends nothing before the handshake, the answer in it, and its  *)
(* user's lines after it.                                                  *)
LEMMA ClientKeepsAnswer ==
  ASSUME AnswerInv, TypeOK, NEW c \in Clients, ProcessNext(c) \/ UserNext(c),
         UNCHANGED pc
  PROVE  AnswerInv'
<1>1. phase \in [Clients -> Phases] /\ toServer \in [Clients -> Seq(ClientMessages)]
  BY DEF TypeOK, SocketsTypeOK, ClientTypeOK
<1>2. ASSUME NEW unread, Exit(c, unread) PROVE AnswerInv'
  <2>1. UNCHANGED <<toServer, serverUp>> /\ phase' = [phase EXCEPT ![c] = "gone"]
    BY <1>2 DEF Exit
  <2>2. \A d \in Clients : phase'[d] = phase[d] \/ phase'[d] = "gone"
    BY <1>1, <2>1
  <2> QED
    BY <2>1, <2>2, SilenceKeepsAnswer
<1>3. CASE Connect(c)
  <2>1. UNCHANGED <<toServer, serverUp>>
    BY <1>3 DEF Connect
  <2>2. \A d \in Clients : \/ phase'[d] = phase[d] \/ phase'[d] = "gone"
                           \/ phase[d] = "off" /\ phase'[d] = "connecting"
    BY <1>1, <1>3 DEF Connect
  <2> QED
    BY <2>1, <2>2, SilenceKeepsAnswer
<1>4. CASE Handshake(c)
  <2>1. CASE Head(toClient[c]).type = "MSG_CONN_ESTABLISH_REQ"
    <3> DEFINE m == Msg("MSG_CONN_ESTABLISH_ACK", NoArg)
    <3>1. m \in ClientMessages /\ IsAnswer(m)
      BY DEF ClientMessages, Msg, IsAnswer
    <3>2. /\ phase[c] = "connecting" /\ phase' = [phase EXCEPT ![c] = "on"]
          /\ SendToServer(c, m) /\ UNCHANGED serverUp
      BY <1>4, <2>1 DEF Handshake
    <3> HIDE DEF m
    <3> QED
      BY <3>1, <3>2, SendingKeepsAnswer
  <2>2. CASE Head(toClient[c]).type # "MSG_CONN_ESTABLISH_REQ"
    BY <1>2, <1>4, <2>2 DEF Handshake
  <2> QED
    BY <2>1, <2>2
<1>5. CASE HandshakeTimeout(c) \/ Quit(c)
  BY <1>2, <1>5 DEF HandshakeTimeout, Quit
<1>6. CASE Rx(c)
  <2>1. UNCHANGED <<toServer, serverUp, phase>>
    BY <1>6 DEF Rx
  <2> QED
    BY <2>1, SilenceKeepsAnswer
<1>7. ASSUME NEW kind, NEW m \in ClientMessages, ~ IsAnswer(m), Types(c, kind, m)
      PROVE  AnswerInv'
  <2>1. /\ phase[c] = "on" /\ SendToServer(c, m) /\ UNCHANGED <<serverUp, phase>>
    BY <1>7 DEF Types
  <2>2. phase' = [phase EXCEPT ![c] = "on"]
    BY <1>1, <2>1
  <2> QED
    BY <1>7, <2>1, <2>2, SendingKeepsAnswer
<1>8. CASE UserNext(c) /\ ~ Connect(c) /\ ~ Quit(c)
  <2>1. \A t \in {"MSG_GET_CLIENT_LIST_TYPE", "MSG_CLIENT_ACCEPT_CONNECTION",
                  "MSG_CLIENT_DECLINE_CONNECTION"} :
          Msg(t, NoArg) \in ClientMessages /\ ~ IsAnswer(Msg(t, NoArg))
    BY DEF ClientMessages, Msg, IsAnswer
  <2>2. \A a \in {c, DISCONNECT_CMD} :
          Msg("MSG_CLIENT_TX_TYPE", a) \in ClientMessages /\ ~ IsAnswer(Msg("MSG_CLIENT_TX_TYPE", a))
    BY DEF ClientMessages, Msg, IsAnswer
  <2>3. \A t \in {"MSG_SET_NAME_REQ_TYPE", "MSG_CONNECT_TO_CLIENT"} : \A n \in Names :
          Msg(t, n) \in ClientMessages /\ ~ IsAnswer(Msg(t, n))
    BY DEF ClientMessages, Msg, IsAnswer
  <2>4. CASE TypeChat(c) \/ TypeDisconnect(c)
    BY <1>7, <2>2, <2>4 DEF TypeChat, TypeDisconnect
  <2>5. CASE TypeAnswer(c) \/ TypeGetList(c)
    BY <1>7, <2>1, <2>5 DEF TypeAnswer, TypeGetList
  <2>6. ASSUME NEW n \in NewNames, TypeSetName(c, n) PROVE AnswerInv'
    BY <1>7, <2>3, <2>6, NewNamesAssumption DEF TypeSetName
  <2>7. ASSUME NEW n \in AskNames, TypeConnect(c, n) PROVE AnswerInv'
    BY <1>7, <2>3, <2>7, AskNamesAssumption DEF TypeConnect
  <2> QED
    BY <1>8, <2>4, <2>5, <2>6, <2>7 DEF UserNext
<1> QED
  BY <1>3, <1>4, <1>5, <1>6, <1>8 DEF ProcessNext, UserNext

(* AnswerInv is inductive, given IInv.                                     *)
LEMMA NextKeepsAnswer == IInv /\ AnswerInv /\ [Next]_vars => AnswerInv'
<1> SUFFICES ASSUME IInv, AnswerInv, [Next]_vars PROVE AnswerInv'
  OBVIOUS
<1>1. TypeOK /\ ListInv
  BY DEF IInv
<1>2. ASSUME NEW c \in Clients, MainNext(c) \/ ThreadNext(c), UNCHANGED clientVars
      PROVE  AnswerInv'
  BY <1>1, <1>2, ServerKeepsAnswer DEF clientVars
<1>3. ASSUME NEW c \in Clients, ProcessNext(c) \/ UserNext(c), UNCHANGED serverVars
      PROVE  AnswerInv'
  BY <1>1, <1>3, ClientKeepsAnswer DEF serverVars, threadVars
<1>4. CASE UNCHANGED vars
  BY <1>4 DEF vars, sockVars, serverVars, threadVars, clientVars, AnswerInv, AnswerOf
<1> QED
  BY <1>2, <1>3, <1>4 DEF Next, ServerNext, ClientNext

(* The first message a thread receives is the answer to its greeting and   *)
(* no later one is: the client answers in the handshake, before its user   *)
(* can type a line, and the thread enters its loop only by taking the      *)
(* answer.  So the check of line 217 fails for no client of this program.  *)
THEOREM AnswersComeFirst == Spec => []GreetingFirst
<1>1. Init => AnswerInv
  BY DEF Init, SocketsInit, ServerInit, ClientInit, AnswerInv, AnswerOf, Handling, HandlerPcs
<1>2. AnswerInv => GreetingFirst
  BY DEF AnswerInv, AnswerOf, GreetingFirst, Entering, Handling, IsAnswer
<1> QED
  BY <1>1, <1>2, NextKeepsAnswer, Invariance, PTL DEF Spec
=============================================================================
