----------------------------- MODULE ChatSystem -----------------------------
(***************************************************************************)
(* The chat application: the server process of ChatServer and the client   *)
(* processes of ChatClient over the sockets between them, and what can be  *)
(* said of the whole.                                                      *)
(***************************************************************************)
EXTENDS ChatServer, ChatClient

serverVars == <<listVars, my_socket, nodeVars, threadVars>>
vars == <<sockVars, serverVars, clientVars>>

Init == SocketsInit /\ RegistryInit /\ ServerInit /\ ClientInit

Next ==
  \/ ServerNext /\ UNCHANGED clientVars
  \/ ClientNext /\ UNCHANGED serverVars

Spec == Init /\ [][Next]_vars

(* A thread that can run does run, and select's five seconds end: nothing  *)
(* else is promised, neither by the users nor by main.                     *)
Fairness ==
  \A c \in Clients :
    /\ WF_vars(ThreadNext(c) /\ UNCHANGED clientVars)
    /\ WF_vars((Handshake(c) \/ HandshakeTimeout(c)) /\ UNCHANGED serverVars)

FairSpec == Spec /\ Fairness
-----------------------------------------------------------------------------
(* Every variable keeps its type: server_queue.c never stores a value that *)
(* is neither a descriptor nor INVALID_FD, a count outside a byte, ...     *)
TypeOK == SocketsTypeOK /\ RegistryTypeOK /\ ServerTypeOK /\ ClientTypeOK

(* While its thread serves a client the client's node is listed, so that   *)
(* the name pointers the handlers keep after the unlock (my_name at lines  *)
(* 412, 566 and 704 of server_mgmt.c) do not dangle; and a listed node has *)
(* a thread that serves it or has given up on its greeting.                *)
ServedIsListed ==
  /\ \A c \in Clients : pc[c] \in ServingPcs => c \in Listed
  /\ \A c \in Listed : pc[c] \in ServingPcs \cup {"exited"}

(* The descriptor a thread works with stays open, and stays its client's,  *)
(* for as long as the thread has not given it up: it never receives or     *)
(* sends on a number that accept has given to someone else meanwhile.      *)
ThreadHoldsFd ==
  \A c \in Clients :
    pc[c] \in {"accepted", "start"} \cup ServingPcs =>
      my_socket[c] \in Fds /\ fdOwner[my_socket[c]] = c

(* No descriptor is lost when a client leaves: an open one is its client's *)
(* only one, and that client is listed, still on its way in, or was turned *)
(* away (lines 191 and 249 of server_mgmt.c do not close it).              *)
OpenFdsAccounted ==
  \A f \in Fds : fdOwner[f] # NoClient =>
    /\ my_socket[fdOwner[f]] = f
    /\ \/ fdOwner[f] \in Listed
       \/ pc[fdOwner[f]] \in {"accepted", "start", "refused"}

(* The answer to the greeting is the first thing a client sends and is     *)
(* sent once: a greeting never fails on a wrong answer (line 217) and      *)
(* handle_rx_msg never gets a message it has no handler for.               *)
GreetingFirst ==
  \A c \in Clients : \A i \in DOMAIN toServer[c] :
    /\ pc[c] \in {"none", "accepted", "start", "greet"} =>
         (toServer[c][i].type = "MSG_CONN_ESTABLISH_ACK" <=> i = 1)
    /\ pc[c] \in {"loop"} \cup HandlerPcs =>
         toServer[c][i].type # "MSG_CONN_ESTABLISH_ACK"

(* A client that has passed the handshake stays on the list until it       *)
(* leaves: nobody else's departure removes it (client_thread, line 285).   *)
OnlineIsListed ==
  \A c \in Clients : serverUp /\ phase[c] = "on" => c \in Listed

(* A client marked busy has a link: disconnect (line 455) and the requests *)
(* and departures of third clients never leave it busy with nobody, which  *)
(* would drop all it types at line 473.                                    *)
BusyHasLink ==
  \A c \in Listed : chat_status[c] = "CHAT_STATUS_BUSY" => to_fd[c] # INVALID_FD

(* A client marked as having a pending request has a link to answer to, or *)
(* a thread is about to set it (line 603): otherwise "yes" and "no" would  *)
(* both be ignored and nobody could connect to it again.                   *)
PendingHasRequester ==
  \A c \in Listed :
    chat_status[c] = "CHAT_STATUS_REQ_PENDING" =>
      \/ to_fd[c] # INVALID_FD
      \/ \E d \in Clients : pc[d] = "req_link" /\ loc[d].conn_fd = my_socket[c]

(* No client is ever linked to itself, although the request handler tests  *)
(* the name in one section and looks it up again in the next.              *)
NeverOwnLink ==
  \A c \in Listed : to_fd[c] # my_socket[c]

(* Two listed clients have the same name only if it is a default name or   *)
(* one that was cut to 63 characters (server_queue.c:65 and 176).          *)
CutNames == {Stored[n] : n \in {m \in Names : Stored[m] # m}}
ChosenNamesDistinct ==
  \A c, d \in Listed :
    c # d /\ name[c] = name[d] => name[c] \in Range(DefaultName) \cup CutNames

(* A client becomes busy together with the client it is linked to, each    *)
(* linked to the other, unless that client is gone: no third client is     *)
(* drawn into a chat by someone else's accept (lines 697 to 701).          *)
ChatStartsMutual ==
  [][\A c \in Clients :
       chat_status[c] # "CHAT_STATUS_BUSY" /\ chat_status'[c] = "CHAT_STATUS_BUSY" =>
         \A d \in Listed : my_socket[d] = to_fd'[c] =>
           chat_status'[d] = "CHAT_STATUS_BUSY" /\ to_fd'[d] = my_socket[c]]_vars

(* A chat ends, or passes to another partner, by a step of its own thread  *)
(* or by that of a client that holds it: one whose link it is and that     *)
(* leaves, one in the middle of a request, an accept or a disconnect that  *)
(* read its descriptor, or one that asked for its name.  What a stranger   *)
(* does never ends it.                                                     *)
Moves(c) == pc'[c] # pc[c] \/ toServer'[c] # toServer[c]
Holds(c, d) ==
  \/ pc[c] = "req_mark" /\ loc[c].conn_name = name[d]
  \/ pc[c] \in {"req_link", "acc_pair", "tx_disc"} /\ loc[c].conn_fd = my_socket[d]
  \/ pc'[c] = "exited" /\ to_fd[c] = my_socket[d]
ChatEndsForCause ==
  [][\A d \in Listed :
       (/\ d \in Listed' /\ chat_status[d] = "CHAT_STATUS_BUSY"
        /\ chat_status'[d] # "CHAT_STATUS_BUSY" \/ to_fd'[d] # to_fd[d])
       => Moves(d) \/ \E c \in Clients : Moves(c) /\ Holds(c, d)]_vars

(* The list and the nodes' fields change only in a critical section: once  *)
(* an accept has left the mutex locked (line 650) nobody is added, named,  *)
(* linked, freed or removed any more.                                      *)
RegistryGuarded ==
  [][~ MutexFree => UNCHANGED <<listVars, nodeVars>>]_vars

(* Once a served client has left, its node goes too, unless the mutex was  *)
(* left locked or a signal has killed the server.                          *)
LeaverRemoved ==
  \A c \in Clients :
    pc[c] = "loop" /\ peer[c] # "open" ~>
      c \notin Listed \/ ~ MutexFree \/ ~ serverUp

(* Every handshake ends on both sides: the client is on or gone, and the   *)
(* thread has entered its loop or given up.                                *)
HandshakeEnds ==
  \A c \in Clients :
    /\ phase[c] = "connecting" ~> phase[c] # "connecting"
    /\ pc[c] = "greet" ~> pc[c] # "greet" \/ ~ serverUp
-----------------------------------------------------------------------------
(* What the documents and messages of the program say and the code does    *)
(* not do.                                                                 *)

(* The mutex is free again after every handler.                            *)
LockReleased == MutexFree

(* A client is never told it is in a chat with the string SOMETHING_IS_... *)
(* of an accept the server says it ignores (line 685).                     *)
IgnoredAcceptStartsNoChat ==
  \A c \in Clients : connected_client_name[c] # SOMETHING_IS_WRONG

(* The list holds active clients: the client of a listed node has left     *)
(* only if a thread is still there to find out.                            *)
ListHoldsActiveClients ==
  \A c \in Listed : phase[c] = "gone" => pc[c] # "exited"

(* A client is ended by "Client terminated" only when the client it is     *)
(* linked to has left.                                                     *)
TerminationFromPartner ==
  [][\A c, d \in Clients :
       (/\ serverUp /\ c \in Listed /\ c \notin Listed' /\ d \in Listed /\ d # c
        /\ chat_status[d] = "CHAT_STATUS_BUSY" /\ chat_status'[d] # "CHAT_STATUS_BUSY")
       => to_fd[d] = my_socket[c]]_vars
=============================================================================
