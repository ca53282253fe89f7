------------------------------ MODULE Sockets ------------------------------
(***************************************************************************)
(* The kernel between the server process and the clients, as the calls in  *)
(* src/server and src/client use it: descriptors of the server process,    *)
(* one pair of byte streams per connection, and the end of a process.      *)
(* Both ends run on one host (SERVER_IP is 127.0.0.1), so a reset travels  *)
(* at once.  A stream carries whole messages.                              *)
(***************************************************************************)
EXTENDS ChatProtocol

VARIABLES
  fdOwner,   \* fdOwner[f]: the connection descriptor f refers to, or NoClient
  peer,      \* peer[c]: the client's end of connection c
  toServer,  \* toServer[c]: sent by client c, not yet received by the server
  toClient,  \* toClient[c]: sent to client c, not yet received by it
  serverUp   \* the server process is running

sockVars == <<fdOwner, peer, toServer, toClient, serverUp>>
sendVars == <<peer, toClient, serverUp>>

PeerStates == {"none", "open", "closed", "reset"}

SocketsInit ==
  /\ fdOwner = [f \in Fds |-> NoClient]
  /\ peer = [c \in Clients |-> "none"]
  /\ toServer = [c \in Clients |-> <<>>]
  /\ toClient = [c \in Clients |-> <<>>]
  /\ serverUp = TRUE

SocketsTypeOK ==
  /\ fdOwner \in [Fds -> Clients \cup {NoClient}]
  /\ peer \in [Clients -> PeerStates]
  /\ toServer \in [Clients -> Seq(ClientMessages)]
  /\ toClient \in [Clients -> Seq(Messages)]
  /\ serverUp \in BOOLEAN

(***************************************************************************)
(* send(2) by the server.  To a closed descriptor it fails with EBADF; to  *)
(* a client that has closed its end the data is lost and answered with a   *)
(* reset; after a reset it fails or raises SIGPIPE, which the server does  *)
(* not handle.  No caller acts on the value send_msg_to_fd returns beyond  *)
(* what the next receive finds out too.                                    *)
(***************************************************************************)
Send(f, m) ==
  LET c == fdOwner[f]
  IN  \/ /\ c = NoClient
         /\ UNCHANGED sendVars
      \/ /\ c # NoClient /\ peer[c] = "open"
         /\ toClient' = [toClient EXCEPT ![c] = Append(@, m)]
         /\ UNCHANGED <<peer, serverUp>>
      \/ /\ c # NoClient /\ peer[c] = "closed"
         /\ peer' = [peer EXCEPT ![c] = "reset"]
         /\ UNCHANGED <<toClient, serverUp>>
      \/ /\ c # NoClient /\ peer[c] = "reset"
         /\ serverUp' \in BOOLEAN
         /\ UNCHANGED <<peer, toClient>>

(* The lowest unused descriptor, which is the one accept(2) returns.       *)
IsNextFd(f) ==
  /\ f \in Fds
  /\ fdOwner[f] = NoClient
  /\ \A g \in Fds : fdOwner[g] = NoClient => f <= g

(* Client c's process ends or closes its socket: a close that discards     *)
(* data the process has not read is a reset.                               *)
CloseByClient(c, unread) ==
  /\ peer' = [peer EXCEPT ![c] = IF unread = <<>> THEN "closed" ELSE "reset"]
  /\ toClient' = [toClient EXCEPT ![c] = <<>>]

(* send(2) by client c.                                                    *)
SendToServer(c, m) ==
  toServer' = IF serverUp THEN [toServer EXCEPT ![c] = Append(@, m)] ELSE toServer
=============================================================================
