----------------------------- MODULE MsgStream -----------------------------
(***************************************************************************)
(* One connection as the byte stream it is.  Every message is a msg_t of   *)
(* fixed size, but recv returns what has arrived, and every caller takes   *)
(* that for a message of its own.                                          *)
(*                                                                         *)
(* A stream is a sequence of words; the word <<k, i>> is the i-th of the   *)
(* k-th message sent: to_client_id, msg_type, then msg_data.buffer.  Typed *)
(* text has no control characters, so that neither a word of text, nor     *)
(* to_client_id, nor a zero is a msg_type that handle_rx_msg has a case    *)
(* for.  A send puts a whole message into the stream (blocking sockets).   *)
(***************************************************************************)
EXTENDS Integers, Sequences

CONSTANTS
  Size,   \* words of a msg_t
  KeyEnd, \* the last word of SERVER_UNIQUEUE_ID in the greeting
  MaxMsgs \* bound: messages sent in either direction
ASSUME MsgStreamAssumption ==
  Size \in Nat /\ KeyEnd \in 3..Size /\ MaxMsgs \in Nat

VARIABLES
  up, down,         \* the streams to the server and to the client
  sentUp, sentDown, \* messages sent
  readUp, readDown, \* words read
  greeting,         \* which message to the client is the greeting; 0: none yet
  server, client,   \* where the server's thread and the client's process are
  serverBuf, clientBuf, \* rx_msg of client_thread and of io_thread
  serverActed, clientActed \* history: the messages whose type was acted on

upVars == <<up, sentUp, readUp>>
downVars == <<down, sentDown, readDown, greeting>>
serverVars == <<server, serverBuf, serverActed>>
clientVars == <<client, clientBuf, clientActed>>
vars == <<upVars, downVars, serverVars, clientVars>>

TypeWord == 2
Ack == 1 \* the client's first message is MSG_CONN_ESTABLISH_ACK
Zero == <<0, 0>>
Words == ((1..MaxMsgs) \X (1..Size))
Buffers == [1..Size -> Words \cup {Zero} \cup ({0} \X (1..Size))]

TypeOK ==
  /\ up \in Seq(Words) /\ down \in Seq(Words)
  /\ sentUp \in 0..MaxMsgs /\ sentDown \in 0..MaxMsgs /\ greeting \in 0..MaxMsgs
  /\ readUp + Len(up) = Size * sentUp /\ readDown + Len(down) = Size * sentDown
  /\ server \in {"greet", "answer", "loop", "ended"}
  /\ client \in {"handshake", "on", "gone"}
  /\ serverBuf \in Buffers /\ clientBuf \in Buffers
  /\ serverActed \in Seq(1..MaxMsgs) /\ clientActed \in Seq(0..MaxMsgs)

(* io_thread does not initialise rx_msg: what the stack held is message 0. *)
Init ==
  /\ up = <<>> /\ down = <<>>
  /\ sentUp = 0 /\ sentDown = 0 /\ readUp = 0 /\ readDown = 0 /\ greeting = 0
  /\ server = "greet" /\ client = "handshake"
  /\ serverBuf = [i \in 1..Size |-> Zero]
  /\ clientBuf = [i \in 1..Size |-> <<0, i>>]
  /\ serverActed = <<>> /\ clientActed = <<>>
-----------------------------------------------------------------------------
(* For the mutants: only the used part of msg_data is sent.                *)
MessageCut(k) == [i \in 1..Size - 1 |-> <<k, i>>]

Message(k) == [i \in 1..Size |-> <<k, i>>]

(* How many words recv may return.                                         *)
Arrived(stream) == 1..(IF Len(stream) < Size THEN Len(stream) ELSE Size)

(* The first n words arrived and overwrite those of the buffer.            *)
Received(buf, stream, n) == [i \in 1..Size |-> IF i <= n THEN stream[i] ELSE buf[i]]

(* The switch over msg_type, for a buffer: which message it acts on.       *)
ActsOn(buf, acted) ==
  IF buf[TypeWord][2] = TypeWord THEN Append(acted, buf[TypeWord][1]) ELSE acted

ReadUp(n) ==
  /\ up' = SubSeq(up, n + 1, Len(up)) /\ readUp' = readUp + n
  /\ UNCHANGED sentUp
ReadDown(n) ==
  /\ down' = SubSeq(down, n + 1, Len(down)) /\ readDown' = readDown + n
  /\ UNCHANGED <<sentDown, greeting>>
SendDown ==
  /\ sentDown < MaxMsgs
  /\ sentDown' = sentDown + 1
  /\ down' = down \o Message(sentDown')
  /\ UNCHANGED readDown
SendUp ==
  /\ sentUp < MaxMsgs
  /\ sentUp' = sentUp + 1
  /\ up' = up \o Message(sentUp')
  /\ UNCHANGED readUp
-----------------------------------------------------------------------------
(* The server's thread                                                     *)

(* Some handler of any thread sends this client a message.                 *)
ServerSends ==
  /\ SendDown
  /\ UNCHANGED <<upVars, greeting, serverVars, clientVars>>

(* send_conn_establish_msg                                                 *)
Greet ==
  /\ server = "greet"
  /\ SendDown
  /\ greeting' = sentDown'
  /\ server' = "answer"
  /\ UNCHANGED <<upVars, serverBuf, serverActed, clientVars>>

(* For the mutants: whatever arrives is compared.                          *)
AckOfAnySize(n) == Ack = up[1][1]

IsAck(n) == n = Size /\ up[TypeWord] = <<Ack, TypeWord>>

Answer ==
  /\ server = "answer"
  /\ \E n \in Arrived(up) :
       /\ ReadUp(n)
       /\ server' = IF IsAck(n) THEN "loop" ELSE "ended"
  /\ UNCHANGED <<downVars, serverBuf, serverActed, clientVars>>

(* For the mutants: rx_msg is declared outside the loop.                   *)
BufferKept == serverBuf

BufferCleared == [i \in 1..Size |-> Zero]

(* wait_to_recv_something and handle_rx_msg                                *)
ServerReceives ==
  /\ server = "loop"
  /\ \E n \in Arrived(up) :
       /\ ReadUp(n)
       /\ serverBuf' = Received(BufferCleared, up, n)
  /\ serverActed' = ActsOn(serverBuf', serverActed)
  /\ UNCHANGED <<server, downVars, clientVars>>

ClientClosed ==
  /\ server \in {"answer", "loop"} /\ client = "gone" /\ up = <<>>
  /\ server' = "ended"
  /\ UNCHANGED <<upVars, downVars, serverBuf, serverActed, clientVars>>
-----------------------------------------------------------------------------
(* The client                                                              *)

(* For the mutants: the type is enough.                                    *)
VerifiedByType(n) == n >= TypeWord /\ down[TypeWord] = <<greeting, TypeWord>>

(* recv_with_timeout drops the length; temp_msg was zero.                  *)
Verified(n) == n >= KeyEnd /\ down[TypeWord] = <<greeting, TypeWord>>

Handshake ==
  /\ client = "handshake"
  /\ \E n \in Arrived(down) :
       /\ ReadDown(n)
       /\ IF Verified(n) THEN client' = "on" /\ SendUp
          ELSE client' = "gone" /\ UNCHANGED upVars
  /\ UNCHANGED <<serverVars, clientBuf, clientActed>>

(* A typed line.                                                           *)
ClientSends ==
  /\ client = "on"
  /\ SendUp
  /\ UNCHANGED <<downVars, serverVars, clientVars>>

(* io_thread: recv into the buffer the last message is still in.           *)
ClientReceives ==
  /\ client = "on"
  /\ \E n \in Arrived(down) :
       /\ ReadDown(n)
       /\ clientBuf' = Received(clientBuf, down, n)
  /\ clientActed' = ActsOn(clientBuf', clientActed)
  /\ UNCHANGED <<client, upVars, serverVars>>

(* The handshake times out, or the user leaves.                            *)
ClientLeaves ==
  /\ client # "gone"
  /\ client' = "gone"
  /\ UNCHANGED <<upVars, downVars, serverVars, clientBuf, clientActed>>

Next ==
  \/ ServerSends \/ Greet \/ Answer \/ ServerReceives \/ ClientClosed
  \/ Handshake \/ ClientSends \/ ClientReceives \/ ClientLeaves

Spec == Init /\ [][Next]_vars
-----------------------------------------------------------------------------
(* A thread serves only who answered with a whole acknowledgement, so that *)
(* it enters its loop at a message's first word (server_mgmt.c:217) and    *)
(* never acts on the acknowledgement itself.                               *)
AckWasWhole ==
  server = "loop" => readUp >= Size /\ \A i \in DOMAIN serverActed : serverActed[i] # Ack

(* It serves only a client that has read the key to its end, as the very   *)
(* first message, although the client ignores how much it read.            *)
KeyWasSeen == server = "loop" => greeting = 1 /\ readDown >= KeyEnd

(* However the stream is cut, the server acts on a message at most once,   *)
(* and in the order they were sent; the client may act again on the last   *)
(* one, whose type is still in its buffer, never on an earlier one.        *)
ActedInOrder ==
  /\ \A i, j \in DOMAIN serverActed : i < j => serverActed[i] < serverActed[j]
  /\ \A i, j \in DOMAIN clientActed : i < j => clientActed[i] <= clientActed[j]

(* What the server acts on is one message, perhaps cut short: nothing of   *)
(* another message is ever taken for its text.                             *)
ServerNeverMixes ==
  serverBuf[TypeWord][2] = TypeWord =>
    \A i \in 1..Size : serverBuf[i] \in {Zero, <<serverBuf[TypeWord][1], i>>}
=============================================================================
