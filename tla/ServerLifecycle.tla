-------------------------- MODULE ServerLifecycle --------------------------
(***************************************************************************)
(* The end of the server: SIGINT, main leaving its accept loop, joining    *)
(* the threads and freeing the nodes, while the threads go on.             *)
(*                                                                         *)
(* Main walks the list without the mutex and keeps a pointer into it, and  *)
(* a node whose memory was freed stays in freed for good.  To read one is  *)
(* undefined: the model stops there and promises nothing.  What the        *)
(* handlers do is left out but for their walk along the list; the mutex is *)
(* taken to be released after each.                                        *)
(***************************************************************************)
EXTENDS Integers, FiniteSets, Sequences, SequencesExt

CONSTANTS
  Clients,      \* the clients; also their threads and their nodes
  Main,         \* the main thread
  Null,         \* a null pointer
  MAX_CLIENT,
  OutOfMemory,  \* malloc and pthread_create may fail
  Interrupted,  \* the threads the kernel may deliver SIGINT to
  MaxSignals    \* bound: SIGINTs
ASSUME LifecycleAssumption ==
  /\ Main \notin Clients /\ Null \notin Clients
  /\ Interrupted \subseteq Clients \cup {Main}
  /\ MAX_CLIENT \in 1..255 /\ MaxSignals \in Nat /\ OutOfMemory \in BOOLEAN

VARIABLES
  server_terminate,
  mainPc,        \* where main is
  temp,          \* the local of join_all_client_threads and free_all_client_nodes
  client_list,   \* the nodes that can be reached from client_list, in order
  freed,         \* the nodes whose memory was freed
  total_available_clients,
  thr,           \* where the thread of a client is
  conn,          \* a client's end: none, open, answered (the greeting), closed
  signals,       \* SIGINTs so far
  undefined,     \* a freed node was read
  late, departed \* history: nodes added, nodes removed, behind main's back

listVars == <<client_list, freed, total_available_clients>>
vars == <<server_terminate, mainPc, temp, listVars, thr, conn, signals, undefined, late, departed>>

InLoop == {"test", "call", "accept"}
Freeing == {"free", "free_node", "advance"}
MainPcs == InLoop \cup {"leave", "join", "wait"} \cup Freeing \cup {"returned"}
ThreadPcs == {"none", "refused", "start", "greet", "test", "poll", "close", "exited"}

TypeOK ==
  /\ server_terminate \in BOOLEAN /\ undefined \in BOOLEAN
  /\ mainPc \in MainPcs
  /\ temp \in Clients \cup {Null} /\ client_list \in Seq(Clients)
  /\ freed \subseteq Clients /\ late \subseteq Clients /\ departed \subseteq Clients
  /\ total_available_clients \in 0..MAX_CLIENT
  /\ thr \in [Clients -> ThreadPcs]
  /\ conn \in [Clients -> {"none", "open", "answered", "closed"}]
  /\ signals \in 0..MaxSignals

Init ==
  /\ server_terminate = FALSE /\ undefined = FALSE
  /\ mainPc = "test"
  /\ temp = Null /\ client_list = <<>>
  /\ freed = {} /\ late = {} /\ departed = {}
  /\ total_available_clients = 0
  /\ thr = [c \in Clients |-> "none"]
  /\ conn = [c \in Clients |-> "none"]
  /\ signals = 0
-----------------------------------------------------------------------------
Running == mainPc # "returned" /\ ~ undefined

ToMain(p) == mainPc' = p
ToThread(c, p) == thr' = [thr EXCEPT ![c] = p]

Nodes == Range(client_list)
First == IF client_list = <<>> THEN Null ELSE Head(client_list)
Position(n) == CHOOSE i \in DOMAIN client_list : client_list[i] = n

(* next of a node in the list.                                             *)
After(n) ==
  IF Position(n) < Len(client_list) THEN client_list[Position(n) + 1] ELSE Null

(* The list as seen from a pointer kept into it.                           *)
ListFrom(n) ==
  IF n = Null THEN <<>>
  ELSE IF n \in Nodes THEN SubSeq(client_list, Position(n), Len(client_list))
  ELSE <<n>>

(* To read a node, or to walk along the list, touches freed memory.        *)
Touches(n) == n \in freed
WalkTouches == \E n \in Nodes : Touches(n)

UndefinedNow ==
  /\ undefined' = TRUE
  /\ UNCHANGED <<server_terminate, mainPc, temp, listVars, thr, conn, signals, late, departed>>
-----------------------------------------------------------------------------
(* wait_for_client_conn_and_accept, main                                   *)

(* For the mutants: the loop ends only when accept is interrupted.         *)
TestNothing ==
  /\ mainPc = "test"
  /\ ToMain("call")
  /\ UNCHANGED <<server_terminate, temp, listVars, thr, conn, signals, undefined, late, departed>>

TestTerminate ==
  /\ mainPc = "test"
  /\ ToMain(IF server_terminate THEN "leave" ELSE "call")
  /\ UNCHANGED <<server_terminate, temp, listVars, thr, conn, signals, undefined, late, departed>>

CallAccept ==
  /\ mainPc = "call"
  /\ ToMain("accept")
  /\ UNCHANGED <<server_terminate, temp, listVars, thr, conn, signals, undefined, late, departed>>

(* A connection is accepted and the clients are counted: a thread for it,  *)
(* or a refusal, or a failure: malloc's goes on with the loop,             *)
(* pthread_create's returns from main at once.                             *)
Accept(c) ==
  /\ mainPc = "accept"
  /\ thr[c] = "none" /\ conn[c] # "none"
  /\ \/ /\ total_available_clients < MAX_CLIENT
        /\ ToThread(c, "start") /\ ToMain("test")
     \/ /\ total_available_clients >= MAX_CLIENT
        /\ ToThread(c, "refused") /\ ToMain("test")
     \/ /\ OutOfMemory /\ total_available_clients < MAX_CLIENT
        /\ ToThread(c, "refused") /\ mainPc' \in {"test", "returned"}
  /\ UNCHANGED <<server_terminate, temp, listVars, conn, signals, undefined, late, departed>>

(* join_all_client_threads: temp walks the list.                           *)
JoinStart ==
  /\ mainPc = "leave"
  /\ temp' = First
  /\ ToMain("join")
  /\ UNCHANGED <<server_terminate, listVars, thr, conn, signals, undefined, late, departed>>

JoinThread ==
  /\ mainPc = "join"
  /\ IF Touches(temp) THEN UndefinedNow
     ELSE /\ ToMain(IF temp = Null THEN "free" ELSE "wait")
          /\ UNCHANGED <<server_terminate, temp, listVars, thr, conn, signals, undefined, late,
                         departed>>

(* For the mutants: the loop stops before the last node.                   *)
JoinNextStopsEarly ==
  /\ mainPc = "wait" /\ thr[temp] = "exited"
  /\ IF Touches(temp) THEN UndefinedNow
     ELSE /\ temp' = After(temp)
          /\ ToMain(IF temp' # Null /\ After(temp') = Null THEN "free" ELSE "join")
          /\ UNCHANGED <<server_terminate, listVars, thr, conn, signals, undefined, late, departed>>

JoinNext ==
  /\ mainPc = "wait" /\ thr[temp] = "exited"
  /\ IF Touches(temp) THEN UndefinedNow
     ELSE /\ temp' = After(temp)
          /\ ToMain("join")
          /\ UNCHANGED <<server_terminate, listVars, thr, conn, signals, undefined, late, departed>>

(* free_all_client_nodes, statement by statement; then main returns.       *)
FreeRead ==
  /\ mainPc = "free"
  /\ IF Touches(First) THEN UndefinedNow
     ELSE /\ IF client_list = <<>>
             THEN ToMain("returned") /\ UNCHANGED temp
             ELSE ToMain("free_node") /\ temp' = After(First)
          /\ UNCHANGED <<server_terminate, listVars, thr, conn, signals, undefined, late, departed>>

FreeNode ==
  /\ mainPc = "free_node"
  /\ IF Touches(First) THEN UndefinedNow
     ELSE /\ freed' = freed \cup ({First} \ {Null})
          /\ ToMain("advance")
          /\ UNCHANGED <<server_terminate, temp, client_list, total_available_clients, thr, conn,
                         signals, undefined, late, departed>>

FreeAdvance ==
  /\ mainPc = "advance"
  /\ client_list' = ListFrom(temp)
  /\ ToMain("free")
  /\ UNCHANGED <<server_terminate, temp, freed, total_available_clients, thr, conn, signals,
                 undefined, late, departed>>

MainNext ==
  /\ Running
  /\ \/ TestTerminate \/ CallAccept \/ (\E c \in Clients : Accept(c))
     \/ JoinStart \/ JoinThread \/ JoinNext
     \/ FreeRead \/ FreeNode \/ FreeAdvance
-----------------------------------------------------------------------------
(* client_thread                                                           *)

BehindMain == mainPc \in Freeing \/ (mainPc = "join" /\ temp = Null)

(* For the mutants: one client too many.                                   *)
QueueFullOffByOne == total_available_clients > MAX_CLIENT

QueueFull == total_available_clients >= MAX_CLIENT

(* add_client_node_to_queue, which walks to the end of the list.           *)
Register(c) ==
  /\ thr[c] = "start"
  /\ ~ QueueFull
  /\ late' = IF BehindMain THEN late \cup {c} ELSE late
  /\ IF WalkTouches
     THEN undefined' = TRUE /\ UNCHANGED <<listVars, thr>>
     ELSE /\ client_list' = Append(client_list, c)
          /\ total_available_clients' = (total_available_clients + 1) % 256
          /\ ToThread(c, "greet")
          /\ UNCHANGED <<freed, undefined>>
  /\ UNCHANGED <<server_terminate, mainPc, temp, conn, signals, departed>>

(* The list is full, or malloc fails: the thread returns.                  *)
RegisterFails(c) ==
  /\ thr[c] = "start"
  /\ QueueFull \/ OutOfMemory
  /\ ToThread(c, "exited")
  /\ UNCHANGED <<server_terminate, mainPc, temp, listVars, conn, signals, undefined, late, departed>>

(* send_conn_establish_msg waits for the answer as long as it takes; if    *)
(* none comes the node stays.                                              *)
GreetEnds(c) ==
  /\ thr[c] = "greet" /\ conn[c] \in {"answered", "closed"}
  /\ ToThread(c, IF conn[c] = "answered" THEN "test" ELSE "exited")
  /\ UNCHANGED <<server_terminate, mainPc, temp, listVars, conn, signals, undefined, late, departed>>

(* For the mutants: the threads do not look at server_terminate.           *)
LoopIgnoresTerminate(c) ==
  /\ thr[c] = "test"
  /\ ToThread(c, "poll")
  /\ UNCHANGED <<server_terminate, mainPc, temp, listVars, conn, signals, undefined, late, departed>>

Loop(c) ==
  /\ thr[c] = "test"
  /\ ToThread(c, IF server_terminate THEN "exited" ELSE "poll")
  /\ UNCHANGED <<server_terminate, mainPc, temp, listVars, conn, signals, undefined, late, departed>>

(* poll's two seconds are over, or a message came: its handler walks the   *)
(* list.                                                                   *)
PollTimeout(c) ==
  /\ thr[c] = "poll"
  /\ ToThread(c, "test")
  /\ UNCHANGED <<server_terminate, mainPc, temp, listVars, conn, signals, undefined, late, departed>>

Handle(c) ==
  /\ thr[c] = "poll" /\ conn[c] = "answered"
  /\ undefined' = WalkTouches
  /\ ToThread(c, "test")
  /\ UNCHANGED <<server_terminate, mainPc, temp, listVars, conn, signals, late, departed>>

ClientClosed(c) ==
  /\ thr[c] = "poll" /\ conn[c] = "closed"
  /\ ToThread(c, "close")
  /\ UNCHANGED <<server_terminate, mainPc, temp, listVars, conn, signals, undefined, late, departed>>

(* remove_client_node_from_queue_by_fd, and the thread exits.              *)
RemoveNode(c) ==
  /\ thr[c] = "close"
  /\ undefined' = WalkTouches
  /\ ToThread(c, "exited")
  /\ IF WalkTouches \/ c \notin Nodes THEN UNCHANGED <<listVars, departed>>
     ELSE /\ client_list' = RemoveAt(client_list, Position(c))
          /\ freed' = freed \cup {c}
          /\ total_available_clients' = (total_available_clients - 1) % 256
          /\ departed' = IF mainPc \in InLoop \cup {"leave"} THEN departed ELSE departed \cup {c}
  /\ UNCHANGED <<server_terminate, mainPc, temp, conn, signals, late>>

ThreadNext(c) ==
  /\ Running
  /\ \/ Register(c) \/ RegisterFails(c) \/ GreetEnds(c) \/ Loop(c)
     \/ PollTimeout(c) \/ Handle(c) \/ ClientClosed(c) \/ RemoveNode(c)
-----------------------------------------------------------------------------
(* SIGINT runs sig_int_handler in one thread and interrupts the call that  *)
(* thread is blocked in: main's accept, which leaves the loop; a thread's  *)
(* poll, which is taken for a closed connection; the receive of the        *)
(* greeting's answer, which fails; unless that call has not begun yet.     *)
(* pthread_join goes on.                                                   *)
Sigint(t) ==
  /\ Running /\ signals < MaxSignals
  /\ t \in Clients => thr[t] \in {"start", "greet", "test", "poll", "close"}
  /\ signals' = signals + 1
  /\ server_terminate' = TRUE
  /\ mainPc' = IF t = Main /\ mainPc = "accept" THEN "leave" ELSE mainPc
  /\ \/ UNCHANGED thr
     \/ t \in Clients /\ thr[t] = "poll" /\ ToThread(t, "close")
     \/ t \in Clients /\ thr[t] = "greet" /\ ToThread(t, "exited")
  /\ UNCHANGED <<temp, listVars, conn, undefined, late, departed>>

(* The client: it connects, answers the greeting, and goes; when nobody    *)
(* listens it may as well go later.                                        *)
ClientStep(c) ==
  /\ Running
  /\ \/ conn[c] = "none" /\ conn' = [conn EXCEPT ![c] = "open"]
     \/ conn[c] = "open" /\ thr[c] = "greet" /\ conn' = [conn EXCEPT ![c] = "answered"]
     \/ /\ conn[c] # "closed" /\ thr[c] \in {"greet", "poll"}
        /\ conn' = [conn EXCEPT ![c] = "closed"]
  /\ UNCHANGED <<server_terminate, mainPc, temp, listVars, thr, signals, undefined, late, departed>>

Next ==
  \/ MainNext
  \/ \E c \in Clients : ThreadNext(c) \/ ClientStep(c)
  \/ \E t \in Interrupted : Sigint(t)

Spec == Init /\ [][Next]_vars

(* Main and every thread run when they can; poll ends after two seconds.   *)
(* Nothing is assumed of the clients or of the user's SIGINT.              *)
FairSpec == Spec /\ WF_vars(MainNext) /\ \A c \in Clients : WF_vars(ThreadNext(c))
-----------------------------------------------------------------------------
(* Whatever main frees belongs to a thread that has ended, unless that     *)
(* thread added its node behind main's walk along the list (lines 327-333  *)
(* of server_queue.c): the join and the free agree on the nodes.           *)
FreesJoinedNodes ==
  mainPc = "free_node" /\ ~ undefined /\ client_list # <<>> =>
    thr[First] = "exited" \/ First \in late

(* A thread that still serves its client has its node in the list, or      *)
(* added it behind main's walk: main, which stops at the first thread that *)
(* has not ended, takes no node from under a handler.                      *)
ServingKeepsNode ==
  ~ undefined =>
    \A c \in Clients :
      thr[c] \in {"greet", "test", "poll", "close"} => c \in Nodes \/ c \in late

(* The shutdown reads freed memory only because of a client that left, or  *)
(* whose poll the signal interrupted, while main walked, or of a thread    *)
(* that registered too late: never when everybody stays.                   *)
UndefinedHasCause == undefined => departed # {} \/ late # {}

(* Once main is out of its loop the server ends, unless a thread waits for *)
(* a greeting to be answered, which nothing bounds (server_mgmt.c:216).    *)
ShutdownEnds ==
  mainPc = "leave" ~>
    mainPc = "returned" \/ undefined \/ \E c \in Clients : thr[c] = "greet"

(* After SIGINT every thread in its loop ends within one more message,     *)
(* also while main still waits in accept.                                  *)
ThreadsStop ==
  \A c \in Clients :
    server_terminate /\ thr[c] \in {"test", "poll", "close"} ~> thr[c] = "exited" \/ ~ Running

(* A SIGINT that main missed takes effect at the next connection.          *)
NextConnectionEndsLoop ==
  server_terminate /\ (\E c \in Clients : thr[c] = "none" /\ conn[c] # "none") ~>
    mainPc \notin InLoop \/ undefined
=============================================================================
