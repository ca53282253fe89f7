------------------------ MODULE ChatRefinementProofs ------------------------
(***************************************************************************)
(* ChatSystem implements Admission and ChatLinks, for any number of        *)
(* clients, descriptors and names.                                         *)
(***************************************************************************)
EXTENDS ChatRefinement, ChatSystemProofs, FiniteSetTheorems

-----------------------------------------------------------------------------
(* Admission: the places are the nodes of the list                         *)

LEMMA PlacedAreListed ==
  ASSUME IInv
  PROVE  Adm!Placed = Listed
<1>1. /\ pc \in [Clients -> Pcs] /\ Listed \subseteq Clients
      /\ \A c \in Clients : pc[c] \in ServingPcs => c \in Listed
      /\ \A c \in Listed : pc[c] \in ServingPcs \cup {"exited"}
  BY ListedFacts DEF IInv, ListInv, ServedIsListed, TypeOK, ServerTypeOK
<1>2. \A c \in Clients :
        StageOf(c) \in {"admitted", "served", "stranded"} <=> c \in Listed
  BY <1>1 DEF StageOf, Pcs, ServingPcs, HandlerPcs
<1> QED
  BY <1>1, <1>2 DEF Adm!Placed, Stage

(* So all places are taken exactly when the code finds its list full.      *)
LEMMA FullIsQueueFull ==
  ASSUME IInv
  PROVE  Adm!Full <=> QueueFull
<1>1. /\ clientList \in Seq(Clients) /\ \A i, j \in DOMAIN clientList :
                                          clientList[i] = clientList[j] => i = j
      /\ total_available_clients = Len(clientList) /\ Len(clientList) <= MAX_CLIENT
  BY DEF IInv, ListInv, FdNamesOneClient, CountMatches, TypeOK, RegistryTypeOK
<1>2. Len(clientList) \in Nat /\ DOMAIN clientList = 1..Len(clientList)
  BY <1>1, LenProperties
<1>3. Cardinality(Listed) = Len(clientList)
  <2>1. clientList \in [1..Len(clientList) -> Listed]
    BY <1>1, <1>2 DEF Listed, Range
  <2>2. clientList \in Bijection(1..Len(clientList), Listed)
    BY <1>1, <1>2, <2>1 DEF Bijection, Injection, Surjection, Listed, Range, IsInjective
  <2>3. IsFiniteSet(1..Len(clientList)) /\ Cardinality(1..Len(clientList)) = Len(clientList)
    <3> DEFINE n == Len(clientList)
    <3>1. n \in Nat /\ 1 \in Int /\ n \in Int
      BY <1>2
    <3> HIDE DEF n
    <3>2. IsFiniteSet(1..n) /\ Cardinality(1..n) = IF 1 > n THEN 0 ELSE n - 1 + 1
      BY <3>1, FS_Interval
    <3>3. Cardinality(1..n) = n
      BY <3>1, <3>2
    <3> QED
      BY <3>2, <3>3 DEF n
  <2> QED
    BY <2>2, <2>3, FS_Bijection DEF ExistsBijection
<1>4. Adm!Full <=> Len(clientList) = MAX_CLIENT
  <2>1. \A S : Adm!Cardinality(S) = Cardinality(S)
    BY DEF Adm!Cardinality, Cardinality
  <2> QED
    BY <1>3, <2>1, PlacedAreListed DEF Adm!Full
<1>5. QueueFull <=> Len(clientList) >= MAX_CLIENT
  BY <1>1 DEF QueueFull
<1> QED
  BY <1>1, <1>2, <1>4, <1>5, MaxClientAssumption

(* What a thread's control point says of the stage.                        *)
StageTable(c) ==
  /\ pc[c] = "none" => StageOf(c) = "outside"
  /\ pc[c] \in {"accepted", "start"} => StageOf(c) = "waiting"
  /\ pc[c] = "refused" => StageOf(c) = "refused"
  /\ pc[c] = "greet" => StageOf(c) = "admitted"
  /\ pc[c] \in HandlerPcs \cup {"loop"} => StageOf(c) = "served"
  /\ pc[c] = "exited" /\ c \in Listed => StageOf(c) = "stranded"
  /\ pc[c] = "exited" /\ c \notin Listed => StageOf(c) = "departed"

LEMMA StageTableHolds ==
  ASSUME NEW c
  PROVE  StageTable(c) /\ StageTable(c)'
<1>1. StageTable(c)
  BY DEF StageTable, StageOf, ServingPcs, HandlerPcs
<1>2. StageTable(c)'
  BY DEF StageTable, StageOf, ServingPcs, HandlerPcs
<1> QED
  BY <1>1, <1>2

(* A step of thread c alone moves nobody else to another stage.            *)
LEMMA OnlyOneMoves ==
  ASSUME IInv, IInv', NEW c \in Clients,
         \A d \in Clients : d # c => pc'[d] = pc[d] /\ (d \in Listed' <=> d \in Listed)
  PROVE  Stage' = [Stage EXCEPT ![c] = StageOf(c)']
<1>1. \A d \in Clients : d # c => StageOf(d)' = StageOf(d)
  BY DEF StageOf
<1> QED
  BY <1>1 DEF Stage

LEMMA StageStays ==
  ASSUME UNCHANGED <<pc, clientList>>
  PROVE  UNCHANGED Stage
BY DEF Stage, StageOf, Listed

(* What each step of the program is for Admission.                         *)
LEMMA StepsAreAdmission ==
  ASSUME IInv, IInv', [Next]_vars
  PROVE  [Adm!Next]_Stage
<1>0. /\ pc \in [Clients -> Pcs] /\ ServedIsListed /\ ServedIsListed'
      /\ \A c \in Clients : pc[c] \in ServingPcs => c \in Listed
      /\ \A c \in Clients : pc'[c] \in ServingPcs => c \in Listed'
  BY DEF IInv, ListInv, TypeOK, ServerTypeOK, ServedIsListed
<1>1. ASSUME NEW c \in Clients, NEW p, GoTo(c, p), UNCHANGED clientList
      PROVE  Stage' = [Stage EXCEPT ![c] = StageOf(c)'] /\ pc'[c] = p
             /\ (c \in Listed' <=> c \in Listed)
  <2>1. \A d \in Clients : d # c => pc'[d] = pc[d] /\ (d \in Listed' <=> d \in Listed)
    BY <1>0, <1>1 DEF GoTo, Listed
  <2> QED
    BY <1>0, <1>1, <2>1, OnlyOneMoves DEF GoTo, Listed
<1>2. \A c \in Clients : Stage[c] = StageOf(c) /\ StageTable(c) /\ StageTable(c)'
  BY StageTableHolds DEF Stage
<1>3. ASSUME NEW c \in Clients, MainNext(c)
      PROVE  [Adm!Next]_Stage
  <2>1. ASSUME NEW f \in Fds, Accept(c, f)
        PROVE  Adm!Come(c)
    <3>1. pc[c] = "none" /\ GoTo(c, "accepted") /\ UNCHANGED clientList
      BY <2>1 DEF Accept, listVars
    <3> QED
      BY <1>1, <1>2, <3>1 DEF Adm!Come, Adm!Moves, StageTable
  <2>2. CASE Admit(c)
    <3>1. pc[c] = "accepted" /\ GoTo(c, "start") /\ UNCHANGED clientList
      BY <2>2 DEF Admit, At, listVars
    <3>2. Stage' = [Stage EXCEPT ![c] = Stage[c]]
      BY <1>1, <1>2, <3>1 DEF StageTable
    <3> QED
      BY <3>2 DEF Stage
  <2>3. CASE TurnAway(c) \/ SpawnFails(c)
    <3>1. /\ pc[c] = "accepted" /\ GoTo(c, "refused") /\ UNCHANGED clientList
          /\ QueueFull \/ OutOfMemory
      BY <2>3 DEF TurnAway, SpawnFails, At, listVars
    <3> QED
      BY <1>1, <1>2, <3>1, FullIsQueueFull DEF Adm!Refuse, Adm!Moves, StageTable, Adm!Next
  <2> QED
    BY <1>3, <2>1, <2>2, <2>3 DEF MainNext, Adm!Next
<1>4. ASSUME NEW c \in Clients, ThreadNext(c)
      PROVE  [Adm!Next]_Stage
  <2>1. CASE Register(c)
    <3>1. /\ pc[c] = "start" /\ pc' = [pc EXCEPT ![c] = "greet"] /\ ~ QueueFull
          /\ clientList' = Append(clientList, c)
      BY <2>1 DEF Register, At, GoTo, add_client_node_to_queue
    <3>2. Listed' = Listed \cup {c}
      <4>1. clientList \in Seq(Clients)
        BY DEF IInv, TypeOK, RegistryTypeOK
      <4> QED
        BY <3>1, <4>1, AppendProperties, LenProperties DEF Listed, Range
    <3>3. \A d \in Clients : d # c => pc'[d] = pc[d] /\ (d \in Listed' <=> d \in Listed)
      BY <1>0, <3>1, <3>2
    <3>4. Stage' = [Stage EXCEPT ![c] = StageOf(c)'] /\ pc'[c] = "greet"
      BY <1>0, <3>1, <3>3, OnlyOneMoves
    <3> QED
      BY <1>2, <3>1, <3>4, FullIsQueueFull DEF Adm!Admit, Adm!Moves, StageTable, Adm!Next
  <2>2. CASE RegisterFails(c)
    <3>1. /\ pc[c] = "start" /\ GoTo(c, "refused") /\ UNCHANGED clientList
          /\ QueueFull \/ OutOfMemory
      BY <2>2 DEF RegisterFails, At, listVars
    <3> QED
      BY <1>1, <1>2, <3>1, FullIsQueueFull DEF Adm!Refuse, Adm!Moves, StageTable, Adm!Next
  <2>3. CASE Greeted(c)
    <3>1. pc[c] = "greet" /\ GoTo(c, "loop") /\ UNCHANGED clientList
      BY <2>3 DEF Greeted, At, listVars
    <3> QED
      BY <1>1, <1>2, <3>1 DEF Adm!Serve, Adm!Moves, StageTable, Adm!Next
  <2>4. CASE GreetFails(c)
    <3>1. pc[c] = "greet" /\ GoTo(c, "exited") /\ UNCHANGED clientList
      BY <2>4 DEF GreetFails, At, listVars
    <3>2. c \in Listed'
      BY <1>0, <1>1, <3>1 DEF ServingPcs
    <3> QED
      BY <1>1, <1>2, <3>1, <3>2 DEF Adm!Strand, Adm!Moves, StageTable, Adm!Next
  <2>5. CASE ClientClosed(c)
    <3>1. Listed' = Listed \ {c} /\ pc[c] = "loop" /\ pc' = [pc EXCEPT ![c] = "exited"]
      BY <2>5, ClosedRemovesOwnNode DEF IInv
    <3>2. \A d \in Clients : d # c => pc'[d] = pc[d] /\ (d \in Listed' <=> d \in Listed)
      BY <1>0, <3>1
    <3>3. Stage' = [Stage EXCEPT ![c] = StageOf(c)'] /\ pc'[c] = "exited"
      BY <1>0, <3>1, <3>2, OnlyOneMoves
    <3> QED
      BY <1>2, <3>1, <3>3 DEF Adm!Leave, Adm!Moves, StageTable, Adm!Next
  <2>6. CASE Request(c) \/ RequestMark(c) \/ RequestLink(c) \/ AcceptReads(c) \/ AcceptBusy(c)
               \/ AcceptPair(c) \/ AcceptReply(c) \/ Tx(c) \/ Disconnect(c) \/ Decline(c)
               \/ DeclineFree(c)
    <3>1. PICK p \in HandlerPcs \cup {"loop"} :
            UNCHANGED clientList /\ (GoTo(c, p) \/ UNCHANGED pc)
      BY <2>6 DEF Request, RequestMark, RequestLink, AcceptReads, AcceptBusy, AcceptPair,
         AcceptReply, Tx, Disconnect, Decline, DeclineFree, HandlerFrame, listVars, HandlerPcs
    <3>2. pc[c] \in HandlerPcs \cup {"loop"}
      BY <2>6 DEF Request, RequestMark, RequestLink, AcceptReads, AcceptBusy, AcceptPair,
         AcceptReply, Tx, Disconnect, Decline, DeclineFree, Received, At, HandlerPcs
    <3>3. CASE UNCHANGED pc
      BY <3>1, <3>3, StageStays
    <3>4. CASE GoTo(c, p)
      <4>1. Stage' = [Stage EXCEPT ![c] = Stage[c]]
        BY <1>1, <1>2, <3>1, <3>2, <3>4 DEF StageTable
      <4> QED
        BY <4>1 DEF Stage
    <3> QED
      BY <3>1, <3>3, <3>4
  <2>7. CASE SetName(c) \/ GetClientList(c) \/ AcceptNoFd(c) \/ AcceptNoMoreExist(c) \/ Flush(c)
    BY <2>7, StageStays
       DEF SetName, GetClientList, AcceptNoFd, AcceptNoMoreExist, Flush, HandlerFrame, listVars
  <2> QED
    BY <1>4, <2>1, <2>2, <2>3, <2>4, <2>5, <2>6, <2>7 DEF ThreadNext
<1>5. CASE UNCHANGED serverVars
  BY <1>5, StageStays DEF serverVars, listVars, threadVars
<1> QED
  BY <1>3, <1>4, <1>5 DEF Next, ServerNext, vars, serverVars

LEMMA InitIsAdmission == Init => Adm!Init
<1>1. Init => \A c \in Clients : pc[c] = "none"
  BY DEF Init, ServerInit
<1> QED
  BY <1>1, StageTableHolds DEF Adm!Init, Stage, StageTable

(* Main's count and the threads' registrations, each in a section of its   *)
(* own, admit and refuse as if the decision were one step: nobody beyond   *)
(* the last place, nobody refused while one is free                        *)
(* (server_mgmt.c:161-192, 234-253).                                       *)
THEOREM AdmissionIsKept == Spec => AdmissionSpec
<1>1. Init => Adm!Init
  BY InitIsAdmission
<1>2. IInv /\ IInv' /\ [Next]_vars => [Adm!Next]_Stage
  BY StepsAreAdmission
<1> QED
  BY <1>1, <1>2, Invariance, PTL DEF Spec, AdmissionSpec, Adm!Spec
-----------------------------------------------------------------------------
(* Links: a descriptor stands for the listed client that has it            *)

WhomTable ==
  \A f : /\ Whom(f) = Nobody <=> f = INVALID_FD
         /\ \A d \in Clients : Whom(f) = d <=> d \in Listed /\ my_socket[d] = f
         /\ Whom(f) \in Listed \cup {Nobody, Gone}

LEMMA WhomIsListed == IInv => WhomTable
<1> SUFFICES ASSUME IInv, NEW f
             PROVE  /\ Whom(f) = Nobody <=> f = INVALID_FD
                    /\ \A d \in Clients : Whom(f) = d <=> d \in Listed /\ my_socket[d] = f
                    /\ Whom(f) \in Listed \cup {Nobody, Gone}
  BY DEF WhomTable
<1>1. Nobody # Gone /\ Nobody \notin Clients /\ Gone \notin Clients /\ NoClient \notin Clients
  BY RefAssumption, NoClientAssumption
<1>2. /\ \A d \in Listed : /\ d \in Clients /\ NodeByFd(my_socket[d]) = d
                           /\ my_socket[d] # INVALID_FD
      /\ NodeByFd(f) # NoClient => NodeByFd(f) \in Listed /\ my_socket[NodeByFd(f)] = f
  BY ListedFacts DEF IInv
<1> QED
  BY <1>1, <1>2 DEF Whom

LEMMA WhomIsListedAfter == IInv' => WhomTable'
BY WhomIsListed, PTL

(* While the list and the descriptors in it stay, so does what every       *)
(* descriptor stands for.                                                  *)
LEMMA FrameKeepsWhom ==
  ASSUME UNCHANGED clientList, \A d \in Listed : my_socket'[d] = my_socket[d]
  PROVE  /\ Listed' = Listed
         /\ \A f : NodeByFd(f)' = NodeByFd(f) /\ Whom(f)' = Whom(f)
<1>1. \A f : PositionsOfFd(f)' = PositionsOfFd(f)
  BY DEF PositionsOfFd, Listed, Range
<1>2. \A f : NodeByFd(f)' = NodeByFd(f)
  BY <1>1 DEF NodeByFd
<1> QED
  BY <1>2 DEF Whom, Listed

(* What a client's status and a thread's control point are for ChatLinks.  *)
LinksTable(c) ==
  /\ c \notin Listed => StatusOf(c) = "out" /\ LinkOf(c) = Nobody
  /\ c \in Listed => LinkOf(c) = Whom(to_fd[c])
  /\ c \in Listed /\ chat_status[c] = "CHAT_STATUS_FREE" => StatusOf(c) = "free"
  /\ c \in Listed /\ chat_status[c] = "CHAT_STATUS_BUSY" => StatusOf(c) = "busy"
  /\ c \in Listed /\ chat_status[c] = "CHAT_STATUS_REQ_PENDING" => StatusOf(c) = "pending"
  /\ pc[c] = "req_link" => DoingOf(c) = "asking" /\ HeldBy(c) = Whom(loc[c].conn_fd)
  /\ pc[c] = "acc_pair" => DoingOf(c) = "accepting" /\ HeldBy(c) = Whom(loc[c].conn_fd)
  /\ pc[c] = "tx_disc" => DoingOf(c) = "parting" /\ HeldBy(c) = Whom(loc[c].conn_fd)
  /\ pc[c] \notin {"req_link", "acc_pair", "tx_disc"} =>
       DoingOf(c) = "idle" /\ HeldBy(c) = Nobody

LEMMA LinksTableHolds == \A c : LinksTable(c)
<1> SUFFICES ASSUME NEW c PROVE LinksTable(c)
  OBVIOUS
<1>1. /\ c \notin Listed => StatusOf(c) = "out" /\ LinkOf(c) = Nobody
      /\ c \in Listed => LinkOf(c) = Whom(to_fd[c])
      /\ c \in Listed /\ chat_status[c] = "CHAT_STATUS_FREE" => StatusOf(c) = "free"
      /\ c \in Listed /\ chat_status[c] = "CHAT_STATUS_BUSY" => StatusOf(c) = "busy"
      /\ c \in Listed /\ chat_status[c] = "CHAT_STATUS_REQ_PENDING" => StatusOf(c) = "pending"
  BY DEF StatusOf, LinkOf
<1>2. /\ pc[c] = "req_link" => DoingOf(c) = "asking"
      /\ pc[c] = "acc_pair" => DoingOf(c) = "accepting"
      /\ pc[c] = "tx_disc" => DoingOf(c) = "parting"
      /\ pc[c] \notin {"req_link", "acc_pair", "tx_disc"} => DoingOf(c) = "idle"
  BY DEF DoingOf
<1> QED
  BY <1>1, <1>2 DEF LinksTable, HeldBy

LEMMA LinksTableHoldsAfter == (\A c : LinksTable(c))'
BY LinksTableHolds, PTL

LinkVars == <<Status, Link, Doing, Held>>

(* A step of thread c that keeps the list leaves the others doing what     *)
(* they do.                                                                *)
LEMMA OthersGoOn ==
  ASSUME UNCHANGED clientList, \A d \in Listed : my_socket'[d] = my_socket[d],
         NEW c \in Clients,
         \A d \in Clients : d # c => pc'[d] = pc[d] /\ loc'[d] = loc[d]
  PROVE  /\ Doing' = [Doing EXCEPT ![c] = DoingOf(c)']
         /\ Held' = [Held EXCEPT ![c] = HeldBy(c)']
         /\ UNCHANGED <<chat_status>> => UNCHANGED Status
         /\ UNCHANGED <<to_fd>> => UNCHANGED Link
<1>1. Listed' = Listed /\ \A f : Whom(f)' = Whom(f)
  BY FrameKeepsWhom
<1>2. \A d \in Clients : d # c => DoingOf(d)' = DoingOf(d)
  BY DEF DoingOf
<1>3. \A d \in Clients : d # c => HeldBy(d)' = HeldBy(d)
  BY <1>1, <1>2 DEF HeldBy
<1>4. UNCHANGED chat_status => \A d \in Clients : StatusOf(d)' = StatusOf(d)
  BY <1>1 DEF StatusOf
<1>5. UNCHANGED to_fd => \A d \in Clients : LinkOf(d)' = LinkOf(d)
  BY <1>1 DEF LinkOf
<1> QED
  BY <1>2, <1>3, <1>4, <1>5 DEF Doing, Held, Status, Link

(* Most steps are nothing to ChatLinks.                                    *)
LEMMA IdleStep ==
  ASSUME UNCHANGED <<clientList, chat_status, to_fd>>,
         \A d \in Listed : my_socket'[d] = my_socket[d],
         NEW c \in Clients,
         \A d \in Clients : d # c => pc'[d] = pc[d] /\ loc'[d] = loc[d],
         pc[c] \notin {"req_link", "acc_pair", "tx_disc"},
         pc'[c] \notin {"req_link", "acc_pair", "tx_disc"}
  PROVE  UNCHANGED LinkVars
<1>1. /\ DoingOf(c)' = "idle" /\ DoingOf(c) = "idle"
      /\ HeldBy(c)' = Nobody /\ HeldBy(c) = Nobody
  BY LinksTableHolds, LinksTableHoldsAfter DEF LinksTable
<1>2. /\ Doing' = [Doing EXCEPT ![c] = Doing[c]] /\ Held' = [Held EXCEPT ![c] = Held[c]]
      /\ UNCHANGED <<Status, Link>>
  BY <1>1, OthersGoOn DEF Doing, Held
<1> QED
  BY <1>2 DEF LinkVars, Doing, Held

LEMMA StayStep ==
  ASSUME UNCHANGED <<clientList, chat_status, to_fd, pc, loc>>,
         \A d \in Listed : my_socket'[d] = my_socket[d]
  PROVE  UNCHANGED LinkVars
<1>1. Listed' = Listed /\ \A f : Whom(f)' = Whom(f)
  BY FrameKeepsWhom
<1>2. \A d \in Clients : /\ StatusOf(d)' = StatusOf(d) /\ LinkOf(d)' = LinkOf(d)
                         /\ DoingOf(d)' = DoingOf(d)
  BY <1>1 DEF StatusOf, LinkOf, DoingOf
<1>3. \A d \in Clients : HeldBy(d)' = HeldBy(d)
  BY <1>1, <1>2 DEF HeldBy
<1> QED
  BY <1>2, <1>3 DEF LinkVars, Status, Link, Doing, Held
-----------------------------------------------------------------------------
(* Every step of the program is a step of ChatLinks                        *)

LEMMA AdmissionIsIdle ==
  ASSUME IInv, NEW c \in Clients,
         MainNext(c) \/ RegisterFails(c) \/ Greeted(c) \/ GreetFails(c)
  PROVE  UNCHANGED LinkVars
<1>1. pc \in [Clients -> Pcs] /\ my_socket \in [Clients -> Fds \cup {INVALID_FD}]
      /\ \A d \in Listed : pc[d] \in ServingPcs \cup {"exited"}
      /\ Listed \subseteq Clients
  BY ListedFacts DEF IInv, ListInv, ServedIsListed, TypeOK, ServerTypeOK, RegistryTypeOK
<1>2. ASSUME NEW p, GoTo(c, p), p \notin {"req_link", "acc_pair", "tx_disc"},
             pc[c] \notin {"req_link", "acc_pair", "tx_disc"},
             UNCHANGED <<clientList, chat_status, to_fd, loc>>,
             \A d \in Listed : my_socket'[d] = my_socket[d]
      PROVE  UNCHANGED LinkVars
  <2>1. pc'[c] = p /\ \A d \in Clients : d # c => pc'[d] = pc[d] /\ loc'[d] = loc[d]
    BY <1>1, <1>2 DEF GoTo
  <2> QED
    BY <1>2, <2>1, IdleStep
<1>3. ASSUME NEW f \in Fds, Accept(c, f)
      PROVE  UNCHANGED LinkVars
  <2>1. /\ pc[c] = "none" /\ GoTo(c, "accepted") /\ my_socket' = [my_socket EXCEPT ![c] = f]
        /\ UNCHANGED <<clientList, chat_status, to_fd, loc>>
    BY <1>3 DEF Accept, listVars, nodeVars
  <2>2. \A d \in Listed : my_socket'[d] = my_socket[d]
    BY <1>1, <2>1 DEF ServingPcs, HandlerPcs
  <2> QED
    BY <1>2, <2>1, <2>2
<1>4. CASE Admit(c) \/ TurnAway(c) \/ SpawnFails(c) \/ RegisterFails(c) \/ Greeted(c)
           \/ GreetFails(c)
  <2>1. /\ UNCHANGED <<clientList, chat_status, to_fd, loc, my_socket>>
        /\ pc[c] \in {"accepted", "start", "greet"}
        /\ GoTo(c, "start") \/ GoTo(c, "refused") \/ GoTo(c, "loop") \/ GoTo(c, "exited")
    BY <1>4 DEF Admit, TurnAway, SpawnFails, RegisterFails, Greeted, GreetFails, At, listVars,
       nodeVars
  <2> QED
    BY <1>2, <2>1
<1> QED
  BY <1>3, <1>4 DEF MainNext

LEMMA HandlerIsIdle ==
  ASSUME IInv, NEW c \in Clients,
         \/ SetName(c) \/ GetClientList(c) \/ Request(c) \/ AcceptNoFd(c) \/ AcceptReply(c)
         \/ Decline(c) \/ Flush(c)
  PROVE  UNCHANGED LinkVars
<1>1. pc \in [Clients -> Pcs] /\ loc \in [Clients -> LocalSet]
  BY DEF IInv, TypeOK, ServerTypeOK
<1>2. CASE SetName(c) \/ GetClientList(c) \/ AcceptNoFd(c) \/ Flush(c)
  <2>1. UNCHANGED <<clientList, chat_status, to_fd, pc, loc, my_socket>>
    BY <1>2 DEF SetName, GetClientList, AcceptNoFd, Flush, HandlerFrame, listVars, nodeVars
  <2> QED
    BY <2>1, StayStep
<1>3. CASE Request(c) \/ AcceptReply(c) \/ Decline(c)
  <2>1. /\ UNCHANGED <<clientList, chat_status, to_fd, my_socket>>
        /\ pc[c] \in {"loop", "acc_reply"}
        /\ GoTo(c, "loop") \/ GoTo(c, "req_mark") \/ GoTo(c, "decl_free") \/ UNCHANGED pc
        /\ UNCHANGED loc \/ \E l : Locals(c, l)
    BY <1>3 DEF Request, AcceptReply, Decline, Received, At, HandlerFrame, listVars, nodeVars
  <2>2. /\ \A d \in Clients : d # c => pc'[d] = pc[d] /\ loc'[d] = loc[d]
        /\ pc'[c] \in {"loop", "req_mark", "decl_free", "acc_reply"}
    BY <1>1, <2>1 DEF GoTo, Locals
  <2> QED
    BY <2>1, <2>2, IdleStep
<1> QED
  BY <1>2, <1>3

(* The handlers' other sections.  In each, c is listed, and its descriptor *)
(* stands for it.                                                          *)
LEMMA OwnNode ==
  ASSUME IInv, NEW c \in Clients, pc[c] \in ServingPcs
  PROVE  /\ c \in Listed /\ NodeByFd(my_socket[c]) = c /\ Whom(my_socket[c]) = c
         /\ my_socket[c] # INVALID_FD
         /\ get_conn_fd_by_fd(my_socket[c]) = to_fd[c]
         /\ get_client_chatting_status_by_fd(my_socket[c]) = chat_status[c]
<1>1. c \in Listed /\ NodeByFd(my_socket[c]) = c /\ my_socket[c] # INVALID_FD
  BY ListedFacts DEF IInv
<1>2. Whom(my_socket[c]) = c
  BY <1>1, WhomIsListed DEF WhomTable
<1> QED
  BY <1>1, <1>2, NoClientAssumption
     DEF get_conn_fd_by_fd, get_client_chatting_status_by_fd

(* A section that goes from one control point to another and writes        *)
(* fields of listed clients.                                               *)
LEMMA SectionMoves ==
  ASSUME IInv, NEW c \in Clients, NEW p, NEW l, GoTo(c, p), Locals(c, l),
         UNCHANGED <<listVars, my_socket>>
  PROVE  /\ Listed' = Listed /\ \A f : Whom(f)' = Whom(f)
         /\ Doing' = [Doing EXCEPT ![c] = DoingOf(c)']
         /\ Held' = [Held EXCEPT ![c] = HeldBy(c)']
         /\ UNCHANGED <<chat_status>> => UNCHANGED Status
         /\ UNCHANGED <<to_fd>> => UNCHANGED Link
         /\ pc'[c] = p /\ loc'[c] = l
         /\ Doing[c] = DoingOf(c) /\ Held[c] = HeldBy(c) /\ Link[c] = LinkOf(c)
         /\ Status[c] = StatusOf(c)
         /\ LinksTable(c) /\ LinksTable(c)'
<1>1. pc \in [Clients -> Pcs] /\ loc \in [Clients -> LocalSet]
  BY DEF IInv, TypeOK, ServerTypeOK
<1>2. /\ pc'[c] = p /\ loc'[c] = l
      /\ \A d \in Clients : d # c => pc'[d] = pc[d] /\ loc'[d] = loc[d]
  BY <1>1 DEF GoTo, Locals
<1>3. UNCHANGED clientList /\ \A d \in Listed : my_socket'[d] = my_socket[d]
  BY DEF listVars
<1> QED
  BY <1>2, <1>3, FrameKeepsWhom, OthersGoOn, LinksTableHolds, LinksTableHoldsAfter
     DEF Doing, Held, Status, Link

(* What such a section does to a field is what it does to the client.      *)
LEMMA FieldsMove ==
  ASSUME IInv, Listed' = Listed, \A f : Whom(f)' = Whom(f)
  PROVE  /\ \A d \in Clients : chat_status'[d] = chat_status[d] => StatusOf(d)' = StatusOf(d)
         /\ \A d \in Clients : to_fd'[d] = to_fd[d] => LinkOf(d)' = LinkOf(d)
         /\ \A d \in Clients \ Listed : /\ StatusOf(d)' = "out" /\ StatusOf(d) = "out"
                                        /\ LinkOf(d)' = Nobody /\ LinkOf(d) = Nobody
         /\ \A d \in Listed : /\ StatusOf(d) \in {"free", "busy", "pending"}
                              /\ LinkOf(d) = Whom(to_fd[d])
                              /\ LinkOf(d)' = Whom(to_fd'[d])
                              /\ chat_status'[d] = "CHAT_STATUS_FREE" => StatusOf(d)' = "free"
                              /\ chat_status'[d] = "CHAT_STATUS_BUSY" => StatusOf(d)' = "busy"
                              /\ chat_status'[d] = "CHAT_STATUS_REQ_PENDING" =>
                                   StatusOf(d)' = "pending"
<1>1. /\ \A d \in Clients : chat_status'[d] = chat_status[d] => StatusOf(d)' = StatusOf(d)
      /\ \A d \in Clients : to_fd'[d] = to_fd[d] => LinkOf(d)' = LinkOf(d)
  BY DEF StatusOf, LinkOf
<1>2. \A d \in Listed : chat_status[d] \in ChatStatus
  BY ListedFacts DEF IInv, TypeOK, RegistryTypeOK
<1>3. \A d : LinksTable(d) /\ LinksTable(d)'
  BY LinksTableHolds, LinksTableHoldsAfter
<1>4. \A d \in Clients \ Listed : /\ StatusOf(d)' = "out" /\ StatusOf(d) = "out"
                                  /\ LinkOf(d)' = Nobody /\ LinkOf(d) = Nobody
  BY <1>3 DEF LinksTable
<1>5. \A d \in Listed : StatusOf(d) \in {"free", "busy", "pending"} /\ LinkOf(d) = Whom(to_fd[d])
  BY <1>2, <1>3 DEF LinksTable, ChatStatus
<1>6. \A d \in Listed : /\ LinkOf(d)' = Whom(to_fd'[d])
                        /\ chat_status'[d] = "CHAT_STATUS_FREE" => StatusOf(d)' = "free"
                        /\ chat_status'[d] = "CHAT_STATUS_BUSY" => StatusOf(d)' = "busy"
                        /\ chat_status'[d] = "CHAT_STATUS_REQ_PENDING" => StatusOf(d)' = "pending"
  BY <1>3 DEF LinksTable
<1> QED
  BY <1>1, <1>4, <1>5, <1>6

LEMMA MarkIsAsk ==
  ASSUME IInv, NEW c \in Clients, RequestMark(c)
  PROVE  [Lnk!Next]_LinkVars
<1> DEFINE conn == get_client_fd_by_name(loc[c].conn_name)
           node == NodeByName(loc[c].conn_name)
<1>1. /\ pc[c] = "req_mark" /\ UNCHANGED <<listVars, my_socket, to_fd>>
      /\ chat_status' = set_client_chatting_status_by_fd(chat_status, conn,
                                                         "CHAT_STATUS_REQ_PENDING")
      /\ IF conn = INVALID_FD
         THEN GoTo(c, "loop") /\ Locals(c, NoLocals)
         ELSE GoTo(c, "req_link") /\ Locals(c, Local(loc[c].conn_name, conn, NoClient))
  BY DEF RequestMark, At, HandlerFrame
<1>2. /\ c \in Listed
      /\ node # NoClient => node \in Listed /\ name[node] = loc[c].conn_name
      /\ loc[c].conn_name # name[c]
      /\ conn = IF node = NoClient THEN INVALID_FD ELSE my_socket[node]
  BY <1>1, NodeByNameFinds, OwnNode DEF IInv, TypeOK, LinkInv, LocalsInv, LocalsOf,
     ServingPcs, HandlerPcs, get_client_fd_by_name
<1>3. WhomTable /\ \A d \in Listed : /\ d \in Clients /\ NodeByFd(my_socket[d]) = d
                                     /\ my_socket[d] # INVALID_FD
  BY WhomIsListed, ListedFacts DEF IInv
<1>4. CASE conn = INVALID_FD
  <2>1. NodeByFd(conn) = NoClient
    BY <1>4, ListedFacts DEF IInv
  <2>2. UNCHANGED chat_status
    BY <1>1, <2>1 DEF set_client_chatting_status_by_fd
  <2>3. pc'[c] = "loop" /\ Doing' = [Doing EXCEPT ![c] = Doing[c]]
        /\ Held' = [Held EXCEPT ![c] = Held[c]] /\ UNCHANGED <<Status, Link>>
    BY <1>1, <1>4, <2>2, SectionMoves DEF LinksTable
  <2> QED
    BY <2>3 DEF LinkVars, Doing, Held
<1>5. CASE conn # INVALID_FD
  <2> PICK n : n = node
    OBVIOUS
  <2>1. n \in Listed /\ n \in Clients /\ n # c /\ conn = my_socket[n] /\ NodeByFd(conn) = n
    BY <1>2, <1>3, <1>5
  <2>2. /\ Listed' = Listed /\ \A f : Whom(f)' = Whom(f)
        /\ Doing' = [Doing EXCEPT ![c] = DoingOf(c)'] /\ Held' = [Held EXCEPT ![c] = HeldBy(c)']
        /\ UNCHANGED Link /\ pc'[c] = "req_link" /\ loc'[c] = Local(loc[c].conn_name, conn, NoClient)
        /\ Doing[c] = DoingOf(c) /\ LinksTable(c) /\ LinksTable(c)'
    BY <1>1, <1>5, SectionMoves
  <2>3. loc'[c].conn_fd = conn /\ Whom(conn) = n
    BY <1>3, <2>1, <2>2 DEF Local, WhomTable
  <2>4. Doing[c] = "idle" /\ DoingOf(c)' = "asking" /\ HeldBy(c)' = n
    BY <1>1, <2>2, <2>3 DEF LinksTable
  <2>5. chat_status' = [chat_status EXCEPT ![n] = "CHAT_STATUS_REQ_PENDING"]
    BY <1>1, <2>1, NoClientAssumption DEF set_client_chatting_status_by_fd
  <2>6. /\ chat_status'[n] = "CHAT_STATUS_REQ_PENDING"
        /\ \A d \in Clients : d # n => chat_status'[d] = chat_status[d]
    BY <2>1, <2>5 DEF IInv, TypeOK, RegistryTypeOK
  <2>7. StatusOf(n)' = "pending" /\ \A d \in Clients : d # n => StatusOf(d)' = StatusOf(d)
    BY <2>1, <2>2, <2>6, FieldsMove
  <2>8. Status' = [Status EXCEPT ![n] = "pending"]
    BY <2>1, <2>7 DEF Status
  <2>9. Status[c] # "out" /\ Status[n] # "out"
    BY <1>2, <2>1, <2>2, FieldsMove DEF Status
  <2>10. Lnk!Ask(c, n)
    BY <2>1, <2>2, <2>4, <2>8, <2>9 DEF Lnk!Ask, Lnk!Begins
  <2> QED
    BY <2>1, <2>10 DEF Lnk!Next
<1> QED
  BY <1>4, <1>5

(* Writing both ends of a pair writes at the thread's client and at whom   *)
(* it holds.                                                               *)
LEMMA BothEnds ==
  ASSUME IInv, NEW c \in Clients, c \in Listed, Listed' = Listed, \A f : Whom(f)' = Whom(f),
         NEW conn, conn # my_socket[c], Held[c] = Whom(conn)
  PROVE  /\ \A t \in Fds \cup {INVALID_FD}, u \in Fds \cup {INVALID_FD} :
              to_fd' = set_to_fd_by_fd(set_to_fd_by_fd(to_fd, my_socket[c], t), conn, u) =>
                Link' = Lnk!Both(Link, c, Whom(t), Whom(u))
         /\ \A s \in ChatStatus :
              chat_status' = set_client_chatting_status_by_fd(
                set_client_chatting_status_by_fd(chat_status, my_socket[c], s), conn, s) =>
                  /\ s = "CHAT_STATUS_BUSY" => Status' = Lnk!Both(Status, c, "busy", "busy")
                  /\ s = "CHAT_STATUS_FREE" => Status' = Lnk!Both(Status, c, "free", "free")
<1>1. /\ WhomTable /\ RegistryTypeOK /\ \A d \in Listed : d \in Clients
      /\ \A d, e \in Listed : my_socket[d] = my_socket[e] => d = e
  BY WhomIsListed, ListedFacts DEF IInv, TypeOK
<1>2. \A d \in Clients : d = Held[c] <=> d \in Listed /\ my_socket[d] = conn
  BY <1>1 DEF WhomTable
<1>3. ASSUME NEW t \in Fds \cup {INVALID_FD}, NEW u \in Fds \cup {INVALID_FD},
             to_fd' = set_to_fd_by_fd(set_to_fd_by_fd(to_fd, my_socket[c], t), conn, u)
      PROVE  Link' = Lnk!Both(Link, c, Whom(t), Whom(u))
  <2>1. set_to_fd_by_fd(to_fd, my_socket[c], t) \in [Clients -> Fds \cup {INVALID_FD}]
    BY <1>1, SettersTyped, NoClientAssumption DEF RegistryTypeOK
  <2>2. \A d \in Listed : to_fd'[d] = IF my_socket[d] = conn THEN u
                                      ELSE IF my_socket[d] = my_socket[c] THEN t ELSE to_fd[d]
    BY <1>1, <1>3, <2>1, ListedFacts DEF IInv, RegistryTypeOK
  <2>3. \A d \in Clients : LinkOf(d)' = IF d = c THEN Whom(t)
                                        ELSE IF d = Held[c] THEN Whom(u) ELSE LinkOf(d)
    <3> SUFFICES ASSUME NEW d \in Clients
                 PROVE  LinkOf(d)' = IF d = c THEN Whom(t)
                                     ELSE IF d = Held[c] THEN Whom(u) ELSE LinkOf(d)
      OBVIOUS
    <3>1. CASE d \notin Listed
      BY <1>2, <3>1, FieldsMove
    <3>2. CASE d \in Listed
      <4>1. LinkOf(d)' = Whom(to_fd'[d]) /\ LinkOf(d) = Whom(to_fd[d])
        BY <3>2, FieldsMove
      <4> QED
        BY <1>1, <1>2, <2>2, <3>2, <4>1
    <3> QED
      BY <3>1, <3>2
  <2> QED
    BY <2>3 DEF Link, Lnk!Both
<1>4. ASSUME NEW s \in ChatStatus, NEW a,
             \/ s = "CHAT_STATUS_BUSY" /\ a = "busy"
             \/ s = "CHAT_STATUS_FREE" /\ a = "free",
             chat_status' = set_client_chatting_status_by_fd(
               set_client_chatting_status_by_fd(chat_status, my_socket[c], s), conn, s)
      PROVE  Status' = Lnk!Both(Status, c, a, a)
  <2>1. set_client_chatting_status_by_fd(chat_status, my_socket[c], s) \in [Clients -> ChatStatus]
    BY <1>1, SettersTyped, NoClientAssumption DEF RegistryTypeOK
  <2>2. \A d \in Listed : chat_status'[d] =
          IF my_socket[d] = conn THEN s
          ELSE IF my_socket[d] = my_socket[c] THEN s ELSE chat_status[d]
    BY <1>1, <1>4, <2>1, ListedFacts DEF IInv, RegistryTypeOK
  <2>3. \A d \in Clients : StatusOf(d)' = IF d = c \/ d = Held[c] THEN a ELSE StatusOf(d)
    <3> SUFFICES ASSUME NEW d \in Clients
                 PROVE  StatusOf(d)' = IF d = c \/ d = Held[c] THEN a ELSE StatusOf(d)
      OBVIOUS
    <3>1. CASE d \notin Listed
      BY <1>2, <3>1, FieldsMove
    <3>2. CASE d \in Listed
      <4>1. chat_status'[d] = IF d = c \/ d = Held[c] THEN s ELSE chat_status[d]
        BY <1>1, <1>2, <2>2, <3>2
      <4> QED
        BY <1>4, <3>2, <4>1, FieldsMove
    <3> QED
      BY <3>1, <3>2
  <2> QED
    BY <2>3 DEF Status, Lnk!Both
<1> QED
  BY <1>3, <1>4

LEMMA LinkIsTie ==
  ASSUME IInv, NEW c \in Clients, RequestLink(c)
  PROVE  Lnk!Next
<1> DEFINE conn == loc[c].conn_fd
<1>1. /\ pc[c] = "req_link" /\ UNCHANGED <<listVars, my_socket, chat_status>>
      /\ to_fd' = set_to_fd_by_fd(set_to_fd_by_fd(to_fd, my_socket[c], conn), conn, my_socket[c])
      /\ GoTo(c, "loop") /\ Locals(c, NoLocals)
  BY DEF RequestLink, At, HandlerFrame
<1>2. /\ c \in Listed /\ conn # my_socket[c] /\ Whom(my_socket[c]) = c
      /\ conn \in Fds \cup {INVALID_FD} /\ my_socket[c] \in Fds \cup {INVALID_FD}
  BY <1>1, OwnNode DEF IInv, TypeOK, RegistryTypeOK, ServerTypeOK, LocalSet, LinkInv,
     LocalsInv, LocalsOf, ServingPcs, HandlerPcs
<1>3. /\ Listed' = Listed /\ \A f : Whom(f)' = Whom(f)
      /\ Doing' = [Doing EXCEPT ![c] = DoingOf(c)'] /\ Held' = [Held EXCEPT ![c] = HeldBy(c)']
      /\ UNCHANGED Status /\ pc'[c] = "loop"
      /\ Doing[c] = DoingOf(c) /\ Held[c] = HeldBy(c) /\ LinksTable(c) /\ LinksTable(c)'
  BY <1>1, SectionMoves
<1>4. /\ Doing[c] = "asking" /\ Held[c] = Whom(conn)
      /\ DoingOf(c)' = "idle" /\ HeldBy(c)' = Nobody
  BY <1>1, <1>3 DEF LinksTable
<1>5. Link' = Lnk!Both(Link, c, Held[c], c)
  BY <1>1, <1>2, <1>3, <1>4, BothEnds
<1>6. Lnk!Tie(c)
  BY <1>3, <1>4, <1>5 DEF Lnk!Tie, Lnk!Ends
<1> QED
  BY <1>6 DEF Lnk!Next

LEMMA PairIsPair ==
  ASSUME IInv, NEW c \in Clients, AcceptPair(c)
  PROVE  Lnk!Next
<1> DEFINE conn == loc[c].conn_fd
<1>1. /\ pc[c] = "acc_pair" /\ UNCHANGED <<listVars, my_socket>>
      /\ chat_status' = set_client_chatting_status_by_fd(
           set_client_chatting_status_by_fd(chat_status, my_socket[c], "CHAT_STATUS_BUSY"),
           conn, "CHAT_STATUS_BUSY")
      /\ to_fd' = set_to_fd_by_fd(set_to_fd_by_fd(to_fd, my_socket[c], conn), conn, my_socket[c])
      /\ GoTo(c, "acc_reply") /\ Locals(c, Local(UNDEF_NAME, conn, NodeByFd(conn)))
  BY DEF AcceptPair, At, HandlerFrame
<1>2. /\ c \in Listed /\ conn # my_socket[c] /\ Whom(my_socket[c]) = c
      /\ conn \in Fds \cup {INVALID_FD} /\ my_socket[c] \in Fds \cup {INVALID_FD}
  BY <1>1, OwnNode DEF IInv, TypeOK, RegistryTypeOK, ServerTypeOK, LocalSet, LinkInv,
     LocalsInv, LocalsOf, ServingPcs, HandlerPcs
<1>3. /\ Listed' = Listed /\ \A f : Whom(f)' = Whom(f)
      /\ Doing' = [Doing EXCEPT ![c] = DoingOf(c)'] /\ Held' = [Held EXCEPT ![c] = HeldBy(c)']
      /\ pc'[c] = "acc_reply"
      /\ Doing[c] = DoingOf(c) /\ Held[c] = HeldBy(c) /\ LinksTable(c) /\ LinksTable(c)'
  BY <1>1, SectionMoves
<1>4. /\ Doing[c] = "accepting" /\ Held[c] = Whom(conn)
      /\ DoingOf(c)' = "idle" /\ HeldBy(c)' = Nobody
  BY <1>1, <1>3 DEF LinksTable
<1>5. Link' = Lnk!Both(Link, c, Held[c], c)
  BY <1>1, <1>2, <1>3, <1>4, BothEnds
<1>6. Status' = Lnk!Both(Status, c, "busy", "busy")
  BY <1>1, <1>2, <1>3, <1>4, BothEnds DEF ChatStatus
<1>7. Lnk!Pair(c)
  BY <1>3, <1>4, <1>5, <1>6 DEF Lnk!Pair, Lnk!Ends
<1> QED
  BY <1>7 DEF Lnk!Next

LEMMA DisconnectIsPart ==
  ASSUME IInv, NEW c \in Clients, Disconnect(c)
  PROVE  Lnk!Next
<1> DEFINE conn == loc[c].conn_fd
<1>1. /\ pc[c] = "tx_disc" /\ UNCHANGED <<listVars, my_socket>>
      /\ chat_status' = set_client_chatting_status_by_fd(
           set_client_chatting_status_by_fd(chat_status, my_socket[c], "CHAT_STATUS_FREE"),
           conn, "CHAT_STATUS_FREE")
      /\ to_fd' = set_to_fd_by_fd(set_to_fd_by_fd(to_fd, my_socket[c], INVALID_FD),
                                  conn, INVALID_FD)
      /\ GoTo(c, "loop") /\ Locals(c, NoLocals)
  BY DEF Disconnect, At, HandlerFrame
<1>2. c \in Listed /\ conn # my_socket[c] /\ Whom(INVALID_FD) = Nobody
  BY <1>1, OwnNode, WhomIsListed DEF IInv, LinkInv, LocalsInv, LocalsOf, ServingPcs,
     HandlerPcs, WhomTable
<1>3. /\ Listed' = Listed /\ \A f : Whom(f)' = Whom(f)
      /\ Doing' = [Doing EXCEPT ![c] = DoingOf(c)'] /\ Held' = [Held EXCEPT ![c] = HeldBy(c)']
      /\ pc'[c] = "loop"
      /\ Doing[c] = DoingOf(c) /\ Held[c] = HeldBy(c) /\ LinksTable(c) /\ LinksTable(c)'
  BY <1>1, SectionMoves
<1>4. /\ Doing[c] = "parting" /\ Held[c] = Whom(conn)
      /\ DoingOf(c)' = "idle" /\ HeldBy(c)' = Nobody
  BY <1>1, <1>3 DEF LinksTable
<1>5. Link' = Lnk!Both(Link, c, Nobody, Nobody)
  BY <1>1, <1>2, <1>3, <1>4, BothEnds
<1>6. Status' = Lnk!Both(Status, c, "free", "free")
  BY <1>1, <1>2, <1>3, <1>4, BothEnds DEF ChatStatus
<1>7. Lnk!Part(c)
  BY <1>3, <1>4, <1>5, <1>6 DEF Lnk!Part, Lnk!Ends
<1> QED
  BY <1>7 DEF Lnk!Next

(* The sections that only read: they take up whom the client is linked to, *)
(* or do nothing.                                                          *)
LEMMA TakesUpLink ==
  ASSUME IInv, NEW c \in Clients, pc[c] = "loop", NEW p, NEW n, NEW d,
         GoTo(c, p), Locals(c, Local(n, to_fd[c], d)),
         UNCHANGED <<listVars, my_socket, chat_status, to_fd>>
  PROVE  /\ Doing[c] = "idle" /\ Doing' = [Doing EXCEPT ![c] = DoingOf(c)']
         /\ p = "acc_pair" => DoingOf(c)' = "accepting"
         /\ p = "tx_disc" => DoingOf(c)' = "parting"
         /\ p \in {"acc_pair", "tx_disc"} => Held' = [Held EXCEPT ![c] = Link[c]]
         /\ UNCHANGED <<Status, Link>>
<1>1. c \in Listed
  BY OwnNode DEF ServingPcs
<1>2. /\ Listed' = Listed /\ \A f : Whom(f)' = Whom(f)
      /\ Doing' = [Doing EXCEPT ![c] = DoingOf(c)'] /\ Held' = [Held EXCEPT ![c] = HeldBy(c)']
      /\ UNCHANGED <<Status, Link>> /\ pc'[c] = p /\ loc'[c] = Local(n, to_fd[c], d)
      /\ Doing[c] = DoingOf(c) /\ Link[c] = LinkOf(c) /\ LinksTable(c) /\ LinksTable(c)'
  BY SectionMoves
<1>3. loc'[c].conn_fd = to_fd[c] /\ Whom(to_fd[c]) = Link[c]
  BY <1>1, <1>2 DEF LinksTable, Local
<1> QED
  BY <1>2, <1>3 DEF LinksTable

LEMMA TxIsHangup ==
  ASSUME IInv, NEW c \in Clients, Tx(c)
  PROVE  [Lnk!Next]_LinkVars
<1>1. /\ pc[c] = "loop" /\ UNCHANGED <<listVars, my_socket, chat_status, to_fd>>
      /\ \/ UNCHANGED <<pc, loc>>
         \/ /\ get_client_chatting_status_by_fd(my_socket[c]) = "CHAT_STATUS_BUSY"
            /\ get_conn_fd_by_fd(my_socket[c]) # INVALID_FD
            /\ GoTo(c, "tx_disc")
            /\ Locals(c, Local(UNDEF_NAME, get_conn_fd_by_fd(my_socket[c]), NoClient))
  BY DEF Tx, Received, At, HandlerFrame, nodeVars
<1>2. CASE UNCHANGED <<pc, loc>>
  BY <1>1, <1>2, StayStep DEF listVars
<1>3. CASE /\ get_client_chatting_status_by_fd(my_socket[c]) = "CHAT_STATUS_BUSY"
           /\ get_conn_fd_by_fd(my_socket[c]) # INVALID_FD
           /\ GoTo(c, "tx_disc")
           /\ Locals(c, Local(UNDEF_NAME, get_conn_fd_by_fd(my_socket[c]), NoClient))
  <2>1. c \in Listed /\ chat_status[c] = "CHAT_STATUS_BUSY" /\ to_fd[c] # INVALID_FD
        /\ Locals(c, Local(UNDEF_NAME, to_fd[c], NoClient))
    BY <1>1, <1>3, OwnNode DEF ServingPcs
  <2>2. Status[c] = "busy" /\ Link[c] # Nobody
    BY <2>1, LinksTableHolds, WhomIsListed DEF LinksTable, WhomTable, Status, Link
  <2>3. Lnk!Hangup(c)
    BY <1>1, <1>3, <2>1, <2>2, TakesUpLink DEF Lnk!Hangup, Lnk!Begins
  <2> QED
    BY <2>3 DEF Lnk!Next
<1> QED
  BY <1>1, <1>2, <1>3

LEMMA ReadsIsAccept ==
  ASSUME IInv, NEW c \in Clients, AcceptReads(c)
  PROVE  [Lnk!Next]_LinkVars
<1>1. /\ pc[c] = "loop" /\ c \in Listed
      /\ get_conn_fd_by_fd(my_socket[c]) = to_fd[c]
      /\ get_client_chatting_status_by_fd(my_socket[c]) = chat_status[c]
  BY OwnNode DEF AcceptReads, Received, At, ServingPcs
<1>2. /\ UNCHANGED <<listVars, my_socket, chat_status, to_fd>>
      /\ to_fd[c] # INVALID_FD /\ NodeByFd(to_fd[c]) # NoClient
      /\ \/ GoTo(c, "acc_busy")
            /\ Locals(c, Local(UNDEF_NAME, INVALID_FD, NodeByFd(to_fd[c])))
         \/ UNCHANGED <<pc, loc>>
         \/ /\ get_client_chatting_status_by_fd(to_fd[c]) # "CHAT_STATUS_BUSY"
            /\ chat_status[c] = "CHAT_STATUS_REQ_PENDING"
            /\ GoTo(c, "acc_pair") /\ Locals(c, Local(UNDEF_NAME, to_fd[c], NoClient))
  BY <1>1 DEF AcceptReads, HandlerFrame, nodeVars, get_client_name_by_fd
<1>3. ASSUME GoTo(c, "acc_busy"), Locals(c, Local(UNDEF_NAME, INVALID_FD, NodeByFd(to_fd[c])))
      PROVE  UNCHANGED LinkVars
  <2>1. /\ Doing' = [Doing EXCEPT ![c] = DoingOf(c)'] /\ Held' = [Held EXCEPT ![c] = HeldBy(c)']
        /\ UNCHANGED <<Status, Link>> /\ pc'[c] = "acc_busy"
        /\ Doing[c] = DoingOf(c) /\ Held[c] = HeldBy(c) /\ LinksTable(c) /\ LinksTable(c)'
    BY <1>2, <1>3, SectionMoves
  <2>2. Doing' = [Doing EXCEPT ![c] = Doing[c]] /\ Held' = [Held EXCEPT ![c] = Held[c]]
    BY <1>1, <2>1 DEF LinksTable
  <2> QED
    BY <2>1, <2>2 DEF LinkVars, Doing, Held
<1>4. CASE UNCHANGED <<pc, loc>>
  BY <1>2, <1>4, StayStep DEF listVars
<1>5. CASE /\ get_client_chatting_status_by_fd(to_fd[c]) # "CHAT_STATUS_BUSY"
           /\ chat_status[c] = "CHAT_STATUS_REQ_PENDING"
           /\ GoTo(c, "acc_pair") /\ Locals(c, Local(UNDEF_NAME, to_fd[c], NoClient))
  <2> PICK d : d = NodeByFd(to_fd[c])
    OBVIOUS
  <2>1. d \in Listed /\ d \in Clients /\ my_socket[d] = to_fd[c]
    BY <1>2, ListedFacts DEF IInv
  <2>2. Link[c] = d /\ Status[c] = "pending"
    BY <1>1, <1>5, <2>1, LinksTableHolds, WhomIsListed DEF LinksTable, WhomTable, Link, Status
  <2>3. chat_status[d] \in {"CHAT_STATUS_FREE", "CHAT_STATUS_REQ_PENDING"}
    BY <1>2, <1>5, <2>1 DEF get_client_chatting_status_by_fd, IInv, TypeOK, RegistryTypeOK,
       ChatStatus
  <2>4. Status[d] \in {"free", "pending"}
    BY <2>1, <2>3, LinksTableHolds DEF LinksTable, Status
  <2>5. Lnk!Accept(c)
    BY <1>1, <1>2, <1>5, <2>1, <2>2, <2>4, TakesUpLink DEF Lnk!Accept, Lnk!Begins
  <2> QED
    BY <2>5 DEF Lnk!Next
<1> QED
  BY <1>2, <1>3, <1>4, <1>5

(* The sections that free the thread's own client.                         *)
LEMMA ReleaseStep ==
  ASSUME IInv, NEW c \in Clients, pc[c] \in ServingPcs \ {"req_link", "acc_pair", "tx_disc"},
         pc'[c] \notin {"req_link", "acc_pair", "tx_disc"},
         \A d \in Clients : d # c => pc'[d] = pc[d] /\ loc'[d] = loc[d],
         UNCHANGED <<listVars, my_socket>>,
         chat_status' = set_client_chatting_status_by_fd(chat_status, my_socket[c],
                                                         "CHAT_STATUS_FREE"),
         to_fd' \in {to_fd, set_to_fd_by_fd(to_fd, my_socket[c], INVALID_FD)}
  PROVE  Lnk!Next
<1>1. /\ c \in Listed /\ NodeByFd(my_socket[c]) = c
      /\ chat_status \in [Clients -> ChatStatus] /\ to_fd \in [Clients -> Fds \cup {INVALID_FD}]
  BY OwnNode DEF IInv, TypeOK, RegistryTypeOK
<1>2. UNCHANGED clientList /\ \A d \in Listed : my_socket'[d] = my_socket[d]
  BY DEF listVars
<1>3. /\ Listed' = Listed /\ \A f : Whom(f)' = Whom(f)
      /\ Doing' = [Doing EXCEPT ![c] = DoingOf(c)'] /\ Held' = [Held EXCEPT ![c] = HeldBy(c)']
  BY <1>2, FrameKeepsWhom, OthersGoOn
<1>4. /\ DoingOf(c)' = "idle" /\ DoingOf(c) = "idle"
      /\ HeldBy(c)' = Nobody /\ HeldBy(c) = Nobody
  BY LinksTableHolds, LinksTableHoldsAfter DEF LinksTable
<1>5. Doing[c] = "idle" /\ UNCHANGED <<Doing, Held>>
  BY <1>3, <1>4 DEF Doing, Held
<1>6. Status[c] # "out" /\ Status' = [Status EXCEPT ![c] = "free"]
  <2>1. chat_status' = [chat_status EXCEPT ![c] = "CHAT_STATUS_FREE"]
    BY <1>1, NoClientAssumption DEF set_client_chatting_status_by_fd
  <2>2. chat_status'[c] = "CHAT_STATUS_FREE"
        /\ \A d \in Clients : d # c => chat_status'[d] = chat_status[d]
    BY <1>1, <2>1
  <2> QED
    BY <1>1, <1>3, <2>2, FieldsMove DEF Status
<1>7. Link' \in {Link, [Link EXCEPT ![c] = Nobody]}
  <2>1. CASE to_fd' = to_fd
    BY <1>3, <2>1, FieldsMove DEF Link
  <2>2. CASE to_fd' = set_to_fd_by_fd(to_fd, my_socket[c], INVALID_FD)
    <3>1. to_fd' = [to_fd EXCEPT ![c] = INVALID_FD]
      BY <1>1, <2>2, NoClientAssumption DEF set_to_fd_by_fd
    <3>2. to_fd'[c] = INVALID_FD /\ \A d \in Clients : d # c => to_fd'[d] = to_fd[d]
      BY <1>1, <3>1
    <3>3. LinkOf(c)' = Nobody /\ \A d \in Clients : d # c => LinkOf(d)' = LinkOf(d)
      BY <1>1, <1>3, <3>2, FieldsMove, WhomIsListed DEF WhomTable
    <3> QED
      BY <3>3 DEF Link
  <2> QED
    BY <2>1, <2>2
<1>8. Lnk!Release(c)
  BY <1>5, <1>6, <1>7 DEF Lnk!Release
<1> QED
  BY <1>8 DEF Lnk!Next

LEMMA FreesItself ==
  ASSUME IInv, NEW c \in Clients, AcceptNoMoreExist(c) \/ AcceptBusy(c) \/ DeclineFree(c)
  PROVE  Lnk!Next
<1>1. pc \in [Clients -> Pcs] /\ loc \in [Clients -> LocalSet]
  BY DEF IInv, TypeOK, ServerTypeOK
<1>2. /\ pc[c] \in {"loop", "acc_busy", "decl_free"}
      /\ UNCHANGED <<listVars, my_socket>>
      /\ chat_status' = set_client_chatting_status_by_fd(chat_status, my_socket[c],
                                                         "CHAT_STATUS_FREE")
      /\ to_fd' \in {to_fd, set_to_fd_by_fd(to_fd, my_socket[c], INVALID_FD)}
      /\ GoTo(c, "loop") \/ UNCHANGED pc
      /\ Locals(c, NoLocals) \/ UNCHANGED loc
  BY DEF AcceptNoMoreExist, AcceptBusy, DeclineFree, Received, At, HandlerFrame
<1>3. /\ pc'[c] \in {"loop", "acc_busy", "decl_free"}
      /\ \A d \in Clients : d # c => pc'[d] = pc[d] /\ loc'[d] = loc[d]
  BY <1>1, <1>2 DEF GoTo, Locals
<1> QED
  BY <1>2, <1>3, ReleaseStep DEF ServingPcs, HandlerPcs

(* Where the thread of a departing client reaches: its own node, and the   *)
(* status of whom it is linked to.                                         *)
LEMMA ClosedWrites ==
  ASSUME IInv, NEW c \in Clients, ClientClosed(c)
  PROVE  /\ c \in Listed /\ Listed' = Listed \ {c} /\ pc[c] = "loop"
         /\ pc' = [pc EXCEPT ![c] = "exited"] /\ UNCHANGED loc
         /\ \A d \in Clients : d # c => my_socket'[d] = my_socket[d] /\ to_fd'[d] = to_fd[d]
         /\ \A d \in Listed : d # c =>
              chat_status'[d] = IF my_socket[d] = to_fd[c] THEN "CHAT_STATUS_FREE"
                                ELSE chat_status[d]
<1> DEFINE conn == to_fd[c]
           me == my_socket[c]
           linked == /\ conn # INVALID_FD
                     /\ get_client_chatting_status_by_fd(conn) # "CHAT_STATUS_FREE"
<1>1. /\ RegistryTypeOK /\ SocketsTypeOK /\ NoClient \notin Clients
      /\ CountMatches /\ FdNamesOneClient
  BY NoClientAssumption DEF IInv, TypeOK, ListInv
<1>2. pc[c] = "loop" /\ pc' = [pc EXCEPT ![c] = "exited"] /\ UNCHANGED loc
  BY DEF ClientClosed, At, GoTo
<1>3. c \in Listed /\ get_conn_fd_by_fd(me) = conn /\ NodeByFd(me) = c
  BY <1>2, OwnNode DEF ServingPcs
<1>4. \E status, to :
        /\ remove_client_node_from_queue_by_fd(me, status, to)
        /\ linked => status = set_client_chatting_status_by_fd(chat_status, conn,
                                                               "CHAT_STATUS_FREE")
        /\ ~ linked => status = chat_status
        /\ to \in {to_fd, set_to_fd_by_fd(to_fd, me, INVALID_FD)}
  BY <1>3 DEF ClientClosed
<1>5. PICK status, to :
        /\ remove_client_node_from_queue_by_fd(me, status, to)
        /\ linked => status = set_client_chatting_status_by_fd(chat_status, conn,
                                                               "CHAT_STATUS_FREE")
        /\ ~ linked => status = chat_status
        /\ to \in {to_fd, set_to_fd_by_fd(to_fd, me, INVALID_FD)}
  BY <1>4
<1>6. /\ Listed' = Listed \ {c} /\ my_socket' = [my_socket EXCEPT ![c] = INVALID_FD]
      /\ chat_status' = [status EXCEPT ![c] = "CHAT_STATUS_FREE"]
      /\ to_fd' = [to EXCEPT ![c] = INVALID_FD]
  BY <1>1, <1>3, <1>5, RemoveKeepsList
<1>7. \A d \in Clients : d # c => my_socket'[d] = my_socket[d] /\ to_fd'[d] = to_fd[d]
  <2>1. to \in {to_fd, [to_fd EXCEPT ![c] = INVALID_FD]}
    BY <1>3, <1>5 DEF set_to_fd_by_fd
  <2> QED
    BY <1>1, <1>6, <2>1 DEF RegistryTypeOK
<1>8. \A d \in Listed : d # c =>
        chat_status'[d] = IF my_socket[d] = conn THEN "CHAT_STATUS_FREE" ELSE chat_status[d]
  <2> SUFFICES ASSUME NEW d \in Listed, d # c
               PROVE  chat_status'[d] = IF my_socket[d] = conn THEN "CHAT_STATUS_FREE"
                                        ELSE chat_status[d]
    OBVIOUS
  <2>1. /\ d \in Clients /\ my_socket[d] # INVALID_FD /\ NodeByFd(my_socket[d]) = d
        /\ set_client_chatting_status_by_fd(chat_status, conn, "CHAT_STATUS_FREE")[d] =
             IF my_socket[d] = conn THEN "CHAT_STATUS_FREE" ELSE chat_status[d]
    BY <1>1, ListedFacts DEF IInv, RegistryTypeOK
  <2>2. status \in [Clients -> ChatStatus]
    <3>1. chat_status \in [Clients -> ChatStatus] /\ "CHAT_STATUS_FREE" \in ChatStatus
      BY <1>1 DEF RegistryTypeOK, ChatStatus
    <3>2. set_client_chatting_status_by_fd(chat_status, conn, "CHAT_STATUS_FREE")
            \in [Clients -> ChatStatus]
      BY <1>1, <3>1, SettersTyped
    <3> QED
      BY <1>5, <3>1, <3>2
  <2>3. chat_status'[d] = status[d]
    BY <1>6, <2>1, <2>2
  <2>4. CASE linked
    BY <1>5, <2>1, <2>3, <2>4
  <2>5. CASE ~ linked
    <3>1. my_socket[d] = conn => chat_status[d] = "CHAT_STATUS_FREE"
      BY <1>1, <2>1, <2>5 DEF get_client_chatting_status_by_fd
    <3> QED
      BY <1>5, <2>3, <2>5, <3>1
  <2> QED
    BY <2>4, <2>5
<1> QED
  BY <1>2, <1>3, <1>6, <1>7, <1>8

LEMMA ClosedIsDepart ==
  ASSUME IInv, IInv', NEW c \in Clients, ClientClosed(c)
  PROVE  Lnk!Next
<1>1. /\ c \in Listed /\ Listed' = Listed \ {c} /\ pc[c] = "loop"
      /\ pc' = [pc EXCEPT ![c] = "exited"] /\ UNCHANGED loc
      /\ \A d \in Clients : d # c => my_socket'[d] = my_socket[d] /\ to_fd'[d] = to_fd[d]
      /\ \A d \in Listed : d # c =>
           chat_status'[d] = IF my_socket[d] = to_fd[c] THEN "CHAT_STATUS_FREE"
                             ELSE chat_status[d]
  BY ClosedWrites
<1>2. /\ WhomTable /\ WhomTable' /\ \A d \in Listed : d \in Clients
      /\ \A d : LinksTable(d) /\ LinksTable(d)'
      /\ pc \in [Clients -> Pcs]
      /\ chat_status \in [Clients -> ChatStatus]
  BY WhomIsListed, WhomIsListedAfter, ListedFacts, LinksTableHolds, LinksTableHoldsAfter
     DEF IInv, TypeOK, ServerTypeOK, RegistryTypeOK
<1>3. Nobody # Gone /\ Nobody \notin Clients /\ Gone \notin Clients
  BY RefAssumption
<1>4. \A f : Whom(f)' = IF Whom(f) = c THEN Gone ELSE Whom(f)
  <2> SUFFICES ASSUME NEW f
               PROVE  Whom(f)' = IF Whom(f) = c THEN Gone ELSE Whom(f)
    OBVIOUS
  <2>1. /\ Whom(f) = Nobody <=> f = INVALID_FD
        /\ Whom(f)' = Nobody <=> f = INVALID_FD
        /\ \A d \in Clients : Whom(f) = d <=> d \in Listed /\ my_socket[d] = f
        /\ \A d \in Clients : Whom(f)' = d <=> d \in Listed' /\ my_socket'[d] = f
        /\ Whom(f) \in Listed \cup {Nobody, Gone}
        /\ Whom(f)' \in Listed' \cup {Nobody, Gone}
    BY <1>2 DEF WhomTable, INVALID_FD
  <2>2. \A d \in Clients : Whom(f)' = d <=> Whom(f) = d /\ d # c
    BY <1>1, <2>1
  <2> QED
    BY <1>1, <1>2, <1>3, <2>1, <2>2
<1>5. \A d \in Clients : StatusOf(d)' = IF d = c THEN "out"
                           ELSE IF d = LinkOf(c) /\ StatusOf(d) # "out" THEN "free" ELSE StatusOf(d)
  <2>1. \A d \in Clients : d = LinkOf(c) <=> d \in Listed /\ my_socket[d] = to_fd[c]
    BY <1>1, <1>2 DEF LinksTable, WhomTable
  <2> SUFFICES ASSUME NEW d \in Clients
               PROVE  StatusOf(d)' = IF d = c THEN "out"
                           ELSE IF d = LinkOf(c) /\ StatusOf(d) # "out" THEN "free" ELSE StatusOf(d)
    OBVIOUS
  <2>2. CASE d \notin Listed \ {c}
    BY <1>1, <1>2, <2>2 DEF LinksTable
  <2>3. CASE d \in Listed /\ d # c
    <3>1. /\ d \in Listed' /\ StatusOf(d) # "out"
          /\ chat_status'[d] = IF d = LinkOf(c) THEN "CHAT_STATUS_FREE" ELSE chat_status[d]
          /\ chat_status[d] \in ChatStatus
      BY <1>1, <1>2, <2>1, <2>3 DEF LinksTable, ChatStatus
    <3> QED
      BY <1>2, <2>3, <3>1 DEF LinksTable, ChatStatus
  <2> QED
    BY <2>2, <2>3
<1>6. \A d \in Clients : LinkOf(d)' = IF d = c THEN Nobody
                                      ELSE IF LinkOf(d) = c THEN Gone ELSE LinkOf(d)
  <2> SUFFICES ASSUME NEW d \in Clients
               PROVE  LinkOf(d)' = IF d = c THEN Nobody
                                   ELSE IF LinkOf(d) = c THEN Gone ELSE LinkOf(d)
    OBVIOUS
  <2>1. CASE d \notin Listed \ {c}
    BY <1>1, <1>2, <1>3, <2>1 DEF LinksTable
  <2>2. CASE d \in Listed /\ d # c
    <3>1. d \in Listed' /\ to_fd'[d] = to_fd[d]
      BY <1>1, <1>2, <2>2
    <3>2. LinkOf(d)' = Whom(to_fd[d])' /\ LinkOf(d) = Whom(to_fd[d])
      BY <1>2, <2>2, <3>1 DEF LinksTable
    <3>3. LinkOf(d)' = IF Whom(to_fd[d]) = c THEN Gone ELSE Whom(to_fd[d])
      BY <1>2, <1>4, <3>1 DEF LinksTable
    <3> QED
      BY <2>2, <3>2, <3>3
  <2> QED
    BY <2>1, <2>2
<1>7. \A d \in Clients : /\ DoingOf(d)' = DoingOf(d)
                         /\ HeldBy(d)' = IF HeldBy(d) = c THEN Gone ELSE HeldBy(d)
  <2> SUFFICES ASSUME NEW d \in Clients
               PROVE  /\ DoingOf(d)' = DoingOf(d)
                      /\ HeldBy(d)' = IF HeldBy(d) = c THEN Gone ELSE HeldBy(d)
    OBVIOUS
  <2>1. CASE d = c
    <3>1. pc'[d] = "exited" /\ pc[d] = "loop"
      BY <1>1, <1>2, <2>1
    <3> QED
      BY <1>2, <1>3, <3>1 DEF LinksTable
  <2>2. CASE d # c
    <3>1. pc'[d] = pc[d] /\ loc'[d] = loc[d]
      BY <1>1, <1>2, <2>2
    <3>2. CASE pc[d] \in {"req_link", "acc_pair", "tx_disc"}
      BY <1>2, <1>4, <3>1, <3>2 DEF LinksTable
    <3>3. CASE pc[d] \notin {"req_link", "acc_pair", "tx_disc"}
      BY <1>2, <1>3, <3>1, <3>3 DEF LinksTable
    <3> QED
      BY <3>2, <3>3
  <2> QED
    BY <2>1, <2>2
<1>8. Status[c] # "out" /\ Doing[c] = "idle"
  BY <1>1, <1>2 DEF LinksTable, ChatStatus, Status, Doing
<1>9. Lnk!Depart(c)
  BY <1>5, <1>6, <1>7, <1>8 DEF Lnk!Depart, Status, Link, Doing, Held
<1> QED
  BY <1>9 DEF Lnk!Next

LEMMA RegisterIsArrive ==
  ASSUME IInv, IInv', NEW c \in Clients, Register(c)
  PROVE  Lnk!Next
<1> DEFINE me == my_socket[c]
<1>1. /\ pc[c] = "start" /\ pc' = [pc EXCEPT ![c] = "greet"] /\ UNCHANGED <<loc, my_socket, fdOwner>>
      /\ add_client_node_to_queue(c) /\ ~ QueueFull
      /\ chat_status' = [chat_status EXCEPT ![c] = "CHAT_STATUS_FREE"]
      /\ to_fd' = [to_fd EXCEPT ![c] = INVALID_FD]
  BY DEF Register, At, GoTo, add_client_node_to_queue, sockVars
<1>2. /\ RegistryTypeOK /\ CountMatches /\ FdNamesOneClient
      /\ pc \in [Clients -> Pcs]
      /\ c \notin Listed /\ me \in Fds /\ fdOwner[me] = c
  BY <1>1 DEF IInv, TypeOK, ServerTypeOK, ListInv, ServedIsListed, ThreadHoldsFd, ServingPcs,
     HandlerPcs
<1>3. Listed' = Listed \cup {c}
  BY <1>1, <1>2, AddKeepsList
<1>4. /\ WhomTable /\ WhomTable' /\ \A d \in Listed : d \in Clients
      /\ \A d : LinksTable(d) /\ LinksTable(d)'
  BY WhomIsListed, WhomIsListedAfter, ListedFacts, LinksTableHolds, LinksTableHoldsAfter DEF IInv
<1>5. Nobody # Gone /\ Nobody \notin Clients /\ Gone \notin Clients
  BY RefAssumption
<1>6. me # INVALID_FD /\ \A d \in Listed : my_socket[d] # me
  BY <1>2, FdsAssumption DEF INVALID_FD, FdNamesOneClient, Listed, Range
<1>7. \A f : /\ Whom(f)' = IF f = me THEN c ELSE Whom(f)
             /\ f = me => Whom(f) = Gone
  <2> SUFFICES ASSUME NEW f
               PROVE  Whom(f)' = (IF f = me THEN c ELSE Whom(f)) /\ (f = me => Whom(f) = Gone)
    OBVIOUS
  <2>1. /\ Whom(f) = Nobody <=> f = INVALID_FD
        /\ Whom(f)' = Nobody <=> f = INVALID_FD
        /\ \A d \in Clients : Whom(f) = d <=> d \in Listed /\ my_socket[d] = f
        /\ \A d \in Clients : Whom(f)' = d <=> d \in Listed' /\ my_socket'[d] = f
        /\ Whom(f) \in Listed \cup {Nobody, Gone}
        /\ Whom(f)' \in Listed' \cup {Nobody, Gone}
    BY <1>4 DEF WhomTable, INVALID_FD
  <2>2. \A d \in Clients : Whom(f)' = d <=> Whom(f) = d \/ (d = c /\ f = me)
    BY <1>1, <1>3, <2>1
  <2>3. f = me => Whom(f) = Gone
    BY <1>4, <1>6, <2>1
  <2>4. f = me => Whom(f)' = c
    BY <2>2
  <2>5. f # me => Whom(f)' = Whom(f)
    BY <1>3, <1>4, <1>5, <2>1, <2>2
  <2> QED
    BY <2>3, <2>4, <2>5
<1>8. \A d \in Clients : d # c => /\ pc'[d] = pc[d] /\ chat_status'[d] = chat_status[d]
                                  /\ to_fd'[d] = to_fd[d]
  BY <1>1, <1>2 DEF RegistryTypeOK
<1>9. pc'[c] = "greet" /\ chat_status'[c] = "CHAT_STATUS_FREE" /\ to_fd'[c] = INVALID_FD
  BY <1>1, <1>2 DEF RegistryTypeOK
<1>10. \A d \in Clients : StatusOf(d)' = IF d = c THEN "free" ELSE StatusOf(d)
  <2>1. StatusOf(c)' = "free"
    BY <1>3, <1>4, <1>9 DEF LinksTable
  <2>2. \A d \in Clients : d # c => StatusOf(d)' = StatusOf(d)
    BY <1>3, <1>8 DEF StatusOf
  <2> QED
    BY <2>1, <2>2
<1> DEFINE S == {d \in Listed : to_fd[d] = me}
           T == {d \in Clients : /\ pc[d] \in {"req_link", "acc_pair", "tx_disc"}
                                 /\ loc[d].conn_fd = me}
<1>11. \A d \in Clients : /\ LinkOf(d)' = IF d \in S THEN c ELSE LinkOf(d)
                          /\ d \in S => LinkOf(d) = Gone
  <2> SUFFICES ASSUME NEW d \in Clients
               PROVE  LinkOf(d)' = (IF d \in S THEN c ELSE LinkOf(d)) /\ (d \in S => LinkOf(d) = Gone)
    OBVIOUS
  <2>1. CASE d = c
    <3>1. LinkOf(d)' = Whom(to_fd[d])'
      BY <1>3, <1>4, <2>1 DEF LinksTable
    <3>2. Whom(INVALID_FD)' = Nobody
      BY <1>4 DEF WhomTable, INVALID_FD
    <3>3. LinkOf(d) = Nobody /\ d \notin S
      BY <1>2, <1>4, <2>1 DEF LinksTable
    <3> QED
      BY <1>9, <2>1, <3>1, <3>2, <3>3
  <2>2. CASE d # c /\ d \notin Listed
    BY <1>3, <1>4, <2>2 DEF LinksTable
  <2>3. CASE d # c /\ d \in Listed
    <3>1. to_fd'[d] = to_fd[d] /\ d \in Listed'
      BY <1>3, <1>8, <2>3
    <3>2. LinkOf(d)' = Whom(to_fd[d])' /\ LinkOf(d) = Whom(to_fd[d])
      BY <1>4, <2>3, <3>1 DEF LinksTable
    <3>3. LinkOf(d)' = IF to_fd[d] = me THEN c ELSE Whom(to_fd[d])
      BY <1>4, <1>7, <3>1 DEF LinksTable
    <3> QED
      BY <1>7, <2>3, <3>2, <3>3
  <2> QED
    BY <2>1, <2>2, <2>3
<1>12. \A d \in Clients : /\ DoingOf(d)' = DoingOf(d)
                          /\ HeldBy(d)' = IF d \in T THEN c ELSE HeldBy(d)
                          /\ d \in T => HeldBy(d) = Gone
  <2> SUFFICES ASSUME NEW d \in Clients
               PROVE  /\ DoingOf(d)' = DoingOf(d)
                      /\ HeldBy(d)' = IF d \in T THEN c ELSE HeldBy(d)
                      /\ d \in T => HeldBy(d) = Gone
    OBVIOUS
  <2>1. CASE pc[d] \in {"req_link", "acc_pair", "tx_disc"}
    <3>1. pc'[d] = pc[d] /\ loc'[d] = loc[d]
      BY <1>1, <1>8, <2>1
    <3> QED
      BY <1>4, <1>7, <2>1, <3>1 DEF LinksTable
  <2>2. CASE pc[d] \notin {"req_link", "acc_pair", "tx_disc"}
    <3>1. pc'[d] \notin {"req_link", "acc_pair", "tx_disc"}
      BY <1>8, <1>9, <2>2
    <3> QED
      BY <1>4, <2>2, <3>1 DEF LinksTable
  <2> QED
    BY <2>1, <2>2
<1>13. Status[c] = "out" /\ S \in SUBSET Clients /\ T \in SUBSET Clients
  BY <1>2, <1>4 DEF LinksTable, Status
<1>14. /\ Status' = [Status EXCEPT ![c] = "free"] /\ UNCHANGED Doing
       /\ Link' = [d \in Clients |-> IF d \in S THEN c ELSE Link[d]]
       /\ Held' = [d \in Clients |-> IF d \in T THEN c ELSE Held[d]]
       /\ \A d \in S : Link[d] = Gone
       /\ \A d \in T : Held[d] = Gone
  BY <1>10, <1>11, <1>12, <1>13 DEF Status, Link, Doing, Held
<1> HIDE DEF S, T
<1>15. Lnk!Arrive(c)
  BY <1>13, <1>14 DEF Lnk!Arrive
<1> QED
  BY <1>15 DEF Lnk!Next

LEMMA InitIsLinks == Init => Lnk!Init
<1> SUFFICES ASSUME Init PROVE Lnk!Init
  OBVIOUS
<1>1. /\ Listed = {} /\ \A c \in Clients : pc[c] = "none"
  BY DEF Init, RegistryInit, ServerInit, Listed, Range
<1>2. \A c \in Clients : /\ StatusOf(c) = "out" /\ LinkOf(c) = Nobody
                         /\ DoingOf(c) = "idle" /\ HeldBy(c) = Nobody
  BY <1>1, LinksTableHolds DEF LinksTable
<1> QED
  BY <1>2 DEF Lnk!Init, Status, Link, Doing, Held

LEMMA StepsAreLinks == IInv /\ IInv' /\ [Next]_vars => [Lnk!Next]_LinkVars
<1> SUFFICES ASSUME IInv, IInv', [Next]_vars PROVE [Lnk!Next]_LinkVars
  OBVIOUS
<1>1. CASE UNCHANGED vars \/ (ClientNext /\ UNCHANGED serverVars)
  <2>1. UNCHANGED <<clientList, chat_status, to_fd, pc, loc, my_socket>>
    BY <1>1 DEF vars, serverVars, listVars, nodeVars, threadVars
  <2> QED
    BY <2>1, StayStep
<1>2. CASE ServerNext
  <2>1. PICK c \in Clients : MainNext(c) \/ ThreadNext(c)
    BY <1>2 DEF ServerNext
  <2>2. CASE MainNext(c) \/ RegisterFails(c) \/ Greeted(c) \/ GreetFails(c)
    BY <2>2, AdmissionIsIdle
  <2>3. CASE \/ SetName(c) \/ GetClientList(c) \/ Request(c) \/ AcceptNoFd(c) \/ AcceptReply(c)
             \/ Decline(c) \/ Flush(c)
    BY <2>3, HandlerIsIdle
  <2>4. CASE Register(c)
    BY <2>4, RegisterIsArrive
  <2>5. CASE RequestMark(c)
    BY <2>5, MarkIsAsk
  <2>6. CASE RequestLink(c)
    BY <2>6, LinkIsTie
  <2>7. CASE AcceptReads(c)
    BY <2>7, ReadsIsAccept
  <2>8. CASE AcceptPair(c)
    BY <2>8, PairIsPair
  <2>9. CASE Tx(c)
    BY <2>9, TxIsHangup
  <2>10. CASE Disconnect(c)
    BY <2>10, DisconnectIsPart
  <2>11. CASE AcceptNoMoreExist(c) \/ AcceptBusy(c) \/ DeclineFree(c)
    BY <2>11, FreesItself
  <2>12. CASE ClientClosed(c)
    BY <2>12, ClosedIsDepart
  <2> QED
    BY <2>1, <2>2, <2>3, <2>4, <2>5, <2>6, <2>7, <2>8, <2>9, <2>10, <2>11, <2>12 DEF ThreadNext
<1> QED
  BY <1>1, <1>2 DEF Next

(* The broker does what ChatLinks allows and no more: whatever the other   *)
(* handlers do between the sections of one, no client is marked, tied,     *)
(* paired or freed by a client that neither asks it nor holds it           *)
(* (server_mgmt.c:267-301, 401-483, 549-725).                              *)
THEOREM ChatsAreLinks == Spec => ChatLinksSpec
<1>1. IInv /\ IInv' /\ [Next]_vars => [Lnk!Next]_LinkVars
  BY StepsAreLinks
<1> QED
  BY <1>1, InitIsLinks, Invariance, PTL DEF Spec, ChatLinksSpec, Lnk!Spec, LinkVars, Lnk!linkVars
=============================================================================
