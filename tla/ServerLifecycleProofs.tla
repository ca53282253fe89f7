----------------------- MODULE ServerLifecycleProofs -----------------------
(***************************************************************************)
(* Theorems about ServerLifecycle, for any number of clients, any size of  *)
(* the list and any number of signals.                                     *)
(***************************************************************************)
EXTENDS ServerLifecycle, SequenceLemmas

Live == {"greet", "test", "poll", "close"}
Unlisted == {"none", "refused", "start"}
Quiet == departed = {} /\ late = {}

(* No node is listed twice, a thread lists its node once, and a freed node *)
(* is listed only while main frees it, at the head.                        *)
ListOK ==
  /\ IsInjective(client_list)
  /\ \A c \in Clients : thr[c] \in Unlisted => c \notin Nodes /\ c \notin freed
  /\ \A i \in DOMAIN client_list :
       client_list[i] \in freed => i = 1 /\ mainPc \in {"free", "advance"}

(* The counter never goes below the length of a list without freed nodes:  *)
(* main frees without counting.                                            *)
CountOK ==
  mainPc = "advance" \/ Nodes \cap freed = {} =>
    Len(client_list) <= total_available_clients

(* Main's pointer is to a listed node or to one removed behind its back.   *)
PointerOK ==
  /\ mainPc \in {"join", "wait", "free_node", "advance"} => temp \in {Null} \cup Nodes \cup freed
  /\ mainPc = "wait" => temp # Null

(* Main has joined the nodes it passed; after the walk, all but the late.  *)
JoinedOK ==
  /\ mainPc \in {"join", "wait"} /\ temp \in Nodes =>
       \A n \in Nodes : Precedes(client_list, n, temp) => thr[n] = "exited"
  /\ BehindMain => \A n \in Nodes : thr[n] = "exited" \/ n \in late
  /\ mainPc \in {"free_node", "advance"} /\ temp # Null => thr[temp] = "exited" \/ temp \in late
  /\ mainPc \in {"join", "wait"} /\ temp \in freed => departed # {}

(* When nobody came or left behind main, nothing freed is in reach.        *)
QuietOK ==
  Quiet =>
    /\ \A c \in Clients : thr[c] \in Live => c \in Nodes /\ mainPc \notin Freeing
    /\ mainPc = "free" => Nodes \cap freed = {}
    /\ mainPc = "free_node" => temp \notin freed /\ temp # First
    /\ mainPc = "advance" => temp \notin freed

Core == ListOK /\ CountOK /\ PointerOK /\ JoinedOK /\ QuietOK
Inv == TypeOK /\ UndefinedHasCause /\ (~ undefined => Core)
-----------------------------------------------------------------------------
(* The list                                                                *)

LEMMA PositionIsThere ==
  ASSUME NEW n \in Nodes
  PROVE  Position(n) \in DOMAIN client_list /\ client_list[Position(n)] = n
<1>1. \E i \in DOMAIN client_list : client_list[i] = n
  BY DEF Nodes, Range
<1> QED
  BY <1>1 DEF Position

LEMMA NodesAreClients ==
  ASSUME TypeOK
  PROVE  /\ client_list \in Seq(Clients) /\ DOMAIN client_list = 1..Len(client_list)
         /\ Len(client_list) \in Nat /\ Nodes \subseteq Clients /\ Null \notin Nodes
         /\ Null \notin freed
<1>1. client_list \in Seq(Clients) /\ freed \subseteq Clients /\ Null \notin Clients
  BY LifecycleAssumption DEF TypeOK
<1>2. DOMAIN client_list = 1..Len(client_list) /\ Len(client_list) \in Nat
  BY <1>1, LenProperties
<1>3. Nodes \subseteq Clients
  BY <1>1, <1>2, ElementOfSeq DEF Nodes, Range
<1> QED
  BY <1>1, <1>2, <1>3

(* The head of the list comes before every other node.                     *)
LEMMA FirstNode ==
  ASSUME TypeOK, IsInjective(client_list)
  PROVE  /\ client_list = <<>> => First = Null /\ Nodes = {}
         /\ client_list # <<>> => /\ 1 \in DOMAIN client_list /\ client_list[1] = First
                                  /\ First \in Nodes
                                  /\ \A n : ~ Precedes(client_list, n, First)
<1>1. client_list \in Seq(Clients) /\ DOMAIN client_list = 1..Len(client_list)
  BY NodesAreClients
<1>2. CASE client_list = <<>>
  <2>1. Len(client_list) = 0
    BY <1>2
  <2> QED
    BY <1>1, <1>2, <2>1 DEF First, Nodes, Range
<1>3. CASE client_list # <<>>
  BY <1>1, <1>3, FirstMember DEF First, Nodes
<1> QED
  BY <1>2, <1>3

(* next leads to the node that comes right behind, and from the last one   *)
(* nowhere.                                                                *)
LEMMA NextNode ==
  ASSUME TypeOK, IsInjective(client_list), NEW n \in Nodes
  PROVE  \/ /\ After(n) \in Nodes /\ After(n) # n
            /\ \A m : Precedes(client_list, m, After(n)) <=> m = n \/ Precedes(client_list, m, n)
         \/ /\ After(n) = Null
            /\ \A m \in Nodes : m = n \/ Precedes(client_list, m, n)
<1> DEFINE p == Position(n)
<1>1. /\ client_list \in Seq(Clients) /\ p \in 1..Len(client_list) /\ client_list[p] = n
  BY NodesAreClients, PositionIsThere
<1>2. After(n) = IF p < Len(client_list) THEN client_list[p + 1] ELSE Null
  BY DEF After
<1> HIDE DEF p
<1>3. CASE p < Len(client_list)
  BY <1>1, <1>2, <1>3, Successor DEF Nodes
<1>4. CASE ~ (p < Len(client_list))
  BY <1>1, <1>2, <1>4, Successor DEF Nodes
<1> QED
  BY <1>3, <1>4

(* What main takes over as the list when it advances.                      *)
LEMMA RestOfList ==
  ASSUME TypeOK, ListOK, PointerOK, mainPc = "advance"
  PROVE  LET rest == ListFrom(temp)
         IN  /\ rest \in Seq(Clients) /\ IsInjective(rest)
             /\ Range(rest) \subseteq Nodes \cup {temp} /\ (temp = Null => rest = <<>>)
             /\ Range(rest) \cap freed = {} => Len(rest) <= Len(client_list)
             /\ \A j \in DOMAIN rest : rest[j] \in freed => j = 1 /\ rest[j] = temp
<1>0. /\ client_list \in Seq(Clients) /\ Len(client_list) \in Nat
      /\ DOMAIN client_list = 1..Len(client_list) /\ IsInjective(client_list)
      /\ temp \in {Null} \cup Nodes \cup freed /\ freed \subseteq Clients
  BY NodesAreClients DEF ListOK, PointerOK, TypeOK
<1> DEFINE rest == ListFrom(temp)
<1>1. CASE temp = Null
  <2>1. rest = <<>>
    BY <1>1 DEF ListFrom
  <2>2. rest \in Seq(Clients) /\ Len(rest) = 0 /\ DOMAIN rest = {}
    BY <2>1
  <2> QED
    BY <1>0, <1>1, <2>1, <2>2 DEF IsInjective, Range
<1>2. CASE temp # Null /\ temp \in Nodes
  <2> DEFINE p == Position(temp)
  <2>1. p \in 1..Len(client_list) /\ client_list[p] = temp
    BY <1>0, <1>2, PositionIsThere
  <2>2. rest = SubSeq(client_list, p, Len(client_list))
    BY <1>2 DEF ListFrom
  <2> HIDE DEF p, rest
  <2>3. /\ rest \in Seq(Clients) /\ IsInjective(rest) /\ Range(rest) \subseteq Nodes
        /\ Len(rest) = Len(client_list) - p + 1
        /\ \A j \in DOMAIN rest : p + j - 1 \in DOMAIN client_list /\ rest[j] = client_list[p + j - 1]
    BY <1>0, <2>1, <2>2, SuffixProperties DEF Nodes
  <2>4. DOMAIN rest = 1..Len(rest)
    BY <2>3, LenProperties
  <2>5. \A j \in DOMAIN rest : rest[j] \in freed => j = 1 /\ rest[j] = temp
    <3> SUFFICES ASSUME NEW j \in DOMAIN rest, rest[j] \in freed
                 PROVE  j = 1 /\ rest[j] = temp
      OBVIOUS
    <3>1. p + j - 1 = 1
      BY <2>3 DEF ListOK
    <3>2. j \in Nat /\ 1 <= j /\ p \in Nat /\ 1 <= p
      BY <1>0, <2>1, <2>4
    <3>3. j = 1 /\ p = 1
      BY <3>1, <3>2
    <3> QED
      BY <2>1, <2>3, <3>1, <3>3
  <2>6. Len(rest) <= Len(client_list)
    BY <1>0, <2>1, <2>3
  <2> QED
    BY <1>2, <2>3, <2>5, <2>6 DEF rest
<1>3. CASE temp # Null /\ temp \notin Nodes
  <2>1. rest = <<temp>> /\ temp \in freed /\ temp \in Clients
    BY <1>0, <1>3 DEF ListFrom
  <2>2. rest \in Seq(Clients) /\ Len(rest) = 1 /\ DOMAIN rest = {1} /\ rest[1] = temp
    BY <2>1
  <2> HIDE DEF rest
  <2>3. Range(rest) = {temp}
    BY <2>2 DEF Range
  <2> QED
    BY <1>3, <2>1, <2>2, <2>3 DEF IsInjective, rest
<1> QED
  BY <1>1, <1>2, <1>3
-----------------------------------------------------------------------------
(* Steps that leave the list alone                                         *)

(* Main stays in its loop or leaves it, threads go their way from the      *)
(* greeting on.                                                            *)
Harmless ==
  /\ UNCHANGED <<temp, listVars, late, departed>>
  /\ mainPc' = mainPc \/ (mainPc \in InLoop /\ mainPc' \in InLoop \cup {"leave", "returned"})
  /\ \A c \in Clients :
       /\ thr'[c] \in Unlisted => thr[c] \in Unlisted
       /\ thr'[c] \in Live => thr[c] \in Live
       /\ thr[c] = "exited" => thr'[c] = "exited"

LEMMA HarmlessMain ==
  ASSUME Harmless
  PROVE  /\ mainPc' \in {"free", "advance"} => mainPc \in {"free", "advance"}
         /\ mainPc' \in {"join", "wait"} => mainPc \in {"join", "wait"}
         /\ mainPc' \in {"free_node", "advance"} => mainPc \in {"free_node", "advance"}
         /\ mainPc' \in Freeing => mainPc \in Freeing
         /\ mainPc' \in {"join", "wait", "free_node", "advance"} =>
              mainPc \in {"join", "wait", "free_node", "advance"}
         /\ \A p \in {"free", "free_node", "advance", "wait", "join"} :
              mainPc' = p => mainPc = p
BY DEF Harmless, InLoop, Freeing

LEMMA HarmlessKeepsCore ==
  ASSUME TypeOK, Core, Harmless
  PROVE  Core'
<1>1. /\ Nodes' = Nodes /\ First' = First /\ freed' = freed /\ client_list' = client_list
      /\ temp' = temp /\ late' = late /\ departed' = departed
      /\ total_available_clients' = total_available_clients
      /\ (BehindMain' => BehindMain) /\ (Quiet' => Quiet)
  BY HarmlessMain DEF Harmless, listVars, Nodes, First, BehindMain, Quiet
<1>2. \A c \in Clients : /\ thr'[c] \in Unlisted => thr[c] \in Unlisted
                         /\ thr'[c] \in Live => thr[c] \in Live
                         /\ thr[c] = "exited" => thr'[c] = "exited"
  BY DEF Harmless
<1>3. Nodes \subseteq Clients /\ Nodes \cup freed \subseteq Clients
  BY NodesAreClients DEF TypeOK
<1>4. ListOK'
  <2>1. IsInjective(client_list)'
    BY <1>1 DEF Core, ListOK
  <2>2. \A c \in Clients : thr'[c] \in Unlisted => c \notin Nodes' /\ c \notin freed'
    BY <1>1, <1>2 DEF Core, ListOK
  <2>3. \A i \in DOMAIN client_list' :
          client_list'[i] \in freed' => i = 1 /\ mainPc' \in {"free", "advance"}
    <3>1. mainPc \in {"free", "advance"} => mainPc' \in {"free", "advance"}
      BY DEF Harmless, InLoop
    <3> QED
      BY <1>1, <3>1 DEF Core, ListOK
  <2> QED
    BY <2>1, <2>2, <2>3 DEF ListOK
<1>5. CountOK'
  <2>1. mainPc' = "advance" => mainPc = "advance"
    BY HarmlessMain
  <2> QED
    BY <1>1, <2>1 DEF Core, CountOK
<1>6. PointerOK'
  BY <1>1, HarmlessMain DEF Core, PointerOK
<1>7. JoinedOK'
  <2>1. temp \in {Null} \cup Clients \/ mainPc' \notin {"free_node", "advance"}
    BY DEF TypeOK
  <2> QED
    BY <1>1, <1>2, <1>3, <2>1, HarmlessMain DEF Core, JoinedOK
<1>8. QuietOK'
  <2>1. mainPc' \in Freeing => mainPc \in Freeing
    BY HarmlessMain
  <2> QED
    BY <1>1, <1>2, <2>1, HarmlessMain DEF Core, QuietOK
<1> QED
  BY <1>4, <1>5, <1>6, <1>7, <1>8 DEF Core

LEMMA ThreadMoves ==
  ASSUME TypeOK, NEW c \in Clients, NEW p, ToThread(c, p),
         p \notin Unlisted \/ thr[c] \in Unlisted,
         p \notin Live \/ thr[c] \in Live, thr[c] # "exited"
  PROVE  \A d \in Clients : /\ thr'[d] \in Unlisted => thr[d] \in Unlisted
                            /\ thr'[d] \in Live => thr[d] \in Live
                            /\ thr[d] = "exited" => thr'[d] = "exited"
<1>1. \A d \in Clients : thr'[d] = IF d = c THEN p ELSE thr[d]
  BY DEF ToThread, TypeOK
<1> QED
  BY <1>1

LEMMA MainStaysHarmless ==
  ASSUME TypeOK, TestTerminate \/ CallAccept \/ \E c \in Clients : Accept(c)
  PROVE  Harmless
<1>1. CASE TestTerminate \/ CallAccept
  BY <1>1 DEF TestTerminate, CallAccept, ToMain, Harmless, InLoop, listVars
<1>2. ASSUME NEW c \in Clients, Accept(c)
      PROVE  Harmless
  <2>1. /\ UNCHANGED <<temp, listVars, late, departed>>
        /\ mainPc = "accept" /\ mainPc' \in {"test", "returned"}
        /\ thr[c] = "none" /\ (ToThread(c, "start") \/ ToThread(c, "refused"))
    BY <1>2 DEF Accept, ToMain
  <2>2. CASE ToThread(c, "start")
    BY <2>1, <2>2, ThreadMoves DEF Harmless, InLoop, Unlisted, Live
  <2>3. CASE ToThread(c, "refused")
    BY <2>1, <2>3, ThreadMoves DEF Harmless, InLoop, Unlisted, Live
  <2> QED
    BY <2>1, <2>2, <2>3
<1> QED
  BY <1>1, <1>2

LEMMA ThreadStaysHarmless ==
  ASSUME TypeOK, NEW c \in Clients,
         \/ RegisterFails(c) \/ GreetEnds(c) \/ Loop(c) \/ PollTimeout(c) \/ Handle(c)
         \/ ClientClosed(c)
  PROVE  Harmless
<1>1. /\ UNCHANGED <<temp, listVars, late, departed>> /\ mainPc' = mainPc
      /\ \/ thr[c] = "start" /\ ToThread(c, "exited")
         \/ thr[c] = "greet" /\ (ToThread(c, "test") \/ ToThread(c, "exited"))
         \/ thr[c] = "test" /\ (ToThread(c, "poll") \/ ToThread(c, "exited"))
         \/ thr[c] = "poll" /\ (ToThread(c, "test") \/ ToThread(c, "close"))
  BY DEF RegisterFails, GreetEnds, Loop, PollTimeout, Handle, ClientClosed, ToThread
<1>2. PICK p \in {"exited", "test", "poll", "close"} :
        ToThread(c, p) /\ thr[c] # "exited" /\ (p \notin Live \/ thr[c] \in Live)
  BY <1>1 DEF Live
<1> QED
  BY <1>1, <1>2, ThreadMoves DEF Harmless, Unlisted

LEMMA OthersAreHarmless ==
  ASSUME TypeOK, (\E c \in Clients : ClientStep(c)) \/ (\E t \in Interrupted : Sigint(t))
  PROVE  Harmless
<1>1. ASSUME NEW c \in Clients, ClientStep(c)
      PROVE  Harmless
  BY <1>1 DEF ClientStep, Harmless
<1>2. ASSUME NEW t \in Interrupted, Sigint(t)
      PROVE  Harmless
  <2>1. /\ UNCHANGED <<temp, listVars, late, departed>>
        /\ mainPc' = mainPc \/ (mainPc = "accept" /\ mainPc' = "leave")
    BY <1>2 DEF Sigint
  <2>2. CASE UNCHANGED thr
    BY <2>1, <2>2 DEF Harmless, InLoop
  <2>3. CASE t \in Clients /\ thr[t] = "poll" /\ ToThread(t, "close")
    BY <2>1, <2>3, ThreadMoves DEF Harmless, InLoop, Unlisted, Live
  <2>4. CASE t \in Clients /\ thr[t] = "greet" /\ ToThread(t, "exited")
    BY <2>1, <2>4, ThreadMoves DEF Harmless, InLoop, Unlisted, Live
  <2> QED
    BY <1>2, <2>2, <2>3, <2>4 DEF Sigint
<1> QED
  BY <1>1, <1>2
-----------------------------------------------------------------------------
(* Main joins and frees                                                    *)

LEMMA JoinStartKeepsCore ==
  ASSUME TypeOK, Core, JoinStart
  PROVE  Core'
<1>1. /\ mainPc = "leave" /\ mainPc' = "join" /\ temp' = First
      /\ UNCHANGED <<client_list, freed, total_available_clients, thr, late, departed>>
      /\ Nodes' = Nodes
  BY DEF JoinStart, ToMain, listVars, Nodes
<1>2. /\ First \in Nodes => \A n : ~ Precedes(client_list, n, First)
      /\ First \in {Null} \cup Nodes /\ (First = Null => Nodes = {})
      /\ Null \notin Nodes /\ Null \notin freed
  BY FirstNode, NodesAreClients DEF Core, ListOK
<1>3. Nodes \cap freed = {}
  BY <1>1 DEF Core, ListOK, Nodes, Range
<1>4. ListOK' /\ CountOK'
  BY <1>1, <1>3 DEF Core, ListOK, CountOK, Nodes
<1>5. PointerOK'
  BY <1>1, <1>2 DEF PointerOK
<1>6. JoinedOK'
  BY <1>1, <1>2, <1>3 DEF JoinedOK, BehindMain, Freeing
<1>7. QuietOK'
  BY <1>1 DEF Core, QuietOK, Quiet, Freeing
<1> QED
  BY <1>4, <1>5, <1>6, <1>7 DEF Core

LEMMA JoinThreadKeepsCore ==
  ASSUME TypeOK, Core, ~ undefined', ~ undefined, JoinThread
  PROVE  Core'
<1>1. /\ mainPc = "join" /\ temp' = temp /\ ~ Touches(temp)
      /\ UNCHANGED <<client_list, freed, total_available_clients, thr, late, departed>>
      /\ Nodes' = Nodes
      /\ (temp = Null /\ mainPc' = "free") \/ (temp # Null /\ mainPc' = "wait")
  BY DEF JoinThread, ToMain, listVars, Nodes, UndefinedNow
<1>2. Null \notin Nodes /\ Null \notin freed
  BY NodesAreClients
<1>3. Nodes \cap freed = {}
  BY <1>1 DEF Core, ListOK, Nodes, Range
<1>4. ListOK' /\ CountOK'
  BY <1>1, <1>3 DEF Core, ListOK, CountOK, Nodes
<1>5. PointerOK'
  BY <1>1 DEF Core, PointerOK
<1>6. JoinedOK'
  BY <1>1, <1>2 DEF Core, JoinedOK, BehindMain, Freeing
<1>7. QuietOK'
  <2>1. temp = Null => BehindMain
    BY <1>1 DEF BehindMain
  <2>2. Quiet' => Quiet
    BY <1>1 DEF Quiet
  <2>3. ASSUME Quiet, temp = Null
        PROVE  \A c \in Clients : thr[c] \notin Live
    BY <2>1, <2>3 DEF Core, QuietOK, JoinedOK, Quiet, Live
  <2> QED
    BY <1>1, <1>3, <2>2, <2>3 DEF Core, QuietOK, Freeing
<1> QED
  BY <1>4, <1>5, <1>6, <1>7 DEF Core

LEMMA JoinNextKeepsCore ==
  ASSUME TypeOK, Core, ~ undefined', ~ undefined, JoinNext
  PROVE  Core'
<1>1. /\ mainPc = "wait" /\ mainPc' = "join" /\ temp' = After(temp) /\ temp \notin freed
      /\ thr[temp] = "exited"
      /\ UNCHANGED <<client_list, freed, total_available_clients, thr, late, departed>>
      /\ Nodes' = Nodes
  BY DEF JoinNext, ToMain, listVars, Nodes, UndefinedNow, Touches
<1>2. Null \notin Nodes /\ Null \notin freed /\ temp \in Nodes
  BY <1>1, NodesAreClients DEF Core, PointerOK
<1>3. Nodes \cap freed = {}
  BY <1>1 DEF Core, ListOK, Nodes, Range
<1>4. \A n \in Nodes : n = temp \/ Precedes(client_list, n, temp) => thr[n] = "exited"
  BY <1>1, <1>2 DEF Core, JoinedOK
<1>5. \/ /\ After(temp) \in Nodes
         /\ \A m \in Nodes : Precedes(client_list, m, After(temp)) => thr[m] = "exited"
      \/ After(temp) = Null /\ \A m \in Nodes : thr[m] = "exited"
  BY <1>2, <1>4, NextNode DEF Core, ListOK
<1>6. ListOK' /\ CountOK'
  BY <1>1, <1>3 DEF Core, ListOK, CountOK, Nodes
<1>7. PointerOK'
  BY <1>1, <1>5 DEF PointerOK
<1>8. JoinedOK'
  BY <1>1, <1>2, <1>3, <1>5 DEF JoinedOK, BehindMain, Freeing
<1>9. QuietOK'
  BY <1>1 DEF Core, QuietOK, Quiet, Freeing
<1> QED
  BY <1>6, <1>7, <1>8, <1>9 DEF Core

LEMMA FreeReadKeepsCore ==
  ASSUME TypeOK, Core, ~ undefined', ~ undefined, FreeRead
  PROVE  Core'
<1>1. /\ mainPc = "free" /\ ~ Touches(First)
      /\ UNCHANGED <<client_list, freed, total_available_clients, thr, late, departed>>
      /\ Nodes' = Nodes /\ First' = First
      /\ \/ mainPc' = "returned"
         \/ mainPc' = "free_node" /\ client_list # <<>> /\ temp' = After(First)
  BY DEF FreeRead, ToMain, listVars, Nodes, First, UndefinedNow
<1>2. Null \notin Nodes /\ Null \notin freed
  BY NodesAreClients
<1>3. Nodes \cap freed = {}
  <2>1. CASE client_list = <<>>
    BY <2>1, FirstNode DEF Core, ListOK
  <2>2. CASE client_list # <<>>
    <3>1. \A i \in DOMAIN client_list : client_list[i] \in freed => client_list[i] = First
      BY <2>2, FirstNode DEF Core, ListOK
    <3> QED
      BY <1>1, <3>1 DEF Touches, Nodes, Range
  <2> QED
    BY <2>1, <2>2
<1>4. mainPc' = "free_node" =>
        temp' \in {Null} \cup Nodes /\ temp' \notin freed /\ temp' # First
  <2>1. client_list # <<>> => First \in Nodes
    BY FirstNode DEF Core, ListOK
  <2>2. client_list # <<>> => After(First) \in {Null} \cup Nodes /\ After(First) # First
    BY <1>2, <2>1, NextNode DEF Core, ListOK
  <2> QED
    BY <1>1, <1>2, <1>3, <2>2
<1>5. ListOK' /\ CountOK'
  BY <1>1, <1>3 DEF Core, ListOK, CountOK, Nodes, Range
<1>6. PointerOK'
  BY <1>1, <1>4 DEF PointerOK
<1>7. JoinedOK'
  <2>1. BehindMain
    BY <1>1 DEF BehindMain, Freeing
  <2> QED
    BY <1>1, <1>4, <2>1 DEF Core, JoinedOK, BehindMain, Freeing
<1>8. QuietOK'
  BY <1>1, <1>4 DEF Core, QuietOK, Quiet, Freeing
<1> QED
  BY <1>5, <1>6, <1>7, <1>8 DEF Core

LEMMA FreeNodeKeepsCore ==
  ASSUME TypeOK, Core, ~ undefined', ~ undefined, FreeNode
  PROVE  Core'
<1>1. /\ mainPc = "free_node" /\ mainPc' = "advance"
      /\ UNCHANGED <<temp, client_list, total_available_clients, thr, late, departed>>
      /\ freed' = freed \cup ({First} \ {Null})
      /\ Nodes' = Nodes
  BY DEF FreeNode, ToMain, Nodes, UndefinedNow
<1>2. Nodes \cap freed = {}
  BY <1>1 DEF Core, ListOK, Nodes, Range
<1>3. First = Null \/ (1 \in DOMAIN client_list /\ client_list[1] = First /\ First \in Nodes)
  BY FirstNode DEF Core, ListOK
<1>4. ListOK'
  <2>1. IsInjective(client_list)' /\ \A c \in Clients : thr'[c] \in Unlisted => c \notin Nodes'
    BY <1>1 DEF Core, ListOK
  <2>2. \A c \in Clients : thr'[c] \in Unlisted => c \notin freed'
    BY <1>1, <1>3 DEF Core, ListOK
  <2>3. \A i \in DOMAIN client_list : client_list[i] \in freed' => i = 1
    <3> SUFFICES ASSUME NEW i \in DOMAIN client_list, client_list[i] \in freed'
                 PROVE  i = 1
      OBVIOUS
    <3>1. client_list[i] \in Nodes
      BY DEF Nodes, Range
    <3>2. client_list[i] = First /\ First # Null
      BY <1>1, <1>2, <3>1
    <3> QED
      BY <1>3, <3>2 DEF Core, ListOK, IsInjective
  <2> QED
    BY <1>1, <2>1, <2>2, <2>3 DEF ListOK
<1>5. CountOK'
  BY <1>1, <1>2 DEF Core, CountOK
<1>6. PointerOK'
  BY <1>1 DEF Core, PointerOK
<1>7. JoinedOK'
  BY <1>1 DEF Core, JoinedOK, BehindMain, Freeing
<1>8. QuietOK'
  BY <1>1 DEF Core, QuietOK, Quiet, Freeing
<1> QED
  BY <1>4, <1>5, <1>6, <1>7, <1>8 DEF Core

LEMMA FreeAdvanceKeepsCore ==
  ASSUME TypeOK, Core, FreeAdvance
  PROVE  Core'
<1> DEFINE rest == ListFrom(temp)
<1>1. /\ mainPc = "advance" /\ mainPc' = "free" /\ client_list' = rest
      /\ UNCHANGED <<temp, freed, total_available_clients, thr, late, departed>>
  BY DEF FreeAdvance, ToMain
<1>2. /\ rest \in Seq(Clients) /\ IsInjective(rest)
      /\ Range(rest) \subseteq Nodes \cup {temp} /\ (temp = Null => rest = <<>>)
      /\ Range(rest) \cap freed = {} => Len(rest) <= Len(client_list)
      /\ \A j \in DOMAIN rest : rest[j] \in freed => j = 1 /\ rest[j] = temp
  BY <1>1, RestOfList DEF Core
<1> HIDE DEF rest
<1>3. Nodes' = Range(rest)
  BY <1>1 DEF Nodes
<1>4. temp = Null => Range(rest) = {}
  BY <1>2 DEF Range
<1>5. temp \in {Null} \cup Nodes \cup freed /\ Null \notin freed
  BY <1>1, NodesAreClients DEF Core, PointerOK
<1>6. ListOK'
  <2>1. \A c \in Clients : thr[c] \in Unlisted => c \notin Range(rest) /\ c \notin freed
    BY <1>2, <1>4, <1>5 DEF Core, ListOK
  <2> QED
    BY <1>1, <1>2, <1>3, <2>1 DEF ListOK
<1>7. CountOK'
  <2>1. Len(client_list) <= total_available_clients
    BY <1>1 DEF Core, CountOK
  <2>2. Len(rest) \in Nat /\ Len(client_list) \in Nat /\ total_available_clients \in Int
    BY <1>2, LenProperties DEF TypeOK
  <2>3. Range(rest) \cap freed = {} => Len(rest) <= total_available_clients
    BY <1>2, <2>1, <2>2
  <2> QED
    BY <1>1, <1>3, <2>3 DEF CountOK
<1>8. PointerOK'
  BY <1>1 DEF PointerOK
<1>9. JoinedOK'
  <2>1. \A n \in Nodes : thr[n] = "exited" \/ n \in late
    BY <1>1 DEF Core, JoinedOK, BehindMain, Freeing
  <2>2. \A n \in Range(rest) : thr[n] = "exited" \/ n \in late
    BY <1>1, <1>2, <1>4, <2>1 DEF Core, JoinedOK
  <2> QED
    BY <1>1, <1>3, <2>2 DEF JoinedOK
<1>10. QuietOK'
  <2>1. Quiet => Range(rest) \cap freed = {}
    <3>1. Quiet => temp \notin freed
      BY <1>1 DEF Core, QuietOK
    <3> QED
      BY <1>2, <3>1 DEF Range
  <2> QED
    BY <1>1, <1>3, <2>1 DEF Core, QuietOK, Quiet, Freeing
<1> QED
  BY <1>6, <1>7, <1>8, <1>9, <1>10 DEF Core
-----------------------------------------------------------------------------
(* Threads add and remove their nodes                                      *)

LEMMA RegisterKeepsCore ==
  ASSUME TypeOK, Core, ~ undefined', NEW c \in Clients, Register(c)
  PROVE  Core'
<1>1. /\ thr[c] = "start" /\ ToThread(c, "greet")
      /\ client_list' = Append(client_list, c)
      /\ total_available_clients' = (total_available_clients + 1) % 256
      /\ ~ (total_available_clients >= MAX_CLIENT)
      /\ late' = IF BehindMain THEN late \cup {c} ELSE late
      /\ UNCHANGED <<mainPc, temp, freed, departed>>
      /\ Nodes \cap freed = {}
  BY DEF Register, QueueFull, WalkTouches, Touches
<1>2. c \notin Nodes /\ c \notin freed /\ client_list \in Seq(Clients) /\ IsInjective(client_list)
      /\ Null \notin Clients /\ Nodes \subseteq Clients /\ Len(client_list) \in Nat
      /\ freed \subseteq Clients
  BY <1>1, NodesAreClients, LifecycleAssumption DEF Core, ListOK, Unlisted, TypeOK
<1>3. /\ IsInjective(client_list') /\ Nodes' = Nodes \cup {c}
      /\ Len(client_list') = Len(client_list) + 1
      /\ \A m, n \in Nodes : Precedes(client_list', m, n) <=> Precedes(client_list, m, n)
      /\ \A m \in Nodes : ~ Precedes(client_list', c, m)
  BY <1>1, <1>2, AppendKeepsOrder DEF Nodes
<1>4. \A d \in Clients : thr'[d] = IF d = c THEN "greet" ELSE thr[d]
  BY <1>1 DEF ToThread, TypeOK
<1>5. Nodes' \cap freed' = {}
  BY <1>1, <1>2, <1>3
<1>6. ListOK'
  <2>1. \A d \in Clients : thr'[d] \in Unlisted => d \notin Nodes' /\ d \notin freed'
    BY <1>1, <1>3, <1>4 DEF Core, ListOK, Unlisted
  <2>2. \A i \in DOMAIN client_list' : client_list'[i] \notin freed'
    BY <1>5 DEF Nodes, Range
  <2> QED
    BY <1>3, <2>1, <2>2 DEF ListOK
<1>7. CountOK'
  <2>1. Len(client_list) <= total_available_clients
    BY <1>1 DEF Core, CountOK
  <2>2. total_available_clients \in Nat /\ MAX_CLIENT \in 1..255
    BY LifecycleAssumption DEF TypeOK
  <2>3. total_available_clients' = total_available_clients + 1
    BY <1>1, <2>2
  <2> QED
    BY <1>2, <1>3, <2>1, <2>2, <2>3 DEF CountOK
<1>8. PointerOK'
  BY <1>1, <1>3 DEF Core, PointerOK
<1>9. BehindMain' <=> BehindMain
  BY <1>1 DEF BehindMain
<1>10. JoinedOK'
  <2>1. ASSUME mainPc \in {"join", "wait"}, temp \in Nodes', NEW n \in Nodes',
               Precedes(client_list', n, temp)
        PROVE  thr'[n] = "exited"
    <3>1. temp # c
      BY <1>1, <1>2, <2>1 DEF Core, PointerOK
    <3>2. temp \in Nodes /\ n \in Nodes /\ n # c
      BY <1>2, <1>3, <2>1, <3>1
    <3>3. thr[n] = "exited"
      BY <1>3, <2>1, <3>2 DEF Core, JoinedOK
    <3> QED
      BY <1>2, <1>4, <3>2, <3>3
  <2>2. ASSUME BehindMain, NEW n \in Nodes'
        PROVE  thr'[n] = "exited" \/ n \in late'
    BY <1>1, <1>2, <1>3, <1>4, <2>2 DEF Core, JoinedOK
  <2>3. ASSUME mainPc \in {"free_node", "advance"}, temp # Null
        PROVE  thr'[temp] = "exited" \/ temp \in late'
    <3>1. temp \in Clients /\ temp # c
      BY <1>1, <1>2, <2>3 DEF Core, PointerOK
    <3> QED
      BY <1>1, <1>4, <2>3, <3>1 DEF Core, JoinedOK
  <2>4. mainPc \in {"join", "wait"} /\ temp \in freed => departed # {}
    BY DEF Core, JoinedOK
  <2> QED
    BY <1>1, <1>9, <2>1, <2>2, <2>3, <2>4 DEF JoinedOK
<1>11. QuietOK'
  <2>1. Quiet' => Quiet /\ mainPc \notin Freeing
    BY <1>1 DEF Quiet, BehindMain
  <2> QED
    BY <1>1, <1>3, <1>4, <2>1 DEF Core, QuietOK, Freeing, Live
<1> QED
  BY <1>6, <1>7, <1>8, <1>10, <1>11 DEF Core

(* A node is taken off the list and freed.                                 *)
LEMMA RemoveKeepsCore ==
  ASSUME TypeOK, Core, ~ undefined', NEW c \in Clients, RemoveNode(c), c \in Nodes
  PROVE  Core' /\ total_available_clients' \in 0..MAX_CLIENT /\ client_list' \in Seq(Clients)
<1> DEFINE p == Position(c)
<1>1. /\ thr[c] = "close" /\ ToThread(c, "exited")
      /\ client_list' = RemoveAt(client_list, p)
      /\ freed' = freed \cup {c}
      /\ total_available_clients' = (total_available_clients - 1) % 256
      /\ departed' = IF mainPc \in InLoop \cup {"leave"} THEN departed ELSE departed \cup {c}
      /\ UNCHANGED <<mainPc, temp, late>>
      /\ Nodes \cap freed = {}
  BY DEF RemoveNode, WalkTouches, Touches
<1>2. /\ client_list \in Seq(Clients) /\ IsInjective(client_list) /\ Len(client_list) \in Nat
      /\ Null \notin Clients /\ Nodes \subseteq Clients /\ freed \subseteq Clients
      /\ p \in 1..Len(client_list) /\ client_list[p] = c
  BY NodesAreClients, PositionIsThere, LifecycleAssumption DEF Core, ListOK, TypeOK
<1> HIDE DEF p
<1>3. /\ IsInjective(client_list') /\ Nodes' = Nodes \ {c} /\ client_list' \in Seq(Clients)
      /\ Len(client_list') = Len(client_list) - 1
      /\ \A m, n \in Nodes \ {c} : Precedes(client_list', m, n) <=> Precedes(client_list, m, n)
  BY <1>1, <1>2, RemoveKeepsOrder DEF Nodes
<1>4. \A d \in Clients : thr'[d] = IF d = c THEN "exited" ELSE thr[d]
  BY <1>1 DEF ToThread, TypeOK
<1>5. Nodes' \cap freed' = {}
  BY <1>1, <1>2, <1>3
<1>6. ListOK'
  <2>1. \A d \in Clients : thr'[d] \in Unlisted => d \notin Nodes' /\ d \notin freed'
    BY <1>1, <1>3, <1>4 DEF Core, ListOK, Unlisted
  <2>2. \A i \in DOMAIN client_list' : client_list'[i] \notin freed'
    BY <1>5 DEF Nodes, Range
  <2> QED
    BY <1>3, <2>1, <2>2 DEF ListOK
<1>7. CountOK' /\ total_available_clients' \in 0..MAX_CLIENT
  <2>1. Len(client_list) <= total_available_clients
    BY <1>1 DEF Core, CountOK
  <2>2. /\ total_available_clients \in 0..MAX_CLIENT /\ MAX_CLIENT \in 1..255
        /\ total_available_clients - 1 \in 0..254
    BY <1>2, <2>1, LifecycleAssumption DEF TypeOK
  <2>3. total_available_clients' = total_available_clients - 1
    BY <1>1, <2>2
  <2> QED
    BY <1>2, <1>3, <2>1, <2>2, <2>3 DEF CountOK
<1>8. PointerOK'
  BY <1>1, <1>3 DEF Core, PointerOK
<1>9. BehindMain' <=> BehindMain
  BY <1>1 DEF BehindMain
<1>10. JoinedOK'
  <2>1. ASSUME mainPc \in {"join", "wait"}, temp \in Nodes', NEW n \in Nodes',
               Precedes(client_list', n, temp)
        PROVE  thr'[n] = "exited"
    BY <1>2, <1>3, <1>4, <2>1 DEF Core, JoinedOK
  <2>2. ASSUME BehindMain, NEW n \in Nodes'
        PROVE  thr'[n] = "exited" \/ n \in late'
    BY <1>1, <1>2, <1>3, <1>4, <2>2 DEF Core, JoinedOK
  <2>3. ASSUME mainPc \in {"free_node", "advance"}, temp # Null
        PROVE  thr'[temp] = "exited" \/ temp \in late'
    <3>1. temp \in Clients
      BY <1>2, <2>3 DEF Core, PointerOK
    <3> QED
      BY <1>1, <1>4, <2>3, <3>1 DEF Core, JoinedOK
  <2>4. mainPc \in {"join", "wait"} /\ temp \in freed' => departed' # {}
    BY <1>1 DEF Core, JoinedOK, InLoop
  <2> QED
    BY <1>1, <1>9, <2>1, <2>2, <2>3, <2>4 DEF JoinedOK
<1>11. QuietOK'
  <2>1. Quiet' => Quiet /\ mainPc \in InLoop \cup {"leave"}
    BY <1>1 DEF Quiet
  <2> QED
    BY <1>1, <1>3, <1>4, <2>1 DEF Core, QuietOK, Freeing, Live, InLoop
<1> QED
  BY <1>3, <1>6, <1>7, <1>8, <1>10, <1>11 DEF Core

(* A thread whose node is gone already.                                    *)
LEMMA NothingToRemove ==
  ASSUME TypeOK, NEW c \in Clients, RemoveNode(c), WalkTouches \/ c \notin Nodes
  PROVE  Harmless
<1>1. /\ thr[c] = "close" /\ ToThread(c, "exited")
      /\ UNCHANGED <<mainPc, temp, listVars, late, departed>>
  BY DEF RemoveNode
<1> QED
  BY <1>1, ThreadMoves DEF Harmless, Unlisted, Live
-----------------------------------------------------------------------------
(* The invariant                                                           *)

LEMMA NextKeepsCore ==
  ASSUME Inv, [Next]_vars, ~ undefined'
  PROVE  Core'
<1>1. CASE UNCHANGED vars
  <2>1. ~ undefined
    BY <1>1 DEF vars
  <2> QED
    BY <1>1, <2>1, HarmlessKeepsCore DEF Inv, vars, Harmless
<1>2. CASE Next
  <2>1. ~ undefined /\ TypeOK /\ Core
    BY <1>2 DEF Next, MainNext, ThreadNext, ClientStep, Sigint, Running, Inv
  <2>2. CASE MainNext
    <3>1. CASE TestTerminate \/ CallAccept \/ \E c \in Clients : Accept(c)
      BY <2>1, <3>1, MainStaysHarmless, HarmlessKeepsCore
    <3>2. CASE JoinStart
      BY <2>1, <3>2, JoinStartKeepsCore
    <3>3. CASE JoinThread
      BY <2>1, <3>3, JoinThreadKeepsCore
    <3>4. CASE JoinNext
      BY <2>1, <3>4, JoinNextKeepsCore
    <3>5. CASE FreeRead
      BY <2>1, <3>5, FreeReadKeepsCore
    <3>6. CASE FreeNode
      BY <2>1, <3>6, FreeNodeKeepsCore
    <3>7. CASE FreeAdvance
      BY <2>1, <3>7, FreeAdvanceKeepsCore
    <3> QED
      BY <2>2, <3>1, <3>2, <3>3, <3>4, <3>5, <3>6, <3>7 DEF MainNext
  <2>3. ASSUME NEW c \in Clients, ThreadNext(c)
        PROVE  Core'
    <3>1. CASE Register(c)
      BY <2>1, <3>1, RegisterKeepsCore
    <3>2. CASE RemoveNode(c)
      BY <2>1, <3>2, RemoveKeepsCore, NothingToRemove, HarmlessKeepsCore
    <3>3. CASE RegisterFails(c) \/ GreetEnds(c) \/ Loop(c) \/ PollTimeout(c) \/ Handle(c)
               \/ ClientClosed(c)
      BY <2>1, <3>3, ThreadStaysHarmless, HarmlessKeepsCore
    <3> QED
      BY <2>3, <3>1, <3>2, <3>3 DEF ThreadNext
  <2>4. CASE (\E c \in Clients : ClientStep(c)) \/ (\E t \in Interrupted : Sigint(t))
    BY <2>1, <2>4, OthersAreHarmless, HarmlessKeepsCore
  <2> QED
    BY <1>2, <2>2, <2>3, <2>4 DEF Next
<1> QED
  BY <1>1, <1>2

(* Freed memory is read for a reason.                                      *)
LEMMA NextHasCause ==
  ASSUME Inv, [Next]_vars
  PROVE  UndefinedHasCause'
<1> SUFFICES ASSUME undefined', Quiet'
             PROVE  FALSE
  BY DEF UndefinedHasCause, Quiet
<1>1. CASE UNCHANGED vars
  BY <1>1 DEF vars, Inv, UndefinedHasCause, Quiet
<1>2. CASE Next
  <2>1. ~ undefined /\ TypeOK /\ Core
    BY <1>2 DEF Next, MainNext, ThreadNext, ClientStep, Sigint, Running, Inv
  <2>2. WalkTouches => mainPc \in Freeing
    BY <2>1 DEF Core, ListOK, WalkTouches, Touches, Nodes, Range, Freeing
  <2>3. CASE MainNext
    <3>1. Quiet
      BY <2>3 DEF Quiet, MainNext, TestTerminate, CallAccept, Accept, JoinStart, JoinThread,
                  JoinNext, FreeRead, FreeNode, FreeAdvance, UndefinedNow
    <3>2. CASE JoinThread
      BY <2>1, <3>1, <3>2 DEF JoinThread, Touches, Core, JoinedOK, Quiet
    <3>3. CASE JoinNext
      BY <2>1, <3>1, <3>3 DEF JoinNext, Touches, Core, JoinedOK, Quiet
    <3>4. First \in Nodes \/ First \notin freed
      BY <2>1, FirstNode, NodesAreClients DEF Core, ListOK
    <3>5. CASE FreeRead
      BY <2>1, <3>1, <3>4, <3>5 DEF FreeRead, Touches, Core, QuietOK
    <3>6. CASE FreeNode
      <4>1. First \in freed /\ mainPc = "free_node"
        BY <2>1, <3>6 DEF FreeNode, Touches
      <4> QED
        BY <2>1, <3>4, <4>1 DEF Core, ListOK, Nodes, Range
    <3> QED
      BY <2>1, <2>3, <3>2, <3>3, <3>5, <3>6
         DEF MainNext, TestTerminate, CallAccept, Accept, JoinStart, FreeAdvance
  <2>4. ASSUME NEW c \in Clients, ThreadNext(c)
        PROVE  FALSE
    <3>1. CASE Register(c)
      BY <2>1, <2>2, <3>1 DEF Register, Quiet, BehindMain
    <3>2. CASE Handle(c) \/ RemoveNode(c)
      <4>1. thr[c] \in Live /\ WalkTouches /\ Quiet
        BY <2>1, <3>2 DEF Handle, RemoveNode, Quiet, Live
      <4> QED
        BY <2>1, <2>2, <4>1 DEF Core, QuietOK
    <3> QED
      BY <2>1, <2>4, <3>1, <3>2
         DEF ThreadNext, RegisterFails, GreetEnds, Loop, PollTimeout, ClientClosed
  <2> QED
    BY <1>2, <2>1, <2>3, <2>4 DEF Next, ClientStep, Sigint
<1> QED
  BY <1>1, <1>2

LEMMA NextKeepsTypes ==
  ASSUME Inv, [Next]_vars
  PROVE  TypeOK'
<1>0. TypeOK /\ Null \notin Clients /\ MAX_CLIENT \in 1..255 /\ MaxSignals \in Nat
  BY LifecycleAssumption DEF Inv
<1>1. CASE UNCHANGED vars
  BY <1>0, <1>1 DEF vars, listVars, TypeOK
<1>2. CASE Next
  <2>1. ~ undefined /\ Core
    BY <1>2 DEF Next, MainNext, ThreadNext, ClientStep, Sigint, Running, Inv
  <2>2. CASE MainNext
    <3>1. First \in Clients \cup {Null}
      BY <1>0, <2>1, FirstNode, NodesAreClients DEF Core, ListOK
    <3>2. \A n \in Nodes : After(n) \in Clients \cup {Null}
      BY <1>0, <2>1, NextNode, NodesAreClients DEF Core, ListOK
    <3>3. CASE TestTerminate \/ CallAccept \/ JoinStart \/ JoinThread
      BY <1>0, <3>1, <3>3 DEF TestTerminate, CallAccept, JoinStart, JoinThread, UndefinedNow,
         ToMain, listVars, TypeOK, MainPcs, InLoop, Freeing
    <3>4. ASSUME NEW c \in Clients, Accept(c)
          PROVE  TypeOK'
      BY <1>0, <3>4 DEF Accept, ToMain, ToThread, listVars, TypeOK, MainPcs, InLoop, ThreadPcs
    <3>5. CASE JoinNext
      <4>1. temp \in Nodes \/ Touches(temp)
        BY <2>1, <3>5 DEF JoinNext, Touches, Core, PointerOK
      <4> QED
        BY <1>0, <3>2, <3>5, <4>1 DEF JoinNext, UndefinedNow, ToMain, listVars, TypeOK, MainPcs
    <3>6. CASE FreeRead
      <4>1. client_list # <<>> => First \in Nodes
        BY <1>0, <2>1, FirstNode DEF Core, ListOK
      <4> QED
        BY <1>0, <3>2, <3>6, <4>1 DEF FreeRead, UndefinedNow, ToMain, listVars, TypeOK, MainPcs,
           Freeing
    <3>7. CASE FreeNode
      BY <1>0, <3>1, <3>7 DEF FreeNode, UndefinedNow, ToMain, listVars, TypeOK, MainPcs, Freeing
    <3>8. CASE FreeAdvance
      <4>1. client_list' \in Seq(Clients)
        BY <1>0, <2>1, <3>8, RestOfList DEF FreeAdvance, Core
      <4> QED
        BY <1>0, <3>8, <4>1 DEF FreeAdvance, ToMain, TypeOK, MainPcs, Freeing
    <3> QED
      BY <2>2, <3>3, <3>4, <3>5, <3>6, <3>7, <3>8 DEF MainNext
  <2>3. ASSUME NEW c \in Clients, ThreadNext(c)
        PROVE  TypeOK'
    <3>1. CASE Register(c)
      <4>1. CASE WalkTouches
        BY <1>0, <3>1, <4>1 DEF Register, listVars, TypeOK
      <4>2. CASE ~ WalkTouches
        <5>1. Append(client_list, c) \in Seq(Clients)
          BY <1>0, AppendProperties DEF TypeOK
        <5>2. (total_available_clients + 1) % 256 \in 0..MAX_CLIENT
          BY <1>0, <3>1 DEF Register, QueueFull, TypeOK
        <5> QED
          BY <1>0, <3>1, <4>2, <5>1, <5>2 DEF Register, ToThread, TypeOK, ThreadPcs
      <4> QED
        BY <4>1, <4>2
    <3>2. CASE RemoveNode(c)
      <4>1. /\ UNCHANGED <<server_terminate, mainPc, temp, conn, signals, late>>
            /\ ToThread(c, "exited") /\ freed' \subseteq freed \cup {c}
            /\ departed' \subseteq departed \cup {c}
        BY <3>2 DEF RemoveNode, listVars
      <4>2. undefined' \in BOOLEAN
        BY <3>2 DEF RemoveNode, WalkTouches
      <4>3. total_available_clients' \in 0..MAX_CLIENT /\ client_list' \in Seq(Clients)
        <5>1. CASE WalkTouches \/ c \notin Nodes
          BY <1>0, <3>2, <5>1 DEF RemoveNode, listVars, TypeOK
        <5>2. CASE ~ WalkTouches /\ c \in Nodes
          <6>1. ~ undefined'
            BY <3>2, <5>2 DEF RemoveNode
          <6> QED
            BY <1>0, <2>1, <3>2, <5>2, <6>1, RemoveKeepsCore
        <5> QED
          BY <5>1, <5>2
      <4> QED
        BY <1>0, <4>1, <4>2, <4>3 DEF ToThread, TypeOK, ThreadPcs
    <3>3. CASE Handle(c)
      <4>1. undefined' \in BOOLEAN
        BY <3>3 DEF Handle, WalkTouches
      <4> QED
        BY <1>0, <3>3, <4>1 DEF Handle, ToThread, listVars, TypeOK, ThreadPcs
    <3>4. CASE RegisterFails(c) \/ GreetEnds(c) \/ Loop(c) \/ PollTimeout(c) \/ ClientClosed(c)
      BY <1>0, <3>4 DEF RegisterFails, GreetEnds, Loop, PollTimeout, ClientClosed, ToThread,
         listVars, TypeOK, ThreadPcs
    <3> QED
      BY <2>3, <3>1, <3>2, <3>3, <3>4 DEF ThreadNext
  <2>4. ASSUME NEW c \in Clients, ClientStep(c)
        PROVE  TypeOK'
    BY <1>0, <2>4 DEF ClientStep, listVars, TypeOK
  <2>5. ASSUME NEW t \in Interrupted, Sigint(t)
        PROVE  TypeOK'
    BY <1>0, <2>5 DEF Sigint, ToThread, listVars, TypeOK, MainPcs, ThreadPcs
  <2> QED
    BY <1>2, <2>2, <2>3, <2>4, <2>5 DEF Next
<1> QED
  BY <1>1, <1>2

LEMMA InitHolds == Init => Inv
<1> SUFFICES ASSUME Init
             PROVE  Inv
  OBVIOUS
<1>1. Nodes = {} /\ Len(client_list) = 0 /\ DOMAIN client_list = {}
  BY DEF Init, Nodes, Range
<1>2. TypeOK
  <2>1. <<>> \in Seq(Clients)
    OBVIOUS
  <2>2. 0 \in 0..MAX_CLIENT /\ 0 \in 0..MaxSignals
    BY LifecycleAssumption
  <2> QED
    BY <2>1, <2>2 DEF Init, TypeOK, MainPcs, InLoop, ThreadPcs
<1>3. ListOK
  BY <1>1 DEF Init, ListOK, IsInjective, Unlisted
<1>4. CountOK
  BY <1>1 DEF Init, CountOK
<1>5. PointerOK /\ JoinedOK
  BY DEF Init, PointerOK, JoinedOK, BehindMain, Freeing
<1>6. QuietOK
  BY DEF Init, QuietOK, Live, Freeing
<1>7. UndefinedHasCause
  BY DEF Init, UndefinedHasCause
<1> QED
  BY <1>2, <1>3, <1>4, <1>5, <1>6, <1>7 DEF Inv, Core

(* The list, main's pointer into it and what main has joined agree, at     *)
(* any moment at which no freed node has been read.                        *)
THEOREM LifecycleInvariance == Spec => []Inv
<1>1. Inv /\ [Next]_vars => Inv'
  BY NextKeepsTypes, NextHasCause, NextKeepsCore DEF Inv
<1> QED
  BY <1>1, InitHolds, PTL DEF Spec

(* Every variable keeps its type; the counter of the clients never wraps   *)
(* nor passes MAX_CLIENT (server_queue.c:44-49, 81-137).                   *)
THEOREM TypesHold == Spec => []TypeOK
<1>1. Inv => TypeOK
  BY DEF Inv
<1> QED
  BY <1>1, LifecycleInvariance, PTL

(* free_all_client_nodes frees only nodes whose threads have ended, but    *)
(* for those added behind join_all_client_threads (server_queue.c:312-335).*)
THEOREM OnlyJoinedAreFreed == Spec => []FreesJoinedNodes
<1>1. Inv => FreesJoinedNodes
  <2> SUFFICES ASSUME Inv, mainPc = "free_node", ~ undefined, client_list # <<>>
               PROVE  thr[First] = "exited" \/ First \in late
    BY DEF FreesJoinedNodes
  <2>1. First \in Nodes
    BY FirstNode DEF Inv, Core, ListOK
  <2> QED
    BY <2>1 DEF Inv, Core, JoinedOK, BehindMain, Freeing
<1> QED
  BY <1>1, LifecycleInvariance, PTL

(* The server reads freed memory only after a node was added or removed    *)
(* behind main's walk along the list (server_queue.c:325-335).             *)
THEOREM FreedIsReadForACause == Spec => []UndefinedHasCause
<1>1. Inv => UndefinedHasCause
  BY DEF Inv
<1> QED
  BY <1>1, LifecycleInvariance, PTL
-----------------------------------------------------------------------------
(* Served clients                                                          *)

(* Main drops no node of a serving thread: when it gets to advance, every  *)
(* thread in the list has ended or came late.                              *)
LEMMA MainKeepsServed ==
  ASSUME Inv, ServingKeepsNode, ~ undefined, ~ undefined', MainNext
  PROVE  ServingKeepsNode'
<1>1. TypeOK /\ Core
  BY DEF Inv
<1>2. CASE TestTerminate \/ CallAccept \/ \E c \in Clients : Accept(c)
  <2>1. Harmless
    BY <1>1, <1>2, MainStaysHarmless
  <2> QED
    BY <2>1 DEF Harmless, listVars, ServingKeepsNode, Nodes, Live
<1>3. CASE JoinStart \/ JoinThread \/ JoinNext \/ FreeRead \/ FreeNode
  <2>1. UNCHANGED <<client_list, thr, late>>
    BY <1>3 DEF JoinStart, JoinThread, JoinNext, FreeRead, FreeNode, UndefinedNow, listVars
  <2> QED
    BY <2>1 DEF ServingKeepsNode, Nodes
<1>4. CASE FreeAdvance
  <2>1. mainPc = "advance" /\ UNCHANGED <<thr, late>>
    BY <1>4 DEF FreeAdvance
  <2>2. \A n \in Nodes : thr[n] = "exited" \/ n \in late
    BY <1>1, <2>1 DEF Core, JoinedOK, BehindMain, Freeing
  <2> QED
    BY <2>1, <2>2 DEF ServingKeepsNode
<1> QED
  BY <1>2, <1>3, <1>4 DEF MainNext

(* A thread serves only after it has added its node, and takes it off the  *)
(* list as it ends.                                                        *)
LEMMA ThreadKeepsServed ==
  ASSUME Inv, ServingKeepsNode, ~ undefined, ~ undefined', NEW c \in Clients, ThreadNext(c)
  PROVE  ServingKeepsNode'
<1>1. TypeOK /\ Core
  BY DEF Inv
<1>2. /\ client_list \in Seq(Clients) /\ IsInjective(client_list)
      /\ DOMAIN client_list = 1..Len(client_list)
  BY <1>1, NodesAreClients DEF Core, ListOK
<1>3. CASE Register(c)
  <2>1. /\ thr[c] = "start" /\ ToThread(c, "greet")
        /\ client_list' = Append(client_list, c) /\ late \subseteq late'
    BY <1>3 DEF Register
  <2>2. c \notin Nodes
    BY <1>1, <2>1 DEF Core, ListOK, Unlisted
  <2>3. Nodes' = Nodes \cup {c}
    BY <1>2, <2>1, <2>2, AppendKeepsOrder DEF Nodes
  <2>4. \A d \in Clients : d # c => thr'[d] = thr[d]
    BY <1>1, <2>1 DEF ToThread, TypeOK
  <2> QED
    BY <2>1, <2>3, <2>4 DEF ServingKeepsNode
<1>4. CASE RemoveNode(c)
  <2>1. ToThread(c, "exited") /\ UNCHANGED late
    BY <1>4 DEF RemoveNode
  <2>2. \A d \in Clients : thr'[d] = IF d = c THEN "exited" ELSE thr[d]
    BY <1>1, <2>1 DEF ToThread, TypeOK
  <2>3. Nodes \ {c} \subseteq Nodes'
    <3>1. CASE UNCHANGED client_list
      BY <3>1 DEF Nodes
    <3>2. CASE c \in Nodes /\ client_list' = RemoveAt(client_list, Position(c))
      BY <1>2, <3>2, PositionIsThere, RemoveKeepsOrder DEF Nodes
    <3> QED
      BY <1>4, <3>1, <3>2 DEF RemoveNode, listVars
  <2> QED
    BY <2>1, <2>2, <2>3 DEF ServingKeepsNode
<1>5. CASE RegisterFails(c) \/ GreetEnds(c) \/ Loop(c) \/ PollTimeout(c) \/ Handle(c)
           \/ ClientClosed(c)
  <2>1. Harmless
    BY <1>1, <1>5, ThreadStaysHarmless
  <2> QED
    BY <2>1 DEF Harmless, listVars, ServingKeepsNode, Nodes, Live
<1> QED
  BY <1>3, <1>4, <1>5 DEF ThreadNext

(* The node of a client that is being served stays in the list until its   *)
(* thread takes it away, through joining and freeing, but for a thread     *)
(* that added it behind main (server_queue.c:312-335).                     *)
THEOREM ServedKeepTheirNodes == Spec => []ServingKeepsNode
<1>1. Init => ServingKeepsNode
  BY DEF Init, ServingKeepsNode
<1>2. Inv /\ ServingKeepsNode /\ [Next]_vars => ServingKeepsNode'
  <2> SUFFICES ASSUME Inv, ServingKeepsNode, [Next]_vars, ~ undefined'
               PROVE  ServingKeepsNode'
    BY DEF ServingKeepsNode
  <2>1. CASE UNCHANGED vars
    BY <2>1 DEF vars, listVars, ServingKeepsNode, Nodes
  <2>2. CASE Next
    <3>1. ~ undefined /\ TypeOK
      BY <2>2 DEF Next, MainNext, ThreadNext, ClientStep, Sigint, Running, Inv
    <3>2. CASE (\E c \in Clients : ClientStep(c)) \/ (\E t \in Interrupted : Sigint(t))
      <4>1. Harmless
        BY <3>1, <3>2, OthersAreHarmless
      <4> QED
        BY <3>1, <4>1 DEF Harmless, listVars, ServingKeepsNode, Nodes, Live
    <3> QED
      BY <2>2, <3>1, <3>2, MainKeepsServed, ThreadKeepsServed DEF Next
  <2> QED
    BY <2>1, <2>2
<1> QED
  BY <1>1, <1>2, LifecycleInvariance, PTL DEF Spec
=============================================================================
