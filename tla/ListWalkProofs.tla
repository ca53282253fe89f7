--------------------------- MODULE ListWalkProofs ---------------------------
(***************************************************************************)
(* Theorems about ListWalk, for any number of nodes, any lengths of names  *)
(* and any buffer.                                                         *)
(***************************************************************************)
EXTENDS ListWalk, SequenceLemmas

Walking == pc \in {"measure", "copy", "advance"}

(* The list holds no node twice, and who stayed is listed.                 *)
ListInv == IsInjective(client_list) /\ stayed \subseteq Listed

(* The walker is at a node, which is listed unless it is stale; between    *)
(* two walks it is nowhere.                                                *)
WalkerInv ==
  /\ Walking => temp_node \in Nodes /\ (~ stale => temp_node \in Listed)
  /\ pc = "idle" => temp_node = Null /\ shown = <<>> /\ ~ stale

(* Of those who stayed, the walk has shown the ones before temp_node, and  *)
(* temp_node itself once it was copied; at the end it has shown them all.  *)
Passed(n) == Before(n, temp_node) \/ (pc = "advance" /\ n = temp_node)
CoverInv ==
  /\ Walking /\ ~ stale => \A n \in stayed : n \in Range(shown) <=> Passed(n)
  /\ pc = "done" /\ ~ undefined /\ ~ stopped => stayed \subseteq Range(shown)

WalkInv == TypeOK /\ BufferHoldsList /\ ListInv /\ WalkerInv /\ CoverInv /\ ShownInOrder
-----------------------------------------------------------------------------
(* The order of the list                                                   *)

(* Before is the order of SequenceLemmas, on client_list.                  *)
LEMMA BeforeIsPrecedes == \A m, n : Before(m, n) <=> Precedes(client_list, m, n)
BY DEF Before, Precedes

(* A new node comes behind all others.                                     *)
LEMMA AddedIsLast ==
  ASSUME TypeOK, ListInv, NEW n \in Nodes, add_client_node_to_queue(n)
  PROVE  /\ client_list' \in Seq(Nodes) /\ IsInjective(client_list')
         /\ Listed' = Listed \cup {n} /\ n \notin Listed
         /\ \A m, k \in Listed : Before(m, k)' <=> Before(m, k)
<1>1. /\ client_list \in Seq(Nodes) /\ IsInjective(client_list) /\ n \notin Range(client_list)
      /\ client_list' = Append(client_list, n)
  BY DEF TypeOK, ListInv, add_client_node_to_queue, Listed
<1>2. \A m, k \in Range(client_list) :
        Precedes(client_list', m, k) <=> Precedes(client_list, m, k)
  BY <1>1, AppendKeepsOrder
<1>3. /\ client_list' \in Seq(Nodes) /\ IsInjective(client_list')
      /\ Range(client_list') = Range(client_list) \cup {n}
  BY <1>1, AppendKeepsOrder
<1>4. \A m, k : Before(m, k)' <=> Precedes(client_list', m, k)
  BY DEF Before, Precedes
<1> QED
  BY <1>1, <1>2, <1>3, <1>4, BeforeIsPrecedes DEF Listed

(* A removed node is gone, and the others keep their order.                *)
LEMMA RemovedIsGone ==
  ASSUME TypeOK, ListInv, NEW n \in Nodes, remove_client_node_from_queue_by_fd(n)
  PROVE  /\ client_list' \in Seq(Nodes) /\ IsInjective(client_list')
         /\ Listed' = Listed \ {n} /\ n \in Listed
         /\ \A m, k \in Listed' : Before(m, k)' <=> Before(m, k)
<1>1. client_list \in Seq(Nodes) /\ IsInjective(client_list)
  BY DEF TypeOK, ListInv
<1>2. PICK i \in DOMAIN client_list :
        client_list[i] = n /\ client_list' = RemoveAt(client_list, i)
  BY DEF remove_client_node_from_queue_by_fd
<1>3. i \in 1..Len(client_list)
  BY <1>1, <1>2, LenProperties
<1>4. /\ client_list' \in Seq(Nodes) /\ IsInjective(client_list')
      /\ Range(client_list') = Range(client_list) \ {n}
  BY <1>1, <1>2, <1>3, RemoveKeepsOrder
<1>5. \A m, k \in Range(client_list) \ {n} :
        Precedes(client_list', m, k) <=> Precedes(client_list, m, k)
  BY <1>1, <1>2, <1>3, RemoveKeepsOrder
<1>6. \A m, k : Before(m, k)' <=> Precedes(client_list', m, k)
  BY DEF Before, Precedes
<1>7. n \in Range(client_list)
  BY <1>2 DEF Range
<1> QED
  BY <1>4, <1>5, <1>6, <1>7, BeforeIsPrecedes DEF Listed

(* The node the walk goes to next: before it are the node it comes from    *)
(* and the ones before that; where the walk ends, all are.                 *)
LEMMA NodeAfterFollows ==
  ASSUME TypeOK, ListInv, NEW n \in Listed
  PROVE  /\ NodeAfter(n) = Null => \A m \in Listed : m = n \/ Before(m, n)
         /\ NodeAfter(n) # Null =>
              /\ NodeAfter(n) \in Listed
              /\ \A m : Before(m, NodeAfter(n)) <=> m = n \/ Before(m, n)
         /\ NodeAfter(n) \in Nodes \cup {Null}
<1> DEFINE i == CHOOSE j \in DOMAIN client_list : client_list[j] = n
<1>1. client_list \in Seq(Nodes) /\ IsInjective(client_list)
  BY DEF TypeOK, ListInv
<1>2. i \in DOMAIN client_list /\ client_list[i] = n
  BY DEF Listed, Range
<1>3. NodeAfter(n) = IF i < Len(client_list) THEN client_list[i + 1] ELSE Null
  BY DEF NodeAfter
<1> HIDE DEF i
<1>4. i \in 1..Len(client_list) /\ Len(client_list) \in Nat
  BY <1>1, <1>2, LenProperties
<1>5. CASE i < Len(client_list)
  <2>1. /\ client_list[i + 1] \in Range(client_list)
        /\ \A m : Precedes(client_list, m, client_list[i + 1]) <=>
                    m = client_list[i] \/ Precedes(client_list, m, client_list[i])
        /\ i + 1 \in 1..Len(client_list)
    BY <1>1, <1>4, <1>5, Successor
  <2>2. client_list[i + 1] \in Nodes /\ client_list[i + 1] # Null
    BY <1>1, <2>1, ElementOfSeq, ListWalkAssumption
  <2> QED
    BY <1>2, <1>3, <1>5, <2>1, <2>2, BeforeIsPrecedes DEF Listed
<1>6. CASE ~ (i < Len(client_list))
  BY <1>1, <1>2, <1>3, <1>4, <1>6, Successor, BeforeIsPrecedes DEF Listed
<1> QED
  BY <1>5, <1>6

(* Listed nodes are nodes, and the lengths of their names are numbers.     *)
LEMMA ListedTyped ==
  ASSUME TypeOK
  PROVE  /\ Listed \subseteq Nodes /\ Null \notin Listed
         /\ \A n \in Listed : LengthsOf(n) \subseteq Nat \ {0}
<1>1. Listed \subseteq Nodes /\ Null \notin Listed
  BY LenProperties, ElementOfSeq, ListWalkAssumption DEF TypeOK, Listed, Range
<1>2. ASSUME NEW n \in Listed PROVE LengthsOf(n) \subseteq Nat \ {0}
  <2>1. len[n] \in Nat \ {0} /\ target[n] \in Nat \ {0}
    BY <1>1, ListWalkAssumption DEF TypeOK, NoLength
  <2> QED
    BY <2>1 DEF LengthsOf
<1> QED
  BY <1>1, <1>2
-----------------------------------------------------------------------------
(* The steps                                                               *)

(* A rename touches lengths only.                                          *)
LEMMA RenameKeepsWalk ==
  ASSUME WalkInv, NEW n \in Nodes, RenameBegins(n) \/ RenameEnds(n)
  PROVE  WalkInv'
<1>1. UNCHANGED <<client_list, walkVars, stale, stayed>>
  BY DEF RenameBegins, RenameEnds
<1>2. TypeOK'
  <2>1. CASE RenameBegins(n)
    BY <1>1, <2>1, ListWalkAssumption
    DEF WalkInv, RenameBegins, TypeOK, Listed, walkVars, NoLength
  <2>2. CASE RenameEnds(n)
    BY <1>1, <2>2 DEF WalkInv, RenameEnds, TypeOK, Listed, walkVars
  <2> QED
    BY <2>1, <2>2
<1> QED
  BY <1>1, <1>2
  DEF WalkInv, walkVars, BufferHoldsList, ListInv, WalkerInv, CoverInv, ShownInOrder, Walking,
      Passed, Before, Listed

(* A node that is added did not stay and is not before the walker.         *)
LEMMA AddKeepsWalk ==
  ASSUME WalkInv, NEW n \in Nodes, add_client_node_to_queue(n)
  PROVE  WalkInv'
<1>1. /\ TypeOK /\ ListInv /\ stayed \subseteq Listed
      /\ UNCHANGED <<pc, temp_node, list_len, shown, undefined, stopped, stale, stayed>>
  BY DEF WalkInv, ListInv, add_client_node_to_queue, walkVars
<1>2. /\ client_list' \in Seq(Nodes) /\ IsInjective(client_list')
      /\ Listed' = Listed \cup {n} /\ n \notin Listed
      /\ \A m, k \in Listed : Before(m, k)' <=> Before(m, k)
  BY <1>1, AddedIsLast
<1>3. TypeOK'
  BY <1>1, <1>2, ListWalkAssumption DEF add_client_node_to_queue, TypeOK, NoLength
<1>4. CoverInv' /\ ShownInOrder'
  <2>1. \A m \in stayed : m \in Listed
    BY <1>1
  <2>2. Walking /\ ~ stale => temp_node \in Listed
    BY DEF WalkInv, WalkerInv
  <2> QED
    BY <1>1, <1>2, <2>1, <2>2 DEF WalkInv, CoverInv, ShownInOrder, Walking, Passed
<1> QED
  BY <1>1, <1>2, <1>3, <1>4 DEF WalkInv, BufferHoldsList, ListInv, WalkerInv, Walking

(* A node that is removed did not stay; if the walker is there it is stale *)
(* now.                                                                    *)
LEMMA RemoveKeepsWalk ==
  ASSUME WalkInv, NEW n \in Nodes, remove_client_node_from_queue_by_fd(n)
  PROVE  WalkInv'
<1>1. /\ TypeOK /\ ListInv /\ stayed \subseteq Listed
      /\ UNCHANGED <<pc, temp_node, list_len, shown, undefined, stopped>>
      /\ stale' = (stale \/ n = temp_node) /\ stayed' = stayed \ {n}
  BY DEF WalkInv, ListInv, remove_client_node_from_queue_by_fd, walkVars
<1>2. /\ client_list' \in Seq(Nodes) /\ IsInjective(client_list')
      /\ Listed' = Listed \ {n} /\ n \in Listed
      /\ \A m, k \in Listed' : Before(m, k)' <=> Before(m, k)
  BY <1>1, RemovedIsGone
<1>3. TypeOK'
  BY <1>1, <1>2, ListWalkAssumption
  DEF remove_client_node_from_queue_by_fd, TypeOK, NoLength
<1>4. stayed' \subseteq Listed'
  BY <1>1, <1>2
<1>5. WalkerInv'
  BY <1>1, <1>2, ListedTyped DEF WalkInv, WalkerInv, Walking
<1>6. CoverInv'
  <2>1. Walking /\ ~ stale' => temp_node \in Listed'
    BY <1>1, <1>2 DEF WalkInv, WalkerInv
  <2> QED
    BY <1>1, <1>2, <1>4, <2>1 DEF WalkInv, CoverInv, Walking, Passed
<1>7. ShownInOrder'
  BY <1>1, <1>2, <1>4 DEF WalkInv, ShownInOrder
<1> QED
  BY <1>1, <1>2, <1>3, <1>4, <1>5, <1>6, <1>7 DEF WalkInv, BufferHoldsList, ListInv

(* A walk starts before the first node and has passed nobody.              *)
LEMMA StartKeepsWalk ==
  ASSUME WalkInv, Start
  PROVE  WalkInv'
<1>1. /\ pc = "idle" /\ shown = <<>> /\ ~ stale /\ stayed' = Listed
      /\ UNCHANGED <<client_list, len, target, list_len, shown, stale, undefined, stopped>>
      /\ client_list \in Seq(Nodes) /\ IsInjective(client_list)
  BY DEF WalkInv, WalkerInv, TypeOK, ListInv, Start, nodeVars
<1>2. Range(shown) = {} /\ DOMAIN shown = {}
  BY <1>1 DEF Range
<1>3. Listed' = Listed /\ Listed \subseteq Nodes
  BY <1>1, ListedTyped DEF WalkInv, Listed
<1>4. ShownInOrder'
  BY <1>1, <1>2 DEF ShownInOrder
<1>5. CASE client_list = <<>>
  <2>1. Listed = {} /\ temp_node' = Null /\ pc' = "done"
    BY <1>5 DEF Start, Listed, Range
  <2>2. TypeOK'
    BY <1>1, <1>3, <2>1 DEF WalkInv, TypeOK
  <2> QED
    BY <1>1, <1>3, <1>4, <2>1, <2>2
    DEF WalkInv, BufferHoldsList, ListInv, WalkerInv, CoverInv, Walking
<1>6. CASE client_list # <<>>
  <2>1. /\ temp_node' = Head(client_list) /\ pc' = "measure"
        /\ temp_node' \in Listed /\ \A m : ~ Precedes(client_list, m, temp_node')
    BY <1>1, <1>6, FirstMember DEF Start, Listed
  <2>2. TypeOK'
    BY <1>1, <1>3, <2>1 DEF WalkInv, TypeOK
  <2>3. \A m : ~ Passed(m)'
    BY <1>1, <2>1 DEF Passed, Before, Precedes
  <2> QED
    BY <1>1, <1>2, <1>3, <1>4, <2>1, <2>2, <2>3
    DEF WalkInv, BufferHoldsList, ListInv, WalkerInv, CoverInv, Walking
<1> QED
  BY <1>5, <1>6

(* The end of a walk, however it comes about.                              *)
LEMMA StrayAndReplyKeepWalk ==
  ASSUME WalkInv, Stray \/ Reply
  PROVE  WalkInv'
<1>1. UNCHANGED <<client_list, len, target>> /\ Listed' = Listed
  BY DEF Stray, Reply, nodeVars, Listed
<1>2. CASE Stray
  BY <1>1, <1>2
  DEF WalkInv, Stray, TypeOK, BufferHoldsList, ListInv, WalkerInv, CoverInv, ShownInOrder, Walking,
      Before
<1>3. CASE Reply
  <2>1. <<>> \in Seq(Nodes) /\ DOMAIN <<>> = {}
    OBVIOUS
  <2>2. TypeOK'
    BY <1>1, <1>3, <2>1 DEF WalkInv, Reply, TypeOK
  <2>3. ShownInOrder' /\ CoverInv' /\ WalkerInv'
    BY <1>3, <2>1 DEF Reply, ShownInOrder, CoverInv, WalkerInv, Walking
  <2> QED
    BY <1>1, <1>3, <2>2, <2>3, ListWalkAssumption DEF WalkInv, Reply, BufferHoldsList, ListInv
<1> QED
  BY <1>2, <1>3

(* A name is measured: the walk goes on at the same node, or is stopped.   *)
LEMMA MeasureKeepsWalk ==
  ASSUME WalkInv, Measure, ~ stale
  PROVE  WalkInv'
<1>1. /\ pc = "measure" /\ stopped' \in BOOLEAN
      /\ pc' = IF stopped' THEN "done" ELSE "copy"
      /\ UNCHANGED <<client_list, len, target, temp_node, list_len, shown, undefined, stale, stayed>>
  <2>1. PICK l : stopped' = (list_len + l + 1 >= list_capacity)
    BY Zenon DEF Measure
  <2>2. stopped' = TRUE \/ stopped' = FALSE
    BY <2>1
  <2> QED
    BY <2>2 DEF Measure, nodeVars
<1>2. Listed' = Listed /\ \A m, k : Before(m, k)' <=> Before(m, k)
  BY <1>1 DEF Listed, Before
<1>3. TypeOK'
  BY <1>1, <1>2 DEF WalkInv, TypeOK
<1> QED
  BY <1>1, <1>2, <1>3
  DEF WalkInv, BufferHoldsList, ListInv, WalkerInv, CoverInv, ShownInOrder, Walking, Passed

(* What strncat is given to append leaves room for the end of the string.  *)
LEMMA AppendedFits ==
  ASSUME NEW k \in Nat, k < list_capacity, list_len = k, NEW l \in Nat
  PROVE  Appended(l) \in Nat /\ Appended(l) < list_capacity
<1>1. list_capacity \in Nat \ {0} /\ list_len \in Nat /\ list_len < list_capacity
  BY ListWalkAssumption
<1> QED
  BY <1>1 DEF Appended

(* A name is copied: the node is shown behind those before it.             *)
LEMMA CopyKeepsWalk ==
  ASSUME WalkInv, Copy, ~ stale
  PROVE  WalkInv'
<1>1. /\ pc = "copy" /\ pc' = "advance" /\ shown' = Append(shown, temp_node)
      /\ UNCHANGED <<client_list, len, target, temp_node, undefined, stopped, stale, stayed>>
  BY DEF Copy, nodeVars
<1>2. Listed' = Listed /\ \A m, k : Before(m, k)' <=> Before(m, k)
  BY <1>1 DEF Listed, Before
<1>3. temp_node \in Listed /\ temp_node \in Nodes /\ shown \in Seq(Nodes)
  BY <1>1 DEF WalkInv, WalkerInv, Walking, TypeOK
<1>4. list_len' \in Nat /\ list_len' < list_capacity
  <2>1. PICK l \in LengthsOf(temp_node) :
          list_len' = IF Appended(l) + 1 < list_capacity THEN Appended(l) + 1 ELSE Appended(l)
    BY DEF Copy
  <2>2. l \in Nat
    BY <1>3, <2>1, ListedTyped DEF WalkInv
  <2>3. Appended(l) \in Nat /\ Appended(l) < list_capacity
    BY <2>2, AppendedFits DEF WalkInv, TypeOK, BufferHoldsList
  <2> QED
    BY <2>1, <2>3
<1> DEFINE L == Len(shown)
<1>5. /\ L \in Nat /\ DOMAIN shown = 1..L /\ shown' \in Seq(Nodes) /\ DOMAIN shown' = 1..(L + 1)
      /\ (\A i \in 1..L : shown'[i] = shown[i]) /\ shown'[L + 1] = temp_node
  BY <1>1, <1>3, AppendProperties, LenProperties
<1> HIDE DEF L
<1>6. \A i \in 1..(L + 1) : i \in 1..L \/ i = L + 1
  BY <1>5
<1>7. Range(shown') = Range(shown) \cup {temp_node}
  <2>1. 1..L \subseteq 1..(L + 1) /\ L + 1 \in 1..(L + 1)
    BY <1>5
  <2> QED
    BY <1>5, <1>6, <2>1 DEF Range
<1>8. TypeOK'
  BY <1>1, <1>2, <1>4, <1>5 DEF WalkInv, TypeOK
<1>9. \A n \in stayed : n \in Range(shown) <=> Before(n, temp_node)
  BY <1>1 DEF WalkInv, CoverInv, Walking, Passed
<1>10. CoverInv'
  BY <1>1, <1>2, <1>7, <1>9 DEF CoverInv, Walking, Passed
<1>11. ShownInOrder'
  <2> SUFFICES ASSUME NEW i \in 1..(L + 1), NEW j \in 1..(L + 1), i < j,
                      shown'[i] \in stayed, shown'[j] \in stayed
               PROVE  Before(shown'[i], shown'[j])
    BY <1>1, <1>2, <1>5 DEF ShownInOrder
  <2>1. i \in 1..L /\ shown'[i] = shown[i]
    BY <1>5
  <2>2. CASE j \in 1..L
    BY <1>5, <2>1, <2>2 DEF WalkInv, ShownInOrder
  <2>3. CASE j = L + 1
    <3>1. shown[i] \in Range(shown)
      BY <1>5, <2>1 DEF Range
    <3> QED
      BY <1>5, <1>9, <2>1, <2>3, <3>1
  <2> QED
    BY <1>6, <2>2, <2>3
<1> QED
  BY <1>1, <1>2, <1>3, <1>4, <1>8, <1>10, <1>11
  DEF WalkInv, BufferHoldsList, ListInv, WalkerInv, Walking

(* The walk goes on to the next node, or has passed everybody.             *)
LEMMA AdvanceKeepsWalk ==
  ASSUME WalkInv, Advance, ~ stale
  PROVE  WalkInv'
<1>1. /\ pc = "advance" /\ temp_node' = NodeAfter(temp_node)
      /\ pc' = IF temp_node' = Null THEN "done" ELSE "measure"
      /\ UNCHANGED <<client_list, len, target, list_len, shown, undefined, stopped, stale, stayed>>
  BY DEF Advance, nodeVars
<1>2. Listed' = Listed
  BY <1>1 DEF Listed
<1>3. temp_node \in Listed
  BY <1>1 DEF WalkInv, WalkerInv, Walking
<1>4. /\ NodeAfter(temp_node) = Null => \A m \in Listed : m = temp_node \/ Before(m, temp_node)
      /\ NodeAfter(temp_node) # Null =>
           /\ NodeAfter(temp_node) \in Listed
           /\ \A m : Before(m, NodeAfter(temp_node)) <=> m = temp_node \/ Before(m, temp_node)
      /\ NodeAfter(temp_node) \in Nodes \cup {Null}
  BY <1>3, NodeAfterFollows DEF WalkInv
<1>5. \A n \in stayed : n \in Range(shown) <=> n = temp_node \/ Before(n, temp_node)
  BY <1>1 DEF WalkInv, CoverInv, Walking, Passed
<1>6. TypeOK'
  BY <1>1, <1>2, <1>4 DEF WalkInv, TypeOK
<1>7. CoverInv'
  <2>1. CASE temp_node' = Null
    BY <1>1, <1>4, <1>5, <2>1 DEF WalkInv, ListInv, CoverInv, Walking
  <2>2. CASE temp_node' # Null
    <3>1. \A m : Passed(m)' <=> Before(m, NodeAfter(temp_node))
      BY <1>1, <2>2 DEF Passed, Before
    <3> QED
      BY <1>1, <1>4, <1>5, <2>2, <3>1 DEF CoverInv, Walking
  <2> QED
    BY <2>1, <2>2
<1>8. ShownInOrder'
  BY <1>1 DEF WalkInv, ShownInOrder, Before
<1>9. WalkerInv'
  BY <1>1, <1>2, <1>4, ListedTyped DEF WalkInv, WalkerInv, Walking
<1> QED
  BY <1>1, <1>2, <1>6, <1>7, <1>8, <1>9 DEF WalkInv, BufferHoldsList, ListInv

(* The invariant holds before the first walk.                              *)
LEMMA InitWalkInv == Init => WalkInv
<1> SUFFICES ASSUME Init PROVE WalkInv
  OBVIOUS
<1>1. Listed = {} /\ <<>> \in Seq(Nodes) /\ DOMAIN <<>> = {}
  BY DEF Init, Listed, Range
<1>2. TypeOK
  BY <1>1 DEF Init, TypeOK
<1> QED
  BY <1>1, <1>2, ListWalkAssumption
  DEF Init, WalkInv, BufferHoldsList, ListInv, WalkerInv, CoverInv, ShownInOrder, Walking, IsInjective

(* Every step keeps it.                                                    *)
LEMMA NextWalkInv == WalkInv /\ [Next]_vars => WalkInv'
<1> SUFFICES ASSUME WalkInv, [Next]_vars PROVE WalkInv'
  OBVIOUS
<1>1. CASE Start
  BY <1>1, StartKeepsWalk
<1>2. CASE Measure
  BY <1>2, MeasureKeepsWalk, StrayAndReplyKeepWalk DEF Measure
<1>3. CASE Copy
  BY <1>3, CopyKeepsWalk, StrayAndReplyKeepWalk DEF Copy
<1>4. CASE Advance
  BY <1>4, AdvanceKeepsWalk, StrayAndReplyKeepWalk DEF Advance
<1>5. CASE Reply
  BY <1>5, StrayAndReplyKeepWalk
<1>6. ASSUME NEW n \in Nodes,
             \/ add_client_node_to_queue(n) \/ remove_client_node_from_queue_by_fd(n)
             \/ RenameBegins(n) \/ RenameEnds(n)
      PROVE  WalkInv'
  BY <1>6, AddKeepsWalk, RemoveKeepsWalk, RenameKeepsWalk
<1>7. CASE UNCHANGED vars
  BY <1>7
  DEF vars, nodeVars, walkVars, WalkInv, TypeOK, BufferHoldsList, ListInv, WalkerInv, CoverInv,
      ShownInOrder, Walking, Passed, Before, Listed
<1> QED
  BY <1>1, <1>2, <1>3, <1>4, <1>5, <1>6, <1>7 DEF Next, WalkStep

(* The inductive invariant holds in every reachable state.                 *)
THEOREM WalkInvariance == Spec => []WalkInv
BY InitWalkInv, NextWalkInv, PTL DEF Spec

(* The list, the names and the walker keep their types.                    *)
THEOREM TypesHold == Spec => []TypeOK
<1>1. WalkInv => TypeOK
  BY DEF WalkInv
<1> QED
  BY <1>1, WalkInvariance, PTL

(* The walk never writes past the buffer, however a name grows between the *)
(* strlen and the strncat (server_queue.c:255-284).                        *)
THEOREM BufferIsLargeEnough == Spec => []BufferHoldsList
<1>1. WalkInv => BufferHoldsList
  BY DEF WalkInv
<1> QED
  BY <1>1, WalkInvariance, PTL

(* A walk that was not cut short shows everybody who was listed from its   *)
(* start to its end, in list order, although it does not take the mutex.   *)
THEOREM StayersAreShown == Spec => []WalkCoversStayers
<1>1. WalkInv => WalkCoversStayers
  BY DEF WalkInv, CoverInv, WalkCoversStayers
<1> QED
  BY <1>1, WalkInvariance, PTL
=============================================================================
