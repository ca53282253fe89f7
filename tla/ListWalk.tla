------------------------------ MODULE ListWalk ------------------------------
(***************************************************************************)
(* send_client_list_handler and get_client_list: a thread follows the list *)
(* without client_data_mutex and copies the names into a buffer of fixed   *)
(* length, while other threads add, remove and rename nodes.               *)
(*                                                                         *)
(* Of a name only its length matters.  A name that is being changed is     *)
(* read with any length between the old one and the new one.  To read a    *)
(* node that was removed is undefined: the model stops there.              *)
(***************************************************************************)
EXTENDS Integers, Sequences, FiniteSets, SequencesExt

CONSTANTS
  Nodes,
  Null,        \* a null pointer
  NameLens,    \* the lengths of names
  list_capacity \* MAX_MSG_LEN, the size of the buffer
ASSUME ListWalkAssumption ==
  /\ Null \notin Nodes
  /\ NameLens \subseteq Nat \ {0}
  /\ list_capacity \in Nat \ {0}

VARIABLES
  client_list, \* the nodes in order
  len, target, \* a name's length; another one while strncpy is at work
  pc,          \* the walker: idle, measure, copy, advance, done
  temp_node, list_len,
  shown,       \* the nodes whose names are in the buffer
  stale,       \* temp_node has been removed since it was reached
  undefined,   \* and was read
  stopped,     \* the walk ended because the buffer was too small
  stayed       \* history: listed since the walk began

nodeVars == <<client_list, len, target>>
walkVars == <<pc, temp_node, list_len, shown, undefined, stopped>>
vars == <<nodeVars, walkVars, stale, stayed>>

Listed == Range(client_list)
NoLength == 0 \* of a node that is not there

TypeOK ==
  /\ client_list \in Seq(Nodes)
  /\ len \in [Nodes -> NameLens \cup {NoLength}]
  /\ target \in [Nodes -> NameLens \cup {NoLength}]
  /\ \A n \in Nodes : n \in Listed <=> len[n] # NoLength
  /\ \A n \in Nodes : n \in Listed <=> target[n] # NoLength
  /\ pc \in {"idle", "measure", "copy", "advance", "done"}
  /\ temp_node \in Nodes \cup {Null}
  /\ list_len \in Nat
  /\ shown \in Seq(Nodes)
  /\ stale \in BOOLEAN /\ undefined \in BOOLEAN /\ stopped \in BOOLEAN
  /\ stayed \subseteq Nodes

Init ==
  /\ client_list = <<>>
  /\ len = [n \in Nodes |-> NoLength] /\ target = len
  /\ pc = "idle"
  /\ temp_node = Null /\ list_len = 0
  /\ shown = <<>>
  /\ stale = FALSE /\ undefined = FALSE /\ stopped = FALSE
  /\ stayed = {}
-----------------------------------------------------------------------------
(* The other threads, under the mutex.                                     *)

add_client_node_to_queue(n) ==
  /\ n \notin Listed
  /\ client_list' = Append(client_list, n)
  /\ \E l \in NameLens : len' = [len EXCEPT ![n] = l] /\ target' = [target EXCEPT ![n] = l]
  /\ UNCHANGED <<walkVars, stale, stayed>>

remove_client_node_from_queue_by_fd(n) ==
  /\ target[n] = len[n]
  /\ \E i \in DOMAIN client_list :
       client_list[i] = n /\ client_list' = RemoveAt(client_list, i)
  /\ stale' = (stale \/ n = temp_node)
  /\ stayed' = stayed \ {n}
  /\ len' = [len EXCEPT ![n] = NoLength]
  /\ target' = [target EXCEPT ![n] = NoLength]
  /\ UNCHANGED walkVars

(* For the mutants: strncpy is not limited to what the node can hold.      *)
RenameUncut(n) ==
  /\ n \in Listed /\ target[n] = len[n]
  /\ \E l \in NameLens : target' = [target EXCEPT ![n] = l + 1]
  /\ UNCHANGED <<client_list, len, walkVars, stale, stayed>>

(* set_name_of_client_by_client_fd: strncpy starts, and is done.           *)
RenameBegins(n) ==
  /\ n \in Listed /\ target[n] = len[n]
  /\ \E l \in NameLens : target' = [target EXCEPT ![n] = l]
  /\ UNCHANGED <<client_list, len, walkVars, stale, stayed>>

RenameEnds(n) ==
  /\ target[n] # len[n]
  /\ len' = [len EXCEPT ![n] = target[n]]
  /\ UNCHANGED <<client_list, target, walkVars, stale, stayed>>

(* What strlen or strncat can find.                                        *)
LengthsOf(n) ==
  IF len[n] <= target[n] THEN len[n]..target[n] ELSE target[n]..len[n]
-----------------------------------------------------------------------------
(* get_client_list                                                         *)

(* A request for the list, and the first lines.                            *)
Start ==
  /\ pc = "idle"
  /\ temp_node' = IF client_list = <<>> THEN Null ELSE Head(client_list)
  /\ pc' = IF client_list = <<>> THEN "done" ELSE "measure"
  /\ stayed' = Listed
  /\ UNCHANGED <<nodeVars, list_len, shown, stale, undefined, stopped>>

(* The reply is sent, and the buffer is gone.                              *)
Reply ==
  /\ pc = "done"
  /\ pc' = "idle"
  /\ temp_node' = Null /\ list_len' = 0 /\ shown' = <<>>
  /\ stale' = FALSE /\ stopped' = FALSE
  /\ stayed' = {}
  /\ UNCHANGED <<nodeVars, undefined>>

(* A read of temp_node when it is gone.                                    *)
Stray ==
  /\ undefined' = TRUE /\ pc' = "done"
  /\ UNCHANGED <<nodeVars, temp_node, list_len, shown, stopped, stale, stayed>>

(* For the mutants: a name that does not fit is passed over.               *)
MeasureSkips ==
  /\ pc = "measure"
  /\ IF stale THEN Stray
     ELSE /\ \E l \in LengthsOf(temp_node) : stopped' = (list_len + l + 1 >= list_capacity)
          /\ pc' = IF stopped' THEN "advance" ELSE "copy"
          /\ UNCHANGED <<nodeVars, temp_node, list_len, shown, undefined, stale, stayed>>

Measure ==
  /\ pc = "measure"
  /\ IF stale THEN Stray
     ELSE /\ \E l \in LengthsOf(temp_node) : stopped' = (list_len + l + 1 >= list_capacity)
          /\ pc' = IF stopped' THEN "done" ELSE "copy"
          /\ UNCHANGED <<nodeVars, temp_node, list_len, shown, undefined, stale, stayed>>

(* For the mutants: the bound is the room that was measured, and strcat.   *)
AppendMeasured(l) == list_len + l

(* strncat takes no more than list_capacity - list_len - 1 characters.     *)
Appended(l) ==
  IF l <= list_capacity - list_len - 1 THEN list_len + l ELSE list_capacity - 1

(* The name, which need not be the one measured, and a space if it fits.   *)
Copy ==
  /\ pc = "copy"
  /\ IF stale THEN Stray
     ELSE /\ \E l \in LengthsOf(temp_node) :
               list_len' = IF Appended(l) + 1 < list_capacity THEN Appended(l) + 1 ELSE Appended(l)
          /\ shown' = Append(shown, temp_node)
          /\ pc' = "advance"
          /\ UNCHANGED <<nodeVars, temp_node, undefined, stopped, stale, stayed>>

(* For the mutants: the walk also steps over the next node.                *)
NodeAfterNext(n) ==
  LET i == CHOOSE j \in DOMAIN client_list : client_list[j] = n
  IN  IF i + 2 <= Len(client_list) THEN client_list[i + 2] ELSE Null

NodeAfter(n) ==
  LET i == CHOOSE j \in DOMAIN client_list : client_list[j] = n
  IN  IF i < Len(client_list) THEN client_list[i + 1] ELSE Null

Advance ==
  /\ pc = "advance"
  /\ IF stale THEN Stray
     ELSE /\ temp_node' = NodeAfter(temp_node)
          /\ pc' = IF temp_node' = Null THEN "done" ELSE "measure"
          /\ UNCHANGED <<nodeVars, list_len, shown, undefined, stopped, stale, stayed>>

WalkStep == ~ undefined /\ (Measure \/ Copy \/ Advance \/ Reply)

Next ==
  \/ ~ undefined /\ Start
  \/ WalkStep
  \/ /\ ~ undefined
     /\ \E n \in Nodes :
          \/ add_client_node_to_queue(n) \/ remove_client_node_from_queue_by_fd(n)
          \/ RenameBegins(n) \/ RenameEnds(n)

Spec == Init /\ [][Next]_vars

(* The walking thread runs; the others may change the list forever.        *)
FairSpec == Spec /\ WF_vars(WalkStep)
-----------------------------------------------------------------------------
(* The string and its end stay inside the buffer, although a name can grow *)
(* between the strlen of line 262 and the strncat of line 273.             *)
BufferHoldsList == list_len < list_capacity

(* m comes before n in the list.                                           *)
Before(m, n) ==
  \E i, j \in DOMAIN client_list : i < j /\ client_list[i] = m /\ client_list[j] = n

(* A walk that was not cut short shows every client that was there all the *)
(* time, and those in list order, hence each once, whoever came and went   *)
(* meanwhile.                                                              *)
ShownInOrder ==
  \A i, j \in DOMAIN shown :
    i < j /\ {shown[i], shown[j]} \subseteq stayed => Before(shown[i], shown[j])
WalkCoversStayers ==
  pc = "done" /\ ~ undefined /\ ~ stopped => stayed \subseteq Range(shown) /\ ShownInOrder

(* Every walk ends, though clients may be added behind it forever: the     *)
(* buffer runs out.                                                        *)
WalkEnds == pc = "measure" ~> pc = "done"

(* "To get list off all connected client to the server (including you)"    *)
(* (user_iterectaions.c:42): the reply shows whoever was there all along.  *)
ListShowsAll == pc = "done" /\ ~ undefined => stayed \subseteq Range(shown)
=============================================================================
