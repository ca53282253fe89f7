----------------------------- MODULE Admission -----------------------------
(***************************************************************************)
(* What main and the client threads promise together about admission: at   *)
(* most MAX_CLIENT clients have a place, somebody is refused only while    *)
(* all places are taken (or when the system fails), a place is given back  *)
(* only by the client that had it, and a client whose greeting failed      *)
(* keeps its place.                                                        *)
(***************************************************************************)
EXTENDS Integers, FiniteSets

CONSTANTS
  Clients,
  MAX_CLIENT, \* the places
  MayFail     \* the system may fail to admit a client although there is a place

VARIABLE stage

Stages == {"outside", "waiting", "admitted", "served", "refused", "stranded", "departed"}

Placed == {c \in Clients : stage[c] \in {"admitted", "served", "stranded"}}
Full == Cardinality(Placed) = MAX_CLIENT

Moves(c, from, to) ==
  /\ stage[c] = from
  /\ stage' = [stage EXCEPT ![c] = to]

Init == stage = [c \in Clients |-> "outside"]

Come(c) == Moves(c, "outside", "waiting")
Admit(c) == ~ Full /\ Moves(c, "waiting", "admitted")
Refuse(c) == (Full \/ MayFail) /\ Moves(c, "waiting", "refused")
Serve(c) == Moves(c, "admitted", "served")
Strand(c) == Moves(c, "admitted", "stranded")
Leave(c) == Moves(c, "served", "departed")

Next ==
  \E c \in Clients :
    Come(c) \/ Admit(c) \/ Refuse(c) \/ Serve(c) \/ Strand(c) \/ Leave(c)

Spec == Init /\ [][Next]_stage
=============================================================================
