----------------------------- MODULE ChatLinks -----------------------------
(***************************************************************************)
(* What the chat broker promises, without descriptors, names, locks,       *)
(* threads or messages: clients have a status and a link, and a client is  *)
(* doing one thing at a time to somebody.  Two become busy together and    *)
(* linked to each other; a departure frees at most the client its link     *)
(* names; a third client is touched only by whoever asks it or holds it.   *)
(*                                                                         *)
(* What it does not promise is part of it too: the status of the one asked *)
(* may have changed meanwhile (Ask, Tie), a link to a client that left may *)
(* come to name a newcomer (Arrive), and a release is one-sided.           *)
(***************************************************************************)
CONSTANTS
  Clients,
  Nobody, \* no link
  Gone    \* a link to a client that has left

VARIABLES
  status, \* out, free, pending (somebody asked it) or busy
  link,   \* whom the client is linked to
  doing,  \* what its thread is in the middle of: idle, asking, accepting, parting
  held    \* to whom

linkVars == <<status, link, doing, held>>

(* Clients that are there from the start are free.                         *)
Init ==
  /\ status \in [Clients -> {"out", "free"}]
  /\ link = [c \in Clients |-> Nobody]
  /\ doing = [c \in Clients |-> "idle"]
  /\ held = [c \in Clients |-> Nobody]

Begins(c, d, what) ==
  /\ doing[c] = "idle"
  /\ doing' = [doing EXCEPT ![c] = what]
  /\ held' = [held EXCEPT ![c] = d]

Ends(c, what) ==
  /\ doing[c] = what
  /\ doing' = [doing EXCEPT ![c] = "idle"]
  /\ held' = [held EXCEPT ![c] = Nobody]

(* Both ends of c and the one it holds, who may be Gone, get a new value.  *)
Both(f, c, mine, theirs) ==
  [d \in Clients |-> IF d = c THEN mine ELSE IF d = held[c] THEN theirs ELSE f[d]]
-----------------------------------------------------------------------------
(* A newcomer takes over some of the links of those who have left.         *)
Arrive(c) ==
  /\ status[c] = "out"
  /\ status' = [status EXCEPT ![c] = "free"]
  /\ \E S, T \in SUBSET Clients :
       /\ \A d \in S : link[d] = Gone
       /\ \A d \in T : held[d] = Gone
       /\ link' = [d \in Clients |-> IF d \in S THEN c ELSE link[d]]
       /\ held' = [d \in Clients |-> IF d \in T THEN c ELSE held[d]]
  /\ UNCHANGED doing

Ask(c, d) ==
  /\ d # c /\ status[c] # "out" /\ status[d] # "out"
  /\ Begins(c, d, "asking")
  /\ status' = [status EXCEPT ![d] = "pending"]
  /\ UNCHANGED link

Tie(c) ==
  /\ Ends(c, "asking")
  /\ link' = Both(link, c, held[c], c)
  /\ UNCHANGED status

(* A client accepts while it is asked, and takes its link to be who asked. *)
Accept(c) ==
  /\ status[c] = "pending" /\ link[c] \in Clients
  /\ status[link[c]] \in {"free", "pending"}
  /\ Begins(c, link[c], "accepting")
  /\ UNCHANGED <<status, link>>

Pair(c) ==
  /\ Ends(c, "accepting")
  /\ status' = Both(status, c, "busy", "busy")
  /\ link' = Both(link, c, held[c], c)

Hangup(c) ==
  /\ status[c] = "busy" /\ link[c] # Nobody
  /\ Begins(c, link[c], "parting")
  /\ UNCHANGED <<status, link>>

Part(c) ==
  /\ Ends(c, "parting")
  /\ status' = Both(status, c, "free", "free")
  /\ link' = Both(link, c, Nobody, Nobody)

(* A client is free again on its own: it declined, or whom it accepted was *)
(* busy (the link stays), or had left (the link is cleared).               *)
Release(c) ==
  /\ status[c] # "out" /\ doing[c] = "idle"
  /\ status' = [status EXCEPT ![c] = "free"]
  /\ link' \in {link, [link EXCEPT ![c] = Nobody]}
  /\ UNCHANGED <<doing, held>>

(* c leaves: its link, unless free already, is free; links to c dangle.    *)
Depart(c) ==
  /\ status[c] # "out" /\ doing[c] = "idle"
  /\ status' = [d \in Clients |->
       IF d = c THEN "out"
       ELSE IF d = link[c] /\ status[d] # "out" THEN "free" ELSE status[d]]
  /\ link' = [d \in Clients |->
       IF d = c THEN Nobody ELSE IF link[d] = c THEN Gone ELSE link[d]]
  /\ held' = [d \in Clients |-> IF held[d] = c THEN Gone ELSE held[d]]
  /\ UNCHANGED doing

(* Most steps of the program change nothing here.                          *)
Idle == UNCHANGED linkVars

Next ==
  \/ Idle
  \/ \E c \in Clients :
       \/ \E d \in Clients : Ask(c, d)
       \/ Arrive(c) \/ Tie(c) \/ Accept(c) \/ Pair(c) \/ Hangup(c) \/ Part(c)
         \/ Release(c) \/ Depart(c)

Spec == Init /\ [][Next]_linkVars
=============================================================================
