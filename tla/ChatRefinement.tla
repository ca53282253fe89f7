--------------------------- MODULE ChatRefinement ---------------------------
(***************************************************************************)
(* The chat application implements Admission and ChatLinks.                *)
(***************************************************************************)
EXTENDS ChatSystem

CONSTANTS Nobody, Gone
ASSUME RefAssumption == Nobody # Gone /\ {Nobody, Gone} \cap Clients = {}

(* The stage a client has reached: it has a place while its node is        *)
(* listed, also when the thread that listed it has given up.               *)
StageOf(c) ==
  CASE pc[c] = "none" -> "outside"
    [] pc[c] \in {"accepted", "start"} -> "waiting"
    [] pc[c] = "refused" -> "refused"
    [] pc[c] = "greet" -> "admitted"
    [] pc[c] \in ServingPcs \ {"greet"} -> "served"
    [] pc[c] = "exited" -> IF c \in Listed THEN "stranded" ELSE "departed"

Stage == [c \in Clients |-> StageOf(c)]

Adm == INSTANCE Admission WITH stage <- Stage, MayFail <- OutOfMemory

(* Whom a descriptor kept in to_fd or in a local stands for.               *)
Whom(f) ==
  IF f = INVALID_FD THEN Nobody
  ELSE LET n == NodeByFd(f) IN IF n = NoClient THEN Gone ELSE n

StatusOf(c) ==
  CASE c \notin Listed -> "out"
    [] c \in Listed /\ chat_status[c] = "CHAT_STATUS_FREE" -> "free"
    [] c \in Listed /\ chat_status[c] = "CHAT_STATUS_BUSY" -> "busy"
    [] c \in Listed /\ chat_status[c] = "CHAT_STATUS_REQ_PENDING" -> "pending"

LinkOf(c) == IF c \in Listed THEN Whom(to_fd[c]) ELSE Nobody

(* The handlers that carry a descriptor from one section to another.       *)
DoingOf(c) ==
  CASE pc[c] = "req_link" -> "asking"
    [] pc[c] = "acc_pair" -> "accepting"
    [] pc[c] = "tx_disc" -> "parting"
    [] OTHER -> "idle"

HeldBy(c) == IF DoingOf(c) = "idle" THEN Nobody ELSE Whom(loc[c].conn_fd)

Status == [c \in Clients |-> StatusOf(c)]
Link == [c \in Clients |-> LinkOf(c)]
Doing == [c \in Clients |-> DoingOf(c)]
Held == [c \in Clients |-> HeldBy(c)]

Lnk == INSTANCE ChatLinks WITH status <- Status, link <- Link, doing <- Doing, held <- Held

(* Places, refusals and departures, as Admission has them: the unlocked    *)
(* decision of main (line 164) refuses nobody while there is a place, and  *)
(* admits nobody beyond the last one.                                      *)
AdmissionSpec == Adm!Spec

(* Every step of the handlers, each split over sections of the mutex with  *)
(* other handlers in between, is a step of ChatLinks or changes nothing:   *)
(* no client is marked, tied, paired or freed by anybody else.             *)
ChatLinksSpec == Lnk!Spec
=============================================================================
