------------------------ MODULE ClientRegistryProofs ------------------------
(***************************************************************************)
(* What the operations of ClientRegistry and Sockets return and preserve,  *)
(* for every value of the constants.                                       *)
(***************************************************************************)
EXTENDS ClientRegistry, SequenceLemmas, WellFoundedInduction

(* A set of positions that is not empty has a least member, which is where *)
(* a walk of the list stops.                                               *)
LEMMA MinIsLeast ==
  ASSUME NEW S \in SUBSET Nat, S # {}
  PROVE  Min(S) \in S /\ \A i \in S : Min(S) <= i
<1>1. \E x \in S : \A y \in S : ~ (<<y, x>> \in OpToRel(<, Nat))
  BY NatLessThanWellFounded, WFMin
<1>2. \A x, y \in Nat : y < x => <<y, x>> \in OpToRel(<, Nat)
  BY Zenon DEF OpToRel
<1>3. PICK x \in S : \A y \in S : ~ (y < x)
  BY <1>1, <1>2
<1>4. \A y \in S : x <= y
  BY <1>3
<1> QED
  BY <1>4 DEF Min

(* A lookup by descriptor returns a listed node with that descriptor, or   *)
(* none if there is none.                                                  *)
LEMMA NodeByFdFinds ==
  ASSUME RegistryTypeOK, NoClient \notin Clients, NEW f
  PROVE  /\ NodeByFd(f) \in Clients \cup {NoClient}
         /\ NodeByFd(f) # NoClient <=> PositionsOfFd(f) # {}
         /\ PositionsOfFd(f) # {} =>
              /\ Min(PositionsOfFd(f)) \in DOMAIN clientList
              /\ NodeByFd(f) = clientList[Min(PositionsOfFd(f))]
              /\ NodeByFd(f) \in Listed
              /\ my_socket[NodeByFd(f)] = f
<1>1. clientList \in Seq(Clients) /\ DOMAIN clientList = 1..Len(clientList) /\ Len(clientList) \in Nat
  BY LenProperties DEF RegistryTypeOK
<1>2. PositionsOfFd(f) \in SUBSET Nat
  BY <1>1 DEF PositionsOfFd
<1>3. CASE PositionsOfFd(f) = {}
  BY <1>3 DEF NodeByFd
<1>4. CASE PositionsOfFd(f) # {}
  <2>1. Min(PositionsOfFd(f)) \in PositionsOfFd(f)
    BY <1>2, <1>4, MinIsLeast
  <2>2. /\ Min(PositionsOfFd(f)) \in DOMAIN clientList
        /\ my_socket[clientList[Min(PositionsOfFd(f))]] = f
    BY <2>1 DEF PositionsOfFd
  <2>3. clientList[Min(PositionsOfFd(f))] \in Clients
    BY <1>1, <2>2, ElementOfSeq
  <2> QED
    BY <1>4, <2>2, <2>3 DEF NodeByFd, Listed, Range
<1> QED
  BY <1>3, <1>4

(* A lookup by name returns a listed node with that name, or none.         *)
LEMMA NodeByNameFinds ==
  ASSUME RegistryTypeOK, NEW n
  PROVE  /\ NodeByName(n) \in Clients \cup {NoClient}
         /\ NodeByName(n) # NoClient => NodeByName(n) \in Listed /\ name[NodeByName(n)] = n
<1>1. clientList \in Seq(Clients) /\ DOMAIN clientList = 1..Len(clientList) /\ Len(clientList) \in Nat
  BY LenProperties DEF RegistryTypeOK
<1>2. PositionsOfName(n) \in SUBSET Nat
  BY <1>1 DEF PositionsOfName
<1>3. CASE PositionsOfName(n) = {}
  BY <1>3 DEF NodeByName
<1>4. CASE PositionsOfName(n) # {}
  <2>1. Min(PositionsOfName(n)) \in PositionsOfName(n)
    BY <1>2, <1>4, MinIsLeast
  <2>2. /\ Min(PositionsOfName(n)) \in DOMAIN clientList
        /\ name[clientList[Min(PositionsOfName(n))]] = n
    BY <2>1 DEF PositionsOfName
  <2>3. clientList[Min(PositionsOfName(n))] \in Clients
    BY <1>1, <2>2, ElementOfSeq
  <2> QED
    BY <1>4, <2>2, <2>3 DEF NodeByName, Listed, Range
<1> QED
  BY <1>3, <1>4

(* The lookups return values of the fields' types.                         *)
LEMMA LookupsTyped ==
  ASSUME RegistryTypeOK, NoClient \notin Clients
  PROVE  \A f :
           /\ get_client_name_by_fd(f) \in Names \cup {UNDEF_NAME}
           /\ get_conn_fd_by_fd(f) \in Fds \cup {INVALID_FD}
           /\ get_client_fd_by_name(f) \in Fds \cup {INVALID_FD}
<1> TAKE f
<1>1. NodeByFd(f) \in Clients \cup {NoClient}
  BY NodeByFdFinds
<1>2. NodeByName(f) \in Clients \cup {NoClient}
  BY NodeByNameFinds
<1> QED
  BY <1>1, <1>2
  DEF get_client_name_by_fd, get_conn_fd_by_fd, get_client_fd_by_name, RegistryTypeOK

(* When nodes own their descriptors, the lookup of a listed node's         *)
(* descriptor returns that node.                                           *)
LEMMA NodeByFdOfListed ==
  ASSUME RegistryTypeOK, NoClient \notin Clients, FdNamesOneClient, NEW c \in Listed
  PROVE  NodeByFd(my_socket[c]) = c
<1>1. PICK i \in DOMAIN clientList : clientList[i] = c
  BY DEF Listed, Range
<1>2. i \in PositionsOfFd(my_socket[c])
  BY <1>1 DEF PositionsOfFd
<1>3. NodeByFd(my_socket[c]) \in Listed /\ my_socket[NodeByFd(my_socket[c])] = my_socket[c]
  BY <1>2, NodeByFdFinds
<1>4. PICK j \in DOMAIN clientList : clientList[j] = NodeByFd(my_socket[c])
  BY <1>3 DEF Listed, Range
<1> QED
  BY <1>1, <1>3, <1>4 DEF FdNamesOneClient

(* The setters keep the types of the fields.                               *)
LEMMA SettersTyped ==
  ASSUME RegistryTypeOK, NoClient \notin Clients, NEW f
  PROVE  /\ \A status \in [Clients -> ChatStatus], s \in ChatStatus :
              set_client_chatting_status_by_fd(status, f, s) \in [Clients -> ChatStatus]
         /\ \A to \in [Clients -> Fds \cup {INVALID_FD}], t \in Fds \cup {INVALID_FD} :
              set_to_fd_by_fd(to, f, t) \in [Clients -> Fds \cup {INVALID_FD}]
BY DEF set_client_chatting_status_by_fd, set_to_fd_by_fd

(* Removing a node keeps the types.                                        *)
LEMMA RemoveTyped ==
  ASSUME RegistryTypeOK, SocketsTypeOK, NoClient \notin Clients,
         NEW f \in Fds \cup {INVALID_FD},
         NEW status \in [Clients -> ChatStatus],
         NEW to \in [Clients -> Fds \cup {INVALID_FD}],
         remove_client_node_from_queue_by_fd(f, status, to)
  PROVE  RegistryTypeOK' /\ fdOwner' \in [Fds -> Clients \cup {NoClient}]
<1>1. CASE NodeByFd(f) = NoClient
  BY <1>1 DEF remove_client_node_from_queue_by_fd, RegistryTypeOK, SocketsTypeOK
<1>2. CASE NodeByFd(f) # NoClient
  <2> DEFINE n == NodeByFd(f)
             i == Min(PositionsOfFd(f))
  <2>1. n \in Clients /\ i \in 1..Len(clientList)
    BY <1>2, NodeByFdFinds, LenProperties DEF RegistryTypeOK
  <2>2. RemoveAt(clientList, i) \in Seq(Clients)
    BY <2>1, RemoveAtProperties DEF RegistryTypeOK
  <2>3. \A k \in Int : k % 256 \in 0..255
    OBVIOUS
  <2>4. /\ clientList' = RemoveAt(clientList, i)
        /\ total_available_clients' = (total_available_clients - 1) % 256
        /\ fdOwner' = [fdOwner EXCEPT ![f] = NoClient]
        /\ my_socket' = [my_socket EXCEPT ![n] = INVALID_FD]
        /\ chat_status' = [status EXCEPT ![n] = "CHAT_STATUS_FREE"]
        /\ to_fd' = [to EXCEPT ![n] = INVALID_FD]
        /\ name' = [name EXCEPT ![n] = UNDEF_NAME]
    BY <1>2 DEF remove_client_node_from_queue_by_fd
  <2> HIDE DEF n, i
  <2>5. clientList' \in Seq(Clients) /\ total_available_clients' \in 0..255
    BY <2>2, <2>3, <2>4 DEF RegistryTypeOK
  <2>6. fdOwner' \in [Fds -> Clients \cup {NoClient}]
    BY <2>4 DEF SocketsTypeOK
  <2> QED
    BY <2>1, <2>4, <2>5, <2>6 DEF RegistryTypeOK, ChatStatus
<1> QED
  BY <1>1, <1>2

(* A count that fits a byte does not wrap.                                 *)
LEMMA SmallCounts == \A n \in 0..255 : n % 256 = n
OBVIOUS

(* Removing the node of a listed client by its descriptor removes that     *)
(* client and no other, and keeps the count and the ownership.             *)
LEMMA RemoveKeepsList ==
  ASSUME RegistryTypeOK, SocketsTypeOK, NoClient \notin Clients, CountMatches, FdNamesOneClient,
         NEW c \in Listed, NEW status, NEW to,
         remove_client_node_from_queue_by_fd(my_socket[c], status, to)
  PROVE  /\ Listed' = Listed \ {c}
         /\ CountMatches' /\ FdNamesOneClient'
         /\ my_socket' = [my_socket EXCEPT ![c] = INVALID_FD]
         /\ fdOwner' = [fdOwner EXCEPT ![my_socket[c]] = NoClient]
         /\ chat_status' = [status EXCEPT ![c] = "CHAT_STATUS_FREE"]
         /\ to_fd' = [to EXCEPT ![c] = INVALID_FD]
         /\ name' = [name EXCEPT ![c] = UNDEF_NAME]
<1> DEFINE i == Min(PositionsOfFd(my_socket[c]))
           L == Len(clientList)
<1>1. /\ clientList \in Seq(Clients) /\ L \in Nat /\ DOMAIN clientList = 1..L
      /\ c \in Clients
  BY LenProperties, ElementOfSeq DEF RegistryTypeOK, Listed, Range
<1>2. NodeByFd(my_socket[c]) = c
  BY NodeByFdOfListed
<1>3. i \in 1..L /\ clientList[i] = c
  BY <1>1, <1>2, NodeByFdFinds
<1>4. /\ clientList' = RemoveAt(clientList, i)
      /\ total_available_clients' = (total_available_clients - 1) % 256
      /\ my_socket' = [my_socket EXCEPT ![c] = INVALID_FD]
      /\ fdOwner' = [fdOwner EXCEPT ![my_socket[c]] = NoClient]
      /\ chat_status' = [status EXCEPT ![c] = "CHAT_STATUS_FREE"]
      /\ to_fd' = [to EXCEPT ![c] = INVALID_FD]
      /\ name' = [name EXCEPT ![c] = UNDEF_NAME]
  BY <1>1, <1>2 DEF remove_client_node_from_queue_by_fd
<1> HIDE DEF i
<1>5. /\ clientList' \in Seq(Clients)
      /\ Len(clientList') = L - 1
      /\ \A j \in 1..(L - 1) : clientList'[j] = IF j < i THEN clientList[j] ELSE clientList[j + 1]
  BY <1>1, <1>3, <1>4, RemoveAtProperties
<1>6. DOMAIN clientList' = 1..(L - 1)
  BY <1>5, LenProperties
<1>7. \A j \in 1..(L - 1) : \E k \in 1..L : k # i /\ clientList'[j] = clientList[k]
                                             /\ k = IF j < i THEN j ELSE j + 1
  BY <1>1, <1>3, <1>5
<1>8. \A k \in 1..L : k # i => \E j \in 1..(L - 1) : clientList'[j] = clientList[k]
  <2> TAKE k \in 1..L
  <2> HAVE k # i
  <2>1. CASE k < i
    BY <1>1, <1>3, <1>5, <2>1
  <2>2. CASE k > i
    <3>1. k - 1 \in 1..(L - 1) /\ ~ (k - 1 < i) /\ (k - 1) + 1 = k
      BY <1>1, <1>3, <2>2
    <3> QED
      BY <1>5, <3>1
  <2> QED
    BY <1>1, <1>3, <2>1, <2>2
<1>9. Listed' = Listed \ {c}
  <2>1. \A d \in Listed' : d \in Listed /\ d # c
    BY <1>1, <1>3, <1>6, <1>7 DEF Listed, Range, FdNamesOneClient
  <2>2. \A d \in Listed : d # c => d \in Listed'
    BY <1>1, <1>3, <1>6, <1>8 DEF Listed, Range
  <2> QED
    BY <1>3, <2>1, <2>2
<1>10. CountMatches'
  <2>1. total_available_clients = L /\ L <= MAX_CLIENT
    BY DEF CountMatches
  <2> HIDE DEF L
  <2>2. L \in 1..255 /\ L - 1 <= MAX_CLIENT
    BY <1>1, <1>3, <2>1, MaxClientAssumption
  <2>3. (L - 1) % 256 = L - 1
    BY <2>2, SmallCounts
  <2> QED
    BY <1>4, <1>5, <2>1, <2>2, <2>3 DEF CountMatches
<1>11. FdNamesOneClient'
  <2>1. \A j, k \in DOMAIN clientList' : clientList'[j] = clientList'[k] => j = k
    BY <1>1, <1>3, <1>6, <1>7 DEF FdNamesOneClient
  <2>2. \A j \in DOMAIN clientList' :
          my_socket'[clientList'[j]] \in Fds /\ fdOwner'[my_socket'[clientList'[j]]] = clientList'[j]
    <3> TAKE j \in DOMAIN clientList'
    <3>1. PICK k \in 1..L : k # i /\ clientList'[j] = clientList[k]
      BY <1>6, <1>7
    <3> DEFINE d == clientList[k]
    <3>2. d \in Clients /\ d # c /\ my_socket[d] \in Fds /\ fdOwner[my_socket[d]] = d
      BY <1>1, <1>3, <3>1, ElementOfSeq DEF FdNamesOneClient
    <3>3. my_socket[c] \in Fds /\ fdOwner[my_socket[c]] = c
      BY <1>1, <1>3 DEF FdNamesOneClient
    <3>4. my_socket'[d] = my_socket[d] /\ my_socket[d] # my_socket[c]
      BY <1>4, <3>2, <3>3 DEF RegistryTypeOK
    <3>5. fdOwner'[my_socket[d]] = d
      BY <1>4, <3>2, <3>4 DEF SocketsTypeOK
    <3> QED
      BY <3>1, <3>2, <3>4, <3>5
  <2> QED
    BY <2>1, <2>2 DEF FdNamesOneClient
<1> QED
  BY <1>4, <1>9, <1>10, <1>11

(* So does adding the node of a client that is not listed and whose        *)
(* descriptor is its own.                                                  *)
LEMMA AddKeepsList ==
  ASSUME RegistryTypeOK, CountMatches, FdNamesOneClient,
         NEW c \in Clients, c \notin Listed, ~ QueueFull,
         my_socket[c] \in Fds, fdOwner[my_socket[c]] = c,
         add_client_node_to_queue(c), UNCHANGED <<my_socket, fdOwner>>
  PROVE  Listed' = Listed \cup {c} /\ CountMatches' /\ FdNamesOneClient'
<1> DEFINE L == Len(clientList)
<1>1. clientList \in Seq(Clients) /\ L \in Nat /\ DOMAIN clientList = 1..L
  BY LenProperties DEF RegistryTypeOK
<1>2. /\ clientList' \in Seq(Clients)
      /\ Len(clientList') = L + 1
      /\ \A j \in 1..L : clientList'[j] = clientList[j]
      /\ clientList'[L + 1] = c
  BY <1>1, AppendProperties DEF add_client_node_to_queue
<1>3. DOMAIN clientList' = 1..(L + 1)
  BY <1>2, LenProperties
<1>4. Listed' = Listed \cup {c}
  <2>1. \A j \in 1..(L + 1) : j \in 1..L \/ j = L + 1
    BY <1>1
  <2>2. 1..L \subseteq 1..(L + 1) /\ L + 1 \in 1..(L + 1)
    BY <1>1
  <2> QED
    BY <1>1, <1>2, <1>3, <2>1, <2>2 DEF Listed, Range
<1>5. CountMatches'
  <2>1. total_available_clients = L /\ ~ (L >= MAX_CLIENT)
    BY DEF CountMatches, QueueFull
  <2> HIDE DEF L
  <2>2. L + 1 \in 1..255 /\ L + 1 <= MAX_CLIENT
    BY <1>1, <2>1, MaxClientAssumption
  <2>3. (L + 1) % 256 = L + 1
    BY <2>2, SmallCounts
  <2> QED
    BY <1>2, <2>1, <2>2, <2>3 DEF CountMatches, add_client_node_to_queue
<1>6. FdNamesOneClient'
  <2>1. \A j \in 1..L : clientList[j] # c
    BY <1>1 DEF Listed, Range
  <2>2. \A j \in 1..(L + 1) : j \in 1..L \/ j = L + 1
    BY <1>1
  <2> QED
    BY <1>1, <1>2, <1>3, <2>1, <2>2 DEF FdNamesOneClient
<1> QED
  BY <1>4, <1>5, <1>6

(* A send by the server keeps the types of what it changes.                *)
LEMMA SendTyped ==
  ASSUME SocketsTypeOK, NEW f, NEW m \in Messages, Send(f, m)
  PROVE  /\ peer' \in [Clients -> PeerStates]
         /\ toClient' \in [Clients -> Seq(Messages)]
         /\ serverUp' \in BOOLEAN
<1> DEFINE c == fdOwner[f]
<1>1. CASE UNCHANGED sendVars
  BY <1>1 DEF sendVars, SocketsTypeOK
<1>2. CASE toClient' = [toClient EXCEPT ![c] = Append(@, m)] /\ UNCHANGED <<peer, serverUp>>
  BY <1>2, AppendProperties DEF SocketsTypeOK
<1>3. CASE peer' = [peer EXCEPT ![c] = "reset"] /\ UNCHANGED <<toClient, serverUp>>
  BY <1>3 DEF SocketsTypeOK, PeerStates
<1>4. CASE serverUp' \in BOOLEAN /\ UNCHANGED <<peer, toClient>>
  BY <1>4 DEF SocketsTypeOK
<1> QED
  BY <1>1, <1>2, <1>3, <1>4 DEF Send
=============================================================================
