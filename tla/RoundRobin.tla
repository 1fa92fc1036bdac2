----------------------------- MODULE RoundRobin -----------------------------
(***************************************************************************)
(* RoundRobinLoadBalancer: a circular doubly linked list of servers.       *)
(* Nodes are equal when their servers are, and a server has at most one    *)
(* node in the list, so a node is named by its server.  The methods are    *)
(* synchronized: one call at a time.  A search reads the state of one      *)
(* server after the other, while jobs end on them; it is the only call     *)
(* that is more than a step.  hasAvailableServer searches the same way     *)
(* and changes nothing.                                                    *)
(***************************************************************************)
EXTENDS Integers, Sequences, FiniteSets

CONSTANTS
  Server,     \* the servers that may be added
  Null        \* a reference to no node

ASSUME NullAssumption == Null \notin Server
ASSUME FiniteAssumption == IsFiniteSet(Server)

VARIABLES
  next, prev,  \* the fields of the nodes
  curr,        \* the node of the server offered last
  size,        \* number of servers in the list
  available,   \* servers that accept jobs and are not busy
  iterNode     \* the node a search looks at, Null outside of a search

listVars == <<next, prev, curr, size>>
vars == <<next, prev, curr, size, available, iterNode>>

(* The nodes met on the way from curr along next, as findNodeWithServer     *)
(* meets them.                                                              *)
nodeAfter[i \in Nat] == IF i = 0 THEN curr ELSE next[nodeAfter[i - 1]]
InList == IF size = 0 THEN {} ELSE {nodeAfter[i] : i \in 0..(Cardinality(Server) - 1)}

Init ==
  /\ next = [s \in Server |-> Null] /\ prev = [s \in Server |-> Null]
  /\ curr = Null
  /\ size = 0
  /\ available \in SUBSET Server
  /\ iterNode = Null

-----------------------------------------------------------------------------
(* Mutant: a server may be added that is in the list.                       *)
addServerTwice(s) ==
  /\ iterNode = Null
  /\ \/ /\ size = 0
        /\ next' = [next EXCEPT ![s] = s] /\ prev' = [prev EXCEPT ![s] = s]
        /\ curr' = s
     \/ /\ size # 0
        /\ next' = [next EXCEPT ![s] = next[curr], ![curr] = s]
        /\ prev' = [prev EXCEPT ![s] = curr, ![next[curr]] = s]
        /\ UNCHANGED curr
  /\ size' = size + 1
  /\ UNCHANGED <<available, iterNode>>

(* A new node goes between curr and the one after it.                       *)
addServer(s) ==
  /\ iterNode = Null
  /\ s \notin InList
  /\ \/ /\ size = 0
        /\ next' = [next EXCEPT ![s] = s]
        /\ prev' = [prev EXCEPT ![s] = s]
        /\ curr' = s
     \/ /\ size # 0
        /\ next' = [next EXCEPT ![s] = next[curr], ![curr] = s]
        /\ prev' = [prev EXCEPT ![s] = curr, ![next[curr]] = s]
        /\ UNCHANGED curr
  /\ size' = size + 1
  /\ UNCHANGED <<available, iterNode>>

(* Mutant: curr stays at the node removed.                                  *)
removeServerStale(s) ==
  /\ iterNode = Null
  /\ s \in InList
  /\ curr' = IF size = 1 THEN Null ELSE curr
  /\ next' = IF size = 1 THEN next ELSE [next EXCEPT ![prev[s]] = next[s]]
  /\ prev' = IF size = 1 THEN prev ELSE [prev EXCEPT ![next[s]] = prev[s]]
  /\ size' = size - 1
  /\ UNCHANGED <<available, iterNode>>

(* The fields of the node removed stay as they are.                         *)
removeServer(s) ==
  /\ iterNode = Null
  /\ s \in InList
  /\ \/ /\ size = 1
        /\ curr' = Null
        /\ UNCHANGED <<next, prev>>
     \/ /\ size # 1
        /\ curr' = IF curr = s THEN next[curr] ELSE curr
        /\ prev' = [prev EXCEPT ![next[s]] = prev[s]]
        /\ next' = [next EXCEPT ![prev[s]] = next[s]]
  /\ size' = size - 1
  /\ UNCHANGED <<available, iterNode>>

-----------------------------------------------------------------------------
(* nextAvailableServer: from the node after curr once around.               *)
BeginSearch ==
  /\ iterNode = Null
  /\ size # 0
  /\ iterNode' = next[curr]
  /\ UNCHANGED <<listVars, available>>

OfferServer ==
  /\ iterNode \in available
  /\ curr' = iterNode
  /\ iterNode' = Null
  /\ UNCHANGED <<next, prev, size, available>>

(* Mutant: the search ends at curr without looking at its server.           *)
PassServerShort ==
  /\ iterNode # Null /\ iterNode \notin available
  /\ iterNode' = IF next[iterNode] = curr THEN Null ELSE next[iterNode]
  /\ UNCHANGED <<listVars, available>>

(* The search ends without a server when it is back where it began.         *)
PassServer ==
  /\ iterNode # Null /\ iterNode \notin available
  /\ iterNode' = IF next[iterNode] = next[curr] THEN Null ELSE next[iterNode]
  /\ UNCHANGED <<listVars, available>>

(* A job ends on a server or is given to it, or the server starts or stops  *)
(* accepting jobs.                                                          *)
ServerChanges(s) ==
  /\ available' = IF s \in available THEN available \ {s} ELSE available \cup {s}
  /\ UNCHANGED <<listVars, iterNode>>

-----------------------------------------------------------------------------
nextAvailableServer == BeginSearch \/ OfferServer \/ PassServer

Next == \/ nextAvailableServer
        \/ \E s \in Server : addServer(s) \/ removeServer(s) \/ ServerChanges(s)

Spec == Init /\ [][Next]_vars

(* runJobs asks for a server for ever, as long as jobs are queued.          *)
FairSpec == Spec /\ WF_vars(nextAvailableServer)

-----------------------------------------------------------------------------
TypeOK ==
  /\ next \in [Server -> Server \cup {Null}] /\ prev \in [Server -> Server \cup {Null}]
  /\ curr \in Server \cup {Null}
  /\ size \in 0..Cardinality(Server)
  /\ available \subseteq Server
  /\ iterNode \in Server \cup {Null}

(* The list is one ring in both directions: size steps along next lead from *)
(* curr back to curr over as many servers, and prev undoes next.            *)
ListIsARing ==
  IF size = 0 THEN curr = Null
  ELSE /\ nodeAfter[size] = curr
       /\ Cardinality(InList) = size
       /\ \A s \in InList : next[s] \in InList /\ prev[next[s]] = s

(* The ring deals the servers out as a sequence of turns would.             *)
order  == [i \in 1..size |-> nodeAfter[i]]
passed == IF iterNode = Null THEN -1
          ELSE (CHOOSE i \in 1..size : order[i] = iterNode) - 1
Turns == INSTANCE Rotation
DealsInTurns == Turns!Spec

(* A server that stays in the list and available is offered again and again,*)
(* whatever becomes of the others, unless servers are added for ever.  Then *)
(* it may starve: a new server has the next turn, and when the server       *)
(* offered last is removed, curr moves past the one that is next.           *)
EveryServerHasItsTurn ==
  \A s \in Server :
    /\ <>[](s \in InList /\ s \in available)
    /\ <>[][\A t \in Server : ~addServer(t)]_vars
    => []<><<iterNode = s /\ iterNode' = Null /\ curr' = s>>_vars
=============================================================================
