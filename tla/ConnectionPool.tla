--------------------------- MODULE ConnectionPool ---------------------------
(***************************************************************************)
(* The pool of connections to the music repository                         *)
(* (RepositoryClientConnectionPool), the threads of the web application    *)
(* and of the flow store that take a connection and give it back, and the  *)
(* repository's database, which may be down for a while.                   *)
(*                                                                         *)
(* A connection is named by its place among those the pool was made with:  *)
(* one that replaces an invalid one takes its name.                        *)
(***************************************************************************)
EXTENDS Naturals, Sequences, FiniteSets, Functions

CONSTANTS
  User,         \* the threads
  PoolSize,     \* DEFAULT_POOL_SIZE: initPool runs before a size is assigned
  MaxOutages    \* model bound: times the database goes down

ASSUME UsersAssumption == IsFiniteSet(User)
ASSUME SizesAssumption == PoolSize \in Nat /\ MaxOutages \in Nat

VARIABLES
  pool,      \* the queue of free connections
  pc,        \* what each thread does
  util,      \* the connection each thread has, 0 for none
  valid,     \* the connections whose database connection is open
  lost,      \* history: the connections nobody has
  up,        \* whether the database accepts connections
  outages

vars == <<pool, pc, util, valid, lost, up, outages>>

Connection == 1..PoolSize

(* The database may refuse any of the first connections: the constructor   *)
(* logs the exception and the pool keeps those made before.                *)
Init ==
  /\ \E made \in 0..PoolSize :
       /\ pool = [n \in 1..made |-> n]
       /\ valid = 1..made
       /\ lost = Connection \ (1..made)
       /\ up \in (IF made < PoolSize THEN BOOLEAN ELSE {TRUE})
  /\ pc = [u \in User |-> "idle"]
  /\ util = [u \in User |-> 0]
  /\ outages = 0

-----------------------------------------------------------------------------
(* getFromPool, in which a thread waits in poll for 30 seconds at most.    *)
Ask(u) ==
  /\ pc[u] = "idle"
  /\ pc' = [pc EXCEPT ![u] = "polling"]
  /\ UNCHANGED <<pool, util, valid, lost, up, outages>>

(* Mutant: the queue is read and left as it is.                            *)
PollPeeks(u) ==
  /\ pc[u] = "polling"
  /\ pool # <<>>
  /\ util' = [util EXCEPT ![u] = Head(pool)]
  /\ pc' = [pc EXCEPT ![u] = "checking"]
  /\ UNCHANGED <<pool, valid, lost, up, outages>>

Poll(u) ==
  /\ pc[u] = "polling"
  /\ pool # <<>>
  /\ util' = [util EXCEPT ![u] = Head(pool)]
  /\ pool' = Tail(pool)
  /\ pc' = [pc EXCEPT ![u] = "checking"]
  /\ UNCHANGED <<valid, lost, up, outages>>


(* poll returned null: the call of isValid throws.                         *)
TimeOut(u) ==
  /\ pc[u] = "polling"
  /\ pool = <<>>
  /\ pc' = [pc EXCEPT ![u] = "failed"]
  /\ UNCHANGED <<pool, util, valid, lost, up, outages>>

FindsValid(u) ==
  /\ pc[u] = "checking"
  /\ util[u] \in valid
  /\ pc' = [pc EXCEPT ![u] = "using"]
  /\ UNCHANGED <<pool, util, valid, lost, up, outages>>

Replaces(u) ==
  /\ pc[u] = "checking"
  /\ util[u] \notin valid
  /\ up
  /\ valid' = valid \cup {util[u]}
  /\ pc' = [pc EXCEPT ![u] = "using"]
  /\ UNCHANGED <<pool, util, lost, up, outages>>

(* The invalid connection is closed, the constructor of the new one throws *)
(* and neither is in the pool.                                             *)
LosesConnection(u) ==
  /\ pc[u] = "checking"
  /\ util[u] \notin valid
  /\ ~up
  /\ lost' = lost \cup {util[u]}
  /\ util' = [util EXCEPT ![u] = 0]
  /\ pc' = [pc EXCEPT ![u] = "failed"]
  /\ UNCHANGED <<pool, valid, up, outages>>

Check(u) == FindsValid(u) \/ Replaces(u) \/ LosesConnection(u)

(* Mutant: a caller goes on using what it gave back.                       *)
ReturnKeeps(u) ==
  /\ pc[u] = "using"
  /\ pool' = Append(pool, util[u])
  /\ pc' = [pc EXCEPT ![u] = "idle"]
  /\ UNCHANGED <<util, valid, lost, up, outages>>

(* Mutant: a caller that gets an exception does not give back.             *)
ReturnOnSuccess(u) ==
  /\ pc[u] = "using"
  /\ pool' = Append(pool, util[u]) \/ UNCHANGED pool
  /\ util' = [util EXCEPT ![u] = 0]
  /\ pc' = [pc EXCEPT ![u] = "idle"]
  /\ UNCHANGED <<valid, lost, up, outages>>

(* returnToPool, in the finally of every caller.                           *)
Return(u) ==
  /\ pc[u] = "using"
  /\ pool' = Append(pool, util[u])
  /\ util' = [util EXCEPT ![u] = 0]
  /\ pc' = [pc EXCEPT ![u] = "idle"]
  /\ UNCHANGED <<valid, lost, up, outages>>

(* The exception of a get ends the request.                                *)
Abandon(u) ==
  /\ pc[u] = "failed"
  /\ pc' = [pc EXCEPT ![u] = "idle"]
  /\ UNCHANGED <<pool, util, valid, lost, up, outages>>

-----------------------------------------------------------------------------
(* The database.                                                           *)
GoesDown ==
  /\ up
  /\ outages < MaxOutages
  /\ up' = FALSE
  /\ outages' = outages + 1
  /\ \E open \in SUBSET valid : valid' = open
  /\ UNCHANGED <<pool, pc, util, lost>>

(* An open connection may also time out by itself.                         *)
Expires ==
  /\ \E c \in valid : valid' = valid \ {c}
  /\ UNCHANGED <<pool, pc, util, lost, up, outages>>

ComesUp ==
  /\ ~up
  /\ up' = TRUE
  /\ UNCHANGED <<pool, pc, util, valid, lost, outages>>

-----------------------------------------------------------------------------
Next ==
  \/ \E u \in User :
       Ask(u) \/ Poll(u) \/ TimeOut(u) \/ Check(u) \/ Return(u) \/ Abandon(u)
  \/ GoesDown
  \/ Expires
  \/ ComesUp

(* A thread runs on, and returns what it uses; poll ends with a connection *)
(* or after 30 seconds.                                                    *)
Spec ==
  /\ Init /\ [][Next]_vars
  /\ \A u \in User :
       WF_vars(Poll(u) \/ TimeOut(u) \/ Check(u) \/ Return(u) \/ Abandon(u))

-----------------------------------------------------------------------------
Held == {util[u] : u \in User} \ {0}

TypeOK ==
  /\ pool \in Seq(Connection)
  /\ pc \in [User -> {"idle", "polling", "checking", "using", "failed"}]
  /\ util \in [User -> 0..PoolSize]
  /\ valid \subseteq Connection /\ lost \subseteq Connection
  /\ up \in BOOLEAN /\ outages \in 0..MaxOutages
  /\ \A u \in User : util[u] # 0 <=> pc[u] \in {"checking", "using"}

(* No connection is used by two threads, or free while a thread uses it.   *)
OneHolder ==
  /\ \A m, n \in DOMAIN pool : m # n => pool[m] # pool[n]
  /\ \A u, v \in User : u # v /\ util[u] # 0 => util[u] # util[v]
  /\ Held \cap Range(pool) = {}

(* A connection that is neither free nor used is lost: the pool shrinks    *)
(* only by attempts to replace an invalid connection that failed.          *)
NoneDisappears ==
  /\ Connection = Range(pool) \cup Held \cup lost
  /\ lost \cap (Range(pool) \cup Held) = {}


=============================================================================
