------------------------ MODULE ConnectionPool_proofs ------------------------
(***************************************************************************)
(* What holds of ConnectionPool for any number of threads, connections and *)
(* outages.  TypeOK, OneHolder and NoneDisappears are inductive together:  *)
(* a connection that is given back is not in the queue yet because no      *)
(* other place holds it, and it is not lost for the same reason.           *)
(***************************************************************************)
EXTENDS ConnectionPool, SequenceTheorems, TLAPS

Distinct(q) == \A m, n \in DOMAIN q : m # n => q[m] # q[n]

(* A connection that joins a queue it is not in.                           *)
LEMMA Joins ==
  ASSUME NEW q \in Seq(Connection), NEW c \in Connection,
         Distinct(q), c \notin Range(q)
  PROVE  /\ Append(q, c) \in Seq(Connection)
         /\ Distinct(Append(q, c))
         /\ Range(Append(q, c)) = Range(q) \cup {c}
<1> DEFINE r == Append(q, c)
<1>1. /\ r \in Seq(Connection)
      /\ Len(r) = Len(q) + 1
      /\ \A i \in 1..Len(q) : r[i] = q[i]
      /\ r[Len(q) + 1] = c
  BY AppendProperties
<1>2. Len(q) \in Nat /\ DOMAIN q = 1..Len(q) /\ DOMAIN r = 1..(Len(q) + 1)
  BY <1>1, LenProperties
<1> HIDE DEF r
<1>3. \A i \in DOMAIN r : i \in DOMAIN q \/ i = Len(q) + 1
  BY <1>2
<1>4. \A i \in DOMAIN q : q[i] # c
  BY DEF Range
<1>5. Distinct(r)
  BY <1>1, <1>2, <1>3, <1>4 DEF Distinct
<1>6. Range(r) = Range(q) \cup {c}
  BY <1>1, <1>2, <1>3 DEF Range
<1> QED BY <1>1, <1>5, <1>6 DEF r

(* The connection at the head of a queue leaves it.                        *)
LEMMA Leaves ==
  ASSUME NEW q \in Seq(Connection), q # <<>>, Distinct(q)
  PROVE  /\ Head(q) \in Connection
         /\ Head(q) \in Range(q)
         /\ Tail(q) \in Seq(Connection)
         /\ Distinct(Tail(q))
         /\ Range(Tail(q)) = Range(q) \ {Head(q)}
<1> DEFINE t == Tail(q)
           h == Head(q)
<1>1. /\ h \in Connection
      /\ t \in Seq(Connection)
      /\ Len(t) = Len(q) - 1
      /\ \A i \in 1..Len(t) : t[i] = q[i + 1]
      /\ h = q[1]
  BY HeadTailProperties
<1>2. Len(q) \in Nat /\ Len(q) >= 1
  BY EmptySeq
<1>3. DOMAIN q = 1..Len(q) /\ DOMAIN t = 1..(Len(q) - 1)
  BY <1>1, LenProperties
<1> HIDE DEF t, h
<1>4. \A i \in DOMAIN t : i + 1 \in DOMAIN q /\ i + 1 # 1 /\ t[i] = q[i + 1]
  BY <1>1, <1>2, <1>3
<1>5. \A k \in DOMAIN q : k = 1 \/ (k - 1 \in DOMAIN t /\ t[k - 1] = q[k])
  BY <1>1, <1>2, <1>3
<1>6. 1 \in DOMAIN q
  BY <1>2, <1>3
<1>7. Distinct(t)
  <2> SUFFICES ASSUME NEW m \in DOMAIN t, NEW n \in DOMAIN t, m # n
               PROVE  t[m] # t[n]
    BY DEF Distinct
  <2>1. m + 1 # n + 1
    BY <1>2, <1>3
  <2> QED BY <1>4, <2>1 DEF Distinct
<1>8. Range(t) \subseteq Range(q) \ {h}
  BY <1>1, <1>4, <1>6 DEF Distinct, Range
<1>9. Range(q) \ {h} \subseteq Range(t)
  BY <1>1, <1>5 DEF Range
<1> QED BY <1>1, <1>6, <1>7, <1>8, <1>9 DEF t, h, Range

-----------------------------------------------------------------------------
PInv == TypeOK /\ OneHolder /\ NoneDisappears

(* The threads that hold a connection are elsewhere than the queue.        *)
LEMMA PInvInit == Init => PInv
<1> SUFFICES ASSUME Init PROVE PInv
  OBVIOUS
<1>1. PICK made \in 0..PoolSize :
        /\ pool = [n \in 1..made |-> n]
        /\ valid = 1..made
        /\ lost = Connection \ (1..made)
        /\ up \in (IF made < PoolSize THEN BOOLEAN ELSE {TRUE})
  BY DEF Init
<1>2. made \in Nat /\ 1..made \subseteq Connection
  BY SizesAssumption DEF Connection
<1>3. pool \in Seq(Connection)
  <2>1. pool \in [1..made -> Connection]
    BY <1>1, <1>2
  <2> QED BY <1>2, <2>1, SeqDef
<1>4. Held = {}
  BY DEF Held, Init
<1>5. DOMAIN pool = 1..made /\ Range(pool) = 1..made
  BY <1>1 DEF Range
<1>6. up \in BOOLEAN
  BY <1>1
<1>7. TypeOK
  <2>1. pc \in [User -> {"idle", "polling", "checking", "using", "failed"}]
    BY DEF Init
  <2>2. util \in [User -> 0..PoolSize] /\ outages \in 0..MaxOutages
    BY SizesAssumption DEF Init
  <2>3. \A u \in User : util[u] # 0 <=> pc[u] \in {"checking", "using"}
    BY DEF Init
  <2>4. valid \subseteq Connection /\ lost \subseteq Connection
    BY <1>1, <1>2
  <2> QED BY <1>3, <1>6, <2>1, <2>2, <2>3, <2>4 DEF TypeOK
<1>8. OneHolder
  <2>1. \A m, n \in DOMAIN pool : m # n => pool[m] # pool[n]
    BY <1>1
  <2>2. \A u \in User : util[u] = 0
    BY DEF Init
  <2> QED BY <1>4, <2>1, <2>2 DEF OneHolder
<1>9. NoneDisappears
  BY <1>1, <1>2, <1>4, <1>5 DEF NoneDisappears
<1> QED BY <1>7, <1>8, <1>9 DEF PInv

(* Who holds what when thread u takes connection c, and gives back the one *)
(* it has.                                                                 *)
LEMMA Takes ==
  ASSUME TypeOK, NEW u \in User, NEW c \in Connection, c \notin Held,
         util[u] = 0, util' = [util EXCEPT ![u] = c]
  PROVE  Held' = Held \cup {c}
<1>1. c # 0
  BY SizesAssumption DEF Connection
<1>2. \A v \in User : util'[v] = IF v = u THEN c ELSE util[v]
  BY DEF TypeOK
<1> QED BY <1>1, <1>2 DEF Held

LEMMA Gives ==
  ASSUME TypeOK, OneHolder, NEW u \in User, util[u] # 0,
         util' = [util EXCEPT ![u] = 0]
  PROVE  Held' = Held \ {util[u]}
<1>1. \A v \in User : util'[v] = IF v = u THEN 0 ELSE util[v]
  BY DEF TypeOK
<1>2. \A v \in User : v # u => util[v] # util[u]
  BY DEF OneHolder
<1> QED BY <1>1, <1>2 DEF Held

(* The steps of a thread that leave the connections where they are.        *)
LEMMA Stays ==
  ASSUME PInv, NEW u \in User, NEW q,
         q \in {"idle", "polling", "checking", "using", "failed"},
         q \in {"checking", "using"} <=> util[u] # 0,
         pc' = [pc EXCEPT ![u] = q],
         UNCHANGED <<pool, util, lost, up, outages>>,
         valid' \subseteq Connection
  PROVE  PInv'
<1>1. pc' \in [User -> {"idle", "polling", "checking", "using", "failed"}]
  BY DEF PInv, TypeOK
<1>2. \A v \in User : util'[v] # 0 <=> pc'[v] \in {"checking", "using"}
  BY DEF PInv, TypeOK
<1>3. TypeOK'
  BY <1>1, <1>2 DEF PInv, TypeOK
<1>4. OneHolder' /\ NoneDisappears'
  BY DEF PInv, OneHolder, NoneDisappears, Held
<1> QED BY <1>3, <1>4 DEF PInv

LEMMA PollPInv == ASSUME PInv, NEW u \in User, Poll(u) PROVE PInv'
<1> DEFINE c == Head(pool)
<1>1. pool # <<>> /\ pool \in Seq(Connection) /\ Distinct(pool)
  BY DEF Poll, PInv, TypeOK, OneHolder, Distinct
<1>2. /\ c \in Connection /\ c \in Range(pool)
      /\ pool' \in Seq(Connection) /\ Distinct(pool')
      /\ Range(pool') = Range(pool) \ {c}
  BY <1>1, Leaves DEF Poll
<1>3. util' = [util EXCEPT ![u] = c] /\ util[u] = 0 /\ pc[u] = "polling"
      /\ pc' = [pc EXCEPT ![u] = "checking"]
  BY DEF Poll, PInv, TypeOK
<1>4. c \notin Held /\ c # 0
  BY <1>2, SizesAssumption DEF PInv, OneHolder, Connection
<1> HIDE DEF c
<1>5. Held' = Held \cup {c}
  BY <1>2, <1>3, <1>4, Takes DEF PInv
<1>6. TypeOK'
  <2>1. pc' \in [User -> {"idle", "polling", "checking", "using", "failed"}]
    BY <1>3 DEF PInv, TypeOK
  <2>2. util' \in [User -> 0..PoolSize]
    BY <1>2, <1>3 DEF PInv, TypeOK, Connection
  <2>3. \A v \in User : util'[v] # 0 <=> pc'[v] \in {"checking", "using"}
    BY <1>3, <1>4 DEF PInv, TypeOK
  <2> QED BY <1>2, <2>1, <2>2, <2>3 DEF PInv, TypeOK, Poll
<1>7. OneHolder'
  <2>1. \A v \in User : util'[v] = IF v = u THEN c ELSE util[v]
    BY <1>3 DEF PInv, TypeOK
  <2>2. \A v \in User : util[v] # c
    BY <1>4 DEF Held
  <2>3. \A v, w \in User : v # w /\ util'[v] # 0 => util'[v] # util'[w]
    BY <2>1, <2>2 DEF PInv, OneHolder
  <2>4. Held' \cap Range(pool') = {}
    BY <1>2, <1>5 DEF PInv, OneHolder
  <2> QED BY <1>2, <2>3, <2>4 DEF OneHolder, Distinct
<1>8. NoneDisappears'
  BY <1>2, <1>5 DEF PInv, NoneDisappears, Poll, Connection
<1> QED BY <1>6, <1>7, <1>8 DEF PInv

(* A thread that has a connection ends without it.                         *)
LEMMA GivesPInv ==
  ASSUME PInv, NEW u \in User, NEW q \in {"idle", "failed"}, util[u] # 0,
         util' = [util EXCEPT ![u] = 0], pc' = [pc EXCEPT ![u] = q],
         UNCHANGED <<valid, up, outages>>,
         \/ pool' = Append(pool, util[u]) /\ lost' = lost
         \/ pool' = pool /\ lost' = lost \cup {util[u]}
  PROVE  PInv'
<1> DEFINE c == util[u]
<1>1. c \in Connection /\ c \in Held /\ c \notin Range(pool) /\ c \notin lost
  BY DEF PInv, TypeOK, OneHolder, NoneDisappears, Held, Connection
<1>2. pool \in Seq(Connection) /\ Distinct(pool)
  BY DEF PInv, TypeOK, OneHolder, Distinct
<1>3. Held' = Held \ {c}
  BY Gives DEF PInv
<1>4. \/ /\ pool' \in Seq(Connection) /\ Distinct(pool')
         /\ Range(pool') = Range(pool) \cup {c} /\ lost' = lost
      \/ pool' = pool /\ lost' = lost \cup {c}
  BY <1>1, <1>2, Joins
<1>5. TypeOK'
  <2>1. pc' \in [User -> {"idle", "polling", "checking", "using", "failed"}]
    BY DEF PInv, TypeOK
  <2>2. util' \in [User -> 0..PoolSize]
    BY SizesAssumption DEF PInv, TypeOK
  <2>3. \A v \in User : util'[v] # 0 <=> pc'[v] \in {"checking", "using"}
    BY DEF PInv, TypeOK
  <2>4. pool' \in Seq(Connection) /\ lost' \subseteq Connection
    BY <1>1, <1>2, <1>4 DEF PInv, TypeOK
  <2> QED BY <2>1, <2>2, <2>3, <2>4 DEF PInv, TypeOK, Connection
<1>6. OneHolder'
  <2>1. \A v \in User : util'[v] = IF v = u THEN 0 ELSE util[v]
    BY DEF PInv, TypeOK
  <2>2. \A v, w \in User : v # w /\ util'[v] # 0 => util'[v] # util'[w]
    BY <2>1 DEF PInv, OneHolder
  <2>3. Held' \cap Range(pool') = {}
    BY <1>3, <1>4 DEF PInv, OneHolder
  <2>4. Distinct(pool')
    BY <1>2, <1>4
  <2> QED BY <2>2, <2>3, <2>4 DEF OneHolder, Distinct
<1>7. NoneDisappears'
  BY <1>1, <1>3, <1>4 DEF PInv, NoneDisappears, OneHolder, Connection
<1> QED BY <1>5, <1>6, <1>7 DEF PInv

LEMMA PInvNext == PInv /\ [Next]_vars => PInv'
<1> SUFFICES ASSUME PInv, [Next]_vars PROVE PInv'
  OBVIOUS
<1>1. ASSUME NEW u \in User, Ask(u) \/ TimeOut(u) \/ Abandon(u) PROVE PInv'
  <2>1. PICK q \in {"idle", "polling", "failed"} : pc' = [pc EXCEPT ![u] = q]
    BY <1>1 DEF Ask, TimeOut, Abandon
  <2>2. util[u] = 0 /\ UNCHANGED <<pool, util, valid, lost, up, outages>>
    BY <1>1 DEF Ask, TimeOut, Abandon, PInv, TypeOK
  <2>3. valid' \subseteq Connection
    BY <2>2 DEF PInv, TypeOK
  <2> QED BY <2>1, <2>2, <2>3, Stays
<1>2. ASSUME NEW u \in User, FindsValid(u) \/ Replaces(u) PROVE PInv'
  <2>1. pc' = [pc EXCEPT ![u] = "using"] /\ util[u] # 0 /\ util[u] \in 0..PoolSize
    BY <1>2 DEF FindsValid, Replaces, PInv, TypeOK
  <2>2. UNCHANGED <<pool, util, lost, up, outages>>
    BY <1>2 DEF FindsValid, Replaces
  <2>3. valid' \subseteq Connection
    <3>1. util[u] \in Connection /\ valid \subseteq Connection
      BY <2>1, SizesAssumption DEF PInv, TypeOK, Connection
    <3>2. valid' = valid \/ valid' = valid \cup {util[u]}
      BY <1>2 DEF FindsValid, Replaces
    <3> QED BY <3>1, <3>2
  <2>4. /\ "using" \in {"idle", "polling", "checking", "using", "failed"}
        /\ "using" \in {"checking", "using"} <=> util[u] # 0
    BY <2>1
  <2> QED BY <2>1, <2>2, <2>3, <2>4, Stays
<1>3. ASSUME NEW u \in User, LosesConnection(u) \/ Return(u) PROVE PInv'
  <2>1. util[u] # 0
    BY <1>3 DEF LosesConnection, Return, PInv, TypeOK
  <2>2. CASE LosesConnection(u)
    BY <2>1, <2>2, GivesPInv DEF LosesConnection
  <2>3. CASE Return(u)
    BY <2>1, <2>3, GivesPInv DEF Return
  <2> QED BY <1>3, <2>2, <2>3
<1>4. CASE GoesDown \/ Expires \/ ComesUp
  <2>1. pool' = pool /\ pc' = pc /\ util' = util /\ lost' = lost
    BY <1>4 DEF GoesDown, Expires, ComesUp
  <2>2. valid' \subseteq Connection
    BY <1>4 DEF GoesDown, Expires, ComesUp, PInv, TypeOK
  <2>3. up' \in BOOLEAN /\ outages' \in 0..MaxOutages
    <3>1. up' \in BOOLEAN
      BY <1>4, Zenon DEF GoesDown, Expires, ComesUp, PInv, TypeOK
    <3>2. outages' = outages \/ (outages < MaxOutages /\ outages' = outages + 1)
      BY <1>4 DEF GoesDown, Expires, ComesUp
    <3>3. outages' \in 0..MaxOutages
      BY <3>2, SizesAssumption DEF PInv, TypeOK
    <3> QED BY <3>1, <3>3
  <2>4. TypeOK'
    <3>1. \A u \in User : util'[u] # 0 <=> pc'[u] \in {"checking", "using"}
      BY <2>1 DEF PInv, TypeOK
    <3> QED BY <2>1, <2>2, <2>3, <3>1 DEF PInv, TypeOK, Connection
  <2>5. OneHolder' /\ NoneDisappears'
    BY <2>1 DEF PInv, OneHolder, NoneDisappears, Held, Connection
  <2> QED BY <2>4, <2>5 DEF PInv
<1>5. CASE UNCHANGED vars
  BY <1>5 DEF vars, PInv, TypeOK, OneHolder, NoneDisappears, Held, Connection
<1> QED BY <1>1, <1>2, <1>3, <1>4, <1>5, PollPInv DEF Next, Check

-----------------------------------------------------------------------------
(* The three properties of the pool, of every reachable state.             *)
THEOREM PInvHolds == Spec => []PInv
BY PInvInit, PInvNext, PTL DEF Spec

(* The state is well formed: a thread has a connection exactly while it    *)
(* checks or uses one (getFromPool, returnToPool).                         *)
THEOREM TypeCorrect == Spec => []TypeOK
<1>1. PInv => TypeOK
  BY DEF PInv
<1> QED BY <1>1, PInvHolds, PTL

(* No connection is used by two threads, or free while one uses it.        *)
THEOREM HoldersAreAlone == Spec => []OneHolder
<1>1. PInv => OneHolder
  BY DEF PInv
<1> QED BY <1>1, PInvHolds, PTL

(* Connections are lost by failed replacements only: each is free, held or *)
(* counted as lost.                                                        *)
THEOREM PoolIsWhole == Spec => []NoneDisappears
<1>1. PInv => NoneDisappears
  BY DEF PInv
<1> QED BY <1>1, PInvHolds, PTL

=============================================================================
