------------------------- MODULE ServerPool_proofs -------------------------
(***************************************************************************)
(* What holds of ServerPool for every set of servers and jobs and every    *)
(* number of updates: what the run pool checks, whatever fails, and that   *)
(* the head is no worker, and the factory remembers every worker, as long  *)
(* as no synchronization throws.                                           *)
(***************************************************************************)
EXTENDS ServerPool, FiniteSetTheorems, SequenceTheorems, TLAPS

(* The types, by the group of variables that change together.               *)
ConfigType == /\ config \in [head: Server, workers: [Server -> Configured]]
              /\ workerConfigs \in [Server -> Configured]
ProxiesType == proxies \in [Server -> Seq(Proxy)]
NumbersType ==
  /\ factory \in [Server -> Nat] /\ workers \in [Server -> Nat] /\ removed \in [Server -> Nat]
  /\ \A s \in Server : /\ factory[s] <= Len(proxies[s])
                        /\ workers[s] <= Len(proxies[s])
                        /\ removed[s] <= Len(proxies[s])
HeadType == /\ headServer \in [server: Server, number: Nat \ {0}]
            /\ headServer.number <= Len(proxies[headServer.server])
RestType == /\ update \in {"idle", "head", "workers"}
            /\ decommissioner \in BOOLEAN /\ threw \in BOOLEAN
            /\ flow \in [Job -> Flow]
            /\ updates \in 0..MaxUpdates

LEMMA TypeParts ==
  TypeOK <=> ConfigType /\ ProxiesType /\ NumbersType /\ HeadType /\ RestType
BY DEF TypeOK, ConfigType, ProxiesType, NumbersType, HeadType, RestType

(* What no step but an update of the workers changes: the proxies stay,     *)
(* under their numbers, and accept jobs or not as before.                   *)
Grown == /\ ProxiesType'
         /\ \A s \in Server : Len(proxies[s]) <= Len(proxies'[s])
AcceptingKept ==
  \A s \in Server : \A n \in 1..Len(proxies[s]) :
    proxies'[s][n].accepting = proxies[s][n].accepting

-----------------------------------------------------------------------------
(* A proxy of a sequence is replaced, or a new one is put at its end.       *)
LEMMA Replaced ==
  ASSUME NEW q \in Seq(Proxy), NEW n \in 1..Len(q), NEW p \in Proxy
  PROVE  /\ [q EXCEPT ![n] = p] \in Seq(Proxy)
         /\ Len([q EXCEPT ![n] = p]) = Len(q)
         /\ [q EXCEPT ![n] = p][n] = p
         /\ \A k \in 1..Len(q) : k # n => [q EXCEPT ![n] = p][k] = q[k]
BY ExceptSeq

LEMMA Appended ==
  ASSUME NEW q \in Seq(Proxy), NEW p \in Proxy
  PROVE  /\ Append(q, p) \in Seq(Proxy)
         /\ Len(Append(q, p)) = Len(q) + 1
         /\ Append(q, p)[Len(q) + 1] = p
         /\ \A k \in 1..Len(q) : Append(q, p)[k] = q[k]
<1>1. Len(q) \in Nat
  BY LenProperties
<1> QED BY <1>1, AppendProperties

LEMMA ProxyAt ==
  ASSUME ProxiesType, NEW s \in Server, NEW n \in 1..Len(proxies[s])
  PROVE  proxies[s] \in Seq(Proxy) /\ Len(proxies[s]) \in Nat /\ proxies[s][n] \in Proxy
BY ElementOfSeq, LenProperties DEF ProxiesType

LEMMA NewProxyType ==
  ASSUME NEW n \in Settings, NEW h \in BOOLEAN
  PROVE  NewProxy(n, h) \in Proxy /\ NewProxy(n, h).accepting
BY DEF NewProxy, Proxy

(* There are settings, as the head has some.                                *)
LEMMA HeadSettingsType ==
  ASSUME TypeOK PROVE HeadSettings \in Settings
<1>1. headServer.server \in Server /\ headServer.number \in 1..Len(proxies[headServer.server])
  BY LenProperties DEF TypeOK
<1>2. proxies[headServer.server][headServer.number] \in Proxy
  BY <1>1, ProxyAt, TypeParts
<1> QED BY <1>2 DEF Proxy, HeadSettings

LEMMA OneReplaced ==
  ASSUME ProxiesType, NEW s \in Server, NEW n \in 1..Len(proxies[s]), NEW p \in Proxy,
         p.accepting = proxies[s][n].accepting,
         proxies' = [proxies EXCEPT ![s] = [proxies[s] EXCEPT ![n] = p]]
  PROVE  Grown /\ AcceptingKept
<1>1. proxies[s] \in Seq(Proxy)
  BY ProxyAt
<1> DEFINE q == [proxies[s] EXCEPT ![n] = p]
<1>2. /\ q \in Seq(Proxy) /\ Len(q) = Len(proxies[s]) /\ q[n] = p
      /\ \A k \in 1..Len(proxies[s]) : k # n => q[k] = proxies[s][k]
  BY <1>1, Replaced
<1>3. \A t \in Server : proxies'[t] = IF t = s THEN q ELSE proxies[t]
  BY DEF ProxiesType
<1>4. proxies' \in [Server -> Seq(Proxy)]
  <2> HIDE DEF q
  <2> QED BY <1>2 DEF ProxiesType
<1>5. \A t \in Server : Len(proxies[t]) \in Nat
  BY LenProperties DEF ProxiesType
<1> HIDE DEF q
<1> QED BY <1>2, <1>3, <1>4, <1>5 DEF Grown, AcceptingKept, ProxiesType

LEMMA OneAppended ==
  ASSUME ProxiesType, NEW s \in Server, NEW p \in Proxy,
         proxies' = [proxies EXCEPT ![s] = Append(proxies[s], p)]
  PROVE  Grown /\ AcceptingKept /\ Len(proxies'[s]) = Len(proxies[s]) + 1
<1>1. /\ Append(proxies[s], p) \in Seq(Proxy)
      /\ Len(Append(proxies[s], p)) = Len(proxies[s]) + 1
      /\ \A k \in 1..Len(proxies[s]) : Append(proxies[s], p)[k] = proxies[s][k]
  BY Appended DEF ProxiesType
<1>2. \A t \in Server : proxies'[t] = IF t = s THEN Append(proxies[s], p) ELSE proxies[t]
  BY DEF ProxiesType
<1>3. proxies' \in [Server -> Seq(Proxy)]
  BY <1>1 DEF ProxiesType
<1>4. \A t \in Server : Len(proxies[t]) \in Nat
  BY LenProperties DEF ProxiesType
<1> QED BY <1>1, <1>2, <1>3, <1>4 DEF Grown, AcceptingKept, ProxiesType

-----------------------------------------------------------------------------
(* The steps of jobs replace proxies by ones that accept jobs as before.    *)
LEMMA ExecuteKeeps ==
  ASSUME TypeOK, NEW j \in Job, ExecuteJob(j) PROVE Grown /\ AcceptingKept
<1>1. PICK s \in Server :
        /\ workers[s] # 0
        /\ proxies' = [proxies EXCEPT ![s][workers[s]].running = @ \cup {j},
                                      ![s][workers[s]].watching = @ \cup {j}]
  BY DEF ExecuteJob
<1> DEFINE n == workers[s]
           p == [proxies[s][n] EXCEPT !.running = @ \cup {j}, !.watching = @ \cup {j}]
<1>2. n \in 1..Len(proxies[s])
  BY <1>1, LenProperties DEF TypeOK
<1>3. proxies[s][n] \in Proxy /\ proxies[s] \in Seq(Proxy)
  BY <1>2, ProxyAt, TypeParts
<1>4. p \in Proxy /\ p.accepting = proxies[s][n].accepting
  BY <1>3 DEF Proxy
<1>5. proxies' = [proxies EXCEPT ![s] = [proxies[s] EXCEPT ![n] = p]]
  <2>1. proxies \in [Server -> Seq(Proxy)] /\ proxies[s] \in [1..Len(proxies[s]) -> Proxy]
    BY <1>3, LenProperties DEF TypeOK
  <2> QED BY <1>1, <1>2, <1>3, <2>1 DEF Proxy
<1> HIDE DEF n, p
<1> QED BY <1>2, <1>4, <1>5, OneReplaced, TypeParts

LEMMA AbortKeeps ==
  ASSUME TypeOK, NEW j \in Job, AbortJob(j) PROVE Grown /\ AcceptingKept
<1> DEFINE s == flow[j].at
           n == workers[s]
           p == [proxies[s][n] EXCEPT !.aborting = @ \cup {j}]
<1>1. s \in Server /\ n \in 1..Len(proxies[s])
  <2>1. n # 0
    BY DEF AbortJob
  <2>2. s \in Server
    BY DEF TypeOK, Flow, AbortJob
  <2> QED BY <2>1, <2>2, LenProperties DEF TypeOK
<1>2. proxies[s][n] \in Proxy /\ proxies[s] \in Seq(Proxy)
  BY <1>1, ProxyAt, TypeParts
<1>3. p \in Proxy /\ p.accepting = proxies[s][n].accepting
  BY <1>2 DEF Proxy
<1>4. proxies' = [proxies EXCEPT ![s] = [proxies[s] EXCEPT ![n] = p]]
  BY DEF AbortJob
<1> HIDE DEF s, n, p
<1> QED BY <1>1, <1>3, <1>4, OneReplaced, TypeParts

LEMMA StatusKeeps ==
  ASSUME TypeOK, NEW j \in Job, JobStatusUpdate(j) PROVE Grown /\ AcceptingKept
<1> DEFINE drop(p) == IF j \notin p.watching THEN p
                      ELSE [p EXCEPT !.running = @ \ {j}, !.aborting = @ \ {j},
                                     !.watching = IF flow[j].phase = "ended" THEN @ \ {j} ELSE @]
<1>1. \A p \in Proxy : drop(p) \in Proxy /\ drop(p).accepting = p.accepting
  BY DEF Proxy
<1>2. proxies' = [s \in Server |-> [n \in 1..Len(proxies[s]) |-> drop(proxies[s][n])]]
  BY DEF JobStatusUpdate
<1> HIDE DEF drop
<1>3. ASSUME NEW s \in Server
      PROVE  /\ proxies'[s] \in Seq(Proxy) /\ Len(proxies'[s]) = Len(proxies[s])
             /\ Len(proxies[s]) \in Nat
             /\ \A n \in 1..Len(proxies[s]) : proxies'[s][n].accepting = proxies[s][n].accepting
  <2>1. Len(proxies[s]) \in Nat /\ \A n \in 1..Len(proxies[s]) : proxies[s][n] \in Proxy
    BY ProxyAt, LenProperties, TypeParts DEF ProxiesType
  <2>2. proxies'[s] \in [1..Len(proxies[s]) -> Proxy]
    BY <1>1, <1>2, <2>1
  <2>3. proxies'[s] \in Seq(Proxy)
    BY <2>1, <2>2, SeqDef
  <2>4. Len(proxies'[s]) = Len(proxies[s])
    BY <2>1, <2>2, <2>3, LenProperties
  <2> QED BY <1>1, <1>2, <2>1, <2>3, <2>4
<1>4. proxies' \in [Server -> Seq(Proxy)]
  BY <1>2, <1>3
<1> QED BY <1>3, <1>4 DEF Grown, AcceptingKept, ProxiesType

(* An update of the head makes a proxy at most, for the server without one. *)
LEMMA ChangeHeadKeeps ==
  ASSUME TypeOK, ChangeHead PROVE Grown /\ AcceptingKept
<1>1. CASE UNCHANGED proxies
  BY <1>1, LenProperties, TypeParts DEF Grown, AcceptingKept, ProxiesType
<1>2. CASE proxies' = [proxies EXCEPT ![config.head] =
                         Append(proxies[config.head], NewProxy(HeadSettings, TRUE))]
  BY <1>2, HeadSettingsType, NewProxyType, OneAppended, TypeParts DEF ConfigType
<1> QED BY <1>1, <1>2 DEF ChangeHead

-----------------------------------------------------------------------------
(* The classes of an update: the removed, added and changed servers.        *)
LEMMA Classes ==
  ASSUME TypeOK, NEW s \in Server
  PROVE  /\ s \in Gone => s \notin Added /\ s \notin Changed
         /\ s \in Added \cup Changed => config.workers[s] \in Settings
         /\ s \in Added => s \notin Changed
BY DEF TypeOK, Configured, Gone, Added, Changed

LEMMA NumbersIn ==
  ASSUME TypeOK, NEW s \in Server
  PROVE  /\ factory[s] \in Nat /\ workers[s] \in Nat /\ removed[s] \in Nat
         /\ factory[s] # 0 => factory[s] \in 1..Len(proxies[s])
         /\ workers[s] # 0 => workers[s] \in 1..Len(proxies[s])
         /\ removed[s] # 0 => removed[s] \in 1..Len(proxies[s])
         /\ Len(proxies[s]) \in Nat
BY LenProperties DEF TypeOK

(* The proxy of an added server is one that accepts jobs.                   *)
LEMMA AddedNew ==
  ASSUME TypeOK, NEW s \in Added, factory[s] = 0
  PROVE  added(s, FALSE) \in Proxy /\ added(s, FALSE).accepting
<1>1. s \in Server /\ config.workers[s] \in Settings
  BY Classes DEF Added
<1> QED BY <1>1, NewProxyType DEF added

LEMMA AddedCached ==
  ASSUME TypeOK, NEW T, NEW s \in Added, factory[s] # 0
  PROVE  added(s, s \in T) \in Proxy /\ added(s, s \in T).accepting
<1> DEFINE p == proxies[s][factory[s]]
           r == IF s \in T /\ removed[s] # 0 THEN synced(s, p) ELSE p
<1>1. s \in Server
  BY DEF Added
<1>2. p \in Proxy
  BY <1>1, ProxyAt, NumbersIn, TypeParts
<1>3. synced(s, p) \in Proxy
  BY <1>2 DEF synced, Proxy
<1>4. added(s, s \in T) = [r EXCEPT !.accepting = TRUE]
  BY DEF added
<1>5. r \in Proxy
  <2> HIDE DEF p
  <2> QED BY <1>2, <1>3
<1> HIDE DEF r
<1>6. [r EXCEPT !.accepting = TRUE] \in Proxy /\ [r EXCEPT !.accepting = TRUE].accepting
  BY <1>5 DEF Proxy
<1> QED BY <1>4, <1>6

(* What an update of the workers makes of the proxies of one server: the    *)
(* one the factory remembers stops if the server is removed, and accepts if *)
(* it is added; the others accept as before.                                *)
UpdatedProxies(A, s) ==
  /\ proxies'[s] \in Seq(Proxy)
  /\ Len(proxies[s]) <= Len(proxies'[s])
  /\ \A n \in 1..Len(proxies[s]) :
       \/ proxies'[s][n].accepting = proxies[s][n].accepting
       \/ s \in Gone /\ n = factory[s] /\ ~proxies'[s][n].accepting
       \/ s \in A /\ n = factory[s] /\ proxies'[s][n].accepting
  /\ s \in Gone /\ factory[s] # 0 => ~proxies'[s][factory[s]].accepting
  /\ s \in A => factory'[s] \in 1..Len(proxies'[s]) /\ proxies'[s][factory'[s]].accepting

LEMMA ReconfigureProxies ==
  ASSUME TypeOK, NEW A \in SUBSET Added, NEW T, NEW C \in SUBSET Changed,
         Reconfigure(A, T, C), NEW s \in Server
  PROVE  UpdatedProxies(A, s)
<1> DEFINE q == proxies[s]
           f == factory[s]
           w == workers[s]
           new == added(s, FALSE)
           old == added(s, s \in T)
<1>1. q \in Seq(Proxy) /\ Len(q) \in Nat
  BY LenProperties DEF TypeOK
<1>2. /\ f # 0 => f \in 1..Len(q) /\ q[f] \in Proxy
      /\ w # 0 => w \in 1..Len(q) /\ q[w] \in Proxy
  BY <1>1, NumbersIn, ElementOfSeq
<1>3. factory'[s] = IF s \in Gone \ StillProcessing THEN 0
                    ELSE IF s \in A /\ f = 0 THEN Len(q) + 1 ELSE f
  BY DEF Reconfigure
<1>4. proxies'[s] =
        CASE s \in Gone /\ f # 0 -> [q EXCEPT ![f].accepting = FALSE]
          [] s \in A /\ f = 0 -> Append(q, new)
          [] s \in A /\ f # 0 -> [q EXCEPT ![f] = old]
          [] s \in C /\ w # 0 -> [q EXCEPT ![w].settings = config.workers[s]]
          [] OTHER -> q
  BY DEF Reconfigure
<1>5. s \in Gone => s \notin A /\ s \notin C
  BY Classes
<1>6. s \in A => s \notin C /\ s \in Added
  BY Classes
<1>a. s \in A /\ f = 0 => new \in Proxy /\ new.accepting
  BY <1>6, AddedNew
<1>b. s \in A /\ f # 0 => old \in Proxy /\ old.accepting
  BY <1>6, AddedCached
<1> HIDE DEF q, f, w, new, old
<1>7. CASE s \in Gone /\ f # 0
  <2> DEFINE p == [q[f] EXCEPT !.accepting = FALSE]
  <2>1. proxies'[s] = [q EXCEPT ![f] = p]
    BY <1>4, <1>5, <1>7
  <2>2. p \in Proxy /\ ~p.accepting
    BY <1>2, <1>7 DEF Proxy
  <2> HIDE DEF p
  <2>3. /\ proxies'[s] \in Seq(Proxy) /\ Len(proxies'[s]) = Len(q) /\ proxies'[s][f] = p
        /\ \A k \in 1..Len(q) : k # f => proxies'[s][k] = q[k]
    BY <1>1, <1>2, <1>7, <2>1, <2>2, Replaced
  <2> QED BY <1>1, <1>5, <1>7, <2>2, <2>3 DEF UpdatedProxies, q, f
<1>8. CASE s \in A /\ f = 0
  <2>1. proxies'[s] = Append(q, new)
    BY <1>4, <1>5, <1>6, <1>8
  <2>2. new \in Proxy /\ new.accepting
    BY <1>a, <1>8
  <2>3. /\ proxies'[s] \in Seq(Proxy) /\ Len(proxies'[s]) = Len(q) + 1
        /\ proxies'[s][Len(q) + 1] = new
        /\ \A k \in 1..Len(q) : proxies'[s][k] = q[k]
    BY <1>1, <2>1, <2>2, Appended
  <2>4. factory'[s] = Len(q) + 1
    BY <1>3, <1>5, <1>8
  <2> QED BY <1>1, <1>5, <1>8, <2>2, <2>3, <2>4 DEF UpdatedProxies, q, f
<1>9. CASE s \in A /\ f # 0
  <2>1. proxies'[s] = [q EXCEPT ![f] = old]
    BY <1>4, <1>5, <1>6, <1>9
  <2>2. old \in Proxy /\ old.accepting
    BY <1>b, <1>9
  <2>3. /\ proxies'[s] \in Seq(Proxy) /\ Len(proxies'[s]) = Len(q) /\ proxies'[s][f] = old
        /\ \A k \in 1..Len(q) : k # f => proxies'[s][k] = q[k]
    BY <1>1, <1>2, <1>9, <2>1, <2>2, Replaced
  <2>4. factory'[s] = f
    BY <1>3, <1>5, <1>9
  <2> QED BY <1>1, <1>2, <1>5, <1>9, <2>2, <2>3, <2>4 DEF UpdatedProxies, q, f
<1>10. CASE s \in C /\ w # 0
  <2> DEFINE p == [q[w] EXCEPT !.settings = config.workers[s]]
  <2>1. proxies'[s] = [q EXCEPT ![w] = p] /\ s \notin Gone /\ s \notin A
    BY <1>4, <1>5, <1>6, <1>10
  <2>2. config.workers[s] \in Settings
    BY <1>10, Classes
  <2>3. p \in Proxy /\ p.accepting = q[w].accepting
    BY <1>2, <1>10, <2>2 DEF Proxy
  <2> HIDE DEF p
  <2>4. /\ proxies'[s] \in Seq(Proxy) /\ Len(proxies'[s]) = Len(q) /\ proxies'[s][w] = p
        /\ \A k \in 1..Len(q) : k # w => proxies'[s][k] = q[k]
    BY <1>1, <1>2, <1>10, <2>1, <2>3, Replaced
  <2> QED BY <1>1, <2>1, <2>3, <2>4 DEF UpdatedProxies, q
<1>11. CASE /\ ~(s \in Gone /\ f # 0) /\ s \notin A /\ ~(s \in C /\ w # 0)
  <2>1. proxies'[s] = q
    BY <1>4, <1>11
  <2> QED BY <1>1, <1>11, <2>1 DEF UpdatedProxies, q, f
<1> QED BY <1>7, <1>8, <1>9, <1>10, <1>11

(* What an update of the workers makes of the numbers of one server.        *)
UpdatedNumbers(A, s) ==
  /\ factory'[s] \in {0, factory[s], Len(proxies[s]) + 1}
  /\ factory'[s] = Len(proxies[s]) + 1 => s \in A \/ factory[s] = Len(proxies[s]) + 1
  /\ workers'[s] = IF s \in Gone THEN 0
                   ELSE IF s \in A /\ workers[s] = 0 THEN factory'[s] ELSE workers[s]
  /\ removed'[s] = IF s \in StillProcessing /\ removed[s] = 0 THEN factory[s]
                   ELSE IF s \in A THEN 0 ELSE removed[s]
  /\ s \in A => s \in Added /\ s \notin Gone
  /\ s \in A /\ factory[s] # 0 => factory'[s] = factory[s]
  /\ s \notin A /\ s \notin Gone => factory'[s] = factory[s]
  /\ s \in StillProcessing => s \in Gone /\ factory[s] # 0

LEMMA ReconfigureNumbers ==
  ASSUME TypeOK, NEW A \in SUBSET Added, NEW T, NEW C \in SUBSET Changed,
         Reconfigure(A, T, C), NEW s \in Server
  PROVE  UpdatedNumbers(A, s)
<1>1. factory'[s] = IF s \in Gone \ StillProcessing THEN 0
                    ELSE IF s \in A /\ factory[s] = 0 THEN Len(proxies[s]) + 1 ELSE factory[s]
  BY DEF Reconfigure
<1>2. workers'[s] = IF s \in Gone THEN 0
                    ELSE IF s \in A /\ workers[s] = 0 THEN factory'[s] ELSE workers[s]
  BY DEF Reconfigure
<1>3. removed'[s] = IF s \in StillProcessing /\ removed[s] = 0 THEN factory[s]
                    ELSE IF s \in A THEN 0 ELSE removed[s]
  BY DEF Reconfigure
<1>4. s \in A => s \in Added /\ s \notin Gone
  BY Classes
<1>5. s \in StillProcessing => s \in Gone /\ factory[s] # 0
  BY DEF StillProcessing
<1> QED BY <1>1, <1>2, <1>3, <1>4, <1>5 DEF UpdatedNumbers

(* The update of the workers, whether it ends or throws, for the servers A  *)
(* that it adds.                                                            *)
UpdateWorkers == SetWorkerConfigs \/ SetWorkerConfigsThrows
Updated(A) == \A s \in Server : UpdatedProxies(A, s) /\ UpdatedNumbers(A, s)

LEMMA ReconfigureTypes ==
  ASSUME TypeOK, NEW A \in SUBSET Added, NEW T, NEW C \in SUBSET Changed, Reconfigure(A, T, C)
  PROVE  Updated(A) /\ ProxiesType' /\ NumbersType'
<1>1. Updated(A)
  BY ReconfigureProxies, ReconfigureNumbers DEF Updated
<1>2. /\ factory' = [s \in Server |-> factory'[s]] /\ workers' = [s \in Server |-> workers'[s]]
      /\ removed' = [s \in Server |-> removed'[s]]
  BY DEF Reconfigure
<1>3. proxies' = [s \in Server |-> proxies'[s]]
  BY DEF Reconfigure
<1>4. ProxiesType'
  BY <1>1, <1>3 DEF Updated, UpdatedProxies, ProxiesType
<1>5. ASSUME NEW s \in Server
      PROVE  /\ factory'[s] \in 0..Len(proxies'[s])
             /\ workers'[s] \in 0..Len(proxies'[s])
             /\ removed'[s] \in 0..Len(proxies'[s])
  <2>1. Len(proxies[s]) \in Nat /\ Len(proxies'[s]) \in Nat /\ Len(proxies[s]) <= Len(proxies'[s])
    BY <1>1, NumbersIn, LenProperties DEF Updated, UpdatedProxies
  <2>2. /\ factory[s] \in 0..Len(proxies[s]) /\ workers[s] \in 0..Len(proxies[s])
        /\ removed[s] \in 0..Len(proxies[s])
    BY <2>1 DEF TypeOK
  <2>3. UpdatedNumbers(A, s) /\ (s \in A => factory'[s] \in 1..Len(proxies'[s]))
    BY <1>1 DEF Updated, UpdatedProxies
  <2>4. factory'[s] \in 0..Len(proxies'[s])
    BY <2>1, <2>2, <2>3 DEF UpdatedNumbers
  <2> QED BY <2>1, <2>2, <2>3, <2>4 DEF UpdatedNumbers
<1>6. NumbersType'
  <2>1. \A s \in Server : Len(proxies'[s]) \in Nat
    BY <1>4, LenProperties DEF ProxiesType
  <2>2. \A s \in Server : factory'[s] \in Nat /\ workers'[s] \in Nat /\ removed'[s] \in Nat
    BY <1>5, <2>1
  <2> QED BY <1>2, <1>5, <2>2 DEF NumbersType
<1> QED BY <1>1, <1>4, <1>6

LEMMA WorkersUpdated ==
  ASSUME TypeOK, UpdateWorkers
  PROVE  /\ \E A \in SUBSET Added : Updated(A) /\ (SetWorkerConfigs => A = Added)
         /\ ProxiesType' /\ NumbersType'
<1>1. CASE SetWorkerConfigs
  <2>1. PICK T \in SUBSET {s \in Added : ComesBack(s)} : Reconfigure(Added, T, Changed)
    BY <1>1 DEF SetWorkerConfigs
  <2> QED BY <2>1, ReconfigureTypes
<1>2. CASE SetWorkerConfigsThrows /\ ~SetWorkerConfigs
  <2>1. PICK A \in SUBSET Added : \E T : Reconfigure(A, T, {})
    BY <1>2 DEF SetWorkerConfigsThrows
  <2>2. Updated(A) /\ ProxiesType' /\ NumbersType'
    BY <2>1, ReconfigureTypes
  <2> QED BY <1>2, <2>1, <2>2
<1> QED BY <1>1, <1>2 DEF UpdateWorkers

(* The other steps.                                                         *)
LEMMA OthersKeep ==
  ASSUME TypeOK, [Next]_vars, ~UpdateWorkers PROVE Grown /\ AcceptingKept
<1>1. CASE UNCHANGED proxies
  BY <1>1, LenProperties, TypeParts DEF Grown, AcceptingKept, ProxiesType
<1>2. CASE ChangeHead
  BY <1>2, ChangeHeadKeeps
<1>3. ASSUME NEW j \in Job, ExecuteJob(j) \/ AbortJob(j) \/ JobStatusUpdate(j)
      PROVE  Grown /\ AcceptingKept
  BY <1>3, ExecuteKeeps, AbortKeeps, StatusKeeps
<1> QED BY <1>1, <1>2, <1>3
        DEF Next, ConfigChanged, UpdateWorkers, Reload, DecommissionServers, FlowGoesOn, vars

-----------------------------------------------------------------------------
(* The types are kept.                                                      *)
LEMMA ConfigNext == TypeOK /\ [Next]_vars => ConfigType'
<1> SUFFICES ASSUME TypeOK, [Next]_vars PROVE ConfigType'
  OBVIOUS
<1>1. ConfigType
  BY TypeParts
<1>2. CASE Reload
  BY <1>1, <1>2 DEF Reload, ConfigType, poolVars
<1>3. CASE SetWorkerConfigs
  BY <1>1, <1>3 DEF SetWorkerConfigs, ConfigType
<1>4. CASE UNCHANGED <<config, workerConfigs>>
  BY <1>1, <1>4 DEF ConfigType
<1> QED BY <1>2, <1>3, <1>4
        DEF Next, ConfigChanged, ChangeHead, SetWorkerConfigsThrows, DecommissionServers,
            ExecuteJob, FlowGoesOn, AbortJob, JobStatusUpdate, poolVars, vars

LEMMA RestNext == TypeOK /\ [Next]_vars => RestType'
<1> SUFFICES ASSUME TypeOK, [Next]_vars PROVE RestType'
  OBVIOUS
<1>1. RestType
  BY TypeParts
<1>2. CASE Reload
  BY <1>1, <1>2, UpdatesAssumption DEF Reload, RestType
<1>3. CASE ConfigChanged
  BY <1>1, <1>3
  DEF ConfigChanged, ChangeHead, SetWorkerConfigs, SetWorkerConfigsThrows, RestType
<1>4. CASE DecommissionServers
  BY <1>1, <1>4 DEF DecommissionServers, RestType
<1>5. ASSUME NEW j \in Job, ExecuteJob(j) \/ FlowGoesOn(j) PROVE RestType'
  <2>1. flow' \in [Job -> Flow]
    <3>1. CASE ExecuteJob(j)
      BY <1>1, <3>1 DEF ExecuteJob, RestType, Flow
    <3>2. CASE FlowGoesOn(j)
      BY <1>1, <3>2 DEF FlowGoesOn, RestType, Flow
    <3> QED BY <1>5, <3>1, <3>2
  <2> QED BY <1>1, <1>5, <2>1 DEF ExecuteJob, FlowGoesOn, RestType
<1>6. CASE UNCHANGED <<update, decommissioner, threw, flow, updates>>
  BY <1>1, <1>6 DEF RestType
<1> QED BY <1>2, <1>3, <1>4, <1>5, <1>6 DEF Next, AbortJob, JobStatusUpdate, vars

(* The numbers stay in bounds, as the proxies are never forgotten.          *)
LEMMA NumbersNext == TypeOK /\ [Next]_vars => ProxiesType' /\ NumbersType'
<1> SUFFICES ASSUME TypeOK, [Next]_vars PROVE ProxiesType' /\ NumbersType'
  OBVIOUS
<1>1. CASE UpdateWorkers
  BY <1>1, WorkersUpdated
<1>2. ASSUME ~UpdateWorkers PROVE ProxiesType'
  BY <1>2, OthersKeep DEF Grown
<1>3. ASSUME ~UpdateWorkers PROVE NumbersType'
  <2>1. ProxiesType /\ ProxiesType' /\ NumbersType
    BY <1>2, <1>3, TypeParts
  <2>2. \A s \in Server : /\ Len(proxies[s]) \in Nat /\ Len(proxies'[s]) \in Nat
                          /\ Len(proxies[s]) <= Len(proxies'[s])
    BY <1>3, <2>1, OthersKeep, LenProperties DEF Grown, ProxiesType
  <2>3. CASE UNCHANGED <<factory, workers, removed>>
    BY <2>1, <2>2, <2>3 DEF NumbersType
  <2>4. CASE DecommissionServers
    <3>1. PICK s \in Server : /\ factory' = [factory EXCEPT ![s] = 0]
                              /\ removed' = [removed EXCEPT ![s] = 0]
                              /\ workers' = workers
      BY <2>4 DEF DecommissionServers
    <3>2. factory' \in [Server -> Nat] /\ removed' \in [Server -> Nat]
      BY <2>1, <3>1 DEF NumbersType
    <3>3. \A t \in Server : factory'[t] \in {0, factory[t]} /\ removed'[t] \in {0, removed[t]}
      BY <2>1, <3>1 DEF NumbersType
    <3>4. workers' \in [Server -> Nat]
      BY <2>1, <3>1 DEF NumbersType
    <3>5. ASSUME NEW t \in Server
          PROVE  /\ factory'[t] <= Len(proxies'[t])
                 /\ workers'[t] <= Len(proxies'[t])
                 /\ removed'[t] <= Len(proxies'[t])
      <4>1. /\ factory[t] \in Nat /\ factory[t] <= Len(proxies[t])
            /\ workers[t] \in Nat /\ workers[t] <= Len(proxies[t])
            /\ removed[t] \in Nat /\ removed[t] <= Len(proxies[t])
        BY <2>1 DEF NumbersType
      <4>2. /\ Len(proxies[t]) \in Nat /\ Len(proxies'[t]) \in Nat
            /\ Len(proxies[t]) <= Len(proxies'[t])
        BY <2>2
      <4>3. workers'[t] = workers[t]
        BY <3>1
      <4> QED BY <3>3, <4>1, <4>2, <4>3
    <3> QED BY <3>2, <3>4, <3>5 DEF NumbersType
  <2>5. CASE ChangeHead /\ factory' # factory
    <3> DEFINE h == config.head
               o == headServer.server
               n == IF factory[h] # 0 THEN factory[h] ELSE Len(proxies'[h])
    <3>1. /\ headServer' = [server |-> h, number |-> n]
          /\ factory' = [factory EXCEPT ![h] = headServer'.number, ![o] = 0]
          /\ UNCHANGED <<workers, removed>>
      BY <2>5 DEF ChangeHead
    <3>2. h \in Server /\ o \in Server
      BY DEF TypeOK
    <3>3. n \in 0..Len(proxies'[h])
      <4> HIDE DEF h
      <4> QED BY <2>1, <2>2, <3>2 DEF NumbersType
    <3> HIDE DEF h, n, o
    <3>4. factory' = [factory EXCEPT ![h] = n, ![o] = 0]
      BY <3>1
    <3>5. factory' \in [Server -> Nat]
      <4>1. n \in Nat /\ factory \in [Server -> Nat]
        BY <2>1, <2>2, <3>2, <3>3 DEF NumbersType
      <4> QED BY <3>4, <4>1
    <3>6. ASSUME NEW s \in Server PROVE factory'[s] \in 0..Len(proxies'[s])
      <4>1. factory'[s] \in {0, n, factory[s]} /\ (factory'[s] = n => s = h \/ n = 0 \/ n = factory[s])
        BY <2>1, <3>2, <3>4 DEF NumbersType
      <4>2. factory[s] \in 0..Len(proxies[s])
        BY <2>1 DEF NumbersType
      <4> QED BY <2>2, <3>3, <4>1, <4>2
    <3>7. \A s \in Server : factory'[s] <= Len(proxies'[s])
      BY <2>2, <3>5, <3>6
    <3>8. /\ workers' \in [Server -> Nat] /\ removed' \in [Server -> Nat]
          /\ \A s \in Server : workers'[s] <= Len(proxies'[s]) /\ removed'[s] <= Len(proxies'[s])
      <4>1. workers' = workers /\ removed' = removed
        BY <3>1
      <4> QED BY <2>1, <2>2, <4>1 DEF NumbersType
    <3> QED BY <3>5, <3>7, <3>8 DEF NumbersType
  <2> QED BY <1>3, <2>3, <2>4, <2>5
          DEF Next, ConfigChanged, ChangeHead, UpdateWorkers, Reload, ExecuteJob,
              FlowGoesOn, AbortJob, JobStatusUpdate, poolVars, vars
<1> QED BY <1>1, <1>2, <1>3

LEMMA HeadNext == TypeOK /\ [Next]_vars => HeadType'
<1> SUFFICES ASSUME TypeOK, [Next]_vars PROVE HeadType'
  OBVIOUS
<1>1. \A s \in Server : /\ Len(proxies[s]) \in Nat /\ Len(proxies'[s]) \in Nat
                        /\ Len(proxies[s]) <= Len(proxies'[s])
  <2>1. ProxiesType /\ ProxiesType'
    BY NumbersNext, TypeParts
  <2>2. CASE UpdateWorkers
    BY <2>1, <2>2, WorkersUpdated, LenProperties DEF Updated, UpdatedProxies, ProxiesType
  <2>3. CASE ~UpdateWorkers
    BY <2>1, <2>3, OthersKeep, LenProperties DEF Grown, ProxiesType
  <2> QED BY <2>2, <2>3
<1>2. HeadType
  BY TypeParts
<1>3. CASE headServer' = headServer
  BY <1>1, <1>2, <1>3 DEF HeadType
<1>4. CASE ChangeHead /\ headServer' # headServer
  <2> DEFINE h == config.head
             n == IF factory[h] # 0 THEN factory[h] ELSE Len(proxies'[h])
  <2>1. headServer' = [server |-> h, number |-> n]
    BY <1>4 DEF ChangeHead
  <2>2. h \in Server /\ factory[h] \in 0..Len(proxies[h]) /\ Len(proxies[h]) \in Nat
    BY <1>1 DEF TypeOK
  <2>3. factory[h] = 0 => Len(proxies'[h]) = Len(proxies[h]) + 1
    BY <1>4, <2>2, HeadSettingsType, NewProxyType, OneAppended, TypeParts DEF ChangeHead
  <2>4. n \in Nat \ {0} /\ n <= Len(proxies'[h])
    BY <1>1, <2>2, <2>3
  <2> HIDE DEF h, n
  <2> QED BY <2>1, <2>2, <2>4 DEF HeadType
<1> QED BY <1>3, <1>4
        DEF Next, ConfigChanged, SetWorkerConfigs, SetWorkerConfigsThrows, DecommissionServers,
            Reload, ExecuteJob, FlowGoesOn, AbortJob, JobStatusUpdate, poolVars, vars

LEMMA TypeNext == TypeOK /\ [Next]_vars => TypeOK'
<1> SUFFICES ASSUME TypeOK, [Next]_vars PROVE TypeOK'
  OBVIOUS
<1>1. ConfigType' /\ ProxiesType' /\ NumbersType' /\ HeadType' /\ RestType'
  BY ConfigNext, NumbersNext, HeadNext, RestNext
<1> QED BY <1>1 DEF TypeOK, ConfigType, ProxiesType, NumbersType, HeadType, RestType

LEMMA Singleton ==
  ASSUME NEW p \in Proxy PROVE <<p>> \in Seq(Proxy) /\ Len(<<p>>) = 1
OBVIOUS

LEMMA TypeInit == Init => TypeOK
<1> SUFFICES ASSUME Init PROVE TypeOK
  OBVIOUS
<1>1. PICK s0 \in Server : config.workers[s0] \in Settings
  BY DEF Init, Configured
<1>2. HeadSettings \in Settings
  BY <1>1 DEF HeadSettings
<1>3. ASSUME NEW s \in Server
      PROVE  /\ proxies[s] \in Seq(Proxy) /\ Len(proxies[s]) \in {0, 1}
             /\ s = config.head \/ config.workers[s] # 0 => Len(proxies[s]) = 1
  <2>1. CASE s = config.head
    <3>1. NewProxy(HeadSettings, TRUE) \in Proxy
      BY <1>2, NewProxyType
    <3>2. proxies[s] = <<NewProxy(HeadSettings, TRUE)>>
      BY <2>1 DEF Init
    <3> QED BY <3>1, <3>2, Singleton
  <2>2. CASE s # config.head /\ config.workers[s] # 0
    <3>1. NewProxy(config.workers[s], FALSE) \in Proxy
      BY <2>2, NewProxyType DEF Init, Configured
    <3>2. proxies[s] = <<NewProxy(config.workers[s], FALSE)>>
      BY <2>2 DEF Init
    <3> QED BY <3>1, <3>2, Singleton
  <2>3. CASE s # config.head /\ config.workers[s] = 0
    <3>1. proxies[s] = <<>>
      BY <2>3 DEF Init
    <3> QED BY <2>3, <3>1, EmptySeq
  <2> QED BY <2>1, <2>2, <2>3
<1>4. ProxiesType
  <2>1. proxies = [s \in Server |-> proxies[s]]
    BY DEF Init
  <2> QED BY <1>3, <2>1 DEF ProxiesType
<1>5. NumbersType
  <2>1. /\ factory = [s \in Server |-> Len(proxies[s])]
        /\ workers = [s \in Server |-> IF config.workers[s] # 0 THEN 1 ELSE 0]
        /\ removed = [s \in Server |-> 0]
    BY DEF Init
  <2> QED BY <1>3, <2>1 DEF NumbersType
<1>6. ConfigType
  BY DEF Init, ConfigType
<1>7. RestType
  <2>1. flow \in [Job -> Flow]
    BY DEF Init, Flow
  <2>2. decommissioner \in BOOLEAN /\ threw \in BOOLEAN
    BY Zenon DEF Init
  <2>3. update \in {"idle", "head", "workers"} /\ updates \in 0..MaxUpdates
    BY UpdatesAssumption DEF Init
  <2> QED BY <2>1, <2>2, <2>3 DEF RestType
<1>8. HeadType
  BY <1>3 DEF Init, HeadType
<1> QED BY <1>4, <1>5, <1>6, <1>7, <1>8, TypeParts

-----------------------------------------------------------------------------
(* What holds whatever fails.  Neither conjunct is preserved alone: a proxy *)
(* that waits to be decommissioned must not have a worker's number when its *)
(* server is added again.                                                   *)
GInv == TypeOK /\ WorkerAccepts /\ RemovedAcceptsNone

LEMMA GInvInit == Init => GInv
<1> SUFFICES ASSUME Init PROVE WorkerAccepts /\ RemovedAcceptsNone
  BY TypeInit DEF GInv
<1>1. ASSUME NEW s \in Server, workers[s] # 0 PROVE proxies[s][workers[s]].accepting
  <2>1. config.workers[s] # 0 /\ s # config.head /\ workers[s] = 1
    BY <1>1 DEF Init
  <2>2. proxies[s] = <<NewProxy(config.workers[s], FALSE)>>
    BY <2>1 DEF Init
  <2> QED BY <2>1, <2>2 DEF NewProxy
<1>2. \A s \in Server : removed[s] = 0
  BY DEF Init
<1> QED BY <1>1, <1>2 DEF WorkerAccepts, RemovedAcceptsNone

(* An update stops the proxy of a removed server only, which is no worker   *)
(* any more, and what it makes a worker accepts.                            *)
LEMMA UpdateKeepsGInv ==
  ASSUME GInv, NEW A, Updated(A), NEW s \in Server
  PROVE  /\ workers'[s] # 0 => proxies'[s][workers'[s]].accepting
         /\ removed'[s] # 0 => workers'[s] = 0 /\ ~proxies'[s][removed'[s]].accepting
<1>1. UpdatedProxies(A, s) /\ UpdatedNumbers(A, s)
  BY DEF Updated
<1>2. /\ workers[s] # 0 => workers[s] \in 1..Len(proxies[s]) /\ proxies[s][workers[s]].accepting
      /\ removed[s] # 0 => /\ removed[s] \in 1..Len(proxies[s])
                           /\ workers[s] = 0 /\ ~proxies[s][removed[s]].accepting
  BY NumbersIn DEF GInv, WorkerAccepts, RemovedAcceptsNone
<1>3. ASSUME workers'[s] # 0 PROVE proxies'[s][workers'[s]].accepting
  <2>1. s \notin Gone
    BY <1>1, <1>3 DEF UpdatedNumbers
  <2>2. CASE s \in A /\ workers[s] = 0
    BY <1>1, <2>1, <2>2 DEF UpdatedProxies, UpdatedNumbers
  <2>3. CASE ~(s \in A /\ workers[s] = 0)
    <3>1. workers'[s] = workers[s]
      BY <1>1, <2>1, <2>3 DEF UpdatedNumbers
    <3>2. workers[s] \in 1..Len(proxies[s]) /\ proxies[s][workers[s]].accepting
      BY <1>2, <1>3, <3>1
    <3> QED BY <1>1, <2>1, <3>1, <3>2 DEF UpdatedProxies
  <2> QED BY <2>2, <2>3
<1>4. ASSUME removed'[s] # 0 PROVE workers'[s] = 0 /\ ~proxies'[s][removed'[s]].accepting
  <2>1. CASE s \in StillProcessing /\ removed[s] = 0
    BY <1>1, <2>1 DEF UpdatedProxies, UpdatedNumbers
  <2>2. CASE ~(s \in StillProcessing /\ removed[s] = 0)
    <3>1. removed'[s] = removed[s] /\ s \notin A
      BY <1>1, <1>4, <2>2 DEF UpdatedNumbers
    <3>2. removed[s] \in 1..Len(proxies[s]) /\ workers[s] = 0 /\ ~proxies[s][removed[s]].accepting
      BY <1>2, <1>4, <3>1
    <3>3. workers'[s] = 0
      BY <1>1, <3>1, <3>2 DEF UpdatedNumbers
    <3> QED BY <1>1, <3>1, <3>2, <3>3 DEF UpdatedProxies
  <2> QED BY <2>1, <2>2
<1> QED BY <1>3, <1>4

(* The other steps change no worker and forget removed proxies only.        *)
LEMMA OthersKeepNumbers ==
  ASSUME TypeOK, [Next]_vars, ~UpdateWorkers, NEW s \in Server
  PROVE  workers'[s] = workers[s] /\ removed'[s] \in {0, removed[s]}
<1>1. CASE DecommissionServers
  BY <1>1 DEF DecommissionServers, TypeOK
<1>2. CASE UNCHANGED <<workers, removed>>
  BY <1>2
<1> QED BY <1>1, <1>2
        DEF Next, ConfigChanged, UpdateWorkers, ChangeHead, Reload, ExecuteJob, FlowGoesOn,
            AbortJob, JobStatusUpdate, poolVars, vars

LEMMA GInvNext == GInv /\ [Next]_vars => GInv'
<1> SUFFICES ASSUME GInv, [Next]_vars PROVE GInv'
  OBVIOUS
<1>1. TypeOK'
  BY TypeNext DEF GInv
<1>2. ASSUME NEW s \in Server
      PROVE  /\ workers'[s] # 0 => proxies'[s][workers'[s]].accepting
             /\ removed'[s] # 0 => workers'[s] = 0 /\ ~proxies'[s][removed'[s]].accepting
  <2>1. CASE UpdateWorkers
    <3>1. PICK A \in SUBSET Added : Updated(A)
      BY <2>1, WorkersUpdated DEF GInv
    <3> QED BY <3>1, UpdateKeepsGInv
  <2>2. CASE ~UpdateWorkers
    <3>1. AcceptingKept /\ workers'[s] = workers[s] /\ removed'[s] \in {0, removed[s]}
      BY <2>2, OthersKeep, OthersKeepNumbers DEF GInv
    <3>2. /\ workers[s] # 0 => workers[s] \in 1..Len(proxies[s]) /\ proxies[s][workers[s]].accepting
          /\ removed[s] # 0 => /\ removed[s] \in 1..Len(proxies[s])
                               /\ workers[s] = 0 /\ ~proxies[s][removed[s]].accepting
      BY NumbersIn DEF GInv, WorkerAccepts, RemovedAcceptsNone
    <3> QED BY <3>1, <3>2 DEF AcceptingKept
  <2> QED BY <2>1, <2>2
<1> QED BY <1>1, <1>2 DEF GInv, WorkerAccepts, RemovedAcceptsNone

(* A removed proxy that is busy is dropped by an update that adds its       *)
(* server only, which has no worker then and gets the one of the factory.   *)
busyComesBack(s) ==
  removed[s] # 0 /\ removed[s] = factory[s]
    /\ removed'[s] # removed[s] /\ ~isIdle(proxies[s][removed[s]])
  => workers'[s] = removed[s]

LEMMA BusyNext ==
  ASSUME GInv, [Next]_vars, NEW s \in Server PROVE busyComesBack(s)
<1> SUFFICES ASSUME removed[s] # 0, removed[s] = factory[s], removed'[s] # removed[s],
                    ~isIdle(proxies[s][removed[s]])
             PROVE  workers'[s] = removed[s]
  BY DEF busyComesBack
<1>1. CASE UpdateWorkers
  <2>1. PICK A \in SUBSET Added : Updated(A)
    BY <1>1, WorkersUpdated DEF GInv
  <2>2. UpdatedNumbers(A, s) /\ workers[s] = 0
    BY <2>1 DEF Updated, GInv, RemovedAcceptsNone
  <2> QED BY <2>2 DEF UpdatedNumbers
<1>2. CASE DecommissionServers
  BY <1>2 DEF DecommissionServers, GInv, TypeOK
<1>3. CASE UNCHANGED removed
  BY <1>3
<1> QED BY <1>1, <1>2, <1>3
        DEF Next, ConfigChanged, UpdateWorkers, ChangeHead, Reload, ExecuteJob, FlowGoesOn,
            AbortJob, JobStatusUpdate, poolVars, vars

(* Whatever fails, every variable keeps its type: the numbers of the        *)
(* factory, the workers and the removed workers name proxies.               *)
THEOREM GInvHolds == Spec => []GInv
BY GInvInit, GInvNext, PTL DEF Spec

(* The factory, the workers, the removed workers and the head name proxies  *)
(* that were made, whatever fails and for any number of updates.            *)
THEOREM TypeCorrect == Spec => []TypeOK
BY GInvHolds, PTL DEF GInv

(* No update leaves a worker that does not accept jobs, whatever fails.     *)
THEOREM WorkersAccept == Spec => []WorkerAccepts
BY GInvHolds, PTL DEF GInv

(* A server that waits to be decommissioned has no worker, and its proxy    *)
(* gets no more jobs, whatever fails.                                       *)
THEOREM RemovedAreQuiet == Spec => []RemovedAcceptsNone
BY GInvHolds, PTL DEF GInv

(* A removed proxy that is busy is dropped only to be a worker again.       *)
THEOREM BusyProxiesComeBack == Spec => BusyComesBack
<1>1. GInv /\ [Next]_vars => [\A s \in Server : busyComesBack(s)]_vars
  BY BusyNext
<1>2. [\A s \in Server : busyComesBack(s)]_vars =>
      [\A s \in Server : removed[s] # 0 /\ removed[s] = factory[s]
                          /\ removed'[s] # removed[s] /\ ~isIdle(proxies[s][removed[s]])
         => workers'[s] = removed[s]]_vars
  BY DEF busyComesBack
<1> QED BY <1>1, <1>2, GInvHolds, PTL DEF Spec, BusyComesBack

-----------------------------------------------------------------------------
(* What holds as long as no synchronization throws.                         *)

(* The scheduler knows the configuration of each worker, and what the file  *)
(* says of the head has reached the service when the workers are looked at. *)
WorkerIsConfigured == \A s \in Server : workers[s] # 0 => workerConfigs[s] # 0
HeadIsConfigured ==
  /\ config.workers[config.head] = 0
  /\ update = "workers" => headServer.server = config.head

DInv == GInv /\ WorkerIsRemembered /\ WorkerIsConfigured /\ HeadIsConfigured /\ HeadIsApart

LEMMA DInvInit == Init => DInv
<1> SUFFICES ASSUME Init PROVE DInv
  OBVIOUS
<1>1. /\ factory = [s \in Server |-> Len(proxies[s])]
      /\ workers = [s \in Server |-> IF config.workers[s] # 0 THEN 1 ELSE 0]
      /\ workerConfigs = config.workers /\ config.workers[config.head] = 0
      /\ headServer.server = config.head /\ update = "idle" /\ config.head \in Server
  BY DEF Init
<1>2. ASSUME NEW s \in Server, workers[s] # 0 PROVE factory[s] = workers[s]
  <2>1. config.workers[s] # 0 /\ s # config.head /\ workers[s] = 1
    BY <1>1, <1>2
  <2>2. proxies[s] = <<NewProxy(config.workers[s], FALSE)>>
    BY <2>1 DEF Init
  <2>3. factory[s] = Len(<<NewProxy(config.workers[s], FALSE)>>)
    BY <1>1, <2>2
  <2> QED BY <2>1, <2>3
<1> QED BY <1>1, <1>2, GInvInit
        DEF DInv, WorkerIsRemembered, WorkerIsConfigured, HeadIsConfigured, HeadIsApart

(* An update makes the number that the factory has a worker, of a server    *)
(* that is in the new configuration; the head is not.                       *)
LEMMA UpdateKeepsDInv == DInv /\ SetWorkerConfigs => DInv' \/ ~GInv'
<1> SUFFICES ASSUME DInv, SetWorkerConfigs, GInv' PROVE DInv'
  OBVIOUS
<1>1. Updated(Added)
  BY WorkersUpdated DEF UpdateWorkers, DInv, GInv
<1>2. /\ update = "workers" /\ update' = "idle" /\ workerConfigs' = config.workers
      /\ config' = config /\ headServer' = headServer
  BY DEF SetWorkerConfigs
<1>3. ASSUME NEW s \in Server, workers'[s] # 0
      PROVE  factory'[s] = workers'[s] /\ config.workers[s] # 0
  <2>1. UpdatedNumbers(Added, s) /\ s \notin Gone
    BY <1>1, <1>3 DEF Updated, UpdatedNumbers
  <2>2. CASE s \in Added
    <3>1. workers[s] = 0
      BY <2>2 DEF Added, DInv, WorkerIsConfigured
    <3> QED BY <2>1, <2>2, <3>1 DEF UpdatedNumbers, Added
  <2>3. CASE s \notin Added
    <3>1. workers'[s] = workers[s] /\ workers[s] # 0
      BY <1>3, <2>1, <2>3 DEF UpdatedNumbers
    <3>2. factory[s] = workers[s] /\ workerConfigs[s] # 0
      BY <3>1 DEF DInv, WorkerIsRemembered, WorkerIsConfigured
    <3>3. config.workers[s] # 0
      BY <2>1, <3>2 DEF Gone
    <3>4. factory'[s] = factory[s]
      BY <2>1, <2>3, <3>1 DEF UpdatedNumbers
    <3> QED BY <3>1, <3>2, <3>3, <3>4
  <2> QED BY <2>2, <2>3
<1>4. WorkerIsRemembered' /\ WorkerIsConfigured'
  BY <1>2, <1>3 DEF WorkerIsRemembered, WorkerIsConfigured
<1>5. HeadIsConfigured'
  BY <1>2 DEF DInv, HeadIsConfigured
<1>6. HeadIsApart'
  <2>1. headServer.server \in Server /\ config.workers[headServer.server] = 0
    BY <1>2 DEF DInv, GInv, TypeOK, HeadIsConfigured
  <2> QED BY <1>2, <1>3, <2>1 DEF HeadIsApart
<1> QED BY <1>4, <1>5, <1>6 DEF DInv

(* The other steps change the head, which is no worker before and after, or *)
(* forget the proxy of a server without worker.                             *)
LEMMA DInvNext == ~threw' /\ DInv /\ [Next]_vars => DInv'
<1> SUFFICES ASSUME ~threw', DInv, [Next]_vars PROVE DInv'
  OBVIOUS
<1>1. GInv'
  BY GInvNext DEF DInv
<1>2. CASE SetWorkerConfigs
  BY <1>1, <1>2, UpdateKeepsDInv
<1>3. CASE ~SetWorkerConfigs
  <2>1. ~UpdateWorkers
    BY <1>3 DEF UpdateWorkers, SetWorkerConfigsThrows
  <2>2. \A s \in Server : workers'[s] = workers[s]
    BY <2>1, OthersKeepNumbers DEF DInv, GInv
  <2>3. CASE Reload
    <3>1. /\ update = "idle" /\ update' = "head" /\ headServer' = headServer
          /\ factory' = factory /\ workerConfigs' = workerConfigs
      BY <2>3 DEF Reload, poolVars
    <3>2. config'.workers[config'.head] = 0
      BY <2>3 DEF Reload
    <3>3. headServer.server \in Server
      BY DEF DInv, GInv, TypeOK
    <3> QED BY <1>1, <2>2, <3>1, <3>2, <3>3
            DEF DInv, WorkerIsRemembered, WorkerIsConfigured, HeadIsConfigured, HeadIsApart
  <2>4. CASE ChangeHead
    <3> DEFINE h == config.head
               o == headServer.server
    <3>1. /\ update = "head" /\ config' = config /\ workerConfigs' = workerConfigs
          /\ h \in Server /\ o \in Server
      BY <2>4 DEF ChangeHead, DInv, GInv, TypeOK
    <3>2. workers[o] = 0
      BY <3>1 DEF DInv, HeadIsApart
    <3>a. CASE UNCHANGED <<factory, headServer>>
      <4>1. update' = "workers" => o = h
        <5>1. \/ h = o
              \/ update' = "idle"
              \/ \E n : headServer' = [server |-> h, number |-> n]
          BY <2>4 DEF ChangeHead
        <5> QED BY <3>a, <5>1
      <4> QED BY <1>1, <2>2, <3>1, <3>2, <3>a, <4>1
              DEF DInv, WorkerIsRemembered, WorkerIsConfigured, HeadIsConfigured, HeadIsApart
    <3>b. CASE ~UNCHANGED <<factory, headServer>>
      <4> DEFINE n == IF factory[h] # 0 THEN factory[h] ELSE Len(proxies'[h])
      <4>1. /\ headServer' = [server |-> h, number |-> n] /\ update' = "workers"
            /\ factory' = [factory EXCEPT ![h] = headServer'.number, ![o] = 0]
        BY <2>4, <3>b DEF ChangeHead
      <4>2. headServer'.server = h /\ factory' = [factory EXCEPT ![h] = n, ![o] = 0]
        BY <4>1
      <4>3. factory[h] # 0 => n = factory[h]
        OBVIOUS
      <4>4. factory \in [Server -> Nat]
        BY DEF DInv, GInv, TypeOK
      <4> HIDE DEF n, h, o
      <4>5. \A s \in Server \ {o} : factory[s] # 0 => factory'[s] = factory[s]
        BY <3>1, <4>2, <4>3, <4>4
      <4>6. workers \in [Server -> Nat] /\ \A s \in Server : workers[s] # 0 => factory[s] = workers[s]
        BY DEF DInv, GInv, TypeOK, WorkerIsRemembered
      <4>7. WorkerIsRemembered'
        BY <2>2, <3>2, <4>5, <4>6 DEF WorkerIsRemembered
      <4>8. HeadIsConfigured' /\ HeadIsApart'
        BY <3>1, <4>1, <4>2 DEF DInv, HeadIsConfigured, HeadIsApart, h
      <4> QED BY <1>1, <2>2, <3>1, <4>7, <4>8 DEF DInv, WorkerIsConfigured
    <3> QED BY <3>a, <3>b
  <2>5. CASE DecommissionServers
    <3>1. PICK s \in Server : removed[s] # 0 /\ factory' = [factory EXCEPT ![s] = 0]
      BY <2>5 DEF DecommissionServers
    <3>2. workers[s] = 0
      BY <3>1 DEF DInv, GInv, RemovedAcceptsNone
    <3>3. \A t \in Server : t # s => factory'[t] = factory[t]
      BY <3>1 DEF DInv, GInv, TypeOK
    <3>4. headServer.server \in Server /\ UNCHANGED <<config, workerConfigs, headServer, update>>
      BY <2>5 DEF DecommissionServers, DInv, GInv, TypeOK
    <3> QED BY <1>1, <2>2, <3>2, <3>3, <3>4
            DEF DInv, WorkerIsRemembered, WorkerIsConfigured, HeadIsConfigured, HeadIsApart
  <2>6. CASE UNCHANGED <<config, workerConfigs, factory, workers, headServer, update>>
    BY <1>1, <2>6
    DEF DInv, WorkerIsRemembered, WorkerIsConfigured, HeadIsConfigured, HeadIsApart
  <2> QED BY <2>1, <2>3, <2>4, <2>5, <2>6
          DEF Next, ConfigChanged, UpdateWorkers, ExecuteJob, FlowGoesOn, AbortJob,
              JobStatusUpdate, poolVars, vars
<1> QED BY <1>2, <1>3

(* Once a synchronization has thrown, nothing is said of the caches.        *)
CInv == GInv /\ (~threw => DInv)

LEMMA CInvNext == CInv /\ [Next]_vars => CInv'
<1> SUFFICES ASSUME CInv, [Next]_vars PROVE CInv'
  OBVIOUS
<1>1. GInv'
  BY GInvNext DEF CInv
<1>2. CASE threw'
  BY <1>1, <1>2 DEF CInv
<1>3. CASE ~threw'
  <2>1. ~threw
    BY <1>3 DEF Next, ConfigChanged, Reload, ChangeHead, SetWorkerConfigs,
                SetWorkerConfigsThrows, DecommissionServers, ExecuteJob, FlowGoesOn,
                AbortJob, JobStatusUpdate, vars
  <2>2. DInv'
    BY <1>3, <2>1, DInvNext DEF CInv
  <2> QED BY <1>1, <2>2 DEF CInv
<1> QED BY <1>2, <1>3

LEMMA CInvHolds == Spec => []CInv
<1>1. Init => CInv
  BY DInvInit, GInvInit DEF CInv
<1> QED BY <1>1, CInvNext, PTL DEF Spec

(* A later change of the configuration finds every worker in the cache of   *)
(* the factory, as long as no synchronization has thrown.                   *)
THEOREM WorkersAreCached == Spec => []WorkerIsCached
<1>1. CInv => WorkerIsCached
  BY DEF CInv, DInv, WorkerIsCached
<1> QED BY <1>1, CInvHolds, PTL

(* The head is no worker, as long as no synchronization has thrown: the     *)
(* checks of reload, which compare two files only, suffice for any number   *)
(* of them, even if a head cannot be reached.                               *)
THEOREM HeadsAreNoWorkers == Spec => []HeadIsNoWorker
<1>1. CInv => HeadIsNoWorker
  BY DEF CInv, DInv, HeadIsNoWorker
<1> QED BY <1>1, CInvHolds, PTL
=============================================================================
