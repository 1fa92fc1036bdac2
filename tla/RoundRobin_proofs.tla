-------------------------- MODULE RoundRobin_proofs --------------------------
(***************************************************************************)
(* What holds of RoundRobin for any finite set of servers and any number   *)
(* of updates: the nodes stay one ring in both directions, and the ring    *)
(* deals the servers out as Rotation does.                                 *)
(*                                                                         *)
(* The invariant says that order, which is read off the nodes along next,  *)
(* is a ring: its last server is curr, and next and prev lead from each of *)
(* its servers to the neighbours.  A step turns a ring into another, that  *)
(* of Rotation; that there is no other one to read off the nodes is the    *)
(* lemma RingIsOrder, proved by an induction along the walk.               *)
(***************************************************************************)
EXTENDS RoundRobin, SequenceTheorems, FiniteSetTheorems, WellFoundedInduction, TLAPS

(* Induction over the natural numbers, for a set instead of a predicate.    *)
LEMMA SetInduction ==
  ASSUME NEW T \in SUBSET Nat, 0 \in T, \A n \in T : n + 1 \in T
  PROVE  T = Nat
<1> DEFINE R == OpToRel(<, Nat)
<1>1. IsWellFoundedOn(R, Nat)
  BY NatLessThanWellFounded, Zenon
<1>2. \A m, k \in Nat : <<k, m>> \notin R => m <= k
  BY DEF OpToRel
<1> HIDE DEF R
<1>3. ASSUME Nat \ T # {} PROVE FALSE
  <2>1. PICK m \in Nat \ T : \A k \in Nat \ T : <<k, m>> \notin R
    BY <1>1, <1>3, WFMin, Zenon
  <2>2. m \in Nat /\ m \notin T /\ m # 0
    OBVIOUS
  <2>3. m - 1 \in Nat /\ (m - 1) + 1 = m
    BY <2>2
  <2>4. m - 1 \notin T
    BY <2>2, <2>3
  <2>5. m <= m - 1
    BY <1>2, <2>1, <2>2, <2>3, <2>4
  <2> QED BY <2>2, <2>5
<1> QED BY <1>3

-----------------------------------------------------------------------------
(* The walk along the field nx from the node c.                             *)
Steps(c, nx, n, f) == f = [i \in 0..n |-> IF i = 0 THEN c ELSE nx[f[i - 1]]]

(* It can be taken for any number of steps, in one way.                     *)
LEMMA StepsExist ==
  ASSUME NEW c, NEW nx, NEW n \in Nat
  PROVE  \E f : Steps(c, nx, n, f)
<1> DEFINE T == {m \in Nat : \E f : Steps(c, nx, m, f)}
<1>1. 0 \in T
  <2>1. Steps(c, nx, 0, [i \in 0..0 |-> c])
    BY DEF Steps
  <2> QED BY <2>1
<1>2. ASSUME NEW m \in T PROVE m + 1 \in T
  <2>1. PICK f : Steps(c, nx, m, f)
    OBVIOUS
  <2> DEFINE g == [i \in 0..(m + 1) |-> IF i = m + 1 THEN nx[f[m]] ELSE f[i]]
  <2>2. Steps(c, nx, m + 1, g)
    BY <2>1 DEF Steps
  <2> QED BY <2>2
<1>3. T = Nat
  <2> HIDE DEF T
  <2>1. T \subseteq Nat
    BY DEF T
  <2> QED BY <1>1, <1>2, <2>1, SetInduction
<1> QED BY <1>3

LEMMA StepsAgree ==
  ASSUME NEW c, NEW nx, NEW m \in Nat, NEW n \in Nat, m <= n, NEW f, NEW g,
         Steps(c, nx, m, f), Steps(c, nx, n, g)
  PROVE  \A i \in 0..m : f[i] = g[i]
<1> DEFINE T == {i \in Nat : i <= m => f[i] = g[i]}
<1>1. 0 \in T
  BY DEF Steps
<1>2. ASSUME NEW i \in T PROVE i + 1 \in T
  BY DEF Steps
<1>3. T = Nat
  <2> HIDE DEF T
  <2>1. T \subseteq Nat
    BY DEF T
  <2> QED BY <1>1, <1>2, <2>1, SetInduction
<1> QED BY <1>3

(* The whole walk, and the equations nodeAfter is defined by.               *)
IsWalk(c, nx, w) == w = [i \in Nat |-> IF i = 0 THEN c ELSE nx[w[i - 1]]]

LEMMA WalkExists ==
  ASSUME NEW c, NEW nx
  PROVE  \E w : IsWalk(c, nx, w)
<1> DEFINE upTo(n) == CHOOSE f : Steps(c, nx, n, f)
           w == [i \in Nat |-> upTo(i)[i]]
<1>1. \A n \in Nat : Steps(c, nx, n, upTo(n))
  BY StepsExist
<1>2. ASSUME NEW i \in Nat PROVE w[i] = IF i = 0 THEN c ELSE nx[w[i - 1]]
  <2> HIDE DEF upTo
  <2>1. CASE i = 0
    BY <1>1, <2>1 DEF Steps
  <2>2. CASE i # 0
    <3>1. i - 1 \in Nat /\ i - 1 <= i
      BY <2>2
    <3>2. upTo(i - 1)[i - 1] = upTo(i)[i - 1]
      BY <1>1, <3>1, StepsAgree
    <3>3. upTo(i)[i] = nx[upTo(i)[i - 1]]
      BY <1>1, <2>2, <3>1 DEF Steps
    <3> QED BY <2>2, <3>1, <3>2, <3>3
  <2> QED BY <2>1, <2>2
<1> HIDE DEF upTo
<1>3. IsWalk(c, nx, w)
  BY <1>2 DEF IsWalk
<1> QED BY <1>3

LEMMA NodeAfterDef ==
  /\ IsWalk(curr, next, nodeAfter)
  /\ IsWalk(curr', next', nodeAfter')
<1>1. IsWalk(curr, next, nodeAfter)
  BY WalkExists DEF nodeAfter, IsWalk
<1>2. IsWalk(curr', next', nodeAfter')
  BY WalkExists DEF nodeAfter, IsWalk
<1> QED BY <1>1, <1>2

-----------------------------------------------------------------------------
(* The n nodes p are a ring of the fields nx and pv, the last of them c.    *)
after(i, n) == IF i = n THEN 1 ELSE i + 1

Ring(c, nx, pv, n, p) ==
  /\ n \in Nat
  /\ p \in [1..n -> Server]
  /\ \A i, j \in 1..n : p[i] = p[j] => i = j
  /\ c = IF n = 0 THEN Null ELSE p[n]
  /\ \A i \in 1..n : nx[p[i]] = p[after(i, n)] /\ pv[p[after(i, n)]] = p[i]

(* A walk from c goes around the ring.                                      *)
LEMMA WalkInRing ==
  ASSUME NEW c, NEW nx, NEW pv, NEW n, NEW p, Ring(c, nx, pv, n, p), n # 0,
         NEW w, IsWalk(c, nx, w)
  PROVE  /\ w[0] = p[n]
         /\ \A i \in 1..n : w[i] = p[i]
         /\ \A i \in Nat : \E j \in 1..n : w[i] = p[j]
<1>1. w[0] = p[n]
  BY DEF IsWalk, Ring
<1>2. ASSUME NEW i \in Nat PROVE w[i + 1] = nx[w[i]]
  <2> DEFINE g == [j \in Nat |-> IF j = 0 THEN c ELSE nx[w[j - 1]]]
  <2>1. i + 1 \in Nat /\ i + 1 # 0 /\ (i + 1) - 1 = i
    OBVIOUS
  <2>2. g[i + 1] = nx[w[(i + 1) - 1]]
    BY <2>1
  <2>3. g[i + 1] = nx[w[i]]
    BY <2>1, <2>2
  <2>4. w = g
    BY DEF IsWalk
  <2> QED BY <2>3, <2>4
<1>3. \A i \in 1..n : w[i] = p[i]
  <2> DEFINE T == {i \in Nat : i \in 1..n => w[i] = p[i]}
  <2>1. 0 \in T
    OBVIOUS
  <2>2. ASSUME NEW i \in T PROVE i + 1 \in T
    <3>1. SUFFICES ASSUME i + 1 \in 1..n PROVE w[i + 1] = p[i + 1]
      OBVIOUS
    <3>2. n \in Nat /\ i \in Nat
      BY DEF Ring
    <3>3. w[i + 1] = nx[w[i]]
      BY <1>2, <3>2
    <3>4. CASE i = 0
      <4>1. n \in 1..n /\ after(n, n) = 1
        BY <3>2 DEF after
      <4>2. nx[p[n]] = p[1]
        BY <4>1 DEF Ring
      <4> QED BY <1>1, <3>3, <3>4, <4>2
    <3>5. CASE i # 0
      <4>1. i \in 1..n /\ after(i, n) = i + 1
        BY <3>1, <3>2, <3>5 DEF after
      <4>2. w[i] = p[i]
        BY <4>1
      <4>3. nx[p[i]] = p[i + 1]
        BY <4>1 DEF Ring
      <4> QED BY <3>3, <4>2, <4>3
    <3> QED BY <3>4, <3>5
  <2>3. T = Nat
    <3>1. T \subseteq Nat
      OBVIOUS
    <3> HIDE DEF T
    <3> QED BY <2>1, <2>2, <3>1, SetInduction
  <2> QED BY <2>3 DEF Ring
<1>4. \A i \in Nat : \E j \in 1..n : w[i] = p[j]
  <2> DEFINE T == {i \in Nat : \E j \in 1..n : w[i] = p[j]}
  <2>1. 0 \in T
    BY <1>1 DEF Ring
  <2>2. ASSUME NEW i \in T PROVE i + 1 \in T
    <3>1. PICK j \in 1..n : w[i] = p[j]
      OBVIOUS
    <3>2. after(j, n) \in 1..n
      BY DEF Ring, after
    <3>3. w[i + 1] = nx[p[j]]
      BY <1>2, <3>1
    <3>4. nx[p[j]] = p[after(j, n)]
      BY DEF Ring
    <3> QED BY <3>2, <3>3, <3>4
  <2>3. T = Nat
    <3>1. T \subseteq Nat
      OBVIOUS
    <3> HIDE DEF T
    <3> QED BY <2>1, <2>2, <3>1, SetInduction
  <2> QED BY <2>3
<1> QED BY <1>1, <1>3, <1>4

(* A ring has at most as many nodes as there are servers.                   *)
LEMMA RingFits ==
  ASSUME NEW c, NEW nx, NEW pv, NEW n, NEW p, Ring(c, nx, pv, n, p)
  PROVE  /\ n \in 0..Cardinality(Server)
         /\ Cardinality({p[i] : i \in 1..n}) = n
<1>1. n \in Nat /\ IsFiniteSet(1..n) /\ Cardinality(1..n) = n
  BY FS_Interval DEF Ring
<1>2. Cardinality(Server) \in Nat
  BY FiniteAssumption, FS_CardinalityType
<1>3. n <= Cardinality(Server)
  <2>1. p \in Injection(1..n, Server)
    BY DEF Ring, Injection, IsInjective
  <2> QED BY <1>1, <2>1, FiniteAssumption, FS_Injection
<1>4. Cardinality({p[i] : i \in 1..n}) = n
  <2> DEFINE S == {p[i] : i \in 1..n}
  <2>1. p \in [1..n -> S] /\ \A s \in S : \E i \in 1..n : p[i] = s
    BY DEF Ring
  <2>2. p \in Surjection(1..n, S) /\ p \in Injection(1..n, S)
    BY <2>1 DEF Ring, Injection, Surjection, IsInjective
  <2> QED BY <1>1, <2>2, FS_Surjection
<1> QED BY <1>1, <1>2, <1>3, <1>4

(* There is only one ring to read off the nodes.                            *)
LEMMA RingIsOrder ==
  ASSUME NEW c, NEW nx, NEW pv, NEW n, NEW p, Ring(c, nx, pv, n, p),
         NEW w, IsWalk(c, nx, w)
  PROVE  /\ [i \in 1..n |-> w[i]] = p
         /\ n # 0 => /\ w[n] = c
                     /\ \A i \in 0..(Cardinality(Server) - 1) :
                          \E j \in 1..n : w[i] = p[j]
                     /\ \A j \in 1..n :
                          \E i \in 0..(Cardinality(Server) - 1) : w[i] = p[j]
<1>1. n \in Nat /\ n <= Cardinality(Server) /\ Cardinality(Server) \in Nat
  <2>1. Cardinality(Server) \in Nat
    BY FiniteAssumption, FS_CardinalityType
  <2>2. n \in 0..Cardinality(Server)
    BY RingFits
  <2> QED BY <2>1, <2>2
<1>2. CASE n = 0
  BY <1>2 DEF Ring
<1>3. CASE n # 0
  <2>1. /\ w[0] = p[n]
        /\ \A i \in 1..n : w[i] = p[i]
        /\ \A i \in Nat : \E j \in 1..n : w[i] = p[j]
    BY <1>3, WalkInRing
  <2>2. [i \in 1..n |-> w[i]] = p
    BY <2>1 DEF Ring
  <2>3. w[n] = c
    <3>1. c = p[n]
      BY <1>3 DEF Ring
    <3> QED BY <1>1, <1>3, <2>1, <3>1
  <2>4. ASSUME NEW j \in 1..n
        PROVE  \E i \in 0..(Cardinality(Server) - 1) : w[i] = p[j]
    <3>1. CASE j = n
      BY <1>1, <1>3, <2>1, <3>1
    <3>2. CASE j # n
      BY <1>1, <2>1, <3>2
    <3> QED BY <3>1, <3>2
  <2>5. \A i \in 0..(Cardinality(Server) - 1) : \E j \in 1..n : w[i] = p[j]
    BY <1>1, <2>1
  <2> QED BY <2>2, <2>3, <2>4, <2>5
<1> QED BY <1>2, <1>3

-----------------------------------------------------------------------------
(* The steps turn a ring into a ring.                                       *)

(* A first node.                                                            *)
LEMMA RingOfOne ==
  ASSUME NEW s \in Server, NEW nx, NEW pv, nx[s] = s, pv[s] = s
  PROVE  Ring(s, nx, pv, 1, [i \in 1..1 |-> s])
BY DEF Ring, after

(* A node that goes in after the last one is the first.                     *)
Added(p, n, s) == [i \in 1..(n + 1) |-> IF i = 1 THEN s ELSE p[i - 1]]

LEMMA RingAdded ==
  ASSUME NEW c, NEW nx \in [Server -> Server \cup {Null}],
         NEW pv \in [Server -> Server \cup {Null}], NEW n, NEW p,
         Ring(c, nx, pv, n, p), n # 0,
         NEW s \in Server, \A i \in 1..n : p[i] # s,
         NEW nx2, nx2 = [nx EXCEPT ![s] = nx[c], ![c] = s],
         NEW pv2, pv2 = [pv EXCEPT ![s] = c, ![nx[c]] = s]
  PROVE  Ring(c, nx2, pv2, n + 1, Added(p, n, s))
<1> DEFINE q == [i \in 1..(n + 1) |-> IF i = 1 THEN s ELSE p[i - 1]]
<1>1. /\ n \in Nat /\ p \in [1..n -> Server]
      /\ \A i, j \in 1..n : p[i] = p[j] => i = j
      /\ 1 \in 1..n /\ n \in 1..n
      /\ c = p[n] /\ nx[c] = p[1]
  BY DEF Ring, after
<1>2. /\ nx2[s] = p[1] /\ nx2[c] = s
      /\ \A t \in Server : t # s /\ t # c => nx2[t] = nx[t]
  BY <1>1
<1>3. /\ pv2[s] = c /\ pv2[p[1]] = s
      /\ \A t \in Server : t # s /\ t # p[1] => pv2[t] = pv[t]
  BY <1>1
<1>4. q \in [1..(n + 1) -> Server]
  BY <1>1
<1>5. \A i, j \in 1..(n + 1) : q[i] = q[j] => i = j
  <2> SUFFICES ASSUME NEW i \in 1..(n + 1), NEW j \in 1..(n + 1), q[i] = q[j]
               PROVE  i = j
    OBVIOUS
  <2>1. \A k \in 1..(n + 1) : k # 1 => k - 1 \in 1..n /\ q[k] = p[k - 1]
    BY <1>1
  <2>2. q[1] = s
    BY <1>1
  <2>3. i # 1 /\ j # 1 => i - 1 = j - 1
    BY <1>1, <2>1
  <2> QED BY <1>1, <2>1, <2>2, <2>3
<1>6. c = q[n + 1]
  BY <1>1
<1>7. ASSUME NEW i \in 1..(n + 1)
      PROVE  /\ nx2[q[i]] = q[after(i, n + 1)]
             /\ pv2[q[after(i, n + 1)]] = q[i]
  <2>1. CASE i = 1
    <3>1. after(i, n + 1) = 2 /\ q[i] = s /\ q[2] = p[1]
      BY <1>1, <2>1 DEF after
    <3> QED BY <1>2, <1>3, <3>1
  <2>2. CASE i = n + 1
    <3>1. after(i, n + 1) = 1 /\ q[i] = c /\ q[1] = s
      BY <1>1, <2>2 DEF after
    <3> QED BY <1>2, <1>3, <3>1
  <2>3. CASE i # 1 /\ i # n + 1
    <3>1. i - 1 \in 1..n /\ i - 1 # n /\ i \in 1..n /\ i # 1
      BY <1>1, <2>3
    <3>2. after(i, n + 1) = i + 1 /\ q[i] = p[i - 1] /\ q[i + 1] = p[i]
      BY <1>1, <2>3 DEF after
    <3>3. after(i - 1, n) = i
      BY <3>1 DEF after
    <3>4. nx[p[i - 1]] = p[i] /\ pv[p[i]] = p[i - 1]
      BY <3>1, <3>3 DEF Ring
    <3>5. p[i - 1] # c /\ p[i] # p[1] /\ p[i - 1] # s /\ p[i] # s
      BY <1>1, <3>1
    <3>6. p[i - 1] \in Server /\ p[i] \in Server
      BY <1>1, <3>1
    <3>7. nx2[p[i - 1]] = p[i] /\ pv2[p[i]] = p[i - 1]
      BY <1>2, <1>3, <3>4, <3>5, <3>6
    <3> QED BY <3>2, <3>7
  <2> QED BY <2>1, <2>2, <2>3
<1>8. n + 1 \in Nat /\ n + 1 # 0
  BY <1>1
<1> HIDE DEF q
<1>9. Ring(c, nx2, pv2, n + 1, q)
  BY <1>4, <1>5, <1>6, <1>7, <1>8 DEF Ring
<1> QED BY <1>9 DEF q, Added

(* It does not matter which of the nodes is taken for the last.             *)
Rotated(p, n, k) == [i \in 1..n |-> IF i + k <= n THEN p[i + k] ELSE p[i + k - n]]

LEMMA RingRotated ==
  ASSUME NEW c, NEW nx, NEW pv, NEW n, NEW p, Ring(c, nx, pv, n, p),
         NEW k \in 1..n
  PROVE  Ring(p[k], nx, pv, n, Rotated(p, n, k))
<1> DEFINE at(i) == IF i + k <= n THEN i + k ELSE i + k - n
           q == [i \in 1..n |-> IF i + k <= n THEN p[i + k] ELSE p[i + k - n]]
<1>1. /\ n \in Nat /\ p \in [1..n -> Server] /\ n # 0
      /\ \A i, j \in 1..n : p[i] = p[j] => i = j
  BY DEF Ring
<1>2. \A i \in 1..n : at(i) \in 1..n /\ q[i] = p[at(i)]
  BY <1>1
<1>3. q \in [1..n -> Server]
  BY <1>1
<1>4. \A i, j \in 1..n : q[i] = q[j] => i = j
  <2>1. \A i, j \in 1..n : at(i) = at(j) => i = j
    BY <1>1
  <2> HIDE DEF at, q
  <2> QED BY <1>1, <1>2, <2>1
<1>5. p[k] = q[n]
  BY <1>1
<1>6. ASSUME NEW i \in 1..n
      PROVE  nx[q[i]] = q[after(i, n)] /\ pv[q[after(i, n)]] = q[i]
  <2>1. after(i, n) \in 1..n /\ at(after(i, n)) = after(at(i), n)
    BY <1>1 DEF after
  <2> HIDE DEF at, q
  <2>2. q[i] = p[at(i)] /\ q[after(i, n)] = p[after(at(i), n)] /\ at(i) \in 1..n
    BY <1>2, <2>1
  <2> QED BY <2>2 DEF Ring
<1> HIDE DEF q
<1>7. Ring(p[k], nx, pv, n, q)
  BY <1>1, <1>3, <1>4, <1>5, <1>6 DEF Ring
<1> QED BY <1>7 DEF q, Rotated

(* A node other than the last goes out: what becomes of the fields, and of  *)
(* the ring.                                                                *)
NextPast(nx, pv, s) == [nx EXCEPT ![pv[s]] = nx[s]]
PrevPast(nx, pv, s) == [pv EXCEPT ![nx[s]] = pv[s]]
Without(p, n, k) == [i \in 1..(n - 1) |-> IF i < k THEN p[i] ELSE p[i + 1]]

LEMMA RingRemoved ==
  ASSUME NEW c, NEW nx \in [Server -> Server \cup {Null}],
         NEW pv \in [Server -> Server \cup {Null}], NEW n, NEW p,
         Ring(c, nx, pv, n, p), NEW k \in 1..n, k # n
  PROVE  Ring(c, NextPast(nx, pv, p[k]), PrevPast(nx, pv, p[k]), n - 1,
              Without(p, n, k))
<1> DEFINE b == IF k = 1 THEN n ELSE k - 1
           at(i) == IF i < k THEN i ELSE i + 1
           nx2 == NextPast(nx, pv, p[k])
           pv2 == PrevPast(nx, pv, p[k])
           q == [i \in 1..(n - 1) |-> IF i < k THEN p[i] ELSE p[i + 1]]
<1>1. /\ n \in Nat /\ p \in [1..n -> Server] /\ n > 1 /\ n - 1 \in Nat
      /\ \A i, j \in 1..n : p[i] = p[j] => i = j
      /\ c = p[n]
  BY DEF Ring
<1>2. nx[p[k]] = p[k + 1] /\ pv[p[k]] = p[b]
  <2>1. b \in 1..n /\ after(b, n) = k /\ after(k, n) = k + 1
    BY <1>1 DEF after
  <2> QED BY <2>1 DEF Ring
<1>3. /\ nx2[p[b]] = p[k + 1]
      /\ \A i \in 1..n : i # b => nx2[p[i]] = nx[p[i]]
  <2>1. b \in 1..n
    BY <1>1
  <2> HIDE DEF b
  <2> QED BY <1>1, <1>2, <2>1 DEF NextPast
<1>4. /\ pv2[p[k + 1]] = p[b]
      /\ \A i \in 1..n : i # k + 1 => pv2[p[i]] = pv[p[i]]
  <2>1. k + 1 \in 1..n
    BY <1>1
  <2> HIDE DEF b
  <2> QED BY <1>1, <1>2, <2>1 DEF PrevPast
<1>5. \A i \in 1..(n - 1) : at(i) \in 1..n /\ q[i] = p[at(i)]
  BY <1>1
<1>6. q \in [1..(n - 1) -> Server]
  BY <1>1
<1>7. \A i, j \in 1..(n - 1) : q[i] = q[j] => i = j
  <2>1. \A i, j \in 1..(n - 1) : at(i) = at(j) => i = j
    BY <1>1
  <2> HIDE DEF at, q
  <2> QED BY <1>1, <1>5, <2>1
<1>8. c = q[n - 1] /\ n - 1 # 0
  BY <1>1
<1> HIDE DEF nx2, pv2
<1>9. ASSUME NEW i \in 1..(n - 1)
      PROVE  nx2[q[i]] = q[after(i, n - 1)] /\ pv2[q[after(i, n - 1)]] = q[i]
  <2>1. after(i, n - 1) \in 1..(n - 1)
    BY <1>1 DEF after
  <2>2. q[i] = p[at(i)] /\ q[after(i, n - 1)] = p[at(after(i, n - 1))]
    BY <1>5, <2>1
  <2>3. CASE at(i) = b
    <3>1. at(after(i, n - 1)) = k + 1
      BY <1>1, <2>3 DEF after
    <3> HIDE DEF at, q, b
    <3> QED BY <1>3, <1>4, <2>2, <2>3, <3>1
  <2>4. CASE at(i) # b
    <3>1. /\ at(after(i, n - 1)) = after(at(i), n)
          /\ after(at(i), n) # k + 1 /\ after(at(i), n) \in 1..n /\ at(i) \in 1..n
      BY <1>1, <2>4 DEF after
    <3>2. nx[p[at(i)]] = p[after(at(i), n)] /\ pv[p[after(at(i), n)]] = p[at(i)]
      <4> HIDE DEF at
      <4> QED BY <3>1 DEF Ring
    <3> HIDE DEF at, q, b
    <3> QED BY <1>3, <1>4, <2>2, <2>4, <3>1, <3>2
  <2> QED BY <2>3, <2>4
<1> HIDE DEF q
<1>10. Ring(c, nx2, pv2, n - 1, q)
  BY <1>1, <1>6, <1>7, <1>8, <1>9 DEF Ring
<1> QED BY <1>10 DEF q, nx2, pv2, Without

(* The last node goes out: the first one is the last then.                  *)
LEMMA RingRemovedLast ==
  ASSUME NEW c, NEW nx \in [Server -> Server \cup {Null}],
         NEW pv \in [Server -> Server \cup {Null}], NEW n, NEW p,
         Ring(c, nx, pv, n, p), n > 1
  PROVE  Ring(nx[c], NextPast(nx, pv, c), PrevPast(nx, pv, c), n - 1,
              Rotated(Without(p, n, n), n - 1, 1))
<1> DEFINE q == Rotated(p, n, 1)
           k == n - 1
<1>1. /\ n \in Nat /\ 1 \in 1..n /\ n \in 1..n /\ k \in 1..n /\ k # n
      /\ after(n, n) = 1 /\ c = p[n]
  BY DEF Ring, after
<1>2. nx[c] = p[1]
  BY <1>1 DEF Ring
<1>3. Ring(nx[c], nx, pv, n, q)
  BY <1>1, <1>2, RingRotated
<1>4. q[k] = c
  BY <1>1 DEF Rotated
<1>5. Without(q, n, k) = Rotated(Without(p, n, n), n - 1, 1)
  BY <1>1 DEF Without, Rotated
<1> HIDE DEF q, k
<1>6. Ring(nx[c], NextPast(nx, pv, q[k]), PrevPast(nx, pv, q[k]), n - 1,
           Without(q, n, k))
  BY <1>1, <1>3, RingRemoved
<1> QED BY <1>4, <1>5, <1>6

-----------------------------------------------------------------------------
(* What Rotation does to its sequence, server by server.                    *)
LEMMA SequenceOfTurns ==
  ASSUME NEW n \in Nat, NEW p \in [1..n -> Server]
  PROVE  /\ p \in Seq(Server) /\ Len(p) = n
         /\ \A s \in Server : <<s>> \o p = Added(p, n, s)
         /\ \A k \in 1..n : Turns!RemoveAt(p, k) = Without(p, n, k)
         /\ \A k \in 1..n : Turns!rotate(p, k) = Rotated(p, n, k)
<1>1. p \in Seq(Server) /\ Len(p) = n
  OBVIOUS
<1>2. ASSUME NEW s \in Server PROVE <<s>> \o p = Added(p, n, s)
  BY <1>1 DEF Added
<1>3. ASSUME NEW k \in 1..n PROVE Turns!RemoveAt(p, k) = Without(p, n, k)
  BY <1>1 DEF Turns!RemoveAt, Without
<1>4. ASSUME NEW k \in 1..n PROVE Turns!rotate(p, k) = Rotated(p, n, k)
  BY <1>1 DEF Turns!rotate, Rotated
<1> QED BY <1>1, <1>2, <1>3, <1>4

-----------------------------------------------------------------------------
(* The invariant.                                                           *)
LookedAtInOrder == iterNode # Null => \E i \in 1..size : iterNode = order[i]

RInv ==
  /\ TypeOK
  /\ Ring(curr, next, prev, size, order)
  /\ LookedAtInOrder

(* What a ring says of the state, before a step and after it.               *)
LEMMA ReadOffRing ==
  ASSUME NEW p
  PROVE  /\ Ring(curr, next, prev, size, p)
              => /\ order = p
                 /\ InList = {p[i] : i \in 1..size}
                 /\ size # 0 => nodeAfter[size] = curr
         /\ Ring(curr', next', prev', size', p) => order' = p
<1>1. ASSUME Ring(curr, next, prev, size, p)
      PROVE  /\ order = p
             /\ InList = {p[i] : i \in 1..size}
             /\ size # 0 => nodeAfter[size] = curr
  <2>1. IsWalk(curr, next, nodeAfter)
    BY NodeAfterDef
  <2>2. /\ [i \in 1..size |-> nodeAfter[i]] = p
        /\ size # 0 => /\ nodeAfter[size] = curr
                       /\ {nodeAfter[i] : i \in 0..(Cardinality(Server) - 1)}
                            = {p[i] : i \in 1..size}
    <3>1. [i \in 1..size |-> nodeAfter[i]] = p
      BY <1>1, <2>1, RingIsOrder
    <3>2. size # 0 => nodeAfter[size] = curr
      BY <1>1, <2>1, RingIsOrder
    <3>3. ASSUME size # 0
          PROVE  {nodeAfter[i] : i \in 0..(Cardinality(Server) - 1)}
                   = {p[i] : i \in 1..size}
      <4>1. ASSUME NEW i \in 0..(Cardinality(Server) - 1)
            PROVE  nodeAfter[i] \in {p[j] : j \in 1..size}
        BY <1>1, <2>1, <3>3, RingIsOrder
      <4>2. ASSUME NEW j \in 1..size
            PROVE  p[j] \in {nodeAfter[i] : i \in 0..(Cardinality(Server) - 1)}
        BY <1>1, <2>1, <3>3, RingIsOrder
      <4> QED BY <4>1, <4>2
    <3> QED BY <3>1, <3>2, <3>3
  <2>3. CASE size = 0
    BY <2>2, <2>3 DEF order, InList
  <2>4. CASE size # 0
    BY <2>2, <2>4 DEF order, InList
  <2> QED BY <2>3, <2>4
<1>2. ASSUME Ring(curr', next', prev', size', p) PROVE order' = p
  <2>1. IsWalk(curr', next', nodeAfter')
    BY NodeAfterDef
  <2>2. [i \in 1..size' |-> nodeAfter'[i]] = p
    BY <1>2, <2>1, RingIsOrder
  <2> QED BY <2>2 DEF order
<1> QED BY <1>1, <1>2

LEMMA OrderFacts ==
  ASSUME RInv
  PROVE  /\ size \in Nat /\ order \in [1..size -> Server] /\ Len(order) = size
         /\ \A i, j \in 1..size : order[i] = order[j] => i = j
         /\ InList = {order[i] : i \in 1..size}
         /\ Turns!Members = {order[i] : i \in 1..size}
         /\ curr = IF size = 0 THEN Null ELSE order[size]
<1>1. /\ size \in Nat /\ order \in [1..size -> Server]
      /\ \A i, j \in 1..size : order[i] = order[j] => i = j
      /\ curr = IF size = 0 THEN Null ELSE order[size]
  BY DEF RInv, Ring
<1>2. Len(order) = size
  BY <1>1, SequenceOfTurns
<1>3. InList = {order[i] : i \in 1..size}
  BY ReadOffRing DEF RInv
<1> QED BY <1>1, <1>2, <1>3 DEF Turns!Members

(* A search is at the turn of the server it looks at.                       *)
LEMMA PassedFacts ==
  /\ iterNode = Null => passed = -1
  /\ iterNode' = Null => passed' = -1
  /\ \A i \in 1..size :
       RInv /\ iterNode = order[i] => passed = i - 1
  /\ \A i \in 1..size' :
       /\ Ring(curr', next', prev', size', order')
       /\ iterNode' = order'[i]
       => passed' = i - 1
<1>1. ASSUME NEW i \in 1..size, RInv, iterNode = order[i] PROVE passed = i - 1
  <2>1. iterNode # Null
    BY <1>1, OrderFacts, NullAssumption
  <2>2. (CHOOSE j \in 1..size : order[j] = iterNode) = i
    <3>1. \A j \in 1..size : order[j] = iterNode <=> j = i
      BY <1>1, OrderFacts
    <3> QED BY <3>1
  <2> QED BY <2>1, <2>2 DEF passed
<1>2. ASSUME NEW i \in 1..size', Ring(curr', next', prev', size', order'),
             iterNode' = order'[i]
      PROVE  passed' = i - 1
  <2>1. /\ order' \in [1..size' -> Server]
        /\ \A j, k \in 1..size' : order'[j] = order'[k] => j = k
    BY <1>2 DEF Ring
  <2>2. iterNode' # Null
    BY <1>2, <2>1, NullAssumption
  <2>3. (CHOOSE j \in 1..size' : order'[j] = iterNode') = i
    <3>1. \A j \in 1..size' : order'[j] = iterNode' <=> j = i
      BY <1>2, <2>1
    <3> QED BY <3>1
  <2> QED BY <2>2, <2>3 DEF passed
<1>3. iterNode = Null => passed = -1
  BY DEF passed
<1>4. iterNode' = Null => passed' = -1
  BY DEF passed
<1> QED BY <1>1, <1>2, <1>3, <1>4

-----------------------------------------------------------------------------
(* Each step keeps the invariant and is one of Rotation's.                  *)
LEMMA InitStep ==
  ASSUME Init
  PROVE  RInv /\ Turns!Init
<1>1. size = 0 /\ 0 \in 0..Cardinality(Server)
  BY FiniteAssumption, FS_CardinalityType DEF Init
<1>2. order = <<>>
  BY <1>1 DEF order
<1>3. Ring(curr, next, prev, size, order)
  BY <1>1, <1>2 DEF Init, Ring
<1>4. TypeOK
  BY <1>1 DEF Init, TypeOK
<1>5. LookedAtInOrder
  BY DEF Init, LookedAtInOrder
<1>6. passed = -1
  BY PassedFacts DEF Init
<1> QED BY <1>2, <1>3, <1>4, <1>5, <1>6 DEF RInv, Turns!Init, Init

(* Outside of a search, what is left to show of a step that makes p of the  *)
(* ring.                                                                    *)
LEMMA NewRing ==
  ASSUME RInv, NEW p, Ring(curr', next', prev', size', p), iterNode' = Null,
         next' \in [Server -> Server \cup {Null}],
         prev' \in [Server -> Server \cup {Null}],
         curr' \in Server \cup {Null}, available' \subseteq Server
  PROVE  RInv' /\ order' = p /\ passed' = -1
<1>1. order' = p
  BY ReadOffRing
<1>2. passed' = -1
  BY PassedFacts
<1>3. size' \in 0..Cardinality(Server)
  BY RingFits
<1> QED BY <1>1, <1>2, <1>3 DEF RInv, TypeOK, LookedAtInOrder

LEMMA AddStep ==
  ASSUME RInv, NEW s \in Server, addServer(s)
  PROVE  RInv' /\ Turns!Join(s)
<1>1. /\ iterNode = Null /\ iterNode' = Null /\ s \notin InList
      /\ size' = size + 1 /\ available' = available
  BY DEF addServer, RInv, TypeOK
<1>2. passed = -1 /\ s \notin Turns!Members
  BY <1>1, OrderFacts, PassedFacts
<1>3. <<s>> \o order = Added(order, size, s)
  BY OrderFacts, SequenceOfTurns
<1>4. /\ Ring(curr', next', prev', size', <<s>> \o order)
      /\ next' \in [Server -> Server \cup {Null}]
      /\ prev' \in [Server -> Server \cup {Null}] /\ curr' \in Server
  <2>1. CASE size = 0
    <3>1. /\ curr' = s /\ size' = 1
          /\ next' = [next EXCEPT ![s] = s] /\ prev' = [prev EXCEPT ![s] = s]
      BY <2>1 DEF addServer
    <3>2. next'[s] = s /\ prev'[s] = s
      BY <3>1 DEF RInv, TypeOK
    <3>3. Ring(s, next', prev', 1, [i \in 1..1 |-> s])
      BY <3>2, RingOfOne
    <3>4. <<s>> \o order = [i \in 1..1 |-> s]
      BY <1>3, <2>1 DEF Added
    <3> QED BY <3>1, <3>3, <3>4 DEF RInv, TypeOK
  <2>2. CASE size # 0
    <3>1. /\ curr' = curr
          /\ next' = [next EXCEPT ![s] = next[curr], ![curr] = s]
          /\ prev' = [prev EXCEPT ![s] = curr, ![next[curr]] = s]
      BY <2>2 DEF addServer
    <3>2. /\ next \in [Server -> Server \cup {Null}]
          /\ prev \in [Server -> Server \cup {Null}]
          /\ Ring(curr, next, prev, size, order)
      BY DEF RInv, TypeOK
    <3>3. \A i \in 1..size : order[i] # s
      BY <1>1, OrderFacts
    <3>4. Ring(curr, next', prev', size + 1, <<s>> \o order)
      BY <1>3, <2>2, <3>1, <3>2, <3>3, RingAdded
    <3>5. curr \in Server
      BY <2>2, OrderFacts
    <3> QED BY <1>1, <3>1, <3>2, <3>4, <3>5
  <2> QED BY <2>1, <2>2
<1>5. RInv' /\ order' = <<s>> \o order /\ passed' = -1
  BY <1>1, <1>4, NewRing DEF RInv, TypeOK
<1> QED BY <1>1, <1>2, <1>5 DEF Turns!Join

LEMMA RemoveStep ==
  ASSUME RInv, NEW s \in Server, removeServer(s)
  PROVE  RInv' /\ Turns!Leave(s)
<1>1. /\ iterNode = Null /\ iterNode' = Null /\ s \in InList
      /\ size' = size - 1 /\ available' = available
  BY DEF removeServer, RInv, TypeOK
<1>2. passed = -1
  BY <1>1, PassedFacts
<1>3. PICK k \in 1..size : order[k] = s
  BY <1>1, OrderFacts
<1>4. size \in Nat /\ Len(order) = size /\ curr = order[size]
  BY <1>3, OrderFacts
<1> DEFINE q == IF k = Len(order) /\ k > 1
                THEN Turns!rotate(Turns!RemoveAt(order, k), 1)
                ELSE Turns!RemoveAt(order, k)
<1>5. Turns!RemoveAt(order, k) = Without(order, size, k)
  BY OrderFacts, SequenceOfTurns
<1>6. /\ next \in [Server -> Server \cup {Null}]
      /\ prev \in [Server -> Server \cup {Null}]
      /\ Ring(curr, next, prev, size, order)
  BY DEF RInv, TypeOK
<1>7. /\ Ring(curr', next', prev', size', q)
      /\ next' \in [Server -> Server \cup {Null}]
      /\ prev' \in [Server -> Server \cup {Null}] /\ curr' \in Server \cup {Null}
  <2>1. CASE size = 1
    <3>1. curr' = Null /\ next' = next /\ prev' = prev /\ size' = 0
      BY <1>1, <2>1 DEF removeServer
    <3>2. k = 1
      BY <2>1
    <3>3. q = Without(order, 1, 1)
      BY <1>5, <2>1, <3>2
    <3>4. q = [i \in 1..0 |-> s]
      BY <3>3 DEF Without
    <3>5. Ring(Null, next, prev, 0, [i \in 1..0 |-> s])
      BY DEF Ring
    <3> HIDE DEF q
    <3> QED BY <1>6, <3>1, <3>4, <3>5
  <2>2. CASE size # 1
    <3>1. /\ curr' = IF curr = s THEN next[curr] ELSE curr
          /\ prev' = [prev EXCEPT ![next[s]] = prev[s]]
          /\ next' = [next EXCEPT ![prev[s]] = next[s]]
      BY <2>2 DEF removeServer
    <3>2. size > 1
      BY <1>3, <1>4, <2>2
    <3>3. CASE k = size
      <4>1. curr = s /\ curr' = next[curr]
        BY <1>3, <1>4, <3>1, <3>3
      <4>2. Without(order, size, size) \in [1..(size - 1) -> Server] /\ size - 1 \in Nat
        BY <1>4, OrderFacts DEF Without
      <4>3. 1 \in 1..(size - 1)
        BY <1>4, <3>2
      <4>4. q = Rotated(Without(order, size, size), size - 1, 1)
        BY <1>4, <1>5, <3>2, <3>3, <4>2, <4>3, SequenceOfTurns
      <4>5. Ring(next[curr], next', prev', size - 1, q)
        <5>1. next' = NextPast(next, prev, curr) /\ prev' = PrevPast(next, prev, curr)
          BY <3>1, <4>1 DEF NextPast, PrevPast
        <5> QED BY <1>6, <3>2, <4>4, <5>1, RingRemovedLast
      <4>6. curr \in Server
        BY <4>1
      <4> HIDE DEF q
      <4> QED BY <1>1, <1>6, <3>1, <4>1, <4>5, <4>6
    <3>4. CASE k # size
      <4>1. curr # s /\ curr' = curr
        BY <1>3, <1>4, <3>1, <3>4, OrderFacts
      <4>2. q = Without(order, size, k)
        BY <1>4, <1>5, <3>4
      <4>3. /\ next' = NextPast(next, prev, order[k])
            /\ prev' = PrevPast(next, prev, order[k])
        BY <1>3, <3>1 DEF NextPast, PrevPast
      <4>4. Ring(curr, next', prev', size - 1, q)
        BY <1>6, <3>4, <4>2, <4>3, RingRemoved
      <4> HIDE DEF q
      <4> QED BY <1>1, <1>6, <3>1, <4>1, <4>4 DEF RInv, TypeOK
    <3> QED BY <3>3, <3>4
  <2> QED BY <2>1, <2>2
<1> HIDE DEF q
<1>8. RInv' /\ order' = q /\ passed' = -1
  BY <1>1, <1>7, NewRing DEF RInv, TypeOK
<1>9. \E i \in 1..Len(order) :
        /\ order[i] = s
        /\ order' = IF i = Len(order) /\ i > 1
                    THEN Turns!rotate(Turns!RemoveAt(order, i), 1)
                    ELSE Turns!RemoveAt(order, i)
  <2>1. k \in 1..Len(order)
    BY <1>4
  <2> QED BY <1>3, <1>8, <2>1 DEF q
<1> QED BY <1>1, <1>2, <1>8, <1>9 DEF Turns!Leave

(* A step that leaves the list as it is.                                    *)
LEMMA SameList ==
  ASSUME RInv, UNCHANGED listVars
  PROVE  /\ order' = order /\ Ring(curr', next', prev', size', order')
         /\ size' = size
<1>1. Ring(curr', next', prev', size', order)
  BY DEF RInv, listVars
<1>2. order' = order
  BY <1>1, ReadOffRing
<1> QED BY <1>1, <1>2 DEF listVars

LEMMA BeginStep ==
  ASSUME RInv, BeginSearch
  PROVE  RInv' /\ Turns!Search
<1>1. /\ iterNode = Null /\ size # 0 /\ iterNode' = next[curr]
      /\ UNCHANGED <<listVars, available>>
  BY DEF BeginSearch
<1>2. /\ order' = order /\ Ring(curr', next', prev', size', order')
      /\ size' = size
  BY <1>1, SameList
<1>3. size \in Nat /\ size \in 1..size /\ 1 \in 1..size /\ curr = order[size]
  BY <1>1, OrderFacts
<1>4. next[curr] = order[1]
  <2>1. after(size, size) = 1
    BY DEF after
  <2> QED BY <1>3, <2>1 DEF RInv, Ring
<1>5. passed = -1 /\ passed' = 0
  <2>1. iterNode' = order'[1] /\ 1 \in 1..size'
    BY <1>1, <1>2, <1>3, <1>4
  <2>2. passed' = 1 - 1
    BY <1>2, <2>1, PassedFacts
  <2> QED BY <1>1, <2>2, PassedFacts
<1>6. order # <<>>
  BY <1>1, OrderFacts
<1>7. order[1] \in Server
  BY <1>3, OrderFacts
<1>8. RInv'
  BY <1>1, <1>2, <1>3, <1>4, <1>7 DEF RInv, TypeOK, LookedAtInOrder, listVars
<1> QED BY <1>1, <1>2, <1>5, <1>6, <1>8 DEF Turns!Search

(* The server a search looks at.                                            *)
LEMMA LookedAt ==
  ASSUME RInv, iterNode # Null
  PROVE  \E j \in 1..size :
            /\ iterNode = order[j] /\ passed = j - 1 /\ order[passed + 1] = iterNode
            /\ passed + 1 = j /\ passed >= 0 /\ iterNode \in Server
            /\ next[iterNode] = order[after(j, size)] /\ next[curr] = order[1]
            /\ after(j, size) \in 1..size /\ 1 \in 1..size /\ Len(order) = size
<1>1. PICK j \in 1..size : iterNode = order[j]
  BY DEF RInv, LookedAtInOrder
<1>2. passed = j - 1
  BY <1>1, PassedFacts
<1>3. /\ size \in Nat /\ order \in [1..size -> Server] /\ Len(order) = size
      /\ 1 \in 1..size /\ size \in 1..size /\ after(j, size) \in 1..size
      /\ after(size, size) = 1 /\ curr = order[size]
  BY <1>1, OrderFacts DEF after
<1>4. next[iterNode] = order[after(j, size)] /\ next[curr] = order[1]
  BY <1>1, <1>3 DEF RInv, Ring
<1>5. passed + 1 = j /\ passed >= 0
  BY <1>2, <1>3
<1> QED BY <1>1, <1>2, <1>3, <1>4, <1>5

LEMMA OfferStep ==
  ASSUME RInv, OfferServer
  PROVE  RInv' /\ Turns!Offer
<1>1. /\ iterNode \in available /\ curr' = iterNode /\ iterNode' = Null
      /\ UNCHANGED <<next, prev, size, available>>
  BY DEF OfferServer
<1>2. iterNode # Null
  BY <1>1, NullAssumption DEF RInv, TypeOK
<1>3. PICK j \in 1..size :
            /\ iterNode = order[j] /\ order[passed + 1] = iterNode
            /\ passed + 1 = j /\ passed >= 0 /\ iterNode \in Server
  BY <1>2, LookedAt
<1>4. Ring(iterNode, next, prev, size, Rotated(order, size, j))
  BY <1>3, RingRotated DEF RInv
<1>5. Turns!rotate(order, passed + 1) = Rotated(order, size, j)
  BY <1>3, OrderFacts, SequenceOfTurns
<1>6. RInv' /\ order' = Rotated(order, size, j) /\ passed' = -1
  <2>1. Ring(curr', next', prev', size', Rotated(order, size, j))
    BY <1>1, <1>4
  <2> QED BY <1>1, <1>3, <2>1, NewRing DEF RInv, TypeOK
<1> QED BY <1>1, <1>3, <1>5, <1>6 DEF Turns!Offer

LEMMA PassStep ==
  ASSUME RInv, PassServer
  PROVE  RInv' /\ Turns!PassOver
<1>1. /\ iterNode # Null /\ iterNode \notin available
      /\ iterNode' = IF next[iterNode] = next[curr] THEN Null ELSE next[iterNode]
      /\ UNCHANGED <<listVars, available>>
  BY DEF PassServer
<1>2. /\ order' = order /\ Ring(curr', next', prev', size', order')
      /\ size' = size
  BY <1>1, SameList
<1>3. PICK j \in 1..size :
            /\ iterNode = order[j] /\ order[passed + 1] = iterNode
            /\ passed + 1 = j /\ passed >= 0 /\ iterNode \in Server
            /\ next[iterNode] = order[after(j, size)] /\ next[curr] = order[1]
            /\ after(j, size) \in 1..size /\ 1 \in 1..size /\ Len(order) = size
  BY <1>1, LookedAt
<1>4. size \in Nat /\ \A k \in 1..size : order[k] \in Server
  BY OrderFacts
<1>5. CASE j = size
  <2>1. iterNode' = Null
    BY <1>1, <1>3, <1>5 DEF after
  <2>2. passed' = -1
    BY <2>1, PassedFacts
  <2>3. RInv'
    BY <1>1, <1>2, <2>1 DEF RInv, TypeOK, LookedAtInOrder, listVars
  <2> QED BY <1>1, <1>2, <1>3, <1>5, <2>2, <2>3 DEF Turns!PassOver
<1>6. CASE j # size
  <2>1. after(j, size) = j + 1 /\ j + 1 # 1 /\ j + 1 \in 1..size
    BY <1>3, <1>4, <1>6 DEF after
  <2>2. order[j + 1] # order[1]
    BY <1>3, <2>1, OrderFacts
  <2>3. iterNode' = order[j + 1]
    BY <1>1, <1>3, <2>1, <2>2
  <2>4. passed' = (j + 1) - 1
    BY <1>2, <2>1, <2>3, PassedFacts
  <2>5. RInv'
    BY <1>1, <1>2, <1>4, <2>1, <2>3 DEF RInv, TypeOK, LookedAtInOrder, listVars
  <2>6. passed' = passed + 1 /\ passed + 1 # Len(order)
    BY <1>3, <1>6, <2>4
  <2> QED BY <1>1, <1>2, <1>3, <2>5, <2>6 DEF Turns!PassOver
<1> QED BY <1>5, <1>6

(* No call to the list: passed does not change either.                      *)
LEMMA SameTurns ==
  ASSUME RInv, UNCHANGED <<listVars, iterNode>>
  PROVE  order' = order /\ passed' = passed /\ LookedAtInOrder'
<1>1. order' = order /\ size' = size
  BY SameList
<1> QED BY <1>1 DEF passed, RInv, LookedAtInOrder

LEMMA ChangeStep ==
  ASSUME RInv, NEW s \in Server, ServerChanges(s)
  PROVE  RInv' /\ Turns!Change(s)
<1>1. /\ available' = IF s \in available THEN available \ {s} ELSE available \cup {s}
      /\ UNCHANGED <<listVars, iterNode>>
  BY DEF ServerChanges
<1>2. /\ order' = order /\ passed' = passed /\ LookedAtInOrder'
      /\ Ring(curr', next', prev', size', order')
  BY <1>1, SameTurns, SameList
<1>3. TypeOK'
  BY <1>1 DEF RInv, TypeOK, listVars
<1> QED BY <1>1, <1>2, <1>3 DEF RInv, Turns!Change

LEMMA StutterStep ==
  ASSUME RInv, UNCHANGED vars
  PROVE  RInv' /\ UNCHANGED Turns!vars
<1>1. UNCHANGED <<listVars, iterNode>>
  BY DEF vars, listVars
<1>2. /\ order' = order /\ passed' = passed /\ LookedAtInOrder'
      /\ Ring(curr', next', prev', size', order')
  BY <1>1, SameTurns, SameList
<1>3. TypeOK'
  BY DEF vars, RInv, TypeOK
<1> QED BY <1>2, <1>3 DEF RInv, vars, Turns!vars

LEMMA EveryStep ==
  ASSUME RInv, [Next]_vars
  PROVE  RInv' /\ [Turns!Next]_(Turns!vars)
<1>1. CASE BeginSearch
  BY <1>1, BeginStep DEF Turns!Next
<1>2. CASE OfferServer
  BY <1>2, OfferStep DEF Turns!Next
<1>3. CASE PassServer
  BY <1>3, PassStep DEF Turns!Next
<1>4. ASSUME NEW s \in Server, addServer(s)
      PROVE  RInv' /\ Turns!Next
  BY <1>4, AddStep DEF Turns!Next
<1>5. ASSUME NEW s \in Server, removeServer(s)
      PROVE  RInv' /\ Turns!Next
  BY <1>5, RemoveStep DEF Turns!Next
<1>6. ASSUME NEW s \in Server, ServerChanges(s)
      PROVE  RInv' /\ Turns!Next
  BY <1>6, ChangeStep DEF Turns!Next
<1>7. CASE UNCHANGED vars
  BY <1>7, StutterStep
<1> QED BY <1>1, <1>2, <1>3, <1>4, <1>5, <1>6, <1>7
        DEF Next, nextAvailableServer

-----------------------------------------------------------------------------
THEOREM RInvHolds == Spec => []RInv
<1>1. Init => RInv
  BY InitStep
<1>2. RInv /\ [Next]_vars => RInv'
  BY EveryStep
<1> QED BY <1>1, <1>2, PTL DEF Spec

(* The state is well formed; size never exceeds the number of servers.      *)
THEOREM TypeCorrect == Spec => []TypeOK
<1>1. RInv => TypeOK
  BY DEF RInv
<1> QED BY <1>1, RInvHolds, PTL

(* However servers are added and removed, the nodes stay one ring of size   *)
(* servers, whose prev undoes next, and curr is one of them.                *)
THEOREM ListStaysARing == Spec => []ListIsARing
<1>1. RInv => ListIsARing
  <2> SUFFICES ASSUME RInv PROVE ListIsARing
    OBVIOUS
  <2>1. CASE size = 0
    BY <2>1, OrderFacts DEF ListIsARing
  <2>2. CASE size # 0
    <3>1. Ring(curr, next, prev, size, order)
      BY DEF RInv
    <3>2. nodeAfter[size] = curr /\ InList = {order[i] : i \in 1..size}
      BY <2>2, <3>1, ReadOffRing
    <3>3. Cardinality(InList) = size
      BY <3>1, <3>2, RingFits
    <3>4. ASSUME NEW s \in InList PROVE next[s] \in InList /\ prev[next[s]] = s
      <4>1. PICK i \in 1..size : s = order[i]
        BY <3>2
      <4>2. after(i, size) \in 1..size
        BY OrderFacts DEF after
      <4>3. next[s] = order[after(i, size)] /\ prev[order[after(i, size)]] = s
        BY <3>1, <4>1 DEF Ring
      <4> QED BY <3>2, <4>2, <4>3
    <3> QED BY <2>2, <3>2, <3>3, <3>4 DEF ListIsARing
  <2> QED BY <2>1, <2>2
<1> QED BY <1>1, RInvHolds, PTL

(* The linked list deals the servers out as the sequence of turns does:     *)
(* every step of the balancer is one of Rotation's or leaves it alone.      *)
THEOREM ImplementsRotation == Spec => DealsInTurns
<1>1. Init => Turns!Init
  BY InitStep
<1>2. RInv /\ [Next]_vars => [Turns!Next]_(Turns!vars)
  BY EveryStep
<1> QED BY <1>1, <1>2, RInvHolds, PTL DEF Spec, DealsInTurns, Turns!Spec
=============================================================================
