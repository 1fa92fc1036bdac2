------------------------ MODULE SegmentPlayer_proofs ------------------------
(***************************************************************************)
(* What holds of SegmentPlayer for any rows of segments, any length of the *)
(* recording and any number of double clicks: the player is not heard      *)
(* beyond the segment, the page hangs only in the row of another choice,   *)
(* and the list of a row is sorted, stable, and has a colour for each      *)
(* label.                                                                  *)
(*                                                                         *)
(* The last of them is about the bubble sort of the page: its passes are   *)
(* taken one comparison at a time, by induction over the natural numbers   *)
(* (SetInduction).                                                         *)
(***************************************************************************)
EXTENDS SegmentPlayer, SequenceTheorems, FiniteSetTheorems, WellFoundedInduction, TLAPS

-----------------------------------------------------------------------------
(* Natural numbers.                                                         *)
LEMMA LeastNumber ==
  ASSUME NEW S \in SUBSET Nat, S # {}
  PROVE  \E m \in S : \A k \in S : m <= k
<1> DEFINE R == OpToRel(<, Nat)
<1>1. IsWellFoundedOn(R, Nat)
  BY NatLessThanWellFounded, Zenon
<1>2. \A m, k \in Nat : <<k, m>> \notin R => m <= k
  BY DEF OpToRel
<1> HIDE DEF R
<1>3. PICK m \in S : \A k \in S : <<k, m>> \notin R
  BY <1>1, WFMin, Zenon
<1> QED BY <1>2, <1>3

(* Induction, for a set instead of a predicate.                             *)
LEMMA SetInduction ==
  ASSUME NEW T \in SUBSET Nat, 0 \in T, \A n \in T : n + 1 \in T
  PROVE  T = Nat
<1>1. ASSUME Nat \ T # {} PROVE FALSE
  <2>1. PICK m \in Nat \ T : \A k \in Nat \ T : m <= k
    BY <1>1, LeastNumber
  <2>2. m - 1 \in Nat /\ (m - 1) + 1 = m
    BY <2>1
  <2> QED BY <2>1, <2>2
<1> QED BY <1>1

LEMMA MinIsLeast ==
  ASSUME NEW S \in SUBSET Nat, S # {}
  PROVE  Min(S) \in S /\ \A k \in S : Min(S) <= k
BY LeastNumber DEF Min

LEMMA MaxIsGreatest ==
  ASSUME NEW n \in Nat, NEW S \in SUBSET (0..n), S # {}
  PROVE  Max(S) \in S /\ \A k \in S : k <= Max(S)
<1> DEFINE T == {n - k : k \in S}
<1>1. T \in SUBSET Nat /\ T # {}
  <2>1. PICK k \in S : TRUE
    OBVIOUS
  <2>2. n - k \in T
    BY <2>1
  <2>3. T \subseteq Nat
    OBVIOUS
  <2> QED BY <2>2, <2>3
<1>2. PICK d \in T : \A e \in T : d <= e
  BY <1>1, LeastNumber
<1>3. PICK m \in S : d = n - m
  BY <1>2
<1>4. ASSUME NEW k \in S PROVE k <= m
  <2>1. n - m <= n - k
    BY <1>2, <1>3
  <2> QED BY <2>1
<1> QED BY <1>3, <1>4 DEF Max

-----------------------------------------------------------------------------
(* One comparison of the sort.                                              *)
LEMMA BubbleStepDoes ==
  ASSUME NEW n \in Nat, NEW list \in [1..n -> Segment], NEW i \in 1..(n - 1)
  PROVE  /\ BubbleStep(list, i) \in [1..n -> Segment]
         /\ \A k \in 1..n : k # i /\ k # i + 1 => BubbleStep(list, i)[k] = list[k]
         /\ \/ /\ list[i].l > list[i + 1].l
               /\ BubbleStep(list, i)[i] = list[i + 1]
               /\ BubbleStep(list, i)[i + 1] = list[i]
            \/ /\ list[i].l <= list[i + 1].l
               /\ BubbleStep(list, i) = list
<1>1. i \in 1..n /\ i + 1 \in 1..n /\ i # i + 1
  OBVIOUS
<1>2. list[i].l \in Nat /\ list[i + 1].l \in Nat
  BY <1>1 DEF Segment
<1> QED BY <1>1, <1>2 DEF BubbleStep

(* The comparisons of a pass, and the passes of the sort.                   *)
Comparisons(list, m, f) ==
  f = [i \in 0..m |-> IF i = 0 THEN list ELSE BubbleStep(f[i - 1], i)]

LEMMA ComparisonsExist ==
  ASSUME NEW list, NEW m \in Nat
  PROVE  \E f : Comparisons(list, m, f)
<1> DEFINE T == {n \in Nat : \E f : Comparisons(list, n, f)}
<1>1. 0 \in T
  <2>1. Comparisons(list, 0, [i \in 0..0 |-> list])
    BY DEF Comparisons
  <2> QED BY <2>1
<1>2. ASSUME NEW n \in T PROVE n + 1 \in T
  <2>1. PICK f : Comparisons(list, n, f)
    OBVIOUS
  <2> DEFINE g == [i \in 0..(n + 1) |->
                     IF i = n + 1 THEN BubbleStep(f[n], n + 1) ELSE f[i]]
  <2>2. Comparisons(list, n + 1, g)
    BY <2>1 DEF Comparisons
  <2> QED BY <2>2
<1>3. T = Nat
  <2>1. T \subseteq Nat
    OBVIOUS
  <2> HIDE DEF T
  <2> QED BY <1>1, <1>2, <2>1, SetInduction
<1> QED BY <1>3

Passes(list, m, f) ==
  f = [i \in 0..m |-> IF i = 0 THEN list ELSE BubblePass(f[i - 1])]

LEMMA PassesExist ==
  ASSUME NEW list, NEW m \in Nat
  PROVE  \E f : Passes(list, m, f)
<1> DEFINE T == {n \in Nat : \E f : Passes(list, n, f)}
<1>1. 0 \in T
  <2>1. Passes(list, 0, [i \in 0..0 |-> list])
    BY DEF Passes
  <2> QED BY <2>1
<1>2. ASSUME NEW n \in T PROVE n + 1 \in T
  <2>1. PICK f : Passes(list, n, f)
    OBVIOUS
  <2> DEFINE g == [i \in 0..(n + 1) |->
                     IF i = n + 1 THEN BubblePass(f[n]) ELSE f[i]]
  <2>2. Passes(list, n + 1, g)
    BY <2>1 DEF Passes
  <2> QED BY <2>2
<1>3. T = Nat
  <2>1. T \subseteq Nat
    OBVIOUS
  <2> HIDE DEF T
  <2> QED BY <1>1, <1>2, <2>1, SetInduction
<1> QED BY <1>3

(* They are the ones the functions of the page make.                        *)
LEMMA PassMakes ==
  ASSUME NEW list, Len(list) \in Nat, Len(list) # 0
  PROVE  \E f : /\ Comparisons(list, Len(list) - 1, f)
                /\ BubblePass(list) = f[Len(list) - 1]
<1> DEFINE m == Len(list) - 1
           f == CHOOSE g : Comparisons(list, m, g)
<1>1. m \in Nat
  OBVIOUS
<1>2. Comparisons(list, m, f)
  <2> HIDE DEF m
  <2> QED BY <1>1, ComparisonsExist
<1>3. BubblePass(list) = f[m]
  BY DEF BubblePass, Comparisons
<1> QED BY <1>2, <1>3

LEMMA SortMakes ==
  ASSUME NEW list, Len(list) \in Nat
  PROVE  \E f : Passes(list, Len(list), f) /\ stableSort(list) = f[Len(list)]
<1> DEFINE f == CHOOSE g : Passes(list, Len(list), g)
<1>1. Passes(list, Len(list), f)
  BY PassesExist
<1>2. stableSort(list) = f[Len(list)]
  BY DEF stableSort, Passes
<1> QED BY <1>1, <1>2

-----------------------------------------------------------------------------
(* The sort is stable: p says where in list the segments of line come from, *)
(* and those of a label stay in their order.                                *)
ComesFrom(n, list, line, p) ==
  /\ line \in [1..n -> Segment] /\ p \in [1..n -> 1..n]
  /\ \A k \in 1..n : line[k] = list[p[k]]
  /\ \A j, k \in 1..n : p[j] = p[k] => j = k
  /\ \A j, k \in 1..n : j < k /\ line[j].l = line[k].l => p[j] < p[k]

LEMMA StepIsStable ==
  ASSUME NEW n \in Nat, NEW list, NEW line, NEW p, ComesFrom(n, list, line, p),
         NEW i \in 1..(n - 1)
  PROVE  \E q : ComesFrom(n, list, BubbleStep(line, i), q)
<1> DEFINE line2 == BubbleStep(line, i)
           at(k) == IF k = i THEN i + 1 ELSE IF k = i + 1 THEN i ELSE k
           q == [k \in 1..n |-> p[at(k)]]
<1>0. line \in [1..n -> Segment]
  BY DEF ComesFrom
<1>1. /\ line2 \in [1..n -> Segment]
      /\ \A k \in 1..n : k # i /\ k # i + 1 => line2[k] = line[k]
      /\ \/ /\ line[i].l > line[i + 1].l
            /\ line2[i] = line[i + 1] /\ line2[i + 1] = line[i]
         \/ line[i].l <= line[i + 1].l /\ line2 = line
  BY <1>0, BubbleStepDoes
<1> HIDE DEF line2
<1>2. CASE line2 = line
  BY <1>2 DEF line2
<1>3. CASE /\ line[i].l > line[i + 1].l
           /\ line2[i] = line[i + 1] /\ line2[i + 1] = line[i]
  <2>1. /\ i \in 1..n /\ i + 1 \in 1..n
        /\ \A k \in 1..n : at(k) \in 1..n
        /\ \A j, k \in 1..n : at(j) = at(k) => j = k
        /\ \A j, k \in 1..n : j < k => at(j) < at(k) \/ (j = i /\ k = i + 1)
    OBVIOUS
  <2>2. \A k \in 1..n : line2[k] = line[at(k)]
    BY <1>1, <1>3
  <2>3. line[i].l \in Nat /\ line[i + 1].l \in Nat
    BY <1>0, <2>1 DEF Segment
  <2>4. line2[i].l # line2[i + 1].l
    <3>1. line2[i].l = line[i + 1].l /\ line2[i + 1].l = line[i].l
      BY <1>3
    <3> QED BY <1>3, <2>3, <3>1
  <2> HIDE DEF at
  <2>5. q \in [1..n -> 1..n] /\ \A k \in 1..n : q[k] = p[at(k)]
    BY <2>1 DEF ComesFrom
  <2> HIDE DEF q
  <2>6. ASSUME NEW k \in 1..n PROVE line2[k] = list[q[k]]
    <3>1. at(k) \in 1..n /\ line2[k] = line[at(k)] /\ q[k] = p[at(k)]
      BY <2>1, <2>2, <2>5
    <3>2. line[at(k)] = list[p[at(k)]]
      BY <3>1 DEF ComesFrom
    <3> QED BY <3>1, <3>2
  <2>7. \A j, k \in 1..n : q[j] = q[k] => j = k
    BY <2>1, <2>5 DEF ComesFrom
  <2>8. ASSUME NEW j \in 1..n, NEW k \in 1..n, j < k, line2[j].l = line2[k].l
        PROVE  q[j] < q[k]
    <3>1. at(j) < at(k)
      BY <2>1, <2>4, <2>8
    <3>2. line[at(j)].l = line[at(k)].l
      BY <2>2, <2>8
    <3>3. p[at(j)] < p[at(k)]
      BY <2>1, <3>1, <3>2 DEF ComesFrom
    <3> QED BY <2>5, <3>3
  <2>9. ComesFrom(n, list, line2, q)
    BY <1>1, <2>5, <2>6, <2>7, <2>8 DEF ComesFrom
  <2> QED BY <2>9 DEF line2
<1> QED BY <1>1, <1>2, <1>3

LEMMA PassIsStable ==
  ASSUME NEW n \in Nat, n # 0, NEW list, NEW line,
         \E p : ComesFrom(n, list, line, p)
  PROVE  \E q : ComesFrom(n, list, BubblePass(line), q)
<1>1. Len(line) = n
  BY DEF ComesFrom
<1>2. PICK f : Comparisons(line, n - 1, f) /\ BubblePass(line) = f[n - 1]
  BY <1>1, PassMakes
<1> DEFINE T == {i \in Nat : i <= n - 1 => \E q : ComesFrom(n, list, f[i], q)}
<1>3. 0 \in T
  BY <1>2 DEF Comparisons
<1>4. ASSUME NEW i \in T PROVE i + 1 \in T
  <2>1. SUFFICES ASSUME i + 1 <= n - 1
                 PROVE  \E q : ComesFrom(n, list, f[i + 1], q)
    OBVIOUS
  <2>2. PICK p : ComesFrom(n, list, f[i], p)
    BY <2>1
  <2>3. f[i + 1] = BubbleStep(f[i], i + 1)
    BY <1>2, <2>1 DEF Comparisons
  <2>4. i + 1 \in 1..(n - 1)
    BY <2>1
  <2> QED BY <2>2, <2>3, <2>4, StepIsStable
<1>5. T = Nat
  <2>1. T \subseteq Nat
    OBVIOUS
  <2> HIDE DEF T
  <2> QED BY <1>3, <1>4, <2>1, SetInduction
<1>6. n - 1 \in T
  BY <1>5
<1> QED BY <1>2, <1>6

LEMMA SortIsStable ==
  ASSUME NEW n \in Nat, n # 0, NEW list \in [1..n -> Segment]
  PROVE  \E p : ComesFrom(n, list, stableSort(list), p)
<1>1. Len(list) = n
  OBVIOUS
<1>2. PICK f : Passes(list, n, f) /\ stableSort(list) = f[n]
  BY <1>1, SortMakes
<1> DEFINE T == {m \in Nat : m <= n => \E p : ComesFrom(n, list, f[m], p)}
<1>3. 0 \in T
  <2>1. ComesFrom(n, list, list, [k \in 1..n |-> k])
    BY DEF ComesFrom
  <2>2. f[0] = list
    BY <1>2 DEF Passes
  <2> QED BY <2>1, <2>2
<1>4. ASSUME NEW m \in T PROVE m + 1 \in T
  <2>1. SUFFICES ASSUME m + 1 <= n
                 PROVE  \E p : ComesFrom(n, list, f[m + 1], p)
    OBVIOUS
  <2>2. \E p : ComesFrom(n, list, f[m], p)
    BY <2>1
  <2>3. f[m + 1] = BubblePass(f[m])
    BY <1>2, <2>1 DEF Passes
  <2> QED BY <2>2, <2>3, PassIsStable
<1>5. T = Nat
  <2>1. T \subseteq Nat
    OBVIOUS
  <2> HIDE DEF T
  <2> QED BY <1>3, <1>4, <2>1, SetInduction
<1> QED BY <1>2, <1>5

-----------------------------------------------------------------------------
(* The sort sorts.  After m passes the last m segments are in their places. *)
LastInPlace(n, line, m) ==
  \A j, k \in 1..n : j < k /\ k > n - m => line[j].l <= line[k].l

(* Within a pass, the greatest segment met is carried along, as far as the  *)
(* place of the next one.                                                   *)
Carried(n, line, at) == \A j \in 1..at : line[j].l <= line[at].l

LEMMA StepCarries ==
  ASSUME NEW n \in Nat, NEW line \in [1..n -> Segment], NEW i \in 1..(n - 1),
         NEW m \in 0..(n - 1), LastInPlace(n, line, m),
         Carried(n, line, IF i <= n - m THEN i ELSE n - m)
  PROVE  /\ LastInPlace(n, BubbleStep(line, i), m)
         /\ Carried(n, BubbleStep(line, i), IF i + 1 <= n - m THEN i + 1 ELSE n - m)
<1> DEFINE line2 == BubbleStep(line, i)
<1>1. /\ line2 \in [1..n -> Segment]
      /\ \A k \in 1..n : k # i /\ k # i + 1 => line2[k] = line[k]
      /\ \/ /\ line[i].l > line[i + 1].l
            /\ line2[i] = line[i + 1] /\ line2[i + 1] = line[i]
         \/ line[i].l <= line[i + 1].l /\ line2 = line
  BY BubbleStepDoes
<1> HIDE DEF line2
<1> DEFINE key == [k \in 1..n |-> line[k].l]
           key2 == [k \in 1..n |-> line2[k].l]
<1>2. key \in [1..n -> Nat] /\ key2 \in [1..n -> Nat]
  BY <1>1 DEF Segment
<1>3. /\ \A k \in 1..n : key[k] = line[k].l
      /\ \A k \in 1..n : key2[k] = line2[k].l
  OBVIOUS
<1>4. i \in 1..n /\ i + 1 \in 1..n
  OBVIOUS
<1>5. /\ \A k \in 1..n : k # i /\ k # i + 1 => key2[k] = key[k]
      /\ \/ key[i] > key[i + 1] /\ key2[i] = key[i + 1] /\ key2[i + 1] = key[i]
         \/ key[i] <= key[i + 1] /\ key2 = key
  BY <1>1, <1>4
<1>6. \A j, k \in 1..n : j < k /\ k > n - m => key[j] <= key[k]
  BY <1>3 DEF LastInPlace
<1>7. ASSUME i >= n - m PROVE key2 = key
  <2>1. key[i] <= key[i + 1]
    BY <1>4, <1>6, <1>7
  <2>2. key[i] \in Nat /\ key[i + 1] \in Nat
    BY <1>2, <1>4
  <2> HIDE DEF key, key2
  <2> QED BY <1>5, <2>1, <2>2
<1>8. \A j \in 1..n : IF i <= n - m THEN j <= i => key[j] <= key[i]
                      ELSE j <= n - m => key[j] <= key[n - m]
  BY <1>3, <1>4 DEF Carried
<1> HIDE DEF key, key2
<1>9. ASSUME NEW j \in 1..n, NEW k \in 1..n, j < k, k > n - m
      PROVE  key2[j] <= key2[k]
  <2>1. CASE key2 = key
    BY <1>6, <1>9, <2>1
  <2>2. CASE key2 # key
    <3>1. i < n - m /\ i + 1 < k
      BY <1>7, <1>9, <2>2
    <3>2. key2[k] = key[k]
      BY <1>5, <3>1
    <3>3. key2[j] = key[j] \/ key2[j] = key[i] \/ key2[j] = key[i + 1]
      BY <1>5
    <3>4. key[j] <= key[k] /\ key[i] <= key[k] /\ key[i + 1] <= key[k]
      BY <1>4, <1>6, <1>9, <3>1
    <3> QED BY <3>2, <3>3, <3>4
  <2> QED BY <2>1, <2>2
<1>10. LastInPlace(n, line2, m)
  BY <1>3, <1>9 DEF LastInPlace
<1>11. CASE i < n - m
  <2>1. \A j \in 1..n : j <= i + 1 => key2[j] <= key2[i + 1]
    BY <1>2, <1>4, <1>5, <1>8, <1>11
  <2>2. Carried(n, line2, i + 1)
    BY <1>3, <1>4, <2>1 DEF Carried
  <2>3. i + 1 <= n - m
    BY <1>11
  <2> QED BY <1>10, <2>2, <2>3 DEF line2
<1>12. CASE i >= n - m
  <2>1. n - m \in 1..n
    OBVIOUS
  <2>2. \A j \in 1..n : j <= n - m => key2[j] <= key2[n - m]
    BY <1>4, <1>7, <1>8, <1>12, <2>1
  <2>3. Carried(n, line2, n - m)
    BY <1>3, <2>1, <2>2 DEF Carried
  <2>4. ~(i + 1 <= n - m)
    BY <1>12
  <2> QED BY <1>10, <2>3, <2>4 DEF line2
<1> QED BY <1>11, <1>12

LEMMA PassPlaces ==
  ASSUME NEW n \in Nat, NEW line \in [1..n -> Segment], NEW m \in 0..(n - 1),
         LastInPlace(n, line, m)
  PROVE  /\ BubblePass(line) \in [1..n -> Segment]
         /\ LastInPlace(n, BubblePass(line), m + 1)
<1>1. Len(line) = n /\ n # 0 /\ n - 1 \in Nat
  OBVIOUS
<1>2. PICK f : Comparisons(line, n - 1, f) /\ BubblePass(line) = f[n - 1]
  BY <1>1, PassMakes
<1> DEFINE end(i) == IF i + 1 <= n - m THEN i + 1 ELSE n - m
           Good(l, i) == /\ l \in [1..n -> Segment] /\ LastInPlace(n, l, m)
                         /\ Carried(n, l, end(i))
           T == {i \in Nat : i <= n - 1 => Good(f[i], i)}
<1>3. 0 \in T
  <2>1. f[0] = line
    BY <1>1, <1>2 DEF Comparisons
  <2>2. end(0) = 1
    OBVIOUS
  <2>3. Carried(n, line, 1)
    <3>1. line[1].l \in Nat
      BY <1>1 DEF Segment
    <3> QED BY <3>1 DEF Carried
  <2> QED BY <2>1, <2>2, <2>3
<1>4. ASSUME NEW i \in T PROVE i + 1 \in T
  <2>1. SUFFICES ASSUME i + 1 <= n - 1 PROVE Good(f[i + 1], i + 1)
    OBVIOUS
  <2>2. Good(f[i], i) /\ i + 1 \in 1..(n - 1)
    BY <2>1
  <2>3. f[i + 1] = BubbleStep(f[i], i + 1)
    BY <1>2, <2>1 DEF Comparisons
  <2>4. BubbleStep(f[i], i + 1) \in [1..n -> Segment]
    BY <2>2, BubbleStepDoes
  <2>5. /\ LastInPlace(n, BubbleStep(f[i], i + 1), m)
        /\ Carried(n, BubbleStep(f[i], i + 1),
                   IF (i + 1) + 1 <= n - m THEN (i + 1) + 1 ELSE n - m)
    BY <2>2, StepCarries
  <2> QED BY <2>3, <2>4, <2>5
<1>5. T = Nat
  <2>1. T \subseteq Nat
    OBVIOUS
  <2> HIDE DEF T
  <2> QED BY <1>3, <1>4, <2>1, SetInduction
<1>6. Good(BubblePass(line), n - 1)
  BY <1>1, <1>2, <1>5
<1>7. end(n - 1) = n - m
  BY <1>1
<1> HIDE DEF end
<1>8. LastInPlace(n, BubblePass(line), m + 1)
  BY <1>6, <1>7 DEF LastInPlace, Carried
<1> QED BY <1>6, <1>8

LEMMA SortSorts ==
  ASSUME NEW n \in Nat, n # 0, NEW list \in [1..n -> Segment]
  PROVE  \A j, k \in 1..n : j < k => stableSort(list)[j].l <= stableSort(list)[k].l
<1>1. Len(list) = n
  OBVIOUS
<1>2. PICK f : Passes(list, n, f) /\ stableSort(list) = f[n]
  BY <1>1, SortMakes
<1> DEFINE T == {m \in Nat : m <= n => /\ f[m] \in [1..n -> Segment]
                                        /\ LastInPlace(n, f[m], m)}
<1>3. 0 \in T
  BY <1>2 DEF Passes, LastInPlace
<1>4. ASSUME NEW m \in T PROVE m + 1 \in T
  <2>1. SUFFICES ASSUME m + 1 <= n
                 PROVE  /\ f[m + 1] \in [1..n -> Segment]
                        /\ LastInPlace(n, f[m + 1], m + 1)
    OBVIOUS
  <2>2. f[m + 1] = BubblePass(f[m])
    BY <1>2, <2>1 DEF Passes
  <2>3. m \in 0..(n - 1) /\ f[m] \in [1..n -> Segment] /\ LastInPlace(n, f[m], m)
    BY <2>1
  <2> QED BY <2>2, <2>3, PassPlaces
<1>5. T = Nat
  <2>1. T \subseteq Nat
    OBVIOUS
  <2> HIDE DEF T
  <2> QED BY <1>3, <1>4, <2>1, SetInduction
<1>6. LastInPlace(n, f[n], n)
  BY <1>5
<1> QED BY <1>2, <1>6 DEF LastInPlace

-----------------------------------------------------------------------------
(* The colours of a sorted row: count goes up where the label changes.      *)
Changes(line, j) == {k \in 2..j : line[k].l # line[k - 1].l}

SortedBy(n, line) ==
  /\ line \in [1..n -> Segment]
  /\ \A j, k \in 1..n : j < k => line[j].l <= line[k].l

LEMMA ChangesGrow ==
  ASSUME NEW n \in Nat, NEW line, NEW i \in 0..n, NEW j \in 0..n, i <= j
  PROVE  /\ Changes(line, i) \subseteq Changes(line, j)
         /\ LabelChanges(line, i) \in Nat /\ LabelChanges(line, j) \in Nat
         /\ LabelChanges(line, i) <= LabelChanges(line, j)
         /\ (\E k \in Changes(line, j) : k > i)
              => LabelChanges(line, i) < LabelChanges(line, j)
<1>1. Changes(line, i) \subseteq Changes(line, j)
  BY DEF Changes
<1>2. IsFiniteSet(Changes(line, i)) /\ IsFiniteSet(Changes(line, j))
  <2>1. IsFiniteSet(2..i) /\ IsFiniteSet(2..j)
    BY FS_Interval
  <2>2. Changes(line, i) \subseteq 2..i /\ Changes(line, j) \subseteq 2..j
    BY DEF Changes
  <2> QED BY <2>1, <2>2, FS_Subset
<1>3. /\ LabelChanges(line, i) = Cardinality(Changes(line, i))
      /\ LabelChanges(line, j) = Cardinality(Changes(line, j))
  BY DEF LabelChanges, Changes
<1>4. LabelChanges(line, i) \in Nat /\ LabelChanges(line, j) \in Nat
  BY <1>2, <1>3, FS_CardinalityType
<1>5. /\ LabelChanges(line, i) <= LabelChanges(line, j)
      /\ LabelChanges(line, i) = LabelChanges(line, j)
           => Changes(line, i) = Changes(line, j)
  BY <1>1, <1>2, <1>3, FS_Subset
<1>6. ASSUME NEW k \in Changes(line, j), k > i
      PROVE  LabelChanges(line, i) < LabelChanges(line, j)
  <2>1. k \notin Changes(line, i)
    BY <1>6 DEF Changes
  <2> QED BY <1>4, <1>5, <1>6, <2>1
<1> QED BY <1>1, <1>4, <1>5, <1>6

(* The last segment with a label.                                           *)
LastOf(line, sign) == Max({k \in DOMAIN line : line[k].l = sign})

LEMMA LastOfLabel ==
  ASSUME NEW n \in Nat, NEW line, SortedBy(n, line), NEW sign \in Labels(line)
  PROVE  /\ LastOf(line, sign) \in 1..n /\ line[LastOf(line, sign)].l = sign
         /\ \A k \in 1..n : line[k].l = sign => k <= LastOf(line, sign)
<1> DEFINE S == {k \in DOMAIN line : line[k].l = sign}
<1>1. DOMAIN line = 1..n
  BY DEF SortedBy
<1>2. S \subseteq 0..n /\ S # {}
  BY <1>1 DEF Labels
<1>3. Max(S) \in S /\ \A k \in S : k <= Max(S)
  <2> HIDE DEF S
  <2> QED BY <1>2, MaxIsGreatest
<1> QED BY <1>1, <1>3 DEF LastOf

(* Labels in order have colours in order.                                   *)
LEMMA ColoursDiffer ==
  ASSUME NEW n \in Nat, NEW line, SortedBy(n, line),
         NEW s \in Labels(line), NEW t \in Labels(line), s < t
  PROVE  LabelChanges(line, LastOf(line, s)) < LabelChanges(line, LastOf(line, t))
<1> DEFINE i == LastOf(line, s)
           j == LastOf(line, t)
<1>1. /\ i \in 1..n /\ line[i].l = s /\ \A k \in 1..n : line[k].l = s => k <= i
      /\ j \in 1..n /\ line[j].l = t
  BY LastOfLabel
<1> HIDE DEF i, j
<1>2. s \in Nat /\ t \in Nat
  BY <1>1 DEF SortedBy, Segment
<1>3. i < j
  <2>1. i # j
    BY <1>1, <1>2
  <2>2. ~(j < i)
    <3>1. j < i => t <= s
      BY <1>1 DEF SortedBy
    <3> QED BY <1>2, <3>1
  <2> QED BY <1>1, <2>1, <2>2
<1>4. i + 1 \in Changes(line, j)
  <2>1. i + 1 \in 2..j /\ i + 1 \in 1..n /\ (i + 1) - 1 = i
    BY <1>1, <1>3
  <2>2. line[i + 1].l # line[i].l
    BY <1>1, <2>1
  <2> QED BY <2>1, <2>2 DEF Changes
<1>5. i \in 0..n /\ j \in 0..n /\ i <= j /\ i + 1 > i
  BY <1>1, <1>3
<1>6. LabelChanges(line, i) < LabelChanges(line, j)
  BY <1>4, <1>5, ChangesGrow
<1> QED BY <1>6 DEF i, j

(* The label changes once less often than there are labels: the first       *)
(* segment of each label is the first of the row, or one where it changes.  *)
LEMMA LabelsCounted ==
  ASSUME NEW n \in Nat, n # 0, NEW line, SortedBy(n, line)
  PROVE  Cardinality(Labels(line)) = LabelChanges(line, n) + 1
<1> DEFINE C == Changes(line, n)
           K == C \cup {1}
           f == [k \in K |-> line[k].l]
<1>1. line \in [1..n -> Segment] /\ DOMAIN line = 1..n /\ 1 \in 1..n
  BY DEF SortedBy
<1>2. IsFiniteSet(C) /\ 1 \notin C /\ LabelChanges(line, n) = Cardinality(C)
  <2>1. C \subseteq 2..n
    BY DEF Changes
  <2>2. IsFiniteSet(2..n)
    BY FS_Interval
  <2> QED BY <2>1, <2>2, FS_Subset DEF Changes, LabelChanges
<1>3. IsFiniteSet(K) /\ Cardinality(K) = LabelChanges(line, n) + 1
  BY <1>2, FS_AddElement
<1>4. \A k \in K : /\ k \in 1..n
                   /\ k # 1 => k - 1 \in 1..n /\ line[k].l # line[k - 1].l
  BY <1>1 DEF Changes
<1>5. \A k \in 1..n : line[k].l \in Nat /\ line[k].l \in Labels(line)
  BY <1>1 DEF Segment, Labels
<1> HIDE DEF C, K
<1>6. ASSUME NEW j \in K, NEW k \in K, j < k PROVE line[j].l # line[k].l
  <2>1. j \in 1..n /\ k \in 1..n /\ k - 1 \in 1..n /\ line[k].l # line[k - 1].l
    BY <1>4, <1>6
  <2>2. line[k - 1].l <= line[k].l
    BY <2>1 DEF SortedBy
  <2>3. line[j].l <= line[k - 1].l
    <3>1. CASE j = k - 1
      BY <1>5, <2>1, <3>1
    <3>2. CASE j # k - 1
      <4>1. j < k - 1
        BY <1>6, <2>1, <3>2
      <4> QED BY <2>1, <4>1 DEF SortedBy
    <3> QED BY <3>1, <3>2
  <2> QED BY <1>5, <2>1, <2>2, <2>3
<1>7. f \in Injection(K, Labels(line))
  <2>1. f \in [K -> Labels(line)]
    BY <1>4, <1>5
  <2>2. \A j, k \in K : f[j] = f[k] => j = k
    BY <1>4, <1>6
  <2> QED BY <2>1, <2>2 DEF Injection, IsInjective
<1>8. ASSUME NEW sign \in Labels(line) PROVE \E k \in K : f[k] = sign
  <2> DEFINE S == {k \in 1..n : line[k].l = sign}
  <2>1. S \in SUBSET Nat /\ S # {}
    BY <1>1 DEF Labels
  <2>2. PICK k \in S : \A i \in S : k <= i
    <3> HIDE DEF S
    <3> QED BY <2>1, LeastNumber
  <2>3. CASE k = 1
    BY <2>2, <2>3 DEF K
  <2>4. CASE k # 1
    <3>1. k \in 2..n /\ k - 1 \in 1..n
      BY <2>2, <2>4
    <3>2. line[k - 1].l # sign
      BY <2>2, <3>1
    <3>3. k \in K
      BY <2>2, <3>1, <3>2 DEF K, C, Changes
    <3> QED BY <2>2, <3>3
  <2> QED BY <2>3, <2>4
<1>9. f \in Surjection(K, Labels(line))
  BY <1>7, <1>8 DEF Injection, Surjection
<1>10. Cardinality(Labels(line)) = Cardinality(K)
  <2> HIDE DEF f
  <2> QED BY <1>3, <1>7, <1>9, FS_Surjection
<1> QED BY <1>3, <1>10

-----------------------------------------------------------------------------
(* A row, and what process makes of it.                                     *)
LEMMA RowFacts ==
  ASSUME NEW r \in Row
  PROVE  /\ Len(Data[r]) \in Nat /\ Len(Data[r]) # 0
         /\ DOMAIN Data[r] = 1..Len(Data[r])
         /\ Data[r] \in [1..Len(Data[r]) -> Segment]
         /\ \A k \in DOMAIN Data[r] :
              /\ Data[r][k].o \in Nat /\ Data[r][k].f \in Nat /\ Data[r][k].l \in Nat
              /\ Data[r][k].o + 1 < Data[r][k].f /\ Data[r][k].f <= AudioLength
<1>1. Data[r] \in Seq(Segment) /\ Data[r] # <<>>
  BY DataAssumption
<1>2. /\ Len(Data[r]) \in Nat /\ Len(Data[r]) # 0
      /\ DOMAIN Data[r] = 1..Len(Data[r])
      /\ Data[r] \in [1..Len(Data[r]) -> Segment]
  BY <1>1, EmptySeq, LenProperties
<1>3. ASSUME NEW k \in DOMAIN Data[r]
      PROVE  /\ Data[r][k].o \in Nat /\ Data[r][k].f \in Nat /\ Data[r][k].l \in Nat
             /\ Data[r][k].o + 1 < Data[r][k].f /\ Data[r][k].f <= AudioLength
  <2>1. Data[r][k] \in Segment
    BY <1>2
  <2> QED BY <2>1, DataAssumption, AudioAssumption DEF Segment
<1> QED BY <1>2, <1>3

LEMMA ListIsSorted ==
  ASSUME NEW r \in Row
  PROVE  /\ IsStableSort(Data[r], process(r).line)
         /\ SortedBy(Len(Data[r]), process(r).line)
         /\ Labels(process(r).line) = Labels(Data[r])
         /\ \A k \in DOMAIN Data[r] :
              \E i \in DOMAIN Data[r] : process(r).line[k] = Data[r][i]
<1> DEFINE list == Data[r]
           n == Len(list)
           line == stableSort(list)
<1>1. /\ n \in Nat /\ n # 0 /\ DOMAIN list = 1..n /\ list \in [1..n -> Segment]
  BY RowFacts
<1>2. process(r).line = line
  BY DEF process
<1> HIDE DEF n, list, line
<1>3. PICK p : ComesFrom(n, list, line, p)
  <2>1. \E p : ComesFrom(n, list, stableSort(list), p)
    BY <1>1, SortIsStable
  <2> QED BY <2>1 DEF line
<1>4. /\ line \in [1..n -> Segment] /\ p \in [1..n -> 1..n]
      /\ \A k \in 1..n : line[k] = list[p[k]]
      /\ \A j, k \in 1..n : p[j] = p[k] => j = k
      /\ \A j, k \in 1..n : j < k /\ line[j].l = line[k].l => p[j] < p[k]
  BY <1>3 DEF ComesFrom
<1>5. SortedBy(n, line)
  <2>1. \A j, k \in 1..n : j < k => line[j].l <= line[k].l
    BY <1>1, SortSorts DEF line
  <2> QED BY <1>4, <2>1 DEF SortedBy
<1>6. IsStableSort(list, line)
  <2>1. p \in [DOMAIN list -> DOMAIN list] /\ IsInjective(p)
    BY <1>1, <1>4 DEF IsInjective
  <2>2. line = [k \in DOMAIN list |-> list[p[k]]]
    BY <1>1, <1>4
  <2>3. ASSUME NEW j \in DOMAIN list, NEW k \in DOMAIN list, j < k
        PROVE  \/ line[j].l < line[k].l
               \/ line[j].l = line[k].l /\ p[j] < p[k]
    <3>1. line[j].l <= line[k].l /\ line[j].l \in Nat /\ line[k].l \in Nat
      BY <1>1, <1>5, <2>3 DEF SortedBy, Segment
    <3>2. line[j].l = line[k].l => p[j] < p[k]
      BY <1>1, <1>4, <2>3
    <3>3. line[j].l < line[k].l \/ line[j].l = line[k].l
      BY <3>1
    <3> QED BY <3>2, <3>3
  <2> QED BY <2>1, <2>2, <2>3 DEF IsStableSort
<1>7. Labels(line) = Labels(list)
  <2>1. p \in Surjection(1..n, 1..n)
    <3>1. p \in Injection(1..n, 1..n)
      BY <1>4 DEF Injection, IsInjective
    <3> QED BY <1>1, <3>1, FS_Injection, FS_Interval
  <2>2. DOMAIN line = 1..n
    BY <1>4
  <2>3. ASSUME NEW k \in 1..n PROVE list[k].l \in Labels(line)
    <3>1. PICK i \in 1..n : p[i] = k
      BY <2>1 DEF Surjection
    <3> QED BY <1>4, <2>2, <3>1 DEF Labels
  <2>4. ASSUME NEW k \in 1..n PROVE line[k].l \in Labels(list)
    BY <1>1, <1>4 DEF Labels
  <2> QED BY <1>1, <2>2, <2>3, <2>4 DEF Labels
<1>8. \A k \in DOMAIN list : \E i \in DOMAIN list : line[k] = list[i]
  BY <1>1, <1>4
<1> QED BY <1>2, <1>5, <1>6, <1>7, <1>8 DEF n, list

LEMMA ColoursAreRight ==
  ASSUME NEW r \in Row
  PROVE  LET stat == process(r) IN
           /\ DOMAIN stat.color = Labels(Data[r])
           /\ IsInjective(stat.color)
           /\ \A sign \in DOMAIN stat.color : stat.color[sign] \in 0..(stat.total - 1)
           /\ stat.total = Cardinality(Labels(Data[r]))
<1> DEFINE line == stableSort(Data[r])
           n == Len(Data[r])
           color == process(r).color
<1>1. n \in Nat /\ n # 0 /\ SortedBy(n, line) /\ Labels(line) = Labels(Data[r])
  BY RowFacts, ListIsSorted DEF process
<1>2. Len(line) = n
  BY <1>1 DEF SortedBy
<1>3. /\ color = [sign \in Labels(line) |-> LabelChanges(line, LastOf(line, sign))]
      /\ process(r).total = LabelChanges(line, Len(line)) + 1
  BY DEF process, LastOf
<1> HIDE DEF line, n, color
<1>4. DOMAIN color = Labels(line)
      /\ \A sign \in Labels(line) :
           color[sign] = LabelChanges(line, LastOf(line, sign))
  BY <1>3
<1>5. process(r).total = Cardinality(Labels(Data[r]))
  BY <1>1, <1>2, <1>3, LabelsCounted
<1>6. ASSUME NEW sign \in Labels(line)
      PROVE  color[sign] \in 0..(process(r).total - 1) /\ sign \in Nat
  <2>1. LastOf(line, sign) \in 1..n /\ line[LastOf(line, sign)].l = sign
    BY <1>1, LastOfLabel
  <2>2. LastOf(line, sign) \in 0..n /\ n \in 0..n /\ LastOf(line, sign) <= n
    BY <1>1, <2>1
  <2>3. /\ LabelChanges(line, LastOf(line, sign)) \in Nat
        /\ LabelChanges(line, n) \in Nat
        /\ LabelChanges(line, LastOf(line, sign)) <= LabelChanges(line, n)
    BY <1>1, <2>2, ChangesGrow
  <2>4. sign \in Nat
    BY <1>1, <2>1 DEF SortedBy, Segment
  <2> QED BY <1>2, <1>3, <1>4, <2>3, <2>4
<1>7. IsInjective(color)
  <2>1. ASSUME NEW s \in Labels(line), NEW t \in Labels(line), s < t
        PROVE  color[s] # color[t]
    <3>1. LabelChanges(line, LastOf(line, s)) < LabelChanges(line, LastOf(line, t))
      BY <1>1, <2>1, ColoursDiffer
    <3>2. color[s] < color[t] /\ color[s] \in Int /\ color[t] \in Int
      BY <1>4, <1>6, <3>1
    <3> QED BY <3>2
  <2>2. \A s, t \in Labels(line) : color[s] = color[t] => s = t
    BY <1>6, <2>1
  <2> QED BY <1>4, <2>2 DEF IsInjective
<1> QED BY <1>1, <1>4, <1>5, <1>6, <1>7 DEF color

-----------------------------------------------------------------------------
(* The search for a similar segment.                                        *)
LEMMA Remainder ==
  ASSUME NEW n \in Nat, n # 0, NEW x \in Nat
  PROVE  /\ x % n \in 0..(n - 1)
         /\ x < n => x % n = x
         /\ n <= x /\ x < n + n => x % n = x - n
<1>1. x % n \in 0..(n - 1)
  OBVIOUS
<1>2. ASSUME x < n PROVE x % n = x
  BY <1>2
<1>3. ASSUME n <= x, x < n + n PROVE x % n = x - n
  BY <1>3
<1> QED BY <1>1, <1>2, <1>3

LEMMA SearchIndexType ==
  ASSUME NEW r \in Row, NEW now
  PROVE  SearchIndex(Data[r], now) \in 0..Len(Data[r])
<1> DEFINE S == {k \in DOMAIN Data[r] : Data[r][k].f < now}
<1>1. /\ IsFiniteSet(1..Len(Data[r])) /\ Cardinality(1..Len(Data[r])) = Len(Data[r])
      /\ S \subseteq 1..Len(Data[r]) /\ Len(Data[r]) \in Nat
  <2>1. Len(Data[r]) \in Nat /\ DOMAIN Data[r] = 1..Len(Data[r])
    BY RowFacts
  <2>2. \A n \in Nat : IsFiniteSet(1..n) /\ Cardinality(1..n) = n
    BY FS_Interval
  <2> QED BY <2>1, <2>2
<1>2. IsFiniteSet(S) /\ Cardinality(S) <= Len(Data[r])
  BY <1>1, FS_Subset
<1>3. Cardinality(S) \in Nat
  BY <1>2, FS_CardinalityType
<1> QED BY <1>1, <1>2, <1>3 DEF SearchIndex

(* The segments that are over come first in the row, SearchIndex of them.   *)
LEMMA SearchIndexSplits ==
  ASSUME NEW r \in Row, NEW now \in Nat, NEW k \in DOMAIN Data[r]
  PROVE  Data[r][k].f < now <=> k <= SearchIndex(Data[r], now)
<1> DEFINE over == {j \in DOMAIN Data[r] : Data[r][j].f < now}
           L == Len(Data[r])
<1>1. L \in Nat /\ DOMAIN Data[r] = 1..L /\ \A j \in 1..L : Data[r][j].f \in Nat
  BY RowFacts
<1>2. \A i, j \in 1..L : i <= j => Data[r][i].f <= Data[r][j].f
  BY <1>1, DataAssumption
<1>3. over \subseteq 1..L /\ \A j \in 1..L : j \in over <=> Data[r][j].f < now
  BY <1>1
<1>4. \A i, j \in 1..L : j \in over /\ i <= j => i \in over
  BY <1>1, <1>2, <1>3
<1>5. SearchIndex(Data[r], now) = Cardinality(over)
  BY DEF SearchIndex
<1>6. k \in 1..L /\ (k \in over <=> Data[r][k].f < now)
  BY <1>1, <1>3
<1> HIDE DEF over, L
<1>7. PICK n \in 0..L : over = 1..n
  <2>1. CASE over = {}
    BY <1>1, <2>1
  <2>2. CASE over # {}
    <3>1. over \in SUBSET (0..L)
      BY <1>1, <1>3
    <3>2. PICK m \in over : \A j \in over : j <= m
      BY <1>1, <2>2, <3>1, MaxIsGreatest
    <3>3. m \in 1..L
      BY <1>3
    <3>4. over \subseteq 1..m
      <4>1. over \subseteq 1..L
        BY <1>3
      <4> QED BY <1>1, <3>2, <3>3, <4>1
    <3>5. 1..m \subseteq over
      BY <1>1, <1>4, <3>2, <3>3
    <3>6. over = 1..m
      BY <3>4, <3>5
    <3>7. m \in 0..L
      BY <1>1, <3>3
    <3> QED BY <3>6, <3>7
  <2> QED BY <2>1, <2>2
<1>8. Cardinality(1..n) = n
  BY <1>1, FS_Interval
<1> QED BY <1>1, <1>5, <1>6, <1>7, <1>8

(* In steps from the i-th of L segments, how far the j-th one is.           *)
distance(i, j, L) == IF i < j THEN j - 1 - i ELSE L + j - 1 - i

LEMMA StepsAreDistances ==
  ASSUME NEW r \in Row, NEW now, NEW j \in DOMAIN Data[r],
         NEW n, n = distance(SearchIndex(Data[r], now), j, Len(Data[r]))
  PROVE  n \in 0..(Len(Data[r]) - 1) /\ SegmentAfter(Data[r], now, n) = Data[r][j]
<1> DEFINE i == SearchIndex(Data[r], now)
           L == Len(Data[r])
<1>1. i \in 0..L /\ L \in Nat /\ L # 0 /\ j \in 1..L /\ n = distance(i, j, L)
  BY SearchIndexType, RowFacts
<1> HIDE DEF i, L
<1>2. n \in 0..(L - 1) /\ i + n \in Nat
  BY <1>1 DEF distance
<1>3. (i + n) % L = j - 1
  <2>1. CASE i < j
    <3>1. i + n = j - 1 /\ i + n < L
      BY <1>1, <2>1 DEF distance
    <3> QED BY <1>1, <1>2, <3>1, Remainder
  <2>2. CASE ~(i < j)
    <3>1. i + n = L + (j - 1) /\ L <= i + n /\ i + n < L + L /\ (i + n) - L = j - 1
      BY <1>1, <2>2 DEF distance
    <3> QED BY <1>1, <1>2, <3>1, Remainder
  <2> QED BY <2>1, <2>2
<1>4. ((i + n) % L) + 1 = j
  BY <1>1, <1>3
<1> QED BY <1>2, <1>4 DEF SegmentAfter, i, L

(* It looks at no other segments.                                           *)
LEMMA SearchStays ==
  ASSUME NEW r \in Row, NEW now, NEW n \in 0..(Len(Data[r]) - 1)
  PROVE  \E k \in DOMAIN Data[r] :
            n = distance(SearchIndex(Data[r], now), k, Len(Data[r]))
<1> DEFINE i == SearchIndex(Data[r], now)
           L == Len(Data[r])
           k == IF i + n < L THEN i + n + 1 ELSE i + n + 1 - L
<1>1. i \in 0..L /\ L \in Nat /\ L # 0 /\ DOMAIN Data[r] = 1..L /\ n \in 0..(L - 1)
  BY SearchIndexType, RowFacts
<1> HIDE DEF i, L
<1>2. k \in 1..L /\ n = distance(i, k, L)
  BY <1>1 DEF distance
<1> QED BY <1>1, <1>2 DEF i, L

(* So it finds one exactly if the row has the label: the one that ends      *)
(* first of those that are not over, or of all when they are all over.      *)
LEMMA SearchFinds ==
  ASSUME NEW r \in Row, NEW now, NEW sign
  PROVE  /\ StepsToLabel(Data[r], now, sign) = {} => sign \notin Labels(Data[r])
         /\ StepsToLabel(Data[r], now, sign) # {}
              => \E k \in DOMAIN Data[r] :
                   /\ findNextSegment(Data[r], now, sign) = Data[r][k]
                   /\ Data[r][k].l = sign
                   /\ \A j \in DOMAIN Data[r] :
                        Data[r][j].l = sign
                          => LET i == SearchIndex(Data[r], now)
                                 L == Len(Data[r])
                             IN  distance(i, k, L) <= distance(i, j, L)
<1> DEFINE S == StepsToLabel(Data[r], now, sign)
           i == SearchIndex(Data[r], now)
           L == Len(Data[r])
<1>1. ASSUME NEW j \in DOMAIN Data[r], Data[r][j].l = sign
      PROVE  distance(i, j, L) \in S
  <2>1. PICK n : n = distance(i, j, L)
    OBVIOUS
  <2>2. n \in 0..(L - 1) /\ SegmentAfter(Data[r], now, n) = Data[r][j]
    BY <2>1, StepsAreDistances
  <2> QED BY <1>1, <2>1, <2>2 DEF StepsToLabel
<1>2. ASSUME sign \in Labels(Data[r]) PROVE S # {}
  BY <1>1, <1>2 DEF Labels
<1>3. ASSUME S # {}
      PROVE  \E k \in DOMAIN Data[r] :
                /\ findNextSegment(Data[r], now, sign) = Data[r][k]
                /\ Data[r][k].l = sign
                /\ \A j \in DOMAIN Data[r] :
                     Data[r][j].l = sign => distance(i, k, L) <= distance(i, j, L)
  <2>1. S \in SUBSET Nat /\ S \subseteq 0..(L - 1)
    BY RowFacts DEF StepsToLabel
  <2>2. PICK n \in S : n = Min(S) /\ \A m \in S : n <= m
    <3> HIDE DEF S
    <3> QED BY <1>3, <2>1, MinIsLeast
  <2>3. SegmentAfter(Data[r], now, n).l = sign
    BY <2>2 DEF StepsToLabel
  <2>4. findNextSegment(Data[r], now, sign) = SegmentAfter(Data[r], now, n)
    BY <2>2 DEF findNextSegment
  <2>5. PICK k \in DOMAIN Data[r] : n = distance(i, k, L)
    BY <2>1, <2>2, SearchStays
  <2>6. SegmentAfter(Data[r], now, n) = Data[r][k]
    BY <2>5, StepsAreDistances
  <2> HIDE DEF S, i, L
  <2> QED BY <1>1, <2>2, <2>3, <2>4, <2>5, <2>6
<1> QED BY <1>2, <1>3

(* As the row is in the order of the ends, the least distance is the        *)
(* nearest end.                                                             *)
LEMMA NearestEndsNext ==
  ASSUME NEW r \in Row, NEW now \in Nat,
         NEW k \in DOMAIN Data[r], NEW j \in DOMAIN Data[r],
         LET i == SearchIndex(Data[r], now)
             L == Len(Data[r])
         IN  distance(i, k, L) <= distance(i, j, L)
  PROVE  /\ Data[r][j].f >= now => /\ Data[r][k].f >= now
                                   /\ Data[r][k].f <= Data[r][j].f
         /\ Data[r][k].f < now => Data[r][k].f <= Data[r][j].f
<1>1. PICK i, L : i = SearchIndex(Data[r], now) /\ L = Len(Data[r])
  OBVIOUS
<1>2. i \in 0..L /\ L \in Nat /\ k \in 1..L /\ j \in 1..L
  BY <1>1, SearchIndexType, RowFacts
<1>3. Data[r][k].f \in Nat /\ Data[r][j].f \in Nat
  BY RowFacts
<1>4. (Data[r][k].f < now <=> k <= i) /\ (Data[r][j].f < now <=> j <= i)
  BY <1>1, SearchIndexSplits
<1>5. k <= j => Data[r][k].f <= Data[r][j].f
  BY <1>2, <1>3, DataAssumption
<1>6. distance(i, k, L) <= distance(i, j, L)
  BY <1>1
<1>7. /\ j > i => k > i /\ k <= j
      /\ k <= i /\ j <= i => k <= j
  BY <1>2, <1>6 DEF distance
<1> QED BY <1>2, <1>3, <1>4, <1>5, <1>7

-----------------------------------------------------------------------------
(* The live intervals: those of choices up to the n-th, each once.          *)
Interval(n) == [id : 1..n, row : Row, index : Nat]

AreLive(live, n) ==
  /\ live \in Seq(Interval(n))
  /\ \A j, k \in DOMAIN live : j # k => live[j].id # live[k].id
  /\ \A k \in DOMAIN live : live[k].index \in DOMAIN Data[live[k].row]

LEMMA Joined ==
  ASSUME NEW S, NEW t \in Seq(S), NEW u \in Seq(S), NEW a, NEW b,
         a = Len(t), b = Len(u)
  PROVE  /\ t \o u \in Seq(S) /\ Len(t \o u) = a + b
         /\ \A k \in 1..(a + b) : (t \o u)[k] = IF k <= a THEN t[k] ELSE u[k - a]
BY ConcatProperties

LEMMA WithoutFirst ==
  ASSUME NEW S, NEW s \in Seq(S), s # <<>>, NEW n, n = Len(s)
  PROVE  /\ Tail(s) \in Seq(S) /\ Len(Tail(s)) = n - 1
         /\ \A k \in 1..(n - 1) : Tail(s)[k] = s[k + 1]
<1>1. /\ Tail(s) \in Seq(S) /\ Len(Tail(s)) = Len(s) - 1
      /\ \A k \in 1..Len(Tail(s)) : Tail(s)[k] = s[k + 1]
  BY HeadTailProperties
<1> QED BY <1>1

(* What the operations on their sequence do, place by place.                *)
LEMMA PlaceByPlace ==
  ASSUME NEW S, NEW s \in Seq(S)
  PROVE  /\ \A c \in 1..Len(s) :
              /\ RemoveAt(s, c) \in Seq(S) /\ DOMAIN RemoveAt(s, c) = 1..(Len(s) - 1)
              /\ \A k \in 1..(Len(s) - 1) :
                   RemoveAt(s, c)[k] = s[IF k < c THEN k ELSE k + 1]
         /\ s # <<>> =>
              /\ Append(Tail(s), Head(s)) \in Seq(S)
              /\ DOMAIN Append(Tail(s), Head(s)) = 1..Len(s)
              /\ \A k \in 1..Len(s) :
                   Append(Tail(s), Head(s))[k] = s[IF k = Len(s) THEN 1 ELSE k + 1]
<1>1. PICK n \in Nat : /\ n = Len(s) /\ DOMAIN s = 1..n
                        /\ \A k \in 1..n : s[k] \in S
  BY LenProperties
<1>2. ASSUME NEW c \in 1..n
      PROVE  /\ RemoveAt(s, c) \in Seq(S) /\ DOMAIN RemoveAt(s, c) = 1..(n - 1)
             /\ \A k \in 1..(n - 1) :
                  RemoveAt(s, c)[k] = s[IF k < c THEN k ELSE k + 1]
  <2> DEFINE t == SubSeq(s, 1, c - 1)
             u == SubSeq(s, c + 1, n)
  <2>1. /\ t \in Seq(S) /\ Len(t) = c - 1
        /\ \A k \in 1..(c - 1) : t[k] = s[k]
    <3>1. /\ 1 \in Int /\ c - 1 \in Int /\ \A k \in 1..(c - 1) : s[k] \in S
      BY <1>1
    <3>2. /\ t \in Seq(S) /\ Len(t) = IF 1 <= c - 1 THEN (c - 1) - 1 + 1 ELSE 0
          /\ \A k \in 1..((c - 1) - 1 + 1) : t[k] = s[1 + k - 1]
      BY <3>1, SubSeqProperties
    <3> HIDE DEF t
    <3>3. \A k \in 1..(c - 1) : k \in 1..((c - 1) - 1 + 1) /\ 1 + k - 1 = k
      OBVIOUS
    <3>4. Len(t) = c - 1
      BY <3>2
    <3> QED BY <3>2, <3>3, <3>4
  <2>2. /\ u \in Seq(S) /\ Len(u) = n - c
        /\ \A k \in 1..(n - c) : u[k] = s[k + c]
    <3>1. /\ c + 1 \in Int /\ n \in Int /\ \A k \in (c + 1)..n : s[k] \in S
      BY <1>1
    <3>2. /\ u \in Seq(S) /\ Len(u) = IF c + 1 <= n THEN n - (c + 1) + 1 ELSE 0
          /\ \A k \in 1..(n - (c + 1) + 1) : u[k] = s[(c + 1) + k - 1]
      BY <3>1, SubSeqProperties
    <3> HIDE DEF u
    <3>3. n - (c + 1) + 1 = n - c
      BY <1>1
    <3>4. Len(u) = n - c
      <4>1. c + 1 <= n => n - (c + 1) + 1 = n - c
        BY <3>3
      <4>2. ~(c + 1 <= n) => 0 = n - c
        BY <1>1
      <4> QED BY <3>2, <4>1, <4>2
    <3>5. ASSUME NEW k \in 1..(n - c) PROVE u[k] = s[k + c]
      <4>1. (c + 1) + k - 1 = k + c
        BY <1>1
      <4> QED BY <3>2, <3>3, <4>1
    <3> QED BY <3>2, <3>4, <3>5
  <2>3. RemoveAt(s, c) = t \o u
    BY <1>1 DEF RemoveAt
  <2> HIDE DEF t, u
  <2>4. /\ t \o u \in Seq(S) /\ Len(t \o u) = n - 1
        /\ \A k \in 1..(n - 1) :
             (t \o u)[k] = IF k <= c - 1 THEN t[k] ELSE u[k - (c - 1)]
    <3>1. /\ t \o u \in Seq(S) /\ Len(t \o u) = (c - 1) + (n - c)
          /\ \A k \in 1..((c - 1) + (n - c)) :
               (t \o u)[k] = IF k <= c - 1 THEN t[k] ELSE u[k - (c - 1)]
      <4>1. c - 1 = Len(t) /\ n - c = Len(u)
        BY <2>1, <2>2
      <4>2. t \in Seq(S) /\ u \in Seq(S)
        BY <2>1, <2>2
      <4> QED BY <4>1, <4>2, Joined
    <3>2. (c - 1) + (n - c) = n - 1
      BY <1>1
    <3> DEFINE v == t \o u
    <3>3. /\ v \in Seq(S) /\ Len(v) = n - 1
          /\ \A k \in 1..(n - 1) : v[k] = IF k <= c - 1 THEN t[k] ELSE u[k - (c - 1)]
      <4> HIDE DEF v
      <4>1. \A k : k \in 1..(n - 1) => k \in 1..((c - 1) + (n - c))
        BY <3>2
      <4> QED BY <3>1, <3>2, <4>1 DEF v
    <3> QED BY <3>3
  <2>5. ASSUME NEW k \in 1..(n - 1)
        PROVE  RemoveAt(s, c)[k] = s[IF k < c THEN k ELSE k + 1]
    <3>1. CASE k < c
      <4>1. k <= c - 1 /\ k \in 1..(c - 1)
        BY <3>1
      <4> QED BY <2>1, <2>3, <2>4, <3>1, <4>1
    <3>2. CASE ~(k < c)
      <4>1. /\ k - (c - 1) \in 1..(n - c) /\ (k - (c - 1)) + c = k + 1
            /\ ~(k <= c - 1)
        BY <1>1, <3>2
      <4>2. u[k - (c - 1)] = s[k + 1]
        BY <2>2, <4>1
      <4> QED BY <2>3, <2>4, <3>2, <4>1, <4>2
    <3> QED BY <3>1, <3>2
  <2>6. DOMAIN (t \o u) = 1..(n - 1)
    BY <2>4, LenProperties
  <2> HIDE DEF t, u
  <2>7. RemoveAt(s, c) \in Seq(S) /\ DOMAIN RemoveAt(s, c) = 1..(n - 1)
    BY <2>3, <2>4, <2>6
  <2> QED BY <2>5, <2>7
<1>3. ASSUME s # <<>>
      PROVE  /\ Append(Tail(s), Head(s)) \in Seq(S)
             /\ DOMAIN Append(Tail(s), Head(s)) = 1..n
             /\ \A k \in 1..n :
                  Append(Tail(s), Head(s))[k] = s[IF k = n THEN 1 ELSE k + 1]
  <2>1. n # 0
    <3>1. Len(s) \in Nat \ {0}
      BY <1>3, EmptySeq
    <3> QED BY <1>1, <3>1
  <2>2. Head(s) = s[1] /\ s[1] \in S
    <3>1. 1 \in 1..n
      BY <1>1, <2>1
    <3>2. s[1] \in S
      BY <1>1, <3>1
    <3>3. Head(s) = s[1]
      OBVIOUS
    <3> QED BY <3>2, <3>3
  <2>3. PICK t \in Seq(S) : /\ t = Tail(s) /\ Len(t) = n - 1
                            /\ \A k \in 1..(n - 1) : t[k] = s[k + 1]
    <3>1. n = Len(s)
      BY <1>1
    <3>2. /\ Tail(s) \in Seq(S) /\ Len(Tail(s)) = n - 1
          /\ \A k \in 1..(n - 1) : Tail(s)[k] = s[k + 1]
      BY <1>3, <3>1, WithoutFirst
    <3> QED BY <3>2
  <2>4. PICK x \in S : x = s[1] /\ x = Head(s)
    BY <2>2
  <2>5. PICK u \in Seq(S) : /\ u = Append(t, x) /\ Len(u) = n
                            /\ \A k \in 1..(n - 1) : u[k] = t[k]
                            /\ u[n] = x
    <3>1. /\ Append(t, x) \in Seq(S) /\ Len(Append(t, x)) = Len(t) + 1
          /\ \A k \in 1..Len(t) : Append(t, x)[k] = t[k]
          /\ Append(t, x)[Len(t) + 1] = x
      BY AppendProperties
    <3>2. Len(t) + 1 = n
      BY <1>1, <2>3
    <3> QED BY <2>3, <3>1, <3>2
  <2>6. ASSUME NEW k \in 1..n
        PROVE  u[k] = s[IF k = n THEN 1 ELSE k + 1]
    <3>1. CASE k = n
      BY <2>4, <2>5, <3>1
    <3>2. CASE k # n
      <4>1. k \in 1..(n - 1)
        BY <1>1, <3>2
      <4> QED BY <2>3, <2>5, <3>2, <4>1
    <3> QED BY <3>1, <3>2
  <2>7. DOMAIN u = 1..n
    BY <2>5, LenProperties
  <2> QED BY <2>3, <2>4, <2>5, <2>6, <2>7
<1> QED BY <1>1, <1>2, <1>3

LEMMA OneIsCleared ==
  ASSUME NEW n \in Nat, NEW live, AreLive(live, n)
  PROVE  AreLive(Cleared(live), n)
<1>1. CASE ~\E m \in DOMAIN live : live[m].id = playInterval
  BY <1>1 DEF Cleared
<1>2. CASE \E m \in DOMAIN live : live[m].id = playInterval
  <2> DEFINE c == CHOOSE m \in DOMAIN live : live[m].id = playInterval
             at(k) == IF k < c THEN k ELSE k + 1
  <2>1. c \in DOMAIN live
    BY <1>2
  <2>2. Cleared(live) = RemoveAt(live, c)
    BY <1>2 DEF Cleared
  <2> HIDE DEF c
  <2>3. PICK L \in Nat : L = Len(live) /\ c \in 1..L /\ DOMAIN live = 1..L
    BY <2>1, LenProperties DEF AreLive
  <2>4. /\ Cleared(live) \in Seq(Interval(n)) /\ DOMAIN Cleared(live) = 1..(L - 1)
        /\ \A k \in 1..(L - 1) : Cleared(live)[k] = live[at(k)]
    <3>1. live \in Seq(Interval(n)) /\ c \in 1..Len(live) /\ L = Len(live)
      BY <2>3 DEF AreLive
    <3>2. /\ RemoveAt(live, c) \in Seq(Interval(n))
          /\ DOMAIN RemoveAt(live, c) = 1..(Len(live) - 1)
          /\ \A k \in 1..(Len(live) - 1) :
               RemoveAt(live, c)[k] = live[IF k < c THEN k ELSE k + 1]
      BY <3>1, PlaceByPlace
    <3> QED BY <2>2, <3>1, <3>2
  <2>5. /\ \A k \in 1..(L - 1) : at(k) \in 1..L
        /\ \A j, k \in 1..(L - 1) : j # k => at(j) # at(k)
    BY <2>3
  <2> HIDE DEF at
  <2>6. ASSUME NEW j \in 1..(L - 1), NEW k \in 1..(L - 1), j # k
        PROVE  Cleared(live)[j].id # Cleared(live)[k].id
    <3>1. at(j) \in DOMAIN live /\ at(k) \in DOMAIN live /\ at(j) # at(k)
      BY <2>3, <2>5, <2>6
    <3>2. live[at(j)].id # live[at(k)].id
      BY <3>1 DEF AreLive
    <3> QED BY <2>4, <3>2
  <2>7. ASSUME NEW k \in 1..(L - 1)
        PROVE  Cleared(live)[k].index \in DOMAIN Data[Cleared(live)[k].row]
    <3>1. at(k) \in DOMAIN live
      BY <2>3, <2>5
    <3>2. live[at(k)].index \in DOMAIN Data[live[at(k)].row]
      BY <3>1 DEF AreLive
    <3> QED BY <2>4, <3>2
  <2> QED BY <2>4, <2>6, <2>7 DEF AreLive
<1> QED BY <1>1, <1>2

LEMMA OneFires ==
  ASSUME NEW n \in Nat, NEW live, AreLive(live, n), live # <<>>
  PROVE  /\ AreLive(Append(Tail(live), Head(live)), n)
         /\ Head(live).row \in Row
         /\ Head(live).index \in DOMAIN Data[Head(live).row]
<1>1. PICK L \in Nat : L = Len(live) /\ L # 0 /\ DOMAIN live = 1..L
  BY EmptySeq, LenProperties DEF AreLive
<1> DEFINE at(k) == IF k = L THEN 1 ELSE k + 1
           turned == Append(Tail(live), Head(live))
<1>2. /\ turned \in Seq(Interval(n)) /\ DOMAIN turned = 1..L
      /\ \A k \in 1..L : turned[k] = live[at(k)]
  BY <1>1, PlaceByPlace DEF AreLive
<1>3. /\ \A k \in 1..L : at(k) \in 1..L
      /\ \A j, k \in 1..L : j # k => at(j) # at(k)
  BY <1>1
<1>4. Head(live) = live[1] /\ live[1] \in Interval(n) /\ 1 \in DOMAIN live
  BY <1>1 DEF AreLive
<1> HIDE DEF at, turned
<1>5. AreLive(turned, n)
  BY <1>1, <1>2, <1>3 DEF AreLive
<1>6. Head(live).row \in Row /\ Head(live).index \in DOMAIN Data[Head(live).row]
  BY <1>4 DEF AreLive, Interval
<1> QED BY <1>5, <1>6 DEF turned

LEMMA OneIsMade ==
  ASSUME NEW n \in Nat, NEW live, AreLive(live, n), NEW r \in Row,
         NEW k \in DOMAIN Data[r]
  PROVE  AreLive(Append(live, [id |-> n + 1, row |-> r, index |-> k]), n + 1)
<1> DEFINE new == [id |-> n + 1, row |-> r, index |-> k]
           more == Append(live, new)
<1>1. PICK L \in Nat : L = Len(live) /\ DOMAIN live = 1..L
  BY LenProperties DEF AreLive
<1>2. k \in Nat
  BY RowFacts
<1>3. new \in Interval(n + 1) /\ Interval(n) \subseteq Interval(n + 1)
  BY <1>2 DEF Interval
<1>4. \A j \in 1..L : live[j] \in Interval(n) /\ live[j].id # n + 1
  <2>1. \A j \in 1..L : live[j] \in Interval(n)
    BY <1>1 DEF AreLive
  <2> QED BY <2>1 DEF Interval
<1>5. new.id = n + 1 /\ new.row = r /\ new.index = k
  OBVIOUS
<1>6. live \in Seq(Interval(n + 1))
  <2>1. live \in [1..L -> Interval(n + 1)]
    BY <1>1, <1>3, <1>4 DEF AreLive
  <2> QED BY <2>1
<1> HIDE DEF new
<1>7. more \in Seq(Interval(n + 1)) /\ Len(more) = L + 1
  BY <1>1, <1>3, <1>6, AppendProperties
<1>8. /\ \A j \in 1..L : more[j] = live[j]
      /\ more[L + 1] = new
  BY <1>1, <1>3, <1>6, AppendProperties
<1>9. DOMAIN more = 1..(L + 1) /\ \A j \in 1..(L + 1) : j \in 1..L \/ j = L + 1
  BY <1>7, LenProperties
<1> HIDE DEF more
<1>10. \A i, j \in DOMAIN more : i # j => more[i].id # more[j].id
  BY <1>1, <1>4, <1>5, <1>8, <1>9 DEF AreLive
<1>11. \A j \in DOMAIN more : more[j].index \in DOMAIN Data[more[j].row]
  BY <1>1, <1>5, <1>8, <1>9 DEF AreLive
<1>12. AreLive(more, n + 1)
  BY <1>7, <1>10, <1>11 DEF AreLive
<1> QED BY <1>12 DEF more, new

-----------------------------------------------------------------------------
(* The inductive invariant.  The bound handler holds the bounds of a        *)
(* segment and a label of the row the segment is of.                        *)
HandlerOfARow ==
  /\ handler.o <= handler.f
  /\ handler.f <= AudioLength
  /\ handler.row # NoRow => handler.l \in Labels(Data[handler.row])

PInv == TypeOK /\ HandlerOfARow /\ StaysInTheSegment /\ HangsOnAnotherRow

LEMMA InitPInv == Init => PInv
<1> SUFFICES ASSUME Init PROVE PInv
  OBVIOUS
<1>1. /\ intervals \in Seq([id : 1..playInterval, row : Row, index : Nat])
      /\ DOMAIN intervals = {}
  <2>1. intervals = <<>>
    BY DEF Init
  <2>2. \A S : <<>> \in Seq(S)
    BY EmptySeq
  <2>3. DOMAIN <<>> = {}
    OBVIOUS
  <2> QED BY <2>1, <2>2, <2>3
<1>2. TypeOK
  <2>1. 0 \in 0..AudioLength /\ 0 \in 0..MaxChoices
    BY AudioAssumption, ChoicesAssumption
  <2>2. defaultPlay \in [o : Nat, f : Nat, l : Nat, row : Row \cup {NoRow}]
    BY DEF defaultPlay
  <2>3. /\ \A m, n \in DOMAIN intervals : m # n => intervals[m].id # intervals[n].id
        /\ \A m \in DOMAIN intervals :
             intervals[m].index \in DOMAIN Data[intervals[m].row]
    BY <1>1
  <2> QED BY <1>1, <2>1, <2>2, <2>3 DEF Init, TypeOK
<1>3. HandlerOfARow /\ StaysInTheSegment /\ HangsOnAnotherRow
  BY AudioAssumption
     DEF Init, HandlerOfARow, StaysInTheSegment, HangsOnAnotherRow, defaultPlay,
         IsDefault, NoRow
<1> QED BY <1>2, <1>3 DEF PInv

(* The steps that leave the intervals and the handler alone.                *)
LEMMA CalmSteps ==
  ASSUME PInv,
         \/ PlayerReady \/ CheckNext \/ CheckRepeat \/ Drag
         \/ PressPlay \/ PressPause \/ PressStop \/ Ended
         \/ UNCHANGED vars
  PROVE  PInv'
<1>0. 0 \in 0..AudioLength /\ 0 <= handler.f
  BY AudioAssumption DEF PInv, TypeOK
<1> USE DEF PInv, TypeOK, HandlerOfARow, StaysInTheSegment, HangsOnAnotherRow,
            IsDefault, player, choice, boxes
<1>1. CASE PlayerReady
  BY <1>1 DEF PlayerReady
<1>2. CASE CheckNext
  BY <1>2 DEF CheckNext
<1>3. CASE CheckRepeat
  BY <1>3 DEF CheckRepeat
<1>4. CASE Drag
  BY <1>4 DEF Drag
<1>5. CASE PressPlay
  BY <1>5 DEF PressPlay
<1>6. CASE PressPause
  BY <1>6 DEF PressPause
<1>7. CASE PressStop
  BY <1>0, <1>7 DEF PressStop
<1>8. CASE Ended
  BY <1>0, <1>8 DEF Ended
<1>9. CASE UNCHANGED vars
  BY <1>9 DEF vars
<1> QED BY <1>1, <1>2, <1>3, <1>4, <1>5, <1>6, <1>7, <1>8, <1>9

(* play starts a segment of a row, and clears an interval at most.          *)
LEMMA PlaySteps ==
  ASSUME PInv, ~hung, NEW r \in Row, NEW k \in DOMAIN Data[r],
         NEW live, AreLive(live, playInterval),
         Play(Data[r][k], r, live)
  PROVE  PInv'
<1> DEFINE seg == Data[r][k]
<1>1. /\ seg.o \in Nat /\ seg.f \in Nat /\ seg.l \in Nat
      /\ seg.o + 1 < seg.f /\ seg.f <= AudioLength /\ seg.l \in Labels(Data[r])
  BY RowFacts DEF Labels
<1>2. /\ playbackTime' = seg.o + 1 /\ playInterval' = playInterval /\ hung' = hung
      /\ ready' = ready /\ next' = next /\ repeat' = repeat
      /\ selection' = selection /\ table' = table /\ drawn' = drawn
      /\ intervals' = live \/ intervals' = Cleared(live)
  BY DEF Play, choice, boxes
<1>3. \/ /\ handler' = handler /\ time' = time /\ playing' = playing
         /\ thrown' = thrown
      \/ /\ handler' = Bound(seg, r) /\ time' = seg.o /\ playing' = TRUE
         /\ thrown' = FALSE
  BY DEF Play, StartPlayer, player
<1>4. AreLive(intervals', playInterval')
  <2>1. playInterval \in Nat
    BY ChoicesAssumption DEF PInv, TypeOK
  <2> QED BY <1>2, <2>1, OneIsCleared
<1> HIDE DEF seg
<1>5. /\ seg.o \in 0..AudioLength /\ seg.o + 1 \in 0..AudioLength
      /\ Bound(seg, r) \in [o : Nat, f : Nat, l : Nat, row : Row \cup {NoRow}]
      /\ Bound(seg, r).o = seg.o /\ Bound(seg, r).f = seg.f
      /\ Bound(seg, r).l = seg.l /\ Bound(seg, r).row = r
  BY <1>1, AudioAssumption DEF Bound
<1>6. TypeOK'
  BY <1>2, <1>3, <1>4, <1>5 DEF PInv, TypeOK, AreLive, Interval
<1>7. HandlerOfARow' /\ StaysInTheSegment'
  BY <1>1, <1>2, <1>3, <1>5 DEF PInv, HandlerOfARow, StaysInTheSegment, IsDefault
<1>8. HangsOnAnotherRow'
  BY <1>2 DEF HangsOnAnotherRow
<1> QED BY <1>6, <1>7, <1>8 DEF PInv

LEMMA IntervalSteps == PInv /\ IntervalFires => PInv'
<1> SUFFICES ASSUME PInv, IntervalFires PROVE PInv'
  OBVIOUS
<1>1. playInterval \in Nat /\ AreLive(intervals, playInterval)
  BY ChoicesAssumption DEF PInv, TypeOK, AreLive, Interval
<1>2. ~hung /\ intervals # <<>>
  BY DEF IntervalFires
<1> DEFINE i == Head(intervals)
<1>3. /\ i.row \in Row /\ i.index \in DOMAIN Data[i.row]
      /\ AreLive(Append(Tail(intervals), i), playInterval)
  BY <1>1, <1>2, OneFires
<1>4. Play(Data[i.row][i.index], i.row, Append(Tail(intervals), i))
  BY DEF IntervalFires
<1> HIDE DEF i
<1> QED BY <1>2, <1>3, <1>4, PlaySteps

LEMMA ButtonSteps == PInv /\ PressSegment => PInv'
<1> SUFFICES ASSUME PInv, PressSegment PROVE PInv'
  OBVIOUS
<1>1. playInterval \in Nat /\ AreLive(intervals, playInterval)
  BY ChoicesAssumption DEF PInv, TypeOK, AreLive, Interval
<1>2. ~hung /\ table \in Row
  BY DEF PressSegment, PInv, TypeOK
<1>3. PICK k \in DOMAIN Data[table] :
           Play(process(table).line[k], table, intervals)
  BY DEF PressSegment
<1>4. PICK j \in DOMAIN Data[table] : process(table).line[k] = Data[table][j]
  BY <1>2, ListIsSorted
<1>5. Play(Data[table][j], table, intervals)
  BY <1>3, <1>4
<1> QED BY <1>1, <1>2, <1>5, PlaySteps

LEMMA ClickSteps == PInv /\ DoubleClick => PInv'
<1> SUFFICES ASSUME PInv, NEW r \in Row, NEW k \in DOMAIN Data[r],
                    Select(r, k) \/ Deselect(r, k)
             PROVE  PInv'
  BY DEF DoubleClick
<1>1. CASE Select(r, k)
  <2>1. playInterval \in Nat /\ AreLive(intervals, playInterval)
    BY ChoicesAssumption DEF PInv, TypeOK, AreLive, Interval
  <2>2. /\ ~hung /\ hung' = hung /\ playInterval < MaxChoices
        /\ playInterval' = playInterval + 1
        /\ intervals' =
             Append(intervals, [id |-> playInterval + 1, row |-> r, index |-> k])
        /\ selection' = r /\ drawn' = selection /\ table' = r
        /\ ready' = ready /\ next' = next /\ repeat' = repeat
        /\ handler' = handler /\ time' = time /\ playing' = playing
        /\ thrown' = thrown /\ playbackTime' = playbackTime
    BY <1>1 DEF Select, player, boxes
  <2>3. AreLive(intervals', playInterval')
    BY <2>1, <2>2, OneIsMade
  <2>4. playInterval' \in 0..MaxChoices
    BY <2>1, <2>2, ChoicesAssumption
  <2>5. TypeOK'
    BY <2>2, <2>3, <2>4 DEF PInv, TypeOK, AreLive, Interval
  <2> QED BY <2>2, <2>5 DEF PInv, HandlerOfARow, StaysInTheSegment,
                            HangsOnAnotherRow, IsDefault
<1>2. CASE Deselect(r, k)
  <2>1. 0 \in 0..AudioLength
    BY AudioAssumption
  <2>2. defaultPlay \in [o : Nat, f : Nat, l : Nat, row : Row \cup {NoRow}]
    BY DEF defaultPlay
  <2>3. TypeOK'
    BY <1>2, <2>1, <2>2 DEF Deselect, boxes, PInv, TypeOK
  <2> QED BY <1>2, <2>1, <2>3
          DEF Deselect, boxes, PInv, HandlerOfARow, StaysInTheSegment,
              HangsOnAnotherRow, IsDefault, defaultPlay
<1> QED BY <1>1, <1>2

(* The segment the search finds has the label the handler keeps.            *)
LEMMA PlayNextStep == PInv /\ PlayNext => PInv'
<1> SUFFICES ASSUME PInv, PlayNext PROVE PInv'
  OBVIOUS
<1>1. PICK now \in 0..AudioLength :
        /\ Announces(now)
        /\ drawn # NoRow
        /\ StepsToLabel(Data[drawn], now, handler.l) # {}
        /\ LET seg == findNextSegment(Data[drawn], now, handler.l) IN
             /\ handler' = [Bound(seg, drawn) EXCEPT !.l = handler.l]
             /\ time' = seg.o
        /\ playing' = TRUE
        /\ UNCHANGED <<thrown, drawn, hung>>
  BY DEF PlayNext
<1>2. PICK r \in Row : r = drawn
  BY <1>1 DEF PInv, TypeOK
<1>3. PICK sign : sign = handler.l
  OBVIOUS
<1>4. PICK k \in DOMAIN Data[r] : /\ findNextSegment(Data[r], now, sign) = Data[r][k]
                                  /\ Data[r][k].l = sign
  <2>1. StepsToLabel(Data[r], now, sign) # {}
    BY <1>1, <1>2, <1>3
  <2>2. PICK k \in DOMAIN Data[r] :
              /\ findNextSegment(Data[r], now, sign) = Data[r][k]
              /\ Data[r][k].l = sign
              /\ \A j \in DOMAIN Data[r] :
                   Data[r][j].l = sign
                     => LET i == SearchIndex(Data[r], now)
                            L == Len(Data[r])
                        IN  distance(i, k, L) <= distance(i, j, L)
    BY <2>1, SearchFinds
  <2> QED BY <2>2
<1>5. PICK seg : seg = Data[r][k]
  OBVIOUS
<1>6. /\ seg.o \in Nat /\ seg.f \in Nat /\ seg.l \in Nat
      /\ seg.o + 1 < seg.f /\ seg.f <= AudioLength /\ seg.l \in Labels(Data[r])
  BY <1>5, RowFacts DEF Labels
<1>7. /\ handler' = [Bound(seg, r) EXCEPT !.l = sign]
      /\ time' = seg.o /\ seg.l = sign
  BY <1>1, <1>2, <1>3, <1>4, <1>5
<1>8. /\ handler' = [o |-> seg.o, f |-> seg.f, l |-> seg.l, row |-> r]
      /\ handler' \in [o : Nat, f : Nat, l : Nat, row : Row \cup {NoRow}]
  BY <1>6, <1>7 DEF Bound
<1>9. /\ handler'.o = seg.o /\ handler'.f = seg.f /\ handler'.l = seg.l
      /\ handler'.row = r
  BY <1>8
<1>10. time' \in 0..AudioLength /\ time' <= handler'.f /\ handler'.o <= handler'.f
  BY <1>6, <1>7, <1>9, AudioAssumption
<1>11. /\ ~hung /\ hung' = hung /\ thrown' = thrown /\ drawn' = drawn /\ playing' = TRUE
       /\ playbackTime' \in 0..AudioLength
       /\ ready' = ready /\ intervals' = intervals /\ playInterval' = playInterval
       /\ selection' = selection /\ table' = table
       /\ next' = next /\ repeat' = repeat
  BY <1>1 DEF Announces, choice, boxes
<1>12. TypeOK'
  BY <1>8, <1>10, <1>11 DEF PInv, TypeOK
<1>13. HandlerOfARow' /\ StaysInTheSegment'
  BY <1>6, <1>9, <1>10 DEF HandlerOfARow, StaysInTheSegment
<1>14. HangsOnAnotherRow'
  BY <1>11 DEF HangsOnAnotherRow
<1> QED BY <1>12, <1>13, <1>14 DEF PInv

(* The timeupdate events.                                                   *)
LEMMA EventSteps == PInv /\ TimeUpdate => PInv'
<1> SUFFICES ASSUME PInv, TimeUpdate PROVE PInv'
  OBVIOUS
<1>0. handler.o \in 0..AudioLength /\ handler.o <= handler.f
  BY AudioAssumption DEF PInv, TypeOK, HandlerOfARow
<1> USE DEF PInv, TypeOK, HandlerOfARow, StaysInTheSegment, HangsOnAnotherRow,
            IsDefault, Announces, PastTheEnd, choice, boxes
<1>1. CASE Follow
  BY <1>1 DEF Follow
<1>2. CASE NoRowToSearch
  BY <1>2 DEF NoRowToSearch
<1>3. CASE NoLabelToFind
  <2>1. /\ ~hung /\ hung' /\ hung' \in BOOLEAN /\ handler' = handler
        /\ drawn' = drawn /\ playing' = playing /\ thrown' = thrown
        /\ drawn # NoRow /\ handler.row # NoRow
        /\ time' \in 0..AudioLength /\ playbackTime' \in 0..AudioLength
        /\ \E now : StepsToLabel(Data[drawn], now, handler.l) = {}
        /\ UNCHANGED <<ready, intervals, playInterval, selection, table, next, repeat>>
    BY <1>3 DEF NoLabelToFind
  <2>2. drawn \in Row
    BY <2>1
  <2>3. handler.l \notin Labels(Data[drawn])
    BY <2>1, <2>2, SearchFinds
  <2>4. drawn # handler.row
    BY <2>1, <2>3
  <2>5. TypeOK' /\ HandlerOfARow' /\ StaysInTheSegment'
    BY <2>1
  <2>6. HangsOnAnotherRow'
    BY <2>1, <2>3, <2>4
  <2> QED BY <2>5, <2>6
<1>4. CASE PlayNext
  BY <1>4, PlayNextStep
<1>5. CASE PlayAgain
  BY <1>0, <1>5 DEF PlayAgain
<1>6. CASE Rest
  <2>1. /\ \E now \in 0..AudioLength : playbackTime' = now
        /\ ~hung /\ UNCHANGED <<ready, intervals, playInterval, selection, table,
                                 next, repeat, handler, thrown, hung>>
        /\ time' = handler.o /\ playing' = FALSE /\ drawn' = selection
    BY <1>6 DEF Rest
  <2> QED BY <1>0, <2>1
<1> QED BY <1>1, <1>2, <1>3, <1>4, <1>5, <1>6 DEF TimeUpdate

LEMMA NextPInv == PInv /\ [Next]_vars => PInv'
BY CalmSteps, IntervalSteps, ButtonSteps, ClickSteps, EventSteps DEF Next

THEOREM PInvHolds == Spec => []PInv
<1>1. Init => PInv
  BY InitPInv
<1>2. PInv /\ [Next]_vars => PInv'
  BY NextPInv
<1> QED BY <1>1, <1>2, PTL DEF Spec

(* The state is well formed: an interval is live at most once, and only    *)
(* choices that were made have one.                                        *)
THEOREM TypeCorrect == Spec => []TypeOK
BY PInvHolds, PTL DEF PInv

(* The player is never heard beyond the end of the segment it was started  *)
(* for, unless the handler has thrown or the page hangs.                   *)
THEOREM PlayerStays == Spec => []StaysInTheSegment
BY PInvHolds, PTL DEF PInv

(* The search for a similar segment hangs the page only in a row that was  *)
(* chosen meanwhile and has no such label: in the row of the segment that  *)
(* is played it finds one, at the least that segment itself.               *)
THEOREM PageHangsOnAnotherRow == Spec => []HangsOnAnotherRow
BY PInvHolds, PTL DEF PInv

(* Whatever the row, its list is a stable sort of its segments by label,   *)
(* and each label has a colour of its own among total ones.                *)
THEOREM ListsAreInOrder == Spec => []ListIsInOrder
<1>1. TypeOK => ListIsInOrder
  <2> SUFFICES ASSUME TypeOK, table # NoRow PROVE table \in RowsInOrder
    BY DEF ListIsInOrder
  <2>1. table \in Row
    BY DEF TypeOK
  <2>2. IsInOrder(process(table), Data[table])
    BY <2>1, ListIsSorted, ColoursAreRight DEF IsInOrder
  <2> QED BY <2>1, <2>2 DEF RowsInOrder
<1> QED BY <1>1, TypeCorrect, PTL

(* The segment found is of those that EndsNext allows.                      *)
LEMMA FoundEndsNext ==
  ASSUME TypeOK, drawn # NoRow, NEW now \in Nat,
         StepsToLabel(Data[drawn], now, handler.l) # {}
  PROVE  \E k \in DOMAIN Data[drawn] :
            /\ findNextSegment(Data[drawn], now, handler.l) = Data[drawn][k]
            /\ EndsNext(k, now)
<1>1. drawn \in Row
  BY DEF TypeOK
<1>2. PICK k \in DOMAIN Data[drawn] :
            /\ findNextSegment(Data[drawn], now, handler.l) = Data[drawn][k]
            /\ Data[drawn][k].l = handler.l
            /\ \A j \in DOMAIN Data[drawn] :
                 Data[drawn][j].l = handler.l
                   => LET i == SearchIndex(Data[drawn], now)
                          L == Len(Data[drawn])
                      IN  distance(i, k, L) <= distance(i, j, L)
  BY <1>1, SearchFinds
<1>3. ASSUME NEW j \in Similar
      PROVE  /\ Data[drawn][j].f >= now => /\ Data[drawn][k].f >= now
                                           /\ Data[drawn][k].f <= Data[drawn][j].f
             /\ Data[drawn][k].f < now => Data[drawn][k].f <= Data[drawn][j].f
  <2>1. j \in DOMAIN Data[drawn] /\ Data[drawn][j].l = handler.l
    BY DEF Similar
  <2> QED BY <1>1, <1>2, <2>1, NearestEndsNext
<1>4. \A j \in DOMAIN Data[drawn] : Data[drawn][j].f \in Nat
  BY <1>1, RowFacts
<1>5. EndsNext(k, now)
  BY <1>2, <1>3, <1>4 DEF EndsNext, Later, Similar
<1> QED BY <1>2, <1>5

(* The segment played next is the one with the label that ends next in the *)
(* row that is drawn as selected, for any rows, whatever the user does.    *)
THEOREM SimilarAreFollowed == Spec => NextSimilarIsPlayed
<1> DEFINE Follows ==
      /\ PlayNext =>
           \E k \in DOMAIN Data[drawn] :
             /\ EndsNext(k, playbackTime')
             /\ handler'.o = Data[drawn][k].o /\ handler'.f = Data[drawn][k].f
      /\ Rest /\ next =>
           \E k \in DOMAIN Data[drawn] :
             /\ EndsNext(k, playbackTime')
             /\ Data[drawn][k].f <= playbackTime'
<1>1. ASSUME TypeOK PROVE Follows
  <2>1. ASSUME PlayNext
        PROVE  \E k \in DOMAIN Data[drawn] :
                 /\ EndsNext(k, playbackTime')
                 /\ handler'.o = Data[drawn][k].o /\ handler'.f = Data[drawn][k].f
    <3>1. PICK now \in 0..AudioLength :
                /\ playbackTime' = now /\ drawn # NoRow
                /\ StepsToLabel(Data[drawn], now, handler.l) # {}
                /\ handler' = [Bound(findNextSegment(Data[drawn], now, handler.l),
                                     drawn) EXCEPT !.l = handler.l]
      BY <2>1 DEF PlayNext, Announces
    <3>2. PICK k \in DOMAIN Data[drawn] :
                /\ findNextSegment(Data[drawn], now, handler.l) = Data[drawn][k]
                /\ EndsNext(k, now)
      BY <1>1, <3>1, FoundEndsNext
    <3>3. handler'.o = Data[drawn][k].o /\ handler'.f = Data[drawn][k].f
      BY <3>1, <3>2 DEF Bound
    <3> QED BY <3>1, <3>2, <3>3
  <2>2. ASSUME Rest, next
        PROVE  \E k \in DOMAIN Data[drawn] :
                 /\ EndsNext(k, playbackTime')
                 /\ Data[drawn][k].f <= playbackTime'
    <3>1. PICK now \in 0..AudioLength :
                /\ playbackTime' = now /\ drawn # NoRow
                /\ StepsToLabel(Data[drawn], now, handler.l) # {}
                /\ ~Continues(findNextSegment(Data[drawn], now, handler.l), now)
      BY <2>2 DEF Rest, Announces
    <3>2. PICK k \in DOMAIN Data[drawn] :
                /\ findNextSegment(Data[drawn], now, handler.l) = Data[drawn][k]
                /\ EndsNext(k, now)
      BY <1>1, <3>1, FoundEndsNext
    <3>3. Data[drawn][k].f \in Nat
      BY <1>1, <3>1, RowFacts DEF TypeOK
    <3>4. Data[drawn][k].f <= now
      BY <3>1, <3>2, <3>3 DEF Continues
    <3> QED BY <3>1, <3>2, <3>4
  <2> QED BY <2>1, <2>2
<1> QED BY <1>1, TypeCorrect, PTL DEF NextSimilarIsPlayed

=============================================================================
