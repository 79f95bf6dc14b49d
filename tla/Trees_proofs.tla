---------------------------- MODULE Trees_proofs -----------------------------
(***************************************************************************)
(* The importers of trees, for any servers, bounds and faults: that a run  *)
(* removes no file or folder that is still on the server (GraphDrive,      *)
(* PathFolders, JmapTree, ExchangeFolders), and that the rows stay a tree. *)
(* At the end, with Reruns_proofs, the same of all the importers there are.*)
(***************************************************************************)
EXTENDS Reruns_proofs

-----------------------------------------------------------------------------
(* Finitely many numbers have a greatest one.                              *)
LEMMA GreatestOf ==
  ASSUME NEW S \in SUBSET Nat, IsFiniteSet(S), S # {}
  PROVE  Max(S) \in S /\ \A x \in S : x <= Max(S)
<1>1. PICK n \in Nat : ExistsSurjection(1..n, S)
  BY FS_NatSurjection
<1>2. PICK f \in [1..n -> S] : \A y \in S : \E k \in 1..n : f[k] = y
  BY <1>1 DEF ExistsSurjection, Surjection
<1> DEFINE Bounded(m) == \E b \in Nat : \A k \in 1..m : f[k] <= b
           Short == {m \in 0..n : ~Bounded(m)}
<1>3. Short = {}
  <2> SUFFICES ASSUME Short # {} PROVE FALSE
    OBVIOUS
  <2> HIDE DEF Bounded
  <2>1. PICK m \in Short : \A k \in Short : m <= k
    <3>1. Short \in SUBSET Nat
      OBVIOUS
    <3> HIDE DEF Short
    <3> QED
      BY <3>1, LeastNumber
  <2>2. m # 0
    <3>1. \A k \in 1..0 : f[k] <= 0
      OBVIOUS
    <3>2. Bounded(0)
      BY <3>1 DEF Bounded
    <3> QED
      BY <2>1, <3>2
  <2>3. m - 1 \in 0..n /\ m \in 1..n /\ ~(m <= m - 1)
    BY <2>1, <2>2
  <2>4. Bounded(m - 1)
    BY <2>1, <2>3
  <2>5. PICK b \in Nat : \A k \in 1..(m - 1) : f[k] <= b
    BY <2>4 DEF Bounded
  <2>6. \A k \in 1..n : f[k] \in Nat
    OBVIOUS
  <2>7. PICK c \in Nat : c = f[m]
    BY <2>3, <2>6
  <2>8. \A k \in 1..m : f[k] <= b + c
    <3> SUFFICES ASSUME NEW k \in 1..m PROVE f[k] <= b + c
      OBVIOUS
    <3>1. f[k] \in Nat
      BY <2>3, <2>6
    <3>2. CASE k = m
      BY <2>7, <3>1, <3>2
    <3>3. CASE k \in 1..(m - 1)
      BY <2>5, <3>1, <3>3
    <3> QED
      BY <2>3, <3>2, <3>3
  <2>9. Bounded(m)
    BY <2>8, b + c \in Nat DEF Bounded
  <2> QED
    BY <2>1, <2>9
<1>4. PICK b \in Nat : \A k \in 1..n : f[k] <= b
  <2> HIDE DEF Bounded
  <2>1. n \in 0..n /\ n \notin Short
    BY <1>3
  <2>2. Bounded(n)
    BY <2>1
  <2> QED
    BY <2>2 DEF Bounded
<1>5. \A x \in S : x \in Nat /\ x <= b
  BY <1>2, <1>4
<1> DEFINE back == {b - x : x \in S}
<1>6. back \in SUBSET Nat /\ back # {}
  <2>1. \A x \in S : b - x \in Nat
    BY <1>5
  <2> QED
    BY <2>1
<1>7. PICK c \in back : \A d \in back : c <= d
  BY <1>6, LeastNumber
<1>8. PICK x \in S : c = b - x
  BY <1>7
<1>9. \A y \in S : x >= y
  <2> SUFFICES ASSUME NEW y \in S PROVE x >= y
    OBVIOUS
  <2>1. b - y \in back /\ x \in Nat /\ y \in Nat
    OBVIOUS
  <2>2. b - x <= b - y
    BY <1>7, <1>8, <2>1
  <2> QED
    BY <2>1, <2>2
<1>10. Max(S) \in S /\ \A y \in S : Max(S) >= y
  BY <1>9 DEF Max
<1> QED
  BY <1>5, <1>10

-----------------------------------------------------------------------------
(* Trees.  A climb goes from a node to the one above it, and on.           *)

Climb(parent, i, f) ==
  /\ f[0] = i
  /\ \A k \in 1..LastItem : f[k] = IF f[k - 1] = Top THEN Top ELSE parent[f[k - 1]]
LedTo(parent, i, f) ==
  Climb(parent, i, f) /\ Lineage(parent, i) = {f[k] : k \in 0..LastItem} \ {Top}
RootedAt(parent, i) == \E j \in Lineage(parent, i) : parent[j] = Top

(* There is a climb, and the lineage is what it passes.                    *)
LEMMA Climbs ==
  ASSUME NEW parent, NEW i
  PROVE  \E f : LedTo(parent, i, f)
<1> DEFINE Step(g, k) == IF k = 0 THEN i ELSE IF g[k - 1] = Top THEN Top ELSE parent[g[k - 1]]
           Short == {n \in 0..LastItem : ~\E g : g = [k \in 0..n |-> Step(g, k)]}
<1>0. LastItem \in Nat
  BY RerunsAssumption
<1>1. Short = {}
  <2> SUFFICES ASSUME Short # {} PROVE FALSE
    OBVIOUS
  <2>1. Short \in SUBSET Nat
    BY <1>0
  <2>2. PICK n \in Short : \A m \in Short : n <= m
    BY <2>1, LeastNumber
  <2>3. CASE n = 0
    <3> DEFINE g == [k \in 0..0 |-> i]
    <3>1. g = [k \in 0..0 |-> Step(g, k)]
      OBVIOUS
    <3> QED
      BY <2>2, <2>3, <3>1
  <2>4. CASE n # 0
    <3>0. n - 1 \in 0..LastItem /\ n \in Nat /\ n > 0
      BY <1>0, <2>2, <2>4
    <3>1. n - 1 \in 0..LastItem /\ n - 1 \notin Short /\ n \in Nat /\ n > 0
      <4> HIDE DEF Short
      <4> QED
        BY <2>2, <3>0
    <3>2. PICK g : g = [k \in 0..(n - 1) |-> Step(g, k)]
      BY <3>1
    <3> DEFINE h == [k \in 0..n |-> IF k = n THEN IF g[n - 1] = Top THEN Top ELSE parent[g[n - 1]] ELSE g[k]]
    <3>3. \A k \in 0..n : h[k] = Step(h, k)
      <4> SUFFICES ASSUME NEW k \in 0..n PROVE h[k] = Step(h, k)
        OBVIOUS
      <4>1. CASE k = n
        <5>1. h[k - 1] = g[n - 1] /\ h[k] = IF g[n - 1] = Top THEN Top ELSE parent[g[n - 1]]
          BY <3>1, <4>1
        <5> QED
          BY <3>1, <4>1, <5>1
      <4>2. CASE k # n
        <5>1. h[k] = g[k] /\ k \in 0..(n - 1) /\ (k # 0 => h[k - 1] = g[k - 1])
          BY <3>1, <4>2
        <5>2. g[k] = Step(g, k)
          BY <3>2, <5>1
        <5> QED
          BY <5>1, <5>2
      <4> QED
        BY <4>1, <4>2
    <3>4. h = [k \in 0..n |-> Step(h, k)]
      <4> DEFINE hh == [k \in 0..n |-> Step(h, k)]
      <4>1. \A k \in 0..n : hh[k] = h[k]
        BY <3>3
      <4>2. hh = [k \in 0..n |-> hh[k]] /\ h = [k \in 0..n |-> h[k]]
        OBVIOUS
      <4> HIDE DEF hh, h
      <4>3. hh = h
        BY <4>1, <4>2
      <4> QED
        BY <4>3 DEF hh
    <3> HIDE DEF h, Step
    <3> QED
      BY <2>2, <3>4
  <2> QED
    BY <2>3, <2>4
<1> DEFINE f == CHOOSE g : g = [k \in 0..LastItem |-> Step(g, k)]
<1>2. \E g : g = [k \in 0..LastItem |-> Step(g, k)]
  <2>1. LastItem \in 0..LastItem /\ LastItem \notin Short
    BY <1>0, <1>1
  <2> HIDE DEF Step
  <2> QED
    BY <2>1
<1>3. f = [k \in 0..LastItem |-> Step(f, k)]
  <2> HIDE DEF Step
  <2> QED
    BY <1>2, Zenon
<1>4. Lineage(parent, i) = {f[k] : k \in 0..LastItem} \ {Top}
  BY Zenon DEF Lineage
<1> HIDE DEF f
<1>5. Climb(parent, i, f)
  <2>1. f[0] = i
    BY <1>0, <1>3
  <2>2. \A k \in 1..LastItem : f[k] = IF f[k - 1] = Top THEN Top ELSE parent[f[k - 1]]
    BY <1>0, <1>3
  <2> QED
    BY <2>1, <2>2 DEF Climb
<1> QED
  BY <1>4, <1>5 DEF LedTo

(* What holds of a node and, if of one, of the node above, holds of all    *)
(* above.                                                                  *)
LEMMA ClimbStaysIn ==
  ASSUME NEW parent, NEW i, NEW f, Climb(parent, i, f), NEW X, i \in X, Top \in X,
         \A x \in X : x # Top => parent[x] \in X
  PROVE  \A k \in 0..LastItem : f[k] \in X
<1>0. LastItem \in Nat
  BY RerunsAssumption
<1> DEFINE Out == {k \in 0..LastItem : f[k] \notin X}
<1> SUFFICES ASSUME Out # {} PROVE FALSE
  OBVIOUS
<1>1. Out \in SUBSET Nat
  BY <1>0
<1>2. PICK n \in Out : \A m \in Out : n <= m
  BY <1>1, LeastNumber
<1>3. n # 0
  BY <1>2 DEF Climb
<1>4. n - 1 \in 0..LastItem /\ n - 1 \notin Out /\ n \in 1..LastItem
  BY <1>0, <1>2, <1>3
<1> QED
  BY <1>2, <1>4 DEF Climb

(* Once at the top a climb is over.                                        *)
LEMMA ClimbOver ==
  ASSUME NEW parent, NEW i, NEW f, Climb(parent, i, f), NEW a \in 0..LastItem, f[a] = Top,
         NEW b \in a..LastItem
  PROVE  f[b] = Top
<1>0. LastItem \in Nat
  BY RerunsAssumption
<1> DEFINE Out == {k \in a..LastItem : f[k] # Top}
<1> SUFFICES ASSUME Out # {} PROVE FALSE
  OBVIOUS
<1>1. Out \in SUBSET Nat
  BY <1>0
<1>2. PICK n \in Out : \A m \in Out : n <= m
  BY <1>1, LeastNumber
<1>3. n - 1 \in a..LastItem /\ n - 1 \notin Out /\ n \in 1..LastItem
  BY <1>0, <1>2
<1> QED
  BY <1>2, <1>3 DEF Climb

(* A climb that does not reach the top comes by some node twice.           *)
LEMMA ClimbRepeats ==
  ASSUME NEW parent \in [Items -> {Top} \union Items], NEW i \in Items, NEW f, Climb(parent, i, f),
         f[LastItem] # Top
  PROVE  /\ \A k \in 0..LastItem : f[k] \in Items
         /\ \E a, b \in 0..LastItem : a < b /\ f[a] = f[b]
<1>0. LastItem \in Nat
  BY RerunsAssumption
<1>1. \A k \in 0..LastItem : f[k] \in {Top} \union Items
  BY ClimbStaysIn
<1>2. ASSUME NEW k \in 0..LastItem PROVE f[k] # Top
  <2>1. LastItem \in k..LastItem
    BY <1>0
  <2> QED
    BY <2>1, ClimbOver
<1>3. \A k \in 0..LastItem : f[k] \in Items
  BY <1>1, <1>2
<1> DEFINE g == [k \in 0..LastItem |-> f[k]]
<1>4. g \in [0..LastItem -> Items]
  BY <1>3
<1>5. /\ IsFiniteSet(0..LastItem) /\ Cardinality(0..LastItem) = LastItem + 1
      /\ IsFiniteSet(Items) /\ Cardinality(Items) = LastItem
  BY <1>0, FS_Interval DEF Items
<1>6. Cardinality(Items) < Cardinality(0..LastItem)
  BY <1>0, <1>5
<1> HIDE DEF g
<1>7. \E x, y \in 0..LastItem : x # y /\ g[x] = g[y]
  <2>1. PICK S : S = 0..LastItem
    OBVIOUS
  <2>2. g \in [S -> Items] /\ IsFiniteSet(S) /\ IsFiniteSet(Items) /\ Cardinality(Items) < Cardinality(S)
    BY <1>4, <1>5, <1>6, <2>1
  <2>3. \E x, y \in S : x # y /\ g[x] = g[y]
    BY <2>2, FS_PigeonHole
  <2> QED
    BY <2>1, <2>3
<1>8. \E x, y \in 0..LastItem : x # y /\ f[x] = f[y]
  BY <1>7 DEF g
<1> QED
  BY <1>0, <1>3, <1>8

(* Where every node is of a higher rank than the one above it, each is     *)
(* under the top.                                                          *)
LEMMA RankedRooted ==
  ASSUME NEW parent \in [Items -> {Top} \union Items], NEW rank \in [Items -> Nat],
         \A j \in Items : parent[j] # Top => rank[parent[j]] < rank[j],
         NEW i \in Items
  PROVE  RootedAt(parent, i)
<1>0. LastItem \in Nat \ {0} /\ Top \notin Items
  BY RerunsAssumption DEF Items, Top
<1>1. PICK f : LedTo(parent, i, f)
  BY Climbs
<1>2. Climb(parent, i, f) /\ Lineage(parent, i) = {f[k] : k \in 0..LastItem} \ {Top}
  BY <1>1 DEF LedTo
<1> SUFFICES ASSUME ~RootedAt(parent, i) PROVE FALSE
  OBVIOUS
<1>3. \A k \in 0..LastItem : f[k] # Top => parent[f[k]] # Top
  BY <1>2 DEF RootedAt
<1>4. \A k \in 0..LastItem : f[k] \in Items
  <2> DEFINE Out == {k \in 0..LastItem : f[k] \notin Items}
  <2> SUFFICES ASSUME Out # {} PROVE FALSE
    OBVIOUS
  <2>1. Out \in SUBSET Nat
    BY <1>0
  <2>2. PICK n \in Out : \A m \in Out : n <= m
    BY <2>1, LeastNumber
  <2>3. n # 0
    BY <1>2, <2>2 DEF Climb
  <2>4. n - 1 \in 0..LastItem /\ n - 1 \notin Out /\ n \in 1..LastItem
    BY <1>0, <2>2, <2>3
  <2>5. f[n - 1] \in Items /\ f[n - 1] # Top /\ f[n] = parent[f[n - 1]] /\ f[n] # Top
    BY <1>0, <1>2, <1>3, <2>4 DEF Climb
  <2> QED
    BY <2>2, <2>5
<1>5. f[LastItem] # Top
  BY <1>0, <1>4
<1>6. PICK a \in 0..LastItem, b \in 0..LastItem : a < b /\ f[a] = f[b]
  BY <1>2, <1>5, ClimbRepeats
<1>7. \A k \in 1..LastItem : f[k] = parent[f[k - 1]] /\ rank[f[k]] < rank[f[k - 1]]
  <2> SUFFICES ASSUME NEW k \in 1..LastItem
               PROVE  f[k] = parent[f[k - 1]] /\ rank[f[k]] < rank[f[k - 1]]
    OBVIOUS
  <2>1. k - 1 \in 0..LastItem
    BY <1>0
  <2>2. f[k - 1] \in Items /\ f[k - 1] # Top /\ parent[f[k - 1]] # Top
    BY <1>0, <1>3, <1>4, <2>1
  <2>3. f[k] = parent[f[k - 1]]
    BY <1>2, <2>2 DEF Climb
  <2> QED
    BY <2>2, <2>3
<1> DEFINE Out == {k \in (a + 1)..LastItem : ~(rank[f[k]] < rank[f[a]])}
<1>8. b \in Out
  BY <1>0, <1>4, <1>6
<1>9. Out \in SUBSET Nat
  BY <1>0
<1>10. PICK n \in Out : \A m \in Out : n <= m
  BY <1>8, <1>9, LeastNumber
<1>11. n \in 1..LastItem /\ n - 1 \in 0..LastItem /\ rank[f[n]] < rank[f[n - 1]]
  <2>1. n \in (a + 1)..LastItem
    BY <1>10
  <2>2. n \in 1..LastItem /\ n - 1 \in 0..LastItem
    BY <1>0, <2>1
  <2> QED
    BY <1>7, <2>2
<1>12. CASE n = a + 1
  <2>1. n - 1 = a
    BY <1>0, <1>12
  <2> QED
    BY <1>10, <1>11, <2>1
<1>13. CASE n # a + 1
  <2>1. n - 1 \in (a + 1)..LastItem /\ n - 1 \notin Out
    BY <1>0, <1>10, <1>13
  <2>2. rank[f[n - 1]] < rank[f[a]]
    BY <2>1
  <2>3. rank[f[n]] \in Nat /\ rank[f[n - 1]] \in Nat /\ rank[f[a]] \in Nat
    BY <1>4, <1>11
  <2> QED
    BY <1>10, <1>11, <2>2, <2>3
<1> QED
  BY <1>12, <1>13

(* From a node under the top a climb comes to the top.                     *)
LEMMA ClimbEnds ==
  ASSUME NEW parent \in [Items -> {Top} \union Items], NEW i \in Items, NEW f, LedTo(parent, i, f),
         RootedAt(parent, i)
  PROVE  f[LastItem] = Top
<1>0. LastItem \in Nat \ {0} /\ Top \notin Items
  BY RerunsAssumption DEF Items, Top
<1>1. Climb(parent, i, f) /\ Lineage(parent, i) = {f[k] : k \in 0..LastItem} \ {Top}
  BY DEF LedTo
<1> SUFFICES ASSUME f[LastItem] # Top PROVE FALSE
  OBVIOUS
<1>2. \A k \in 0..LastItem : f[k] \in Items
  BY <1>1, ClimbRepeats
<1>3. \A k \in 0..(LastItem - 1) : f[k + 1] = parent[f[k]] /\ f[k + 1] # Top
  <2> SUFFICES ASSUME NEW k \in 0..(LastItem - 1) PROVE f[k + 1] = parent[f[k]] /\ f[k + 1] # Top
    OBVIOUS
  <2>1. k + 1 \in 1..LastItem /\ (k + 1) - 1 = k /\ k \in 0..LastItem /\ k + 1 \in 0..LastItem
    BY <1>0
  <2>2. f[k + 1] = IF f[(k + 1) - 1] = Top THEN Top ELSE parent[f[(k + 1) - 1]]
    BY <1>1, <2>1 DEF Climb
  <2> QED
    BY <1>0, <1>2, <2>1, <2>2
<1>4. PICK m \in 0..LastItem : parent[f[m]] = Top
  BY <1>1 DEF RootedAt
<1>5. m = LastItem
  <2>1. m \in 0..(LastItem - 1) => FALSE
    BY <1>3, <1>4
  <2> QED
    BY <1>0, <2>1
<1>6. PICK a \in 0..LastItem, b \in 0..LastItem : a < b /\ f[a] = f[b]
  BY <1>1, ClimbRepeats
<1> DEFINE Out == {t \in 0..(LastItem - b) : f[a + t] # f[b + t]}
<1>7. Out = {}
  <2> SUFFICES ASSUME Out # {} PROVE FALSE
    OBVIOUS
  <2>1. Out \in SUBSET Nat
    BY <1>0
  <2>2. PICK n \in Out : \A t \in Out : n <= t
    BY <2>1, LeastNumber
  <2>3. n # 0
    BY <1>0, <1>6, <2>2
  <2>4. n - 1 \in 0..(LastItem - b) /\ n - 1 \notin Out /\ a + (n - 1) \in 0..(LastItem - 1)
        /\ b + (n - 1) \in 0..(LastItem - 1) /\ (a + (n - 1)) + 1 = a + n /\ (b + (n - 1)) + 1 = b + n
    BY <1>0, <1>6, <2>2, <2>3
  <2>5. f[a + (n - 1)] = f[b + (n - 1)]
    BY <2>4
  <2>6. f[(a + (n - 1)) + 1] = f[(b + (n - 1)) + 1]
    BY <1>3, <2>4, <2>5
  <2>7. f[a + n] = f[b + n]
    BY <2>4, <2>6
  <2> QED
    BY <2>2, <2>7
<1>8. LastItem - b \in 0..(LastItem - b) /\ b + (LastItem - b) = LastItem
      /\ a + (LastItem - b) \in 0..(LastItem - 1)
  BY <1>0, <1>6
<1>9. f[a + (LastItem - b)] = f[b + (LastItem - b)]
  BY <1>7, <1>8
<1> QED
  BY <1>3, <1>4, <1>5, <1>8, <1>9

(* No set of nodes under the top has the node above each of them in it.    *)
LEMMA NoDescent ==
  ASSUME NEW parent \in [Items -> {Top} \union Items], NEW i \in Items, RootedAt(parent, i),
         NEW X \in SUBSET Items, i \in X, \A x \in X : parent[x] \in X
  PROVE  FALSE
<1>0. Top \notin Items
  BY RerunsAssumption DEF Items, Top
<1>1. PICK f : LedTo(parent, i, f)
  BY Climbs
<1>2. \A k \in 0..LastItem : f[k] \in X \union {Top}
  BY <1>1, ClimbStaysIn DEF LedTo
<1> QED
  BY <1>0, <1>1, <1>2 DEF LedTo, RootedAt

(* A node is below itself, and what is under a node below i is below i.    *)
LEMMA BelowClosed ==
  ASSUME NEW parent \in [Items -> {Top} \union Items], NEW i \in Items
  PROVE  /\ i \in Below(parent, i)
         /\ \A j \in Items : parent[j] \in Below(parent, i) /\ RootedAt(parent, parent[j])
              => j \in Below(parent, i)
<1>0. LastItem \in Nat \ {0} /\ Top \notin Items
  BY RerunsAssumption DEF Items, Top
<1>1. i \in Below(parent, i)
  <2>1. PICK f : LedTo(parent, i, f)
    BY Climbs
  <2>2. 0 \in 0..LastItem
    BY <1>0
  <2>3. f[0] = i /\ f[0] # Top
    BY <1>0, <2>1 DEF LedTo, Climb
  <2>4. i \in {f[k] : k \in 0..LastItem} \ {Top}
    BY <2>2, <2>3
  <2> QED
    BY <2>1, <2>4 DEF LedTo, Below
<1>2. ASSUME NEW j \in Items, parent[j] \in Below(parent, i), RootedAt(parent, parent[j])
      PROVE  j \in Below(parent, i)
  <2>1. PICK f : LedTo(parent, j, f)
    BY Climbs
  <2>2. PICK g : LedTo(parent, parent[j], g)
    BY Climbs
  <2>3. parent[j] \in Items /\ i \in Lineage(parent, parent[j])
    BY <1>2 DEF Below
  <2>4. PICK m \in 0..LastItem : g[m] = i /\ g[m] # Top
    BY <2>2, <2>3 DEF LedTo
  <2>5. g[LastItem] = Top
    BY <1>2, <2>2, <2>3, ClimbEnds
  <2>6. m \in 0..(LastItem - 1)
    BY <1>0, <2>4, <2>5
  <2> DEFINE Out == {k \in 0..(LastItem - 1) : f[k + 1] # g[k]}
  <2>7. Out = {}
    <3> SUFFICES ASSUME Out # {} PROVE FALSE
      OBVIOUS
    <3>1. Out \in SUBSET Nat
      BY <1>0
    <3>2. PICK n \in Out : \A t \in Out : n <= t
      BY <3>1, LeastNumber
    <3>3. \A k \in 0..(LastItem - 1) : f[k + 1] = IF f[k] = Top THEN Top ELSE parent[f[k]]
      <4> SUFFICES ASSUME NEW k \in 0..(LastItem - 1)
                   PROVE  f[k + 1] = IF f[k] = Top THEN Top ELSE parent[f[k]]
        OBVIOUS
      <4>1. k + 1 \in 1..LastItem /\ (k + 1) - 1 = k
        BY <1>0
      <4>2. f[k + 1] = IF f[(k + 1) - 1] = Top THEN Top ELSE parent[f[(k + 1) - 1]]
        BY <2>1, <4>1 DEF LedTo, Climb
      <4> QED
        BY <4>1, <4>2
    <3>4. CASE n = 0
      <4>1. f[0] = j /\ j # Top /\ g[0] = parent[j] /\ 0 \in 0..(LastItem - 1)
        BY <1>0, <2>1, <2>2 DEF LedTo, Climb
      <4>2. f[0 + 1] = parent[j]
        BY <3>3, <4>1
      <4> QED
        BY <3>2, <3>4, <4>1, <4>2
    <3>5. CASE n # 0
      <4>1. n - 1 \in 0..(LastItem - 1) /\ n - 1 \notin Out /\ n \in 0..(LastItem - 1) /\ n \in 1..LastItem
            /\ (n - 1) + 1 = n
        BY <1>0, <3>2, <3>5
      <4>2. f[n] = g[n - 1]
        <5>1. f[(n - 1) + 1] = g[n - 1]
          BY <4>1
        <5> QED
          BY <4>1, <5>1
      <4>3. f[n + 1] = IF f[n] = Top THEN Top ELSE parent[f[n]]
        BY <3>3, <4>1
      <4>4. g[n] = IF g[n - 1] = Top THEN Top ELSE parent[g[n - 1]]
        BY <2>2, <4>1 DEF LedTo, Climb
      <4> QED
        BY <3>2, <4>2, <4>3, <4>4
    <3> QED
      BY <3>4, <3>5
  <2>8. f[m + 1] = i /\ m + 1 \in 0..LastItem
    BY <1>0, <2>4, <2>6, <2>7
  <2>9. i \in {f[k] : k \in 0..LastItem} \ {Top}
    BY <1>0, <2>8
  <2> QED
    BY <2>1, <2>9 DEF LedTo, Below
<1> QED
  BY <1>1, <1>2

(* A node that is not at the top is deeper than the one above it.          *)
LEMMA DeeperBelow ==
  ASSUME NEW parent \in [Items -> {Top} \union Items], NEW i \in Items, RootedAt(parent, i),
         parent[i] # Top, RootedAt(parent, parent[i])
  PROVE  /\ Depth(parent, i) \in Nat /\ Depth(parent, parent[i]) \in Nat
         /\ Depth(parent, parent[i]) < Depth(parent, i)
<1>0. LastItem \in Nat \ {0} /\ Top \notin Items /\ parent[i] \in Items
  BY RerunsAssumption DEF Items, Top
<1> DEFINE p == parent[i]
<1>1. PICK f : LedTo(parent, i, f)
  BY Climbs
<1>2. PICK g : LedTo(parent, p, g)
  BY Climbs
<1>3. /\ Climb(parent, i, f) /\ Lineage(parent, i) = {f[k] : k \in 0..LastItem} \ {Top}
      /\ Climb(parent, p, g) /\ Lineage(parent, p) = {g[k] : k \in 0..LastItem} \ {Top}
  BY <1>1, <1>2 DEF LedTo
<1>4. \A k \in 0..(LastItem - 1) : g[k] = f[k + 1]
  <2> DEFINE Out == {k \in 0..(LastItem - 1) : g[k] # f[k + 1]}
  <2> SUFFICES ASSUME Out # {} PROVE FALSE
    OBVIOUS
  <2>1. Out \in SUBSET Nat
    BY <1>0
  <2>2. PICK n \in Out : \A m \in Out : n <= m
    BY <2>1, LeastNumber
  <2>3. n # 0
    <3>1. f[0] = i /\ g[0] = p /\ 1 \in 1..LastItem /\ 1 - 1 = 0 /\ i # Top
      BY <1>0, <1>3 DEF Climb
    <3>2. f[1] = p
      BY <3>1, <1>3 DEF Climb
    <3> QED
      BY <2>2, <3>1, <3>2
  <2>4. n - 1 \in 0..(LastItem - 1) /\ n - 1 \notin Out /\ n \in 1..LastItem /\ n + 1 \in 1..LastItem
        /\ (n - 1) + 1 = n /\ (n + 1) - 1 = n
    BY <1>0, <2>2, <2>3
  <2>5. g[n - 1] = f[n]
    BY <2>4
  <2>6. /\ g[n] = IF g[n - 1] = Top THEN Top ELSE parent[g[n - 1]]
        /\ f[n + 1] = IF f[(n + 1) - 1] = Top THEN Top ELSE parent[f[(n + 1) - 1]]
    BY <1>3, <2>4 DEF Climb
  <2> QED
    BY <2>2, <2>4, <2>5, <2>6
<1>5. g[LastItem] = Top
  BY <1>0, <1>2, ClimbEnds
<1>6. Lineage(parent, p) \subseteq Lineage(parent, i)
  <2> SUFFICES ASSUME NEW x \in Lineage(parent, p) PROVE x \in Lineage(parent, i)
    OBVIOUS
  <2>1. PICK k \in 0..LastItem : x = g[k] /\ x # Top
    BY <1>3
  <2>2. k \in 0..(LastItem - 1) /\ k + 1 \in 0..LastItem
    BY <1>0, <1>5, <2>1
  <2> QED
    BY <1>3, <1>4, <2>1, <2>2
<1>7. i \in Lineage(parent, i)
  BY <1>0, <1>3 DEF Climb
<1>8. i \notin Lineage(parent, p)
  <2> SUFFICES ASSUME i \in Lineage(parent, p) PROVE FALSE
    OBVIOUS
  <2>1. \A k \in 0..LastItem : f[k] \in {Top} \union Items /\ g[k] \in {Top} \union Items
    <3>1. \A x \in Items \union {Top} : x # Top => parent[x] \in Items \union {Top}
      OBVIOUS
    <3> QED
      BY <1>0, <1>3, <3>1, ClimbStaysIn
  <2>2. PICK m \in 0..LastItem : g[m] = i
    BY <1>3
  <2>3. m \in 0..(LastItem - 1)
    BY <1>0, <1>5, <2>2
  <2> DEFINE X == {f[k] : k \in 0..m}
  <2>4. \A k \in 0..m : f[k] # Top
    <3> DEFINE Out == {k \in 0..m : f[k] = Top}
    <3>1. \A k \in 0..(LastItem - 1) : f[k] = Top => f[k + 1] = Top
      <4> SUFFICES ASSUME NEW k \in 0..(LastItem - 1), f[k] = Top PROVE f[k + 1] = Top
        OBVIOUS
      <4>1. k + 1 \in 1..LastItem /\ (k + 1) - 1 = k
        BY <1>0
      <4>2. f[k + 1] = IF f[(k + 1) - 1] = Top THEN Top ELSE parent[f[(k + 1) - 1]]
        BY <1>3, <4>1 DEF Climb
      <4> QED
        BY <4>1, <4>2
    <3>2. f[m + 1] = i
      BY <1>4, <2>2, <2>3
    <3> SUFFICES ASSUME NEW c \in 0..m, f[c] = Top PROVE FALSE
      OBVIOUS
    <3> DEFINE On == {k \in c..(m + 1) : f[k] # Top}
    <3>3. On # {} /\ On \in SUBSET Nat
      <4>1. m + 1 \in c..(m + 1) /\ c \in Nat
        BY <2>3
      <4> QED
        BY <1>0, <3>2, <4>1
    <3>4. PICK n \in On : \A k \in On : n <= k
      <4> HIDE DEF On
      <4> QED
        BY <3>3, LeastNumber
    <3>5. n # c /\ n - 1 \in c..(m + 1) /\ n - 1 \in 0..(LastItem - 1) /\ (n - 1) + 1 = n /\ ~(n <= n - 1)
      BY <1>0, <2>3, <3>4
    <3>6. f[n - 1] = Top
      BY <3>4, <3>5
    <3> QED
      BY <3>1, <3>4, <3>5, <3>6
  <2>5. X \in SUBSET Items /\ i \in X
    <3>1. \A k \in 0..m : f[k] \in Items
      BY <2>1, <2>3, <2>4, <1>0
    <3>2. 0 \in 0..m /\ f[0] = i
      BY <1>3, <2>3 DEF Climb
    <3> QED
      BY <3>1, <3>2
  <2>6. \A x \in X : parent[x] \in X
    <3> SUFFICES ASSUME NEW k \in 0..m PROVE parent[f[k]] \in X
      OBVIOUS
    <3>1. k + 1 \in 1..LastItem /\ (k + 1) - 1 = k /\ f[k] # Top
      BY <1>0, <2>3, <2>4
    <3>2. f[k + 1] = parent[f[k]]
      BY <1>3, <3>1 DEF Climb
    <3>3. CASE k = m
      BY <1>4, <2>2, <2>3, <2>5, <3>2, <3>3
    <3>4. CASE k # m
      <4>1. k + 1 \in 0..m
        BY <2>3, <3>4
      <4> QED
        BY <3>2, <4>1
    <3> QED
      BY <3>3, <3>4
  <2> HIDE DEF X
  <2> QED
    BY <2>5, <2>6, NoDescent
<1>9. IsFiniteSet(Lineage(parent, i))
  <2> DEFINE S == 0..LastItem
             T == {f[k] : k \in S}
  <2>1. IsFiniteSet(S)
    BY <1>0, FS_Interval
  <2>2. [k \in S |-> f[k]] \in Surjection(S, T)
    BY DEF Surjection
  <2>3. IsFiniteSet(T)
    <3> HIDE DEF S, T
    <3> QED
      BY <2>1, <2>2, FS_Surjection
  <2>4. Lineage(parent, i) \subseteq T
    BY <1>3
  <2> HIDE DEF T
  <2> QED
    BY <2>3, <2>4, FS_Subset
<1>10. p \in Lineage(parent, p)
  BY <1>0, <1>3 DEF Climb
<1>11. /\ IsFiniteSet(Lineage(parent, p)) /\ Lineage(parent, p) # Lineage(parent, i)
       /\ Cardinality(Lineage(parent, p)) \in Nat /\ Cardinality(Lineage(parent, i)) \in Nat
       /\ Cardinality(Lineage(parent, p)) < Cardinality(Lineage(parent, i))
  <2>1. IsFiniteSet(Lineage(parent, p)) /\ Lineage(parent, p) # Lineage(parent, i)
    BY <1>6, <1>7, <1>8, <1>9, FS_Subset
  <2> QED
    BY <1>6, <1>9, <2>1, FS_Subset, FS_CardinalityType
<1>12. Cardinality(Lineage(parent, p)) # 0 /\ Cardinality(Lineage(parent, i)) # 0
  BY <1>7, <1>9, <1>10, <1>11, FS_EmptySet
<1> QED
  BY <1>11, <1>12 DEF Depth

-----------------------------------------------------------------------------
(* The files of OneDrive.                                                  *)

Typed(e) ==
  /\ e = [item |-> e.item, parent |-> e.parent, name |-> e.name, ver |-> e.ver]
  /\ e.item \in Items /\ e.parent \in {Top} \union Items

DriveServer ==
  /\ server = [on |-> server.on, ever |-> server.ever, parent |-> server.parent,
               name |-> server.name, class |-> server.class, ver |-> server.ver,
               changes |-> server.changes, had |-> server.had]
  /\ server.on \subseteq server.ever /\ server.ever \subseteq Items
  /\ server.parent \in [Items -> {Top} \union Items]
  /\ \A i \in server.on :
       /\ server.parent[i] \in server.on \union {Top} /\ RootedAt(server.parent, i)
       /\ server.parent[i] # Top => Directory(server.parent[i])
DrivePast ==
  past = [missed |-> past.missed, moved |-> past.moved, unseen |-> past.unseen, frozen |-> past.frozen]

(* The rows have ranks, each a higher one than the row above it, and those *)
(* that the run has written are under one another.                         *)
Ranks(R, f, b) ==
  /\ f \in [Items -> Nat] /\ b \in Nat /\ \A i \in Items : f[i] <= b
  /\ \A r \in R : r.parent # Top => f[r.parent] < f[r.item]
Ordered(R, known) ==
  /\ \A r \in R : Typed(r)
  /\ \A r \in R : r.item \in known => r.parent \in known \union {Top}
  /\ \E f, b : Ranks(R, f, b)

(* What a listing has to find, G: each that it has not found yet is in a   *)
(* directory it will list, or in one it has to find.                       *)
Coming(G, r, excused) ==
  /\ G \subseteq server.on /\ server.on \ excused \subseteq G
  /\ \A i \in G : server.parent[i] \in G \union {Top}
  /\ \A i \in G \ ItemsOf(r.plan) :
       server.parent[i] \in r.frontier \union (G \ ItemsOf(r.plan))

DriveRecord(r) ==
  /\ r = [pc |-> r.pc, frontier |-> r.frontier, plan |-> r.plan, known |-> r.known,
          draft |-> r.draft, pending |-> r.pending, gone |-> r.gone, failed |-> r.failed]
  /\ \A e \in r.plan : Typed(e)
  /\ \A e, d \in r.plan : e.item = d.item => e = d
  /\ r.known \subseteq Items
(* A run that lists, and one that writes and deletes.                      *)
Looking(r, excused) ==
  /\ r.pc \in {"root", "children"} /\ r.known = {} /\ r.draft = {}
  /\ r.pc = "root" => r.plan = {}
  /\ r.pc = "children" => \E G : Coming(G, r, excused)
Applying(r, excused) ==
  /\ r.pc \in {"directories", "files", "vanished"}
  /\ r.gone \subseteq excused
  /\ ItemsOf(r.plan) \intersect r.known = {}
  /\ r.pc = "files" => Directories(r.plan) = {}
  /\ r.pc # "files" => r.draft = {}
DriveLocals(r, rows, excused) ==
  /\ DriveRecord(r) /\ Ordered(rows \union r.draft, r.known)
  /\ Looking(r, excused) \/ Applying(r, excused)

DriveInv ==
  /\ IsDrive /\ DriveServer /\ DrivePast /\ Missing /\ Ordered(archive, {})
  /\ Running => DriveLocals(run, archive, Excused)

(* Fewer rows, or fewer that are known, are in order too.                  *)
LEMMA StillOrdered ==
  ASSUME NEW R, NEW known, Ordered(R, known), NEW Q \in SUBSET R
  PROVE  Ordered(Q, known) /\ Ordered(Q, {})
<1>1. PICK f, b : Ranks(R, f, b)
  BY DEF Ordered
<1>2. Ranks(Q, f, b)
  BY <1>1 DEF Ranks
<1> QED
  BY <1>2 DEF Ordered

(* A row that is written under one that is known leaves the rows in order: *)
(* all that are not known get a higher rank than any that is.              *)
LEMMA WrittenInOrder ==
  ASSUME NEW R, NEW known \in SUBSET Items, Ordered(R, known), NEW row, Typed(row),
         row.item \notin known, row.parent \in known \union {Top}
  PROVE  /\ Ordered(R \union {row}, known)
         /\ Ordered({r \in R : r.item # row.item} \union {row}, known \union {row.item})
<1>0. Top \notin Items
  BY RerunsAssumption DEF Items, Top
<1>1. PICK f, b : Ranks(R, f, b)
  BY DEF Ordered
<1> DEFINE g == [i \in Items |-> IF i \in known THEN f[i] ELSE f[i] + b + 1]
<1>2. g \in [Items -> Nat] /\ 2 * b + 1 \in Nat
  BY <1>1 DEF Ranks
<1>3. \A i \in Items : g[i] <= 2 * b + 1
  BY <1>1 DEF Ranks
<1>4. ASSUME NEW r \in R \union {row}, r.parent # Top
      PROVE  g[r.parent] < g[r.item]
  <2>0. r.item \in Items /\ r.parent \in Items
    BY <1>4 DEF Ordered, Typed
  <2>1. CASE r = row
    <3>1. r.parent \in known /\ r.item \notin known
      BY <1>4, <2>1
    <3> QED
      BY <1>1, <2>0, <3>1 DEF Ranks
  <2>2. CASE r \in R
    <3>1. f[r.parent] < f[r.item] /\ (r.item \in known => r.parent \in known)
      BY <1>1, <1>4, <2>2 DEF Ranks, Ordered
    <3> QED
      BY <1>1, <2>0, <3>1 DEF Ranks
  <2> QED
    BY <2>1, <2>2
<1> HIDE DEF g
<1>5. Ranks(R \union {row}, g, 2 * b + 1)
  BY <1>2, <1>3, <1>4 DEF Ranks
<1>6. Ordered(R \union {row}, known)
  BY <1>5 DEF Ordered
<1> DEFINE Q == {r \in R : r.item # row.item} \union {row}
<1>7. Q \subseteq R \union {row}
  OBVIOUS
<1>8. \E h, c : Ranks(Q, h, c)
  <2> HIDE DEF Q
  <2> QED
    BY <1>5, <1>7 DEF Ranks
<1>9. Ordered(Q, known \union {row.item})
  BY <1>6, <1>8 DEF Ordered
<1> QED
  BY <1>6, <1>9

(* The next phase that has work, or the end.                               *)
LEMMA GoesOnto ==
  ASSUME NEW r, DriveRecord(r), NEW rows, Ordered(rows \union r.draft, r.known), NEW excused,
         r.gone \subseteq excused, ItemsOf(r.plan) \intersect r.known = {},
         r.draft = {} \/ (r.plan # {} /\ Directories(r.plan) = {})
  PROVE  Onto(r).pc # "over" => DriveLocals(Onto(r), rows, excused)
<1>1. CASE Directories(r.plan) # {}
  <2>1. Onto(r) = [pc |-> "directories", frontier |-> r.frontier, plan |-> r.plan, known |-> r.known,
                   draft |-> r.draft, pending |-> r.pending, gone |-> r.gone, failed |-> r.failed]
    BY <1>1 DEF Onto, DriveRecord
  <2> HIDE DEF Onto
  <2> QED
    BY <1>1, <2>1 DEF DriveLocals, DriveRecord, Applying
<1>2. CASE Directories(r.plan) = {} /\ r.plan # {}
  <2>1. Onto(r) = [pc |-> "files", frontier |-> r.frontier, plan |-> r.plan, known |-> r.known,
                   draft |-> r.draft, pending |-> r.pending, gone |-> r.gone, failed |-> r.failed]
    BY <1>2 DEF Onto, DriveRecord
  <2> HIDE DEF Onto
  <2> QED
    BY <1>2, <2>1 DEF DriveLocals, DriveRecord, Applying
<1>3. CASE Directories(r.plan) = {} /\ r.plan = {} /\ r.gone # {}
  <2>1. Onto(r) = [pc |-> "vanished", frontier |-> r.frontier, plan |-> r.plan, known |-> {},
                   draft |-> r.draft, pending |-> r.pending, gone |-> r.gone, failed |-> r.failed]
    BY <1>3 DEF Onto, DriveRecord
  <2>2. Ordered(rows \union r.draft, {})
    BY StillOrdered
  <2> HIDE DEF Onto
  <2> QED
    BY <1>3, <2>1, <2>2 DEF DriveLocals, DriveRecord, Applying
<1>4. CASE Directories(r.plan) = {} /\ r.plan = {} /\ r.gone = {}
  BY <1>4 DEF Onto, Over
<1> QED
  BY <1>1, <1>2, <1>3, <1>4

(* What of the server the locals are about.                                *)
LEMMA ServerMoves ==
  ASSUME DriveInv, UNCHANGED <<part, archive, run>>, DriveServer', DrivePast',
         server'.class = server.class, Items \ server'.on \subseteq past'.missed \/ ~Running,
         Excused \subseteq Excused',
         \A G : Running /\ run.pc = "children" /\ Coming(G, run, Excused) => \E H : Coming(H, run, Excused)'
  PROVE  DriveInv' /\ KeptItems
<1>1. Running' = Running /\ IsDrive' /\ Missing' /\ Ordered(archive, {})'
  BY DEF DriveInv, Running, IsDrive, Missing, Ordered, Typed
<1>2. ASSUME Running PROVE DriveLocals(run, archive, Excused)'
  <2>1. DriveLocals(run, archive, Excused)
    BY <1>2 DEF DriveInv
  <2>2. DriveRecord(run)' /\ Ordered(archive \union run.draft, run.known)'
    BY <2>1 DEF DriveLocals
  <2>3. CASE Looking(run, Excused)
    BY <1>2, <2>2, <2>3 DEF DriveLocals, Looking
  <2>4. CASE Applying(run, Excused)
    <3>1. run'.gone \subseteq Excused'
      BY <2>4 DEF Applying
    <3>2. Directories(run.plan)' = Directories(run.plan)
      BY DEF Directories, Directory
    <3> QED
      BY <2>2, <2>4, <3>1, <3>2 DEF DriveLocals, Applying
  <2> QED
    BY <2>1, <2>3, <2>4 DEF DriveLocals
<1> QED
  BY <1>1, <1>2 DEF DriveInv, KeptItems, ItemsOf

(* An item comes, changes or moves.                                        *)
LEMMA PutKeepsDrive ==
  ASSUME DriveInv, NEW i \in Items, NEW p \in {Top} \union Items, NEW n,
         NewNode(i, p, n) \/ EditFile(i) \/ MoveNode(i, p, n)
  PROVE  DriveInv' /\ KeptItems
<1>0. Top \notin Items
  BY RerunsAssumption DEF Items, Top
<1>1. PICK q, m, ver, unseen :
        /\ q \in {Top} \union Items
        /\ PutNode(i, q, m, ver, unseen)
        /\ \/ i \notin server.ever
           \/ i \in server.on /\ q = server.parent[i]
           \/ i \in server.on /\ (Running /\ run.pc = "children" => unseen = Below(server.parent, i))
  <2>1. CASE NewNode(i, p, n)
    BY <2>1, Zenon DEF NewNode
  <2>2. CASE EditFile(i)
    <3>1. server.parent[i] \in {Top} \union Items
      BY DEF DriveInv, DriveServer
    <3>2. i \in server.on /\ PutNode(i, server.parent[i], server.name[i], server.ver[i] + 1, {})
      BY <2>2, Zenon DEF EditFile
    <3> QED
      BY <3>1, <3>2, Zenon
  <2>3. CASE MoveNode(i, p, n)
    <3> DEFINE unseen == IF Running /\ run.pc = "children" THEN Below(server.parent, i) ELSE {}
    <3>1. i \in server.on /\ PutNode(i, p, n, server.ver[i], unseen)
      BY <2>3, Zenon DEF MoveNode
    <3>2. Running /\ run.pc = "children" => unseen = Below(server.parent, i)
      OBVIOUS
    <3> HIDE DEF unseen
    <3> QED
      BY <3>1, <3>2, Zenon
  <2> QED
    BY <2>1, <2>2, <2>3
<1> DEFINE parent == [server.parent EXCEPT ![i] = q]
           name == [server.name EXCEPT ![i] = m]
           on == server.on \union {i}
           had == server.had \union {Place(i, q, m)}
           vers == [server.ver EXCEPT ![i] = ver]
<1>2. /\ UNCHANGED <<part, archive, run>> /\ IsTree(on, parent, name) /\ (q # Top => Directory(q))
      /\ server' = [server EXCEPT !.on = on, !.ever = @ \union {i}, !.parent = parent, !.name = name,
                              !.ver[i] = ver, !.changes = @ + 1, !.had = had]
      /\ \E frozen : past' = [past EXCEPT !.moved = TRUE, !.unseen = @ \union unseen, !.frozen = frozen]
  BY <1>1 DEF PutNode, Changing
<1> HIDE DEF had
<1>3. /\ server.parent \in [Items -> {Top} \union Items] /\ server.on \subseteq server.ever
      /\ server.ever \subseteq Items
      /\ server = [on |-> server.on, ever |-> server.ever, parent |-> server.parent,
               name |-> server.name, class |-> server.class, ver |-> server.ver,
               changes |-> server.changes, had |-> server.had]
  BY DEF DriveInv, DriveServer
<1>4. parent \in [Items -> {Top} \union Items]
  BY <1>1, <1>3
<1>5. server' = [on |-> on, ever |-> server.ever \union {i}, parent |-> parent, name |-> name,
                 class |-> server.class, ver |-> vers, changes |-> server.changes + 1, had |-> had]
  <2> HIDE DEF parent, name
  <2> QED
    BY <1>2, <1>3
<1>6. past' = [missed |-> past.missed, moved |-> TRUE, unseen |-> past.unseen \union unseen,
               frozen |-> past'.frozen]
  BY <1>2 DEF DriveInv, DrivePast
<1>7. DriveServer'
  <2>1. \A j \in on : /\ parent[j] \in on \union {Top} /\ RootedAt(parent, j)
    <3> HIDE DEF parent, name, on
    <3> QED
      BY <1>2 DEF IsTree, RootedAt
  <2>2. \A j \in on : parent[j] # Top => Directory(parent[j])
    BY <1>2, <1>3 DEF DriveInv, DriveServer
  <2>3. \A j : Directory(j)' = Directory(j)
    BY <1>5 DEF Directory
  <2> HIDE DEF parent, name, vers
  <2> QED
    BY <1>3, <1>4, <1>5, <2>1, <2>2, <2>3 DEF DriveServer
<1>8. DrivePast' /\ Excused \subseteq Excused' /\ (Running => Items \ server.on \subseteq past.missed)
  BY <1>6 DEF DrivePast, Excused, DriveInv, Missing
<1>9. Items \ server'.on \subseteq past'.missed \/ ~Running
  BY <1>5, <1>6, <1>8
<1>10. ASSUME NEW G, Running, Coming(G, run, Excused), run.pc = "children"
       PROVE  \E H : Coming(H, run, Excused)'
  <2>1. /\ G \subseteq server.on /\ server.on \ Excused \subseteq G
        /\ \A j \in G : server.parent[j] \in G \union {Top}
        /\ \A j \in G \ ItemsOf(run.plan) :
             server.parent[j] \in run.frontier \union (G \ ItemsOf(run.plan))
    BY <1>10 DEF Coming
  <2>2. CASE i \notin server.ever
    <3>1. i \notin G /\ i \in Excused
      BY <1>3, <1>8, <1>10, <2>1, <2>2 DEF Excused
    <3>2. \A j \in G : parent[j] = server.parent[j]
      BY <1>3, <2>1, <3>1
    <3> HIDE DEF parent, name, vers
    <3> QED
      BY <1>2, <1>5, <1>8, <2>1, <3>1, <3>2 DEF Coming
  <2>3. CASE i \in server.on /\ q = server.parent[i]
    <3>1. parent = server.parent /\ on = server.on
      BY <1>3, <2>3
    <3> HIDE DEF parent, name, vers
    <3> QED
      BY <1>2, <1>5, <1>8, <2>1, <3>1 DEF Coming
  <2>4. CASE i \in server.on /\ unseen = Below(server.parent, i)
    <3>0. PICK H : H = G \ Below(server.parent, i)
      OBVIOUS
    <3>1. /\ i \in Below(server.parent, i)
          /\ \A j \in G : server.parent[j] \in Below(server.parent, i) => j \in Below(server.parent, i)
      <4>1. ASSUME NEW j \in G, server.parent[j] \in Below(server.parent, i)
            PROVE  RootedAt(server.parent, server.parent[j]) /\ j \in Items
        <5>1. server.parent[j] \in server.on
          BY <1>0, <2>1, <4>1 DEF Below
        <5> QED
          BY <1>3, <2>1, <5>1 DEF DriveInv, DriveServer
      <4> QED
        BY <1>3, <4>1, BelowClosed
    <3>2. \A j \in H : parent[j] = server.parent[j] /\ server.parent[j] \notin Below(server.parent, i)
      BY <1>3, <2>1, <3>0, <3>1
    <3>3. H \subseteq on /\ on \ Excused' \subseteq H
      BY <1>6, <1>8, <2>1, <2>4, <3>0 DEF Excused
    <3>4. \A j \in H : parent[j] \in H \union {Top}
      BY <2>1, <3>0, <3>2
    <3>5. \A j \in H \ ItemsOf(run.plan) : parent[j] \in run.frontier \union (H \ ItemsOf(run.plan))
      BY <2>1, <3>0, <3>2
    <3>6. run' = run /\ ItemsOf(run.plan)' = ItemsOf(run.plan)
      BY <1>2 DEF ItemsOf
    <3> HIDE DEF parent, name, vers, on
    <3>7. Coming(H, run, Excused)'
      BY <1>5, <3>3, <3>4, <3>5, <3>6 DEF Coming
    <3> QED
      BY <3>7
  <2> QED
    BY <1>1, <1>10, <2>2, <2>3, <2>4
<1> QED
  BY <1>2, <1>5, <1>7, <1>8, <1>9, <1>10, ServerMoves

(* An item is deleted, with all that is below it.                          *)
LEMMA DeleteKeepsDrive ==
  ASSUME DriveInv, NEW i \in Items, DeleteNode(i)
  PROVE  DriveInv' /\ KeptItems
<1>0. Top \notin Items
  BY RerunsAssumption DEF Items, Top
<1> DEFINE gone == Below(server.parent, i) \intersect server.on
<1>1. /\ UNCHANGED <<part, archive, run>> /\ i \in server.on
      /\ server' = [server EXCEPT !.on = @ \ gone, !.changes = @ + 1]
      /\ past' = [past EXCEPT !.moved = TRUE, !.missed = @ \union gone]
  BY DEF DeleteNode, Changing
<1>2. /\ server.parent \in [Items -> {Top} \union Items] /\ server.on \subseteq server.ever
      /\ server.ever \subseteq Items
      /\ \A j \in server.on :
           /\ server.parent[j] \in server.on \union {Top} /\ RootedAt(server.parent, j)
           /\ server.parent[j] # Top => Directory(server.parent[j])
  BY DEF DriveInv, DriveServer
<1>3. /\ i \in Below(server.parent, i)
      /\ \A j \in server.on : server.parent[j] \in Below(server.parent, i) => j \in Below(server.parent, i)
  <2>1. ASSUME NEW j \in server.on, server.parent[j] \in Below(server.parent, i)
        PROVE  RootedAt(server.parent, server.parent[j])
    <3>1. server.parent[j] \in server.on
      BY <1>0, <1>2, <2>1 DEF Below
    <3> QED
      BY <1>2, <3>1
  <2> QED
    BY <1>2, <2>1, BelowClosed
<1> HIDE DEF gone
<1>4. /\ server' = [on |-> server.on \ gone, ever |-> server.ever, parent |-> server.parent,
               name |-> server.name, class |-> server.class, ver |-> server.ver,
               changes |-> server.changes + 1, had |-> server.had]
      /\ past' = [missed |-> past.missed \union gone, moved |-> TRUE, unseen |-> past.unseen,
                  frozen |-> past.frozen]
  BY <1>1 DEF DriveInv, DriveServer, DrivePast
<1>5. DriveServer'
  <2>1. \A j \in server.on \ gone : server.parent[j] \in (server.on \ gone) \union {Top}
    BY <1>2, <1>3 DEF gone
  <2>2. \A j : Directory(j)' = Directory(j)
    BY <1>4 DEF Directory
  <2> QED
    BY <1>2, <1>4, <2>1, <2>2 DEF DriveServer
<1>6. DrivePast' /\ Excused \subseteq Excused' /\ (Running => Items \ server.on \subseteq past.missed)
  BY <1>4 DEF DrivePast, Excused, DriveInv, Missing
<1>7. Items \ server'.on \subseteq past'.missed \/ ~Running
  BY <1>4, <1>6
<1>8. ASSUME NEW G, Coming(G, run, Excused)
      PROVE  \E H : Coming(H, run, Excused)'
  <2>1. /\ G \subseteq server.on /\ server.on \ Excused \subseteq G
        /\ \A j \in G : server.parent[j] \in G \union {Top}
        /\ \A j \in G \ ItemsOf(run.plan) :
             server.parent[j] \in run.frontier \union (G \ ItemsOf(run.plan))
    BY <1>8 DEF Coming
  <2>0. PICK H : H = G \ gone
    OBVIOUS
  <2>2. \A j \in H : server.parent[j] \notin gone
    BY <1>3, <2>0, <2>1 DEF gone
  <2>3. H \subseteq server.on \ gone /\ (server.on \ gone) \ Excused' \subseteq H
    BY <1>6, <2>0, <2>1
  <2>4. \A j \in H : server.parent[j] \in H \union {Top}
    BY <2>0, <2>1, <2>2
  <2>5. \A j \in H \ ItemsOf(run.plan) : server.parent[j] \in run.frontier \union (H \ ItemsOf(run.plan))
    BY <2>0, <2>1, <2>2
  <2>6. run' = run /\ ItemsOf(run.plan)' = ItemsOf(run.plan)
    BY <1>1 DEF ItemsOf
  <2>7. Coming(H, run, Excused)'
    BY <1>4, <2>3, <2>4, <2>5, <2>6 DEF Coming
  <2> QED
    BY <2>7
<1> QED
  BY <1>1, <1>4, <1>5, <1>6, <1>7, <1>8, ServerMoves

(* A step of the run.                                                      *)
LEMMA DriveStepOK ==
  ASSUME DriveInv, Running, UNCHANGED <<part, server>>, NEW rows, archive' = rows, Ordered(rows, {}),
         \/ past' = past
         \/ \E frozen : past' = [past EXCEPT !.frozen = frozen]
         \/ run'.pc = "over" /\ past' = [past EXCEPT !.unseen = Items],
         NEW r, run' = r, r.pc # "over" => DriveLocals(r, rows, Excused)
  PROVE  DriveInv'
<1>1. DrivePast' /\ past'.missed = past.missed /\ (Running' => Excused \subseteq Excused')
  BY DEF Running, DriveInv, DrivePast, Excused
<1>2. IsDrive' /\ DriveServer' /\ Missing' /\ Ordered(archive, {})'
  <2>1. \A j : Directory(j)' = Directory(j)
    BY DEF Directory
  <2>2. IsDrive' /\ Missing' /\ Ordered(archive, {})'
    BY <1>1 DEF DriveInv, IsDrive, Missing, Ordered, Typed, Running
  <2> QED
    BY <2>1, <2>2 DEF DriveInv, DriveServer
<1>3. ASSUME Running' PROVE DriveLocals(run, archive, Excused)'
  <2>1. DriveLocals(r, rows, Excused)
    BY <1>3 DEF Running
  <2>2. DriveRecord(run)' /\ Ordered(archive \union run.draft, run.known)'
    BY <2>1 DEF DriveLocals
  <2>3. CASE Looking(r, Excused)
    <3>1. ASSUME NEW G, Coming(G, r, Excused) PROVE Coming(G, run, Excused)'
      BY <1>1, <1>3, <3>1 DEF Coming
    <3> QED
      BY <2>2, <2>3, <3>1 DEF DriveLocals, Looking
  <2>4. CASE Applying(r, Excused)
    <3>1. Directories(run.plan)' = Directories(r.plan)
      BY DEF Directories, Directory
    <3> QED
      BY <1>1, <1>3, <2>2, <2>4, <3>1 DEF DriveLocals, Applying
  <2> QED
    BY <2>1, <2>3, <2>4 DEF DriveLocals
<1> QED
  BY <1>1, <1>2, <1>3 DEF DriveInv

(* When nothing is left to list, all there was to find has been found.     *)
LEMMA AllFound ==
  ASSUME DriveInv, NEW r, DriveRecord(r), r.known = {}, r.draft = {}, r.frontier = {},
         Running, NEW G, Coming(G, r, Excused)
  PROVE  Divided(r).pc # "over" => DriveLocals(Divided(r), archive, Excused)
<1>1. /\ server.parent \in [Items -> {Top} \union Items] /\ server.on \subseteq Items
      /\ \A j \in server.on : RootedAt(server.parent, j)
      /\ Items \ server.on \subseteq Excused /\ Ordered(archive, {})
  BY DEF DriveInv, DriveServer, Missing, Excused
<1>2. /\ G \subseteq server.on /\ server.on \ Excused \subseteq G
      /\ \A j \in G \ ItemsOf(r.plan) : server.parent[j] \in G \ ItemsOf(r.plan)
  BY DEF Coming
<1>3. G \ ItemsOf(r.plan) = {}
  <2> DEFINE X == G \ ItemsOf(r.plan)
  <2> SUFFICES ASSUME NEW i \in X PROVE FALSE
    OBVIOUS
  <2>1. X \in SUBSET Items /\ i \in Items /\ RootedAt(server.parent, i) /\ \A x \in X : server.parent[x] \in X
    BY <1>1, <1>2
  <2> HIDE DEF X
  <2> QED
    BY <1>1, <2>1, NoDescent
<1>4. ItemsOf(archive) \ ItemsOf(r.plan) \subseteq Excused
  <2>1. ItemsOf(archive) \subseteq Items
    BY <1>1 DEF ItemsOf, Ordered, Typed
  <2> QED
    BY <1>1, <1>2, <1>3, <2>1
<1> DEFINE left == {e \in r.plan : Directory(e.item) \/ e.item \notin ItemsOf(archive)}
           gone == ItemsOf(archive) \ ItemsOf(r.plan)
<1>5. PICK s : s = [r EXCEPT !.gone = gone, !.plan = left]
  OBVIOUS
<1>6. Divided(r) = Onto(s)
  BY <1>5 DEF Divided
<1>7. left \subseteq r.plan
  OBVIOUS
<1> HIDE DEF left, gone
<1>8. s = [pc |-> r.pc, frontier |-> r.frontier, plan |-> left, known |-> {},
           draft |-> {}, pending |-> r.pending, gone |-> gone, failed |-> r.failed]
  BY <1>5 DEF DriveRecord
<1>9. DriveRecord(s) /\ Ordered(archive \union s.draft, s.known)
      /\ ItemsOf(s.plan) \intersect s.known = {} /\ s.gone \subseteq Excused /\ s.draft = {}
  <2>1. s.gone \subseteq Excused
    BY <1>4, <1>8 DEF gone
  <2>2. archive \union s.draft = archive
    BY <1>8
  <2> QED
    BY <1>1, <1>7, <1>8, <2>1, <2>2 DEF DriveRecord
<1> QED
  BY <1>6, <1>9, GoesOnto

(* A run begins, lists, or is stopped.                                     *)
LEMMA ListingKeepsDrive ==
  ASSUME DriveInv, DriveStart \/ DriveRoot \/ DriveUnavailable \/ DriveListFails \/ DriveCrash
  PROVE  DriveInv' /\ KeptItems
<1>1. archive' = archive /\ UNCHANGED <<part, server>>
  BY DEF DriveStart, DriveRoot, DriveUnavailable, DriveListFails, DriveCrash, Begin, Crash
<1>2. KeptItems
  BY <1>1 DEF KeptItems, ItemsOf
<1>3. CASE DriveStart
  <2>1. /\ run' = Drive("root")
        /\ past' = [past EXCEPT !.missed = Items \ server.on, !.moved = FALSE, !.unseen = {}]
    BY <1>3 DEF DriveStart, Begin
  <2>2. DrivePast' /\ past'.missed = Items \ server.on
    BY <2>1 DEF DriveInv, DrivePast
  <2>3. \A j : Directory(j)' = Directory(j)
    BY <1>1 DEF Directory
  <2>4. IsDrive' /\ DriveServer' /\ Missing' /\ Ordered(archive, {})'
    BY <1>1, <2>2, <2>3 DEF DriveInv, IsDrive, DriveServer, Missing, Ordered, Typed
  <2>5. DriveRecord(run)' /\ Looking(run, Excused)' /\ run'.draft = {} /\ run'.known = {}
    BY <2>1 DEF Drive, DriveRecord, Looking
  <2>6. archive' \union run'.draft = archive'
    BY <2>5
  <2>7. DriveLocals(run, archive, Excused)'
    BY <2>4, <2>5, <2>6 DEF DriveLocals
  <2> QED
    BY <1>2, <2>2, <2>4, <2>7 DEF DriveInv
<1>4. CASE DriveRoot
  <2>1. /\ run.pc = "root" /\ Running /\ DriveRecord(run) /\ Looking(run, Excused)
        /\ past' = past /\ run' = [run EXCEPT !.pc = "children", !.frontier = {Top}]
        /\ Ordered(archive, {})
    BY <1>4 DEF DriveRoot, Running, DriveInv, DriveLocals, Looking, Applying
  <2>2. PICK r : r = run'
    OBVIOUS
  <2>3. r = [pc |-> "children", frontier |-> {Top}, plan |-> {}, known |-> {},
             draft |-> {}, pending |-> run.pending, gone |-> run.gone, failed |-> run.failed]
    BY <2>1, <2>2 DEF DriveRecord, Looking
  <2>4. Coming(server.on, r, Excused)
    BY <2>3 DEF Coming, DriveInv, DriveServer, ItemsOf
  <2>5. DriveRecord(r) /\ Looking(r, Excused) /\ archive \union r.draft = archive
    BY <2>3, <2>4 DEF DriveRecord, Looking
  <2>6. DriveLocals(r, archive, Excused)
    BY <2>1, <2>3, <2>5 DEF DriveLocals
  <2> QED
    BY <1>1, <1>2, <2>1, <2>2, <2>6, DriveStepOK
<1>5. CASE DriveUnavailable \/ DriveListFails \/ DriveCrash
  <2>1. PICK b : run' = Over(b)
    BY <1>5 DEF DriveUnavailable, DriveListFails, DriveCrash, Crash
  <2>2. run'.pc = "over" /\ Running /\ Ordered(archive, {})
    BY <1>5, <2>1 DEF DriveUnavailable, DriveListFails, DriveCrash, Crash, Over, DriveInv, Running
  <2>3. past' = past \/ past' = [past EXCEPT !.unseen = Items]
    BY <1>5 DEF DriveUnavailable, DriveListFails, DriveCrash, Crash
  <2> QED
    BY <1>1, <1>2, <2>2, <2>3, DriveStepOK
<1> QED
  BY <1>3, <1>4, <1>5

(* The children of one directory.                                          *)
LEMMA ChildrenKeepDrive ==
  ASSUME DriveInv, NEW p, DriveChildren(p)
  PROVE  DriveInv' /\ KeptItems
<1> DEFINE new == {i \in server.on : server.parent[i] = p} \ ItemsOf(run.plan)
           nodes == {Node(i) : i \in new}
           ahead == (run.frontier \ {p}) \union {i \in new : Directory(i)}
<1>1. /\ run.pc = "children" /\ Running /\ UNCHANGED <<part, server, archive, past>>
      /\ DriveRecord(run) /\ run.known = {} /\ run.draft = {} /\ Ordered(archive, {})
      /\ \E G : Coming(G, run, Excused)
  BY DEF DriveChildren, Running, DriveInv, DriveLocals, Looking, Applying
<1>2. PICK G : Coming(G, run, Excused)
  BY <1>1
<1>3. PICK r : r = [run EXCEPT !.frontier = ahead, !.plan = @ \union nodes]
  OBVIOUS
<1>4. run' = Over(TRUE) \/ (r.frontier # {} /\ run' = r) \/ (r.frontier = {} /\ run' = Divided(r))
  BY <1>3, Zenon DEF DriveChildren
<1>5. /\ server.parent \in [Items -> {Top} \union Items] /\ server.on \subseteq Items
      /\ \A i \in server.on :
           /\ server.parent[i] \in server.on \union {Top}
           /\ server.parent[i] # Top => Directory(server.parent[i])
  BY DEF DriveInv, DriveServer
<1>6. /\ \A e \in nodes : Typed(e)
      /\ \A e \in nodes : e.item \in new /\ e = Node(e.item)
      /\ \A i \in new : i \in ItemsOf(nodes)
  <2>1. ASSUME NEW i \in new PROVE Typed(Node(i)) /\ Node(i).item = i
    BY <1>5 DEF Node, Typed
  <2>2. \A i \in new : Node(i) \in nodes
    OBVIOUS
  <2> HIDE DEF new
  <2>3. \A e \in nodes : \E i \in new : e = Node(i)
    OBVIOUS
  <2> HIDE DEF nodes
  <2>4. \A i \in new : i \in ItemsOf(nodes)
    BY <2>1, <2>2 DEF ItemsOf
  <2> QED
    BY <2>1, <2>3, <2>4
<1>7. r = [pc |-> "children", frontier |-> ahead, plan |-> run.plan \union nodes, known |-> {},
           draft |-> {}, pending |-> run.pending, gone |-> run.gone, failed |-> run.failed]
  <2> HIDE DEF ahead, nodes
  <2> QED
    BY <1>1, <1>3 DEF DriveRecord
<1>8. \A e \in nodes : \A d \in run.plan : e.item # d.item
  BY <1>6 DEF ItemsOf
<1>9. ItemsOf(r.plan) = ItemsOf(run.plan) \union ItemsOf(nodes) /\ ItemsOf(nodes) = new
  <2>1. \A i \in ItemsOf(nodes) : i \in new
    <3> HIDE DEF new, nodes
    <3> QED
      BY <1>6 DEF ItemsOf
  <2> HIDE DEF new, nodes
  <2> QED
    BY <1>6, <1>7, <2>1 DEF ItemsOf
<1>10. Coming(G, r, Excused)
  <2>1. \A i \in G \ ItemsOf(r.plan) : server.parent[i] # p
    BY <1>2, <1>9 DEF Coming
  <2>2. ASSUME NEW i \in G \ ItemsOf(r.plan)
        PROVE  server.parent[i] \in ahead \union (G \ ItemsOf(r.plan))
    <3>1. server.parent[i] \in run.frontier \union (G \ ItemsOf(run.plan))
      BY <1>2, <1>9, <2>2 DEF Coming
    <3>2. CASE server.parent[i] \in run.frontier
      BY <2>1, <2>2, <3>2
    <3>3. CASE server.parent[i] \in new
      <4>1. i \in server.on /\ server.parent[i] # Top
        BY <1>2, <1>5, <2>2, <3>3, RerunsAssumption DEF Coming, Items, Top
      <4> QED
        BY <1>5, <3>3, <4>1
    <3>4. CASE server.parent[i] \in G \ ItemsOf(run.plan) /\ server.parent[i] \notin new
      BY <1>9, <3>4
    <3> QED
      BY <3>1, <3>2, <3>3, <3>4
  <2> HIDE DEF ahead, nodes, new
  <2> QED
    BY <1>2, <1>7, <2>2 DEF Coming
<1>11. DriveRecord(r)
  <2>1. /\ \A e \in run.plan : Typed(e)
        /\ \A e, d \in run.plan : e.item = d.item => e = d
    BY <1>1 DEF DriveRecord
  <2>2. \A e, d \in nodes : e.item = d.item => e = d
    <3> HIDE DEF nodes, new
    <3> QED
      BY <1>6, Zenon
  <2>3. ASSUME NEW e \in r.plan, NEW d \in r.plan, e.item = d.item PROVE e = d
    <3> HIDE DEF nodes, new
    <3> QED
      BY <1>7, <1>8, <2>1, <2>2, <2>3
  <2> HIDE DEF ahead, nodes, new
  <2> QED
    BY <1>6, <1>7, <2>1, <2>3 DEF DriveRecord
<1>12. archive \union r.draft = archive
  BY <1>7
<1> HIDE DEF ahead, nodes, new
<1>13. PICK s : s = run'
  OBVIOUS
<1>14. s.pc # "over" => DriveLocals(s, archive, Excused)
  <2>1. CASE run' = Over(TRUE)
    BY <1>13, <2>1 DEF Over
  <2>2. CASE run' = r
    BY <1>1, <1>7, <1>10, <1>11, <1>12, <1>13, <2>2 DEF DriveLocals, Looking
  <2>3. CASE r.frontier = {} /\ run' = Divided(r)
    BY <1>1, <1>7, <1>10, <1>11, <1>13, <2>3, AllFound
  <2> QED
    BY <1>4, <2>1, <2>2, <2>3
<1> QED
  BY <1>1, <1>13, <1>14, DriveStepOK DEF KeptItems, ItemsOf

(* A directory is written under one that the run has written.              *)
LEMMA WriteKeepsDrive ==
  ASSUME DriveInv, NEW e, WriteDirectory(e)
  PROVE  DriveInv' /\ KeptItems
<1> DEFINE row == NodeRow(e, run.known)
           others == Without(archive, {e.item})
           left == run.plan \ {e}
           known == run.known \union {e.item}
<1>1. /\ run.pc = "directories" /\ Running /\ e \in run.plan /\ UNCHANGED <<part, server, past>>
      /\ DriveRecord(run) /\ Applying(run, Excused) /\ run.draft = {} /\ Ordered(archive, {})
      /\ Ordered(archive \union run.draft, run.known)
  BY DEF WriteDirectory, Running, DriveInv, DriveLocals, Looking, Applying, Directories
<1>2. archive \union run.draft = archive
  BY <1>1
<1>3. /\ Typed(e) /\ run.known \subseteq Items /\ e.item \notin run.known
      /\ ItemsOf(run.plan) \intersect run.known = {}
  BY <1>1 DEF DriveRecord, Applying, ItemsOf
<1>4. /\ Typed(row) /\ row.item = e.item /\ row.parent \in run.known \union {Top}
  <2>1. PICK q : q = row
    OBVIOUS
  <2>2. q = [item |-> e.item, parent |-> IF e.parent \in run.known THEN e.parent ELSE Top,
             name |-> e.name, ver |-> e.ver]
    BY <1>3, <2>1 DEF NodeRow, Typed
  <2> HIDE DEF row
  <2> QED
    BY <1>3, <2>1, <2>2 DEF Typed
<1> HIDE DEF row
<1>5. Ordered(others \union {row}, known)
  <2>1. others = {r \in archive : r.item # row.item}
    BY <1>4 DEF Without
  <2> HIDE DEF others
  <2> QED
    BY <1>1, <1>2, <1>3, <1>4, <2>1, WrittenInOrder
<1>6. CASE run' = Over(TRUE) /\ UNCHANGED archive
  <2>1. run'.pc = "over"
    BY <1>6 DEF Over
  <2> QED
    BY <1>1, <1>6, <2>1, DriveStepOK DEF KeptItems, ItemsOf
<1>7. CASE archive' = others \union {row} /\ run' = Onto([run EXCEPT !.plan = @ \ {e}, !.known = @ \union {e.item}])
  <2>1. PICK r : r = [run EXCEPT !.plan = left, !.known = known]
    OBVIOUS
  <2>2. run' = Onto(r)
    BY <1>7, <2>1
  <2>3. left \subseteq run.plan /\ known \subseteq Items /\ ItemsOf(left) \intersect known = {}
    <3>1. \A d \in run.plan : d.item = e.item => d = e
      BY <1>1 DEF DriveRecord
    <3>2. known \subseteq Items
      BY <1>3 DEF Typed
    <3> QED
      BY <1>3, <3>1, <3>2 DEF ItemsOf
  <2> HIDE DEF left, known, others
  <2>4. r = [pc |-> run.pc, frontier |-> run.frontier, plan |-> left, known |-> known,
           draft |-> {}, pending |-> run.pending, gone |-> run.gone, failed |-> run.failed]
    BY <1>1, <2>1 DEF DriveRecord
  <2>5. DriveRecord(r)
    BY <1>1, <2>3, <2>4 DEF DriveRecord
  <2>6. (others \union {row}) \union r.draft = others \union {row}
    BY <2>4
  <2>7. Ordered((others \union {row}) \union r.draft, r.known) /\ Ordered(others \union {row}, {})
    BY <1>5, <2>4, <2>6, StillOrdered
  <2>8. r.gone \subseteq Excused /\ ItemsOf(r.plan) \intersect r.known = {} /\ r.draft = {}
    BY <1>1, <2>3, <2>4 DEF Applying
  <2>9. Onto(r).pc # "over" => DriveLocals(Onto(r), others \union {row}, Excused)
    BY <2>5, <2>7, <2>8, GoesOnto
  <2>10. KeptItems
    <3>1. ASSUME NEW q \in archive PROVE q.item \in ItemsOf(archive')
      BY <1>4, <1>7 DEF ItemsOf, Without, others
    <3> QED
      BY <3>1 DEF KeptItems, ItemsOf
  <2> QED
    BY <1>1, <1>7, <2>2, <2>7, <2>9, <2>10, DriveStepOK
<1> QED
  BY <1>6, <1>7, Zenon DEF WriteDirectory, row

(* The reply of a worker: the transaction goes on with R, or is committed. *)
LEMMA AnswerKeepsDrive ==
  ASSUME DriveInv, run.pc = "files", NEW e \in run.plan, NEW R, NEW n, NEW failed,
         FileAnswered(e, R, n, failed), Ordered(archive \union R, run.known),
         UNCHANGED <<part, server>>,
         past' = past \/ \E frozen : past' = [past EXCEPT !.frozen = frozen]
  PROVE  DriveInv' /\ KeptItems
<1> DEFINE full == n = DriveChunk \/ run.plan = {e}
           rows == IF full THEN archive \union R ELSE archive
           left == run.plan \ {e}
           draft == IF full THEN {} ELSE R
           pending == IF full THEN 0 ELSE n
<1>1. /\ Running /\ DriveRecord(run) /\ Applying(run, Excused) /\ Directories(run.plan) = {}
  BY DEF Running, DriveInv, DriveLocals, Looking, Applying
<1>2. PICK r : r = [run EXCEPT !.plan = left, !.pending = pending, !.draft = draft,
                               !.failed = @ \/ failed]
  OBVIOUS
<1>3. run' = Onto(r) /\ archive' = rows
  BY <1>2 DEF FileAnswered
<1>4. left \subseteq run.plan /\ (draft = {} \/ left # {})
  OBVIOUS
<1>5. rows \union draft = archive \union R \/ rows \union draft = archive \union {}
  OBVIOUS
<1>6. archive \subseteq rows /\ rows \subseteq archive \union R /\ rows \union draft \subseteq archive \union R
  OBVIOUS
<1> HIDE DEF left, pending, draft, rows
<1>7. r = [pc |-> run.pc, frontier |-> run.frontier, plan |-> left, known |-> run.known,
           draft |-> draft, pending |-> pending, gone |-> run.gone, failed |-> r.failed]
  BY <1>1, <1>2 DEF DriveRecord
<1>8. DriveRecord(r)
  BY <1>1, <1>4, <1>7 DEF DriveRecord
<1>9. Ordered(rows \union r.draft, r.known) /\ Ordered(rows, {})
  BY <1>6, <1>7, StillOrdered
<1>10. /\ r.gone \subseteq Excused /\ ItemsOf(r.plan) \intersect r.known = {}
       /\ r.draft = {} \/ (r.plan # {} /\ Directories(r.plan) = {})
  BY <1>1, <1>4, <1>7 DEF Applying, ItemsOf, Directories
<1>11. Onto(r).pc # "over" => DriveLocals(Onto(r), rows, Excused)
  BY <1>8, <1>9, <1>10, GoesOnto
<1>12. DriveInv'
  BY <1>1, <1>3, <1>9, <1>11, DriveStepOK
<1> QED
  BY <1>3, <1>6, <1>12 DEF KeptItems, ItemsOf

(* A file is downloaded, or is not.                                        *)
LEMMA FilesKeepDrive ==
  ASSUME DriveInv, NEW e, DownloadFile(e) \/ FileGone(e) \/ DownloadFails(e)
  PROVE  DriveInv' /\ KeptItems
<1>1. /\ run.pc = "files" /\ Running /\ e \in run.plan /\ UNCHANGED <<part, server>>
      /\ DriveRecord(run) /\ Applying(run, Excused) /\ Ordered(archive, {})
      /\ Ordered(archive \union run.draft, run.known)
  BY DEF DownloadFile, FileGone, DownloadFails, Running, DriveInv, DriveLocals, Looking, Applying
<1>2. CASE FileGone(e)
  <2>1. FileAnswered(e, run.draft, run.pending, FALSE) /\ past' = past
    BY <1>2 DEF FileGone
  <2> QED
    BY <1>1, <2>1, AnswerKeepsDrive
<1>3. CASE DownloadFails(e)
  <2>1. FileAnswered(e, run.draft, run.pending, TRUE) /\ past' = past
    BY <1>3 DEF DownloadFails
  <2> QED
    BY <1>1, <2>1, AnswerKeepsDrive
<1>4. CASE DownloadFile(e)
  <2> DEFINE row == [NodeRow(e, run.known) EXCEPT !.ver = server.ver[e.item]]
  <2>1. /\ Typed(e) /\ run.known \subseteq Items /\ e.item \notin run.known
    BY <1>1 DEF DriveRecord, Applying, ItemsOf
  <2>2. /\ Typed(row) /\ row.item = e.item /\ row.parent \in run.known \union {Top}
    <3>1. PICK q : q = NodeRow(e, run.known)
      OBVIOUS
    <3>2. q = [item |-> e.item, parent |-> IF e.parent \in run.known THEN e.parent ELSE Top,
               name |-> e.name, ver |-> e.ver]
      BY <2>1, <3>1 DEF NodeRow, Typed
    <3>3. PICK s : s = [q EXCEPT !.ver = server.ver[e.item]]
      OBVIOUS
    <3>4. s = [item |-> e.item, parent |-> IF e.parent \in run.known THEN e.parent ELSE Top,
               name |-> e.name, ver |-> server.ver[e.item]]
      BY <3>2, <3>3
    <3>5. s = row
      BY <3>1, <3>3
    <3> HIDE DEF row
    <3> QED
      BY <2>1, <3>4, <3>5 DEF Typed
  <2> HIDE DEF row
  <2>3. (archive \union run.draft) \union {row} = archive \union (run.draft \union {row})
    OBVIOUS
  <2>4. Ordered(archive \union (run.draft \union {row}), run.known)
    <3>1. Ordered((archive \union run.draft) \union {row}, run.known)
      BY <1>1, <2>1, <2>2, WrittenInOrder
    <3> QED
      BY <2>3, <3>1
  <2>5. CASE run' = Over(TRUE) /\ UNCHANGED <<archive, past>>
    <3>1. run'.pc = "over"
      BY <2>5 DEF Over
    <3> QED
      BY <1>1, <2>5, <3>1, DriveStepOK DEF KeptItems, ItemsOf
  <2>6. CASE FileAnswered(e, run.draft \union {row}, run.pending + 1, FALSE)
             /\ \E frozen : past' = [past EXCEPT !.frozen = frozen]
    BY <1>1, <2>4, <2>6, AnswerKeepsDrive
  <2>7. \/ run' = Over(TRUE) /\ UNCHANGED <<archive, past>>
        \/ FileAnswered(e, run.draft \union {row}, run.pending + 1, FALSE)
             /\ \E frozen : past' = [past EXCEPT !.frozen = frozen]
    BY <1>4, Zenon DEF DownloadFile, row
  <2> QED
    BY <2>5, <2>6, <2>7
<1> QED
  BY <1>2, <1>3, <1>4

(* A row is deleted that was not listed.                                   *)
LEMMA VanishKeepsDrive ==
  ASSUME DriveInv, NEW i, VanishNode(i)
  PROVE  DriveInv' /\ KeptItems
<1>1. /\ run.pc = "vanished" /\ Running /\ i \in run.gone /\ UNCHANGED <<part, server>>
      /\ DriveRecord(run) /\ Applying(run, Excused) /\ run.draft = {} /\ Ordered(archive, {})
      /\ Ordered(archive \union run.draft, run.known)
      /\ past' = past \/ \E frozen : past' = [past EXCEPT !.frozen = frozen]
  BY DEF VanishNode, Running, DriveInv, DriveLocals, Looking, Applying
<1>2. PICK r, restricted : /\ r = [run EXCEPT !.gone = @ \ {i}, !.failed = @ \/ restricted]
                           /\ run' = Onto(r)
                           /\ archive' = IF restricted THEN archive ELSE Without(archive, {i})
  BY DEF VanishNode
<1>3. archive' \subseteq archive /\ \A q \in archive : q.item = i \/ q \in archive'
  BY <1>2 DEF Without
<1>4. r = [pc |-> run.pc, frontier |-> run.frontier, plan |-> run.plan, known |-> run.known,
           draft |-> {}, pending |-> run.pending, gone |-> run.gone \ {i}, failed |-> r.failed]
  BY <1>1, <1>2 DEF DriveRecord
<1>5. PICK rows : rows = archive'
  OBVIOUS
<1>6. DriveRecord(r) /\ rows \union r.draft = rows /\ archive \union run.draft = archive
  BY <1>1, <1>4 DEF DriveRecord
<1>7. Ordered(rows \union r.draft, r.known) /\ Ordered(rows, {})
  BY <1>1, <1>3, <1>4, <1>5, <1>6, StillOrdered
<1>8. r.gone \subseteq Excused /\ ItemsOf(r.plan) \intersect r.known = {} /\ r.draft = {} /\ i \in Excused
  BY <1>1, <1>4 DEF Applying
<1>9. Onto(r).pc # "over" => DriveLocals(Onto(r), rows, Excused)
  BY <1>6, <1>7, <1>8, GoesOnto
<1>10. DriveInv'
  BY <1>1, <1>2, <1>5, <1>7, <1>9, DriveStepOK
<1> QED
  BY <1>3, <1>8, <1>10 DEF KeptItems, ItemsOf

(* The invariant of OneDrive.                                              *)
LEMMA DriveAtFirst == DriveInit => DriveInv
<1> SUFFICES ASSUME DriveInit PROVE DriveInv
  OBVIOUS
<1>1. IsDrive
  BY Zenon DEF DriveInit, IsDrive
<1>2. PICK class \in [Items -> {"directory", "file"}],
           parent \in [Items -> {Top} \union Items], name \in [Items -> FolderNames] :
       /\ \A i \in Items : parent[i] < i /\ (parent[i] # Top => class[parent[i]] = "directory")
       /\ \A i \in {1} \union (Items \ 1..FirstFolders) :
            parent[i] = Top /\ name[i] = CHOOSE n \in FolderNames : TRUE
       /\ IsTree(1..FirstFolders, parent, name)
       /\ server = [on |-> 1..FirstFolders, ever |-> 1..FirstFolders, parent |-> parent,
                    name |-> name, class |-> class, ver |-> [i \in Items |-> 1], changes |-> 0,
                    had |-> {Place(i, parent[i], name[i]) : i \in 1..FirstFolders}]
  BY Zenon DEF DriveInit
<1>3. archive = {} /\ run = Over(FALSE)
      /\ past = [missed |-> {}, moved |-> FALSE, unseen |-> {}, frozen |-> {}]
  BY Zenon DEF DriveInit
<1>4. 1..FirstFolders \subseteq Items
  BY RerunsAssumption DEF Items
<1>5. DriveServer
  <2>1. \A i \in 1..FirstFolders : parent[i] \in (1..FirstFolders) \union {Top} /\ RootedAt(parent, i)
    BY <1>2 DEF IsTree, RootedAt
  <2>2. PICK had, ver : server = [on |-> 1..FirstFolders, ever |-> 1..FirstFolders, parent |-> parent,
                    name |-> name, class |-> class, ver |-> ver, changes |-> 0, had |-> had]
    BY <1>2
  <2> QED
    BY <1>2, <1>4, <2>1, <2>2 DEF DriveServer, Directory
<1>6. Ordered({}, {})
  <2>1. Ranks({}, [i \in Items |-> 0], 0)
    BY DEF Ranks
  <2> QED
    BY <2>1 DEF Ordered
<1> QED
  BY <1>1, <1>3, <1>5, <1>6 DEF DriveInv, DrivePast, Missing, Running, Over

LEMMA DriveSteps == DriveInv /\ [DriveNext]_vars => DriveInv' /\ KeptItems
<1> SUFFICES ASSUME DriveInv, [DriveNext]_vars PROVE DriveInv' /\ KeptItems
  OBVIOUS
<1>1. CASE \E i \in Items, p \in {Top} \union Items, n \in FolderNames : NewNode(i, p, n) \/ MoveNode(i, p, n)
  BY <1>1, PutKeepsDrive
<1>2. CASE \E i \in Items : EditFile(i)
  BY <1>2, PutKeepsDrive
<1>3. CASE \E i \in Items : DeleteNode(i)
  BY <1>3, DeleteKeepsDrive
<1>4. CASE DriveStart \/ DriveRoot \/ DriveUnavailable \/ DriveListFails \/ DriveCrash
  BY <1>4, ListingKeepsDrive
<1>5. CASE \E p \in ToList : DriveChildren(p)
  BY <1>5, ChildrenKeepDrive
<1>6. CASE \E e \in ToWriteYet : WriteDirectory(e)
  BY <1>6, WriteKeepsDrive
<1>7. CASE \E e \in ToWriteYet : DownloadFile(e) \/ FileGone(e) \/ DownloadFails(e)
  BY <1>7, FilesKeepDrive
<1>8. CASE \E i \in ToVanish : VanishNode(i)
  BY <1>8, VanishKeepsDrive
<1>9. CASE UNCHANGED vars
  <2>1. DriveServer' /\ DrivePast'
    BY <1>9 DEF vars, DriveInv, DriveServer, DrivePast, Directory
  <2>2. \A G : Running /\ run.pc = "children" /\ Coming(G, run, Excused) => \E H : Coming(H, run, Excused)'
    <3> SUFFICES ASSUME NEW G, Coming(G, run, Excused) PROVE Coming(G, run, Excused)'
      OBVIOUS
    <3> QED
      BY <1>9 DEF vars, Coming, Excused, ItemsOf
  <2> QED
    BY <1>9, <2>1, <2>2, ServerMoves DEF vars, Excused, DriveInv, Missing
<1> QED
  BY <1>1, <1>2, <1>3, <1>4, <1>5, <1>6, <1>7, <1>8, <1>9 DEF DriveNext, DriveRun

(* Whatever the account does meanwhile, and wherever a run is stopped, no  *)
(* file or directory that is there all the time loses its row, but for     *)
(* what was moved while the directories were listed, and an account that   *)
(* was taken for one without a drive.                                      *)
THEOREM DriveKeeps == DriveSpec => KeptWhileThere
<1>1. KeptItems => [ItemsOf(archive) \ ItemsOf(archive') \subseteq past.missed \union past.unseen]_vars
  BY DEF KeptItems, Excused
<1> QED
  BY <1>1, DriveAtFirst, DriveSteps, PTL DEF DriveSpec, KeptWhileThere

(* Directories that have ranks are a tree.                                 *)
LEMMA DriveIsRooted == DriveInv => RowsAreTrees
<1>1. DriveInv => DriveRooted
  <2> SUFFICES ASSUME DriveInv, NEW i \in ItemsOf(archive)
               PROVE  \E j \in Lineage([k \in Items |-> UpperRow(k)], i) : UpperRow(j) = Top
    BY DEF DriveRooted
  <2>1. PICK f, b : Ranks(archive, f, b)
    BY DEF DriveInv, Ordered
  <2>2. \A r \in archive : r.item \in Items /\ r.parent \in {Top} \union Items
    BY DEF DriveInv, Ordered, Typed
  <2>3. ASSUME NEW k
        PROVE  UpperRow(k) = Top \/ \E r \in archive : r.item = k /\ r.parent = UpperRow(k)
    <3> DEFINE up == {r.parent : r \in {r \in archive : r.item = k}}
    <3>1. CASE up = {}
      BY <3>1 DEF UpperRow
    <3>2. CASE up # {}
      <4>1. UpperRow(k) = CHOOSE p \in up : TRUE
        BY <3>2 DEF UpperRow
      <4>2. UpperRow(k) \in up
        <5> HIDE DEF up
        <5> QED
          BY <3>2, <4>1
      <4> QED
        BY <4>2
    <3> QED
      BY <3>1, <3>2
  <2> DEFINE parent == [k \in Items |-> UpperRow(k)]
  <2>4. parent \in [Items -> {Top} \union Items]
    BY <2>2, <2>3
  <2>5. \A j \in Items : parent[j] # Top => f[parent[j]] < f[j]
    <3> SUFFICES ASSUME NEW j \in Items, UpperRow(j) # Top PROVE f[UpperRow(j)] < f[j]
      OBVIOUS
    <3> QED
      BY <2>1, <2>3 DEF Ranks
  <2>6. i \in Items
    BY <2>2 DEF ItemsOf
  <2>7. \A j \in Items : parent[j] = UpperRow(j)
    OBVIOUS
  <2> HIDE DEF parent
  <2>8. RootedAt(parent, i)
    BY <2>1, <2>4, <2>5, <2>6, RankedRooted DEF Ranks
  <2>9. PICK j \in Lineage(parent, i) : parent[j] = Top
    BY <2>8 DEF RootedAt
  <2>10. j \in Items
    <3>1. PICK c : LedTo(parent, i, c)
      BY Climbs
    <3>2. \A x \in Items : parent[x] \in Items \union {Top}
      BY <2>4
    <3>3. \A k \in 0..LastItem : c[k] \in Items \union {Top}
      BY <2>6, <3>1, <3>2, ClimbStaysIn DEF LedTo
    <3> QED
      BY <2>9, <3>1, <3>3 DEF LedTo
  <2> QED
    BY <2>7, <2>9, <2>10 DEF parent
<1>2. DriveInv => Rooted
  <2>1. IsDrive => ~IsExchangeTree
    BY Zenon DEF IsDrive, IsExchangeTree, ExchangeTrees
  <2> QED
    BY <2>1 DEF DriveInv, Rooted
<1> QED
  BY <1>1, <1>2 DEF RowsAreTrees

(* However files and directories move, wherever a run stops and whatever   *)
(* it is refused, no directory is written under one that is, or comes to   *)
(* be, below it: the rows have ranks.                                      *)
THEOREM DriveStaysTree == DriveSpec => []RowsAreTrees
BY DriveIsRooted, DriveAtFirst, DriveSteps, PTL DEF DriveSpec

-----------------------------------------------------------------------------
(* The folders of IMAP and of a Maildir: what a run is about to delete was *)
(* not there, not even as a path, when the folders were listed.            *)

PathRecord(r) ==
  /\ r = [pc |-> r.pc, listed |-> r.listed, resolved |-> r.resolved, gone |-> r.gone, todo |-> r.todo,
          failed |-> r.failed]
  /\ r.pc \in {"list", "upsert", "delete", "mail"}
  /\ r.resolved \subseteq Items /\ r.gone \subseteq Items
PathInv ==
  /\ IsPathTree
  /\ server = [on |-> server.on, parent |-> server.parent, changes |-> server.changes]
  /\ server.on \subseteq Items /\ server.parent \in [Items -> {Top} \union Items]
  /\ past = [missed |-> past.missed, moved |-> past.moved, unseen |-> past.unseen, frozen |-> past.frozen]
  /\ \A r \in archive : r.item \in Items
  /\ Running =>
       /\ Items \ Kept \subseteq past.missed
       /\ PathRecord(run)
       /\ run.pc \in {"upsert", "delete"} => run.gone \subseteq past.missed

(* A mailbox is deleted, or skipped.                                       *)
LEMMA DeletedFold ==
  ASSUME NEW gone, gone \subseteq Items, NEW s \in Seq(gone)
  PROVE  /\ FoldLeft(DeletedPath, archive, s) \in SUBSET archive
         /\ ItemsOf(archive) \subseteq ItemsOf(FoldLeft(DeletedPath, archive, s)) \union gone
<1> DEFINE n == Len(s)
           P == {R \in SUBSET archive : ItemsOf(archive) \subseteq ItemsOf(R) \union gone}
           step == [p \in P \X (1..n) |-> DeletedPath(p[1], s[p[2]])]
           Fold(f) == [t \in SUBSET DOMAIN s |-> IF t = {} THEN archive ELSE DeletedPath(f[t \ {Max(t)}], s[Max(t)])]
           iter == CHOOSE f : f = Fold(f)
<1>1. n \in Nat /\ DOMAIN s = 1..n /\ \A k \in 1..n : s[k] \in gone
  OBVIOUS
<1>2. archive \in P
  OBVIOUS
<1>3. \A R \in P, k \in 1..n : DeletedPath(R, s[k]) \in P
  BY <1>1 DEF DeletedPath, Without, ItemsOf
<1> HIDE DEF P, n
<1>4. step \in [P \X (1..n) -> P] /\ \A R \in P, k \in 1..n : step[<<R, k>>] = DeletedPath(R, s[k])
  BY <1>3
<1> HIDE DEF step
<1>5. PICK g \in [SUBSET (1..n) -> P] : FoldsBy(g, n, archive, step)
  BY <1>1, <1>2, <1>4, FoldThere
<1>6. \A t \in SUBSET (1..n) : t # {} => Max(t) \in 1..n /\ t \ {Max(t)} \in SUBSET (1..n)
  BY <1>1, GreatestIn
<1>7. g = Fold(g)
  <2>1. \A t \in SUBSET (1..n) : g[t] = Fold(g)[t]
    BY <1>1, <1>4, <1>5, <1>6 DEF FoldsBy
  <2>2. Fold(g) = [t \in SUBSET (1..n) |-> Fold(g)[t]] /\ g = [t \in SUBSET (1..n) |-> g[t]]
    BY <1>1, <1>5
  <2> QED
    BY <2>1, <2>2
<1>8. iter = Fold(iter)
  <2> HIDE DEF Fold
  <2> QED
    BY <1>7
<1>9. FoldLeft(DeletedPath, archive, s) = iter[1..n]
  BY <1>1, Zenon DEF FoldLeft, MapThenFoldSet
<1> HIDE DEF iter
<1>10. iter[{}] = archive
  BY <1>8
<1>11. \A k \in 0..(n - 1) : iter[1..k] \in P => iter[1..(k + 1)] = step[<<iter[1..k], k + 1>>]
  <2> SUFFICES ASSUME NEW k \in 0..(n - 1), iter[1..k] \in P
               PROVE  iter[1..(k + 1)] = step[<<iter[1..k], k + 1>>]
    OBVIOUS
  <2>1. /\ 1..(k + 1) \in SUBSET DOMAIN s /\ 1..(k + 1) # {} /\ Max(1..(k + 1)) = k + 1
        /\ (1..(k + 1)) \ {k + 1} = 1..k
    BY <1>1, OneMore
  <2>2. iter[1..(k + 1)] = DeletedPath(iter[1..k], s[k + 1])
    BY <1>8, <2>1, Zenon
  <2>3. k + 1 \in 1..n
    BY <1>1
  <2> QED
    BY <1>4, <2>2, <2>3
<1>12. iter[1..n] \in P
  <2>1. n \in Nat
    BY <1>1
  <2>2. step \in [P \X (1..n) -> P]
    BY <1>4
  <2> QED
    BY <1>2, <1>10, <1>11, <2>1, <2>2, FoldStays, Zenon
<1> QED
  BY <1>1, <1>9, <1>12 DEF P

LEMMA PathsInOrder ==
  ASSUME NEW gone, gone \subseteq Items, NEW order \in PathsByDepth(gone)
  PROVE  order \in Seq(gone)
<1>1. order \in [1..Cardinality(gone) -> gone]
  BY DEF PathsByDepth, Sorted
<1>2. IsFiniteSet(gone)
  <2>1. IsFiniteSet(1..LastItem)
    BY RerunsAssumption, FS_Interval
  <2> QED
    BY <2>1, FS_Subset DEF Items
<1>3. Cardinality(gone) \in Nat
  BY <1>2, FS_CardinalityType
<1> QED
  BY <1>1, <1>3, SeqDef

(* The paths a server keeps follow the folders it has.                     *)
LEMMA KeptFollows ==
  ASSUME server'.parent = server.parent
  PROVE  /\ \A i : AbovePath(i)' = AbovePath(i)
         /\ server.on \subseteq server'.on => Kept \subseteq Kept'
         /\ server'.on = server.on => Kept' = Kept
         /\ Resolved(server.on) = Kept
<1>1. \A i : AbovePath(i)' = AbovePath(i)
  BY DEF AbovePath
<1> QED
  BY <1>1 DEF Kept, Resolved

LEMMA PathsAbove ==
  ASSUME PathInv
  PROVE  (\A i \in Items : AbovePath(i) \subseteq Items) /\ Kept \subseteq Items
<1>1. \A i \in Items : AbovePath(i) \subseteq Items
  <2> SUFFICES ASSUME NEW i \in Items PROVE AbovePath(i) \subseteq Items
    OBVIOUS
  <2>1. PICK f : LedTo(server.parent, i, f)
    BY Climbs
  <2> DEFINE X == {Top} \union Items
  <2>2. Climb(server.parent, i, f) /\ Lineage(server.parent, i) = {f[k] : k \in 0..LastItem} \ {Top}
    BY <2>1 DEF LedTo
  <2>3. i \in X /\ Top \in X /\ \A x \in X : x # Top => server.parent[x] \in X
    BY DEF PathInv
  <2> HIDE DEF X
  <2>4. \A k \in 0..LastItem : f[k] \in X
    BY <2>2, <2>3, ClimbStaysIn
  <2> QED
    BY <2>2, <2>4 DEF AbovePath, X
<1> QED
  BY <1>1 DEF Kept, PathInv

LEMMA ServerKeepsPaths ==
  ASSUME PathInv, NEW i \in Items, CreatePath(i) \/ DeletePath(i)
  PROVE  PathInv' /\ KeptItems
<1>1. UNCHANGED <<part, archive, run>>
  BY DEF CreatePath, DeletePath, Changing
<1>2. CASE CreatePath(i)
  <2>1. /\ server' = [on |-> server.on \union {i}, parent |-> server.parent, changes |-> server.changes + 1]
        /\ past' = [missed |-> past.missed, moved |-> TRUE, unseen |-> past.unseen, frozen |-> past.frozen]
    BY <1>2 DEF CreatePath, PathInv
  <2>2. Kept \subseteq Kept'
    BY <2>1, KeptFollows
  <2> QED
    BY <1>1, <2>1, <2>2 DEF PathInv, IsPathTree, Running, KeptItems, ItemsOf
<1>3. CASE DeletePath(i)
  <2>1. /\ server' = [on |-> server.on \ {i}, parent |-> server.parent, changes |-> server.changes + 1]
        /\ past' = [missed |-> past.missed \union (Items \ Kept'), moved |-> TRUE, unseen |-> past.unseen,
                    frozen |-> past.frozen]
    BY <1>3 DEF DeletePath, PathInv
  <2> QED
    BY <1>1, <2>1 DEF PathInv, IsPathTree, Running, KeptItems, ItemsOf
<1> QED
  BY <1>2, <1>3

(* Steps that leave the server and history alone.                          *)
LEMMA PathStepOK ==
  ASSUME PathInv, UNCHANGED <<part, server, past>>, \A r \in archive' : r.item \in Items,
         Running' => /\ Running /\ PathRecord(run')
                     /\ run'.pc \in {"upsert", "delete"} => run'.gone \subseteq past.missed
  PROVE  PathInv'
<1>1. Kept' = Kept
  BY KeptFollows
<1> QED
  BY <1>1 DEF PathInv, IsPathTree

LEMMA NextPathsOK ==
  ASSUME NEW r, PathRecord(r), r.pc = "mail"
  PROVE  NextPaths(r).pc # "over" => NextPaths(r) = r /\ PathRecord(NextPaths(r)) /\ NextPaths(r).pc = "mail"
BY DEF NextPaths, Over

LEMMA RunKeepsPaths ==
  ASSUME PathInv, PathTreeRun
  PROVE  PathInv' /\ KeptItems
<1>1. CASE PathStart
  <2>1. /\ run' = PathRun("list") /\ UNCHANGED <<part, server, archive>>
        /\ past' = [missed |-> Items \ Kept, moved |-> FALSE, unseen |-> past.unseen, frozen |-> past.frozen]
    BY <1>1 DEF PathStart, PathInv
  <2>2. Kept' = Kept
    BY <2>1, KeptFollows
  <2>3. PathRecord(run') /\ run'.pc = "list"
    BY <2>1 DEF PathRun, PathRecord
  <2> QED
    BY <2>1, <2>2, <2>3 DEF PathInv, IsPathTree, KeptItems, ItemsOf
<1>2. CASE ListPaths
  <2>0. Running /\ PathRecord(run)
    BY <1>2 DEF ListPaths, Running, PathInv
  <2>1. PICK r : r = run'
    OBVIOUS
  <2>2. r = [pc |-> "upsert", listed |-> server.on, resolved |-> Resolved(server.on),
             gone |-> ItemsOf(archive) \ Resolved(server.on), todo |-> run.todo, failed |-> run.failed]
    BY <1>2, <2>0, <2>1 DEF ListPaths, PathRecord
  <2>3. ItemsOf(archive) \subseteq Items /\ Resolved(server.on) = Kept /\ UNCHANGED <<part, server, past, archive>>
    BY <1>2 DEF PathInv, ItemsOf, Kept, Resolved, ListPaths
  <2>4. PathRecord(r) /\ r.gone \subseteq past.missed
    BY <2>0, <2>2, <2>3, PathsAbove DEF PathRecord, PathInv
  <2>5. PathInv'
    BY <2>0, <2>1, <2>3, <2>4, PathStepOK DEF PathInv
  <2> QED
    BY <2>3, <2>5 DEF KeptItems
<1>3. CASE UpsertPaths
  <2>0. Running /\ PathRecord(run) /\ run.gone \subseteq past.missed /\ UNCHANGED <<part, server, past>>
    BY <1>3 DEF UpsertPaths, Running, PathInv
  <2> DEFINE rows == run.resolved \union ItemsOf(archive)
             mail == {r.item : r \in {q \in archive : q.mail}}
             parent == [i \in Items |-> IF server.parent[i] \in rows THEN server.parent[i] ELSE Top]
  <2>1. archive' = {r \in archive : r.item \notin run.resolved} \union
                     {[item |-> i, parent |-> parent[i], mail |-> i \in mail] : i \in run.resolved}
    BY <1>3 DEF UpsertPaths
  <2> HIDE DEF rows, mail, parent
  <2> DEFINE new == {[item |-> i, parent |-> parent[i], mail |-> i \in mail] : i \in run.resolved}
  <2>2. (\A r \in archive' : r.item \in Items) /\ ItemsOf(archive) \subseteq ItemsOf(archive')
    <3>1. \A i \in run.resolved : \E r \in new : r.item = i
      <4> SUFFICES ASSUME NEW i \in run.resolved PROVE \E r \in new : r.item = i
        OBVIOUS
      <4> WITNESS [item |-> i, parent |-> parent[i], mail |-> i \in mail] \in new
      <4> QED
        OBVIOUS
    <3>2. \A r \in new : r.item \in run.resolved
      OBVIOUS
    <3>3. archive' = {r \in archive : r.item \notin run.resolved} \union new
      BY <2>1
    <3> HIDE DEF new
    <3>4. \A r \in archive : \E q \in archive' : q.item = r.item
      BY <3>1, <3>3
    <3>5. run.resolved \subseteq Items
      BY <2>0 DEF PathRecord
    <3> QED
      BY <3>2, <3>3, <3>4, <3>5 DEF PathInv, ItemsOf
  <2>3. CASE run.gone # {}
    <3>1. run' = [pc |-> "delete", listed |-> run.listed, resolved |-> run.resolved, gone |-> run.gone,
                  todo |-> run.todo, failed |-> run.failed]
      BY <1>3, <2>0, <2>3 DEF UpsertPaths, PathRecord
    <3>2. PathRecord(run') /\ run'.gone \subseteq past.missed
      BY <2>0, <3>1 DEF PathRecord
    <3> QED
      BY <2>0, <2>2, <3>2, PathStepOK DEF KeptItems
  <2>4. CASE run.gone = {}
    <3>1. PICK r : r = [run EXCEPT !.pc = "mail", !.todo = run.listed]
      OBVIOUS
    <3>4. r = [pc |-> "mail", listed |-> run.listed, resolved |-> run.resolved, gone |-> run.gone,
                  todo |-> run.listed, failed |-> run.failed]
      BY <2>0, <3>1 DEF PathRecord
    <3>2. run' = NextPaths(r) /\ PathRecord(r) /\ r.pc = "mail"
      BY <1>3, <2>0, <2>4, <3>1, <3>4 DEF UpsertPaths, PathRecord
    <3>3. Running' => PathRecord(run') /\ run'.pc = "mail"
      BY <3>2, NextPathsOK DEF Running
    <3> QED
      BY <2>0, <2>2, <3>3, PathStepOK DEF KeptItems
  <2> QED
    BY <2>3, <2>4
<1>4. CASE DeletePaths
  <2>0. Running /\ PathRecord(run) /\ run.gone \subseteq past.missed /\ UNCHANGED <<part, server, past>>
    BY <1>4 DEF DeletePaths, Running, PathInv
  <2>1. PICK order \in PathsByDepth(run.gone) : archive' = FoldLeft(DeletedPath, archive, order)
    BY <1>4 DEF DeletePaths
  <2>2. order \in Seq(run.gone) /\ run.gone \subseteq Items
    BY <2>0, <2>1, PathsInOrder DEF PathRecord
  <2>3. archive' \in SUBSET archive /\ ItemsOf(archive) \subseteq ItemsOf(archive') \union run.gone
    BY <2>1, <2>2, DeletedFold
  <2>4. PICK r : r = [run EXCEPT !.pc = "mail", !.gone = {}, !.todo = run.listed,
                !.failed = run.gone \intersect ItemsOf(archive') # {}]
    OBVIOUS
  <2>9. r = [pc |-> "mail", listed |-> run.listed, resolved |-> run.resolved, gone |-> {},
                  todo |-> run.listed, failed |-> run.gone \intersect ItemsOf(archive') # {}]
    BY <2>0, <2>4 DEF PathRecord
  <2>5. run' = NextPaths(r) /\ PathRecord(r) /\ r.pc = "mail"
    BY <1>4, <2>0, <2>4, <2>9 DEF DeletePaths, PathRecord
  <2>6. Running' => PathRecord(run') /\ run'.pc = "mail"
    BY <2>5, NextPathsOK DEF Running
  <2>7. \A r_1 \in archive' : r_1.item \in Items
    BY <2>3 DEF PathInv
  <2>8. PathInv'
    BY <2>0, <2>6, <2>7, PathStepOK
  <2> QED
    BY <2>0, <2>3, <2>8 DEF KeptItems, Excused
<1>5. CASE \E i \in Unfilled : FillPath(i)
  <2>1. PICK i \in Unfilled : FillPath(i)
    BY <1>5
  <2>2. Running /\ PathRecord(run) /\ run.pc = "mail" /\ UNCHANGED <<part, server, past>>
    BY <2>1 DEF FillPath, Running, PathInv
  <2>3. archive' = archive \/ \E b \in BOOLEAN : archive' = Filled(i, b)
    <3>1. (i \in server.on) \in BOOLEAN
      OBVIOUS
    <3> QED
      BY <2>1, <3>1 DEF FillPath
  <2>4. \A b \in BOOLEAN : (\A r \in Filled(i, b) : r.item \in Items) /\ ItemsOf(archive) \subseteq ItemsOf(Filled(i, b))
    <3> SUFFICES ASSUME NEW b \in BOOLEAN
                 PROVE (\A r \in Filled(i, b) : r.item \in Items) /\ ItemsOf(archive) \subseteq ItemsOf(Filled(i, b))
      OBVIOUS
    <3>1. \A r \in archive : LET q == IF r.item = i THEN [r EXCEPT !.mail = b] ELSE r
                             IN q \in Filled(i, b) /\ q.item = r.item
      BY DEF Filled
    <3> QED
      BY <3>1 DEF Filled, ItemsOf, PathInv
  <2>5. (\A r \in archive' : r.item \in Items) /\ ItemsOf(archive) \subseteq ItemsOf(archive')
    BY <2>3, <2>4 DEF PathInv
  <2> DEFINE f == run.failed \/ (i \notin server.on /\ part = "imap folders")
  <2>6. run' = NextPaths([run EXCEPT !.todo = @ \ {i}, !.failed = f])
    BY <2>1 DEF FillPath
  <2> HIDE DEF f
  <2>7. PICK r : r = [run EXCEPT !.todo = @ \ {i}, !.failed = f]
    OBVIOUS
  <2>10. r = [pc |-> "mail", listed |-> run.listed, resolved |-> run.resolved, gone |-> run.gone,
                  todo |-> run.todo \ {i}, failed |-> f]
    BY <2>2, <2>7 DEF PathRecord
  <2>8. run' = NextPaths(r) /\ PathRecord(r) /\ r.pc = "mail"
    BY <2>2, <2>6, <2>7, <2>10 DEF PathRecord
  <2>9. Running' => PathRecord(run') /\ run'.pc = "mail"
    BY <2>8, NextPathsOK DEF Running
  <2> QED
    BY <2>2, <2>5, <2>9, PathStepOK DEF KeptItems
<1> QED
  BY <1>1, <1>2, <1>3, <1>4, <1>5 DEF PathTreeRun

LEMMA PathAtFirst == PathTreeInit => PathInv
BY DEF PathTreeInit, PathInv, IsPathTree, Running, Over

LEMMA PathSteps == PathInv /\ [PathTreeNext]_vars => PathInv' /\ KeptItems
<1> SUFFICES ASSUME PathInv, [PathTreeNext]_vars PROVE PathInv' /\ KeptItems
  OBVIOUS
<1>1. CASE \E i \in Items : CreatePath(i) \/ DeletePath(i)
  BY <1>1, ServerKeepsPaths
<1>2. CASE PathTreeRun
  BY <1>2, RunKeepsPaths
<1>3. CASE ListPathsFails \/ PathCrash
  <2>1. UNCHANGED <<part, server, past, archive>> /\ ~Running'
    BY <1>3 DEF ListPathsFails, PathCrash, Crash, Over, Running
  <2>2. \A r \in archive' : r.item \in Items
    BY <2>1 DEF PathInv
  <2> QED
    BY <2>1, <2>2, PathStepOK DEF KeptItems
<1>4. CASE \E i \in Unfilled : FillPathFails(i)
  <2>1. PICK i \in Unfilled : FillPathFails(i)
    BY <1>4
  <2>2. Running /\ PathRecord(run) /\ run.pc = "mail" /\ UNCHANGED <<part, server, past, archive>>
    BY <2>1 DEF FillPathFails, Running, PathInv
  <2>7. PICK r : r = [run EXCEPT !.todo = @ \ {i}, !.failed = TRUE]
    OBVIOUS
  <2>11. r = [pc |-> "mail", listed |-> run.listed, resolved |-> run.resolved, gone |-> run.gone,
                  todo |-> run.todo \ {i}, failed |-> TRUE]
    BY <2>2, <2>7 DEF PathRecord
  <2>8. run' = NextPaths(r) /\ PathRecord(r) /\ r.pc = "mail"
    BY <2>1, <2>2, <2>7, <2>11 DEF FillPathFails, PathRecord
  <2>9. Running' => PathRecord(run') /\ run'.pc = "mail"
    BY <2>8, NextPathsOK DEF Running
  <2>10. \A q \in archive' : q.item \in Items
    BY <2>2 DEF PathInv
  <2> QED
    BY <2>2, <2>9, <2>10, PathStepOK DEF KeptItems
<1>5. CASE UNCHANGED vars
  <2>1. UNCHANGED <<part, server, past, archive, run>>
    BY <1>5 DEF vars
  <2>2. Kept' = Kept
    BY <2>1, KeptFollows
  <2> QED
    BY <2>1, <2>2 DEF PathInv, IsPathTree, Running, KeptItems
<1> QED
  BY <1>1, <1>2, <1>3, <1>4, <1>5 DEF PathTreeNext

(* What is done again and again, k times, to something of D.               *)
Again(g, n, base, step) == g = [k \in 0..n |-> IF k = 0 THEN base ELSE step[g[k - 1]]]

LEMMA AgainAndAgain ==
  ASSUME NEW n \in Nat, NEW D, NEW base \in D, NEW step \in [D -> D]
  PROVE  \E g \in [0..n -> D] : Again(g, n, base, step)
<1> DEFINE Next_(g, k) == IF k = 0 THEN base ELSE step[g[k - 1]]
           Exist(m) == \E g \in [0..m -> D] : \A k \in 0..m : g[k] = Next_(g, k)
           Short == {m \in 0..n : ~Exist(m)}
<1>1. Short = {}
  <2> SUFFICES ASSUME Short # {} PROVE FALSE
    OBVIOUS
  <2>1. PICK m \in Short : \A k \in Short : m <= k
    <3>1. Short \in SUBSET Nat
      OBVIOUS
    <3> HIDE DEF Short
    <3> QED
      BY <3>1, LeastNumber
  <2>2. CASE m = 0
    <3> DEFINE g == [k \in 0..0 |-> base]
    <3>1. g \in [0..0 -> D] /\ \A k \in 0..0 : g[k] = Next_(g, k)
      OBVIOUS
    <3>2. Exist(0)
      <4> HIDE DEF Next_, g
      <4> QED
        BY <3>1
    <3> QED
      BY <2>1, <2>2, <3>2
  <2>3. CASE m # 0
    <3>0. m \in 1..n /\ m - 1 \in 0..n /\ m - 1 \in Nat /\ m \in Nat
      BY <2>1, <2>3
    <3>1. Exist(m - 1)
      <4> HIDE DEF Exist
      <4>1. ~(m <= m - 1)
        BY <3>0
      <4> QED
        BY <2>1, <3>0, <4>1
    <3>2. PICK g \in [0..(m - 1) -> D] : \A k \in 0..(m - 1) : g[k] = Next_(g, k)
      BY <3>1
    <3> DEFINE h == [k \in 0..m |-> IF k = m THEN step[g[m - 1]] ELSE g[k]]
    <3>3. h \in [0..m -> D]
      BY <3>0
    <3>4. \A k \in 0..m : h[k] = Next_(h, k)
      <4> SUFFICES ASSUME NEW k \in 0..m PROVE h[k] = Next_(h, k)
        OBVIOUS
      <4>1. CASE k = m
        BY <3>0, <4>1
      <4>2. CASE k # m
        <5>1. h[k] = g[k] /\ k \in 0..(m - 1) /\ (k # 0 => k - 1 \in 0..m /\ h[k - 1] = g[k - 1])
          BY <3>0, <4>2
        <5> QED
          BY <3>2, <5>1
      <4> QED
        BY <4>1, <4>2
    <3>5. Exist(m)
      <4> HIDE DEF h, Next_
      <4> QED
        BY <3>3, <3>4
    <3> QED
      BY <2>1, <3>5
  <2> QED
    BY <2>2, <2>3
<1>2. PICK g \in [0..n -> D] : \A k \in 0..n : g[k] = Next_(g, k)
  <2>1. n \in 0..n /\ n \notin Short
    BY <1>1
  <2> HIDE DEF Next_
  <2> QED
    BY <2>1
<1>3. g = [k \in 0..n |-> Next_(g, k)]
  <2> DEFINE gg == [k \in 0..n |-> Next_(g, k)]
  <2>1. gg = [k \in 0..n |-> gg[k]] /\ g = [k \in 0..n |-> g[k]] /\ \A k \in 0..n : gg[k] = g[k]
    BY <1>2
  <2> HIDE DEF gg
  <2>2. gg = g
    BY <2>1
  <2> QED
    BY <2>2 DEF gg
<1> QED
  BY <1>3 DEF Again

(* A pass of topo_order, and all of them.                                  *)
LEMMA PlacedIsSeq ==
  ASSUME NEW X, \A x \in X : x.item \in Nat, NEW objects \in Seq(X), NEW order \in Seq(X)
  PROVE  Placed(order, objects) \in Seq(X)
<1> DEFINE n == Len(objects)
           Ready(done, o) == o.parent \in ItemsOf(ToSet(objects)) => o.parent \in ItemsOf(ToSet(done))
           With(done, o) == IF o \notin ToSet(done) /\ Ready(done, o) THEN Append(done, o) ELSE done
           step == [p \in Seq(X) \X (1..n) |-> With(p[1], objects[p[2]])]
           Fold(f) == [t \in SUBSET DOMAIN objects |->
                         IF t = {} THEN order ELSE With(f[t \ {Max(t)}], objects[Max(t)])]
           iter == CHOOSE f : f = Fold(f)
           left == ToSet(objects) \ ToSet(order)
<1>1. n \in Nat /\ DOMAIN objects = 1..n /\ \A k \in 1..n : objects[k] \in X
  OBVIOUS
<1>2. \A done \in Seq(X), k \in 1..n : With(done, objects[k]) \in Seq(X)
  BY <1>1
<1> HIDE DEF n
<1>4. step \in [Seq(X) \X (1..n) -> Seq(X)] /\ \A done \in Seq(X), k \in 1..n : step[<<done, k>>] = With(done, objects[k])
  <2> HIDE DEF With
  <2> QED
    BY <1>2
<1> DEFINE more == FoldLeft(With, order, objects)
<1>3. Placed(order, objects) =
         IF more # order \/ left = {} THEN more
         ELSE Append(order, CHOOSE o \in left : \A q \in left : o.item <= q.item)
  BY Zenon DEF Placed
<1>9. more = iter[1..n]
  BY <1>1, Zenon DEF FoldLeft, MapThenFoldSet
<1> HIDE DEF more
<1> HIDE DEF step, With
<1>5. PICK g \in [SUBSET (1..n) -> Seq(X)] : FoldsBy(g, n, order, step)
  BY <1>1, <1>4, FoldThere, Zenon
<1>6. \A t \in SUBSET (1..n) : t # {} => Max(t) \in 1..n /\ t \ {Max(t)} \in SUBSET (1..n)
  BY <1>1, GreatestIn
<1>7. g = Fold(g)
  <2>1. \A t \in SUBSET (1..n) : g[t] = Fold(g)[t]
    BY <1>1, <1>4, <1>5, <1>6 DEF FoldsBy
  <2>2. Fold(g) = [t \in SUBSET (1..n) |-> Fold(g)[t]] /\ g = [t \in SUBSET (1..n) |-> g[t]]
    BY <1>1, <1>5
  <2> QED
    BY <2>1, <2>2
<1>8. iter = Fold(iter)
  <2> HIDE DEF Fold
  <2> QED
    BY <1>7
<1> HIDE DEF iter
<1>10. iter[{}] = order
  BY <1>8
<1>11. \A k \in 0..(n - 1) : iter[1..k] \in Seq(X) => iter[1..(k + 1)] = step[<<iter[1..k], k + 1>>]
  <2> SUFFICES ASSUME NEW k \in 0..(n - 1), iter[1..k] \in Seq(X)
               PROVE  iter[1..(k + 1)] = step[<<iter[1..k], k + 1>>]
    OBVIOUS
  <2>1. /\ 1..(k + 1) \in SUBSET DOMAIN objects /\ 1..(k + 1) # {} /\ Max(1..(k + 1)) = k + 1
        /\ (1..(k + 1)) \ {k + 1} = 1..k
    BY <1>1, OneMore
  <2>2. iter[1..(k + 1)] = With(iter[1..k], objects[k + 1])
    BY <1>8, <2>1, Zenon
  <2>3. k + 1 \in 1..n
    BY <1>1
  <2> QED
    BY <1>4, <2>2, <2>3
<1>12. iter[1..n] \in Seq(X)
  <2>1. n \in Nat
    BY <1>1
  <2>2. step \in [Seq(X) \X (1..n) -> Seq(X)]
    BY <1>4
  <2> QED
    BY <1>10, <1>11, <2>1, <2>2, FoldStays, Zenon
<1>13. left # {} => (CHOOSE o \in left : \A q \in left : o.item <= q.item) \in X
  <2> SUFFICES ASSUME left # {} PROVE \E o \in left : \A q \in left : o.item <= q.item
    <3>1. left \subseteq X
      BY <1>1 DEF ToSet
    <3> HIDE DEF left
    <3> QED
      BY <3>1
  <2> DEFINE numbers == {o.item : o \in left}
  <2>1. numbers \in SUBSET Nat /\ numbers # {}
    <3>1. left \subseteq X
      BY <1>1 DEF ToSet
    <3> HIDE DEF left
    <3> QED
      BY <3>1
  <2> HIDE DEF left
  <2>2. PICK m \in numbers : \A k \in numbers : m <= k
    <3> HIDE DEF numbers
    <3> QED
      BY <2>1, LeastNumber
  <2> QED
    BY <2>2
<1> QED
  BY <1>3, <1>9, <1>12, <1>13

LEMMA TopoOrderIsSeq ==
  ASSUME NEW X, \A x \in X : x.item \in Nat, NEW objects \in Seq(X)
  PROVE  TopoOrder(objects) \in Seq(X)
<1> DEFINE n == Len(objects)
           step == [order \in Seq(X) |-> Placed(order, objects)]
           Pass(f) == [k \in 0..Len(objects) |-> IF k = 0 THEN <<>> ELSE Placed(f[k - 1], objects)]
           pass == CHOOSE f : f = Pass(f)
<1>1. n \in Nat /\ <<>> \in Seq(X)
  OBVIOUS
<1>2. step \in [Seq(X) -> Seq(X)] /\ \A order \in Seq(X) : step[order] = Placed(order, objects)
  BY PlacedIsSeq
<1> HIDE DEF step
<1>3. PICK g \in [0..n -> Seq(X)] : Again(g, n, <<>>, step)
  <2>1. n \in Nat
    BY <1>1
  <2>2. <<>> \in Seq(X)
    BY <1>1
  <2>3. step \in [Seq(X) -> Seq(X)]
    BY <1>2
  <2> HIDE DEF n
  <2> QED
    BY <2>1, <2>2, <2>3, AgainAndAgain, Zenon
<1>4. g = Pass(g)
  <2>1. \A k \in 0..n : g[k] = Pass(g)[k]
    <3> SUFFICES ASSUME NEW k \in 0..n PROVE g[k] = Pass(g)[k]
      OBVIOUS
    <3>1. k # 0 => k - 1 \in 0..n
      BY <1>1
    <3>2. k # 0 => step[g[k - 1]] = Placed(g[k - 1], objects)
      BY <1>2, <1>3, <3>1
    <3> QED
      BY <1>3, <3>1, <3>2 DEF Again
  <2>2. Pass(g) = [k \in 0..n |-> Pass(g)[k]] /\ g = [k \in 0..n |-> g[k]]
    OBVIOUS
  <2> QED
    BY <2>1, <2>2
<1>5. pass = Pass(pass)
  <2> HIDE DEF Pass
  <2> QED
    BY <1>4
<1>6. TopoOrder(objects) = pass[n]
  BY Zenon DEF TopoOrder
<1> HIDE DEF pass
<1> DEFINE Out == {k \in 0..n : pass[k] \notin Seq(X)}
<1>7. Out = {}
  <2> SUFFICES ASSUME Out # {} PROVE FALSE
    OBVIOUS
  <2>1. Out \in SUBSET Nat
    BY <1>1
  <2>2. PICK m \in Out : \A k \in Out : m <= k
    <3> HIDE DEF Out
    <3> QED
      BY <2>1, LeastNumber
  <2>3. m # 0
    BY <1>1, <1>5, <2>2
  <2>4. m - 1 \in 0..n /\ m - 1 \notin Out /\ m \in 0..n
    BY <1>1, <2>2, <2>3
  <2>5. pass[m] = Placed(pass[m - 1], objects)
    BY <1>1, <1>5, <2>3, <2>4
  <2> QED
    BY <2>2, <2>4, <2>5, PlacedIsSeq
<1> QED
  BY <1>1, <1>6, <1>7

IsMailbox(r) == r = Mailbox(r.item, r.parent, r.name, r.role) /\ r.item \in Items

(* The writes of one transaction keep the mailboxes there are.             *)
LEMMA WritesKeep ==
  ASSUME \A r \in Stored : IsMailbox(r), NEW X, \A x \in X : x.item \in Items, NEW objects \in Seq(X)
  PROVE  LET done == WriteMailboxes(objects) IN
         /\ \A r \in done.rows : IsMailbox(r)
         /\ ItemsOf(Stored) \subseteq ItemsOf(done.rows)
<1> DEFINE n == Len(objects)
           New == {Mailbox(i, p, m, b) : i \in {x.item : x \in X}, p \in {Top} \union {x.parent : x \in X},
                                         m \in {x.name : x \in X}, b \in BOOLEAN}
           D == {s \in [rows : SUBSET (Stored \union New), failed : BOOLEAN, misfiled : SUBSET Items] :
                   ItemsOf(Stored) \subseteq ItemsOf(s.rows)}
           base == [rows |-> Stored, failed |-> FALSE, misfiled |-> {}]
           step == [p \in D \X (1..n) |-> Write(p[1], objects[p[2]])]
           Fold(f) == [t \in SUBSET DOMAIN objects |->
                         IF t = {} THEN base ELSE Write(f[t \ {Max(t)}], objects[Max(t)])]
           iter == CHOOSE f : f = Fold(f)
<1>1. n \in Nat /\ DOMAIN objects = 1..n /\ \A k \in 1..n : objects[k] \in X
  OBVIOUS
<1>2. base \in D
  OBVIOUS
<1>3. ASSUME NEW s \in D, NEW o \in X PROVE Write(s, o) \in D
  <2> DEFINE rows == {r \in s.rows : r.item # o.item}
             up == IF o.parent \in ItemsOf(s.rows) THEN o.parent ELSE Top
             holds == o.role /\ \A r \in rows : ~r.role
             row == Mailbox(o.item, up, o.name, holds)
             misfiled == IF row = o THEN s.misfiled ELSE s.misfiled \union {o.item}
  <2>0. Write(s, o) = IF Clashes(rows, row) THEN [s EXCEPT !.failed = TRUE]
                      ELSE [s EXCEPT !.rows = rows \union {row},
                                     !.misfiled = IF row = o THEN @ ELSE @ \union {o.item}]
    BY DEF Write
  <2>1. Write(s, o) = IF Clashes(rows, row) THEN [s EXCEPT !.failed = TRUE]
                      ELSE [s EXCEPT !.rows = rows \union {row}, !.misfiled = misfiled]
    <3> HIDE DEF rows, row
    <3> QED
      BY <2>0
  <2>2. holds \in BOOLEAN
    OBVIOUS
  <2> HIDE DEF holds
  <2>3. up \in {Top} \union {x.parent : x \in X}
    OBVIOUS
  <2> HIDE DEF up
  <2>9. row = Mailbox(o.item, up, o.name, holds) /\ row.item = o.item
    BY DEF Mailbox
  <2>4. row \in New /\ row.item = o.item
    <3> HIDE DEF row
    <3> QED
      BY <2>2, <2>3, <2>9
  <2>5. misfiled \subseteq Items
    BY <1>3
  <2>10. /\ s \in [rows : SUBSET (Stored \union New), failed : BOOLEAN, misfiled : SUBSET Items]
         /\ ItemsOf(Stored) \subseteq ItemsOf(s.rows)
    BY <1>3
  <2> HIDE DEF row, misfiled, New
  <2>6. ItemsOf(Stored) \subseteq ItemsOf(rows \union {row})
    <3>1. \A r \in s.rows : \E q \in rows \union {row} : q.item = r.item
      BY <2>4
    <3> HIDE DEF rows, D
    <3>2. ItemsOf(s.rows) \subseteq ItemsOf(rows \union {row})
      BY <3>1 DEF ItemsOf
    <3> QED
      BY <2>10, <3>2
  <2>7. [s EXCEPT !.failed = TRUE] \in D
    BY <2>10
  <2>8. [s EXCEPT !.rows = rows \union {row}, !.misfiled = misfiled] \in D
    BY <2>4, <2>5, <2>6, <2>10
  <2> QED
    BY <2>1, <2>7, <2>8
<1>4. step \in [D \X (1..n) -> D] /\ \A s \in D, k \in 1..n : step[<<s, k>>] = Write(s, objects[k])
  <2> HIDE DEF D, n
  <2> QED
    BY <1>1, <1>3
<1> HIDE DEF step, D, n
<1>5. PICK g \in [SUBSET (1..n) -> D] : FoldsBy(g, n, base, step)
  <2> HIDE DEF base
  <2> QED
    BY <1>1, <1>2, <1>4, FoldThere
<1>6. \A t \in SUBSET (1..n) : t # {} => Max(t) \in 1..n /\ t \ {Max(t)} \in SUBSET (1..n)
  BY <1>1, GreatestIn
<1>9. WriteMailboxes(objects) = iter[1..n]
  BY <1>1, Zenon DEF WriteMailboxes, FoldLeft, MapThenFoldSet
<1> HIDE DEF base
<1>7. g = Fold(g)
  <2>1. \A t \in SUBSET (1..n) : g[t] = Fold(g)[t]
    BY <1>1, <1>4, <1>5, <1>6 DEF FoldsBy
  <2>2. Fold(g) = [t \in SUBSET (1..n) |-> Fold(g)[t]] /\ g = [t \in SUBSET (1..n) |-> g[t]]
    BY <1>1, <1>5
  <2> QED
    BY <2>1, <2>2
<1>8. iter = Fold(iter)
  <2> HIDE DEF Fold
  <2> QED
    BY <1>7
<1> HIDE DEF iter
<1>10. iter[{}] = base
  BY <1>8
<1>11. \A k \in 0..(n - 1) : iter[1..k] \in D => iter[1..(k + 1)] = step[<<iter[1..k], k + 1>>]
  <2> SUFFICES ASSUME NEW k \in 0..(n - 1), iter[1..k] \in D
               PROVE  iter[1..(k + 1)] = step[<<iter[1..k], k + 1>>]
    OBVIOUS
  <2>1. /\ 1..(k + 1) \in SUBSET DOMAIN objects /\ 1..(k + 1) # {} /\ Max(1..(k + 1)) = k + 1
        /\ (1..(k + 1)) \ {k + 1} = 1..k
    BY <1>1, OneMore
  <2>2. iter[1..(k + 1)] = Write(iter[1..k], objects[k + 1])
    BY <1>8, <2>1, Zenon
  <2>3. k + 1 \in 1..n
    BY <1>1
  <2> QED
    BY <1>4, <2>2, <2>3
<1>12. iter[1..n] \in D
  <2>1. n \in Nat
    BY <1>1
  <2>2. step \in [D \X (1..n) -> D]
    BY <1>4
  <2> QED
    BY <1>2, <1>10, <1>11, <2>1, <2>2, FoldStays, Zenon
<1>13. \A s \in D : (\A r \in s.rows : IsMailbox(r)) /\ ItemsOf(Stored) \subseteq ItemsOf(s.rows)
  <2>1. \A r \in New : IsMailbox(r)
    BY DEF Mailbox, IsMailbox
  <2> HIDE DEF New
  <2> QED
    BY <2>1 DEF D
<1> QED
  BY <1>9, <1>12, <1>13

-----------------------------------------------------------------------------
(* The mailboxes of JMAP: what a run is about to delete was not there at   *)
(* some time of the run, however its pages and the changes lay.            *)

JmapRecord(r) ==
  r = [pc |-> r.pc, listed |-> r.listed, page |-> r.page, restarts |-> r.restarts, new |-> r.new,
       present |-> r.present, vanished |-> r.vanished, target |-> r.target, todo |-> r.todo,
       got |-> r.got, failed |-> r.failed, held |-> r.held]
(* All there is up to the last id of the pages has been listed.            *)
Paging(r, missed) ==
  /\ r.pc = "query" /\ r.vanished = {}
  /\ r.listed \in Seq(Items) /\ r.page \in 0..GetLimit
  /\ \A i \in Items : r.listed # <<>> /\ i <= Last(r.listed) => i \in ToSet(r.listed) \union missed
Going(r, missed) ==
  /\ JmapRecord(r)
  /\ IsFiniteSet(r.got) /\ \A o \in r.got : o.item \in Items
  /\ r.vanished \subseteq missed
JmapLocals(r, missed) == Going(r, missed) /\ (r.pc # "query" \/ Paging(r, missed))
JmapInv ==
  /\ IsJmapTree
  /\ server = [on |-> server.on, ever |-> server.ever, parent |-> server.parent, name |-> server.name,
               holder |-> server.holder, changes |-> server.changes, born |-> server.born,
               touched |-> server.touched]
  /\ server.on \subseteq Items
  /\ past = [missed |-> past.missed, moved |-> past.moved, unseen |-> past.unseen, frozen |-> past.frozen]
  /\ \A r \in Stored : IsMailbox(r)
  /\ Running => Items \ server.on \subseteq past.missed /\ JmapLocals(run, past.missed)

(* Past the query, the helpers of the run lose nothing.                    *)
LEMMA GoesOn ==
  ASSUME NEW r, NEW missed, Going(r, missed)
  PROVE  /\ JmapLocals(ToChanges(r), missed) /\ ToChanges(r).pc # "query"
         /\ JmapLocals(ToSweep(r), missed) /\ ToSweep(r).pc # "query"
         /\ JmapLocals(ToGet(r), missed) /\ ToGet(r).pc # "query"
         /\ JmapLocals(AfterDiff(r), missed) /\ AfterDiff(r).pc # "query"
<1>0. /\ JmapRecord(r) /\ IsFiniteSet(r.got) /\ \A o \in r.got : o.item \in Items
      /\ r.vanished \subseteq missed
  BY DEF Going
<1>1. JmapLocals(ToChanges(r), missed) /\ ToChanges(r).pc # "query"
  <2>1. PICK q : q = ToChanges(r)
    OBVIOUS
  <2>2. q = [pc |-> "changes", listed |-> r.listed, page |-> r.page, restarts |-> r.restarts, new |-> r.new,
       present |-> r.present, vanished |-> {}, target |-> r.target, todo |-> r.todo,
       got |-> {}, failed |-> r.failed, held |-> r.held]
    BY <1>0, <2>1 DEF ToChanges, JmapRecord
  <2>3. IsFiniteSet({})
    BY FS_EmptySet
  <2>4. JmapLocals(q, missed) /\ q.pc # "query"
    BY <2>2, <2>3 DEF JmapLocals, Going, JmapRecord
  <2> QED
    BY <2>1, <2>4
<1>2. JmapLocals(ToSweep(r), missed) /\ ToSweep(r).pc # "query"
  <2>1. PICK q : q = [r EXCEPT !.pc = "sweep", !.got = {}]
    OBVIOUS
  <2>2. q = [pc |-> "sweep", listed |-> r.listed, page |-> r.page, restarts |-> r.restarts, new |-> r.new,
       present |-> r.present, vanished |-> r.vanished, target |-> r.target, todo |-> r.todo,
       got |-> {}, failed |-> r.failed, held |-> r.held]
    BY <1>0, <2>1 DEF JmapRecord
  <2>3. IsFiniteSet({})
    BY FS_EmptySet
  <2>4. JmapLocals(q, missed) /\ q.pc # "query"
    BY <1>0, <2>2, <2>3 DEF JmapLocals, Going, JmapRecord
  <2> QED
    BY <1>1, <2>1, <2>4 DEF ToSweep
<1>3. JmapLocals(ToGet(r), missed) /\ ToGet(r).pc # "query"
  <2>0. PICK t : t = GetChunks(r.new)
    OBVIOUS
  <2>1. PICK q : q = [r EXCEPT !.pc = "fetch", !.todo = t]
    OBVIOUS
  <2>2. q = [pc |-> "fetch", listed |-> r.listed, page |-> r.page, restarts |-> r.restarts, new |-> r.new,
       present |-> r.present, vanished |-> r.vanished, target |-> r.target, todo |-> t,
       got |-> r.got, failed |-> r.failed, held |-> r.held]
    BY <1>0, <2>1 DEF JmapRecord
  <2>4. JmapLocals(q, missed) /\ q.pc # "query"
    BY <1>0, <2>2 DEF JmapLocals, Going, JmapRecord
  <2> QED
    BY <1>2, <2>0, <2>1, <2>4 DEF ToGet
<1>4. JmapLocals(AfterDiff(r), missed) /\ AfterDiff(r).pc # "query"
  <2>1. PICK q : q = [r EXCEPT !.pc = "state"]
    OBVIOUS
  <2>2. q = [pc |-> "state", listed |-> r.listed, page |-> r.page, restarts |-> r.restarts, new |-> r.new,
       present |-> r.present, vanished |-> r.vanished, target |-> r.target, todo |-> r.todo,
       got |-> r.got, failed |-> r.failed, held |-> r.held]
    BY <1>0, <2>1 DEF JmapRecord
  <2>4. JmapLocals(q, missed) /\ q.pc # "query"
    BY <1>0, <2>2 DEF JmapLocals, Going, JmapRecord
  <2> QED
    BY <1>3, <2>1, <2>4 DEF AfterDiff
<1> QED
  BY <1>1, <1>2, <1>3, <1>4

(* diff: when all the ids have been listed, what vanished was missed.      *)
LEMMA ComparedOK ==
  ASSUME NEW r, NEW missed, JmapRecord(r), IsFiniteSet(r.got), \A o \in r.got : o.item \in Items,
         Items \subseteq ToSet(r.listed) \union missed, \A q \in Stored : IsMailbox(q)
  PROVE  JmapLocals(Compared(r), missed)
<1> DEFINE ids == ToSet(r.listed)
           local == ItemsOf(Stored)
<1>1. PICK q : q = [r EXCEPT !.new = ids \ local, !.vanished = local \ ids,
                         !.present = ids \intersect local, !.listed = <<>>, !.page = 0,
                         !.restarts = 0]
  OBVIOUS
<1>2. Compared(r) = AfterDiff(q)
  BY <1>1, Zenon DEF Compared
<1>3. local \ ids \subseteq missed
  BY DEF ItemsOf, IsMailbox
<1> HIDE DEF ids, local
<1>4. q = [pc |-> r.pc, listed |-> <<>>, page |-> 0, restarts |-> 0, new |-> ids \ local,
       present |-> ids \intersect local, vanished |-> local \ ids, target |-> r.target, todo |-> r.todo,
       got |-> r.got, failed |-> r.failed, held |-> r.held]
  BY <1>1 DEF JmapRecord
<1>5. Going(q, missed)
  BY <1>3, <1>4 DEF Going, JmapRecord
<1> QED
  BY <1>2, <1>5, GoesOn

(* A page has all up to its last id, and one that is not full has all.     *)
LEMMA ListedPage ==
  ASSUME NEW A \in SUBSET Items, NEW page, page = First(InOrder(A), GetLimit)
  PROVE  /\ page \in Seq(Items) /\ Len(page) \in 0..GetLimit
         /\ Len(page) < GetLimit => A \subseteq ToSet(page)
         /\ \A i \in A : page # <<>> /\ i <= Last(page) => i \in ToSet(page)
<1> DEFINE s == InOrder(A)
           n == Cardinality(A)
<1>0. A \in SUBSET Nat /\ IsFiniteSet(A) /\ GetLimit \in Nat \ {0}
  <2>1. IsFiniteSet(1..LastItem)
    BY RerunsAssumption, FS_Interval
  <2>2. IsFiniteSet(A)
    BY <2>1, FS_Subset DEF Items
  <2>3. Items \subseteq Nat
    BY RerunsAssumption DEF Items
  <2>4. GetLimit \in Nat \ {0}
    BY JmapTreeAssumption
  <2> QED
    BY <2>2, <2>3, <2>4
<1>1. /\ n \in Nat /\ s \in [1..n -> A]
      /\ \A k \in 1..n : PlaceIn(A, s[k]) = k
      /\ \A i \in A : s[PlaceIn(A, i)] = i
  BY <1>0, InOrderHasAll, FS_CardinalityType
<1>2. \A i \in A : PlaceIn(A, i) \in 1..n
  BY <1>0, PlacesAreOrdered
<1>3. \A i, j \in A : i < j => PlaceIn(A, i) < PlaceIn(A, j)
  BY <1>0, PlacesAreOrdered
<1> HIDE DEF s, n
<1>4. s \in Seq(Items) /\ Len(s) = n
  <2>1. s \in [1..n -> Items]
    BY <1>1
  <2>2. s \in Seq(Items)
    BY <1>1, <2>1, SeqDef
  <2> QED
    BY <1>1, <2>1, <2>2
<1>5. PICK m : m = Len(page)
  OBVIOUS
<1>6. /\ page \in Seq(Items) /\ m = (IF GetLimit < n THEN GetLimit ELSE n)
      /\ \A k \in 1..m : page[k] = s[k]
  <2>1. page = First(s, GetLimit) /\ GetLimit \in Nat
    BY <1>0 DEF s
  <2> QED
    BY <1>4, <1>5, <2>1, FirstAndRest
<1>7. m \in 0..GetLimit /\ m <= n /\ m \in Nat /\ DOMAIN page = 1..m
  <2>1. GetLimit \in Nat /\ n \in Nat
    BY <1>0, <1>1
  <2>2. m \in 0..GetLimit /\ m <= n /\ m \in Nat
    BY <1>6, <2>1
  <2>3. page \in Seq(Items)
    BY <1>6
  <2>4. DOMAIN page = 1..Len(page)
    BY <2>3
  <2> QED
    BY <1>5, <2>2, <2>4
<1>8. ASSUME NEW i \in A, PlaceIn(A, i) <= m PROVE i \in ToSet(page)
  <2>1. PlaceIn(A, i) \in 1..m /\ s[PlaceIn(A, i)] = i
    BY <1>1, <1>2, <1>7, <1>8
  <2>2. page[PlaceIn(A, i)] = i
    BY <1>6, <2>1
  <2> QED
    BY <1>7, <2>1, <2>2 DEF ToSet
<1>9. Len(page) < GetLimit => A \subseteq ToSet(page)
  <2> SUFFICES ASSUME m < GetLimit, NEW i \in A PROVE i \in ToSet(page)
    BY <1>5
  <2>1. m = n
    BY <1>0, <1>1, <1>6
  <2> QED
    BY <1>1, <1>2, <1>8, <2>1
<1>10. ASSUME NEW i \in A, page # <<>>, i <= Last(page) PROVE i \in ToSet(page)
  <2>1. m \in 1..n /\ Last(page) = page[m]
    <3>1. m # 0
      BY <1>5, <1>6, <1>10, EmptySeq
    <3> QED
      BY <1>1, <1>5, <1>7, <3>1 DEF Last
  <2>2. Last(page) = s[m] /\ s[m] \in A /\ PlaceIn(A, s[m]) = m
    BY <1>1, <1>6, <1>7, <2>1
  <2>3. i = s[m] \/ i < s[m]
    <3>1. i \in Nat /\ s[m] \in Nat /\ i <= s[m]
      BY <1>0, <1>10, <2>2
    <3> QED
      BY <3>1
  <2>4. PlaceIn(A, i) <= m
    BY <1>1, <1>2, <1>3, <2>1, <2>2, <2>3
  <2> QED
    BY <1>8, <2>4
<1> QED
  BY <1>5, <1>6, <1>7, <1>9, <1>10

LEMMA ListedOK ==
  ASSUME NEW n, NEW missed
  PROVE  JmapLocals(Listed(n), missed)
<1>1. IsFiniteSet({}) /\ <<>> \in Seq(Items) /\ 0 \in 0..GetLimit
  BY FS_EmptySet, JmapTreeAssumption
<1> QED
  BY <1>1 DEF JmapLocals, Going, JmapRecord, Paging, Listed

LEMMA QueryOK ==
  ASSUME JmapInv, QueryPage
  PROVE  Running' => JmapLocals(run', past.missed)
<1>0. /\ Running /\ run.pc = "query" /\ Going(run, past.missed) /\ Paging(run, past.missed)
      /\ server.on \subseteq Items /\ Items \ server.on \subseteq past.missed
      /\ \A r \in Stored : IsMailbox(r)
  BY DEF QueryPage, Running, JmapInv, JmapLocals
<1> DEFINE anchor == IF run.listed = <<>> THEN 0 ELSE Last(run.listed)
           A == {i \in server.on : i > anchor}
           page == First(InOrder(A), GetLimit)
           size == IF run.page = 0 THEN Len(page) ELSE run.page
           listed == run.listed \o page
<1>1. PICK next : next = [run EXCEPT !.listed = @ \o page, !.page = IF @ = 0 THEN Len(page) ELSE @]
  OBVIOUS
<1>2. \/ \E n : run' = Listed(n)
      \/ run' = Over(TRUE)
      \/ (page = <<>> \/ Len(page) < next.page) /\ run' = Compared(next)
      \/ ~(page = <<>> \/ Len(page) < next.page) /\ run' = next
  <2> HIDE DEF page
  <2>1. \/ run' = IF run.restarts < 2 THEN Listed(run.restarts + 1) ELSE Over(TRUE)
        \/ (page = <<>> \/ Len(page) < next.page) /\ run' = Compared(next)
        \/ ~(page = <<>> \/ Len(page) < next.page) /\ run' = next
    BY <1>1, Zenon DEF QueryPage, page
  <2> QED
    BY <2>1
<1>3. /\ page \in Seq(Items) /\ Len(page) \in 0..GetLimit
      /\ Len(page) < GetLimit => A \subseteq ToSet(page)
      /\ \A i \in A : page # <<>> /\ i <= Last(page) => i \in ToSet(page)
  <2>1. A \in SUBSET Items
    BY <1>0
  <2> HIDE DEF A
  <2>2. page = First(InOrder(A), GetLimit)
    OBVIOUS
  <2> HIDE DEF page
  <2> QED
    BY <2>1, <2>2, ListedPage
<1>4. run.listed \in Seq(Items) /\ run.page \in 0..GetLimit /\ GetLimit \in Nat \ {0}
  BY <1>0, JmapTreeAssumption DEF Paging
<1> HIDE DEF page
<1>5. next = [pc |-> "query", listed |-> listed, page |-> size, restarts |-> run.restarts, new |-> run.new,
       present |-> run.present, vanished |-> {}, target |-> run.target, todo |-> run.todo,
       got |-> run.got, failed |-> run.failed, held |-> run.held]
  <2> HIDE DEF listed
  <2>1. next = [run EXCEPT !.listed = listed, !.page = size]
    BY <1>1 DEF listed
  <2> HIDE DEF size
  <2> QED
    BY <1>0, <2>1 DEF Going, JmapRecord, Paging
<1>6. size \in 0..GetLimit /\ listed \in Seq(Items)
  BY <1>3, <1>4
<1>7. /\ \A i \in ToSet(run.listed) \union ToSet(page) : i \in ToSet(listed)
      /\ page # <<>> => Last(listed) = Last(page) /\ listed # <<>>
  <2>1. /\ Len(listed) = Len(run.listed) + Len(page) /\ Len(run.listed) \in Nat /\ Len(page) \in Nat
        /\ \A k \in 1..Len(run.listed) : listed[k] = run.listed[k]
        /\ \A k \in 1..Len(page) : listed[Len(run.listed) + k] = page[k]
    BY <1>3, <1>4, ConcatProperties
  <2>2. /\ DOMAIN listed = 1..Len(listed) /\ DOMAIN run.listed = 1..Len(run.listed)
        /\ DOMAIN page = 1..Len(page)
    BY <1>3, <1>4, <1>6
  <2> HIDE DEF listed
  <2>3. \A k \in 1..Len(run.listed) : k \in 1..Len(listed)
    BY <2>1
  <2>4. \A k \in 1..Len(page) : Len(run.listed) + k \in 1..Len(listed)
    BY <2>1
  <2>5. ASSUME NEW i \in ToSet(run.listed) PROVE i \in ToSet(listed)
    BY <2>1, <2>2, <2>3 DEF ToSet
  <2>6. ASSUME NEW i \in ToSet(page) PROVE i \in ToSet(listed)
    BY <2>1, <2>2, <2>4 DEF ToSet
  <2>7. page # <<>> => Last(listed) = Last(page) /\ listed # <<>>
    <3> SUFFICES ASSUME page # <<>> PROVE Last(listed) = Last(page) /\ listed # <<>>
      OBVIOUS
    <3>1. Len(page) \in 1..Len(page)
      BY <1>3, <2>1, EmptySeq
    <3>2. listed[Len(listed)] = page[Len(page)] /\ Len(listed) # 0
      BY <2>1, <3>1
    <3> QED
      BY <3>2 DEF Last
  <2> QED
    BY <2>5, <2>6, <2>7
<1>8. ASSUME NEW i \in Items, i \notin A PROVE i \in ToSet(listed) \union past.missed
  <2>1. CASE i \notin server.on
    BY <1>0, <2>1
  <2>2. CASE i \in server.on
    <3>1. ~(i > anchor)
      BY <1>8, <2>2
    <3>2. i \in Nat /\ i >= 1
      BY RerunsAssumption DEF Items
    <3>3. run.listed # <<>> /\ i <= Last(run.listed)
      <4>1. run.listed # <<>>
        BY <3>1, <3>2
      <4>2. Last(run.listed) \in Nat
        <5>1. Len(run.listed) \in 1..Len(run.listed)
          BY <1>4, <4>1, EmptySeq
        <5>2. run.listed[Len(run.listed)] \in Items
          BY <1>4, <5>1
        <5> QED
          BY <5>2, RerunsAssumption DEF Items, Last
      <4> QED
        BY <3>1, <3>2, <4>1, <4>2
    <3> QED
      BY <1>0, <1>7, <3>3 DEF Paging
  <2> QED
    BY <2>1, <2>2
<1> HIDE DEF listed, size, anchor, A
<1>9. JmapRecord(next) /\ next.got = run.got /\ next.listed = listed /\ next.page = size
  BY <1>5 DEF JmapRecord
<1>10. CASE (page = <<>> \/ Len(page) < next.page) /\ run' = Compared(next)
  <2>1. Len(page) < GetLimit
    <3>1. page = <<>> => Len(page) = 0
      OBVIOUS
    <3> QED
      BY <1>3, <1>4, <1>6, <1>9, <1>10, <3>1
  <2>2. Items \subseteq ToSet(next.listed) \union past.missed
    BY <1>3, <1>7, <1>8, <1>9, <2>1
  <2> QED
    BY <1>0, <1>9, <1>10, <2>2, ComparedOK DEF Going
<1>11. CASE ~(page = <<>> \/ Len(page) < next.page) /\ run' = next
  <2>1. \A i \in Items : i <= Last(listed) => i \in ToSet(listed) \union past.missed
    BY <1>3, <1>7, <1>8, <1>11
  <2>2. Paging(next, past.missed)
    BY <1>5, <1>6, <2>1 DEF Paging
  <2> QED
    BY <1>0, <1>5, <1>9, <1>11, <2>2 DEF JmapLocals, Going
<1>12. CASE \E n : run' = Listed(n)
  BY <1>12, ListedOK
<1> QED
  BY <1>2, <1>10, <1>11, <1>12 DEF Over, Running

(* Steps that leave the server alone, and of history all but what was      *)
(* written otherwise.                                                      *)
LEMMA JmapStepOK ==
  ASSUME JmapInv, UNCHANGED <<part, server>>, past' = past \/ \E frozen : past' = [past EXCEPT !.frozen = frozen],
         \A r \in Stored' : IsMailbox(r),
         Running' => Running /\ JmapLocals(run', past.missed)
  PROVE  JmapInv'
<1>1. /\ past' = [missed |-> past.missed, moved |-> past.moved, unseen |-> past.unseen, frozen |-> past'.frozen]
  BY DEF JmapInv
<1>2. past'.missed = past.missed
  BY <1>1
<1> HIDE DEF JmapLocals
<1>3. Running' => JmapLocals(run, past.missed)'
  BY <1>2
<1> QED
  BY <1>1, <1>2, <1>3 DEF JmapInv, IsJmapTree

(* A run that lists, fetches, or is told of changes writes nothing.        *)
LEMMA ReadingKeepsJmap ==
  ASSUME JmapInv, JmapTreeStart \/ QueryPage \/ GetState \/ GetChanges \/ CannotCalculate
  PROVE  JmapInv' /\ UNCHANGED archive
<1>0. UNCHANGED <<part, server, archive>> /\ \A r \in Stored' : IsMailbox(r)
  BY DEF JmapTreeStart, Begin, QueryPage, GetState, GetChanges, CannotCalculate, JmapInv, Stored
<1>1. CASE JmapTreeStart
  <2>1. run' = Listed(0) /\ past' = [past EXCEPT !.missed = Items \ server.on, !.moved = FALSE, !.unseen = {}]
    BY <1>1 DEF JmapTreeStart, Begin
  <2>2. past' = [missed |-> Items \ server.on, moved |-> FALSE, unseen |-> {}, frozen |-> past.frozen]
    BY <2>1 DEF JmapInv
  <2>3. JmapLocals(run, past.missed)'
    BY <2>1, ListedOK
  <2> QED
    BY <1>0, <2>2, <2>3 DEF JmapInv, IsJmapTree
<1>2. CASE QueryPage
  <2>1. UNCHANGED past /\ Running
    BY <1>2 DEF QueryPage, Running
  <2>2. Running' => JmapLocals(run', past.missed)
    BY <1>2, QueryOK
  <2> QED
    BY <1>0, <2>1, <2>2, JmapStepOK
<1>3. CASE GetState
  <2>1. UNCHANGED past /\ Running /\ Going(run, past.missed)
    BY <1>3 DEF GetState, Running, JmapInv, JmapLocals
  <2>2. PICK q : q = [run EXCEPT !.target = server.changes]
    OBVIOUS
  <2>3. q = [pc |-> run.pc, listed |-> run.listed, page |-> run.page, restarts |-> run.restarts,
             new |-> run.new, present |-> run.present, vanished |-> run.vanished, target |-> server.changes,
             todo |-> run.todo, got |-> run.got, failed |-> run.failed, held |-> run.held]
    BY <2>1, <2>2 DEF Going, JmapRecord
  <2>4. Going(q, past.missed) /\ run' = ToGet(q)
    BY <1>3, <2>1, <2>2, <2>3 DEF Going, JmapRecord, GetState
  <2>5. JmapLocals(run', past.missed)
    BY <2>4, GoesOn
  <2> QED
    BY <1>0, <2>1, <2>5, JmapStepOK
<1>4. CASE GetChanges \/ CannotCalculate
  <2>1. UNCHANGED past /\ Running /\ Going(run, past.missed)
    BY <1>4 DEF GetChanges, CannotCalculate, Running, JmapInv, JmapLocals
  <2>2. \E ids, target : Refresh(ids, target)
    BY <1>4 DEF GetChanges, CannotCalculate
  <2>3. PICK pc, todo, target : /\ run' = [run EXCEPT !.pc = pc, !.todo = todo, !.target = target]
                                /\ pc \in {"advance", "refetch"}
    <3>1. PICK ids, target : Refresh(ids, target)
      BY <2>2
    <3>2. CASE ids = {}
      <4>1. run' = [run EXCEPT !.pc = "advance", !.target = target]
        BY <3>1, <3>2 DEF Refresh
      <4>2. PICK q : q = [run EXCEPT !.pc = "advance", !.todo = run.todo, !.target = target]
        OBVIOUS
      <4>3. q = [pc |-> "advance", listed |-> run.listed, page |-> run.page, restarts |-> run.restarts,
             new |-> run.new, present |-> run.present, vanished |-> run.vanished, target |-> target,
             todo |-> run.todo, got |-> run.got, failed |-> run.failed, held |-> run.held]
        BY <2>1, <4>2 DEF Going, JmapRecord
      <4>4. run' = [pc |-> "advance", listed |-> run.listed, page |-> run.page, restarts |-> run.restarts,
             new |-> run.new, present |-> run.present, vanished |-> run.vanished, target |-> target,
             todo |-> run.todo, got |-> run.got, failed |-> run.failed, held |-> run.held]
        BY <2>1, <4>1 DEF Going, JmapRecord
      <4> QED
        BY <4>2, <4>3, <4>4
    <3>3. CASE ids # {}
      <4>1. PICK todo : todo = GetChunks(ids)
        OBVIOUS
      <4>2. run' = [run EXCEPT !.pc = "refetch", !.todo = todo, !.target = target]
        BY <3>1, <3>3, <4>1 DEF Refresh
      <4> QED
        BY <4>2
    <3> QED
      BY <3>2, <3>3
  <2>4. run' = [pc |-> pc, listed |-> run.listed, page |-> run.page, restarts |-> run.restarts,
             new |-> run.new, present |-> run.present, vanished |-> run.vanished, target |-> target,
             todo |-> todo, got |-> run.got, failed |-> run.failed, held |-> run.held]
    BY <2>1, <2>3 DEF Going, JmapRecord
  <2>5. PICK q : q = run'
    OBVIOUS
  <2>6. JmapLocals(q, past.missed)
    BY <2>1, <2>3, <2>4, <2>5 DEF Going, JmapRecord, JmapLocals
  <2> QED
    BY <1>0, <2>1, <2>5, <2>6, JmapStepOK
<1> QED
  BY <1>0, <1>1, <1>2, <1>3, <1>4

(* What a run has fetched are mailboxes.                                   *)
LEMMA FetchedOK ==
  ASSUME NEW q, NEW missed, JmapLocals(q, missed)
  PROVE  JmapLocals(Fetched(q), missed)
<1>1. PICK r : r = [q EXCEPT !.pc = IF @ = "fetch" THEN "insert" ELSE "update"]
  OBVIOUS
<1>2. r = [pc |-> IF q.pc = "fetch" THEN "insert" ELSE "update", listed |-> q.listed, page |-> q.page,
           restarts |-> q.restarts, new |-> q.new, present |-> q.present, vanished |-> q.vanished,
           target |-> q.target, todo |-> q.todo, got |-> q.got, failed |-> q.failed, held |-> q.held]
  BY <1>1 DEF JmapLocals, Going, JmapRecord
<1>3. JmapLocals(r, missed)
  BY <1>2 DEF JmapLocals, Going, JmapRecord
<1> QED
  BY <1>1, <1>3 DEF Fetched

LEMMA ChunksKeepJmap ==
  ASSUME JmapInv, NEW ids, GetChunk(ids) \/ GetChunkFails(ids)
  PROVE  JmapInv' /\ UNCHANGED archive
<1>0. /\ UNCHANGED <<part, server, archive, past>> /\ Running /\ JmapLocals(run, past.missed)
      /\ Going(run, past.missed) /\ \A r \in Stored' : IsMailbox(r)
  BY DEF GetChunk, GetChunkFails, JmapInv, JmapLocals, Stored
<1>1. CASE GetChunk(ids)
  <2> DEFINE some == {Object(i) : i \in ids \intersect server.on}
  <2>1. PICK q : q = [run EXCEPT !.todo = @ \ {ids}, !.got = @ \union some]
    OBVIOUS
  <2>2. run' = Fetched(q)
    BY <1>1, <2>1 DEF GetChunk
  <2>3. IsFiniteSet(some) /\ \A o \in some : o.item \in Items
    <3>0. IsFiniteSet(1..LastItem)
      BY RerunsAssumption, FS_Interval
    <3>1. ids \intersect server.on \subseteq Items
      BY DEF JmapInv
    <3> DEFINE asked == ids \intersect server.on
               f == [i \in asked |-> Object(i)]
    <3>2. IsFiniteSet(asked)
      BY <3>0, <3>1, FS_Subset DEF Items
    <3>5. f \in Surjection(asked, some)
      BY DEF Surjection
    <3>3. IsFiniteSet(some)
      <4> HIDE DEF f, some, asked
      <4> QED
        BY <3>2, <3>5, FS_Surjection
    <3>4. \A i : Object(i).item = i
      BY DEF Object, Mailbox
    <3> QED
      BY <3>1, <3>3, <3>4
  <2>4. IsFiniteSet(run.got) /\ \A o \in run.got : o.item \in Items
    BY <1>0 DEF Going
  <2> HIDE DEF some
  <2>5. IsFiniteSet(run.got \union some) /\ \A o \in run.got \union some : o.item \in Items
    BY <2>3, <2>4, FS_Union
  <2>6. q = [pc |-> run.pc, listed |-> run.listed, page |-> run.page, restarts |-> run.restarts,
             new |-> run.new, present |-> run.present, vanished |-> run.vanished, target |-> run.target,
             todo |-> run.todo \ {ids}, got |-> run.got \union some, failed |-> run.failed, held |-> run.held]
    BY <1>0, <2>1 DEF Going, JmapRecord
  <2>7. JmapLocals(q, past.missed)
    BY <1>0, <2>5, <2>6 DEF JmapLocals, Going, JmapRecord, Paging
  <2>8. JmapLocals(run', past.missed)
    BY <2>2, <2>7, FetchedOK
  <2> QED
    BY <1>0, <2>8, JmapStepOK
<1>2. CASE GetChunkFails(ids)
  <2> DEFINE held == run.held \/ run.pc = "refetch"
  <2>1. PICK q : q = [run EXCEPT !.todo = @ \ {ids}, !.failed = TRUE, !.held = held]
    OBVIOUS
  <2>2. run' = Fetched(q)
    BY <1>2, <2>1 DEF GetChunkFails
  <2> HIDE DEF held
  <2>3. q = [pc |-> run.pc, listed |-> run.listed, page |-> run.page, restarts |-> run.restarts,
             new |-> run.new, present |-> run.present, vanished |-> run.vanished, target |-> run.target,
             todo |-> run.todo \ {ids}, got |-> run.got, failed |-> TRUE, held |-> held]
    BY <1>0, <2>1 DEF Going, JmapRecord
  <2>4. JmapLocals(q, past.missed)
    BY <1>0, <2>3 DEF JmapLocals, Going, JmapRecord, Paging
  <2>5. JmapLocals(run', past.missed)
    BY <2>2, <2>4, FetchedOK
  <2> QED
    BY <1>0, <2>5, JmapStepOK
<1> QED
  BY <1>1, <1>2

(* What has been fetched, in any order.                                    *)
LEMMA SomeOrder ==
  ASSUME NEW S, IsFiniteSet(S), NEW s \in SetToSeqs(S)
  PROVE  s \in Seq(S)
<1>1. s \in [1..Cardinality(S) -> S]
  BY DEF SetToSeqs
<1>2. Cardinality(S) \in Nat
  BY FS_CardinalityType
<1> QED
  BY <1>1, <1>2, SeqDef

(* A transaction of writes.                                                *)
LEMMA WrittenKeeps ==
  ASSUME JmapInv, Running, UNCHANGED <<part, server>>, NEW objects, NEW X, objects \in Seq(X),
         \A x \in X : x.item \in Items, NEW done, done = WriteMailboxes(objects),
         archive' = done.rows \union (archive \ Stored), past' = Misfiled(done),
         JmapLocals(run', past.missed)
  PROVE  JmapInv' /\ KeptItems
<1>1. \A r \in Stored : IsMailbox(r)
  BY DEF JmapInv
<1>2. (\A r \in done.rows : IsMailbox(r)) /\ ItemsOf(Stored) \subseteq ItemsOf(done.rows)
  BY <1>1, WritesKeep
<1>3. \A r \in Stored' : IsMailbox(r)
  BY <1>2 DEF Stored
<1>4. ItemsOf(archive) \subseteq ItemsOf(archive')
  <2>1. \A r \in Stored : \E q \in done.rows : q.item = r.item
    BY <1>2 DEF ItemsOf
  <2> HIDE DEF Stored
  <2>2. \A r \in archive : \E q \in archive' : q.item = r.item
    BY <2>1
  <2> QED
    BY <2>2 DEF ItemsOf
<1>5. \E frozen : past' = [past EXCEPT !.frozen = frozen]
  BY DEF Misfiled
<1>6. JmapInv'
  <2> HIDE DEF Misfiled, JmapLocals, Stored
  <2> QED
    BY <1>3, <1>5, JmapStepOK
<1> QED
  BY <1>4, <1>6 DEF KeptItems

LEMMA WritingKeepsJmap ==
  ASSUME JmapInv, InsertMailboxes \/ UpdateMailboxes
  PROVE  JmapInv' /\ KeptItems
<1>0. UNCHANGED <<part, server>> /\ Running /\ Going(run, past.missed)
  BY DEF InsertMailboxes, UpdateMailboxes, Running, JmapInv, JmapLocals
<1>1. CASE InsertMailboxes
  <2>1. PICK objects \in SetToSeqs(run.got) :
          /\ archive' = WriteMailboxes(TopoOrder(objects)).rows \union (archive \ Stored)
          /\ run' = ToSweep([run EXCEPT !.failed = @ \/ WriteMailboxes(TopoOrder(objects)).failed])
          /\ past' = Misfiled(WriteMailboxes(TopoOrder(objects)))
    BY <1>1 DEF InsertMailboxes
  <2>2. IsFiniteSet(run.got) /\ \A o \in run.got : o.item \in Items /\ o.item \in Nat
    BY <1>0, RerunsAssumption DEF Going, Items
  <2>3. objects \in Seq(run.got)
    BY <2>1, <2>2, SomeOrder
  <2>4. TopoOrder(objects) \in Seq(run.got)
    BY <2>2, <2>3, TopoOrderIsSeq
  <2>5. PICK done : done = WriteMailboxes(TopoOrder(objects))
    OBVIOUS
  <2> DEFINE failed == run.failed \/ done.failed
  <2>6. PICK q : q = [run EXCEPT !.failed = failed]
    OBVIOUS
  <2>7. run' = ToSweep(q)
    BY <2>1, <2>5, <2>6
  <2> HIDE DEF failed
  <2>8. q = [pc |-> run.pc, listed |-> run.listed, page |-> run.page, restarts |-> run.restarts,
             new |-> run.new, present |-> run.present, vanished |-> run.vanished, target |-> run.target,
             todo |-> run.todo, got |-> run.got, failed |-> failed, held |-> run.held]
    BY <1>0, <2>6 DEF Going, JmapRecord
  <2>9. Going(q, past.missed)
    BY <1>0, <2>8 DEF Going, JmapRecord
  <2>10. JmapLocals(run', past.missed)
    BY <2>7, <2>9, GoesOn
  <2> QED
    BY <1>0, <2>1, <2>2, <2>4, <2>5, <2>10, WrittenKeeps
<1>2. CASE UpdateMailboxes
  <2> DEFINE some == {o \in run.got : o.item \in run.present}
  <2>1. PICK objects \in SetToSeqs(some) :
          /\ archive' = WriteMailboxes(objects).rows \union (archive \ Stored)
          /\ run' = [run EXCEPT !.pc = "advance", !.got = {}, !.failed = @ \/ WriteMailboxes(objects).failed,
                             !.held = @ \/ WriteMailboxes(objects).failed]
          /\ past' = Misfiled(WriteMailboxes(objects))
    BY <1>2 DEF UpdateMailboxes
  <2>2. IsFiniteSet(run.got) /\ \A o \in run.got : o.item \in Items
    BY <1>0 DEF Going
  <2>3. IsFiniteSet(some) /\ \A o \in some : o.item \in Items
    <3>1. some \subseteq run.got
      OBVIOUS
    <3> HIDE DEF some
    <3> QED
      BY <2>2, <3>1, FS_Subset
  <2> HIDE DEF some
  <2>4. objects \in Seq(some)
    BY <2>1, <2>3, SomeOrder
  <2>5. PICK done : done = WriteMailboxes(objects)
    OBVIOUS
  <2> DEFINE failed == run.failed \/ done.failed
             held == run.held \/ done.failed
  <2>6. PICK q : q = [run EXCEPT !.pc = "advance", !.got = {}, !.failed = failed, !.held = held]
    OBVIOUS
  <2>7. run' = q
    BY <2>1, <2>5, <2>6
  <2> HIDE DEF failed, held
  <2>8. q = [pc |-> "advance", listed |-> run.listed, page |-> run.page, restarts |-> run.restarts,
             new |-> run.new, present |-> run.present, vanished |-> run.vanished, target |-> run.target,
             todo |-> run.todo, got |-> {}, failed |-> failed, held |-> held]
    BY <1>0, <2>6 DEF Going, JmapRecord
  <2>9. JmapLocals(q, past.missed)
    <3>1. IsFiniteSet({})
      BY FS_EmptySet
    <3> QED
      BY <1>0, <2>8, <3>1 DEF JmapLocals, Going, JmapRecord
  <2> QED
    BY <1>0, <2>1, <2>3, <2>4, <2>5, <2>7, <2>9, WrittenKeeps
<1> QED
  BY <1>1, <1>2

LEMMA SweepKeepsJmap ==
  ASSUME JmapInv, SweepMailboxes
  PROVE  JmapInv' /\ KeptItems
<1>0. UNCHANGED <<part, server>> /\ Running /\ Going(run, past.missed) /\ run.vanished \subseteq past.missed
      /\ \A r \in Stored : IsMailbox(r)
  BY DEF SweepMailboxes, Running, JmapInv, JmapLocals, Going
<1>1. CASE run' = Over(TRUE) /\ UNCHANGED <<archive, past>>
  <2>1. (\A r \in Stored' : IsMailbox(r)) /\ ~Running'
    BY <1>0, <1>1 DEF Stored, Over, Running
  <2> QED
    BY <1>0, <1>1, <2>1, JmapStepOK DEF KeptItems
<1>2. CASE /\ archive' = Survivors(run.vanished) \union (archive \ Stored)
           /\ run' = ToChanges(run)
           /\ past' = [past EXCEPT !.frozen = @ \ run.vanished]
  <2> DEFINE Orphaned(r) == IF r.parent \in run.vanished THEN [r EXCEPT !.parent = Top] ELSE r
  <2>0. ASSUME NEW r \in Stored PROVE IsMailbox(Orphaned(r)) /\ Orphaned(r).item = r.item
    <3>1. IsMailbox(r)
      BY <1>0
    <3>2. PICK q : q = [r EXCEPT !.parent = Top]
      OBVIOUS
    <3>3. q = Mailbox(r.item, Top, r.name, r.role)
      BY <3>1, <3>2 DEF IsMailbox, Mailbox
    <3>4. IsMailbox(q) /\ q.item = r.item
      BY <3>1, <3>3 DEF IsMailbox, Mailbox
    <3> QED
      BY <3>1, <3>2, <3>4
  <2>7. Survivors(run.vanished) = {Orphaned(r) : r \in {r \in Stored : r.item \notin run.vanished}}
    BY DEF Survivors
  <2> HIDE DEF Orphaned
  <2>1. /\ \A r \in Survivors(run.vanished) : IsMailbox(r)
        /\ \A r \in Stored : r.item \in run.vanished \/ \E q \in Survivors(run.vanished) : q.item = r.item
    BY <2>0, <2>7
  <2>2. \A r \in Stored' : IsMailbox(r)
    BY <1>2, <2>1 DEF Stored
  <2> HIDE DEF Stored
  <2>3. \A r \in archive : r.item \in run.vanished \/ \E q \in archive' : q.item = r.item
    BY <1>2, <2>1
  <2>4. JmapLocals(run', past.missed)
    BY <1>0, <1>2, GoesOn
  <2>5. JmapInv'
    <3>1. \E frozen : past' = [past EXCEPT !.frozen = frozen]
      BY <1>2
    <3> QED
      BY <1>0, <2>2, <2>4, <3>1, JmapStepOK
  <2>6. KeptItems
    BY <1>0, <2>3 DEF KeptItems, Excused, ItemsOf
  <2> QED
    BY <2>5, <2>6
<1> QED
  BY <1>1, <1>2 DEF SweepMailboxes

LEMMA AdvanceKeepsJmap ==
  ASSUME JmapInv, AdvanceState
  PROVE  JmapInv' /\ KeptItems
<1>0. UNCHANGED <<part, server, past>> /\ Running /\ ~Running' /\ \A r \in Stored : IsMailbox(r)
  BY DEF AdvanceState, Running, JmapInv, Over
<1>1. archive' = archive \/ archive' = Stored \union {Cursor(run.target)}
  BY DEF AdvanceState
<1>2. Cursor(run.target).item = Top
  BY DEF Cursor
<1>3. Stored' = Stored
  BY <1>1, <1>2 DEF Stored
<1>4. \A r \in archive : \E q \in archive' : q.item = r.item
  <2>1. \A r \in archive : r \in Stored \/ r.item = Top
    BY DEF Stored
  <2> HIDE DEF Stored
  <2> QED
    BY <1>1, <1>2, <2>1
<1>5. KeptItems
  BY <1>4 DEF KeptItems, ItemsOf
<1> QED
  BY <1>0, <1>3, <1>5, JmapStepOK

LEMMA StoppedKeepsJmap ==
  ASSUME JmapInv, CallFails \/ JmapTreeCrash
  PROVE  JmapInv' /\ UNCHANGED archive
<1>1. /\ UNCHANGED <<part, server, past, archive>> /\ ~Running'
  BY DEF CallFails, JmapTreeCrash, Crash, Running, Over
<1>2. \A r \in Stored' : IsMailbox(r)
  BY <1>1 DEF JmapInv, Stored
<1> QED
  BY <1>1, <1>2, JmapStepOK

(* The server has changed; what a run knows is no less true.               *)
LEMMA ServerKeepsJmap ==
  ASSUME JmapInv, UNCHANGED <<part, archive, run>>,
         server' = [on |-> server'.on, ever |-> server'.ever, parent |-> server'.parent,
                    name |-> server'.name, holder |-> server'.holder, changes |-> server'.changes,
                    born |-> server'.born, touched |-> server'.touched],
         server'.on \subseteq Items, NEW gone, server.on \ gone \subseteq server'.on,
         past' = [missed |-> past'.missed, moved |-> past'.moved, unseen |-> past'.unseen,
                  frozen |-> past'.frozen],
         past.missed \union gone \subseteq past'.missed
  PROVE  JmapInv' /\ KeptItems
<1>1. Running => JmapLocals(run, past'.missed)
  BY DEF JmapInv, JmapLocals, Going, Paging
<1>2. Running' => JmapLocals(run, past.missed)' /\ (Items \ server.on \subseteq past.missed)'
  BY <1>1 DEF Running, JmapInv
<1>3. Stored' = Stored
  BY DEF Stored
<1> QED
  BY <1>2, <1>3 DEF JmapInv, IsJmapTree, KeptItems

LEMMA MailboxesKeepJmap ==
  ASSUME JmapInv, NEW i \in Items,
         \/ \E p \in {Top} \union Items, n \in FolderNames : CreateMailbox(i, p, n) \/ MoveMailbox(i, p, n)
         \/ DestroyMailbox(i)
         \/ GiveRole(i)
  PROVE  JmapInv' /\ KeptItems
<1>0. server = [on |-> server.on, ever |-> server.ever, parent |-> server.parent, name |-> server.name,
                holder |-> server.holder, changes |-> server.changes, born |-> server.born,
                touched |-> server.touched]
      /\ past = [missed |-> past.missed, moved |-> past.moved, unseen |-> past.unseen, frozen |-> past.frozen]
      /\ server.on \subseteq Items
  BY DEF JmapInv
<1>1. CASE \E p \in {Top} \union Items, n \in FolderNames : CreateMailbox(i, p, n) \/ MoveMailbox(i, p, n)
  <2>1. PICK p, n : PutMailbox(i, p, n)
    BY <1>1 DEF CreateMailbox, MoveMailbox
  <2>2. PICK on, parent, name, now, born, frozen :
          /\ UNCHANGED <<part, archive, run>> /\ on = server.on \union {i}
          /\ server' = [server EXCEPT !.on = on, !.ever = @ \union {i}, !.parent = parent, !.name = name,
                              !.changes = now, !.touched[i] = now, !.born[i] = born]
          /\ past' = [past EXCEPT !.moved = TRUE, !.frozen = frozen]
    BY <2>1 DEF PutMailbox, Changing
  <2>3. server' = [on |-> on, ever |-> server.ever \union {i}, parent |-> parent, name |-> name,
                   holder |-> server.holder, changes |-> now, born |-> [server.born EXCEPT ![i] = born],
                   touched |-> [server.touched EXCEPT ![i] = now]]
    BY <1>0, <2>2
  <2>4. past' = [missed |-> past.missed, moved |-> TRUE, unseen |-> past.unseen, frozen |-> frozen]
    BY <1>0, <2>2
  <2>5. server' = [on |-> server'.on, ever |-> server'.ever, parent |-> server'.parent,
                    name |-> server'.name, holder |-> server'.holder, changes |-> server'.changes,
                    born |-> server'.born, touched |-> server'.touched]
    BY <2>3
  <2>6. server'.on \subseteq Items /\ server.on \ {} \subseteq server'.on
    BY <1>0, <2>2, <2>3
  <2>7. /\ past' = [missed |-> past'.missed, moved |-> past'.moved, unseen |-> past'.unseen,
                    frozen |-> past'.frozen]
        /\ past.missed \union {} \subseteq past'.missed
    BY <2>4
  <2> QED
    BY <2>2, <2>5, <2>6, <2>7, ServerKeepsJmap
<1>2. CASE DestroyMailbox(i)
  <2>1. /\ UNCHANGED <<part, archive, run>>
        /\ server' = [server EXCEPT !.on = @ \ {i}, !.changes = @ + 1, !.holder = IF @ = i THEN Top ELSE @]
        /\ past' = [past EXCEPT !.moved = TRUE, !.missed = @ \union {i}]
    BY <1>2 DEF DestroyMailbox, Changing
  <2>2. server' = [on |-> server.on \ {i}, ever |-> server.ever, parent |-> server.parent, name |-> server.name,
                   holder |-> IF server.holder = i THEN Top ELSE server.holder, changes |-> server.changes + 1,
                   born |-> server.born, touched |-> server.touched]
    BY <1>0, <2>1
  <2>3. past' = [missed |-> past.missed \union {i}, moved |-> TRUE, unseen |-> past.unseen, frozen |-> past.frozen]
    BY <1>0, <2>1
  <2>5. server' = [on |-> server'.on, ever |-> server'.ever, parent |-> server'.parent,
                    name |-> server'.name, holder |-> server'.holder, changes |-> server'.changes,
                    born |-> server'.born, touched |-> server'.touched]
    BY <2>2
  <2>6. server'.on \subseteq Items /\ server.on \ {i} \subseteq server'.on
    BY <1>0, <2>2
  <2>7. /\ past' = [missed |-> past'.missed, moved |-> past'.moved, unseen |-> past'.unseen,
                    frozen |-> past'.frozen]
        /\ past.missed \union {i} \subseteq past'.missed
    BY <2>3
  <2> QED
    BY <2>1, <2>5, <2>6, <2>7, ServerKeepsJmap
<1>3. CASE GiveRole(i)
  <2>1. PICK now, touched, frozen :
          /\ UNCHANGED <<part, archive, run>>
          /\ server' = [server EXCEPT !.holder = i, !.changes = now, !.touched = touched]
          /\ past' = [past EXCEPT !.moved = TRUE, !.frozen = frozen]
    BY <1>3 DEF GiveRole, Changing
  <2>2. server' = [on |-> server.on, ever |-> server.ever, parent |-> server.parent, name |-> server.name,
                   holder |-> i, changes |-> now, born |-> server.born, touched |-> touched]
    BY <1>0, <2>1
  <2>3. past' = [missed |-> past.missed, moved |-> TRUE, unseen |-> past.unseen, frozen |-> frozen]
    BY <1>0, <2>1
  <2> QED
    BY <1>0, <2>1, <2>2, <2>3, ServerKeepsJmap
<1> QED
  BY <1>1, <1>2, <1>3

LEMMA JmapAtFirst == JmapTreeInit => JmapInv
<1> SUFFICES ASSUME JmapTreeInit PROVE JmapInv
  OBVIOUS
<1>1. /\ ~Running /\ IsJmapTree
      /\ past = [missed |-> {}, moved |-> FALSE, unseen |-> {}, frozen |-> {}]
      /\ archive \in {{}, {Object(i) : i \in server.on} \union {Cursor(0)}}
  BY DEF JmapTreeInit, IsJmapTree, Running, Over
<1>2. PICK parent, name :
        server = [on |-> 1..FirstFolders, ever |-> 1..FirstFolders, parent |-> parent,
                    name |-> name, holder |-> 1, changes |-> 0,
                    born |-> [i \in Items |-> 0], touched |-> [i \in Items |-> 0]]
  BY DEF JmapTreeInit
<1>3. server.on \subseteq Items
  BY <1>2, RerunsAssumption DEF Items
<1>4. \A i \in Items : Object(i).item = i /\ IsMailbox(Object(i))
  BY DEF Object, Mailbox, IsMailbox
<1>5. \A n : Cursor(n).item = Top
  BY DEF Cursor
<1>6. \A r \in Stored : IsMailbox(r)
  BY <1>1, <1>3, <1>4, <1>5 DEF Stored
<1> QED
  BY <1>1, <1>2, <1>3, <1>6 DEF JmapInv

LEMMA JmapSteps == JmapInv /\ [JmapTreeNext]_vars => JmapInv' /\ KeptItems
<1> SUFFICES ASSUME JmapInv, [JmapTreeNext]_vars PROVE JmapInv' /\ KeptItems
  OBVIOUS
<1>0. UNCHANGED archive => KeptItems
  BY DEF KeptItems
<1>1. CASE \/ \E i \in Items, p \in {Top} \union Items, n \in FolderNames :
                CreateMailbox(i, p, n) \/ MoveMailbox(i, p, n)
           \/ \E i \in Items : DestroyMailbox(i)
           \/ \E i \in Items : GiveRole(i)
  BY <1>1, MailboxesKeepJmap
<1>2. CASE JmapTreeStart \/ QueryPage \/ GetState \/ GetChanges \/ CannotCalculate
  BY <1>0, <1>2, ReadingKeepsJmap
<1>3. CASE (\E ids \in Chunked : GetChunk(ids)) \/ \E ids \in Chunked : GetChunkFails(ids)
  BY <1>0, <1>3, ChunksKeepJmap
<1>4. CASE InsertMailboxes \/ UpdateMailboxes
  BY <1>4, WritingKeepsJmap
<1>5. CASE SweepMailboxes
  BY <1>5, SweepKeepsJmap
<1>6. CASE AdvanceState
  BY <1>6, AdvanceKeepsJmap
<1>7. CASE CallFails \/ JmapTreeCrash
  BY <1>0, <1>7, StoppedKeepsJmap
<1>8. CASE UNCHANGED vars
  <2>1. UNCHANGED <<part, server, past, archive, run>>
    BY <1>8 DEF vars
  <2>2. JmapInv'
    BY <2>1 DEF JmapInv, IsJmapTree, Running, Stored
  <2> QED
    BY <1>0, <2>1, <2>2
<1> QED
  BY <1>1, <1>2, <1>3, <1>4, <1>5, <1>6, <1>7, <1>8 DEF JmapTreeNext, JmapTreeRun

-----------------------------------------------------------------------------
(* The folders of Exchange: what a run is about to delete was not there at *)
(* some time of the run, or moved while it was listed; and its row is      *)
(* there.                                                                  *)

(* g does with all of 1..m what the writes of s do.                        *)
UpsertsBy(g, m, base, s) ==
  g = [t \in SUBSET (1..m) |-> IF t = {} THEN base ELSE Upserted(g[t \ {Max(t)}], s[Max(t)])]

LEMMA UpsertsThere ==
  ASSUME NEW n \in Nat, NEW s, NEW base
  PROVE  \E g : UpsertsBy(g, n, base, s)
<1> DEFINE Short == {m \in 0..n : ~\E g : UpsertsBy(g, m, base, s)}
<1>1. Short = {}
  <2> SUFFICES ASSUME Short # {} PROVE FALSE
    OBVIOUS
  <2>1. PICK m \in Short : \A k \in Short : m <= k
    <3>1. Short \in SUBSET Nat
      OBVIOUS
    <3> HIDE DEF Short
    <3> QED
      BY <3>1, LeastNumber
  <2>2. CASE m = 0
    <3> DEFINE g == [t \in SUBSET (1..0) |-> base]
    <3>1. SUBSET (1..0) = {{}}
      OBVIOUS
    <3>2. UpsertsBy(g, 0, base, s)
      BY <3>1 DEF UpsertsBy
    <3> QED
      BY <2>1, <2>2, <3>2
  <2>3. CASE m # 0
    <3>0. m \in 1..n /\ m - 1 \in 0..n /\ m - 1 \in Nat /\ m \in Nat
      BY <2>1, <2>3
    <3>1. \E g : UpsertsBy(g, m - 1, base, s)
      <4>1. ~(m <= m - 1)
        BY <3>0
      <4>2. m - 1 \notin Short
        <5> HIDE DEF Short
        <5> QED
          BY <2>1, <4>1
      <4> QED
        BY <3>0, <4>2
    <3>2. PICK g : UpsertsBy(g, m - 1, base, s)
      BY <3>1
    <3> DEFINE Does(f, t) == IF t = {} THEN base ELSE Upserted(f[t \ {Max(t)}], s[Max(t)])
               h == [t \in SUBSET (1..m) |-> IF m \in t THEN Upserted(g[t \ {m}], s[m]) ELSE g[t]]
               hh == [t \in SUBSET (1..m) |-> Does(h, t)]
    <3>3. \A t \in SUBSET (1..m) : t \ {m} \in SUBSET (1..(m - 1)) /\ (m \notin t => t \in SUBSET (1..(m - 1)))
      BY <3>0
    <3>5. \A t \in SUBSET (1..m) : h[t] = Does(h, t)
      <4> SUFFICES ASSUME NEW t \in SUBSET (1..m) PROVE h[t] = Does(h, t)
        OBVIOUS
      <4>1. CASE m \in t
        <5>1. Max(t) = m /\ t # {} /\ t \ {m} \in SUBSET (1..m) /\ m \notin t \ {m}
          BY <3>0, <4>1, GreatestIs
        <5>2. h[t] = Upserted(g[t \ {m}], s[m]) /\ h[t \ {m}] = g[t \ {m}]
          BY <4>1, <5>1
        <5> HIDE DEF h
        <5> QED
          BY <5>1, <5>2
      <4>2. CASE m \notin t
        <5>1. t \in SUBSET (1..(m - 1)) /\ t \ {Max(t)} \in SUBSET (1..(m - 1)) /\ m \notin t \ {Max(t)}
              /\ t \ {Max(t)} \in SUBSET (1..m)
          BY <3>3, <4>2
        <5>2. h[t] = g[t] /\ h[t \ {Max(t)}] = g[t \ {Max(t)}]
          BY <4>2, <5>1
        <5>3. g[t] = Does(g, t)
          <6>1. g = [u \in SUBSET (1..(m - 1)) |-> Does(g, u)]
            BY <3>2 DEF UpsertsBy
          <6> HIDE DEF Does
          <6> QED
            BY <5>1, <6>1
        <5> HIDE DEF h
        <5> QED
          BY <5>2, <5>3
      <4> QED
        BY <4>1, <4>2
    <3>6. h = hh
      <4>1. h = [t \in SUBSET (1..m) |-> h[t]] /\ hh = [t \in SUBSET (1..m) |-> hh[t]]
        OBVIOUS
      <4>2. \A t \in SUBSET (1..m) : hh[t] = Does(h, t)
        <5> HIDE DEF Does, h
        <5> QED
          OBVIOUS
      <4>3. \A t \in SUBSET (1..m) : hh[t] = h[t]
        <5> HIDE DEF hh, h, Does
        <5> QED
          BY <3>5, <4>2
      <4> HIDE DEF hh, h
      <4> QED
        BY <4>1, <4>3
    <3>7. UpsertsBy(h, m, base, s)
      <4>1. hh = [t \in SUBSET (1..m) |-> IF t = {} THEN base ELSE Upserted(h[t \ {Max(t)}], s[Max(t)])]
        <5> HIDE DEF h
        <5> QED
          OBVIOUS
      <4> HIDE DEF h, hh
      <4> QED
        BY <3>6, <4>1 DEF UpsertsBy
    <3> HIDE DEF h
    <3> QED
      BY <2>1, <3>7
  <2> QED
    BY <2>2, <2>3
<1> QED
  <2>1. n \in 0..n /\ n \notin Short
    BY <1>1
  <2> QED
    BY <2>1

(* What the writes do, one after the other.                                *)
OneByOne(h, base, s) ==
  h[0] = base /\ \A k \in 1..Len(s) : h[k] = Upserted(h[k - 1], s[k])
LEMMA UpsertsUnfold ==
  ASSUME NEW X, NEW s \in Seq(X), NEW base, NEW all, all = FoldLeft(Upserted, base, s)
  PROVE  \E h : OneByOne(h, base, s) /\ h[Len(s)] = all
<1> DEFINE n == Len(s)
           Fold(f) == [t \in SUBSET DOMAIN s |-> IF t = {} THEN base ELSE Upserted(f[t \ {Max(t)}], s[Max(t)])]
           iter == CHOOSE f : f = Fold(f)
           h == [k \in 0..n |-> iter[1..k]]
<1>1. n \in Nat /\ DOMAIN s = 1..n
  OBVIOUS
<1>2. FoldLeft(Upserted, base, s) = iter[1..n]
  BY <1>1, Zenon DEF FoldLeft, MapThenFoldSet
<1>3. \E g : g = Fold(g)
  <2>1. n \in Nat /\ DOMAIN s = 1..n
    BY <1>1
  <2> HIDE DEF n
  <2>2. PICK g : UpsertsBy(g, n, base, s)
    BY <2>1, UpsertsThere
  <2>3. g = Fold(g)
    BY <2>1, <2>2, Zenon DEF UpsertsBy
  <2> HIDE DEF Fold
  <2> QED
    BY <2>3
<1>4. iter = Fold(iter)
  <2> HIDE DEF Fold
  <2> QED
    BY <1>3
<1> HIDE DEF iter
<1>5. iter[1..0] = base
  <2>1. 1..0 = {}
    OBVIOUS
  <2> QED
    BY <1>4, <2>1
<1>6. ASSUME NEW m \in 1..n PROVE iter[1..m] = Upserted(iter[1..(m - 1)], s[m])
  <2>1. n \in Nat /\ m - 1 \in 0..(n - 1) /\ (m - 1) + 1 = m
    BY <1>1
  <2>2. /\ 1..m \in SUBSET DOMAIN s /\ 1..m # {} /\ Max(1..m) = m
        /\ (1..m) \ {m} = 1..(m - 1)
    <3>1. /\ 1..((m - 1) + 1) \in SUBSET (1..n) /\ 1..((m - 1) + 1) # {} /\ Max(1..((m - 1) + 1)) = (m - 1) + 1
          /\ (1..((m - 1) + 1)) \ {(m - 1) + 1} = 1..(m - 1)
      BY <2>1, OneMore
    <3> QED
      BY <1>1, <2>1, <3>1
  <2> QED
    BY <1>4, <2>2, Zenon
<1>7. /\ h[0] = base /\ h[n] = FoldLeft(Upserted, base, s)
      /\ \A m \in 1..n : h[m] = Upserted(h[m - 1], s[m])
  <2>1. 0 \in 0..n /\ n \in 0..n /\ \A m \in 1..n : m \in 0..n /\ m - 1 \in 0..n
    BY <1>1
  <2> HIDE DEF n
  <2> QED
    BY <1>2, <1>5, <1>6, <2>1
<1> HIDE DEF h
<1> QED
  BY <1>7 DEF OneByOne

(* The writes of one transaction keep the folders there are.               *)
Keeping(s, rows) ==
  /\ s = [rows |-> s.rows, known |-> s.known, ok |-> s.ok]
  /\ \A r \in s.rows : r.item \in Items
  /\ ItemsOf(rows) \subseteq ItemsOf(s.rows)

LEMMA UpsertKeeps ==
  ASSUME NEW R, NEW s, Keeping(s, R), NEW e, e.item \in Items
  PROVE  Keeping(Upserted(s, e), R)
<1> DEFINE old == {r \in s.rows : r.item = e.item}
<1>1. PICK new, known : /\ new.item = e.item
                        /\ \/ Upserted(s, e) = [rows |-> (s.rows \ old) \union {new}, known |-> known, ok |-> TRUE]
                           \/ Upserted(s, e) = [s EXCEPT !.ok = FALSE]
  <2> DEFINE table == server.class[e.item]
             found == {k.id : k \in {x \in s.known : x.item = e.parent}}
             parent == IF table = "calendars" \/ found = {} THEN Top ELSE CHOOSE id \in found : TRUE
             id == IF old = {} THEN FreshId(s.rows, table) ELSE (CHOOSE r \in old : TRUE).id
             under == IF old = {} THEN e.parent ELSE (CHOOSE r \in old : TRUE).under
             new == [item |-> e.item, table |-> table, id |-> id, name |-> e.name,
                     parent |-> parent, under |-> under]
             rows == (s.rows \ old) \union {new}
  <2>1. Upserted(s, e) =
          IF s.ok /\ Lawful(rows)
            THEN [rows |-> rows, known |-> s.known \union {[item |-> e.item, id |-> id]}, ok |-> TRUE]
            ELSE [s EXCEPT !.ok = FALSE]
    BY Zenon DEF Upserted
  <2>2. new.item = e.item
    OBVIOUS
  <2> HIDE DEF new
  <2> QED
    BY <2>1, <2>2
<1>2. CASE Upserted(s, e) = [rows |-> (s.rows \ old) \union {new}, known |-> known, ok |-> TRUE]
  <2>1. \A r \in s.rows : \E q \in (s.rows \ old) \union {new} : q.item = r.item
    BY <1>1
  <2>2. \A q \in (s.rows \ old) \union {new} : q.item \in Items
    BY <1>1 DEF Keeping
  <2>3. ItemsOf(s.rows) \subseteq ItemsOf((s.rows \ old) \union {new})
    <3> HIDE DEF old
    <3> QED
      BY <2>1 DEF ItemsOf
  <2> HIDE DEF old
  <2>4. ItemsOf(R) \subseteq ItemsOf((s.rows \ old) \union {new})
    BY <2>3 DEF Keeping
  <2> QED
    BY <1>2, <2>2, <2>4 DEF Keeping
<1>3. CASE Upserted(s, e) = [s EXCEPT !.ok = FALSE]
  <2>1. PICK q : q = [s EXCEPT !.ok = FALSE]
    OBVIOUS
  <2>2. q = [rows |-> s.rows, known |-> s.known, ok |-> FALSE]
    BY <2>1 DEF Keeping
  <2>3. Keeping(q, R)
    BY <2>2 DEF Keeping
  <2> QED
    BY <1>3, <2>1, <2>3
<1> QED
  BY <1>1, <1>2, <1>3

LEMMA UpsertsKeep ==
  ASSUME NEW X, \A x \in X : x.item \in Items, NEW s \in Seq(X), NEW base, NEW R, Keeping(base, R)
  PROVE  Keeping(FoldLeft(Upserted, base, s), R)
<1>1. PICK h : OneByOne(h, base, s) /\ h[Len(s)] = FoldLeft(Upserted, base, s)
  BY UpsertsUnfold
<1> DEFINE n == Len(s)
           Out == {k \in 0..n : ~Keeping(h[k], R)}
<1>2. n \in Nat /\ \A k \in 1..n : s[k] \in X
  OBVIOUS
<1>3. Out = {}
  <2> SUFFICES ASSUME Out # {} PROVE FALSE
    OBVIOUS
  <2>1. PICK m \in Out : \A k \in Out : m <= k
    <3>1. Out \in SUBSET Nat
      BY <1>2
    <3> HIDE DEF Out
    <3> QED
      BY <3>1, LeastNumber
  <2>2. m # 0
    BY <1>1, <2>1 DEF OneByOne
  <2>3. m - 1 \in 0..n /\ m \in 1..n /\ ~(m <= m - 1)
    BY <1>2, <2>1, <2>2
  <2>4. Keeping(h[m - 1], R)
    BY <2>1, <2>3
  <2>5. h[m] = Upserted(h[m - 1], s[m]) /\ s[m].item \in Items
    BY <1>1, <1>2, <2>3 DEF OneByOne
  <2>6. Keeping(h[m], R)
    BY <2>4, <2>5, UpsertKeeps
  <2> QED
    BY <2>1, <2>6
<1>4. Keeping(h[n], R)
  <2>1. n \in 0..n /\ n \notin Out
    BY <1>2, <1>3
  <2> QED
    BY <2>1
<1> QED
  BY <1>1, <1>4

TreeRecord(r) ==
  /\ r = [pc |-> r.pc, frontier |-> r.frontier, plan |-> r.plan, known |-> r.known, todo |-> r.todo,
          vanished |-> r.vanished, gone |-> r.gone, failed |-> r.failed]
  /\ IsFiniteSet(r.plan) /\ \A e \in r.plan : e.item \in Items
(* A run that lists, one that writes, and one that deletes.                *)
Planning(r, excused) == r.pc = "list" /\ (ByGraph => \E G : Coming(G, r, excused))
Upserting(r, rows, excused) ==
  /\ r.pc = "write" /\ r.vanished \subseteq ItemsOf(rows) \intersect excused
  /\ \E X : r.todo \in Seq(X) /\ \A x \in X : x.item \in Items
Sweeping(r, rows, excused) ==
  /\ r.pc = "sweep" /\ r.gone \in Seq(Items) /\ r.gone # <<>>
  /\ ToSet(r.gone) \subseteq ItemsOf(rows) \intersect excused
  /\ \A j, k \in 1..Len(r.gone) : j # k => r.gone[j] # r.gone[k]
TreeLocals(r, rows, excused) ==
  /\ TreeRecord(r)
  /\ Planning(r, excused) \/ Upserting(r, rows, excused) \/ Sweeping(r, rows, excused)

TreeServer ==
  /\ server = [on |-> server.on, ever |-> server.ever, parent |-> server.parent,
               name |-> server.name, class |-> server.class, changes |-> server.changes,
               had |-> server.had]
  /\ server.on \subseteq server.ever /\ server.ever \subseteq Items
  /\ server.parent \in [Items -> {Top} \union Items]
  /\ \A i \in server.on : server.parent[i] \in server.on \union {Top} /\ RootedAt(server.parent, i)
TreeInv ==
  /\ IsExchangeTree /\ TreeServer /\ DrivePast
  /\ \A r \in archive : r.item \in Items
  /\ Running => Items \ server.on \subseteq past.missed /\ TreeLocals(run, archive, Excused)

LEMMA TreeAtFirst == ExchangeTreeInit => TreeInv
<1> SUFFICES ASSUME ExchangeTreeInit PROVE TreeInv
  OBVIOUS
<1>1. /\ IsExchangeTree /\ ~Running /\ archive = {}
      /\ past = [missed |-> {}, moved |-> FALSE, unseen |-> {}, frozen |-> {}]
  BY DEF ExchangeTreeInit, IsExchangeTree, Running, Over
<1>2. PICK class \in [Items -> {"mailboxes", "calendars"}],
           parent \in [Items -> {Top} \union Items], name \in [Items -> FolderNames] :
       /\ \A i \in Items : parent[i] < i
       /\ \A i \in {1} \union (Items \ 1..FirstFolders) :
            parent[i] = Top /\ name[i] = CHOOSE n \in FolderNames : TRUE
       /\ IsTree(1..FirstFolders, parent, name)
       /\ Cardinality({i \in Items : class[i] = "calendars"}) <= 1
       /\ ByGraph => class = [i \in Items |-> "mailboxes"]
       /\ server = [on |-> 1..FirstFolders, ever |-> 1..FirstFolders, parent |-> parent,
                    name |-> name, class |-> class, changes |-> 0,
                    had |-> {Place(i, parent[i], name[i]) : i \in 1..FirstFolders}]
  BY Zenon DEF ExchangeTreeInit
<1>3. 1..FirstFolders \subseteq Items
  BY RerunsAssumption DEF Items
<1> DEFINE had == {Place(i, parent[i], name[i]) : i \in 1..FirstFolders}
<1> HIDE DEF had
<1>4. server = [on |-> 1..FirstFolders, ever |-> 1..FirstFolders, parent |-> parent,
                    name |-> name, class |-> class, changes |-> 0, had |-> had]
  BY <1>2 DEF had
<1>5. TreeServer
  BY <1>2, <1>3, <1>4 DEF TreeServer, IsTree, RootedAt
<1> QED
  BY <1>1, <1>5 DEF TreeInv, DrivePast

(* The server moves on; a run that lists may miss what moves, and what is  *)
(* deleted is missed.                                                      *)
LEMMA TreeMoves ==
  ASSUME TreeInv, UNCHANGED <<part, archive, run>>, TreeServer', DrivePast',
         Excused \subseteq Excused', Running => Items \ server'.on \subseteq past'.missed,
         \A G : Running /\ run.pc = "list" /\ ByGraph /\ Coming(G, run, Excused) => \E H : Coming(H, run, Excused)'
  PROVE  TreeInv' /\ KeptItems
<1>1. ASSUME Running PROVE TreeLocals(run, archive, Excused)'
  <2>1. TreeRecord(run) /\ TreeRecord(run)'
    BY <1>1 DEF TreeInv, TreeLocals, TreeRecord
  <2>2. CASE Planning(run, Excused)
    <3>1. ByGraph => \E H : Coming(H, run, Excused)'
      BY <1>1, <2>2 DEF Planning
    <3>2. ByGraph' = ByGraph
      BY DEF ByGraph
    <3>3. Planning(run, Excused)'
      BY <2>2, <3>1, <3>2 DEF Planning
    <3> QED
      BY <2>1, <3>3 DEF TreeLocals
  <2>3. CASE Upserting(run, archive, Excused)
    <3>1. Upserting(run, archive, Excused)'
      BY <2>3 DEF Upserting, ItemsOf
    <3> QED
      BY <2>1, <3>1 DEF TreeLocals
  <2>4. CASE Sweeping(run, archive, Excused)
    <3>1. Sweeping(run, archive, Excused)'
      BY <2>4 DEF Sweeping, ItemsOf
    <3> QED
      BY <2>1, <3>1 DEF TreeLocals
  <2> QED
    BY <1>1, <2>2, <2>3, <2>4 DEF TreeInv, TreeLocals
<1>2. IsExchangeTree' /\ \A r \in archive' : r.item \in Items
  BY DEF TreeInv, IsExchangeTree
<1>3. Running' = Running
  BY DEF Running
<1> QED
  BY <1>1, <1>2, <1>3 DEF TreeInv, KeptItems

LEMMA PutKeepsTree ==
  ASSUME TreeInv, NEW i \in Items, NEW q \in {Top} \union Items, NEW n, NewFolder(i, q, n) \/ MoveFolder(i, q, n)
  PROVE  TreeInv' /\ KeptItems
<1>0. Top \notin Items
  BY RerunsAssumption DEF Items, Top
<1>1. PICK unseen :
        /\ Put(i, q, n, unseen)
        /\ i \notin server.ever \/ (i \in server.on /\ (ByGraph /\ Running /\ run.pc = "list"
                                                           => unseen = Below(server.parent, i)))
  BY DEF NewFolder, MoveFolder
<1> DEFINE on == server.on \union {i}
           parent == [server.parent EXCEPT ![i] = q]
           name == [server.name EXCEPT ![i] = n]
           had == server.had \union {Place(i, q, n)}
<1>2. /\ UNCHANGED <<part, archive, run>> /\ IsTree(on, parent, name)
      /\ server' = [server EXCEPT !.on = on, !.ever = @ \union {i}, !.parent = parent, !.name = name,
                              !.changes = @ + 1, !.had = had]
      /\ past' = [past EXCEPT !.moved = TRUE, !.unseen = @ \union unseen]
  BY <1>1 DEF Put, Changing
<1> HIDE DEF had
<1>3. /\ server.parent \in [Items -> {Top} \union Items] /\ server.on \subseteq server.ever
      /\ server.ever \subseteq Items
      /\ server = [on |-> server.on, ever |-> server.ever, parent |-> server.parent,
               name |-> server.name, class |-> server.class, changes |-> server.changes,
               had |-> server.had]
  BY DEF TreeInv, TreeServer
<1>4. parent \in [Items -> {Top} \union Items]
  BY <1>3
<1>5. server' = [on |-> on, ever |-> server.ever \union {i}, parent |-> parent, name |-> name,
                 class |-> server.class, changes |-> server.changes + 1, had |-> had]
  <2> HIDE DEF parent, name
  <2> QED
    BY <1>2, <1>3
<1>6. past' = [missed |-> past.missed, moved |-> TRUE, unseen |-> past.unseen \union unseen,
               frozen |-> past.frozen]
  BY <1>2 DEF TreeInv, DrivePast
<1>7. TreeServer'
  <2>1. \A j \in on : /\ parent[j] \in on \union {Top} /\ RootedAt(parent, j)
    <3> HIDE DEF parent, name, on
    <3> QED
      BY <1>2 DEF IsTree, RootedAt
  <2> HIDE DEF parent, name
  <2> QED
    BY <1>3, <1>4, <1>5, <2>1 DEF TreeServer
<1>8. DrivePast' /\ Excused \subseteq Excused' /\ (Running => Items \ server.on \subseteq past.missed)
  BY <1>6 DEF DrivePast, Excused, TreeInv
<1>9. Running => Items \ server'.on \subseteq past'.missed
  BY <1>5, <1>6, <1>8
<1>10. ASSUME NEW G, Running, Coming(G, run, Excused), run.pc = "list", ByGraph
       PROVE  \E H : Coming(H, run, Excused)'
  <2>1. /\ G \subseteq server.on /\ server.on \ Excused \subseteq G
        /\ \A j \in G : server.parent[j] \in G \union {Top}
        /\ \A j \in G \ ItemsOf(run.plan) :
             server.parent[j] \in run.frontier \union (G \ ItemsOf(run.plan))
    BY <1>10 DEF Coming
  <2>2. CASE i \notin server.ever
    <3>1. i \notin G /\ i \in Excused
      BY <1>3, <1>8, <1>10, <2>1, <2>2 DEF Excused
    <3>2. \A j \in G : parent[j] = server.parent[j]
      BY <1>3, <2>1, <3>1
    <3> HIDE DEF parent, name
    <3> QED
      BY <1>2, <1>5, <1>8, <2>1, <3>1, <3>2 DEF Coming
  <2>4. CASE i \in server.on /\ unseen = Below(server.parent, i)
    <3>0. PICK H : H = G \ Below(server.parent, i)
      OBVIOUS
    <3>1. /\ i \in Below(server.parent, i)
          /\ \A j \in G : server.parent[j] \in Below(server.parent, i) => j \in Below(server.parent, i)
      <4>1. ASSUME NEW j \in G, server.parent[j] \in Below(server.parent, i)
            PROVE  RootedAt(server.parent, server.parent[j]) /\ j \in Items
        <5>1. server.parent[j] \in server.on
          BY <1>0, <2>1, <4>1 DEF Below
        <5> QED
          BY <1>3, <2>1, <5>1 DEF TreeInv, TreeServer
      <4> QED
        BY <1>3, <4>1, BelowClosed
    <3>2. \A j \in H : parent[j] = server.parent[j] /\ server.parent[j] \notin Below(server.parent, i)
      BY <1>3, <2>1, <3>0, <3>1
    <3>3. H \subseteq on /\ on \ Excused' \subseteq H
      BY <1>6, <1>8, <2>1, <2>4, <3>0 DEF Excused
    <3>4. \A j \in H : parent[j] \in H \union {Top}
      BY <2>1, <3>0, <3>2
    <3>5. \A j \in H \ ItemsOf(run.plan) : parent[j] \in run.frontier \union (H \ ItemsOf(run.plan))
      BY <2>1, <3>0, <3>2
    <3>6. run' = run /\ ItemsOf(run.plan)' = ItemsOf(run.plan)
      BY <1>2 DEF ItemsOf
    <3> HIDE DEF parent, name, on
    <3>7. Coming(H, run, Excused)'
      BY <1>5, <3>3, <3>4, <3>5, <3>6 DEF Coming
    <3> QED
      BY <3>7
  <2> QED
    BY <1>1, <1>10, <2>2, <2>4
<1> QED
  BY <1>2, <1>7, <1>8, <1>9, <1>10, TreeMoves

LEMMA DeleteKeepsTree ==
  ASSUME TreeInv, NEW i \in Items, DeleteFolder(i)
  PROVE  TreeInv' /\ KeptItems
<1>0. Top \notin Items
  BY RerunsAssumption DEF Items, Top
<1> DEFINE gone == Below(server.parent, i) \intersect server.on
<1>1. /\ UNCHANGED <<part, archive, run>> /\ i \in server.on
      /\ server' = [server EXCEPT !.on = @ \ gone, !.changes = @ + 1]
      /\ past' = [past EXCEPT !.moved = TRUE, !.missed = @ \union gone]
  BY DEF DeleteFolder, Changing
<1>2. /\ server.parent \in [Items -> {Top} \union Items] /\ server.on \subseteq server.ever
      /\ server.ever \subseteq Items
      /\ \A j \in server.on : server.parent[j] \in server.on \union {Top} /\ RootedAt(server.parent, j)
  BY DEF TreeInv, TreeServer
<1>3. /\ i \in Below(server.parent, i)
      /\ \A j \in server.on : server.parent[j] \in Below(server.parent, i) => j \in Below(server.parent, i)
  <2>1. ASSUME NEW j \in server.on, server.parent[j] \in Below(server.parent, i)
        PROVE  RootedAt(server.parent, server.parent[j])
    <3>1. server.parent[j] \in server.on
      BY <1>0, <1>2, <2>1 DEF Below
    <3> QED
      BY <1>2, <3>1
  <2> QED
    BY <1>2, <2>1, BelowClosed
<1> HIDE DEF gone
<1>4. /\ server' = [on |-> server.on \ gone, ever |-> server.ever, parent |-> server.parent,
               name |-> server.name, class |-> server.class,
               changes |-> server.changes + 1, had |-> server.had]
      /\ past' = [missed |-> past.missed \union gone, moved |-> TRUE, unseen |-> past.unseen,
                  frozen |-> past.frozen]
  BY <1>1 DEF TreeInv, TreeServer, DrivePast
<1>5. TreeServer'
  <2>1. \A j \in server.on \ gone : server.parent[j] \in (server.on \ gone) \union {Top}
    BY <1>2, <1>3 DEF gone
  <2> QED
    BY <1>2, <1>4, <2>1 DEF TreeServer
<1>6. DrivePast' /\ Excused \subseteq Excused' /\ (Running => Items \ server.on \subseteq past.missed)
  BY <1>4 DEF DrivePast, Excused, TreeInv
<1>7. Running => Items \ server'.on \subseteq past'.missed
  BY <1>4, <1>6
<1>8. ASSUME NEW G, Coming(G, run, Excused)
      PROVE  \E H : Coming(H, run, Excused)'
  <2>1. /\ G \subseteq server.on /\ server.on \ Excused \subseteq G
        /\ \A j \in G : server.parent[j] \in G \union {Top}
        /\ \A j \in G \ ItemsOf(run.plan) :
             server.parent[j] \in run.frontier \union (G \ ItemsOf(run.plan))
    BY <1>8 DEF Coming
  <2>0. PICK H : H = G \ gone
    OBVIOUS
  <2>2. \A j \in H : server.parent[j] \notin gone
    BY <1>3, <2>0, <2>1 DEF gone
  <2>3. H \subseteq server.on \ gone /\ (server.on \ gone) \ Excused' \subseteq H
    BY <1>6, <2>0, <2>1
  <2>4. \A j \in H : server.parent[j] \in H \union {Top}
    BY <2>0, <2>1, <2>2
  <2>5. \A j \in H \ ItemsOf(run.plan) : server.parent[j] \in run.frontier \union (H \ ItemsOf(run.plan))
    BY <2>0, <2>1, <2>2
  <2>6. run' = run /\ ItemsOf(run.plan)' = ItemsOf(run.plan)
    BY <1>1 DEF ItemsOf
  <2>7. Coming(H, run, Excused)'
    BY <1>4, <2>3, <2>4, <2>5, <2>6 DEF Coming
  <2> QED
    BY <2>7
<1> QED
  BY <1>1, <1>5, <1>6, <1>7, <1>8, TreeMoves

(* A step of the run.                                                      *)
LEMMA TreeStepOK ==
  ASSUME TreeInv, Running, UNCHANGED <<part, server, past>>, NEW rows, archive' = rows,
         \A q \in rows : q.item \in Items,
         NEW r, run' = r, r.pc # "over" => TreeLocals(r, rows, Excused)
  PROVE  TreeInv'
<1>1. IsExchangeTree' /\ TreeServer' /\ DrivePast' /\ Excused' = Excused /\ ByGraph' = ByGraph
  BY DEF TreeInv, IsExchangeTree, TreeServer, DrivePast, Excused, ByGraph
<1>2. ASSUME Running' PROVE TreeLocals(run, archive, Excused)'
  <2>1. TreeLocals(r, rows, Excused)
    BY <1>2 DEF Running
  <2>2. TreeRecord(run)'
    BY <2>1 DEF TreeLocals, TreeRecord
  <2>3. CASE Planning(r, Excused)
    <3>1. ASSUME NEW G, Coming(G, r, Excused) PROVE Coming(G, run, Excused)'
      BY <1>1, <3>1 DEF Coming, ItemsOf
    <3> QED
      BY <1>1, <2>2, <2>3, <3>1 DEF TreeLocals, Planning
  <2>4. CASE Upserting(r, rows, Excused) \/ Sweeping(r, rows, Excused)
    <3>1. Upserting(run, archive, Excused)' \/ Sweeping(run, archive, Excused)'
      BY <1>1, <2>4 DEF Upserting, Sweeping, ItemsOf
    <3> QED
      BY <2>2, <3>1 DEF TreeLocals
  <2> QED
    BY <2>1, <2>3, <2>4 DEF TreeLocals
<1> QED
  BY <1>1, <1>2 DEF TreeInv

(* A sequence in some order has what it orders.                            *)
LEMMA SortedHas ==
  ASSUME NEW S, IsFiniteSet(S), NEW s, s \in [1..Cardinality(S) -> S]
  PROVE  s \in Seq(S) /\ Len(s) = Cardinality(S) /\ ToSet(s) \subseteq S
<1>1. Cardinality(S) \in Nat
  BY FS_CardinalityType
<1>2. s \in Seq(S) /\ Len(s) = Cardinality(S)
  BY <1>1
<1> QED
  BY <1>2, SetOfSequence

LEMMA ToWriteOK ==
  ASSUME NEW r, TreeRecord(r), ToWrite(r), \A q \in archive : q.item \in Items,
         ItemsOf(archive) \ ItemsOf(r.plan) \subseteq Excused
  PROVE  TreeLocals(run', archive, Excused)
<1>1. PICK order \in Orders(r.plan) : \E known, vanished :
        /\ run' = [r EXCEPT !.pc = "write", !.todo = order, !.plan = {}, !.vanished = vanished, !.known = known]
        /\ vanished = ItemsOf(archive) \ ItemsOf(r.plan)
  BY DEF ToWrite, ItemsOf
<1>2. PICK known, vanished :
        /\ run' = [r EXCEPT !.pc = "write", !.todo = order, !.plan = {}, !.vanished = vanished, !.known = known]
        /\ vanished = ItemsOf(archive) \ ItemsOf(r.plan)
  BY <1>1
<1>3. order \in [1..Cardinality(r.plan) -> r.plan]
  BY DEF Orders, Sorted
<1>4. order \in Seq(r.plan)
  BY <1>3, SortedHas DEF TreeRecord
<1>5. PICK q : q = run'
  OBVIOUS
<1>6. q = [pc |-> "write", frontier |-> r.frontier, plan |-> {}, known |-> known, todo |-> order,
           vanished |-> vanished, gone |-> r.gone, failed |-> r.failed]
  BY <1>2, <1>5 DEF TreeRecord
<1>7. IsFiniteSet({})
  BY FS_EmptySet
<1>8. TreeRecord(q)
  BY <1>6, <1>7 DEF TreeRecord
<1>9. Upserting(q, archive, Excused)
  BY <1>2, <1>4, <1>6 DEF Upserting, TreeRecord
<1> QED
  BY <1>5, <1>8, <1>9 DEF TreeLocals

LEMMA SweptOK ==
  ASSUME NEW r, TreeRecord(r), NEW R, Swept(r, R), \A q \in R : q.item \in Items,
         r.vanished \subseteq ItemsOf(R) \intersect Excused
  PROVE  run'.pc = "over" \/ TreeLocals(run', R, Excused)
<1>1. CASE run' = Over(FALSE)
  BY <1>1 DEF Over
<1>2. CASE r.vanished # {} /\ \E order \in GoneOrders(R, r.vanished) :
              run' = [r EXCEPT !.pc = "sweep", !.vanished = {}, !.known = {}, !.gone = order]
  <2>1. PICK order \in GoneOrders(R, r.vanished) :
              run' = [r EXCEPT !.pc = "sweep", !.vanished = {}, !.known = {}, !.gone = order]
    BY <1>2
  <2>2. /\ order \in [1..Cardinality(r.vanished) -> r.vanished]
        /\ \A j, k \in DOMAIN order : j < k => order[j] # order[k]
    BY DEF GoneOrders, Sorted
  <2>3. r.vanished \subseteq Items /\ IsFiniteSet(r.vanished)
    <3>1. ItemsOf(R) \subseteq Items
      BY DEF ItemsOf
    <3>2. IsFiniteSet(Items)
      BY RerunsAssumption, FS_Interval DEF Items
    <3> QED
      BY <3>1, <3>2, FS_Subset
  <2>4. order \in Seq(r.vanished) /\ Len(order) = Cardinality(r.vanished) /\ ToSet(order) \subseteq r.vanished
    BY <2>2, <2>3, SortedHas
  <2>5. order \in Seq(Items)
    BY <2>3, <2>4
  <2>6. \A j, k \in 1..Len(order) : j # k => order[j] # order[k]
    <3>1. DOMAIN order = 1..Len(order) /\ Len(order) \in Nat
      BY <2>4
    <3> QED
      BY <2>2, <3>1
  <2>7. PICK q : q = run'
    OBVIOUS
  <2>8. q = [pc |-> "sweep", frontier |-> r.frontier, plan |-> r.plan, known |-> {}, todo |-> r.todo,
             vanished |-> {}, gone |-> order, failed |-> r.failed]
    BY <2>1, <2>7 DEF TreeRecord
  <2>9. TreeRecord(q)
    BY <2>8 DEF TreeRecord
  <2>10. order # <<>>
    <3>1. Cardinality(r.vanished) # 0
      BY <1>2, <2>3, FS_EmptySet
    <3> QED
      BY <2>4, <3>1
  <2>11. Sweeping(q, R, Excused)
    BY <2>4, <2>5, <2>6, <2>8, <2>10 DEF Sweeping
  <2> QED
    BY <2>7, <2>9, <2>11 DEF TreeLocals
<1> QED
  BY <1>1, <1>2 DEF Swept

(* A run begins, or is stopped.                                            *)
LEMMA StartKeepsTree ==
  ASSUME TreeInv, TreeStart \/ ListTreeFails \/ TreeCrash
  PROVE  TreeInv' /\ KeptItems
<1>1. archive' = archive /\ UNCHANGED <<part, server>>
  BY DEF TreeStart, ListTreeFails, TreeCrash, Begin, Crash
<1>2. KeptItems
  BY <1>1 DEF KeptItems, ItemsOf
<1>3. CASE TreeStart
  <2>1. /\ run' = Plan({Top})
        /\ past' = [past EXCEPT !.missed = Items \ server.on, !.moved = FALSE, !.unseen = {}]
    BY <1>3 DEF TreeStart, Begin
  <2>2. DrivePast' /\ past'.missed = Items \ server.on
    BY <2>1 DEF TreeInv, DrivePast
  <2>3. IsExchangeTree' /\ TreeServer' /\ \A q \in archive' : q.item \in Items
    BY <1>1 DEF TreeInv, IsExchangeTree, TreeServer
  <2>4. PICK r : r = run'
    OBVIOUS
  <2>5. r = [pc |-> "list", frontier |-> {Top}, plan |-> {}, known |-> {}, todo |-> <<>>,
             vanished |-> {}, gone |-> <<>>, failed |-> FALSE]
    BY <2>1, <2>4 DEF Plan
  <2>6. IsFiniteSet({})
    BY FS_EmptySet
  <2>7. TreeRecord(r)
    BY <2>5, <2>6 DEF TreeRecord
  <2>8. Coming(server.on, r, Excused)'
    BY <1>1, <2>5, <2>4 DEF Coming, TreeInv, TreeServer, ItemsOf
  <2>9. TreeLocals(run, archive, Excused)'
    <3>1. TreeRecord(run)'
      BY <2>4, <2>7 DEF TreeRecord
    <3>2. Planning(run, Excused)'
      <4>1. (\E G : Coming(G, run, Excused))'
        BY <2>4, <2>8 DEF Coming
      <4> QED
        BY <2>4, <2>5, <4>1 DEF Planning
    <3> QED
      BY <3>1, <3>2 DEF TreeLocals
  <2> QED
    BY <1>1, <1>2, <2>2, <2>3, <2>9 DEF TreeInv
<1>4. CASE ListTreeFails \/ TreeCrash
  <2>1. run'.pc = "over" /\ Running /\ past' = past
    BY <1>4 DEF ListTreeFails, TreeCrash, Crash, Over, Running
  <2>2. \A q \in archive : q.item \in Items
    BY DEF TreeInv
  <2> QED
    BY <1>1, <1>2, <2>1, <2>2, TreeStepOK
<1> QED
  BY <1>3, <1>4

(* EWS finds all the folders at once.                                      *)
LEMMA FindKeepsTree ==
  ASSUME TreeInv, FindFolders
  PROVE  TreeInv' /\ KeptItems
<1> DEFINE plan == {Entry(i) : i \in server.on}
<1>1. /\ run.pc = "list" /\ Running /\ UNCHANGED <<part, server, archive, past>>
      /\ ToWrite([run EXCEPT !.plan = plan])
  BY DEF FindFolders, Running
<1>2. /\ TreeRecord(run) /\ server.on \subseteq Items /\ Items \ server.on \subseteq Excused
      /\ \A q \in archive : q.item \in Items
  BY <1>1 DEF TreeInv, TreeLocals, TreeServer, Excused
<1>3. IsFiniteSet(plan) /\ (\A e \in plan : e.item \in Items) /\ server.on \subseteq ItemsOf(plan)
  <2>1. IsFiniteSet(server.on)
    <3>1. IsFiniteSet(Items)
      BY RerunsAssumption, FS_Interval DEF Items
    <3> QED
      BY <1>2, <3>1, FS_Subset
  <2>2. [i \in server.on |-> Entry(i)] \in Surjection(server.on, plan)
    BY DEF Surjection
  <2>3. \A i \in server.on : Entry(i).item = i
    BY DEF Entry, Place
  <2>4. IsFiniteSet(plan)
    <3> HIDE DEF plan
    <3> QED
      BY <2>1, <2>2, FS_Surjection
  <2>5. \A i \in server.on : \E e \in plan : e.item = i
    BY <2>3
  <2> QED
    BY <1>2, <2>3, <2>4, <2>5 DEF ItemsOf
<1> HIDE DEF plan
<1>4. PICK r : r = [run EXCEPT !.plan = plan]
  OBVIOUS
<1>5. r = [pc |-> run.pc, frontier |-> run.frontier, plan |-> plan, known |-> run.known, todo |-> run.todo,
           vanished |-> run.vanished, gone |-> run.gone, failed |-> run.failed]
  BY <1>2, <1>4 DEF TreeRecord
<1>6. TreeRecord(r)
  BY <1>3, <1>5 DEF TreeRecord
<1>7. ItemsOf(archive) \ ItemsOf(r.plan) \subseteq Excused
  <2>1. ItemsOf(archive) \subseteq Items
    BY <1>2 DEF ItemsOf
  <2> QED
    BY <1>2, <1>3, <1>5, <2>1
<1>8. TreeLocals(run', archive, Excused)
  BY <1>1, <1>2, <1>4, <1>6, <1>7, ToWriteOK
<1>9. KeptItems
  BY <1>1 DEF KeptItems, ItemsOf
<1>10. PICK s : s = run'
  OBVIOUS
<1> QED
  BY <1>1, <1>2, <1>8, <1>9, <1>10, TreeStepOK

(* The children of one folder.                                             *)
LEMMA ChildrenKeepTree ==
  ASSUME TreeInv, NEW p, ListChildren(p)
  PROVE  TreeInv' /\ KeptItems
<1> DEFINE new == {i \in server.on : server.parent[i] = p} \ ItemsOf(run.plan)
           entries == {Entry(i) : i \in new}
           ahead == (run.frontier \ {p}) \union new
<1>1. /\ run.pc = "list" /\ ByGraph /\ Running /\ UNCHANGED <<part, server, archive, past>>
      /\ TreeRecord(run) /\ \A q \in archive : q.item \in Items
      /\ \E G : Coming(G, run, Excused)
  BY DEF ListChildren, Running, TreeInv, TreeLocals, Planning, Upserting, Sweeping
<1>2. PICK G : Coming(G, run, Excused)
  BY <1>1
<1>3. PICK r : r = [run EXCEPT !.frontier = ahead, !.plan = @ \union entries]
  OBVIOUS
<1>4. run' = Over(TRUE) \/ run' = r \/ (r.frontier = {} /\ ToWrite(r))
  BY <1>3, Zenon DEF ListChildren, ItemsOf
<1>5. /\ server.parent \in [Items -> {Top} \union Items] /\ server.on \subseteq Items
      /\ \A j \in server.on : RootedAt(server.parent, j)
      /\ Items \ server.on \subseteq Excused
  BY <1>1 DEF TreeInv, TreeServer, Excused
<1>6. /\ \A e \in entries : e.item \in Items /\ e.item \in new
      /\ \A i \in new : \E e \in entries : e.item = i
      /\ IsFiniteSet(entries)
  <2>1. \A i \in new : Entry(i).item = i /\ i \in Items
    BY <1>5 DEF Entry, Place
  <2>2. IsFiniteSet(new)
    <3>1. IsFiniteSet(Items)
      BY RerunsAssumption, FS_Interval DEF Items
    <3>2. new \subseteq Items
      BY <1>5
    <3> HIDE DEF new
    <3> QED
      BY <3>1, <3>2, FS_Subset
  <2> HIDE DEF new
  <2>3. [i \in new |-> Entry(i)] \in Surjection(new, entries)
    BY DEF Surjection
  <2>4. IsFiniteSet(entries)
    <3> HIDE DEF entries
    <3> QED
      BY <2>2, <2>3, FS_Surjection
  <2> QED
    BY <2>1, <2>4
<1>7. r = [pc |-> "list", frontier |-> ahead, plan |-> run.plan \union entries, known |-> run.known,
           todo |-> run.todo, vanished |-> run.vanished, gone |-> run.gone, failed |-> run.failed]
  <2> HIDE DEF ahead, entries
  <2> QED
    BY <1>1, <1>3 DEF TreeRecord
<1>8. ItemsOf(r.plan) = ItemsOf(run.plan) \union new
  <2> HIDE DEF entries, new
  <2> QED
    BY <1>6, <1>7 DEF ItemsOf
<1>9. TreeRecord(r)
  <2>1. IsFiniteSet(run.plan \union entries)
    <3> HIDE DEF entries
    <3> QED
      BY <1>1, <1>6, FS_Union DEF TreeRecord
  <2> HIDE DEF ahead, entries, new
  <2> QED
    BY <1>1, <1>6, <1>7, <2>1 DEF TreeRecord
<1>10. Coming(G, r, Excused)
  <2>1. \A i \in G \ ItemsOf(r.plan) : server.parent[i] # p
    BY <1>2, <1>8 DEF Coming
  <2>2. ASSUME NEW i \in G \ ItemsOf(r.plan)
        PROVE  server.parent[i] \in ahead \union (G \ ItemsOf(r.plan))
    <3>1. server.parent[i] \in run.frontier \union (G \ ItemsOf(run.plan))
      BY <1>2, <1>8, <2>2 DEF Coming
    <3> QED
      BY <1>8, <2>1, <2>2, <3>1
  <2> HIDE DEF ahead, entries, new
  <2> QED
    BY <1>2, <1>7, <2>2 DEF Coming
<1>11. r.frontier = {} => ItemsOf(archive) \ ItemsOf(r.plan) \subseteq Excused
  <2> SUFFICES ASSUME r.frontier = {} PROVE ItemsOf(archive) \ ItemsOf(r.plan) \subseteq Excused
    OBVIOUS
  <2> DEFINE X == G \ ItemsOf(r.plan)
  <2>1. /\ G \subseteq server.on /\ server.on \ Excused \subseteq G
        /\ \A j \in X : server.parent[j] \in X
    BY <1>10 DEF Coming
  <2>2. X = {}
    <3> SUFFICES ASSUME NEW i \in X PROVE FALSE
      OBVIOUS
    <3>1. X \in SUBSET Items /\ i \in Items /\ RootedAt(server.parent, i)
      BY <1>5, <2>1
    <3> HIDE DEF X
    <3> QED
      BY <1>5, <2>1, <3>1, NoDescent
  <2>3. ItemsOf(archive) \subseteq Items
    BY <1>1 DEF ItemsOf
  <2> QED
    BY <1>5, <2>1, <2>2, <2>3
<1> HIDE DEF ahead, entries, new
<1>12. PICK s : s = run'
  OBVIOUS
<1>13. s.pc # "over" => TreeLocals(s, archive, Excused)
  <2>1. CASE run' = Over(TRUE)
    BY <1>12, <2>1 DEF Over
  <2>2. CASE run' = r
    BY <1>7, <1>9, <1>10, <1>12, <2>2 DEF TreeLocals, Planning
  <2>3. CASE r.frontier = {} /\ ToWrite(r)
    BY <1>1, <1>9, <1>11, <1>12, <2>3, ToWriteOK
  <2> QED
    BY <1>4, <2>1, <2>2, <2>3
<1>14. KeptItems
  BY <1>1 DEF KeptItems, ItemsOf
<1> QED
  BY <1>1, <1>12, <1>13, <1>14, TreeStepOK

(* One transaction: the rows of the folders that are written.              *)
LEMMA WriteKeepsTree ==
  ASSUME TreeInv, WriteFolders
  PROVE  TreeInv' /\ KeptItems
<1>1. /\ run.pc = "write" /\ Running /\ UNCHANGED <<part, server, past>>
      /\ TreeRecord(run) /\ \A q \in archive : q.item \in Items
      /\ Upserting(run, archive, Excused)
  BY DEF WriteFolders, Running, TreeInv, TreeLocals, Planning, Upserting, Sweeping
<1>2. PICK X : run.todo \in Seq(X) /\ \A x \in X : x.item \in Items
  BY <1>1 DEF Upserting
<1>3. PICK n : n = IF ByGraph THEN FolderChunk ELSE 1
  OBVIOUS
<1>4. n \in Nat
  BY <1>3, ExchangeFoldersAssumption
<1> DEFINE base == [rows |-> archive, known |-> run.known, ok |-> TRUE]
<1>5. PICK done : done = FoldLeft(Upserted, base, First(run.todo, n))
  OBVIOUS
<1>6. PICK next : next = [run EXCEPT !.todo = Rest(@, n), !.known = done.known]
  OBVIOUS
<1>7. \/ run' = Over(TRUE) /\ archive' = archive
      \/ archive' = done.rows /\ (run' = next \/ Swept(next, done.rows))
  BY <1>3, <1>5, <1>6, Zenon DEF WriteFolders
<1>8. Keeping(done, archive)
  <2>1. Keeping(base, archive)
    BY <1>1 DEF Keeping
  <2>2. First(run.todo, n) \in Seq(X)
    BY <1>2, <1>4, FirstAndRest
  <2> HIDE DEF base
  <2> QED
    BY <1>2, <1>5, <2>1, <2>2, UpsertsKeep
<1>9. next = [pc |-> "write", frontier |-> run.frontier, plan |-> run.plan, known |-> done.known,
              todo |-> Rest(run.todo, n), vanished |-> run.vanished, gone |-> run.gone,
              failed |-> run.failed]
  BY <1>1, <1>6 DEF TreeRecord
<1>10. TreeRecord(next) /\ next.vanished \subseteq ItemsOf(done.rows) \intersect Excused
       /\ \A q \in done.rows : q.item \in Items
  BY <1>1, <1>8, <1>9 DEF TreeRecord, Keeping, Upserting
<1>11. Upserting(next, done.rows, Excused)
  <2>1. Rest(run.todo, n) \in Seq(X)
    BY <1>2, <1>4, FirstAndRest
  <2> QED
    BY <1>2, <1>9, <1>10, <2>1 DEF Upserting
<1>12. PICK s : s = run'
  OBVIOUS
<1>13. CASE run' = Over(TRUE) /\ archive' = archive
  <2>1. s.pc = "over"
    BY <1>12, <1>13 DEF Over
  <2> QED
    BY <1>1, <1>12, <1>13, <2>1, TreeStepOK DEF KeptItems, ItemsOf
<1>14. CASE archive' = done.rows /\ (run' = next \/ Swept(next, done.rows))
  <2>1. s.pc # "over" => TreeLocals(s, done.rows, Excused)
    <3>1. CASE run' = next
      BY <1>10, <1>11, <1>12, <3>1 DEF TreeLocals
    <3>2. CASE Swept(next, done.rows)
      BY <1>10, <1>12, <3>2, SweptOK
    <3> QED
      BY <1>14, <3>1, <3>2
  <2>2. KeptItems
    BY <1>8, <1>14 DEF KeptItems, Keeping
  <2> QED
    BY <1>1, <1>10, <1>12, <1>14, <2>1, <2>2, TreeStepOK
<1> QED
  BY <1>7, <1>13, <1>14

(* The row of a folder that is gone.                                       *)
LEMMA VanishKeepsTree ==
  ASSUME TreeInv, VanishFolder
  PROVE  TreeInv' /\ KeptItems
<1>1. /\ run.pc = "sweep" /\ Running /\ UNCHANGED <<part, server, past>>
      /\ TreeRecord(run) /\ \A q \in archive : q.item \in Items
      /\ Sweeping(run, archive, Excused)
  BY DEF VanishFolder, Running, TreeInv, TreeLocals, Planning, Upserting, Sweeping
<1> DEFINE row == RowOf(Head(run.gone))
<1>2. row = RowOf(Head(run.gone))
  OBVIOUS
<1>3. PICK failed : \E next :
        /\ next = [run EXCEPT !.gone = Tail(@), !.failed = failed]
        /\ archive' = archive \/ archive' = archive \ {row}
        /\ \/ next.gone = <<>> /\ run' = Over(failed)
           \/ next.gone # <<>> /\ run' = next
  <2> DEFINE restricted == row.table = "mailboxes" /\
                       \E r \in Mailboxes(archive) \ {row} : r.parent = row.id
             next == [run EXCEPT !.gone = Tail(@), !.failed = @ \/ restricted]
  <2>1. /\ archive' = (IF restricted THEN archive ELSE archive \ {row})
        /\ run' = IF next.gone = <<>> THEN Over(next.failed) ELSE next
    BY Zenon DEF VanishFolder
  <2>2. next = [run EXCEPT !.gone = Tail(@), !.failed = run.failed \/ restricted]
    BY Zenon
  <2> HIDE DEF restricted, row
  <2>3. next.failed = (run.failed \/ restricted)
    BY <1>1 DEF TreeRecord
  <2> HIDE DEF next
  <2> QED
    BY <2>1, <2>2, <2>3
<1> HIDE DEF row
<1>4. PICK next :
        /\ next = [run EXCEPT !.gone = Tail(@), !.failed = failed]
        /\ archive' = archive \/ archive' = archive \ {row}
        /\ \/ next.gone = <<>> /\ run' = Over(failed)
           \/ next.gone # <<>> /\ run' = next
  BY <1>3
<1>5. next = [pc |-> "sweep", frontier |-> run.frontier, plan |-> run.plan, known |-> run.known,
              todo |-> run.todo, vanished |-> run.vanished, gone |-> Tail(run.gone), failed |-> failed]
  BY <1>1, <1>4 DEF TreeRecord
<1>6. \A q \in archive' : q.item \in Items
  BY <1>1, <1>4
<1> DEFINE i == Head(run.gone)
<1>7. /\ run.gone \in Seq(Items) /\ Len(run.gone) \in Nat /\ Len(run.gone) # 0
      /\ \A x : x \in ToSet(run.gone) <=> \E k \in 1..Len(run.gone) : x = run.gone[k]
  BY <1>1, SetOfSequence DEF Sweeping
<1>8. i = run.gone[1] /\ 1 \in 1..Len(run.gone)
  BY <1>7
<1>9. i \in ItemsOf(archive) /\ i \in Excused
  BY <1>1, <1>7, <1>8 DEF Sweeping
<1>10. row \in archive /\ row.item = i
  BY <1>2, <1>9 DEF RowOf, ItemsOf
<1>11. ItemsOf(archive) \ {i} \subseteq ItemsOf(archive')
  BY <1>4, <1>10 DEF ItemsOf
<1>12. KeptItems
  BY <1>9, <1>11 DEF KeptItems
<1>13. /\ Tail(run.gone) \in Seq(Items) /\ Len(Tail(run.gone)) = Len(run.gone) - 1
      /\ \A k \in 1..(Len(run.gone) - 1) : Tail(run.gone)[k] = run.gone[k + 1]
  BY <1>7
<1>14. \A x \in ToSet(Tail(run.gone)) : x \in ItemsOf(archive) /\ x \in Excused /\ x # i
  <2> SUFFICES ASSUME NEW x \in ToSet(Tail(run.gone)) PROVE x \in ItemsOf(archive) /\ x \in Excused /\ x # i
    OBVIOUS
  <2>0. \E k \in 1..Len(Tail(run.gone)) : x = Tail(run.gone)[k]
    BY <1>13, SetOfSequence
  <2>1. PICK k \in 1..(Len(run.gone) - 1) : x = Tail(run.gone)[k]
    BY <1>13, <2>0
  <2>2. x = run.gone[k + 1] /\ k + 1 \in 1..Len(run.gone) /\ k + 1 # 1
    BY <1>7, <1>13, <2>1
  <2> QED
    BY <1>1, <1>7, <1>8, <2>2 DEF Sweeping
<1>15. \A j, k \in 1..Len(Tail(run.gone)) : j # k => Tail(run.gone)[j] # Tail(run.gone)[k]
  <2> SUFFICES ASSUME NEW j \in 1..Len(Tail(run.gone)), NEW k \in 1..Len(Tail(run.gone)), j # k
               PROVE  Tail(run.gone)[j] # Tail(run.gone)[k]
    OBVIOUS
  <2>1. j + 1 \in 1..Len(run.gone) /\ k + 1 \in 1..Len(run.gone) /\ j + 1 # k + 1
        /\ j \in 1..(Len(run.gone) - 1) /\ k \in 1..(Len(run.gone) - 1)
    BY <1>7, <1>13
  <2> QED
    BY <1>1, <1>13, <2>1 DEF Sweeping
<1> HIDE DEF i
<1>16. next.gone # <<>> => TreeRecord(next) /\ Sweeping(next, archive', Excused)
  BY <1>1, <1>5, <1>11, <1>13, <1>14, <1>15 DEF TreeRecord, Sweeping
<1>17. PICK s : s = run'
  OBVIOUS
<1>18. s.pc # "over" => TreeLocals(s, archive', Excused)
  BY <1>4, <1>16, <1>17 DEF TreeLocals, Over
<1>19. PICK rows : rows = archive'
  OBVIOUS
<1> QED
  BY <1>1, <1>6, <1>12, <1>17, <1>18, <1>19, TreeStepOK

LEMMA TreeSteps == TreeInv /\ [ExchangeTreeNext]_vars => TreeInv' /\ KeptItems
<1> SUFFICES ASSUME TreeInv, [ExchangeTreeNext]_vars PROVE TreeInv' /\ KeptItems
  OBVIOUS
<1>1. CASE \E i \in Items, p \in {Top} \union Items, n \in FolderNames : NewFolder(i, p, n) \/ MoveFolder(i, p, n)
  BY <1>1, PutKeepsTree
<1>2. CASE \E i \in Items : DeleteFolder(i)
  BY <1>2, DeleteKeepsTree
<1>3. CASE TreeStart \/ ListTreeFails \/ TreeCrash
  BY <1>3, StartKeepsTree
<1>4. CASE FindFolders
  BY <1>4, FindKeepsTree
<1>5. CASE \E p \in Frontier : ListChildren(p)
  BY <1>5, ChildrenKeepTree
<1>6. CASE WriteFolders
  BY <1>6, WriteKeepsTree
<1>7. CASE VanishFolder
  BY <1>7, VanishKeepsTree
<1>8. CASE UNCHANGED vars
  <2>1. UNCHANGED <<part, server, archive, run, past>>
    BY <1>8 DEF vars
  <2>2. TreeServer' /\ DrivePast' /\ Excused' = Excused
    BY <2>1 DEF TreeInv, TreeServer, DrivePast, Excused
  <2>3. \A G : Coming(G, run, Excused) => Coming(G, run, Excused)'
    BY <2>1, <2>2 DEF Coming, ItemsOf
  <2>4. Running => Items \ server'.on \subseteq past'.missed
    BY <2>1 DEF TreeInv
  <2> QED
    BY <2>1, <2>2, <2>3, <2>4, TreeMoves
<1> QED
  BY <1>1, <1>2, <1>3, <1>4, <1>5, <1>6, <1>7, <1>8 DEF ExchangeTreeNext, ExchangeTreeRun

-----------------------------------------------------------------------------
(* That the mailboxes of Exchange stay a tree.  What a run has written is  *)
(* under what it has written: EWS writes parents first, and Graph knows of *)
(* no other rows.  So a row that is written may be ranked below all that   *)
(* are not written yet.  Not so where a mail folder has been in a          *)
(* calendar, which has no row among the mailboxes.                         *)

(* The mailboxes have ranks, each a higher one than the one above it.      *)
Stacked(R, f, b) ==
  /\ f \in [Items -> Nat] /\ b \in Nat /\ \A i \in Items : f[i] <= b
  /\ \A r, q \in Mailboxes(R) : r.parent = q.id => f[q.item] < f[r.item]

(* The rows of folders are lawful, and what this run has written, W, is    *)
(* under rows that it has written; what it knows is in the archive.        *)
Woven(R, known, W) ==
  /\ IsFiniteSet(R)
  /\ \A r \in R : r.item \in Items /\ r.table = server.class[r.item] /\ r.id \in Nat \ {0}
  /\ \A r, q \in R : r.item = q.item \/ (r.table = q.table /\ r.id = q.id) => r = q
  /\ \A r \in Mailboxes(R) : r.parent = Top \/ \E q \in Mailboxes(R) : q.id = r.parent
  /\ \A r, q \in Mailboxes(R) : r.item \in W /\ r.parent = q.id => q.item \in W
  /\ \E f, b : Stacked(R, f, b)
  /\ \A x \in known : \E r \in R : r.item = x.item /\ r.id = x.id

LEMMA FreshIdIsNew ==
  ASSUME NEW R, NEW known, NEW W, Woven(R, known, W), NEW t
  PROVE  /\ FreshId(R, t) \in Nat \ {0}
         /\ \A r \in R : r.table = t => r.id # FreshId(R, t)
<1> DEFINE T == Table(R, t)
           ids == {r.id : r \in T}
           S == {0} \union ids
<1>1. T \subseteq R /\ IsFiniteSet(T)
  <2>1. T \subseteq R /\ IsFiniteSet(R)
    BY DEF Table, Woven
  <2> HIDE DEF T
  <2> QED
    BY <2>1, FS_Subset
<1>2. IsFiniteSet(ids)
  <2>1. [r \in T |-> r.id] \in Surjection(T, ids)
    BY DEF Surjection
  <2> HIDE DEF T, ids
  <2> QED
    BY <1>1, <2>1, FS_Surjection
<1>3. IsFiniteSet(S)
  <2>1. IsFiniteSet({0})
    BY FS_Singleton
  <2> HIDE DEF ids
  <2> QED
    BY <1>2, <2>1, FS_Union
<1>4. S \in SUBSET Nat /\ S # {}
  BY <1>1 DEF Woven
<1>5. Max(S) \in Nat /\ \A x \in S : x <= Max(S) /\ x \in Nat
  <2> HIDE DEF S
  <2> QED
    BY <1>3, <1>4, GreatestOf
<1>6. FreshId(R, t) = 1 + Max(S)
  BY DEF FreshId
<1>7. \A r \in R : r.table = t => r.id \in S
  BY DEF Table
<1> HIDE DEF S
<1> QED
  BY <1>5, <1>6, <1>7

(* A folder that is written under one that this run has written, or at the *)
(* top, leaves the mailboxes in order: all that the run has not written    *)
(* yet get a higher rank than any that it has.                             *)
LEMMA UpsertWeaves ==
  ASSUME NEW s, NEW W \in SUBSET Items, Woven(s.rows, s.known, W),
         server.class \in [Items -> {"mailboxes", "calendars"}],
         NEW e, e.item \in Items \ W,
         server.class[e.item] = "mailboxes" =>
           \A x \in s.known : x.item = e.parent =>
             x.item \in W /\ server.class[x.item] = "mailboxes",
         Upserted(s, e).ok = TRUE, s = [rows |-> s.rows, known |-> s.known, ok |-> s.ok]
  PROVE  /\ s.ok
         /\ Woven(Upserted(s, e).rows, Upserted(s, e).known, W \union {e.item})
         /\ {x.item : x \in Upserted(s, e).known} = {x.item : x \in s.known} \union {e.item}
         /\ Upserted(s, e) = [rows |-> Upserted(s, e).rows, known |-> Upserted(s, e).known, ok |-> TRUE]
<1> DEFINE old == {r \in s.rows : r.item = e.item}
           table == server.class[e.item]
           found == {k.id : k \in {x \in s.known : x.item = e.parent}}
           parent == IF table = "calendars" \/ found = {} THEN Top ELSE CHOOSE id \in found : TRUE
           id == IF old = {} THEN FreshId(s.rows, table) ELSE (CHOOSE r \in old : TRUE).id
           under == IF old = {} THEN e.parent ELSE (CHOOSE r \in old : TRUE).under
           new == [item |-> e.item, table |-> table, id |-> id, name |-> e.name,
                   parent |-> parent, under |-> under]
           others == s.rows \ old
           rows == others \union {new}
           known == s.known \union {[item |-> e.item, id |-> id]}
<1>0. Top \notin Items /\ Top = 0
  BY RerunsAssumption DEF Items, Top
<1>1. Upserted(s, e) = IF s.ok /\ Lawful(rows) THEN [rows |-> rows, known |-> known, ok |-> TRUE]
                       ELSE [s EXCEPT !.ok = FALSE]
  BY Zenon DEF Upserted
<1>2. table \in {"mailboxes", "calendars"}
  OBVIOUS
<1>3. id \in Nat \ {0} /\ \A r \in others : r.table = table => r.id # id
  <2>1. CASE old = {}
    <3>1. id = FreshId(s.rows, table) /\ others \subseteq s.rows
      BY <2>1
    <3> HIDE DEF id, others
    <3> QED
      BY <3>1, FreshIdIsNew
  <2>2. CASE old # {}
    <3> DEFINE q == CHOOSE r \in old : TRUE
    <3>1. q \in old
      BY <2>2
    <3>2. id = q.id
      BY <2>2
    <3>3. q \in s.rows /\ q.item = e.item
      BY <3>1
    <3> HIDE DEF q, id
    <3>4. q.id \in Nat \ {0} /\ q.table = table
      BY <3>3 DEF Woven
    <3> QED
      BY <3>2, <3>3, <3>4 DEF Woven
  <2> QED
    BY <2>1, <2>2
<1>4. parent = Top \/ (table = "mailboxes" /\ \E q \in Mailboxes(others) : q.id = parent /\ q.item \in W)
  <2> SUFFICES ASSUME parent # Top
               PROVE  table = "mailboxes" /\ \E q \in Mailboxes(others) : q.id = parent /\ q.item \in W
    OBVIOUS
  <2>1. table # "calendars" /\ found # {} /\ parent = CHOOSE c \in found : TRUE
    OBVIOUS
  <2>2. parent \in found
    <3> HIDE DEF found, parent
    <3> QED
      BY <2>1
  <2>3. PICK x \in s.known : x.item = e.parent /\ x.id = parent
    BY <2>2
  <2>4. x.item \in W /\ server.class[x.item] = "mailboxes"
    BY <1>2, <2>1, <2>3
  <2>5. PICK q \in s.rows : q.item = x.item /\ q.id = x.id
    BY DEF Woven
  <2>6. q.table = "mailboxes" /\ q.item # e.item
    BY <2>4, <2>5 DEF Woven
  <2> HIDE DEF parent, found
  <2> QED
    BY <1>2, <2>1, <2>3, <2>4, <2>5, <2>6 DEF Mailboxes, Table
<1>5. /\ new.item = e.item /\ new.table = table /\ new.id = id /\ new.parent = parent
      /\ \A r \in others : r \in s.rows /\ r.item # e.item
      /\ \A r \in s.rows : r.item # e.item => r \in others
  OBVIOUS
<1> HIDE DEF id, parent, under
<1>6. s.ok /\ Lawful(rows) /\ Upserted(s, e) = [rows |-> rows, known |-> known, ok |-> TRUE]
  <2> DEFINE bad == [s EXCEPT !.ok = FALSE]
  <2>1. bad.ok = FALSE
    OBVIOUS
  <2> HIDE DEF rows, known, bad
  <2> QED
    BY <1>1, <2>1
<1>7. \A x \in known : \E r \in rows : r.item = x.item /\ r.id = x.id
  <2> SUFFICES ASSUME NEW x \in known PROVE \E r \in rows : r.item = x.item /\ r.id = x.id
    OBVIOUS
  <2>1. CASE x = [item |-> e.item, id |-> id]
    BY <1>5, <2>1
  <2>2. CASE x \in s.known
    <3>1. PICK r \in s.rows : r.item = x.item /\ r.id = x.id
      BY <2>2 DEF Woven
    <3>2. CASE r.item # e.item
      BY <1>5, <3>1, <3>2
    <3>3. CASE r.item = e.item
      <4>1. r \in old
        BY <3>3
      <4>2. (CHOOSE q \in old : TRUE) \in s.rows /\ (CHOOSE q \in old : TRUE).item = e.item
        BY <4>1
      <4>3. (CHOOSE q \in old : TRUE) = r
        BY <3>1, <3>3, <4>2 DEF Woven
      <4>4. id = r.id
        BY <4>1, <4>3 DEF id
      <4> QED
        BY <1>5, <3>1, <3>3, <4>4
    <3> QED
      BY <3>2, <3>3
  <2>3. x \in s.known \/ x = [item |-> e.item, id |-> id]
    OBVIOUS
  <2> HIDE DEF known, rows
  <2> QED
    BY <2>1, <2>2, <2>3
<1>8. {x.item : x \in known} = {x.item : x \in s.known} \union {e.item}
  <2>1. PICK pair : pair = [item |-> e.item, id |-> id]
    OBVIOUS
  <2>2. known = s.known \union {pair} /\ pair.item = e.item
    BY <2>1
  <2> HIDE DEF known
  <2> QED
    BY <2>2
<1> HIDE DEF new, old, known
<1>9. /\ \A r \in Mailboxes(rows) : r \in Mailboxes(others) \/ r = new
      /\ \A r \in Mailboxes(others) : r \in Mailboxes(s.rows) /\ r \in others
  BY <1>5 DEF Mailboxes, Table
<1>10. IsFiniteSet(rows)
  <2>1. others \subseteq s.rows
    BY <1>5
  <2>2. IsFiniteSet({new}) /\ IsFiniteSet(others)
    BY <2>1, FS_Singleton, FS_Subset DEF Woven
  <2> HIDE DEF others
  <2> QED
    BY <2>2, FS_Union
<1>11. \A r \in rows : r.item \in Items /\ r.table = server.class[r.item] /\ r.id \in Nat \ {0}
  BY <1>3, <1>5 DEF Woven
<1>12. \A r, q \in rows : r.item = q.item \/ (r.table = q.table /\ r.id = q.id) => r = q
  <2>1. \A r, q \in others : r.item = q.item \/ (r.table = q.table /\ r.id = q.id) => r = q
    BY <1>5 DEF Woven
  <2>2. \A r \in others : ~(r.item = new.item \/ (r.table = new.table /\ r.id = new.id))
    BY <1>3, <1>5
  <2> HIDE DEF others
  <2> QED
    BY <2>1, <2>2
<1>13. \A r \in Mailboxes(rows) : r.parent = Top \/ \E q \in Mailboxes(rows) : q.id = r.parent
  BY <1>6 DEF Lawful
<1>14. PICK f, b : Stacked(s.rows, f, b)
  BY DEF Woven
<1>15. \A r, q \in Mailboxes(rows) : r.item \in W \union {e.item} /\ r.parent = q.id =>
         q.item \in W \union {e.item}
  <2> SUFFICES ASSUME NEW r \in Mailboxes(rows), NEW q \in Mailboxes(rows), r.parent = q.id,
                      r.item \in W \union {e.item}, q # new
               PROVE  q.item \in W
    BY <1>5
  <2>1. q \in Mailboxes(others) /\ q.id \in Nat \ {0} /\ q.table = "mailboxes" /\ q \in rows
    BY <1>9, <1>11 DEF Mailboxes, Table
  <2>2. CASE r = new
    <3>1. parent # Top /\ parent = q.id
      BY <1>0, <1>5, <2>1, <2>2
    <3>2. PICK p \in Mailboxes(others) : p.id = parent /\ p.item \in W
      BY <1>4, <3>1
    <3>3. p = q
      BY <1>9, <2>1, <3>1, <3>2 DEF Woven, Mailboxes, Table
    <3> QED
      BY <3>2, <3>3
  <2>3. CASE r \in Mailboxes(others)
    BY <1>5, <1>9, <2>1, <2>3 DEF Woven
  <2> QED
    BY <1>9, <2>2, <2>3
<1>16. \E g, c : Stacked(rows, g, c)
  <2> DEFINE g == [i \in Items |-> IF i \in W THEN f[i] ELSE f[i] + b + 1]
  <2>1. g \in [Items -> Nat] /\ 2 * b + 1 \in Nat
    BY <1>14 DEF Stacked
  <2>2. \A i \in Items : g[i] <= 2 * b + 1
    BY <1>14 DEF Stacked
  <2>3. ASSUME NEW r \in Mailboxes(rows), NEW q \in Mailboxes(rows), r.parent = q.id
        PROVE  g[q.item] < g[r.item]
    <3>0. r.item \in Items /\ q.item \in Items /\ q.id \in Nat \ {0} /\ q.table = "mailboxes"
      BY <1>11 DEF Mailboxes, Table
    <3>1. CASE r = new
      <4>1. parent # Top /\ parent = q.id
        BY <1>0, <1>5, <2>3, <3>0, <3>1
      <4>2. PICK p \in Mailboxes(others) : p.id = parent /\ p.item \in W
        BY <1>4, <4>1
      <4>3. p \in rows /\ p.table = "mailboxes" /\ q \in rows
        BY <4>2 DEF Mailboxes, Table
      <4>4. p = q
        BY <1>12, <3>0, <4>1, <4>2, <4>3
      <4>5. q.item \in W /\ r.item \notin W
        BY <1>5, <3>1, <4>2, <4>4
      <4> QED
        BY <1>14, <3>0, <4>5 DEF Stacked
    <3>2. CASE r # new
      <4>1. r \in Mailboxes(s.rows) /\ r \in others
        BY <1>9, <3>2
      <4>2. CASE q # new
        <5>1. q \in Mailboxes(s.rows)
          BY <1>9, <4>2
        <5>2. f[q.item] < f[r.item] /\ (r.item \in W => q.item \in W)
          BY <1>14, <2>3, <4>1, <5>1 DEF Stacked, Woven
        <5> QED
          BY <1>14, <3>0, <5>2 DEF Stacked
      <4>3. CASE q = new
        <5>1. r.parent = id /\ q.item = e.item
          BY <1>5, <2>3, <4>3
        <5>2. PICK p \in Mailboxes(s.rows) : p.id = r.parent
          <6>1. r.parent # Top
            BY <1>0, <2>3, <3>0
          <6> QED
            BY <4>1, <6>1 DEF Woven
        <5>3. p.item = e.item
          <6>1. p \in s.rows /\ p.table = "mailboxes"
            BY <5>2 DEF Mailboxes, Table
          <6>2. q.table = table
            BY <1>5, <4>3
          <6>3. ~(p \in others)
            BY <1>3, <3>0, <5>1, <5>2, <6>1, <6>2
          <6> QED
            BY <1>5, <6>1, <6>3
        <5>4. f[q.item] < f[r.item] /\ (r.item \in W => q.item \in W)
          BY <1>14, <2>3, <4>1, <5>1, <5>2, <5>3 DEF Stacked, Woven
        <5> QED
          BY <1>14, <3>0, <5>4 DEF Stacked
      <4> QED
        BY <4>2, <4>3
    <3> QED
      BY <3>1, <3>2
  <2> HIDE DEF g
  <2>4. Stacked(rows, g, 2 * b + 1)
    BY <2>1, <2>2, <2>3 DEF Stacked
  <2> QED
    BY <2>4
<1> HIDE DEF rows
<1>17. Woven(rows, known, W \union {e.item})
  BY <1>7, <1>10, <1>11, <1>12, <1>13, <1>15, <1>16 DEF Woven
<1> QED
  BY <1>6, <1>8, <1>17

(* What is still to be written, parents first where the run may find the   *)
(* row of a parent that it has not written itself.                         *)
Waiting(todo, W) ==
  /\ todo \in Seq(server.had)
  /\ \A k \in 1..Len(todo) : todo[k].item \in Items \ W
  /\ \A j, k \in 1..Len(todo) : j # k => todo[j].item # todo[k].item
  /\ ~ByGraph => \A k \in 1..Len(todo) :
       server.class[todo[k].item] = "mailboxes" /\ todo[k].parent # Top =>
         todo[k].parent \in W \union {todo[j].item : j \in 1..(k - 1)}

ClassesAndPlaces ==
  /\ server.class \in [Items -> {"mailboxes", "calendars"}] /\ DOMAIN server.name = Items
  /\ \A x \in server.had : x.item \in Items /\ x.parent \in {Top} \union Items
  /\ \A i \in server.on : Entry(i) \in server.had

(* A run that writes: those that are known by Graph are of this run.       *)
Writing(rows, known, W) ==
  /\ W \in SUBSET Items /\ Woven(rows, known, W)
  /\ ByGraph => \A x \in known : x.item \in W
Weaves(s, W) ==
  /\ s = [rows |-> s.rows, known |-> s.known, ok |-> s.ok]
  /\ s.ok = FALSE \/ (s.ok = TRUE /\ Writing(s.rows, s.known, W))

LEMMA UpsertStillWeaves ==
  ASSUME ClassesAndPlaces, ~Mixed, NEW s, NEW W \in SUBSET Items, Weaves(s, W), NEW e \in server.had,
         e.item \notin W,
         ~ByGraph /\ server.class[e.item] = "mailboxes" /\ e.parent # Top => e.parent \in W
  PROVE  Weaves(Upserted(s, e), W \union {e.item})
<1>0. Top \notin Items /\ e.item \in Items
  BY RerunsAssumption DEF Items, Top, ClassesAndPlaces
<1>1. PICK q : q = Upserted(s, e)
  OBVIOUS
<1>2. \/ q = [s EXCEPT !.ok = FALSE]
      \/ s.ok /\ \E rows, known : q = [rows |-> rows, known |-> known, ok |-> TRUE]
  BY <1>1, Zenon DEF Upserted
<1>3. CASE q = [s EXCEPT !.ok = FALSE]
  <2>1. q = [rows |-> s.rows, known |-> s.known, ok |-> FALSE]
    BY <1>3 DEF Weaves
  <2>2. Weaves(q, W \union {e.item})
    BY <2>1 DEF Weaves
  <2> QED
    BY <1>1, <2>2
<1>4. CASE s.ok /\ \E rows, known : q = [rows |-> rows, known |-> known, ok |-> TRUE]
  <2>1. q.ok = TRUE
    BY <1>4
  <2>2. /\ Woven(s.rows, s.known, W) /\ s = [rows |-> s.rows, known |-> s.known, ok |-> s.ok]
        /\ ByGraph => \A x \in s.known : x.item \in W
    BY <1>4 DEF Weaves, Writing
  <2>3. ASSUME server.class[e.item] = "mailboxes", NEW x \in s.known, x.item = e.parent
        PROVE  x.item \in W /\ server.class[x.item] = "mailboxes"
    <3>1. PICK r \in s.rows : r.item = x.item
      BY <2>2 DEF Woven
    <3>2. x.item \in Items
      BY <2>2, <3>1 DEF Woven
    <3>3. e.parent # Top
      BY <1>0, <2>3, <3>2
    <3>4. server.class[e.parent] # "calendars"
      BY <2>3, <3>3 DEF Mixed
    <3>5. server.class[x.item] \in {"mailboxes", "calendars"}
      BY <3>2 DEF ClassesAndPlaces
    <3> QED
      BY <2>2, <2>3, <3>3, <3>4, <3>5
  <2>4. server.class \in [Items -> {"mailboxes", "calendars"}] /\ e.item \in Items \ W /\ Upserted(s, e).ok = TRUE
    BY <1>0, <1>1, <2>1 DEF ClassesAndPlaces
  <2>5. /\ Woven(q.rows, q.known, W \union {e.item})
        /\ {x.item : x \in q.known} = {x.item : x \in s.known} \union {e.item}
        /\ q = [rows |-> q.rows, known |-> q.known, ok |-> TRUE]
    BY <1>1, <2>2, <2>3, <2>4, UpsertWeaves
  <2>6. ByGraph => \A x \in q.known : x.item \in W \union {e.item}
    <3> SUFFICES ASSUME ByGraph, NEW x \in q.known PROVE x.item \in W \union {e.item}
      OBVIOUS
    <3>1. x.item \in {y.item : y \in s.known} \union {e.item}
      BY <2>5
    <3> QED
      BY <2>2, <3>1
  <2>7. W \union {e.item} \in SUBSET Items
    BY <1>0
  <2>8. Weaves(q, W \union {e.item})
    BY <2>5, <2>6, <2>7 DEF Weaves, Writing
  <2> QED
    BY <1>1, <2>8
<1> QED
  BY <1>2, <1>3, <1>4

(* One transaction.                                                        *)
LEMMA ChunkWeaves ==
  ASSUME ClassesAndPlaces, ~Mixed, NEW rows, NEW known, NEW W \in SUBSET Items, Writing(rows, known, W),
         NEW todo, Waiting(todo, W), NEW n \in Nat, NEW done,
         done = FoldLeft(Upserted, [rows |-> rows, known |-> known, ok |-> TRUE], First(todo, n)), done.ok
  PROVE  \E V \in SUBSET Items : Writing(done.rows, done.known, V) /\ Waiting(Rest(todo, n), V)
<1> DEFINE s == First(todo, n)
           m == Len(s)
           base == [rows |-> rows, known |-> known, ok |-> TRUE]
           Done(k) == W \union {todo[j].item : j \in 1..k}
<1>1. /\ todo \in Seq(server.had) /\ Len(todo) \in Nat
      /\ \A k \in 1..Len(todo) : todo[k] \in server.had /\ todo[k].item \in Items \ W
      /\ \A j, k \in 1..Len(todo) : j # k => todo[j].item # todo[k].item
      /\ ~ByGraph => \A k \in 1..Len(todo) :
          server.class[todo[k].item] = "mailboxes" /\ todo[k].parent # Top => todo[k].parent \in Done(k - 1)
  <2>1. todo \in Seq(server.had)
    BY DEF Waiting
  <2>2. Len(todo) \in Nat /\ \A k \in 1..Len(todo) : todo[k] \in server.had
    BY <2>1
  <2> QED
    BY <2>1, <2>2 DEF Waiting
<1>2. /\ s \in Seq(server.had) /\ m = (IF n < Len(todo) THEN n ELSE Len(todo)) /\ \A k \in 1..m : s[k] = todo[k]
      /\ Rest(todo, n) \in Seq(server.had)
      /\ Len(Rest(todo, n)) = (IF n < Len(todo) THEN Len(todo) - n ELSE 0)
      /\ \A k \in 1..Len(Rest(todo, n)) : Rest(todo, n)[k] = todo[n + k]
  BY <1>1, FirstAndRest
<1> HIDE DEF s
<1>3. m \in Nat /\ m <= Len(todo)
  BY <1>1, <1>2
<1>4. PICK h : /\ h[0] = base /\ h[m] = FoldLeft(Upserted, base, s)
               /\ \A k \in 1..m : h[k] = Upserted(h[k - 1], s[k])
  <2> HIDE DEF base
  <2>1. s \in Seq(server.had) /\ done = FoldLeft(Upserted, base, s)
    BY <1>2 DEF s, base
  <2>2. PICK h : OneByOne(h, base, s) /\ h[Len(s)] = done
    BY <2>1, UpsertsUnfold
  <2> QED
    BY <2>1, <2>2 DEF OneByOne
<1>5. \A k \in 0..m : Done(k) \in SUBSET Items
  BY <1>1, <1>3
<1>6. Weaves(h[0], Done(0))
  <2>1. Done(0) = W
    OBVIOUS
  <2>2. Weaves(base, W)
    BY DEF Weaves
  <2> QED
    BY <1>4, <2>1, <2>2
<1>7. ASSUME NEW k \in 1..m, Weaves(h[k - 1], Done(k - 1)) PROVE Weaves(h[k], Done(k))
  <2>1. k \in 1..Len(todo) /\ k - 1 \in 0..m
    BY <1>1, <1>3
  <2>2. /\ todo[k] \in server.had /\ todo[k].item \notin Done(k - 1)
        /\ ~ByGraph /\ server.class[todo[k].item] = "mailboxes" /\ todo[k].parent # Top =>
             todo[k].parent \in Done(k - 1)
    <3>1. \A j \in 1..(k - 1) : j \in 1..Len(todo) /\ j # k
      BY <1>1, <2>1
    <3> QED
      BY <1>1, <2>1, <3>1
  <2>3. Done(k) = Done(k - 1) \union {todo[k].item}
    <3>1. 1..k = (1..(k - 1)) \union {k}
      BY <2>1
    <3> QED
      BY <3>1
  <2>4. h[k] = Upserted(h[k - 1], todo[k])
    BY <1>2, <1>4
  <2>5. Done(k - 1) \in SUBSET Items
    BY <1>5, <2>1
  <2> HIDE DEF Done
  <2>6. Weaves(Upserted(h[k - 1], todo[k]), Done(k - 1) \union {todo[k].item})
    BY <1>7, <2>2, <2>5, UpsertStillWeaves
  <2> QED
    BY <2>3, <2>4, <2>6
<1> DEFINE Out == {k \in 0..m : ~Weaves(h[k], Done(k))}
<1>8. Out = {}
  <2> SUFFICES ASSUME Out # {} PROVE FALSE
    OBVIOUS
  <2> HIDE DEF Done, m
  <2>1. PICK k \in Out : \A j \in Out : k <= j
    <3>1. Out \in SUBSET Nat
      BY <1>3
    <3> HIDE DEF Out
    <3> QED
      BY <3>1, LeastNumber
  <2>2. k # 0
    BY <1>6, <2>1
  <2>3. k \in 1..m /\ k - 1 \in 0..m /\ ~(k <= k - 1)
    BY <1>3, <2>1, <2>2
  <2>4. Weaves(h[k - 1], Done(k - 1))
    BY <2>1, <2>3
  <2> QED
    BY <1>7, <2>1, <2>3, <2>4
<1>9. Weaves(done, Done(m))
  <2> HIDE DEF Done, m
  <2>1. m \in 0..m /\ m \notin Out
    BY <1>3, <1>8
  <2>2. Weaves(h[m], Done(m))
    BY <2>1
  <2>3. done = h[m]
    BY <1>4 DEF s
  <2> QED
    BY <2>2, <2>3
<1>10. Writing(done.rows, done.known, Done(m)) /\ Done(m) \in SUBSET Items
  BY <1>9 DEF Weaves, Writing
<1>11. Waiting(Rest(todo, n), Done(m))
  <2> DEFINE rest == Rest(todo, n)
  <2>1. ASSUME NEW k \in 1..Len(rest)
        PROVE  rest[k] = todo[n + k] /\ n + k \in 1..Len(todo) /\ m = n
    BY <1>1, <1>2, <2>1
  <2>2. ASSUME NEW k \in 1..Len(rest) PROVE rest[k].item \in Items \ Done(m)
    <3>0. n + k \in 1..Len(todo) /\ rest[k] = todo[n + k] /\ m = n /\ k \in 1..Len(rest)
      BY <2>1, <2>2
    <3> HIDE DEF rest
    <3>1. \A j \in 1..n : j \in 1..Len(todo) /\ j # n + k
      BY <1>1, <3>0
    <3>2. todo[n + k].item \in Items \ W /\ \A j \in 1..n : todo[j].item # todo[n + k].item
      BY <1>1, <3>0, <3>1
    <3> QED
      BY <3>0, <3>2
  <2>3. ASSUME NEW j \in 1..Len(rest), NEW k \in 1..Len(rest), j # k PROVE rest[j].item # rest[k].item
    <3>0. /\ n + k \in 1..Len(todo) /\ rest[k] = todo[n + k]
          /\ n + j \in 1..Len(todo) /\ rest[j] = todo[n + j]
      BY <2>1, <2>3
    <3> HIDE DEF rest
    <3>1. n + j # n + k
      BY <2>3
    <3> QED
      BY <1>1, <3>0, <3>1
  <2>4. ASSUME ~ByGraph, NEW k \in 1..Len(rest),
               server.class[rest[k].item] = "mailboxes", rest[k].parent # Top
        PROVE  rest[k].parent \in Done(m) \union {rest[j].item : j \in 1..(k - 1)}
    <3>0. n + k \in 1..Len(todo) /\ rest[k] = todo[n + k] /\ m = n
      BY <2>1, <2>4
    <3>1. rest[k].parent \in Done(n + k - 1) /\ n + k \in 1..Len(todo) /\ m = n
      <4>1. \A c \in 1..Len(todo) :
              server.class[todo[c].item] = "mailboxes" /\ todo[c].parent # Top => todo[c].parent \in Done(c - 1)
        BY <1>1, <2>4
      <4> HIDE DEF rest, Done
      <4> QED
        BY <2>4, <3>0, <4>1
    <3>2. CASE rest[k].parent \in W
      BY <3>2
    <3>3. CASE \E j \in 1..(n + k - 1) : rest[k].parent = todo[j].item
      <4>1. PICK j \in 1..(n + k - 1) : rest[k].parent = todo[j].item
        BY <3>3
      <4>2. CASE j <= n
        <5>1. j \in 1..m
          BY <3>1, <4>2
        <5> QED
          BY <4>1, <5>1
      <4>3. CASE ~(j <= n)
        <5>1. j - n \in 1..(k - 1) /\ j - n \in 1..Len(rest) /\ n + (j - n) = j
          BY <1>2, <3>1, <4>3
        <5>2. rest[j - n] = todo[j]
          BY <1>2, <5>1
        <5> QED
          BY <4>1, <5>1, <5>2
      <4> QED
        BY <4>2, <4>3
    <3> QED
      BY <3>1, <3>2, <3>3
  <2>5. rest \in Seq(server.had)
    BY <1>2
  <2> HIDE DEF rest, Done, m
  <2>6. Waiting(rest, Done(m))
    BY <2>2, <2>3, <2>4, <2>5 DEF Waiting
  <2> QED
    BY <2>6 DEF rest
<1> HIDE DEF Done, m
<1> QED
  BY <1>10, <1>11

(* Parents have a lower depth, so that they come first.                    *)
LEMMA OrdersWait ==
  ASSUME ClassesAndPlaces, TreeServer, ~Mixed, NEW plan, IsFiniteSet(plan), plan \subseteq server.had,
         \A e, d \in plan : e.item = d.item => e = d,
         ~ByGraph => plan = {Entry(i) : i \in server.on},
         NEW order \in Orders(plan)
  PROVE  Waiting(order, {})
<1> DEFINE parents == Parents(plan, "mailboxes")
           depth == [i \in Items |-> Depth(parents, i)]
           Key(e) == IF server.class[e.item] = "calendars" THEN LastItem ELSE depth[e.item]
           n == Cardinality(plan)
<1>0. Top \notin Items
  BY RerunsAssumption DEF Items, Top
<1>1. order \in Sorted(plan, Key)
  BY Zenon DEF Orders
<1>2. /\ order \in [1..n -> plan]
      /\ \A k, l \in DOMAIN order : k < l => order[k] # order[l] /\ Key(order[k]) <= Key(order[l])
  BY <1>1 DEF Sorted
<1>3. n \in Nat /\ DOMAIN order = 1..n /\ order \in Seq(plan) /\ Len(order) = n
  <2>1. n \in Nat
    BY FS_CardinalityType
  <2> HIDE DEF n
  <2> QED
    BY <1>2, <2>1
<1> HIDE DEF Key, n
<1>4. \A j, k \in 1..n : j # k => order[j] # order[k] /\ order[j].item # order[k].item
  <2> SUFFICES ASSUME NEW j \in 1..n, NEW k \in 1..n, j # k PROVE order[j] # order[k]
    BY <1>2
  <2>1. j < k \/ k < j
    BY <1>3
  <2> QED
    BY <1>2, <1>3, <2>1
<1>5. \A k \in 1..n : order[k] \in plan /\ order[k] \in server.had /\ order[k].item \in Items
  BY <1>2 DEF ClassesAndPlaces
<1>6. ASSUME ~ByGraph, NEW k \in 1..n, server.class[order[k].item] = "mailboxes", order[k].parent # Top
      PROVE  \E j \in 1..(k - 1) : order[k].parent = order[j].item
  <2>1. PICK i \in server.on : order[k] = Entry(i)
    BY <1>5, <1>6
  <2>2. order[k].item = i /\ order[k].parent = server.parent[i]
    BY <2>1 DEF Entry, Place
  <2>3. /\ server.on \subseteq Items /\ server.parent \in [Items -> {Top} \union Items]
        /\ \A x \in server.on : server.parent[x] \in server.on \union {Top} /\ RootedAt(server.parent, x)
    BY DEF TreeServer
  <2> DEFINE p == server.parent[i]
  <2>4. p \in server.on /\ p # Top /\ p \in Items
    BY <1>6, <2>2, <2>3
  <2>5. server.class[p] = "mailboxes"
    <3>1. server.class[p] # "calendars"
      BY <1>5, <1>6, <2>2 DEF Mixed
    <3> QED
      BY <2>4, <3>1 DEF ClassesAndPlaces
  <2>6. \A x \in server.on : Entry(x).item = x /\ Entry(x).parent = server.parent[x] /\ Entry(x) \in plan
    BY <1>6 DEF Entry, Place
  <2>7. {e.item : e \in plan} = server.on
    BY <1>6, <2>6
  <2> DEFINE Named(x) == {e.parent : e \in {y \in plan : y.item = x}} \intersect {e.item : e \in plan}
             Kin(x) == {q \in Named(x) : server.class[q] = "mailboxes"}
             Upward(x) == IF Kin(x) = {} THEN Top ELSE CHOOSE q \in Kin(x) : TRUE
  <2>8. parents = [x \in Items |-> Upward(x)]
    BY DEF Parents
  <2>9. ASSUME NEW x \in Items, NEW q \in Named(x) PROVE x \in server.on /\ q = server.parent[x] /\ q \in server.on
    <3>1. PICK e \in plan : e.item = x /\ q = e.parent
      BY <2>9
    <3>2. PICK y \in server.on : e = Entry(y)
      BY <1>6, <3>1
    <3>3. q \in server.on
      BY <2>7
    <3> QED
      BY <2>6, <3>1, <3>2, <3>3
  <2>10. ASSUME NEW x \in Items, Upward(x) # Top PROVE x \in server.on /\ Upward(x) = server.parent[x] /\ Upward(x) \in server.on
    <3>1. Kin(x) # {} /\ Kin(x) \subseteq Named(x) /\ Upward(x) = CHOOSE q \in Kin(x) : TRUE
      BY <2>10
    <3> HIDE DEF Kin, Named
    <3>2. Upward(x) \in Named(x)
      BY <3>1
    <3> HIDE DEF Upward
    <3> QED
      BY <2>9, <3>2
  <2>11. Upward(i) = p
    <3>1. p \in Kin(i)
      <4>1. p \in {e.parent : e \in {y \in plan : y.item = i}}
        BY <2>6
      <4> QED
        BY <2>4, <2>5, <2>7, <4>1
    <3>2. \A q \in Kin(i) : q = p
      BY <2>3, <2>9
    <3> HIDE DEF Kin
    <3> QED
      BY <3>1, <3>2
  <2> HIDE DEF Upward, Named, Kin
  <2>12. parents \in [Items -> {Top} \union Items]
    BY <2>3, <2>8, <2>10
  <2> DEFINE rank == [x \in Items |-> IF Depth(server.parent, x) \in Nat THEN Depth(server.parent, x) ELSE 0]
  <2>13. \A x \in Items : parents[x] # Top => rank[parents[x]] < rank[x]
    <3> SUFFICES ASSUME NEW x \in Items, Upward(x) # Top PROVE rank[Upward(x)] < rank[x]
      BY <2>8
    <3>1. x \in server.on /\ Upward(x) = server.parent[x] /\ Upward(x) \in server.on /\ Upward(x) \in Items
      BY <2>3, <2>10
    <3>2. /\ Depth(server.parent, x) \in Nat /\ Depth(server.parent, server.parent[x]) \in Nat
          /\ Depth(server.parent, server.parent[x]) < Depth(server.parent, x)
      BY <2>3, <3>1, DeeperBelow
    <3> QED
      BY <3>1, <3>2
  <2>14. \A x \in Items : RootedAt(parents, x)
    <3>1. rank \in [Items -> Nat]
      OBVIOUS
    <3> HIDE DEF rank, parents
    <3> QED
      BY <2>12, <2>13, <3>1, RankedRooted
  <2>15. /\ Depth(parents, i) \in Nat /\ Depth(parents, p) \in Nat /\ Depth(parents, p) < Depth(parents, i)
    <3>1. parents[i] = p /\ i \in Items
      BY <2>3, <2>8, <2>11
    <3> HIDE DEF parents, p
    <3> QED
      BY <2>4, <2>12, <2>14, <3>1, DeeperBelow
  <2>16. PICK j \in 1..n : order[j] = Entry(p)
    <3>1. order \in Injection(1..n, plan)
      BY <1>2, <1>4 DEF Injection, IsInjective
    <3>2. IsFiniteSet(1..n) /\ Cardinality(1..n) = n
      BY <1>3, FS_Interval
    <3>3. order \in Surjection(1..n, plan)
      BY <3>1, <3>2, FS_Injection DEF n
    <3> QED
      BY <2>4, <2>6, <3>3 DEF Surjection
  <2>17. order[j].item = p
    BY <2>4, <2>6, <2>16
  <2>18. Key(order[j]) = Depth(parents, p) /\ Key(order[k]) = Depth(parents, i)
    BY <1>6, <2>2, <2>3, <2>4, <2>5, <2>17 DEF Key
  <2>19. j < k
    <3>1. CASE j = k
      BY <2>2, <2>15, <2>17, <3>1
    <3>2. CASE k < j
      <4>1. Key(order[k]) <= Key(order[j])
        BY <1>2, <1>3, <3>2
      <4> QED
        BY <2>15, <2>18, <4>1
    <3> QED
      BY <1>3, <3>1, <3>2
  <2> QED
    BY <1>3, <2>2, <2>17, <2>19
<1>7. order \in Seq(server.had)
  BY <1>3
<1> QED
  BY <1>3, <1>4, <1>5, <1>6, <1>7 DEF Waiting

(* A run that lists has places that the folders have had, one of each; one *)
(* that writes has written some, and the others wait.                      *)
Weaving(r, rows) ==
  /\ r.pc = "list" => r.plan \subseteq server.had /\ \A e, d \in r.plan : e.item = d.item => e = d
  /\ r.pc = "write" => \E W : Writing(rows, r.known, W) /\ Waiting(r.todo, W)
ForestInv ==
  /\ TreeInv /\ ClassesAndPlaces
  /\ Mixed \/ (Woven(archive, {}, {}) /\ (Running => Weaving(run, archive)))

LEMMA LessWoven ==
  ASSUME NEW R, NEW known, NEW W, Woven(R, known, W)
  PROVE  /\ Woven(R, {}, {})
         /\ Woven(R, {[item |-> q.item, id |-> q.id] : q \in R}, {})
BY DEF Woven

LEMMA ForestAtFirst == ExchangeTreeInit => ForestInv
<1> SUFFICES ASSUME ExchangeTreeInit PROVE ForestInv
  OBVIOUS
<1>1. TreeInv /\ ~Running /\ archive = {}
  BY TreeAtFirst DEF ExchangeTreeInit, Running, Over
<1>2. PICK class \in [Items -> {"mailboxes", "calendars"}],
           parent \in [Items -> {Top} \union Items], name \in [Items -> FolderNames] :
       /\ \A i \in Items : parent[i] < i
       /\ \A i \in {1} \union (Items \ 1..FirstFolders) :
            parent[i] = Top /\ name[i] = CHOOSE n \in FolderNames : TRUE
       /\ IsTree(1..FirstFolders, parent, name)
       /\ Cardinality({i \in Items : class[i] = "calendars"}) <= 1
       /\ ByGraph => class = [i \in Items |-> "mailboxes"]
       /\ server = [on |-> 1..FirstFolders, ever |-> 1..FirstFolders, parent |-> parent,
                    name |-> name, class |-> class, changes |-> 0,
                    had |-> {Place(i, parent[i], name[i]) : i \in 1..FirstFolders}]
  BY Zenon DEF ExchangeTreeInit
<1>3. 1..FirstFolders \subseteq Items
  BY RerunsAssumption DEF Items
<1>4. /\ server.on = 1..FirstFolders /\ server.class = class /\ server.parent = parent /\ server.name = name
      /\ server.had = {Place(i, parent[i], name[i]) : i \in 1..FirstFolders}
  BY <1>2
<1>5. ClassesAndPlaces
  <2>1. \A i \in server.on : Entry(i) = Place(i, parent[i], name[i])
    BY <1>4 DEF Entry
  <2>2. \A i \in server.on : Entry(i) \in server.had
    BY <1>4, <2>1
  <2>3. ASSUME NEW x \in server.had PROVE x.item \in Items /\ x.parent \in {Top} \union Items
    <3>1. PICK i \in 1..FirstFolders : x = Place(i, parent[i], name[i])
      BY <1>4
    <3>2. x.item = i /\ x.parent = parent[i]
      BY <3>1 DEF Place
    <3> QED
      BY <1>3, <3>2
  <2> QED
    BY <1>4, <2>2, <2>3 DEF ClassesAndPlaces
<1>6. Woven(archive, {}, {})
  <2> DEFINE f == [i \in Items |-> 0]
  <2>1. Stacked({}, f, 0)
    BY DEF Stacked, Mailboxes, Table
  <2>2. IsFiniteSet({})
    BY FS_EmptySet
  <2> HIDE DEF f
  <2> QED
    BY <1>1, <2>1, <2>2 DEF Woven, Mailboxes, Table
<1> QED
  BY <1>1, <1>5, <1>6 DEF ForestInv

(* A change of the server.                                                 *)
LEMMA ServerKeepsForest ==
  ASSUME ForestInv, TreeInv', UNCHANGED <<part, archive, run>>, server'.class = server.class,
         server.had \subseteq server'.had, ClassesAndPlaces'
  PROVE  ForestInv'
<1>1. Running' = Running /\ ByGraph' = ByGraph
  BY DEF Running, ByGraph
<1>2. CASE Mixed
  <2>1. Mixed'
    BY <1>2 DEF Mixed
  <2> QED
    BY <2>1 DEF ForestInv
<1>3. CASE Woven(archive, {}, {}) /\ (Running => Weaving(run, archive))
  <2>1. ASSUME NEW R, NEW known, NEW W, Woven(R, known, W) PROVE Woven(R, known, W)'
    BY <2>1 DEF Woven
  <2>2. ASSUME NEW todo, NEW W, Waiting(todo, W) PROVE Waiting(todo, W)'
    <3>1. todo \in Seq(server.had) /\ todo \in Seq(server'.had)
      BY <2>2 DEF Waiting
    <3> QED
      BY <1>1, <2>2, <3>1 DEF Waiting
  <2>3. PICK R, r : R = archive /\ r = run
    OBVIOUS
  <2>4. Woven(archive, {}, {})'
    <3>1. Woven(R, {}, {})'
      BY <1>3, <2>1, <2>3
    <3> QED
      BY <2>3, <3>1 DEF Woven
  <2>5. ASSUME Running PROVE Weaving(run, archive)'
    <3>1. Weaving(r, R)
      BY <1>3, <2>3, <2>5
    <3>2. r.pc = "list" => r.plan \subseteq server'.had /\ \A e, d \in r.plan : e.item = d.item => e = d
      BY <3>1 DEF Weaving
    <3>3. ASSUME r.pc = "write" PROVE \E W : Writing(R, r.known, W)' /\ Waiting(r.todo, W)'
      <4>1. PICK W : Writing(R, r.known, W) /\ Waiting(r.todo, W)
        BY <3>1, <3>3 DEF Weaving
      <4>2. Writing(R, r.known, W)'
        BY <1>1, <2>1, <4>1 DEF Writing
      <4> QED
        BY <2>2, <4>1, <4>2
    <3>4. Weaving(r, R)'
      BY <3>2, <3>3 DEF Weaving
    <3>5. run' = r /\ archive' = R
      BY <2>3
    <3> QED
      BY <3>4, <3>5 DEF Weaving, Writing
  <2> QED
    BY <1>1, <2>4, <2>5 DEF ForestInv
<1> QED
  BY <1>2, <1>3 DEF ForestInv

(* A step of the run.                                                      *)
LEMMA ForestStepOK ==
  ASSUME ForestInv, TreeInv', UNCHANGED <<part, server>>, NEW rows, archive' = rows, NEW r, run' = r,
         ~Mixed => Woven(rows, {}, {}) /\ (r.pc # "over" => Weaving(r, rows))
  PROVE  ForestInv'
<1>1. ByGraph' = ByGraph /\ Mixed' = Mixed
  BY DEF ByGraph, Mixed
<1>2. ClassesAndPlaces'
  BY DEF ForestInv, ClassesAndPlaces, Entry
<1>3. CASE Mixed
  BY <1>1, <1>2, <1>3 DEF ForestInv
<1>4. CASE ~Mixed
  <2>1. Woven(archive, {}, {})'
    BY <1>4 DEF Woven
  <2>2. ASSUME Running' PROVE Weaving(run, archive)'
    <3>1. Weaving(r, rows)
      BY <1>4, <2>2 DEF Running
    <3>2. ASSUME r.pc = "write" PROVE \E W : Writing(rows, r.known, W)' /\ Waiting(r.todo, W)'
      <4>1. PICK W : Writing(rows, r.known, W) /\ Waiting(r.todo, W)
        BY <3>1, <3>2 DEF Weaving
      <4>2. Writing(rows, r.known, W)'
        BY <1>1, <4>1 DEF Writing, Woven
      <4>3. Waiting(r.todo, W)'
        BY <1>1, <4>1 DEF Waiting
      <4> QED
        BY <4>2, <4>3
    <3>3. r.pc = "list" => r.plan \subseteq server'.had /\ \A e, d \in r.plan : e.item = d.item => e = d
      BY <3>1 DEF Weaving
    <3> QED
      BY <3>2, <3>3 DEF Weaving, Writing
  <2> QED
    BY <1>2, <2>1, <2>2 DEF ForestInv
<1> QED
  BY <1>3, <1>4

LEMMA ServerMovesForest ==
  ASSUME ForestInv, NEW i \in Items,
         (\E q \in {Top} \union Items : \E n : NewFolder(i, q, n) \/ MoveFolder(i, q, n)) \/ DeleteFolder(i)
  PROVE  ForestInv'
<1>0. TreeInv /\ ClassesAndPlaces
  BY DEF ForestInv
<1>1. server = [on |-> server.on, ever |-> server.ever, parent |-> server.parent,
               name |-> server.name, class |-> server.class, changes |-> server.changes,
               had |-> server.had]
      /\ server.on \subseteq server.ever /\ server.ever \subseteq Items
      /\ server.parent \in [Items -> {Top} \union Items]
  BY <1>0 DEF TreeInv, TreeServer
<1>2. CASE \E q \in {Top} \union Items : \E n : NewFolder(i, q, n) \/ MoveFolder(i, q, n)
  <2>0. PICK q \in {Top} \union Items : \E n : NewFolder(i, q, n) \/ MoveFolder(i, q, n)
    BY <1>2
  <2>1. PICK n : NewFolder(i, q, n) \/ MoveFolder(i, q, n)
    BY <2>0
  <2>2. TreeInv'
    BY <1>0, <2>1, PutKeepsTree
  <2>3. PICK unseen : Put(i, q, n, unseen)
    BY <2>1 DEF NewFolder, MoveFolder
  <2> DEFINE parent == [server.parent EXCEPT ![i] = q]
             name == [server.name EXCEPT ![i] = n]
  <2>4. /\ UNCHANGED <<part, archive, run>>
        /\ server' = [server EXCEPT !.on = server.on \union {i}, !.ever = @ \union {i}, !.parent = parent,
                              !.name = name, !.changes = @ + 1, !.had = @ \union {Place(i, q, n)}]
    BY <2>3, Zenon DEF Put, Changing
  <2>5. /\ server'.on = server.on \union {i} /\ server'.parent = parent /\ server'.name = name
        /\ server'.class = server.class /\ server'.had = server.had \union {Place(i, q, n)}
    <3>1. PICK had : had = server.had \union {Place(i, q, n)}
      OBVIOUS
    <3> HIDE DEF parent, name
    <3> QED
      BY <1>1, <2>4, <3>1
  <2>6. ClassesAndPlaces'
    <3>1. Place(i, q, n).item = i /\ Place(i, q, n).parent = q
      BY DEF Place
    <3>2. \A x \in server'.had : x.item \in Items /\ x.parent \in {Top} \union Items
      BY <1>0, <2>5, <3>1 DEF ClassesAndPlaces
    <3>3. ASSUME NEW j \in server'.on PROVE Place(j, parent[j], name[j]) \in server'.had
      <4>1. CASE j = i
        <5>1. parent[i] = q
          BY <1>1
        <5>2. name[i] = n
          <6>1. i \in DOMAIN server.name
            BY <1>0 DEF ClassesAndPlaces
          <6> QED
            BY <6>1
        <5> QED
          BY <2>5, <4>1, <5>1, <5>2
      <4>2. CASE j # i
        <5>1. j \in server.on /\ Place(j, server.parent[j], server.name[j]) \in server.had
          BY <1>0, <2>5, <4>2 DEF ClassesAndPlaces, Entry
        <5>2. parent[j] = server.parent[j] /\ name[j] = server.name[j]
          BY <1>1, <4>2, <5>1
        <5> QED
          BY <2>5, <5>1, <5>2
      <4> QED
        BY <4>1, <4>2
    <3>5. DOMAIN name = Items
      BY <1>0 DEF ClassesAndPlaces
    <3> HIDE DEF parent, name
    <3>4. \A j \in server'.on : Entry(j)' \in server'.had
      BY <2>5, <3>3 DEF Entry
    <3> QED
      BY <1>0, <2>5, <3>2, <3>4, <3>5 DEF ClassesAndPlaces
  <2> QED
    BY <2>2, <2>4, <2>5, <2>6, ServerKeepsForest
<1>3. CASE DeleteFolder(i)
  <2>1. TreeInv'
    BY <1>0, <1>3, DeleteKeepsTree
  <2>2. PICK on : /\ UNCHANGED <<part, archive, run>> /\ on \subseteq server.on
                  /\ server' = [server EXCEPT !.on = on, !.changes = @ + 1]
    BY <1>3 DEF DeleteFolder, Changing
  <2>3. /\ server'.on = on /\ server'.parent = server.parent /\ server'.name = server.name
        /\ server'.class = server.class /\ server'.had = server.had
    BY <1>1, <2>2
  <2>4. ClassesAndPlaces'
    BY <1>0, <2>2, <2>3 DEF ClassesAndPlaces, Entry
  <2> QED
    BY <2>1, <2>2, <2>3, <2>4, ServerKeepsForest
<1> QED
  BY <1>2, <1>3

LEMMA ToWriteWeaves ==
  ASSUME ForestInv, ~Mixed, NEW r, TreeRecord(r), ToWrite(r), r.plan \subseteq server.had,
         \A e, d \in r.plan : e.item = d.item => e = d,
         ~ByGraph => r.plan = {Entry(i) : i \in server.on}
  PROVE  Weaving(run', archive)
<1>1. PICK order \in Orders(r.plan) : \E vanished :
        run' = [r EXCEPT !.pc = "write", !.todo = order, !.plan = {}, !.vanished = vanished,
                 !.known = IF ByGraph THEN {} ELSE {[item |-> q.item, id |-> q.id] : q \in archive}]
  BY DEF ToWrite
<1> DEFINE known == IF ByGraph THEN {} ELSE {[item |-> q.item, id |-> q.id] : q \in archive}
<1>2. PICK vanished :
        run' = [r EXCEPT !.pc = "write", !.todo = order, !.plan = {}, !.vanished = vanished, !.known = known]
  BY <1>1
<1>3. PICK q : q = run'
  OBVIOUS
<1>4. Woven(archive, known, {})
  BY LessWoven DEF ForestInv
<1> HIDE DEF known
<1>5. q.pc = "write" /\ q.todo = order /\ q.known = known
  BY <1>2, <1>3 DEF TreeRecord
<1>6. Waiting(order, {})
  BY OrdersWait DEF ForestInv, TreeInv, TreeRecord
<1>7. Writing(archive, known, {})
  BY <1>4 DEF Writing, known
<1>8. Weaving(q, archive)
  BY <1>5, <1>6, <1>7 DEF Weaving
<1> QED
  BY <1>3, <1>8

(* A run begins, or is stopped.                                            *)
LEMMA StartKeepsForest ==
  ASSUME ForestInv, TreeStart \/ ListTreeFails \/ TreeCrash
  PROVE  ForestInv'
<1>1. archive' = archive /\ UNCHANGED <<part, server>>
  BY DEF TreeStart, ListTreeFails, TreeCrash, Begin, Crash
<1>2. TreeInv'
  BY StartKeepsTree DEF ForestInv
<1>3. PICK r : r = run'
  OBVIOUS
<1>4. r.pc = "over" \/ (r.pc = "list" /\ r.plan = {})
  BY <1>3 DEF TreeStart, ListTreeFails, TreeCrash, Begin, Crash, Over, Plan
<1>5. r.pc # "over" => Weaving(r, archive)
  BY <1>4 DEF Weaving
<1> QED
  BY <1>1, <1>2, <1>3, <1>5, ForestStepOK DEF ForestInv

LEMMA ListingKeepsForest ==
  ASSUME ForestInv, FindFolders \/ \E p : ListChildren(p)
  PROVE  ForestInv'
<1>1. /\ run.pc = "list" /\ Running /\ UNCHANGED <<part, server, archive>> /\ TreeInv /\ TreeRecord(run)
      /\ server.on \subseteq Items
  BY DEF FindFolders, ListChildren, Running, ForestInv, TreeInv, TreeLocals, TreeServer
<1>2. PICK s : s = run'
  OBVIOUS
<1>3. /\ \A i \in server.on : Entry(i) \in server.had /\ Entry(i).item = i
      /\ ~Mixed => Woven(archive, {}, {}) /\ Weaving(run, archive)
  BY <1>1 DEF ForestInv, ClassesAndPlaces, Entry, Place
<1>4. CASE FindFolders
  <2> DEFINE plan == {Entry(i) : i \in server.on}
  <2>1. TreeInv' /\ ~ByGraph /\ ToWrite([run EXCEPT !.plan = plan])
    BY <1>1, <1>4, FindKeepsTree DEF FindFolders
  <2>2. IsFiniteSet(plan)
    <3>1. IsFiniteSet(server.on)
      <4>1. IsFiniteSet(Items)
        BY RerunsAssumption, FS_Interval DEF Items
      <4> QED
        BY <1>1, <4>1, FS_Subset
    <3>2. [i \in server.on |-> Entry(i)] \in Surjection(server.on, plan)
      BY DEF Surjection
    <3> HIDE DEF plan
    <3> QED
      BY <3>1, <3>2, FS_Surjection
  <2>3. \A e, d \in plan : e.item = d.item => e = d
    BY <1>3
  <2>4. plan \subseteq server.had /\ \A e \in plan : e.item \in Items
    BY <1>1, <1>3
  <2>5. PICK r : r = [run EXCEPT !.plan = plan]
    OBVIOUS
  <2>6. TreeRecord(r) /\ r.plan = plan
    <3> HIDE DEF plan
    <3>1. r = [pc |-> run.pc, frontier |-> run.frontier, plan |-> plan, known |-> run.known, todo |-> run.todo,
               vanished |-> run.vanished, gone |-> run.gone, failed |-> run.failed]
      BY <1>1, <2>5 DEF TreeRecord
    <3> QED
      BY <2>2, <2>4, <3>1 DEF TreeRecord
  <2>7. ~Mixed => Weaving(s, archive)
    <3> SUFFICES ASSUME ~Mixed PROVE Weaving(run', archive)
      BY <1>2
    <3> HIDE DEF plan
    <3>1. r.plan \subseteq server.had /\ (\A e, d \in r.plan : e.item = d.item => e = d) /\ ToWrite(r)
      BY <2>1, <2>3, <2>4, <2>5, <2>6
    <3>2. ~ByGraph => r.plan = {Entry(i) : i \in server.on}
      BY <2>6 DEF plan
    <3> QED
      BY <2>6, <3>1, <3>2, ToWriteWeaves
  <2> QED
    BY <1>1, <1>2, <1>3, <2>1, <2>7, ForestStepOK
<1>5. CASE \E p : ListChildren(p)
  <2>1. PICK p : ListChildren(p)
    BY <1>5
  <2> DEFINE new == {i \in server.on : server.parent[i] = p} \ ItemsOf(run.plan)
             entries == {Entry(i) : i \in new}
             ahead == (run.frontier \ {p}) \union new
  <2>2. TreeInv' /\ ByGraph
    BY <1>1, <2>1, ChildrenKeepTree DEF ListChildren
  <2>3. PICK r : r = [run EXCEPT !.frontier = ahead, !.plan = @ \union entries]
    OBVIOUS
  <2>4. run' = Over(TRUE) \/ run' = r \/ ToWrite(r)
    BY <2>1, <2>3, Zenon DEF ListChildren, ItemsOf
  <2>5. /\ entries \subseteq server.had /\ \A e \in entries : e.item \in Items /\ e.item \notin ItemsOf(run.plan)
        /\ \A e, d \in entries : e.item = d.item => e = d
    BY <1>1, <1>3
  <2>6. IsFiniteSet(entries)
    <3>0. IsFiniteSet(Items)
      BY RerunsAssumption, FS_Interval DEF Items
    <3>1. new \subseteq Items
      BY <1>1
    <3> HIDE DEF new
    <3>2. [i \in new |-> Entry(i)] \in Surjection(new, entries)
      BY DEF Surjection
    <3> HIDE DEF entries
    <3> QED
      BY <3>0, <3>1, <3>2, FS_Subset, FS_Surjection
  <2> HIDE DEF entries, ahead
  <2>7. r = [pc |-> "list", frontier |-> ahead, plan |-> run.plan \union entries, known |-> run.known,
             todo |-> run.todo, vanished |-> run.vanished, gone |-> run.gone, failed |-> run.failed]
    BY <1>1, <2>3 DEF TreeRecord
  <2>8. IsFiniteSet(run.plan \union entries)
    BY <1>1, <2>6, FS_Union DEF TreeRecord
  <2>9. TreeRecord(r)
    BY <1>1, <2>5, <2>7, <2>8 DEF TreeRecord
  <2>10. ~Mixed => r.plan \subseteq server.had /\ \A e, d \in r.plan : e.item = d.item => e = d
    <3> SUFFICES ASSUME ~Mixed PROVE r.plan \subseteq server.had /\ \A e, d \in r.plan : e.item = d.item => e = d
      OBVIOUS
    <3>1. run.plan \subseteq server.had /\ \A e, d \in run.plan : e.item = d.item => e = d
      BY <1>1, <1>3 DEF Weaving
    <3>2. \A e \in run.plan : e.item \in ItemsOf(run.plan)
      BY DEF ItemsOf
    <3> QED
      BY <2>5, <2>7, <3>1, <3>2
  <2>11. ~Mixed => s.pc = "over" \/ Weaving(s, archive)
    <3> SUFFICES ASSUME ~Mixed PROVE s.pc = "over" \/ Weaving(s, archive)
      OBVIOUS
    <3>1. CASE run' = Over(TRUE)
      BY <1>2, <3>1 DEF Over
    <3>2. CASE run' = r
      BY <1>2, <2>7, <2>10, <3>2 DEF Weaving
    <3>3. CASE ToWrite(r)
      BY <1>2, <2>2, <2>9, <2>10, <3>3, ToWriteWeaves
    <3> QED
      BY <2>4, <3>1, <3>2, <3>3
  <2> QED
    BY <1>1, <1>2, <1>3, <2>2, <2>11, ForestStepOK
<1> QED
  BY <1>4, <1>5

LEMMA WriteKeepsForest ==
  ASSUME ForestInv, WriteFolders
  PROVE  ForestInv'
<1>1. /\ run.pc = "write" /\ Running /\ UNCHANGED <<part, server, past>>
      /\ TreeInv /\ ClassesAndPlaces /\ TreeRecord(run)
  BY DEF WriteFolders, Running, ForestInv, TreeInv, TreeLocals
<1>2. TreeInv'
  BY <1>1, WriteKeepsTree
<1>3. PICK n : n = IF ByGraph THEN FolderChunk ELSE 1
  OBVIOUS
<1>4. n \in Nat
  BY <1>3, ExchangeFoldersAssumption
<1>5. PICK done : done = FoldLeft(Upserted, [rows |-> archive, known |-> run.known, ok |-> TRUE], First(run.todo, n))
  OBVIOUS
<1>6. PICK next : next = [run EXCEPT !.todo = Rest(@, n), !.known = done.known]
  OBVIOUS
<1>7. \/ run' = Over(TRUE) /\ archive' = archive
      \/ done.ok /\ archive' = done.rows /\ (run' = next \/ Swept(next, done.rows))
  BY <1>3, <1>5, <1>6, Zenon DEF WriteFolders
<1>8. next = [pc |-> "write", frontier |-> run.frontier, plan |-> run.plan, known |-> done.known,
              todo |-> Rest(run.todo, n), vanished |-> run.vanished, gone |-> run.gone,
              failed |-> run.failed]
  BY <1>1, <1>6 DEF TreeRecord
<1>9. PICK s : s = run'
  OBVIOUS
<1>10. CASE run' = Over(TRUE) /\ archive' = archive
  <2>1. s.pc = "over"
    BY <1>9, <1>10 DEF Over
  <2> QED
    BY <1>1, <1>2, <1>9, <1>10, <2>1, ForestStepOK DEF ForestInv
<1>11. CASE done.ok /\ archive' = done.rows /\ (run' = next \/ Swept(next, done.rows))
  <2>1. ASSUME ~Mixed
        PROVE  Woven(done.rows, {}, {}) /\ Weaving(next, done.rows)
    <3>1. PICK W : Writing(archive, run.known, W) /\ Waiting(run.todo, W)
      BY <1>1, <2>1 DEF ForestInv, Weaving
    <3>2. W \in SUBSET Items
      BY <3>1 DEF Writing
    <3>3. PICK V \in SUBSET Items : Writing(done.rows, done.known, V) /\ Waiting(Rest(run.todo, n), V)
      BY <1>1, <1>4, <1>5, <1>11, <2>1, <3>1, <3>2, ChunkWeaves
    <3>4. Woven(done.rows, {}, {})
      BY <3>3, LessWoven DEF Writing
    <3>5. Weaving(next, done.rows)
      BY <1>8, <3>3 DEF Weaving
    <3> QED
      BY <3>4, <3>5
  <2>2. s = next \/ s.pc = "over" \/ s.pc = "sweep"
    <3>1. CASE run' = next
      BY <1>9, <3>1
    <3>2. CASE Swept(next, done.rows)
      <4>1. CASE run' = Over(FALSE)
        BY <1>9, <4>1 DEF Over
      <4>2. CASE \E order : run' = [next EXCEPT !.pc = "sweep", !.vanished = {}, !.known = {}, !.gone = order]
        BY <1>8, <1>9, <4>2
      <4> QED
        BY <3>2, <4>1, <4>2 DEF Swept
    <3> QED
      BY <1>11, <3>1, <3>2
  <2>3. ~Mixed => Woven(done.rows, {}, {}) /\ (s.pc # "over" => Weaving(s, done.rows))
    <3>1. s.pc = "sweep" => Weaving(s, done.rows)
      BY DEF Weaving
    <3> QED
      BY <2>1, <2>2, <3>1
  <2> QED
    BY <1>1, <1>2, <1>9, <1>11, <2>3, ForestStepOK
<1> QED
  BY <1>7, <1>10, <1>11

(* The row of a folder that is gone, of which no other row is a child.     *)
LEMMA VanishKeepsForest ==
  ASSUME ForestInv, VanishFolder
  PROVE  ForestInv'
<1> DEFINE row == RowOf(Head(run.gone))
           restricted == row.table = "mailboxes" /\
                           \E r \in Mailboxes(archive) \ {row} : r.parent = row.id
           next == [run EXCEPT !.gone = Tail(@), !.failed = @ \/ restricted]
<1>1. /\ run.pc = "sweep" /\ Running /\ UNCHANGED <<part, server, past>>
      /\ TreeInv /\ TreeRecord(run)
      /\ archive' = (IF restricted THEN archive ELSE archive \ {row})
      /\ run' = (IF next.gone = <<>> THEN Over(next.failed) ELSE next)
  BY Zenon DEF VanishFolder, Running, ForestInv, TreeInv, TreeLocals
<1>2. TreeInv'
  BY <1>1, VanishKeepsTree
<1>3. PICK s : s = run'
  OBVIOUS
<1>4. s.pc = "over" \/ s.pc = "sweep"
  <2>1. next.pc = "sweep"
    <3> HIDE DEF restricted
    <3> QED
      BY <1>1 DEF TreeRecord
  <2> HIDE DEF next
  <2> QED
    BY <1>1, <1>3, <2>1 DEF Over
<1> HIDE DEF next, row
<1>5. PICK rows : rows = archive'
  OBVIOUS
<1>6. ASSUME ~Mixed PROVE Woven(rows, {}, {})
  <2>1. Woven(archive, {}, {})
    BY <1>6 DEF ForestInv
  <2>2. CASE restricted
    BY <1>1, <1>5, <2>1, <2>2
  <2>3. CASE ~restricted
    <3>1. rows = archive \ {row}
      BY <1>1, <1>5, <2>3
    <3>2. IsFiniteSet(rows) /\ rows \subseteq archive
      BY <2>1, <3>1, FS_Subset DEF Woven
    <3>3. PICK f, b : Stacked(archive, f, b)
      BY <2>1 DEF Woven
    <3>4. \A r \in Mailboxes(rows) : r \in Mailboxes(archive) /\ r # row
      BY <3>1 DEF Mailboxes, Table
    <3>5. \A r \in Mailboxes(archive) : r # row => r \in Mailboxes(rows)
      BY <3>1 DEF Mailboxes, Table
    <3>6. Stacked(rows, f, b)
      BY <3>3, <3>4 DEF Stacked
    <3>7. ASSUME NEW r \in Mailboxes(rows), r.parent # Top PROVE \E q \in Mailboxes(rows) : q.id = r.parent
      <4>1. PICK q \in Mailboxes(archive) : q.id = r.parent
        BY <2>1, <3>4, <3>7 DEF Woven
      <4>2. q # row
        <5> SUFFICES ASSUME q = row PROVE FALSE
          OBVIOUS
        <5>1. q.table = "mailboxes"
          BY DEF Mailboxes, Table
        <5> QED
          BY <2>3, <3>4, <4>1, <5>1
      <4> QED
        BY <3>5, <4>1, <4>2
    <3> QED
      BY <2>1, <3>2, <3>6, <3>7 DEF Woven
  <2> QED
    BY <2>2, <2>3
<1>7. s.pc # "over" => Weaving(s, rows)
  BY <1>4 DEF Weaving
<1> QED
  BY <1>1, <1>2, <1>3, <1>5, <1>6, <1>7, ForestStepOK

LEMMA ForestSteps == ForestInv /\ [ExchangeTreeNext]_vars => ForestInv' /\ KeptItems
<1> SUFFICES ASSUME ForestInv, [ExchangeTreeNext]_vars PROVE ForestInv' /\ KeptItems
  OBVIOUS
<1>1. TreeInv' /\ KeptItems
  BY TreeSteps DEF ForestInv
<1>2. CASE \E i \in Items, p \in {Top} \union Items, n \in FolderNames : NewFolder(i, p, n) \/ MoveFolder(i, p, n)
  BY <1>1, <1>2, ServerMovesForest
<1>3. CASE \E i \in Items : DeleteFolder(i)
  BY <1>1, <1>3, ServerMovesForest
<1>4. CASE TreeStart \/ ListTreeFails \/ TreeCrash
  BY <1>1, <1>4, StartKeepsForest
<1>5. CASE FindFolders \/ \E p \in Frontier : ListChildren(p)
  BY <1>1, <1>5, ListingKeepsForest
<1>6. CASE WriteFolders
  BY <1>1, <1>6, WriteKeepsForest
<1>7. CASE VanishFolder
  BY <1>1, <1>7, VanishKeepsForest
<1>8. CASE UNCHANGED vars
  <2>1. UNCHANGED <<part, server, archive, run, past>>
    BY <1>8 DEF vars
  <2>2. server'.class = server.class /\ server.had \subseteq server'.had
    BY <2>1
  <2>3. ClassesAndPlaces'
    BY <2>1 DEF ForestInv, ClassesAndPlaces, Entry
  <2> QED
    BY <1>1, <2>1, <2>2, <2>3, ServerKeepsForest
<1> QED
  BY <1>2, <1>3, <1>4, <1>5, <1>6, <1>7, <1>8 DEF ExchangeTreeNext, ExchangeTreeRun

(* Rows that have ranks are a tree.                                        *)
LEMMA ForestIsRooted == ForestInv => RowsAreTrees
<1> SUFFICES ASSUME ForestInv PROVE RowsAreTrees
  OBVIOUS
<1>1. IsExchangeTree /\ ~IsDrive
  <2>1. IsDrive => ~IsExchangeTree
    BY Zenon DEF IsDrive, IsExchangeTree, ExchangeTrees
  <2> QED
    BY <2>1 DEF ForestInv, TreeInv
<1> DEFINE Upward(i) == IF \E r \in Mailboxes(archive) : r.item = i THEN ParentOf(RowOf(i)) ELSE Top
           parent == [i \in Items |-> Upward(i)]
<1>2. ASSUME ~Mixed, NEW r \in Mailboxes(archive)
      PROVE  \E j \in Lineage(parent, r.item) : parent[j] = Top
  <2>1. Woven(archive, {}, {})
    BY <1>2 DEF ForestInv
  <2>2. PICK f, b : Stacked(archive, f, b)
    BY <2>1 DEF Woven
  <2>3. ASSUME NEW i \in Items
        PROVE  Upward(i) = Top \/ (Upward(i) \in Items /\ f[Upward(i)] < f[i])
    <3>1. CASE ~\E q \in Mailboxes(archive) : q.item = i
      BY <3>1
    <3>2. CASE \E q \in Mailboxes(archive) : q.item = i
      <4>1. PICK q \in Mailboxes(archive) : q.item = i
        BY <3>2
      <4>2. q \in archive
        BY <4>1 DEF Mailboxes, Table
      <4>3. RowOf(i) = q
        <5>1. \A x \in archive : x.item = i => x = q
          BY <2>1, <4>1, <4>2 DEF Woven
        <5> QED
          BY <4>1, <4>2, <5>1 DEF RowOf
      <4>4. Upward(i) = ParentOf(q)
        BY <3>2, <4>3
      <4>5. CASE q.parent = Top
        BY <4>4, <4>5 DEF ParentOf
      <4>6. CASE q.parent # Top
        <5>1. \E p \in Mailboxes(archive) : p.id = q.parent
          BY <2>1, <4>6 DEF Woven
        <5>2. PICK p \in Mailboxes(archive) : p.id = q.parent /\ ParentOf(q) = p.item
          BY <4>6, <5>1 DEF ParentOf
        <5>3. p.item \in Items
          BY <2>1 DEF Woven, Mailboxes, Table
        <5>4. f[p.item] < f[q.item]
          BY <2>2, <5>2 DEF Stacked
        <5> QED
          BY <4>1, <4>4, <5>2, <5>3, <5>4
      <4> QED
        BY <4>5, <4>6
    <3> QED
      BY <3>1, <3>2
  <2>4. r.item \in Items
    BY <2>1 DEF Woven, Mailboxes, Table
  <2>5. f \in [Items -> Nat]
    BY <2>2 DEF Stacked
  <2> HIDE DEF Upward
  <2>6. parent \in [Items -> {Top} \union Items]
    BY <2>3
  <2>7. \A j \in Items : parent[j] # Top => f[parent[j]] < f[j]
    BY <2>3
  <2> HIDE DEF parent
  <2> QED
    BY <2>4, <2>5, <2>6, <2>7, RankedRooted DEF RootedAt
<1>3. Rooted
  BY <1>2 DEF Rooted
<1> QED
  BY <1>1, <1>3 DEF RowsAreTrees, DriveRooted

-----------------------------------------------------------------------------
(* All the importers together: a behaviour is about one of them for good,  *)
(* as `part' never changes and each step asks what it is.                  *)
LEMMA EachIsItsOwn ==
  /\ (EwsNext => IsEws) /\ (GraphNext => IsGraph) /\ (DavNext => IsDav)
  /\ (MaildirNext => IsMaildir) /\ (SieveNext => IsSieve) /\ (TakeoutNext => IsTakeout)
  /\ (ExchangeTreeNext => IsExchangeTree) /\ (PathTreeNext => IsPathTree)
  /\ (JmapTreeNext => IsJmapTree) /\ (DriveNext => IsDrive) /\ (SourcesNext => IsSources)
<1>1. EwsNext => IsEws
  BY DEF EwsNext, EwsRun, EwsLeave, EwsAlter, EwsArrive, EwsStart, Find, ApplyWhole, GetItem, Vanish,
    RequestFails, ApplyPart, Apply, ItemFails, NoContent, EwsCrash, BatchFails, VanishFails
<1>2. GraphNext => IsGraph
  BY DEF GraphNext, GraphRun, GraphStart, List, StoreChunk, DeleteVanished, FetchMime, FetchJson, FetchVanished,
    GraphArrive, GraphAlter, GraphLeave, DeleteFails, ListFails, GraphCrash, FetchFails
<1>3. DavNext => IsDav
  BY DEF DavNext, DavRun, DavStart, Propfind, Multiget, GetOne, GetGone, DeleteItem, DavArrive, DavLeave, DavAlter,
    PropfindFails, DeleteItemFails, DavCrash, MultigetRefused, MultigetFails, GetFails
<1>4. MaildirNext => IsMaildir
  BY DEF MaildirNext, MaildirRun, MaildirStart, Scan, ApplyFolder, Changes, MaildirArrive, MaildirLeave,
    MaildirAlter, ScanFails, ScanOverlooks, DirectoryOverlooked, MaildirCrash
<1>5. SieveNext => IsSieve
  BY DEF SieveNext, SieveRun, SieveStart, ListScripts, GetScript, WriteScript, Assign, DeleteScript, SieveArrive,
    SieveLeave, SieveAlter, SetActive, GetScriptFails, WriteFails, SieveCrash, DeleteScriptFails
<1>6. TakeoutNext => IsTakeout
  BY DEF TakeoutNext, TakeoutRun, TakeoutStart, ProcessFile, TakeoutArrive, TakeoutLeave, TakeoutAlter, ReadFails,
    TakeoutCrash, EntryFails, FilesOverlooked, Rearranged
<1>7. ExchangeTreeNext => IsExchangeTree
  BY DEF ExchangeTreeNext, ExchangeTreeRun, TreeStart, FindFolders, WriteFolders, VanishFolder, ListChildren,
    NewFolder, MoveFolder, DeleteFolder, ListTreeFails, TreeCrash
<1>8. PathTreeNext => IsPathTree
  BY DEF PathTreeNext, PathTreeRun, PathStart, ListPaths, UpsertPaths, DeletePaths, FillPath, CreatePath, DeletePath,
    ListPathsFails, PathCrash, FillPathFails
<1>9. JmapTreeNext => IsJmapTree
  BY DEF JmapTreeNext, JmapTreeRun, JmapTreeStart, QueryPage, GetState, GetChunk, InsertMailboxes, SweepMailboxes,
    GetChanges, UpdateMailboxes, AdvanceState, CreateMailbox, MoveMailbox, DestroyMailbox, GiveRole, GetChunkFails,
    CallFails, CannotCalculate, JmapTreeCrash
<1>10. DriveNext => IsDrive
  BY DEF DriveNext, DriveRun, DriveStart, DriveRoot, DriveChildren, WriteDirectory, DownloadFile, FileGone, VanishNode,
    NewNode, MoveNode, EditFile, DeleteNode, DriveUnavailable, DriveListFails, DriveCrash, DownloadFails
<1>11. SourcesNext => IsSources
  BY DEF SourcesNext, SourcesRun, OpenArchive, CheckSource, RemoveOtherSources, UpsertSource, ReconcileContainers,
    ReconcileItems, StoreItems, CollectGarbage, ServerChanges, CollectFails, PhaseFails, SourcesCrash, RunAt
<1> QED
  BY <1>1, <1>2, <1>3, <1>4, <1>5, <1>6, <1>7, <1>8, <1>9, <1>10, <1>11

(* The steps are those of one importer.                                    *)
LEMMA OneAtATime ==
  ASSUME [Next]_vars
  PROVE  /\ (IsEws => [EwsNext]_vars) /\ (IsGraph => [GraphNext]_vars) /\ (IsDav => [DavNext]_vars)
         /\ (IsMaildir => [MaildirNext]_vars) /\ (IsSieve => [SieveNext]_vars)
         /\ (IsTakeout => [TakeoutNext]_vars) /\ (IsExchangeTree => [ExchangeTreeNext]_vars)
         /\ (IsPathTree => [PathTreeNext]_vars) /\ (IsJmapTree => [JmapTreeNext]_vars)
         /\ (IsDrive => [DriveNext]_vars) /\ (IsSources => [SourcesNext]_vars)
BY EachIsItsOwn DEF Next, IsEws, EwsKinds, IsGraph, GraphKinds, IsDav, DavKinds, IsMaildir, IsSieve,
   IsTakeout, TakeoutKinds, IsExchangeTree, ExchangeTrees, IsPathTree, PathTrees, IsJmapTree, IsDrive, IsSources

RerunsInv ==
  \/ EwsInv \/ GraphInv \/ DavInv \/ MaildirInv \/ SieveInv \/ TakeoutInv
  \/ ForestInv \/ PathInv \/ JmapInv \/ DriveInv \/ SourcesInv

LEMMA RerunsAtFirst == Init => RerunsInv
BY EwsAtFirst, GraphAtFirst, DavAtFirst, MaildirAtFirst, SieveAtFirst, TakeoutAtFirst, ForestAtFirst,
   PathAtFirst, JmapAtFirst, DriveAtFirst, SourcesAtFirst DEF Init, RerunsInv

LEMMA RerunsSteps == RerunsInv /\ [Next]_vars => RerunsInv' /\ KeptItems
<1> SUFFICES ASSUME RerunsInv, [Next]_vars PROVE RerunsInv' /\ KeptItems
  OBVIOUS
<1>1. CASE EwsInv
  BY <1>1, OneAtATime, EwsSteps DEF EwsInv, RerunsInv
<1>2. CASE GraphInv
  BY <1>2, OneAtATime, GraphSteps DEF GraphInv, RerunsInv
<1>3. CASE DavInv
  BY <1>3, OneAtATime, DavSteps DEF DavInv, RerunsInv
<1>4. CASE MaildirInv
  BY <1>4, OneAtATime, MaildirSteps DEF MaildirInv, RerunsInv
<1>5. CASE SieveInv
  BY <1>5, OneAtATime, SieveSteps DEF SieveInv, RerunsInv
<1>6. CASE TakeoutInv
  BY <1>6, OneAtATime, TakeoutSteps DEF TakeoutInv, RerunsInv
<1>7. CASE ForestInv
  BY <1>7, OneAtATime, ForestSteps DEF ForestInv, TreeInv, RerunsInv
<1>8. CASE PathInv
  BY <1>8, OneAtATime, PathSteps DEF PathInv, RerunsInv
<1>9. CASE JmapInv
  BY <1>9, OneAtATime, JmapSteps DEF JmapInv, RerunsInv
<1>10. CASE DriveInv
  BY <1>10, OneAtATime, DriveSteps DEF DriveInv, RerunsInv
<1>11. CASE SourcesInv
  BY <1>11, OneAtATime, StepKeepsSources, StutterKeepsSources
    DEF SourcesInv, SourcesTyped, KeptOfSources, KeptItems, Excused, RerunsInv
<1> QED
  BY <1>1, <1>2, <1>3, <1>4, <1>5, <1>6, <1>7, <1>8, <1>9, <1>10, <1>11 DEF RerunsInv

(* Whichever importer runs, and however often it is stopped and run again, *)
(* while the server changes: no step takes a row from the archive but of   *)
(* what the server lacked at some time of the run, or what its listing     *)
(* could not see.                                                          *)
THEOREM ImportsKeep == Spec => KeptWhileThere
<1>1. KeptItems => [ItemsOf(archive) \ ItemsOf(archive') \subseteq past.missed \union past.unseen]_vars
  BY DEF KeptItems, Excused
<1> QED
  BY <1>1, RerunsAtFirst, RerunsSteps, PTL DEF Spec, KeptWhileThere

(* However folders, files and directories move while one runs, wherever a  *)
(* run stops, and whatever the archive refuses: the folders of EWS and of  *)
(* Graph, and the files of a drive, stay a tree in the archive; none is    *)
(* written under one that is, or comes to be, below it.  (Not the mail     *)
(* folders of an account where one has been in a calendar.)                *)
THEOREM TreesStay == Spec => []RowsAreTrees
<1>1. RerunsInv => RowsAreTrees
  <2>1. ASSUME \/ EwsInv \/ GraphInv \/ DavInv \/ MaildirInv \/ SieveInv \/ TakeoutInv
               \/ PathInv \/ JmapInv \/ SourcesInv
        PROVE  ~IsExchangeTree /\ ~IsDrive
    BY <2>1, Zenon DEF EwsInv, GraphInv, DavInv, MaildirInv, SieveInv, TakeoutInv, PathInv, JmapInv, SourcesInv,
       SourcesTyped, IsEws, EwsKinds, IsGraph, GraphKinds, IsDav, DavKinds, IsMaildir, IsSieve, IsTakeout,
       TakeoutKinds, IsPathTree, PathTrees, IsJmapTree, IsSources, IsExchangeTree, ExchangeTrees, IsDrive
  <2>2. ~IsExchangeTree /\ ~IsDrive => RowsAreTrees
    BY DEF RowsAreTrees, Rooted, DriveRooted
  <2> QED
    BY <2>1, <2>2, ForestIsRooted, DriveIsRooted DEF RerunsInv
<1> QED
  BY <1>1, RerunsAtFirst, RerunsSteps, PTL DEF Spec
=============================================================================
