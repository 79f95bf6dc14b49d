------------------------- MODULE EmailExport_proofs -------------------------
(***************************************************************************)
(* The exporter's emails, for any archive, target, limits and faults: what *)
(* is counted is true, and nothing is imported twice (EmailExport).        *)
(***************************************************************************)
EXTENDS EmailExport, FiniteSetTheorems, SequenceTheorems, WellFoundedInduction, TLAPS

-----------------------------------------------------------------------------
(* Sets of natural numbers: a first one, a last one, an order.             *)

(* The numbers are well founded.                                           *)
LEMMA Less ==
  \E R : IsWellFoundedOn(R, Nat) /\ \A k \in Nat, m \in Nat : <<k, m>> \in R <=> k < m
<1> DEFINE R == OpToRel(<, Nat)
<1>1. IsWellFoundedOn(R, Nat)
  BY NatLessThanWellFounded, Zenon
<1>2. \A k \in Nat, m \in Nat : <<k, m>> \in R <=> k < m
  BY Zenon DEF OpToRel
<1> HIDE DEF R
<1> QED
  BY <1>1, <1>2, Zenon

(* Some numbers have a smallest one.                                       *)
LEMMA Smallest ==
  ASSUME NEW S \in SUBSET Nat, S # {}
  PROVE  \E m \in S : \A k \in S : m <= k
<1>1. PICK R : IsWellFoundedOn(R, Nat) /\ \A k \in Nat, m \in Nat : <<k, m>> \in R <=> k < m
  BY Less
<1>2. IsWellFoundedOn(R, Nat) /\ S \subseteq Nat
  BY <1>1
<1>3. PICK m \in S : \A k \in S : ~ (<<k, m>> \in R)
  BY <1>2, WFMin, Zenon
<1>4. \A k \in S : k \in Nat /\ m \in Nat /\ ~(k < m)
  BY <1>1, <1>3
<1> QED
  BY <1>4

(* Finitely many numbers have a largest one.                               *)
LEMMA Largest ==
  ASSUME NEW S \in SUBSET Nat, S # {}, IsFiniteSet(S)
  PROVE  \E m \in S : \A k \in S : k <= m
<1> DEFINE Bounded(T) == \E m \in T : \A k \in T : k <= m
           Bad == {n \in Nat : \E T \in SUBSET Nat :
                                  T # {} /\ IsFiniteSet(T) /\ Cardinality(T) = n /\ ~Bounded(T)}
<1>1. SUFFICES ASSUME ~Bounded(S)
               PROVE  FALSE
  OBVIOUS
<1>2. Cardinality(S) \in Bad
  BY <1>1, FS_CardinalityType
<1>3. Bad \in SUBSET Nat /\ Bad # {}
  BY <1>2
<1>4. PICK n \in Bad : \A k \in Bad : n <= k
  <2> HIDE DEF Bad
  <2> QED
    BY <1>3, Smallest
<1>5. PICK T \in SUBSET Nat : T # {} /\ IsFiniteSet(T) /\ Cardinality(T) = n /\ ~Bounded(T)
  BY <1>4
<1>6. PICK x \in T : TRUE
  BY <1>5
<1> DEFINE U == T \ {x}
<1>7. IsFiniteSet(U) /\ Cardinality(U) = n - 1 /\ Cardinality(U) \in Nat /\ U \in SUBSET Nat
  BY <1>5, <1>6, FS_RemoveElement, FS_CardinalityType
<1>8. n \in Nat /\ n - 1 \in Nat /\ ~(n <= n - 1)
  BY <1>4, <1>7
<1>9. n - 1 \notin Bad
  <2> HIDE DEF Bad
  <2> QED
    BY <1>4, <1>8
<1>10. CASE U = {}
  <2>1. \A k \in T : k = x /\ k \in Nat
    BY <1>10
  <2> QED
    BY <1>5, <1>6, <2>1
<1>11. CASE U # {}
  <2>1. PICK y \in U : \A k \in U : k <= y
    BY <1>7, <1>8, <1>9, <1>11
  <2>2. x \in Nat /\ y \in Nat /\ y \in T /\ \A k \in T : k \in Nat /\ (k = x \/ k <= y)
    BY <1>5, <1>6, <2>1
  <2>3. CASE x <= y
    BY <1>5, <2>2, <2>3
  <2>4. CASE y <= x
    BY <1>5, <1>6, <2>2, <2>4
  <2> QED
    BY <2>2, <2>3, <2>4
<1> QED
  BY <1>10, <1>11

Ascending(s) == \A j, k \in DOMAIN s : j < k => s[j] < s[k]

(* Finitely many numbers can be put in order.                              *)
LEMMA OrderExists ==
  ASSUME NEW S \in SUBSET Nat, IsFiniteSet(S)
  PROVE  \E s \in [1..Cardinality(S) -> S] : Ascending(s)
<1> DEFINE Ordered(T) == \E s \in [1..Cardinality(T) -> T] : Ascending(s)
           Bad == {n \in Nat : \E T \in SUBSET Nat : IsFiniteSet(T) /\ Cardinality(T) = n /\ ~Ordered(T)}
<1>1. SUFFICES ASSUME ~Ordered(S)
               PROVE  FALSE
  OBVIOUS
<1>2. Cardinality(S) \in Bad
  BY <1>1, FS_CardinalityType
<1>3. Bad \in SUBSET Nat /\ Bad # {}
  BY <1>2
<1>4. PICK n \in Bad : \A k \in Bad : n <= k
  <2> HIDE DEF Bad
  <2> QED
    BY <1>3, Smallest
<1>5. PICK T \in SUBSET Nat : IsFiniteSet(T) /\ Cardinality(T) = n /\ ~Ordered(T)
  BY <1>4
<1>6. T # {}
  <2>1. SUFFICES ASSUME T = {}
                 PROVE  Ordered(T)
    BY <1>5
  <2>2. Cardinality(T) = 0
    BY <2>1, FS_EmptySet
  <2> DEFINE s == [i \in 1..0 |-> 0]
  <2>3. s \in [1..Cardinality(T) -> T] /\ Ascending(s)
    BY <2>2 DEF Ascending
  <2> QED
    BY <2>3
<1>7. PICK x \in T : \A k \in T : k <= x
  BY <1>5, <1>6, Largest
<1> DEFINE U == T \ {x}
<1>8. IsFiniteSet(U) /\ Cardinality(U) = n - 1 /\ U \in SUBSET Nat /\ n \in Nat /\ n - 1 \in Nat
  <2>1. IsFiniteSet(U) /\ Cardinality(U) = n - 1 /\ Cardinality(U) \in Nat
    BY <1>5, <1>7, FS_RemoveElement, FS_CardinalityType
  <2> QED
    BY <1>4, <2>1
<1>9. Ordered(U)
  <2>1. n - 1 \notin Bad
    <3>1. ~(n <= n - 1)
      BY <1>8
    <3> HIDE DEF Bad
    <3> QED
      BY <1>4, <3>1
  <2> QED
    BY <1>8, <2>1
<1>10. PICK s \in [1..(n - 1) -> U] : Ascending(s)
  BY <1>8, <1>9
<1> DEFINE t == [i \in 1..n |-> IF i = n THEN x ELSE s[i]]
<1>11. t \in [1..n -> T]
  BY <1>8, <1>7
<1>12. \A k \in U : k < x
  BY <1>7
<1>13. Ascending(t)
  <2>1. DOMAIN s = 1..(n - 1) /\ DOMAIN t = 1..n
    BY <1>10
  <2>2. ASSUME NEW j \in 1..n, NEW k \in 1..n, j < k
        PROVE  t[j] < t[k]
    <3>1. j \in 1..(n - 1) /\ t[j] = s[j] /\ s[j] \in U
      BY <1>8, <1>10, <2>2
    <3>2. CASE k = n
      BY <1>12, <3>1, <3>2
    <3>3. CASE k # n
      <4>1. k \in 1..(n - 1) /\ t[k] = s[k]
        BY <1>8, <3>3
      <4> QED
        BY <1>10, <2>1, <2>2, <3>1, <4>1 DEF Ascending
    <3> QED
      BY <3>2, <3>3
  <2> HIDE DEF t
  <2> QED
    BY <2>1, <2>2 DEF Ascending
<1>14. Ordered(T)
  BY <1>5, <1>11, <1>13
<1> QED
  BY <1>5, <1>14

(* What InOrder yields: each of them once.                                 *)
LEMMA InOrderLists ==
  ASSUME NEW S \in SUBSET Emails
  PROVE  /\ InOrder(S) \in Seq(S) /\ Len(InOrder(S)) = Cardinality(S) /\ Cardinality(S) \in Nat
         /\ \A j, k \in DOMAIN InOrder(S) : InOrder(S)[j] = InOrder(S)[k] => j = k
         /\ ToSet(InOrder(S)) = S
<1>1. IsFiniteSet(S) /\ S \in SUBSET Nat /\ Cardinality(S) \in Nat
  <2>1. IsFiniteSet(Emails) /\ Emails \subseteq Nat
    BY FS_Interval, EmailsAssumption DEF Emails
  <2> QED
    BY <2>1, FS_Subset, FS_CardinalityType
<1> DEFINE s == InOrder(S)
           n == Cardinality(S)
<1>2. s \in [1..n -> S] /\ Ascending(s)
  BY <1>1, OrderExists DEF InOrder, Ascending
<1> HIDE DEF s
<1>3. \A j, k \in 1..n : s[j] = s[k] => j = k
  <2>1. \A j, k \in 1..n : j < k => s[j] < s[k]
    BY <1>2 DEF Ascending
  <2>2. \A j \in 1..n : s[j] \in Nat
    BY <1>1, <1>2
  <2> QED
    BY <1>1, <2>1, <2>2
<1>4. ASSUME NEW e \in S, \A j \in 1..n : s[j] # e
      PROVE  FALSE
  <2>1. IsFiniteSet(1..n) /\ Cardinality(1..n) = n
    BY <1>1, FS_Interval
  <2>2. IsFiniteSet(S \ {e}) /\ Cardinality(S \ {e}) = n - 1
    BY <1>1, FS_RemoveElement
  <2>3. s \in [1..n -> S \ {e}]
    BY <1>2, <1>4
  <2> DEFINE A == 1..n
             B == S \ {e}
  <2>4. /\ IsFiniteSet(A) /\ IsFiniteSet(B) /\ Cardinality(B) < Cardinality(A) /\ s \in [A -> B]
    BY <1>1, <2>1, <2>2, <2>3
  <2> HIDE DEF A, B
  <2>5. \E j, k \in A : j # k /\ s[j] = s[k]
    BY <2>4, FS_PigeonHole
  <2> QED
    BY <1>3, <2>5 DEF A
<1>5. s \in Seq(S) /\ Len(s) = n /\ DOMAIN s = 1..n
  BY <1>1, <1>2
<1>6. ToSet(s) = S
  BY <1>2, <1>4 DEF ToSet
<1> QED
  BY <1>1, <1>3, <1>5, <1>6 DEF s

-----------------------------------------------------------------------------
(* The invariant.  An email that this run has not accounted for is in one  *)
(* place, nothing is counted of it, and it is not on the target but by an  *)
(* answer that was lost; the requests to send are the rest of `ready', cut *)
(* into pieces.                                                            *)

Outcome == {"created", "skipped", "failed"}
Sent == ToSet(ready)
Unsettled == rest \union head \union Sent \union retry \union again

Typed ==
  /\ copies \in [Emails -> Nat] /\ lost \in Nat /\ pc \in Phases
  /\ rest \subseteq Emails /\ head \subseteq Emails /\ retry \subseteq Emails /\ again \subseteq Emails
  /\ ready \in Seq(Emails) /\ results \in Seq(ItemOutcomes) /\ Len(results) <= Len(ready)
  /\ parts \in Seq(Seq(Emails)) /\ counted \in [Emails -> Seq(Outcome)]
Apart ==
  /\ \A j, k \in DOMAIN ready : ready[j] = ready[k] => j = k
  /\ rest \intersect (head \union Sent \union retry \union again) = {}
  /\ retry \intersect (head \union Sent \union again) = {}
  /\ again \intersect (head \union Sent) = {}
Phased ==
  /\ pc \in {"idle", "done"} => rest = {}
  /\ pc \in {"idle", "done", "chunk"} => retry = {} /\ again = {}
  /\ pc # "upload" => head = {}
  /\ pc # "send" => ready = <<>> /\ results = <<>> /\ parts = <<>>
Told ==
  \A e \in Emails : IF pc = "idle" \/ e \in Unsettled THEN counted[e] = <<>> ELSE Len(counted[e]) = 1
Untold(j) == j > Len(results) \/ results[j] \notin {"created", "skipped"}
Untaken ==
  /\ \A e \in rest \union head \union retry \union again : copies[e] <= lost
  /\ \A j \in DOMAIN ready : Untold(j) => copies[ready[j]] <= lost
ResultsTrue ==
  \A j \in DOMAIN results :
    /\ results[j] = "created" => OnTarget(ready[j])
    /\ results[j] = "skipped" => BlobOnTarget(Blob[ready[j]])
CutAt(cut, ps, n, s) ==
  /\ cut \in [0..Len(ps) -> 0..Len(s)]
  /\ cut[0] = n /\ cut[Len(ps)] = Len(s)
  /\ \A k \in 1..Len(ps) :
       /\ cut[k - 1] < cut[k] /\ Len(ps[k]) = cut[k] - cut[k - 1]
       /\ \A i \in 1..Len(ps[k]) : ps[k][i] = s[cut[k - 1] + i]
Cut == \E cut : CutAt(cut, parts, Len(results), ready)
Justified(e, as) ==
  /\ as = "created" => OnTarget(e)
  /\ as = "skipped" => KeyOnTarget(Key[e]) \/ BlobOnTarget(Blob[e])
  /\ as = "failed" => (lost = 0 => ~OnTarget(e))
CountedTrue == \A e \in Emails : \A i \in DOMAIN counted[e] : Justified(e, counted[e][i])

IInv ==
  /\ Typed /\ Apart /\ Phased /\ Told /\ Untaken /\ ResultsTrue /\ Cut /\ CountedTrue
  /\ NoDuplicates

(* A sequence of one.                                                      *)
LEMMA OneIs ==
  ASSUME NEW C, NEW c \in C
  PROVE  <<c>> \in Seq(C) /\ Len(<<c>>) = 1 /\ <<c>>[1] = c /\ DOMAIN <<c>> = 1..1
<1>1. <<c>> \in Seq(C)
  OBVIOUS
<1> QED
  BY <1>1

(* Emails that were not counted yet are counted.                           *)
LEMMA CountedNow ==
  ASSUME Typed, NEW S \in SUBSET Emails, \A e \in S : counted[e] = <<>>, NEW as \in Outcome
  PROVE  /\ Counts(S, as) \in [Emails -> Seq(Outcome)]
         /\ \A e \in S : Counts(S, as)[e] = <<as>>
         /\ \A e \in Emails \ S : Counts(S, as)[e] = counted[e]
<1>1. counted \in [Emails -> Seq(Outcome)]
  BY DEF Typed
<1>2. Append(<<>>, as) = <<as>> /\ <<as>> \in Seq(Outcome)
  <2>1. <<as>> \in Seq(Outcome)
    BY OneIs
  <2>2. <<>> \in Seq(Outcome)
    BY EmptySeq
  <2> QED
    BY <2>1, <2>2, AppendIsConcat, ConcatEmptySeq
<1>3. \A e \in S : Append(counted[e], as) = <<as>>
  BY <1>2
<1>4. Counts(S, as) = [e \in Emails |-> IF e \in S THEN <<as>> ELSE counted[e]]
  BY <1>3 DEF Counts
<1> QED
  BY <1>1, <1>2, <1>4

(* The beginning and the rest of a sequence.                               *)
LEMMA TakeIs ==
  ASSUME NEW S, NEW s \in Seq(S), NEW n \in Nat, n <= Len(s)
  PROVE  /\ Take(s, n) \in Seq(S) /\ Len(Take(s, n)) = n
         /\ \A i \in 1..n : Take(s, n)[i] = s[i]
<1>1. Take(s, n) = SubSeq(s, 1, n)
  BY DEF Take
<1>2. Len(s) \in Nat /\ \A i \in 1..n : s[i] \in S
  BY LenProperties
<1> QED
  BY <1>1, <1>2, SubSeqProperties

(* What follows the first n of a sequence.                                 *)
LEMMA SkipIs ==
  ASSUME NEW S, NEW s \in Seq(S), NEW n \in Nat, n <= Len(s)
  PROVE  /\ Skip(s, n) \in Seq(S) /\ Len(Skip(s, n)) = Len(s) - n
         /\ \A i \in 1..(Len(s) - n) : Skip(s, n)[i] = s[n + i]
<1>1. Skip(s, n) = SubSeq(s, n + 1, Len(s))
  BY DEF Skip
<1>2. Len(s) \in Nat /\ \A i \in (n + 1)..Len(s) : s[i] \in S
  BY LenProperties
<1>3. /\ SubSeq(s, n + 1, Len(s)) \in Seq(S)
      /\ Len(SubSeq(s, n + 1, Len(s))) = (IF n + 1 <= Len(s) THEN Len(s) - (n + 1) + 1 ELSE 0)
      /\ \A i \in 1 .. Len(s) - (n + 1) + 1 : SubSeq(s, n + 1, Len(s))[i] = s[n + 1 + i - 1]
  BY <1>2, SubSeqProperties
<1>4. Len(s) - (n + 1) + 1 = Len(s) - n /\ \A i \in 1..(Len(s) - n) : n + 1 + i - 1 = n + i
  BY <1>2
<1> QED
  BY <1>1, <1>2, <1>3, <1>4

(* The first of some emails are some of them.                              *)
LEMMA LowestIs == \A S, n : Lowest(S, n) \subseteq S
  BY DEF Lowest

(* Nothing about the target changes.                                       *)
LEMMA SameTarget ==
  ASSUME UNCHANGED <<copies, lost>>
  PROVE  /\ \A e : OnTarget(e)' <=> OnTarget(e)
         /\ \A e, as : Justified(e, as)' <=> Justified(e, as)
         /\ \A b : BlobOnTarget(b)' <=> BlobOnTarget(b)
         /\ NoDuplicates' <=> NoDuplicates
  BY DEF OnTarget, Justified, BlobOnTarget, KeyOnTarget, NoDuplicates

-----------------------------------------------------------------------------
(* The chunks.                                                             *)

(* Where no request is under way.                                          *)
LEMMA Between ==
  ASSUME IInv, pc # "send"
  PROVE  ready = <<>> /\ results = <<>> /\ parts = <<>> /\ Sent = {}
  BY DEF IInv, Phased, Sent, ToSet

(* Nothing is sent before or after the step.                               *)
LEMMA StillBetween ==
  ASSUME IInv, pc # "send", UNCHANGED <<ready, results, parts>>, UNCHANGED <<copies, lost>>
  PROVE  /\ Sent' = {} /\ ResultsTrue' /\ Cut' /\ NoDuplicates'
         /\ \A j \in DOMAIN ready' : Untold(j)' => copies'[ready'[j]] <= lost'
         /\ \A j, k \in DOMAIN ready' : ready'[j] = ready'[k] => j = k
<1>1. ready = <<>> /\ results = <<>> /\ parts = <<>> /\ Sent = {}
  BY Between
<1>2. NoDuplicates'
  BY SameTarget DEF IInv
<1>3. Cut'
  BY DEF IInv, Cut
<1> QED
  BY <1>1, <1>2, <1>3 DEF Sent, ToSet, ResultsTrue

(* A run begins: what is on the target by its key is skipped.              *)
LEMMA ReconcileKeeps ==
  ASSUME IInv, Reconcile
  PROVE  IInv'
<1> DEFINE matched == {e \in Emails : Matched(e)}
<1>1. /\ pc \in {"idle", "done"} /\ pc' = "chunk" /\ rest' = Emails \ matched
      /\ counted' = [e \in Emails |-> IF e \in matched THEN <<"skipped">> ELSE <<>>]
      /\ UNCHANGED <<copies, lost, head, retry, again>> /\ UNCHANGED <<ready, results, parts>>
  BY DEF Reconcile, targetVars, importVars
<1>2. /\ Sent' = {} /\ ResultsTrue' /\ Cut' /\ NoDuplicates'
      /\ \A j \in DOMAIN ready' : Untold(j)' => copies'[ready'[j]] <= lost'
      /\ \A j, k \in DOMAIN ready' : ready'[j] = ready'[k] => j = k
  BY <1>1, StillBetween
<1>3. head = {} /\ retry = {} /\ again = {} /\ ready = <<>> /\ results = <<>> /\ parts = <<>>
  BY <1>1 DEF IInv, Phased
<1>4. <<"skipped">> \in Seq(Outcome) /\ <<>> \in Seq(Outcome) /\ Len(<<"skipped">>) = 1
      /\ DOMAIN <<"skipped">> = 1..1 /\ <<"skipped">>[1] = "skipped"
  BY OneIs, EmptySeq DEF Outcome
<1>5. Typed'
  BY <1>1, <1>3, <1>4 DEF IInv, Typed, Phases
<1>6. Apart' /\ Phased'
  BY <1>1, <1>2, <1>3 DEF Apart, Phased
<1>7. Told'
  BY <1>1, <1>2, <1>3, <1>4 DEF Told, Unsettled
<1>8. Untaken'
  <2>1. \A e \in Emails \ matched : copies[e] = 0
    BY DEF Matched, KeyOnTarget, OnTarget, IInv, Typed
  <2> QED
    BY <1>1, <1>2, <1>3, <2>1 DEF Untaken, IInv, Typed
<1>9. CountedTrue'
  <2>1. \A e \in matched : KeyOnTarget(Key[e])'
    BY <1>1 DEF Matched, KeyOnTarget, OnTarget
  <2> QED
    BY <1>1, <1>4, <2>1 DEF CountedTrue, Justified
<1> QED
  BY <1>2, <1>5, <1>6, <1>7, <1>8, <1>9 DEF IInv

(* A chunk: what has no mailbox on the target fails.                       *)
LEMMA ExportChunkKeeps ==
  ASSUME IInv, ExportChunk
  PROVE  IInv'
<1> DEFINE chunk == Lowest(rest, batch)
           gone == chunk \intersect target.homeless
<1>1. /\ pc = "chunk" /\ pc' = "upload" /\ rest' = rest \ chunk /\ head' = chunk \ target.homeless
      /\ counted' = Counts(gone, "failed")
      /\ UNCHANGED <<copies, lost, retry, again>> /\ UNCHANGED <<ready, results, parts>>
  BY DEF ExportChunk, targetVars
<1>2. /\ Sent' = {} /\ ResultsTrue' /\ Cut' /\ NoDuplicates'
      /\ \A j \in DOMAIN ready' : Untold(j)' => copies'[ready'[j]] <= lost'
      /\ \A j, k \in DOMAIN ready' : ready'[j] = ready'[k] => j = k
  BY <1>1, StillBetween
<1>3. head = {} /\ retry = {} /\ again = {} /\ ready = <<>> /\ results = <<>> /\ parts = <<>> /\ Sent = {}
  BY <1>1, Between DEF IInv, Phased
<1>4. chunk \subseteq rest /\ rest \subseteq Emails
  BY LowestIs DEF IInv, Typed
<1> HIDE DEF chunk
<1>5. \A e \in rest : counted[e] = <<>> /\ copies[e] <= lost
  BY <1>1, <1>4 DEF IInv, Told, Unsettled, Untaken
<1>6. /\ counted' \in [Emails -> Seq(Outcome)]
      /\ \A e \in gone : counted'[e] = <<"failed">>
      /\ \A e \in Emails \ gone : counted'[e] = counted[e]
  <2>1. gone \in SUBSET Emails /\ \A e \in gone : counted[e] = <<>>
    BY <1>4, <1>5
  <2>2. Typed /\ "failed" \in Outcome
    BY DEF IInv, Outcome
  <2> HIDE DEF gone
  <2>3. /\ Counts(gone, "failed") \in [Emails -> Seq(Outcome)]
        /\ \A e \in gone : Counts(gone, "failed")[e] = <<"failed">>
        /\ \A e \in Emails \ gone : Counts(gone, "failed")[e] = counted[e]
    BY <2>1, <2>2, CountedNow, Zenon
  <2> QED
    BY <1>1, <2>3
<1>7. Len(<<"failed">>) = 1 /\ DOMAIN <<"failed">> = 1..1 /\ <<"failed">>[1] = "failed"
  BY OneIs, "failed" \in Outcome DEF Outcome
<1>8. Typed'
  BY <1>1, <1>4, <1>6 DEF IInv, Typed, Phases
<1>9. Apart' /\ Phased'
  BY <1>1, <1>2, <1>3 DEF Apart, Phased
<1>10. Told'
  <2>1. Unsettled' = rest \ gone
    BY <1>1, <1>2, <1>3, <1>4 DEF Unsettled
  <2>2. \A e \in Emails \ rest : Len(counted[e]) = 1
    BY <1>1, <1>3 DEF IInv, Told, Unsettled
  <2> QED
    BY <1>1, <1>4, <1>5, <1>6, <1>7, <2>1, <2>2 DEF Told
<1>11. Untaken'
  BY <1>1, <1>2, <1>3, <1>4, <1>5 DEF Untaken
<1>12. CountedTrue'
  <2>1. \A e \in gone : Justified(e, "failed")'
    BY <1>1, <1>4, <1>5 DEF Justified, OnTarget, IInv, Typed
  <2>2. \A e, as : Justified(e, as)' <=> Justified(e, as)
    BY <1>1, SameTarget
  <2> QED
    BY <1>6, <1>7, <2>1, <2>2 DEF CountedTrue, IInv
<1> QED
  BY <1>2, <1>8, <1>9, <1>10, <1>11, <1>12 DEF IInv

(* Steps that only move emails from one set to another.                    *)
LEMMA MovesKeep ==
  ASSUME IInv, Finish \/ NextBatch \/ NextRound \/ ChunkDone
  PROVE  IInv'
<1>1. /\ pc \in {"chunk", "batches"} /\ UNCHANGED <<copies, lost>> /\ UNCHANGED counted
      /\ UNCHANGED <<ready, results, parts>> /\ rest' = rest
  BY DEF Finish, NextBatch, NextRound, ChunkDone, targetVars, importVars, chunkVars
<1>2. /\ Sent' = {} /\ ResultsTrue' /\ Cut' /\ NoDuplicates'
      /\ \A j \in DOMAIN ready' : Untold(j)' => copies'[ready'[j]] <= lost'
      /\ \A j, k \in DOMAIN ready' : ready'[j] = ready'[k] => j = k
  BY <1>1, StillBetween
<1>3. head = {} /\ ready = <<>> /\ results = <<>> /\ parts = <<>> /\ Sent = {} /\ retry \intersect again = {}
      /\ (pc = "chunk" => retry = {} /\ again = {})
      /\ rest \intersect (retry \union again) = {}
  BY <1>1, Between DEF IInv, Phased, Apart
<1>4. /\ pc' \in {"done", "chunk", "upload", "batches"}
      /\ head' \union retry' \union again' = retry \union again
      /\ retry' \intersect head' = {} /\ again' \intersect head' = {} /\ retry' \intersect again' = {}
      /\ pc' \in {"done", "chunk"} => retry' = {} /\ again' = {}
      /\ pc' # "upload" => head' = {}
      /\ pc' = "done" => rest = {}
  <2>1. CASE Finish \/ ChunkDone
    BY <1>3, <2>1 DEF Finish, ChunkDone, chunkVars, importVars
  <2>2. CASE NextBatch
    BY <1>3, <2>2, LowestIs DEF NextBatch
  <2>3. CASE NextRound
    BY <1>3, <2>3 DEF NextRound, importVars
  <2> QED
    BY <2>1, <2>2, <2>3
<1>5. Typed'
  BY <1>1, <1>4 DEF IInv, Typed, Phases
<1>6. Apart' /\ Phased'
  BY <1>1, <1>2, <1>3, <1>4 DEF Apart, Phased
<1>7. Unsettled' = Unsettled
  BY <1>1, <1>2, <1>3, <1>4 DEF Unsettled
<1>8. Told'
  BY <1>1, <1>4, <1>7 DEF IInv, Told
<1>9. Untaken'
  BY <1>1, <1>2, <1>3, <1>4 DEF IInv, Untaken
<1>10. CountedTrue'
  BY <1>1, SameTarget DEF CountedTrue, IInv
<1> QED
  BY <1>2, <1>5, <1>6, <1>8, <1>9, <1>10 DEF IInv

(* The end of a run that failed.                                           *)
LEMMA AbortKeeps ==
  ASSUME IInv, Abort
  PROVE  IInv'
<1>1. /\ pc' = "idle" /\ rest' = {} /\ retry' = {} /\ again' = {} /\ head' = {} /\ ready' = <<>>
      /\ parts' = <<>> /\ results' = <<>> /\ counted' = [e \in Emails |-> <<>>]
      /\ UNCHANGED <<copies, lost>>
  BY DEF Abort, targetVars
<1>2. <<>> \in Seq(Emails) /\ <<>> \in Seq(ItemOutcomes) /\ <<>> \in Seq(Seq(Emails)) /\ <<>> \in Seq(Outcome)
      /\ Len(<<>>) = 0 /\ DOMAIN <<>> = {}
  BY EmptySeq
<1>3. Typed'
  BY <1>1, <1>2 DEF IInv, Typed, Phases
<1>4. Apart' /\ Phased' /\ Told' /\ Untaken' /\ ResultsTrue'
  BY <1>1, <1>2 DEF Apart, Phased, Told, Untaken, ResultsTrue, Sent, ToSet
<1>5. Cut'
  <2> DEFINE cut == [k \in 0..0 |-> 0]
  <2>1. CutAt(cut, parts', Len(results'), ready')
    BY <1>1, <1>2 DEF CutAt
  <2> HIDE DEF cut
  <2> QED
    BY <2>1 DEF Cut
<1>6. CountedTrue' /\ NoDuplicates'
  BY <1>1, <1>2, SameTarget DEF CountedTrue, IInv
<1> QED
  BY <1>3, <1>4, <1>5, <1>6 DEF IInv

(* The target forgets a blob; nothing happens at all.                      *)
LEMMA StutterKeeps ==
  ASSUME IInv, (\E b \in held : LoseBlob(b)) \/ UNCHANGED vars
  PROVE  IInv'
<1>1. /\ UNCHANGED <<copies, lost>> /\ UNCHANGED <<pc, rest, retry, again>>
      /\ UNCHANGED <<head, ready, parts, results>> /\ UNCHANGED counted
  BY DEF LoseBlob, vars, chunkVars, importVars
<1>2. Sent' = Sent /\ Unsettled' = Unsettled /\ \A j : Untold(j)' <=> Untold(j)
  BY <1>1 DEF Sent, Unsettled, ToSet, Untold
<1>3. Typed' /\ Apart' /\ Phased' /\ Told' /\ Untaken'
  BY <1>1, <1>2 DEF IInv, Typed, Apart, Phased, Told, Untaken
<1>4. ResultsTrue' /\ CountedTrue' /\ NoDuplicates'
  BY <1>1, SameTarget DEF IInv, ResultsTrue, CountedTrue
<1>5. Cut'
  BY <1>1 DEF IInv, Cut
<1> QED
  BY <1>3, <1>4, <1>5 DEF IInv
(* The upload: the emails with a blob are sent, the others fail.           *)
LEMMA UploadKeeps ==
  ASSUME IInv, NEW bad, Upload(bad)
  PROVE  IInv'
<1> DEFINE unsent == {e \in head : Blob[e] \in bad}
           sent == head \ unsent
<1>1. /\ pc = "upload" /\ pc' = "send" /\ head' = {} /\ results' = <<>> /\ ready' = InOrder(sent)
      /\ parts' = (IF ready' = <<>> THEN <<>> ELSE <<ready'>>)
      /\ counted' = Counts(unsent, "failed")
      /\ UNCHANGED <<copies, lost>> /\ UNCHANGED <<rest, retry, again>>
  BY DEF Upload, chunkVars
<1>2. Sent = {} /\ head \subseteq Emails /\ unsent \in SUBSET Emails /\ sent \in SUBSET Emails
      /\ unsent \union sent = head /\ unsent \intersect sent = {}
  BY <1>1, Between DEF IInv, Typed
<1> HIDE DEF sent, unsent
<1>3. \A e \in head : counted[e] = <<>> /\ copies[e] <= lost /\ ~(e \in rest \union retry \union again)
  BY <1>1, <1>2 DEF IInv, Told, Unsettled, Untaken, Apart
<1>4. /\ ready' \in Seq(Emails) /\ Len(ready') \in Nat /\ Sent' = sent
      /\ \A j \in DOMAIN ready' : ready'[j] \in sent
      /\ \A j, k \in DOMAIN ready' : ready'[j] = ready'[k] => j = k
  <2>1. /\ ready' \in Seq(sent) /\ ToSet(ready') = sent
        /\ \A j, k \in DOMAIN ready' : ready'[j] = ready'[k] => j = k
    BY <1>1, <1>2, InOrderLists
  <2>2. ready' \in Seq(Emails) /\ Len(ready') \in Nat
    BY <1>2, <2>1, SeqMonotonic, LenProperties
  <2> QED
    BY <2>1, <2>2 DEF Sent, ToSet
<1>5. /\ counted' \in [Emails -> Seq(Outcome)]
      /\ \A e \in unsent : counted'[e] = <<"failed">>
      /\ \A e \in Emails \ unsent : counted'[e] = counted[e]
  <2>1. Typed /\ "failed" \in Outcome /\ \A e \in unsent : counted[e] = <<>>
    BY <1>2, <1>3 DEF IInv, Outcome
  <2>2. /\ Counts(unsent, "failed") \in [Emails -> Seq(Outcome)]
        /\ \A e \in unsent : Counts(unsent, "failed")[e] = <<"failed">>
        /\ \A e \in Emails \ unsent : Counts(unsent, "failed")[e] = counted[e]
    BY <1>2, <2>1, CountedNow, Zenon
  <2> QED
    BY <1>1, <2>2
<1>6. Len(<<"failed">>) = 1 /\ DOMAIN <<"failed">> = 1..1 /\ <<"failed">>[1] = "failed"
  BY OneIs, "failed" \in Outcome DEF Outcome
<1>7. parts' \in Seq(Seq(Emails)) /\ Cut'
  <2>1. CASE ready' = <<>>
    <3> DEFINE cut == [k \in 0..0 |-> 0]
    <3>1. parts' = <<>> /\ Len(parts') = 0 /\ DOMAIN parts' = {} /\ Len(ready') = 0 /\ Len(results') = 0
      BY <1>1, <2>1
    <3>2. CutAt(cut, parts', Len(results'), ready')
      BY <3>1 DEF CutAt
    <3> HIDE DEF cut
    <3>3. parts' \in Seq(Seq(Emails))
      BY <3>1, EmptySeq
    <3> QED
      BY <3>2, <3>3 DEF Cut
  <2>2. CASE ready' # <<>>
    <3> DEFINE n == Len(ready')
    <3>0. PICK cut : cut = [k \in 0..1 |-> IF k = 0 THEN 0 ELSE n]
      OBVIOUS
    <3>1. parts' = <<ready'>> /\ Len(results') = 0 /\ n \in Nat \ {0}
      BY <1>1, <1>4, <2>2, EmptySeq
    <3>2. parts' \in Seq(Seq(Emails)) /\ Len(parts') = 1 /\ DOMAIN parts' = 1..1 /\ parts'[1] = ready'
      BY <1>4, <3>1, OneIs
    <3>3. cut \in [0..1 -> 0..n] /\ cut[0] = 0 /\ cut[1] = n
      BY <3>0, <3>1
    <3>4. \A k \in 1..1 : k = 1 /\ k - 1 = 0
      OBVIOUS
    <3>5. CutAt(cut, parts', Len(results'), ready')
      <4>1. /\ cut[1 - 1] < cut[1] /\ Len(parts'[1]) = cut[1] - cut[1 - 1]
            /\ \A i \in 1..Len(parts'[1]) : parts'[1][i] = ready'[cut[1 - 1] + i]
        BY <3>1, <3>2, <3>3
      <4>2. \A k \in 1..Len(parts') :
              /\ cut[k - 1] < cut[k] /\ Len(parts'[k]) = cut[k] - cut[k - 1]
              /\ \A i \in 1..Len(parts'[k]) : parts'[k][i] = ready'[cut[k - 1] + i]
        BY <3>2, <3>4, <4>1
      <4>3. cut \in [0..Len(parts') -> 0..Len(ready')] /\ cut[0] = Len(results') /\ cut[Len(parts')] = Len(ready')
        BY <3>1, <3>2, <3>3
      <4> QED
        BY <4>2, <4>3 DEF CutAt
    <3> QED
      BY <3>2, <3>5 DEF Cut
  <2> QED
    BY <2>1, <2>2
<1>8. results' \in Seq(ItemOutcomes) /\ Len(results') = 0 /\ DOMAIN results' = {}
  BY <1>1, EmptySeq
<1>9. Typed'
  BY <1>1, <1>2, <1>4, <1>5, <1>7, <1>8 DEF IInv, Typed, Phases
<1>10. Apart' /\ Phased'
  BY <1>1, <1>2, <1>3, <1>4 DEF IInv, Apart, Phased
<1>11. Told'
  <2>1. Unsettled' = Unsettled \ unsent
    BY <1>1, <1>2, <1>3, <1>4 DEF Unsettled
  <2>2. \A e \in Emails : (IF e \in Unsettled THEN counted[e] = <<>> ELSE Len(counted[e]) = 1)
    BY <1>1 DEF IInv, Told
  <2> QED
    BY <1>1, <1>5, <1>6, <2>1, <2>2 DEF Told
<1>12. Untaken' /\ ResultsTrue'
  BY <1>1, <1>2, <1>3, <1>4, <1>8 DEF IInv, Untaken, ResultsTrue
<1>13. CountedTrue' /\ NoDuplicates'
  <2>1. \A e \in unsent : Justified(e, "failed")'
    BY <1>1, <1>2, <1>3 DEF Justified, OnTarget, IInv, Typed
  <2>2. (\A e, as : Justified(e, as)' <=> Justified(e, as)) /\ NoDuplicates'
    BY <1>1, SameTarget DEF IInv
  <2> QED
    BY <1>5, <1>6, <2>1, <2>2 DEF CountedTrue, IInv
<1> QED
  BY <1>7, <1>9, <1>10, <1>11, <1>12, <1>13 DEF IInv
-----------------------------------------------------------------------------
(* The requests: how `ready' is cut.                                       *)

(* A length is the distance of two cuts.                                   *)
LEMMA Distance ==
  ASSUME NEW n \in Nat, NEW c \in Nat, NEW l, l = c - n, n < c
  PROVE  n + l = c /\ l \in Nat \ {0}
  OBVIOUS

(* A length that is not zero and not above one.                            *)
LEMMA AtMostOne ==
  ASSUME NEW l \in Nat \ {0}, ~(l > 1)
  PROVE  l = 1
  OBVIOUS

(* One that is cut in two.                                                 *)
LEMMA Middle ==
  ASSUME NEW n \in Nat, NEW c \in Nat, NEW l \in Nat, l = c - n, l > 1
  PROVE  /\ l \div 2 \in Nat /\ 0 < l \div 2 /\ l \div 2 < l /\ l \div 2 <= l
         /\ n + l \div 2 < c /\ l - l \div 2 = c - (n + l \div 2) /\ n + l \div 2 \in Nat
         /\ \A i \in 1..(l \div 2) : i \in 1..l
  OBVIOUS

(* The places behind the first h.                                          *)
LEMMA Behind ==
  ASSUME NEW n \in Nat, NEW h \in Nat, NEW l \in Nat, h <= l
  PROVE  \A i \in 1..(l - h) : h + i \in 1..l /\ n + (h + i) = (n + h) + i
  OBVIOUS

(* What was told of one request comes behind what was told before.         *)
LEMMA Joined ==
  ASSUME NEW S, NEW r \in Seq(S), NEW o \in Seq(S), NEW n, n = Len(r), NEW l, l = Len(o)
  PROVE  /\ n \in Nat /\ l \in Nat
         /\ r \o o \in Seq(S) /\ Len(r \o o) = n + l
         /\ DOMAIN (r \o o) = 1..(n + l) /\ DOMAIN r = 1..n
         /\ \A j \in 1..n : (r \o o)[j] = r[j]
         /\ \A i \in 1..l : (r \o o)[n + i] = o[i]
<1>1. /\ n \in Nat /\ l \in Nat /\ DOMAIN r = 1..n
      /\ r \o o \in Seq(S) /\ Len(r \o o) = n + l
      /\ \A j \in 1..(n + l) : (r \o o)[j] = IF j <= n THEN r[j] ELSE o[j - n]
  BY ConcatProperties, LenProperties
<1>2. DOMAIN (r \o o) = 1..(n + l)
  BY <1>1, LenProperties
<1>3. \A j \in 1..n : j \in 1..(n + l) /\ j <= n
  BY <1>1
<1>4. \A i \in 1..l : n + i \in 1..(n + l) /\ ~(n + i <= n) /\ (n + i) - n = i
  BY <1>1
<1>5. \A j \in 1..n : (r \o o)[j] = r[j]
  BY <1>1, <1>3
<1>6. \A i \in 1..l : (r \o o)[n + i] = o[i]
  BY <1>1, <1>4
<1> QED
  BY <1>1, <1>2, <1>5, <1>6

(* The first request, and what is left of the cut without it.              *)
LEMMA FirstPart ==
  ASSUME NEW S, NEW s \in Seq(S), NEW ps \in Seq(Seq(S)), ps # <<>>, NEW n \in Nat,
         NEW cut, CutAt(cut, ps, n, s)
  PROVE  /\ Head(ps) \in Seq(S) /\ Len(Head(ps)) \in Nat \ {0} /\ n + Len(Head(ps)) <= Len(s)
         /\ \A i \in 1..Len(Head(ps)) : Head(ps)[i] = s[n + i]
         /\ Len(Head(ps)) = cut[1] - n /\ cut[1] \in 0..Len(s) /\ cut[1] \in Nat
         /\ \E c : CutAt(c, Tail(ps), n + Len(Head(ps)), s)
<1>1. /\ Len(ps) \in Nat \ {0} /\ Len(s) \in Nat /\ Head(ps) \in Seq(S) /\ Head(ps) = ps[1]
      /\ Tail(ps) \in Seq(Seq(S)) /\ Len(Tail(ps)) = Len(ps) - 1
      /\ \A i \in 1..Len(Tail(ps)) : Tail(ps)[i] = ps[i + 1]
  <2>1. Len(ps) \in Nat \ {0} /\ Len(s) \in Nat
    BY EmptySeq, LenProperties
  <2> QED
    BY <2>1, HeadTailProperties
<1>2. /\ cut \in [0..Len(ps) -> 0..Len(s)] /\ cut[0] = n /\ cut[Len(ps)] = Len(s)
      /\ \A k \in 1..Len(ps) :
           /\ cut[k - 1] < cut[k] /\ Len(ps[k]) = cut[k] - cut[k - 1]
           /\ \A i \in 1..Len(ps[k]) : ps[k][i] = s[cut[k - 1] + i]
  BY DEF CutAt
<1> DEFINE p == Head(ps)
           m == n + Len(p)
<1>3. /\ cut[1] \in Nat /\ n < cut[1] /\ cut[1] <= Len(s) /\ Len(p) = cut[1] - n
      /\ \A i \in 1..Len(p) : p[i] = s[n + i]
  <2>1. 1 \in 1..Len(ps) /\ 1 \in 0..Len(ps) /\ 1 - 1 = 0
    BY <1>1
  <2>2. cut[1] \in 0..Len(s) /\ cut[0] < cut[1] /\ Len(ps[1]) = cut[1] - cut[0]
        /\ \A i \in 1..Len(ps[1]) : ps[1][i] = s[cut[0] + i]
    BY <1>2, <2>1
  <2> QED
    BY <1>1, <1>2, <2>2
<1>4. m = cut[1] /\ Len(p) \in Nat \ {0}
  <2>1. Len(p) = cut[1] - n /\ cut[1] \in Nat /\ n < cut[1]
    BY <1>3
  <2> HIDE DEF p
  <2> QED
    BY <2>1, Distance, Zenon
<1>5. PICK c : c = [k \in 0..(Len(ps) - 1) |-> cut[k + 1]]
  OBVIOUS
<1>6. \A k \in 0..(Len(ps) - 1) : k + 1 \in 0..Len(ps) /\ c[k] = cut[k + 1]
  BY <1>1, <1>5
<1>7. c \in [0..Len(Tail(ps)) -> 0..Len(s)] /\ c[0] = m /\ c[Len(Tail(ps))] = Len(s)
  <2>1. c \in [0..Len(Tail(ps)) -> 0..Len(s)]
    BY <1>1, <1>2, <1>5, <1>6
  <2>2. c[0] = cut[1] /\ c[Len(ps) - 1] = cut[Len(ps)]
    BY <1>1, <1>6
  <2> QED
    BY <1>1, <1>2, <1>4, <2>1, <2>2
<1>8. ASSUME NEW k \in 1..Len(Tail(ps))
      PROVE  /\ c[k - 1] < c[k] /\ Len(Tail(ps)[k]) = c[k] - c[k - 1]
             /\ \A i \in 1..Len(Tail(ps)[k]) : Tail(ps)[k][i] = s[c[k - 1] + i]
  <2>1. k \in Nat /\ k + 1 \in 1..Len(ps) /\ (k + 1) - 1 = k /\ k \in 0..(Len(ps) - 1)
        /\ k - 1 \in 0..(Len(ps) - 1) /\ (k - 1) + 1 = k
    BY <1>1
  <2>2. c[k] = cut[k + 1] /\ c[k - 1] = cut[k] /\ Tail(ps)[k] = ps[k + 1]
    BY <1>1, <1>6, <2>1
  <2>3. cut[k] < cut[k + 1] /\ Len(ps[k + 1]) = cut[k + 1] - cut[k]
        /\ \A i \in 1..Len(ps[k + 1]) : ps[k + 1][i] = s[cut[k] + i]
    BY <1>2, <2>1
  <2> QED
    BY <2>2, <2>3
<1>9. CutAt(c, Tail(ps), m, s)
  BY <1>7, <1>8 DEF CutAt
<1> QED
  BY <1>1, <1>3, <1>4, <1>9

(* Cutting the first request in halves.                                    *)
LEMMA HalvesCut ==
  ASSUME NEW S, NEW s \in Seq(S), NEW ps \in Seq(Seq(S)), ps # <<>>, NEW n \in Nat,
         NEW cut, CutAt(cut, ps, n, s), Len(Head(ps)) > 1
  PROVE  /\ Halves(Head(ps)) \o Tail(ps) \in Seq(Seq(S))
         /\ \E c : CutAt(c, Halves(Head(ps)) \o Tail(ps), n, s)
<1> DEFINE p == Head(ps)
           h == Len(p) \div 2
           qs == Halves(p) \o Tail(ps)
<1>1. /\ Len(ps) \in Nat \ {0} /\ Len(s) \in Nat
      /\ Tail(ps) \in Seq(Seq(S)) /\ Len(Tail(ps)) = Len(ps) - 1
      /\ \A i \in 1..Len(Tail(ps)) : Tail(ps)[i] = ps[i + 1]
  <2>1. Len(ps) \in Nat \ {0} /\ Len(s) \in Nat
    BY EmptySeq, LenProperties
  <2> QED
    BY <2>1, HeadTailProperties
<1>2. /\ p \in Seq(S) /\ Len(p) \in Nat /\ \A i \in 1..Len(p) : p[i] = s[n + i]
      /\ Len(p) = cut[1] - n /\ cut[1] \in 0..Len(s) /\ cut[1] \in Nat
  BY FirstPart
<1>3. /\ cut \in [0..Len(ps) -> 0..Len(s)] /\ cut[0] = n /\ cut[Len(ps)] = Len(s)
      /\ \A k \in 1..Len(ps) :
           /\ cut[k - 1] < cut[k] /\ Len(ps[k]) = cut[k] - cut[k - 1]
           /\ \A i \in 1..Len(ps[k]) : ps[k][i] = s[cut[k - 1] + i]
  BY DEF CutAt
<1>4. /\ h \in Nat /\ 0 < h /\ h < Len(p) /\ h <= Len(p)
       /\ n + h < cut[1] /\ Len(p) - h = cut[1] - (n + h) /\ n + h \in Nat
       /\ \A i \in 1..h : i \in 1..Len(p)
  <2>1. Len(p) > 1
    OBVIOUS
  <2> HIDE DEF p
  <2> QED
    BY <1>2, <2>1, Middle, Zenon
<1> HIDE DEF h, p
<1>5. /\ Take(p, h) \in Seq(S) /\ Len(Take(p, h)) = h /\ \A i \in 1..h : Take(p, h)[i] = p[i]
      /\ Skip(p, h) \in Seq(S) /\ Len(Skip(p, h)) = Len(p) - h
      /\ \A i \in 1..(Len(p) - h) : Skip(p, h)[i] = p[h + i]
  <2>1. /\ Take(p, h) \in Seq(S) /\ Len(Take(p, h)) = h /\ \A i \in 1..h : Take(p, h)[i] = p[i]
    BY <1>2, <1>4, TakeIs, Zenon
  <2>2. /\ Skip(p, h) \in Seq(S) /\ Len(Skip(p, h)) = Len(p) - h
        /\ \A i \in 1..(Len(p) - h) : Skip(p, h)[i] = p[h + i]
    BY <1>2, <1>4, SkipIs, Zenon
  <2> QED
    BY <2>1, <2>2, Zenon
<1>6. Halves(p) = <<Take(p, h), Skip(p, h)>>
  BY DEF Halves, h
<1>7. /\ Halves(p) \in Seq(Seq(S)) /\ Len(Halves(p)) = 2
      /\ Halves(p)[1] = Take(p, h) /\ Halves(p)[2] = Skip(p, h)
  BY <1>5, <1>6
<1>8. /\ qs \in Seq(Seq(S)) /\ Len(qs) = Len(ps) + 1
      /\ qs[1] = Take(p, h) /\ qs[2] = Skip(p, h)
      /\ \A k \in 3..(Len(ps) + 1) : qs[k] = ps[k - 1]
  <2>1. /\ qs \in Seq(Seq(S)) /\ Len(qs) = 2 + Len(Tail(ps))
        /\ \A i \in 1..(2 + Len(Tail(ps))) : qs[i] = IF i <= 2 THEN Halves(p)[i] ELSE Tail(ps)[i - 2]
    <3> DEFINE hs == Halves(p)
               ts == Tail(ps)
               T == Seq(S)
    <3>1. hs \in Seq(T) /\ ts \in Seq(T) /\ Len(hs) = 2
      BY <1>1, <1>7
    <3> HIDE DEF hs, ts, T
    <3>2. /\ hs \o ts \in Seq(T) /\ Len(hs \o ts) = Len(hs) + Len(ts)
          /\ \A i \in 1..(Len(hs) + Len(ts)) : (hs \o ts)[i] = IF i <= Len(hs) THEN hs[i] ELSE ts[i - Len(hs)]
      BY <3>1, ConcatProperties
    <3> QED
      BY <3>1, <3>2 DEF hs, ts, T
  <2>2. \A k \in 3..(Len(ps) + 1) : k - 2 \in 1..Len(Tail(ps)) /\ (k - 2) + 1 = k - 1
                                    /\ k \in 1..(2 + Len(Tail(ps))) /\ ~(k <= 2)
    BY <1>1
  <2>3. \A k \in 3..(Len(ps) + 1) : qs[k] = ps[k - 1]
    BY <1>1, <2>1, <2>2
  <2> QED
    BY <1>1, <1>7, <2>1, <2>3
<1> HIDE DEF qs
<1>9. PICK c : c = [k \in 0..(Len(ps) + 1) |-> IF k = 0 THEN n ELSE IF k = 1 THEN n + h ELSE cut[k - 1]]
  OBVIOUS
<1>10. /\ c[0] = n /\ c[1] = n + h /\ \A k \in 2..(Len(ps) + 1) : c[k] = cut[k - 1]
  BY <1>1, <1>9
<1>11. c \in [0..(Len(ps) + 1) -> 0..Len(s)]
  <2>1. \A k \in 2..(Len(ps) + 1) : k - 1 \in 0..Len(ps)
    BY <1>1
  <2>2. \A k \in 2..(Len(ps) + 1) : cut[k - 1] \in 0..Len(s)
    BY <1>3, <2>1
  <2>3. n \in 0..Len(s) /\ n + h \in 0..Len(s)
    BY <1>1, <1>2, <1>4
  <2> QED
    BY <1>1, <1>9, <2>2, <2>3
<1>12. ASSUME NEW k \in 1..Len(qs)
       PROVE  /\ c[k - 1] < c[k] /\ Len(qs[k]) = c[k] - c[k - 1]
              /\ \A i \in 1..Len(qs[k]) : qs[k][i] = s[c[k - 1] + i]
  <2>1. CASE k = 1
    <3>1. c[k] = n + h /\ c[k - 1] = n /\ qs[k] = Take(p, h)
      BY <1>8, <1>10, <2>1
    <3>2. \A i \in 1..h : i \in 1..Len(p) /\ p[i] = s[n + i]
      BY <1>2, <1>4, Zenon
    <3>3. n < n + h /\ h = (n + h) - n
      BY <1>4
    <3> QED
      BY <1>5, <3>1, <3>2, <3>3
  <2>2. CASE k = 2
    <3>1. c[k] = cut[1] /\ c[k - 1] = n + h /\ qs[k] = Skip(p, h)
      BY <1>1, <1>8, <1>10, <2>2
    <3>2. \A i \in 1..(Len(p) - h) : h + i \in 1..Len(p) /\ n + (h + i) = (n + h) + i
      BY <1>2, <1>4, Behind, Zenon
    <3>3. \A i \in 1..(Len(p) - h) : Skip(p, h)[i] = s[(n + h) + i]
      BY <1>2, <1>5, <3>2
    <3> QED
      BY <1>4, <1>5, <3>1, <3>3
  <2>3. CASE k > 2
    <3>1. k - 1 \in 1..Len(ps) /\ k \in 3..(Len(ps) + 1) /\ k \in 2..(Len(ps) + 1)
          /\ k - 1 \in 2..(Len(ps) + 1)
      BY <1>1, <1>8, <2>3
    <3>2. c[k] = cut[k - 1] /\ c[k - 1] = cut[(k - 1) - 1] /\ qs[k] = ps[k - 1]
      BY <1>8, <1>10, <3>1
    <3>3. cut[(k - 1) - 1] < cut[k - 1] /\ Len(ps[k - 1]) = cut[k - 1] - cut[(k - 1) - 1]
          /\ \A i \in 1..Len(ps[k - 1]) : ps[k - 1][i] = s[cut[(k - 1) - 1] + i]
      BY <1>3, <3>1
    <3> QED
      BY <3>2, <3>3
  <2> QED
    BY <1>1, <1>8, <2>1, <2>2, <2>3
<1>13. c[Len(qs)] = Len(s)
  <2>1. Len(qs) \in 2..(Len(ps) + 1) /\ Len(qs) - 1 = Len(ps)
    BY <1>1, <1>8
  <2> QED
    BY <1>3, <1>10, <2>1
<1>14. CutAt(c, qs, n, s)
  BY <1>8, <1>10, <1>11, <1>12, <1>13 DEF CutAt
<1> QED
  BY <1>8, <1>14 DEF qs, p
(* The request that is sent next.                                          *)
LEMMA Next1 ==
  ASSUME IInv, parts # <<>>
  PROVE  /\ Head(parts) \in Seq(Emails) /\ Len(Head(parts)) \in Nat \ {0}
         /\ DOMAIN Head(parts) = 1..Len(Head(parts))
         /\ Len(results) \in Nat /\ Len(ready) \in Nat /\ Len(results) + Len(Head(parts)) <= Len(ready)
         /\ \A i \in 1..Len(Head(parts)) : Head(parts)[i] = ready[Len(results) + i]
         /\ Tail(parts) \in Seq(Seq(Emails))
         /\ \E c : CutAt(c, Tail(parts), Len(results) + Len(Head(parts)), ready)
<1>1. ready \in Seq(Emails) /\ parts \in Seq(Seq(Emails)) /\ results \in Seq(ItemOutcomes)
  BY DEF IInv, Typed
<1>2. Len(results) \in Nat /\ Len(ready) \in Nat
  BY <1>1, LenProperties
<1>3. PICK cut : CutAt(cut, parts, Len(results), ready)
  BY DEF IInv, Cut
<1> DEFINE n == Len(results)
           p == Head(parts)
<1>4. /\ p \in Seq(Emails) /\ Len(p) \in Nat \ {0} /\ n + Len(p) <= Len(ready)
      /\ \A i \in 1..Len(p) : p[i] = ready[n + i]
      /\ \E c : CutAt(c, Tail(parts), n + Len(p), ready)
  <2> HIDE DEF n
  <2>1. n \in Nat /\ CutAt(cut, parts, n, ready)
    BY <1>2, <1>3 DEF n
  <2> QED
    BY <1>1, <2>1, FirstPart
<1>5. Tail(parts) \in Seq(Seq(Emails))
  BY <1>1, HeadTailProperties
<1>6. DOMAIN p = 1..Len(p)
  BY <1>4, LenProperties
<1> QED
  BY <1>2, <1>4, <1>5, <1>6

(* While requests are sent, emails stay where they are.                    *)
LEMMA Sending ==
  ASSUME IInv, pc = "send", UNCHANGED <<pc, rest, retry, again, head, ready, counted>>,
         parts' \in Seq(Seq(Emails)), results' \in Seq(ItemOutcomes), Len(results') <= Len(ready),
         copies' \in [Emails -> Nat], lost' \in Nat
  PROVE  Typed' /\ Apart' /\ Phased' /\ Told'
<1>1. Sent' = Sent
  BY DEF Sent, ToSet
<1>2. Unsettled' = Unsettled
  BY <1>1 DEF Unsettled
<1>3. Typed' /\ Apart' /\ Phased'
  BY <1>1 DEF IInv, Typed, Apart, Phased
<1>4. Told'
  BY <1>2 DEF IInv, Told
<1> QED
  BY <1>3, <1>4

(* A request that is too large is cut, or its only email is.               *)
LEMMA SplitKeeps ==
  ASSUME IInv, Split
  PROVE  IInv'
<1> DEFINE n == Len(results)
           p == Head(parts)
<1>1. /\ pc = "send" /\ parts # <<>>
      /\ UNCHANGED <<pc, rest, retry, again, head, ready, counted>> /\ UNCHANGED <<copies, lost>>
  BY DEF Split, chunkVars, targetVars
<1>2. /\ p \in Seq(Emails) /\ Len(p) \in Nat \ {0} /\ n \in Nat /\ Len(ready) \in Nat /\ n + Len(p) <= Len(ready)
      /\ Tail(parts) \in Seq(Seq(Emails))
      /\ \E c : CutAt(c, Tail(parts), n + Len(p), ready)
  BY <1>1, Next1
<1>3. /\ copies' \in [Emails -> Nat] /\ lost' \in Nat /\ results \in Seq(ItemOutcomes) /\ Len(results) <= Len(ready)
      /\ ready \in Seq(Emails) /\ parts \in Seq(Seq(Emails))
  BY <1>1 DEF IInv, Typed
<1>4. CountedTrue' /\ NoDuplicates'
  BY <1>1, SameTarget DEF IInv, CountedTrue
<1>5. CASE Len(p) > 1
  <2>1. parts' = Halves(p) \o Tail(parts) /\ results' = results
    BY <1>5 DEF Split
  <2>2. PICK cut : CutAt(cut, parts, n, ready)
    BY DEF IInv, Cut
  <2>3. parts' \in Seq(Seq(Emails)) /\ \E c : CutAt(c, parts', n, ready)
    <3> HIDE DEF n
    <3> QED
      BY <1>1, <1>2, <1>3, <1>5, <2>1, <2>2, HalvesCut
  <2>4. Cut'
    BY <1>1, <2>1, <2>3 DEF Cut
  <2>5. Typed' /\ Apart' /\ Phased' /\ Told'
    BY <1>1, <1>3, <2>1, <2>3, Sending
  <2>6. Untaken' /\ ResultsTrue'
    BY <1>1, <2>1, SameTarget DEF IInv, Untaken, ResultsTrue, Untold
  <2> QED
    BY <1>4, <2>4, <2>5, <2>6 DEF IInv
<1>6. CASE ~(Len(p) > 1)
  <2>1. Len(p) = 1 /\ parts' = Tail(parts) /\ results' = Append(results, "tooLarge")
    <3>1. Len(p) = 1
      <4> HIDE DEF p
      <4>1. Len(p) \in Nat \ {0} /\ ~(Len(p) > 1)
        BY <1>2, <1>6
      <4> QED
        BY <4>1, AtMostOne, Zenon
    <3> QED
      BY <1>6, <3>1 DEF Split
  <2>2. /\ results' \in Seq(ItemOutcomes) /\ Len(results') = n + 1 /\ DOMAIN results' = 1..(n + 1)
        /\ results'[n + 1] = "tooLarge" /\ \A j \in 1..n : results'[j] = results[j]
        /\ DOMAIN results = 1..n
    BY <1>3, <2>1, AppendProperties DEF ItemOutcomes
  <2>3. Cut'
    BY <1>1, <1>2, <2>1, <2>2 DEF Cut
  <2>4. Typed' /\ Apart' /\ Phased' /\ Told'
    BY <1>1, <1>2, <1>3, <2>1, <2>2, Sending
  <2>5. ResultsTrue'
    <3>1. \A j \in 1..n : /\ results[j] = "created" => OnTarget(ready[j])'
                          /\ results[j] = "skipped" => BlobOnTarget(Blob[ready[j]])'
      BY <1>1, <2>2, SameTarget DEF IInv, ResultsTrue
    <3>2. \A j \in 1..(n + 1) : j \in 1..n \/ j = n + 1
      BY <1>2
    <3> QED
      BY <1>1, <2>2, <3>1, <3>2 DEF ResultsTrue
  <2>6. Untaken'
    <3>1. \A j \in DOMAIN ready : Untold(j)' => Untold(j)
      <4>1. DOMAIN ready = 1..Len(ready)
        BY <1>3, LenProperties
      <4>2. ASSUME NEW j \in 1..Len(ready), j > n + 1 \/ results'[j] \notin {"created", "skipped"}
            PROVE  j > n \/ results[j] \notin {"created", "skipped"}
        <5>1. CASE j \in 1..n
          BY <1>2, <2>2, <4>2, <5>1
        <5>2. CASE ~(j \in 1..n)
          BY <1>2, <5>2
        <5> QED
          BY <5>1, <5>2
      <4> QED
        BY <2>2, <4>1, <4>2 DEF Untold
    <3> QED
      BY <1>1, <3>1 DEF IInv, Untaken
  <2> QED
    BY <1>4, <2>3, <2>4, <2>5, <2>6 DEF IInv
<1> QED
  BY <1>5, <1>6
(* What a request brings: an email has one copy more when it was created,  *)
(* and only then.                                                          *)
LEMMA ImportedIs ==
  ASSUME Typed, NEW p \in Seq(Emails), NEW S
  PROVE  /\ Imported(p, S) \in [Emails -> Nat]
         /\ \A e \in Emails : Imported(p, S)[e] \in {copies[e], copies[e] + 1}
         /\ \A e \in Emails : (\A i \in DOMAIN p : p[i] = e => Outcomes(p, S)[i] # "created")
                                => Imported(p, S)[e] = copies[e]
         /\ \A i \in DOMAIN p : Outcomes(p, S)[i] = "created" => Imported(p, S)[p[i]] = copies[p[i]] + 1
<1>1. copies \in [Emails -> Nat] /\ \A i \in DOMAIN p : p[i] \in Emails
  BY DEF Typed
<1>2. \A e \in Emails : copies[e] \in Nat /\ copies[e] + 1 \in Nat
  BY <1>1
<1> HIDE DEF Outcomes
<1> QED
  BY <1>1, <1>2 DEF Imported

(* An answer says of each email of the request what became of it.          *)
LEMMA OutcomesAre ==
  ASSUME NEW p \in Seq(Emails), NEW S
  PROVE  /\ Outcomes(p, S) \in Seq(ItemOutcomes) /\ Len(Outcomes(p, S)) = Len(p)
         /\ DOMAIN Outcomes(p, S) = 1..Len(p)
<1>1. Len(p) \in Nat /\ DOMAIN p = 1..Len(p)
  BY LenProperties
<1>2. Outcomes(p, S) \in [1..Len(p) -> ItemOutcomes]
  BY <1>1 DEF Outcomes, ItemOutcomes
<1> QED
  BY <1>1, <1>2

(* What the target skipped is a blob it has, or gets by this very request. *)
LEMMA SkippedIs ==
  ASSUME Typed, NEW p \in Seq(Emails), NEW S, copies' = Imported(p, S),
         NEW i \in DOMAIN p, Outcomes(p, S)[i] = "skipped"
  PROVE  \E e \in Emails : copies'[e] > 0 /\ Blob[e] = Blob[p[i]]
<1>1. Len(p) \in Nat /\ DOMAIN p = 1..Len(p) /\ \A j \in DOMAIN p : p[j] \in Emails
  BY LenProperties
<1>2. copies \in [Emails -> Nat]
  BY DEF Typed
<1>3. /\ \A e \in Emails : copies'[e] \in {copies[e], copies[e] + 1}
      /\ \A j \in DOMAIN p : Outcomes(p, S)[j] = "created" => copies'[p[j]] = copies[p[j]] + 1
  BY ImportedIs
<1>4. /\ Blob[p[i]] \in held /\ target.dedups
      /\ \/ BlobOnTarget(Blob[p[i]])
         \/ \E k \in 1..(i - 1) : Blob[p[k]] = Blob[p[i]] /\ p[k] \notin S
  BY DEF Outcomes
<1>5. CASE BlobOnTarget(Blob[p[i]])
  <2>1. PICK e \in Emails : copies[e] > 0 /\ Blob[e] = Blob[p[i]]
    BY <1>5 DEF BlobOnTarget, OnTarget
  <2>2. copies'[e] > 0
    BY <1>2, <1>3, <2>1
  <2> QED
    BY <2>1, <2>2
<1>6. CASE \E k \in 1..(i - 1) : Blob[p[k]] = Blob[p[i]] /\ p[k] \notin S
  <2> DEFINE Like == {k \in DOMAIN p : Blob[p[k]] = Blob[p[i]] /\ p[k] \notin S}
  <2>1. Like \in SUBSET Nat /\ Like # {}
    BY <1>1, <1>6
  <2>2. PICK m \in Like : \A k \in Like : m <= k
    <3> HIDE DEF Like
    <3> QED
      BY <2>1, Smallest
  <2>3. m \in DOMAIN p /\ m \in Nat /\ Blob[p[m]] = Blob[p[i]] /\ p[m] \notin S /\ p[m] \in Emails
    BY <1>1, <2>2
  <2>4. ~ \E k \in 1..(m - 1) : Blob[p[k]] = Blob[p[m]] /\ p[k] \notin S
    <3>1. \A k \in 1..(m - 1) : k \in DOMAIN p /\ ~(m <= k)
      BY <1>1, <2>3
    <3> QED
      BY <2>2, <2>3, <3>1
  <2>5. CASE BlobOnTarget(Blob[p[i]])
    BY <1>5, <2>5
  <2>6. CASE ~BlobOnTarget(Blob[p[i]])
    <3>1. Outcomes(p, S)[m] = "created"
      BY <1>4, <2>3, <2>4, <2>6 DEF Outcomes
    <3>2. copies'[p[m]] = copies[p[m]] + 1 /\ copies[p[m]] \in Nat
      BY <1>2, <1>3, <2>3, <3>1
    <3> QED
      BY <2>3, <3>2
  <2> QED
    BY <2>5, <2>6
<1> QED
  BY <1>4, <1>5, <1>6
(* What is on the target stays there.                                      *)
LEMMA Grown ==
  ASSUME Typed, NEW p \in Seq(Emails), NEW S, copies' = Imported(p, S)
  PROVE  /\ \A e \in Emails : OnTarget(e) => OnTarget(e)'
         /\ \A k : KeyOnTarget(k) => KeyOnTarget(k)'
         /\ \A b : BlobOnTarget(b) => BlobOnTarget(b)'
<1>1. copies \in [Emails -> Nat]
  BY DEF Typed
<1>2. \A e \in Emails : copies'[e] \in {copies[e], copies[e] + 1}
  BY ImportedIs
<1>3. \A e \in Emails : copies[e] > 0 => copies'[e] > 0
  BY <1>1, <1>2
<1>4. \A e \in Emails : OnTarget(e) => OnTarget(e)'
  BY <1>3 DEF OnTarget
<1> QED
  BY <1>4 DEF KeyOnTarget, BlobOnTarget

(* The target answers, whatever it refuses.                                *)
LEMMA AnsweredKeeps ==
  ASSUME IInv, NEW S, Answered(S)
  PROVE  IInv'
<1>0. PICK n, p, os : n = Len(results) /\ p = Head(parts) /\ os = Outcomes(p, S)
  OBVIOUS
<1>1. /\ pc = "send" /\ parts # <<>> /\ copies' = Imported(p, S) /\ results' = results \o os
      /\ parts' = Tail(parts)
      /\ UNCHANGED <<pc, rest, retry, again, head, ready, counted>> /\ UNCHANGED lost
  BY <1>0 DEF Answered, chunkVars
<1>2. /\ p \in Seq(Emails) /\ Len(p) \in Nat \ {0} /\ DOMAIN p = 1..Len(p)
      /\ n \in Nat /\ Len(ready) \in Nat /\ n + Len(p) <= Len(ready)
      /\ \A i \in 1..Len(p) : p[i] = ready[n + i]
      /\ Tail(parts) \in Seq(Seq(Emails))
      /\ \E c : CutAt(c, Tail(parts), n + Len(p), ready)
  BY <1>0, <1>1, Next1
<1>3. /\ Typed /\ results \in Seq(ItemOutcomes) /\ lost \in Nat /\ copies \in [Emails -> Nat]
      /\ ready \in Seq(Emails) /\ DOMAIN ready = 1..Len(ready)
      /\ \A j \in DOMAIN ready : ready[j] \in Emails
      /\ \A j, k \in DOMAIN ready : ready[j] = ready[k] => j = k
  <2>1. ready \in Seq(Emails)
    BY DEF IInv, Typed
  <2> QED
    BY <2>1, LenProperties DEF IInv, Typed, Apart
<1>4. os \in Seq(ItemOutcomes) /\ Len(os) = Len(p) /\ DOMAIN os = 1..Len(p)
  BY <1>0, <1>2, OutcomesAre
<1>5. /\ copies' \in [Emails -> Nat]
      /\ \A e \in Emails : copies'[e] \in {copies[e], copies[e] + 1}
      /\ \A e \in Emails : (\A i \in DOMAIN p : p[i] = e => os[i] # "created") => copies'[e] = copies[e]
      /\ \A i \in DOMAIN p : os[i] = "created" => copies'[p[i]] = copies[p[i]] + 1
  <2>1. /\ Imported(p, S) \in [Emails -> Nat]
        /\ \A e \in Emails : Imported(p, S)[e] \in {copies[e], copies[e] + 1}
        /\ \A e \in Emails : (\A i \in DOMAIN p : p[i] = e => Outcomes(p, S)[i] # "created")
                               => Imported(p, S)[e] = copies[e]
        /\ \A i \in DOMAIN p : Outcomes(p, S)[i] = "created" => Imported(p, S)[p[i]] = copies[p[i]] + 1
    <3>1. Typed /\ p \in Seq(Emails)
      BY <1>2, <1>3
    <3> QED
      BY <3>1, ImportedIs
  <2> QED
    BY <1>0, <1>1, <2>1
<1>6. \A i \in DOMAIN p : os[i] = "skipped" => BlobOnTarget(Blob[p[i]])'
  <2>1. ASSUME NEW i \in DOMAIN p, os[i] = "skipped"
        PROVE  \E e \in Emails : copies'[e] > 0 /\ Blob[e] = Blob[p[i]]
    <3>1. Typed /\ p \in Seq(Emails) /\ copies' = Imported(p, S) /\ Outcomes(p, S)[i] = "skipped"
      BY <1>0, <1>1, <1>2, <1>3, <2>1
    <3> QED
      BY <3>1, SkippedIs
  <2> QED
    BY <2>1 DEF BlobOnTarget, OnTarget
<1>7. /\ \A e \in Emails : OnTarget(e) => OnTarget(e)'
      /\ \A k : KeyOnTarget(k) => KeyOnTarget(k)'
      /\ \A b : BlobOnTarget(b) => BlobOnTarget(b)'
  BY <1>1, <1>2, <1>3, Grown
<1>8. /\ results' \in Seq(ItemOutcomes) /\ Len(results') = n + Len(p)
      /\ DOMAIN results' = 1..(n + Len(p)) /\ DOMAIN results = 1..n
      /\ \A j \in 1..n : results'[j] = results[j]
      /\ \A i \in 1..Len(p) : results'[n + i] = os[i]
  <2>1. /\ results \in Seq(ItemOutcomes) /\ os \in Seq(ItemOutcomes)
        /\ n = Len(results) /\ Len(p) = Len(os) /\ results' = results \o os
    BY <1>0, <1>1, <1>3, <1>4
  <2>2. /\ n \in Nat /\ Len(p) \in Nat
        /\ results \o os \in Seq(ItemOutcomes) /\ Len(results \o os) = n + Len(p)
        /\ DOMAIN (results \o os) = 1..(n + Len(p)) /\ DOMAIN results = 1..n
        /\ \A j \in 1..n : (results \o os)[j] = results[j]
        /\ \A i \in 1..Len(p) : (results \o os)[n + i] = os[i]
    BY <2>1, Joined
  <2> QED
    BY <2>1, <2>2, Zenon
<1>9. \A i \in 1..Len(p) : /\ n + i \in DOMAIN ready /\ n + i \in Nat /\ n + i > n
                           /\ ready[n + i] = p[i] /\ p[i] \in Emails /\ copies[p[i]] <= lost
  <2>1. \A i \in 1..Len(p) : n + i \in DOMAIN ready /\ n + i \in Nat /\ n + i > n
    BY <1>2, <1>3
  <2> QED
    BY <1>0, <1>2, <1>3, <2>1 DEF IInv, Untaken, Untold
<1>10. Typed' /\ Apart' /\ Phased' /\ Told'
  BY <1>1, <1>2, <1>3, <1>5, <1>8, Sending
<1>11. Cut'
  BY <1>1, <1>2, <1>8 DEF Cut
<1>12. NoDuplicates'
  <2>1. ASSUME NEW e \in Emails
        PROVE  copies'[e] <= 1 + lost
    <3>1. copies[e] \in Nat /\ copies[e] <= 1 + lost
      BY <1>3 DEF IInv, NoDuplicates
    <3>2. CASE \A i \in DOMAIN p : p[i] = e => os[i] # "created"
      BY <1>5, <3>1, <3>2
    <3>3. CASE \E i \in DOMAIN p : p[i] = e /\ os[i] = "created"
      <4>1. copies[e] <= lost
        BY <1>2, <1>9, <3>3
      <4>2. copies'[e] \in {copies[e], copies[e] + 1}
        BY <1>5
      <4> QED
        BY <1>3, <3>1, <4>1, <4>2
    <3> QED
      BY <3>2, <3>3
  <2> QED
    BY <1>1, <2>1 DEF NoDuplicates
<1>13. ResultsTrue'
  <2>1. ASSUME NEW j \in 1..n
        PROVE  /\ results'[j] = "created" => OnTarget(ready[j])'
               /\ results'[j] = "skipped" => BlobOnTarget(Blob[ready[j]])'
    <3>1. results'[j] = results[j] /\ j \in DOMAIN results /\ ready[j] \in Emails
      BY <1>2, <1>3, <1>8
    <3> QED
      BY <1>1, <1>7, <3>1 DEF IInv, ResultsTrue
  <2>2. ASSUME NEW i \in 1..Len(p)
        PROVE  /\ results'[n + i] = "created" => OnTarget(ready[n + i])'
               /\ results'[n + i] = "skipped" => BlobOnTarget(Blob[ready[n + i]])'
    <3>1. results'[n + i] = os[i] /\ ready[n + i] = p[i] /\ p[i] \in Emails /\ copies[p[i]] \in Nat
      BY <1>3, <1>8, <1>9
    <3>2. os[i] = "created" => copies'[p[i]] > 0
      <4>1. i \in DOMAIN p
        BY <1>2
      <4>2. os[i] = "created" => copies'[p[i]] = copies[p[i]] + 1
        BY <1>5, <4>1
      <4> QED
        BY <3>1, <4>2
    <3> QED
      BY <1>1, <1>2, <1>6, <3>1, <3>2 DEF OnTarget
  <2>3. \A j \in 1..(n + Len(p)) : j \in 1..n \/ \E i \in 1..Len(p) : j = n + i
    <3>1. ASSUME NEW j \in 1..(n + Len(p)), ~(j \in 1..n)
          PROVE  j - n \in 1..Len(p) /\ j = n + (j - n)
      BY <1>2, <3>1
    <3> QED
      BY <3>1
  <2>4. \A j \in DOMAIN results' : /\ results'[j] = "created" => OnTarget(ready[j])'
                                   /\ results'[j] = "skipped" => BlobOnTarget(Blob[ready[j]])'
    BY <1>8, <2>1, <2>2, <2>3
  <2> QED
    BY <1>1, <2>4 DEF ResultsTrue
<1>14. Untaken'
  <2>1. ASSUME NEW e \in rest \union head \union retry \union again
        PROVE  copies'[e] <= lost
    <3>1. e \in Emails /\ copies[e] <= lost
      BY DEF IInv, Typed, Untaken
    <3>2. e \notin Sent
      <4>1. head = {}
        BY <1>1 DEF IInv, Phased
      <4> QED
        BY <4>1 DEF IInv, Apart
    <3>3. \A i \in DOMAIN p : p[i] # e
      BY <1>2, <1>9, <3>2 DEF Sent, ToSet
    <3> QED
      BY <1>5, <3>1, <3>3
  <2>2. ASSUME NEW j \in DOMAIN ready, Untold(j)'
        PROVE  copies'[ready[j]] <= lost
    <3>1. \A i \in DOMAIN p : p[i] = ready[j] => os[i] # "created"
      <4>1. SUFFICES ASSUME NEW i \in 1..Len(p), p[i] = ready[j]
                     PROVE  os[i] # "created"
        BY <1>2
      <4>2. j = n + i /\ j \in 1..(n + Len(p))
        <5>1. n + i \in DOMAIN ready /\ ready[n + i] = ready[j]
          BY <1>9, <4>1
        <5>2. j = n + i
          BY <1>3, <5>1
        <5> QED
          BY <1>2, <5>2
      <4>3. results'[j] \notin {"created", "skipped"}
        BY <1>1, <1>2, <1>8, <2>2, <4>2 DEF Untold
      <4> QED
        BY <1>8, <4>2, <4>3
    <3>2. Untold(j)
      <4>1. CASE j \in 1..n
        <5>1. results'[j] \notin {"created", "skipped"}
          BY <1>1, <1>2, <1>8, <2>2, <4>1 DEF Untold
        <5> QED
          BY <1>8, <4>1, <5>1 DEF Untold
      <4>2. CASE ~(j \in 1..n)
        BY <1>0, <1>2, <1>3, <4>2 DEF Untold
      <4> QED
        BY <4>1, <4>2
    <3>3. copies[ready[j]] <= lost /\ ready[j] \in Emails
      BY <1>3, <3>2 DEF IInv, Untaken
    <3> QED
      BY <1>5, <3>1, <3>3
  <2> QED
    BY <1>1, <2>1, <2>2 DEF Untaken
<1>15. CountedTrue'
  <2>1. ASSUME NEW e \in Emails, NEW i \in DOMAIN counted[e]
        PROVE  Justified(e, counted[e][i])'
    <3>1. Justified(e, counted[e][i])
      BY DEF IInv, CountedTrue
    <3>2. e \notin Sent
      BY <1>1 DEF IInv, Told, Unsettled
    <3>3. \A k \in DOMAIN p : p[k] # e
      BY <1>2, <1>9, <3>2 DEF Sent, ToSet
    <3>4. copies'[e] = copies[e]
      BY <1>5, <3>3
    <3> QED
      BY <1>1, <1>7, <3>1, <3>4 DEF Justified, OnTarget
  <2> QED
    BY <1>1, <2>1 DEF CountedTrue
<1> QED
  BY <1>10, <1>11, <1>12, <1>13, <1>14, <1>15 DEF IInv
(* A target may have imported a request nobody heard the answer of.        *)
LEMMA LostGrows ==
  ASSUME IInv, NEW p \in Seq(Emails), copies' = Imported(p, {}), lost' = lost + 1
  PROVE  /\ copies' \in [Emails -> Nat] /\ lost' \in Nat /\ lost' # 0
         /\ \A e \in Emails : copies[e] <= lost => copies'[e] <= lost'
         /\ NoDuplicates'
         /\ \A e \in Emails : OnTarget(e) => OnTarget(e)'
         /\ \A b : BlobOnTarget(b) => BlobOnTarget(b)'
         /\ \A e \in Emails, as \in Outcome : Justified(e, as) => Justified(e, as)'
<1>1. Typed /\ copies \in [Emails -> Nat] /\ lost \in Nat
  BY DEF IInv, Typed
<1>2. /\ copies' \in [Emails -> Nat]
      /\ \A e \in Emails : copies'[e] \in {copies[e], copies[e] + 1}
  <2>1. /\ Imported(p, {}) \in [Emails -> Nat]
        /\ \A e \in Emails : Imported(p, {})[e] \in {copies[e], copies[e] + 1}
    BY <1>1, ImportedIs
  <2> QED
    BY <2>1
<1>3. lost' \in Nat /\ lost' # 0
  BY <1>1
<1>4. \A e \in Emails : copies[e] <= lost => copies'[e] <= lost'
  BY <1>1, <1>2
<1>5. NoDuplicates'
  <2>1. \A e \in Emails : copies[e] <= 1 + lost
    BY DEF IInv, NoDuplicates
  <2>2. \A e \in Emails : copies'[e] <= 1 + lost'
    BY <1>1, <1>2, <2>1
  <2> QED
    BY <2>2 DEF NoDuplicates
<1>6. /\ \A e \in Emails : OnTarget(e) => OnTarget(e)'
      /\ \A k : KeyOnTarget(k) => KeyOnTarget(k)'
      /\ \A b : BlobOnTarget(b) => BlobOnTarget(b)'
  BY <1>1, Grown
<1>7. \A e \in Emails, as \in Outcome : Justified(e, as) => Justified(e, as)'
  BY <1>3, <1>6 DEF Justified
<1> QED
  BY <1>2, <1>3, <1>4, <1>5, <1>6, <1>7

(* An answer is lost, and the request is sent again.                       *)
LEMMA AnswerLostKeeps ==
  ASSUME IInv, AnswerLost
  PROVE  IInv'
<1>0. PICK p : p = Head(parts)
  OBVIOUS
<1>1. /\ pc = "send" /\ parts # <<>> /\ copies' = Imported(p, {}) /\ lost' = lost + 1
      /\ UNCHANGED <<pc, rest, retry, again, head, ready, counted>> /\ UNCHANGED <<parts, results>>
  BY <1>0 DEF AnswerLost, chunkVars, importVars
<1>2. p \in Seq(Emails)
  BY <1>0, <1>1, Next1
<1>3. /\ copies' \in [Emails -> Nat] /\ lost' \in Nat /\ lost' # 0
      /\ \A e \in Emails : copies[e] <= lost => copies'[e] <= lost'
      /\ NoDuplicates'
      /\ \A e \in Emails : OnTarget(e) => OnTarget(e)'
      /\ \A b : BlobOnTarget(b) => BlobOnTarget(b)'
      /\ \A e \in Emails, as \in Outcome : Justified(e, as) => Justified(e, as)'
  BY <1>1, <1>2, LostGrows
<1>4. /\ parts \in Seq(Seq(Emails)) /\ results \in Seq(ItemOutcomes) /\ Len(results) <= Len(ready)
      /\ \A j \in DOMAIN ready : ready[j] \in Emails
      /\ \A j \in DOMAIN results : j \in DOMAIN ready
      /\ counted \in [Emails -> Seq(Outcome)]
  <2>1. parts \in Seq(Seq(Emails)) /\ results \in Seq(ItemOutcomes) /\ Len(results) <= Len(ready)
        /\ ready \in Seq(Emails) /\ counted \in [Emails -> Seq(Outcome)]
    BY DEF IInv, Typed
  <2>2. Len(results) \in Nat /\ Len(ready) \in Nat /\ DOMAIN results = 1..Len(results)
        /\ DOMAIN ready = 1..Len(ready)
    BY <2>1, LenProperties
  <2> QED
    BY <2>1, <2>2
<1>5. Typed' /\ Apart' /\ Phased' /\ Told'
  BY <1>1, <1>3, <1>4, Sending
<1>6. Cut'
  BY <1>1 DEF IInv, Cut
<1>7. Untaken'
  <2>1. \A e \in rest \union head \union retry \union again : e \in Emails /\ copies[e] <= lost
    BY DEF IInv, Typed, Untaken
  <2>2. \A j \in DOMAIN ready : Untold(j)' => copies[ready[j]] <= lost
    BY <1>1 DEF IInv, Untaken, Untold
  <2> QED
    BY <1>1, <1>3, <1>4, <2>1, <2>2 DEF Untaken
<1>8. ResultsTrue'
  BY <1>1, <1>3, <1>4 DEF IInv, ResultsTrue
<1>9. CountedTrue'
  <2>1. \A e \in Emails : \A i \in DOMAIN counted[e] : counted[e][i] \in Outcome
    BY <1>4, LenProperties, ElementOfSeq
  <2> QED
    BY <1>1, <1>3, <2>1 DEF IInv, CountedTrue
<1> QED
  BY <1>3, <1>5, <1>6, <1>7, <1>8, <1>9 DEF IInv

(* An error of the method: what has no outcome yet failed.                 *)
LEMMA MethodFailsKeeps ==
  ASSUME IInv, MethodFails
  PROVE  IInv'
<1>0. PICK n, p, told, left : /\ n = Len(results) /\ p = Head(parts)
                              /\ told = Take(ready, n) /\ left = Skip(ready, n)
  OBVIOUS
<1>1. /\ pc = "send" /\ parts # <<>>
      /\ UNCHANGED <<copies, lost>> \/ (copies' = Imported(p, {}) /\ lost' = lost + 1)
      /\ counted' = Counts(ToSet(left), "failed") /\ ready' = told /\ parts' = <<>>
      /\ UNCHANGED <<pc, rest, retry, again, head, results>>
  BY <1>0 DEF MethodFails, chunkVars
<1>2. /\ Typed /\ ready \in Seq(Emails) /\ results \in Seq(ItemOutcomes) /\ n \in Nat /\ Len(ready) \in Nat
      /\ DOMAIN ready = 1..Len(ready) /\ DOMAIN results = 1..n /\ n <= Len(ready)
      /\ \A j, k \in DOMAIN ready : ready[j] = ready[k] => j = k
      /\ \A j \in DOMAIN ready : ready[j] \in Emails
      /\ lost \in Nat /\ copies \in [Emails -> Nat]
  <2>1. Typed /\ ready \in Seq(Emails) /\ results \in Seq(ItemOutcomes) /\ n <= Len(ready)
        /\ lost \in Nat /\ copies \in [Emails -> Nat]
    BY <1>0 DEF IInv, Typed
  <2> QED
    BY <1>0, <2>1, LenProperties DEF IInv, Apart
<1>3. p \in Seq(Emails)
  BY <1>0, <1>1, Next1
<1>4. /\ copies' \in [Emails -> Nat] /\ lost' \in Nat
      /\ \A e \in Emails : copies[e] <= lost => copies'[e] <= lost'
      /\ NoDuplicates'
      /\ \A e \in Emails : OnTarget(e) => OnTarget(e)'
      /\ \A b : BlobOnTarget(b) => BlobOnTarget(b)'
      /\ \A e \in Emails, as \in Outcome : Justified(e, as) => Justified(e, as)'
      /\ lost' = 0 => UNCHANGED <<copies, lost>>
  <2>1. CASE UNCHANGED <<copies, lost>>
    BY <1>2, <2>1, SameTarget DEF IInv
  <2>2. CASE copies' = Imported(p, {}) /\ lost' = lost + 1
    BY <1>3, <2>2, LostGrows
  <2> QED
    BY <1>1, <2>1, <2>2
<1>5. /\ told \in Seq(Emails) /\ Len(told) = n /\ DOMAIN told = 1..n
      /\ \A j \in 1..n : told[j] = ready[j] /\ j \in DOMAIN ready
  <2>1. told \in Seq(Emails) /\ Len(told) = n /\ \A j \in 1..n : told[j] = ready[j]
    BY <1>0, <1>2, TakeIs
  <2> QED
    BY <1>2, <2>1, LenProperties
<1>6. \A e \in Emails : e \in ToSet(left) <=> \E j \in DOMAIN ready : j > n /\ e = ready[j]
  <2>1. /\ left \in Seq(Emails) /\ Len(left) = Len(ready) - n
        /\ \A i \in 1..(Len(ready) - n) : left[i] = ready[n + i]
    <3>1. ready \in Seq(Emails) /\ n \in Nat /\ n <= Len(ready) /\ left = Skip(ready, n)
      BY <1>0, <1>2
    <3> QED
      BY <3>1, SkipIs
  <2>2. DOMAIN left = 1..(Len(ready) - n)
    BY <2>1, LenProperties
  <2>3. \A i \in 1..(Len(ready) - n) : n + i \in DOMAIN ready /\ n + i > n
    BY <1>2
  <2>4. \A j \in DOMAIN ready : j > n => j - n \in 1..(Len(ready) - n) /\ n + (j - n) = j
    BY <1>2
  <2>5. ASSUME NEW j \in DOMAIN ready, j > n
        PROVE  \E i \in DOMAIN left : left[i] = ready[j]
    BY <2>1, <2>2, <2>4, <2>5
  <2> QED
    BY <2>1, <2>2, <2>3, <2>5 DEF ToSet
<1>7. ToSet(left) \in SUBSET Emails
  <2>1. left \in Seq(Emails)
    BY <1>0, <1>2, SkipIs
  <2> QED
    BY <2>1, LenProperties DEF ToSet
<1>8. \A e \in ToSet(left) : counted[e] = <<>> /\ copies[e] <= lost /\ e \in Sent
  <2>1. ASSUME NEW j \in DOMAIN ready, j > n
        PROVE  counted[ready[j]] = <<>> /\ copies[ready[j]] <= lost /\ ready[j] \in Sent
    <3>1. ready[j] \in Sent /\ ready[j] \in Emails
      BY <1>2 DEF Sent, ToSet
    <3>2. counted[ready[j]] = <<>>
      BY <1>1, <3>1 DEF IInv, Told, Unsettled
    <3>3. copies[ready[j]] <= lost
      BY <1>0, <2>1 DEF IInv, Untaken, Untold
    <3> QED
      BY <3>1, <3>2, <3>3
  <2> QED
    BY <1>6, <1>7, <2>1
<1>9. /\ counted' \in [Emails -> Seq(Outcome)]
      /\ \A e \in ToSet(left) : counted'[e] = <<"failed">>
      /\ \A e \in Emails \ ToSet(left) : counted'[e] = counted[e]
  <2>1. PICK S : S = ToSet(left)
    OBVIOUS
  <2>2. Typed /\ "failed" \in Outcome /\ S \in SUBSET Emails /\ \A e \in S : counted[e] = <<>>
    BY <1>2, <1>7, <1>8, <2>1 DEF Outcome
  <2>3. /\ Counts(S, "failed") \in [Emails -> Seq(Outcome)]
        /\ \A e \in S : Counts(S, "failed")[e] = <<"failed">>
        /\ \A e \in Emails \ S : Counts(S, "failed")[e] = counted[e]
    BY <2>2, CountedNow, Zenon
  <2> QED
    BY <1>1, <2>1, <2>3
<1>10. Len(<<"failed">>) = 1 /\ DOMAIN <<"failed">> = 1..1 /\ <<"failed">>[1] = "failed"
  BY OneIs, "failed" \in Outcome DEF Outcome
<1>11. Sent' = Sent \ ToSet(left)
  <2>1. \A e : e \in Sent <=> \E j \in DOMAIN ready : e = ready[j]
    BY DEF Sent, ToSet
  <2>2. \A e : e \in Sent' <=> \E j \in 1..n : e = ready[j]
    BY <1>1, <1>5 DEF Sent, ToSet
  <2>3. \A j \in DOMAIN ready : j \in 1..n <=> ~(j > n)
    BY <1>2
  <2>4. \A j \in 1..n : j \in DOMAIN ready
    BY <1>5
  <2>5. ASSUME NEW j \in DOMAIN ready
        PROVE  ready[j] \in ToSet(left) <=> j > n
    BY <1>2, <1>6
  <2> QED
    BY <2>1, <2>2, <2>3, <2>4, <2>5
<1>12. /\ head = {} /\ parts' \in Seq(Seq(Emails)) /\ Len(parts') = 0
       /\ rest \intersect Sent = {} /\ retry \intersect Sent = {} /\ again \intersect Sent = {}
  BY <1>1, EmptySeq DEF IInv, Phased, Apart
<1>13. Typed'
  BY <1>0, <1>1, <1>2, <1>4, <1>5, <1>9, <1>12 DEF Typed
<1>14. Apart' /\ Phased'
  <2>1. \A j, k \in DOMAIN ready' : ready'[j] = ready'[k] => j = k
    BY <1>1, <1>2, <1>5
  <2> QED
    BY <1>1, <1>11, <1>12, <2>1 DEF IInv, Apart, Phased
<1>15. Told'
  <2>1. Unsettled' = Unsettled \ ToSet(left)
    BY <1>1, <1>8, <1>11, <1>12 DEF Unsettled
  <2>2. \A e \in Emails : (IF e \in Unsettled THEN counted[e] = <<>> ELSE Len(counted[e]) = 1)
    BY <1>1 DEF IInv, Told
  <2> QED
    BY <1>1, <1>9, <1>10, <2>1, <2>2 DEF Told
<1>16. Untaken'
  <2>1. \A e \in rest \union head \union retry \union again : e \in Emails /\ copies[e] <= lost
    BY DEF IInv, Typed, Untaken
  <2>2. \A j \in DOMAIN told : Untold(j)' => copies[told[j]] <= lost /\ told[j] \in Emails
    <3>1. \A j \in DOMAIN told : Untold(j)' => Untold(j)
      BY <1>1 DEF Untold
    <3> QED
      BY <1>2, <1>5, <3>1 DEF IInv, Untaken
  <2> QED
    BY <1>1, <1>4, <2>1, <2>2 DEF Untaken
<1>17. ResultsTrue'
  BY <1>1, <1>2, <1>4, <1>5 DEF IInv, ResultsTrue
<1>18. Cut'
  <2>1. PICK cut : cut = [k \in 0..0 |-> n]
    OBVIOUS
  <2>2. CutAt(cut, parts', Len(results'), ready')
    BY <1>0, <1>1, <1>2, <1>5, <1>12, <2>1 DEF CutAt
  <2> QED
    BY <2>2 DEF Cut
<1>19. CountedTrue'
  <2>1. \A e \in Emails : \A i \in DOMAIN counted[e] : counted[e][i] \in Outcome
    <3>1. counted \in [Emails -> Seq(Outcome)]
      BY DEF IInv, Typed
    <3> QED
      BY <3>1, LenProperties, ElementOfSeq
  <2>2. \A e \in ToSet(left) : Justified(e, "failed")'
    <3>1. \A e \in ToSet(left) : lost = 0 => ~OnTarget(e)
      BY <1>2, <1>7, <1>8 DEF OnTarget
    <3> QED
      BY <1>4, <3>1 DEF Justified, OnTarget
  <2>3. ASSUME NEW e \in Emails, NEW i \in DOMAIN counted'[e]
        PROVE  Justified(e, counted[e][i])'
    <3>1. PICK as : as = counted'[e][i]
      OBVIOUS
    <3>2. CASE e \in ToSet(left)
      <4>1. as = "failed"
        BY <1>9, <1>10, <3>1, <3>2
      <4>2. Justified(e, as)'
        BY <2>2, <3>2, <4>1
      <4> QED
        BY <3>1, <4>2
    <3>3. CASE e \notin ToSet(left)
      <4>1. i \in DOMAIN counted[e] /\ as = counted[e][i]
        BY <1>9, <3>1, <3>3
      <4>2. Justified(e, as) /\ as \in Outcome
        BY <2>1, <4>1 DEF IInv, CountedTrue
      <4>3. Justified(e, as)'
        BY <1>4, <4>2
      <4> QED
        BY <3>1, <4>3
    <3> QED
      BY <3>2, <3>3
  <2> QED
    BY <2>3 DEF CountedTrue
<1> QED
  BY <1>4, <1>13, <1>14, <1>15, <1>16, <1>17, <1>18, <1>19 DEF IInv
(* All requests were answered: each email is counted, or uploaded again.   *)
LEMMA SettleKeeps ==
  ASSUME IInv, Settle
  PROVE  IInv'
<1>0. PICK created, skipped, failed, redo :
        /\ created = With({"created"}) /\ skipped = With({"skipped"})
        /\ redo = Retryable /\ failed = With(ItemOutcomes) \ redo
  OBVIOUS
<1>1. /\ pc = "send" /\ parts = <<>> /\ pc' = "batches"
      /\ counted' = [e \in Emails |-> IF e \in created THEN Append(counted[e], "created")
                                      ELSE IF e \in skipped THEN Append(counted[e], "skipped")
                                      ELSE IF e \in failed THEN Append(counted[e], "failed")
                                      ELSE counted[e]]
      /\ again' = again \union redo
      /\ ready' = <<>> /\ results' = <<>> /\ parts' = <<>>
      /\ UNCHANGED <<rest, retry, head>> /\ UNCHANGED <<copies, lost>>
  BY <1>0 DEF Settle, targetVars
<1>2. /\ Typed /\ ready \in Seq(Emails) /\ results \in Seq(ItemOutcomes)
      /\ DOMAIN ready = 1..Len(ready) /\ DOMAIN results = 1..Len(results)
      /\ \A j, k \in DOMAIN ready : ready[j] = ready[k] => j = k
      /\ \A j \in DOMAIN ready : ready[j] \in Emails
      /\ \A j \in DOMAIN results : results[j] \in ItemOutcomes
      /\ Len(results) \in Nat /\ Len(ready) \in Nat
      /\ lost \in Nat /\ copies \in [Emails -> Nat]
  <2>1. Typed /\ ready \in Seq(Emails) /\ results \in Seq(ItemOutcomes)
        /\ lost \in Nat /\ copies \in [Emails -> Nat]
    BY DEF IInv, Typed
  <2> QED
    BY <2>1, LenProperties DEF IInv, Apart
<1>3. DOMAIN ready = DOMAIN results
  <2>1. PICK cut : CutAt(cut, parts, Len(results), ready)
    BY DEF IInv, Cut
  <2>2. Len(parts) = 0
    BY <1>1
  <2>3. Len(results) = Len(ready)
    BY <2>1, <2>2 DEF CutAt
  <2> QED
    BY <1>2, <2>3
<1>4. \A A : With(A) = {ready[j] : j \in {k \in DOMAIN ready : results[k] \in A}}
  BY <1>3 DEF With
<1>5. \A j \in DOMAIN ready : /\ ready[j] \in created <=> results[j] = "created"
                              /\ ready[j] \in skipped <=> results[j] = "skipped"
                              /\ ready[j] \in failed <=> ready[j] \notin redo
                              /\ ready[j] \in redo => results[j] = "blobNotFound"
  <2>1. \A A : \A j \in DOMAIN ready : ready[j] \in With(A) <=> results[j] \in A
    BY <1>2, <1>4
  <2>2. \A j \in DOMAIN ready : results[j] \in ItemOutcomes
    BY <1>2, <1>3
  <2>3. redo \subseteq With({"blobNotFound"})
    BY <1>0 DEF Retryable
  <2> QED
    BY <1>0, <2>1, <2>2, <2>3
<1>6. /\ created \subseteq Sent /\ skipped \subseteq Sent /\ failed \subseteq Sent /\ redo \subseteq Sent
      /\ Sent \subseteq Emails
  <2>1. \A A : With(A) \subseteq Sent
    BY <1>4 DEF Sent, ToSet
  <2>2. redo \subseteq With({"blobNotFound"})
    BY <1>0 DEF Retryable
  <2>3. Sent \subseteq Emails
    BY <1>2 DEF Sent, ToSet
  <2> QED
    BY <1>0, <2>1, <2>2, <2>3
<1>7. \A e \in Sent : \E j \in DOMAIN ready : e = ready[j]
  BY DEF Sent, ToSet
<1>8. \A e \in Sent : counted[e] = <<>>
  BY <1>1, <1>6 DEF IInv, Told, Unsettled
<1>9. \A as \in Outcome : /\ Append(<<>>, as) = <<as>> /\ <<as>> \in Seq(Outcome) /\ Len(<<as>>) = 1
                          /\ DOMAIN <<as>> = 1..1 /\ <<as>>[1] = as
  <2>1. ASSUME NEW as \in Outcome
        PROVE  /\ Append(<<>>, as) = <<as>> /\ <<as>> \in Seq(Outcome) /\ Len(<<as>>) = 1
               /\ DOMAIN <<as>> = 1..1 /\ <<as>>[1] = as
    <3>1. <<as>> \in Seq(Outcome) /\ Len(<<as>>) = 1 /\ DOMAIN <<as>> = 1..1 /\ <<as>>[1] = as
      BY OneIs
    <3>2. <<>> \in Seq(Outcome)
      BY EmptySeq
    <3>3. Append(<<>>, as) = <<as>>
      BY <3>1, <3>2, AppendIsConcat, ConcatEmptySeq
    <3> QED
      BY <3>1, <3>3
  <2> QED
    BY <2>1
<1>10. /\ \A e \in created : counted'[e] = <<"created">>
       /\ \A e \in skipped : counted'[e] = <<"skipped">>
       /\ \A e \in failed : e \notin created /\ e \notin skipped => counted'[e] = <<"failed">>
       /\ \A e \in Emails : e \notin created /\ e \notin skipped /\ e \notin failed => counted'[e] = counted[e]
  <2>1. \A e \in created : counted'[e] = Append(<<>>, "created")
    BY <1>1, <1>6, <1>8
  <2>2. \A e \in skipped : counted'[e] = Append(<<>>, "skipped")
    <3>1. \A e \in skipped : e \notin created
      BY <1>5, <1>6, <1>7
    <3> QED
      BY <1>1, <1>6, <1>8, <3>1
  <2>3. \A e \in failed : e \notin created /\ e \notin skipped => counted'[e] = Append(<<>>, "failed")
    BY <1>1, <1>6, <1>8
  <2>4. \A e \in Emails : e \notin created /\ e \notin skipped /\ e \notin failed => counted'[e] = counted[e]
    BY <1>1
  <2>5. "created" \in Outcome /\ "skipped" \in Outcome /\ "failed" \in Outcome
    BY DEF Outcome
  <2>6. Append(<<>>, "created") = <<"created">> /\ Append(<<>>, "skipped") = <<"skipped">>
        /\ Append(<<>>, "failed") = <<"failed">>
    BY <1>9, <2>5
  <2> QED
    BY <2>1, <2>2, <2>3, <2>4, <2>6
<1>11. \A e \in Emails :
          \/ e \notin Sent /\ e \notin redo /\ counted'[e] = counted[e]
          \/ e \in redo /\ counted'[e] = <<>>
          \/ e \in Sent /\ e \notin redo /\ \E as \in Outcome : counted'[e] = <<as>> /\ Justified(e, as)'
  <2>1. ASSUME NEW e \in Emails, e \notin Sent
        PROVE  e \notin redo /\ counted'[e] = counted[e]
    BY <1>6, <1>10, <2>1
  <2>2. ASSUME NEW e \in redo
        PROVE  counted'[e] = <<>>
    <3>1. e \in Sent /\ e \notin created /\ e \notin skipped /\ e \notin failed /\ e \in Emails
      BY <1>5, <1>6, <1>7
    <3> QED
      BY <1>8, <1>10, <3>1
  <2>3. ASSUME NEW e \in Sent, e \notin redo
        PROVE  \E as \in Outcome : counted'[e] = <<as>> /\ Justified(e, as)'
    <3>1. PICK j \in DOMAIN ready : e = ready[j]
      BY <1>7
    <3>2. e \in Emails /\ e \in failed /\ j \in DOMAIN results
      BY <1>2, <1>3, <1>5, <2>3, <3>1
    <3>3. CASE results[j] = "created"
      <4>1. counted'[e] = <<"created">> /\ OnTarget(e)
        BY <1>5, <1>10, <3>1, <3>2, <3>3 DEF IInv, ResultsTrue
      <4>2. Justified(e, "created")'
        BY <1>1, <4>1 DEF Justified, OnTarget
      <4> QED
        BY <4>1, <4>2 DEF Outcome
    <3>4. CASE results[j] = "skipped"
      <4>1. counted'[e] = <<"skipped">> /\ BlobOnTarget(Blob[e])
        BY <1>5, <1>10, <3>1, <3>2, <3>4 DEF IInv, ResultsTrue
      <4>2. Justified(e, "skipped")'
        BY <1>1, <4>1 DEF Justified, BlobOnTarget, OnTarget
      <4> QED
        BY <4>1, <4>2 DEF Outcome
    <3>5. CASE results[j] \notin {"created", "skipped"}
      <4>1. counted'[e] = <<"failed">>
        BY <1>5, <1>10, <3>1, <3>2, <3>5
      <4>2. copies[e] <= lost
        BY <3>1, <3>5 DEF IInv, Untaken, Untold
      <4>3. lost = 0 => ~OnTarget(e)
        BY <1>2, <3>2, <4>2 DEF OnTarget
      <4>4. Justified(e, "failed")'
        BY <1>1, <4>3 DEF Justified, OnTarget
      <4> QED
        BY <4>1, <4>4 DEF Outcome
    <3> QED
      BY <3>3, <3>4, <3>5
  <2> QED
    BY <2>1, <2>2, <2>3
<1>12. counted' \in [Emails -> Seq(Outcome)]
  <2>1. \A e \in Emails : counted'[e] \in Seq(Outcome)
    <3>1. ASSUME NEW e \in Emails
          PROVE  counted'[e] \in Seq(Outcome)
      <4>1. counted[e] \in Seq(Outcome) /\ <<>> \in Seq(Outcome)
        BY <1>2, EmptySeq DEF Typed
      <4>2. \A as \in Outcome : <<as>> \in Seq(Outcome)
        BY <1>9
      <4> QED
        BY <1>11, <4>1, <4>2
    <3> QED
      BY <3>1
  <2> QED
    BY <1>1, <2>1
<1>13. /\ Sent' = {} /\ head = {} /\ retry \subseteq Emails /\ again \subseteq Emails /\ rest \subseteq Emails
       /\ <<>> \in Seq(Emails) /\ <<>> \in Seq(ItemOutcomes) /\ <<>> \in Seq(Seq(Emails))
       /\ Len(<<>>) = 0 /\ DOMAIN <<>> = {}
       /\ rest \intersect (Sent \union retry \union again) = {} /\ retry \intersect (Sent \union again) = {}
       /\ again \intersect Sent = {}
  BY <1>1, EmptySeq DEF IInv, Typed, Phased, Apart, Sent, ToSet
<1>14. Typed'
  BY <1>1, <1>2, <1>6, <1>12, <1>13 DEF Typed, Phases
<1>15. Apart' /\ Phased'
  BY <1>1, <1>6, <1>13 DEF Apart, Phased
<1>16. Told'
  <2>1. Unsettled' = rest \union retry \union again \union redo
    BY <1>1, <1>13 DEF Unsettled
  <2>2. \A e \in Emails : (IF e \in rest \union Sent \union retry \union again
                            THEN counted[e] = <<>> ELSE Len(counted[e]) = 1)
    BY <1>1, <1>13 DEF IInv, Told, Unsettled
  <2>3. \A e \in Emails : (IF e \in rest \union retry \union again \union redo
                            THEN counted'[e] = <<>> ELSE Len(counted'[e]) = 1)
    BY <1>9, <1>11, <1>13, <2>2
  <2> QED
    BY <1>1, <2>1, <2>3 DEF Told
<1>17. Untaken'
  <2>1. \A e \in rest \union retry \union again : copies[e] <= lost
    BY DEF IInv, Untaken
  <2>2. \A e \in redo : copies[e] <= lost
    <3>1. \A j \in DOMAIN ready : ready[j] \in redo => Untold(j)
      BY <1>5 DEF Untold
    <3> QED
      BY <1>6, <1>7, <3>1 DEF IInv, Untaken
  <2> QED
    BY <1>1, <1>13, <2>1, <2>2 DEF Untaken
<1>18. ResultsTrue'
  BY <1>1, <1>13 DEF ResultsTrue
<1>19. Cut'
  <2>1. PICK cut : cut = [k \in 0..0 |-> 0]
    OBVIOUS
  <2>2. CutAt(cut, parts', Len(results'), ready')
    BY <1>1, <1>13, <2>1 DEF CutAt
  <2> QED
    BY <2>2 DEF Cut
<1>20. CountedTrue'
  <2>1. ASSUME NEW e \in Emails, NEW i \in DOMAIN counted'[e]
        PROVE  Justified(e, counted[e][i])'
    <3>1. CASE e \notin Sent
      <4>1. i \in DOMAIN counted[e] /\ counted'[e] = counted[e]
        BY <1>6, <1>11, <3>1
      <4>2. PICK as : as = counted[e][i]
        OBVIOUS
      <4>3. Justified(e, as)
        BY <4>1, <4>2 DEF IInv, CountedTrue
      <4>4. Justified(e, as)'
        BY <1>1, <4>3, SameTarget
      <4> QED
        BY <4>1, <4>2, <4>4
    <3>2. CASE e \in redo
      BY <1>6, <1>11, <1>13, <3>2
    <3>3. CASE e \in Sent /\ e \notin redo
      <4>1. PICK as \in Outcome : counted'[e] = <<as>> /\ Justified(e, as)'
        BY <1>11, <3>3
      <4>2. DOMAIN <<as>> = 1..1 /\ <<as>>[1] = as
        BY <1>9
      <4>3. i = 1
        BY <4>1, <4>2
      <4>4. counted'[e][i] = as
        BY <4>1, <4>2, <4>3
      <4> QED
        BY <4>1, <4>4
    <3> QED
      BY <3>1, <3>2, <3>3
  <2> QED
    BY <2>1 DEF CountedTrue
<1>21. NoDuplicates'
  BY <1>1, SameTarget DEF IInv
<1> QED
  BY <1>14, <1>15, <1>16, <1>17, <1>18, <1>19, <1>20, <1>21 DEF IInv
-----------------------------------------------------------------------------
(* The theorems.                                                           *)

(* Before the first run nothing is on the target and nothing is counted.   *)
LEMMA AtFirst == Init => IInv
<1>1. SUFFICES ASSUME Init
               PROVE  IInv
  OBVIOUS
<1>2. /\ copies = [e \in Emails |-> 0] /\ pc = "idle" /\ rest = {} /\ retry = {} /\ again = {} /\ head = {}
      /\ ready = <<>> /\ parts = <<>> /\ results = <<>> /\ counted = [e \in Emails |-> <<>>] /\ lost = 0
  BY <1>1 DEF Init
<1>3. <<>> \in Seq(Emails) /\ <<>> \in Seq(ItemOutcomes) /\ <<>> \in Seq(Seq(Emails)) /\ <<>> \in Seq(Outcome)
      /\ Len(<<>>) = 0 /\ DOMAIN <<>> = {}
  BY EmptySeq
<1>4. Typed
  BY <1>2, <1>3 DEF Typed, Phases
<1>5. Apart /\ Phased /\ Told /\ Untaken /\ ResultsTrue
  BY <1>2, <1>3 DEF Apart, Phased, Told, Untaken, ResultsTrue, Sent, ToSet
<1>6. Cut
  <2> DEFINE cut == [k \in 0..0 |-> 0]
  <2>1. CutAt(cut, parts, Len(results), ready)
    BY <1>2, <1>3 DEF CutAt
  <2> HIDE DEF cut
  <2> QED
    BY <2>1 DEF Cut
<1>7. CountedTrue /\ NoDuplicates
  BY <1>2, <1>3 DEF CountedTrue, NoDuplicates
<1> QED
  BY <1>4, <1>5, <1>6, <1>7 DEF IInv

(* Every step keeps the invariant.                                         *)
LEMMA StepsKeep == IInv /\ [Next]_vars => IInv'
<1>1. SUFFICES ASSUME IInv, [Next]_vars
               PROVE  IInv'
  OBVIOUS
<1>2. CASE Reconcile
  BY <1>1, <1>2, ReconcileKeeps
<1>3. CASE ExportChunk
  BY <1>1, <1>3, ExportChunkKeeps
<1>4. CASE Finish \/ NextBatch \/ NextRound \/ ChunkDone
  BY <1>1, <1>4, MovesKeep
<1>5. CASE \E bad : Upload(bad)
  BY <1>1, <1>5, UploadKeeps
<1>6. CASE Split
  BY <1>1, <1>6, SplitKeeps
<1>7. CASE \E S : Answered(S)
  BY <1>1, <1>7, AnsweredKeeps
<1>8. CASE AnswerLost
  BY <1>1, <1>8, AnswerLostKeeps
<1>9. CASE MethodFails
  BY <1>1, <1>9, MethodFailsKeeps
<1>10. CASE Settle
  BY <1>1, <1>10, SettleKeeps
<1>11. CASE Abort
  BY <1>1, <1>11, AbortKeeps
<1>12. CASE (\E b \in held : LoseBlob(b)) \/ UNCHANGED vars
  BY <1>1, <1>12, StutterKeeps
<1> QED
  BY <1>1, <1>2, <1>3, <1>4, <1>5, <1>6, <1>7, <1>8, <1>9, <1>10, <1>11, <1>12
  DEF Next, Step, Failure

(* The invariant holds in every state.                                     *)
LEMMA Always == Spec => []IInv
  BY AtFirst, StepsKeep, PTL DEF Spec

(* No more of them than asked for.                                         *)
LEMMA LowestFew ==
  ASSUME NEW S \in SUBSET Emails, NEW n \in Nat
  PROVE  IsFiniteSet(Lowest(S, n)) /\ Cardinality(Lowest(S, n)) \in 0..n
<1> DEFINE L == Lowest(S, n)
           Below(e) == {d \in S : d < e}
<1>1. IsFiniteSet(S) /\ S \in SUBSET Nat
  <2>1. IsFiniteSet(Emails) /\ Emails \subseteq Nat
    BY FS_Interval, EmailsAssumption DEF Emails
  <2> QED
    BY <2>1, FS_Subset
<1>2. L \subseteq S /\ \A e \in L : Cardinality(Below(e)) < n
  BY DEF Lowest
<1>3. IsFiniteSet(L) /\ Cardinality(L) \in Nat /\ L \in SUBSET Nat
  <2> HIDE DEF L
  <2> QED
    BY <1>1, <1>2, FS_Subset, FS_CardinalityType
<1> HIDE DEF L
<1>4. CASE L = {}
  BY <1>3, <1>4, FS_EmptySet DEF L
<1>5. CASE L # {}
  <2>1. PICK m \in L : \A k \in L : k <= m
    BY <1>3, <1>5, Largest
  <2> DEFINE B == Below(m)
             R == L \ {m}
  <2>2. IsFiniteSet(B) /\ Cardinality(B) \in Nat /\ Cardinality(B) < n /\ R \subseteq B
    <3>1. B \subseteq S
      OBVIOUS
    <3>2. \A k \in R : k \in S /\ k \in Nat /\ m \in Nat /\ k <= m /\ k # m
      BY <1>2, <1>3, <2>1
    <3>3. R \subseteq B
      BY <3>2
    <3>4. Cardinality(B) < n
      BY <1>2, <2>1
    <3> HIDE DEF B, R
    <3> QED
      BY <1>1, <3>1, <3>3, <3>4, FS_Subset, FS_CardinalityType
  <2>3. Cardinality(R) = Cardinality(L) - 1
    BY <1>3, <2>1, FS_RemoveElement
  <2> HIDE DEF B, R
  <2>4. Cardinality(R) <= Cardinality(B)
    BY <2>2, FS_Subset
  <2>5. Cardinality(L) <= n
    BY <1>3, <2>2, <2>3, <2>4
  <2> QED
    BY <1>3, <2>5 DEF L
<1> QED
  BY <1>4, <1>5

(* What TypeOK says beyond the invariant.                                  *)
Bounded ==
  /\ target \in Targets
  /\ held \subseteq {Blob[e] : e \in Emails} /\ cache \subseteq {Blob[e] : e \in Emails}
  /\ attempt \in {"first", "reupload", "last"}
  /\ batch \in 1..MaxObjectsInSet /\ size \in 0..MaxObjectsInSet
  /\ attempt # "first" => size > 0
  /\ faults \in 0..MaxFaults /\ lost \in 0..faults

(* Half of a limit is a limit.                                             *)
LEMMA HalfIs ==
  ASSUME NEW m \in Nat \ {0}, NEW n \in 0..m
  PROVE  Half(n) \in 1..m
<1>1. n \div 2 \in 0..m
  OBVIOUS
<1> QED
  BY <1>1 DEF Half

(* The batches never exceed the limit of the session, and no round has     *)
(* empty ones.                                                             *)
LEMMA BoundedKept == IInv /\ Bounded /\ [Next]_vars => Bounded'
<1>1. SUFFICES ASSUME IInv, Bounded, [Next]_vars
               PROVE  Bounded'
  OBVIOUS
<1>2. MaxObjectsInSet \in Nat \ {0} /\ MaxFaults \in Nat
  BY LimitsAssumption
<1>3. head \subseteq Emails /\ rest \subseteq Emails
  BY <1>1 DEF IInv, Typed
<1>4. Half(size) \in 1..MaxObjectsInSet /\ Half(batch) \in 1..MaxObjectsInSet
  <2>1. size \in 0..MaxObjectsInSet /\ batch \in 0..MaxObjectsInSet
    BY <1>1, <1>2 DEF Bounded
  <2> QED
    BY <1>2, <2>1, HalfIs
<1>5. Fault => /\ faults' \in 0..MaxFaults /\ lost \in 0..faults' /\ lost + 1 \in 0..faults'
  BY <1>1, <1>2 DEF Bounded, Fault
<1>6. CASE Reconcile
  BY <1>1, <1>2, <1>6 DEF Reconcile, targetVars, Bounded
<1>7. CASE ExportChunk
  <2>1. size' = Cardinality(head') /\ head' \subseteq Lowest(rest, batch) /\ attempt' = "first"
        /\ UNCHANGED <<targetVars, cache, batch, faults, lost>>
    BY <1>7 DEF ExportChunk
  <2>2. IsFiniteSet(Lowest(rest, batch)) /\ Cardinality(Lowest(rest, batch)) \in 0..batch
    <3>1. batch \in Nat
      BY <1>1, <1>2 DEF Bounded
    <3> QED
      BY <1>3, <3>1, LowestFew
  <2>3. Cardinality(head') <= Cardinality(Lowest(rest, batch)) /\ Cardinality(head') \in Nat
    BY <2>1, <2>2, FS_Subset, FS_CardinalityType
  <2>4. size' \in 0..MaxObjectsInSet
    BY <1>1, <1>2, <2>1, <2>2, <2>3 DEF Bounded
  <2> QED
    BY <1>1, <2>1, <2>4 DEF Bounded, targetVars
<1>8. CASE \E bad : Upload(bad)
  <2>1. PICK bad : Upload(bad)
    BY <1>8
  <2> DEFINE needed == {Blob[e] : e \in head} \ cache
  <2>2. needed \subseteq {Blob[e] : e \in Emails}
    BY <1>3
  <2>3. /\ cache' = cache \union (needed \ bad) /\ held' = held \union (needed \ bad)
        /\ (UNCHANGED faults \/ Fault)
        /\ UNCHANGED <<target, chunkVars, lost>>
    BY <2>1 DEF Upload
  <2> HIDE DEF needed
  <2>4. faults' \in 0..MaxFaults /\ lost' \in 0..faults'
    BY <1>1, <1>5, <2>3 DEF Bounded
  <2>5. UNCHANGED <<target, attempt, batch, size>>
    BY <2>3 DEF chunkVars
  <2>6. cache' \subseteq {Blob[e] : e \in Emails} /\ held' \subseteq {Blob[e] : e \in Emails}
    <3>1. PICK all : all = {Blob[e] : e \in Emails}
      OBVIOUS
    <3>2. cache \subseteq all /\ held \subseteq all /\ needed \subseteq all
      BY <1>1, <2>2, <3>1, Zenon DEF Bounded
    <3>3. cache' \subseteq all /\ held' \subseteq all
      BY <2>3, <3>2
    <3> QED
      BY <3>1, <3>3, Zenon
  <2> QED
    BY <1>1, <2>4, <2>5, <2>6 DEF Bounded
<1>9. CASE Split \/ Finish \/ NextBatch \/ ChunkDone \/ UNCHANGED vars
  <2>1. UNCHANGED <<target, held, cache, attempt, batch, size, faults, lost>>
    BY <1>9 DEF Split, Finish, NextBatch, ChunkDone, vars, targetVars, chunkVars
  <2> QED
    BY <1>1, <2>1 DEF Bounded
<1>10. CASE (\E S : Answered(S)) \/ AnswerLost \/ MethodFails \/ \E b \in held : LoseBlob(b)
  <2>1. UNCHANGED <<target, cache, attempt, batch, size>> /\ held' \subseteq held
    BY <1>10 DEF Answered, AnswerLost, MethodFails, LoseBlob, chunkVars
  <2>2. \/ UNCHANGED <<faults, lost>>
        \/ Fault /\ (lost' = lost \/ lost' = lost + 1)
    BY <1>10 DEF Answered, AnswerLost, MethodFails, LoseBlob
  <2>3. faults' \in 0..MaxFaults /\ lost' \in 0..faults'
    BY <1>1, <1>5, <2>2 DEF Bounded
  <2> QED
    BY <1>1, <2>1, <2>3 DEF Bounded
<1>11. CASE Settle
  <2>1. UNCHANGED <<target, held, cache, attempt, size, faults, lost>>
        /\ batch' \in {batch, Half(batch)}
    BY <1>11 DEF Settle, targetVars
  <2> QED
    BY <1>1, <1>4, <2>1 DEF Bounded
<1>12. CASE NextRound
  <2>1. UNCHANGED <<target, held, batch, faults, lost>> /\ cache' \subseteq cache
        /\ size' = Half(size) /\ attempt' \in {"last", "reupload"}
    BY <1>12 DEF NextRound, targetVars
  <2> QED
    BY <1>1, <1>4, <2>1 DEF Bounded
<1>13. CASE Abort
  <2>1. UNCHANGED <<target, held, lost>> /\ cache' = {} /\ size' = 0 /\ attempt' = "first"
        /\ batch' = MaxObjectsInSet /\ Fault
    BY <1>13 DEF Abort, targetVars
  <2> QED
    BY <1>1, <1>2, <1>5, <2>1 DEF Bounded
<1> QED
  BY <1>1, <1>6, <1>7, <1>8, <1>9, <1>10, <1>11, <1>12, <1>13 DEF Next, Step, Failure

(* The types hold, and the sizes of the chunks and of the re-upload        *)
(* batches stay between one and the limit of the session.                  *)
THEOREM TypesHold == Spec => []TypeOK
<1>1. Init => Bounded
  BY LimitsAssumption DEF Init, Bounded
<1>2. IInv /\ Bounded => TypeOK
  <2>1. SUFFICES ASSUME IInv, Bounded
                 PROVE  TypeOK
    OBVIOUS
  <2>2. ToSet(parts) \subseteq Seq(Emails)
    <3>1. parts \in Seq(Seq(Emails))
      BY <2>1 DEF IInv, Typed
    <3>2. \A k \in DOMAIN parts : parts[k] \in Seq(Emails)
      BY <3>1, LenProperties, ElementOfSeq
    <3> QED
      BY <3>2 DEF ToSet
  <2>3. counted \in [Emails -> Seq({"created", "skipped", "failed"})]
    BY <2>1 DEF IInv, Typed, Outcome
  <2> QED
    BY <2>1, <2>2, <2>3 DEF IInv, Typed, Bounded, TypeOK
<1> QED
  BY <1>1, <1>2, BoundedKept, Always, PTL DEF Spec

(* However the requests were cut, refused, lost and repeated, what is      *)
(* counted of an email is true of it, and a finished run counted each      *)
(* exactly once.                                                           *)
THEOREM CountsAreTrue == Spec => []CountsTrue
<1>1. IInv => CountsTrue
  <2>1. SUFFICES ASSUME IInv, NEW e \in Emails
                 PROVE  /\ CountedOnce(e)
                        /\ \A i \in DOMAIN counted[e] :
                             CASE counted[e][i] = "created" -> OnTarget(e)
                               [] counted[e][i] = "skipped" -> KeyOnTarget(Key[e]) \/ BlobOnTarget(Blob[e])
                               [] counted[e][i] = "failed"  -> lost = 0 => ~OnTarget(e)
    BY DEF CountsTrue
  <2>2. counted[e] \in Seq(Outcome)
    BY <2>1 DEF IInv, Typed
  <2>3. CountedOnce(e)
    <3>1. counted[e] = <<>> \/ Len(counted[e]) = 1
      BY <2>1 DEF IInv, Told
    <3>2. Len(counted[e]) = 0 \/ Len(counted[e]) = 1
      <4>1. Len(<<>>) = 0
        BY EmptySeq
      <4> QED
        BY <3>1, <4>1, Zenon
    <3>3. pc = "done" => Unsettled = {}
      BY <2>1 DEF IInv, Phased, Unsettled, Sent, ToSet
    <3>4. pc = "done" => Len(counted[e]) = 1
      BY <2>1, <3>3 DEF IInv, Told
    <3>5. \A l : l = 0 \/ l = 1 => l <= 1
      OBVIOUS
    <3>6. Len(counted[e]) <= 1
      BY <3>2, <3>5, Zenon
    <3> QED
      BY <3>4, <3>6, Zenon DEF CountedOnce
  <2>4. ASSUME NEW i \in DOMAIN counted[e]
        PROVE  CASE counted[e][i] = "created" -> OnTarget(e)
                 [] counted[e][i] = "skipped" -> KeyOnTarget(Key[e]) \/ BlobOnTarget(Blob[e])
                 [] counted[e][i] = "failed"  -> lost = 0 => ~OnTarget(e)
    <3>1. counted[e][i] \in Outcome
      BY <2>2, LenProperties, ElementOfSeq
    <3>2. Justified(e, counted[e][i])
      BY <2>1 DEF IInv, CountedTrue
    <3> QED
      BY <3>1, <3>2 DEF Justified, Outcome
  <2> QED
    BY <2>3, <2>4
<1> QED
  BY <1>1, Always, PTL

(* An email is on the target once, and once more for each answer that was  *)
(* lost, whatever the re-upload rounds and the next runs do.               *)
THEOREM NothingTwice == Spec => []NoDuplicates
<1>1. IInv => NoDuplicates
  BY DEF IInv
<1> QED
  BY <1>1, Always, PTL

=============================================================================
