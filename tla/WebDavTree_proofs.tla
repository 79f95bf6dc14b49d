-------------------------- MODULE WebDavTree_proofs --------------------------
(***************************************************************************)
(* That an import of a WebDAV tree keeps the archive a tree with unique    *)
(* names, deletes only what some listing left out, and copies the server   *)
(* exactly, with the names of now, when nothing failed and nothing moved:  *)
(* for any tree, titles, batch and bounds on changes and faults.           *)
(*                                                                         *)
(* The heart of the invariant is Accounted: a node that the server had all *)
(* along and that no listing named is below a collection of the queue, or  *)
(* below one that could not be listed to its end.  It needs that what the  *)
(* server had all along is closed towards the root (Missing).              *)
(***************************************************************************)
EXTENDS WebDavTree, FiniteSetTheorems, SequenceTheorems, TLAPS

Typed ==
  /\ on \subseteq Nodes /\ ver \in [Nodes -> Versions] /\ changes \in 0..MaxChanges
  /\ title \in [Dirs -> Names]
  /\ pc \in {"idle", "walk", "fetch", "sweep"}
  /\ known \subseteq Nodes /\ seen \subseteq Nodes /\ queue \in Seq(Collections)
  /\ plans \subseteq [n : Nodes \ Dirs, etag : Versions]
  /\ pending \in 0..(CommitBatch - 1) /\ faults \in 0..MaxFaults
  /\ failed \in BOOLEAN /\ moved \in BOOLEAN
  /\ blind \subseteq Collections /\ missed \subseteq Nodes

Served == IsTree(on) /\ \A n \in Nodes : ver[n] <= changes + 1

(* No row claims content it does not have, or that never was.              *)
NotAhead(R) == \A r \in R : r.n \notin Dirs => r.etag <= r.content /\ r.content <= ver[r.n]

(* The table that the step is about.                                       *)
Table == IF pc = "fetch" THEN draft ELSE rows
Tables ==
  /\ RowsOK(rows) /\ RowsOK(draft) /\ NotAhead(rows) /\ NotAhead(draft)
  /\ Archived(rows) \subseteq Archived(Table)

Housed(n) == Parent[n] \in Archived(Table) \union {Root}
Phased ==
  /\ pc = "walk" <=> queue # <<>>
  /\ pc = "fetch" <=> pc # "walk" /\ plans # {}
  /\ pc # "fetch" => pending = 0
  /\ Range(queue) \subseteq Archived(rows) \union {Root}
  /\ \A p \in plans : Housed(p.n) /\ p.n \in seen /\ p.etag <= ver[p.n]

(* What was missed is what the server lacks or lacked, and all below it.   *)
Missing ==
  pc # "idle" => /\ Nodes \ on \subseteq missed
                 /\ \A n \in Nodes \ missed : Parent[n] \notin missed

Queued(n) == Range(queue) \intersect Above[n] # {}
Accounted ==
  pc # "idle" => \A n \in Nodes \ (missed \union seen) : Queued(n) \/ Above[n] \intersect blind # {}

(* What is true of a run in which nothing failed, or nothing moved.        *)
Fresh(n) ==
  \E r \in Table : r.n = n /\ r.name = NameOf(n) /\ (n \notin Dirs => r.content = ver[n])
Clean ==
  pc # "idle" =>
    /\ Archived(Table) \subseteq known \union seen
    /\ ~failed => blind = {}
    /\ ~moved => missed = Nodes \ on /\ seen \subseteq on
    /\ ~failed /\ ~moved => \A n \in seen : Fresh(n) \/ \E p \in plans : p.n = n

IInv == Typed /\ Served /\ Tables /\ Phased /\ Missing /\ Accounted /\ Clean
-----------------------------------------------------------------------------
(* The collections a node is in. *)

(* They are its own one and the ones of each.                              *)
LEMMA AboveUp ==
  ASSUME NEW n \in Nodes
  PROVE  /\ Above[n] \subseteq Collections /\ Parent[n] \in Above[n] /\ Upward(Above[n])
         /\ Parent[n] \in Collections
<1>1. Above[n] = {d \in Collections :
                    \A S \in SUBSET Collections : Parent[n] \in S /\ Upward(S) => d \in S}
  BY DEF Above
<1>2. Parent[n] \in Collections BY TreeAssumption
<1>3. ASSUME NEW d \in Above[n] \ {Root}
      PROVE  Parent[d] \in Above[n]
  <2>1. d \in Nodes BY <1>1, <1>3, TreeAssumption DEF Collections
  <2>2. Parent[d] \in Collections BY <2>1, TreeAssumption
  <2>3. ASSUME NEW S \in SUBSET Collections, Parent[n] \in S, Upward(S)
        PROVE  Parent[d] \in S
    <3>1. d \in S BY <1>1, <1>3, <2>3
    <3> QED BY <3>1, <1>3, <2>3 DEF Upward
  <2> QED BY <1>1, <2>2, <2>3
<1> QED BY <1>1, <1>2, <1>3 DEF Upward

(* No set closed towards the root lacks one of them.                       *)
LEMMA AboveLeast ==
  ASSUME NEW n \in Nodes, NEW S \in SUBSET Collections, Parent[n] \in S, Upward(S)
  PROVE  Above[n] \subseteq S
  BY DEF Above

(* The collections above a node's collection are above the node.           *)
LEMMA AboveParent ==
  ASSUME NEW n \in Nodes, Parent[n] # Root
  PROVE  Parent[n] \in Nodes /\ Above[Parent[n]] \subseteq Above[n]
<1>1. Parent[n] \in Nodes BY TreeAssumption DEF Collections
<1>2. Upward(Above[n]) /\ Parent[n] \in Above[n] BY AboveUp
<1>3. Parent[Parent[n]] \in Above[n] BY <1>2 DEF Upward
<1>4. Above[n] \in SUBSET Collections BY AboveUp
<1> QED BY <1>1, <1>2, <1>3, <1>4, AboveLeast

(* From a collection above a node the way down goes through another.       *)
LEMMA AboveStep ==
  ASSUME NEW n \in Nodes, NEW d \in Above[n], d # Parent[n]
  PROVE  \E c \in Above[n] \ {Root} : Parent[c] = d
<1> SUFFICES ASSUME ~ \E c \in Above[n] \ {Root} : Parent[c] = d
             PROVE  FALSE
  OBVIOUS
<1> DEFINE S == Above[n] \ {d}
<1>1. Above[n] \subseteq Collections /\ Parent[n] \in Above[n] /\ Upward(Above[n]) BY AboveUp
<1>2. S \in SUBSET Collections /\ Parent[n] \in S BY <1>1
<1>3. Upward(S) BY <1>1 DEF Upward
<1>4. Above[n] \subseteq S BY <1>2, <1>3, AboveLeast
<1> QED BY <1>4

(* What the server keeps when it deletes a node with all that is below it  *)
(* is a tree.                                                              *)
LEMMA DeleteKeepsTree ==
  ASSUME on \subseteq Nodes, IsTree(on), NEW n \in on
  PROVE  IsTree(on \ ({n} \union Below(on, n)))
<1> DEFINE S == on \ ({n} \union Below(on, n))
<1>1. ASSUME NEW m \in S
      PROVE  Parent[m] \in S \union {Root}
  <2> SUFFICES ASSUME Parent[m] # Root
               PROVE  Parent[m] \in S
    OBVIOUS
  <2>1. m \in Nodes /\ m \in on /\ n \notin Above[m] BY <1>1 DEF Below
  <2>2. Parent[m] \in on BY <2>1 DEF IsTree
  <2>3. Parent[m] # n BY <2>1, AboveUp
  <2>4. Above[Parent[m]] \subseteq Above[m] BY <2>1, AboveParent
  <2> QED BY <2>1, <2>2, <2>3, <2>4 DEF Below
<1>2. \A m, k \in S : Parent[m] = Parent[k] /\ Name[m] = Name[k] => m = k
  BY DEF IsTree
<1> HIDE DEF S
<1>3. IsTree(S) BY <1>1, <1>2 DEF IsTree
<1> QED BY <1>3 DEF S

(* A node that was there all along is in collections that were.            *)
LEMMA AboveThere ==
  ASSUME Typed, Missing, pc # "idle", NEW n \in Nodes \ missed
  PROVE  Above[n] \intersect missed = {}
<1> DEFINE S == Collections \ missed
<1>0. Root \notin Nodes /\ Dirs \subseteq Nodes BY TreeAssumption
<1>1. missed \subseteq Nodes BY DEF Typed
<1>2. ASSUME NEW m \in Nodes \ missed
      PROVE  Parent[m] \in S
  BY <1>2, TreeAssumption DEF Missing
<1>3. Upward(S) BY <1>0, <1>2 DEF Upward, Collections
<1>4. Parent[n] \in S /\ S \in SUBSET Collections BY <1>2
<1>5. Above[n] \subseteq S BY <1>3, <1>4, AboveLeast
<1> QED BY <1>5

(* The orders of a finite set.                                             *)
LEMMA Covering ==
  ASSUME NEW S, IsFiniteSet(S), NEW s \in SetToSeqs(S)
  PROVE  s \in Seq(S) /\ Range(s) = S
<1> DEFINE D == 1..Cardinality(S)
<1>1. s \in [D -> S] /\ \A i, j \in D : i # j => s[i] # s[j] BY DEF SetToSeqs
<1>2. Cardinality(S) \in Nat BY FS_CardinalityType
<1>3. IsFiniteSet(D) /\ Cardinality(D) = Cardinality(S) BY <1>2, FS_Interval
<1>4. s \in Injection(D, S) BY <1>1 DEF Injection, IsInjective
<1>5. s \in Surjection(D, S) BY <1>3, <1>4, FS_Injection
<1>6. s \in Seq(S) BY <1>1, <1>2
<1> QED BY <1>1, <1>5, <1>6 DEF Surjection, Range
-----------------------------------------------------------------------------
(* The tables. *)

(* Rows of a table, by their nodes.                                        *)
LEMMA RowOf ==
  ASSUME NEW R, RowsOK(R)
  PROVE  /\ \A r \in R : r.n \in Nodes /\ r.etag \in Nat /\ r.content \in Nat /\ r.n \in Archived(R)
         /\ Archived(R) \subseteq Nodes
         /\ \A n \in Archived(R) : \E r \in R : r.n = n
<1>1. Versions \subseteq Nat BY BoundsAssumption DEF Versions
<1> QED BY <1>1 DEF RowsOK, Archived

(* A directory that is not refused has no row of its name beside it, be it *)
(* of before or of another that was written.                               *)
LEMMA NotRefused ==
  ASSUME NEW ds, NEW i, ~Refused(ds, i), Parent[ds[i]] # Root,
         NEW r \in Written(UpTo(ds, i - 1)), r.n # ds[i], Parent[r.n] = Parent[ds[i]]
  PROVE  r.name # title[ds[i]]
  BY DEF Refused, Clashes

(* The directories a listing writes fit into the table.                    *)
LEMMA DirsFit ==
  ASSUME title \in [Dirs -> Names], RowsOK(rows), NotAhead(rows),
         NEW h \in Archived(rows) \union {Root}, NEW ds, NEW k \in Nat,
         UpTo(ds, k) \subseteq Dirs, \A d \in UpTo(ds, k) : Parent[d] = h,
         \A j \in 1..k : ~Refused(ds, j)
  PROVE  /\ RowsOK(Written(UpTo(ds, k))) /\ NotAhead(Written(UpTo(ds, k)))
         /\ Archived(Written(UpTo(ds, k))) = Archived(rows) \union UpTo(ds, k)
<1> DEFINE D == UpTo(ds, k)
           Row(d) == [n |-> d, name |-> title[d], etag |-> 0, content |-> 0]
           T == Written(D)
<1>0. Dirs \subseteq Nodes BY TreeAssumption
<1>1. \A r \in T : (r \in rows /\ r.n \notin D) \/ (r.n \in D /\ r = Row(r.n))
  BY DEF Written
<1>2. (\A d \in D : Row(d) \in T) /\ (\A r \in rows : r.n \notin D => r \in T) BY DEF Written
<1>3. \A d : Row(d).n = d /\ Row(d).name = title[d] OBVIOUS
<1>4. Archived(T) = Archived(rows) \union D
  <2> HIDE DEF T, D, Row
  <2>1. Archived(T) \subseteq Archived(rows) \union D BY <1>1 DEF Archived
  <2>2. ASSUME NEW r \in rows
        PROVE  r.n \in Archived(T)
    <3>1. CASE r.n \in D BY <1>2, <1>3, <3>1 DEF Archived
    <3> QED BY <1>2, <3>1 DEF Archived
  <2>3. D \subseteq Archived(T) BY <1>2, <1>3 DEF Archived
  <2> QED BY <2>1, <2>2, <2>3 DEF Archived
<1>5. T \subseteq [n : Nodes, name : Names, etag : {0} \union Versions, content : {0} \union Versions]
  <2>1. \A d \in D : Row(d) \in [n : Nodes, name : Names, etag : {0} \union Versions,
                                 content : {0} \union Versions]
    BY <1>0
  <2> HIDE DEF T, D, Row
  <2> QED BY <1>1, <2>1 DEF RowsOK
<1>6. \A r, q \in T : r.n = q.n => r = q
  <2>1. \A r, q \in rows : r.n = q.n => r = q BY DEF RowsOK
  <2> HIDE DEF T, D, Row
  <2> QED BY <1>1, <2>1
<1>7. (\A r \in T : r.n \notin Dirs => r \in rows) BY <1>1
<1>8. \A n \in Archived(T) : Parent[n] \in Archived(T) \union {Root}
  <2> HIDE DEF T, D
  <2> QED BY <1>4 DEF RowsOK, D
<1>9. ASSUME NEW r \in T, NEW i \in 1..k, r.n # ds[i], r.n \notin D \/ \E j \in 1..(i - 1) : r.n = ds[j],
             Parent[r.n] = Parent[ds[i]], Parent[ds[i]] # Root
      PROVE  r.name # title[ds[i]]
  <2>1. r \in Written(UpTo(ds, i - 1))
    <3>1. UpTo(ds, i - 1) \subseteq D BY DEF UpTo
    <3>2. CASE r.n \notin D BY <1>1, <3>1, <3>2 DEF Written
    <3>3. CASE \E j \in 1..(i - 1) : r.n = ds[j]
      <4>1. r.n \in UpTo(ds, i - 1) BY <3>3 DEF UpTo
      <4>2. r = Row(r.n) BY <1>1, <3>1, <4>1
      <4> QED BY <4>1, <4>2 DEF Written
    <3> QED BY <1>9, <3>2, <3>3
  <2> QED BY <1>9, <2>1, NotRefused
<1>10. ASSUME NEW r \in T, NEW q \in T, q.n \in D,
              Parent[r.n] = Parent[q.n], Parent[q.n] # Root, r.name = q.name, r.n # q.n
       PROVE  FALSE
  <2>1. PICK i \in 1..k : q.n = ds[i] BY <1>10 DEF UpTo
  <2>2. q.name = title[ds[i]] BY <1>1, <1>3, <1>10, <2>1
  <2>3. r.n \in D BY <1>9, <1>10, <2>1, <2>2
  <2>4. PICK j \in 1..k : r.n = ds[j] BY <2>3 DEF UpTo
  <2>5. r.name = title[ds[j]] BY <1>1, <1>3, <2>3, <2>4
  <2>6. CASE j < i
    <3>1. j \in 1..(i - 1) BY <2>6
    <3> QED BY <1>9, <1>10, <2>1, <2>2, <2>4, <3>1
  <2>7. CASE i < j
    <3>1. i \in 1..(j - 1) BY <2>7
    <3> QED BY <1>9, <1>10, <2>1, <2>4, <2>5, <2>2, <3>1
  <2>8. i # j BY <1>10, <2>1, <2>4
  <2> QED BY <2>6, <2>7, <2>8
<1>11. ASSUME NEW r \in T, NEW q \in T,
              Parent[r.n] = Parent[q.n], Parent[q.n] # Root, r.name = q.name
       PROVE  r = q
  <2>1. CASE r.n \notin D /\ q.n \notin D BY <1>1, <1>11, <2>1 DEF RowsOK
  <2>2. CASE r.n = q.n BY <1>6, <2>2
  <2>3. CASE q.n \in D /\ r.n # q.n BY <1>10, <1>11, <2>3
  <2>4. CASE r.n \in D /\ r.n # q.n BY <1>10, <1>11, <2>4
  <2> QED BY <2>1, <2>2, <2>3, <2>4
<1>12. NotAhead(T) BY <1>7 DEF NotAhead
<1> HIDE DEF T
<1>13. RowsOK(T) BY <1>5, <1>6, <1>7, <1>8, <1>11 DEF RowsOK
<1> QED BY <1>4, <1>12, <1>13 DEF T

(* So does a file that was downloaded.                                     *)
LEMMA FileFits ==
  ASSUME ver \in [Nodes -> Versions], NEW R, RowsOK(R), NotAhead(R),
         NEW f \in Nodes \ Dirs, Parent[f] \in Archived(R) \union {Root}, ~Clashes(R, f, Name[f]),
         NEW e \in Versions, e <= ver[f]
  PROVE  /\ RowsOK(Stored(R, f, e, ver[f])) /\ NotAhead(Stored(R, f, e, ver[f]))
         /\ Archived(Stored(R, f, e, ver[f])) = Archived(R) \union {f}
         /\ \A r \in R : r.n # f => r \in Stored(R, f, e, ver[f])
         /\ \E r \in Stored(R, f, e, ver[f]) : r.n = f /\ r.name = Name[f] /\ r.content = ver[f]
<1> DEFINE new == [n |-> f, name |-> Name[f], etag |-> e, content |-> ver[f]]
           T == Stored(R, f, e, ver[f])
<1>0. ver[f] \in Versions OBVIOUS
<1>1. new.n = f /\ new.name = Name[f] /\ new.etag = e /\ new.content = ver[f] OBVIOUS
<1>2. T = {r \in R : r.n # f} \union {new} BY DEF Stored
<1> HIDE DEF T
<1>3. new \in [n : Nodes, name : Names, etag : {0} \union Versions, content : {0} \union Versions]
  BY <1>0 DEF Names
<1> HIDE DEF new
<1>4. Archived(T) = Archived(R) \union {f} BY <1>1, <1>2 DEF Archived
<1>5. T \subseteq [n : Nodes, name : Names, etag : {0} \union Versions, content : {0} \union Versions]
  BY <1>2, <1>3 DEF RowsOK
<1>6. /\ \A r, q \in T : r.n = q.n => r = q
      /\ \A r \in T : r.n \notin Dirs => r.name = Name[r.n]
  BY <1>1, <1>2 DEF RowsOK
<1>7. \A n \in Archived(T) : Parent[n] \in Archived(T) \union {Root} BY <1>4 DEF RowsOK
<1>8. ASSUME NEW r \in T, NEW q \in T,
             Parent[r.n] = Parent[q.n], Parent[q.n] # Root, r.name = q.name
      PROVE  r = q
  <2>1. ASSUME NEW a \in R, a.n # f, Parent[a.n] = Parent[f], Parent[f] # Root, a.name = Name[f]
        PROVE  FALSE
    BY <2>1 DEF Clashes
  <2>2. CASE r \in R /\ q \in R BY <1>8, <2>2 DEF RowsOK
  <2> QED BY <1>1, <1>2, <1>8, <2>1, <2>2
<1>9. NotAhead(T)
  <2>1. ver[f] \in Int BY <1>0 DEF Versions
  <2>2. new.etag <= new.content /\ new.content <= ver[new.n] BY <1>1, <2>1
  <2> QED BY <1>2, <2>2 DEF NotAhead
<1>10. RowsOK(T) BY <1>5, <1>6, <1>7, <1>8 DEF RowsOK
<1> QED BY <1>1, <1>2, <1>4, <1>9, <1>10 DEF T

(* A table that lost removable nodes is still a tree: what is below a      *)
(* directory that can be removed is removed too.                           *)
LEMMA SweptFits ==
  ASSUME RowsOK(rows), NotAhead(rows), NEW V \in SUBSET Nodes
  PROVE  /\ RowsOK({r \in rows : r.n \notin Removable(V)})
         /\ NotAhead({r \in rows : r.n \notin Removable(V)})
         /\ Archived({r \in rows : r.n \notin Removable(V)}) = Archived(rows) \ Removable(V)
<1> DEFINE T == {r \in rows : r.n \notin Removable(V)}
<1>1. T \subseteq rows OBVIOUS
<1>2. Archived(T) = Archived(rows) \ Removable(V) BY DEF Archived
<1>3. ASSUME NEW n \in Archived(T)
      PROVE  Parent[n] \in Archived(T) \union {Root}
  <2> SUFFICES ASSUME Parent[n] # Root, Parent[n] \in Removable(V)
               PROVE  FALSE
    BY <1>2 DEF RowsOK
  <2>1. n \in Nodes /\ n \in Archived(rows) BY <1>2, RowOf
  <2>2. Parent[n] \in Dirs BY <2>1, TreeAssumption DEF Collections
  <2>3. Below(Archived(rows), Parent[n]) \subseteq V \intersect Dirs BY <2>2 DEF Removable
  <2>4. n \in V \intersect Dirs BY <2>1, <2>3, AboveUp DEF Below
  <2>5. Below(Archived(rows), n) \subseteq Below(Archived(rows), Parent[n])
    <3> SUFFICES ASSUME NEW m \in Archived(rows), n \in Above[m]
                 PROVE  Parent[n] \in Above[m]
      BY DEF Below
    <3>1. m \in Nodes BY RowOf
    <3>2. Upward(Above[m]) BY <3>1, AboveUp
    <3>3. n # Root BY <2>1, TreeAssumption
    <3> QED BY <3>2, <3>3 DEF Upward
  <2>6. n \in Removable(V) BY <2>3, <2>4, <2>5 DEF Removable
  <2> QED BY <1>2, <2>6
<1>4. \A r, q \in T :
        Parent[r.n] = Parent[q.n] /\ Parent[q.n] # Root /\ r.name = q.name => r = q
  BY <1>1 DEF RowsOK
<1>5. NotAhead(T) BY DEF NotAhead
<1> HIDE DEF T
<1>6. /\ T \subseteq [n : Nodes, name : Names, etag : {0} \union Versions, content : {0} \union Versions]
      /\ \A r, q \in T : r.n = q.n => r = q
      /\ \A r \in T : r.n \notin Dirs => r.name = Name[r.n]
  BY <1>1 DEF RowsOK
<1>7. RowsOK(T) BY <1>3, <1>4, <1>6 DEF RowsOK
<1> QED BY <1>2, <1>5, <1>7 DEF T
-----------------------------------------------------------------------------
(* The start, and the steps of the server. *)

(* The invariant holds initially.                                          *)
LEMMA InitHolds == Init => IInv
<1> SUFFICES ASSUME Init PROVE IInv
  OBVIOUS
<1> USE DEF Init
<1>1. Typed
  <2>1. 1 \in Versions BY BoundsAssumption DEF Versions
  <2>2. 0 \in 0..MaxChanges /\ 0 \in 0..(CommitBatch - 1) /\ 0 \in 0..MaxFaults
    BY BoundsAssumption
  <2>3. on \subseteq Nodes /\ ver \in [Nodes -> Versions] BY <2>1
  <2>4. <<>> \in Seq(Collections) OBVIOUS
  <2> QED BY <2>2, <2>3, <2>4 DEF Typed
<1>2. Served BY DEF Served
<1>3. RowsOK({}) /\ NotAhead({}) BY DEF RowsOK, NotAhead, Archived
<1>4. Tables BY <1>3 DEF Tables, Table
<1>5. Phased
  <2>1. Range(<<>>) = {} BY DEF Range
  <2> QED BY <2>1 DEF Phased
<1>6. Missing /\ Accounted /\ Clean BY DEF Missing, Accounted, Clean
<1> QED BY <1>1, <1>2, <1>4, <1>5, <1>6 DEF IInv

(* While the run waits, its tables are fit for a server with newer files.  *)
LEMMA ServerMoves ==
  ASSUME IInv, Changing, Typed', Served', \A n \in Nodes : ver[n] <= ver'[n],
         missed \subseteq missed'
  PROVE  Tables' /\ Phased' /\ Accounted' /\ Clean'
<1> USE DEF Changing
<1>1. Table' = Table BY DEF Table
<1>2. ver \in [Nodes -> Int] /\ ver' \in [Nodes -> Int] BY DEF IInv, Typed, Versions
<1>3. ASSUME NEW R, RowsOK(R), NotAhead(R)
      PROVE  \A r \in R : r.n \notin Dirs => r.etag <= r.content /\ r.content <= ver'[r.n]
  BY <1>2, <1>3, RowOf DEF NotAhead
<1>4. Tables'
  <2>1. NotAhead(rows)' BY <1>3 DEF NotAhead, IInv, Tables
  <2>2. NotAhead(draft)' BY <1>3 DEF NotAhead, IInv, Tables
  <2> QED BY <1>1, <2>1, <2>2 DEF IInv, Tables, RowsOK, Archived, Table
<1>5. Phased'
  <2>1. ASSUME NEW p \in plans
        PROVE  p.etag <= ver'[p.n]
    <3>1. p.n \in Nodes /\ p.etag \in Int /\ p.etag <= ver[p.n]
      BY DEF IInv, Typed, Phased, Versions
    <3> QED BY <1>2, <3>1
  <2> QED BY <1>1, <2>1 DEF IInv, Phased, Housed, Archived
<1>6. Accounted' BY DEF IInv, Accounted, Queued
<1>7. Clean' BY <1>1 DEF IInv, Clean, Archived
<1> QED BY <1>4, <1>5, <1>6, <1>7

(* A node is made, or a file gets a new version.                           *)
LEMMA PutKeeps ==
  ASSUME IInv, NEW n \in Nodes, Put(n)
  PROVE  IInv'
<1> USE DEF Put, Changing
<1>1. changes' \in 0..MaxChanges BY BoundsAssumption DEF IInv, Typed
<1>2. changes' + 1 \in Versions BY <1>1, BoundsAssumption DEF Versions
<1>3. ver' \in [Nodes -> Versions] BY <1>2 DEF IInv, Typed
<1>4. Typed' BY <1>1, <1>3 DEF IInv, Typed
<1>5. \A m \in Nodes : ver[m] <= ver'[m] /\ ver'[m] <= changes' + 1
  <2>1. ver \in [Nodes -> Int] /\ changes \in Int BY DEF IInv, Typed, Versions
  <2>2. \A m \in Nodes : ver[m] <= changes + 1 BY DEF IInv, Served
  <2> QED BY <2>1, <2>2
<1>6. Served' BY <1>5 DEF IInv, Served, IsTree
<1>7. Tables' /\ Phased' /\ Accounted' /\ Clean' BY <1>4, <1>5, <1>6, ServerMoves
<1>8. Missing' BY DEF IInv, Missing
<1> QED BY <1>4, <1>6, <1>7, <1>8 DEF IInv

(* A node is deleted with all that is below it.                            *)
LEMMA DeleteKeeps ==
  ASSUME IInv, NEW n \in on, Delete(n)
  PROVE  IInv'
<1> USE DEF Delete, Changing
<1>1. changes' \in 0..MaxChanges BY BoundsAssumption DEF IInv, Typed
<1>2. Typed' BY <1>1 DEF IInv, Typed
<1>3. IsTree(on') BY DeleteKeepsTree DEF IInv, Typed, Served
<1>4. \A m \in Nodes : ver[m] <= ver'[m] /\ ver'[m] <= changes' + 1
  <2>1. ver \in [Nodes -> Int] /\ changes \in Int BY DEF IInv, Typed, Versions
  <2>2. \A m \in Nodes : ver[m] <= changes + 1 BY DEF IInv, Served
  <2> QED BY <2>1, <2>2
<1>5. Served' BY <1>3, <1>4 DEF Served, IsTree
<1>6. Tables' /\ Phased' /\ Accounted' /\ Clean' BY <1>2, <1>4, <1>5, ServerMoves
<1>7. Missing'
  <2> SUFFICES ASSUME pc # "idle", NEW m \in Nodes \ missed'
               PROVE  Parent[m] \notin missed'
    BY DEF Missing
  <2>1. m \in on' /\ m \notin missed OBVIOUS
  <2>2. Parent[m] \notin missed BY <2>1 DEF IInv, Missing
  <2>3. Parent[m] \in on' \union {Root} BY <1>3, <2>1 DEF IsTree
  <2> QED BY <2>2, <2>3, TreeAssumption
<1> QED BY <1>2, <1>5, <1>6, <1>7 DEF IInv

(* A directory gets another title.                                         *)
LEMMA RetitleKeeps ==
  ASSUME IInv, NEW d \in Dirs, NEW t, Retitle(d, t)
  PROVE  IInv'
<1> USE DEF Retitle, Changing
<1>1. changes' \in 0..MaxChanges BY BoundsAssumption DEF IInv, Typed
<1>2. t \in Names BY DEF Names
<1>3. Typed' BY <1>1, <1>2 DEF IInv, Typed
<1>4. \A m \in Nodes : ver[m] <= ver'[m] /\ ver'[m] <= changes' + 1
  <2>1. ver \in [Nodes -> Int] /\ changes \in Int BY DEF IInv, Typed, Versions
  <2>2. \A m \in Nodes : ver[m] <= changes + 1 BY DEF IInv, Served
  <2> QED BY <2>1, <2>2
<1>5. Served' BY <1>4 DEF IInv, Served, IsTree
<1>6. Tables' /\ Phased' /\ Accounted' /\ Clean' BY <1>3, <1>4, <1>5, ServerMoves
<1>7. Missing' BY DEF IInv, Missing
<1> QED BY <1>3, <1>5, <1>6, <1>7 DEF IInv
-----------------------------------------------------------------------------
(* The walk. *)

(* The head and the tail of a queue.                                       *)
LEMMA QueueParts ==
  ASSUME NEW C, NEW q \in Seq(C), q # <<>>
  PROVE  Tail(q) \in Seq(C) /\ Range(q) = {Head(q)} \union Range(Tail(q))
<1>1. Len(q) \in Nat /\ Len(q) > 0 /\ DOMAIN q = 1..Len(q) OBVIOUS
<1>2. Head(q) = q[1] /\ Tail(q) \in Seq(C) OBVIOUS
<1>3. DOMAIN Tail(q) = 1..(Len(q) - 1) /\ \A j \in 1..(Len(q) - 1) : Tail(q)[j] = q[j + 1]
  BY <1>1
<1>4. ASSUME NEW i \in DOMAIN q, i # 1
      PROVE  q[i] \in Range(Tail(q))
  <2>1. i - 1 \in DOMAIN Tail(q) /\ Tail(q)[i - 1] = q[i] BY <1>1, <1>3, <1>4
  <2> QED BY <2>1 DEF Range
<1>5. ASSUME NEW j \in DOMAIN Tail(q)
      PROVE  Tail(q)[j] \in Range(q)
  <2>1. j + 1 \in DOMAIN q /\ Tail(q)[j] = q[j + 1] BY <1>1, <1>3
  <2> QED BY <2>1 DEF Range
<1>6. 1 \in DOMAIN q BY <1>1
<1> QED BY <1>2, <1>4, <1>5, <1>6 DEF Range

(* The two halves of an extended queue.                                    *)
LEMMA QueueGrows ==
  ASSUME NEW C, NEW q \in Seq(C), NEW s \in Seq(C)
  PROVE  q \o s \in Seq(C) /\ Range(q \o s) = Range(q) \union Range(s)
<1>1. /\ Len(q) \in Nat /\ DOMAIN q = 1..Len(q)
      /\ Len(s) \in Nat /\ DOMAIN s = 1..Len(s)
      /\ DOMAIN (q \o s) = 1..(Len(q) + Len(s)) /\ q \o s \in Seq(C)
  OBVIOUS
<1>2. \A i \in 1..Len(q) : (q \o s)[i] = q[i] OBVIOUS
<1>3. \A j \in 1..Len(s) : (q \o s)[Len(q) + j] = s[j] OBVIOUS
<1>4. ASSUME NEW i \in DOMAIN q
      PROVE  q[i] \in Range(q \o s)
  <2>1. i \in DOMAIN (q \o s) /\ (q \o s)[i] = q[i] BY <1>1, <1>2
  <2> QED BY <2>1 DEF Range
<1>5. ASSUME NEW j \in DOMAIN s
      PROVE  s[j] \in Range(q \o s)
  <2>1. Len(q) + j \in DOMAIN (q \o s) /\ (q \o s)[Len(q) + j] = s[j] BY <1>1, <1>3
  <2> QED BY <2>1 DEF Range
<1>6. ASSUME NEW k \in DOMAIN (q \o s)
      PROVE  (q \o s)[k] \in Range(q) \union Range(s)
  <2>1. CASE k \in 1..Len(q) BY <1>1, <1>2, <2>1 DEF Range
  <2>2. CASE k \notin 1..Len(q)
    <3>1. k - Len(q) \in 1..Len(s) /\ k = Len(q) + (k - Len(q)) BY <1>1, <2>2
    <3>2. (q \o s)[k] = s[k - Len(q)] BY <1>3, <3>1
    <3> QED BY <1>1, <3>1, <3>2 DEF Range
  <2> QED BY <2>1, <2>2
<1> QED BY <1>1, <1>4, <1>5, <1>6 DEF Range

(* A step of the walk that takes in some members of the collection keeps   *)
(* the tables, whatever becomes of the queue.                              *)
LEMMA WalkMoves ==
  ASSUME IInv, pc = "walk", NEW M \in SUBSET on, \A m \in M : Parent[m] = Head(queue),
         NEW ds, NEW k \in Nat, UpTo(ds, k) = M \intersect Dirs, \A j \in 1..k : ~Refused(ds, j),
         Responses(M), Walked, seen' \subseteq Nodes, seen \union M \subseteq seen',
         queue' \in Seq(Collections),
         Range(queue') \subseteq Archived(rows) \union (M \intersect Dirs) \union {Root},
         failed' \in BOOLEAN, blind' \subseteq Collections, faults' \in 0..MaxFaults
  PROVE  /\ Typed' /\ Served' /\ Tables' /\ Phased' /\ Missing'
         /\ Table' = rows' /\ rows' = Written(M \intersect Dirs) /\ plans' = plans \union NewPlans(M)
         /\ Archived(rows') = Archived(rows) \union (M \intersect Dirs)
         /\ pc' # "idle"
<1> USE DEF Walked, Responses, serverVars
<1>1. queue # <<>> /\ queue \in Seq(Collections) BY DEF IInv, Phased, Typed
<1>2. Head(queue) \in Archived(rows) \union {Root}
  <2>1. Range(queue) = {Head(queue)} \union Range(Tail(queue)) BY <1>1, QueueParts
  <2> QED BY <2>1 DEF IInv, Phased
<1>3. on \subseteq Nodes /\ IsTree(on) /\ RowsOK(rows) /\ NotAhead(rows)
  BY DEF IInv, Typed, Served, Tables
<1>4. /\ RowsOK(Written(M \intersect Dirs)) /\ NotAhead(Written(M \intersect Dirs))
      /\ Archived(Written(M \intersect Dirs)) = Archived(rows) \union (M \intersect Dirs)
  <2>1. UpTo(ds, k) \subseteq Dirs /\ \A d \in UpTo(ds, k) : Parent[d] = Head(queue) OBVIOUS
  <2>2. title \in [Dirs -> Names] BY DEF IInv, Typed
  <2>3. /\ RowsOK(Written(UpTo(ds, k))) /\ NotAhead(Written(UpTo(ds, k)))
        /\ Archived(Written(UpTo(ds, k))) = Archived(rows) \union UpTo(ds, k)
    BY <1>2, <1>3, <2>1, <2>2, DirsFit
  <2> QED BY <2>3
<1>5. pc' \in {"walk", "fetch", "sweep"} /\ (pc' = "walk" <=> queue' # <<>>)
      /\ (pc' = "fetch" <=> pc' # "walk" /\ plans' # {})
  OBVIOUS
<1>6. Table' = rows' /\ (draft' = rows' \/ draft' = draft) BY <1>5 DEF Table
<1>7. \A p \in NewPlans(M) : p.n \in M \ Dirs /\ p.etag = ver[p.n] /\ p = [n |-> p.n, etag |-> p.etag]
  BY DEF NewPlans
<1>8. ver \in [Nodes -> Versions] BY DEF IInv, Typed
<1>9. Typed'
  <2>1. NewPlans(M) \subseteq [n : Nodes \ Dirs, etag : Versions]
    BY <1>3, <1>8 DEF NewPlans
  <2> QED BY <1>5, <2>1 DEF IInv, Typed
<1>10. Served' BY DEF IInv, Served, IsTree
<1>11. Tables'
  <2>1. RowsOK(rows') /\ NotAhead(rows') BY <1>4
  <2>2. RowsOK(draft) /\ NotAhead(draft) BY DEF IInv, Tables
  <2>3. RowsOK(draft') /\ NotAhead(draft') BY <1>6, <2>1, <2>2
  <2>4. \A n \in Nodes : ver'[n] = ver[n] OBVIOUS
  <2>5. NotAhead(rows)' /\ NotAhead(draft)' BY <2>1, <2>3 DEF NotAhead
  <2> QED BY <1>6, <2>1, <2>3, <2>5 DEF Tables, RowsOK, Archived
<1>12. Phased'
  <2>1. Archived(rows)' = Archived(rows) \union (M \intersect Dirs) /\ Archived(Table)' = Archived(rows)'
    BY <1>4, <1>6 DEF Archived
  <2>2. Archived(Table) = Archived(rows) BY DEF Table
  <2>3. ASSUME NEW p \in plans
        PROVE  Housed(p.n)' /\ p.n \in seen' /\ p.etag <= ver'[p.n]
    BY <2>1, <2>2 DEF IInv, Phased, Housed
  <2>4. ASSUME NEW p \in NewPlans(M)
        PROVE  Housed(p.n)' /\ p.n \in seen' /\ p.etag <= ver'[p.n]
    <3>1. p.n \in M /\ p.etag = ver[p.n] BY <1>7
    <3>2. Housed(p.n)' BY <1>2, <2>1, <3>1 DEF Housed
    <3>3. ver[p.n] \in Int BY <1>3, <1>8, <3>1 DEF Versions
    <3> QED BY <3>1, <3>2, <3>3
  <2>5. pending' = 0 BY DEF IInv, Phased
  <2>6. \A p \in plans' : Housed(p.n)' /\ p.n \in seen' /\ p.etag <= ver'[p.n] BY <2>3, <2>4
  <2>7. Range(queue)' \subseteq Archived(rows)' \union {Root} BY <2>1 DEF Range
  <2> QED BY <1>5, <2>5, <2>6, <2>7 DEF Phased
<1>13. Missing' BY DEF IInv, Missing
<1> QED BY <1>4, <1>5, <1>6, <1>9, <1>10, <1>11, <1>12, <1>13

(* What was fresh, or planned, is so after the step.                       *)
LEMMA FreshStays ==
  ASSUME IInv, pc = "walk", NEW D \in SUBSET Dirs, Table' = rows', rows' = Written(D),
         plans \subseteq plans', UNCHANGED <<ver, title>>, NEW n, Fresh(n) \/ \E p \in plans : p.n = n
  PROVE  Fresh(n)' \/ \E p \in plans' : p.n = n
<1>1. Table = rows /\ NameOf(n)' = NameOf(n) BY DEF Table, NameOf
<1>2. CASE Fresh(n)
  <2>1. CASE n \in D
    <3>1. [n |-> n, name |-> title[n], etag |-> 0, content |-> 0] \in rows' BY <2>1 DEF Written
    <3>2. /\ [n |-> n, name |-> title[n], etag |-> 0, content |-> 0].n = n
          /\ [n |-> n, name |-> title[n], etag |-> 0, content |-> 0].name = title[n]
      OBVIOUS
    <3>3. n \in Dirs /\ NameOf(n) = title[n] BY <2>1 DEF NameOf
    <3> QED BY <1>1, <3>1, <3>2, <3>3 DEF Fresh
  <2>2. CASE n \notin D BY <1>1, <1>2, <2>2 DEF Fresh, Written
  <2> QED BY <2>1, <2>2
<1> QED BY <1>2

(* A collection of the queue that could not be listed to its end goes from *)
(* the queue to the blind ones.                                            *)
LEMMA BlindAccounts ==
  ASSUME IInv, pc = "walk", queue' = Tail(queue), blind' = blind \union {Head(queue)},
         seen \subseteq seen', UNCHANGED missed
  PROVE  Accounted'
<1>1. queue # <<>> /\ queue \in Seq(Collections) BY DEF IInv, Phased, Typed
<1>2. Range(queue) = {Head(queue)} \union Range(Tail(queue)) BY <1>1, QueueParts
<1>3. Range(queue)' = Range(Tail(queue)) BY DEF Range
<1> QED BY <1>2, <1>3 DEF IInv, Accounted, Queued

(* An answered listing keeps the invariant.                                *)
LEMMA WalkKeeps ==
  ASSUME IInv, Walk
  PROVE  IInv'
<1> DEFINE M == Members
<1>1. PICK children \in SetToSeqs(M \intersect Dirs) :
        /\ \A k \in DOMAIN children : ~Refused(children, k)
        /\ queue' = Tail(queue) \o children
  BY DEF Walk, SubDirs
<1>2. /\ pc = "walk" /\ Responses(M) /\ seen' = seen \union M /\ Walked
      /\ UNCHANGED <<failed, blind, faults>>
  BY DEF Walk, Seen
<1>3. queue # <<>> /\ queue \in Seq(Collections) BY <1>2 DEF IInv, Phased, Typed
<1>4. M \in SUBSET on /\ \A m \in M : Parent[m] = Head(queue) BY DEF Members
<1>6. /\ seen \subseteq Nodes /\ on \subseteq Nodes /\ failed \in BOOLEAN /\ blind \subseteq Collections
      /\ faults \in 0..MaxFaults
  BY DEF IInv, Typed
<1>7. children \in Seq(M \intersect Dirs) /\ Range(children) = M \intersect Dirs
  <2>1. IsFiniteSet(M \intersect Dirs)
    BY <1>4, <1>6, TreeAssumption, FS_Subset
  <2> QED BY <2>1, Covering
<1>8. children \in Seq(Collections) BY <1>7 DEF Collections
<1>5. PICK k \in Nat : UpTo(children, k) = M \intersect Dirs /\ \A j \in 1..k : ~Refused(children, j)
  <2>1. Len(children) \in Nat /\ DOMAIN children = 1..Len(children) BY <1>7
  <2>2. UpTo(children, Len(children)) = Range(children) BY <2>1 DEF UpTo, Range
  <2> QED BY <1>1, <1>7, <2>1, <2>2
<1>9. /\ Tail(queue) \in Seq(Collections)
      /\ Range(queue) = {Head(queue)} \union Range(Tail(queue))
  BY <1>3, QueueParts
<1>10. queue' \in Seq(Collections) /\ Range(queue') = Range(Tail(queue)) \union (M \intersect Dirs)
  <2>1. PICK q \in Seq(Collections) : q = Tail(queue) BY <1>9
  <2>2. q \o children \in Seq(Collections) /\ Range(q \o children) = Range(q) \union Range(children)
    BY <1>8, QueueGrows
  <2> QED BY <1>1, <1>7, <2>1, <2>2
<1>11. Range(queue') \subseteq Archived(rows) \union (M \intersect Dirs) \union {Root}
  BY <1>9, <1>10 DEF IInv, Phased
<1>12. /\ seen' \subseteq Nodes /\ seen \union M \subseteq seen'
       /\ failed' \in BOOLEAN /\ blind' \subseteq Collections /\ faults' \in 0..MaxFaults
  BY <1>2, <1>4, <1>6
<1>13. /\ Typed' /\ Served' /\ Tables' /\ Phased' /\ Missing'
       /\ Table' = rows' /\ rows' = Written(M \intersect Dirs) /\ plans' = plans \union NewPlans(M)
       /\ Archived(rows') = Archived(rows) \union (M \intersect Dirs)
       /\ pc' # "idle"
  BY <1>2, <1>4, <1>5, <1>10, <1>11, <1>12, WalkMoves
<1>14. UNCHANGED <<on, ver, title, changes, known, missed, moved>> BY <1>2 DEF Walked, serverVars
<1>15. Accounted'
  <2>1. ASSUME NEW n \in Nodes \ (missed \union seen), n \notin M
        PROVE  Range(queue') \intersect Above[n] # {} \/ Above[n] \intersect blind # {}
    <3>1. Queued(n) \/ Above[n] \intersect blind # {} BY <1>2 DEF IInv, Accounted
    <3> SUFFICES ASSUME Head(queue) \in Above[n]
                 PROVE  Range(queue') \intersect Above[n] # {}
      BY <1>9, <1>10, <3>1 DEF Queued
    <3>2. Above[n] \intersect missed = {} BY <1>2, AboveThere DEF IInv
    <3>3. Nodes \ on \subseteq missed BY <1>2 DEF IInv, Missing
    <3>4. Head(queue) # Parent[n] BY <2>1, <3>3 DEF Members
    <3>5. PICK c \in Above[n] \ {Root} : Parent[c] = Head(queue) BY <3>4, AboveStep
    <3>6. c \in Dirs BY AboveUp DEF Collections
    <3>7. c \in M BY <3>2, <3>3, <3>5, <3>6, TreeAssumption DEF Members
    <3> QED BY <1>10, <3>5, <3>6, <3>7
  <2>2. Range(queue)' = Range(queue') BY DEF Range
  <2> QED BY <1>2, <1>14, <2>1, <2>2 DEF Accounted, Queued
<1>16. Clean'
  <2>1. Archived(Table') \subseteq known' \union seen'
    <3>1. Archived(rows) \subseteq known \union seen BY <1>2 DEF IInv, Clean, Table
    <3> QED BY <1>2, <1>13, <1>14, <3>1
  <2>2. ASSUME ~failed', ~moved', NEW n \in seen'
        PROVE  Fresh(n)' \/ \E p \in plans' : p.n = n
    <3>1. CASE n \in seen
      <4>1. Fresh(n) \/ \E p \in plans : p.n = n
        BY <1>2, <1>14, <2>2, <3>1 DEF IInv, Clean
      <4>2. M \intersect Dirs \in SUBSET Dirs /\ plans \subseteq plans' BY <1>13
      <4> QED BY <1>2, <1>13, <1>14, <4>1, <4>2, FreshStays
    <3>2. CASE n \in M \intersect Dirs
      <4>1. [n |-> n, name |-> title[n], etag |-> 0, content |-> 0] \in rows' BY <1>13, <3>2 DEF Written
      <4>2. /\ [n |-> n, name |-> title[n], etag |-> 0, content |-> 0].n = n
            /\ [n |-> n, name |-> title[n], etag |-> 0, content |-> 0].name = title[n]
        OBVIOUS
      <4>3. NameOf(n)' = title[n] BY <1>14, <3>2 DEF NameOf
      <4> QED BY <1>13, <3>2, <4>1, <4>2, <4>3 DEF Fresh
    <3>3. CASE n \in M \ Dirs /\ ~UpToDate(rows, n)
      <4>1. [n |-> n, etag |-> ver[n]] \in plans' BY <1>13, <3>3 DEF NewPlans
      <4>2. [n |-> n, etag |-> ver[n]].n = n OBVIOUS
      <4> QED BY <4>1, <4>2
    <3>4. CASE n \in M \ Dirs /\ UpToDate(rows, n)
      <4>1. PICK r \in rows : r.n = n /\ r.etag = ver[n] BY <3>4 DEF UpToDate
      <4>2. r.etag <= r.content /\ r.content <= ver[n] BY <3>4, <4>1 DEF IInv, Tables, NotAhead
      <4>3. r.content \in Nat /\ r.etag \in Nat BY RowOf DEF IInv, Tables
      <4>4. r.content = ver[n] BY <4>1, <4>2, <4>3
      <4>5. r \in Table' /\ r.n = n /\ r.content = ver'[n]
        BY <1>13, <1>14, <3>4, <4>1, <4>4 DEF Written
      <4>6. r.name = Name[n] /\ NameOf(n)' = Name[n]
        BY <3>4, <4>1 DEF IInv, Tables, RowsOK, NameOf
      <4> QED BY <4>5, <4>6 DEF Fresh
    <3> QED BY <1>2, <3>1, <3>2, <3>3, <3>4
  <2>3. (~failed' => blind' = {}) /\ (~moved' => missed' = Nodes \ on' /\ seen' \subseteq on')
    BY <1>2, <1>4, <1>14 DEF IInv, Clean
  <2> QED BY <2>1, <2>2, <2>3 DEF Clean, Archived
<1> QED BY <1>13, <1>15, <1>16 DEF IInv

(* What is left of the run is known to have failed: only the nodes it knew *)
(* or saw have rows, and it saw only what the server has or had.           *)
LEMMA CleanAfterFailure ==
  ASSUME IInv, pc = "walk", failed', Archived(Table') \subseteq known' \union seen',
         UNCHANGED <<on, missed, moved>>, seen' \subseteq seen \union on
  PROVE  Clean'
  BY DEF IInv, Clean, Archived

(* So does a walk that stops at a directory it cannot write.               *)
LEMMA WalkStopsKeeps ==
  ASSUME IInv, WalkStops
  PROVE  IInv'
<1>0. PICK ds \in SetToSeqs(SubDirs), files \in SUBSET (Members \ Dirs) :
        \E at \in DOMAIN ds :
          /\ \A j \in 1..(at - 1) : ~Refused(ds, j)
          /\ Responses(UpTo(ds, at - 1) \union files)
          /\ seen' = seen \union (UpTo(ds, at) \union files)
  BY DEF WalkStops, Seen
<1>1. PICK at \in DOMAIN ds :
        /\ \A j \in 1..(at - 1) : ~Refused(ds, j)
        /\ Responses(UpTo(ds, at - 1) \union files)
        /\ seen' = seen \union (UpTo(ds, at) \union files)
  BY <1>0
<1>15. ds \in Seq(SubDirs) /\ Range(ds) = SubDirs
  <2>1. IsFiniteSet(SubDirs)
    BY TreeAssumption, FS_Subset DEF IInv, Typed, SubDirs, Members
  <2> QED BY <2>1, Covering
<1>16. at \in Nat \ {0} /\ UpTo(ds, at) \subseteq SubDirs /\ UpTo(ds, at - 1) \subseteq UpTo(ds, at)
  <2>1. DOMAIN ds = 1..Len(ds) /\ Len(ds) \in Nat BY <1>15
  <2> QED BY <1>15, <2>1 DEF UpTo, Range
<1> DEFINE k == at - 1
           M == UpTo(ds, k) \union files
<1>17. k \in Nat BY <1>16
<1>18. UpTo(ds, k) = M \intersect Dirs /\ M \subseteq Members /\ UpTo(ds, at) \subseteq Members
  BY <1>16, <1>17 DEF SubDirs
<1>2. /\ pc = "walk" /\ queue' = Tail(queue) /\ failed' = TRUE
      /\ blind' = blind \union {Head(queue)} /\ UNCHANGED faults /\ Walked
  BY DEF WalkStops
<1>3. queue # <<>> /\ queue \in Seq(Collections) BY <1>2 DEF IInv, Phased, Typed
<1>4. M \in SUBSET on /\ (\A m \in M : Parent[m] = Head(queue)) /\ UpTo(ds, at) \subseteq on
  BY <1>18 DEF Members
<1>5. Responses(M) /\ \A j \in 1..k : ~Refused(ds, j) BY <1>1
<1>6. Tail(queue) \in Seq(Collections) /\ Range(queue) = {Head(queue)} \union Range(Tail(queue))
  BY <1>3, QueueParts
<1>7. Range(queue) \subseteq Archived(rows) \union {Root} /\ Head(queue) \in Collections
  <2>1. 1 \in DOMAIN queue /\ Head(queue) = queue[1] BY <1>3
  <2> QED BY <1>3, <2>1 DEF IInv, Phased
<1>8. /\ queue' \in Seq(Collections)
      /\ Range(queue') \subseteq Archived(rows) \union (M \intersect Dirs) \union {Root}
  BY <1>2, <1>6, <1>7
<1>9. /\ seen' \subseteq Nodes /\ seen \union M \subseteq seen'
      /\ failed' \in BOOLEAN /\ blind' \subseteq Collections /\ faults' \in 0..MaxFaults
  BY <1>1, <1>2, <1>4, <1>7, <1>16, <1>17 DEF IInv, Typed
<1>10. /\ Typed' /\ Served' /\ Tables' /\ Phased' /\ Missing' /\ Table' = rows'
       /\ Archived(rows') = Archived(rows) \union (M \intersect Dirs)
  BY <1>2, <1>4, <1>5, <1>8, <1>9, <1>17, <1>18, WalkMoves
<1>11. UNCHANGED <<on, known, missed, moved>> BY <1>2 DEF Walked, serverVars
<1>12. Accounted' BY <1>2, <1>9, <1>11, BlindAccounts
<1>13. Archived(Table') \subseteq known' \union seen'
  <2>1. Archived(rows) \subseteq known \union seen BY <1>2 DEF IInv, Clean, Table
  <2> QED BY <1>9, <1>10, <1>11, <2>1
<1>14. Clean' BY <1>1, <1>2, <1>4, <1>11, <1>13, <1>17, CleanAfterFailure
<1> QED BY <1>10, <1>12, <1>14 DEF IInv

(* So does a listing that fails.                                           *)
LEMMA WalkFailsKeeps ==
  ASSUME IInv, WalkFails
  PROVE  IInv'
<1>1. /\ pc = "walk" /\ queue' = Tail(queue) /\ failed' = TRUE
      /\ blind' = blind \union {Head(queue)} /\ UNCHANGED <<rows, seen, plans>> /\ Walked
  BY DEF WalkFails
<1>2. faults' \in 0..MaxFaults BY BoundsAssumption DEF WalkFails, Fault, IInv, Typed
<1>3. queue # <<>> /\ queue \in Seq(Collections) BY <1>1 DEF IInv, Phased, Typed
<1>4. Tail(queue) \in Seq(Collections) /\ Range(queue) = {Head(queue)} \union Range(Tail(queue))
  BY <1>3, QueueParts
<1>5. Range(queue) \subseteq Archived(rows) \union {Root} /\ Head(queue) \in Collections
  <2>1. 1 \in DOMAIN queue /\ Head(queue) = queue[1] BY <1>3
  <2> QED BY <1>3, <2>1 DEF IInv, Phased
<1>6. PICK M \in SUBSET on : M = {} OBVIOUS
<1>7. Responses(M) BY <1>1, <1>6 DEF Responses, Written, NewPlans
<1>8. /\ queue' \in Seq(Collections)
      /\ Range(queue') \subseteq Archived(rows) \union (M \intersect Dirs) \union {Root}
  BY <1>1, <1>4, <1>5
<1>9. /\ seen' \subseteq Nodes /\ seen \union M \subseteq seen'
      /\ failed' \in BOOLEAN /\ blind' \subseteq Collections
  BY <1>1, <1>5, <1>6 DEF IInv, Typed
<1>10. /\ \A m \in M : Parent[m] = Head(queue)
       /\ UpTo(<<>>, 0) = M \intersect Dirs /\ \A j \in 1..0 : ~Refused(<<>>, j)
  BY <1>6 DEF UpTo
<1>11. /\ Typed' /\ Served' /\ Tables' /\ Phased' /\ Missing' /\ Table' = rows'
  BY <1>1, <1>2, <1>7, <1>8, <1>9, <1>10, WalkMoves
<1>12. UNCHANGED <<on, known, missed, moved>> BY <1>1 DEF Walked, serverVars
<1>13. Accounted' BY <1>1, <1>12, BlindAccounts
<1>14. Archived(Table') \subseteq known' \union seen'
  <2>1. Archived(rows) \subseteq known \union seen BY <1>1 DEF IInv, Clean, Table
  <2> QED BY <1>1, <1>11, <1>12, <2>1
<1>15. Clean' BY <1>1, <1>12, <1>14, CleanAfterFailure
<1> QED BY <1>11, <1>13, <1>15 DEF IInv
-----------------------------------------------------------------------------
(* The other steps of the run. *)

(* A run starts with a walk that still has everything to see.              *)
LEMMA StartKeeps ==
  ASSUME IInv, Start
  PROVE  IInv'
<1> USE DEF Start, serverVars
<1>1. RowsOK(rows) /\ NotAhead(rows) /\ on \subseteq Nodes /\ IsTree(on)
  BY DEF IInv, Tables, Typed, Served
<1>2. Archived(rows) \subseteq Nodes BY <1>1, RowOf
<1>3. Table = rows /\ Table' = rows /\ Range(<<Root>>) = {Root} BY DEF Table, Range
<1>4. Typed'
  <2>1. <<Root>> \in Seq(Collections) BY DEF Collections
  <2> QED BY <1>2, <2>1 DEF IInv, Typed
<1>5. Served' BY DEF IInv, Served, IsTree
<1>6. Tables' BY <1>3 DEF IInv, Tables, RowsOK, NotAhead, Archived
<1>7. Phased' BY <1>3 DEF IInv, Phased, Range
<1>8. Missing' BY <1>1, TreeAssumption DEF Missing, IsTree
<1>9. Accounted'
  <2>1. \A n \in Nodes : {Root} \intersect Above[n] # {} BY RootAssumption
  <2>2. Range(queue)' = {Root} BY <1>3 DEF Range
  <2> QED BY <2>1, <2>2 DEF Accounted, Queued
<1>10. Clean' BY <1>3 DEF Clean, Archived
<1> QED BY <1>4, <1>5, <1>6, <1>7, <1>8, <1>9, <1>10 DEF IInv

(* A reply that leaves the table R, and so much in the transaction.        *)
LEMMA ReceivedKeeps ==
  ASSUME IInv, pc = "fetch", NEW p \in plans, NEW R, RowsOK(R), NotAhead(R),
         Archived(draft) \subseteq Archived(R), Archived(R) \subseteq Archived(draft) \union {p.n},
         NEW k \in 0..CommitBatch, k \in 0..(CommitBatch - 1) \/ k = CommitBatch,
         Received(p, R, k), failed' \in BOOLEAN, faults' \in 0..MaxFaults, failed => failed'
  PROVE  /\ Typed' /\ Served' /\ Tables' /\ Phased' /\ Missing' /\ Accounted'
         /\ Table' = R
         /\ Archived(Table') \subseteq known' \union seen'
         /\ (~failed' => blind' = {}) /\ (~moved' => missed' = Nodes \ on' /\ seen' \subseteq on')
<1> USE DEF Received, serverVars, historyVars
<1>1. Table = draft /\ Table' = R /\ (rows' = R \/ rows' = rows) /\ (draft' = R \/ draft' = {})
  BY DEF Table
<1>2. RowsOK({}) /\ NotAhead({}) BY DEF RowsOK, NotAhead, Archived
<1>3. Typed'
  <2>1. pending' \in 0..(CommitBatch - 1) BY BoundsAssumption
  <2> QED BY <2>1 DEF IInv, Typed
<1>4. Served' BY DEF IInv, Served, IsTree
<1>5. Archived(R) \subseteq known \union seen
  <2>1. Archived(draft) \subseteq known \union seen BY <1>1 DEF IInv, Clean
  <2>2. p.n \in seen BY DEF IInv, Phased
  <2> QED BY <2>1, <2>2
<1>6. Tables'
  <2>1. RowsOK(rows) /\ NotAhead(rows) BY DEF IInv, Tables
  <2>2. RowsOK(rows') /\ NotAhead(rows') /\ RowsOK(draft') /\ NotAhead(draft')
    BY <1>1, <1>2, <2>1
  <2>3. NotAhead(rows)' /\ NotAhead(draft)' BY <2>2 DEF NotAhead
  <2>4. Archived(rows) \subseteq Archived(R) BY <1>1 DEF IInv, Tables
  <2>5. Archived(rows') \subseteq Archived(R) BY <1>1, <2>4
  <2> QED BY <1>1, <2>2, <2>3, <2>5 DEF Tables, RowsOK, Archived
<1>7. Phased'
  <2>1. Archived(Table)' = Archived(R) BY <1>1 DEF Archived
  <2>2. \A q \in plans' : Housed(q.n)' /\ q.n \in seen' /\ q.etag <= ver'[q.n]
    BY <1>1, <2>1 DEF IInv, Phased, Housed
  <2>3. queue' = <<>> /\ Range(queue)' = {} BY DEF IInv, Phased, Range
  <2>4. pc' # "fetch" => pending' = 0 OBVIOUS
  <2>5. pc' # "walk" /\ (pc' = "fetch" <=> plans' # {}) OBVIOUS
  <2> QED BY <2>2, <2>3, <2>4, <2>5 DEF Phased
<1>8. pc' # "idle" OBVIOUS
<1>9. Missing' BY DEF IInv, Missing
<1>10. Accounted' BY DEF IInv, Accounted, Queued, Range
<1>11. (~failed' => blind' = {}) /\ (~moved' => missed' = Nodes \ on' /\ seen' \subseteq on')
  BY DEF IInv, Clean
<1> QED BY <1>1, <1>3, <1>4, <1>5, <1>6, <1>7, <1>9, <1>10, <1>11

(* A file that was downloaded is as the server has it.                     *)
LEMMA FetchKeeps ==
  ASSUME IInv, NEW p \in plans, Fetch(p)
  PROVE  IInv'
<1>1. pc = "fetch" /\ p.n \in on /\ ~Clashes(draft, p.n, Name[p.n]) /\ UNCHANGED <<failed, faults>> BY DEF Fetch
<1>2. PICK e \in {ver[p.n], p.etag} : Received(p, Stored(draft, p.n, e, ver[p.n]), pending + 1)
  BY DEF Fetch
<1>3. ver \in [Nodes -> Versions] /\ RowsOK(draft) /\ NotAhead(draft) BY DEF IInv, Typed, Tables
<1>4. p.n \in Nodes \ Dirs /\ p.etag \in Versions /\ p.etag <= ver[p.n]
      /\ Parent[p.n] \in Archived(draft) \union {Root}
  BY <1>1 DEF IInv, Typed, Phased, Housed, Table
<1>5. e \in Versions /\ e <= ver[p.n]
  <2>1. ver[p.n] \in Versions /\ ver[p.n] \in Int BY <1>3, <1>4 DEF Versions
  <2> QED BY <1>4, <2>1
<1>6. PICK R : R = Stored(draft, p.n, e, ver[p.n]) OBVIOUS
<1>7. /\ RowsOK(R) /\ NotAhead(R) /\ Archived(R) = Archived(draft) \union {p.n}
      /\ \A r \in draft : r.n # p.n => r \in R
      /\ \E r \in R : r.n = p.n /\ r.name = Name[p.n] /\ r.content = ver[p.n]
  BY <1>1, <1>3, <1>4, <1>5, <1>6, FileFits
<1>8. /\ pending + 1 \in 0..CommitBatch
      /\ pending + 1 \in 0..(CommitBatch - 1) \/ pending + 1 = CommitBatch
  BY BoundsAssumption DEF IInv, Typed
<1>9. Received(p, R, pending + 1) BY <1>2, <1>6
<1>10. failed' \in BOOLEAN /\ faults' \in 0..MaxFaults /\ failed' = failed BY <1>1 DEF IInv, Typed
<1>11. /\ Typed' /\ Served' /\ Tables' /\ Phased' /\ Missing' /\ Accounted' /\ Table' = R
       /\ Archived(Table') \subseteq known' \union seen'
       /\ (~failed' => blind' = {}) /\ (~moved' => missed' = Nodes \ on' /\ seen' \subseteq on')
  BY <1>1, <1>7, <1>8, <1>9, <1>10, ReceivedKeeps
<1>12. ASSUME ~failed', ~moved', NEW n \in seen'
       PROVE  Fresh(n)' \/ \E q \in plans' : q.n = n
  <2>1. UNCHANGED <<ver, title, seen, moved>> /\ plans' = plans \ {p}
    BY <1>9 DEF Received, serverVars, historyVars
  <2>2. NameOf(n)' = NameOf(n) BY <2>1 DEF NameOf
  <2>3. CASE n = p.n
    <3>1. NameOf(n) = Name[p.n] BY <1>4, <2>3 DEF NameOf
    <3> QED BY <1>7, <1>11, <2>1, <2>2, <2>3, <3>1 DEF Fresh
  <2>4. CASE n # p.n
    <3>1. Fresh(n) \/ \E q \in plans : q.n = n BY <1>1, <1>10, <1>12, <2>1 DEF IInv, Clean
    <3>2. CASE Fresh(n)
      <4>1. Table = draft BY <1>1 DEF Table
      <4> QED BY <1>7, <1>11, <2>1, <2>2, <2>4, <3>2, <4>1 DEF Fresh
    <3> QED BY <2>1, <2>4, <3>1, <3>2
  <2> QED BY <2>3, <2>4
<1>13. Clean' BY <1>11, <1>12 DEF Clean, Archived
<1> QED BY <1>11, <1>13 DEF IInv

(* A reply without a file leaves the table as it is.                       *)
LEMMA EmptyReply ==
  ASSUME IInv, pc = "fetch", NEW p \in plans, Received(p, draft, pending),
         failed' \in BOOLEAN, faults' \in 0..MaxFaults, failed => failed'
  PROVE  /\ Typed' /\ Served' /\ Tables' /\ Phased' /\ Missing' /\ Accounted'
         /\ Archived(Table') \subseteq known' \union seen'
         /\ (~failed' => blind' = {}) /\ (~moved' => missed' = Nodes \ on' /\ seen' \subseteq on')
<1>1. PICK R : R = draft OBVIOUS
<1>2. PICK k \in 0..CommitBatch : k = pending /\ k \in 0..(CommitBatch - 1)
  BY BoundsAssumption DEF IInv, Typed
<1>3. /\ RowsOK(R) /\ NotAhead(R) /\ Archived(draft) \subseteq Archived(R)
      /\ Archived(R) \subseteq Archived(draft) \union {p.n}
  BY <1>1 DEF IInv, Tables
<1> QED BY <1>1, <1>2, <1>3, ReceivedKeeps

(* A file that is gone was deleted since it was listed.                    *)
LEMMA FetchGoneKeeps ==
  ASSUME IInv, NEW p \in plans, FetchGone(p)
  PROVE  IInv'
<1>1. pc = "fetch" /\ p.n \notin on /\ Received(p, draft, pending) /\ UNCHANGED <<failed, faults>>
  BY DEF FetchGone
<1>2. failed' \in BOOLEAN /\ faults' \in 0..MaxFaults /\ failed' = failed BY <1>1 DEF IInv, Typed
<1>3. /\ Typed' /\ Served' /\ Tables' /\ Phased' /\ Missing' /\ Accounted'
      /\ Archived(Table') \subseteq known' \union seen'
      /\ (~failed' => blind' = {}) /\ (~moved' => missed' = Nodes \ on' /\ seen' \subseteq on')
  BY <1>1, <1>2, EmptyReply
<1>4. moved'
  <2>1. p.n \in seen BY DEF IInv, Phased
  <2>2. moved' = moved BY <1>1 DEF Received, historyVars
  <2> QED BY <1>1, <2>1, <2>2 DEF IInv, Clean
<1>5. Clean' BY <1>3, <1>4 DEF Clean, Archived
<1> QED BY <1>3, <1>5 DEF IInv

(* A download or a row that fails counts as a failure.                     *)
LEMMA FetchFailsKeeps ==
  ASSUME IInv, NEW p \in plans, FetchFails(p)
  PROVE  IInv'
<1>1. pc = "fetch" /\ Received(p, draft, pending) /\ failed' = TRUE BY DEF FetchFails
<1>2. failed' \in BOOLEAN /\ faults' \in 0..MaxFaults
  BY BoundsAssumption DEF FetchFails, Fault, IInv, Typed
<1>3. /\ Typed' /\ Served' /\ Tables' /\ Phased' /\ Missing' /\ Accounted'
      /\ Archived(Table') \subseteq known' \union seen'
      /\ (~failed' => blind' = {}) /\ (~moved' => missed' = Nodes \ on' /\ seen' \subseteq on')
  BY <1>1, <1>2, EmptyReply
<1>4. Clean' BY <1>1, <1>3 DEF Clean, Archived
<1> QED BY <1>3, <1>4 DEF IInv

(* The sweep, and what it finds.                                           *)
LEMMA SweepFacts ==
  ASSUME IInv, Sweep
  PROVE  /\ rows' = {r \in rows : r.n \notin Removable(known \ seen)}
         /\ Archived(rows') = Archived(rows) \ Removable(known \ seen)
         /\ RowsOK(rows') /\ NotAhead(rows')
         /\ Removable(known \ seen) \subseteq known \ seen
         /\ \A n \in Nodes \ (missed \union seen) : Above[n] \intersect blind # {}
         /\ Table = rows /\ plans = {}
<1>1. pc = "sweep" /\ rows' = {r \in rows : r.n \notin Removable(known \ seen)} BY DEF Sweep
<1>2. known \ seen \in SUBSET Nodes /\ RowsOK(rows) /\ NotAhead(rows) BY DEF IInv, Typed, Tables
<1>3. PICK V \in SUBSET Nodes : V = known \ seen BY <1>2
<1>4. /\ RowsOK({r \in rows : r.n \notin Removable(V)})
      /\ NotAhead({r \in rows : r.n \notin Removable(V)})
      /\ Archived({r \in rows : r.n \notin Removable(V)}) = Archived(rows) \ Removable(V)
  BY <1>2, SweptFits
<1>5. Removable(known \ seen) \subseteq known \ seen BY DEF Removable
<1>6. queue = <<>> /\ plans = {} BY <1>1 DEF IInv, Phased
<1>7. Range(queue) = {} BY <1>6 DEF Range
<1>8. \A n \in Nodes \ (missed \union seen) : Above[n] \intersect blind # {}
  BY <1>1, <1>7 DEF IInv, Accounted, Queued
<1> QED BY <1>1, <1>3, <1>4, <1>5, <1>6, <1>8 DEF Table

(* The sweep keeps the invariant.                                          *)
LEMMA SweepKeeps ==
  ASSUME IInv, Sweep
  PROVE  IInv'
<1>1. RowsOK(rows') /\ NotAhead(rows') BY SweepFacts
<1>2. /\ pc = "sweep" /\ pc' = "idle" /\ known' = {} /\ seen' = {} /\ failed' \in BOOLEAN
      /\ UNCHANGED <<on, ver, title, changes, queue, plans, draft, pending, faults, blind, missed, moved>>
  BY DEF Sweep, serverVars, historyVars, IInv, Typed
<1>3. Typed' BY <1>2 DEF IInv, Typed
<1>4. Served' BY <1>2 DEF IInv, Served, IsTree
<1>5. Tables'
  <2>1. NotAhead(rows)' BY <1>1, <1>2 DEF NotAhead
  <2> QED BY <1>1, <1>2, <2>1 DEF IInv, Tables, Table, RowsOK, NotAhead, Archived
<1>6. Phased' BY <1>2 DEF IInv, Phased, Range
<1>7. Missing' /\ Accounted' /\ Clean' BY <1>2 DEF Missing, Accounted, Clean
<1> QED BY <1>3, <1>4, <1>5, <1>6, <1>7 DEF IInv

(* A run that is aborted leaves the rows it committed.                     *)
LEMMA AbortKeeps ==
  ASSUME IInv, Abort
  PROVE  IInv'
<1>1. /\ pc' = "idle" /\ known' = {} /\ seen' = {} /\ queue' = <<>> /\ plans' = {}
      /\ draft' = {} /\ pending' = 0 /\ failed' = TRUE
      /\ UNCHANGED <<on, ver, title, changes, rows, blind, missed, moved>>
  BY DEF Abort, serverVars, historyVars
<1>2. faults' \in 0..MaxFaults /\ 0 \in 0..(CommitBatch - 1)
  BY BoundsAssumption DEF Abort, Fault, IInv, Typed
<1>3. Typed'
  <2>1. <<>> \in Seq(Collections) OBVIOUS
  <2> QED BY <1>1, <1>2, <2>1 DEF IInv, Typed
<1>4. Served' BY <1>1 DEF IInv, Served, IsTree
<1>5. Tables'
  <2>1. RowsOK({}) /\ NotAhead({}) BY DEF RowsOK, NotAhead, Archived
  <2>2. RowsOK(draft)' /\ NotAhead(draft)' BY <1>1, <2>1 DEF RowsOK, NotAhead, Archived
  <2> QED BY <1>1, <2>2 DEF IInv, Tables, Table, RowsOK, NotAhead, Archived
<1>6. Phased'
  <2>1. Range(<<>>) = {} BY DEF Range
  <2> QED BY <1>1, <2>1 DEF Phased, Range
<1>7. Missing' /\ Accounted' /\ Clean' BY <1>1 DEF Missing, Accounted, Clean
<1> QED BY <1>3, <1>4, <1>5, <1>6, <1>7 DEF IInv

(* A step that changes nothing keeps the invariant.                        *)
LEMMA NothingKeeps ==
  ASSUME IInv, UNCHANGED vars
  PROVE  IInv'
<1> USE DEF vars
<1>1. Table' = Table BY DEF Table
<1>2. Typed' /\ Served' BY DEF IInv, Typed, Served, IsTree
<1>3. Tables' BY <1>1 DEF IInv, Tables, RowsOK, NotAhead, Archived
<1>4. Phased' BY <1>1 DEF IInv, Phased, Housed, Archived, Range
<1>5. Missing' /\ Accounted' BY DEF IInv, Missing, Accounted, Queued, Range
<1>6. Clean' BY <1>1 DEF IInv, Clean, Fresh, NameOf, Archived
<1> QED BY <1>2, <1>3, <1>4, <1>5, <1>6 DEF IInv

-----------------------------------------------------------------------------
(* The theorems. *)

(* The invariant, from which they follow.                                  *)
LEMMA Invariant == Spec => []IInv
<1>1. ASSUME IInv, [Next]_vars
      PROVE  IInv'
  <2>1. CASE \E n \in Nodes \ Dirs : Put(n) BY <1>1, <2>1, PutKeeps
  <2>2. CASE \E n \in Dirs \ on : Put(n)
    BY <1>1, <2>2, PutKeeps, TreeAssumption
  <2>3. CASE \E n \in on : Delete(n) BY <1>1, <2>3, DeleteKeeps
  <2>4. CASE Start \/ Walk \/ WalkStops \/ WalkFails \/ Sweep \/ Abort
    BY <1>1, <2>4, StartKeeps, WalkKeeps, WalkStopsKeeps, WalkFailsKeeps, SweepKeeps, AbortKeeps
  <2>5. CASE \E p \in plans : Fetch(p) \/ FetchGone(p) \/ FetchFails(p)
    BY <1>1, <2>5, FetchKeeps, FetchGoneKeeps, FetchFailsKeeps
  <2>6. CASE UNCHANGED vars BY <1>1, <2>6, NothingKeeps
  <2>7. CASE \E d \in Dirs : \E t \in Titles[d] \ {title[d]} : Retitle(d, t)
    BY <1>1, <2>7, RetitleKeeps
  <2> QED BY <1>1, <2>1, <2>2, <2>3, <2>4, <2>5, <2>6, <2>7 DEF Next, Run
<1> QED BY <1>1, InitHolds, PTL DEF Spec

(* The archive is a tree whose siblings have different names after every   *)
(* step of the import, aborted or not, and its locals have their types.    *)
THEOREM TypeCorrect == Spec => []TypeOK
<1>1. IInv => TypeOK
  <2> SUFFICES ASSUME IInv PROVE TypeOK
    OBVIOUS
  <2>1. queue \in Seq(Collections) BY DEF IInv, Typed
  <2>2. \A i \in DOMAIN queue : queue[i] \in Collections BY <2>1
  <2> QED BY <2>2 DEF IInv, Typed, Tables, TypeOK
<1> QED BY <1>1, Invariant, PTL

(* Only the sweep takes nodes from the archive.                            *)
LEMMA OnlySweepDeletes ==
  ASSUME IInv, [Next]_vars, ~Sweep
  PROVE  Deleted = {}
<1> SUFFICES Archived(rows) \subseteq Archived(rows')
  BY DEF Deleted
<1>1. CASE rows' = rows BY <1>1
<1>2. CASE Walk \/ WalkStops
  <2>1. PICK D : rows' = Written(D) BY <1>2 DEF Walk, WalkStops, Responses
  <2>2. ASSUME NEW r \in rows
        PROVE  r.n \in Archived(rows')
    <3>1. CASE r.n \notin D BY <2>1, <3>1 DEF Written, Archived
    <3>2. CASE r.n \in D
      <4>1. [n |-> r.n, name |-> title[r.n], etag |-> 0, content |-> 0] \in rows' BY <2>1, <3>2 DEF Written
      <4>2. [n |-> r.n, name |-> title[r.n], etag |-> 0, content |-> 0].n = r.n OBVIOUS
      <4> QED BY <4>1, <4>2 DEF Archived
    <3> QED BY <3>1, <3>2
  <2> QED BY <2>2 DEF Archived
<1>3. ASSUME NEW p \in plans, pc = "fetch", NEW R, NEW k, Received(p, R, k),
             Archived(draft) \subseteq Archived(R)
      PROVE  Archived(rows) \subseteq Archived(rows')
  <2>1. Archived(rows) \subseteq Archived(R) BY <1>3 DEF IInv, Tables, Table
  <2> QED BY <1>3, <2>1 DEF Received
<1>4. ASSUME NEW p \in plans, Fetch(p)
      PROVE  Archived(rows) \subseteq Archived(rows')
  <2>1. pc = "fetch" BY <1>4 DEF Fetch
  <2>2. PICK e \in {ver[p.n], p.etag} : Received(p, Stored(draft, p.n, e, ver[p.n]), pending + 1)
    BY <1>4 DEF Fetch
  <2>3. PICK R : R = Stored(draft, p.n, e, ver[p.n]) OBVIOUS
  <2>4. Archived(draft) \subseteq Archived(R)
    <3>1. \A r \in draft : r.n # p.n => r \in R BY <2>3 DEF Stored
    <3>2. [n |-> p.n, name |-> Name[p.n], etag |-> e, content |-> ver[p.n]] \in R BY <2>3 DEF Stored
    <3>3. p.n \in Archived(R)
      <4>1. [n |-> p.n, name |-> Name[p.n], etag |-> e, content |-> ver[p.n]].n = p.n OBVIOUS
      <4> QED BY <3>2, <4>1 DEF Archived
    <3> QED BY <3>1, <3>3 DEF Archived
  <2>5. Received(p, R, pending + 1) BY <2>2, <2>3
  <2> QED BY <1>3, <2>1, <2>4, <2>5
<1>5. ASSUME NEW p \in plans, FetchGone(p) \/ FetchFails(p)
      PROVE  Archived(rows) \subseteq Archived(rows')
  <2>1. pc = "fetch" /\ Received(p, draft, pending) BY <1>5 DEF FetchGone, FetchFails
  <2> QED BY <1>3, <2>1
<1>6. CASE Start \/ WalkFails \/ Abort BY <1>1, <1>6 DEF Start, WalkFails, Abort
<1>7. CASE \/ \E n \in Nodes : Put(n) \/ Delete(n)
           \/ \E d \in Dirs : \E t \in Titles[d] : Retitle(d, t)
  BY <1>1, <1>7 DEF Put, Delete, Retitle, Changing
<1>8. CASE UNCHANGED vars BY <1>1, <1>8 DEF vars
<1>9. on \subseteq Nodes /\ Dirs \subseteq Nodes BY TreeAssumption DEF IInv, Typed
<1> QED BY <1>2, <1>4, <1>5, <1>6, <1>7, <1>8, <1>9 DEF Next, Run

(* A run deletes from the archive only what the server did not have at     *)
(* some time of the run, or what is below a collection that the run could  *)
(* not list to its end: no tree, order of replies or fault is an exception.*)
THEOREM KeepsWhatIsListed == Spec => KeptIfListed
<1>1. ASSUME IInv, [Next]_vars, NEW n \in Deleted
      PROVE  n \in missed \/ Above[n] \intersect blind # {}
  <2>1. Sweep BY <1>1, OnlySweepDeletes
  <2>2. n \in known \ seen /\ n \in Archived(rows) BY <1>1, <2>1, SweepFacts DEF Deleted
  <2>3. n \in Nodes BY <1>1, <2>2, RowOf DEF IInv, Tables
  <2> QED BY <1>1, <2>1, <2>2, <2>3, SweepFacts
<1>2. IInv /\ [Next]_vars => [\A n \in Deleted : n \in missed \/ Above[n] \intersect blind # {}]_vars
  BY <1>1
<1> QED BY <1>2, Invariant, PTL DEF Spec, KeptIfListed

(* A run in which nothing failed leaves the archive as an exact copy of a  *)
(* server that did not change meanwhile: for any earlier runs, also ones   *)
(* that were aborted.                                                      *)
THEOREM CleanRunsMirror == Spec => CleanRunMirrors
<1>1. ASSUME IInv, [Next]_vars, pc = "sweep", pc' = "idle", ~failed', ~moved
      PROVE  (\A n \in Nodes : Copied(n))'
  <2>1. Sweep
    BY <1>1 DEF Next, Run, Put, Delete, Retitle, Changing, Start, Walk, WalkStops, WalkFails, Walked,
                Fetch, FetchGone, FetchFails, Abort, vars
  <2>2. /\ rows' = {r \in rows : r.n \notin Removable(known \ seen)}
        /\ Archived(rows') = Archived(rows) \ Removable(known \ seen)
        /\ \A n \in Nodes \ (missed \union seen) : Above[n] \intersect blind # {}
        /\ Table = rows /\ plans = {}
    BY <1>1, <2>1, SweepFacts
  <2>3. ~failed /\ Removable(known \ seen) = known \ seen /\ UNCHANGED <<on, ver, title>>
    BY <1>1, <2>1 DEF Sweep, serverVars
  <2>4. blind = {} /\ missed = Nodes \ on /\ seen \subseteq on /\ on \subseteq Nodes
        /\ Archived(rows) \subseteq known \union seen
        /\ \A n \in seen : Fresh(n)
    BY <1>1, <2>2, <2>3 DEF IInv, Clean, Typed
  <2>5. seen = on BY <2>2, <2>4
  <2>6. ASSUME NEW n \in on
        PROVE  \E r \in rows' : r.n = n /\ r.name = NameOf(n) /\ (n \notin Dirs => r.content = ver[n])
    <3>1. PICK r \in rows : r.n = n /\ r.name = NameOf(n) /\ (n \notin Dirs => r.content = ver[n])
      BY <2>2, <2>4, <2>5 DEF Fresh
    <3> QED BY <2>2, <2>3, <2>5, <3>1
  <2>7. Archived(rows') \subseteq on BY <2>2, <2>3, <2>4, <2>5
  <2>8. \A n : NameOf(n)' = NameOf(n) BY <2>3 DEF NameOf
  <2> QED BY <2>3, <2>6, <2>7, <2>8 DEF Copied, Archived
<1>2. IInv /\ [Next]_vars
        => [pc = "sweep" /\ pc' = "idle" /\ ~failed' /\ ~moved => (\A n \in Nodes : Copied(n))']_vars
  BY <1>1
<1> QED BY <1>2, Invariant, PTL DEF Spec, CleanRunMirrors

=============================================================================
