---------------------------- MODULE Export_proofs ---------------------------
(***************************************************************************)
(* The export.                                                             *)
(*                                                                         *)
(* Of mailboxes, files, contacts and scripts, for any archives, accounts   *)
(* and names, and any other clients, faults and interruptions: --prune     *)
(* destroys nothing that the archive has (ExportTypes).                    *)
(*                                                                         *)
(* Of blobs, for any blobs, workers, limits and number of panics           *)
(* (UploadPool).  The inductive invariant UploadInv ties the two counters  *)
(* of Budget to the blobs really in flight; it needs the order in which    *)
(* upload() works: the blobs still to be looked at are never in the pool,  *)
(* the pool is empty between two calls, and while no worker died none has  *)
(* left.                                                                   *)
(***************************************************************************)
EXTENDS ExportTypes, UploadPool, FiniteSetTheorems, WellFoundedInduction, TLAPS

-----------------------------------------------------------------------------
(* The invariant.                                                          *)

(* Accounts: every object has its id and its parent.                       *)
Account(t) ==
  /\ t = [objs |-> t.objs, next |-> t.next]
  /\ t.next \in Nat \ {0} /\ t.objs \subseteq Object
  /\ \A x \in t.objs : x.id \in 1..(t.next - 1) /\ Exists(t.objs, x.parent)
  /\ \A x, y \in t.objs : x.id = y.id \/ SameKey(x, y) => x = y

(* The objects a row of this type can be mapped to.                        *)
OfType(i, T, t) == i \in 1..(t.next - 1) /\ \A x \in t.objs : x.id = i => x.type = T

Shaped(r, t) ==
  /\ DOMAIN r = {"pc", "at", "prune", "maps", "plans", "failed", "listed", "kept", "taken", "todo", "moved"}
  /\ r.pc \in {"over", "match", "create", "prune"} /\ r.at \in DOMAIN archive.work
  /\ r.maps \in [Rows -> Nat]
  /\ r.kept \subseteq 1..(t.next - 1)
  /\ r.todo \subseteq RowsOf(archive.work[r.at])
  /\ r.pc = "prune" => r.listed = {} /\ r.todo = {}
  /\ DOMAIN r.plans = DOMAIN archive.work
  /\ \A k \in DOMAIN archive.work : DOMAIN r.plans[k] = {"depth", "active"}

(* A row is mapped to what was of its type, if at all.                     *)
Mapped(r, t) == \A l \in Rows : r.maps[l] = Top \/ OfType(r.maps[l], RowAt(l).type, t)

(* The types that a run did not reach have no rows mapped and no plans.    *)
Ahead(r, k) == r.pc \in {"match", "create"} /\ k \in DOMAIN archive.work /\ k >= r.at
Unreached(r) ==
  \A k \in DOMAIN archive.work : Ahead(r, k) =>
    /\ r.plans[k] = NoPlan
    /\ k > r.at \/ r.pc = "match" => \A l \in RowsOf(archive.work[k]) : r.maps[l] = Top

(* What was listed is as it was, but for the mark of scripts.              *)
Listed(r, t) ==
  \A u \in r.listed :
    /\ u \in Object /\ u.type = archive.work[r.at] /\ u.id \in 1..(t.next - 1)
    /\ \A x \in t.objs : x.id = u.id =>
         x.type = u.type /\ x.name = u.name /\ (x.mark => u.mark \/ x.type = "SieveScript")

(* What a row was matched with, and what has its name as a key, is kept.   *)
Kept(r) ==
  r.pc = "create" => \A l \in RowsOf(archive.work[r.at]) : \A u \in r.listed :
    /\ r.maps[l] = u.id => u.id \in r.kept
    /\ archive.work[r.at] \in Keyed /\ u.name = RowAt(l).name => u.id \in r.kept

(* What is planned to be destroyed is nothing the archive has.             *)
Spare(x, T, maps) ==
  /\ x.type = T /\ (x.mark => T = "SieveScript")
  /\ \A l \in RowsOf(T) : maps[l] # x.id /\ (T \in Keyed => RowAt(l).name # x.name)
Spared(r, t) ==
  \A k \in DOMAIN archive.work : \A i \in DOMAIN r.plans[k].depth :
    /\ i \in 1..(t.next - 1)
    /\ \A x \in t.objs : x.id = i => Spare(x, archive.work[k], r.maps)

RunOK(r, t) ==
  Shaped(r, t) /\ Mapped(r, t) /\ Unreached(r) /\ Listed(r, t) /\ Kept(r) /\ Spared(r, t)

IInv ==
  /\ archive \in Archives /\ upsets \in 0..MaxUpsets
  /\ Account(target) /\ RunOK(run, target)

-----------------------------------------------------------------------------
(* Numbers and objects.                                                    *)

(* The numbers are well founded.                                           *)
LEMMA Less ==
  \E R : IsWellFoundedOn(R, Nat) /\ \A k \in Nat, m \in Nat : <<k, m>> \in R <=> k < m
<1> DEFINE R == OpToRel(<, Nat)
<1>1. IsWellFoundedOn(R, Nat)
  BY NatLessThanWellFounded, Zenon
<1>2. \A k \in Nat, m \in Nat : <<k, m>> \in R <=> k < m
  BY Zenon DEF OpToRel
<1> HIDE DEF R
<1> QED
  BY <1>1, <1>2, Zenon

(* Some numbers have a smallest one.                                       *)
LEMMA Smallest ==
  ASSUME NEW S \in SUBSET Nat, S # {}
  PROVE  \E m \in S : \A k \in S : m <= k
<1>1. PICK R : IsWellFoundedOn(R, Nat) /\ \A k \in Nat, m \in Nat : <<k, m>> \in R <=> k < m
  BY Less
<1>2. IsWellFoundedOn(R, Nat) /\ S \subseteq Nat
  BY <1>1
<1>3. PICK m \in S : \A k \in S : ~ (<<k, m>> \in R)
  BY <1>2, WFMin, Zenon
<1>4. \A k \in S : k \in Nat /\ m \in Nat /\ ~(k < m)
  BY <1>1, <1>3
<1> QED
  BY <1>4

(* FirstOf finds one of the objects.                                       *)
LEMMA FirstOfIn ==
  ASSUME NEW S, Ids(S) \subseteq Nat, S # {}
  PROVE  FirstOf(S) \in S
<1>1. Ids(S) \in SUBSET Nat /\ Ids(S) # {}
  BY DEF Ids
<1>2. \E m \in Ids(S) : \A k \in Ids(S) : m <= k
  BY <1>1, Smallest
<1>3. Min(Ids(S)) \in Ids(S)
  BY <1>2 DEF Min
<1>4. \E x \in S : x.id = Min(Ids(S))
  BY <1>3 DEF Ids
<1> QED
  BY <1>4 DEF FirstOf

(* What the assumptions say of the archive.                                *)
LEMMA ArchiveFacts ==
  ASSUME archive \in Archives
  PROVE  /\ Rows = 1..Len(archive.rows) /\ Len(archive.rows) \in Nat /\ IsFiniteSet(Rows)
         /\ Rows \subseteq Nat \ {0}
         /\ \A l \in Rows : RowAt(l) \in Row
         /\ DOMAIN archive.work = 1..Len(archive.work) /\ Len(archive.work) \in Nat \ {0}
         /\ \A k \in DOMAIN archive.work : archive.work[k] \in Types
         /\ \A i, j \in DOMAIN archive.work : archive.work[i] = archive.work[j] => i = j
<1>1. /\ archive.rows \in Seq(Row) /\ archive.work \in Seq(Types) /\ archive.work # <<>>
      /\ \A i, j \in DOMAIN archive.work : archive.work[i] = archive.work[j] => i = j
  BY ExportAssumption
<1>2. Len(archive.rows) \in Nat /\ Rows = 1..Len(archive.rows)
  BY <1>1 DEF Rows
<1>3. IsFiniteSet(1..Len(archive.rows))
  BY <1>2, FS_Interval
<1>4. \A l \in Rows : RowAt(l) \in Row
  BY <1>1, <1>2 DEF RowAt
<1>5. DOMAIN archive.work = 1..Len(archive.work) /\ Len(archive.work) \in Nat \ {0}
  BY <1>1
<1>6. \A k \in DOMAIN archive.work : archive.work[k] \in Types
  BY <1>1, <1>5
<1> QED
  BY <1>1, <1>2, <1>3, <1>4, <1>5, <1>6

-----------------------------------------------------------------------------
(* The target: what its changes leave as it was.                           *)

(* Every object of u is new, or there as it was in t.                      *)
Follows(t, u) ==
  /\ u.next \in Nat /\ t.next <= u.next
  /\ \A x \in u.objs :
       \/ x.id >= t.next
       \/ \E y \in t.objs : /\ y.id = x.id /\ y.type = x.type /\ y.name = x.name
                            /\ x.mark => y.mark \/ x.type = "SieveScript"

(* Such a change says nothing new of the ids there were.                   *)
LEMMA Carried ==
  ASSUME NEW r, NEW t, NEW u, t.next \in Nat, Follows(t, u), RunOK(r, t)
  PROVE  RunOK(r, u)
<1>1. \A i \in 1..(t.next - 1) : i \in 1..(u.next - 1) /\ i \in Nat /\ i < t.next
  BY DEF Follows
<1>2. ASSUME NEW x \in u.objs, x.id \in 1..(t.next - 1)
      PROVE  \E y \in t.objs : /\ y.id = x.id /\ y.type = x.type /\ y.name = x.name
                               /\ x.mark => y.mark \/ x.type = "SieveScript"
  BY <1>1, <1>2 DEF Follows
<1>3. \A i, T : OfType(i, T, t) => OfType(i, T, u)
  BY <1>1, <1>2 DEF OfType
<1>4. Shaped(r, u)
  BY <1>1 DEF RunOK, Shaped
<1>5. Mapped(r, u)
  BY <1>3 DEF RunOK, Mapped
<1>6. Listed(r, u)
  <2> SUFFICES ASSUME NEW v \in r.listed
               PROVE  /\ v \in Object /\ v.type = archive.work[r.at] /\ v.id \in 1..(u.next - 1)
                      /\ \A x \in u.objs : x.id = v.id =>
                           /\ x.type = v.type /\ x.name = v.name
                           /\ x.mark => v.mark \/ x.type = "SieveScript"
    BY DEF Listed
  <2>1. /\ v \in Object /\ v.type = archive.work[r.at] /\ v.id \in 1..(t.next - 1)
        /\ \A x \in t.objs : x.id = v.id =>
             x.type = v.type /\ x.name = v.name /\ (x.mark => v.mark \/ x.type = "SieveScript")
    BY DEF RunOK, Listed
  <2>2. ASSUME NEW x \in u.objs, x.id = v.id
        PROVE  /\ x.type = v.type /\ x.name = v.name
               /\ x.mark => v.mark \/ x.type = "SieveScript"
    <3>1. PICK y \in t.objs : /\ y.id = x.id /\ y.type = x.type /\ y.name = x.name
                              /\ x.mark => y.mark \/ x.type = "SieveScript"
      BY <1>2, <2>1, <2>2
    <3> QED
      BY <2>1, <2>2, <3>1
  <2> QED
    BY <1>1, <2>1, <2>2
<1>7. Spared(r, u)
  <2> SUFFICES ASSUME NEW k \in DOMAIN archive.work, NEW i \in DOMAIN r.plans[k].depth
               PROVE  /\ i \in 1..(u.next - 1)
                      /\ \A x \in u.objs : x.id = i => Spare(x, archive.work[k], r.maps)
    BY DEF Spared
  <2>1. /\ i \in 1..(t.next - 1)
        /\ \A x \in t.objs : x.id = i => Spare(x, archive.work[k], r.maps)
    BY DEF RunOK, Spared
  <2>2. ASSUME NEW x \in u.objs, x.id = i
        PROVE  Spare(x, archive.work[k], r.maps)
    <3>1. PICK y \in t.objs : /\ y.id = x.id /\ y.type = x.type /\ y.name = x.name
                              /\ x.mark => y.mark \/ x.type = "SieveScript"
      BY <1>2, <2>1, <2>2
    <3>2. Spare(y, archive.work[k], r.maps)
      BY <2>1, <2>2, <3>1
    <3> QED
      BY <3>1, <3>2 DEF Spare
  <2> QED
    BY <1>1, <2>1, <2>2
<1> QED
  BY <1>4, <1>5, <1>6, <1>7 DEF RunOK

(* What is destroyed takes nothing with it that is in it.                  *)
LEMMA WithoutAccount ==
  ASSUME NEW t, Account(t), NEW D, \A x \in t.objs : x.parent \in D => x.id \in D
  PROVE  LET u == [t EXCEPT !.objs = Without(t.objs, D)] IN Account(u) /\ Follows(t, u)
<1> DEFINE u == [t EXCEPT !.objs = Without(t.objs, D)]
<1>1. t = [objs |-> t.objs, next |-> t.next]
  BY DEF Account
<1>2. u.objs = Without(t.objs, D) /\ u.next = t.next /\ u = [objs |-> u.objs, next |-> u.next]
  BY <1>1
<1> HIDE DEF u
<1>3. \A x \in u.objs : x \in t.objs /\ x.id \notin D
  BY <1>2 DEF Without
<1>4. ASSUME NEW x \in u.objs
      PROVE  Exists(u.objs, x.parent)
  <2>1. x.parent \notin D
    BY <1>3
  <2>2. CASE x.parent = Top
    BY <2>2 DEF Exists
  <2>3. CASE x.parent # Top
    <3>1. PICK y \in t.objs : y.id = x.parent
      BY <1>3, <2>3 DEF Account, Exists, Ids
    <3>2. y \in u.objs
      BY <1>2, <2>1, <3>1 DEF Without
    <3> QED
      BY <3>1, <3>2 DEF Exists, Ids
  <2> QED
    BY <2>2, <2>3
<1>5. Account(u)
  BY <1>2, <1>3, <1>4 DEF Account
<1>6. Follows(t, u)
  BY <1>2, <1>3 DEF Account, Follows
<1> QED
  BY <1>5, <1>6 DEF u

(* The activation of a script changes the marks of scripts.                *)
LEMMA ActivatedAccount ==
  ASSUME NEW t, Account(t), NEW active
  PROVE  LET u == [t EXCEPT !.objs = Activated(t.objs, active)] IN Account(u) /\ Follows(t, u)
<1> DEFINE u == [t EXCEPT !.objs = Activated(t.objs, active)]
           New(x) == IF x.type = "SieveScript" THEN [x EXCEPT !.mark = x.id = active] ELSE x
<1>1. t = [objs |-> t.objs, next |-> t.next]
  BY DEF Account
<1>2. u.objs = Activated(t.objs, active) /\ u.next = t.next /\ u = [objs |-> u.objs, next |-> u.next]
  BY <1>1
<1>3. ASSUME NEW x \in t.objs
      PROVE  /\ New(x) \in Object /\ New(x).id = x.id /\ New(x).type = x.type
             /\ New(x).name = x.name /\ New(x).parent = x.parent
             /\ New(x).mark => x.mark \/ x.type = "SieveScript"
  <2>1. x \in Object
    BY DEF Account
  <2>2. CASE x.type = "SieveScript"
    <3>1. New(x) = [x EXCEPT !.mark = x.id = active]
      BY <2>2
    <3>2. (x.id = active) \in BOOLEAN
      OBVIOUS
    <3>3. PICK b \in BOOLEAN : b = (x.id = active)
      BY <3>2
    <3>4. New(x) = [x EXCEPT !.mark = b]
      BY <3>1, <3>3
    <3> QED
      BY <2>1, <2>2, <3>4 DEF Object
  <2>3. CASE x.type # "SieveScript"
    BY <2>1, <2>3
  <2> QED
    BY <2>2, <2>3
<1>4. u.objs = {New(x) : x \in t.objs}
  BY <1>2 DEF Activated
<1> HIDE DEF u, New
<1>5. \A x \in u.objs : \E y \in t.objs : x = New(y)
  BY <1>4
<1>6. \A y \in t.objs : New(y) \in u.objs
  BY <1>4
<1>7. ASSUME NEW x \in u.objs
      PROVE  x \in Object /\ x.id \in 1..(u.next - 1) /\ Exists(u.objs, x.parent)
  <2>1. PICK y \in t.objs : x = New(y)
    BY <1>5
  <2>2. x \in Object /\ x.id \in 1..(u.next - 1) /\ x.parent = y.parent
    BY <1>2, <1>3, <2>1 DEF Account
  <2>3. CASE y.parent = Top
    BY <2>2, <2>3 DEF Exists
  <2>4. CASE y.parent # Top
    <3>1. PICK z \in t.objs : z.id = y.parent
      BY <2>4 DEF Account, Exists, Ids
    <3>2. New(z) \in u.objs /\ New(z).id = x.parent
      BY <1>3, <1>6, <2>2, <3>1
    <3> QED
      BY <2>2, <3>2 DEF Exists, Ids
  <2> QED
    BY <2>2, <2>3, <2>4
<1>8. ASSUME NEW x \in u.objs, NEW y \in u.objs, x.id = y.id \/ SameKey(x, y)
      PROVE  x = y
  <2>1. PICK v \in t.objs, w \in t.objs : x = New(v) /\ y = New(w)
    BY <1>5
  <2>2. v.id = w.id \/ SameKey(v, w)
    BY <1>3, <1>8, <2>1 DEF SameKey
  <2> QED
    BY <2>1, <2>2 DEF Account
<1>9. Account(u)
  BY <1>2, <1>7, <1>8 DEF Account
<1>10. Follows(t, u)
  <2>1. ASSUME NEW x \in u.objs
        PROVE  \E y \in t.objs : /\ y.id = x.id /\ y.type = x.type /\ y.name = x.name
                                 /\ x.mark => y.mark \/ x.type = "SieveScript"
    <3>1. PICK y \in t.objs : x = New(y)
      BY <1>5
    <3> QED
      BY <1>3, <3>1
  <2> QED
    BY <1>2, <2>1 DEF Account, Follows
<1> QED
  BY <1>9, <1>10 DEF u

(* No object stays without the one it is in.                               *)
LEMMA DestroyedClosed ==
  ASSUME NEW objs, NEW n, NEW S, NEW D \in Destroyed(objs, n, S)
  PROVE  /\ D \subseteq Planned
         /\ \A x \in objs : x.parent \in D => x.id \in D
<1>1. D \subseteq FirstIds(n) /\ FirstIds(n) \subseteq Planned
  BY DEF Destroyed, FirstIds
<1>2. ASSUME NEW x \in objs, x.parent \in D
      PROVE  x.id \in D
  <2>1. ~ Stays(Without(objs, D \intersect Sooner(x.parent)), x.parent)
    BY <1>1, <1>2 DEF Destroyed
  <2>2. x \notin Without(objs, D \intersect Sooner(x.parent))
    BY <2>1 DEF Stays
  <2> QED
    BY <2>2 DEF Without
<1> QED
  BY <1>1, <1>2

(* The ids of new objects come one after the other.                        *)
LEMMA IdsApart ==
  ASSUME archive \in Archives, NEW N, N \subseteq Rows, NEW next \in Nat
  PROVE  /\ Cardinality(N) \in Nat
         /\ \A l \in N : IdOf(l, N, next) \in Nat /\ next <= IdOf(l, N, next)
                         /\ IdOf(l, N, next) < next + Cardinality(N)
         /\ \A l, m \in N : l < m => IdOf(l, N, next) < IdOf(m, N, next)
<1>1. IsFiniteSet(N) /\ Cardinality(N) \in Nat /\ N \subseteq Nat
  <2>1. IsFiniteSet(Rows) /\ Rows \subseteq Nat
    BY ArchiveFacts
  <2> QED
    BY <2>1, FS_Subset, FS_CardinalityType
<1>2. ASSUME NEW S \in SUBSET N, NEW x \in N, x \notin S
      PROVE  Cardinality(S) \in Nat /\ Cardinality(S) < Cardinality(N)
  <2>1. IsFiniteSet(S) /\ Cardinality(S) <= Cardinality(N) /\ (Cardinality(S) = Cardinality(N) => S = N)
    BY <1>1, FS_Subset
  <2>2. Cardinality(S) \in Nat
    BY <2>1, FS_CardinalityType
  <2> QED
    BY <1>1, <1>2, <2>1, <2>2
<1>3. ASSUME NEW l \in N
      PROVE  Cardinality(Earlier(l, N)) \in Nat /\ Cardinality(Earlier(l, N)) < Cardinality(N)
  <2>1. Earlier(l, N) \in SUBSET N /\ l \notin Earlier(l, N)
    BY <1>1 DEF Earlier
  <2> QED
    BY <1>2, <2>1
<1>4. ASSUME NEW l \in N, NEW m \in N, l < m
      PROVE  Cardinality(Earlier(l, N)) < Cardinality(Earlier(m, N))
  <2>1. /\ Earlier(l, N) \subseteq Earlier(m, N)
        /\ l \in Earlier(m, N) /\ l \notin Earlier(l, N)
    <3>1. \A k \in N : k < l => k < m
      BY <1>1, <1>4
    <3>2. ~(l < l)
      BY <1>1
    <3> QED
      BY <1>4, <3>1, <3>2 DEF Earlier
  <2>2. IsFiniteSet(Earlier(m, N))
    <3>1. Earlier(m, N) \subseteq N
      BY DEF Earlier
    <3> QED
      BY <1>1, <3>1, FS_Subset
  <2>3. /\ Cardinality(Earlier(l, N)) <= Cardinality(Earlier(m, N))
        /\ Cardinality(Earlier(l, N)) = Cardinality(Earlier(m, N)) => Earlier(l, N) = Earlier(m, N)
    BY <2>1, <2>2, FS_Subset
  <2> QED
    BY <1>3, <2>1, <2>3
<1> QED
  BY <1>1, <1>3, <1>4 DEF IdOf

(* What the target makes of rows: each its own object, with new ids.       *)
LEMMA AfterAccount ==
  ASSUME archive \in Archives, NEW t, Account(t), run.maps \in [Rows -> Nat],
         NEW G, G \subseteq Rows, NEW N \in Creations(G, t), NEW default
  PROVE  LET u == After(t, N, default)
         IN /\ Account(u) /\ Follows(t, u)
            /\ \A l \in N : /\ IdOf(l, N, t.next) >= t.next
                            /\ OfType(IdOf(l, N, t.next), RowAt(l).type, u)
<1> DEFINE u == After(t, N, default)
           Mark(l, M, d) == \/ Type = "Mailbox" /\ Marked(l, Sent)
                            \/ Type = "AddressBook" /\ d /\ Marked(l, M)
           New(l, M, d) == NewObject(IdOf(l, M, t.next), RowAt(l), Place(l, run.maps), Mark(l, M, d))
<1>1. /\ N \subseteq Rows /\ Rows \subseteq Nat \ {0}
      /\ \A l \in N : Allowed(l, N, t) /\ Siblings(l, N, t) = {} /\ RowAt(l) \in Row
  BY ArchiveFacts DEF Creations
<1>2. t.next \in Nat \ {0}
  BY DEF Account
<1>3. /\ Cardinality(N) \in Nat
      /\ \A l \in N : IdOf(l, N, t.next) \in Nat /\ t.next <= IdOf(l, N, t.next)
                      /\ IdOf(l, N, t.next) < t.next + Cardinality(N)
      /\ \A l, m \in N : l < m => IdOf(l, N, t.next) < IdOf(m, N, t.next)
  BY <1>1, <1>2, IdsApart
<1>4. /\ u.objs = t.objs \union {New(l, N, default) : l \in N}
      /\ u.next = t.next + Cardinality(N)
      /\ u = [objs |-> u.objs, next |-> u.next]
  BY DEF After, Made
<1>5. ASSUME NEW l \in N
      PROVE  /\ New(l, N, default) \in Object /\ New(l, N, default).id = IdOf(l, N, t.next)
             /\ New(l, N, default).type = RowAt(l).type /\ New(l, N, default).name = RowAt(l).name
             /\ New(l, N, default).parent = Place(l, run.maps)
             /\ Exists(t.objs, Place(l, run.maps))
  <2>1. Exists(t.objs, Place(l, run.maps))
    BY <1>1 DEF Allowed
  <2>2. Place(l, run.maps) \in Nat
    <3>1. Ids(t.objs) \subseteq Nat
      BY <1>2 DEF Account, Ids
    <3> QED
      BY <2>1, <3>1 DEF Exists, Top
  <2>3. Mark(l, N, default) \in BOOLEAN
    BY Zenon
  <2>4. PICK b \in BOOLEAN : b = Mark(l, N, default)
    BY <2>3
  <2>5. New(l, N, default) = NewObject(IdOf(l, N, t.next), RowAt(l), Place(l, run.maps), b)
    BY <2>4
  <2>6. RowAt(l).type \in Types /\ RowAt(l).name \in Names
    BY <1>1 DEF Row
  <2> HIDE DEF New
  <2>7. New(l, N, default) \in Object
    BY <1>3, <2>2, <2>5, <2>6 DEF NewObject, Object
  <2> QED
    BY <2>1, <2>5, <2>7 DEF NewObject
<1>6. ASSUME NEW l \in N, NEW x \in t.objs, x.type = RowAt(l).type, x.type \in Keyed
      PROVE  x.name # RowAt(l).name
  <2>1. x \notin Siblings(l, N, t) /\ x \in After(t, Earlier(l, N), FALSE).objs
    BY <1>1 DEF After
  <2> QED
    BY <1>6, <2>1 DEF Siblings, Clashing, Keyed, Trees
<1>7. ASSUME NEW l \in N, NEW m \in N, l < m, RowAt(l).type = RowAt(m).type, RowAt(l).type \in Keyed
      PROVE  RowAt(l).name # RowAt(m).name
  <2>1. l \in Earlier(m, N)
    BY <1>7 DEF Earlier
  <2>2. New(l, Earlier(m, N), FALSE) \in After(t, Earlier(m, N), FALSE).objs
    BY <2>1 DEF After, Made
  <2>3. /\ New(l, Earlier(m, N), FALSE).type = RowAt(l).type
        /\ New(l, Earlier(m, N), FALSE).name = RowAt(l).name
    BY DEF NewObject
  <2>4. New(l, Earlier(m, N), FALSE) \notin Siblings(m, N, t)
    BY <1>1
  <2> HIDE DEF New
  <2> QED
    BY <1>7, <2>2, <2>3, <2>4 DEF Siblings, Clashing, Keyed, Trees
<1> HIDE DEF u, New
<1>8. \A x \in u.objs : x \in t.objs \/ \E l \in N : x = New(l, N, default)
  BY <1>4
<1>9. ASSUME NEW x \in u.objs
      PROVE  x \in Object /\ x.id \in 1..(u.next - 1) /\ Exists(u.objs, x.parent)
  <2>1. \A p : Exists(t.objs, p) => Exists(u.objs, p)
    BY <1>4 DEF Exists, Ids
  <2>2. CASE x \in t.objs
    BY <1>2, <1>3, <1>4, <2>1, <2>2 DEF Account
  <2>3. CASE x \notin t.objs
    <3>1. PICK l \in N : x = New(l, N, default)
      BY <1>8, <2>3
    <3>2. x \in Object /\ x.id = IdOf(l, N, t.next) /\ Exists(t.objs, x.parent)
      BY <1>5, <3>1
    <3> QED
      BY <1>2, <1>3, <1>4, <2>1, <3>2
  <2> QED
    BY <2>2, <2>3
<1>10. ASSUME NEW x \in u.objs, NEW y \in u.objs, x.id = y.id \/ SameKey(x, y)
       PROVE  x = y
  <2>1. ASSUME NEW v \in t.objs, NEW l \in N
        PROVE  v.id # New(l, N, default).id /\ ~ SameKey(v, New(l, N, default))
               /\ ~ SameKey(New(l, N, default), v)
    <3>1. v.id < t.next /\ v.id \in Nat
      BY <1>2 DEF Account
    <3>2. v.id # New(l, N, default).id
      BY <1>2, <1>3, <1>5, <3>1
    <3> QED
      BY <1>5, <1>6, <3>2 DEF SameKey
  <2>2. ASSUME NEW l \in N, NEW m \in N, l # m
        PROVE  /\ New(l, N, default).id # New(m, N, default).id
               /\ ~ SameKey(New(l, N, default), New(m, N, default))
    <3>1. l < m \/ m < l
      <4>1. l \in Nat /\ m \in Nat
        BY <1>1
      <4> QED
        BY <2>2, <4>1
    <3>2. IdOf(l, N, t.next) # IdOf(m, N, t.next)
      BY <1>3, <3>1
    <3>3. ~ SameKey(New(l, N, default), New(m, N, default))
      BY <1>5, <1>7, <3>1 DEF SameKey
    <3> QED
      BY <1>5, <3>2, <3>3
  <2>3. x \in t.objs /\ y \in t.objs => x = y
    BY <1>10 DEF Account
  <2> QED
    BY <1>8, <1>10, <2>1, <2>2, <2>3
<1>11. Account(u)
  <2>1. u.next \in Nat \ {0}
    BY <1>2, <1>3, <1>4
  <2>2. u.objs \subseteq Object
    BY <1>9
  <2> QED
    BY <1>4, <1>9, <1>10, <2>1, <2>2 DEF Account
<1>12. Follows(t, u)
  <2>1. ASSUME NEW x \in u.objs
        PROVE  \/ x.id >= t.next
               \/ \E y \in t.objs : /\ y.id = x.id /\ y.type = x.type /\ y.name = x.name
                                    /\ x.mark => y.mark \/ x.type = "SieveScript"
    <3>1. CASE x \in t.objs
      BY <3>1
    <3>2. CASE x \notin t.objs
      <4>1. PICK l \in N : x = New(l, N, default)
        BY <1>8, <3>2
      <4> QED
        BY <1>2, <1>3, <1>5, <4>1
    <3> QED
      BY <3>1, <3>2
  <2> QED
    BY <1>2, <1>3, <1>4, <2>1 DEF Follows
<1>13. ASSUME NEW l \in N
       PROVE  IdOf(l, N, t.next) >= t.next /\ OfType(IdOf(l, N, t.next), RowAt(l).type, u)
  <2>1. New(l, N, default) \in u.objs
    BY <1>4
  <2>2. \A x \in u.objs : x.id = IdOf(l, N, t.next) => x = New(l, N, default)
    BY <1>5, <1>10, <2>1
  <2> QED
    BY <1>2, <1>3, <1>4, <1>5, <2>2 DEF OfType
<1> QED
  BY <1>11, <1>12, <1>13 DEF u

-----------------------------------------------------------------------------
(* The run: what its steps make of it.                                     *)

(* Rows of the type that the run is at get an object of the type; what     *)
(* was listed is kept then.                                                *)
LEMMA Remapped ==
  ASSUME archive \in Archives, NEW t, t.next \in Nat, NEW r, RunOK(r, t), r.pc = "create",
         NEW s, DOMAIN s = DOMAIN r, s.pc = r.pc, s.at = r.at, s.plans = r.plans,
         s.listed = r.listed, s.todo \subseteq r.todo,
         r.kept \subseteq s.kept, s.kept \subseteq 1..(t.next - 1),
         s.maps \in [Rows -> Nat],
         \A l \in Rows : s.maps[l] # r.maps[l] =>
           /\ RowAt(l).type = archive.work[r.at] /\ OfType(s.maps[l], RowAt(l).type, t)
           /\ \A u \in r.listed : u.id = s.maps[l] => u.id \in s.kept
  PROVE  RunOK(s, t)
<1>1. Shaped(s, t)
  BY DEF RunOK, Shaped
<1>2. Mapped(s, t)
  BY DEF RunOK, Mapped
<1>3. Unreached(s)
  <2> SUFFICES ASSUME NEW k \in DOMAIN archive.work, Ahead(s, k)
               PROVE  /\ s.plans[k] = NoPlan
                      /\ k > s.at => \A l \in RowsOf(archive.work[k]) : s.maps[l] = Top
    BY DEF Unreached
  <2>1. /\ r.plans[k] = NoPlan
        /\ k > r.at => \A l \in RowsOf(archive.work[k]) : r.maps[l] = Top
    BY DEF RunOK, Unreached, Ahead
  <2>2. k > r.at => archive.work[k] # archive.work[r.at]
    BY ArchiveFacts DEF RunOK, Shaped
  <2> QED
    BY <2>1, <2>2 DEF RowsOf
<1>4. Listed(s, t)
  BY DEF RunOK, Listed
<1>5. Kept(s)
  <2> SUFFICES ASSUME NEW l \in RowsOf(archive.work[r.at]), NEW u \in r.listed
               PROVE  /\ s.maps[l] = u.id => u.id \in s.kept
                      /\ archive.work[r.at] \in Keyed /\ u.name = RowAt(l).name => u.id \in s.kept
    BY DEF Kept
  <2> QED
    BY DEF RunOK, Kept, RowsOf
<1>6. Spared(s, t)
  <2> SUFFICES ASSUME NEW k \in DOMAIN archive.work, NEW i \in DOMAIN r.plans[k].depth
               PROVE  /\ i \in 1..(t.next - 1)
                      /\ \A x \in t.objs : x.id = i => Spare(x, archive.work[k], s.maps)
    BY DEF Spared
  <2>1. /\ i \in 1..(t.next - 1)
        /\ \A x \in t.objs : x.id = i => Spare(x, archive.work[k], r.maps)
    BY DEF RunOK, Spared
  <2>2. ASSUME NEW x \in t.objs, x.id = i
        PROVE  Spare(x, archive.work[k], s.maps)
    <3>1. Spare(x, archive.work[k], r.maps)
      BY <2>1, <2>2
    <3>2. archive.work[k] # archive.work[r.at]
      <4>1. r.at \in DOMAIN archive.work /\ DOMAIN archive.work = 1..Len(archive.work)
        BY ArchiveFacts DEF RunOK, Shaped
      <4>2. SUFFICES ASSUME k >= r.at
                     PROVE  FALSE
        BY <4>1, ArchiveFacts
      <4>3. r.plans[k] = NoPlan
        BY <4>2 DEF RunOK, Unreached, Ahead
      <4>4. DOMAIN NoPlan.depth = {}
        BY DEF NoPlan
      <4> QED
        BY <4>3, <4>4
    <3> QED
      BY <3>1, <3>2 DEF Spare, RowsOf
  <2> QED
    BY <2>1, <2>2
<1> QED
  BY <1>1, <1>2, <1>3, <1>4, <1>5, <1>6 DEF RunOK

(* A run that is over plans nothing.                                       *)
LEMMA OverOK ==
  ASSUME archive \in Archives, NEW t, NEW maps \in [Rows -> Nat], NEW lost, NEW moved,
         \A l \in Rows : maps[l] = Top \/ OfType(maps[l], RowAt(l).type, t)
  PROVE  RunOK(Over(maps, lost, moved), t)
<1> DEFINE r == Over(maps, lost, moved)
<1>1. /\ DOMAIN r = {"pc", "at", "prune", "maps", "plans", "failed", "listed", "kept", "taken", "todo", "moved"}
      /\ r.pc = "over" /\ r.at = 1 /\ r.maps = maps /\ r.plans = NoPlans
      /\ r.listed = {} /\ r.kept = {} /\ r.todo = {}
  BY DEF Over
<1> HIDE DEF r
<1>2. 1 \in DOMAIN archive.work
  BY ArchiveFacts
<1>3. /\ DOMAIN NoPlans = DOMAIN archive.work
      /\ \A k \in DOMAIN archive.work : NoPlans[k] = NoPlan
      /\ DOMAIN NoPlan = {"depth", "active"} /\ DOMAIN NoPlan.depth = {}
  BY DEF NoPlans, NoPlan
<1>4. Shaped(r, t)
  BY <1>1, <1>2, <1>3 DEF Shaped
<1>5. Mapped(r, t) /\ Unreached(r) /\ Listed(r, t) /\ Kept(r) /\ Spared(r, t)
  BY <1>1, <1>3 DEF Mapped, Unreached, Ahead, Listed, Kept, Spared
<1> QED
  BY <1>4, <1>5 DEF RunOK, r

(* A type is done with a plan that spares what the archive has.            *)
LEMMA TypeDoneOK ==
  ASSUME archive \in Archives, NEW t, t.next \in Nat, NEW r, RunOK(r, t),
         r.pc \in {"match", "create"},
         NEW plan, DOMAIN plan = {"depth", "active"},
         \A i \in DOMAIN plan.depth :
           /\ i \in 1..(t.next - 1)
           /\ \A x \in t.objs : x.id = i => Spare(x, archive.work[r.at], r.maps)
  PROVE  RunOK(TypeDone(r, plan), t)
<1> DEFINE q == [r EXCEPT !.plans[r.at] = plan, !.listed = {}, !.kept = {}, !.taken = FALSE,
                          !.todo = {}]
<1>1. /\ DOMAIN q = DOMAIN r /\ q.pc = r.pc /\ q.at = r.at /\ q.maps = r.maps
      /\ q.plans = [r.plans EXCEPT ![r.at] = plan]
      /\ q.listed = {} /\ q.kept = {} /\ q.todo = {} /\ q.prune = r.prune
  BY DEF RunOK, Shaped
<1> HIDE DEF q
<1>2. /\ DOMAIN archive.work = 1..Len(archive.work) /\ Len(archive.work) \in Nat
      /\ r.at \in DOMAIN archive.work
  BY ArchiveFacts DEF RunOK, Shaped
<1>3. /\ DOMAIN q.plans = DOMAIN archive.work /\ q.plans[r.at] = plan
      /\ \A k \in DOMAIN archive.work : k # r.at => q.plans[k] = r.plans[k]
  BY <1>1, <1>2 DEF RunOK, Shaped
<1>4. ASSUME NEW s, DOMAIN s = DOMAIN q, s.maps = q.maps, s.plans = q.plans, s.listed = {},
             s.kept = {}, s.todo = {},
             \/ s.pc = "match" /\ s.at = r.at + 1 /\ s.at \in DOMAIN archive.work
             \/ s.pc = "prune" /\ s.at = r.at
      PROVE  RunOK(s, t)
  <2>1. Shaped(s, t)
    BY <1>1, <1>2, <1>3, <1>4 DEF RunOK, Shaped
  <2>2. Mapped(s, t) /\ Listed(s, t)
    BY <1>1, <1>4 DEF RunOK, Mapped, Listed
  <2>3. Unreached(s)
    <3> SUFFICES ASSUME NEW k \in DOMAIN archive.work, Ahead(s, k)
                 PROVE  s.plans[k] = NoPlan /\ \A l \in RowsOf(archive.work[k]) : s.maps[l] = Top
      BY DEF Unreached
    <3>1. k > r.at /\ Ahead(r, k)
      BY <1>2, <1>4 DEF Ahead
    <3> QED
      BY <1>1, <1>2, <1>3, <1>4, <3>1 DEF RunOK, Unreached
  <2>4. Kept(s)
    BY <1>4 DEF Kept
  <2>5. Spared(s, t)
    <3> SUFFICES ASSUME NEW k \in DOMAIN archive.work, NEW i \in DOMAIN q.plans[k].depth
                 PROVE  /\ i \in 1..(t.next - 1)
                        /\ \A x \in t.objs : x.id = i => Spare(x, archive.work[k], r.maps)
      BY <1>1, <1>4 DEF Spared
    <3>1. CASE k = r.at
      BY <1>3, <3>1
    <3>2. CASE k # r.at
      BY <1>3, <3>2 DEF RunOK, Spared
    <3> QED
      BY <3>1, <3>2
  <2> QED
    BY <2>1, <2>2, <2>3, <2>4, <2>5 DEF RunOK
<1>5. CASE r.at < Len(archive.work)
  <2> DEFINE s == [q EXCEPT !.pc = "match", !.at = @ + 1]
  <2>1. TypeDone(r, plan) = s
    BY <1>5 DEF TypeDone, q
  <2>2. /\ DOMAIN s = DOMAIN q /\ s.maps = q.maps /\ s.plans = q.plans /\ s.listed = {}
        /\ s.kept = {} /\ s.todo = {} /\ s.pc = "match" /\ s.at = r.at + 1
    BY <1>1 DEF RunOK, Shaped
  <2> HIDE DEF s
  <2>3. s.at \in DOMAIN archive.work
    BY <1>2, <1>5, <2>2
  <2> QED
    BY <1>4, <2>1, <2>2, <2>3
<1>6. CASE ~(r.at < Len(archive.work)) /\ r.prune
  <2> DEFINE s == [q EXCEPT !.pc = "prune"]
  <2>1. TypeDone(r, plan) = s
    BY <1>1, <1>6 DEF TypeDone, q
  <2>2. /\ DOMAIN s = DOMAIN q /\ s.maps = q.maps /\ s.plans = q.plans /\ s.listed = {}
        /\ s.kept = {} /\ s.todo = {} /\ s.pc = "prune" /\ s.at = r.at
    BY <1>1 DEF RunOK, Shaped
  <2> HIDE DEF s
  <2> QED
    BY <1>4, <2>1, <2>2
<1>7. CASE ~(r.at < Len(archive.work)) /\ ~ r.prune
  <2>1. TypeDone(r, plan) = Over(r.maps, r.failed, r.moved)
    BY <1>7 DEF TypeDone
  <2>2. /\ r.maps \in [Rows -> Nat]
        /\ \A l \in Rows : r.maps[l] = Top \/ OfType(r.maps[l], RowAt(l).type, t)
    BY DEF RunOK, Shaped, Mapped
  <2> QED
    BY <2>1, <2>2, OverOK
<1> QED
  BY <1>5, <1>6, <1>7

(* Only what is not counted as such tells the runs apart.                  *)
LEMMA SameOK ==
  ASSUME NEW t, NEW r, RunOK(r, t), NEW s, DOMAIN s = DOMAIN r, s.pc = r.pc, s.at = r.at,
         s.maps = r.maps, s.plans = r.plans, s.listed = r.listed, s.kept = r.kept, s.todo = r.todo
  PROVE  RunOK(s, t)
<1>1. Shaped(s, t)
  BY DEF RunOK, Shaped
<1>2. Mapped(s, t) /\ Listed(s, t) /\ Kept(s) /\ Spared(s, t)
  BY DEF RunOK, Mapped, Listed, Kept, Spared
<1>3. Unreached(s)
  BY DEF RunOK, Unreached, Ahead
<1> QED
  BY <1>1, <1>2, <1>3 DEF RunOK

(* A failure or another's change is noted.                                 *)
LEMMA NotedOK ==
  ASSUME NEW t, NEW r, RunOK(r, t), NEW b,
         NEW s, s = [r EXCEPT !.failed = b] \/ s = [r EXCEPT !.moved = b]
  PROVE  RunOK(s, t) /\ s.pc = r.pc /\ s.at = r.at /\ s.maps = r.maps
<1>1. DOMAIN r = {"pc", "at", "prune", "maps", "plans", "failed", "listed", "kept", "taken", "todo", "moved"}
  BY DEF RunOK, Shaped
<1>2. /\ DOMAIN s = DOMAIN r /\ s.pc = r.pc /\ s.at = r.at /\ s.maps = r.maps
      /\ s.plans = r.plans /\ s.listed = r.listed /\ s.kept = r.kept /\ s.todo = r.todo
  BY <1>1
<1> QED
  BY <1>2, SameOK

(* The rows of a request are rows of the type.                             *)
LEMMA GroupRows ==
  ASSUME NEW t, RunOK(run, t)
  PROVE  /\ Group \subseteq RowsOf(Type) /\ Sent \subseteq RowsOf(Type)
         /\ Colliding \subseteq RowsOf(Type) /\ RowsOf(Type) \subseteq Rows
         /\ \A l \in RowsOf(Type) : RowAt(l).type = Type
<1>1. run.todo \subseteq RowsOf(Type)
  BY DEF RunOK, Shaped, Type
<1>2. Group \subseteq run.todo
  BY DEF Group
<1> QED
  BY <1>1, <1>2 DEF Sent, Colliding, RowsOf

(* The rows of a request that collide are merged into what was listed.     *)
LEMMA PreparedOK ==
  ASSUME archive \in Archives, Account(target), RunOK(run, target), run.pc = "create"
  PROVE  RunOK(Prepared, target) /\ Prepared.pc = "create" /\ Prepared.at = run.at
<1> DEFINE into == [l \in Colliding |-> FirstOf(Collisions(l)).id]
           s == Prepared
<1>1. target.next \in Nat
  BY DEF Account
<1>2. DOMAIN run = {"pc", "at", "prune", "maps", "plans", "failed", "listed", "kept", "taken", "todo", "moved"}
  BY DEF RunOK, Shaped
<1>3. /\ DOMAIN s = DOMAIN run /\ s.pc = run.pc /\ s.at = run.at /\ s.plans = run.plans
      /\ s.listed = run.listed /\ s.todo = run.todo \ Group
      /\ s.kept = run.kept \union {into[l] : l \in Colliding}
      /\ s.maps = [l \in Rows |-> IF l \in Colliding THEN into[l] ELSE run.maps[l]]
  BY <1>2 DEF Prepared, Merged
<1>4. ASSUME NEW l \in Colliding
      PROVE  \E u \in run.listed : into[l] = u.id
  <2>1. Collisions(l) # {} /\ Collisions(l) \subseteq run.listed
    BY DEF Colliding, Collisions
  <2>2. Ids(Collisions(l)) \subseteq Nat
    BY <1>1, <2>1 DEF RunOK, Listed, Ids
  <2>3. FirstOf(Collisions(l)) \in run.listed
    BY <2>1, <2>2, FirstOfIn
  <2> QED
    BY <2>3
<1>5. ASSUME NEW u \in run.listed
      PROVE  OfType(u.id, Type, target) /\ u.id \in 1..(target.next - 1)
  BY DEF RunOK, Listed, OfType, Type
<1> HIDE DEF into, s
<1>6. \A l \in Colliding : into[l] \in 1..(target.next - 1) /\ OfType(into[l], Type, target)
  BY <1>4, <1>5
<1>7. s.kept \subseteq 1..(target.next - 1)
  BY <1>3, <1>6 DEF RunOK, Shaped
<1>8. s.maps \in [Rows -> Nat]
  <2>1. run.maps \in [Rows -> Nat]
    BY DEF RunOK, Shaped
  <2> QED
    BY <1>1, <1>3, <1>6, <2>1
<1>9. ASSUME NEW l \in Rows, s.maps[l] # run.maps[l]
      PROVE  /\ RowAt(l).type = archive.work[run.at] /\ OfType(s.maps[l], RowAt(l).type, target)
             /\ \A u \in run.listed : u.id = s.maps[l] => u.id \in s.kept
  <2>1. l \in Colliding /\ s.maps[l] = into[l]
    BY <1>3, <1>9
  <2>2. RowAt(l).type = Type
    BY <2>1, GroupRows
  <2> QED
    BY <1>3, <1>6, <2>1, <2>2 DEF Type
<1>10. RunOK(s, target)
  BY <1>1, <1>3, <1>7, <1>8, <1>9, Remapped
<1> QED
  BY <1>3, <1>10 DEF s

(* The answer maps rows to what was created or is named in an error.       *)
LEMMA AnswerOK ==
  ASSUME archive \in Archives, NEW t, Account(t), RunOK(run, t),
         NEW r, RunOK(r, t), r.pc = "create", r.at = run.at,
         NEW G \in SUBSET Sent, NEW N \in Creations(G, t), NEW default, NEW named
  PROVE  RunOK(Answer(r, N, t, named), After(t, N, default))
<1> DEFINE u == After(t, N, default)
           again == {l \in Sent \ N : named /\ Type \in Trees /\ Allowed(l, N, t) /\ Siblings(l, N, t) # {}}
           into == [l \in again |-> FirstOf(Siblings(l, N, t)).id]
           s == Answer(r, N, t, named)
<1>1. G \subseteq Rows /\ N \subseteq Sent /\ N \subseteq Rows /\ Sent \subseteq Rows /\ run.maps \in [Rows -> Nat]
  BY GroupRows DEF Creations, RunOK, Shaped
<1>2. /\ Account(u) /\ Follows(t, u)
      /\ \A l \in N : /\ IdOf(l, N, t.next) >= t.next
                      /\ OfType(IdOf(l, N, t.next), RowAt(l).type, u)
  BY <1>1, AfterAccount
<1>3. t.next \in Nat /\ u.next \in Nat
  BY <1>2 DEF Account
<1>4. RunOK(r, u)
  BY <1>2, <1>3, Carried
<1>5. DOMAIN r = {"pc", "at", "prune", "maps", "plans", "failed", "listed", "kept", "taken", "todo", "moved"}
  BY DEF RunOK, Shaped
<1>6. /\ DOMAIN s = DOMAIN r /\ s.pc = r.pc /\ s.at = r.at /\ s.plans = r.plans
      /\ s.listed = r.listed /\ s.todo = r.todo
      /\ s.kept = r.kept \union {into[l] : l \in again}
      /\ s.maps = [l \in Rows |-> IF l \in N THEN IdOf(l, N, t.next)
                                  ELSE IF l \in again THEN into[l] ELSE r.maps[l]]
  BY <1>1, <1>5 DEF Answer, Merged
<1>7. ASSUME NEW l \in again
      PROVE  OfType(into[l], RowAt(l).type, u)
  <2> DEFINE S == Siblings(l, N, t)
             E == Earlier(l, N)
  <2>1. E \subseteq N /\ E \subseteq Rows
    BY <1>1 DEF Earlier
  <2>2. \A k \in E : IdOf(k, E, t.next) = IdOf(k, N, t.next)
    <3>1. ASSUME NEW k \in E
          PROVE  Earlier(k, E) = Earlier(k, N)
      <4>1. l \in Nat /\ N \subseteq Nat /\ k \in N /\ k < l
        BY <1>1, ArchiveFacts DEF Earlier
      <4>2. \A m \in N : m < k => m < l
        BY <4>1
      <4> QED
        BY <4>2 DEF Earlier
    <3> QED
      BY <3>1 DEF IdOf
  <2>3. ASSUME NEW x \in S
        PROVE  x.type = RowAt(l).type /\ (x \in t.objs \/ \E k \in E : x.id = IdOf(k, N, t.next) /\ x.type = RowAt(k).type)
    <3>1. x \in After(t, E, FALSE).objs /\ x.type = RowAt(l).type
      BY DEF Siblings, Clashing
    <3>2. x \in t.objs \/ x \in Made(E, t.next, FALSE)
      BY <3>1 DEF After
    <3>3. x \in Made(E, t.next, FALSE) =>
            \E k \in E : x.id = IdOf(k, E, t.next) /\ x.type = RowAt(k).type
      BY DEF Made, NewObject
    <3> QED
      BY <2>2, <3>1, <3>2, <3>3
  <2>4. ASSUME NEW x \in S
        PROVE  OfType(x.id, RowAt(l).type, u)
    <3>1. CASE x \in t.objs
      <4>1. x \in u.objs
        BY <3>1 DEF After
      <4>2. x.id \in 1..(u.next - 1) /\ \A y \in u.objs : y.id = x.id => y = x
        BY <1>2, <4>1 DEF Account
      <4> QED
        BY <2>3, <4>2 DEF OfType
    <3>2. CASE x \notin t.objs
      <4>1. PICK k \in E : x.id = IdOf(k, N, t.next) /\ x.type = RowAt(k).type
        BY <2>3, <3>2
      <4>2. OfType(x.id, RowAt(k).type, u)
        BY <1>2, <2>1, <4>1
      <4> QED
        BY <2>3, <4>1, <4>2
    <3> QED
      BY <3>1, <3>2
  <2> HIDE DEF S
  <2>5. S # {}
    BY DEF S
  <2>6. Ids(S) \subseteq Nat
    BY <1>3, <2>4 DEF Ids, OfType
  <2>7. FirstOf(S) \in S
    BY <2>5, <2>6, FirstOfIn
  <2>8. into[l] = FirstOf(S).id
    BY DEF S
  <2> QED
    BY <2>4, <2>7, <2>8
<1> HIDE DEF u, again, into, s
<1>8. again \subseteq Sent /\ again \subseteq Rows
  BY <1>1 DEF again
<1>9. \A l \in again : into[l] \in 1..(u.next - 1)
  BY <1>7 DEF OfType
<1>10. s.kept \subseteq 1..(u.next - 1)
  BY <1>4, <1>6, <1>9 DEF RunOK, Shaped
<1>11. s.maps \in [Rows -> Nat]
  <2>1. r.maps \in [Rows -> Nat]
    BY DEF RunOK, Shaped
  <2>2. \A l \in N : IdOf(l, N, t.next) \in Nat
    BY <1>2, <1>3 DEF OfType
  <2> QED
    BY <1>3, <1>6, <1>9, <2>1, <2>2
<1>12. ASSUME NEW l \in Rows, s.maps[l] # r.maps[l]
       PROVE  /\ RowAt(l).type = archive.work[r.at] /\ OfType(s.maps[l], RowAt(l).type, u)
              /\ \A v \in r.listed : v.id = s.maps[l] => v.id \in s.kept
  <2>1. l \in N \/ l \in again
    BY <1>6, <1>12
  <2>2. RowAt(l).type = archive.work[r.at]
    BY <1>1, <1>8, <2>1, GroupRows DEF Type
  <2>3. CASE l \in N
    <3>1. s.maps[l] = IdOf(l, N, t.next)
      BY <1>6, <2>3
    <3>2. \A v \in r.listed : v.id < t.next /\ v.id \in Nat
      BY <1>3 DEF RunOK, Listed
    <3>3. \A v \in r.listed : v.id # s.maps[l]
      BY <1>2, <1>3, <2>3, <3>1, <3>2 DEF OfType
    <3> QED
      BY <1>2, <2>2, <2>3, <3>1, <3>3
  <2>4. CASE l \notin N
    <3>1. s.maps[l] = into[l] /\ into[l] \in s.kept /\ l \in again
      BY <1>6, <2>1, <2>4
    <3> QED
      BY <1>7, <2>2, <3>1
  <2> QED
    BY <2>3, <2>4
<1>13. RunOK(s, u)
  BY <1>3, <1>4, <1>6, <1>10, <1>11, <1>12, Remapped
<1> QED
  BY <1>13 DEF s, u

(* Matching: a row of the type is matched with an object of it, if at all; *)
(* one of its name is found by a row with a key.                           *)
LEMMA MatchingOK ==
  ASSUME NEW S, Ids(S) \subseteq Nat, \A t \in S : t.type = Type,
         NEW old \in [Rows -> Nat], \A l \in RowsOf(Type) : old[l] = Top,
         NEW maps \in Matchings(MatchRole(old, S), S)
  PROVE  /\ \A l \in Rows \ RowsOf(Type) : maps[l] = old[l]
         /\ maps \in [Rows -> Nat]
         /\ \A l \in RowsOf(Type) :
              /\ maps[l] = Top \/ \E t \in S : t.id = maps[l] /\ (Type \in Keyed => t.name = RowAt(l).name)
              /\ Type \in Keyed /\ 0 \notin Ids(S) /\ (\E t \in S : t.name = RowAt(l).name) => maps[l] # Top
<1> DEFINE first == MatchRole(old, S)
           there == {t \in S : Type = "Mailbox" /\ t.mark}
<1>1. /\ maps \in [Rows -> {Top} \union Image(first) \union Ids(S)]
      /\ \A l \in Rows :
           maps[l] = IF first[l] # Top \/ l \notin RowsOf(Type) THEN first[l]
                     ELSE LET hits == Hits(l, first, maps, S)
                          IN IF hits = {} THEN Top ELSE FirstOf(hits).id
  BY DEF Matchings
<1>2. \A l \in Rows : first[l] = old[l] \/ (first[l] = FirstOf(there).id /\ there # {} /\ l \in RowsOf(Type))
  BY DEF MatchRole
<1>3. there # {} => FirstOf(there) \in S /\ Type \notin Keyed /\ FirstOf(there).id \in Nat
  <2>1. SUFFICES ASSUME there # {}
                 PROVE  FirstOf(there) \in S /\ Type \notin Keyed
    BY DEF Ids
  <2>2. Ids(there) \subseteq Nat
    BY DEF Ids
  <2>3. FirstOf(there) \in there
    <3> HIDE DEF there
    <3> QED
      BY <2>1, <2>2, FirstOfIn
  <2> QED
    BY <2>3 DEF Keyed
<1> HIDE DEF first, there
<1>4. \A l \in Rows : first[l] \in Nat
  BY <1>2, <1>3
<1>5. maps \in [Rows -> Nat]
  <2>1. Image(first) \subseteq Nat
    BY <1>4 DEF Image
  <2> QED
    BY <1>1, <2>1 DEF Top
<1>6. \A l \in Rows \ RowsOf(Type) : maps[l] = old[l]
  BY <1>1, <1>2
<1>7. ASSUME NEW l \in RowsOf(Type)
      PROVE  /\ maps[l] = Top \/ \E t \in S : t.id = maps[l] /\ (Type \in Keyed => t.name = RowAt(l).name)
             /\ Type \in Keyed /\ 0 \notin Ids(S) /\ (\E t \in S : t.name = RowAt(l).name) => maps[l] # Top
  <2> DEFINE hits == Hits(l, first, maps, S)
  <2>1. l \in Rows /\ old[l] = Top
    BY DEF RowsOf
  <2>2. CASE first[l] # Top
    <3>1. there # {} /\ first[l] = FirstOf(there).id /\ maps[l] = first[l]
      BY <1>1, <1>2, <2>1, <2>2
    <3> QED
      BY <1>3, <2>2, <3>1
  <2>3. CASE first[l] = Top
    <3>1. maps[l] = IF hits = {} THEN Top ELSE FirstOf(hits).id
      BY <1>1, <2>1, <2>3
    <3>2. hits \subseteq S /\ Ids(hits) \subseteq Ids(S)
      BY DEF Hits, Ids
    <3>3. \A t \in hits : Type \in Keyed => t.name = RowAt(l).name
      BY DEF Hits, SameName
    <3>4. Type \in Keyed /\ (\E t \in S : t.name = RowAt(l).name) => hits # {}
      BY DEF Hits, SameName
    <3> HIDE DEF hits
    <3>5. hits # {} => FirstOf(hits) \in hits
      BY <3>2, FirstOfIn
    <3>6. hits # {} => maps[l] \in Ids(S) /\ \E t \in S : t.id = maps[l] /\ (Type \in Keyed => t.name = RowAt(l).name)
      BY <3>1, <3>2, <3>3, <3>5 DEF Ids
    <3> QED
      BY <3>1, <3>4, <3>6 DEF Top
  <2> QED
    BY <2>2, <2>3
<1> QED
  BY <1>5, <1>6, <1>7

(* What is to be created then is not matched, and what is matched is kept. *)
LEMMA MatchOK ==
  ASSUME archive \in Archives, Account(target), RunOK(run, target), Match
  PROVE  RunOK(run', target)
<1> DEFINE S == {t \in target.objs : t.type = Type}
<1>1. PICK maps \in Matchings(MatchRole(run.maps, S), S) :
        LET uids == {RowAt(l).name : l \in {k \in RowsOf(Type) : maps[k] # Top}}
        IN run' = [run EXCEPT
             !.pc = "create", !.maps = maps, !.listed = S, !.taken = \E t \in S : t.mark,
             !.kept = IF Type = "ContactCard" THEN Ids({t \in S : t.name \in uids})
                      ELSE Ids(S) \intersect Image(maps),
             !.todo = {l \in RowsOf(Type) : maps[l] = Top}]
  BY DEF Match
<1> DEFINE uids == {RowAt(l).name : l \in {k \in RowsOf(Type) : maps[k] # Top}}
<1>2. DOMAIN run = {"pc", "at", "prune", "maps", "plans", "failed", "listed", "kept", "taken", "todo", "moved"}
  BY DEF RunOK, Shaped
<1>3. /\ DOMAIN run' = DOMAIN run /\ run'.pc = "create" /\ run'.at = run.at /\ run'.plans = run.plans
      /\ run'.maps = maps /\ run'.listed = S /\ run'.todo = {l \in RowsOf(Type) : maps[l] = Top}
      /\ run'.kept = IF Type = "ContactCard" THEN Ids({t \in S : t.name \in uids})
                     ELSE Ids(S) \intersect Image(maps)
  BY <1>1, <1>2
<1>4. run.pc = "match" /\ run.at \in DOMAIN archive.work /\ target.next \in Nat
  BY DEF Match, RunOK, Shaped, Account
<1>5. ASSUME NEW t \in S
      PROVE  /\ t \in target.objs /\ t \in Object /\ t.type = Type /\ t.id \in 1..(target.next - 1)
             /\ \A x \in target.objs : x.id = t.id => x = t
  BY DEF Account
<1>6. /\ Ids(S) \subseteq 1..(target.next - 1) /\ Ids(S) \subseteq Nat /\ 0 \notin Ids(S)
      /\ \A t \in S : t.type = Type
  BY <1>4, <1>5 DEF Ids
<1>7. /\ run.maps \in [Rows -> Nat] /\ \A l \in RowsOf(Type) : run.maps[l] = Top
  <2>1. Ahead(run, run.at)
    BY <1>4, ArchiveFacts DEF Ahead
  <2> QED
    BY <1>4, <2>1 DEF RunOK, Unreached, Shaped, Type
<1> HIDE DEF S
<1>8. /\ \A l \in Rows \ RowsOf(Type) : maps[l] = run.maps[l]
      /\ maps \in [Rows -> Nat]
      /\ \A l \in RowsOf(Type) :
           /\ maps[l] = Top \/ \E t \in S : t.id = maps[l] /\ (Type \in Keyed => t.name = RowAt(l).name)
           /\ Type \in Keyed /\ 0 \notin Ids(S) /\ (\E t \in S : t.name = RowAt(l).name) => maps[l] # Top
  BY <1>6, <1>7, MatchingOK
<1>9. /\ RowsOf(Type) \subseteq Rows /\ \A l \in RowsOf(Type) : RowAt(l).type = Type
  BY DEF RowsOf
<1>10. Shaped(run', target)
  <2>1. run'.kept \subseteq 1..(target.next - 1)
    BY <1>3, <1>6 DEF Ids
  <2>2. run'.todo \subseteq RowsOf(archive.work[run'.at])
    BY <1>3 DEF Type
  <2> QED
    BY <1>3, <1>4, <1>8, <2>1, <2>2 DEF RunOK, Shaped
<1>11. Mapped(run', target)
  <2> SUFFICES ASSUME NEW l \in Rows
               PROVE  maps[l] = Top \/ OfType(maps[l], RowAt(l).type, target)
    BY <1>3 DEF Mapped
  <2>1. CASE l \in RowsOf(Type)
    <3>1. CASE maps[l] # Top
      <4>1. PICK t \in S : t.id = maps[l]
        BY <1>8, <2>1, <3>1
      <4> QED
        BY <1>5, <1>9, <2>1, <4>1 DEF OfType
    <3> QED
      BY <3>1
  <2>2. CASE l \notin RowsOf(Type)
    BY <1>8, <2>2 DEF RunOK, Mapped
  <2> QED
    BY <2>1, <2>2
<1>12. Unreached(run')
  <2> SUFFICES ASSUME NEW k \in DOMAIN archive.work, Ahead(run', k)
               PROVE  /\ run.plans[k] = NoPlan
                      /\ k > run.at => \A l \in RowsOf(archive.work[k]) : maps[l] = Top
    BY <1>3 DEF Unreached
  <2>1. Ahead(run, k)
    BY <1>3, <1>4 DEF Ahead
  <2>2. run.plans[k] = NoPlan /\ \A l \in RowsOf(archive.work[k]) : run.maps[l] = Top
    BY <1>4, <2>1 DEF RunOK, Unreached
  <2>3. k > run.at => archive.work[k] # Type
    BY <1>4, ArchiveFacts DEF Type
  <2>4. k > run.at => \A l \in RowsOf(archive.work[k]) : l \in Rows \ RowsOf(Type)
    BY <2>3 DEF RowsOf
  <2> QED
    BY <1>8, <2>2, <2>4
<1>13. Listed(run', target)
  BY <1>3, <1>5 DEF Listed, Type
<1>14. Kept(run')
  <2> SUFFICES ASSUME NEW l \in RowsOf(Type), NEW u \in S
               PROVE  /\ maps[l] = u.id => u.id \in run'.kept
                      /\ Type \in Keyed /\ u.name = RowAt(l).name => u.id \in run'.kept
    BY <1>3 DEF Kept, Type
  <2>1. u.id # Top /\ u.id \in Ids(S)
    BY <1>6 DEF Ids, Top
  <2>2. maps[l] # Top => RowAt(l).name \in uids
    OBVIOUS
  <2>3. ASSUME maps[l] = u.id
        PROVE  u.id \in run'.kept
    <3>1. CASE Type = "ContactCard"
      <4>1. PICK t \in S : t.id = maps[l] /\ t.name = RowAt(l).name
        BY <1>8, <2>1, <2>3, <3>1 DEF Keyed
      <4>2. u.name = RowAt(l).name
        BY <1>5, <2>3, <4>1
      <4> QED
        BY <1>3, <2>1, <2>2, <2>3, <3>1, <4>2 DEF Ids
    <3>2. CASE Type # "ContactCard"
      <4>1. u.id \in Image(maps)
        BY <1>9, <2>1, <2>3 DEF Image
      <4> QED
        BY <1>3, <2>1, <3>2, <4>1
    <3> QED
      BY <3>1, <3>2
  <2>4. ASSUME Type \in Keyed, u.name = RowAt(l).name
        PROVE  u.id \in run'.kept
    <3>1. maps[l] # Top
      BY <1>6, <1>8, <2>4
    <3>2. PICK t \in S : t.id = maps[l] /\ t.name = RowAt(l).name
      BY <1>8, <2>4, <3>1
    <3>3. t = u
      BY <1>5, <2>4, <3>2 DEF Account, SameKey
    <3> QED
      BY <2>3, <3>2, <3>3
  <2> QED
    BY <2>3, <2>4
<1>15. Spared(run', target)
  <2> SUFFICES ASSUME NEW k \in DOMAIN archive.work, NEW i \in DOMAIN run.plans[k].depth
               PROVE  /\ i \in 1..(target.next - 1)
                      /\ \A x \in target.objs : x.id = i => Spare(x, archive.work[k], maps)
    BY <1>3 DEF Spared
  <2>1. /\ i \in 1..(target.next - 1)
        /\ \A x \in target.objs : x.id = i => Spare(x, archive.work[k], run.maps)
    BY DEF RunOK, Spared
  <2>2. archive.work[k] # Type
    <3>1. SUFFICES ASSUME k = run.at
                   PROVE  FALSE
      BY <1>4, ArchiveFacts DEF Type
    <3>2. run.plans[k] = NoPlan
      BY <1>4, <3>1, ArchiveFacts DEF RunOK, Unreached, Ahead
    <3> QED
      BY <3>2 DEF NoPlan
  <2>3. \A l \in RowsOf(archive.work[k]) : maps[l] = run.maps[l]
    BY <1>8, <2>2 DEF RowsOf
  <2> QED
    BY <2>1, <2>3 DEF Spare
<1> QED
  BY <1>10, <1>11, <1>12, <1>13, <1>14, <1>15 DEF RunOK

(* The candidates spare what the archive has.                              *)
LEMMA CandidatesSpared ==
  ASSUME RunOK(run, target), run.pc = "create", NEW i \in DOMAIN Candidates
  PROVE  /\ i \in 1..(target.next - 1)
         /\ \A x \in target.objs : x.id = i => Spare(x, Type, run.maps)
<1>1. PICK u \in run.listed : u.id = i /\ u.id \notin run.kept /\ u.id \notin Protected(run.listed)
  BY DEF Candidates, Depths, Ids
<1>2. u.mark => Type = "SieveScript"
  <2>1. u.id \in AboveObject(u.id, run.listed)
    BY DEF AboveObject
  <2> QED
    BY <1>1, <2>1 DEF Protected
<1>3. /\ u.id \in 1..(target.next - 1) /\ u.type = Type
      /\ \A x \in target.objs : x.id = u.id =>
           x.type = u.type /\ x.name = u.name /\ (x.mark => u.mark \/ x.type = "SieveScript")
  BY DEF RunOK, Listed, Type
<1>4. \A l \in RowsOf(Type) : run.maps[l] # u.id /\ (Type \in Keyed => RowAt(l).name # u.name)
  BY <1>1 DEF RunOK, Kept, Type
<1> QED
  BY <1>1, <1>2, <1>3, <1>4 DEF Spare

(* The next type is pruned.                                                *)
LEMMA PrunedOK ==
  ASSUME archive \in Archives, NEW t, NEW r, RunOK(r, t), r.pc = "prune"
  PROVE  RunOK(Pruned(r), t)
<1>1. DOMAIN r = {"pc", "at", "prune", "maps", "plans", "failed", "listed", "kept", "taken", "todo", "moved"}
  BY DEF RunOK, Shaped
<1>2. CASE r.at = 1
  <2>1. Pruned(r) = Over(r.maps, r.failed, r.moved)
    BY <1>2 DEF Pruned
  <2>2. /\ r.maps \in [Rows -> Nat]
        /\ \A l \in Rows : r.maps[l] = Top \/ OfType(r.maps[l], RowAt(l).type, t)
    BY DEF RunOK, Shaped, Mapped
  <2> QED
    BY <2>1, <2>2, OverOK
<1>3. CASE r.at # 1
  <2> DEFINE s == [r EXCEPT !.at = @ - 1]
  <2>1. /\ Pruned(r) = s /\ DOMAIN s = DOMAIN r /\ s.pc = "prune" /\ s.at = r.at - 1
        /\ s.maps = r.maps /\ s.plans = r.plans /\ s.listed = r.listed /\ s.kept = r.kept
        /\ s.todo = r.todo
    BY <1>1, <1>3 DEF Pruned
  <2> HIDE DEF s
  <2>2. s.at \in DOMAIN archive.work
    BY <1>3, <2>1, ArchiveFacts DEF RunOK, Shaped
  <2> QED
    BY <2>1, <2>2 DEF RunOK, Shaped, Mapped, Unreached, Ahead, Listed, Kept, Spared
<1> QED
  BY <1>2, <1>3

-----------------------------------------------------------------------------
(* The invariant holds.                                                    *)

(* The invariant of a step in terms of what it left.                       *)
LEMMA StepIInv ==
  ASSUME archive' = archive, archive \in Archives, upsets' \in 0..MaxUpsets,
         Account(target'), RunOK(run', target')
  PROVE  IInv'
<1>1. Account(target)'
  BY DEF Account, Exists, Ids, SameKey, Object, Types
<1>2. Shaped(run, target)'
  BY DEF RunOK, Shaped, Rows, RowsOf, RowAt
<1>3. Mapped(run, target)'
  BY DEF RunOK, Mapped, OfType, Rows, RowAt
<1>4. Unreached(run)'
  BY DEF RunOK, Unreached, Ahead, NoPlan, RowsOf, Rows, RowAt
<1>5. Listed(run, target)'
  BY DEF RunOK, Listed
<1>6. Kept(run)'
  BY DEF RunOK, Kept, RowsOf, Rows, RowAt
<1>7. Spared(run, target)'
  BY DEF RunOK, Spared, Spare, RowsOf, Rows, RowAt
<1> QED
  BY <1>1, <1>2, <1>3, <1>4, <1>5, <1>6, <1>7 DEF IInv, RunOK

(* What pruning does to the target.                                        *)
LEMMA PruningOK ==
  ASSUME Account(target), NEW objs, objs = target.objs \/ objs = Activated(target.objs, Top),
         NEW n, NEW S, NEW D \in Destroyed(objs, n, S)
  PROVE  LET u == [target EXCEPT !.objs = Without(objs, D)]
         IN Account(u) /\ \A r : RunOK(r, target) => RunOK(r, u)
<1> DEFINE t == [target EXCEPT !.objs = objs]
           u == [target EXCEPT !.objs = Without(objs, D)]
<1>1. target = [objs |-> target.objs, next |-> target.next] /\ target.next \in Nat
  BY DEF Account
<1>2. t.objs = objs /\ t.next = target.next /\ u = [t EXCEPT !.objs = Without(t.objs, D)]
  BY <1>1
<1>3. Account(t) /\ \A r : RunOK(r, target) => RunOK(r, t)
  <2>1. CASE objs = target.objs
    <3>1. t = target
      BY <1>1, <2>1
    <3> HIDE DEF t
    <3> QED
      BY <3>1
  <2>2. CASE objs = Activated(target.objs, Top)
    <3>1. Account(t) /\ Follows(target, t)
      BY <2>2, ActivatedAccount
    <3> HIDE DEF t
    <3> QED
      BY <1>1, <3>1, Carried
  <2> QED
    BY <2>1, <2>2
<1>4. \A x \in t.objs : x.parent \in D => x.id \in D
  BY <1>2, DestroyedClosed
<1> HIDE DEF t
<1>5. Account(u) /\ Follows(t, u)
  BY <1>2, <1>3, <1>4, WithoutAccount
<1> HIDE DEF u
<1>6. \A r : RunOK(r, t) => RunOK(r, u)
  BY <1>1, <1>2, <1>5, Carried
<1> QED
  BY <1>3, <1>5, <1>6 DEF u

(* The faults and changes of others are counted up to their bound.         *)
LEMMA UpsetCounted ==
  ASSUME IInv, Upset \/ UNCHANGED upsets
  PROVE  upsets' \in 0..MaxUpsets
<1>1. upsets \in 0..MaxUpsets /\ MaxUpsets \in Nat
  BY ExportAssumption DEF IInv
<1> QED
  BY <1>1 DEF Upset

(* At first nothing is mapped, listed or planned.                          *)
LEMMA InitIInv == Init => IInv
<1> SUFFICES ASSUME Init
             PROVE  IInv
  OBVIOUS
<1>1. archive \in Archives /\ upsets \in 0..MaxUpsets
  BY ExportAssumption DEF Init
<1>2. PICK objs \in Targets : target = [objs |-> objs, next |-> Cardinality(objs) + 1]
  BY DEF Init
<1>3. /\ objs \subseteq Object /\ IsFiniteSet(objs)
      /\ \A t \in objs : /\ t.id \in 1..Cardinality(objs)
                         /\ t.parent = Top \/ \E u \in objs : u.id = t.parent
      /\ \A t, u \in objs : t.id = u.id \/ SameKey(t, u) => t = u
  BY ExportAssumption
<1>4. Cardinality(objs) \in Nat
  BY <1>3, FS_CardinalityType
<1>5. target.next \in Nat \ {0} /\ target.next - 1 = Cardinality(objs) /\ target.objs = objs
  BY <1>2, <1>4
<1>6. \A x \in objs : Exists(objs, x.parent)
  BY <1>3 DEF Exists, Ids
<1>7. Account(target)
  BY <1>2, <1>3, <1>5, <1>6 DEF Account
<1>8. Unmapped \in [Rows -> Nat] /\ \A l \in Rows : Unmapped[l] = Top
  BY DEF Unmapped, Top
<1>9. run = Over(Unmapped, FALSE, TRUE)
  BY DEF Init
<1>10. RunOK(run, target)
  BY <1>1, <1>8, <1>9, OverOK
<1> QED
  BY <1>1, <1>7, <1>10 DEF IInv

(* The steps of a type and of the run, one by one.                         *)
LEMMA BeginIInv ==
  ASSUME IInv, NEW prune, Begin(prune)
  PROVE  IInv'
<1> DEFINE r == Over(Unmapped, FALSE, FALSE)
<1>1. /\ archive \in Archives /\ upsets \in 0..MaxUpsets /\ Account(target)
      /\ archive' = archive /\ upsets' = upsets /\ target' = target
  BY DEF IInv, Begin
<1>2. Unmapped \in [Rows -> Nat] /\ \A l \in Rows : Unmapped[l] = Top
  BY DEF Unmapped, Top
<1>3. /\ DOMAIN r = {"pc", "at", "prune", "maps", "plans", "failed", "listed", "kept", "taken", "todo", "moved"}
      /\ r.maps = Unmapped /\ r.plans = NoPlans
  BY DEF Over
<1>4. RunOK(r, target)
  BY <1>1, <1>2, OverOK
<1>5. /\ DOMAIN run' = DOMAIN r /\ run'.pc = "match" /\ run'.at = r.at /\ run'.maps = r.maps
      /\ run'.plans = r.plans /\ run'.listed = r.listed /\ run'.kept = r.kept /\ run'.todo = r.todo
  BY <1>3 DEF Begin
<1> HIDE DEF r
<1>6. Shaped(run', target)
  BY <1>4, <1>5 DEF RunOK, Shaped
<1>7. Mapped(run', target) /\ Listed(run', target) /\ Kept(run') /\ Spared(run', target)
  BY <1>4, <1>5 DEF RunOK, Mapped, Listed, Kept, Spared
<1>8. Unreached(run')
  BY <1>2, <1>3, <1>5 DEF Unreached, NoPlans, RowsOf
<1>9. RunOK(run', target')
  BY <1>1, <1>6, <1>7, <1>8 DEF RunOK
<1> QED
  BY <1>1, <1>9, StepIInv

(* Other clients work on the target.                                       *)
LEMMA OthersIInv ==
  ASSUME IInv, \/ \E row \in NewRows : Fitting(row) /\ OtherCreates(row)
               \/ \E t \in target.objs : OtherDestroys(t)
  PROVE  IInv'
<1>1. archive \in Archives /\ Account(target) /\ RunOK(run, target) /\ target.next \in Nat \ {0}
  BY DEF IInv, Account
<1>2. archive' = archive /\ upsets' \in 0..MaxUpsets /\ run' = [run EXCEPT !.moved = TRUE]
  BY UpsetCounted DEF OtherCreates, OtherDestroys
<1>3. Account(target') /\ Follows(target, target')
  <2>1. ASSUME NEW row \in NewRows, OtherCreates(row)
        PROVE  Account(target') /\ Follows(target, target')
    <3> DEFINE new == NewObject(target.next, row, row.parent, FALSE)
    <3>1. /\ target'.objs = target.objs \union {new} /\ target'.next = target.next + 1
          /\ target' = [objs |-> target'.objs, next |-> target'.next]
          /\ Exists(target.objs, row.parent) /\ Clashing(target.objs, row, row.parent) = {}
      BY <2>1 DEF OtherCreates
    <3>2. row.type \in Types /\ row.name \in Names /\ row.parent \in Nat
      <4>1. Ids(target.objs) \subseteq Nat
        BY <1>1 DEF Account, Ids
      <4> QED
        BY <1>1, <4>1, ArchiveFacts DEF NewRows, Top
    <3>3. new \in Object
      BY <1>1, <3>2 DEF NewObject, Object
    <3>4. new.id = target.next /\ new.type = row.type /\ new.name = row.name /\ new.parent = row.parent
      BY DEF NewObject
    <3> HIDE DEF new
    <3>5. \A x \in target.objs : x.id # new.id /\ ~ SameKey(x, new) /\ ~ SameKey(new, x)
      <4>1. \A x \in target.objs : x.id \in 1..(target.next - 1)
        BY <1>1 DEF Account
      <4>2. \A x \in target.objs : x.id # new.id
        BY <1>1, <3>4, <4>1
      <4> QED
        BY <3>1, <3>4, <4>2 DEF SameKey, Clashing, Keyed, Trees
    <3>6. \A p : Exists(target.objs, p) => Exists(target'.objs, p)
      BY <3>1 DEF Exists, Ids
    <3>7. ASSUME NEW x \in target'.objs
          PROVE  x \in Object /\ x.id \in 1..(target'.next - 1) /\ Exists(target'.objs, x.parent)
      <4>1. CASE x \in target.objs
        <5>1. x \in Object /\ x.id \in 1..(target.next - 1) /\ Exists(target.objs, x.parent)
          BY <1>1, <4>1 DEF Account
        <5> QED
          BY <1>1, <3>1, <3>6, <5>1
      <4>2. CASE x \notin target.objs
        <5>1. x = new
          BY <3>1, <4>2
        <5>2. Exists(target'.objs, row.parent)
          BY <3>1, <3>6
        <5>3. x.id = target.next /\ target'.next = target.next + 1
          BY <3>1, <3>4, <5>1
        <5>4. x.id \in 1..(target'.next - 1)
          BY <1>1, <5>3
        <5> QED
          BY <3>3, <3>4, <5>1, <5>2, <5>4
      <4> QED
        BY <4>1, <4>2
    <3>8. target'.next \in Nat \ {0}
      BY <1>1, <3>1
    <3>9. \A x, y \in target'.objs : x.id = y.id \/ SameKey(x, y) => x = y
      BY <1>1, <3>1, <3>5 DEF Account
    <3>10. target'.objs \subseteq Object
      BY <3>7
    <3>11. Account(target')
      BY <3>1, <3>7, <3>8, <3>9, <3>10 DEF Account
    <3> QED
      BY <1>1, <3>1, <3>4, <3>8, <3>11 DEF Follows
  <2>2. ASSUME NEW t \in target.objs, OtherDestroys(t)
        PROVE  Account(target') /\ Follows(target, target')
    <3>1. \A x \in target.objs : x.parent \in {t.id} => x.id \in {t.id}
      BY <2>2 DEF OtherDestroys, Stays
    <3>2. target' = [target EXCEPT !.objs = Without(target.objs, {t.id})]
      BY <2>2 DEF OtherDestroys
    <3> QED
      BY <1>1, <3>1, <3>2, WithoutAccount
  <2> QED
    BY <2>1, <2>2
<1>4. RunOK(run, target')
  BY <1>1, <1>3, Carried
<1>5. RunOK(run', target')
  BY <1>2, <1>4, NotedOK
<1> QED
  BY <1>1, <1>2, <1>3, <1>5, StepIInv

(* The matching of a type, or its failure.                                 *)
LEMMA MatchIInv ==
  ASSUME IInv, Match \/ MatchFails
  PROVE  IInv'
<1>1. archive \in Archives /\ Account(target) /\ RunOK(run, target) /\ target.next \in Nat
  BY DEF IInv, Account
<1>2. archive' = archive /\ target' = target /\ upsets' \in 0..MaxUpsets
  BY UpsetCounted DEF Match, MatchFails
<1>3. RunOK(run', target)
  <2>1. CASE Match
    BY <1>1, <2>1, MatchOK
  <2>2. CASE MatchFails
    <3>1. PICK s : s = [run EXCEPT !.failed = TRUE]
      OBVIOUS
    <3>2. RunOK(s, target) /\ s.pc = "match"
      BY <1>1, <2>2, <3>1, NotedOK DEF MatchFails
    <3>3. run' = TypeDone(s, NoPlan)
      BY <2>2, <3>1 DEF MatchFails, Aborted
    <3>4. DOMAIN NoPlan = {"depth", "active"} /\ DOMAIN NoPlan.depth = {}
      BY DEF NoPlan
    <3> QED
      BY <1>1, <3>2, <3>3, <3>4, TypeDoneOK
  <2> QED
    BY <2>1, <2>2
<1> QED
  BY <1>1, <1>2, <1>3, StepIInv

(* The creation of a request's rows, whatever becomes of it.               *)
LEMMA CreateIInv ==
  ASSUME IInv, \/ \E named \in BOOLEAN : Create(named) \/ CreateTwice(named)
               \/ \E l \in Rows : CreateRefused(l)
               \/ CreateUndefaulted \/ \E n \in 0..Len(archive.rows) : CreateFails(n)
  PROVE  IInv'
<1>1. /\ archive \in Archives /\ Account(target) /\ RunOK(run, target) /\ target.next \in Nat
      /\ run.maps \in [Rows -> Nat] /\ Sent \subseteq Rows
  BY GroupRows DEF IInv, Account, RunOK, Shaped
<1>2. archive' = archive /\ upsets' \in 0..MaxUpsets /\ run.pc = "create"
  BY UpsetCounted DEF Create, CreateTwice, CreateRefused, CreateUndefaulted, CreateFails, Creating
<1>3. RunOK(Prepared, target) /\ Prepared.pc = "create" /\ Prepared.at = run.at
  BY <1>1, <1>2, PreparedOK
<1>4. ASSUME NEW G \in SUBSET Sent, NEW N \in Creations(G, target), NEW default
      PROVE  /\ Account(After(target, N, default))
             /\ \A r : RunOK(r, target) => RunOK(r, After(target, N, default))
  <2>1. G \subseteq Rows
    BY <1>1
  <2>2. Account(After(target, N, default)) /\ Follows(target, After(target, N, default))
    BY <1>1, <2>1, AfterAccount
  <2> QED
    BY <1>1, <2>2, Carried
<1>5. ASSUME NEW named, Create(named)
      PROVE  Account(target') /\ RunOK(run', target')
  <2>1. PICK N \in Creations(Sent, target) :
          target' = After(target, N, TRUE) /\ run' = Answer(Prepared, N, target, named)
    BY <1>5 DEF Create
  <2>2. Account(target')
    BY <1>4, <2>1
  <2>3. RunOK(Answer(Prepared, N, target, named), After(target, N, TRUE))
    BY <1>1, <1>3, AnswerOK
  <2> QED
    BY <2>1, <2>2, <2>3
<1>6. ASSUME NEW l \in Rows, CreateRefused(l)
      PROVE  Account(target') /\ RunOK(run', target')
  <2>1. PICK N \in Creations(Sent \ {l}, target) :
          /\ target' = After(target, N, TRUE)
          /\ run' = [Answer(Prepared, N, target, TRUE) EXCEPT !.failed = TRUE]
    BY <1>6 DEF CreateRefused
  <2>2. Sent \ {l} \in SUBSET Sent
    OBVIOUS
  <2>3. Account(target')
    BY <1>4, <2>1, <2>2
  <2>4. RunOK(Answer(Prepared, N, target, TRUE), After(target, N, TRUE))
    BY <1>1, <1>3, <2>2, AnswerOK
  <2> QED
    BY <2>1, <2>3, <2>4, NotedOK
<1>7. ASSUME NEW named, CreateTwice(named)
      PROVE  Account(target') /\ RunOK(run', target')
  <2>1. PICK N \in Creations(Sent, target) :
          \E M \in Creations(Sent, After(target, N, FALSE)) :
            /\ target' = After(After(target, N, FALSE), M, TRUE)
            /\ run' = [Answer(Prepared, M, After(target, N, FALSE), named) EXCEPT !.moved = @ \/ M # {}]
    BY <1>7 DEF CreateTwice
  <2>2. PICK t : t = After(target, N, FALSE)
    OBVIOUS
  <2>3. PICK M \in Creations(Sent, t) :
          /\ target' = After(t, M, TRUE)
          /\ run' = [Answer(Prepared, M, t, named) EXCEPT !.moved = @ \/ M # {}]
    BY <2>1, <2>2
  <2>4. Account(t) /\ RunOK(run, t) /\ RunOK(Prepared, t)
    BY <1>1, <1>3, <1>4, <2>2
  <2>5. Account(target')
    BY <1>1, <2>3, <2>4, AfterAccount
  <2>6. RunOK(Answer(Prepared, M, t, named), After(t, M, TRUE))
    BY <1>1, <1>3, <2>4, AnswerOK
  <2>7. PICK r : r = Answer(Prepared, M, t, named)
    OBVIOUS
  <2>8. run' = [r EXCEPT !.moved = r.moved \/ M # {}] /\ RunOK(r, target')
    BY <2>3, <2>6, <2>7
  <2>9. RunOK(run', target')
    BY <2>8, NotedOK
  <2> QED
    BY <2>5, <2>9
<1>8. ASSUME CreateUndefaulted
      PROVE  Account(target') /\ RunOK(run', target')
  <2>1. PICK N \in Creations(Sent, target) :
          /\ target' = After(target, N, FALSE)
          /\ run' = [Answer(Prepared, N, target, TRUE) EXCEPT !.moved = TRUE]
    BY <1>8 DEF CreateUndefaulted
  <2>2. Account(target')
    BY <1>4, <2>1
  <2>3. RunOK(Answer(Prepared, N, target, TRUE), After(target, N, FALSE))
    BY <1>1, <1>3, AnswerOK
  <2> QED
    BY <2>1, <2>2, <2>3, NotedOK
<1>9. ASSUME NEW n, CreateFails(n)
      PROVE  Account(target') /\ RunOK(run', target')
  <2>1. PICK N \in Creations({l \in Sent : l <= n}, target) : target' = After(target, N, FALSE)
    BY <1>9 DEF CreateFails
  <2>2. {l \in Sent : l <= n} \in SUBSET Sent
    OBVIOUS
  <2>3. Account(target') /\ RunOK(Prepared, target')
    BY <1>3, <1>4, <2>1, <2>2
  <2>4. PICK s : s = [Prepared EXCEPT !.failed = TRUE]
    OBVIOUS
  <2>5. RunOK(s, target') /\ s.pc = "create"
    BY <1>3, <2>3, <2>4, NotedOK
  <2>6. run' = s \/ run' = TypeDone(s, NoPlan)
    BY <1>9, <2>4 DEF CreateFails, Aborted
  <2>7. DOMAIN NoPlan = {"depth", "active"} /\ DOMAIN NoPlan.depth = {}
    BY DEF NoPlan
  <2>8. target'.next \in Nat
    BY <2>3 DEF Account
  <2>9. RunOK(TypeDone(s, NoPlan), target')
    BY <1>1, <2>5, <2>7, <2>8, TypeDoneOK
  <2> QED
    BY <2>3, <2>5, <2>6, <2>9
<1> QED
  BY <1>1, <1>2, <1>5, <1>6, <1>7, <1>8, <1>9, StepIInv

(* The plan of the type.                                                   *)
LEMMA PlanIInv ==
  ASSUME IInv, NEW activates \in BOOLEAN, PlanType(activates)
  PROVE  IInv'
<1>1. archive \in Archives /\ Account(target) /\ RunOK(run, target) /\ target.next \in Nat
  BY DEF IInv, Account
<1>2. archive' = archive /\ upsets' \in 0..MaxUpsets /\ run.pc = "create"
  BY UpsetCounted DEF PlanType
<1>3. PICK r, plan : /\ run' = TypeDone(r, plan) /\ plan.depth = Candidates
                     /\ DOMAIN plan = {"depth", "active"}
                     /\ r = run \/ r = [run EXCEPT !.moved = run.moved \/ ~activates]
  <2>1. CASE Type # "SieveScript"
    BY <2>1 DEF PlanType
  <2>2. CASE Type = "SieveScript"
    BY <2>2 DEF PlanType
  <2> QED
    BY <2>1, <2>2
<1>4. RunOK(r, target) /\ r.pc = "create" /\ r.at = run.at /\ r.maps = run.maps
  BY <1>1, <1>2, <1>3, NotedOK
<1>5. \A i \in DOMAIN plan.depth :
        /\ i \in 1..(target.next - 1)
        /\ \A x \in target.objs : x.id = i => Spare(x, archive.work[r.at], r.maps)
  BY <1>1, <1>2, <1>3, <1>4, CandidatesSpared DEF Type
<1>6. RunOK(run', target)
  BY <1>1, <1>3, <1>4, <1>5, TypeDoneOK
<1>7. \/ target' = target
      \/ target' = [target EXCEPT !.objs = Activated(target.objs, ActiveTarget)]
  BY DEF PlanType
<1>8. Account(target') /\ RunOK(run', target')
  <2>1. CASE target' = target
    BY <1>1, <1>6, <2>1
  <2>2. CASE target' = [target EXCEPT !.objs = Activated(target.objs, ActiveTarget)]
    <3>1. Account(target') /\ Follows(target, target')
      BY <1>1, <2>2, ActivatedAccount
    <3> QED
      BY <1>1, <1>6, <3>1, Carried
  <2> QED
    BY <1>7, <2>1, <2>2
<1> QED
  BY <1>1, <1>2, <1>8, StepIInv

(* What a step of the pruning does to the target and the run.              *)
LEMMA DestroySteps ==
  ASSUME \/ \E deactivated \in BOOLEAN : Destroy(deactivated)
         \/ \E n \in 0..Cardinality(target.objs) : DestroyFails(n)
         \/ \E id \in Planned : DestroyRefused(id)
  PROVE  /\ run.pc = "prune" /\ archive' = archive
         /\ Upset \/ UNCHANGED upsets
         /\ \E objs, n, S : /\ objs = target.objs \/ objs = Activated(target.objs, Top)
                            /\ \E D \in Destroyed(objs, n, S) :
                                 target' = [target EXCEPT !.objs = Without(objs, D)]
         /\ \E r, b : /\ run' = Pruned(r)
                      /\ r = [run EXCEPT !.failed = b] \/ r = [run EXCEPT !.moved = b]
<1>1. ASSUME NEW deactivated \in BOOLEAN, Destroy(deactivated)
      PROVE  /\ \E objs, n, S : /\ objs = target.objs \/ objs = Activated(target.objs, Top)
                                /\ \E D \in Destroyed(objs, n, S) :
                                     target' = [target EXCEPT !.objs = Without(objs, D)]
             /\ \E r, b : run' = Pruned(r) /\ r = [run EXCEPT !.moved = b]
  <2>1. PICK objs : /\ objs = target.objs \/ objs = Activated(target.objs, Top)
                    /\ \E D \in Destroyed(objs, Cardinality(Planned), {}) :
                         target' = [target EXCEPT !.objs = Without(objs, D)]
    BY <1>1 DEF Destroy
  <2>2. run' = Pruned([run EXCEPT !.moved = run.moved \/ ~deactivated])
    BY <1>1 DEF Destroy
  <2> QED
    BY <2>1, <2>2
<1>2. ASSUME NEW m, DestroyFails(m)
      PROVE  /\ \E objs, n, S : /\ objs = target.objs \/ objs = Activated(target.objs, Top)
                                /\ \E D \in Destroyed(objs, n, S) :
                                     target' = [target EXCEPT !.objs = Without(objs, D)]
             /\ \E r, b : run' = Pruned(r) /\ r = [run EXCEPT !.failed = b]
  <2>1. PICK objs : /\ objs = target.objs \/ objs = Activated(target.objs, Top)
                    /\ \E D \in Destroyed(objs, m, {}) :
                         target' = [target EXCEPT !.objs = Without(objs, D)]
    BY <1>2 DEF DestroyFails
  <2>2. run' = Pruned([run EXCEPT !.failed = TRUE])
    BY <1>2 DEF DestroyFails
  <2> QED
    BY <2>1, <2>2
<1>3. ASSUME NEW id, DestroyRefused(id)
      PROVE  /\ \E objs, n, S : /\ objs = target.objs \/ objs = Activated(target.objs, Top)
                                /\ \E D \in Destroyed(objs, n, S) :
                                     target' = [target EXCEPT !.objs = Without(objs, D)]
             /\ \E r, b : run' = Pruned(r) /\ r = [run EXCEPT !.moved = b]
  <2>1. PICK objs : /\ objs = target.objs \/ objs = Activated(target.objs, Top)
                    /\ \E D \in Destroyed(objs, Cardinality(Planned), {id}) :
                         target' = [target EXCEPT !.objs = Without(objs, D)]
    BY <1>3 DEF DestroyRefused
  <2>2. run' = Pruned([run EXCEPT !.moved = TRUE])
    BY <1>3 DEF DestroyRefused
  <2> QED
    BY <2>1, <2>2
<1>4. run.pc = "prune" /\ archive' = archive /\ (Upset \/ UNCHANGED upsets)
  BY DEF Destroy, DestroyFails, DestroyRefused
<1> QED
  BY <1>1, <1>2, <1>3, <1>4

(* The pruning, a type after the other.                                    *)
LEMMA DestroyIInv ==
  ASSUME IInv, \/ \E deactivated \in BOOLEAN : Destroy(deactivated)
               \/ \E n \in 0..Cardinality(target.objs) : DestroyFails(n)
               \/ \E id \in Planned : DestroyRefused(id)
  PROVE  IInv'
<1>1. archive \in Archives /\ Account(target) /\ RunOK(run, target)
  BY DEF IInv
<1>2. run.pc = "prune" /\ archive' = archive /\ upsets' \in 0..MaxUpsets
  BY DestroySteps, UpsetCounted
<1>3. PICK objs, n, S : /\ objs = target.objs \/ objs = Activated(target.objs, Top)
                        /\ \E D \in Destroyed(objs, n, S) :
                             target' = [target EXCEPT !.objs = Without(objs, D)]
  BY DestroySteps
<1>4. Account(target') /\ \A r : RunOK(r, target) => RunOK(r, target')
  BY <1>1, <1>3, PruningOK
<1>5. PICK r, b : /\ run' = Pruned(r)
                  /\ r = [run EXCEPT !.failed = b] \/ r = [run EXCEPT !.moved = b]
  BY DestroySteps
<1>6. RunOK(r, target) /\ r.pc = "prune"
  BY <1>1, <1>2, <1>5, NotedOK
<1>7. RunOK(run', target)
  BY <1>1, <1>5, <1>6, PrunedOK
<1> QED
  BY <1>1, <1>2, <1>4, <1>7, StepIInv

(* An interruption.                                                        *)
LEMMA CrashIInv ==
  ASSUME IInv, Crash
  PROVE  IInv'
<1>1. archive \in Archives /\ Account(target)
  BY DEF IInv
<1>2. /\ archive' = archive /\ target' = target /\ upsets' \in 0..MaxUpsets
      /\ run' = Over(Unmapped, TRUE, TRUE)
  BY UpsetCounted DEF Crash
<1>3. Unmapped \in [Rows -> Nat] /\ \A l \in Rows : Unmapped[l] = Top
  BY DEF Unmapped, Top
<1>4. RunOK(run', target)
  BY <1>1, <1>2, <1>3, OverOK
<1> QED
  BY <1>1, <1>2, <1>4, StepIInv

(* Every step keeps the invariant.                                         *)
LEMMA NextIInv == IInv /\ [Next]_vars => IInv'
<1> SUFFICES ASSUME IInv, [Next]_vars
             PROVE  IInv'
  OBVIOUS
<1>1. CASE \E prune \in BOOLEAN : Begin(prune)
  BY <1>1, BeginIInv
<1>2. CASE Match \/ MatchFails
  BY <1>2, MatchIInv
<1>3. CASE \/ \E named \in BOOLEAN : Create(named) \/ CreateTwice(named)
           \/ \E l \in Rows : CreateRefused(l)
           \/ CreateUndefaulted \/ \E n \in 0..Len(archive.rows) : CreateFails(n)
  BY <1>3, CreateIInv
<1>4. CASE \E activates \in BOOLEAN : PlanType(activates)
  BY <1>4, PlanIInv
<1>5. CASE \/ \E deactivated \in BOOLEAN : Destroy(deactivated)
           \/ \E n \in 0..Cardinality(target.objs) : DestroyFails(n)
           \/ \E id \in Planned : DestroyRefused(id)
  BY <1>5, DestroyIInv
<1>6. CASE \/ \E row \in NewRows : Fitting(row) /\ OtherCreates(row)
           \/ \E t \in target.objs : OtherDestroys(t)
  BY <1>6, OthersIInv
<1>7. CASE Crash
  BY <1>7, CrashIInv
<1>8. CASE UNCHANGED vars
  <2>1. archive' = archive /\ target' = target /\ run' = run /\ upsets' = upsets
    BY <1>8 DEF vars
  <2> QED
    BY <2>1, StepIInv DEF IInv
<1> QED
  BY <1>1, <1>2, <1>3, <1>4, <1>5, <1>6, <1>7, <1>8 DEF Next, Step, Upsetting

-----------------------------------------------------------------------------
(* The theorems.                                                           *)

(* Every state that the exporter and the others reach satisfies IInv.      *)
THEOREM Inductive == Spec => []IInv
<1> QED
  BY InitIInv, NextIInv, PTL DEF Spec

(* The account is sound in every state: an object has its own id and is in *)
(* one that exists; and the maps hold what was in the account.             *)
THEOREM TypeCorrect == Spec => []TypeOK
<1>1. IInv => TypeOK
  <2> SUFFICES ASSUME IInv
               PROVE  TypeOK
    OBVIOUS
  <2>1. /\ archive \in Archives /\ upsets \in 0..MaxUpsets
        /\ Account(target) /\ RunOK(run, target)
    BY DEF IInv
  <2>2. /\ target.objs \subseteq Object /\ target.next \in Nat \ {0}
        /\ \A t, u \in target.objs : t.id = u.id => t = u
        /\ \A t \in target.objs : t.id \in 1..(target.next - 1) /\ Exists(target.objs, t.parent)
    BY <2>1 DEF Account
  <2>3. \A t \in target.objs : t.id < target.next
    BY <2>2
  <2>4. /\ run.pc \in {"over", "match", "create", "prune"} /\ run.at \in DOMAIN archive.work
        /\ run.kept \subseteq 1..(target.next - 1) /\ run.maps \in [Rows -> Nat]
    BY <2>1 DEF RunOK, Shaped
  <2>5. \A l \in Rows : run.maps[l] = Top \/ run.maps[l] \in 1..(target.next - 1)
    BY <2>1 DEF RunOK, Mapped, OfType
  <2>6. run.maps \in [Rows -> 0..(target.next - 1)]
    BY <2>2, <2>4, <2>5 DEF Top
  <2>7. run.listed \subseteq Object
    BY <2>1 DEF RunOK, Listed
  <2> QED
    BY <2>1, <2>2, <2>3, <2>4, <2>6, <2>7 DEF TypeOK
<1> QED
  BY <1>1, Inductive, PTL

(* --prune destroys nothing of the archive: no object that a row was       *)
(* matched with, created as or merged into; no card or script with the     *)
(* key of a row; nothing with a role and no default; and nothing that      *)
(* such an object is in.                                                   *)
THEOREM PruneIsSafe == Spec => PruneSparesArchive
<1>1. ASSUME IInv, [Next]_vars
      PROVE  [run.pc = "prune" /\ <<run.pc, run.at>>' # <<run.pc, run.at>> =>
                \A t \in target.objs : t.id \notin Ids(target.objs)' =>
                  /\ t.id \notin Image(run.maps)
                  /\ t.type \in {"ContactCard", "SieveScript"} =>
                       \A l \in RowsOf(t.type) : RowAt(l).name # t.name
                  /\ t.mark => t.type = "SieveScript"]_vars
  <2> SUFFICES ASSUME run.pc = "prune", <<run.pc, run.at>>' # <<run.pc, run.at>>,
                      NEW t \in target.objs, t.id \notin Ids(target'.objs)
               PROVE  /\ t.id \notin Image(run.maps)
                      /\ t.type \in {"ContactCard", "SieveScript"} =>
                           \A l \in RowsOf(t.type) : RowAt(l).name # t.name
                      /\ t.mark => t.type = "SieveScript"
    BY DEF Ids
  <2>1. /\ Account(target) /\ RunOK(run, target)
        /\ DOMAIN run = {"pc", "at", "prune", "maps", "plans", "failed", "listed", "kept", "taken", "todo", "moved"}
    BY <1>1 DEF IInv, RunOK, Shaped
  <2>2. CASE \/ \E deactivated \in BOOLEAN : Destroy(deactivated)
             \/ \E n \in 0..Cardinality(target.objs) : DestroyFails(n)
             \/ \E id \in Planned : DestroyRefused(id)
    <3>1. PICK objs, n, S : /\ objs = target.objs \/ objs = Activated(target.objs, Top)
                            /\ \E D \in Destroyed(objs, n, S) :
                                 target' = [target EXCEPT !.objs = Without(objs, D)]
      BY <2>2, DestroySteps
    <3>2. PICK D \in Destroyed(objs, n, S) : target' = [target EXCEPT !.objs = Without(objs, D)]
      BY <3>1
    <3>3. target'.objs = Without(objs, D)
      BY <2>1, <3>2 DEF Account
    <3>4. \E x \in objs : x.id = t.id
      <4>1. CASE objs = target.objs
        BY <4>1
      <4>2. CASE objs = Activated(target.objs, Top)
        <5>1. PICK x : x = IF t.type = "SieveScript" THEN [t EXCEPT !.mark = t.id = Top] ELSE t
          OBVIOUS
        <5>2. x \in objs
          BY <4>2, <5>1 DEF Activated
        <5>3. t \in Object
          BY <2>1 DEF Account
        <5>4. x.id = t.id
          BY <5>1, <5>3 DEF Object
        <5> QED
          BY <5>2, <5>4
      <4> QED
        BY <3>1, <4>1, <4>2
    <3>5. t.id \in D
      BY <3>3, <3>4 DEF Without, Ids
    <3>6. t.id \in DOMAIN run.plans[run.at].depth /\ run.at \in DOMAIN archive.work
      BY <2>1, <3>5, DestroyedClosed DEF Planned, Plan, RunOK, Shaped
    <3>7. Spare(t, archive.work[run.at], run.maps)
      BY <2>1, <3>6 DEF RunOK, Spared
    <3>8. ASSUME NEW l \in Rows
          PROVE  run.maps[l] # t.id
      <4>1. CASE l \in RowsOf(archive.work[run.at])
        BY <3>7, <4>1 DEF Spare
      <4>2. CASE l \notin RowsOf(archive.work[run.at])
        <5>1. RowAt(l).type # t.type
          BY <3>7, <4>2 DEF Spare, RowsOf
        <5>2. t.id # Top
          BY <2>1 DEF Account, Top
        <5> QED
          BY <2>1, <5>1, <5>2 DEF RunOK, Mapped, OfType
      <4> QED
        BY <4>1, <4>2
    <3> QED
      BY <3>7, <3>8 DEF Spare, Image, Keyed
  <2>3. CASE target' = target
    BY <2>3 DEF Ids
  <2>4. CASE run' = [run EXCEPT !.moved = TRUE]
    <3>1. run'.pc = run.pc /\ run'.at = run.at
      BY <2>1, <2>4
    <3> QED
      BY <3>1
  <2>5. \/ \E deactivated \in BOOLEAN : Destroy(deactivated)
        \/ \E n \in 0..Cardinality(target.objs) : DestroyFails(n)
        \/ \E id \in Planned : DestroyRefused(id)
        \/ target' = target \/ run' = [run EXCEPT !.moved = TRUE]
    <3>1. ~ (run.pc = "create") /\ ~ (run.pc = "over") /\ ~ (run.pc = "match")
      OBVIOUS
    <3>2. /\ ~ \E prune \in BOOLEAN : Begin(prune)
          /\ ~ \E named \in BOOLEAN : Create(named) \/ CreateTwice(named)
          /\ ~ \E l \in Rows : CreateRefused(l)
          /\ ~ CreateUndefaulted /\ ~ \E n \in 0..Len(archive.rows) : CreateFails(n)
          /\ ~ \E activates \in BOOLEAN : PlanType(activates)
          /\ ~ Match /\ ~ MatchFails
      BY <3>1 DEF Begin, Create, CreateTwice, CreateRefused, CreateUndefaulted, CreateFails,
                  Creating, PlanType, Match, MatchFails
    <3>3. Crash \/ UNCHANGED vars => target' = target
      BY DEF Crash, vars
    <3>4. (\E row \in NewRows : Fitting(row) /\ OtherCreates(row)) \/ (\E u \in target.objs : OtherDestroys(u))
            => run' = [run EXCEPT !.moved = TRUE]
      BY DEF OtherCreates, OtherDestroys
    <3> QED
      BY <1>1, <3>2, <3>3, <3>4 DEF Next, Step, Upsetting
  <2> QED
    BY <2>2, <2>3, <2>4, <2>5
<1> QED
  BY <1>1, Inductive, PTL DEF Spec, PruneSparesArchive

-----------------------------------------------------------------------------
(* The pool: what each operation does to the jobs in flight, and that a    *)
(* job stays in one place.                                                 *)

(* The pool as any owner finds it. *)
PoolInv == PoolTypeOK /\ OnePlace

(* A new pool has its workers and nothing in flight (Pool::new).           *)
LEMMA PoolStarts ==
  ASSUME PoolInit
  PROVE  PoolInv /\ InFlight = {}
<1> USE JobsAssumption, PanicsAssumption DEF PoolInit
<1>1. PoolTypeOK
  BY DEF PoolTypeOK
<1>2. jobs = {} /\ Running = {} /\ Answered = {}
  BY DEF Running, Answered
<1>3. OnePlace
  BY <1>2 DEF OnePlace
<1> QED
  BY <1>1, <1>2, <1>3 DEF PoolInv, InFlight

(* Jobs sent to a pool with a worker are in flight afterwards, jobs sent   *)
(* to a pool without one are not (Pool::submit).                           *)
LEMMA SubmitEffect ==
  ASSUME PoolInv, NEW S \in SUBSET Jobs, S \intersect InFlight = {}, Submit(S)
  PROVE  /\ PoolInv'
         /\ InFlight' = IF alive = {} THEN InFlight ELSE InFlight \union S
<1> USE DEF PoolInv, Submit
<1>1. PoolTypeOK'
  BY DEF PoolTypeOK
<1>2. Running' = Running /\ Answered' = Answered
  BY DEF Running, Answered
<1>3. OnePlace'
  BY <1>2 DEF OnePlace, InFlight
<1> QED
  BY <1>1, <1>2, <1>3 DEF InFlight

(* A delivered result leaves the pool with its job (recv on results()).    *)
LEMMA DeliverEffect ==
  ASSUME PoolInv, NEW r \in results, Deliver(r)
  PROVE  PoolInv' /\ r.job \in InFlight /\ InFlight' = InFlight \ {r.job}
<1> USE DEF PoolInv, Deliver
<1>1. PoolTypeOK'
  BY DEF PoolTypeOK
<1>2. Running' = Running
  BY DEF Running
<1>3. \A q, p \in results : q.job = p.job => q = p
  BY DEF OnePlace
<1>4. Answered' = Answered \ {r.job} /\ r.job \in Answered
  BY <1>3 DEF Answered
<1>5. OnePlace'
  BY <1>2, <1>4 DEF OnePlace
<1>6. r.job \notin jobs /\ r.job \notin Running
  BY <1>4 DEF OnePlace
<1> QED
  BY <1>1, <1>2, <1>4, <1>5, <1>6 DEF InFlight

(* Closing the job channel disturbs no job (Pool::finish, drop).           *)
LEMMA CloseEffect ==
  ASSUME PoolInv, CloseJobs
  PROVE  PoolInv' /\ InFlight' = InFlight
<1> USE DEF PoolInv, CloseJobs
<1>1. PoolTypeOK'
  BY DEF PoolTypeOK
<1>2. Running' = Running /\ Answered' = Answered
  BY DEF Running, Answered
<1>3. OnePlace'
  BY <1>2 DEF OnePlace
<1> QED
  BY <1>1, <1>2, <1>3 DEF InFlight

(* A worker that goes on moves a job from one place to the next; the jobs  *)
(* in flight stay the same (the loop of Pool::new's threads).              *)
LEMMA WorkerEffect ==
  ASSUME PoolInv, NEW w \in Workers, WorkerStep(w)
  PROVE  PoolInv' /\ InFlight' = InFlight
<1> USE DEF PoolInv
<1>1. ASSUME NEW j \in jobs, Receive(w, j) PROVE PoolInv' /\ InFlight' = InFlight
  <2> USE <1>1 DEF Receive
  <2>1. j \in Jobs /\ j # NoJob
    BY JobsAssumption DEF PoolTypeOK
  <2>2. PoolTypeOK'
    BY <2>1 DEF PoolTypeOK
  <2>3. Running' = Running \union {j}
    <3>1. \A v \in Workers : job'[v] = IF v = w THEN j ELSE job[v]
      BY DEF PoolTypeOK
    <3>2. job[w] = NoJob
      OBVIOUS
    <3> HIDE <1>1 DEF Receive
    <3> QED
      BY <2>1, <3>1, <3>2, JobsAssumption DEF Running
  <2>4. Answered' = Answered
    BY DEF Answered
  <2>5. j \notin Running /\ j \notin Answered
    BY DEF OnePlace
  <2>6. \A v \in Workers : v # w => job[v] # j
    BY <2>1, <2>5 DEF Running
  <2>7. \A v \in Workers : job'[v] = IF v = w THEN j ELSE job[v]
    BY DEF PoolTypeOK
  <2>8. \A u, v \in Workers : job'[u] = job'[v] /\ job'[u] # NoJob => u = v
    BY <2>6, <2>7 DEF OnePlace
  <2>9. OnePlace'
    BY <2>1, <2>3, <2>4, <2>5, <2>7, <2>8 DEF OnePlace
  <2> QED
    BY <2>2, <2>3, <2>4, <2>9 DEF InFlight
<1>2. ASSUME NEW res \in {"ok", "err"}, Run(w, res)
      PROVE  PoolInv' /\ InFlight' = InFlight
  <2> USE <1>2 DEF Run
  <2>1. PoolTypeOK'
    BY DEF PoolTypeOK
  <2>2. Running' = Running /\ Answered' = Answered
    BY DEF Running, Answered
  <2>3. \A v \in Workers : outcome'[v] # "none" => job'[v] # NoJob
    BY DEF PoolTypeOK, OnePlace
  <2>4. OnePlace'
    BY <2>2, <2>3 DEF OnePlace
  <2> QED
    BY <2>1, <2>2, <2>4 DEF InFlight
<1>3. CASE Send(w)
  <2> USE <1>3 DEF Send
  <2>1. job[w] \in Jobs /\ job[w] # NoJob /\ outcome[w] \in {"ok", "err"}
    BY JobsAssumption DEF PoolTypeOK, OnePlace
  <2>2. PoolTypeOK'
    BY <2>1 DEF PoolTypeOK, Results
  <2>3. \A v \in Workers : v # w => job[v] # job[w]
    BY <2>1 DEF OnePlace
  <2>4. \A v \in Workers : /\ job'[v] = IF v = w THEN NoJob ELSE job[v]
                           /\ outcome'[v] = IF v = w THEN "none" ELSE outcome[v]
    BY DEF PoolTypeOK
  <2>5. Running' = Running \ {job[w]} /\ job[w] \in Running
    BY <2>1, <2>3, <2>4, JobsAssumption DEF Running
  <2>6. Answered' = Answered \union {job[w]}
    <3>1. \A r \in results' : r \in results \/ r.job = job[w]
      OBVIOUS
    <3>2. results \subseteq results' /\ \E r \in results' : r.job = job[w]
      <4>1. [job |-> job[w], res |-> outcome[w]] \in results'
        OBVIOUS
      <4> QED
        BY <4>1
    <3> HIDE <1>3 DEF Send
    <3> QED
      BY <3>1, <3>2 DEF Answered
  <2>7. job[w] \notin Answered /\ job[w] \notin jobs
    BY <2>5 DEF OnePlace
  <2>8. \A r, q \in results' : r.job = q.job => r = q
    BY <2>7 DEF OnePlace, Answered
  <2>9. \A u, v \in Workers : job'[u] = job'[v] /\ job'[u] # NoJob => u = v
    BY <2>4 DEF OnePlace
  <2>10. \A v \in Workers : /\ outcome'[v] # "none" => job'[v] # NoJob
                            /\ v \notin alive => job'[v] = NoJob
    BY <2>4 DEF OnePlace
  <2>11. Running' \intersect Answered' = {} /\ jobs' \intersect (Running' \union Answered') = {}
    BY <2>5, <2>6, <2>7 DEF OnePlace
  <2>12. OnePlace'
    BY <2>8, <2>9, <2>10, <2>11 DEF OnePlace
  <2> QED
    BY <2>2, <2>5, <2>6, <2>12 DEF InFlight
<1>4. CASE Exit(w)
  <2> USE <1>4 DEF Exit
  <2>1. PoolTypeOK'
    BY DEF PoolTypeOK
  <2>2. Running' = Running /\ Answered' = Answered
    BY DEF Running, Answered
  <2>3. OnePlace'
    BY <2>2 DEF OnePlace
  <2> QED
    BY <2>1, <2>2, <2>3 DEF InFlight
<1> QED
  BY <1>1, <1>2, <1>3, <1>4 DEF WorkerStep

(* A panic takes jobs out of flight and puts none in.                      *)
LEMMA PanicEffect ==
  ASSUME PoolInv, NEW w \in Workers, Panic(w)
  PROVE  PoolInv' /\ InFlight' \subseteq InFlight /\ panics' # 0
<1> USE PanicsAssumption DEF PoolInv, Panic
<1>1. panics' \in 0..MaxPanics /\ panics' # 0
  BY DEF PoolTypeOK
<1>2. PoolTypeOK'
  BY <1>1 DEF PoolTypeOK
<1>3. \A v \in Workers : job'[v] = IF v = w THEN NoJob ELSE job[v]
  BY DEF PoolTypeOK
<1>4. Running' \subseteq Running /\ Answered' = Answered /\ jobs' \subseteq jobs
  BY <1>3, JobsAssumption DEF Running, Answered
<1>5. alive' = {} => jobs' = {}
  BY DEF OnePlace
<1>6. OnePlace'
  BY <1>3, <1>4, <1>5 DEF OnePlace
<1> QED
  BY <1>1, <1>2, <1>4, <1>6 DEF InFlight

(* Without a worker and without a result nothing is in flight.             *)
LEMMA NothingInFlight ==
  ASSUME PoolInv, Disconnected
  PROVE  InFlight = {}
<1>1. jobs = {} /\ Answered = {}
  BY DEF PoolInv, OnePlace, Disconnected, Answered
<1>2. \A w \in Workers : job[w] = NoJob
  BY DEF PoolInv, OnePlace, Disconnected
<1>3. Running = {}
  BY <1>2, JobsAssumption DEF Running
<1> QED
  BY <1>1, <1>3 DEF InFlight

-----------------------------------------------------------------------------
(* The exporter that owns it.                                              *)

Counts ==
  /\ Cardinality(InFlight) <= count /\ count <= MaxCount
  /\ panics = 0 => count = Cardinality(InFlight)

(* A budget that holds more than one blob was within the limit when it     *)
(* took the last of them, and weighs at least what is in flight.           *)
Weighs ==
  Cardinality(BytesOf(InFlight)) <= bytes /\ (count <= 1 \/ bytes <= MaxBytes)

ToComeYet == (todo \union {cur}) \intersect InFlight = {} /\ cur \notin todo

Staffed ==
  /\ pc \in {"idle", "next", "admit"} => open = "yes"
  /\ panics = 0 /\ open = "yes" => alive = Workers

Between == pc \in {"idle", "closing", "joined"} => count = 0

Covered ==
  panics = 0 /\ pc \in {"next", "admit"} =>
    asked \subseteq todo \union {cur} \union InFlight \union cache \union failed

UploadInv == UploadTypeOK /\ OnePlace /\ Counts /\ Weighs /\ ToComeYet /\ Staffed /\ Between /\ Covered

-----------------------------------------------------------------------------
(* What is in flight is a finite set of jobs, so that it can be counted.   *)
LEMMA FlightFinite ==
  ASSUME PoolTypeOK
  PROVE  /\ InFlight \subseteq Jobs /\ NoJob \notin InFlight
         /\ IsFiniteSet(InFlight) /\ Cardinality(InFlight) \in Nat
<1>1. InFlight \subseteq Jobs
  BY DEF PoolTypeOK, Results, InFlight, Running, Answered
<1>2. IsFiniteSet(InFlight)
  BY <1>1, FS_Subset, JobsAssumption
<1> QED
  BY <1>1, <1>2, FS_CardinalityType, JobsAssumption

(* So are its bytes.                                                       *)
LEMMA BytesFinite ==
  ASSUME NEW S \in SUBSET Jobs
  PROVE  IsFiniteSet(BytesOf(S)) /\ Cardinality(BytesOf(S)) \in Nat
<1> DEFINE f == [b \in S |-> {b} \X (1..BlobLen[b])]
           T == {{b} \X (1..BlobLen[b]) : b \in S}
<1>1. IsFiniteSet(S)
  BY FS_Subset, JobsAssumption
<1>2. f \in Surjection(S, T)
  BY DEF Surjection
<1>3. IsFiniteSet(T)
  BY <1>1, <1>2, FS_Surjection
<1>4. ASSUME NEW b \in S
      PROVE  IsFiniteSet({b} \X (1..BlobLen[b]))
  <2>1. IsFiniteSet({b}) /\ IsFiniteSet(1..BlobLen[b])
    <3>1. BlobLen[b] \in Nat
      BY LenAssumption
    <3>2. IsFiniteSet(1..BlobLen[b])
      BY <3>1, FS_Interval
    <3> QED
      BY <3>2, FS_Singleton
  <2> QED
    BY <2>1, FS_Product
<1>5. IsFiniteSet(UNION T)
  BY <1>3, <1>4, FS_UNION
<1> QED
  BY <1>5, FS_CardinalityType DEF BytesOf

(* A blob more, or less, counts by its length.                             *)
LEMMA BytesAdd ==
  ASSUME NEW S \in SUBSET Jobs, NEW b \in Jobs \ S
  PROVE  Cardinality(BytesOf(S \union {b})) = Cardinality(BytesOf(S)) + BlobLen[b]
<1> DEFINE B == {b} \X (1..BlobLen[b])
<1>1. BlobLen[b] \in Nat
  BY LenAssumption
<1>2. IsFiniteSet({b}) /\ Cardinality({b}) = 1
  BY FS_Singleton
<1>3. IsFiniteSet(1..BlobLen[b]) /\ Cardinality(1..BlobLen[b]) = BlobLen[b]
  BY <1>1, FS_Interval
<1>4. IsFiniteSet(B) /\ Cardinality(B) = Cardinality({b}) * Cardinality(1..BlobLen[b])
  BY <1>2, <1>3, FS_Product
<1>5. Cardinality(B) = BlobLen[b]
  BY <1>1, <1>2, <1>3, <1>4
<1>6. IsFiniteSet(BytesOf(S)) /\ Cardinality(BytesOf(S)) \in Nat
  BY BytesFinite
<1>7. BytesOf(S) \intersect B = {}
  BY DEF BytesOf
<1>8. BytesOf(S \union {b}) = BytesOf(S) \union B
  BY DEF BytesOf
<1>9. Cardinality(BytesOf(S) \union B)
        = Cardinality(BytesOf(S)) + Cardinality(B) - Cardinality(BytesOf(S) \intersect B)
  BY <1>4, <1>6, FS_Union
<1> HIDE DEF B
<1>10. Cardinality(BytesOf(S) \intersect B) = 0
  BY <1>7, FS_EmptySet
<1>11. Cardinality(BytesOf(S) \union B) = Cardinality(BytesOf(S)) + BlobLen[b]
  BY <1>1, <1>5, <1>6, <1>9, <1>10
<1> QED
  BY <1>8, <1>11

(* Without blobs there are none.                                           *)
LEMMA BytesNone == Cardinality(BytesOf({})) = 0
<1>1. BytesOf({}) = {}
  BY DEF BytesOf
<1> QED
  BY <1>1, FS_EmptySet

(* Fewer blobs have no more bytes.                                         *)
LEMMA BytesFewer ==
  ASSUME NEW S \in SUBSET Jobs, NEW T \in SUBSET S
  PROVE  Cardinality(BytesOf(T)) <= Cardinality(BytesOf(S))
<1>1. BytesOf(T) \subseteq BytesOf(S)
  BY DEF BytesOf
<1> QED
  BY <1>1, BytesFinite, FS_Subset

(* A new Uploader satisfies the invariant.                                 *)
LEMMA UploadStarts == UploadInit => UploadInv
<1> SUFFICES ASSUME UploadInit PROVE UploadInv
  OBVIOUS
<1>1. PoolInv /\ InFlight = {} /\ panics = 0 /\ open = "yes" /\ alive = Workers
  BY PoolStarts DEF UploadInit, PoolInit
<1>2. Cardinality(InFlight) = 0
  BY <1>1, FS_EmptySet
<1>3. MaxCount \in Nat /\ MaxCalls \in Nat
  BY LimitsAssumption
<1>4. UploadTypeOK
  BY <1>1, <1>3 DEF UploadTypeOK, PoolInv, UploadInit
<1>5. Counts /\ ToComeYet /\ Staffed /\ Between /\ Covered
  BY <1>1, <1>2, <1>3, JobsAssumption
     DEF Counts, ToComeYet, Staffed, Between, Covered, UploadInit
<1>6. Weighs
  BY <1>1, BytesNone DEF Weighs, UploadInit
<1> QED
  BY <1>1, <1>4, <1>5, <1>6 DEF UploadInv, PoolInv

(* Steps that leave the pool alone keep what is said of it alone.          *)
LEMMA PoolUnchanged ==
  ASSUME UNCHANGED poolVars
  PROVE  /\ InFlight' = InFlight
         /\ PoolTypeOK' <=> PoolTypeOK
         /\ OnePlace' <=> OnePlace
BY DEF poolVars, InFlight, Running, Answered, PoolTypeOK, OnePlace

(* The budget and its blobs stay as they are, or some blobs are lost.      *)
LEMMA WeighsOn ==
  ASSUME UploadInv, InFlight' \subseteq InFlight, UNCHANGED <<count, bytes>>
  PROVE  Weighs'
<1>1. InFlight \in SUBSET Jobs
  BY FlightFinite DEF UploadInv, UploadTypeOK
<1>2. Cardinality(BytesOf(InFlight')) <= Cardinality(BytesOf(InFlight))
  BY <1>1, BytesFewer
<1>3. Cardinality(BytesOf(InFlight')) \in Nat /\ Cardinality(BytesOf(InFlight)) \in Nat
  BY <1>1, BytesFinite
<1>4. bytes \in Nat
  BY DEF UploadInv, UploadTypeOK
<1>5. BytesOf(InFlight)' = BytesOf(InFlight')
  BY DEF BytesOf
<1> QED
  BY <1>2, <1>3, <1>4, <1>5 DEF UploadInv, Weighs

(* The budget starts over.                                                 *)
LEMMA WeighsAnew ==
  ASSUME InFlight' = {}, count' \in 0..1, bytes' \in Nat
  PROVE  Weighs'
<1>1. BytesOf(InFlight)' = BytesOf({})
  BY DEF BytesOf
<1> QED
  BY <1>1, BytesNone DEF Weighs

-----------------------------------------------------------------------------
(* The steps of upload() and drop() that do not touch the pool.            *)
LEMMA LocalStep ==
  ASSUME UploadInv,
         \/ \E S \in SUBSET Jobs : Upload(S) \/ Invalidate(S)
         \/ \E b \in Jobs : SkipCached(b) \/ ReadBytes(b) \/ ReadFails(b)
         \/ DrainDisconnected \/ Return \/ Join
  PROVE  UploadInv'
<1> USE LimitsAssumption DEF UploadInv
<1>0. /\ InFlight \subseteq Jobs /\ NoJob \notin InFlight
      /\ IsFiniteSet(InFlight) /\ Cardinality(InFlight) \in Nat
  BY FlightFinite DEF UploadTypeOK
<1>1. ASSUME NEW S \in SUBSET Jobs, Upload(S) PROVE UploadInv'
  <2> USE <1>1 DEF Upload
  <2>1. InFlight' = InFlight /\ PoolTypeOK' /\ OnePlace'
    BY PoolUnchanged DEF UploadTypeOK
  <2>2. Cardinality(InFlight) = 0
    BY <1>0 DEF Counts, Between, UploadTypeOK
  <2>3. InFlight = {}
    BY <1>0, <2>2, FS_EmptySet
  <2>4. UploadTypeOK'
    BY <2>1 DEF UploadTypeOK
  <2>5. Counts' /\ ToComeYet' /\ Staffed' /\ Between' /\ Covered'
    BY <2>1, <2>2, <2>3, JobsAssumption
       DEF Counts, ToComeYet, Staffed, Between, Covered, UploadTypeOK, poolVars
  <2>6. Weighs'
    BY <2>1, <2>3, WeighsAnew
  <2> QED
    BY <2>1, <2>4, <2>5, <2>6
<1>2. ASSUME NEW S \in SUBSET Jobs, Invalidate(S) PROVE UploadInv'
  <2> USE <1>2 DEF Invalidate
  <2>1. InFlight' = InFlight /\ PoolTypeOK' /\ OnePlace'
    BY PoolUnchanged DEF UploadTypeOK
  <2>2. UploadTypeOK'
    BY <2>1 DEF UploadTypeOK
  <2>3. Counts' /\ ToComeYet' /\ Staffed' /\ Between' /\ Covered'
    BY <2>1 DEF Counts, ToComeYet, Staffed, Between, Covered, poolVars
  <2>4. Weighs'
    BY <2>1, WeighsOn
  <2> QED
    BY <2>1, <2>2, <2>3, <2>4
<1>3. ASSUME NEW b \in Jobs, SkipCached(b) PROVE UploadInv'
  <2> USE <1>3 DEF SkipCached
  <2>1. InFlight' = InFlight /\ PoolTypeOK' /\ OnePlace'
    BY PoolUnchanged DEF UploadTypeOK
  <2>2. UploadTypeOK'
    BY <2>1 DEF UploadTypeOK
  <2>3. Counts' /\ ToComeYet' /\ Staffed' /\ Between' /\ Covered'
    BY <2>1 DEF Counts, ToComeYet, Staffed, Between, Covered, poolVars
  <2>4. Weighs'
    BY <2>1, WeighsOn
  <2> QED
    BY <2>1, <2>2, <2>3, <2>4
<1>4. ASSUME NEW b \in Jobs, ReadBytes(b) PROVE UploadInv'
  <2> USE <1>4 DEF ReadBytes
  <2>1. InFlight' = InFlight /\ PoolTypeOK' /\ OnePlace'
    BY PoolUnchanged DEF UploadTypeOK
  <2>2. UploadTypeOK'
    BY <2>1, JobsAssumption DEF UploadTypeOK
  <2>3. Counts' /\ ToComeYet' /\ Staffed' /\ Between' /\ Covered'
    BY <2>1, JobsAssumption
       DEF Counts, ToComeYet, Staffed, Between, Covered, UploadTypeOK, poolVars
  <2>4. Weighs'
    BY <2>1, WeighsOn
  <2> QED
    BY <2>1, <2>2, <2>3, <2>4
<1>5. ASSUME NEW b \in Jobs, ReadFails(b) PROVE UploadInv'
  <2> USE <1>5 DEF ReadFails
  <2>1. InFlight' = InFlight /\ PoolTypeOK' /\ OnePlace'
    BY PoolUnchanged DEF UploadTypeOK
  <2>2. UploadTypeOK'
    BY <2>1 DEF UploadTypeOK
  <2>3. Counts' /\ ToComeYet' /\ Staffed' /\ Between' /\ Covered'
    BY <2>1 DEF Counts, ToComeYet, Staffed, Between, Covered, poolVars
  <2>4. Weighs'
    BY <2>1, WeighsOn
  <2> QED
    BY <2>1, <2>2, <2>3, <2>4
<1>6. CASE DrainDisconnected
  <2> USE <1>6 DEF DrainDisconnected
  <2>1. InFlight' = InFlight /\ PoolTypeOK' /\ OnePlace'
    BY PoolUnchanged DEF UploadTypeOK
  <2>2. InFlight = {} /\ Cardinality(InFlight) = 0
    BY NothingInFlight, FS_EmptySet DEF PoolInv, UploadTypeOK
  <2>3. UploadTypeOK'
    BY <2>1 DEF UploadTypeOK
  <2>4. Counts' /\ ToComeYet' /\ Staffed' /\ Between' /\ Covered'
    BY <2>1, <2>2 DEF Counts, ToComeYet, Staffed, Between, Covered, poolVars
  <2>5. Weighs'
    BY <2>1, <2>2, WeighsAnew
  <2> QED
    BY <2>1, <2>3, <2>4, <2>5
<1>7. CASE Return
  <2> USE <1>7 DEF Return
  <2>1. InFlight' = InFlight /\ PoolTypeOK' /\ OnePlace'
    BY PoolUnchanged DEF UploadTypeOK
  <2>2. UploadTypeOK'
    BY <2>1 DEF UploadTypeOK
  <2>3. Counts' /\ ToComeYet' /\ Staffed' /\ Between' /\ Covered'
    BY <2>1 DEF Counts, ToComeYet, Staffed, Between, Covered, poolVars
  <2>4. Weighs'
    BY <2>1, WeighsOn
  <2> QED
    BY <2>1, <2>2, <2>3, <2>4
<1>8. CASE Join
  <2> USE <1>8 DEF Join
  <2>1. InFlight' = InFlight /\ PoolTypeOK' /\ OnePlace'
    BY PoolUnchanged DEF UploadTypeOK
  <2>2. UploadTypeOK'
    BY <2>1 DEF UploadTypeOK
  <2>3. Counts' /\ ToComeYet' /\ Staffed' /\ Between' /\ Covered'
    BY <2>1 DEF Counts, ToComeYet, Staffed, Between, Covered, poolVars
  <2>4. Weighs'
    BY <2>1, WeighsOn
  <2> QED
    BY <2>1, <2>2, <2>3, <2>4
<1> QED
  BY <1>1, <1>2, <1>3, <1>4, <1>5, <1>6, <1>7, <1>8

(* The steps of the owner that use the pool.                               *)
LEMMA PoolStep ==
  ASSUME UploadInv, TakeNext \/ TakeDisconnected \/ Close \/ \E r \in results : Collect(r)
  PROVE  UploadInv'
<1> USE LimitsAssumption DEF UploadInv
<1>0. /\ InFlight \subseteq Jobs /\ NoJob \notin InFlight
      /\ IsFiniteSet(InFlight) /\ Cardinality(InFlight) \in Nat
  BY FlightFinite DEF UploadTypeOK
<1>t. count \in Nat /\ bytes \in Nat /\ PoolInv
  BY DEF UploadTypeOK, PoolInv
<1>1. CASE TakeNext
  <2> USE <1>1 DEF TakeNext, Take
  <2>1. cur \in Jobs /\ cur \notin InFlight /\ BlobLen[cur] \in Nat
    BY LenAssumption DEF UploadTypeOK, ToComeYet
  <2>2. /\ PoolInv'
        /\ InFlight' = IF alive = {} THEN InFlight ELSE InFlight \union {cur}
    BY <1>t, <2>1, SubmitEffect
  <2>3. UNCHANGED <<open, alive, panics>>
    BY DEF Submit
  <2>4. Cardinality(InFlight \union {cur}) = Cardinality(InFlight) + 1
    BY <1>0, <2>1, FS_AddElement
  <2>5. UploadTypeOK'
    BY <1>t, <2>1, <2>2, JobsAssumption DEF UploadTypeOK, PoolInv
  <2>6. Counts'
    <3>1. count' <= MaxCount
      BY <1>t DEF Admits
    <3>2. Cardinality(InFlight') <= count'
      BY <1>0, <1>t, <2>2, <2>4 DEF Counts
    <3>3. ASSUME panics = 0 PROVE count' = Cardinality(InFlight')
      <4>1. alive # {}
        BY <3>3, WorkersAssumption DEF Staffed
      <4> QED
        BY <3>3, <4>1, <2>2, <2>4 DEF Counts
    <3> QED
      BY <2>3, <3>1, <3>2, <3>3 DEF Counts
  <2>7. ToComeYet'
    BY <2>1, <2>2, <1>0, JobsAssumption DEF ToComeYet, UploadTypeOK
  <2>8. Staffed' /\ Between'
    BY <2>3 DEF Staffed, Between
  <2>9. Covered'
    <3>1. panics = 0 => alive # {}
      BY WorkersAssumption DEF Staffed
    <3> QED
      BY <2>2, <2>3, <3>1 DEF Covered
  <2>10. Weighs'
    <3>1. BytesOf(InFlight)' = BytesOf(InFlight')
      BY DEF BytesOf
    <3>2. InFlight' \in SUBSET (InFlight \union {cur}) /\ InFlight \union {cur} \in SUBSET Jobs
      BY <1>0, <2>1, <2>2
    <3>3. Cardinality(BytesOf(InFlight')) <= Cardinality(BytesOf(InFlight \union {cur}))
      BY <3>2, BytesFewer
    <3>4. Cardinality(BytesOf(InFlight \union {cur})) = Cardinality(BytesOf(InFlight)) + BlobLen[cur]
      BY <1>0, <2>1, BytesAdd
    <3>5. Cardinality(BytesOf(InFlight)) \in Nat /\ Cardinality(BytesOf(InFlight')) \in Nat
      BY <1>0, <3>2, BytesFinite
    <3>6. bytes' = bytes + BlobLen[cur] /\ count' = count + 1 /\ Cardinality(BytesOf(InFlight)) <= bytes
      BY DEF Weighs
    <3>7. Cardinality(BytesOf(InFlight')) <= bytes'
      BY <1>t, <2>1, <3>3, <3>4, <3>5, <3>6
    <3>8. count' <= 1 \/ bytes' <= MaxBytes
      BY <1>t, <3>6 DEF Admits
    <3> QED
      BY <3>1, <3>7, <3>8 DEF Weighs
  <2> QED
    BY <2>2, <2>5, <2>6, <2>7, <2>8, <2>9, <2>10 DEF PoolInv
<1>2. CASE TakeDisconnected
  <2> USE <1>2 DEF TakeDisconnected, Take
  <2>1. cur \in Jobs /\ cur \notin InFlight /\ BlobLen[cur] \in Nat
    BY LenAssumption DEF UploadTypeOK, ToComeYet
  <2>2. PoolInv' /\ InFlight' = {} /\ alive = {}
    BY <1>t, <2>1, SubmitEffect, NothingInFlight DEF Disconnected
  <2>3. UNCHANGED <<open, alive, panics>>
    BY DEF Submit
  <2>4. panics # 0
    BY <2>2, WorkersAssumption DEF Staffed
  <2>5. UploadTypeOK'
    BY <2>1, <2>2, JobsAssumption DEF UploadTypeOK, PoolInv
  <2>6. Cardinality(InFlight') = 0
    BY <2>2, FS_EmptySet
  <2>7. Counts' /\ ToComeYet' /\ Staffed' /\ Between' /\ Covered'
    BY <2>2, <2>3, <2>4, <2>6, JobsAssumption
       DEF Counts, ToComeYet, Staffed, Between, Covered, UploadTypeOK
  <2>8. Weighs'
    BY <2>1, <2>2, WeighsAnew
  <2> QED
    BY <2>2, <2>5, <2>7, <2>8 DEF PoolInv
<1>3. CASE Close
  <2> USE <1>3 DEF Close
  <2>1. PoolInv' /\ InFlight' = InFlight
    BY <1>t, CloseEffect
  <2>2. UNCHANGED <<alive, panics>> /\ open' = "no"
    BY DEF CloseJobs
  <2>3. UploadTypeOK'
    BY <2>1 DEF UploadTypeOK, PoolInv
  <2>4. Counts' /\ ToComeYet' /\ Staffed' /\ Between' /\ Covered'
    BY <2>1, <2>2 DEF Counts, ToComeYet, Staffed, Between, Covered
  <2>5. Weighs'
    BY <2>1, WeighsOn
  <2> QED
    BY <2>1, <2>3, <2>4, <2>5 DEF PoolInv
<1>4. ASSUME NEW r \in results, Collect(r) PROVE UploadInv'
  <2> USE <1>4 DEF Collect
  <2>1. PoolInv' /\ r.job \in InFlight /\ InFlight' = InFlight \ {r.job}
    BY <1>t, DeliverEffect
  <2>2. UNCHANGED <<open, alive, panics>>
    BY DEF Deliver
  <2>3. r.job \in Jobs /\ BlobLen[r.job] \in Nat
    BY <1>0, <2>1, LenAssumption
  <2>4. Cardinality(InFlight') = Cardinality(InFlight) - 1
    BY <1>0, <2>1, FS_RemoveElement
  <2>5. Cardinality(InFlight') \in Nat
    BY FlightFinite, <1>0, <2>1, FS_RemoveElement, FS_CardinalityType
  <2>6. count' = count - 1 /\ count' \in Nat /\ bytes' \in Nat
    BY <1>0, <1>t, <2>3, <2>4, <2>5 DEF Counts, Release
  <2>7. UploadTypeOK'
    BY <2>1, <2>3, <2>6 DEF UploadTypeOK, PoolInv
  <2>8. Counts'
    BY <1>0, <1>t, <2>2, <2>4, <2>6 DEF Counts
  <2>9. ToComeYet' /\ Staffed' /\ Between'
    BY <2>1, <2>2, <1>t DEF ToComeYet, Staffed, Between
  <2>10. Covered'
    <3>1. r.job \in cache' \union failed'
      OBVIOUS
    <3>2. cache \subseteq cache' /\ failed \subseteq failed'
      OBVIOUS
    <3> QED
      BY <2>1, <2>2, <3>1, <3>2 DEF Covered
  <2>11. Weighs'
    <3>1. BytesOf(InFlight)' = BytesOf(InFlight')
      BY DEF BytesOf
    <3>2. InFlight' \in SUBSET Jobs /\ r.job \in Jobs \ InFlight' /\ InFlight' \union {r.job} = InFlight
      BY <1>0, <2>1
    <3>3. Cardinality(BytesOf(InFlight' \union {r.job})) = Cardinality(BytesOf(InFlight')) + BlobLen[r.job]
      BY <3>2, BytesAdd
    <3>4. Cardinality(BytesOf(InFlight)) = Cardinality(BytesOf(InFlight')) + BlobLen[r.job]
      BY <3>2, <3>3
    <3>5. Cardinality(BytesOf(InFlight')) \in Nat
      BY <3>2, BytesFinite
    <3>6. Cardinality(BytesOf(InFlight)) <= bytes /\ (count <= 1 \/ bytes <= MaxBytes)
      BY DEF Weighs
    <3>7. bytes' = bytes - BlobLen[r.job]
      BY <1>t, <2>3, <3>4, <3>5, <3>6 DEF Release
    <3>8. Cardinality(BytesOf(InFlight')) <= bytes'
      BY <1>t, <2>3, <3>4, <3>5, <3>6, <3>7
    <3>9. count' <= 1 \/ bytes' <= MaxBytes
      BY <1>t, <2>3, <2>6, <3>6, <3>7
    <3> QED
      BY <3>1, <3>8, <3>9 DEF Weighs
  <2> QED
    BY <2>1, <2>7, <2>8, <2>9, <2>10, <2>11 DEF PoolInv
<1> QED
  BY <1>1, <1>2, <1>3, <1>4

(* The steps of the workers, the panics among them.                        *)
LEMMA WorkersStep ==
  ASSUME UploadInv, NEW w \in Workers, WorkerRuns(w) \/ (Panic(w) /\ UNCHANGED ownerVars)
  PROVE  UploadInv'
<1> USE LimitsAssumption DEF UploadInv, ownerVars
<1>0. PoolTypeOK /\ PoolInv /\ count \in Nat
  BY DEF UploadTypeOK, PoolInv
<1>1. CASE WorkerRuns(w)
  <2> USE <1>1 DEF WorkerRuns
  <2>1. PoolInv' /\ InFlight' = InFlight
    BY <1>0, WorkerEffect
  <2>2. UNCHANGED <<open, panics>> /\ (open = "yes" => alive' = alive)
    BY DEF WorkerStep, Receive, Run, Send, Exit
  <2>3. UploadTypeOK'
    BY <2>1 DEF UploadTypeOK, PoolInv
  <2>4. Counts' /\ ToComeYet' /\ Staffed' /\ Between' /\ Covered'
    BY <2>1, <2>2 DEF Counts, ToComeYet, Staffed, Between, Covered
  <2>5. Weighs'
    BY <2>1, WeighsOn
  <2> QED
    BY <2>1, <2>3, <2>4, <2>5 DEF PoolInv
<1>2. CASE Panic(w) /\ UNCHANGED ownerVars
  <2> USE <1>2
  <2>1. PoolInv' /\ InFlight' \subseteq InFlight /\ panics' # 0
    BY <1>0, PanicEffect
  <2>2. Cardinality(InFlight') <= Cardinality(InFlight)
    BY <1>0, <2>1, FlightFinite, FS_Subset
  <2>3. Cardinality(InFlight') \in Nat /\ Cardinality(InFlight) \in Nat
    BY <1>0, <2>1, FlightFinite, FS_Subset, FS_CardinalityType
  <2>4. open' = open
    BY DEF Panic
  <2>5. UploadTypeOK'
    BY <2>1 DEF UploadTypeOK, PoolInv
  <2>6. Counts' /\ ToComeYet' /\ Staffed' /\ Between' /\ Covered'
    BY <1>0, <2>1, <2>2, <2>3, <2>4
       DEF Counts, ToComeYet, Staffed, Between, Covered
  <2>7. Weighs'
    BY <2>1, WeighsOn
  <2> QED
    BY <2>1, <2>5, <2>6, <2>7 DEF PoolInv
<1> QED
  BY <1>1, <1>2

(* UploadInv is an invariant of the pool and its owner.                         *)
THEOREM UploadInvariance == UploadSpec => []UploadInv
<1>1. UploadInv /\ [UploadNext]_uploadVars => UploadInv'
  <2> SUFFICES ASSUME UploadInv, [UploadNext]_uploadVars PROVE UploadInv'
    OBVIOUS
  <2>1. CASE UNCHANGED uploadVars
    <3>1. UNCHANGED poolVars
      BY <2>1 DEF uploadVars
    <3>2. InFlight' = InFlight /\ PoolTypeOK' /\ OnePlace'
      BY <3>1, PoolUnchanged DEF UploadInv, UploadTypeOK
    <3>3. UNCHANGED ownerVars
      BY <2>1 DEF uploadVars, ownerVars
    <3> QED
      BY <3>1, <3>2, <3>3, WeighsOn
         DEF UploadInv, UploadTypeOK, Counts, ToComeYet, Staffed, Between, Covered, poolVars, ownerVars
  <2> QED
    BY <2>1, LocalStep, PoolStep, WorkersStep DEF UploadNext, OwnerStep
<1> QED
  BY <1>1, UploadStarts, PTL DEF UploadSpec

(* Types of upload()'s locals and of the pool under it, for any instance.  *)
THEOREM UploadTypeCorrect == UploadSpec => []UploadTypeOK
<1>1. UploadInv => UploadTypeOK
  BY DEF UploadInv
<1> QED
  BY <1>1, UploadInvariance, PTL

(* Never more than MAX_INFLIGHT_BLOBS blobs are in the pool, nor, unless   *)
(* it is one blob, more than MAX_INFLIGHT_BYTES bytes: for blobs of any    *)
(* length, wherever they are between the two channels, and also after      *)
(* workers died with some or the budget started over.                      *)
THEOREM BudgetCorrect == UploadSpec => []InFlightBounded
<1>1. UploadInv => InFlightBounded
  <2> SUFFICES ASSUME UploadInv
               PROVE  InFlightBounded
    OBVIOUS
  <2>1. Cardinality(InFlight) \in Nat /\ count \in Nat /\ bytes \in Nat
        /\ InFlight \in SUBSET Jobs
    BY FlightFinite DEF UploadInv, UploadTypeOK
  <2>2. Cardinality(BytesOf(InFlight)) \in Nat
    BY <2>1, BytesFinite
  <2>3. CountBounded
    BY <2>1, LimitsAssumption DEF UploadInv, Counts, CountBounded
  <2> QED
    BY <2>1, <2>2, <2>3, LimitsAssumption DEF UploadInv, Counts, Weighs, InFlightBounded
<1> QED
  BY <1>1, UploadInvariance, PTL

(* While no worker died the budget counts exactly what is in flight, and   *)
(* no blob of the call is lost or handled twice: no recv() of upload()     *)
(* waits for an outcome that cannot come.                                  *)
THEOREM AccountCorrect == UploadSpec => []Accounted
<1>1. UploadInv => Accounted
  BY DEF UploadInv, Counts, ToComeYet, Covered, Accounted
<1> QED
  BY <1>1, UploadInvariance, PTL

(* upload() returns with every blob of the call settled and the pool empty.*)
THEOREM ReturnCorrect == UploadSpec => SettledOnReturn
<1>1. ASSUME UploadInv, UploadInv', [UploadNext]_uploadVars, pc = "next", pc' = "idle"
      PROVE  InFlight' = {} /\ (panics = 0 => asked \subseteq cache \union failed)
  <2>1. count' = 0 /\ PoolTypeOK'
    BY <1>1 DEF UploadInv, Between, UploadTypeOK
  <2>2. InFlight' = {}
    <3>1. IsFiniteSet(InFlight') /\ Cardinality(InFlight') \in Nat
      <4>1. InFlight' \subseteq Jobs
        BY <2>1 DEF PoolTypeOK, Results, InFlight, Running, Answered
      <4>2. IsFiniteSet(InFlight')
        BY <4>1, FS_Subset, JobsAssumption
      <4> QED
        BY <4>2, FS_CardinalityType
    <3>2. Cardinality(InFlight') = 0
      BY <1>1, <2>1, <3>1 DEF UploadInv, Counts
    <3> QED
      BY <3>1, <3>2, FS_EmptySet
  <2>3. todo = {} /\ panics = 0 => InFlight = {}
    <3>1. Return \/ DrainDisconnected
      BY <1>1 DEF UploadNext, OwnerStep, Upload, Invalidate, SkipCached, ReadBytes,
                  ReadFails, TakeNext, TakeDisconnected, Take, Collect, Close,
                  Join, WorkerRuns, ownerVars, uploadVars
    <3>2. CASE Return
      <4>1. UNCHANGED poolVars
        BY <3>2 DEF Return
      <4> QED
        BY <2>2, <4>1, PoolUnchanged
    <3>3. CASE DrainDisconnected
      BY <1>1, <3>3, NothingInFlight DEF DrainDisconnected, UploadInv, UploadTypeOK, PoolInv
    <3> QED
      BY <3>1, <3>2, <3>3
  <2>4. todo = {} /\ cur = NoJob
    <3>1. todo = {}
      BY <1>1 DEF UploadNext, OwnerStep, Upload, Invalidate, SkipCached, ReadBytes,
                  ReadFails, TakeNext, TakeDisconnected, Take, Collect, Close,
                  Join, WorkerRuns, ownerVars, uploadVars, Return, DrainDisconnected
    <3> QED
      BY <1>1, <3>1 DEF UploadInv, UploadTypeOK
  <2>5. panics = 0 => asked \subseteq cache \union failed
    BY <1>1, <2>3, <2>4, JobsAssumption DEF UploadInv, Covered, UploadTypeOK
  <2> QED
    BY <2>2, <2>5
<1>2. UploadInv /\ UploadInv' /\ [UploadNext]_uploadVars =>
        [pc = "next" /\ pc' = "idle" =>
           /\ InFlight' = {}
           /\ panics = 0 => asked \subseteq cache \union failed]_uploadVars
  BY <1>1
<1> QED
  BY <1>2, UploadInvariance, PTL DEF UploadSpec, SettledOnReturn
=============================================================================
