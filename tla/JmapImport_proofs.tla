-------------------------- MODULE JmapImport_proofs --------------------------
(***************************************************************************)
(* Proofs about JmapImport: type correctness, the coverage of the cursor,  *)
(* and the implementation of ArchiveMirror, for any set of ids and any     *)
(* bounds.                                                                 *)
(***************************************************************************)
EXTENDS JmapImport, TLAPS

(* The server's history and the versions given out are in order.           *)
Histories ==
  \A id \in Ids :
    /\ born[id] <= ver[id] /\ ver[id] <= state
    /\ id \in gone => born[id] # 0
    /\ born[id] = 0 => ver[id] = 0
    /\ arc[id] # 0 => born[id] # 0 /\ born[id] <= arc[id] /\ arc[id] <= ver[id]
    /\ got[id] # 0 => born[id] # 0 /\ born[id] <= got[id] /\ got[id] <= ver[id]
    /\ got[id] # 0 => arc[id] <= got[id]

(* What each phase knows about the run's variables.                        *)
Phased ==
  /\ cursor <= state /\ target <= state
  /\ SupportsChanges \/ (cursor = NoState /\ target = NoState)
  /\ pc = "update" /\ cursor # NoState /\ target # NoState => cursor <= target
  /\ pc \in {"idle", "enumerated", "changes"} => todo = {}
  /\ pc \in {"idle", "changes"} => Fetched = {}
  /\ pc \in {"idle", "update"} => fresh = {} /\ vanished = {}
  /\ pc # "idle" /\ pc # "update" => Archived \subseteq present \union fresh \union vanished
  /\ pc = "changes" => Archived \intersect vanished = {}
  /\ vanished \subseteq gone
  /\ \A id \in present \union fresh : born[id] # 0
  /\ pc \in {"enumerated", "new"} => Fetched \union todo \subseteq fresh
  /\ pc = "enumerated" => fresh \intersect Archived = {}
  /\ pc = "enumerated" /\ ~Queryless => Fetched = {}
  /\ pc = "update" => todo \subseteq present
  /\ fresh \intersect present = {}

(* A version read but not committed is current, or /changes will say so.   *)
GotCovered ==
  cursor # NoState =>
    \A id \in Fetched \ exposed :
      got[id] = ver[id] \/ (id \notin fresh /\ born[id] <= cursor /\ cursor < ver[id])

(* An object inserted by this run is current unless it is exposed.         *)
FreshCurrent ==
  cursor # NoState =>
    \A id \in (fresh \intersect Archived) \ exposed : arc[id] = ver[id]

(* Before the archive has a cursor, the captured state covers the run.     *)
FirstCovered ==
  cursor = NoState /\ target # NoState =>
    \A id \in Ids :
      /\ id \in Archived \union Fetched \union todo \union fresh \union present => born[id] <= target
      /\ id \in fresh \intersect Archived => arc[id] = ver[id] \/ target < ver[id]
      /\ id \in Fetched => got[id] = ver[id] \/ target < ver[id]

(* The state the cursor is about to move to covers what is not pending.    *)
TargetCovered ==
  pc = "update" /\ failed = 0 /\ target # NoState =>
    \A id \in Ids \ exposed :
      /\ Stale(id) => \/ id \in todo \union Fetched
                      \/ born[id] <= target /\ target < ver[id]
      /\ id \in Fetched => \/ got[id] = ver[id]
                           \/ born[id] <= target /\ target < ver[id]

IInv == TypeOK /\ Histories /\ Phased /\ CursorCovers /\ GotCovered
          /\ FreshCurrent /\ FirstCovered /\ TargetCovered

-----------------------------------------------------------------------------
USE DEF Kinds, Queryless, SupportsChanges, NoState, Nothing, Phases, Alive, Archived, Fetched,
        UpdatedSince, Stale, serverVars, runVars

(* The initial state, an empty archive, satisfies the invariant.           *)
LEMMA InitIInv == Init => IInv
  BY BoundsAssumption
     DEF Init, IInv, TypeOK, Histories, Phased, CursorCovers, GotCovered,
         FreshCurrent, FirstCovered, TargetCovered

(* A type never changes its kind: it is decided by the type's name.        *)
LEMMA KindStays == [Next]_vars => kind' = kind
<1> SUFFICES ASSUME [Next]_vars PROVE kind' = kind
  OBVIOUS
<1>1. CASE Server
  BY <1>1 DEF Server, Create, Change, Destroy
<1>2. CASE Step
  BY <1>2 DEF Step, Enumerate, ReadState, FetchNew, FetchUpdate, InsertBatch,
              UpdateBatch, DeleteVanished, ChangesAnswered, ChangesRefused,
              RefreshAll, Refresh, AdvanceState
<1>3. CASE Fault
  BY <1>3 DEF Fault, FetchNewFails, FetchUpdateFails, InsertBatch, UpdateBatch,
              Abandon
<1>4. CASE UNCHANGED vars
  BY <1>4 DEF vars
<1> QED
  BY <1>1, <1>2, <1>3, <1>4 DEF Next

(* Every step of the server and of the importer keeps the types.           *)
LEMMA TypeStep == TypeOK /\ [Next]_vars => TypeOK'
<1> SUFFICES ASSUME TypeOK, [Next]_vars PROVE TypeOK'
  OBVIOUS
<1> USE BoundsAssumption DEF TypeOK
<1>k. kind' = kind
  BY KindStays
<1>1. CASE Server
  BY <1>k, <1>1 DEF Server, Create, Change, Destroy
<1>2. CASE Enumerate \/ ReadState
  BY <1>k, <1>2 DEF Missing, Enumerate, ReadState
<1>3. ASSUME NEW c \in NonEmpty(todo),
             FetchNew(c) \/ FetchUpdate(c) \/ FetchNewFails(c) \/ FetchUpdateFails(c)
      PROVE  TypeOK'
  <2>1. Answered(c) \in [Ids -> 0..MaxState]
    BY DEF Answered
  <2>2. CASE FetchNew(c) \/ FetchUpdate(c)
    BY <1>k, <2>1, <2>2 DEF FetchNew, FetchUpdate
  <2>3. CASE FetchNewFails(c) \/ FetchUpdateFails(c)
    <3>1. faults' \in 0..MaxFaults /\ todo' \subseteq Ids /\ failed' \in 0..faults'
      BY <2>3 DEF FetchNewFails, FetchUpdateFails
    <3> QED
      BY <1>k, <2>3, <3>1 DEF FetchNewFails, FetchUpdateFails
  <2> QED
    BY <1>3, <2>2, <2>3
<1>4. ASSUME NEW b \in NonEmpty(Fetched), NEW bad \in SUBSET b,
             InsertBatch(b, bad) \/ UpdateBatch(b, bad)
      PROVE  TypeOK'
  <2>1. Committed(b, bad)
    BY <1>4 DEF InsertBatch, Failures, UpdateBatch
  <2>2. arc' \in [Ids -> 0..MaxState] /\ got' \in [Ids -> 0..MaxState]
    BY <2>1 DEF Committed
  <2>3. /\ faults' \in 0..MaxFaults
        /\ failed \in 0..faults' /\ (bad # {} => failed + 1 \in 0..faults')
    BY <2>1 DEF Committed
  <2>4. failed' \in 0..faults' /\ exposed' \subseteq Ids
    BY <1>4, <2>3 DEF InsertBatch, Failures, UpdateBatch
  <2>5. /\ UNCHANGED <<state, born, ver, gone, cursor, pc, present, fresh,
                       vanished, todo, target>>
    BY <1>4 DEF InsertBatch, Failures, UpdateBatch
  <2> QED
    BY <1>k, <2>2, <2>3, <2>4, <2>5
<1>5. CASE DeleteVanished
  BY <1>k, <1>5 DEF DeleteVanished
<1>6. CASE ChangesAnswered \/ ChangesRefused \/ RefreshAll
  BY <1>k, <1>6 DEF ChangesAnswered, ChangesRefused, RefreshAll, Refresh
<1>7. CASE AdvanceState \/ Abandon
  BY <1>k, <1>7 DEF Advanced, AdvanceState, Abandon, Forgotten
<1>8. CASE UNCHANGED vars
  BY <1>k, <1>8 DEF vars
<1> HIDE DEF TypeOK
<1> QED
  BY <1>1, <1>2, <1>3, <1>4, <1>5, <1>6, <1>7, <1>8 DEF Next, Step, Fault, NonEmpty


(* Every step of the server and of the importer keeps the invariant: one   *)
(* step of the proof per action, and under it one per conjunct.            *)
LEMMA InvStep == IInv /\ [Next]_vars => IInv'
<1> SUFFICES ASSUME IInv, [Next]_vars PROVE IInv'
  OBVIOUS
<1> USE BoundsAssumption
<1>a. TypeOK /\ TypeOK'
  BY TypeStep DEF IInv
<1>b. /\ Histories /\ Phased /\ CursorCovers /\ GotCovered
      /\ FreshCurrent /\ FirstCovered /\ TargetCovered
      /\ kind' = kind
  BY KindStays DEF IInv
<1>1. ASSUME NEW i \in Ids, Create(i)
      PROVE  IInv'
  <2>1. Histories'
    BY <1>a, <1>b, <1>1 DEF Create, TypeOK, Histories
  <2>2. Phased'
    BY <1>a, <1>b, <1>1 DEF Create, TypeOK, Phased
  <2>3. CursorCovers'
    BY <1>a, <1>b, <1>1 DEF Create, TypeOK, Histories, CursorCovers
  <2>4. GotCovered'
    BY <1>a, <1>b, <1>1 DEF Create, TypeOK, Histories, GotCovered
  <2>5. FreshCurrent'
    BY <1>a, <1>b, <1>1 DEF Create, TypeOK, Histories, FreshCurrent
  <2>6. FirstCovered'
    BY <1>a, <1>b, <1>1 DEF Create, TypeOK, Histories, Phased, FirstCovered
  <2>7. TargetCovered'
    BY <1>a, <1>b, <1>1 DEF Create, TypeOK, Histories, TargetCovered
  <2> QED
    BY <1>a, <2>1, <2>2, <2>3, <2>4, <2>5, <2>6, <2>7 DEF IInv
<1>2. ASSUME NEW i \in Ids, Change(i)
      PROVE  IInv'
  <2>1. Histories'
    BY <1>a, <1>b, <1>2 DEF Change, Unreached, TypeOK, Histories
  <2>2. Phased'
    BY <1>a, <1>b, <1>2 DEF Change, Unreached, TypeOK, Phased
  <2>3. CursorCovers'
    BY <1>a, <1>b, <1>2 DEF Change, Unreached, TypeOK, Phased, CursorCovers
  <2>4. GotCovered'
    BY <1>a, <1>b, <1>2 DEF Change, Unreached, TypeOK, Phased, GotCovered
  <2>5. FreshCurrent'
    BY <1>a, <1>b, <1>2 DEF Change, Unreached, TypeOK, FreshCurrent
  <2>6. FirstCovered'
    BY <1>a, <1>b, <1>2 DEF Change, Unreached, TypeOK, Phased, FirstCovered
  <2>7. TargetCovered'
    BY <1>a, <1>b, <1>2 DEF Change, Unreached, TypeOK, Histories, Phased, CursorCovers, FreshCurrent, FirstCovered, TargetCovered
  <2> QED
    BY <1>a, <2>1, <2>2, <2>3, <2>4, <2>5, <2>6, <2>7 DEF IInv
<1>3. ASSUME NEW i \in Ids, Destroy(i)
      PROVE  IInv'
  <2>1. Histories'
    BY <1>a, <1>b, <1>3 DEF Destroy, TypeOK, Histories
  <2>2. Phased'
    BY <1>a, <1>b, <1>3 DEF Destroy, TypeOK, Phased
  <2>3. CursorCovers'
    BY <1>a, <1>b, <1>3 DEF Destroy, TypeOK, CursorCovers
  <2>4. GotCovered'
    BY <1>a, <1>b, <1>3 DEF Destroy, TypeOK, GotCovered
  <2>5. FreshCurrent'
    BY <1>a, <1>b, <1>3 DEF Destroy, TypeOK, FreshCurrent
  <2>6. FirstCovered'
    BY <1>a, <1>b, <1>3 DEF Destroy, TypeOK, FirstCovered
  <2>7. TargetCovered'
    BY <1>a, <1>b, <1>3 DEF Destroy, TypeOK, TargetCovered
  <2> QED
    BY <1>a, <2>1, <2>2, <2>3, <2>4, <2>5, <2>6, <2>7 DEF IInv
<1>4. CASE Enumerate
  <2>1. Histories'
    BY <1>a, <1>b, <1>4 DEF Missing, Enumerate, TypeOK, Histories
  <2>2. Phased'
    BY <1>a, <1>b, <1>4 DEF Missing, Enumerate, TypeOK, Histories, Phased
  <2>3. CursorCovers'
    BY <1>a, <1>b, <1>4 DEF Missing, Enumerate, TypeOK, CursorCovers
  <2>4. GotCovered'
    BY <1>a, <1>b, <1>4 DEF Missing, Enumerate, TypeOK, GotCovered
  <2>5. FreshCurrent'
    BY <1>a, <1>b, <1>4 DEF Missing, Enumerate, TypeOK, FreshCurrent
  <2>6. FirstCovered'
    BY <1>a, <1>b, <1>4 DEF Missing, Enumerate, TypeOK, Histories, FirstCovered
  <2>7. TargetCovered'
    BY <1>a, <1>b, <1>4 DEF Missing, Enumerate, TypeOK, TargetCovered
  <2> QED
    BY <1>a, <2>1, <2>2, <2>3, <2>4, <2>5, <2>6, <2>7 DEF IInv
<1>5. CASE ReadState
  <2>1. Histories'
    BY <1>a, <1>b, <1>5 DEF ReadState, TypeOK, Histories
  <2>2. Phased'
    BY <1>a, <1>b, <1>5 DEF ReadState, TypeOK, Phased
  <2>3. CursorCovers'
    BY <1>a, <1>b, <1>5 DEF ReadState, TypeOK, CursorCovers
  <2>4. GotCovered'
    BY <1>a, <1>b, <1>5 DEF ReadState, TypeOK, GotCovered
  <2>5. FreshCurrent'
    BY <1>a, <1>b, <1>5 DEF ReadState, TypeOK, FreshCurrent
  <2>6. FirstCovered'
    BY <1>a, <1>b, <1>5 DEF ReadState, TypeOK, Histories, Phased, FirstCovered
  <2>7. TargetCovered'
    BY <1>a, <1>b, <1>5 DEF ReadState, TypeOK, TargetCovered
  <2> QED
    BY <1>a, <2>1, <2>2, <2>3, <2>4, <2>5, <2>6, <2>7 DEF IInv
<1>6. ASSUME NEW c \in NonEmpty(todo), FetchNew(c)
      PROVE  IInv'
  <2>1. Histories'
    BY <1>a, <1>b, <1>6 DEF FetchNew, Answered, NonEmpty, TypeOK, Histories
  <2>2. Phased'
    BY <1>a, <1>b, <1>6 DEF FetchNew, Answered, NonEmpty, TypeOK, Phased
  <2>3. CursorCovers'
    BY <1>a, <1>b, <1>6 DEF FetchNew, Answered, NonEmpty, TypeOK, CursorCovers
  <2>4. GotCovered'
    BY <1>a, <1>b, <1>6 DEF FetchNew, Answered, NonEmpty, TypeOK, GotCovered
  <2>5. FreshCurrent'
    BY <1>a, <1>b, <1>6 DEF FetchNew, Answered, NonEmpty, TypeOK, FreshCurrent
  <2>6. FirstCovered'
    BY <1>a, <1>b, <1>6 DEF FetchNew, Answered, NonEmpty, TypeOK, FirstCovered
  <2>7. TargetCovered'
    BY <1>a, <1>b, <1>6 DEF FetchNew, Answered, NonEmpty, TypeOK, TargetCovered
  <2> QED
    BY <1>a, <2>1, <2>2, <2>3, <2>4, <2>5, <2>6, <2>7 DEF IInv
<1>7. ASSUME NEW c \in NonEmpty(todo), FetchNewFails(c)
      PROVE  IInv'
  <2>1. Histories'
    BY <1>a, <1>b, <1>7 DEF FetchNewFails, TypeOK, Histories
  <2>2. Phased'
    BY <1>a, <1>b, <1>7 DEF FetchNewFails, TypeOK, Phased
  <2>3. CursorCovers'
    BY <1>a, <1>b, <1>7 DEF FetchNewFails, TypeOK, CursorCovers
  <2>4. GotCovered'
    BY <1>a, <1>b, <1>7 DEF FetchNewFails, TypeOK, GotCovered
  <2>5. FreshCurrent'
    BY <1>a, <1>b, <1>7 DEF FetchNewFails, TypeOK, FreshCurrent
  <2>6. FirstCovered'
    BY <1>a, <1>b, <1>7 DEF FetchNewFails, TypeOK, FirstCovered
  <2>7. TargetCovered'
    BY <1>a, <1>b, <1>7 DEF FetchNewFails, TypeOK, TargetCovered
  <2> QED
    BY <1>a, <2>1, <2>2, <2>3, <2>4, <2>5, <2>6, <2>7 DEF IInv
<1>8. ASSUME NEW b \in NonEmpty(Fetched), NEW bad \in SUBSET b, InsertBatch(b, bad)
      PROVE  IInv'
  <2>1. Histories'
    BY <1>a, <1>b, <1>8 DEF InsertBatch, Committed, TypeOK, Histories
  <2>2. Phased'
    BY <1>a, <1>b, <1>8 DEF InsertBatch, Committed, TypeOK, Phased
  <2>3. CursorCovers'
    BY <1>a, <1>b, <1>8 DEF InsertBatch, Committed, TypeOK, GotCovered, CursorCovers
  <2>4. GotCovered'
    BY <1>a, <1>b, <1>8 DEF InsertBatch, Committed, TypeOK, GotCovered
  <2>5. FreshCurrent'
    BY <1>a, <1>b, <1>8 DEF InsertBatch, Committed, TypeOK, GotCovered, FreshCurrent
  <2>6. FirstCovered'
    BY <1>a, <1>b, <1>8 DEF InsertBatch, Committed, TypeOK, FirstCovered
  <2>7. TargetCovered'
    BY <1>a, <1>b, <1>8 DEF InsertBatch, Committed, TypeOK, TargetCovered
  <2> QED
    BY <1>a, <2>1, <2>2, <2>3, <2>4, <2>5, <2>6, <2>7 DEF IInv
<1>9. CASE DeleteVanished
  <2>1. Histories'
    BY <1>a, <1>b, <1>9 DEF DeleteVanished, TypeOK, Histories
  <2>2. Phased'
    BY <1>a, <1>b, <1>9 DEF DeleteVanished, TypeOK, Phased
  <2>3. CursorCovers'
    BY <1>a, <1>b, <1>9 DEF DeleteVanished, TypeOK, CursorCovers
  <2>4. GotCovered'
    BY <1>a, <1>b, <1>9 DEF DeleteVanished, TypeOK, GotCovered
  <2>5. FreshCurrent'
    BY <1>a, <1>b, <1>9 DEF DeleteVanished, TypeOK, FreshCurrent
  <2>6. FirstCovered'
    BY <1>a, <1>b, <1>9 DEF DeleteVanished, TypeOK, FirstCovered
  <2>7. TargetCovered'
    BY <1>a, <1>b, <1>9 DEF DeleteVanished, TypeOK, TargetCovered
  <2> QED
    BY <1>a, <2>1, <2>2, <2>3, <2>4, <2>5, <2>6, <2>7 DEF IInv
<1>10. CASE ChangesAnswered
  <2>1. Histories'
    BY <1>a, <1>b, <1>10 DEF ChangesAnswered, Refresh, TypeOK, Histories
  <2>2. Phased'
    BY <1>a, <1>b, <1>10 DEF ChangesAnswered, Refresh, TypeOK, Phased
  <2>3. CursorCovers'
    BY <1>a, <1>b, <1>10 DEF ChangesAnswered, Refresh, TypeOK, CursorCovers
  <2>4. GotCovered'
    BY <1>a, <1>b, <1>10 DEF ChangesAnswered, Refresh, TypeOK, GotCovered
  <2>5. FreshCurrent'
    BY <1>a, <1>b, <1>10 DEF ChangesAnswered, Refresh, TypeOK, FreshCurrent
  <2>6. FirstCovered'
    BY <1>a, <1>b, <1>10 DEF ChangesAnswered, Refresh, TypeOK, FirstCovered
  <2>7. TargetCovered'
    BY <1>a, <1>b, <1>10 DEF ChangesAnswered, Refresh, TypeOK, Histories, Phased, CursorCovers, FreshCurrent, FirstCovered, TargetCovered
  <2> QED
    BY <1>a, <2>1, <2>2, <2>3, <2>4, <2>5, <2>6, <2>7 DEF IInv
<1>11. CASE ChangesRefused
  <2>1. Histories'
    BY <1>a, <1>b, <1>11 DEF ChangesRefused, Refresh, TypeOK, Histories
  <2>2. Phased'
    BY <1>a, <1>b, <1>11 DEF ChangesRefused, Refresh, TypeOK, Phased
  <2>3. CursorCovers'
    BY <1>a, <1>b, <1>11 DEF ChangesRefused, Refresh, TypeOK, CursorCovers
  <2>4. GotCovered'
    BY <1>a, <1>b, <1>11 DEF ChangesRefused, Refresh, TypeOK, GotCovered
  <2>5. FreshCurrent'
    BY <1>a, <1>b, <1>11 DEF ChangesRefused, Refresh, TypeOK, FreshCurrent
  <2>6. FirstCovered'
    BY <1>a, <1>b, <1>11 DEF ChangesRefused, Refresh, TypeOK, FirstCovered
  <2>7. TargetCovered'
    BY <1>a, <1>b, <1>11 DEF ChangesRefused, Refresh, TypeOK, Histories, Phased, CursorCovers, FreshCurrent, FirstCovered, TargetCovered
  <2> QED
    BY <1>a, <2>1, <2>2, <2>3, <2>4, <2>5, <2>6, <2>7 DEF IInv
<1>12. CASE RefreshAll
  <2>1. Histories'
    BY <1>a, <1>b, <1>12 DEF RefreshAll, Refresh, TypeOK, Histories
  <2>2. Phased'
    BY <1>a, <1>b, <1>12 DEF RefreshAll, Refresh, TypeOK, Phased
  <2>3. CursorCovers'
    BY <1>a, <1>b, <1>12 DEF RefreshAll, Refresh, TypeOK, CursorCovers
  <2>4. GotCovered'
    BY <1>a, <1>b, <1>12 DEF RefreshAll, Refresh, TypeOK, GotCovered
  <2>5. FreshCurrent'
    BY <1>a, <1>b, <1>12 DEF RefreshAll, Refresh, TypeOK, FreshCurrent
  <2>6. FirstCovered'
    BY <1>a, <1>b, <1>12 DEF RefreshAll, Refresh, TypeOK, FirstCovered
  <2>7. TargetCovered'
    BY <1>a, <1>b, <1>12 DEF RefreshAll, Refresh, TypeOK, Histories, Phased, CursorCovers, FreshCurrent, FirstCovered, TargetCovered
  <2> QED
    BY <1>a, <2>1, <2>2, <2>3, <2>4, <2>5, <2>6, <2>7 DEF IInv
<1>13. ASSUME NEW c \in NonEmpty(todo), FetchUpdate(c)
      PROVE  IInv'
  <2>1. Histories'
    BY <1>a, <1>b, <1>13 DEF FetchUpdate, Answered, NonEmpty, TypeOK, Histories
  <2>2. Phased'
    BY <1>a, <1>b, <1>13 DEF FetchUpdate, Answered, NonEmpty, TypeOK, Phased
  <2>3. CursorCovers'
    BY <1>a, <1>b, <1>13 DEF FetchUpdate, Answered, NonEmpty, TypeOK, CursorCovers
  <2>4. GotCovered'
    BY <1>a, <1>b, <1>13 DEF FetchUpdate, Answered, NonEmpty, TypeOK, GotCovered
  <2>5. FreshCurrent'
    BY <1>a, <1>b, <1>13 DEF FetchUpdate, Answered, NonEmpty, TypeOK, FreshCurrent
  <2>6. FirstCovered'
    BY <1>a, <1>b, <1>13 DEF FetchUpdate, Answered, NonEmpty, TypeOK, FirstCovered
  <2>7. TargetCovered'
    BY <1>a, <1>b, <1>13 DEF FetchUpdate, Answered, NonEmpty, TypeOK, Histories, TargetCovered
  <2> QED
    BY <1>a, <2>1, <2>2, <2>3, <2>4, <2>5, <2>6, <2>7 DEF IInv
<1>14. ASSUME NEW c \in NonEmpty(todo), FetchUpdateFails(c)
      PROVE  IInv'
  <2>1. Histories'
    BY <1>a, <1>b, <1>14 DEF FetchUpdateFails, TypeOK, Histories
  <2>2. Phased'
    BY <1>a, <1>b, <1>14 DEF FetchUpdateFails, TypeOK, Phased
  <2>3. CursorCovers'
    BY <1>a, <1>b, <1>14 DEF FetchUpdateFails, TypeOK, CursorCovers
  <2>4. GotCovered'
    BY <1>a, <1>b, <1>14 DEF FetchUpdateFails, TypeOK, GotCovered
  <2>5. FreshCurrent'
    BY <1>a, <1>b, <1>14 DEF FetchUpdateFails, TypeOK, FreshCurrent
  <2>6. FirstCovered'
    BY <1>a, <1>b, <1>14 DEF FetchUpdateFails, TypeOK, FirstCovered
  <2>7. TargetCovered'
    BY <1>a, <1>b, <1>14 DEF FetchUpdateFails, TypeOK, TargetCovered
  <2> QED
    BY <1>a, <2>1, <2>2, <2>3, <2>4, <2>5, <2>6, <2>7 DEF IInv
<1>15. ASSUME NEW b \in NonEmpty(Fetched), NEW bad \in SUBSET b, UpdateBatch(b, bad)
      PROVE  IInv'
  <2>1. Histories'
    BY <1>a, <1>b, <1>15 DEF Failures, UpdateBatch, Committed, TypeOK, Histories
  <2>2. Phased'
    BY <1>a, <1>b, <1>15 DEF Failures, UpdateBatch, Committed, TypeOK, Phased
  <2>3. CursorCovers'
    BY <1>a, <1>b, <1>15 DEF Failures, UpdateBatch, Committed, TypeOK, GotCovered, CursorCovers
  <2>4. GotCovered'
    BY <1>a, <1>b, <1>15 DEF Failures, UpdateBatch, Committed, TypeOK, GotCovered
  <2>5. FreshCurrent'
    BY <1>a, <1>b, <1>15 DEF Failures, UpdateBatch, Committed, TypeOK, Phased, FreshCurrent
  <2>6. FirstCovered'
    BY <1>a, <1>b, <1>15 DEF Failures, UpdateBatch, Committed, TypeOK, FirstCovered
  <2>7. TargetCovered'
    BY <1>a, <1>b, <1>15 DEF Failures, UpdateBatch, Committed, TypeOK, TargetCovered
  <2> QED
    BY <1>a, <2>1, <2>2, <2>3, <2>4, <2>5, <2>6, <2>7 DEF IInv
<1>16. CASE AdvanceState
  <2>1. Histories'
    BY <1>a, <1>b, <1>16 DEF Advanced, AdvanceState, Forgotten, TypeOK, Histories
  <2>2. Phased'
    BY <1>a, <1>b, <1>16 DEF Advanced, AdvanceState, Forgotten, TypeOK, Phased
  <2>3. CursorCovers'
    BY <1>a, <1>b, <1>16 DEF Advanced, AdvanceState, Forgotten, TypeOK, TargetCovered, CursorCovers
  <2>4. GotCovered'
    BY <1>a, <1>b, <1>16 DEF Advanced, AdvanceState, Forgotten, TypeOK, GotCovered
  <2>5. FreshCurrent'
    BY <1>a, <1>b, <1>16 DEF Advanced, AdvanceState, Forgotten, TypeOK, FreshCurrent
  <2>6. FirstCovered'
    BY <1>a, <1>b, <1>16 DEF Advanced, AdvanceState, Forgotten, TypeOK, FirstCovered
  <2>7. TargetCovered'
    BY <1>a, <1>b, <1>16 DEF Advanced, AdvanceState, Forgotten, TypeOK, TargetCovered
  <2> QED
    BY <1>a, <2>1, <2>2, <2>3, <2>4, <2>5, <2>6, <2>7 DEF IInv
<1>17. CASE Abandon
  <2>1. Histories'
    BY <1>a, <1>b, <1>17 DEF Abandon, Forgotten, TypeOK, Histories
  <2>2. Phased'
    BY <1>a, <1>b, <1>17 DEF Abandon, Forgotten, TypeOK, Phased
  <2>3. CursorCovers'
    BY <1>a, <1>b, <1>17 DEF Abandon, Forgotten, TypeOK, CursorCovers
  <2>4. GotCovered'
    BY <1>a, <1>b, <1>17 DEF Abandon, Forgotten, TypeOK, GotCovered
  <2>5. FreshCurrent'
    BY <1>a, <1>b, <1>17 DEF Abandon, Forgotten, TypeOK, FreshCurrent
  <2>6. FirstCovered'
    BY <1>a, <1>b, <1>17 DEF Abandon, Forgotten, TypeOK, FirstCovered
  <2>7. TargetCovered'
    BY <1>a, <1>b, <1>17 DEF Abandon, Forgotten, TypeOK, TargetCovered
  <2> QED
    BY <1>a, <2>1, <2>2, <2>3, <2>4, <2>5, <2>6, <2>7 DEF IInv
<1>18. CASE UNCHANGED vars
  <2>1. Histories'
    BY <1>a, <1>b, <1>18 DEF vars, TypeOK, Histories
  <2>2. Phased'
    BY <1>a, <1>b, <1>18 DEF vars, TypeOK, Phased
  <2>3. CursorCovers'
    BY <1>a, <1>b, <1>18 DEF vars, TypeOK, CursorCovers
  <2>4. GotCovered'
    BY <1>a, <1>b, <1>18 DEF vars, TypeOK, GotCovered
  <2>5. FreshCurrent'
    BY <1>a, <1>b, <1>18 DEF vars, TypeOK, FreshCurrent
  <2>6. FirstCovered'
    BY <1>a, <1>b, <1>18 DEF vars, TypeOK, FirstCovered
  <2>7. TargetCovered'
    BY <1>a, <1>b, <1>18 DEF vars, TypeOK, TargetCovered
  <2> QED
    BY <1>a, <2>1, <2>2, <2>3, <2>4, <2>5, <2>6, <2>7 DEF IInv
<1> QED
  BY <1>1, <1>2, <1>3, <1>4, <1>5, <1>6, <1>7, <1>8, <1>9, <1>10, <1>11, <1>12, <1>13, <1>14, <1>15, <1>16, <1>17, <1>18
     DEF Next, Server, Step, Fault, NonEmpty

(* Every variable of the run and of the archive keeps its type.            *)
THEOREM TypeCorrect == Spec => []TypeOK
<1>1. Init => TypeOK
  BY InitIInv DEF IInv
<1> QED
  BY <1>1, TypeStep, PTL DEF Spec

(* The strengthened invariant holds in every reachable state.              *)
THEOREM Invariance == Spec => []IInv
  BY InitIInv, InvStep, PTL DEF Spec

(* advance_state never moves the cursor past a change the archive has not  *)
(* taken in, unless the object was exposed.                                *)
THEOREM CursorSound == Spec => []CursorCovers
<1>1. IInv => CursorCovers
  BY DEF IInv
<1> QED
  BY <1>1, Invariance, PTL

(* Every step is one of the mirror's steps: a transaction of the importer  *)
(* absorbs versions that are not older, or forgets destroyed objects.      *)
LEMMA MirrorStep == IInv /\ [Next]_vars => [Mirror!Next]_(Mirror!mirrorVars)
<1> SUFFICES ASSUME IInv, [Next]_vars PROVE [Mirror!Next]_(Mirror!mirrorVars)
  OBVIOUS
<1> USE BoundsAssumption DEF Mirror!mirrorVars
<1>a. TypeOK /\ Histories /\ Phased
  BY DEF IInv
<1>1. ASSUME NEW i \in Ids, Create(i) \/ Change(i) \/ Destroy(i)
      PROVE  Mirror!Next
  <2>1. Mirror!Create(i) \/ Mirror!Change(i) \/ Mirror!Destroy(i)
    BY <1>1, <1>a DEF Create, Change, Destroy, Mirror!Create, Mirror!Change,
       Mirror!Destroy, Mirror!Alive
  <2> QED
    BY <2>1 DEF Mirror!Next
<1>2. ASSUME NEW b \in NonEmpty(Fetched), NEW bad \in SUBSET b,
             InsertBatch(b, bad) \/ UpdateBatch(b, bad)
      PROVE  Mirror!Next
  <2>1. UNCHANGED <<state, born, ver, gone>> /\ Committed(b, bad)
    BY <1>2 DEF InsertBatch, Failures, UpdateBatch
  <2>2. Mirror!Absorb(b \ bad)
    BY <1>a, <2>1 DEF Committed, TypeOK, Histories, Mirror!Absorb
  <2>3. b \ bad \in SUBSET Ids
    BY <2>1 DEF Committed
  <2> QED
    BY <2>2, <2>3 DEF Mirror!Next
<1>3. CASE DeleteVanished
  <2>1. Mirror!Forget(vanished)
    BY <1>3, <1>a DEF DeleteVanished, Phased, Mirror!Forget
  <2>2. vanished \in SUBSET Ids
    BY <1>a DEF TypeOK
  <2> QED
    BY <2>1, <2>2 DEF Mirror!Next
<1>4. ASSUME NEW c \in NonEmpty(todo),
             FetchNew(c) \/ FetchUpdate(c) \/ FetchNewFails(c) \/ FetchUpdateFails(c)
      PROVE  UNCHANGED <<state, born, ver, gone, arc>>
  BY <1>4 DEF FetchNew, FetchUpdate, FetchNewFails, FetchUpdateFails
<1>5. CASE Enumerate \/ ReadState
  BY <1>5 DEF Missing, Enumerate, ReadState
<1>6. CASE ChangesAnswered \/ ChangesRefused \/ RefreshAll
  BY <1>6 DEF ChangesAnswered, ChangesRefused, RefreshAll, Refresh
<1>7. CASE AdvanceState \/ Abandon
  BY <1>7 DEF Advanced, AdvanceState, Abandon
<1>8. CASE UNCHANGED vars
  BY <1>8 DEF vars
<1> QED
  BY <1>1, <1>2, <1>3, <1>4, <1>5, <1>6, <1>7, <1>8
     DEF Next, Server, Step, Fault, NonEmpty

(* The importer implements the mirror that only moves forward.             *)
THEOREM MirrorImplemented == Spec => ImplementsMirror
<1>1. Init => Mirror!Init
  BY DEF Init, Mirror!Init
<1> QED
  BY <1>1, Invariance, MirrorStep, PTL DEF Spec, ImplementsMirror, Mirror!Spec
=============================================================================
