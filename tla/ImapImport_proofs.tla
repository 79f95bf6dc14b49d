-------------------------- MODULE ImapImport_proofs --------------------------
(***************************************************************************)
(* What holds of ImapImport for any folders, workers, batch size and       *)
(* number of changes and faults.                                           *)
(*                                                                         *)
(* Filed depends on the order in which the pool works.  An event says      *)
(* nothing of its folder; so while a folder waits, whatever is in the      *)
(* channels is its own (Own), and when it stops waiting, nothing is left   *)
(* in them (Quiet).  The latter takes a count: waiting is the number of    *)
(* jobs not taken, workers busy and "done" events not read (Awaited), and  *)
(* behind every message is a "done" that is still to be read, or a worker  *)
(* that has yet to send one (Followed).  A folder that is left early       *)
(* breaks this for those behind it, which are so to the last of the run    *)
(* (Straying).  NoDuplicates counts what was sent again against what comes *)
(* although it is in the transaction (Paid).                               *)
(***************************************************************************)
EXTENDS ImapImport, FiniteSetTheorems, SequenceTheorems, TLAPS

FetchJobs == [f : Folders, uids : SUBSET Uids]
ItemEvents == [type : {"item"}, m : Messages, flag : BOOLEAN]
DoneEvents == [type : {"done"}]
Events == ItemEvents \union DoneEvents

ServerTypes ==
  /\ changes \in 0..MaxChanges
  /\ uv \in [Folders -> Validities] /\ \A f \in Folders : uv[f] <= changes + 1
  /\ on \in [Folders -> SUBSET Uids]
ArchiveTypes ==
  /\ index \subseteq Rows /\ IsFiniteSet(index) /\ orphans \in 0..MaxOrphans
  /\ stored \in [Folders -> {0} \union Validities]
RunTypes ==
  /\ pc \in Phases /\ cur \in {0} \union Folders /\ (cur = 0 <=> pc = "idle")
  /\ listed \in [Folders -> {0} \union Validities]
  /\ valid \in {0} \union Validities /\ (pc \notin {"idle", "folder"} => valid # 0)
  /\ waiting \in 0..MaxUid /\ (pc = "receive" => waiting # 0)
  /\ present \subseteq Uids
  /\ draft.index \subseteq Rows /\ IsFiniteSet(draft.index)
  /\ draft.orphans \in 0..MaxOrphans
PoolTypes ==
  /\ jobs \in Seq(FetchJobs) /\ events \in Seq(Events)
  /\ job \in [Workers -> FetchJobs \union {Idle}]
  /\ left \in [Workers -> SUBSET Uids]
  /\ \A w \in Workers : left[w] \subseteq job[w].uids
FaultTypes == faults \in 0..MaxFaults

TypeInv == ServerTypes /\ ArchiveTypes /\ RunTypes /\ PoolTypes /\ FaultTypes

-----------------------------------------------------------------------------
(* The constants.                                                          *)
LEMMA Constants ==
  /\ NumFolders \in Nat \ {0} /\ 1 \in Folders /\ 0 \notin Folders /\ Folders \subseteq Nat
  /\ MaxUid \in Nat /\ Uids \subseteq Nat /\ MaxChanges \in Nat /\ 1 \in Validities
  /\ Validities \subseteq Nat \ {0}
  /\ MaxFaults \in Nat /\ MaxOrphans \in Nat /\ FetchBatch \in Nat \ {0}
  /\ IsFiniteSet(Uids) /\ Cardinality(Uids) = MaxUid
<1>1. IsFiniteSet(Uids) /\ Cardinality(Uids) = MaxUid
  <2>1. MaxUid \in Int /\ 1 \in Int
    BY FoldersAssumption
  <2>2. IsFiniteSet(1..MaxUid) /\ Cardinality(1..MaxUid) = IF 1 > MaxUid THEN 0 ELSE MaxUid - 1 + 1
    BY <2>1, FS_Interval
  <2> QED
    BY <2>2, FoldersAssumption DEF Uids
<1> QED
  BY <1>1, FoldersAssumption, PoolAssumption, BoundsAssumption DEF Folders, Uids, Validities

(* A set of UIDs is no larger than the largest UID.                        *)
LEMMA UidsCounted ==
  ASSUME NEW S \in SUBSET Uids
  PROVE  IsFiniteSet(S) /\ Cardinality(S) \in 0..MaxUid /\ 1..Cardinality(S) \subseteq Uids
<1>1. IsFiniteSet(S) /\ Cardinality(S) <= MaxUid
  BY Constants, FS_Subset
<1>2. Cardinality(S) \in Nat
  BY <1>1, FS_CardinalityType
<1> QED
  BY <1>1, <1>2, Constants DEF Uids

(* There are no more chunks than UIDs to fetch.                            *)
LEMMA ChunksCounted ==
  ASSUME NEW S \in SUBSET Uids
  PROVE  /\ NumChunks(S) \in 0..MaxUid
         /\ \A i \in 1..NumChunks(S) : Chunk(S, i) \in SUBSET Uids
<1> DEFINE c == Cardinality(S)
           b == FetchBatch
           q == (c + b - 1) \div b
<1>1. c \in 0..MaxUid /\ b \in Nat /\ b >= 1 /\ MaxUid \in Nat
  BY UidsCounted, Constants
<1> HIDE DEF c, b
<1>2. q \in Int /\ q >= 0 /\ q * b <= c + b - 1
  BY <1>1, Z3
<1> HIDE DEF q
<1>3. q <= c
  <2> SUFFICES ASSUME q >= c + 1 PROVE FALSE
    BY <1>1, <1>2
  <2>1. q * b >= (c + 1) * b
    BY <1>1, <1>2, Z3
  <2>2. (c + 1) * b = c * b + b
    BY <1>1, Z3
  <2>3. c * b >= c
    BY <1>1, Z3
  <2> QED
    BY <1>1, <1>2, <2>1, <2>2, <2>3
<1>4. q \in 0..MaxUid
  BY <1>1, <1>2, <1>3
<1> QED
  BY <1>4 DEF NumChunks, Chunk, q, c, b

(* The initial states, and what follows from TypeInv.                      *)
LEMMA InitTypes == Init => TypeInv
<1> SUFFICES ASSUME Init PROVE TypeInv
  OBVIOUS
<1>1. ServerTypes /\ FaultTypes
  BY Constants DEF Init, ServerTypes, FaultTypes
<1>2. ArchiveTypes
  BY Constants, FS_EmptySet DEF Init, ArchiveTypes, Empty
<1>3. RunTypes
  BY Constants, FS_EmptySet DEF Init, RunTypes, Empty, NoTx, Phases
<1>4. PoolTypes
  BY EmptySeq DEF Init, PoolTypes, NoJobs, NoUids, Idle
<1> QED
  BY <1>1, <1>2, <1>3, <1>4 DEF TypeInv

(* TypeInv is stronger than the types the runs check. *)
LEMMA TypesSuffice == TypeInv => TypeOK
BY DEF TypeInv, ServerTypes, ArchiveTypes, RunTypes, PoolTypes, FaultTypes, TypeOK

(* reconcile_folder returns, or the run ends.                              *)
LEMMA ForgottenTypes ==
  ASSUME Forgotten
  PROVE  /\ valid' = 0 /\ present' = {} /\ waiting' = 0
         /\ draft'.index = {} /\ IsFiniteSet(draft'.index) /\ draft'.orphans = 0
BY FS_EmptySet DEF Forgotten, NoTx

(* The types after the pool is shut down.                                  *)
LEMMA ShutdownTypes ==
  ASSUME Forgotten, Shutdown
  PROVE  RunTypes' /\ PoolTypes'
<1>1. RunTypes'
  BY ForgottenTypes, Constants DEF Shutdown, RunTypes, Phases, Empty
<1>2. PoolTypes'
  BY EmptySeq DEF Shutdown, PoolTypes, NoJobs, NoUids, Idle
<1> QED
  BY <1>1, <1>2

(* The types after a folder is left, for the next one or the end.          *)
LEMMA LeaveTypes ==
  ASSUME TypeInv, pc # "idle", NEW unread \in Seq(Events), Leave(unread)
  PROVE  RunTypes' /\ PoolTypes'
<1>1. CASE cur < NumFolders
  <2>1. cur \in Folders /\ cur + 1 \in Folders
    BY <1>1, Constants DEF TypeInv, RunTypes, Folders
  <2>2. RunTypes'
    BY <1>1, <2>1, ForgottenTypes, Constants DEF TypeInv, RunTypes, Leave, Phases
  <2>3. PoolTypes'
    BY <1>1 DEF TypeInv, PoolTypes, Leave
  <2> QED
    BY <2>2, <2>3
<1>2. CASE ~(cur < NumFolders)
  BY <1>2, ShutdownTypes DEF Leave
<1> QED
  BY <1>1, <1>2

(* insert_single_message keeps the rows' types.                            *)
LEMMA InsertedTypes ==
  ASSUME TypeInv, pc = "receive", NEW m \in Messages, NEW flag \in BOOLEAN
  PROVE  LET d == Inserted(m, flag) IN
         /\ d.index \subseteq Rows /\ IsFiniteSet(d.index) /\ d.orphans \in 0..MaxOrphans
<1> DEFINE old == {r \in draft.index : r.f = cur /\ r.v = Validity /\ r.u = m.u}
           row == [f |-> cur, v |-> Validity, u |-> m.u, m |-> m, flag |-> flag]
<1>1. row \in Rows
  BY Constants DEF TypeInv, RunTypes, Rows, Messages, Validity
<1>2. IsFiniteSet(old) /\ Cardinality(old) \in Nat
  BY FS_Subset, FS_CardinalityType DEF TypeInv, RunTypes
<1>3. IsFiniteSet((draft.index \ old) \union {row})
  BY FS_Difference, FS_AddElement DEF TypeInv, RunTypes
<1>4. Counted(draft.orphans + Cardinality(old)) \in 0..MaxOrphans
  BY <1>2, Constants DEF TypeInv, RunTypes, Counted
<1> QED
  BY <1>1, <1>3, <1>4 DEF Inserted, TypeInv, RunTypes

(* What a step leaves alone keeps its types.                               *)
LEMMA SameTypes ==
  /\ ServerTypes /\ UNCHANGED serverVars => ServerTypes'
  /\ ArchiveTypes /\ UNCHANGED archiveVars => ArchiveTypes'
  /\ RunTypes /\ UNCHANGED runVars => RunTypes'
  /\ PoolTypes /\ UNCHANGED poolVars => PoolTypes'
  /\ FaultTypes /\ UNCHANGED faults => FaultTypes'
<1>1. ServerTypes /\ UNCHANGED serverVars => ServerTypes'
  BY DEF serverVars, ServerTypes
<1>2. ArchiveTypes /\ UNCHANGED archiveVars => ArchiveTypes'
  BY DEF archiveVars, ArchiveTypes
<1>3. RunTypes /\ UNCHANGED runVars => RunTypes'
  BY DEF runVars, RunTypes
<1>4. PoolTypes /\ UNCHANGED poolVars => PoolTypes'
  BY DEF poolVars, PoolTypes
<1>5. FaultTypes /\ UNCHANGED faults => FaultTypes'
  BY DEF FaultTypes
<1> QED
  BY <1>1, <1>2, <1>3, <1>4, <1>5

(* Whatever the server does.                                               *)
LEMMA ServerKeepsTypes ==
  ASSUME TypeInv, Server
  PROVE  TypeInv'
<1>1. ASSUME NEW f \in Folders, Arrive(f) PROVE TypeInv'
  <2>1. ServerTypes'
    BY <1>1, Constants DEF Arrive, Changing, TypeInv, ServerTypes, Validities
  <2> QED
    BY <1>1, <2>1, SameTypes DEF Arrive, TypeInv
<1>2. ASSUME NEW f \in Folders, NEW u \in on[f], Expunge(f, u) PROVE TypeInv'
  <2>1. ServerTypes'
    BY <1>2, Constants DEF Expunge, Changing, TypeInv, ServerTypes, Validities
  <2> QED
    BY <1>2, <2>1, SameTypes DEF Expunge, TypeInv
<1>3. ASSUME NEW f \in Folders, NEW u \in on[f], Flag(f, u) PROVE TypeInv'
  <2>1. ServerTypes'
    BY <1>3, Constants DEF Flag, Changing, TypeInv, ServerTypes, Validities
  <2> QED
    BY <1>3, <2>1, SameTypes DEF Flag, TypeInv
<1>4. ASSUME NEW f \in Folders, Rebuild(f) PROVE TypeInv'
  <2>1. ServerTypes'
    <3>1. 1..Cardinality(on[f]) \subseteq Uids
      BY UidsCounted DEF TypeInv, ServerTypes
    <3> QED
      BY <1>4, <3>1, Constants DEF Rebuild, Changing, TypeInv, ServerTypes, Validities
  <2>2. PoolTypes'
    BY <1>4 DEF Rebuild, TypeInv, PoolTypes
  <2> QED
    BY <1>4, <2>1, <2>2, SameTypes DEF Rebuild, TypeInv
<1> QED
  BY <1>1, <1>2, <1>3, <1>4 DEF Server

(* Whatever the control connection does.                                   *)
LEMMA ControlKeepsTypes ==
  ASSUME TypeInv, Control \/ FolderFails \/ ItemFails \/ Abort
  PROVE  TypeInv'
<1>1. CASE Start
  <2>1. RunTypes'
    BY <1>1, Constants DEF Start, TypeInv, RunTypes, ServerTypes, Phases, Empty
  <2> QED
    BY <1>1, <2>1, SameTypes DEF Start, TypeInv
<1>2. CASE SkipEmpty
  <2>1. events \in Seq(Events) /\ cur \in Folders /\ pc # "idle"
    BY <1>2 DEF SkipEmpty, TypeInv, PoolTypes, RunTypes
  <2>2. RunTypes' /\ PoolTypes'
    BY <1>2, <2>1, LeaveTypes DEF SkipEmpty
  <2>3. ArchiveTypes'
    BY <1>2, <2>1 DEF SkipEmpty, TypeInv, ArchiveTypes, RunTypes
  <2> QED
    BY <1>2, <2>2, <2>3, SameTypes DEF SkipEmpty, TypeInv
<1>3. CASE Select
  <2>1. cur \in Folders /\ uv[cur] \in Validities
    BY <1>3 DEF Select, TypeInv, RunTypes, ServerTypes
  <2>2. RunTypes'
    BY <1>3, <2>1, Constants DEF Select, TypeInv, RunTypes, Phases
  <2>3. index' \subseteq index
    BY <1>3 DEF Select, Kept
  <2>4. ArchiveTypes'
    BY <1>3, <2>3, FS_Subset DEF Select, TypeInv, ArchiveTypes
  <2> QED
    BY <1>3, <2>2, <2>4, SameTypes DEF Select, TypeInv
<1>4. CASE Enumerate
  <2> DEFINE d == DiffUids(ArchivedUids(cur, valid), on[cur])
             n == NumChunks(d.new)
             kept == index \ {r \in RowsOf(cur) : r.v = valid /\ r.u \in d.vanished}
             chunks == [i \in 1..n |-> [f |-> cur, uids |-> Chunk(d.new, i)]]
  <2>1. cur \in Folders /\ on[cur] \subseteq Uids
    BY <1>4 DEF Enumerate, TypeInv, RunTypes, ServerTypes
  <2>2. d.new \subseteq Uids /\ d.present \subseteq Uids
    BY <2>1 DEF DiffUids
  <2>3. n \in 0..MaxUid /\ n \in Nat /\ \A i \in 1..n : Chunk(d.new, i) \in SUBSET Uids
    BY <2>2, ChunksCounted, Constants
  <2>4. kept \subseteq Rows /\ IsFiniteSet(kept)
    BY FS_Subset DEF TypeInv, ArchiveTypes
  <2>5. chunks \in Seq(FetchJobs)
    <3>1. \A i \in 1..n : [f |-> cur, uids |-> Chunk(d.new, i)] \in FetchJobs
      BY <2>1, <2>3 DEF FetchJobs
    <3> QED
      BY <3>1, <2>3, IsASeq
  <2> HIDE DEF n, kept, chunks
  <2>6. /\ present' = d.present /\ index' = kept /\ waiting' = n /\ jobs' = jobs \o chunks
        /\ pc' = IF n = 0 THEN "flags" ELSE "receive"
        /\ draft' = IF n = 0 THEN NoTx ELSE [index |-> kept, orphans |-> orphans]
        /\ UNCHANGED <<serverVars, orphans, stored, cur, listed, valid, events, job,
                       at, left, faults>>
    BY <1>4 DEF Enumerate, Outstanding, n, kept, chunks
  <2>7. draft'.index \subseteq Rows /\ IsFiniteSet(draft'.index) /\ draft'.orphans \in 0..MaxOrphans
    BY <2>4, <2>6, FS_EmptySet, Constants DEF NoTx, TypeInv, ArchiveTypes
  <2>8. RunTypes'
    BY <1>4, <2>2, <2>3, <2>6, <2>7 DEF Enumerate, TypeInv, RunTypes, Phases
  <2>9. ArchiveTypes'
    BY <2>4, <2>6 DEF TypeInv, ArchiveTypes
  <2>10. PoolTypes'
    BY <2>5, <2>6, ConcatProperties DEF TypeInv, PoolTypes
  <2> QED
    BY <2>6, <2>8, <2>9, <2>10, SameTypes DEF TypeInv
<1>5. CASE ReceiveItem
  <2> DEFINE e == Head(events)
  <2>1. e \in ItemEvents /\ Tail(events) \in Seq(Events)
    <3>1. e \in Events /\ Tail(events) \in Seq(Events)
      BY <1>5, HeadTailProperties DEF ReceiveItem, TypeInv, PoolTypes
    <3> QED
      BY <1>5, <3>1 DEF ReceiveItem, Events, ItemEvents, DoneEvents
  <2>2. LET i == Inserted(e.m, e.flag) IN
        i.index \subseteq Rows /\ IsFiniteSet(i.index) /\ i.orphans \in 0..MaxOrphans
    BY <1>5, <2>1, InsertedTypes DEF ReceiveItem, ItemEvents
  <2>3. RunTypes'
    BY <1>5, <2>2 DEF ReceiveItem, TypeInv, RunTypes
  <2>4. PoolTypes'
    BY <1>5, <2>1 DEF ReceiveItem, TypeInv, PoolTypes
  <2> QED
    BY <1>5, <2>3, <2>4, SameTypes DEF ReceiveItem, TypeInv
<1>6. CASE ReceiveDone
  <2>1. Tail(events) \in Seq(Events)
    BY <1>6, HeadTailProperties DEF ReceiveDone, TypeInv, PoolTypes
  <2>2. waiting - 1 \in 0..MaxUid
    BY <1>6, Constants DEF ReceiveDone, TypeInv, RunTypes
  <2>3. draft'.index \subseteq Rows /\ IsFiniteSet(draft'.index) /\ draft'.orphans \in 0..MaxOrphans
    <3>1. draft' = NoTx \/ draft' = draft
      BY <1>6 DEF ReceiveDone
    <3>2. NoTx.index = {} /\ NoTx.orphans = 0
      BY DEF NoTx
    <3> QED
      BY <3>1, <3>2, FS_EmptySet, Constants DEF TypeInv, RunTypes
  <2>4. RunTypes'
    BY <1>6, <2>2, <2>3 DEF ReceiveDone, TypeInv, RunTypes, Phases
  <2>5. ArchiveTypes'
    BY <1>6 DEF ReceiveDone, TypeInv, RunTypes, ArchiveTypes
  <2>6. PoolTypes'
    BY <1>6, <2>1 DEF ReceiveDone, TypeInv, PoolTypes
  <2> QED
    BY <1>6, <2>4, <2>5, <2>6, SameTypes DEF ReceiveDone, TypeInv
<1>7. CASE RefreshFlags
  <2> DEFINE fresh(r) == IF r.f = cur /\ r.v = valid /\ r.u \in present \intersect on[cur]
                           THEN [r EXCEPT !.flag = <<cur, r.u>> \in seen] ELSE r
  <2>1. index' = {fresh(r) : r \in index}
    BY <1>7 DEF RefreshFlags
  <2>2. IsFiniteSet(index')
    <3> DEFINE g == [r \in index |-> fresh(r)]
    <3> HIDE DEF fresh
    <3>1. g \in Surjection(index, index')
      BY <2>1 DEF Surjection
    <3> QED
      BY <3>1, FS_Surjection DEF TypeInv, ArchiveTypes
  <2>3. \A r \in Rows : fresh(r) \in Rows
    <3>1. \A r \in Rows, b \in BOOLEAN : [r EXCEPT !.flag = b] \in Rows
      BY DEF Rows
    <3> TAKE r \in Rows
    <3>2. (<<cur, r.u>> \in seen) \in BOOLEAN
      OBVIOUS
    <3> QED
      BY <3>1, <3>2, Zenon
  <2>4. ArchiveTypes'
    BY <1>7, <2>1, <2>2, <2>3 DEF RefreshFlags, TypeInv, ArchiveTypes
  <2>5. RunTypes'
    BY <1>7 DEF RefreshFlags, TypeInv, RunTypes, Phases
  <2> QED
    BY <1>7, <2>4, <2>5, SameTypes DEF RefreshFlags, TypeInv
<1>8. CASE Store
  <2>1. events \in Seq(Events) /\ cur \in Folders /\ pc # "idle" /\ valid \in Validities
    BY <1>8 DEF Store, TypeInv, PoolTypes, RunTypes
  <2>2. RunTypes' /\ PoolTypes'
    BY <1>8, <2>1, LeaveTypes DEF Store
  <2>3. ArchiveTypes'
    BY <1>8, <2>1 DEF Store, TypeInv, ArchiveTypes
  <2> QED
    BY <1>8, <2>2, <2>3, SameTypes DEF Store, TypeInv
<1>9. CASE FolderFails
  <2>1. events \in Seq(Events) /\ pc # "idle" /\ FaultTypes'
    BY <1>9, Constants DEF FolderFails, Fault, TypeInv, PoolTypes, FaultTypes
  <2>2. RunTypes' /\ PoolTypes'
    BY <1>9, <2>1, LeaveTypes DEF FolderFails
  <2> QED
    BY <1>9, <2>1, <2>2, SameTypes DEF FolderFails, TypeInv
<1>10. CASE ItemFails
  <2>1. Tail(events) \in Seq(Events) /\ pc # "idle" /\ FaultTypes'
    BY <1>10, HeadTailProperties, Constants
       DEF ItemFails, Fault, TypeInv, PoolTypes, FaultTypes
  <2>2. RunTypes' /\ PoolTypes'
    BY <1>10, <2>1, LeaveTypes DEF ItemFails
  <2> QED
    BY <1>10, <2>1, <2>2, SameTypes DEF ItemFails, TypeInv
<1>11. CASE Abort
  <2>1. FaultTypes'
    BY <1>11, Constants DEF Abort, Fault, TypeInv, FaultTypes
  <2> QED
    BY <1>11, <2>1, ShutdownTypes, SameTypes DEF Abort, TypeInv
<1> QED
  BY <1>1, <1>2, <1>3, <1>4, <1>5, <1>6, <1>7, <1>8, <1>9, <1>10, <1>11 DEF Control

(* Whatever a worker does.                                                 *)
LEMMA ChunkDoneTypes ==
  ASSUME TypeInv, NEW w \in Workers, ChunkDone(w)
  PROVE  ArchiveTypes' /\ RunTypes' /\ PoolTypes'
<1>1. events' \in Seq(Events)
  <2>1. [type |-> "done"] \in Events
    BY DEF Events, DoneEvents
  <2> QED
    BY <2>1, AppendProperties DEF ChunkDone, TypeInv, PoolTypes
<1>2. PoolTypes'
  BY <1>1 DEF ChunkDone, TypeInv, PoolTypes, Idle
<1> QED
  BY <1>2, SameTypes DEF ChunkDone, TypeInv

(* A worker keeps the types.                                               *)
LEMMA WorkersKeepTypes ==
  ASSUME TypeInv, NEW w \in Workers, WorkerStep(w) \/ GiveUp(w) \/ FetchAgain(w)
  PROVE  TypeInv'
<1>1. CASE TakeJob(w)
  <2>1. Head(jobs) \in FetchJobs /\ Tail(jobs) \in Seq(FetchJobs)
    BY <1>1, HeadTailProperties DEF TakeJob, TypeInv, PoolTypes
  <2>2. PoolTypes'
    BY <1>1, <2>1 DEF TakeJob, TypeInv, PoolTypes, FetchJobs
  <2> QED
    BY <1>1, <2>2, SameTypes DEF TakeJob, TypeInv
<1>2. CASE Reconnect(w)
  <2>1. job[w].uids \subseteq Uids
    BY <1>2 DEF Reconnect, TypeInv, PoolTypes, FetchJobs
  <2>2. PoolTypes'
    BY <1>2, <2>1 DEF Reconnect, TypeInv, PoolTypes
  <2> QED
    BY <1>2, <2>2, SameTypes DEF Reconnect, TypeInv
<1>3. CASE Fetched(w)
  BY <1>3, ChunkDoneTypes, SameTypes DEF Fetched, ChunkDone, TypeInv
<1>4. ASSUME NEW u \in left[w], Stream(w, u) PROVE TypeInv'
  <2> DEFINE f == job[w].f
             e == [type |-> "item", m |-> [f |-> f, v |-> uv[f], u |-> u],
                   flag |-> <<f, u>> \in seen]
  <2>1. job[w] \in FetchJobs /\ f \in Folders /\ u \in Uids
    BY <1>4 DEF Stream, TypeInv, PoolTypes, FetchJobs
  <2>2. e \in Events
    <3>1. [f |-> f, v |-> uv[f], u |-> u] \in Messages
      BY <2>1 DEF Messages, TypeInv, ServerTypes
    <3>2. (<<f, u>> \in seen) \in BOOLEAN
      OBVIOUS
    <3>3. \A m \in Messages, b \in BOOLEAN : [type |-> "item", m |-> m, flag |-> b] \in Events
      BY DEF Events, ItemEvents
    <3> QED
      BY <3>1, <3>2, <3>3, Zenon
  <2>3. events' \in Seq(Events)
    <3>1. events' = Append(events, e) \/ events' = events
      BY <1>4, Zenon DEF Stream
    <3>2. events \in Seq(Events)
      BY DEF TypeInv, PoolTypes
    <3> HIDE DEF e
    <3>3. Append(events, e) \in Seq(Events)
      BY <2>2, <3>2
    <3> QED
      BY <3>1, <3>2, <3>3
  <2>4. PoolTypes'
    BY <1>4, <2>3 DEF Stream, TypeInv, PoolTypes
  <2> QED
    BY <1>4, <2>4, SameTypes DEF Stream, TypeInv
<1>5. CASE GiveUp(w)
  <2>1. FaultTypes'
    BY <1>5, Constants DEF GiveUp, Fault, TypeInv, FaultTypes
  <2> QED
    BY <1>5, <2>1, ChunkDoneTypes, SameTypes DEF GiveUp, ChunkDone, TypeInv
<1>6. CASE FetchAgain(w)
  <2>1. FaultTypes'
    BY <1>6, Constants DEF FetchAgain, Fault, TypeInv, FaultTypes
  <2>2. job[w].uids \subseteq Uids
    BY <1>6 DEF FetchAgain, TypeInv, PoolTypes, FetchJobs
  <2>3. PoolTypes'
    BY <1>6, <2>2 DEF FetchAgain, TypeInv, PoolTypes
  <2> QED
    BY <1>6, <2>1, <2>3, SameTypes DEF FetchAgain, TypeInv
<1> QED
  BY <1>1, <1>2, <1>3, <1>4, <1>5, <1>6 DEF WorkerStep

(* The types where nothing happens.                                        *)
LEMMA StutterTypes == TypeInv /\ UNCHANGED vars => TypeInv'
BY SameTypes DEF vars, serverVars, archiveVars, runVars, poolVars, TypeInv

(* Every step keeps the types.                                             *)
LEMMA TypesKept == TypeInv /\ [Next]_vars => TypeInv'
BY ServerKeepsTypes, ControlKeepsTypes, WorkersKeepTypes, StutterTypes DEF Next

(* The types hold in every state.                                          *)
LEMMA TypesAlways == Spec => []TypeInv
BY InitTypes, TypesKept, PTL DEF Spec

(* The importer's tables, locals and channels keep the types the code      *)
(* gives them: coordinator.rs and pool.rs, for any folders and workers.    *)
THEOREM TypeCorrect == Spec => []TypeOK
BY TypesAlways, TypesSuffice, PTL

-----------------------------------------------------------------------------
(* Filed: the pool's channels hold nothing but the waiting folder's work.  *)
Busy == {w \in Workers : job[w] # Idle}
DoneAt == {i \in 1..Len(events) : events[i].type = "done"}
KeyOf(r) == <<r.f, r.v, r.u>>

Quiet == pc # "receive" => jobs = <<>> /\ events = <<>> /\ Busy = {}
Awaited == pc = "receive" => waiting = Len(jobs) + Cardinality(Busy) + Cardinality(DoneAt)
OwnItem(m) == m.f = cur /\ valid <= m.v /\ m.v <= uv[cur]
Own ==
  pc = "receive" =>
    /\ \A i \in 1..Len(jobs) : jobs[i].f = cur
    /\ \A w \in Busy : job[w].f = cur
    /\ \A i \in 1..Len(events) : events[i].type = "item" => OwnItem(events[i].m)
Followed ==
  pc = "receive" =>
    \A i \in 1..Len(events) :
      events[i].type = "item" => Busy # {} \/ \E j \in DoneAt : i < j
Current == pc \notin {"idle", "folder"} => valid <= uv[cur]
PoolInv == Quiet /\ Awaited /\ Own /\ Followed /\ Current

(* A row holds the message of its folder and UID, of its UIDVALIDITY or a  *)
(* later one.                                                              *)
FiledRow(r) == r.m.f = r.f /\ r.m.u = r.u /\ r.v <= r.m.v /\ r.m.v <= uv[r.f]
RowsFiled == \A r \in index \union draft.index : r.f \in strays \/ FiledRow(r)

(* What a folder left behind reaches the folders after it, to the last.    *)
Straying == strays \subseteq Folders /\ \A f \in strays, g \in Folders : g > f => g \in strays

FiledInv == Straying /\ (cur \in strays \/ PoolInv) /\ RowsFiled

(* Sequences of events.                                                    *)
LEMMA EventTypes ==
  ASSUME NEW e \in Events
  PROVE  /\ e.type = "item" \/ e.type = "done"
         /\ e.type = "item" => e.m \in Messages
BY DEF Events, ItemEvents, DoneEvents

(* The chunks reported as done can be counted.                             *)
LEMMA DonesCounted ==
  ASSUME events \in Seq(Events)
  PROVE  IsFiniteSet(DoneAt) /\ Cardinality(DoneAt) \in Nat
<1>1. Len(events) \in Int /\ 1 \in Int
  BY LenProperties
<1>2. IsFiniteSet(1..Len(events))
  BY <1>1, FS_Interval
<1>3. IsFiniteSet(DoneAt)
  BY <1>2, FS_Subset DEF DoneAt
<1> QED
  BY <1>3, FS_CardinalityType

(* The workers with a chunk can be counted.                                *)
LEMMA BusyCounted == IsFiniteSet(Busy) /\ Cardinality(Busy) \in Nat
<1>1. IsFiniteSet(Busy)
  BY PoolAssumption, FS_Subset DEF Busy
<1> QED
  BY <1>1, FS_CardinalityType

(* The first event is read: the others move up.                            *)
LEMMA ReadFirst ==
  ASSUME events \in Seq(Events), events # <<>>, events' = Tail(events)
  PROVE  /\ Len(events') = Len(events) - 1 /\ Len(events) \in Nat \ {0}
         /\ \A i \in 1..Len(events') : events'[i] = events[i + 1]
         /\ events[1] = Head(events)
         /\ IsFiniteSet(DoneAt')
         /\ Cardinality(DoneAt') = IF Head(events).type = "done"
                                     THEN Cardinality(DoneAt) - 1 ELSE Cardinality(DoneAt)
<1>1. /\ Len(events') = Len(events) - 1 /\ Len(events) \in Nat \ {0}
      /\ \A i \in 1..Len(events') : events'[i] = events[i + 1]
      /\ events[1] = Head(events)
  BY HeadTailProperties, EmptySeq
<1> DEFINE later == DoneAt \ {1}
           up == [i \in later |-> i - 1]
<1>2. IsFiniteSet(later)
  BY DonesCounted, FS_Subset
<1>3. Cardinality(later) = IF Head(events).type = "done"
                             THEN Cardinality(DoneAt) - 1 ELSE Cardinality(DoneAt)
  <2>1. 1 \in DoneAt <=> Head(events).type = "done"
    BY <1>1 DEF DoneAt
  <2> QED
    BY <2>1, DonesCounted, FS_RemoveElement
<1>4. up \in Bijection(later, DoneAt')
  <2>1. \A i \in later : i \in 2..Len(events) /\ i - 1 \in DoneAt'
    BY <1>1 DEF DoneAt
  <2>2. \A k \in DoneAt' : k + 1 \in later
    BY <1>1 DEF DoneAt
  <2>3. \A k \in DoneAt' : k \in Nat
    BY <1>1 DEF DoneAt
  <2>4. up \in [later -> DoneAt']
    BY <2>1
  <2>5. \A k \in DoneAt' : \E i \in later : up[i] = k
    BY <2>2, <2>3
  <2>6. \A i, j \in later : up[i] = up[j] => i = j
    BY <2>1
  <2> QED
    BY <2>4, <2>5, <2>6 DEF Bijection, Injection, Surjection, IsInjective
<1>5. IsFiniteSet(DoneAt') /\ Cardinality(later) = Cardinality(DoneAt')
  BY <1>2, <1>4, FS_Bijection DEF ExistsBijection
<1> QED
  BY <1>1, <1>3, <1>5

(* Nothing is in the channels, and no folder waits.                        *)
LEMMA QuietSuffices ==
  ASSUME pc' # "receive", jobs' = <<>>, events' = <<>>, Busy' = {}, Current'
  PROVE  PoolInv'
BY DEF PoolInv, Quiet, Awaited, Own, Followed

(* The server's steps, and the workers'.                                   *)
LEMMA ServerKeepsPool ==
  ASSUME TypeInv, PoolInv, Server
  PROVE  PoolInv'
<1>1. /\ UNCHANGED <<runVars, jobs, events, job>>
      /\ \A f \in Folders : uv[f] \in Nat /\ uv'[f] \in Nat /\ uv[f] <= uv'[f]
  <2>1. \A f \in Folders : uv[f] \in Nat
    BY DEF TypeInv, ServerTypes, Validities
  <2>2. CASE \E f \in Folders : Rebuild(f)
    BY <2>1, <2>2 DEF Rebuild, TypeInv, ServerTypes
  <2>3. CASE ~\E f \in Folders : Rebuild(f)
    <3>1. UNCHANGED <<uv, runVars, jobs, events, job>>
      BY <2>3 DEF Server, Arrive, Expunge, Flag, poolVars
    <3> QED
      BY <2>1, <3>1
  <2> QED
    BY <2>2, <2>3
<1>2. pc' = pc /\ cur' = cur /\ valid' = valid /\ waiting' = waiting
  BY <1>1 DEF runVars
<1>3. Busy' = Busy /\ DoneAt' = DoneAt
  BY <1>1 DEF Busy, DoneAt
<1>4. pc \notin {"idle", "folder"} => cur \in Folders
  BY DEF TypeInv, RunTypes
<1>5. Own' /\ Current'
  <2>1. pc \notin {"idle", "folder"} => valid \in Nat
    BY DEF TypeInv, RunTypes, Validities
  <2>2. \A i \in 1..Len(events) : events[i].type = "item" => events[i].m.v \in Nat
    BY ElementOfSeq, EventTypes DEF TypeInv, PoolTypes, Messages, Validities
  <2> QED
    BY <1>1, <1>2, <1>3, <1>4, <2>1, <2>2 DEF PoolInv, Own, OwnItem, Current
<1>6. Quiet' /\ Awaited' /\ Followed'
  BY <1>1, <1>2, <1>3 DEF PoolInv, Quiet, Awaited, Followed
<1> QED
  BY <1>5, <1>6 DEF PoolInv

(* A worker reports its chunk: it is no longer busy, and one report more   *)
(* is awaited.                                                             *)
LEMMA ChunkDoneKeepsPool ==
  ASSUME TypeInv, PoolInv, NEW w \in Workers, job[w] # Idle, ChunkDone(w), UNCHANGED serverVars
  PROVE  PoolInv'
<1> DEFINE done == [type |-> "done"]
           n == Len(events)
<1>1. w \in Busy /\ pc = "receive"
  BY DEF Busy, PoolInv, Quiet
<1>2. UNCHANGED <<pc, cur, valid, waiting, jobs, uv>> /\ events' = Append(events, done)
  BY DEF ChunkDone, runVars, serverVars
<1>3. Busy' = Busy \ {w}
  BY DEF Busy, ChunkDone, TypeInv, PoolTypes
<1>4. /\ n \in Nat /\ Len(events') = n + 1
      /\ \A i \in 1..n : events'[i] = events[i]
      /\ events'[n + 1] = done
  <2>1. events \in Seq(Events) /\ done \in Events
    BY DEF TypeInv, PoolTypes, Events, DoneEvents
  <2> QED
    BY <1>2, <2>1, AppendProperties, LenProperties
<1>5. DoneAt' = DoneAt \union {n + 1} /\ n + 1 \notin DoneAt
  BY <1>4 DEF DoneAt
<1>6. /\ Cardinality(Busy') = Cardinality(Busy) - 1
      /\ Cardinality(DoneAt') = Cardinality(DoneAt) + 1
  BY <1>1, <1>3, <1>5, BusyCounted, DonesCounted, FS_RemoveElement, FS_AddElement
     DEF TypeInv, PoolTypes
<1>7. Awaited'
  <2>1. Len(jobs) \in Nat
    BY LenProperties DEF TypeInv, PoolTypes
  <2> QED
    BY <1>1, <1>2, <1>6, <2>1, BusyCounted, DonesCounted DEF PoolInv, Awaited, TypeInv, PoolTypes
<1>8. Own'
  BY <1>1, <1>2, <1>3, <1>4 DEF PoolInv, Own, OwnItem, ChunkDone, TypeInv, PoolTypes, Busy
<1>9. Followed'
  BY <1>4, <1>5 DEF Followed
<1>10. Quiet' /\ Current'
  BY <1>1, <1>2 DEF PoolInv, Quiet, Current
<1> QED
  BY <1>7, <1>8, <1>9, <1>10 DEF PoolInv

(* No step of a worker loses or adds a chunk.                              *)
LEMMA WorkersKeepPool ==
  ASSUME TypeInv, PoolInv, NEW w \in Workers, WorkerStep(w) \/ GiveUp(w) \/ FetchAgain(w)
  PROVE  PoolInv'
<1>1. UNCHANGED <<serverVars, runVars>>
  BY DEF WorkerStep, TakeJob, Reconnect, Fetched, Stream, GiveUp, FetchAgain, ChunkDone
<1>2. UNCHANGED <<pc, cur, valid, waiting, uv>>
  BY <1>1 DEF runVars, serverVars
<1>3. Current'
  BY <1>2 DEF PoolInv, Current
<1>4. CASE TakeJob(w)
  <2>1. /\ pc = "receive" /\ Len(jobs) \in Nat \ {0}
        /\ Len(jobs') = Len(jobs) - 1
        /\ \A i \in 1..Len(jobs') : jobs'[i] = jobs[i + 1]
        /\ Head(jobs) = jobs[1] /\ Head(jobs) \in FetchJobs
    BY <1>4, HeadTailProperties, EmptySeq, LenProperties
       DEF TakeJob, PoolInv, Quiet, TypeInv, PoolTypes
  <2>2. Head(jobs) # Idle /\ Head(jobs).f = cur
    BY <2>1, Constants DEF PoolInv, Own, FetchJobs, Idle
  <2>3. Busy' = Busy \union {w} /\ w \notin Busy
    BY <1>4, <2>2 DEF Busy, TakeJob, TypeInv, PoolTypes
  <2>4. Cardinality(Busy') = Cardinality(Busy) + 1
    BY <2>3, BusyCounted, FS_AddElement
  <2>5. UNCHANGED events /\ DoneAt' = DoneAt
    BY <1>4 DEF TakeJob, DoneAt
  <2>6. Awaited'
    BY <1>2, <2>1, <2>4, <2>5, BusyCounted, DonesCounted
       DEF PoolInv, Awaited, TypeInv, PoolTypes
  <2>7. Own'
    BY <1>2, <1>4, <2>1, <2>2, <2>3, <2>5
       DEF PoolInv, Own, OwnItem, TakeJob, TypeInv, PoolTypes
  <2>8. Followed'
    BY <2>3, <2>5 DEF Followed
  <2> QED
    BY <1>2, <1>3, <2>1, <2>6, <2>7, <2>8 DEF PoolInv, Quiet
<1>5. CASE Reconnect(w) \/ FetchAgain(w)
  <2>1. UNCHANGED <<jobs, events, job>>
    BY <1>5 DEF Reconnect, FetchAgain
  <2>2. Busy' = Busy /\ DoneAt' = DoneAt
    BY <2>1 DEF Busy, DoneAt
  <2> QED
    BY <1>2, <1>3, <2>1, <2>2 DEF PoolInv, Quiet, Awaited, Own, OwnItem, Followed
<1>6. CASE Fetched(w) \/ GiveUp(w)
  BY <1>1, <1>6, ChunkDoneKeepsPool DEF Fetched, GiveUp
<1>7. ASSUME NEW u \in left[w], Stream(w, u) PROVE PoolInv'
  <2> DEFINE e == [type |-> "item", m |-> [f |-> job[w].f, v |-> uv[job[w].f], u |-> u],
                   flag |-> <<job[w].f, u>> \in seen]
             n == Len(events)
  <2>1. UNCHANGED <<jobs, job>> /\ Busy' = Busy
    BY <1>7 DEF Stream, Busy
  <2>2. w \in Busy /\ pc = "receive" /\ job[w].f = cur
    BY <1>7 DEF Stream, Busy, PoolInv, Quiet, Own
  <2>3. events' = events \/ events' = Append(events, e)
    BY <1>7, Zenon DEF Stream
  <2>4. e.type = "item" /\ OwnItem(e.m)
    BY <2>2 DEF PoolInv, Current, OwnItem, TypeInv, RunTypes, ServerTypes, Validities
  <2>5. n \in Nat
    BY LenProperties DEF TypeInv, PoolTypes
  <2>6. CASE events' = events
    <3>1. DoneAt' = DoneAt
      BY <2>6 DEF DoneAt
    <3> QED
      BY <1>2, <1>3, <2>1, <2>6, <3>1 DEF PoolInv, Quiet, Awaited, Own, OwnItem, Followed
  <2>7. CASE events' = Append(events, e)
    <3>1. events' \in Seq(Events)
      BY <1>7, WorkersKeepTypes DEF WorkerStep, TypeInv, PoolTypes
    <3> HIDE DEF e
    <3>2. Len(events') = n + 1 /\ events'[n + 1] = e /\ \A i \in 1..n : events'[i] = events[i]
      BY <2>7, <2>5 DEF TypeInv, PoolTypes
    <3>3. DoneAt' = DoneAt
      BY <2>4, <2>5, <3>2 DEF DoneAt
    <3>4. Own'
      BY <1>2, <2>1, <2>4, <2>5, <3>2 DEF PoolInv, Own, OwnItem
    <3>5. Quiet' /\ Awaited' /\ Followed'
      BY <1>2, <2>1, <2>2, <3>3 DEF PoolInv, Quiet, Awaited, Followed
    <3> QED
      BY <1>3, <3>4, <3>5 DEF PoolInv
  <2> QED
    BY <2>3, <2>6, <2>7
<1> QED
  BY <1>4, <1>5, <1>6, <1>7 DEF WorkerStep

(* The folder is left with nothing on the way, or the pool is shut down.   *)
LEMMA LeaveKeepsPool ==
  ASSUME TypeInv, PoolInv, Leave(events), pc # "receive"
  PROVE  PoolInv'
<1>1. jobs = <<>> /\ events = <<>> /\ Busy = {}
  BY DEF PoolInv, Quiet
<1>2. pc' \in {"idle", "folder"} /\ jobs' = <<>> /\ events' = <<>>
  BY <1>1 DEF Leave, Shutdown
<1>3. Busy' = {}
  BY <1>1 DEF Leave, Shutdown, Busy, NoJobs
<1> QED
  BY <1>2, <1>3, QuietSuffices DEF Current

(* After a shutdown nothing is awaited.                                    *)
LEMMA ShutdownKeepsPool ==
  ASSUME Shutdown
  PROVE  PoolInv'
<1>1. pc' = "idle" /\ jobs' = <<>> /\ events' = <<>> /\ Busy' = {}
  BY DEF Shutdown, Busy, NoJobs
<1> QED
  BY <1>1, QuietSuffices DEF Current

(* The control connection's steps.                                         *)
LEMMA EnumerateKeepsPool ==
  ASSUME TypeInv, PoolInv, Enumerate
  PROVE  PoolInv'
<1> DEFINE d == DiffUids(ArchivedUids(cur, valid), on[cur])
           n == NumChunks(d.new)
           chunks == [i \in 1..n |-> [f |-> cur, uids |-> Chunk(d.new, i)]]
<1>1. /\ jobs = <<>> /\ events = <<>> /\ Busy = {}
  BY DEF PoolInv, Quiet, Enumerate
<1>2. n \in Nat
  <2>1. d.new \subseteq Uids
    BY DEF DiffUids, Enumerate, TypeInv, RunTypes, ServerTypes
  <2> QED
    BY <2>1, ChunksCounted, Constants
<1>3. Len(chunks) = n /\ \A i \in 1..n : chunks[i].f = cur
  BY <1>2
<1> HIDE DEF n
<1>4. /\ waiting' = n /\ jobs' = jobs \o chunks
      /\ pc' = IF n = 0 THEN "flags" ELSE "receive"
      /\ UNCHANGED <<serverVars, cur, valid, events, job>>
  BY Zenon DEF Enumerate, Outstanding, n
<1>5. jobs' = chunks
  <2>1. chunks \in Seq({chunks[i] : i \in 1..n})
    BY <1>2
  <2> HIDE DEF chunks
  <2> QED
    BY <1>1, <1>4, <2>1, ConcatEmptySeq
<1>6. events' = <<>> /\ Busy' = {} /\ DoneAt' = {} /\ UNCHANGED <<cur, valid, uv>>
  BY <1>1, <1>4 DEF Busy, DoneAt, serverVars
<1>7. Current'
  BY <1>6 DEF Enumerate, PoolInv, Current
<1>8. Awaited'
  BY <1>2, <1>3, <1>4, <1>5, <1>6, FS_EmptySet DEF Awaited
<1>9. Own'
  <2> HIDE DEF chunks
  <2>1. \A i \in 1..Len(jobs') : jobs'[i].f = cur'
    BY <1>3, <1>5, <1>6
  <2>2. Len(events') = 0
    BY <1>6
  <2> QED
    BY <1>6, <2>1, <2>2 DEF Own
<1>10. Quiet' /\ Followed'
  <2>1. n = 0 => chunks = <<>>
    BY <1>2
  <2> QED
    BY <1>4, <1>5, <1>6, <2>1 DEF Quiet, Followed
<1> QED
  BY <1>7, <1>8, <1>9, <1>10 DEF PoolInv

(* The coordinator reads an event: of the chunks it awaits, one less if it *)
(* is a report.                                                            *)
LEMMA ReceiveKeepsPool ==
  ASSUME TypeInv, PoolInv, ReceiveItem \/ ReceiveDone
  PROVE  PoolInv'
<1>1. /\ events \in Seq(Events) /\ events # <<>> /\ events' = Tail(events)
      /\ pc = "receive" /\ UNCHANGED <<serverVars, cur, valid, jobs, job>>
  BY DEF ReceiveItem, ReceiveDone, TypeInv, PoolTypes
<1>2. /\ Len(events') = Len(events) - 1 /\ Len(events) \in Nat \ {0}
      /\ \A i \in 1..Len(events') : events'[i] = events[i + 1]
      /\ events[1] = Head(events)
      /\ IsFiniteSet(DoneAt')
      /\ Cardinality(DoneAt') = IF Head(events).type = "done"
                                  THEN Cardinality(DoneAt) - 1 ELSE Cardinality(DoneAt)
  BY <1>1, ReadFirst
<1>3. Busy' = Busy /\ uv' = uv
  BY <1>1 DEF Busy, serverVars
<1>4. Current'
  BY <1>1, <1>3 DEF ReceiveItem, ReceiveDone, PoolInv, Current
<1>5. waiting' = Len(jobs') + Cardinality(Busy') + Cardinality(DoneAt')
  <2>1. /\ Len(jobs) \in Nat /\ Cardinality(Busy) \in Nat /\ Cardinality(DoneAt) \in Nat
        /\ waiting = Len(jobs) + Cardinality(Busy) + Cardinality(DoneAt)
    BY <1>1, LenProperties, BusyCounted, DonesCounted DEF PoolInv, Awaited, TypeInv, PoolTypes
  <2>2. CASE ReceiveItem
    BY <1>1, <1>2, <1>3, <2>1, <2>2 DEF ReceiveItem
  <2>3. CASE ReceiveDone
    BY <1>1, <1>2, <1>3, <2>1, <2>3 DEF ReceiveDone
  <2> QED
    BY <2>2, <2>3
<1>6. \A i \in 1..Len(events') :
        events'[i].type = "item" => Busy' # {} \/ \E j \in DoneAt' : i < j
  <2> SUFFICES ASSUME NEW i \in 1..Len(events'), events'[i].type = "item", Busy' = {}
               PROVE  \E j \in DoneAt' : i < j
    OBVIOUS
  <2>1. i + 1 \in 1..Len(events) /\ events[i + 1].type = "item"
    BY <1>2
  <2>2. PICK j \in DoneAt : i + 1 < j
    BY <1>1, <1>3, <2>1 DEF PoolInv, Followed
  <2>3. j - 1 \in DoneAt' /\ i < j - 1
    BY <1>2, <2>2 DEF DoneAt
  <2> QED
    BY <2>3
<1>7. (\A i \in 1..Len(events) : events[i].type = "item" => OwnItem(events[i].m))'
  BY <1>1, <1>2, <1>3 DEF PoolInv, Own, OwnItem
<1>8. Own'
  BY <1>1, <1>3, <1>7 DEF PoolInv, Own, OwnItem
<1>9. CASE pc' = "receive"
  BY <1>4, <1>5, <1>6, <1>8, <1>9 DEF PoolInv, Quiet, Awaited, Followed
<1>10. CASE pc' # "receive"
  <2>1. waiting' = 0
    BY <1>1, <1>10 DEF ReceiveItem, ReceiveDone
  <2>2. Len(jobs') = 0 /\ Cardinality(Busy') = 0 /\ Cardinality(DoneAt') = 0
    <3>1. Len(jobs') \in Nat /\ Cardinality(Busy') \in Nat
      BY <1>1, <1>3, LenProperties, BusyCounted DEF TypeInv, PoolTypes
    <3>2. Cardinality(DoneAt') \in Nat
      BY <1>2, FS_CardinalityType
    <3> QED
      BY <1>5, <2>1, <3>1, <3>2
  <2>3. Busy' = {} /\ DoneAt' = {}
    BY <1>2, <1>3, <2>2, BusyCounted, FS_EmptySet
  <2>4. jobs' = <<>>
    BY <1>1, <2>2, EmptySeq DEF TypeInv, PoolTypes
  <2>5. events' = <<>>
    <3> SUFFICES ASSUME Len(events') # 0 PROVE FALSE
      BY <1>1, HeadTailProperties, EmptySeq
    <3>1. 1 \in 1..Len(events') /\ events'[1] \in Events
      BY <1>1, <1>2, ElementOfSeq
    <3>2. events'[1].type = "done"
      BY <1>6, <2>3, <3>1, EventTypes
    <3> QED
      BY <2>3, <3>1, <3>2 DEF DoneAt
  <2> QED
    BY <1>4, <1>10, <2>3, <2>4, <2>5, QuietSuffices
<1> QED
  BY <1>9, <1>10

(* What the coordinator does, before, after and instead of receiving.      *)
LEMMA ControlKeepsPool ==
  ASSUME TypeInv, PoolInv, Control \/ FolderFails \/ Abort
  PROVE  PoolInv'
<1>1. CASE Start \/ Select \/ RefreshFlags
  <2>1. pc # "receive" /\ pc' # "receive" /\ UNCHANGED <<jobs, events, job, uv>>
    BY <1>1 DEF Start, Select, RefreshFlags, poolVars, serverVars
  <2>2. jobs' = <<>> /\ events' = <<>> /\ Busy' = {}
    BY <2>1 DEF PoolInv, Quiet, Busy
  <2>3. Current'
    <3>1. CASE Start
      BY <3>1 DEF Start, Current
    <3>2. CASE Select
      BY <2>1, <3>2 DEF Select, Current, TypeInv, RunTypes, ServerTypes, Validities
    <3>3. CASE RefreshFlags
      BY <2>1, <3>3 DEF RefreshFlags, Current, PoolInv
    <3> QED
      BY <1>1, <3>1, <3>2, <3>3
  <2> QED
    BY <2>1, <2>2, <2>3, QuietSuffices
<1>2. CASE SkipEmpty \/ Store \/ FolderFails
  BY <1>2, LeaveKeepsPool DEF SkipEmpty, Store, FolderFails
<1>3. CASE Enumerate
  BY <1>3, EnumerateKeepsPool
<1>4. CASE ReceiveItem \/ ReceiveDone
  BY <1>4, ReceiveKeepsPool
<1>5. CASE Abort
  BY <1>5, ShutdownKeepsPool DEF Abort
<1> QED
  BY <1>1, <1>2, <1>3, <1>4, <1>5 DEF Control

(* A step takes no folder out of those that may have got what is not       *)
(* theirs.                                                                 *)
LEMMA StraysGrow ==
  ASSUME [Next]_vars
  PROVE  strays' = strays \/ (ItemFails /\ strays' = strays \union {f \in Folders : f > cur})
BY DEF Next, Server, Arrive, Expunge, Flag, Rebuild, Control, Start, SkipEmpty, Select,
       Enumerate, ReceiveItem, ReceiveDone, RefreshFlags, Store, FolderFails, ItemFails,
       Abort, WorkerStep, TakeJob, Reconnect, Stream, Fetched, GiveUp, FetchAgain,
       ChunkDone, historyVars, vars

(* The rows.                                                               *)
LEMMA FewerRowsFiled ==
  ASSUME RowsFiled, UNCHANGED uv, strays \subseteq strays',
         index' \union draft'.index \subseteq index \union draft.index
  PROVE  RowsFiled'
BY DEF RowsFiled, FiledRow

(* Changes on the server leave the rows where they were filed.             *)
LEMMA ServerKeepsRows ==
  ASSUME TypeInv, RowsFiled, Server, strays \subseteq strays'
  PROVE  RowsFiled'
<1>1. CASE \E f \in Folders : Rebuild(f)
  <2>1. PICK f \in Folders : Rebuild(f)
    BY <1>1
  <2>2. UNCHANGED <<index, draft>> /\ uv' = [uv EXCEPT ![f] = @ + 1]
    BY <2>1 DEF Rebuild, archiveVars, runVars
  <2>3. \A r \in index \union draft.index :
          /\ r.f \in Folders /\ r.m.v \in Nat
          /\ uv[r.f] \in Nat /\ uv'[r.f] \in Nat /\ uv[r.f] <= uv'[r.f]
    BY <2>2 DEF TypeInv, ServerTypes, ArchiveTypes, RunTypes, Rows, Messages, Validities
  <2> QED
    BY <2>2, <2>3 DEF RowsFiled, FiledRow
<1>2. CASE ~\E f \in Folders : Rebuild(f)
  <2>1. UNCHANGED <<uv, archiveVars, runVars>>
    BY <1>2 DEF Server, Arrive, Expunge, Flag
  <2> QED
    BY <2>1, FewerRowsFiled DEF archiveVars, runVars
<1> QED
  BY <1>1, <1>2

(* Every row the coordinator writes is filed under the message it was read *)
(* from.                                                                   *)
LEMMA ControlKeepsRows ==
  ASSUME TypeInv, cur \in strays \/ PoolInv, RowsFiled, strays \subseteq strays',
         Control \/ FolderFails \/ ItemFails \/ Abort
  PROVE  RowsFiled'
<1>1. uv' = uv
  BY DEF Control, Start, SkipEmpty, Select, Enumerate, ReceiveItem, ReceiveDone,
         RefreshFlags, Store, FolderFails, ItemFails, Abort, serverVars
<1>2. CASE Start
  BY <1>1, <1>2, FewerRowsFiled DEF Start, archiveVars
<1>3. CASE SkipEmpty \/ Store \/ FolderFails \/ ItemFails \/ Abort
  <2>1. index' = index /\ draft'.index = {}
    BY <1>3, ForgottenTypes
       DEF SkipEmpty, Store, FolderFails, ItemFails, Abort, Leave, archiveVars
  <2> QED
    BY <1>1, <2>1, FewerRowsFiled
<1>4. CASE Select
  BY <1>1, <1>4, FewerRowsFiled DEF Select, Kept
<1>5. CASE Enumerate
  <2>1. index' \subseteq index /\ (draft' = NoTx \/ draft'.index = index')
    BY <1>5 DEF Enumerate
  <2>2. draft'.index \subseteq index
    BY <2>1 DEF NoTx
  <2> QED
    BY <1>1, <2>1, <2>2, FewerRowsFiled
<1>6. CASE ReceiveItem
  <2> DEFINE e == Head(events)
             row == [f |-> cur, v |-> valid, u |-> e.m.u, m |-> e.m, flag |-> e.flag]
  <2>1. index' = index /\ draft'.index \subseteq draft.index \union {row}
    BY <1>6 DEF ReceiveItem, archiveVars, Inserted, Validity
  <2>2. cur \in strays \/ OwnItem(e.m)
    <3>1. Len(events) \in Nat \ {0} /\ Head(events) = events[1]
      BY <1>6, EmptySeq DEF ReceiveItem, TypeInv, PoolTypes
    <3> QED
      BY <1>6, <3>1 DEF ReceiveItem, PoolInv, Own
  <2>3. row.f \in strays \/ FiledRow(row)
    BY <2>2 DEF FiledRow, OwnItem
  <2>4. \A r \in (index \union draft.index) \union {row} : r.f \in strays \/ FiledRow(r)
    BY <2>3 DEF RowsFiled
  <2>5. \A r : FiledRow(r) => FiledRow(r)'
    BY <1>1 DEF FiledRow
  <2> HIDE DEF row
  <2> QED
    BY <2>1, <2>4, <2>5 DEF RowsFiled
<1>7. CASE ReceiveDone
  <2>1. \/ index' = index /\ draft' = draft
        \/ index' = draft.index /\ draft' = NoTx
    BY <1>7 DEF ReceiveDone
  <2> QED
    BY <1>1, <2>1, FewerRowsFiled DEF NoTx
<1>8. CASE RefreshFlags
  <2>1. draft' = draft
    BY <1>8 DEF RefreshFlags
  <2>2. \A q \in index' : \E r \in index : q.f = r.f /\ q.v = r.v /\ q.u = r.u /\ q.m = r.m
    BY <1>8 DEF RefreshFlags, TypeInv, ArchiveTypes, Rows
  <2> QED
    BY <1>1, <2>1, <2>2 DEF RowsFiled, FiledRow
<1> QED
  BY <1>2, <1>3, <1>4, <1>5, <1>6, <1>7, <1>8 DEF Control

(* Every step keeps the invariant of the rows.                             *)
LEMMA FiledKept == TypeInv /\ FiledInv /\ [Next]_vars => FiledInv'
<1> SUFFICES ASSUME TypeInv, FiledInv, [Next]_vars PROVE FiledInv'
  OBVIOUS
<1>0. /\ Straying /\ RowsFiled /\ (cur \in strays \/ PoolInv)
      /\ cur \in {0} \union Folders /\ (cur = 0 <=> pc = "idle")
      /\ NumFolders \in Nat /\ Folders = 1..NumFolders
  BY Constants DEF FiledInv, TypeInv, RunTypes, Folders
<1>1. strays \subseteq strays'
  BY StraysGrow
<1>2. Straying'
  <2>1. strays' = strays \/ strays' = strays \union {f \in Folders : f > cur}
    BY StraysGrow
  <2>2. cur \in Int /\ \A f \in Folders : f \in Int
    BY <1>0
  <2>3. \A f, g \in Folders : f > cur /\ g > f => g > cur
    BY <2>2
  <2> QED
    BY <1>0, <2>1, <2>3, Zenon DEF Straying
<1>3. CASE Server
  <2>1. cur' = cur
    BY <1>3 DEF Server, Arrive, Expunge, Flag, Rebuild, runVars
  <2> QED
    BY <1>0, <1>1, <1>2, <1>3, <2>1, ServerKeepsPool, ServerKeepsRows DEF FiledInv
<1>4. CASE Control \/ FolderFails \/ ItemFails \/ Abort
  <2>1. RowsFiled'
    BY <1>0, <1>1, <1>4, ControlKeepsRows
  <2>2. CASE PoolInv
    <3>1. CASE ItemFails
      <4>1. cur' \in strays' \/ Shutdown
        <5>1. cur # 0
          BY <1>0, <3>1 DEF ItemFails
        <5> QED
          BY <1>0, <3>1, <5>1 DEF ItemFails, Leave
      <4> QED
        BY <1>2, <2>1, <4>1, ShutdownKeepsPool DEF FiledInv
    <3> QED
      BY <1>2, <1>4, <2>1, <2>2, <3>1, ControlKeepsPool DEF FiledInv
  <2>3. CASE cur \in strays
    <3>1. cur \in Folders /\ pc # "idle"
      BY <1>0, <2>3 DEF Straying
    <3>2. \/ cur' = cur
          \/ cur < NumFolders /\ cur' = cur + 1
          \/ Shutdown
      BY <1>4, <3>1 DEF Control, Start, SkipEmpty, Select, Enumerate, ReceiveItem, ReceiveDone,
         RefreshFlags, Store, FolderFails, ItemFails, Abort, Leave
    <3>3. cur < NumFolders => cur + 1 \in strays
      BY <1>0, <2>3, <3>1 DEF Straying
    <3>4. cur' \in strays' \/ Shutdown
      BY <1>1, <2>3, <3>2, <3>3
    <3> QED
      BY <1>2, <2>1, <3>4, ShutdownKeepsPool DEF FiledInv
  <2> QED
    BY <1>0, <2>2, <2>3
<1>5. ASSUME NEW w \in Workers, WorkerStep(w) \/ GiveUp(w) \/ FetchAgain(w) PROVE FiledInv'
  <2>1. UNCHANGED <<serverVars, archiveVars, runVars>>
    BY <1>5 DEF WorkerStep, TakeJob, Reconnect, Fetched, Stream, GiveUp, FetchAgain, ChunkDone
  <2>2. RowsFiled'
    BY <1>0, <1>1, <2>1, FewerRowsFiled DEF serverVars, archiveVars, runVars
  <2>3. cur' = cur
    BY <2>1 DEF runVars
  <2> QED
    BY <1>0, <1>1, <1>2, <1>5, <2>2, <2>3, WorkersKeepPool DEF FiledInv
<1>6. CASE UNCHANGED vars
  BY <1>6 DEF vars, FiledInv, Straying, PoolInv, Quiet, Awaited, Own, OwnItem, Followed, Current,
              Busy, DoneAt, RowsFiled, FiledRow
<1> QED
  BY <1>3, <1>4, <1>5, <1>6 DEF Next

(* The invariant of the rows holds in an empty archive.                    *)
LEMMA FiledAtFirst == Init => FiledInv
<1> SUFFICES ASSUME Init PROVE FiledInv
  OBVIOUS
<1>1. PoolInv
  BY DEF Init, PoolInv, Quiet, Awaited, Own, Followed, Current, Busy, NoJobs
<1>2. RowsFiled /\ Straying
  BY DEF Init, RowsFiled, NoTx, Straying
<1> QED
  BY <1>1, <1>2 DEF FiledInv

(* From the invariant of the rows: what a row says of its message.         *)
LEMMA FiledSuffices == TypeInv /\ FiledInv => Filed
<1> SUFFICES ASSUME TypeInv, RowsFiled, NEW r \in index, r.f \notin strays
             PROVE  r.m.f = r.f /\ r.m.u = r.u /\ (r.v = uv[r.f] => r.m.v = r.v)
  BY DEF FiledInv, Filed
<1>1. r.v \in Nat /\ r.m.v \in Nat /\ r.m.v <= uv[r.f] /\ r.v <= r.m.v
  BY DEF TypeInv, ArchiveTypes, Rows, Messages, Validities, RowsFiled, FiledRow
<1> QED
  BY <1>1 DEF RowsFiled, FiledRow

(* Every archived message is filed under the folder and the UID it came    *)
(* from, and under the folder's UIDVALIDITY only if it was fetched under   *)
(* that one, for any number of folders, connections and changes: the       *)
(* events of pool.rs need not name their folder, unless reconcile_folder   *)
(* leaves one early, and then only the folders behind it in that run.      *)
THEOREM FiledAlways == Spec => []Filed
<1>1. Init => TypeInv /\ FiledInv
  BY InitTypes, FiledAtFirst
<1>2. TypeInv /\ FiledInv /\ [Next]_vars => (TypeInv /\ FiledInv)'
  BY TypesKept, FiledKept
<1> QED
  BY <1>1, <1>2, FiledSuffices, PTL DEF Spec

-----------------------------------------------------------------------------
(* KeptWhileThere: until its commit, a transaction has what the archive    *)
(* has; and the rows' keys are unique in both.                             *)
Drafted ==
  pc = "receive" => \A r \in index : \E q \in draft.index : KeyOf(q) = KeyOf(r)
Distinct(S) == \A r, q \in S : KeyOf(r) = KeyOf(q) => r = q
Unique == Distinct(index) /\ Distinct(draft.index)

DraftInv == Drafted /\ Unique

(* The steps of reconcile_folder that write rows.                          *)
LEMMA ReceiveKeepsDraft ==
  ASSUME TypeInv, DraftInv, ReceiveItem \/ ReceiveDone
  PROVE  DraftInv'
<1>1. CASE ReceiveItem
  <2> DEFINE m == Head(events).m
             old == {r \in draft.index : r.f = cur /\ r.v = valid /\ r.u = m.u}
             row == [f |-> cur, v |-> valid, u |-> m.u, m |-> m, flag |-> Head(events).flag]
  <2>1. index' = index /\ draft'.index = (draft.index \ old) \union {row}
    BY <1>1 DEF ReceiveItem, archiveVars, Inserted, Validity
  <2>2. KeyOf(row) = <<cur, valid, m.u>>
    BY DEF KeyOf
  <2>3. \A r \in draft.index : r \in old <=> KeyOf(r) = KeyOf(row)
    BY <2>2 DEF KeyOf
  <2> HIDE DEF row, old
  <2>4. Distinct(draft'.index)
    BY <2>1, <2>3 DEF DraftInv, Unique, Distinct
  <2>5. \A r \in index : \E q \in draft'.index : KeyOf(q) = KeyOf(r)
    <3> TAKE r \in index
    <3>1. PICK q \in draft.index : KeyOf(q) = KeyOf(r)
      BY <1>1 DEF ReceiveItem, DraftInv, Drafted
    <3> QED
      BY <2>1, <2>3, <3>1
  <2> QED
    BY <2>1, <2>4, <2>5 DEF DraftInv, Drafted, Unique
<1>2. CASE ReceiveDone
  <2>1. \/ UNCHANGED <<index, draft>> /\ pc' = pc
        \/ index' = draft.index /\ draft' = NoTx /\ pc' # "receive"
    BY <1>2 DEF ReceiveDone
  <2> QED
    BY <2>1 DEF DraftInv, Drafted, Unique, Distinct, NoTx
<1> QED
  BY <1>1, <1>2

(* New flags change no row's key.                                          *)
LEMMA RefreshKeepsKeys ==
  ASSUME TypeInv, RefreshFlags
  PROVE  /\ \A r \in index : \E q \in index' : KeyOf(q) = KeyOf(r)
         /\ Distinct(index) => Distinct(index')
<1> DEFINE fresh(r) == IF r.f = cur /\ r.v = valid /\ r.u \in present \intersect on[cur]
                         THEN [r EXCEPT !.flag = <<cur, r.u>> \in seen] ELSE r
<1>1. index' = {fresh(r) : r \in index}
  BY DEF RefreshFlags
<1>2. \A r \in index : KeyOf(fresh(r)) = KeyOf(r)
  BY DEF KeyOf, TypeInv, ArchiveTypes, Rows
<1> HIDE DEF fresh
<1> QED
  BY <1>1, <1>2 DEF Distinct

(* Every step keeps the invariant of the transaction.                      *)
LEMMA DraftKept == TypeInv /\ DraftInv /\ [Next]_vars => DraftInv'
<1> SUFFICES ASSUME TypeInv, DraftInv, [Next]_vars PROVE DraftInv'
  OBVIOUS
<1>1. CASE ReceiveItem \/ ReceiveDone
  BY <1>1, ReceiveKeepsDraft
<1>2. CASE RefreshFlags
  <2>1. pc' # "receive" /\ draft' = draft
    BY <1>2 DEF RefreshFlags
  <2> QED
    BY <1>2, <2>1, RefreshKeepsKeys DEF DraftInv, Drafted, Unique
<1>3. CASE Enumerate
  <2>1. /\ index' \subseteq index
        /\ pc' = "receive" => draft'.index = index'
        /\ draft' = NoTx \/ draft'.index = index'
    BY <1>3 DEF Enumerate
  <2> QED
    BY <2>1 DEF DraftInv, Drafted, Unique, Distinct, NoTx
<1>4. CASE Select \/ Start
  <2>1. pc' # "receive" /\ draft' = draft /\ index' \subseteq index
    BY <1>4 DEF Select, Start, Kept, archiveVars
  <2> QED
    BY <2>1 DEF DraftInv, Drafted, Unique, Distinct
<1>5. CASE SkipEmpty \/ Store \/ FolderFails \/ ItemFails \/ Abort
  <2>1. pc' # "receive" /\ draft' = NoTx /\ index' = index
    BY <1>5 DEF SkipEmpty, Store, FolderFails, ItemFails, Abort, Leave, Forgotten, Shutdown,
                archiveVars
  <2> QED
    BY <2>1 DEF DraftInv, Drafted, Unique, Distinct, NoTx
<1>6. CASE Server \/ UNCHANGED vars
  <2>1. UNCHANGED <<index, pc, draft>>
    BY <1>6 DEF Server, Arrive, Expunge, Flag, Rebuild, archiveVars, runVars, vars
  <2> QED
    BY <2>1 DEF DraftInv, Drafted, Unique
<1>7. ASSUME NEW w \in Workers, WorkerStep(w) \/ GiveUp(w) \/ FetchAgain(w) PROVE DraftInv'
  <2>1. UNCHANGED <<index, pc, draft>>
    BY <1>7 DEF WorkerStep, TakeJob, Reconnect, Fetched, Stream, GiveUp, FetchAgain, ChunkDone,
                archiveVars, runVars
  <2> QED
    BY <2>1 DEF DraftInv, Drafted, Unique
<1> QED
  BY <1>1, <1>2, <1>3, <1>4, <1>5, <1>6, <1>7 DEF Next, Control

(* The invariant of the transaction holds in every state.                  *)
LEMMA DraftAlways == Spec => []DraftInv
<1>1. Init => DraftInv
  BY DEF Init, DraftInv, Drafted, Unique, Distinct, NoTx
<1>2. TypeInv /\ DraftInv /\ [Next]_vars => DraftInv'
  BY DraftKept
<1> QED
  BY <1>1, <1>2, TypesAlways, PTL DEF Spec

(* insert_single_message leaves at most one reachable row for a folder, a  *)
(* UIDVALIDITY and a UID, in the archive as in the open transaction.       *)
THEOREM RowsUnique == Spec => []Unique
BY DraftAlways, PTL DEF DraftInv

(* What a step may drop from the archive.                                  *)
Dropped(r) == \A q \in index' : <<q.f, q.v, q.u>> # <<r.f, r.v, r.u>>

(* A row that is dropped is of a message that is gone, or of a folder      *)
(* whose UIDVALIDITY changed.                                              *)
LEMMA DropsOnlyWhatIsGone ==
  ASSUME TypeInv, DraftInv, Next, NEW r \in index, Dropped(r)
  PROVE  (r.v = uv[r.f] => r.u \notin on[r.f]) \/ stored[r.f] # uv[r.f]
<1>1. r \notin index' /\ index' # index
  BY DEF Dropped
<1>2. Select \/ Enumerate \/ ReceiveDone \/ RefreshFlags
  BY <1>1 DEF Next, Server, Arrive, Expunge, Flag, Rebuild, Control, Start, SkipEmpty,
              ReceiveItem, Store, FolderFails, ItemFails, Abort, WorkerStep, TakeJob,
              Reconnect, Stream, Fetched, GiveUp, FetchAgain, ChunkDone, archiveVars
<1>3. CASE Select
  BY <1>1, <1>3 DEF Select, Kept, RowsOf
<1>4. CASE Enumerate
  <2>1. r.f = cur /\ r.v = valid /\ r.u \in DiffUids(ArchivedUids(cur, valid), on[cur]).vanished
    BY <1>1, <1>4, Zenon DEF Enumerate, RowsOf
  <2> QED
    BY <1>4, <2>1 DEF DiffUids, Enumerate
<1>5. CASE ReceiveDone
  <2>1. index' = draft.index /\ pc = "receive"
    BY <1>1, <1>5 DEF ReceiveDone
  <2> QED
    BY <2>1 DEF DraftInv, Drafted, KeyOf, Dropped
<1>6. CASE RefreshFlags
  BY <1>6, RefreshKeepsKeys DEF KeyOf, Dropped
<1> QED
  BY <1>2, <1>3, <1>4, <1>5, <1>6

(* A message that is on the server is dropped from the archive only when   *)
(* wipe_folder_emails starts its folder over, whatever fails meanwhile:    *)
(* delete_vanished_emails works on what SELECT and the UIDs just listed    *)
(* say, and the transaction of the inserts never removes a key.            *)
THEOREM KeepsWhatIsThere == Spec => KeptWhileThere
<1>1. TypeInv /\ DraftInv /\ [Next]_vars =>
        [\A r \in index :
           (\A q \in index' : <<q.f, q.v, q.u>> # <<r.f, r.v, r.u>>) =>
             \/ r.v = uv[r.f] => r.u \notin on[r.f]
             \/ stored[r.f] # uv[r.f]]_vars
  BY DropsOnlyWhatIsGone DEF Dropped
<1> QED
  BY <1>1, TypesAlways, DraftAlways, PTL DEF Spec, KeptWhileThere

-----------------------------------------------------------------------------
(* NoDuplicates: what a FETCH that is sent again costs.  A UID is to come  *)
(* in one job or one FETCH only (Alone), of no more than FetchBatch        *)
(* (Sized).  A row without a sync id comes from a message that is received *)
(* although its UID is in the transaction; so of the messages to come and  *)
(* on their way, no more will do that than there are beyond their UIDs     *)
(* that are not in it yet, and those are what was sent again (Paid).       *)
ItemsOf(q) == {i \in 1..Len(q) : q[i].type = "item"}
UidsOf(q) == {u \in Uids : \E i \in ItemsOf(q) : q[i].m.u = u}

(* What a FETCH will still return: all of its job, if it has to start over. *)
Rest(w) == IF at[w] = job[w].f THEN left[w] ELSE job[w].uids
ToCome ==
  {u \in Uids : (\E i \in 1..Len(jobs) : u \in jobs[i].uids) \/ \E w \in Workers : u \in Rest(w)}
DraftUids == {u \in Uids : \E r \in draft.index : r.f = cur /\ r.v = valid /\ r.u = u}
Pending == (ToCome \union UidsOf(events)) \ DraftUids

Sized ==
  /\ \A i \in 1..Len(jobs) : Cardinality(jobs[i].uids) <= FetchBatch
  /\ \A w \in Workers : Cardinality(job[w].uids) <= FetchBatch
Alone ==
  /\ \A i, j \in 1..Len(jobs) : i # j => jobs[i].uids \intersect jobs[j].uids = {}
  /\ \A w, x \in Workers : w # x => job[w].uids \intersect job[x].uids = {}
  /\ \A i \in 1..Len(jobs), w \in Workers : jobs[i].uids \intersect job[w].uids = {}
Paid ==
  /\ orphans <= drops * FetchBatch
  /\ pc = "receive" =>
       draft.orphans + Cardinality(ToCome) + Cardinality(ItemsOf(events))
         <= drops * FetchBatch + Cardinality(Pending)

OrphansTypes == drops \in Nat /\ at \in [Workers -> {0} \union Folders]
OrphansInv == OrphansTypes /\ (strays # {} \/ (Sized /\ Alone /\ Paid))

(* A set of UIDs can be counted.                                           *)
LEMMA Countable ==
  ASSUME NEW S \in SUBSET Uids
  PROVE  IsFiniteSet(S) /\ Cardinality(S) \in Nat
BY UidsCounted, FS_CardinalityType

(* The messages of a channel can be counted.                               *)
LEMMA ItemsCounted ==
  ASSUME NEW q \in Seq(Events)
  PROVE  IsFiniteSet(ItemsOf(q)) /\ Cardinality(ItemsOf(q)) \in Nat
<1>1. Len(q) \in Int /\ 1 \in Int
  BY LenProperties
<1>2. IsFiniteSet(1..Len(q))
  BY <1>1, FS_Interval
<1>3. IsFiniteSet(ItemsOf(q))
  BY <1>2, FS_Subset DEF ItemsOf
<1> QED
  BY <1>3, FS_CardinalityType

(* The first event of a channel is read.                                   *)
LEMMA ItemRead ==
  ASSUME NEW q \in Seq(Events), q # <<>>
  PROVE  /\ Head(q).type = "item" =>
              /\ Cardinality(ItemsOf(Tail(q))) = Cardinality(ItemsOf(q)) - 1
              /\ Head(q).m.u \in UidsOf(q)
              /\ UidsOf(q) = UidsOf(Tail(q)) \union {Head(q).m.u}
         /\ Head(q).type = "done" =>
              /\ Cardinality(ItemsOf(Tail(q))) = Cardinality(ItemsOf(q))
              /\ UidsOf(Tail(q)) = UidsOf(q)
<1> DEFINE t == Tail(q)
           later == ItemsOf(q) \ {1}
           up == [i \in later |-> i - 1]
<1>1. /\ t \in Seq(Events) /\ Len(t) = Len(q) - 1 /\ Len(q) \in Nat \ {0}
      /\ \A i \in 1..Len(t) : t[i] = q[i + 1]
      /\ q[1] = Head(q) /\ q[1] \in Events
  BY HeadTailProperties, EmptySeq, ElementOfSeq
<1> HIDE DEF t
<1>2. IsFiniteSet(later)
  BY ItemsCounted, FS_Subset
<1>3. 1 \in ItemsOf(q) <=> Head(q).type = "item"
  BY <1>1 DEF ItemsOf
<1>4. Cardinality(later) = IF Head(q).type = "item"
                             THEN Cardinality(ItemsOf(q)) - 1 ELSE Cardinality(ItemsOf(q))
  BY <1>3, ItemsCounted, FS_RemoveElement
<1>5. /\ \A i \in later : i \in 2..Len(q) /\ i - 1 \in ItemsOf(t) /\ t[i - 1] = q[i]
      /\ \A k \in ItemsOf(t) : k + 1 \in later /\ k \in Nat /\ q[k + 1] = t[k]
  BY <1>1 DEF ItemsOf
<1>6. up \in Bijection(later, ItemsOf(t))
  <2>1. up \in [later -> ItemsOf(t)]
    BY <1>5
  <2>2. \A k \in ItemsOf(t) : \E i \in later : up[i] = k
    BY <1>5
  <2>3. \A i, j \in later : up[i] = up[j] => i = j
    BY <1>5
  <2> QED
    BY <2>1, <2>2, <2>3 DEF Bijection, Injection, Surjection, IsInjective
<1>7. Cardinality(later) = Cardinality(ItemsOf(t))
  BY <1>2, <1>6, FS_Bijection DEF ExistsBijection
<1>8. UidsOf(t) = {u \in Uids : \E i \in later : q[i].m.u = u}
  BY <1>5 DEF UidsOf
<1>9. Head(q).type = "item" => Head(q).m.u \in Uids
  BY <1>1, EventTypes DEF Messages
<1>10. Head(q).type = "item" => Head(q).m.u \in UidsOf(q) /\ UidsOf(q) = UidsOf(t) \union {Head(q).m.u}
  BY <1>1, <1>3, <1>8, <1>9 DEF UidsOf
<1>11. Head(q).type = "done" => UidsOf(t) = UidsOf(q)
  BY <1>3, <1>8 DEF UidsOf
<1> QED
  BY <1>4, <1>7, <1>10, <1>11 DEF t

(* An event is sent.                                                       *)
LEMMA ItemSent ==
  ASSUME NEW q \in Seq(Events), NEW e \in Events
  PROVE  /\ e.type = "item" =>
              /\ Cardinality(ItemsOf(Append(q, e))) = Cardinality(ItemsOf(q)) + 1
              /\ UidsOf(Append(q, e)) = UidsOf(q) \union {e.m.u}
         /\ e.type = "done" =>
              /\ Cardinality(ItemsOf(Append(q, e))) = Cardinality(ItemsOf(q))
              /\ UidsOf(Append(q, e)) = UidsOf(q)
<1> DEFINE a == Append(q, e)
           n == Len(q)
<1>1. n \in Nat /\ Len(a) = n + 1 /\ (\A i \in 1..n : a[i] = q[i]) /\ a[n + 1] = e
  BY AppendProperties, LenProperties
<1> HIDE DEF a, n
<1>2. ItemsOf(a) = IF e.type = "item" THEN ItemsOf(q) \union {n + 1} ELSE ItemsOf(q)
  BY <1>1 DEF ItemsOf, n
<1>3. n + 1 \notin ItemsOf(q) /\ \A i \in ItemsOf(q) : a[i] = q[i]
  BY <1>1 DEF ItemsOf, n
<1>4. e.type = "item" => e.m.u \in Uids
  BY EventTypes DEF Messages
<1>5. e.type = "item" => UidsOf(a) = UidsOf(q) \union {e.m.u}
  BY <1>1, <1>2, <1>3, <1>4 DEF UidsOf
<1>6. e.type = "done" => UidsOf(a) = UidsOf(q)
  BY <1>2, <1>3 DEF UidsOf
<1>7. e.type = "item" => Cardinality(ItemsOf(a)) = Cardinality(ItemsOf(q)) + 1
  BY <1>2, <1>3, ItemsCounted, FS_AddElement
<1> QED
  BY <1>2, <1>5, <1>6, <1>7 DEF a

(* The larger of two UIDs has the larger rank.                             *)
LEMMA RanksDiffer ==
  ASSUME NEW S \in SUBSET Uids, NEW u \in S, NEW x \in S, u < x
  PROVE  Rank(S, u) \in Nat /\ Rank(S, x) \in Nat /\ Rank(S, u) < Rank(S, x)
<1> DEFINE A == {y \in S : y < u}
           B == {y \in S : y < x}
<1>1. u \in Nat /\ x \in Nat /\ S \subseteq Nat
  BY Constants
<1>2. A \in SUBSET Uids /\ B \in SUBSET Uids /\ A \union {u} \subseteq B /\ u \notin A
  <2>1. \A y \in Nat : y < u => y < x /\ y # u
    BY <1>1
  <2> QED
    BY <1>1, <2>1
<1>3. IsFiniteSet(A) /\ IsFiniteSet(B) /\ Cardinality(A) \in Nat /\ Cardinality(B) \in Nat
  BY <1>2, Countable
<1>4. Cardinality(A \union {u}) = Cardinality(A) + 1
  BY <1>2, <1>3, FS_AddElement
<1>5. Cardinality(A \union {u}) <= Cardinality(B)
  BY <1>2, <1>3, FS_Subset
<1> QED
  BY <1>3, <1>4, <1>5 DEF Rank

(* The ranks of a chunk are those of a batch, and no two of its UIDs have  *)
(* the same: so it is no larger.  No UID is in two chunks.                 *)
LEMMA ChunksSized ==
  ASSUME NEW S \in SUBSET Uids, NEW i \in Nat \ {0}
  PROVE  /\ Cardinality(Chunk(S, i)) <= FetchBatch
         /\ \A j \in Nat \ {0} : i # j => Chunk(S, i) \intersect Chunk(S, j) = {}
<1> DEFINE low == (i - 1) * FetchBatch
           place == [u \in Chunk(S, i) |-> Rank(S, u)]
<1>1. FetchBatch \in Nat /\ FetchBatch >= 1 /\ i - 1 \in Nat /\ low \in Int
  BY Constants, Z3
<1>2. \A u \in S : Rank(S, u) \in Nat
  <2> TAKE u \in S
  <2>1. {y \in S : y < u} \in SUBSET Uids
    OBVIOUS
  <2> QED
    BY <2>1, Countable DEF Rank
<1>3. \A u, x \in S : Rank(S, u) = Rank(S, x) => u = x
  <2> SUFFICES ASSUME NEW u \in S, NEW x \in S, u # x PROVE Rank(S, u) # Rank(S, x)
    OBVIOUS
  <2>1. u \in Nat /\ x \in Nat
    BY Constants
  <2>2. u < x \/ x < u
    BY <2>1
  <2>3. CASE u < x
    BY <2>3, RanksDiffer
  <2>4. CASE x < u
    BY <2>4, RanksDiffer
  <2> QED
    BY <2>2, <2>3, <2>4
<1>4. ASSUME NEW r \in Nat, r \div FetchBatch = i - 1
      PROVE  r \in low..(low + FetchBatch - 1)
  <2> DEFINE b == FetchBatch
             k == i - 1
  <2>1. b \in Nat /\ b >= 1 /\ k \in Nat /\ r \div b = k
    BY <1>1, <1>4
  <2> HIDE DEF b, k
  <2>2. k * b <= r /\ r <= k * b + b - 1 /\ k * b \in Int
    BY <2>1, Z3
  <2> QED
    BY <2>1, <2>2 DEF b, k
<1> HIDE DEF low
<1>5. Chunk(S, i) \subseteq S /\ \A u \in Chunk(S, i) : Rank(S, u) \in low..(low + FetchBatch - 1)
  BY <1>2, <1>4 DEF Chunk
<1>6. place \in Injection(Chunk(S, i), low..(low + FetchBatch - 1))
  BY <1>3, <1>5 DEF Injection, IsInjective
<1>7. /\ IsFiniteSet(low..(low + FetchBatch - 1))
      /\ Cardinality(low..(low + FetchBatch - 1)) = FetchBatch
  <2>1. low \in Int /\ low + FetchBatch - 1 \in Int
    BY <1>1
  <2>2. /\ IsFiniteSet(low..(low + FetchBatch - 1))
        /\ Cardinality(low..(low + FetchBatch - 1)) =
             IF low > low + FetchBatch - 1 THEN 0 ELSE (low + FetchBatch - 1) - low + 1
    BY <2>1, FS_Interval
  <2> QED
    BY <1>1, <2>2
<1>8. Cardinality(Chunk(S, i)) <= FetchBatch
  BY <1>6, <1>7, FS_Injection
<1>9. \A j \in Nat \ {0} : i # j => Chunk(S, i) \intersect Chunk(S, j) = {}
  BY DEF Chunk
<1> QED
  BY <1>8, <1>9

(* The jobs of some workers have no more UIDs than a batch for each.       *)
LEMMA JobsSized ==
  ASSUME TypeInv, Sized, NEW W \in SUBSET Workers, NEW X \in SUBSET Uids,
         \A u \in X : \E w \in W : u \in job[w].uids
  PROVE  Cardinality(W) \in Nat /\ Cardinality(X) <= Cardinality(W) * FetchBatch
<1>1. /\ FetchBatch \in Nat /\ IsFiniteSet(W) /\ Cardinality(W) \in Nat
  BY Constants, PoolAssumption, FS_Subset, FS_CardinalityType
<1>2. IsFiniteSet(1..FetchBatch) /\ Cardinality(1..FetchBatch) = FetchBatch
  <2>1. 1 \in Int /\ FetchBatch \in Int
    BY <1>1
  <2>2. /\ IsFiniteSet(1..FetchBatch)
        /\ Cardinality(1..FetchBatch) = IF 1 > FetchBatch THEN 0 ELSE FetchBatch - 1 + 1
    BY <2>1, FS_Interval
  <2> QED
    BY <1>1, <2>2
<1>3. \A w \in W : \E f : f \in Injection(job[w].uids, 1..FetchBatch)
  <2> TAKE w \in W
  <2> DEFINE S == job[w].uids
             c == Cardinality(S)
  <2>1. S \in SUBSET Uids
    BY DEF TypeInv, PoolTypes, FetchJobs, Idle
  <2>2. IsFiniteSet(S) /\ c \in Nat /\ c <= FetchBatch /\ ExistsBijection(1..c, S)
    BY <2>1, Countable, FS_CardinalityType DEF Sized
  <2> HIDE DEF S, c
  <2>3. PICK b : b \in Bijection(1..c, S)
    BY <2>2 DEF ExistsBijection
  <2>4. b \in [1..c -> S] /\ \A x \in S : \E i \in 1..c : b[i] = x
    BY <2>3 DEF Bijection, Surjection
  <2> DEFINE f == [x \in S |-> CHOOSE i \in 1..c : b[i] = x]
  <2>5. \A x \in S : f[x] \in 1..c /\ b[f[x]] = x
    BY <2>4
  <2>6. 1..c \subseteq 1..FetchBatch
    BY <1>1, <2>2
  <2>7. f \in [S -> 1..FetchBatch]
    BY <2>5, <2>6
  <2>8. \A x, y \in S : f[x] = f[y] => x = y
    BY <2>5
  <2>9. f \in Injection(S, 1..FetchBatch)
    BY <2>7, <2>8 DEF Injection, IsInjective
  <2> QED
    BY <2>9 DEF S
<1> DEFINE h == [w \in W |-> CHOOSE f : f \in Injection(job[w].uids, 1..FetchBatch)]
           of == [u \in X |-> CHOOSE w \in W : u \in job[w].uids]
           g == [u \in X |-> <<of[u], h[of[u]][u]>>]
<1>4. \A w \in W : h[w] \in Injection(job[w].uids, 1..FetchBatch)
  BY <1>3
<1>5. \A u \in X : of[u] \in W /\ u \in job[of[u]].uids
  OBVIOUS
<1> HIDE DEF h, of
<1>6. \A u \in X : h[of[u]][u] \in 1..FetchBatch
  BY <1>4, <1>5 DEF Injection
<1>7. g \in [X -> W \X (1..FetchBatch)]
  BY <1>5, <1>6
<1>8. \A u, x \in X : g[u] = g[x] => u = x
  <2> SUFFICES ASSUME NEW u \in X, NEW x \in X, g[u] = g[x] PROVE u = x
    OBVIOUS
  <2>1. of[u] = of[x] /\ h[of[u]][u] = h[of[u]][x]
    OBVIOUS
  <2>2. u \in job[of[u]].uids /\ x \in job[of[u]].uids
    BY <1>5, <2>1
  <2> QED
    BY <1>4, <1>5, <2>1, <2>2 DEF Injection, IsInjective
<1>9. g \in Injection(X, W \X (1..FetchBatch))
  BY <1>7, <1>8 DEF Injection, IsInjective
<1>10. /\ IsFiniteSet(W \X (1..FetchBatch))
       /\ Cardinality(W \X (1..FetchBatch)) = Cardinality(W) * FetchBatch
  BY <1>1, <1>2, FS_Product
<1> QED
  BY <1>1, <1>9, <1>10, FS_Injection

-----------------------------------------------------------------------------
(* The UIDs to come and those pending can be counted.                      *)
LEMMA ToComeCounted ==
  /\ IsFiniteSet(ToCome) /\ Cardinality(ToCome) \in Nat
  /\ IsFiniteSet(ToCome') /\ Cardinality(ToCome') \in Nat
  /\ IsFiniteSet(Pending) /\ Cardinality(Pending) \in Nat
  /\ IsFiniteSet(Pending') /\ Cardinality(Pending') \in Nat
<1>1. /\ ToCome \in SUBSET Uids /\ ToCome' \in SUBSET Uids
      /\ Pending \in SUBSET Uids /\ Pending' \in SUBSET Uids
  BY DEF ToCome, Pending, UidsOf
<1> QED
  BY <1>1, Countable

(* The sums.  t, i and p are what is to come, on its way and pending, a    *)
(* the orphans of the transaction, d the FETCHes sent again, b a batch.    *)
LEMMA Resent ==
  ASSUME NEW a \in Nat, NEW t \in Nat, NEW i \in Nat, NEW p \in Nat, NEW d \in Nat, NEW b \in Nat,
         NEW k \in Nat, NEW x \in Nat, NEW t2 \in Nat, NEW p2 \in Nat,
         a + t + i <= d * b + p, t2 <= t + x, x <= k * b, p <= p2
  PROVE  a + t2 + i <= (d + k) * b + p2
<1>1. (d + k) * b = d * b + k * b /\ d * b \in Nat /\ k * b \in Nat
  BY Z3
<1> QED
  BY <1>1

(* More is never too little for what was paid before.                      *)
LEMMA StillPaid ==
  ASSUME NEW o \in Nat, NEW d \in Nat, NEW k \in Nat, NEW b \in Nat, o <= d * b
  PROVE  o <= (d + k) * b
<1>1. (d + k) * b = d * b + k * b /\ d * b \in Nat /\ k * b \in Nat
  BY Z3
<1> QED
  BY <1>1

(* Some FETCHes are sent again: what they may return is paid for.          *)
LEMMA ResentPaid ==
  ASSUME TypeInv, OrphansTypes, Paid, pc = "receive", NEW k \in Nat, NEW X \in SUBSET Uids,
         ToCome \subseteq ToCome', ToCome' \subseteq ToCome \union X,
         Cardinality(X) <= k * FetchBatch,
         drops' = drops + k, UNCHANGED <<pc, cur, valid, draft, orphans>>,
         ItemsOf(events') = ItemsOf(events), UidsOf(events') = UidsOf(events)
  PROVE  Paid'
<1>1. /\ draft.orphans \in Nat /\ orphans \in Nat /\ drops \in Nat /\ FetchBatch \in Nat
      /\ Cardinality(ItemsOf(events)) \in Nat
  BY Constants, ItemsCounted DEF TypeInv, ArchiveTypes, RunTypes, PoolTypes, OrphansTypes
<1>2. IsFiniteSet(X) /\ Cardinality(X) \in Nat
  BY Countable
<1>3. Cardinality(ToCome') <= Cardinality(ToCome) + Cardinality(X)
  <2>1. /\ IsFiniteSet(ToCome \union X) /\ Cardinality(ToCome \intersect X) \in Nat
        /\ Cardinality(ToCome \union X) = Cardinality(ToCome) + Cardinality(X) - Cardinality(ToCome \intersect X)
    BY <1>2, ToComeCounted, FS_Union, FS_Intersection, FS_CardinalityType
  <2>2. Cardinality(ToCome') <= Cardinality(ToCome \union X)
    BY <2>1, FS_Subset
  <2> QED
    BY <1>2, <2>1, <2>2, ToComeCounted
<1>4. Cardinality(Pending) <= Cardinality(Pending')
  <2>1. DraftUids' = DraftUids
    BY DEF DraftUids
  <2>2. Pending \subseteq Pending'
    BY <2>1 DEF Pending
  <2> QED
    BY <2>2, ToComeCounted, FS_Subset
<1>5. draft.orphans + Cardinality(ToCome) + Cardinality(ItemsOf(events))
        <= drops * FetchBatch + Cardinality(Pending)
  BY DEF Paid
<1>6. draft.orphans + Cardinality(ToCome') + Cardinality(ItemsOf(events))
        <= (drops + k) * FetchBatch + Cardinality(Pending')
  BY <1>1, <1>2, <1>3, <1>4, <1>5, ToComeCounted, Resent
<1>7. orphans <= (drops + k) * FetchBatch
  BY <1>1, StillPaid DEF Paid
<1> QED
  BY <1>6, <1>7 DEF Paid

(* What will not come any more is paid for no longer.                      *)
LEMMA FewerPaid ==
  ASSUME TypeInv, OrphansTypes, Paid, pc = "receive", NEW X \in SUBSET ToCome,
         ToCome' = ToCome \ X,
         UNCHANGED <<pc, cur, valid, draft, orphans, drops>>,
         Cardinality(ItemsOf(events')) = Cardinality(ItemsOf(events)), UidsOf(events') = UidsOf(events)
  PROVE  Paid'
<1>1. /\ draft.orphans \in Nat /\ Cardinality(ItemsOf(events)) \in Nat /\ drops * FetchBatch \in Nat
  <2>1. drops \in Nat /\ FetchBatch \in Nat
    BY Constants DEF OrphansTypes
  <2>2. drops * FetchBatch \in Nat
    BY <2>1, Z3
  <2> QED
    BY <2>2, ItemsCounted DEF TypeInv, RunTypes, PoolTypes
<1>2. IsFiniteSet(X) /\ Cardinality(X) \in Nat /\ Cardinality(ToCome') = Cardinality(ToCome) - Cardinality(X)
  <2>1. IsFiniteSet(X) /\ ToCome \intersect X = X
    BY ToComeCounted, FS_Subset
  <2>2. Cardinality(ToCome \ X) = Cardinality(ToCome) - Cardinality(ToCome \intersect X)
    BY ToComeCounted, FS_Difference
  <2>3. Cardinality(X) \in Nat
    BY <2>1, FS_CardinalityType
  <2> QED
    BY <2>1, <2>2, <2>3
<1>3. Cardinality(Pending) <= Cardinality(Pending') + Cardinality(X)
  <2>1. DraftUids' = DraftUids
    BY DEF DraftUids
  <2>2. Pending \subseteq Pending' \union X
    BY <2>1 DEF Pending
  <2>3. /\ IsFiniteSet(Pending' \union X) /\ Cardinality(Pending' \intersect X) \in Nat
        /\ Cardinality(Pending' \union X) = Cardinality(Pending') + Cardinality(X) - Cardinality(Pending' \intersect X)
    BY <1>2, ToComeCounted, FS_Union, FS_Intersection, FS_CardinalityType
  <2>4. Cardinality(Pending) <= Cardinality(Pending' \union X)
    BY <2>2, <2>3, FS_Subset
  <2> QED
    BY <1>2, <2>3, <2>4, ToComeCounted
<1>4. draft.orphans + Cardinality(ToCome) + Cardinality(ItemsOf(events))
        <= drops * FetchBatch + Cardinality(Pending)
  BY DEF Paid
<1>5. draft.orphans + Cardinality(ToCome') + Cardinality(ItemsOf(events'))
        <= drops * FetchBatch + Cardinality(Pending')
  <2> DEFINE m == drops * FetchBatch
             s == draft.orphans
  <2>1. s \in Nat /\ m \in Nat
    BY <1>1
  <2> HIDE DEF m, s
  <2>2. s + Cardinality(ToCome) + Cardinality(ItemsOf(events)) <= m + Cardinality(Pending)
    BY <1>4 DEF m, s
  <2>3. s + Cardinality(ToCome') + Cardinality(ItemsOf(events')) <= m + Cardinality(Pending')
    BY <1>1, <1>2, <1>3, <2>1, <2>2, ToComeCounted
  <2> QED
    BY <2>3 DEF m, s
<1> QED
  BY <1>5 DEF Paid

(* What a worker has of its job.                                           *)
LEMMA JobUids ==
  ASSUME TypeInv
  PROVE  /\ \A w \in Workers : job[w].uids \in SUBSET Uids /\ Rest(w) \subseteq job[w].uids
         /\ \A w \in Workers : job[w] = Idle => Rest(w) = {} /\ left[w] = {}
         /\ \A w \in Workers : job[w] # Idle => job[w].f \in Folders
         /\ \A i \in 1..Len(jobs) : jobs[i].uids \in SUBSET Uids
<1>1. \A w \in Workers : job[w] \in FetchJobs \union {Idle} /\ left[w] \subseteq job[w].uids
  BY DEF TypeInv, PoolTypes
<1>2. Idle.uids = {}
  BY DEF Idle
<1>3. \A i \in 1..Len(jobs) : jobs[i] \in FetchJobs
  BY ElementOfSeq DEF TypeInv, PoolTypes
<1> QED
  BY <1>1, <1>2, <1>3 DEF FetchJobs, Rest

(* A worker that takes a job moves its UIDs, no more.                      *)
LEMMA TakingPaid ==
  ASSUME TypeInv, PoolInv, OrphansTypes, Sized, Alone, Paid, NEW w \in Workers, TakeJob(w)
  PROVE  Sized' /\ Alone' /\ Paid'
<1>1. /\ pc = "receive" /\ Len(jobs) \in Nat \ {0}
      /\ Len(jobs') = Len(jobs) - 1
      /\ \A i \in 1..Len(jobs') : jobs'[i] = jobs[i + 1] /\ i + 1 \in 1..Len(jobs)
      /\ Head(jobs) = jobs[1] /\ 1 \in 1..Len(jobs)
  <2>1. jobs \in Seq(FetchJobs) /\ jobs # <<>> /\ jobs' = Tail(jobs)
    BY DEF TakeJob, TypeInv, PoolTypes
  <2>2. Len(jobs) \in Nat \ {0} /\ Len(jobs') = Len(jobs) - 1
        /\ (\A i \in 1..Len(jobs') : jobs'[i] = jobs[i + 1]) /\ Head(jobs) = jobs[1]
    BY <2>1, HeadTailProperties, EmptySeq, LenProperties
  <2> QED
    BY <2>1, <2>2 DEF PoolInv, Quiet
<1>2. /\ job' = [job EXCEPT ![w] = jobs[1]] /\ left' = [left EXCEPT ![w] = jobs[1].uids]
      /\ at' = [at EXCEPT ![w] = jobs[1].f] /\ job[w] = Idle
      /\ UNCHANGED <<pc, cur, valid, draft, orphans, drops, events>>
  BY <1>1 DEF TakeJob, runVars, archiveVars, historyVars
<1>3. /\ job'[w] = jobs[1] /\ \A x \in Workers : x # w => job'[x] = job[x]
      /\ (\A x \in Workers : x # w => Rest(x)' = Rest(x)) /\ Rest(w)' = jobs[1].uids
  BY <1>2 DEF TypeInv, PoolTypes, OrphansTypes, Rest
<1>4. Rest(w) = {}
  BY <1>2, JobUids
<1>5. Sized'
  BY <1>1, <1>3 DEF Sized
<1>6. Alone'
  <2>1. \A i, j \in 1..Len(jobs') : i # j => jobs'[i].uids \intersect jobs'[j].uids = {}
    <3>1. \A i, j \in 1..Len(jobs') : i # j => i + 1 # j + 1
      BY <1>1
    <3> QED
      BY <1>1, <3>1 DEF Alone
  <2>2. \A i \in 1..Len(jobs') : i + 1 # 1
    BY <1>1
  <2>3. \A x, y \in Workers : x # y => job'[x].uids \intersect job'[y].uids = {}
    BY <1>1, <1>3 DEF Alone
  <2>4. \A i \in 1..Len(jobs'), x \in Workers : jobs'[i].uids \intersect job'[x].uids = {}
    BY <1>1, <1>3, <2>2 DEF Alone
  <2> QED
    BY <2>1, <2>3, <2>4 DEF Alone
<1>7. ToCome' = ToCome
  <2>1. ASSUME NEW u \in Uids
        PROVE  (\E i \in 1..Len(jobs) : u \in jobs[i].uids)
                 <=> (u \in jobs[1].uids \/ \E i \in 1..Len(jobs') : u \in jobs'[i].uids)
    <3>1. ASSUME NEW i \in 1..Len(jobs), u \in jobs[i].uids, i # 1
          PROVE  \E j \in 1..Len(jobs') : u \in jobs'[j].uids
      <4>1. i - 1 \in 1..Len(jobs') /\ (i - 1) + 1 = i
        BY <1>1, <3>1
      <4> QED
        BY <1>1, <3>1, <4>1
    <3> QED
      BY <1>1, <3>1
  <2>2. ASSUME NEW u \in Uids
        PROVE  (\E x \in Workers : u \in Rest(x)')
                 <=> (u \in jobs[1].uids \/ \E x \in Workers : u \in Rest(x))
    BY <1>3, <1>4
  <2> QED
    BY <2>1, <2>2 DEF ToCome
<1>8. Paid'
  <2>1. {} \in SUBSET Uids /\ Cardinality({}) <= 0 * FetchBatch /\ drops' = drops + 0 /\ 0 \in Nat
    BY <1>2, FS_EmptySet, Constants DEF OrphansTypes
  <2> QED
    BY <1>1, <1>2, <1>7, <2>1, ResentPaid
<1> QED
  BY <1>5, <1>6, <1>8

(* A FETCH that goes on, or that starts over.                              *)
LEMMA FetchingPaid ==
  ASSUME TypeInv, PoolInv, OrphansTypes, Sized, Alone, Paid, NEW w \in Workers,
         Reconnect(w) \/ FetchAgain(w)
  PROVE  Sized' /\ Alone' /\ Paid'
<1>1. /\ pc = "receive" /\ job[w] # Idle
      /\ UNCHANGED <<pc, cur, valid, draft, orphans, jobs, events, job>>
  BY DEF Reconnect, FetchAgain, PoolInv, Quiet, Busy, runVars, archiveVars
<1>2. /\ \A x \in Workers : x # w => Rest(x)' = Rest(x)
      /\ Rest(w)' = job[w].uids
  BY <1>1 DEF Reconnect, FetchAgain, TypeInv, PoolTypes, OrphansTypes, Rest
<1>3. /\ Rest(w) \subseteq job[w].uids /\ job[w].uids \in SUBSET Uids
      /\ Cardinality(job[w].uids) <= FetchBatch
  BY JobUids DEF Sized
<1>4. Sized' /\ Alone'
  BY <1>1 DEF Sized, Alone
<1>5. ToCome \subseteq ToCome' /\ ToCome' \subseteq ToCome \union job[w].uids
  BY <1>1, <1>2, <1>3 DEF ToCome
<1>6. CASE Reconnect(w)
  <2>1. Rest(w) = job[w].uids /\ UNCHANGED drops
    BY <1>6 DEF Reconnect, Rest, historyVars
  <2>2. ToCome' \subseteq ToCome \union {}
    BY <1>1, <1>2, <2>1 DEF ToCome
  <2>3. {} \in SUBSET Uids /\ Cardinality({}) <= 0 * FetchBatch /\ drops' = drops + 0 /\ 0 \in Nat
    BY <2>1, FS_EmptySet, Constants DEF OrphansTypes
  <2> QED
    BY <1>1, <1>4, <1>5, <2>2, <2>3, ResentPaid
<1>7. CASE FetchAgain(w)
  <2>1. drops' = drops + 1
    BY <1>7 DEF FetchAgain
  <2>2. Cardinality(job[w].uids) <= 1 * FetchBatch
    BY <1>3, Constants
  <2> QED
    BY <1>1, <1>3, <1>4, <1>5, <2>1, <2>2, ResentPaid
<1> QED
  BY <1>6, <1>7

(* A chunk is over, whatever it returned.                                  *)
LEMMA ChunkDonePaid ==
  ASSUME TypeInv, PoolInv, OrphansTypes, Sized, Alone, Paid, NEW w \in Workers,
         Fetched(w) \/ GiveUp(w)
  PROVE  Sized' /\ Alone' /\ Paid'
<1> DEFINE done == [type |-> "done"]
<1>1. /\ pc = "receive" /\ job[w] # Idle
      /\ UNCHANGED <<pc, cur, valid, draft, orphans, jobs, drops>>
      /\ job' = [job EXCEPT ![w] = Idle] /\ left' = [left EXCEPT ![w] = {}]
      /\ events' = Append(events, done)
      /\ \A x \in Workers : x # w => at'[x] = at[x]
  BY DEF Fetched, GiveUp, ChunkDone, PoolInv, Quiet, Busy, runVars, archiveVars, historyVars, OrphansTypes
<1>2. /\ job'[w] = Idle /\ Idle.uids = {} /\ left'[w] = {}
      /\ \A x \in Workers : x # w => job'[x] = job[x] /\ left'[x] = left[x]
  BY <1>1 DEF TypeInv, PoolTypes, Idle
<1>3. Rest(w)' = {} /\ \A x \in Workers : x # w => Rest(x)' = Rest(x)
  BY <1>1, <1>2 DEF Rest
<1>4. Sized'
  <2>1. job'[w].uids = {}
    BY <1>2
  <2>2. Cardinality({}) <= FetchBatch
    BY FS_EmptySet, Constants
  <2>3. \A x \in Workers : Cardinality(job'[x].uids) <= FetchBatch
    BY <1>2, <2>1, <2>2 DEF Sized
  <2> QED
    BY <1>1, <2>3 DEF Sized
<1>5. Alone'
  BY <1>1, <1>2 DEF Alone
<1>6. /\ \A x \in Workers : x # w => Rest(x) \intersect Rest(w) = {}
      /\ \A i \in 1..Len(jobs) : jobs[i].uids \intersect Rest(w) = {}
      /\ Rest(w) \subseteq Uids
  BY JobUids DEF Alone
<1>7. ToCome' = ToCome \ Rest(w) /\ Rest(w) \in SUBSET ToCome
  BY <1>1, <1>3, <1>6 DEF ToCome
<1>8. /\ Cardinality(ItemsOf(events')) = Cardinality(ItemsOf(events))
      /\ UidsOf(events') = UidsOf(events)
  <2>1. done \in Events /\ done.type = "done" /\ events \in Seq(Events)
    BY DEF Events, DoneEvents, TypeInv, PoolTypes
  <2> QED
    BY <1>1, <2>1, ItemSent
<1>9. Paid'
  BY <1>1, <1>7, <1>8, FewerPaid
<1> QED
  BY <1>4, <1>5, <1>9

(* A message goes from its FETCH to the channel.                           *)
LEMMA StreamPaid ==
  ASSUME TypeInv, TypeInv', PoolInv, OrphansTypes, Sized, Alone, Paid, NEW w \in Workers,
         NEW u \in left[w], Stream(w, u)
  PROVE  Sized' /\ Alone' /\ Paid'
<1> DEFINE e == [type |-> "item", m |-> [f |-> job[w].f, v |-> uv[job[w].f], u |-> u],
                 flag |-> <<job[w].f, u>> \in seen]
<1>1. /\ pc = "receive" /\ job[w] # Idle /\ at[w] = job[w].f
      /\ UNCHANGED <<pc, cur, valid, draft, orphans, jobs, job, at, drops>>
      /\ left' = [left EXCEPT ![w] = @ \ {u}]
  BY DEF Stream, PoolInv, Quiet, Busy, runVars, archiveVars, historyVars
<1>2. /\ Rest(w) = left[w] /\ Rest(w)' = left[w] \ {u}
      /\ \A x \in Workers : x # w => Rest(x)' = Rest(x)
  BY <1>1 DEF Rest, TypeInv, PoolTypes
<1>3. Sized' /\ Alone'
  BY <1>1 DEF Sized, Alone
<1>4. /\ u \in Uids /\ u \in job[w].uids
      /\ \A x \in Workers : x # w => u \notin Rest(x)
      /\ \A i \in 1..Len(jobs) : u \notin jobs[i].uids
  BY <1>2, JobUids DEF Alone
<1>5. ToCome' = ToCome \ {u} /\ u \in ToCome
  BY <1>1, <1>2, <1>4 DEF ToCome
<1>6. CASE events' = events
  <2>1. {u} \in SUBSET ToCome
    BY <1>5
  <2> QED
    BY <1>1, <1>3, <1>5, <1>6, <2>1, FewerPaid
<1>7. CASE events' = Append(events, e)
  <2>1. e \in Events /\ e.type = "item" /\ e.m.u = u
    <3>1. events \in Seq(Events) /\ events' \in Seq(Events)
      BY DEF TypeInv, PoolTypes
    <3> HIDE DEF e
    <3>2. Len(events) \in Nat /\ Len(events') = Len(events) + 1 /\ events'[Len(events) + 1] = e
      BY <1>7, <3>1
    <3>3. e \in Events
      BY <3>1, <3>2, ElementOfSeq
    <3> QED
      BY <3>3 DEF e
  <2>2. events \in Seq(Events)
    BY DEF TypeInv, PoolTypes
  <2> HIDE DEF e
  <2>3. /\ Cardinality(ItemsOf(events')) = Cardinality(ItemsOf(events)) + 1
        /\ UidsOf(events') = UidsOf(events) \union {u}
    BY <1>7, <2>1, <2>2, ItemSent
  <2>4. Cardinality(ToCome') = Cardinality(ToCome) - 1
    BY <1>5, ToComeCounted, FS_RemoveElement
  <2>5. Pending' = Pending
    <3>1. DraftUids' = DraftUids
      BY <1>1 DEF DraftUids
    <3> QED
      BY <1>5, <2>3, <3>1 DEF Pending
  <2>6. draft.orphans + Cardinality(ToCome') + Cardinality(ItemsOf(events'))
          = draft.orphans + Cardinality(ToCome) + Cardinality(ItemsOf(events))
    <3>1. /\ draft.orphans \in Nat /\ Cardinality(ToCome) \in Nat
          /\ Cardinality(ItemsOf(events)) \in Nat
      BY <2>2, ToComeCounted, ItemsCounted DEF TypeInv, RunTypes
    <3>2. \A a, t, i \in Nat : a + (t - 1) + (i + 1) = a + t + i
      OBVIOUS
    <3> QED
      BY <2>3, <2>4, <3>1, <3>2
  <2> QED
    BY <1>1, <1>3, <2>5, <2>6 DEF Paid
<1> QED
  BY <1>6, <1>7, Zenon DEF Stream

(* A folder that is rebuilt makes the connections that have it selected    *)
(* start over.                                                             *)
LEMMA RebuildPaid ==
  ASSUME TypeInv, PoolInv, OrphansTypes, Sized, Alone, Paid, NEW f \in Folders, Rebuild(f)
  PROVE  Sized' /\ Alone' /\ Paid' /\ drops' \in Nat
<1> DEFINE W == {w \in Workers : at[w] = f /\ job[w] # Idle}
           X == {u \in Uids : \E w \in W : u \in job[w].uids}
<1>1. /\ UNCHANGED <<pc, cur, valid, draft, orphans, jobs, events, job, left>>
      /\ at' = [x \in Workers |-> IF at[x] = f THEN 0 ELSE at[x]]
      /\ drops' = drops + Cardinality(W)
  BY DEF Rebuild, runVars, archiveVars
<1>2. Sized' /\ Alone'
  BY <1>1 DEF Sized, Alone
<1>3. Cardinality(W) \in Nat /\ Cardinality(X) <= Cardinality(W) * FetchBatch
  <2>1. W \in SUBSET Workers /\ X \in SUBSET Uids /\ \A u \in X : \E w \in W : u \in job[w].uids
    OBVIOUS
  <2> HIDE DEF W, X
  <2> QED
    BY <2>1, JobsSized
<1>4. \A w \in Workers : /\ Rest(w) \subseteq Rest(w)'
                         /\ Rest(w)' = Rest(w) \/ (w \in W /\ Rest(w)' = job[w].uids)
  <2> TAKE w \in Workers
  <2>1. CASE at[w] # f
    BY <1>1, <2>1 DEF Rest
  <2>2. CASE at[w] = f /\ job[w] = Idle
    <3>1. Rest(w) = {} /\ left[w] = {} /\ job[w].uids = {}
      BY <2>2, JobUids DEF Idle
    <3> QED
      BY <1>1, <3>1 DEF Rest
  <2>3. CASE at[w] = f /\ job[w] # Idle
    <3>1. job[w].f # 0 /\ Rest(w) \subseteq job[w].uids
      BY <2>3, JobUids, Constants
    <3>2. Rest(w)' = job[w].uids
      BY <1>1, <2>3, <3>1 DEF Rest
    <3> QED
      BY <2>3, <3>1, <3>2
  <2> QED
    BY <2>1, <2>2, <2>3
<1>5. ToCome \subseteq ToCome' /\ ToCome' \subseteq ToCome \union X
  BY <1>1, <1>4 DEF ToCome
<1>6. X \in SUBSET Uids /\ drops \in Nat /\ orphans \in Nat /\ FetchBatch \in Nat
  BY Constants DEF OrphansTypes, TypeInv, ArchiveTypes
<1> HIDE DEF W, X
<1>7. Paid'
  <2>1. CASE pc = "receive"
    BY <1>1, <1>3, <1>5, <1>6, <2>1, ResentPaid
  <2>2. CASE pc # "receive"
    <3>1. orphans <= (drops + Cardinality(W)) * FetchBatch
      BY <1>3, <1>6, StillPaid DEF Paid
    <3> QED
      BY <1>1, <2>2, <3>1 DEF Paid
  <2> QED
    BY <2>1, <2>2
<1>8. drops' \in Nat
  BY <1>1, <1>3, <1>6
<1> QED
  BY <1>2, <1>7, <1>8

(* A message is received: it takes the place of what the transaction has   *)
(* under its UID, if anything.                                             *)
LEMMA ReceivePaid ==
  ASSUME TypeInv, PoolInv, DraftInv, OrphansTypes, Sized, Alone, Paid, ReceiveItem
  PROVE  Sized' /\ Alone' /\ Paid'
<1> DEFINE m == Head(events).m
           old == {r \in draft.index : r.f = cur /\ r.v = valid /\ r.u = m.u}
           row == [f |-> cur, v |-> valid, u |-> m.u, m |-> m, flag |-> Head(events).flag]
<1>1. /\ pc = "receive" /\ events \in Seq(Events) /\ events # <<>> /\ Head(events).type = "item"
      /\ events' = Tail(events)
      /\ UNCHANGED <<pc, cur, valid, orphans, jobs, job, at, left, drops>>
      /\ draft'.index = (draft.index \ old) \union {row}
      /\ draft'.orphans = Counted(draft.orphans + Cardinality(old))
  BY DEF ReceiveItem, TypeInv, PoolTypes, archiveVars, historyVars, Inserted, Validity
<1>2. Sized' /\ Alone' /\ ToCome' = ToCome
  BY <1>1 DEF Sized, Alone, ToCome, Rest
<1>3. /\ Cardinality(ItemsOf(events')) = Cardinality(ItemsOf(events)) - 1
      /\ m.u \in UidsOf(events) /\ UidsOf(events) = UidsOf(events') \union {m.u}
  BY <1>1, ItemRead
<1>4. m.u \in Uids
  BY <1>3 DEF UidsOf
<1>5. DraftUids' = DraftUids \union {m.u}
  <2>1. row.f = cur /\ row.v = valid /\ row.u = m.u
    OBVIOUS
  <2>2. \A r \in draft.index : r \in old => r.u = m.u
    OBVIOUS
  <2> HIDE DEF row, old
  <2> QED
    BY <1>1, <1>4, <2>1, <2>2 DEF DraftUids
<1>6. IsFiniteSet(old) /\ Cardinality(old) \in Nat
  BY FS_Subset, FS_CardinalityType DEF TypeInv, RunTypes
<1>7. Cardinality(old) <= 1
  <2>1. \A r, q \in old : r = q
    BY DEF DraftInv, Unique, Distinct, KeyOf
  <2>2. CASE old = {}
    BY <2>2, FS_EmptySet
  <2>3. CASE old # {}
    <3>1. PICK r : old = {r}
      BY <2>1, <2>3
    <3>2. Cardinality({r}) = 1
      BY FS_Singleton
    <3> HIDE DEF old
    <3>3. Cardinality(old) = 1
      BY <3>1, <3>2
    <3> QED
      BY <3>3
  <2> QED
    BY <2>2, <2>3
<1>8. m.u \notin DraftUids => Cardinality(old) = 0
  <2>1. m.u \notin DraftUids => old = {}
    BY <1>4 DEF DraftUids
  <2> QED
    BY <2>1, FS_EmptySet
<1>9. draft'.orphans \in Nat /\ draft'.orphans <= draft.orphans + Cardinality(old)
  BY <1>1, <1>6, Constants DEF Counted, TypeInv, RunTypes
<1> HIDE DEF old, row
<1>10. /\ draft.orphans \in Nat /\ Cardinality(ToCome) \in Nat /\ Cardinality(ItemsOf(events)) \in Nat
       /\ Cardinality(Pending) \in Nat /\ Cardinality(Pending') \in Nat /\ drops * FetchBatch \in Nat
  <2>1. drops \in Nat /\ FetchBatch \in Nat
    BY Constants DEF OrphansTypes
  <2>2. drops * FetchBatch \in Nat
    BY <2>1, Z3
  <2> QED
    BY <1>1, <2>2, ToComeCounted, ItemsCounted DEF TypeInv, RunTypes
<1>11. Cardinality(Pending') >= Cardinality(Pending) + Cardinality(old) - 1
  <2>1. CASE m.u \in DraftUids
    <3>1. Pending' = Pending
      BY <1>2, <1>3, <1>5, <2>1 DEF Pending
    <3> QED
      BY <1>6, <1>7, <1>10, <3>1
  <2>2. CASE m.u \notin DraftUids
    <3>1. Pending \ {m.u} \subseteq Pending'  \/ Pending' = Pending \ {m.u}
      BY <1>2, <1>3, <1>5, <2>2 DEF Pending
    <3>2. IsFiniteSet(Pending \ {m.u}) /\ Cardinality(Pending \ {m.u}) >= Cardinality(Pending) - 1
          /\ Cardinality(Pending \ {m.u}) \in Nat
      <4>1. /\ IsFiniteSet(Pending \ {m.u})
            /\ Cardinality(Pending \ {m.u}) = IF m.u \in Pending THEN Cardinality(Pending) - 1
                                                                 ELSE Cardinality(Pending)
        BY ToComeCounted, FS_RemoveElement
      <4>2. Cardinality(Pending \ {m.u}) \in Nat
        BY <4>1, FS_CardinalityType
      <4> QED
        BY <1>10, <4>1, <4>2
    <3>3. Cardinality(Pending \ {m.u}) <= Cardinality(Pending')
      BY <3>1, <3>2, ToComeCounted, FS_Subset
    <3> QED
      BY <1>6, <1>8, <1>10, <2>2, <3>2, <3>3
  <2> QED
    BY <2>1, <2>2
<1>12. draft'.orphans + Cardinality(ToCome') + Cardinality(ItemsOf(events'))
         <= drops * FetchBatch + Cardinality(Pending')
  <2>1. \A a, b, c, t, i, p, q, k \in Nat :
          a + t + i <= k + p /\ b <= a + c /\ q >= p + c - 1 => b + t + (i - 1) <= k + q
    OBVIOUS
  <2>2. draft.orphans + Cardinality(ToCome) + Cardinality(ItemsOf(events))
          <= drops * FetchBatch + Cardinality(Pending)
    BY <1>1 DEF Paid
  <2> QED
    BY <1>2, <1>3, <1>6, <1>9, <1>10, <1>11, <2>1, <2>2
<1>13. Paid'
  BY <1>1, <1>12 DEF Paid
<1> QED
  BY <1>2, <1>13

(* Nothing is on its way and no folder waits.                              *)
LEMMA QuietPaid ==
  ASSUME TypeInv', PoolInv', Paid, pc' # "receive", orphans' <= drops * FetchBatch, drops' = drops
  PROVE  Sized' /\ Alone' /\ Paid'
<1>1. jobs' = <<>> /\ \A w \in Workers : job'[w] = Idle
  BY DEF PoolInv, Quiet, Busy
<1>2. Len(jobs') = 0 /\ \A w \in Workers : job'[w].uids = {}
  BY <1>1 DEF Idle
<1>3. Cardinality({}) <= FetchBatch
  BY FS_EmptySet, Constants
<1>4. Sized'
  <2>1. \A w \in Workers : Cardinality(job'[w].uids) <= FetchBatch
    BY <1>2, <1>3
  <2> QED
    BY <1>2, <2>1 DEF Sized
<1>5. Alone'
  BY <1>2 DEF Alone
<1>6. Paid'
  BY DEF Paid
<1> QED
  BY <1>4, <1>5, <1>6

(* A chunk is reported; with the last, the transaction is committed, and   *)
(* nothing is pending.                                                     *)
LEMMA DonePaid ==
  ASSUME TypeInv, TypeInv', PoolInv, OrphansTypes, Sized, Alone, Paid, ReceiveDone
  PROVE  Sized' /\ Alone' /\ Paid'
<1>1. /\ pc = "receive" /\ events \in Seq(Events) /\ events # <<>> /\ Head(events).type = "done"
      /\ events' = Tail(events)
      /\ UNCHANGED <<cur, valid, jobs, job, at, left, drops>>
  BY DEF ReceiveDone, TypeInv, PoolTypes, historyVars
<1>2. Sized' /\ Alone' /\ ToCome' = ToCome
  BY <1>1 DEF Sized, Alone, ToCome, Rest
<1>3. /\ Cardinality(ItemsOf(events')) = Cardinality(ItemsOf(events))
      /\ UidsOf(events') = UidsOf(events)
  BY <1>1, ItemRead
<1>4. CASE waiting' # 0
  <2>1. UNCHANGED <<pc, orphans, draft>>
    BY <1>4 DEF ReceiveDone
  <2>2. {} \in SUBSET ToCome /\ ToCome' = ToCome \ {}
    BY <1>2
  <2> QED
    BY <1>1, <1>2, <1>3, <2>1, <2>2, FewerPaid
<1>5. CASE waiting' = 0
  <2>1. pc' = "flags" /\ orphans' = draft.orphans
    BY <1>5 DEF ReceiveDone
  <2>2. PoolInv'
    BY ReceiveKeepsPool
  <2>3. jobs = <<>> /\ events' = <<>> /\ \A w \in Workers : job[w] = Idle
    BY <1>1, <2>1, <2>2 DEF PoolInv, Quiet, Busy
  <2>4. ToCome = {}
    <3>1. Len(jobs) = 0 /\ \A w \in Workers : Rest(w) = {}
      BY <2>3, JobUids
    <3> QED
      BY <3>1 DEF ToCome
  <2>5. Len(events') = 0
    BY <2>3
  <2>6. ItemsOf(events') = {} /\ UidsOf(events') = {}
    BY <2>5 DEF ItemsOf, UidsOf
  <2>7. Pending = {}
    BY <1>3, <2>4, <2>6 DEF Pending
  <2>8. Cardinality(ToCome) = 0 /\ Cardinality(ItemsOf(events)) = 0 /\ Cardinality(Pending) = 0
    BY <1>3, <2>4, <2>6, <2>7, FS_EmptySet
  <2>9. draft.orphans <= drops * FetchBatch
    <3>1. drops \in Nat /\ FetchBatch \in Nat /\ draft.orphans \in Nat
      BY Constants DEF OrphansTypes, TypeInv, RunTypes
    <3>2. drops * FetchBatch \in Nat
      BY <3>1, Z3
    <3>3. draft.orphans + 0 + 0 <= drops * FetchBatch + 0
      BY <1>1, <2>8 DEF Paid
    <3> QED
      BY <3>1, <3>2, <3>3
  <2> QED
    BY <1>1, <2>1, <2>2, <2>9, QuietPaid
<1> QED
  BY <1>4, <1>5

(* The new UIDs are cut into chunks: each is to come once, and none is in  *)
(* the transaction.                                                        *)
LEMMA EnumeratePaid ==
  ASSUME TypeInv, TypeInv', PoolInv, OrphansTypes, Paid, Enumerate
  PROVE  Sized' /\ Alone' /\ Paid'
<1> DEFINE S == DiffUids(ArchivedUids(cur, valid), on[cur]).new
           n == NumChunks(S)
           chunks == [i \in 1..n |-> [f |-> cur, uids |-> Chunk(S, i)]]
<1>1. /\ jobs = <<>> /\ events = <<>> /\ \A w \in Workers : job[w] = Idle
  BY DEF PoolInv, Quiet, Enumerate, Busy
<1>2. S \in SUBSET Uids /\ n \in Nat
  <2>1. cur \in Folders
    BY DEF Enumerate, TypeInv, RunTypes
  <2>2. S \in SUBSET Uids
    BY <2>1 DEF DiffUids, TypeInv, ServerTypes
  <2> QED
    BY <2>2, ChunksCounted, Constants
<1>3. UNCHANGED <<orphans, drops, cur, valid, events, job, at, left>> /\ jobs' = jobs \o chunks
  BY Zenon DEF Enumerate, historyVars
<1>4. Len(chunks) = n /\ \A i \in 1..n : chunks[i].uids = Chunk(S, i)
  BY <1>2
<1>5. jobs' = chunks
  <2>1. chunks \in Seq({chunks[i] : i \in 1..n})
    BY <1>2
  <2> HIDE DEF chunks
  <2> QED
    BY <1>1, <1>3, <2>1, ConcatEmptySeq
<1>6. CASE pc' # "receive"
  <2>1. PoolInv'
    BY EnumerateKeepsPool
  <2> QED
    BY <1>3, <1>6, <2>1, QuietPaid DEF Paid
<1>7. CASE pc' = "receive"
  <2>1. draft'.index \subseteq index /\ draft'.orphans = orphans
    BY <1>7 DEF Enumerate
  <2> HIDE DEF chunks, n, S
  <2>2. Len(jobs') = n /\ \A i \in 1..n : jobs'[i].uids = Chunk(S, i)
    BY <1>4, <1>5
  <2>3. \A w \in Workers : job'[w].uids = {} /\ Rest(w)' = {}
    BY <1>1, <1>3, JobUids DEF Rest, Idle
  <2>4. \A i \in 1..n : i \in Nat \ {0}
    BY <1>2
  <2>5. Sized'
    <3>1. Cardinality({}) <= FetchBatch
      BY FS_EmptySet, Constants
    <3>2. \A i \in 1..n : Cardinality(Chunk(S, i)) <= FetchBatch
      BY <1>2, <2>4, ChunksSized
    <3>3. \A w \in Workers : Cardinality(job'[w].uids) <= FetchBatch
      BY <2>3, <3>1
    <3> QED
      BY <2>2, <3>2, <3>3 DEF Sized
  <2>6. Alone'
    <3>1. \A i, j \in 1..n : i # j => Chunk(S, i) \intersect Chunk(S, j) = {}
      BY <1>2, <2>4, ChunksSized
    <3> QED
      BY <2>2, <2>3, <3>1 DEF Alone
  <2>7. ToCome' \subseteq S
    <3>1. \A i \in 1..n : Chunk(S, i) \subseteq S
      BY DEF Chunk
    <3> QED
      BY <2>2, <2>3, <3>1 DEF ToCome
  <2>8. DraftUids' \intersect S = {}
    <3>1. S \intersect ArchivedUids(cur, valid) = {}
      BY DEF S, DiffUids
    <3>2. DraftUids' \subseteq ArchivedUids(cur, valid)
      BY <1>3, <2>1 DEF DraftUids, ArchivedUids, RowsOf
    <3> QED
      BY <3>1, <3>2
  <2>9. Len(events') = 0
    BY <1>1, <1>3
  <2>10. ItemsOf(events') = {} /\ UidsOf(events') = {}
    BY <2>9 DEF ItemsOf, UidsOf
  <2>11. Pending' = ToCome'
    BY <2>7, <2>8, <2>10 DEF Pending
  <2>12. Cardinality(ItemsOf(events')) = 0
    BY <2>10, FS_EmptySet
  <2>13. draft'.orphans + Cardinality(ToCome') + Cardinality(ItemsOf(events'))
           <= drops' * FetchBatch + Cardinality(Pending')
    <3>1. drops \in Nat /\ FetchBatch \in Nat /\ orphans \in Nat
      BY Constants DEF OrphansTypes, TypeInv, ArchiveTypes
    <3>2. drops * FetchBatch \in Nat
      BY <3>1, Z3
    <3>3. orphans <= drops * FetchBatch
      BY DEF Paid
    <3>4. \A o, t, k \in Nat : o <= k => o + t + 0 <= k + t
      OBVIOUS
    <3> QED
      BY <1>3, <2>1, <2>11, <2>12, <3>1, <3>2, <3>3, <3>4, ToComeCounted
  <2> QED
    BY <1>3, <2>5, <2>6, <2>13 DEF Paid
<1> QED
  BY <1>6, <1>7

(* Every step keeps what the connections have.                             *)
LEMMA OrphansTypesKept ==
  ASSUME TypeInv, OrphansTypes, [Next]_vars
  PROVE  /\ at' \in [Workers -> {0} \union Folders]
         /\ drops' = drops \/ drops' = drops + 1 \/ \E f \in Folders : Rebuild(f)
<1>1. CASE Server
  <2>1. CASE \E f \in Folders : Rebuild(f)
    <3>1. at' \in [Workers -> {0} \union Folders]
      BY <2>1 DEF Rebuild, OrphansTypes
    <3> QED
      BY <2>1, <3>1
  <2>2. CASE ~\E f \in Folders : Rebuild(f)
    <3>1. UNCHANGED <<at, drops>>
      BY <1>1, <2>2 DEF Server, Arrive, Expunge, Flag, poolVars, historyVars
    <3> QED
      BY <3>1 DEF OrphansTypes
  <2> QED
    BY <2>1, <2>2
<1>2. CASE Control \/ FolderFails \/ ItemFails \/ Abort
  <2>1. UNCHANGED drops
    BY <1>2 DEF Control, Start, SkipEmpty, Select, Enumerate, ReceiveItem, ReceiveDone, RefreshFlags,
                Store, FolderFails, ItemFails, Abort, historyVars
  <2>2. at' = at \/ at' = NoFolder
    BY <1>2 DEF Control, Start, SkipEmpty, Select, Enumerate, ReceiveItem, ReceiveDone, RefreshFlags,
                Store, FolderFails, ItemFails, Abort, Leave, Shutdown, poolVars
  <2> QED
    BY <2>1, <2>2 DEF NoFolder, OrphansTypes
<1>3. ASSUME NEW w \in Workers, WorkerStep(w) \/ GiveUp(w) \/ FetchAgain(w)
      PROVE  at' \in [Workers -> {0} \union Folders] /\ (drops' = drops \/ drops' = drops + 1)
  <2>1. drops' = drops \/ drops' = drops + 1
    BY <1>3 DEF WorkerStep, TakeJob, Reconnect, Stream, Fetched, GiveUp, FetchAgain, ChunkDone, historyVars
  <2>2. CASE TakeJob(w)
    <3>1. Head(jobs).f \in Folders
      <4>1. jobs \in Seq(FetchJobs) /\ jobs # <<>>
        BY <2>2 DEF TakeJob, TypeInv, PoolTypes
      <4>2. Head(jobs) \in FetchJobs
        BY <4>1, HeadTailProperties
      <4> QED
        BY <4>2 DEF FetchJobs
    <3> QED
      BY <2>1, <2>2, <3>1 DEF TakeJob, OrphansTypes
  <2>3. CASE Reconnect(w)
    <3>1. job[w].f \in Folders
      BY <2>3, JobUids DEF Reconnect
    <3> QED
      BY <2>1, <2>3, <3>1 DEF Reconnect, OrphansTypes
  <2>4. CASE at' = at \/ at' = [at EXCEPT ![w] = 0]
    BY <2>1, <2>4 DEF OrphansTypes
  <2> QED
    BY <1>3, <2>2, <2>3, <2>4 DEF WorkerStep, Stream, Fetched, GiveUp, FetchAgain
<1>4. CASE UNCHANGED vars
  BY <1>4 DEF vars, OrphansTypes
<1> QED
  BY <1>1, <1>2, <1>3, <1>4 DEF Next

(* Every step keeps the account of what was sent again.                    *)
LEMMA OrphansKept == TypeInv /\ FiledInv /\ DraftInv /\ OrphansInv /\ [Next]_vars => OrphansInv'
<1> SUFFICES ASSUME TypeInv, FiledInv, DraftInv, OrphansInv, [Next]_vars PROVE OrphansInv'
  OBVIOUS
<1>t. TypeInv' /\ FiledInv' /\ OrphansTypes
  BY TypesKept, FiledKept DEF OrphansInv
<1>1. strays' = {} => strays = {}
  BY StraysGrow
<1>2. OrphansTypes'
  <2>1. CASE \E f \in Folders : Rebuild(f)
    <3>1. PICK f \in Folders : Rebuild(f)
      BY <2>1
    <3>2. IsFiniteSet({w \in Workers : at[w] = f /\ job[w] # Idle})
      BY PoolAssumption, FS_Subset
    <3>3. drops' \in Nat
      BY <1>t, <3>1, <3>2, FS_CardinalityType DEF Rebuild, OrphansTypes
    <3> QED
      BY <1>t, <3>3, OrphansTypesKept DEF OrphansTypes
  <2>2. CASE ~\E f \in Folders : Rebuild(f)
    BY <1>t, <2>2, OrphansTypesKept DEF OrphansTypes
  <2> QED
    BY <2>1, <2>2
<1> SUFFICES ASSUME strays' = {} PROVE Sized' /\ Alone' /\ Paid'
  BY <1>2 DEF OrphansInv
<1>3. PoolInv /\ PoolInv' /\ Sized /\ Alone /\ Paid
  BY <1>1, <1>t DEF FiledInv, OrphansInv
<1>4. CASE Server
  <2>1. CASE \E f \in Folders : Rebuild(f)
    BY <1>t, <1>3, <2>1, RebuildPaid
  <2>2. CASE ~\E f \in Folders : Rebuild(f)
    <3>1. UNCHANGED <<pc, cur, valid, draft, orphans, jobs, events, job, at, left, drops>>
      BY <1>4, <2>2 DEF Server, Arrive, Expunge, Flag, poolVars, runVars, archiveVars, historyVars
    <3> QED
      BY <1>3, <3>1 DEF Sized, Alone, Paid, ToCome, Pending, DraftUids, Rest
  <2> QED
    BY <2>1, <2>2
<1>5. CASE Start \/ SkipEmpty \/ Select \/ RefreshFlags \/ Store \/ FolderFails \/ ItemFails \/ Abort
  <2>1. pc' # "receive" /\ orphans' = orphans /\ drops' = drops
    BY <1>5 DEF Start, SkipEmpty, Select, RefreshFlags, Store, FolderFails, ItemFails, Abort, Leave,
                Shutdown, archiveVars, historyVars
  <2> QED
    BY <1>t, <1>3, <2>1, QuietPaid DEF Paid
<1>6. CASE Enumerate
  BY <1>t, <1>3, <1>6, EnumeratePaid
<1>7. CASE ReceiveItem
  BY <1>t, <1>3, <1>7, ReceivePaid
<1>8. CASE ReceiveDone
  BY <1>t, <1>3, <1>8, DonePaid
<1>9. ASSUME NEW w \in Workers, WorkerStep(w) \/ GiveUp(w) \/ FetchAgain(w)
      PROVE  Sized' /\ Alone' /\ Paid'
  BY <1>t, <1>3, <1>9, TakingPaid, FetchingPaid, ChunkDonePaid, StreamPaid DEF WorkerStep
<1>10. CASE UNCHANGED vars
  BY <1>3, <1>10 DEF vars, Sized, Alone, Paid, ToCome, Pending, DraftUids, Rest
<1> QED
  BY <1>4, <1>5, <1>6, <1>7, <1>8, <1>9, <1>10 DEF Next, Control

(* At first nothing is archived and nothing on its way.                    *)
LEMMA OrphansAtFirst == Init => OrphansInv
<1> SUFFICES ASSUME Init PROVE OrphansInv
  OBVIOUS
<1>1. OrphansTypes
  BY DEF Init, OrphansTypes, NoFolder
<1>2. Len(jobs) = 0 /\ \A w \in Workers : job[w].uids = {}
  BY DEF Init, NoJobs, Idle
<1>3. Cardinality({}) <= FetchBatch
  BY FS_EmptySet, Constants
<1>4. Sized
  <2>1. \A w \in Workers : Cardinality(job[w].uids) <= FetchBatch
    BY <1>2, <1>3
  <2> QED
    BY <1>2, <2>1 DEF Sized
<1>5. Alone
  BY <1>2 DEF Alone
<1>6. Paid
  BY Constants DEF Init, Paid
<1> QED
  BY <1>1, <1>4, <1>5, <1>6 DEF OrphansInv

(* At most one row is reachable under one folder, UIDVALIDITY and UID; and *)
(* the rows nothing points to are no more than a chunk for each FETCH that *)
(* was sent again, for any number of folders, workers, changes and faults: *)
(* the pool's retry is the only way to insert a message twice.             *)
THEOREM NothingTwice == Spec => []NoDuplicates
<1>1. Init => TypeInv /\ FiledInv /\ DraftInv /\ OrphansInv
  <2>1. Init => DraftInv
    BY DEF Init, DraftInv, Drafted, Unique, Distinct, NoTx
  <2> QED
    BY <2>1, InitTypes, FiledAtFirst, OrphansAtFirst
<1>2. TypeInv /\ FiledInv /\ DraftInv /\ OrphansInv /\ [Next]_vars
        => (TypeInv /\ FiledInv /\ DraftInv /\ OrphansInv)'
  BY TypesKept, FiledKept, DraftKept, OrphansKept
<1>3. DraftInv /\ OrphansInv => NoDuplicates
  BY DEF DraftInv, Unique, Distinct, KeyOf, OrphansInv, Paid, NoDuplicates
<1> QED
  BY <1>1, <1>2, <1>3, PTL DEF Spec
=============================================================================
