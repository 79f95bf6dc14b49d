----------------------------- MODULE ImapImport -----------------------------
(***************************************************************************)
(* The importer's reconciliation of the emails of IMAP folders             *)
(* (reconcile_folder in src/src/sync/import_imap/coordinator.rs) with its  *)
(* pool of fetching connections (pool.rs), run after run.                  *)
(*                                                                         *)
(* The control connection takes the folders one after the other: SELECT,   *)
(* list the UIDs, delete what vanished, hand out chunks of new UIDs, and   *)
(* insert, in one transaction, the messages the workers stream back; then  *)
(* refresh the flags of the present ones and store the UIDVALIDITY.  All   *)
(* folders share one job channel and one event channel, and an event is    *)
(* taken for the folder that is being reconciled when it is received.      *)
(*                                                                         *)
(* A message is known by the folder, the UIDVALIDITY and the UID under     *)
(* which the server has it.  The list of folders does not change here.     *)
(***************************************************************************)
EXTENDS Integers, FiniteSets, Sequences

CONSTANTS
  NumFolders,   (* the selectable folders are 1..NumFolders, in run order  *)
  MaxUid,       (* bound on the UIDs of a folder                           *)
  Workers,      (* the pool's threads                                      *)
  FetchBatch,   (* --fetch-batch                                           *)
  MaxChanges,   (* bound on the changes the server makes                   *)
  MaxFaults,    (* bound on errors, dropped connections and crashes        *)
  MaxOrphans    (* bound on the orphaned rows that are counted             *)

Folders == 1..NumFolders
Uids == 1..MaxUid
Validities == 1..(MaxChanges + 1)
Messages == [f : Folders, v : Validities, u : Uids]

ASSUME FoldersAssumption == NumFolders \in Nat \ {0} /\ MaxUid \in Nat
ASSUME PoolAssumption == IsFiniteSet(Workers) /\ FetchBatch \in Nat \ {0}
ASSUME BoundsAssumption ==
  {MaxChanges, MaxFaults, MaxOrphans} \subseteq Nat

VARIABLES
  uv,         (* server: [folder -> UIDVALIDITY]                           *)
  on,         (* server: [folder -> the UIDs it has]                       *)
  next,       (* server: [folder -> UIDNEXT]                               *)
  seen,       (* server: the flagged messages, as <<folder, uid>>          *)
  changes,    (* server: how many changes it made                          *)
  index,      (* archive: sync_id_imap and the emails rows it points to    *)
  orphans,    (* archive: emails rows no sync id points to                 *)
  stored,     (* archive: [folder -> imap_folder_state, 0 when none]       *)
  pc,         (* where run_into and reconcile_folder are                   *)
  cur,        (* the folder of the loop                                    *)
  listed,     (* [folder -> UIDVALIDITY if LIST-STATUS says it is empty]   *)
  valid,      (* reconcile_folder: uidvalidity                             *)
  present,    (* reconcile_folder: diff.present                            *)
  waiting,    (* reconcile_folder: n_batches - chunks_done                 *)
  draft,      (* the open transaction: index and orphans as it sees them   *)
  jobs,       (* the job channel                                           *)
  events,     (* the event channel                                         *)
  job,        (* [worker -> the FetchJob it runs, or Idle]                 *)
  at,         (* [worker -> the folder its connection has selected, or 0]  *)
  left,       (* [worker -> the UIDs its FETCH has not returned yet]       *)
  faults,     (* how many faults happened                                  *)
  drops,      (* history: FETCHes that were sent again                     *)
  strays,     (* history: the folders that came in a run after one that    *)
              (* was left with events on their way                         *)
  early       (* history: folders with old rows and no state to tell so    *)

serverVars == <<uv, on, next, seen, changes>>
archiveVars == <<index, orphans, stored>>
runVars == <<pc, cur, listed, valid, present, waiting, draft>>
poolVars == <<jobs, events, job, at, left>>
historyVars == <<drops, strays, early>>
vars == <<uv, on, next, seen, changes, index, orphans, stored, pc, cur, listed, valid,
          present, waiting, draft, jobs, events, job, at, left, faults, drops,
          strays, early>>

Idle == [f |-> 0, uids |-> {}]
NoTx == [index |-> {}, orphans |-> 0]
Phases == {"idle", "folder", "enumerate", "receive", "flags", "store"}

(* The rows of a folder, and the UIDs archived under one UIDVALIDITY.      *)
RowsOf(f) == {r \in index : r.f = f}
ArchivedUids(f, v) == {r.u : r \in {q \in RowsOf(f) : q.v = v}}

Empty == [f \in Folders |-> 0]

NoJobs == [w \in Workers |-> Idle]
NoFolder == [w \in Workers |-> 0]
NoUids == [w \in Workers |-> {}]

Init ==
  /\ uv = [f \in Folders |-> 1]
  /\ on \in [Folders -> {{}, Uids}]
  /\ next = [f \in Folders |-> Cardinality(on[f]) + 1]
  /\ seen = {} /\ changes = 0
  /\ index = {} /\ orphans = 0 /\ stored = Empty
  /\ pc = "idle" /\ cur = 0 /\ listed = Empty /\ valid = 0
  /\ present = {} /\ waiting = 0 /\ draft = NoTx
  /\ jobs = <<>> /\ events = <<>> /\ job = NoJobs /\ at = NoFolder /\ left = NoUids
  /\ faults = 0 /\ drops = 0 /\ strays = {} /\ early = {}

-----------------------------------------------------------------------------
(* The server. *)

Changing == changes < MaxChanges /\ changes' = changes + 1

Arrive(f) ==
  /\ Changing
  /\ next[f] \in Uids
  /\ on' = [on EXCEPT ![f] = @ \union {next[f]}]
  /\ next' = [next EXCEPT ![f] = @ + 1]
  /\ UNCHANGED <<uv, seen, archiveVars, runVars, poolVars, faults, historyVars>>

Expunge(f, u) ==
  /\ Changing
  /\ on' = [on EXCEPT ![f] = @ \ {u}]
  /\ seen' = seen \ {<<f, u>>}
  /\ UNCHANGED <<uv, next, archiveVars, runVars, poolVars, faults, historyVars>>

Flag(f, u) ==
  /\ Changing
  /\ <<f, u>> \notin seen
  /\ seen' = seen \union {<<f, u>>}
  /\ UNCHANGED <<uv, on, next, archiveVars, runVars, poolVars, faults, historyVars>>

(* The folder gets a new UIDVALIDITY and new UIDs; the connections that    *)
(* have it selected are dropped.                                           *)
Rebuild(f) ==
  /\ Changing
  /\ uv' = [uv EXCEPT ![f] = @ + 1]
  /\ on' = [on EXCEPT ![f] = 1..Cardinality(@)]
  /\ next' = [next EXCEPT ![f] = Cardinality(on[f]) + 1]
  /\ seen' = {m \in seen : m[1] # f}
  /\ at' = [w \in Workers |-> IF at[w] = f THEN 0 ELSE at[w]]
  /\ drops' = drops + Cardinality({w \in Workers : at[w] = f /\ job[w] # Idle})
  /\ UNCHANGED <<archiveVars, runVars, jobs, events, job, left, faults, strays, early>>

Server ==
  \E f \in Folders :
    \/ Arrive(f) \/ Rebuild(f)
    \/ \E u \in on[f] : Expunge(f, u) \/ Flag(f, u)

-----------------------------------------------------------------------------
(* The control connection. *)

Start ==
  /\ pc = "idle"
  /\ pc' = "folder" /\ cur' = 1
  /\ listed' \in {Empty, [f \in Folders |-> IF on[f] = {} THEN uv[f] ELSE 0]}
  /\ UNCHANGED <<serverVars, archiveVars, valid, present, waiting, draft,
                 poolVars, faults, historyVars>>

(* The run is over, and its pool with it.                                  *)
Shutdown ==
  /\ pc' = "idle" /\ cur' = 0 /\ listed' = Empty
  /\ jobs' = <<>> /\ events' = <<>> /\ job' = NoJobs /\ at' = NoFolder /\ left' = NoUids

Forgotten == valid' = 0 /\ present' = {} /\ waiting' = 0 /\ draft' = NoTx

(* reconcile_folder returns: its locals are gone, an open transaction is   *)
(* rolled back; with the last folder the pool shuts down.                  *)
Leave(unread) ==
  /\ Forgotten
  /\ IF cur < NumFolders
       THEN /\ pc' = "folder" /\ cur' = cur + 1 /\ events' = unread
            /\ UNCHANGED <<listed, jobs, job, at, left>>
       ELSE Shutdown

(* LIST-STATUS said the folder is empty, and so is the archive's.          *)
BothEmpty == listed[cur] # 0 /\ RowsOf(cur) = {}

SkipEmpty ==
  /\ pc = "folder" /\ BothEmpty
  /\ stored' = [stored EXCEPT ![cur] = listed[cur]]
  /\ Leave(events)
  /\ UNCHANGED <<serverVars, index, orphans, faults, historyVars>>

(* Seeded bug: the rows of another UIDVALIDITY stay. *)
KeptAll(f, v) == index
Kept(f, v) == IF stored[f] \in {0, v} THEN index ELSE index \ RowsOf(f)

(* SELECT, and wipe_folder_emails when the UIDVALIDITY is another one.     *)
Select ==
  /\ pc = "folder" /\ ~BothEmpty
  /\ pc' = "enumerate"
  /\ valid' = uv[cur]
  /\ index' = Kept(cur, uv[cur])
  /\ early' = IF stored[cur] = 0 /\ \E r \in RowsOf(cur) : r.v # uv[cur]
                THEN early \union {cur} ELSE early
  /\ UNCHANGED <<serverVars, orphans, stored, cur, listed, present, waiting,
                 draft, poolVars, faults, drops, strays>>

(* Seeded bug: the UIDs of both sides are taken for new. *)
DiffAllNew(local, server) ==
  [new |-> server, vanished |-> local \ server, present |-> server \intersect local]
(* Seeded bug: what both sides have is taken for vanished. *)
DiffSwapped(local, server) ==
  [new |-> server \ local, vanished |-> local \intersect server, present |-> local \ server]
DiffUids(local, server) ==
  [new |-> server \ local, vanished |-> local \ server, present |-> server \intersect local]

(* The i-th of the chunks of the sorted new UIDs.                          *)
Rank(S, u) == Cardinality({x \in S : x < u})
NumChunks(S) == (Cardinality(S) + FetchBatch - 1) \div FetchBatch
Chunk(S, i) == {u \in S : Rank(S, u) \div FetchBatch = i - 1}

(* Seeded bug: a chunk too many is waited for. *)
OutstandingMore(n) == IF n > 0 THEN n + 1 ELSE n
Outstanding(n) == n

(* select_uids; delete_vanished_emails; then the jobs are submitted and    *)
(* the transaction of the inserts begins, if there is anything to insert.  *)
Enumerate ==
  /\ pc = "enumerate" /\ valid = uv[cur]
  /\ LET d == DiffUids(ArchivedUids(cur, valid), on[cur])
         kept == index \ {r \in RowsOf(cur) : r.v = valid /\ r.u \in d.vanished}
         n == NumChunks(d.new)
     IN /\ present' = d.present
        /\ index' = kept
        /\ waiting' = Outstanding(n)
        /\ jobs' = jobs \o [i \in 1..n |-> [f |-> cur, uids |-> Chunk(d.new, i)]]
        /\ pc' = IF waiting' = 0 THEN "flags" ELSE "receive"
        /\ draft' = IF waiting' = 0 THEN NoTx ELSE [index |-> kept, orphans |-> orphans]
  /\ UNCHANGED <<serverVars, orphans, stored, cur, listed, valid, events, job,
                 at, left, faults, historyVars>>

(* Seeded bug: the UIDVALIDITY is asked for again at the insert. *)
ValidityNow == uv[cur]
Validity == valid

Counted(n) == IF n > MaxOrphans THEN MaxOrphans ELSE n

(* insert_single_message: the sync id is replaced if there is one, and the *)
(* row it pointed to is left alone.                                        *)
Inserted(m, flag) ==
  LET old == {r \in draft.index : r.f = cur /\ r.v = Validity /\ r.u = m.u}
      row == [f |-> cur, v |-> Validity, u |-> m.u, m |-> m, flag |-> flag]
  IN [index |-> (draft.index \ old) \union {row},
      orphans |-> Counted(draft.orphans + Cardinality(old))]

ReceiveItem ==
  /\ pc = "receive"
  /\ events # <<>> /\ Head(events).type = "item"
  /\ LET e == Head(events)
     IN draft' = Inserted(e.m, e.flag)
  /\ events' = Tail(events)
  /\ UNCHANGED <<serverVars, archiveVars, pc, cur, listed, valid, present, waiting,
                 jobs, job, at, left, faults, historyVars>>

(* With the last chunk the transaction is committed.                       *)
ReceiveDone ==
  /\ pc = "receive"
  /\ events # <<>> /\ Head(events).type = "done"
  /\ waiting' = waiting - 1
  /\ IF waiting' = 0
       THEN /\ pc' = "flags"
            /\ index' = draft.index /\ orphans' = draft.orphans /\ draft' = NoTx
       ELSE UNCHANGED <<pc, index, orphans, draft>>
  /\ events' = Tail(events)
  /\ UNCHANGED <<serverVars, stored, cur, listed, valid, present, jobs, job, at,
                 left, faults, historyVars>>

(* refresh_present_flags, in a transaction of its own.                     *)
RefreshFlags ==
  /\ pc = "flags" /\ (present = {} \/ valid = uv[cur])
  /\ pc' = "store"
  /\ index' = {IF r.f = cur /\ r.v = valid /\ r.u \in present \intersect on[cur]
                 THEN [r EXCEPT !.flag = <<cur, r.u>> \in seen] ELSE r : r \in index}
  /\ UNCHANGED <<serverVars, orphans, stored, cur, listed, valid, present, waiting,
                 draft, poolVars, faults, historyVars>>

Store ==
  /\ pc = "store"
  /\ stored' = [stored EXCEPT ![cur] = valid]
  /\ Leave(events)
  /\ UNCHANGED <<serverVars, index, orphans, faults, historyVars>>

Fault == faults < MaxFaults /\ faults' = faults + 1

(* An INTERNALDATE that does not parse: the folder is left at once, and    *)
(* what its workers still have to send stays in the channels they share    *)
(* with the folders to come.                                               *)
ItemFails ==
  /\ pc = "receive"
  /\ events # <<>> /\ Head(events).type = "item"
  /\ Fault
  /\ Leave(Tail(events))
  /\ strays' = strays \union {f \in Folders : f > cur}
  /\ UNCHANGED <<serverVars, archiveVars, drops, early>>

(* A command of the control connection fails for good, or its connection   *)
(* drops: the new one has no folder selected.  The next folder is taken.   *)
FolderFails ==
  /\ \/ pc = "folder" /\ ~BothEmpty /\ Fault
     \/ pc = "enumerate" \/ (pc = "flags" /\ present # {})
  /\ pc \in {"enumerate", "flags"} =>
       IF valid # uv[cur] THEN UNCHANGED faults ELSE Fault
  /\ Leave(events)
  /\ UNCHANGED <<serverVars, archiveVars, historyVars>>

(* An error that aborts the run, or a crash.                               *)
Abort ==
  /\ pc # "idle"
  /\ Fault
  /\ Forgotten /\ Shutdown
  /\ UNCHANGED <<serverVars, archiveVars, historyVars>>

-----------------------------------------------------------------------------
(* A worker. *)

(* SELECT, unless the connection has the folder selected already.          *)
TakeJob(w) ==
  /\ job[w] = Idle /\ jobs # <<>>
  /\ job' = [job EXCEPT ![w] = Head(jobs)]
  /\ left' = [left EXCEPT ![w] = Head(jobs).uids]
  /\ at' = [at EXCEPT ![w] = Head(jobs).f]
  /\ jobs' = Tail(jobs)
  /\ UNCHANGED <<serverVars, archiveVars, runVars, events, faults, historyVars>>

(* A new connection after one that dropped: the FETCH starts over.         *)
Reconnect(w) ==
  /\ job[w] # Idle /\ at[w] # job[w].f
  /\ at' = [at EXCEPT ![w] = job[w].f]
  /\ left' = [left EXCEPT ![w] = job[w].uids]
  /\ UNCHANGED <<serverVars, archiveVars, runVars, jobs, events, job, faults, historyVars>>

(* The FETCH returns the next message, or nothing for a UID that is gone.  *)
Stream(w, u) ==
  /\ job[w] # Idle /\ at[w] = job[w].f
  /\ u \in left[w] /\ \A x \in left[w] : u <= x
  /\ left' = [left EXCEPT ![w] = @ \ {u}]
  /\ LET f == job[w].f
     IN events' = IF u \in on[f]
          THEN Append(events, [type |-> "item", m |-> [f |-> f, v |-> uv[f], u |-> u],
                               flag |-> <<f, u>> \in seen])
          ELSE events
  /\ UNCHANGED <<serverVars, archiveVars, runVars, jobs, job, at, faults, historyVars>>

ChunkDone(w) ==
  /\ job' = [job EXCEPT ![w] = Idle]
  /\ left' = [left EXCEPT ![w] = {}]
  /\ events' = Append(events, [type |-> "done"])
  /\ UNCHANGED <<serverVars, archiveVars, runVars, jobs, historyVars>>

Fetched(w) ==
  /\ job[w] # Idle /\ at[w] = job[w].f /\ left[w] = {}
  /\ ChunkDone(w)
  /\ UNCHANGED <<at, faults>>

(* No retry is left, the error is not transient, or the worker panicked.   *)
GiveUp(w) ==
  /\ job[w] # Idle
  /\ Fault
  /\ at' \in {at, [at EXCEPT ![w] = 0]}
  /\ ChunkDone(w)

(* The connection drops under the FETCH, or the server answers NO for now: *)
(* the whole FETCH is sent again.                                          *)
FetchAgain(w) ==
  /\ job[w] # Idle /\ at[w] = job[w].f
  /\ Fault
  /\ at' \in {at, [at EXCEPT ![w] = 0]}
  /\ left' = [left EXCEPT ![w] = job[w].uids]
  /\ drops' = drops + 1
  /\ UNCHANGED <<serverVars, archiveVars, runVars, jobs, events, job, strays, early>>

Control ==
  \/ Start \/ SkipEmpty \/ Select \/ Enumerate
  \/ ReceiveItem \/ ReceiveDone
  \/ RefreshFlags \/ Store
  \/ pc \in {"enumerate", "flags"} /\ valid # uv[cur] /\ FolderFails

WorkerStep(w) ==
  \/ TakeJob(w) \/ Reconnect(w) \/ Fetched(w)
  \/ \E u \in left[w] : Stream(w, u)

Next ==
  \/ Server
  \/ Control \/ FolderFails \/ ItemFails \/ Abort
  \/ \E w \in Workers : WorkerStep(w) \/ GiveUp(w) \/ FetchAgain(w)

Spec == Init /\ [][Next]_vars

(* The import is run again and again, the threads are scheduled, and the   *)
(* commands are answered.                                                  *)
FairSpec ==
  Spec /\ WF_vars(Control) /\ \A w \in Workers : WF_vars(WorkerStep(w))

-----------------------------------------------------------------------------
(* Types of the archive's tables, of reconcile_folder's locals and of the  *)
(* channels.                                                               *)
Rows == [f : Folders, v : Validities, u : Uids, m : Messages, flag : BOOLEAN]

TypeOK ==
  /\ index \subseteq Rows /\ orphans \in 0..MaxOrphans
  /\ stored \in [Folders -> {0} \union Validities]
  /\ pc \in Phases /\ cur \in {0} \union Folders /\ (cur = 0 <=> pc = "idle")
  /\ valid \in {0} \union Validities /\ waiting \in 0..MaxUid
  /\ present \subseteq Uids
  /\ draft.index \subseteq Rows /\ draft.orphans \in 0..MaxOrphans
  /\ \A w \in Workers : left[w] \subseteq job[w].uids
  /\ faults \in 0..MaxFaults

(* Every archived message is filed under the folder and the UID it came    *)
(* from, and under the folder's UIDVALIDITY only if it was fetched under   *)
(* that one, although the events carry no more than a UID to insert_single_*)
(* message and all folders share the workers.  An item whose date does not *)
(* parse breaks this, as its folder is left with events on their way; but  *)
(* only for the folders that come after it in that run.                    *)
Filed ==
  \A r \in index :
    r.f \notin strays =>
      /\ r.m.f = r.f /\ r.m.u = r.u
      /\ r.v = uv[r.f] => r.m.v = r.v

(* At most one row is reachable under one folder, UIDVALIDITY and UID, and *)
(* the rows nothing points to, which no later run will ever find again,    *)
(* come from FETCHes that were sent again, a chunk for each.               *)
NoDuplicates ==
  /\ \A r, q \in index : <<r.f, r.v, r.u>> = <<q.f, q.v, q.u>> => r = q
  /\ strays # {} \/ orphans <= drops * FetchBatch

(* A message that is on the server is dropped from the archive only when   *)
(* wipe_folder_emails starts its folder over: neither a stale list of UIDs *)
(* nor a failed chunk makes the import forget one.                         *)
KeptWhileThere ==
  [][\A r \in index :
       (\A q \in index' : <<q.f, q.v, q.u>> # <<r.f, r.v, r.u>>) =>
         \/ r.v = uv[r.f] => r.u \notin on[r.f]
         \/ stored[r.f] # uv[r.f]]_vars

Mirrored(f) ==
  /\ {<<r.v, r.u>> : r \in RowsOf(f)} = {uv[f]} \X on[f]
  /\ \A r \in RowsOf(f) : r.flag = (<<f, r.u>> \in seen)

(* Once the server is quiet and the faults are over, rerunning makes every *)
(* folder's reachable rows those of the server, flags included; except for *)
(* a folder whose UIDVALIDITY changed before its state was first stored:   *)
(* nothing tells the next run that the rows it has are from before; and    *)
(* for one that got what a folder before it had left in the channels.      *)
IndexConverges == <>[](\A f \in Folders \ (early \union strays) : Mirrored(f))

(* The README's convergence: rerunning an interrupted import ends with the *)
(* archive holding each message once.                                      *)
ImapConverge == <>[](orphans = 0 /\ \A f \in Folders : Mirrored(f))
=============================================================================
