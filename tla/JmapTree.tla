------------------------------ MODULE JmapTree ------------------------------
(***************************************************************************)
(* The mailboxes of a JMAP account: the parts of reconcile_type            *)
(* (src/src/sync/import_jmap.rs) that JmapImport leaves out, which are the *)
(* paging of /query, the chunks of /get, the order and the parents of the  *)
(* rows (tree.rs, mapping.rs) and what the archive refuses.                *)
(*                                                                         *)
(* An item is a mailbox.  The server numbers its changes; its state is the *)
(* number of the last one.  The archive has the rows, and the state up to  *)
(* which they are refreshed.                                               *)
(***************************************************************************)
EXTENDS Reruns

CONSTANT
  GetLimit      (* maxObjectsInGet: the ids of a page, and of a /get       *)

ASSUME JmapTreeAssumption == GetLimit \in Nat \ {0}

IsJmapTree == part = "jmap mailboxes"

NoState == 0 - 1
Cursor(n) == [item |-> Top, cursor |-> n]
Stored == {r \in archive : r.item # Top}
SyncState == IF Stored = archive THEN NoState ELSE (CHOOSE r \in archive : r.item = Top).cursor

Mailbox(i, p, n, role) == [item |-> i, parent |-> p, name |-> n, role |-> role]
Object(i) == Mailbox(i, server.parent[i], server.name[i], server.holder = i)

(* holder: the mailbox with the role; born, touched: the first and the     *)
(* last change of a mailbox.  An archive is empty or in step.              *)
JmapTreeInit ==
  /\ part = "jmap mailboxes"
  /\ \E parent \in [Items -> {Top} \union Items], name \in [Items -> FolderNames] :
       /\ \A i \in Items : parent[i] < i
       /\ \A i \in {1} \union (Items \ 1..FirstFolders) :
            parent[i] = Top /\ name[i] = CHOOSE n \in FolderNames : TRUE
       /\ IsTree(1..FirstFolders, parent, name)
       /\ server = [on |-> 1..FirstFolders, ever |-> 1..FirstFolders, parent |-> parent,
                    name |-> name, holder |-> 1, changes |-> 0,
                    born |-> [i \in Items |-> 0], touched |-> [i \in Items |-> 0]]
  /\ archive \in {{}, {Object(i) : i \in server.on} \union {Cursor(0)}}
  /\ run = Over(FALSE) /\ faults = 0
  /\ past = [missed |-> {}, moved |-> FALSE, unseen |-> {}, frozen |-> {}]

-----------------------------------------------------------------------------
(* The server. *)

(* The cursor does not reach back to the creation of i: the next /changes  *)
(* will call it created, and the run that inserts it will not look again.  *)
Unreached(i) ==
  /\ SyncState # NoState
  /\ server.born[i] > SyncState \/ (Running /\ i \in run.new)
  /\ i \in ItemsOf(archive) \/ (Running /\ i \in ItemsOf(run.got))

PutMailbox(i, p, n) ==
  LET on == server.on \union {i}
      parent == [server.parent EXCEPT ![i] = p]
      name == [server.name EXCEPT ![i] = n]
      now == server.changes + 1
  IN
  /\ Changing
  /\ IsTree(on, parent, name)
  /\ server' = [server EXCEPT !.on = on, !.ever = @ \union {i}, !.parent = parent, !.name = name,
                              !.changes = now, !.touched[i] = now,
                              !.born[i] = IF i \in server.ever THEN @ ELSE now]
  /\ past' = [past EXCEPT !.moved = TRUE,
                          !.frozen = @ \union {j \in {i} \intersect server.on : Unreached(j)}]

CreateMailbox(i, p, n) == IsJmapTree /\ i \notin server.ever /\ PutMailbox(i, p, n)
MoveMailbox(i, p, n) ==
  /\ IsJmapTree /\ i \in server.on /\ <<p, n>> # <<server.parent[i], server.name[i]>>
  /\ PutMailbox(i, p, n)

(* mailboxHasChild: only a mailbox without children can be destroyed.      *)
DestroyMailbox(i) ==
  /\ IsJmapTree /\ Changing /\ i \in server.on
  /\ \A j \in server.on : server.parent[j] # i
  /\ server' = [server EXCEPT !.on = @ \ {i}, !.changes = @ + 1,
                              !.holder = IF @ = i THEN Top ELSE @]
  /\ past' = [past EXCEPT !.moved = TRUE, !.missed = @ \union {i}]

GiveRole(i) ==
  /\ IsJmapTree /\ Changing /\ i \in server.on /\ server.holder # i
  /\ LET now == server.changes + 1
         both == {i, server.holder} \ {Top} IN
     /\ server' = [server EXCEPT !.holder = i, !.changes = now,
                     !.touched = [j \in Items |-> IF j \in both THEN now ELSE @[j]]]
     /\ past' = [past EXCEPT !.moved = TRUE, !.frozen = @ \union {j \in both : Unreached(j)}]

-----------------------------------------------------------------------------
(* The archive. *)

(* UNIQUE (parent_id, name), where a NULL parent is no parent.             *)
Clashes(R, row) ==
  \E r \in R : r.item # row.item /\ r.parent = row.parent /\ row.parent # Top /\ r.name = row.name

(* The writes of one transaction: a parent without a row becomes NULL, a   *)
(* role that another row has is dropped, a row the archive refuses is      *)
(* skipped and counted.  misfiled: those written otherwise than sent.      *)
Write(s, o) ==
  LET rows == {r \in s.rows : r.item # o.item}
      row == Mailbox(o.item, IF o.parent \in ItemsOf(s.rows) THEN o.parent ELSE Top, o.name,
                     o.role /\ \A r \in rows : ~r.role)
  IN IF Clashes(rows, row) THEN [s EXCEPT !.failed = TRUE]
     ELSE [s EXCEPT !.rows = rows \union {row},
                    !.misfiled = IF row = o THEN @ ELSE @ \union {o.item}]
WriteMailboxes(objects) ==
  FoldLeft(Write, [rows |-> Stored, failed |-> FALSE, misfiled |-> {}], objects)

(* topo_order: pass after pass over the objects, those whose parent is     *)
(* placed or not among them; when a pass places none, the least id.        *)
Placed(order, objects) ==
  LET Ready(done, o) == o.parent \in ItemsOf(ToSet(objects)) => o.parent \in ItemsOf(ToSet(done))
      With(done, o) == IF o \notin ToSet(done) /\ Ready(done, o) THEN Append(done, o) ELSE done
      more == FoldLeft(With, order, objects)
      left == ToSet(objects) \ ToSet(order)
  IN IF more # order \/ left = {} THEN more
     ELSE Append(order, CHOOSE o \in left : \A q \in left : o.item <= q.item)
TopoOrder(objects) ==
  LET pass[k \in 0..Len(objects)] == IF k = 0 THEN <<>> ELSE Placed(pass[k - 1], objects)
  IN pass[Len(objects)]

(* The survivors lose a parent that vanished.                              *)
Survivors(gone) ==
  {IF r.parent \in gone THEN [r EXCEPT !.parent = Top] ELSE r : r \in {r \in Stored : r.item \notin gone}}

(* The rows are deleted children first, which a loop of them forbids.      *)
Looped(gone) ==
  LET parent == [i \in Items |-> IF \E r \in Stored : r.item = i
                                   THEN (CHOOSE r \in Stored : r.item = i).parent ELSE Top]
  IN \E i \in gone : Lineage(parent, i) \subseteq gone /\ \A j \in Lineage(parent, i) : parent[j] # Top

-----------------------------------------------------------------------------
(* The run. *)

Listed(restarts) ==
  [pc |-> "query", listed |-> <<>>, page |-> 0, restarts |-> restarts, new |-> {},
   present |-> {}, vanished |-> {}, target |-> NoState, todo |-> {}, got |-> {},
   failed |-> FALSE, held |-> FALSE]

JmapTreeStart == IsJmapTree /\ Begin(Listed(0))

(* The ids are asked for in chunks, in the order of the list.              *)
GetChunks(ids) ==
  LET s == SetToSortSeq(ids, <)
  IN {ToSet(SubSeq(s, k, IF k + GetLimit - 1 < Len(s) THEN k + GetLimit - 1 ELSE Len(s))) :
        k \in {j \in DOMAIN s : j % GetLimit = 1 % GetLimit}}

ToChanges(r) == [r EXCEPT !.pc = "changes", !.got = {}, !.vanished = {}]
ToSweep(r) == IF r.vanished = {} THEN ToChanges(r) ELSE [r EXCEPT !.pc = "sweep", !.got = {}]
ToGet(r) == IF r.new = {} THEN ToSweep(r) ELSE [r EXCEPT !.pc = "fetch", !.todo = GetChunks(r.new)]
AfterDiff(r) == IF SyncState = NoState THEN [r EXCEPT !.pc = "state"] ELSE ToGet(r)

(* diff.                                                                   *)
Compared(r) ==
  LET ids == ToSet(r.listed)
      local == ItemsOf(Stored)
  IN AfterDiff([r EXCEPT !.new = ids \ local, !.vanished = local \ ids,
                         !.present = ids \intersect local, !.listed = <<>>, !.page = 0,
                         !.restarts = 0])

(* query_pages: the ids after the last one there is; a page shorter than   *)
(* the first is the last.  query_all_ids: two restarts when that one has   *)
(* been destroyed.  The server's order of mailboxes is that of the ids.    *)
QueryPage ==
  /\ IsJmapTree /\ run.pc = "query"
  /\ LET anchor == IF run.listed = <<>> THEN 0 ELSE Last(run.listed)
         after == InOrder({i \in server.on : i > anchor})
         page == First(after, GetLimit)
         next == [run EXCEPT !.listed = @ \o page, !.page = IF @ = 0 THEN Len(page) ELSE @]
     IN IF anchor # 0 /\ anchor \notin server.on
          THEN run' = IF run.restarts < 2 THEN Listed(run.restarts + 1) ELSE Over(TRUE)
        ELSE IF page = <<>> \/ Len(page) < next.page THEN run' = Compared(next)
        ELSE run' = next
  /\ UNCHANGED <<part, server, archive, past, faults>>

GetState ==
  /\ IsJmapTree /\ run.pc = "state"
  /\ run' = ToGet([run EXCEPT !.target = server.changes])
  /\ UNCHANGED <<part, server, archive, past, faults>>

(* The requests of the run itself.                                         *)
CallFails ==
  /\ IsJmapTree /\ Running /\ run.pc \in {"query", "state", "changes"}
  /\ Fault
  /\ run' = Over(TRUE)
  /\ UNCHANGED <<part, server, archive, past>>

Fetched(r) == IF r.todo # {} THEN r ELSE [r EXCEPT !.pc = IF @ = "fetch" THEN "insert" ELSE "update"]

(* The chunks are answered in any order; an id that is gone is no failure. *)
GetChunk(ids) ==
  /\ IsJmapTree /\ Running /\ ids \in run.todo
  /\ run' = Fetched([run EXCEPT !.todo = @ \ {ids},
                                !.got = @ \union {Object(i) : i \in ids \intersect server.on}])
  /\ UNCHANGED <<part, server, archive, past, faults>>

GetChunkFails(ids) ==
  /\ IsJmapTree /\ Running /\ ids \in run.todo
  /\ Fault
  /\ run' = Fetched([run EXCEPT !.todo = @ \ {ids}, !.failed = TRUE,
                                !.held = @ \/ run.pc = "refetch"])
  /\ UNCHANGED <<part, server, archive, past>>

(* What is written is history's to remember as long as it is wrong.        *)
Misfiled(done) ==
  [past EXCEPT !.frozen = {i \in @ \union done.misfiled : \E r \in done.rows : r.item = i /\ r # Object(i)}]

(* Workers and servers answer in any order.                                *)
InsertMailboxes ==
  /\ IsJmapTree /\ run.pc = "insert"
  /\ \E objects \in SetToSeqs(run.got) :
       LET done == WriteMailboxes(TopoOrder(objects)) IN
       /\ archive' = done.rows \union (archive \ Stored)
       /\ run' = ToSweep([run EXCEPT !.failed = @ \/ done.failed])
       /\ past' = Misfiled(done)
  /\ UNCHANGED <<part, server, faults>>

SweepMailboxes ==
  /\ IsJmapTree /\ run.pc = "sweep"
  /\ IF Looped(run.vanished) THEN run' = Over(TRUE) /\ UNCHANGED <<archive, past>>
     ELSE /\ archive' = Survivors(run.vanished) \union (archive \ Stored)
          /\ run' = ToChanges(run)
          /\ past' = [past EXCEPT !.frozen = @ \ run.vanished]
  /\ UNCHANGED <<part, server, faults>>

(* fetch_and_update; nothing to refresh is a success.                      *)
Refresh(ids, target) ==
  run' = IF ids = {} THEN [run EXCEPT !.pc = "advance", !.target = target]
         ELSE [run EXCEPT !.pc = "refetch", !.todo = GetChunks(ids), !.target = target]

(* /changes since the cursor, or all when there is none.                   *)
GetChanges ==
  /\ IsJmapTree /\ run.pc = "changes"
  /\ IF SyncState = NoState THEN Refresh(run.present, run.target)
     ELSE Refresh({i \in run.present : server.touched[i] > SyncState /\ server.born[i] <= SyncState},
                  server.changes)
  /\ UNCHANGED <<part, server, archive, past, faults>>

(* cannotCalculateChanges: all present, and the state of now.              *)
CannotCalculate ==
  /\ IsJmapTree /\ run.pc = "changes" /\ SyncState # NoState
  /\ Fault
  /\ Refresh(run.present, server.changes)
  /\ UNCHANGED <<part, server, archive, past>>

UpdateMailboxes ==
  /\ IsJmapTree /\ run.pc = "update"
  /\ \E objects \in SetToSeqs({o \in run.got : o.item \in run.present}) :
       LET done == WriteMailboxes(objects) IN
       /\ archive' = done.rows \union (archive \ Stored)
       /\ run' = [run EXCEPT !.pc = "advance", !.got = {}, !.failed = @ \/ done.failed,
                             !.held = @ \/ done.failed]
       /\ past' = Misfiled(done)
  /\ UNCHANGED <<part, server, faults>>

(* advance_state, unless a refresh failed.                                 *)
AdvanceState ==
  /\ IsJmapTree /\ run.pc = "advance"
  /\ archive' = IF run.held THEN archive ELSE Stored \union {Cursor(run.target)}
  /\ run' = Over(run.failed)
  /\ UNCHANGED <<part, server, past, faults>>

JmapTreeCrash == IsJmapTree /\ Crash

Chunked == IF IsJmapTree /\ Running THEN run.todo ELSE {}

(* Some step of JmapTreeRun can always be taken.                           *)
JmapTreeRun ==
  \/ JmapTreeStart \/ QueryPage \/ GetState
  \/ \E ids \in Chunked : GetChunk(ids)
  \/ InsertMailboxes \/ SweepMailboxes \/ GetChanges \/ UpdateMailboxes \/ AdvanceState

JmapTreeNext ==
  \/ \E i \in Items, p \in {Top} \union Items, n \in FolderNames :
       CreateMailbox(i, p, n) \/ MoveMailbox(i, p, n)
  \/ \E i \in Items : DestroyMailbox(i)
  \/ \E i \in Items : GiveRole(i)
  \/ JmapTreeRun
  \/ \E ids \in Chunked : GetChunkFails(ids)
  \/ CallFails \/ CannotCalculate \/ JmapTreeCrash

-----------------------------------------------------------------------------
MailboxRows == [item : Items, parent : {Top} \union Items, name : FolderNames, role : BOOLEAN]

JmapTreeTypeOK ==
  IsJmapTree =>
    /\ server.on \subseteq server.ever /\ IsTree(server.on, server.parent, server.name)
    /\ Stored \subseteq MailboxRows /\ SyncState \in {NoState} \union 0..server.changes
    /\ \A r \in Stored : r.parent \in {Top} \union ItemsOf(Stored) /\ ~Clashes(Stored, r)
    /\ \A r, q \in Stored : r.item = q.item \/ (r.role /\ q.role) => r = q
    /\ Running =>
         /\ run.pc \in {"query", "state", "fetch", "insert", "sweep", "changes", "refetch",
                        "update", "advance"}
         /\ run.pc \in {"fetch", "refetch"} <=> run.todo # {}

(* The rows are the mailboxes.  Not so those that were written otherwise   *)
(* than sent, or changed where no run looks again, and have not been       *)
(* written since; nor what is refused for the sake of such a row.          *)
Blocked(i) == \E r \in Stored : r.item \in past.frozen /\ Clashes({r}, Object(i))
JmapTreeMirrored ==
  /\ ItemsOf(Stored) \subseteq server.on
  /\ \A i \in server.on :
       \/ Object(i) \in Stored
       \/ i \in past.frozen \intersect ItemsOf(Stored)
       \/ Blocked(i)
=============================================================================
