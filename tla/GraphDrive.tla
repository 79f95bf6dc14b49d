----------------------------- MODULE GraphDrive -----------------------------
(***************************************************************************)
(* The files of OneDrive: reconcile_all of                                 *)
(* src/src/sync/import_exchange_graph/files.rs.                            *)
(*                                                                         *)
(* The run lists one directory after another, writes the directories, each *)
(* in a transaction of its own and parents first, downloads the files that *)
(* have no row, a number of them to a transaction, and deletes the rows of *)
(* what it did not list, the deepest first.  It never looks at a file      *)
(* again that has a row.                                                   *)
(*                                                                         *)
(* An item is a directory or a file.                                       *)
(***************************************************************************)
EXTENDS Reruns

CONSTANT
  DriveChunk    (* CHUNK_SIZE: the files of one transaction                *)

ASSUME GraphDriveAssumption == DriveChunk \in Nat \ {0}

IsDrive == part = "graph drive"

Directory(i) == server.class[i] = "directory"

(* ver: the content of a file.                                             *)
DriveInit ==
  /\ part = "graph drive"
  /\ \E class \in [Items -> {"directory", "file"}],
        parent \in [Items -> {Top} \union Items], name \in [Items -> FolderNames] :
       /\ \A i \in Items : parent[i] < i /\ (parent[i] # Top => class[parent[i]] = "directory")
       /\ \A i \in {1} \union (Items \ 1..FirstFolders) :
            parent[i] = Top /\ name[i] = CHOOSE n \in FolderNames : TRUE
       /\ IsTree(1..FirstFolders, parent, name)
       /\ server = [on |-> 1..FirstFolders, ever |-> 1..FirstFolders, parent |-> parent,
                    name |-> name, class |-> class, ver |-> [i \in Items |-> 1], changes |-> 0,
                    had |-> {Place(i, parent[i], name[i]) : i \in 1..FirstFolders}]
  /\ archive = {} /\ run = Over(FALSE) /\ faults = 0
  /\ past = [missed |-> {}, moved |-> FALSE, unseen |-> {}, frozen |-> {}]

-----------------------------------------------------------------------------
(* OneDrive. *)

Node(i) ==
  [item |-> i, parent |-> server.parent[i], name |-> server.name[i], ver |-> server.ver[i]]

(* A file with a row, or about to have one, is never read again.           *)
Settled(i) == ~Directory(i) /\ i \in ItemsOf(archive \union (IF Running THEN run.draft ELSE {}))

PutNode(i, p, n, ver, unseen) ==
  LET on == server.on \union {i}
      parent == [server.parent EXCEPT ![i] = p]
      name == [server.name EXCEPT ![i] = n]
  IN
  /\ Changing
  /\ p # Top => Directory(p)
  /\ IsTree(on, parent, name)
  /\ server' = [server EXCEPT !.on = on, !.ever = @ \union {i}, !.parent = parent, !.name = name,
                              !.ver[i] = ver, !.changes = @ + 1, !.had = @ \union {Place(i, p, n)}]
  /\ past' = [past EXCEPT !.moved = TRUE, !.unseen = @ \union unseen,
                          !.frozen = @ \union {j \in {i} \intersect server.on : Settled(j)}]

NewNode(i, p, n) == IsDrive /\ i \notin server.ever /\ PutNode(i, p, n, 1, {})
EditFile(i) ==
  /\ IsDrive /\ i \in server.on /\ ~Directory(i)
  /\ PutNode(i, server.parent[i], server.name[i], server.ver[i] + 1, {})
MoveNode(i, p, n) ==
  /\ IsDrive /\ i \in server.on /\ <<p, n>> # <<server.parent[i], server.name[i]>>
  /\ PutNode(i, p, n, server.ver[i],
             IF Running /\ run.pc = "children" THEN Below(server.parent, i) ELSE {})

DeleteNode(i) ==
  /\ IsDrive /\ Changing /\ i \in server.on
  /\ LET gone == Below(server.parent, i) \intersect server.on IN
     /\ server' = [server EXCEPT !.on = @ \ gone, !.changes = @ + 1]
     /\ past' = [past EXCEPT !.moved = TRUE, !.missed = @ \union gone]

-----------------------------------------------------------------------------
(* The archive: a row is a node, with the item of the row above it.        *)

(* UNIQUE (parent_id, name).                                               *)
Fits(R, row) == \A r \in R : r.parent = row.parent /\ row.parent # Top => r.name # row.name

(* A parent the run has not written is NULL.                               *)
NodeRow(e, known) == [e EXCEPT !.parent = IF @ \in known THEN @ ELSE Top]

UpperRow(i) ==
  LET up == {r.parent : r \in {r \in archive : r.item = i}}
  IN IF up = {} THEN Top ELSE CHOOSE p \in up : TRUE
RowDepth(i) == Cardinality(Lineage([j \in Items |-> UpperRow(j)], i))

-----------------------------------------------------------------------------
(* The run. *)

Drive(pc) ==
  [pc |-> pc, frontier |-> {}, plan |-> {}, known |-> {}, draft |-> {},
   pending |-> 0, gone |-> {}, failed |-> FALSE]

DriveStart == IsDrive /\ Begin(Drive("root"))

DriveRoot ==
  /\ IsDrive /\ run.pc = "root"
  /\ run' = [run EXCEPT !.pc = "children", !.frontier = {Top}]
  /\ UNCHANGED <<part, server, archive, past, faults>>

(* An account without a drive, or so it is taken to be: all is skipped,    *)
(* and the run succeeds.                                                   *)
DriveUnavailable ==
  /\ IsDrive /\ run.pc = "root"
  /\ Fault
  /\ run' = Over(FALSE)
  /\ past' = [past EXCEPT !.unseen = Items]
  /\ UNCHANGED <<part, server, archive>>

Directories(plan) == {e \in plan : Directory(e.item)}

(* The phases have their turn; one without work is skipped.                *)
Onto(r) ==
  IF Directories(r.plan) # {} THEN [r EXCEPT !.pc = "directories"]
  ELSE IF r.plan # {} THEN [r EXCEPT !.pc = "files"]
  ELSE IF r.gone # {} THEN [r EXCEPT !.pc = "vanished", !.known = {}]
  ELSE Over(r.failed)

(* The listing is done: files with a row are left alone.                   *)
Divided(r) ==
  LET local == ItemsOf(archive)
  IN Onto([r EXCEPT !.gone = local \ ItemsOf(r.plan),
                    !.plan = {e \in @ : Directory(e.item) \/ e.item \notin local}])

DriveChildren(p) ==
  /\ IsDrive /\ run.pc = "children" /\ p \in run.frontier
  /\ LET new == {i \in server.on : server.parent[i] = p} \ ItemsOf(run.plan)
         next == [run EXCEPT !.frontier = (@ \ {p}) \union {i \in new : Directory(i)},
                             !.plan = @ \union {Node(i) : i \in new}]
     IN run' = IF p \notin server.on \union {Top} THEN Over(TRUE)
               ELSE IF next.frontier # {} THEN next ELSE Divided(next)
  /\ UNCHANGED <<part, server, archive, past, faults>>

DriveListFails ==
  /\ IsDrive /\ run.pc = "children"
  /\ Fault
  /\ run' = Over(TRUE)
  /\ UNCHANGED <<part, server, archive, past>>

(* order_by_depth: a directory after the one above it, else in any order.  *)
(* What the archive refuses ends the run.                                  *)
WriteDirectory(e) ==
  /\ IsDrive /\ run.pc = "directories" /\ e \in Directories(run.plan)
  /\ e.parent \notin ItemsOf(Directories(run.plan))
  /\ LET others == Without(archive, {e.item})
         row == NodeRow(e, run.known)
     IN IF Fits(others, row)
          THEN /\ archive' = others \union {row}
               /\ run' = Onto([run EXCEPT !.plan = @ \ {e}, !.known = @ \union {e.item}])
          ELSE run' = Over(TRUE) /\ UNCHANGED archive
  /\ UNCHANGED <<part, server, past, faults>>

(* One transaction goes on over the replies of the workers.                *)
FileAnswered(e, R, n, failed) ==
  LET full == n = DriveChunk \/ run.plan = {e} IN
  /\ archive' = IF full THEN archive \union R ELSE archive
  /\ run' = Onto([run EXCEPT !.plan = @ \ {e}, !.pending = IF full THEN 0 ELSE n,
                             !.draft = IF full THEN {} ELSE R, !.failed = @ \/ failed])

DownloadFile(e) ==
  /\ IsDrive /\ run.pc = "files" /\ e \in run.plan /\ e.item \in server.on
  /\ LET row == [NodeRow(e, run.known) EXCEPT !.ver = server.ver[e.item]]
     IN IF Fits(archive \union run.draft, row)
          THEN /\ FileAnswered(e, run.draft \union {row}, run.pending + 1, FALSE)
               /\ past' = [past EXCEPT !.frozen =
                             IF row = Node(e.item) THEN @ \ {e.item} ELSE @ \union {e.item}]
          ELSE run' = Over(TRUE) /\ UNCHANGED <<archive, past>>
  /\ UNCHANGED <<part, server, faults>>

FileGone(e) ==
  /\ IsDrive /\ run.pc = "files" /\ e \in run.plan /\ e.item \notin server.on
  /\ FileAnswered(e, run.draft, run.pending, FALSE)
  /\ UNCHANGED <<part, server, past, faults>>

DownloadFails(e) ==
  /\ IsDrive /\ run.pc = "files" /\ e \in run.plan
  /\ Fault
  /\ FileAnswered(e, run.draft, run.pending, TRUE)
  /\ UNCHANGED <<part, server, past>>

(* parent_id ... ON DELETE RESTRICT: counted, and the row stays.           *)
VanishNode(i) ==
  /\ IsDrive /\ run.pc = "vanished" /\ i \in run.gone
  /\ \A j \in run.gone : RowDepth(j) <= RowDepth(i)
  /\ LET restricted == \E r \in archive : r.parent = i IN
     /\ archive' = IF restricted THEN archive ELSE Without(archive, {i})
     /\ past' = IF restricted THEN past ELSE [past EXCEPT !.frozen = @ \ {i}]
     /\ run' = Onto([run EXCEPT !.gone = @ \ {i}, !.failed = @ \/ restricted])
  /\ UNCHANGED <<part, server, faults>>

DriveCrash == IsDrive /\ Crash

ToList == IF IsDrive /\ Running THEN run.frontier ELSE {}
ToWriteYet == IF IsDrive /\ Running THEN run.plan ELSE {}
ToVanish == IF IsDrive /\ Running THEN run.gone ELSE {}

(* Some step of DriveRun can always be taken.                              *)
DriveRun ==
  \/ DriveStart \/ DriveRoot
  \/ \E p \in ToList : DriveChildren(p)
  \/ \E e \in ToWriteYet : WriteDirectory(e)
  \/ \E e \in ToWriteYet : DownloadFile(e)
  \/ \E e \in ToWriteYet : FileGone(e)
  \/ \E i \in ToVanish : VanishNode(i)

DriveNext ==
  \/ \E i \in Items, p \in {Top} \union Items, n \in FolderNames : NewNode(i, p, n) \/ MoveNode(i, p, n)
  \/ \E i \in Items : EditFile(i) \/ DeleteNode(i)
  \/ DriveRun
  \/ DriveUnavailable \/ DriveListFails \/ DriveCrash
  \/ \E e \in ToWriteYet : DownloadFails(e)
DriveSpec == DriveInit /\ [][DriveNext]_vars

-----------------------------------------------------------------------------
DriveRows == [item : Items, parent : {Top} \union Items, name : FolderNames, ver : Versions]

DriveTypeOK ==
  IsDrive =>
    /\ server.on \subseteq server.ever /\ IsTree(server.on, server.parent, server.name)
    /\ archive \subseteq DriveRows
    /\ \A r \in archive : r.parent \in {Top} \union ItemsOf(archive) /\ Fits(archive \ {r}, r)
    /\ \A r, q \in archive : r.item = q.item => r = q
    /\ Running =>
         /\ run.pc \in {"root", "children", "directories", "files", "vanished"}
         /\ run.pc = "children" <=> run.frontier # {}
         /\ run.pc \in {"directories", "files"} => run.plan # {}
         /\ run.pc = "vanished" => run.gone # {} /\ run.gone \subseteq ItemsOf(archive)
         /\ run.pending \in 0..(DriveChunk - 1) /\ (run.pending = 0) = (run.draft = {})

(* The rows are the nodes, but for the files that have changed since they  *)
(* were read, and the directories such a file had been in; a run that took *)
(* the account for one without a drive has seen nothing.                   *)
DriveMirroredBut(unseen) ==
  \/ unseen = Items
  \/ /\ \A i \in server.on \ unseen :
          Node(i) \in archive \/ i \in past.frozen \intersect ItemsOf(archive)
     /\ \A i \in ItemsOf(archive) \ server.on :
          \E j \in past.frozen \intersect ItemsOf(archive) :
            i \in Lineage([k \in Items |-> UpperRow(k)], j)

(* However nodes move, and wherever a run stops, the rows stay a tree.     *)
DriveRooted ==
  IsDrive =>
    \A i \in ItemsOf(archive) :
      \E j \in Lineage([k \in Items |-> UpperRow(k)], i) : UpperRow(j) = Top
=============================================================================
