---------------------------- MODULE PathFolders -----------------------------
(***************************************************************************)
(* The folders of IMAP (folders.rs, run, upsert_mailboxes and              *)
(* delete_vanished_folders of coordinator.rs in src/src/sync/import_imap)  *)
(* and of a Maildir (tree.rs and coordinator.rs in                         *)
(* src/src/sync/import_maildir).                                           *)
(*                                                                         *)
(* A folder is its path.  The run lists the folders that hold mail, adds   *)
(* the paths above them, writes the rows in one transaction, deletes those *)
(* of the vanished folders in another, and then goes through the messages  *)
(* of each folder that holds mail (ImapImport and FileItems say how).      *)
(*                                                                         *)
(* An item of Reruns is a path here; each path on the server holds mail.   *)
(***************************************************************************)
EXTENDS Reruns

PathTrees == {"imap folders", "maildir folders"}
IsPathTree == part \in PathTrees

(* The paths above i: server.parent is the split of a path.                *)
AbovePath(i) == Lineage(server.parent, i) \ {i}

PathTreeInit ==
  /\ part \in PathTrees
  /\ \E on \in SUBSET Items, parent \in [Items -> {Top} \union Items] :
       /\ \A i \in Items : parent[i] < i
       /\ server = [on |-> on, parent |-> parent, changes |-> 0]
  /\ archive = {} /\ run = Over(FALSE) /\ faults = 0
  /\ past = [missed |-> {}, moved |-> FALSE, unseen |-> {}, frozen |-> {}]

-----------------------------------------------------------------------------
(* The server.  CREATE and DELETE; a RENAME is one of each.  A folder that *)
(* is deleted loses its mail, and stays as a path without mail, \Noselect, *)
(* as long as there are folders below it.                                  *)
Kept == server.on \union UNION {AbovePath(i) : i \in server.on}

CreatePath(i) ==
  /\ IsPathTree /\ Changing /\ i \notin server.on
  /\ server' = [server EXCEPT !.on = @ \union {i}, !.changes = @ + 1]
  /\ past' = [past EXCEPT !.moved = TRUE]

DeletePath(i) ==
  /\ IsPathTree /\ Changing /\ i \in server.on
  /\ server' = [server EXCEPT !.on = @ \ {i}, !.changes = @ + 1]
  /\ past' = [past EXCEPT !.moved = TRUE, !.missed = @ \union (Items \ Kept')]

-----------------------------------------------------------------------------
(* The run.  A row is a mailbox with the parent of its row, and whether    *)
(* the archive has messages in it.                                         *)

PathRun(pc) == [pc |-> pc, listed |-> {}, resolved |-> {}, gone |-> {}, todo |-> {}, failed |-> FALSE]

PathStart ==
  /\ IsPathTree /\ ~Running
  /\ run' = PathRun("list")
  /\ past' = [past EXCEPT !.missed = Items \ Kept, !.moved = FALSE]
  /\ UNCHANGED <<part, server, archive, faults>>

(* apply_filters and restore_ephemeral_parents add the structural          *)
(* ancestors.                                                              *)
Resolved(on) == on \union UNION {AbovePath(i) : i \in on}

ListPaths ==
  /\ IsPathTree /\ run.pc = "list"
  /\ run' = [run EXCEPT !.pc = "upsert", !.listed = server.on, !.resolved = Resolved(server.on),
                        !.gone = ItemsOf(archive) \ Resolved(server.on)]
  /\ UNCHANGED <<part, server, archive, past, faults>>

ListPathsFails ==
  /\ IsPathTree /\ run.pc = "list"
  /\ Fault
  /\ run' = Over(TRUE)
  /\ UNCHANGED <<part, server, archive, past>>

NextPaths(r) == IF r.todo = {} THEN Over(r.failed) ELSE r

(* upsert_mailboxes: a parent that has no row leaves the folder at the top.*)
UpsertPaths ==
  /\ IsPathTree /\ run.pc = "upsert"
  /\ LET rows == run.resolved \union ItemsOf(archive)
         mail == {r.item : r \in {q \in archive : q.mail}}
         parent == [i \in Items |-> IF server.parent[i] \in rows THEN server.parent[i] ELSE Top]
     IN archive' = {r \in archive : r.item \notin run.resolved} \union
                     {[item |-> i, parent |-> parent[i], mail |-> i \in mail] : i \in run.resolved}
  /\ run' = IF run.gone # {} THEN [run EXCEPT !.pc = "delete"]
            ELSE NextPaths([run EXCEPT !.pc = "mail", !.todo = run.listed])
  /\ UNCHANGED <<part, server, past, faults>>

(* vanished_depth_sort: the longest paths first.                           *)
PathsByDepth(gone) ==
  LET Key(i) == 0 - Cardinality(AbovePath(i)) IN Sorted(gone, Key)

(* delete_vanished_folders skips a folder that has others below it.        *)
DeletedPath(R, i) == IF \E r \in R : r.parent = i THEN R ELSE Without(R, {i})

DeletePaths ==
  /\ IsPathTree /\ run.pc = "delete"
  /\ \E order \in PathsByDepth(run.gone) : archive' = FoldLeft(DeletedPath, archive, order)
  /\ run' = NextPaths([run EXCEPT !.pc = "mail", !.gone = {}, !.todo = run.listed,
                !.failed = run.gone \intersect ItemsOf(archive') # {}])
  /\ UNCHANGED <<part, server, past, faults>>

Filled(i, there) == {IF r.item = i THEN [r EXCEPT !.mail = there] ELSE r : r \in archive}

(* reconcile_folder.  A folder that is gone by then is an error of the     *)
(* SELECT; a directory that is gone is an empty one.                       *)
FillPath(i) ==
  /\ IsPathTree /\ run.pc = "mail" /\ i \in run.todo
  /\ LET there == i \in server.on IN
     /\ archive' = IF there \/ part = "maildir folders" THEN Filled(i, there) ELSE archive
     /\ run' = NextPaths([run EXCEPT !.todo = @ \ {i},
                   !.failed = @ \/ (~there /\ part = "imap folders")])
  /\ UNCHANGED <<part, server, past, faults>>

FillPathFails(i) ==
  /\ IsPathTree /\ run.pc = "mail" /\ i \in run.todo
  /\ Fault
  /\ run' = NextPaths([run EXCEPT !.todo = @ \ {i}, !.failed = TRUE])
  /\ UNCHANGED <<part, server, archive, past>>

PathCrash == IsPathTree /\ Crash

Unfilled == IF IsPathTree /\ Running THEN run.todo ELSE {}

(* Some step of PathTreeRun can always be taken.                           *)
PathTreeRun ==
  \/ PathStart \/ ListPaths \/ UpsertPaths \/ DeletePaths
  \/ \E i \in Unfilled : FillPath(i)

PathTreeNext ==
  \/ \E i \in Items : CreatePath(i) \/ DeletePath(i)
  \/ PathTreeRun
  \/ ListPathsFails \/ PathCrash
  \/ \E i \in Unfilled : FillPathFails(i)

-----------------------------------------------------------------------------
PathTreeTypeOK ==
  IsPathTree =>
    /\ archive \subseteq [item : Items, parent : {Top} \union Items, mail : BOOLEAN]
    /\ \A r, q \in archive : r.item = q.item => r = q
    /\ \A r \in archive : r.parent \in ItemsOf(archive) \union {Top}
    /\ Running =>
         /\ run \in [pc : {"list", "upsert", "delete", "mail"}, listed : SUBSET Items,
                     resolved : SUBSET Items, gone : SUBSET Items, todo : SUBSET Items,
                     failed : BOOLEAN]
         /\ run.pc = "delete" => run.gone # {}
         /\ run.pc = "mail" => run.todo # {}

(* The rows are the paths there are, each under the path above it, and     *)
(* every folder that holds mail has it.  A path that holds none any more   *)
(* keeps, for good, the mail it had: nothing goes through it.              *)
PathTreeMirrored ==
  /\ ItemsOf(archive) = Kept
  /\ \A r \in archive : r.parent = server.parent[r.item] /\ (r.item \in server.on => r.mail)
=============================================================================
