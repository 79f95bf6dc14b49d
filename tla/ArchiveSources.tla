--------------------------- MODULE ArchiveSources ---------------------------
(***************************************************************************)
(* An archive and the accounts it is filled from: what every importer does *)
(* around the reconciliation of its items (the run functions under         *)
(* src/src/sync), src/src/db/sources.rs and the garbage collection of      *)
(* src/src/db/blobs.rs.                                                    *)
(*                                                                         *)
(* Two accounts of one kind, k1 and k2, are imported into one archive in   *)
(* any order, with source changes allowed, rejected or answered by a       *)
(* replacement; a neighbour of another kind is in the archive already.     *)
(* Each account has at most one container and one item in it, of the type  *)
(* `focus'; the other modules of Reruns say how items are reconciled.  The *)
(* archive is locked for the time of a run (locking_mode = EXCLUSIVE), so  *)
(* there is one run at a time.  A row is deleted in one transaction with   *)
(* its sync id.                                                            *)
(***************************************************************************)
EXTENDS Reruns

IsSources == part = "sources"

Accounts == {"k1", "k2", "neighbour"}
Contents == <<"c1", "c2", "c3">>

-----------------------------------------------------------------------------
(* The importers.  checksDry: a dry run is refused like any other.         *)
(* container, item: whether a partial error of their phase ends the run or *)
(* is counted.  alone: types are imported independently of one another,    *)
(* and blobs are stored before the rows.  collect: garbage collection can  *)
(* fail with a warning, or fails the run, or there is none.                *)

Importer == [checksDry |-> FALSE, container |-> "ends", item |-> "counted", alone |-> FALSE,
             deletes |-> TRUE, collect |-> "warns"]

JmapImporter == [Importer EXCEPT !.container = "counted", !.alone = TRUE]
ImapImporter == [Importer EXCEPT !.checksDry = TRUE, !.collect = "never"]
DavImporter == Importer
WebDavImporter == [Importer EXCEPT !.item = "ends"]
EwsImporter == [Importer EXCEPT !.item = "ends"]
GraphImporter == [Importer EXCEPT !.item = "ends"]
MaildirImporter == [Importer EXCEPT !.checksDry = TRUE, !.collect = "fails"]
TakeoutImporter == [Importer EXCEPT !.checksDry = TRUE, !.container = "counted",
                                    !.deletes = FALSE, !.collect = "fails"]
ManageSieveImporter == [Importer EXCEPT !.checksDry = TRUE, !.item = "ends", !.collect = "fails"]

ImporterOf(kind) ==
  CASE kind = "jmap" -> JmapImporter
    [] kind = "imap" -> ImapImporter
    [] kind \in {"caldav", "carddav"} -> DavImporter
    [] kind = "webdav" -> WebDavImporter
    [] kind = "exchange_ews" -> EwsImporter
    [] kind = "exchange_graph" -> GraphImporter
    [] kind = "maildir" -> MaildirImporter
    [] kind = "takeout" -> TakeoutImporter
    [] kind = "managesieve" -> ManageSieveImporter

TypesOf(kind) ==
  CASE kind = "jmap" -> {"email", "calendarevent", "contactcard", "filenode", "sievescript"}
    [] kind \in {"imap", "maildir"} -> {"email"}
    [] kind = "caldav" -> {"calendarevent"}
    [] kind = "carddav" -> {"contactcard"}
    [] kind = "webdav" -> {"filenode"}
    [] kind \in {"exchange_ews", "takeout"} -> {"email", "calendarevent", "contactcard"}
    [] kind = "exchange_graph" -> {"email", "calendarevent", "contactcard", "filenode"}
    [] kind = "managesieve" -> {"sievescript"}

SourceKinds == {"jmap", "imap", "caldav", "carddav", "webdav", "exchange_ews", "exchange_graph",
                "maildir", "takeout", "managesieve"}

(* --objects and --surfaces; --replace-source.                             *)
Choosy == {"jmap", "exchange_graph"}
Modes(kind) ==
  {"reject", "allow"} \union IF kind \in {"caldav", "carddav", "webdav"} THEN {"replace"} ELSE {}

KindOf(k) == server.kind[k]
Of(k) == ImporterOf(KindOf(k))
This == Of(run.key)

-----------------------------------------------------------------------------
(* The archive: rows of sources, containers, items and blobs.              *)

Row(what, of, ver) == [item |-> <<what, of>>, ver |-> ver]
What(r) == r.item[1]
Owner(r) == r.item[2]
SourceRow(k) == Row("source", k, 1)
Containers(k) == {r \in archive : r.item = <<"container", k>>}
ItemRows(k) == {r \in archive : r.item = <<"item", k>>}
BlobRow(content) == Row("blob", content, 1)

(* vCards and iCalendars are stored without a blob.                        *)
HasBlob(k) ==
  ~(server.focus \in {"calendarevent", "contactcard"} /\ KindOf(k) \in {"caldav", "carddav", "takeout"})

(* Seeded bug: a blob that only the JSON of a card or an event names counts *)
(* as garbage.                                                             *)
ReferencedByColumn(R) ==
  IF server.focus \in {"calendarevent", "contactcard"} THEN {}
  ELSE {BlobRow(Contents[r.ver]) : r \in {r \in R : What(r) = "item" /\ HasBlob(Owner(r))}}

Referenced(R) == {BlobRow(Contents[r.ver]) : r \in {r \in R : What(r) = "item" /\ HasBlob(Owner(r))}}
Garbage(R) == {r \in R : What(r) = "blob"} \ Referenced(R)

(* UNIQUE (uid) of cards, UNIQUE (name) of scripts, which the accounts     *)
(* share; Exchange has no UIDs of its own.                                 *)
Unique(k) ==
  \/ server.focus = "contactcard" /\ KindOf(k) \notin {"exchange_ews", "exchange_graph"}
  \/ server.focus = "sievescript"
Clash(k) == Unique(k) /\ \E r \in archive : What(r) = "item" /\ Owner(r) # k /\ Unique(Owner(r))

-----------------------------------------------------------------------------
(* The servers.  (Bound: one change, before anything fails.)               *)

Neighbourhood ==
  {SourceRow("neighbour"), Row("container", "neighbour", 1), Row("item", "neighbour", 1)}
    \union IF HasBlob("neighbour") THEN {BlobRow("c1")} ELSE {}

SourcesInit ==
  /\ part = "sources"
  /\ \E kind \in SourceKinds, focus \in UNION {TypesOf(x) : x \in SourceKinds} :
       LET other == IF kind = "jmap" THEN CHOOSE x \in SourceKinds \ {"jmap"} : focus \in TypesOf(x)
                    ELSE "jmap"
       IN /\ focus \in TypesOf(kind)
          /\ server = [kind |-> [k1 |-> kind, k2 |-> kind, neighbour |-> other], focus |-> focus,
                       on |-> {"container", "item"} \X Accounts,
                       ver |-> [k \in Accounts |-> 1], changes |-> 0]
  /\ archive = Neighbourhood /\ run = Over(FALSE) /\ faults = 0
  /\ past = [missed |-> {}, moved |-> FALSE, unseen |-> {}, frozen |-> {},
             key |-> "k1", wrote |-> FALSE, allowed |-> {}]

ServerChanges(k) ==
  /\ IsSources /\ server.changes = 0 /\ faults = 0 /\ Changing
  /\ \/ server' = [server EXCEPT !.ver[k] = 2, !.changes = 1]
     \/ server' = [server EXCEPT !.on = @ \ {<<"item", k>>}, !.changes = 1]
     \/ server' = [server EXCEPT !.on = @ \ {<<"item", k>>, <<"container", k>>}, !.changes = 1]
  /\ past' = [past EXCEPT !.moved = TRUE,
                          !.missed = @ \union IF Running /\ run.key = k /\ ~run.dry
                                              THEN server.on \ server'.on ELSE {}]

-----------------------------------------------------------------------------
(* The run.  (Bound: dry runs, and runs that leave out the type, allow no  *)
(* change of the source.)                                                  *)

(* What this run may take from the archive: what its server lacks, what it *)
(* replaces, and blobs.                                                    *)
Others(k) == {q \in Accounts \ {k} : KindOf(q) = KindOf(k)}
Expendable(k, mode) ==
  (({"container", "item"} \X {k}) \ server.on)
    \union ({"source", "container", "item"} \X (IF mode = "replace" THEN Others(k) ELSE {}))
    \union ({"blob"} \X ToSet(Contents))

OpenArchive(k, mode, dry, selected) ==
  /\ IsSources /\ ~Running
  /\ mode \in Modes(KindOf(k)) /\ (selected \/ KindOf(k) \in Choosy)
  /\ dry \/ ~selected => mode = "reject"
  /\ dry => selected
  /\ run' = [pc |-> "connect", key |-> k, mode |-> mode, dry |-> dry, selected |-> selected,
             read |-> 1, failed |-> FALSE]
  /\ past' = [past EXCEPT !.missed = IF dry THEN {} ELSE Expendable(k, mode), !.moved = FALSE,
                          !.unseen = {}, !.key = IF dry THEN "k1" ELSE k, !.wrote = ~dry /\ selected,
                          !.allowed = @ \union IF mode = "allow" THEN {KindOf(k)} ELSE {}]
  /\ UNCHANGED <<part, server, archive, faults>>

RunAt(pc) == IsSources /\ run.pc = pc
Continued(pc) == [run EXCEPT !.pc = pc]
Noted(pc, failed) == [run EXCEPT !.pc = pc, !.failed = @ \/ failed]
Keeps == UNCHANGED <<part, server, past, faults>>

(* Seeded bug: another account on the same server is no conflict. *)
ConflictingByUrl(k) == {}

(* conflicting_source, other_sources: k1 and k2 differ in the account      *)
Conflicting(k) == {q \in Others(k) : SourceRow(q) \in archive}

(* After the sign-in, discovery and all that tells the account.            *)
CheckSource ==
  /\ RunAt("connect")
  /\ run' = IF /\ run.mode = "reject" /\ Conflicting(run.key) # {}
               /\ ~run.dry \/ This.checksDry
              THEN Over(TRUE)
            ELSE IF run.dry THEN Over(FALSE)
            ELSE IF run.mode = "replace" /\ Conflicting(run.key) # {} THEN Continued("replace")
            ELSE Continued("record")
  /\ Keeps /\ UNCHANGED archive

(* Seeded bug: of the nodes of a tree only the leaves go. *)
RemovedLeaves(R, S) ==
  {r \in R : \/ What(r) = "blob" \/ Owner(r) \notin S
             \/ What(r) = "container" /\ \E q \in R : q.item = <<"item", Owner(r)>>}

(* remove_other_sources: mapped rows, leaf after leaf where they are a     *)
(* tree, and the source with its sync ids, in one transaction              *)
Removed(R, S) == {r \in R : What(r) = "blob" \/ Owner(r) \notin S}

RemoveOtherSources ==
  /\ RunAt("replace")
  /\ archive' = Removed(archive, Conflicting(run.key))
  /\ run' = Continued("record")
  /\ Keeps

UpsertSource ==
  /\ RunAt("record")
  /\ archive' = archive \union {SourceRow(run.key)}
  /\ run' = Continued(IF run.selected THEN "containers" ELSE "collect")
  /\ Keeps

(* A container that vanished takes its items along, where types are not    *)
(* imported each on its own.                                               *)
ReconcileContainers ==
  /\ RunAt("containers")
  /\ archive' = IF <<"container", run.key>> \in server.on
                  THEN archive \union {Row("container", run.key, 1)}
                ELSE IF ~This.deletes THEN archive
                ELSE archive \ (Containers(run.key) \union IF This.alone THEN {} ELSE ItemRows(run.key))
  /\ run' = Continued("items")
  /\ Keeps

Wanted == Row("item", run.key, server.ver[run.key])
(* Items are looked for in the containers that are archived.               *)
ListedNow ==
  /\ <<"item", run.key>> \in server.on
  /\ This.alone \/ Containers(run.key) # {}

(* A blob is stored with its row, but for JMAP.                            *)
ReconcileItems ==
  /\ RunAt("items")
  /\ IF ListedNow THEN
       IF Wanted \in archive THEN run' = Continued("collect") /\ UNCHANGED archive
       ELSE IF This.alone THEN
              /\ archive' = archive \union {BlobRow(Contents[Wanted.ver])}
              /\ run' = [Continued("store") EXCEPT !.read = Wanted.ver]
       ELSE IF Clash(run.key) THEN run' = Noted("collect", TRUE) /\ UNCHANGED archive
       ELSE /\ archive' = (archive \ ItemRows(run.key)) \union {Wanted}
                            \union IF HasBlob(run.key) THEN {BlobRow(Contents[Wanted.ver])} ELSE {}
            /\ run' = Continued("collect")
     ELSE /\ archive' = IF This.deletes THEN archive \ ItemRows(run.key) ELSE archive
          /\ run' = Continued("collect")
  /\ Keeps

StoreItems ==
  /\ RunAt("store")
  /\ IF Clash(run.key) THEN run' = Noted("collect", TRUE) /\ UNCHANGED archive
     ELSE /\ archive' = (archive \ ItemRows(run.key)) \union {Row("item", run.key, run.read)}
          /\ run' = Continued("collect")
  /\ Keeps

(* gc_orphan_blobs, only after a run without failure                       *)
CollectGarbage ==
  /\ RunAt("collect")
  /\ archive' = IF run.failed \/ This.collect = "never" THEN archive ELSE archive \ Garbage(archive)
  /\ run' = Over(run.failed)
  /\ Keeps

CollectFails ==
  /\ RunAt("collect") /\ ~run.failed /\ This.collect # "never"
  /\ Fault
  /\ run' = Over(This.collect = "fails")
  /\ past' = [past EXCEPT !.unseen = {"blob"} \X ToSet(Contents)]
  /\ UNCHANGED <<part, server, archive>>

(* An error that is partial ends the run or is counted; so is an item that *)
(* is refused or cannot be fetched.  All others end it (aborts_run), which *)
(* is what Crash does.                                                     *)
PhaseFails ==
  /\ RunAt("containers") \/ RunAt("items") \/ RunAt("store")
  /\ Fault
  /\ LET weight == IF run.pc = "containers" THEN This.container ELSE This.item IN
     \/ weight = "ends" /\ run' = Over(TRUE)
     \/ run' = Noted(IF run.pc = "containers" THEN "items" ELSE "collect", TRUE)
  /\ UNCHANGED <<part, server, archive, past>>

SourcesCrash == IsSources /\ Crash

(* Some step of SourcesRun can always be taken.                            *)
SourcesRun ==
  \/ \E k \in {"k1", "k2"}, mode \in {"reject", "allow", "replace"}, dry, selected \in BOOLEAN :
       OpenArchive(k, mode, dry, selected)
  \/ CheckSource \/ RemoveOtherSources \/ UpsertSource
  \/ ReconcileContainers \/ ReconcileItems \/ StoreItems \/ CollectGarbage

SourcesNext ==
  \/ \E k \in {"k1", "k2"} : ServerChanges(k)
  \/ SourcesRun
  \/ CollectFails \/ PhaseFails \/ SourcesCrash

SourcesSpec == SourcesInit /\ [][SourcesNext]_vars

-----------------------------------------------------------------------------
SourcesTypeOK ==
  IsSources =>
    /\ server.on \subseteq {"container", "item"} \X Accounts
    /\ \A r, q \in archive : r.item = q.item => r = q
    /\ Running => run.pc \in {"connect", "replace", "record", "containers", "items", "store", "collect"}

(* Every row belongs to a source the archive records, and an archive that  *)
(* was never told to take another account has one account of a kind        *)
(* (README.md:69, "An archive remembers which account it was filled from;  *)
(* pointing it at a different one fails unless explicitly permitted").     *)
RowsOwned ==
  \A r \in archive : What(r) \in {"container", "item"} => SourceRow(Owner(r)) \in archive
OneAccount ==
  \A k, q \in Accounts :
    KindOf(k) = KindOf(q) /\ {SourceRow(k), SourceRow(q)} \subseteq archive =>
      k = q \/ KindOf(k) \in past.allowed

(* No collection takes a blob that a row of any source names.              *)
NamesOf(r) == IF What(r) = "item" /\ HasBlob(Owner(r)) THEN {BlobRow(Contents[r.ver])} ELSE {}
BlobsThere == \A r \in archive : NamesOf(r) \subseteq archive

SourcesSound == IsSources => RowsOwned /\ OneAccount /\ BlobsThere

(* The rows of the source are those of its server, and no blob is left     *)
(* that nothing names, but by IMAP.                                        *)
SourceMirroredBut(unseen) ==
  LET k == past.key
      rows == {r \in archive : r.item \in {"container", "item"} \X {k}}
      there == {r \in {Row("container", k, 1), Row("item", k, server.ver[k])} : r.item \in server.on}
  IN /\ past.wrote => there \subseteq rows /\ (Of(k).deletes => rows = there) /\ SourceRow(k) \in archive
     /\ past.wrote /\ Of(k).collect # "never" =>
          \A b \in archive : What(b) = "blob" =>
            b.item \in unseen \/ \E r \in archive : b \in NamesOf(r)
=============================================================================
