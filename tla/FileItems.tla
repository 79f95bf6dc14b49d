----------------------------- MODULE FileItems ------------------------------
(***************************************************************************)
(* The importers that read files, with nobody to ask: those of a Maildir   *)
(* and of a Google Takeout.                                                *)
(***************************************************************************)
EXTENDS Reruns

(***************************************************************************)
(* The messages of a Maildir (messages.rs and reconcile_folder of          *)
(* coordinator.rs in src/src/sync/import_maildir), while mail programs go  *)
(* on using it.                                                            *)
(*                                                                         *)
(* Folder by folder, the importer reads the names in cur/ and new/, and in *)
(* one transaction inserts the messages of unknown unique ids, sets the    *)
(* keywords of the known ones from the flags in their names, and deletes   *)
(* the rows whose id it did not see.                                       *)
(*                                                                         *)
(* A message is an item; the version of the item is its name.  Without     *)
(* --include-deleted, a message with the flag T counts as gone.            *)
(***************************************************************************)
IsMaildir == part = "maildir"

MaildirInit == RerunsInit /\ part = "maildir"

Name(i) == [item |-> i, ver |-> server.ver[i]]
Names(h) == {Name(i) : i \in There(h)}

-----------------------------------------------------------------------------
(* The mail programs.  A change of flags is a new name, and from new/ to   *)
(* cur/ it is a new directory: a scan under way can find the message under *)
(* either name, under both, or under neither.                              *)

Scanning(h) == Running /\ run.pc = "scan" /\ run.at = h
(* The scan under way may come upon name n, which is no longer there.      *)
Touch(i, n) ==
  run' = IF Scanning(server.home[i])
           THEN [run EXCEPT !.old = @ \union n, !.touched = @ \union {i}] ELSE run

Changes == IsMaildir /\ server.changes < MaxChanges /\ UNCHANGED <<part, archive, faults>>

MaildirArrive(i) == Changes /\ Arrive(i, server.home[i]) /\ Touch(i, {})
MaildirLeave(i) == Changes /\ Leave(i, {}) /\ Touch(i, {Name(i)})
MaildirAlter(i) ==
  Changes /\ Alter(i, server.home[i], IF Scanning(server.home[i]) THEN {i} ELSE {}, {})
          /\ Touch(i, {Name(i)})

-----------------------------------------------------------------------------
(* The run. *)

Maildir(h, failed) ==
  [pc |-> "scan", at |-> h, old |-> {}, touched |-> {}, listed |-> {}, failed |-> failed]
NextMaildir(failed) == IF run.at = LastHome THEN Over(failed) ELSE Maildir(run.at + 1, failed)

MaildirStart == IsMaildir /\ Begin(Maildir(1, FALSE))

(* list_folder: one name for each unique id.                               *)
Scan ==
  /\ IsMaildir /\ run.pc = "scan"
  /\ LET there == {n \in Names(run.at) : n.item \notin run.touched}
         maybe == run.old \union {n \in Names(run.at) : n.item \in run.touched}
     IN \E some \in SUBSET maybe :
          /\ \A n, o \in some : n.item = o.item => n = o
          /\ run' = [run EXCEPT !.pc = "apply", !.listed = there \union some,
                                !.old = {}, !.touched = {}]
  /\ UNCHANGED <<part, server, archive, past, faults>>

(* A directory that cannot be opened.                                      *)
ScanFails ==
  /\ IsMaildir /\ run.pc = "scan"
  /\ Fault
  /\ run' = NextMaildir(TRUE)
  /\ UNCHANGED <<part, server, archive, past>>

(* An entry that cannot be read is counted and left out of the listing; a  *)
(* directory that is_dir() cannot look at has no entries, and none failed. *)
ScanOverlooks ==
  /\ IsMaildir /\ run.pc = "scan"
  /\ Fault
  /\ \E n \in Names(run.at) :
       /\ run' = [run EXCEPT !.pc = "apply", !.listed = Names(run.at) \ {n},
                             !.old = {}, !.touched = {}, !.failed = TRUE]
       /\ past' = [past EXCEPT !.unseen = @ \union {n.item} \union run.touched]
  /\ UNCHANGED <<part, server, archive>>

DirectoryOverlooked ==
  /\ IsMaildir /\ run.pc = "scan"
  /\ Fault
  /\ run' = [run EXCEPT !.pc = "apply", !.listed = {}, !.old = {}, !.touched = {}]
  /\ past' = [past EXCEPT !.unseen = @ \union ItemsOf(Names(run.at))]
  /\ UNCHANGED <<part, server, archive>>

(* Seeded bug: the names of known messages are not looked at again. *)
KnownAsBefore(R, listed) == {r \in R : r.item \in ItemsOf(listed)}
(* refresh_flags, and the deletions: what is left of the folder's rows.    *)
KnownStill(R, listed) ==
  {[p[1] EXCEPT !.ver = p[2].ver, !.tag = p[2].ver] :
     p \in {p \in R \X listed : p[1].item = p[2].item}}

(* diff: what is new to the rows R.                                        *)
Unknown(R, listed) == {n \in listed : n.item \notin ItemsOf(R)}

(* insert_new.                                                             *)
Inserted(names, h) ==
  {[item |-> n.item, home |-> h, ver |-> n.ver, tag |-> n.ver, whole |-> TRUE] : n \in names}

(* apply_folder.  A file that has another name by now cannot be read.      *)
ApplyFolder ==
  /\ IsMaildir /\ run.pc = "apply"
  /\ LET known == InHome(archive, run.at)
         new == Unknown(known, run.listed)
         readable == {n \in new : n \in Names(run.at)}
     IN /\ archive' = (archive \ known) \union KnownStill(known, run.listed)
                        \union Inserted(readable, run.at)
        /\ run' = NextMaildir(run.failed \/ readable # new)
  /\ UNCHANGED <<part, server, past, faults>>

MaildirCrash == IsMaildir /\ Crash

(* Some step of MaildirRun can always be taken.                            *)
MaildirRun == MaildirStart \/ Scan \/ ApplyFolder

MaildirTypeOK ==
  IsMaildir /\ Running =>
    run \in [pc : {"scan", "apply"}, at : Homes, old : SUBSET [item : Items, ver : Versions],
             touched : SUBSET Items, listed : SUBSET [item : Items, ver : Versions],
             failed : BOOLEAN]

MaildirNext ==
  \/ \E i \in Items : MaildirArrive(i) \/ MaildirLeave(i) \/ MaildirAlter(i)
  \/ MaildirRun
  \/ ScanFails \/ ScanOverlooks \/ DirectoryOverlooked \/ MaildirCrash

MaildirSpec == MaildirInit /\ [][MaildirNext]_vars

-----------------------------------------------------------------------------
(***************************************************************************)
(* The messages, events and cards of a Google Takeout                      *)
(* (src/src/sync/import_takeout).                                          *)
(*                                                                         *)
(* The export is a directory of files.  The run reads one after the other, *)
(* each in a transaction of its own, and writes what it finds: a message   *)
(* is known by the hash of its bytes, an event and a card by their UID.    *)
(* Two entries can be the same object, in one file or in two.  No row is   *)
(* ever deleted.                                                           *)
(*                                                                         *)
(* An item of Reruns is an entry here, Uid its object; a folder is a file, *)
(* and with it the mailbox of the messages without labels, or the calendar *)
(* of the events; all cards go to one address book.                        *)
(***************************************************************************)
TakeoutKinds == {"takeout mail", "takeout events", "takeout cards"}
IsTakeout == part \in TakeoutKinds

TakeoutInit == RerunsInit /\ part \in TakeoutKinds

-----------------------------------------------------------------------------
(* The export is replaced by a later one.  A message that has changed is   *)
(* another message; an entry of an event or a card can change.             *)

Rearranged == IsTakeout /\ Changing

TakeoutArrive(i, h) == Rearranged /\ Arrive(i, h)
TakeoutLeave(i) == Rearranged /\ Leave(i, {})
TakeoutAlter(i) == Rearranged /\ part # "takeout mail" /\ Alter(i, server.home[i], {}, {})

-----------------------------------------------------------------------------
(* The run. *)

(* Of a message, the hash of the object is that of its content.            *)
Content(i) == IF part = "takeout mail" THEN 1 ELSE server.ver[i]

(* process_message: the mailboxes are those of this entry.  insert_event:  *)
(* merge_container_id keeps the calendars there were.  insert_card.        *)
Filed(row, h) ==
  IF part = "takeout mail" THEN {h}
  ELSE IF part = "takeout events" THEN (UNION {r.homes : r \in row}) \union {h}
  ELSE {}
Recorded(R, i) ==
  LET row == {r \in R : r.item = Uid[i]}
  IN (R \ row) \union {[item |-> Uid[i], homes |-> Filed(row, server.home[i]), ver |-> Content(i)]}

NextFile(at, failed) ==
  IF at > LastHome THEN Over(failed) ELSE [pc |-> "file", at |-> at, failed |-> failed]

TakeoutStart == IsTakeout /\ Begin([pc |-> "file", at |-> 1, failed |-> FALSE])

Reads(entries, failed) ==
  /\ archive' = FoldLeft(Recorded, archive, entries)
  /\ run' = NextFile(run.at + 1, run.failed \/ failed)

ProcessFile ==
  /\ IsTakeout /\ run.pc = "file"
  /\ Reads(Listing(run.at), FALSE)
  /\ UNCHANGED <<part, server, past, faults>>

(* A file that cannot be opened; of an mbox, what is read before an error; *)
(* an iCalendar that cannot be parsed is all lost.                         *)
ReadFails ==
  /\ IsTakeout /\ run.pc = "file"
  /\ Fault
  /\ \E n \in 0..Len(Listing(run.at)) :
       /\ part # "takeout mail" => n = 0
       /\ Reads(First(Listing(run.at), n), TRUE)
  /\ UNCHANGED <<part, server, past>>

(* An entry that is refused, or a vCard that cannot be parsed, is counted, *)
(* and the others are written.                                             *)
EntryFails(k) ==
  /\ IsTakeout /\ run.pc = "file" /\ k \in DOMAIN Listing(run.at)
  /\ Fault
  /\ Reads(RemoveAt(Listing(run.at), k), TRUE)
  /\ UNCHANGED <<part, server, past>>

(* walk_dir: a file, or the directory of some that come one after the      *)
(* other, whose path cannot be read.  It is only warned about and counted  *)
(* on its own, so the run does not report it.                              *)
FilesOverlooked(last) ==
  /\ IsTakeout /\ run.pc = "file" /\ last >= run.at
  /\ Fault
  /\ run' = NextFile(last + 1, run.failed)
  /\ past' = [past EXCEPT !.unseen = @ \union UNION {There(h) : h \in run.at..last}]
  /\ UNCHANGED <<part, server, archive>>

TakeoutCrash == IsTakeout /\ Crash

(* Some step of TakeoutRun can always be taken.                            *)
TakeoutRun == TakeoutStart \/ ProcessFile

TakeoutNext ==
  \/ \E i \in Items, h \in Homes : TakeoutArrive(i, h)
  \/ \E i \in Items : TakeoutLeave(i) \/ TakeoutAlter(i)
  \/ TakeoutRun
  \/ ReadFails \/ TakeoutCrash
  \/ \E k \in Items : EntryFails(k)
  \/ \E h \in Homes : FilesOverlooked(h)

-----------------------------------------------------------------------------
TakeoutRows == [item : ToSet(Uid), homes : SUBSET Homes, ver : Versions]

TakeoutTypeOK ==
  IsTakeout =>
    /\ server \in Servers /\ past \in Pasts
    /\ archive \subseteq TakeoutRows /\ \A r, q \in archive : r.item = q.item => r = q
    /\ Running => run \in [pc : {"file"}, at : Homes, failed : BOOLEAN]

(* The last entry of an object, of those that were not overlooked, is what *)
(* its row says.                                                           *)
Later(i, j) == server.home[j] < server.home[i] \/ (server.home[i] = server.home[j] /\ j <= i)
TakeoutMirroredBut(unseen) ==
  \A i \in server.on \ unseen :
    \E r \in archive :
      /\ r.item = Uid[i]
      /\ part = "takeout events" => server.home[i] \in r.homes
      /\ (\A j \in {j \in server.on \ unseen : Uid[j] = Uid[i]} : Later(i, j)) =>
           r.ver = Content(i) /\ (part = "takeout mail" => r.homes = {server.home[i]})
=============================================================================
