------------------------------ MODULE DavItems ------------------------------
(***************************************************************************)
(* The items of CalDAV and CardDAV collections                             *)
(* (src/src/sync/import_dav/items.rs).                                     *)
(*                                                                         *)
(* Collection by collection, the importer lists hrefs and etags (PROPFIND),*)
(* asks for what is new or has another etag in multigets, through the      *)
(* worker pool, gets one by one what a multiget did not bring, and deletes *)
(* the rows the listing did not name.  A failed listing ends the           *)
(* collection; anything else that fails is counted and left for later.     *)
(***************************************************************************)
EXTENDS Reruns

CONSTANTS
  MultigetBatch,  (* multiget_batch: hrefs in one REPORT                   *)
  CommitBatch     (* COMMIT_BATCH: replies to GETs in one transaction      *)

ASSUME DavAssumption == {MultigetBatch, CommitBatch} \subseteq Nat \ {0}

DavKinds == {"dav event", "dav card"}
IsDav == part \in DavKinds

(* A collection has no two items with one UID.                             *)
DistinctUids(S) ==
  \A i, j \in S : Uid[i] = Uid[j] /\ server.home[i] = server.home[j] => i = j

DavInit == RerunsInit /\ part \in DavKinds /\ DistinctUids(server.on)

-----------------------------------------------------------------------------
(* The server: an href stays in its collection, and can be used again.     *)

DavArrive(i) ==
  IsDav /\ Changing /\ DistinctUids(server.on \union {i}) /\ Arrive(i, server.home[i])
DavLeave(i) == IsDav /\ Changing /\ Leave(i, {})
DavAlter(i) == IsDav /\ Changing /\ Alter(i, server.home[i], {}, {})

-----------------------------------------------------------------------------
(* The run. *)

Collection(h, failed) ==
  [pc |-> "propfind", at |-> h, jobs |-> {}, singles |-> {}, draft |-> {},
   pending |-> 0, vanished |-> {}, failed |-> failed]

NextCollection(r) ==
  IF r.at = LastHome THEN Over(r.failed) ELSE Collection(r.at + 1, r.failed)

DavStart == IsDav /\ Begin(Collection(1, FALSE))

(* reconcile_items_generic: the multigets, the GETs, the deletions.        *)
Onward(r) ==
  IF r.jobs # {} THEN r
  ELSE IF r.singles # {} THEN [r EXCEPT !.pc = "get one"]
  ELSE IF r.vanished # {} THEN [r EXCEPT !.pc = "delete"]
  ELSE NextCollection(r)

(* Seeded bug: an item that has a row is not fetched again. *)
ToFetchNew(listed, known) == {e \in listed : e.item \notin ItemsOf(known)}
(* What has no row, no etag, or another one.                               *)
ToFetch(listed, known) ==
  {e \in listed : e.tag = 0 \/ ~\E r \in known : r.item = e.item /\ r.tag = e.tag}

(* The chunks of a listing: so many of its entries, then so many more.     *)
Before(e, S) == Cardinality({d \in S : d.item < e.item})
Pieces(S) ==
  {{e \in S : Before(e, S) \div MultigetBatch = k} :
     k \in 0..((Cardinality(S) - 1) \div MultigetBatch)}

(* Some servers have no etags.                                             *)
Propfind ==
  /\ IsDav /\ run.pc = "propfind"
  /\ \E etags \in BOOLEAN :
       LET listed == {[item |-> i, tag |-> IF etags THEN server.ver[i] ELSE 0] : i \in There(run.at)}
           known == InHome(archive, run.at)
       IN run' = Onward([run EXCEPT
                   !.pc = "multiget",
                   !.jobs = Pieces(ToFetch(listed, known)),
                   !.vanished = ItemsOf(known) \ There(run.at)])
  /\ UNCHANGED <<part, server, archive, past, faults>>

PropfindFails ==
  /\ IsDav /\ run.pc = "propfind"
  /\ Fault
  /\ run' = NextCollection([run EXCEPT !.failed = TRUE])
  /\ UNCHANGED <<part, server, archive, past>>

(* insert_or_update_tx: an UPDATE if the item had a row when the           *)
(* collection was begun.  A card whose UID another row has is refused.     *)
Found(e) ==
  [item |-> e.item, home |-> run.at, ver |-> server.ver[e.item], tag |-> e.tag, whole |-> TRUE]
Refused(entries, R) == {e \in entries : e.item \in server.on /\ Taken(e.item, R)}
Brought(entries, R) == {e \in entries : e.item \in server.on} \ Refused(entries, R)

(* No two items of a collection have one UID, so that the order in which   *)
(* the entries are written is of no account.                               *)
WriteAll(R, entries) ==
  Without(R, ItemsOf(Brought(entries, R))) \union {Found(e) : e \in Brought(entries, R)}

(* A multistatus, in transactions of its own; an href that is gone is no   *)
(* failure.  The etags are those of now, or missing.                       *)
Multiget(job) ==
  /\ IsDav /\ run.pc = "multiget" /\ job \in run.jobs
  /\ \E etags \in BOOLEAN :
       LET entries == {[item |-> e.item, tag |-> IF etags THEN server.ver[e.item] ELSE 0]
                         : e \in job}
       IN /\ archive' = WriteAll(archive, entries)
          /\ run' = Onward([run EXCEPT !.jobs = @ \ {job},
                                       !.failed = @ \/ Refused(entries, archive) # {}])
  /\ UNCHANGED <<part, server, past, faults>>

(* An answer that says so fails the chunk.                                 *)
MultigetRefused(job) ==
  /\ IsDav /\ run.pc = "multiget" /\ job \in run.jobs
  /\ Fault
  /\ run' = Onward([run EXCEPT !.jobs = @ \ {job}, !.failed = TRUE])
  /\ UNCHANGED <<part, server, archive, past>>

(* No answer, one that cannot be parsed, or a server without multiget,     *)
(* which is no fault.                                                      *)
MultigetFails(job) ==
  /\ IsDav /\ run.pc = "multiget" /\ job \in run.jobs
  /\ run' = Onward([run EXCEPT !.jobs = @ \ {job}, !.singles = @ \union job])
  /\ UNCHANGED <<part, server, archive, past, faults>>

(* run_get_pool: one transaction goes on over the replies.                 *)
Base == IF run.pending = 0 THEN archive ELSE run.draft
Replied(e, R, n, failed) ==
  LET full == n = CommitBatch \/ run.singles = {e} IN
  /\ archive' = IF full THEN R ELSE archive
  /\ run' = Onward([run EXCEPT !.singles = @ \ {e}, !.pending = IF full THEN 0 ELSE n,
                               !.draft = IF full \/ n = 0 THEN {} ELSE R, !.failed = @ \/ failed])

(* The row keeps the etag of the reply, or the one of the listing.         *)
GetOne(e) ==
  /\ IsDav /\ run.pc = "get one" /\ e.item \in server.on
  /\ \E tag \in {e.tag, server.ver[e.item]} :
       IF Taken(e.item, Base) THEN Replied(e, Base, run.pending, TRUE)
       ELSE Replied(e, WriteAll(Base, {[e EXCEPT !.tag = tag]}), run.pending + 1, FALSE)
  /\ UNCHANGED <<part, server, past, faults>>

GetGone(e) ==
  /\ IsDav /\ run.pc = "get one" /\ e.item \notin server.on
  /\ Replied(e, Base, run.pending, FALSE)
  /\ UNCHANGED <<part, server, past, faults>>

GetFails(e) ==
  /\ IsDav /\ run.pc = "get one"
  /\ Fault
  /\ Replied(e, Base, run.pending, TRUE)
  /\ UNCHANGED <<part, server, past>>

(* Each row in a transaction of its own; an error ends the collection.     *)
DeleteItem(i) ==
  /\ IsDav /\ run.pc = "delete" /\ i \in run.vanished
  /\ archive' = Without(archive, {i})
  /\ run' = Onward([run EXCEPT !.vanished = @ \ {i}])
  /\ UNCHANGED <<part, server, past, faults>>

DeleteItemFails ==
  /\ IsDav /\ run.pc = "delete"
  /\ Fault
  /\ run' = NextCollection([run EXCEPT !.failed = TRUE])
  /\ UNCHANGED <<part, server, archive, past>>

DavCrash == IsDav /\ Crash

Jobs == IF IsDav /\ Running THEN run.jobs ELSE {}
Singles == IF IsDav /\ Running THEN run.singles ELSE {}
Doomed == IF IsDav /\ Running THEN run.vanished ELSE {}

DavRun ==
  \/ DavStart \/ Propfind
  \/ \E job \in Jobs : Multiget(job)
  \/ \E e \in Singles : GetOne(e) \/ GetGone(e)
  \/ \E i \in Doomed : DeleteItem(i)

(* Some step of DavRun can always be taken.                                *)
DavTypeOK ==
  IsDav /\ Running =>
    /\ run \in [pc : {"propfind", "multiget", "get one", "delete"}, at : Homes,
                jobs : SUBSET SUBSET [item : Items, tag : {0} \union Versions],
                singles : SUBSET [item : Items, tag : {0} \union Versions], draft : SUBSET Rows,
                pending : 0..(CommitBatch - 1), vanished : SUBSET Items, failed : BOOLEAN]
    /\ run.pc = "multiget" => run.jobs # {}
    /\ run.pc = "get one" => run.singles # {}
    /\ run.pc = "delete" => run.vanished # {}
    /\ \A r, q \in archive : part = "dav card" /\ Uid[r.item] = Uid[q.item] => r = q

DavNext ==
  \/ \E i \in Items : DavArrive(i) \/ DavLeave(i) \/ DavAlter(i)
  \/ DavRun
  \/ PropfindFails \/ DeleteItemFails \/ DavCrash
  \/ \E job \in Jobs : MultigetRefused(job) \/ MultigetFails(job)
  \/ \E e \in Singles : GetFails(e)

DavSpec == DavInit /\ [][DavNext]_vars
=============================================================================
