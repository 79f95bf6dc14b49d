--------------------------- MODULE ExchangeItems ----------------------------
(***************************************************************************)
(* The items of Exchange folders: messages, events and contacts, by way of *)
(* EWS and by way of Graph.                                                *)
(***************************************************************************)
EXTENDS Reruns

(***************************************************************************)
(* The items of Exchange folders over EWS (items.rs, messages.rs,          *)
(* calendar.rs, contacts.rs in src/src/sync/import_exchange_ews).          *)
(*                                                                         *)
(* Folder by folder, the importer lists the items page by page (FindItem), *)
(* compares ids and change keys with the rows of the folder, fetches what  *)
(* is new or changed in windows of one batch for each connection           *)
(* (GetItem), writes each item in a transaction of its own, and deletes    *)
(* the rows the listing did not name.  An error ends the folder and is     *)
(* counted; the run goes on with the next one.                             *)
(*                                                                         *)
(* The enumeration by SyncFolderItems is left out: it needs a stored sync  *)
(* state, and only that enumeration stores one.                            *)
(***************************************************************************)
CONSTANTS
  PageSize,   (* FindItem: items in a page                                 *)
  Batch,      (* batch_size: ids in one GetItem                            *)
  Workers     (* connections                                               *)

ASSUME EwsAssumption == {PageSize, Batch, Workers} \subseteq Nat \ {0}

EwsKinds == {"ews message", "ews event"}
IsEws == part \in EwsKinds

(* An event has modified occurrences and enclosures, which take further    *)
(* requests; a contact has a photo and is treated as an event is.          *)
HasMore == part # "ews message"

EwsInit == RerunsInit /\ part \in EwsKinds

-----------------------------------------------------------------------------
(* The Exchange store: an item that moves to another folder gets a new id. *)

(* FindItem counts from the first item: when one of a page that has been   *)
(* read goes, the first item of the next page moves to the page before it. *)
Shifted(i) ==
  IF Running /\ run.pc = "find" /\ i \in ToSet(First(Listing(run.at), run.from))
    THEN ToSet(First(Rest(Listing(run.at), run.from), 1))
    ELSE {}

EwsArrive(i, h) == IsEws /\ Changing /\ server.ver[i] = 0 /\ Arrive(i, h)
EwsLeave(i) == IsEws /\ Changing /\ Leave(i, Shifted(i))
EwsAlter(i) == IsEws /\ Changing /\ Alter(i, server.home[i], {}, {})

-----------------------------------------------------------------------------
(* The run. *)

Folder(h, failed) ==
  [pc |-> "find", at |-> h, from |-> 0, listed |-> <<>>, changed |-> {}, todo |-> <<>>,
   window |-> {}, got |-> <<>>, gone |-> {}, failed |-> failed]

(* The loop of reconcile_all, after a folder.                              *)
NextFolder(r) == IF r.at = LastHome THEN Over(r.failed) ELSE Folder(r.at + 1, r.failed)

EwsStart == IsEws /\ Begin(Folder(1, FALSE))

(* ids.chunks(Batch)                                                       *)
Chunks(ids) == {First(Rest(ids, k * Batch), Batch) : k \in 0..((Len(ids) - 1) \div Batch)}

(* for_each_fetched_item sends off the next window, a batch for each       *)
(* connection, when the replies to the last one are written; then it is    *)
(* the turn of delete_vanished.                                            *)
Continue(r) ==
  IF r.window # {} \/ r.got # <<>> THEN r
  ELSE IF r.todo # <<>> THEN [r EXCEPT !.window = Chunks(First(r.todo, Batch * Workers)),
                                       !.todo = Rest(r.todo, Batch * Workers)]
  ELSE IF r.gone # {} THEN [r EXCEPT !.pc = "sweep"]
  ELSE NextFolder(r)

(* The entries of s at the positions P.                                    *)
Picked(s, P) == [k \in 1..Cardinality(P) |-> s[InOrder(P)[k]]]

(* Seeded bug: an item whose change key differs is taken as unchanged. *)
DiffIds(listed, known) ==
  LET ids == ItemsOf(known) IN
  [new |-> Picked(listed, {k \in DOMAIN listed : listed[k].item \notin ids}), changed |-> <<>>,
   gone |-> ids \ {e.item : e \in ToSet(listed)}]
(* An item that was listed twice is new twice.                             *)
Diff(listed, known) ==
  LET ids == ItemsOf(known)
      Changed(e) == \E r \in known : r.item = e.item /\ r.tag # e.ver
  IN [new |-> Picked(listed, {k \in DOMAIN listed : listed[k].item \notin ids}),
      changed |-> Picked(listed, {k \in DOMAIN listed : Changed(listed[k])}),
      gone |-> ids \ {e.item : e \in ToSet(listed)}]

Ids(entries) == [k \in DOMAIN entries |-> entries[k].item]

(* With the last page comes the comparison with the rows of the folder.    *)
Find ==
  /\ IsEws /\ run.pc = "find"
  /\ LET items == Listing(run.at)
         page == First(Rest(items, run.from), PageSize)
         listed == run.listed \o [k \in DOMAIN page |->
                                    [item |-> page[k], ver |-> server.ver[page[k]]]]
         plan == Diff(listed, InHome(archive, run.at))
     IN run' = IF run.from + PageSize < Len(items)
                 THEN [run EXCEPT !.from = @ + PageSize, !.listed = listed]
                 ELSE Continue([run EXCEPT
                        !.pc = "get", !.from = 0, !.listed = <<>>,
                        !.todo = Ids(plan.new) \o Ids(plan.changed),
                        !.changed = ToSet(Ids(plan.changed)), !.gone = plan.gone])
  /\ UNCHANGED <<part, server, archive, past, faults>>

(* GetItem answers for one chunk; an item that is gone is only skipped.    *)
GetItem(ids) ==
  /\ IsEws /\ run.pc = "get" /\ ids \in run.window
  /\ LET there == Picked(ids, {k \in DOMAIN ids : ids[k] \in server.on})
         replies == [k \in DOMAIN there |-> [item |-> there[k], ver |-> server.ver[there[k]]]]
     IN run' = Continue([run EXCEPT !.window = @ \ {ids}, !.got = @ \o replies])
  /\ UNCHANGED <<part, server, archive, past, faults>>

(* A fault of one batch: its ids are left for the next run.                *)
BatchFails(ids) ==
  /\ IsEws /\ run.pc = "get" /\ ids \in run.window
  /\ Fault
  /\ run' = Continue([run EXCEPT !.window = @ \ {ids}, !.failed = TRUE])
  /\ UNCHANGED <<part, server, archive, past>>

(* Another error ends the folder, once all replies have been received, and *)
(* drops them.                                                             *)
FolderFails(r) == NextFolder([r EXCEPT !.failed = TRUE])

RequestFails ==
  /\ IsEws
  /\ run.pc = "find" \/ (run.pc = "get" /\ run.window # {})
  /\ Fault
  /\ run' = FolderFails(run)
  /\ UNCHANGED <<part, server, archive, past>>

Handled == [run EXCEPT !.got = Tail(@)]

(* apply_message, apply_event, apply_contact: an update if the listing     *)
(* found the item changed, an insertion otherwise, which the sync id of an *)
(* item that is already there refuses.  A request for the rest of the item *)
(* that fails is only logged.                                              *)
Apply(whole) ==
  LET msg == Head(run.got)
      there == msg.item \in ItemsOf(archive)
  IN
  /\ IsEws /\ run.pc = "get" /\ run.window = {} /\ run.got # <<>>
  /\ whole \/ HasMore
  /\ IF msg.item \in run.changed \/ ~there
       THEN /\ archive' = Without(archive, {msg.item}) \union
                 {[item |-> msg.item, home |-> run.at, ver |-> msg.ver,
                   tag |-> msg.ver, whole |-> whole]}
            /\ run' = Continue(Handled)
            /\ past' = [past EXCEPT !.frozen = (@ \ {msg.item}) \union
                                                  (IF whole THEN {} ELSE {msg.item})]
       ELSE run' = FolderFails(run) /\ UNCHANGED <<archive, past>>
  /\ UNCHANGED <<part, server>>

ApplyWhole == Apply(TRUE) /\ UNCHANGED faults
ApplyPart == Apply(FALSE) /\ Fault

(* The server answers with an error for this item, or the item cannot be   *)
(* decoded; what cannot be parsed ends the folder.                         *)
ItemFails ==
  /\ IsEws /\ run.pc = "get" /\ run.window = {} /\ run.got # <<>>
  /\ Fault
  /\ \/ run' = Continue([Handled EXCEPT !.failed = TRUE])
     \/ run' = FolderFails(run)
  /\ UNCHANGED <<part, server, archive, past>>

(* apply_message, when the answer has no MimeContent: the message is       *)
(* counted as skipped, which no run reports as a failure.                  *)
NoContent ==
  LET i == Head(run.got).item IN
  /\ IsEws /\ ~HasMore /\ run.pc = "get" /\ run.window = {} /\ run.got # <<>>
  /\ Fault
  /\ run' = Continue(Handled)
  /\ past' = IF i \in run.changed THEN [past EXCEPT !.frozen = @ \union {i}]
             ELSE [past EXCEPT !.unseen = @ \union {i}]
  /\ UNCHANGED <<part, server, archive>>

(* delete_vanished, in a transaction for each row, which can fail.         *)
Vanish(i) ==
  /\ IsEws /\ run.pc = "sweep" /\ i \in run.gone
  /\ archive' = Without(archive, {i})
  /\ run' = Continue([run EXCEPT !.gone = @ \ {i}])
  /\ UNCHANGED <<part, server, past, faults>>

VanishFails(i) ==
  /\ IsEws /\ run.pc = "sweep" /\ i \in run.gone
  /\ Fault
  /\ run' = Continue([run EXCEPT !.gone = @ \ {i}, !.failed = TRUE])
  /\ UNCHANGED <<part, server, archive, past>>

EwsCrash == IsEws /\ Crash

Requested == IF IsEws /\ Running THEN run.window ELSE {}
Vanished == IF IsEws /\ Running THEN run.gone ELSE {}

EwsRun ==
  \/ EwsStart \/ Find \/ ApplyWhole
  \/ \E ids \in Requested : GetItem(ids)
  \/ \E i \in Vanished : Vanish(i)

(* Some step of EwsRun can always be taken.                                *)
EwsTypeOK ==
  IsEws /\ Running =>
    /\ run \in [pc : {"find", "get", "sweep"}, at : Homes, from : 0..LastItem,
               listed : Seq([item : Items, ver : Versions]), changed : SUBSET Items,
               todo : Seq(Items), window : SUBSET Seq(Items),
               got : Seq([item : Items, ver : Versions]), gone : SUBSET Items,
               failed : BOOLEAN]
    /\ run.pc = "get" => run.window # {} \/ run.got # <<>>
    /\ run.pc = "sweep" => run.gone # {}

EwsNext ==
  \/ \E i \in Items : EwsLeave(i) \/ EwsAlter(i) \/ \E h \in Homes : EwsArrive(i, h)
  \/ EwsRun
  \/ RequestFails \/ ApplyPart \/ ItemFails \/ NoContent \/ EwsCrash
  \/ \E ids \in Requested : BatchFails(ids)
  \/ \E i \in Vanished : VanishFails(i)
EwsSpec == EwsInit /\ [][EwsNext]_vars

-----------------------------------------------------------------------------
(***************************************************************************)
(* The items of Exchange folders over Microsoft Graph (messages.rs,        *)
(* contacts.rs, calendar.rs in src/src/sync/import_exchange_graph; the     *)
(* occurrences of a series are in GraphSeries).                            *)
(*                                                                         *)
(* The importer compares ids only: it fetches an item once, whatever       *)
(* becomes of it later, one GET for each through the worker pool.  After   *)
(* the last folder, and if every folder was listed, it deletes the rows of *)
(* the ids it knew at the start and that no listing named.  With immutable *)
(* ids, an item that moves keeps its id.                                   *)
(***************************************************************************)
CONSTANT ChunkSize  (* CHUNK_SIZE: rows in one transaction                 *)

ASSUME GraphAssumption == ChunkSize \in Nat \ {0}

GraphKinds == {"graph message", "graph event"}
IsGraph == part \in GraphKinds

(* A message is written with the keywords of the listing, as it is         *)
(* received; events, and contacts like them, are collected first.          *)
Streamed == part = "graph message"

GraphInit == RerunsInit /\ part \in GraphKinds

-----------------------------------------------------------------------------
(* The mailbox. *)

(* What the row of an item is made of is taken from the listing (its       *)
(* folder, and the keywords of a message) and from the reply to the GET.   *)
TakenFrom(i, h) ==
  \/ i \in ItemsOf(archive)
  \/ /\ Running
     /\ \/ i \in ItemsOf(run.draft \union run.got)
        \/ i \in ItemsOf(run.todo) /\ (Streamed \/ h # server.home[i])

NotListedYet(h) == Running /\ (h > run.at \/ (h = run.at /\ run.pc = "list"))

(* An item that moves to a folder this run has been through escapes it.    *)
Escapes(i, h) == IF NotListedYet(server.home[i]) /\ ~NotListedYet(h) THEN {i} ELSE {}

GraphArrive(i, h) == IsGraph /\ Changing /\ server.ver[i] = 0 /\ Arrive(i, h)
GraphLeave(i) == IsGraph /\ Changing /\ Leave(i, {})
GraphAlter(i, h) ==
  IsGraph /\ Changing /\ Alter(i, h, Escapes(i, h), IF TakenFrom(i, h) THEN {i} ELSE {})

-----------------------------------------------------------------------------
(* The run. *)

GraphStart ==
  IsGraph /\ Begin([pc |-> "list", at |-> 1, known |-> ItemsOf(archive), listed |-> {},
                    planned |-> {}, todo |-> {}, got |-> {}, draft |-> {}, pending |-> 0,
                    blind |-> FALSE, failed |-> FALSE])

(* Seeded bug: the rows are deleted also if a folder could not be listed. *)
VanishedAnyway(r) == r.known \ r.listed
VanishedIds(r) == IF r.blind THEN {} ELSE r.known \ r.listed

NextList(r) ==
  IF r.at < LastHome THEN [r EXCEPT !.pc = "list", !.at = @ + 1]
  ELSE IF VanishedIds(r) # {} THEN [r EXCEPT !.pc = "sweep"]
  ELSE Over(r.failed)

(* Where the loop is when a reply is dealt with.                           *)
AfterReply(r) ==
  IF r.todo # {} THEN r
  ELSE IF r.got # {} THEN [r EXCEPT !.pc = "store"]
  ELSE NextList(r)

(* The ids of one folder, page after page; the new ones go to the pool.    *)
List ==
  /\ IsGraph /\ run.pc = "list"
  /\ LET ids == There(run.at)
         new == ids \ (run.known \union run.planned)
     IN /\ run' = AfterReply([run EXCEPT
                    !.pc = "fetch", !.listed = @ \union ids, !.planned = @ \union new,
                    !.todo = {[item |-> i, ver |-> server.ver[i]] : i \in new}])
        /\ past' = [past EXCEPT !.frozen = @ \ new]
  /\ UNCHANGED <<part, server, archive, faults>>

ListFails ==
  /\ IsGraph /\ run.pc = "list"
  /\ Fault
  /\ run' = NextList([run EXCEPT !.blind = TRUE, !.failed = TRUE])
  /\ UNCHANGED <<part, server, archive, past>>

(* fetch_and_insert: the transaction is committed with every ChunkSize     *)
(* rows and with the last reply.                                           *)
Received(t, R, n, failed) ==
  LET last == run.todo = {t}
      full == n = ChunkSize \/ last
      r == [run EXCEPT !.todo = @ \ {t}, !.pending = IF full THEN 0 ELSE n,
                       !.draft = IF full THEN {} ELSE R, !.failed = @ \/ failed]
  IN /\ archive' = IF full THEN archive \union R ELSE archive
     /\ run' = AfterReply(r)

RowFor(t, ver, whole) ==
  [item |-> t.item, home |-> run.at, ver |-> ver, tag |-> 0, whole |-> whole]

FetchMime(t) ==
  /\ IsGraph /\ Streamed /\ run.pc = "fetch" /\ t.item \in server.on
  /\ Received(t, run.draft \union {RowFor(t, t.ver, TRUE)}, run.pending + 1, FALSE)
  /\ UNCHANGED <<part, server, past, faults>>

(* The attachments of an event, or the photo of a contact, are fetched in  *)
(* the same job; what fails of that is not even logged.                    *)
FetchJson(t, whole) ==
  /\ IsGraph /\ ~Streamed /\ run.pc = "fetch" /\ t.item \in server.on
  /\ IF whole THEN UNCHANGED faults ELSE Fault
  /\ run' = AfterReply([run EXCEPT !.todo = @ \ {t},
                          !.got = @ \union {RowFor(t, server.ver[t.item], whole)}])
  /\ past' = [past EXCEPT !.frozen = @ \union IF whole THEN {} ELSE {t.item}]
  /\ UNCHANGED <<part, server, archive>>

FetchVanished(t) ==
  /\ IsGraph /\ run.pc = "fetch" /\ t.item \notin server.on
  /\ Received(t, run.draft, run.pending, FALSE)
  /\ UNCHANGED <<part, server, past, faults>>

FetchFails(t) ==
  /\ IsGraph /\ run.pc = "fetch"
  /\ Fault
  /\ Received(t, run.draft, run.pending, TRUE)
  /\ UNCHANGED <<part, server, past>>

(* insert_events_chunked, insert_contacts_chunked                          *)
StoreChunk ==
  /\ IsGraph /\ run.pc = "store"
  /\ \E chunk \in SUBSET run.got :
       /\ Cardinality(chunk) = ChunkSize \/ (chunk = run.got /\ Cardinality(chunk) < ChunkSize)
       /\ archive' = archive \union chunk
       /\ run' = AfterReply([run EXCEPT !.got = @ \ chunk])
  /\ UNCHANGED <<part, server, past, faults>>

(* delete_vanished: some rows in a transaction; a row that cannot be       *)
(* deleted is counted, and the others are committed.                       *)
Delete(stay) ==
  \E chunk \in SUBSET VanishedIds(run) :
    /\ Cardinality(chunk) = ChunkSize
       \/ (chunk = VanishedIds(run) /\ Cardinality(chunk) < ChunkSize)
    /\ stay \subseteq chunk
    /\ archive' = Without(archive, chunk \ stay)
    /\ LET r == [run EXCEPT !.known = @ \ chunk, !.failed = @ \/ stay # {}]
       IN run' = IF VanishedIds(r) = {} THEN Over(r.failed) ELSE r

DeleteVanished ==
  /\ IsGraph /\ run.pc = "sweep"
  /\ Delete({})
  /\ UNCHANGED <<part, server, past, faults>>

DeleteFails(i) ==
  /\ IsGraph /\ run.pc = "sweep"
  /\ Fault /\ Delete({i})
  /\ UNCHANGED <<part, server, past>>

GraphCrash == IsGraph /\ Crash

Asked == IF IsGraph /\ Running THEN run.todo ELSE {}

GraphRun ==
  \/ GraphStart \/ List \/ StoreChunk \/ DeleteVanished
  \/ \E t \in Asked : FetchMime(t) \/ FetchJson(t, TRUE) \/ FetchVanished(t)

(* Some step of GraphRun can always be taken.                              *)
GraphTypeOK ==
  IsGraph /\ Running =>
    /\ run \in [pc : {"list", "fetch", "store", "sweep"}, at : Homes, known : SUBSET Items,
                listed : SUBSET Items, planned : SUBSET Items,
                todo : SUBSET [item : Items, ver : Versions], got : SUBSET Rows,
                draft : SUBSET Rows, pending : 0..(ChunkSize - 1), blind : BOOLEAN,
                failed : BOOLEAN]
    /\ Cardinality(run.draft) = run.pending
    /\ run.pc = "fetch" => run.todo # {}
    /\ run.pc = "store" => run.got # {}
    /\ run.pc = "sweep" => VanishedIds(run) # {}

GraphNext ==
  \/ \E i \in Items, h \in Homes : GraphArrive(i, h) \/ GraphAlter(i, h)
  \/ \E i \in Items : GraphLeave(i) \/ DeleteFails(i)
  \/ GraphRun
  \/ ListFails \/ GraphCrash
  \/ \E t \in Asked : FetchJson(t, FALSE) \/ FetchFails(t)

GraphSpec == GraphInit /\ [][GraphNext]_vars
=============================================================================
