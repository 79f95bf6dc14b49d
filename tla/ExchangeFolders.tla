-------------------------- MODULE ExchangeFolders ---------------------------
(***************************************************************************)
(* The folder trees of Exchange: reconcile of                              *)
(* src/src/sync/import_exchange_ews/folders.rs and reconcile_mail of       *)
(* src/src/sync/import_exchange_graph/folders.rs.                          *)
(*                                                                         *)
(* A folder has an id for life; it can be renamed and moved.  The run      *)
(* lists the tree, writes the folders parents first, finding the row of    *)
(* the parent through the ids it knows, and then deletes the rows of the   *)
(* folders that are gone, children first.  The archive refuses a mailbox   *)
(* of the name of a sibling, UNIQUE (parent_id, name), except at the top,  *)
(* where parent_id is NULL, and the deletion of one that has children.     *)
(*                                                                         *)
(* An item of Reruns is a folder here.                                     *)
(***************************************************************************)
EXTENDS Reruns

CONSTANT
  FolderChunk   (* CHUNK_SIZE: the folders Graph writes in one transaction *)

ASSUME ExchangeFoldersAssumption == FolderChunk \in Nat \ {0}

ExchangeTrees == {"ews folders", "graph folders"}
IsExchangeTree == part \in ExchangeTrees
ByGraph == part = "graph folders"

(* ever: the folders there have been; had: the places they have had.  One  *)
(* folder may be a calendar.                                               *)
ExchangeTreeInit ==
  /\ part \in ExchangeTrees
  /\ \E class \in [Items -> {"mailboxes", "calendars"}],
        parent \in [Items -> {Top} \union Items], name \in [Items -> FolderNames] :
       /\ \A i \in Items : parent[i] < i
       /\ \A i \in {1} \union (Items \ 1..FirstFolders) :
            parent[i] = Top /\ name[i] = CHOOSE n \in FolderNames : TRUE
       /\ IsTree(1..FirstFolders, parent, name)
       /\ Cardinality({i \in Items : class[i] = "calendars"}) <= 1
       /\ ByGraph => class = [i \in Items |-> "mailboxes"]
       /\ server = [on |-> 1..FirstFolders, ever |-> 1..FirstFolders, parent |-> parent,
                    name |-> name, class |-> class, changes |-> 0,
                    had |-> {Place(i, parent[i], name[i]) : i \in 1..FirstFolders}]
  /\ archive = {} /\ run = Over(FALSE) /\ faults = 0
  /\ past = [missed |-> {}, moved |-> FALSE, unseen |-> {}, frozen |-> {}]

-----------------------------------------------------------------------------
(* The Exchange store. *)

Put(i, p, n, unseen) ==
  LET on == server.on \union {i}
      parent == [server.parent EXCEPT ![i] = p]
      name == [server.name EXCEPT ![i] = n]
  IN
  /\ Changing
  /\ IsTree(on, parent, name)
  /\ server' = [server EXCEPT !.on = on, !.ever = @ \union {i}, !.parent = parent, !.name = name,
                              !.changes = @ + 1, !.had = @ \union {Place(i, p, n)}]
  /\ past' = [past EXCEPT !.moved = TRUE, !.unseen = @ \union unseen]

NewFolder(i, p, n) == IsExchangeTree /\ i \notin server.ever /\ Put(i, p, n, {})

(* A listing of Graph takes many requests: it can miss what moves.         *)
MoveFolder(i, p, n) ==
  /\ IsExchangeTree /\ i \in server.on /\ <<p, n>> # <<server.parent[i], server.name[i]>>
  /\ Put(i, p, n, IF ByGraph /\ Running /\ run.pc = "list" THEN Below(server.parent, i) ELSE {})

DeleteFolder(i) ==
  /\ IsExchangeTree /\ Changing /\ i \in server.on
  /\ LET gone == Below(server.parent, i) \intersect server.on IN
     /\ server' = [server EXCEPT !.on = @ \ gone, !.changes = @ + 1]
     /\ past' = [past EXCEPT !.moved = TRUE, !.missed = @ \union gone]

-----------------------------------------------------------------------------
(* The archive.  The mailboxes and the calendars have their own row ids.   *)

Table(R, t) == {r \in R : r.table = t}
Mailboxes(R) == Table(R, "mailboxes")
RowOf(i) == CHOOSE r \in archive : r.item = i
FreshId(R, t) == 1 + Max({0} \union {r.id : r \in Table(R, t)})

(* UNIQUE (parent_id, name), and parent_id REFERENCES mailboxes(id).       *)
Lawful(R) ==
  /\ \A r, q \in Mailboxes(R) : r.parent = q.parent /\ r.parent # Top /\ r.name = q.name => r = q
  /\ \A r \in Mailboxes(R) : r.parent = Top \/ \E q \in Mailboxes(R) : q.id = r.parent

(* The writes of a run: the rows, the row ids it knows, whether one has    *)
(* been refused.                                                           *)
Upserted(s, e) ==
  LET old == {r \in s.rows : r.item = e.item}
      table == server.class[e.item]
      found == {k.id : k \in {x \in s.known : x.item = e.parent}}
      parent == IF table = "calendars" \/ found = {} THEN Top ELSE CHOOSE id \in found : TRUE
      id == IF old = {} THEN FreshId(s.rows, table) ELSE (CHOOSE r \in old : TRUE).id
      under == IF old = {} THEN e.parent ELSE (CHOOSE r \in old : TRUE).under
      rows == (s.rows \ old) \union
                {[item |-> e.item, table |-> table, id |-> id, name |-> e.name,
                  parent |-> parent, under |-> under]}
  IN IF s.ok /\ Lawful(rows)
       THEN [rows |-> rows, known |-> s.known \union {[item |-> e.item, id |-> id]}, ok |-> TRUE]
       ELSE [s EXCEPT !.ok = FALSE]

-----------------------------------------------------------------------------
(* The run. *)

(* order_by_parent: depths among the folders of one class.                 *)
Parents(plan, class) ==
  [i \in Items |->
     LET found == {e.parent : e \in {x \in plan : x.item = i}} \intersect {e.item : e \in plan}
         same == {p \in found : server.class[p] = class}
     IN IF same = {} THEN Top ELSE CHOOSE p \in same : TRUE]
(* Seeded bug: in the order of the listing. *)
OrdersAsListed(plan) ==
  LET Key(e) == 0 IN Sorted(plan, Key)
Orders(plan) ==
  LET parents == Parents(plan, "mailboxes")
      depth == [i \in Items |-> Depth(parents, i)]
      Key(e) == IF server.class[e.item] = "calendars" THEN LastItem ELSE depth[e.item]
  IN Sorted(plan, Key)

(* folder_depth of EWS goes by the parent a folder had when its row was    *)
(* inserted, mailbox_depths of Graph by the rows.                          *)
Above(R) ==
  [i \in Items |->
     LET row == {r \in Mailboxes(R) : r.item = i}
         up == {q.item : q \in {q \in Mailboxes(R) : \E r \in row :
                  IF ByGraph THEN r.parent = q.id ELSE r.under = q.item}}
     IN IF up = {} THEN Top ELSE CHOOSE j \in up : TRUE]
GoneOrders(R, gone) ==
  LET above == Above(R)
      depth == [i \in Items |-> Depth(above, i)]
      Key(i) == IF server.class[i] = "calendars" THEN 0 ELSE 0 - depth[i] - 1
  IN Sorted(gone, Key)

Plan(frontier) ==
  [pc |-> "list", frontier |-> frontier, plan |-> {}, known |-> {}, todo |-> <<>>,
   vanished |-> {}, gone |-> <<>>, failed |-> FALSE]

TreeStart == IsExchangeTree /\ Begin(Plan({Top}))

Entry(i) == Place(i, server.parent[i], server.name[i])

(* After the listing: ids that are known from the archive help EWS to find *)
(* the parent's row; Graph knows those of this run alone.                  *)
ToWrite(r) ==
  \E order \in Orders(r.plan) :
    run' = [r EXCEPT !.pc = "write", !.todo = order, !.plan = {},
              !.vanished = ItemsOf(archive) \ {e.item : e \in r.plan},
              !.known = IF ByGraph THEN {}
                        ELSE {[item |-> q.item, id |-> q.id] : q \in archive}]

(* FindFolder with a deep traversal.                                       *)
FindFolders ==
  /\ IsExchangeTree /\ ~ByGraph /\ run.pc = "list"
  /\ ToWrite([run EXCEPT !.plan = {Entry(i) : i \in server.on}])
  /\ UNCHANGED <<part, server, archive, past, faults>>

(* childFolders of one folder after another; one that is gone by then is   *)
(* an error, which ends the run.                                           *)
ListChildren(p) ==
  /\ IsExchangeTree /\ ByGraph /\ run.pc = "list" /\ p \in run.frontier
  /\ LET seen == {e.item : e \in run.plan}
         new == {i \in server.on : server.parent[i] = p} \ seen
         next == [run EXCEPT !.frontier = (@ \ {p}) \union new,
                             !.plan = @ \union {Entry(i) : i \in new}]
     IN IF p \notin server.on \union {Top} THEN run' = Over(TRUE)
        ELSE IF next.frontier # {} THEN run' = next
        ELSE ToWrite(next)
  /\ UNCHANGED <<part, server, archive, past, faults>>

ListTreeFails ==
  /\ IsExchangeTree /\ run.pc = "list"
  /\ Fault
  /\ run' = Over(TRUE)
  /\ UNCHANGED <<part, server, archive, past>>

(* delete_vanished.                                                        *)
Swept(r, R) ==
  IF r.vanished = {} THEN run' = Over(FALSE)
  ELSE \E order \in GoneOrders(R, r.vanished) :
         run' = [r EXCEPT !.pc = "sweep", !.vanished = {}, !.known = {}, !.gone = order]

(* One transaction: a folder of EWS, a chunk of Graph.  What the archive   *)
(* refuses rolls it back and ends the run.                                 *)
WriteFolders ==
  /\ IsExchangeTree /\ run.pc = "write"
  /\ LET n == IF ByGraph THEN FolderChunk ELSE 1
         done == FoldLeft(Upserted, [rows |-> archive, known |-> run.known, ok |-> TRUE],
                          First(run.todo, n))
         next == [run EXCEPT !.todo = Rest(@, n), !.known = done.known]
     IN IF ~done.ok THEN run' = Over(TRUE) /\ UNCHANGED archive
        ELSE /\ archive' = done.rows
             /\ IF next.todo # <<>> THEN run' = next ELSE Swept(next, done.rows)
  /\ UNCHANGED <<part, server, past, faults>>

(* parent_id ... ON DELETE RESTRICT: counted, and the row stays.           *)
VanishFolder ==
  /\ IsExchangeTree /\ run.pc = "sweep"
  /\ LET row == RowOf(Head(run.gone))
         restricted == row.table = "mailboxes" /\
                       \E r \in Mailboxes(archive) \ {row} : r.parent = row.id
         next == [run EXCEPT !.gone = Tail(@), !.failed = @ \/ restricted]
     IN /\ archive' = IF restricted THEN archive ELSE archive \ {row}
        /\ run' = IF next.gone = <<>> THEN Over(next.failed) ELSE next
  /\ UNCHANGED <<part, server, past, faults>>

TreeCrash == IsExchangeTree /\ Crash

Frontier == IF IsExchangeTree /\ Running THEN run.frontier ELSE {}

(* Some step of ExchangeTreeRun can always be taken.                       *)
ExchangeTreeRun ==
  \/ TreeStart \/ FindFolders \/ WriteFolders \/ VanishFolder
  \/ \E p \in Frontier : ListChildren(p)

ExchangeTreeNext ==
  \/ \E i \in Items, p \in {Top} \union Items, n \in FolderNames : NewFolder(i, p, n) \/ MoveFolder(i, p, n)
  \/ \E i \in Items : DeleteFolder(i)
  \/ ExchangeTreeRun
  \/ ListTreeFails \/ TreeCrash

-----------------------------------------------------------------------------
ExchangeRows ==
  [item : Items, table : {"mailboxes", "calendars"}, id : Nat \ {0}, name : FolderNames,
   parent : Nat, under : {Top} \union Items]

ExchangeTreeTypeOK ==
  IsExchangeTree =>
    /\ server.on \subseteq server.ever /\ IsTree(server.on, server.parent, server.name)
    /\ archive \subseteq ExchangeRows /\ Lawful(archive)
    /\ \A r, q \in archive : r.item = q.item => r = q
    /\ Running =>
         /\ run.pc \in {"list", "write", "sweep"} /\ run.failed \in BOOLEAN
         /\ run.pc = "list" => run.frontier # {}
         /\ run.pc = "sweep" => run.gone # <<>> /\ ToSet(run.gone) \subseteq ItemsOf(archive)

(* A mail folder has been put into a calendar.                             *)
Mixed ==
  \E x \in server.had :
    x.parent # Top /\ server.class[x.item] = "mailboxes" /\ server.class[x.parent] = "calendars"

ParentOf(r) ==
  IF r.parent = Top THEN Top ELSE (CHOOSE q \in Mailboxes(archive) : q.id = r.parent).item

(* The rows are the tree; a calendar has no parent in the archive.         *)
ExchangeTreeMirrored ==
  /\ ItemsOf(archive) = server.on
  /\ \A r \in archive :
       /\ r.name = server.name[r.item]
       /\ r.table = "mailboxes" => ParentOf(r) = server.parent[r.item]

(* However folders move, and wherever a run stops, no mailbox is written   *)
(* under one that is, or comes to be, below it: the rows stay a tree.      *)
Rooted ==
  IsExchangeTree /\ ~Mixed =>
    LET parent == [i \in Items |-> IF \E r \in Mailboxes(archive) : r.item = i
                                     THEN ParentOf(RowOf(i)) ELSE Top]
    IN \A r \in Mailboxes(archive) : \E j \in Lineage(parent, r.item) : parent[j] = Top
=============================================================================
