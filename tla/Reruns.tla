------------------------------- MODULE Reruns -------------------------------
(***************************************************************************)
(* What the importers of items have in common: a server whose folders hold *)
(* items, an archive of rows, and a run that is repeated.  One module for  *)
(* each importer extends this one and gives the steps of its run; `part'   *)
(* tells which importer a behaviour is about, so that a module can put     *)
(* several of them together.                                               *)
(*                                                                         *)
(* The fields of `run' are the locals of the importer's functions and      *)
(* differ from one to the next.  `past' is history, which no code reads.   *)
(*                                                                         *)
(* For the importers of trees an item is a folder: it has an id for life,  *)
(* and can be renamed and moved.                                           *)
(***************************************************************************)
EXTENDS Integers, FiniteSets, SequencesExt

CONSTANTS
  LastItem,    (* the items are 1..LastItem: a folder lists them in this order *)
  LastHome,    (* the folders are 1..LastHome, in the order of a run       *)
  Uid,         (* [item -> the UID its content names], which two can share *)
  FolderNames, (* the names of folders, for the importers of trees         *)
  FirstFolders,(* the folders of a tree at first: 1..FirstFolders          *)
  MaxChanges,  (* bound on the changes the server makes                    *)
  MaxFaults    (* bound on failed requests and crashes                     *)

ASSUME RerunsAssumption ==
  /\ {LastItem, LastHome} \subseteq Nat \ {0}
  /\ DOMAIN Uid = 1..LastItem
  /\ FirstFolders \in 0..LastItem
  /\ {MaxChanges, MaxFaults} \subseteq Nat

VARIABLES part, server, archive, run, past, faults
vars == <<part, server, archive, run, past, faults>>

Versions == 1..(MaxChanges + 1)

(* Between two runs: whether something failed in the last one.             *)
Over(failed) == [pc |-> "over", failed |-> failed]
Running == run.pc # "over"
Items == 1..LastItem
Homes == 1..LastHome

(* server: the items there are, the folder each is or was in, the version  *)
(* of its content (0: there never was such an item), the number of changes *)
Servers ==
  [on : SUBSET Items, home : [Items -> Homes], ver : [Items -> {0} \union Versions],
   changes : 0..MaxChanges]

(* past: what the server lacked at some time of this run, whether it       *)
(* changed during this run, what this run may have left out although it    *)
(* was there, and the rows that nothing will bring up to date (for EWS,    *)
(* nothing before a run that finds their content).                         *)
Pasts == [missed : SUBSET Items, moved : BOOLEAN, unseen : SUBSET Items, frozen : SUBSET Items]

(* A row: the item, its folder, the version of its content, the version    *)
(* that its change key or etag stands for (0 when there is none), whether  *)
(* it has everything that belongs to it.                                   *)
Rows ==
  [item : Items, home : Homes, ver : Versions, tag : {0} \union Versions, whole : BOOLEAN]

ItemsOf(R) == {r.item : r \in R}
Without(R, S) == {r \in R : r.item \notin S}
InHome(R, h) == {r \in R : r.home = h}
First(s, n) == SubSeq(s, 1, IF n < Len(s) THEN n ELSE Len(s))
Rest(s, n) == SubSeq(s, n + 1, Len(s))
InOrder(S) ==
  CHOOSE s \in [1..Cardinality(S) -> S] : \A j, k \in DOMAIN s : j < k => s[j] < s[k]

(* The orders that key allows, ties in any order.                          *)
Sorted(S, key(_)) ==
  {s \in [1..Cardinality(S) -> S] :
     \A k, l \in DOMAIN s : k < l => s[k] # s[l] /\ key(s[k]) <= key(s[l])}

(* What a folder lists.                                                    *)
There(h) == {i \in server.on : server.home[i] = h}
Listing(h) == InOrder(There(h))

(* At first the items there are come before those there were not yet, and  *)
(* are in the order of their folders.                                      *)
RerunsInit ==
  /\ \E on \in {1..k : k \in 0..LastItem}, home \in [Items -> Homes] :
       /\ \A i \in Items \ on : home[i] = 1
       /\ \A i, j \in on : i < j => home[i] <= home[j]
       /\ server = [on |-> on, home |-> home, changes |-> 0,
                 ver |-> [i \in Items |-> IF i \in on THEN 1 ELSE 0]]
  /\ archive = {} /\ run = Over(FALSE) /\ faults = 0
  /\ past = [missed |-> {}, moved |-> FALSE, unseen |-> {}, frozen |-> {}]

-----------------------------------------------------------------------------
(* The server. *)

Changing == server.changes < MaxChanges /\ UNCHANGED <<part, archive, run, faults>>

(* What the change number n makes of item i.                               *)
Renewed(i, on, h) ==
  [on |-> on, home |-> [server.home EXCEPT ![i] = h], changes |-> server.changes + 1,
   ver |-> [server.ver EXCEPT ![i] = server.changes + 2]]

Arrive(i, h) ==
  /\ i \notin server.on
  /\ server' = Renewed(i, server.on \union {i}, h)
  /\ past' = [past EXCEPT !.moved = TRUE]

(* `unseen': what a listing that is under way may lose by the change.      *)
Leave(i, unseen) ==
  /\ i \in server.on
  /\ server' = [server EXCEPT !.on = @ \ {i}, !.changes = @ + 1]
  /\ past' = [past EXCEPT !.moved = TRUE, !.missed = @ \union {i}, !.unseen = @ \union unseen]

(* `frozen': the rows that will not follow the change.                     *)
Alter(i, h, unseen, frozen) ==
  /\ i \in server.on
  /\ server' = Renewed(i, server.on, h)
  /\ past' = [past EXCEPT !.moved = TRUE, !.unseen = @ \union unseen,
                          !.frozen = @ \union frozen]

-----------------------------------------------------------------------------
(* The run. *)

Fault == faults < MaxFaults /\ faults' = faults + 1

Begin(first) ==
  /\ ~Running
  /\ run' = first
  /\ past' = [past EXCEPT !.missed = Items \ server.on, !.moved = FALSE, !.unseen = {}]
  /\ UNCHANGED <<part, server, archive, faults>>

(* The process is killed, or the archive cannot be written.                *)
Crash ==
  /\ Running /\ Fault
  /\ run' = Over(TRUE)
  /\ UNCHANGED <<part, server, archive, past>>

-----------------------------------------------------------------------------
TypeOK ==
  /\ server \in Servers /\ past \in Pasts /\ faults \in 0..MaxFaults
  /\ archive \subseteq Rows
  /\ \A r, q \in archive : r.item = q.item => r = q

(* A run deletes from the archive only what the server did not have at     *)
(* some time of this run, or what the run left out: because a change       *)
(* shifted it in the listing, or, for a Maildir and for scripts, because   *)
(* it could not be read.  (What a run over EWS or a Takeout leaves out had *)
(* no row, or keeps it.)  No other failure, crash or retry costs the       *)
(* archive an item.  main.rs: "the archive is consistent and resumable".   *)
KeptWhileThere ==
  [][ItemsOf(archive) \ ItemsOf(archive') \subseteq past.missed \union past.unseen]_vars

(* UNIQUE (uid) of contact_cards, which only the UIDs of vCards meet: EWS  *)
(* and Graph make one of the id.                                           *)
Taken(i, R) == part = "dav card" /\ \E r \in R : r.item # i /\ Uid[r.item] = Uid[i]

(* A copy of the folders, but for what a run left out.                     *)
MirroredBut(unseen) ==
  /\ ItemsOf(archive) \subseteq server.on
  /\ \A i \in server.on \ (ItemsOf(archive) \union unseen) : Taken(i, archive)
  /\ \A r \in archive : r.item \notin past.frozen =>
       r.ver = server.ver[r.item] /\ r.home = server.home[r.item] /\ r.whole

-----------------------------------------------------------------------------
(* Trees of folders. *)

Top == 0   (* the root, and NULL *)

(* i and the folders above it.                                             *)
Lineage(parent, i) ==
  LET up[k \in 0..LastItem] ==
        IF k = 0 THEN i ELSE IF up[k - 1] = Top THEN Top ELSE parent[up[k - 1]]
  IN {up[k] : k \in 0..LastItem} \ {Top}
Depth(parent, i) == Cardinality(Lineage(parent, i)) - 1
Below(parent, i) == {j \in Items : i \in Lineage(parent, j)}

(* A tree in which siblings have different names.                          *)
IsTree(on, parent, name) ==
  /\ \A i \in on : parent[i] \in on \union {Top} /\ \E j \in Lineage(parent, i) : parent[j] = Top
  /\ \A i, j \in on : parent[i] = parent[j] /\ name[i] = name[j] => i = j

Place(i, p, n) == [item |-> i, parent |-> p, name |-> n]

(* Two folders have been given one place, not at the top, one after the    *)
(* other: server.had are the places that folders have had.                 *)
Reused ==
  \E x, y \in server.had : x.item # y.item /\ x.parent = y.parent /\ x.parent # Top /\ x.name = y.name
=============================================================================
