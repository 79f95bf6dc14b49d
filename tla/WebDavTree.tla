----------------------------- MODULE WebDavTree -----------------------------
(***************************************************************************)
(* The importer's reconciliation of a WebDAV file tree                     *)
(* (reconcile_filenodes in src/src/sync/import_dav/tree.rs), run after run.*)
(*                                                                         *)
(* A run walks the collections of the server breadth first, one PROPFIND   *)
(* each, writing the directories and planning the files as it goes; then   *)
(* it downloads the planned files; then it deletes every row it knew at    *)
(* the start and has not seen in a listing.  A listing that fails is       *)
(* counted and the walk goes on.                                           *)
(*                                                                         *)
(* A node is an href: it names its collection and whether it is one, and   *)
(* the href of a collection ends with a slash.  The row of a file gets the *)
(* last segment of the href for a name; that of a directory gets the       *)
(* DAV:displayname, anew with each listing, which need not be different    *)
(* from those of its siblings and can change.                              *)
(***************************************************************************)
EXTENDS Integers, FiniteSets, SequencesExt

CONSTANTS
  Nodes,        (* the hrefs below the root                                *)
  Dirs,         (* the collections among them                              *)
  Root,         (* the collection the import starts from                   *)
  Parent,       (* [node -> its collection]                                *)
  Name,         (* [node -> the last segment of its href]                  *)
  Titles,       (* [directory -> the displaynames it may be given]         *)
  CommitBatch,  (* FILE_COMMIT_BATCH                                       *)
  MaxChanges,   (* bound on the changes the server makes                   *)
  MaxFaults     (* bound on failed requests and crashes                    *)

Collections == Dirs \union {Root}
Versions == 1..(MaxChanges + 1)
Names == {Name[n] : n \in Nodes} \union UNION {Titles[d] : d \in Dirs}

ASSUME TreeAssumption ==
  /\ IsFiniteSet(Nodes) /\ Dirs \subseteq Nodes /\ Root \notin Nodes
  /\ Parent \in [Nodes -> Collections] /\ DOMAIN Name = Nodes /\ DOMAIN Titles = Dirs
ASSUME BoundsAssumption ==
  /\ CommitBatch \in Nat \ {0}
  /\ {MaxChanges, MaxFaults} \subseteq Nat

VARIABLES
  on,       (* server: the nodes it has                                    *)
  ver,      (* server: [node -> version of its content, which is its etag] *)
  title,    (* server: [directory -> its displayname, or what stands for it] *)
  changes,  (* server: how many changes it made                            *)
  rows,     (* archive: file_nodes and sync_id_dav                         *)
  pc,       (* where reconcile_filenodes is                                *)
  known,    (* the nodes that had a row when the run started               *)
  seen,     (* the nodes some listing named                                *)
  queue,    (* the collections still to be listed                          *)
  plans,    (* file_plans                                                  *)
  draft,    (* the rows as the transaction of the downloads sees them      *)
  pending,  (* how many files it holds                                     *)
  failed,   (* counts.failed > 0, or the run was aborted                   *)
  faults,   (* how many faults happened                                    *)
  blind,    (* history: collections this run did not list to the end       *)
  missed,   (* history: nodes the server lacked at some time of this run   *)
  moved     (* history: the server changed during this run                 *)

serverVars == <<on, ver, title, changes>>
historyVars == <<blind, missed, moved>>
vars == <<on, ver, title, changes, rows, pc, known, seen, queue, plans, draft, pending,
          failed, faults, blind, missed, moved>>

(* The collections a node is in, however deep: the least set that has its  *)
(* own one and that of every member.                                       *)
Upward(S) == \A d \in S \ {Root} : Parent[d] \in S
Above ==
  [n \in Nodes |->
     {d \in Collections : \A S \in SUBSET Collections : Parent[n] \in S /\ Upward(S) => d \in S}]
(* Every href is below the one the import starts from.                     *)
ASSUME RootAssumption == \A n \in Nodes : Root \in Above[n]

(* The nodes of a set below a collection.                                  *)
Below(S, d) == {n \in S : d \in Above[n]}

(* No server has two siblings whose hrefs differ in the slash alone, or a  *)
(* node without its parent.                                                *)
IsTree(S) ==
  /\ \A n \in S : Parent[n] \in S \union {Root}
  /\ \A m, n \in S : Parent[m] = Parent[n] /\ Name[m] = Name[n] => m = n

(* The name the listings of now give a node: display_or_path takes the     *)
(* last segment for a directory without a displayname, display_or_basename *)
(* for every file.                                                         *)
NameOf(n) == IF n \in Dirs THEN title[n] ELSE Name[n]

Archived(R) == {r.n : r \in R}

Init ==
  /\ on \in {S \in SUBSET Nodes : IsTree(S)}
  /\ ver = [n \in Nodes |-> 1] /\ changes = 0
  /\ title \in [Dirs -> Names] /\ \A d \in Dirs : title[d] \in Titles[d]
  /\ rows = {}
  /\ pc = "idle" /\ known = {} /\ seen = {} /\ queue = <<>>
  /\ plans = {} /\ draft = {} /\ pending = 0 /\ failed = FALSE
  /\ faults = 0 /\ blind = {} /\ missed = {} /\ moved = FALSE

-----------------------------------------------------------------------------
(* The server. *)

Changing ==
  /\ changes < MaxChanges /\ changes' = changes + 1
  /\ moved' = TRUE
  /\ UNCHANGED <<rows, pc, known, seen, queue, plans, draft, pending, failed, faults, blind>>

Put(n) ==
  /\ Changing
  /\ IsTree(on \union {n})
  /\ on' = on \union {n}
  /\ ver' = [ver EXCEPT ![n] = changes' + 1]
  /\ UNCHANGED <<title, missed>>

(* PROPPATCH; a directory that is not there yet comes with its title.      *)
Retitle(d, t) ==
  /\ Changing
  /\ t \in Titles[d] /\ title' = [title EXCEPT ![d] = t]
  /\ UNCHANGED <<on, ver, missed>>

Delete(n) ==
  /\ Changing
  /\ on' = on \ ({n} \union Below(on, n))
  /\ missed' = missed \union (Nodes \ on')
  /\ UNCHANGED <<ver, title>>

-----------------------------------------------------------------------------
(* The run. *)

Start ==
  /\ pc = "idle"
  /\ pc' = "walk"
  /\ known' = Archived(rows)
  /\ seen' = {} /\ queue' = <<Root>> /\ plans' = {}
  /\ failed' = FALSE /\ blind' = {} /\ missed' = Nodes \ on /\ moved' = FALSE
  /\ UNCHANGED <<serverVars, rows, draft, pending, faults>>

(* Seeded bug: names are not unique. *)
ClashesNever(R, n, name) == FALSE
(* UNIQUE (parent_id, name), which a NULL parent_id never violates.        *)
Clashes(R, n, name) ==
  /\ Parent[n] # Root
  /\ \E r \in R : r.n # n /\ Parent[r.n] = Parent[n] /\ r.name = name

Stored(R, n, etag, content) ==
  {r \in R : r.n # n} \union {[n |-> n, name |-> Name[n], etag |-> etag, content |-> content]}

(* Seeded bug: a file that is in the archive is not fetched again. *)
UpToDateIfThere(R, n) == n \in Archived(R)
UpToDate(R, n) == \E r \in R : r.n = n /\ r.etag = ver[n]

(* Seeded bug: a file is seen only if it has to be fetched. *)
SeenIfPlanned(M) == seen \union {n \in M : ~UpToDate(rows, n)}
Seen(M) == seen \union M

(* Responses of a listing: upsert_directory, in a transaction of its own,  *)
(* writes the row of a directory, or its name anew; plan_file.             *)
Written(D) ==
  {r \in rows : r.n \notin D} \union
  {[n |-> d, name |-> title[d], etag |-> 0, content |-> 0] : d \in D}
NewPlans(M) == {[n |-> f, etag |-> ver[f]] : f \in {n \in M \ Dirs : ~UpToDate(rows, n)}}
Responses(M) ==
  /\ rows' = Written(M \intersect Dirs)
  /\ plans' = plans \union NewPlans(M)

(* With the last collection the downloads begin, if there are any.         *)
Walked ==
  /\ pc' = IF queue' # <<>> THEN "walk" ELSE IF plans' # {} THEN "fetch" ELSE "sweep"
  /\ IF pc' = "fetch" THEN draft' = rows' ELSE UNCHANGED draft
  /\ UNCHANGED <<serverVars, known, pending, missed, moved>>

Listed == Head(queue) \in on \union {Root}
Members == {n \in on : Parent[n] = Head(queue)}
SubDirs == Members \intersect Dirs

(* Of the directories, as the answer orders them, the first k; whether the *)
(* one at k is refused its name when those before it have been written.    *)
UpTo(ds, k) == {ds[j] : j \in 1..k}
Refused(ds, k) == Clashes(Written(UpTo(ds, k - 1)), ds[k], title[ds[k]])

(* PROPFIND answers with the members in any order.                         *)
Walk ==
  /\ pc = "walk" /\ Listed
  /\ \E ds \in SetToSeqs(SubDirs) :
       /\ \A k \in DOMAIN ds : ~Refused(ds, k)
       /\ queue' = Tail(queue) \o ds
  /\ Responses(Members) /\ seen' = Seen(Members)
  /\ UNCHANGED <<failed, blind, faults>>
  /\ Walked

(* A directory that cannot be written ends the walk of its collection, and *)
(* what that would have returned is lost.                                  *)
WalkStops ==
  /\ pc = "walk" /\ Listed
  /\ \E ds \in SetToSeqs(SubDirs), files \in SUBSET (Members \ Dirs) :
       \E k \in DOMAIN ds :
         /\ Refused(ds, k) /\ \A j \in 1..(k - 1) : ~Refused(ds, j)
         /\ Responses(UpTo(ds, k - 1) \union files)
         /\ seen' = Seen(UpTo(ds, k) \union files)
  /\ queue' = Tail(queue)
  /\ failed' = TRUE /\ blind' = blind \union {Head(queue)}
  /\ UNCHANGED faults
  /\ Walked

Fault == faults < MaxFaults /\ faults' = faults + 1

(* PROPFIND fails, be it that the collection is gone.                      *)
WalkFails ==
  /\ pc = "walk"
  /\ IF Listed THEN Fault ELSE UNCHANGED faults
  /\ queue' = Tail(queue)
  /\ failed' = TRUE /\ blind' = blind \union {Head(queue)}
  /\ UNCHANGED <<rows, seen, plans>>
  /\ Walked

(* The replies arrive in any order; every CommitBatch files, and at the    *)
(* end, the transaction is committed.                                      *)
Received(p, R, n) ==
  /\ plans' = plans \ {p}
  /\ IF n = CommitBatch \/ plans' = {}
       THEN rows' = R /\ pending' = 0
       ELSE UNCHANGED rows /\ pending' = n
  /\ draft' = IF plans' = {} THEN {} ELSE R
  /\ pc' = IF plans' = {} THEN "sweep" ELSE "fetch"
  /\ UNCHANGED <<serverVars, known, seen, queue, historyVars>>

(* GET: the version of now, with its etag or, if the reply has none, with  *)
(* the etag of the listing.                                                *)
Fetch(p) ==
  /\ pc = "fetch"
  /\ p.n \in on /\ ~Clashes(draft, p.n, Name[p.n])
  /\ \E etag \in {ver[p.n], p.etag} :
       Received(p, Stored(draft, p.n, etag, ver[p.n]), pending + 1)
  /\ UNCHANGED <<failed, faults>>

FetchGone(p) ==
  /\ pc = "fetch"
  /\ p.n \notin on
  /\ Received(p, draft, pending)
  /\ UNCHANGED <<failed, faults>>

(* The request fails, or the row cannot be written.                        *)
FetchFails(p) ==
  /\ pc = "fetch"
  /\ p.n \in on
  /\ IF Clashes(draft, p.n, Name[p.n]) THEN UNCHANGED faults ELSE Fault
  /\ Received(p, draft, pending)
  /\ failed' = TRUE

(* delete_vanished goes by the number of slashes, the most first, and then *)
(* by href: a directory after the ones in it, but before the files in it,  *)
(* on which parent_id's ON DELETE RESTRICT makes it fail.                  *)
(* Seeded bug: a directory is deleted only if nothing was ever in it. *)
RemovableFiles(V) == V \ Dirs
Removable(V) == {n \in V : n \in Dirs => Below(Archived(rows), n) \subseteq V \intersect Dirs}

Sweep ==
  /\ pc = "sweep"
  /\ LET vanished == known \ seen
         removed == Removable(vanished)
     IN /\ rows' = {r \in rows : r.n \notin removed}
        /\ failed' = (failed \/ removed # vanished)
  /\ pc' = "idle" /\ known' = {} /\ seen' = {}
  /\ UNCHANGED <<serverVars, queue, plans, draft, pending, faults, historyVars>>

(* The archive cannot be written, or the process is killed.                *)
Abort ==
  /\ pc # "idle"
  /\ Fault
  /\ pc' = "idle" /\ known' = {} /\ seen' = {} /\ queue' = <<>> /\ plans' = {}
  /\ draft' = {} /\ pending' = 0 /\ failed' = TRUE
  /\ UNCHANGED <<serverVars, rows, historyVars>>

Run ==
  \/ Start \/ Walk \/ WalkStops \/ Sweep
  \/ pc = "walk" /\ ~Listed /\ WalkFails
  \/ \E p \in plans : Fetch(p) \/ FetchGone(p) \/ (Clashes(draft, p.n, Name[p.n]) /\ FetchFails(p))

Next ==
  \/ \E n \in Nodes \ Dirs : Put(n)
  \/ \E n \in Dirs \ on : Put(n)
  \/ \E n \in on : Delete(n)
  \/ \E d \in Dirs : \E t \in Titles[d] \ {title[d]} : Retitle(d, t)
  \/ Run \/ WalkFails \/ Abort
  \/ \E p \in plans : FetchFails(p)

Spec == Init /\ [][Next]_vars

(* The import is run again and again, and the server answers.              *)
FairSpec == Spec /\ WF_vars(Run)

-----------------------------------------------------------------------------
(* Types of the tables and of reconcile_filenodes' locals; the archive is  *)
(* a tree with unique names.                                               *)
RowsOK(R) ==
  /\ R \subseteq [n : Nodes, name : Names, etag : {0} \union Versions, content : {0} \union Versions]
  /\ \A r, q \in R : r.n = q.n => r = q
  /\ \A r \in R : r.n \notin Dirs => r.name = Name[r.n]
  /\ \A n \in Archived(R) : Parent[n] \in Archived(R) \union {Root}
  /\ \A r, q \in R :
       Parent[r.n] = Parent[q.n] /\ Parent[q.n] # Root /\ r.name = q.name => r = q

TypeOK ==
  /\ RowsOK(rows) /\ RowsOK(draft)
  /\ pc \in {"idle", "walk", "fetch", "sweep"}
  /\ known \subseteq Nodes /\ seen \subseteq Nodes
  /\ \A i \in DOMAIN queue : queue[i] \in Collections
  /\ plans \subseteq [n : Nodes \ Dirs, etag : Versions]
  /\ pending \in 0..(CommitBatch - 1) /\ faults \in 0..MaxFaults

Deleted == Archived(rows) \ Archived(rows')

(* A run deletes from the archive only what the server did not have at     *)
(* some time of this run, or what is below a collection whose listing it   *)
(* could not read to the end.                                              *)
KeptIfListed ==
  [][\A n \in Deleted : n \in missed \/ Above[n] \intersect blind # {}]_vars

(* What the program prints after a run in which something failed: "some    *)
(* objects failed; the archive is consistent and resumable".  A failure    *)
(* costs the archive no file that the server has.                          *)
KeptWhileThere == [][Deleted \subseteq missed]_vars

(* A node is archived as the server has it.                                *)
Copied(n) ==
  IF n \notin on THEN n \notin Archived(rows)
  ELSE \E r \in rows : r.n = n /\ r.name = NameOf(n) /\ (n \notin Dirs => r.content = ver[n])

(* A run that reports no failure, on a server that did not change in the   *)
(* meantime, leaves the archive as an exact copy of the tree: whatever the *)
(* runs before it failed at, and left undeleted, half written or with a    *)
(* name of before.                                                         *)
CleanRunMirrors ==
  [][pc = "sweep" /\ pc' = "idle" /\ ~failed' /\ ~moved => (\A n \in Nodes : Copied(n))']_vars

(* The collections, but for the topmost, in which two members get one      *)
(* name: two directories of one title, or a file called like one.          *)
Ambiguous ==
  {Parent[m] : m \in {k \in on : Parent[k] # Root /\
                        \E n \in on \ {k} : Parent[n] = Parent[k] /\ NameOf(n) = NameOf(k)}}

(* Once the server is quiet and the faults are over, rerunning ends with   *)
(* an exact copy, but for what is in such collections, where every run     *)
(* fails.  So it does when a file took the name of a directory, or a       *)
(* directory that of a file, or two directories exchanged theirs, and the  *)
(* old row is in the way of the new one: not before the one in the way     *)
(* has been left out by a listing and deleted.                             *)
TreeConverges == <>[](\A n \in Nodes : Above[n] \intersect Ambiguous = {} => Copied(n))
=============================================================================
