---------------------------- MODULE ExportTypes ----------------------------
(***************************************************************************)
(* The export of what is not an email (run, prune_phase, reconcile_type    *)
(* and do_destroy of src/src/sync/export.rs, and tree.rs, flat.rs,         *)
(* uidtype.rs and sieve.rs below it; src/src/sync/prune.rs), run after     *)
(* run, while other clients use the target.                                *)
(*                                                                         *)
(* A run goes through the types it was given, in EXPORT_ORDER.  For each   *)
(* it lists the target's objects, matches the archive's rows with them,    *)
(* creates the rest, and plans the removal of what matched nothing.  With  *)
(* --prune the plans are carried out at the end, the last type first.      *)
(*                                                                         *)
(* A row is its index in archive.rows; above comes before below.  `mark'   *)
(* is the role of a mailbox (there is one), the default of an address      *)
(* book, the activity of a script; the parent of a card is its book; the   *)
(* name of a card is its UID.                                              *)
(***************************************************************************)
EXTENDS Integers, Sequences, FiniteSetsExt

CONSTANTS
  Archives,   (* the archives: [work, the types in order; rows]            *)
  Targets,    (* the objects a target may have at first                    *)
  Names,
  Fold,       (* fold_name: [Names -> Names]                               *)
  MaxUpsets   (* bound on faults, crashes and changes by other clients     *)

Trees == {"Mailbox", "FileNode"}
Types == Trees \union {"AddressBook", "ContactCard", "SieveScript"}
Top == 0
Row == [type : Types, parent : Nat, name : Names, mark : BOOLEAN]
Object == [id : Nat, type : Types, parent : Nat, name : Names, mark : BOOLEAN, locked : BOOLEAN]
Keyed == {"ContactCard", "SieveScript"}
SameKey(t, u) == t.type = u.type /\ t.type \in Keyed /\ t.name = u.name

(* The rows of an archive have their parents first; EXPORT_ORDER has each  *)
(* type once.  What holds of any account: an object is in one that exists, *)
(* and no two cards or scripts have the same UID or name.                  *)
ASSUME ExportAssumption ==
  /\ Fold \in [Names -> Names] /\ MaxUpsets \in Nat
  /\ \A a \in Archives :
       /\ a.rows \in Seq(Row) /\ a.work \in Seq(Types) /\ a.work # <<>>
       /\ \A i, j \in DOMAIN a.work : a.work[i] = a.work[j] => i = j
       /\ \A l \in DOMAIN a.rows : a.rows[l].parent < l
  /\ \A T \in Targets :
       /\ T \subseteq Object /\ IsFiniteSet(T)
       /\ \A t \in T : /\ t.id \in 1..Cardinality(T)
                       /\ t.parent = Top \/ \E u \in T : u.id = t.parent
       /\ \A t, u \in T : t.id = u.id \/ SameKey(t, u) => t = u

VARIABLES
  archive,   (* never changed                                              *)
  target,    (* its objects, and the id of the next one                    *)
  run,       (* the locals of run and of a type's reconcile                *)
  upsets     (* how many faults and changes by others there were           *)
vars == <<archive, target, run, upsets>>

Rows == DOMAIN archive.rows
RowAt(l) == archive.rows[l]
RowsOf(T) == {l \in Rows : RowAt(l).type = T}
Ids(objs) == {t.id : t \in objs}
Unmapped == [l \in Rows |-> Top]
Image(maps) == {maps[l] : l \in Rows} \ {Top}
Type == archive.work[run.at]

RowDepth(l) ==
  LET d[k \in 0..Len(archive.rows)] == IF k = Top THEN 0 ELSE 1 + d[RowAt(k).parent] IN d[l]

(* run: where the run is, the type it is at; Maps, the plans so far,       *)
(* whether something was counted as failed; of the type: its objects when  *)
(* they were listed, tmatched, taken_roles or default_claimed, and the     *)
(* rows still to create.  `moved' is history: whether another client, a    *)
(* repeated creation or a request whose failure is not counted came into   *)
(* this run.                                                               *)
NoPlan == [depth |-> [id \in {} |-> 0], active |-> Top]
NoPlans == [i \in DOMAIN archive.work |-> NoPlan]
Over(maps, failed, moved) ==
  [pc |-> "over", at |-> 1, prune |-> FALSE, maps |-> maps, plans |-> NoPlans, failed |-> failed,
   listed |-> {}, kept |-> {}, taken |-> FALSE, todo |-> {}, moved |-> moved]

Init ==
  /\ archive \in Archives
  /\ \E objs \in Targets :
       /\ \A t \in objs : \E i \in DOMAIN archive.work : archive.work[i] = t.type
       /\ target = [objs |-> objs, next |-> Cardinality(objs) + 1]
  /\ run = Over(Unmapped, FALSE, TRUE)
  /\ upsets = 0

Upset == upsets < MaxUpsets /\ upsets' = upsets + 1

-----------------------------------------------------------------------------
(* The target.  Two siblings have different names, a card's UID is its     *)
(* own; only address books may share a name.                               *)
Clashing(objs, row, parent) ==
  IF row.type = "AddressBook" THEN {}
  ELSE {t \in objs : /\ t.type = row.type /\ t.name = row.name
                     /\ row.type \in Trees => t.parent = parent}

Exists(objs, id) == id = Top \/ id \in Ids(objs)
NewObject(id, row, parent, mark) ==
  [id |-> id, type |-> row.type, parent |-> parent, name |-> row.name, mark |-> mark,
   locked |-> FALSE]

(* What has something in it is not destroyed: destroy_contents_arg is      *)
(* false everywhere.  Nor is the active script.                            *)
(* Seeded bug: what has something in it is destroyed. *)
StaysIfActive(objs, id) == \E t \in objs : t.id = id /\ t.type = "SieveScript" /\ t.mark
Stays(objs, id) ==
  \E t \in objs : t.parent = id \/ (t.id = id /\ t.type = "SieveScript" /\ t.mark)
Without(objs, I) == {t \in objs : t.id \notin I}

-----------------------------------------------------------------------------
(* Other clients create and destroy objects.                               *)
OtherCreates(row) ==
  /\ Upset
  /\ Exists(target.objs, row.parent) /\ Clashing(target.objs, row, row.parent) = {}
  /\ target' = [objs |-> target.objs \union {NewObject(target.next, row, row.parent, FALSE)},
                next |-> target.next + 1]
  /\ run' = [run EXCEPT !.moved = TRUE]
  /\ UNCHANGED archive

OtherDestroys(t) ==
  /\ Upset
  /\ ~t.mark /\ ~t.locked /\ ~Stays(target.objs, t.id)
  /\ target' = [target EXCEPT !.objs = Without(@, {t.id})]
  /\ run' = [run EXCEPT !.moved = TRUE]
  /\ UNCHANGED archive

-----------------------------------------------------------------------------
(* The run.                                                                *)
Begin(prune) ==
  /\ run.pc = "over"
  /\ run' = [Over(Unmapped, FALSE, FALSE) EXCEPT !.pc = "match", !.prune = prune]
  /\ UNCHANGED <<archive, target, upsets>>

(* The type is done with this plan; after the last one comes the pruning.  *)
TypeDone(r, plan) ==
  LET s == [r EXCEPT !.plans[r.at] = plan, !.listed = {}, !.kept = {}, !.taken = FALSE,
                     !.todo = {}]
  IN IF r.at < Len(archive.work) THEN [s EXCEPT !.pc = "match", !.at = @ + 1]
     ELSE IF r.prune THEN [s EXCEPT !.pc = "prune"]
     ELSE Over(r.maps, r.failed, r.moved)

Aborted(r) == TypeDone([r EXCEPT !.failed = TRUE], NoPlan)

(* Where a row belongs on the target; placed once its parent is mapped.    *)
Place(l, maps) == IF RowAt(l).parent = Top THEN Top ELSE maps[RowAt(l).parent]
Placed(l, maps) == RowAt(l).parent = Top \/ maps[RowAt(l).parent] # Top

SameName(t, l, maps) ==
  IF Type \in Keyed THEN t.name = RowAt(l).name
  ELSE /\ Placed(l, maps) /\ t.parent = Place(l, maps)
       /\ Fold[t.name] = Fold[RowAt(l).name]

FirstOf(objs) == LET id == Min(Ids(objs)) IN CHOOSE t \in objs : t.id = id

(* The mailbox with the role, wherever it is, then level by level by name. *)
MatchRole(maps, S) ==
  LET there == {t \in S : Type = "Mailbox" /\ t.mark}
      here  == {l \in RowsOf(Type) : RowAt(l).mark}
  IN [l \in Rows |-> IF there # {} /\ l \in here /\ \A k \in here : l <= k
                       THEN FirstOf(there).id ELSE maps[l]]

(* What row l may be matched with: what no row before it was.              *)
Hits(l, first, maps, S) ==
  {t \in S : /\ SameName(t, l, maps)
             /\ Type \in Keyed \/ \A k \in Rows : t.id # first[k] /\ (k < l => t.id # maps[k])}

(* The matching of the type's rows that starts with `first'; there is one. *)
Matchings(first, S) ==
  {maps \in [Rows -> {Top} \union Image(first) \union Ids(S)] : \A l \in Rows :
     maps[l] = IF first[l] # Top \/ l \notin RowsOf(Type) THEN first[l]
               ELSE LET hits == Hits(l, first, maps, S)
                    IN IF hits = {} THEN Top ELSE FirstOf(hits).id}

Match ==
  /\ run.pc = "match"
  /\ LET S == {t \in target.objs : t.type = Type}
     IN \E maps \in Matchings(MatchRole(run.maps, S), S) :
          LET uids == {RowAt(l).name : l \in {k \in RowsOf(Type) : maps[k] # Top}}
          IN run' = [run EXCEPT
               !.pc = "create", !.maps = maps, !.listed = S, !.taken = \E t \in S : t.mark,
               !.kept = IF Type = "ContactCard" THEN Ids({t \in S : t.name \in uids})
                        ELSE Ids(S) \intersect Image(maps),
               !.todo = {l \in RowsOf(Type) : maps[l] = Top}]
  /\ UNCHANGED <<archive, target, upsets>>

MatchFails ==
  /\ run.pc = "match" /\ Upset
  /\ run' = Aborted(run)
  /\ UNCHANGED <<archive, target>>

-----------------------------------------------------------------------------
(* The creation of rows, a request at a time: a level of mailboxes, the    *)
(* address books, and one of all other objects, parents first.             *)
Group ==
  LET upper == {l \in run.todo : \A k \in run.todo : RowDepth(l) <= RowDepth(k)}
  IN IF Type = "Mailbox" THEN upper
     ELSE IF Type = "AddressBook" THEN run.todo
     ELSE {l \in upper : \A k \in upper : l <= k}

(* find_name_collision, among what was listed; then record_merge.          *)
Collisions(l) ==
  {t \in run.listed : /\ Type \in Trees /\ Placed(l, run.maps)
                      /\ t.parent = Place(l, run.maps) /\ Fold[t.name] = Fold[RowAt(l).name]}

(* Seeded bug: what was merged into counts as unmatched. *)
MergedUnkept(r, into) ==
  [r EXCEPT !.maps = [l \in Rows |-> IF l \in DOMAIN into THEN into[l] ELSE @[l]]]
Merged(r, into) ==
  [r EXCEPT !.maps = [l \in Rows |-> IF l \in DOMAIN into THEN into[l] ELSE @[l]],
            !.kept = @ \union {into[l] : l \in DOMAIN into}]

(* The rows of the group that collide are merged; those without a parent   *)
(* fail; the others are sent.                                              *)
Colliding == {l \in Group : Collisions(l) # {}}
Sent == {l \in Group : Placed(l, run.maps)} \ Colliding
Prepared ==
  [Merged(run, [l \in Colliding |-> FirstOf(Collisions(l)).id]) EXCEPT
     !.todo = @ \ Group, !.failed = @ \/ \E l \in Group : ~Placed(l, run.maps)]

(* A row of G asks for its mark if nothing on the target has it and no row *)
(* before it does: of what is sent for a role, of what was created for the *)
(* default, which is set by one more request.  Scripts are activated later. *)
(* Seeded bug: the role is asked for although the target has it. *)
MarkedAlways(l, G) == RowAt(l).mark
Marked(l, G) == RowAt(l).mark /\ ~run.taken /\ \A k \in G : k < l => ~RowAt(k).mark

(* The rows N are created in objects that come after `next'.               *)
Earlier(l, N) == {k \in N : k < l}
IdOf(l, N, next) == next + Cardinality(Earlier(l, N))
Made(N, next, default) ==
  {NewObject(IdOf(l, N, next), RowAt(l), Place(l, run.maps),
             \/ Type = "Mailbox" /\ Marked(l, Sent)
             \/ Type = "AddressBook" /\ default /\ Marked(l, N)) : l \in N}
After(t, N, default) ==
  [objs |-> t.objs \union Made(N, t.next, default), next |-> t.next + Cardinality(N)]

(* Row l comes to the target t when the rows N before it were created.     *)
(* There is an error if it has a sibling of its name, which the error may  *)
(* name, if its parent is gone, or if there is a role already.             *)
Siblings(l, N, t) ==
  Clashing(After(t, Earlier(l, N), FALSE).objs, RowAt(l), Place(l, run.maps))
Allowed(l, N, t) ==
  /\ Exists(t.objs, Place(l, run.maps))
  /\ Type = "Mailbox" /\ Marked(l, Sent) =>
       \A u \in After(t, Earlier(l, N), FALSE).objs : u.type = Type => ~u.mark

(* What the target creates of G, a row after the other; there is one.      *)
Creations(G, t) ==
  {N \in SUBSET G : \A l \in G : l \in N <=> Allowed(l, N, t) /\ Siblings(l, N, t) = {}}

(* The answer: the rows N were created at t, of all that were sent.        *)
Answer(r, N, t, named) ==
  LET again == {l \in Sent \ N : named /\ Type \in Trees /\ Allowed(l, N, t) /\ Siblings(l, N, t) # {}}
  IN [Merged(r, [l \in again |-> FirstOf(Siblings(l, N, t)).id]) EXCEPT
        !.maps = [l \in Rows |-> IF l \in N THEN IdOf(l, N, t.next) ELSE @[l]],
        !.failed = @ \/ Sent # N \union again,
        !.taken = @ \/ \E l \in Sent : RowAt(l).mark]

Creating == run.pc = "create" /\ run.todo # {}

Create(named) ==
  /\ Creating
  /\ \E N \in Creations(Sent, target) :
       target' = After(target, N, TRUE) /\ run' = Answer(Prepared, N, target, named)
  /\ UNCHANGED <<archive, upsets>>

(* The target refuses a row, or its blob cannot be uploaded.               *)
CreateRefused(l) ==
  /\ Creating /\ Upset /\ l \in Sent
  /\ \E N \in Creations(Sent \ {l}, target) :
       /\ target' = After(target, N, TRUE)
       /\ \E r \in {Answer(Prepared, N, target, TRUE)} :
            run' = [r EXCEPT !.failed = TRUE]
  /\ UNCHANGED archive

(* The answer is lost and execute() sends the request again.               *)
CreateTwice(named) ==
  /\ Creating /\ Upset /\ Sent # {}
  /\ \E N \in Creations(Sent, target) :
       LET t == After(target, N, FALSE)
       IN \E M \in Creations(Sent, t) :
            /\ target' = After(t, M, TRUE)
            /\ run' = [Answer(Prepared, M, t, named) EXCEPT !.moved = @ \/ M # {}]
  /\ UNCHANGED archive

CreateUndefaulted ==
  /\ Creating /\ Upset
  /\ Type = "AddressBook" /\ \E l \in Sent : Marked(l, {})
  /\ \E N \in Creations(Sent, target) :
       /\ target' = After(target, N, FALSE)
       /\ run' = [Answer(Prepared, N, target, TRUE) EXCEPT !.moved = TRUE]
  /\ UNCHANGED archive

(* An error, after the rows up to n went through.  It ends the type, but   *)
(* for cards, where it is one more failure.                                *)
CreateFails(n) ==
  /\ Creating /\ Upset /\ Sent # {}
  /\ \E N \in Creations({l \in Sent : l <= n}, target) : target' = After(target, N, FALSE)
  /\ run' = IF Type = "ContactCard" THEN [Prepared EXCEPT !.failed = TRUE] ELSE Aborted(Prepared)
  /\ UNCHANGED archive

-----------------------------------------------------------------------------
(* The plan of the type, by candidates(); for scripts, the one that is to  *)
(* be active, which is activated now.                                      *)
AboveObject(id, S) ==
  LET Parents(I) == {t.parent : t \in {u \in S : u.id \in I}} \intersect Ids(S)
      up[k \in 0..Cardinality(S)] == IF k = 0 THEN {} ELSE Parents({id} \union up[k - 1])
  IN {id} \union up[Cardinality(S)]

(* Seeded bug: roles are not protected. *)
ProtectedDefault(S) == UNION {AboveObject(t.id, S) : t \in {u \in S : u.mark /\ Type = "AddressBook"}}
Protected(S) == UNION {AboveObject(t.id, S) : t \in {u \in S : u.mark /\ Type # "SieveScript"}}

(* Seeded bug: in the order of the listing, parents first. *)
DepthsEqual(C, S) == [id \in Ids(C) |-> 0]
Depths(C, S) == [id \in Ids(C) |-> Cardinality(AboveObject(id, S))]

Candidates ==
  LET S == run.listed
  IN Depths({t \in S : ~t.locked /\ t.id \notin run.kept \union Protected(S)}, S)

ActiveRows == {l \in RowsOf(Type) : RowAt(l).mark}
ActiveTarget == IF ActiveRows = {} THEN Top ELSE run.maps[Min(ActiveRows)]

(* The scripts of objs once `active' is the active one.                    *)
Activated(objs, active) ==
  {IF t.type = "SieveScript" THEN [t EXCEPT !.mark = t.id = active] ELSE t : t \in objs}

PlanType(activates) ==
  /\ run.pc = "create" /\ run.todo = {}
  /\ IF activates THEN UNCHANGED upsets ELSE Type = "SieveScript" /\ Upset
  /\ IF Type # "SieveScript"
       THEN run' = TypeDone(run, [depth |-> Candidates, active |-> Top]) /\ UNCHANGED target
       ELSE /\ run' = TypeDone([run EXCEPT !.moved = @ \/ ~activates],
                               [depth |-> Candidates, active |-> ActiveTarget])
            /\ target' =
                 IF activates /\ (ActiveTarget \in Ids(target.objs) \/ ActiveRows = {})
                   THEN [target EXCEPT !.objs = Activated(@, ActiveTarget)] ELSE target
  /\ UNCHANGED archive

-----------------------------------------------------------------------------
(* prune_phase: the types from the last to the first, do_destroy each.     *)
Plan == run.plans[run.at]
Planned == DOMAIN Plan.depth
Pruned(r) == IF r.at = 1 THEN Over(r.maps, r.failed, r.moved) ELSE [r EXCEPT !.at = @ - 1]

(* Without a script to be active, the active one is deactivated first.     *)
Deactivates == Type = "SieveScript" /\ Plan.active = Top /\ Planned # {}

(* The deepest ids come first; the first n of them are destroyed, one      *)
(* after the other, but those that stay, and the ones of S.                *)
Sooner(id) ==
  {i \in Planned : Plan.depth[i] > Plan.depth[id] \/ (Plan.depth[i] = Plan.depth[id] /\ i < id)}
FirstIds(n) == {id \in Planned : Cardinality(Sooner(id)) < n}
Destroyed(objs, n, S) ==
  {D \in SUBSET (FirstIds(n) \ S) : \A id \in FirstIds(n) \ S :
     id \in D <=> ~Stays(Without(objs, D \intersect Sooner(id)), id)}

Destroy(deactivated) ==
  /\ run.pc = "prune"
  /\ IF deactivated THEN UNCHANGED upsets ELSE Deactivates /\ Upset
  /\ LET objs == IF Deactivates /\ deactivated THEN Activated(target.objs, Top) ELSE target.objs
     IN \E D \in Destroyed(objs, Cardinality(Planned), {}) :
          target' = [target EXCEPT !.objs = Without(objs, D)]
  /\ run' = Pruned([run EXCEPT !.moved = @ \/ ~deactivated])
  /\ UNCHANGED archive

DestroyFails(n) ==
  /\ run.pc = "prune" /\ Planned # {} /\ n <= Cardinality(Planned) /\ Upset
  /\ LET objs == IF Deactivates THEN Activated(target.objs, Top) ELSE target.objs
     IN \E D \in Destroyed(objs, n, {}) : target' = [target EXCEPT !.objs = Without(objs, D)]
  /\ run' = Pruned([run EXCEPT !.failed = TRUE])
  /\ UNCHANGED archive

(* The server refuses to destroy one for a reason of its own, which counts *)
(* as skipped.                                                             *)
DestroyRefused(id) ==
  /\ run.pc = "prune" /\ id \in Planned /\ Upset
  /\ LET objs == IF Deactivates THEN Activated(target.objs, Top) ELSE target.objs
     IN \E D \in Destroyed(objs, Cardinality(Planned), {id}) :
          target' = [target EXCEPT !.objs = Without(objs, D)]
  /\ run' = Pruned([run EXCEPT !.moved = TRUE])
  /\ UNCHANGED archive

(* The process is killed, or an error that ends the run.                   *)
Crash ==
  /\ run.pc # "over" /\ Upset
  /\ run' = Over(Unmapped, TRUE, TRUE)
  /\ UNCHANGED <<archive, target>>

-----------------------------------------------------------------------------
NewRows ==
  [type : {archive.work[i] : i \in DOMAIN archive.work}, parent : {Top} \union Ids(target.objs),
   name : Names, mark : {FALSE}]
Fitting(row) ==
  IF row.type = "ContactCard"
    THEN \E t \in target.objs : t.id = row.parent /\ t.type = "AddressBook"
    ELSE \/ row.parent = Top
         \/ row.type \in Trees /\ \E t \in target.objs : t.id = row.parent /\ t.type = row.type

Step ==
  \/ \E prune \in BOOLEAN : Begin(prune)
  \/ Match \/ PlanType(TRUE) \/ Destroy(TRUE)
  \/ \E named \in BOOLEAN : Create(named)

Upsetting ==
  \/ \E row \in NewRows : Fitting(row) /\ OtherCreates(row)
  \/ \E t \in target.objs : OtherDestroys(t)
  \/ MatchFails \/ CreateUndefaulted \/ PlanType(FALSE) \/ Destroy(FALSE) \/ Crash
  \/ \E l \in Rows : CreateRefused(l)
  \/ \E named \in BOOLEAN : CreateTwice(named)
  \/ \E n \in 0..Len(archive.rows) : CreateFails(n)
  \/ \E n \in 0..Cardinality(target.objs) : DestroyFails(n)
  \/ run.pc = "prune" /\ \E id \in Planned : DestroyRefused(id)

Next == Step \/ Upsetting
Spec == Init /\ [][Next]_vars
(* The command is run again and again, with --prune or without.  As some   *)
(* step of Step can always be taken, this is WF_vars(Step).                *)
FairSpec == Spec /\ []<><<Step>>_vars

-----------------------------------------------------------------------------
TypeOK ==
  /\ archive \in Archives /\ upsets \in 0..MaxUpsets
  /\ target.objs \subseteq Object /\ target.next \in Nat
  /\ \A t, u \in target.objs : t.id = u.id => t = u
  /\ \A t \in target.objs : t.id < target.next /\ Exists(target.objs, t.parent)
  /\ run.pc \in {"over", "match", "create", "prune"} /\ run.at \in DOMAIN archive.work
  /\ run.maps \in [Rows -> 0..(target.next - 1)]
  /\ run.kept \subseteq 1..(target.next - 1)
  /\ run.listed \subseteq Object

(* README.md:300: what --prune deletes is what "do not match anything in   *)
(* the archive": nothing a row was matched with, created as or merged      *)
(* into, in whichever order that happened; not what holds any of it; no    *)
(* card or script the archive has; no role, no default.                    *)
PruneSparesArchive ==
  [][run.pc = "prune" /\ <<run.pc, run.at>>' # <<run.pc, run.at>> =>
       \A t \in target.objs : t.id \notin Ids(target.objs)' =>
         /\ t.id \notin Image(run.maps)
         /\ t.type \in {"ContactCard", "SieveScript"} => \A l \in RowsOf(t.type) : RowAt(l).name # t.name
         /\ t.mark => t.type = "SieveScript"]_vars

(* Every row has a place on the target: under the object of its parent,    *)
(* with its name but for what fold_name ignores.  Rows that differ in no   *)
(* more than that share one.                                               *)
Copied(maps, objs) ==
  \A l \in Rows : \E t \in objs :
    /\ t.id = maps[l] /\ t.type = RowAt(l).type
    /\ \/ t.type = "Mailbox" /\ t.mark /\ RowAt(l).mark
       \/ t.name = RowAt(l).name
       \/ Fold[t.name] = Fold[RowAt(l).name] /\ t.type \notin {"ContactCard", "SieveScript"}
    /\ t.type \in Trees /\ ~t.mark => t.parent = Place(l, maps)
    /\ t.type = "SieveScript" => t.mark = RowAt(l).mark

(* What pruning leaves although no row is there: a role or a default, what *)
(* may not be deleted, and what has something in it.                       *)
Leftover(t, objs) == t.mark \/ t.locked \/ \E u \in objs : u.parent = t.id

(* A run that counts no failure, with nobody else at the target and no     *)
(* refusal that counts as skipped, ends with a copy of the archive, and    *)
(* with nothing else if it prunes: whatever earlier runs left there.       *)
CleanRunCopies ==
  [][run.pc # "over" /\ run'.pc = "over" /\ ~run'.failed /\ ~run'.moved =>
       /\ Copied(run'.maps, target'.objs)
       /\ run.pc = "prune" =>
            \A t \in target'.objs : t.id \in Image(run'.maps) \/ Leftover(t, target'.objs)]_vars

(* README.md:65, re-running picks up where it left off: once nothing comes *)
(* in between any more, the runs stop failing, and stop creating what is   *)
(* there and destroying what they created.                                 *)
Settles == <>[][target' = target /\ (run'.pc = "over" => ~run'.failed)]_vars
=============================================================================
