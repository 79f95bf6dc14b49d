----------------------------- MODULE JmapImport -----------------------------
(***************************************************************************)
(* The importer's reconciliation of one object type with a JMAP server     *)
(* (reconcile_type in src/src/sync/import_jmap.rs), run after run.         *)
(*                                                                         *)
(* A run enumerates the ids the server has, splits them into new, vanished *)
(* and present ones, fetches and inserts the new ones, deletes the         *)
(* vanished ones, refreshes the present ones (those /changes reports as    *)
(* updated when the archive holds a cursor, all of them otherwise) and,    *)
(* when every refresh succeeded, moves the cursor.  The server goes on     *)
(* changing between any two of these requests, any request or row can      *)
(* fail, and a run can be abandoned at any point (an error that ends the   *)
(* type, or a crash): what was committed stays, the rest is forgotten.     *)
(*                                                                         *)
(* A version of an object is the server state that produced it, so that    *)
(* "version v is covered by cursor c" is simply v <= c.                    *)
(***************************************************************************)
EXTENDS Integers

CONSTANTS
  Ids,              (* the JMAP ids objects of this type can have          *)
  MaxState,         (* bound on the changes the server makes               *)
  MaxFaults         (* bound on failed requests, failed rows and crashes   *)

ASSUME BoundsAssumption == MaxState \in Nat /\ MaxFaults \in Nat

VARIABLES
  kind,       (* server: the kind of the type reconciled, never changed    *)
  state,      (* server: the number of changes made so far                 *)
  born,       (* server: [id -> the state that created it, 0 before that]  *)
  ver,        (* server: [id -> the state that last changed it, or 0]      *)
  gone,       (* server: the destroyed objects; ids are not reused         *)
  arc,        (* archive: [id -> the version it holds, 0 when none]        *)
  cursor,     (* archive: the stored sync state, NoState when there is none*)
  pc,         (* run: the phase of reconcile_type                          *)
  present,    (* run: d.present                                            *)
  fresh,      (* run: d.new                                                *)
  vanished,   (* run: d.vanished                                           *)
  todo,       (* run: ids whose /get chunk has not been answered           *)
  got,        (* run: [id -> fetched version not committed yet, or 0]      *)
  target,     (* run: run_state, then the state the cursor may move to     *)
  failed,     (* run: failures counted by fetch_and_update                 *)
  faults,     (* how many faults happened                                  *)
  exposed     (* history: objects changed while beyond the cursor's reach  *)

serverVars == <<kind, state, born, ver, gone>>
runVars == <<pc, present, fresh, vanished, todo, got, target, failed>>
vars == <<kind, state, born, ver, gone, arc, cursor, pc, present, fresh, vanished,
          todo, got, target, failed, faults, exposed>>

(* Most types have /query and /changes; Identity, AddressBook and the like *)
(* are listed in full by one /get; SieveScript has no /changes.            *)
Kinds == {"query", "list", "sieve"}
Queryless == kind = "list"
SupportsChanges == kind # "sieve"

NoState == -1
Nothing == [id \in Ids |-> 0]
Phases == {"idle", "enumerated", "new", "changes", "update"}

Alive == {id \in Ids : born[id] # 0 /\ id \notin gone}
Archived == {id \in Ids : arc[id] # 0}
Fetched == {id \in Ids : got[id] # 0}

Init ==
  /\ kind \in Kinds
  /\ state = 0 /\ born = Nothing /\ ver = Nothing /\ gone = {}
  /\ arc = Nothing /\ cursor = NoState
  /\ pc = "idle" /\ present = {} /\ fresh = {} /\ vanished = {}
  /\ todo = {} /\ got = Nothing /\ target = NoState /\ failed = 0
  /\ faults = 0 /\ exposed = {}

-----------------------------------------------------------------------------
(* The server. *)

Create(id) ==
  /\ state < MaxState
  /\ born[id] = 0
  /\ state' = state + 1
  /\ born' = [born EXCEPT ![id] = state + 1]
  /\ ver' = [ver EXCEPT ![id] = state + 1]
  /\ UNCHANGED <<kind, gone, arc, cursor, runVars, faults, exposed>>

(* The object is archived, or read and about to be, but the cursor does    *)
(* not reach back to its creation or the run did not find it present: the  *)
(* next /changes answer will not list it among the updates that count.     *)
Unreached(id) ==
  /\ id \in Archived \union Fetched
  /\ cursor # NoState
  /\ id \in fresh \/ born[id] > cursor

Change(id) ==
  /\ state < MaxState
  /\ id \in Alive
  /\ state' = state + 1
  /\ ver' = [ver EXCEPT ![id] = state + 1]
  /\ exposed' = IF Unreached(id) THEN exposed \union {id} ELSE exposed
  /\ UNCHANGED <<kind, born, gone, arc, cursor, runVars, faults>>

Destroy(id) ==
  /\ state < MaxState
  /\ id \in Alive
  /\ state' = state + 1
  /\ gone' = gone \union {id}
  /\ UNCHANGED <<kind, born, ver, arc, cursor, runVars, faults, exposed>>

Server == \E id \in Ids : Create(id) \/ Change(id) \/ Destroy(id)

-----------------------------------------------------------------------------
(* One run of the importer. *)

(* Seeded bug: nothing is ever taken for vanished. *)
MissingNone == {}
(* Seeded bug: what is still there is taken for vanished. *)
MissingPresent == Archived \intersect Alive
Missing == Archived \ Alive

(* The list of ids and, for a type without /query, the objects and the     *)
(* state with them.                                                        *)
Enumerate ==
  /\ pc = "idle"
  /\ pc' = "enumerated"
  /\ present' = Alive \intersect Archived
  /\ fresh' = Alive \ Archived
  /\ vanished' = Missing
  /\ got' = [id \in Ids |-> IF Queryless /\ id \in Alive \ Archived
                              THEN ver[id] ELSE 0]
  /\ target' \in IF Queryless /\ SupportsChanges THEN {state, NoState}
                                                 ELSE {NoState}
  /\ UNCHANGED <<serverVars, arc, cursor, todo, failed, faults, exposed>>

(* run_state: asked for before anything is fetched, only when the archive  *)
(* has no cursor and the enumeration did not bring one.                    *)
ReadState ==
  /\ pc = "enumerated"
  /\ pc' = "new"
  /\ target' \in IF SupportsChanges /\ ~Queryless /\ cursor = NoState
                   THEN {state, NoState} ELSE {target}
  /\ todo' = IF Queryless THEN {} ELSE fresh
  /\ UNCHANGED <<serverVars, arc, cursor, present, fresh, vanished, got,
                 failed, faults, exposed>>

(* The answer to one /get chunk: the objects still there, as they are now. *)
Answered(c) ==
  [id \in Ids |-> IF id \in c \intersect Alive THEN ver[id] ELSE got[id]]

FetchNew(c) ==
  /\ pc = "new"
  /\ todo' = todo \ c
  /\ got' = Answered(c)
  /\ UNCHANGED <<serverVars, arc, cursor, pc, present, fresh, vanished,
                 target, failed, faults, exposed>>

FetchNewFails(c) ==
  /\ pc = "new"
  /\ faults < MaxFaults
  /\ todo' = todo \ c
  /\ faults' = faults + 1
  /\ UNCHANGED <<serverVars, arc, cursor, pc, present, fresh, vanished, got,
                 target, failed, exposed>>

(* One transaction over the batch b, whose rows in bad are skipped.        *)
Committed(b, bad) ==
  /\ b \subseteq Fetched
  /\ bad \subseteq b
  /\ bad # {} => faults < MaxFaults
  /\ arc' = [id \in Ids |-> IF id \in b \ bad THEN got[id] ELSE arc[id]]
  /\ got' = [id \in Ids |-> IF id \in b THEN 0 ELSE got[id]]
  /\ faults' = IF bad = {} THEN faults ELSE faults + 1

InsertBatch(b, bad) ==
  /\ pc = "new"
  /\ todo = {}
  /\ Committed(b, bad)
  /\ UNCHANGED <<serverVars, cursor, pc, present, fresh, vanished, todo,
                 target, failed, exposed>>

DeleteVanished ==
  /\ pc = "new"
  /\ todo = {} /\ Fetched = {}
  /\ pc' = "changes"
  /\ arc' = [id \in Ids |-> IF id \in vanished THEN 0 ELSE arc[id]]
  /\ UNCHANGED <<serverVars, cursor, present, fresh, vanished, todo, got,
                 target, failed, faults, exposed>>

(* What is left to refresh and where the cursor may go after that.         *)
Refresh(S, states) ==
  /\ pc = "changes"
  /\ pc' = "update"
  /\ todo' = S
  /\ target' \in states
  /\ failed' = 0
  /\ fresh' = {} /\ vanished' = {}
  /\ UNCHANGED <<serverVars, arc, cursor, present, got, faults, exposed>>

(* The objects /changes lists as updated since the state c: those created  *)
(* after c are listed as created only.                                     *)
UpdatedSince(c) == {id \in Alive : born[id] <= c /\ c < ver[id]}

ChangesAnswered ==
  /\ SupportsChanges /\ cursor # NoState
  /\ Refresh(UpdatedSince(cursor) \intersect present, {state})

(* cannotCalculateChanges or unknownMethod: capture the state, refresh all.*)
ChangesRefused ==
  /\ SupportsChanges /\ cursor # NoState
  /\ Refresh(present, {state, NoState})

(* Seeded bug: without a cursor nothing is refreshed. *)
RefreshNone ==
  /\ ~SupportsChanges \/ cursor = NoState
  /\ Refresh({}, {target})

RefreshAll ==
  /\ ~SupportsChanges \/ cursor = NoState
  /\ Refresh(present, {target})

FetchUpdate(c) ==
  /\ pc = "update"
  /\ todo' = todo \ c
  /\ got' = Answered(c)
  /\ UNCHANGED <<serverVars, arc, cursor, pc, present, fresh, vanished,
                 target, failed, faults, exposed>>

FetchUpdateFails(c) ==
  /\ pc = "update"
  /\ faults < MaxFaults
  /\ todo' = todo \ c
  /\ failed' = failed + 1
  /\ faults' = faults + 1
  /\ UNCHANGED <<serverVars, arc, cursor, pc, present, fresh, vanished, got,
                 target, exposed>>

(* Seeded bug: a batch without a bad row counts as failed. *)
FailuresOverall(bad) == failed + 1
Failures(bad) == IF bad = {} THEN failed ELSE failed + 1

UpdateBatch(b, bad) ==
  /\ pc = "update"
  /\ todo = {}
  /\ Committed(b, bad)
  /\ failed' = Failures(bad)
  /\ exposed' = exposed \ {id \in b \ bad : got[id] = ver[id]}
  /\ UNCHANGED <<serverVars, cursor, pc, present, fresh, vanished, todo,
                 target>>

(* Local variables of the run go out of scope. *)
Forgotten ==
  /\ pc' = "idle" /\ present' = {} /\ fresh' = {} /\ vanished' = {}
  /\ todo' = {} /\ got' = Nothing /\ target' = NoState /\ failed' = 0

(* Seeded bug: the cursor moves although refreshes failed. *)
AdvancedAnyway == IF target # NoState THEN target ELSE cursor
Advanced == IF failed = 0 /\ target # NoState THEN target ELSE cursor

AdvanceState ==
  /\ pc = "update"
  /\ todo = {} /\ Fetched = {}
  /\ cursor' = Advanced
  /\ Forgotten
  /\ UNCHANGED <<serverVars, arc, faults, exposed>>

(* An error ends the type, or the process dies: an open transaction rolls  *)
(* back, committed ones stay.                                              *)
Abandon ==
  /\ pc # "idle"
  /\ faults < MaxFaults
  /\ faults' = faults + 1
  /\ Forgotten
  /\ UNCHANGED <<serverVars, arc, cursor, exposed>>

NonEmpty(S) == (SUBSET S) \ {{}}

Step ==
  \/ Enumerate \/ ReadState
  \/ \E c \in NonEmpty(todo) : FetchNew(c) \/ FetchUpdate(c)
  \/ \E b \in NonEmpty(Fetched) : InsertBatch(b, {}) \/ UpdateBatch(b, {})
  \/ DeleteVanished
  \/ ChangesAnswered \/ ChangesRefused \/ RefreshAll
  \/ AdvanceState

Fault ==
  \/ \E c \in NonEmpty(todo) : FetchNewFails(c) \/ FetchUpdateFails(c)
  \/ \E b \in NonEmpty(Fetched) : \E bad \in NonEmpty(b) :
       InsertBatch(b, bad) \/ UpdateBatch(b, bad)
  \/ Abandon

Next == Server \/ Step \/ Fault

Spec == Init /\ [][Next]_vars

(* The command is run again and again, and a run that meets no fault goes  *)
(* on to its end.                                                          *)
FairSpec == Spec /\ WF_vars(Step)

-----------------------------------------------------------------------------
(* Types of the variables of reconcile_type, of the id map and of the      *)
(* sync_state table.                                                       *)
TypeOK ==
  /\ kind \in Kinds
  /\ state \in 0..MaxState
  /\ born \in [Ids -> 0..MaxState] /\ ver \in [Ids -> 0..MaxState]
  /\ gone \subseteq Ids
  /\ arc \in [Ids -> 0..MaxState] /\ cursor \in {NoState} \union 0..MaxState
  /\ pc \in Phases
  /\ present \subseteq Ids /\ fresh \subseteq Ids /\ vanished \subseteq Ids
  /\ todo \subseteq Ids /\ got \in [Ids -> 0..MaxState]
  /\ target \in {NoState} \union 0..MaxState /\ failed \in 0..faults
  /\ faults \in 0..MaxFaults /\ exposed \subseteq Ids

Stale(id) == id \in Archived \intersect Alive /\ arc[id] # ver[id]

(* A stored cursor never runs past a change the archive has not taken in:  *)
(* whatever is stale is among the updates the next /changes answer lists,  *)
(* whatever failed, was abandoned or changed during the run that stored it *)
(* (advance_state is called with the state captured before the fetch, and  *)
(* only after clean refreshes).  The exception is an object that changed   *)
(* while the archive held it and the cursor did not reach its creation.    *)
CursorCovers ==
  cursor # NoState =>
    \A id \in Ids \ exposed : Stale(id) => id \in UpdatedSince(cursor)

(* The README's convergence, for everything that was not exposed: once the *)
(* server is quiet and the faults are over, repeated runs make the archive *)
(* hold the current version of every object and nothing else.              *)
Mirrored(id) == arc[id] = IF id \in Alive THEN ver[id] ELSE 0

ReachedConverge == <>[](\A id \in Ids \ exposed : Mirrored(id))

(* The README's convergence as it is written, for every object.            *)
Converge == <>[](\A id \in Ids : Mirrored(id))

(* A type without a cursor refreshes every object on each run, so that     *)
(* nothing can hide behind one: it does converge for every object.         *)
CursorlessConverge == ~SupportsChanges => Converge

(* The importer implements the mirror that only moves forward: whatever    *)
(* fails or changes during a run, no transaction of insert_objects or      *)
(* update_objects replaces a row by an older version than the one it       *)
(* holds, and delete_vanished gives up no object the server still has.     *)
Mirror == INSTANCE ArchiveMirror
  WITH state <- state, born <- born, ver <- ver, gone <- gone, arc <- arc

ImplementsMirror == Mirror!Spec
=============================================================================
