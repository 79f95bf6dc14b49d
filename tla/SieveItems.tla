----------------------------- MODULE SieveItems -----------------------------
(***************************************************************************)
(* The scripts of a ManageSieve account                                    *)
(* (src/src/sync/import_managesieve/coordinator.rs and reconcile.rs).      *)
(*                                                                         *)
(* The importer lists the scripts, gets each of them, compares their       *)
(* content with the rows, writes and deletes rows one transaction each,    *)
(* and at the end makes the row of the active script the active one.       *)
(*                                                                         *)
(* Scripts have no folder: the home of one is Idle, or Active for the one  *)
(* script that is in use.                                                  *)
(***************************************************************************)
EXTENDS Reruns

IsSieve == part = "sieve"
Idle == 1
Active == 2
ASSUME SieveAssumption == Active \in Homes

OneActive(home) == \A i, j \in Items : home[i] = Active /\ home[j] = Active => i = j

SieveInit ==
  RerunsInit /\ part = "sieve" /\ OneActive(server.home) /\ \A i \in Items : server.home[i] \in {Idle, Active}

-----------------------------------------------------------------------------
(* The server: PUTSCRIPT, DELETESCRIPT (never of the active one) and       *)
(* SETACTIVE of another client.                                            *)

SieveArrive(i) == IsSieve /\ Changing /\ Arrive(i, Idle)
SieveLeave(i) == IsSieve /\ Changing /\ server.home[i] = Idle /\ Leave(i, {})
SieveAlter(i) == IsSieve /\ Changing /\ Alter(i, server.home[i], {}, {})
SetActive(i) ==
  /\ IsSieve /\ Changing /\ i \in server.on /\ server.home[i] = Idle
  /\ server' = [server EXCEPT !.changes = @ + 1,
                   !.home = [j \in Items |-> IF j = i THEN Active ELSE Idle]]
  /\ past' = [past EXCEPT !.moved = TRUE]

-----------------------------------------------------------------------------
(* The run. *)

Scripts(pc) ==
  [pc |-> pc, todo |-> {}, got |-> <<>>, gone |-> {}, active |-> {}, failed |-> FALSE]

SieveStart == IsSieve /\ Begin(Scripts("list"))

(* plan: what was not got is taken as gone from the server.                *)
PlanOf(got) == ItemsOf(archive) \ ItemsOf(ToSet(got))
Planned(r) ==
  IF r.todo # {} THEN r ELSE [r EXCEPT !.pc = "apply", !.gone = PlanOf(r.got)]

(* The server lists the scripts in any order.                              *)
ListScripts ==
  /\ IsSieve /\ run.pc = "list"
  /\ run' = Planned([run EXCEPT !.pc = "get",
                       !.todo = {[item |-> i, home |-> server.home[i]] : i \in server.on}])
  /\ UNCHANGED <<part, server, archive, past, faults>>

Skipped(e) == Planned([run EXCEPT !.todo = @ \ {e}, !.failed = TRUE])

(* getscript_with_retry                                                    *)
GetScript ==
  /\ IsSieve /\ run.pc = "get"
  /\ \E e \in run.todo :
     run' = IF e.item \in server.on
              THEN Planned([run EXCEPT !.todo = @ \ {e},
                     !.got = Append(@, [item |-> e.item, home |-> e.home,
                                        ver |-> server.ver[e.item]])])
              ELSE Skipped(e)
  /\ UNCHANGED <<part, server, archive, past, faults>>

(* A NO, retries exhausted: counted, and the run goes on without it.  A    *)
(* connection that cannot be had again ends the run (Crash).               *)
GetScriptFails ==
  /\ IsSieve /\ run.pc = "get"
  /\ Fault
  /\ \E e \in run.todo :
       /\ run' = Skipped(e)
       /\ past' = [past EXCEPT !.unseen = @ \union {e.item}]
  /\ UNCHANGED <<part, server, archive>>

(* apply_new, apply_content_update: the active flag is left to the end.    *)
WriteScript ==
  /\ IsSieve /\ run.pc = "apply" /\ run.got # <<>>
  /\ LET s == Head(run.got)
         known == {r \in archive : r.item = s.item}
         new == [item |-> s.item, home |-> Idle, ver |-> s.ver, tag |-> s.ver, whole |-> TRUE]
     IN /\ archive' = (archive \ known) \union
              (IF known = {} THEN {new} ELSE {[r EXCEPT !.ver = s.ver, !.tag = s.ver] : r \in known})
        /\ run' = [run EXCEPT !.got = Tail(@),
                              !.active = IF s.home = Active THEN {s.item} ELSE @]
  /\ UNCHANGED <<part, server, past, faults>>

(* An error of the archive: counted; a script that has a row can still be  *)
(* the active one.                                                         *)
WriteFails ==
  /\ IsSieve /\ run.pc = "apply" /\ run.got # <<>>
  /\ Fault
  /\ LET s == Head(run.got) IN
     run' = [run EXCEPT !.got = Tail(@), !.failed = TRUE,
               !.active = IF s.home = Active /\ s.item \in ItemsOf(archive) THEN {s.item} ELSE @]
  /\ UNCHANGED <<part, server, archive, past>>

DeleteScript(i) ==
  /\ IsSieve /\ run.pc = "apply" /\ run.got = <<>> /\ i \in run.gone
  /\ archive' = Without(archive, {i})
  /\ run' = [run EXCEPT !.gone = @ \ {i}]
  /\ UNCHANGED <<part, server, past, faults>>

DeleteScriptFails(i) ==
  /\ IsSieve /\ run.pc = "apply" /\ run.got = <<>> /\ i \in run.gone
  /\ Fault
  /\ run' = [run EXCEPT !.gone = @ \ {i}, !.failed = TRUE]
  /\ UNCHANGED <<part, server, archive, past>>

(* Seeded bug: the row that was active stays so. *)
AssignedTo(R, active) == {[r EXCEPT !.home = IF r.item \in active THEN Active ELSE @] : r \in R}
(* apply_active_assignment                                                 *)
Assigned(R, active) ==
  {[r EXCEPT !.home = IF r.item \in active THEN Active ELSE Idle] : r \in R}

Assign ==
  /\ IsSieve /\ run.pc = "apply" /\ run.got = <<>> /\ run.gone = {}
  /\ archive' = Assigned(archive, run.active)
  /\ run' = Over(run.failed)
  /\ UNCHANGED <<part, server, past, faults>>

SieveCrash == IsSieve /\ Crash

Unlisted == IF IsSieve /\ Running THEN run.gone ELSE {}

(* Some step of SieveRun can always be taken.                              *)
SieveRun ==
  \/ SieveStart \/ ListScripts \/ GetScript \/ WriteScript \/ Assign
  \/ \E i \in Unlisted : DeleteScript(i)

(* one active row: UNIQUE (is_active) WHERE is_active = 1                  *)
SieveTypeOK ==
  IsSieve =>
    /\ OneActive(server.home)
    /\ \A r, q \in archive : r.home = Active /\ q.home = Active => r = q
    /\ Running =>
         /\ run \in [pc : {"list", "get", "apply"}, todo : SUBSET [item : Items, home : Homes],
                     got : Seq([item : Items, home : Homes, ver : Versions]),
                     gone : SUBSET Items, active : SUBSET Items, failed : BOOLEAN]
         /\ run.pc = "get" => run.todo # {}
         /\ Cardinality(run.active) <= 1

SieveNext ==
  \/ \E i \in Items : SieveArrive(i) \/ SieveLeave(i) \/ SieveAlter(i) \/ SetActive(i)
  \/ SieveRun
  \/ GetScriptFails \/ WriteFails \/ SieveCrash
  \/ \E i \in Unlisted : DeleteScriptFails(i)

SieveSpec == SieveInit /\ [][SieveNext]_vars
=============================================================================
