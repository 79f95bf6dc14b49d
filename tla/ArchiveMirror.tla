---------------------------- MODULE ArchiveMirror ----------------------------
(***************************************************************************)
(* What the archive promises about one object type of the server: it is a  *)
(* mirror that only ever moves forward.  The server creates, changes and   *)
(* destroys objects; the archive absorbs, for any set of objects at once   *)
(* (one database transaction), a version that is not older than the one it *)
(* holds, and forgets objects only once the server destroyed them.         *)
(*                                                                         *)
(* The importer of JmapImport implements this specification.               *)
(***************************************************************************)
EXTENDS Integers

CONSTANTS
  Ids,        (* the JMAP ids objects of this type can have               *)
  MaxState    (* bound on the changes the server makes                    *)

VARIABLES
  state,      (* the server's state: the number of changes made so far     *)
  born,       (* [id -> the state that created the object, 0 before that]  *)
  ver,        (* [id -> the state that last changed the object, or 0]      *)
  gone,       (* the objects the server destroyed; ids are not reused      *)
  arc         (* [id -> the version the archive holds, 0 when it has none] *)

mirrorVars == <<state, born, ver, gone, arc>>

Alive == {id \in Ids : born[id] # 0 /\ id \notin gone}

Init ==
  /\ state = 0
  /\ born = [id \in Ids |-> 0]
  /\ ver = [id \in Ids |-> 0]
  /\ gone = {}
  /\ arc = [id \in Ids |-> 0]

Create(id) ==
  /\ state < MaxState
  /\ born[id] = 0
  /\ state' = state + 1
  /\ born' = [born EXCEPT ![id] = state + 1]
  /\ ver' = [ver EXCEPT ![id] = state + 1]
  /\ UNCHANGED <<gone, arc>>

Change(id) ==
  /\ state < MaxState
  /\ id \in Alive
  /\ state' = state + 1
  /\ ver' = [ver EXCEPT ![id] = state + 1]
  /\ UNCHANGED <<born, gone, arc>>

Destroy(id) ==
  /\ state < MaxState
  /\ id \in Alive
  /\ state' = state + 1
  /\ gone' = gone \union {id}
  /\ UNCHANGED <<born, ver, arc>>

(* One transaction of the importer: the objects of S move to a version the *)
(* server gave out, never to an older one.                                 *)
Absorb(S) ==
  /\ \A id \in Ids :
       IF id \in S THEN /\ arc[id] <= arc'[id]
                        /\ born[id] <= arc'[id]
                        /\ arc'[id] <= ver[id]
                   ELSE arc'[id] = arc[id]
  /\ UNCHANGED <<state, born, ver, gone>>

Forget(S) ==
  /\ S \subseteq gone
  /\ arc' = [id \in Ids |-> IF id \in S THEN 0 ELSE arc[id]]
  /\ UNCHANGED <<state, born, ver, gone>>

Next ==
  \/ \E id \in Ids : Create(id) \/ Change(id) \/ Destroy(id)
  \/ \E S \in SUBSET Ids : Absorb(S) \/ Forget(S)

Spec == Init /\ [][Next]_mirrorVars
=============================================================================
