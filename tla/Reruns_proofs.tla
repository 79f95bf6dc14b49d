---------------------------- MODULE Reruns_proofs ----------------------------
(***************************************************************************)
(* What holds of the importers on their own, for any servers, bounds and   *)
(* faults: what an archive with several sources keeps (ArchiveSources);    *)
(* that a run over items removes none that is still on the server          *)
(* (ExchangeItems, DavItems, FileItems, SieveItems); and that a clean run  *)
(* leaves a copy, for the importers listed in README.md.  What is about    *)
(* trees is in Trees_proofs.                                               *)
(***************************************************************************)
EXTENDS MCReruns,
        FiniteSetTheorems, SequenceTheorems, WellFoundedInduction, TLAPS

-----------------------------------------------------------------------------
(* An archive of several accounts.  The types; a history that is a record. *)

Whats == {"source", "container", "item", "blob"}
Phases == {"connect", "replace", "record", "containers", "items", "store", "collect"}
SourceRows ==
  [item : ((Whats \ {"blob"}) \X Accounts) \union ({"blob"} \X ToSet(Contents)), ver : 1..2]

ServerTyped ==
  /\ server = [kind |-> server.kind, focus |-> server.focus, on |-> server.on,
               ver |-> server.ver, changes |-> server.changes]
  /\ server.ver \in [Accounts -> 1..2]
  /\ \A k \in Accounts : <<"item", k>> \in server.on => <<"container", k>> \in server.on

PastTyped ==
  past = [missed |-> past.missed, moved |-> past.moved, unseen |-> past.unseen,
          frozen |-> past.frozen, key |-> past.key, wrote |-> past.wrote, allowed |-> past.allowed]

RunTyped ==
  Running =>
    /\ run = [pc |-> run.pc, key |-> run.key, mode |-> run.mode, dry |-> run.dry,
              selected |-> run.selected, read |-> run.read, failed |-> run.failed]
    /\ run.pc \in Phases /\ run.key \in {"k1", "k2"} /\ run.read \in 1..2
    /\ run.mode \in {"reject", "allow", "replace"}

SourcesTyped == IsSources /\ ServerTyped /\ PastTyped /\ RunTyped /\ archive \subseteq SourceRows

(* A source is recorded before anything of it is.                          *)
SourceFirst == run.pc \in {"containers", "items", "store"} => SourceRow(run.key) \in archive

(* What may be recorded is alone of its kind, or its kind is shared.       *)
Permitted ==
  /\ Running /\ run.mode = "allow" => KindOf(run.key) \in past.allowed
  /\ run.pc = "record" => Conflicting(run.key) = {} \/ KindOf(run.key) \in past.allowed

(* The blob of a row that is about to be written is there.                 *)
BlobStored ==
  run.pc = "store" =>
    /\ This.alone
    /\ HasBlob(run.key) => BlobRow(Contents[run.read]) \in archive

(* Items are in containers, and a run may take what its server lacks.      *)
Housed ==
  \A r \in archive : What(r) = "item" /\ ~Of(Owner(r)).alone => Containers(Owner(r)) # {}
Expended ==
  Running /\ ~run.dry => Expendable(run.key, run.mode) \subseteq past.missed
Earnest == Running /\ run.pc # "connect" => ~run.dry
Replacing == run.pc = "replace" => run.mode = "replace"

SourcesInv ==
  /\ SourcesTyped /\ SourceFirst /\ Permitted /\ BlobStored
  /\ RowsOwned /\ OneAccount /\ BlobsThere
  /\ Housed /\ Expended /\ Earnest /\ Replacing

(* What a step deletes.                                                    *)
KeptOfSources == ItemsOf(archive) \ ItemsOf(archive') \subseteq past.missed \union past.unseen

(* A function with another value is one of its kind.                       *)
LEMMA Override ==
  ASSUME NEW S, NEW T, NEW f \in [S -> T], NEW x, NEW v \in T
  PROVE  [f EXCEPT ![x] = v] \in [S -> T]
  OBVIOUS

(* The step of a run that goes on, and what it leaves alone.               *)
LEMMA RunGoesOn ==
  ASSUME RunTyped, Running, NEW pc \in Phases, NEW v \in 1..2,
         \E b : run' = [run EXCEPT !.pc = pc, !.read = v, !.failed = b]
  PROVE  /\ RunTyped' /\ Running' /\ run'.pc = pc
         /\ run'.key = run.key /\ run'.mode = run.mode /\ run'.dry = run.dry /\ run'.read = v
<1>1. /\ run = [pc |-> run.pc, key |-> run.key, mode |-> run.mode, dry |-> run.dry,
                selected |-> run.selected, read |-> run.read, failed |-> run.failed]
      /\ run.key \in {"k1", "k2"} /\ run.mode \in {"reject", "allow", "replace"}
  BY DEF RunTyped
<1>2. \E b : run' = [pc |-> pc, key |-> run.key, mode |-> run.mode, dry |-> run.dry,
                    selected |-> run.selected, read |-> v, failed |-> b]
  BY <1>1
<1>3. pc # "over"
  BY DEF Phases
<1> QED
  BY <1>1, <1>2, <1>3 DEF RunTyped, Running

(* A run that goes on is a run, with the same command.                     *)
LEMMA RunContinues ==
  ASSUME RunTyped, Running, NEW pc \in Phases,
         run' = Continued(pc) \/ \E b \in BOOLEAN : run' = Noted(pc, b)
  PROVE  /\ RunTyped' /\ Running' /\ run'.pc = pc
         /\ run'.key = run.key /\ run'.mode = run.mode /\ run'.dry = run.dry /\ run'.read = run.read
<1>1. run = [pc |-> run.pc, key |-> run.key, mode |-> run.mode, dry |-> run.dry,
             selected |-> run.selected, read |-> run.read, failed |-> run.failed] /\ run.read \in 1..2
  BY DEF RunTyped
<1>2. \E b : run' = [run EXCEPT !.pc = pc, !.read = run.read, !.failed = b]
  BY <1>1 DEF Continued, Noted
<1> QED
  BY <1>1, <1>2, RunGoesOn

(* A run that is over does nothing more.                                   *)
LEMMA RunEnds ==
  ASSUME NEW b, run' = Over(b)
  PROVE  ~Running' /\ run'.pc = "over"
  BY DEF Over, Running

(* The parts of a row, and the types of those that are written.            *)
LEMMA RowParts ==
  /\ \A k : What(SourceRow(k)) = "source" /\ Owner(SourceRow(k)) = k
  /\ \A w, k, v : What(Row(w, k, v)) = w /\ Owner(Row(w, k, v)) = k /\ Row(w, k, v).ver = v
                 /\ Row(w, k, v).item = <<w, k>>
  /\ \A c : What(BlobRow(c)) = "blob"
  /\ \A r \in SourceRows :
       /\ r.item = <<What(r), Owner(r)>> /\ What(r) \in Whats /\ r.ver \in 1..2
       /\ What(r) = "blob" => r.item \in {"blob"} \X ToSet(Contents)
<1>1. ASSUME NEW r \in SourceRows
      PROVE  /\ r.item = <<What(r), Owner(r)>> /\ What(r) \in Whats /\ r.ver \in 1..2
             /\ What(r) = "blob" => r.item \in {"blob"} \X ToSet(Contents)
  <2>1. r.item \in ((Whats \ {"blob"}) \X Accounts) \union ({"blob"} \X ToSet(Contents)) /\ r.ver \in 1..2
    BY DEF SourceRows
  <2> QED
    BY <2>1 DEF What, Owner, Whats
<1> QED
  BY <1>1 DEF SourceRow, Row, What, Owner, BlobRow

(* The types of the rows the sources write.                                *)
LEMMA RowTypes ==
  /\ \A k \in Accounts : SourceRow(k) \in SourceRows
  /\ \A w \in {"container", "item"}, k \in Accounts, v \in 1..2 : Row(w, k, v) \in SourceRows
  /\ \A v \in 1..2 : BlobRow(Contents[v]) \in SourceRows
  BY DEF SourceRow, Row, SourceRows, BlobRow, Contents, Whats, ToSet

(* A step of the sources that touches neither archive nor server.          *)
LEMMA ArchiveStays ==
  ASSUME SourcesInv, UNCHANGED <<part, server, archive>>, past.allowed \subseteq past'.allowed
  PROVE  /\ IsSources' /\ ServerTyped' /\ (archive \subseteq SourceRows)'
         /\ RowsOwned' /\ OneAccount' /\ BlobsThere' /\ Housed' /\ KeptOfSources
<1>1. /\ IsSources' /\ ServerTyped' /\ (archive \subseteq SourceRows)' /\ KeptOfSources
  BY DEF SourcesInv, SourcesTyped, IsSources, ServerTyped, KeptOfSources, ItemsOf, SourceRows
<1>2. RowsOwned'
  BY DEF SourcesInv, RowsOwned
<1>3. OneAccount'
  BY DEF SourcesInv, OneAccount, KindOf
<1>4. BlobsThere'
  BY DEF SourcesInv, BlobsThere, NamesOf, HasBlob, KindOf
<1>5. Housed'
  BY DEF SourcesInv, Housed, Containers, Of, KindOf
<1> QED
  BY <1>1, <1>2, <1>3, <1>4, <1>5

(* The run ends: there is nothing it has to keep.                          *)
LEMMA EndKeepsSources ==
  ASSUME SourcesInv, UNCHANGED <<part, server, archive>>, ~Running',
         PastTyped', past.allowed \subseteq past'.allowed
  PROVE  SourcesInv' /\ KeptOfSources
<1>1. run'.pc = "over"
  BY DEF Running
<1>2. RunTyped' /\ SourceFirst' /\ Permitted' /\ BlobStored' /\ Expended' /\ Earnest' /\ Replacing'
  BY <1>1 DEF Running, RunTyped, SourceFirst, Permitted, BlobStored, Expended, Earnest, Replacing
<1> QED
  BY <1>2, ArchiveStays DEF SourcesInv, SourcesTyped

(* Something changes on a server: it is written down what is gone.         *)
LEMMA ServerKeepsSources ==
  ASSUME SourcesInv, NEW k \in {"k1", "k2"}, ServerChanges(k)
  PROVE  SourcesInv' /\ KeptOfSources
<1>1. UNCHANGED <<part, archive, run>> /\ IsSources /\ ServerTyped /\ PastTyped
  BY DEF ServerChanges, Changing, SourcesInv, SourcesTyped
<1>2. /\ server'.kind = server.kind /\ server'.focus = server.focus
      /\ server'.on \subseteq server.on /\ server.on \ server'.on \subseteq {<<"item", k>>, <<"container", k>>}
      /\ ServerTyped'
  <2>1. server = [kind |-> server.kind, focus |-> server.focus, on |-> server.on,
               ver |-> server.ver, changes |-> server.changes] /\ server.ver \in [Accounts -> 1..2]
        /\ \A q \in Accounts : <<"item", q>> \in server.on => <<"container", q>> \in server.on
    BY <1>1 DEF ServerTyped
  <2>2. k \in Accounts
    BY DEF Accounts
  <2>3. CASE server' = [server EXCEPT !.ver[k] = 2, !.changes = 1]
    <3>1. server' = [kind |-> server.kind, focus |-> server.focus, on |-> server.on,
               ver |-> [server.ver EXCEPT ![k] = 2], changes |-> 1]
      BY <2>1, <2>3
    <3>2. [server.ver EXCEPT ![k] = 2] \in [Accounts -> 1..2]
      <4>1. server.ver \in [Accounts -> 1..2] /\ 2 \in 1..2
        BY <2>1
      <4> QED
        BY <4>1, Override
    <3> QED
      BY <2>1, <3>1, <3>2 DEF ServerTyped
  <2>4. ASSUME NEW S \in SUBSET {<<"item", k>>, <<"container", k>>}, S = {<<"item", k>>} \/ S = {<<"item", k>>, <<"container", k>>},
               server' = [server EXCEPT !.on = @ \ S, !.changes = 1]
        PROVE  /\ server'.kind = server.kind /\ server'.focus = server.focus
               /\ server'.on \subseteq server.on /\ server.on \ server'.on \subseteq {<<"item", k>>, <<"container", k>>}
               /\ ServerTyped'
    <3>1. server' = [kind |-> server.kind, focus |-> server.focus, on |-> server.on \ S,
               ver |-> server.ver, changes |-> 1]
      BY <2>1, <2>4
    <3>2. \A q \in Accounts : <<"item", q>> \in server.on \ S => <<"container", q>> \in server.on \ S
      BY <2>1, <2>4
    <3> QED
      BY <2>1, <3>1, <3>2 DEF ServerTyped
  <2> QED
    BY <2>3, <2>4 DEF ServerChanges
<1>3. /\ PastTyped' /\ past'.allowed = past.allowed /\ past.missed \subseteq past'.missed
      /\ Running /\ run.key = k /\ ~run.dry => server.on \ server'.on \subseteq past'.missed
  BY <1>1 DEF ServerChanges, PastTyped
<1>4. \A q : /\ KindOf(q)' = KindOf(q) /\ Of(q)' = Of(q) /\ Others(q)' = Others(q) /\ HasBlob(q)' = HasBlob(q)
  BY <1>2 DEF KindOf, Of, Others, HasBlob
<1>5. SourcesTyped' /\ SourceFirst' /\ BlobStored' /\ Earnest' /\ Replacing' /\ KeptOfSources
  BY <1>1, <1>2, <1>3, <1>4 DEF SourcesInv, SourcesTyped, SourceFirst, BlobStored, Earnest, Replacing, IsSources,
    RunTyped, Running, KeptOfSources, This
<1>6. Permitted'
  BY <1>1, <1>3, <1>4 DEF SourcesInv, Permitted, Running, Conflicting
<1>7. RowsOwned' /\ OneAccount' /\ BlobsThere' /\ Housed'
  BY <1>1, <1>3, <1>4 DEF SourcesInv, RowsOwned, OneAccount, BlobsThere, NamesOf, Housed, Containers
<1>8. Expended'
  <2> SUFFICES ASSUME Running, ~run.dry, NEW x \in Expendable(run.key, run.mode)'
               PROVE  x \in past'.missed
    BY <1>1 DEF Expended, Running
  <2>1. x \in Expendable(run.key, run.mode) \/ (x \in {"container", "item"} \X {run.key} /\ x \in server.on \ server'.on)
    BY <1>1, <1>4 DEF Expendable
  <2>2. CASE x \in Expendable(run.key, run.mode)
    BY <1>3, <2>2 DEF SourcesInv, Expended
  <2>3. CASE x \in {"container", "item"} \X {run.key} /\ x \in server.on \ server'.on
    <3>1. run.key = k
      BY <1>2, <2>3
    <3> QED
      BY <1>3, <2>3, <3>1
  <2> QED
    BY <2>1, <2>2, <2>3
<1> QED
  BY <1>5, <1>6, <1>7, <1>8 DEF SourcesInv

(* A run is begun: what it may take is written down.                       *)
LEMMA OpenKeepsSources ==
  ASSUME SourcesInv, NEW k \in {"k1", "k2"}, NEW mode \in {"reject", "allow", "replace"},
         NEW dry \in BOOLEAN, NEW selected \in BOOLEAN, OpenArchive(k, mode, dry, selected)
  PROVE  SourcesInv' /\ KeptOfSources
<1>1. /\ UNCHANGED <<part, server, archive>>
      /\ run' = [pc |-> "connect", key |-> k, mode |-> mode, dry |-> dry, selected |-> selected,
                 read |-> 1, failed |-> FALSE]
  BY DEF OpenArchive
<1>2. /\ PastTyped'
      /\ past'.missed = IF dry THEN {} ELSE Expendable(k, mode)
      /\ past'.allowed = past.allowed \union IF mode = "allow" THEN {KindOf(k)} ELSE {}
  BY DEF OpenArchive, SourcesInv, SourcesTyped, PastTyped
<1>3. /\ run'.pc = "connect" /\ run'.key = k /\ run'.mode = mode /\ run'.dry = dry /\ run'.read = 1
  BY <1>1
<1>4. RunTyped'
  BY <1>1, <1>3 DEF RunTyped, Phases
<1>5. SourceFirst' /\ BlobStored' /\ Earnest' /\ Replacing'
  BY <1>3 DEF SourceFirst, BlobStored, Earnest, Replacing
<1>6. Permitted'
  BY <1>1, <1>2, <1>3 DEF Permitted, KindOf
<1>7. Expendable(k, mode)' = Expendable(k, mode)
  BY <1>1 DEF Expendable, Others, KindOf
<1>8. Expended'
  BY <1>2, <1>3, <1>7 DEF Expended
<1> QED
  BY <1>1, <1>2, <1>4, <1>5, <1>6, <1>8, ArchiveStays DEF SourcesInv, SourcesTyped

(* A run goes on and touches neither archive nor server.                   *)
LEMMA GoOnKeepsSources ==
  ASSUME SourcesInv, Running, UNCHANGED <<part, server, archive, past>>, ~run.dry, NEW pc \in Phases,
         run' = Continued(pc) \/ \E b \in BOOLEAN : run' = Noted(pc, b),
         pc # "store",
         pc \in {"containers", "items"} => SourceRow(run.key) \in archive,
         pc = "record" => Conflicting(run.key) = {} \/ KindOf(run.key) \in past.allowed,
         pc = "replace" => run.mode = "replace"
  PROVE  SourcesInv' /\ KeptOfSources
<1>1. /\ RunTyped' /\ Running' /\ run'.pc = pc
      /\ run'.key = run.key /\ run'.mode = run.mode /\ run'.dry = run.dry /\ run'.read = run.read
  BY RunContinues DEF SourcesInv, SourcesTyped
<1>2. SourceFirst' /\ Replacing' /\ Earnest' /\ BlobStored'
  BY <1>1 DEF SourceFirst, Replacing, Earnest, BlobStored, SourceRow, Row
<1>3. Permitted'
  BY <1>1 DEF SourcesInv, Permitted, Conflicting, Others, KindOf
<1>4. Expended'
  BY <1>1 DEF SourcesInv, Expended, Expendable, Others, KindOf
<1>5. PastTyped'
  BY DEF SourcesInv, SourcesTyped, PastTyped
<1> QED
  BY <1>1, <1>2, <1>3, <1>4, <1>5, ArchiveStays DEF SourcesInv, SourcesTyped

(* The source is looked for: it is refused, replaced, or the one there is. *)
LEMMA CheckKeepsSources ==
  ASSUME SourcesInv, CheckSource
  PROVE  SourcesInv' /\ KeptOfSources
<1>1. /\ UNCHANGED <<part, server, archive, past>> /\ run.pc = "connect" /\ Running
  BY DEF CheckSource, Keeps, RunAt, Running
<1>2. CASE \E b : run' = Over(b)
  BY <1>1, <1>2, RunEnds, EndKeepsSources DEF SourcesInv, SourcesTyped, PastTyped
<1>3. CASE run' = Continued("replace") /\ ~run.dry /\ run.mode = "replace"
  BY <1>1, <1>3, GoOnKeepsSources DEF Phases
<1>4. CASE /\ run' = Continued("record") /\ ~run.dry
           /\ run.mode = "reject" => Conflicting(run.key) = {}
           /\ run.mode = "replace" => Conflicting(run.key) = {}
  <2>1. Conflicting(run.key) = {} \/ KindOf(run.key) \in past.allowed
    BY <1>1, <1>4 DEF SourcesInv, SourcesTyped, RunTyped, Permitted
  <2> QED
    BY <1>1, <1>4, <2>1, GoOnKeepsSources DEF Phases
<1> QED
  BY <1>1, <1>2, <1>3, <1>4 DEF CheckSource

(* What of the invariant is not about the archive, when a run goes on.     *)
RunInv ==
  IsSources /\ ServerTyped /\ PastTyped /\ RunTyped /\ Earnest /\ Replacing /\ Expended
RowInv ==
  archive \subseteq SourceRows /\ RowsOwned /\ OneAccount /\ BlobsThere /\ Housed

(* Steps of a run that leave the archive alone.                            *)
LEMMA RunKept ==
  ASSUME SourcesInv, Running, ~run.dry, UNCHANGED <<part, server, past>>,
         \/ \E b : run' = Over(b)
         \/ \E pc \in Phases \ {"replace"} :
              run' = Continued(pc) \/ \E b \in BOOLEAN : run' = Noted(pc, b)
         \/ \E v \in 1..2 : run' = [run EXCEPT !.pc = "store", !.read = v]
  PROVE  RunInv' /\ run'.pc # "replace"
<1>1. IsSources' /\ ServerTyped' /\ PastTyped'
  BY DEF SourcesInv, SourcesTyped, IsSources, ServerTyped, PastTyped
<1>2. CASE \E b : run' = Over(b)
  BY <1>1, <1>2, RunEnds DEF RunInv, RunTyped, Earnest, Replacing, Expended
<1>3. CASE /\ Running' /\ RunTyped' /\ run'.pc # "replace" /\ run'.key = run.key
           /\ run'.mode = run.mode /\ run'.dry = run.dry
  BY <1>1, <1>3 DEF SourcesInv, RunInv, Earnest, Replacing, Expended, Expendable, Others, KindOf
<1>4. ASSUME NEW pc \in Phases \ {"replace"},
             run' = Continued(pc) \/ \E b \in BOOLEAN : run' = Noted(pc, b)
      PROVE  RunInv' /\ run'.pc # "replace"
  BY <1>3, <1>4, RunContinues DEF SourcesInv, SourcesTyped
<1>5. ASSUME NEW v \in 1..2, run' = [run EXCEPT !.pc = "store", !.read = v]
      PROVE  RunInv' /\ run'.pc # "replace"
  <2>1. RunTyped /\ "store" \in Phases
    BY DEF SourcesInv, SourcesTyped, Phases
  <2>2. \E b : run' = [run EXCEPT !.pc = "store", !.read = v, !.failed = b]
    <3>1. run = [pc |-> run.pc, key |-> run.key, mode |-> run.mode, dry |-> run.dry,
                 selected |-> run.selected, read |-> run.read, failed |-> run.failed]
      BY <2>1 DEF RunTyped
    <3>2. [run EXCEPT !.pc = "store", !.read = v]
            = [run EXCEPT !.pc = "store", !.read = v, !.failed = run.failed]
      BY <3>1
    <3> QED
      BY <1>5, <3>2, Zenon
  <2> QED
    BY <1>3, <2>1, <2>2, RunGoesOn
<1> QED
  BY <1>2, <1>4, <1>5

(* remove_other_sources takes a source with all its rows.                  *)
LEMMA RemoveKeepsSources ==
  ASSUME SourcesInv, RemoveOtherSources
  PROVE  SourcesInv' /\ KeptOfSources
<1> DEFINE C == Conflicting(run.key)
<1>1. /\ run.pc = "replace" /\ Running /\ ~run.dry /\ run.mode = "replace" /\ RunTyped
      /\ UNCHANGED <<part, server, past>> /\ run' = Continued("record")
      /\ archive' = {r \in archive : What(r) = "blob" \/ Owner(r) \notin C}
      /\ archive \subseteq SourceRows
  BY DEF RemoveOtherSources, RunAt, Keeps, Running, Removed, SourcesInv, SourcesTyped, Earnest, Replacing
<1>2. run'.pc = "record" /\ run'.key = run.key /\ run'.mode = run.mode /\ Running'
  BY <1>1, RunContinues DEF Phases
<1>3. RunInv'
  BY <1>1, RunKept DEF Phases
<1>4. \A q \in C : SourceRow(q) \notin archive'
  BY <1>1, RowParts
<1>5. Permitted'
  <2>1. Conflicting(run.key)' = {}
    BY <1>1, <1>2, <1>4 DEF Conflicting, Others, KindOf
  <2> QED
    BY <1>1, <1>2, <2>1 DEF Permitted, SourcesInv, KindOf
<1>6. SourceFirst' /\ BlobStored'
  BY <1>2 DEF SourceFirst, BlobStored
<1>7. RowInv'
  <2>1. archive' \subseteq SourceRows
    BY <1>1
  <2>2. RowsOwned'
    BY <1>1, RowParts DEF RowsOwned, SourcesInv
  <2>3. OneAccount'
    BY <1>1 DEF OneAccount, SourcesInv, KindOf
  <2>4. BlobsThere'
    BY <1>1, RowParts DEF BlobsThere, NamesOf, SourcesInv, HasBlob, KindOf
  <2>5. Housed'
    <3> SUFFICES ASSUME NEW r \in archive', What(r) = "item", ~Of(Owner(r)).alone
                 PROVE  Containers(Owner(r))' # {}
      BY <1>1 DEF Housed, Of, KindOf
    <3>1. PICK q \in archive : q.item = <<"container", Owner(r)>>
      BY <1>1 DEF SourcesInv, Housed, Containers
    <3>2. Owner(q) = Owner(r) /\ Owner(r) \notin C
      BY <1>1, <3>1 DEF Owner
    <3> QED
      BY <1>1, <3>1, <3>2 DEF Containers
  <2> QED
    BY <2>1, <2>2, <2>3, <2>4, <2>5 DEF RowInv
<1>8. KeptOfSources
  <2>1. Expendable(run.key, "replace") \subseteq past.missed
    BY <1>1 DEF SourcesInv, Expended
  <2>2. ASSUME NEW r \in archive, r \notin archive' PROVE r.item \in past.missed
    <3>1. r.item = <<What(r), Owner(r)>> /\ What(r) \in {"source", "container", "item"} /\ Owner(r) \in Others(run.key)
      BY <1>1, <2>2, RowParts DEF Conflicting, Whats
    <3> QED
      BY <2>1, <3>1 DEF Expendable
  <2> QED
    BY <2>2 DEF KeptOfSources, ItemsOf
<1> QED
  BY <1>3, <1>5, <1>6, <1>7, <1>8 DEF SourcesInv, SourcesTyped, RunInv, RowInv

(* The source is recorded: it is alone of its kind, or its kind is shared. *)
LEMMA UpsertKeepsSources ==
  ASSUME SourcesInv, UpsertSource
  PROVE  SourcesInv' /\ KeptOfSources
<1>1. /\ run.pc = "record" /\ Running /\ ~run.dry /\ RunTyped /\ Permitted
      /\ UNCHANGED <<part, server, past>>
      /\ \E pc \in {"containers", "collect"} : run' = Continued(pc)
      /\ archive' = archive \union {SourceRow(run.key)}
      /\ archive \subseteq SourceRows
  BY DEF UpsertSource, RunAt, Keeps, Running, SourcesInv, SourcesTyped, Earnest
<1>2. run.key \in Accounts
  BY <1>1 DEF RunTyped, Accounts
<1>3. run'.pc \in {"containers", "collect"} /\ run'.key = run.key /\ run'.mode = run.mode /\ Running'
  BY <1>1, RunContinues DEF Phases
<1>4. RunInv'
  BY <1>1, RunKept DEF Phases
<1>5. SourceFirst' /\ BlobStored' /\ Permitted' /\ KeptOfSources
  BY <1>1, <1>3 DEF SourceFirst, BlobStored, Permitted, KeptOfSources, ItemsOf, KindOf, SourceRow, Row
<1>6. RowInv'
  <2>1. archive' \subseteq SourceRows
    BY <1>1, <1>2, RowTypes
  <2>2. RowsOwned'
    BY <1>1, RowParts DEF RowsOwned, SourcesInv
  <2>3. OneAccount'
    <3> SUFFICES ASSUME NEW k \in Accounts, NEW q \in Accounts, KindOf(k) = KindOf(q), k # q,
                        SourceRow(k) \in archive', SourceRow(q) \in archive'
                 PROVE  KindOf(k) \in past.allowed
      BY <1>1 DEF OneAccount, KindOf
    <3>1. \A x \in Accounts : SourceRow(x) \in archive' => SourceRow(x) \in archive \/ x = run.key
      BY <1>1, RowParts
    <3>2. CASE SourceRow(k) \in archive /\ SourceRow(q) \in archive
      BY <3>2 DEF SourcesInv, OneAccount
    <3>3. CASE k = run.key /\ SourceRow(q) \in archive
      BY <1>1, <3>3 DEF Permitted, Conflicting, Others
    <3>4. CASE q = run.key /\ SourceRow(k) \in archive
      BY <1>1, <3>4 DEF Permitted, Conflicting, Others
    <3> QED
      BY <3>1, <3>2, <3>3, <3>4
  <2>4. BlobsThere'
    BY <1>1, RowParts DEF BlobsThere, NamesOf, SourcesInv, HasBlob, KindOf
  <2>5. Housed'
    BY <1>1, RowParts DEF Housed, SourcesInv, Containers, Of, KindOf
  <2> QED
    BY <2>1, <2>2, <2>3, <2>4, <2>5 DEF RowInv
<1> QED
  BY <1>4, <1>5, <1>6 DEF SourcesInv, SourcesTyped, RunInv, RowInv

(* The container of the source is that of its server.                      *)
LEMMA ContainersKeepSources ==
  ASSUME SourcesInv, ReconcileContainers
  PROVE  SourcesInv' /\ KeptOfSources
<1> DEFINE k == run.key
<1>1. /\ run.pc = "containers" /\ Running /\ ~run.dry /\ RunTyped /\ Permitted
      /\ UNCHANGED <<part, server, past>>
      /\ run' = Continued("items")
      /\ archive \subseteq SourceRows /\ SourceRow(k) \in archive
  BY DEF ReconcileContainers, RunAt, Keeps, Running, SourcesInv, SourcesTyped, Earnest, SourceFirst
<1>2. k \in Accounts
  BY <1>1 DEF RunTyped, Accounts
<1>3. run'.pc = "items" /\ run'.key = k /\ run'.mode = run.mode /\ Running'
  BY <1>1, RunContinues DEF Phases
<1>4. RunInv'
  BY <1>1, RunKept DEF Phases
<1>5. BlobStored' /\ Permitted'
  BY <1>1, <1>3 DEF BlobStored, Permitted, KindOf
<1>6. CASE \/ archive' = archive \union {Row("container", k, 1)}
           \/ archive' = archive
  <2>1. archive' \subseteq SourceRows
    BY <1>1, <1>2, <1>6, RowTypes
  <2>2. RowsOwned'
    BY <1>1, <1>6, RowParts DEF RowsOwned, SourcesInv
  <2>3. OneAccount'
    BY <1>1, <1>6, RowParts DEF OneAccount, SourcesInv, KindOf
  <2>4. BlobsThere'
    BY <1>1, <1>6, RowParts DEF BlobsThere, NamesOf, SourcesInv, HasBlob, KindOf
  <2>5. Housed'
    BY <1>1, <1>6, RowParts DEF Housed, SourcesInv, Containers, Of, KindOf
  <2>6. SourceFirst' /\ KeptOfSources
    BY <1>1, <1>3, <1>6 DEF SourceFirst, KeptOfSources, ItemsOf
  <2> QED
    BY <1>4, <1>5, <2>1, <2>2, <2>3, <2>4, <2>5, <2>6 DEF SourcesInv, SourcesTyped, RunInv, RowInv
<1>7. ASSUME <<"container", k>> \notin server.on, NEW gone,
             gone = Containers(k) \/ gone = Containers(k) \union ItemRows(k),
             Of(k).alone \/ ItemRows(k) \subseteq gone,
             archive' = archive \ gone
      PROVE  SourcesInv' /\ KeptOfSources
  <2>1. <<"item", k>> \notin server.on
    BY <1>2, <1>7 DEF SourcesInv, SourcesTyped, ServerTyped
  <2>2. \A r \in gone : r \in archive /\ r.item \in {"container", "item"} \X {k} /\ What(r) \in {"container", "item"}
    BY <1>7 DEF Containers, ItemRows, What
  <2>3. archive' \subseteq SourceRows
    BY <1>1, <1>7
  <2>4. \A q : SourceRow(q) \in archive => SourceRow(q) \in archive'
    BY <1>7, <2>2, RowParts
  <2>5. RowsOwned' /\ OneAccount'
    BY <1>1, <1>7, <2>4 DEF RowsOwned, OneAccount, SourcesInv, KindOf
  <2>6. BlobsThere'
    BY <1>1, <1>7, <2>2, RowParts DEF BlobsThere, NamesOf, SourcesInv, HasBlob, KindOf
  <2>7. Housed'
    <3> SUFFICES ASSUME NEW r \in archive', What(r) = "item", ~Of(Owner(r)).alone
                 PROVE  Containers(Owner(r))' # {}
      BY <1>1 DEF Housed, Of, KindOf
    <3>1. PICK q \in archive : q.item = <<"container", Owner(r)>>
      BY <1>7 DEF SourcesInv, Housed, Containers
    <3>2. Owner(r) # k
      <4>1. r \in archive /\ r \notin gone /\ r.item = <<"item", Owner(r)>>
        BY <1>1, <1>7, RowParts
      <4> QED
        BY <1>7, <4>1 DEF ItemRows
    <3>3. q \notin gone
      BY <2>2, <3>1, <3>2
    <3> QED
      BY <1>7, <3>1, <3>3 DEF Containers
  <2>8. SourceFirst'
    BY <1>1, <1>3, <2>4 DEF SourceFirst, SourceRow, Row
  <2>9. KeptOfSources
    <3>1. Expendable(k, run.mode) \subseteq past.missed
      BY <1>1 DEF SourcesInv, Expended
    <3> QED
      BY <1>7, <2>1, <2>2, <3>1 DEF KeptOfSources, ItemsOf, Expendable
  <2> QED
    BY <1>4, <1>5, <2>3, <2>5, <2>6, <2>7, <2>8, <2>9 DEF SourcesInv, SourcesTyped, RunInv, RowInv
<1> QED
  <2>1. CASE This.alone /\ <<"container", k>> \notin server.on /\ archive' = archive \ (Containers(k) \union {})
    <3>1. archive' = archive \ Containers(k)
      BY <2>1
    <3> QED
      BY <1>7, <2>1, <3>1 DEF This
  <2>2. CASE ~This.alone /\ <<"container", k>> \notin server.on /\ archive' = archive \ (Containers(k) \union ItemRows(k))
    <3> DEFINE gone == Containers(k) \union ItemRows(k)
    <3>1. archive' = archive \ gone
      BY <2>2
    <3> QED
      BY <1>7, <2>2, <3>1
  <2>3. \/ archive' = archive \union {Row("container", k, 1)} \/ archive' = archive
        \/ /\ <<"container", k>> \notin server.on
           /\ archive' = archive \ (Containers(k) \union IF This.alone THEN {} ELSE ItemRows(k))
    BY DEF ReconcileContainers
  <2>4. \/ archive' = archive \ (Containers(k) \union IF This.alone THEN {} ELSE ItemRows(k))
             => \/ This.alone /\ archive' = archive \ (Containers(k) \union {})
                \/ ~This.alone /\ archive' = archive \ (Containers(k) \union ItemRows(k))
    BY Zenon
  <2> QED
    BY <1>6, <2>1, <2>2, <2>3, <2>4, Zenon

(* The row of an item is written, with its blob if that was not there.     *)
LEMMA WritingKeepsRows ==
  ASSUME SourcesInv, UNCHANGED <<part, server, past>>, NEW k \in Accounts, NEW v \in 1..2,
         NEW blobs, blobs \in {{}, {BlobRow(Contents[v])}},
         HasBlob(k) => BlobRow(Contents[v]) \in archive \union blobs,
         Of(k).alone \/ Containers(k) # {}, SourceRow(k) \in archive,
         archive' = (archive \ ItemRows(k)) \union {Row("item", k, v)} \union blobs
  PROVE  RowInv' /\ KeptOfSources
<1> DEFINE Accounted(r) ==
             (r \in archive /\ r \notin ItemRows(k)) \/ r = Row("item", k, v) \/ r = BlobRow(Contents[v])
<1>1. /\ \A r \in archive' : Accounted(r)
      /\ \A r \in ItemRows(k) : What(r) = "item" /\ r.item = <<"item", k>>
      /\ archive \subseteq SourceRows
  <2>1. \A r \in archive' : Accounted(r)
    OBVIOUS
  <2>2. \A r \in ItemRows(k) : What(r) = "item" /\ r.item = <<"item", k>>
    BY DEF ItemRows, What
  <2>3. archive \subseteq SourceRows
    BY DEF SourcesInv, SourcesTyped
  <2> QED
    BY <2>1, <2>2, <2>3
<1>2. \A r \in archive : What(r) # "item" => r \in archive'
  BY <1>1
<1>3. archive' \subseteq SourceRows
  <2>1. Row("item", k, v) \in SourceRows /\ BlobRow(Contents[v]) \in SourceRows
    BY RowTypes
  <2> QED
    BY <1>1, <2>1
<1>4. RowsOwned'
  BY <1>1, <1>2, RowParts DEF RowsOwned, SourcesInv
<1>5. OneAccount'
  BY <1>1, RowParts DEF OneAccount, SourcesInv, KindOf
<1>6. BlobsThere'
  <2> SUFFICES ASSUME NEW r \in archive', What(r) = "item", HasBlob(Owner(r))
               PROVE  BlobRow(Contents[r.ver]) \in archive'
    BY DEF BlobsThere, NamesOf, HasBlob, KindOf
  <2>1. CASE r \in archive
    <3>1. BlobRow(Contents[r.ver]) \in archive
      BY <2>1 DEF SourcesInv, BlobsThere, NamesOf
    <3> QED
      BY <1>2, <3>1, RowParts
  <2>2. CASE r = Row("item", k, v)
    <3>1. Owner(r) = k /\ r.ver = v
      BY <2>2, RowParts
    <3> QED
      BY <1>2, <3>1, RowParts
  <2> QED
    BY <1>1, <2>1, <2>2, RowParts
<1>7. Housed'
  <2> SUFFICES ASSUME NEW r \in archive', What(r) = "item", ~Of(Owner(r)).alone
               PROVE  Containers(Owner(r))' # {}
    BY DEF Housed, Of, KindOf
  <2>1. Containers(Owner(r)) # {}
    <3>1. CASE r \in archive
      BY <3>1 DEF SourcesInv, Housed
    <3>2. CASE r = Row("item", k, v)
      BY <3>2, RowParts
    <3> QED
      BY <1>1, <3>1, <3>2, RowParts
  <2>2. PICK q \in archive : q.item = <<"container", Owner(r)>>
    BY <2>1 DEF Containers
  <2>3. What(q) # "item"
    BY <2>2 DEF What
  <2> QED
    BY <1>2, <2>2, <2>3 DEF Containers
<1>8. KeptOfSources
  BY <1>1, RowParts DEF KeptOfSources, ItemsOf
<1> QED
  BY <1>3, <1>4, <1>5, <1>6, <1>7, <1>8 DEF RowInv

(* The rows of an item go: its server lacks it, or its container.          *)
LEMMA DroppingKeepsRows ==
  ASSUME SourcesInv, Running, ~run.dry, UNCHANGED <<part, server, past>>, run.key \in Accounts,
         <<"item", run.key>> \notin server.on \/ ItemRows(run.key) = {},
         archive' = archive \ ItemRows(run.key)
  PROVE  RowInv' /\ KeptOfSources
<1> DEFINE k == run.key
<1>1. \A r \in ItemRows(k) : What(r) = "item" /\ r.item = <<"item", k>>
  BY DEF ItemRows, What
<1>2. \A r \in archive : What(r) # "item" => r \in archive'
  BY <1>1
<1>3. archive' \subseteq SourceRows /\ archive' \subseteq archive
  BY DEF SourcesInv, SourcesTyped
<1>4. RowsOwned' /\ OneAccount'
  BY <1>2, <1>3, RowParts DEF RowsOwned, OneAccount, SourcesInv, KindOf
<1>5. BlobsThere'
  BY <1>2, <1>3, RowParts DEF BlobsThere, NamesOf, SourcesInv, HasBlob, KindOf
<1>6. Housed'
  <2> SUFFICES ASSUME NEW r \in archive', What(r) = "item", ~Of(Owner(r)).alone
               PROVE  Containers(Owner(r))' # {}
    BY DEF Housed, Of, KindOf
  <2>1. PICK q \in archive : q.item = <<"container", Owner(r)>>
    BY <1>3 DEF SourcesInv, Housed, Containers
  <2>2. What(q) # "item"
    BY <2>1 DEF What
  <2> QED
    BY <1>2, <2>1, <2>2 DEF Containers
<1>7. KeptOfSources
  <2>1. Expendable(k, run.mode) \subseteq past.missed
    BY DEF SourcesInv, Expended
  <2> QED
    BY <1>1, <2>1 DEF KeptOfSources, ItemsOf, Expendable
<1> QED
  BY <1>3, <1>4, <1>5, <1>6, <1>7 DEF RowInv

(* The blobs of an item are written ahead of it.                           *)
LEMMA AddingKeepsRows ==
  ASSUME SourcesInv, UNCHANGED <<part, server, past>>, NEW v \in 1..2,
         archive' = archive \union {BlobRow(Contents[v])}
  PROVE  RowInv' /\ KeptOfSources
<1>1. archive' \subseteq SourceRows
  BY RowTypes DEF SourcesInv, SourcesTyped
<1>2. RowsOwned' /\ OneAccount'
  BY RowParts DEF RowsOwned, OneAccount, SourcesInv, KindOf
<1>3. BlobsThere'
  BY RowParts DEF BlobsThere, NamesOf, SourcesInv, HasBlob, KindOf
<1>4. Housed'
  BY RowParts DEF Housed, Containers, SourcesInv, Of, KindOf
<1>5. KeptOfSources
  BY DEF KeptOfSources, ItemsOf
<1> QED
  BY <1>1, <1>2, <1>3, <1>4, <1>5 DEF RowInv

(* A step of a run under way that keeps the rows keeps everything.         *)
LEMMA RowsSuffice ==
  ASSUME SourcesInv, Running, ~run.dry, UNCHANGED <<part, server, past>>,
         run' = Over(TRUE) \/ run' = Over(FALSE)
         \/ \E pc \in {"items", "collect"} : run' = Continued(pc) \/ \E b \in BOOLEAN : run' = Noted(pc, b),
         run'.pc = "items" => SourceRow(run.key) \in archive',
         RowInv'
  PROVE  SourcesInv'
<1>1. RunInv'
  <2>1. {"items", "collect"} \subseteq Phases \ {"replace"}
    BY DEF Phases
  <2> QED
    BY <2>1, RunKept
<1>2. CASE run' = Over(TRUE) \/ run' = Over(FALSE)
  <2>1. ~Running' /\ run'.pc = "over"
    BY <1>2, RunEnds
  <2>2. SourceFirst' /\ Permitted' /\ BlobStored'
    BY <2>1 DEF SourceFirst, Permitted, BlobStored
  <2> QED
    BY <1>1, <2>2 DEF SourcesInv, SourcesTyped, RunInv, RowInv
<1>3. ASSUME NEW pc \in {"items", "collect"},
             run' = Continued(pc) \/ \E b \in BOOLEAN : run' = Noted(pc, b)
      PROVE  SourcesInv'
  <2>1. run'.pc = pc /\ run'.key = run.key /\ run'.mode = run.mode
    BY <1>3, RunContinues DEF SourcesInv, SourcesTyped, Phases
  <2>2. SourceFirst' /\ Permitted' /\ BlobStored'
    BY <1>3, <2>1 DEF SourceFirst, Permitted, BlobStored, SourcesInv, KindOf, SourceRow, Row, This, Of
  <2> QED
    BY <1>1, <2>2 DEF SourcesInv, SourcesTyped, RunInv, RowInv
<1> QED
  BY <1>2, <1>3

(* The run goes on to its last phase.                                      *)
LEMMA Collected ==
  ASSUME SourcesInv, Running, run' = Continued("collect") \/ run' = Noted("collect", TRUE)
  PROVE  run'.pc = "collect"
<1>1. "collect" \in Phases /\ TRUE \in BOOLEAN
  BY DEF Phases
<1> QED
  BY <1>1, RunContinues DEF SourcesInv, SourcesTyped

(* The item of the source is what its server lists.                        *)
LEMMA ItemsKeepSources ==
  ASSUME SourcesInv, ReconcileItems
  PROVE  SourcesInv' /\ KeptOfSources
<1> DEFINE k == run.key
           v == server.ver[k]
<1>1. /\ run.pc = "items" /\ Running /\ ~run.dry /\ RunTyped
      /\ UNCHANGED <<part, server, past>> /\ SourceRow(k) \in archive
  BY DEF ReconcileItems, RunAt, Keeps, Running, SourcesInv, SourcesTyped, Earnest, SourceFirst
<1>2. k \in Accounts /\ v \in 1..2
  <2>1. k \in Accounts
    BY <1>1 DEF RunTyped, Accounts
  <2>2. server.ver \in [Accounts -> 1..2]
    BY DEF SourcesInv, SourcesTyped, ServerTyped
  <2> QED
    BY <2>1, <2>2
<1>3. Wanted.ver = v /\ Wanted = Row("item", k, v)
  BY DEF Wanted, Row
<1>4. CASE UNCHANGED archive /\ (run' = Continued("collect") \/ run' = Noted("collect", TRUE))
  <2>1. RowInv' /\ KeptOfSources
    BY <1>1, <1>4, ArchiveStays DEF RowInv
  <2> QED
    BY <1>1, <1>4, <2>1, RowsSuffice, Collected
<1>5. ASSUME run' = Continued("collect"), Containers(k) # {}, NEW blobs,
             blobs = IF HasBlob(k) THEN {BlobRow(Contents[v])} ELSE {},
             archive' = (archive \ ItemRows(k)) \union {Row("item", k, v)} \union blobs
      PROVE  SourcesInv' /\ KeptOfSources
  <2>1. blobs \in {{}, {BlobRow(Contents[v])}} /\ (HasBlob(k) => BlobRow(Contents[v]) \in archive \union blobs)
    BY <1>5
  <2>2. RowInv' /\ KeptOfSources
    BY <1>1, <1>2, <1>5, <2>1, WritingKeepsRows
  <2> QED
    BY <1>1, <1>5, <2>2, RowsSuffice, Collected
<1>6. CASE /\ archive' = archive \union {BlobRow(Contents[v])}
           /\ run' = [Continued("store") EXCEPT !.read = v] /\ This.alone
  <2>1. RowInv' /\ KeptOfSources
    BY <1>1, <1>2, <1>6, AddingKeepsRows
  <2>2. run = [pc |-> run.pc, key |-> k, mode |-> run.mode, dry |-> run.dry,
               selected |-> run.selected, read |-> run.read, failed |-> run.failed]
    BY <1>1 DEF RunTyped
  <2>3. run' = [run EXCEPT !.pc = "store", !.read = v]
    BY <1>6, <2>2 DEF Continued
  <2>4. RunInv'
    BY <1>1, <1>2, <2>3, RunKept
  <2>5. run'.pc = "store" /\ run'.key = k /\ run'.mode = run.mode /\ run'.read = v
    BY <2>2, <2>3
  <2>6. SourceFirst' /\ Permitted' /\ BlobStored'
    BY <1>1, <1>6, <2>5 DEF SourceFirst, Permitted, BlobStored, SourcesInv, KindOf, SourceRow, Row, This, Of
  <2> QED
    BY <2>1, <2>4, <2>6 DEF SourcesInv, SourcesTyped, RunInv, RowInv
<1>7. CASE /\ ~ListedNow /\ run' = Continued("collect")
           /\ archive' = archive \ ItemRows(k)
  <2>1. <<"item", k>> \notin server.on \/ ItemRows(k) = {}
    BY <1>7, RowParts DEF ListedNow, SourcesInv, Housed, ItemRows, This, What, Owner
  <2>2. RowInv' /\ KeptOfSources
    BY <1>1, <1>2, <1>7, <2>1, DroppingKeepsRows
  <2> QED
    BY <1>1, <1>7, <2>2, RowsSuffice, Collected
<1> QED
  <2>1. CASE ~ListedNow
    BY <1>4, <1>7, <2>1, Zenon DEF ReconcileItems
  <2>2. CASE ListedNow
    <3>1. CASE Wanted \in archive \/ (Clash(k) /\ ~This.alone)
      BY <1>4, <2>2, <3>1, Zenon DEF ReconcileItems
    <3>2. CASE Wanted \notin archive /\ This.alone
      BY <1>3, <1>6, <2>2, <3>2, Zenon DEF ReconcileItems
    <3>3. CASE Wanted \notin archive /\ ~This.alone /\ ~Clash(k)
      <4>1. Containers(k) # {}
        BY <2>2, <3>3, Zenon DEF ListedNow
      <4>2. /\ run' = Continued("collect")
            /\ archive' = (archive \ ItemRows(k)) \union {Row("item", k, v)}
                            \union IF HasBlob(k) THEN {BlobRow(Contents[v])} ELSE {}
        BY <1>3, <2>2, <3>3, Zenon DEF ReconcileItems
      <4> QED
        BY <1>5, <4>1, <4>2, Zenon
    <3> QED
      BY <3>1, <3>2, <3>3
  <2> QED
    BY <2>1, <2>2

(* The blobs are there: now the row is written.                            *)
LEMMA StoringKeepsSources ==
  ASSUME SourcesInv, StoreItems
  PROVE  SourcesInv' /\ KeptOfSources
<1> DEFINE k == run.key
           v == run.read
<1>1. /\ run.pc = "store" /\ Running /\ ~run.dry /\ RunTyped
      /\ UNCHANGED <<part, server, past>> /\ SourceRow(k) \in archive
      /\ HasBlob(k) => BlobRow(Contents[v]) \in archive
      /\ Of(k).alone
  BY DEF StoreItems, RunAt, Keeps, Running, SourcesInv, SourcesTyped, Earnest, SourceFirst, BlobStored, This
<1>2. k \in Accounts /\ v \in 1..2
  BY <1>1 DEF RunTyped, Accounts
<1>3. CASE UNCHANGED archive /\ run' = Noted("collect", TRUE)
  <2>1. RowInv' /\ KeptOfSources
    BY <1>1, <1>3, ArchiveStays DEF RowInv
  <2> QED
    BY <1>1, <1>3, <2>1, RowsSuffice, Collected
<1>4. CASE /\ archive' = (archive \ ItemRows(k)) \union {Row("item", k, v)}
           /\ run' = Continued("collect")
  <2>1. archive' = (archive \ ItemRows(k)) \union {Row("item", k, v)} \union {}
    BY <1>4
  <2>2. RowInv' /\ KeptOfSources
    BY <1>1, <1>2, <1>4, <2>1, WritingKeepsRows
  <2> QED
    BY <1>1, <1>4, <2>2, RowsSuffice, Collected
<1> QED
  BY <1>3, <1>4 DEF StoreItems

(* The garbage is collected, of what no row names.                         *)
LEMMA CollectingKeepsSources ==
  ASSUME SourcesInv, CollectGarbage
  PROVE  SourcesInv' /\ KeptOfSources
<1>1. /\ run.pc = "collect" /\ Running /\ ~run.dry /\ RunTyped
      /\ UNCHANGED <<part, server, past>> /\ run' = Over(run.failed)
      /\ archive \subseteq SourceRows
      /\ archive' = archive \/ archive' = archive \ Garbage(archive)
  BY DEF CollectGarbage, RunAt, Keeps, Running, SourcesInv, SourcesTyped, Earnest
<1>2. ~Running' /\ run'.pc = "over"
  BY <1>1, RunEnds
<1>3. CASE archive' = archive
  BY <1>1, <1>2, <1>3, EndKeepsSources DEF SourcesInv, SourcesTyped, PastTyped
<1>4. CASE archive' = archive \ Garbage(archive)
  <2>1. \A r \in archive : What(r) # "blob" => r \in archive'
    BY <1>4 DEF Garbage
  <2>2. \A r \in archive : NamesOf(r) \subseteq archive'
    <3> SUFFICES ASSUME NEW r \in archive, What(r) = "item", HasBlob(Owner(r))
                 PROVE  BlobRow(Contents[r.ver]) \in archive'
      BY DEF NamesOf
    <3>1. BlobRow(Contents[r.ver]) \in archive
      BY DEF SourcesInv, BlobsThere, NamesOf
    <3>2. BlobRow(Contents[r.ver]) \in Referenced(archive)
      BY DEF Referenced
    <3> QED
      BY <1>4, <3>1, <3>2 DEF Garbage
  <2>3. archive' \subseteq SourceRows /\ archive' \subseteq archive
    BY <1>1, <1>4
  <2>4. RowsOwned' /\ OneAccount'
    BY <1>1, <2>1, <2>3, RowParts DEF RowsOwned, OneAccount, SourcesInv, KindOf
  <2>5. BlobsThere'
    BY <1>1, <2>2, <2>3 DEF BlobsThere, NamesOf, HasBlob, KindOf
  <2>6. Housed'
    <3> SUFFICES ASSUME NEW r \in archive', What(r) = "item", ~Of(Owner(r)).alone
                 PROVE  Containers(Owner(r))' # {}
      BY <1>1 DEF Housed, Of, KindOf
    <3>1. PICK q \in archive : q.item = <<"container", Owner(r)>>
      BY <2>3 DEF SourcesInv, Housed, Containers
    <3>2. What(q) # "blob"
      BY <3>1 DEF What
    <3> QED
      BY <2>1, <3>1, <3>2 DEF Containers
  <2>7. KeptOfSources
    <3>1. Expendable(run.key, run.mode) \subseteq past.missed
      BY <1>1 DEF SourcesInv, Expended
    <3>2. ASSUME NEW r \in archive, r \notin archive' PROVE r.item \in {"blob"} \X ToSet(Contents)
      <4>1. What(r) = "blob" /\ r \in SourceRows
        BY <1>1, <2>1, <3>2
      <4> QED
        BY <4>1, RowParts
    <3> QED
      BY <3>1, <3>2 DEF KeptOfSources, ItemsOf, Expendable
  <2>8. RunTyped' /\ SourceFirst' /\ Permitted' /\ BlobStored' /\ Expended' /\ Earnest' /\ Replacing'
    BY <1>2 DEF RunTyped, SourceFirst, Permitted, BlobStored, Expended, Earnest, Replacing
  <2> QED
    BY <1>1, <2>3, <2>4, <2>5, <2>6, <2>7, <2>8
      DEF SourcesInv, SourcesTyped, IsSources, ServerTyped, PastTyped
<1> QED
  BY <1>1, <1>3, <1>4

(* What fails ends the run, or is counted and passed over.                 *)
LEMMA FailingKeepsSources ==
  ASSUME SourcesInv, CollectFails \/ PhaseFails \/ SourcesCrash
  PROVE  SourcesInv' /\ KeptOfSources
<1>1. CASE CollectFails
  <2>1. /\ UNCHANGED <<part, server, archive>> /\ \E b : run' = Over(b)
        /\ past' = [past EXCEPT !.unseen = {"blob"} \X ToSet(Contents)]
    BY <1>1 DEF CollectFails
  <2>2. PastTyped' /\ past'.allowed = past.allowed
    BY <2>1 DEF SourcesInv, SourcesTyped, PastTyped
  <2> QED
    BY <2>1, <2>2, RunEnds, EndKeepsSources
<1>2. CASE SourcesCrash
  BY <1>2, RunEnds, EndKeepsSources DEF SourcesCrash, Crash, SourcesInv, SourcesTyped, PastTyped
<1>3. CASE PhaseFails
  <2>1. /\ UNCHANGED <<part, server, archive, past>> /\ Running /\ ~run.dry
        /\ run.pc \in {"containers", "items", "store"}
        /\ \/ run' = Over(TRUE)
           \/ run.pc = "containers" /\ run' = Noted("items", TRUE)
           \/ run.pc # "containers" /\ run' = Noted("collect", TRUE)
    BY <1>3 DEF PhaseFails, RunAt, Running, SourcesInv, Earnest
  <2>2. RowInv' /\ KeptOfSources
    BY <2>1, ArchiveStays DEF RowInv
  <2>3. SourceRow(run.key) \in archive'
    BY <2>1 DEF SourcesInv, SourceFirst
  <2> QED
    BY <2>1, <2>2, <2>3, RowsSuffice
<1> QED
  BY <1>1, <1>2, <1>3

(* At first there is the neighbour with what belongs to it.                *)
LEMMA SourcesAtFirst ==
  ASSUME SourcesInit
  PROVE  SourcesInv
<1>1. PICK kind \in SourceKinds, focus \in UNION {TypesOf(x) : x \in SourceKinds} :
        \E other : server = [kind |-> [k1 |-> kind, k2 |-> kind, neighbour |-> other], focus |-> focus,
                  on |-> {"container", "item"} \X Accounts,
                  ver |-> [k \in Accounts |-> 1], changes |-> 0]
  BY DEF SourcesInit
<1>2. ServerTyped
  <2>1. [k \in Accounts |-> 1] \in [Accounts -> 1..2]
    OBVIOUS
  <2> QED
    BY <1>1, <2>1 DEF ServerTyped
<1>3. /\ IsSources /\ PastTyped /\ ~Running /\ run.pc = "over"
      /\ archive = Neighbourhood
  BY DEF SourcesInit, IsSources, PastTyped, Running, Over
<1>4. /\ Row("item", "neighbour", 1) \in archive /\ Row("container", "neighbour", 1) \in archive
      /\ SourceRow("neighbour") \in archive
      /\ HasBlob("neighbour") => BlobRow(Contents[1]) \in archive
      /\ \A r \in archive : \/ r = SourceRow("neighbour") \/ r = Row("container", "neighbour", 1)
                            \/ r = Row("item", "neighbour", 1) \/ r = BlobRow(Contents[1])
  BY <1>3 DEF Neighbourhood, Contents
<1>5. archive \subseteq SourceRows
  <2>1. "neighbour" \in Accounts
    BY DEF Accounts
  <2> QED
    BY <1>4, <2>1, RowTypes
<1>6. RowsOwned /\ OneAccount
  BY <1>4, RowParts DEF RowsOwned, OneAccount
<1>7. BlobsThere
  BY <1>4, RowParts DEF BlobsThere, NamesOf
<1>8. Housed
  <2>1. Containers("neighbour") # {}
    BY <1>4, RowParts DEF Containers
  <2> QED
    BY <1>4, <2>1, RowParts DEF Housed
<1> QED
  BY <1>2, <1>3, <1>5, <1>6, <1>7, <1>8
    DEF SourcesInv, SourcesTyped, RunTyped, SourceFirst, Permitted, BlobStored, Expended, Earnest, Replacing

(* A step of the importers or of a server keeps all that.                  *)
LEMMA StepKeepsSources ==
  ASSUME SourcesInv, SourcesNext
  PROVE  SourcesInv' /\ KeptOfSources
<1>1. CASE SourcesRun
  BY <1>1, OpenKeepsSources, CheckKeepsSources, RemoveKeepsSources, UpsertKeepsSources,
     ContainersKeepSources, ItemsKeepSources, StoringKeepsSources, CollectingKeepsSources DEF SourcesRun
<1> QED
  BY <1>1, ServerKeepsSources, FailingKeepsSources DEF SourcesNext

(* A step that changes nothing keeps it as well.                           *)
LEMMA StutterKeepsSources ==
  ASSUME SourcesInv, UNCHANGED vars
  PROVE  SourcesInv' /\ KeptOfSources
<1>1. UNCHANGED <<part, server, archive, run, past>>
  BY DEF vars
<1>2. RunTyped' /\ SourceFirst' /\ Permitted' /\ BlobStored' /\ Expended' /\ Earnest' /\ Replacing'
  BY <1>1 DEF SourcesInv, SourcesTyped, RunTyped, Running, SourceFirst, Permitted, BlobStored, Expended, Earnest,
    Replacing, KindOf, Conflicting, Others, SourceRow, Row, HasBlob, BlobRow, Expendable, This, Of
<1>3. PastTyped'
  BY <1>1 DEF SourcesInv, SourcesTyped, PastTyped
<1> QED
  BY <1>1, <1>2, <1>3, ArchiveStays DEF SourcesInv, SourcesTyped

(* The invariant holds of every archive.                                   *)
LEMMA SourcesAlways == SourcesSpec => []SourcesInv
<1>1. SourcesInit => SourcesInv
  BY SourcesAtFirst
<1>2. SourcesInv /\ [SourcesNext]_vars => SourcesInv'
  BY StepKeepsSources, StutterKeepsSources
<1> QED
  BY <1>1, <1>2, PTL DEF SourcesSpec

(* Whatever accounts an archive is filled from, in whatever order and with *)
(* whatever failures: every row belongs to a source the archive records,   *)
(* another account of a kind is there only if that was permitted, and no   *)
(* blob that a row names is collected.                                     *)
THEOREM SourcesCorrect == SourcesSpec => []SourcesSound
<1>1. SourcesInv => SourcesSound
  BY DEF SourcesInv, SourcesSound
<1> QED
  BY <1>1, SourcesAlways, PTL

(* No step of an importer takes a row of another source, of a server that  *)
(* still has it, or a blob but by collecting garbage.                      *)
THEOREM SourcesKeep == SourcesSpec => KeptWhileThere
<1>1. SourcesInv /\ [SourcesNext]_vars
        => [ItemsOf(archive) \ ItemsOf(archive') \subseteq past.missed \union past.unseen]_vars
  BY StepKeepsSources, StutterKeepsSources DEF KeptOfSources
<1> QED
  BY <1>1, SourcesAlways, PTL DEF SourcesSpec, KeptWhileThere

-----------------------------------------------------------------------------
(* The importers of items.  What they share: the types, and that what the  *)
(* server lacks is written down from the beginning of a run.               *)

ItemsTyped ==
  /\ server = [on |-> server.on, home |-> server.home, ver |-> server.ver, changes |-> server.changes]
  /\ server.on \subseteq Items /\ server.home \in [Items -> Homes]
  /\ past = [missed |-> past.missed, moved |-> past.moved, unseen |-> past.unseen,
             frozen |-> past.frozen]
  /\ \A r \in archive : r.item \in Items
Missing == Running => Items \ server.on \subseteq past.missed
ItemsInv == ItemsTyped /\ Missing

(* What a row of the archive can be lost for.                              *)
Excused == past.missed \union past.unseen

(* The invariant of the items holds in an empty archive.                   *)
LEMMA ItemsAtFirst ==
  ASSUME RerunsInit
  PROVE  ItemsInv /\ archive = {} /\ ~Running
<1>1. PICK on \in {1..k : k \in 0..LastItem}, home \in [Items -> Homes] :
        server = [on |-> on, home |-> home, changes |-> 0,
                  ver |-> [i \in Items |-> IF i \in on THEN 1 ELSE 0]]
  BY DEF RerunsInit
<1>2. on \subseteq Items
  BY RerunsAssumption DEF Items
<1>3. archive = {} /\ ~Running /\ past = [missed |-> {}, moved |-> FALSE, unseen |-> {}, frozen |-> {}]
  BY DEF RerunsInit, Running, Over
<1> QED
  BY <1>1, <1>2, <1>3 DEF ItemsInv, ItemsTyped, Missing

(* The changes of a server.                                                *)
LEMMA ServerKeepsItems ==
  ASSUME ItemsInv, NEW i \in Items, NEW h \in Homes, UNCHANGED archive, Running' = Running,
         NEW unseen, NEW frozen,
         Arrive(i, h) \/ Leave(i, unseen) \/ Alter(i, h, unseen, frozen)
  PROVE  /\ ItemsInv' /\ past.missed \subseteq past'.missed /\ past.unseen \subseteq past'.unseen
         /\ Arrive(i, h) \/ Leave(i, unseen) => (Running => i \in past'.missed)
         /\ Alter(i, h, unseen, frozen) => unseen \subseteq past'.unseen
         /\ \A j \in Items : j # i => (j \in server'.on <=> j \in server.on) /\ server'.home[j] = server.home[j]
         /\ server'.home[i] \in {h, server.home[i]}
<1>1. /\ server = [on |-> server.on, home |-> server.home, ver |-> server.ver, changes |-> server.changes]
      /\ server.on \subseteq Items /\ server.home \in [Items -> Homes]
      /\ past = [missed |-> past.missed, moved |-> past.moved, unseen |-> past.unseen, frozen |-> past.frozen]
      /\ \A r \in archive : r.item \in Items
      /\ Running => Items \ server.on \subseteq past.missed
  BY DEF ItemsInv, ItemsTyped, Missing
<1>2. [server.home EXCEPT ![i] = h] \in [Items -> Homes]
  BY <1>1
<1>3. CASE Arrive(i, h)
  <2>1. /\ server' = [on |-> server.on \union {i}, home |-> [server.home EXCEPT ![i] = h],
                      ver |-> [server.ver EXCEPT ![i] = server.changes + 2], changes |-> server.changes + 1]
        /\ past' = [past EXCEPT !.moved = TRUE] /\ i \notin server.on
    BY <1>3 DEF Arrive, Renewed
  <2>2. past' = [missed |-> past.missed, moved |-> TRUE, unseen |-> past.unseen, frozen |-> past.frozen]
    BY <1>1, <2>1
  <2>3. ~Alter(i, h, unseen, frozen)
    BY <2>1 DEF Alter
  <2> QED
    BY <1>1, <1>2, <2>1, <2>2, <2>3 DEF ItemsInv, ItemsTyped, Missing
<1>4. CASE Leave(i, unseen)
  <2>1. /\ server' = [on |-> server.on \ {i}, home |-> server.home, ver |-> server.ver,
                      changes |-> server.changes + 1]
        /\ past' = [missed |-> past.missed \union {i}, moved |-> TRUE, unseen |-> past.unseen \union unseen,
                    frozen |-> past.frozen] /\ i \in server.on
    BY <1>1, <1>4 DEF Leave
  <2> QED
    BY <1>1, <1>2, <2>1 DEF ItemsInv, ItemsTyped, Missing
<1>5. CASE Alter(i, h, unseen, frozen)
  <2>1. /\ server' = [on |-> server.on, home |-> [server.home EXCEPT ![i] = h],
                      ver |-> [server.ver EXCEPT ![i] = server.changes + 2], changes |-> server.changes + 1]
        /\ past' = [missed |-> past.missed, moved |-> TRUE, unseen |-> past.unseen \union unseen,
                    frozen |-> past.frozen \union frozen] /\ i \in server.on
    BY <1>1, <1>5 DEF Alter, Renewed
  <2>2. ItemsInv'
    BY <1>1, <1>2, <2>1 DEF ItemsInv, ItemsTyped, Missing
  <2>3. server'.home[i] = h /\ \A j \in Items : j # i => server'.home[j] = server.home[j]
    BY <1>1, <2>1
  <2>4. ~Leave(i, unseen) /\ ~Arrive(i, h)
    <3>1. ~Arrive(i, h)
      BY <2>1 DEF Arrive
    <3>2. ASSUME Leave(i, unseen)
          PROVE  FALSE
      <4>1. server' = [on |-> server.on \ {i}, home |-> server.home, ver |-> server.ver,
                       changes |-> server.changes + 1]
        BY <1>1, <3>2 DEF Leave
      <4>2. server'.on = server.on \ {i} /\ server'.on = server.on /\ i \in server.on
        BY <2>1, <4>1
      <4> QED
        BY <4>2
    <3> QED
      BY <3>1, <3>2
  <2> QED
    BY <2>1, <2>2, <2>3, <2>4
<1> QED
  BY <1>3, <1>4, <1>5

(* A run begins: what the server lacks now is written down.                *)
LEMMA BeginKeepsItems ==
  ASSUME ItemsInv, NEW first, Begin(first)
  PROVE  ItemsInv' /\ archive' = archive /\ run' = first /\ server' = server
<1>1. past' = [past EXCEPT !.missed = Items \ server.on, !.moved = FALSE, !.unseen = {}]
      /\ UNCHANGED <<server, archive>> /\ run' = first
  BY DEF Begin
<1> QED
  BY <1>1 DEF ItemsInv, ItemsTyped, Missing

-----------------------------------------------------------------------------
(* The messages of a Maildir: a message stays in its folder, and what a    *)
(* scan may not have seen is written down.                                 *)

MaildirTyped ==
  Running =>
    /\ run = [pc |-> run.pc, at |-> run.at, old |-> run.old, touched |-> run.touched,
              listed |-> run.listed, failed |-> run.failed]
    /\ run.pc \in {"scan", "apply"} /\ run.at \in Homes
AtHome == \A r \in archive : r.home = server.home[r.item]
Touched == Running => run.touched \subseteq Excused
Scanned ==
  run.pc = "apply" => ItemsOf(InHome(archive, run.at)) \subseteq ItemsOf(run.listed) \union Excused
MaildirInv == IsMaildir /\ ItemsInv /\ MaildirTyped /\ AtHome /\ Touched /\ Scanned

KeptItems == ItemsOf(archive) \ ItemsOf(archive') \subseteq Excused

(* The next folder, or the end.                                            *)
LEMMA NextMaildirBegins ==
  ASSUME NEW failed, run' = NextMaildir(failed), run.at \in Homes
  PROVE  MaildirTyped' /\ Touched' /\ Scanned'
<1>1. LastHome \in Nat \ {0}
  BY RerunsAssumption
<1>2. CASE run' = Over(failed)
  BY <1>2 DEF Over, MaildirTyped, Touched, Scanned, Running
<1>3. CASE run.at # LastHome /\ run' = Maildir(run.at + 1, failed)
  <2>1. run.at + 1 \in Homes
    BY <1>1, <1>3 DEF Homes
  <2> QED
    BY <1>3, <2>1 DEF Maildir, MaildirTyped, Touched, Scanned, Running
<1> QED
  BY <1>2, <1>3 DEF NextMaildir

(* A mail program changes something: a scan under way is touched by it.    *)
LEMMA MailProgramKeeps ==
  ASSUME MaildirInv, NEW i \in Items, MaildirArrive(i) \/ MaildirLeave(i) \/ MaildirAlter(i)
  PROVE  MaildirInv' /\ KeptItems
<1>1. UNCHANGED <<part, archive>> /\ IsMaildir /\ server.home[i] \in Homes
  BY DEF MaildirArrive, MaildirLeave, MaildirAlter, Changes, MaildirInv, ItemsInv, ItemsTyped
<1> DEFINE unseen == IF Scanning(server.home[i]) THEN {i} ELSE {}
<1>2. PICK n :
        /\ Touch(i, n)
        /\ \/ Arrive(i, server.home[i]) \/ Leave(i, {})
           \/ Alter(i, server.home[i], unseen, {})
  BY DEF MaildirArrive, MaildirLeave, MaildirAlter
<1> HIDE DEF unseen
<1>3. /\ Running' = Running
      /\ \/ run' = run
         \/ /\ Running /\ run.pc = "scan" /\ Scanning(server.home[i])
            /\ run' = [pc |-> "scan", at |-> run.at, old |-> run.old \union n,
                       touched |-> run.touched \union {i}, listed |-> run.listed, failed |-> run.failed]
  <2>1. CASE Scanning(server.home[i])
    BY <1>2, <2>1 DEF Touch, Scanning, Running, MaildirInv, MaildirTyped
  <2>2. CASE ~Scanning(server.home[i])
    BY <1>2, <2>2 DEF Touch, Running
  <2> QED
    BY <2>1, <2>2
<1>4. /\ ItemsInv' /\ past.missed \subseteq past'.missed /\ past.unseen \subseteq past'.unseen
      /\ (Running => i \in past'.missed) \/ unseen \subseteq past'.unseen
      /\ \A j \in Items : server'.home[j] = server.home[j]
  <2>1. CASE Arrive(i, server.home[i]) \/ Leave(i, {})
    BY <1>1, <1>3, <2>1, ServerKeepsItems DEF MaildirInv
  <2>2. CASE Alter(i, server.home[i], unseen, {})
    BY <1>1, <1>3, <2>2, ServerKeepsItems DEF MaildirInv
  <2> QED
    BY <1>2, <2>1, <2>2
<1>5. Scanning(server.home[i]) => i \in Excused'
  BY <1>4 DEF Excused, Scanning, unseen
<1>6. Excused \subseteq Excused'
  BY <1>4 DEF Excused
<1>7. AtHome'
  BY <1>1, <1>4 DEF MaildirInv, AtHome, ItemsInv, ItemsTyped
<1>8. MaildirTyped' /\ Touched'
  BY <1>3, <1>5, <1>6 DEF MaildirInv, MaildirTyped, Touched, Running
<1>9. Scanned'
  BY <1>1, <1>3, <1>6 DEF MaildirInv, MaildirTyped, Scanned, InHome, ItemsOf
<1> QED
  BY <1>1, <1>4, <1>7, <1>8, <1>9 DEF MaildirInv, KeptItems, IsMaildir, ItemsOf

(* A scan, in which nothing is overlooked or something is.                 *)
LEMMA ScanKeeps ==
  ASSUME MaildirInv, Scan \/ ScanOverlooks \/ DirectoryOverlooked
  PROVE  MaildirInv' /\ KeptItems
<1>1. /\ UNCHANGED <<part, server, archive>> /\ run.pc = "scan" /\ Running /\ IsMaildir
      /\ run = [pc |-> run.pc, at |-> run.at, old |-> run.old, touched |-> run.touched,
              listed |-> run.listed, failed |-> run.failed] /\ run.at \in Homes
  BY DEF Scan, ScanOverlooks, DirectoryOverlooked, Running, MaildirInv, MaildirTyped
<1>2. ItemsOf(InHome(archive, run.at)) \subseteq ItemsOf(Names(run.at)) \union past.missed
  <2> SUFFICES ASSUME NEW r \in archive, r.home = run.at, r.item \notin past.missed
               PROVE  r.item \in ItemsOf(Names(run.at))
    BY DEF ItemsOf, InHome
  <2>1. r.item \in server.on /\ server.home[r.item] = run.at
    BY <1>1 DEF MaildirInv, ItemsInv, ItemsTyped, Missing, AtHome
  <2>2. Name(r.item) \in Names(run.at) /\ Name(r.item).item = r.item
    BY <2>1 DEF Names, Name, There
  <2> QED
    BY <2>2 DEF ItemsOf
<1>4. ASSUME NEW listed, NEW b, NEW unseen,
             run' = [run EXCEPT !.pc = "apply", !.listed = listed, !.old = {}, !.touched = {}, !.failed = b],
             past' = [past EXCEPT !.unseen = @ \union unseen],
             ItemsOf(Names(run.at)) \subseteq ItemsOf(listed) \union past.unseen \union unseen \union past.missed
      PROVE  MaildirInv' /\ KeptItems
  <2>1. run' = [pc |-> "apply", at |-> run.at, old |-> {}, touched |-> {}, listed |-> listed, failed |-> b]
    BY <1>1, <1>4
  <2>2. past' = [missed |-> past.missed, moved |-> past.moved, unseen |-> past.unseen \union unseen,
                 frozen |-> past.frozen]
    BY <1>4 DEF MaildirInv, ItemsInv, ItemsTyped
  <2>3. ItemsInv' /\ AtHome'
    BY <1>1, <2>1, <2>2 DEF MaildirInv, ItemsInv, ItemsTyped, Missing, AtHome
  <2>4. MaildirTyped' /\ Touched'
    BY <1>1, <1>4, <2>1 DEF MaildirTyped, Touched
  <2>5. Scanned'
    BY <1>1, <1>2, <1>4, <2>1, <2>2 DEF Scanned, InHome, Excused
  <2> QED
    BY <1>1, <2>3, <2>4, <2>5 DEF MaildirInv, KeptItems, IsMaildir, ItemsOf
<1>5. CASE Scan
  <2> DEFINE there == {n \in Names(run.at) : n.item \notin run.touched}
  <2>1. PICK some : run' = [run EXCEPT !.pc = "apply", !.listed = there \union some, !.old = {}, !.touched = {}]
    BY <1>5 DEF Scan
  <2>2. run' = [run EXCEPT !.pc = "apply", !.listed = there \union some, !.old = {}, !.touched = {},
                           !.failed = run.failed]
    BY <1>1, <2>1
  <2>3. past' = past /\ past' = [past EXCEPT !.unseen = @ \union {}]
    BY <1>5 DEF Scan, MaildirInv, ItemsInv, ItemsTyped
  <2>4. ItemsOf(Names(run.at)) \subseteq ItemsOf(there \union some) \union past.unseen \union {} \union past.missed
    BY <1>1 DEF MaildirInv, Touched, Excused, ItemsOf
  <2> QED
    BY <1>4, <2>2, <2>3, <2>4
<1>6. CASE ScanOverlooks
  <2>1. PICK n \in Names(run.at) :
          /\ run' = [run EXCEPT !.pc = "apply", !.listed = Names(run.at) \ {n},
                                !.old = {}, !.touched = {}, !.failed = TRUE]
          /\ past' = [past EXCEPT !.unseen = @ \union {n.item} \union run.touched]
    BY <1>6 DEF ScanOverlooks
  <2>2. past' = [past EXCEPT !.unseen = @ \union ({n.item} \union run.touched)]
    BY <2>1 DEF MaildirInv, ItemsInv, ItemsTyped
  <2>3. ItemsOf(Names(run.at)) \subseteq ItemsOf(Names(run.at) \ {n}) \union past.unseen
                                          \union ({n.item} \union run.touched) \union past.missed
    BY DEF ItemsOf
  <2> QED
    BY <1>4, <2>1, <2>2, <2>3
<1>7. CASE DirectoryOverlooked
  <2>1. /\ run' = [run EXCEPT !.pc = "apply", !.listed = {}, !.old = {}, !.touched = {}]
        /\ past' = [past EXCEPT !.unseen = @ \union ItemsOf(Names(run.at))]
    BY <1>7 DEF DirectoryOverlooked
  <2>2. run' = [run EXCEPT !.pc = "apply", !.listed = {}, !.old = {}, !.touched = {}, !.failed = run.failed]
    BY <1>1, <2>1
  <2> QED
    BY <1>4, <2>1, <2>2
<1> QED
  BY <1>5, <1>6, <1>7

(* A row whose item is listed is not deleted.                              *)
LEMMA SeenAgain ==
  ASSUME NEW R, NEW listed, NEW r \in R, r.item \in ItemsOf(listed)
  PROVE  r.item \in ItemsOf(KnownStill(R, listed))
<1>1. PICK n \in listed : n.item = r.item
  BY DEF ItemsOf
<1> DEFINE q == [r EXCEPT !.ver = n.ver, !.tag = n.ver]
           pair == <<r, n>>
<1>2. pair \in {p \in R \X listed : p[1].item = p[2].item}
  BY <1>1
<1>3. q = [pair[1] EXCEPT !.ver = pair[2].ver, !.tag = pair[2].ver]
  OBVIOUS
<1> HIDE DEF pair, q
<1>4. q \in KnownStill(R, listed)
  BY <1>2, <1>3, Zenon DEF KnownStill
<1>5. q.item = r.item
  BY DEF q
<1> QED
  BY <1>4, <1>5 DEF ItemsOf

(* The rows of a folder become what was scanned.                           *)
LEMMA ApplyKeeps ==
  ASSUME MaildirInv, ApplyFolder
  PROVE  MaildirInv' /\ KeptItems
<1> DEFINE known == InHome(archive, run.at)
<1>1. /\ UNCHANGED <<part, server, past>> /\ run.pc = "apply" /\ Running /\ IsMaildir /\ run.at \in Homes
      /\ \E b : run' = NextMaildir(b)
  BY DEF ApplyFolder, Running, MaildirInv, MaildirTyped
<1>2. PICK added :
        /\ archive' = (archive \ known) \union KnownStill(known, run.listed) \union added
        /\ \A r \in added : r.item \in server.on /\ r.home = run.at /\ server.home[r.item] = run.at
  <2> DEFINE new == {n \in run.listed : n.item \notin ItemsOf(known)}
             readable == {n \in new : n \in Names(run.at)}
             added == {[item |-> n.item, home |-> run.at, ver |-> n.ver, tag |-> n.ver,
                        whole |-> TRUE] : n \in readable}
  <2>1. archive' = (archive \ known) \union KnownStill(known, run.listed) \union added
    BY DEF ApplyFolder, Unknown, Inserted
  <2>2. \A n \in readable : n.item \in server.on /\ server.home[n.item] = run.at
    BY DEF Names, Name, There
  <2>3. \A r \in added : r.item \in server.on /\ r.home = run.at /\ server.home[r.item] = run.at
    BY <2>2
  <2> QED
    BY <2>1, <2>3
<1>3. ASSUME NEW r \in KnownStill(known, run.listed)
      PROVE  \E q \in known : r.item = q.item /\ r.home = q.home
  <2>1. PICK p \in known \X run.listed : r = [p[1] EXCEPT !.ver = p[2].ver, !.tag = p[2].ver]
    BY DEF KnownStill
  <2>2. p[1] \in known /\ r.item = p[1].item /\ r.home = p[1].home
    BY <2>1
  <2> QED
    BY <2>2
<1>4. ItemsInv' /\ AtHome'
  BY <1>1, <1>2, <1>3 DEF MaildirInv, ItemsInv, ItemsTyped, Missing, AtHome, InHome, NextMaildir
<1>5. MaildirTyped' /\ Touched' /\ Scanned'
  BY <1>1, NextMaildirBegins
<1>6. KeptItems
  <2>1. ItemsOf(known) \subseteq ItemsOf(run.listed) \union Excused
    BY <1>1 DEF MaildirInv, Scanned
  <2>2. ASSUME NEW r \in known, r.item \in ItemsOf(run.listed)
        PROVE  r.item \in ItemsOf(KnownStill(known, run.listed))
    BY <2>2, SeenAgain
  <2> QED
    BY <1>2, <2>1, <2>2 DEF KeptItems, ItemsOf
<1> QED
  BY <1>1, <1>4, <1>5, <1>6 DEF MaildirInv, IsMaildir

(* A run begins, ends, or passes over a folder.                            *)
LEMMA OtherStepsKeep ==
  ASSUME MaildirInv, MaildirStart \/ ScanFails \/ MaildirCrash \/ UNCHANGED vars
  PROVE  MaildirInv' /\ KeptItems
<1>1. CASE MaildirStart
  <2>1. ItemsInv' /\ archive' = archive /\ run' = Maildir(1, FALSE) /\ server' = server /\ part' = part
    BY <1>1, BeginKeepsItems DEF MaildirStart, MaildirInv, Begin
  <2>2. 1 \in Homes
    BY RerunsAssumption DEF Homes
  <2> QED
    BY <2>1, <2>2 DEF MaildirInv, IsMaildir, Maildir, MaildirTyped, AtHome, Touched, Scanned, KeptItems, ItemsOf
<1>2. ASSUME UNCHANGED <<part, server, archive, past>>, MaildirTyped' /\ Touched' /\ Scanned',
             ~Running => ~Running'
      PROVE  MaildirInv' /\ KeptItems
  BY <1>2 DEF MaildirInv, IsMaildir, ItemsInv, ItemsTyped, Missing, AtHome, KeptItems, ItemsOf
<1>3. CASE ScanFails
  BY <1>2, <1>3, NextMaildirBegins DEF ScanFails, MaildirInv, MaildirTyped, Running
<1>4. CASE MaildirCrash
  BY <1>2, <1>4 DEF MaildirCrash, Crash, Over, MaildirTyped, Touched, Scanned, Running
<1>5. CASE UNCHANGED vars
  BY <1>2, <1>5 DEF vars, MaildirInv, MaildirTyped, Touched, Scanned, Excused, Running
<1> QED
  BY <1>1, <1>3, <1>4, <1>5

LEMMA MaildirAtFirst == MaildirInit => MaildirInv
BY ItemsAtFirst DEF MaildirInit, MaildirInv, IsMaildir, MaildirTyped, AtHome, Touched, Scanned, RerunsInit,
  Over, Running

LEMMA MaildirSteps ==
  ASSUME MaildirInv, [MaildirNext]_vars
  PROVE  MaildirInv' /\ KeptItems
<1>1. CASE \E i \in Items : MaildirArrive(i) \/ MaildirLeave(i) \/ MaildirAlter(i)
  BY <1>1, MailProgramKeeps
<1>2. CASE Scan \/ ScanOverlooks \/ DirectoryOverlooked
  BY <1>2, ScanKeeps
<1>3. CASE ApplyFolder
  BY <1>3, ApplyKeeps
<1>4. CASE MaildirStart \/ ScanFails \/ MaildirCrash \/ UNCHANGED vars
  BY <1>4, OtherStepsKeep
<1> QED
  BY <1>1, <1>2, <1>3, <1>4 DEF MaildirNext, MaildirRun

(* Whatever the mail programs do meanwhile, and wherever a run is stopped, *)
(* no message that was there all the time loses its row, unless it could   *)
(* not be read or changed its name while its folder was being scanned.     *)
THEOREM MaildirKeeps == MaildirSpec => KeptWhileThere
<1>1. KeptItems => [ItemsOf(archive) \ ItemsOf(archive') \subseteq past.missed \union past.unseen]_vars
  BY DEF KeptItems, Excused
<1> QED
  BY <1>1, MaildirAtFirst, MaildirSteps, PTL DEF MaildirSpec, KeptWhileThere

-----------------------------------------------------------------------------
(* The items of Graph: what no listing has named yet is still to be listed,*)
(* or there is an excuse for it, unless a folder could not be listed.      *)

GraphRecord(r) ==
  DOMAIN r = {"pc", "at", "known", "listed", "planned", "todo", "got", "draft", "pending", "blind", "failed"}
GraphRunOK(r, home, excused) ==
  /\ GraphRecord(r)
  /\ r.pc \in {"list", "fetch", "store", "sweep"} /\ r.at \in Homes /\ r.known \subseteq Items
  /\ \A q \in r.draft \union r.got \union r.todo : q.item \in Items
  /\ ~r.blind =>
       \A i \in Items : \/ i \in r.listed \union excused
                        \/ home[i] > r.at \/ (home[i] = r.at /\ r.pc = "list")
  /\ r.pc = "sweep" => r.at = LastHome
GraphInv == IsGraph /\ ItemsInv /\ (Running => GraphRunOK(run, server.home, Excused))

(* The next folder is listed, or the rows that vanished go, or that is all.*)
LEMMA NextListOK ==
  ASSUME NEW r, NEW home \in [Items -> Homes], NEW excused, GraphRunOK(r, home, excused),
         r.pc \in {"fetch", "store"} \/ (r.pc = "list" /\ r.blind)
  PROVE  NextList(r) = Over(r.failed) \/ GraphRunOK(NextList(r), home, excused)
<1>1. LastHome \in Nat \ {0} /\ Homes = 1..LastHome
  BY RerunsAssumption DEF Homes
<1>2. r.at \in Homes /\ \A i \in Items : home[i] \in Homes
  BY DEF GraphRunOK
<1>3. CASE r.at < LastHome
  <2> DEFINE q == NextList(r)
  <2>0. q = [r EXCEPT !.pc = "list", !.at = @ + 1] /\ GraphRecord(r)
    BY <1>3 DEF NextList, GraphRunOK
  <2> HIDE DEF q
  <2>1. /\ GraphRecord(q) /\ q.pc = "list" /\ q.at = r.at + 1 /\ q.known = r.known /\ q.listed = r.listed
        /\ q.todo = r.todo /\ q.got = r.got /\ q.draft = r.draft /\ q.blind = r.blind
    BY <2>0 DEF GraphRecord
  <2>2. r.at + 1 \in Homes
    BY <1>1, <1>2, <1>3
  <2>3. ~r.blind => \A i \in Items : i \in r.listed \union excused \/ home[i] >= r.at + 1
    BY <1>1, <1>2 DEF GraphRunOK
  <2>4. ~r.blind => \A i \in Items : i \in r.listed \union excused \/ home[i] > r.at + 1 \/ home[i] = r.at + 1
    BY <1>1, <1>2, <2>3
  <2> QED
    BY <2>1, <2>2, <2>4 DEF GraphRunOK, q
<1>4. CASE ~(r.at < LastHome) /\ VanishedIds(r) # {}
  <2> DEFINE q == NextList(r)
  <2>0. q = [r EXCEPT !.pc = "sweep"] /\ GraphRecord(r)
    BY <1>4 DEF NextList, GraphRunOK
  <2> HIDE DEF q
  <2>1. /\ GraphRecord(q) /\ q.pc = "sweep" /\ q.at = r.at /\ q.known = r.known /\ q.listed = r.listed
        /\ q.todo = r.todo /\ q.got = r.got /\ q.draft = r.draft /\ q.blind = r.blind
    BY <2>0 DEF GraphRecord
  <2>2. r.at = LastHome
    BY <1>1, <1>2, <1>4
  <2>3. ~r.blind => r.pc # "list"
    OBVIOUS
  <2> QED
    BY <2>1, <2>2, <2>3 DEF GraphRunOK, q
<1>5. CASE ~(r.at < LastHome) /\ VanishedIds(r) = {}
  BY <1>5 DEF NextList
<1> QED
  BY <1>3, <1>4, <1>5

(* A reply has been dealt with.                                            *)
LEMMA AfterReplyOK ==
  ASSUME NEW r, NEW home \in [Items -> Homes], NEW excused, GraphRunOK(r, home, excused),
         r.pc \in {"fetch", "store"}
  PROVE  AfterReply(r) = Over(r.failed) \/ GraphRunOK(AfterReply(r), home, excused)
<1>1. CASE r.todo # {}
  BY <1>1 DEF AfterReply
<1>2. CASE r.todo = {} /\ r.got # {}
  <2> DEFINE q == AfterReply(r)
  <2>0. q = [r EXCEPT !.pc = "store"] /\ GraphRecord(r)
    BY <1>2 DEF AfterReply, GraphRunOK
  <2> HIDE DEF q
  <2>1. /\ GraphRecord(q) /\ q.pc = "store" /\ q.at = r.at /\ q.known = r.known /\ q.listed = r.listed
        /\ q.todo = r.todo /\ q.got = r.got /\ q.draft = r.draft /\ q.blind = r.blind
    BY <2>0 DEF GraphRecord
  <2> QED
    BY <2>1 DEF GraphRunOK, q
<1>3. CASE r.todo = {} /\ r.got = {}
  BY <1>3, NextListOK DEF AfterReply
<1> QED
  BY <1>1, <1>2, <1>3

SameExcuses == past' = [past EXCEPT !.frozen = past'.frozen]

(* A step of the run, whose locals are sound.                              *)
LEMMA GraphStepOK ==
  ASSUME GraphInv, Running, UNCHANGED <<part, server>>,
         SameExcuses,
         \A q \in archive' : q.item \in Items,
         run' = Over(run'.failed) \/ GraphRunOK(run', server.home, Excused)
  PROVE  GraphInv'
<1>1. past'.missed = past.missed /\ past'.unseen = past.unseen /\ ItemsTyped'
  BY DEF SameExcuses, GraphInv, ItemsInv, ItemsTyped
<1>2. ItemsInv'
  BY <1>1 DEF GraphInv, ItemsInv, Missing
<1>3. Running' => GraphRunOK(run', server.home, Excused)
  BY DEF Running, Over
<1>4. Excused' = Excused /\ server'.home = server.home
  BY <1>1 DEF Excused
<1>5. Running' => GraphRunOK(run', server.home', Excused')
  BY <1>3, <1>4
<1> QED
  BY <1>2, <1>5 DEF GraphInv, IsGraph, GraphRunOK

(* The mailbox changes: what escapes the listings is written down.         *)
LEMMA MailboxKeepsGraph ==
  ASSUME GraphInv, NEW i \in Items, NEW h \in Homes,
         GraphArrive(i, h) \/ GraphLeave(i) \/ GraphAlter(i, h)
  PROVE  GraphInv' /\ KeptItems
<1>1. UNCHANGED <<part, archive, run>> /\ Running' = Running /\ server.home \in [Items -> Homes]
  BY DEF GraphArrive, GraphLeave, GraphAlter, Changing, Running, GraphInv, ItemsInv, ItemsTyped
<1>2. /\ ItemsInv' /\ past.missed \subseteq past'.missed /\ past.unseen \subseteq past'.unseen
      /\ \A j \in Items : j # i => server'.home[j] = server.home[j]
      /\ server'.home[i] \in {h, server.home[i]}
      /\ \/ Running => i \in past'.missed
         \/ Escapes(i, h) \subseteq past'.unseen
  <2>1. CASE GraphArrive(i, h) \/ GraphLeave(i)
    BY <1>1, <2>1, ServerKeepsItems DEF GraphArrive, GraphLeave, GraphInv
  <2>2. CASE GraphAlter(i, h)
    BY <1>1, <2>2, ServerKeepsItems DEF GraphAlter, GraphInv
  <2> QED
    BY <2>1, <2>2
<1>3. Excused \subseteq Excused'
  BY <1>2 DEF Excused
<1>4. ASSUME Running, ~run.blind, NEW j \in Items, j \notin run.listed \union Excused',
             ~NotListedYet(server'.home[j])
      PROVE  FALSE
  <2>1. NotListedYet(server.home[j])
    BY <1>3, <1>4 DEF GraphInv, GraphRunOK, NotListedYet
  <2>2. j = i /\ server'.home[i] = h
    BY <1>2, <1>4, <2>1
  <2>3. i \notin past'.missed /\ i \notin past'.unseen
    BY <1>4, <2>2 DEF Excused
  <2>4. i \in Escapes(i, h)
    BY <1>4, <2>1, <2>2 DEF Escapes
  <2> QED
    BY <1>2, <1>4, <2>3, <2>4
<1>5. Running => GraphRunOK(run, server'.home, Excused')
  BY <1>4 DEF GraphInv, GraphRunOK, NotListedYet
<1> QED
  BY <1>1, <1>2, <1>5 DEF GraphInv, IsGraph, KeptItems, ItemsOf

(* A folder is listed, or it cannot be.                                    *)
LEMMA ListKeepsGraph ==
  ASSUME GraphInv, List \/ ListFails
  PROVE  GraphInv' /\ KeptItems
<1>1. /\ UNCHANGED archive /\ UNCHANGED <<part, server>> /\ run.pc = "list" /\ Running /\ IsGraph
  BY DEF List, ListFails, Running, GraphInv
<1>2. /\ server.home \in [Items -> Homes] /\ server.on \subseteq Items /\ Items \ server.on \subseteq Excused
      /\ GraphRunOK(run, server.home, Excused) /\ GraphRecord(run) /\ \A q \in archive : q.item \in Items
  BY <1>1 DEF GraphInv, ItemsInv, ItemsTyped, Missing, Excused, GraphRunOK
<1>3. SameExcuses
  BY DEF SameExcuses, List, ListFails, GraphInv, ItemsInv, ItemsTyped
<1>4. KeptItems /\ \A q \in archive' : q.item \in Items
  BY <1>1, <1>2 DEF KeptItems, ItemsOf
<1>5. CASE List
  <2> DEFINE new == There(run.at) \ (run.known \union run.planned)
             asked == {[item |-> i, ver |-> server.ver[i]] : i \in new}
             next == [run EXCEPT !.pc = "fetch", !.listed = @ \union There(run.at),
                                 !.planned = @ \union new, !.todo = asked]
  <2>0. run' = AfterReply(next)
    BY <1>5 DEF List
  <2>a. \A q \in asked : q.item \in There(run.at)
    OBVIOUS
  <2>b. \E planned, todo : next = [run EXCEPT !.pc = "fetch", !.listed = @ \union There(run.at),
                                              !.planned = planned, !.todo = todo]
                           /\ todo = asked
    <3> DEFINE planned == run.planned \union new
    <3>1. next = [run EXCEPT !.pc = "fetch", !.listed = @ \union There(run.at),
                             !.planned = planned, !.todo = asked]
      OBVIOUS
    <3> HIDE DEF next, planned, asked
    <3> QED
      BY <3>1, Zenon
  <2> HIDE DEF next, asked, new
  <2>1. PICK planned, todo, r :
          /\ r = [run EXCEPT !.pc = "fetch", !.listed = @ \union There(run.at), !.planned = planned, !.todo = todo]
          /\ run' = AfterReply(r) /\ \A q \in todo : q.item \in There(run.at)
    BY <2>0, <2>a, <2>b, Zenon
  <2>2. /\ GraphRecord(r) /\ r.pc = "fetch" /\ r.at = run.at /\ r.known = run.known
        /\ r.listed = run.listed \union There(run.at) /\ r.todo = todo /\ r.got = run.got
        /\ r.draft = run.draft /\ r.blind = run.blind
    BY <1>2, <2>1 DEF GraphRecord
  <2>3. There(run.at) \subseteq Items
        /\ \A i \in Items : server.home[i] = run.at => i \in There(run.at) \union Excused
    BY <1>2 DEF There
  <2>4. GraphRunOK(r, server.home, Excused)
    BY <1>2, <2>1, <2>2, <2>3 DEF GraphRunOK
  <2>5. run' = Over(r.failed) \/ GraphRunOK(run', server.home, Excused)
    BY <1>2, <2>1, <2>2, <2>4, AfterReplyOK
  <2>6. run' = Over(run'.failed) \/ GraphRunOK(run', server.home, Excused)
    BY <2>5 DEF Over
  <2> QED
    BY <1>1, <1>3, <1>4, <2>6, GraphStepOK
<1>6. CASE ListFails
  <2>1. PICK r : r = [run EXCEPT !.blind = TRUE, !.failed = TRUE] /\ run' = NextList(r)
    BY <1>6 DEF ListFails
  <2>2. /\ GraphRecord(r) /\ r.pc = "list" /\ r.at = run.at /\ r.known = run.known
        /\ r.listed = run.listed /\ r.todo = run.todo /\ r.got = run.got
        /\ r.draft = run.draft /\ r.blind
    BY <1>1, <1>2, <2>1 DEF GraphRecord
  <2>3. GraphRunOK(r, server.home, Excused)
    BY <1>2, <2>2 DEF GraphRunOK
  <2>4. run' = Over(r.failed) \/ GraphRunOK(run', server.home, Excused)
    BY <1>2, <2>1, <2>2, <2>3, NextListOK
  <2>5. run' = Over(run'.failed) \/ GraphRunOK(run', server.home, Excused)
    BY <2>4 DEF Over
  <2> QED
    BY <1>1, <1>3, <1>4, <2>5, GraphStepOK
<1> QED
  BY <1>5, <1>6

(* A reply is dealt with, or a part of what was received is written.       *)
Follows(r, rows) ==
  /\ GraphRecord(r) /\ r.pc = run.pc /\ r.at = run.at /\ r.known = run.known
  /\ r.listed = run.listed /\ r.blind = run.blind /\ r.todo \subseteq run.todo
  /\ r.got \subseteq run.got \union rows /\ r.draft \subseteq run.draft \union rows
  /\ \A q \in rows : q.item \in Items

(* A page of a Graph collection is stored, or the next one is fetched.     *)
LEMMA ReplyKeepsGraph ==
  ASSUME GraphInv, Running, UNCHANGED <<part, server>>, SameExcuses,
         NEW r, NEW rows, Follows(r, rows), run' = AfterReply(r), r.pc \in {"fetch", "store"},
         archive \subseteq archive', archive' \subseteq archive \union run.draft \union run.got \union rows
  PROVE  GraphInv' /\ KeptItems
<1>1. GraphRunOK(run, server.home, Excused) /\ server.home \in [Items -> Homes]
      /\ \A q \in archive : q.item \in Items
  BY DEF GraphInv, ItemsInv, ItemsTyped
<1>2. GraphRunOK(r, server.home, Excused)
  BY <1>1 DEF GraphRunOK, Follows
<1>3. run' = Over(r.failed) \/ GraphRunOK(run', server.home, Excused)
  BY <1>1, <1>2, AfterReplyOK
<1>4. run' = Over(run'.failed) \/ GraphRunOK(run', server.home, Excused)
  BY <1>3 DEF Over
<1>5. \A q \in archive' : q.item \in Items
  BY <1>1 DEF GraphRunOK, Follows
<1>6. KeptItems
  BY DEF KeptItems, ItemsOf
<1> QED
  BY <1>4, <1>5, <1>6, GraphStepOK


(* The reply to the GET of an item.                                        *)
LEMMA AskedKeepsGraph ==
  ASSUME GraphInv, NEW t \in Asked,
         FetchMime(t) \/ FetchJson(t, TRUE) \/ FetchJson(t, FALSE) \/ FetchVanished(t) \/ FetchFails(t)
  PROVE  GraphInv' /\ KeptItems
<1>1. /\ Running /\ run.pc = "fetch" /\ t \in run.todo /\ UNCHANGED <<part, server>> /\ SameExcuses
      /\ GraphRecord(run) /\ t.item \in Items
  <2>1. Running /\ t \in run.todo /\ GraphRunOK(run, server.home, Excused)
    BY DEF Asked, GraphInv
  <2>2. SameExcuses
    BY DEF SameExcuses, GraphInv, ItemsInv, ItemsTyped, FetchMime, FetchJson, FetchVanished, FetchFails
  <2>3. run.pc = "fetch" /\ UNCHANGED <<part, server>>
    BY DEF FetchMime, FetchJson, FetchVanished, FetchFails
  <2> QED
    BY <2>1, <2>2, <2>3 DEF GraphRunOK
<1>2. ASSUME NEW rows, NEW n, NEW failed, NEW R, R \subseteq run.draft \union rows,
             Received(t, R, n, failed), \A q \in rows : q.item \in Items
      PROVE  GraphInv' /\ KeptItems
  <2> DEFINE full == n = ChunkSize \/ run.todo = {t}
             pending == IF full THEN 0 ELSE n
             draft == IF full THEN {} ELSE R
             next == [run EXCEPT !.todo = @ \ {t}, !.pending = pending,
                                 !.draft = draft, !.failed = @ \/ failed]
  <2>1. run' = AfterReply(next) /\ archive' = IF full THEN archive \union R ELSE archive
    BY <1>2 DEF Received
  <2>2. draft \subseteq run.draft \union rows /\ archive \subseteq archive'
        /\ archive' \subseteq archive \union run.draft \union run.got \union rows
    BY <1>2, <2>1
  <2> HIDE DEF draft, pending, full
  <2>3. Follows(next, rows)
    <3>1. /\ GraphRecord(next) /\ next.pc = run.pc /\ next.at = run.at /\ next.known = run.known
          /\ next.listed = run.listed /\ next.blind = run.blind /\ next.todo = run.todo \ {t}
          /\ next.got = run.got /\ next.draft = draft
      BY <1>1 DEF GraphRecord
    <3> QED
      BY <1>2, <2>2, <3>1 DEF Follows
  <2>4. next.pc = "fetch"
    BY <1>1, <2>3 DEF Follows
  <2> HIDE DEF next
  <2> QED
    BY <1>1, <2>1, <2>2, <2>3, <2>4, ReplyKeepsGraph
<1>3. CASE FetchMime(t)
  <2> DEFINE row == RowFor(t, t.ver, TRUE)
  <2>1. Received(t, run.draft \union {row}, run.pending + 1, FALSE)
    BY <1>3 DEF FetchMime
  <2>2. row.item = t.item
    BY DEF RowFor
  <2> HIDE DEF row
  <2>3. \A q \in {row} : q.item \in Items
    BY <1>1, <2>2
  <2> QED
    BY <1>2, <2>1, <2>3
<1>4. CASE FetchVanished(t)
  <2>1. Received(t, run.draft, run.pending, FALSE)
    BY <1>4 DEF FetchVanished
  <2>2. run.draft \subseteq run.draft \union run.draft /\ \A q \in run.draft : q.item \in Items
    BY <1>1 DEF GraphInv, GraphRunOK
  <2> QED
    BY <1>2, <2>1, <2>2
<1>5. CASE FetchFails(t)
  <2>1. Received(t, run.draft, run.pending, TRUE)
    BY <1>5 DEF FetchFails
  <2>2. run.draft \subseteq run.draft \union run.draft /\ \A q \in run.draft : q.item \in Items
    BY <1>1 DEF GraphInv, GraphRunOK
  <2> QED
    BY <1>2, <2>1, <2>2
<1>6. ASSUME NEW whole, FetchJson(t, whole)
      PROVE  GraphInv' /\ KeptItems
  <2> DEFINE row == RowFor(t, server.ver[t.item], whole)
             next == [run EXCEPT !.todo = @ \ {t}, !.got = @ \union {row}]
  <2>1. run' = AfterReply(next) /\ archive' = archive
    BY <1>6 DEF FetchJson
  <2>2. row.item = t.item
    BY DEF RowFor
  <2> HIDE DEF row
  <2>3. Follows(next, {row})
    <3>1. /\ GraphRecord(next) /\ next.pc = run.pc /\ next.at = run.at /\ next.known = run.known
          /\ next.listed = run.listed /\ next.blind = run.blind /\ next.todo = run.todo \ {t}
          /\ next.got = run.got \union {row} /\ next.draft = run.draft
      BY <1>1 DEF GraphRecord
    <3> QED
      BY <1>1, <2>2, <3>1 DEF Follows
  <2>4. next.pc = "fetch" /\ archive \subseteq archive'
        /\ archive' \subseteq archive \union run.draft \union run.got \union {row}
    BY <1>1, <2>1, <2>3 DEF Follows
  <2> HIDE DEF next
  <2> QED
    BY <1>1, <2>1, <2>3, <2>4, ReplyKeepsGraph
<1> QED
  BY <1>3, <1>4, <1>5, <1>6

(* The rows that were received are written.                                *)
LEMMA StoreKeepsGraph ==
  ASSUME GraphInv, StoreChunk
  PROVE  GraphInv' /\ KeptItems
<1>1. PICK chunk \in SUBSET run.got :
        archive' = archive \union chunk /\ run' = AfterReply([run EXCEPT !.got = @ \ chunk])
  BY DEF StoreChunk
<1>2. /\ Running /\ run.pc = "store" /\ UNCHANGED <<part, server>> /\ SameExcuses /\ GraphRecord(run)
  <2>1. Running /\ run.pc = "store" /\ UNCHANGED <<part, server>> /\ past' = past
    BY DEF StoreChunk, Running
  <2> QED
    BY <2>1 DEF SameExcuses, GraphInv, ItemsInv, ItemsTyped, GraphRunOK
<1> DEFINE next == [run EXCEPT !.got = @ \ chunk]
<1>3. Follows(next, {})
  <2>1. /\ GraphRecord(next) /\ next.pc = run.pc /\ next.at = run.at /\ next.known = run.known
        /\ next.listed = run.listed /\ next.blind = run.blind /\ next.todo = run.todo
        /\ next.got = run.got \ chunk /\ next.draft = run.draft
    BY <1>2 DEF GraphRecord
  <2> QED
    BY <2>1 DEF Follows
<1>4. next.pc = "store" /\ archive \subseteq archive'
      /\ archive' \subseteq archive \union run.draft \union run.got \union {}
  BY <1>1, <1>2, <1>3 DEF Follows
<1>5. run' = AfterReply(next)
  BY <1>1
<1> HIDE DEF next
<1> QED
  BY <1>2, <1>3, <1>4, <1>5, ReplyKeepsGraph

(* The rows that vanished are deleted: they were in no folder.             *)
LEMMA DeleteKeepsGraph ==
  ASSUME GraphInv, DeleteVanished \/ \E i \in Items : DeleteFails(i)
  PROVE  GraphInv' /\ KeptItems
<1>1. Running /\ run.pc = "sweep" /\ UNCHANGED <<part, server>> /\ past' = past /\ \E stay : Delete(stay)
  BY DEF DeleteVanished, DeleteFails, Running
<1>2. SameExcuses
  BY <1>1 DEF SameExcuses, GraphInv, ItemsInv, ItemsTyped
<1>3. GraphRunOK(run, server.home, Excused) /\ server.home \in [Items -> Homes]
      /\ \A q \in archive : q.item \in Items
  BY <1>1 DEF GraphInv, ItemsInv, ItemsTyped
<1>4. PICK stay, chunk \in SUBSET VanishedIds(run) :
        /\ archive' = Without(archive, chunk \ stay)
        /\ LET r == [run EXCEPT !.known = @ \ chunk, !.failed = @ \/ stay # {}]
           IN run' = IF VanishedIds(r) = {} THEN Over(r.failed) ELSE r
  BY <1>1 DEF Delete
<1>5. VanishedIds(run) \subseteq Excused
  <2>1. run.at = LastHome /\ run.known \subseteq Items
    BY <1>1, <1>3 DEF GraphRunOK
  <2>2. \A i \in Items : ~(server.home[i] > LastHome)
    BY <1>3, RerunsAssumption DEF Homes
  <2> QED
    BY <1>1, <1>3, <2>1, <2>2 DEF GraphRunOK, VanishedIds
<1>6. KeptItems /\ \A q \in archive' : q.item \in Items
  <2>1. archive' \subseteq archive /\ \A q \in archive \ archive' : q.item \in chunk
    BY <1>4 DEF Without
  <2> QED
    BY <1>3, <1>5, <2>1 DEF KeptItems, ItemsOf
<1> DEFINE failed == run.failed \/ stay # {}
           next == [run EXCEPT !.known = @ \ chunk, !.failed = failed]
<1>7. run' = IF VanishedIds(next) = {} THEN Over(next.failed) ELSE next
  BY <1>4
<1> HIDE DEF failed
<1>8. GraphRunOK(next, server.home, Excused)
  <2>1. /\ GraphRecord(next) /\ next.pc = run.pc /\ next.at = run.at /\ next.known = run.known \ chunk
        /\ next.listed = run.listed /\ next.blind = run.blind /\ next.todo = run.todo
        /\ next.got = run.got /\ next.draft = run.draft
    BY <1>3 DEF GraphRunOK, GraphRecord
  <2> QED
    BY <1>3, <2>1 DEF GraphRunOK
<1> HIDE DEF next
<1>9. run' = Over(run'.failed) \/ GraphRunOK(run', server.home, Excused)
  BY <1>7, <1>8 DEF Over
<1> QED
  BY <1>1, <1>2, <1>6, <1>9, GraphStepOK

(* A run begins, or ends.                                                  *)
LEMMA GraphBegins ==
  ASSUME GraphInv, GraphStart \/ GraphCrash \/ UNCHANGED vars
  PROVE  GraphInv' /\ KeptItems
<1>1. CASE GraphStart
  <2> DEFINE first == [pc |-> "list", at |-> 1, known |-> ItemsOf(archive), listed |-> {},
                       planned |-> {}, todo |-> {}, got |-> {}, draft |-> {}, pending |-> 0,
                       blind |-> FALSE, failed |-> FALSE]
  <2>1. Begin(first) /\ part' = part
    BY <1>1 DEF GraphStart, Begin
  <2>2. /\ GraphRecord(first) /\ first.pc = "list" /\ first.at = 1 /\ first.known = ItemsOf(archive)
        /\ first.todo = {} /\ first.got = {} /\ first.draft = {} /\ first.blind = FALSE
    BY DEF GraphRecord
  <2> HIDE DEF first
  <2>3. ItemsInv' /\ archive' = archive /\ run' = first /\ server' = server
    BY <2>1, BeginKeepsItems DEF GraphInv
  <2>4. 1 \in Homes /\ ItemsOf(archive) \subseteq Items
    BY RerunsAssumption DEF Homes, GraphInv, ItemsInv, ItemsTyped, ItemsOf
  <2>5. \A i \in Items : server.home[i] > 1 \/ server.home[i] = 1
    BY RerunsAssumption DEF GraphInv, ItemsInv, ItemsTyped, Homes
  <2>6. GraphRunOK(first, server.home', Excused')
    BY <2>2, <2>3, <2>4, <2>5 DEF GraphRunOK
  <2> QED
    BY <2>1, <2>3, <2>6 DEF GraphInv, IsGraph, GraphRunOK, KeptItems, ItemsOf
<1>2. CASE GraphCrash
  <2>1. UNCHANGED <<part, server, archive, past>> /\ run' = Over(TRUE) /\ Running
    BY <1>2 DEF GraphCrash, Crash
  <2>2. ~Running'
    BY <2>1 DEF Running, Over
  <2> QED
    BY <2>1, <2>2 DEF GraphInv, IsGraph, ItemsInv, ItemsTyped, Missing, KeptItems, ItemsOf
<1>3. CASE UNCHANGED vars
  BY <1>3 DEF vars, GraphInv, IsGraph, ItemsInv, ItemsTyped, Missing, KeptItems, ItemsOf, Excused, Running, GraphRunOK,
    GraphRecord
<1> QED
  BY <1>1, <1>2, <1>3

LEMMA GraphAtFirst == GraphInit => GraphInv
BY ItemsAtFirst DEF GraphInit, GraphInv, IsGraph

LEMMA GraphSteps == GraphInv /\ [GraphNext]_vars => GraphInv' /\ KeptItems
<1> SUFFICES ASSUME GraphInv, [GraphNext]_vars
             PROVE  GraphInv' /\ KeptItems
  OBVIOUS
<1>1. CASE \E i \in Items, h \in Homes : GraphArrive(i, h) \/ GraphAlter(i, h)
  BY <1>1, MailboxKeepsGraph
<1>2. CASE \E i \in Items : GraphLeave(i)
  <2>1. 1 \in Homes
    BY RerunsAssumption DEF Homes
  <2> QED
    BY <1>2, <2>1, MailboxKeepsGraph
<1>3. CASE DeleteVanished \/ \E i \in Items : DeleteFails(i)
  BY <1>3, DeleteKeepsGraph
<1>4. CASE List \/ ListFails
  BY <1>4, ListKeepsGraph
<1>5. CASE StoreChunk
  BY <1>5, StoreKeepsGraph
<1>6. CASE \E t \in Asked : \/ FetchMime(t) \/ FetchJson(t, TRUE) \/ FetchJson(t, FALSE)
                            \/ FetchVanished(t) \/ FetchFails(t)
  BY <1>6, AskedKeepsGraph
<1>7. CASE GraphStart \/ GraphCrash \/ UNCHANGED vars
  BY <1>7, GraphBegins
<1> QED
  BY <1>1, <1>2, <1>3, <1>4, <1>5, <1>6, <1>7 DEF GraphNext, GraphRun

(* Whatever the mailbox does meanwhile, and wherever a run is stopped, no  *)
(* item that is there all the time loses its row, unless it moved behind   *)
(* the listings of the run.                                                *)
THEOREM GraphKeeps == GraphSpec => KeptWhileThere
<1>1. GraphInit => GraphInv
  BY GraphAtFirst
<1>2. GraphInv /\ [GraphNext]_vars => GraphInv' /\ KeptItems
  BY GraphSteps
<1>3. KeptItems => [ItemsOf(archive) \ ItemsOf(archive') \subseteq past.missed \union past.unseen]_vars
  BY DEF KeptItems, Excused
<1> QED
  BY <1>1, <1>2, <1>3, PTL DEF GraphSpec, KeptWhileThere

-----------------------------------------------------------------------------
(* The items of DAV collections: an item stays in its collection, and the  *)
(* transaction that goes on over the replies has all that the archive has. *)

HomeHere(q, home) == q.item \in Items /\ q.home = home[q.item]
EntryOf(e, r, home) ==
  e = [item |-> e.item, tag |-> e.tag] /\ e.item \in Items /\ home[e.item] = r.at
DavRecord(r) ==
  DOMAIN r = {"pc", "at", "jobs", "singles", "draft", "pending", "vanished", "failed"}
DavRunOK(r, home, R, excused) ==
  /\ DavRecord(r) /\ r.at \in Homes
  /\ \A job \in r.jobs : \A e \in job : EntryOf(e, r, home)
  /\ \A e \in r.singles : EntryOf(e, r, home)
  /\ \A q \in r.draft : HomeHere(q, home)
  /\ r.pending # 0 => ItemsOf(R) \subseteq ItemsOf(r.draft)
  /\ r.pc \in {"propfind", "multiget"} => r.pending = 0
  /\ r.vanished \subseteq excused
RowsHome == \A q \in archive : HomeHere(q, server.home)
DavInv ==
  /\ IsDav /\ ItemsInv /\ RowsHome
  /\ Running => DavRunOK(run, server.home, archive, Excused)

(* The next collection, or the end.                                        *)
LEMMA CollectionOK ==
  ASSUME NEW h \in Homes, NEW failed, NEW home, NEW R, NEW excused
  PROVE  DavRunOK(Collection(h, failed), home, R, excused)
<1> DEFINE q == Collection(h, failed)
<1>1. /\ DavRecord(q) /\ q.pc = "propfind" /\ q.at = h /\ q.jobs = {} /\ q.singles = {}
      /\ q.draft = {} /\ q.pending = 0 /\ q.vanished = {}
  BY DEF Collection, DavRecord
<1> QED
  BY <1>1 DEF DavRunOK

(* The next collection of a CalDAV home starts with nothing read, or the   *)
(* run is over.                                                            *)
LEMMA NextCollectionOK ==
  ASSUME NEW r, NEW home, NEW R, NEW excused, r.at \in Homes
  PROVE  NextCollection(r) = Over(r.failed) \/ DavRunOK(NextCollection(r), home, R, excused)
<1>1. LastHome \in Nat \ {0} /\ Homes = 1..LastHome
  BY RerunsAssumption DEF Homes
<1>2. r.at # LastHome => r.at + 1 \in Homes
  BY <1>1
<1> QED
  BY <1>2, CollectionOK DEF NextCollection

(* The multigets, the GETs, the deletions, the next collection.            *)
LEMMA OnwardOK ==
  ASSUME NEW r, NEW home, NEW R, NEW excused, DavRunOK(r, home, R, excused)
  PROVE  Onward(r) = Over(r.failed) \/ DavRunOK(Onward(r), home, R, excused)
<1>1. ASSUME NEW pc \in {"get one", "delete"}, NEW q, q = [r EXCEPT !.pc = pc]
      PROVE  DavRunOK(q, home, R, excused)
  <2>1. DavRecord(r)
    BY DEF DavRunOK
  <2>2. /\ DavRecord(q) /\ q.pc = pc /\ q.at = r.at /\ q.jobs = r.jobs /\ q.singles = r.singles
        /\ q.draft = r.draft /\ q.pending = r.pending /\ q.vanished = r.vanished
    BY <1>1, <2>1 DEF DavRecord
  <2> QED
    BY <2>2 DEF DavRunOK, EntryOf
<1>2. CASE r.jobs # {}
  BY <1>2 DEF Onward
<1>3. CASE r.jobs = {} /\ r.singles # {}
  BY <1>1, <1>3 DEF Onward
<1>4. CASE r.jobs = {} /\ r.singles = {} /\ r.vanished # {}
  BY <1>1, <1>4 DEF Onward
<1>5. CASE r.jobs = {} /\ r.singles = {} /\ r.vanished = {}
  <2>1. r.at \in Homes /\ Onward(r) = NextCollection(r)
    BY <1>5 DEF Onward, DavRunOK
  <2> QED
    BY <2>1, NextCollectionOK
<1> QED
  BY <1>2, <1>3, <1>4, <1>5

(* What is written of some entries: the rows there were, and new ones.     *)
LEMMA Written ==
  ASSUME NEW R, NEW entries, ItemsInv, \A q \in R : HomeHere(q, server.home),
         \A e \in entries : EntryOf(e, run, server.home)
  PROVE  /\ \A q \in WriteAll(R, entries) : HomeHere(q, server.home)
         /\ ItemsOf(R) \subseteq ItemsOf(WriteAll(R, entries))
<1> DEFINE brought == Brought(entries, R)
<1>1. brought \subseteq entries
  BY DEF Brought
<1>2. WriteAll(R, entries) = Without(R, ItemsOf(brought)) \union {Found(e) : e \in brought}
  BY DEF WriteAll
<1> HIDE DEF brought
<1>3. \A e \in brought : Found(e).item = e.item /\ Found(e).home = run.at
  BY DEF Found
<1>4. \A q \in WriteAll(R, entries) : q \in R \/ \E e \in brought : q = Found(e)
  BY <1>2 DEF Without
<1>5. \A q \in WriteAll(R, entries) : HomeHere(q, server.home)
  BY <1>1, <1>3, <1>4 DEF HomeHere, EntryOf
<1>6. ASSUME NEW q \in R
      PROVE  \E w \in WriteAll(R, entries) : w.item = q.item
  <2>1. CASE \E e \in brought : e.item = q.item
    BY <1>2, <1>3, <2>1
  <2>2. CASE ~\E e \in brought : e.item = q.item
    BY <1>2, <2>2 DEF Without, ItemsOf
  <2> QED
    BY <2>1, <2>2
<1> QED
  BY <1>5, <1>6 DEF ItemsOf

(* A step of the run, whose locals are sound.                              *)
LEMMA DavStepOK ==
  ASSUME DavInv, Running, UNCHANGED <<part, server, past>>, RowsHome',
         ItemsOf(archive) \ ItemsOf(archive') \subseteq Excused,
         run' = Over(run'.failed) \/ DavRunOK(run', server.home, archive', Excused)
  PROVE  DavInv' /\ KeptItems
<1>1. ItemsInv'
  BY DEF DavInv, ItemsInv, ItemsTyped, Missing, RowsHome, HomeHere
<1>2. Running' => DavRunOK(run', server.home, archive', Excused)
  BY DEF Running, Over
<1>3. Excused' = Excused /\ server'.home = server.home
  BY DEF Excused
<1>4. Running' => DavRunOK(run', server'.home, archive', Excused')
  BY <1>2, <1>3
<1> QED
  BY <1>1, <1>4 DEF DavInv, IsDav, KeptItems, DavRunOK, DavRecord, EntryOf, HomeHere

(* The server changes: every item stays where it was.                      *)
LEMMA ServerKeepsDav ==
  ASSUME DavInv, NEW i \in Items, DavArrive(i) \/ DavLeave(i) \/ DavAlter(i)
  PROVE  DavInv' /\ KeptItems
<1>1. UNCHANGED <<part, archive, run>> /\ Running' = Running /\ server.home \in [Items -> Homes]
  BY DEF DavArrive, DavLeave, DavAlter, Changing, Running, DavInv, ItemsInv, ItemsTyped
<1>2. server.home[i] \in Homes
  BY <1>1
<1>3. /\ ItemsInv' /\ past.missed \subseteq past'.missed /\ past.unseen \subseteq past'.unseen
      /\ \A j \in Items : j # i => server'.home[j] = server.home[j]
      /\ server'.home[i] \in {server.home[i], server.home[i]}
  BY <1>1, <1>2, ServerKeepsItems DEF DavArrive, DavLeave, DavAlter, DavInv
<1>4. Excused \subseteq Excused' /\ \A j \in Items : server'.home[j] = server.home[j]
  BY <1>3 DEF Excused
<1>5. RowsHome'
  BY <1>1, <1>4 DEF DavInv, RowsHome, HomeHere
<1>6. Running => DavRunOK(run, server'.home, archive, Excused')
  BY <1>4 DEF DavInv, DavRunOK, EntryOf, HomeHere
<1> QED
  BY <1>1, <1>3, <1>5, <1>6 DEF DavInv, IsDav, KeptItems, ItemsOf

(* A collection is listed: what has a row and is not named is missing.     *)
LEMMA PropfindKeepsDav ==
  ASSUME DavInv, Propfind
  PROVE  DavInv' /\ KeptItems
<1>1. Running /\ run.pc = "propfind" /\ UNCHANGED <<part, server, past>> /\ archive' = archive
  BY DEF Propfind, Running
<1>2. /\ DavRunOK(run, server.home, archive, Excused) /\ server.on \subseteq Items
      /\ Items \ server.on \subseteq Excused /\ RowsHome
  BY <1>1 DEF DavInv, ItemsInv, ItemsTyped, Missing, Excused
<1>3. PICK etags \in BOOLEAN :
        LET listed == {[item |-> i, tag |-> IF etags THEN server.ver[i] ELSE 0] : i \in There(run.at)}
            known == InHome(archive, run.at)
        IN run' = Onward([run EXCEPT !.pc = "multiget", !.jobs = Pieces(ToFetch(listed, known)),
                                     !.vanished = ItemsOf(known) \ There(run.at)])
  BY DEF Propfind
<1> DEFINE listed == {[item |-> i, tag |-> IF etags THEN server.ver[i] ELSE 0] : i \in There(run.at)}
           known == InHome(archive, run.at)
           jobs == Pieces(ToFetch(listed, known))
           vanished == ItemsOf(known) \ There(run.at)
           next == [run EXCEPT !.pc = "multiget", !.jobs = jobs, !.vanished = vanished]
<1>4. run' = Onward(next)
  BY <1>3
<1>5. \A e \in listed : EntryOf(e, run, server.home)
  BY <1>2 DEF There, EntryOf
<1>6. \A job \in jobs : \A e \in job : EntryOf(e, run, server.home)
  <2>1. ToFetch(listed, known) \subseteq listed
    BY DEF ToFetch
  <2>2. \A job \in jobs : job \subseteq ToFetch(listed, known)
    <3> HIDE DEF listed, known
    <3> QED
      BY DEF Pieces
  <2> HIDE DEF listed, known, jobs
  <2> QED
    BY <1>5, <2>1, <2>2
<1>7. vanished \subseteq Excused
  BY <1>2 DEF RowsHome, HomeHere, InHome, ItemsOf, There
<1> HIDE DEF listed, known, jobs, vanished
<1>8. DavRunOK(next, server.home, archive, Excused)
  <2>1. /\ DavRecord(next) /\ next.pc = "multiget" /\ next.at = run.at /\ next.jobs = jobs
        /\ next.singles = run.singles /\ next.draft = run.draft /\ next.pending = run.pending
        /\ next.vanished = vanished
    BY <1>2 DEF DavRunOK, DavRecord
  <2> QED
    BY <1>1, <1>2, <1>6, <1>7, <2>1 DEF DavRunOK, EntryOf
<1> HIDE DEF next
<1>9. run' = Over(run'.failed) \/ DavRunOK(run', server.home, archive', Excused)
  BY <1>1, <1>4, <1>8, OnwardOK DEF Over
<1>10. RowsHome' /\ ItemsOf(archive) \ ItemsOf(archive') \subseteq Excused
  BY <1>1, <1>2 DEF RowsHome
<1> QED
  BY <1>1, <1>9, <1>10, DavStepOK

(* The step of a run that goes on from other locals.                       *)
Resumes(r) ==
  /\ DavRecord(r) /\ r.pc = run.pc /\ r.at = run.at /\ r.jobs \subseteq run.jobs
  /\ r.vanished \subseteq run.vanished /\ \A e \in r.singles : EntryOf(e, run, server.home)

(* Steps that go on with the same collection, or leave it for the next.    *)
LEMMA ResumesKeepsDav ==
  ASSUME DavInv, Running, UNCHANGED <<part, server, past>>, RowsHome',
         ItemsOf(archive) \ ItemsOf(archive') \subseteq Excused,
         NEW r, Resumes(r), run' = Onward(r),
         \A q \in r.draft : HomeHere(q, server.home),
         r.pending # 0 => ItemsOf(archive') \subseteq ItemsOf(r.draft),
         r.pc \in {"propfind", "multiget"} => r.pending = 0
  PROVE  DavInv' /\ KeptItems
<1>1. DavRunOK(run, server.home, archive, Excused)
  BY DEF DavInv
<1>2. DavRunOK(r, server.home, archive', Excused)
  BY <1>1 DEF DavRunOK, Resumes, EntryOf
<1>3. run' = Over(run'.failed) \/ DavRunOK(run', server.home, archive', Excused)
  BY <1>2, OnwardOK DEF Over
<1> QED
  BY <1>3, DavStepOK

(* The reply to a multiget.                                                *)
LEMMA MultigetKeepsDav ==
  ASSUME DavInv, NEW job \in Jobs, Multiget(job) \/ MultigetRefused(job) \/ MultigetFails(job)
  PROVE  DavInv' /\ KeptItems
<1>1. /\ Running /\ run.pc = "multiget" /\ UNCHANGED <<part, server, past>> /\ job \in run.jobs
      /\ ItemsInv /\ RowsHome /\ DavRunOK(run, server.home, archive, Excused)
  BY DEF Multiget, MultigetRefused, MultigetFails, Running, Jobs, DavInv
<1>2. /\ run.pending = 0 /\ DavRecord(run) /\ \A e \in job : EntryOf(e, run, server.home)
      /\ \A e \in run.singles : EntryOf(e, run, server.home)
      /\ \A q \in run.draft : HomeHere(q, server.home)
  BY <1>1 DEF DavRunOK
<1>3. ASSUME NEW singles, NEW failed, \A e \in singles : EntryOf(e, run, server.home), RowsHome',
             run' = Onward([run EXCEPT !.jobs = @ \ {job}, !.singles = singles, !.failed = failed]),
             ItemsOf(archive) \subseteq ItemsOf(archive')
      PROVE  DavInv' /\ KeptItems
  <2> DEFINE next == [run EXCEPT !.jobs = @ \ {job}, !.singles = singles, !.failed = failed]
  <2>1. /\ DavRecord(next) /\ next.pc = run.pc /\ next.at = run.at /\ next.jobs = run.jobs \ {job}
        /\ next.singles = singles /\ next.draft = run.draft /\ next.pending = run.pending
        /\ next.vanished = run.vanished
    BY <1>2 DEF DavRecord
  <2>2. run' = Onward(next)
    BY <1>3
  <2> HIDE DEF next
  <2>3. Resumes(next) /\ next.pending = 0 /\ \A q \in next.draft : HomeHere(q, server.home)
    BY <1>2, <1>3, <2>1 DEF Resumes
  <2>4. ItemsOf(archive) \ ItemsOf(archive') \subseteq Excused
    BY <1>3
  <2> QED
    BY <1>1, <1>3, <2>2, <2>3, <2>4, ResumesKeepsDav
<1>4. CASE Multiget(job)
  <2>1. PICK etags \in BOOLEAN :
          LET entries == {[item |-> e.item, tag |-> IF etags THEN server.ver[e.item] ELSE 0] : e \in job}
          IN /\ archive' = WriteAll(archive, entries)
             /\ run' = Onward([run EXCEPT !.jobs = @ \ {job},
                                          !.failed = @ \/ Refused(entries, archive) # {}])
    BY <1>4 DEF Multiget
  <2> DEFINE entries == {[item |-> e.item, tag |-> IF etags THEN server.ver[e.item] ELSE 0] : e \in job}
             failed == run.failed \/ Refused(entries, archive) # {}
  <2>2. archive' = WriteAll(archive, entries) /\ run' = Onward([run EXCEPT !.jobs = @ \ {job}, !.failed = failed])
    BY <2>1
  <2>3. \A e \in entries : EntryOf(e, run, server.home)
    BY <1>2 DEF EntryOf
  <2> HIDE DEF entries, failed
  <2>4. RowsHome' /\ ItemsOf(archive) \subseteq ItemsOf(archive')
    <3>1. /\ \A q \in archive' : HomeHere(q, server.home)
          /\ ItemsOf(archive) \subseteq ItemsOf(archive')
      BY <1>1, <2>2, <2>3, Written DEF RowsHome
    <3> QED
      BY <1>1, <3>1 DEF RowsHome, HomeHere
  <2>5. [run EXCEPT !.jobs = @ \ {job}, !.failed = failed]
          = [run EXCEPT !.jobs = @ \ {job}, !.singles = run.singles, !.failed = failed]
    BY <1>2 DEF DavRecord
  <2>6. run' = Onward([run EXCEPT !.jobs = @ \ {job}, !.singles = run.singles, !.failed = failed])
    BY <2>2, <2>5, Zenon
  <2> QED
    BY <1>2, <1>3, <2>4, <2>6
<1>5. ASSUME archive' = archive
      PROVE  RowsHome' /\ ItemsOf(archive) \subseteq ItemsOf(archive')
  BY <1>1, <1>5 DEF RowsHome, HomeHere
<1>6. CASE MultigetRefused(job)
  <2>1. archive' = archive /\ run' = Onward([run EXCEPT !.jobs = @ \ {job}, !.failed = TRUE])
    BY <1>6 DEF MultigetRefused
  <2>2. [run EXCEPT !.jobs = @ \ {job}, !.failed = TRUE]
          = [run EXCEPT !.jobs = @ \ {job}, !.singles = run.singles, !.failed = TRUE]
    BY <1>2 DEF DavRecord
  <2>3. run' = Onward([run EXCEPT !.jobs = @ \ {job}, !.singles = run.singles, !.failed = TRUE])
    BY <2>1, <2>2, Zenon
  <2> QED
    BY <1>2, <1>3, <1>5, <2>1, <2>3
<1>7. CASE MultigetFails(job)
  <2> DEFINE singles == run.singles \union job
  <2>1. archive' = archive /\ run' = Onward([run EXCEPT !.jobs = @ \ {job}, !.singles = singles])
    BY <1>7 DEF MultigetFails
  <2>2. \A e \in singles : EntryOf(e, run, server.home)
    BY <1>2
  <2> HIDE DEF singles
  <2>3. [run EXCEPT !.jobs = @ \ {job}, !.singles = singles]
          = [run EXCEPT !.jobs = @ \ {job}, !.singles = singles, !.failed = run.failed]
    BY <1>2 DEF DavRecord
  <2>4. run' = Onward([run EXCEPT !.jobs = @ \ {job}, !.singles = singles, !.failed = run.failed])
    BY <2>1, <2>3, Zenon
  <2> QED
    BY <1>3, <1>5, <2>1, <2>2, <2>4
<1> QED
  BY <1>4, <1>6, <1>7

(* The reply to a GET: the transaction goes on, or is committed.           *)
LEMMA GetKeepsDav ==
  ASSUME DavInv, NEW e \in Singles, GetOne(e) \/ GetGone(e) \/ GetFails(e)
  PROVE  DavInv' /\ KeptItems
<1>1. /\ Running /\ run.pc = "get one" /\ UNCHANGED <<part, server, past>> /\ e \in run.singles
      /\ ItemsInv /\ RowsHome /\ DavRunOK(run, server.home, archive, Excused)
  BY DEF GetOne, GetGone, GetFails, Running, Singles, DavInv
<1>2. /\ DavRecord(run) /\ \A d \in run.singles : EntryOf(d, run, server.home)
      /\ \A q \in Base : HomeHere(q, server.home)
      /\ ItemsOf(archive) \subseteq ItemsOf(Base)
  BY <1>1 DEF DavRunOK, RowsHome, Base
<1>3. ASSUME NEW R, NEW n, NEW bad, Replied(e, R, n, bad),
             \A q \in R : HomeHere(q, server.home), ItemsOf(archive) \subseteq ItemsOf(R)
      PROVE  DavInv' /\ KeptItems
  <2> DEFINE full == n = CommitBatch \/ run.singles = {e}
             pending == IF full THEN 0 ELSE n
             draft == IF full \/ n = 0 THEN {} ELSE R
             failed == run.failed \/ bad
             next == [run EXCEPT !.singles = @ \ {e}, !.pending = pending, !.draft = draft,
                                 !.failed = failed]
  <2>1. archive' = (IF full THEN R ELSE archive) /\ run' = Onward(next)
    BY <1>3 DEF Replied
  <2>2. ItemsOf(archive) \subseteq ItemsOf(archive') /\ RowsHome'
    <3>1. ItemsOf(archive) \subseteq ItemsOf(archive') /\ \A q \in archive' : HomeHere(q, server.home)
      BY <1>1, <1>3, <2>1 DEF RowsHome
    <3> QED
      BY <1>1, <3>1 DEF RowsHome, HomeHere
  <2>3. pending # 0 => ItemsOf(archive') \subseteq ItemsOf(draft)
    BY <1>3, <2>1
  <2>4. \A q \in draft : HomeHere(q, server.home)
    BY <1>3
  <2> HIDE DEF full, pending, draft, failed
  <2>5. /\ DavRecord(next) /\ next.pc = run.pc /\ next.at = run.at /\ next.jobs = run.jobs
        /\ next.singles = run.singles \ {e} /\ next.draft = draft /\ next.pending = pending
        /\ next.vanished = run.vanished
    BY <1>2 DEF DavRecord
  <2> HIDE DEF next
  <2>6. Resumes(next)
    BY <1>2, <2>5 DEF Resumes
  <2>7. ItemsOf(archive) \ ItemsOf(archive') \subseteq Excused
    BY <2>2
  <2> QED
    BY <1>1, <2>1, <2>2, <2>3, <2>4, <2>5, <2>6, <2>7, ResumesKeepsDav
<1>4. CASE GetOne(e)
  <2>1. PICK tag \in {e.tag, server.ver[e.item]} :
          IF Taken(e.item, Base) THEN Replied(e, Base, run.pending, TRUE)
          ELSE Replied(e, WriteAll(Base, {[e EXCEPT !.tag = tag]}), run.pending + 1, FALSE)
    BY <1>4 DEF GetOne
  <2> DEFINE entries == {[e EXCEPT !.tag = tag]}
  <2>2. \A d \in entries : EntryOf(d, run, server.home)
    <3>1. e = [item |-> e.item, tag |-> e.tag] /\ e.item \in Items /\ server.home[e.item] = run.at
      BY <1>1, <1>2 DEF EntryOf
    <3>2. [e EXCEPT !.tag = tag] = [item |-> e.item, tag |-> tag]
      BY <3>1
    <3> QED
      BY <3>1, <3>2 DEF EntryOf
  <2> HIDE DEF entries
  <2>3. /\ \A q \in WriteAll(Base, entries) : HomeHere(q, server.home)
        /\ ItemsOf(archive) \subseteq ItemsOf(WriteAll(Base, entries))
    BY <1>1, <1>2, <2>2, Written
  <2>4. Replied(e, Base, run.pending, TRUE) \/ Replied(e, WriteAll(Base, entries), run.pending + 1, FALSE)
    BY <2>1 DEF entries
  <2> QED
    BY <1>2, <1>3, <2>3, <2>4
<1>5. CASE GetGone(e) \/ GetFails(e)
  <2>1. Replied(e, Base, run.pending, FALSE) \/ Replied(e, Base, run.pending, TRUE)
    BY <1>5 DEF GetGone, GetFails
  <2> QED
    BY <1>2, <1>3, <2>1
<1> QED
  BY <1>4, <1>5

(* A row that vanished is deleted.                                         *)
LEMMA DeleteKeepsDav ==
  ASSUME DavInv, NEW i \in Doomed, DeleteItem(i)
  PROVE  DavInv' /\ KeptItems
<1>1. /\ Running /\ run.pc = "delete" /\ UNCHANGED <<part, server, past>> /\ i \in run.vanished
      /\ archive' = Without(archive, {i}) /\ run' = Onward([run EXCEPT !.vanished = @ \ {i}])
      /\ RowsHome /\ DavRunOK(run, server.home, archive, Excused)
  BY DEF DeleteItem, Running, Doomed, DavInv
<1>2. archive' \subseteq archive /\ ItemsOf(archive) \ ItemsOf(archive') \subseteq {i}
  BY <1>1 DEF Without, ItemsOf
<1>3. RowsHome' /\ ItemsOf(archive) \ ItemsOf(archive') \subseteq Excused
  BY <1>1, <1>2 DEF RowsHome, HomeHere, DavRunOK
<1> DEFINE next == [run EXCEPT !.vanished = @ \ {i}]
<1>4. run' = Onward(next)
  BY <1>1
<1>5. /\ DavRecord(next) /\ next.pc = "delete" /\ next.pc = run.pc /\ next.at = run.at /\ next.jobs = run.jobs
      /\ next.singles = run.singles /\ next.draft = run.draft /\ next.pending = run.pending
      /\ next.vanished = run.vanished \ {i}
  BY <1>1 DEF DavRunOK, DavRecord
<1> HIDE DEF next
<1>6. Resumes(next) /\ \A q \in next.draft : HomeHere(q, server.home)
  BY <1>1, <1>5 DEF Resumes, DavRunOK
<1>7. next.pending # 0 => ItemsOf(archive') \subseteq ItemsOf(next.draft)
  BY <1>1, <1>2, <1>5 DEF DavRunOK, ItemsOf
<1> QED
  BY <1>1, <1>3, <1>4, <1>5, <1>6, <1>7, ResumesKeepsDav

(* A run begins, goes over to the next collection, or ends.                *)
LEMMA DavPasses ==
  ASSUME DavInv, DavStart \/ PropfindFails \/ DeleteItemFails \/ DavCrash \/ UNCHANGED vars
  PROVE  DavInv' /\ KeptItems
<1>1. CASE DavStart
  <2>1. Begin(Collection(1, FALSE)) /\ ItemsInv
    BY <1>1 DEF DavStart, DavInv
  <2>2. ItemsInv' /\ archive' = archive /\ run' = Collection(1, FALSE) /\ server' = server /\ part' = part
    BY <2>1, BeginKeepsItems DEF Begin
  <2>3. 1 \in Homes
    BY RerunsAssumption DEF Homes
  <2>4. DavRunOK(Collection(1, FALSE), server.home', archive', Excused')
    BY <2>3, CollectionOK
  <2> QED
    BY <2>2, <2>4 DEF DavInv, IsDav, DavRunOK, DavRecord, EntryOf, HomeHere, RowsHome, KeptItems, ItemsOf
<1>2. CASE PropfindFails \/ DeleteItemFails
  <2>1. /\ Running /\ UNCHANGED <<part, server, past>> /\ archive' = archive
        /\ run' = NextCollection([run EXCEPT !.failed = TRUE])
        /\ RowsHome /\ DavRunOK(run, server.home, archive, Excused)
    BY <1>2 DEF PropfindFails, DeleteItemFails, Running, DavInv
  <2> DEFINE next == [run EXCEPT !.failed = TRUE]
  <2>2. next.at \in Homes /\ run' = NextCollection(next)
    BY <2>1 DEF DavRunOK, DavRecord
  <2> HIDE DEF next
  <2>3. run' = Over(run'.failed) \/ DavRunOK(run', server.home, archive', Excused)
    BY <2>2, NextCollectionOK DEF Over
  <2>4. RowsHome' /\ ItemsOf(archive) \ ItemsOf(archive') \subseteq Excused
    BY <2>1 DEF RowsHome, HomeHere
  <2> QED
    BY <2>1, <2>3, <2>4, DavStepOK
<1>3. CASE DavCrash
  <2>1. UNCHANGED <<part, server, archive, past>> /\ run' = Over(TRUE) /\ Running
    BY <1>3 DEF DavCrash, Crash
  <2>2. ~Running'
    BY <2>1 DEF Running, Over
  <2> QED
    BY <2>1, <2>2 DEF DavInv, IsDav, RowsHome, HomeHere, ItemsInv, ItemsTyped, Missing, KeptItems, ItemsOf
<1>4. CASE UNCHANGED vars
  BY <1>4 DEF vars, DavInv, IsDav, RowsHome, HomeHere, ItemsInv, ItemsTyped, Missing, KeptItems, ItemsOf, Excused,
    Running, DavRunOK, DavRecord, EntryOf
<1> QED
  BY <1>1, <1>2, <1>3, <1>4

LEMMA DavAtFirst == DavInit => DavInv
BY ItemsAtFirst DEF DavInit, DavInv, IsDav, RowsHome

LEMMA DavSteps == DavInv /\ [DavNext]_vars => DavInv' /\ KeptItems
<1> SUFFICES ASSUME DavInv, [DavNext]_vars
             PROVE  DavInv' /\ KeptItems
  OBVIOUS
<1>1. CASE \E i \in Items : DavArrive(i) \/ DavLeave(i) \/ DavAlter(i)
  BY <1>1, ServerKeepsDav
<1>2. CASE Propfind
  BY <1>2, PropfindKeepsDav
<1>3. CASE \E job \in Jobs : Multiget(job) \/ MultigetRefused(job) \/ MultigetFails(job)
  BY <1>3, MultigetKeepsDav
<1>4. CASE \E e \in Singles : GetOne(e) \/ GetGone(e) \/ GetFails(e)
  BY <1>4, GetKeepsDav
<1>5. CASE \E i \in Doomed : DeleteItem(i)
  BY <1>5, DeleteKeepsDav
<1>6. CASE DavStart \/ PropfindFails \/ DeleteItemFails \/ DavCrash \/ UNCHANGED vars
  BY <1>6, DavPasses
<1> QED
  BY <1>1, <1>2, <1>3, <1>4, <1>5, <1>6 DEF DavNext, DavRun

(* Whatever the server does meanwhile, and wherever a run is stopped, no   *)
(* item that is in its collection all the time loses its row.              *)
THEOREM DavKeeps == DavSpec => KeptWhileThere
<1>1. DavInit => DavInv
  BY DavAtFirst
<1>2. DavInv /\ [DavNext]_vars => DavInv' /\ KeptItems
  BY DavSteps
<1>3. KeptItems => [ItemsOf(archive) \ ItemsOf(archive') \subseteq past.missed \union past.unseen]_vars
  BY DEF KeptItems, Excused
<1> QED
  BY <1>1, <1>2, <1>3, PTL DEF DavSpec, KeptWhileThere

-----------------------------------------------------------------------------
(* The scripts of a ManageSieve account: what is not got counts as gone,   *)
(* so whatever is not got must be written down.                            *)

Gotten == [item : Items, home : Homes, ver : Nat]
SieveServer ==
  /\ server.changes \in Nat /\ server.ver \in [Items -> Nat]
SieveRecord(r) ==
  /\ r = [pc |-> r.pc, todo |-> r.todo, got |-> r.got, gone |-> r.gone, active |-> r.active,
          failed |-> r.failed]
  /\ r.got \in Seq(Gotten) /\ r.todo \subseteq [item : Items, home : Homes]

(* A run that still gets scripts has every row's script in sight, and one  *)
(* that deletes has an excuse.                                             *)
InSight(r, rows, excused) ==
  /\ r.pc \in {"list", "get", "apply"}
  /\ r.pc = "get" => ItemsOf(rows) \subseteq ItemsOf(r.todo) \union ItemsOf(ToSet(r.got)) \union excused
  /\ r.pc = "apply" => r.gone \subseteq excused
SieveInv ==
  /\ IsSieve /\ ItemsInv /\ SieveServer
  /\ Running => SieveRecord(run) /\ InSight(run, archive, Excused)

(* When nothing is left to get, what was not got is gone.                  *)
LEMMA PlannedInSight ==
  ASSUME NEW r, SieveRecord(r), r.pc = "get", NEW excused,
         ItemsOf(archive) \subseteq ItemsOf(r.todo) \union ItemsOf(ToSet(r.got)) \union excused
  PROVE  SieveRecord(Planned(r)) /\ InSight(Planned(r), archive, excused) /\ Planned(r).pc # "over"
<1>1. CASE r.todo # {}
  BY <1>1 DEF Planned, InSight
<1>2. CASE r.todo = {}
  <2>1. Planned(r) = [pc |-> "apply", todo |-> r.todo, got |-> r.got, gone |-> PlanOf(r.got),
                      active |-> r.active, failed |-> r.failed]
    BY <1>2 DEF Planned, SieveRecord
  <2>2. PlanOf(r.got) \subseteq excused
    BY <1>2 DEF PlanOf, ItemsOf
  <2> QED
    BY <2>1, <2>2 DEF SieveRecord, InSight
<1> QED
  BY <1>1, <1>2

(* A step that leaves server and history alone, but for more excuses.      *)
LEMMA SieveStepOK ==
  ASSUME SieveInv, UNCHANGED <<part, server>>, Running, NEW unseen,
         past' = past \/ past' = [past EXCEPT !.unseen = @ \union unseen],
         \A r \in archive' : r.item \in Items,
         Running' => SieveRecord(run') /\ InSight(run', archive', Excused')
  PROVE  SieveInv'
<1>1. /\ past'.missed = past.missed
      /\ past' = [missed |-> past'.missed, moved |-> past'.moved, unseen |-> past'.unseen,
                  frozen |-> past'.frozen]
  BY DEF SieveInv, ItemsInv, ItemsTyped
<1>2. ItemsInv'
  BY <1>1 DEF SieveInv, ItemsInv, ItemsTyped, Missing
<1>3. SieveServer' /\ IsSieve'
  BY DEF SieveInv, SieveServer, IsSieve
<1> QED
  BY <1>2, <1>3 DEF SieveInv

(* Another client changes the scripts.                                     *)
LEMMA ServerKeepsSieve ==
  ASSUME SieveInv, NEW i \in Items, SieveArrive(i) \/ SieveLeave(i) \/ SieveAlter(i) \/ SetActive(i)
  PROVE  SieveInv' /\ KeptItems
<1>1. UNCHANGED <<part, archive, run>> /\ Running' = Running
  BY DEF SieveArrive, SieveLeave, SieveAlter, SetActive, Changing, Running
<1>2. Idle \in Homes /\ server.home[i] \in Homes
  BY RerunsAssumption DEF SieveInv, ItemsInv, ItemsTyped, Idle, Homes
<1>3. ItemsInv' /\ past.missed \subseteq past'.missed /\ past.unseen \subseteq past'.unseen
  <2>1. CASE SieveArrive(i)
    BY <1>1, <1>2, <2>1, ServerKeepsItems DEF SieveArrive, SieveInv
  <2>2. CASE SieveLeave(i)
    BY <1>1, <1>2, <2>2, ServerKeepsItems DEF SieveLeave, SieveInv
  <2>3. CASE SieveAlter(i)
    BY <1>1, <1>2, <2>3, ServerKeepsItems DEF SieveAlter, SieveInv
  <2>4. CASE SetActive(i)
    <3>1. /\ server' = [on |-> server.on, home |-> [j \in Items |-> IF j = i THEN Active ELSE Idle],
                        ver |-> server.ver, changes |-> server.changes + 1]
          /\ past' = [missed |-> past.missed, moved |-> TRUE, unseen |-> past.unseen,
                      frozen |-> past.frozen]
      BY <2>4 DEF SetActive, SieveInv, ItemsInv, ItemsTyped
    <3> QED
      BY <1>1, <1>2, <3>1, SieveAssumption DEF SieveInv, ItemsInv, ItemsTyped, Missing
  <2> QED
    BY <2>1, <2>2, <2>3, <2>4
<1>4. SieveServer'
  <2>1. server.changes + 1 \in Nat /\ [server.ver EXCEPT ![i] = server.changes + 2] \in [Items -> Nat]
        /\ server.ver \in [Items -> Nat]
        /\ server = [on |-> server.on, home |-> server.home, ver |-> server.ver, changes |-> server.changes]
    BY DEF SieveInv, SieveServer, ItemsInv, ItemsTyped
  <2>2. server'.changes = server.changes + 1
        /\ server'.ver \in {server.ver, [server.ver EXCEPT ![i] = server.changes + 2]}
    <3>1. CASE SieveArrive(i)
      BY <2>1, <3>1 DEF SieveArrive, Arrive, Renewed
    <3>2. CASE SieveLeave(i)
      BY <2>1, <3>2 DEF SieveLeave, Leave
    <3>3. CASE SieveAlter(i)
      BY <2>1, <3>3 DEF SieveAlter, Alter, Renewed
    <3>4. CASE SetActive(i)
      BY <2>1, <3>4 DEF SetActive
    <3> QED
      BY <3>1, <3>2, <3>3, <3>4
  <2> QED
    BY <2>1, <2>2 DEF SieveServer
<1>5. Running => SieveRecord(run') /\ InSight(run', archive', Excused')
  BY <1>1, <1>3 DEF SieveInv, InSight, Excused
<1> QED
  BY <1>1, <1>3, <1>4, <1>5 DEF SieveInv, IsSieve, KeptItems, ItemsOf

(* The scripts are listed, and got one after another.                      *)
LEMMA GettingKeepsSieve ==
  ASSUME SieveInv, ListScripts \/ GetScript \/ GetScriptFails
  PROVE  SieveInv' /\ KeptItems
<1>1. /\ UNCHANGED <<part, server, archive>> /\ Running /\ run.pc \in {"list", "get"}
      /\ SieveRecord(run) /\ InSight(run, archive, Excused)
      /\ server.home \in [Items -> Homes] /\ server.on \subseteq Items /\ server.ver \in [Items -> Nat]
      /\ \A r \in archive' : r.item \in Items
  BY DEF ListScripts, GetScript, GetScriptFails, Running, SieveInv, ItemsInv, ItemsTyped, SieveServer
<1>2. ASSUME NEW r, run' = Planned(r), SieveRecord(r), r.pc = "get", NEW unseen,
             past' = past \/ past' = [past EXCEPT !.unseen = @ \union unseen],
             ItemsOf(archive) \subseteq ItemsOf(r.todo) \union ItemsOf(ToSet(r.got)) \union Excused'
      PROVE  SieveInv' /\ KeptItems
  <2>1. SieveRecord(run') /\ InSight(run', archive, Excused')
    BY <1>2, PlannedInSight
  <2>2. SieveInv'
    BY <1>1, <1>2, <2>1, SieveStepOK
  <2> QED
    BY <1>1, <2>2 DEF KeptItems, ItemsOf
<1>3. CASE ListScripts
  <2> DEFINE listed == {[item |-> i, home |-> server.home[i]] : i \in server.on}
             r == [run EXCEPT !.pc = "get", !.todo = listed]
  <2>1. r = [pc |-> "get", todo |-> listed, got |-> run.got, gone |-> run.gone, active |-> run.active,
             failed |-> run.failed] /\ run' = Planned(r) /\ past' = past
    <3>1. run' = Planned(r) /\ past' = past
      BY <1>3 DEF ListScripts
    <3>2. r = [run EXCEPT !.pc = "get", !.todo = listed]
      OBVIOUS
    <3> HIDE DEF r, listed
    <3> QED
      BY <1>1, <3>1, <3>2 DEF SieveRecord
  <2>2. listed \subseteq [item : Items, home : Homes]
    BY <1>1
  <2>3. ItemsOf(archive) \subseteq ItemsOf(listed) \union past.missed
    <3> SUFFICES ASSUME NEW q \in archive, q.item \notin past.missed
                 PROVE  q.item \in ItemsOf(listed)
      BY DEF ItemsOf
    <3>1. q.item \in server.on
      BY <1>1 DEF SieveInv, ItemsInv, ItemsTyped, Missing
    <3> DEFINE x == [item |-> q.item, home |-> server.home[q.item]]
    <3>2. x \in listed /\ x.item = q.item
      BY <3>1
    <3> HIDE DEF x, listed
    <3> QED
      BY <3>2 DEF ItemsOf
  <2> HIDE DEF listed
  <2>4. SieveRecord(r) /\ r.pc = "get"
    BY <1>1, <2>1, <2>2 DEF SieveRecord
  <2>5. ItemsOf(archive) \subseteq ItemsOf(r.todo) \union ItemsOf(ToSet(r.got)) \union Excused'
    BY <2>1, <2>3 DEF Excused
  <2> HIDE DEF r
  <2> QED
    BY <1>2, <2>1, <2>4, <2>5
<1>4. ASSUME run.pc = "get", NEW e \in run.todo, NEW failed,
             NEW got, \/ got = run.got
                      \/ got = Append(run.got, [item |-> e.item, home |-> e.home, ver |-> server.ver[e.item]]),
             run' = Planned([run EXCEPT !.todo = @ \ {e}, !.got = got, !.failed = failed]),
             NEW unseen, past' = past \/ past' = [past EXCEPT !.unseen = @ \union unseen],
             e.item \in ItemsOf(ToSet(got)) \union Excused'
      PROVE  SieveInv' /\ KeptItems
  <2> DEFINE r == [run EXCEPT !.todo = @ \ {e}, !.got = got, !.failed = failed]
  <2>1. r = [pc |-> "get", todo |-> run.todo \ {e}, got |-> got, gone |-> run.gone, active |-> run.active,
             failed |-> failed]
    <3>1. r = [run EXCEPT !.todo = run.todo \ {e}, !.got = got, !.failed = failed]
      OBVIOUS
    <3> HIDE DEF r
    <3> QED
      BY <1>1, <1>4, <3>1 DEF SieveRecord
  <2>2. /\ run.got \in Seq(Gotten) /\ run.todo \subseteq [item : Items, home : Homes]
        /\ [item |-> e.item, home |-> e.home, ver |-> server.ver[e.item]] \in Gotten
    BY <1>1, <1>4 DEF SieveRecord, Gotten
  <2>3. got \in Seq(Gotten) /\ ToSet(run.got) \subseteq ToSet(got)
    <3> DEFINE x == [item |-> e.item, home |-> e.home, ver |-> server.ver[e.item]]
    <3>1. x \in Gotten /\ (got = run.got \/ got = Append(run.got, x))
      BY <1>4, <2>2
    <3> HIDE DEF x
    <3>2. CASE got = Append(run.got, x)
      <4>1. \A j \in DOMAIN run.got : j \in DOMAIN got /\ got[j] = run.got[j]
        BY <2>2, <3>2
      <4> QED
        BY <2>2, <3>1, <3>2, <4>1 DEF ToSet
    <3> QED
      BY <2>2, <3>1, <3>2
  <2>4. SieveRecord(r) /\ r.pc = "get"
    BY <2>1, <2>2, <2>3 DEF SieveRecord
  <2>5. Excused \subseteq Excused'
    BY <1>4 DEF Excused, SieveInv, ItemsInv, ItemsTyped
  <2>6. ItemsOf(archive) \subseteq ItemsOf(r.todo) \union ItemsOf(ToSet(r.got)) \union Excused'
    <3>1. ItemsOf(archive) \subseteq ItemsOf(run.todo) \union ItemsOf(ToSet(run.got)) \union Excused
      BY <1>1, <1>4 DEF InSight
    <3>2. ItemsOf(ToSet(run.got)) \subseteq ItemsOf(ToSet(got))
      BY <2>3 DEF ItemsOf
    <3>3. ItemsOf(run.todo) \subseteq ItemsOf(run.todo \ {e}) \union {e.item}
      BY DEF ItemsOf
    <3>4. r.todo = run.todo \ {e} /\ r.got = got
      BY <2>1
    <3> QED
      BY <1>4, <2>5, <3>1, <3>2, <3>3, <3>4
  <2> HIDE DEF r
  <2>7. run' = Planned(r)
    BY <1>4 DEF r
  <2> QED
    BY <1>2, <1>4, <2>4, <2>6, <2>7
<1>5. ASSUME run.pc = "get", NEW e \in run.todo, run' = Skipped(e),
             NEW unseen, past' = past \/ past' = [past EXCEPT !.unseen = @ \union unseen],
             e.item \in Excused'
      PROVE  SieveInv' /\ KeptItems
  <2>1. [run EXCEPT !.todo = @ \ {e}, !.failed = TRUE]
          = [run EXCEPT !.todo = @ \ {e}, !.got = run.got, !.failed = TRUE]
    BY <1>1 DEF SieveRecord
  <2>2. run' = Planned([run EXCEPT !.todo = @ \ {e}, !.got = run.got, !.failed = TRUE])
    BY <1>5, <2>1, Zenon DEF Skipped
  <2> QED
    BY <1>4, <1>5, <2>2
<1>6. CASE GetScript
  <2>1. PICK e \in run.todo :
          run' = IF e.item \in server.on
                   THEN Planned([run EXCEPT !.todo = @ \ {e},
                          !.got = Append(@, [item |-> e.item, home |-> e.home,
                                             ver |-> server.ver[e.item]])])
                   ELSE Skipped(e)
    BY <1>6 DEF GetScript
  <2>2. run.pc = "get" /\ past' = past
    BY <1>6 DEF GetScript
  <2>3. CASE e.item \notin server.on
    <3>1. e.item \in past'.missed
      BY <1>1, <2>2, <2>3 DEF SieveInv, ItemsInv, Missing, SieveRecord
    <3> QED
      BY <1>5, <2>1, <2>2, <2>3, <3>1 DEF Excused
  <2>4. CASE e.item \in server.on
    <3> DEFINE x == [item |-> e.item, home |-> e.home, ver |-> server.ver[e.item]]
               got == Append(run.got, x)
    <3>1. [run EXCEPT !.todo = @ \ {e}, !.got = Append(@, x)]
            = [run EXCEPT !.todo = @ \ {e}, !.got = got, !.failed = run.failed]
      BY <1>1 DEF SieveRecord
    <3>2. run' = Planned([run EXCEPT !.todo = @ \ {e}, !.got = got, !.failed = run.failed])
      BY <2>1, <2>4, <3>1, Zenon
    <3>3. x \in ToSet(got)
      <4>1. got \in Seq(Gotten \union {x}) /\ Len(got) \in DOMAIN got /\ got[Len(got)] = x
        BY <1>1 DEF SieveRecord
      <4> QED
        BY <4>1 DEF ToSet
    <3>4. e.item \in ItemsOf(ToSet(got))
      <4>1. x.item = e.item
        OBVIOUS
      <4> HIDE DEF x, got
      <4> QED
        BY <3>3, <4>1 DEF ItemsOf
    <3> HIDE DEF got
    <3> QED
      BY <1>4, <2>2, <3>2, <3>4 DEF got
  <2> QED
    BY <2>3, <2>4
<1>7. CASE GetScriptFails
  <2>1. PICK e \in run.todo : run' = Skipped(e) /\ past' = [past EXCEPT !.unseen = @ \union {e.item}]
    BY <1>7 DEF GetScriptFails
  <2>2. run.pc = "get" /\ e.item \in Excused'
    BY <1>7, <2>1 DEF GetScriptFails, Excused, SieveInv, ItemsInv, ItemsTyped
  <2> QED
    BY <1>5, <2>1, <2>2
<1> QED
  BY <1>3, <1>6, <1>7

(* What was got is written, and what is gone is deleted.                   *)
LEMMA ApplyingKeepsSieve ==
  ASSUME SieveInv,
         \/ WriteScript \/ WriteFails \/ Assign
         \/ \E i \in Unlisted : DeleteScript(i) \/ DeleteScriptFails(i)
  PROVE  SieveInv' /\ KeptItems
<1>1. /\ UNCHANGED <<part, server, past>> /\ Running /\ run.pc = "apply"
      /\ SieveRecord(run) /\ InSight(run, archive, Excused) /\ run.gone \subseteq Excused
      /\ \A r \in archive : r.item \in Items
  BY DEF WriteScript, WriteFails, Assign, DeleteScript, DeleteScriptFails, Running, SieveInv, InSight,
    ItemsInv, ItemsTyped
<1>2. ASSUME ItemsOf(archive) \ ItemsOf(archive') \subseteq run.gone, \A r \in archive' : r.item \in Items,
             \/ ~Running'
             \/ \E got \in Seq(Gotten), gone \in SUBSET run.gone : \E active, failed :
                  run' = [pc |-> "apply", todo |-> run.todo, got |-> got, gone |-> gone, active |-> active,
                          failed |-> failed]
      PROVE  SieveInv' /\ KeptItems
  <2>1. ASSUME NEW got \in Seq(Gotten), NEW gone \in SUBSET run.gone, NEW active, NEW failed,
               run' = [pc |-> "apply", todo |-> run.todo, got |-> got, gone |-> gone, active |-> active,
                       failed |-> failed]
        PROVE  SieveRecord(run') /\ InSight(run', archive', Excused')
    BY <1>1, <2>1 DEF SieveRecord, InSight, Excused
  <2>2. Running' => SieveRecord(run') /\ InSight(run', archive', Excused')
    BY <1>2, <2>1
  <2>3. SieveInv'
    BY <1>1, <1>2, <2>2, SieveStepOK
  <2> QED
    BY <1>1, <1>2, <2>3 DEF KeptItems, Excused
<1>3. CASE WriteScript \/ WriteFails
  <2> DEFINE s == Head(run.got)
             known == {r \in archive : r.item = s.item}
             new == [item |-> s.item, home |-> Idle, ver |-> s.ver, tag |-> s.ver, whole |-> TRUE]
  <2>1. s.item \in Items /\ Tail(run.got) \in Seq(Gotten)
    <3>1. run.got \in Seq(Gotten) /\ run.got # <<>>
      BY <1>1, <1>3 DEF WriteScript, WriteFails, SieveRecord
    <3>2. s \in Gotten /\ Tail(run.got) \in Seq(Gotten)
      BY <3>1
    <3> QED
      BY <3>2 DEF Gotten
  <2>2. PICK active, failed :
          run' = [pc |-> "apply", todo |-> run.todo, got |-> Tail(run.got), gone |-> run.gone,
                  active |-> active, failed |-> failed]
    <3>1. \/ \E a : run' = [run EXCEPT !.got = Tail(@), !.active = a]
          \/ \E a : run' = [run EXCEPT !.got = Tail(@), !.failed = TRUE, !.active = a]
      BY <1>3 DEF WriteScript, WriteFails
    <3>2. ASSUME NEW a, run' = [run EXCEPT !.got = Tail(run.got), !.active = a]
          PROVE  run' = [pc |-> "apply", todo |-> run.todo, got |-> Tail(run.got), gone |-> run.gone,
                         active |-> a, failed |-> run.failed]
      BY <1>1, <3>2 DEF SieveRecord
    <3>3. ASSUME NEW a, run' = [run EXCEPT !.got = Tail(run.got), !.failed = TRUE, !.active = a]
          PROVE  run' = [pc |-> "apply", todo |-> run.todo, got |-> Tail(run.got), gone |-> run.gone,
                         active |-> a, failed |-> TRUE]
      BY <1>1, <3>3 DEF SieveRecord
    <3> QED
      BY <3>1, <3>2, <3>3, Zenon
  <2>3. archive' = archive \/ archive' = (archive \ known) \union {new}
          \/ archive' = (archive \ known) \union {[r EXCEPT !.ver = s.ver, !.tag = s.ver] : r \in known}
    BY <1>3 DEF WriteScript, WriteFails
  <2>4. ASSUME NEW r \in archive, r.item = s.item
        PROVE  r.item \in ItemsOf(archive')
    <3>1. CASE archive' = (archive \ known) \union {[q EXCEPT !.ver = s.ver, !.tag = s.ver] : q \in known}
      <4> DEFINE x == [r EXCEPT !.ver = s.ver, !.tag = s.ver]
      <4>1. x \in {[q EXCEPT !.ver = s.ver, !.tag = s.ver] : q \in known}
        BY <2>4
      <4>2. x.item = r.item
        OBVIOUS
      <4> HIDE DEF x
      <4> QED
        BY <3>1, <4>1, <4>2 DEF ItemsOf
    <3>2. CASE archive' = (archive \ known) \union {new}
      <4>1. new \in archive' /\ new.item = r.item
        BY <2>4, <3>2
      <4> QED
        BY <4>1 DEF ItemsOf
    <3> QED
      BY <2>3, <3>1, <3>2 DEF ItemsOf
  <2>5. ItemsOf(archive) \subseteq ItemsOf(archive')
    BY <2>3, <2>4 DEF ItemsOf
  <2>6. \A r \in archive' : r.item \in Items
    <3>1. new.item = s.item /\ \A r : [r EXCEPT !.ver = s.ver, !.tag = s.ver].item = r.item
      OBVIOUS
    <3> HIDE DEF s, new
    <3>2. \A r \in {[q EXCEPT !.ver = s.ver, !.tag = s.ver] : q \in known} : r.item \in Items
      BY <1>1, <3>1
    <3> QED
      BY <1>1, <2>1, <2>3, <3>1, <3>2
  <2> QED
    BY <1>1, <1>2, <2>1, <2>2, <2>5, <2>6
<1>4. CASE Assign
  <2>1. archive' = Assigned(archive, run.active) /\ ~Running'
    BY <1>4 DEF Assign, Over, Running
  <2>2. ASSUME NEW r
        PROVE  [r EXCEPT !.home = IF r.item \in run.active THEN Active ELSE Idle].item = r.item
    OBVIOUS
  <2>3. ItemsOf(archive) = ItemsOf(archive')
    <3> DEFINE f(r) == [r EXCEPT !.home = IF r.item \in run.active THEN Active ELSE Idle]
    <3>1. archive' = {f(r) : r \in archive} /\ \A r : f(r).item = r.item
      BY <2>1, <2>2 DEF Assigned
    <3> HIDE DEF f
    <3> QED
      BY <3>1 DEF ItemsOf
  <2> QED
    BY <1>1, <1>2, <2>1, <2>3 DEF ItemsOf
<1>5. ASSUME NEW i \in Unlisted, DeleteScript(i) \/ DeleteScriptFails(i)
      PROVE  SieveInv' /\ KeptItems
  <2>1. i \in run.gone /\ archive' \in {archive, Without(archive, {i})}
    BY <1>5 DEF DeleteScript, DeleteScriptFails
  <2>2. PICK failed :
          run' = [pc |-> "apply", todo |-> run.todo, got |-> run.got, gone |-> run.gone \ {i},
                  active |-> run.active, failed |-> failed]
    <3>1. \/ run' = [run EXCEPT !.gone = @ \ {i}]
          \/ run' = [run EXCEPT !.gone = @ \ {i}, !.failed = TRUE]
      BY <1>5 DEF DeleteScript, DeleteScriptFails
    <3>2. ASSUME run' = [run EXCEPT !.gone = run.gone \ {i}]
          PROVE  run' = [pc |-> "apply", todo |-> run.todo, got |-> run.got, gone |-> run.gone \ {i},
                         active |-> run.active, failed |-> run.failed]
      BY <1>1, <3>2 DEF SieveRecord
    <3>3. ASSUME run' = [run EXCEPT !.gone = run.gone \ {i}, !.failed = TRUE]
          PROVE  run' = [pc |-> "apply", todo |-> run.todo, got |-> run.got, gone |-> run.gone \ {i},
                         active |-> run.active, failed |-> TRUE]
      BY <1>1, <3>3 DEF SieveRecord
    <3> QED
      BY <3>1, <3>2, <3>3, Zenon
  <2>3. ItemsOf(archive) \ ItemsOf(archive') \subseteq run.gone /\ \A r \in archive' : r.item \in Items
    BY <1>1, <2>1 DEF Without, ItemsOf
  <2>4. run.got \in Seq(Gotten)
    BY <1>1 DEF SieveRecord
  <2> QED
    BY <1>2, <2>2, <2>3, <2>4
<1> QED
  BY <1>3, <1>4, <1>5

(* A run begins, or is stopped.                                            *)
LEMMA SievePasses ==
  ASSUME SieveInv, SieveStart \/ SieveCrash \/ UNCHANGED vars
  PROVE  SieveInv' /\ KeptItems
<1>1. CASE SieveStart
  <2>1. ItemsInv' /\ archive' = archive /\ run' = Scripts("list") /\ server' = server /\ part' = part
    BY <1>1, BeginKeepsItems DEF SieveStart, SieveInv, Begin
  <2>2. SieveRecord(Scripts("list")) /\ InSight(Scripts("list"), archive', Excused')
    BY DEF Scripts, SieveRecord, InSight
  <2> QED
    BY <2>1, <2>2 DEF SieveInv, IsSieve, SieveServer, KeptItems, ItemsOf
<1>2. CASE SieveCrash
  <2>1. UNCHANGED <<part, server, archive, past>> /\ ~Running' /\ Running
    BY <1>2 DEF SieveCrash, Crash, Over, Running
  <2> QED
    BY <2>1 DEF SieveInv, IsSieve, SieveServer, ItemsInv, ItemsTyped, Missing, KeptItems, ItemsOf
<1>3. CASE UNCHANGED vars
  BY <1>3 DEF vars, SieveInv, IsSieve, SieveServer, ItemsInv, ItemsTyped, Missing, KeptItems, ItemsOf, Running, Excused
<1> QED
  BY <1>1, <1>2, <1>3

LEMMA SieveAtFirst == SieveInit => SieveInv
<1> SUFFICES ASSUME SieveInit PROVE SieveInv
  OBVIOUS
<1>1. ItemsInv /\ ~Running /\ IsSieve
  BY ItemsAtFirst DEF SieveInit, IsSieve
<1>2. SieveServer
  <2>1. PICK on \in {1..k : k \in 0..LastItem}, home \in [Items -> Homes] :
          server = [on |-> on, home |-> home, changes |-> 0,
                    ver |-> [i \in Items |-> IF i \in on THEN 1 ELSE 0]]
    BY DEF SieveInit, RerunsInit
  <2> QED
    BY <2>1 DEF SieveServer
<1> QED
  BY <1>1, <1>2 DEF SieveInv

LEMMA SieveSteps == SieveInv /\ [SieveNext]_vars => SieveInv' /\ KeptItems
<1> SUFFICES ASSUME SieveInv, [SieveNext]_vars PROVE SieveInv' /\ KeptItems
  OBVIOUS
<1>1. CASE \E i \in Items : SieveArrive(i) \/ SieveLeave(i) \/ SieveAlter(i) \/ SetActive(i)
  BY <1>1, ServerKeepsSieve
<1>2. CASE ListScripts \/ GetScript \/ GetScriptFails
  BY <1>2, GettingKeepsSieve
<1>3. CASE WriteScript \/ WriteFails \/ Assign \/ \E i \in Unlisted : DeleteScript(i) \/ DeleteScriptFails(i)
  BY <1>3, ApplyingKeepsSieve
<1>4. CASE SieveStart \/ SieveCrash \/ UNCHANGED vars
  BY <1>4, SievePasses
<1> QED
  BY <1>1, <1>2, <1>3, <1>4 DEF SieveNext, SieveRun

(* Whatever other clients do meanwhile, and wherever a run is stopped, no  *)
(* script that is there all the time and can be read loses its row.        *)
THEOREM SieveKeeps == SieveSpec => KeptWhileThere
<1>1. KeptItems => [ItemsOf(archive) \ ItemsOf(archive') \subseteq past.missed \union past.unseen]_vars
  BY DEF KeptItems, Excused
<1> QED
  BY <1>1, SieveAtFirst, SieveSteps, PTL DEF SieveSpec, KeptWhileThere

-----------------------------------------------------------------------------
(* Clean runs: what has to be true in the middle of a run for its end to   *)
(* be a copy, when the server did not change and nothing has failed.       *)

Clean == Running /\ run' = Over(FALSE) /\ ~past.moved => CopiedBut(past.unseen)'
Steady == Running /\ ~past.moved /\ ~run.failed

(* For the importers of items a copy is one of the items.                  *)
LEMMA ItemsAreCopied ==
  ASSUME part' \in {"sieve", "maildir"}, MirroredBut(past.unseen)'
  PROVE  CopiedBut(past.unseen)'
<1>1. (~IsExchangeTree /\ ~IsPathTree /\ ~IsJmapTree /\ ~IsDrive /\ ~IsTakeout /\ ~IsSources)'
  BY Zenon DEF IsExchangeTree, ExchangeTrees, IsPathTree, PathTrees, IsJmapTree, IsDrive, IsTakeout,
    TakeoutKinds, IsSources
<1> QED
  BY <1>1 DEF CopiedBut

(* Scripts: what is got is as the server has it; what was got and written  *)
(* is right but for the active one, which is known.                        *)
WholeRow(r) ==
  /\ r = [item |-> r.item, home |-> r.home, ver |-> r.ver, tag |-> r.tag, whole |-> r.whole]
  /\ r.whole = TRUE
(* A row that is another in a field.                                       *)
LEMMA WholeRowExcept ==
  ASSUME NEW r, WholeRow(r), NEW v, NEW q
  PROVE  /\ q = [r EXCEPT !.home = v] =>
              q = [item |-> r.item, home |-> v, ver |-> r.ver, tag |-> r.tag, whole |-> r.whole]
         /\ q = [r EXCEPT !.ver = v, !.tag = v] =>
              q = [item |-> r.item, home |-> r.home, ver |-> v, tag |-> v, whole |-> r.whole]
<1>1. r = [item |-> r.item, home |-> r.home, ver |-> r.ver, tag |-> r.tag, whole |-> r.whole]
  BY DEF WholeRow
<1>2. ASSUME q = [r EXCEPT !.home = v]
      PROVE  q = [item |-> r.item, home |-> v, ver |-> r.ver, tag |-> r.tag, whole |-> r.whole]
  BY <1>1, <1>2
<1>3. ASSUME q = [r EXCEPT !.ver = v, !.tag = v]
      PROVE  q = [item |-> r.item, home |-> r.home, ver |-> v, tag |-> v, whole |-> r.whole]
  BY <1>1, <1>3
<1> QED
  BY <1>2, <1>3

Same(s) ==
  s.item \in server.on /\ s.home = server.home[s.item] /\ s.ver = server.ver[s.item]
SieveSame(r) ==
  /\ r.pc \in {"list", "get"} => r.active = {}
  /\ r.pc = "list" => r.got = <<>>
  /\ \A s \in ToSet(r.got) : Same(s)
  /\ r.pc = "get" =>
       /\ \A e \in r.todo : e.item \in server.on /\ e.home = server.home[e.item]
       /\ server.on \subseteq ItemsOf(r.todo) \union ItemsOf(ToSet(r.got))
SieveWritten(r, rows) ==
  r.pc = "apply" =>
    /\ ItemsOf(rows) \subseteq server.on \union r.gone /\ r.gone \intersect server.on = {}
    /\ \A i \in r.active : i \in server.on /\ server.home[i] = Active
    /\ \A i \in server.on \ ItemsOf(ToSet(r.got)) :
         /\ i \in ItemsOf(rows) /\ (server.home[i] = Active => i \in r.active)
         /\ \A q \in rows : q.item = i => q.ver = server.ver[i]
SieveCopies ==
  /\ OneActive(server.home) /\ \A i \in Items : server.home[i] \in {Idle, Active}
  /\ \A r \in archive : WholeRow(r)
  /\ Steady => SieveSame(run) /\ SieveWritten(run, archive)

(* The end of getting: what is not got is gone.                            *)
LEMMA PlannedIsSame ==
  ASSUME NEW r, SieveRecord(r), r.pc = "get", SieveSame(r)
  PROVE  SieveSame(Planned(r)) /\ SieveWritten(Planned(r), archive)
<1>1. CASE r.todo # {}
  BY <1>1 DEF Planned, SieveWritten
<1>2. CASE r.todo = {}
  <2>1. Planned(r) = [pc |-> "apply", todo |-> r.todo, got |-> r.got, gone |-> PlanOf(r.got),
                      active |-> r.active, failed |-> r.failed]
    BY <1>2 DEF Planned, SieveRecord
  <2>2. server.on \subseteq ItemsOf(ToSet(r.got)) /\ r.active = {} /\ \A s \in ToSet(r.got) : Same(s)
    BY <1>2 DEF SieveSame, ItemsOf
  <2>3. \A i \in ItemsOf(ToSet(r.got)) : i \in server.on
    BY <2>2 DEF ItemsOf, Same
  <2> HIDE DEF Planned
  <2> QED
    BY <2>1, <2>2, <2>3 DEF SieveSame, SieveWritten, PlanOf
<1> QED
  BY <1>1, <1>2

(* The scripts are listed, and got.                                        *)
LEMMA GettingIsSame ==
  ASSUME SieveInv, SieveCopies, ListScripts \/ GetScript \/ GetScriptFails
  PROVE  SieveCopies' /\ Clean
<1>1. /\ UNCHANGED <<part, server, archive>> /\ Running /\ run.pc \in {"list", "get"}
      /\ SieveRecord(run) /\ server.on \subseteq Items /\ past'.moved = past.moved
  BY DEF ListScripts, GetScript, GetScriptFails, Running, SieveInv, ItemsInv, ItemsTyped
<1>2. ASSUME NEW r, run' = Planned(r), SieveRecord(r), r.pc = "get",
             ~r.failed /\ ~past.moved => SieveSame(r)
      PROVE  SieveCopies' /\ Clean
  <2>1. Planned(r).pc \in {"get", "apply"} /\ Planned(r).failed = r.failed
    <3>1. CASE r.todo # {}
      BY <1>2, <3>1 DEF Planned
    <3>2. CASE r.todo = {}
      <4>1. Planned(r) = [pc |-> "apply", todo |-> r.todo, got |-> r.got, gone |-> PlanOf(r.got),
                          active |-> r.active, failed |-> r.failed]
        BY <1>2, <3>2 DEF Planned, SieveRecord
      <4> HIDE DEF Planned
      <4> QED
        BY <4>1
    <3> QED
      BY <3>1, <3>2
  <2>2. ~r.failed /\ ~past.moved => SieveSame(Planned(r)) /\ SieveWritten(Planned(r), archive)
    BY <1>2, PlannedIsSame
  <2>3. Steady' => SieveSame(run)' /\ SieveWritten(run, archive)'
    BY <1>1, <1>2, <2>1, <2>2 DEF Steady, SieveSame, SieveWritten, Same, ItemsOf
  <2>4. SieveCopies'
    BY <1>1, <2>3 DEF SieveCopies, OneActive, WholeRow
  <2> QED
    BY <1>2, <2>1, <2>4 DEF Clean, Over
<1>3. ASSUME run.pc = "get", NEW e \in run.todo, NEW b,
             run' = Planned([run EXCEPT !.todo = @ \ {e}, !.failed = b]), b = TRUE
      PROVE  SieveCopies' /\ Clean
  <2>1. PICK r : r = [run EXCEPT !.todo = run.todo \ {e}, !.failed = b]
    OBVIOUS
  <2>2. r = [pc |-> "get", todo |-> run.todo \ {e}, got |-> run.got, gone |-> run.gone, active |-> run.active,
             failed |-> TRUE]
    BY <1>1, <1>3, <2>1 DEF SieveRecord
  <2>3. SieveRecord(r)
    BY <1>1, <2>2 DEF SieveRecord
  <2> QED
    BY <1>2, <1>3, <2>1, <2>2, <2>3
<1>4. CASE ListScripts
  <2>1. PICK listed : listed = {[item |-> i, home |-> server.home[i]] : i \in server.on}
    OBVIOUS
  <2>2. PICK r : r = [run EXCEPT !.pc = "get", !.todo = listed]
    OBVIOUS
  <2>3. run' = Planned(r) /\ run.pc = "list"
    BY <1>4, <2>1, <2>2 DEF ListScripts
  <2>4. r = [pc |-> "get", todo |-> listed, got |-> run.got, gone |-> run.gone, active |-> run.active,
             failed |-> run.failed]
    BY <1>1, <2>2 DEF SieveRecord
  <2>5. listed \subseteq [item : Items, home : Homes]
    BY <1>1, <2>1 DEF SieveInv, ItemsInv, ItemsTyped
  <2>6. /\ \A e \in listed : e.item \in server.on /\ e.home = server.home[e.item]
        /\ \A i \in server.on : i \in ItemsOf(listed)
    <3>1. \A i \in server.on : [item |-> i, home |-> server.home[i]] \in listed
      BY <2>1
    <3>2. ASSUME NEW i \in server.on PROVE i \in ItemsOf(listed)
      <4>1. PICK e : e = [item |-> i, home |-> server.home[i]]
        OBVIOUS
      <4> QED
        BY <3>1, <4>1 DEF ItemsOf
    <3> QED
      BY <2>1, <3>2
  <2>7. SieveRecord(r)
    BY <1>1, <2>4, <2>5 DEF SieveRecord
  <2>8. ~r.failed /\ ~past.moved => SieveSame(r)
    BY <1>1, <2>3, <2>4, <2>6 DEF SieveCopies, Steady, SieveSame
  <2> QED
    BY <1>2, <2>3, <2>4, <2>7, <2>8
<1>5. CASE GetScriptFails
  <2>1. PICK e \in run.todo : run' = Skipped(e)
    BY <1>5 DEF GetScriptFails
  <2> QED
    BY <1>3, <1>5, <2>1 DEF Skipped, GetScriptFails
<1>6. CASE GetScript
  <2>1. PICK e \in run.todo :
          run' = IF e.item \in server.on
                   THEN Planned([run EXCEPT !.todo = @ \ {e},
                          !.got = Append(@, [item |-> e.item, home |-> e.home,
                                             ver |-> server.ver[e.item]])])
                   ELSE Skipped(e)
    BY <1>6 DEF GetScript
  <2>2. CASE e.item \notin server.on
    BY <1>3, <1>6, <2>1, <2>2 DEF Skipped, GetScript
  <2>3. CASE e.item \in server.on
    <3>1. PICK x : x = [item |-> e.item, home |-> e.home, ver |-> server.ver[e.item]]
      OBVIOUS
    <3>2. PICK r : r = [run EXCEPT !.todo = run.todo \ {e}, !.got = Append(run.got, x)]
      OBVIOUS
    <3>3. run' = Planned(r) /\ run.pc = "get"
      BY <1>6, <2>1, <2>3, <3>1, <3>2 DEF GetScript
    <3>4. r = [pc |-> "get", todo |-> run.todo \ {e}, got |-> Append(run.got, x), gone |-> run.gone,
               active |-> run.active, failed |-> run.failed]
      BY <1>1, <3>2, <3>3 DEF SieveRecord
    <3>5. /\ run.got \in Seq(Gotten) /\ run.todo \subseteq [item : Items, home : Homes]
          /\ x \in Gotten
      BY <1>1, <3>1 DEF SieveRecord, Gotten, SieveInv, SieveServer
    <3>6. Append(run.got, x) \in Seq(Gotten) /\ \A y : y \in ToSet(Append(run.got, x)) <=> y \in ToSet(run.got) \/ y = x
      <4>1. PICK s : s = Append(run.got, x)
        OBVIOUS
      <4>2. /\ s \in Seq(Gotten) /\ Len(s) = Len(run.got) + 1 /\ s[Len(s)] = x
            /\ \A j \in 1..Len(run.got) : s[j] = run.got[j]
        BY <3>5, <4>1
      <4>3. DOMAIN s = 1..Len(s) /\ DOMAIN run.got = 1..Len(run.got) /\ Len(run.got) \in Nat
        BY <3>5, <4>2
      <4>4. \A y : y \in ToSet(s) <=> y \in ToSet(run.got) \/ y = x
        BY <4>2, <4>3 DEF ToSet
      <4> QED
        BY <4>1, <4>2, <4>4
    <3>7. SieveRecord(r)
      BY <1>1, <3>4, <3>5, <3>6 DEF SieveRecord
    <3>8. ASSUME ~r.failed, ~past.moved PROVE SieveSame(r)
      <4>1. SieveSame(run)
        BY <1>1, <3>4, <3>8 DEF SieveCopies, Steady
      <4>2. Same(x)
        BY <2>3, <3>1, <3>3, <4>1 DEF SieveSame, Same
      <4>3. server.on \subseteq ItemsOf(r.todo) \union ItemsOf(ToSet(r.got))
        <5> SUFFICES ASSUME NEW i \in server.on, i \notin ItemsOf(run.todo \ {e})
                     PROVE  i \in ItemsOf(ToSet(Append(run.got, x)))
          BY <3>4
        <5>1. i = x.item \/ i \in ItemsOf(ToSet(run.got))
          BY <3>1, <3>3, <4>1 DEF SieveSame, ItemsOf
        <5> QED
          BY <3>6, <5>1 DEF ItemsOf
      <4> QED
        BY <3>3, <3>4, <3>6, <4>1, <4>2, <4>3 DEF SieveSame
    <3> QED
      BY <1>2, <3>3, <3>4, <3>7, <3>8
  <2> QED
    BY <2>2, <2>3
<1> QED
  BY <1>4, <1>5, <1>6

(* What was got is written, what is gone is deleted, and the active one    *)
(* becomes it.                                                             *)
LEMMA ApplyingIsSame ==
  ASSUME SieveInv, SieveCopies,
         \/ WriteScript \/ WriteFails \/ Assign
         \/ \E i \in Unlisted : DeleteScript(i) \/ DeleteScriptFails(i)
  PROVE  SieveCopies' /\ Clean
<1>1. /\ UNCHANGED <<part, server, past>> /\ Running /\ run.pc = "apply" /\ IsSieve
      /\ SieveRecord(run) /\ server.on \subseteq Items
      /\ OneActive(server.home) /\ \A i \in Items : server.home[i] \in {Idle, Active}
      /\ \A r \in archive : WholeRow(r)
      /\ Steady => SieveSame(run) /\ SieveWritten(run, archive)
  BY DEF WriteScript, WriteFails, Assign, DeleteScript, DeleteScriptFails, Running, SieveInv,
    ItemsInv, ItemsTyped, SieveCopies
<1>2. ASSUME \A r \in archive' : WholeRow(r), run'.pc = "apply", run.failed => run'.failed,
             Steady /\ ~run'.failed => SieveSame(run') /\ SieveWritten(run', archive')
      PROVE  SieveCopies' /\ Clean
  <2>1. Steady' => Steady /\ ~run'.failed
    BY <1>1, <1>2 DEF Steady
  <2>2. Steady' => SieveSame(run)' /\ SieveWritten(run, archive)'
    BY <1>1, <1>2, <2>1 DEF SieveSame, SieveWritten, Same, ItemsOf
  <2>3. SieveCopies'
    BY <1>1, <1>2, <2>2 DEF SieveCopies, OneActive, WholeRow
  <2> QED
    BY <1>2, <2>3 DEF Clean, Over
<1>3. CASE WriteFails
  <2>1. PICK a : run' = [run EXCEPT !.got = Tail(@), !.failed = TRUE, !.active = a]
    BY <1>3 DEF WriteFails
  <2>2. run' = [pc |-> "apply", todo |-> run.todo, got |-> Tail(run.got), gone |-> run.gone,
                active |-> a, failed |-> TRUE]
    BY <1>1, <2>1 DEF SieveRecord
  <2>3. archive' = archive
    BY <1>3 DEF WriteFails
  <2> QED
    BY <1>1, <1>2, <2>2, <2>3
<1>4. ASSUME NEW i \in Unlisted, DeleteScriptFails(i)
      PROVE  SieveCopies' /\ Clean
  <2>1. run' = [run EXCEPT !.gone = run.gone \ {i}, !.failed = TRUE] /\ archive' = archive
    BY <1>4 DEF DeleteScriptFails
  <2>2. run' = [pc |-> "apply", todo |-> run.todo, got |-> run.got, gone |-> run.gone \ {i},
                active |-> run.active, failed |-> TRUE]
    BY <1>1, <2>1 DEF SieveRecord
  <2> QED
    BY <1>1, <1>2, <2>1, <2>2
<1>5. ASSUME NEW i \in Unlisted, DeleteScript(i)
      PROVE  SieveCopies' /\ Clean
  <2>1. run' = [run EXCEPT !.gone = run.gone \ {i}] /\ archive' = Without(archive, {i})
        /\ i \in run.gone /\ run.got = <<>>
    BY <1>5 DEF DeleteScript
  <2>2. run' = [pc |-> "apply", todo |-> run.todo, got |-> run.got, gone |-> run.gone \ {i},
                active |-> run.active, failed |-> run.failed]
    BY <1>1, <2>1 DEF SieveRecord
  <2>3. \A r \in archive' : WholeRow(r) /\ r \in archive /\ r.item # i
    BY <1>1, <2>1 DEF Without
  <2>4. \A r \in archive : r.item # i => r \in archive'
    BY <2>1 DEF Without
  <2>5. ASSUME Steady PROVE SieveSame(run') /\ SieveWritten(run', archive')
    <3>1. SieveSame(run) /\ SieveWritten(run, archive)
      BY <1>1, <2>5
    <3>2. SieveSame(run')
      BY <1>1, <2>2, <3>1 DEF SieveSame
    <3>3. i \notin server.on
      BY <1>1, <2>1, <3>1 DEF SieveWritten
    <3>4. ItemsOf(archive') = ItemsOf(archive) \ {i}
      BY <2>3, <2>4 DEF ItemsOf
    <3> QED
      BY <1>1, <2>2, <2>3, <3>1, <3>2, <3>3, <3>4 DEF SieveWritten
  <2> QED
    BY <1>1, <1>2, <2>2, <2>3, <2>5 DEF Steady, Running
<1>6. CASE Assign
  <2>1. archive' = Assigned(archive, run.active) /\ run' = Over(run.failed)
        /\ run.got = <<>> /\ run.gone = {}
    BY <1>6 DEF Assign
  <2> DEFINE f(r) == [r EXCEPT !.home = IF r.item \in run.active THEN Active ELSE Idle]
  <2>2. archive' = {f(r) : r \in archive}
    BY <2>1 DEF Assigned
  <2>3. ASSUME NEW r \in archive
        PROVE  /\ WholeRow(f(r)) /\ f(r).item = r.item /\ f(r).ver = r.ver
               /\ f(r).home = IF r.item \in run.active THEN Active ELSE Idle
    <3>1. WholeRow(r)
      BY <1>1
    <3>2. PICK h, q : h = (IF r.item \in run.active THEN Active ELSE Idle) /\ q = [r EXCEPT !.home = h]
      OBVIOUS
    <3>3. q = [item |-> r.item, home |-> h, ver |-> r.ver, tag |-> r.tag, whole |-> r.whole]
      BY <3>1, <3>2, WholeRowExcept
    <3>4. q = f(r)
      BY <3>2
    <3> HIDE DEF f
    <3> QED
      BY <3>1, <3>2, <3>3, <3>4 DEF WholeRow
  <2> HIDE DEF f
  <2>4. \A r \in archive' : WholeRow(r)
    BY <2>2, <2>3
  <2>5. ItemsOf(archive') = ItemsOf(archive)
    BY <2>2, <2>3 DEF ItemsOf
  <2>6. ~Running'
    BY <2>1 DEF Over, Running
  <2>7. SieveCopies'
    BY <1>1, <2>4, <2>6 DEF SieveCopies, Steady, OneActive, WholeRow
  <2>8. ASSUME run' = Over(FALSE), ~past.moved PROVE CopiedBut(past.unseen)'
    <3>1. Steady
      BY <1>1, <2>1, <2>8 DEF Steady, Over
    <3>2. /\ ItemsOf(archive) \subseteq server.on
          /\ \A i \in run.active : server.home[i] = Active
          /\ \A i \in server.on : /\ i \in ItemsOf(archive) /\ (server.home[i] = Active => i \in run.active)
                                  /\ \A q \in archive : q.item = i => q.ver = server.ver[i]
      <4>1. ItemsOf(ToSet(run.got)) = {}
        BY <2>1 DEF ItemsOf, ToSet
      <4> QED
        BY <1>1, <2>1, <3>1, <4>1 DEF SieveWritten
    <3>3. ASSUME NEW r \in archive' PROVE r.ver = server.ver[r.item] /\ r.home = server.home[r.item] /\ r.whole
      <4>1. PICK q \in archive : r = f(q)
        BY <2>2
      <4>2. q.item \in server.on /\ r.item = q.item /\ r.ver = q.ver /\ WholeRow(r)
            /\ r.home = IF r.item \in run.active THEN Active ELSE Idle
        BY <2>3, <3>2, <4>1 DEF ItemsOf
      <4> QED
        BY <1>1, <3>2, <4>2 DEF WholeRow
    <3>4. MirroredBut(past.unseen)'
      BY <1>1, <2>5, <3>2, <3>3 DEF MirroredBut
    <3>5. part' \in {"sieve", "maildir"}
      BY <1>1 DEF IsSieve
    <3> QED
      BY <3>4, <3>5, ItemsAreCopied
  <2> QED
    BY <2>7, <2>8 DEF Clean
<1>7. CASE WriteScript
  <2> DEFINE s == Head(run.got)
             known == {r \in archive : r.item = s.item}
             new == [item |-> s.item, home |-> Idle, ver |-> s.ver, tag |-> s.ver, whole |-> TRUE]
             f(r) == [r EXCEPT !.ver = s.ver, !.tag = s.ver]
             active == IF s.home = Active THEN {s.item} ELSE run.active
  <2>1. /\ run.got # <<>>
        /\ archive' = (archive \ known) \union IF known = {} THEN {new} ELSE {f(r) : r \in known}
        /\ run' = [run EXCEPT !.got = Tail(@), !.active = active]
    BY <1>7 DEF WriteScript
  <2>2. /\ WholeRow(new) /\ new.item = s.item /\ new.ver = s.ver
        /\ \A r \in archive : WholeRow(f(r)) /\ f(r).item = r.item /\ f(r).ver = s.ver
    <3>1. ASSUME NEW r \in archive PROVE WholeRow(f(r)) /\ f(r).item = r.item /\ f(r).ver = s.ver
      <4>1. WholeRow(r)
        BY <1>1
      <4>2. PICK v, q : v = s.ver /\ q = [r EXCEPT !.ver = v, !.tag = v]
        OBVIOUS
      <4>3. q = [item |-> r.item, home |-> r.home, ver |-> v, tag |-> v, whole |-> r.whole]
        BY <4>1, <4>2, WholeRowExcept
      <4>4. q = f(r)
        BY <4>2
      <4> HIDE DEF f, s
      <4> QED
        BY <4>1, <4>2, <4>3, <4>4 DEF WholeRow
    <3>2. WholeRow(new) /\ new.item = s.item /\ new.ver = s.ver
      BY DEF WholeRow
    <3> HIDE DEF new, f, s
    <3> QED
      BY <3>1, <3>2
  <2>3. /\ Tail(run.got) \in Seq(Gotten) /\ s \in ToSet(run.got)
        /\ \A x \in ToSet(run.got) : x = s \/ x \in ToSet(Tail(run.got))
        /\ \A x \in ToSet(Tail(run.got)) : x \in ToSet(run.got)
    <3>1. run.got \in Seq(Gotten) /\ run.got # <<>>
      BY <1>1, <2>1 DEF SieveRecord
    <3>2. PICK g : g = run.got
      OBVIOUS
    <3>3. PICK t : t = Tail(g)
      OBVIOUS
    <3>4. /\ g \in Seq(Gotten) /\ t \in Seq(Gotten) /\ Len(g) \in Nat /\ Len(g) >= 1 /\ Len(t) = Len(g) - 1
          /\ DOMAIN g = 1..Len(g) /\ DOMAIN t = 1..(Len(g) - 1) /\ s = g[1]
          /\ \A j \in 1..(Len(g) - 1) : t[j] = g[j + 1]
      BY <3>1, <3>2, <3>3
    <3>5. ASSUME NEW j \in 1..Len(g) PROVE g[j] = s \/ g[j] \in ToSet(t)
      <4>1. CASE j = 1
        BY <3>4, <4>1
      <4>2. CASE j # 1
        <5>1. j - 1 \in 1..(Len(g) - 1) /\ (j - 1) + 1 = j
          BY <3>4, <4>2
        <5>2. t[j - 1] = g[j]
          BY <3>4, <5>1
        <5> QED
          BY <3>4, <5>1, <5>2 DEF ToSet
      <4> QED
        BY <4>1, <4>2
    <3>6. ASSUME NEW j \in 1..(Len(g) - 1) PROVE t[j] \in ToSet(g)
      <4>1. j + 1 \in 1..Len(g) /\ t[j] = g[j + 1]
        BY <3>4
      <4> QED
        BY <3>4, <4>1 DEF ToSet
    <3>7. s \in ToSet(g) /\ \A x \in ToSet(t) : x \in ToSet(g)
      <4>1. s \in ToSet(g)
        <5>1. 1 \in DOMAIN g /\ s = g[1]
          BY <3>4
        <5> HIDE DEF s
        <5> QED
          BY <5>1 DEF ToSet
      <4>2. \A x \in ToSet(t) : x \in ToSet(g)
        <5> HIDE DEF s
        <5>1. ASSUME NEW x \in ToSet(t) PROVE x \in ToSet(g)
          <6>1. PICK j \in DOMAIN t : x = t[j]
            BY DEF ToSet
          <6> QED
            BY <3>4, <3>6, <6>1
        <5> QED
          BY <5>1
      <4> QED
        BY <4>1, <4>2
    <3>8. \A x \in ToSet(g) : x = s \/ x \in ToSet(t)
      <4> HIDE DEF s
      <4> QED
        BY <3>4, <3>5 DEF ToSet
    <3> HIDE DEF s
    <3> QED
      BY <3>2, <3>3, <3>4, <3>7, <3>8
  <2>4. PICK b : b = active
    OBVIOUS
  <2> HIDE DEF s, new, f
  <2>5. run' = [pc |-> "apply", todo |-> run.todo, got |-> Tail(run.got), gone |-> run.gone,
                active |-> b, failed |-> run.failed]
    <3>1. run' = [run EXCEPT !.got = Tail(run.got), !.active = b]
      BY <2>1, <2>4
    <3> QED
      BY <1>1, <3>1 DEF SieveRecord
  <2>6. /\ \A r \in archive' : WholeRow(r) /\ (r.item = s.item => r.ver = s.ver)
                               /\ (r.item # s.item => r \in archive)
        /\ \A r \in archive : r.item # s.item => r \in archive'
        /\ s.item \in ItemsOf(archive')
    <3>1. CASE known = {}
      <4>1. archive' = archive \union {new} /\ \A r \in archive : r.item # s.item
        BY <2>1, <3>1
      <4> QED
        BY <1>1, <2>2, <4>1 DEF ItemsOf
    <3>2. CASE known # {}
      <4>1. archive' = (archive \ known) \union {f(r) : r \in known}
        BY <2>1, <3>2
      <4>2. PICK r \in known : TRUE
        BY <3>2
      <4>3. f(r) \in archive' /\ f(r).item = s.item
        BY <2>2, <4>1, <4>2
      <4> QED
        BY <1>1, <2>2, <4>1, <4>3 DEF ItemsOf
    <3> QED
      BY <3>1, <3>2
  <2>7. ASSUME Steady PROVE SieveSame(run') /\ SieveWritten(run', archive')
    <3>1. SieveSame(run) /\ SieveWritten(run, archive)
      BY <1>1, <2>7
    <3>2. SieveSame(run')
      BY <1>1, <2>3, <2>5, <3>1 DEF SieveSame
    <3>3. Same(s)
      BY <2>3, <3>1 DEF SieveSame
    <3>4. ASSUME NEW i \in server.on, i \notin ItemsOf(ToSet(Tail(run.got))), i # s.item
          PROVE  i \notin ItemsOf(ToSet(run.got))
      BY <2>3, <3>4 DEF ItemsOf
    <3>5. ASSUME NEW i \in b PROVE i \in server.on /\ server.home[i] = Active
      BY <1>1, <2>4, <3>1, <3>3, <3>5 DEF SieveWritten, Same
    <3>6. ASSUME NEW i \in server.on \ ItemsOf(ToSet(Tail(run.got)))
          PROVE  /\ i \in ItemsOf(archive') /\ (server.home[i] = Active => i \in b)
                 /\ \A q \in archive' : q.item = i => q.ver = server.ver[i]
      <4>1. CASE i = s.item
        BY <2>4, <2>6, <3>3, <4>1 DEF Same
      <4>2. CASE i # s.item
        <5>1. /\ i \in ItemsOf(archive) /\ (server.home[i] = Active => i \in run.active)
              /\ \A q \in archive : q.item = i => q.ver = server.ver[i]
          BY <1>1, <3>1, <3>4, <3>6, <4>2 DEF SieveWritten
        <5>2. server.home[i] = Active => s.home # Active
          BY <1>1, <3>3, <4>2 DEF OneActive, Same
        <5> QED
          BY <2>4, <2>6, <4>2, <5>1, <5>2 DEF ItemsOf
      <4> QED
        BY <4>1, <4>2
    <3>7. ItemsOf(archive') \subseteq server.on \union run.gone
      <4> SUFFICES ASSUME NEW r \in archive' PROVE r.item \in server.on \union run.gone
        BY DEF ItemsOf
      <4> QED
        BY <1>1, <2>6, <3>1, <3>3 DEF SieveWritten, ItemsOf, Same
    <3> QED
      BY <1>1, <2>5, <3>1, <3>2, <3>5, <3>6, <3>7 DEF SieveWritten
  <2> QED
    BY <1>1, <1>2, <2>5, <2>6, <2>7 DEF Steady, Running
<1> QED
  BY <1>3, <1>4, <1>5, <1>6, <1>7

(* Another client changes the scripts, or a run begins or is stopped.      *)
LEMMA OthersAreSame ==
  ASSUME SieveInv, SieveCopies,
         \/ \E i \in Items : SieveArrive(i) \/ SieveLeave(i) \/ SieveAlter(i) \/ SetActive(i)
         \/ SieveStart \/ SieveCrash \/ UNCHANGED vars
  PROVE  SieveCopies' /\ Clean
<1>1. /\ server.home \in [Items -> Homes] /\ Idle # Active /\ OneActive(server.home)
      /\ server = [on |-> server.on, home |-> server.home, ver |-> server.ver, changes |-> server.changes]
      /\ past = [missed |-> past.missed, moved |-> past.moved, unseen |-> past.unseen,
                 frozen |-> past.frozen]
      /\ \A i \in Items : server.home[i] \in {Idle, Active}
      /\ \A r \in archive : WholeRow(r)
  BY DEF SieveInv, ItemsInv, ItemsTyped, SieveCopies, Idle, Active
<1>2. CASE \E i \in Items : SieveArrive(i) \/ SieveLeave(i) \/ SieveAlter(i) \/ SetActive(i)
  <2>1. PICK i \in Items : SieveArrive(i) \/ SieveLeave(i) \/ SieveAlter(i) \/ SetActive(i)
    BY <1>2
  <2>2. UNCHANGED <<archive, run>> /\ past'.moved = TRUE
    BY <1>1, <2>1 DEF SieveArrive, SieveLeave, SieveAlter, SetActive, Changing, Arrive, Leave, Alter
  <2>3. PICK home : /\ server'.home = home
                    /\ \/ home = server.home
                       \/ home = [server.home EXCEPT ![i] = Idle]
                       \/ home = [server.home EXCEPT ![i] = server.home[i]]
                       \/ home = [j \in Items |-> IF j = i THEN Active ELSE Idle]
    <3>1. CASE SetActive(i)
      <4>1. PICK home : home = [j \in Items |-> IF j = i THEN Active ELSE Idle]
        OBVIOUS
      <4>2. server' = [server EXCEPT !.changes = @ + 1, !.home = home]
        BY <3>1, <4>1 DEF SetActive
      <4>3. server'.home = home
        BY <1>1, <4>2
      <4> QED
        BY <4>1, <4>3
    <3>2. CASE SieveLeave(i)
      <4>1. server' = [server EXCEPT !.on = @ \ {i}, !.changes = @ + 1]
        BY <3>2 DEF SieveLeave, Leave
      <4> QED
        BY <1>1, <4>1
    <3>3. CASE SieveArrive(i)
      BY <3>3 DEF SieveArrive, Arrive, Renewed
    <3>4. CASE SieveAlter(i)
      BY <3>4 DEF SieveAlter, Alter, Renewed
    <3> QED
      BY <2>1, <3>1, <3>2, <3>3, <3>4
  <2>4. OneActive(server'.home) /\ \A j \in Items : server'.home[j] \in {Idle, Active}
    BY <1>1, <2>3 DEF OneActive
  <2>5. SieveCopies'
    BY <1>1, <2>2, <2>4 DEF SieveCopies, Steady, OneActive, WholeRow
  <2> QED
    BY <2>2, <2>5 DEF Clean, Running, Over
<1>3. CASE SieveStart
  <2>1. /\ ~Running /\ run' = Scripts("list") /\ UNCHANGED <<server, archive>>
    BY <1>3 DEF SieveStart, Begin
  <2>2. (SieveSame(run) /\ SieveWritten(run, archive))'
    BY <2>1 DEF Scripts, SieveSame, SieveWritten, ToSet
  <2>3. SieveCopies'
    BY <1>1, <2>1, <2>2 DEF SieveCopies, OneActive, WholeRow
  <2> QED
    BY <2>1, <2>3 DEF Clean
<1>4. CASE SieveCrash
  <2>1. UNCHANGED <<server, archive>> /\ ~Running' /\ run' # Over(FALSE)
    BY <1>4 DEF SieveCrash, Crash, Running, Over
  <2>2. SieveCopies'
    BY <1>1, <2>1 DEF SieveCopies, OneActive, WholeRow, Steady
  <2> QED
    BY <2>1, <2>2 DEF Clean
<1>5. CASE UNCHANGED vars
  <2>1. UNCHANGED <<server, archive, run, past>>
    BY <1>5 DEF vars
  <2>2. SieveCopies'
    BY <2>1 DEF SieveCopies, OneActive, WholeRow, Steady, Running, SieveSame, SieveWritten, Same, ItemsOf
  <2> QED
    BY <2>1, <2>2 DEF Clean, Running, Over
<1> QED
  BY <1>2, <1>3, <1>4, <1>5

(* A run over a ManageSieve account that did not change, and that reports  *)
(* no failure, leaves a row of the content that each script has, no other  *)
(* row, and the active script as the active one, whatever was there before.*)
THEOREM SieveCleanRunCopies == SieveSpec => CleanRunMirrors
<1>1. SieveInit => SieveInv /\ SieveCopies
  <2> SUFFICES ASSUME SieveInit PROVE SieveInv /\ SieveCopies
    OBVIOUS
  <2>1. ~Running /\ archive = {} /\ OneActive(server.home) /\ \A i \in Items : server.home[i] \in {Idle, Active}
    BY DEF SieveInit, RerunsInit, Over, Running
  <2> QED
    BY <2>1, SieveAtFirst DEF SieveCopies, Steady
<1>2. SieveInv /\ SieveCopies /\ [SieveNext]_vars => (SieveInv /\ SieveCopies)' /\ Clean
  <2> SUFFICES ASSUME SieveInv, SieveCopies, [SieveNext]_vars
               PROVE  (SieveInv /\ SieveCopies)' /\ Clean
    OBVIOUS
  <2>1. SieveInv'
    BY SieveSteps
  <2>2. CASE \/ \E i \in Items : SieveArrive(i) \/ SieveLeave(i) \/ SieveAlter(i) \/ SetActive(i)
             \/ SieveStart \/ SieveCrash \/ UNCHANGED vars
    BY <2>1, <2>2, OthersAreSame
  <2>3. CASE ListScripts \/ GetScript \/ GetScriptFails
    BY <2>1, <2>3, GettingIsSame
  <2>4. CASE WriteScript \/ WriteFails \/ Assign \/ \E i \in Unlisted : DeleteScript(i) \/ DeleteScriptFails(i)
    BY <2>1, <2>4, ApplyingIsSame
  <2> QED
    BY <2>2, <2>3, <2>4 DEF SieveNext, SieveRun
<1>3. Clean => [Running /\ run' = Over(FALSE) /\ ~past.moved => CopiedBut(past.unseen)']_vars
  BY DEF Clean
<1> QED
  BY <1>1, <1>2, <1>3, PTL DEF SieveSpec, CleanRunMirrors

-----------------------------------------------------------------------------
(* Clean runs over a Maildir: the folders that were gone through are       *)
(* copied, and what is listed is what is in the folder.                    *)

MaildirCopies ==
  /\ \A r \in archive : WholeRow(r)
  /\ Steady =>
       /\ run.touched = {} /\ run.old = {}
       /\ \A r \in archive : r.home < run.at => r.item \in server.on /\ r.ver = server.ver[r.item]
       /\ \A i \in server.on : server.home[i] < run.at => i \in ItemsOf(archive) \union past.unseen
       /\ run.pc = "apply" =>
            /\ run.listed \subseteq Names(run.at)
            /\ ItemsOf(Names(run.at)) \subseteq ItemsOf(run.listed) \union past.unseen

(* The folder is copied too: the run goes on to the next one, or ends.     *)
LEMMA NextFolderIsNext ==
  ASSUME MaildirInv, MaildirInv', Running, NEW failed, run' = NextMaildir(failed),
         run.failed => failed, UNCHANGED <<part, server, past>>, \A r \in archive' : WholeRow(r),
         Steady /\ ~failed =>
           /\ \A r \in archive' : r.home <= run.at => r.item \in server.on /\ r.ver = server.ver[r.item]
           /\ \A i \in server.on : server.home[i] <= run.at => i \in ItemsOf(archive') \union past.unseen
  PROVE  MaildirCopies' /\ Clean
<1>1. /\ run.at \in Homes /\ LastHome \in Nat \ {0} /\ IsMaildir /\ server.home \in [Items -> Homes]
      /\ server.on \subseteq Items /\ \A r \in archive' : r.item \in Items /\ r.home = server.home[r.item]
  BY RerunsAssumption DEF MaildirInv, MaildirTyped, ItemsInv, ItemsTyped, AtHome
<1>2. CASE run.at = LastHome
  <2>1. run' = Over(failed)
    BY <1>2 DEF NextMaildir
  <2>2. ~Running' /\ MaildirCopies'
    BY <2>1 DEF Over, Running, MaildirCopies, Steady, WholeRow
  <2>3. ASSUME run' = Over(FALSE), ~past.moved PROVE CopiedBut(past.unseen)'
    <3>1. Steady /\ ~failed
      BY <2>1, <2>3 DEF Steady, Over
    <3>2. \A h \in Homes : h <= run.at
      BY <1>1, <1>2 DEF Homes
    <3>3. /\ \A r \in archive' : r.item \in server.on /\ r.ver = server.ver[r.item] /\ r.whole
          /\ \A i \in server.on : i \in ItemsOf(archive') \union past.unseen
      BY <1>1, <3>1, <3>2 DEF WholeRow
    <3>4. MirroredBut(past.unseen)'
      BY <1>1, <3>3 DEF MirroredBut, ItemsOf
    <3>5. part' \in {"sieve", "maildir"}
      BY <1>1 DEF IsMaildir
    <3> QED
      BY <3>4, <3>5, ItemsAreCopied
  <2> QED
    BY <2>2, <2>3 DEF Clean
<1>3. CASE run.at # LastHome
  <2>1. run' = [pc |-> "scan", at |-> run.at + 1, old |-> {}, touched |-> {}, listed |-> {}, failed |-> failed]
    BY <1>3 DEF NextMaildir, Maildir
  <2>2. \A h \in Homes : h < run.at + 1 <=> h <= run.at
    BY <1>1 DEF Homes
  <2>3. Steady' => Steady /\ ~failed
    BY <2>1 DEF Steady
  <2>4. MaildirCopies'
    BY <1>1, <2>1, <2>2, <2>3 DEF MaildirCopies, WholeRow
  <2> QED
    BY <2>1, <2>4 DEF Clean, Over
<1> QED
  BY <1>2, <1>3

(* In a folder that nothing touches, a scan finds the names there are.     *)
LEMMA ScanIsSame ==
  ASSUME MaildirInv, MaildirCopies, Scan \/ ScanOverlooks \/ DirectoryOverlooked
  PROVE  MaildirCopies' /\ Clean
<1>1. /\ UNCHANGED <<part, server, archive>> /\ run.pc = "scan" /\ Running
      /\ run = [pc |-> run.pc, at |-> run.at, old |-> run.old, touched |-> run.touched,
              listed |-> run.listed, failed |-> run.failed]
      /\ past = [missed |-> past.missed, moved |-> past.moved, unseen |-> past.unseen,
                 frozen |-> past.frozen]
  BY DEF Scan, ScanOverlooks, DirectoryOverlooked, Running, MaildirInv, MaildirTyped, ItemsInv, ItemsTyped
<1>2. ASSUME NEW listed, NEW b, NEW unseen, run.failed => b,
             run' = [run EXCEPT !.pc = "apply", !.listed = listed, !.old = {}, !.touched = {}, !.failed = b],
             past' = [past EXCEPT !.unseen = @ \union unseen],
             Steady /\ ~b => /\ listed \subseteq Names(run.at)
                             /\ ItemsOf(Names(run.at)) \subseteq ItemsOf(listed) \union past.unseen \union unseen
      PROVE  MaildirCopies' /\ Clean
  <2>1. run' = [pc |-> "apply", at |-> run.at, old |-> {}, touched |-> {}, listed |-> listed, failed |-> b]
    BY <1>1, <1>2
  <2>2. past' = [missed |-> past.missed, moved |-> past.moved, unseen |-> past.unseen \union unseen,
                 frozen |-> past.frozen]
    BY <1>1, <1>2
  <2>3. Steady' => Steady /\ ~b
    BY <1>1, <1>2, <2>1, <2>2 DEF Steady
  <2>4. Names(run.at)' = Names(run.at)
    BY <1>1, <2>1 DEF Names, Name, There
  <2>5. MaildirCopies'
    BY <1>1, <1>2, <2>1, <2>2, <2>3, <2>4 DEF MaildirCopies, WholeRow
  <2> QED
    BY <2>1, <2>5 DEF Clean, Over
<1>3. CASE Scan
  <2>1. PICK some : /\ some \subseteq run.old \union {n \in Names(run.at) : n.item \in run.touched}
                    /\ run' = [run EXCEPT !.pc = "apply",
                                 !.listed = {n \in Names(run.at) : n.item \notin run.touched} \union some,
                                 !.old = {}, !.touched = {}]
    BY <1>3 DEF Scan
  <2>2. PICK listed : listed = {n \in Names(run.at) : n.item \notin run.touched} \union some
    OBVIOUS
  <2>3. run' = [run EXCEPT !.pc = "apply", !.listed = listed, !.old = {}, !.touched = {}, !.failed = run.failed]
    BY <1>1, <2>1, <2>2
  <2>4. past' = [past EXCEPT !.unseen = @ \union {}]
    BY <1>1, <1>3 DEF Scan
  <2>5. Steady => listed = Names(run.at)
    BY <2>1, <2>2 DEF MaildirCopies
  <2> QED
    BY <1>2, <2>3, <2>4, <2>5
<1>4. CASE ScanOverlooks
  <2>1. PICK n \in Names(run.at) :
          /\ run' = [run EXCEPT !.pc = "apply", !.listed = Names(run.at) \ {n},
                                !.old = {}, !.touched = {}, !.failed = TRUE]
          /\ past' = [past EXCEPT !.unseen = @ \union {n.item} \union run.touched]
    BY <1>4 DEF ScanOverlooks
  <2>2. past' = [past EXCEPT !.unseen = @ \union ({n.item} \union run.touched)]
    BY <1>1, <2>1
  <2> QED
    BY <1>2, <2>1, <2>2
<1>5. CASE DirectoryOverlooked
  <2>1. /\ run' = [run EXCEPT !.pc = "apply", !.listed = {}, !.old = {}, !.touched = {}]
        /\ past' = [past EXCEPT !.unseen = @ \union ItemsOf(Names(run.at))]
    BY <1>5 DEF DirectoryOverlooked
  <2>2. run' = [run EXCEPT !.pc = "apply", !.listed = {}, !.old = {}, !.touched = {}, !.failed = run.failed]
    BY <1>1, <2>1
  <2> QED
    BY <1>2, <2>1, <2>2
<1> QED
  BY <1>3, <1>4, <1>5

(* The names that were listed are written to the rows of the folder, and   *)
(* each of them can still be read.                                         *)
LEMMA ApplyIsSame ==
  ASSUME MaildirInv, MaildirCopies, ApplyFolder
  PROVE  MaildirCopies' /\ Clean
<1> DEFINE known == InHome(archive, run.at)
           new == {n \in run.listed : n.item \notin ItemsOf(known)}
           readable == {n \in new : n \in Names(run.at)}
           f(n) == [item |-> n.item, home |-> run.at, ver |-> n.ver, tag |-> n.ver, whole |-> TRUE]
           added == {f(n) : n \in readable}
           failed == run.failed \/ readable # new
<1>1. /\ UNCHANGED <<part, server, past>> /\ run.pc = "apply" /\ Running
      /\ archive' = (archive \ known) \union KnownStill(known, run.listed) \union added
      /\ run' = NextMaildir(failed)
  BY DEF ApplyFolder, Running, Unknown, Inserted
<1>2. \A n \in Names(run.at) : n.item \in server.on /\ n.ver = server.ver[n.item]
  BY DEF Names, Name, There
<1>3. \A r \in archive : WholeRow(r) /\ r.home = server.home[r.item]
  BY DEF MaildirCopies, MaildirInv, AtHome
<1>4. ASSUME NEW r \in KnownStill(known, run.listed)
      PROVE  WholeRow(r) /\ \E n \in run.listed : r.item = n.item /\ r.ver = n.ver
  <2>1. PICK p \in known \X run.listed : r = [p[1] EXCEPT !.ver = p[2].ver, !.tag = p[2].ver]
                                         /\ p[1].item = p[2].item
    BY DEF KnownStill
  <2>2. PICK q, n : q = p[1] /\ n = p[2]
    OBVIOUS
  <2>3. q \in known /\ n \in run.listed /\ WholeRow(q) /\ q.item = n.item
    BY <1>3, <2>1, <2>2 DEF InHome
  <2>4. PICK v : v = n.ver
    OBVIOUS
  <2>5. r = [q EXCEPT !.ver = v, !.tag = v]
    BY <2>1, <2>2, <2>4
  <2>6. r = [item |-> q.item, home |-> q.home, ver |-> v, tag |-> v, whole |-> q.whole]
    BY <2>3, <2>5, WholeRowExcept
  <2> QED
    BY <2>3, <2>4, <2>6 DEF WholeRow
<1>5. \A n \in readable : f(n).item = n.item /\ f(n).ver = n.ver /\ WholeRow(f(n)) /\ n \in Names(run.at)
  BY DEF WholeRow
<1> HIDE DEF f
<1>6. \A r \in archive' : WholeRow(r)
  BY <1>1, <1>3, <1>4, <1>5
<1>7. ASSUME Steady
      PROVE  /\ \A r \in archive' : r.home <= run.at => r.item \in server.on /\ r.ver = server.ver[r.item]
             /\ \A i \in server.on : server.home[i] <= run.at => i \in ItemsOf(archive') \union past.unseen
  <2>1. /\ \A r \in archive : r.home < run.at => r.item \in server.on /\ r.ver = server.ver[r.item]
        /\ \A i \in server.on : server.home[i] < run.at => i \in ItemsOf(archive) \union past.unseen
        /\ run.listed \subseteq Names(run.at)
        /\ ItemsOf(Names(run.at)) \subseteq ItemsOf(run.listed) \union past.unseen
    BY <1>1, <1>7 DEF MaildirCopies
  <2>2. /\ run.at \in Int /\ server.on \subseteq Items
        /\ \A i \in Items : server.home[i] \in Int
        /\ \A r \in archive : r.item \in Items
    BY <1>1, RerunsAssumption DEF MaildirInv, MaildirTyped, ItemsInv, ItemsTyped, Homes
  <2>3. ASSUME NEW r \in archive', r.home <= run.at
        PROVE  r.item \in server.on /\ r.ver = server.ver[r.item]
    <3>1. CASE r \in archive \ known
      <4>1. r \in archive /\ r.home # run.at
        BY <3>1 DEF InHome
      <4>2. r.home \in Int
        <5>1. r.home = server.home[r.item]
          BY <1>3, <4>1
        <5> QED
          BY <2>2, <4>1, <5>1
      <4>3. r.home < run.at
        BY <2>2, <2>3, <4>1, <4>2
      <4> QED
        BY <2>1, <4>1, <4>3
    <3>2. CASE r \in KnownStill(known, run.listed)
      BY <1>2, <1>4, <2>1, <3>2
    <3>3. CASE r \in added
      BY <1>2, <1>5, <3>3
    <3> QED
      BY <1>1, <3>1, <3>2, <3>3
  <2>4. ASSUME NEW i \in server.on, server.home[i] <= run.at, i \notin past.unseen
        PROVE  i \in ItemsOf(archive')
    <3>1. CASE server.home[i] < run.at
      <4>1. PICK r \in archive : r.item = i
        BY <2>1, <2>4, <3>1 DEF ItemsOf
      <4>2. r \in archive'
        BY <1>1, <1>3, <2>2, <3>1, <4>1 DEF InHome
      <4> QED
        BY <4>1, <4>2 DEF ItemsOf
    <3>2. CASE server.home[i] = run.at
      <4>1. Name(i) \in Names(run.at) /\ Name(i).item = i
        BY <3>2 DEF Names, Name, There
      <4>2. PICK n \in run.listed : n.item = i
        BY <2>1, <2>4, <4>1 DEF ItemsOf
      <4>3. CASE i \in ItemsOf(known)
        <5>1. PICK r \in known : r.item = i
          BY <4>3 DEF ItemsOf
        <5>2. r.item \in ItemsOf(run.listed)
          BY <4>2, <5>1 DEF ItemsOf
        <5>3. i \in ItemsOf(KnownStill(known, run.listed))
          BY <5>1, <5>2, SeenAgain
        <5> QED
          BY <1>1, <5>3 DEF ItemsOf
      <4>4. CASE i \notin ItemsOf(known)
        <5>1. n \in readable
          BY <2>1, <4>2, <4>4
        <5>2. f(n) \in archive' /\ f(n).item = i
          BY <1>1, <1>5, <4>2, <5>1
        <5> QED
          BY <5>2 DEF ItemsOf
      <4> QED
        BY <4>3, <4>4
    <3> QED
      BY <2>2, <2>4, <3>1, <3>2
  <2> QED
    BY <2>3, <2>4
<1>8. MaildirInv'
  BY MaildirSteps DEF MaildirNext, MaildirRun
<1>9. PICK b : b = failed
  OBVIOUS
<1> HIDE DEF failed
<1>10. run' = NextMaildir(b) /\ (run.failed => b)
  BY <1>1, <1>9 DEF failed
<1> QED
  BY <1>1, <1>6, <1>7, <1>8, <1>10, NextFolderIsNext

(* A mail program changes something, or a run begins, ends, or passes over *)
(* a folder.                                                               *)
LEMMA MaildirOthersAreSame ==
  ASSUME MaildirInv, MaildirCopies,
         \/ \E i \in Items : MaildirArrive(i) \/ MaildirLeave(i) \/ MaildirAlter(i)
         \/ MaildirStart \/ ScanFails \/ MaildirCrash \/ UNCHANGED vars
  PROVE  MaildirCopies' /\ Clean
<1>1. /\ past = [missed |-> past.missed, moved |-> past.moved, unseen |-> past.unseen,
                 frozen |-> past.frozen]
      /\ \A r \in archive : WholeRow(r)
      /\ server.home \in [Items -> Homes] /\ server.on \subseteq Items
      /\ \A r \in archive : r.item \in Items /\ r.home = server.home[r.item]
      /\ \A h \in Homes : ~(h < 1)
  BY RerunsAssumption DEF MaildirInv, ItemsInv, ItemsTyped, AtHome, MaildirCopies, Homes
<1>2. CASE \E i \in Items : MaildirArrive(i) \/ MaildirLeave(i) \/ MaildirAlter(i)
  <2>1. PICK i \in Items : MaildirArrive(i) \/ MaildirLeave(i) \/ MaildirAlter(i)
    BY <1>2
  <2>2. archive' = archive /\ past'.moved = TRUE /\ \E n : Touch(i, n)
    BY <1>1, <2>1 DEF MaildirArrive, MaildirLeave, MaildirAlter, Changes, Arrive, Leave, Alter
  <2>3. MaildirCopies'
    BY <1>1, <2>2 DEF MaildirCopies, Steady, WholeRow
  <2>4. PICK n : Touch(i, n)
    BY <2>2
  <2>5. Running => run' # Over(FALSE)
    <3>1. CASE Scanning(server.home[i])
      <4>1. run' = [pc |-> "scan", at |-> run.at, old |-> run.old \union n,
                    touched |-> run.touched \union {i}, listed |-> run.listed, failed |-> run.failed]
        BY <2>4, <3>1 DEF Touch, Scanning, MaildirInv, MaildirTyped
      <4> QED
        BY <4>1 DEF Over
    <3>2. CASE ~Scanning(server.home[i])
      BY <2>4, <3>2 DEF Touch, Running, Over
    <3> QED
      BY <3>1, <3>2
  <2> QED
    BY <2>3, <2>5 DEF Clean
<1>3. CASE MaildirStart
  <2>1. /\ ~Running /\ UNCHANGED <<server, archive>>
        /\ run' = [pc |-> "scan", at |-> 1, old |-> {}, touched |-> {}, listed |-> {}, failed |-> FALSE]
    BY <1>3 DEF MaildirStart, Begin, Maildir
  <2>2. MaildirCopies'
    BY <1>1, <2>1 DEF MaildirCopies, WholeRow
  <2> QED
    BY <2>1, <2>2 DEF Clean
<1>4. CASE ScanFails
  <2>1. MaildirInv'
    BY <1>4, MaildirSteps DEF MaildirNext
  <2>2. Running /\ run' = NextMaildir(TRUE) /\ UNCHANGED <<part, server, archive, past>>
    BY <1>4 DEF ScanFails, Running
  <2> QED
    BY <1>1, <2>1, <2>2, NextFolderIsNext
<1>5. CASE MaildirCrash
  <2>1. UNCHANGED <<server, archive>> /\ ~Running' /\ run' # Over(FALSE)
    BY <1>5 DEF MaildirCrash, Crash, Running, Over
  <2>2. MaildirCopies'
    BY <1>1, <2>1 DEF MaildirCopies, WholeRow, Steady
  <2> QED
    BY <2>1, <2>2 DEF Clean
<1>6. CASE UNCHANGED vars
  <2>1. UNCHANGED <<server, archive, run, past>>
    BY <1>6 DEF vars
  <2>2. MaildirCopies'
    BY <2>1 DEF MaildirCopies, WholeRow, Steady, Running, Names, Name, There, ItemsOf
  <2> QED
    BY <2>1, <2>2 DEF Clean, Running, Over
<1> QED
  BY <1>2, <1>3, <1>4, <1>5, <1>6

(* A run over a Maildir that nothing changed meanwhile, and that reports   *)
(* no failure, leaves a row with the keywords of each message's name, and  *)
(* no other row, but for what it could not look at without noticing.       *)
THEOREM MaildirCleanRunCopies == MaildirSpec => CleanRunMirrors
<1>1. MaildirInit => MaildirInv /\ MaildirCopies
  <2> SUFFICES ASSUME MaildirInit PROVE MaildirInv /\ MaildirCopies
    OBVIOUS
  <2>1. ~Running /\ archive = {}
    BY DEF MaildirInit, RerunsInit, Over, Running
  <2> QED
    BY <2>1, MaildirAtFirst DEF MaildirCopies, Steady
<1>2. MaildirInv /\ MaildirCopies /\ [MaildirNext]_vars => (MaildirInv /\ MaildirCopies)' /\ Clean
  <2> SUFFICES ASSUME MaildirInv, MaildirCopies, [MaildirNext]_vars
               PROVE  (MaildirInv /\ MaildirCopies)' /\ Clean
    OBVIOUS
  <2>1. MaildirInv'
    BY MaildirSteps
  <2>2. CASE \/ \E i \in Items : MaildirArrive(i) \/ MaildirLeave(i) \/ MaildirAlter(i)
             \/ MaildirStart \/ ScanFails \/ MaildirCrash \/ UNCHANGED vars
    BY <2>1, <2>2, MaildirOthersAreSame
  <2>3. CASE Scan \/ ScanOverlooks \/ DirectoryOverlooked
    BY <2>1, <2>3, ScanIsSame
  <2>4. CASE ApplyFolder
    BY <2>1, <2>4, ApplyIsSame
  <2> QED
    BY <2>2, <2>3, <2>4 DEF MaildirNext, MaildirRun
<1>3. Clean => [Running /\ run' = Over(FALSE) /\ ~past.moved => CopiedBut(past.unseen)']_vars
  BY DEF Clean
<1> QED
  BY <1>1, <1>2, <1>3, PTL DEF MaildirSpec, CleanRunMirrors

-----------------------------------------------------------------------------
(* Listings.  An item of a listing has the place that the number of items  *)
(* up to it says.                                                          *)

(* A set of numbers has a least one.                                       *)
LEMMA LeastNumber ==
  ASSUME NEW T \in SUBSET Nat, T # {}
  PROVE  \E n \in T : \A m \in T : n <= m
<1>1. PICK n \in T : \A m \in T : ~(<<m, n>> \in OpToRel(<, Nat))
  BY NatLessThanWellFounded, WFMin
<1>2. \A m \in T : ~(m < n)
  BY <1>1 DEF OpToRel
<1> QED
  BY <1>2

PlaceIn(S, i) == Cardinality({j \in S : j <= i})

(* Places: from 1, and in the order of the items.                          *)
LEMMA PlacesAreOrdered ==
  ASSUME NEW S \in SUBSET Nat, IsFiniteSet(S)
  PROVE  /\ Cardinality(S) \in Nat
         /\ \A i \in S : PlaceIn(S, i) \in 1..Cardinality(S)
         /\ \A i, j \in S : i < j => PlaceIn(S, i) < PlaceIn(S, j)
<1>1. Cardinality(S) \in Nat
  BY FS_CardinalityType
<1>2. ASSUME NEW i \in S
      PROVE  /\ IsFiniteSet({j \in S : j <= i}) /\ PlaceIn(S, i) \in Nat
             /\ PlaceIn(S, i) <= Cardinality(S) /\ PlaceIn(S, i) # 0
  <2> DEFINE T == {j \in S : j <= i}
  <2>1. T \in SUBSET S /\ i \in T
    OBVIOUS
  <2> HIDE DEF T
  <2>2. IsFiniteSet(T) /\ Cardinality(T) <= Cardinality(S)
    BY <2>1, FS_Subset
  <2>3. Cardinality(T) \in Nat /\ Cardinality(T) # 0
    BY <2>1, <2>2, FS_CardinalityType, FS_EmptySet
  <2> QED
    BY <2>2, <2>3 DEF PlaceIn, T
<1>3. ASSUME NEW i \in S, NEW j \in S, i < j
      PROVE  PlaceIn(S, i) < PlaceIn(S, j)
  <2> DEFINE T == {k \in S : k <= i}
             U == {k \in S : k <= j}
  <2>0. i \in Nat /\ j \in Nat /\ \A k \in S : k \in Nat
    OBVIOUS
  <2>1. T \union {j} \in SUBSET U /\ j \notin T
    <3>1. \A k \in S : k <= i => k <= j
      BY <1>3, <2>0
    <3>2. ~(j <= i) /\ j <= j
      BY <1>3, <2>0
    <3> QED
      BY <3>1, <3>2
  <2>2. IsFiniteSet(T) /\ IsFiniteSet(U) /\ Cardinality(T) \in Nat /\ Cardinality(U) \in Nat
    BY <1>2 DEF PlaceIn
  <2> HIDE DEF T, U
  <2>3. Cardinality(T \union {j}) = Cardinality(T) + 1
    BY <2>1, <2>2, FS_AddElement
  <2>4. Cardinality(T \union {j}) <= Cardinality(U)
    BY <2>1, <2>2, FS_Subset
  <2> QED
    BY <2>2, <2>3, <2>4 DEF PlaceIn, T, U
<1>4. \A i \in S : PlaceIn(S, i) \in 1..Cardinality(S)
  <2> SUFFICES ASSUME NEW i \in S PROVE PlaceIn(S, i) \in 1..Cardinality(S)
    OBVIOUS
  <2>1. PlaceIn(S, i) \in Nat /\ PlaceIn(S, i) <= Cardinality(S) /\ PlaceIn(S, i) # 0
    BY <1>2
  <2> QED
    BY <1>1, <2>1
<1> QED
  BY <1>1, <1>3, <1>4

(* InOrder(S) exists, and has each item of S at its place.                 *)
LEMMA InOrderHasAll ==
  ASSUME NEW S \in SUBSET Nat, IsFiniteSet(S)
  PROVE  /\ InOrder(S) \in [1..Cardinality(S) -> S]
         /\ \A k \in 1..Cardinality(S) : PlaceIn(S, InOrder(S)[k]) = k
         /\ \A i \in S : InOrder(S)[PlaceIn(S, i)] = i
<1> DEFINE n == Cardinality(S)
           Increasing(s) == \A j, k \in DOMAIN s : j < k => s[j] < s[k]
<1>1. /\ n \in Nat /\ \A i \in S : PlaceIn(S, i) \in 1..n
      /\ \A i, j \in S : i < j => PlaceIn(S, i) < PlaceIn(S, j)
  BY PlacesAreOrdered
<1>2. \A i, j \in S : PlaceIn(S, i) = PlaceIn(S, j) => i = j
  <2> SUFFICES ASSUME NEW i \in S, NEW j \in S, PlaceIn(S, i) = PlaceIn(S, j), i # j
               PROVE  FALSE
    OBVIOUS
  <2>1. i < j \/ j < i
    OBVIOUS
  <2>2. PlaceIn(S, i) \in Nat
    BY <1>1
  <2> QED
    BY <1>1, <2>1, <2>2
<1>3. \A k \in 1..n : \E i \in S : PlaceIn(S, i) = k
  <2> DEFINE g == [i \in S |-> PlaceIn(S, i)]
  <2>1. g \in Injection(S, 1..n)
    BY <1>1, <1>2 DEF Injection, IsInjective
  <2>2. IsFiniteSet(1..n) /\ Cardinality(1..n) = n
    BY <1>1, FS_Interval
  <2> HIDE DEF g
  <2>3. g \in Surjection(S, 1..n)
    BY <2>1, <2>2, FS_Injection
  <2> QED
    BY <2>3 DEF Surjection, g
<1>4. \E s \in [1..n -> S] : Increasing(s)
  <2> DEFINE s == [k \in 1..n |-> CHOOSE i \in S : PlaceIn(S, i) = k]
  <2>1. \A k \in 1..n : s[k] \in S /\ PlaceIn(S, s[k]) = k
    BY <1>3
  <2>2. s \in [1..n -> S]
    BY <2>1
  <2> HIDE DEF s
  <2>3. ASSUME NEW j \in 1..n, NEW k \in 1..n, j < k, ~(s[j] < s[k])
        PROVE  FALSE
    <3>0. \A x \in S : x \in Nat
      OBVIOUS
    <3>1. s[j] \in Nat /\ s[k] \in Nat /\ j \in Nat /\ k \in Nat
      <4>1. s[j] \in S /\ s[k] \in S
        BY <2>1
      <4>2. j \in Nat /\ k \in Nat
        BY <1>1
      <4> QED
        BY <3>0, <4>1, <4>2
    <3>2. s[k] < s[j] \/ s[j] = s[k]
      BY <2>3, <3>1
    <3>3. s[j] \in S /\ s[k] \in S /\ PlaceIn(S, s[j]) = j /\ PlaceIn(S, s[k]) = k
      BY <2>1
    <3>4. s[k] < s[j] => k < j
      BY <1>1, <3>3
    <3> QED
      BY <2>3, <3>1, <3>2, <3>3, <3>4
  <2> QED
    BY <2>2, <2>3
<1> DEFINE e == InOrder(S)
<1>5. e \in [1..n -> S] /\ Increasing(e)
  <2> HIDE DEF Increasing
  <2>1. e = CHOOSE s \in [1..n -> S] : Increasing(s)
    BY DEF InOrder, Increasing
  <2> QED
    BY <1>4, <2>1
<1> HIDE DEF e
<1>6. e \in Injection(1..n, S)
  <2> SUFFICES ASSUME NEW j \in 1..n, NEW k \in 1..n, e[j] = e[k], j # k
               PROVE  FALSE
    BY <1>5 DEF Injection, IsInjective
  <2>1. j < k \/ k < j
    BY <1>1
  <2>2. e[j] \in Nat /\ e[k] \in Nat
    BY <1>5
  <2> QED
    BY <1>5, <2>1, <2>2
<1>7. e \in Surjection(1..n, S)
  <2>1. Cardinality(1..n) = n
    BY <1>1, FS_Interval
  <2> QED
    BY <1>6, <2>1, FS_Injection
<1>8. ASSUME NEW k \in 1..n
      PROVE  PlaceIn(S, e[k]) = k
  <2> DEFINE T == {j \in S : j <= e[k]}
             f == [l \in 1..k |-> e[l]]
  <2>1. k \in Nat /\ 1..k \subseteq 1..n
    BY <1>1
  <2>2. \A l \in 1..k : f[l] \in T
    <3> SUFFICES ASSUME NEW l \in 1..k PROVE e[l] \in S /\ e[l] <= e[k]
      OBVIOUS
    <3>0. l \in 1..n /\ k \in 1..n
      BY <2>1
    <3>1. e[l] \in S /\ e[k] \in S /\ (l < k \/ l = k)
      BY <1>5, <2>1, <3>0
    <3>3. \A x \in S : x \in Nat
      OBVIOUS
    <3>2. l < k => e[l] < e[k]
      BY <1>5, <3>0
    <3>4. e[l] \in Nat /\ e[k] \in Nat
      BY <3>1, <3>3
    <3>5. l = k => e[l] = e[k]
      OBVIOUS
    <3> QED
      BY <3>1, <3>2, <3>4, <3>5
  <2>3. \A t \in T : \E l \in 1..k : f[l] = t
    <3> SUFFICES ASSUME NEW t \in S, t <= e[k] PROVE \E l \in 1..k : e[l] = t
      BY <2>1
    <3>1. PICK l \in 1..n : e[l] = t
      BY <1>7 DEF Surjection
    <3>2. ~(k < l)
      <4>1. k < l => e[k] < e[l]
        BY <1>5, <3>1
      <4>2. e[k] \in Nat /\ e[l] \in Nat
        BY <1>5, <3>1
      <4> QED
        BY <3>1, <4>1, <4>2
    <3> QED
      BY <2>1, <3>1, <3>2
  <2>4. f \in Injection(1..k, T)
    BY <1>6, <2>1, <2>2 DEF Injection, IsInjective
  <2>5. f \in Bijection(1..k, T)
    BY <2>3, <2>4 DEF Bijection, Surjection, Injection
  <2>6. IsFiniteSet(1..k) /\ Cardinality(1..k) = k
    BY <2>1, FS_Interval
  <2> HIDE DEF T, f
  <2>7. Cardinality(T) = k
    BY <2>5, <2>6, FS_Bijection DEF ExistsBijection
  <2> QED
    BY <2>7 DEF PlaceIn, T
<1>9. ASSUME NEW i \in S PROVE e[PlaceIn(S, i)] = i
  <2>1. PICK k \in 1..n : e[k] = i
    BY <1>7 DEF Surjection
  <2> QED
    BY <1>8, <2>1
<1> QED
  BY <1>5, <1>8, <1>9 DEF e

(* What is picked from a sequence is in it, at one of the positions.       *)
LEMMA PickedFrom ==
  ASSUME NEW T, NEW s \in Seq(T), NEW P \in SUBSET DOMAIN s
  PROVE  /\ Picked(s, P) \in Seq({s[k] : k \in P})
         /\ Picked(s, P) \in Seq(T)
<1>1. Len(s) \in Nat /\ P \in SUBSET Nat /\ IsFiniteSet(P)
  <2>1. Len(s) \in Nat /\ DOMAIN s = 1..Len(s)
    OBVIOUS
  <2>2. IsFiniteSet(1..Len(s))
    BY <2>1, FS_Interval
  <2> QED
    BY <2>1, <2>2, FS_Subset
<1>2. Cardinality(P) \in Nat /\ InOrder(P) \in [1..Cardinality(P) -> P]
  BY <1>1, InOrderHasAll, FS_CardinalityType
<1>3. \A k \in 1..Cardinality(P) : Picked(s, P)[k] \in {s[j] : j \in P} /\ Picked(s, P)[k] \in T
  <2> SUFFICES ASSUME NEW k \in 1..Cardinality(P)
               PROVE  s[InOrder(P)[k]] \in {s[j] : j \in P} /\ s[InOrder(P)[k]] \in T
    BY DEF Picked
  <2>1. InOrder(P)[k] \in P
    BY <1>2
  <2> QED
    BY <2>1
<1>4. Picked(s, P) = [k \in 1..Cardinality(P) |-> Picked(s, P)[k]]
  BY DEF Picked
<1>5. \A U : (\A k \in 1..Cardinality(P) : Picked(s, P)[k] \in U) => Picked(s, P) \in Seq(U)
  BY <1>2, <1>4
<1> QED
  BY <1>3, <1>5

(* The first n entries of a sequence, and the others.                      *)
LEMMA FirstAndRest ==
  ASSUME NEW T, NEW s \in Seq(T), NEW n \in Nat
  PROVE  /\ First(s, n) \in Seq(T) /\ Len(First(s, n)) = (IF n < Len(s) THEN n ELSE Len(s))
         /\ \A k \in 1..Len(First(s, n)) : First(s, n)[k] = s[k]
         /\ Rest(s, n) \in Seq(T) /\ Len(Rest(s, n)) = (IF n < Len(s) THEN Len(s) - n ELSE 0)
         /\ \A k \in 1..Len(Rest(s, n)) : Rest(s, n)[k] = s[n + k]
<1> DEFINE m == IF n < Len(s) THEN n ELSE Len(s)
<1>1. Len(s) \in Nat /\ m \in Nat /\ m <= Len(s) /\ \A k \in 1..Len(s) : s[k] \in T
  OBVIOUS
<1>2. /\ \A k \in 1..m : s[k] \in T
      /\ \A k \in (n + 1)..Len(s) : s[k] \in T
  BY <1>1
<1> HIDE DEF m
<1>3. /\ SubSeq(s, 1, m) \in Seq(T)
      /\ Len(SubSeq(s, 1, m)) = IF 1 <= m THEN m - 1 + 1 ELSE 0
      /\ \A k \in 1..(m - 1 + 1) : SubSeq(s, 1, m)[k] = s[1 + k - 1]
  BY <1>1, <1>2, SubSeqProperties
<1>4. /\ SubSeq(s, n + 1, Len(s)) \in Seq(T)
      /\ Len(SubSeq(s, n + 1, Len(s))) = IF n + 1 <= Len(s) THEN Len(s) - (n + 1) + 1 ELSE 0
      /\ \A k \in 1..(Len(s) - (n + 1) + 1) : SubSeq(s, n + 1, Len(s))[k] = s[n + 1 + k - 1]
  <2>1. n + 1 \in Int /\ Len(s) \in Int
    BY <1>1
  <2> QED
    BY <1>2, <2>1, SubSeqProperties
<1>5. First(s, n) = SubSeq(s, 1, m) /\ Rest(s, n) = SubSeq(s, n + 1, Len(s))
  BY DEF First, Rest, m
<1>6. Len(First(s, n)) = m /\ \A k \in 1..m : First(s, n)[k] = s[k]
  BY <1>1, <1>3, <1>5
<1>7. /\ Len(Rest(s, n)) = IF n < Len(s) THEN Len(s) - n ELSE 0
      /\ \A k \in 1..Len(Rest(s, n)) : Rest(s, n)[k] = s[n + k]
  <2>1. Len(Rest(s, n)) = IF n < Len(s) THEN Len(s) - n ELSE 0
    BY <1>1, <1>4, <1>5
  <2>2. ASSUME NEW k \in 1..Len(Rest(s, n)) PROVE Rest(s, n)[k] = s[n + k]
    <3>1. k \in Nat /\ k \in 1..(Len(s) - (n + 1) + 1)
      BY <1>1, <2>1, <2>2
    <3>2. n + 1 + k - 1 = n + k
      BY <3>1
    <3> QED
      BY <1>4, <1>5, <3>1, <3>2
  <2> QED
    BY <2>1, <2>2
<1> QED
  BY <1>3, <1>4, <1>5, <1>6, <1>7 DEF m

(* What is in a sequence.                                                  *)
LEMMA SetOfSequence ==
  ASSUME NEW T, NEW s \in Seq(T)
  PROVE  /\ \A x : x \in ToSet(s) <=> \E k \in 1..Len(s) : x = s[k]
         /\ ToSet(s) \subseteq T
<1>1. DOMAIN s = 1..Len(s) /\ \A k \in 1..Len(s) : s[k] \in T
  OBVIOUS
<1> QED
  BY <1>1 DEF ToSet

-----------------------------------------------------------------------------
(* The items of EWS: while a folder is listed page by page, an item that   *)
(* no page has named yet is on a page to come, unless it is new, is gone,  *)
(* or came into a page that was read when one of that page went.           *)

ThereOf(sv, h) == {i \in sv.on : sv.home[i] = h}
KnownAt(sv, h) == {i \in Items : sv.ver[i] # 0 /\ sv.home[i] = h}
EwsRecord(r) ==
  r = [pc |-> r.pc, at |-> r.at, from |-> r.from, listed |-> r.listed, changed |-> r.changed,
       todo |-> r.todo, window |-> r.window, got |-> r.got, gone |-> r.gone, failed |-> r.failed]
InHand(r, ids) ==
  /\ r.listed \in Seq([item : ids, ver : Nat]) /\ r.got \in Seq([item : ids, ver : Nat])
  /\ r.todo \in Seq(ids) /\ r.window \subseteq Seq(ids)
OnPages(r, there, excused) ==
  r.pc = "find" =>
    \A i \in there :
      i \in excused \/ i \in ItemsOf(ToSet(r.listed)) \/ r.from < PlaceIn(there, i)
EwsRunOK(r, sv, excused) ==
  /\ EwsRecord(r)
  /\ r.pc \in {"find", "get", "sweep"} /\ r.at \in Homes /\ r.from \in Nat
  /\ InHand(r, KnownAt(sv, r.at))
  /\ r.gone \subseteq excused
  /\ OnPages(r, ThereOf(sv, r.at), excused)
EwsServer ==
  /\ server.ver \in [Items -> Nat] /\ server.changes \in Nat
  /\ \A i \in server.on : server.ver[i] # 0
  /\ \A r \in archive : server.ver[r.item] # 0 /\ r.home = server.home[r.item]
EwsInv == IsEws /\ ItemsInv /\ EwsServer /\ (Running => EwsRunOK(run, server, Excused))

(* What is in hand stays known.                                            *)
LEMMA StillInHand ==
  ASSUME NEW r, NEW ids, InHand(r, ids), NEW more, ids \subseteq more
  PROVE  InHand(r, more)
<1>1. [item : ids, ver : Nat] \subseteq [item : more, ver : Nat]
  OBVIOUS
<1>2. \A A, B : A \subseteq B => Seq(A) \subseteq Seq(B)
  OBVIOUS
<1>3. Seq([item : ids, ver : Nat]) \subseteq Seq([item : more, ver : Nat]) /\ Seq(ids) \subseteq Seq(more)
  BY <1>1, <1>2, Zenon
<1> QED
  BY <1>3 DEF InHand

(* The items of a folder are numbers, and not without end.                 *)
LEMMA ThereIsFinite ==
  ASSUME NEW sv, sv.on \subseteq Items, NEW h
  PROVE  ThereOf(sv, h) \in SUBSET Nat /\ IsFiniteSet(ThereOf(sv, h))
<1>1. Items = 1..LastItem /\ LastItem \in Nat
  BY RerunsAssumption DEF Items
<1>2. IsFiniteSet(Items)
  BY <1>1, FS_Interval
<1>3. ThereOf(sv, h) \in SUBSET Items
  BY DEF ThereOf
<1>4. IsFiniteSet(ThereOf(sv, h))
  BY <1>2, <1>3, FS_Subset
<1> QED
  BY <1>1, <1>3, <1>4

(* The next folder, or the end.                                            *)
LEMMA NextFolderOK ==
  ASSUME NEW r, r.at \in Homes, NEW sv, sv.on \subseteq Items, NEW excused
  PROVE  NextFolder(r) = Over(r.failed) \/ EwsRunOK(NextFolder(r), sv, excused)
<1>1. LastHome \in Nat \ {0}
  BY RerunsAssumption
<1>2. CASE r.at # LastHome
  <2> DEFINE q == NextFolder(r)
  <2>1. q = [pc |-> "find", at |-> r.at + 1, from |-> 0, listed |-> <<>>, changed |-> {}, todo |-> <<>>,
             window |-> {}, got |-> <<>>, gone |-> {}, failed |-> r.failed]
    BY <1>2 DEF NextFolder, Folder
  <2> HIDE DEF q
  <2>2. q.at \in Homes
    BY <1>1, <1>2, <2>1 DEF Homes
  <2>3. EwsRecord(q) /\ InHand(q, KnownAt(sv, q.at))
    BY <2>1 DEF EwsRecord, InHand
  <2>4. \A i \in ThereOf(sv, q.at) : 0 < PlaceIn(ThereOf(sv, q.at), i)
    <3>1. PICK S : S = ThereOf(sv, q.at)
      OBVIOUS
    <3>2. S \in SUBSET Nat /\ IsFiniteSet(S)
      BY <3>1, ThereIsFinite
    <3>3. Cardinality(S) \in Nat /\ \A i \in S : PlaceIn(S, i) \in 1..Cardinality(S)
      BY <3>2, PlacesAreOrdered
    <3>4. \A i \in S : 0 < PlaceIn(S, i)
      BY <3>3
    <3> QED
      BY <3>1, <3>4
  <2> QED
    BY <2>1, <2>2, <2>3, <2>4 DEF EwsRunOK, OnPages, q
<1> QED
  BY <1>2 DEF NextFolder

(* Windows and chunks are of what there is to get.                         *)
LEMMA ChunksInHand ==
  ASSUME NEW T, NEW ids \in Seq(T)
  PROVE  Chunks(ids) \subseteq Seq(T)
<1> SUFFICES ASSUME NEW k \in 0..((Len(ids) - 1) \div Batch)
             PROVE  First(Rest(ids, k * Batch), Batch) \in Seq(T)
  BY DEF Chunks
<1>1. Batch \in Nat /\ k \in Nat
  BY EwsAssumption
<1>2. k * Batch \in Nat
  BY <1>1
<1>3. Rest(ids, k * Batch) \in Seq(T)
  BY <1>2, FirstAndRest
<1> QED
  BY <1>1, <1>3, FirstAndRest

LEMMA ContinueOK ==
  ASSUME NEW sv, sv.on \subseteq Items, NEW excused, NEW r, EwsRunOK(r, sv, excused), r.pc # "find"
  PROVE  Continue(r) = Over(r.failed) \/ EwsRunOK(Continue(r), sv, excused)
<1>1. CASE r.window # {} \/ r.got # <<>>
  BY <1>1 DEF Continue
<1>2. CASE r.window = {} /\ r.got = <<>> /\ r.todo # <<>>
  <2> DEFINE q == Continue(r)
             ids == KnownAt(sv, r.at)
  <2>1. q = [r EXCEPT !.window = Chunks(First(r.todo, Batch * Workers)), !.todo = Rest(r.todo, Batch * Workers)]
    BY <1>2 DEF Continue
  <2> HIDE DEF q
  <2>2. q = [pc |-> r.pc, at |-> r.at, from |-> r.from, listed |-> r.listed, changed |-> r.changed,
             todo |-> Rest(r.todo, Batch * Workers), window |-> Chunks(First(r.todo, Batch * Workers)),
             got |-> r.got, gone |-> r.gone, failed |-> r.failed]
    BY <2>1 DEF EwsRunOK, EwsRecord
  <2>3. Batch * Workers \in Nat /\ r.todo \in Seq(ids)
    BY EwsAssumption DEF EwsRunOK, InHand
  <2> HIDE DEF ids
  <2>4. First(r.todo, Batch * Workers) \in Seq(ids) /\ Rest(r.todo, Batch * Workers) \in Seq(ids)
    BY <2>3, FirstAndRest
  <2>5. Chunks(First(r.todo, Batch * Workers)) \subseteq Seq(ids)
    BY <2>4, ChunksInHand
  <2>6. InHand(q, ids)
    BY <2>2, <2>4, <2>5 DEF EwsRunOK, InHand, ids
  <2>7. EwsRecord(q) /\ q.pc = r.pc /\ q.at = r.at /\ q.from = r.from /\ q.gone = r.gone
    BY <2>2 DEF EwsRecord
  <2> QED
    BY <2>6, <2>7 DEF EwsRunOK, OnPages, q, ids
<1>3. CASE r.window = {} /\ r.got = <<>> /\ r.todo = <<>> /\ r.gone # {}
  <2> DEFINE q == Continue(r)
  <2>1. q = [r EXCEPT !.pc = "sweep"]
    BY <1>3 DEF Continue
  <2> HIDE DEF q
  <2>2. q = [pc |-> "sweep", at |-> r.at, from |-> r.from, listed |-> r.listed, changed |-> r.changed,
             todo |-> r.todo, window |-> r.window, got |-> r.got, gone |-> r.gone, failed |-> r.failed]
    BY <2>1 DEF EwsRunOK, EwsRecord
  <2> QED
    BY <2>2 DEF EwsRunOK, EwsRecord, InHand, OnPages, q
<1>4. CASE r.window = {} /\ r.got = <<>> /\ r.todo = <<>> /\ r.gone = {}
  <2>1. Continue(r) = NextFolder(r) /\ r.at \in Homes
    BY <1>4 DEF Continue, EwsRunOK
  <2> QED
    BY <2>1, NextFolderOK
<1> QED
  BY <1>1, <1>2, <1>3, <1>4

(* What is known of an item stays so, and what excuses one does: it is     *)
(* enough that each item of a folder that is being listed is accounted for.*)
LEMMA StillOK ==
  ASSUME NEW r, NEW sv, NEW excused, EwsRunOK(r, sv, excused),
         NEW sw, NEW more, excused \subseteq more, KnownAt(sv, r.at) \subseteq KnownAt(sw, r.at),
         OnPages(r, ThereOf(sw, r.at), more)
  PROVE  EwsRunOK(r, sw, more)
BY StillInHand DEF EwsRunOK

(* The pages that are still to come, when an item arrives, or one goes.    *)
LEMMA PagesWithOneMore ==
  ASSUME NEW r, r.from \in Nat, NEW there \in SUBSET Nat, NEW i \in Nat, IsFiniteSet(there \union {i}),
         NEW excused, OnPages(r, there, excused), i \in excused
  PROVE  OnPages(r, there \union {i}, excused)
<1> SUFFICES ASSUME NEW j \in there, r.from < PlaceIn(there, j)
             PROVE  r.from < PlaceIn(there \union {i}, j)
  BY DEF OnPages
<1> DEFINE S == {k \in there : k <= j}
           T == {k \in there \union {i} : k <= j}
<1>1. IsFiniteSet(T) /\ S \in SUBSET T
  <2>1. T \in SUBSET (there \union {i}) /\ S \in SUBSET T
    OBVIOUS
  <2> HIDE DEF S, T
  <2> QED
    BY <2>1, FS_Subset
<1> HIDE DEF S, T
<1>2. Cardinality(S) <= Cardinality(T) /\ Cardinality(S) \in Nat /\ Cardinality(T) \in Nat
  BY <1>1, FS_Subset, FS_CardinalityType
<1>3. r.from < Cardinality(S)
  BY DEF PlaceIn, S
<1>4. r.from < Cardinality(T)
  BY <1>2, <1>3
<1> QED
  BY <1>4 DEF PlaceIn, T

(* The one that comes to the page before is at the place after the last    *)
(* one that was read.                                                      *)
LEMMA PagesWithOneLess ==
  ASSUME NEW r, r.from \in Nat, NEW there \in SUBSET Nat, IsFiniteSet(there), NEW i \in Nat,
         NEW excused, OnPages(r, there, excused),
         r.pc = "find" /\ i \in there /\ PlaceIn(there, i) <= r.from =>
           \A j \in there : PlaceIn(there, j) = r.from + 1 => j \in excused
  PROVE  OnPages(r, there \ {i}, excused)
<1>1. CASE i \notin there
  <2>1. there \ {i} = there
    BY <1>1
  <2> QED
    BY <2>1
<1>2. CASE i \in there
  <2> SUFFICES ASSUME r.pc = "find", NEW j \in there, j # i, r.from < PlaceIn(there, j), j \notin excused
               PROVE  r.from < PlaceIn(there \ {i}, j)
    BY DEF OnPages
  <2> DEFINE S == {k \in there : k <= j}
             T == {k \in there \ {i} : k <= j}
  <2>1. IsFiniteSet(S) /\ T = S \ {i}
    <3>1. S \in SUBSET there /\ T = S \ {i}
      OBVIOUS
    <3> HIDE DEF S, T
    <3> QED
      BY <3>1, FS_Subset
  <2>2. i \in S <=> i <= j
    BY <1>2
  <2>3. PlaceIn(there, j) = Cardinality(S) /\ PlaceIn(there \ {i}, j) = Cardinality(T)
    BY DEF PlaceIn
  <2> HIDE DEF S, T
  <2>4. /\ Cardinality(S) \in Nat
        /\ Cardinality(T) = IF i \in S THEN Cardinality(S) - 1 ELSE Cardinality(S)
    BY <2>1, FS_CardinalityType, FS_RemoveElement
  <2>5. CASE i <= j
    <3>1. i < j /\ i \in there /\ j \in there
      <4>1. i \in Nat /\ j \in Nat
        OBVIOUS
      <4> QED
        BY <1>2, <2>5, <4>1
    <3>2. PlaceIn(there, i) < PlaceIn(there, j) /\ PlaceIn(there, i) \in Nat
      <4>1. Cardinality(there) \in Nat /\ PlaceIn(there, i) \in 1..Cardinality(there)
        BY <3>1, PlacesAreOrdered
      <4> QED
        BY <3>1, <4>1, PlacesAreOrdered
    <3>3. PlaceIn(there, j) # r.from + 1
      <4>1. CASE PlaceIn(there, i) <= r.from
        BY <1>2, <4>1
      <4>2. CASE ~(PlaceIn(there, i) <= r.from)
        BY <2>3, <2>4, <3>2, <4>2
      <4> QED
        BY <4>1, <4>2
    <3> QED
      BY <2>3, <2>4, <3>3
  <2>6. CASE ~(i <= j)
    BY <2>2, <2>3, <2>4, <2>6
  <2> QED
    BY <2>5, <2>6
<1> QED
  BY <1>1, <1>2

(* A page has the n items after the first `from' ones.                     *)
LEMMA PageHas ==
  ASSUME NEW there \in SUBSET Nat, IsFiniteSet(there), NEW from \in Nat, NEW n \in Nat
  PROVE  /\ InOrder(there) \in Seq(there) /\ Len(InOrder(there)) = Cardinality(there)
         /\ First(Rest(InOrder(there), from), n) \in Seq(there)
         /\ \A j \in there : PlaceIn(there, j) <= from => j \in ToSet(First(InOrder(there), from))
         /\ \A j \in there : from < PlaceIn(there, j) /\ PlaceIn(there, j) <= from + n =>
              j \in ToSet(First(Rest(InOrder(there), from), n))
<1> DEFINE items == InOrder(there)
           rest == Rest(items, from)
           page == First(rest, n)
<1>1. /\ Cardinality(there) \in Nat /\ items \in [1..Cardinality(there) -> there]
      /\ \A j \in there : PlaceIn(there, j) \in 1..Cardinality(there) /\ items[PlaceIn(there, j)] = j
  BY InOrderHasAll, PlacesAreOrdered
<1> HIDE DEF items
<1>2. items \in Seq(there) /\ Len(items) = Cardinality(there)
  BY <1>1
<1>3. /\ rest \in Seq(there) /\ Len(rest) = (IF from < Len(items) THEN Len(items) - from ELSE 0)
      /\ \A k \in 1..Len(rest) : rest[k] = items[from + k]
  BY <1>2, FirstAndRest
<1> HIDE DEF rest
<1>4. /\ page \in Seq(there) /\ Len(page) = (IF n < Len(rest) THEN n ELSE Len(rest))
      /\ \A k \in 1..Len(page) : page[k] = rest[k]
  BY <1>3, FirstAndRest
<1> HIDE DEF page
<1>5. ASSUME NEW j \in there, PlaceIn(there, j) <= from
      PROVE  j \in ToSet(First(items, from))
  <2> DEFINE f == First(items, from)
             k == PlaceIn(there, j)
  <2>1. /\ f \in Seq(there) /\ Len(f) = (IF from < Len(items) THEN from ELSE Len(items))
        /\ \A l \in 1..Len(f) : f[l] = items[l]
    BY <1>2, FirstAndRest
  <2>2. k \in Nat /\ 1 <= k /\ k <= Cardinality(there) /\ k <= from /\ items[k] = j
    BY <1>1, <1>5
  <2> HIDE DEF f, k
  <2>3. k \in 1..Len(f)
    BY <1>1, <1>2, <2>1, <2>2
  <2>4. f[k] = j
    BY <2>1, <2>2, <2>3
  <2>5. j \in ToSet(f)
    BY <2>1, <2>3, <2>4, SetOfSequence
  <2> QED
    BY <2>5 DEF f
<1>6. ASSUME NEW j \in there, from < PlaceIn(there, j), PlaceIn(there, j) <= from + n
      PROVE  j \in ToSet(page)
  <2> DEFINE k == PlaceIn(there, j)
  <2>1. k \in Nat /\ k <= Len(items) /\ from < k /\ k <= from + n /\ items[k] = j
    BY <1>1, <1>2, <1>6
  <2> HIDE DEF k
  <2>2. k - from \in 1..Len(rest) /\ from + (k - from) = k /\ Len(rest) \in Nat
    BY <1>2, <1>3, <2>1
  <2>3. k - from \in 1..Len(page)
    BY <1>4, <2>1, <2>2
  <2>4. page[k - from] = j
    BY <1>3, <1>4, <2>1, <2>2, <2>3
  <2> QED
    BY <1>4, <2>3, <2>4, SetOfSequence
<1> QED
  BY <1>2, <1>4, <1>5, <1>6 DEF items, rest, page

(* Items come, go, and change.                                             *)
LEMMA StoreKeepsEws ==
  ASSUME EwsInv,
         \E i \in Items : EwsLeave(i) \/ EwsAlter(i) \/ \E h \in Homes : EwsArrive(i, h)
  PROVE  EwsInv' /\ KeptItems
<1>1. PICK i \in Items : EwsLeave(i) \/ EwsAlter(i) \/ \E h \in Homes : EwsArrive(i, h)
  OBVIOUS
<1>2. /\ UNCHANGED <<part, archive, run>> /\ IsEws /\ ItemsInv /\ EwsServer
      /\ server.home[i] \in Homes /\ Items \subseteq Nat /\ server.on \subseteq Items
      /\ server.home \in [Items -> Homes]
      /\ server = [on |-> server.on, home |-> server.home, ver |-> server.ver, changes |-> server.changes]
      /\ past = [missed |-> past.missed, moved |-> past.moved, unseen |-> past.unseen, frozen |-> past.frozen]
      /\ \A r \in archive : r.item \in Items
  BY <1>1, RerunsAssumption DEF EwsLeave, EwsAlter, EwsArrive, Changing, EwsInv, ItemsInv, ItemsTyped, Items
<1>3. Running' = Running
  BY <1>2 DEF Running
<1> DEFINE there == ThereOf(server, run.at)
<1>4. there \in SUBSET Nat /\ IsFiniteSet(there)
  BY <1>2, ThereIsFinite
<1>5. Running => /\ EwsRunOK(run, server, Excused) /\ run.from \in Nat /\ OnPages(run, there, Excused)
  BY DEF EwsInv, EwsRunOK
<1>6. ASSUME ItemsInv', EwsServer', Excused \subseteq Excused',
             \A h : KnownAt(server, h) \subseteq KnownAt(server', h),
             Running => OnPages(run, ThereOf(server', run.at), Excused')
      PROVE  EwsInv' /\ KeptItems
  <2>1. Running => EwsRunOK(run, server', Excused')
    BY <1>5, <1>6, StillOK
  <2>2. (Running => EwsRunOK(run, server, Excused))'
    BY <1>2, <1>3, <2>1
  <2> QED
    BY <1>2, <1>6, <2>2 DEF EwsInv, KeptItems, IsEws, ItemsOf
<1>7. CASE EwsLeave(i)
  <2> DEFINE unseen == Shifted(i)
  <2>1. Leave(i, unseen)
    BY <1>7 DEF EwsLeave
  <2>2. /\ ItemsInv' /\ past.missed \subseteq past'.missed /\ past.unseen \subseteq past'.unseen
        /\ Running => i \in past'.missed
    BY <1>2, <1>3, <2>1, ServerKeepsItems
  <2> HIDE DEF unseen
  <2>3. /\ server' = [on |-> server.on \ {i}, home |-> server.home, ver |-> server.ver,
                      changes |-> server.changes + 1]
        /\ past' = [missed |-> past.missed \union {i}, moved |-> TRUE, unseen |-> past.unseen \union unseen,
                    frozen |-> past.frozen]
    BY <1>2, <2>1 DEF Leave
  <2>4. EwsServer' /\ \A h : KnownAt(server, h) \subseteq KnownAt(server', h)
    BY <1>2, <2>3 DEF EwsServer, KnownAt
  <2>5. Excused \subseteq Excused' /\ unseen \subseteq Excused'
    BY <2>2, <2>3 DEF Excused
  <2>6. ThereOf(server', run.at) = there \ {i}
    BY <2>3 DEF ThereOf
  <2>7. ASSUME Running, run.pc = "find", i \in there, PlaceIn(there, i) <= run.from,
               NEW j \in there, PlaceIn(there, j) = run.from + 1
        PROVE  j \in unseen
    <3>1. Listing(run.at) = InOrder(there)
      BY DEF Listing, There, ThereOf
    <3>2. run.from \in Nat /\ 1 \in Nat
      BY <1>5, <2>7
    <3> HIDE DEF there
    <3>3. i \in ToSet(First(InOrder(there), run.from))
      BY <1>4, <2>7, <3>2, PageHas
    <3>4. j \in ToSet(First(Rest(InOrder(there), run.from), 1))
      <4>1. run.from < PlaceIn(there, j) /\ PlaceIn(there, j) <= run.from + 1
        BY <2>7, <3>2
      <4> QED
        BY <1>4, <3>2, <4>1, PageHas
    <3> QED
      BY <2>7, <3>1, <3>3, <3>4 DEF unseen, Shifted
  <2>8. Running => OnPages(run, there \ {i}, Excused')
    <3> SUFFICES ASSUME Running PROVE OnPages(run, there \ {i}, Excused')
      OBVIOUS
    <3>1. OnPages(run, there, Excused') /\ run.from \in Nat /\ i \in Nat
      BY <1>2, <1>5, <2>5 DEF OnPages
    <3>2. run.pc = "find" /\ i \in there /\ PlaceIn(there, i) <= run.from =>
            \A j \in there : PlaceIn(there, j) = run.from + 1 => j \in Excused'
      BY <2>5, <2>7
    <3> HIDE DEF there
    <3> QED
      BY <1>4, <3>1, <3>2, PagesWithOneLess
  <2> QED
    BY <1>6, <2>2, <2>4, <2>5, <2>6, <2>8
<1>8. CASE EwsAlter(i)
  <2>1. Alter(i, server.home[i], {}, {})
    BY <1>8 DEF EwsAlter
  <2>2. ItemsInv' /\ past.missed \subseteq past'.missed /\ past.unseen \subseteq past'.unseen
    BY <1>2, <1>3, <2>1, ServerKeepsItems
  <2>3. /\ server' = [on |-> server.on, home |-> [server.home EXCEPT ![i] = server.home[i]],
                      ver |-> [server.ver EXCEPT ![i] = server.changes + 2], changes |-> server.changes + 1]
        /\ i \in server.on
    BY <2>1 DEF Alter, Renewed
  <2>4. server'.home = server.home /\ server'.on = server.on /\ server'.changes = server.changes + 1
        /\ server'.ver = [server.ver EXCEPT ![i] = server.changes + 2]
    BY <1>2, <2>3
  <2>5. EwsServer' /\ \A h : KnownAt(server, h) \subseteq KnownAt(server', h)
    BY <1>2, <2>4 DEF EwsServer, KnownAt
  <2>6. Excused \subseteq Excused' /\ ThereOf(server', run.at) = there
    BY <2>2, <2>4 DEF Excused, ThereOf
  <2>7. Running => OnPages(run, there, Excused')
    BY <1>5, <2>6 DEF OnPages
  <2> QED
    BY <1>6, <2>2, <2>5, <2>6, <2>7
<1>9. ASSUME NEW h \in Homes, EwsArrive(i, h)
      PROVE  EwsInv' /\ KeptItems
  <2>1. Arrive(i, h) /\ server.ver[i] = 0
    BY <1>9 DEF EwsArrive
  <2>2. /\ ItemsInv' /\ past.missed \subseteq past'.missed /\ past.unseen \subseteq past'.unseen
        /\ Running => i \in past'.missed
    BY <1>2, <1>3, <2>1, ServerKeepsItems
  <2>3. /\ server' = [on |-> server.on \union {i}, home |-> [server.home EXCEPT ![i] = h],
                      ver |-> [server.ver EXCEPT ![i] = server.changes + 2], changes |-> server.changes + 1]
        /\ i \notin server.on
    BY <2>1 DEF Arrive, Renewed
  <2>4. /\ server'.on = server.on \union {i} /\ server'.changes = server.changes + 1
        /\ server'.home = [server.home EXCEPT ![i] = h]
        /\ server'.ver = [server.ver EXCEPT ![i] = server.changes + 2]
    BY <1>2, <2>3
  <2>5. EwsServer' /\ \A k : KnownAt(server, k) \subseteq KnownAt(server', k)
    BY <1>2, <2>1, <2>4 DEF EwsServer, KnownAt
  <2>6. Excused \subseteq Excused' /\ (Running => i \in Excused')
    BY <2>2 DEF Excused
  <2>7. ThereOf(server', run.at) = there \/ ThereOf(server', run.at) = there \union {i}
    BY <1>2, <2>3, <2>4 DEF ThereOf
  <2>8. Running => OnPages(run, there, Excused')
    BY <1>5, <2>6 DEF OnPages
  <2>9. Running => OnPages(run, there \union {i}, Excused')
    <3>1. IsFiniteSet(there \union {i}) /\ i \in Nat
      BY <1>2, <1>4, FS_AddElement
    <3> HIDE DEF there
    <3> QED
      BY <1>4, <1>5, <2>6, <2>8, <3>1, PagesWithOneMore
  <2> QED
    BY <1>6, <2>2, <2>5, <2>6, <2>7, <2>8, <2>9
<1> QED
  BY <1>1, <1>7, <1>8, <1>9

(* What two sequences have, their concatenation has.                       *)
LEMMA OneAfterTheOther ==
  ASSUME NEW T, NEW s \in Seq(T), NEW t \in Seq(T)
  PROVE  /\ s \o t \in Seq(T)
         /\ ToSet(s) \subseteq ToSet(s \o t) /\ ToSet(t) \subseteq ToSet(s \o t)
<1>1. /\ Len(s) \in Nat /\ Len(t) \in Nat /\ s \o t \in Seq(T) /\ Len(s \o t) = Len(s) + Len(t)
      /\ \A k \in 1..Len(s) : (s \o t)[k] = s[k]
      /\ \A k \in 1..Len(t) : (s \o t)[Len(s) + k] = t[k]
  <2>1. /\ Len(s \o t) = Len(s) + Len(t)
        /\ \A i \in 1..(Len(s) + Len(t)) : (s \o t)[i] = IF i <= Len(s) THEN s[i] ELSE t[i - Len(s)]
    BY ConcatProperties
  <2>2. Len(s) \in Nat /\ Len(t) \in Nat /\ s \o t \in Seq(T)
    BY ConcatProperties
  <2>3. ASSUME NEW k \in 1..Len(t) PROVE (s \o t)[Len(s) + k] = t[k]
    <3>1. Len(s) + k \in 1..(Len(s) + Len(t)) /\ ~(Len(s) + k <= Len(s)) /\ Len(s) + k - Len(s) = k
      BY <2>2
    <3> QED
      BY <2>1, <3>1
  <2> QED
    BY <2>1, <2>2, <2>3
<1> HIDE DEF ToSet
<1>2. ASSUME NEW x \in ToSet(s) PROVE x \in ToSet(s \o t)
  <2>1. PICK k \in 1..Len(s) : x = s[k]
    BY SetOfSequence
  <2>2. k \in 1..Len(s \o t) /\ x = (s \o t)[k]
    BY <1>1, <2>1
  <2> QED
    BY <1>1, <2>2, SetOfSequence
<1>3. ASSUME NEW x \in ToSet(t) PROVE x \in ToSet(s \o t)
  <2>1. PICK k \in 1..Len(t) : x = t[k]
    BY SetOfSequence
  <2>2. Len(s) + k \in 1..Len(s \o t) /\ x = (s \o t)[Len(s) + k]
    BY <1>1, <2>1
  <2> QED
    BY <1>1, <2>2, SetOfSequence
<1> QED
  BY <1>1, <1>2, <1>3

(* What a step of the run has to show.                                     *)
LEMMA EwsStepOK ==
  ASSUME EwsInv, Running, UNCHANGED <<part, server>>,
         \/ past' = past
         \/ \E frozen : past' = [past EXCEPT !.frozen = frozen]
         \/ \E i \in Items : past' = [past EXCEPT !.unseen = @ \union {i}],
         NEW failed, run' = Over(failed) \/ EwsRunOK(run', server, Excused),
         \A r \in archive' : /\ r.item \in Items
                             /\ server.ver[r.item] # 0 /\ r.home = server.home[r.item],
         ItemsOf(archive) \ ItemsOf(archive') \subseteq Excused
  PROVE  EwsInv' /\ KeptItems
<1>1. past = [missed |-> past.missed, moved |-> past.moved, unseen |-> past.unseen, frozen |-> past.frozen]
  BY DEF EwsInv, ItemsInv, ItemsTyped
<1>2. /\ past' = [missed |-> past'.missed, moved |-> past'.moved, unseen |-> past'.unseen,
                  frozen |-> past'.frozen]
      /\ past'.missed = past.missed /\ past.unseen \subseteq past'.unseen
  BY <1>1
<1>3. ItemsInv'
  BY <1>2 DEF EwsInv, ItemsInv, ItemsTyped, Missing
<1>4. EwsServer' /\ IsEws' /\ Excused \subseteq Excused'
  BY <1>2 DEF EwsInv, EwsServer, IsEws, Excused
<1>5. Running' => EwsRunOK(run', server', Excused')
  <2>1. ASSUME NEW there, OnPages(run', there, Excused)
        PROVE  OnPages(run', there, Excused')
    BY <1>4, <2>1 DEF OnPages
  <2>2. ASSUME EwsRunOK(run', server, Excused)
        PROVE  EwsRunOK(run', server, Excused')
    BY <1>4, <2>1, <2>2, StillOK DEF EwsRunOK
  <2> QED
    BY <2>2 DEF Over, Running
<1>6. (Running => EwsRunOK(run, server, Excused))'
  BY <1>5
<1> QED
  BY <1>3, <1>4, <1>6 DEF EwsInv, KeptItems

(* A page is listed: what comes after it is what comes after, and with the *)
(* last page nothing comes.                                                *)
LEMMA FindKeepsEws ==
  ASSUME EwsInv, Find
  PROVE  EwsInv' /\ KeptItems
<1> DEFINE items == Listing(run.at)
           page == First(Rest(items, run.from), PageSize)
           seen == [k \in DOMAIN page |-> [item |-> page[k], ver |-> server.ver[page[k]]]]
           listed == run.listed \o seen
           known == InHome(archive, run.at)
           plan == Diff(listed, known)
           there == ThereOf(server, run.at)
           ids == KnownAt(server, run.at)
           Entries == [item : ids, ver : Nat]
           final == [run EXCEPT !.pc = "get", !.from = 0, !.listed = <<>>,
                                !.todo = Ids(plan.new) \o Ids(plan.changed),
                                !.changed = ToSet(Ids(plan.changed)), !.gone = plan.gone]
<1>1. /\ Running /\ run.pc = "find" /\ EwsRunOK(run, server, Excused) /\ ItemsInv /\ EwsServer
      /\ server.on \subseteq Items /\ run.at \in Homes /\ run.from \in Nat /\ PageSize \in Nat
      /\ UNCHANGED <<part, server, archive, past>>
      /\ run' = IF run.from + PageSize < Len(items)
                  THEN [run EXCEPT !.from = run.from + PageSize, !.listed = listed] ELSE Continue(final)
  BY EwsAssumption DEF Find, EwsInv, Running, ItemsInv, ItemsTyped, EwsRunOK
<1>2. there \in SUBSET Nat /\ IsFiniteSet(there) /\ items = InOrder(there)
  BY <1>1, ThereIsFinite DEF Listing, There, ThereOf
<1>3. there \subseteq ids
  BY <1>1 DEF ThereOf, KnownAt, EwsServer
<1>4. /\ page \in Seq(there) /\ Len(items) = Cardinality(there) /\ Cardinality(there) \in Nat
      /\ \A j \in there : PlaceIn(there, j) \in Nat /\ PlaceIn(there, j) <= Cardinality(there)
      /\ \A j \in there : run.from < PlaceIn(there, j) /\ PlaceIn(there, j) <= run.from + PageSize =>
           j \in ToSet(page)
  <2> HIDE DEF there, items
  <2>1. Cardinality(there) \in Nat /\ \A j \in there : PlaceIn(there, j) \in 1..Cardinality(there)
    BY <1>2, PlacesAreOrdered
  <2>2. \A j \in there : PlaceIn(there, j) \in Nat /\ PlaceIn(there, j) <= Cardinality(there)
    BY <2>1
  <2> QED
    BY <1>1, <1>2, <2>1, <2>2, PageHas
<1> HIDE DEF page, items, there
<1>5. /\ run.listed \in Seq(Entries) /\ InHand(run, ids)
      /\ \A j \in there : j \in Excused \/ j \in ItemsOf(ToSet(run.listed)) \/ run.from < PlaceIn(there, j)
      /\ run.gone \subseteq Excused
  BY <1>1 DEF EwsRunOK, InHand, OnPages, there
<1>0. run = [pc |-> run.pc, at |-> run.at, from |-> run.from, listed |-> run.listed,
             changed |-> run.changed, todo |-> run.todo, window |-> run.window, got |-> run.got,
             gone |-> run.gone, failed |-> run.failed]
  BY <1>1 DEF EwsRunOK, EwsRecord
<1>6. seen \in Seq(Entries) /\ \A j \in ToSet(page) : j \in ItemsOf(ToSet(seen))
  <2>1. DOMAIN page = 1..Len(page) /\ Len(page) \in Nat /\ \A k \in 1..Len(page) : page[k] \in there
    BY <1>4
  <2>2. server.ver \in [Items -> Nat] /\ ids \subseteq Items
    BY <1>1 DEF EwsServer, KnownAt
  <2>3. \A k \in 1..Len(page) : [item |-> page[k], ver |-> server.ver[page[k]]] \in Entries
    <3> HIDE DEF ids
    <3> QED
      BY <1>3, <2>1, <2>2
  <2> HIDE DEF Entries
  <2>4. seen \in Seq(Entries) /\ Len(seen) = Len(page)
    BY <2>1, <2>3
  <2>5. ASSUME NEW j \in ToSet(page) PROVE j \in ItemsOf(ToSet(seen))
    <3>1. PICK k \in 1..Len(page) : j = page[k]
      BY <1>4, SetOfSequence
    <3>2. seen[k].item = j /\ k \in 1..Len(seen)
      BY <2>1, <2>4, <3>1
    <3> HIDE DEF seen
    <3>3. seen[k] \in ToSet(seen)
      BY <2>4, <3>2, SetOfSequence
    <3> QED
      BY <3>2, <3>3 DEF ItemsOf
  <2> QED
    BY <2>4, <2>5
<1> HIDE DEF seen
<1>7. /\ listed \in Seq(Entries) /\ ItemsOf(ToSet(run.listed)) \subseteq ItemsOf(ToSet(listed))
      /\ \A j \in ToSet(page) : j \in ItemsOf(ToSet(listed))
  <2>1. listed \in Seq(Entries) /\ ToSet(run.listed) \subseteq ToSet(listed) /\ ToSet(seen) \subseteq ToSet(listed)
    BY <1>5, <1>6, OneAfterTheOther
  <2> QED
    BY <1>6, <2>1 DEF ItemsOf
<1> HIDE DEF listed
<1>8. \A j \in there : \/ j \in Excused \/ j \in ItemsOf(ToSet(listed))
                       \/ run.from + PageSize < PlaceIn(there, j)
  <2> SUFFICES ASSUME NEW j \in there, j \notin Excused, j \notin ItemsOf(ToSet(listed))
               PROVE  run.from + PageSize < PlaceIn(there, j)
    OBVIOUS
  <2>1. run.from < PlaceIn(there, j) /\ j \notin ToSet(page)
    BY <1>5, <1>7
  <2> QED
    BY <1>1, <1>4, <2>1
<1>9. \A r \in archive : r.item \in Items /\ server.ver[r.item] # 0 /\ r.home = server.home[r.item]
  BY <1>1 DEF ItemsInv, ItemsTyped, EwsServer
<1>10. CASE run.from + PageSize < Len(items)
  <2>0. PICK q : q = [run EXCEPT !.from = run.from + PageSize, !.listed = listed]
    OBVIOUS
  <2>1. q = [pc |-> run.pc, at |-> run.at, from |-> run.from + PageSize, listed |-> listed,
             changed |-> run.changed, todo |-> run.todo, window |-> run.window, got |-> run.got,
             gone |-> run.gone, failed |-> run.failed]
    BY <1>0, <2>0
  <2>2. run.from + PageSize \in Nat
    BY <1>1
  <2>3. EwsRecord(q) /\ q.pc = "find" /\ q.at = run.at /\ q.from = run.from + PageSize /\ q.gone = run.gone
        /\ q.listed = listed /\ q.got = run.got /\ q.todo = run.todo /\ q.window = run.window
    BY <1>1, <2>1 DEF EwsRecord
  <2>4. InHand(q, ids)
    BY <1>5, <1>7, <2>3 DEF InHand
  <2>5. OnPages(q, there, Excused)
    BY <1>8, <2>3 DEF OnPages
  <2>6. EwsRunOK(q, server, Excused)
    BY <1>1, <1>5, <2>2, <2>3, <2>4, <2>5 DEF EwsRunOK, there, ids
  <2>7. run' = q
    BY <1>1, <1>10, <2>0
  <2> QED
    BY <1>1, <1>9, <2>6, <2>7, EwsStepOK
<1>11. CASE ~(run.from + PageSize < Len(items))
  <2>1. \A j \in there : j \in Excused \/ j \in ItemsOf(ToSet(listed))
    BY <1>1, <1>4, <1>8, <1>11
  <2>2. plan.gone \subseteq Excused
    <3> SUFFICES ASSUME NEW i \in ItemsOf(known), i \notin ItemsOf(ToSet(listed))
                 PROVE  i \in Excused
      BY DEF Diff, ItemsOf
    <3>1. i \in Items /\ server.home[i] = run.at
      BY <1>9 DEF ItemsOf, InHome
    <3>2. i \in there \/ i \in past.missed
      BY <1>1, <3>1 DEF ItemsInv, Missing, there, ThereOf
    <3> QED
      BY <2>1, <3>2 DEF Excused
  <2>3. \A P : P \subseteq DOMAIN listed => Ids(Picked(listed, P)) \in Seq(ids)
    <3> SUFFICES ASSUME NEW P \in SUBSET DOMAIN listed PROVE Ids(Picked(listed, P)) \in Seq(ids)
      OBVIOUS
    <3>1. PICK s : s = Picked(listed, P)
      OBVIOUS
    <3>2. s \in Seq(Entries)
      BY <1>7, <3>1, PickedFrom
    <3>3. DOMAIN s = 1..Len(s) /\ Len(s) \in Nat /\ \A k \in 1..Len(s) : s[k] \in Entries
      <4> HIDE DEF Entries
      <4> QED
        BY <3>2
    <3>4. \A k \in 1..Len(s) : s[k].item \in ids
      <4> HIDE DEF ids
      <4> QED
        BY <3>3
    <3> HIDE DEF ids, Entries
    <3>5. Ids(s) \in Seq(ids)
      BY <3>3, <3>4 DEF Ids
    <3> QED
      BY <3>1, <3>5
  <2>4. Ids(plan.new) \in Seq(ids) /\ Ids(plan.changed) \in Seq(ids)
    <3>1. \E P, Q : /\ P \subseteq DOMAIN listed /\ Q \subseteq DOMAIN listed
                    /\ plan.new = Picked(listed, P) /\ plan.changed = Picked(listed, Q)
      <4> DEFINE P == {k \in DOMAIN listed : listed[k].item \notin ItemsOf(known)}
                 Q == {k \in DOMAIN listed : \E r \in known : r.item = listed[k].item /\ r.tag # listed[k].ver}
      <4>1. P \subseteq DOMAIN listed /\ Q \subseteq DOMAIN listed
        OBVIOUS
      <4>2. plan.new = Picked(listed, P) /\ plan.changed = Picked(listed, Q)
        BY DEF Diff
      <4> HIDE DEF P, Q, plan
      <4> QED
        BY <4>1, <4>2
    <3> HIDE DEF plan, ids
    <3> QED
      BY <2>3, <3>1
  <2> HIDE DEF plan
  <2>5. Ids(plan.new) \o Ids(plan.changed) \in Seq(ids)
    <3> HIDE DEF ids
    <3> QED
      BY <2>4, OneAfterTheOther
  <2>0. PICK q : q = final
    OBVIOUS
  <2>6. q = [pc |-> "get", at |-> run.at, from |-> 0, listed |-> <<>>,
                 changed |-> ToSet(Ids(plan.changed)), todo |-> Ids(plan.new) \o Ids(plan.changed),
                 window |-> run.window, got |-> run.got, gone |-> plan.gone, failed |-> run.failed]
    BY <1>0, <2>0
  <2>7. <<>> \in Seq(Entries) /\ run.got \in Seq(Entries) /\ run.window \subseteq Seq(ids) /\ 0 \in Nat
    BY <1>5 DEF InHand
  <2>8. EwsRunOK(q, server, Excused) /\ q.pc # "find"
    <3>1. /\ q.pc = "get" /\ q.at = run.at /\ q.from = 0 /\ q.gone = plan.gone
          /\ q.listed = <<>> /\ q.got = run.got /\ q.window = run.window
          /\ q.todo = Ids(plan.new) \o Ids(plan.changed)
      BY <2>6
    <3>2. EwsRecord(q)
      BY <2>6, <3>1 DEF EwsRecord
    <3>3. InHand(q, ids)
      BY <2>5, <2>7, <3>1 DEF InHand
    <3> QED
      BY <1>1, <2>2, <2>7, <3>1, <3>2, <3>3 DEF EwsRunOK, OnPages, ids
  <2>9. run' = Over(q.failed) \/ EwsRunOK(run', server, Excused)
    BY <1>1, <1>11, <2>0, <2>8, ContinueOK
  <2> QED
    BY <1>1, <1>9, <2>9, EwsStepOK
<1> QED
  BY <1>10, <1>11

(* An error ends the folder.                                               *)
LEMMA FolderFailsOK ==
  ASSUME EwsInv, Running
  PROVE  \E f : FolderFails(run) = Over(f) \/ EwsRunOK(FolderFails(run), server, Excused)
<1>1. run.at \in Homes /\ server.on \subseteq Items
  BY DEF EwsInv, EwsRunOK, ItemsInv, ItemsTyped
<1>2. [run EXCEPT !.failed = TRUE].at = run.at
  BY DEF EwsInv, EwsRunOK, EwsRecord
<1> QED
  BY <1>1, <1>2, NextFolderOK DEF FolderFails

(* The rows stay when the archive does.                                    *)
LEMMA EwsArchiveStays ==
  ASSUME EwsInv, archive' = archive
  PROVE  /\ \A r \in archive' : /\ r.item \in Items
                                /\ server.ver[r.item] # 0 /\ r.home = server.home[r.item]
         /\ ItemsOf(archive) \ ItemsOf(archive') \subseteq Excused
BY DEF EwsInv, ItemsInv, ItemsTyped, EwsServer, ItemsOf

(* The run goes on with less in its hands.                                 *)
LEMMA GoesOnOK ==
  ASSUME EwsInv, Running, run.pc # "find", NEW window, NEW got, NEW gone, NEW failed,
         window \subseteq Seq(KnownAt(server, run.at)),
         got \in Seq([item : KnownAt(server, run.at), ver : Nat]), gone \subseteq Excused,
         run' = Continue([pc |-> run.pc, at |-> run.at, from |-> run.from, listed |-> run.listed,
                          changed |-> run.changed, todo |-> run.todo, window |-> window, got |-> got,
                          gone |-> gone, failed |-> failed])
  PROVE  \E f : run' = Over(f) \/ EwsRunOK(run', server, Excused)
<1>1. EwsRunOK(run, server, Excused) /\ server.on \subseteq Items
  BY DEF EwsInv, ItemsInv, ItemsTyped
<1>2. PICK q : q = [pc |-> run.pc, at |-> run.at, from |-> run.from, listed |-> run.listed,
                    changed |-> run.changed, todo |-> run.todo, window |-> window, got |-> got,
                    gone |-> gone, failed |-> failed]
  OBVIOUS
<1>3. EwsRecord(q)
  BY <1>2 DEF EwsRecord
<1>4. InHand(q, KnownAt(server, run.at))
  BY <1>1, <1>2 DEF InHand, EwsRunOK
<1>5. EwsRunOK(q, server, Excused) /\ q.pc # "find"
  BY <1>1, <1>2, <1>3, <1>4 DEF EwsRunOK, OnPages
<1>6. run' = Over(q.failed) \/ EwsRunOK(run', server, Excused)
  BY <1>1, <1>2, <1>5, ContinueOK
<1> QED
  BY <1>6

(* Replies come, or a batch is given up, or the folder is.                 *)
LEMMA RepliesKeepEws ==
  ASSUME EwsInv, RequestFails \/ ItemFails \/ \E ids \in Requested : GetItem(ids) \/ BatchFails(ids)
  PROVE  EwsInv' /\ KeptItems
<1> DEFINE known == KnownAt(server, run.at)
           Entries == [item : known, ver : Nat]
<1>1. /\ Running /\ EwsRunOK(run, server, Excused) /\ UNCHANGED <<part, server, archive, past>>
      /\ server.on \subseteq Items /\ server.ver \in [Items -> Nat]
  BY DEF RequestFails, ItemFails, GetItem, BatchFails, Requested, EwsInv, Running, ItemsInv, ItemsTyped, EwsServer
<1>2. run = [pc |-> run.pc, at |-> run.at, from |-> run.from, listed |-> run.listed,
             changed |-> run.changed, todo |-> run.todo, window |-> run.window, got |-> run.got,
             gone |-> run.gone, failed |-> run.failed]
  BY <1>1 DEF EwsRunOK, EwsRecord
<1>3. /\ run.got \in Seq(Entries) /\ run.listed \in Seq(Entries) /\ run.todo \in Seq(known)
      /\ run.window \subseteq Seq(known) /\ run.gone \subseteq Excused
  BY <1>1 DEF EwsRunOK, InHand
<1>4. ASSUME \E f : run' = Over(f) \/ EwsRunOK(run', server, Excused)
      PROVE  EwsInv' /\ KeptItems
  BY <1>1, <1>4, EwsStepOK, EwsArchiveStays
<1>5. ASSUME NEW window, NEW got, NEW failed, window \subseteq Seq(known), got \in Seq(Entries), run.pc = "get",
             run' = Continue([pc |-> run.pc, at |-> run.at, from |-> run.from, listed |-> run.listed,
                              changed |-> run.changed, todo |-> run.todo, window |-> window, got |-> got,
                              gone |-> run.gone, failed |-> failed])
      PROVE  EwsInv' /\ KeptItems
  <2>1. \E f : run' = Over(f) \/ EwsRunOK(run', server, Excused)
    BY <1>1, <1>3, <1>5, GoesOnOK
  <2> QED
    BY <1>4, <2>1
<1>6. CASE run' = FolderFails(run)
  BY <1>1, <1>4, <1>6, FolderFailsOK
<1>7. ASSUME NEW ids \in Requested, GetItem(ids)
      PROVE  EwsInv' /\ KeptItems
  <2> DEFINE there == Picked(ids, {k \in DOMAIN ids : ids[k] \in server.on})
             replies == [k \in DOMAIN there |-> [item |-> there[k], ver |-> server.ver[there[k]]]]
  <2>1. /\ ids \in run.window /\ run.pc = "get"
        /\ run' = Continue([run EXCEPT !.window = run.window \ {ids}, !.got = run.got \o replies])
    BY <1>7 DEF GetItem
  <2>2. ids \in Seq(known)
    BY <1>3, <2>1
  <2>3. there \in Seq(known)
    <3> HIDE DEF known
    <3> QED
      BY <2>2, PickedFrom
  <2> HIDE DEF there
  <2>4. replies \in Seq(Entries)
    <3>1. DOMAIN there = 1..Len(there) /\ Len(there) \in Nat /\ \A k \in 1..Len(there) : there[k] \in known
      <4> HIDE DEF known
      <4> QED
        BY <2>3
    <3>2. known \subseteq Items
      BY DEF KnownAt
    <3> HIDE DEF known
    <3>3. \A k \in 1..Len(there) : [item |-> there[k], ver |-> server.ver[there[k]]] \in Entries
      BY <1>1, <3>1, <3>2
    <3> HIDE DEF Entries
    <3> QED
      BY <3>1, <3>3
  <2> HIDE DEF replies
  <2>5. run.got \o replies \in Seq(Entries) /\ run.window \ {ids} \subseteq Seq(known)
    <3> HIDE DEF Entries, known
    <3> QED
      BY <1>3, <2>4, OneAfterTheOther
  <2> HIDE DEF Entries, known
  <2>6. PICK q : q = [run EXCEPT !.window = run.window \ {ids}, !.got = run.got \o replies]
    OBVIOUS
  <2>7. q = [pc |-> run.pc, at |-> run.at, from |-> run.from, listed |-> run.listed,
             changed |-> run.changed, todo |-> run.todo, window |-> run.window \ {ids},
             got |-> run.got \o replies, gone |-> run.gone, failed |-> run.failed]
    BY <1>2, <2>6
  <2>8. PICK window, got : window = run.window \ {ids} /\ got = run.got \o replies
    OBVIOUS
  <2>9. /\ run.pc = "get" /\ window \subseteq Seq(known) /\ got \in Seq(Entries)
        /\ run' = Continue([pc |-> run.pc, at |-> run.at, from |-> run.from, listed |-> run.listed,
                            changed |-> run.changed, todo |-> run.todo, window |-> window,
                            got |-> got, gone |-> run.gone, failed |-> run.failed])
    BY <2>1, <2>5, <2>6, <2>7, <2>8
  <2> QED
    BY <1>5, <2>9, Zenon
<1>8. ASSUME NEW ids \in Requested, BatchFails(ids)
      PROVE  EwsInv' /\ KeptItems
  <2>1. /\ ids \in run.window /\ run.pc = "get"
        /\ run' = Continue([run EXCEPT !.window = run.window \ {ids}, !.failed = TRUE])
    BY <1>8 DEF BatchFails
  <2>2. run.window \ {ids} \subseteq Seq(known)
    BY <1>3
  <2> HIDE DEF Entries, known
  <2>3. PICK q : q = [run EXCEPT !.window = run.window \ {ids}, !.failed = TRUE]
    OBVIOUS
  <2>4. q = [pc |-> run.pc, at |-> run.at, from |-> run.from, listed |-> run.listed,
             changed |-> run.changed, todo |-> run.todo, window |-> run.window \ {ids},
             got |-> run.got, gone |-> run.gone, failed |-> TRUE]
    BY <1>2, <2>3
  <2>5. PICK window : window = run.window \ {ids}
    OBVIOUS
  <2>6. /\ run.pc = "get" /\ window \subseteq Seq(known) /\ run.got \in Seq(Entries)
        /\ run' = Continue([pc |-> run.pc, at |-> run.at, from |-> run.from, listed |-> run.listed,
                            changed |-> run.changed, todo |-> run.todo, window |-> window,
                            got |-> run.got, gone |-> run.gone, failed |-> TRUE])
    BY <1>3, <2>1, <2>2, <2>3, <2>4, <2>5
  <2> QED
    BY <1>5, <2>6, Zenon
<1>9. CASE ItemFails /\ run' # FolderFails(run)
  <2>1. run.pc = "get" /\ run.got # <<>> /\ run' = Continue([Handled EXCEPT !.failed = TRUE])
    BY <1>9 DEF ItemFails
  <2>2. Tail(run.got) \in Seq(Entries)
    <3> HIDE DEF Entries
    <3> QED
      BY <1>3, <2>1
  <2> HIDE DEF Entries, known
  <2>3. PICK q : q = [run EXCEPT !.got = Tail(run.got)]
    OBVIOUS
  <2>4. q = [pc |-> run.pc, at |-> run.at, from |-> run.from, listed |-> run.listed,
             changed |-> run.changed, todo |-> run.todo, window |-> run.window,
             got |-> Tail(run.got), gone |-> run.gone, failed |-> run.failed]
    BY <1>2, <2>3
  <2>5. PICK s : s = [q EXCEPT !.failed = TRUE]
    OBVIOUS
  <2>6. s = [pc |-> run.pc, at |-> run.at, from |-> run.from, listed |-> run.listed,
             changed |-> run.changed, todo |-> run.todo, window |-> run.window,
             got |-> Tail(run.got), gone |-> run.gone, failed |-> TRUE]
    BY <2>4, <2>5
  <2>7. run' = Continue(s)
    BY <2>1, <2>3, <2>5 DEF Handled
  <2> QED
    BY <1>3, <1>5, <2>1, <2>2, <2>6, <2>7
<1> QED
  BY <1>6, <1>7, <1>8, <1>9 DEF RequestFails

(* A reply is written, or its item was listed twice and the archive        *)
(* refuses it.                                                             *)
LEMMA ApplyKeepsEws ==
  ASSUME EwsInv, ApplyWhole \/ ApplyPart
  PROVE  EwsInv' /\ KeptItems
<1>1. PICK whole \in BOOLEAN : Apply(whole)
  BY DEF ApplyWhole, ApplyPart
<1> DEFINE msg == Head(run.got)
           known == KnownAt(server, run.at)
           Entries == [item : known, ver : Nat]
           new == [item |-> msg.item, home |-> run.at, ver |-> msg.ver, tag |-> msg.ver, whole |-> whole]
<1>2. /\ Running /\ EwsRunOK(run, server, Excused) /\ UNCHANGED <<part, server>>
      /\ run.pc = "get" /\ run.window = {} /\ run.got # <<>>
      /\ past' = past \/ \E frozen : past' = [past EXCEPT !.frozen = frozen]
  BY <1>1 DEF Apply, EwsInv, Running
<1>3. run = [pc |-> run.pc, at |-> run.at, from |-> run.from, listed |-> run.listed,
             changed |-> run.changed, todo |-> run.todo, window |-> run.window, got |-> run.got,
             gone |-> run.gone, failed |-> run.failed]
  BY <1>2 DEF EwsRunOK, EwsRecord
<1>4. run.got \in Seq(Entries) /\ run.window \subseteq Seq(known) /\ run.gone \subseteq Excused
  BY <1>2 DEF EwsRunOK, InHand
<1>5. msg \in Entries /\ Tail(run.got) \in Seq(Entries)
  <2> HIDE DEF Entries
  <2> QED
    BY <1>2, <1>4
<1>6. msg.item \in known
  <2> HIDE DEF known, msg
  <2> QED
    BY <1>5
<1>7. CASE run' = FolderFails(run) /\ archive' = archive
  BY <1>2, <1>7, FolderFailsOK, EwsArchiveStays, EwsStepOK
<1>8. CASE run' = Continue(Handled) /\ archive' = Without(archive, {msg.item}) \union {new}
  <2>1. PICK q : q = [run EXCEPT !.got = Tail(run.got)]
    OBVIOUS
  <2>2. q = [pc |-> run.pc, at |-> run.at, from |-> run.from, listed |-> run.listed,
             changed |-> run.changed, todo |-> run.todo, window |-> run.window,
             got |-> Tail(run.got), gone |-> run.gone, failed |-> run.failed]
    BY <1>3, <2>1
  <2>3. run' = Continue([pc |-> run.pc, at |-> run.at, from |-> run.from, listed |-> run.listed,
                         changed |-> run.changed, todo |-> run.todo, window |-> run.window,
                         got |-> Tail(run.got), gone |-> run.gone, failed |-> run.failed])
    BY <1>8, <2>1, <2>2 DEF Handled
  <2>4. \E f : run' = Over(f) \/ EwsRunOK(run', server, Excused)
    <3>1. run.pc # "find"
      BY <1>2
    <3> QED
      BY <1>2, <1>4, <1>5, <2>3, <3>1, GoesOnOK
  <2>5. new.item = msg.item /\ new.home = run.at
    OBVIOUS
  <2> HIDE DEF new, msg
  <2>6. \A r \in archive : r.item \in Items /\ server.ver[r.item] # 0 /\ r.home = server.home[r.item]
    BY DEF EwsInv, ItemsInv, ItemsTyped, EwsServer
  <2>7. \A r \in archive' : r.item \in Items /\ server.ver[r.item] # 0 /\ r.home = server.home[r.item]
    BY <1>6, <1>8, <2>5, <2>6 DEF Without, KnownAt
  <2>8. ItemsOf(archive) \subseteq ItemsOf(archive')
    BY <1>8, <2>5 DEF Without, ItemsOf
  <2> QED
    BY <1>2, <2>4, <2>7, <2>8, EwsStepOK
<1> QED
  BY <1>1, <1>7, <1>8 DEF Apply

(* A message without content is passed over.                               *)
LEMMA NoContentKeepsEws ==
  ASSUME EwsInv, NoContent
  PROVE  EwsInv' /\ KeptItems
<1> DEFINE i == Head(run.got).item
           known == KnownAt(server, run.at)
           Entries == [item : known, ver : Nat]
<1>1. /\ Running /\ EwsRunOK(run, server, Excused) /\ UNCHANGED <<part, server, archive>>
      /\ run.pc = "get" /\ run.got # <<>> /\ run' = Continue(Handled)
      /\ \/ past' = [past EXCEPT !.frozen = past.frozen \union {i}]
         \/ past' = [past EXCEPT !.unseen = @ \union {i}]
  BY DEF NoContent, EwsInv, Running
<1>2. run = [pc |-> run.pc, at |-> run.at, from |-> run.from, listed |-> run.listed,
             changed |-> run.changed, todo |-> run.todo, window |-> run.window, got |-> run.got,
             gone |-> run.gone, failed |-> run.failed]
  BY <1>1 DEF EwsRunOK, EwsRecord
<1>3. run.got \in Seq(Entries) /\ run.window \subseteq Seq(known) /\ run.gone \subseteq Excused
  BY <1>1 DEF EwsRunOK, InHand
<1>4. Head(run.got) \in Entries /\ Tail(run.got) \in Seq(Entries)
  <2> HIDE DEF Entries
  <2> QED
    BY <1>1, <1>3
<1>5. i \in Items
  <2>1. known \subseteq Items
    BY DEF KnownAt
  <2> HIDE DEF known
  <2> QED
    BY <1>4, <2>1
<1>6. run' = Continue([pc |-> run.pc, at |-> run.at, from |-> run.from, listed |-> run.listed,
                       changed |-> run.changed, todo |-> run.todo, window |-> run.window,
                       got |-> Tail(run.got), gone |-> run.gone, failed |-> run.failed])
  <2>1. PICK q : q = [run EXCEPT !.got = Tail(run.got)]
    OBVIOUS
  <2>2. q = [pc |-> run.pc, at |-> run.at, from |-> run.from, listed |-> run.listed,
             changed |-> run.changed, todo |-> run.todo, window |-> run.window,
             got |-> Tail(run.got), gone |-> run.gone, failed |-> run.failed]
    BY <1>2, <2>1
  <2> QED
    BY <1>1, <2>1, <2>2 DEF Handled
<1>7. \E f : run' = Over(f) \/ EwsRunOK(run', server, Excused)
  <2>1. run.pc # "find"
    BY <1>1
  <2> QED
    BY <1>1, <1>3, <1>4, <1>6, <2>1, GoesOnOK
<1> HIDE DEF i
<1>8. \/ \E frozen : past' = [past EXCEPT !.frozen = frozen]
      \/ \E j \in Items : past' = [past EXCEPT !.unseen = @ \union {j}]
  BY <1>1, <1>5
<1> QED
  BY <1>1, <1>7, <1>8, EwsArchiveStays, EwsStepOK

(* The rows that the listing did not name go, one by one.                  *)
LEMMA VanishKeepsEws ==
  ASSUME EwsInv, \E i \in Vanished : Vanish(i) \/ VanishFails(i)
  PROVE  EwsInv' /\ KeptItems
<1>1. PICK i \in Vanished : Vanish(i) \/ VanishFails(i)
  OBVIOUS
<1>2. /\ Running /\ EwsRunOK(run, server, Excused) /\ UNCHANGED <<part, server, past>>
      /\ run.pc = "sweep" /\ i \in run.gone /\ archive' \in {archive, Without(archive, {i})}
  BY <1>1 DEF Vanish, VanishFails, EwsInv, Running
<1>3. run = [pc |-> run.pc, at |-> run.at, from |-> run.from, listed |-> run.listed,
             changed |-> run.changed, todo |-> run.todo, window |-> run.window, got |-> run.got,
             gone |-> run.gone, failed |-> run.failed]
  BY <1>2 DEF EwsRunOK, EwsRecord
<1>4. /\ run.got \in Seq([item : KnownAt(server, run.at), ver : Nat])
      /\ run.window \subseteq Seq(KnownAt(server, run.at))
      /\ run.gone \subseteq Excused /\ run.gone \ {i} \subseteq Excused
  BY <1>2 DEF EwsRunOK, InHand
<1>5. PICK failed :
        run' = Continue([pc |-> run.pc, at |-> run.at, from |-> run.from, listed |-> run.listed,
                         changed |-> run.changed, todo |-> run.todo, window |-> run.window,
                         got |-> run.got, gone |-> run.gone \ {i}, failed |-> failed])
  <2>1. PICK q, s : q = [run EXCEPT !.gone = run.gone \ {i}]
                    /\ s = [run EXCEPT !.gone = run.gone \ {i}, !.failed = TRUE]
    OBVIOUS
  <2>2. /\ q = [pc |-> run.pc, at |-> run.at, from |-> run.from, listed |-> run.listed,
                changed |-> run.changed, todo |-> run.todo, window |-> run.window,
                got |-> run.got, gone |-> run.gone \ {i}, failed |-> run.failed]
        /\ s = [pc |-> run.pc, at |-> run.at, from |-> run.from, listed |-> run.listed,
                changed |-> run.changed, todo |-> run.todo, window |-> run.window,
                got |-> run.got, gone |-> run.gone \ {i}, failed |-> TRUE]
    BY <1>3, <2>1
  <2>3. run' = Continue(q) \/ run' = Continue(s)
    BY <1>1, <2>1 DEF Vanish, VanishFails
  <2> QED
    BY <2>2, <2>3
<1>6. \E f : run' = Over(f) \/ EwsRunOK(run', server, Excused)
  <2>1. run.pc # "find"
    BY <1>2
  <2> QED
    BY <1>2, <1>4, <1>5, <2>1, GoesOnOK
<1>7. \A r \in archive : r.item \in Items /\ server.ver[r.item] # 0 /\ r.home = server.home[r.item]
  BY DEF EwsInv, ItemsInv, ItemsTyped, EwsServer
<1>8. ItemsOf(archive) \ ItemsOf(archive') \subseteq Excused
  BY <1>2, <1>4 DEF Without, ItemsOf
<1>9. \A r \in archive' : r.item \in Items /\ server.ver[r.item] # 0 /\ r.home = server.home[r.item]
  BY <1>2, <1>7 DEF Without
<1> QED
  BY <1>2, <1>6, <1>8, <1>9, EwsStepOK

(* A run begins, or is stopped.                                            *)
LEMMA EwsPasses ==
  ASSUME EwsInv, EwsStart \/ EwsCrash \/ UNCHANGED vars
  PROVE  EwsInv' /\ KeptItems
<1>1. CASE EwsStart
  <2>1. /\ ItemsInv' /\ archive' = archive /\ run' = Folder(1, FALSE) /\ server' = server /\ part' = part
    BY <1>1, BeginKeepsItems DEF EwsStart, EwsInv, Begin
  <2>3. 1 \in Homes /\ server.on \subseteq Items
    BY RerunsAssumption DEF EwsInv, ItemsInv, ItemsTyped, Homes
  <2>4. EwsRunOK(run', server, Excused')
    <3>1. run' = [pc |-> "find", at |-> 1, from |-> 0, listed |-> <<>>, changed |-> {}, todo |-> <<>>,
                  window |-> {}, got |-> <<>>, gone |-> {}, failed |-> FALSE]
      BY <2>1 DEF Folder
    <3>2. PICK q : q = run'
      OBVIOUS
    <3>3. EwsRecord(q) /\ InHand(q, KnownAt(server, q.at)) /\ q.at = 1 /\ q.from = 0 /\ q.gone = {} /\ q.pc = "find"
      BY <3>1, <3>2 DEF EwsRecord, InHand
    <3>4. PICK S : S = ThereOf(server, q.at)
      OBVIOUS
    <3>5. S \in SUBSET Nat /\ IsFiniteSet(S)
      BY <2>3, <3>4, ThereIsFinite
    <3>6. Cardinality(S) \in Nat /\ \A i \in S : PlaceIn(S, i) \in 1..Cardinality(S)
      BY <3>5, PlacesAreOrdered
    <3>7. \A i \in S : 0 < PlaceIn(S, i)
      BY <3>6
    <3>8. EwsRunOK(q, server, Excused')
      BY <2>3, <3>3, <3>4, <3>7 DEF EwsRunOK, OnPages
    <3> QED
      BY <3>2, <3>8
  <2>5. (Running => EwsRunOK(run, server, Excused))'
    BY <2>1, <2>4
  <2> QED
    BY <2>1, <2>5 DEF EwsInv, IsEws, EwsServer, KeptItems, ItemsOf
<1>2. CASE EwsCrash
  <2>1. UNCHANGED <<part, server, archive, past>> /\ ~Running' /\ Running
    BY <1>2 DEF EwsCrash, Crash, Over, Running
  <2> QED
    BY <2>1 DEF EwsInv, IsEws, EwsServer, ItemsInv, ItemsTyped, Missing, KeptItems, ItemsOf
<1>3. CASE UNCHANGED vars
  BY <1>3 DEF vars, EwsInv, IsEws, EwsServer, ItemsInv, ItemsTyped, Missing, KeptItems, ItemsOf, Running, Excused
<1> QED
  BY <1>1, <1>2, <1>3

LEMMA EwsAtFirst == EwsInit => EwsInv
<1> SUFFICES ASSUME EwsInit PROVE EwsInv
  OBVIOUS
<1>1. ItemsInv /\ ~Running /\ IsEws /\ archive = {}
  BY ItemsAtFirst DEF EwsInit, IsEws
<1>2. EwsServer
  <2>1. PICK on \in {1..k : k \in 0..LastItem}, home \in [Items -> Homes] :
          server = [on |-> on, home |-> home, changes |-> 0,
                    ver |-> [i \in Items |-> IF i \in on THEN 1 ELSE 0]]
    BY DEF EwsInit, RerunsInit
  <2>2. on \subseteq Items
    BY RerunsAssumption DEF Items
  <2> QED
    BY <1>1, <2>1, <2>2 DEF EwsServer
<1> QED
  BY <1>1, <1>2 DEF EwsInv

LEMMA EwsSteps == EwsInv /\ [EwsNext]_vars => EwsInv' /\ KeptItems
<1> SUFFICES ASSUME EwsInv, [EwsNext]_vars PROVE EwsInv' /\ KeptItems
  OBVIOUS
<1>1. CASE \E i \in Items : EwsLeave(i) \/ EwsAlter(i) \/ \E h \in Homes : EwsArrive(i, h)
  BY <1>1, StoreKeepsEws
<1>2. CASE Find
  BY <1>2, FindKeepsEws
<1>3. CASE RequestFails \/ ItemFails \/ \E ids \in Requested : GetItem(ids) \/ BatchFails(ids)
  BY <1>3, RepliesKeepEws
<1>4. CASE ApplyWhole \/ ApplyPart
  BY <1>4, ApplyKeepsEws
<1>7. CASE NoContent
  BY <1>7, NoContentKeepsEws
<1>5. CASE \E i \in Vanished : Vanish(i) \/ VanishFails(i)
  BY <1>5, VanishKeepsEws
<1>6. CASE EwsStart \/ EwsCrash \/ UNCHANGED vars
  BY <1>6, EwsPasses
<1> QED
  BY <1>1, <1>2, <1>3, <1>4, <1>5, <1>6, <1>7 DEF EwsNext, EwsRun

(* Whatever becomes of the mailbox while a folder is listed page by page,  *)
(* and wherever a run fails or is stopped, an item that is there all the   *)
(* time, and that no page lost to a deletion, keeps its row.               *)
THEOREM EwsKeeps == EwsSpec => KeptWhileThere
<1>1. KeptItems => [ItemsOf(archive) \ ItemsOf(archive') \subseteq past.missed \union past.unseen]_vars
  BY DEF KeptItems, Excused
<1> QED
  BY <1>1, EwsAtFirst, EwsSteps, PTL DEF EwsSpec, KeptWhileThere

-----------------------------------------------------------------------------
(* Folds over sequences: FoldLeft goes by sets of positions and takes the  *)
(* greatest away.                                                          *)

LEMMA GreatestIs ==
  ASSUME NEW n \in Nat, NEW t \in SUBSET (1..n), n \in t
  PROVE  Max(t) = n
<1>1. \A x \in t : x \in Nat /\ n >= x
  OBVIOUS
<1>2. \A x \in t : (\A y \in t : x >= y) => x = n
  BY <1>1
<1> QED
  BY <1>1, <1>2 DEF Max

(* g does with all of 1..m what a fold does with step.                     *)
FoldsBy(g, m, base, step) ==
  \A t \in SUBSET (1..m) : g[t] = IF t = {} THEN base ELSE step[<<g[t \ {Max(t)}], Max(t)>>]

LEMMA FoldThere ==
  ASSUME NEW n \in Nat, NEW D, NEW base \in D, NEW step \in [D \X (1..n) -> D]
  PROVE  \E g \in [SUBSET (1..n) -> D] : FoldsBy(g, n, base, step)
<1> DEFINE Exist(m) == \E g \in [SUBSET (1..m) -> D] : FoldsBy(g, m, base, step)
           Short == {m \in 0..n : ~Exist(m)}
<1>1. Short = {}
  <2> SUFFICES ASSUME Short # {} PROVE FALSE
    OBVIOUS
  <2>1. PICK m \in Short : \A k \in Short : m <= k
    <3>1. Short \in SUBSET Nat
      OBVIOUS
    <3> QED
      BY <3>1, LeastNumber
  <2>2. CASE m = 0
    <3> DEFINE g == [t \in SUBSET (1..0) |-> base]
    <3>1. SUBSET (1..0) = {{}}
      OBVIOUS
    <3>2. g \in [SUBSET (1..0) -> D] /\ FoldsBy(g, 0, base, step)
      BY <3>1 DEF FoldsBy
    <3> QED
      BY <2>1, <2>2, <3>2
  <2>3. CASE m # 0
    <3>0. m \in 1..n /\ m - 1 \in 0..n /\ m - 1 \in Nat /\ m \in Nat
      BY <2>1, <2>3
    <3>1. Exist(m - 1)
      <4> HIDE DEF Exist
      <4>1. ~(m <= m - 1)
        BY <3>0
      <4> QED
        BY <2>1, <3>0, <4>1
    <3>2. PICK g \in [SUBSET (1..(m - 1)) -> D] : FoldsBy(g, m - 1, base, step)
      BY <3>1
    <3> DEFINE h == [t \in SUBSET (1..m) |-> IF m \in t THEN step[<<g[t \ {m}], m>>] ELSE g[t]]
    <3>3. \A t \in SUBSET (1..m) : t \ {m} \in SUBSET (1..(m - 1)) /\ (m \notin t => t \in SUBSET (1..(m - 1)))
      BY <3>0
    <3>4. h \in [SUBSET (1..m) -> D]
      BY <3>0, <3>3
    <3>5. \A t \in SUBSET (1..m) : h[t] = IF t = {} THEN base ELSE step[<<h[t \ {Max(t)}], Max(t)>>]
      <4> SUFFICES ASSUME NEW t \in SUBSET (1..m)
                   PROVE  h[t] = IF t = {} THEN base ELSE step[<<h[t \ {Max(t)}], Max(t)>>]
        OBVIOUS
      <4>1. CASE m \in t
        <5>1. Max(t) = m
          BY <3>0, <4>1, GreatestIs
        <5>2. h[t] = step[<<g[t \ {m}], m>>] /\ h[t \ {m}] = g[t \ {m}]
          BY <4>1
        <5> QED
          BY <4>1, <5>1, <5>2
      <4>2. CASE m \notin t
        <5>1. t \in SUBSET (1..(m - 1)) /\ t \ {Max(t)} \in SUBSET (1..(m - 1)) /\ m \notin t \ {Max(t)}
          BY <3>3, <4>2
        <5>2. h[t] = g[t] /\ h[t \ {Max(t)}] = g[t \ {Max(t)}]
          BY <4>2, <5>1
        <5> QED
          BY <3>2, <5>1, <5>2 DEF FoldsBy
      <4> QED
        BY <4>1, <4>2
    <3>6. Exist(m)
      <4> HIDE DEF h
      <4> QED
        BY <3>4, <3>5 DEF FoldsBy
    <3> QED
      BY <2>1, <3>6
  <2> QED
    BY <2>2, <2>3
<1>2. Exist(n)
  <2> HIDE DEF Exist
  <2>1. n \in 0..n
    OBVIOUS
  <2> QED
    BY <1>1, <2>1
<1> QED
  BY <1>2

(* What a fold does with one position more.                                *)
LEMMA OneMore ==
  ASSUME NEW n \in Nat, NEW k \in 0..(n - 1)
  PROVE  /\ 1..(k + 1) \in SUBSET (1..n) /\ 1..(k + 1) # {} /\ Max(1..(k + 1)) = k + 1
         /\ (1..(k + 1)) \ {k + 1} = 1..k
<1>1. k + 1 \in 1..(k + 1) /\ k + 1 \in Nat
  OBVIOUS
<1>2. Max(1..(k + 1)) = k + 1
  BY <1>1, GreatestIs
<1>3. (1..(k + 1)) \ {k + 1} = 1..k
  OBVIOUS
<1>4. 1..(k + 1) \in SUBSET (1..n)
  OBVIOUS
<1> QED
  BY <1>1, <1>2, <1>3, <1>4

LEMMA GreatestIn ==
  ASSUME NEW n \in Nat, NEW t \in SUBSET (1..n), t # {}
  PROVE  Max(t) \in t
<1> DEFINE back == {n - x : x \in t}
<1>1. back \in SUBSET Nat /\ back # {}
  <2>1. \A x \in t : n - x \in Nat
    OBVIOUS
  <2> QED
    BY <2>1
<1>2. PICK b \in back : \A c \in back : b <= c
  BY <1>1, LeastNumber
<1>3. PICK x \in t : b = n - x
  BY <1>2
<1>4. \A y \in t : x >= y
  <2> SUFFICES ASSUME NEW y \in t PROVE x >= y
    OBVIOUS
  <2>1. n - y \in back /\ x \in Nat /\ y \in Nat
    OBVIOUS
  <2>2. n - x <= n - y
    BY <1>2, <1>3, <2>1
  <2> QED
    BY <2>1, <2>2
<1> QED
  BY <1>4 DEF Max

(* What holds of the base, and of what a step makes of what it holds of,   *)
(* holds of the fold.                                                      *)
LEMMA FoldStays ==
  ASSUME NEW n \in Nat, NEW D, NEW base \in D, NEW step \in [D \X (1..n) -> D],
         NEW f, f[{}] = base,
         \A k \in 0..(n - 1) : f[1..k] \in D => f[1..(k + 1)] = step[<<f[1..k], k + 1>>]
  PROVE  f[1..n] \in D
<1> DEFINE Short == {k \in 0..n : f[1..k] \notin D}
<1>1. Short = {}
  <2> SUFFICES ASSUME Short # {} PROVE FALSE
    OBVIOUS
  <2>1. PICK m \in Short : \A k \in Short : m <= k
    <3>1. Short \in SUBSET Nat
      OBVIOUS
    <3> QED
      BY <3>1, LeastNumber
  <2>2. CASE m = 0
    <3>1. 1..0 = {}
      OBVIOUS
    <3> QED
      BY <2>1, <2>2, <3>1
  <2>3. CASE m # 0
    <3>0. m \in 1..n /\ m - 1 \in 0..(n - 1) /\ m - 1 \in 0..n /\ (m - 1) + 1 = m /\ ~(m <= m - 1)
      BY <2>1, <2>3
    <3>1. f[1..(m - 1)] \in D
      BY <2>1, <3>0
    <3>3. f[1..m] = step[<<f[1..(m - 1)], m>>]
      BY <3>0, <3>1
    <3> QED
      BY <2>1, <3>0, <3>1, <3>3
  <2> QED
    BY <2>2, <2>3
<1> QED
  <2>1. n \in 0..n
    OBVIOUS
  <2> QED
    BY <1>1, <2>1

-----------------------------------------------------------------------------
(* The entries of a Takeout: a row is written over, and never deleted.     *)

TakeoutRow == [item : ToSet(Uid), homes : SUBSET Homes, ver : Nat]
TakeoutInv ==
  /\ IsTakeout
  /\ server = [on |-> server.on, home |-> server.home, ver |-> server.ver, changes |-> server.changes]
  /\ server.on \subseteq Items /\ server.home \in [Items -> Homes] /\ server.ver \in [Items -> Nat]
  /\ server.changes \in Nat
  /\ archive \subseteq TakeoutRow
  /\ Running => run.pc = "file"

LEMMA RecordedKeeps ==
  ASSUME TakeoutInv, NEW R \in SUBSET TakeoutRow, NEW i \in Items
  PROVE  Recorded(R, i) \in SUBSET TakeoutRow /\ ItemsOf(R) \subseteq ItemsOf(Recorded(R, i))
<1> DEFINE row == {r \in R : r.item = Uid[i]}
           new == [item |-> Uid[i], homes |-> Filed(row, server.home[i]), ver |-> Content(i)]
<1>1. Uid[i] \in ToSet(Uid)
  BY RerunsAssumption DEF ToSet, Items
<1>2. Filed(row, server.home[i]) \in SUBSET Homes
  <2>1. \A r \in row : r.homes \in SUBSET Homes
    BY DEF TakeoutRow
  <2>2. server.home[i] \in Homes
    BY DEF TakeoutInv
  <2> HIDE DEF row
  <2>3. UNION {r.homes : r \in row} \subseteq Homes
    BY <2>1
  <2> DEFINE all == UNION {r.homes : r \in row}
  <2>4. Filed(row, server.home[i]) \in {{server.home[i]}, all \union {server.home[i]}, {}}
    BY DEF Filed
  <2> QED
    BY <2>2, <2>3, <2>4
<1>3. Content(i) \in Nat
  BY DEF Content, TakeoutInv
<1>4. Recorded(R, i) = (R \ row) \union {new}
  BY DEF Recorded
<1>5. new \in TakeoutRow /\ new.item = Uid[i]
  BY <1>1, <1>2, <1>3 DEF TakeoutRow
<1> HIDE DEF new
<1>6. \A r \in R : \E q \in Recorded(R, i) : q.item = r.item
  BY <1>4, <1>5
<1> QED
  BY <1>4, <1>5, <1>6 DEF ItemsOf

LEMMA TakeoutFold ==
  ASSUME TakeoutInv, NEW s \in Seq(Items)
  PROVE  /\ FoldLeft(Recorded, archive, s) \in SUBSET TakeoutRow
         /\ ItemsOf(archive) \subseteq ItemsOf(FoldLeft(Recorded, archive, s))
<1> DEFINE n == Len(s)
           P == {R \in SUBSET TakeoutRow : ItemsOf(archive) \subseteq ItemsOf(R)}
           step == [p \in P \X (1..n) |-> Recorded(p[1], s[p[2]])]
           Fold(f) == [t \in SUBSET DOMAIN s |-> IF t = {} THEN archive ELSE Recorded(f[t \ {Max(t)}], s[Max(t)])]
           iter == CHOOSE f : f = Fold(f)
<1>1. n \in Nat /\ DOMAIN s = 1..n /\ \A k \in 1..n : s[k] \in Items
  OBVIOUS
<1>2. archive \in P
  BY DEF TakeoutInv
<1>3. \A R \in P, k \in 1..n : Recorded(R, s[k]) \in P
  BY <1>1, RecordedKeeps
<1> HIDE DEF P, n
<1>4. step \in [P \X (1..n) -> P] /\ \A R \in P, k \in 1..n : step[<<R, k>>] = Recorded(R, s[k])
  BY <1>3
<1> HIDE DEF step
<1>5. PICK g \in [SUBSET (1..n) -> P] : FoldsBy(g, n, archive, step)
  BY <1>1, <1>2, <1>4, FoldThere
<1>6. \A t \in SUBSET (1..n) : t # {} => Max(t) \in 1..n /\ t \ {Max(t)} \in SUBSET (1..n)
  BY <1>1, GreatestIn
<1>7. g = Fold(g)
  <2>1. \A t \in SUBSET (1..n) : g[t] = Fold(g)[t]
    BY <1>1, <1>4, <1>5, <1>6 DEF FoldsBy
  <2>2. Fold(g) = [t \in SUBSET (1..n) |-> Fold(g)[t]] /\ g = [t \in SUBSET (1..n) |-> g[t]]
    BY <1>1, <1>5
  <2> QED
    BY <2>1, <2>2
<1>8. iter = Fold(iter)
  <2> HIDE DEF Fold
  <2> QED
    BY <1>7
<1>9. FoldLeft(Recorded, archive, s) = iter[1..n]
  BY <1>1, Zenon DEF FoldLeft, MapThenFoldSet
<1> HIDE DEF iter
<1>10. iter[{}] = archive
  BY <1>8
<1>11. \A k \in 0..(n - 1) : iter[1..k] \in P => iter[1..(k + 1)] = step[<<iter[1..k], k + 1>>]
  <2> SUFFICES ASSUME NEW k \in 0..(n - 1), iter[1..k] \in P
               PROVE  iter[1..(k + 1)] = step[<<iter[1..k], k + 1>>]
    OBVIOUS
  <2>1. /\ 1..(k + 1) \in SUBSET DOMAIN s /\ 1..(k + 1) # {} /\ Max(1..(k + 1)) = k + 1
        /\ (1..(k + 1)) \ {k + 1} = 1..k
    BY <1>1, OneMore
  <2>2. iter[1..(k + 1)] = Recorded(iter[1..k], s[k + 1])
    BY <1>8, <2>1, Zenon
  <2>3. k + 1 \in 1..n
    BY <1>1
  <2> QED
    BY <1>4, <2>2, <2>3
<1>12. iter[1..n] \in P
  <2>1. n \in Nat
    BY <1>1
  <2>2. step \in [P \X (1..n) -> P]
    BY <1>4
  <2> QED
    BY <1>2, <1>10, <1>11, <2>1, <2>2, FoldStays, Zenon
<1> QED
  BY <1>1, <1>9, <1>12 DEF P

LEMMA ListingEntries ==
  ASSUME TakeoutInv, NEW h
  PROVE  Listing(h) \in Seq(Items)
<1>1. There(h) = ThereOf(server, h)
  BY DEF There, ThereOf
<1>2. There(h) \in SUBSET Nat /\ IsFiniteSet(There(h)) /\ There(h) \subseteq Items
  BY <1>1, ThereIsFinite DEF TakeoutInv, There
<1>3. Listing(h) \in [1..Cardinality(There(h)) -> There(h)] /\ Cardinality(There(h)) \in Nat
  BY <1>2, InOrderHasAll, FS_CardinalityType DEF Listing
<1> QED
  BY <1>2, <1>3, SeqDef

LEMMA OneLessEntry ==
  ASSUME NEW s \in Seq(Items), NEW k \in DOMAIN s
  PROVE  RemoveAt(s, k) \in Seq(Items)
<1>1. Len(s) \in Nat /\ k \in 1..Len(s) /\ \A j \in 1..Len(s) : s[j] \in Items
  OBVIOUS
<1>2. SubSeq(s, 1, k - 1) \in Seq(Items)
  BY <1>1, SubSeqProperties
<1>3. SubSeq(s, k + 1, Len(s)) \in Seq(Items)
  BY <1>1, SubSeqProperties
<1> QED
  BY <1>2, <1>3 DEF RemoveAt

(* A file is read, or the run goes no further.                             *)
LEMMA ReadingKeepsTakeout ==
  ASSUME TakeoutInv, NEW entries \in Seq(Items), NEW failed, Reads(entries, failed),
         UNCHANGED <<part, server>>
  PROVE  TakeoutInv' /\ KeptItems
<1>1. archive' \in SUBSET TakeoutRow /\ ItemsOf(archive) \subseteq ItemsOf(archive')
  BY TakeoutFold DEF Reads
<1>2. Running' => run'.pc = "file"
  BY DEF Reads, NextFile, Over, Running
<1> QED
  BY <1>1, <1>2 DEF TakeoutInv, IsTakeout, TakeoutRow, KeptItems

LEMMA RearrangedKeepsTakeout ==
  ASSUME TakeoutInv, NEW i \in Items, NEW h \in Homes,
         TakeoutArrive(i, h) \/ TakeoutLeave(i) \/ TakeoutAlter(i)
  PROVE  TakeoutInv' /\ KeptItems
<1>1. UNCHANGED <<part, archive, run>>
  BY DEF TakeoutArrive, TakeoutLeave, TakeoutAlter, Rearranged, Changing
<1>2. server.changes + 2 \in Nat /\ server.changes + 1 \in Nat /\ server.home[i] \in Homes
  BY DEF TakeoutInv
<1>3. \A home \in Homes : [server.home EXCEPT ![i] = home] \in [Items -> Homes]
  BY DEF TakeoutInv
<1>4. [server.ver EXCEPT ![i] = server.changes + 2] \in [Items -> Nat]
  BY <1>2 DEF TakeoutInv
<1>5. CASE TakeoutArrive(i, h)
  <2>1. server' = Renewed(i, server.on \union {i}, h)
    BY <1>5 DEF TakeoutArrive, Arrive
  <2> QED
    BY <1>1, <1>2, <1>3, <1>4, <2>1 DEF Renewed, TakeoutInv, IsTakeout, Running, TakeoutRow, KeptItems
<1>6. CASE TakeoutLeave(i)
  <2>1. server' = [on |-> server.on \ {i}, home |-> server.home, ver |-> server.ver, changes |-> server.changes + 1]
    BY <1>6 DEF TakeoutLeave, Leave, TakeoutInv
  <2> QED
    BY <1>1, <1>2, <2>1 DEF TakeoutInv, IsTakeout, Running, TakeoutRow, KeptItems
<1>7. CASE TakeoutAlter(i)
  <2>1. server' = Renewed(i, server.on, server.home[i])
    BY <1>7 DEF TakeoutAlter, Alter
  <2> QED
    BY <1>1, <1>2, <1>3, <1>4, <2>1 DEF Renewed, TakeoutInv, IsTakeout, Running, TakeoutRow, KeptItems
<1> QED
  BY <1>5, <1>6, <1>7

LEMMA TakeoutAtFirst == TakeoutInit => TakeoutInv
<1> SUFFICES ASSUME TakeoutInit PROVE TakeoutInv
  OBVIOUS
<1>1. ItemsInv /\ ~Running /\ IsTakeout /\ archive = {}
  BY ItemsAtFirst DEF TakeoutInit, IsTakeout
<1>2. PICK on \in {1..k : k \in 0..LastItem}, home \in [Items -> Homes] :
        server = [on |-> on, home |-> home, changes |-> 0,
                  ver |-> [i \in Items |-> IF i \in on THEN 1 ELSE 0]]
  BY DEF TakeoutInit, RerunsInit
<1> QED
  BY <1>1, <1>2 DEF TakeoutInv, ItemsInv, ItemsTyped

LEMMA TakeoutSteps == TakeoutInv /\ [TakeoutNext]_vars => TakeoutInv' /\ KeptItems
<1> SUFFICES ASSUME TakeoutInv, [TakeoutNext]_vars PROVE TakeoutInv' /\ KeptItems
  OBVIOUS
<1>1. CASE \E i \in Items, h \in Homes : TakeoutArrive(i, h)
  BY <1>1, RearrangedKeepsTakeout
<1>2. CASE \E i \in Items : TakeoutLeave(i) \/ TakeoutAlter(i)
  <2>1. 1 \in Homes
    BY RerunsAssumption DEF Homes
  <2> QED
    BY <1>2, <2>1, RearrangedKeepsTakeout
<1>3. CASE ProcessFile
  BY <1>3, ListingEntries, ReadingKeepsTakeout DEF ProcessFile
<1>4. CASE ReadFails
  <2>1. PICK n \in 0..Len(Listing(run.at)) : Reads(First(Listing(run.at), n), TRUE)
    BY <1>4 DEF ReadFails
  <2>2. n \in Nat /\ Listing(run.at) \in Seq(Items)
    BY <2>1, ListingEntries
  <2>3. First(Listing(run.at), n) \in Seq(Items)
    BY <2>2, FirstAndRest
  <2> QED
    BY <1>4, <2>1, <2>3, ReadingKeepsTakeout DEF ReadFails
<1>5. CASE \E k \in Items : EntryFails(k)
  <2>1. PICK k \in Items : EntryFails(k)
    BY <1>5
  <2>2. RemoveAt(Listing(run.at), k) \in Seq(Items)
    BY <2>1, ListingEntries, OneLessEntry DEF EntryFails
  <2> QED
    BY <2>1, <2>2, ReadingKeepsTakeout DEF EntryFails
<1>6. CASE TakeoutStart \/ TakeoutCrash \/ UNCHANGED vars \/ \E h \in Homes : FilesOverlooked(h)
  <2>1. UNCHANGED <<part, server, archive>> /\ (Running' => run'.pc = "file")
    BY <1>6 DEF TakeoutStart, Begin, TakeoutCrash, Crash, vars, Over, Running, TakeoutInv, FilesOverlooked, NextFile
  <2> QED
    BY <2>1 DEF TakeoutInv, IsTakeout, TakeoutRow, KeptItems
<1> QED
  BY <1>1, <1>2, <1>3, <1>4, <1>5, <1>6 DEF TakeoutNext, TakeoutRun
=============================================================================
