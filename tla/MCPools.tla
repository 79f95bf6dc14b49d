------------------------------ MODULE MCPools ------------------------------
(* The two kinds of owners of a pool, each with its own, for TLC: two      *)
(* small blobs, one that fills the byte budget, and one beyond it; for an  *)
(* importer, four things to fetch.  A behaviour is about one of the two.   *)
EXTENDS UploadPool, TLC

CONSTANTS b1, b2, b3, b4

MCBlobs == {b1, b2, b3, b4}
MCLen == b1 :> 1 @@ b2 :> 1 @@ b3 :> 2 @@ b4 :> 5

VARIABLES
  owner,                                        (* "exporter", "importer"   *)
  queue, replies, sender, task, reply, threads, deaths,  (* the other pool  *)
  stage, batch, due, got, whole                 (* FetchPool                *)

Fetching == INSTANCE FetchPool WITH
  jobs <- queue, results <- replies, open <- sender, job <- task,
  outcome <- reply, alive <- threads, panics <- deaths

importerVars ==
  <<queue, replies, sender, task, reply, threads, deaths, stage, batch, due, got, whole>>
vars == <<uploadVars, importerVars, owner>>

Exports(A) == owner = "exporter" /\ A /\ UNCHANGED <<importerVars, owner>>
Imports(A) == owner = "importer" /\ A /\ UNCHANGED <<uploadVars, owner>>

Init == owner \in {"exporter", "importer"} /\ UploadInit /\ Fetching!FetchInit
Next == Exports(UploadNext) \/ Imports(Fetching!FetchNext)

Progress == Exports(OwnerStep) \/ Imports(Fetching!ImporterStep)
Works(w) == Exports(WorkerRuns(w)) \/ Imports(Fetching!FetcherRuns(w))

(* The fairness of both specifications.                                    *)
Spec == Init /\ [][Next]_vars /\ WF_vars(Progress) /\ \A w \in Workers : WF_vars(Works(w))

-----------------------------------------------------------------------------
(* Whoever owns a pool and however its workers end, nobody waits for ever: *)
(* not upload(), for results or for the budget, not an importer that       *)
(* counts results, and not drop(), with results and jobs still in the pool *)
(* and workers blocked on them.  And an importer that counts misses none.  *)
PoolsServe == NothingHangs /\ Fetching!PoolGoes /\ []Fetching!AllFetched
=============================================================================
