------------------------------ MODULE FetchPool ------------------------------
(***************************************************************************)
(* The importers' use of a pool of threads.  An importer submits all it    *)
(* has to fetch, and then either lets the pool finish                      *)
(* (fetch_new in src/src/sync/import_jmap.rs) or receives as many results  *)
(* as it has submitted jobs and drops the pool (download_blobs there,      *)
(* fetch_files_parallel in import_dav/tree.rs, and others).  It writes     *)
(* what it receives, and where that fails it returns at once, with the     *)
(* other results, and the jobs behind them, still in the pool.             *)
(***************************************************************************)
EXTENDS WorkerPool

VARIABLES
  stage,    (* "idle", "reads" (the loop of recv), "finish" (all results), *)
            (* "drain" and "join" (Drop), "done"                           *)
  batch,    (* what was submitted                                          *)
  due,      (* how many results the loop still waits for                   *)
  got,      (* what was received                                           *)
  whole     (* history: the results were read to the end                   *)

fetchVars == <<poolVars, stage, batch, due, got, whole>>

FetchInit ==
  /\ PoolInit
  /\ stage = "idle" /\ batch = {} /\ due = 0 /\ got = {} /\ whole = FALSE

(* Seeded bug: the last result is not waited for. *)
DueLess(S) == Cardinality(S) - 1
Due(S) == Cardinality(S)

(* The loop over the results comes after the one over the jobs.            *)
Fetch(S) ==
  /\ stage = "idle" /\ stage' = "reads"
  /\ Submit(S) /\ batch' = S /\ due' = Due(S)
  /\ UNCHANGED <<got, whole>>

(* finish(): the job channel is closed before the results are read.        *)
Finish ==
  /\ stage = "reads" /\ due = Cardinality(batch)
  /\ stage' = "finish" /\ CloseJobs
  /\ UNCHANGED <<batch, due, got, whole>>

Receives(r) ==
  /\ stage \in {"reads", "finish"} /\ (stage = "reads" => due > 0)
  /\ Deliver(r)
  /\ got' = got \union {r.job} /\ due' = due - 1
  /\ UNCHANGED <<stage, batch, whole>>

(* Seeded bug: the workers are joined without reading what they send. *)
DropUnread == stage' = "join" /\ CloseJobs
(* drop(): first the job channel, then what is left of the results.        *)
Drop == stage' = "drain" /\ CloseJobs

(* All results are there, or recv() fails because all workers died.        *)
LoopEnds ==
  /\ stage = "reads" /\ (due = 0 \/ Disconnected)
  /\ whole' = TRUE /\ Drop
  /\ UNCHANGED <<batch, due, got>>

(* A transaction or a row fails.                                           *)
GivesUp ==
  /\ stage = "reads"
  /\ Drop
  /\ UNCHANGED <<batch, due, got, whole>>

Discard(r) ==
  /\ stage = "drain"
  /\ Deliver(r)
  /\ UNCHANGED <<stage, batch, due, got, whole>>

(* The iterator over the results ends when no worker can send another.     *)
Drained ==
  /\ stage \in {"finish", "drain"} /\ Disconnected
  /\ stage' = "join" /\ whole' = (whole \/ stage = "finish")
  /\ UNCHANGED <<poolVars, batch, due, got>>

Joined ==
  /\ stage = "join" /\ alive = {}
  /\ stage' = "done"
  /\ UNCHANGED <<poolVars, batch, due, got, whole>>

ImporterStep ==
  \/ \E r \in results : Receives(r) \/ Discard(r)
  \/ LoopEnds \/ Drained \/ Joined

importerVars == <<stage, batch, due, got, whole>>
FetcherRuns(w) == WorkerStep(w) /\ UNCHANGED importerVars

FetchNext ==
  \/ \E S \in SUBSET Jobs : Fetch(S)
  \/ Finish \/ GivesUp \/ ImporterStep
  \/ \E w \in Workers : FetcherRuns(w) \/ (Panic(w) /\ UNCHANGED importerVars)

(* The threads are scheduled and the HTTP calls of the closure return.     *)
FetchSpec ==
  /\ FetchInit /\ [][FetchNext]_fetchVars
  /\ WF_fetchVars(ImporterStep) /\ \A w \in Workers : WF_fetchVars(FetcherRuns(w))

-----------------------------------------------------------------------------
(* What an importer takes for the results of its jobs are the results of   *)
(* all of them, each received once, although it only counts them.  A dead  *)
(* worker costs the job it died with, the last one all that was left.      *)
AllFetched ==
  /\ OnePlace
  /\ got \intersect InFlight = {}
  /\ whole => Cardinality(batch \ got) <= panics \/ panics >= Cardinality(Workers)

(* The pool goes away, however much is still in it when the importer gives *)
(* up: the workers are blocked on a full result channel, with jobs behind  *)
(* them, and the importer waits for their threads.  But for a worker that  *)
(* died while another lives, the loop over the results ends too.           *)
PoolGoes ==
  /\ stage \in {"finish", "drain", "join"} ~> stage = "done"
  /\ stage = "reads" ~> stage = "done" \/ (panics > 0 /\ alive # {})
=============================================================================
