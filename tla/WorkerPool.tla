----------------------------- MODULE WorkerPool -----------------------------
(***************************************************************************)
(* A pool of threads, Pool<J, R> of src/src/sync/import_jmap/pool.rs.      *)
(*                                                                         *)
(* The pool has worker threads between an unbounded job channel and a      *)
(* result channel bounded by their number.  Its owner submits jobs,        *)
(* receives results, and closes the job channel (finish or drop).  A       *)
(* worker can die: a panic in the closure unwinds its thread.  Channels    *)
(* are sets, because no property depends on the order of the jobs and a    *)
(* job is in the pool at most once.  The owners are in UploadPool and in   *)
(* FetchPool.                                                              *)
(***************************************************************************)
EXTENDS Integers, FiniteSets

CONSTANTS
  Jobs,       (* what the owner can submit                                 *)
  Workers,    (* the threads of the pool                                   *)
  NoJob,      (* a worker that waits for a job                             *)
  MaxPanics   (* bound on the workers that die                             *)

ASSUME JobsAssumption == IsFiniteSet(Jobs) /\ NoJob \notin Jobs
ASSUME WorkersAssumption == IsFiniteSet(Workers) /\ Workers # {}
ASSUME PanicsAssumption == MaxPanics \in Nat

VARIABLES
  jobs,       (* the job channel                                           *)
  results,    (* the result channel                                        *)
  open,       (* "yes" while the owner holds job_tx                        *)
  job,        (* [worker -> the job it runs, or NoJob]                     *)
  outcome,    (* [worker -> "none", or the result it waits to send]        *)
  alive,      (* the workers whose thread runs                             *)
  panics      (* how many workers died                                     *)

poolVars == <<jobs, results, open, job, outcome, alive, panics>>

Results == [job : Jobs, res : {"ok", "err"}]
Running == {j \in Jobs : \E w \in Workers : job[w] = j}
Answered == {r.job : r \in results}
InFlight == jobs \union Running \union Answered

PoolInit ==
  /\ jobs = {} /\ results = {} /\ open = "yes"
  /\ job = [w \in Workers |-> NoJob]
  /\ outcome = [w \in Workers |-> "none"]
  /\ alive = Workers /\ panics = 0

PoolTypeOK ==
  /\ jobs \subseteq Jobs /\ results \subseteq Results /\ open \in {"yes", "no"}
  /\ job \in [Workers -> Jobs \union {NoJob}]
  /\ outcome \in [Workers -> {"none", "ok", "err"}]
  /\ alive \subseteq Workers /\ panics \in 0..MaxPanics

-----------------------------------------------------------------------------
(* The owner's side. *)

(* A job sent to a channel without receivers is dropped.                   *)
Submit(S) ==
  /\ jobs' = IF alive = {} THEN jobs ELSE jobs \union S
  /\ UNCHANGED <<results, open, job, outcome, alive, panics>>

Deliver(r) ==
  /\ r \in results
  /\ results' = results \ {r}
  /\ UNCHANGED <<jobs, open, job, outcome, alive, panics>>

(* Seeded bug: drop joins the workers with the channel still open. *)
CloseNothing == UNCHANGED poolVars
CloseJobs ==
  /\ open' = "no"
  /\ UNCHANGED <<jobs, results, job, outcome, alive, panics>>

(* recv() fails: no result is left and no worker can send another.         *)
(* Seeded bug: the owner holds a sender of the results itself. *)
DisconnectedIfClosed == results = {} /\ alive = {} /\ open = "no"
Disconnected == results = {} /\ alive = {}

-----------------------------------------------------------------------------
(* A worker. *)

Receive(w, j) ==
  /\ w \in alive /\ job[w] = NoJob /\ j \in jobs
  /\ jobs' = jobs \ {j}
  /\ job' = [job EXCEPT ![w] = j]
  /\ UNCHANGED <<results, open, outcome, alive, panics>>

Run(w, res) ==
  /\ w \in alive /\ job[w] # NoJob /\ outcome[w] = "none"
  /\ outcome' = [outcome EXCEPT ![w] = res]
  /\ UNCHANGED <<jobs, results, open, job, alive, panics>>

Send(w) ==
  /\ w \in alive /\ outcome[w] # "none"
  /\ Cardinality(results) < Cardinality(Workers)
  /\ results' = results \union {[job |-> job[w], res |-> outcome[w]]}
  /\ job' = [job EXCEPT ![w] = NoJob]
  /\ outcome' = [outcome EXCEPT ![w] = "none"]
  /\ UNCHANGED <<jobs, open, alive, panics>>

Exit(w) ==
  /\ w \in alive /\ job[w] = NoJob /\ jobs = {} /\ open = "no"
  /\ alive' = alive \ {w}
  /\ UNCHANGED <<jobs, results, open, job, outcome, panics>>

(* The closure panics: the thread and its job are gone; with the last      *)
(* receiver the channel drops the queued jobs.                             *)
Panic(w) ==
  /\ panics < MaxPanics
  /\ w \in alive /\ job[w] # NoJob /\ outcome[w] = "none"
  /\ alive' = alive \ {w}
  /\ job' = [job EXCEPT ![w] = NoJob]
  /\ jobs' = IF alive = {w} THEN {} ELSE jobs
  /\ panics' = panics + 1
  /\ UNCHANGED <<results, open, outcome>>

WorkerStep(w) ==
  \/ \E j \in jobs : Receive(w, j)
  \/ \E res \in {"ok", "err"} : Run(w, res)
  \/ Send(w)
  \/ Exit(w)

(* A job is in one place at a time: queued, with one worker, or answered   *)
(* once; and a worker that is gone holds nothing.                          *)
OnePlace ==
  /\ jobs \intersect (Running \union Answered) = {}
  /\ Running \intersect Answered = {}
  /\ \A v, w \in Workers : job[v] = job[w] /\ job[v] # NoJob => v = w
  /\ \A r, q \in results : r.job = q.job => r = q
  /\ \A w \in Workers : /\ outcome[w] # "none" => job[w] # NoJob
                        /\ w \notin alive => job[w] = NoJob
  /\ alive = {} => jobs = {}
=============================================================================
