----------------------------- MODULE UploadPool -----------------------------
(***************************************************************************)
(* The exporter's blob uploads (src/src/sync/export/blobpool.rs) on a pool *)
(* of threads.                                                             *)
(*                                                                         *)
(* The owner keeps the blobs in flight within a Budget.                    *)
(* upload() is called once per chunk of emails on the same pool, on the    *)
(* blobs that are not cached yet; between two calls the exporter may       *)
(* forget cached ids the server no longer knows; at the end it drops the   *)
(* pool, which closes the job channel and joins the workers.               *)
(***************************************************************************)
EXTENDS WorkerPool

CONSTANTS
  BlobLen,    (* [blob -> its length in bytes]; the jobs are the blobs     *)
  MaxCount,   (* MAX_INFLIGHT_BLOBS                                        *)
  MaxBytes,   (* MAX_INFLIGHT_BYTES                                        *)
  MaxCalls    (* bound on the calls of upload()                            *)

ASSUME LenAssumption == BlobLen \in [Jobs -> Nat]
ASSUME LimitsAssumption ==
  MaxCount \in Nat \ {0} /\ MaxBytes \in Nat /\ MaxCalls \in Nat

VARIABLES
  pc,         (* where upload() or drop() is                               *)
  todo,       (* blobs of this call not looked at yet                      *)
  cur,        (* the blob waiting to be admitted, or NoJob                 *)
  asked,      (* history: the blobs this call was given                    *)
  calls,      (* how many calls were made                                  *)
  count,      (* Budget.count                                              *)
  bytes,      (* Budget.bytes                                              *)
  cache,      (* Uploader.cache: blobs with an id on the target            *)
  failed      (* the call's map of failed blobs                            *)

uploadVars == <<poolVars, pc, todo, cur, asked, calls, count, bytes, cache, failed>>

UploadInit ==
  /\ PoolInit
  /\ pc = "idle" /\ todo = {} /\ cur = NoJob /\ asked = {} /\ calls = 0
  /\ count = 0 /\ bytes = 0 /\ cache = {} /\ failed = {}

Upload(S) ==
  /\ pc = "idle" /\ calls < MaxCalls
  /\ pc' = "next" /\ todo' = S /\ asked' = S /\ calls' = calls + 1
  /\ failed' = {} /\ count' = 0 /\ bytes' = 0
  /\ UNCHANGED <<poolVars, cur, cache>>

(* The server lost the blobs of S: the exporter forgets their ids.         *)
Invalidate(S) ==
  /\ pc = "idle"
  /\ cache' = cache \ S
  /\ UNCHANGED <<poolVars, pc, todo, cur, asked, calls, count, bytes, failed>>

SkipCached(b) ==
  /\ pc = "next" /\ b \in todo \intersect cache
  /\ todo' = todo \ {b}
  /\ UNCHANGED <<poolVars, pc, cur, asked, calls, count, bytes, cache, failed>>

ReadBytes(b) ==
  /\ pc = "next" /\ b \in todo \ cache
  /\ todo' = todo \ {b}
  /\ pc' = "admit" /\ cur' = b
  /\ UNCHANGED <<poolVars, asked, calls, count, bytes, cache, failed>>

ReadFails(b) ==
  /\ pc = "next" /\ b \in todo \ cache
  /\ todo' = todo \ {b}
  /\ failed' = failed \union {b}
  /\ UNCHANGED <<poolVars, pc, cur, asked, calls, count, bytes, cache>>

(* Seeded bug: one of the two limits is enough. *)
AdmitsEither(len) == count = 0 \/ count < MaxCount \/ bytes + len <= MaxBytes
Admits(len) == count = 0 \/ (count < MaxCount /\ bytes + len <= MaxBytes)

(* Seeded bug: the blob stays the current one. *)
TakeAndKeep(n, m) ==
  /\ count' = n + 1 /\ bytes' = m + BlobLen[cur]
  /\ Submit({cur})
  /\ pc' = "next"
  /\ UNCHANGED <<todo, cur, asked, calls, cache, failed>>

(* budget.take and submit, on a budget of n blobs and m bytes.             *)
Take(n, m) ==
  /\ count' = n + 1 /\ bytes' = m + BlobLen[cur]
  /\ Submit({cur})
  /\ pc' = "next" /\ cur' = NoJob
  /\ UNCHANGED <<todo, asked, calls, cache, failed>>

TakeNext ==
  /\ pc = "admit" /\ Admits(BlobLen[cur])
  /\ Take(count, bytes)

(* Seeded bug: the outcome stays in the budget. *)
ReleaseNothing(a, b) == a
Release(a, b) == IF b <= a THEN a - b ELSE 0

(* collect_one: the outcome leaves the budget and is recorded.             *)
Collect(r) ==
  /\ \/ pc = "admit" /\ ~Admits(BlobLen[cur])
     \/ pc = "next" /\ todo = {} /\ count # 0
  /\ Deliver(r)
  /\ count' = Release(count, 1) /\ bytes' = Release(bytes, BlobLen[r.job])
  /\ cache' = IF r.res = "ok" THEN cache \union {r.job} ELSE cache
  /\ failed' = IF r.res = "ok" THEN failed ELSE failed \union {r.job}
  /\ UNCHANGED <<pc, todo, cur, asked, calls>>

(* collect_one when the last worker is gone: the budget starts over.       *)
TakeDisconnected ==
  /\ pc = "admit" /\ ~Admits(BlobLen[cur])
  /\ Disconnected
  /\ Take(0, 0)

DrainDisconnected ==
  /\ pc = "next" /\ todo = {} /\ count # 0
  /\ Disconnected
  /\ count' = 0 /\ bytes' = 0 /\ pc' = "idle"
  /\ UNCHANGED <<poolVars, todo, cur, asked, calls, cache, failed>>

(* Seeded bug: the last outcomes are left to the next call. *)
ReturnEarly ==
  /\ pc = "next" /\ todo = {}
  /\ pc' = "idle"
  /\ UNCHANGED <<poolVars, todo, cur, asked, calls, count, bytes, cache, failed>>

Return ==
  /\ pc = "next" /\ todo = {} /\ count = 0
  /\ pc' = "idle"
  /\ UNCHANGED <<poolVars, todo, cur, asked, calls, count, bytes, cache, failed>>

(* drop(): upload() never leaves a result behind, so that the loop over    *)
(* the results finds none before the workers are gone.                     *)
Close ==
  /\ pc = "idle"
  /\ pc' = "closing"
  /\ CloseJobs
  /\ UNCHANGED <<todo, cur, asked, calls, count, bytes, cache, failed>>

Join ==
  /\ pc = "closing" /\ Disconnected
  /\ pc' = "joined"
  /\ UNCHANGED <<poolVars, todo, cur, asked, calls, count, bytes, cache, failed>>

OwnerStep ==
  \/ \E b \in Jobs : SkipCached(b) \/ ReadBytes(b) \/ ReadFails(b)
  \/ TakeNext \/ TakeDisconnected \/ DrainDisconnected \/ Return
  \/ \E r \in results : Collect(r)
  \/ Join

ownerVars == <<pc, todo, cur, asked, calls, count, bytes, cache, failed>>

WorkerRuns(w) == WorkerStep(w) /\ UNCHANGED ownerVars

UploadNext ==
  \/ \E S \in SUBSET Jobs : Upload(S) \/ Invalidate(S)
  \/ Close
  \/ OwnerStep
  \/ \E w \in Workers : WorkerRuns(w) \/ (Panic(w) /\ UNCHANGED ownerVars)

UploadSpec == UploadInit /\ [][UploadNext]_uploadVars

(* The threads are scheduled and the HTTP calls of the closure return.     *)
FairUploadSpec ==
  UploadSpec /\ WF_uploadVars(OwnerStep) /\ \A w \in Workers : WF_uploadVars(WorkerRuns(w))

-----------------------------------------------------------------------------
(* Types of upload()'s locals and of the pool under it.                    *)
UploadTypeOK ==
  /\ PoolTypeOK
  /\ pc \in {"idle", "next", "admit", "closing", "joined"}
  /\ todo \subseteq Jobs /\ asked \subseteq Jobs
  /\ cur \in Jobs \union {NoJob} /\ (cur = NoJob <=> pc # "admit")
  /\ calls \in 0..MaxCalls /\ count \in Nat /\ bytes \in Nat
  /\ cache \subseteq Jobs /\ failed \subseteq Jobs

(* The bytes of some blobs, each by its place in its blob.                 *)
BytesOf(S) == UNION {{b} \X (1..BlobLen[b]) : b \in S}

(* What is in memory on its way to the server stays within the budget:     *)
(* MAX_INFLIGHT_BLOBS blobs and MAX_INFLIGHT_BYTES bytes, or one blob of   *)
(* any size.  It is about the blobs themselves, wherever they are between  *)
(* the two channels, and not about the two counters, even after a worker   *)
(* died with a blob or the budget was started over.                        *)
CountBounded == Cardinality(InFlight) <= MaxCount

InFlightBounded ==
  /\ CountBounded
  /\ \/ Cardinality(InFlight) <= 1
     \/ Cardinality(BytesOf(InFlight)) <= MaxBytes

(* While no worker died, each blob of the call is still to be looked at,   *)
(* waits for the budget, is in flight in exactly one place, or is settled, *)
(* and the budget counts what is in flight: the last recv() of upload()    *)
(* never waits for an outcome that cannot come.                            *)
Accounted ==
  /\ OnePlace
  /\ Cardinality(InFlight) <= count
  /\ panics = 0 => count = Cardinality(InFlight)
  /\ panics = 0 /\ pc \in {"next", "admit"} =>
       /\ asked \subseteq todo \union {cur} \union InFlight \union cache \union failed
       /\ (todo \union {cur}) \intersect InFlight = {}

(* upload() returns only when each of its blobs has an id or an error, and *)
(* leaves nothing in the pool for the next call to mistake for its own.    *)
SettledOnReturn ==
  [][pc = "next" /\ pc' = "idle" =>
       /\ InFlight' = {}
       /\ panics = 0 => asked \subseteq cache \union failed]_uploadVars

(* Every upload() returns although both sides block: the workers on the    *)
(* bounded result channel, the owner on the budget.  Dead workers do not   *)
(* change that, unless another one lives: then no recv() ever fails and    *)
(* upload() may wait for the outcome that died with its worker.            *)
Returns == pc = "next" ~> pc = "idle" \/ (panics > 0 /\ alive # {})

(* Dropping the pool at the end of the export does not hang.               *)
Dropped == pc = "closing" ~> pc = "joined"

(* Neither end of the two channels waits for ever on the other, be it in   *)
(* upload() or while the pool is dropped.                                  *)
NothingHangs == Returns /\ Dropped
=============================================================================
