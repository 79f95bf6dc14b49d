----------------------------- MODULE EmailExport -----------------------------
(***************************************************************************)
(* The exporter's emails (src/src/sync/export/email.rs), run after run.    *)
(*                                                                         *)
(* A run matches the archive's emails with the target by key and exports   *)
(* the others in chunks.  A chunk uploads the blobs it needs and sends one *)
(* Email/import, which is cut in halves as long as the server finds it too *)
(* large; the outcomes are collected in the order of the items.  Emails    *)
(* whose blob the server no longer knows are uploaded and imported again,  *)
(* in batches half as large each time, until the batches hold one email.   *)
(*                                                                         *)
(* An email is its local id, and emails are taken in the order of their    *)
(* ids; the upload of a chunk's blobs, which is what UploadPool is about,  *)
(* is one step here.                                                       *)
(***************************************************************************)
EXTENDS Integers, SequencesExt

CONSTANTS
  NumEmails,        (* the emails are the local ids 1..NumEmails           *)
  Blob,             (* [email -> its blob]                                 *)
  Key,              (* [email -> its EmailKey]                             *)
  MaxObjectsInSet,  (* maxObjectsInSet of the session                      *)
  MaxFit,           (* how many emails fit in one request                  *)
  Targets,          (* the targets a run may meet, see below               *)
  MaxFaults         (* bound on errors, crashes and lost blobs             *)

Emails == 1..NumEmails

ASSUME EmailsAssumption ==
  NumEmails \in Nat
ASSUME LimitsAssumption ==
  MaxObjectsInSet \in Nat \ {0} /\ MaxFit \in Nat \ {0} /\ MaxFaults \in Nat

(* A target may refuse the same blob twice (JMAP: MAY), and drop blobs     *)
(* nothing refers to at any time; on it, some emails lack their mailbox,   *)
(* and some exceed its limits on their own.                                *)
ASSUME TargetsAssumption ==
  Targets \subseteq [dedups : BOOLEAN, forgetful : BOOLEAN,
                     homeless : SUBSET Emails, big : SUBSET Emails]

VARIABLES
  target,     (* the target's nature, never changed                        *)
  copies,     (* target: [email -> how many copies of it were imported]    *)
  held,       (* target: the uploaded blobs it still knows                 *)
  pc,         (* where the run is                                          *)
  cache,      (* Uploader.cache: blobs with an id                          *)
  rest,       (* reconcile: unmatched emails of the chunks to come         *)
  batch,      (* Exporter.batch                                            *)
  size,       (* export_chunk: size of the re-upload batches               *)
  attempt,    (* export_chunk: First, Reupload or LastReupload             *)
  retry,      (* export_chunk: emails to upload and import again           *)
  again,      (* export_chunk: those whose blob was lost once more         *)
  head,       (* import: the emails it was called with                     *)
  ready,      (* import: those that were sent, in order                    *)
  parts,      (* send_import: the requests to send, in order               *)
  results,    (* import: the outcomes of ready, in order                   *)
  counted,    (* TypeCounts: [email -> what it was counted as, in order]   *)
  faults,     (* how many faults happened                                  *)
  lost        (* history: imports the target made and nobody heard of      *)

targetVars == <<target, copies, held>>
chunkVars == <<rest, batch, size, attempt, retry, again>>
importVars == <<head, ready, parts, results>>
vars == <<target, copies, held, pc, cache, rest, batch, size, attempt, retry, again,
          head, ready, parts, results, counted, faults, lost>>

Phases == {"idle", "chunk", "upload", "send", "batches", "done"}
ItemOutcomes == {"created", "skipped", "blobNotFound", "refused", "tooLarge"}

OnTarget(e) == copies[e] > 0
KeyOnTarget(k) == \E e \in Emails : OnTarget(e) /\ Key[e] = k
BlobOnTarget(b) == \E e \in Emails : OnTarget(e) /\ Blob[e] = b

(* Seeded bug: the batches of a round are as large as before. *)
NotHalved(n) == n
(* Seeded bug: a batch of one is halved to none. *)
HalfOrNone(n) == n \div 2
Half(n) == IF n \div 2 = 0 THEN 1 ELSE n \div 2
Take(s, n) == SubSeq(s, 1, IF n < Len(s) THEN n ELSE Len(s))
Skip(s, n) == SubSeq(s, n + 1, Len(s))

(* The first n of some emails; all of them, one after the other.           *)
Lowest(S, n) == {e \in S : Cardinality({d \in S : d < e}) < n}
InOrder(S) ==
  CHOOSE s \in [1..Cardinality(S) -> S] : \A j, k \in DOMAIN s : j < k => s[j] < s[k]

Init ==
  /\ target \in Targets
  /\ copies = [e \in Emails |-> 0] /\ held = {}
  /\ pc = "idle" /\ cache = {} /\ rest = {} /\ batch = MaxObjectsInSet
  /\ size = 0 /\ attempt = "first" /\ retry = {} /\ again = {}
  /\ head = {} /\ ready = <<>> /\ parts = <<>> /\ results = <<>>
  /\ counted = [e \in Emails |-> <<>>] /\ faults = 0 /\ lost = 0

Counts(S, as) == [e \in Emails |-> IF e \in S THEN Append(counted[e], as) ELSE counted[e]]

Fault == faults < MaxFaults /\ faults' = faults + 1

-----------------------------------------------------------------------------
(* reconcile: match by key, then one chunk after the other.                *)
(* Seeded bug: any message on the target counts as a match. *)
MatchedByAny(e) == \E f \in Emails : OnTarget(f)
Matched(e) == KeyOnTarget(Key[e])

Reconcile ==
  /\ pc \in {"idle", "done"}
  /\ pc' = "chunk"
  /\ LET matched == {e \in Emails : Matched(e)}
     IN /\ rest' = Emails \ matched
        /\ counted' = [e \in Emails |-> IF e \in matched THEN <<"skipped">> ELSE <<>>]
  /\ batch' = MaxObjectsInSet /\ cache' = {}
  /\ UNCHANGED <<targetVars, size, attempt, retry, again, importVars, faults, lost>>

ExportChunk ==
  /\ pc = "chunk" /\ rest # {}
  /\ pc' = "upload"
  /\ LET chunk == Lowest(rest, batch)
     IN /\ rest' = rest \ chunk
        /\ head' = chunk \ target.homeless
        /\ counted' = Counts(chunk \intersect target.homeless, "failed")
  /\ size' = Cardinality(head')
  /\ attempt' = "first"
  /\ UNCHANGED <<targetVars, cache, batch, retry, again, ready, parts,
                 results, faults, lost>>

Finish ==
  /\ pc = "chunk" /\ rest = {}
  /\ pc' = "done"
  /\ UNCHANGED <<targetVars, cache, chunkVars, importVars, counted, faults, lost>>

-----------------------------------------------------------------------------
(* import: upload what is not cached, send the rest, settle each email.    *)
Upload(bad) ==
  /\ pc = "upload"
  /\ LET needed == {Blob[e] : e \in head} \ cache
     IN /\ bad \subseteq needed
        /\ cache' = cache \union (needed \ bad)
        /\ held' = held \union (needed \ bad)
  /\ IF bad = {} THEN UNCHANGED faults ELSE Fault
  /\ LET unsent == {e \in head : Blob[e] \in bad}
     IN /\ counted' = Counts(unsent, "failed")
        /\ ready' = InOrder(head \ unsent)
  /\ pc' = "send"
  /\ head' = {} /\ results' = <<>>
  /\ parts' = IF ready' = <<>> THEN <<>> ELSE <<ready'>>
  /\ UNCHANGED <<target, copies, chunkVars, lost>>

Fits(p) == Len(p) <= MaxFit /\ ToSet(p) \intersect target.big = {}

(* Seeded bug: the second half is sent first. *)
HalvesSwapped(p) == <<Skip(p, Len(p) \div 2), Take(p, Len(p) \div 2)>>
(* Seeded bug: the item in the middle is in neither half. *)
HalvesWithGap(p) == <<Take(p, Len(p) \div 2), Skip(p, Len(p) \div 2 + 1)>>
Halves(p) == <<Take(p, Len(p) \div 2), Skip(p, Len(p) \div 2)>>

(* RequestTooLarge, from fits() or from the server.                        *)
Split ==
  /\ pc = "send" /\ parts # <<>>
  /\ LET p == Head(parts)
     IN /\ ~Fits(p)
        /\ IF Len(p) > 1
             THEN /\ parts' = Halves(p) \o Tail(parts)
                  /\ UNCHANGED results
             ELSE /\ parts' = Tail(parts)
                  /\ results' = Append(results, "tooLarge")
  /\ UNCHANGED <<targetVars, pc, cache, chunkVars, head, ready, counted, faults, lost>>

(* What the target answers for each item of p, refusing those of S.        *)
Outcomes(p, S) ==
  [i \in DOMAIN p |->
     IF p[i] \in S THEN "refused"
     ELSE IF Blob[p[i]] \notin held THEN "blobNotFound"
     ELSE IF /\ target.dedups
             /\ \/ BlobOnTarget(Blob[p[i]])
                \/ \E k \in 1..(i - 1) : Blob[p[k]] = Blob[p[i]] /\ p[k] \notin S
            THEN "skipped"
     ELSE "created"]

Imported(p, S) ==
  [e \in Emails |->
     IF \E i \in DOMAIN p : p[i] = e /\ Outcomes(p, S)[i] = "created"
       THEN copies[e] + 1 ELSE copies[e]]

Answered(S) ==
  /\ pc = "send" /\ parts # <<>> /\ Fits(Head(parts))
  /\ S \subseteq ToSet(Head(parts))
  /\ IF S = {} THEN UNCHANGED faults ELSE Fault
  /\ copies' = Imported(Head(parts), S)
  /\ results' = results \o Outcomes(Head(parts), S)
  /\ parts' = Tail(parts)
  /\ UNCHANGED <<target, held, pc, cache, chunkVars, head, ready, counted, lost>>

(* The target imported and its answer was lost: execute() sends again.     *)
AnswerLost ==
  /\ pc = "send" /\ parts # <<>> /\ Fits(Head(parts))
  /\ Fault
  /\ copies' = Imported(Head(parts), {})
  /\ lost' = lost + 1
  /\ UNCHANGED <<target, held, pc, cache, chunkVars, importVars, counted>>

(* An error of the method, after which the target may have imported or not:*)
(* what has no outcome yet failed.                                         *)
MethodFails ==
  /\ pc = "send" /\ parts # <<>> /\ Fits(Head(parts))
  /\ Fault
  /\ \/ UNCHANGED <<target, copies, lost>>
     \/ copies' = Imported(Head(parts), {}) /\ lost' = lost + 1
  /\ counted' = Counts(ToSet(Skip(ready, Len(results))), "failed")
  /\ ready' = Take(ready, Len(results))
  /\ parts' = <<>>
  /\ UNCHANGED <<target, held, pc, cache, chunkVars, head, results>>

(* The emails of ready whose outcome is one of those in A.                 *)
With(A) == {ready[i] : i \in {j \in DOMAIN results : results[j] \in A}}

(* Seeded bug: every outcome is taken for a lost blob. *)
RetryableAll == IF attempt = "last" THEN {} ELSE ToSet(ready)
Retryable == IF attempt = "last" THEN {} ELSE With({"blobNotFound"})

Settle ==
  /\ pc = "send" /\ parts = <<>>
  /\ pc' = "batches"
  /\ counted' = [e \in Emails |->
       IF e \in With({"created"}) THEN Append(counted[e], "created")
       ELSE IF e \in With({"skipped"}) THEN Append(counted[e], "skipped")
       ELSE IF e \in With(ItemOutcomes) \ Retryable THEN Append(counted[e], "failed")
       ELSE counted[e]]
  /\ again' = again \union Retryable
  /\ batch' = IF attempt = "first" /\ Retryable # {} THEN Half(batch) ELSE batch
  /\ ready' = <<>> /\ results' = <<>>
  /\ UNCHANGED <<targetVars, cache, rest, size, attempt, retry, head, parts,
                 faults, lost>>

-----------------------------------------------------------------------------
(* export_chunk: the batches of a round, and the next round.               *)
NextBatch ==
  /\ pc = "batches" /\ retry # {}
  /\ pc' = "upload"
  /\ head' = Lowest(retry, size)
  /\ retry' = retry \ Lowest(retry, size)
  /\ UNCHANGED <<targetVars, cache, rest, batch, size, attempt, again, ready,
                 parts, results, counted, faults, lost>>

NextRound ==
  /\ pc = "batches" /\ retry = {} /\ again # {}
  /\ size' = Half(size)
  /\ attempt' = IF size' = 1 THEN "last" ELSE "reupload"
  /\ cache' = cache \ {Blob[e] : e \in again}
  /\ retry' = again /\ again' = {}
  /\ UNCHANGED <<targetVars, pc, rest, batch, importVars, counted, faults, lost>>

ChunkDone ==
  /\ pc = "batches" /\ retry = {} /\ again = {}
  /\ pc' = "chunk"
  /\ UNCHANGED <<targetVars, cache, chunkVars, importVars, counted, faults, lost>>

-----------------------------------------------------------------------------
(* An error that aborts the run, or a crash. *)
Abort ==
  /\ pc \in {"chunk", "upload", "send"}
  /\ Fault
  /\ pc' = "idle"
  /\ cache' = {} /\ rest' = {} /\ size' = 0 /\ attempt' = "first"
  /\ batch' = MaxObjectsInSet
  /\ retry' = {} /\ again' = {} /\ head' = {} /\ ready' = <<>>
  /\ parts' = <<>> /\ results' = <<>>
  /\ counted' = [e \in Emails |-> <<>>]
  /\ UNCHANGED <<targetVars, lost>>

LoseBlob(b) ==
  /\ b \in held
  /\ held' = held \ {b}
  /\ IF target.forgetful THEN UNCHANGED faults ELSE Fault
  /\ UNCHANGED <<target, copies, pc, cache, chunkVars, importVars, counted, lost>>

Step ==
  \/ Reconcile \/ ExportChunk \/ Finish
  \/ Upload({}) \/ Split \/ Answered({}) \/ Settle
  \/ NextBatch \/ NextRound \/ ChunkDone

Subsets(S) == (SUBSET S) \ {{}}

Failure ==
  \/ \E bad \in Subsets({Blob[e] : e \in head}) : Upload(bad)
  \/ \E S \in Subsets(IF parts = <<>> THEN {} ELSE ToSet(Head(parts))) : Answered(S)
  \/ AnswerLost \/ MethodFails \/ Abort
  \/ \E b \in held : LoseBlob(b)

Next == Step \/ Failure

Spec == Init /\ [][Next]_vars

(* The command is run again and again and its requests are answered.       *)
FairSpec == Spec /\ WF_vars(Step)

-----------------------------------------------------------------------------
(* Types of the locals of reconcile, export_chunk and import.              *)
TypeOK ==
  /\ target \in Targets
  /\ copies \in [Emails -> Nat]
  /\ {held, cache} \subseteq SUBSET {Blob[e] : e \in Emails}
  /\ pc \in Phases /\ attempt \in {"first", "reupload", "last"}
  /\ {rest, retry, again, head} \subseteq SUBSET Emails
  /\ {ready} \union ToSet(parts) \subseteq Seq(Emails)
  /\ batch \in 1..MaxObjectsInSet /\ size \in 0..MaxObjectsInSet
  /\ attempt # "first" => size > 0
  /\ results \in Seq(ItemOutcomes)
  /\ counted \in [Emails -> Seq({"created", "skipped", "failed"})]
  /\ faults \in 0..MaxFaults /\ lost \in 0..faults

(* However the request was cut and wherever the cutting stopped, an        *)
(* outcome is credited to the email it is about: what is counted as        *)
(* created is on the target, what is counted as skipped has its key or its *)
(* blob there, and what failed for good is there only if the target        *)
(* imported it and nobody heard of that.  No email is dropped between the  *)
(* chunks, the halves and the re-upload rounds, and none is counted twice: *)
(* a finished run accounts for each.                                       *)
CountedOnce(e) == Len(counted[e]) <= 1 /\ (pc = "done" => Len(counted[e]) = 1)
CountsTrue ==
  \A e \in Emails :
    /\ CountedOnce(e)
    /\ \A i \in DOMAIN counted[e] :
         CASE counted[e][i] = "created" -> OnTarget(e)
           [] counted[e][i] = "skipped" -> KeyOnTarget(Key[e]) \/ BlobOnTarget(Blob[e])
           [] counted[e][i] = "failed"  -> lost = 0 => ~OnTarget(e)

(* Neither the re-upload rounds nor the next run import an email again,    *)
(* even if the target would take it: only a request that was repeated      *)
(* because its answer was lost does.                                       *)
NoDuplicates == \A e \in Emails : copies[e] <= 1 + lost

(* Every run ends, although the target may lose the blobs again and again. *)
RunEnds == pc = "chunk" ~> pc \in {"done", "idle"}

Exportable == Emails \ (target.homeless \union target.big)

(* Once the faults are over, rerunning the export brings a message with    *)
(* every email's key to a target that keeps what was uploaded.  Not every  *)
(* email: when two share a key and only one got there before a run was     *)
(* interrupted, no rerun sends the other.                                  *)
KeysArrive ==
  ~target.forgetful => <>[](\A e \in Exportable : KeyOnTarget(Key[e]))
=============================================================================
