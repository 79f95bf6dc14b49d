---------------------------- MODULE ImapSession ----------------------------
(***************************************************************************)
(* One worker of the IMAP importer's pool and its connection, line by line *)
(* (src/src/sync/import_imap/pool.rs, imap/client.rs, imap/retry.rs).      *)
(*                                                                         *)
(* A job is a FETCH in a folder, which is selected first unless the worker *)
(* believes it is.  The client sends one command at a time and reads       *)
(* responses until one has the command's tag; FETCH responses in between   *)
(* are filed under the folder of the job, as they do not say which folder  *)
(* they are from.  So much depends on the client never reading what was    *)
(* meant for an earlier command: a connection that broke, timed out or     *)
(* said BYE is given up.  One that sent something that cannot be parsed    *)
(* is not: the job fails, and what is left of the response is read by the  *)
(* next one.                                                               *)
(***************************************************************************)
EXTENDS Integers, SequencesExt

CONSTANTS
  Mailboxes,    (* the folders that jobs are about                         *)
  NoMailbox,    (* none of them                                            *)
  JobRetries,   (* --max-retries                                           *)
  MaxJobs,      (* bound on the jobs of the worker                         *)
  MaxLines,     (* bound on the FETCH responses to one command             *)
  MaxTorn       (* bound on the responses that cannot be parsed            *)

ASSUME MailboxAssumption == NoMailbox \notin Mailboxes
ASSUME JobBoundsAssumption ==
  JobRetries \in Nat /\ MaxJobs \in Nat /\ MaxLines \in Nat /\ MaxTorn \in Nat

VARIABLES
  conn,        (* the connection: whether there is one, the folder the     *)
               (* server has selected, what it sent and is not read yet    *)
  believed,    (* current_folder                                           *)
  tag,         (* the tag of the last command                              *)
  worker,      (* the job: where it is, its folder, its two counts         *)
  taken,       (* how many jobs the worker took                            *)
  torn,        (* history: responses that could not be parsed, and whether *)
               (* one was on this connection                               *)
  filed        (* history: the last FETCH response, as it was filed        *)

sessionVars == <<conn, believed, tag, worker, taken, torn, filed>>

NoConn == [up |-> FALSE, selected |-> NoMailbox, lines |-> <<>>]
NoJob == [at |-> "idle", folder |-> NoMailbox, drops |-> 0, busy |-> 0]

Nothing == [under |-> NoMailbox, from |-> NoMailbox, doubtful |-> FALSE]

SessionStart ==
  /\ conn = NoConn /\ believed = NoMailbox /\ tag = 0
  /\ worker = NoJob /\ torn = [count |-> 0, here |-> FALSE] 
  /\ filed = Nothing
SessionInit == SessionStart /\ taken = 0
NoSession == SessionStart /\ taken = MaxJobs

-----------------------------------------------------------------------------
(* What the server sends.                                                  *)

Tagged(k) == [kind |-> k, tag |-> tag + 1, from |-> NoMailbox]
Fetched(f) == [kind |-> "fetch", tag |-> 0, from |-> f]
Unparsed == [kind |-> "torn", tag |-> 0, from |-> NoMailbox]

(* A NO that says try again later is "busy"; "bye" has no tag but ends the *)
(* response as well.                                                       *)
Verdicts == {"ok", "no", "busy", "bye"}

(* The response, or the same with a line that cannot be parsed.            *)
Answered(response) ==
  \/ /\ conn' = [conn EXCEPT !.lines = @ \o response]
     /\ UNCHANGED torn
  \/ /\ torn.count < MaxTorn
     /\ torn' = [count |-> torn.count + 1, here |-> TRUE]
     /\ \E i \in DOMAIN response :
          conn' = [conn EXCEPT !.lines = @ \o ReplaceAt(response, i, Unparsed)]

-----------------------------------------------------------------------------
Take(f) ==
  /\ worker.at = "idle" /\ taken < MaxJobs
  /\ taken' = taken + 1
  /\ worker' = [NoJob EXCEPT !.at = "run", !.folder = f]
  /\ UNCHANGED <<conn, believed, tag, torn, filed>>

(* ChunkDone, with or without an error.                                    *)
JobEnds == worker' = NoJob

Connect ==
  /\ worker.at = "run" /\ ~conn.up
  /\ conn' = [NoConn EXCEPT !.up = TRUE] /\ believed' = NoMailbox /\ tag' = 0
  /\ torn' = [torn EXCEPT !.here = FALSE]
  /\ UNCHANGED <<worker, taken, filed>>

(* A connection that is not made is tried again; the login that fails, for *)
(* whatever reason, is not.                                                *)
ConnectFails ==
  /\ worker.at = "run" /\ ~conn.up
  /\ \/ JobEnds
     \/ worker.drops < JobRetries /\ worker' = [worker EXCEPT !.drops = @ + 1]
  /\ UNCHANGED <<conn, believed, tag, taken, torn, filed>>

(* A SELECT that fails leaves the server with no folder selected, and the  *)
(* worker with the one it had.                                             *)
SendSelect ==
  /\ worker.at = "run" /\ conn.up /\ believed # worker.folder
  /\ tag' = tag + 1
  /\ worker' = [worker EXCEPT !.at = "select"]
  /\ \E k \in Verdicts :
       LET now == IF k = "ok" THEN worker.folder ELSE NoMailbox
       IN  \/ /\ conn' = [conn EXCEPT !.selected = now, !.lines = Append(@, Tagged(k))]
              /\ UNCHANGED torn
           \/ /\ torn.count < MaxTorn
              /\ torn' = [count |-> torn.count + 1, here |-> TRUE]
              /\ \E response \in {<<Unparsed>>, <<Unparsed, Tagged(k)>>} :
                   conn' = [conn EXCEPT !.selected = now, !.lines = @ \o response]
  /\ UNCHANGED <<believed, taken, filed>>

Response(n, k) == [i \in 1..n |-> Fetched(conn.selected)] \o <<Tagged(k)>>

SendFetch ==
  /\ worker.at = "run" /\ conn.up /\ believed = worker.folder
  /\ tag' = tag + 1
  /\ worker' = [worker EXCEPT !.at = "fetch"]
  /\ IF conn.selected = NoMailbox THEN Answered(<<Tagged("bad")>>)
     ELSE \E n \in 0..MaxLines, k \in Verdicts : Answered(Response(n, k))
  /\ UNCHANGED <<believed, taken, filed>>

(* A folder's name that this server cannot be sent.                        *)
Unsendable ==
  /\ worker.at = "run" /\ conn.up /\ believed # worker.folder
  /\ JobEnds /\ tag' = tag + 1
  /\ UNCHANGED <<conn, believed, taken, torn, filed>>

-----------------------------------------------------------------------------
(* Reading the response, a line at a time.                                 *)

Reads(kinds) ==
  /\ worker.at \in {"select", "fetch"} /\ conn.lines # <<>>
  /\ Head(conn.lines).kind \in kinds
  /\ conn' = [conn EXCEPT !.lines = Tail(@)]

Mine == Head(conn.lines).tag = tag

(* Only a FETCH looks at the FETCH responses it reads.                     *)
ReadItem ==
  /\ Reads({"fetch"})
  /\ filed' = IF worker.at = "select" THEN filed
              ELSE [under |-> worker.folder, from |-> Head(conn.lines).from,
                    doubtful |-> torn.here]
  /\ UNCHANGED <<believed, tag, worker, taken, torn>>

ReadOk ==
  /\ Reads({"ok"}) /\ Mine
  /\ IF worker.at = "select"
     THEN believed' = worker.folder /\ worker' = [worker EXCEPT !.at = "run"]
     ELSE JobEnds /\ UNCHANGED believed
  /\ UNCHANGED <<tag, taken, torn, filed>>

(* Disposition::Transient.                                                 *)
ReadBusy ==
  /\ Reads({"busy"}) /\ Mine
  /\ IF worker.busy < JobRetries
     THEN worker' = [worker EXCEPT !.at = "run", !.busy = @ + 1]
     ELSE JobEnds
  /\ UNCHANGED <<believed, tag, taken, torn, filed>>

(* A refusal, the tag of another command, or something that is no response *)
(* at all: none of them is worth a retry or the connection.                *)
ReadError ==
  /\ \/ Reads({"no", "bad"}) /\ Mine
     \/ Reads({"ok", "no", "bad", "busy"}) /\ ~Mine
     \/ Reads({"torn"})
  /\ JobEnds
  /\ UNCHANGED <<believed, tag, taken, torn, filed>>

(* Seeded bug: the connection is kept after a timeout. *)
KeepConn == UNCHANGED <<conn, believed>>
GiveUpConn == conn' = NoConn /\ believed' = NoMailbox

(* Disposition::TransportDrop.                                             *)
TransportDrop ==
  /\ GiveUpConn
  /\ IF worker.drops < JobRetries
     THEN worker' = [worker EXCEPT !.at = "run", !.drops = @ + 1]
     ELSE JobEnds
  /\ UNCHANGED <<tag, taken, torn, filed>>

ReadBye ==
  /\ worker.at \in {"select", "fetch"} /\ conn.lines # <<>>
  /\ Head(conn.lines).kind = "bye"
  /\ TransportDrop

(* The connection breaks, or nothing comes for IO_TIMEOUT.                 *)
Broken == worker.at \in {"select", "fetch"} /\ TransportDrop

(* catch_unwind: the worker survives a job that panics.                    *)
Panic ==
  /\ worker.at # "idle"
  /\ conn' = NoConn /\ believed' = NoMailbox
  /\ JobEnds
  /\ UNCHANGED <<tag, taken, torn, filed>>

Working ==
  \/ Connect \/ ConnectFails \/ SendSelect \/ SendFetch \/ Unsendable
  \/ ReadItem \/ ReadOk \/ ReadBusy \/ ReadError \/ ReadBye \/ Broken \/ Panic

SessionNext == Working \/ \E f \in Mailboxes : Take(f)

SessionSpec == SessionInit /\ [][SessionNext]_sessionVars

(* The worker is scheduled, and its reads time out.                        *)
SessionFairness == WF_sessionVars(Working)

-----------------------------------------------------------------------------
(* Types of the connection and of the worker.                              *)
SessionTypeOK ==
  /\ conn.up \in BOOLEAN /\ conn.selected \in Mailboxes \union {NoMailbox}
  /\ believed \in Mailboxes \union {NoMailbox}
  /\ tag \in Nat /\ taken \in 0..MaxJobs
  /\ worker.at \in {"idle", "run", "select", "fetch"}
  /\ worker.drops \in 0..JobRetries /\ worker.busy \in 0..JobRetries
  /\ torn.count \in 0..MaxTorn /\ torn.here \in BOOLEAN

(* A message is filed under the folder it was fetched from, whatever jobs  *)
(* the worker had before and however they failed: no job reads what an     *)
(* earlier one asked for, unless something on this connection could not be *)
(* parsed.                                                                 *)
AnswersMatch == filed.doubtful \/ filed.under = filed.from

(* Every job ends, so that reconcile_folder gets its ChunkDone.            *)
JobEnded == worker.at = "idle"
=============================================================================
