---------------------------- MODULE RemoteCalls ----------------------------
(***************************************************************************)
(* One call of the DAV, EWS and Graph clients (execute in                  *)
(* src/src/dav/client.rs, exchange_ews/client.rs, exchange_graph/client.rs)*)
(* by the threads of an import that share one client.                      *)
(*                                                                         *)
(* The clients loop alike: wait for the shared cooldown, send, look at the *)
(* answer, and end or go round again.  A throttled attempt counts as a     *)
(* retry, arms the cooldown and sleeps; one lost on the way sleeps on its  *)
(* own.  Two rounds are not retries: a redirect of DAV, which may lead to  *)
(* another host, and a schema version that the EWS server refuses, for     *)
(* which the next lower one is tried.  That version is shared: the calls   *)
(* of other threads lower it, and raise it again.                          *)
(*                                                                         *)
(* Time passes in ticks; a delay is any number of them up to LongestWait.  *)
(* The envelope is built from a second reading of the version; as the      *)
(* server may refuse any version, it is taken for the first.               *)
(***************************************************************************)
EXTENDS Integers, FiniteSets

CONSTANTS
  Callers,       (* the threads that share the client                      *)
  Retries,       (* --max-retries                                          *)
  LongestWait,   (* bound on a delay, in ticks                             *)
  MostCalls,     (* bound on the calls of one thread                       *)
  MaxRedirects,  (* MAX_DAV_REDIRECTS                                      *)
  TopVersion     (* the schema versions are 0..TopVersion, oldest first    *)

ASSUME CallersAssumption == IsFiniteSet(Callers)
ASSUME RetriesAssumption ==
  /\ Retries \in Nat /\ LongestWait \in Nat /\ MostCalls \in Nat
  /\ MaxRedirects \in Nat /\ TopVersion \in Nat

VARIABLES
  client,        (* which of the clients it is, or "none"                  *)
  version,       (* the schema version that EwsClient has settled on       *)
  pause,         (* ticks until the shared cooldown is over                *)
  line           (* [thread -> its call]                                   *)

remoteVars == <<client, version, pause, line>>

Clients == {"dav", "ews", "graph"}
Versions == 0..TopVersion
Hosts == {"origin", "other"}

(* A call: where it is, its calls so far, the locals of execute() and what *)
(* it asks for; `sends', `lowered', `raised' and `strayed' are history:    *)
(* the requests it sent, the versions it gave up, how far others raised    *)
(* the version in the meantime, and whether a redirect led it away from    *)
(* the first host.                                                         *)
Lines ==
  [at : {"idle", "cooling", "sent", "nap"}, made : 0..MostCalls,
   tries : 0..Retries, hops : 0..MaxRedirects, host : Hosts, auth : BOOLEAN,
   asked : Versions, wait : 0..LongestWait,
   sends : Nat, lowered : Nat, raised : Nat, strayed : BOOLEAN]

Fresh(n) ==
  [at |-> "idle", made |-> n, tries |-> 0, hops |-> 0, host |-> "origin", auth |-> TRUE,
   asked |-> 0, wait |-> 0, sends |-> 0, lowered |-> 0, raised |-> 0, strayed |-> FALSE]

RemoteInit ==
  /\ client \in Clients
  /\ version = TopVersion /\ pause = 0
  /\ line = [c \in Callers |-> Fresh(0)]

NoRemote == client = "none" /\ version = 0 /\ pause = 0 /\ line = [c \in Callers |-> Fresh(0)]

-----------------------------------------------------------------------------
Begin(c) ==
  /\ line[c].at = "idle" /\ line[c].made < MostCalls
  /\ line' = [line EXCEPT ![c] = [Fresh(@.made + 1) EXCEPT !.at = "cooling"]]
  /\ UNCHANGED <<client, version, pause>>

Send(c) ==
  /\ line[c].at = "cooling" /\ pause = 0
  /\ line' = [line EXCEPT ![c].at = "sent", ![c].asked = version, ![c].sends = @ + 1]
  /\ UNCHANGED <<client, version, pause>>

(* What ends a call at once: what was asked for, what has vanished, an     *)
(* error of credentials, or one that no retry would help.                  *)
Conclude(c) ==
  /\ line[c].at = "sent"
  /\ line' = [line EXCEPT ![c].at = "idle"]
  /\ UNCHANGED <<client, version, pause>>

(* Seeded bug: the retries are counted one too late. *)
MayRetryLate(c) == line[c].tries <= Retries
MayRetry(c) == line[c].tries < Retries

Exhausted(c) ==
  /\ line[c].at = "sent" /\ ~MayRetry(c)
  /\ line' = [line EXCEPT ![c].at = "idle"]
  /\ UNCHANGED <<client, version, pause>>

Retry(c, d) ==
  /\ line[c].at = "sent" /\ MayRetry(c)
  /\ line' = [line EXCEPT ![c].at = "nap", ![c].wait = d, ![c].tries = @ + 1]
  /\ UNCHANGED <<client, version>>

(* RateLimitState::on_throttle; the cooldown is never made shorter.        *)
Throttled(c, d) ==
  /\ Retry(c, d)
  /\ pause' = IF d > pause THEN d ELSE pause

(* A lost connection, or a Graph server that failed without being busy.    *)
Lost(c, d) == Retry(c, d) /\ UNCHANGED pause

(* Seeded bug: the credentials come back with the first host. *)
GoesAlongAgain(c, h) == h = "origin"
(* The credentials never come back once a redirect left the first host.    *)
GoesAlong(c, h) == line[c].auth /\ h = "origin"

Redirected(c, h) ==
  /\ line[c].at = "sent" /\ line[c].hops < MaxRedirects
  /\ line' = [line EXCEPT ![c].at = "cooling", ![c].hops = @ + 1, ![c].host = h,
                          ![c].auth = GoesAlong(c, h), ![c].strayed = @ \/ h # "origin"]
  /\ UNCHANGED <<client, version, pause>>

(* set_server_version by the call of c, and how far that raises it for the *)
(* calls of others.                                                        *)
Settle(c, v, next) ==
  /\ version' = v
  /\ line' = [o \in Callers |->
       IF o = c THEN next
       ELSE [line[o] EXCEPT !.raised = IF v > version THEN @ + v - version ELSE @]]
  /\ UNCHANGED <<client, pause>>

(* An answer says which version the server speaks.                         *)
Versioned(c, v) ==
  /\ line[c].at = "sent"
  /\ Settle(c, v, [line[c] EXCEPT !.at = "idle"])

(* Seeded bug: the version others settled on is lowered, or none is. *)
LowerCurrent(c) == IF version = 0 THEN line[c].asked ELSE version - 1
(* ServerVersion::lower of the version that was sent.                      *)
Lower(c) == line[c].asked - 1

(* With no lower version, the refusal is an error.                         *)
Refused(c) ==
  /\ line[c].at = "sent" /\ line[c].asked > 0
  /\ Settle(c, Lower(c), [line[c] EXCEPT !.at = "cooling", !.lowered = @ + 1])

Awake(c) ==
  /\ line[c].at = "nap" /\ line[c].wait = 0
  /\ line' = [line EXCEPT ![c].at = "cooling"]
  /\ UNCHANGED <<client, version, pause>>

Fewer(n) == IF n = 0 THEN 0 ELSE n - 1

TimePasses ==
  /\ pause > 0 \/ \E c \in Callers : line[c].wait > 0
  /\ pause' = Fewer(pause)
  /\ line' = [c \in Callers |-> [line[c] EXCEPT !.wait = Fewer(@)]]
  /\ UNCHANGED <<client, version>>

(* What all of them do with an attempt.                                    *)
Ends(c) == Conclude(c) \/ Exhausted(c)
Retried(c) == \E d \in 0..LongestWait : Throttled(c, d) \/ Lost(c, d)

DavAnswer(c) ==
  /\ client = "dav"
  /\ Ends(c) \/ Retried(c) \/ \E h \in Hosts : Redirected(c, h)

EwsAnswer(c) ==
  /\ client = "ews"
  /\ Ends(c) \/ Retried(c) \/ Refused(c) \/ \E v \in Versions : Versioned(c, v)

GraphAnswer(c) == client = "graph" /\ (Ends(c) \/ Retried(c))

Proceed(c) == Send(c) \/ DavAnswer(c) \/ EwsAnswer(c) \/ GraphAnswer(c) \/ Awake(c)

RemoteNext ==
  \/ /\ client # "none"
     /\ \E c \in Callers : Begin(c) \/ Proceed(c)
  \/ TimePasses

RemoteSpec == RemoteInit /\ [][RemoteNext]_remoteVars

(* Threads are scheduled, requests time out and time passes; nobody has to *)
(* make a call.                                                            *)
RemoteFairness ==
  /\ WF_remoteVars(TimePasses)
  /\ \A c \in Callers : WF_remoteVars(Proceed(c))

-----------------------------------------------------------------------------
(* Types of the client's shared state and of execute()'s locals.           *)
RemoteTypeOK ==
  /\ client \in Clients \union {"none"}
  /\ version \in Versions /\ pause \in 0..LongestWait
  /\ line \in [Callers -> Lines]

(* The rounds that are no retries are bounded too: a call follows at most  *)
(* MaxRedirects redirects, and lowers the schema version no further than   *)
(* there are versions and others raised it again, so that it ends even     *)
(* when the server refuses whatever is sent.                               *)
RoundsBounded ==
  \A c \in Callers :
    LET l == line[c] IN
    /\ l.sends <= l.tries + l.hops + l.lowered + 1
    /\ l.lowered <= TopVersion + l.raised

(* "DAV redirect leaves origin host ...; dropping Authorization"           *)
(* (dav/client.rs:217): whatever chain of redirects and retries a call     *)
(* goes through, credentials go to no host but the one the call was for,   *)
(* and once a redirect led it away not to that one either.                 *)
CredentialsKept ==
  \A c \in Callers : line[c].auth => line[c].host = "origin" /\ ~line[c].strayed

(* A call returns, however often it is throttled, redirected or refused.   *)
NoRemoteCall == \A c \in Callers : line[c].at = "idle"
=============================================================================
