---------------------------- MODULE TokenRefresh ----------------------------
(***************************************************************************)
(* The thread that renews an import's access token (spawn_token_refresher  *)
(* in src/src/sync/import_exchange_ews/coordinator.rs and                  *)
(* import_exchange_graph/coordinator.rs, refresh_access_token in           *)
(* exchange_graph/oauth.rs), from the sign-in to the end of the import.    *)
(*                                                                         *)
(* A sign-in with a device code polls until the user has entered the code  *)
(* or the code has expired.  Then the importer sets up: it asks for its    *)
(* endpoints, for the principal, for the service, and the token grows      *)
(* older.  Only then the thread is started, if there is one: it sleeps     *)
(* until a margin before what it takes for the token's end, asks for       *)
(* another, and after a failure pauses and asks again.  The EWS importer   *)
(* leaves the thread behind; the Graph importer tells it to stop and joins *)
(* it.                                                                     *)
(*                                                                         *)
(* What the thread takes for the end is not always the end.  The claim     *)
(* `exp` of a token that can be read is; Graph prefers `expires_in`, which *)
(* it counts from the moment it looks, not from the one the token was      *)
(* given at; and where a new token says neither, 50 minutes are assumed.   *)
(* The clocks of both sides agree.                                         *)
(*                                                                         *)
(* Time passes in ticks, of five seconds in the sign-in and of twenty      *)
(* then, where it passes only while something is waited for.  A request    *)
(* takes at most Slowest ticks, its four tries included, and the setup at  *)
(* most LongestSetup, which nothing but the servers see to.                *)
(***************************************************************************)
EXTENDS Integers

CONSTANTS
  Lives,         (* the lives a token can have, in ticks                   *)
  EwsMargin,     (* how long before its end a token is renewed: 5 minutes  *)
  GraphMargin,   (* ... and 1 minute                                       *)
  FailurePause,  (* the pause after a failure: 1 minute                    *)
  Fallback,      (* what a token is assumed to last: 50 minutes; no end is  *)
                 (* taken to be further back                               *)
  LongestSetup,  (* bound on the time between the sign-in and the thread   *)
  Slowest,       (* bound on the time a request takes                      *)
  CodeWait,      (* bound on the time a user takes to sign in once more    *)
  CodeLife,      (* the life of a device code                              *)
  MostFailures   (* bound on the failures in a row                         *)

ASSUME TimesAssumption ==
  /\ Lives \subseteq Nat \ {0} /\ EwsMargin \in Nat /\ GraphMargin \in Nat
  /\ FailurePause \in Nat /\ Fallback \in Nat /\ LongestSetup \in Nat
  /\ Slowest \in Nat /\ CodeWait \in Nat /\ MostFailures \in Nat /\ CodeLife \in Nat

VARIABLES
  vendor,      (* "ews", "graph", or "none"                                *)
  token,       (* the token in use: how it is renewed, what was left of it *)
               (* when the thread took it up and what is left now; when    *)
               (* the thread takes it to end; and, as history, how much    *)
               (* later that is than it ends                               *)
  refresher,   (* the thread: where it is, and how long it has been there  *)
  failed,      (* history: the requests that failed since the last token   *)
  code,        (* the device code: its life, the pause between two polls,  *)
               (* and what is left of that pause                           *)
  import       (* "signin", "acquire" (without a device code), "setup",    *)
               (* "runs", "stopping" (Drop of TokenRefresher), "over"      *)

tokenVars == <<vendor, token, refresher, failed, code, import>>

Margin == IF vendor = "ews" THEN EwsMargin ELSE GraphMargin
Place(at) == [at |-> at, since |-> 0]

(* How a token is renewed: with a refresh token or the client's            *)
(* credentials, with a device code once more, or not at all.               *)
Renewals == {"refresh", "code", "none"}

Beyond(due, left) == IF due > left THEN due - left ELSE 0

TakenUp(r, left, due) ==
  [renewal |-> r, life |-> left, left |-> left, due |-> due, late |-> Beyond(due, left)]

NoTokenYet == TakenUp("none", 0, 0)
NoCode == [left |-> 0, pause |-> 0, wait |-> 0]

TokenInit ==
  /\ vendor \in {"ews", "graph"}
  /\ \/ /\ import = "acquire" /\ code = NoCode
     \/ /\ import = "signin"
        /\ \E i \in 0..CodeLife : code = [left |-> CodeLife, pause |-> i, wait |-> i]
  /\ token = NoTokenYet /\ refresher = Place("gone") /\ failed = 0

NoToken ==
  /\ vendor = "none" /\ token = NoTokenYet
  /\ refresher = Place("gone") /\ failed = 0 /\ code = NoCode /\ import = "over"

-----------------------------------------------------------------------------
(* device_code_flow: a poll whenever the pause is over.                    *)

Polls == import = "signin" /\ code.wait = 0 /\ code.left > 0

Pending ==
  /\ Polls
  /\ code' = [code EXCEPT !.wait = code.pause]
  /\ UNCHANGED <<vendor, token, refresher, failed, import>>

(* The pause grows by five seconds, as often as the code lives for.        *)
SlowDown ==
  /\ Polls /\ code.pause <= CodeLife
  /\ code' = [code EXCEPT !.pause = @ + 1, !.wait = code.pause + 1]
  /\ UNCHANGED <<vendor, token, refresher, failed, import>>

(* There is no thread without a refresh token in Graph, and without a      *)
(* claim of the token's end in EWS; there EWS signs in again without a     *)
(* refresh token.                                                          *)
SignedIn(l, r) ==
  /\ Polls /\ (r = "code" => vendor = "ews")
  /\ token' = TakenUp(r, l, 0) /\ refresher' = Place("setup")
  /\ import' = "setup" /\ code' = NoCode
  /\ UNCHANGED <<vendor, failed>>

(* A token the user brought is not renewed; one that EWS got with the      *)
(* client's credentials is.                                                *)
Acquired(l, r) ==
  /\ import = "acquire" /\ r # "code" /\ (r = "refresh" => vendor = "ews")
  /\ token' = TakenUp(r, l, 0) /\ refresher' = Place("setup")
  /\ import' = "setup"
  /\ UNCHANGED <<vendor, failed, code>>

(* The user declined, a request was lost, or the code has expired.         *)
NotSignedIn ==
  /\ import \in {"signin", "acquire"} /\ code.wait = 0
  /\ import' = "over" /\ code' = NoCode
  /\ UNCHANGED <<vendor, token, refresher, failed>>

Lessen(n) == IF n = 0 THEN 0 ELSE n - 1

CodeTick ==
  /\ import = "signin" /\ (code.left > 0 \/ code.wait > 0)
  /\ code' = [code EXCEPT !.left = Lessen(@), !.wait = Lessen(@)]
  /\ UNCHANGED <<vendor, token, refresher, failed, import>>

SignIn ==
  \/ Pending \/ SlowDown \/ NotSignedIn
  \/ \E l \in Lives, r \in Renewals : SignedIn(l, r) \/ Acquired(l, r)

-----------------------------------------------------------------------------
(* The setup, the thread, and the end of the import.                       *)

(* `expires_in` counts from now for Graph, however old the token is.       *)
Spawn ==
  /\ import = "setup" /\ import' = "runs"
  /\ \E due \in {token.left} \union (IF vendor = "graph" THEN {token.life} ELSE {}) :
       token' = TakenUp(token.renewal, token.left, due)
  /\ refresher' = Place(IF token.renewal = "none" THEN "gone" ELSE "sleep")
  /\ UNCHANGED <<vendor, failed, code>>

(* The service is not found, or the archive is another account's.          *)
SetupFails ==
  /\ import = "setup"
  /\ import' = "over" /\ refresher' = Place("gone")
  /\ UNCHANGED <<vendor, token, failed, code>>

(* Seeded bug: the token is renewed when it has expired. *)
DueAtEnd == token.due <= 0
Due == token.due <= Margin
(* Seeded bug: Drop joins the thread and does not tell it. *)
NeverTold == FALSE
(* The EWS thread is never told.                                           *)
Told == vendor = "graph" /\ import = "stopping"

Ask ==
  /\ refresher.at = "sleep" /\ Due /\ ~Told
  /\ refresher' = Place("ask")
  /\ UNCHANGED <<vendor, token, failed, code, import>>

Longest == IF token.renewal = "code" THEN CodeWait ELSE Slowest

(* A token of life l, whose answer was under way for some of that.  EWS    *)
(* may have been given a refresh token with it; and where it cannot read   *)
(* the end, it adds to the end of the last one.                            *)
Granted(l, lag) ==
  /\ refresher.at = "ask" /\ lag <= refresher.since /\ lag <= l
  /\ \E due \in {l - lag} \union (IF vendor = "graph" THEN {l, Fallback} ELSE {token.due + Fallback}),
        r \in {token.renewal} \union (IF token.renewal = "code" THEN {"refresh"} ELSE {}) :
       token' = TakenUp(r, l - lag, due)
  /\ refresher' = Place("sleep") /\ failed' = 0
  /\ UNCHANGED <<vendor, code, import>>

Denied ==
  /\ refresher.at = "ask" /\ failed < MostFailures
  /\ refresher' = Place("pause") /\ failed' = failed + 1
  /\ UNCHANGED <<vendor, token, code, import>>

(* The loop goes on where the deadline is looked at, which has not moved.  *)
PauseEnds ==
  /\ refresher.at = "pause" /\ refresher.since = FailurePause
  /\ refresher' = Place("sleep")
  /\ UNCHANGED <<vendor, token, failed, code, import>>

(* The flag is looked at in the loop's condition and every two seconds of  *)
(* the long sleep, not in the pause.                                       *)
Stops ==
  /\ refresher.at = "sleep" /\ Told
  /\ refresher' = Place("gone")
  /\ UNCHANGED <<vendor, token, failed, code, import>>

(* run_into returns, or fails.                                             *)
Import ==
  /\ import = "runs"
  /\ import' = IF vendor = "graph" THEN "stopping" ELSE "over"
  /\ UNCHANGED <<vendor, token, refresher, failed, code>>

Join ==
  /\ import = "stopping" /\ refresher.at = "gone"
  /\ import' = "over"
  /\ UNCHANGED <<vendor, token, refresher, failed, code>>

(* The bound: no deadline is taken to be further back than Fallback.       *)
Earlier(due) == IF due <= -Fallback THEN due ELSE due - 1

TokenTick ==
  /\ import \in {"setup", "runs", "stopping"}
  /\ \/ refresher.at = "setup" /\ refresher.since < LongestSetup
     \/ refresher.at = "sleep" /\ ~Due /\ ~Told
     \/ refresher.at = "ask" /\ refresher.since < Longest
     \/ refresher.at = "pause" /\ refresher.since < FailurePause
  /\ refresher' = IF refresher.at = "sleep" THEN refresher
                  ELSE [refresher EXCEPT !.since = @ + 1]
  /\ token' = [token EXCEPT !.left = Lessen(@), !.due = Earlier(@)]
  /\ UNCHANGED <<vendor, failed, code, import>>

RefresherStep ==
  \/ Spawn \/ SetupFails \/ Ask \/ Denied \/ PauseEnds \/ Stops \/ Join
  \/ \E l \in Lives, lag \in 0..Slowest : Granted(l, lag)

TokenNext == SignIn \/ CodeTick \/ RefresherStep \/ Import \/ TokenTick

TokenSpec == TokenInit /\ [][TokenNext]_tokenVars

(* The threads are scheduled, time passes and the servers answer.          *)
TokenFairness ==
  /\ WF_tokenVars(SignIn) /\ WF_tokenVars(CodeTick)
  /\ WF_tokenVars(RefresherStep) /\ WF_tokenVars(TokenTick)

-----------------------------------------------------------------------------
(* Types of the token and of the thread.                                   *)
TokenTypeOK ==
  /\ vendor \in {"ews", "graph", "none"}
  /\ token \in [renewal : Renewals, life : Nat, left : Nat, due : Int, late : Nat]
  /\ token.left <= token.life /\ token.due <= token.left + token.late
  /\ refresher \in [at : {"setup", "sleep", "ask", "pause", "gone"}, since : Nat]
  /\ failed \in 0..MostFailures
  /\ code \in [left : 0..CodeLife, pause : 0..(CodeLife + 1), wait : 0..(CodeLife + 1)]
  /\ import \in {"signin", "acquire", "setup", "runs", "stopping", "over"}

(* What renewing can take: the failures, with their pauses, and a request. *)
Renewing == failed * (FailurePause + Longest) + Longest
(* What there is for it: the margin, or all of a token shorter than it.    *)
Reserve == IF token.life <= Margin THEN token.life ELSE Margin

(* Once the import runs with a thread, no call of it is made with an ended *)
(* token, unless the thread took the token to end later than it does, or   *)
(* failures and requests took long, so that the margin was used up: EWS    *)
(* outlives some failures, Graph not one, as its pause after a failure is  *)
(* its margin, and no setup of a minute where `expires_in` is counted from *)
(* its end.                                                                *)
TokenLasts ==
  import = "runs" /\ token.renewal # "none" /\ token.left = 0
    => token.late + Renewing >= Reserve

(* A sign-in ends when the code has expired, whatever the polls say, and   *)
(* an import that is to end does: Drop waits for a thread that may sleep,  *)
(* pause or ask, and does not wait for the token's end.                    *)
NotEnding == import \notin {"signin", "acquire", "setup", "stopping"}
=============================================================================
