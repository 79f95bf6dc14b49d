---------------------------- MODULE SieveSession ----------------------------
(***************************************************************************)
(* The ManageSieve importer and its connection, line by line               *)
(* (src/src/managesieve/client.rs and response.rs,                         *)
(* src/src/sync/import_managesieve/coordinator.rs).                        *)
(*                                                                         *)
(* The importer signs in, lists the scripts and gets each of them.  Its    *)
(* commands have no tags: a response is the lines up to the next status,   *)
(* so that a client that once reads a line too few or too many goes on     *)
(* taking one response for another.  A connection that dropped is made     *)
(* again, and replaces the old one if it could be made.  Where it could    *)
(* not and the error is not one of transport (as with TLS, whose           *)
(* connections fail with another), only the script is given up, and the    *)
(* next one is asked for on the old connection.                            *)
(***************************************************************************)
EXTENDS Integers, SequencesExt

CONSTANTS
  Names,       (* the scripts of the account                               *)
  SieveTries,  (* --max-retries                                            *)
  MaxGarbled   (* bound on the lines that cannot be parsed                 *)

ASSUME NamesAssumption == {"list", "start"} \cap Names = {}
ASSUME SieveBoundsAssumption == SieveTries \in Nat /\ MaxGarbled \in Nat

VARIABLES
  shell,     (* how it was called: sieves://, and --allow-cleartext        *)
  link,      (* the connection: whether the server still holds it, is it   *)
             (* encrypted and signed in, the lines not read yet, and       *)
             (* (history) whether one was garbled, or it was given up and  *)
             (* is still in use                                            *)
  getting,   (* the command: where it is, what it is about, the lines of   *)
             (* data so far, its two counts, and the scripts still to get  *)
  got,       (* history: whose response was taken for what                 *)
  garbled,   (* history: how many lines could not be parsed                *)
  exposed    (* history: the password was sent over a plain connection     *)

shellVars == <<shell, link, getting, got, garbled, exposed>>

NoLink == [open |-> FALSE, tls |-> FALSE, known |-> FALSE, lines |-> <<>>, odd |-> FALSE]
Stage(at, name) ==
  [at |-> at, name |-> name, data |-> <<>>, drops |-> 0, busy |-> 0, left |-> {}]

ShellStart ==
  /\ link = NoLink /\ got = {} /\ garbled = 0 /\ exposed = FALSE
ShellInit ==
  /\ shell \in [implicit : BOOLEAN, cleartext : BOOLEAN]
  /\ ShellStart /\ getting = Stage("dial", "start")
NoShell ==
  /\ shell = [implicit |-> FALSE, cleartext |-> FALSE]
  /\ ShellStart /\ getting = Stage("over", "start")

Finished == getting' = [getting EXCEPT !.at = "over", !.data = <<>>]

(* On to the script after this one.                                        *)
NextScript ==
  IF getting.left = {} THEN Finished
  ELSE \E s \in getting.left :
         getting' = [Stage("ask", s) EXCEPT !.left = getting.left \ {s}]

(* GETSCRIPT that fails for good skips the script; anything else that does *)
(* fails the run.                                                          *)
GivesUp == IF getting.name \in Names THEN NextScript ELSE Finished

-----------------------------------------------------------------------------
(* connect, reconnect, do_authenticate.                                    *)

Dials == getting.at = "dial"

(* Plain only where the server offers no STARTTLS and the user allows it.  *)
Plain == shell.cleartext

DialFails ==
  /\ Dials
  /\ Finished \/ GivesUp
  /\ link' = [link EXCEPT !.odd = TRUE]
  /\ UNCHANGED <<shell, got, garbled, exposed>>

Dial ==
  /\ Dials
  /\ \E encrypted \in BOOLEAN :
       /\ encrypted \/ (~shell.implicit /\ Plain)
       /\ link' = [NoLink EXCEPT !.open = TRUE, !.tls = encrypted]
  /\ getting' = [getting EXCEPT !.at = "login"]
  /\ UNCHANGED <<shell, got, garbled, exposed>>

(* The client is the new one by now, signed in or not.                     *)
LoginFails ==
  /\ getting.at = "login"
  /\ exposed' = (exposed \/ ~link.tls)
  /\ \/ link' = [link EXCEPT !.open = FALSE] /\ Finished /\ UNCHANGED garbled
     \/ UNCHANGED <<link, garbled>> /\ GivesUp
     \/ /\ garbled < MaxGarbled /\ garbled' = garbled + 1
        /\ link' = [link EXCEPT !.lines = <<[kind |-> "ok", from |-> "start"]>>,
                                !.known = TRUE, !.odd = TRUE]
        /\ GivesUp
  /\ UNCHANGED <<shell, got>>

(* The capabilities are asked for again, and what comes of that is not     *)
(* looked at.                                                              *)
Login ==
  /\ getting.at = "login"
  /\ exposed' = (exposed \/ ~link.tls)
  /\ LET caps == <<[kind |-> "caps", from |-> "start"], [kind |-> "ok", from |-> "start"]>>
     IN link' \in {[link EXCEPT !.known = TRUE],
                   [link EXCEPT !.known = TRUE, !.lines = caps, !.odd = TRUE]}
  /\ getting' = [getting EXCEPT !.at = "ask",
                                !.name = IF @ = "start" THEN "list" ELSE @]
  /\ UNCHANGED <<shell, got, garbled>>

-----------------------------------------------------------------------------
(* One command.                                                            *)

Line(kind) == [kind |-> kind, from |-> getting.name]
Statuses == {"no", "busy", "bye"}
ShellReplies ==
  {<<Line(k)>> : k \in Statuses}
    \union (IF link.known THEN {<<Line("data"), Line("ok")>>} ELSE {})

Command ==
  /\ getting.at = "ask" /\ link.open
  /\ getting' = [getting EXCEPT !.at = "read", !.data = <<>>]
  /\ \E r \in ShellReplies :
       \/ /\ link' = [link EXCEPT !.lines = @ \o r]
          /\ UNCHANGED garbled
       \/ /\ garbled < MaxGarbled /\ garbled' = garbled + 1
          /\ \E i \in DOMAIN r :
               link' = [link EXCEPT !.lines = @ \o ReplaceAt(r, i, Line("garbled")), !.odd = TRUE]
  /\ UNCHANGED <<shell, got, exposed>>

Takes(kinds) ==
  /\ getting.at = "read" /\ link.lines # <<>>
  /\ Head(link.lines).kind \in kinds
  /\ link' = [link EXCEPT !.lines = Tail(@)]

ReadData ==
  /\ Takes({"data", "caps"})
  /\ getting' = [getting EXCEPT !.data = Append(@, Head(link.lines))]
  /\ UNCHANGED <<shell, got, garbled, exposed>>

(* parse_listscripts takes every line for a name, parse_getscript the only *)
(* string for the body: no line is an empty script, and more than one, as  *)
(* in a line of capabilities, an error.                                    *)
Source == IF getting.data = <<>> THEN "start" ELSE getting.data[1].from
Unusable ==
  getting.name \in Names
    /\ (Len(getting.data) > 1 \/ \E i \in DOMAIN getting.data : getting.data[i].kind = "caps")

TakeResponse ==
  /\ Takes({"ok"}) /\ ~Unusable
  /\ got' = got \union {[name |-> getting.name, from |-> Source, odd |-> link.odd]}
  /\ IF getting.name = "list" /\ Source = "list" /\ Names # {}
     THEN \E s \in Names : getting' = [Stage("ask", s) EXCEPT !.left = Names \ {s}]
     ELSE NextScript
  /\ UNCHANGED <<shell, garbled, exposed>>

(* A refusal, or something that is not a response.                         *)
TakeError ==
  /\ Takes({"no", "garbled"}) \/ (Takes({"ok"}) /\ Unusable)
  /\ GivesUp
  /\ UNCHANGED <<shell, got, garbled, exposed>>

TakeBusy ==
  /\ Takes({"busy"})
  /\ IF getting.busy < SieveTries
     THEN getting' = [getting EXCEPT !.at = "ask", !.busy = @ + 1]
     ELSE GivesUp
  /\ UNCHANGED <<shell, got, garbled, exposed>>

(* Seeded bug: the command is sent again without a new connection. *)
SameLink == [getting EXCEPT !.at = "ask", !.drops = @ + 1]
AnotherLink == [getting EXCEPT !.at = "dial", !.drops = @ + 1]

(* Disposition::TransportDrop: the run ends when the tries are used up.    *)
Dropped ==
  /\ IF getting.drops < SieveTries THEN getting' = AnotherLink ELSE Finished
  /\ UNCHANGED <<shell, got, garbled, exposed>>

TakeBye ==
  /\ getting.at = "read" /\ link.lines # <<>> /\ Head(link.lines).kind = "bye"
  /\ link' = [link EXCEPT !.open = FALSE, !.lines = <<>>]
  /\ Dropped

(* The connection breaks, or the answer is late: then the server still     *)
(* sends it.                                                               *)
Break ==
  /\ getting.at \in {"ask", "read"}
  /\ \/ link' = [link EXCEPT !.open = FALSE, !.lines = <<>>]
     \/ link.open /\ UNCHANGED link
  /\ Dropped

ShellNext ==
  \/ DialFails \/ Dial \/ LoginFails \/ Login
  \/ Command \/ ReadData \/ TakeResponse \/ TakeError \/ TakeBusy \/ TakeBye \/ Break

ShellSpec == ShellInit /\ [][ShellNext]_shellVars

(* The importer runs, and its reads time out.                              *)
ShellFairness == WF_shellVars(ShellNext)

-----------------------------------------------------------------------------
(* Types of the connection and of the importer's locals.                   *)
Senders == Names \union {"list", "start"}
ShellTypeOK ==
  /\ shell \in [implicit : BOOLEAN, cleartext : BOOLEAN]
  /\ link.open \in BOOLEAN /\ link.tls \in BOOLEAN /\ link.odd \in BOOLEAN
  /\ getting.at \in {"dial", "login", "ask", "read", "over"}
  /\ getting.name \in Senders /\ getting.left \subseteq Names
  /\ getting.drops \in 0..SieveTries /\ getting.busy \in 0..SieveTries
  /\ got \subseteq [name : Senders, from : Senders, odd : BOOLEAN]
  /\ garbled \in 0..MaxGarbled

(* A script is stored under the name it has on the server, whatever was    *)
(* refused, dropped and tried again before it: no response is taken for    *)
(* that to another command, unless one on the same connection was garbled, *)
(* or came late and no other connection could be had.                      *)
ScriptsMatch == \A g \in got : g.odd \/ g.from = g.name

(* "server does not advertise STARTTLS; pass --allow-cleartext to permit   *)
(* credentials over an unencrypted socket" (managesieve/client.rs:69), on  *)
(* the first connection and on each that replaces it.                      *)
NotExposed == exposed => shell.cleartext /\ ~shell.implicit

(* The importer comes to an end.                                           *)
ShellOver == getting.at = "over"
=============================================================================
