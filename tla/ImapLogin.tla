----------------------------- MODULE ImapLogin -----------------------------
(***************************************************************************)
(* How a connection to an IMAP server is made, and made again: connect,    *)
(* STARTTLS and the sign-in with its mechanisms, COMPRESS and ENABLE       *)
(* (src/src/imap/client.rs, transport.rs), by the importer's control       *)
(* connection (src/src/sync/import_imap/coordinator.rs), which then lists  *)
(* the folders, selects one after the other and searches it.               *)
(*                                                                         *)
(* A command and its response are one step; `site' is what the server is   *)
(* like, chosen at the start.  A response may besides be lost, with the    *)
(* connection, or be a refusal for once.                                   *)
(***************************************************************************)
EXTENDS Integers, FiniteSets, Sequences

CONSTANTS
  Sites,         (* [mode, secret, compress: what the user asked for;      *)
                 (*  clear, covered, inside: what the server offers in the *)
                 (*  clear, under TLS and once signed in, which it tells   *)
                 (*  (or not) with its consent to the sign-in;             *)
                 (*  takes: the mechanisms that work; denies: how it       *)
                 (*  refuses the others]                                   *)
  SiteFolders,   (* how many folders there are                             *)
  LoginRetries,  (* --max-retries                                          *)
  LoginFaults    (* bound on lost connections and refusals                 *)

ASSUME SitesAssumption == \A s \in Sites : s.mode \in {"tls", "starttls", "plain"}
ASSUME LoginBoundsAssumption == SiteFolders \in Nat /\ LoginRetries \in Nat /\ LoginFaults \in Nat

VARIABLES
  site,
  channel,    (* the connection: both ends of each of its layers              *)
  login    (* the importer: where it is, and the counts of its retries     *)
loginVars == <<site, channel, login>>

(* tls, deflates, signed, utf8, selected: of the server; sealed, inflates, *)
(* accepts: of the client, with the capabilities it knows; strayed: it     *)
(* lost some of what was sent.                                             *)
NoChannel == [up |-> FALSE, tls |-> FALSE, sealed |-> FALSE, signed |-> FALSE, deflates |-> FALSE,
           inflates |-> FALSE, utf8 |-> FALSE, accepts |-> FALSE, selected |-> FALSE, strayed |-> FALSE, caps |-> {}]

(* sent: the state of the line when a secret was last sent.  doubted: a    *)
(* reconnection failed; unnamed: ENABLE was refused for once, or what is   *)
(* offered could not be learned; named: the form of the names in the       *)
(* listing; lapses: the folders passed over.                               *)
LoginStart ==
  [pc |-> "dial", command |-> "first", folder |-> 0, drops |-> 0, busy |-> 0, faults |-> 0,
   sent |-> [by |-> "none"], doubted |-> FALSE, unnamed |-> FALSE, named |-> FALSE, lapses |-> 0]

LoginInit == site \in Sites /\ channel = NoChannel /\ login = LoginStart
NoLogin == site = [mode |-> "none"] /\ channel = NoChannel /\ login = [LoginStart EXCEPT !.pc = "over"]

LoginAt(pc) == login.pc = pc
LoginFault == login.faults < LoginFaults
Faulted(l) == [l EXCEPT !.faults = @ + 1]
Goes(pc) == login' = [login EXCEPT !.pc = pc]

Offered == IF channel.signed THEN site.inside ELSE IF channel.tls THEN site.covered ELSE site.clear
Knows(cap) == cap \in channel.caps

-----------------------------------------------------------------------------
(* What is made of a command that failed for good: of the first connection *)
(* and of LIST, the end of the run; of SELECT too, if it was for the       *)
(* connection; of a NOOP nothing.  Else the folder is passed over.         *)
Issue(l, command) == [l EXCEPT !.pc = "run", !.command = command, !.drops = 0, !.busy = 0]
NextFolder(l) ==
  IF l.folder = SiteFolders THEN [l EXCEPT !.pc = "over"]
  ELSE Issue([l EXCEPT !.folder = @ + 1], IF l.folder = 0 THEN "SELECT" ELSE "NOOP")
Failed(l, connection) ==
  IF l.command = "NOOP" THEN Issue(l, "SELECT")
  ELSE IF l.command \in {"first", "LIST"} \/ (l.command = "SELECT" /\ connection) THEN [l EXCEPT !.pc = "over"]
  ELSE NextFolder([l EXCEPT !.lapses = @ + 1])

(* A command whose reconnection fails is not tried again.                  *)
DialError(l) == Failed([l EXCEPT !.doubted = TRUE], TRUE)

(* The client is as it was, the connection gone: it is found out by the    *)
(* next command, and until then the client goes by what it knew.           *)
Gone == [channel EXCEPT !.up = FALSE]

(* A client is in its place as soon as it is connected, before it signs    *)
(* in.  One that does not come so far leaves the client there was, of      *)
(* whose connection nothing is left.                                       *)
HandshakeFails ==
  /\ login.pc \in {"dial", "starttls", "caps"} /\ LoginFault
  /\ channel' = NoChannel /\ login' = DialError(Faulted(login))
  /\ UNCHANGED site

(* connect: the greeting, and what it offers.                              *)
DialIn ==
  /\ LoginAt("dial")
  /\ LET tls == site.mode = "tls"
         now == [NoChannel EXCEPT !.up = TRUE, !.tls = tls, !.sealed = tls]
     IN channel' = [now EXCEPT !.caps = IF tls THEN site.covered ELSE site.clear]
  /\ Goes(IF site.mode = "starttls" THEN "starttls" ELSE "sign")
  /\ UNCHANGED site

(* Seeded bug: without STARTTLS it goes on in the clear. *)
UpgradeIfOffered ==
  IF Knows("STARTTLS") THEN channel' = [channel EXCEPT !.tls = TRUE, !.sealed = TRUE] /\ Goes("caps")
  ELSE UNCHANGED channel /\ Goes("sign")
Upgrade ==
  IF Knows("STARTTLS") THEN channel' = [channel EXCEPT !.tls = TRUE, !.sealed = TRUE] /\ Goes("caps")
  ELSE channel' = NoChannel /\ login' = DialError(login)
StartTls == LoginAt("starttls") /\ Upgrade /\ UNCHANGED site

(* The capabilities are asked for again: what was said in the clear is     *)
(* forgotten.                                                              *)
Capability ==
  /\ LoginAt("caps")
  /\ channel' = [channel EXCEPT !.caps = Offered]
  /\ Goes("sign")
  /\ UNCHANGED site

-----------------------------------------------------------------------------
(* authenticate.  The mechanisms in their order: LOGIN is tried after a    *)
(* PLAIN that could not be negotiated, or without it.                      *)
Mechanisms ==
  IF site.secret = "basic" THEN (IF Knows("PLAIN") THEN <<"PLAIN", "LOGIN">> ELSE <<"LOGIN">>)
  ELSE IF Knows("XOAUTH2")
    THEN (IF Knows("OAUTHBEARER") THEN <<"XOAUTH2", "OAUTHBEARER">> ELSE <<"XOAUTH2">>)
    ELSE (IF Knows("OAUTHBEARER") THEN <<"OAUTHBEARER">> ELSE <<>>)

(* How a mechanism that does not work is refused: as a wrong secret, as    *)
(* something the server does not do, or by a challenge that explains it,   *)
(* which the client answers only if it did not send the secret with the    *)
(* command.                                                                *)
Verdict(m) ==
  IF m \in site.takes THEN "ok"
  ELSE IF site.denies # "challenge" THEN site.denies
  ELSE IF Knows("SASL-IR") /\ m # "LOGIN" THEN "protocol" ELSE "auth"
Negotiable(verdict) == verdict \in {"no", "bad"}

Posted(m) == [by |-> m, covered |-> channel.tls /\ channel.sealed, offered |-> Offered]

Comes(k) ==
  /\ LoginAt("sign") /\ k \in DOMAIN Mechanisms
  /\ \A i \in 1..(k - 1) : Negotiable(Verdict(Mechanisms[i]))
Barred(m) == m = "LOGIN" /\ Knows("LOGINDISABLED")

(* The next mechanism, if this one could not be negotiated; the last one's *)
(* refusal is that of the sign-in.  The client stays where it is: without  *)
(* a sign-in, and connected.                                               *)
Authenticate(k) ==
  /\ Comes(k) /\ ~Barred(Mechanisms[k])
  /\ LET m == Mechanisms[k] IN
       \/ /\ Verdict(m) = "ok"
          /\ channel' = [channel EXCEPT !.signed = TRUE, !.caps = IF site.tells THEN site.inside ELSE @]
          /\ login' = [login EXCEPT !.pc = "refresh", !.sent = Posted(m)]
       \/ /\ Verdict(m) # "ok" /\ (k = Len(Mechanisms) \/ ~Negotiable(Verdict(m)))
          /\ UNCHANGED channel
          /\ login' = DialError([login EXCEPT !.sent = Posted(m)])
  /\ UNCHANGED site

NoMechanism ==
  /\ \/ LoginAt("sign") /\ Mechanisms = <<>>
     \/ \E k \in 1..2 : Comes(k) /\ Barred(Mechanisms[k])
  /\ login' = DialError(login)
  /\ UNCHANGED <<site, channel>>

(* The connection breaks, or the server says BYE, or try again later: that *)
(* is a sign-in that failed like any other.                                *)
SignInLost(k, broken) ==
  /\ Comes(k) /\ ~Barred(Mechanisms[k]) /\ LoginFault
  /\ channel' = IF broken THEN Gone ELSE channel
  /\ login' = DialError(Faulted([login EXCEPT !.sent = Posted(Mechanisms[k])]))
  /\ UNCHANGED site

-----------------------------------------------------------------------------
(* After the sign-in: a first connection must learn what is offered now, a *)
(* later one goes on with what it knew, even if it broke; and then COMPRESS *)
(* is what fails.                                                          *)
Refresh ==
  /\ LoginAt("refresh")
  /\ channel' = [channel EXCEPT !.caps = Offered]
  /\ Goes("compress")
  /\ UNCHANGED site
RefreshFails(broken) ==
  /\ LoginAt("refresh") /\ LoginFault
  /\ channel' = IF broken THEN Gone ELSE channel
  /\ login' = IF login.command = "first" THEN [Faulted(login) EXCEPT !.pc = "over"]
              ELSE [Faulted(login) EXCEPT !.pc = "compress", !.unnamed = @ \/ channel.caps # site.inside]
  /\ UNCHANGED site

(* Both ends compress from the OK on.  What the server sent right after it *)
(* is in the client's buffer already, compressed: it is what the inflating *)
(* stream reads first.                                                     *)
(* Seeded bug: the buffer is left behind with the old stream. *)
PrimedEmpty(ahead) == ~ahead
Primed(ahead) == TRUE
Compressing == site.compress /\ Knows("COMPRESS")
CompressDeflate(ahead) ==
  /\ LoginAt("compress") /\ Compressing /\ channel.up /\ "COMPRESS" \in Offered
  /\ channel' = [channel EXCEPT !.deflates = TRUE, !.inflates = TRUE, !.strayed = ~Primed(ahead)]
  /\ Goes("enable")
  /\ UNCHANGED site
NoCompress == LoginAt("compress") /\ ~Compressing /\ Goes("enable") /\ UNCHANGED <<site, channel>>
CompressFails ==
  /\ LoginAt("compress") /\ Compressing
  /\ IF channel.up /\ "COMPRESS" \in Offered
       THEN LoginFault /\ login' = DialError(Faulted(login))
       ELSE login' = DialError(login)
  /\ UNCHANGED <<site, channel>>

(* ENABLE UTF8=ACCEPT: whatever comes of it, the connection is used.       *)
Enabling == Knows("UTF8")
Ready(l) == IF login.command = "first" THEN Issue(l, "LIST") ELSE [l EXCEPT !.pc = "run"]
Enable ==
  /\ LoginAt("enable") /\ Enabling /\ channel.up /\ "UTF8" \in Offered
  /\ channel' = [channel EXCEPT !.utf8 = TRUE, !.accepts = TRUE]
  /\ login' = Ready(login)
  /\ UNCHANGED site
NotEnabled ==
  /\ LoginAt("enable")
  /\ Enabling => ~channel.up \/ "UTF8" \notin Offered
  /\ login' = Ready(login)
  /\ UNCHANGED <<site, channel>>
EnableFails(broken) ==
  /\ LoginAt("enable") /\ Enabling /\ channel.up /\ LoginFault
  /\ channel' = IF broken THEN Gone ELSE channel
  /\ login' = Ready(Faulted([login EXCEPT !.unnamed = @ \/ ~broken]))
  /\ UNCHANGED site

(* NAMESPACE, whose failure is passed over as well.                        *)
NamespaceLost ==
  /\ LoginAt("enable") /\ login.command = "first" /\ LoginFault
  /\ channel' = Gone
  /\ login' = Ready(Faulted(login))
  /\ UNCHANGED site

-----------------------------------------------------------------------------
(* control_run_collect, and call_with_retry around the search.  A command  *)
(* is sent again when its connection was lost, over a new one, and when    *)
(* the server says try again later.  The new connection has no folder      *)
(* selected: so a search that is sent again is refused.                    *)
Running == LoginAt("run")
Done(l) ==
  CASE l.command = "LIST" -> NextFolder([l EXCEPT !.named = channel.accepts])
    [] l.command = "SELECT" -> Issue(l, "SEARCH")
    [] l.command = "SEARCH" -> NextFolder(l)
    [] OTHER -> Issue(l, "SELECT")
Obeyed ==
  CASE login.command = "NOOP" -> TRUE
    [] login.command = "SEARCH" -> channel.selected
    [] OTHER -> channel.signed
RunCommand ==
  /\ Running /\ channel.up
  /\ login' = IF Obeyed THEN Done(login) ELSE Failed(login, FALSE)
  /\ channel' = [channel EXCEPT !.selected = IF login.command = "SELECT" THEN Obeyed ELSE @]
  /\ UNCHANGED site

(* TransportDrop, of this connection now or of one that was lost before.   *)
CommandLost ==
  /\ Running
  /\ channel.up => LoginFault
  /\ LET l == IF channel.up THEN Faulted(login) ELSE login IN
       login' = IF l.drops < LoginRetries THEN [l EXCEPT !.drops = @ + 1, !.pc = "dial"]
                ELSE Failed(l, TRUE)
  /\ channel' = Gone
  /\ UNCHANGED site

(* Disposition::Transient, and for good: a SELECT that fails leaves no     *)
(* folder selected.                                                        *)
CommandBusy ==
  /\ Running /\ channel.up /\ LoginFault
  /\ login' = IF login.busy < LoginRetries THEN [Faulted(login) EXCEPT !.busy = @ + 1]
              ELSE Failed(Faulted(login), FALSE)
  /\ channel' = [channel EXCEPT !.selected = @ /\ login.command # "SELECT"]
  /\ UNCHANGED site

LoginProgress ==
  \/ DialIn \/ StartTls \/ Capability \/ NoMechanism \/ Refresh \/ NoCompress \/ Enable \/ NotEnabled
  \/ \E k \in 1..2 : Authenticate(k)
  \/ \E ahead \in BOOLEAN : CompressDeflate(ahead)
  \/ CompressFails \/ RunCommand \/ CommandLost \/ CommandBusy
LoginNext ==
  \/ LoginProgress \/ HandshakeFails \/ NamespaceLost
  \/ \E broken \in BOOLEAN :
       RefreshFails(broken) \/ EnableFails(broken) \/ \E k \in 1..2 : SignInLost(k, broken)

(* The importer goes on; the streams' timeouts of 60 seconds make silence  *)
(* an error.                                                               *)
LoginFairness == WF_loginVars(LoginProgress)

-----------------------------------------------------------------------------
LoginTypeOK ==
  /\ login.pc \in {"dial", "starttls", "caps", "sign", "refresh", "compress", "enable", "run", "over"}
  /\ login.command \in {"first", "LIST", "NOOP", "SELECT", "SEARCH"}
  /\ login.folder \in 0..SiteFolders /\ login.lapses \in Nat
  /\ login.faults \in 0..LoginFaults /\ login.drops \in 0..LoginRetries /\ login.busy \in 0..LoginRetries
  /\ \A said \in {"doubted", "unnamed", "named"} : login[said] \in BOOLEAN
  /\ \A end \in {"up", "tls", "sealed", "signed", "deflates", "inflates", "utf8", "accepts", "selected", "strayed"} :
       channel[end] \in BOOLEAN

(* A secret goes over TLS unless the user allowed otherwise, by a          *)
(* mechanism the server offers just then: nothing it said in the clear     *)
(* counts once the line is covered, and no refusal of one mechanism leads  *)
(* to one it does not want.                                                *)
SecretsCovered ==
  login.sent.by # "none" =>
    /\ login.sent.covered \/ site.mode = "plain"
    /\ IF login.sent.by = "LOGIN" THEN "LOGINDISABLED" \notin login.sent.offered
       ELSE login.sent.by \in login.sent.offered

(* Whatever was negotiated on a connection, both ends did: what one of     *)
(* them writes the other reads, from the first byte.                       *)
LayersAgree ==
  channel.up => /\ channel.tls = channel.sealed
             /\ channel.deflates = channel.inflates /\ ~channel.strayed
             /\ channel.accepts = channel.utf8

(* Folders are selected under the names of the listing, which are in the   *)
(* form that connection had agreed upon: so has any that replaced it.      *)
(* Excepted are a server that offered ENABLE and refused it for once, a    *)
(* reconnection that failed half way while nobody looked, and one that     *)
(* could not learn what is offered after the sign-in.                      *)
NamesAgree ==
  Running /\ login.command = "SELECT" /\ channel.up /\ channel.signed =>
    channel.accepts = login.named \/ login.unnamed \/ login.doubted

(* A folder is passed over only for a fault of its own, or for one of a    *)
(* reconnection that was not completed: however often the connection is    *)
(* made again, no other folder suffers.                                    *)
LapsesForCause == login.lapses <= login.faults \/ login.doubted

LinesAgree == LayersAgree /\ NamesAgree /\ LapsesForCause

LoginOver == login.pc = "over"
=============================================================================
