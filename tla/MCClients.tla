------------------------------ MODULE MCClients ------------------------------
(***************************************************************************)
(* Instance of what talks to the servers, each part on its own: `part',    *)
(* chosen by MCInit, says which one a behaviour is about.                  *)
(*   gate     two uploads and another request of JMAP share two request    *)
(*            permits and one upload permit                                *)
(*   remote   two threads share the client of DAV, EWS or Graph            *)
(*   token    the thread that renews the token, and the end of the import  *)
(*   session  a worker of the IMAP pool and its connection                 *)
(*   shell    the importer of Sieve scripts and its connection             *)
(*   xml      a document that a server sends, and its reader               *)
(*   event    an Exchange event and what is archived of it                 *)
(*   contact  an Exchange contact and what is archived of it               *)
(*   seek     the discovery of EWS, DAV or JMAP                            *)
(*   rows     an object of JMAP, its row and what is made of it elsewhere  *)
(*   calls    a JMAP call about many objects, in parts                     *)
(*   login    the control connection of the IMAP importer                  *)
(***************************************************************************)
EXTENDS HttpGate, RemoteCalls, TokenRefresh, ImapSession, SieveSession, XmlReaders,
  EventRules, ContactCards, Discovery, ObjectRows, JmapCalls, ImapLogin

(* The events of Exchange: each rule in two zones, and one rule or none    *)
(* with every zone, name of a zone, and change of an occurrence.           *)
MCMonthDays == <<31, 28>>
Plainly == [type |-> "daily", interval |-> 1, days |-> {}, index |-> "first", day |-> 0, month |-> 0, first |-> "mo"]
Indexes == {"first", "second", "fourth", "last"}
Patterns ==
  {[Plainly EXCEPT !.interval = i] : i \in 1..3}
  \union {[Plainly EXCEPT !.type = "weekly", !.interval = i, !.days = s, !.first = f] :
          i \in 1..2, s \in {{"mo"}, {"su", "tu"}, {"weekday"}}, f \in {"mo", "su"}}
  \union {[Plainly EXCEPT !.type = "absoluteMonthly", !.interval = i, !.day = n] : i \in 1..2, n \in {1, 28, 31}}
  \union {[Plainly EXCEPT !.type = "absoluteYearly", !.month = m, !.day = n] : m \in 1..2, n \in {15, 28}}
  \union {[Plainly EXCEPT !.type = "relativeMonthly", !.interval = i, !.days = {n}, !.index = x] :
          i \in 1..2, n \in {"mo", "su", "day", "weekday", "weekendday"}, x \in Indexes}
  \union {[Plainly EXCEPT !.type = "relativeYearly", !.month = m, !.days = {n}, !.index = x] :
          m \in 1..2, n \in {"mo", "day", "weekendday"}, x \in Indexes}
UtcZone == [base |-> 0, saves |-> FALSE]
Zones == {UtcZone} \union {[base |-> b, saves |-> s] : b \in {-2, 0, 1}, s \in BOOLEAN}
NoEnd == [type |-> "noEnd"]
Series(p, r) == [source |-> "ews", pattern |-> p, range |-> r, day |-> 0, time |-> 2, allDay |-> FALSE,
   zone |-> UtcZone, named |-> "known", title |-> "t1", cancelled |-> {}, moved |-> {}]
Ranges == {NoEnd, [type |-> "numbered", count |-> 2], [type |-> "endDate", end |-> 75]}
Ranged == {Series(p, r) : p \in Patterns, r \in Ranges}
RuleEvents == UNION {
  {[e EXCEPT !.source = s, !.zone = z] :
     s \in {"ews", "graph"}, z \in {UtcZone, [base |-> 1, saves |-> TRUE]}} : e \in Ranged}
Some == {None} \union {[Plainly EXCEPT !.type = "weekly", !.interval = 2, !.days = {"mo", "th"}]}
Moves(p, a) == IF p = None THEN {{}} ELSE
  {{}} \union {{[day |-> 17, to |-> 4 * 18 + (IF a THEN 0 ELSE 3), fetched |-> f, title |-> n]} : f \in BOOLEAN, n \in {"none", "t1", "t2"}}
TimeEvents == UNION {
  {[Series(Plainly, NoEnd) EXCEPT !.source = s, !.pattern = p, !.day = 0, !.zone = z, !.named = n, !.allDay = a, !.title = l,
     !.time = IF a THEN 0 ELSE 2, !.cancelled = c, !.moved = IF s = "graph" THEN {} ELSE m] :
     s \in {"ews", "graph"}, z \in Zones, n \in {"known", "unknown", "absent"}, l \in {"none", "t1"},
     c \in IF p = None THEN {{}} ELSE {{}, {14}}, m \in Moves(p, a)} : p \in Some, a \in BOOLEAN}
MCEvents == RuleEvents \union TimeEvents

(* The contacts of Exchange: with names and readings, at work, with lists  *)
(* in which some entries are blank.                                        *)
Nameless == [k \in {"title", "given", "given2", "surname", "generation"} |-> Blank]
Unread == [k \in {"given", "surname", "company"} |-> Blank]
Somebody(s) ==
  [source |-> s, full |-> "name", names |-> Nameless, readings |-> Unread, company |-> Blank, department |-> Blank,
   office |-> Blank, job |-> Blank, companies |-> <<>>, emails |-> <<>>, services |-> <<>>, phones |-> <<>>,
   addresses |-> <<>>, preferred |-> Blank, days |-> [birth |-> <<>>, wedding |-> <<>>]]
Filling(f, keys) == [k \in DOMAIN f |-> IF k \in keys THEN k ELSE Blank]
Lists(S) == UNION {[1..n -> S] : n \in 0..3}
Number(of, device, number) == [of |-> of, device |-> device, value |-> number]
Residence(of, kinds) == [of |-> of, parts |-> {[kind |-> k, value |-> k] : k \in kinds}]
BothContacts(s) ==
  {[Somebody(s) EXCEPT !.full = f, !.names = Filling(Nameless, n), !.readings = Filling(Unread, IF s = "graph" THEN r ELSE {})] :
     f \in {"name", Blank}, n \in SUBSET {"given", "given2", "surname"}, r \in SUBSET {"given", "surname"}}
  \union {[Somebody(s) EXCEPT !.phones = p] : p \in {q \in
     Lists({Number("business", "voice", "1"), Number("home", "voice", "2"), Number("home", "voice", Blank), Number("none", "mobile", "3")}
             \union IF s = "ews" THEN {Number("home", "fax", "4")} ELSE {}) :
     \A i, j \in DOMAIN q : q[i].device = "mobile" /\ q[j].device = "mobile" => i = j}}
  \union {[Somebody(s) EXCEPT !.addresses = [i \in 1..3 |-> Residence(o[i], k[i])], !.preferred = IF s = "ews" THEN "home" ELSE Blank] :
     o \in {<<"home", "business", "none">>, <<"none", "home", "business">>}, k \in [1..3 -> {{}, {"street"}, {"locality", "country"}}]}
  \union {[Somebody(s) EXCEPT !.emails = l, !.services = l, !.days.birth = b] :
     l \in Lists({[value |-> v] : v \in {"x", "y", Blank}}), b \in {<<>>, <<1970, 2, 3>>}}
  \union {[Somebody(s) EXCEPT !.company = c, !.office = o, !.job = j, !.companies = IF s = "ews" THEN l ELSE <<>>,
                              !.readings = Filling(Unread, IF s = "graph" THEN {"company"} ELSE {})] :
     c \in {Blank, "c1"}, o \in {Blank, "o1"}, j \in {Blank, "j1"}, l \in {<<>>, <<"c1", "c2">>, <<"c2", "c3">>}}
MCContacts == BothContacts("ews") \union BothContacts("graph")

(* Calls of JMAP: items that fit a request together, alone or not at all,  *)
(* a server that takes less than it announced; some with one key.          *)
Things(sizes, keys, refused) ==
  [i \in DOMAIN sizes |-> [key |-> keys[i], size |-> sizes[i], refused |-> keys[i] = refused]]
Having(keys) == [k \in 1..4 |-> IF k \in keys THEN 1 ELSE 0]
Task(kind, items, exact, keys) == [kind |-> kind, items |-> items, exact |-> exact, there |-> Having(keys)]
MCTasks ==
  {Task("create", Things(sizes, <<1, 2, 3, last>>, refused), exact, keys) :
     sizes \in [1..4 -> {1, 2, 5}], last \in {1, 4}, refused \in {0, 2}, exact \in {1, 3, 4}, keys \in {{}, {3}}}
  \union {Task(kind, Things([i \in 1..4 |-> 1], <<1, 2, 3, 4>>, refused), exact, keys) :
     kind \in {"destroy", "get"}, refused \in {0, 3}, exact \in 0..3, keys \in {{1, 2, 3, 4}, {2, 3, 4}}}

(* IMAP servers: what they offer when, what works of it, and how they say  *)
(* that something does not.                                                *)
Site(m, s, clear, covered, inside) ==
  [mode |-> m, secret |-> s, clear |-> clear, covered |-> covered, inside |-> inside,
   compress |-> TRUE, tells |-> TRUE, takes |-> {"PLAIN", "XOAUTH2", "LOGIN"}, denies |-> "auth"]
Sasl(s) ==
  IF s = "basic" THEN {{"PLAIN"}, {"LOGINDISABLED"}, {"PLAIN", "SASL-IR", "LOGINDISABLED"}}
  ELSE {{}, {"XOAUTH2"}, {"OAUTHBEARER", "SASL-IR"}, {"XOAUTH2", "OAUTHBEARER"}}
MCSites ==
  UNION {{[Site(m, s, c, o, i) EXCEPT !.takes = t, !.denies = d, !.tells = "UTF8" \in i] :
      m \in {"tls", "starttls", "plain"}, c \in {{"LOGINDISABLED", "PLAIN"}, {"STARTTLS", "XOAUTH2"}},
      o \in Sasl(s), i \in {{}, {"COMPRESS"}, {"COMPRESS", "UTF8"}},
      t \in {{}, {"PLAIN", "XOAUTH2"}, {"LOGIN", "OAUTHBEARER"}}, d \in {"auth", "no", "challenge"}} :
    s \in {"basic", "bearer"}}

VARIABLE part

PartVars == <<vars, remoteVars, tokenVars, sessionVars, shellVars, xmlVars, eventVars, contactVars, seekVars, objectVars, callVars, loginVars>>
MCVars == <<part, PartVars>>

MCInit ==
  /\ Init
  /\ part \in {"gate", "remote", "token", "session", "shell", "xml", "event", "contact", "seek", "rows", "calls", "login"}
  /\ IF part = "remote" THEN RemoteInit ELSE NoRemote
  /\ IF part = "token" THEN TokenInit ELSE NoToken
  /\ IF part = "session" THEN SessionInit ELSE NoSession
  /\ IF part = "shell" THEN ShellInit ELSE NoShell
  /\ IF part = "xml" THEN XmlInit ELSE NoXml
  /\ IF part = "event" THEN EventInit ELSE NoEvents
  /\ IF part = "contact" THEN ContactsInit ELSE NoContacts
  /\ IF part = "seek" THEN SeekInit ELSE NoSeek
  /\ IF part = "rows" THEN ObjectsInit ELSE NoObjects
  /\ IF part = "calls" THEN CallsInit ELSE NoCalls
  /\ IF part = "login" THEN LoginInit ELSE NoLogin

MCNext ==
  /\ UNCHANGED part
  /\ \/ part = "gate" /\ Next
       /\ UNCHANGED <<remoteVars, tokenVars, sessionVars, shellVars, xmlVars, eventVars, contactVars, seekVars, objectVars, callVars, loginVars>>
     \/ part = "remote" /\ RemoteNext
       /\ UNCHANGED <<vars, tokenVars, sessionVars, shellVars, xmlVars, eventVars, contactVars, seekVars, objectVars, callVars, loginVars>>
     \/ part = "token" /\ TokenNext
       /\ UNCHANGED <<vars, remoteVars, sessionVars, shellVars, xmlVars, eventVars, contactVars, seekVars, objectVars, callVars, loginVars>>
     \/ part = "session" /\ SessionNext
       /\ UNCHANGED <<vars, remoteVars, tokenVars, shellVars, xmlVars, eventVars, contactVars, seekVars, objectVars, callVars, loginVars>>
     \/ part = "shell" /\ ShellNext
       /\ UNCHANGED <<vars, remoteVars, tokenVars, sessionVars, xmlVars, eventVars, contactVars, seekVars, objectVars, callVars, loginVars>>
     \/ part = "xml" /\ XmlNext
       /\ UNCHANGED <<vars, remoteVars, tokenVars, sessionVars, shellVars, eventVars, contactVars, seekVars, objectVars, callVars, loginVars>>
     \/ part = "event" /\ EventNext
       /\ UNCHANGED <<vars, remoteVars, tokenVars, sessionVars, shellVars, xmlVars, contactVars, seekVars, objectVars, callVars, loginVars>>
     \/ part = "contact" /\ ContactsNext
       /\ UNCHANGED <<vars, remoteVars, tokenVars, sessionVars, shellVars, xmlVars, eventVars, seekVars, objectVars, callVars, loginVars>>
     \/ part = "seek" /\ SeekNext
       /\ UNCHANGED <<vars, remoteVars, tokenVars, sessionVars, shellVars, xmlVars, eventVars, contactVars, objectVars, callVars, loginVars>>
     \/ part = "rows" /\ ObjectsNext
       /\ UNCHANGED <<vars, remoteVars, tokenVars, sessionVars, shellVars, xmlVars, eventVars, contactVars, seekVars, callVars, loginVars>>
     \/ part = "calls" /\ CallsNext
       /\ UNCHANGED <<vars, remoteVars, tokenVars, sessionVars, shellVars, xmlVars, eventVars, contactVars, seekVars, objectVars, loginVars>>
     \/ part = "login" /\ LoginNext
       /\ UNCHANGED <<vars, remoteVars, tokenVars, sessionVars, shellVars, xmlVars, eventVars, contactVars, seekVars, objectVars, callVars>>

MCSpec ==
  /\ MCInit /\ [][MCNext]_MCVars
  /\ GateFairness /\ RemoteFairness /\ TokenFairness /\ SessionFairness
  /\ ShellFairness /\ SeekFairness /\ CallsFairness /\ LoginFairness

-----------------------------------------------------------------------------
(* The types of all parts. *)
MCTypeOK == TypeOK /\ RemoteTypeOK /\ TokenTypeOK /\ SessionTypeOK /\ ShellTypeOK /\ XmlTypeOK
            /\ EventTypeOK /\ ContactsTypeOK /\ SeekTypeOK /\ ObjectsTypeOK /\ CallsTypeOK /\ LoginTypeOK

(* What a call puts on the wire is bounded by its retries, whatever comes  *)
(* on top of them: method retries, redirects or refused versions; and so   *)
(* is what a search for a service asks.                                    *)
RequestsBounded == SendsBounded /\ RoundsBounded /\ SearchBounded /\ RequestsFew

(* Credentials stay with the host they are for, are not sent in the clear  *)
(* unless that was asked for, and are renewed in time.                     *)
CredentialsHold == CredentialsKept /\ NotExposed /\ TokenLasts /\ SecretsCovered

(* What a server sends is taken as the answer to what it was asked for:    *)
(* no job of the IMAP importer and no script of the Sieve importer gets    *)
(* what was meant for an earlier one, both ends of an IMAP connection      *)
(* agree on what it is whenever it is made again, and a search finds the   *)
(* service and the account that were meant, if they can be reached.        *)
AnsweredAsMeant == AnswersMatch /\ ScriptsMatch /\ LinesAgree /\ FoundAsMeant

(* Every value of an answer is read as what it is where it stands; an      *)
(* event is on when the server says, a card says what the contact says, an *)
(* object of JMAP says the same wherever it is, and of a call about many   *)
(* objects each is told what became of it.                                 *)
ReadAsMeant == ReadFromPlace /\ MeetingsKept /\ ContactsKept /\ ObjectsKept /\ CallsTold

(* Nobody waits forever: not for a permit, a cooldown, a server that keeps *)
(* refusing, a connection that keeps breaking, or the thread of the token. *)
(* The calls are finitely many, so that all of them have returned at last. *)
EverythingReturns == []<>(NoCall /\ NoRemoteCall /\ NotEnding /\ JobEnded /\ ShellOver /\ SeekOver /\ CallsOver
                           /\ LoginOver)
=============================================================================
