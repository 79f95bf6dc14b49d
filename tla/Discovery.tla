------------------------------ MODULE Discovery ------------------------------
(***************************************************************************)
(* How an importer finds the service behind what the user gave it: the URL *)
(* of EWS by autodiscovery (src/src/exchange_ews/autodiscover.rs), the     *)
(* collections of CalDAV, CardDAV and WebDAV (src/src/dav/discover.rs),    *)
(* and the session and account of JMAP (src/src/jmap/session.rs and        *)
(* account.rs).  Each is a sequence of requests whose answers say where to *)
(* ask next.                                                               *)
(*                                                                         *)
(* `web' is what the servers would answer, chosen at the start; a request  *)
(* may besides fail once.  A failure is soft (a status, an answer nobody   *)
(* can read, retries used up) or fatal.  The query for SRV records is left *)
(* out: a domain has the two candidates that are always asked.             *)
(***************************************************************************)
EXTENDS Integers, FiniteSets, Sequences

CONSTANTS
  Domains,       (* of mail addresses; the user's is FirstDomain           *)
  FirstDomain,
  MaxAddresses,  (* redirects to another address that are followed         *)
  SeekFaults     (* bound on requests that fail for once                   *)

ASSUME SeekAssumption == MaxAddresses \in Nat /\ SeekFaults \in Nat

VARIABLES web, seek
seekVars == <<web, seek>>

NoSeek == web = [kind |-> "none"] /\ seek = [pc |-> "over", result |-> [kind |-> "none"], asked |-> 0]

SeekAt(pc) == seek.pc = pc
(* the next request, and the end                                           *)
AskedOnce(to) == [to EXCEPT !.asked = @ + 1]
Over(to, result) == [to EXCEPT !.pc = "over", !.result = result]
Failure(why) == [kind |-> why]

-----------------------------------------------------------------------------
(* EWS. *)

(* What a candidate answers: the action of the document, the address or    *)
(* the place it names, and the types of its protocols in their order.      *)
Refuses == [action |-> "refuses"]
Settings(types) == [action |-> "settings", types |-> types]
PoxAnswers(domain) ==
  {Refuses, Settings({"WEB"}), Settings({"WEB", "EXPR"}), [action |-> "redirectUrl"]}
    \union {[action |-> "redirectAddr", to |-> d] : d \in Domains \ {domain}}

EwsWebs ==
  LET asked == [d \in Domains |-> PoxAnswers(d) \X PoxAnswers(d)]
      Bare(v2, supplied, answers, hop) ==
        [kind |-> "ews", v2 |-> v2, supplied |-> supplied, answers |-> answers, hop |-> hop]
      worlds == {f \in [Domains -> UNION {asked[d] : d \in Domains}] : \A d \in Domains : f[d] \in asked[d]}
      one == CHOOSE f \in worlds : TRUE
  IN {Bare(FALSE, supplied, f, hop) : supplied \in {"none", "host"}, f \in worlds,
                                      hop \in {Refuses, Settings({"EXCH"})}}
       \union {Bare(TRUE, supplied, one, Refuses) : supplied \in {"none", "host", "full"}}

(* parse_pox_response: an EwsUrl counts in a protocol of Exchange          *)
Outcome(answer) ==
  CASE answer.action \in {"redirectAddr", "redirectUrl"} -> answer.action
    [] answer.action = "settings" /\ answer.types \intersect {"EXCH", "EXPR"} # {} -> "EwsUrl"
    [] OTHER -> "Failed"

(* discover: an EWS URL that is complete is taken as it is                 *)
SuppliedUrl ==
  /\ SeekAt("supplied")
  /\ seek' = IF web.supplied = "full" THEN Over(seek, [kind |-> "url", of |-> "supplied"])
             ELSE [seek EXCEPT !.pc = "v2"]
  /\ UNCHANGED web

AutodiscoverV2 ==
  /\ SeekAt("v2")
  /\ seek' = IF web.v2 THEN Over(AskedOnce(seek), [kind |-> "url", of |-> "v2"])
             ELSE [AskedOnce(seek) EXCEPT !.pc = "v1"]
  /\ UNCHANGED web

Candidate == web.answers[seek.domain][seek.next]

(* Seeded bug: a candidate that fails ends the search. *)
SkipAll(to) == [to EXCEPT !.next = 3, !.pc = "v1"]

Skip(to) == [to EXCEPT !.next = @ + 1, !.pc = "v1"]

(* Seeded bug: addresses are followed as long as there are any. *)
FollowAlways(to) == [to EXCEPT !.domain = Candidate.to, !.next = 1]

(* a redirect to another address begins again with its domain              *)
Follow(to) ==
  IF seek.addresses >= MaxAddresses THEN Over(to, Failure("loop"))
  ELSE [to EXCEPT !.addresses = @ + 1, !.domain = Candidate.to, !.next = 1]

(* autodiscover_v1 of a candidate                                          *)
AutodiscoverV1 ==
  /\ SeekAt("v1") /\ seek.next <= 2
  /\ LET to == AskedOnce(seek) IN
     seek' = CASE Outcome(Candidate) = "EwsUrl" -> Over(to, [kind |-> "url", of |-> "v1"])
               [] Outcome(Candidate) = "redirectAddr" -> Follow(to)
               [] Outcome(Candidate) = "redirectUrl" ->
                    IF seek.hops >= 1 THEN Over(to, Failure("loop"))
                    ELSE [to EXCEPT !.hops = @ + 1, !.pc = "hop"]
               [] OTHER -> Skip(to)
  /\ UNCHANGED web

(* the one URL that is followed, and then the next candidate               *)
FollowUrl ==
  /\ SeekAt("hop")
  /\ seek' = IF Outcome(web.hop) = "EwsUrl" THEN Over(AskedOnce(seek), [kind |-> "url", of |-> "hop"])
             ELSE Skip(AskedOnce(seek))
  /\ UNCHANGED web

NoCandidateLeft ==
  /\ SeekAt("v1") /\ seek.next > 2
  /\ seek' = IF web.supplied = "none" THEN Over(seek, Failure("failed"))
             ELSE Over(seek, [kind |-> "url", of |-> "supplied"])
  /\ UNCHANGED web

-----------------------------------------------------------------------------
(* DAV.  Places are a host and a path.  The user gives the root of host a; *)
(* the account is on web.host, its collections are on web.homeHost.        *)

UrlOf(host, path) == [host |-> host, path |-> path]
UserUrl == UrlOf("a", "root")
WellKnown(place) == UrlOf(place.host, "known")

DavWebs == [kind : {"dav"}, files : BOOLEAN, host : {"a", "b"}, homeHost : {"a", "b"},
            moved : SUBSET {"root", "known"},
            root : {"error", "nothing", "principal", "home"}, principal : {"error", "nothing", "home"},
            rootList : {"other", "wanted"}, homeList : {"other", "wanted", "error"}]

(* Where a request ends up: host a redirects what it has moved to the root *)
(* of the account.                                                         *)
FinalUrl(place) ==
  IF place.host = "a" /\ place.path \in web.moved THEN UrlOf(web.host, "root") ELSE place

(* What a PROPFIND for properties and one for the members says there.      *)
Props(place) ==
  LET at == FinalUrl(place) IN
  IF at = UrlOf(web.host, "root") THEN web.root
  ELSE IF at = UrlOf(web.host, "principal") THEN web.principal
  ELSE "error"
Listing(place) ==
  LET at == FinalUrl(place) IN
  IF at = UrlOf(web.homeHost, "home") THEN web.homeList
  ELSE IF at = UrlOf(web.host, "root") THEN web.rootList
  ELSE IF at = UrlOf(web.host, "principal") THEN "other"
  ELSE "error"

(* normalise and absolute_url: of an href only the path is kept            *)
Resolved(final, path) == UrlOf(final.host, path)

(* try_treat_url_as_home_or_collection, then try_via_principal; the same   *)
(* the other way round at the well-known URL, which files do not have.     *)
NotHere(to) ==
  CASE ~to.known /\ to.via = "url" -> IF web.files THEN Over(to, Failure("notFound"))
                                      ELSE [to EXCEPT !.via = "principal", !.pc = "props"]
    [] ~to.known /\ to.via = "principal" ->
         [to EXCEPT !.known = TRUE, !.place = WellKnown(UserUrl), !.pc = "props"]
    [] to.known /\ to.via = "principal" -> [to EXCEPT !.via = "url", !.place = WellKnown(UserUrl), !.pc = "list"]
    [] OTHER -> Over(to, Failure("notFound"))

Found(to, account, home) ==
  Over(to, [kind |-> "home", account |-> account, home |-> home, at |-> FinalUrl(home)])

(* propfind_collections: nothing but the wanted kind counts                *)
ListUrl ==
  /\ SeekAt("list") /\ seek.via = "url"
  /\ seek' = IF Listing(seek.place) = "wanted" THEN [AskedOnce(seek) EXCEPT !.pc = "whose"]
             ELSE NotHere(AskedOnce(seek))
  /\ UNCHANGED web

(* resolve_principal_url: an account without principal is known by its home *)
ResolvePrincipal ==
  /\ SeekAt("whose")
  /\ seek' = Found(IF web.files THEN seek ELSE AskedOnce(seek),
                   IF web.files \/ Props(seek.place) # "principal" THEN seek.place
                   ELSE Resolved(FinalUrl(seek.place), "principal"),
                   seek.place)
  /\ UNCHANGED web

ToHome(to, account, final) ==
  [to EXCEPT !.place = Resolved(final, "home"), !.account = account, !.pc = "list"]

FindPrincipal ==
  /\ SeekAt("props")
  /\ LET to == AskedOnce(seek)  final == FinalUrl(seek.place) IN
     seek' = CASE Props(seek.place) = "home" -> ToHome(to, final, final)
               [] Props(seek.place) = "principal" ->
                    [to EXCEPT !.place = Resolved(final, "principal"), !.pc = "home"]
               [] Props(seek.place) = "nothing" -> [to EXCEPT !.place = final, !.pc = "home"]
               [] OTHER -> NotHere(to)
  /\ UNCHANGED web

FindHome ==
  /\ SeekAt("home")
  /\ seek' = IF Props(seek.place) = "home" THEN ToHome(AskedOnce(seek), seek.place, FinalUrl(seek.place))
             ELSE NotHere(AskedOnce(seek))
  /\ UNCHANGED web

(* A home that cannot be listed ends the search.                           *)
ListHome ==
  /\ SeekAt("list") /\ seek.via = "principal"
  /\ seek' = CASE Listing(seek.place) = "wanted" -> Found(AskedOnce(seek), seek.account, seek.place)
               [] Listing(seek.place) = "other" -> NotHere(AskedOnce(seek))
               [] OTHER -> Over(AskedOnce(seek), Failure("error"))
  /\ UNCHANGED web

-----------------------------------------------------------------------------
(* JMAP.  Accounts have an id and a name; the user asks for a name.        *)

WantedName == "user"
Account(id, name) == [id |-> id, name |-> name]
Accounts == {{}, {Account(1, "other")}, {Account(1, "user"), Account(2, "other")}}
JmapAnswers == {"session", "other", "error", "auth"}
Principal(name, accounts) == [name |-> name, accounts |-> accounts]
Principals ==
  {{}, {Principal("user", {Account(3, "box")})}, {Principal("user", {Account(3, "box"), Account(4, "user")})},
   {Principal("user", {}), Principal("user", {Account(4, "user")})}, {Principal("users", {Account(5, "users")})}}
JmapWebs == [kind : {"jmap"}, direct : JmapAnswers, known : JmapAnswers, accounts : Accounts,
             principals : Principals, capable : BOOLEAN]

(* ensure_authenticated, then resolve among the accounts of the session    *)
ToAccount(to) ==
  LET named == {a \in web.accounts : a.name = WantedName} IN
  IF web.accounts = {} THEN Over(to, Failure("auth"))
  ELSE IF named # {} THEN Over(to, [kind |-> "account", id |-> (CHOOSE a \in named : TRUE).id])
  ELSE IF web.capable THEN [to EXCEPT !.pc = "resolve"] ELSE Over(to, Failure("unsupported"))

(* Session::discover: at the URL itself and, unless it refuses the         *)
(* credentials, at the well-known one                                      *)
DiscoverSession ==
  /\ SeekAt("session")
  /\ seek' = CASE web.direct = "session" -> ToAccount(AskedOnce(seek))
               [] web.direct = "auth" -> Over(AskedOnce(seek), Failure("auth"))
               [] OTHER -> [AskedOnce(seek) EXCEPT !.pc = "known"]
  /\ UNCHANGED web
DiscoverKnown ==
  /\ SeekAt("known")
  /\ seek' = CASE web.known = "session" -> ToAccount(AskedOnce(seek))
               [] web.known = "auth" -> Over(AskedOnce(seek), Failure("auth"))
               [] OTHER -> Over(AskedOnce(seek), Failure("connect"))
  /\ UNCHANGED web

(* extract_account_id: the only account of the principal, or the one named *)
(* like it                                                                 *)
ExtractAccountId(principal) ==
  LET named == {a \in principal.accounts : a.name = WantedName} IN
  IF Cardinality(principal.accounts) = 1 THEN [kind |-> "account", id |-> (CHOOSE a \in principal.accounts : TRUE).id]
  ELSE IF named # {} THEN [kind |-> "account", id |-> (CHOOSE a \in named : TRUE).id]
  ELSE [kind |-> "principal"]

(* resolve_via_principal: the filter of the query is not relied on         *)
ResolveViaPrincipal ==
  /\ SeekAt("resolve")
  /\ LET matches == {p \in web.principals : p.name = WantedName} IN
     seek' = Over(AskedOnce(seek), CASE Cardinality(matches) = 0 -> Failure("unknown")
                                [] Cardinality(matches) = 1 -> ExtractAccountId(CHOOSE p \in matches : TRUE)
                                [] OTHER -> Failure("ambiguous"))
  /\ UNCHANGED web

-----------------------------------------------------------------------------
(* A request that fails.  It is soft for the discovery of DAV, except for  *)
(* a home that cannot be listed; what is fatal ends the search.            *)
SeekFails ==
  /\ seek.pc # "over" /\ seek.faults < SeekFaults
  /\ LET to == [AskedOnce(seek) EXCEPT !.faults = @ + 1] IN
     \/ SeekAt("v2") /\ seek' = [to EXCEPT !.pc = "v1"]
     \/ SeekAt("v1") /\ seek.next <= 2 /\ seek' = Skip(to)
     \/ SeekAt("hop") /\ seek' = Skip(to)
     \/ SeekAt("props") /\ seek' = NotHere(to)
     \/ SeekAt("home") /\ seek' = NotHere(to)
     \/ SeekAt("list") /\ seek' = IF seek.via = "url" THEN NotHere(to) ELSE Over(to, Failure("error"))
     \/ SeekAt("whose") /\ ~web.files /\ seek' = Found(to, seek.place, seek.place)
     \/ SeekAt("session") /\ seek' = [to EXCEPT !.pc = "known"]
     \/ SeekAt("known") /\ seek' = Over(to, Failure("connect"))
     \/ web.kind = "dav" /\ seek' = Over(to, Failure("fatal"))
     \/ SeekAt("resolve") /\ seek' = Over(to, Failure("error"))
  /\ UNCHANGED web

SeekInit ==
  /\ web \in EwsWebs \union DavWebs \union JmapWebs
  /\ seek = [pc |-> CASE web.kind = "ews" -> "supplied" [] web.kind = "dav" -> "list" [] OTHER -> "session",
             asked |-> 0, faults |-> 0, result |-> Failure("none"),
             domain |-> FirstDomain, next |-> 1, addresses |-> 0, hops |-> 0,
             place |-> UserUrl, account |-> UserUrl, via |-> "url", known |-> FALSE]

SeekNext ==
  \/ SuppliedUrl \/ AutodiscoverV2 \/ AutodiscoverV1 \/ FollowUrl \/ NoCandidateLeft
  \/ ListUrl \/ ResolvePrincipal \/ FindPrincipal \/ FindHome \/ ListHome
  \/ DiscoverSession \/ DiscoverKnown \/ ResolveViaPrincipal
  \/ SeekFails

SeekFairness == WF_seekVars(SeekNext)

-----------------------------------------------------------------------------
SeekTypeOK ==
  /\ web.kind \in {"none", "ews", "dav", "jmap"}
  /\ seek.asked \in Nat
  /\ web.kind # "none" => seek.place \in [host : {"a", "b"}, path : {"root", "known", "principal", "home"}]

(* A search makes few requests, whatever the servers say: redirects to     *)
(* addresses that lead back to one another included.                       *)
SearchBounded ==
  /\ web.kind = "ews" => seek.asked <= 1 + 2 * (MaxAddresses + 1) + 1
  /\ web.kind = "dav" => seek.asked <= 9
  /\ web.kind = "jmap" => seek.asked <= 3

Ended(kind) == seek.pc = "over" /\ seek.result.kind = kind

(* EWS: a search that gives up, or falls back on the host the user gave,   *)
(* has overlooked no candidate of the domain that was last asked.          *)
NothingOverlooked ==
  web.kind = "ews" /\ seek.pc = "over" /\ seek.faults = 0 /\ seek.result.kind # "loop" =>
    \/ seek.result.kind = "url" /\ seek.result.of # "supplied"
    \/ web.supplied = "full"
    \/ \A i \in 1..2 : Outcome(web.answers[seek.domain][i]) \notin {"EwsUrl", "redirectAddr"}

(* DAV: the collections are asked for on the host that listed them, unless *)
(* the listing was redirected to another.                                  *)
ListedWhereAsked ==
  Ended("home") => \/ seek.result.at = seek.result.home
                   \/ seek.result.home.path \in web.moved

(* DAV: an account that can be reached, by way of its principal or of the  *)
(* well-known URL, is found, unless an href leads to another host or the   *)
(* URL given answers as another service would.                             *)
InOrder ==
  /\ web.homeHost = web.host /\ web.homeList = "wanted" /\ ~web.files
  /\ web.root = "home" \/ (web.root = "principal" /\ web.principal = "home")
  /\ web.host = "a" \/ web.moved # {}
ReachableFound ==
  web.kind = "dav" /\ InOrder /\ seek.pc = "over" /\ seek.faults = 0 => Ended("home")

(* JMAP: a name leads to the account of that name, in the session or of    *)
(* the only principal that has it, and to none when there are two.         *)
AccountMeant ==
  web.kind = "jmap" /\ Ended("account") =>
    \/ Account(seek.result.id, WantedName) \in web.accounts
    \/ \A p \in web.principals : p.name = WantedName => \E a \in p.accounts : a.id = seek.result.id

FoundAsMeant == NothingOverlooked /\ ListedWhereAsked /\ ReachableFound /\ AccountMeant

SeekOver == seek.pc = "over"
=============================================================================
