----------------------------- MODULE ObjectRows -----------------------------
(***************************************************************************)
(* What becomes of an object of JMAP on its way through the archive:       *)
(* decoded (src/src/jmap/wire), written to columns and read back from them *)
(* (src/src/sync/import_jmap/mapping.rs), its blobs turned into sentinels  *)
(* and data URIs (src/src/jmap/blob.rs), created on another account        *)
(* (src/src/sync/export).                                                  *)
(*                                                                         *)
(* Object p of some type is read, changes and is read again, q is beside   *)
(* it; both may be exported at any time.  An object has properties; homes  *)
(* (the mailboxes, calendars or books it is in); a parent; and blobs, each *)
(* somewhere in it: at its top, in a member or in a list of what its JSON  *)
(* holds, or in a patch of it.  Homes and parents have an id on the first  *)
(* account, in the archive and on the second one.                          *)
(***************************************************************************)
EXTENDS Naturals, FiniteSets, TLC

VARIABLES
  way,       (* the type of the objects, the homes that are archived, those *)
             (* that were created on the target, and what has changed       *)
  wire,      (* the objects of the account                                  *)
  row,       (* their rows, or NoObject                                     *)
  fresh,     (* the objects whose rows are up to date                       *)
  sent       (* the objects created on the other account, or NoObject       *)

objectVars == <<way, wire, row, fresh, sent>>

Objects == {"p", "q"}
NoObject == [is |-> "nothing"]
NoObjects == way = NoObject /\ wire = NoObject /\ row = NoObject /\ fresh = {} /\ sent = NoObject

-----------------------------------------------------------------------------
(* How a property is decoded that is missing or null.                      *)

Required == [missing |-> "refused", null |-> "refused"]
Optional == [missing |-> "null", null |-> "null"]
Or(v) == [missing |-> v, null |-> "refused"]
OrNull(v) == [missing |-> v, null |-> v]
Kept == [missing |-> "missing", null |-> "null"]

MailboxFields == [name |-> Required, role |-> Optional, sortOrder |-> Or("0"), isSubscribed |-> Or("yes")]
EmailFields == [receivedAt |-> Optional, keywords |-> Required]
IdentityFields == [name |-> Or(""), email |-> Required, replyTo |-> Optional, bcc |-> Optional,
                   textSignature |-> Or(""), htmlSignature |-> Or("")]
SieveScriptFields == [name |-> Optional, isActive |-> Or("no")]
AddressBookFields == [name |-> Required, description |-> Optional, sortOrder |-> Or("0"),
                      isDefault |-> Or("no"), isSubscribed |-> Or("yes")]
CalendarFields == [name |-> Required, description |-> Optional, color |-> Optional, sortOrder |-> Or("0"),
                   isSubscribed |-> Or("yes"), isVisible |-> Or("yes"), isDefault |-> Or("no"),
                   includeInAvailability |-> Or("all"), defaultAlertsWithTime |-> Optional,
                   defaultAlertsWithoutTime |-> Optional, timeZone |-> Optional]
ParticipantIdentityFields == [name |-> Or(""), calendarAddress |-> Required, isDefault |-> Or("no")]
FileNodeFields == [name |-> Required, created |-> Required, modified |-> Optional]
FileFields == FileNodeFields @@ [mediaType |-> Optional, executable |-> OrNull("no")]
DirectoryFields == FileNodeFields @@ [role |-> Optional, isSubscribed |-> OrNull("yes")]
SymLinkFields == FileNodeFields @@ [target |-> Required]
ContactCardFields == [uid |-> Required, name |-> Kept]
CalendarEventFields == [title |-> Kept, method |-> Kept, utcStart |-> Kept, isDraft |-> Or("no"),
                        useDefaultAlerts |-> Or("no")]
VacationFields == [isEnabled |-> Or("no"), fromDate |-> Optional, subject |-> Optional]

Fields ==
  [mailbox |-> MailboxFields, email |-> EmailFields, identity |-> IdentityFields,
   sievescript |-> SieveScriptFields, addressbook |-> AddressBookFields, calendar |-> CalendarFields,
   participantidentity |-> ParticipantIdentityFields, file |-> FileFields,
   directory |-> DirectoryFields, symlink |-> SymLinkFields, contactcard |-> ContactCardFields,
   calendarevent |-> CalendarEventFields, vacationresponse |-> VacationFields]

Nodes == {"file", "directory", "symlink"}
Parented == Nodes \union {"mailbox"}
Homed == {"email", "contactcard", "calendarevent"}
WithJson == {"contactcard", "calendarevent"}
WithBlob == {"email", "sievescript", "file"}

Decoded(is, f, v) == IF v \in {"missing", "null"} THEN Fields[is][f][v] ELSE v

-----------------------------------------------------------------------------
(* The columns that are written, written again and read.                   *)

InsertMailbox == {"name", "parent", "role", "sortOrder", "isSubscribed"}
UpdateMailbox == {"name", "parent", "role", "sortOrder", "isSubscribed"}
RowToMailbox == {"name", "parent", "role", "sortOrder", "isSubscribed"}
InsertEmail == {"blobs", "receivedAt", "homes", "keywords"}
UpdateEmail == {"homes", "keywords"}
RowToEmail == {"blobs", "receivedAt", "homes", "keywords"}
InsertIdentity == {"name", "email", "replyTo", "bcc", "textSignature", "htmlSignature"}
UpdateIdentity == {"name", "email", "replyTo", "bcc", "textSignature", "htmlSignature"}
RowToIdentity == {"name", "email", "replyTo", "bcc", "textSignature", "htmlSignature"}
InsertSieveScript == {"name", "isActive", "blobs"}
UpdateSieveScript == {"name", "isActive", "blobs"}
RowToSieveScript == {"name", "isActive", "blobs"}
InsertAddressBook == {"name", "description", "sortOrder", "isDefault", "isSubscribed"}
UpdateAddressBook == {"name", "description", "sortOrder", "isDefault", "isSubscribed"}
RowToAddressBook == {"name", "description", "sortOrder", "isDefault", "isSubscribed"}
InsertCalendar ==
  {"name", "description", "color", "sortOrder", "isSubscribed", "isVisible", "isDefault",
   "includeInAvailability", "defaultAlertsWithTime", "defaultAlertsWithoutTime", "timeZone"}
(* Seeded bug: the time zone is not among the columns that are updated. *)
UpdateMostOfCalendar == InsertCalendar \ {"timeZone"}
UpdateCalendar ==
  {"name", "description", "color", "sortOrder", "isSubscribed", "isVisible", "isDefault",
   "includeInAvailability", "defaultAlertsWithTime", "defaultAlertsWithoutTime", "timeZone"}
RowToCalendar ==
  {"name", "description", "color", "sortOrder", "isSubscribed", "isVisible", "isDefault",
   "includeInAvailability", "defaultAlertsWithTime", "defaultAlertsWithoutTime", "timeZone"}
InsertParticipantIdentity == {"name", "calendarAddress", "isDefault"}
UpdateParticipantIdentity == {"name", "calendarAddress", "isDefault"}
InsertFileNode == {"is", "parent", "blobs", "target", "name", "mediaType", "created", "modified",
                   "isSubscribed", "role", "executable"}
UpdateFileNode == {"is", "parent", "blobs", "target", "name", "mediaType", "created", "modified",
                   "isSubscribed", "role", "executable"}
RowToFileNode == {"is", "parent", "blobs", "target", "name", "mediaType", "created", "modified",
                  "isSubscribed", "role", "executable"}
InsertContactCard == {"uid", "homes", "data"}
UpdateContactCard == {"uid", "homes", "data"}
ContactCardToWire == {"uid", "homes", "data"}
InsertCalendarEvent == {"homes", "isDraft", "useDefaultAlerts", "data"}
UpdateCalendarEvent == {"homes", "isDraft", "useDefaultAlerts", "data"}
CalendarEventToWire == {"homes", "isDraft", "useDefaultAlerts", "data"}
StoreVacation == {"isEnabled", "fromDate", "subject"}
LoadVacation == {"isEnabled", "fromDate", "subject"}

(* Participant identities are not exported.                                *)
Columns(is) ==
  CASE is = "mailbox" -> [insert |-> InsertMailbox, update |-> UpdateMailbox, read |-> RowToMailbox]
    [] is = "email" -> [insert |-> InsertEmail, update |-> UpdateEmail, read |-> RowToEmail]
    [] is = "identity" -> [insert |-> InsertIdentity, update |-> UpdateIdentity, read |-> RowToIdentity]
    [] is = "sievescript" ->
         [insert |-> InsertSieveScript, update |-> UpdateSieveScript, read |-> RowToSieveScript]
    [] is = "addressbook" ->
         [insert |-> InsertAddressBook, update |-> UpdateAddressBook, read |-> RowToAddressBook]
    [] is = "calendar" -> [insert |-> InsertCalendar, update |-> UpdateCalendar, read |-> RowToCalendar]
    [] is = "participantidentity" ->
         [insert |-> InsertParticipantIdentity, update |-> UpdateParticipantIdentity, read |-> {}]
    [] is \in Nodes -> [insert |-> InsertFileNode, update |-> UpdateFileNode, read |-> RowToFileNode]
    [] is = "contactcard" ->
         [insert |-> InsertContactCard, update |-> UpdateContactCard, read |-> ContactCardToWire]
    [] is = "calendarevent" ->
         [insert |-> InsertCalendarEvent, update |-> UpdateCalendarEvent, read |-> CalendarEventToWire]
    [] is = "vacationresponse" ->
         [insert |-> StoreVacation, update |-> StoreVacation, read |-> LoadVacation]

(* What has no column of its own is in the JSON of `data'.                 *)
InData(is) == IF is \in WithJson THEN {f \in DOMAIN Fields[is] : Fields[is][f] = Kept} ELSE {}
Reached(is, columns) ==
  (DOMAIN Fields[is] \intersect columns) \union IF "data" \in columns THEN InData(is) ELSE {}

-----------------------------------------------------------------------------
(* The accounts and the archive: the ids of homes; the blobs of the first  *)
(* account, of which b4 cannot be downloaded; what they hold, the blob row *)
(* of a content, and the Date header of a message, if it has one.          *)

LocalId == [h1 |-> "1", h2 |-> "2"]
TargetId == "1" :> "t1" @@ "2" :> "t2" @@ "none" :> "none"
Content == [b1 |-> "c1", b2 |-> "c2", b3 |-> "c1"]
BlobRow == [c1 |-> "1", c2 |-> "2"]
Bytes == "1" :> "c1" @@ "2" :> "c2"
DateHeader == [c1 |-> "sunday"]

Blob(at, blob, media) == [at |-> at, blob |-> blob, media |-> media]
Flags == {"isSubscribed", "isDefault", "isActive", "isVisible", "isDraft", "useDefaultAlerts",
          "executable", "isEnabled"}
Base(o, is) ==
  [is |-> is,
   props |-> [f \in DOMAIN Fields[is] |->
     IF f \in Flags THEN "no" ELSE IF f = "role" THEN "null"
     ELSE IF f \in {"name", "uid"} THEN o ELSE "a"],
   homes |-> IF is \in Homed THEN {"h1"} ELSE {},
   parent |-> "none",
   blobs |-> IF is \in WithBlob THEN {Blob("top", "b1", "none")} ELSE {}]

(* Another object like w: one thing is different.                          *)
Values(f) ==
  CASE f \in Flags -> {"missing", "null", "yes", "no"}
    [] f = "color" -> {"missing", "null", "b", "with alpha", "unknown"}
    [] f = "receivedAt" -> {"missing", "null", "b", "unreadable"}
    [] f = "keywords" -> {"b"}
    [] OTHER -> {"missing", "null", "b"}
OtherProps(w, fields) == UNION {{[w EXCEPT !.props[f] = v] : v \in Values(f)} : f \in fields}
OtherHomes(w) == IF w.is \in Homed THEN {[w EXCEPT !.homes = h] : h \in SUBSET {"h1", "h2"}} ELSE {}
OtherParent(w) == IF w.is \in Parented THEN {[w EXCEPT !.parent = h] : h \in {"h1", "h2"}} ELSE {}
OtherBlobs(w) ==
  CASE w.is \in WithBlob -> {[w EXCEPT !.blobs = b] : b \in {{Blob("top", x, "none")} : x \in {"b2", "b4"}} \union {{}}}
    [] w.is \in WithJson ->
         {[w EXCEPT !.blobs = {Blob(at, "b1", m), Blob("list", b, "none")}] :
            at \in {"top", "member", "patch"}, m \in {"none", "image"}, b \in {"b2", "b3", "b4"}}
    [] OTHER -> {}
OtherKind(w) ==
  IF w.is \in Nodes
    THEN {[Base("p", is) EXCEPT !.props.name = w.props.name] : is \in Nodes \ {w.is}} ELSE {}
Unset(w) ==
  IF w.is = "vacationresponse"
    THEN {[w EXCEPT !.props = [f \in DOMAIN @ |-> IF f = "isEnabled" THEN "no" ELSE "null"]]} ELSE {}

ObjectsInit ==
  \E is \in DOMAIN Fields, archived, made \in {{"h1"}, {"h1", "h2"}} :
    LET p == Base("p", is) IN
    /\ is \in Homed \union Parented \/ (made = {"h1"} /\ archived = made)
    /\ way = [is |-> is, archived |-> archived, made |-> made, changed |-> "nothing"]
    /\ \E first \in {p} \union OtherProps(p, DOMAIN Fields[is]) \union OtherHomes(p)
                        \union OtherParent(p) \union OtherBlobs(p) \union Unset(p) :
         wire = [o \in Objects |-> IF o = "p" THEN first ELSE Base("q", is)]
    /\ row = [o \in Objects |-> NoObject] /\ sent = row /\ fresh = {}

(* Of an e-mail only the mailboxes and the keywords change.  The default   *)
(* and a role may pass to q.  (Bound: one change.)                         *)
ServerChangesObject ==
  /\ way.changed = "nothing" /\ sent["p"] = NoObject
  /\ LET p == wire["p"] IN
     \/ /\ \E new \in IF way.is = "email" THEN OtherProps(p, {"keywords"}) \union OtherHomes(p)
                      ELSE OtherProps(p, DOMAIN p.props) \union OtherParent(p) \union OtherHomes(p)
                             \union OtherBlobs(p) \union OtherKind(p) \union Unset(p) :
             wire' = [wire EXCEPT !["p"] = new]
        /\ way' = [way EXCEPT !.changed = "p"] /\ fresh' = fresh \ {"p"}
     \/ \E f \in {"role", "isDefault"} \intersect DOMAIN p.props :
        /\ p.props[f] \in {"yes", "b"}
        /\ wire' = [wire EXCEPT !["p"].props[f] = Base("p", p.is).props[f], !["q"].props[f] = p.props[f]]
        /\ way' = [way EXCEPT !.changed = f] /\ fresh' = {}
  /\ UNCHANGED <<row, sent>>

-----------------------------------------------------------------------------
(* Reading an object.                                                      *)

HasRow(o) == row[o] # NoObject

(* unique_role, unique_default: the first row keeps it *)
Taken(o, f, v) == \E r \in Objects \ {o} : HasRow(r) /\ row[r].props[f] = v
UniqueRole(o, v) == IF v # "null" /\ Taken(o, "role", v) THEN "null" ELSE v
UniqueDefault(o, v) == IF v = "yes" /\ Taken(o, "isDefault", v) THEN "no" ELSE v

(* lenient_utc_date, the Date header, the epoch *)
Received(w, v) ==
  LET headers == {DateHeader[Content[b.blob]] : b \in {b \in w.blobs : Content[b.blob] \in DOMAIN DateHeader}}
  IN IF v \notin {"null", "unreadable"} THEN v
     ELSE IF headers = {} THEN "epoch" ELSE CHOOSE d \in headers : TRUE

(* What an event has by being a reply, and what follows from the rest.     *)
DropKeys == {"method", "utcStart"}

Written(o, w, f) ==
  LET v == Decoded(w.is, f, w.props[f]) IN
  CASE f = "role" /\ w.is = "mailbox" -> UniqueRole(o, v)
    [] f = "isDefault" -> UniqueDefault(o, v)
    [] f = "receivedAt" -> Received(w, v)
    [] w.is = "calendarevent" /\ f \in DropKeys -> "missing"
    [] OTHER -> v

(* collect_blob_ids, walk_import: not a blob that a patch sets *)
References(w) == {b \in w.blobs : b.at # "patch"}
Sentinel(b) == IF b.at = "patch" THEN b ELSE [b EXCEPT !.blob = BlobRow[Content[@]]]

(* What is asked for; all there is, of most types.                         *)
GetProps(is) ==
  CASE is = "mailbox" -> {"name", "parentId", "role", "sortOrder", "isSubscribed"}
    [] is = "email" -> {"blobId", "receivedAt", "mailboxIds", "keywords"}
    [] is = "sievescript" -> {"name", "isActive", "blobId"}
    [] is \in Nodes -> {"@type", "parentId", "blobId", "target", "name", "mediaType", "executable",
                        "created", "modified", "isSubscribed", "role"}
    [] OTHER -> DOMAIN Fields[is]
(* Of an e-mail that is known already.                                     *)
UpdateProps(is) == IF is = "email" THEN {"mailboxIds", "keywords"} ELSE GetProps(is)
Asked(w, asked) ==
  [w EXCEPT !.props = [f \in DOMAIN @ |-> IF f \in asked THEN @[f] ELSE "missing"]]

(* Homes have to be known, a parent that is not known is none.             *)
TranslateIn(homes) == {LocalId[h] : h \in homes}
OptParent(h) == IF h \in way.archived THEN LocalId[h] ELSE "none"

Malformed(w, fields) ==
  \/ \E f \in fields : Decoded(w.is, f, w.props[f]) = "refused"
  \/ ~(w.homes \subseteq way.archived) \/ (w.is = "email" /\ w.homes = {})

BlobsMissing(w) ==
  \/ w.is \in {"email", "sievescript"} /\ w.blobs = {}
  \/ \E b \in References(w) : b.blob \notin DOMAIN Content

InsertOne(o) ==
  LET w == Asked(wire[o], GetProps(way.is))  columns == Columns(w.is).insert IN
  /\ ~HasRow(o) /\ ~Malformed(w, DOMAIN w.props) /\ ~BlobsMissing(w)
  /\ Unset(w) # {w}
  /\ row' = [row EXCEPT ![o] =
       [is |-> w.is,
        props |-> [f \in Reached(w.is, columns) |-> Written(o, w, f)],
        homes |-> IF "homes" \in columns THEN TranslateIn(w.homes) ELSE {},
        parent |-> IF "parent" \in columns THEN OptParent(w.parent) ELSE "none",
        blobs |-> IF {"blobs", "data"} \intersect columns # {} THEN {Sentinel(b) : b \in w.blobs} ELSE {}]]
  /\ fresh' = fresh \union {o}
  /\ UNCHANGED <<way, wire, sent>>

UpdateOne(o) ==
  LET w == Asked(wire[o], UpdateProps(way.is))  columns == Columns(w.is).update  r == row[o] IN
  /\ HasRow(o) /\ o \notin fresh
  /\ ~Malformed(w, IF w.is = "email" THEN {"keywords"} ELSE DOMAIN w.props)
  /\ w.is = "email" \/ ~BlobsMissing(w)
  /\ Unset(w) # {w}
  /\ row' = [row EXCEPT ![o] =
       [is |-> IF "is" \in columns THEN w.is ELSE r.is,
        props |-> [f \in DOMAIN w.props |->
                     IF f \in Reached(w.is, columns) THEN Written(o, w, f)
                     ELSE IF f \in DOMAIN r.props THEN r.props[f] ELSE "null"],
        homes |-> IF "homes" \in columns THEN TranslateIn(w.homes) ELSE r.homes,
        parent |-> IF "parent" \in columns THEN OptParent(w.parent) ELSE r.parent,
        blobs |-> IF {"blobs", "data"} \intersect columns # {} THEN {Sentinel(b) : b \in w.blobs} ELSE r.blobs]]
  /\ fresh' = fresh \union {o}
  /\ UNCHANGED <<way, wire, sent>>

(* A response to absences that says nothing is not stored.                 *)
ClearVacation(o) ==
  /\ Unset(wire[o]) = {wire[o]} /\ o \notin fresh
  /\ row' = [row EXCEPT ![o] = NoObject] /\ fresh' = fresh \union {o}
  /\ UNCHANGED <<way, wire, sent>>

-----------------------------------------------------------------------------
(* Creating the object on the other account.                               *)

(* normalize_color: without alpha, and only what CSS knows *)
NormalizeColor(v) == IF v = "with alpha" THEN "a" ELSE IF v = "unknown" THEN "null" ELSE v
Serialized(is, f, v) ==
  LET w == IF f = "color" THEN NormalizeColor(v) ELSE v
  IN IF w = "null" /\ Fields[is][f] # Kept THEN "missing" ELSE w

(* Said in requests of their own, or never.                                *)
NotCreated(is) ==
  CASE is \in {"addressbook", "calendar"} -> {"isDefault"}
    [] is = "sievescript" -> {"isActive"}
    [] is \in Nodes -> {"created", "modified", "isSubscribed"}
    [] OTHER -> {}

(* Seeded bug: the media type of a resource is not told. *)
DataUriPlain(is, b) ==
  [at |-> b.at, as |-> IF is = "contactcard" THEN "uri" ELSE "href", content |-> Bytes[b.blob],
   media |-> "octet-stream"]

DataUri(is, b) ==
  [at |-> b.at, as |-> IF is = "contactcard" THEN "uri" ELSE "href", content |-> Bytes[b.blob],
   media |-> IF b.media = "none" THEN "octet-stream" ELSE b.media]
Uploaded(b) == [at |-> b.at, as |-> "blobId", content |-> Bytes[b.blob], media |-> b.media]
Inlined(is, b) ==
  IF b.at = "patch" THEN [at |-> b.at, as |-> "blobId", content |-> b.blob, media |-> b.media]
  ELSE IF is \in WithJson THEN DataUri(is, b) ELSE Uploaded(b)

(* A home or a parent that was not created on the target stops the object. *)
CreateObject(o) ==
  LET r == row[o] IN
  /\ HasRow(o) /\ o \in fresh /\ sent[o] = NoObject
  /\ LET columns == Columns(r.is).read IN
     /\ columns # {}
     /\ r.homes \union {r.parent} \subseteq {LocalId[h] : h \in way.made} \union {"none"}
     /\ sent' = [sent EXCEPT ![o] =
          [is |-> r.is,
           props |-> [f \in Reached(r.is, columns) \ NotCreated(r.is) |-> Serialized(r.is, f, r.props[f])],
           homes |-> {TargetId[h] : h \in r.homes}, parent |-> TargetId[r.parent],
           blobs |-> {Inlined(r.is, b) : b \in r.blobs}]]
  /\ UNCHANGED <<way, wire, row, fresh>>

ObjectsNext ==
  \/ ServerChangesObject
  \/ \E o \in Objects : InsertOne(o) \/ UpdateOne(o) \/ ClearVacation(o)
  \/ CreateObject("p")

-----------------------------------------------------------------------------
ObjectsTypeOK ==
  way # NoObject =>
    /\ DOMAIN wire = Objects /\ DOMAIN row = Objects /\ fresh \subseteq Objects
    /\ \A o \in Objects : HasRow(o) => row[o].is \in DOMAIN Fields /\ row[o].homes \subseteq {"1", "2"}

(* What a property means: one that is missing has its default.             *)
Says(is, f, props) ==
  LET v == IF f \in DOMAIN props THEN props[f] ELSE "missing"
      d == IF v \in {"missing", "null"} THEN Fields[is][f][v] ELSE v
  IN IF f = "color" THEN NormalizeColor(d) ELSE d

(* An object in the archive, and one on the other account, says what the   *)
(* one on the first account says, but for what passed to another object,   *)
(* dates that cannot be read, and what JMAP derives.                       *)
Excepted(o, f) ==
  \/ f \in DropKeys \union {way.changed}
  \/ f = "receivedAt" /\ wire[o].props[f] \in {"missing", "null", "unreadable"}
SameProps(o, other, fields) ==
  \A f \in fields : Excepted(o, f) \/ Says(wire[o].is, f, other.props) = Says(wire[o].is, f, wire[o].props)

RowsSay ==
  \A o \in fresh : HasRow(o) =>
    /\ row[o].is = wire[o].is /\ SameProps(o, row[o], DOMAIN wire[o].props)
    /\ row[o].homes = {LocalId[h] : h \in wire[o].homes}
    /\ row[o].parent = OptParent(wire[o].parent)

(* Its blobs arrive with it, each where it was and as what it was, but for *)
(* those a patch sets.                                                     *)
Said(b) == [at |-> b.at, content |-> Content[b.blob],
            media |-> IF b.media = "none" /\ way.is \in WithJson THEN "octet-stream" ELSE b.media]
Arrived(b) == [at |-> b.at, content |-> b.content, media |-> b.media]
BlobsArrive(w, s) ==
  {Said(b) : b \in References(w)} = {Arrived(b) : b \in {b \in s.blobs : b.at # "patch"}}

SentSays ==
  \A o \in Objects : sent[o] # NoObject =>
    LET w == wire[o]  s == sent[o] IN
    /\ s.is = w.is /\ SameProps(o, s, DOMAIN w.props \ NotCreated(w.is))
    /\ s.homes = {TargetId[LocalId[h]] : h \in w.homes}
    /\ w.parent \in way.archived => s.parent = TargetId[LocalId[w.parent]]
    /\ BlobsArrive(w, s)

(* One default and one mailbox of each role, as JMAP has it.               *)
OneOfEach ==
  \A f \in {"isDefault", "role"} :
    ~\E o, r \in Objects : /\ o # r /\ HasRow(o) /\ HasRow(r) /\ row[o].is # "directory"
                           /\ f \in DOMAIN row[o].props /\ row[o].props[f] = row[r].props[f]
                           /\ row[o].props[f] \notin {"no", "null"}

ObjectsKept == way # NoObject => RowsSay /\ SentSays /\ OneOfEach
=============================================================================
