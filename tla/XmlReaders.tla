----------------------------- MODULE XmlReaders -----------------------------
(***************************************************************************)
(* The readers of what Exchange and DAV servers answer                     *)
(* (src/src/exchange_ews/parse.rs, src/src/dav/parse.rs).                  *)
(*                                                                         *)
(* None of them builds a tree.  They go through the events of the document *)
(* and remember in flags, counters or the routine they are in where they   *)
(* are: "in_mailbox", "recurrence_path", "capture_depth".  The same name   *)
(* means another thing in another place, so that a flag that is left up or *)
(* a level too few sends a value to the wrong field.  A document is made   *)
(* here element by element, in any order, and read at the same time.       *)
(*                                                                         *)
(* The flags are named for the elements that raise them, and stand for the *)
(* object being built as well (current_attendee is the flag "Attendee");   *)
(* fields that are read alike are one.  Names are in the namespace they    *)
(* should be in.                                                           *)
(***************************************************************************)
EXTENDS Integers, SequencesExt

CONSTANT Documents   (* the kinds of documents, keys of Root                 *)

VARIABLES
  doc,      (* the kind of document                                        *)
  path,     (* the elements that are open, from the root                   *)
  reader,   (* the routines that were called, each with its depth, the     *)
            (* flags, the field that is read, and whose text it has so far *)
  value,    (* history: the element that ended last, where its value went, *)
            (* and whose text that was                                     *)
  hollow    (* history: an empty element raised a flag or called a routine *)

xmlVars == <<doc, path, reader, value, hollow>>

-----------------------------------------------------------------------------
(* The documents. *)

Root ==
  [calendar |-> "CalendarItem", contact |-> "Contact", message |-> "Message",
   folders |-> "Folders", response |-> "ResponseMessages", envelope |-> "Envelope",
   found |-> "RootFolder", changes |-> "SyncMessage", attachments |-> "Attachments",
   multistatus |-> "multistatus"]

ASSUME DocumentsAssumption == Documents \subseteq DOMAIN Root

Inside ==
  "CalendarItem" :> {"Subject", "Start", "ItemId", "Recurrence", "ModifiedOccurrences",
                     "DeletedOccurrences", "Organizer", "RequiredAttendees",
                     "OptionalAttendees", "Categories", "Attachments"}
  @@ "ModifiedOccurrences" :> {"Occurrence"} @@ "Occurrence" :> {"ItemId", "Start", "End"}
  @@ "DeletedOccurrences" :> {"DeletedOccurrence"} @@ "DeletedOccurrence" :> {"Start"}
  @@ "Recurrence" :> {"WeeklyRecurrence", "NumberedRecurrence"}
  @@ "WeeklyRecurrence" :> {"Interval", "FirstDayOfWeek"}
  @@ "NumberedRecurrence" :> {"StartDate"}
  @@ "Organizer" :> {"Mailbox"} @@ "RequiredAttendees" :> {"Attendee"}
  @@ "OptionalAttendees" :> {"Attendee"} @@ "Attendee" :> {"Mailbox", "ResponseType"}
  @@ "Mailbox" :> {"Name"} @@ "Categories" :> {"String"}
  @@ "Attachments" :> {"FileAttachment"}
  @@ "FileAttachment" :> {"AttachmentId", "Name", "ContentType", "Size"}
  @@ "Contact" :> {"DisplayName", "ItemId", "Categories", "Children", "Companies",
                   "EmailAddresses", "PhysicalAddresses", "Members", "Attachments", "Culture"}
  @@ "Children" :> {"String"} @@ "Companies" :> {"String"}
  @@ "EmailAddresses" :> {"Entry"} @@ "PhysicalAddresses" :> {"Entry"}
  @@ "Members" :> {"Member"} @@ "Member" :> {"Mailbox"}
  @@ "Message" :> {"Subject", "ItemId", "Categories", "Flag"}
  @@ "Flag" :> {"FlagStatus", "DueDate"}
  @@ "Folders" :> {"Folder"} @@ "Folder" :> {"FolderId", "DisplayName", "EffectiveRights"}
  @@ "EffectiveRights" :> {"Read"}
  @@ "ResponseMessages" :> {"ResponseMessage"}
  @@ "ResponseMessage" :> {"MessageText", "ResponseCode", "MessageXml", "Items"}
  @@ "MessageXml" :> {"Value"} @@ "Items" :> {"Message"}
  @@ "Envelope" :> {"Body"} @@ "Body" :> {"Fault"}
  @@ "Fault" :> {"faultstring", "detail"} @@ "detail" :> {"ResponseCode", "MessageXml"}
  @@ "RootFolder" :> {"Items"} @@ "SyncMessage" :> {"SyncState", "Changes"}
  @@ "Changes" :> {"Create", "Delete", "ReadFlagChange"} @@ "Create" :> {"Message"}
  @@ "Delete" :> {"ItemId"} @@ "ReadFlagChange" :> {"IsRead", "ItemId"}
  @@ "multistatus" :> {"response"}
  @@ "response" :> {"href", "status", "propstat", "error", "location"}
  @@ "propstat" :> {"status", "prop", "error"} @@ "error" :> {"href"} @@ "location" :> {"href"}
  @@ "prop" :> {"displayname", "current-user-principal", "resourcetype", "owner"}
  @@ "current-user-principal" :> {"href"} @@ "owner" :> {"href"}
  @@ "resourcetype" :> {"collection"} @@ "collection" :> {"displayname"}

NothingTaken == [path |-> <<>>, to |-> {}, of |-> {}]

Within(p) ==
  IF p = <<>> THEN IF value = NothingTaken THEN {Root[doc]} ELSE {}
  ELSE IF Last(p) = "Message" /\ doc \in {"found", "changes"} THEN {"ItemId"}
  ELSE IF Last(p) = "Entry"
    THEN IF p[Len(p) - 1] = "PhysicalAddresses" THEN {"Street"} ELSE {}
  ELSE IF Last(p) \in DOMAIN Inside THEN Inside[Last(p)] ELSE {}

(* What has attributes and nothing in it.                                  *)
Attributed == {"ItemId", "AttachmentId", "FolderId"}

(* What should be read, and as what: the field and the object it is of.    *)
Wanted ==
  {<<"CalendarItem", "Subject">>, <<"CalendarItem", "Start">>, <<"CalendarItem", "ItemId">>,
   <<"ModifiedOccurrences", "Occurrence">>, <<"Occurrence", "Start">>, <<"Occurrence", "End">>,
   <<"Occurrence", "ItemId">>, <<"DeletedOccurrences", "DeletedOccurrence">>,
   <<"DeletedOccurrence", "Start">>, <<"Recurrence", "Interval">>, <<"Recurrence", "StartDate">>,
   <<"Organizer", "Name">>, <<"RequiredAttendees", "Attendee">>,
   <<"OptionalAttendees", "Attendee">>, <<"Attendee", "Name">>, <<"Attendee", "ResponseType">>,
   <<"Categories", "String">>, <<"Children", "String">>, <<"Companies", "String">>,
   <<"FileAttachment", "AttachmentId">>, <<"FileAttachment", "Name">>,
   <<"FileAttachment", "ContentType">>, <<"Contact", "DisplayName">>, <<"Contact", "ItemId">>,
   <<"EmailAddresses", "Entry">>, <<"PhysicalAddresses", "Entry">>, <<"Entry", "Street">>,
   <<"Members", "Member">>, <<"Member", "Name">>, <<"Message", "Subject">>,
   <<"Message", "ItemId">>, <<"Flag", "FlagStatus">>, <<"Folder", "FolderId">>,
   <<"Folder", "DisplayName">>, <<"ResponseMessage", "MessageText">>,
   <<"ResponseMessage", "ResponseCode">>, <<"Fault", "faultstring">>,
   <<"Fault", "ResponseCode">>, <<"Fault", "Value">>, <<"SyncMessage", "SyncState">>,
   <<"Create", "ItemId">>, <<"Delete", "ItemId">>, <<"ReadFlagChange", "ItemId">>,
   <<"ReadFlagChange", "IsRead">>, <<"response", "href">>, <<"response", "status">>,
   <<"propstat", "status">>, <<"propstat", "displayname">>,
   <<"current-user-principal", "href">>, <<"resourcetype", "collection">>}

Between == {"Mailbox", "WeeklyRecurrence", "NumberedRecurrence", "detail", "MessageXml",
            "prop"}

(* The value of this element should go there.                              *)
Meant(p) ==
  LET between == IF doc = "changes" THEN Between \union {"Message"} ELSE Between
      owners == SelectSeq(Front(p), LAMBDA e : e \notin between)
      field == <<IF owners = <<>> THEN "none" ELSE Last(owners), Last(p)>>
  IN IF doc = "response" /\ Contains(Front(p), "Items") THEN {<<"Items", Last(p)>>}
     ELSE {field} \intersect Wanted

-----------------------------------------------------------------------------
(* The reader. *)

NoField == <<>>
CallOf(fn) == [fn |-> fn, depth |-> 1]
NewReader == [calls |-> <<CallOf(doc)>>, flags |-> {}, field |-> NoField, text |-> {}]
Routine == Last(reader.calls).fn
Up(name) == name \in reader.flags

Into(rd, fn) == [rd EXCEPT !.calls = Append(@, CallOf(fn))]
Deeper(rd, by) == [rd EXCEPT !.calls[Len(rd.calls)].depth = @ + by]
Back(rd) ==
  IF Last(rd.calls).depth = 1 THEN [rd EXCEPT !.calls = Front(@)] ELSE Deeper(rd, -1)

(* attendee_kind, entry_container and current_change hold one at a time.   *)
Rivals(name) ==
  UNION {g \in {{"RequiredAttendees", "OptionalAttendees"},
                {"EmailAddresses", "PhysicalAddresses"},
                {"Create", "Delete", "ReadFlagChange"}} : name \in g} \union {name}

Raised(name) ==
  CASE Routine = "calendar" ->
         \/ name \in {"ModifiedOccurrences", "DeletedOccurrences", "Occurrence",
                      "DeletedOccurrence", "Organizer", "RequiredAttendees",
                      "OptionalAttendees", "Mailbox", "Categories"}
         \/ name = "Attendee" /\ (Up("RequiredAttendees") \/ Up("OptionalAttendees"))
    [] Routine = "contact" ->
         \/ name \in {"Categories", "Children", "Companies", "EmailAddresses",
                      "PhysicalAddresses", "Members"}
         \/ name \in {"Member", "Mailbox"} /\ Up("Members")
         \/ name = "Entry" /\ Up("PhysicalAddresses")
    [] Routine = "message" -> name \in {"Categories", "Flag"}
    [] Routine = "found" -> name = "RootFolder" \/ (name = "Message" /\ Up("RootFolder"))
    [] Routine = "changes" ->
         name = "Changes" \/ (name \in {"Create", "Delete", "ReadFlagChange"} /\ Up("Changes"))
    [] Routine = "attachments" -> name = "FileAttachment"
    [] OTHER -> FALSE

(* Seeded bug: the flag of the organizer stays up. *)
LoweredKept(name) ==
  reader.flags \ (IF name = "Organizer" THEN {}
                  ELSE IF Routine = "found" THEN {name} \ {"Message"} ELSE Rivals(name))
(* At the end of an element.  The last item found stays the last.          *)
Lowered(name) ==
  reader.flags \ (IF Routine = "found" THEN {name} \ {"Message"} ELSE Rivals(name))

(* Fields that need no flag, by routine.                                   *)
Unguarded ==
  [calendar |-> {<<"CalendarItem", "Subject">>}, contact |-> {<<"Contact", "DisplayName">>},
   message |-> {<<"Message", "Subject">>}, changes |-> {<<"SyncMessage", "SyncState">>},
   attachment |-> {<<"FileAttachment", "Name">>, <<"FileAttachment", "ContentType">>},
   folder |-> {<<"Folder", "DisplayName">>},
   recurrence |-> {<<"Recurrence", "Interval">>, <<"Recurrence", "StartDate">>},
   message_of |-> {<<"ResponseMessage", "MessageText">>, <<"ResponseMessage", "ResponseCode">>},
   fault |-> {<<"Fault", "faultstring">>, <<"Fault", "ResponseCode">>, <<"Fault", "Value">>}]

(* Who a <Name>, a <String>, an <Entry> or a <Start> is of.                *)
InOccurrence == Up("ModifiedOccurrences") \/ Up("DeletedOccurrences")
OfWhom(name) ==
  CASE Routine = "calendar" /\ name \in {"Start", "End"} ->
         IF InOccurrence THEN "occurrence" ELSE "CalendarItem"
    [] Routine = "calendar" /\ name = "Name" /\ Up("Mailbox") ->
         IF Up("Organizer") THEN "Organizer" ELSE "Attendee"
    [] Routine = "calendar" /\ name = "ResponseType" /\ Up("Attendee") -> "Attendee"
    [] Routine = "contact" /\ name = "Name" /\ Up("Mailbox") -> "Member"
    [] Routine \in {"calendar", "contact", "message"} /\ name = "String" ->
         IF Up("Categories") THEN "Categories"
         ELSE IF Up("Children") THEN "Children"
         ELSE IF Up("Companies") THEN "Companies" ELSE "none"
    [] Routine = "contact" /\ name = "Entry" /\ ~Up("PhysicalAddresses") ->
         IF Up("EmailAddresses") THEN "EmailAddresses" ELSE "none"
    [] Routine = "contact" /\ name = "Street" /\ Up("Entry") -> "Entry"
    [] Routine = "message" /\ name = "FlagStatus" /\ Up("Flag") -> "Flag"
    [] Routine = "changes" /\ name = "IsRead" /\ Up("Changes") -> "ReadFlagChange"
    [] Routine = "attachments" /\ name \in {"Name", "ContentType"} /\ Up("FileAttachment") ->
         "FileAttachment"
    [] OTHER -> "none"

Field(name) ==
  IF Routine \in DOMAIN Unguarded /\ \E f \in Unguarded[Routine] : f[2] = name
    THEN CHOOSE f \in Unguarded[Routine] : f[2] = name
  ELSE IF OfWhom(name) # "none" THEN <<OfWhom(name), name>>
  ELSE IF Raised(name) THEN reader.field ELSE NoField

(* The id of an item goes to the occurrence that is read, if any.          *)
AttributeOf(name) ==
  LET whom ==
        CASE Routine = "calendar" /\ name = "ItemId" ->
               IF Up("ModifiedOccurrences") THEN {"Occurrence"} \intersect reader.flags
               ELSE IF Up("DeletedOccurrences") THEN {"DeletedOccurrence"} \intersect reader.flags
               ELSE {"CalendarItem"}
          [] Routine = "contact" /\ name = "ItemId" -> {"Contact"}
          [] Routine = "message" /\ name = "ItemId" -> {"Message"}
          [] Routine = "found" /\ name = "ItemId" /\ Up("RootFolder") ->
               {"Message"} \intersect reader.flags
          [] Routine = "changes" /\ name = "ItemId" /\ Up("Changes") ->
               {"Create", "Delete", "ReadFlagChange"} \intersect reader.flags
          [] Routine = "folder" /\ name = "FolderId" -> {"Folder"}
          [] Routine = "attachment" /\ name = "AttachmentId" -> {"FileAttachment"}
          [] Routine = "attachments" /\ name = "AttachmentId" ->
               {"FileAttachment"} \intersect reader.flags
          [] Routine = "capture" -> {"Items"}
          [] OTHER -> {}
  IN {<<w, name>> : w \in whom}

(* The value read goes to the objects that are being built.                *)
Filed ==
  IF reader.field = NoField THEN {}
  ELSE LET whom == reader.field[1] IN
    {<<w, reader.field[2]>> :
       w \in CASE whom = "occurrence" ->
                    (IF reader.field[2] = "Start" THEN {"Occurrence", "DeletedOccurrence"}
                                                  ELSE {"Occurrence"}) \intersect reader.flags
               [] whom \in {"Attendee", "Member"} -> {whom} \intersect reader.flags
               [] OTHER -> {whom}}

(* The object that ends is put in a list.                                  *)
Completed(name) ==
  IF ~Up(name) THEN {}
  ELSE CASE name = "Occurrence" -> {<<"ModifiedOccurrences", name>>}
         [] name = "DeletedOccurrence" -> {<<"DeletedOccurrences", name>>}
         [] name = "Attendee" ->
              {<<k, name>> : k \in {"RequiredAttendees", "OptionalAttendees"}
                                     \intersect reader.flags}
         [] name = "Entry" -> {<<"PhysicalAddresses", name>>}
         [] name = "Member" -> {<<"Members", name>>}
         [] OTHER -> {}

-----------------------------------------------------------------------------
(* The readers with flags, and the routines that count their depth.        *)

FlagReaders ==
  {"calendar", "contact", "message", "folders", "response", "envelope", "found", "changes",
   "attachments"}

(* The routine an element is handed to, called for <e/> as for <e>, or for *)
(* <e> alone.                                                              *)
Handed(name, empty) ==
  CASE Routine = "calendar" /\ name = "Recurrence" -> "recurrence"
    [] Routine = "calendar" /\ name = "FileAttachment" -> "attachment"
    [] Routine = "contact" /\ name = "FileAttachment" /\ ~Up("Entry") -> "attachment"
    [] Routine = "folders" /\ name = "Folder" -> "folder"
    [] Routine = "envelope" /\ name = "Fault" -> "fault"
    [] Routine = "response" /\ name = "ResponseMessage" /\ ~empty -> "message_of"
    [] Routine = "message_of" /\ name = "Items" /\ ~empty -> "capture"
    [] OTHER -> "none"

Start(name, empty) ==
  LET flags == IF Raised(name) THEN (reader.flags \ Rivals(name)) \union {name}
               ELSE reader.flags
      rd == [reader EXCEPT !.flags = flags, !.text = {},
                           !.field = IF empty THEN NoField ELSE Field(name)]
  IN IF Handed(name, empty) # "none" THEN Into(rd, Handed(name, empty))
     ELSE IF Routine \in FlagReaders \/ empty THEN rd ELSE Deeper(rd, 1)

(* What is captured is read again later, the end of <Items> is not.        *)
Captured(name) ==
  IF Routine = "capture" /\ Last(reader.calls).depth > 1 THEN {<<"Items", name>>} ELSE {}

End(name) ==
  LET rd == [reader EXCEPT !.field = NoField, !.text = {}]
  IN IF Routine \in FlagReaders THEN [rd EXCEPT !.flags = Lowered(name)] ELSE Back(rd)

-----------------------------------------------------------------------------
(* The readers of DAV: a routine for each level.                           *)

(* Seeded bug: a routine that skips an element ends with the first in it. *)
SkippedFlat(rd) == rd
Skipped(rd) == Deeper(rd, 1)

DavStart(name) ==
  LET read(whom) == [Into(reader, "text") EXCEPT !.field = <<whom, name>>, !.text = {}]
      skip == Into(reader, "skip")
  IN CASE Routine = "multistatus" ->
            IF name = "response" THEN Into([reader EXCEPT !.flags = {}], "response") ELSE reader
       [] Routine = "response" ->
            CASE name = "href" ->
                   IF Up("href") THEN [read("none") EXCEPT !.field = NoField]
                   ELSE [read("response") EXCEPT !.flags = @ \union {"href"}]
              [] name = "status" -> read("response")
              [] name = "propstat" -> Into(reader, "propstat")
              [] OTHER -> skip
       [] Routine = "propstat" ->
            CASE name = "status" -> read("propstat")
              [] name = "prop" -> Into(reader, "prop")
              [] OTHER -> skip
       [] Routine = "prop" ->
            CASE name = "displayname" -> read("propstat")
              [] name = "current-user-principal" ->
                   Into([reader EXCEPT !.flags = @ \ {"principal"}], "current-user-principal")
              [] name = "resourcetype" -> Into(reader, "resourcetype")
              [] OTHER -> skip
       [] Routine = "current-user-principal" ->
            IF name = "href" /\ ~Up("principal")
            THEN [read("current-user-principal") EXCEPT !.flags = @ \union {"principal"}]
            ELSE skip
       [] Routine = "skip" -> Skipped(reader)
       [] OTHER -> skip

DavEnd(name) ==
  CASE Routine = "text" -> [Back(reader) EXCEPT !.field = NoField, !.text = {}]
    [] Routine = "skip" -> Back(reader)
    [] Routine = name /\ name # "multistatus" -> Back(reader)
    [] OTHER -> reader

(* mark_resourcetype, for <collection/> as for <collection>.               *)
Marks(name) == Routine = "resourcetype" /\ name = "collection"

-----------------------------------------------------------------------------
Stores(name, to, of) == value' = [path |-> Append(path, name), to |-> to, of |-> of]

XmlStart == path = <<>> /\ value = NothingTaken /\ hollow = FALSE /\ reader = NewReader
XmlInit == doc \in Documents /\ XmlStart
NoXml == doc = "none" /\ XmlStart

Opens(name) ==
  /\ name \notin Attributed
  /\ path' = Append(path, name)
  /\ reader' = IF doc = "multistatus" THEN DavStart(name) ELSE Start(name, FALSE)
  /\ IF Marks(name) THEN Stores(name, {<<"resourcetype", name>>}, {Append(path, name)})
     ELSE UNCHANGED value
  /\ UNCHANGED <<doc, hollow>>

(* <name/>                                                                 *)
OpensEmpty(name) ==
  /\ path # <<>>
  /\ reader' = IF doc = "multistatus" THEN reader ELSE Start(name, TRUE)
  /\ IF name \in Attributed \/ Marks(name)
       THEN /\ Stores(name, IF Marks(name) THEN {<<"resourcetype", name>>} ELSE AttributeOf(name),
                     {Append(path, name)})
            /\ UNCHANGED hollow
       ELSE /\ hollow' = (reader'.flags # reader.flags \/ reader'.calls # reader.calls)
            /\ UNCHANGED value
  /\ UNCHANGED <<doc, path>>

(* Text, in pieces, and the white space between elements.                  *)
ReadsText ==
  /\ reader' = IF doc = "multistatus" /\ Routine # "text" THEN reader
               ELSE [reader EXCEPT !.text = @ \union {path}]
  /\ reader' # reader
  /\ UNCHANGED <<doc, path, value, hollow>>

Closes ==
  /\ path # <<>>
  /\ Within(path) = {} => Routine = "skip" \/ path \in reader.text
  /\ LET name == Last(path) IN
       /\ IF doc = "multistatus"
            THEN /\ value' = IF name = "collection" THEN value
                             ELSE [path |-> path, to |-> Filed, of |-> reader.text]
                 /\ reader' = DavEnd(name)
            ELSE /\ value' = [path |-> path, of |-> reader.text,
                              to |-> Filed \union Completed(name) \union Captured(name)]
                 /\ reader' = End(name)
  /\ path' = Front(path)
  /\ UNCHANGED <<doc, hollow>>

(* A document is followed up to such an element.                           *)
XmlNext ==
  /\ ~hollow
  /\ \/ \E name \in Within(path) : Opens(name) \/ OpensEmpty(name)
     \/ ReadsText \/ Closes

-----------------------------------------------------------------------------
(* The routines that are under way, and their depths.                      *)
XmlTypeOK ==
  /\ doc \in Documents \union {"none"}
  /\ reader.calls # <<>>
  /\ \A i \in DOMAIN reader.calls : reader.calls[i].depth \in 1..6
  /\ Len(path) <= 7 /\ hollow \in BOOLEAN

(* Every value is read into the field of the object it stands in, from the *)
(* text of its own element only, and none is left out: of a response with  *)
(* more hrefs than one, the first is read.  So it is up to an element that *)
(* should have others in it and comes empty: <Categories/> leaves its flag *)
(* up, and <Recurrence/> or <Folder/> take what follows for what is in it. *)
ReadFromPlace ==
  hollow \/ value = NothingTaken
    \/ /\ \/ value.to = Meant(value.path)
          \/ Last(value.path) = "href" /\ value.to = {}
       /\ value.to # {} /\ Within(value.path) = {} => value.of = {value.path}
=============================================================================
