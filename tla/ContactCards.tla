---------------------------- MODULE ContactCards ----------------------------
(***************************************************************************)
(* What becomes of a contact of Exchange in the archive, read over EWS     *)
(* (src/src/exchange_ews/contact_map.rs) or over Graph                     *)
(* (src/src/exchange_graph/contact_map.rs).                                *)
(*                                                                         *)
(* A contact has lists, in which an entry may be blank, and members that   *)
(* may be missing; at Graph it has one mobile number at most, and one      *)
(* address of each kind.  A card has maps, whose keys the conversion makes *)
(* up by counting, and members that point at others: a title at an         *)
(* organization, a reading at the part of the name that it is of.  What    *)
(* the contact says and what the card says, read as JSContact reads it,    *)
(* are compared.  The members that are copied one by one (nickname, notes, *)
(* link, keywords, times of change, the members of a group) are left out.  *)
(***************************************************************************)
EXTENDS Naturals, Sequences, TLC

CONSTANT Contacts   (* the contacts the server may hold *)

VARIABLES
  contact,   (* one of them                         *)
  card       (* what was stored for it, or NoCard   *)

contactVars == <<contact, card>>

NoCard == [is |-> "nothing"]
NoContacts == contact = NoCard /\ card = NoCard

(* What is missing, or empty.                                              *)
Blank == "blank"
Filled(v) == {v} \ {Blank}
Counted(list) == SelectSeq(list, LAMBDA e : e.value # Blank)
Slots == <<"title", "given", "given2", "surname", "generation">>

-----------------------------------------------------------------------------
(* What both conversions do.                                               *)

Context(of) == CASE of = "business" -> {"work"} [] of = "home" -> {"private"} [] OTHER -> {}

(* The kinds of the parts of the name, in their order.                     *)
Named(c) == SelectSeq(Slots, LAMBDA k : c.names[k] # Blank)
Components(c) == [i \in DOMAIN Named(c) |-> [kind |-> Named(c)[i], value |-> c.names[Named(c)[i]]]]

Units(c) == Filled(c.department) \union Filled(c.office)
HasOrg(c) == c.company # Blank \/ Units(c) # {}
FirstOrg(c) == IF HasOrg(c) THEN 1 :> [name |-> c.company, units |-> Units(c)] ELSE <<>>

-----------------------------------------------------------------------------
(* EWS.                                                                    *)

(* phone_contexts, phone_features: by the key of the entry                 *)
PhoneContexts(e) == IF e.device = "mobile" THEN {"private"} ELSE Context(e.of)
EwsPhones(c) ==
  LET listed == Counted(c.phones)
  IN [k \in DOMAIN listed |->
        [number |-> listed[k].value, contexts |-> PhoneContexts(listed[k]), features |-> {listed[k].device}]]

(* The company is the first organization, however often it is listed.      *)
EwsOrganizations(c) ==
  LET others == SelectSeq(c.companies, LAMBDA o : o # c.company)
  IN FirstOrg(c) @@ [k \in 2..(Len(others) + 1) |-> [name |-> others[k - 1], units |-> {}]]

(* address_to_jscontact: the street is a part like the others              *)
EwsAddresses(c) ==
  [k \in DOMAIN c.addresses |->
     [full |-> Blank, parts |-> c.addresses[k].parts, contexts |-> Context(c.addresses[k].of),
      preferred |-> c.addresses[k].of = c.preferred]]

(* partial_date: a date in full, or none                                   *)
EwsDate(d) == IF Len(d) = 3 THEN d ELSE <<>>
EwsDays(c) == [k \in {x \in DOMAIN c.days : EwsDate(c.days[x]) # <<>>} |-> EwsDate(c.days[k])]

(* to_jscontact: without a name to show there is no name                   *)
EwsCard(c) ==
  [is |-> "card", full |-> c.full,
   components |-> IF c.full = Blank THEN <<>> ELSE Components(c),
   organizations |-> EwsOrganizations(c),
   titles |-> {[name |-> t, at |-> {}] : t \in Filled(c.job)},
   emails |-> Counted(c.emails), phones |-> EwsPhones(c), services |-> Counted(c.services),
   addresses |-> EwsAddresses(c), days |-> EwsDays(c),
   localizations |-> <<>>]

-----------------------------------------------------------------------------
(* Graph.                                                                  *)

(* Seeded bug: each list of numbers counts from one.                       *)
PushFirst(map, list) == list @@ map

(* push_phones, push_address: the next key is one more than there are      *)
Push(map, list) ==
  LET n == Len(map) IN [k \in (n + 1)..(n + Len(list)) |-> list[k - n]] @@ map

(* The numbers at work, at home, and that of the mobile.                   *)
GraphPhones(c) ==
  LET These(of, features) ==
        LET listed == SelectSeq(Counted(c.phones), LAMBDA e : e.of = of)
        IN [i \in DOMAIN listed |->
              [number |-> listed[i].value, contexts |-> Context(of), features |-> features]]
  IN Push(Push(These("business", {}), These("home", {})), These("none", {"mobile", "voice"}))

(* push_address: the street is the address in full; what says nothing is   *)
(* left out                                                                *)
GraphAddresses(c) ==
  LET These(of) ==
        LET listed == SelectSeq(c.addresses, LAMBDA a : a.of = of /\ a.parts # {})
            Street(p) == p.kind = "street"
        IN [i \in DOMAIN listed |->
              [full |-> IF \E p \in listed[i].parts : Street(p)
                        THEN (CHOOSE p \in listed[i].parts : Street(p)).value ELSE Blank,
               parts |-> {p \in listed[i].parts : ~Street(p)},
               contexts |-> Context(of), preferred |-> FALSE]]
  IN Push(Push(These("home"), These("business")), These("none"))

(* An email keeps the place it has in the list.                            *)
GraphEmails(c) == [k \in {i \in DOMAIN c.emails : c.emails[i].value # Blank} |-> c.emails[k]]

(* parse_partial_date: as much of it as is a date                          *)
GraphDate(d) ==
  LET months == Len(d) > 1 /\ d[2] \in 1..12
      days == months /\ Len(d) > 2 /\ d[3] \in 1..31
  IN <<d[1]>> \o (IF months THEN <<d[2]>> ELSE <<>>) \o (IF days THEN <<d[3]>> ELSE <<>>)
GraphDays(c) == [k \in {x \in {"birth"} : c.days[x] # <<>>} |-> GraphDate(c.days[k])]

(* A title is one at the organization, if there is one.                    *)
GraphTitles(c) == {[name |-> t, at |-> DOMAIN FirstOrg(c)] : t \in Filled(c.job)}

(* Readings: of the company if there is an organization, and of the parts  *)
(* of the name that there are.                                             *)
Localizations(c) ==
  LET of == {i \in DOMAIN Named(c) : Named(c)[i] \in {"given", "surname"} /\ c.readings[Named(c)[i]] # Blank}
      company == {1 : r \in IF HasOrg(c) THEN Filled(c.readings.company) ELSE {}}
  IN [p \in ({"name"} \X of) \union ({"organizations"} \X company) |->
        IF p[1] = "name" THEN c.readings[Named(c)[p[2]]] ELSE c.readings.company]

(* convert_contact                                                         *)
GraphCard(c) ==
  [is |-> "card", full |-> c.full, components |-> Components(c),
   organizations |-> FirstOrg(c), titles |-> GraphTitles(c),
   emails |-> GraphEmails(c), phones |-> GraphPhones(c), services |-> Counted(c.services),
   addresses |-> GraphAddresses(c), days |-> GraphDays(c),
   localizations |-> Localizations(c)]

-----------------------------------------------------------------------------
ContactsInit == contact \in Contacts /\ card = NoCard

(* insert_contact                                                          *)
ConvertContact ==
  /\ card = NoCard
  /\ card' = IF contact.source = "ews" THEN EwsCard(contact) ELSE GraphCard(contact)
  /\ UNCHANGED contact

ContactsNext == ConvertContact

-----------------------------------------------------------------------------
(* What a contact says.  A number or an address is one of those at work,   *)
(* at home or neither, and a number is that of some device.                *)

EntriesOf(f) == {f[k] : k \in DOMAIN f}
Present(f) == {k \in DOMAIN f : f[k] # Blank}

ContactSays(c) ==
  [full |-> c.full,
   names |-> {<<k, c.names[k]>> : k \in Present(c.names)},
   readings |-> {<<c.names[k], c.readings[k]>> : k \in Present(c.names) \intersect Present(c.readings)}
                  \union {<<c.company, r>> : r \in IF HasOrg(c) THEN Filled(c.readings.company) ELSE {}},
   organizations |-> Filled(c.company) \union EntriesOf(c.companies),
   units |-> Units(c),
   titles |-> {<<t, IF c.source = "graph" THEN Filled(c.company) ELSE {}>> : t \in Filled(c.job)},
   emails |-> {e.value : e \in EntriesOf(c.emails)} \ {Blank},
   services |-> {e.value : e \in EntriesOf(c.services)} \ {Blank},
   phones |-> {e \in EntriesOf(c.phones) : e.value # Blank},
   addresses |-> {<<a.of, a.parts, a.of = c.preferred>> : a \in {x \in EntriesOf(c.addresses) : x.parts # {}}},
   days |-> {<<k, c.days[k]>> : k \in {x \in DOMAIN c.days : c.days[x] # <<>>}}]

(* What a card says.                                                       *)
Whose(contexts) == CASE contexts = {"work"} -> "business" [] contexts = {"private"} -> "home" [] OTHER -> "none"
Device(features) == CASE features = {} -> "voice" [] "mobile" \in features -> "mobile"
                      [] OTHER -> CHOOSE f \in features : TRUE
PhoneOf(p) ==
  [of |-> IF "mobile" \in p.features THEN "none" ELSE Whose(p.contexts),
   device |-> Device(p.features), value |-> p.number]
PartsOf(a) == a.parts \union {[kind |-> "street", value |-> v] : v \in Filled(a.full)}

CardSays(k) ==
  [full |-> k.full,
   names |-> {<<n.kind, n.value>> : n \in EntriesOf(k.components)},
   readings |-> {<<IF p[1] = "name" THEN k.components[p[2]].value ELSE k.organizations[p[2]].name,
                   k.localizations[p]>> : p \in DOMAIN k.localizations},
   organizations |-> UNION {Filled(o.name) : o \in EntriesOf(k.organizations)},
   units |-> UNION {o.units : o \in EntriesOf(k.organizations)},
   titles |-> {<<t.name, UNION {Filled(k.organizations[o].name) : o \in t.at}>> : t \in k.titles},
   emails |-> {e.value : e \in EntriesOf(k.emails)},
   services |-> {e.value : e \in EntriesOf(k.services)},
   phones |-> {PhoneOf(p) : p \in EntriesOf(k.phones)},
   addresses |-> {<<Whose(a.contexts), PartsOf(a), a.preferred>> :
                  a \in {x \in EntriesOf(k.addresses) : PartsOf(x) # {}}},
   days |-> {<<d, k.days[d]>> : d \in DOMAIN k.days}]

(* Over EWS, a contact that has no name to show loses the parts of it.     *)
Whole(c) == c.source = "graph" \/ c.full # Blank \/ Named(c) = <<>>

(* A card says what the contact says, all of it and nothing else: no entry *)
(* of a map is written over another, and what points at a member of the    *)
(* card points at the one it is about.                                     *)
ContactsKept == card # NoCard /\ Whole(contact) => CardSays(card) = ContactSays(contact)

ContactsTypeOK ==
  /\ contact = NoCard \/ contact.source \in {"ews", "graph"}
  /\ card = NoCard \/ card.is = "card"
=============================================================================
