----------------------------- MODULE EventRules -----------------------------
(***************************************************************************)
(* What becomes of the times of an Exchange event in the archive: its      *)
(* start, its rule and its overrides                                       *)
(* (src/src/exchange_ews/{recurrence,calendar_map}.rs and                  *)
(* src/src/exchange_graph/{recurrence,calendar_map}.rs).                   *)
(*                                                                         *)
(* An event on the server has a pattern and a range in its own time zone;  *)
(* the answers give its instants in UTC.  What is archived is read again   *)
(* as JSCalendar reads it, and the two sets of occurrences are compared.   *)
(* A day has four ticks; a year has the months of MonthDays, and day 0 is  *)
(* a Monday.  Of the members of an event those that tell when it is on are *)
(* here, with its title for the others; durations are left out.            *)
(***************************************************************************)
EXTENDS Integers, FiniteSets, Sequences, TLC

CONSTANTS
  MonthDays,   (* the lengths of the months of a year                      *)
  Years,       (* bound on the calendar                                    *)
  Summer,      (* the days on which the zones that do so are one tick on   *)
  Events       (* the events the server may hold                           *)

VARIABLES
  event,       (* one of them                                              *)
  archived     (* what was stored for it, or NotYet                        *)

eventVars == <<event, archived>>

NotYet == [kind |-> "not yet"]
None == <<>>
NoEvents == event = NotYet /\ archived = NotYet

(* The calendar. *)
MonthStart[m \in 1..Len(MonthDays)] == IF m = 1 THEN 0 ELSE MonthStart[m - 1] + MonthDays[m - 1]
YearDays == MonthStart[Len(MonthDays)] + MonthDays[Len(MonthDays)]
Horizon == 0..(Years * YearDays - 1)
Calendar == [d \in Horizon |->
  LET m == CHOOSE n \in 1..Len(MonthDays) :
             (d % YearDays) - MonthStart[n] \in 0..(MonthDays[n] - 1)
  IN [day |-> (d % YearDays) - MonthStart[m] + 1, month |-> m, year |-> d \div YearDays,
      months |-> Len(MonthDays) * (d \div YearDays) + m]]
MonthDates == [n \in {Calendar[d].months : d \in Horizon} |-> {d \in Horizon : Calendar[d].months = n}]
SameMonth(d) == MonthDates[Calendar[d].months]

WeekdayNames == <<"mo", "tu", "we", "th", "fr", "sa", "su">>
WeekdayOf(d) == WeekdayNames[(d % 7) + 1]
WeekOf(d, first) == (d - (CHOOSE i \in 0..6 : WeekdayNames[i + 1] = first)) \div 7

Before(S, d) == Cardinality({x \in S : x < d})
IsNth(S, d, n) ==
  d \in S /\ IF n = -1 THEN \A x \in S : x <= d ELSE Before(S, d) = n - 1

(* Local times and instants, in ticks.  No event begins in the tick after  *)
(* midnight, in which the clocks change.                                   *)
Utc == [base |-> 0, saves |-> FALSE]
Summery(local) == (local - 2) \div 4 \in Summer
Shift(zone, local) == zone.base + IF zone.saves /\ Summery(local) THEN 1 ELSE 0
Instant(zone, local) == local - Shift(zone, local)
Local(zone, instant) == instant + Shift(zone, instant + zone.base + 1)

-----------------------------------------------------------------------------
(* What Exchange means. *)

IsA(d, name) ==
  CASE name = "day" -> TRUE
    [] name = "weekday" -> d % 7 < 5
    [] name = "weekendday" -> d % 7 >= 5
    [] OTHER -> WeekdayOf(d) = name

Index(i) == CASE i = "first" -> 1 [] i = "second" -> 2 [] i = "third" -> 3
              [] i = "fourth" -> 4 [] i = "last" -> -1

Smaller(a, b) == IF a < b THEN a ELSE b

(* Whether a date fits the pattern.  A day the month does not have is its  *)
(* last.                                                                   *)
Fits(p, d) ==
  LET OnDate == Calendar[d].day = Smaller(p.day, MonthDays[Calendar[d].month])
      OnIndex == IsNth({x \in SameMonth(d) : \E n \in p.days : IsA(x, n)}, d, Index(p.index))
  IN CASE p.type = "daily" -> TRUE
       [] p.type = "weekly" -> \E n \in p.days : IsA(d, n)
       [] p.type = "absoluteMonthly" -> OnDate
       [] p.type = "relativeMonthly" -> OnIndex
       [] p.type = "absoluteYearly" -> Calendar[d].month = p.month /\ OnDate
       [] p.type = "relativeYearly" -> Calendar[d].month = p.month /\ OnIndex

PeriodOf(frequency, first, d) ==
  CASE frequency = "daily" -> d
    [] frequency = "weekly" -> WeekOf(d, first)
    [] frequency = "monthly" -> Calendar[d].months
    [] frequency = "yearly" -> Calendar[d].year

FrequencyFor(type) ==
  CASE type \in {"daily", "weekly"} -> type
    [] type \in {"absoluteMonthly", "relativeMonthly"} -> "monthly"
    [] OTHER -> "yearly"

InTurn(frequency, first, interval, start, d) ==
  (PeriodOf(frequency, first, d) - PeriodOf(frequency, first, start)) % interval = 0

Dates(e) ==
  LET p == e.pattern
      all == {d \in Horizon : d >= e.day /\ Fits(p, d)
                /\ InTurn(FrequencyFor(p.type), p.first, p.interval, e.day, d)}
  IN IF p = None THEN {e.day}
     ELSE CASE e.range.type = "noEnd" -> all
            [] e.range.type = "endDate" -> {d \in all : d <= e.range.end}
            [] e.range.type = "numbered" -> {d \in all : Before(all, d) < e.range.count}

(* When an event is on: an instant or, for all days, a date.               *)
At(e, local) == IF e.allDay THEN local ELSE Instant(e.zone, local)
Meetings(e) ==
  LET gone == e.cancelled \union {m.day : m \in e.moved}
  IN {[at |-> At(e, 4 * d + e.time), title |-> e.title] : d \in Dates(e) \ gone}
       \union {[at |-> At(e, m.to), title |-> m.title] : m \in e.moved}

(* The events that keep their meaning; the others are those for which the  *)
(* conversion is known to lose something: a day some month does not have,  *)
(* weeks that EWS counts from another day than Monday, whole days that     *)
(* begin on the day before in UTC, a zone whose name says nothing, and an  *)
(* occurrence whose own item could not be fetched.                         *)
Exact(e) ==
  /\ \A m \in 1..Len(MonthDays) : e.pattern # None => e.pattern.day <= MonthDays[m]
  /\ e.source = "ews" /\ e.pattern # None =>
       e.pattern.first = "mo" \/ e.pattern.type # "weekly" \/ e.pattern.interval = 1
  /\ e.source = "ews" /\ e.allDay => e.zone.base + (IF e.zone.saves THEN 1 ELSE 0) <= 0
  /\ e.named = "known" \/ e.zone = Utc \/ (e.source = "graph" /\ e.allDay)
  /\ \A m \in e.moved : m.fetched \/ m.title = e.title

-----------------------------------------------------------------------------
(* The rules. *)

Rule(frequency, interval) ==
  [frequency |-> frequency, interval |-> interval, byDay |-> {}, byMonthDay |-> {},
   byMonth |-> {}, position |-> 0, first |-> "mo"]

ExpandDay(name) ==
  CASE name = "day" -> {WeekdayNames[i] : i \in 1..7}
    [] name = "weekday" -> {WeekdayNames[i] : i \in 1..5}
    [] name = "weekendday" -> {WeekdayNames[i] : i \in 6..7}
    [] OTHER -> {name}
OnDays(days) == {[day |-> d, nth |-> 0] : d \in days}

(* insert_relative_by_day: a position in a set of days, or the nth of each *)
RelativeByDay(rule, names, index) ==
  LET days == UNION {ExpandDay(n) : n \in names}
  IN IF \E n \in names : Cardinality(ExpandDay(n)) > 1
     THEN [rule EXCEPT !.byDay = OnDays(days), !.position = Index(index)]
     ELSE [rule EXCEPT !.byDay = {[day |-> d, nth |-> Index(index)] : d \in days}]

(* to_jscalendar_rule: EWS has no interval for years                       *)
EwsRule(p) ==
  LET rule == Rule(FrequencyFor(p.type), p.interval)
      yearly == [Rule("yearly", 1) EXCEPT !.byMonth = {p.month}]
  IN CASE p.type = "daily" -> rule
       [] p.type = "weekly" -> [rule EXCEPT !.byDay = OnDays(UNION {ExpandDay(n) : n \in p.days})]
       [] p.type = "absoluteMonthly" -> [rule EXCEPT !.byMonthDay = {p.day}]
       [] p.type = "relativeMonthly" -> RelativeByDay(rule, p.days, p.index)
       [] p.type = "absoluteYearly" -> [yearly EXCEPT !.byMonthDay = {p.day}]
       [] p.type = "relativeYearly" -> RelativeByDay(yearly, p.days, p.index)

(* Graph lists the days one by one, and sends every member of a pattern,   *)
(* zero where it has no meaning.                                           *)
Listed(p) == UNION {{WeekdayOf(d) : d \in {x \in 0..6 : IsA(x, n)}} : n \in p.days}
NonZero(n) == {n} \ {0}

(* convert_patterned_recurrence_rule                                       *)
GraphRule(p) ==
  [Rule(FrequencyFor(p.type), p.interval) EXCEPT
     !.first = p.first, !.byDay = OnDays(Listed(p)),
     !.byMonthDay = NonZero(p.day), !.byMonth = NonZero(p.month),
     !.position = IF p.type \in {"relativeMonthly", "relativeYearly"} THEN Index(p.index) ELSE 0]

(* Seeded bug: the rule ends when its last day begins. *)
StartOfDay(d) == 4 * d

(* recurrence_until: the end of the last day, in local time                *)
EndOfDay(d) == 4 * d + 3
RangeFor(range) ==
  CASE range.type = "noEnd" -> [until |-> None, count |-> 0]
    [] range.type = "endDate" -> [until |-> <<EndOfDay(range.end)>>, count |-> 0]
    [] range.type = "numbered" -> [until |-> None, count |-> range.count]

-----------------------------------------------------------------------------
(* The event. *)

(* resolve_to_iana: None stands for no timeZone                            *)
EwsZone(e) == CASE e.named = "known" -> e.zone [] e.named = "unknown" -> Utc [] OTHER -> None
GraphZone(e) == IF e.named = "known" THEN e.zone ELSE Utc

(* to_local_datetime_in, utc_naive_to_local                                *)
LocalIn(zone, instant) == IF zone = None THEN instant ELSE Local(zone, instant)
DateOf(time) == 4 * (time \div 4)

(* build_event_map of an EWS item that starts at an instant                *)
EwsEvent(e, instant, title) ==
  LET zone == EwsZone(e) IN
  (IF e.allDay THEN [start |-> <<DateOf(instant)>>, showWithoutTime |-> <<TRUE>>]
   ELSE IF zone = None THEN [start |-> <<instant>>]
   ELSE [start |-> <<LocalIn(zone, instant)>>, timeZone |-> <<zone>>])
  @@ (IF title = "none" THEN <<>> ELSE [title |-> <<title>>])
  @@ [updated |-> <<instant>>]

(* convert_event: all days come as dates                                   *)
GraphEvent(e) ==
  LET local == 4 * e.day + e.time IN
  (IF e.allDay THEN [start |-> <<local>>, showWithoutTime |-> <<TRUE>>]
   ELSE [start |-> <<LocalIn(GraphZone(e), Instant(e.zone, local))>>, timeZone |-> <<GraphZone(e)>>])
  @@ (IF e.title = "none" THEN <<>> ELSE [title |-> <<e.title>>])

NotPatched == {"created", "updated"}

(* override_patch: None takes a member away                                *)
OverridePatch(occurrence, base, key) ==
  LET Inherited(k) == IF k = "start" THEN <<key>> ELSE IF k \in DOMAIN base THEN base[k] ELSE None
      changed == {k \in DOMAIN occurrence \ NotPatched : occurrence[k] # Inherited(k)}
      removed == DOMAIN base \ (DOMAIN occurrence \union NotPatched \union {"start"})
  IN [k \in changed \union removed |-> IF k \in changed THEN occurrence[k] ELSE None]

(* build_recurrence_overrides                                              *)
EwsOverrides(e, base) ==
  LET Key(d) == LocalIn(EwsZone(e), Instant(e.zone, 4 * d + e.time))
      PatchOf(m) ==
        IF m.fetched
        THEN OverridePatch(EwsEvent(e, Instant(e.zone, m.to), m.title), base, Key(m.day))
        ELSE [start |-> <<LocalIn(EwsZone(e), Instant(e.zone, m.to))>>]
  IN [k \in {Key(d) : d \in e.cancelled \union {m.day : m \in e.moved}} |->
        IF \E d \in e.cancelled : Key(d) = k THEN [excluded |-> <<TRUE>>]
        ELSE PatchOf(CHOOSE m \in e.moved : Key(m.day) = k)]

(* cancelled_occurrence_key: the date with the time of the start           *)
GraphOverrides(e, base) ==
  [k \in {4 * d + (base.start[1] % 4) : d \in e.cancelled} |-> [excluded |-> <<TRUE>>]]

Stored(e) ==
  LET base == IF e.source = "ews" THEN EwsEvent(e, Instant(e.zone, 4 * e.day + e.time), e.title)
              ELSE GraphEvent(e)
  IN [kind |-> "event", base |-> base,
      rule |-> IF e.pattern = None THEN None
               ELSE IF e.source = "ews" THEN <<EwsRule(e.pattern) @@ RangeFor(e.range)>>
               ELSE <<GraphRule(e.pattern) @@ RangeFor(e.range)>>,
      overrides |-> IF e.source = "ews" THEN EwsOverrides(e, base) ELSE GraphOverrides(e, base)]

(* A series begins with its first date. *)
FirstDate(e) ==
  IF e.pattern = None THEN e.day
  ELSE CHOOSE d \in Horizon : /\ d >= e.day /\ Fits(e.pattern, d)
                              /\ \A x \in e.day..(d - 1) : ~Fits(e.pattern, x)

EventInit ==
  /\ \E e \in Events : event = [e EXCEPT !.day = FirstDate(e)]
  /\ archived = NotYet

(* store_calendar_item and insert_event, as far as the event goes          *)
Convert ==
  /\ archived = NotYet
  /\ archived' = Stored(event)
  /\ UNCHANGED event

EventNext == Convert

-----------------------------------------------------------------------------
(* What JSCalendar means. *)

Admits(rule, start, d) ==
  /\ rule.byMonth # {} => Calendar[d].month \in rule.byMonth
  /\ rule.byMonthDay # {} => Calendar[d].day \in rule.byMonthDay
  /\ rule.byDay # {} => \E b \in rule.byDay :
       IF b.nth = 0 THEN WeekdayOf(d) = b.day
       ELSE IsNth({x \in SameMonth(d) : WeekdayOf(x) = b.day}, d, b.nth)
  /\ rule.byDay = {} /\ rule.frequency = "weekly" => WeekdayOf(d) = WeekdayOf(start)
  /\ rule.byDay = {} /\ rule.byMonthDay = {} /\ rule.frequency \in {"monthly", "yearly"} =>
       Calendar[d].day = Calendar[start].day

Recurs(rule, start, time) ==
  LET Turn(d) == PeriodOf(rule.frequency, rule.first, d)
      admitted == {d \in Horizon : Admits(rule, start, d)
                     /\ InTurn(rule.frequency, rule.first, rule.interval, start, d)}
      placed == IF rule.position = 0 THEN admitted
                ELSE {d \in admitted : IsNth({x \in admitted : Turn(x) = Turn(d)}, d, rule.position)}
      all == {d \in placed : d >= start}
  IN {d \in all : /\ rule.until # None => 4 * d + time <= rule.until[1]
                  /\ rule.count # 0 => Before(all, d) < rule.count}

(* What is on when, by what is archived.                                   *)
Occurrences(a) ==
  LET start == a.base.start[1]
      keys == IF a.rule = None THEN {start}
              ELSE {4 * d + (start % 4) : d \in Recurs(a.rule[1], start \div 4, start % 4)}
      InZone(local) == IF "timeZone" \in DOMAIN a.base THEN Instant(a.base.timeZone[1], local) ELSE local
      Titled(f) == IF "title" \in DOMAIN f /\ f.title # None THEN f.title[1] ELSE "none"
      Shown(f) == [at |-> InZone(f.start[1]), title |-> Titled(f)]
      Patches(k) == a.overrides[k]
  IN {Shown([start |-> <<k>>] @@ a.base) : k \in keys \ DOMAIN a.overrides}
       \union {Shown(Patches(k) @@ [start |-> <<k>>] @@ a.base) :
               k \in {x \in DOMAIN a.overrides : "excluded" \notin DOMAIN Patches(x)}}

(* An event is on in the archive when it is on the server, and under the   *)
(* same title: rule, range, zone and overrides, each converted on its own, *)
(* still fit together.                                                     *)
MeetingsKept == archived # NotYet /\ Exact(event) => Occurrences(archived) = Meetings(event)

EventTypeOK ==
  /\ event = NotYet \/ event.day \in Horizon
  /\ archived = NotYet \/ DOMAIN archived = {"kind", "base", "rule", "overrides"}
=============================================================================
