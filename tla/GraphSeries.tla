----------------------------- MODULE GraphSeries -----------------------------
(***************************************************************************)
(* The overrides of a recurring event imported from Exchange Online        *)
(* (apply_series_expansion and what it calls, in                           *)
(* src/src/sync/import_exchange_graph/calendar.rs and                      *)
(* src/src/exchange_graph/expand.rs).                                      *)
(*                                                                         *)
(* Graph reports no cancelled occurrence.  In every run the importer asks  *)
(* for the exceptions and the occurrences in a window before today and one *)
(* after it, expands the stored rule over the same windows, and stores an  *)
(* exclusion for each date that none of the answers has.                   *)
(*                                                                         *)
(* Dates are day numbers, of which those divisible by 7 are Sundays.  The  *)
(* monthly and yearly kinds of expected_dates are left out.                *)
(***************************************************************************)
EXTENDS Integers, FiniteSets, Sequences

CONSTANTS
  Series,      (* the rules, with the date of the first occurrence         *)
  Shifts,      (* the UTC date of an occurrence less its local date, by the *)
               (* time of day and the zone of the series: -1, 0 or 1       *)
  Span,        (* exception_window_years, in days                          *)
  LastDate,    (* bound on the dates                                       *)
  Days,        (* the dates on which a run can take place                  *)
  MaxChanges,  (* bound on the changes made to the series                  *)
  MaxFaults    (* bound on failed requests                                 *)

(* An instance: Mondays at 18:00 in Los Angeles, which is Tuesday in UTC,  *)
(* four times.                                                             *)
MCSeries ==
  {[kind |-> "weekly", interval |-> 1, days |-> {1}, first |-> 0, start |-> 15,
    count |-> 4, until |-> 99]}

VARIABLES series, shift, today, server, overrides, run, changes, faults
vars == <<series, shift, today, server, overrides, run, changes, faults>>

Dates == 0..LastDate
Idle == [pc |-> "idle"]

(* offset of a date from the first day of its week                         *)
WeekdayOffset(first, d) == (d - first) % 7
StartOfWeek(d) == d - WeekdayOffset(series.first, d)

(* The dates of the series (series.count = 0: no limit).                   *)
Takes(d) ==
  /\ d \in series.start..series.until
  /\ IF series.kind = "daily" THEN (d - series.start) % series.interval = 0
     ELSE /\ d % 7 \in series.days
          /\ ((StartOfWeek(d) - StartOfWeek(series.start)) \div 7) % series.interval = 0
Occurs(d) ==
  /\ Takes(d)
  /\ series.count = 0 \/ Cardinality({e \in 0..(d - 1) : Takes(e)}) < series.count

Init ==
  /\ series \in Series /\ shift \in Shifts /\ today \in Days
  /\ server = [cancelled |-> {}, exceptions |-> {}]
  /\ overrides = [excluded |-> {}, patched |-> {}]
  /\ run = Idle /\ changes = 0 /\ faults = 0

-----------------------------------------------------------------------------
(* The calendar. *)

Change(d) ==
  /\ changes < MaxChanges /\ changes' = changes + 1
  /\ Occurs(d) /\ d \notin server.cancelled
  /\ UNCHANGED <<series, shift, today, overrides, run, faults>>

CancelOccurrence(d) ==
  Change(d) /\ server' = [cancelled |-> server.cancelled \union {d},
                          exceptions |-> server.exceptions \ {d}]
ChangeOccurrence(d) ==
  Change(d) /\ server' = [server EXCEPT !.exceptions = @ \union {d}]

NextDay ==
  /\ run = Idle /\ today + 1 \in Days
  /\ today' = today + 1
  /\ UNCHANGED <<series, shift, server, overrides, run, changes, faults>>

-----------------------------------------------------------------------------
(* The run. *)

(* exception_windows: from the first date to the second                    *)
Windows == <<[from |-> today - Span, to |-> today], [from |-> today, to |-> today + Span]>>

(* calendarView: what starts in the window, in UTC                         *)
InView(d, w) == d + shift >= w.from /\ d + shift < w.to

SeriesStart ==
  /\ run = Idle
  /\ run' = [pc |-> "exceptions", window |-> 1, exceptions |-> {}, occurrences |-> {}]
  /\ UNCHANGED <<series, shift, today, server, overrides, changes, faults>>

Answered(r) ==
  IF r.window = 1 THEN [r EXCEPT !.window = 2]
  ELSE [r EXCEPT !.window = 1, !.pc = IF @ = "exceptions" THEN "occurrences" ELSE "apply"]

(* fetch_calendar_exceptions, with the originalStart of each               *)
Exceptions ==
  /\ run.pc = "exceptions"
  /\ run' = Answered([run EXCEPT
       !.exceptions = @ \union {d \in server.exceptions : InView(d, Windows[run.window])}])
  /\ UNCHANGED <<series, shift, today, server, overrides, changes, faults>>

(* local_date_of: originalStart has a zone and is converted; the start of  *)
(* an occurrence has none, and its UTC date is taken as it is.             *)
DateOfOccurrence(d) == d + shift

(* fetch_calendar_occurrences                                              *)
Occurrences ==
  /\ run.pc = "occurrences"
  /\ LET there == {d \in Dates : Occurs(d) /\ d \notin server.cancelled \union server.exceptions}
     IN run' = Answered([run EXCEPT !.occurrences = @ \union
          {DateOfOccurrence(d) : d \in {e \in there : InView(e, Windows[run.window])}}])
  /\ UNCHANGED <<series, shift, today, server, overrides, changes, faults>>

(* A request that fails is counted, and the run goes on.                   *)
RequestFails ==
  /\ run.pc \in {"exceptions", "occurrences"}
  /\ faults < MaxFaults /\ faults' = faults + 1
  /\ run' = Answered(run)
  /\ UNCHANGED <<series, shift, today, server, overrides, changes>>

(* expected_dates: step by step, and weekly series week by week.           *)
Cursor(k) ==
  IF series.kind = "daily" \/ k = 0 THEN series.start + k * series.interval
  ELSE StartOfWeek(series.start) + 7 * k * series.interval
Pushed(k) ==
  LET dates == IF series.kind = "daily" THEN {Cursor(k)}
               ELSE {StartOfWeek(Cursor(k)) + WeekdayOffset(series.first, day) : day \in series.days}
  IN {d \in dates : d \in series.start..series.until}
Last(w) ==
  LET Emitted(k) == Cardinality(UNION {Pushed(j) : j \in 0..k})
      Stops(k) == \/ series.count > 0 /\ Emitted(k) >= series.count
                  \/ Cursor(k + 1) > series.until
                  \/ Cursor(k + 1) > w.to
  IN CHOOSE k \in Dates : Stops(k) /\ \A j \in 0..(k - 1) : ~Stops(j)
ExpectedDates(w) == {d \in UNION {Pushed(k) : k \in 0..Last(w)} : d \in w.from..w.to}

(* cancelled_occurrence_keys                                               *)
Cancelled ==
  (ExpectedDates(Windows[1]) \union ExpectedDates(Windows[2]))
    \ (run.occurrences \union run.exceptions)

(* A patch replaces what the override was; an exclusion is stored where    *)
(* there is no override yet, and stays.                                    *)
ApplySeriesExpansion ==
  /\ run.pc = "apply"
  /\ LET patched == overrides.patched \union run.exceptions IN
     overrides' = [patched |-> patched, excluded |-> (overrides.excluded \union Cancelled) \ patched]
  /\ run' = Idle
  /\ UNCHANGED <<series, shift, today, server, changes, faults>>

Next ==
  \/ \E d \in Dates : CancelOccurrence(d) \/ ChangeOccurrence(d)
  \/ NextDay
  \/ SeriesStart \/ Exceptions \/ Occurrences \/ RequestFails \/ ApplySeriesExpansion

Spec == Init /\ [][Next]_vars

-----------------------------------------------------------------------------
(* tests/mock_exchange_graph.rs: "only the absent occurrence is excluded"; *)
(* an occurrence that takes place is not removed from the archive's copy.  *)
OnlyAbsentExcluded == overrides.excluded \subseteq server.cancelled
=============================================================================
