------------------------------ MODULE CronNext ------------------------------
(***************************************************************************)
(* Schedule.Next of internal/cron/cron.go: the first minute after a given  *)
(* one that an expression allows.  The loop jumps over the rest of a month,*)
(* a day or an hour that it does not, and gives up after some years.       *)
(***************************************************************************)
EXTENDS Cron

CONSTANTS
  SearchYears,     \* Next gives up after so many years: 4
  Expressions,     \* the cron expressions to look at: five fields of terms each
  Starts           \* the minutes to look from

VARIABLES
  cron,      \* the expression
  schedule,  \* what Parse made of it
  from,      \* the argument of Next
  t,         \* the minute the loop is at
  phase      \* "searching", "found", "never"

searchVars == <<cron, schedule, from, t, phase>>

Terms == [form : {"star", "value", "range"}, a : Int, b : Int, step : Int]
ASSUME ExpressionsAssumption == \A e \in Expressions : e \in [1..5 -> Seq(Terms)]

SearchInit ==
  /\ cron \in Expressions
  /\ schedule = Parse(cron)
  /\ Accepted(schedule)
  /\ from \in Starts
  /\ t = from + 1
  /\ phase = "searching"

(* time.AddDate: the same day of the month, which may run over its end.    *)
AddYears(u, n) ==
  MinutesPerDay * (MonthStart[MonthIndex(u) + n * MonthsPerYear] + Dom(u) - 1)
    + (u % MinutesPerDay)

ASSUME StartsAssumption ==
  Starts \subseteq Nat /\ \A s \in Starts : AddYears(s + 1, SearchYears) \in 0..(Horizon + 1)

(* What the search relies on: all that comes later on the calendar comes   *)
(* in the years looked at, every day of every month, a leap day too, and   *)
(* every weekday of every month.                                           *)
Alike(u, v) == u % MinutesPerDay = v % MinutesPerDay /\ Month(u) = Month(v)
ASSUME SearchAssumption ==
  \A s \in Starts : \A u \in (s + 1)..Horizon :
    LET years == (s + 1)..(AddYears(s + 1, SearchYears) - 1) IN
    /\ \E v \in years : Alike(u, v) /\ Dom(u) = Dom(v)
    /\ \E v \in years : Alike(u, v) /\ Weekday(u) = Weekday(v)

Searching == phase = "searching" /\ t < AddYears(from + 1, SearchYears)

Jump(u) ==
  /\ t' = u
  /\ UNCHANGED <<cron, schedule, from, phase>>

Answer(p) ==
  /\ phase' = p
  /\ UNCHANGED <<cron, schedule, from, t>>

NextMonth ==
  /\ Searching
  /\ Month(t) \notin schedule.month
  /\ Jump(MinutesPerDay * MonthStart[MonthIndex(t) + 1])

NextDay ==
  /\ Searching
  /\ Month(t) \in schedule.month
  /\ ~DayMatches(schedule, t)
  /\ Jump(MinutesPerDay * (Day(t) + 1))

OnDay == Searching /\ Month(t) \in schedule.month /\ DayMatches(schedule, t)

(* Mutant: an hour later, at the same minute.                              *)
NextHour_SameMinute ==
  /\ OnDay
  /\ Hour(t) \notin schedule.hour
  /\ Jump(t + MinutesPerHour)

NextHour ==
  /\ OnDay
  /\ Hour(t) \notin schedule.hour
  /\ Jump(MinutesPerHour * ((t \div MinutesPerHour) + 1))

NextMinute ==
  /\ OnDay
  /\ Hour(t) \in schedule.hour
  /\ Minute(t) \notin schedule.minute
  /\ Jump(t + 1)

Found ==
  /\ OnDay
  /\ Hour(t) \in schedule.hour
  /\ Minute(t) \in schedule.minute
  /\ Answer("found")

GiveUp ==
  /\ phase = "searching"
  /\ t >= AddYears(from + 1, SearchYears)
  /\ Answer("never")

SearchNext == NextMonth \/ NextDay \/ NextHour \/ NextMinute \/ Found \/ GiveUp

SearchSpec == SearchInit /\ [][SearchNext]_searchVars

-----------------------------------------------------------------------------
(* Properties.                                                             *)

(* No jump passes a fire by, what Next returns is one, and it says "never" *)
(* only of an expression that will not fire again: the search is long      *)
(* enough for a leap day (cron.go:99-146, 173-238).                        *)
NextIsFirstFire ==
  LET SilentUntil(u) == \A v \in (from + 1)..u : ~Fires(cron, v) IN
  /\ t > from /\ SilentUntil(t - 1)
  /\ phase = "found" => Fires(cron, t)
  /\ phase = "never" => SilentUntil(Horizon)
=============================================================================
