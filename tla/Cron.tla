-------------------------------- MODULE Cron --------------------------------
(***************************************************************************)
(* internal/cron/cron.go: a cron expression, the sets of values its five   *)
(* fields are compiled into, and what it means.  CronNext has the search   *)
(* for the next fire.                                                      *)
(*                                                                         *)
(* Time is counted in minutes of a calendar whose units are constants; its *)
(* months, leap ones included, are listed from the epoch on, which is a    *)
(* Sunday.  Time zones are left out: the calendar is the one of UTC.       *)
(***************************************************************************)
EXTENDS Integers, Sequences

CONSTANTS
  MinutesPerHour, HoursPerDay, DaysPerWeek, MonthsPerYear,
  MonthLengths,    \* the days of each month from the epoch on
  LongestMonth     \* 31

ASSUME CalendarAssumption ==
  /\ {MinutesPerHour, HoursPerDay, DaysPerWeek, MonthsPerYear} \subseteq Nat \ {0}
  /\ LongestMonth \in Nat /\ MonthLengths \in Seq(1..LongestMonth)

MinutesPerDay == MinutesPerHour * HoursPerDay

MonthStart[k \in 1..(Len(MonthLengths) + 1)] ==
  IF k = 1 THEN 0 ELSE MonthStart[k - 1] + MonthLengths[k - 1]

(* The last minute of the calendar.                                        *)
Horizon == MinutesPerDay * MonthStart[Len(MonthLengths) + 1] - 1

Day(t) == t \div MinutesPerDay
MonthIndex(t) ==
  CHOOSE k \in 1..Len(MonthLengths) : MonthStart[k] <= Day(t) /\ Day(t) < MonthStart[k + 1]

Minute(t) == t % MinutesPerHour
Hour(t) == (t \div MinutesPerHour) % HoursPerDay
Dom(t) == Day(t) - MonthStart[MonthIndex(t)] + 1
Month(t) == ((MonthIndex(t) - 1) % MonthsPerYear) + 1
Weekday(t) == Day(t) % DaysPerWeek

-----------------------------------------------------------------------------
(* Parsing.  A field is a sequence of terms, the parts between its commas: *)
(* "*", a value a, or a range from a to b, each with an optional step.     *)

Unstepped == 0
Step(term) == IF term.step = Unstepped THEN 1 ELSE term.step
Star == [form |-> "star", a |-> 0, b |-> 0, step |-> Unstepped]

Rejected == {}

(* One round of parseField: a value with a step other than 1 runs on to    *)
(* the end of the field.  `top` is the highest value that passes.  An      *)
(* error selects nothing.                                                  *)
TermMask(term, lo, hi, top) ==
  LET first == IF term.form = "star" THEN lo ELSE term.a
      final == IF term.form = "range" THEN term.b
              ELSE IF term.form = "star" \/ Step(term) # 1 THEN hi ELSE term.a IN
  IF Step(term) <= 0 \/ first < lo \/ final > top THEN Rejected
  ELSE {v \in first..final : (v - first) % Step(term) = 0}

ParseField(field, lo, hi, top) ==
  LET masks == {TermMask(field[i], lo, hi, top) : i \in DOMAIN field} IN
  IF Rejected \in masks THEN Rejected ELSE UNION masks

(* Parse: the day of week may be written 7 for Sunday.  A day field other  *)
(* than a bare "*" restricts, "*/1" too.                                   *)
Parse(e) ==
  [minute |-> ParseField(e[1], 0, MinutesPerHour - 1, MinutesPerHour - 1),
   hour |-> ParseField(e[2], 0, HoursPerDay - 1, HoursPerDay - 1),
   dom |-> ParseField(e[3], 1, LongestMonth, LongestMonth),
   month |-> ParseField(e[4], 1, MonthsPerYear, MonthsPerYear),
   dow |-> {v % DaysPerWeek : v \in ParseField(e[5], 0, DaysPerWeek - 1, DaysPerWeek)},
   domRestricted |-> e[3] # <<Star>>,
   dowRestricted |-> e[5] # <<Star>>]

Accepted(s) == Rejected \notin {s.minute, s.hour, s.dom, s.month, s.dow}

-----------------------------------------------------------------------------
DayMatches(s, t) ==
  LET domOK == Dom(t) \in s.dom
      dowOK == Weekday(t) \in s.dow IN
  IF s.domRestricted /\ s.dowRestricted THEN domOK \/ dowOK
  ELSE (s.domRestricted => domOK) /\ (s.dowRestricted => dowOK)

-----------------------------------------------------------------------------
(* What an expression means, from the package comment (cron.go:1-8) and    *)
(* not by way of masks and jumps.                                          *)

Selects(field, lo, hi, v) ==
  \E i \in DOMAIN field :
    LET term == field[i] IN
    CASE term.form = "star" -> v <= hi /\ (v - lo) % Step(term) = 0
      [] term.form = "range" -> term.a <= v /\ v <= term.b /\ (v - term.a) % Step(term) = 0
      [] OTHER -> v = term.a \/ (Step(term) # 1 /\ term.a <= v /\ v <= hi
                                  /\ (v - term.a) % Step(term) = 0)

Fires(e, t) ==
  LET onDay == Selects(e[3], 1, LongestMonth, Dom(t))
      onWeekday == \/ Selects(e[5], 0, DaysPerWeek - 1, Weekday(t))
                   \/ Weekday(t) = 0 /\ Selects(e[5], 0, DaysPerWeek - 1, DaysPerWeek) IN
  /\ Selects(e[1], 0, MinutesPerHour - 1, Minute(t))
  /\ Selects(e[2], 0, HoursPerDay - 1, Hour(t))
  /\ Selects(e[4], 1, MonthsPerYear, Month(t))
  /\ IF <<Star>> \in {e[3], e[5]} THEN onDay /\ onWeekday ELSE onDay \/ onWeekday
=============================================================================
