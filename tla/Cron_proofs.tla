----------------------------- MODULE Cron_proofs -----------------------------
(***************************************************************************)
(* Proofs about CronNext, for every calendar, every expression the parser  *)
(* accepts and every minute to start from; and about CronDispatch, for     *)
(* every set of schedules and of files, every number of triggers and       *)
(* reloads, and every bound.                                               *)
(***************************************************************************)
EXTENDS CronNext, CronDispatch, WellFoundedInduction, TLAPS

(* A set of numbers has a least one.                                       *)
LEMMA LeastElement ==
  ASSUME NEW S, S \subseteq Nat, S # {}
  PROVE  \E o \in S : \A p \in S : o <= p
<1> DEFINE R == OpToRel(<, Nat)
<1>1. PICK x \in S : \A y \in S : ~(<<y, x>> \in R)
  <2>1. IsWellFoundedOn(R, Nat)
    BY NatLessThanWellFounded
  <2> HIDE DEF R
  <2> QED BY <2>1, WFMin
<1>2. ASSUME NEW y \in S PROVE x <= y
  <2>1. y < x => <<y, x>> \in R
    BY DEF OpToRel
  <2>2. x \in Nat /\ y \in Nat
    OBVIOUS
  <2> HIDE DEF R
  <2> QED BY <1>1, <2>1, <2>2
<1> QED BY <1>2

-----------------------------------------------------------------------------
(* The search for the next minute.                                         *)

Months == 1..Len(MonthLengths)
EndOfDays == MonthStart[Len(MonthLengths) + 1]

-----------------------------------------------------------------------------
(* Division.                                                               *)

LEMMA DivFacts ==
  ASSUME NEW a \in Nat, NEW b \in Nat \ {0}
  PROVE  /\ a \div b \in Nat /\ b * (a \div b) <= a /\ a < b * ((a \div b) + 1)
         /\ a % b \in 0..(b - 1) /\ a = (b * (a \div b)) + (a % b)
OBVIOUS

LEMMA DivUnique ==
  ASSUME NEW a \in Nat, NEW b \in Nat \ {0}, NEW q \in Nat, b * q <= a, a < b * (q + 1)
  PROVE  a \div b = q
OBVIOUS

LEMMA DivModUnique ==
  ASSUME NEW a \in Nat, NEW b \in Nat \ {0}, NEW q \in Nat, NEW r \in 0..(b - 1),
         a = (b * q) + r
  PROVE  a \div b = q /\ a % b = r
<1>1. a \div b = q
  <2>1. b * q <= a /\ a < b * (q + 1)
    OBVIOUS
  <2> QED BY <2>1, DivUnique
<1>2. a = (b * (a \div b)) + (a % b) /\ a % b \in Int
  BY DivFacts
<1> DEFINE x == a \div b
           y == a % b
           n == b * q
<1>3. x = q /\ a = (b * x) + y /\ y \in Int /\ b * x = b * q
  BY <1>1, <1>2
<1>4. n \in Nat
  OBVIOUS
<1>5. a = n + y /\ a = n + r
  BY <1>3
<1> HIDE DEF x, y, n
<1>6. y = r
  BY ONLY <1>3, <1>4, <1>5, r \in 0..(b - 1), b \in Nat \ {0}
<1> QED BY <1>1, <1>6 DEF y

LEMMA DivLess ==
  ASSUME NEW a \in Nat, NEW b \in Nat \ {0}, NEW q \in Nat
  PROVE  /\ a < b * q => a \div b < q
         /\ b * q <= a => q <= a \div b
OBVIOUS

LEMMA ModFacts ==
  /\ \A v \in Nat, b \in Nat \ {0} : v < b => v % b = v
  /\ \A b \in Nat \ {0} : b % b = 0 /\ 0 % b = 0
  /\ \A v \in Nat : v % 1 = 0
OBVIOUS

-----------------------------------------------------------------------------
(* The calendar.                                                           *)

LEMMA Units ==
  /\ MinutesPerHour \in Nat \ {0} /\ HoursPerDay \in Nat \ {0}
  /\ DaysPerWeek \in Nat \ {0} /\ MonthsPerYear \in Nat \ {0}
  /\ MinutesPerDay \in Nat \ {0} /\ MinutesPerDay = MinutesPerHour * HoursPerDay
  /\ LongestMonth \in Nat /\ Len(MonthLengths) \in Nat
  /\ \A k \in Months : MonthLengths[k] \in 1..LongestMonth
BY CalendarAssumption DEF MinutesPerDay, Months

(* The sums of the months exist.                                           *)
LEMMA Sums ==
  ASSUME NEW n \in Nat
  PROVE  \E f : f = [k \in 1..(n + 1) |-> IF k = 1 THEN 0 ELSE f[k - 1] + MonthLengths[k - 1]]
<1> DEFINE Sum(f, m) ==
             f = [k \in 1..(m + 1) |-> IF k = 1 THEN 0 ELSE f[k - 1] + MonthLengths[k - 1]]
           Bad == {m \in Nat : ~ \E f : Sum(f, m)}
<1> SUFFICES ASSUME Bad # {} PROVE FALSE
  OBVIOUS
<1>1. PICK m \in Bad : \A y \in Bad : m <= y
  <2> HIDE DEF Bad
  <2>1. Bad \in SUBSET Nat
    BY DEF Bad
  <2> QED BY <2>1, LeastElement
<1>2. CASE m = 0
  <2>1. Sum([k \in 1..1 |-> 0], 0)
    OBVIOUS
  <2> QED BY <1>2, <2>1
<1>3. CASE m # 0
  <2>1. m - 1 \in Nat /\ m - 1 \notin Bad
    <3>1. m \in Nat
      BY <1>1
    <3> HIDE DEF Bad
    <3> QED BY <1>1, <1>3, <3>1
  <2>2. PICK f : Sum(f, m - 1)
    BY <2>1
  <2> DEFINE g == [k \in 1..(m + 1) |-> IF k = m + 1 THEN f[m] + MonthLengths[m] ELSE f[k]]
  <2>3. \A k \in 1..m : f[k] = IF k = 1 THEN 0 ELSE f[k - 1] + MonthLengths[k - 1]
    BY <2>2
  <2>4. ASSUME NEW k \in 1..(m + 1)
        PROVE  g[k] = IF k = 1 THEN 0 ELSE g[k - 1] + MonthLengths[k - 1]
    <3>1. CASE k = m + 1
      <4>1. k # 1 /\ k - 1 = m /\ m \in 1..(m + 1) /\ m # m + 1
        BY <1>3, <3>1
      <4> QED BY <3>1, <4>1
    <3>2. CASE k \in 1..m
      BY <2>3, <3>2
    <3> QED BY <3>1, <3>2
  <2>5. Sum(g, m)
    BY <2>4
  <2> QED BY <2>5
<1> QED BY <1>2, <1>3

LEMMA MonthStartIs ==
  /\ MonthStart[1] = 0
  /\ \A k \in Months : MonthStart[k + 1] = MonthStart[k] + MonthLengths[k]
<1>1. Len(MonthLengths) \in Nat
  BY Units
<1>2. PICK f : f = [k \in 1..(Len(MonthLengths) + 1) |->
                      IF k = 1 THEN 0 ELSE f[k - 1] + MonthLengths[k - 1]]
  BY <1>1, Sums
<1>3. MonthStart = [k \in 1..(Len(MonthLengths) + 1) |->
                      IF k = 1 THEN 0 ELSE MonthStart[k - 1] + MonthLengths[k - 1]]
  BY <1>2 DEF MonthStart
<1>4. 1 \in 1..(Len(MonthLengths) + 1)
      /\ \A k \in Months : k + 1 \in 1..(Len(MonthLengths) + 1) /\ k + 1 # 1 /\ (k + 1) - 1 = k
  BY <1>1 DEF Months
<1> QED BY <1>3, <1>4

LEMMA MonthStartTyped == \A k \in 1..(Len(MonthLengths) + 1) : MonthStart[k] \in Nat
<1> DEFINE Bad == {k \in 1..(Len(MonthLengths) + 1) : MonthStart[k] \notin Nat}
<1> SUFFICES ASSUME Bad # {} PROVE FALSE
  OBVIOUS
<1>0. Len(MonthLengths) \in Nat
  BY Units
<1>1. PICK m \in Bad : \A y \in Bad : m <= y
  <2>1. Bad \in SUBSET Nat
    BY <1>0
  <2> HIDE DEF Bad
  <2> QED BY <2>1, LeastElement
<1>2. m # 1
  BY <1>1, MonthStartIs
<1>3. m - 1 \in Months /\ m - 1 \in 1..(Len(MonthLengths) + 1) /\ m - 1 \notin Bad /\ m = (m - 1) + 1
  BY <1>0, <1>1, <1>2 DEF Months
<1>4. MonthStart[m - 1] \in Nat /\ MonthLengths[m - 1] \in Nat
  BY <1>3, Units
<1>5. MonthStart[m] = MonthStart[m - 1] + MonthLengths[m - 1]
  BY <1>3, MonthStartIs
<1>6. MonthStart[m] \in Nat
  BY <1>4, <1>5
<1> QED BY <1>1, <1>6

LEMMA MonthsInOrder ==
  ASSUME NEW i \in 1..(Len(MonthLengths) + 1), NEW j \in 1..(Len(MonthLengths) + 1), i <= j
  PROVE  MonthStart[i] <= MonthStart[j]
<1> DEFINE Bad == {k \in 1..(Len(MonthLengths) + 1) : i <= k /\ ~(MonthStart[i] <= MonthStart[k])}
<1> SUFFICES ASSUME Bad # {} PROVE FALSE
  OBVIOUS
<1>0. Len(MonthLengths) \in Nat
  BY Units
<1>1. PICK m \in Bad : \A y \in Bad : m <= y
  <2>1. Bad \in SUBSET Nat
    BY <1>0
  <2> HIDE DEF Bad
  <2> QED BY <2>1, LeastElement
<1>2. m # i
  BY <1>1, MonthStartTyped
<1>3. m - 1 \in Months /\ m - 1 \in 1..(Len(MonthLengths) + 1) /\ i <= m - 1 /\ m - 1 \notin Bad
      /\ m = (m - 1) + 1
  BY <1>0, <1>1, <1>2 DEF Months
<1>4. MonthStart[i] <= MonthStart[m - 1] /\ MonthStart[m] = MonthStart[m - 1] + MonthLengths[m - 1]
  BY <1>3, MonthStartIs
<1>5. MonthStart[i] \in Nat /\ MonthStart[m - 1] \in Nat /\ MonthLengths[m - 1] \in Nat
  BY <1>3, MonthStartTyped, Units
<1>6. MonthStart[i] <= MonthStart[m]
  BY <1>4, <1>5
<1> QED BY <1>1, <1>6

(* Every day of the calendar lies in one month.                            *)
LEMMA MonthUnique ==
  ASSUME NEW d \in Nat, NEW j \in Months, NEW k \in Months,
         MonthStart[j] <= d, d < MonthStart[j + 1], MonthStart[k] <= d, d < MonthStart[k + 1]
  PROVE  j = k
<1>1. j \in Nat /\ k \in Nat /\ {j, k, j + 1, k + 1} \subseteq 1..(Len(MonthLengths) + 1)
  BY Units DEF Months
<1>2. CASE j < k
  <2>1. MonthStart[j + 1] <= MonthStart[k]
    BY <1>1, <1>2, MonthsInOrder
  <2> QED BY <1>1, <2>1, MonthStartTyped
<1>3. CASE k < j
  <2>1. MonthStart[k + 1] <= MonthStart[j]
    BY <1>1, <1>3, MonthsInOrder
  <2> QED BY <1>1, <2>1, MonthStartTyped
<1> QED BY <1>1, <1>2, <1>3

LEMMA MonthExists ==
  ASSUME NEW d \in Nat, d < EndOfDays
  PROVE  \E k \in Months : MonthStart[k] <= d /\ d < MonthStart[k + 1]
<1> DEFINE Later == {k \in 1..(Len(MonthLengths) + 1) : d < MonthStart[k]}
<1>0. Len(MonthLengths) \in Nat
  BY Units
<1>1. Later # {} /\ Later \in SUBSET Nat
  BY <1>0 DEF EndOfDays
<1>2. PICK m \in Later : \A y \in Later : m <= y
  <2> HIDE DEF Later
  <2> QED BY <1>1, LeastElement
<1>3. m # 1
  BY <1>2, MonthStartIs
<1>4. m - 1 \in Months /\ m - 1 \in 1..(Len(MonthLengths) + 1) /\ (m - 1) + 1 = m /\ m - 1 \notin Later
  BY <1>0, <1>2, <1>3 DEF Months
<1>5. MonthStart[m - 1] <= d
  BY <1>4, MonthStartTyped
<1> QED BY <1>2, <1>4, <1>5

-----------------------------------------------------------------------------
InCalendar(u) == u \in Nat /\ Day(u) \in Nat /\ Day(u) < EndOfDays

LEMMA CalendarEnds ==
  /\ EndOfDays \in Nat /\ Horizon \in Int
  /\ \A u \in Nat : u <= Horizon => InCalendar(u)
<1>1. EndOfDays \in Nat
  BY MonthStartTyped, Units DEF EndOfDays
<1>2. Horizon = (MinutesPerDay * EndOfDays) - 1
  BY DEF Horizon, EndOfDays
<1>3. Horizon \in Int
  BY <1>1, <1>2, Units
<1>4. ASSUME NEW u \in Nat, u <= Horizon PROVE InCalendar(u)
  <2>1. MinutesPerDay * EndOfDays \in Nat
    BY <1>1, Units
  <2>2. u < MinutesPerDay * EndOfDays
    BY <1>2, <1>4, <2>1
  <2>3. u \div MinutesPerDay < EndOfDays /\ u \div MinutesPerDay \in Nat
    BY <1>1, <2>2, Units, DivFacts, DivLess
  <2> QED BY <2>3 DEF InCalendar, Day
<1> QED BY <1>1, <1>3, <1>4

LEMMA MonthIndexIs ==
  ASSUME NEW u, InCalendar(u)
  PROVE  /\ MonthIndex(u) \in Months
         /\ MonthStart[MonthIndex(u)] <= Day(u) /\ Day(u) < MonthStart[MonthIndex(u) + 1]
<1>1. \E k \in 1..Len(MonthLengths) : MonthStart[k] <= Day(u) /\ Day(u) < MonthStart[k + 1]
  BY MonthExists DEF InCalendar, Months
<1> QED BY <1>1 DEF MonthIndex, Months

(* The parts of a minute lie within the ranges of their fields.            *)
LEMMA PartsTyped ==
  ASSUME NEW u, InCalendar(u)
  PROVE  /\ Minute(u) \in 0..(MinutesPerHour - 1)
         /\ Hour(u) \in 0..(HoursPerDay - 1)
         /\ Dom(u) \in 1..LongestMonth
         /\ Month(u) \in 1..MonthsPerYear
         /\ Weekday(u) \in 0..(DaysPerWeek - 1)
<1>1. u \in Nat /\ Day(u) \in Nat
  BY DEF InCalendar
<1>2. Minute(u) \in 0..(MinutesPerHour - 1)
  BY <1>1, Units, DivFacts DEF Minute
<1>3. Hour(u) \in 0..(HoursPerDay - 1)
  <2>1. u \div MinutesPerHour \in Nat
    BY <1>1, Units, DivFacts
  <2> QED BY <2>1, Units, DivFacts DEF Hour
<1>4. Weekday(u) \in 0..(DaysPerWeek - 1)
  BY <1>1, Units, DivFacts DEF Weekday
<1> DEFINE k == MonthIndex(u)
<1>5. k \in Months /\ MonthStart[k] <= Day(u) /\ Day(u) < MonthStart[k + 1]
  BY MonthIndexIs
<1> HIDE DEF k
<1>6. Month(u) \in 1..MonthsPerYear
  <2>1. k - 1 \in Nat
    BY <1>5, Units DEF Months
  <2>2. (k - 1) % MonthsPerYear \in 0..(MonthsPerYear - 1)
    BY <2>1, Units, DivFacts
  <2> QED BY <2>2, Units DEF Month, k
<1>7. Dom(u) \in 1..LongestMonth
  <2>1. MonthStart[k + 1] = MonthStart[k] + MonthLengths[k]
        /\ MonthLengths[k] \in 1..LongestMonth /\ MonthStart[k] \in Nat
    <3>1. k \in 1..(Len(MonthLengths) + 1)
      BY <1>5, Units DEF Months
    <3> QED BY <1>5, <3>1, MonthStartIs, MonthStartTyped, Units
  <2>2. Dom(u) = Day(u) - MonthStart[k] + 1
    BY DEF Dom, k
  <2> QED BY <1>1, <1>5, <2>1, <2>2, Units
<1> QED BY <1>2, <1>3, <1>4, <1>6, <1>7

-----------------------------------------------------------------------------
(* Parsing.                                                                *)

(* A mask that is not rejected selects what its term does.                 *)
LEMMA TermMeans ==
  ASSUME NEW term \in Terms, NEW lo \in Nat, NEW hi \in Nat, NEW top \in Nat,
         lo <= hi, hi <= top, TermMask(term, lo, hi, top) # Rejected
  PROVE  /\ TermMask(term, lo, hi, top) \subseteq lo..top
         /\ \A v \in lo..top :
              v \in TermMask(term, lo, hi, top) <=>
                CASE term.form = "star" -> v <= hi /\ (v - lo) % Step(term) = 0
                  [] term.form = "range" -> term.a <= v /\ v <= term.b
                                            /\ (v - term.a) % Step(term) = 0
                  [] OTHER -> v = term.a \/ (Step(term) # 1 /\ term.a <= v /\ v <= hi
                                              /\ (v - term.a) % Step(term) = 0)
<1> DEFINE first == IF term.form = "star" THEN lo ELSE term.a
           final == IF term.form = "range" THEN term.b
                    ELSE IF term.form = "star" \/ Step(term) # 1 THEN hi ELSE term.a
           step == Step(term)
           mask == TermMask(term, lo, hi, top)
<1>1. /\ term.form \in {"star", "value", "range"} /\ term.a \in Int /\ term.b \in Int
      /\ step \in Int /\ first \in Int /\ final \in Int
  BY DEF Terms, Step, Unstepped
<1>2. /\ step > 0 /\ first >= lo /\ final <= top
      /\ mask = {v \in first..final : (v - first) % step = 0}
  <2>1. mask = IF step <= 0 \/ first < lo \/ final > top THEN Rejected
               ELSE {v \in first..final : (v - first) % step = 0}
    BY DEF TermMask
  <2> HIDE DEF mask, first, final, step
  <2>2. mask # Rejected
    BY DEF mask
  <2>3. ~(step <= 0 \/ first < lo \/ final > top)
    BY <2>1, <2>2
  <2> QED BY <1>1, <2>1, <2>3
<1>3. PICK x : x \in mask
  BY DEF Rejected
<1>4. first <= final
  <2> HIDE DEF mask, first, final, step
  <2> QED BY <1>1, <1>2, <1>3
<1>5. mask \subseteq lo..top
  <2> HIDE DEF mask, first, final, step
  <2> QED BY <1>1, <1>2
<1>6. 0 % step = 0
  <2> HIDE DEF step
  <2> QED BY <1>1, <1>2, ModFacts
<1>7. ASSUME NEW v \in lo..top
      PROVE  v \in mask <=> (first <= v /\ v <= final /\ (v - first) % step = 0)
  <2> HIDE DEF mask, first, final, step
  <2> QED BY <1>1, <1>2
<1>8. ASSUME NEW v \in lo..top
      PROVE  v \in mask <=>
                CASE term.form = "star" -> v <= hi /\ (v - lo) % step = 0
                  [] term.form = "range" -> term.a <= v /\ v <= term.b
                                            /\ (v - term.a) % step = 0
                  [] OTHER -> v = term.a \/ (step # 1 /\ term.a <= v /\ v <= hi
                                              /\ (v - term.a) % step = 0)
  <2>1. CASE term.form = "star"
    <3>1. first = lo /\ final = hi
      BY <2>1
    <3> HIDE DEF mask, first, final, step
    <3> QED BY <1>7, <2>1, <3>1
  <2>2. CASE term.form = "range"
    <3>1. first = term.a /\ final = term.b
      BY <2>2
    <3> HIDE DEF mask, first, final, step
    <3> QED BY <1>7, <2>2, <3>1
  <2>3. CASE term.form = "value"
    <3>1. first = term.a /\ final = (IF step # 1 THEN hi ELSE term.a)
      BY <2>3
    <3>2. v = term.a => v - term.a = 0
      BY <1>1
    <3> HIDE DEF mask, first, final, step
    <3>3. CASE step # 1
      <4>1. v \in mask <=> (term.a <= v /\ v <= hi /\ (v - term.a) % step = 0)
        BY <1>7, <3>1, <3>3
      <4>2. v = term.a => v \in mask
        <5>1. term.a <= hi
          BY <1>4, <3>1, <3>3
        <5> QED BY <1>1, <1>6, <3>2, <4>1, <5>1
      <4> QED BY <2>3, <3>3, <4>1, <4>2
    <3>4. CASE step = 1
      <4>1. v \in mask <=> (term.a <= v /\ v <= term.a /\ (v - term.a) % step = 0)
        BY <1>7, <3>1, <3>4
      <4>2. v \in mask <=> v = term.a
        BY <1>1, <1>6, <3>2, <4>1
      <4> QED BY <2>3, <3>4, <4>2
    <3> QED BY <3>3, <3>4
  <2> QED BY <1>1, <2>1, <2>2, <2>3
<1> QED BY <1>5, <1>8

LEMMA FieldMeans ==
  ASSUME NEW field \in Seq(Terms), NEW lo \in Nat, NEW hi \in Nat, NEW top \in Nat,
         lo <= hi, hi <= top, ParseField(field, lo, hi, top) # Rejected
  PROVE  /\ ParseField(field, lo, hi, top) \subseteq lo..top
         /\ \A v \in lo..top :
              v \in ParseField(field, lo, hi, top) <=> Selects(field, lo, hi, v)
<1> DEFINE Mask(i) == TermMask(field[i], lo, hi, top)
           masks == {Mask(i) : i \in DOMAIN field}
<1>1. ParseField(field, lo, hi, top) = IF Rejected \in masks THEN Rejected ELSE UNION masks
  BY DEF ParseField
<1>2. Rejected \notin masks /\ ParseField(field, lo, hi, top) = UNION masks
  <2> HIDE DEF masks
  <2> QED BY <1>1
<1>3. \A i \in DOMAIN field : Mask(i) # Rejected /\ field[i] \in Terms
  BY <1>2
<1>4. \A i \in DOMAIN field :
        /\ Mask(i) \subseteq lo..top
        /\ \A v \in lo..top :
             v \in Mask(i) <=>
               CASE field[i].form = "star" -> v <= hi /\ (v - lo) % Step(field[i]) = 0
                 [] field[i].form = "range" -> field[i].a <= v /\ v <= field[i].b
                                               /\ (v - field[i].a) % Step(field[i]) = 0
                 [] OTHER -> v = field[i].a
                               \/ (Step(field[i]) # 1 /\ field[i].a <= v /\ v <= hi
                                     /\ (v - field[i].a) % Step(field[i]) = 0)
  BY <1>3, TermMeans
<1> HIDE DEF Mask
<1>5. \A v : v \in UNION masks <=> \E i \in DOMAIN field : v \in Mask(i)
  OBVIOUS
<1> HIDE DEF masks
<1>6. ParseField(field, lo, hi, top) \subseteq lo..top
  BY <1>2, <1>4, <1>5
<1>7. ASSUME NEW v \in lo..top
      PROVE  v \in ParseField(field, lo, hi, top) <=> Selects(field, lo, hi, v)
  BY <1>2, <1>4, <1>5, Zenon DEF Selects
<1> QED BY <1>6, <1>7

LEMMA PlainField ==
  ASSUME NEW field \in Seq(Terms), NEW lo \in Nat, NEW hi \in Nat, NEW v \in lo..hi,
         NEW set, set = ParseField(field, lo, hi, hi), set # Rejected
  PROVE  v \in set <=> Selects(field, lo, hi, v)
<1>1. lo <= hi /\ hi <= hi /\ ParseField(field, lo, hi, hi) # Rejected
  OBVIOUS
<1>2. \A x \in lo..hi : x \in ParseField(field, lo, hi, hi) <=> Selects(field, lo, hi, x)
  BY <1>1, FieldMeans
<1> QED BY <1>2

(* The day of week may be written as 7.                                    *)
LEMMA WeekdayMeans ==
  ASSUME NEW field \in Seq(Terms), NEW w \in 0..(DaysPerWeek - 1),
         ParseField(field, 0, DaysPerWeek - 1, DaysPerWeek) # Rejected
  PROVE  w \in {v % DaysPerWeek : v \in ParseField(field, 0, DaysPerWeek - 1, DaysPerWeek)} <=>
           \/ Selects(field, 0, DaysPerWeek - 1, w)
           \/ w = 0 /\ Selects(field, 0, DaysPerWeek - 1, DaysPerWeek)
<1> DEFINE set == ParseField(field, 0, DaysPerWeek - 1, DaysPerWeek)
           S(v) == Selects(field, 0, DaysPerWeek - 1, v)
<1>1. DaysPerWeek \in Nat \ {0}
  BY Units
<1>2. set \subseteq 0..DaysPerWeek /\ \A v \in 0..DaysPerWeek : v \in set <=> S(v)
  <2>1. 0 \in Nat /\ DaysPerWeek - 1 \in Nat /\ DaysPerWeek \in Nat /\ 0 <= DaysPerWeek - 1
        /\ DaysPerWeek - 1 <= DaysPerWeek
    BY <1>1
  <2> QED BY <2>1, FieldMeans
<1> HIDE DEF set, S
<1>3. \A v \in 0..(DaysPerWeek - 1) : v % DaysPerWeek = v
  BY <1>1, ModFacts
<1>4. DaysPerWeek % DaysPerWeek = 0
  BY <1>1, ModFacts
<1>5. w \in {v % DaysPerWeek : v \in set} <=> w \in set \/ (w = 0 /\ DaysPerWeek \in set)
  <2>1. ASSUME w \in {v % DaysPerWeek : v \in set}
        PROVE  w \in set \/ (w = 0 /\ DaysPerWeek \in set)
    <3>1. PICK v \in set : w = v % DaysPerWeek
      BY <2>1
    <3>2. v \in 0..(DaysPerWeek - 1) \/ v = DaysPerWeek
      BY <1>1, <1>2
    <3> QED BY <1>3, <1>4, <3>1, <3>2
  <2>2. ASSUME w \in set \/ (w = 0 /\ DaysPerWeek \in set)
        PROVE  w \in {v % DaysPerWeek : v \in set}
    <3>1. CASE w \in set
      <4>1. w = w % DaysPerWeek
        BY <1>3
      <4> QED BY <3>1, <4>1
    <3>2. CASE w = 0 /\ DaysPerWeek \in set
      BY <1>4, <3>2
    <3> QED BY <2>2, <3>1, <3>2
  <2> QED BY <2>1, <2>2
<1>6. w \in 0..DaysPerWeek /\ DaysPerWeek \in 0..DaysPerWeek
  BY <1>1
<1> QED BY <1>2, <1>5, <1>6 DEF set, S

(* An expression that is accepted allows a minute exactly when it fires.   *)
LEMMA ScheduleMeans ==
  ASSUME NEW e \in Expressions, Accepted(Parse(e)), NEW u, InCalendar(u)
  PROVE  Fires(e, u) <=>
           /\ Minute(u) \in Parse(e).minute /\ Hour(u) \in Parse(e).hour
           /\ Month(u) \in Parse(e).month /\ DayMatches(Parse(e), u)
<1> DEFINE s == Parse(e)
<1>1. /\ e[1] \in Seq(Terms) /\ e[2] \in Seq(Terms) /\ e[3] \in Seq(Terms)
      /\ e[4] \in Seq(Terms) /\ e[5] \in Seq(Terms)
  BY ExpressionsAssumption
<1>2. /\ s.minute = ParseField(e[1], 0, MinutesPerHour - 1, MinutesPerHour - 1)
      /\ s.hour = ParseField(e[2], 0, HoursPerDay - 1, HoursPerDay - 1)
      /\ s.dom = ParseField(e[3], 1, LongestMonth, LongestMonth)
      /\ s.month = ParseField(e[4], 1, MonthsPerYear, MonthsPerYear)
      /\ s.dow = {v % DaysPerWeek : v \in ParseField(e[5], 0, DaysPerWeek - 1, DaysPerWeek)}
      /\ s.domRestricted = (e[3] # <<Star>>) /\ s.dowRestricted = (e[5] # <<Star>>)
  BY DEF Parse
<1>3. /\ s.minute # Rejected /\ s.hour # Rejected /\ s.dom # Rejected /\ s.month # Rejected
      /\ s.dow # Rejected
  BY DEF Accepted
<1> HIDE DEF s
<1>4. ParseField(e[5], 0, DaysPerWeek - 1, DaysPerWeek) # Rejected
  BY <1>2, <1>3 DEF Rejected
<1>5. /\ Minute(u) \in 0..(MinutesPerHour - 1) /\ Hour(u) \in 0..(HoursPerDay - 1)
      /\ Dom(u) \in 1..LongestMonth /\ Month(u) \in 1..MonthsPerYear
      /\ Weekday(u) \in 0..(DaysPerWeek - 1)
  BY PartsTyped
<1>6. /\ 0 \in Nat /\ 1 \in Nat /\ MinutesPerHour - 1 \in Nat /\ HoursPerDay - 1 \in Nat
      /\ LongestMonth \in Nat /\ MonthsPerYear \in Nat
      /\ 0 <= MinutesPerHour - 1 /\ 0 <= HoursPerDay - 1 /\ 1 <= LongestMonth /\ 1 <= MonthsPerYear
  BY <1>5, Units
<1>7. Minute(u) \in s.minute <=> Selects(e[1], 0, MinutesPerHour - 1, Minute(u))
  <2> DEFINE field == e[1]
             hi == MinutesPerHour - 1
             set == s.minute
             v == Minute(u)
  <2>1. field \in Seq(Terms) /\ 0 \in Nat /\ hi \in Nat /\ v \in 0..hi
        /\ set = ParseField(field, 0, hi, hi) /\ set # Rejected
    BY <1>1, <1>2, <1>3, <1>5, <1>6
  <2> HIDE DEF field, hi, set, v
  <2>2. v \in set <=> Selects(field, 0, hi, v)
    BY <2>1, PlainField
  <2> QED BY <2>2 DEF field, hi, set, v
<1>8. Hour(u) \in s.hour <=> Selects(e[2], 0, HoursPerDay - 1, Hour(u))
  <2> DEFINE field == e[2]
             hi == HoursPerDay - 1
             set == s.hour
             v == Hour(u)
  <2>1. field \in Seq(Terms) /\ 0 \in Nat /\ hi \in Nat /\ v \in 0..hi
        /\ set = ParseField(field, 0, hi, hi) /\ set # Rejected
    BY <1>1, <1>2, <1>3, <1>5, <1>6
  <2> HIDE DEF field, hi, set, v
  <2>2. v \in set <=> Selects(field, 0, hi, v)
    BY <2>1, PlainField
  <2> QED BY <2>2 DEF field, hi, set, v
<1>9. Dom(u) \in s.dom <=> Selects(e[3], 1, LongestMonth, Dom(u))
  <2> DEFINE field == e[3]
             hi == LongestMonth
             set == s.dom
             v == Dom(u)
  <2>1. field \in Seq(Terms) /\ 1 \in Nat /\ hi \in Nat /\ v \in 1..hi
        /\ set = ParseField(field, 1, hi, hi) /\ set # Rejected
    BY <1>1, <1>2, <1>3, <1>5, <1>6
  <2> HIDE DEF field, hi, set, v
  <2>2. v \in set <=> Selects(field, 1, hi, v)
    BY <2>1, PlainField
  <2> QED BY <2>2 DEF field, hi, set, v
<1>10. Month(u) \in s.month <=> Selects(e[4], 1, MonthsPerYear, Month(u))
  <2> DEFINE field == e[4]
             hi == MonthsPerYear
             set == s.month
             v == Month(u)
  <2>1. field \in Seq(Terms) /\ 1 \in Nat /\ hi \in Nat /\ v \in 1..hi
        /\ set = ParseField(field, 1, hi, hi) /\ set # Rejected
    BY <1>1, <1>2, <1>3, <1>5, <1>6
  <2> HIDE DEF field, hi, set, v
  <2>2. v \in set <=> Selects(field, 1, hi, v)
    BY <2>1, PlainField
  <2> QED BY <2>2 DEF field, hi, set, v
<1> DEFINE onDay == Selects(e[3], 1, LongestMonth, Dom(u))
           onWeekday == \/ Selects(e[5], 0, DaysPerWeek - 1, Weekday(u))
                        \/ Weekday(u) = 0 /\ Selects(e[5], 0, DaysPerWeek - 1, DaysPerWeek)
<1>11. Weekday(u) \in s.dow <=> onWeekday
  BY <1>1, <1>2, <1>4, <1>5, WeekdayMeans
<1>12. e[3] = <<Star>> => onDay
  <2>1. ASSUME e[3] = <<Star>> PROVE onDay
    <3>1. 1 \in DOMAIN e[3] /\ e[3][1] = Star /\ Star.form = "star" /\ Step(Star) = 1
      BY <2>1 DEF Star, Step, Unstepped
    <3>2. Dom(u) <= LongestMonth /\ (Dom(u) - 1) % 1 = 0
      BY <1>5, <1>6, ModFacts
    <3> QED BY <3>1, <3>2 DEF Selects
  <2> QED BY <2>1
<1>13. e[5] = <<Star>> => onWeekday
  <2>1. ASSUME e[5] = <<Star>> PROVE onWeekday
    <3>1. 1 \in DOMAIN e[5] /\ e[5][1] = Star /\ Star.form = "star" /\ Step(Star) = 1
      BY <2>1 DEF Star, Step, Unstepped
    <3>2. Weekday(u) <= DaysPerWeek - 1 /\ (Weekday(u) - 0) % 1 = 0
      BY <1>5, Units, ModFacts
    <3> QED BY <3>1, <3>2 DEF Selects
  <2> QED BY <2>1
<1>14. Fires(e, u) <=>
         /\ Selects(e[1], 0, MinutesPerHour - 1, Minute(u))
         /\ Selects(e[2], 0, HoursPerDay - 1, Hour(u))
         /\ Selects(e[4], 1, MonthsPerYear, Month(u))
         /\ IF <<Star>> \in {e[3], e[5]} THEN onDay /\ onWeekday ELSE onDay \/ onWeekday
  BY DEF Fires
<1> HIDE DEF onDay, onWeekday
<1>15. DayMatches(s, u) <=>
         IF <<Star>> \in {e[3], e[5]} THEN onDay /\ onWeekday ELSE onDay \/ onWeekday
  BY <1>2, <1>9, <1>11, <1>12, <1>13 DEF DayMatches, onDay
<1> QED BY <1>7, <1>8, <1>10, <1>14, <1>15 DEF s
-----------------------------------------------------------------------------
(* Minutes that share a part.                                              *)

(* The day, the hour and the minute of a time are the digits of it.        *)
LEMMA Digits ==
  ASSUME NEW a \in Nat, NEW b \in Nat \ {0}, NEW c \in Nat \ {0}
  PROVE  /\ a \div (b * c) = (a \div b) \div c
         /\ a % b = (a % (b * c)) % b
         /\ (a \div b) % c = (a % (b * c)) \div b
<1> DEFINE d == b * c
<1>1. d \in Nat \ {0} /\ d = b * c
  OBVIOUS
<1> HIDE DEF d
<1> DEFINE q == a \div d
           r == a % d
           h == r \div b
           m == r % b
<1>2. q \in Nat /\ r \in 0..(d - 1) /\ a = (d * q) + r
  BY <1>1, DivFacts
<1>3. r \in Nat
  BY <1>1, <1>2
<1>4. h \in Nat /\ m \in 0..(b - 1) /\ r = (b * h) + m
  <2> HIDE DEF r
  <2> QED BY <1>3, DivFacts
<1> HIDE DEF q, r, h, m
<1>5. h < c
  <2>1. r < b * c
    BY <1>1, <1>2
  <2> QED BY <1>3, <2>1, DivLess DEF h
<1> DEFINE g == (c * q) + h
<1>6. g \in Nat
  BY <1>2, <1>4
<1>7. a = (b * g) + m
  <2>1. b * g = (d * q) + (b * h)
    BY <1>1, <1>2, <1>4
  <2> HIDE DEF g
  <2> QED BY <1>1, <1>2, <1>4, <1>6, <2>1
<1>8. h \in 0..(c - 1) /\ g = (c * q) + h
  BY <1>4, <1>5
<1> HIDE DEF g
<1>9. g \div c = q /\ g % c = h
  BY <1>2, <1>6, <1>8, DivModUnique
<1>10. a \div b = g /\ a % b = m
  BY <1>4, <1>6, <1>7, DivModUnique
<1> QED BY <1>9, <1>10 DEF d, q, r, h, m

(* The rest of a unit: its later minutes are in the same one, and it ends. *)
LEMMA RestOf ==
  ASSUME NEW u \in Nat, NEW b \in Nat \ {0}, NEW q \in Nat, u \div b < q
  PROVE  /\ b * q \in Nat /\ b * q > u
         /\ \A v \in u..((b * q) - 1) : v \in Nat /\ u \div b <= v \div b /\ v \div b < q
<1>1. b * q \in Nat
  OBVIOUS
<1>2. u < b * q
  <2>1. ~(b * q <= u)
    BY DivFacts, DivLess
  <2> QED BY <1>1, <2>1
<1>3. ASSUME NEW v \in u..((b * q) - 1)
      PROVE  v \in Nat /\ u \div b <= v \div b /\ v \div b < q
  <2>1. v \in Nat /\ u <= v /\ v < b * q
    BY <1>1
  <2>2. v \div b < q
    BY <2>1, DivLess
  <2>3. u \div b \in Nat /\ b * (u \div b) <= u
    BY DivFacts
  <2>4. b * (u \div b) \in Nat
    BY <2>3
  <2>5. b * (u \div b) <= v
    BY <2>1, <2>3, <2>4
  <2>6. u \div b <= v \div b
    BY <2>1, <2>3, <2>5, DivLess
  <2> QED BY <2>1, <2>2, <2>6
<1> QED BY <1>1, <1>2, <1>3

LEMMA RestOfMonth ==
  ASSUME NEW u, InCalendar(u)
  PROVE  LET ends == MinutesPerDay * MonthStart[MonthIndex(u) + 1] IN
         /\ ends \in Nat /\ ends > u
         /\ \A v \in u..(ends - 1) : InCalendar(v) /\ Month(v) = Month(u)
<1> DEFINE k == MonthIndex(u)
           q == MonthStart[k + 1]
<1>1. k \in Months /\ MonthStart[k] <= Day(u) /\ Day(u) < q
  BY MonthIndexIs
<1>2. u \in Nat /\ Day(u) \in Nat
  BY DEF InCalendar
<1>3. {k, k + 1, Len(MonthLengths) + 1} \subseteq 1..(Len(MonthLengths) + 1)
      /\ k + 1 <= Len(MonthLengths) + 1
  <2> HIDE DEF k, q
  <2> QED BY <1>1, Units DEF Months
<1> HIDE DEF k
<1>4. q \in Nat /\ MonthStart[k] \in Nat /\ q <= EndOfDays /\ EndOfDays \in Nat
  BY <1>3, MonthStartTyped, MonthsInOrder DEF EndOfDays
<1> HIDE DEF q
<1>5. /\ MinutesPerDay * q \in Nat /\ MinutesPerDay * q > u
      /\ \A v \in u..((MinutesPerDay * q) - 1) : v \in Nat /\ Day(u) <= Day(v) /\ Day(v) < q
  BY <1>1, <1>2, <1>4, Units, RestOf DEF Day
<1>6. ASSUME NEW v \in u..((MinutesPerDay * q) - 1) PROVE InCalendar(v) /\ Month(v) = Month(u)
  <2>1. v \in Nat /\ Day(u) <= Day(v) /\ Day(v) < q /\ Day(v) \in Nat
    BY <1>5, Units, DivFacts DEF Day
  <2>2. InCalendar(v)
    BY <1>4, <2>1 DEF InCalendar
  <2> DEFINE j == MonthIndex(v)
  <2>3. j \in Months /\ MonthStart[j] <= Day(v) /\ Day(v) < MonthStart[j + 1]
    BY <2>2, MonthIndexIs
  <2> HIDE DEF j
  <2>4. MonthStart[k] <= Day(v)
    BY <1>1, <1>2, <1>4, <2>1
  <2>5. j = k
    BY <1>1, <2>1, <2>3, <2>4, MonthUnique DEF q
  <2> QED BY <2>2, <2>5 DEF Month, j, k
<1> QED BY <1>5, <1>6 DEF k, q

LEMMA RestOfDay ==
  ASSUME NEW u, InCalendar(u)
  PROVE  LET ends == MinutesPerDay * (Day(u) + 1) IN
         /\ ends \in Nat /\ ends > u
         /\ \A v \in u..(ends - 1) : InCalendar(v) /\ Day(v) = Day(u)
<1> DEFINE q == Day(u) + 1
<1>1. u \in Nat /\ Day(u) \in Nat /\ Day(u) < EndOfDays
  BY DEF InCalendar
<1>2. q \in Nat /\ Day(u) < q
  BY <1>1
<1> HIDE DEF q
<1>3. /\ MinutesPerDay * q \in Nat /\ MinutesPerDay * q > u
      /\ \A v \in u..((MinutesPerDay * q) - 1) : v \in Nat /\ Day(u) <= Day(v) /\ Day(v) < q
  BY <1>1, <1>2, Units, RestOf DEF Day
<1>4. ASSUME NEW v \in u..((MinutesPerDay * q) - 1) PROVE InCalendar(v) /\ Day(v) = Day(u)
  <2>1. v \in Nat /\ Day(u) <= Day(v) /\ Day(v) < q /\ Day(v) \in Nat
    BY <1>3, Units, DivFacts DEF Day
  <2>2. Day(v) = Day(u)
    BY <1>1, <2>1 DEF q
  <2> QED BY <1>1, <2>1, <2>2 DEF InCalendar
<1> QED BY <1>3, <1>4 DEF q

LEMMA RestOfHour ==
  ASSUME NEW u, InCalendar(u)
  PROVE  LET ends == MinutesPerHour * ((u \div MinutesPerHour) + 1) IN
         /\ ends \in Nat /\ ends > u
         /\ \A v \in u..(ends - 1) : InCalendar(v) /\ Hour(v) = Hour(u)
<1> DEFINE p == u \div MinutesPerHour
           q == p + 1
<1>1. u \in Nat /\ p \in Nat
  BY Units, DivFacts DEF InCalendar
<1> HIDE DEF p
<1>2. q \in Nat /\ p < q
  BY <1>1
<1> HIDE DEF q
<1>3. /\ MinutesPerHour * q \in Nat /\ MinutesPerHour * q > u
      /\ \A v \in u..((MinutesPerHour * q) - 1) :
           v \in Nat /\ p <= v \div MinutesPerHour /\ v \div MinutesPerHour < q
  BY <1>1, <1>2, Units, RestOf DEF p
<1>4. ASSUME NEW v \in u..((MinutesPerHour * q) - 1) PROVE InCalendar(v) /\ Hour(v) = Hour(u)
  <2>1. v \in Nat /\ p <= v \div MinutesPerHour /\ v \div MinutesPerHour < q
    BY <1>3
  <2>2. v \div MinutesPerHour \in Nat
    BY <2>1, Units, DivFacts
  <2>3. v \div MinutesPerHour = u \div MinutesPerHour
    <3>1. v \div MinutesPerHour = p
      <4> DEFINE w == v \div MinutesPerHour
      <4> HIDE DEF w
      <4>1. w \in Nat /\ p <= w /\ w < p + 1
        BY <2>1, <2>2 DEF w, q
      <4>2. w = p
        BY <1>1, <4>1
      <4> QED BY <4>2 DEF w
    <3> QED BY <3>1 DEF p
  <2>4. Hour(v) = Hour(u)
    BY <2>3 DEF Hour
  <2>5. Day(v) = Day(u)
    <3>1. Day(v) = (v \div MinutesPerHour) \div HoursPerDay
      BY <2>1, Units, Digits DEF Day, MinutesPerDay
    <3>2. Day(u) = (u \div MinutesPerHour) \div HoursPerDay
      BY <1>1, Units, Digits DEF Day, MinutesPerDay
    <3> QED BY <2>3, <3>1, <3>2
  <2> QED BY <2>1, <2>4, <2>5 DEF InCalendar
<1> QED BY <1>3, <1>4 DEF p, q

(* Times alike have the same minute, hour and month.                       *)
LEMMA AlikeParts ==
  ASSUME NEW u \in Nat, NEW v \in Nat, Alike(u, v)
  PROVE  Minute(u) = Minute(v) /\ Hour(u) = Hour(v) /\ Month(u) = Month(v)
<1>1. ASSUME NEW w \in Nat
      PROVE  /\ w % MinutesPerHour = (w % MinutesPerDay) % MinutesPerHour
             /\ (w \div MinutesPerHour) % HoursPerDay = (w % MinutesPerDay) \div MinutesPerHour
  <2> DEFINE b == MinutesPerHour
             c == HoursPerDay
  <2>1. b \in Nat \ {0} /\ c \in Nat \ {0} /\ MinutesPerDay = b * c
    BY Units
  <2> HIDE DEF b, c
  <2>2. w % b = (w % (b * c)) % b /\ (w \div b) % c = (w % (b * c)) \div b
    BY <2>1, Digits
  <2> QED BY <2>1, <2>2 DEF b, c
<1> QED BY <1>1 DEF Alike, Minute, Hour

-----------------------------------------------------------------------------
(* The inductive invariant.                                                *)

Typed ==
  /\ cron \in Expressions /\ schedule = Parse(cron) /\ Accepted(schedule)
  /\ from \in Starts /\ t \in Nat /\ t > from
  /\ phase \in {"searching", "found", "never"}

(* Nothing fires between the start and the minute the loop is at.          *)
Silence == \A v \in (from + 1)..(t - 1) : ~Fires(cron, v)

(* "never" comes at the end of the search.                                 *)
Answered ==
  /\ phase = "found" => Fires(cron, t)
  /\ phase = "never" => t >= AddYears(from + 1, SearchYears)

SearchIInv == Typed /\ Silence /\ Answered

LEMMA InitHolds == SearchInit => SearchIInv
<1> SUFFICES ASSUME SearchInit PROVE SearchIInv
  OBVIOUS
<1>1. from \in Nat
  BY StartsAssumption DEF SearchInit
<1>2. Typed
  BY <1>1 DEF Typed, SearchInit
<1>3. Silence
  BY <1>1 DEF Silence, SearchInit
<1>4. Answered
  BY DEF Answered, SearchInit
<1> QED BY <1>2, <1>3, <1>4 DEF SearchIInv

(* The search stays within the calendar.                                   *)
LEMMA SearchInCalendar ==
  ASSUME Typed, Searching
  PROVE  InCalendar(t)
<1> DEFINE end == AddYears(from + 1, SearchYears)
<1>1. t \in Nat /\ t < end
  BY DEF Typed, Searching
<1>2. end \in 0..(Horizon + 1)
  BY StartsAssumption DEF Typed
<1> HIDE DEF end
<1>3. t <= Horizon
  BY <1>1, <1>2, CalendarEnds
<1> QED BY <1>1, <1>3, CalendarEnds

(* A jump over minutes of which none fires keeps the silence.              *)
LEMMA JumpSilent ==
  ASSUME SearchIInv, phase = "searching", NEW u \in Nat, u > t, Jump(u),
         \A v \in t..(u - 1) : ~Fires(cron, v)
  PROVE  SearchIInv'
<1>1. t \in Nat /\ from \in Nat /\ t > from
  BY StartsAssumption DEF SearchIInv, Typed
<1>2. t' = u /\ cron' = cron /\ schedule' = schedule /\ from' = from /\ phase' = phase
  BY DEF Jump
<1>3. Typed'
  BY <1>1, <1>2 DEF SearchIInv, Typed
<1>4. Silence'
  <2>1. \A v \in (from + 1)..(u - 1) : ~Fires(cron, v)
    <3>1. \A v \in (from + 1)..(u - 1) : v \in (from + 1)..(t - 1) \/ v \in t..(u - 1)
      BY <1>1
    <3> QED BY <3>1 DEF SearchIInv, Silence
  <2>2. \A v : Fires(cron', v) <=> Fires(cron, v)
    BY <1>2
  <2> QED BY <1>2, <2>1, <2>2 DEF Silence
<1>5. Answered'
  BY <1>2 DEF Answered
<1> QED BY <1>3, <1>4, <1>5 DEF SearchIInv

LEMMA NextMonthKeeps == SearchIInv /\ NextMonth => SearchIInv'
<1> SUFFICES ASSUME SearchIInv, NextMonth PROVE SearchIInv'
  OBVIOUS
<1> DEFINE u == MinutesPerDay * MonthStart[MonthIndex(t) + 1]
<1>1. /\ cron \in Expressions /\ schedule = Parse(cron) /\ Accepted(schedule)
      /\ phase = "searching" /\ Month(t) \notin schedule.month /\ Jump(u)
  BY DEF SearchIInv, Typed, NextMonth, Searching
<1>2. InCalendar(t)
  BY SearchInCalendar DEF SearchIInv, NextMonth
<1>3. /\ u \in Nat /\ u > t
      /\ \A v \in t..(u - 1) : InCalendar(v) /\ Month(v) = Month(t)
  BY <1>2, RestOfMonth
<1> HIDE DEF u
<1>4. \A v \in t..(u - 1) : ~Fires(cron, v)
  BY <1>1, <1>3, ScheduleMeans
<1> QED BY <1>1, <1>3, <1>4, JumpSilent

LEMMA NextDayKeeps == SearchIInv /\ NextDay => SearchIInv'
<1> SUFFICES ASSUME SearchIInv, NextDay PROVE SearchIInv'
  OBVIOUS
<1> DEFINE u == MinutesPerDay * (Day(t) + 1)
<1>1. /\ cron \in Expressions /\ schedule = Parse(cron) /\ Accepted(schedule)
      /\ phase = "searching" /\ ~DayMatches(schedule, t) /\ Jump(u)
  BY DEF SearchIInv, Typed, NextDay, Searching
<1>2. InCalendar(t)
  BY SearchInCalendar DEF SearchIInv, NextDay
<1>3. /\ u \in Nat /\ u > t
      /\ \A v \in t..(u - 1) : InCalendar(v) /\ Day(v) = Day(t)
  BY <1>2, RestOfDay
<1> HIDE DEF u
<1>4. ASSUME NEW v \in t..(u - 1) PROVE ~Fires(cron, v)
  <2>1. InCalendar(v) /\ Day(v) = Day(t)
    BY <1>3
  <2>2. MonthIndex(v) = MonthIndex(t)
    BY <2>1 DEF MonthIndex
  <2>3. Dom(v) = Dom(t) /\ Weekday(v) = Weekday(t)
    BY <2>1, <2>2 DEF Dom, Weekday
  <2>4. ~DayMatches(schedule, v)
    BY <1>1, <2>3 DEF DayMatches
  <2> QED BY <1>1, <2>1, <2>4, ScheduleMeans
<1> QED BY <1>1, <1>3, <1>4, JumpSilent

LEMMA NextHourKeeps == SearchIInv /\ NextHour => SearchIInv'
<1> SUFFICES ASSUME SearchIInv, NextHour PROVE SearchIInv'
  OBVIOUS
<1> DEFINE u == MinutesPerHour * ((t \div MinutesPerHour) + 1)
<1>1. /\ cron \in Expressions /\ schedule = Parse(cron) /\ Accepted(schedule)
      /\ phase = "searching" /\ Searching /\ Hour(t) \notin schedule.hour /\ Jump(u)
  BY DEF SearchIInv, Typed, NextHour, OnDay, Searching
<1>2. InCalendar(t)
  BY <1>1, SearchInCalendar DEF SearchIInv
<1>3. /\ u \in Nat /\ u > t
      /\ \A v \in t..(u - 1) : InCalendar(v) /\ Hour(v) = Hour(t)
  BY <1>2, RestOfHour
<1> HIDE DEF u
<1>4. \A v \in t..(u - 1) : ~Fires(cron, v)
  BY <1>1, <1>3, ScheduleMeans
<1> QED BY <1>1, <1>3, <1>4, JumpSilent

LEMMA NextMinuteKeeps == SearchIInv /\ NextMinute => SearchIInv'
<1> SUFFICES ASSUME SearchIInv, NextMinute PROVE SearchIInv'
  OBVIOUS
<1>1. /\ cron \in Expressions /\ schedule = Parse(cron) /\ Accepted(schedule) /\ t \in Nat
      /\ phase = "searching" /\ Searching /\ Minute(t) \notin schedule.minute /\ Jump(t + 1)
  BY DEF SearchIInv, Typed, NextMinute, OnDay, Searching
<1>2. InCalendar(t)
  BY <1>1, SearchInCalendar DEF SearchIInv
<1>3. t + 1 \in Nat /\ t + 1 > t /\ \A v \in t..((t + 1) - 1) : v = t
  BY <1>1
<1>4. ~Fires(cron, t)
  BY <1>1, <1>2, ScheduleMeans
<1>5. \A v \in t..((t + 1) - 1) : ~Fires(cron, v)
  BY <1>3, <1>4
<1> QED BY <1>1, <1>3, <1>5, JumpSilent

LEMMA AnswerKeeps ==
  ASSUME SearchIInv, NEW p \in {"found", "never"}, Answer(p),
         p = "found" => Fires(cron, t), p = "never" => t >= AddYears(from + 1, SearchYears)
  PROVE  SearchIInv'
<1>1. phase' = p /\ cron' = cron /\ schedule' = schedule /\ from' = from /\ t' = t
  BY DEF Answer
<1>2. Typed'
  BY <1>1 DEF SearchIInv, Typed
<1>3. Silence'
  BY <1>1 DEF SearchIInv, Silence
<1>4. Answered'
  <2>1. (Fires(cron, t))' <=> Fires(cron, t)
    BY <1>1
  <2>2. (AddYears(from + 1, SearchYears))' = AddYears(from + 1, SearchYears)
    BY <1>1
  <2> QED BY <1>1, <2>1, <2>2 DEF Answered
<1> QED BY <1>2, <1>3, <1>4 DEF SearchIInv

LEMMA FoundKeeps == SearchIInv /\ Found => SearchIInv'
<1> SUFFICES ASSUME SearchIInv, Found PROVE SearchIInv'
  OBVIOUS
<1>1. /\ cron \in Expressions /\ schedule = Parse(cron) /\ Accepted(schedule) /\ Searching
      /\ Minute(t) \in schedule.minute /\ Hour(t) \in schedule.hour
      /\ Month(t) \in schedule.month /\ DayMatches(schedule, t) /\ Answer("found")
  BY DEF SearchIInv, Typed, Found, OnDay
<1>2. InCalendar(t)
  BY <1>1, SearchInCalendar DEF SearchIInv
<1>3. Fires(cron, t)
  BY <1>1, <1>2, ScheduleMeans
<1> QED BY <1>1, <1>3, AnswerKeeps

LEMMA GiveUpKeeps == SearchIInv /\ GiveUp => SearchIInv'
BY AnswerKeeps DEF GiveUp

(* What the loop goes through keeps the invariant.                         *)
THEOREM SearchInvariance == SearchSpec => []SearchIInv
<1>1. SearchIInv /\ [SearchNext]_searchVars => SearchIInv'
  <2> SUFFICES ASSUME SearchIInv, [SearchNext]_searchVars PROVE SearchIInv'
    OBVIOUS
  <2>1. CASE UNCHANGED searchVars
    BY <2>1 DEF searchVars, SearchIInv, Typed, Silence, Answered
  <2> QED BY <2>1, NextMonthKeeps, NextDayKeeps, NextHourKeeps, NextMinuteKeeps,
             FoundKeeps, GiveUpKeeps DEF SearchNext
<1> QED BY InitHolds, <1>1, PTL DEF SearchSpec

-----------------------------------------------------------------------------
(* An expression that fires again fires within the years looked at: the    *)
(* same day of the month, or the same weekday, comes in them.              *)
LEMMA FiresSoon ==
  ASSUME NEW e \in Expressions, Accepted(Parse(e)), NEW s \in Starts,
         NEW u \in (s + 1)..Horizon, Fires(e, u)
  PROVE  \E v \in (s + 1)..(AddYears(s + 1, SearchYears) - 1) : Fires(e, v)
<1> DEFINE end == AddYears(s + 1, SearchYears)
           sch == Parse(e)
<1>1. s \in Nat /\ end \in 0..(Horizon + 1)
  BY StartsAssumption
<1>2. /\ \E v \in (s + 1)..(end - 1) : Alike(u, v) /\ Dom(u) = Dom(v)
      /\ \E v \in (s + 1)..(end - 1) : Alike(u, v) /\ Weekday(u) = Weekday(v)
  BY SearchAssumption
<1> HIDE DEF end, sch
<1>3. u \in Nat /\ InCalendar(u)
  BY <1>1, CalendarEnds
<1>4. \A v \in (s + 1)..(end - 1) : v \in Nat /\ InCalendar(v)
  BY <1>1, CalendarEnds
<1>5. /\ Minute(u) \in sch.minute /\ Hour(u) \in sch.hour
      /\ Month(u) \in sch.month /\ DayMatches(sch, u)
  BY <1>3, ScheduleMeans DEF sch
<1>6. ASSUME NEW v \in (s + 1)..(end - 1), Alike(u, v), DayMatches(sch, v) PROVE Fires(e, v)
  <2>1. Minute(v) \in sch.minute /\ Hour(v) \in sch.hour /\ Month(v) \in sch.month
    BY <1>3, <1>4, <1>5, <1>6, AlikeParts
  <2> QED BY <1>4, <1>6, <2>1, ScheduleMeans DEF sch
<1>7. PICK v \in (s + 1)..(end - 1) : Alike(u, v) /\ Dom(u) = Dom(v)
  BY <1>2
<1>8. PICK w \in (s + 1)..(end - 1) : Alike(u, w) /\ Weekday(u) = Weekday(w)
  BY <1>2
<1>9. DayMatches(sch, v) \/ DayMatches(sch, w)
  BY <1>5, <1>7, <1>8 DEF DayMatches
<1> QED BY <1>6, <1>7, <1>8, <1>9 DEF end

(* SearchNext finds the first fire, and says "never" only where there is none    *)
(* (cron.go:173-238).                                                      *)
THEOREM FirstFire == SearchSpec => []NextIsFirstFire
<1>1. SearchIInv => NextIsFirstFire
  <2> SUFFICES ASSUME SearchIInv PROVE NextIsFirstFire
    OBVIOUS
  <2>1. t > from /\ \A v \in (from + 1)..(t - 1) : ~Fires(cron, v)
    BY DEF SearchIInv, Typed, Silence
  <2>2. phase = "found" => Fires(cron, t)
    BY DEF SearchIInv, Answered
  <2>3. ASSUME phase = "never", NEW u \in (from + 1)..Horizon PROVE ~Fires(cron, u)
    <3> DEFINE end == AddYears(from + 1, SearchYears)
    <3>1. /\ cron \in Expressions /\ Accepted(Parse(cron)) /\ from \in Starts /\ t \in Nat
          /\ t >= end
      BY <2>3 DEF SearchIInv, Typed, Answered
    <3>2. Fires(cron, u) => \E v \in (from + 1)..(end - 1) : Fires(cron, v)
      BY <2>3, <3>1, FiresSoon
    <3>3. from \in Nat /\ end \in Int
      BY <3>1, StartsAssumption
    <3> HIDE DEF end
    <3>4. \A v \in (from + 1)..(end - 1) : v \in (from + 1)..(t - 1)
      BY <3>1, <3>3
    <3> QED BY <2>1, <3>2, <3>4
  <2> QED BY <2>1, <2>2, <2>3 DEF NextIsFirstFire
<1> QED BY SearchInvariance, <1>1, PTL

-----------------------------------------------------------------------------
(* The dispatch.                                                           *)
(* The sets a goroutine keeps a pointer into have been built, and the      *)
(* libraries a reload has read are a list of them.                         *)
SetsSound ==
  /\ live <= built /\ pass.set <= built
  /\ \A r \in Reloaders : reload[r].state = "built" => reload[r].set \in 1..built
  /\ \A r \in Reloaders : reload[r].state = "loaded" => reload[r].libraries \in Libraries
  /\ \A r \in Requests : trigger[r].state = "called" =>
       /\ trigger[r].set <= built
       /\ trigger[r].id \in DOMAIN rows[trigger[r].set]
  /\ \A g \in Sets : g > built => \A i \in Ids : fires[g][i] = <<>>

(* A cursor stands on an occurrence of its row, or has run out.            *)
CursorSound ==
  \A g \in 1..built : \A i \in Ids :
    next[g][i] # 0 => i \in DOMAIN rows[g] /\ next[g][i] \in rows[g][i].fires

InCall(g, i) == pass.called /\ pass.set = g /\ IsFirst(i, pass.due)

(* What the pass has collected but not yet dispatched lies after all that  *)
(* its entry was dispatched for.                                           *)
PassSound ==
  /\ pass.at <= now /\ tick <= now
  /\ pass.called => pass.due # {}
  /\ \A i \in pass.due :
       LET s == fires[pass.set][i] o == pass.occ[i] IN
       /\ i \in DOMAIN rows[pass.set]
       /\ o \in rows[pass.set][i].fires /\ o <= pass.at
       /\ IF InCall(pass.set, i) THEN s # <<>> /\ s[Len(s)] = o
          ELSE s # <<>> => s[Len(s)] < o

(* The occurrences of a cell rise, and the cursor is past them.            *)
FiresSound ==
  \A g \in 1..built : \A i \in Ids :
    LET s == fires[g][i] IN
    /\ \A a, b \in 1..Len(s) : a < b => s[a] < s[b]
    /\ \A a \in 1..Len(s) :
         i \in DOMAIN rows[g] /\ s[a] \in rows[g][i].fires /\ s[a] <= now
    /\ s # <<>> /\ ~InCall(g, i) /\ next[g][i] # 0 => s[Len(s)] < next[g][i]

IInv == TypeOK /\ SetsSound /\ CursorSound /\ PassSound /\ FiresSound

-----------------------------------------------------------------------------
(* The operators.                                                          *)

(* cron.Next gives a later occurrence, or none.                            *)
LEMMA NextFireFacts ==
  ASSUME NEW occurrences \in SUBSET (1..MaxTime), NEW at \in Nat
  PROVE  /\ NextFire(occurrences, at) \in Time
         /\ NextFire(occurrences, at) # 0 =>
              NextFire(occurrences, at) \in occurrences /\ NextFire(occurrences, at) > at
<1> DEFINE later == {o \in occurrences : o > at}
<1>0. MaxTime \in Nat /\ later \subseteq Nat
  <2>1. MaxTime \in Nat
    BY BoundsAssumption
  <2>2. later \subseteq 1..MaxTime
    OBVIOUS
  <2>3. 1..MaxTime \subseteq Nat
    BY <2>1
  <2> QED BY <2>1, <2>2, <2>3
<1>1. CASE later = {}
  BY <1>0, <1>1 DEF NextFire, Time
<1>2. CASE later # {}
  <2>1. \E o \in later : \A p \in later : o <= p
    <3> HIDE DEF later
    <3> QED BY <1>0, <1>2, LeastElement
  <2>2. NextFire(occurrences, at) = CHOOSE o \in later : \A p \in later : o <= p
    BY <1>2 DEF NextFire
  <2>3. NextFire(occurrences, at) \in later
    <3> HIDE DEF later
    <3> QED BY <2>1, <2>2
  <2> QED BY <1>0, <2>3 DEF Time
<1> QED BY <1>1, <1>2

LEMMA RowFacts ==
  ASSUME NEW f \in Files \cup {NoRows}, NEW i \in DOMAIN f
  PROVE  i \in Ids /\ f[i] \in Row /\ f[i].fires \in SUBSET (1..MaxTime)
<1>1. f \in Files
  <2>1. DOMAIN NoRows = {}
    BY DEF NoRows
  <2> QED BY <2>1
<1>2. DOMAIN f \subseteq Ids /\ f[i] \in Row
  BY <1>1, FilesAssumption
<1> QED BY <1>2 DEF Row

LEMMA FirstNextsFacts ==
  ASSUME NEW f \in Files \cup {NoRows}, NEW at \in Nat
  PROVE  /\ FirstNexts(f, at) \in [Ids -> Time]
         /\ \A i \in Ids : FirstNexts(f, at)[i] # 0 =>
              i \in DOMAIN f /\ FirstNexts(f, at)[i] \in f[i].fires
<1>1. ASSUME NEW i \in Ids
      PROVE  /\ FirstNexts(f, at)[i] \in Time
             /\ FirstNexts(f, at)[i] # 0 =>
                  i \in DOMAIN f /\ FirstNexts(f, at)[i] \in f[i].fires
  <2>1. CASE i \in DOMAIN f
    <3>1. FirstNexts(f, at)[i] = NextFire(f[i].fires, at)
      BY <2>1 DEF FirstNexts
    <3>2. f[i].fires \in SUBSET (1..MaxTime)
      BY <2>1, RowFacts
    <3> QED BY <2>1, <3>1, <3>2, NextFireFacts
  <2>2. CASE i \notin DOMAIN f
    <3>1. FirstNexts(f, at)[i] = 0
      BY <2>2 DEF FirstNexts
    <3> QED BY <3>1, BoundsAssumption DEF Time
  <2> QED BY <2>1, <2>2
<1>2. FirstNexts(f, at) = [i \in Ids |-> FirstNexts(f, at)[i]]
  BY DEF FirstNexts
<1>3. \A i \in Ids : FirstNexts(f, at)[i] \in Time
  BY <1>1
<1>4. FirstNexts(f, at) \in [Ids -> Time]
  BY <1>3 DEF FirstNexts
<1> QED BY <1>1, <1>4

LEMMA TypeFacts ==
  ASSUME TypeOK
  PROVE  /\ Time \subseteq Nat /\ MaxTime \in Nat /\ MaxTime > 0
         /\ MaxSets \in Nat /\ MaxSets > 0 /\ Sets = 1..MaxSets
         /\ built \in Nat /\ live \in Nat /\ pass.set \in Nat /\ pass.at \in Nat
         /\ now \in Time /\ now \in Nat /\ tick \in Nat
         /\ 1..built \subseteq Sets
         /\ \A i \in pass.due : i \in Ids /\ i \in Nat
         /\ \A g \in Sets, i \in Ids :
              next[g][i] \in Nat /\ fires[g][i] \in Seq(Time) /\ Len(fires[g][i]) \in Nat
         /\ \A g \in Sets : rows[g] \in Files \cup {NoRows}
<1>1. /\ Time \subseteq Nat /\ MaxTime \in Nat /\ MaxTime > 0
      /\ MaxSets \in Nat /\ MaxSets > 0 /\ Sets = 1..MaxSets
  BY BoundsAssumption DEF Time, Sets
<1>2. pass.set \in Sets /\ pass.at \in Time /\ pass.due \subseteq Ids
  BY DEF TypeOK
<1>3. built \in Sets /\ live \in Sets /\ tick \in Time /\ now \in 1..MaxTime
  BY DEF TypeOK
<1>4. /\ built \in Nat /\ live \in Nat /\ pass.set \in Nat /\ pass.at \in Nat
      /\ now \in Time /\ now \in Nat /\ tick \in Nat
      /\ 1..built \subseteq Sets
  BY <1>1, <1>2, <1>3 DEF Time
<1>5. \A i \in pass.due : i \in Ids /\ i \in Nat
  BY <1>2, IdsAssumption
<1>6. ASSUME NEW g \in Sets, NEW i \in Ids
      PROVE  next[g][i] \in Nat /\ fires[g][i] \in Seq(Time) /\ Len(fires[g][i]) \in Nat
  <2>1. next[g][i] \in Time /\ fires[g][i] \in Seq(Time)
    BY DEF TypeOK
  <2>2. Len(fires[g][i]) \in Nat
    <3> HIDE DEF Time
    <3> QED BY <2>1
  <2> QED BY <1>1, <2>1, <2>2
<1>7. \A g \in Sets : rows[g] \in Files \cup {NoRows}
  BY DEF TypeOK
<1> QED BY <1>1, <1>4, <1>5, <1>6, <1>7

-----------------------------------------------------------------------------
LEMMA InitEstablishes == Init => IInv
<1> SUFFICES ASSUME Init PROVE IInv
  OBVIOUS
<1>0. MaxTime \in Nat /\ MaxTime > 0 /\ MaxSets \in Nat /\ MaxSets > 0 /\ MaxEdits \in Nat
  BY BoundsAssumption
<1>1. 1 \in Sets /\ 0 \in Time /\ 1 \in Nat
  BY <1>0 DEF Sets, Time
<1>2. PICK f \in Files, l \in Libraries :
        /\ disk = [schedules |-> f, libraries |-> l]
        /\ libraries = l
        /\ rows = [g \in Sets |-> IF g = 1 THEN f ELSE NoRows]
        /\ next = [g \in Sets |-> IF g = 1 THEN FirstNexts(f, 1) ELSE [i \in Ids |-> 0]]
  BY DEF Init
<1>3. /\ FirstNexts(f, 1) \in [Ids -> Time]
      /\ \A i \in Ids : FirstNexts(f, 1)[i] # 0 =>
           i \in DOMAIN f /\ FirstNexts(f, 1)[i] \in f[i].fires
  BY <1>1, FirstNextsFacts
<1>4. \A g \in Sets, i \in Ids : fires[g][i] = <<>>
  BY DEF Init
<1>5. /\ now = 1 /\ edits = 0 /\ built = 1 /\ live = 1 /\ tick = 0
      /\ pass = IdlePass
      /\ trigger = [r \in Requests |-> IdleTrigger]
      /\ reload = [r \in Reloaders |-> IdleReload]
      /\ last = [g \in Sets |-> [i \in Ids |-> 0]]
      /\ fires = [g \in Sets |-> [i \in Ids |-> <<>>]]
  BY DEF Init
<1>6. TypeOK
  <2>1. rows \in [Sets -> Files \cup {NoRows}] /\ next \in [Sets -> [Ids -> Time]]
    BY <1>1, <1>2, <1>3
  <2>2. last \in [Sets -> [Ids -> Time]]
    BY <1>1, <1>5
  <2>3. fires \in [Sets -> [Ids -> Seq(Time)]]
    <3>1. <<>> \in Seq(Time)
      OBVIOUS
    <3> QED BY <1>5, <3>1
  <2>4. pass \in [at : Time, set : Sets, due : SUBSET Ids, occ : [Ids -> Time], called : BOOLEAN]
    BY <1>1, <1>5 DEF IdlePass
  <2>5. trigger \in [Requests -> [state : {"new", "called", "done"}, set : Sets,
                                  id : Ids \cup {0}, at : Time]]
    BY <1>1, <1>5 DEF IdleTrigger
  <2>6. reload \in [Reloaders -> [state : {"idle", "loaded", "swapped", "built"},
                                  set : Sets \cup {0}, libraries : Libraries \cup {{}}]]
    BY <1>5 DEF IdleReload
  <2>7. now \in 1..MaxTime /\ edits \in 0..MaxEdits /\ built \in Sets /\ live \in Sets /\ tick \in Time
    BY <1>0, <1>1, <1>5
  <2>8. disk.schedules \in Files /\ disk.libraries \in Libraries /\ libraries \in Libraries
    BY <1>2
  <2> QED BY <2>1, <2>2, <2>3, <2>4, <2>5, <2>6, <2>7, <2>8 DEF TypeOK
<1>7. SetsSound
  BY <1>4, <1>5 DEF SetsSound, IdlePass, IdleTrigger, IdleReload
<1>8. CursorSound
  <2>1. rows[1] = f /\ next[1] = FirstNexts(f, 1)
    BY <1>1, <1>2
  <2> QED BY <1>3, <1>5, <2>1 DEF CursorSound
<1>9. PassSound
  BY <1>5 DEF PassSound, IdlePass
<1>10. FiresSound
  <2>1. \A g \in 1..built, i \in Ids : fires[g][i] = <<>> /\ Len(fires[g][i]) = 0
    BY <1>1, <1>4, <1>5
  <2> QED BY <2>1 DEF FiresSound
<1> QED BY <1>6, <1>7, <1>8, <1>9, <1>10 DEF IInv

-----------------------------------------------------------------------------
(* Steps that leave the cells and the pass alone.                          *)

LEMMA FrameKeeps ==
  ASSUME IInv, UNCHANGED <<built, rows, next, pass, fires>>,
         now' \in Nat, now <= now', tick' <= now'
  PROVE  CursorSound' /\ PassSound' /\ FiresSound'
<1> USE DEF IInv
<1>0. now \in Nat /\ pass.at \in Nat
  BY TypeFacts
<1>1. CursorSound'
  BY DEF CursorSound
<1>2. \A g, i : InCall(g, i)' <=> InCall(g, i)
  BY DEF InCall
<1>3. PassSound'
  <2>1. pass'.at <= now'
    BY <1>0 DEF PassSound
  <2> QED BY <1>2, <2>1 DEF PassSound
<1>4. FiresSound'
  <2> SUFFICES ASSUME NEW g \in 1..built, NEW i \in Ids
               PROVE  LET s == fires[g][i] IN
                      /\ \A a, b \in 1..Len(s) : a < b => s[a] < s[b]
                      /\ \A a \in 1..Len(s) :
                           i \in DOMAIN rows[g] /\ s[a] \in rows[g][i].fires /\ s[a] <= now'
                      /\ s # <<>> /\ ~InCall(g, i) /\ next[g][i] # 0 => s[Len(s)] < next[g][i]
    BY <1>2 DEF FiresSound
  <2> DEFINE s == fires[g][i]
  <2>1. s \in Seq(Time) /\ Time \subseteq Nat
    BY TypeFacts
  <2>2. /\ \A a, b \in 1..Len(s) : a < b => s[a] < s[b]
        /\ \A a \in 1..Len(s) :
             i \in DOMAIN rows[g] /\ s[a] \in rows[g][i].fires /\ s[a] <= now
        /\ s # <<>> /\ ~InCall(g, i) /\ next[g][i] # 0 => s[Len(s)] < next[g][i]
    BY DEF FiresSound
  <2>3. ASSUME NEW a \in 1..Len(s) PROVE s[a] \in Nat
    <3> HIDE DEF s, Time
    <3>1. s[a] \in Time
      BY <2>1
    <3> QED BY <2>1, <3>1
  <2>4. \A a \in 1..Len(s) : s[a] <= now'
    BY <1>0, <2>2, <2>3
  <2> QED BY <2>2, <2>4
<1> QED BY <1>1, <1>3, <1>4

LEMMA ClockKeeps == IInv /\ Clock => IInv'
<1> SUFFICES ASSUME IInv, Clock PROVE IInv'
  OBVIOUS
<1> USE DEF IInv
<1>1. /\ now < MaxTime /\ now' = now + 1
      /\ UNCHANGED <<disk, edits, libraries, built, rows, live, next, last, tick, pass,
                     trigger, reload, fires>>
  BY DEF Clock, files, entries
<1>2. now \in Nat /\ MaxTime \in Nat /\ tick \in Nat /\ tick <= now
  BY TypeFacts DEF PassSound
<1>3. TypeOK'
  <2>1. now' \in 1..MaxTime
    BY <1>1, <1>2
  <2> QED BY <1>1, <2>1 DEF TypeOK
<1>4. SetsSound'
  BY <1>1 DEF SetsSound
<1>5. now' \in Nat /\ now <= now' /\ tick' <= now'
  BY <1>1, <1>2
<1>6. UNCHANGED <<built, rows, next, pass, fires>>
  BY <1>1
<1> QED BY <1>3, <1>4, <1>5, <1>6, FrameKeeps

LEMMA EditKeeps == IInv /\ Edit => IInv'
<1> SUFFICES ASSUME IInv, Edit PROVE IInv'
  OBVIOUS
<1> USE DEF IInv
<1>1. /\ edits < MaxEdits /\ edits' = edits + 1
      /\ \E f \in Files, l \in Libraries : disk' = [schedules |-> f, libraries |-> l]
      /\ UNCHANGED <<now, libraries, built, rows, live, next, last, tick, pass,
                     trigger, reload, fires>>
  BY DEF Edit, entries
<1>2. TypeOK'
  <2>1. edits' \in 0..MaxEdits
    BY <1>1, BoundsAssumption DEF TypeOK
  <2>2. disk'.schedules \in Files /\ disk'.libraries \in Libraries
    BY <1>1
  <2> QED BY <1>1, <2>1, <2>2 DEF TypeOK
<1>3. SetsSound'
  BY <1>1 DEF SetsSound
<1>4. now' \in Nat /\ now <= now' /\ tick' <= now'
  BY <1>1, TypeFacts DEF PassSound
<1>5. UNCHANGED <<built, rows, next, pass, fires>>
  BY <1>1
<1> QED BY <1>2, <1>3, <1>4, <1>5, FrameKeeps

LEMMA TickKeeps == IInv /\ Tick => IInv'
<1> SUFFICES ASSUME IInv, Tick PROVE IInv'
  OBVIOUS
<1> USE DEF IInv
<1>1. /\ tick' = now
      /\ UNCHANGED <<now, disk, edits, libraries, built, rows, live, next, last, pass,
                     trigger, reload, fires>>
  BY DEF Tick, files, entries
<1>2. TypeOK'
  <2>1. tick' \in Time
    BY <1>1, TypeFacts
  <2> QED BY <1>1, <2>1 DEF TypeOK
<1>3. SetsSound'
  BY <1>1 DEF SetsSound
<1>4. now' \in Nat /\ now <= now' /\ tick' <= now'
  BY <1>1, TypeFacts
<1>5. UNCHANGED <<built, rows, next, pass, fires>>
  BY <1>1
<1> QED BY <1>2, <1>3, <1>4, <1>5, FrameKeeps

LEMMA TriggerNowKeeps ==
  ASSUME IInv, NEW r \in Requests, NEW i \in Ids, TriggerNow(r, i)
  PROVE  IInv'
<1> USE DEF IInv
<1> DEFINE call == [state |-> "called", set |-> live, id |-> i, at |-> now]
<1>1. /\ i \in DOMAIN rows[live] /\ trigger' = [trigger EXCEPT ![r] = call]
      /\ UNCHANGED <<now, disk, edits, libraries, built, rows, live, next, last, tick, pass,
                     reload, fires>>
  BY DEF TriggerNow, files, entries
<1>2. call \in [state : {"new", "called", "done"}, set : Sets, id : Ids \cup {0}, at : Time]
  <2>1. live \in Sets /\ now \in Time
    BY TypeFacts DEF TypeOK
  <2> QED BY <2>1
<1>3. trigger \in [Requests -> [state : {"new", "called", "done"}, set : Sets,
                                id : Ids \cup {0}, at : Time]]
  BY DEF TypeOK
<1>4. TypeOK'
  <2>1. trigger' \in [Requests -> [state : {"new", "called", "done"}, set : Sets,
                                   id : Ids \cup {0}, at : Time]]
    <3> HIDE DEF call
    <3> QED BY <1>1, <1>2, <1>3
  <2> QED BY <1>1, <2>1 DEF TypeOK
<1>5. SetsSound'
  <2>1. \A q \in Requests : trigger'[q] = IF q = r THEN call ELSE trigger[q]
    <3> HIDE DEF call
    <3> QED BY <1>1, <1>3
  <2>2. call.set = live /\ call.id = i /\ live <= built
    BY DEF SetsSound
  <2>3. ASSUME NEW q \in Requests, trigger'[q].state = "called"
        PROVE  trigger'[q].set <= built /\ trigger'[q].id \in DOMAIN rows[trigger'[q].set]
    <3>1. CASE q = r
      <4> HIDE DEF call
      <4> QED BY <1>1, <2>1, <2>2, <3>1
    <3>2. CASE q # r
      BY <2>1, <2>3, <3>2 DEF SetsSound
    <3> QED BY <3>1, <3>2
  <2> QED BY <1>1, <2>3 DEF SetsSound
<1>6. now' \in Nat /\ now <= now' /\ tick' <= now'
  BY <1>1, TypeFacts DEF PassSound
<1>7. UNCHANGED <<built, rows, next, pass, fires>>
  BY <1>1
<1> QED BY <1>4, <1>5, <1>6, <1>7, FrameKeeps

(* The steps of a reload but BuildSchedules.                               *)
ReloadType == [state : {"idle", "loaded", "swapped", "built"},
               set : Sets \cup {0}, libraries : Libraries \cup {{}}]

LEMMA QuietReloadKeeps ==
  ASSUME IInv, NEW r \in Reloaders, NEW e \in ReloadType,
         e.state # "built", e.state = "loaded" => e.libraries \in Libraries,
         reload' = [reload EXCEPT ![r] = e],
         live' = live \/ (reload[r].state = "built" /\ live' = reload[r].set),
         libraries' \in Libraries,
         UNCHANGED <<now, disk, edits, built, rows, next, last, tick, pass, trigger, fires>>
  PROVE  IInv'
<1> USE DEF IInv
<1>1. reload \in [Reloaders -> ReloadType]
  BY DEF TypeOK, ReloadType
<1>2. live' \in Sets /\ live' <= built
  <2>1. live \in Sets /\ live <= built /\ (reload[r].state = "built" => reload[r].set \in 1..built)
    BY DEF TypeOK, SetsSound
  <2>2. 1..built \subseteq Sets /\ built \in Nat
    BY TypeFacts
  <2> QED BY <2>1, <2>2
<1>3. TypeOK'
  <2>1. reload' \in [Reloaders -> ReloadType]
    BY <1>1
  <2> QED BY <1>2, <2>1 DEF TypeOK, ReloadType
<1>4. SetsSound'
  <2>1. \A q \in Reloaders : reload'[q] = IF q = r THEN e ELSE reload[q]
    BY <1>1
  <2> QED BY <1>2, <2>1 DEF SetsSound
<1>5. now' \in Nat /\ now <= now' /\ tick' <= now'
  BY TypeFacts DEF PassSound
<1> QED BY <1>3, <1>4, <1>5, FrameKeeps

LEMMA LoadCatalogueKeeps ==
  ASSUME IInv, NEW r \in Reloaders, LoadCatalogue(r) PROVE IInv'
<1> DEFINE e == [state |-> "loaded", set |-> 0, libraries |-> disk.libraries]
<1>1. e \in ReloadType /\ e.state # "built" /\ e.libraries \in Libraries
  BY DEF IInv, TypeOK, ReloadType
<1>2. /\ reload' = [reload EXCEPT ![r] = e] /\ live' = live
      /\ UNCHANGED <<now, disk, edits, built, rows, next, last, tick, pass, trigger, fires>>
      /\ libraries' \in Libraries
  BY DEF LoadCatalogue, files, entries, IInv, TypeOK
<1> HIDE DEF e
<1> QED BY <1>1, <1>2, QuietReloadKeeps

LEMMA SwapCatalogueKeeps ==
  ASSUME IInv, NEW r \in Reloaders, SwapCatalogue(r) PROVE IInv'
<1> DEFINE e == [reload[r] EXCEPT !.state = "swapped"]
<1>1. reload[r] \in ReloadType
  BY DEF IInv, TypeOK, ReloadType
<1>2. e \in ReloadType /\ e.state = "swapped"
  BY <1>1 DEF ReloadType
<1>3. reload[r].state = "loaded" /\ reload[r].libraries \in Libraries
  BY DEF SwapCatalogue, IInv, SetsSound
<1>4. /\ reload' = [reload EXCEPT ![r] = e] /\ live' = live
      /\ UNCHANGED <<now, disk, edits, built, rows, next, last, tick, pass, trigger, fires>>
      /\ libraries' \in Libraries
  BY <1>3 DEF SwapCatalogue, files, entries
<1> HIDE DEF e
<1> QED BY <1>2, <1>4, QuietReloadKeeps

LEMMA RejectSchedulesKeeps ==
  ASSUME IInv, NEW r \in Reloaders, RejectSchedules(r) PROVE IInv'
<1>1. IdleReload \in ReloadType /\ IdleReload.state = "idle"
  BY DEF ReloadType, IdleReload
<1>2. /\ reload' = [reload EXCEPT ![r] = IdleReload] /\ live' = live
      /\ UNCHANGED <<now, disk, edits, built, rows, next, last, tick, pass, trigger, fires>>
      /\ libraries' \in Libraries
  BY DEF RejectSchedules, files, entries, IInv, TypeOK
<1> QED BY <1>1, <1>2, QuietReloadKeeps

LEMMA SwapSchedulesKeeps ==
  ASSUME IInv, NEW r \in Reloaders, SwapSchedules(r) PROVE IInv'
<1>1. IdleReload \in ReloadType /\ IdleReload.state = "idle"
  BY DEF ReloadType, IdleReload
<1>2. /\ reload' = [reload EXCEPT ![r] = IdleReload]
      /\ reload[r].state = "built" /\ live' = reload[r].set
      /\ UNCHANGED <<now, disk, edits, built, rows, next, last, tick, pass, trigger, fires>>
      /\ libraries' \in Libraries
  BY DEF SwapSchedules, files, IInv, TypeOK
<1> QED BY <1>1, <1>2, QuietReloadKeeps

(* SetSchedules builds a set nothing was dispatched from.                  *)
LEMMA BuildSchedulesKeeps ==
  ASSUME IInv, NEW r \in Reloaders, BuildSchedules(r) PROVE IInv'
<1> USE DEF IInv
<1> DEFINE n == built + 1
           f == disk.schedules
           e == [state |-> "built", set |-> n, libraries |-> {}]
<1>1. /\ built < MaxSets /\ built' = n
      /\ rows' = [rows EXCEPT ![n] = f]
      /\ next' = [next EXCEPT ![n] = FirstNexts(f, now)]
      /\ reload' = [reload EXCEPT ![r] = e]
      /\ UNCHANGED <<now, disk, edits, libraries, live, last, tick, pass, trigger, fires>>
  BY DEF BuildSchedules, files
<1>2. /\ n \in Sets /\ built \in Nat /\ n \in Nat /\ 1..built \subseteq Sets
      /\ now \in Nat /\ f \in Files
  <2>1. MaxSets \in Nat /\ Sets = 1..MaxSets /\ built \in Nat /\ 1..built \subseteq Sets /\ now \in Nat
    BY TypeFacts
  <2>2. n \in Sets /\ n \in Nat
    BY <1>1, <2>1
  <2>3. f \in Files
    BY DEF TypeOK
  <2> QED BY <2>1, <2>2, <2>3
<1>3. /\ FirstNexts(f, now) \in [Ids -> Time]
      /\ \A i \in Ids : FirstNexts(f, now)[i] # 0 =>
           i \in DOMAIN f /\ FirstNexts(f, now)[i] \in f[i].fires
  BY <1>2, FirstNextsFacts
<1> HIDE DEF f
<1>4. reload \in [Reloaders -> ReloadType] /\ e \in ReloadType
  BY <1>2 DEF TypeOK, ReloadType
<1>5. /\ rows \in [Sets -> Files \cup {NoRows}] /\ next \in [Sets -> [Ids -> Time]]
      /\ pass.set \in Nat /\ live \in Nat
  BY TypeFacts DEF TypeOK
<1>6. /\ rows' \in [Sets -> Files \cup {NoRows}] /\ next' \in [Sets -> [Ids -> Time]]
      /\ rows'[n] = f /\ next'[n] = FirstNexts(f, now)
      /\ \A g \in Sets : g # n => rows'[g] = rows[g] /\ next'[g] = next[g]
  BY <1>1, <1>2, <1>3, <1>5
<1>7. /\ reload' \in [Reloaders -> ReloadType]
      /\ \A q \in Reloaders : reload'[q] = IF q = r THEN e ELSE reload[q]
  <2> HIDE DEF e
  <2> QED BY <1>1, <1>4
<1>8. \A g \in 1..built' : g = n \/ g \in 1..built
  BY <1>1, <1>2
<1>9. n \notin 1..built /\ \A g \in 1..built : g \in Sets /\ g # n
  BY <1>2
<1>10. TypeOK'
  BY <1>1, <1>2, <1>6, <1>7 DEF TypeOK, ReloadType
<1>11. SetsSound'
  <2>1. live' <= built' /\ pass'.set <= built'
    BY <1>1, <1>2, <1>5 DEF SetsSound
  <2>2. ASSUME NEW q \in Reloaders
        PROVE  /\ reload'[q].state = "built" => reload'[q].set \in 1..built'
               /\ reload'[q].state = "loaded" => reload'[q].libraries \in Libraries
    BY <1>1, <1>2, <1>7 DEF SetsSound
  <2>3. ASSUME NEW q \in Requests, trigger'[q].state = "called"
        PROVE  trigger'[q].set <= built' /\ trigger'[q].id \in DOMAIN rows'[trigger'[q].set]
    <3>1. trigger[q].set \in Sets /\ trigger[q].set \in Nat
      BY TypeFacts DEF TypeOK
    <3>2. trigger[q].set <= built /\ trigger[q].id \in DOMAIN rows[trigger[q].set]
      BY <1>1, <2>3 DEF SetsSound
    <3>3. trigger[q].set # n
      BY <1>2, <3>1, <3>2
    <3> QED BY <1>1, <1>2, <1>6, <3>1, <3>2, <3>3
  <2>4. ASSUME NEW g \in Sets, g > built' PROVE \A i \in Ids : fires'[g][i] = <<>>
    <3>1. g \in Nat /\ g > built
      BY <1>1, <1>2, <2>4, TypeFacts
    <3> QED BY <1>1, <3>1 DEF SetsSound
  <2> QED BY <2>1, <2>2, <2>3, <2>4 DEF SetsSound
<1>12. CursorSound'
  <2> SUFFICES ASSUME NEW g \in 1..built', NEW i \in Ids, next'[g][i] # 0
               PROVE  i \in DOMAIN rows'[g] /\ next'[g][i] \in rows'[g][i].fires
    BY DEF CursorSound
  <2>1. CASE g = n
    BY <1>3, <1>6, <2>1
  <2>2. CASE g \in 1..built
    BY <1>6, <1>9, <2>2 DEF CursorSound
  <2> QED BY <1>8, <2>1, <2>2
<1>13. \A g, i : InCall(g, i)' <=> InCall(g, i)
  BY <1>1 DEF InCall
<1>14. PassSound'
  <2>1. pass.set \in Sets /\ pass.set # n
    BY <1>2, <1>5 DEF TypeOK, SetsSound
  <2>2. rows'[pass.set] = rows[pass.set]
    BY <1>6, <2>1
  <2> QED BY <1>1, <1>13, <2>2 DEF PassSound
<1>15. FiresSound'
  <2> SUFFICES ASSUME NEW g \in 1..built', NEW i \in Ids
               PROVE  LET s == fires[g][i] IN
                      /\ \A a, b \in 1..Len(s) : a < b => s[a] < s[b]
                      /\ \A a \in 1..Len(s) :
                           i \in DOMAIN rows'[g] /\ s[a] \in rows'[g][i].fires /\ s[a] <= now
                      /\ s # <<>> /\ ~InCall(g, i) /\ next'[g][i] # 0 => s[Len(s)] < next'[g][i]
    BY <1>1, <1>13 DEF FiresSound
  <2>1. CASE g = n
    <3>1. n > built
      BY <1>2
    <3>2. fires[g][i] = <<>>
      BY <1>2, <2>1, <3>1 DEF SetsSound
    <3>3. Len(<<>>) = 0
      OBVIOUS
    <3> QED BY <3>2, <3>3
  <2>2. CASE g \in 1..built
    BY <1>6, <1>9, <2>2 DEF FiresSound
  <2> QED BY <1>8, <2>1, <2>2
<1> QED BY <1>10, <1>11, <1>12, <1>14, <1>15

-----------------------------------------------------------------------------
(* The pass.                                                               *)

PassType == [at : Time, set : Sets, due : SUBSET Ids, occ : [Ids -> Time], called : BOOLEAN]

LEMMA PassStartKeeps == IInv /\ PassStart => IInv'
<1> SUFFICES ASSUME IInv, PassStart PROVE IInv'
  OBVIOUS
<1> USE DEF IInv
<1> DEFINE due == {i \in Ids : IsDue(live, i, tick)}
           p == [at |-> tick, set |-> live, due |-> due, occ |-> next[live], called |-> FALSE]
<1>1. /\ pass.due = {} /\ pass' = p /\ tick' = 0
      /\ UNCHANGED <<now, disk, edits, libraries, built, rows, live, next, last,
                     trigger, reload, fires>>
  BY DEF PassStart, files, entries
<1>2. /\ live \in Sets /\ live \in 1..built /\ tick \in Time /\ next[live] \in [Ids -> Time]
      /\ now \in Nat /\ tick <= now
  <2>1. live \in Sets /\ tick \in Time /\ live <= built /\ tick <= now
    BY DEF TypeOK, SetsSound, PassSound
  <2>2. next[live] \in [Ids -> Time]
    BY <2>1 DEF TypeOK
  <2> QED BY <2>1, <2>2, TypeFacts
<1>3. p \in PassType
  BY <1>2 DEF PassType
<1>4. p.at = tick /\ p.set = live /\ p.due = due /\ p.occ = next[live] /\ p.called = FALSE
  OBVIOUS
<1>5. \A i \in due : i \in Ids /\ i \in DOMAIN rows[live] /\ next[live][i] # 0 /\ next[live][i] <= tick
  BY DEF IsDue
<1> HIDE DEF p, due
<1>6. \A g, i : ~InCall(g, i) /\ ~InCall(g, i)'
  BY <1>1, <1>4 DEF InCall, PassSound
<1>7. TypeOK'
  <2>1. tick' \in Time
    BY <1>1, BoundsAssumption DEF Time
  <2> QED BY <1>1, <1>3, <2>1 DEF TypeOK, PassType
<1>8. SetsSound'
  <2>1. pass'.set <= built
    BY <1>1, <1>2, <1>4
  <2> QED BY <1>1, <2>1 DEF SetsSound
<1>9. CursorSound'
  BY <1>1 DEF CursorSound
<1>10. PassSound'
  <2>1. pass'.at <= now' /\ tick' <= now' /\ ~pass'.called
    BY <1>1, <1>2, <1>4
  <2>2. ASSUME NEW i \in pass'.due
        PROVE  LET s == fires[live][i] o == next[live][i] IN
               /\ i \in DOMAIN rows[live]
               /\ o \in rows[live][i].fires /\ o <= tick
               /\ s # <<>> => s[Len(s)] < o
    <3>1. i \in Ids /\ i \in DOMAIN rows[live] /\ next[live][i] # 0 /\ next[live][i] <= tick
      BY <1>1, <1>4, <1>5, <2>2
    <3>2. next[live][i] \in rows[live][i].fires
      BY <1>2, <3>1 DEF CursorSound
    <3>3. fires[live][i] # <<>> => fires[live][i][Len(fires[live][i])] < next[live][i]
      BY <1>2, <1>6, <3>1 DEF FiresSound
    <3> QED BY <3>1, <3>2, <3>3
  <2>3. pass'.set = live /\ pass'.occ = next[live] /\ pass'.at = tick
    BY <1>1, <1>4
  <2> QED BY <1>1, <1>6, <2>1, <2>2, <2>3 DEF PassSound
<1>11. FiresSound'
  <2>1. FiresSound => FiresSound'
    BY <1>1, <1>6 DEF FiresSound
  <2> QED BY <2>1
<1> QED BY <1>7, <1>8, <1>9, <1>10, <1>11

LEMMA PassCallKeeps ==
  ASSUME IInv, NEW i \in Ids, PassCall(i) PROVE IInv'
<1> USE DEF IInv
<1> DEFINE h == pass.set
           o == pass.occ[i]
           old == fires[h][i]
<1>1. /\ IsFirst(i, pass.due) /\ ~pass.called
      /\ pass' = [pass EXCEPT !.called = TRUE]
      /\ fires' = [fires EXCEPT ![h][i] = Append(@, o)]
      /\ UNCHANGED <<now, disk, edits, libraries, built, rows, live, next, last, tick,
                     trigger, reload>>
  BY DEF PassCall, files, entries
<1>2. pass \in PassType
  BY DEF TypeOK, PassType
<1>3. /\ pass' \in PassType /\ pass'.called
      /\ pass'.at = pass.at /\ pass'.set = pass.set /\ pass'.due = pass.due /\ pass'.occ = pass.occ
  BY <1>1, <1>2 DEF PassType
<1>4. h \in Sets /\ h \in 1..built /\ o \in Time /\ i \in pass.due /\ o \in Nat
      /\ pass.at \in Nat /\ now \in Nat /\ pass.at <= now
  <2>1. h \in Sets /\ o \in Time /\ i \in pass.due
    BY <1>1, <1>2 DEF PassType, IsFirst
  <2> QED BY <2>1, TypeFacts DEF SetsSound, PassSound
<1>5. \A g \in Sets, j \in Ids : fires[g][j] \in Seq(Time)
  BY DEF TypeOK
<1>6. fires \in [Sets -> [Ids -> Seq(Time)]]
  BY DEF TypeOK
<1>7. old \in Seq(Time) /\ Len(old) \in Nat
  BY <1>4, <1>5, TypeFacts
<1>8. /\ Append(old, o) \in Seq(Time) /\ Len(Append(old, o)) = Len(old) + 1
      /\ \A a \in 1..Len(old) : Append(old, o)[a] = old[a]
      /\ Append(old, o)[Len(old) + 1] = o
      /\ \A a \in 1..Len(old) : old[a] \in Nat
  <2>1. Time \subseteq Nat /\ o \in Time
    BY <1>4, TypeFacts
  <2> HIDE DEF h, o, old, Time
  <2>2. Append(old, o) \in Seq(Time)
    BY <1>7, <2>1
  <2>3. /\ Len(Append(old, o)) = Len(old) + 1
        /\ \A a \in 1..Len(old) : Append(old, o)[a] = old[a]
        /\ Append(old, o)[Len(old) + 1] = o
    BY <1>7, <2>1
  <2>4. \A a \in 1..Len(old) : old[a] \in Time
    BY <1>7
  <2> QED BY <2>1, <2>2, <2>3, <2>4
<1>9. /\ fires' \in [Sets -> [Ids -> Seq(Time)]]
      /\ fires'[h][i] = Append(old, o)
      /\ \A g \in Sets, j \in Ids : g # h \/ j # i => fires'[g][j] = fires[g][j]
  <2>1. \A x \in Seq(Time) : [fires EXCEPT ![h][i] = x] \in [Sets -> [Ids -> Seq(Time)]]
    <3> HIDE DEF h, o, old, Time
    <3> QED BY <1>4, <1>6
  <2>2. fires' = [fires EXCEPT ![h][i] = Append(old, o)]
    BY <1>1
  <2> HIDE DEF o, old
  <2>3. fires' \in [Sets -> [Ids -> Seq(Time)]]
    BY <1>8, <2>1, <2>2
  <2>4. /\ fires'[h][i] = Append(old, o)
        /\ \A g \in Sets, j \in Ids : g # h \/ j # i => fires'[g][j] = fires[g][j]
    <3> HIDE DEF h
    <3> QED BY <1>4, <1>6, <2>2
  <2> QED BY <2>3, <2>4
<1>10. /\ i \in DOMAIN rows[h] /\ o \in rows[h][i].fires /\ o <= pass.at
       /\ old # <<>> => old[Len(old)] < o
  BY <1>1, <1>4 DEF PassSound, InCall
<1>11. /\ \A a, b \in 1..Len(old) : a < b => old[a] < old[b]
       /\ \A a \in 1..Len(old) : old[a] \in rows[h][i].fires /\ old[a] <= now
  BY <1>4 DEF FiresSound
<1>12. \A g, j : ~InCall(g, j) /\ (InCall(g, j)' <=> g = h /\ IsFirst(j, pass.due))
  BY <1>1, <1>3 DEF InCall
<1>13. \A j \in pass.due : j \in Ids /\ j \in Nat /\ (IsFirst(j, pass.due) <=> j = i)
  BY <1>1, <1>4, TypeFacts DEF IsFirst
<1> HIDE DEF h, o, old
<1>14. TypeOK'
  BY <1>1, <1>3, <1>9 DEF TypeOK, PassType
<1>15. SetsSound'
  <2>1. \A g \in Sets : g > built => g # h
    BY <1>4, TypeFacts
  <2>2. \A g \in Sets : g > built => \A j \in Ids : fires'[g][j] = <<>>
    BY <1>9, <2>1 DEF SetsSound
  <2> QED BY <1>1, <1>3, <2>2 DEF SetsSound
<1>16. CursorSound'
  BY <1>1 DEF CursorSound
<1>17. PassSound'
  <2> SUFFICES ASSUME NEW j \in pass.due
      PROVE  LET s == fires'[h][j] q == pass.occ[j] IN
             /\ j \in DOMAIN rows[h] /\ q \in rows[h][j].fires /\ q <= pass.at
             /\ IF j = i THEN s # <<>> /\ s[Len(s)] = q ELSE s # <<>> => s[Len(s)] < q
    <3>1. pass'.due # {} /\ pass'.at <= now' /\ tick' <= now'
      BY <1>1, <1>3, <1>4 DEF PassSound
    <3> QED BY <1>1, <1>3, <1>12, <1>13, <3>1 DEF PassSound, h
  <2>1. CASE j = i
    <3>1. Append(old, o) # <<>> /\ Append(old, o)[Len(Append(old, o))] = o
      BY <1>7, <1>8
    <3> QED BY <1>9, <1>10, <2>1, <3>1 DEF o
  <2>2. CASE j # i
    <3>1. fires'[h][j] = fires[h][j]
      BY <1>4, <1>9, <1>13, <2>2
    <3> QED BY <1>1, <1>12, <2>2, <3>1 DEF PassSound, h
  <2> QED BY <2>1, <2>2
<1>18. FiresSound'
  <2> SUFFICES ASSUME NEW g \in 1..built, NEW j \in Ids
               PROVE  LET s == fires'[g][j] IN
                      /\ \A a, b \in 1..Len(s) : a < b => s[a] < s[b]
                      /\ \A a \in 1..Len(s) :
                           j \in DOMAIN rows[g] /\ s[a] \in rows[g][j].fires /\ s[a] <= now
                      /\ s # <<>> /\ ~InCall(g, j)' /\ next[g][j] # 0 => s[Len(s)] < next[g][j]
    BY <1>1 DEF FiresSound
  <2>0. g \in Sets
    BY TypeFacts
  <2>1. CASE g = h /\ j = i
    <3>1. InCall(g, j)' /\ fires'[g][j] = Append(old, o)
      BY <1>1, <1>9, <1>12, <2>1
    <3> DEFINE s == Append(old, o)
    <3>2. \A a \in 1..Len(s) : a \in 1..Len(old) \/ a = Len(old) + 1
      BY <1>7, <1>8
    <3>3. \A a \in 1..Len(old) : old[a] < o
      <4> SUFFICES ASSUME NEW a \in 1..Len(old) PROVE old[a] < o
        OBVIOUS
      <4>1. old # <<>> /\ Len(old) \in 1..Len(old)
        BY <1>7
      <4>2. old[Len(old)] < o /\ (a < Len(old) => old[a] < old[Len(old)])
        BY <1>10, <1>11, <4>1
      <4>3. old[a] \in Nat /\ old[Len(old)] \in Nat /\ (a < Len(old) \/ a = Len(old))
        BY <1>7, <1>8, <4>1
      <4> QED BY <1>4, <4>2, <4>3
    <3>4. \A a, b \in 1..Len(s) : a < b => s[a] < s[b]
      <4> SUFFICES ASSUME NEW a \in 1..Len(s), NEW b \in 1..Len(s), a < b PROVE s[a] < s[b]
        OBVIOUS
      <4>1. a \in 1..Len(old) /\ (b \in 1..Len(old) \/ b = Len(old) + 1)
        BY <1>7, <1>8, <3>2
      <4> HIDE DEF s
      <4>2. s[a] = old[a]
        BY <1>8, <4>1 DEF s
      <4>3. CASE b \in 1..Len(old)
        BY <1>8, <1>11, <4>1, <4>2, <4>3 DEF s
      <4>4. CASE b = Len(old) + 1
        BY <1>8, <3>3, <4>1, <4>2, <4>4 DEF s
      <4> QED BY <4>1, <4>3, <4>4
    <3>5. \A a \in 1..Len(s) : s[a] \in rows[h][i].fires /\ s[a] <= now
      <4> SUFFICES ASSUME NEW a \in 1..Len(s) PROVE s[a] \in rows[h][i].fires /\ s[a] <= now
        OBVIOUS
      <4>1. CASE a \in 1..Len(old)
        BY <1>8, <1>11, <4>1
      <4>2. CASE a = Len(old) + 1
        BY <1>4, <1>8, <1>10, <4>2
      <4> QED BY <3>2, <4>1, <4>2
    <3> HIDE DEF s
    <3> QED BY <1>10, <2>1, <3>1, <3>4, <3>5 DEF s
  <2>2. CASE g # h \/ j # i
    <3>1. fires'[g][j] = fires[g][j]
      BY <1>9, <2>0, <2>2
    <3>2. ~InCall(g, j)
      BY <1>12
    <3> QED BY <3>1, <3>2 DEF FiresSound
  <2> QED BY <2>1, <2>2
<1> QED BY <1>14, <1>15, <1>16, <1>17, <1>18

(* dispatch under the lock moves one cursor, forward or off the end.       *)
LEMMA RecordFacts ==
  ASSUME TypeOK, NEW g \in 1..built, NEW i \in DOMAIN rows[g], NEW at \in Time, Record(g, i, at)
  PROVE  /\ next' \in [Sets -> [Ids -> Time]] /\ last' \in [Sets -> [Ids -> Time]]
         /\ \A h \in Sets, j \in Ids : next'[h][j] # next[h][j] =>
              /\ h = g /\ j = i /\ next[h][j] # 0
              /\ next'[h][j] = 0
                 \/ (next'[h][j] > next[h][j] /\ next'[h][j] \in rows[g][i].fires)
         /\ next'[g][i] # 0 => next'[g][i] > at
<1>1. /\ g \in Sets /\ i \in Ids /\ at \in Nat /\ rows[g][i].fires \in SUBSET (1..MaxTime)
  BY TypeFacts, RowFacts
<1>2. next \in [Sets -> [Ids -> Time]] /\ last \in [Sets -> [Ids -> Time]] /\ next[g][i] \in Nat
  BY <1>1, TypeFacts DEF TypeOK
<1>3. last' \in [Sets -> [Ids -> Time]]
  <2>1. last' = [last EXCEPT ![g][i] = at]
    BY DEF Record
  <2> HIDE DEF Time
  <2> QED BY <1>1, <1>2, <2>1
<1>4. CASE next[g][i] # 0 /\ next[g][i] <= at
  <2> DEFINE n == NextFire(rows[g][i].fires, at)
  <2>1. n \in Time /\ n \in Nat /\ (n # 0 => n \in rows[g][i].fires /\ n > at)
    BY <1>1, NextFireFacts, TypeFacts
  <2>2. next' = [next EXCEPT ![g][i] = n]
    BY <1>4 DEF Record
  <2> HIDE DEF n
  <2>3. next' \in [Sets -> [Ids -> Time]]
    <3> HIDE DEF Time
    <3> QED BY <1>1, <1>2, <2>1, <2>2
  <2>4. next'[g][i] = n /\ \A h \in Sets, j \in Ids : h # g \/ j # i => next'[h][j] = next[h][j]
    <3> HIDE DEF Time
    <3> QED BY <1>1, <1>2, <2>2
  <2>5. n # 0 => n > next[g][i]
    BY <1>1, <1>2, <1>4, <2>1
  <2> QED BY <1>3, <1>4, <2>1, <2>3, <2>4, <2>5
<1>5. CASE ~(next[g][i] # 0 /\ next[g][i] <= at)
  <2>1. next' = next
    BY <1>5 DEF Record
  <2> QED BY <1>1, <1>2, <1>3, <1>5, <2>1
<1> QED BY <1>4, <1>5

(* Cursors that only move forward stay past what was dispatched.           *)
LEMMA ForwardKeeps ==
  ASSUME IInv, UNCHANGED <<built, rows, fires, now>>,
         \A h \in Sets, j \in Ids : next'[h][j] # next[h][j] =>
           /\ next[h][j] # 0
           /\ next'[h][j] = 0
              \/ (next'[h][j] > next[h][j] /\ j \in DOMAIN rows[h]
                  /\ next'[h][j] \in rows[h][j].fires),
         \A h \in Sets, j \in Ids : next'[h][j] \in Nat,
         \A h \in Sets, j \in Ids :
           ~InCall(h, j)' => ~InCall(h, j) \/ next'[h][j] = 0
                             \/ fires[h][j][Len(fires[h][j])] < next'[h][j]
  PROVE  CursorSound' /\ FiresSound'
<1> USE DEF IInv
<1>1. CursorSound'
  <2> SUFFICES ASSUME NEW g \in 1..built, NEW i \in Ids, next'[g][i] # 0
               PROVE  i \in DOMAIN rows[g] /\ next'[g][i] \in rows[g][i].fires
    BY DEF CursorSound
  <2>1. g \in Sets
    BY TypeFacts
  <2>2. CASE next'[g][i] = next[g][i]
    BY <2>2 DEF CursorSound
  <2>3. CASE next'[g][i] # next[g][i]
    BY <2>1, <2>3
  <2> QED BY <2>2, <2>3
<1>2. FiresSound'
  <2> SUFFICES ASSUME NEW g \in 1..built, NEW i \in Ids
               PROVE  LET s == fires[g][i] IN
                      /\ \A a, b \in 1..Len(s) : a < b => s[a] < s[b]
                      /\ \A a \in 1..Len(s) :
                           i \in DOMAIN rows[g] /\ s[a] \in rows[g][i].fires /\ s[a] <= now
                      /\ s # <<>> /\ ~InCall(g, i)' /\ next'[g][i] # 0 => s[Len(s)] < next'[g][i]
    BY DEF FiresSound
  <2> DEFINE s == fires[g][i]
  <2>1. g \in Sets /\ s \in Seq(Time) /\ Time \subseteq Nat /\ Len(s) \in Nat
    BY TypeFacts
  <2>2. /\ \A a, b \in 1..Len(s) : a < b => s[a] < s[b]
        /\ \A a \in 1..Len(s) :
             i \in DOMAIN rows[g] /\ s[a] \in rows[g][i].fires /\ s[a] <= now
        /\ s # <<>> /\ ~InCall(g, i) /\ next[g][i] # 0 => s[Len(s)] < next[g][i]
    BY DEF FiresSound
  <2>3. ASSUME s # <<>>, ~InCall(g, i)', next'[g][i] # 0 PROVE s[Len(s)] < next'[g][i]
    <3>1. CASE InCall(g, i)
      BY <2>1, <2>3, <3>1
    <3>2. CASE ~InCall(g, i)
      <4>1. next[g][i] # 0
        BY <2>1, <2>3
      <4>2. s[Len(s)] < next[g][i]
        BY <2>2, <2>3, <3>2, <4>1
      <4>3. s[Len(s)] \in Nat /\ next[g][i] \in Nat /\ next'[g][i] \in Nat
        <5> HIDE DEF s, Time
        <5>1. Len(s) \in 1..Len(s)
          BY <2>1, <2>3
        <5>2. s[Len(s)] \in Time
          BY <2>1, <5>1
        <5> QED BY <2>1, <5>2, TypeFacts
      <4>4. next'[g][i] = next[g][i] \/ next'[g][i] > next[g][i]
        BY <2>1, <2>3
      <4> HIDE DEF s
      <4> QED BY <4>2, <4>3, <4>4
    <3> QED BY <3>1, <3>2
  <2> QED BY <2>2, <2>3
<1> QED BY <1>1, <1>2

LEMMA TriggerRecordKeeps ==
  ASSUME IInv, NEW r \in Requests, TriggerRecord(r) PROVE IInv'
<1> USE DEF IInv
<1> DEFINE g == trigger[r].set
           i == trigger[r].id
           at == trigger[r].at
           TriggerType == [state : {"new", "called", "done"}, set : Sets,
                           id : Ids \cup {0}, at : Time]
<1>1. /\ trigger[r].state = "called" /\ Record(g, i, at)
      /\ trigger' = [trigger EXCEPT ![r].state = "done"]
      /\ UNCHANGED <<now, disk, edits, libraries, built, rows, live, tick, pass, reload, fires>>
  BY DEF TriggerRecord, files, entries
<1>2. trigger \in [Requests -> TriggerType] /\ g \in Sets /\ at \in Time /\ TypeOK
  BY DEF TypeOK
<1>3. g \in 1..built /\ i \in DOMAIN rows[g]
  BY <1>1, <1>2, TypeFacts DEF SetsSound
<1> HIDE DEF g, i, at
<1>4. /\ next' \in [Sets -> [Ids -> Time]] /\ last' \in [Sets -> [Ids -> Time]]
      /\ \A h \in Sets, j \in Ids : next'[h][j] # next[h][j] =>
           /\ h = g /\ j = i /\ next[h][j] # 0
           /\ next'[h][j] = 0 \/ (next'[h][j] > next[h][j] /\ next'[h][j] \in rows[g][i].fires)
  BY <1>1, <1>2, <1>3, RecordFacts
<1>5. \A h \in Sets, j \in Ids : next'[h][j] \in Nat
  <2>1. \A h \in Sets, j \in Ids : next'[h][j] \in Time
    <3> HIDE DEF Time
    <3> QED BY <1>4
  <2> QED BY <2>1, TypeFacts
<1>6. \A h, j : InCall(h, j)' <=> InCall(h, j)
  BY <1>1 DEF InCall
<1>7. /\ trigger' \in [Requests -> TriggerType]
      /\ \A q \in Requests : trigger'[q] = IF q = r THEN [trigger[r] EXCEPT !.state = "done"]
                                           ELSE trigger[q]
      /\ trigger'[r].state = "done"
  BY <1>1, <1>2
<1>8. TypeOK'
  BY <1>1, <1>4, <1>7 DEF TypeOK
<1>9. SetsSound'
  <2>1. ASSUME NEW q \in Requests, trigger'[q].state = "called"
        PROVE  trigger'[q].set <= built /\ trigger'[q].id \in DOMAIN rows[trigger'[q].set]
    <3>1. q # r
      BY <1>7, <2>1
    <3> QED BY <1>7, <2>1, <3>1 DEF SetsSound
  <2> QED BY <1>1, <2>1 DEF SetsSound
<1>10. CursorSound' /\ FiresSound'
  <2>1. UNCHANGED <<built, rows, fires, now>>
    BY <1>1
  <2> QED BY <1>3, <1>4, <1>5, <1>6, <2>1, ForwardKeeps
<1>11. PassSound'
  BY <1>1, <1>6 DEF PassSound
<1> QED BY <1>8, <1>9, <1>10, <1>11

LEMMA PassRecordKeeps ==
  ASSUME IInv, NEW i \in Ids, PassRecord(i) PROVE IInv'
<1> USE DEF IInv
<1> DEFINE g == pass.set
           at == pass.at
<1>1. /\ IsFirst(i, pass.due) /\ pass.called /\ Record(g, i, at)
      /\ pass' = [pass EXCEPT !.due = @ \ {i}, !.called = FALSE]
      /\ UNCHANGED <<now, disk, edits, libraries, built, rows, live, tick, trigger, reload, fires>>
  BY DEF PassRecord, files, entries
<1>2. pass \in PassType /\ g \in Sets /\ at \in Time /\ at \in Nat /\ TypeOK /\ i \in pass.due
  BY <1>1, TypeFacts DEF TypeOK, PassType, IsFirst
<1>3. /\ g \in 1..built /\ i \in DOMAIN rows[g]
      /\ fires[g][i] # <<>> /\ fires[g][i][Len(fires[g][i])] = pass.occ[i]
      /\ pass.occ[i] <= at /\ pass.occ[i] \in Nat
  <2>1. InCall(g, i)
    BY <1>1 DEF InCall
  <2>2. pass.occ[i] \in Time
    BY <1>2 DEF PassType
  <2> QED BY <1>2, <2>1, <2>2, TypeFacts DEF SetsSound, PassSound
<1>4. /\ pass' \in PassType /\ ~pass'.called /\ pass'.due = pass.due \ {i}
      /\ pass'.at = pass.at /\ pass'.set = pass.set /\ pass'.occ = pass.occ
  BY <1>1, <1>2 DEF PassType
<1> HIDE DEF g, at
<1>5. /\ next' \in [Sets -> [Ids -> Time]] /\ last' \in [Sets -> [Ids -> Time]]
      /\ \A h \in Sets, j \in Ids : next'[h][j] # next[h][j] =>
           /\ h = g /\ j = i /\ next[h][j] # 0
           /\ next'[h][j] = 0 \/ (next'[h][j] > next[h][j] /\ next'[h][j] \in rows[g][i].fires)
      /\ next'[g][i] # 0 => next'[g][i] > at
  BY <1>1, <1>2, <1>3, RecordFacts
<1>6. \A h \in Sets, j \in Ids : next'[h][j] \in Nat
  <2>1. \A h \in Sets, j \in Ids : next'[h][j] \in Time
    <3> HIDE DEF Time
    <3> QED BY <1>5
  <2> QED BY <2>1, TypeFacts
<1>7. \A h, j : ~InCall(h, j)'
  BY <1>4 DEF InCall
<1>8. \A h \in Sets, j \in Ids : InCall(h, j) => h = g /\ j = i
  <2> SUFFICES ASSUME NEW h \in Sets, NEW j \in Ids, InCall(h, j) PROVE h = g /\ j = i
    OBVIOUS
  <2>1. h = g /\ j \in pass.due /\ j <= i /\ i <= j
    BY <1>1, <1>2 DEF InCall, IsFirst, g
  <2>2. j \in Nat /\ i \in Nat
    BY <1>2, <2>1, TypeFacts
  <2> QED BY <2>1, <2>2
<1>9. TypeOK'
  BY <1>1, <1>4, <1>5 DEF TypeOK, PassType
<1>10. SetsSound'
  BY <1>1, <1>4 DEF SetsSound
<1>11. CursorSound' /\ FiresSound'
  <2>1. UNCHANGED <<built, rows, fires, now>>
    BY <1>1
  <2>2. next'[g][i] = 0 \/ fires[g][i][Len(fires[g][i])] < next'[g][i]
    BY <1>2, <1>3, <1>5, <1>6
  <2>3. \A h \in Sets, j \in Ids :
          ~InCall(h, j)' => ~InCall(h, j) \/ next'[h][j] = 0
                            \/ fires[h][j][Len(fires[h][j])] < next'[h][j]
    BY <1>8, <2>2
  <2> QED BY <1>3, <1>5, <1>6, <2>1, <2>3, ForwardKeeps
<1>12. PassSound'
  <2>1. ASSUME NEW j \in pass'.due
        PROVE  LET s == fires[g][j] o == pass.occ[j] IN
               /\ j \in DOMAIN rows[g]
               /\ o \in rows[g][j].fires /\ o <= pass.at
               /\ s # <<>> => s[Len(s)] < o
    <3>1. j \in pass.due /\ j # i /\ j \in Ids /\ g \in Sets
      BY <1>2, <1>4, <2>1, TypeFacts
    <3>2. ~InCall(g, j)
      BY <1>8, <3>1
    <3> QED BY <3>1, <3>2 DEF PassSound, g
  <2> QED BY <1>1, <1>4, <1>7, <2>1 DEF PassSound, g
<1> QED BY <1>9, <1>10, <1>11, <1>12

-----------------------------------------------------------------------------
LEMMA StutterKeeps == IInv /\ UNCHANGED vars => IInv'
<1> SUFFICES ASSUME IInv, UNCHANGED vars PROVE IInv'
  OBVIOUS
<1> USE DEF IInv
<1>1. UNCHANGED <<now, disk, edits, libraries, built, rows, live, next, last, tick, pass,
                  trigger, reload, fires>>
  BY DEF vars, files, entries
<1>2. TypeOK'
  BY <1>1 DEF TypeOK
<1>3. SetsSound'
  BY <1>1 DEF SetsSound
<1>4. now' \in Nat /\ now <= now' /\ tick' <= now'
  BY <1>1, TypeFacts DEF PassSound
<1>5. UNCHANGED <<built, rows, next, pass, fires>>
  BY <1>1
<1> QED BY <1>2, <1>3, <1>4, <1>5, FrameKeeps

LEMMA StepsKeep == IInv /\ [Next]_vars => IInv'
<1> SUFFICES ASSUME IInv, [Next]_vars PROVE IInv'
  OBVIOUS
<1>1. CASE Clock BY <1>1, ClockKeeps
<1>2. CASE Edit BY <1>2, EditKeeps
<1>3. CASE Tick BY <1>3, TickKeeps
<1>4. CASE PassStart BY <1>4, PassStartKeeps
<1>5. ASSUME NEW i \in Ids, PassCall(i) PROVE IInv' BY <1>5, PassCallKeeps
<1>6. ASSUME NEW i \in Ids, PassRecord(i) PROVE IInv' BY <1>6, PassRecordKeeps
<1>7. ASSUME NEW r \in Requests, TriggerRecord(r) PROVE IInv' BY <1>7, TriggerRecordKeeps
<1>8. ASSUME NEW r \in Requests, NEW i \in Ids, TriggerNow(r, i) PROVE IInv'
  BY <1>8, TriggerNowKeeps
<1>9. ASSUME NEW r \in Reloaders, LoadCatalogue(r) PROVE IInv' BY <1>9, LoadCatalogueKeeps
<1>10. ASSUME NEW r \in Reloaders, SwapCatalogue(r) PROVE IInv' BY <1>10, SwapCatalogueKeeps
<1>11. ASSUME NEW r \in Reloaders, RejectSchedules(r) PROVE IInv' BY <1>11, RejectSchedulesKeeps
<1>12. ASSUME NEW r \in Reloaders, BuildSchedules(r) PROVE IInv' BY <1>12, BuildSchedulesKeeps
<1>13. ASSUME NEW r \in Reloaders, SwapSchedules(r) PROVE IInv' BY <1>13, SwapSchedulesKeeps
<1>14. CASE UNCHANGED vars BY <1>14, StutterKeeps
<1> QED
  BY <1>1, <1>2, <1>3, <1>4, <1>5, <1>6, <1>7, <1>8, <1>9, <1>10, <1>11, <1>12, <1>13, <1>14
     DEF Next, Ticker, Triggers, Reload

(* The inductive invariant holds in every state of the dispatcher.         *)
THEOREM Invariance == Spec => []IInv
BY InitEstablishes, StepsKeep, PTL DEF Spec

(* Every variable of the dispatcher keeps its type.                        *)
THEOREM TypeCorrect == Spec => []TypeOK
<1>1. IInv => TypeOK
  BY DEF IInv
<1> QED BY <1>1, Invariance, PTL

LEMMA FiresRise == IInv => FiresOncePerOccurrence
<1> SUFFICES ASSUME IInv, NEW c \in Cells
             PROVE  LET s == fires[c[1]][c[2]]
                        pending == pass.called /\ pass.set = c[1] /\ IsFirst(c[2], pass.due)
                        cursor == next[c[1]][c[2]] IN
                    /\ \A a, b \in 1..Len(s) : a < b => s[a] < s[b]
                    /\ \A a \in 1..Len(s) : s[a] \in rows[c[1]][c[2]].fires /\ s[a] <= now
                    /\ s # <<>> /\ ~pending /\ cursor # 0 => s[Len(s)] < cursor
  BY DEF FiresOncePerOccurrence
<1>1. c[1] \in 1..built /\ c[2] \in Ids
  BY TypeFacts DEF Cells, IInv, Sets
<1> QED BY <1>1 DEF IInv, FiresSound, InCall

(* A pass dispatches an entry for ever later occurrences of its own cron,  *)
(* each once and none before its time, whatever triggers and reloads come  *)
(* in between (scheduler.go:248-287).                                      *)
THEOREM FiresOnce == Spec => []FiresOncePerOccurrence
BY FiresRise, Invariance, PTL

(* No step moves the cursor of a cell back.                                *)
CursorsStep ==
  \A c \in Cells :
    LET was == next[c[1]][c[2]] is == next'[c[1]][c[2]] IN
    is # was => was # 0 /\ (is = 0 \/ is > was)

LEMMA RecordStep ==
  ASSUME IInv, NEW g \in 1..built, NEW i \in DOMAIN rows[g], NEW at \in Time, Record(g, i, at)
  PROVE  CursorsStep
<1>1. \A h \in Sets, j \in Ids : next'[h][j] # next[h][j] =>
        next[h][j] # 0 /\ (next'[h][j] = 0 \/ next'[h][j] > next[h][j])
  BY RecordFacts DEF IInv
<1>2. \A c \in Cells : c[1] \in Sets /\ c[2] \in Ids
  BY DEF Cells
<1> QED BY <1>1, <1>2 DEF CursorsStep

LEMMA CursorsMoveForward == IInv /\ [Next]_vars => CursorsStep
<1> SUFFICES ASSUME IInv, [Next]_vars PROVE CursorsStep
  OBVIOUS
<1>0. ASSUME next' = next PROVE CursorsStep
  BY <1>0 DEF CursorsStep
<1>1. ASSUME NEW i \in Ids, PassRecord(i) PROVE CursorsStep
  <2>1. InCall(pass.set, i) /\ Record(pass.set, i, pass.at) /\ i \in pass.due
    BY <1>1 DEF PassRecord, InCall, IsFirst
  <2>2. pass.set \in 1..built /\ i \in DOMAIN rows[pass.set] /\ pass.at \in Time
    <3>1. pass \in PassType /\ pass.set \in Sets
      BY DEF IInv, TypeOK, PassType
    <3>2. pass.set <= built /\ i \in DOMAIN rows[pass.set]
      BY <2>1 DEF IInv, SetsSound, PassSound
    <3>3. pass.at \in Time
      BY <3>1 DEF PassType
    <3> QED BY <3>1, <3>2, <3>3, TypeFacts DEF IInv
  <2> DEFINE g == pass.set  at == pass.at
  <2>3. g \in 1..built /\ i \in DOMAIN rows[g] /\ at \in Time /\ Record(g, i, at)
    BY <2>1, <2>2
  <2> HIDE DEF g, at
  <2> QED BY <2>3, RecordStep
<1>2. ASSUME NEW r \in Requests, TriggerRecord(r) PROVE CursorsStep
  <2>1. /\ trigger[r].state = "called"
        /\ Record(trigger[r].set, trigger[r].id, trigger[r].at)
    BY <1>2 DEF TriggerRecord
  <2>2. /\ trigger[r].set \in 1..built /\ trigger[r].id \in DOMAIN rows[trigger[r].set]
        /\ trigger[r].at \in Time
    <3>1. trigger[r].set \in Sets /\ trigger[r].at \in Time
      BY DEF IInv, TypeOK
    <3>2. trigger[r].set <= built /\ trigger[r].id \in DOMAIN rows[trigger[r].set]
      BY <2>1 DEF IInv, SetsSound
    <3> QED BY <3>1, <3>2, TypeFacts DEF IInv
  <2> DEFINE g == trigger[r].set  i == trigger[r].id  at == trigger[r].at
  <2>3. g \in 1..built /\ i \in DOMAIN rows[g] /\ at \in Time /\ Record(g, i, at)
    BY <2>1, <2>2
  <2> HIDE DEF g, i, at
  <2> QED BY <2>3, RecordStep
<1>3. ASSUME NEW r \in Reloaders, BuildSchedules(r) PROVE CursorsStep
  <2>1. next' = [next EXCEPT ![built + 1] = FirstNexts(disk.schedules, now)] /\ built \in Nat
    BY <1>3, TypeFacts DEF BuildSchedules, IInv
  <2>2. \A c \in Cells : c[1] \in Sets /\ c[1] \in Nat /\ c[1] <= built
    BY TypeFacts DEF Cells, IInv
  <2>3. \A c \in Cells : c[1] # built + 1
    BY <2>1, <2>2
  <2>4. \A g \in Sets : g # built + 1 => next'[g] = next[g]
    BY <2>1 DEF IInv, TypeOK
  <2> QED BY <2>2, <2>3, <2>4 DEF CursorsStep
<1>4. CASE Clock \/ Edit \/ Tick \/ PassStart \/ UNCHANGED vars
  BY <1>0, <1>4 DEF Clock, Edit, Tick, PassStart, vars
<1>5. ASSUME NEW i \in Ids, PassCall(i) PROVE CursorsStep
  BY <1>0, <1>5 DEF PassCall
<1>6. ASSUME NEW r \in Requests, NEW i \in Ids, TriggerNow(r, i) PROVE CursorsStep
  BY <1>0, <1>6 DEF TriggerNow
<1>7. ASSUME NEW r \in Reloaders,
             LoadCatalogue(r) \/ SwapCatalogue(r) \/ RejectSchedules(r) \/ SwapSchedules(r)
      PROVE  CursorsStep
  BY <1>0, <1>7 DEF LoadCatalogue, SwapCatalogue, RejectSchedules, SwapSchedules
<1> QED
  BY <1>1, <1>2, <1>3, <1>4, <1>5, <1>6, <1>7 DEF Next, Ticker, Triggers, Reload

(* The cursor of an entry never moves back, and once it has run out it     *)
(* stays so, in whatever order the ticker's and the triggers' results are  *)
(* recorded (scheduler.go:277-285).                                        *)
THEOREM CursorForward == Spec => CursorNeverBack
<1>1. IInv /\ [Next]_vars =>
        [\A c \in Cells :
           LET was == next[c[1]][c[2]] is == next'[c[1]][c[2]] IN
           is # was => was # 0 /\ (is = 0 \/ is > was)]_vars
  BY CursorsMoveForward DEF CursorsStep
<1> QED BY <1>1, Invariance, PTL DEF Spec, CursorNeverBack
=============================================================================
