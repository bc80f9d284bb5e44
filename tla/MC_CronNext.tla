----------------------------- MODULE MC_CronNext -----------------------------
(***************************************************************************)
(* A small calendar: two minutes an hour, two hours a day, two days a      *)
(* week, and years of two months of four and two days, the second one a    *)
(* day longer in every second year.  As in ours, every month holds a week, *)
(* and there are days no month of a kind has.                              *)
(***************************************************************************)
EXTENDS CronNext

MCMonthLengths == <<4, 2, 4, 3, 4, 2, 4, 3, 4, 2, 4, 3>>

Value(v) == [form |-> "value", a |-> v, b |-> v, step |-> Unstepped]
Span(a, b) == [form |-> "range", a |-> a, b |-> b, step |-> Unstepped]
Every(term, n) == [term EXCEPT !.step = n]

(* Fields in the forms the parser tells apart, values out of range and     *)
(* steps that are not positive among them.                                 *)
Halves == {<<Star>>, <<Value(0)>>, <<Value(1)>>, <<Value(0), Value(1)>>, <<Every(Star, 2)>>}
DomFields == {<<Star>>, <<Every(Star, 1)>>, <<Value(2)>>, <<Value(3)>>, <<Value(4)>>, <<Value(5)>>, <<Every(Value(1), 2)>>,
              <<Every(Span(2, 3), 2), Value(1)>>, <<Span(2, 1)>>, <<Value(0)>>}
MonthFields == {<<Star>>, <<Value(1)>>, <<Value(2)>>, <<Span(1, 2)>>, <<Every(Star, -1)>>}
DowFields == {<<Star>>, <<Value(0)>>, <<Value(1)>>, <<Value(2)>>, <<Span(1, 2)>>,
              <<Every(Span(0, 2), 2)>>, <<Every(Value(1), 2)>>, <<Value(3)>>}

MCExpressions ==
  {<<<<Star>>, h, d, m, w>> : h \in {<<Star>>, <<Value(1)>>},
                              d \in DomFields, m \in MonthFields, w \in DowFields}
  \cup {<<n, h, d, m, <<Star>>>> : n \in Halves, h \in Halves,
                                   d \in DomFields, m \in MonthFields}

MCStarts == 1..52

=============================================================================
