-------------------------- MODULE MC_CronDispatch --------------------------
(***************************************************************************)
(* Two schedules over two workflows; schedules.yaml alternates between a   *)
(* file with both and one without the first; its workflow may become a     *)
(* library.  The occurrences of a row are those of its cron expression in  *)
(* the first days of a small calendar: two minutes an hour, two hours a    *)
(* day.                                                                    *)
(***************************************************************************)
EXTENDS CronDispatch, Cron

MCMonthLengths == <<4>>

Value(v) == [form |-> "value", a |-> v, b |-> v, step |-> Unstepped]

Occurrences(e) == {t \in 1..MaxTime : Fires(e, t)}
RowOf(w, e, d) == [workflow |-> w, fires |-> Occurrences(e), disabled |-> d]

(* In the second hour, at its last minute, and at its first.               *)
SecondHour == <<<<Star>>, <<Value(1)>>, <<Star>>, <<Star>>, <<Star>>>>
LastMinute == <<<<Value(1)>>, <<Value(1)>>, <<Star>>, <<Star>>, <<Star>>>>
FirstMinute == <<<<Value(0)>>, <<Value(1)>>, <<Star>>, <<Star>>, <<Star>>>>

MCFiles ==
  {[i \in {1, 2} |-> IF i = 1 THEN RowOf("deploy", SecondHour, FALSE)
                              ELSE RowOf("report", LastMinute, FALSE)],
   [i \in {2} |-> RowOf("report", FirstMinute, FALSE)]}

MCLibraries == {{}, {"deploy"}}
=============================================================================
