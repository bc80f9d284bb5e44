---------------------------- MODULE MC_RunFeed ----------------------------
(***************************************************************************)
(* Two steps that run side by side: the first publishes two events, the    *)
(* second one.                                                             *)
(***************************************************************************)
EXTENDS RunFeed

MCEmits == [s \in {"s1", "s2"} |-> IF s = "s1" THEN 2 ELSE 1]
=============================================================================
