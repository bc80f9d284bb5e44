---------------------------- MODULE MC_RunState ----------------------------
(***************************************************************************)
(* Fetch, then build beside a step without an id, then another one without *)
(* an id; then a teardown that goes by the name of the first step.         *)
(***************************************************************************)
EXTENDS RunState

MCNodes == 1..4
MCNeeds == [n \in 1..4 |-> CASE n = 1 -> {} [] n \in {2, 3} -> {1} [] n = 4 -> {2, 3}]
MCCleanup == <<5>>
MCKey == <<"fetch", "build", "", "", "fetch">>
=============================================================================
