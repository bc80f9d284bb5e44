--------------------------- MODULE MC_DagScheduler ---------------------------
(***************************************************************************)
(* Every plan of four steps whose needs point to earlier steps, with every *)
(* choice of teardown steps among those that have exactly one need; two    *)
(* plans in which a step needs a later one; and two in which steps wait    *)
(* for themselves, beside and behind one that does not.                    *)
(***************************************************************************)
EXTENDS DagScheduler, SequencesExt

CONSTANT Steps  \* the number of steps, for the definitions below

EarlierNeeds ==
  {f \in [1..Steps -> SUBSET (1..(Steps - 1))] :
     \A k \in 1..Steps : f[k] \subseteq 1..(k - 1)}

LaterNeeds ==
  {[k \in 1..Steps |-> IF k = Steps THEN {} ELSE {k + 1}],
   [k \in 1..Steps |-> IF k = 1 THEN {Steps} ELSE IF k = Steps THEN {2} ELSE {}]}

CircularNeeds ==
  {[k \in 1..Steps |-> IF k = 1 THEN {} ELSE IF k = Steps THEN {2} ELSE {k + 1}],
   [k \in 1..Steps |-> IF k = 1 THEN {} ELSE IF k = 2 THEN {1, Steps} ELSE {k - 1}]}

DependentsOf(f) ==
  [k \in 1..Steps |->
     SetToSortSeq({d \in 1..Steps : k \in f[d]}, LAMBDA a, b : a < b)]

PlanOf(f, teardown) ==
  [needs |-> f, dependents |-> DependentsOf(f), always |-> teardown]

Teardowns(f) == SUBSET {k \in 1..Steps : Cardinality(f[k]) = 1}

MCGraphs ==
  UNION {{PlanOf(f, t) : t \in Teardowns(f)} : f \in EarlierNeeds \cup LaterNeeds \cup CircularNeeds}
=============================================================================
