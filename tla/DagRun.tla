------------------------------- MODULE DagRun -------------------------------
(***************************************************************************)
(* What one workflow run promises, with no scheduler in sight: every step  *)
(* of the DAG is executed at most once, after the steps it needs; once the *)
(* run has been halted by a fatal step no ordinary step starts and the     *)
(* ones that never started become Skipped; teardown steps start all the    *)
(* same; the verdict is given when every step is settled, or when what is  *)
(* left waits for itself.                                                  *)
(*                                                                         *)
(* The promise is read off internal/engine/scheduler.go:16-26 and 148-167  *)
(* (the verdict).  DagScheduler, the detailed model, implements it.        *)
(***************************************************************************)
EXTENDS Naturals

CONSTANT Graphs       \* the admissible plans: which steps each step needs,
                      \* and which steps are teardown

VARIABLES graph,      \* the plan this run executes
          state,      \* what each step has come to
          halted,     \* has the run been halted by a fatal step
          verdict     \* the overall status, "running" until it is given

Nodes == DOMAIN graph.needs
vars == <<graph, state, halted, verdict>>

Fatal == {"failed", "timed-out"}
Mild == {"success", "failed-continued", "skipped"}
Settled == Fatal \cup Mild

TypeOK ==
  /\ graph \in Graphs
  /\ state \in [Nodes -> {"waiting", "running"} \cup Settled]
  /\ halted \in BOOLEAN
  /\ verdict \in {"running", "success", "failed", "skipped"}

NeedsSettled(k) == \A d \in graph.needs[k] : state[d] \in Settled
AnyFatal == \E k \in Nodes : state[k] \in Fatal

Init ==
  /\ graph \in Graphs
  /\ state = [k \in Nodes |-> "waiting"]
  /\ halted = FALSE
  /\ verdict = "running"

(* An ordinary step starts when its needs ended well, a teardown step when *)
(* they ended at all.                                                      *)
Start(k) ==
  /\ state[k] = "waiting"
  /\ NeedsSettled(k)
  /\ \/ k \in graph.always
     \/ ~halted /\ \A d \in graph.needs[k] : state[d] \in Mild
  /\ state' = [state EXCEPT ![k] = "running"]
  /\ UNCHANGED <<graph, halted, verdict>>

Finish(k) ==
  /\ state[k] = "running"
  /\ \E s \in Settled : state' = [state EXCEPT ![k] = s]
  /\ UNCHANGED <<graph, halted, verdict>>

Halt ==
  /\ AnyFatal
  /\ halted' = TRUE
  /\ UNCHANGED <<graph, state, verdict>>

(* A halted run skips a step whose turn it is, and what needs a skipped    *)
(* one, whatever else that still waits for.                                *)
Skip(k) ==
  /\ halted
  /\ state[k] = "waiting"
  /\ k \notin graph.always
  /\ NeedsSettled(k) \/ \E d \in graph.needs[k] : state[d] = "skipped"
  /\ state' = [state EXCEPT ![k] = "skipped"]
  /\ UNCHANGED <<graph, halted, verdict>>

Waiting == {k \in Nodes : state[k] = "waiting"}

(* Steps that need each other in a circle, and what is behind them, wait   *)
(* for ever; without a fatal step the run is then called skipped.          *)
Conclude ==
  /\ verdict = "running"
  /\ \A k \in Nodes : state[k] # "running"
  /\ \A k \in Waiting : graph.needs[k] \cap Waiting # {}
  /\ verdict' = IF AnyFatal THEN "failed"
                ELSE IF Waiting # {} THEN "skipped" ELSE "success"
  /\ UNCHANGED <<graph, state, halted>>

Next ==
  \/ \E k \in Nodes : Start(k) \/ Finish(k) \/ Skip(k)
  \/ Halt
  \/ Conclude

Spec == Init /\ [][Next]_vars

=============================================================================
