------------------------------ MODULE StepWork ------------------------------
(***************************************************************************)
(* One step of a run beside the others: its if: goes through the evaluator *)
(* they share, and when the answer is yes its action runs (runStep,        *)
(* internal/engine/engine.go:438-610).  All of it lives in one process: a  *)
(* runtime that gives up on the shared map takes the action with it.       *)
(***************************************************************************)
EXTENDS Evaluator, StepBody

CONSTANT Worker   \* the step of Steps whose action is followed

vars == <<evVars, bodyVars>>

Init == EvInit /\ BodyInit

(* The action starts when the if: has said yes, and goes on while the      *)
(* process does.                                                           *)
Body(step) ==
  /\ alive
  /\ call[Worker] = "done" /\ answer[Worker]
  /\ step
  /\ UNCHANGED evVars

Evaluating ==
  /\ \E s \in Steps : Evaluate(s)
  /\ UNCHANGED bodyVars

Others == (Fatal \/ Elsewhere) /\ UNCHANGED bodyVars

Next ==
  \/ Evaluating \/ Others
  \/ Body(RunStep) \/ Body(WaitStep) \/ Body(PromptStep) \/ Body(CtxDone)

(* exec and the runtime do their part: the group is killed, the shell is   *)
(* reaped, what was written is copied, the delay passes, and a probe whose *)
(* context has ended is killed.  Nothing is assumed of the script, of a    *)
(* command that is probed, nor of the person at the terminal.              *)
Fairness ==
  /\ WF_vars(Body(Kill)) /\ WF_vars(Body(Reap))
  /\ \A s \in Streams : WF_vars(Body(Copy(s)))
  /\ WF_vars(Body(WaitDelay)) /\ WF_vars(Body(ReturnRun))
  /\ WF_vars(Body(Pause))
  /\ WF_vars(Body(ctx # "live" /\ stage = "started" /\ (Probe \/ LeaveBehind)))

Spec == Init /\ [][Next]_vars /\ Fairness

-----------------------------------------------------------------------------
(* Properties.                                                             *)

(* A script whose shell has ended, or whose step is out of time or         *)
(* cancelled, gives its worker back, even when a process it started has    *)
(* left the group and keeps the streams open (run.go:111-116); a wait that *)
(* is out of time or cancelled does too, unless a probe left a process     *)
(* behind.                                                                 *)
BodyReturns ==
  /\ (body = "run" /\ stage \in {"started", "reaped"} /\ (ctx # "live" \/ Shell \notin running))
       ~> (stage = "returned" \/ ~alive)
  /\ (body = "wait" /\ stage \in {"started", "pause"} /\ ctx # "live")
       ~> (stage \in {"returned", "held"} \/ ~alive)
=============================================================================
