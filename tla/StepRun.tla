------------------------------- MODULE StepRun -------------------------------
(***************************************************************************)
(* runStep of internal/engine/engine.go: what becomes of one step the      *)
(* scheduler hands to its exec function, from the first event to the       *)
(* returned status.  The step may be cascade-skipped, replayed from an     *)
(* earlier run, gated by if:, expanded by for-each:, retried, timed out,   *)
(* cancelled while it runs or sleeps, and let off by continue-on-error.    *)
(***************************************************************************)
EXTENDS Integers, Sequences, FiniteSets

CONSTANTS
  Configs,     \* the steps as compiled, see StepConfig
  MaxItems     \* bound on the length of a for-each list

Fatal == {"failed", "timed-out"}
Mild == {"success", "failed-continued", "skipped"}
Causes == {"failed", "timed-out"}

StepConfig ==
  [skipReason : BOOLEAN,        \* set by cascadeSkip
   cached : BOOLEAN,            \* a success of the run that is resumed
   forEach : BOOLEAN,
   gated : BOOLEAN,             \* has an if:
   attempts : Nat \ {0},        \* retry.attempts, 1 without a retry:
   retryOn : SUBSET Causes,     \* retry.on
   timeout : BOOLEAN,           \* has a timeout:
   continueOnError : BOOLEAN,
   mapped : BOOLEAN,            \* has an outputs: mapping
   cleanup : BOOLEAN]           \* run by runCleanup

(* engine.go:810-822: runCleanup copies neither retry: nor for-each:, and  *)
(* nothing cascades to a cleanup step.                                     *)
ASSUME ConfigsAssumption ==
  /\ Configs \subseteq StepConfig
  /\ \A s \in Configs : s.cleanup => s.attempts = 1 /\ ~s.forEach /\ ~s.skipReason
ASSUME MaxItemsAssumption == MaxItems \in Nat

VARIABLES
  step,      \* the step
  ctx,       \* its context: "live", "cancelled", past its "deadline"
  pc,        \* where runStep is
  items,     \* the length of the for-each list, 0 outside a loop
  item,      \* the iteration
  attempt,   \* the attempt of this iteration
  cause,     \* of the last failed attempt
  worst,     \* status of the loop so far
  trace,     \* the lifecycle events published, in order
  view,      \* the status in the step view that expressions read
  result,    \* what runStep returned
  calls,     \* history: the calls of the action
  ends,      \* history: the statuses of the iterations
  fault,     \* history: what went wrong in this invocation, and stayed so
  faults     \* history: the faults of the iterations

loop == <<items, item, worst, ends, faults>>
tries == <<attempt, cause, calls>>
vars == <<step, ctx, pc, loop, tries, trace, view, result, fault>>

(* What can be wrong with an invocation: the last call of its action       *)
(* "failed" or "timed-out", or an expression or the set-up of the step is  *)
(* "broken".  A call that is retried with success leaves nothing wrong.    *)
Faults == {"none", "broken"} \cup Causes

Event(type, status, n) == [type |-> type, status |-> status, n |-> n]
Started == Event("started", "running", 0)
Finished(s) == Event("finished", s, 0)
Retry(n, c) == Event("retry", c, n)
Output == Event("output", "running", 0)

Init ==
  /\ step \in Configs
  /\ ctx = "live"
  /\ pc = "enter"
  /\ items = 0 /\ item = 0 /\ worst = "success" /\ ends = <<>> /\ faults = <<>>
  /\ attempt = 0 /\ cause = "none" /\ calls = 0
  /\ trace = <<>>
  /\ view = "none"
  /\ result = "none"
  /\ fault = "none"

-----------------------------------------------------------------------------
Publish(events) == trace' = trace \o events

(* SuppressLifecycle: inside an iteration emitFinished publishes nothing.  *)
Suppressed == items > 0
EmitFinished(outputs, s) ==
  IF Suppressed THEN Publish(outputs) /\ UNCHANGED view
  ELSE Publish(Append(outputs, Finished(s))) /\ view' = s

(* The end of one invocation, of the step or of an iteration, with what    *)
(* was wrong with it.                                                      *)
Returns(s, f) ==
  /\ fault' = f
  /\ IF Suppressed
     THEN /\ pc' = "iterated" /\ ends' = Append(ends, s) /\ faults' = Append(faults, f)
          /\ UNCHANGED <<items, item, worst, result>>
     ELSE /\ pc' = "returned" /\ result' = s
          /\ UNCHANGED loop

(* Cascade skip and resume replay.                                         *)
SkipsOrReplays ==
  /\ pc = "enter"
  /\ step.skipReason \/ step.cached
  /\ LET s == IF step.skipReason THEN "skipped" ELSE "success" IN
       /\ Publish(<<Started, Finished(s)>>)
       /\ view' = s
       /\ Returns(s, "none")
  /\ UNCHANGED <<step, ctx, tries>>

Fresh == pc = "enter" /\ ~step.skipReason /\ ~step.cached

EntersPlain ==
  /\ Fresh
  /\ ~step.forEach
  /\ pc' = "prepare"
  /\ UNCHANGED <<step, ctx, loop, tries, trace, view, result, fault>>

(* What a for-each: expression may give: nothing, an error, a list of n    *)
(* elements, a text with n commas, or a value of another type.             *)
ForEachValues ==
  [kind : {"error", "nil", "emptyText", "other"}, n : {0}]
  \cup [kind : {"list"}, n : 0..MaxItems]
  \cup [kind : {"text"}, n : 0..(MaxItems - 1)]

(* The length of the list made of it, or an error.                         *)
EvaluateForEach(v) ==
  CASE v.kind = "list" -> {v.n}
    [] v.kind = "text" -> {v.n + 1}
    [] v.kind \in {"nil", "emptyText"} -> {0}
    [] OTHER -> {}

(* for-each: the expression fails, or gives an empty list.                 *)
LoopIsOver ==
  /\ Fresh
  /\ step.forEach
  /\ \E v \in ForEachValues :
       LET s == IF EvaluateForEach(v) = {} THEN "failed" ELSE "success" IN
       /\ EvaluateForEach(v) \subseteq {0}
       /\ Publish(<<Started, Finished(s)>>)
       /\ view' = s
       /\ Returns(s, IF EvaluateForEach(v) = {} THEN "broken" ELSE "none")
  /\ UNCHANGED <<step, ctx, tries>>

LoopBegins ==
  /\ Fresh
  /\ step.forEach
  /\ \E v \in ForEachValues : items' \in EvaluateForEach(v) \ {0}
  /\ item' = 1
  /\ Publish(<<Started>>)
  /\ pc' = "prepare"
  /\ UNCHANGED <<step, ctx, tries, worst, ends, faults, view, result, fault>>

(* abortStep, and an if: that does not evaluate: inside a loop too the     *)
(* events are published and the view is written.                           *)
Aborts ==
  /\ pc = "prepare"
  /\ Publish(<<Started, Finished("failed")>>)
  /\ view' = "failed"
  /\ Returns("failed", "broken")
  /\ UNCHANGED <<step, ctx, tries>>

(* if: is false; again nothing is suppressed.                              *)
GateClosed ==
  /\ pc = "prepare"
  /\ step.gated
  /\ Publish(<<Started, Finished("skipped")>>)
  /\ view' = "skipped"
  /\ Returns("skipped", "none")
  /\ UNCHANGED <<step, ctx, tries>>

Begins ==
  /\ pc = "prepare"
  /\ Publish(IF Suppressed THEN <<>> ELSE <<Started>>)
  /\ attempt' = 1
  /\ pc' = "attempt"
  /\ UNCHANGED <<step, ctx, loop, cause, calls, view, result, fault>>

-----------------------------------------------------------------------------
(* retryHandles: an empty on: means {failed}.                              *)
RetryHandles(c) == c \in IF step.retryOn = {} THEN {"failed"} ELSE step.retryOn

AttemptSucceeds ==
  /\ pc = "attempt"
  /\ calls' = calls + 1
  /\ fault' = "none"
  /\ pc' = "mapping"
  /\ UNCHANGED <<step, ctx, loop, attempt, cause, trace, view, result>>

(* runOnce: an error after the deadline, the step's own or the cleanup     *)
(* pass's, is a timeout; any other is a failure.                           *)
CausesNow ==
  IF ctx = "deadline" THEN {"timed-out"}
  ELSE IF step.timeout THEN {"failed", "timed-out"} ELSE {"failed"}

(* Mutant: an attempt too many.                                            *)
AttemptFails_OneMore ==
  /\ pc = "attempt"
  /\ calls' = calls + 1
  /\ \E c \in CausesNow :
       /\ cause' = c /\ fault' = c
       /\ IF RetryHandles(c) /\ attempt <= step.attempts
          THEN pc' = "sleep" /\ Publish(<<Retry(attempt, c)>>)
          ELSE pc' = "finish" /\ UNCHANGED trace
  /\ UNCHANGED <<step, ctx, loop, attempt, view, result>>

(* The attempt fails; StepRetry is published before the sleep.             *)
AttemptFails ==
  /\ pc = "attempt"
  /\ calls' = calls + 1
  /\ \E c \in CausesNow :
       /\ cause' = c /\ fault' = c
       /\ IF RetryHandles(c) /\ attempt < step.attempts
          THEN pc' = "sleep" /\ Publish(<<Retry(attempt, c)>>)
          ELSE pc' = "finish" /\ UNCHANGED trace
  /\ UNCHANGED <<step, ctx, loop, attempt, view, result>>

(* The delay is over.  When the context is done as well the select may     *)
(* take either branch.                                                     *)
Wakes ==
  /\ pc = "sleep"
  /\ attempt' = attempt + 1
  /\ pc' = "attempt"
  /\ UNCHANGED <<step, ctx, loop, cause, calls, trace, view, result, fault>>

(* The sleep is cut short; the cause stays that of the attempt before it.  *)
SleepCancelled ==
  /\ pc = "sleep"
  /\ ctx # "live"
  /\ pc' = "finish"
  /\ UNCHANGED <<step, ctx, loop, tries, trace, view, result, fault>>

(* Mutant: continue-on-error lets a timeout off as well.                   *)
FailureStatus_TimeoutsToo ==
  IF step.continueOnError THEN "failed-continued" ELSE cause

FailureStatus ==
  IF cause = "timed-out" THEN "timed-out"
  ELSE IF step.continueOnError THEN "failed-continued" ELSE "failed"

Fails ==
  /\ pc = "finish"
  /\ EmitFinished(<<>>, FailureStatus)
  /\ Returns(FailureStatus, fault)
  /\ UNCHANGED <<step, ctx, tries>>

(* Mutant: a mapping that fails leaves the view alone.                     *)
MappingFails_ViewKept ==
  /\ pc = "mapping" /\ step.mapped
  /\ Publish(<<Output, Finished("failed")>>)
  /\ UNCHANGED view
  /\ Returns("failed", "broken")
  /\ UNCHANGED <<step, ctx, tries>>

(* An expression of the outputs: mapping fails, after others were          *)
(* published; continue-on-error is not asked, nothing is suppressed.       *)
MappingFails ==
  /\ pc = "mapping"
  /\ step.mapped
  /\ \E outputs \in {<<>>, <<Output>>} : Publish(Append(outputs, Finished("failed")))
  /\ view' = "failed"
  /\ Returns("failed", "broken")
  /\ UNCHANGED <<step, ctx, tries>>

Succeeds ==
  /\ pc = "mapping"
  /\ EmitFinished(IF step.mapped THEN <<Output>> ELSE <<>>, "success")
  /\ Returns("success", "none")
  /\ UNCHANGED <<step, ctx, tries>>

-----------------------------------------------------------------------------
(* Mutant: the status of the last iteration counts.                        *)
Worse_Last(s) == s

(* The first fatal status is kept.                                         *)
Worse(s) == IF s \in Fatal /\ worst \notin Fatal THEN s ELSE worst

NextItem ==
  /\ pc = "iterated"
  /\ item < items
  /\ worst' = Worse(ends[item])
  /\ item' = item + 1
  /\ fault' = "none"
  /\ pc' = "prepare"
  /\ UNCHANGED <<step, ctx, items, ends, faults, tries, trace, view, result>>

(* Mutant: off by one at the end of the list.                              *)
LoopEnds_OffByOne ==
  /\ pc = "iterated"
  /\ item > items
  /\ Publish(<<Finished(worst)>>)
  /\ pc' = "returned" /\ result' = worst /\ view' = worst
  /\ UNCHANGED <<step, ctx, loop, tries, fault>>

LoopEnds ==
  /\ pc = "iterated"
  /\ item = items
  /\ LET s == Worse(ends[item]) IN
       /\ worst' = s
       /\ Publish(<<Finished(s)>>)
       /\ view' = s
       /\ result' = s
  /\ pc' = "returned"
  /\ UNCHANGED <<step, ctx, items, item, ends, faults, tries, fault>>

(* DELETE /runs/{id} cancels the run; a cleanup step runs detached from it *)
(* under a deadline for the whole pass.                                    *)
ContextDone ==
  /\ ctx = "live"
  /\ ctx' = IF step.cleanup THEN "deadline" ELSE "cancelled"
  /\ UNCHANGED <<step, pc, loop, tries, trace, view, result, fault>>

RunStep ==
  \/ SkipsOrReplays \/ EntersPlain \/ LoopIsOver \/ LoopBegins
  \/ Aborts \/ GateClosed \/ Begins
  \/ AttemptSucceeds \/ AttemptFails \/ Wakes \/ SleepCancelled
  \/ Fails \/ MappingFails \/ Succeeds
  \/ NextItem \/ LoopEnds

Next == RunStep \/ ContextDone

(* The goroutine runs, and every call of the action returns.               *)
Spec == Init /\ [][Next]_vars /\ WF_vars(RunStep)

-----------------------------------------------------------------------------
(* Properties.                                                             *)

TypeOK ==
  /\ step \in Configs
  /\ ctx \in {"live", "cancelled", "deadline"}
  /\ pc \in {"enter", "prepare", "attempt", "sleep", "finish", "mapping",
             "iterated", "returned"}
  /\ items \in 0..MaxItems /\ item \in 0..items
  /\ worst \in {"success"} \cup Fatal
  /\ ends \in Seq(Fatal \cup Mild)
  /\ fault \in Faults /\ faults \in Seq(Faults)
  /\ attempt \in 0..step.attempts
  /\ cause \in {"none"} \cup Causes
  /\ calls \in Nat
  /\ trace \in Seq([type : {"started", "finished", "retry", "output"},
                    status : {"running"} \cup Fatal \cup Mild, n : Nat])
  /\ view \in {"none"} \cup Fatal \cup Mild
  /\ result \in {"none"} \cup Fatal \cup Mild

Last(s) == s[Len(s)]

(* When runStep returns, what the renderers and state.json saw last, what  *)
(* expressions read and what the scheduler is told are one status, and a   *)
(* status of the scheduler's four (engine.go:317-645).                     *)
ReturnAgrees ==
  pc = "returned" =>
    /\ trace[1] = Started
    /\ Last(trace) = Finished(result)
    /\ view = result
    /\ result \in Fatal \cup Mild

RetryAt == {i \in DOMAIN trace : trace[i].type = "retry"}

(* Outside a loop the retries follow the start of the step, numbered from  *)
(* 1, each for a cause the policy covers, and the action is called once    *)
(* more than it is retried, at most as often as allowed; only a sleep that *)
(* was cut short leaves the last retry without its call                    *)
(* (engine.go:563-597).                                                    *)
RetriesAddUp ==
  ~step.forEach =>
    LET retries == Cardinality(RetryAt) IN
    /\ calls <= step.attempts
    /\ \A i \in RetryAt : trace[i].n = i - 1 /\ RetryHandles(trace[i].status)
    /\ retries <= calls
    /\ pc = "returned" /\ calls > 0 =>
         calls = retries + 1 \/ (calls = retries /\ ctx # "live")

(* The status s of an invocation is the one its fault f calls for: a       *)
(* time-out always shows, a failed call is let off by continue-on-error    *)
(* and by nothing else, and what is broken is a failure in any case.       *)
Answers(s, f) ==
  /\ s = "timed-out" <=> f = "timed-out"
  /\ s = "failed-continued" <=> f = "failed" /\ step.continueOnError
  /\ s = "failed" <=> f = "broken" \/ (f = "failed" /\ ~step.continueOnError)

(* A step is fatal to the run exactly when something fatal happened in it. *)
(* Outside a loop its status answers to its fault, both ways.  In a loop   *)
(* that of each iteration does, and the step has the first fatal one, or   *)
(* success if there is none (engine.go:357-393, 458-473, 601-640).         *)
FatalForAReason ==
  pc = "returned" =>
    /\ items = 0 => Answers(result, fault)
    /\ items > 0 =>
         /\ Len(ends) = items /\ Len(faults) = items
         /\ \A i \in 1..items : Answers(ends[i], faults[i])
         /\ result # "success" =>
              \E i \in 1..items : /\ ends[i] = result /\ result \in Fatal
                                  /\ \A j \in 1..(i - 1) : ends[j] \notin Fatal
         /\ result = "success" => \A i \in 1..items : ends[i] \notin Fatal

(* A step comes to an end, retries and loops included.                     *)
Returned == <>(pc = "returned")
=============================================================================
