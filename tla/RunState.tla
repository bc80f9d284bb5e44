------------------------------ MODULE RunState ------------------------------
(***************************************************************************)
(* state.json over the lives of a run: internal/state writes it at every   *)
(* event, the process may die at any moment, and --resume loads it,        *)
(* replays the steps it records as successful and executes the rest        *)
(* (internal/state/state.go, resume.go; Run and runStep of                 *)
(* internal/engine/engine.go).                                             *)
(*                                                                         *)
(* The scheduler is taken at the level of DagRun: a step starts when its   *)
(* needs ended well and the run is not halted; a halted run skips the rest.*)
(* When the graph is through, the cleanup: steps run one after the other.  *)
(* state.json keys a step by its id.  Keys may be shared: by the steps     *)
(* without an id, whose key is "", and by a cleanup step and a step of the *)
(* graph, whose ids nobody compares.                                       *)
(***************************************************************************)
EXTENDS Naturals, Sequences, SequencesExt

CONSTANTS
  Nodes,       \* the steps
  Needs,       \* what each step needs, acyclic
  Cleanup,     \* the cleanup: steps, a sequence
  Keys,        \* step ids
  Key,         \* the id of each step, "" for none
  MaxLives     \* bound on the processes that work on the run

ASSUME NeedsAssumption ==
  /\ Needs \in [Nodes -> SUBSET Nodes]
  /\ \A S \in SUBSET Nodes : S # {} => \E n \in S : Needs[n] \cap S = {}
Teardown == Range(Cleanup)
Steps == Nodes \cup Teardown

ASSUME CleanupAssumption == Nodes \cap Teardown = {}
ASSUME KeyAssumption == Key \in [Steps -> Keys]
ASSUME LivesAssumption == MaxLives \in Nat \ {0}

Outcomes == {"success", "failed", "failed-continued"}
Settled == Outcomes \cup {"skipped"}

VARIABLES
  life,        \* which process works on the run
  stage,       \* of that process: "boot", "running", "finished", "dead"
  mem,         \* Writer.run
  disk,        \* state.json
  cache,       \* ResumeCache: the ids recorded as successful
  pc,          \* the goroutine of a step: "waiting", "execute", "finish", "done"
  outcome,     \* what it returns
  halt,        \* the scheduler's halt
  succeeded    \* history: the steps whose action has ever succeeded

writer == <<mem, disk>>
vars == <<life, stage, writer, cache, pc, outcome, halt, succeeded>>

NoRun == [status |-> "none", steps |-> [k \in Keys |-> "none"]]

Init ==
  /\ life = 1
  /\ stage = "boot"
  /\ mem = NoRun
  /\ disk = NoRun
  /\ cache = {}
  /\ pc = [n \in Steps |-> "waiting"]
  /\ outcome = [n \in Steps |-> "none"]
  /\ halt = FALSE
  /\ succeeded = {}

-----------------------------------------------------------------------------
(* Writer.Handle: the event goes into the record, and the whole record to  *)
(* a temporary file that is renamed over state.json.  A flush that fails   *)
(* is logged and the run goes on.                                          *)
Handle(run) ==
  /\ mem' = run
  /\ disk' \in {run, disk}

StepEvent(n, status) == Handle([mem EXCEPT !.steps[Key[n]] = status])

RunStarted ==
  /\ stage = "boot"
  /\ Handle([mem EXCEPT !.status = "running"])
  /\ stage' = "running"
  /\ UNCHANGED <<life, cache, pc, outcome, halt, succeeded>>

-----------------------------------------------------------------------------
(* The steps.                                                              *)

EndedWell(n) == pc[n] = "done" /\ outcome[n] # "failed" /\ outcome[n] # "skipped"

(* A step that state.json records as successful is replayed: StepStarted   *)
(* and StepFinished, and no action.                                        *)
Begin(n) ==
  /\ stage = "running"
  /\ pc[n] = "waiting"
  /\ StepEvent(n, "running")
  /\ IF Key[n] \in cache
     THEN /\ pc' = [pc EXCEPT ![n] = "finish"]
          /\ outcome' = [outcome EXCEPT ![n] = "success"]
     ELSE pc' = [pc EXCEPT ![n] = "execute"] /\ UNCHANGED outcome
  /\ UNCHANGED <<life, stage, cache, halt, succeeded>>

(* A step whose needs ended well starts.                                   *)
Start(n) ==
  /\ n \in Nodes
  /\ ~halt /\ \A m \in Needs[n] : EndedWell(m)
  /\ Begin(n)

Execute(n) ==
  /\ stage = "running"
  /\ pc[n] = "execute"
  /\ \E s \in Outcomes :
       /\ outcome' = [outcome EXCEPT ![n] = s]
       /\ succeeded' = IF s = "success" THEN succeeded \cup {n} ELSE succeeded
  /\ pc' = [pc EXCEPT ![n] = "finish"]
  /\ UNCHANGED <<life, stage, writer, cache, halt>>

Finish(n) ==
  /\ stage = "running"
  /\ pc[n] = "finish"
  /\ StepEvent(n, outcome[n])
  /\ pc' = [pc EXCEPT ![n] = "done"]
  /\ UNCHANGED <<life, stage, cache, outcome, halt, succeeded>>

Halt ==
  /\ stage = "running"
  /\ \E n \in Nodes : pc[n] = "done" /\ outcome[n] = "failed"
  /\ halt' = TRUE
  /\ UNCHANGED <<life, stage, writer, cache, pc, outcome, succeeded>>

(* Mutant: only what needs the failed step itself is skipped.              *)
Skip_NoCascade(n) ==
  /\ stage = "running" /\ n \in Nodes /\ pc[n] = "waiting" /\ halt
  /\ \E m \in Needs[n] : pc[m] = "done" /\ outcome[m] = "failed"
  /\ StepEvent(n, "running")
  /\ pc' = [pc EXCEPT ![n] = "finish"]
  /\ outcome' = [outcome EXCEPT ![n] = "skipped"]
  /\ UNCHANGED <<life, stage, cache, halt, succeeded>>

(* cascadeSkip: SkipReason is looked at before the resume cache is.        *)
Skip(n) ==
  /\ stage = "running" /\ n \in Nodes
  /\ pc[n] = "waiting"
  /\ halt
  /\ StepEvent(n, "running")
  /\ pc' = [pc EXCEPT ![n] = "finish"]
  /\ outcome' = [outcome EXCEPT ![n] = "skipped"]
  /\ UNCHANGED <<life, stage, cache, halt, succeeded>>

AllDone == \A n \in Nodes : pc[n] = "done"

(* Mutant: a step that was let off gives the run its status.               *)
Verdict_LetOff ==
  IF \E n \in Nodes : outcome[n] = "failed" THEN "failed"
  ELSE IF \E n \in Nodes : outcome[n] = "failed-continued" THEN "failed-continued"
  ELSE "success"

Verdict == IF \E n \in Nodes : outcome[n] = "failed" THEN "failed" ELSE "success"

(* runCleanup: in order, whatever has failed, in the graph or before it.   *)
StartCleanup(i) ==
  /\ AllDone
  /\ \A j \in 1..i - 1 : pc[Cleanup[j]] = "done"
  /\ Begin(Cleanup[i])

Finished(verdict) ==
  /\ stage = "running"
  /\ Handle([mem EXCEPT !.status = verdict])
  /\ stage' = "finished"
  /\ UNCHANGED <<life, cache, pc, outcome, halt, succeeded>>

(* Mutant: the run is over when no step is left to start.                  *)
RunFinished_InFlight == (\A n \in Steps : pc[n] # "waiting") /\ Finished(Verdict)

(* The graph alone has decided the verdict.                                *)
RunFinished == (\A n \in Steps : pc[n] = "done") /\ Finished(Verdict)

-----------------------------------------------------------------------------
(* The process dies; --resume starts another one.                          *)

Crash ==
  /\ stage \in {"boot", "running"}
  /\ stage' = "dead"
  /\ UNCHANGED <<life, writer, cache, pc, outcome, halt, succeeded>>

(* Mutant: whatever is recorded is taken to be done.                       *)
CacheOf_Unfiltered(run) == {k \in Keys : run.steps[k] # "none"}

CacheOf(run) == {k \in Keys : run.steps[k] = "success"}

(* Load and Adopt.                                                         *)
Resume ==
  /\ stage \in {"dead", "finished"}
  /\ disk # NoRun
  /\ life < MaxLives
  /\ life' = life + 1
  /\ stage' = "boot"
  /\ mem' = disk
  /\ cache' = CacheOf(disk)
  /\ pc' = [n \in Steps |-> "waiting"]
  /\ outcome' = [n \in Steps |-> "none"]
  /\ halt' = FALSE
  /\ UNCHANGED <<disk, succeeded>>

Process ==
  \/ RunStarted \/ Halt \/ RunFinished
  \/ \E n \in Steps : Start(n) \/ Execute(n) \/ Finish(n) \/ Skip(n)
  \/ \E i \in DOMAIN Cleanup : StartCleanup(i)

Next == Process \/ Crash \/ Resume

(* A live process works; it need not crash, nor be resumed.                *)
Spec == Init /\ [][Next]_vars /\ WF_vars(Process)

-----------------------------------------------------------------------------
(* Properties.                                                             *)

RunRecord ==
  [status : {"none", "running", "success", "failed"},
   steps : [Keys -> {"none", "running"} \cup Settled]]

TypeOK ==
  /\ life \in 1..MaxLives
  /\ stage \in {"boot", "running", "finished", "dead"}
  /\ mem \in RunRecord /\ disk \in RunRecord
  /\ cache \subseteq Keys
  /\ pc \in [Steps -> {"waiting", "execute", "finish", "done"}]
  /\ outcome \in [Steps -> {"none"} \cup Settled]
  /\ halt \in BOOLEAN
  /\ succeeded \subseteq Steps

Succeeded(k) == \E n \in succeeded : Key[n] = k
Truthful(run) == \A k \in Keys : run.steps[k] = "success" => Succeeded(k)

(* A success on disk is one: the action of a step with that key has        *)
(* succeeded in this life or an earlier one, whatever crashes and failed   *)
(* flushes lie between (state.go:77-132, resume.go:15-45,                  *)
(* engine.go:115-126, 330-345).                                            *)
RecordedIsTrue == Truthful(disk)

SharesKey(n, S) == \E m \in S \ {n} : Key[m] = Key[n]

Conclusive(run) ==
  run.status \in {"success", "failed"} =>
    /\ \A n \in Steps : run.steps[Key[n]] \in Settled
    /\ run.status = "success" =>
         \A n \in Nodes : run.steps[Key[n]] = "failed" => SharesKey(n, Teardown)
    /\ run.status = "failed" =>
         \E n \in Nodes : run.steps[Key[n]] = "failed" \/ SharesKey(n, Steps)

(* A verdict on disk is final: no step, of the graph or of the cleanup, is *)
(* recorded as running or missing, and the run is a success exactly if no  *)
(* step of its graph is recorded as failed, unless another step has        *)
(* written over the record (state.go:112-125, engine.go:235-258, 795-797). *)
VerdictIsFinal == Conclusive(disk)

(* A process that is left alone finishes the run.                          *)
Completes == (stage = "boot") ~> (stage \in {"finished", "dead"})
=============================================================================
