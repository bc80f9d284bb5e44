-------------------------- MODULE RunState_proofs ---------------------------
(***************************************************************************)
(* Proofs about RunState, for every workflow, every assignment of ids and  *)
(* every number of lives.                                                  *)
(***************************************************************************)
EXTENDS RunState, TLAPS

(* What a process is about to record is true, and so is what it would      *)
(* replay.                                                                 *)
SuccessesHappened ==
  /\ Truthful(mem) /\ Truthful(disk)
  /\ \A k \in cache : Succeeded(k)
  /\ \A n \in Steps : pc[n] = "finish" /\ outcome[n] = "success" => Succeeded(Key[n])

OutcomesKnown == \A n \in Steps : pc[n] \in {"finish", "done"} => outcome[n] \in Settled

(* Once all steps of a key are done, its record is what one of them came   *)
(* to in this life.                                                        *)
RecordsCurrent ==
  \A n \in Steps :
    (\A m \in Steps : Key[m] = Key[n] => pc[m] = "done") =>
      \E m \in Steps : Key[m] = Key[n] /\ mem.steps[Key[n]] = outcome[m]

StagesAgree ==
  /\ stage = "boot" => \A n \in Steps : pc[n] = "waiting"
  /\ stage = "running" => mem.status = "running" /\ RecordsCurrent
  /\ Conclusive(mem) /\ Conclusive(disk)

IInv == TypeOK /\ OutcomesKnown /\ SuccessesHappened /\ StagesAgree

-----------------------------------------------------------------------------
LEMMA InitEstablishes == Init => IInv
<1> SUFFICES ASSUME Init PROVE IInv
  OBVIOUS
<1>1. NoRun \in RunRecord
  BY DEF NoRun, RunRecord
<1>2. TypeOK
  <2>1. life \in 1..MaxLives
    BY LivesAssumption DEF Init
  <2>2. mem \in RunRecord /\ disk \in RunRecord
    BY <1>1 DEF Init
  <2>3. pc \in [Steps -> {"waiting", "execute", "finish", "done"}]
    BY DEF Init
  <2>4. outcome \in [Steps -> {"none"} \cup Settled]
    BY DEF Init
  <2>5. stage \in {"boot", "running", "finished", "dead"} /\ cache \subseteq Keys /\ halt \in BOOLEAN /\ succeeded \subseteq Steps
    BY DEF Init
  <2> QED BY <2>1, <2>2, <2>3, <2>4, <2>5 DEF TypeOK
<1>3. OutcomesKnown
  BY DEF Init, OutcomesKnown
<1>4. SuccessesHappened
  BY DEF Init, SuccessesHappened, Truthful, NoRun
<1>5. StagesAgree
  BY DEF Init, StagesAgree, Conclusive, NoRun
<1> QED BY <1>2, <1>3, <1>4, <1>5 DEF IInv

-----------------------------------------------------------------------------
(* What one event does to the record and to the file.                      *)
LEMMA StepEventEffect ==
  ASSUME TypeOK, NEW n \in Steps, NEW s \in {"running"} \cup Settled, StepEvent(n, s)
  PROVE  /\ mem' \in RunRecord /\ disk' \in RunRecord
         /\ mem'.status = mem.status
         /\ \A k \in Keys : mem'.steps[k] = IF k = Key[n] THEN s ELSE mem.steps[k]
         /\ disk' = mem' \/ disk' = disk
<1>1. Key[n] \in Keys
  BY KeyAssumption
<1>2. mem' = [mem EXCEPT !.steps[Key[n]] = s] /\ disk' \in {mem', disk}
  BY DEF StepEvent, Handle
<1>3. mem' \in RunRecord
  BY <1>1, <1>2 DEF TypeOK, RunRecord
<1> QED BY <1>1, <1>2, <1>3 DEF TypeOK, RunRecord

LEMMA RunEventEffect ==
  ASSUME TypeOK, NEW v \in {"running", "success", "failed"},
         Handle([mem EXCEPT !.status = v])
  PROVE  /\ mem' \in RunRecord /\ disk' \in RunRecord
         /\ mem'.status = v /\ mem'.steps = mem.steps
         /\ disk' = mem' \/ disk' = disk
<1>1. mem' = [mem EXCEPT !.status = v] /\ disk' \in {mem', disk}
  BY DEF Handle
<1> QED BY <1>1 DEF TypeOK, RunRecord

LEMMA RunStartedKeeps == ASSUME IInv, RunStarted PROVE IInv'
<1> USE DEF IInv
<1>1. /\ mem' \in RunRecord /\ disk' \in RunRecord
      /\ mem'.status = "running" /\ mem'.steps = mem.steps
      /\ disk' = mem' \/ disk' = disk
  BY RunEventEffect DEF RunStarted
<1>2. UNCHANGED <<life, cache, pc, outcome, halt, succeeded>> /\ stage' = "running" /\ stage = "boot"
  BY DEF RunStarted
<1>3. TypeOK'
  BY <1>1, <1>2 DEF TypeOK
<1>4. OutcomesKnown'
  BY <1>2 DEF OutcomesKnown
<1>5. SuccessesHappened'
  BY <1>1, <1>2 DEF SuccessesHappened, Truthful, Succeeded
<1>6. StagesAgree'
  <2>1. RecordsCurrent'
    BY <1>2 DEF StagesAgree, RecordsCurrent
  <2> QED BY <1>1, <1>2, <2>1 DEF StagesAgree, Conclusive
<1> QED BY <1>3, <1>4, <1>5, <1>6

(* A step begins, be it to execute or to be replayed, or is skipped: in    *)
(* each case it is recorded as running.                                    *)
LEMMA BeginningKeeps ==
  ASSUME IInv, NEW n \in Steps, stage = "running", pc[n] = "waiting",
         StepEvent(n, "running"),
         UNCHANGED <<life, stage, cache, halt, succeeded>>,
         \/ pc' = [pc EXCEPT ![n] = "execute"] /\ UNCHANGED outcome
         \/ \E o \in Settled : /\ pc' = [pc EXCEPT ![n] = "finish"]
                               /\ outcome' = [outcome EXCEPT ![n] = o]
                               /\ o = "success" => Succeeded(Key[n])
  PROVE  IInv'
<1> USE DEF IInv
<1>1. /\ mem' \in RunRecord /\ disk' \in RunRecord
      /\ mem'.status = mem.status
      /\ \A k \in Keys : mem'.steps[k] = IF k = Key[n] THEN "running" ELSE mem.steps[k]
      /\ disk' = mem' \/ disk' = disk
  BY StepEventEffect
<1>2. /\ pc' \in [Steps -> {"waiting", "execute", "finish", "done"}]
      /\ outcome' \in [Steps -> {"none"} \cup Settled]
      /\ \A m \in Steps \ {n} : pc'[m] = pc[m] /\ outcome'[m] = outcome[m]
      /\ pc'[n] \in {"execute", "finish"}
      /\ pc'[n] = "finish" => outcome'[n] \in Settled
      /\ pc'[n] = "finish" /\ outcome'[n] = "success" => Succeeded(Key[n])
  BY DEF TypeOK
<1>3. TypeOK'
  BY <1>1, <1>2 DEF TypeOK
<1>4. OutcomesKnown'
  BY <1>2 DEF OutcomesKnown
<1>5. SuccessesHappened'
  <2>1. Truthful(mem)' /\ Truthful(disk)'
    BY <1>1 DEF SuccessesHappened, Truthful, Succeeded
  <2> QED BY <1>2, <2>1 DEF SuccessesHappened, Succeeded
<1>6. StagesAgree'
  <2>1. RecordsCurrent'
    <3> SUFFICES ASSUME NEW a \in Steps,
                        \A m \in Steps : Key[m] = Key[a] => pc'[m] = "done"
                 PROVE  \E m \in Steps : Key[m] = Key[a] /\ mem'.steps[Key[a]] = outcome'[m]
      BY DEF RecordsCurrent
    <3>1. Key[a] # Key[n] /\ Key[a] \in Keys
      BY <1>2, KeyAssumption
    <3>2. PICK m \in Steps : Key[m] = Key[a] /\ mem.steps[Key[a]] = outcome[m]
      BY <1>2, <3>1 DEF StagesAgree, RecordsCurrent
    <3> QED BY <1>1, <1>2, <3>1, <3>2
  <2>2. Conclusive(mem)' /\ Conclusive(disk)'
    BY <1>1 DEF StagesAgree, Conclusive
  <2> QED BY <1>1, <2>1, <2>2 DEF StagesAgree
<1> QED BY <1>3, <1>4, <1>5, <1>6

LEMMA BeginKeeps == ASSUME IInv, NEW n \in Steps, Begin(n) PROVE IInv'
<1>1. CASE Key[n] \in cache
  <2>1. Succeeded(Key[n])
    BY <1>1 DEF IInv, SuccessesHappened
  <2> QED BY <1>1, <2>1, BeginningKeeps DEF Begin, Settled, Outcomes
<1>2. CASE Key[n] \notin cache
  BY <1>2, BeginningKeeps DEF Begin
<1> QED BY <1>1, <1>2

LEMMA SkipKeeps == ASSUME IInv, NEW n \in Steps, Skip(n) PROVE IInv'
<1>1. "skipped" \in Settled /\ "skipped" # "success"
  BY DEF Settled
<1> QED BY <1>1, BeginningKeeps DEF Skip

LEMMA ExecuteKeeps == ASSUME IInv, NEW n \in Steps, Execute(n) PROVE IInv'
<1> USE DEF IInv
<1>1. PICK s \in Outcomes :
        /\ outcome' = [outcome EXCEPT ![n] = s]
        /\ succeeded' = IF s = "success" THEN succeeded \cup {n} ELSE succeeded
  BY DEF Execute
<1>2. /\ pc' = [pc EXCEPT ![n] = "finish"] /\ pc[n] = "execute" /\ stage = "running"
      /\ UNCHANGED <<life, stage, mem, disk, cache, halt>>
  BY DEF Execute, writer
<1>3. TypeOK'
  <2>1. outcome' \in [Steps -> {"none"} \cup Settled]
    BY <1>1 DEF TypeOK, Settled
  <2>2. pc' \in [Steps -> {"waiting", "execute", "finish", "done"}]
    BY <1>2 DEF TypeOK
  <2>3. succeeded' \subseteq Steps
    BY <1>1 DEF TypeOK
  <2> QED BY <1>2, <2>1, <2>2, <2>3 DEF TypeOK
<1>4. OutcomesKnown'
  BY <1>1, <1>2 DEF OutcomesKnown, TypeOK, Settled
<1>5. SuccessesHappened'
  <2>1. succeeded \subseteq succeeded' /\ \A k \in Keys : Succeeded(k) => Succeeded(k)'
    BY <1>1 DEF Succeeded
  <2>2. Truthful(mem)' /\ Truthful(disk)'
    BY <1>2, <2>1 DEF SuccessesHappened, Truthful
  <2>3. \A k \in cache' : Succeeded(k)'
    BY <1>2, <2>1 DEF SuccessesHappened, TypeOK
  <2>4. ASSUME NEW m \in Steps, pc'[m] = "finish", outcome'[m] = "success"
        PROVE  Succeeded(Key[m])'
    <3>1. CASE m = n
      <4>1. n \in succeeded'
        BY <1>1, <2>4, <3>1 DEF TypeOK
      <4> QED BY <3>1, <4>1 DEF Succeeded
    <3>2. CASE m # n
      <4>1. Key[m] \in Keys /\ Succeeded(Key[m])
        BY <1>1, <1>2, <2>4, <3>2, KeyAssumption DEF SuccessesHappened, TypeOK
      <4> QED BY <2>1, <4>1
    <3> QED BY <3>1, <3>2
  <2> QED BY <2>2, <2>3, <2>4 DEF SuccessesHappened
<1>6. StagesAgree'
  <2>1. RecordsCurrent'
    BY <1>1, <1>2 DEF StagesAgree, RecordsCurrent, TypeOK
  <2> QED BY <1>2, <2>1 DEF StagesAgree, Conclusive
<1> QED BY <1>3, <1>4, <1>5, <1>6

LEMMA FinishKeeps == ASSUME IInv, NEW n \in Steps, Finish(n) PROVE IInv'
<1> USE DEF IInv
<1>1. /\ stage = "running" /\ pc[n] = "finish" /\ StepEvent(n, outcome[n])
      /\ pc' = [pc EXCEPT ![n] = "done"]
      /\ UNCHANGED <<life, stage, cache, outcome, halt, succeeded>>
  BY DEF Finish
<1>2. outcome[n] \in Settled /\ (outcome[n] = "success" => Succeeded(Key[n]))
  BY <1>1 DEF OutcomesKnown, SuccessesHappened
<1>3. /\ mem' \in RunRecord /\ disk' \in RunRecord
      /\ mem'.status = mem.status
      /\ \A k \in Keys : mem'.steps[k] = IF k = Key[n] THEN outcome[n] ELSE mem.steps[k]
      /\ disk' = mem' \/ disk' = disk
  BY <1>1, <1>2, StepEventEffect
<1>4. TypeOK'
  BY <1>1, <1>3 DEF TypeOK
<1>5. OutcomesKnown'
  BY <1>1, <1>2 DEF OutcomesKnown, TypeOK
<1>6. SuccessesHappened'
  <2>1. Truthful(mem)' /\ Truthful(disk)'
    BY <1>1, <1>2, <1>3 DEF SuccessesHappened, Truthful, Succeeded
  <2> QED BY <1>1, <2>1 DEF SuccessesHappened, Succeeded, TypeOK
<1>7. StagesAgree'
  <2>1. RecordsCurrent'
    <3> SUFFICES ASSUME NEW a \in Steps,
                        \A m \in Steps : Key[m] = Key[a] => pc'[m] = "done"
                 PROVE  \E m \in Steps : Key[m] = Key[a] /\ mem'.steps[Key[a]] = outcome'[m]
      BY DEF RecordsCurrent
    <3>1. Key[a] \in Keys
      BY KeyAssumption
    <3>2. CASE Key[a] = Key[n]
      BY <1>1, <1>3, <3>1, <3>2
    <3>3. CASE Key[a] # Key[n]
      <4>1. PICK m \in Steps : Key[m] = Key[a] /\ mem.steps[Key[a]] = outcome[m]
        BY <1>1, <3>3 DEF StagesAgree, RecordsCurrent, TypeOK
      <4> QED BY <1>1, <1>3, <3>1, <3>3, <4>1
    <3> QED BY <3>2, <3>3
  <2>2. Conclusive(mem)' /\ Conclusive(disk)'
    BY <1>1, <1>3 DEF StagesAgree, Conclusive
  <2> QED BY <1>1, <1>3, <2>1, <2>2 DEF StagesAgree
<1> QED BY <1>4, <1>5, <1>6, <1>7

(* The verdict fits the records it is written to.                          *)
LEMMA VerdictFits ==
  ASSUME IInv, stage = "running", \A n \in Steps : pc[n] = "done",
         NEW run, run.steps = mem.steps, run.status = Verdict
  PROVE  Conclusive(run)
<1>1. \A n \in Steps : \E m \in Steps :
        Key[m] = Key[n] /\ mem.steps[Key[n]] = outcome[m] /\ outcome[m] \in Settled
  BY DEF IInv, StagesAgree, RecordsCurrent, OutcomesKnown
<1>2. \A n \in Nodes : n \in Steps
  BY DEF Steps
<1>3. ASSUME run.status = "success", NEW n \in Nodes, mem.steps[Key[n]] = "failed"
      PROVE  SharesKey(n, Teardown)
  <2>1. PICK m \in Steps : Key[m] = Key[n] /\ outcome[m] = "failed"
    BY <1>1, <1>2, <1>3
  <2>2. m \notin Nodes
    BY <1>3, <2>1 DEF Verdict
  <2> QED BY <1>3, <2>1, <2>2 DEF SharesKey, Steps
<1>4. ASSUME run.status = "failed"
      PROVE  \E n \in Nodes : mem.steps[Key[n]] = "failed" \/ SharesKey(n, Steps)
  <2>1. PICK n \in Nodes : outcome[n] = "failed"
    BY <1>4 DEF Verdict
  <2>2. PICK m \in Steps : Key[m] = Key[n] /\ mem.steps[Key[n]] = outcome[m]
    BY <1>1, <1>2
  <2> QED BY <2>1, <2>2 DEF SharesKey
<1> QED BY <1>1, <1>3, <1>4 DEF Conclusive

LEMMA RunFinishedKeeps == ASSUME IInv, RunFinished PROVE IInv'
<1> USE DEF IInv
<1>1. /\ stage = "running" /\ \A n \in Steps : pc[n] = "done"
      /\ Handle([mem EXCEPT !.status = Verdict])
      /\ stage' = "finished"
      /\ UNCHANGED <<life, cache, pc, outcome, halt, succeeded>>
  BY DEF RunFinished, Finished
<1>2. Verdict \in {"running", "success", "failed"}
  BY DEF Verdict
<1>3. /\ mem' \in RunRecord /\ disk' \in RunRecord
      /\ mem'.status = Verdict /\ mem'.steps = mem.steps
      /\ disk' = mem' \/ disk' = disk
  BY <1>1, <1>2, RunEventEffect
<1>4. TypeOK'
  BY <1>1, <1>3 DEF TypeOK
<1>5. OutcomesKnown'
  BY <1>1 DEF OutcomesKnown
<1>6. SuccessesHappened'
  BY <1>1, <1>3 DEF SuccessesHappened, Truthful, Succeeded
<1>7. StagesAgree'
  <2>1. Conclusive(mem')
    BY <1>1, <1>3, VerdictFits
  <2> QED BY <1>1, <1>3, <2>1 DEF StagesAgree, Conclusive
<1> QED BY <1>4, <1>5, <1>6, <1>7

LEMMA ResumeKeeps == ASSUME IInv, Resume PROVE IInv'
<1> USE DEF IInv
<1>1. /\ life < MaxLives /\ life' = life + 1 /\ stage' = "boot" /\ mem' = disk
      /\ cache' = {k \in Keys : disk.steps[k] = "success"}
      /\ pc' = [n \in Steps |-> "waiting"] /\ outcome' = [n \in Steps |-> "none"]
      /\ halt' = FALSE /\ disk' = disk /\ succeeded' = succeeded
  BY DEF Resume, CacheOf
<1>2. TypeOK'
  <2>1. life' \in 1..MaxLives
    BY <1>1, LivesAssumption DEF TypeOK
  <2> QED BY <1>1, <2>1 DEF TypeOK
<1>3. OutcomesKnown'
  BY <1>1 DEF OutcomesKnown
<1>4. SuccessesHappened'
  BY <1>1 DEF SuccessesHappened, Truthful, Succeeded
<1>5. StagesAgree'
  BY <1>1 DEF StagesAgree, Conclusive
<1> QED BY <1>2, <1>3, <1>4, <1>5

LEMMA HaltKeeps == ASSUME IInv, Halt PROVE IInv'
<1> USE DEF IInv
<1>1. halt' = TRUE /\ UNCHANGED <<life, stage, mem, disk, cache, pc, outcome, succeeded>>
  BY DEF Halt, writer
<1> QED BY <1>1 DEF TypeOK, OutcomesKnown, SuccessesHappened, Truthful, Succeeded,
                    StagesAgree, RecordsCurrent, Conclusive

LEMMA CrashKeeps == ASSUME IInv, Crash PROVE IInv'
<1> USE DEF IInv
<1>1. /\ stage' = "dead"
      /\ UNCHANGED <<life, mem, disk, cache, pc, outcome, halt, succeeded>>
  BY DEF Crash, writer
<1> QED BY <1>1 DEF TypeOK, OutcomesKnown, SuccessesHappened, Truthful, Succeeded,
                    StagesAgree, RecordsCurrent, Conclusive

LEMMA StutterKeeps == ASSUME IInv, UNCHANGED vars PROVE IInv'
<1>1. UNCHANGED <<life, stage, mem, disk, cache, pc, outcome, halt, succeeded>>
  BY DEF vars, writer
<1> QED BY <1>1 DEF IInv, TypeOK, OutcomesKnown, SuccessesHappened, Truthful, Succeeded,
                    StagesAgree, RecordsCurrent, Conclusive

LEMMA StepsKeep == ASSUME IInv, [Next]_vars PROVE IInv'
<1>1. CASE RunStarted
  BY <1>1, RunStartedKeeps
<1>2. CASE Halt
  BY <1>2, HaltKeeps
<1>3. CASE RunFinished
  BY <1>3, RunFinishedKeeps
<1>4. ASSUME NEW n \in Steps, Start(n) PROVE IInv'
  BY <1>4, BeginKeeps DEF Start
<1>5. ASSUME NEW n \in Steps, Execute(n) PROVE IInv'
  BY <1>5, ExecuteKeeps
<1>6. ASSUME NEW n \in Steps, Finish(n) PROVE IInv'
  BY <1>6, FinishKeeps
<1>7. ASSUME NEW n \in Steps, Skip(n) PROVE IInv'
  BY <1>7, SkipKeeps
<1>8. ASSUME NEW i \in DOMAIN Cleanup, StartCleanup(i) PROVE IInv'
  <2>1. Cleanup[i] \in Steps
    BY DEF Steps, Teardown, Range
  <2> QED BY <1>8, <2>1, BeginKeeps DEF StartCleanup
<1>9. CASE Crash
  BY <1>9, CrashKeeps
<1>10. CASE Resume
  BY <1>10, ResumeKeeps
<1>11. CASE UNCHANGED vars
  BY <1>11, StutterKeeps
<1> QED BY <1>1, <1>2, <1>3, <1>4, <1>5, <1>6, <1>7, <1>8, <1>9, <1>10, <1>11
        DEF Next, Process

-----------------------------------------------------------------------------
(* The invariant of a run over all its lives: what the record, the file    *)
(* and the resume cache hold has happened, and verdicts fit records.       *)
THEOREM Invariance == Spec => []IInv
<1>1. Init => IInv
  BY InitEstablishes
<1>2. IInv /\ [Next]_vars => IInv'
  BY StepsKeep
<1> QED BY <1>1, <1>2, PTL DEF Spec

(* Types, over crashes and resumes (state.go:60-132, engine.go:115-126).   *)
THEOREM TypeCorrect == Spec => []TypeOK
<1>1. IInv => TypeOK
  BY DEF IInv
<1> QED BY <1>1, Invariance, PTL

(* Whatever crashes and failed flushes lie between, a success in           *)
(* state.json is the success of an action (state.go:77-132,                *)
(* resume.go:15-45, engine.go:115-126, 330-345).                           *)
THEOREM RecordsAreTrue == Spec => []RecordedIsTrue
<1>1. IInv => RecordedIsTrue
  BY DEF IInv, SuccessesHappened, RecordedIsTrue
<1> QED BY <1>1, Invariance, PTL

(* A verdict in state.json stands on records that are settled and bear it  *)
(* out (state.go:112-125, engine.go:235-258).                              *)
THEOREM VerdictsAreFinal == Spec => []VerdictIsFinal
<1>1. IInv => VerdictIsFinal
  BY DEF IInv, StagesAgree, VerdictIsFinal
<1> QED BY <1>1, Invariance, PTL
=============================================================================
