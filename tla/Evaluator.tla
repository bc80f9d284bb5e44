------------------------------ MODULE Evaluator ------------------------------
(***************************************************************************)
(* internal/expr/evaluator.go as the parallel steps of a run use it: one   *)
(* Evaluator per run, a map of compiled programs without a lock, and the   *)
(* status functions, bound at every call to what the caller's scope has    *)
(* come to (the if: of runStep, internal/engine/engine.go).                *)
(***************************************************************************)
EXTENDS Naturals

CONSTANTS
  Steps,       \* the steps that run side by side
  Condition,   \* the if: of each step: "success()", "failure()", "always()"
  ScopeOf,     \* the include scope of each step
  TopLevel     \* the scope of the steps outside of any include

VARIABLES
  alive,       \* FALSE: the Go runtime has ended the process
  cache,       \* Evaluator.cache: the sources in it, with the status they were compiled under
  call,        \* of each step: "idle", "reading", "missed", "writing", "run", "done"
  status,      \* rc.ScopeStatus, "" before anything is recorded
  snapshot,    \* Env.ScopeStatus of each call
  answer,      \* what each call evaluates to
  during       \* history: the statuses of its scope while a call was under way
evaluator == <<alive, cache, call, snapshot, answer>>
evVars == <<evaluator, status, during>>

Scopes == {ScopeOf[s] : s \in Steps} \ {TopLevel}
Sources == {Condition[s] : s \in Steps}
Statuses == {"", "success", "skipped", "failed"}

EvInit ==
  /\ alive = TRUE
  /\ cache = [c \in {} |-> ""]
  /\ call = [s \in Steps |-> "idle"]
  /\ status = [p \in Scopes |-> ""]
  /\ snapshot = [s \in Steps |-> ""]
  /\ answer = [s \in Steps |-> FALSE]
  /\ during = [s \in Steps |-> {}]

(* scopeStatusFor: nothing recorded means that nothing has failed; a step  *)
(* outside of any include sees the status of the run, empty until the end. *)
ScopeStatusFor(s) ==
  IF ScopeOf[s] = TopLevel THEN ""
  ELSE IF status[ScopeOf[s]] = "" THEN "success" ELSE status[ScopeOf[s]]

(* What the status functions bound to a status answer.                     *)
Answer(source, st) ==
  CASE source = "success()" -> st \in {"", "success"}
    [] source = "failure()" -> st = "failed"
    [] source = "always()" -> TRUE

Goto(s, place) == call' = [call EXCEPT ![s] = place]

(* runStep builds the environment and calls EvaluateBool; compile looks    *)
(* into the map.                                                           *)
Look(s) ==
  /\ alive /\ call[s] = "idle"
  /\ Goto(s, "reading")
  /\ snapshot' = [snapshot EXCEPT ![s] = ScopeStatusFor(s)]
  /\ during' = [during EXCEPT ![s] = {ScopeStatusFor(s)}]
  /\ UNCHANGED <<alive, cache, answer, status>>

Found(s) ==
  /\ alive /\ call[s] = "reading"
  /\ Goto(s, IF Condition[s] \in DOMAIN cache THEN "run" ELSE "missed")
  /\ UNCHANGED <<alive, cache, snapshot, answer, status, during>>

(* The compiled program goes into the map.                                 *)
Compile(s) ==
  /\ alive /\ call[s] = "missed"
  /\ Goto(s, "writing")
  /\ UNCHANGED <<alive, cache, snapshot, answer, status, during>>

Store(s) ==
  /\ alive /\ call[s] = "writing"
  /\ cache' = [c \in DOMAIN cache \cup {Condition[s]} |->
                 IF c = Condition[s] THEN snapshot[s] ELSE cache[c]]
  /\ Goto(s, "run")
  /\ UNCHANGED <<alive, snapshot, answer, status, during>>

(* Mutant: the status functions of the program are those it was compiled   *)
(* with.                                                                   *)
Bound_AtCompile(s) == cache[Condition[s]]

(* envMap binds the status functions anew for every call.                  *)
Bound(s) == snapshot[s]

Run(s) ==
  /\ alive /\ call[s] = "run"
  /\ answer' = [answer EXCEPT ![s] = Answer(Condition[s], Bound(s))]
  /\ Goto(s, "done")
  /\ snapshot' = [snapshot EXCEPT ![s] = ""]
  /\ during' = [during EXCEPT ![s] = {}]
  /\ UNCHANGED <<alive, cache, status>>

Evaluate(s) == Look(s) \/ Found(s) \/ Compile(s) \/ Store(s) \/ Run(s)

(* A map that is written while it is read or written: the Go runtime may   *)
(* notice and end the process.                                             *)
Racing(r, s) == r # s /\ call[r] = "writing" /\ call[s] \in {"reading", "writing"}

Fatal ==
  /\ alive
  /\ \E r, s \in Steps : Racing(r, s)
  /\ alive' = FALSE
  /\ UNCHANGED <<cache, call, snapshot, answer, status, during>>

(* Another step of the scope settles (recordScopeStatus): failed is worst, *)
(* a success and a skip do not replace one another.                        *)
Record(p, st) ==
  /\ alive
  /\ status[p] = "" \/ (st = "failed" /\ status[p] # "failed")
  /\ status' = [status EXCEPT ![p] = st]
  /\ during' = [s \in Steps |-> IF ScopeOf[s] = p /\ call[s] \notin {"idle", "done"}
                                THEN during[s] \cup {st} ELSE during[s]]
  /\ UNCHANGED evaluator

Elsewhere == \E p \in Scopes, st \in Statuses \ {""} : Record(p, st)

-----------------------------------------------------------------------------
(* Properties.                                                             *)

(* The if: of a step is answered from what its own scope had come to while *)
(* it was evaluated, whoever compiled the program and when                 *)
(* (evaluator.go:291-311).                                                 *)
AnswersThisCall ==
  [][\A s \in Steps : call[s] # "done" /\ call'[s] = "done" =>
       \E st \in during[s] : answer'[s] = Answer(Condition[s], st)]_evVars

(* evaluator.go:99: "Evaluator is safe for concurrent use once             *)
(* constructed."                                                           *)
SafeForConcurrentUse == \A r, s \in Steps : ~Racing(r, s)
=============================================================================
