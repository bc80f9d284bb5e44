---------------------------- MODULE DagScheduler ----------------------------
(***************************************************************************)
(* internal/engine/scheduler.go: one main loop that dispatches ready steps *)
(* to goroutines bounded by the semaphore `sem`, harvests their            *)
(* completions from the channel `done`, unlocks dependents, and after the  *)
(* first fatal status skips what is left, teardown steps excepted.         *)
(*                                                                         *)
(* Steps are 1..N, their index in Graph.Order.  The main loop's position   *)
(* is read off its work lists: the cascadeSkip stack is emptied first,     *)
(* then the teardown steps the walk handed back are dispatched, then the   *)
(* rest of the newly ready batch, and only then is `done` received from.   *)
(***************************************************************************)
EXTENDS Integers, Sequences, FiniteSets

CONSTANTS
  N,          \* number of steps in the graph
  Graphs,     \* the plans a run may be given, see GraphsAssumption
  Parallel,   \* the --parallel setting as passed to schedule
  Outcomes    \* the statuses exec may return for a dispatched step

Nodes == 1..N
Fatal == {"failed", "timed-out"}
Mild == {"success", "failed-continued", "skipped"}

(* scheduler.go:28-30 *)
Workers == IF Parallel < 1 THEN 1 ELSE Parallel

SetOf(s) == {s[i] : i \in 1..Len(s)}

(* scheduler.go:53-68, the reverse adjacency list of a plan: each list     *)
(* holds the steps that need k, in graph order.                            *)
IsDependents(g) ==
  \A k \in Nodes :
    /\ SetOf(g.dependents[k]) = {d \in Nodes : k \in g.needs[d]}
    /\ \A i, j \in 1..Len(g.dependents[k]) :
         i < j => g.dependents[k][i] < g.dependents[k][j]

(* schema.Validate rejects cycles among the needs a workflow declares      *)
(* (validate.go:206-253); the compiler adds implicit ones after that, so a *)
(* plan may be cyclic.                                                     *)
Acyclic(g) ==
  \A S \in SUBSET Nodes :
    S # {} => \E k \in S : g.needs[k] \cap S = {}

(* compile.go:206-214 gives a `finally:` step exactly one need: the last   *)
(* child of its fragment, or the teardown step before it.                  *)
TeardownSingleNeed(g) ==
  \A k \in g.always : \A a, b \in g.needs[k] : a = b

Plan == [needs : [Nodes -> SUBSET Nodes],
         dependents : [Nodes -> Seq(Nodes)],
         always : SUBSET Nodes]

ASSUME NAssumption == N \in Nat
ASSUME ParallelAssumption == Parallel \in Int
ASSUME OutcomesAssumption == Outcomes \subseteq Fatal \cup Mild
ASSUME GraphsAssumption ==
  \A g \in Graphs :
    g \in Plan /\ IsDependents(g) /\ TeardownSingleNeed(g)

-----------------------------------------------------------------------------
VARIABLES
  graph,        \* the plan being run
  indeg,        \* number of unresolved needs of each step
  statuses,     \* recorded status, "pending" for a step not in the map
  phase,        \* the goroutine of a step: "idle", "running" exec,
                \* "sent" its key to done, "gone" after releasing sem
  done,         \* the completion channel
  halt,         \* a fatal status was harvested
  inflight,     \* dispatched steps not yet harvested
  dispatched,   \* steps handed to a goroutine
  ready,        \* newlyReady, what the main loop has not come to yet
  stack,        \* the walk of cascadeSkip
  revived,      \* teardown steps the walk hands back
  verdict       \* what schedule returned, "running" before it does

mainVars == <<halt, inflight, dispatched, ready, stack, revived>>
vars == <<graph, indeg, statuses, phase, done, mainVars, verdict>>

InDegree(g) == [k \in Nodes |-> Cardinality(g.needs[k])]
Holders == {k \in Nodes : phase[k] \in {"running", "sent"}}
IsFirst(k, S) == k \in S /\ \A j \in S : k <= j

Init ==
  /\ graph \in Graphs
  /\ indeg = InDegree(graph)
  /\ statuses = [k \in Nodes |-> "pending"]
  /\ phase = [k \in Nodes |-> "idle"]
  /\ done = <<>>
  /\ halt = FALSE
  /\ inflight = 0
  /\ dispatched = 0
  /\ ready = {k \in Nodes : indeg[k] = 0}
  /\ stack = <<>>
  /\ revived = {}
  /\ verdict = "running"

-----------------------------------------------------------------------------
(* The goroutine of step k.                                                *)

(* exec returns: the status is recorded and the key sent.  `done` has room *)
(* for N keys, so the send never blocks; the slot is still held.           *)
ExecReturns(k) ==
  /\ phase[k] = "running"
  /\ \E s \in Outcomes : statuses' = [statuses EXCEPT ![k] = s]
  /\ phase' = [phase EXCEPT ![k] = "sent"]
  /\ done' = Append(done, k)
  /\ UNCHANGED <<graph, indeg, mainVars, verdict>>

(* The deferred release of the slot.                                       *)
Release(k) ==
  /\ phase[k] = "sent"
  /\ phase' = [phase EXCEPT ![k] = "gone"]
  /\ UNCHANGED <<graph, indeg, statuses, done, mainVars, verdict>>

-----------------------------------------------------------------------------
(* The main loop.                                                          *)

(* Mutant: the semaphore has one slot too many.                            *)
Dispatch_OneSlotMore(k) ==
  /\ Cardinality(Holders) <= Workers
  /\ phase' = [phase EXCEPT ![k] = "running"]
  /\ inflight' = inflight + 1
  /\ dispatched' = dispatched + 1
  /\ UNCHANGED <<graph, indeg, statuses, done, halt, stack, verdict>>

(* dispatch: blocks on sem while every slot is taken.  The counters it     *)
(* bumps before blocking are read by the main loop alone.                  *)
Dispatch(k) ==
  /\ Cardinality(Holders) < Workers
  /\ phase' = [phase EXCEPT ![k] = "running"]
  /\ inflight' = inflight + 1
  /\ dispatched' = dispatched + 1
  /\ UNCHANGED <<graph, indeg, statuses, done, halt, stack, verdict>>

DispatchRevived(k) ==
  /\ stack = <<>>
  /\ IsFirst(k, revived)
  /\ Dispatch(k)
  /\ revived' = revived \ {k}
  /\ UNCHANGED ready

NextOfBatch(k) == stack = <<>> /\ revived = {} /\ IsFirst(k, ready)

(* Mutant: the batch is dispatched without a look at halt.                 *)
DispatchReady_HaltUnread(k) ==
  /\ NextOfBatch(k)
  /\ Dispatch(k)
  /\ ready' = ready \ {k}
  /\ UNCHANGED revived

(* The next step of the batch runs: nothing fatal was harvested, or it is  *)
(* a teardown step.                                                        *)
DispatchReady(k) ==
  /\ NextOfBatch(k)
  /\ ~halt \/ k \in graph.always
  /\ Dispatch(k)
  /\ ready' = ready \ {k}
  /\ UNCHANGED revived

(* The next step of the batch is ordinary and the run is halted:           *)
(* cascadeSkip starts its walk there.                                      *)
CascadeFrom(k) ==
  /\ NextOfBatch(k)
  /\ halt /\ k \notin graph.always
  /\ stack' = <<k>>
  /\ ready' = ready \ {k}
  /\ UNCHANGED <<graph, indeg, statuses, phase, done, halt, inflight,
                 dispatched, revived, verdict>>

Top == stack[Len(stack)]
Popped == SubSeq(stack, 1, Len(stack) - 1)

(* Mutant: every step is unlocked, whatever it needs.                      *)
Unlock_Everyone(k) == [d \in Nodes |-> indeg[d] - 1]

(* Every need edge out of k is gone.                                       *)
Unlock(k) ==
  [d \in Nodes |-> IF k \in graph.needs[d] THEN indeg[d] - 1 ELSE indeg[d]]

(* Mutant: the walk drops the teardown steps it meets.                     *)
CascadeTeardown_Dropped ==
  /\ stack # <<>>
  /\ Top \in graph.always
  /\ stack' = Popped
  /\ UNCHANGED <<graph, indeg, statuses, phase, done, halt, inflight,
                 dispatched, ready, revived, verdict>>

(* The walk meets a teardown step: hand it back once nothing blocks it.    *)
CascadeTeardown ==
  /\ stack # <<>>
  /\ Top \in graph.always
  /\ revived' = IF indeg[Top] <= 0 THEN revived \cup {Top} ELSE revived
  /\ stack' = Popped
  /\ UNCHANGED <<graph, indeg, statuses, phase, done, halt, inflight,
                 dispatched, ready, verdict>>

(* The walk meets a step already settled.                                  *)
CascadeSeen ==
  /\ stack # <<>>
  /\ Top \notin graph.always
  /\ statuses[Top] # "pending"
  /\ stack' = Popped
  /\ UNCHANGED <<graph, indeg, statuses, phase, done, halt, inflight,
                 dispatched, ready, revived, verdict>>

(* The walk skips an ordinary step and goes on to all its dependents.      *)
CascadeSkip ==
  /\ stack # <<>>
  /\ Top \notin graph.always
  /\ statuses[Top] = "pending"
  /\ statuses' = [statuses EXCEPT ![Top] = "skipped"]
  /\ indeg' = Unlock(Top)
  /\ stack' = Popped \o graph.dependents[Top]
  /\ UNCHANGED <<graph, phase, done, halt, inflight, dispatched, ready,
                 revived, verdict>>

BatchDone == stack = <<>> /\ revived = {} /\ ready = {}

(* Mutant: the harvested step stays counted as in flight.                  *)
Harvest_StillCounted ==
  /\ verdict = "running" /\ BatchDone /\ inflight > 0 /\ done # <<>>
  /\ halt' = (halt \/ statuses[Head(done)] \in Fatal)
  /\ indeg' = Unlock(Head(done))
  /\ ready' = {d \in Nodes : Head(done) \in graph.needs[d] /\ indeg[d] = 1}
  /\ done' = Tail(done)
  /\ UNCHANGED <<graph, statuses, phase, inflight, dispatched, stack, revived,
                 verdict>>

(* Receive one completion and collect the steps it unlocks.                *)
Harvest ==
  /\ verdict = "running"
  /\ BatchDone
  /\ inflight > 0
  /\ done # <<>>
  /\ LET k == Head(done) IN
       /\ halt' = (halt \/ statuses[k] \in Fatal)
       /\ indeg' = Unlock(k)
       /\ ready' = {d \in Nodes : k \in graph.needs[d] /\ indeg[d] = 1}
  /\ done' = Tail(done)
  /\ inflight' = inflight - 1
  /\ UNCHANGED <<graph, statuses, phase, dispatched, stack, revived,
                 verdict>>

(* Nothing in flight: fold the statuses into the status of the run.        *)
Conclude ==
  /\ verdict = "running"
  /\ BatchDone
  /\ inflight = 0
  /\ verdict' = IF \E k \in Nodes : statuses[k] \in Fatal THEN "failed"
                ELSE IF dispatched < N THEN "skipped" ELSE "success"
  /\ UNCHANGED <<graph, indeg, statuses, phase, done, mainVars>>

Main ==
  \/ \E k \in Nodes : DispatchRevived(k) \/ DispatchReady(k) \/ CascadeFrom(k)
  \/ CascadeTeardown \/ CascadeSeen \/ CascadeSkip
  \/ Harvest \/ Conclude

Next ==
  \/ Main
  \/ \E k \in Nodes : ExecReturns(k) \/ Release(k)

(* The Go runtime schedules the main loop and every goroutine, and every   *)
(* exec returns: an action that never ends keeps its run open.             *)
Fairness ==
  /\ WF_vars(Main)
  /\ \A k \in Nodes : WF_vars(ExecReturns(k) \/ Release(k))

Spec == Init /\ [][Next]_vars /\ Fairness

-----------------------------------------------------------------------------
(* Properties.                                                             *)

(* A step is resolved once its dependents have been told: it was harvested *)
(* or skipped by the walk.                                                 *)
Resolved == {k \in Nodes : statuses[k] # "pending" /\ k \notin SetOf(done)}

TypeOK ==
  /\ graph \in Plan
  /\ indeg \in [Nodes -> Nat]
  /\ statuses \in [Nodes -> {"pending"} \cup Fatal \cup Mild]
  /\ phase \in [Nodes -> {"idle", "running", "sent", "gone"}]
  /\ done \in Seq(Nodes)
  /\ halt \in BOOLEAN
  /\ inflight \in Nat /\ dispatched \in Nat
  /\ ready \subseteq Nodes /\ revived \subseteq Nodes
  /\ stack \in Seq(Nodes)
  /\ verdict \in {"running", "success", "failed", "skipped"}

(* When schedule returns and no steps need each other in a circle, nothing *)
(* was forgotten: every step has a status, every teardown step was         *)
(* executed, and "skipped" is never the verdict (scheduler.go:148-167).    *)
NothingLost ==
  verdict # "running" /\ Acyclic(graph) =>
    /\ \A k \in Nodes : statuses[k] # "pending"
    /\ \A k \in graph.always : phase[k] # "idle"
    /\ verdict # "skipped"

(* A run is always concluded.                                              *)
Terminates == <>(verdict # "running")

(* The promise of DagRun.                                                  *)
AbstractState(k) ==
  IF statuses[k] # "pending" THEN statuses[k]
  ELSE IF phase[k] = "running" THEN "running" ELSE "waiting"

Promise == INSTANCE DagRun WITH
  state <- [k \in Nodes |-> AbstractState(k)], halted <- halt

ImplementsDagRun == Promise!Spec

-----------------------------------------------------------------------------
(* The inductive invariant, in the parts the code relies on without saying *)
(* so: the counters are exact, a key is sent once, nothing on a work list  *)
(* was started before, and no step that could run is on no list.           *)

Started == {k \in Nodes : phase[k] # "idle"}

(* The counters agree with the sets they count; the semaphore bounds the   *)
(* goroutines that hold a slot (scheduler.go:51-68, 91-104, 111-127).      *)
CountersExact ==
  /\ \A k \in Nodes : indeg[k] = Cardinality(graph.needs[k] \ Resolved)
  /\ inflight = Cardinality(Started \ Resolved)
  /\ dispatched = Cardinality(Started)
  /\ Cardinality(Holders) <= Workers

(* A started step has a status exactly when its goroutine has sent its     *)
(* key, which is received at most once; a status without a goroutine is    *)
(* the Skipped the walk recorded, never on a teardown step.                *)
StatusesSound ==
  /\ \A k \in Started : statuses[k] = "pending" <=> phase[k] = "running"
  /\ \A i \in 1..Len(done) : phase[done[i]] \in {"sent", "gone"}
  /\ \A i, j \in 1..Len(done) : done[i] = done[j] => i = j
  /\ \A k \in Nodes \ Started :
       statuses[k] # "pending" =>
         statuses[k] = "skipped" /\ k \notin graph.always /\ halt

(* halt is set exactly when a resolved step is fatal.                      *)
HaltSound == halt <=> \E k \in Resolved : statuses[k] \in Fatal

(* What is on a work list was never started and is on one list only, a     *)
(* teardown step once; what is started or about to be has all its needs    *)
(* resolved, and an ordinary started step has no fatal need.               *)
ListsSound ==
  /\ ready \cap (Started \cup revived \cup SetOf(stack)) = {}
  /\ revived \cap (Started \cup SetOf(stack)) = {}
  /\ SetOf(stack) \cap Started = {}
  /\ revived \subseteq graph.always
  /\ stack # <<>> => halt
  /\ \A i, j \in 1..Len(stack) :
       stack[i] = stack[j] /\ stack[i] \in graph.always => i = j
  /\ \A k \in Started \cup ready \cup revived \cup (SetOf(stack) \cap graph.always) :
       graph.needs[k] \subseteq Resolved
  /\ \A k \in Started \ graph.always :
       \A d \in graph.needs[k] : statuses[d] \in Mild

(* What the walk comes to had its turn, or needs a skipped step.           *)
WalkSound ==
  \A k \in SetOf(stack) :
    \/ graph.needs[k] \subseteq Resolved
    \/ \E d \in graph.needs[k] : statuses[d] = "skipped"

(* A step nothing blocks any more is started, settled, or on a list; after *)
(* the verdict the lists are empty and no step runs.                       *)
NoneForgotten ==
  /\ \A k \in Nodes \ Started :
       statuses[k] = "pending" /\ graph.needs[k] \subseteq Resolved
         => k \in ready \cup revived \cup SetOf(stack)
  /\ verdict # "running" => BatchDone /\ inflight = 0

IInv ==
  /\ CountersExact
  /\ StatusesSound
  /\ HaltSound
  /\ ListsSound
  /\ WalkSound
  /\ NoneForgotten
=============================================================================
