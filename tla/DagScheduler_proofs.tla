------------------------ MODULE DagScheduler_proofs -------------------------
(***************************************************************************)
(* Proofs about DagScheduler, for every number of steps, every admissible  *)
(* set of plans, every --parallel and every set of outcomes.               *)
(***************************************************************************)
EXTENDS DagScheduler, FiniteSetTheorems, TLAPS

Inv == TypeOK /\ graph \in Graphs /\ IInv

-----------------------------------------------------------------------------
(* Facts about the sets the model is built from.                           *)

LEMMA NodesFinite ==
  /\ IsFiniteSet(Nodes) /\ Cardinality(Nodes) = N
  /\ \A S \in SUBSET Nodes : IsFiniteSet(S) /\ Cardinality(S) \in Nat
<1>1. IsFiniteSet(Nodes) /\ Cardinality(Nodes) = N
  BY FS_Interval, NAssumption DEF Nodes
<1> QED BY <1>1, FS_Subset, FS_CardinalityType

(* Taking one element out of, or adding one to, a set of steps.            *)
LEMMA CountSteps ==
  ASSUME NEW S \in SUBSET Nodes, NEW k \in Nodes
  PROVE  /\ k \in S => Cardinality(S \ {k}) = Cardinality(S) - 1
         /\ k \notin S => Cardinality(S \ {k}) = Cardinality(S)
         /\ k \notin S => Cardinality(S \cup {k}) = Cardinality(S) + 1
         /\ Cardinality(S) = 0 <=> S = {}
         /\ Cardinality(S) \in Nat
BY NodesFinite, FS_RemoveElement, FS_AddElement, FS_EmptySet

LEMMA SetOfAppend ==
  ASSUME NEW s \in Seq(Nodes), NEW k \in Nodes
  PROVE  SetOf(Append(s, k)) = SetOf(s) \cup {k}
BY DEF SetOf

LEMMA AppendOnce ==
  ASSUME NEW s \in Seq(Nodes), NEW k \in Nodes, k \notin SetOf(s),
         \A i, j \in 1..Len(s) : s[i] = s[j] => i = j
  PROVE  \A i, j \in 1..Len(Append(s, k)) :
           Append(s, k)[i] = Append(s, k)[j] => i = j
<1>1. \A i \in 1..Len(s) : s[i] # k
  BY DEF SetOf
<1>2. /\ Len(Append(s, k)) = Len(s) + 1 /\ Append(s, k)[Len(s) + 1] = k
      /\ \A i \in 1..Len(s) : Append(s, k)[i] = s[i]
  OBVIOUS
<1>3. Len(s) \in Nat
  OBVIOUS
<1> QED BY <1>1, <1>2, <1>3

LEMMA SetOfTail ==
  ASSUME NEW s \in Seq(Nodes), s # <<>>,
         \A i, j \in 1..Len(s) : s[i] = s[j] => i = j
  PROVE  /\ Tail(s) \in Seq(Nodes) /\ Head(s) \in SetOf(s)
         /\ SetOf(Tail(s)) = SetOf(s) \ {Head(s)}
         /\ \A i \in 1..Len(Tail(s)) : Tail(s)[i] = s[i+1] /\ i + 1 \in 1..Len(s)
BY DEF SetOf

LEMMA PrefixOf ==
  ASSUME NEW s \in Seq(Nodes), NEW n \in Nat, n <= Len(s)
  PROVE  /\ SubSeq(s, 1, n) \in Seq(Nodes)
         /\ Len(SubSeq(s, 1, n)) = n
         /\ \A i \in 1..n : SubSeq(s, 1, n)[i] = s[i]
OBVIOUS

LEMMA SetOfPopped ==
  ASSUME NEW s \in Seq(Nodes), s # <<>>, NEW p, p = SubSeq(s, 1, Len(s) - 1)
  PROVE  /\ p \in Seq(Nodes) /\ Len(p) = Len(s) - 1
         /\ s[Len(s)] \in SetOf(s)
         /\ \A i \in 1..Len(p) : p[i] = s[i]
         /\ SetOf(s) = SetOf(p) \cup {s[Len(s)]}
<1>1. Len(s) - 1 \in Nat /\ Len(s) \in Nat /\ Len(s) - 1 <= Len(s)
  OBVIOUS
<1>2. /\ p \in Seq(Nodes) /\ Len(p) = Len(s) - 1
      /\ \A i \in 1..Len(p) : p[i] = s[i]
  BY <1>1, PrefixOf
<1>3. s[Len(s)] \in SetOf(s)
  BY <1>1 DEF SetOf
<1>4. SetOf(s) = SetOf(p) \cup {s[Len(s)]}
  BY <1>1, <1>2, <1>3 DEF SetOf
<1> QED BY <1>2, <1>3, <1>4

LEMMA SetOfConcat ==
  ASSUME NEW s \in Seq(Nodes), NEW t \in Seq(Nodes)
  PROVE  SetOf(s \o t) = SetOf(s) \cup SetOf(t)
<1>1. /\ Len(s \o t) = Len(s) + Len(t)
      /\ \A i \in 1..Len(s) : (s \o t)[i] = s[i]
      /\ \A i \in 1..Len(t) : (s \o t)[Len(s) + i] = t[i]
  OBVIOUS
<1>2. ASSUME NEW x \in SetOf(s) \cup SetOf(t) PROVE x \in SetOf(s \o t)
  <2>1. CASE x \in SetOf(s)
    BY <1>1, <2>1 DEF SetOf
  <2>2. CASE x \in SetOf(t)
    <3>1. PICK i \in 1..Len(t) : x = t[i]
      BY <2>2 DEF SetOf
    <3>2. Len(s) + i \in 1..Len(s \o t) /\ (s \o t)[Len(s) + i] = x
      BY <1>1, <3>1
    <3> QED BY <3>2 DEF SetOf
  <2> QED BY <1>2, <2>1, <2>2
<1>3. ASSUME NEW x \in SetOf(s \o t) PROVE x \in SetOf(s) \cup SetOf(t)
  BY <1>3 DEF SetOf
<1> QED BY <1>2, <1>3
-----------------------------------------------------------------------------
(* What the assumption on plans gives for the plan being run.              *)
LEMMA PlanFacts ==
  ASSUME graph \in Graphs
  PROVE  /\ graph.needs \in [Nodes -> SUBSET Nodes]
         /\ graph.dependents \in [Nodes -> Seq(Nodes)]
         /\ graph.always \subseteq Nodes
         /\ \A k \in Nodes :
              SetOf(graph.dependents[k]) = {d \in Nodes : k \in graph.needs[d]}
         /\ \A k \in Nodes : \A i, j \in 1..Len(graph.dependents[k]) :
              graph.dependents[k][i] = graph.dependents[k][j] => i = j
         /\ \A k \in graph.always : \A a, b \in graph.needs[k] : a = b
         /\ graph \in Plan
<1>1. graph \in Plan /\ IsDependents(graph) /\ TeardownSingleNeed(graph)
  BY GraphsAssumption
<1>2. ASSUME NEW k \in Nodes, NEW i \in 1..Len(graph.dependents[k]),
             NEW j \in 1..Len(graph.dependents[k]),
             graph.dependents[k][i] = graph.dependents[k][j]
      PROVE  i = j
  <2>1. graph.dependents[k] \in Seq(Nodes)
    BY <1>1 DEF Plan
  <2>2. graph.dependents[k][i] \in Nodes /\ i \in Int /\ j \in Int
    BY <2>1
  <2>3. ~(graph.dependents[k][i] < graph.dependents[k][i])
    BY <2>2 DEF Nodes
  <2>4. ~(i < j) /\ ~(j < i)
    BY <1>1, <1>2, <2>3 DEF IsDependents
  <2> QED BY <2>2, <2>4
<1> QED BY <1>1, <1>2 DEF Plan, IsDependents, TeardownSingleNeed

(* The set of resolved steps grows by k: every counter that Unlock(k)      *)
(* lowers still counts the unresolved needs.                               *)
LEMMA UnlockExact ==
  ASSUME NEW R \in SUBSET Nodes, NEW k \in Nodes, k \notin R, graph \in Graphs,
         indeg \in [Nodes -> Nat],
         \A d \in Nodes : indeg[d] = Cardinality(graph.needs[d] \ R)
  PROVE  /\ Unlock(k) \in [Nodes -> Nat]
         /\ \A d \in Nodes : Unlock(k)[d] = Cardinality(graph.needs[d] \ (R \cup {k}))
         /\ \A d \in Nodes : Unlock(k)[d] = 0 <=> graph.needs[d] \subseteq R \cup {k}
<1>1. graph.needs \in [Nodes -> SUBSET Nodes]
  BY PlanFacts
<1>2. ASSUME NEW d \in Nodes
      PROVE  /\ Unlock(k)[d] = Cardinality(graph.needs[d] \ (R \cup {k}))
             /\ Unlock(k)[d] \in Nat
             /\ Unlock(k)[d] = 0 <=> graph.needs[d] \subseteq R \cup {k}
  <2> DEFINE S == graph.needs[d] \ R
  <2>1. S \in SUBSET Nodes /\ S \ {k} \in SUBSET Nodes
    BY <1>1
  <2>2. graph.needs[d] \ (R \cup {k}) = S \ {k}
    OBVIOUS
  <2>3. Unlock(k)[d] = IF k \in S THEN Cardinality(S) - 1 ELSE Cardinality(S)
    BY DEF Unlock
  <2>4. Unlock(k)[d] = Cardinality(S \ {k})
    BY <2>1, <2>3, CountSteps
  <2>5. /\ Cardinality(S \ {k}) \in Nat
        /\ Cardinality(S \ {k}) = 0 <=> S \ {k} = {}
    BY <2>1, CountSteps
  <2> QED BY <2>2, <2>4, <2>5
<1>3. Unlock(k) = [d \in Nodes |-> Unlock(k)[d]]
  BY DEF Unlock
<1> QED BY <1>2, <1>3

LEMMA ResolvedIsSteps == Resolved \in SUBSET Nodes
BY DEF Resolved

(* The walk stays sound while its stack only shrinks, no status is taken   *)
(* back and no resolved step becomes unresolved.                           *)
LEMMA WalkStaysSound ==
  ASSUME WalkSound, SetOf(stack)' \subseteq SetOf(stack), graph' = graph,
         Resolved \subseteq Resolved', graph \in Graphs, SetOf(stack) \subseteq Nodes,
         \A d \in Nodes : statuses[d] = "skipped" => statuses'[d] = "skipped"
  PROVE  WalkSound'
<1>1. graph.needs \in [Nodes -> SUBSET Nodes]
  BY PlanFacts
<1>2. ASSUME NEW k \in SetOf(stack)'
      PROVE  \/ graph'.needs[k] \subseteq Resolved'
             \/ \E d \in graph'.needs[k] : statuses'[d] = "skipped"
  <2>1. k \in SetOf(stack) /\ graph.needs[k] \subseteq Nodes
    BY <1>1, <1>2
  <2> QED BY <2>1 DEF WalkSound
<1> QED BY <1>2 DEF WalkSound

LEMMA StackIsSteps == TypeOK => SetOf(stack) \subseteq Nodes
BY DEF TypeOK, SetOf

-----------------------------------------------------------------------------
LEMMA InitInv == Init => Inv
<1> SUFFICES ASSUME Init PROVE Inv
  OBVIOUS
<1> USE PlanFacts
<1>1. graph \in Graphs /\ Resolved = {} /\ Started = {} /\ Holders = {}
      /\ SetOf(done) = {} /\ SetOf(stack) = {} /\ Len(done) = 0 /\ Len(stack) = 0
  BY DEF Init, Resolved, Started, Holders, SetOf
<1>2. \A k \in Nodes : /\ indeg[k] = Cardinality(graph.needs[k])
                       /\ indeg[k] \in Nat
                       /\ indeg[k] = 0 <=> graph.needs[k] = {}
  BY <1>1, CountSteps DEF Init, InDegree
<1>3. TypeOK
  <2>1. 0 \in 0..N /\ <<>> \in Seq(Nodes)
    BY NAssumption
  <2> QED BY <1>1, <1>2, <2>1 DEF Init, TypeOK, InDegree
<1>4. CountersExact
  <2>1. Cardinality({}) = 0 /\ Workers \in Nat
    BY FS_EmptySet, ParallelAssumption DEF Workers
  <2>2. \A k \in Nodes : graph.needs[k] \ {} = graph.needs[k]
    OBVIOUS
  <2> QED BY <1>1, <1>2, <2>1, <2>2 DEF Init, CountersExact
<1>5. StatusesSound /\ HaltSound
  BY <1>1 DEF Init, StatusesSound, HaltSound
<1>6. ListsSound
  BY <1>1, <1>2 DEF Init, ListsSound
<1>7. NoneForgotten
  BY <1>1, <1>2 DEF Init, NoneForgotten
<1>8. WalkSound
  BY <1>1 DEF WalkSound
<1> QED BY <1>1, <1>3, <1>4, <1>5, <1>6, <1>7, <1>8 DEF Inv, IInv

-----------------------------------------------------------------------------
(* One lemma per action.                                                   *)

LEMMA ExecReturnsInv ==
  ASSUME Inv, NEW k \in Nodes, ExecReturns(k)
  PROVE  Inv'
<1> USE PlanFacts DEF Inv, IInv
<1>1. PICK s \in Outcomes : statuses' = [statuses EXCEPT ![k] = s]
  BY DEF ExecReturns
<1>2. /\ s \in Fatal \cup Mild /\ s # "pending"
      /\ k \in Started /\ statuses[k] = "pending" /\ k \notin Resolved
  BY OutcomesAssumption DEF ExecReturns, StatusesSound, Started, Fatal, Mild, Resolved
<1>3. /\ SetOf(done') = SetOf(done) \cup {k} /\ done' \in Seq(Nodes)
      /\ Len(done') = Len(done) + 1 /\ done'[Len(done) + 1] = k
      /\ \A i \in 1..Len(done) : done'[i] = done[i]
  BY SetOfAppend DEF ExecReturns, TypeOK
<1>4. k \notin SetOf(done)
  BY DEF ExecReturns, StatusesSound, SetOf
<1>5. Started' = Started /\ Holders' = Holders
  BY DEF ExecReturns, Started, Holders, TypeOK
<1>6. Resolved' = Resolved
  BY <1>1, <1>2, <1>3 DEF Resolved, TypeOK
<1>7. TypeOK'
  BY <1>1, <1>2, <1>3 DEF ExecReturns, TypeOK, mainVars
<1>8. CountersExact'
  BY <1>5, <1>6 DEF ExecReturns, CountersExact, mainVars
<1>9. StatusesSound'
  <2>1. \A j \in Started' : statuses'[j] = "pending" <=> phase'[j] = "running"
    BY <1>1, <1>2, <1>5 DEF ExecReturns, StatusesSound, TypeOK, Started
  <2>2. \A i \in 1..Len(done') : phase'[done'[i]] \in {"sent", "gone"}
    BY <1>3 DEF ExecReturns, StatusesSound, TypeOK
  <2>3. \A i, j \in 1..Len(done') : done'[i] = done'[j] => i = j
    BY <1>4, AppendOnce DEF ExecReturns, StatusesSound, TypeOK
  <2>4. \A j \in Nodes \ Started' : statuses'[j] # "pending" =>
          statuses'[j] = "skipped" /\ j \notin graph'.always /\ halt'
    BY <1>1, <1>2, <1>5 DEF ExecReturns, StatusesSound, TypeOK, mainVars
  <2> QED BY <2>1, <2>2, <2>3, <2>4 DEF StatusesSound
<1>10. HaltSound'
  BY <1>1, <1>2, <1>6 DEF ExecReturns, HaltSound, TypeOK, mainVars, Resolved
<1>11. ListsSound'
  <2>1. \A j \in Started' \ graph'.always : \A d \in graph'.needs[j] : statuses'[d] \in Mild
    <3>1. \A j \in Started : graph.needs[j] \subseteq Resolved
      BY DEF ListsSound
    <3> QED BY <1>1, <1>2, <1>5, <3>1 DEF ExecReturns, ListsSound, TypeOK
  <2> QED BY <1>5, <1>6, <2>1 DEF ExecReturns, ListsSound, mainVars
<1>12. NoneForgotten'
  BY <1>1, <1>2, <1>5, <1>6 DEF ExecReturns, NoneForgotten, mainVars, BatchDone, TypeOK
<1>13. WalkSound'
  <2>1. \A d \in Nodes : statuses[d] = "skipped" => statuses'[d] = "skipped"
    BY <1>1, <1>2 DEF TypeOK
  <2>2. SetOf(stack)' \subseteq SetOf(stack) /\ Resolved \subseteq Resolved' /\ graph' = graph
    BY <1>6 DEF ExecReturns, mainVars, SetOf
  <2> QED BY <2>1, <2>2, StackIsSteps, WalkStaysSound
<1> QED BY <1>7, <1>8, <1>9, <1>10, <1>11, <1>12, <1>13 DEF ExecReturns

LEMMA ReleaseInv ==
  ASSUME Inv, NEW k \in Nodes, Release(k)
  PROVE  Inv'
<1> USE PlanFacts DEF Inv, IInv
<1>1. /\ Started' = Started /\ Resolved' = Resolved
      /\ Holders' = Holders \ {k} /\ k \in Holders /\ Holders \in SUBSET Nodes
  BY DEF Release, Started, Resolved, Holders, TypeOK
<1>2. TypeOK'
  BY DEF Release, TypeOK, mainVars
<1>3. CountersExact'
  <2>1. Cardinality(Holders') = Cardinality(Holders) - 1 /\ Cardinality(Holders) \in Nat
    BY <1>1, CountSteps
  <2>2. Cardinality(Holders') <= Workers
    BY <2>1, ParallelAssumption DEF CountersExact, Workers
  <2> QED BY <1>1, <2>2 DEF Release, CountersExact, mainVars, Workers
<1>4. StatusesSound' /\ HaltSound'
  <2>1. HaltSound'
    BY <1>1 DEF Release, HaltSound, mainVars
  <2> QED BY <1>1, <2>1 DEF Release, StatusesSound, mainVars, TypeOK, Started
<1>5. ListsSound' /\ NoneForgotten'
  BY <1>1 DEF Release, ListsSound, NoneForgotten, BatchDone, mainVars
<1>6. WalkSound'
  <2>1. \A d \in Nodes : statuses[d] = "skipped" => statuses'[d] = "skipped"
    BY DEF Release
  <2>2. SetOf(stack)' \subseteq SetOf(stack) /\ Resolved \subseteq Resolved' /\ graph' = graph
    BY <1>1 DEF Release, mainVars, SetOf
  <2> QED BY <2>1, <2>2, StackIsSteps, WalkStaysSound
<1> QED BY <1>2, <1>3, <1>4, <1>5, <1>6 DEF Release
(* What dispatching k, taken from ready or revived, does to the sets.      *)
LEMMA DispatchFacts ==
  ASSUME Inv, NEW k \in Nodes, k \in ready \cup revived, Dispatch(k)
  PROVE  /\ k \notin Started /\ k \notin Holders /\ k \notin SetOf(stack)
         /\ graph.needs[k] \subseteq Resolved
         /\ Started' = Started \cup {k} /\ Holders' = Holders \cup {k}
         /\ Resolved' = Resolved
         /\ phase' = [phase EXCEPT ![k] = "running"]
<1> USE DEF Inv, IInv
<1>1. phase' = [phase EXCEPT ![k] = "running"] /\ UNCHANGED <<statuses, done>>
  BY DEF Dispatch
<1>2. k \notin Started /\ k \notin SetOf(stack) /\ graph.needs[k] \subseteq Resolved
  BY DEF ListsSound
<1>3. k \notin Holders
  BY <1>2 DEF Holders, Started
<1>4. Started' = Started \cup {k} /\ Holders' = Holders \cup {k} /\ Resolved' = Resolved
  BY <1>1 DEF Started, Holders, Resolved, TypeOK
<1> QED BY <1>1, <1>2, <1>3, <1>4

(* A dispatched step that has no status yet keeps the invariant.           *)
LEMMA DispatchInv ==
  ASSUME Inv, NEW k \in Nodes, k \in ready \cup revived, Dispatch(k),
         statuses[k] = "pending",
         k \in graph.always \/ \A d \in graph.needs[k] : statuses[d] \in Mild,
         ready' = ready \ {k}, revived' = revived \ {k}, verdict = "running"
  PROVE  Inv'
<1> USE PlanFacts DEF Inv, IInv
<1>1. /\ k \notin Started /\ k \notin Holders /\ k \notin SetOf(stack)
      /\ graph.needs[k] \subseteq Resolved
      /\ Started' = Started \cup {k} /\ Holders' = Holders \cup {k}
      /\ Resolved' = Resolved
      /\ phase' = [phase EXCEPT ![k] = "running"]
  BY DispatchFacts
<1>2. UNCHANGED <<graph, indeg, statuses, done, halt, stack, verdict>>
  BY DEF Dispatch
<1>3. TypeOK'
  BY <1>1, <1>2 DEF Dispatch, TypeOK
<1>4. CountersExact'
  <2>1. k \notin Resolved /\ Started \in SUBSET Nodes /\ Holders \in SUBSET Nodes
    BY DEF Resolved, Started, Holders
  <2>2. Started' \ Resolved' = (Started \ Resolved) \cup {k}
    BY <1>1, <2>1
  <2>3. /\ Cardinality(Started \cup {k}) = Cardinality(Started) + 1
        /\ Cardinality(Holders \cup {k}) = Cardinality(Holders) + 1
        /\ Cardinality((Started \ Resolved) \cup {k}) = Cardinality(Started \ Resolved) + 1
        /\ Cardinality(Holders) \in Nat
    <3>1. Started \ Resolved \in SUBSET Nodes /\ k \notin Started \ Resolved
      BY <1>1, <2>1
    <3> HIDE DEF Inv
    <3> QED BY <1>1, <2>1, <3>1, CountSteps
  <2>4. Cardinality(Holders') <= Workers
    BY <1>1, <2>3, ParallelAssumption DEF Dispatch, Workers
  <2> QED BY <1>1, <1>2, <2>2, <2>3, <2>4 DEF Dispatch, CountersExact, Workers
<1>5. StatusesSound'
  <2>1. \A i \in 1..Len(done) : phase'[done[i]] \in {"sent", "gone"}
    <3>1. ASSUME NEW i \in 1..Len(done) PROVE phase'[done[i]] \in {"sent", "gone"}
      <4>1. done[i] \in Nodes /\ phase[done[i]] \in {"sent", "gone"}
        BY DEF StatusesSound, TypeOK
      <4>2. done[i] # k
        BY <1>1, <4>1 DEF Started
      <4> QED BY <1>1, <4>1, <4>2 DEF TypeOK
    <3> QED BY <3>1
  <2>2. \A j \in Started' : statuses'[j] = "pending" <=> phase'[j] = "running"
    BY <1>1, <1>2 DEF StatusesSound, TypeOK, Started
  <2> QED BY <1>1, <1>2, <2>1, <2>2 DEF StatusesSound
<1>6. HaltSound'
  BY <1>1, <1>2 DEF HaltSound
<1>7. ListsSound'
  BY <1>1, <1>2 DEF ListsSound
<1>8. NoneForgotten'
  BY <1>1, <1>2 DEF NoneForgotten
<1>9. WalkSound'
  <2>1. \A d \in Nodes : statuses[d] = "skipped" => statuses'[d] = "skipped"
    BY <1>2
  <2>2. SetOf(stack)' \subseteq SetOf(stack) /\ Resolved \subseteq Resolved' /\ graph' = graph
    BY <1>1, <1>2 DEF SetOf
  <2> QED BY <2>1, <2>2, StackIsSteps, WalkStaysSound
<1> QED BY <1>2, <1>3, <1>4, <1>5, <1>6, <1>7, <1>8, <1>9

(* On a list and not verdict-free would contradict NoneForgotten.          *)
LEMMA BusyMeansRunning ==
  ASSUME Inv, ready # {} \/ revived # {} \/ stack # <<>>
  PROVE  verdict = "running"
BY DEF Inv, IInv, NoneForgotten, BatchDone

LEMMA DispatchRevivedInv ==
  ASSUME Inv, NEW k \in Nodes, DispatchRevived(k)
  PROVE  Inv'
<1>1. k \in revived /\ Dispatch(k) /\ revived' = revived \ {k} /\ ready' = ready
  BY DEF DispatchRevived, IsFirst
<1>2. k \notin ready /\ k \in graph.always /\ k \notin Started
  BY <1>1 DEF Inv, IInv, ListsSound
<1>3. statuses[k] = "pending"
  BY <1>2 DEF Inv, IInv, StatusesSound
<1>4. verdict = "running" /\ ready' = ready \ {k}
  BY <1>1, <1>2, BusyMeansRunning
<1> QED BY <1>1, <1>2, <1>3, <1>4, DispatchInv

LEMMA DispatchReadyInv ==
  ASSUME Inv, NEW k \in Nodes, DispatchReady(k)
  PROVE  Inv'
<1>1. /\ k \in ready /\ Dispatch(k) /\ ready' = ready \ {k} /\ revived' = revived
      /\ ~halt \/ k \in graph.always
  BY DEF DispatchReady, NextOfBatch, IsFirst
<1>2. k \notin revived /\ k \notin Started /\ graph.needs[k] \subseteq Resolved
  BY <1>1 DEF Inv, IInv, ListsSound
<1>3. statuses[k] = "pending"
  BY <1>1, <1>2 DEF Inv, IInv, StatusesSound
<1>4. k \in graph.always \/ \A d \in graph.needs[k] : statuses[d] \in Mild
  BY <1>1, <1>2 DEF Inv, IInv, HaltSound, TypeOK, Resolved
<1>5. verdict = "running" /\ revived' = revived \ {k}
  BY <1>1, <1>2, BusyMeansRunning
<1> QED BY <1>1, <1>2, <1>3, <1>4, <1>5, DispatchInv
LEMMA CascadeFromInv ==
  ASSUME Inv, NEW k \in Nodes, CascadeFrom(k)
  PROVE  Inv'
<1> USE PlanFacts DEF Inv, IInv
<1>1. /\ k \in ready /\ k \notin graph.always /\ halt /\ stack = <<>>
      /\ ready' = ready \ {k} /\ stack' = <<k>>
      /\ UNCHANGED <<graph, indeg, statuses, phase, done, halt, inflight,
                     dispatched, revived, verdict>>
  BY DEF CascadeFrom, NextOfBatch, IsFirst
<1>2. /\ Started' = Started /\ Resolved' = Resolved /\ Holders' = Holders
      /\ SetOf(stack') = {k} /\ SetOf(stack) = {} /\ Len(stack') = 1
  BY <1>1 DEF Started, Resolved, Holders, SetOf
<1>3. TypeOK'
  BY <1>1 DEF TypeOK, Nodes
<1>4. CountersExact' /\ StatusesSound' /\ HaltSound'
  BY <1>1, <1>2 DEF CountersExact, StatusesSound, HaltSound
<1>5. ListsSound'
  BY <1>1, <1>2 DEF ListsSound
<1>6. NoneForgotten'
  <2>1. verdict = "running"
    BY <1>1, BusyMeansRunning
  <2> QED BY <1>1, <1>2, <2>1 DEF NoneForgotten
<1>7. WalkSound'
  <2>1. graph.needs[k] \subseteq Resolved
    BY <1>1 DEF ListsSound
  <2> QED BY <1>1, <1>2, <2>1 DEF WalkSound
<1> QED BY <1>1, <1>3, <1>4, <1>5, <1>6, <1>7

(* What popping the walk's top does.                                       *)
LEMMA PoppedFacts ==
  ASSUME Inv, stack # <<>>
  PROVE  /\ Top \in Nodes /\ Top \in SetOf(stack) /\ Top \notin Started
         /\ Popped \in Seq(Nodes) /\ Len(Popped) = Len(stack) - 1 /\ Len(stack) \in Nat
         /\ \A i \in 1..Len(Popped) : Popped[i] = stack[i]
         /\ SetOf(stack) = SetOf(Popped) \cup {Top}
         /\ SetOf(stack) \subseteq Nodes
         /\ Top \in graph.always => Top \notin SetOf(Popped)
         /\ halt /\ verdict = "running"
<1>1. stack \in Seq(Nodes) /\ Len(stack) \in Nat \ {0}
  BY DEF Inv, TypeOK
<1>2. /\ Popped \in Seq(Nodes) /\ Len(Popped) = Len(stack) - 1
      /\ Top \in SetOf(stack)
      /\ \A i \in 1..Len(Popped) : Popped[i] = stack[i]
      /\ SetOf(stack) = SetOf(Popped) \cup {Top}
  BY <1>1, SetOfPopped DEF Popped, Top
<1>3. SetOf(stack) \subseteq Nodes
  BY <1>1 DEF SetOf
<1>4. Top \notin Started /\ halt
  BY <1>2 DEF Inv, IInv, ListsSound
<1>5. ASSUME Top \in graph.always PROVE Top \notin SetOf(Popped)
  <2>1. ASSUME NEW i \in 1..Len(Popped) PROVE Popped[i] # Top
    <3>1. i \in 1..Len(stack) /\ i # Len(stack) /\ Popped[i] = stack[i] /\ Len(stack) \in 1..Len(stack)
      BY <1>1, <1>2
    <3> QED BY <1>5, <3>1 DEF Inv, IInv, ListsSound, Top
  <2> QED BY <2>1 DEF SetOf
<1>6. verdict = "running"
  BY BusyMeansRunning
<1> QED BY <1>1, <1>2, <1>3, <1>4, <1>5, <1>6

(* The uniqueness of teardown steps on the stack survives a pop.           *)
LEMMA PoppedOnce ==
  ASSUME Inv, stack # <<>>
  PROVE  \A i, j \in 1..Len(Popped) :
           Popped[i] = Popped[j] /\ Popped[i] \in graph.always => i = j
<1>1. /\ Len(Popped) = Len(stack) - 1 /\ Len(stack) \in Nat
      /\ \A i \in 1..Len(Popped) : Popped[i] = stack[i]
  BY PoppedFacts
<1>2. 1..Len(Popped) \subseteq 1..Len(stack)
  BY <1>1
<1> QED BY <1>1, <1>2 DEF Inv, IInv, ListsSound

LEMMA CascadeTeardownInv ==
  ASSUME Inv, CascadeTeardown
  PROVE  Inv'
<1> USE PlanFacts, PoppedFacts DEF Inv, IInv
<1>1. /\ stack # <<>> /\ Top \in graph.always
      /\ revived' = IF indeg[Top] <= 0 THEN revived \cup {Top} ELSE revived
      /\ stack' = Popped
      /\ UNCHANGED <<graph, indeg, statuses, phase, done, halt, inflight,
                     dispatched, ready, verdict>>
  BY DEF CascadeTeardown
<1>2. Started' = Started /\ Resolved' = Resolved /\ Holders' = Holders
  BY <1>1 DEF Started, Resolved, Holders
<1>3. graph.needs[Top] \subseteq Resolved
  BY <1>1 DEF ListsSound
<1>4. revived' = revived \cup {Top}
  <2>1. graph.needs[Top] \ Resolved = {}
    BY <1>3
  <2>2. indeg[Top] = Cardinality(graph.needs[Top] \ Resolved)
    BY <1>1 DEF CountersExact
  <2>3. indeg[Top] = 0
    BY <2>1, <2>2, FS_EmptySet
  <2> QED BY <1>1, <2>3
<1>5. TypeOK'
  BY <1>1, <1>4 DEF TypeOK
<1>6. CountersExact' /\ StatusesSound' /\ HaltSound'
  BY <1>1, <1>2 DEF CountersExact, StatusesSound, HaltSound
<1>7. ListsSound'
  <2>1. Top \notin ready /\ Top \notin SetOf(Popped) /\ Top \notin Started
    BY <1>1 DEF ListsSound
  <2>2. \A i, j \in 1..Len(stack') :
          stack'[i] = stack'[j] /\ stack'[i] \in graph'.always => i = j
    BY <1>1, PoppedOnce
  <2>3. SetOf(stack') \subseteq SetOf(stack)
    BY <1>1
  <2> QED BY <1>1, <1>2, <1>3, <1>4, <2>1, <2>2, <2>3 DEF ListsSound
<1>8. NoneForgotten'
  BY <1>1, <1>2, <1>4 DEF NoneForgotten
<1>9. WalkSound'
  <2>1. \A d \in Nodes : statuses[d] = "skipped" => statuses'[d] = "skipped"
    BY <1>1
  <2>2. SetOf(stack)' \subseteq SetOf(stack) /\ Resolved \subseteq Resolved' /\ graph' = graph
    BY <1>1, <1>2 DEF SetOf
  <2> QED BY <2>1, <2>2, StackIsSteps, WalkStaysSound
<1> QED BY <1>1, <1>5, <1>6, <1>7, <1>8, <1>9

LEMMA CascadeSeenInv ==
  ASSUME Inv, CascadeSeen
  PROVE  Inv'
<1> USE PlanFacts, PoppedFacts DEF Inv, IInv
<1>1. /\ stack # <<>> /\ Top \notin graph.always /\ statuses[Top] # "pending"
      /\ stack' = Popped
      /\ UNCHANGED <<graph, indeg, statuses, phase, done, halt, inflight,
                     dispatched, ready, revived, verdict>>
  BY DEF CascadeSeen
<1>2. Started' = Started /\ Resolved' = Resolved /\ Holders' = Holders
  BY <1>1 DEF Started, Resolved, Holders
<1>3. TypeOK'
  BY <1>1 DEF TypeOK
<1>4. CountersExact' /\ StatusesSound' /\ HaltSound'
  BY <1>1, <1>2 DEF CountersExact, StatusesSound, HaltSound
<1>5. ListsSound'
  <2>1. \A i, j \in 1..Len(stack') :
          stack'[i] = stack'[j] /\ stack'[i] \in graph'.always => i = j
    BY <1>1, PoppedOnce
  <2>2. SetOf(stack') \subseteq SetOf(stack)
    BY <1>1
  <2> QED BY <1>1, <1>2, <2>1, <2>2 DEF ListsSound
<1>6. NoneForgotten'
  BY <1>1, <1>2 DEF NoneForgotten
<1>7. WalkSound'
  <2>1. \A d \in Nodes : statuses[d] = "skipped" => statuses'[d] = "skipped"
    BY <1>1
  <2>2. SetOf(stack)' \subseteq SetOf(stack) /\ Resolved \subseteq Resolved' /\ graph' = graph
    BY <1>1, <1>2 DEF SetOf
  <2> QED BY <2>1, <2>2, StackIsSteps, WalkStaysSound
<1> QED BY <1>1, <1>3, <1>4, <1>5, <1>6, <1>7
(* A sequence without repetitions of teardown steps, followed by one that  *)
(* repeats nothing and shares no teardown step with it.                    *)
LEMMA ConcatOnce ==
  ASSUME NEW s \in Seq(Nodes), NEW t \in Seq(Nodes), NEW A,
         \A i, j \in 1..Len(s) : s[i] = s[j] /\ s[i] \in A => i = j,
         \A i, j \in 1..Len(t) : t[i] = t[j] => i = j,
         SetOf(s) \cap SetOf(t) \cap A = {}
  PROVE  \A i, j \in 1..Len(s \o t) :
           (s \o t)[i] = (s \o t)[j] /\ (s \o t)[i] \in A => i = j
<1>1. Len(s) \in Nat /\ Len(t) \in Nat /\ Len(s \o t) = Len(s) + Len(t)
  OBVIOUS
<1>2. ASSUME NEW i \in 1..Len(s \o t)
      PROVE  \/ i \in 1..Len(s) /\ (s \o t)[i] = s[i] /\ s[i] \in SetOf(s)
             \/ i - Len(s) \in 1..Len(t) /\ (s \o t)[i] = t[i - Len(s)]
                /\ t[i - Len(s)] \in SetOf(t)
  BY <1>1 DEF SetOf
<1>3. ASSUME NEW i \in 1..Len(s \o t), NEW j \in 1..Len(s \o t),
             (s \o t)[i] = (s \o t)[j], (s \o t)[i] \in A
      PROVE  i = j
  <2>1. CASE i \in 1..Len(s) /\ (s \o t)[i] = s[i] /\ s[i] \in SetOf(s)
    BY <1>2, <1>3, <2>1
  <2>2. CASE i - Len(s) \in 1..Len(t) /\ (s \o t)[i] = t[i - Len(s)]
             /\ t[i - Len(s)] \in SetOf(t)
    <3>1. j - Len(s) \in 1..Len(t) /\ (s \o t)[j] = t[j - Len(s)]
      BY <1>2, <1>3, <2>2
    <3>2. i - Len(s) = j - Len(s)
      BY <1>3, <2>2, <3>1
    <3> QED BY <1>1, <3>2
  <2> QED BY <1>2, <2>1, <2>2
<1> QED BY <1>3

LEMMA CascadeSkipInv ==
  ASSUME Inv, CascadeSkip
  PROVE  Inv'
<1> USE PlanFacts, PoppedFacts DEF Inv, IInv
<1> DEFINE deps == graph.dependents[Top]
<1>1. /\ stack # <<>> /\ Top \notin graph.always /\ statuses[Top] = "pending"
      /\ statuses' = [statuses EXCEPT ![Top] = "skipped"]
      /\ indeg' = Unlock(Top)
      /\ stack' = Popped \o deps
      /\ UNCHANGED <<graph, phase, done, halt, inflight, dispatched, ready,
                     revived, verdict>>
  BY DEF CascadeSkip
<1>2. /\ Top \in Nodes /\ Top \notin Resolved /\ Top \notin Started
      /\ deps \in Seq(Nodes) /\ SetOf(deps) = {d \in Nodes : Top \in graph.needs[d]}
  BY <1>1 DEF Resolved
<1>3. Top \notin SetOf(done)
  <2>1. ASSUME NEW i \in 1..Len(done) PROVE done[i] \in Started
    <3>1. done[i] \in Nodes
      BY DEF TypeOK
    <3>2. phase[done[i]] \in {"sent", "gone"}
      BY DEF StatusesSound
    <3> QED BY <3>1, <3>2 DEF Started
  <2> QED BY <1>2, <2>1 DEF SetOf
<1>4. /\ Started' = Started /\ Holders' = Holders /\ Resolved' = Resolved \cup {Top}
  BY <1>1, <1>2, <1>3 DEF Started, Holders, Resolved, TypeOK
<1>5. /\ Unlock(Top) \in [Nodes -> Nat]
      /\ \A d \in Nodes : Unlock(Top)[d] = Cardinality(graph.needs[d] \ (Resolved \cup {Top}))
  BY <1>2, UnlockExact, ResolvedIsSteps DEF TypeOK, CountersExact
<1>6. stack' \in Seq(Nodes) /\ SetOf(stack') = SetOf(Popped) \cup SetOf(deps)
  BY <1>1, <1>2, SetOfConcat
<1>7. TypeOK'
  BY <1>1, <1>2, <1>5, <1>6 DEF TypeOK, Mild
<1>8. CountersExact'
  <2>1. Started \ (Resolved \cup {Top}) = Started \ Resolved
    BY <1>2
  <2> QED BY <1>1, <1>4, <1>5, <2>1 DEF CountersExact
<1>9. StatusesSound'
  <2>1. \A j \in Started' : statuses'[j] = "pending" <=> phase'[j] = "running"
    BY <1>1, <1>2, <1>4 DEF StatusesSound, TypeOK, Started
  <2>2. \A j \in Nodes \ Started' : statuses'[j] # "pending" =>
          statuses'[j] = "skipped" /\ j \notin graph'.always /\ halt'
    <3>1. \A j \in Nodes : statuses'[j] = IF j = Top THEN "skipped" ELSE statuses[j]
      BY <1>1, <1>2 DEF TypeOK
    <3>2. halt' /\ graph' = graph
      BY <1>1
    <3> QED BY <1>1, <1>4, <3>1, <3>2 DEF StatusesSound
  <2> QED BY <1>1, <2>1, <2>2 DEF StatusesSound
<1>10. HaltSound'
  <2>1. \A j \in Resolved : statuses'[j] = statuses[j]
    BY <1>1, <1>2 DEF TypeOK
  <2>2. halt /\ halt'
    BY <1>1
  <2> QED BY <1>4, <2>1, <2>2 DEF HaltSound
<1>11. ListsSound'
  <2>1. \A d \in SetOf(deps) : ~(graph.needs[d] \subseteq Resolved)
    BY <1>2
  <2>2. /\ SetOf(deps) \cap (ready \cup revived \cup Started) = {}
        /\ SetOf(Popped) \cap SetOf(deps) \cap graph.always = {}
    BY <1>1, <2>1 DEF ListsSound
  <2>3. \A i, j \in 1..Len(stack') :
          stack'[i] = stack'[j] /\ stack'[i] \in graph'.always => i = j
    BY <1>1, <1>2, <2>2, ConcatOnce, PoppedOnce
  <2>4. \A d \in SetOf(deps) \cap graph.always : graph.needs[d] \subseteq {Top}
    BY <1>2
  <2>5. \A j \in Started \ graph.always : \A d \in graph.needs[j] : statuses'[d] \in Mild
    <3>1. \A d \in Nodes : statuses[d] \in Mild => statuses'[d] \in Mild
      BY <1>1 DEF TypeOK, Mild
    <3>2. \A j \in Started : graph.needs[j] \subseteq Nodes
      BY DEF Started
    <3> QED BY <3>1, <3>2 DEF ListsSound
  <2>6. /\ SetOf(Popped) \subseteq SetOf(stack)
        /\ halt'
    BY <1>1
  <2>7. /\ ready' \cap (Started' \cup revived' \cup SetOf(stack')) = {}
        /\ revived' \cap (Started' \cup SetOf(stack')) = {}
        /\ SetOf(stack') \cap Started' = {}
        /\ revived' \subseteq graph'.always
    BY <1>1, <1>4, <1>6, <2>2, <2>6 DEF ListsSound
  <2>8. \A k \in Started' \cup ready' \cup revived' \cup (SetOf(stack') \cap graph'.always) :
          graph'.needs[k] \subseteq Resolved'
    BY <1>1, <1>4, <1>6, <2>4, <2>6 DEF ListsSound
  <2> QED BY <1>1, <1>4, <2>3, <2>5, <2>6, <2>7, <2>8 DEF ListsSound
<1>12. NoneForgotten'
  <2>1. ASSUME NEW j \in Nodes \ Started', statuses'[j] = "pending",
               graph'.needs[j] \subseteq Resolved'
        PROVE  j \in ready' \cup revived' \cup SetOf(stack')
    <3>1. j # Top /\ statuses[j] = "pending" /\ j \notin Started
      BY <1>1, <1>2, <1>4, <2>1 DEF TypeOK
    <3>2. CASE Top \in graph.needs[j]
      BY <1>2, <1>6, <3>2
    <3>3. CASE Top \notin graph.needs[j]
      <4>1. graph.needs[j] \subseteq Resolved
        BY <1>1, <1>4, <2>1, <3>3
      <4> QED BY <1>1, <1>6, <3>1, <4>1 DEF NoneForgotten
    <3> QED BY <3>2, <3>3
  <2> QED BY <1>1, <2>1 DEF NoneForgotten
<1>13. WalkSound'
  <2>1. \A d \in Nodes : statuses'[d] = IF d = Top THEN "skipped" ELSE statuses[d]
    BY <1>1, <1>2 DEF TypeOK
  <2>2. ASSUME NEW k \in SetOf(Popped)
        PROVE  \/ graph'.needs[k] \subseteq Resolved'
               \/ \E d \in graph'.needs[k] : statuses'[d] = "skipped"
    <3>1. k \in SetOf(stack) /\ k \in Nodes
      BY <1>1, <2>2, StackIsSteps
    <3>2. graph.needs[k] \subseteq Nodes
      BY <3>1
    <3>3. CASE graph.needs[k] \subseteq Resolved
      BY <1>1, <1>4, <3>3
    <3>4. CASE \E d \in graph.needs[k] : statuses[d] = "skipped"
      BY <1>1, <2>1, <3>2, <3>4
    <3> QED BY <3>1, <3>3, <3>4 DEF WalkSound
  <2>3. ASSUME NEW k \in SetOf(deps)
        PROVE  \E d \in graph'.needs[k] : statuses'[d] = "skipped"
    BY <1>1, <1>2, <2>1, <2>3
  <2> QED BY <1>6, <2>2, <2>3 DEF WalkSound
<1> QED BY <1>1, <1>7, <1>8, <1>9, <1>10, <1>11, <1>12, <1>13

LEMMA HarvestInv ==
  ASSUME Inv, Harvest
  PROVE  Inv'
<1> USE PlanFacts DEF Inv, IInv
<1> DEFINE k == Head(done)
<1>1. /\ verdict = "running" /\ BatchDone /\ inflight > 0 /\ done # <<>>
      /\ halt' = (halt \/ statuses[k] \in Fatal)
      /\ indeg' = Unlock(k)
      /\ ready' = {d \in Nodes : k \in graph.needs[d] /\ indeg[d] = 1}
      /\ done' = Tail(done)
      /\ inflight' = inflight - 1
      /\ UNCHANGED <<graph, statuses, phase, dispatched, stack, revived,
                     verdict>>
  BY DEF Harvest
<1>2. /\ done' \in Seq(Nodes) /\ k \in SetOf(done) /\ SetOf(done') = SetOf(done) \ {k}
      /\ \A i \in 1..Len(done') : done'[i] = done[i+1] /\ i + 1 \in 1..Len(done)
  BY <1>1, SetOfTail DEF TypeOK, StatusesSound
<1>3. k \in Nodes /\ k \in Started /\ statuses[k] # "pending" /\ k \notin Resolved
  <2>1. PICK i \in 1..Len(done) : k = done[i]
    BY <1>2 DEF SetOf
  <2>2. k \in Nodes /\ phase[k] \in {"sent", "gone"}
    BY <2>1 DEF TypeOK, StatusesSound
  <2> HIDE DEF k
  <2> QED BY <1>2, <2>2 DEF StatusesSound, Started, Resolved
<1> HIDE DEF k
<1>4. Started' = Started /\ Holders' = Holders /\ Resolved' = Resolved \cup {k}
  BY <1>1, <1>2, <1>3 DEF Started, Holders, Resolved
<1>5. /\ Unlock(k) \in [Nodes -> Nat]
      /\ \A d \in Nodes : Unlock(k)[d] = Cardinality(graph.needs[d] \ (Resolved \cup {k}))
      /\ \A d \in Nodes : Unlock(k)[d] = 0 <=> graph.needs[d] \subseteq Resolved \cup {k}
  BY <1>3, UnlockExact, ResolvedIsSteps DEF TypeOK, CountersExact
<1>6. ready' = {d \in Nodes : k \in graph.needs[d] /\ graph.needs[d] \subseteq Resolved \cup {k}}
  <2>1. ASSUME NEW d \in Nodes, k \in graph.needs[d]
        PROVE  indeg[d] = 1 <=> graph.needs[d] \subseteq Resolved \cup {k}
    <3>1. Unlock(k)[d] = indeg[d] - 1 /\ indeg[d] \in Nat
      BY <2>1 DEF Unlock, TypeOK
    <3> QED BY <1>5, <3>1
  <2> QED BY <1>1, <2>1
<1>7. TypeOK'
  BY <1>1, <1>2, <1>5 DEF TypeOK
<1>8. CountersExact'
  <2>1. Started \ (Resolved \cup {k}) = (Started \ Resolved) \ {k}
    OBVIOUS
  <2>2. Started \ Resolved \in SUBSET Nodes /\ k \in Started \ Resolved
    BY <1>3 DEF Started
  <2>3. Cardinality((Started \ Resolved) \ {k}) = Cardinality(Started \ Resolved) - 1
    <3> HIDE DEF Inv
    <3> QED BY <1>3, <2>2, CountSteps
  <2> QED BY <1>1, <1>4, <1>5, <2>1, <2>3 DEF CountersExact
<1>9. StatusesSound'
  <2>1. \A i \in 1..Len(done') : phase'[done'[i]] \in {"sent", "gone"}
    BY <1>1, <1>2 DEF StatusesSound
  <2>2. \A i, j \in 1..Len(done') : done'[i] = done'[j] => i = j
    <3>1. ASSUME NEW i \in 1..Len(done'), NEW j \in 1..Len(done'), done'[i] = done'[j]
          PROVE  i = j
      <4>1. i + 1 = j + 1
        BY <1>2, <3>1 DEF StatusesSound
      <4>2. i \in Int /\ j \in Int
        OBVIOUS
      <4> QED BY <4>1, <4>2
    <3> QED BY <3>1
  <2> QED BY <1>1, <1>4, <2>1, <2>2 DEF StatusesSound
<1>10. HaltSound'
  BY <1>1, <1>4 DEF HaltSound
<1>11. ListsSound'
  <2>1. stack = <<>> /\ revived = {} /\ ready = {} /\ SetOf(stack) = {} /\ Len(stack) = 0
    BY <1>1 DEF BatchDone, SetOf
  <2>2. ready' \cap Started = {}
    BY <1>3, <1>6 DEF ListsSound
  <2> QED BY <1>1, <1>4, <1>6, <2>1, <2>2 DEF ListsSound
<1>12. NoneForgotten'
  <2>1. ASSUME NEW j \in Nodes \ Started', statuses'[j] = "pending",
               graph'.needs[j] \subseteq Resolved'
        PROVE  j \in ready' \cup revived' \cup SetOf(stack')
    <3>1. CASE k \in graph.needs[j]
      BY <1>1, <1>4, <1>6, <2>1, <3>1
    <3>2. CASE k \notin graph.needs[j]
      <4>1. graph.needs[j] \subseteq Resolved /\ j \notin Started /\ statuses[j] = "pending"
        BY <1>1, <1>4, <2>1, <3>2
      <4>2. j \in ready \cup revived \cup SetOf(stack)
        BY <4>1 DEF NoneForgotten
      <4> QED BY <1>1, <4>2 DEF BatchDone, SetOf
    <3> QED BY <3>1, <3>2
  <2> QED BY <1>1, <2>1 DEF NoneForgotten
<1>13. WalkSound'
  <2>1. \A d \in Nodes : statuses[d] = "skipped" => statuses'[d] = "skipped"
    BY <1>1
  <2>2. SetOf(stack)' \subseteq SetOf(stack) /\ Resolved \subseteq Resolved' /\ graph' = graph
    BY <1>1, <1>4 DEF SetOf, BatchDone
  <2> QED BY <2>1, <2>2, StackIsSteps, WalkStaysSound
<1> QED BY <1>1, <1>7, <1>8, <1>9, <1>10, <1>11, <1>12, <1>13

LEMMA ConcludeInv ==
  ASSUME Inv, Conclude
  PROVE  Inv'
<1> USE PlanFacts DEF Inv, IInv
<1>1. /\ BatchDone /\ inflight = 0
      /\ verdict' \in {"success", "failed", "skipped"}
      /\ UNCHANGED <<graph, indeg, statuses, phase, done, halt, inflight, dispatched,
                     ready, stack, revived>>
  BY DEF Conclude, mainVars
<1>2. Started' = Started /\ Resolved' = Resolved /\ Holders' = Holders /\ BatchDone'
  BY <1>1 DEF Started, Resolved, Holders, BatchDone
<1>3. TypeOK'
  BY <1>1 DEF TypeOK
<1>4. CountersExact' /\ StatusesSound' /\ HaltSound' /\ ListsSound' /\ NoneForgotten'
  BY <1>1, <1>2 DEF CountersExact, StatusesSound, HaltSound, ListsSound, NoneForgotten
<1>5. WalkSound'
  <2>1. \A d \in Nodes : statuses[d] = "skipped" => statuses'[d] = "skipped"
    BY <1>1
  <2>2. SetOf(stack)' \subseteq SetOf(stack) /\ Resolved \subseteq Resolved' /\ graph' = graph
    BY <1>1, <1>2 DEF SetOf
  <2> QED BY <2>1, <2>2, StackIsSteps, WalkStaysSound
<1> QED BY <1>1, <1>3, <1>4, <1>5
-----------------------------------------------------------------------------
(* IInv and the type invariant hold in every reachable state: the counters *)
(* that end the loop are exact, a completion is received at most once, no  *)
(* step is dispatched twice, and at most Workers goroutines hold a slot.   *)
THEOREM InductiveInvariance == Spec => []Inv
<1>1. Init => Inv
  BY InitInv
<1>2. Inv /\ [Next]_vars => Inv'
  <2> SUFFICES ASSUME Inv, [Next]_vars PROVE Inv'
    OBVIOUS
  <2>1. CASE UNCHANGED vars
    <3>1. /\ Resolved' = Resolved /\ Started' = Started /\ Holders' = Holders
          /\ SetOf(stack)' = SetOf(stack)
      BY <2>1 DEF vars, mainVars, Resolved, Started, Holders, SetOf
    <3>2. TypeOK' /\ (graph \in Graphs)'
      BY <2>1 DEF vars, mainVars, Inv, TypeOK
    <3>3. CountersExact' /\ StatusesSound' /\ HaltSound'
      BY <2>1, <3>1 DEF vars, mainVars, Inv, IInv, CountersExact, StatusesSound, HaltSound
    <3>4. ListsSound' /\ WalkSound'
      BY <2>1, <3>1 DEF vars, mainVars, Inv, IInv, ListsSound, WalkSound
    <3>5. NoneForgotten'
      BY <2>1, <3>1 DEF vars, mainVars, Inv, IInv, NoneForgotten, BatchDone
    <3> QED BY <3>2, <3>3, <3>4, <3>5 DEF Inv, IInv
  <2>2. ASSUME NEW k \in Nodes, ExecReturns(k) \/ Release(k) PROVE Inv'
    BY <2>2, ExecReturnsInv, ReleaseInv
  <2>3. ASSUME NEW k \in Nodes, DispatchRevived(k) \/ DispatchReady(k) \/ CascadeFrom(k)
        PROVE  Inv'
    BY <2>3, DispatchRevivedInv, DispatchReadyInv, CascadeFromInv
  <2>4. CASE CascadeTeardown \/ CascadeSeen \/ CascadeSkip
    BY <2>4, CascadeTeardownInv, CascadeSeenInv, CascadeSkipInv
  <2>5. CASE Harvest \/ Conclude
    BY <2>5, HarvestInv, ConcludeInv
  <2> QED BY <2>1, <2>2, <2>3, <2>4, <2>5 DEF Next, Main
<1> QED BY <1>1, <1>2, PTL DEF Spec

THEOREM IInvHolds == Spec => []IInv
BY InductiveInvariance, PTL DEF Inv

THEOREM TypeCorrect == Spec => []TypeOK
BY InductiveInvariance, PTL DEF Inv

-----------------------------------------------------------------------------
(* When nothing is in flight every started step is resolved, and the       *)
(* resolved steps are the ones with a status.                              *)
LEMMA NothingInFlight ==
  ASSUME Inv, inflight = 0
  PROVE  /\ Started \subseteq Resolved
         /\ Resolved = {k \in Nodes : statuses[k] # "pending"}
<1> USE DEF Inv, IInv
<1>1. Started \subseteq Resolved
  <2>1. Started \ Resolved \in SUBSET Nodes /\ Cardinality(Started \ Resolved) = 0
    BY DEF Started, CountersExact
  <2>2. Started \ Resolved = {}
    <3> HIDE DEF Inv
    <3> QED BY <2>1, NodesFinite, FS_EmptySet
  <2> QED BY <2>2
<1>2. SetOf(done) = {}
  <2>1. ASSUME NEW i \in 1..Len(done) PROVE FALSE
    <3>1. done[i] \in Nodes /\ phase[done[i]] \in {"sent", "gone"} /\ done[i] \in SetOf(done)
      BY DEF TypeOK, StatusesSound, SetOf
    <3>2. done[i] \in Started
      BY <3>1 DEF Started
    <3> QED BY <1>1, <3>1, <3>2 DEF Resolved
  <2> QED BY <2>1 DEF SetOf
<1> QED BY <1>1, <1>2 DEF Resolved

(* What has no status when the loop ends needs a step without a status.    *)
LEMMA LeftNeedsLeft ==
  ASSUME Inv, BatchDone, inflight = 0,
         NEW k \in Nodes, statuses[k] = "pending"
  PROVE  \E d \in graph.needs[k] : d \in Nodes /\ statuses[d] = "pending"
<1>1. /\ Resolved = {j \in Nodes : statuses[j] # "pending"}
      /\ k \notin Started
  BY NothingInFlight
<1>2. k \notin ready \cup revived \cup SetOf(stack)
  BY DEF BatchDone, SetOf
<1>3. ~(graph.needs[k] \subseteq Resolved)
  BY <1>1, <1>2 DEF Inv, IInv, NoneForgotten
<1>4. graph.needs[k] \subseteq Nodes
  BY PlanFacts DEF Inv
<1> QED BY <1>1, <1>3, <1>4

(* The count the verdict is taken from: without a fatal step, fewer than N *)
(* steps were dispatched exactly when some step has no status.             *)
LEMMA DispatchedCountsLeft ==
  ASSUME Inv, inflight = 0, \A k \in Nodes : statuses[k] \notin Fatal
  PROVE  dispatched < N <=> \E k \in Nodes : statuses[k] = "pending"
<1>1. /\ Started \subseteq Resolved
      /\ Resolved = {k \in Nodes : statuses[k] # "pending"}
  BY NothingInFlight
<1>2. ~halt
  BY <1>1 DEF Inv, IInv, HaltSound
<1>3. Started = {k \in Nodes : statuses[k] # "pending"}
  BY <1>1, <1>2 DEF Inv, IInv, StatusesSound, Started
<1>4. dispatched = Cardinality(Started)
  BY DEF Inv, IInv, CountersExact
<1>5. CASE \E k \in Nodes : statuses[k] = "pending"
  <2>1. Started \subseteq Nodes /\ Started # Nodes
    BY <1>3, <1>5
  <2>2. Cardinality(Started) < Cardinality(Nodes)
    BY <2>1, NodesFinite, FS_Subset
  <2> QED BY <1>4, <1>5, <2>2, NodesFinite
<1>6. CASE ~\E k \in Nodes : statuses[k] = "pending"
  <2>1. Started = Nodes
    BY <1>3, <1>6
  <2> QED BY <1>4, <1>6, <2>1, NodesFinite, NAssumption
<1> QED BY <1>5, <1>6

(* When the loop of an acyclic plan ends every step has a status and every *)
(* teardown step was started: a set of steps without a status would have   *)
(* one that needs none of them.                                            *)
LEMMA AllSettledAtEnd ==
  ASSUME Inv, Acyclic(graph), BatchDone, inflight = 0
  PROVE  /\ \A k \in Nodes : statuses[k] # "pending"
         /\ \A k \in graph.always : k \in Started
<1>1. \A k \in Nodes : statuses[k] # "pending"
  <2> DEFINE S == {k \in Nodes : statuses[k] = "pending"}
  <2>1. ASSUME S # {} PROVE FALSE
    <3>1. PICK k \in S : graph.needs[k] \cap S = {}
      BY <2>1 DEF Acyclic
    <3>2. \E d \in graph.needs[k] : d \in S
      BY LeftNeedsLeft
    <3> QED BY <3>1, <3>2
  <2> QED BY <2>1
<1>2. \A k \in graph.always : k \in Started
  BY <1>1, PlanFacts DEF Inv, IInv, StatusesSound
<1> QED BY <1>1, <1>2

(* Nothing is lost: unless the plan is circular, schedule never returns    *)
(* while a step has no status or a teardown step was not started, and the  *)
(* fallback verdict "skipped" of scheduler.go:158-165 is never reached.    *)
THEOREM NothingIsLost == Spec => []NothingLost
<1>1. Init => NothingLost
  BY DEF Init, NothingLost
<1>2. Inv /\ NothingLost /\ [Next]_vars => NothingLost'
  <2> SUFFICES ASSUME Inv, NothingLost, [Next]_vars PROVE NothingLost'
    OBVIOUS
  <2> USE PlanFacts
  <2>1. CASE Conclude
    <3> SUFFICES ASSUME Acyclic(graph)
                 PROVE  /\ \A k \in Nodes : statuses'[k] # "pending"
                        /\ \A k \in graph'.always : phase'[k] # "idle"
                        /\ verdict' # "skipped"
      BY <2>1 DEF Conclude, NothingLost, Acyclic
    <3>1. BatchDone /\ inflight = 0
      BY <2>1 DEF Conclude
    <3>2. /\ UNCHANGED <<graph, statuses, phase, dispatched>>
          /\ verdict' = IF \E k \in Nodes : statuses[k] \in Fatal THEN "failed"
                        ELSE IF dispatched < N THEN "skipped" ELSE "success"
      BY <2>1 DEF Conclude, mainVars
    <3>3. \A k \in Nodes : statuses[k] # "pending"
      BY <3>1, AllSettledAtEnd
    <3>4. verdict' # "skipped"
      BY <3>1, <3>2, <3>3, DispatchedCountsLeft
    <3> QED BY <3>1, <3>2, <3>4, AllSettledAtEnd DEF Started
  <2>2. CASE verdict = "running" /\ ~Conclude
    BY <2>2 DEF Next, Main, NothingLost, vars, ExecReturns, Release, Dispatch, DispatchRevived,
                DispatchReady, CascadeFrom, CascadeTeardown, CascadeSeen, CascadeSkip, Harvest
  <2>3. CASE verdict # "running" /\ ~Conclude
    <3>1. BatchDone /\ inflight = 0 /\ ready = {} /\ revived = {} /\ stack = <<>>
      BY <2>3 DEF Inv, IInv, NoneForgotten, BatchDone
    <3>2. UNCHANGED vars \/ \E k \in Nodes : ExecReturns(k) \/ Release(k)
      BY <2>3, <3>1 DEF Next, Main, DispatchRevived, DispatchReady, CascadeFrom, NextOfBatch,
                        IsFirst, CascadeTeardown, CascadeSeen, CascadeSkip, Harvest
    <3>3. ASSUME NEW k \in Nodes, ExecReturns(k) PROVE FALSE
      <4>1. phase[k] = "running" /\ k \in Started
        BY <3>3 DEF ExecReturns, Started
      <4>2. statuses[k] = "pending"
        BY <4>1 DEF Inv, IInv, StatusesSound
      <4>3. statuses[k] # "pending"
        BY <3>1, <4>1, NothingInFlight
      <4> QED BY <4>2, <4>3
    <3>4. ASSUME NEW k \in Nodes, Release(k) PROVE NothingLost'
      BY <3>4 DEF Release, NothingLost, Inv, TypeOK, Acyclic
    <3>5. CASE UNCHANGED vars
      BY <3>5 DEF vars, NothingLost, Acyclic
    <3> QED BY <3>2, <3>3, <3>4, <3>5
  <2> QED BY <2>1, <2>2, <2>3
<1> QED BY <1>1, <1>2, InductiveInvariance, PTL DEF Spec
-----------------------------------------------------------------------------
(* The scheduler implements DagRun.  A dispatch is a Start, a return of    *)
(* exec a Finish, a skip of the walk a Skip, the harvest that sets halt is *)
(* Halt, and everything else happens behind the promise's back.            *)

USE DEF AbstractState

LEMMA PromiseNodes == graph \in Graphs => Promise!Nodes = Nodes
BY PlanFacts DEF Promise!Nodes

LEMMA PromiseInit == Init => Promise!Init
BY PromiseNodes DEF Init, Promise!Init

LEMMA ExecReturnsIsFinish ==
  ASSUME Inv, NEW k \in Nodes, ExecReturns(k)
  PROVE  Promise!Next
<1>1. PICK s \in Outcomes : statuses' = [statuses EXCEPT ![k] = s]
  BY DEF ExecReturns
<1>2. s \in Promise!Settled /\ s # "pending"
  BY OutcomesAssumption DEF Promise!Settled, Promise!Fatal, Promise!Mild, Fatal, Mild
<1>3. phase[k] = "running" /\ statuses[k] = "pending"
  BY DEF ExecReturns, Inv, IInv, StatusesSound, Started
<1>4. [j \in Nodes |-> AbstractState(j)]' = [[j \in Nodes |-> AbstractState(j)] EXCEPT ![k] = s]
  BY <1>1, <1>2, <1>3 DEF ExecReturns, Inv, TypeOK
<1>5. Promise!Finish(k)
  BY <1>2, <1>3, <1>4, PromiseNodes DEF Inv, Promise!Finish, ExecReturns, mainVars
<1> QED BY <1>5, PromiseNodes DEF Inv, Promise!Next

LEMMA DispatchIsStart ==
  ASSUME Inv, NEW k \in Nodes, DispatchRevived(k) \/ DispatchReady(k)
  PROVE  Promise!Next
<1>1. /\ k \in ready \cup revived /\ Dispatch(k)
      /\ k \in graph.always \/ (k \in ready /\ ~halt)
  BY DEF DispatchRevived, DispatchReady, NextOfBatch, IsFirst, Inv, IInv, ListsSound
<1>2. k \notin Started /\ graph.needs[k] \subseteq Resolved
  BY <1>1 DEF Inv, IInv, ListsSound
<1>3. phase[k] = "idle" /\ statuses[k] = "pending"
  BY <1>1, <1>2 DEF Started, Inv, IInv, StatusesSound
<1>4. \A d \in graph.needs[k] : d \in Nodes /\ statuses[d] \in Fatal \cup Mild
  BY <1>2 DEF Resolved, Inv, TypeOK
<1>5. k \in graph.always \/ (~halt /\ \A d \in graph.needs[k] : statuses[d] \in Mild)
  BY <1>1, <1>2, <1>4 DEF Inv, IInv, HaltSound
<1>6. /\ phase' = [phase EXCEPT ![k] = "running"]
      /\ UNCHANGED <<graph, statuses, halt, verdict>>
  BY <1>1 DEF Dispatch
<1>7. [j \in Nodes |-> AbstractState(j)]' = [[j \in Nodes |-> AbstractState(j)] EXCEPT ![k] = "running"]
  BY <1>3, <1>6 DEF Inv, TypeOK
<1>8. Promise!NeedsSettled(k)
  BY <1>4 DEF Promise!NeedsSettled, Promise!Settled, Promise!Fatal, Promise!Mild, Fatal, Mild
<1>9. Promise!Start(k)
  BY <1>3, <1>4, <1>5, <1>6, <1>7, <1>8 DEF Promise!Start, Promise!Mild, Mild
<1> QED BY <1>9, PromiseNodes DEF Inv, Promise!Next

LEMMA CascadeSkipIsSkip ==
  ASSUME Inv, CascadeSkip
  PROVE  Promise!Next
<1>1. /\ Top \in Nodes /\ Top \notin Started /\ halt
  BY PoppedFacts DEF CascadeSkip
<1>2. PICK k \in Nodes : k = Top
  BY <1>1
<1>3. /\ statuses[k] = "pending" /\ phase[k] = "idle" /\ k \notin graph.always
      /\ statuses' = [statuses EXCEPT ![k] = "skipped"]
      /\ UNCHANGED <<graph, phase, halt, verdict>>
  BY <1>1, <1>2 DEF CascadeSkip, Started
<1>4. [j \in Nodes |-> AbstractState(j)]' = [[j \in Nodes |-> AbstractState(j)] EXCEPT ![k] = "skipped"]
  BY <1>3 DEF Inv, TypeOK
<1>5. Promise!NeedsSettled(k) \/ \E d \in graph.needs[k] : statuses[d] = "skipped"
  <2>1. k \in SetOf(stack) /\ graph.needs[k] \subseteq Nodes
    BY <1>2, PoppedFacts, PlanFacts DEF CascadeSkip, Inv
  <2>2. \A d \in Resolved : AbstractState(d) \in Promise!Settled
    BY DEF Resolved, Inv, TypeOK, Promise!Settled, Promise!Fatal, Promise!Mild, Fatal, Mild
  <2>3. CASE graph.needs[k] \subseteq Resolved
    BY <2>1, <2>2, <2>3 DEF Promise!NeedsSettled
  <2> QED BY <2>1, <2>3 DEF Inv, IInv, WalkSound
<1>6. Promise!Skip(k)
  <2>1. graph.needs[k] \subseteq Nodes
    BY PlanFacts DEF Inv
  <2> QED BY <1>1, <1>3, <1>4, <1>5, <2>1 DEF Promise!Skip
<1> QED BY <1>6, PromiseNodes DEF Inv, Promise!Next

LEMMA HarvestIsHalt ==
  ASSUME Inv, Harvest
  PROVE  Promise!Halt \/ UNCHANGED Promise!vars
<1>1. /\ halt' = (halt \/ statuses[Head(done)] \in Fatal)
      /\ done # <<>>
      /\ UNCHANGED <<graph, statuses, phase, verdict>>
  BY DEF Harvest
<1>2. [j \in Nodes |-> AbstractState(j)]' = [j \in Nodes |-> AbstractState(j)]
  BY <1>1
<1>3. CASE halt' = halt
  BY <1>1, <1>2, <1>3 DEF Promise!vars
<1>4. CASE halt' # halt
  <2>1. halt' = TRUE /\ statuses[Head(done)] \in Fatal
    BY <1>1, <1>4 DEF Inv, TypeOK
  <2>2. Head(done) \in Nodes
    BY <1>1 DEF Inv, TypeOK
  <2>3. Promise!AnyFatal
    BY <2>1, <2>2, PromiseNodes DEF Inv, Promise!AnyFatal, Promise!Fatal, Fatal
  <2> QED BY <1>1, <1>2, <2>1, <2>3 DEF Promise!Halt
<1> QED BY <1>3, <1>4

LEMMA ConcludeIsConclude ==
  ASSUME Inv, Conclude
  PROVE  Promise!Conclude
<1>1. /\ verdict = "running" /\ BatchDone /\ inflight = 0
      /\ verdict' = IF \E k \in Nodes : statuses[k] \in Fatal THEN "failed"
                    ELSE IF dispatched < N THEN "skipped" ELSE "success"
      /\ UNCHANGED <<graph, statuses, phase, halt>>
  BY DEF Conclude, mainVars
<1>2. \A k \in Nodes :
        /\ AbstractState(k) = IF statuses[k] = "pending" THEN "waiting" ELSE statuses[k]
        /\ statuses[k] \in {"pending"} \cup Fatal \cup Mild
  BY <1>1, NothingInFlight DEF Inv, TypeOK, Started
<1>3. \A k \in Nodes :
        /\ AbstractState(k) # "running"
        /\ AbstractState(k) = "waiting" <=> statuses[k] = "pending"
        /\ AbstractState(k) \in Fatal <=> statuses[k] \in Fatal
  BY <1>2 DEF Fatal, Mild
<1>4. /\ Promise!AnyFatal <=> \E k \in Nodes : statuses[k] \in Fatal
      /\ Promise!Waiting = {k \in Nodes : statuses[k] = "pending"}
  <2> HIDE DEF AbstractState
  <2> QED BY <1>3, PromiseNodes DEF Inv, Promise!AnyFatal, Promise!Fatal, Fatal, Promise!Waiting
<1>5. \A k \in Promise!Waiting : graph.needs[k] \cap Promise!Waiting # {}
  BY <1>1, <1>4, LeftNeedsLeft
<1>6. verdict' = IF Promise!AnyFatal THEN "failed"
                 ELSE IF Promise!Waiting # {} THEN "skipped" ELSE "success"
  BY <1>1, <1>4, DispatchedCountsLeft
<1>7. [j \in Nodes |-> AbstractState(j)]' = [j \in Nodes |-> AbstractState(j)]
  BY <1>1
<1>8. \A k \in Nodes : [j \in Nodes |-> AbstractState(j)][k] # "running"
  <2> HIDE DEF AbstractState
  <2> QED BY <1>3
<1> HIDE DEF AbstractState
<1> QED BY <1>1, <1>5, <1>6, <1>7, <1>8, PromiseNodes DEF Inv, Promise!Conclude

LEMMA NothingSeen ==
  ASSUME UNCHANGED <<graph, statuses, phase, halt, verdict>>
  PROVE  UNCHANGED Promise!vars
<1>1. [j \in Nodes |-> AbstractState(j)]' = [j \in Nodes |-> AbstractState(j)]
  OBVIOUS
<1> QED BY <1>1 DEF Promise!vars

LEMMA ReleaseUnseen ==
  ASSUME Inv, NEW k \in Nodes, Release(k)
  PROVE  UNCHANGED Promise!vars
<1>1. phase[k] = "sent" /\ phase' = [phase EXCEPT ![k] = "gone"]
      /\ UNCHANGED <<graph, statuses, halt, verdict>>
  BY DEF Release, mainVars
<1>2. [j \in Nodes |-> AbstractState(j)]' = [j \in Nodes |-> AbstractState(j)]
  BY <1>1 DEF Inv, TypeOK
<1> QED BY <1>1, <1>2 DEF Promise!vars

(* Every behaviour of the scheduler is one the promise of DagRun allows.   *)
THEOREM Refinement == Spec => ImplementsDagRun
<1>1. Inv /\ [Next]_vars => [Promise!Next]_(Promise!vars)
  <2> SUFFICES ASSUME Inv, [Next]_vars PROVE [Promise!Next]_(Promise!vars)
    OBVIOUS
  <2>1. CASE UNCHANGED vars
    BY <2>1, NothingSeen DEF vars, mainVars
  <2>2. ASSUME NEW k \in Nodes, ExecReturns(k) PROVE Promise!Next
    BY <2>2, ExecReturnsIsFinish
  <2>3. ASSUME NEW k \in Nodes, Release(k) PROVE UNCHANGED Promise!vars
    BY <2>3, ReleaseUnseen
  <2>4. ASSUME NEW k \in Nodes, DispatchRevived(k) \/ DispatchReady(k) PROVE Promise!Next
    BY <2>4, DispatchIsStart
  <2>5. ASSUME NEW k \in Nodes, CascadeFrom(k) PROVE UNCHANGED Promise!vars
    BY <2>5, NothingSeen DEF CascadeFrom
  <2>6. CASE CascadeTeardown \/ CascadeSeen
    BY <2>6, NothingSeen DEF CascadeTeardown, CascadeSeen
  <2>7. CASE CascadeSkip
    BY <2>7, CascadeSkipIsSkip
  <2>8. CASE Harvest
    BY <2>8, HarvestIsHalt DEF Promise!Next
  <2>9. CASE Conclude
    BY <2>9, ConcludeIsConclude DEF Promise!Next
  <2> QED BY <2>1, <2>2, <2>3, <2>4, <2>5, <2>6, <2>7, <2>8, <2>9 DEF Next, Main
<1> QED BY <1>1, PromiseInit, InductiveInvariance, PTL DEF Spec, ImplementsDagRun, Promise!Spec
=============================================================================
