--------------------------- MODULE StepRun_proofs ---------------------------
(***************************************************************************)
(* Proofs about StepRun, for every set of step settings and every length   *)
(* of loops.                                                               *)
(***************************************************************************)
EXTENDS StepRun, FiniteSetTheorems, TLAPS

Statuses == Fatal \cup Mild
EventSet == [type : {"started", "finished", "retry", "output"},
             status : {"running"} \cup Fatal \cup Mild, n : Nat]

(* The trace opens with the start of the step, and ends with its result.   *)
TraceSound ==
  /\ pc = "enter" \/ (pc = "prepare" /\ items = 0) => trace = <<>>
  /\ trace # <<>> => trace[1] = Started
  /\ pc \notin {"enter", "prepare"} \/ items > 0 => trace # <<>>
  /\ pc = "returned" =>
       trace[Len(trace)] = Finished(result) /\ view = result /\ result \in Statuses

(* The loop has the status w when the iterations before n are taken in.    *)
Taken(w, n) ==
  /\ w # "success" =>
       \E i \in 1..(n - 1) : /\ ends[i] = w /\ w \in Fatal
                             /\ \A j \in 1..(i - 1) : ends[j] \notin Fatal
  /\ w = "success" => \A i \in 1..(n - 1) : ends[i] \notin Fatal

(* In a loop there is one end per iteration, which answers to its fault,   *)
(* and `worst` has taken in all but the present one's.                     *)
LoopSound ==
  /\ ~step.forEach \/ pc = "enter" => items = 0
  /\ items = 0 => /\ pc # "iterated" /\ item = 0 /\ worst = "success"
                  /\ ends = <<>> /\ faults = <<>>
  /\ items > 0 =>
       /\ item \in 1..items
       /\ Len(ends) = IF pc \in {"iterated", "returned"} THEN item ELSE item - 1
       /\ Len(faults) = Len(ends)
       /\ \A i \in 1..Len(ends) : Answers(ends[i], faults[i])
       /\ pc # "returned" => Taken(worst, item)
       /\ pc = "returned" => result = worst /\ item = items /\ Taken(worst, items + 1)

(* The cause of the last failure is the fault where it decides the status, *)
(* and none is left where the action has succeeded.                        *)
CauseSound ==
  /\ pc \in {"sleep", "finish"} => cause \in Causes /\ fault = cause
  /\ pc = "returned" /\ items = 0 => Answers(result, fault)

(* The number of retries the position allows for.                          *)
Retried ==
  CASE pc \in {"attempt", "mapping"} -> {attempt - 1}
    [] pc = "sleep" -> {attempt}
    [] pc = "finish" -> {attempt - 1} \cup IF ctx = "live" THEN {} ELSE {attempt}
    [] pc = "returned" /\ calls > 0 -> {attempt - 1} \cup IF ctx = "live" THEN {} ELSE {attempt}
    [] OTHER -> {0}

TriesSound ==
  /\ pc \in {"attempt", "sleep", "mapping", "finish"} => attempt > 0
  /\ pc = "sleep" => attempt < step.attempts
  /\ ~step.forEach =>
       /\ calls = IF pc = "attempt" THEN attempt - 1 ELSE attempt
       /\ pc \in {"enter", "prepare"} => calls = 0
       /\ \E r \in Retried :
            /\ RetryAt = 2..(r + 1)
            /\ pc \in {"attempt", "sleep"} => Len(trace) = r + 1
       /\ \A i \in RetryAt : trace[i].n = i - 1 /\ RetryHandles(trace[i].status)

IInv == TypeOK /\ TraceSound /\ LoopSound /\ CauseSound /\ TriesSound

-----------------------------------------------------------------------------
(* Publishing.                                                             *)

LEMMA EventTypes ==
  /\ Started \in EventSet /\ Started.type = "started"
  /\ Output \in EventSet /\ Output.type = "output"
  /\ \A s \in Statuses : Finished(s) \in EventSet /\ Finished(s).type = "finished"
  /\ \A c \in Causes, k \in Nat : /\ Retry(k, c) \in EventSet /\ Retry(k, c).type = "retry"
                                  /\ Retry(k, c).n = k /\ Retry(k, c).status = c
BY DEF Started, Output, Finished, Retry, Event, EventSet, Statuses, Fatal, Mild, Causes

LEMMA AppendTyped ==
  ASSUME NEW S, NEW q \in Seq(S), NEW e \in S
  PROVE  /\ Append(q, e) \in Seq(S) /\ Len(Append(q, e)) = Len(q) + 1
         /\ \A i \in 1..Len(q) : Append(q, e)[i] = q[i]
         /\ Append(q, e)[Len(q) + 1] = e
OBVIOUS

LEMMA TypeFacts ==
  ASSUME TypeOK
  PROVE  /\ trace \in Seq(EventSet) /\ Len(trace) \in Nat
         /\ ends \in Seq(Statuses) /\ Len(ends) \in Nat
         /\ faults \in Seq(Faults) /\ Len(faults) \in Nat
         /\ items \in Nat /\ item \in Nat /\ attempt \in Nat /\ calls \in Nat
         /\ step.attempts \in Nat /\ step.attempts > 0
<1>1. trace \in Seq(EventSet)
  BY DEF TypeOK, EventSet
<1>2. ends \in Seq(Statuses) /\ faults \in Seq(Faults)
  BY DEF TypeOK, Statuses
<1>3. items \in Nat /\ item \in Nat
  BY MaxItemsAssumption DEF TypeOK
<1>4. step.attempts \in Nat /\ step.attempts > 0
  BY ConfigsAssumption DEF TypeOK, StepConfig
<1>5. attempt \in Nat /\ calls \in Nat
  BY <1>4 DEF TypeOK
<1> QED BY <1>1, <1>2, <1>3, <1>4, <1>5

LEMMA PublishFacts ==
  ASSUME trace \in Seq(EventSet), NEW ev \in Seq(EventSet), Publish(ev)
  PROVE  /\ trace' \in Seq(EventSet)
         /\ Len(trace') = Len(trace) + Len(ev)
         /\ \A i \in 1..Len(trace) : trace'[i] = trace[i]
         /\ \A i \in 1..Len(ev) : trace'[Len(trace) + i] = ev[i]
         /\ Len(trace) \in Nat /\ Len(ev) \in Nat
BY DEF Publish

(* Events other than retries leave the retries where they are.             *)
LEMMA QuietPublish ==
  ASSUME trace \in Seq(EventSet), NEW ev \in Seq(EventSet), Publish(ev),
         \A i \in 1..Len(ev) : ev[i].type # "retry"
  PROVE  RetryAt' = RetryAt /\ \A i \in RetryAt : i \in 1..Len(trace) /\ trace'[i] = trace[i]
<1>1. /\ trace' \in Seq(EventSet)
      /\ Len(trace') = Len(trace) + Len(ev)
      /\ \A i \in 1..Len(trace) : trace'[i] = trace[i]
      /\ \A i \in 1..Len(ev) : trace'[Len(trace) + i] = ev[i]
      /\ Len(trace) \in Nat /\ Len(ev) \in Nat
  BY PublishFacts
<1>2. DOMAIN trace = 1..Len(trace) /\ DOMAIN trace' = 1..(Len(trace) + Len(ev))
  BY <1>1
<1>3. \A i \in 1..(Len(trace) + Len(ev)) :
        i \in 1..Len(trace) \/ (i - Len(trace) \in 1..Len(ev) /\ trace'[i].type # "retry")
  <2> SUFFICES ASSUME NEW i \in 1..(Len(trace) + Len(ev)), i \notin 1..Len(trace)
               PROVE  i - Len(trace) \in 1..Len(ev) /\ trace'[i].type # "retry"
    OBVIOUS
  <2>1. i - Len(trace) \in 1..Len(ev) /\ i = Len(trace) + (i - Len(trace))
    BY <1>1
  <2> QED BY <1>1, <2>1
<1> QED BY <1>1, <1>2, <1>3 DEF RetryAt

LEMMA RetryPublish ==
  ASSUME trace \in Seq(EventSet), NEW c \in Causes, NEW k \in Nat, Publish(<<Retry(k, c)>>)
  PROVE  /\ RetryAt' = RetryAt \cup {Len(trace) + 1}
         /\ \A i \in RetryAt : i \in 1..Len(trace) /\ trace'[i] = trace[i]
         /\ trace'[Len(trace) + 1] = Retry(k, c)
         /\ Len(trace') = Len(trace) + 1 /\ trace' \in Seq(EventSet)
<1>1. Retry(k, c) \in EventSet /\ Retry(k, c).type = "retry"
  BY EventTypes
<1>2. /\ Len(trace') = Len(trace) + 1 /\ trace' \in Seq(EventSet)
      /\ \A i \in 1..Len(trace) : trace'[i] = trace[i]
      /\ trace'[Len(trace) + 1] = Retry(k, c)
      /\ Len(trace) \in Nat
  BY <1>1 DEF Publish
<1>3. DOMAIN trace = 1..Len(trace) /\ DOMAIN trace' = 1..(Len(trace) + 1)
  BY <1>2
<1> QED BY <1>1, <1>2, <1>3 DEF RetryAt

-----------------------------------------------------------------------------
LEMMA InitEstablishes == Init => IInv
<1> SUFFICES ASSUME Init PROVE IInv
  OBVIOUS
<1>1. step \in StepConfig
  BY ConfigsAssumption DEF Init
<1>2. TypeOK
  <2>1. items \in 0..MaxItems /\ item \in 0..items /\ attempt \in 0..step.attempts
    BY <1>1, MaxItemsAssumption DEF Init, StepConfig
  <2>2. ends \in Seq(Fatal \cup Mild) /\ trace \in Seq(EventSet) /\ faults \in Seq(Faults)
    BY DEF Init
  <2> QED BY <2>1, <2>2 DEF Init, TypeOK, EventSet, Statuses, Faults
<1>3. TraceSound
  BY DEF Init, TraceSound
<1>4. LoopSound
  BY DEF Init, LoopSound
<1>5. CauseSound
  BY DEF Init, CauseSound
<1>6. TriesSound
  <2>1. RetryAt = {} /\ Retried = {0}
    BY DEF Init, RetryAt, Retried
  <2>2. {} = 2..(0 + 1)
    OBVIOUS
  <2> QED BY <2>1, <2>2 DEF Init, TriesSound
<1> QED BY <1>2, <1>3, <1>4, <1>5, <1>6 DEF IInv

-----------------------------------------------------------------------------
(* The end of an invocation, whichever way it comes.                       *)
LEMMA ReturnsKeeps ==
  ASSUME IInv, pc \in {"enter", "prepare", "mapping", "finish"},
         NEW s \in Statuses, NEW f \in Faults, NEW ev \in Seq(EventSet),
         Publish(ev), Returns(s, f),
         \A i \in 1..Len(ev) : ev[i].type # "retry",
         trace = <<>> => ev # <<>> /\ ev[1] = Started,
         items = 0 => ev # <<>> /\ ev[Len(ev)] = Finished(s) /\ view' = s,
         view' \in {"none"} \cup Statuses,
         Answers(s, f),
         UNCHANGED <<step, ctx, tries>>
  PROVE  IInv'
<1> USE DEF IInv
<1>1. UNCHANGED <<step, ctx, attempt, cause, calls, items, item, worst>>
  BY DEF tries, Returns, loop
<1>2. trace \in Seq(EventSet) /\ items \in Nat /\ item \in Nat
      /\ ends \in Seq(Statuses) /\ Len(ends) \in Nat
      /\ faults \in Seq(Faults) /\ Len(faults) \in Nat
  BY TypeFacts
<1>3. /\ trace' \in Seq(EventSet) /\ Len(trace') = Len(trace) + Len(ev)
      /\ \A i \in 1..Len(trace) : trace'[i] = trace[i]
      /\ \A i \in 1..Len(ev) : trace'[Len(trace) + i] = ev[i]
      /\ Len(trace) \in Nat /\ Len(ev) \in Nat
  BY <1>2, PublishFacts
<1>4. /\ items > 0 => /\ pc' = "iterated" /\ ends' = Append(ends, s)
                      /\ faults' = Append(faults, f) /\ result' = result
      /\ items = 0 => /\ pc' = "returned" /\ result' = s
                      /\ ends' = ends /\ faults' = faults
      /\ fault' = f
  BY <1>2 DEF Returns, Suppressed, loop
<1>5. TypeOK'
  <2>1. ends' \in Seq(Statuses) /\ faults' \in Seq(Faults)
    <3>1. CASE items = 0
      BY <1>2, <1>4, <3>1
    <3>2. Append(ends, s) \in Seq(Statuses) /\ Append(faults, f) \in Seq(Faults)
      <4>1. ends \in Seq(Statuses) /\ faults \in Seq(Faults) BY <1>2
      <4> HIDE DEF Statuses, IInv
      <4> QED BY <4>1, AppendTyped
    <3>3. CASE items > 0
      BY <1>4, <3>2, <3>3
    <3> QED BY <1>2, <3>1, <3>3
  <2>2. result' \in {"none"} \cup Fatal \cup Mild /\ view' \in {"none"} \cup Fatal \cup Mild
    BY <1>2, <1>4 DEF TypeOK, Statuses
  <2>3. pc' \in {"iterated", "returned"}
    BY <1>2, <1>4
  <2>4. (step \in Configs /\ ctx \in {"live", "cancelled", "deadline"}
         /\ items \in 0..MaxItems /\ item \in 0..items
         /\ worst \in {"success"} \cup Fatal /\ attempt \in 0..step.attempts
         /\ cause \in {"none"} \cup Causes /\ calls \in Nat)'
    BY <1>1 DEF TypeOK
  <2> QED BY <1>3, <1>4, <2>1, <2>2, <2>3, <2>4 DEF TypeOK, EventSet, Statuses
<1>6. TraceSound'
  <2>1. trace' # <<>> /\ trace'[1] = Started
    <3>1. CASE trace = <<>>
      <4>1. Len(ev) > 0 /\ 1 \in 1..Len(ev) /\ Len(trace) = 0
        BY <1>3, <3>1
      <4>2. trace'[0 + 1] = ev[1]
        BY <1>3, <4>1
      <4> QED BY <1>3, <3>1, <4>1, <4>2
    <3>2. CASE trace # <<>>
      <4>1. Len(trace) > 0 /\ 1 \in 1..Len(trace)
        BY <1>2, <3>2
      <4> QED BY <1>3, <3>2, <4>1 DEF TraceSound
    <3> QED BY <3>1, <3>2
  <2>2. ASSUME items = 0 PROVE trace'[Len(trace')] = Finished(s)
    <3>1. Len(ev) > 0 /\ Len(ev) \in 1..Len(ev)
      BY <1>3, <2>2
    <3> QED BY <1>3, <2>2, <3>1
  <2> QED BY <1>1, <1>2, <1>4, <2>1, <2>2 DEF TraceSound
<1>7. LoopSound'
  <2>1. CASE items = 0
    BY <1>1, <1>2, <1>4, <2>1 DEF LoopSound
  <2>2. CASE items > 0
    <3>1. /\ Len(ends) = item - 1 /\ Len(faults) = item - 1 /\ item \in 1..items
          /\ \A i \in 1..(item - 1) : Answers(ends[i], faults[i])
          /\ Taken(worst, item)
          /\ step.forEach /\ pc # "enter"
      BY <1>2, <2>2 DEF LoopSound
    <3>2. /\ Len(ends') = item /\ Len(faults') = item
          /\ ends'[item] = s /\ faults'[item] = f
          /\ \A i \in 1..(item - 1) : ends'[i] = ends[i] /\ faults'[i] = faults[i]
      <4>1. ends' = Append(ends, s) /\ faults' = Append(faults, f)
        BY <1>4, <2>2
      <4>2. ends \in Seq(Statuses) /\ faults \in Seq(Faults)
        BY <1>2
      <4>3. /\ Len(Append(ends, s)) = Len(ends) + 1
            /\ \A i \in 1..Len(ends) : Append(ends, s)[i] = ends[i]
            /\ Append(ends, s)[Len(ends) + 1] = s
        <5> HIDE DEF Statuses, IInv
        <5> QED BY <4>2, AppendTyped
      <4>4. /\ Len(Append(faults, f)) = Len(faults) + 1
            /\ \A i \in 1..Len(faults) : Append(faults, f)[i] = faults[i]
            /\ Append(faults, f)[Len(faults) + 1] = f
        <5> HIDE DEF Faults, IInv
        <5> QED BY <4>2, AppendTyped
      <4>5. Len(ends) = item - 1 /\ Len(faults) = item - 1 /\ (item - 1) + 1 = item
        BY <1>2, <3>1
      <4> QED BY <4>1, <4>3, <4>4, <4>5
    <3>3. \A i \in 1..item : i = item \/ i \in 1..(item - 1)
      BY <1>2
    <3>4. (\A i \in 1..Len(ends) : Answers(ends[i], faults[i]))'
      BY <1>1, <3>1, <3>2, <3>3 DEF Answers
    <3>5. Taken(worst, item)'
      <4>1. \A i \in 1..(item - 1) : \A j \in 1..(i - 1) : j \in 1..(item - 1)
        BY <1>2
      <4> QED BY <1>1, <3>1, <3>2, <4>1 DEF Taken
    <3> QED BY <1>1, <1>2, <1>4, <2>2, <3>1, <3>2, <3>4, <3>5 DEF LoopSound
  <2> QED BY <1>2, <2>1, <2>2
<1>8. CauseSound'
  BY <1>1, <1>2, <1>4 DEF CauseSound, Answers
<1>9. TriesSound'
  <2>1. RetryAt' = RetryAt /\ \A i \in RetryAt : trace'[i] = trace[i]
    BY <1>2, QuietPublish
  <2>2. pc' \in {"iterated", "returned"}
    BY <1>2, <1>4
  <2>3. ASSUME ~step.forEach PROVE pc' = "returned" /\ Retried \subseteq Retried'
    <3>1. items = 0
      BY <2>3 DEF LoopSound
    <3>2. pc' = "returned"
      BY <1>4, <3>1
    <3>3. attempt \in Nat /\ calls = attempt /\ (pc \in {"mapping", "finish"} => attempt > 0)
          /\ (pc \in {"enter", "prepare"} => calls = 0)
      BY <2>3, ConfigsAssumption DEF TriesSound, TypeOK, StepConfig
    <3> QED BY <1>1, <3>2, <3>3 DEF Retried
  <2> QED BY <1>1, <2>1, <2>2, <2>3 DEF TriesSound, RetryHandles
<1> QED BY <1>5, <1>6, <1>7, <1>8, <1>9

-----------------------------------------------------------------------------
(* The ways an invocation ends.                                            *)

LEMMA SkipsOrReplaysKeeps == IInv /\ SkipsOrReplays => IInv'
<1> SUFFICES ASSUME IInv, SkipsOrReplays PROVE IInv'
  OBVIOUS
<1> DEFINE s == IF step.skipReason THEN "skipped" ELSE "success"
           ev == <<Started, Finished(s)>>
<1>1. s \in Statuses
  BY DEF Statuses, Fatal, Mild
<1>2. ev \in Seq(EventSet) /\ \A i \in 1..Len(ev) : ev[i].type # "retry"
  BY <1>1, EventTypes
<1>3. Publish(ev) /\ Returns(s, "none") /\ view' = s
  BY DEF SkipsOrReplays
<1>4. ev # <<>> /\ ev[1] = Started /\ ev[Len(ev)] = Finished(s)
  OBVIOUS
<1>5. "none" \in Faults /\ Answers(s, "none")
  BY DEF Faults, Answers
<1>6. pc = "enter" /\ UNCHANGED <<step, ctx, tries>>
  BY DEF SkipsOrReplays
<1> HIDE DEF s, ev
<1> QED BY <1>1, <1>2, <1>3, <1>4, <1>5, <1>6, ReturnsKeeps

LEMMA LoopIsOverKeeps == IInv /\ LoopIsOver => IInv'
<1> SUFFICES ASSUME IInv, LoopIsOver PROVE IInv'
  OBVIOUS
<1>1. PICK s \in {"failed", "success"}, f \in Faults :
        /\ Publish(<<Started, Finished(s)>>) /\ view' = s /\ Returns(s, f)
        /\ Answers(s, f)
  <2>1. PICK v \in ForEachValues :
          LET t == IF EvaluateForEach(v) = {} THEN "failed" ELSE "success" IN
          /\ Publish(<<Started, Finished(t)>>) /\ view' = t
          /\ Returns(t, IF EvaluateForEach(v) = {} THEN "broken" ELSE "none")
    BY DEF LoopIsOver
  <2>2. /\ "none" \in Faults /\ Answers("success", "none")
        /\ "broken" \in Faults /\ Answers("failed", "broken")
    BY DEF Faults, Answers
  <2>3. CASE EvaluateForEach(v) = {}
    BY <2>1, <2>2, <2>3
  <2>4. CASE EvaluateForEach(v) # {}
    BY <2>1, <2>2, <2>4
  <2> QED BY <2>3, <2>4
<1> DEFINE ev == <<Started, Finished(s)>>
<1>2. s \in Statuses
  BY DEF Statuses, Fatal, Mild
<1>3. ev \in Seq(EventSet) /\ \A i \in 1..Len(ev) : ev[i].type # "retry"
  BY <1>2, EventTypes
<1>4. Publish(ev) /\ ev # <<>> /\ ev[1] = Started /\ ev[Len(ev)] = Finished(s)
  BY <1>1
<1>6. pc = "enter" /\ UNCHANGED <<step, ctx, tries>>
  BY DEF LoopIsOver, Fresh
<1> HIDE DEF ev
<1> QED BY <1>1, <1>2, <1>3, <1>4, <1>6, ReturnsKeeps

LEMMA AbortsKeeps == IInv /\ Aborts => IInv'
<1> SUFFICES ASSUME IInv, Aborts PROVE IInv'
  OBVIOUS
<1> DEFINE ev == <<Started, Finished("failed")>>
<1>1. "failed" \in Statuses
  BY DEF Statuses, Fatal, Mild
<1>2. ev \in Seq(EventSet) /\ \A i \in 1..Len(ev) : ev[i].type # "retry"
  BY <1>1, EventTypes
<1>3. /\ Publish(ev) /\ Returns("failed", "broken") /\ view' = "failed" /\ pc = "prepare"
      /\ UNCHANGED <<step, ctx, tries>>
  BY DEF Aborts
<1>4. ev # <<>> /\ ev[1] = Started /\ ev[Len(ev)] = Finished("failed")
  OBVIOUS
<1>5. "broken" \in Faults /\ Answers("failed", "broken")
  BY DEF Faults, Answers
<1> HIDE DEF ev
<1> QED BY <1>1, <1>2, <1>3, <1>4, <1>5, ReturnsKeeps

LEMMA GateClosedKeeps == IInv /\ GateClosed => IInv'
<1> SUFFICES ASSUME IInv, GateClosed PROVE IInv'
  OBVIOUS
<1> DEFINE ev == <<Started, Finished("skipped")>>
<1>1. "skipped" \in Statuses
  BY DEF Statuses, Fatal, Mild
<1>2. ev \in Seq(EventSet) /\ \A i \in 1..Len(ev) : ev[i].type # "retry"
  BY <1>1, EventTypes
<1>3. /\ Publish(ev) /\ Returns("skipped", "none") /\ view' = "skipped" /\ pc = "prepare"
      /\ UNCHANGED <<step, ctx, tries>>
  BY DEF GateClosed
<1>4. ev # <<>> /\ ev[1] = Started /\ ev[Len(ev)] = Finished("skipped")
  OBVIOUS
<1>5. "none" \in Faults /\ Answers("skipped", "none")
  BY DEF Faults, Answers
<1> HIDE DEF ev
<1> QED BY <1>1, <1>2, <1>3, <1>4, <1>5, ReturnsKeeps

LEMMA OutputsTyped ==
  ASSUME NEW outputs \in {<<>>, <<Output>>}
  PROVE  outputs \in Seq(EventSet) /\ \A i \in 1..Len(outputs) : outputs[i].type # "retry"
<1>1. CASE outputs = <<>>
  <2>1. <<>> \in Seq(EventSet) /\ Len(<<>>) = 0
    OBVIOUS
  <2> QED BY <1>1, <2>1
<1>2. CASE outputs = <<Output>>
  <2>1. <<Output>> \in Seq(EventSet) /\ Len(<<Output>>) = 1 /\ <<Output>>[1] = Output
    BY EventTypes
  <2> QED BY <1>2, <2>1, EventTypes
<1> QED BY <1>1, <1>2

(* The outputs, and the end after them.                                    *)
LEMMA OutputsThenEnd ==
  ASSUME NEW outputs \in {<<>>, <<Output>>}, NEW s \in Statuses
  PROVE  \E ev \in Seq(EventSet) :
           /\ ev = Append(outputs, Finished(s))
           /\ \A i \in 1..Len(ev) : ev[i].type # "retry"
           /\ ev # <<>> /\ ev[Len(ev)] = Finished(s)
<1> DEFINE ev == Append(outputs, Finished(s))
<1>1. outputs \in Seq(EventSet) /\ \A i \in 1..Len(outputs) : outputs[i].type # "retry"
  BY OutputsTyped
<1>2. Finished(s) \in EventSet /\ Finished(s).type = "finished"
  BY EventTypes
<1>3. /\ ev \in Seq(EventSet) /\ Len(ev) = Len(outputs) + 1
      /\ \A i \in 1..Len(outputs) : ev[i] = outputs[i]
      /\ ev[Len(outputs) + 1] = Finished(s)
  <2> HIDE DEF EventSet
  <2> QED BY <1>1, <1>2, AppendTyped
<1>4. ev = Append(outputs, Finished(s))
  OBVIOUS
<1> HIDE DEF ev
<1>5. Len(outputs) \in Nat
  BY <1>1
<1>6. ASSUME NEW i \in 1..Len(ev) PROVE ev[i].type # "retry"
  <2>1. i \in 1..Len(outputs) \/ i = Len(outputs) + 1
    BY <1>3, <1>5
  <2> QED BY <1>1, <1>2, <1>3, <2>1
<1>7. ev # <<>> /\ ev[Len(ev)] = Finished(s)
  BY <1>3, <1>5
<1> QED BY <1>3, <1>4, <1>6, <1>7

(* What emitFinished publishes, inside an iteration and outside.           *)
LEMMA EmitFinishedFacts ==
  ASSUME TypeOK, NEW outputs \in {<<>>, <<Output>>}, NEW s \in Statuses, EmitFinished(outputs, s)
  PROVE  \E ev \in Seq(EventSet) :
           /\ Publish(ev)
           /\ \A i \in 1..Len(ev) : ev[i].type # "retry"
           /\ items = 0 => ev # <<>> /\ ev[Len(ev)] = Finished(s) /\ view' = s
           /\ view' \in {"none"} \cup Statuses
<1>1. view \in {"none"} \cup Statuses
  BY DEF TypeOK, Statuses
<1>2. CASE Suppressed
  <2>1. outputs \in Seq(EventSet) /\ \A i \in 1..Len(outputs) : outputs[i].type # "retry"
    BY OutputsTyped
  <2>2. Publish(outputs) /\ view' = view /\ ~(items = 0)
    BY <1>2 DEF EmitFinished, Suppressed
  <2> QED BY <1>1, <2>1, <2>2
<1>3. CASE ~Suppressed
  <2> DEFINE ev == Append(outputs, Finished(s))
  <2>2. ev \in Seq(EventSet) /\ \A i \in 1..Len(ev) : ev[i].type # "retry"
    BY OutputsThenEnd
  <2>3. ev # <<>> /\ ev[Len(ev)] = Finished(s)
    BY OutputsThenEnd
  <2>4. Publish(ev) /\ view' = s
    BY <1>3 DEF EmitFinished
  <2> HIDE DEF ev
  <2> QED BY <2>2, <2>3, <2>4
<1> QED BY <1>2, <1>3

LEMMA FailsKeeps == IInv /\ Fails => IInv'
<1> SUFFICES ASSUME IInv, Fails PROVE IInv'
  OBVIOUS
<1> DEFINE s == FailureStatus
<1>1. s \in Statuses /\ Answers(s, fault) /\ fault \in Faults
  BY DEF IInv, CauseSound, Causes, Fails, FailureStatus, Statuses, Fatal, Mild, Answers, Faults
<1>2. /\ EmitFinished(<<>>, s) /\ Returns(s, fault) /\ pc = "finish"
      /\ UNCHANGED <<step, ctx, tries>>
  BY DEF Fails
<1>3. TypeOK /\ trace # <<>>
  BY <1>2 DEF IInv, TraceSound
<1> HIDE DEF s
<1>4. PICK ev \in Seq(EventSet) :
        /\ Publish(ev)
        /\ \A i \in 1..Len(ev) : ev[i].type # "retry"
        /\ items = 0 => ev # <<>> /\ ev[Len(ev)] = Finished(s) /\ view' = s
        /\ view' \in {"none"} \cup Statuses
  BY <1>1, <1>2, <1>3, EmitFinishedFacts
<1> QED BY <1>1, <1>2, <1>3, <1>4, ReturnsKeeps

LEMMA SucceedsKeeps == IInv /\ Succeeds => IInv'
<1> SUFFICES ASSUME IInv, Succeeds PROVE IInv'
  OBVIOUS
<1> DEFINE outputs == IF step.mapped THEN <<Output>> ELSE <<>>
<1>1. "success" \in Statuses /\ outputs \in {<<>>, <<Output>>}
  BY DEF Statuses, Fatal, Mild
<1>2. /\ EmitFinished(outputs, "success") /\ Returns("success", "none") /\ pc = "mapping"
      /\ UNCHANGED <<step, ctx, tries>>
  BY DEF Succeeds
<1>5. "none" \in Faults /\ Answers("success", "none")
  BY DEF Faults, Answers
<1>3. TypeOK /\ trace # <<>>
  BY <1>2 DEF IInv, TraceSound
<1> HIDE DEF outputs
<1>4. PICK ev \in Seq(EventSet) :
        /\ Publish(ev)
        /\ \A i \in 1..Len(ev) : ev[i].type # "retry"
        /\ items = 0 => ev # <<>> /\ ev[Len(ev)] = Finished("success") /\ view' = "success"
        /\ view' \in {"none"} \cup Statuses
  BY <1>1, <1>2, <1>3, EmitFinishedFacts
<1> QED BY <1>1, <1>2, <1>3, <1>4, <1>5, ReturnsKeeps

LEMMA MappingFailsKeeps == IInv /\ MappingFails => IInv'
<1> SUFFICES ASSUME IInv, MappingFails PROVE IInv'
  OBVIOUS
<1>1. PICK outputs \in {<<>>, <<Output>>} : Publish(Append(outputs, Finished("failed")))
  BY DEF MappingFails
<1> DEFINE ev == Append(outputs, Finished("failed"))
<1>2. "failed" \in Statuses
  BY DEF Statuses, Fatal, Mild
<1>4. ev \in Seq(EventSet) /\ \A i \in 1..Len(ev) : ev[i].type # "retry"
  BY <1>2, OutputsThenEnd
<1>5. ev # <<>> /\ ev[Len(ev)] = Finished("failed")
  BY <1>2, OutputsThenEnd
<1>3. "broken" \in Faults /\ Answers("failed", "broken")
  BY DEF Faults, Answers
<1>6. /\ Publish(ev) /\ Returns("failed", "broken") /\ view' = "failed" /\ pc = "mapping"
      /\ UNCHANGED <<step, ctx, tries>>
  BY <1>1 DEF MappingFails
<1>7. trace # <<>>
  BY <1>6 DEF IInv, TraceSound
<1> HIDE DEF ev
<1> QED BY <1>2, <1>3, <1>4, <1>5, <1>6, <1>7, ReturnsKeeps

-----------------------------------------------------------------------------
(* The steps between.                                                      *)

LEMMA EntersPlainKeeps == IInv /\ EntersPlain => IInv'
<1> SUFFICES ASSUME IInv, EntersPlain PROVE IInv'
  OBVIOUS
<1> USE DEF IInv
<1>1. /\ pc = "enter" /\ pc' = "prepare" /\ ~step.forEach
      /\ UNCHANGED <<step, ctx, items, item, worst, ends, faults, fault, attempt, cause, calls,
                     trace, view, result>>
  BY DEF EntersPlain, Fresh, loop, tries
<1>2. items = 0
  BY <1>1 DEF LoopSound
<1>3. TypeOK'
  BY <1>1 DEF TypeOK
<1>4. TraceSound'
  BY <1>1, <1>2 DEF TraceSound
<1>5. LoopSound'
  BY <1>1, <1>2 DEF LoopSound
<1>6. CauseSound'
  BY <1>1 DEF CauseSound, Answers
<1>7. TriesSound'
  <2>1. Retried = {0} /\ Retried' = {0} /\ RetryAt' = RetryAt
    BY <1>1 DEF Retried, RetryAt
  <2> QED BY <1>1, <2>1 DEF TriesSound, RetryHandles
<1> QED BY <1>3, <1>4, <1>5, <1>6, <1>7

LEMMA LoopBeginsKeeps == IInv /\ LoopBegins => IInv'
<1> SUFFICES ASSUME IInv, LoopBegins PROVE IInv'
  OBVIOUS
<1> USE DEF IInv
<1>1. /\ pc = "enter" /\ pc' = "prepare" /\ step.forEach /\ item' = 1
      /\ Publish(<<Started>>)
      /\ UNCHANGED <<step, ctx, worst, ends, faults, fault, attempt, cause, calls, view, result>>
  BY DEF LoopBegins, Fresh, tries
<1>2. items' \in 1..MaxItems
  <2>1. PICK v \in ForEachValues : items' \in EvaluateForEach(v) \ {0}
    BY DEF LoopBegins
  <2> QED BY <2>1, MaxItemsAssumption DEF ForEachValues, EvaluateForEach
<1>3. items = 0 /\ ends = <<>> /\ trace = <<>>
  BY <1>1 DEF LoopSound, TraceSound
<1>4. trace' = <<Started>> /\ trace' \in Seq(EventSet)
  <2>1. Started \in EventSet
    BY EventTypes
  <2>2. trace' = <<Started>>
    BY <1>1, <1>3 DEF Publish
  <2> QED BY <2>1, <2>2
<1>5. TypeOK'
  <2>1. items' \in 0..MaxItems /\ item' \in 0..items'
    BY <1>1, <1>2, MaxItemsAssumption
  <2>2. trace' \in Seq([type : {"started", "finished", "retry", "output"},
                        status : {"running"} \cup Fatal \cup Mild, n : Nat])
    BY <1>4 DEF EventSet
  <2>3. (step \in Configs /\ ctx \in {"live", "cancelled", "deadline"}
         /\ worst \in {"success"} \cup Fatal /\ ends \in Seq(Fatal \cup Mild)
         /\ fault \in Faults /\ faults \in Seq(Faults)
         /\ attempt \in 0..step.attempts /\ cause \in {"none"} \cup Causes /\ calls \in Nat
         /\ view \in {"none"} \cup Fatal \cup Mild
         /\ result \in {"none"} \cup Fatal \cup Mild)'
    BY <1>1 DEF TypeOK
  <2> QED BY <1>1, <2>1, <2>2, <2>3 DEF TypeOK
<1>6. TraceSound'
  <2>1. <<Started>> # <<>> /\ <<Started>>[1] = Started
    OBVIOUS
  <2> QED BY <1>1, <1>2, <1>4, <2>1, MaxItemsAssumption DEF TraceSound
<1>7. LoopSound'
  <2>1. worst = "success" /\ faults = <<>>
    BY <1>1, <1>3 DEF LoopSound
  <2>2. Len(ends') = 0 /\ Len(faults') = 0 /\ 1..0 = {}
    BY <1>1, <1>3, <2>1
  <2>3. Taken(worst, item)'
    BY <1>1, <2>1, <2>2 DEF Taken
  <2> QED BY <1>1, <1>2, <2>1, <2>2, <2>3, MaxItemsAssumption DEF LoopSound
<1>8. CauseSound'
  BY <1>1 DEF CauseSound, Answers
<1>9. TriesSound'
  BY <1>1 DEF TriesSound
<1> QED BY <1>5, <1>6, <1>7, <1>8, <1>9

LEMMA BeginsKeeps == IInv /\ Begins => IInv'
<1> SUFFICES ASSUME IInv, Begins PROVE IInv'
  OBVIOUS
<1> USE DEF IInv
<1> DEFINE ev == IF Suppressed THEN <<>> ELSE <<Started>>
<1>1. /\ pc = "prepare" /\ pc' = "attempt" /\ attempt' = 1 /\ Publish(ev)
      /\ UNCHANGED <<step, ctx, items, item, worst, ends, faults, fault, cause, calls, view, result>>
  BY DEF Begins, loop
<1>2. /\ trace \in Seq(EventSet) /\ Len(trace) \in Nat /\ items \in Nat
      /\ step.attempts \in Nat /\ step.attempts > 0
  BY TypeFacts
<1>3. trace' \in Seq(EventSet) /\ trace' # <<>> /\ trace'[1] = Started
      /\ (items = 0 => trace' = <<Started>>)
  <2>1. CASE items = 0
    <3>1. trace = <<>> /\ ev = <<Started>>
      BY <1>1, <2>1 DEF TraceSound, Suppressed
    <3>2. trace' = <<Started>>
      BY <1>1, <3>1 DEF Publish
    <3>3. Started \in EventSet
      BY EventTypes
    <3> QED BY <3>2, <3>3
  <2>2. CASE items > 0
    <3>1. ev = <<>> /\ trace # <<>> /\ trace[1] = Started
      BY <1>1, <2>2 DEF TraceSound, Suppressed
    <3>2. trace' = trace
      BY <1>1, <1>2, <3>1 DEF Publish
    <3> QED BY <1>2, <2>2, <3>1, <3>2
  <2> QED BY <1>2, <2>1, <2>2
<1>4. TypeOK'
  <2>1. attempt' \in 0..step'.attempts
    BY <1>1, <1>2
  <2>2. trace' \in Seq([type : {"started", "finished", "retry", "output"},
                        status : {"running"} \cup Fatal \cup Mild, n : Nat])
    BY <1>3 DEF EventSet
  <2>3. (step \in Configs /\ ctx \in {"live", "cancelled", "deadline"}
         /\ items \in 0..MaxItems /\ item \in 0..items
         /\ worst \in {"success"} \cup Fatal /\ ends \in Seq(Fatal \cup Mild)
         /\ fault \in Faults /\ faults \in Seq(Faults)
         /\ cause \in {"none"} \cup Causes /\ calls \in Nat
         /\ view \in {"none"} \cup Fatal \cup Mild
         /\ result \in {"none"} \cup Fatal \cup Mild)'
    BY <1>1 DEF TypeOK
  <2> QED BY <1>1, <2>1, <2>2, <2>3 DEF TypeOK
<1>5. TraceSound'
  BY <1>1, <1>3 DEF TraceSound
<1>6. LoopSound'
  BY <1>1 DEF LoopSound, Taken, Answers
<1>7. CauseSound'
  BY <1>1 DEF CauseSound, Answers
<1>8. TriesSound'
  <2>1. CASE step.forEach
    BY <1>1, <2>1 DEF TriesSound
  <2>2. CASE ~step.forEach
    <3>1. trace' = <<Started>> /\ calls = 0
      BY <1>1, <1>3, <2>2 DEF LoopSound, TriesSound
    <3>2. Len(trace') = 1 /\ RetryAt' = {}
      <4>1. Started.type # "retry"
        BY EventTypes
      <4>2. DOMAIN <<Started>> = {1} /\ <<Started>>[1] = Started /\ Len(<<Started>>) = 1
        OBVIOUS
      <4> QED BY <3>1, <4>1, <4>2 DEF RetryAt
    <3>3. Retried' = {0} /\ {} = 2..(0 + 1)
      BY <1>1 DEF Retried
    <3> QED BY <1>1, <2>2, <3>1, <3>2, <3>3 DEF TriesSound
  <2> QED BY <2>1, <2>2
<1> QED BY <1>4, <1>5, <1>6, <1>7, <1>8

LEMMA AttemptSucceedsKeeps == IInv /\ AttemptSucceeds => IInv'
<1> SUFFICES ASSUME IInv, AttemptSucceeds PROVE IInv'
  OBVIOUS
<1> USE DEF IInv
<1>1. /\ pc = "attempt" /\ pc' = "mapping" /\ calls' = calls + 1
      /\ fault' = "none"
      /\ UNCHANGED <<step, ctx, items, item, worst, ends, faults, attempt, cause, trace, view, result>>
  BY DEF AttemptSucceeds, loop
<1>2. attempt \in Nat /\ calls \in Nat
  BY TypeFacts
<1>3. TypeOK'
  BY <1>1, <1>2 DEF TypeOK, Faults
<1>4. TraceSound'
  BY <1>1 DEF TraceSound
<1>5. LoopSound'
  BY <1>1 DEF LoopSound, Taken, Answers
<1>6. CauseSound'
  BY <1>1 DEF CauseSound, Answers
<1>7. TriesSound'
  <2>1. Retried' = Retried /\ RetryAt' = RetryAt
    BY <1>1 DEF Retried, RetryAt
  <2> QED BY <1>1, <1>2, <2>1 DEF TriesSound, RetryHandles
<1> QED BY <1>3, <1>4, <1>5, <1>6, <1>7

LEMMA AttemptFailsKeeps == IInv /\ AttemptFails => IInv'
<1> SUFFICES ASSUME IInv, AttemptFails PROVE IInv'
  OBVIOUS
<1> USE DEF IInv
<1>1. PICK c \in CausesNow :
        /\ cause' = c /\ fault' = c
        /\ IF RetryHandles(c) /\ attempt < step.attempts
           THEN pc' = "sleep" /\ Publish(<<Retry(attempt, c)>>)
           ELSE pc' = "finish" /\ UNCHANGED trace
  BY DEF AttemptFails
<1>2. /\ pc = "attempt" /\ calls' = calls + 1 /\ c \in Causes
      /\ UNCHANGED <<step, ctx, items, item, worst, ends, faults, attempt, view, result>>
  BY DEF AttemptFails, loop, CausesNow, Causes
<1>3. /\ trace \in Seq(EventSet) /\ Len(trace) \in Nat /\ attempt \in Nat /\ calls \in Nat
      /\ attempt > 0 /\ trace # <<>> /\ trace[1] = Started
  BY <1>2, TypeFacts DEF TriesSound, TraceSound
<1>4. LoopSound'
  BY <1>1, <1>2 DEF LoopSound, Taken, Answers
<1>5. CauseSound'
  BY <1>1, <1>2 DEF CauseSound, Answers
<1>6. pc' \in {"sleep", "finish"}
  BY <1>1
<1>7. /\ (step \in Configs /\ ctx \in {"live", "cancelled", "deadline"}
          /\ items \in 0..MaxItems /\ item \in 0..items
          /\ worst \in {"success"} \cup Fatal /\ ends \in Seq(Fatal \cup Mild)
          /\ faults \in Seq(Faults)
          /\ attempt \in 0..step.attempts
          /\ view \in {"none"} \cup Fatal \cup Mild
          /\ result \in {"none"} \cup Fatal \cup Mild)'
      /\ cause' \in {"none"} \cup Causes /\ fault' \in Faults
      /\ calls' \in Nat
  BY <1>1, <1>2, <1>3 DEF TypeOK, Faults
<1>8. CASE pc' = "sleep"
  <2>1. Publish(<<Retry(attempt, c)>>) /\ RetryHandles(c) /\ attempt < step.attempts
    BY <1>1, <1>8
  <2>2. /\ RetryAt' = RetryAt \cup {Len(trace) + 1}
        /\ \A i \in RetryAt : i \in 1..Len(trace) /\ trace'[i] = trace[i]
        /\ trace'[Len(trace) + 1] = Retry(attempt, c)
        /\ Len(trace') = Len(trace) + 1 /\ trace' \in Seq(EventSet)
    BY <1>2, <1>3, <2>1, RetryPublish
  <2>3. TypeOK'
    <3>1. trace' \in Seq([type : {"started", "finished", "retry", "output"},
                          status : {"running"} \cup Fatal \cup Mild, n : Nat])
      BY <2>2 DEF EventSet
    <3> QED BY <1>6, <1>7, <3>1 DEF TypeOK
  <2>4. TraceSound'
    <3>1. trace' # <<>> /\ trace'[1] = Started
      <4>1. 1 \in 1..Len(trace) /\ Len(trace') > 0
        BY <1>3, <2>2
      <4>2. trace'[1] = trace[1]
        BY <1>3, <2>1, <4>1, EventTypes DEF Publish
      <4> QED BY <1>3, <2>2, <4>1, <4>2
    <3> QED BY <1>2, <1>8, <3>1 DEF TraceSound
  <2>5. TriesSound'
    <3>1. CASE step.forEach
      BY <1>2, <1>3, <1>8, <2>1, <3>1 DEF TriesSound
    <3>2. CASE ~step.forEach
      <4>1. RetryAt = 2..attempt /\ Len(trace) = attempt /\ calls = attempt - 1
        BY <1>2, <1>3, <3>2 DEF TriesSound, Retried
      <4>2. RetryAt' = 2..(attempt + 1) /\ Len(trace') = attempt + 1
        BY <1>3, <2>2, <4>1
      <4>3. Retried' = {attempt}
        BY <1>2, <1>8 DEF Retried
      <4>4. Retry(attempt, c).n = attempt /\ Retry(attempt, c).status = c
        BY <1>2, <1>3, EventTypes
      <4>5. \A i \in RetryAt' : trace'[i].n = i - 1 /\ RetryHandles(trace'[i].status)
        <5> SUFFICES ASSUME NEW i \in RetryAt'
                     PROVE  trace'[i].n = i - 1 /\ RetryHandles(trace'[i].status)
          OBVIOUS
        <5>1. CASE i \in RetryAt
          BY <2>2, <3>2, <5>1 DEF TriesSound
        <5>2. CASE i = Len(trace) + 1
          BY <1>3, <2>1, <2>2, <4>1, <4>4, <5>2
        <5> QED BY <2>2, <5>1, <5>2
      <4>6. \A d : RetryHandles(d)' <=> RetryHandles(d)
        BY <1>2 DEF RetryHandles
      <4> QED BY <1>2, <1>3, <1>8, <2>1, <4>1, <4>2, <4>3, <4>5, <4>6 DEF TriesSound, RetryHandles
    <3> QED BY <3>1, <3>2
  <2> QED BY <1>4, <1>5, <2>3, <2>4, <2>5
<1>9. CASE pc' = "finish"
  <2>1. trace' = trace
    BY <1>1, <1>9
  <2>2. TypeOK'
    BY <1>7, <1>9, <2>1 DEF TypeOK
  <2>3. TraceSound'
    BY <1>2, <1>3, <1>9, <2>1 DEF TraceSound
  <2>4. TriesSound'
    <3>1. RetryAt' = RetryAt /\ (attempt - 1) \in Retried' /\ Retried = {attempt - 1}
      BY <1>2, <1>9, <2>1 DEF RetryAt, Retried
    <3> QED BY <1>2, <1>3, <1>9, <2>1, <3>1 DEF TriesSound, RetryHandles
  <2> QED BY <1>4, <1>5, <2>2, <2>3, <2>4
<1> QED BY <1>6, <1>8, <1>9

LEMMA WakesKeeps == IInv /\ Wakes => IInv'
<1> SUFFICES ASSUME IInv, Wakes PROVE IInv'
  OBVIOUS
<1> USE DEF IInv
<1>1. /\ pc = "sleep" /\ pc' = "attempt" /\ attempt' = attempt + 1
      /\ UNCHANGED <<step, ctx, items, item, worst, ends, faults, fault, cause, calls, trace, view, result>>
  BY DEF Wakes, loop
<1>2. attempt \in Nat /\ calls \in Nat /\ step.attempts \in Nat /\ attempt < step.attempts
  BY <1>1, TypeFacts DEF TriesSound
<1>3. TypeOK'
  <2>1. attempt' \in 0..step'.attempts
    BY <1>1, <1>2
  <2> QED BY <1>1, <2>1 DEF TypeOK
<1>4. TraceSound'
  BY <1>1 DEF TraceSound
<1>5. LoopSound'
  BY <1>1 DEF LoopSound, Taken, Answers
<1>6. CauseSound'
  BY <1>1 DEF CauseSound, Answers
<1>7. TriesSound'
  <2>1. Retried = {attempt} /\ Retried' = {attempt} /\ RetryAt' = RetryAt
    BY <1>1, <1>2 DEF Retried, RetryAt
  <2> QED BY <1>1, <1>2, <2>1 DEF TriesSound, RetryHandles
<1> QED BY <1>3, <1>4, <1>5, <1>6, <1>7

LEMMA SleepCancelledKeeps == IInv /\ SleepCancelled => IInv'
<1> SUFFICES ASSUME IInv, SleepCancelled PROVE IInv'
  OBVIOUS
<1> USE DEF IInv
<1>1. /\ pc = "sleep" /\ pc' = "finish" /\ ctx # "live"
      /\ UNCHANGED <<step, ctx, items, item, worst, ends, faults, fault, attempt, cause, calls,
                     trace, view, result>>
  BY DEF SleepCancelled, loop, tries
<1>2. TypeOK'
  BY <1>1 DEF TypeOK
<1>3. TraceSound'
  BY <1>1 DEF TraceSound
<1>4. LoopSound'
  BY <1>1 DEF LoopSound, Taken, Answers
<1>5. CauseSound'
  BY <1>1 DEF CauseSound, Answers
<1>6. TriesSound'
  <2>1. Retried = {attempt} /\ attempt \in Retried' /\ RetryAt' = RetryAt
    BY <1>1 DEF Retried, RetryAt
  <2> QED BY <1>1, <2>1 DEF TriesSound, RetryHandles
<1> QED BY <1>2, <1>3, <1>4, <1>5, <1>6

LEMMA ContextDoneKeeps == IInv /\ ContextDone => IInv'
<1> SUFFICES ASSUME IInv, ContextDone PROVE IInv'
  OBVIOUS
<1> USE DEF IInv
<1>1. /\ ctx = "live" /\ ctx' \in {"deadline", "cancelled"}
      /\ UNCHANGED <<step, pc, items, item, worst, ends, faults, fault, attempt, cause, calls,
                     trace, view, result>>
  BY DEF ContextDone, loop, tries
<1>2. TypeOK'
  BY <1>1 DEF TypeOK
<1>3. TraceSound'
  BY <1>1 DEF TraceSound
<1>4. LoopSound'
  BY <1>1 DEF LoopSound, Taken, Answers
<1>5. CauseSound'
  BY <1>1 DEF CauseSound, Answers
<1>6. TriesSound'
  <2>1. Retried \subseteq Retried' /\ RetryAt' = RetryAt
    BY <1>1 DEF Retried, RetryAt
  <2> QED BY <1>1, <2>1 DEF TriesSound, RetryHandles
<1> QED BY <1>2, <1>3, <1>4, <1>5, <1>6

LEMMA StutterKeeps == IInv /\ UNCHANGED vars => IInv'
<1> SUFFICES ASSUME IInv, UNCHANGED vars PROVE IInv'
  OBVIOUS
<1>1. UNCHANGED <<step, ctx, pc, items, item, worst, ends, faults, fault, attempt, cause, calls,
                  trace, view, result>>
  BY DEF vars, loop, tries
<1>2. TypeOK'
  BY <1>1 DEF IInv, TypeOK
<1>3. TraceSound'
  BY <1>1 DEF IInv, TraceSound
<1>4. LoopSound'
  BY <1>1 DEF IInv, LoopSound, Taken, Answers
<1>5. CauseSound'
  BY <1>1 DEF IInv, CauseSound, Answers
<1>6. TriesSound'
  <2>1. Retried' = Retried /\ RetryAt' = RetryAt
    BY <1>1 DEF Retried, RetryAt
  <2> QED BY <1>1, <2>1 DEF IInv, TriesSound, RetryHandles
<1> QED BY <1>2, <1>3, <1>4, <1>5, <1>6 DEF IInv

-----------------------------------------------------------------------------
(* The loop: the status of the iteration that ended is taken in.           *)
LEMMA WorseFacts ==
  ASSUME TypeOK, LoopSound, pc = "iterated"
  PROVE  /\ items > 0 /\ item \in 1..items /\ Len(ends) = item
         /\ Worse(ends[item]) \in {"success"} \cup Fatal
         /\ Taken(Worse(ends[item]), item + 1)
         /\ Len(faults) = item /\ \A i \in 1..item : Answers(ends[i], faults[i])
<1>1. items \in Nat /\ ends \in Seq(Statuses) /\ Len(ends) \in Nat
  BY TypeFacts
<1>2. /\ items > 0 /\ item \in 1..items /\ Len(ends) = item /\ Len(faults) = item
      /\ Taken(worst, item) /\ \A i \in 1..item : Answers(ends[i], faults[i])
  BY <1>1 DEF LoopSound
<1>3. worst \in {"success"} \cup Fatal /\ "success" \notin Fatal
  BY DEF TypeOK, Fatal
<1>4. /\ item \in 1..item /\ (item + 1) - 1 = item
      /\ \A i \in 1..item : i = item \/ i \in 1..(item - 1)
      /\ \A i \in 1..(item - 1) : i \in 1..item
  BY <1>1, <1>2
<1>5. CASE ends[item] \in Fatal /\ worst \notin Fatal
  <2>1. Worse(ends[item]) = ends[item] /\ worst = "success" /\ ends[item] # "success"
    BY <1>3, <1>5 DEF Worse
  <2>2. \A j \in 1..(item - 1) : ends[j] \notin Fatal
    BY <1>2, <2>1 DEF Taken
  <2>3. Taken(ends[item], item + 1)
    BY <1>4, <1>5, <2>1, <2>2 DEF Taken
  <2> QED BY <1>2, <1>3, <1>5, <2>1, <2>3
<1>6. CASE ~(ends[item] \in Fatal /\ worst \notin Fatal)
  <2>1. Worse(ends[item]) = worst
    BY <1>6 DEF Worse
  <2>2. Taken(worst, item + 1)
    <3>1. CASE worst = "success"
      BY <1>2, <1>3, <1>4, <1>6, <3>1 DEF Taken
    <3>2. CASE worst # "success"
      BY <1>2, <1>4, <3>2 DEF Taken
    <3> QED BY <3>1, <3>2
  <2> QED BY <1>2, <1>3, <2>1, <2>2
<1> QED BY <1>5, <1>6

LEMMA NextItemKeeps == IInv /\ NextItem => IInv'
<1> SUFFICES ASSUME IInv, NextItem PROVE IInv'
  OBVIOUS
<1> USE DEF IInv
<1>1. /\ pc = "iterated" /\ pc' = "prepare" /\ item < items /\ item' = item + 1
      /\ worst' = Worse(ends[item])
      /\ fault' = "none"
      /\ UNCHANGED <<step, ctx, items, ends, faults, attempt, cause, calls, trace, view, result>>
  BY DEF NextItem, tries
<1>2. /\ items \in Nat /\ items > 0 /\ item \in 1..items /\ Len(ends) = item
      /\ worst' \in {"success"} \cup Fatal
      /\ Taken(worst', item + 1)
      /\ Len(faults) = item /\ \A i \in 1..item : Answers(ends[i], faults[i])
      /\ step.forEach
  BY <1>1, WorseFacts, TypeFacts DEF LoopSound
<1>3. TypeOK'
  <2>1. item' \in 0..items'
    BY <1>1, <1>2
  <2> QED BY <1>1, <1>2, <2>1 DEF TypeOK, Faults
<1>4. TraceSound'
  BY <1>1, <1>2 DEF TraceSound
<1>5. LoopSound'
  <2>1. Taken(worst, item)'
    BY <1>1, <1>2 DEF Taken
  <2>2. item + 1 \in 1..items /\ (item + 1) - 1 = item
    BY <1>1, <1>2
  <2> QED BY <1>1, <1>2, <2>1, <2>2 DEF LoopSound, Answers
<1>6. CauseSound'
  BY <1>1 DEF CauseSound, Answers
<1>7. TriesSound'
  BY <1>1, <1>2 DEF TriesSound
<1> QED BY <1>3, <1>4, <1>5, <1>6, <1>7

LEMMA LoopEndsKeeps == IInv /\ LoopEnds => IInv'
<1> SUFFICES ASSUME IInv, LoopEnds PROVE IInv'
  OBVIOUS
<1> USE DEF IInv
<1> DEFINE s == Worse(ends[item])
           ev == <<Finished(s)>>
<1>1. /\ pc = "iterated" /\ pc' = "returned" /\ item = items
      /\ worst' = s /\ Publish(ev) /\ view' = s /\ result' = s
      /\ UNCHANGED <<step, ctx, items, item, ends, faults, fault, attempt, cause, calls>>
  BY DEF LoopEnds, tries
<1>2. /\ items \in Nat /\ items > 0 /\ item \in 1..items /\ Len(ends) = item
      /\ s \in {"success"} \cup Fatal
      /\ Taken(s, item + 1)
      /\ Len(faults) = item /\ \A i \in 1..item : Answers(ends[i], faults[i])
      /\ step.forEach
      /\ trace \in Seq(EventSet) /\ Len(trace) \in Nat
  BY <1>1, WorseFacts, TypeFacts DEF LoopSound
<1>3. s \in Statuses
  BY <1>2 DEF Statuses, Fatal, Mild
<1> HIDE DEF s
<1>4. ev \in Seq(EventSet) /\ Len(ev) = 1 /\ ev[1] = Finished(s)
  BY <1>3, EventTypes
<1> HIDE DEF ev
<1>5. /\ trace' \in Seq(EventSet) /\ Len(trace') = Len(trace) + 1
      /\ \A i \in 1..Len(trace) : trace'[i] = trace[i]
      /\ trace'[Len(trace) + 1] = Finished(s)
  <2>1. /\ trace' \in Seq(EventSet) /\ Len(trace') = Len(trace) + Len(ev)
        /\ \A i \in 1..Len(trace) : trace'[i] = trace[i]
        /\ \A i \in 1..Len(ev) : trace'[Len(trace) + i] = ev[i]
    BY <1>1, <1>2, <1>4, PublishFacts
  <2>2. 1 \in 1..Len(ev)
    BY <1>4
  <2> QED BY <1>4, <2>1, <2>2
<1>6. TypeOK'
  <2>1. trace' \in Seq([type : {"started", "finished", "retry", "output"},
                        status : {"running"} \cup Fatal \cup Mild, n : Nat])
    BY <1>5 DEF EventSet
  <2>2. (step \in Configs /\ ctx \in {"live", "cancelled", "deadline"}
         /\ items \in 0..MaxItems /\ item \in 0..items
         /\ ends \in Seq(Fatal \cup Mild)
         /\ fault \in Faults /\ faults \in Seq(Faults)
         /\ attempt \in 0..step.attempts /\ cause \in {"none"} \cup Causes /\ calls \in Nat)'
    BY <1>1 DEF TypeOK
  <2>3. view' \in {"none"} \cup Fatal \cup Mild /\ result' \in {"none"} \cup Fatal \cup Mild
        /\ worst' \in {"success"} \cup Fatal
    BY <1>1, <1>2, <1>3 DEF Statuses
  <2> QED BY <1>1, <2>1, <2>2, <2>3 DEF TypeOK
<1>7. TraceSound'
  <2>1. trace # <<>> /\ trace[1] = Started
    BY <1>2 DEF TraceSound
  <2>2. Len(trace) > 0 /\ 1 \in 1..Len(trace)
    BY <1>2, <2>1
  <2>3. trace' # <<>> /\ trace'[1] = Started /\ trace'[Len(trace')] = Finished(s)
    BY <1>2, <1>5, <2>1, <2>2
  <2> QED BY <1>1, <1>3, <2>3 DEF TraceSound
<1>8. LoopSound'
  <2>1. Taken(worst, items + 1)'
    BY <1>1, <1>2 DEF Taken
  <2> QED BY <1>1, <1>2, <2>1 DEF LoopSound, Answers
<1>9. CauseSound'
  BY <1>1, <1>2 DEF CauseSound, Answers
<1>10. TriesSound'
  BY <1>1, <1>2 DEF TriesSound
<1> QED BY <1>6, <1>7, <1>8, <1>9, <1>10

-----------------------------------------------------------------------------
LEMMA StepsKeep == IInv /\ [Next]_vars => IInv'
<1> SUFFICES ASSUME IInv, [Next]_vars PROVE IInv'
  OBVIOUS
<1>1. CASE SkipsOrReplays BY <1>1, SkipsOrReplaysKeeps
<1>2. CASE EntersPlain BY <1>2, EntersPlainKeeps
<1>3. CASE LoopIsOver BY <1>3, LoopIsOverKeeps
<1>4. CASE LoopBegins BY <1>4, LoopBeginsKeeps
<1>5. CASE Aborts BY <1>5, AbortsKeeps
<1>6. CASE GateClosed BY <1>6, GateClosedKeeps
<1>7. CASE Begins BY <1>7, BeginsKeeps
<1>8. CASE AttemptSucceeds BY <1>8, AttemptSucceedsKeeps
<1>9. CASE AttemptFails BY <1>9, AttemptFailsKeeps
<1>10. CASE Wakes BY <1>10, WakesKeeps
<1>11. CASE SleepCancelled BY <1>11, SleepCancelledKeeps
<1>12. CASE Fails BY <1>12, FailsKeeps
<1>13. CASE MappingFails BY <1>13, MappingFailsKeeps
<1>14. CASE Succeeds BY <1>14, SucceedsKeeps
<1>15. CASE NextItem BY <1>15, NextItemKeeps
<1>16. CASE LoopEnds BY <1>16, LoopEndsKeeps
<1>17. CASE ContextDone BY <1>17, ContextDoneKeeps
<1>18. CASE UNCHANGED vars BY <1>18, StutterKeeps
<1> QED
  BY <1>1, <1>2, <1>3, <1>4, <1>5, <1>6, <1>7, <1>8, <1>9, <1>10, <1>11, <1>12, <1>13,
     <1>14, <1>15, <1>16, <1>17, <1>18 DEF Next, RunStep

(* The inductive invariant holds in every state of runStep.                *)
THEOREM Invariance == Spec => []IInv
BY InitEstablishes, StepsKeep, PTL DEF Spec

(* Every variable of runStep keeps its type: no attempt beyond those the   *)
(* policy allows, no status outside the six.                               *)
THEOREM TypeCorrect == Spec => []TypeOK
<1>1. IInv => TypeOK
  BY DEF IInv
<1> QED BY <1>1, Invariance, PTL

(* What runStep returns is what it published last and what expressions     *)
(* read (engine.go:317-645).                                               *)
THEOREM ReturnsAgree == Spec => []ReturnAgrees
<1>1. IInv => ReturnAgrees
  BY DEF IInv, TraceSound, ReturnAgrees, Last, Statuses
<1> QED BY <1>1, Invariance, PTL

LEMMA RetriesCounted == IInv => RetriesAddUp
<1> SUFFICES ASSUME IInv, ~step.forEach PROVE
      /\ calls <= step.attempts
      /\ \A i \in RetryAt : trace[i].n = i - 1 /\ RetryHandles(trace[i].status)
      /\ Cardinality(RetryAt) <= calls
      /\ pc = "returned" /\ calls > 0 =>
           calls = Cardinality(RetryAt) + 1 \/ (calls = Cardinality(RetryAt) /\ ctx # "live")
  BY DEF RetriesAddUp
<1>1. /\ attempt \in Nat /\ calls \in Nat /\ step.attempts \in Nat /\ attempt <= step.attempts
  BY TypeFacts DEF IInv, TypeOK
<1>2. PICK r \in Retried : RetryAt = 2..(r + 1)
  BY DEF IInv, TriesSound
<1>3. /\ calls = (IF pc = "attempt" THEN attempt - 1 ELSE attempt)
      /\ pc \in {"attempt", "sleep", "mapping", "finish"} => attempt > 0
      /\ \A i \in RetryAt : trace[i].n = i - 1 /\ RetryHandles(trace[i].status)
  BY DEF IInv, TriesSound
<1>4. /\ r \in Nat /\ r <= calls
      /\ pc = "returned" /\ calls > 0 => calls = r + 1 \/ (calls = r /\ ctx # "live")
  BY <1>1, <1>2, <1>3 DEF Retried
<1>5. Cardinality(RetryAt) = r
  BY <1>2, <1>4, FS_Interval
<1> QED BY <1>1, <1>3, <1>4, <1>5

(* Outside a loop the retry events are numbered without a gap, each for a  *)
(* cause the policy covers, and the action is called once more than it is  *)
(* retried unless a sleep was cut short (engine.go:563-597).               *)
THEOREM RetriesRight == Spec => []RetriesAddUp
BY RetriesCounted, Invariance, PTL

LEMMA FatalExplained == IInv => FatalForAReason
<1> SUFFICES ASSUME IInv, pc = "returned" PROVE
      /\ items = 0 => Answers(result, fault)
      /\ items > 0 =>
           /\ Len(ends) = items /\ Len(faults) = items
           /\ \A i \in 1..items : Answers(ends[i], faults[i])
           /\ result # "success" =>
                \E i \in 1..items : /\ ends[i] = result /\ result \in Fatal
                                    /\ \A j \in 1..(i - 1) : ends[j] \notin Fatal
           /\ result = "success" => \A i \in 1..items : ends[i] \notin Fatal
  BY DEF FatalForAReason
<1>1. items \in Nat /\ LoopSound /\ CauseSound
  BY TypeFacts DEF IInv
<1>2. items = 0 => Answers(result, fault)
  BY <1>1 DEF CauseSound
<1>3. ASSUME items > 0 PROVE
        /\ Len(ends) = items /\ Len(faults) = items
        /\ \A i \in 1..items : Answers(ends[i], faults[i])
        /\ Taken(result, items + 1) /\ (items + 1) - 1 = items
  BY <1>1, <1>3 DEF LoopSound
<1> QED BY <1>2, <1>3 DEF Taken

(* A step is fatal to the run exactly when something fatal happened in it: *)
(* its status answers to its fault, both ways, and that of a loop is the   *)
(* first fatal one of its iterations (engine.go:357-393, 458-473, 601-640).*)
THEOREM FatalReasons == Spec => []FatalForAReason
BY FatalExplained, Invariance, PTL
=============================================================================
