------------------------------- MODULE RunFeed -------------------------------
(***************************************************************************)
(* One run as the HTTP server sees it: the goroutines of the engine publish*)
(* on the bus (internal/events/bus.go), which calls state.Writer and then  *)
(* the server's runRecord (internal/server/runs.go); the record keeps the  *)
(* replay log and feeds the event streams that GET /runs/{id}/events holds *)
(* open (handlers.go:275-356); runManager.start waits for the run's id.    *)
(*                                                                         *)
(* An event is <<p, n>>, the n-th that goroutine p publishes.  Main        *)
(* publishes RunStarted before the steps run and RunFinished after all of  *)
(* them returned, which is what schedule promises (DagScheduler).          *)
(***************************************************************************)
EXTENDS Integers, Sequences, FiniteSets

CONSTANTS
  Main,        \* the goroutine of engine.Run
  Steps,       \* the goroutines of the steps
  Emits,       \* the number of events each step publishes
  Clients,     \* event stream readers
  Attempts,    \* bound on the connections one client makes
  Buffer       \* the capacity of a waiter's channel, 128 in the code

Publishers == {Main} \cup Steps
Started == <<Main, 1>>
Finished == <<Main, 2>>
Quota(p) == IF p = Main THEN 2 ELSE Emits[p]
Events == UNION {{<<p, n>> : n \in 1..Quota(p)} : p \in Publishers}
Waiters == Clients \X (1..Attempts)

(* Mutant: the feed hears of an event before it is on disk.                *)
Subscribers_Swapped == <<"feed", "state">>

(* engine.go:161-171: the order in which the bus calls its subscribers.    *)
Subscribers == <<"state", "feed">>

ASSUME MainAssumption == Main \notin Steps
ASSUME BoundsAssumption ==
  Emits \in [Steps -> Nat] /\ Attempts \in Nat \ {0} /\ Buffer \in Nat \ {0}

VARIABLES
  engine,      \* engine.Run: "starting", "running", "finishing", "returned";
               \* "failed" when it returns before RunStarted
  pub,         \* what each goroutine publishes: event number, subscriber, targets
  disk,        \* the events flushed to state.json
  log,         \* runRecord.events
  closed,      \* runRecord.closed
  waiters,     \* runRecord.waiters
  closing,     \* the waiters markClosed has yet to close
  chan,        \* the channel of each waiter
  shut,        \* the waiters whose channel is closed
  id, err,     \* runManager.start's channels idCh and errCh, and
  start,       \* what it has come to: "waiting", "ok", or the error
               \* "failed" to start, "finished" before RunStarted, "timeout"
  stream,      \* the handler of each connection
  dropped      \* history: the events a full channel lost

record == <<log, closed, waiters, closing>>
starter == <<id, err, start>>
vars == <<engine, pub, disk, record, chan, shut, starter, stream, dropped>>

Idle == [n |-> 0, sub |-> 0, targets |-> {}]
NoStream == [state |-> "none", snap |-> <<>>, seq |-> 0, lastSeen |-> -1, sent |-> <<>>, live |-> <<>>]

Init ==
  /\ engine = "starting"
  /\ pub = [p \in Publishers |-> Idle]
  /\ disk = {}
  /\ log = <<>> /\ closed = FALSE /\ waiters = {} /\ closing = {}
  /\ chan = [w \in Waiters |-> <<>>]
  /\ shut = {}
  /\ id = FALSE /\ err = "none" /\ start = "waiting"
  /\ stream = [w \in Waiters |-> NoStream]
  /\ dropped = [w \in Waiters |-> {}]

-----------------------------------------------------------------------------
(* The engine's goroutines.                                                *)

Free(p) == pub[p].sub = 0
StepsDone == \A s \in Steps : pub[s].n = Emits[s] /\ Free(s)

(* When goroutine p may publish its next event.                            *)
MayPublish(p) ==
  /\ Free(p)
  /\ IF p = Main
     THEN (pub[p].n = 0 /\ engine = "starting") \/ (pub[p].n = 1 /\ StepsDone)
     ELSE pub[Main].n = 1 /\ Free(Main) /\ pub[p].n < Emits[p]

(* Publish: the first subscriber of all is the one that reads the run id.  *)
Publish(p) ==
  /\ MayPublish(p)
  /\ pub' = [pub EXCEPT ![p] = [n |-> @.n + 1, sub |-> 1, targets |-> {}]]
  /\ engine' = IF p # Main THEN engine
               ELSE IF pub[p].n = 0 THEN "running" ELSE "finishing"
  /\ id' = (id \/ (p = Main /\ pub[p].n = 0))
  /\ UNCHANGED <<disk, record, chan, shut, err, start, stream, dropped>>

Event(p) == <<p, pub[p].n>>
Calls(p, name) == ~Free(p) /\ Subscribers[pub[p].sub] = name /\ pub[p].targets = {}
Return(p) == IF pub[p].sub = Len(Subscribers) THEN 0 ELSE pub[p].sub + 1

(* state.Writer.Handle: mutate and flush under its own lock.               *)
HandleState(p) ==
  /\ Calls(p, "state")
  /\ disk' = disk \cup {Event(p)}
  /\ pub' = [pub EXCEPT ![p].sub = Return(p)]
  /\ UNCHANGED <<engine, record, chan, shut, starter, stream, dropped>>

(* Mutant: the waiters are not copied under the lock, and one that         *)
(* subscribes before the sends is served too.                              *)
HandleFeed_LateCopy(p) ==
  /\ Calls(p, "feed")
  /\ log' = Append(log, Event(p))
  /\ pub' = [pub EXCEPT ![p].targets = Waiters, ![p].sub = Return(p)]
  /\ UNCHANGED <<engine, disk, closed, waiters, closing, chan, shut, starter, stream, dropped>>

(* runRecord.handle: append and copy the waiters under the lock; the bus   *)
(* call ends when the last of them has been served.                        *)
HandleFeed(p) ==
  /\ Calls(p, "feed")
  /\ log' = Append(log, Event(p))
  /\ pub' = IF waiters = {} THEN [pub EXCEPT ![p].sub = Return(p)]
            ELSE [pub EXCEPT ![p].targets = waiters]
  /\ UNCHANGED <<engine, disk, closed, waiters, closing, chan, shut, starter, stream, dropped>>

(* Mutant: the full channel is written to.                                 *)
Send_Overfull(p, w) ==
  /\ w \in pub[p].targets
  /\ chan' = [chan EXCEPT ![w] = Append(@, Event(p))]
  /\ pub' = IF pub[p].targets = {w}
            THEN [pub EXCEPT ![p].targets = {}, ![p].sub = Return(p)]
            ELSE [pub EXCEPT ![p].targets = @ \ {w}]
  /\ UNCHANGED <<engine, disk, record, shut, starter, stream, dropped>>

(* One send, outside the lock; a full channel drops the event.             *)
Send(p, w) ==
  /\ w \in pub[p].targets
  /\ IF Len(chan[w]) < Buffer
     THEN chan' = [chan EXCEPT ![w] = Append(@, Event(p))] /\ UNCHANGED dropped
     ELSE dropped' = [dropped EXCEPT ![w] = @ \cup {Event(p)}] /\ UNCHANGED chan
  /\ pub' = IF pub[p].targets = {w}
            THEN [pub EXCEPT ![p].targets = {}, ![p].sub = Return(p)]
            ELSE [pub EXCEPT ![p].targets = @ \ {w}]
  /\ UNCHANGED <<engine, disk, record, shut, starter, stream>>

(* engine.Run returns: an error before RunStarted (inputs, requires:,      *)
(* compile), or the result once RunFinished is out and report.html is      *)
(* written.                                                                *)
EngineReturns ==
  /\ \/ engine = "starting" /\ engine' = "failed" /\ err' = "error"
     \/ engine = "finishing" /\ Free(Main) /\ engine' = "returned" /\ err' = "nil"
  /\ UNCHANGED <<pub, disk, record, chan, shut, id, start, stream, dropped>>

(* Mutant: the streams are closed as RunFinished comes by.                 *)
MarkClosed_OnRunFinished ==
  /\ \E i \in 1..Len(log) : log[i] = Finished
  /\ ~closed
  /\ closed' = TRUE
  /\ closing' = waiters
  /\ waiters' = {}
  /\ UNCHANGED <<engine, pub, disk, log, chan, shut, starter, stream, dropped>>

(* markClosed, up to the unlock.                                           *)
MarkClosed ==
  /\ engine \in {"failed", "returned"}
  /\ ~closed
  /\ closed' = TRUE
  /\ closing' = waiters
  /\ waiters' = {}
  /\ UNCHANGED <<engine, pub, disk, log, chan, shut, starter, stream, dropped>>

CloseWaiter(w) ==
  /\ w \in closing
  /\ closing' = closing \ {w}
  /\ shut' = shut \cup {w}
  /\ UNCHANGED <<engine, pub, disk, log, closed, waiters, chan, starter, stream, dropped>>

-----------------------------------------------------------------------------
(* runManager.start: a select over the id, the error and five seconds.     *)
StartReturns ==
  /\ start = "waiting"
  /\ \/ id /\ start' = "ok"
     \/ err = "error" /\ start' = "failed"
     \/ err = "nil" /\ start' = "finished"
     \/ start' = "timeout"
  /\ UNCHANGED <<engine, pub, disk, record, chan, shut, id, err, stream, dropped>>

-----------------------------------------------------------------------------
(* handleRunEvents.                                                        *)

LastId(w) ==
  LET prior == stream[<<w[1], w[2] - 1>>] IN
  IF w[2] = 1 THEN -1
  ELSE IF prior.sent = <<>> THEN prior.lastSeen ELSE prior.sent[Len(prior.sent)].id

(* Mutant: a record that is closed already takes the waiter all the same.  *)
Subscribe_ClosedUnread(w) ==
  /\ start = "ok" /\ stream[w].state = "none"
  /\ w[2] > 1 => stream[<<w[1], w[2] - 1>>].state = "gone"
  /\ stream' = [stream EXCEPT ![w] = [NoStream EXCEPT !.state = "open", !.snap = log,
                                                      !.lastSeen = LastId(w)]]
  /\ waiters' = waiters \cup {w}
  /\ UNCHANGED <<engine, pub, disk, log, closed, closing, chan, shut, starter, dropped>>

(* The run is found in runManager.runs; the replay log and the waiter are  *)
(* taken under one lock.  A client comes back with the last id it saw.     *)
Subscribe(w) ==
  /\ start = "ok"
  /\ stream[w].state = "none"
  /\ w[2] > 1 => stream[<<w[1], w[2] - 1>>].state = "gone"
  /\ stream' = [stream EXCEPT ![w] = [NoStream EXCEPT !.state = "open", !.snap = log,
                                                      !.lastSeen = LastId(w)]]
  /\ IF closed THEN shut' = shut \cup {w} /\ UNCHANGED waiters
     ELSE waiters' = waiters \cup {w} /\ UNCHANGED shut
  /\ UNCHANGED <<engine, pub, disk, log, closed, closing, chan, starter, dropped>>

(* writeSSE: every event takes a number, one up to lastSeen is not sent.   *)
Written(s, e) ==
  [s EXCEPT !.seq = @ + 1,
            !.sent = IF s.seq <= s.lastSeen THEN @ ELSE Append(@, [id |-> s.seq, event |-> e])]

Replay(w) ==
  /\ stream[w].state = "open"
  /\ stream[w].snap # <<>>
  /\ stream' = [stream EXCEPT ![w] =
                  Written([stream[w] EXCEPT !.snap = Tail(@)], Head(stream[w].snap))]
  /\ UNCHANGED <<engine, pub, disk, record, chan, shut, starter, dropped>>

Live(w) == stream[w].state = "open" /\ stream[w].snap = <<>>

Forward(w) ==
  /\ Live(w)
  /\ chan[w] # <<>>
  /\ stream' = [stream EXCEPT ![w] =
                  Written([stream[w] EXCEPT !.live = Append(@, Head(chan[w]))], Head(chan[w]))]
  /\ chan' = [chan EXCEPT ![w] = Tail(@)]
  /\ UNCHANGED <<engine, pub, disk, record, shut, starter, dropped>>

EndOfStream(w) ==
  /\ Live(w)
  /\ chan[w] = <<>> /\ w \in shut
  /\ stream' = [stream EXCEPT ![w].state = "ended"]
  /\ UNCHANGED <<engine, pub, disk, record, chan, shut, starter, dropped>>

(* The client goes away; the record keeps its waiter until markClosed.     *)
Disconnect(w) ==
  /\ stream[w].state = "open"
  /\ stream' = [stream EXCEPT ![w].state = "gone"]
  /\ UNCHANGED <<engine, pub, disk, record, chan, shut, starter, dropped>>

Handler(w) == Replay(w) \/ Forward(w) \/ EndOfStream(w)

Goroutine(p) ==
  Publish(p) \/ HandleState(p) \/ HandleFeed(p) \/ \E w \in Waiters : Send(p, w)

Closer == EngineReturns \/ MarkClosed \/ \E w \in Waiters : CloseWaiter(w)

Next ==
  \/ \E p \in Publishers : Goroutine(p)
  \/ Closer
  \/ StartReturns
  \/ \E w \in Waiters : Subscribe(w) \/ Handler(w) \/ Disconnect(w)

(* Goroutines are scheduled and a connected client keeps reading.  Clients *)
(* need not connect, nor stay.                                             *)
Fairness ==
  /\ \A p \in Publishers : WF_vars(Goroutine(p))
  /\ WF_vars(Closer)
  /\ WF_vars(StartReturns)
  /\ \A w \in Waiters : WF_vars(Handler(w))

Spec == Init /\ [][Next]_vars /\ Fairness

-----------------------------------------------------------------------------
(* Properties.                                                             *)

TypeOK ==
  /\ engine \in {"starting", "failed", "running", "finishing", "returned"}
  /\ \A p \in Publishers :
       pub[p] \in [n : 0..Quota(p), sub : 0..Len(Subscribers), targets : SUBSET Waiters]
  /\ disk \subseteq Events
  /\ log \in Seq(Events)
  /\ closed \in BOOLEAN
  /\ waiters \subseteq Waiters /\ closing \subseteq Waiters /\ shut \subseteq Waiters
  /\ \A w \in Waiters : chan[w] \in Seq(Events) /\ Len(chan[w]) <= Buffer
  /\ id \in BOOLEAN /\ err \in {"none", "error", "nil"}
  /\ start \in {"waiting", "ok", "failed", "finished", "timeout"}
  /\ \A w \in Waiters :
       /\ stream[w].state \in {"none", "open", "ended", "gone"}
       /\ stream[w].seq \in Nat /\ stream[w].lastSeen \in Int
       /\ stream[w].snap \in Seq(Events) /\ stream[w].live \in Seq(Events)
  /\ dropped \in [Waiters -> SUBSET Events]

SetOf(s) == {s[i] : i \in 1..Len(s)}

(* Every event of the log reaches a connection on exactly one way: in the  *)
(* snapshot it took, over its channel, or it is still on the way there or  *)
(* was dropped by a full channel (runs.go:55-69, 94-107).  What comes over *)
(* the channel comes in the order its step published it.                   *)
Pending(w) == {Event(p) : p \in {q \in Publishers : w \in pub[q].targets}}

(* The log up to the subscription: what is neither live, nor pending, nor  *)
(* dropped.                                                                *)
EachEventOnce ==
  \A w \in Waiters :
    stream[w].state # "none" =>
      LET s == stream[w]
          queue == s.live \o chan[w]
          ways == <<SetOf(queue), Pending(w), dropped[w]>>
          later == SetOf(queue) \cup Pending(w) \cup dropped[w]
          snap == Len(log) - Cardinality(later) IN
      /\ \A i, j \in 1..Len(queue) : queue[i] = queue[j] => i = j
      /\ \A a, b \in 1..3 : a # b => ways[a] \cap ways[b] = {}
      /\ later = {log[i] : i \in (snap + 1)..Len(log)}
      /\ s.seq + Len(s.snap) = snap + Len(s.live)
      /\ \A i, j \in 1..Len(queue) :
           i < j /\ queue[i][1] = queue[j][1] => queue[i][2] < queue[j][2]

(* A client never learns of an event before state.json holds it            *)
(* (engine.go:165-171, runs.go:153-157).                                   *)
SeenIsOnDisk ==
  \A w \in Waiters : \A i \in 1..Len(stream[w].sent) : stream[w].sent[i].event \in disk

(* When a stream ends engine.Run has returned, so that state.json holds    *)
(* the whole run and report.html is written (runs.go:47-54, 71-74).        *)
EndMeansFinished ==
  \A w \in Waiters :
    stream[w].state = "ended" => engine = "returned" /\ disk = Events

(* handle sends outside the lock, to channels markClosed closes; a send on *)
(* a closed channel would panic (runs.go:61-68, 86-88).                    *)
NoSendOnClosed == \A p \in Publishers : pub[p].targets \cap shut = {}

(* A stream that stays connected ends.                                     *)
StreamEnds ==
  \A w \in Waiters : stream[w].state = "open" ~> stream[w].state # "open"
=============================================================================
