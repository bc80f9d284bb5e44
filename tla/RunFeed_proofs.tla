--------------------------- MODULE RunFeed_proofs ---------------------------
(***************************************************************************)
(* Proofs about RunFeed, for every number of steps, events, clients and    *)
(* reconnections, and every capacity of a channel.                         *)
(***************************************************************************)
EXTENDS RunFeed, FunctionTheorems, FiniteSetTheorems, TLAPS

PubType == [n : Nat, sub : 0..2, targets : SUBSET Waiters]
SentType == [id : Nat, event : Events]
StreamType ==
  [state : {"none", "open", "ended", "gone"}, snap : Seq(Events), seq : Nat,
   lastSeen : Int, sent : Seq(SentType), live : Seq(Events)]

(* The types, what TypeOK leaves out included.                             *)
PubTyped ==
  /\ pub \in [Publishers -> PubType]
  /\ \A p \in Publishers : pub[p].n <= Quota(p)
ChanTyped ==
  /\ chan \in [Waiters -> Seq(Events)]
  /\ \A w \in Waiters : Len(chan[w]) <= Buffer
StreamTyped == stream \in [Waiters -> StreamType]
RestTyped ==
  /\ engine \in {"starting", "failed", "running", "finishing", "returned"}
  /\ disk \subseteq Events /\ log \in Seq(Events) /\ closed \in BOOLEAN
  /\ waiters \subseteq Waiters /\ closing \subseteq Waiters /\ shut \subseteq Waiters
  /\ id \in BOOLEAN /\ err \in {"none", "error", "nil"}
  /\ start \in {"waiting", "ok", "failed", "finished", "timeout"}
  /\ dropped \in [Waiters -> SUBSET Events]
Typed == PubTyped /\ ChanTyped /\ StreamTyped /\ RestTyped

(* Only the call of the feed has targets.                                  *)
PubSound ==
  \A p \in Publishers :
    /\ pub[p].sub # 2 => pub[p].targets = {}
    /\ pub[p].n = 0 => pub[p].sub = 0

(* The engine's state tells how far its goroutines are.                    *)
EngineSound ==
  /\ engine \in {"starting", "failed"} => \A p \in Publishers : pub[p].n = 0
  /\ engine = "running" => pub[Main].n = 1
  /\ engine \in {"finishing", "returned"} => pub[Main].n = 2 /\ StepsDone
  /\ engine = "returned" => Free(Main)

(* Nothing is closed before the engine has returned, and a run is found    *)
(* only once it has started.                                               *)
ClosedSound ==
  /\ closed => engine \in {"failed", "returned"}
  /\ closing # {} \/ shut # {} => closed
  /\ id => engine \notin {"starting", "failed"}
  /\ start = "ok" => id
  /\ \A w \in Waiters :
       /\ stream[w].state # "none" => start = "ok"
       /\ stream[w].state = "ended" => closed

(* What was published to state.json is there; what the feed knows, too.    *)
DiskSound ==
  /\ \A p \in Publishers : \A k \in 1..pub[p].n :
       k < pub[p].n \/ pub[p].sub # 1 => <<p, k>> \in disk
  /\ \A i \in 1..Len(log) : log[i] \in disk
  /\ \A w \in Waiters :
       LET s == stream[w] IN
       /\ \A i \in 1..Len(s.snap) : s.snap[i] \in disk
       /\ \A i \in 1..Len(s.sent) : s.sent[i].event \in disk
       /\ \A i \in 1..Len(chan[w]) : chan[w][i] \in disk

(* No event is in the log twice, nor before its goroutine published it.    *)
LogSound ==
  /\ \A i, j \in 1..Len(log) : log[i] = log[j] => i = j
  /\ \A p \in Publishers :
       /\ \A i \in 1..Len(log) : log[i][1] = p => log[i][2] <= pub[p].n
       /\ ~Free(p) /\ pub[p].targets = {} => Event(p) \notin SetOf(log)

(* The record serves the connections made, and no other, until it is       *)
(* closed.                                                                 *)
WaitersSound ==
  \A w \in Waiters :
    /\ stream[w].state = "none" =>
         /\ chan[w] = <<>> /\ dropped[w] = {} /\ w \notin waiters
         /\ \A p \in Publishers : w \notin pub[p].targets
    /\ stream[w].state # "none" /\ ~closed => w \in waiters

(* The ways of the events a connection did not get in its snapshot.        *)
Queue(w) == stream[w].live \o chan[w]
Later(w) == SetOf(Queue(w)) \cup Pending(w) \cup dropped[w]

(* The log at the subscription had k events.                               *)
SubscribedAt(w, k) ==
  /\ Later(w) = {log[i] : i \in (k + 1)..Len(log)}
  /\ stream[w].seq + Len(stream[w].snap) = k + Len(stream[w].live)

Ways(w) ==
  /\ \A i, j \in 1..Len(Queue(w)) : Queue(w)[i] = Queue(w)[j] => i = j
  /\ SetOf(Queue(w)) \cap Pending(w) = {}
  /\ SetOf(Queue(w)) \cap dropped[w] = {}
  /\ Pending(w) \cap dropped[w] = {}
  /\ \E k \in 0..Len(log) : SubscribedAt(w, k)
  /\ \A i, j \in 1..Len(Queue(w)) :
       i < j /\ Queue(w)[i][1] = Queue(w)[j][1] => Queue(w)[i][2] < Queue(w)[j][2]

WaysSound == \A w \in Waiters : stream[w].state # "none" => Ways(w)

IInv ==
  /\ Typed /\ PubSound /\ EngineSound /\ ClosedSound /\ DiskSound
  /\ LogSound /\ WaitersSound /\ WaysSound

-----------------------------------------------------------------------------
(* Sequences.                                                              *)

LEMMA AppendFacts ==
  ASSUME NEW S, NEW q \in Seq(S), NEW e \in S
  PROVE  /\ Append(q, e) \in Seq(S) /\ Len(Append(q, e)) = Len(q) + 1
         /\ \A i \in 1..Len(q) : Append(q, e)[i] = q[i]
         /\ Append(q, e)[Len(q) + 1] = e
         /\ Len(q) \in Nat /\ \A i \in 1..Len(q) : q[i] \in S
OBVIOUS

LEMMA AppendSetOf ==
  ASSUME NEW S, NEW q \in Seq(S), NEW e \in S
  PROVE  SetOf(Append(q, e)) = SetOf(q) \cup {e}
<1>1. /\ Len(Append(q, e)) = Len(q) + 1 /\ Len(q) \in Nat
      /\ \A i \in 1..Len(q) : Append(q, e)[i] = q[i]
      /\ Append(q, e)[Len(q) + 1] = e
  BY AppendFacts
<1>2. 1..(Len(q) + 1) = (1..Len(q)) \cup {Len(q) + 1}
  BY <1>1
<1> DEFINE r == Append(q, e)
<1>3. Len(r) = Len(q) + 1 /\ r[Len(q) + 1] = e /\ \A i \in 1..Len(q) : r[i] = q[i]
  BY <1>1
<1> HIDE DEF r
<1>4. {r[i] : i \in 1..Len(r)} = {q[i] : i \in 1..Len(q)} \cup {e}
  BY <1>1, <1>2, <1>3
<1> QED BY <1>4 DEF SetOf, r

LEMMA HeadTail ==
  ASSUME NEW S, NEW q \in Seq(S), q # <<>>
  PROVE  /\ Head(q) \in S /\ Head(q) = q[1]
         /\ Tail(q) \in Seq(S) /\ Len(Tail(q)) = Len(q) - 1
         /\ Len(q) \in Nat /\ Len(q) > 0
         /\ \A i \in 1..(Len(q) - 1) : Tail(q)[i] = q[i + 1]
OBVIOUS

LEMMA ConcatFacts ==
  ASSUME NEW S, NEW a \in Seq(S), NEW c \in Seq(S)
  PROVE  /\ a \o c \in Seq(S) /\ Len(a \o c) = Len(a) + Len(c)
         /\ Len(a) \in Nat /\ Len(c) \in Nat
         /\ \A i \in 1..Len(a) : (a \o c)[i] = a[i]
         /\ \A i \in 1..Len(c) : (a \o c)[Len(a) + i] = c[i]
<1>1. /\ a \o c \in Seq(S) /\ Len(a \o c) = Len(a) + Len(c)
      /\ Len(a) \in Nat /\ Len(c) \in Nat
  OBVIOUS
<1>2. \A i \in 1..Len(a) : (a \o c)[i] = a[i]
  OBVIOUS
<1>3. ASSUME NEW i \in 1..Len(c) PROVE (a \o c)[Len(a) + i] = c[i]
  OBVIOUS
<1> QED BY <1>1, <1>2, <1>3

LEMMA SameSequence ==
  ASSUME NEW S, NEW a \in Seq(S), NEW c \in Seq(S),
         Len(a) = Len(c), \A i \in 1..Len(a) : a[i] = c[i]
  PROVE  a = c
OBVIOUS

(* Taking the head of the channel into what was forwarded.                 *)
LEMMA ShiftQueue ==
  ASSUME NEW S, NEW a \in Seq(S), NEW c \in Seq(S), c # <<>>
  PROVE  Append(a, Head(c)) \o Tail(c) = a \o c
<1> DEFINE b == Append(a, Head(c))
           t == Tail(c)
           x == b \o t
           y == a \o c
<1>1. /\ Head(c) \in S /\ Head(c) = c[1]
      /\ t \in Seq(S) /\ Len(t) = Len(c) - 1
      /\ Len(c) \in Nat /\ Len(c) > 0
      /\ \A i \in 1..(Len(c) - 1) : t[i] = c[i + 1]
  BY HeadTail
<1>2. /\ b \in Seq(S) /\ Len(b) = Len(a) + 1 /\ Len(a) \in Nat
      /\ \A i \in 1..Len(a) : b[i] = a[i]
      /\ b[Len(a) + 1] = c[1]
  BY <1>1, AppendFacts
<1> HIDE DEF b, t
<1>3. /\ x \in Seq(S) /\ Len(x) = Len(b) + Len(t)
      /\ \A i \in 1..Len(b) : x[i] = b[i]
      /\ \A i \in 1..Len(t) : x[Len(b) + i] = t[i]
  <2>1. b \in Seq(S) /\ t \in Seq(S)
    BY <1>1, <1>2
  <2> QED BY <2>1, ConcatFacts
<1>4. /\ y \in Seq(S) /\ Len(y) = Len(a) + Len(c)
      /\ \A i \in 1..Len(a) : y[i] = a[i]
      /\ \A i \in 1..Len(c) : y[Len(a) + i] = c[i]
  BY ConcatFacts
<1> HIDE DEF x, y
<1>5. ASSUME NEW i \in 1..Len(x) PROVE x[i] = y[i]
  <2>1. CASE i \in 1..Len(a)
    BY <1>1, <1>2, <1>3, <1>4, <2>1
  <2>2. CASE i = Len(a) + 1
    BY <1>1, <1>2, <1>3, <1>4, <2>2
  <2>3. CASE i > Len(a) + 1
    <3> DEFINE j == i - (Len(a) + 1)
    <3>1. j \in 1..Len(t) /\ j \in 1..(Len(c) - 1) /\ j + 1 \in 1..Len(c)
          /\ i = Len(b) + j /\ i = Len(a) + (j + 1)
      BY <1>1, <1>2, <1>3, <2>3
    <3> HIDE DEF j
    <3>2. x[i] = t[j] /\ y[i] = c[j + 1]
      BY <1>3, <1>4, <3>1
    <3> QED BY <1>1, <3>1, <3>2
  <2> QED BY <1>1, <1>2, <1>3, <2>1, <2>2, <2>3
<1>6. Len(x) = Len(y)
  BY <1>1, <1>2, <1>3, <1>4
<1>7. x = y
  BY <1>3, <1>4, <1>5, <1>6, SameSequence
<1> QED BY <1>7 DEF x, y, b, t

LEMMA AppendQueue ==
  ASSUME NEW S, NEW a \in Seq(S), NEW c \in Seq(S), NEW e \in S
  PROVE  a \o Append(c, e) = Append(a \o c, e)
<1> DEFINE d == Append(c, e)
           q == a \o c
           x == a \o d
           y == Append(q, e)
<1>1. /\ d \in Seq(S) /\ Len(d) = Len(c) + 1 /\ Len(c) \in Nat /\ d[Len(c) + 1] = e
      /\ \A i \in 1..Len(c) : d[i] = c[i]
  BY AppendFacts
<1>2. /\ q \in Seq(S) /\ Len(q) = Len(a) + Len(c) /\ Len(a) \in Nat
      /\ \A i \in 1..Len(a) : q[i] = a[i]
      /\ \A i \in 1..Len(c) : q[Len(a) + i] = c[i]
  BY ConcatFacts
<1> HIDE DEF d, q
<1>3. /\ y \in Seq(S) /\ Len(y) = Len(q) + 1 /\ y[Len(q) + 1] = e
      /\ \A i \in 1..Len(q) : y[i] = q[i]
  <2>1. q \in Seq(S)
    BY <1>2
  <2> QED BY <2>1, AppendFacts
<1>4. /\ x \in Seq(S) /\ Len(x) = Len(a) + Len(d)
      /\ \A i \in 1..Len(a) : x[i] = a[i]
      /\ \A i \in 1..Len(d) : x[Len(a) + i] = d[i]
  <2>1. d \in Seq(S)
    BY <1>1
  <2> QED BY <2>1, ConcatFacts
<1> HIDE DEF x, y
<1>5. ASSUME NEW i \in 1..Len(x) PROVE x[i] = y[i]
  <2>1. CASE i \in 1..Len(a)
    BY <1>1, <1>2, <1>3, <1>4, <2>1
  <2>2. CASE i > Len(a) /\ i <= Len(a) + Len(c)
    <3> DEFINE j == i - Len(a)
    <3>1. j \in 1..Len(c) /\ j \in 1..Len(d) /\ i = Len(a) + j /\ i \in 1..Len(q)
      BY <1>1, <1>2, <2>2
    <3> HIDE DEF j
    <3>2. x[i] = d[j] /\ y[i] = q[i] /\ q[i] = c[j] /\ d[j] = c[j]
      BY <1>1, <1>2, <1>3, <1>4, <3>1
    <3> QED BY <3>2
  <2>3. CASE i = Len(a) + Len(c) + 1
    <3>1. Len(c) + 1 \in 1..Len(d) /\ i = Len(a) + (Len(c) + 1) /\ i = Len(q) + 1
      BY <1>1, <1>2, <2>3
    <3>2. x[i] = d[Len(c) + 1]
      BY <1>4, <3>1
    <3> QED BY <1>1, <1>3, <3>1, <3>2
  <2>4. Len(x) = Len(a) + Len(c) + 1
    BY <1>1, <1>2, <1>4
  <2>5. i \in 1..Len(a) \/ (i > Len(a) /\ i <= Len(a) + Len(c)) \/ i = Len(a) + Len(c) + 1
    BY <1>1, <1>2, <2>4
  <2> QED BY <2>1, <2>2, <2>3, <2>5
<1>6. Len(x) = Len(y)
  BY <1>1, <1>2, <1>3, <1>4
<1>7. x = y
  BY <1>3, <1>4, <1>5, <1>6, SameSequence
<1> QED BY <1>7 DEF x, y, d, q

-----------------------------------------------------------------------------
(* Events, calls and the goroutines.                                       *)

LEMMA QuotaFacts ==
  /\ Main \in Publishers /\ Quota(Main) = 2
  /\ \A p \in Publishers : Quota(p) \in Nat /\ (p # Main => p \in Steps /\ Quota(p) = Emits[p])
  /\ \A s \in Steps : s \in Publishers /\ s # Main
BY MainAssumption, BoundsAssumption DEF Publishers, Quota

LEMMA EventsFacts ==
  /\ \A p \in Publishers : \A k \in 1..Quota(p) : <<p, k>> \in Events
  /\ \A e \in Events : \E p \in Publishers : \E k \in 1..Quota(p) : e = <<p, k>>
BY DEF Events

LEMMA EventFacts ==
  ASSUME PubTyped, NEW p \in Publishers
  PROVE  /\ pub[p] \in PubType /\ pub[p].n \in Nat /\ pub[p].n <= Quota(p)
         /\ pub[p].sub \in 0..2 /\ pub[p].targets \subseteq Waiters
         /\ pub[p].n # 0 => Event(p) \in Events
         /\ Event(p)[1] = p /\ Event(p)[2] = pub[p].n
<1>1. pub[p] \in PubType /\ pub[p].n <= Quota(p)
  BY DEF PubTyped
<1>2. pub[p].n \in Nat /\ pub[p].sub \in 0..2 /\ pub[p].targets \subseteq Waiters
  BY <1>1 DEF PubType
<1>3. pub[p].n # 0 => pub[p].n \in 1..Quota(p)
  BY <1>1, <1>2, QuotaFacts
<1> QED BY <1>1, <1>2, <1>3, EventsFacts DEF Event

LEMMA CallFacts ==
  ASSUME PubTyped, PubSound, NEW p \in Publishers
  PROVE  /\ Calls(p, "state") => pub[p].sub = 1 /\ pub[p].targets = {} /\ Return(p) = 2
         /\ Calls(p, "feed") => pub[p].sub = 2 /\ pub[p].targets = {} /\ Return(p) = 0
         /\ pub[p].targets # {} => pub[p].sub = 2 /\ Return(p) = 0
         /\ pub[p].sub # 0 => pub[p].n # 0
<1>1. pub[p].sub \in 0..2
  BY EventFacts
<1>2. Len(Subscribers) = 2 /\ Subscribers[1] = "state" /\ Subscribers[2] = "feed"
  BY DEF Subscribers
<1> QED BY <1>1, <1>2 DEF Calls, Return, Free, PubSound

LEMMA PubUpdate ==
  ASSUME PubTyped, NEW p \in Publishers, NEW e \in PubType, e.n <= Quota(p),
         pub' = [pub EXCEPT ![p] = e]
  PROVE  /\ PubTyped'
         /\ pub'[p] = e /\ \A q \in Publishers : q # p => pub'[q] = pub[q]
<1>1. pub \in [Publishers -> PubType]
  BY DEF PubTyped
<1>2. /\ pub' \in [Publishers -> PubType] /\ pub'[p] = e
      /\ \A q \in Publishers : q # p => pub'[q] = pub[q]
  BY <1>1
<1>3. \A q \in Publishers : pub'[q].n <= Quota(q)
  BY <1>2 DEF PubTyped
<1>4. PubTyped'
  BY <1>2, <1>3 DEF PubTyped, Quota
<1> QED BY <1>2, <1>4

(* Once the engine is back nothing publishes.                              *)
LEMMA BackIsQuiet ==
  ASSUME PubTyped, PubSound, EngineSound, engine \in {"failed", "returned"}, NEW p \in Publishers
  PROVE  Free(p) /\ pub[p].targets = {} /\ ~MayPublish(p)
<1>1. CASE engine = "failed"
  <2>1. pub[p].n = 0 /\ pub[Main].n = 0
    BY <1>1, QuotaFacts DEF EngineSound
  <2> QED BY <1>1, <2>1 DEF PubSound, Free, MayPublish
<1>2. CASE engine = "returned"
  <2>1. pub[Main].n = 2 /\ Free(Main) /\ StepsDone
    BY <1>2 DEF EngineSound
  <2>2. Free(p)
    BY <2>1, QuotaFacts DEF StepsDone
  <2> QED BY <2>1, <2>2 DEF PubSound, Free, MayPublish
<1> QED BY <1>1, <1>2

(* The ways of a connection stay as they are when nothing on them moves.   *)
LEMMA WaysStay ==
  ASSUME NEW w, Ways(w), Queue(w)' = Queue(w), Pending(w)' = Pending(w),
         dropped'[w] = dropped[w], log' = log,
         UNCHANGED <<stream[w].seq, stream[w].snap, stream[w].live>>
  PROVE  Ways(w)'
<1>1. Later(w)' = Later(w)
  BY DEF Later
<1>2. ASSUME NEW k \in 0..Len(log), SubscribedAt(w, k) PROVE SubscribedAt(w, k)'
  BY <1>1, <1>2 DEF SubscribedAt
<1>3. \E k \in 0..Len(log') : SubscribedAt(w, k)'
  BY <1>2 DEF Ways
<1> QED BY <1>3 DEF Ways

-----------------------------------------------------------------------------
LEMMA InitEstablishes == Init => IInv
<1> SUFFICES ASSUME Init PROVE IInv
  OBVIOUS
<1>1. \A p \in Publishers : pub[p] = Idle
  BY DEF Init
<1>2. \A w \in Waiters : stream[w] = NoStream /\ chan[w] = <<>> /\ dropped[w] = {}
  BY DEF Init
<1>3. Typed
  <2>1. PubTyped
    <3>1. Idle \in PubType /\ Idle.n = 0
      BY DEF Idle, PubType
    <3> QED BY <3>1, QuotaFacts DEF Init, PubTyped
  <2>2. ChanTyped
    BY BoundsAssumption DEF Init, ChanTyped
  <2>3. StreamTyped
    <3>1. NoStream \in StreamType
      BY DEF NoStream, StreamType
    <3> QED BY <3>1 DEF Init, StreamTyped
  <2>4. RestTyped
    <3>1. log \in Seq(Events)
      BY DEF Init
    <3>2. dropped \in [Waiters -> SUBSET Events]
      BY DEF Init
    <3>3. disk \subseteq Events /\ waiters \subseteq Waiters /\ closing \subseteq Waiters
          /\ shut \subseteq Waiters
      BY DEF Init
    <3> QED BY <3>1, <3>2, <3>3 DEF Init, RestTyped
  <2> QED BY <2>1, <2>2, <2>3, <2>4 DEF Typed
<1>4. PubSound
  BY <1>1 DEF PubSound, Idle
<1>5. EngineSound
  BY <1>1, QuotaFacts DEF EngineSound, Init, Idle
<1>6. ClosedSound
  BY <1>2 DEF ClosedSound, Init, NoStream
<1>7. DiskSound
  <2>1. \A p \in Publishers : 1..pub[p].n = {}
    BY <1>1 DEF Idle
  <2>2. Len(log) = 0
    BY DEF Init
  <2>3. \A w \in Waiters : Len(stream[w].snap) = 0 /\ Len(stream[w].sent) = 0 /\ Len(chan[w]) = 0
    BY <1>2 DEF NoStream
  <2> QED BY <2>1, <2>2, <2>3 DEF DiskSound
<1>8. LogSound
  BY <1>1 DEF LogSound, Init, Idle, Free
<1>9. WaitersSound
  BY <1>1, <1>2 DEF WaitersSound, Init, Idle, NoStream
<1>10. WaysSound
  BY <1>2 DEF WaysSound, NoStream
<1> QED BY <1>3, <1>4, <1>5, <1>6, <1>7, <1>8, <1>9, <1>10 DEF IInv

-----------------------------------------------------------------------------
(* The goroutines of the engine.                                           *)

LEMMA PublishKeeps ==
  ASSUME IInv, NEW p \in Publishers, Publish(p) PROVE IInv'
<1> USE DEF IInv
<1> DEFINE e == [n |-> pub[p].n + 1, sub |-> 1, targets |-> {}]
<1>1. /\ MayPublish(p) /\ Free(p)
      /\ pub' = [pub EXCEPT ![p] = e]
      /\ engine' = IF p # Main THEN engine
                   ELSE IF pub[p].n = 0 THEN "running" ELSE "finishing"
      /\ id' = (id \/ (p = Main /\ pub[p].n = 0))
      /\ UNCHANGED <<disk, log, closed, waiters, closing, chan, shut, err, start, stream, dropped>>
  BY DEF Publish, MayPublish, record
<1>2. PubTyped /\ ChanTyped /\ StreamTyped /\ RestTyped
  BY DEF Typed
<1>3. pub[p].n \in Nat /\ pub[p].sub = 0 /\ pub[p].targets = {}
  BY <1>1, <1>2, EventFacts DEF Free, PubSound
<1>4. e \in PubType /\ e.n <= Quota(p) /\ e.n = pub[p].n + 1 /\ e.sub = 1 /\ e.targets = {}
  <2>1. pub[p].n + 1 <= Quota(p)
    BY <1>1, <1>2, EventFacts, QuotaFacts DEF MayPublish
  <2> QED BY <1>3, <2>1 DEF PubType
<1> HIDE DEF e
<1>5. PubTyped' /\ pub'[p] = e /\ \A q \in Publishers : q # p => pub'[q] = pub[q]
  BY <1>1, <1>2, <1>4, PubUpdate
<1>6. engine \notin {"failed", "returned"}
  BY <1>1, <1>2, BackIsQuiet
<1>7. Typed'
  <2>1. engine' \in {"starting", "failed", "running", "finishing", "returned"} /\ id' \in BOOLEAN
    BY <1>1, <1>2 DEF RestTyped
  <2> QED BY <1>1, <1>2, <1>5, <2>1 DEF Typed, ChanTyped, StreamTyped, RestTyped
<1>8. PubSound'
  BY <1>3, <1>4, <1>5 DEF PubSound
<1>9. EngineSound'
  <2>1. CASE p # Main
    <3>1. /\ pub[Main].n = 1 /\ engine' = engine /\ pub'[Main] = pub[Main]
      BY <1>1, <1>5, <2>1, QuotaFacts DEF MayPublish
    <3>2. engine = "running"
      BY <1>2, <3>1, QuotaFacts DEF EngineSound, RestTyped
    <3> QED BY <3>1, <3>2 DEF EngineSound
  <2>2. CASE p = Main /\ pub[p].n = 0
    BY <1>1, <1>4, <1>5, <2>2 DEF EngineSound
  <2>3. CASE p = Main /\ pub[p].n # 0
    <3>1. pub[p].n = 1 /\ StepsDone /\ engine' = "finishing" /\ pub'[Main].n = 2
      BY <1>1, <1>4, <1>5, <2>3 DEF MayPublish
    <3>2. StepsDone'
      BY <1>5, <2>3, <3>1, QuotaFacts DEF StepsDone, Free
    <3> QED BY <3>1, <3>2 DEF EngineSound
  <2> QED BY <2>1, <2>2, <2>3
<1>10. ClosedSound'
  <2>1. ~closed
    BY <1>6 DEF ClosedSound
  <2>2. id' => engine' \notin {"starting", "failed"}
    BY <1>1 DEF ClosedSound
  <2> QED BY <1>1, <2>1, <2>2 DEF ClosedSound
<1>11. DiskSound'
  <2>1. ASSUME NEW q \in Publishers, NEW k \in 1..pub'[q].n, k < pub'[q].n \/ pub'[q].sub # 1
        PROVE  <<q, k>> \in disk
    <3>1. CASE q = p
      <4>1. k \in 1..pub[p].n
        BY <1>3, <1>4, <1>5, <2>1, <3>1
      <4> QED BY <1>3, <3>1, <4>1 DEF DiskSound
    <3>2. CASE q # p
      BY <1>5, <2>1, <3>2 DEF DiskSound
    <3> QED BY <3>1, <3>2
  <2> QED BY <1>1, <2>1 DEF DiskSound
<1>12. LogSound'
  <2>1. ASSUME NEW q \in Publishers
        PROVE  /\ \A i \in 1..Len(log) : log[i][1] = q => log[i][2] <= pub'[q].n
               /\ ~Free(q)' /\ pub'[q].targets = {} => Event(q)' \notin SetOf(log)
    <3>1. CASE q = p
      <4>1. ASSUME NEW i \in 1..Len(log), log[i][1] = p PROVE log[i][2] \in Nat /\ log[i][2] <= pub[p].n
        <5>1. log[i] \in Events
          BY <1>2 DEF RestTyped
        <5>2. PICK r \in Publishers : \E k \in 1..Quota(r) : log[i] = <<r, k>>
          BY <5>1, EventsFacts
        <5> QED BY <4>1, <5>2, QuotaFacts DEF LogSound
      <4>2. Event(p)' = <<p, pub[p].n + 1>>
        BY <1>4, <1>5 DEF Event
      <4>3. Event(p)' \notin SetOf(log)
        <5> SUFFICES ASSUME NEW i \in 1..Len(log), log[i] = <<p, pub[p].n + 1>> PROVE FALSE
          BY <4>2 DEF SetOf
        <5>1. log[i][1] = p /\ log[i][2] = pub[p].n + 1
          OBVIOUS
        <5> QED BY <1>3, <4>1, <5>1
      <4> QED BY <1>3, <1>4, <1>5, <3>1, <4>1, <4>3
    <3>2. CASE q # p
      BY <1>5, <3>2 DEF LogSound, Free, Event
    <3> QED BY <3>1, <3>2
  <2> QED BY <1>1, <2>1 DEF LogSound, SetOf
<1>13. \A q \in Publishers : pub'[q].targets = pub[q].targets
  BY <1>3, <1>4, <1>5
<1>14. WaitersSound'
  BY <1>1, <1>13 DEF WaitersSound
<1>15. WaysSound'
  <2> SUFFICES ASSUME NEW w \in Waiters, stream[w].state # "none" PROVE Ways(w)'
    BY <1>1 DEF WaysSound
  <2>1. Pending(w)' = Pending(w)
    <3>1. \A q \in Publishers : w \in pub[q].targets => Event(q)' = Event(q)
      BY <1>3, <1>5 DEF Event
    <3> QED BY <1>13, <3>1 DEF Pending
  <2>2. Queue(w)' = Queue(w)
    BY <1>1 DEF Queue
  <2>3. Ways(w) /\ UNCHANGED <<stream[w].seq, stream[w].snap, stream[w].live>>
        /\ dropped'[w] = dropped[w] /\ log' = log
    BY <1>1 DEF WaysSound
  <2> QED BY <2>1, <2>2, <2>3, WaysStay
<1> QED BY <1>7, <1>8, <1>9, <1>10, <1>11, <1>12, <1>14, <1>15

(* A call that goes on leaves the engine where it is.                      *)
LEMMA EngineStays ==
  ASSUME IInv, NEW p \in Publishers, ~Free(p), engine' = engine,
         \A q \in Publishers : pub'[q].n = pub[q].n,
         \A q \in Publishers : q # p => pub'[q] = pub[q]
  PROVE  EngineSound' /\ engine \notin {"failed", "returned"} /\ ~closed
<1> USE DEF IInv
<1>1. engine \notin {"failed", "returned"}
  BY BackIsQuiet DEF Typed
<1>2. engine = "finishing" => p = Main
  BY QuotaFacts DEF EngineSound, StepsDone, Publishers
<1>3. ASSUME engine = "finishing" PROVE StepsDone'
  <2>1. StepsDone /\ \A s \in Steps : pub'[s] = pub[s]
    BY <1>2, <1>3, QuotaFacts DEF EngineSound
  <2> QED BY <2>1 DEF StepsDone, Free
<1>4. EngineSound'
  BY <1>1, <1>3, QuotaFacts DEF EngineSound
<1> QED BY <1>1, <1>4 DEF ClosedSound

LEMMA HandleStateKeeps ==
  ASSUME IInv, NEW p \in Publishers, HandleState(p) PROVE IInv'
<1> USE DEF IInv
<1> DEFINE e == [pub[p] EXCEPT !.sub = 2]
<1>0. PubTyped /\ ChanTyped /\ StreamTyped /\ RestTyped
  BY DEF Typed
<1>1. /\ pub[p].sub = 1 /\ pub[p].targets = {} /\ pub[p].n # 0 /\ ~Free(p)
      /\ disk' = disk \cup {Event(p)}
      /\ pub' = [pub EXCEPT ![p].sub = 2]
      /\ UNCHANGED <<engine, log, closed, waiters, closing, chan, shut, id, err, start,
                     stream, dropped>>
  <2>1. /\ Calls(p, "state") /\ pub' = [pub EXCEPT ![p].sub = Return(p)]
        /\ disk' = disk \cup {Event(p)}
        /\ UNCHANGED <<engine, log, closed, waiters, closing, chan, shut, id, err, start,
                       stream, dropped>>
    BY DEF HandleState, record, starter
  <2>2. pub[p].sub = 1 /\ pub[p].targets = {} /\ Return(p) = 2 /\ pub[p].n # 0
    BY <1>0, <2>1, CallFacts
  <2> QED BY <2>1, <2>2 DEF Free
<1>2. pub[p] \in PubType /\ pub[p].n \in Nat /\ pub[p].n <= Quota(p) /\ Event(p) \in Events
  BY <1>0, <1>1, EventFacts
<1>3. e \in PubType /\ e.n = pub[p].n /\ e.sub = 2 /\ e.targets = {} /\ pub' = [pub EXCEPT ![p] = e]
  BY <1>1, <1>2 DEF PubType
<1> HIDE DEF e
<1>4. PubTyped' /\ pub'[p] = e /\ \A q \in Publishers : q # p => pub'[q] = pub[q]
  BY <1>0, <1>2, <1>3, PubUpdate
<1>5. Typed'
  <2>1. disk' \subseteq Events
    BY <1>0, <1>1, <1>2 DEF RestTyped
  <2> QED BY <1>0, <1>1, <1>4, <2>1 DEF Typed, ChanTyped, StreamTyped, RestTyped
<1>6. PubSound'
  BY <1>1, <1>3, <1>4 DEF PubSound
<1>7. \A q \in Publishers : pub'[q].n = pub[q].n /\ pub'[q].targets = pub[q].targets
  BY <1>1, <1>3, <1>4
<1>8. EngineSound'
  BY <1>1, <1>4, <1>7, EngineStays
<1>9. ClosedSound'
  BY <1>1 DEF ClosedSound
<1>10. DiskSound'
  <2>1. ASSUME NEW q \in Publishers, NEW k \in 1..pub'[q].n, k < pub'[q].n \/ pub'[q].sub # 1
        PROVE  <<q, k>> \in disk'
    <3>1. CASE q = p
      <4>1. k \in 1..pub[p].n /\ (k = pub[p].n => <<p, k>> = Event(p))
        BY <1>7, <2>1, <3>1 DEF Event
      <4>2. k = pub[p].n \/ k < pub[p].n
        BY <1>2, <4>1
      <4>3. CASE k = pub[p].n
        BY <1>1, <3>1, <4>1, <4>3
      <4>4. CASE k < pub[p].n
        BY <1>1, <3>1, <4>1, <4>4 DEF DiskSound
      <4> QED BY <4>2, <4>3, <4>4
    <3>2. CASE q # p
      BY <1>1, <1>4, <2>1, <3>2 DEF DiskSound
    <3> QED BY <3>1, <3>2
  <2> QED BY <1>1, <2>1 DEF DiskSound
<1>11. \A q \in Publishers : Event(q)' = Event(q)
  BY <1>7 DEF Event
<1>12. LogSound'
  <2>1. \A q \in Publishers : ~Free(q)' => ~Free(q)
    BY <1>1, <1>4 DEF Free
  <2> QED BY <1>1, <1>7, <1>11, <2>1 DEF LogSound, SetOf
<1>13. WaitersSound'
  BY <1>1, <1>7 DEF WaitersSound
<1>14. WaysSound'
  <2> SUFFICES ASSUME NEW w \in Waiters, stream[w].state # "none" PROVE Ways(w)'
    BY <1>1 DEF WaysSound
  <2>1. Pending(w)' = Pending(w)
    BY <1>7, <1>11 DEF Pending
  <2>2. Queue(w)' = Queue(w)
    BY <1>1 DEF Queue
  <2>3. Ways(w) /\ UNCHANGED <<stream[w].seq, stream[w].snap, stream[w].live>>
        /\ dropped'[w] = dropped[w] /\ log' = log
    BY <1>1 DEF WaysSound
  <2> QED BY <2>1, <2>2, <2>3, WaysStay
<1> QED BY <1>5, <1>6, <1>8, <1>9, <1>10, <1>12, <1>13, <1>14

(* The log grows by an event on its way to every connection.               *)
LEMMA LogGrows ==
  ASSUME NEW w, NEW e, log \in Seq(Events), e \in Events, log' = Append(log, e),
         e \notin SetOf(log), Ways(w), Queue(w)' = Queue(w), dropped'[w] = dropped[w],
         Pending(w)' = Pending(w) \cup {e},
         UNCHANGED <<stream[w].seq, stream[w].snap, stream[w].live>>
  PROVE  Ways(w)'
<1>1. /\ Len(log') = Len(log) + 1 /\ Len(log) \in Nat /\ log'[Len(log) + 1] = e
      /\ \A i \in 1..Len(log) : log'[i] = log[i]
  BY AppendFacts
<1>2. PICK k \in 0..Len(log) : SubscribedAt(w, k)
  BY DEF Ways
<1>3. e \notin Later(w)
  BY <1>1, <1>2 DEF SubscribedAt, SetOf
<1>4. Later(w)' = Later(w) \cup {e}
  BY DEF Later
<1>5. SubscribedAt(w, k)'
  <2>1. (k + 1)..Len(log') = ((k + 1)..Len(log)) \cup {Len(log) + 1}
    BY <1>1
  <2>2. \A i \in (k + 1)..Len(log) : log'[i] = log[i]
    BY <1>1
  <2>3. {log'[i] : i \in (k + 1)..Len(log')} = {log[i] : i \in (k + 1)..Len(log)} \cup {e}
    BY <1>1, <2>1, <2>2
  <2> QED BY <1>2, <1>4, <2>3 DEF SubscribedAt
<1>6. k \in 0..Len(log')
  BY <1>1
<1> QED BY <1>3, <1>5, <1>6 DEF Ways, Later

LEMMA HandleFeedKeeps ==
  ASSUME IInv, NEW p \in Publishers, HandleFeed(p) PROVE IInv'
<1> USE DEF IInv
<1> DEFINE e == IF waiters = {} THEN [pub[p] EXCEPT !.sub = 0]
                ELSE [pub[p] EXCEPT !.targets = waiters]
<1>0. PubTyped /\ ChanTyped /\ StreamTyped /\ RestTyped
  BY DEF Typed
<1>1. /\ pub[p].sub = 2 /\ pub[p].targets = {} /\ pub[p].n # 0 /\ ~Free(p)
      /\ log' = Append(log, Event(p))
      /\ pub' = [pub EXCEPT ![p] = e]
      /\ UNCHANGED <<engine, disk, closed, waiters, closing, chan, shut, id, err, start,
                     stream, dropped>>
  <2>1. /\ Calls(p, "feed") /\ log' = Append(log, Event(p))
        /\ pub' = IF waiters = {} THEN [pub EXCEPT ![p].sub = Return(p)]
                  ELSE [pub EXCEPT ![p].targets = waiters]
        /\ UNCHANGED <<engine, disk, closed, waiters, closing, chan, shut, id, err, start,
                       stream, dropped>>
    BY DEF HandleFeed, starter
  <2>2. pub[p].sub = 2 /\ pub[p].targets = {} /\ Return(p) = 0 /\ pub[p].n # 0
    BY <1>0, <2>1, CallFacts
  <2>3. ASSUME waiters = {} PROVE pub' = [pub EXCEPT ![p] = e]
    <3>1. pub' = [pub EXCEPT ![p].sub = 0] /\ e = [pub[p] EXCEPT !.sub = 0]
      BY <2>1, <2>2, <2>3
    <3> HIDE DEF e
    <3> QED BY <3>1
  <2>4. ASSUME waiters # {} PROVE pub' = [pub EXCEPT ![p] = e]
    <3>1. pub' = [pub EXCEPT ![p].targets = waiters] /\ e = [pub[p] EXCEPT !.targets = waiters]
      BY <2>1, <2>4
    <3> HIDE DEF e
    <3> QED BY <3>1
  <2>5. pub' = [pub EXCEPT ![p] = e]
    <3> HIDE DEF e
    <3> QED BY <2>3, <2>4
  <2> HIDE DEF e
  <2>6. log' = Append(log, Event(p))
        /\ UNCHANGED <<engine, disk, closed, waiters, closing, chan, shut, id, err, start,
                       stream, dropped>>
    BY <2>1
  <2>7. ~Free(p)
    BY <2>2 DEF Free
  <2> QED BY ONLY <2>2, <2>5, <2>6, <2>7
<1>2. pub[p] \in PubType /\ pub[p].n \in Nat /\ pub[p].n <= Quota(p) /\ Event(p) \in Events
      /\ Event(p)[1] = p /\ Event(p)[2] = pub[p].n
  BY <1>0, <1>1, EventFacts
<1>3. /\ e \in PubType /\ e.n = pub[p].n /\ e.targets = waiters
      /\ e.sub = (IF waiters = {} THEN 0 ELSE 2)
  <2>1. waiters \subseteq Waiters
    BY <1>0 DEF RestTyped
  <2>2. CASE waiters = {}
    BY <1>1, <1>2, <2>1, <2>2 DEF PubType
  <2>3. CASE waiters # {}
    BY <1>1, <1>2, <2>1, <2>3 DEF PubType
  <2> QED BY <2>2, <2>3
<1> HIDE DEF e
<1>4. PubTyped' /\ pub'[p] = e /\ \A q \in Publishers : q # p => pub'[q] = pub[q]
  BY <1>0, <1>1, <1>2, <1>3, PubUpdate
<1>5. /\ log \in Seq(Events) /\ log' \in Seq(Events) /\ Len(log') = Len(log) + 1 /\ Len(log) \in Nat
      /\ log'[Len(log) + 1] = Event(p) /\ \A i \in 1..Len(log) : log'[i] = log[i]
  BY <1>0, <1>1, <1>2, AppendFacts DEF RestTyped
<1>6. \A q \in Publishers : pub'[q].n = pub[q].n /\ Event(q)' = Event(q)
  BY <1>3, <1>4 DEF Event
<1>7. EngineSound' /\ ~closed
  BY <1>1, <1>4, <1>6, EngineStays
<1>8. Typed'
  BY <1>0, <1>1, <1>4, <1>5 DEF Typed, ChanTyped, StreamTyped, RestTyped
<1>9. PubSound'
  BY <1>1, <1>3, <1>4 DEF PubSound
<1>10. ClosedSound'
  BY <1>1 DEF ClosedSound
<1>11. \A i \in 1..Len(log') : i \in 1..Len(log) \/ i = Len(log) + 1
  BY <1>5
<1>12. DiskSound'
  <2>1. ASSUME NEW q \in Publishers, NEW k \in 1..pub'[q].n
        PROVE  k < pub'[q].n \/ pub'[q].sub # 1 => <<q, k>> \in disk
    BY <1>1, <1>4, <1>6 DEF DiskSound
  <2>2. Event(p) \in disk
    <3>1. pub[p].n \in 1..pub[p].n
      BY <1>1, <1>2
    <3> QED BY <1>1, <3>1 DEF DiskSound, Event
  <2>3. \A i \in 1..Len(log') : log'[i] \in disk
    BY <1>5, <1>11, <2>2 DEF DiskSound
  <2> QED BY <1>1, <2>1, <2>3 DEF DiskSound
<1>13. Event(p) \notin SetOf(log)
  BY <1>1 DEF LogSound
<1>14. LogSound'
  <2>1. \A i \in 1..Len(log) : log[i] # Event(p)
    BY <1>13 DEF SetOf
  <2>2. ASSUME NEW i \in 1..Len(log'), NEW j \in 1..Len(log'), log'[i] = log'[j] PROVE i = j
    <3>1. CASE i \in 1..Len(log) /\ j \in 1..Len(log)
      BY <1>5, <2>2, <3>1 DEF LogSound
    <3>2. CASE i = Len(log) + 1 /\ j \in 1..Len(log)
      BY <1>5, <2>1, <2>2, <3>2
    <3>3. CASE i \in 1..Len(log) /\ j = Len(log) + 1
      BY <1>5, <2>1, <2>2, <3>3
    <3> QED BY <1>11, <3>1, <3>2, <3>3
  <2>3. ASSUME NEW q \in Publishers, NEW i \in 1..Len(log'), log'[i][1] = q
        PROVE  log'[i][2] <= pub'[q].n
    <3>1. CASE i \in 1..Len(log)
      BY <1>5, <1>6, <2>3, <3>1 DEF LogSound
    <3>2. CASE i = Len(log) + 1
      BY <1>2, <1>5, <1>6, <2>3, <3>2
    <3> QED BY <1>11, <3>1, <3>2
  <2>4. ASSUME NEW q \in Publishers, ~Free(q)', pub'[q].targets = {}
        PROVE  Event(q)' \notin SetOf(log')
    <3>1. q # p
      BY <1>3, <1>4, <2>4 DEF Free
    <3>2. Event(q) \notin SetOf(log)
      BY <1>4, <2>4, <3>1 DEF LogSound, Free
    <3>3. Event(q) # Event(p)
      BY <1>0, <3>1, EventFacts
    <3>4. SetOf(log') = SetOf(log) \cup {Event(p)}
      BY <1>1, <1>2, <1>5, AppendSetOf
    <3> QED BY <1>6, <3>2, <3>3, <3>4
  <2> QED BY <2>2, <2>3, <2>4 DEF LogSound, SetOf
<1>15. WaitersSound'
  <2>1. ASSUME NEW w \in Waiters, stream[w].state = "none", NEW q \in Publishers
        PROVE  w \notin pub'[q].targets
    BY <1>3, <1>4, <2>1 DEF WaitersSound
  <2> QED BY <1>1, <2>1 DEF WaitersSound
<1>16. WaysSound'
  <2> SUFFICES ASSUME NEW w \in Waiters, stream[w].state # "none" PROVE Ways(w)'
    BY <1>1 DEF WaysSound
  <2>1. w \in waiters
    BY <1>7 DEF WaitersSound
  <2>2. Pending(w)' = Pending(w) \cup {Event(p)}
    <3>1. w \in pub'[p].targets /\ w \notin pub[p].targets
      BY <1>1, <1>3, <1>4, <2>1
    <3> QED BY <1>4, <1>6, <3>1 DEF Pending
  <2>3. Queue(w)' = Queue(w)
    BY <1>1 DEF Queue
  <2>4. Ways(w) /\ UNCHANGED <<stream[w].seq, stream[w].snap, stream[w].live>>
        /\ dropped'[w] = dropped[w]
    BY <1>1 DEF WaysSound
  <2> QED BY <1>1, <1>2, <1>5, <1>13, <2>2, <2>3, <2>4, LogGrows
<1> QED BY <1>7, <1>8, <1>9, <1>10, <1>12, <1>14, <1>15, <1>16

(* An event arrives on the channel of the connection.                      *)
LEMMA EventArrives ==
  ASSUME NEW w, NEW e \in Events, Ways(w), e \in Pending(w),
         stream[w].live \in Seq(Events), chan[w] \in Seq(Events),
         Pending(w)' = Pending(w) \ {e}, chan'[w] = Append(chan[w], e),
         dropped'[w] = dropped[w], log' = log,
         \A i \in 1..Len(Queue(w)) :
           Queue(w)[i][1] = e[1] => Queue(w)[i][2] < e[2],
         UNCHANGED <<stream[w].seq, stream[w].snap, stream[w].live>>
  PROVE  Ways(w)'
<1> DEFINE q == Queue(w)
           r == Queue(w)'
<1>1. q \in Seq(Events)
  BY ConcatFacts DEF Queue
<1>2. r = Append(q, e)
  <2> DEFINE live == stream[w].live
             c == chan[w]
  <2>1. live \in Seq(Events) /\ c \in Seq(Events)
    OBVIOUS
  <2>2. q = live \o c /\ r = live \o Append(c, e)
    BY DEF Queue
  <2> HIDE DEF live, c, q, r
  <2>3. live \o Append(c, e) = Append(live \o c, e)
    BY <2>1, AppendQueue
  <2> QED BY <2>2, <2>3
<1>3. SetOf(r) = SetOf(q) \cup {e}
  <2> HIDE DEF q, r
  <2> QED BY <1>1, <1>2, AppendSetOf
<1>4. /\ Len(r) = Len(q) + 1 /\ Len(q) \in Nat /\ r[Len(q) + 1] = e
      /\ \A i \in 1..Len(q) : r[i] = q[i]
  <2> HIDE DEF q, r
  <2> QED BY <1>1, <1>2, AppendFacts
<1>5. /\ \A i, j \in 1..Len(q) : q[i] = q[j] => i = j
      /\ SetOf(q) \cap Pending(w) = {}
      /\ SetOf(q) \cap dropped[w] = {}
      /\ Pending(w) \cap dropped[w] = {}
      /\ \A i, j \in 1..Len(q) : i < j /\ q[i][1] = q[j][1] => q[i][2] < q[j][2]
  BY DEF Ways
<1>6. \A i \in 1..Len(q) : q[i][1] = e[1] => q[i][2] < e[2]
  OBVIOUS
<1>7. SetOf(r) = (SetOf(Queue(w)))'
  BY DEF SetOf
<1>8. Later(w)' = Later(w)
  BY <1>3, <1>7 DEF Later
<1>9. \E k \in 0..Len(log') : SubscribedAt(w, k)'
  <2>1. PICK k \in 0..Len(log) : SubscribedAt(w, k)
    BY DEF Ways
  <2>2. SubscribedAt(w, k)'
    BY <1>8, <2>1 DEF SubscribedAt
  <2> QED BY <2>1, <2>2
<1> HIDE DEF q, r
<1>10. \A i \in 1..Len(r) : i \in 1..Len(q) \/ i = Len(q) + 1
  BY <1>4
<1>11. \A i \in 1..Len(q) : q[i] # e
  BY <1>5 DEF SetOf
<1>12. ASSUME NEW i \in 1..Len(r), NEW j \in 1..Len(r), r[i] = r[j] PROVE i = j
  <2>1. CASE i \in 1..Len(q) /\ j \in 1..Len(q)
    BY <1>4, <1>5, <1>12, <2>1
  <2>2. CASE i = Len(q) + 1 /\ j \in 1..Len(q)
    BY <1>4, <1>11, <1>12, <2>2
  <2>3. CASE i \in 1..Len(q) /\ j = Len(q) + 1
    BY <1>4, <1>11, <1>12, <2>3
  <2> QED BY <1>10, <2>1, <2>2, <2>3
<1>13. ASSUME NEW i \in 1..Len(r), NEW j \in 1..Len(r), i < j, r[i][1] = r[j][1]
       PROVE  r[i][2] < r[j][2]
  <2>1. i \in 1..Len(q)
    BY <1>4, <1>10, <1>13
  <2>2. CASE j \in 1..Len(q)
    BY <1>4, <1>5, <1>13, <2>1, <2>2
  <2>3. CASE j = Len(q) + 1
    BY <1>4, <1>6, <1>13, <2>1, <2>3
  <2> QED BY <1>10, <2>2, <2>3
<1>14. /\ SetOf(r) \cap Pending(w)' = {} /\ SetOf(r) \cap dropped'[w] = {}
       /\ Pending(w)' \cap dropped'[w] = {}
  BY <1>3, <1>5
<1> QED BY <1>7, <1>9, <1>12, <1>13, <1>14 DEF Ways, r

(* A full channel loses an event of the connection.                        *)
LEMMA EventLost ==
  ASSUME NEW w, NEW e, Ways(w), e \in Pending(w), Pending(w)' = Pending(w) \ {e},
         Queue(w)' = Queue(w), dropped'[w] = dropped[w] \cup {e}, log' = log,
         UNCHANGED <<stream[w].seq, stream[w].snap, stream[w].live>>
  PROVE  Ways(w)'
<1>1. Later(w)' = Later(w)
  BY DEF Later
<1>2. \E k \in 0..Len(log') : SubscribedAt(w, k)'
  <2>1. PICK k \in 0..Len(log) : SubscribedAt(w, k)
    BY DEF Ways
  <2>2. SubscribedAt(w, k)'
    BY <1>1, <2>1 DEF SubscribedAt
  <2> QED BY <2>1, <2>2
<1>3. SetOf(Queue(w))' = SetOf(Queue(w))
  BY DEF SetOf
<1> QED BY <1>2, <1>3 DEF Ways

(* What waits on the channel of a connection is in the log.                *)
LEMMA QueueInLog ==
  ASSUME NEW w, Ways(w), log \in Seq(Events), NEW i \in 1..Len(Queue(w))
  PROVE  \E j \in 1..Len(log) : Queue(w)[i] = log[j]
<1>1. PICK k \in 0..Len(log) : SubscribedAt(w, k)
  BY DEF Ways
<1>2. Queue(w)[i] \in Later(w)
  BY DEF Later, SetOf
<1>3. PICK j \in (k + 1)..Len(log) : Queue(w)[i] = log[j]
  BY <1>1, <1>2 DEF SubscribedAt
<1> QED BY <1>1, <1>3

LEMMA SendKeeps ==
  ASSUME IInv, NEW p \in Publishers, NEW w \in Waiters, Send(p, w) PROVE IInv'
<1> USE DEF IInv
<1> DEFINE e == IF pub[p].targets = {w} THEN [pub[p] EXCEPT !.targets = {}, !.sub = 0]
                ELSE [pub[p] EXCEPT !.targets = @ \ {w}]
<1>0. PubTyped /\ ChanTyped /\ StreamTyped /\ RestTyped
  BY DEF Typed
<1>1. /\ w \in pub[p].targets /\ pub[p].sub = 2 /\ Return(p) = 0 /\ pub[p].n # 0 /\ ~Free(p)
  <2>1. w \in pub[p].targets
    BY DEF Send
  <2>2. pub[p].sub = 2 /\ Return(p) = 0 /\ pub[p].n # 0
    BY <1>0, <2>1, CallFacts
  <2> QED BY <2>1, <2>2 DEF Free
<1>2. pub' = [pub EXCEPT ![p] = e]
  <2>1. pub' = IF pub[p].targets = {w}
               THEN [pub EXCEPT ![p].targets = {}, ![p].sub = 0]
               ELSE [pub EXCEPT ![p].targets = @ \ {w}]
    BY <1>1 DEF Send
  <2>2. pub \in [Publishers -> PubType]
    BY <1>0 DEF PubTyped
  <2>3. CASE pub[p].targets = {w}
    <3>1. pub' = [pub EXCEPT ![p].targets = {}, ![p].sub = 0]
          /\ e = [pub[p] EXCEPT !.targets = {}, !.sub = 0]
      BY <2>1, <2>3
    <3> HIDE DEF e
    <3> QED BY <2>2, <3>1
  <2>4. CASE pub[p].targets # {w}
    <3>1. pub' = [pub EXCEPT ![p].targets = @ \ {w}]
          /\ e = [pub[p] EXCEPT !.targets = @ \ {w}]
      BY <2>1, <2>4
    <3> HIDE DEF e
    <3> QED BY <2>2, <3>1
  <2> HIDE DEF e
  <2> QED BY <2>3, <2>4
<1>3. UNCHANGED <<engine, disk, log, closed, waiters, closing, shut, id, err, start, stream>>
  BY DEF Send, record, starter
<1>4. \/ /\ Len(chan[w]) < Buffer /\ chan' = [chan EXCEPT ![w] = Append(chan[w], Event(p))]
         /\ dropped' = dropped
      \/ /\ dropped' = [dropped EXCEPT ![w] = dropped[w] \cup {Event(p)}] /\ chan' = chan
  BY DEF Send
<1>5. pub[p] \in PubType /\ pub[p].n \in Nat /\ pub[p].n <= Quota(p) /\ Event(p) \in Events
      /\ Event(p)[1] = p /\ Event(p)[2] = pub[p].n
  BY <1>0, <1>1, EventFacts
<1>6. /\ e \in PubType /\ e.n = pub[p].n /\ e.targets = pub[p].targets \ {w}
      /\ e.sub = 2 \/ (e.sub = 0 /\ e.targets = {})
      /\ e.targets = {} => e.sub = 0
  <2>1. CASE pub[p].targets = {w}
    <3>1. e = [pub[p] EXCEPT !.targets = {}, !.sub = 0]
      BY <2>1
    <3> HIDE DEF e
    <3>2. e \in PubType
      <4>1. e = [n |-> pub[p].n, sub |-> 0, targets |-> {}]
        BY <1>5, <3>1 DEF PubType
      <4>2. {} \in SUBSET Waiters
        OBVIOUS
      <4> QED BY <1>5, <4>1, <4>2 DEF PubType
    <3>3. e.n = pub[p].n /\ e.targets = {} /\ e.sub = 0
      BY <1>5, <3>1 DEF PubType
    <3> QED BY <2>1, <3>2, <3>3
  <2>2. CASE pub[p].targets # {w}
    BY <1>1, <1>5, <2>2 DEF PubType
  <2> QED BY <2>1, <2>2
<1> HIDE DEF e
<1>7. PubTyped' /\ pub'[p] = e /\ \A q \in Publishers : q # p => pub'[q] = pub[q]
  BY <1>0, <1>2, <1>5, <1>6, PubUpdate
<1>8. \A q \in Publishers : pub'[q].n = pub[q].n /\ Event(q)' = Event(q)
  BY <1>6, <1>7 DEF Event
<1>9. EngineSound' /\ ~closed
  BY <1>1, <1>3, <1>7, <1>8, EngineStays
<1>10. chan[w] \in Seq(Events) /\ chan \in [Waiters -> Seq(Events)]
       /\ dropped \in [Waiters -> SUBSET Events]
  BY <1>0 DEF ChanTyped, RestTyped
<1>11. \/ /\ chan' = [chan EXCEPT ![w] = Append(chan[w], Event(p))] /\ dropped' = dropped
          /\ Len(chan'[w]) <= Buffer /\ chan'[w] = Append(chan[w], Event(p))
          /\ chan' \in [Waiters -> Seq(Events)]
          /\ \A i \in 1..Len(chan'[w]) : chan'[w][i] = Event(p)
                \/ (i \in 1..Len(chan[w]) /\ chan'[w][i] = chan[w][i])
       \/ /\ chan' = chan /\ dropped'[w] = dropped[w] \cup {Event(p)}
          /\ dropped' = [dropped EXCEPT ![w] = dropped[w] \cup {Event(p)}]
  <2> DEFINE c == Append(chan[w], Event(p))
  <2>1. /\ c \in Seq(Events) /\ Len(c) = Len(chan[w]) + 1 /\ Len(chan[w]) \in Nat
        /\ c[Len(chan[w]) + 1] = Event(p)
        /\ \A i \in 1..Len(chan[w]) : c[i] = chan[w][i]
    BY <1>5, <1>10, AppendFacts
  <2>2. \A i \in 1..Len(c) : c[i] = Event(p) \/ (i \in 1..Len(chan[w]) /\ c[i] = chan[w][i])
    BY <2>1
  <2>3. CASE Len(chan[w]) < Buffer /\ chan' = [chan EXCEPT ![w] = c] /\ dropped' = dropped
    <3> HIDE DEF c
    <3>1. chan'[w] = c /\ chan' \in [Waiters -> Seq(Events)]
      BY <1>10, <2>1, <2>3
    <3>2. Len(c) <= Buffer
      BY <2>1, <2>3, BoundsAssumption
    <3> QED BY <2>2, <2>3, <3>1, <3>2 DEF c
  <2>4. CASE dropped' = [dropped EXCEPT ![w] = dropped[w] \cup {Event(p)}] /\ chan' = chan
    BY <1>10, <2>4
  <2> QED BY <1>4, <2>3, <2>4
<1>12. \A v \in Waiters : v # w => chan'[v] = chan[v] /\ dropped'[v] = dropped[v]
  BY <1>4, <1>10
<1>13. Typed'
  <2>1. ChanTyped'
    BY <1>0, <1>11, <1>12 DEF ChanTyped
  <2>2. dropped' \in [Waiters -> SUBSET Events]
    BY <1>4, <1>5, <1>10
  <2>3. RestTyped'
    BY <1>0, <1>3, <2>2 DEF RestTyped
  <2> QED BY <1>0, <1>3, <1>7, <2>1, <2>3 DEF Typed, StreamTyped
<1>14. PubSound'
  BY <1>1, <1>6, <1>7 DEF PubSound
<1>15. ClosedSound'
  BY <1>3 DEF ClosedSound
<1>16. Event(p) \in disk
  <2>1. pub[p].n \in 1..pub[p].n
    BY <1>1, <1>5
  <2> QED BY <1>1, <2>1 DEF DiskSound, Event
<1>17. DiskSound'
  <2>1. ASSUME NEW q \in Publishers, NEW k \in 1..pub'[q].n
        PROVE  k < pub'[q].n \/ pub'[q].sub # 1 => <<q, k>> \in disk
    BY <1>1, <1>7, <1>8 DEF DiskSound
  <2>2. \A i \in 1..Len(chan'[w]) : chan'[w][i] \in disk
    <3>1. \A i \in 1..Len(chan[w]) : chan[w][i] \in disk
      BY DEF DiskSound
    <3> QED BY <1>11, <1>16, <3>1
  <2>3. \A v \in Waiters : \A i \in 1..Len(chan'[v]) : chan'[v][i] \in disk
    BY <1>12, <2>2 DEF DiskSound
  <2> QED BY <1>3, <2>1, <2>3 DEF DiskSound
<1>18. LogSound'
  <2>1. ASSUME NEW q \in Publishers, ~Free(q)', pub'[q].targets = {}
        PROVE  Event(q)' \notin SetOf(log)
    <3>1. q # p
      BY <1>6, <1>7, <2>1 DEF Free
    <3> QED BY <1>7, <1>8, <2>1, <3>1 DEF LogSound, Free
  <2> QED BY <1>3, <1>8, <2>1 DEF LogSound, SetOf
<1>19. stream[w].state # "none"
  BY <1>1 DEF WaitersSound
<1>20. WaitersSound'
  <2>1. \A v \in Waiters : \A q \in Publishers : v \in pub'[q].targets => v \in pub[q].targets
    BY <1>6, <1>7
  <2> QED BY <1>3, <1>12, <1>19, <2>1 DEF WaitersSound
<1>21. WaysSound'
  <2> SUFFICES ASSUME NEW v \in Waiters, stream[v].state # "none" PROVE Ways(v)'
    BY <1>3 DEF WaysSound
  <2>1. Ways(v) /\ UNCHANGED <<stream[v].seq, stream[v].snap, stream[v].live>> /\ log' = log
        /\ stream' = stream
    BY <1>3 DEF WaysSound
  <2>2. CASE v # w
    <3>1. Pending(v)' = Pending(v)
      <4>1. \A q \in Publishers : v \in pub'[q].targets <=> v \in pub[q].targets
        BY <1>6, <1>7, <2>2
      <4> QED BY <1>8, <4>1 DEF Pending
    <3>2. Queue(v)' = Queue(v) /\ dropped'[v] = dropped[v]
      BY <1>12, <2>1, <2>2 DEF Queue
    <3> QED BY <2>1, <3>1, <3>2, WaysStay
  <2>3. CASE v = w
    <3>1. Event(p) \in Pending(w) /\ Pending(w)' = Pending(w) \ {Event(p)}
      <4>1. \A q \in Publishers : w \in pub'[q].targets <=> (q # p /\ w \in pub[q].targets)
        BY <1>6, <1>7
      <4>2. \A q \in Publishers : q # p => Event(q) # Event(p)
        BY DEF Event
      <4>3. Pending(w)' = {Event(q) : q \in {r \in Publishers : r # p /\ w \in pub[r].targets}}
        BY <1>8, <4>1 DEF Pending
      <4>4. Event(p) \in Pending(w)
        BY <1>1 DEF Pending
      <4>5. Pending(w) \ {Event(p)}
              = {Event(q) : q \in {r \in Publishers : r # p /\ w \in pub[r].targets}}
        BY <4>2 DEF Pending
      <4> QED BY <4>3, <4>4, <4>5
    <3>2. CASE /\ chan'[w] = Append(chan[w], Event(p)) /\ dropped' = dropped
      <4>1. \A i \in 1..Len(Queue(w)) : Queue(w)[i][1] = p => Queue(w)[i][2] < pub[p].n
        <5> SUFFICES ASSUME NEW i \in 1..Len(Queue(w)), Queue(w)[i][1] = p
                     PROVE  Queue(w)[i][2] < pub[p].n
          OBVIOUS
        <5>1. log \in Seq(Events)
          BY <1>0 DEF RestTyped
        <5>2. PICK j \in 1..Len(log) : Queue(w)[i] = log[j]
          BY <2>1, <2>3, <5>1, QueueInLog
        <5>3. log[j][1] = p /\ log[j][2] <= pub[p].n /\ log[j] \in Events
          BY <5>1, <5>2 DEF LogSound
        <5>4. PICK r \in Publishers : \E k \in 1..Quota(r) : log[j] = <<r, k>>
          BY <5>3, EventsFacts
        <5>5. log[j][2] \in Nat /\ log[j] = <<p, log[j][2]>>
          BY <5>3, <5>4, QuotaFacts
        <5>6. Queue(w)[i] # Event(p)
          BY <2>1, <2>3, <3>1 DEF Ways, SetOf
        <5> QED BY <1>5, <5>2, <5>3, <5>5, <5>6 DEF Event
      <4>2. stream[w].live \in Seq(Events)
        BY <1>0 DEF StreamTyped, StreamType
      <4>3. dropped'[w] = dropped[w]
        BY <3>2
      <4> QED BY <1>5, <1>10, <2>1, <2>3, <3>1, <3>2, <4>1, <4>2, <4>3, EventArrives
    <3>3. CASE chan' = chan /\ dropped'[w] = dropped[w] \cup {Event(p)}
      <4>1. Queue(w)' = Queue(w)
        BY <2>1, <3>3 DEF Queue
      <4> QED BY <2>1, <2>3, <3>1, <3>3, <4>1, EventLost
    <3> QED BY <1>11, <2>3, <3>2, <3>3
  <2> QED BY <2>2, <2>3
<1> QED BY <1>9, <1>13, <1>14, <1>15, <1>17, <1>18, <1>20, <1>21

-----------------------------------------------------------------------------
(* The end of the run and the answer of start.                             *)

LEMMA SameWays ==
  ASSUME WaysSound, UNCHANGED <<pub, log, chan, stream, dropped>>
  PROVE  WaysSound'
<1> SUFFICES ASSUME NEW w \in Waiters, stream[w].state # "none" PROVE Ways(w)'
  BY DEF WaysSound
<1>1. Ways(w) /\ UNCHANGED <<stream[w].seq, stream[w].snap, stream[w].live>>
      /\ dropped'[w] = dropped[w] /\ log' = log
  BY DEF WaysSound
<1>2. Pending(w)' = Pending(w) /\ Queue(w)' = Queue(w)
  BY DEF Pending, Event, Queue
<1> QED BY <1>1, <1>2, WaysStay

(* Steps that touch neither a goroutine, nor the log, nor a connection.    *)
LEMMA FeedStays ==
  ASSUME IInv, UNCHANGED <<pub, disk, log, chan, stream, dropped>>
  PROVE  /\ PubTyped' /\ ChanTyped' /\ StreamTyped'
         /\ PubSound' /\ DiskSound' /\ LogSound' /\ WaysSound'
<1> USE DEF IInv
<1>1. PubTyped' /\ ChanTyped' /\ StreamTyped'
  BY DEF Typed, PubTyped, ChanTyped, StreamTyped
<1>2. PubSound'
  BY DEF PubSound
<1>3. DiskSound'
  BY DEF DiskSound
<1>4. LogSound'
  BY DEF LogSound, Free, Event, SetOf
<1> QED BY <1>1, <1>2, <1>3, <1>4, SameWays

LEMMA EngineReturnsKeeps ==
  ASSUME IInv, EngineReturns PROVE IInv'
<1> USE DEF IInv
<1>1. /\ UNCHANGED <<pub, disk, log, closed, waiters, closing, chan, shut, id, start, stream,
                     dropped>>
      /\ \/ engine = "starting" /\ engine' = "failed" /\ err' = "error"
         \/ engine = "finishing" /\ Free(Main) /\ engine' = "returned" /\ err' = "nil"
  BY DEF EngineReturns, record
<1>2. /\ PubTyped' /\ ChanTyped' /\ StreamTyped'
      /\ PubSound' /\ DiskSound' /\ LogSound' /\ WaysSound'
  BY <1>1, FeedStays
<1>3. RestTyped'
  BY <1>1 DEF Typed, RestTyped
<1>4. EngineSound'
  BY <1>1 DEF EngineSound, StepsDone, Free
<1>5. ~closed /\ (engine = "starting" => ~id)
  BY <1>1 DEF ClosedSound
<1>6. ClosedSound'
  BY <1>1, <1>5 DEF ClosedSound
<1>7. WaitersSound'
  BY <1>1 DEF WaitersSound
<1> QED BY <1>2, <1>3, <1>4, <1>6, <1>7 DEF Typed

LEMMA MarkClosedKeeps ==
  ASSUME IInv, MarkClosed PROVE IInv'
<1> USE DEF IInv
<1>1. /\ UNCHANGED <<engine, pub, disk, log, chan, shut, id, err, start, stream, dropped>>
      /\ engine \in {"failed", "returned"} /\ closed' = TRUE /\ closing' = waiters
      /\ waiters' = {}
  BY DEF MarkClosed, starter
<1>2. /\ PubTyped' /\ ChanTyped' /\ StreamTyped'
      /\ PubSound' /\ DiskSound' /\ LogSound' /\ WaysSound'
  BY <1>1, FeedStays
<1>3. RestTyped'
  BY <1>1 DEF Typed, RestTyped
<1>4. EngineSound'
  BY <1>1 DEF EngineSound, StepsDone, Free
<1>5. ClosedSound'
  BY <1>1 DEF ClosedSound
<1>6. WaitersSound'
  BY <1>1 DEF WaitersSound
<1> QED BY <1>2, <1>3, <1>4, <1>5, <1>6 DEF Typed

LEMMA CloseWaiterKeeps ==
  ASSUME IInv, NEW w \in Waiters, CloseWaiter(w) PROVE IInv'
<1> USE DEF IInv
<1>1. /\ UNCHANGED <<engine, pub, disk, log, closed, waiters, chan, id, err, start, stream,
                     dropped>>
      /\ w \in closing /\ closing' = closing \ {w} /\ shut' = shut \cup {w}
  BY DEF CloseWaiter, starter
<1>2. /\ PubTyped' /\ ChanTyped' /\ StreamTyped'
      /\ PubSound' /\ DiskSound' /\ LogSound' /\ WaysSound'
  BY <1>1, FeedStays
<1>3. RestTyped'
  BY <1>1 DEF Typed, RestTyped
<1>4. EngineSound'
  BY <1>1 DEF EngineSound, StepsDone, Free
<1>5. ClosedSound'
  BY <1>1 DEF ClosedSound
<1>6. WaitersSound'
  BY <1>1 DEF WaitersSound
<1> QED BY <1>2, <1>3, <1>4, <1>5, <1>6 DEF Typed

LEMMA StartReturnsKeeps ==
  ASSUME IInv, StartReturns PROVE IInv'
<1> USE DEF IInv
<1>1. /\ UNCHANGED <<engine, pub, disk, log, closed, waiters, closing, chan, shut, id, err,
                     stream, dropped>>
      /\ start = "waiting" /\ start' \in {"ok", "failed", "finished", "timeout"}
      /\ start' = "ok" => id
  BY DEF StartReturns, record
<1>2. /\ PubTyped' /\ ChanTyped' /\ StreamTyped'
      /\ PubSound' /\ DiskSound' /\ LogSound' /\ WaysSound'
  BY <1>1, FeedStays
<1>3. RestTyped'
  BY <1>1 DEF Typed, RestTyped
<1>4. EngineSound'
  BY <1>1 DEF EngineSound, StepsDone, Free
<1>5. ClosedSound'
  BY <1>1 DEF ClosedSound
<1>6. WaitersSound'
  BY <1>1 DEF WaitersSound
<1> QED BY <1>2, <1>3, <1>4, <1>5, <1>6 DEF Typed

-----------------------------------------------------------------------------
(* The handlers of the streams.                                            *)

LEMMA WrittenFacts ==
  ASSUME NEW s \in StreamType, NEW e \in Events
  PROVE  LET r == Written(s, e) IN
         /\ r \in StreamType
         /\ r.state = s.state /\ r.snap = s.snap /\ r.live = s.live /\ r.seq = s.seq + 1
         /\ \A i \in 1..Len(r.sent) :
              r.sent[i].event = e \/ (i \in 1..Len(s.sent) /\ r.sent[i] = s.sent[i])
<1> DEFINE x == [id |-> s.seq, event |-> e]
           sent == IF s.seq <= s.lastSeen THEN s.sent ELSE Append(s.sent, x)
           r == Written(s, e)
<1>1. /\ s.seq \in Nat /\ s.lastSeen \in Int /\ s.sent \in Seq(SentType)
      /\ s.state \in {"none", "open", "ended", "gone"}
      /\ s.snap \in Seq(Events) /\ s.live \in Seq(Events)
  BY DEF StreamType
<1>2. x \in SentType /\ x.event = e
  BY <1>1 DEF SentType
<1>3. /\ sent \in Seq(SentType)
      /\ \A i \in 1..Len(sent) :
           sent[i].event = e \/ (i \in 1..Len(s.sent) /\ sent[i] = s.sent[i])
  <2>1. CASE s.seq <= s.lastSeen
    BY <1>1, <2>1
  <2>2. CASE ~(s.seq <= s.lastSeen)
    <3> DEFINE a == Append(s.sent, x)
    <3> HIDE DEF x
    <3>1. /\ a \in Seq(SentType) /\ Len(a) = Len(s.sent) + 1 /\ a[Len(s.sent) + 1] = x
          /\ \A i \in 1..Len(s.sent) : a[i] = s.sent[i]
          /\ Len(s.sent) \in Nat
      BY <1>1, <1>2, AppendFacts
    <3>2. sent = a
      BY <2>2
    <3> HIDE DEF a, sent
    <3> QED BY <1>2, <3>1, <3>2
  <2> QED BY <2>1, <2>2
<1>4. r = [s EXCEPT !.seq = s.seq + 1, !.sent = sent]
  BY DEF Written
<1> HIDE DEF sent
<1>5. r = [state |-> s.state, snap |-> s.snap, seq |-> s.seq + 1, lastSeen |-> s.lastSeen,
           sent |-> sent, live |-> s.live]
  BY <1>4 DEF StreamType
<1> HIDE DEF r
<1>6. r \in StreamType
  BY <1>1, <1>3, <1>5 DEF StreamType
<1> QED BY <1>3, <1>5, <1>6 DEF r

(* An event comes one way further.                                         *)
LEMMA WaysMove ==
  ASSUME NEW w, Ways(w), Queue(w)' = Queue(w), Pending(w)' = Pending(w),
         dropped'[w] = dropped[w], log' = log,
         \A k \in 0..Len(log) :
           stream[w].seq + Len(stream[w].snap) = k + Len(stream[w].live) =>
             stream'[w].seq + Len(stream'[w].snap) = k + Len(stream'[w].live)
  PROVE  Ways(w)'
<1>1. Later(w)' = Later(w)
  BY DEF Later
<1>2. ASSUME NEW k \in 0..Len(log), SubscribedAt(w, k) PROVE SubscribedAt(w, k)'
  BY <1>1, <1>2 DEF SubscribedAt
<1>3. \E k \in 0..Len(log') : SubscribedAt(w, k)'
  BY <1>2 DEF Ways
<1> QED BY <1>3 DEF Ways

(* What a handler does concerns its own connection.                        *)
LEMMA ConnectionMoves ==
  ASSUME IInv, NEW w \in Waiters, NEW r \in StreamType,
         stream[w].state = "open", stream' = [stream EXCEPT ![w] = r],
         r.state # "none", r.state = "ended" => closed,
         \A i \in 1..Len(r.snap) : r.snap[i] \in disk,
         \A i \in 1..Len(r.sent) : r.sent[i].event \in disk,
         ChanTyped', \A v \in Waiters : v # w => chan'[v] = chan[v],
         \A i \in 1..Len(chan'[w]) : chan'[w][i] \in disk,
         UNCHANGED <<engine, pub, disk, log, closed, waiters, closing, shut, id, err, start,
                     dropped>>,
         Ways(w)'
  PROVE  IInv'
<1> USE DEF IInv
<1>1. stream \in [Waiters -> StreamType]
  BY DEF Typed, StreamTyped
<1>2. /\ stream' \in [Waiters -> StreamType] /\ stream'[w] = r
      /\ \A v \in Waiters : v # w => stream'[v] = stream[v]
  BY <1>1
<1>3. Typed'
  <2>1. PubTyped' /\ RestTyped'
    BY DEF Typed, PubTyped, RestTyped
  <2> QED BY <1>2, <2>1 DEF Typed, StreamTyped
<1>4. PubSound' /\ EngineSound'
  BY DEF PubSound, EngineSound, StepsDone, Free
<1>5. ClosedSound'
  BY <1>2 DEF ClosedSound
<1>6. DiskSound'
  <2>1. /\ \A p \in Publishers : \A k \in 1..pub'[p].n :
             k < pub'[p].n \/ pub'[p].sub # 1 => <<p, k>> \in disk'
        /\ \A i \in 1..Len(log') : log'[i] \in disk'
    BY DEF DiskSound
  <2>2. ASSUME NEW v \in Waiters
        PROVE  /\ \A i \in 1..Len(stream'[v].snap) : stream'[v].snap[i] \in disk'
               /\ \A i \in 1..Len(stream'[v].sent) : stream'[v].sent[i].event \in disk'
               /\ \A i \in 1..Len(chan'[v]) : chan'[v][i] \in disk'
    <3>1. CASE v = w
      BY <1>2, <3>1
    <3>2. CASE v # w
      BY <1>2, <3>2 DEF DiskSound
    <3> QED BY <3>1, <3>2
  <2> QED BY <2>1, <2>2 DEF DiskSound
<1>7. LogSound'
  BY DEF LogSound, Free, Event, SetOf
<1>8. WaitersSound'
  <2>1. ASSUME NEW v \in Waiters
        PROVE  /\ stream'[v].state = "none" <=> stream[v].state = "none"
               /\ stream[v].state = "none" => chan'[v] = chan[v]
    BY <1>2
  <2> QED BY <2>1 DEF WaitersSound
<1>9. WaysSound'
  <2> SUFFICES ASSUME NEW v \in Waiters, stream'[v].state # "none" PROVE Ways(v)'
    BY DEF WaysSound
  <2>1. CASE v = w
    BY <2>1
  <2>2. CASE v # w
    <3>1. stream'[v] = stream[v] /\ chan'[v] = chan[v]
      BY <1>2, <2>2
    <3>2. /\ Ways(v) /\ UNCHANGED <<stream[v].seq, stream[v].snap, stream[v].live>>
          /\ dropped'[v] = dropped[v] /\ log' = log
      BY <3>1 DEF WaysSound
    <3>3. Queue(v)' = Queue(v) /\ Pending(v)' = Pending(v)
      BY <3>1 DEF Queue, Pending, Event
    <3> QED BY <3>2, <3>3, WaysStay
  <2> QED BY <2>1, <2>2
<1> QED BY <1>3, <1>4, <1>5, <1>6, <1>7, <1>8, <1>9

LEMMA ReplayKeeps ==
  ASSUME IInv, NEW w \in Waiters, Replay(w) PROVE IInv'
<1> USE DEF IInv
<1> DEFINE s == [stream[w] EXCEPT !.snap = Tail(stream[w].snap)]
           e == Head(stream[w].snap)
           r == Written(s, e)
<1>1. /\ stream[w].state = "open" /\ stream[w].snap # <<>>
      /\ stream' = [stream EXCEPT ![w] = r]
      /\ UNCHANGED <<engine, pub, disk, log, closed, waiters, closing, chan, shut, id, err,
                     start, dropped>>
  <2>1. stream[w].state = "open" /\ stream[w].snap # <<>>
    BY DEF Replay
  <2>2. UNCHANGED <<engine, pub, disk, log, closed, waiters, closing, chan, shut, id, err,
                    start, dropped>>
    BY DEF Replay, record, starter
  <2>3. stream' = [stream EXCEPT ![w] =
           Written([stream[w] EXCEPT !.snap = Tail(stream[w].snap)], Head(stream[w].snap))]
    BY DEF Replay
  <2>4. stream' = [stream EXCEPT ![w] = r]
    BY ONLY <2>3
  <2> HIDE DEF r
  <2> QED BY ONLY <2>1, <2>2, <2>4
<1>2. stream[w] \in StreamType /\ stream \in [Waiters -> StreamType]
  BY DEF Typed, StreamTyped
<1>3. stream[w].snap \in Seq(Events) /\ stream[w].seq \in Nat /\ stream[w].live \in Seq(Events)
  BY <1>2 DEF StreamType
<1>4. /\ e \in Events /\ e = stream[w].snap[1]
      /\ Tail(stream[w].snap) \in Seq(Events)
      /\ Len(Tail(stream[w].snap)) = Len(stream[w].snap) - 1
      /\ Len(stream[w].snap) \in Nat /\ Len(stream[w].snap) > 0
      /\ \A i \in 1..(Len(stream[w].snap) - 1) :
           Tail(stream[w].snap)[i] = stream[w].snap[i + 1]
  BY <1>1, <1>3, HeadTail
<1>5. /\ s \in StreamType /\ s.state = "open" /\ s.snap = Tail(stream[w].snap)
      /\ s.live = stream[w].live /\ s.seq = stream[w].seq /\ s.sent = stream[w].sent
  BY <1>1, <1>2, <1>4 DEF StreamType
<1> HIDE DEF s, e
<1>6. /\ r \in StreamType
      /\ r.state = s.state /\ r.snap = s.snap /\ r.live = s.live /\ r.seq = s.seq + 1
      /\ \A i \in 1..Len(r.sent) :
           r.sent[i].event = e \/ (i \in 1..Len(s.sent) /\ r.sent[i] = s.sent[i])
  BY <1>4, <1>5, WrittenFacts
<1> HIDE DEF r
<1>7. /\ \A i \in 1..Len(stream[w].snap) : stream[w].snap[i] \in disk
      /\ \A i \in 1..Len(stream[w].sent) : stream[w].sent[i].event \in disk
      /\ \A i \in 1..Len(chan[w]) : chan[w][i] \in disk
  BY DEF DiskSound
<1>8. e \in disk
  BY <1>4, <1>7
<1>9. \A i \in 1..Len(r.snap) : r.snap[i] \in disk
  BY <1>4, <1>5, <1>6, <1>7
<1>10. \A i \in 1..Len(r.sent) : r.sent[i].event \in disk
  BY <1>5, <1>6, <1>7, <1>8
<1>11. ChanTyped'
  BY <1>1 DEF Typed, ChanTyped
<1>12. stream'[w] = r
  BY <1>1, <1>2
<1>13. Ways(w)'
  <2>1. Ways(w)
    BY <1>1 DEF WaysSound
  <2>2. Queue(w)' = Queue(w) /\ Pending(w)' = Pending(w) /\ dropped'[w] = dropped[w] /\ log' = log
    BY <1>1, <1>5, <1>6, <1>12 DEF Queue, Pending, Event
  <2>3. \A k \in Nat :
           stream[w].seq + Len(stream[w].snap) = k + Len(stream[w].live) =>
             stream'[w].seq + Len(stream'[w].snap) = k + Len(stream'[w].live)
    <3>1. /\ stream'[w].seq = stream[w].seq + 1
          /\ Len(stream'[w].snap) = Len(stream[w].snap) - 1
          /\ stream'[w].live = stream[w].live
      BY <1>4, <1>5, <1>6, <1>12
    <3>2. stream[w].seq \in Nat /\ Len(stream[w].snap) \in Nat /\ Len(stream[w].live) \in Nat
      BY <1>3
    <3> DEFINE a == stream[w].seq
               b == Len(stream[w].snap)
               c == Len(stream[w].live)
               x == stream'[w].seq
               y == Len(stream'[w].snap)
               z == Len(stream'[w].live)
    <3>3. a \in Nat /\ b \in Nat /\ c \in Nat /\ x = a + 1 /\ y = b - 1 /\ z = c
      BY <3>1, <3>2
    <3> HIDE DEF a, b, c, x, y, z
    <3>4. \A k \in Nat : a + b = k + c => x + y = k + z
      BY ONLY <3>3
    <3> QED BY ONLY <3>4 DEF a, b, c, x, y, z
  <2>4. 0..Len(log) \subseteq Nat
    BY DEF Typed, RestTyped
  <2> QED BY <2>1, <2>2, <2>3, <2>4, WaysMove
<1> QED BY <1>1, <1>5, <1>6, <1>7, <1>9, <1>10, <1>11, <1>13, ConnectionMoves

LEMMA ForwardKeeps ==
  ASSUME IInv, NEW w \in Waiters, Forward(w) PROVE IInv'
<1> USE DEF IInv
<1> DEFINE e == Head(chan[w])
           s == [stream[w] EXCEPT !.live = Append(stream[w].live, e)]
           r == Written(s, e)
<1>1. /\ stream[w].state = "open" /\ stream[w].snap = <<>> /\ chan[w] # <<>>
      /\ stream' = [stream EXCEPT ![w] = r] /\ chan' = [chan EXCEPT ![w] = Tail(chan[w])]
      /\ UNCHANGED <<engine, pub, disk, log, closed, waiters, closing, shut, id, err,
                     start, dropped>>
  <2>1. stream[w].state = "open" /\ stream[w].snap = <<>> /\ chan[w] # <<>>
    BY DEF Forward, Live
  <2>2. /\ UNCHANGED <<engine, pub, disk, log, closed, waiters, closing, shut, id, err,
                       start, dropped>>
        /\ chan' = [chan EXCEPT ![w] = Tail(chan[w])]
    BY DEF Forward, record, starter
  <2>3. stream' = [stream EXCEPT ![w] =
           Written([stream[w] EXCEPT !.live = Append(stream[w].live, Head(chan[w]))],
                   Head(chan[w]))]
    BY DEF Forward
  <2>4. stream' = [stream EXCEPT ![w] = r]
    BY ONLY <2>3
  <2> HIDE DEF r
  <2> QED BY ONLY <2>1, <2>2, <2>4
<1>2. /\ stream[w] \in StreamType /\ stream \in [Waiters -> StreamType]
      /\ chan \in [Waiters -> Seq(Events)] /\ chan[w] \in Seq(Events)
      /\ \A v \in Waiters : Len(chan[v]) <= Buffer
  BY DEF Typed, StreamTyped, ChanTyped
<1>3. stream[w].snap \in Seq(Events) /\ stream[w].seq \in Nat /\ stream[w].live \in Seq(Events)
  BY <1>2 DEF StreamType
<1>4. /\ e \in Events /\ e = chan[w][1]
      /\ Tail(chan[w]) \in Seq(Events) /\ Len(Tail(chan[w])) = Len(chan[w]) - 1
      /\ Len(chan[w]) \in Nat /\ Len(chan[w]) > 0
      /\ \A i \in 1..(Len(chan[w]) - 1) : Tail(chan[w])[i] = chan[w][i + 1]
  BY <1>1, <1>2, HeadTail
<1>5. Append(stream[w].live, e) \o Tail(chan[w]) = stream[w].live \o chan[w]
  BY <1>1, <1>2, <1>3, ShiftQueue
<1> HIDE DEF e
<1>6. /\ Append(stream[w].live, e) \in Seq(Events)
      /\ Len(Append(stream[w].live, e)) = Len(stream[w].live) + 1
      /\ Len(stream[w].live) \in Nat
  BY <1>3, <1>4, AppendFacts
<1>7. /\ s \in StreamType /\ s.state = "open" /\ s.snap = stream[w].snap
      /\ s.live = Append(stream[w].live, e) /\ s.seq = stream[w].seq
      /\ s.sent = stream[w].sent
  BY <1>1, <1>2, <1>6 DEF StreamType
<1> HIDE DEF s
<1>8. /\ r \in StreamType
      /\ r.state = s.state /\ r.snap = s.snap /\ r.live = s.live /\ r.seq = s.seq + 1
      /\ \A i \in 1..Len(r.sent) :
           r.sent[i].event = e \/ (i \in 1..Len(s.sent) /\ r.sent[i] = s.sent[i])
  BY <1>4, <1>7, WrittenFacts
<1> HIDE DEF r
<1>9. /\ \A i \in 1..Len(stream[w].snap) : stream[w].snap[i] \in disk
      /\ \A i \in 1..Len(stream[w].sent) : stream[w].sent[i].event \in disk
      /\ \A i \in 1..Len(chan[w]) : chan[w][i] \in disk
  BY DEF DiskSound
<1>10. e \in disk
  BY <1>4, <1>9
<1>11. \A i \in 1..Len(r.snap) : r.snap[i] \in disk
  BY <1>7, <1>8, <1>9
<1>12. \A i \in 1..Len(r.sent) : r.sent[i].event \in disk
  BY <1>7, <1>8, <1>9, <1>10
<1>13. /\ chan' \in [Waiters -> Seq(Events)] /\ chan'[w] = Tail(chan[w])
       /\ \A v \in Waiters : v # w => chan'[v] = chan[v]
  BY <1>1, <1>2, <1>4
<1>14. ChanTyped'
  <2>1. Len(chan'[w]) <= Buffer
    BY <1>2, <1>4, <1>13, BoundsAssumption
  <2> QED BY <1>2, <1>13, <2>1 DEF ChanTyped
<1>15. \A i \in 1..Len(chan'[w]) : chan'[w][i] \in disk
  BY <1>4, <1>9, <1>13
<1>16. stream'[w] = r
  BY <1>1, <1>2
<1>17. Ways(w)'
  <2>1. Ways(w)
    BY <1>1 DEF WaysSound
  <2>2. Queue(w)' = Queue(w)
    BY <1>5, <1>7, <1>8, <1>13, <1>16 DEF Queue
  <2>3. Pending(w)' = Pending(w) /\ dropped'[w] = dropped[w] /\ log' = log
    BY <1>1 DEF Pending, Event
  <2>4. \A k \in Nat :
           stream[w].seq + Len(stream[w].snap) = k + Len(stream[w].live) =>
             stream'[w].seq + Len(stream'[w].snap) = k + Len(stream'[w].live)
    <3>1. Len(stream[w].snap) \in Nat
      BY <1>3
    <3>2. /\ stream'[w].seq = stream[w].seq + 1 /\ stream'[w].snap = stream[w].snap
          /\ Len(stream'[w].live) = Len(stream[w].live) + 1
      BY <1>6, <1>7, <1>8, <1>16
    <3> DEFINE a == stream[w].seq
               b == Len(stream[w].snap)
               c == Len(stream[w].live)
               x == stream'[w].seq
               y == Len(stream'[w].snap)
               z == Len(stream'[w].live)
    <3>4. a \in Nat /\ b \in Nat /\ c \in Nat /\ x = a + 1 /\ y = b /\ z = c + 1
      BY <1>3, <3>1, <3>2
    <3> HIDE DEF a, b, c, x, y, z
    <3>5. \A k \in Nat : a + b = k + c => x + y = k + z
      BY ONLY <3>4
    <3> QED BY ONLY <3>5 DEF a, b, c, x, y, z
  <2>5. 0..Len(log) \subseteq Nat
    BY DEF Typed, RestTyped
  <2> QED BY <2>1, <2>2, <2>3, <2>4, <2>5, WaysMove
<1> QED BY <1>1, <1>7, <1>8, <1>11, <1>12, <1>13, <1>14, <1>15, <1>17, ConnectionMoves

LEMMA EndOfStreamKeeps ==
  ASSUME IInv, NEW w \in Waiters, EndOfStream(w) PROVE IInv'
<1> USE DEF IInv
<1> DEFINE r == [stream[w] EXCEPT !.state = "ended"]
<1>1. /\ stream[w].state = "open" /\ w \in shut /\ stream' = [stream EXCEPT ![w] = r]
      /\ UNCHANGED <<engine, pub, disk, log, closed, waiters, closing, chan, shut, id, err,
                     start, dropped>>
  <2>1. stream[w].state = "open" /\ w \in shut
    BY DEF EndOfStream, Live
  <2>2. UNCHANGED <<engine, pub, disk, log, closed, waiters, closing, chan, shut, id, err,
                    start, dropped>>
    BY DEF EndOfStream, record, starter
  <2>3. stream' = [stream EXCEPT ![w] = [stream[w] EXCEPT !.state = "ended"]]
    BY DEF EndOfStream
  <2> QED BY <2>1, <2>2, <2>3
<1>2. stream[w] \in StreamType /\ stream \in [Waiters -> StreamType]
  BY DEF Typed, StreamTyped
<1>3. /\ r \in StreamType /\ r.state = "ended" /\ r.snap = stream[w].snap
      /\ r.live = stream[w].live /\ r.seq = stream[w].seq /\ r.sent = stream[w].sent
  BY <1>2 DEF StreamType
<1> HIDE DEF r
<1>4. closed
  BY <1>1 DEF ClosedSound
<1>5. /\ \A i \in 1..Len(r.snap) : r.snap[i] \in disk
      /\ \A i \in 1..Len(r.sent) : r.sent[i].event \in disk
      /\ \A i \in 1..Len(chan'[w]) : chan'[w][i] \in disk
  BY <1>1, <1>3 DEF DiskSound
<1>6. ChanTyped'
  BY <1>1 DEF Typed, ChanTyped
<1>7. stream'[w] = r
  BY <1>1, <1>2
<1>8. Ways(w)'
  <2>1. /\ Ways(w) /\ UNCHANGED <<stream[w].seq, stream[w].snap, stream[w].live>>
        /\ dropped'[w] = dropped[w] /\ log' = log
    BY <1>1, <1>3, <1>7 DEF WaysSound
  <2>2. Queue(w)' = Queue(w) /\ Pending(w)' = Pending(w)
    BY <1>1, <2>1 DEF Queue, Pending, Event
  <2> QED BY <2>1, <2>2, WaysStay
<1> QED BY <1>1, <1>3, <1>4, <1>5, <1>6, <1>8, ConnectionMoves

LEMMA DisconnectKeeps ==
  ASSUME IInv, NEW w \in Waiters, Disconnect(w) PROVE IInv'
<1> USE DEF IInv
<1> DEFINE r == [stream[w] EXCEPT !.state = "gone"]
<1>1. /\ stream[w].state = "open" /\ stream' = [stream EXCEPT ![w] = r]
      /\ UNCHANGED <<engine, pub, disk, log, closed, waiters, closing, chan, shut, id, err,
                     start, dropped>>
  <2>1. stream[w].state = "open"
    BY DEF Disconnect
  <2>2. UNCHANGED <<engine, pub, disk, log, closed, waiters, closing, chan, shut, id, err,
                    start, dropped>>
    BY DEF Disconnect, record, starter
  <2>3. stream' = [stream EXCEPT ![w] = [stream[w] EXCEPT !.state = "gone"]]
    BY DEF Disconnect
  <2> QED BY <2>1, <2>2, <2>3
<1>2. stream[w] \in StreamType /\ stream \in [Waiters -> StreamType]
  BY DEF Typed, StreamTyped
<1>3. /\ r \in StreamType /\ r.state = "gone" /\ r.snap = stream[w].snap
      /\ r.live = stream[w].live /\ r.seq = stream[w].seq /\ r.sent = stream[w].sent
  BY <1>2 DEF StreamType
<1> HIDE DEF r
<1>4. /\ \A i \in 1..Len(r.snap) : r.snap[i] \in disk
      /\ \A i \in 1..Len(r.sent) : r.sent[i].event \in disk
      /\ \A i \in 1..Len(chan'[w]) : chan'[w][i] \in disk
  BY <1>1, <1>3 DEF DiskSound
<1>5. ChanTyped'
  BY <1>1 DEF Typed, ChanTyped
<1>6. stream'[w] = r
  BY <1>1, <1>2
<1>7. Ways(w)'
  <2>1. /\ Ways(w) /\ UNCHANGED <<stream[w].seq, stream[w].snap, stream[w].live>>
        /\ dropped'[w] = dropped[w] /\ log' = log
    BY <1>1, <1>3, <1>6 DEF WaysSound
  <2>2. Queue(w)' = Queue(w) /\ Pending(w)' = Pending(w)
    BY <1>1, <2>1 DEF Queue, Pending, Event
  <2> QED BY <2>1, <2>2, WaysStay
<1> QED BY <1>1, <1>3, <1>4, <1>5, <1>7, ConnectionMoves

(* A client that has seen events comes back with a number.                 *)
LEMMA LastIdTyped ==
  ASSUME StreamTyped, NEW w \in Waiters PROVE LastId(w) \in Int
<1>1. CASE w[2] = 1
  BY <1>1 DEF LastId
<1>2. CASE w[2] # 1
  <2> DEFINE v == <<w[1], w[2] - 1>>
             prior == stream[v]
  <2>1. w[1] \in Clients /\ w[2] \in 1..Attempts
    BY DEF Waiters
  <2>2. w[2] - 1 \in 1..Attempts
    BY <1>2, <2>1, BoundsAssumption
  <2>3. v \in Waiters
    BY <2>1, <2>2 DEF Waiters
  <2>4. prior \in StreamType
    BY <2>3 DEF StreamTyped
  <2>5. prior.lastSeen \in Int /\ prior.sent \in Seq(SentType)
    BY <2>4 DEF StreamType
  <2>6. LastId(w) = IF prior.sent = <<>> THEN prior.lastSeen
                    ELSE prior.sent[Len(prior.sent)].id
    BY <1>2 DEF LastId
  <2> HIDE DEF prior
  <2>7. CASE prior.sent # <<>>
    <3>1. prior.sent[Len(prior.sent)] \in SentType
      BY <2>5, <2>7
    <3>2. prior.sent[Len(prior.sent)].id \in Nat
      BY <3>1 DEF SentType
    <3> QED BY <2>6, <2>7, <3>2
  <2> QED BY <2>5, <2>6, <2>7
<1> QED BY <1>1, <1>2

LEMMA SubscribeKeeps ==
  ASSUME IInv, NEW w \in Waiters, Subscribe(w) PROVE IInv'
<1> USE DEF IInv
<1> DEFINE r == [NoStream EXCEPT !.state = "open", !.snap = log, !.lastSeen = LastId(w)]
<1>0. PubTyped /\ ChanTyped /\ StreamTyped /\ RestTyped
  BY DEF Typed
<1>1. /\ start = "ok" /\ stream[w].state = "none" /\ stream' = [stream EXCEPT ![w] = r]
      /\ \/ closed /\ shut' = shut \cup {w} /\ waiters' = waiters
         \/ ~closed /\ waiters' = waiters \cup {w} /\ shut' = shut
      /\ UNCHANGED <<engine, pub, disk, log, closed, closing, chan, id, err, start, dropped>>
  <2>1. start = "ok" /\ stream[w].state = "none" /\ stream' = [stream EXCEPT ![w] = r]
    BY DEF Subscribe
  <2>2. /\ \/ closed /\ shut' = shut \cup {w} /\ waiters' = waiters
           \/ ~closed /\ waiters' = waiters \cup {w} /\ shut' = shut
        /\ UNCHANGED <<engine, pub, disk, log, closed, closing, chan, id, err, start, dropped>>
    BY DEF Subscribe, starter
  <2> HIDE DEF r
  <2> QED BY <2>1, <2>2
<1>2. log \in Seq(Events) /\ Len(log) \in Nat /\ LastId(w) \in Int
  BY <1>0, LastIdTyped DEF RestTyped
<1>3. NoStream \in StreamType /\ NoStream.seq = 0 /\ NoStream.sent = <<>> /\ NoStream.live = <<>>
  BY DEF NoStream, StreamType
<1>4. r \in StreamType
  BY <1>2, <1>3 DEF StreamType
<1>6. r.state = "open" /\ r.snap = log /\ r.seq = 0 /\ r.sent = <<>> /\ r.live = <<>>
  BY <1>3 DEF StreamType
<1> HIDE DEF r
<1>5. /\ stream \in [Waiters -> StreamType] /\ stream' \in [Waiters -> StreamType]
      /\ stream'[w] = r /\ \A v \in Waiters : v # w => stream'[v] = stream[v]
  BY <1>0, <1>1, <1>4 DEF StreamTyped
<1>7. Typed'
  <2>1. RestTyped'
    BY <1>0, <1>1 DEF RestTyped
  <2> QED BY <1>0, <1>1, <1>5, <2>1 DEF Typed, PubTyped, ChanTyped, StreamTyped
<1>8. PubSound' /\ EngineSound'
  BY <1>1 DEF PubSound, EngineSound, StepsDone, Free
<1>9. ClosedSound'
  <2>1. \A v \in Waiters : stream'[v].state = "ended" => closed
    BY <1>5, <1>6 DEF ClosedSound
  <2>2. closing # {} \/ shut' # {} => closed
    BY <1>1 DEF ClosedSound
  <2> QED BY <1>1, <2>1, <2>2 DEF ClosedSound
<1>10. DiskSound'
  <2>1. /\ \A p \in Publishers : \A k \in 1..pub'[p].n :
             k < pub'[p].n \/ pub'[p].sub # 1 => <<p, k>> \in disk'
        /\ \A i \in 1..Len(log') : log'[i] \in disk'
    BY <1>1 DEF DiskSound
  <2>2. ASSUME NEW v \in Waiters
        PROVE  /\ \A i \in 1..Len(stream'[v].snap) : stream'[v].snap[i] \in disk'
               /\ \A i \in 1..Len(stream'[v].sent) : stream'[v].sent[i].event \in disk'
               /\ \A i \in 1..Len(chan'[v]) : chan'[v][i] \in disk'
    <3>1. CASE v = w
      <4>1. \A i \in 1..Len(chan[w]) : chan[w][i] \in disk
        BY DEF DiskSound
      <4>2. \A i \in 1..Len(log) : log[i] \in disk
        BY DEF DiskSound
      <4>3. 1..Len(r.sent) = {}
        BY <1>6
      <4> QED BY <1>1, <1>5, <1>6, <3>1, <4>1, <4>2, <4>3
    <3>2. CASE v # w
      BY <1>1, <1>5, <3>2 DEF DiskSound
    <3> QED BY <3>1, <3>2
  <2> QED BY <2>1, <2>2 DEF DiskSound
<1>11. LogSound'
  BY <1>1 DEF LogSound, Free, Event, SetOf
<1>12. chan[w] = <<>> /\ dropped[w] = {} /\ \A p \in Publishers : w \notin pub[p].targets
  BY <1>1 DEF WaitersSound
<1>13. WaitersSound'
  <2>1. ASSUME NEW v \in Waiters
        PROVE  /\ stream'[v].state = "none" => v # w /\ stream[v].state = "none"
               /\ stream'[v].state # "none" => v = w \/ stream[v].state # "none"
    BY <1>5, <1>6
  <2>2. ASSUME NEW v \in Waiters, stream'[v].state = "none"
        PROVE  /\ chan'[v] = <<>> /\ dropped'[v] = {} /\ v \notin waiters'
               /\ \A p \in Publishers : v \notin pub'[p].targets
    BY <1>1, <2>1, <2>2 DEF WaitersSound
  <2>3. ASSUME NEW v \in Waiters, stream'[v].state # "none", ~closed' PROVE v \in waiters'
    BY <1>1, <2>1, <2>3 DEF WaitersSound
  <2> QED BY <2>2, <2>3 DEF WaitersSound
<1>14. WaysSound'
  <2> SUFFICES ASSUME NEW v \in Waiters, stream'[v].state # "none" PROVE Ways(v)'
    BY DEF WaysSound
  <2>1. CASE v = w
    <3>1. Queue(w)' = <<>>
      BY <1>1, <1>5, <1>6, <1>12 DEF Queue
    <3>2. SetOf(Queue(w))' = {} /\ Pending(w)' = {} /\ dropped'[w] = {}
      BY <1>1, <1>12, <3>1 DEF SetOf, Pending
    <3>3. Later(w)' = {}
      BY <3>2 DEF Later
    <3>4. PICK n \in Nat : n = Len(log)
      BY <1>2
    <3>5. SubscribedAt(w, n)'
      <4>1. {log[i] : i \in (n + 1)..Len(log)} = {}
        BY <3>4
      <4>2. stream'[w].seq + Len(stream'[w].snap) = n + Len(stream'[w].live)
        BY <1>5, <1>6, <3>4
      <4> QED BY <1>1, <3>3, <4>1, <4>2 DEF SubscribedAt
    <3>6. \E k \in 0..Len(log') : SubscribedAt(w, k)'
      <4>1. n \in 0..Len(log')
        BY <1>1, <3>4
      <4> QED BY <3>5, <4>1
    <3>7. 1..Len(Queue(w)') = {}
      BY <3>1
    <3> QED BY <2>1, <3>2, <3>6, <3>7 DEF Ways
  <2>2. CASE v # w
    <3>1. stream'[v] = stream[v] /\ chan'[v] = chan[v]
      BY <1>1, <1>5, <2>2
    <3>2. /\ Ways(v) /\ UNCHANGED <<stream[v].seq, stream[v].snap, stream[v].live>>
          /\ dropped'[v] = dropped[v] /\ log' = log
      BY <1>1, <3>1 DEF WaysSound
    <3>3. Queue(v)' = Queue(v) /\ Pending(v)' = Pending(v)
      BY <1>1, <3>1 DEF Queue, Pending, Event
    <3> QED BY <3>2, <3>3, WaysStay
  <2> QED BY <2>1, <2>2
<1> QED BY <1>7, <1>8, <1>9, <1>10, <1>11, <1>13, <1>14

LEMMA StepsKeep == IInv /\ [Next]_vars => IInv'
<1> SUFFICES ASSUME IInv, [Next]_vars PROVE IInv'
  OBVIOUS
<1>1. ASSUME NEW p \in Publishers, Goroutine(p) PROVE IInv'
  BY <1>1, PublishKeeps, HandleStateKeeps, HandleFeedKeeps, SendKeeps DEF Goroutine
<1>2. CASE Closer
  BY <1>2, EngineReturnsKeeps, MarkClosedKeeps, CloseWaiterKeeps DEF Closer
<1>3. CASE StartReturns
  BY <1>3, StartReturnsKeeps
<1>4. ASSUME NEW w \in Waiters, Subscribe(w) \/ Handler(w) \/ Disconnect(w) PROVE IInv'
  BY <1>4, SubscribeKeeps, ReplayKeeps, ForwardKeeps, EndOfStreamKeeps, DisconnectKeeps
     DEF Handler
<1>5. CASE UNCHANGED vars
  <2>1. /\ UNCHANGED <<engine, pub, disk, log, closed, waiters, closing, chan, shut>>
        /\ UNCHANGED <<id, err, start, stream, dropped>>
    BY <1>5 DEF vars, record, starter
  <2>2. /\ PubTyped' /\ ChanTyped' /\ StreamTyped'
        /\ PubSound' /\ DiskSound' /\ LogSound' /\ WaysSound'
    BY <2>1, FeedStays
  <2>3. RestTyped'
    BY <2>1 DEF IInv, Typed, RestTyped
  <2>4. EngineSound'
    BY <2>1 DEF IInv, EngineSound, StepsDone, Free
  <2>5. ClosedSound'
    BY <2>1 DEF IInv, ClosedSound
  <2>6. WaitersSound'
    BY <2>1 DEF IInv, WaitersSound
  <2> QED BY <2>2, <2>3, <2>4, <2>5, <2>6 DEF IInv, Typed
<1> QED BY <1>1, <1>2, <1>3, <1>4, <1>5 DEF Next

(* The inductive invariant holds throughout.                               *)
THEOREM Invariance == Spec => []IInv
BY InitEstablishes, StepsKeep, PTL DEF Spec

LEMMA TypedIsTypeOK == Typed => TypeOK
<1> SUFFICES ASSUME Typed PROVE TypeOK
  OBVIOUS
<1>1. PubTyped /\ ChanTyped /\ StreamTyped /\ RestTyped
  BY DEF Typed
<1>2. ASSUME NEW p \in Publishers
      PROVE  pub[p] \in [n : 0..Quota(p), sub : 0..Len(Subscribers), targets : SUBSET Waiters]
  <2>1. pub[p] \in PubType /\ pub[p].n <= Quota(p) /\ Quota(p) \in Nat
    BY <1>1, QuotaFacts DEF PubTyped
  <2>2. pub[p].n \in 0..Quota(p) /\ Len(Subscribers) = 2
    BY <2>1 DEF PubType, Subscribers
  <2> QED BY <2>1, <2>2 DEF PubType
<1>3. \A w \in Waiters : chan[w] \in Seq(Events) /\ Len(chan[w]) <= Buffer
  BY <1>1 DEF ChanTyped
<1>4. ASSUME NEW w \in Waiters
      PROVE  /\ stream[w].state \in {"none", "open", "ended", "gone"}
             /\ stream[w].seq \in Nat /\ stream[w].lastSeen \in Int
             /\ stream[w].snap \in Seq(Events) /\ stream[w].live \in Seq(Events)
  BY <1>1 DEF StreamTyped, StreamType
<1> QED BY <1>1, <1>2, <1>3, <1>4 DEF TypeOK, RestTyped

(* Everything keeps its type, and no channel holds more than its capacity  *)
(* (runs.go:61-68, handlers.go:330).                                       *)
THEOREM TypeCorrect == Spec => []TypeOK
<1>1. IInv => TypeOK
  BY TypedIsTypeOK DEF IInv
<1> QED BY <1>1, Invariance, PTL

LEMMA ShutIsQuiet == IInv => NoSendOnClosed
<1> SUFFICES ASSUME IInv, NEW p \in Publishers, NEW w \in pub[p].targets \cap shut PROVE FALSE
  BY DEF NoSendOnClosed
<1>1. engine \in {"failed", "returned"}
  BY DEF IInv, ClosedSound
<1> QED BY <1>1, BackIsQuiet DEF IInv, Typed

(* No goroutine ever sends to a channel that is closed, although it sends  *)
(* outside the lock: markClosed runs after engine.Run has returned, and it *)
(* returns after all of them (runs.go:61-68, 71-88).                       *)
THEOREM NoSend == Spec => []NoSendOnClosed
BY ShutIsQuiet, Invariance, PTL

(* Whatever a client is shown is in state.json (engine.go:161-171,         *)
(* runs.go:153-157).                                                       *)
THEOREM SeenOnDisk == Spec => []SeenIsOnDisk
<1>1. IInv => SeenIsOnDisk
  BY DEF IInv, DiskSound, SeenIsOnDisk
<1> QED BY <1>1, Invariance, PTL

LEMMA EndedIsWritten == IInv => EndMeansFinished
<1> SUFFICES ASSUME IInv, NEW w \in Waiters, stream[w].state = "ended"
             PROVE  engine = "returned" /\ disk = Events
  BY DEF EndMeansFinished
<1>1. engine = "returned"
  BY DEF IInv, ClosedSound
<1>2. pub[Main].n = 2 /\ Free(Main) /\ StepsDone
  BY <1>1 DEF IInv, EngineSound
<1>3. \A p \in Publishers : pub[p].n = Quota(p) /\ pub[p].sub = 0
  BY <1>2, QuotaFacts DEF StepsDone, Free
<1>4. ASSUME NEW e \in Events PROVE e \in disk
  <2>1. PICK p \in Publishers : \E k \in 1..Quota(p) : e = <<p, k>>
    BY EventsFacts
  <2> QED BY <1>3, <2>1 DEF IInv, DiskSound
<1> QED BY <1>1, <1>4 DEF IInv, Typed, RestTyped

(* The end of a stream means that engine.Run is back and that state.json   *)
(* holds the whole run (runs.go:47-54, 71-74).                             *)
THEOREM EndOfRun == Spec => []EndMeansFinished
BY EndedIsWritten, Invariance, PTL

LEMMA SuffixCardinality ==
  ASSUME NEW S, NEW q \in Seq(S), \A i, j \in 1..Len(q) : q[i] = q[j] => i = j,
         NEW k \in 0..Len(q)
  PROVE  Cardinality({q[i] : i \in (k + 1)..Len(q)}) = Len(q) - k
<1> DEFINE D == (k + 1)..Len(q)
           T == {q[i] : i \in D}
           f == [i \in D |-> q[i]]
<1>1. Len(q) \in Nat /\ k \in Nat /\ k <= Len(q) /\ D \subseteq 1..Len(q)
  OBVIOUS
<1>2. IsFiniteSet(D) /\ Cardinality(D) = Len(q) - k
  <2>1. PICK a \in Int, b \in Int : a = k + 1 /\ b = Len(q)
    BY <1>1
  <2>2. IsFiniteSet(a..b) /\ Cardinality(a..b) = IF a > b THEN 0 ELSE b - a + 1
    BY FS_Interval
  <2>3. a..b = D /\ (IF a > b THEN 0 ELSE b - a + 1) = Len(q) - k
    BY <1>1, <2>1
  <2> QED BY <2>2, <2>3
<1> HIDE DEF D
<1>3. f \in [D -> T] /\ \A i, j \in D : f[i] = f[j] => i = j
  BY <1>1
<1>4. \A t \in T : \E i \in D : f[i] = t
  OBVIOUS
<1> HIDE DEF f, T
<1>5. f \in Bijection(D, T)
  BY <1>3, <1>4, Fun_IsBij
<1>6. ExistsBijection(D, T)
  BY <1>5 DEF ExistsBijection
<1>7. Cardinality(T) = Cardinality(D)
  BY <1>2, <1>6, FS_Bijection
<1> QED BY <1>2, <1>7 DEF T, D

LEMMA WaysAreDisjoint ==
  ASSUME NEW A, NEW B, NEW C, A \cap B = {}, A \cap C = {}, B \cap C = {}
  PROVE  \A a, b \in 1..3 : a # b => <<A, B, C>>[a] \cap <<A, B, C>>[b] = {}
<1> DEFINE ways == <<A, B, C>>
<1>1. ways[1] = A /\ ways[2] = B /\ ways[3] = C
  OBVIOUS
<1> HIDE DEF ways
<1>2. \A a, b \in 1..3 : a # b => ways[a] \cap ways[b] = {}
  <2> SUFFICES ASSUME NEW a \in 1..3, NEW b \in 1..3, a # b PROVE ways[a] \cap ways[b] = {}
    OBVIOUS
  <2>1. a \in {1, 2, 3} /\ b \in {1, 2, 3}
    OBVIOUS
  <2> QED BY <1>1, <2>1
<1> QED BY <1>2 DEF ways

LEMMA EventsComeOnce == IInv => EachEventOnce
<1> SUFFICES ASSUME IInv, NEW w \in Waiters, stream[w].state # "none"
    PROVE
      LET s == stream[w]
          queue == s.live \o chan[w]
          ways == <<SetOf(queue), Pending(w), dropped[w]>>
          later == SetOf(queue) \cup Pending(w) \cup dropped[w]
          snap == Len(log) - Cardinality(later) IN
      /\ \A i, j \in 1..Len(queue) : queue[i] = queue[j] => i = j
      /\ \A a, b \in 1..3 : a # b => ways[a] \cap ways[b] = {}
      /\ later = {log[i] : i \in (snap + 1)..Len(log)}
      /\ s.seq + Len(s.snap) = snap + Len(s.live)
      /\ \A i, j \in 1..Len(queue) :
           i < j /\ queue[i][1] = queue[j][1] => queue[i][2] < queue[j][2]
  BY DEF EachEventOnce
<1> DEFINE s == stream[w]
           queue == s.live \o chan[w]
           later == SetOf(queue) \cup Pending(w) \cup dropped[w]
           snap == Len(log) - Cardinality(later)
<1>1. Ways(w) /\ log \in Seq(Events) /\ \A i, j \in 1..Len(log) : log[i] = log[j] => i = j
  BY DEF IInv, WaysSound, LogSound, Typed, RestTyped
<1>2. PICK k \in 0..Len(log) : SubscribedAt(w, k)
  BY <1>1 DEF Ways
<1>3. /\ later = {log[i] : i \in (k + 1)..Len(log)}
      /\ s.seq + Len(s.snap) = k + Len(s.live)
  BY <1>2 DEF SubscribedAt, Later, Queue
<1>4. /\ \A i, j \in 1..Len(queue) : queue[i] = queue[j] => i = j
      /\ \A i, j \in 1..Len(queue) :
           i < j /\ queue[i][1] = queue[j][1] => queue[i][2] < queue[j][2]
      /\ SetOf(queue) \cap Pending(w) = {} /\ SetOf(queue) \cap dropped[w] = {}
      /\ Pending(w) \cap dropped[w] = {}
  BY <1>1 DEF Ways, Queue
<1> HIDE DEF queue, s
<1>5. \A a, b \in 1..3 : a # b =>
        <<SetOf(queue), Pending(w), dropped[w]>>[a]
          \cap <<SetOf(queue), Pending(w), dropped[w]>>[b] = {}
  BY <1>4, WaysAreDisjoint
<1> HIDE DEF later
<1>6. Cardinality(later) = Len(log) - k
  BY <1>1, <1>3, SuffixCardinality
<1>7. snap = k
  <2>1. Len(log) \in Nat /\ k \in Nat
    BY <1>1
  <2> QED BY <1>6, <2>1
<1> HIDE DEF snap
<1>8. later = {log[i] : i \in (snap + 1)..Len(log)} /\ s.seq + Len(s.snap) = snap + Len(s.live)
  BY <1>3, <1>7
<1> QED BY <1>4, <1>5, <1>8 DEF queue, s, later, snap

(* Every event of the log reaches a connection on exactly one way, and in  *)
(* the order its goroutine published it (runs.go:55-69, 94-107).           *)
THEOREM EventsOnce == Spec => []EachEventOnce
BY EventsComeOnce, Invariance, PTL
=============================================================================
