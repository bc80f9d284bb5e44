---------------------------- MODULE CronDispatch ----------------------------
(***************************************************************************)
(* internal/scheduler/scheduler.go with the server around it: the ticker   *)
(* goroutine walks the schedules and dispatches those that are due,        *)
(* operators trigger schedules by hand, and SIGHUP or POST /reload swaps   *)
(* the catalogue and then the schedules, each under its own lock and       *)
(* without one around both.                                                *)
(*                                                                         *)
(* Every SetSchedules allocates new entries, and a pass or a trigger keeps *)
(* the pointer it found; so entries are cells <<g, i>>, the row i of the   *)
(* g-th set ever built, and `live` is the set the scheduler serves now.    *)
(* Time is counted in units no longer than the distance of two occurrences;*)
(* 0 is Go's zero time, which cron.Next gives when it finds no occurrence. *)
(***************************************************************************)
EXTENDS Naturals, Sequences

CONSTANTS
  Ids,         \* schedule ids, numbered in their sorted order
  Workflows,
  Files,       \* what schedules.yaml may hold: functions from ids to rows
  Libraries,   \* which workflows may be libraries: sets of workflows
  Requests,    \* HTTP requests to trigger a schedule
  Reloaders,   \* the SIGHUP goroutine and POST /reload requests
  MaxTime,     \* bound on the clock
  MaxSets,     \* bound on the SetSchedules calls
  MaxEdits     \* bound on the edits of the files on disk

Time == 0..MaxTime
Sets == 1..MaxSets
Row == [workflow : Workflows, fires : SUBSET (1..MaxTime), disabled : BOOLEAN]

ASSUME IdsAssumption == Ids \subseteq Nat
ASSUME FilesAssumption ==
  \A f \in Files : DOMAIN f \subseteq Ids /\ f \in [DOMAIN f -> Row]
ASSUME LibrariesAssumption == Libraries \subseteq SUBSET Workflows
ASSUME BoundsAssumption ==
  MaxTime \in Nat \ {0} /\ MaxSets \in Nat \ {0} /\ MaxEdits \in Nat

VARIABLES
  now,         \* the clock
  disk,        \* schedules.yaml and the workflows whose file says library: true
  edits,       \* how often disk was edited
  libraries,   \* the library workflows of the catalogue in memory
  built,       \* the number of entry sets SetSchedules has built
  rows,        \* the rows of each of them
  live,        \* the set in Scheduler.entries
  next,        \* compiled.next of each cell
  last,        \* compiled.last of each cell, its At
  tick,        \* the time in the ticker's channel, 0 when it is empty
  pass,        \* the ticker goroutine
  trigger,     \* the trigger requests
  reload,      \* the reload requests
  fires        \* history: the occurrences each cell was dispatched for by a pass

files == <<disk, edits>>
entries == <<built, rows, live>>
vars == <<now, files, libraries, entries, next, last, tick, pass, trigger, reload, fires>>

(* Mutant: with no occurrence left, where the search gave up.              *)
NextFire_SearchEnd(occurrences, at) ==
  LET later == {o \in occurrences : o > at} IN
  IF later = {} THEN MaxTime + 1 ELSE CHOOSE o \in later : \A p \in later : o <= p

(* cron.Next: the first occurrence after a time.                           *)
NextFire(occurrences, at) ==
  LET later == {o \in occurrences : o > at} IN
  IF later = {} THEN 0 ELSE CHOOSE o \in later : \A p \in later : o <= p

NoRows == <<>>
IdlePass == [at |-> 0, set |-> 1, due |-> {}, occ |-> [i \in Ids |-> 0], called |-> FALSE]
IdleTrigger == [state |-> "new", set |-> 1, id |-> 0, at |-> 0]
IdleReload == [state |-> "idle", set |-> 0, libraries |-> {}]

(* server.New: the catalogue and the schedules are loaded, no entry fires  *)
(* a workflow the catalogue calls a library.                               *)
Targets(f) == {f[i].workflow : i \in DOMAIN f}

FirstNexts(f, at) ==
  [i \in Ids |-> IF i \in DOMAIN f THEN NextFire(f[i].fires, at) ELSE 0]

Init ==
  /\ now = 1
  /\ \E f \in Files, l \in Libraries :
       /\ Targets(f) \cap l = {}
       /\ disk = [schedules |-> f, libraries |-> l]
       /\ libraries = l
       /\ rows = [g \in Sets |-> IF g = 1 THEN f ELSE NoRows]
       /\ next = [g \in Sets |-> IF g = 1 THEN FirstNexts(f, 1) ELSE [i \in Ids |-> 0]]
  /\ edits = 0
  /\ built = 1
  /\ live = 1
  /\ last = [g \in Sets |-> [i \in Ids |-> 0]]
  /\ tick = 0
  /\ pass = IdlePass
  /\ trigger = [r \in Requests |-> IdleTrigger]
  /\ reload = [r \in Reloaders |-> IdleReload]
  /\ fires = [g \in Sets |-> [i \in Ids |-> <<>>]]

-----------------------------------------------------------------------------
(* Time, and the operator's edits on disk.                                 *)

Clock ==
  /\ now < MaxTime
  /\ now' = now + 1
  /\ UNCHANGED <<files, libraries, entries, next, last, tick, pass, trigger, reload, fires>>

Edit ==
  /\ edits < MaxEdits
  /\ edits' = edits + 1
  /\ \E f \in Files, l \in Libraries : disk' = [schedules |-> f, libraries |-> l]
  /\ UNCHANGED <<now, libraries, entries, next, last, tick, pass, trigger, reload, fires>>

-----------------------------------------------------------------------------
(* The ticker goroutine.  Its first pass needs no tick of its own here: it *)
(* is the one a tick at the start gives.                                   *)

(* The channel holds one tick; a tick that finds it full is dropped.       *)
Tick ==
  /\ tick = 0
  /\ tick' = now
  /\ UNCHANGED <<now, files, libraries, entries, next, last, pass, trigger, reload, fires>>

(* Mutant: the zero time lies in the past, so it is due.                   *)
IsDue_ZeroToo(g, i, at) ==
  i \in DOMAIN rows[g] /\ ~rows[g][i].disabled /\ next[g][i] <= at

IsDue(g, i, at) ==
  /\ i \in DOMAIN rows[g]
  /\ ~rows[g][i].disabled
  /\ next[g][i] # 0
  /\ next[g][i] <= at

(* Mutant: only what falls on the very minute of the tick is due.          *)
PassStart_SameMinute ==
  /\ tick # 0
  /\ pass.due = {}
  /\ pass' = [at |-> tick, set |-> live, due |-> {i \in Ids : IsDue(live, i, tick) /\ next[live][i] = tick},
              occ |-> next[live], called |-> FALSE]
  /\ tick' = 0
  /\ UNCHANGED <<now, files, libraries, entries, next, last, trigger, reload, fires>>

(* pass, under the read lock: collect what is due at the time of the tick. *)
PassStart ==
  /\ tick # 0
  /\ pass.due = {}
  /\ pass' = [at |-> tick, set |-> live, due |-> {i \in Ids : IsDue(live, i, tick)},
              occ |-> next[live], called |-> FALSE]
  /\ tick' = 0
  /\ UNCHANGED <<now, files, libraries, entries, next, last, trigger, reload, fires>>

IsFirst(i, S) == i \in S /\ \A j \in S : i <= j

(* dispatch, before the lock: the runner is called, which starts a run or  *)
(* fails; either way the entry has fired.                                  *)
PassCall(i) ==
  /\ IsFirst(i, pass.due)
  /\ ~pass.called
  /\ pass' = [pass EXCEPT !.called = TRUE]
  /\ fires' = [fires EXCEPT ![pass.set][i] = Append(@, pass.occ[i])]
  /\ UNCHANGED <<now, files, libraries, entries, next, last, tick, trigger, reload>>

(* Mutant: the cursor follows the clock without a look at where it is.     *)
Record_Unguarded(g, i, at) ==
  /\ last' = [last EXCEPT ![g][i] = at]
  /\ next' = [next EXCEPT ![g][i] = NextFire(rows[g][i].fires, at)]

(* dispatch, under the lock: the result is noted, and the cursor moves on  *)
(* if it is not in the future.                                             *)
Record(g, i, at) ==
  /\ last' = [last EXCEPT ![g][i] = at]
  /\ next' = IF next[g][i] # 0 /\ next[g][i] <= at
             THEN [next EXCEPT ![g][i] = NextFire(rows[g][i].fires, at)]
             ELSE next

PassRecord(i) ==
  /\ IsFirst(i, pass.due)
  /\ pass.called
  /\ Record(pass.set, i, pass.at)
  /\ pass' = [pass EXCEPT !.due = @ \ {i}, !.called = FALSE]
  /\ UNCHANGED <<now, files, libraries, entries, tick, trigger, reload, fires>>

-----------------------------------------------------------------------------
(* TriggerNow: the entry is found under the read lock, then dispatched     *)
(* with the present time.                                                  *)

TriggerNow(r, i) ==
  /\ trigger[r].state = "new"
  /\ i \in DOMAIN rows[live]
  /\ ~rows[live][i].disabled
  /\ trigger' = [trigger EXCEPT ![r] = [state |-> "called", set |-> live, id |-> i, at |-> now]]
  /\ UNCHANGED <<now, files, libraries, entries, next, last, tick, pass, reload, fires>>

TriggerRecord(r) ==
  /\ trigger[r].state = "called"
  /\ Record(trigger[r].set, trigger[r].id, trigger[r].at)
  /\ trigger' = [trigger EXCEPT ![r].state = "done"]
  /\ UNCHANGED <<now, files, libraries, entries, tick, pass, reload, fires>>

-----------------------------------------------------------------------------
(* handleReload and the SIGHUP goroutine.                                  *)

(* loadCatalogue parses every file; any error ends the reload.             *)
LoadCatalogue(r) ==
  /\ reload[r].state = "idle"
  /\ built < MaxSets
  /\ reload' = [reload EXCEPT ![r] = [state |-> "loaded", set |-> 0,
                                      libraries |-> disk.libraries]]
  /\ UNCHANGED <<now, files, libraries, entries, next, last, tick, pass, trigger, fires>>

SwapCatalogue(r) ==
  /\ reload[r].state = "loaded"
  /\ libraries' = reload[r].libraries
  /\ reload' = [reload EXCEPT ![r].state = "swapped"]
  /\ UNCHANGED <<now, files, entries, next, last, tick, pass, trigger, fires>>

(* reloadSchedules: a file that cannot be read, is malformed, repeats an   *)
(* id or schedules a library is rejected and the running schedules stay;   *)
(* the catalogue has been swapped all the same.                            *)
RejectSchedules(r) ==
  /\ reload[r].state = "swapped"
  /\ reload' = [reload EXCEPT ![r] = IdleReload]
  /\ UNCHANGED <<now, files, libraries, entries, next, last, tick, pass, trigger, fires>>

(* SetSchedules up to the lock: the cells are built, with their cursors    *)
(* computed from the time it was called with.                              *)
BuildSchedules(r) ==
  /\ reload[r].state = "swapped"
  /\ Targets(disk.schedules) \cap libraries = {}
  /\ built < MaxSets
  /\ built' = built + 1
  /\ rows' = [rows EXCEPT ![built + 1] = disk.schedules]
  /\ next' = [next EXCEPT ![built + 1] = FirstNexts(disk.schedules, now)]
  /\ reload' = [reload EXCEPT ![r] = [state |-> "built", set |-> built + 1, libraries |-> {}]]
  /\ UNCHANGED <<now, files, libraries, live, last, tick, pass, trigger, fires>>

SwapSchedules(r) ==
  /\ reload[r].state = "built"
  /\ live' = reload[r].set
  /\ reload' = [reload EXCEPT ![r] = IdleReload]
  /\ UNCHANGED <<now, files, libraries, built, rows, next, last, tick, pass, trigger, fires>>

-----------------------------------------------------------------------------
Ticker == Tick \/ PassStart \/ \E i \in Ids : PassCall(i) \/ PassRecord(i)
Triggers(r) == TriggerRecord(r) \/ \E i \in Ids : TriggerNow(r, i)
Reload(r) ==
  \/ LoadCatalogue(r) \/ SwapCatalogue(r)
  \/ RejectSchedules(r) \/ BuildSchedules(r) \/ SwapSchedules(r)

Next ==
  \/ Clock \/ Edit \/ Ticker
  \/ \E r \in Requests : Triggers(r)
  \/ \E r \in Reloaders : Reload(r)

(* The ticker ticks, its goroutine runs, and every call of the runner      *)
(* returns: runManager.start gives up after five seconds.                  *)
Fairness ==
  /\ WF_vars(Tick) /\ WF_vars(PassStart)
  /\ \A i \in Ids : WF_vars(PassCall(i)) /\ WF_vars(PassRecord(i))

Spec == Init /\ [][Next]_vars /\ Fairness

-----------------------------------------------------------------------------
(* Properties.                                                             *)

Cells == {c \in Sets \X Ids : c[1] <= built /\ c[2] \in DOMAIN rows[c[1]]}

TypeOK ==
  /\ now \in 1..MaxTime
  /\ disk.schedules \in Files /\ disk.libraries \in Libraries
  /\ edits \in 0..MaxEdits
  /\ libraries \in Libraries
  /\ built \in Sets /\ live \in Sets
  /\ rows \in [Sets -> Files \cup {NoRows}]
  /\ next \in [Sets -> [Ids -> Time]]
  /\ last \in [Sets -> [Ids -> Time]]
  /\ tick \in Time
  /\ pass \in [at : Time, set : Sets, due : SUBSET Ids, occ : [Ids -> Time], called : BOOLEAN]
  /\ trigger \in [Requests -> [state : {"new", "called", "done"}, set : Sets,
                               id : Ids \cup {0}, at : Time]]
  /\ reload \in [Reloaders -> [state : {"idle", "loaded", "swapped", "built"},
                               set : Sets \cup {0}, libraries : Libraries \cup {{}}]]
  /\ fires \in [Sets -> [Ids -> Seq(Time)]]

(* A pass dispatches an entry for ever later occurrences of its own cron,  *)
(* none of them before its time; the cursor, unless it has run out, is     *)
(* past the last one once that is recorded (scheduler.go:248-287).         *)
FiresOncePerOccurrence ==
  \A c \in Cells :
    LET s == fires[c[1]][c[2]]
        pending == pass.called /\ pass.set = c[1] /\ IsFirst(c[2], pass.due)
        cursor == next[c[1]][c[2]] IN
    /\ \A a, b \in 1..Len(s) : a < b => s[a] < s[b]
    /\ \A a \in 1..Len(s) : s[a] \in rows[c[1]][c[2]].fires /\ s[a] <= now
    /\ s # <<>> /\ ~pending /\ cursor # 0 => s[Len(s)] < cursor

(* The cursor of an entry never moves back, and once it has run out it     *)
(* stays so: whatever order the ticker's and the triggers' results are     *)
(* recorded in (scheduler.go:277-285).                                     *)
CursorNeverBack ==
  [][\A c \in Cells :
       LET was == next[c[1]][c[2]] is == next'[c[1]][c[2]] IN
       is # was => was # 0 /\ (is = 0 \/ is > was)]_vars

(* An entry that is due does not stay due: it is dispatched, by the ticker *)
(* or by hand, even if its run fails to start, or it is replaced           *)
(* (scheduler.go:243-247).                                                 *)
DueIsServed ==
  \A g \in Sets, i \in Ids :
    (live = g /\ IsDue(g, i, now)) ~> (live # g \/ ~IsDue(g, i, now))
=============================================================================
