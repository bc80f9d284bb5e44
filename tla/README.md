# Weftly: a TLA+ model of the workflow engine and its server

Weftly runs workflows: YAML files whose steps form a DAG, executed from the
command line (`weftly run`) or by an HTTP server that also fires them on cron
schedules.  This directory holds TLA+ modules of the parts whose correctness
depends on interleavings, crashes and ordering, TLC configurations that check
them on small instances, and TLAPS proofs of what matters most about each part.
Algorithms with many
cases (cron expressions, typed inputs, includes) are modelled as operators and
checked against an independent definition of what they should give.

All paths below are relative to the repository; `engine.go:199` stands for
`internal/engine/engine.go`, line 199, and so on.

## 1. Inventory

| Component | State it keeps | Operations | What makes it correct |
|---|---|---|---|
| **DAG scheduler** (`engine/scheduler.go`) | in-degrees, statuses, `halt`, the `done` channel, the semaphore | dispatch, harvest, cascade skip, verdict | a step runs at most once and after its needs; nothing ordinary starts after a fatal harvest; teardown always runs; the run concludes |
| **Step execution** (`engine/engine.go:317-645`) | the step view, the attempt | skip, replay, gate, loop, retry, time out, cancel | events, view and returned status agree; retries add up |
| **Engine run** (`engine/engine.go:100-273`, `787-831`) | the run context | preflight, schedule, cleanup, `RunFinished` | one lifecycle per run, subscribers in order |
| **Event bus** (`events`) | the list of subscribers | `Publish` | every subscriber is called, in order, by the publisher |
| **Run state and resume** (`state`) | `state.json` | handle an event, flush, load, adopt | what it says has happened, across crashes |
| **Run feed** (`server/runs.go`, `server/handlers.go:275-356`) | replay log, waiters, channels | `start`, `handle`, `subscribe`, `markClosed`, the stream handler | every event once, never before it is on disk; streams end |
| **Cron dispatch** (`scheduler`) | entries with cursors | pass, dispatch, trigger, `SetSchedules` | one fire per occurrence; cursors only advance; due entries are served |
| **Catalogue and reload** (`server/catalogue.go`, `server/server.go:274-336`) | the catalogue | reload | catalogue and schedules fit together |
| **Cron expressions** (`cron`) | none | parse, `Next` | the next match, strictly later |
| **Compiler** (`compile`, `ir`) | none | include expansion, `finally:`, implicit needs | the graph orders what the source orders |
| **Schema** (`schema`) | none | parse, merge includes, validate | cycles are rejected, merges are as written |
| **Typed inputs** (`schema/inputs.go`, `engine/inputs.go`, `engine.go:940-1083`) | resolved values | validate, order, resolve, coerce, render, bind in includes | what resolves is what was declared; author's mistakes show before a run; defaults read settled inputs |
| **Expressions** (`expr`) | the program cache | evaluate, interpolate | `success()` and `failure()` read the caller's scope; parallel steps do not disturb one another |
| **Audit log** (`server/audit.go`) | file and in-memory tail | record, warm, tail | no entry lost or glued to another |
| **Authentication, middleware, UI** (`server`) | tokens and roles, read at start | filter requests | stateless |
| **Actions** (`actions`) | processes, streams, the terminal | run, wait, prompt, and single calls | return or time out; a success is complete |
| **Artifact stores** (`artifacts`) | files, S3 | put, get | - |
| **Report, renderers, tracing** (`report`, `render/tty`, `tracing`) | what they saw | handle an event | show what happened |
| **CLI, MCP, GitHub Actions import, mock server** (`cli`, `mcp`, `gha`, `mockpetclinic`) | none | wrap the engine | - |

How they interact.  `engine.Run` loads the prior run when it resumes one,
builds the bus with `state.Writer`, the report and the caller's subscribers,
compiles the workflow, publishes `RunStarted`, hands the graph and `runStep`
to `schedule`, runs the cleanup steps and publishes `RunFinished`.  `schedule`
calls `runStep` in one goroutine per step, and in its own goroutine for steps
it skips.  `runStep` publishes on the bus; `Publish` calls the subscribers in
the publishing goroutine.  In the server, `runManager.start` runs all this in
a goroutine and adds `runRecord.handle` behind the engine's subscribers, from
where events go over channels to the open streams.  The cron goroutine and the
trigger handler call `runManager.start`; SIGHUP and `POST /reload` replace the
catalogue, then the schedules, while both go on.

Where it is hard: step goroutines against the main loop; completions in any
order against `halt`; the cascade walk over nodes other steps still block;
cancellation and time-outs against retries; a process that dies between two
flushes; events published at once, sent outside the lock, to channels that
fill up or are closed; the ticker, triggers and reloads on shared entries; an
unlocked map under all steps; processes that outlive the script that started
them.
`PROJECT.json` lists each hazard at its line with the property that covers it,
or why none does yet.

## 2. The modules

### `DagRun`, `DagScheduler` - the scheduler and its promise

`DagRun` is the promise in a page: `Start`, `Finish`, `Halt`, `Skip`,
`Conclude` over a `state` per step.  A step is skipped when its turn comes in a
halted run, or behind a skipped one, whatever else that still waits for: the
walk of `cascadeSkip` does not look at the other needs.  The run concludes when
every step is settled or what is left waits for itself.  `DagScheduler` is
`scheduler.go`.

| Model | Code |
|---|---|
| `indeg`, `statuses`, `halt`, `inflight`, `dispatched` | the variables of the same names in `schedule` |
| `phase[k]`: idle, running, sent, gone | the goroutine of step k: not started, in `exec`, after `done <- k`, after `<-sem` |
| `done` | the channel, a queue |
| `ready` | what is left of `ready` (line 106) or `newlyReady` (131) |
| `stack`, `revived` | the locals of `cascadeSkip` |
| `Dispatch` and its users | lines 91-104, 106-108, 131-145; the main loop blocks while every slot is held, which is the guard |
| `Cascade*` | lines 131-137 and 182-217, one iteration of the walk per action |
| `Harvest`, `Conclude` | lines 111-129, 148-168 |
| `ExecReturns`, `Release` | lines 95-103; the slot is given back after the send, so both orders of the goroutine and the main loop occur |

The walk runs in the main loop while step goroutines go on, so each of its
iterations is an action.  `exec` on a skipped step only publishes and is part
of `CascadeSkip`; the text of `SkipReason` is left out.

A plan is `needs`, `dependents` (each list in graph order) and `always` (the
teardown steps).  `GraphsAssumption` asks one thing of plans: at most one need
per teardown step, because the compiler gives it one (`compile.go:206-214`).
With two, the walk could hand the same teardown step back twice.  Plans need
not be acyclic: `schema.Validate` rejects cycles among declared needs
(`validate.go:206-253`), but the compiler adds implicit ones afterwards.
Graphs in which two nodes share a key are `Compile`'s subject.

### `Compile`, `WorkflowRun` - from the source to the verdict

`Compile` is `compile.go`: `CompileSteps` and `Expand` turn a library of files
into `Graph.Order`.  The recursion of `compileSteps` is the function
`FragmentsOf`, over all `Sites` a file can be compiled at - the file, the name it
is included under, the files on the way to it; no file is on its own chain, so
only finitely many of them are ever looked at.  `PlanOf` is the head of `schedule`
(lines 37-68), where nodes are keyed by id, needs that name no node are
dropped, and of several nodes with one id the last one runs and waits for the
needs of all.  An id `inc.x` is the sequence `<<"inc", "x">>`.  Bindings of
inputs, gates and path confinement are left out; `Valid` is what `Validate`
demands of ids and needs.

`WorkflowRun` loads a directory and compiles it in `Init`, runs the plan with the
actions of `DagRun` (the instance `Run`), and folds each status into the scopes
the step belongs to, as `recordScopeStatus` does (`engine.go:656-708`): that is
what `success()` and `failure()` of a fragment's teardown read.  A node that
shares its key with a later one is counted and never dispatched; the plan lets it
wait for itself.

`DagScheduler` implements `DagRun` for every plan within `GraphsAssumption`,
and `WorkflowRun` uses nothing of the scheduler but `DagRun`; so what holds of
`WorkflowRun` holds of workflows run by the code's scheduler.
`OneNeedPerTeardown` is the assumption, of what the compiler makes, and
`OneNeedHolds` proves it (section 5).  It fails only where nodes come out with one id,
which `TeardownsNamed` excludes: two teardown steps of a fragment that are both
anonymous, or one of them from an include, or an include called `finally` beside
a teardown step.  The merged node waits for itself, at once or around a circle,
so the walk never finds it unblocked and cannot hand it back twice.

### `Load` - files that include files

`LoadFile` is `Load`, and `LoadWithVisited` what `loadWithVisited` does with one
file, given what it returns for the others (`Calls`): the files a file includes
are loaded first, their steps go in front, their environment and shell apply where the
file sets none, all else they declare (inputs, `cleanup:`, `finally:`) is
dropped.  `visited` goes through the whole tree, so that a file two others
share is refused like a circle; the map is a new one for every call of
`schema.Load`, the compiler's for a step-level `include:` among them.
`Loaded(files)` is what each of these calls gives, and the library `Compile`
works on.  `LoadsAsWritten` compares it with the tree the files describe, without
the recursion.

### `InputTypes`, `InputOrder`, `InputResolution` - typed inputs

`InputTypes` is `schema/inputs.go` as operators.  A value is a kind and a
content; a declaration is the record `Input`; `Coerce` is a set, empty for an
error.  What `strconv`, `time` and `encoding/json` make of a text are functions,
constants of the module, defined on the texts that are not refused (`Ints`,
`Floats`, `Durations`, `Json`); the instance has the texts where they differ
("3.0", "3s", "[3", a quoted number).  `NaN` is a constant too, a number in no
order with others: `Within` refuses what is below or above, as the code does, so
that it passes; `Between` is for lengths and item counts.  `JsonTextOf` is fmt's
rendering where `json.Marshal` gives an error.

`InputOrder` has the two depth-first walks over the defaults, the search for a
circle (`inputDefaultCycle`) and the order of resolution (`ResolutionOrder`).
Both are closures that call themselves; here the calls under way are `stack`,
each with the dependencies it has left, and `NextRoot`, `Follow`, `Leave`,
`EndWalk` are the turns of their loops.  `seen` is black, what is on the stack
is grey.  The search puts the dependencies of an input together from a map, so
`Follow` takes any of them; the order takes them by name.

`InputResolution` is the way of one call: `Validate`, which starts the search,
`ApplyPreset`, which starts the order, `ResolveNext` for one input after the
other (`engine/inputs.go:71-150`), `Conclude`, then `Enter` for each include on the
way down, with the caller's `with:` (`compile.go:330-379`) and the child's
defaults (`engine.go:950-1026`).  An expression is what it reads and one
operation on it.  Where a path leads is a pair of constants, `Canonical` and
`Inside`.

### `Cron`, `CronNext` - from five fields to the next fire

`Parse` turns fields into sets of values, term by term as `parseField`, and
`DayMatches` is the rule of the two day fields.  `Fires` says what a minute must
satisfy, without masks or jumps.  The lengths of hours, days, weeks and months
are constants, so that six years with their leap days are 156 minutes long.

`CronNext` is the loop of `Schedule.Next`: `t` is the minute it is at, and
`NextMonth`, `NextDay`, `NextHour`, `NextMinute` are its four jumps, `Found` and
`GiveUp` its two returns.  `NextIsFirstFire` is the invariant of this loop.

### `Evaluator`, `StepBody`, `StepWork` - a condition and an action

`Evaluator` has the calls of parallel steps into one `Evaluator`: look the
program up (`Found`, `Compile`), store it (`Store`), bind the status functions
(`Bound`), run.  `Racing` is two calls in the map at once, one of them
writing; `Fatal` is what the Go runtime may then do.  `Record` is the rest of
the run, which folds statuses into the scopes meanwhile.

`StepBody` has the actions that wait for something outside.  `run:` is a script
as the leader of a process group, helpers in it and a daemon out of it, that
write to two streams; a copy goroutine per stream with its line writer;
`Kill` of the group when the context ends, `Reap`, `WaitDelay`, `ReturnRun`
with the error in the code's order and the outputs file parsed only after a
zero exit.  `wait:` is `Probe` and `Pause`; `held` is a probe that has left a
process with its output behind, which `CombinedOutput` waits for.  `prompt:`
is a question answered by `--yes`, a default or a typed line.

`StepWork` composes the two: the worker's action starts when its condition was
answered yes, beside another step that uses the same program.

### `StepRun` - one step

The control flow of `runStep`, from the first event to the returned status. `step`
is the compiled step, reduced to the settings that steer it; `pc` is the position;
`trace` the published lifecycle events in order (logs are left out); `view` what
expressions read as the step's status; `items`, `item`, `ends` the loop;
`attempt`, `cause` the retry loop.  `fault` is a history variable, what is wrong
with the present invocation, and `faults` those of the iterations.  Evaluating an
expression or calling the action is a choice of outcomes: the action may fail
although nothing is wrong and succeed although the context is done; `StepBody` has
the inside of three actions.  A `for-each:` value is one of the forms
`evaluateForEach` tells apart.  `ContextDone` is `DELETE /runs/{id}` or, for a
cleanup step, the sixty seconds of the pass (`engine.go:801`).  Once the context
of a step is done, an error of the action is a time-out only if a deadline passed
first (`CausesNow`).

### `RunState` - state.json over several lives

`mem` is `Writer.run`, `disk` is `state.json`.  Each event is one
`Writer.Handle`: the record changes in memory, and on disk it becomes the whole
record or, when the flush fails, stays (`state.go:126`, the rename makes it
all or nothing).  `Crash` may come between any two events; `Resume` loads,
adopts and fills the resume cache.  The scheduler is taken at the level of
`DagRun` and without teardown steps, which `DagScheduler` covers; a gate that
closes is left to `StepRun`.  When the graph is through, `StartCleanup` runs
the `cleanup:` steps one by one, replays included.  `succeeded` is a history variable.
`Key` is any assignment of keys to steps: those without an id share `""`, and a
`cleanup:` step may have the id of a step of the graph.  What is on disk is
therefore the record of a key, and the properties speak of keys: a success is
one of some step with this key.

### `RunFeed` - the run seen over HTTP

An event is `<<p, n>>`, the n-th of goroutine p.  `pub[p]` is the progress of a
`Publish`: which subscriber it is calling and, in `runRecord.handle`, which of the
waiters copied under the lock are still to be sent to.  `log`, `closed`, `waiters`
are the record; `chan`, `shut` its channels.  `MarkClosed` is the part of
`markClosed` under the lock, `CloseWaiter` the closing of one channel after it.
`StartReturns` is the `select` of `runManager.start`, free to take any ready case,
the timer included.  A connection is `<<client, attempt>>`; a reconnecting client
sends the last id it saw.  Left out: the report subscriber, which sits between the
two, the `StepLog` published after `RunFinished` when the report cannot be written
(`engine.go:263-264`), the heartbeat, and failing flushes (a flush that fails is
`RunState`'s subject; here `disk` receives what is flushed).

### `CronDispatch` - schedules, triggers and reloads

`SetSchedules` allocates new entries and a pass keeps the pointers it
collected, so an entry is a cell `<<g, i>>`: row i of the g-th set ever built;
`live` is the set in `Scheduler.entries`.  `next` is the cursor, 0 is Go's zero
time.  A row has the set of its occurrences, which the instance computes from
a cron expression with `Fires` of `Cron`; `NextFire` is the first later one,
which `CronNext` shows `cron.Next` to return.
`dispatch` is two actions, before and under the lock (`PassCall`,
`PassRecord`); a trigger is `TriggerNow` and `TriggerRecord`; a reload is
`LoadCatalogue`, `SwapCatalogue`, then `RejectSchedules` or `BuildSchedules`
and `SwapSchedules`.  `Clock` and `Edit` are the environment.  A cron
expression that does not parse has no cursor and is an entry without
occurrences.  The immediate pass at start-up is the one a first tick gives.

## 3. What the runs check

| Run | Instance | What it shows |
|---|---|---|
| `dag_scheduler` | all plans of 4 steps with earlier needs, every choice of teardown among the single-need steps, 2 plans with later needs, 2 with steps that need each other in a circle; 2 workers; success or failed | the inductive invariant `IInv`, `NothingLost`, refinement of `DagRun`, termination |
| `workflow_run` | 4135 directories: 10 root workflows with 154 fragments, with and without ids, needs, teardown, outputs, nested ones in either place, 2 levels of include; 4 files in which each includes up to 2 others or one that is missing as a document; fragments that include documents | `SourceOrder`, `TeardownReadsOutcome`, `OneNeedPerTeardown`, `NothingStalls`, `RefusedForAReason`, `LoadsAsWritten` |
| `step_run` | all 1152 combinations of settings, 3 attempts, 2 loop elements | `ReturnAgrees`, `RetriesAddUp`, `FatalForAReason`, `Returned` |
| `step_work` | 2 steps with one condition, one of them in an include; a script of 3 processes on 2 streams, 5 outputs files, 2 probes, 6 prompts | `AnswersThisCall`, `SuccessIsWhole`, `BodyReturns` |
| `typed_inputs` | 46 workflows of 1 to 3 inputs, 43 supplied values, 3 environments, a preset, 2 levels of includes | `AdmissibleAsDeclared`, `ErrorsAreTheCallers`, `DefaultsReadSettled`, `RejectedForCause`, `EnvRoundTrips`, `BlankOnlyByCaller` |
| `run_state` | four steps, two of them anonymous, a cleanup step with the id of one of them, 2 lives | `RecordedIsTrue`, `VerdictIsFinal`, `Completes` |
| `run_feed` | 2 steps with 2 and 1 events, 1 client with 2 connections, channels of 1 | `EachEventOnce`, `SeenIsOnDisk`, `EndMeansFinished`, `NoSendOnClosed`, `StreamEnds` |
| `cron_dispatch` | 2 rows, 1 trigger, 1 reload, 1 edit, 3 units of time | `FiresOncePerOccurrence`, `CursorNeverBack`, `DueIsServed` |
| `cron_next` | 1950 cron expressions, 1036 of them accepted, each from 52 starts in a calendar of 6 years | `NextIsFirstFire` |

Why the bounds suffice.  Four steps hold every shape the walk distinguishes: a
diamond, a teardown step behind a skipped one, a step that is blocked twice,
two branches of which one fails; two workers make dispatch block with steps
left.  Beyond that the proofs take over.  Two levels of include hold a fragment
in a fragment with teardown on both, and a third level is refused; fragments of
three steps branch; one fragment is used twice.  Four files hold a chain of
three, a fork, a diamond and every circle.  Two elements and three attempts pass
through every edge of `runStep`'s loops twice.  Two callers are what a race
needs, and one in a scope and one outside is what tells their statuses apart.
Three processes are the shell, one its kill reaches and one it does not; a line
in two pieces from two of them shows where lines are cut.  Each type of input
meets every text at least once with and without its constraints; three inputs
hold a chain and a circle of defaults in every order of names; a blank goes
through two includes.  Two lives are what a step needs to be recorded, then
replayed, and a crash in the second leaves its mark.  A channel of one event is
full with a second; two parallel steps give every race of append and send; a
second connection replays.  Three units of time hold two occurrences of one row
and one of another; a pass, a trigger and a reload overlap in all ways.  The
small calendar has months of four days and of two, the latter a day longer every
other year, and weeks that do not divide all months: these are the boundaries
`Next` jumps over, a day that only leap years have among them.

Deadlock checking is off: each of these systems may come to rest, and the
liveness properties say where.

`workflow_run`, `typed_inputs`, `step_work` and `cron_next` have no type
invariant of their own: a value outside of its type makes their properties fail.

Every property of a passing run has a mutant in a module it depends on
(`X_Suffix` before `X`): a plausible bug that violates it.

### What the code does that its documents deny

Each of these runs expects a violation and is a finding in `PROJECT.json`.

- `workflow_teardown`: the first `finally:` step needs the last step of its
  fragment only; where the steps branch, teardown runs while others still wait.
- `scope_success`: the status of a fragment whose first step was skipped by its
  `if:` stays "skipped", so `success()` is false in its teardown although
  nothing failed, and `failure()` is too.
- `expression_cache`: the evaluator that all steps share keeps its programs in
  a map without a lock, against its comment.

The models show these too; no run is spent on them.

- `FEATURES.md:56-57` and `engine/inputs.go:30-32` put `WEFTLY_INPUT_*` above
  the preset; the code asks the preset first (`engine/inputs.go:81-84`,
  `Raw` in `InputResolution`).
- Ids are put together with dots and `finally`, so that an include called
  `finally` gives its steps the ids of the teardown steps beside it, from which
  `compile.go:203-205` says they are apart; of two nodes with one id the later
  alone runs, and the run stalls.
- Triggering by hand a schedule that is due moves its cursor, against the
  comment of `TriggerNow` (`scheduler.go:202`, 282).
- A reload whose schedules are rejected has already swapped the catalogue:
  a scheduled workflow may be a library now (`server.go:362-363`).
- The SSE id of an event is not its position in the log once two steps publish
  at once or a channel was full (`handlers.go:307-309`).
- Resume replays anonymous steps that never ran, since they share a key.
- A resumed run replays the cleanup steps that succeeded before, although its
  steps did something anew (`engine.go:331`, against `schema/types.go:144-145`;
  `StartCleanup` and `Begin` in `RunState`).
- An iteration of a loop that is gated or fails early publishes a lifecycle of
  its own (`engine.go:307-310`).
- The `finally:` of the workflow that is run is never compiled
  (`compile.go:75` takes its steps only), so it does not run;
  `schema/types.go:149-152`, `FEATURES.md:217` and `CHANGELOG.md:87-90` say that
  `finally:` belongs to the workflow that declares it and runs after its own
  steps.  `NothingStalls` says that no teardown step is the root's.
- Steps of a teardown are not folded into scopes (`engine.go:660-665`), so nothing
  is recorded of a fragment that a `finally:` includes, and `success()` holds in
  its own teardown whatever its steps came to (`engine.go:719-722`);
  `schema/types.go:156-160`, `FEATURES.md:144-148` and the repository's
  `README.md:151-152` promise the fragment's own status.
  `TeardownReadsOutcome` states this case apart.
- A number given as `NaN` passes any `min:` and `max:`, and a bound written
  `.nan` binds nothing (`schema/inputs.go:180-185`, 388), although `Coerce`
  "then checks its constraints" (`schema/inputs.go:101-103`).
- `enum:` on a number, bool, duration or path is ignored, although an allowed
  set "is enforced, whatever the declared type" (`schema/inputs.go:132-136`);
  `AdmissibleAsDeclared` excepts both by name.

And this is how the code is, for whoever expects otherwise.

- Inputs: a supplied `null` hides the default and is handed on as null, unless the
  input is required; an input read as `inputs["x"]` is not seen by the order of
  defaults, nor is a default that reads itself a cycle; where a string has an
  `enum:`, `pattern:` and lengths are not looked at; a duration that comes from an
  expression, alone or in a list, is not checked against its bounds; the paths of
  a list are not confined; an included fragment's inputs are neither coerced nor
  required at run time; a resumed run takes its inputs anew.
- Cron: `5/1` selects 5 alone, `*/1` counts as a restricted day field, `7/2`
  is refused as a day of the week, and four years of search do not reach from
  February 2096 to 2104, which is the one exception `SearchAssumption` has in
  the Gregorian calendar (section 5).
- State: two steps with one key overwrite each other's record (anonymous steps,
  and a cleanup step with the id of a step of the graph), so that a verdict of
  failure may stand without a failed record, and a verdict of success over a
  record a cleanup step left as failed; `VerdictIsFinal` asks what the code
  keeps to.
- Actions: a script that exits with zero fails if a process keeps its streams
  for two seconds more; an unterminated heredoc in the outputs file drops its
  key in silence; the budget of a `wait:` is not looked at during a probe; the
  default of a `select` prompt need not be an option.

## 4. Fairness

- `DagScheduler`: the Go runtime schedules the main loop and every goroutine,
  and `exec` returns.  Actions honour their context or end by themselves; one
  that does neither keeps its run open, in the code too.
- `WorkflowRun`: none; its properties are invariants, and `DagScheduler` shows
  that a run concludes.
- `StepRun`: the goroutine runs.
- `StepWork`: exec and the runtime do their part: the group is killed, a process
  that ended is reaped, streams are copied, `WaitDelay` runs out, timers fire,
  a probe ends when its context does.  Nothing is assumed of scripts, probes
  that are not killed, or the user at a prompt.
- `RunState`: a live process works.  Nothing has to crash or be resumed.
- `RunFeed`: goroutines are scheduled, and the client of an open connection
  keeps reading.  Nobody has to connect, stay, or come back.
- `CronDispatch`: ticks come and the ticker goroutine runs; `dispatch` returns
  since `runManager.start` gives up after five seconds.  Nobody has to trigger,
  edit or reload.

## 5. What is proved

Eight modules hold proofs, each beside the module it is about.  What a theorem
says holds for every value of the constants that the named assumptions allow;
the runs show the same formulas on their instances.  TLC checked each inductive
invariant on the run of its module before it was proved.

| Module | Theorems | Of every |
|---|---|---|
| `DagScheduler_proofs` | `IInvHolds`, `TypeCorrect`, `NothingIsLost`, `Refinement` | plan with one need per teardown step, number of workers, set of outcomes |
| `StepRun_proofs` | `TypeCorrect`, `ReturnsAgree`, `RetriesRight`, `FatalReasons` | combination of settings, number of attempts, length of a loop |
| `RunState_proofs` | `TypeCorrect`, `RecordsAreTrue`, `VerdictsAreFinal` | acyclic graph, list of cleanup steps, assignment of keys, number of lives |
| `RunFeed_proofs` | `TypeCorrect`, `NoSend`, `SeenOnDisk`, `EndOfRun`, `EventsOnce` | number of steps, events, clients, reconnections, capacity of a channel |
| `Cron_proofs` | `TypeCorrect`, `FiresOnce`, `CursorForward` | set of schedules, edits, triggers, reloads |
| `Cron_proofs` | `FirstFire` | calendar, expression and start for which `SearchAssumption` holds |
| `StepWork_proofs` | `AnswersOwnCall`, `WholeOutput` | set of steps, conditions, scripts and processes |
| `WorkflowRun_proofs` | `OneNeedHolds`, `SourceOrderHolds`, `TeardownReadsOutcomeHolds`, `NothingStallsHolds`, `RefusedForAReasonHolds` | directory of files, depth of includes, set of outcomes |
| `InputResolution_proofs` | `Admissibly`, `CallersErrors`, `ReadSettled`, `RejectedRightly`, `BlankRightly`, `RoundTrips` | set of workflows, callers, fragments, and behaviour of Go's libraries on texts (`RoundTrips`: where they read back what they write) |

`CronNext` and `CronDispatch` have their proofs in one module, `Cron_proofs`.
Each module has the shape: the parts of the invariant by name, lemmas about the
operators, one lemma per action (`XKeeps`), `Invariance`, the theorems.

### The scheduler

`DagScheduler_proofs`, from `GraphsAssumption`:

- `IInvHolds`, `TypeCorrect`: `IInv` and `TypeOK` are invariants;
- `NothingIsLost`: when `schedule` returns from a plan without circles, every
  step has a status, every teardown step was executed, and the verdict is not
  "skipped";
- `Refinement`: `Spec => DagRun!Spec`, hence no step runs twice or before its
  needs, and nothing ordinary starts after a fatal status was harvested.

The argument.  `NothingLost` is not inductive: it speaks of the end.  What the
code maintains is that a step nobody blocks any more is always somewhere -
started, settled, or on one of the main loop's lists (`NoneForgotten`).  For that
to be preserved the in-degrees must be exact (`CountersExact`: the needs not yet
*resolved*, that is harvested or skipped), keys must be received once
(`StatusesSound`), and the lists must be disjoint and hold no started step
(`ListsSound`) - which is where the single need of teardown steps enters.
`HaltSound` ties `halt` to the resolved fatal steps.  `InductiveInvariance` proves
the conjunction preserved, one lemma per action.  At the end the lists are empty
and nothing is in flight; if some step of an acyclic plan were pending, the set of
pending steps would have a member without pending needs, by acyclicity, and that
member would have to be on a list.  In any plan, what is left needs something that
is left, which is the guard of `DagRun!Conclude`; and what the walk comes to had
its turn or needs a skipped step (`WalkSound`), which is the guard of
`DagRun!Skip`.  The refinement maps a step's status to its abstract state and uses
`IInv` for the guards; harvesting without a fatal status, releases and the walk's
bookkeeping are stutters.

### The compiler, and the run of what it makes

The assumptions are `LibrariesAssumption`, which gives files their types,
`DepthAssumption` and `OutcomesAssumption`.  No bound on the number of files,
their steps or the depth of includes is involved.

First, that the recursions define something.  `LoadFile` and `FragmentsOf` are recursive
functions, and TLA+ promises nothing of those until it is shown that a function
with the recursive equation exists.  For loading it does because each call has met
one file more (`MergesExist`, `LoadsExist`, `LoadFileSteps`), for the compiler
because each site has one file more on its chain, and a chain has at most
`MaxIncludeDepth + 1` (`FragmentsExist`, `FragmentsRecur`).  The argument in both
cases: the sets of calls with at most n files left each have such a function, they
agree with one another, and `Induction` - from the least element of a set of
numbers - gives one for all.  `SiteInduction` is the same argument for facts:
what holds of a site when it holds of the sites it includes holds of all.

Then what the compiler makes (`CompileSound`, `SitesSound`, `RootSound`).  Nodes made
from steps under a prefix fit it (the `Fits` lemmas), and the pieces a list of
steps is made into fit together (the `Together` lemmas): names that start with
different ids are different (`ApartPlan`), a piece's needs lead into the piece or
come from its include, teardown nodes have one need, the node before them, the
node of the outputs needs the last.  `ImplicitKept` and `CompiledSound` carry this
through `applyImplicitNeeds`; the result is `WellMade`, which says all the run
depends on.  `OneNeedPerTeardown` follows.

The run.  `Faithful` says that lib, nodes and graph are what loading, compiling
and planning the files gives, with the types of the rest.  In a source without
needs the plan is a chain (`SourceChain`), so that what has started has all before
it settled (`InOrder`), which gives `SourceOrder`.  `ScopeTold` is the invariant
behind `TeardownReadsOutcome`: the status of a fragment is "failed" exactly if
some step within it has failed, let off or not, where the steps of a teardown do
not count; one with no other steps (`FromTeardown`) has no status at all, which
reads as success.  That all its steps are settled when its teardown runs is
`InOrder` again.  `NothingStalls` holds because needs point backwards in what the
compiler makes (`NeedsBackwards`), so that the first node left behind would have
all its needs settled (`NoneLeft`).  That the teardown steps are there to begin
with is an induction along the includes that lead to a fragment (`Brought`,
`BroughtOn`, `TeardownsThere`).

`RefusedForAReason` compares the compiler's recursion with paths.  What refuses a
site refuses the sites above it (`RefusedBad`, by `SiteInduction`), so that a
refused root has a way along its includes to the culprit; and a way that meets a
file twice, goes too deep or ends badly is reached site by site (`ReachedOn`),
unless something refused the root before.

### One step

`ReturnAgrees` needs to know what was published before (`TraceSound`) and what
caused the last failure (`CauseSound`).  `RetriesAddUp` speaks of the end, when
the trace is complete; in between, the number of retry events is a function of
the position in the loop, but for one position: after `finish` a cancelled sleep
may have been the last thing, so that there the count is one of two
(`Retried`, `TriesSound`).  `FatalForAReason` rests on `CauseSound`, in which the
last cause is the fault of the invocation, so that the failure status can be
compared with it both ways; of a loop also on `LoopSound`: the iterations that are
over answer their faults, and `worst` is what `Taken` makes of them.

### State over crashes

That a success in `state.json` happened is preserved only together with the same
of the record in memory, of the resume cache, and of what a step is about to
record (`SuccessesHappened`): each is copied into another.  A verdict is right
when it is written if the records are those of this life (`RecordsCurrent`: once
all steps of a key are done, its record is what one of them came to), and it
stays so on disk because a life that goes on overwrites the record as a whole.

### The feed

`NoSendOnClosed` is not inductive at all: it holds because a channel is closed
only after `engine.Run` is back (`ClosedSound`), and `engine.Run` is back only
when none of its goroutines is in a `Publish` (`EngineSound`).  `SeenIsOnDisk`
and `EndMeansFinished` follow the events from `state.Writer` to the log and the
channels (`DiskSound`).  `EachEventOnce` is the hardest: the events after a
connection's snapshot are, without overlap, in its queue, on their way to it, or
dropped (`Ways`, `SubscribedAt`), which needs that an event is in the log once,
and after its goroutine published it (`LogSound`), and that the record serves
the connections made and no other (`WaitersSound`).

### Cron

`FiresOncePerOccurrence` needs the cursor to be past all that was fired, except
while the call of a pass is under way, which has fired and not yet recorded
(`FiresSound`, `InCall`), and what a pass has collected to lie after what its
entry was fired for (`PassSound`); triggers and reloads come between.
`CursorNeverBack` is an action property, from `CursorSound` and the types.

`Cron_proofs` shows that no jump passes a fire by (`Silence`): months, days
and hours are intervals of minutes, and all minutes of an interval fail the field
that sends the loop on.  "Never" is right if what comes later on the calendar
comes within the search.  `SearchAssumption` says so: for each minute after the
start there is one within `SearchYears` years with the same time, month and day
of the month, and one with the same time, month and weekday.  Of the Gregorian
calendar this holds, for four years, except for starts between the February 29th
of 2096 and the February of 2100, from where the next leap day is in 2104
(and so around each year that is no leap year although divisible by 4).

### Conditions and scripts

`AnswersThisCall` rests on the binding of the status functions to the call, not
to the cached program.  For `SuccessIsWhole` the text copied so far ties pipe,
buffer and published lines together (`LinesSound`): what was written is what was
copied and what is in the pipe, the buffer is its unfinished line, the log its
whole lines.  A copy is done only when no process holds the stream
(`CopiersSound`), and a success only when both copies are done.

### Inputs

The two walks have one invariant.  `StackSound`: the calls under way are a path
along dependencies without repetition, and each dependency of a call was seen or
is the call above it.  `SeenSound`: what was seen has its dependencies seen, no
circle goes through it, and every input is seen, on the stack or a root to come.
So a search that ends has found the dependencies acyclic; a search that stops has
the circle on its stack (`CircleIsReal`), which is `RejectedForCause`; and in the
order, which does not look at the stack, a dependency on the stack would be a
circle after all (`NoGrey`).  The order is therefore one (`OrderSound`), and a
default is resolved after what it mentions.

`AdmissibleAsDeclared` goes by the cases of `Coerce` (`ScalarFits`, `ListFits`).
Where a value came from matters for durations only, which are not looked at when
they are durations already: nothing a caller or an author writes is one
(`LiteralsAssumption`, `JsonAssumption`: YAML and JSON have none), so that an
expression must have read it, which `TakenOver` excepts.  What `Within` lets pass is
in bounds by `WithinFits`, but for NaN, which `NaNAssumption` keeps out of the whole
numbers.  A null of the caller's (`GivenAsNull`) never stays where an input is
required (`ValuesSound`).  `ErrorsAreTheCallers`
uses what validation tried (`Valid`, kept in `PhaseSound`).

`RoundTrips` states `EnvRoundTrips` under `LibrariesReadBack`, which is about Go's
libraries alone and about the values at hand alone: `strconv` and `time` read a
number, a truth value or a duration from the text they made of it, and
`json.Unmarshal` reads a list from what `json.Marshal` made of it, whole numbers
as floats.  It names no input's constraints, so that what is proved is the part
of this code: a converted value passes the bounds, the choice and the lengths of
its declaration once more, and is converted to itself (`ScalarAgain`), also from
the float that JSON makes of an `int` (`JsonHolds`) and element by element
(`ElementAgain`, `ListAgain`), the strings of a list in a list included.  A
`json` input has no constraints, and there the theorem says no more than that
JSON survives a round trip.  The invariant is `RoundTripsSound`; on the instance
of `typed_inputs`, `LibrariesReadBack` holds in every state where all is resolved,
and TLC checks `EnvRoundTrips` there without it.

## 6. What is only model-checked, and what is not modelled

Only TLC: liveness (`Terminates`, `DueIsServed`, `StreamEnds`, `Completes`,
`Returned`, `BodyReturns`), which is out of the prover's reach; and
`LoadsAsWritten`, of which `WorkflowRun_proofs` has that loading is well defined
and keeps types, and not what the merged steps come to (sums over trees, and steps
told apart by their content, which only the instance's are).  That Go's libraries
read back what they write is a hypothesis of `RoundTrips`, and the instance's
tables have it.

Not modelled: the expression language, which is a library; containers, HTTP
calls, templates, uploads and notifications, which are single calls outside of
the program (to `StepRun` a choice of outcomes); masking, rendering, reports
and tracing, which are about text; the command line and the MCP server, which
wrap `engine.Run`; authentication, which keeps no state; the import of GitHub
Actions, a translation of one text into another; the audit log.  Outputs of
steps and timestamps are data no property here depends on.  YAML decoding and
time zones are left out.

## 7. Plan

Done: the scheduler with its proofs, the merging of files, the compiler and the
run of a compiled workflow, typed inputs, step execution and the actions that
wait, the expression cache, run state with its cleanup pass, the feed, cron
expressions and dispatch.

Done too: the proofs of all safety properties except those named in section 6.

Next, in this order:

1. `LoadsAsWritten`: that a file loads exactly when its includes form a tree.
2. The audit log: append, tail, a line cut off by a crash, restart.
