------------------------------ MODULE StepBody ------------------------------
(***************************************************************************)
(* The actions that wait for something outside of the engine:              *)
(* internal/actions/run.go (a script and the processes it leaves behind),  *)
(* wait.go (a probe that is repeated) and prompt.go (a line from the       *)
(* terminal).                                                              *)
(*                                                                         *)
(* A run action starts the script as the leader of a process group; exec   *)
(* copies each of its streams to a line writer in a goroutine of its own.  *)
(* What is written is a sequence of pieces and line ends.  A process may   *)
(* have left the group, and a stream is open as long as someone holds it.  *)
(***************************************************************************)
EXTENDS Integers, Sequences, SequencesExt

CONSTANTS
  Processes,   \* of the script
  Shell,       \* the one exec starts
  Group,       \* those in its process group
  Streams,     \* "stdout", "stderr"
  Scripts,     \* what each process writes to each stream: sequences of tokens
  LineEnd,     \* the token of a line end
  OutputFiles, \* $WEFTLY_OUTPUT: sequences of lines, see ParseOutputFile
  MaxProbes,   \* bound: the probes that fit into the budget of a wait action
  Prompts,     \* configurations of prompt actions, see Ask
  TypedLines,  \* what the user may type
  Eof          \* the terminal is closed

Tokens == UNION {UNION {ToSet(t[p][s]) : p \in Processes, s \in Streams} : t \in Scripts}
ASSUME ScriptsAssumption ==
  Scripts # {} /\ Scripts \subseteq [Processes -> [Streams -> Seq(Tokens)]]

VARIABLES
  body,      \* what the step does: "run", "wait", "prompt"
  prompt,    \* the configuration of a prompt action
  stage,     \* "idle", "started", "reaped" (wait: "held", "pause"), "returned"
  ctx,       \* the step's context: "live", "deadline", "cancelled"
  interrupt, \* exec has seen the end of the context and killed the group
  running,   \* the processes that are alive
  exit,      \* of the shell: "none", "zero", "nonzero"
  todo,      \* what each process still has to write
  pipe,      \* what is written and not yet copied
  copier,    \* the goroutine of each stream: "copying", "done", "cut"
  buf,       \* lineWriter.buf
  log,       \* the lines published as StepLog
  wrote,     \* history: everything written to each stream
  probes,    \* of a wait action
  result,    \* "none", "success", "failed", "timed out"
  outputs    \* what the action returns
streams == <<todo, pipe, copier, buf, log, wrote>>
script == <<interrupt, running, exit, streams>>
bodyVars == <<body, prompt, stage, ctx, script, probes, result, outputs>>

NoOutputs == [k \in {} |-> <<>>]

BodyInit ==
  /\ body \in {"run", "wait", "prompt"}
  /\ prompt \in IF body = "prompt" THEN Prompts ELSE {CHOOSE p \in Prompts : TRUE}
  /\ stage = "idle" /\ ctx = "live" /\ interrupt = FALSE
  /\ running = {} /\ exit = "none"
  /\ todo \in IF body = "run" THEN Scripts ELSE {CHOOSE t \in Scripts : TRUE}
  /\ pipe = [s \in Streams |-> <<>>]
  /\ copier = [s \in Streams |-> "copying"]
  /\ buf = [s \in Streams |-> <<>>]
  /\ log = [s \in Streams |-> <<>>]
  /\ wrote = [s \in Streams |-> <<>>]
  /\ probes = 0 /\ result = "none" /\ outputs = NoOutputs

-----------------------------------------------------------------------------
(* The output file.  A line is [form, key, value, text]: of the form       *)
(* "value" (key=value), "open" (key<<value), "blank" (empty or a comment)  *)
(* or "other"; text is all of it.                                          *)

With(f, k, v) == [m \in DOMAIN f \cup {k} |-> IF m = k THEN v ELSE f[m]]
Empty == "empty"

(* One round of the scanner.  `open` holds the key and the delimiter of    *)
(* the block that is being read; empty lines at its start are lost.        *)
ParseLine(p, line) ==
  IF p.open # <<>>
  THEN IF line.text = p.open[2]
       THEN [p EXCEPT !.out = With(@, p.open[1], p.block), !.open = <<>>, !.block = <<>>]
       ELSE [p EXCEPT !.block = IF @ = <<>> /\ line.text = Empty THEN @ ELSE Append(@, line.text)]
  ELSE CASE line.form = "blank" -> p
         [] line.form = "value" -> [p EXCEPT !.out = With(@, line.key, <<line.value>>)]
         [] line.form = "open" -> [p EXCEPT !.open = <<line.key, line.value>>]
         [] line.form = "other" -> [p EXCEPT !.ok = FALSE]

(* An unfinished block is dropped without an error.                        *)
ParseOutputFile(file) ==
  FoldLeft(LAMBDA p, line : IF p.ok THEN ParseLine(p, line) ELSE p,
           [ok |-> TRUE, out |-> NoOutputs, open |-> <<>>, block |-> <<>>], file)

-----------------------------------------------------------------------------
(* run: the processes.                                                     *)

StartRun ==
  /\ body = "run" /\ stage = "idle"
  /\ stage' = "started"
  /\ running' = Processes
  /\ UNCHANGED <<body, prompt, ctx, interrupt, exit, streams, probes, result, outputs>>

Write(p, s) ==
  /\ p \in running /\ todo[p][s] # <<>>
  /\ todo' = [todo EXCEPT ![p][s] = Tail(@)]
  /\ pipe' = [pipe EXCEPT ![s] = IF copier[s] = "copying" THEN Append(@, Head(todo[p][s])) ELSE @]
  /\ wrote' = [wrote EXCEPT ![s] = Append(@, Head(todo[p][s]))]
  /\ UNCHANGED <<body, prompt, stage, ctx, interrupt, running, exit, copier, buf, log, probes, result, outputs>>

(* A process ends when it has nothing more to write.                       *)
End(p) ==
  /\ p \in running /\ \A s \in Streams : todo[p][s] = <<>>
  /\ running' = running \ {p}
  /\ IF p = Shell THEN exit' \in {"zero", "nonzero"} ELSE UNCHANGED exit
  /\ UNCHANGED <<body, prompt, stage, ctx, interrupt, streams, probes, result, outputs>>

(* The step's timeout, or the cancellation of the run.                     *)
CtxDone ==
  /\ ctx = "live" /\ stage \in {"started", "reaped"}
  /\ ctx' \in {"deadline", "cancelled"}
  /\ UNCHANGED <<body, prompt, stage, script, probes, result, outputs>>

(* Cmd.Cancel, unless exec has reaped the shell: SIGKILL to the group.     *)
Kill ==
  /\ body = "run" /\ ctx # "live" /\ stage = "started" /\ ~interrupt
  /\ interrupt' = TRUE
  /\ running' = running \ Group
  /\ exit' = IF exit = "none" THEN "nonzero" ELSE exit
  /\ UNCHANGED <<body, prompt, stage, ctx, streams, probes, result, outputs>>

Reap ==
  /\ body = "run" /\ stage = "started" /\ Shell \notin running
  /\ stage' = "reaped"
  /\ UNCHANGED <<body, prompt, ctx, script, probes, result, outputs>>

-----------------------------------------------------------------------------
(* run: the copies.                                                        *)

(* lineWriter.Write: a line goes out when its end has come.                *)
LineWriter(lw, token) ==
  IF token = LineEnd THEN [buf |-> <<>>, log |-> Append(lw.log, lw.buf)]
  ELSE [lw EXCEPT !.buf = Append(@, token)]

(* The line writer after a piece of text.                                  *)
Fed(lw, text) ==
  LET after[n \in 0..Len(text)] ==
        IF n = 0 THEN lw ELSE LineWriter(after[n - 1], text[n])
  IN after[Len(text)]

Copy(s) ==
  /\ stage \in {"started", "reaped"} /\ copier[s] = "copying" /\ pipe[s] # <<>>
  /\ LET lw == Fed([buf |-> buf[s], log |-> log[s]], pipe[s]) IN
     /\ buf' = [buf EXCEPT ![s] = lw.buf]
     /\ log' = [log EXCEPT ![s] = lw.log]
  /\ pipe' = [pipe EXCEPT ![s] = <<>>]
  /\ UNCHANGED <<body, prompt, stage, ctx, interrupt, running, exit, todo, copier, wrote, probes, result, outputs>>

(* Nobody holds the stream any more.                                       *)
CopyEnd(s) ==
  /\ body = "run" /\ stage \in {"started", "reaped"} /\ copier[s] = "copying"
  /\ pipe[s] = <<>> /\ running = {}
  /\ copier' = [copier EXCEPT ![s] = "done"]
  /\ UNCHANGED <<body, prompt, stage, ctx, interrupt, running, exit, todo, pipe, buf, log, wrote, probes, result, outputs>>

(* Mutant: the delay is not set.                                           *)
WaitDelay_Unset ==
  /\ FALSE
  /\ UNCHANGED bodyVars

(* Two seconds after the shell has ended the streams are closed.           *)
WaitDelay ==
  /\ stage = "reaped" /\ \E s \in Streams : copier[s] = "copying"
  /\ copier' = [s \in Streams |-> IF copier[s] = "copying" THEN "cut" ELSE copier[s]]
  /\ pipe' = [s \in Streams |-> IF copier[s] = "copying" THEN <<>> ELSE pipe[s]]
  /\ UNCHANGED <<body, prompt, stage, ctx, interrupt, running, exit, todo, buf, log, wrote, probes, result, outputs>>

(* Mutant: the exit code alone decides.                                    *)
WaitError_ExitOnly == exit # "zero"

(* What Cmd.Wait returns: the exit code, the end of the context, or streams*)
(* that had to be closed.                                                  *)
WaitError == exit # "zero" \/ interrupt \/ \E s \in Streams : copier[s] = "cut"

(* Wait has returned: the last piece of a line is flushed; a deadline goes *)
(* before the exit code; the output file of a script that succeeded is     *)
(* read.                                                                   *)
ReturnRun ==
  /\ stage = "reaped" /\ \A s \in Streams : copier[s] # "copying"
  /\ log' = [s \in Streams |-> IF buf[s] = <<>> THEN log[s] ELSE Append(log[s], buf[s])]
  /\ buf' = [s \in Streams |-> <<>>]
  /\ stage' = "returned"
  /\ \/ ctx = "deadline" /\ result' = "timed out" /\ UNCHANGED outputs
     \/ ctx # "deadline" /\ WaitError /\ result' = "failed" /\ UNCHANGED outputs
     \/ /\ ctx # "deadline" /\ ~WaitError
        /\ \E f \in OutputFiles :
             LET parsed == ParseOutputFile(f) IN
             IF parsed.ok THEN result' = "success" /\ outputs' = parsed.out
             ELSE result' = "failed" /\ UNCHANGED outputs
  /\ UNCHANGED <<body, prompt, ctx, interrupt, running, exit, todo, pipe, copier, wrote, probes>>

RunStep ==
  \/ StartRun \/ Kill \/ Reap \/ WaitDelay \/ ReturnRun
  \/ \E p \in Processes : End(p) \/ \E s \in Streams : Write(p, s)
  \/ \E s \in Streams : Copy(s) \/ CopyEnd(s)

-----------------------------------------------------------------------------
(* wait: a command is run until it succeeds, the next round would be late, *)
(* or the context has ended.  Only the shell of a probe is killed, and its *)
(* output is read without a delay: whoever it leaves behind holds the      *)
(* action up.                                                              *)

StartWait ==
  /\ body = "wait" /\ stage = "idle"
  /\ stage' = "started"
  /\ UNCHANGED <<body, prompt, ctx, script, probes, result, outputs>>

LeaveBehind ==
  /\ body = "wait" /\ stage = "started"
  /\ stage' = "held"
  /\ UNCHANGED <<body, prompt, ctx, script, probes, result, outputs>>

Probe ==
  /\ body = "wait" /\ stage \in {"started", "held"}
  /\ probes' = probes + 1
  /\ \/ /\ stage' = "returned" /\ result' = "success"
        /\ outputs' = With(NoOutputs, "attempts", <<probes'>>)
     \/ /\ ctx # "live" \/ probes' = MaxProbes
        /\ stage' = "returned" /\ result' = "failed"
        /\ UNCHANGED outputs
     \/ /\ ctx = "live" /\ probes' < MaxProbes
        /\ stage' = "pause"
        /\ UNCHANGED <<result, outputs>>
  /\ UNCHANGED <<body, prompt, ctx, script>>

(* The pause between two probes.                                           *)
Pause ==
  /\ body = "wait" /\ stage = "pause"
  /\ \/ ctx # "live" /\ stage' = "returned" /\ result' = "failed"
     \/ stage' = "started" /\ UNCHANGED result
  /\ UNCHANGED <<body, prompt, ctx, script, probes, outputs>>

WaitStep == StartWait \/ LeaveBehind \/ Probe \/ Pause

-----------------------------------------------------------------------------
(* prompt: [type, default, options, autoYes, terminal].  The answer is a   *)
(* set: empty for an error.                                                *)

Truthy(line) == IF line \in {"y", "yes", "true", "t", "1"} THEN "true" ELSE "false"
NoDefault == ""

CoerceAnswer(p) ==
  CASE p.type = "confirm" -> {Truthy(p.default)}
    [] p.type = "select" -> {p.default} \cap Range(p.options)
    [] OTHER -> {p.default}

(* A number typed for a select, as the option it stands for.               *)
Choice(p, line) ==
  IF line = "" THEN {p.default} \cap Range(p.options)
  ELSE {p.options[i] : i \in {i \in DOMAIN p.options : ToString(i) = line}}

InteractiveAsk(p, line) ==
  CASE line = Eof -> {}
    [] line # Eof /\ p.type = "confirm" -> {Truthy(IF line = "" THEN p.default ELSE line)}
    [] line # Eof /\ p.type = "select" -> Choice(p, line)
    [] OTHER -> {IF line = "" THEN p.default ELSE line}

AutoAnswered(p) == p.type = "confirm" /\ p.autoYes

Ask(p, line) ==
  IF AutoAnswered(p) THEN {"true"}
  ELSE IF ~p.terminal THEN (IF p.default = NoDefault THEN {} ELSE CoerceAnswer(p))
  ELSE InteractiveAsk(p, line)

StartPrompt ==
  /\ body = "prompt" /\ stage = "idle"
  /\ stage' = "started"
  /\ UNCHANGED <<body, prompt, ctx, script, probes, result, outputs>>

(* The read of a line does not look at the context.                        *)
ReturnPrompt ==
  /\ body = "prompt" /\ stage = "started"
  /\ stage' = "returned"
  /\ \E line \in TypedLines \cup {Eof} :
       LET answers == Ask(prompt, line) IN
       \/ answers = {} /\ result' = "failed" /\ UNCHANGED outputs
       \/ \E a \in answers : result' = "success" /\ outputs' = With(NoOutputs, "value", <<a>>)
  /\ UNCHANGED <<body, prompt, ctx, script, probes>>

PromptStep == StartPrompt \/ ReturnPrompt

-----------------------------------------------------------------------------
(* Properties.                                                             *)

Ends(text) == {i \in DOMAIN text : text[i] = LineEnd}

(* The n-th of a set of positions, and the line that ends before one.      *)
Nth(E, n) == CHOOSE e \in {x \in E : Cardinality({y \in E : y <= x}) = n} : TRUE
LineBefore(text, e) ==
  LET before == {i \in Ends(text) : i < e} IN
  SubSeq(text, IF before = {} THEN 1 ELSE Max(before) + 1, e - 1)

Cut(text, E) == [n \in 1..Cardinality(E) |-> LineBefore(text, Nth(E, n))]

(* What was written, as lines: a last piece without a line end is one.     *)
Lines(text) ==
  Cut(text, IF text = <<>> \/ Last(text) = LineEnd THEN Ends(text)
            ELSE Ends(text) \cup {Len(text) + 1})

(* A script that succeeded has exited with zero in time, and every line    *)
(* that it and the processes it started wrote is published, whole, once,   *)
(* and in the order written (run.go:118-126: "every byte the child wrote   *)
(* is delivered").                                                         *)
SuccessIsWhole ==
  body = "run" /\ result = "success" =>
    /\ exit = "zero" /\ ctx # "deadline"
    /\ \A s \in Streams : log[s] = Lines(wrote[s])

=============================================================================
