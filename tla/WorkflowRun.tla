----------------------------- MODULE WorkflowRun -----------------------------
(***************************************************************************)
(* A workflow from its source to its verdict: its files are loaded and     *)
(* compiled, the plan is run as DagRun promises, and every settled step    *)
(* folds its status into the scopes of the fragments it belongs to         *)
(* (engine.go:656-708), where the success() and failure() of a fragment's  *)
(* teardown read it.                                                       *)
(***************************************************************************)
EXTENDS Compile, Load, FiniteSets, FiniteSetsExt

CONSTANTS
  Libraries,  \* the directories a run may be started with
  Outcomes    \* how the action of a step may end

Steps == [id : STRING, action : STRING, file : STRING, needs : SUBSET STRING, coe : BOOLEAN]
ASSUME LibrariesAssumption ==
  \A disk \in Libraries :
    /\ IsFiniteSet(DOMAIN disk) /\ Root \in DOMAIN disk
    /\ \A p \in DOMAIN disk :
         /\ disk[p].include \in Seq(STRING) /\ disk[p].outputs \in BOOLEAN
         /\ disk[p].steps \in Seq(Steps) /\ disk[p].finally \in Seq(Steps)
ASSUME OutcomesAssumption == Outcomes \subseteq {"success", "failed", "skipped"}

VARIABLES
  files,    \* the directory of this run
  lib,      \* the workflows its files are loaded as
  nodes,    \* Graph.Order
  graph,    \* the plan the scheduler derives from it
  state,    \* what each node has come to
  halted,   \* a fatal status was harvested
  verdict,  \* the status of the run; "refused" when it does not compile
  scope     \* ScopeStatus: the worst status of each fragment, "" for none

source == <<files, lib, nodes>>
vars == <<source, graph, state, halted, verdict, scope>>

(* What is run was validated before (cli/run.go:48, catalogue.go:60).      *)
Compiled(l) ==
  IF Root \in DOMAIN l /\ Valid(l[Root]) THEN CompileWithOptions(l) ELSE Refused

Run == INSTANCE DagRun WITH
  Graphs <- {PlanOf(Compiled(Loaded(f)).nodes) : f \in Libraries}

(* The prefixes of the fragments, nested ones included.                    *)
Scopes(ns) == (UNION {Prefixes(ns[i].scope) : i \in DOMAIN ns}) \ {<<>>}

Init ==
  /\ files \in Libraries
  /\ lib = Loaded(files)
  /\ LET result == Compiled(lib) IN
       /\ nodes = result.nodes
       /\ verdict = IF result.ok THEN "running" ELSE "refused"
  /\ graph = PlanOf(nodes)
  /\ state = [k \in DOMAIN nodes |-> "waiting"]
  /\ halted = FALSE
  /\ scope = [p \in Scopes(nodes) |-> ""]

Rank(s) ==
  CASE s \in Run!Fatal -> 3
    [] s = "failed-continued" -> 2
    [] s \in {"success", "skipped"} -> 1
    [] OTHER -> 0

(* Mutant: only the innermost fragment hears of a step.                    *)
RecordScopeStatus_Innermost(k, status) ==
  LET folded == IF status = "failed-continued" THEN "failed" ELSE status IN
    scope' = [p \in DOMAIN scope |->
                IF /\ ~nodes[k].always
                   /\ p = nodes[k].scope
                   /\ Rank(folded) > Rank(scope[p])
                THEN folded ELSE scope[p]]

(* recordScopeStatus: the step's fragment and those around it keep the     *)
(* worst status; teardown steps do not count, and a failure that was let   *)
(* off does.                                                               *)
RecordScopeStatus(k, status) ==
  LET folded == IF status = "failed-continued" THEN "failed" ELSE status IN
    scope' = [p \in DOMAIN scope |->
                IF /\ ~nodes[k].always
                   /\ IsPrefix(p, nodes[k].scope)
                   /\ Rank(folded) > Rank(scope[p])
                THEN folded ELSE scope[p]]

Start(k) ==
  /\ Run!Start(k)
  /\ UNCHANGED <<source, scope>>

(* A failure under continue-on-error is let off (engine.go:601-618).       *)
Status(k, outcome) ==
  IF outcome = "failed" /\ nodes[k].coe THEN "failed-continued" ELSE outcome

Finish(k) ==
  /\ Run!Finish(k)
  /\ \E o \in Outcomes : state'[k] = Status(k, o)
  /\ RecordScopeStatus(k, state'[k])
  /\ UNCHANGED source

(* A cascade skip goes through exec as well.  A node without a key of its  *)
(* own is on no list.                                                      *)
Skip(k) ==
  /\ k \in graph.keys
  /\ Run!Skip(k)
  /\ RecordScopeStatus(k, "skipped")
  /\ UNCHANGED source

Halt == ~halted /\ Run!Halt /\ UNCHANGED <<source, scope>>
Conclude == Run!Conclude /\ UNCHANGED <<source, scope>>

Next ==
  \/ \E k \in DOMAIN nodes : Start(k) \/ Finish(k) \/ Skip(k)
  \/ Halt
  \/ Conclude

Spec == Init /\ [][Next]_vars

-----------------------------------------------------------------------------
(* Properties.                                                             *)

Settled(k) == state[k] \in Run!Settled
Files == DOMAIN lib
StepsOf(f) == lib[f].steps

AllNamed == \A f \in Files : \A i \in DOMAIN StepsOf(f) : StepsOf(f)[i].id # NoId
NoneDeclared == \A f \in Files : \A i \in DOMAIN StepsOf(f) : StepsOf(f)[i].needs = {}
EarlierDeclared ==
  \A f \in Files : \A i \in DOMAIN StepsOf(f) :
    StepsOf(f)[i].needs \subseteq Ids(SubSeq(StepsOf(f), 1, i - 1))
(* Two teardown steps do not share a name, and no step that includes is    *)
(* called "finally": its steps would go by the names of teardown steps.    *)
TeardownsNamed ==
  /\ \A f \in Files : \A i \in DOMAIN StepsOf(f) :
       StepsOf(f)[i].action = "include" => StepsOf(f)[i].id # "finally"
  /\ \A i, j \in DOMAIN nodes :
       nodes[i].always /\ nodes[j].always /\ nodes[i].id = nodes[j].id => i = j
InSourceOrder == NoneDeclared /\ AllNamed /\ TeardownsNamed

(* Steps that declare no needs run in the order of the source, fragments   *)
(* and their teardown where their include stands (compile.go:77-83).       *)
SourceOrder ==
  InSourceOrder =>
    \A i, j \in DOMAIN nodes : i < j /\ state[j] = "running" => Settled(i)

(* The steps of a fragment and of the ones nested in it; and those that    *)
(* its teardown tears down after, which the node of its outputs is not.    *)
Within(p) == {k \in graph.keys : ~nodes[k].always /\ IsPrefix(p, nodes[k].scope)}
Body(t) == {k \in Within(nodes[t].scope) : nodes[k].id # nodes[t].scope}

(* engine.go:239-242: "A fragment's finally: steps are gated by needs: on  *)
(* its main steps, so those statuses are always recorded before the        *)
(* teardown builds its expression env."                                    *)
TeardownAfterBody ==
  \A t \in graph.always : state[t] = "running" => \A k \in Body(t) : Settled(k)

(* A fragment that a `finally:` includes has teardown steps only.          *)
FromTeardown(p) ==
  \A k \in DOMAIN nodes : IsPrefix(p, nodes[k].scope) => nodes[k].always

(* What the success() and failure() of a fragment's teardown read, where   *)
(* the steps are ordered by the source alone.  Of a fragment on the way of *)
(* the `steps:` it is a failure exactly when one of its steps, or of those *)
(* nested in it, failed, let off or not; and that stays so.  Steps of a    *)
(* teardown never count (engine.go:660-665): in a fragment that some       *)
(* `finally:` includes nothing is recorded, and its own teardown reads     *)
(* success (engine.go:719-722) whatever its steps came to, which is not    *)
(* what schema/types.go:156-160, docs/FEATURES.md:144-148 and              *)
(* README.md:151-152 promise.                                              *)
TeardownReadsOutcome ==
  InSourceOrder =>
    \A t \in graph.always : state[t] = "running" =>
      LET p == nodes[t].scope IN
      IF FromTeardown(p) THEN scope[p] = ""
      ELSE /\ \A k \in Body(t) : Settled(k)
           /\ scope[p] = "failed" <=>
                \E k \in Within(p) : state[k] \in {"failed", "failed-continued"}

(* What the proofs about the scheduler assume of plans (DagScheduler's     *)
(* GraphsAssumption) is what the compiler makes of teardown steps with     *)
(* names of their own, includes among them or not: one need each           *)
(* (compile.go:201-214).                                                   *)
OneNeedPerTeardown ==
  TeardownsNamed => \A t \in graph.always : \A a, b \in graph.needs[t] : a = b

(* The ways from the root down its includes, in `steps:` first and then in *)
(* either block, and the name of the fragment at the end of one.           *)
IncludesOf(steps) == {s \in ToSet(steps) : s.action = "include"}
IncludeSteps == UNION {IncludesOf(lib[f].steps \o lib[f].finally) : f \in Files}
Routes(n) ==
  {w \in [1..n -> IncludeSteps] :
     /\ w[1] \in IncludesOf(StepsOf(Root))
     /\ \A i \in 1..(n - 1) :
          /\ w[i].file \in Files
          /\ w[i + 1] \in IncludesOf(lib[w[i].file].steps \o lib[w[i].file].finally)}
ScopeOf(n, w) == [i \in 1..n |-> w[i].id]

(* When declared needs point backwards and ids are there, a run never      *)
(* stalls on the needs the compiler added: every step is settled, and the  *)
(* verdict is a real one. Every step in the `finally:` of every fragment   *)
(* that is included has been executed by then, where no gate is closed,    *)
(* and so has all that came of includes in such a block. Two things are    *)
(* left out. The root's own `finally:` is never compiled (compile.go:75),  *)
(* so no teardown step is the root's, although schema/types.go:149-152,    *)
(* docs/FEATURES.md:217 and CHANGELOG.md:87-90 say that it runs. And where *)
(* two teardown steps get one id (TeardownsNamed is false), against        *)
(* compile.go:203-205, the run does stall.                                 *)
NothingStalls ==
  verdict \notin {"running", "refused"} /\ AllNamed /\ EarlierDeclared /\ TeardownsNamed =>
    /\ \A k \in DOMAIN nodes : Settled(k)
    /\ verdict # "skipped"
    /\ \A n \in 1..MaxIncludeDepth : \A w \in Routes(n) :
         \A s \in ToSet(lib[w[n].file].finally) : s.action # "include" =>
           \E k \in DOMAIN nodes :
             /\ nodes[k].scope = ScopeOf(n, w) /\ nodes[k].local = s.id
             /\ nodes[k].always /\ ~nodes[k].hidden
    /\ \A k \in DOMAIN nodes : nodes[k].always =>
         /\ state[k] # "skipped" \/ "skipped" \in Outcomes
         /\ nodes[k].scope # <<>>

(* The files a file includes, and the ways from the root along them.  The  *)
(* `finally:` of the root is not looked at.                                *)
Uses(f) ==
  LET steps == IF f = Root THEN lib[f].steps ELSE lib[f].steps \o lib[f].finally
  IN {steps[i].file : i \in {j \in DOMAIN steps : steps[j].action = "include"}}
Used == {Root} \cup UNION {Uses(f) : f \in Files}
Ways(n) ==
  {w \in [1..n -> Used] :
     w[1] = Root /\ \A i \in 1..(n - 1) : w[i] \in Files /\ w[i + 1] \in Uses(w[i])}

(* A workflow is refused exactly when it is not there or not valid, or     *)
(* some way along its includes meets a file twice, goes too deep, or ends  *)
(* in a file that cannot be loaded or is not valid; using one fragment     *)
(* twice side by side is fine (compile.go:99-120).                         *)
RefusedForAReason ==
  (\A k \in DOMAIN nodes : state[k] = "waiting") =>
    (verdict = "refused" <=>
       \/ Root \notin Files
       \/ ~Valid(lib[Root])
       \/ \E n \in 2..(MaxIncludeDepth + 2) : \E w \in Ways(n) :
            \/ n = MaxIncludeDepth + 2
            \/ w[n] \in {w[i] : i \in 1..(n - 1)}
            \/ w[n] \notin Files
            \/ ~Valid(lib[w[n]]))

(* The files met from one on by document-level includes: the smallest set  *)
(* that is closed under them.                                              *)
Met(path) ==
  {p \in Paths(files) :
     \A S \in SUBSET Paths(files) :
       /\ path \in S
       /\ \A q \in S \cap DOMAIN files : ToSet(files[q].include) \subseteq S
       => p \in S}

(* How often a file is included from within a set of files.                *)
Inclusions(S, path) ==
  Cardinality(UNION {{<<q, i>> : i \in {j \in DOMAIN files[q].include :
                                         files[q].include[j] = path}} : q \in S})

IsTree(path) ==
  LET S == Met(path) IN
  /\ S \subseteq DOMAIN files
  /\ \A p \in S : Inclusions(S, p) = IF p = path THEN 0 ELSE 1

(* Within the tree S, p goes before q in the merged steps: it is below q,  *)
(* or on an earlier branch.                                                *)
Earlier(S, p, q) ==
  \/ p # q /\ p \in Met(q)
  \/ \E r \in S : \E i, j \in DOMAIN files[r].include :
       i < j /\ p \in Met(files[r].include[i]) /\ q \in Met(files[r].include[j])

(* The one of a set of files whose setting holds: a file's own goes before *)
(* those it includes, and these in their order.                            *)
Nearest(S, T, p) ==
  p \in T /\ \A q \in T \ {p} : q \in Met(p) \/ (p \notin Met(q) /\ Earlier(S, p, q))

StepsAsWritten(path, S) ==
  LET steps == lib[path].steps IN
  /\ Len(steps) = MapThenSumSet(LAMBDA p : Len(files[p].steps), S)
  /\ ToSet(steps) = UNION {ToSet(files[p].steps) : p \in S}
  /\ \A p, q \in S, i, j \in DOMAIN steps :
       steps[i] \in ToSet(files[p].steps) /\ steps[j] \in ToSet(files[q].steps)
       /\ Earlier(S, p, q) => i < j

(* A file loads exactly when the files it includes form a tree: a circle   *)
(* ends in an error, and so does a file two others share.  Then every step *)
(* of the tree is there once, a file's after those of all it includes, in  *)
(* their order; a name, and the shell, has the value of the nearest file   *)
(* that sets it (parse.go:33-89; docs/FEATURES.md:166-175).                *)
LoadsAsWritten ==
  (\A k \in DOMAIN nodes : state[k] = "waiting") =>
    \A path \in DOMAIN files :
      /\ path \in Files <=> IsTree(path)
      /\ path \in Files =>
           LET S == Met(path)
               env == lib[path].env
               Setting(k) == {p \in S : k \in DOMAIN files[p].env}
               WithShell == {p \in S : files[p].shell # ""} IN
           /\ StepsAsWritten(path, S)
           /\ DOMAIN env = UNION {DOMAIN files[p].env : p \in S}
           /\ \A k \in DOMAIN env :
                \E p \in S : Nearest(S, Setting(k), p) /\ env[k] = files[p].env[k]
           /\ WithShell # {} =>
                \E p \in S : Nearest(S, WithShell, p) /\ lib[path].shell = files[p].shell

(* docs/FEATURES.md:139: "`success()` | Run has not failed so far": while  *)
(* nothing of the run has failed, success() holds in a fragment's teardown *)
(* (evaluator.go:299-311).                                                 *)
SuccessUnlessFailed ==
  (\A k \in DOMAIN nodes : state[k] \notin {"failed", "failed-continued"}) =>
    \A t \in graph.always : state[t] = "running" =>
      scope[nodes[t].scope] \in {"", "success"}
=============================================================================
