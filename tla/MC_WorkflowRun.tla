---------------------------- MODULE MC_WorkflowRun ----------------------------
(***************************************************************************)
(* Workflows that include a fragment alone, between two steps, or twice;   *)
(* fragments of two or three steps with needs, without ids, nesting        *)
(* another, themselves, their caller or a missing file, with and without   *)
(* teardown and outputs.                                                   *)
(***************************************************************************)
EXTENDS WorkflowRun

Step(id, needs) ==
  [id |-> id, action |-> "run", file |-> "", needs |-> needs, coe |-> FALSE]
Anonymous == [Step(NoId, {}) EXCEPT !.action = "assert"]
Including(id, file, needs, coe) ==
  [id |-> id, action |-> "include", file |-> file, needs |-> needs, coe |-> coe]
Workflow(steps, finally, outputs) ==
  [include |-> <<>>, steps |-> steps, finally |-> finally, outputs |-> outputs,
   env |-> <<>>, shell |-> ""]

MainSteps ==
  {<<Including("inc", "frag", {}, c)>> : c \in BOOLEAN}
  \cup {<<Step("a", {}), Including("inc", "frag", n, FALSE), Step("b", m)>> :
          n \in {{}, {"a"}}, m \in {{}, {"a"}, {"inc"}}}
  \cup {<<Step("a", {"b"}), Including("inc", "frag", {}, TRUE), Step("b", {})>>,
        <<Including("inc", "frag", {}, FALSE), Including("two", "frag", {}, FALSE)>>}

Seconds ==
  {Step("y", n) : n \in {{}, {"x"}}}
  \cup {Anonymous}
  \cup {Including("in", f, {}, c) : f \in {"inner"}, c \in BOOLEAN}
  \cup {Including("in", f, {}, FALSE) : f \in {"frag", "main", "missing"}}

FragSteps ==
  {<<Step("x", {}), y>> : y \in Seconds}
  \cup {<<Anonymous, Anonymous>>,
        <<Step("x", {}), Step("y", {"x"}), Step("z", {"x"})>>,
        <<Step("x", {"z"}), Step("y", {}), Step("z", {})>>}

Finals ==
  {<<>>, <<Step("t", {})>>, <<Step("t", {}), Step("u", {})>>, <<Anonymous, Anonymous>>,
   <<Including("t", "inner", {}, FALSE), Step("u", {})>>,
   <<Including("t", "deep", {}, FALSE), Step("d", {})>>,
   <<Including("in", "inner", {}, FALSE)>>}

Frags == {Workflow(s, f, o) : s \in FragSteps, f \in Finals, o \in BOOLEAN}

Inners ==
  {Workflow(<<Step("w", {})>>, f, o) : f \in {<<>>, <<Step("v", {})>>}, o \in BOOLEAN}
  \cup {Workflow(<<Including("deep", "deep", {}, FALSE)>>, <<>>, TRUE)}

MCLibraries ==
  {[main |-> Workflow(m, <<Including("never", "missing", {}, FALSE)>>, FALSE),
    frag |-> f, inner |-> i, deep |-> Workflow(<<Step("d", {})>>, <<>>, FALSE)] :
     m \in MainSteps, f \in Frags, i \in Inners}

(* What "inner" holds only matters to the fragments that include it; a     *)
(* teardown that includes is tried under the plain roots.                  *)
HasInclude(steps) == \E k \in DOMAIN steps : steps[k].action = "include"
Nests(f) ==
  LET steps == f.steps \o f.finally IN \E k \in DOMAIN steps : steps[k].file = "inner"
Plainest == Workflow(<<Step("w", {})>>, <<>>, FALSE)
Fragments ==
  {l \in MCLibraries :
     /\ Nests(l.frag) \/ l.inner = Plainest
     /\ HasInclude(l.frag.finally) => Len(l.main.steps) = 1}

(* Directories of four files that include one another as documents:        *)
(* chains, forks, circles, shared files, and a file that is missing; the   *)
(* entry has a setting of its own or not.                                  *)
Lists(paths) == {<<>>} \cup {<<p>> : p \in paths} \cup {<<p, q>> : p, q \in paths}
File(path, include, set) ==
  [Workflow(<<Step(path, {})>>, <<>>, FALSE) EXCEPT
     !.include = include, !.env = [k \in set |-> path],
     !.shell = IF "k" \in set THEN path ELSE ""]
Documents ==
  {[p \in {"main", "b", "c", "d"} |->
      CASE p = "main" -> File(p, a, set)
        [] p = "b" -> File(p, b, {"k"})
        [] p = "c" -> File(p, c, {"k"})
        [] p = "d" -> File(p, d, {"k", "l"})] :
     a \in Lists({"b", "c", "d"}), b \in Lists({"c", "d", "main"}),
     c \in {<<>>, <<"d">>, <<"gone">>}, d \in {<<>>, <<"b">>}, set \in {{}, {"k"}}}

(* Fragments that include a document themselves, one twice over.           *)
Mixed ==
  {[main |-> Workflow(m, <<>>, FALSE),
    frag |-> [Workflow(<<Step("x", {}), Step("y", {})>>, <<Step("t", {})>>, TRUE) EXCEPT !.include = i],
    inner |-> [Plainest EXCEPT !.include = <<"deep">>],
    deep |-> Workflow(<<Step("d", {})>>, <<>>, FALSE)] :
     m \in MainSteps, i \in Lists({"inner", "deep"})}

(* An include that goes by the name of the `finally:` block beside it.     *)
Clashing ==
  {[main |-> Workflow(<<Including("inc", "frag", {}, FALSE)>>, <<>>, FALSE),
    frag |-> Workflow(<<Including("finally", "inner", {}, FALSE)>>, <<Step("t", {})>>, FALSE),
    inner |-> Workflow(<<Step("t", {})>>, <<>>, FALSE)]}

MCUsed == Fragments \cup Documents \cup Mixed \cup Clashing
=============================================================================
