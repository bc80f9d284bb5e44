------------------------------- MODULE Compile -------------------------------
(***************************************************************************)
(* internal/compile/compile.go: a workflow and the fragments it includes   *)
(* become one sequence of nodes with needs; and scheduler.go:31-68, which  *)
(* turns that sequence into the plan it runs.                              *)
(*                                                                         *)
(* A library maps file names to workflows.  An id "inc.x" is the sequence  *)
(* <<"inc", "x">>; the id of a node that has none is empty.  Inputs,       *)
(* expressions and paths are left out: the binding of `with:` and the      *)
(* confinement to the catalogue only decide whether there is an error.     *)
(***************************************************************************)
EXTENDS Integers, Sequences, SequencesExt

CONSTANT MaxIncludeDepth
ASSUME DepthAssumption == MaxIncludeDepth \in Nat

Root == "main"
NoId == ""

(* What the compiler is given.                                             *)
Ids(steps) == {steps[i].id : i \in DOMAIN steps} \ {NoId}

(* schema.Validate: ids present where the action needs one, and unique;    *)
(* needs name steps of the same file and are not circular.                 *)
Valid(wf) ==
  LET steps == wf.steps IN
    /\ steps # <<>>
    /\ \A i \in DOMAIN steps : steps[i].id = NoId => steps[i].action = "assert"
    /\ \A i, j \in DOMAIN steps :
         steps[i].id = steps[j].id /\ steps[i].id # NoId => i = j
    /\ \A i \in DOMAIN steps : steps[i].needs \subseteq Ids(steps)
    /\ \A S \in SUBSET DOMAIN steps :
         (\A i \in S : \E j \in S : steps[j].id \in steps[i].needs) => S = {}

-----------------------------------------------------------------------------
(* buildNode.                                                              *)
Leaf(s, prefix) ==
  [id |-> IF s.id = NoId THEN <<>> ELSE Append(prefix, s.id),
   local |-> s.id,
   needs |-> {<<d>> : d \in s.needs},
   scope |-> prefix,
   hidden |-> FALSE, always |-> FALSE, coe |-> s.coe]

(* A fragment's nodes get the include's name in front, nested ones have it *)
(* already; needs that name a step of the fragment are rewritten too.      *)
Qualify(nodes, child, prefix) ==
  [i \in DOMAIN nodes |->
     [nodes[i] EXCEPT
        !.id = IF IsPrefix(prefix, @) THEN @ ELSE Append(prefix, nodes[i].local),
        !.needs = {IF Len(d) = 1 /\ d[1] \in Ids(child.steps) THEN prefix \o d ELSE d :
                     d \in @}]]

(* applyIncludeModifiers: the include's needs go to its first node, its    *)
(* continue-on-error to all.                                               *)
Modify(nodes, s) ==
  [i \in DOMAIN nodes |->
     [nodes[i] EXCEPT
        !.coe = @ \/ s.coe,
        !.needs = IF i = 1 THEN @ \cup {<<d>> : d \in s.needs} ELSE @]]

(* Mutant: teardown steps are ordinary steps.                              *)
Teardown_Ordinary(nodes, prefix, last) ==
  LET id(i) == prefix \o <<"finally", nodes[i].local>> IN
    [i \in DOMAIN nodes |->
       [nodes[i] EXCEPT !.id = id(i),
                        !.needs = {IF i = 1 THEN last ELSE id(i - 1)}]]

(* Mutant: a teardown step needs all that are before it.                   *)
Teardown_AfterAll(nodes, prefix, last) ==
  LET id(i) == prefix \o <<"finally", nodes[i].local>> IN
    [i \in DOMAIN nodes |->
       [nodes[i] EXCEPT !.always = TRUE,
                        !.id = id(i),
                        !.needs = {last} \cup {id(j) : j \in 1..(i - 1)}]]

(* The `finally:` steps: a chain behind the last node of the fragment.     *)
Teardown(nodes, prefix, last) ==
  LET id(i) == prefix \o <<"finally", nodes[i].local>> IN
    [i \in DOMAIN nodes |->
       [nodes[i] EXCEPT !.always = TRUE,
                        !.id = id(i),
                        !.needs = {IF i = 1 THEN last ELSE id(i - 1)}]]

(* The node that surfaces the outputs of an include, under its id.         *)
Shim(s, prefix, last) ==
  [id |-> prefix, local |-> s.id, needs |-> {last}, scope |-> prefix,
   hidden |-> TRUE, always |-> FALSE, coe |-> FALSE]

Refused == [ok |-> FALSE, nodes |-> <<>>]
Made(nodes) == [ok |-> TRUE, nodes |-> nodes]

(* Mutant: one level of include too many.                                  *)
MayInclude_OneMore(lib, file, chain) ==
  /\ Len(chain) <= MaxIncludeDepth + 1
  /\ file \notin ToSet(chain)
  /\ file \in DOMAIN lib
  /\ Valid(lib[file])

(* Depth, cycle, loading, validation: compile.go:99-119.                   *)
MayInclude(lib, file, chain) ==
  /\ Len(chain) <= MaxIncludeDepth
  /\ file \notin ToSet(chain)
  /\ file \in DOMAIN lib
  /\ Valid(lib[file])

(* A step-level `include:`; chain is the files on the way here, fragments  *)
(* what the files come to, by where they are included.                     *)
Expand(lib, fragments, s, scope, chain) ==
  IF ~MayInclude(lib, s.file, chain) THEN Refused
  ELSE LET child == lib[s.file]
           prefix == Append(scope, s.id)
           fragment == fragments[[file |-> s.file, prefix |-> prefix,
                                  chain |-> Append(chain, s.file)]]
       IN IF ~fragment.body.ok \/ ~fragment.final.ok THEN Refused
          ELSE LET main == Modify(Qualify(fragment.body.nodes, child, prefix), s)
                   whole == main \o Teardown(fragment.final.nodes, prefix, Last(main).id)
               IN Made(whole \o IF child.outputs
                                THEN <<Shim(s, prefix, Last(whole).id)>> ELSE <<>>)

CompileSteps(lib, fragments, steps, scope, chain) ==
  LET piece == [i \in DOMAIN steps |->
                  IF steps[i].action = "include"
                  THEN Expand(lib, fragments, steps[i], scope, chain)
                  ELSE Made(<<Leaf(steps[i], scope)>>)]
  IN IF \A i \in DOMAIN steps : piece[i].ok
     THEN Made(FlattenSeq([i \in DOMAIN steps |-> piece[i].nodes]))
     ELSE Refused

(* A file, the name it is included under, and the files on the way to it.  *)
Sites(lib) == [file : DOMAIN lib, prefix : Seq(STRING), chain : Seq(DOMAIN lib)]

(* What the files come to: the recursion of compileSteps, which ends as no *)
(* file is on its own chain.                                               *)
FragmentsOf(lib) ==
  LET fragment[x \in Sites(lib)] ==
        [body |-> CompileSteps(lib, fragment, lib[x.file].steps, x.prefix, x.chain),
         final |-> CompileSteps(lib, fragment, lib[x.file].finally, x.prefix, x.chain)]
  IN fragment

(* Mutant: the shim does not stand for its include.                        *)
ImplicitNeeds_ShimUnseen(nodes) ==
  [i \in DOMAIN nodes |->
     LET before == {j \in 1..(i - 1) : nodes[j].id # <<>> /\ ~nodes[j].hidden}
     IN IF nodes[i].hidden \/ nodes[i].needs # {} \/ before = {} THEN nodes[i]
        ELSE [nodes[i] EXCEPT !.needs = {nodes[Max(before)].id}]]

(* applyImplicitNeeds: a node without needs gets the last named one before *)
(* it; nodes without a name are passed over.                               *)
ImplicitNeeds(nodes) ==
  [i \in DOMAIN nodes |->
     LET before == {j \in 1..(i - 1) : nodes[j].id # <<>>}
     IN IF nodes[i].hidden \/ nodes[i].needs # {} \/ before = {} THEN nodes[i]
        ELSE [nodes[i] EXCEPT !.needs = {nodes[Max(before)].id}]]

(* CompileWithOptions.  The `finally:` of the root is not looked at.       *)
CompileWithOptions(lib) ==
  LET r == CompileSteps(lib, FragmentsOf(lib), lib[Root].steps, <<>>, <<Root>>)
  IN [r EXCEPT !.nodes = ImplicitNeeds(@)]

-----------------------------------------------------------------------------
(* The scheduler keys nodes by id: of several with one id the last is the  *)
(* one that runs, and it waits for the needs of all.                       *)
Carrier(nodes, i) ==
  IF nodes[i].id = <<>> THEN i
  ELSE Max({j \in DOMAIN nodes : nodes[j].id = nodes[i].id})
Carriers(nodes) == {Carrier(nodes, i) : i \in DOMAIN nodes}

(* Needs that name no node are dropped.  A node without a key of its own   *)
(* is never dispatched but counted (scheduler.go:160): it waits for itself.*)
PlanOf(nodes) ==
  LET keys == Carriers(nodes) IN
    [keys |-> keys,
     needs |->
       [k \in DOMAIN nodes |->
          IF k \in keys
          THEN {j \in keys : \E i \in DOMAIN nodes :
                  Carrier(nodes, i) = k /\ nodes[j].id \in nodes[i].needs}
          ELSE {k}],
     always |-> {k \in keys : nodes[k].always}]
=============================================================================
