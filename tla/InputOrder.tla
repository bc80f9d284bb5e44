----------------------------- MODULE InputOrder -----------------------------
(***************************************************************************)
(* internal/schema/inputs.go: the search for a circle among the defaults   *)
(* of inputs (inputDefaultCycle), and the order in which inputs are        *)
(* resolved, an input after those its default mentions (ResolutionOrder).  *)
(* Both go through the inputs depth first; the calls of visit under way    *)
(* are a stack here, and each turn of its loop is a step.  Input names are *)
(* numbers in sorted order.                                                *)
(***************************************************************************)
EXTENDS InputTypes, FiniteSetsExt, SequencesExt

VARIABLES
  phase,   \* "search" and "order" are the two walks; see InputResolution
  roots,   \* the inputs the outer loop has not come to
  stack,   \* the calls of visit: the input, and its dependencies yet to be visited
  seen,    \* color black of the search, seen of the order
  circle,  \* the inputs of the circle that was found
  todo     \* out of the order
walk == <<roots, stack, seen, circle>>

(* referencesInput sees inputs.name as it is written.  An expression that  *)
(* picks an input by index, inputs["name"], mentions none.                 *)
References(d, name) == IsExprString(d) /\ Content(d).dotted /\ name \in Content(d).reads

(* An input's own name in its default is not looked at.                    *)
Deps(inputs, n) == {m \in DOMAIN inputs \ {n} : \E d \in inputs[n].default : References(d, m)}

WalkInit == roots = {} /\ stack = <<>> /\ seen = {} /\ circle = {} /\ todo = <<>>

Walking == phase \in {"search", "order"}
StartWalk(inputs, walking) ==
  /\ phase' = walking
  /\ roots' = DOMAIN inputs /\ stack' = <<>> /\ seen' = {}
  /\ UNCHANGED <<circle, todo>>

(* Mutant: the order does not look at dependencies.                        *)
Call_ByName(inputs, n) == [name |-> n, left |-> IF phase = "order" THEN {} ELSE Deps(inputs, n)]

Call(inputs, n) == [name |-> n, left |-> Deps(inputs, n)]
Top == stack[Len(stack)]
(* color grey of the search, path of the order.                            *)
OnPath == {stack[i].name : i \in DOMAIN stack}

(* The outer loops go through the names in order.                          *)
NextRoot(inputs) ==
  /\ Walking /\ stack = <<>> /\ roots # {}
  /\ roots' = roots \ {Min(roots)}
  /\ stack' = IF Min(roots) \in seen THEN stack ELSE <<Call(inputs, Min(roots))>>
  /\ UNCHANGED <<phase, seen, circle, todo>>

(* Mutant: an input that was left is a circle too.                         *)
Closes_Seen(d) == phase = "search" /\ d \in OnPath \cup seen

(* The search stops at an input it is in; the order goes on.               *)
Closes(d) == phase = "search" /\ d \in OnPath

(* The next dependency: in any order in the search, which has put them     *)
(* together from a map, and by name in the order.                          *)
Follow(inputs) ==
  /\ Walking /\ stack # <<>>
  /\ \E d \in Top.left :
       LET rest == [stack EXCEPT ![Len(stack)].left = @ \ {d}] IN
       /\ phase = "order" => d = Min(Top.left)
       /\ stack' = IF d \in seen \cup OnPath THEN rest ELSE Append(rest, Call(inputs, d))
       /\ IF Closes(d)
          THEN /\ phase' = "rejected"
               /\ circle' = {stack[i].name : i \in {i \in DOMAIN stack : \E j \in 1..i : stack[j].name = d}}
          ELSE UNCHANGED <<phase, circle>>
  /\ UNCHANGED <<roots, seen, todo>>

Leave ==
  /\ Walking /\ stack # <<>> /\ Top.left = {}
  /\ stack' = Front(stack)
  /\ seen' = seen \cup {Top.name}
  /\ todo' = IF phase = "order" THEN Append(todo, Top.name) ELSE todo
  /\ UNCHANGED <<phase, roots, circle>>

(* No circle: what is validated is left to the presets.  The order is      *)
(* complete: resolveInputs goes through it.                                *)
EndWalk ==
  /\ Walking /\ stack = <<>> /\ roots = {}
  /\ phase' = IF phase = "search" THEN "preset" ELSE "resolve"
  /\ UNCHANGED <<walk, todo>>

Walk(inputs) == NextRoot(inputs) \/ Follow(inputs) \/ Leave \/ EndWalk
=============================================================================
