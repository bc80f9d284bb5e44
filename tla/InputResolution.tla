--------------------------- MODULE InputResolution ---------------------------
(***************************************************************************)
(* From the declarations of a workflow and what a caller supplies to the   *)
(* inputs its steps and its included fragments see: validation, preset,    *)
(* environment and defaults (internal/engine/inputs.go), then scope by     *)
(* scope down the includes (bindInputs of internal/compile/compile.go,     *)
(* resolveScopeInputs of internal/engine/engine.go).                       *)
(*                                                                         *)
(* An expression is what it reads and an operation: it hands on the one    *)
(* input it reads, adds to it, or is a text of its own.                    *)
(***************************************************************************)
EXTENDS InputOrder

CONSTANTS
  Workflows,     \* [inputs, presets] to look at
  Supplied,      \* what callers supply: values by name
  PresetArgs,    \* --preset: sets of at most one name
  Environments,  \* WEFTLY_INPUT_<NAME>: texts by name
  Includes,      \* a sequence of sets, by depth, of [inputs, with, withIfSet]:
                 \*   the fragments and their callers' bindings
  Canonical(_),  \* the absolute path of a path, links resolved
  Inside(_),     \* whether that is in the workspace or the workflow's directory
  Existing       \* the paths that exist

ASSUME NamesAssumption == \A w \in Workflows : DOMAIN w.inputs \subseteq Nat
ASSUME LiteralsAssumption ==
  /\ \A s \in Supplied : \A n \in DOMAIN s : Literal(s[n])
  /\ \A w \in Workflows :
       /\ \A p \in DOMAIN w.presets : \A n \in DOMAIN w.presets[p] : Literal(w.presets[p][n])
       /\ \A n \in DOMAIN w.inputs : \A d \in w.inputs[n].default :
            Literal(d) /\ (IsExprString(d) => Content(d).op \in {"text", "read", "add"})

(* phase: "validate", "search", "preset", "order", "resolve", "resolved",  *)
(* "rejected", "failed"; todo: the inputs still to be resolved, in order.  *)
VARIABLES
  workflow, supplied, preset, environ,   \* given
  out,        \* resolved values by name
  ierrs,      \* the inputs with an error
  scope,      \* the inputs the steps of the current scope see
  path        \* the includes that lead to the current scope
given == <<workflow, supplied, preset, environ>>
resolution == <<out, ierrs, scope, path>>
vars == <<given, phase, walk, todo, resolution>>

Inputs == workflow.inputs
NoValues == <<>>
With(f, n, v) == [m \in DOMAIN f \cup {n} |-> IF m = n THEN v ELSE f[m]]

Init ==
  /\ workflow \in Workflows /\ supplied \in Supplied
  /\ preset \in PresetArgs /\ environ \in Environments
  /\ phase = "validate"
  /\ WalkInit /\ out = NoValues /\ ierrs = {}
  /\ scope = NoValues /\ path = <<>>

(* Interpolate, against inputs: an unknown input is null, and adding to    *)
(* what is no number is an error.                                          *)
Interpolate(e, inputs) ==
  LET read == IF e.reads \cap DOMAIN inputs = {} THEN Null
              ELSE inputs[CHOOSE n \in e.reads : n \in DOMAIN inputs] IN
  CASE e.op = "text" -> {Str(e.text)}
    [] e.op = "read" -> {read}
    [] e.op = "add" -> {Integer(i + 1) : i \in IF Kind(read) = "int" THEN {Content(read)} ELSE {}}
                       \cup {Float(IF h = NaN THEN NaN ELSE h + 2) :
                               h \in IF Kind(read) = "float" THEN {Content(read)} ELSE {}}

-----------------------------------------------------------------------------
(* Validate, then resolveInputs.                                           *)

Valid ==
  /\ \A n \in DOMAIN Inputs : ValidInput(Inputs[n])
  /\ ValidPresets(Inputs, workflow.presets)

(* All is looked at, and every error reported, a circle among them; where  *)
(* there are others the search changes nothing.                            *)
Validate ==
  /\ phase = "validate"
  /\ \/ Valid /\ StartWalk(Inputs, "search")
     \/ ~Valid /\ phase' = "rejected" /\ UNCHANGED <<walk, todo>>
  /\ UNCHANGED <<given, resolution>>

(* Then the inputs are put in order, to be resolved.                       *)
ApplyPreset ==
  /\ phase = "preset"
  /\ \/ preset \subseteq DOMAIN workflow.presets /\ StartWalk(Inputs, "order")
     \/ ~(preset \subseteq DOMAIN workflow.presets) /\ phase' = "failed" /\ UNCHANGED <<walk, todo>>
  /\ UNCHANGED <<given, resolution>>

FromPreset(n) == {p \in preset : n \in DOMAIN workflow.presets[p]}

(* The value of an input before conversion: Null without any, Error if a   *)
(* default expression fails.  A preset goes before the environment.        *)
Raw(n) ==
  IF n \in DOMAIN supplied THEN {supplied[n]}
  ELSE IF FromPreset(n) # {} THEN {workflow.presets[p][n] : p \in FromPreset(n)}
  ELSE IF n \in DOMAIN environ THEN {Str(environ[n])}
  ELSE IF Inputs[n].default = {} THEN {Null}
  ELSE UNION {IF IsExprString(d) THEN Interpolate(Content(d), out) ELSE {d} : d \in Inputs[n].default}

(* resolvePathInput: into the run's workspace or the workflow's directory. *)
ResolvePathInput(in, v) ==
  {Str(p) : p \in {p \in {Canonical(Content(v))} : Inside(p) /\ (in.mustExist => p \in Existing)}}

Confined(in, v) == IF EffectiveType(in) = "path" THEN ResolvePathInput(in, v) ELSE {v}

Typed(n, raw) == UNION {Confined(Inputs[n], v) : v \in Coerce(Inputs[n], raw)}

ResolveNext ==
  /\ phase = "resolve" /\ todo # <<>>
  /\ LET n == Head(todo) IN
     \/ /\ Raw(n) = {Null}
        /\ ierrs' = IF Inputs[n].required THEN ierrs \cup {n} ELSE ierrs
        /\ UNCHANGED out
     \/ /\ Raw(n) # {Null} /\ UNION {Typed(n, raw) : raw \in Raw(n)} = Error
        /\ ierrs' = ierrs \cup {n}
        /\ UNCHANGED out
     \/ /\ Raw(n) # {Null}
        /\ \E v \in UNION {Typed(n, raw) : raw \in Raw(n)} : out' = With(out, n, v)
        /\ UNCHANGED ierrs
  /\ todo' = Tail(todo)
  /\ UNCHANGED <<given, phase, walk, scope, path>>

(* All errors are reported together; what was supplied undeclared, or as   *)
(* null, is passed on.                                                     *)
Conclude ==
  /\ phase = "resolve" /\ todo = <<>>
  /\ IF ierrs # {}
     THEN phase' = "failed" /\ UNCHANGED <<out, scope>>
     ELSE /\ phase' = "resolved"
          /\ out' = [n \in DOMAIN out \cup DOMAIN supplied |->
                       IF n \in DOMAIN out THEN out[n] ELSE supplied[n]]
          /\ scope' = out'
  /\ UNCHANGED <<given, walk, todo, ierrs, path>>

-----------------------------------------------------------------------------
(* Into an included fragment.                                              *)

DefaultOf(in) == IF in.default = {} THEN Null ELSE CHOOSE d \in in.default : TRUE

(* bindInputs refuses a key the child does not declare, one given twice,   *)
(* and a required input without a binding.                                 *)
Bindable(i) ==
  /\ DOMAIN i.with \cup DOMAIN i.withIfSet \subseteq DOMAIN i.inputs
  /\ DOMAIN i.with \cap DOMAIN i.withIfSet = {}
  /\ \A n \in DOMAIN i.inputs \ (DOMAIN i.with \cup DOMAIN i.withIfSet) :
       i.inputs[n].required => DefaultOf(i.inputs[n]) # Null

(* A default of the child is interpolated without any inputs; one that     *)
(* cannot be stays as it is written.                                       *)
ChildDefault(in) ==
  LET d == DefaultOf(in) IN
  IF IsExprString(d) /\ Interpolate(Content(d), NoValues) # Error
  THEN CHOOSE v \in Interpolate(Content(d), NoValues) : TRUE ELSE d

(* Mutant: an empty text counts as a value.                                *)
IsEmptyValue_NullOnly(v) == v = Null

IsEmptyValue(v) == v \in {Null, Str("")}

ExprError == Str("<expr-error>")
Evaluated(e) ==
  IF Interpolate(e, scope) = Error THEN ExprError
  ELSE CHOOSE v \in Interpolate(e, scope) : TRUE

(* resolveScopeInputs: nothing is converted to the type the child declares.*)
ChildInput(i, n) ==
  IF n \in DOMAIN i.with THEN Evaluated(i.with[n])
  ELSE IF n \in DOMAIN i.withIfSet /\ ~IsEmptyValue(Evaluated(i.withIfSet[n]))
       THEN Evaluated(i.withIfSet[n])
       ELSE ChildDefault(i.inputs[n])

Enter(i) ==
  /\ phase = "resolved"
  /\ Bindable(i)
  /\ scope' = [n \in DOMAIN i.inputs |-> ChildInput(i, n)]
  /\ path' = Append(path, i)
  /\ UNCHANGED <<given, phase, walk, todo, out, ierrs>>

Next ==
  \/ Validate \/ ApplyPreset \/ ResolveNext \/ Conclude
  \/ Walk(Inputs) /\ UNCHANGED <<given, resolution>>
  \/ \E depth \in DOMAIN Includes : \E i \in Includes[depth] : depth = Len(path) + 1 /\ Enter(i)

Spec == Init /\ [][Next]_vars

-----------------------------------------------------------------------------
(* Properties.                                                             *)

AllowedText(in, v) ==
  /\ Kind(v) = "text"
  /\ IF AllowedValues(in) # {} THEN Content(v) \in AllowedValues(in)
     ELSE /\ \A p \in in.pattern : Content(v) \in p
          /\ \A l \in in.minLen : LengthOf(Content(v)) >= l
          /\ \A h \in in.maxLen : LengthOf(Content(v)) <= h

(* NaN is in any bounds, and one that is NaN bounds nothing.               *)
InBounds(in, x) ==
  x \in Int => (\A l \in in.min \cap Int : x >= l) /\ (\A h \in in.max \cap Int : x <= h)

Admissible(in, v) ==
  CASE EffectiveType(in) \in {"string", "enum"} -> AllowedText(in, v)
    [] in.type = "int" -> /\ Kind(v) = "int" /\ InBounds(in, 2 * Content(v))
                          /\ AllowedValues(in) # {} => TextOf(v) \in AllowedValues(in)
    [] in.type = "number" -> Kind(v) = "float" /\ InBounds(in, Content(v))
    [] in.type = "bool" -> Kind(v) = "bool"
    [] in.type = "duration" -> Kind(v) = "duration" /\ InBounds(in, Content(v))
    [] in.type = "path" -> /\ Inside(Content(v))
                           /\ in.mustExist => Content(v) \in Existing
    [] OTHER -> TRUE

AdmissibleList(in, v) ==
  /\ Kind(v) = "list"
  /\ \A l \in in.minItems : Len(Content(v)) >= l
  /\ \A h \in in.maxItems : Len(Content(v)) <= h
  /\ in.items # "path" => \A i \in DOMAIN Content(v) : Admissible(ElementInput(in), Content(v)[i])

(* Taken over as it is: a structured value by an input without a type, and *)
(* a duration, or a list of them, from a default expression.               *)
TakenOver(n) ==
  \/ Inputs[n].type = "" /\ Structured(out[n])
  \/ /\ Inputs[n].type = "duration" \/ Inputs[n].items = "duration"
     /\ n \notin DOMAIN supplied
     /\ \E d \in Inputs[n].default : IsExprString(d) /\ Content(d).op = "read"

(* A null of the caller's is as good as nothing, and handed on as it came. *)
GivenAsNull(n) == n \in DOMAIN supplied /\ supplied[n] = Null

(* What a declared input resolves to is what its declaration asks for,     *)
(* wherever it came from, element by element for a list; what is required  *)
(* is there, and not null (schema/inputs.go:107-300, engine/inputs.go:117- *)
(* 163).  Bounds do not hold NaN (:180-185), nor is an `enum:` asked of a  *)
(* number, a bool, a duration or a path, although the comment at :132-136  *)
(* has it enforced whatever the type.                                      *)
AdmissibleAsDeclared ==
  phase = "resolved" => \A n \in DOMAIN Inputs :
    /\ n \in DOMAIN out /\ ~GivenAsNull(n) /\ ~TakenOver(n) =>
         IF Inputs[n].type = "list" THEN AdmissibleList(Inputs[n], out[n])
         ELSE Admissible(Inputs[n], out[n])
    /\ Inputs[n].required => n \in DOMAIN out /\ ~GivenAsNull(n)

(* What the author wrote is tried when the workflow is validated: at run   *)
(* time a literal default or a preset's value is never at fault, only what *)
(* a caller gave or left out, an expression, or a path on this host        *)
(* (schema/inputs.go:604-609, 678-712, engine/inputs.go:117-146).          *)
ErrorsAreTheCallers ==
  \A n \in ierrs :
    LET written == IF FromPreset(n) # {} THEN {workflow.presets[p][n] : p \in FromPreset(n)}
                   ELSE Inputs[n].default IN
    \/ n \in DOMAIN supplied
    \/ n \in DOMAIN environ /\ FromPreset(n) = {}
    \/ written \subseteq {Null} /\ Inputs[n].required
    \/ FromPreset(n) = {} /\ \E d \in written : IsExprString(d)
    \/ EffectiveType(Inputs[n]) = "path"

Mentioned(n) == UNION {Content(d).reads : d \in {d \in Inputs[n].default : IsExprString(d) /\ Content(d).dotted}}

(* A default that mentions another input is evaluated when that input is   *)
(* settled, to a value, to none or to an error; where no order can do that *)
(* the workflow is rejected (schema/inputs.go:716-812, engine/inputs.go:71)*)
DefaultsReadSettled ==
  /\ phase \in {"resolve", "resolved"} =>
       \A n \in DOMAIN Inputs \ Range(todo) : Mentioned(n) \cap Range(todo) = {}
  /\ phase \notin {"validate", "search", "rejected"} =>
       \A S \in SUBSET DOMAIN Inputs : S # {} => \E n \in S : Mentioned(n) \cap (S \ {n}) = {}

(* A workflow is rejected for its declarations and presets, or for a real  *)
(* circle: every input the error names mentions another one it names,      *)
(* however the walk came there (schema/inputs.go:741-756).                 *)
RejectedForCause ==
  phase = "rejected" =>
    \/ ~Valid
    \/ circle # {} /\ \A n \in circle : Mentioned(n) \cap (circle \ {n}) # {}

(* JSON has no durations and no NaN, and a text that was JSON is no JSON   *)
(* any more.                                                               *)
RendersFaithfully(in, v) ==
  /\ v # Null
  /\ in.type = "json" => Kind(v) # "text"
  /\ in.type = "" => ~Structured(v)
  /\ in.type = "list" => in.items \notin {"duration", "json"}
  /\ Kind(v) = "list" => \A i \in DOMAIN Content(v) : Content(v)[i] # Float(NaN)
  /\ in.type = "duration" => Within(Content(v), in.min, in.max)

(* What a run: step finds in its environment for an input is a text that   *)
(* means the same input again, to a weftly it calls or to --input          *)
(* (schema/inputs.go:302-332).                                             *)
EnvRoundTrips ==
  phase = "resolved" => \A n \in DOMAIN Inputs \cap DOMAIN out :
    RendersFaithfully(Inputs[n], out[n]) =>
      \E v \in Coerce(Inputs[n], Str(EnvString(out[n]))) :
        Kind(v) = Kind(out[n]) /\ EnvString(v) = EnvString(out[n])

(* In a fragment an input with a literal default is blank only if a with:  *)
(* of its caller says so, however many fragments the blank came through    *)
(* (compile.go:336-379, engine.go:950-1012).                               *)
BlankOnlyByCaller ==
  path # <<>> =>
    LET i == path[Len(path)] IN
    \A n \in DOMAIN i.inputs :
      scope[n] \in {Null, Str("")} =>
        \/ n \in DOMAIN i.with
        \/ DefaultOf(i.inputs[n]) \in {Null, Str("")} \/ IsExprString(DefaultOf(i.inputs[n]))
=============================================================================
