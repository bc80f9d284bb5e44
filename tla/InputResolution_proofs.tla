----------------------- MODULE InputResolution_proofs -----------------------
(***************************************************************************)
(* Proofs about InputResolution, for every set of workflows, callers and   *)
(* fragments, and whatever Go's libraries make of texts; only RoundTrips   *)
(* is about libraries that read back what they write.                      *)
(***************************************************************************)
EXTENDS InputResolution, SequenceTheorems, WellFoundedInduction, TLAPS

Names == DOMAIN Inputs
DepsOf(n) == Deps(Inputs, n)
Acyclic(T) == \A S \in SUBSET T : S # {} => \E n \in S : DepsOf(n) \cap S = {}

Phases == {"validate", "search", "preset", "order", "resolve", "resolved", "rejected", "failed"}
Calls == [name : Names, left : SUBSET Names]
Fragments == UNION {Includes[depth] : depth \in DOMAIN Includes}

TypeSound ==
  /\ phase \in Phases
  /\ workflow \in Workflows /\ supplied \in Supplied
  /\ roots \subseteq Names /\ seen \subseteq Names
  /\ stack \in Seq(Calls) /\ todo \in Seq(Names)
  /\ path \in Seq(Fragments)

(* What a phase may rely on, because the ones before it came to their end. *)
PhaseSound ==
  /\ phase \notin {"validate", "rejected"} => Valid
  /\ phase \notin {"validate", "search", "rejected"} => Acyclic(Names)
  /\ phase \in {"validate", "search", "preset"} => todo = <<>>
  /\ phase \in {"order", "resolve", "resolved"} => preset \subseteq DOMAIN workflow.presets
  /\ phase \notin {"resolve", "resolved", "failed"} => ierrs = {} /\ out = NoValues
  /\ phase # "resolved" => path = <<>>

(* The calls under way are a path along dependencies, and a dependency     *)
(* that was visited is seen, or is the call above.                         *)
StackSound ==
  /\ \A i \in DOMAIN stack :
       /\ stack[i].name \notin seen
       /\ stack[i].left \subseteq DepsOf(stack[i].name)
       /\ \A d \in DepsOf(stack[i].name) \ stack[i].left :
            d \in seen \/ (i + 1 \in DOMAIN stack /\ stack[i + 1].name = d)
  /\ \A i, j \in DOMAIN stack : stack[i].name = stack[j].name => i = j
  /\ \A i \in DOMAIN stack : i + 1 \in DOMAIN stack => stack[i + 1].name \in DepsOf(stack[i].name)

(* No circle goes through what was left, and nothing is passed over.       *)
SeenSound ==
  /\ \A n \in seen : DepsOf(n) \subseteq seen
  /\ Acyclic(seen)
  /\ Names = roots \cup seen \cup OnPath

(* The order, or what is left of it, is one: none before what it reads.    *)
OrderSound ==
  /\ \A i, j \in DOMAIN todo : i <= j =>
       todo[j] \notin DepsOf(todo[i]) /\ (todo[i] = todo[j] => i = j)
  /\ phase = "order" => seen = Range(todo)
  /\ phase \in {"resolve", "resolved"} =>
       \A n \in Names \ Range(todo) : DepsOf(n) \cap Range(todo) = {}

Fits(n) ==
  ~GivenAsNull(n) /\ ~TakenOver(n) =>
    IF Inputs[n].type = "list" THEN AdmissibleList(Inputs[n], out[n])
    ELSE Admissible(Inputs[n], out[n])

(* What was resolved fits its declaration; what has no value and no error  *)
(* needs none.                                                             *)
ValuesSound ==
  /\ phase \in {"resolve", "resolved"} => \A n \in Names \cap DOMAIN out : Fits(n)
  /\ phase = "resolve" =>
       \A n \in Names \ (Range(todo) \cup DOMAIN out \cup ierrs) :
         ~Inputs[n].required /\ (n \in DOMAIN supplied => supplied[n] = Null)
  /\ phase = "resolve" => \A n \in Names \cap DOMAIN out : ~GivenAsNull(n)
  /\ phase = "resolved" =>
       \A n \in Names : Inputs[n].required => n \in DOMAIN out /\ ~GivenAsNull(n)

IInv ==
  /\ TypeSound /\ PhaseSound
  /\ Walking => StackSound /\ SeenSound
  /\ OrderSound /\ ValuesSound /\ ErrorsAreTheCallers /\ RejectedForCause /\ BlankOnlyByCaller

-----------------------------------------------------------------------------
(* Conversion.                                                             *)

LEMMA StringFits ==
  ASSUME NEW in, NEW v, NEW w \in CoerceString(in, v)
  PROVE  AllowedText(in, w)
<1>1. CASE AllowedValues(in) # {}
  <2>1. PICK a \in AllowedValues(in) : w = Str(a)
    BY <1>1 DEF CoerceString, CheckChoice
  <2> QED BY <1>1, <2>1 DEF AllowedText, Str, Kind, Content
<1>2. CASE AllowedValues(in) = {}
  <2> DEFINE s == Stringify(v)
  <2>1. /\ \A p \in in.pattern : s \in p
        /\ Between(LengthOf(s), in.minLen, in.maxLen)
        /\ w = Str(s)
    BY <1>2 DEF CoerceString, Error
  <2>2. Kind(w) = "text" /\ Content(w) = s
    BY <2>1 DEF Str, Kind, Content
  <2> HIDE DEF s
  <2> QED BY <1>2, <2>1, <2>2 DEF AllowedText, Between
<1> QED BY <1>1, <1>2

LEMMA ChoiceFits ==
  ASSUME NEW in, NEW s, NEW w \in CheckChoice(in, s)
  PROVE  AllowedText(in, w)
<1>1. PICK a \in AllowedValues(in) : w = Str(a)
  BY DEF CheckChoice
<1> QED BY <1>1 DEF AllowedText, Str, Kind, Content

(* What is not refused is in bounds.                                       *)
LEMMA WithinFits ==
  ASSUME NEW in, NEW x, Within(x, in.min, in.max)
  PROVE  InBounds(in, x)
<1> SUFFICES ASSUME x \in Int
             PROVE  (\A l \in in.min \cap Int : x >= l) /\ (\A h \in in.max \cap Int : x <= h)
  BY DEF InBounds
<1>1. \A y \in Int : y # NaN
  BY NaNAssumption
<1>2. ASSUME NEW l \in in.min \cap Int PROVE x >= l
  <2>1. ~(x < l)
    BY <1>1 DEF Within, Below
  <2> QED BY <2>1
<1>3. ASSUME NEW h \in in.max \cap Int PROVE x <= h
  <2>1. ~(h < x)
    BY <1>1 DEF Within, Below
  <2> QED BY <2>1
<1> QED BY <1>2, <1>3

(* A converted value is what the declaration asks for, except that a path  *)
(* is yet to be resolved and a duration is not looked at.                  *)
LEMMA ScalarFits ==
  ASSUME NEW in, NEW v, NEW w \in CoerceScalar(in, v),
         in.type # "path", in.type = "duration" => Kind(v) # "duration"
  PROVE  Admissible(in, w)
<1>1. CASE EffectiveType(in) = "string"
  <2>1. w \in CoerceString(in, v)
    BY <1>1 DEF CoerceScalar, EffectiveType
  <2> QED BY <1>1, <2>1, StringFits DEF Admissible, EffectiveType
<1>2. CASE in.type = "int"
  <2>1. PICK i \in ToInt(v) :
          /\ w = Integer(i) /\ Within(2 * i, in.min, in.max)
          /\ AllowedValues(in) # {} => TextOf(w) \in AllowedValues(in)
    BY <1>2 DEF CoerceScalar, CoerceInt, EffectiveType
  <2>2. Kind(w) = "int" /\ Content(w) = i
    BY <2>1 DEF Integer, Kind, Content
  <2>3. InBounds(in, 2 * Content(w))
    BY <2>1, <2>2, WithinFits
  <2> QED BY <1>2, <2>1, <2>2, <2>3 DEF Admissible, EffectiveType
<1>3. CASE in.type = "number"
  <2>1. PICK h \in ToFloat(v) : w = Float(h) /\ Within(h, in.min, in.max)
    BY <1>3 DEF CoerceScalar, CoerceNumber, EffectiveType
  <2>2. Kind(w) = "float" /\ Content(w) = h
    BY <2>1 DEF Float, Kind, Content
  <2> QED BY <1>3, <2>1, <2>2, WithinFits DEF Admissible, EffectiveType
<1>4. CASE in.type = "bool"
  <2>1. PICK b \in ToBool(v) : w = Bool(b)
    BY <1>4 DEF CoerceScalar, EffectiveType
  <2> QED BY <1>4, <2>1 DEF Admissible, EffectiveType, Bool, Kind
<1>5. CASE in.type = "enum"
  <2>1. w \in CheckChoice(in, Stringify(v))
    BY <1>5 DEF CoerceScalar, EffectiveType
  <2> QED BY <1>5, <2>1, ChoiceFits DEF Admissible, EffectiveType
<1>6. CASE in.type = "duration"
  <2>1. PICK d \in DurationOf(Stringify(v)) : w = Duration(d) /\ Within(d, in.min, in.max)
    BY <1>6 DEF CoerceScalar, CoerceDuration, EffectiveType
  <2>2. Kind(w) = "duration" /\ Content(w) = d
    BY <2>1 DEF Duration, Kind, Content
  <2> QED BY <1>6, <2>1, <2>2, WithinFits DEF Admissible, EffectiveType
<1>7. CASE /\ EffectiveType(in) \notin {"string", "enum", "path"}
           /\ in.type \notin {"int", "number", "bool", "duration", "path"}
  BY <1>7 DEF Admissible
<1> QED BY <1>1, <1>2, <1>3, <1>4, <1>5, <1>6, <1>7 DEF EffectiveType

(* So is an element of a list; the elements of lists in lists are free.    *)
LEMMA ElementFits ==
  ASSUME NEW in, NEW v, NEW w \in CoerceElement(in, v),
         in.type # "path", in.type = "duration" => Kind(v) # "duration"
  PROVE  Admissible(in, w)
<1>1. CASE in.type = "list"
  BY <1>1 DEF Admissible, EffectiveType
<1>2. CASE in.type # "list"
  BY <1>2, ScalarFits DEF CoerceElement
<1> QED BY <1>1, <1>2

(* No element of what a text is made into is a duration.                   *)
LEMMA ElementsFacts ==
  ASSUME NEW v, NEW s \in Elements(v), Kind(v) # "list" \/ Literal(v),
         NEW i \in DOMAIN s
  PROVE  Kind(s[i]) # "duration"
<1>1. CASE Kind(v) = "list"
  BY <1>1 DEF Elements, Literal
<1>2. CASE Kind(v) \in {"text", "expr"} /\ Opens(Stringify(v))
  <2>1. PICK j \in JsonOf(Stringify(v)) : Kind(j) = "list" /\ s = Content(j)
    <3> HIDE DEF Stringify
    <3> QED BY <1>2 DEF Elements
  <2>2. Literal(j)
    BY <2>1, JsonAssumption DEF JsonOf, LookUp
  <2> QED BY <2>1, <2>2 DEF Literal
<1>3. CASE Kind(v) \in {"text", "expr"} /\ ~Opens(Stringify(v))
  <2> DEFINE parts == PartsOf(Stringify(v))
  <2>1. s = [k \in DOMAIN parts |-> Str(parts[k])]
    BY <1>3 DEF Elements, Split
  <2> HIDE DEF parts
  <2> QED BY <2>1 DEF Str, Kind
<1>4. CASE Kind(v) \notin {"list", "text", "expr"}
  BY <1>4 DEF Elements, Error
<1> QED BY <1>1, <1>2, <1>3, <1>4

LEMMA ListFits ==
  ASSUME NEW in, in.type = "list", NEW v, NEW w \in Coerce(in, v),
         in.items = "duration" => Kind(v) # "list" \/ Literal(v)
  PROVE  AdmissibleList(in, w)
<1> DEFINE ein == ElementInput(in)
           parts(s) == [i \in DOMAIN s |-> CoerceElement(ein, s[i])]
<1>1. PICK s \in Elements(v) :
        w \in AllOf(parts(s)) /\ Between(Len(Content(w)), in.minItems, in.maxItems)
  BY DEF Coerce, Counted
<1>2. /\ \A i \in DOMAIN s : parts(s)[i] # Error
      /\ w = List([i \in DOMAIN s |-> CHOOSE e \in parts(s)[i] : TRUE])
  <2> DEFINE ps == parts(s)
  <2>1. DOMAIN ps = DOMAIN s
    OBVIOUS
  <2>2. w \in AllOf(ps)
    BY <1>1
  <2> HIDE DEF ps
  <2>3. \A i \in DOMAIN s : ps[i] # Error
    BY <2>1, <2>2 DEF AllOf, Error
  <2>4. w = List([i \in DOMAIN ps |-> CHOOSE e \in ps[i] : TRUE])
    BY <2>1, <2>2, <2>3 DEF AllOf
  <2> QED BY <2>1, <2>3, <2>4 DEF ps
<1>3. /\ Kind(w) = "list"
      /\ Content(w) = [i \in DOMAIN s |-> CHOOSE e \in CoerceElement(ein, s[i]) : TRUE]
  BY <1>2 DEF List, Kind, Content
<1>4. ASSUME in.items # "path", NEW i \in DOMAIN Content(w)
      PROVE  Admissible(ein, Content(w)[i])
  <2>1. i \in DOMAIN s
    BY <1>3, <1>4
  <2>2. Content(w)[i] \in CoerceElement(ein, s[i])
    BY <1>2, <1>3, <2>1 DEF Error
  <2>3. ein.type = IF in.items = "" THEN "string" ELSE in.items
    BY DEF ElementInput, Input
  <2>4. ein.type = "duration" => Kind(s[i]) # "duration"
    BY <2>1, <2>3, ElementsFacts
  <2> HIDE DEF ein
  <2> QED BY <1>4, <2>2, <2>3, <2>4, ElementFits
<1> QED BY <1>1, <1>3, <1>4 DEF AdmissibleList, Between

Admitted(in, v) == IF in.type = "list" THEN AdmissibleList(in, v) ELSE Admissible(in, v)

(* What a caller or an author wrote down, and what was resolved to a path. *)
LEMMA TypedFits ==
  ASSUME NEW n, NEW raw, NEW v \in Typed(n, raw),
         ~(Inputs[n].type = "" /\ Structured(v)),
         Inputs[n].type = "duration" \/ Inputs[n].items = "duration" => Literal(raw)
  PROVE  Admitted(Inputs[n], v)
<1> DEFINE in == Inputs[n]
<1>1. PICK w \in Coerce(in, raw) : v \in Confined(in, w)
  BY DEF Typed
<1>2. CASE in.type = "path"
  <2>1. PICK p : v = Str(p) /\ Inside(p) /\ (in.mustExist => p \in Existing)
    BY <1>1, <1>2 DEF Confined, ResolvePathInput, EffectiveType
  <2>2. Content(v) = p
    BY <2>1 DEF Str, Content
  <2> HIDE DEF in
  <2>3. Admissible(in, v)
    BY <1>2, <2>1, <2>2 DEF Admissible, EffectiveType
  <2> QED BY <1>2, <2>3 DEF Admitted, in
<1>3. CASE in.type # "path"
  <2>1. v = w
    BY <1>1, <1>3 DEF Confined, EffectiveType
  <2>2. CASE in.type = "list"
    BY <1>1, <2>1, <2>2, ListFits DEF Admitted
  <2>3. CASE in.type # "list"
    <3>1. v \in CoerceScalar(in, raw)
      BY <1>1, <2>1, <2>3 DEF Coerce
    <3>2. in.type = "duration" => Kind(raw) # "duration"
      BY DEF Literal
    <3> HIDE DEF in
    <3>3. Admissible(in, v)
      BY <1>3, <3>1, <3>2, ScalarFits
    <3> QED BY <2>3, <3>3 DEF Admitted, in
  <2> QED BY <2>2, <2>3
<1> QED BY <1>2, <1>3

LEMMA LiteralFacts ==
  /\ \A x : Literal(Str(x)) /\ Literal(Integer(x)) /\ Literal(Float(x))
  /\ Literal(Null)
BY DEF Literal, Str, Integer, Float, Null, Kind

(* Where a raw value is no literal, an expression has read it.             *)
LEMMA RawFacts ==
  ASSUME workflow \in Workflows, supplied \in Supplied,
         preset \subseteq DOMAIN workflow.presets,
         NEW n \in Names, NEW raw \in Raw(n)
  PROVE  \/ Literal(raw)
         \/ /\ n \notin DOMAIN supplied
            /\ \E d \in Inputs[n].default : IsExprString(d) /\ Content(d).op = "read"
<1>1. CASE n \in DOMAIN supplied
  <2>1. raw = supplied[n]
    BY <1>1 DEF Raw
  <2> QED BY <1>1, <2>1, LiteralsAssumption
<1>2. CASE n \notin DOMAIN supplied /\ FromPreset(n) # {}
  <2>1. PICK p \in FromPreset(n) : raw = workflow.presets[p][n]
    BY <1>2 DEF Raw
  <2>2. p \in DOMAIN workflow.presets /\ n \in DOMAIN workflow.presets[p]
    BY <2>1 DEF FromPreset
  <2> QED BY <2>1, <2>2, LiteralsAssumption
<1>3. CASE n \notin DOMAIN supplied /\ FromPreset(n) = {} /\ n \in DOMAIN environ
  <2>1. raw = Str(environ[n])
    BY <1>3 DEF Raw
  <2> QED BY <2>1, LiteralFacts
<1>4. CASE n \notin DOMAIN supplied /\ FromPreset(n) = {} /\ n \notin DOMAIN environ
  <2>1. CASE Inputs[n].default = {}
    BY <1>4, <2>1, LiteralFacts DEF Raw
  <2>2. CASE Inputs[n].default # {}
    <3>1. PICK d \in Inputs[n].default :
            raw \in IF IsExprString(d) THEN Interpolate(Content(d), out) ELSE {d}
      BY <1>4, <2>2 DEF Raw
    <3>2. Literal(d) /\ (IsExprString(d) => Content(d).op \in {"text", "read", "add"})
      BY <3>1, LiteralsAssumption DEF Inputs, Names
    <3>3. CASE ~IsExprString(d)
      BY <3>1, <3>2, <3>3
    <3>4. CASE IsExprString(d) /\ Content(d).op = "read"
      BY <1>4, <3>1, <3>4
    <3>5. CASE IsExprString(d) /\ Content(d).op = "text"
      <4>1. raw = Str(Content(d).text)
        BY <3>1, <3>5 DEF Interpolate
      <4> QED BY <4>1, LiteralFacts
    <3>6. CASE IsExprString(d) /\ Content(d).op = "add"
      <4>1. \E x : raw = Integer(x) \/ raw = Float(x)
        BY <3>1, <3>6 DEF Interpolate
      <4> QED BY <4>1, LiteralFacts
    <3> QED BY <3>2, <3>3, <3>4, <3>5, <3>6
  <2> QED BY <2>1, <2>2
<1> QED BY <1>1, <1>2, <1>3, <1>4

-----------------------------------------------------------------------------
(* What is given stays.                                                    *)

LEMMA GivenStays ==
  ASSUME UNCHANGED given
  PROVE  /\ Inputs' = Inputs /\ Names' = Names /\ Calls' = Calls
         /\ \A n : DepsOf(n)' = DepsOf(n)
         /\ \A n : Mentioned(n)' = Mentioned(n)
         /\ \A n : FromPreset(n)' = FromPreset(n)
         /\ Valid' = Valid
BY DEF given, Inputs, Names, Calls, DepsOf, Deps, Mentioned, FromPreset, Valid

LEMMA AcyclicStays ==
  ASSUME UNCHANGED given
  PROVE  /\ Acyclic(Names) => Acyclic(Names)'
         /\ Acyclic(seen) /\ seen' = seen => Acyclic(seen)'
BY GivenStays DEF Acyclic

(* What a default mentions and what it waits for are the same inputs.      *)
LEMMA MentionsAreDeps ==
  ASSUME NEW n \in Names
  PROVE  Mentioned(n) \cap (Names \ {n}) = DepsOf(n)
BY DEF Mentioned, DepsOf, Deps, Names, References

LEMMA CallFacts ==
  ASSUME NEW n \in Names
  PROVE  /\ Call(Inputs, n) \in Calls
         /\ Call(Inputs, n).name = n /\ Call(Inputs, n).left = DepsOf(n)
BY DEF Call, Calls, DepsOf, Deps, Names

LEMMA LeastElement ==
  ASSUME NEW S \in SUBSET Nat, S # {}
  PROVE  \E x \in S : \A y \in S : x <= y
<1> DEFINE Less == OpToRel(<, Nat)
<1>1. PICK x \in S : \A y \in S : <<y, x>> \notin Less
  <2>1. IsWellFoundedOn(Less, Nat)
    BY NatLessThanWellFounded, Zenon
  <2> HIDE DEF Less
  <2> QED BY <2>1, WFMin
<1>2. ASSUME NEW y \in S, y < x PROVE FALSE
  BY <1>1, <1>2 DEF OpToRel
<1> QED BY <1>2

LEMMA LeastRoot ==
  ASSUME workflow \in Workflows, NEW S \in SUBSET Names, S # {}
  PROVE  Min(S) \in S
<1>1. S \subseteq Nat
  BY NamesAssumption DEF Names, Inputs
<1>2. \E x \in S : \A y \in S : x =< y
  BY <1>1, LeastElement
<1> QED BY <1>2 DEF Min

-----------------------------------------------------------------------------
(* The walks.                                                              *)

(* A dependency on the path closes a circle.                               *)
LEMMA CircleIsReal ==
  ASSUME TypeSound, StackSound, stack # <<>>,
         NEW d \in OnPath, d \in DepsOf(Top.name),
         NEW C, C = {stack[i].name : i \in {i \in DOMAIN stack : \E j \in 1..i : stack[j].name = d}}
  PROVE  /\ C # {} /\ C \subseteq Names
         /\ \A n \in C : DepsOf(n) \cap C # {}
<1> DEFINE k == Len(stack)
<1>1. k \in Nat \ {0} /\ DOMAIN stack = 1..k /\ \A i \in 1..k : stack[i] \in Calls
  BY EmptySeq DEF TypeSound
<1> HIDE DEF k
<1>2. PICK j \in 1..k : stack[j].name = d
  BY <1>1 DEF OnPath
<1>3. \A i \in j..k : stack[i].name \in C
  BY <1>1, <1>2
<1>4. C # {}
  <2>1. j \in j..k
    BY <1>1, <1>2
  <2> QED BY <1>3, <2>1
<1>5. C \subseteq Names
  BY <1>1 DEF Calls
<1>6. ASSUME NEW n \in C PROVE DepsOf(n) \cap C # {}
  <2>1. PICK i \in 1..k : n = stack[i].name /\ \E m \in 1..i : stack[m].name = d
    BY <1>1, <1>6
  <2>2. j <= i
    <3>1. PICK m \in 1..i : stack[m].name = d
      BY <2>1
    <3>2. m \in 1..k
      BY <1>1, <2>1
    <3>3. m = j
      BY <1>1, <1>2, <3>1, <3>2 DEF StackSound
    <3> QED BY <1>1, <2>1, <3>3
  <2>3. CASE i = k
    <3>1. d \in DepsOf(n)
      BY <2>1, <2>3 DEF Top, k
    <3> QED BY <1>2, <1>3, <3>1
  <2>4. CASE i # k
    <3>1. i + 1 \in 1..k /\ i + 1 \in j..k
      BY <1>1, <2>2, <2>4
    <3>2. stack[i + 1].name \in DepsOf(n)
      BY <1>1, <2>1, <3>1 DEF StackSound
    <3> QED BY <1>3, <3>1, <3>2
  <2> QED BY <2>3, <2>4
<1> QED BY <1>4, <1>5, <1>6

LEMMA AcyclicGrows ==
  ASSUME NEW T, NEW t, Acyclic(T), \A n \in T : DepsOf(n) \subseteq T,
         t \notin T, DepsOf(t) \subseteq T
  PROVE  Acyclic(T \cup {t})
<1> SUFFICES ASSUME NEW S \in SUBSET (T \cup {t}), S # {}
             PROVE  \E n \in S : DepsOf(n) \cap S = {}
  BY DEF Acyclic
<1>1. CASE S \cap T # {}
  <2>1. PICK n \in S \cap T : DepsOf(n) \cap (S \cap T) = {}
    BY <1>1 DEF Acyclic
  <2> QED BY <2>1
<1>2. CASE S \cap T = {}
  BY <1>2
<1> QED BY <1>1, <1>2

(* Nothing but the walk moves in a step of the walk.                       *)
Beside == UNCHANGED <<given, resolution>>

LEMMA BesideKeeps ==
  ASSUME IInv, Beside
  PROVE  /\ workflow' \in Workflows /\ supplied' \in Supplied /\ path' \in Seq(Fragments)
         /\ BlankOnlyByCaller' /\ ErrorsAreTheCallers'
BY GivenStays DEF IInv, TypeSound, Beside, given, resolution, BlankOnlyByCaller, ErrorsAreTheCallers

LEMMA StartKeeps ==
  ASSUME IInv, Beside, NEW walking \in {"search", "order"}, StartWalk(Inputs, walking),
         todo = <<>>, Valid,
         walking = "order" => phase = "preset" /\ preset \subseteq DOMAIN workflow.presets,
         walking = "search" => phase = "validate"
  PROVE  IInv'
<1>1. /\ phase' = walking /\ roots' = Names /\ stack' = <<>> /\ seen' = {}
      /\ circle' = circle /\ todo' = <<>>
  BY DEF StartWalk, Names
<1>2. Names' = Names /\ Valid' /\ DOMAIN stack' = {} /\ DOMAIN todo' = {}
  BY <1>1, GivenStays DEF Beside
<1>3. TypeSound'
  BY <1>1, <1>2, BesideKeeps DEF TypeSound, Phases
<1>4. PhaseSound'
  <2>1. walking = "order" => Acyclic(Names)'
    <3>1. walking = "order" => Acyclic(Names)
      BY DEF IInv, PhaseSound
    <3> QED BY <3>1, AcyclicStays DEF Beside
  <2> QED BY <1>1, <1>2, <2>1 DEF IInv, PhaseSound, Beside, given, resolution
<1>5. StackSound'
  BY <1>1, <1>2 DEF StackSound
<1>6. SeenSound'
  BY <1>1, <1>2 DEF SeenSound, Acyclic, OnPath
<1>7. OrderSound'
  BY <1>1, <1>2 DEF OrderSound, Range
<1>8. ValuesSound'
  BY <1>1 DEF ValuesSound
<1>9. RejectedForCause'
  BY <1>1 DEF RejectedForCause
<1> QED BY <1>3, <1>4, <1>5, <1>6, <1>7, <1>8, <1>9, BesideKeeps DEF IInv

(* What the steps of one walk, which go on with it, have in common.        *)
LEMMA WalkKeepsRest ==
  ASSUME IInv, Beside, Walking, phase' = phase, circle' = circle,
         phase = "search" => todo' = todo
  PROVE  PhaseSound' /\ ValuesSound' /\ RejectedForCause' /\ Walking'
<1>1. phase \in {"search", "order"}
  BY DEF Walking
<1>2. phase = "order" => Acyclic(Names)'
  <2>1. phase = "order" => Acyclic(Names)
    BY DEF IInv, PhaseSound
  <2> QED BY <2>1, AcyclicStays DEF Beside
<1>3. PhaseSound'
  BY <1>1, <1>2, GivenStays DEF IInv, PhaseSound, Beside, given, resolution
<1>4. ValuesSound' /\ RejectedForCause' /\ Walking'
  BY <1>1 DEF Walking, ValuesSound, RejectedForCause
<1> QED BY <1>3, <1>4

LEMMA NextRootKeeps ==
  ASSUME IInv, Beside, NextRoot(Inputs)
  PROVE  IInv'
<1> DEFINE r == Min(roots)
<1>1. /\ Walking /\ stack = <<>> /\ roots # {} /\ roots' = roots \ {r}
      /\ stack' = IF r \in seen THEN stack ELSE <<Call(Inputs, r)>>
      /\ phase' = phase /\ seen' = seen /\ circle' = circle /\ todo' = todo
  BY DEF NextRoot
<1>2. r \in roots /\ r \in Names
  BY <1>1, LeastRoot DEF IInv, TypeSound
<1> HIDE DEF r
<1>3. /\ Names' = Names /\ Calls' = Calls /\ Inputs' = Inputs
      /\ \A n : DepsOf(n)' = DepsOf(n)
  BY GivenStays DEF Beside
<1>4. TypeSound'
  BY <1>1, <1>2, <1>3, BesideKeeps, CallFacts DEF IInv, TypeSound
<1>5. OrderSound'
  BY <1>1, <1>3 DEF IInv, OrderSound
<1>6. CASE r \in seen
  <2>1. stack' = <<>> /\ DOMAIN stack' = {} /\ OnPath = {} /\ OnPath' = {}
    BY <1>1, <1>6 DEF OnPath
  <2>2. StackSound'
    BY <2>1 DEF StackSound
  <2>3. SeenSound'
    <3>1. Names' = roots' \cup seen' \cup OnPath'
      BY <1>1, <1>2, <1>3, <1>6, <2>1 DEF IInv, SeenSound
    <3>2. \A n \in seen' : DepsOf(n)' \subseteq seen'
      BY <1>1, <1>3 DEF IInv, SeenSound
    <3>3. Acyclic(seen)'
      BY <1>1, AcyclicStays DEF IInv, SeenSound, Beside
    <3> QED BY <3>1, <3>2, <3>3 DEF SeenSound
  <2> QED BY <1>1, <1>4, <1>5, <2>2, <2>3, BesideKeeps, WalkKeepsRest DEF IInv
<1>7. CASE r \notin seen
  <2>1. /\ stack' = <<Call(Inputs, r)>> /\ DOMAIN stack' = {1} /\ OnPath = {}
        /\ stack'[1].name = r /\ stack'[1].left = DepsOf(r)
    BY <1>1, <1>2, <1>7, CallFacts DEF OnPath
  <2>2. OnPath' = {r}
    BY <2>1 DEF OnPath
  <2>3. StackSound'
    BY <1>1, <1>3, <1>7, <2>1 DEF StackSound
  <2>4. SeenSound'
    <3>1. Names' = roots' \cup seen' \cup OnPath'
      BY <1>1, <1>2, <1>3, <2>1, <2>2 DEF IInv, SeenSound
    <3>2. \A n \in seen' : DepsOf(n)' \subseteq seen'
      BY <1>1, <1>3 DEF IInv, SeenSound
    <3>3. Acyclic(seen)'
      BY <1>1, AcyclicStays DEF IInv, SeenSound, Beside
    <3> QED BY <3>1, <3>2, <3>3 DEF SeenSound
  <2> QED BY <1>1, <1>4, <1>5, <2>3, <2>4, BesideKeeps, WalkKeepsRest DEF IInv
<1> QED BY <1>6, <1>7

(* A walk that rejects the workflow: the search, before there is anything. *)
LEMMA CloseKeeps ==
  ASSUME IInv, Beside, Walking, stack # <<>>, NEW d \in Top.left, Closes(d),
         phase' = "rejected",
         circle' = {stack[i].name : i \in {i \in DOMAIN stack : \E j \in 1..i : stack[j].name = d}},
         stack' \in Seq(Calls), UNCHANGED <<roots, seen, todo>>
  PROVE  IInv'
<1>1. phase = "search" /\ d \in OnPath
  BY DEF Closes
<1>2. TypeSound /\ StackSound
  BY DEF IInv
<1>3. Len(stack) \in DOMAIN stack
  BY EmptySeq, <1>2 DEF TypeSound
<1>4. d \in DepsOf(Top.name)
  BY <1>2, <1>3 DEF StackSound, Top
<1>5. /\ Names' = Names /\ Calls' = Calls /\ Inputs' = Inputs
      /\ \A n : DepsOf(n)' = DepsOf(n)
  BY GivenStays DEF Beside
<1>6. /\ circle' # {} /\ circle' \subseteq Names
      /\ \A n \in circle' : DepsOf(n) \cap circle' # {}
  BY <1>1, <1>2, <1>4, CircleIsReal
<1>7. RejectedForCause'
  <2>1. ASSUME NEW n \in circle' PROVE Mentioned(n) \cap (circle' \ {n}) # {}
    <3>1. n \in Names /\ n \notin DepsOf(n)
      BY <1>6 DEF DepsOf, Deps
    <3> QED BY <1>6, <3>1, MentionsAreDeps
  <2> QED BY <1>6, <2>1, GivenStays DEF RejectedForCause, Beside
<1>8. TypeSound'
  BY <1>2, <1>5, BesideKeeps DEF TypeSound, Phases
<1>9. PhaseSound' /\ ValuesSound'
  BY <1>1 DEF IInv, PhaseSound, ValuesSound, Beside, resolution
<1>10. OrderSound'
  BY <1>5 DEF IInv, OrderSound
<1> QED BY <1>7, <1>8, <1>9, <1>10, BesideKeeps DEF IInv, Walking

(* Of a dependency that is followed, what becomes of the stack.            *)
LEMMA RestFacts ==
  ASSUME TypeSound, stack # <<>>, NEW d,
         NEW rest, rest = [stack EXCEPT ![Len(stack)].left = @ \ {d}]
  PROVE  /\ rest \in Seq(Calls) /\ Len(rest) = Len(stack) /\ DOMAIN rest = DOMAIN stack
         /\ \A i \in DOMAIN stack :
              /\ rest[i].name = stack[i].name
              /\ rest[i].left = IF i = Len(stack) THEN stack[i].left \ {d} ELSE stack[i].left
<1> DEFINE k == Len(stack)
<1>1. k \in Nat \ {0} /\ DOMAIN stack = 1..k /\ \A i \in 1..k : stack[i] \in Calls
  BY EmptySeq DEF TypeSound
<1>2. DOMAIN rest = 1..k /\ \A i \in 1..k : rest[i] =
        IF i = k THEN [stack[k] EXCEPT !.left = @ \ {d}] ELSE stack[i]
  BY <1>1
<1>3. \A i \in 1..k :
        /\ rest[i].name = stack[i].name
        /\ rest[i].left = IF i = k THEN stack[i].left \ {d} ELSE stack[i].left
        /\ rest[i] \in Calls
  BY <1>1, <1>2 DEF Calls
<1>4. rest = [i \in 1..k |-> rest[i]]
  BY <1>1, <1>2
<1>5. rest \in Seq(Calls) /\ Len(rest) = k
  <2>1. rest \in [1..k -> Calls]
    BY <1>3, <1>4
  <2>2. rest \in Seq(Calls)
    BY <1>1, <2>1, SeqDef
  <2> QED BY <1>1, <1>2, <2>2, LenProperties
<1> QED BY <1>1, <1>2, <1>3, <1>5

(* A dependency on the path of the order would close a circle.             *)
LEMMA NoGrey ==
  ASSUME IInv, Walking, stack # <<>>, NEW d \in Top.left, ~Closes(d)
  PROVE  d \notin OnPath
<1> SUFFICES ASSUME d \in OnPath PROVE FALSE
  OBVIOUS
<1>1. phase = "order"
  BY DEF Closes, Walking
<1>2. Len(stack) \in DOMAIN stack
  BY EmptySeq DEF IInv, TypeSound
<1>3. d \in DepsOf(Top.name)
  BY <1>2 DEF IInv, StackSound, Top
<1> DEFINE C == {stack[i].name : i \in {i \in DOMAIN stack : \E j \in 1..i : stack[j].name = d}}
<1>4. C # {} /\ C \subseteq Names /\ \A n \in C : DepsOf(n) \cap C # {}
  BY <1>3, CircleIsReal DEF IInv
<1> HIDE DEF C
<1>5. Acyclic(Names)
  BY <1>1 DEF IInv, PhaseSound
<1> QED BY <1>4, <1>5 DEF Acyclic

LEMMA SkipKeeps ==
  ASSUME IInv, Beside, Walking, stack # <<>>, NEW d \in Top.left, d \in seen,
         stack' = [stack EXCEPT ![Len(stack)].left = @ \ {d}],
         UNCHANGED <<phase, roots, seen, circle, todo>>
  PROVE  IInv'
<1>1. /\ stack' \in Seq(Calls) /\ DOMAIN stack' = DOMAIN stack
      /\ \A i \in DOMAIN stack :
           /\ stack'[i].name = stack[i].name
           /\ stack'[i].left = IF i = Len(stack) THEN stack[i].left \ {d} ELSE stack[i].left
  BY RestFacts DEF IInv
<1>2. /\ Names' = Names /\ Calls' = Calls /\ Inputs' = Inputs
      /\ \A n : DepsOf(n)' = DepsOf(n)
  BY GivenStays DEF Beside
<1>3. TypeSound'
  BY <1>1, <1>2, BesideKeeps DEF IInv, TypeSound
<1>4. StackSound'
  <2>1. ASSUME NEW i \in DOMAIN stack
        PROVE  /\ stack'[i].name \notin seen
               /\ stack'[i].left \subseteq DepsOf(stack'[i].name)
               /\ \A e \in DepsOf(stack'[i].name) \ stack'[i].left :
                    e \in seen \/ (i + 1 \in DOMAIN stack' /\ stack'[i + 1].name = e)
    BY <1>1, <2>1 DEF IInv, StackSound
  <2>2. \A i, j \in DOMAIN stack : stack'[i].name = stack'[j].name => i = j
    BY <1>1 DEF IInv, StackSound
  <2>3. \A i \in DOMAIN stack : i + 1 \in DOMAIN stack => stack'[i + 1].name \in DepsOf(stack'[i].name)
    BY <1>1 DEF IInv, StackSound
  <2> QED BY <1>1, <1>2, <2>1, <2>2, <2>3 DEF StackSound
<1>5. SeenSound'
  <2>1. OnPath' = OnPath
    BY <1>1 DEF OnPath
  <2>2. Acyclic(seen)'
    BY AcyclicStays DEF IInv, SeenSound, Beside
  <2> QED BY <1>2, <2>1, <2>2 DEF IInv, SeenSound
<1>6. OrderSound'
  BY <1>2 DEF IInv, OrderSound
<1> QED BY <1>3, <1>4, <1>5, <1>6, BesideKeeps, WalkKeepsRest DEF IInv

LEMMA DescendKeeps ==
  ASSUME IInv, Beside, Walking, stack # <<>>, NEW d \in Top.left, d \notin seen \cup OnPath,
         stack' = Append([stack EXCEPT ![Len(stack)].left = @ \ {d}], Call(Inputs, d)),
         UNCHANGED <<phase, roots, seen, circle, todo>>
  PROVE  IInv'
<1> DEFINE k == Len(stack)
<1>1. PICK rest : rest = [stack EXCEPT ![k].left = @ \ {d}]
  OBVIOUS
<1>2. /\ rest \in Seq(Calls) /\ Len(rest) = k /\ DOMAIN rest = DOMAIN stack
      /\ \A i \in DOMAIN stack :
           /\ rest[i].name = stack[i].name
           /\ rest[i].left = IF i = k THEN stack[i].left \ {d} ELSE stack[i].left
  BY <1>1, RestFacts DEF IInv
<1>3. k \in Nat \ {0} /\ DOMAIN stack = 1..k
  BY EmptySeq DEF IInv, TypeSound
<1>4. d \in DepsOf(stack[k].name) /\ d \in Names
  BY <1>3 DEF IInv, StackSound, Top, DepsOf, Deps, Names
<1>5. PICK call : call = Call(Inputs, d)
  OBVIOUS
<1>6. call \in Calls /\ call.name = d /\ call.left = DepsOf(d)
  BY <1>4, <1>5, CallFacts
<1>7. stack' = Append(rest, call)
  BY <1>1, <1>5
<1> HIDE DEF k
<1>8. /\ stack' \in Seq(Calls) /\ DOMAIN stack' = 1..(k + 1)
      /\ \A i \in 1..k : stack'[i] = rest[i]
      /\ stack'[k + 1] = call
  <2>1. /\ stack' \in Seq(Calls) /\ Len(stack') = k + 1
        /\ \A i \in 1..k : stack'[i] = rest[i]
        /\ stack'[k + 1] = call
    BY ONLY <1>2, <1>6, <1>7, AppendProperties
  <2>2. DOMAIN stack' = 1..(k + 1)
    BY ONLY <2>1, LenProperties
  <2> QED BY <2>1, <2>2
<1>9. /\ \A i \in 1..k :
           /\ stack'[i].name = stack[i].name
           /\ stack'[i].left = IF i = k THEN stack[i].left \ {d} ELSE stack[i].left
      /\ stack'[k + 1].name = d /\ stack'[k + 1].left = DepsOf(d)
  BY <1>2, <1>3, <1>6, <1>8
<1>10. /\ Names' = Names /\ Calls' = Calls /\ Inputs' = Inputs
       /\ \A n : DepsOf(n)' = DepsOf(n)
  BY GivenStays DEF Beside
<1>11. TypeSound'
  BY <1>8, <1>10, BesideKeeps DEF IInv, TypeSound
<1>12. \A i \in 1..k : stack[i].name # d
  BY <1>3 DEF OnPath
<1>13. StackSound'
  <2>1. ASSUME NEW i \in 1..(k + 1)
        PROVE  /\ stack'[i].name \notin seen
               /\ stack'[i].left \subseteq DepsOf(stack'[i].name)
               /\ \A e \in DepsOf(stack'[i].name) \ stack'[i].left :
                    e \in seen \/ (i + 1 \in 1..(k + 1) /\ stack'[i + 1].name = e)
    <3>1. CASE i = k + 1
      BY <1>9, <3>1
    <3>2. CASE i = k
      BY <1>3, <1>9, <3>2 DEF IInv, StackSound
    <3>3. CASE i \in 1..(k - 1)
      <4>1. i \in 1..k /\ i + 1 \in 1..k /\ i + 1 \in 1..(k + 1) /\ i # k
        BY <1>3, <3>3
      <4> QED BY <1>3, <1>9, <4>1 DEF IInv, StackSound
    <3> QED BY <1>3, <2>1, <3>1, <3>2, <3>3
  <2>2. ASSUME NEW i \in 1..(k + 1), NEW j \in 1..(k + 1), stack'[i].name = stack'[j].name
        PROVE  i = j
    <3>1. CASE i \in 1..k /\ j \in 1..k
      BY <1>3, <1>9, <2>2, <3>1 DEF IInv, StackSound
    <3>2. CASE i = k + 1 /\ j = k + 1
      BY <3>2
    <3>3. CASE i \in 1..k /\ j = k + 1
      BY <1>9, <1>12, <2>2, <3>3
    <3>4. CASE i = k + 1 /\ j \in 1..k
      BY <1>9, <1>12, <2>2, <3>4
    <3> QED BY <1>3, <2>2, <3>1, <3>2, <3>3, <3>4
  <2>3. ASSUME NEW i \in 1..(k + 1), i + 1 \in 1..(k + 1)
        PROVE  stack'[i + 1].name \in DepsOf(stack'[i].name)
    <3>1. CASE i = k
      BY <1>3, <1>4, <1>9, <3>1
    <3>2. CASE i # k
      <4>1. i \in 1..k /\ i + 1 \in 1..k
        BY <1>3, <2>3, <3>2
      <4> QED BY <1>3, <1>9, <4>1 DEF IInv, StackSound
    <3> QED BY <3>1, <3>2
  <2> QED BY <1>8, <1>10, <2>1, <2>2, <2>3 DEF StackSound
<1>14. SeenSound'
  <2>1. OnPath' = OnPath \cup {d}
    BY <1>3, <1>8, <1>9 DEF OnPath
  <2>2. Acyclic(seen)'
    BY AcyclicStays DEF IInv, SeenSound, Beside
  <2> QED BY <1>4, <1>10, <2>1, <2>2 DEF IInv, SeenSound
<1>15. OrderSound'
  BY <1>10 DEF IInv, OrderSound
<1> QED BY <1>11, <1>13, <1>14, <1>15, BesideKeeps, WalkKeepsRest DEF IInv

LEMMA FollowKeeps ==
  ASSUME IInv, Beside, Follow(Inputs)
  PROVE  IInv'
<1>1. /\ Walking /\ stack # <<>> /\ UNCHANGED <<roots, seen, todo>>
      /\ \E d \in Top.left :
           LET rest == [stack EXCEPT ![Len(stack)].left = @ \ {d}] IN
           /\ stack' = IF d \in seen \cup OnPath THEN rest ELSE Append(rest, Call(Inputs, d))
           /\ IF Closes(d)
              THEN /\ phase' = "rejected"
                   /\ circle' = {stack[i].name : i \in {i \in DOMAIN stack : \E j \in 1..i : stack[j].name = d}}
              ELSE UNCHANGED <<phase, circle>>
  BY DEF Follow
<1>2. PICK d \in Top.left :
        LET rest == [stack EXCEPT ![Len(stack)].left = @ \ {d}] IN
        /\ stack' = IF d \in seen \cup OnPath THEN rest ELSE Append(rest, Call(Inputs, d))
        /\ IF Closes(d)
           THEN /\ phase' = "rejected"
                /\ circle' = {stack[i].name : i \in {i \in DOMAIN stack : \E j \in 1..i : stack[j].name = d}}
           ELSE UNCHANGED <<phase, circle>>
  BY <1>1
<1>3. CASE Closes(d)
  <2>1. d \in OnPath
    BY <1>3 DEF Closes
  <2>2. stack' \in Seq(Calls)
    BY <1>1, <1>2, <2>1, RestFacts DEF IInv
  <2> QED BY <1>1, <1>2, <1>3, <2>2, CloseKeeps
<1>4. CASE ~Closes(d) /\ d \in seen
  BY <1>1, <1>2, <1>4, SkipKeeps
<1>5. CASE ~Closes(d) /\ d \notin seen
  <2>1. d \notin OnPath
    BY <1>1, <1>5, NoGrey
  <2> QED BY <1>1, <1>2, <1>5, <2>1, DescendKeeps
<1> QED BY <1>3, <1>4, <1>5

(* An input that is left is settled: all that it waits for was seen.       *)
LEMMA TopIsSettled ==
  ASSUME TypeSound, StackSound, stack # <<>>, Top.left = {}
  PROVE  /\ Len(stack) \in Nat \ {0} /\ DOMAIN stack = 1..Len(stack)
         /\ Top.name \in Names /\ Top.name \notin seen /\ DepsOf(Top.name) \subseteq seen
<1>1. Len(stack) \in Nat \ {0} /\ DOMAIN stack = 1..Len(stack) /\ stack[Len(stack)] \in Calls
  BY EmptySeq DEF TypeSound
<1>2. Top \in Calls
  BY <1>1 DEF Top
<1>3. Len(stack) + 1 \notin DOMAIN stack
  BY <1>1
<1>4. ASSUME NEW d \in DepsOf(Top.name) PROVE d \in seen
  BY <1>1, <1>3 DEF StackSound, Top
<1> QED BY <1>1, <1>2, <1>4 DEF StackSound, Top, Calls

LEMMA LeaveKeeps ==
  ASSUME IInv, Beside, Leave
  PROVE  IInv'
<1> DEFINE k == Len(stack)
<1>1. PICK t : t = Top.name
  OBVIOUS
<1>2. /\ Walking /\ stack # <<>> /\ Top.left = {}
      /\ stack' = SubSeq(stack, 1, k - 1)
      /\ seen' = seen \cup {t}
      /\ todo' = IF phase = "order" THEN Append(todo, t) ELSE todo
      /\ phase' = phase /\ roots' = roots /\ circle' = circle
  BY <1>1 DEF Leave, Front
<1>3. TypeSound /\ StackSound /\ SeenSound /\ OrderSound
  BY <1>2 DEF IInv
<1>4. /\ k \in Nat \ {0} /\ DOMAIN stack = 1..k
      /\ t \in Names /\ t \notin seen /\ DepsOf(t) \subseteq seen /\ t = stack[k].name
  BY <1>1, <1>2, <1>3, TopIsSettled DEF Top
<1> HIDE DEF k
<1>5. /\ stack' \in Seq(Calls) /\ DOMAIN stack' = 1..(k - 1)
      /\ \A i \in 1..(k - 1) : stack'[i] = stack[i]
  <2>1. \A i \in 1..(k - 1) : stack[i] \in Calls
    BY <1>3, <1>4 DEF TypeSound
  <2>2. /\ stack' \in Seq(Calls) /\ Len(stack') = IF 1 <= k - 1 THEN (k - 1) - 1 + 1 ELSE 0
        /\ \A i \in 1..((k - 1) - 1 + 1) : stack'[i] = stack[1 + i - 1]
    BY ONLY <1>2, <1>4, <2>1, SubSeqProperties
  <2>3. Len(stack') = k - 1
    BY <1>4, <2>2
  <2>4. DOMAIN stack' = 1..(k - 1)
    BY ONLY <2>2, <2>3, LenProperties
  <2> QED BY <1>4, <2>2, <2>4
<1>6. /\ Names' = Names /\ Calls' = Calls /\ Inputs' = Inputs
      /\ \A n : DepsOf(n)' = DepsOf(n)
  BY GivenStays DEF Beside
<1>7. todo' \in Seq(Names)
  BY <1>2, <1>3, <1>4, AppendProperties DEF TypeSound
<1>8. TypeSound'
  BY <1>2, <1>3, <1>4, <1>5, <1>6, <1>7, BesideKeeps DEF TypeSound
<1>9. \A i \in 1..(k - 1) : i \in 1..k /\ stack[i].name # t
  BY <1>3, <1>4 DEF StackSound
<1>10. StackSound'
  <2>1. ASSUME NEW i \in 1..(k - 1)
        PROVE  /\ stack[i].name \notin seen'
               /\ stack[i].left \subseteq DepsOf(stack[i].name)
               /\ \A e \in DepsOf(stack[i].name) \ stack[i].left :
                    e \in seen' \/ (i + 1 \in 1..(k - 1) /\ stack[i + 1].name = e)
    <3>1. /\ stack[i].name \notin seen
          /\ stack[i].left \subseteq DepsOf(stack[i].name)
          /\ \A e \in DepsOf(stack[i].name) \ stack[i].left :
               e \in seen \/ (i + 1 \in 1..k /\ stack[i + 1].name = e)
      BY <1>3, <1>4, <1>9 DEF StackSound
    <3> QED BY <1>2, <1>4, <1>9, <3>1
  <2>2. \A i, j \in 1..(k - 1) : stack[i].name = stack[j].name => i = j
    BY <1>3, <1>4, <1>9 DEF StackSound
  <2>3. \A i \in 1..(k - 1) : i + 1 \in 1..(k - 1) => stack[i + 1].name \in DepsOf(stack[i].name)
    BY <1>3, <1>4, <1>9 DEF StackSound
  <2> QED BY <1>5, <1>6, <2>1, <2>2, <2>3 DEF StackSound
<1>11. SeenSound'
  <2>1. OnPath = OnPath' \cup {t}
    <3>1. OnPath' = {stack[i].name : i \in 1..(k - 1)}
      BY <1>5 DEF OnPath
    <3>2. OnPath = {stack[i].name : i \in 1..k}
      BY <1>4 DEF OnPath
    <3>3. \A i \in 1..k : i = k \/ i \in 1..(k - 1)
      BY <1>4
    <3> QED BY <1>4, <1>9, <3>1, <3>2, <3>3
  <2>2. Names' = roots' \cup seen' \cup OnPath'
    BY <1>2, <1>3, <1>6, <2>1 DEF SeenSound
  <2>3. \A n \in seen' : DepsOf(n)' \subseteq seen'
    BY <1>2, <1>3, <1>4, <1>6 DEF SeenSound
  <2>4. Acyclic(seen \cup {t})
    BY <1>3, <1>4, AcyclicGrows DEF SeenSound
  <2>5. Acyclic(seen)'
    BY <1>2, <1>6, <2>4 DEF Acyclic
  <2> QED BY <2>2, <2>3, <2>5 DEF SeenSound
<1>12. OrderSound'
  <2>1. CASE phase # "order"
    BY <1>2, <1>3, <1>6, <2>1 DEF OrderSound, Walking
  <2>2. CASE phase = "order"
    <3> DEFINE m == Len(todo)
    <3>1. m \in Nat /\ DOMAIN todo = 1..m /\ todo \in Seq(Names) /\ seen = Range(todo)
      BY <1>3, <2>2 DEF TypeSound, OrderSound
    <3>2. todo' = Append(todo, t)
      BY <1>2, <2>2
    <3>3. /\ DOMAIN todo' = 1..(m + 1) /\ \A i \in 1..m : todo'[i] = todo[i]
          /\ todo'[m + 1] = t
      <4>1. /\ todo' \in Seq(Names) /\ Len(todo') = m + 1
            /\ \A i \in 1..m : todo'[i] = todo[i]
            /\ todo'[m + 1] = t
        BY ONLY <1>4, <3>1, <3>2, AppendProperties
      <4>2. DOMAIN todo' = 1..(m + 1)
        BY ONLY <4>1, LenProperties
      <4> QED BY <4>1, <4>2
    <3> HIDE DEF m
    <3>4. \A i \in 1..m : todo[i] \in seen
      BY <3>1 DEF Range
    <3>5. ASSUME NEW i \in 1..(m + 1), NEW j \in 1..(m + 1), i <= j
          PROVE  todo'[j] \notin DepsOf(todo'[i]) /\ (todo'[i] = todo'[j] => i = j)
      <4>1. CASE j \in 1..m
        <5>1. i \in 1..m
          BY <3>1, <3>5, <4>1
        <5> QED BY <1>3, <3>1, <3>3, <3>5, <4>1, <5>1 DEF OrderSound
      <4>2. CASE j = m + 1 /\ i = m + 1
        BY <3>3, <4>2 DEF DepsOf, Deps
      <4>3. CASE j = m + 1 /\ i \in 1..m
        <5>1. todo'[i] \in seen /\ todo'[j] = t
          BY <3>3, <3>4, <4>3
        <5> QED BY <1>3, <1>4, <5>1 DEF SeenSound
      <4> QED BY <3>1, <3>5, <4>1, <4>2, <4>3
    <3>6. seen' = Range(todo')
      <4>1. Range(todo') = {todo'[i] : i \in 1..(m + 1)}
        BY <3>3 DEF Range
      <4>2. seen = {todo[i] : i \in 1..m}
        BY <3>1 DEF Range
      <4>3. \A i \in 1..(m + 1) : i = m + 1 \/ i \in 1..m
        BY <3>1
      <4>4. m + 1 \in 1..(m + 1) /\ \A i \in 1..m : i \in 1..(m + 1)
        BY <3>1
      <4> QED BY <1>2, <3>3, <4>1, <4>2, <4>3, <4>4
    <3> QED BY <1>2, <1>6, <2>2, <3>3, <3>5, <3>6 DEF OrderSound
  <2> QED BY <2>1, <2>2
<1>13. PhaseSound' /\ ValuesSound' /\ RejectedForCause' /\ Walking'
  BY <1>2, WalkKeepsRest
<1> QED BY <1>8, <1>10, <1>11, <1>12, <1>13, BesideKeeps DEF IInv

LEMMA EndWalkKeeps ==
  ASSUME IInv, Beside, EndWalk
  PROVE  IInv'
<1>1. /\ phase \in {"search", "order"} /\ stack = <<>> /\ roots = {}
      /\ phase' = IF phase = "search" THEN "preset" ELSE "resolve"
      /\ UNCHANGED <<roots, stack, seen, circle, todo>>
  BY DEF EndWalk, Walking, walk
<1>2. /\ Names' = Names /\ Calls' = Calls /\ Inputs' = Inputs
      /\ \A n : DepsOf(n)' = DepsOf(n)
  BY GivenStays DEF Beside
<1>3. TypeSound'
  BY <1>1, <1>2, BesideKeeps DEF IInv, TypeSound, Phases
<1>4. seen = Names /\ Acyclic(Names)
  <2>1. OnPath = {}
    BY <1>1 DEF OnPath
  <2> QED BY <1>1, <2>1 DEF IInv, SeenSound, Walking
<1>5. PhaseSound'
  <2>1. Acyclic(Names)'
    BY <1>4, AcyclicStays DEF Beside
  <2> QED BY <1>1, <2>1, GivenStays DEF IInv, PhaseSound, Beside, given, resolution
<1>6. OrderSound'
  BY <1>1, <1>2, <1>4 DEF IInv, OrderSound
<1>7. ValuesSound'
  <2>1. out' = NoValues /\ DOMAIN out' = {}
    BY <1>1 DEF IInv, PhaseSound, Beside, resolution, NoValues
  <2>2. phase' = "resolve" => Names' \ Range(todo)' = {}
    BY <1>1, <1>2, <1>4 DEF IInv, OrderSound
  <2> QED BY <1>1, <2>1, <2>2 DEF ValuesSound
<1>8. RejectedForCause'
  BY <1>1 DEF RejectedForCause
<1>9. ~Walking'
  BY <1>1 DEF Walking
<1> QED BY <1>3, <1>5, <1>6, <1>7, <1>8, <1>9, BesideKeeps DEF IInv

-----------------------------------------------------------------------------
(* Values.                                                                 *)

(* The next input leaves the order, with all that it waits for behind it.  *)
LEMMA NextInOrder ==
  ASSUME IInv, phase = "resolve", todo # <<>>, UNCHANGED <<given, phase, seen>>,
         todo' = Tail(todo)
  PROVE  /\ Head(todo) \in Names /\ Head(todo) \notin Range(todo')
         /\ Range(todo) = Range(todo') \cup {Head(todo)}
         /\ todo' \in Seq(Names) /\ OrderSound'
<1> DEFINE k == Len(todo)
<1>1. PICK n : n = Head(todo)
  OBVIOUS
<1>2. todo \in Seq(Names)
  BY DEF IInv, TypeSound
<1>3. k \in Nat \ {0} /\ DOMAIN todo = 1..k /\ n = todo[1] /\ n \in Names
  BY <1>1, <1>2, EmptySeq, HeadTailProperties
<1>4. /\ todo' \in Seq(Names) /\ DOMAIN todo' = 1..(k - 1)
      /\ \A i \in 1..(k - 1) : todo'[i] = todo[i + 1]
  <2>1. /\ todo' \in Seq(Names) /\ Len(todo') = k - 1
        /\ \A i \in 1..Len(todo') : todo'[i] = todo[i + 1]
    BY <1>2, HeadTailProperties
  <2>2. DOMAIN todo' = 1..(k - 1)
    BY ONLY <2>1, LenProperties
  <2> QED BY <2>1, <2>2
<1> HIDE DEF k
<1>5. \A i, j \in 1..k : i <= j => todo[j] \notin DepsOf(todo[i]) /\ (todo[i] = todo[j] => i = j)
  BY <1>3 DEF IInv, OrderSound
<1>6. \A i \in 1..(k - 1) : /\ i + 1 \in 1..k /\ 1 \in 1..k /\ 1 <= i + 1 /\ i + 1 # 1
                            /\ todo'[i] # n /\ todo'[i] \notin DepsOf(n)
  <2> TAKE i \in 1..(k - 1)
  <2>1. i + 1 \in 1..k /\ 1 \in 1..k /\ 1 <= i + 1 /\ i + 1 # 1
    BY <1>3
  <2> QED BY <1>3, <1>4, <1>5, <2>1
<1>7. n \notin Range(todo') /\ DepsOf(n) \cap Range(todo') = {}
  BY <1>4, <1>6 DEF Range
<1>8. Range(todo) = Range(todo') \cup {n}
  <2>1. \A i \in 1..k : i = 1 \/ (i - 1 \in 1..(k - 1) /\ (i - 1) + 1 = i)
    BY <1>3
  <2>2. \A i \in 1..k : todo[i] \in Range(todo') \cup {n}
    BY <1>3, <1>4, <2>1 DEF Range
  <2>3. \A i \in 1..(k - 1) : todo'[i] \in Range(todo)
    BY <1>3, <1>4, <1>6 DEF Range
  <2>4. n \in Range(todo)
    BY <1>3 DEF Range
  <2>5. Range(todo) \subseteq Range(todo') \cup {n}
    BY <1>3, <2>2 DEF Range
  <2>6. Range(todo') \subseteq Range(todo)
    BY <1>4, <2>3 DEF Range
  <2> QED BY <2>4, <2>5, <2>6
<1>9. /\ Names' = Names /\ \A m : DepsOf(m)' = DepsOf(m)
  BY GivenStays
<1>10. OrderSound'
  <2>1. ASSUME NEW i \in 1..(k - 1), NEW j \in 1..(k - 1), i <= j
        PROVE  todo'[j] \notin DepsOf(todo'[i]) /\ (todo'[i] = todo'[j] => i = j)
    <3>1. i + 1 <= j + 1 /\ i + 1 \in 1..k /\ j + 1 \in 1..k /\ (i + 1 = j + 1 => i = j)
      BY <1>3, <2>1
    <3> QED BY <1>4, <1>5, <3>1
  <2>2. ASSUME NEW m \in Names \ Range(todo') PROVE DepsOf(m) \cap Range(todo') = {}
    <3>1. CASE m = n
      BY <1>7, <3>1
    <3>2. CASE m # n
      <4>1. m \in Names \ Range(todo)
        BY <1>8, <3>2
      <4>2. DepsOf(m) \cap Range(todo) = {}
        BY <4>1 DEF IInv, OrderSound
      <4> QED BY <1>8, <4>2
    <3> QED BY <3>1, <3>2
  <2> QED BY <1>4, <1>9, <2>1, <2>2 DEF OrderSound
<1> QED BY <1>1, <1>3, <1>4, <1>7, <1>8, <1>10

(* What a value is converted from was supplied or written down, or it was  *)
(* read by an expression and is taken over.                                *)
LEMMA ResolvedFits ==
  ASSUME IInv, phase = "resolve", NEW n \in Names,
         NEW v \in UNION {Typed(n, raw) : raw \in Raw(n)},
         ~(Inputs[n].type = "" /\ Structured(v)),
         ~(/\ Inputs[n].type = "duration" \/ Inputs[n].items = "duration"
           /\ n \notin DOMAIN supplied
           /\ \E d \in Inputs[n].default : IsExprString(d) /\ Content(d).op = "read")
  PROVE  Admitted(Inputs[n], v)
<1>1. PICK raw \in Raw(n) : v \in Typed(n, raw)
  OBVIOUS
<1>2. \/ Literal(raw)
      \/ /\ n \notin DOMAIN supplied
         /\ \E d \in Inputs[n].default : IsExprString(d) /\ Content(d).op = "read"
  BY <1>1, RawFacts DEF IInv, TypeSound, PhaseSound
<1> QED BY <1>1, <1>2, TypedFits

(* An input without a value has none coming.                               *)
LEMMA NoValueFacts ==
  ASSUME NEW n, Raw(n) = {Null}
  PROVE  n \in DOMAIN supplied => supplied[n] = Null
BY DEF Raw

(* Who is at fault where there is no value: what the author wrote was      *)
(* tried when the workflow was validated.                                  *)
AtFault(n) ==
  LET written == IF FromPreset(n) # {} THEN {workflow.presets[p][n] : p \in FromPreset(n)}
                 ELSE Inputs[n].default IN
  \/ n \in DOMAIN supplied
  \/ n \in DOMAIN environ /\ FromPreset(n) = {}
  \/ written \subseteq {Null} /\ Inputs[n].required
  \/ FromPreset(n) = {} /\ \E d \in written : IsExprString(d)
  \/ EffectiveType(Inputs[n]) = "path"

LEMMA MissingFault ==
  ASSUME NEW n, Raw(n) = {Null}, Inputs[n].required
  PROVE  AtFault(n)
<1>1. CASE n \in DOMAIN supplied \/ (n \in DOMAIN environ /\ FromPreset(n) = {})
  BY <1>1 DEF AtFault
<1>2. CASE n \notin DOMAIN supplied /\ FromPreset(n) # {}
  <2>1. {workflow.presets[p][n] : p \in FromPreset(n)} = {Null}
    BY <1>2 DEF Raw
  <2> QED BY <1>2, <2>1 DEF AtFault
<1>3. CASE n \notin DOMAIN supplied /\ FromPreset(n) = {} /\ n \notin DOMAIN environ
  <2>1. CASE \E d \in Inputs[n].default : IsExprString(d)
    BY <1>3, <2>1 DEF AtFault
  <2>2. CASE ~\E d \in Inputs[n].default : IsExprString(d)
    <3>1. \A d \in Inputs[n].default : d \in Raw(n)
      BY <1>3, <2>2 DEF Raw
    <3> QED BY <1>3, <3>1 DEF AtFault
  <2> QED BY <2>1, <2>2
<1> QED BY <1>1, <1>2, <1>3

LEMMA RefusedFault ==
  ASSUME Valid, preset \subseteq DOMAIN workflow.presets,
         NEW n \in Names, Raw(n) # {Null}, UNION {Typed(n, raw) : raw \in Raw(n)} = Error
  PROVE  AtFault(n)
<1> SUFFICES ASSUME EffectiveType(Inputs[n]) # "path" PROVE AtFault(n)
  BY DEF AtFault
<1>1. \A raw \in Raw(n) : Coerce(Inputs[n], raw) = Error
  BY DEF Typed, Confined, Error
<1>2. CASE n \in DOMAIN supplied \/ (n \in DOMAIN environ /\ FromPreset(n) = {})
  BY <1>2 DEF AtFault
<1>3. CASE n \notin DOMAIN supplied /\ FromPreset(n) # {}
  <2>1. PICK p \in FromPreset(n) : workflow.presets[p][n] \in Raw(n)
    BY <1>3 DEF Raw
  <2>2. p \in DOMAIN workflow.presets /\ n \in DOMAIN workflow.presets[p]
    BY <2>1 DEF FromPreset
  <2>3. Coerce(Inputs[n], workflow.presets[p][n]) # Error
    BY <2>2 DEF Valid, ValidPresets
  <2> QED BY <1>1, <2>1, <2>3
<1>4. CASE n \notin DOMAIN supplied /\ FromPreset(n) = {} /\ n \notin DOMAIN environ
  <2>1. CASE \E d \in Inputs[n].default : IsExprString(d)
    BY <1>4, <2>1 DEF AtFault
  <2>2. CASE ~\E d \in Inputs[n].default : IsExprString(d)
    <3>1. Inputs[n].default # {}
      BY <1>4 DEF Raw
    <3>2. Raw(n) = Inputs[n].default
      <4>1. Raw(n) = UNION {IF IsExprString(d) THEN Interpolate(Content(d), out) ELSE {d} :
                              d \in Inputs[n].default}
        BY <1>4, <3>1 DEF Raw
      <4>2. \A d \in Inputs[n].default :
              (IF IsExprString(d) THEN Interpolate(Content(d), out) ELSE {d}) = {d}
        BY <2>2
      <4>3. \A x : x \in Raw(n) <=> x \in Inputs[n].default
        BY <4>1, <4>2
      <4> QED BY <4>3
    <3>3. PICK d \in Inputs[n].default : d # Null
      BY <3>1, <3>2
    <3>4. Coerce(Inputs[n], d) # Error
      BY <2>2, <3>3 DEF Valid, ValidInput, Names
    <3> QED BY <1>1, <3>2, <3>3, <3>4
  <2> QED BY <2>1, <2>2
<1> QED BY <1>2, <1>3, <1>4

LEMMA FaultStays ==
  ASSUME UNCHANGED given
  PROVE  \A n : AtFault(n)' = AtFault(n)
BY GivenStays DEF AtFault, given

LEMMA ResolveNextKeeps == IInv /\ ResolveNext => IInv'
<1> SUFFICES ASSUME IInv, ResolveNext PROVE IInv'
  OBVIOUS
<1>1. PICK n : n = Head(todo)
  OBVIOUS
<1>2. /\ phase = "resolve" /\ todo # <<>> /\ todo' = Tail(todo)
      /\ UNCHANGED <<given, phase, roots, stack, seen, circle, scope, path>>
  BY DEF ResolveNext, walk
<1>3. \/ /\ Raw(n) = {Null}
         /\ ierrs' = IF Inputs[n].required THEN ierrs \cup {n} ELSE ierrs
         /\ out' = out
      \/ /\ Raw(n) # {Null} /\ UNION {Typed(n, raw) : raw \in Raw(n)} = Error
         /\ ierrs' = ierrs \cup {n}
         /\ out' = out
      \/ /\ Raw(n) # {Null}
         /\ \E v \in UNION {Typed(n, raw) : raw \in Raw(n)} : out' = With(out, n, v)
         /\ ierrs' = ierrs
  BY <1>1 DEF ResolveNext
<1>4. /\ Names' = Names /\ Calls' = Calls /\ Inputs' = Inputs /\ Valid' = Valid
      /\ \A m : DepsOf(m)' = DepsOf(m)
  BY <1>2, GivenStays
<1>5. /\ n \in Names /\ n \notin Range(todo') /\ Range(todo) = Range(todo') \cup {n}
      /\ todo' \in Seq(Names) /\ OrderSound'
  BY <1>1, <1>2, NextInOrder
<1>6. TypeSound'
  BY <1>2, <1>4, <1>5 DEF IInv, TypeSound, given
<1>7. PhaseSound'
  <2>1. Acyclic(Names)'
    BY <1>2, AcyclicStays DEF IInv, PhaseSound
  <2> QED BY <1>2, <1>4, <2>1 DEF IInv, PhaseSound, given
<1>8. Valid /\ preset \subseteq DOMAIN workflow.presets
  BY <1>2 DEF IInv, PhaseSound
<1>9. \A m : AtFault(m)' = AtFault(m)
  BY <1>2, FaultStays
<1>10. \A m \in ierrs : AtFault(m)
  BY DEF IInv, ErrorsAreTheCallers, AtFault
<1>11. ErrorsAreTheCallers'
  <2>1. \A m \in ierrs' : m \in ierrs \/ AtFault(m)
    BY <1>3, <1>5, <1>8, MissingFault, RefusedFault
  <2>2. \A m \in ierrs' : AtFault(m)'
    BY <1>9, <1>10, <2>1
  <2> QED BY <2>2 DEF ErrorsAreTheCallers, AtFault
<1>12. ASSUME NEW m \in Names, m \in DOMAIN out, m \in DOMAIN out', out'[m] = out[m]
       PROVE  Fits(m)'
  <2>1. Fits(m)
    BY <1>2, <1>12 DEF IInv, ValuesSound
  <2> QED BY <1>2, <1>4, <1>12, <2>1 DEF Fits, TakenOver, GivenAsNull, given
<1>13. CASE out' = out
  <2>1. \A m \in Names \cap DOMAIN out' : Fits(m)'
    BY <1>12, <1>13
  <2>2. ASSUME NEW m \in Names \ (Range(todo') \cup DOMAIN out' \cup ierrs')
        PROVE  ~Inputs[m].required /\ (m \in DOMAIN supplied => supplied[m] = Null)
    <3>1. CASE m = n
      <4>1. n \notin ierrs'
        BY <2>2, <3>1
      <4>2. CASE Raw(n) = {Null}
        <5>1. ~Inputs[n].required
          BY <1>3, <4>1, <4>2
        <5> QED BY <3>1, <4>2, <5>1, NoValueFacts
      <4>3. CASE Raw(n) # {Null}
        <5>1. PICK v : out' = With(out, n, v)
          BY <1>3, <4>1, <4>3
        <5>2. n \in DOMAIN out'
          BY <5>1 DEF With
        <5> QED BY <2>2, <3>1, <5>2
      <4> QED BY <4>2, <4>3
    <3>2. CASE m # n
      <4>1. ierrs \subseteq ierrs'
        BY <1>3
      <4>2. m \in Names \ (Range(todo) \cup DOMAIN out \cup ierrs)
        BY <1>5, <1>13, <2>2, <3>2, <4>1
      <4> QED BY <1>2, <4>2 DEF IInv, ValuesSound
    <3> QED BY <3>1, <3>2
  <2>3. \A m \in Names \cap DOMAIN out' : ~GivenAsNull(m)'
    BY <1>2, <1>13 DEF IInv, ValuesSound, GivenAsNull, given
  <2>4. ValuesSound'
    BY <1>2, <1>4, <2>1, <2>2, <2>3 DEF ValuesSound, given
  <2> QED BY <2>4, <1>2, <1>5, <1>6, <1>7, <1>11 DEF IInv, Walking, RejectedForCause, BlankOnlyByCaller
<1>14. ASSUME NEW v \in UNION {Typed(n, raw) : raw \in Raw(n)}, out' = With(out, n, v), ierrs' = ierrs,
              Raw(n) # {Null}
       PROVE  IInv'
  <2>1. /\ DOMAIN out' = DOMAIN out \cup {n} /\ out'[n] = v
        /\ \A m \in DOMAIN out : m # n => out'[m] = out[m]
    BY <1>14 DEF With
  <2>2. Fits(n)'
    <3> SUFFICES ASSUME ~TakenOver(n)'
                 PROVE  Admitted(Inputs[n], v)
      BY <1>4, <2>1 DEF Fits, Admitted
    <3>1. /\ ~(Inputs[n].type = "" /\ Structured(v))
          /\ ~(/\ Inputs[n].type = "duration" \/ Inputs[n].items = "duration"
               /\ n \notin DOMAIN supplied
               /\ \E d \in Inputs[n].default : IsExprString(d) /\ Content(d).op = "read")
      BY <1>2, <1>4, <2>1 DEF TakenOver, given
    <3> QED BY <1>2, <1>5, <1>14, <3>1, ResolvedFits
  <2>3. \A m \in Names \cap DOMAIN out' : Fits(m)'
    BY <1>12, <2>1, <2>2
  <2>4. ASSUME NEW m \in Names \ (Range(todo') \cup DOMAIN out' \cup ierrs')
        PROVE  ~Inputs[m].required /\ (m \in DOMAIN supplied => supplied[m] = Null)
    <3>1. m \in Names \ (Range(todo) \cup DOMAIN out \cup ierrs)
      BY <1>5, <1>14, <2>1, <2>4
    <3> QED BY <1>2, <3>1 DEF IInv, ValuesSound
  <2>5. \A m \in Names \cap DOMAIN out' : ~GivenAsNull(m)'
    <3>1. ~GivenAsNull(n)
      BY <1>3, <1>14 DEF Raw, GivenAsNull
    <3>2. \A m \in Names \cap DOMAIN out : ~GivenAsNull(m)
      BY <1>2 DEF IInv, ValuesSound
    <3> QED BY <1>2, <2>1, <3>1, <3>2 DEF GivenAsNull, given
  <2>6. ValuesSound'
    BY <1>2, <1>4, <2>3, <2>4, <2>5 DEF ValuesSound, given
  <2> QED BY <2>6, <1>2, <1>5, <1>6, <1>7, <1>11 DEF IInv, Walking, RejectedForCause, BlankOnlyByCaller
<1> QED BY <1>3, <1>13, <1>14

LEMMA ConcludeKeeps == IInv /\ Conclude => IInv'
<1> SUFFICES ASSUME IInv, Conclude PROVE IInv'
  OBVIOUS
<1>1. /\ phase = "resolve" /\ todo = <<>>
      /\ UNCHANGED <<given, roots, stack, seen, circle, todo, ierrs, path>>
  BY DEF Conclude, walk
<1>2. /\ Names' = Names /\ Calls' = Calls /\ Inputs' = Inputs /\ Valid' = Valid
      /\ \A m : DepsOf(m)' = DepsOf(m)
  BY <1>1, GivenStays
<1>3. phase' \in {"failed", "resolved"}
  BY DEF Conclude
<1>4. TypeSound'
  BY <1>1, <1>2, <1>3 DEF IInv, TypeSound, Phases, given
<1>5. path = <<>>
  BY <1>1 DEF IInv, PhaseSound
<1>6. PhaseSound'
  <2>1. Acyclic(Names)'
    BY <1>1, AcyclicStays DEF IInv, PhaseSound
  <2> QED BY <1>1, <1>2, <1>3, <1>5, <2>1 DEF IInv, PhaseSound, given
<1>7. OrderSound'
  BY <1>1, <1>2, <1>3 DEF IInv, OrderSound
<1>8. ErrorsAreTheCallers'
  BY <1>1, FaultStays DEF IInv, ErrorsAreTheCallers, AtFault
<1>9. RejectedForCause' /\ BlankOnlyByCaller' /\ ~Walking'
  BY <1>1, <1>3, <1>5 DEF RejectedForCause, BlankOnlyByCaller, Walking
<1>10. ValuesSound'
  <2>1. CASE phase' = "failed"
    BY <2>1 DEF ValuesSound
  <2>2. CASE phase' # "failed"
    <3>1. /\ ierrs = {} /\ phase' = "resolved"
          /\ out' = [n \in DOMAIN out \cup DOMAIN supplied |->
                       IF n \in DOMAIN out THEN out[n] ELSE supplied[n]]
      BY <2>2 DEF Conclude
    <3>2. Range(todo) = {}
      BY <1>1 DEF Range
    <3>3. ASSUME NEW m \in Names, m \in DOMAIN out'
          PROVE  Fits(m)'
      <4>1. CASE m \in DOMAIN out
        <5>1. Fits(m) /\ out'[m] = out[m]
          BY <1>1, <3>1, <4>1 DEF IInv, ValuesSound
        <5> QED BY <1>1, <1>2, <5>1 DEF Fits, TakenOver, GivenAsNull, given
      <4>2. CASE m \notin DOMAIN out
        <5>1. m \in DOMAIN supplied /\ out'[m] = supplied[m]
          BY <3>1, <3>3, <4>2
        <5>2. supplied[m] = Null
          BY <1>1, <3>1, <3>2, <4>2, <5>1 DEF IInv, ValuesSound
        <5> QED BY <1>1, <5>1, <5>2 DEF Fits, GivenAsNull, given
      <4> QED BY <4>1, <4>2
    <3>4. ASSUME NEW m \in Names, Inputs[m].required
          PROVE  m \in DOMAIN out' /\ ~GivenAsNull(m)'
      <4>1. m \in DOMAIN out
        BY <1>1, <3>1, <3>2, <3>4 DEF IInv, ValuesSound
      <4>2. ~GivenAsNull(m)
        BY <1>1, <3>4, <4>1 DEF IInv, ValuesSound
      <4> QED BY <1>1, <3>1, <4>1, <4>2 DEF GivenAsNull, given
    <3> QED BY <1>2, <3>1, <3>3, <3>4 DEF ValuesSound
  <2> QED BY <2>1, <2>2
<1> QED BY <1>4, <1>6, <1>7, <1>8, <1>9, <1>10 DEF IInv

LEMMA EnterKeeps ==
  ASSUME IInv, NEW depth \in DOMAIN Includes, NEW i \in Includes[depth], Enter(i)
  PROVE  IInv'
<1>1. /\ phase = "resolved" /\ path' = Append(path, i)
      /\ scope' = [n \in DOMAIN i.inputs |-> ChildInput(i, n)]
      /\ UNCHANGED <<given, phase, roots, stack, seen, circle, todo, out, ierrs>>
  BY DEF Enter, walk
<1>2. /\ Names' = Names /\ Calls' = Calls /\ Inputs' = Inputs /\ Valid' = Valid
      /\ \A m : DepsOf(m)' = DepsOf(m)
  BY <1>1, GivenStays
<1>3. path \in Seq(Fragments) /\ i \in Fragments
  BY DEF IInv, TypeSound, Fragments
<1>4. path' \in Seq(Fragments) /\ path'[Len(path')] = i
  BY <1>1, <1>3, AppendProperties
<1>5. TypeSound'
  BY <1>1, <1>2, <1>4 DEF IInv, TypeSound, Phases, given
<1>6. PhaseSound'
  <2>1. Acyclic(Names)'
    BY <1>1, AcyclicStays DEF IInv, PhaseSound
  <2> QED BY <1>1, <1>2, <2>1 DEF IInv, PhaseSound, given
<1>7. OrderSound'
  BY <1>1, <1>2 DEF IInv, OrderSound
<1>8. ErrorsAreTheCallers'
  BY <1>1, FaultStays DEF IInv, ErrorsAreTheCallers, AtFault
<1>9. RejectedForCause' /\ ~Walking'
  BY <1>1 DEF RejectedForCause, Walking
<1>10. ValuesSound'
  <2>1. ASSUME NEW m \in Names \cap DOMAIN out PROVE Fits(m)'
    <3>1. Fits(m)
      BY <1>1 DEF IInv, ValuesSound
    <3> QED BY <1>1, <1>2, <3>1 DEF Fits, TakenOver, GivenAsNull, given
  <2> QED BY <1>1, <1>2, <2>1 DEF IInv, ValuesSound, GivenAsNull, given
<1>11. BlankOnlyByCaller'
  <2>1. ASSUME NEW n \in DOMAIN i.inputs, scope'[n] \in {Null, Str("")}, n \notin DOMAIN i.with
        PROVE  DefaultOf(i.inputs[n]) \in {Null, Str("")} \/ IsExprString(DefaultOf(i.inputs[n]))
    <3>1. ChildInput(i, n) \in {Null, Str("")}
      BY <1>1, <2>1
    <3>2. ChildInput(i, n) = ChildDefault(i.inputs[n])
      BY <2>1, <3>1 DEF ChildInput, IsEmptyValue
    <3> QED BY <3>1, <3>2 DEF ChildDefault
  <2> QED BY <1>4, <2>1 DEF BlankOnlyByCaller
<1> QED BY <1>5, <1>6, <1>7, <1>8, <1>9, <1>10, <1>11 DEF IInv

-----------------------------------------------------------------------------
(* The invariant.                                                          *)

LEMMA InitEstablishes == Init => IInv
<1> SUFFICES ASSUME Init PROVE IInv
  OBVIOUS
<1>1. /\ workflow \in Workflows /\ supplied \in Supplied /\ phase = "validate"
      /\ roots = {} /\ stack = <<>> /\ seen = {} /\ todo = <<>>
      /\ out = NoValues /\ ierrs = {} /\ path = <<>>
  BY DEF Init, WalkInit
<1>2. TypeSound
  BY <1>1 DEF TypeSound, Phases
<1>3. PhaseSound
  BY <1>1 DEF PhaseSound
<1>4. OrderSound
  BY <1>1 DEF OrderSound
<1>5. ValuesSound /\ ~Walking /\ ErrorsAreTheCallers /\ RejectedForCause /\ BlankOnlyByCaller
  BY <1>1 DEF ValuesSound, Walking, ErrorsAreTheCallers, RejectedForCause, BlankOnlyByCaller
<1> QED BY <1>2, <1>3, <1>4, <1>5 DEF IInv

(* Validation or a preset that does not exist ends the resolution.         *)
LEMMA StopKeeps ==
  ASSUME IInv, Beside, UNCHANGED <<walk, todo>>,
         \/ phase = "validate" /\ phase' = "rejected" /\ ~Valid
         \/ phase = "preset" /\ phase' = "failed"
  PROVE  IInv'
<1>1. /\ Names' = Names /\ Calls' = Calls /\ Inputs' = Inputs /\ Valid' = Valid
      /\ \A m : DepsOf(m)' = DepsOf(m)
  BY GivenStays DEF Beside
<1>2. TypeSound'
  BY <1>1, BesideKeeps DEF IInv, TypeSound, Phases, walk
<1>3. PhaseSound'
  <2>1. phase' = "failed" => Acyclic(Names)'
    BY AcyclicStays DEF IInv, PhaseSound, Beside
  <2> QED BY <1>1, <2>1 DEF IInv, PhaseSound, Beside, resolution
<1>4. OrderSound'
  BY <1>1 DEF IInv, OrderSound, walk
<1>5. ValuesSound' /\ ~Walking' /\ RejectedForCause'
  BY <1>1 DEF ValuesSound, Walking, RejectedForCause
<1> QED BY <1>2, <1>3, <1>4, <1>5, BesideKeeps DEF IInv

LEMMA ValidateKeeps == IInv /\ Validate => IInv'
<1> SUFFICES ASSUME IInv, Validate PROVE IInv'
  OBVIOUS
<1>1. phase = "validate" /\ todo = <<>> /\ Beside
  BY DEF Validate, IInv, PhaseSound, Beside
<1>2. CASE Valid /\ StartWalk(Inputs, "search")
  BY <1>1, <1>2, StartKeeps
<1>3. CASE ~Valid /\ phase' = "rejected" /\ UNCHANGED <<walk, todo>>
  BY <1>1, <1>3, StopKeeps
<1> QED BY <1>2, <1>3 DEF Validate

LEMMA ApplyPresetKeeps == IInv /\ ApplyPreset => IInv'
<1> SUFFICES ASSUME IInv, ApplyPreset PROVE IInv'
  OBVIOUS
<1>1. phase = "preset" /\ todo = <<>> /\ Valid /\ Beside
  BY DEF ApplyPreset, IInv, PhaseSound, Beside
<1>2. CASE preset \subseteq DOMAIN workflow.presets /\ StartWalk(Inputs, "order")
  BY <1>1, <1>2, StartKeeps
<1>3. CASE phase' = "failed" /\ UNCHANGED <<walk, todo>>
  BY <1>1, <1>3, StopKeeps
<1> QED BY <1>2, <1>3 DEF ApplyPreset

LEMMA StutterKeeps == IInv /\ UNCHANGED vars => IInv'
<1> SUFFICES ASSUME IInv, UNCHANGED vars PROVE IInv'
  OBVIOUS
<1>1. /\ UNCHANGED <<given, phase, roots, stack, seen, circle, todo, out, ierrs, scope, path>>
  BY DEF vars, walk, resolution
<1>2. /\ Names' = Names /\ Calls' = Calls /\ Inputs' = Inputs /\ Valid' = Valid
      /\ \A m : DepsOf(m)' = DepsOf(m)
  BY <1>1, GivenStays
<1>3. TypeSound'
  BY <1>1, <1>2 DEF IInv, TypeSound, given
<1>4. Beside
  BY <1>1 DEF Beside, resolution
<1>5. Acyclic(Names) => Acyclic(Names)'
  BY <1>1, AcyclicStays
<1>6. Acyclic(seen) => Acyclic(seen)'
  BY <1>1, AcyclicStays
<1>7. PhaseSound'
  BY <1>1, <1>2, <1>5 DEF IInv, PhaseSound, given
<1>8. Walking => StackSound' /\ SeenSound'
  <2>1. Walking => StackSound'
    BY <1>1, <1>2 DEF IInv, StackSound
  <2>2. OnPath' = OnPath
    BY <1>1 DEF OnPath
  <2>3. Walking => SeenSound'
    BY <1>1, <1>2, <1>6, <2>2 DEF IInv, SeenSound
  <2> QED BY <2>1, <2>3
<1>9. OrderSound'
  BY <1>1, <1>2 DEF IInv, OrderSound
<1>10. ValuesSound'
  <2>1. \A m : Fits(m)' = Fits(m)
    BY <1>1, <1>2 DEF Fits, TakenOver, GivenAsNull, given
  <2> QED BY <1>1, <1>2, <2>1 DEF IInv, ValuesSound, GivenAsNull, given
<1>11. RejectedForCause'
  BY <1>1, GivenStays DEF IInv, RejectedForCause
<1>12. Walking' = Walking
  BY <1>1 DEF Walking
<1> QED BY <1>3, <1>4, <1>7, <1>8, <1>9, <1>10, <1>11, <1>12, BesideKeeps DEF IInv

LEMMA StepsKeep == IInv /\ [Next]_vars => IInv'
<1> SUFFICES ASSUME IInv, [Next]_vars PROVE IInv'
  OBVIOUS
<1>1. CASE Validate BY <1>1, ValidateKeeps
<1>2. CASE ApplyPreset BY <1>2, ApplyPresetKeeps
<1>3. CASE ResolveNext BY <1>3, ResolveNextKeeps
<1>4. CASE Conclude BY <1>4, ConcludeKeeps
<1>5. CASE Walk(Inputs) /\ UNCHANGED <<given, resolution>>
  <2>1. Beside
    BY <1>5 DEF Beside
  <2> QED BY <1>5, <2>1, NextRootKeeps, FollowKeeps, LeaveKeeps, EndWalkKeeps DEF Walk
<1>6. ASSUME NEW depth \in DOMAIN Includes, NEW i \in Includes[depth], Enter(i) PROVE IInv'
  BY <1>6, EnterKeeps
<1>7. CASE UNCHANGED vars BY <1>7, StutterKeeps
<1> QED BY <1>1, <1>2, <1>3, <1>4, <1>5, <1>6, <1>7 DEF Next

(* The inductive invariant holds from the declarations to the innermost    *)
(* fragment.                                                               *)
THEOREM Invariance == Spec => []IInv
BY InitEstablishes, StepsKeep, PTL DEF Spec

(* What a declared input resolves to is what its declaration asks for,     *)
(* wherever it came from (schema/inputs.go:107-300,                        *)
(* engine/inputs.go:117-146).                                              *)
THEOREM Admissibly == Spec => []AdmissibleAsDeclared
<1>1. IInv => AdmissibleAsDeclared
  BY DEF IInv, ValuesSound, Fits, AdmissibleAsDeclared, Names
<1> QED BY <1>1, Invariance, PTL

(* A literal default or the value of a preset is never at fault when the   *)
(* inputs are resolved (schema/inputs.go:604-609, 678-712).                *)
THEOREM CallersErrors == Spec => []ErrorsAreTheCallers
<1>1. IInv => ErrorsAreTheCallers
  BY DEF IInv
<1> QED BY <1>1, Invariance, PTL

LEMMA SettledFirst == IInv => DefaultsReadSettled
<1> SUFFICES ASSUME IInv PROVE DefaultsReadSettled
  OBVIOUS
<1>1. ASSUME phase \in {"resolve", "resolved"}, NEW n \in Names \ Range(todo)
      PROVE  Mentioned(n) \cap Range(todo) = {}
  <2>1. DepsOf(n) \cap Range(todo) = {}
    BY <1>1 DEF IInv, OrderSound
  <2>2. Range(todo) \subseteq Names
    BY LenProperties DEF IInv, TypeSound, Range
  <2> QED BY <1>1, <2>1, <2>2, MentionsAreDeps
<1>2. ASSUME phase \notin {"validate", "search", "rejected"},
             NEW S \in SUBSET Names, S # {}
      PROVE  \E n \in S : Mentioned(n) \cap (S \ {n}) = {}
  <2>1. PICK n \in S : DepsOf(n) \cap S = {}
    BY <1>2 DEF IInv, PhaseSound, Acyclic
  <2>2. Mentioned(n) \cap (S \ {n}) = {}
    BY <2>1, MentionsAreDeps
  <2> QED BY <2>2
<1> QED BY <1>1, <1>2 DEF DefaultsReadSettled, Names

(* A default is evaluated when all that it mentions is settled, and where  *)
(* no order does that the search has found a circle                        *)
(* (schema/inputs.go:716-812, engine/inputs.go:71).                        *)
THEOREM ReadSettled == Spec => []DefaultsReadSettled
BY SettledFirst, Invariance, PTL

(* A circle a workflow is rejected for is one, whatever order the map of   *)
(* dependencies is gone through in (schema/inputs.go:741-756).             *)
THEOREM RejectedRightly == Spec => []RejectedForCause
<1>1. IInv => RejectedForCause
  BY DEF IInv
<1> QED BY <1>1, Invariance, PTL

(* An input with a default is blank in a fragment only if a with: says so  *)
(* (compile.go:336-379, engine.go:950-1012).                               *)
THEOREM BlankRightly == Spec => []BlankOnlyByCaller
<1>1. IInv => BlankOnlyByCaller
  BY DEF IInv
<1> QED BY <1>1, Invariance, PTL
-----------------------------------------------------------------------------
(* A rendered input, read again.                                           *)

(* A value is a pair, and strconv and time read it back from the text that *)
(* fmt makes of it.                                                        *)
TextReadsBack(v) ==
  /\ v = <<Kind(v), Content(v)>>
  /\ Kind(v) = "int" => IntOf(TextOf(v)) = {Content(v)}
  /\ Kind(v) = "float" => FloatOf(TextOf(v)) = {Content(v)}
  /\ Kind(v) = "bool" => \/ Content(v) = TRUE /\ TextOf(v) = "true"
                         \/ Content(v) = FALSE /\ TextOf(v) = "false"
  /\ Kind(v) = "duration" => DurationOf(TextOf(v)) = {Content(v)}

(* JSON knows one kind of number.                                          *)
FromJson(v) == IF Kind(v) = "int" THEN Float(2 * Content(v)) ELSE v

Whole(v) == Kind(v) = "int" => Content(v) \in Int

(* json.Unmarshal reads a list back from the text json.Marshal makes of it.*)
ListReadsBack(v) ==
  /\ \A i \in DOMAIN Content(v) : Whole(Content(v)[i])
  /\ Opens(JsonTextOf(v))
  /\ JsonOf(JsonTextOf(v)) = {List([i \in DOMAIN Content(v) |-> FromJson(Content(v)[i])])}

(* What the rendering of v takes of Go's libraries, and of them alone.     *)
ReadsBack(in, v) ==
  CASE in.type = "json" ->
         \E w \in JsonOf(EnvString(v)) : Kind(w) = Kind(v) /\ EnvString(w) = EnvString(v)
    [] in.type = "list" -> ListReadsBack(v)
    [] OTHER -> TextReadsBack(v)

(* u holds what w holds, for a conversion to the kind of w.                *)
Holds(u, w) ==
  /\ Kind(w) = "text" => u = w
  /\ Kind(w) = "int" => ToInt(u) = {Content(w)}
  /\ Kind(w) = "float" => ToFloat(u) = {Content(w)}
  /\ Kind(w) = "bool" => ToBool(u) = {Content(w)}
  /\ Kind(w) = "duration" => Kind(u) = "text" /\ DurationOf(Content(u)) = {Content(w)}

LEMMA StringifyFacts ==
  ASSUME NEW v
  PROVE  /\ Kind(v) = "text" => Stringify(v) = Content(v)
         /\ Kind(v) \in {"int", "float", "bool", "duration"} => Stringify(v) = TextOf(v)
<1>1. CASE Kind(v) = "text"
  BY <1>1, Zenon DEF Stringify
<1>2. CASE Kind(v) = "int"
  BY <1>2, Zenon DEF Stringify
<1>3. CASE Kind(v) = "float"
  BY <1>3, Zenon DEF Stringify
<1>4. CASE Kind(v) = "bool"
  BY <1>4, Zenon DEF Stringify
<1>5. CASE Kind(v) = "duration"
  BY <1>5, Zenon DEF Stringify
<1> QED BY <1>1, <1>2, <1>3, <1>4, <1>5

LEMMA ReaderFacts ==
  ASSUME NEW v
  PROVE  /\ Kind(v) = "text" => ToInt(v) = IntOf(Content(v)) /\ ToFloat(v) = FloatOf(Content(v))
         /\ Kind(v) = "text" /\ Content(v) = "true" => ToBool(v) = {TRUE}
         /\ Kind(v) = "text" /\ Content(v) = "false" => ToBool(v) = {FALSE}
         /\ Kind(v) = "float" =>
              /\ Content(v) # NaN => ToInt(v) = {i \in {Content(v) \div 2} : 2 * i = Content(v)}
              /\ ToFloat(v) = {Content(v)}
         /\ Kind(v) = "bool" => ToBool(v) = {Content(v)}
<1>1. CASE Kind(v) = "text"
  <2>1. ToInt(v) = IntOf(Content(v)) /\ ToFloat(v) = FloatOf(Content(v))
    BY <1>1, Zenon DEF ToInt, ToFloat
  <2>2. Content(v) = "true" => ToBool(v) = {TRUE}
    BY <1>1, Zenon DEF ToBool
  <2>3. Content(v) = "false" => ToBool(v) = {FALSE}
    BY <1>1, Zenon DEF ToBool
  <2> QED BY <1>1, <2>1, <2>2, <2>3
<1>2. CASE Kind(v) = "float"
  <2>1. Content(v) # NaN => ToInt(v) = {i \in {Content(v) \div 2} : 2 * i = Content(v)}
    BY <1>2, Zenon DEF ToInt
  <2>2. ToFloat(v) = {Content(v)}
    BY <1>2, Zenon DEF ToFloat
  <2> QED BY <1>2, <2>1, <2>2
<1>3. CASE Kind(v) = "bool"
  <2>1. ToBool(v) = {Content(v)}
    BY <1>3, Zenon DEF ToBool
  <2> QED BY <1>3, <2>1
<1> QED BY <1>1, <1>2, <1>3

LEMMA TextHolds ==
  ASSUME NEW w, TextReadsBack(w), Kind(w) \in {"text", "int", "float", "bool", "duration"},
         NEW u, u = Str(EnvString(w))
  PROVE  Holds(u, w)
<1>1. Kind(u) = "text" /\ Content(u) = Stringify(w)
  BY DEF EnvString, Structured, Str, Kind, Content
<1>2. CASE Kind(w) = "text"
  <2>1. u = w
    BY <1>1, <1>2, StringifyFacts DEF EnvString, Structured, TextReadsBack, Str
  <2> QED BY <1>2, <2>1 DEF Holds
<1>3. CASE Kind(w) # "text"
  <2>1. Content(u) = TextOf(w)
    BY <1>1, <1>3, StringifyFacts
  <2>2. Kind(w) = "int" => ToInt(u) = {Content(w)}
    BY <1>1, <2>1, ReaderFacts DEF TextReadsBack
  <2>3. Kind(w) = "float" => ToFloat(u) = {Content(w)}
    BY <1>1, <2>1, ReaderFacts DEF TextReadsBack
  <2>4. ASSUME Kind(w) = "bool" PROVE ToBool(u) = {Content(w)}
    <3>1. \/ Content(w) = TRUE /\ TextOf(w) = "true"
          \/ Content(w) = FALSE /\ TextOf(w) = "false"
      BY <2>4 DEF TextReadsBack
    <3>2. CASE Content(w) = TRUE /\ TextOf(w) = "true"
      BY <1>1, <2>1, <3>2, ReaderFacts
    <3>3. CASE Content(w) = FALSE /\ TextOf(w) = "false"
      BY <1>1, <2>1, <3>3, ReaderFacts
    <3> QED BY <3>1, <3>2, <3>3
  <2>5. Kind(w) = "duration" => DurationOf(Content(u)) = {Content(w)}
    BY <1>1, <2>1 DEF TextReadsBack
  <2> QED BY <1>1, <1>3, <2>2, <2>3, <2>4, <2>5 DEF Holds
<1> QED BY <1>2, <1>3

LEMMA JsonHolds ==
  ASSUME NEW w, Whole(w), Kind(w) \in {"text", "int", "float", "bool"}
  PROVE  Holds(FromJson(w), w)
<1>1. CASE Kind(w) = "int"
  <2>1. PICK i, u : i = Content(w) /\ u = FromJson(w)
    OBVIOUS
  <2> i \in Int /\ Kind(u) = "float" /\ Content(u) = 2 * i
    BY <1>1, <2>1 DEF Whole, FromJson, Float, Kind, Content
  <2>5. 2 * i # NaN
    BY NaNAssumption
  <2>2. ToInt(u) = {j \in {(2 * i) \div 2} : 2 * j = 2 * i}
    BY <2>5, ReaderFacts
  <2>3. (2 * i) \div 2 = i
    OBVIOUS
  <2>4. ToInt(u) = {i}
    BY <2>2, <2>3
  <2> QED BY <1>1, <2>1, <2>4 DEF Holds
<1>2. CASE Kind(w) # "int"
  BY <1>2, ReaderFacts DEF FromJson, Holds
<1> QED BY <1>1, <1>2

LEMMA ScalarFacts ==
  ASSUME NEW in, NEW v
  PROVE  /\ EffectiveType(in) = "string" => CoerceScalar(in, v) = CoerceString(in, v)
         /\ in.type = "int" => CoerceScalar(in, v) = CoerceInt(in, v)
         /\ in.type = "number" => CoerceScalar(in, v) = CoerceNumber(in, v)
         /\ in.type = "bool" => CoerceScalar(in, v) = {Bool(b) : b \in ToBool(v)}
         /\ in.type = "enum" => CoerceScalar(in, v) = CheckChoice(in, Stringify(v))
         /\ in.type = "duration" => CoerceScalar(in, v) = CoerceDuration(in, v)
         /\ in.type = "path" => CoerceScalar(in, v) = {Str(Stringify(v))}
<1>1. in.type # "" => EffectiveType(in) = in.type
  BY Zenon DEF EffectiveType
<1>2. EffectiveType(in) = "string" => CoerceScalar(in, v) = CoerceString(in, v)
  BY <1>1, Zenon DEF CoerceScalar
<1>3. in.type = "int" => CoerceScalar(in, v) = CoerceInt(in, v)
  BY <1>1, Zenon DEF CoerceScalar
<1>4. in.type = "number" => CoerceScalar(in, v) = CoerceNumber(in, v)
  BY <1>1, Zenon DEF CoerceScalar
<1>5. in.type = "bool" => CoerceScalar(in, v) = {Bool(b) : b \in ToBool(v)}
  BY <1>1, Zenon DEF CoerceScalar
<1>6. in.type = "enum" => CoerceScalar(in, v) = CheckChoice(in, Stringify(v))
  BY <1>1, Zenon DEF CoerceScalar
<1>7. in.type = "duration" => CoerceScalar(in, v) = CoerceDuration(in, v)
  BY <1>1, Zenon DEF CoerceScalar
<1>8. in.type = "path" => CoerceScalar(in, v) = {Str(Stringify(v))}
  BY <1>1, Zenon DEF CoerceScalar
<1> QED BY <1>2, <1>3, <1>4, <1>5, <1>6, <1>7, <1>8

LEMMA ScalarKinds ==
  ASSUME NEW in, NEW v, NEW w \in CoerceScalar(in, v)
  PROVE  /\ EffectiveType(in) = "string" \/ in.type \in {"enum", "path"} => Kind(w) = "text" /\ w = Str(Content(w))
         /\ in.type = "int" => Kind(w) = "int"
         /\ in.type = "number" => Kind(w) = "float"
         /\ in.type = "bool" => Kind(w) = "bool"
         /\ in.type = "duration" => Kind(w) = "duration"
<1>1. ASSUME NEW s, w = Str(s) PROVE Kind(w) = "text" /\ w = Str(Content(w))
  BY <1>1 DEF Str, Kind, Content
<1>2. EffectiveType(in) = "string" => \E s : w = Str(s)
  BY ScalarFacts DEF CoerceString, CheckChoice, Error
<1>3. in.type \in {"enum", "path"} => \E s : w = Str(s)
  BY ScalarFacts DEF CheckChoice
<1>4. in.type = "int" => Kind(w) = "int"
  <2>1. in.type = "int" => \E i : w = Integer(i)
    BY ScalarFacts DEF CoerceInt
  <2> QED BY <2>1 DEF Integer, Kind
<1>5. in.type = "number" => Kind(w) = "float"
  BY ScalarFacts DEF CoerceNumber, Float, Kind
<1>6. in.type = "bool" => Kind(w) = "bool"
  BY ScalarFacts DEF Bool, Kind
<1>7. in.type = "duration" => Kind(w) = "duration"
  BY ScalarFacts DEF CoerceDuration, Duration, Kind
<1> QED BY <1>1, <1>2, <1>3, <1>4, <1>5, <1>6, <1>7

(* A converted scalar is converted again to itself: the constraints hold   *)
(* of it, and the choice it was is still one.                              *)
LEMMA ScalarAgain ==
  ASSUME NEW in, NEW v, NEW w \in CoerceScalar(in, v), NEW u, Holds(u, w),
         EffectiveType(in) \in KnownTypes \ {"json", "list"},
         in.type = "duration" => Within(Content(w), in.min, in.max) /\ w = <<Kind(w), Content(w)>>
  PROVE  /\ CoerceScalar(in, u) = {w}
         /\ Kind(w) \in {"text", "int", "float", "bool", "duration"}
<1>1. CASE EffectiveType(in) = "string"
  <2>1. w \in CoerceString(in, v)
    BY <1>1, ScalarFacts
  <2>2. PICK s : w = Str(s) /\ s = Stringify(v)
    BY <2>1 DEF CoerceString, CheckChoice, Error
  <2>3. Kind(w) = "text" /\ u = w /\ Stringify(u) = s
    BY <2>2, StringifyFacts DEF Holds, Str, Kind, Content
  <2>4. CoerceString(in, u) = {w}
    BY <2>1, <2>2, <2>3 DEF CoerceString, CheckChoice, Error
  <2> QED BY <1>1, <2>3, <2>4, ScalarFacts
<1>2. CASE in.type = "enum"
  <2>1. w \in CheckChoice(in, Stringify(v))
    BY <1>2, ScalarFacts
  <2>2. PICK s \in AllowedValues(in) : w = Str(s)
    BY <2>1 DEF CheckChoice
  <2>3. Kind(w) = "text" /\ u = w /\ Stringify(u) = s
    BY <2>2, StringifyFacts DEF Holds, Str, Kind, Content
  <2>4. CheckChoice(in, Stringify(u)) = {w}
    BY <2>2, <2>3 DEF CheckChoice
  <2> QED BY <1>2, <2>3, <2>4, ScalarFacts
<1>3. CASE in.type = "path"
  <2>1. w = Str(Stringify(v))
    BY <1>3, ScalarFacts
  <2>2. Kind(w) = "text" /\ u = w /\ Str(Stringify(u)) = w
    BY <2>1, StringifyFacts DEF Holds, Str, Kind, Content
  <2> QED BY <1>3, <2>2, ScalarFacts
<1>4. CASE in.type = "int"
  <2>1. PICK i : /\ w = Integer(i)
                 /\ AllowedValues(in) # {} => TextOf(Integer(i)) \in AllowedValues(in)
                 /\ Within(2 * i, in.min, in.max)
    BY <1>4, ScalarFacts DEF CoerceInt
  <2>2. Kind(w) = "int" /\ ToInt(u) = {i}
    BY <2>1 DEF Holds, Integer, Kind, Content
  <2>3. CoerceInt(in, u) = {w}
    BY <2>1, <2>2 DEF CoerceInt
  <2> QED BY <1>4, <2>2, <2>3, ScalarFacts
<1>5. CASE in.type = "number"
  <2>1. PICK h : w = Float(h) /\ Within(h, in.min, in.max)
    BY <1>5, ScalarFacts DEF CoerceNumber
  <2>2. Kind(w) = "float" /\ ToFloat(u) = {h}
    BY <2>1 DEF Holds, Float, Kind, Content
  <2>3. CoerceNumber(in, u) = {w}
    BY <2>1, <2>2 DEF CoerceNumber
  <2> QED BY <1>5, <2>2, <2>3, ScalarFacts
<1>6. CASE in.type = "bool"
  <2>1. PICK b : w = Bool(b)
    BY <1>6, ScalarFacts
  <2>2. Kind(w) = "bool" /\ ToBool(u) = {b}
    BY <2>1 DEF Holds, Bool, Kind, Content
  <2> QED BY <1>6, <2>1, <2>2, ScalarFacts
<1>7. CASE in.type = "duration"
  <2>1. w \in CoerceDuration(in, v)
    BY <1>7, ScalarFacts
  <2>2. Kind(w) = "duration" /\ w = Duration(Content(w))
    BY <1>7, <2>1 DEF CoerceDuration, Duration, Kind, Content
  <2>3. Kind(u) = "text" /\ DurationOf(Content(u)) = {Content(w)}
    BY <2>2 DEF Holds
  <2>4. CoerceDuration(in, u) = {Duration(d) : d \in {d \in {Content(w)} : Within(d, in.min, in.max)}}
    BY <2>3, StringifyFacts DEF CoerceDuration
  <2>5. CoerceDuration(in, u) = {w}
    BY <1>7, <2>2, <2>4
  <2> QED BY <1>7, <2>2, <2>5, ScalarFacts
<1>8. EffectiveType(in) = "string" \/ EffectiveType(in) = in.type
  BY Zenon DEF EffectiveType
<1> QED BY <1>1, <1>2, <1>3, <1>4, <1>5, <1>6, <1>7, <1>8 DEF KnownTypes
LEMMA AllOfFacts ==
  ASSUME NEW s, NEW w \in AllOf(s)
  PROVE  /\ \A i \in DOMAIN s : s[i] # Error
         /\ w = List([i \in DOMAIN s |-> CHOOSE e \in s[i] : TRUE])
         /\ Kind(w) = "list" /\ w = List(Content(w))
         /\ DOMAIN Content(w) = DOMAIN s
         /\ \A i \in DOMAIN s : Content(w)[i] \in s[i]
<1>1. \A i \in DOMAIN s : s[i] # Error
  BY DEF AllOf, Error
<1>2. w = List([i \in DOMAIN s |-> CHOOSE e \in s[i] : TRUE])
  BY <1>1 DEF AllOf
<1>3. Kind(w) = "list" /\ Content(w) = [i \in DOMAIN s |-> CHOOSE e \in s[i] : TRUE]
  BY <1>2 DEF List, Kind, Content
<1>4. \A i \in DOMAIN s : Content(w)[i] \in s[i]
  BY <1>1, <1>3 DEF Error
<1> QED BY <1>1, <1>2, <1>3, <1>4

(* What is converted to one value each is converted to one list.           *)
LEMMA AllOfSingles ==
  ASSUME NEW S, NEW s, NEW c, s = [i \in S |-> {c[i]}], c = [i \in S |-> c[i]]
  PROVE  AllOf(s) = {List(c)}
<1>1. DOMAIN s = S /\ \A i \in S : s[i] = {c[i]}
  OBVIOUS
<1>2. \A i \in S : (CHOOSE e \in s[i] : TRUE) = c[i]
  BY <1>1
<1>3. [i \in S |-> CHOOSE e \in s[i] : TRUE] = [i \in S |-> c[i]]
  BY <1>2
<1> QED BY <1>1, <1>3 DEF AllOf, Error

LEMMA ElementTypes ==
  ASSUME NEW in
  PROVE  /\ EffectiveType(ElementInput(in)) = ElementInput(in).type
         /\ in.items \in KnownTypes => ElementInput(in).type = in.items
         /\ EffectiveType(ElementInput(ElementInput(in))) = "string"
         /\ ElementInput(ElementInput(in)).type = "string"
<1>1. /\ ElementInput(in).items = "" /\ ElementInput(ElementInput(in)).type = "string"
      /\ ElementInput(in).type = IF in.items = "" THEN "string" ELSE in.items
  BY Zenon DEF ElementInput, Input
<1> QED BY <1>1, Zenon DEF EffectiveType, KnownTypes

(* A list in a list is one of strings, and stays as it is.                 *)
LEMMA InnerListAgain ==
  ASSUME NEW in, NEW v, NEW w \in CoerceElement(in, v), in.type = "list",
         EffectiveType(ElementInput(in)) = "string", ElementInput(in).type = "string"
  PROVE  CoerceElement(in, w) = {w} /\ Kind(w) = "list"
<1>1. PICK ein : ein = ElementInput(in)
  OBVIOUS
<1>2. PICK s \in Elements(v) : w \in AllOf([i \in DOMAIN s |-> CoerceScalar(ein, s[i])])
  BY <1>1 DEF CoerceElement
<1>3. PICK ws : ws = [i \in DOMAIN s |-> CoerceScalar(ein, s[i])]
  OBVIOUS
<1>4. PICK c : c = Content(w)
  OBVIOUS
<1>5. w \in AllOf(ws) /\ DOMAIN ws = DOMAIN s
  BY <1>2, <1>3
<1>6. /\ Kind(w) = "list" /\ w = List(c) /\ DOMAIN c = DOMAIN s
      /\ \A i \in DOMAIN s : c[i] \in ws[i]
  BY <1>4, <1>5, AllOfFacts
<1>7. c = [i \in DOMAIN s |-> c[i]]
  <2>1. w = List([i \in DOMAIN ws |-> CHOOSE e \in ws[i] : TRUE])
    BY <1>5, AllOfFacts
  <2>2. c = [i \in DOMAIN ws |-> CHOOSE e \in ws[i] : TRUE]
    BY <1>4, <2>1 DEF List, Content
  <2> QED BY <1>5, <2>2
<1>8. \A i \in DOMAIN s : CoerceScalar(ein, c[i]) = {c[i]}
  <2>1. TAKE i \in DOMAIN s
  <2>2. c[i] \in CoerceScalar(ein, s[i])
    BY <1>3, <1>6
  <2>3. Kind(c[i]) = "text"
    BY <1>1, <2>2, ScalarKinds
  <2>4. Holds(c[i], c[i])
    BY <2>3 DEF Holds
  <2>5. EffectiveType(ein) \in KnownTypes \ {"json", "list"} /\ ein.type # "duration"
    BY <1>1 DEF KnownTypes
  <2> QED BY <2>2, <2>4, <2>5, ScalarAgain
<1>9. Elements(w) = {c}
  BY <1>4, <1>6, Zenon DEF Elements
<1>10. CoerceElement(in, w) = AllOf([i \in DOMAIN c |-> CoerceScalar(ein, c[i])])
  BY <1>1, <1>9 DEF CoerceElement
<1>11. [i \in DOMAIN c |-> CoerceScalar(ein, c[i])] = [i \in DOMAIN s |-> {c[i]}]
  BY <1>6, <1>8
<1>12. AllOf([i \in DOMAIN s |-> {c[i]}]) = {List(c)}
  BY <1>7, AllOfSingles
<1> QED BY <1>6, <1>10, <1>11, <1>12

(* So is an element of a list, read from JSON.                             *)
LEMMA ElementAgain ==
  ASSUME NEW in, in.items \in KnownTypes \ {"json", "duration"},
         NEW v, NEW w \in CoerceElement(ElementInput(in), v), Whole(w)
  PROVE  CoerceElement(ElementInput(in), FromJson(w)) = {w}
<1>1. PICK ein : ein = ElementInput(in)
  OBVIOUS
<1>2. ein.type = in.items /\ EffectiveType(ein) = in.items
  BY <1>1, ElementTypes
<1>3. CASE in.items # "list"
  <2>1. w \in CoerceScalar(ein, v)
    BY <1>1, <1>2, <1>3 DEF CoerceElement
  <2>2. Kind(w) \in {"text", "int", "float", "bool"}
    BY <1>2, <1>3, <2>1, ScalarKinds DEF KnownTypes
  <2>3. Holds(FromJson(w), w)
    BY <2>2, JsonHolds
  <2>4. CoerceScalar(ein, FromJson(w)) = {w}
    BY <1>2, <1>3, <2>1, <2>3, ScalarAgain
  <2> QED BY <1>1, <1>2, <1>3, <2>4 DEF CoerceElement
<1>4. CASE in.items = "list"
  <2>1. EffectiveType(ElementInput(ein)) = "string" /\ ElementInput(ein).type = "string"
    BY <1>1, ElementTypes
  <2>2. CoerceElement(ein, w) = {w} /\ Kind(w) = "list"
    BY <1>1, <1>2, <1>4, <2>1, InnerListAgain
  <2> QED BY <1>1, <2>2 DEF FromJson
<1> QED BY <1>3, <1>4
Again(in, v) ==
  \E u \in Coerce(in, Str(EnvString(v))) : Kind(u) = Kind(v) /\ EnvString(u) = EnvString(v)

LEMMA CoerceFacts ==
  ASSUME NEW in, NEW v
  PROVE  /\ in.type # "list" /\ ~Structured(v) => Coerce(in, v) = CoerceScalar(in, v)
         /\ in.type = "list" =>
              Coerce(in, v) = Counted(in, UNION {AllOf([i \in DOMAIN s |-> CoerceElement(ElementInput(in), s[i])]) :
                                                   s \in Elements(v)})
<1>1. in.type # "list" /\ ~Structured(v) => Coerce(in, v) = CoerceScalar(in, v)
  BY Zenon DEF Coerce
<1>2. in.type = "list" =>
        Coerce(in, v) = Counted(in, UNION {AllOf([i \in DOMAIN s |-> CoerceElement(ElementInput(in), s[i])]) :
                                             s \in Elements(v)})
  BY Zenon DEF Coerce
<1> QED BY <1>1, <1>2

(* A list is read again from the JSON it is rendered as.                   *)
LEMMA ListAgain ==
  ASSUME NEW in, in.type = "list", in.items \in KnownTypes \ {"json", "duration"},
         NEW v, NEW w \in Coerce(in, v), ListReadsBack(w)
  PROVE  Again(in, w)
<1>1. PICK ein : ein = ElementInput(in)
  OBVIOUS
<1>2. PICK s \in Elements(v) :
        /\ w \in AllOf([i \in DOMAIN s |-> CoerceElement(ein, s[i])])
        /\ Between(Len(Content(w)), in.minItems, in.maxItems)
  BY <1>1, CoerceFacts DEF Counted
<1>3. PICK ws : ws = [i \in DOMAIN s |-> CoerceElement(ein, s[i])]
  OBVIOUS
<1>4. PICK c : c = Content(w)
  OBVIOUS
<1>5. w \in AllOf(ws) /\ DOMAIN ws = DOMAIN s
  BY <1>2, <1>3
<1>6. /\ Kind(w) = "list" /\ w = List(c) /\ DOMAIN c = DOMAIN s
      /\ \A i \in DOMAIN s : c[i] \in ws[i]
  BY <1>4, <1>5, AllOfFacts
<1>7. c = [i \in DOMAIN s |-> c[i]]
  <2>1. w = List([i \in DOMAIN ws |-> CHOOSE e \in ws[i] : TRUE])
    BY <1>5, AllOfFacts
  <2>2. c = [i \in DOMAIN ws |-> CHOOSE e \in ws[i] : TRUE]
    BY <1>4, <2>1 DEF List, Content
  <2> QED BY <1>5, <2>2
<1>8. PICK j : j = [i \in DOMAIN s |-> FromJson(c[i])]
  OBVIOUS
<1>9. PICK u : u = Str(EnvString(w))
  OBVIOUS
<1>10. Elements(u) = {j}
  <2>1. Kind(u) = "text" /\ Content(u) = JsonTextOf(w)
    BY <1>6, <1>9 DEF EnvString, Structured, Str, Kind, Content
  <2>2. Opens(JsonTextOf(w)) /\ JsonOf(JsonTextOf(w)) = {List(j)}
    BY <1>4, <1>6, <1>8 DEF ListReadsBack
  <2>3. Kind(List(j)) = "list" /\ Content(List(j)) = j
    BY DEF List, Kind, Content
  <2>4. Elements(u) = {Content(k) : k \in {k \in {List(j)} : Kind(k) = "list"}}
    <3>1. Opens(Content(u)) /\ JsonOf(Content(u)) = {List(j)}
      BY <2>1, <2>2
    <3>2. Stringify(u) = Content(u) /\ Kind(u) \in {"text", "expr"} /\ Kind(u) # "list"
      BY <2>1, StringifyFacts
    <3>3. Elements(u) = {Content(k) : k \in {k \in JsonOf(Stringify(u)) : Kind(k) = "list"}}
      BY <3>1, <3>2, Zenon DEF Elements
    <3> QED BY <3>1, <3>2, <3>3
  <2> QED BY <2>3, <2>4
<1>11. \A i \in DOMAIN s : CoerceElement(ein, j[i]) = {c[i]}
  <2>1. TAKE i \in DOMAIN s
  <2>2. c[i] \in CoerceElement(ein, s[i]) /\ j[i] = FromJson(c[i])
    BY <1>3, <1>6, <1>8
  <2>3. Whole(c[i])
    BY <1>4, <1>6 DEF ListReadsBack
  <2> QED BY <1>1, <2>2, <2>3, ElementAgain
<1>12. w \in AllOf([i \in DOMAIN j |-> CoerceElement(ein, j[i])])
  <2>1. [i \in DOMAIN j |-> CoerceElement(ein, j[i])] = [i \in DOMAIN s |-> {c[i]}]
    BY <1>8, <1>11
  <2>2. AllOf([i \in DOMAIN s |-> {c[i]}]) = {List(c)}
    BY <1>7, AllOfSingles
  <2> QED BY <1>6, <2>1, <2>2
<1>13. w \in Coerce(in, u)
  <2>1. w \in UNION {AllOf([i \in DOMAIN x |-> CoerceElement(ein, x[i])]) : x \in Elements(u)}
    BY <1>10, <1>12
  <2> QED BY <1>1, <1>2, <2>1, CoerceFacts DEF Counted
<1> QED BY <1>9, <1>13 DEF Again

LEMMA ScalarTextAgain ==
  ASSUME NEW in, EffectiveType(in) \in KnownTypes \ {"json", "list"}, in.type # "list",
         NEW v, NEW w \in CoerceScalar(in, v), TextReadsBack(w),
         in.type = "duration" => Within(Content(w), in.min, in.max)
  PROVE  Again(in, w)
<1>1. PICK u : u = Str(EnvString(w))
  OBVIOUS
<1>2. EffectiveType(in) = "string" \/ EffectiveType(in) = in.type
  BY Zenon DEF EffectiveType
<1>3. Kind(w) \in {"text", "int", "float", "bool", "duration"}
  BY <1>2, ScalarKinds DEF KnownTypes
<1>4. Holds(u, w)
  BY <1>1, <1>3, TextHolds
<1>5. CoerceScalar(in, u) = {w}
  BY <1>4, ScalarAgain DEF TextReadsBack
<1>6. Coerce(in, u) = {w}
  <2>1. Kind(u) = "text"
    BY <1>1 DEF Str, Kind
  <2> QED BY <1>5, <2>1, CoerceFacts DEF Structured
<1> QED BY <1>1, <1>6 DEF Again

(* So is whatever a declared input was converted to.                       *)
LEMMA TypedAgain ==
  ASSUME NEW n, NEW raw, NEW v \in Typed(n, raw), ValidInput(Inputs[n]),
         RendersFaithfully(Inputs[n], v), ReadsBack(Inputs[n], v)
  PROVE  Again(Inputs[n], v)
<1>1. PICK in : in = Inputs[n]
  OBVIOUS
<1>2. PICK w \in Coerce(in, raw) : v \in Confined(in, w)
  BY <1>1 DEF Typed
<1>3. /\ EffectiveType(in) \in KnownTypes
      /\ in.type = "list" => in.items \in KnownTypes
      /\ EffectiveType(in) = "string" \/ EffectiveType(in) = in.type
      /\ in.type = "list" => EffectiveType(in) = in.type
  BY <1>1, Zenon DEF ValidInput, EffectiveType
<1>4. /\ in.type = "list" => in.items \notin {"duration", "json"}
      /\ in.type = "duration" => Within(Content(v), in.min, in.max)
  BY <1>1, Zenon DEF RendersFaithfully
<1>5. CASE EffectiveType(in) = "path"
  <2>1. in.type = "path"
    BY <1>3, <1>5
  <2>2. PICK p : v = Str(p)
    BY <1>2, <1>5 DEF Confined, ResolvePathInput
  <2>3. Kind(v) = "text" /\ Content(v) = p
    BY <2>2 DEF Str, Kind, Content
  <2>4. EnvString(v) = p
    BY <2>3, StringifyFacts DEF EnvString, Structured
  <2>5. Coerce(in, v) = {v}
    <3>1. Coerce(in, v) = CoerceScalar(in, v)
      BY <2>1, <2>3, CoerceFacts DEF Structured
    <3>2. CoerceScalar(in, v) = {Str(Stringify(v))}
      BY <2>1, ScalarFacts
    <3> QED BY <2>2, <2>3, <3>1, <3>2, StringifyFacts
  <2> QED BY <1>1, <2>2, <2>4, <2>5 DEF Again
<1>6. CASE EffectiveType(in) # "path"
  <2>1. v \in Coerce(in, raw)
    BY <1>2, <1>6 DEF Confined
  <2>2. CASE in.type = "json"
    <3>1. PICK u \in JsonOf(EnvString(v)) : Kind(u) = Kind(v) /\ EnvString(u) = EnvString(v)
      BY <1>1, <2>2 DEF ReadsBack
    <3>2. PICK t : t = Str(EnvString(v))
      OBVIOUS
    <3>3. Kind(t) = "text" /\ Content(t) = EnvString(v)
      BY <3>2 DEF Str, Kind, Content
    <3>4. Coerce(in, t) = CoerceScalar(in, t)
      BY <2>2, <3>3, CoerceFacts DEF Structured
    <3>5. CoerceScalar(in, t) = JsonOf(EnvString(v))
      <4>1. EffectiveType(in) = in.type
        BY <2>2, Zenon DEF EffectiveType
      <4>2. CoerceScalar(in, t) = IF Structured(t) THEN {t} ELSE JsonOf(Stringify(t))
        BY <2>2, <4>1, Zenon DEF CoerceScalar
      <4> QED BY <3>3, <4>2, StringifyFacts DEF Structured
    <3> QED BY <1>1, <3>1, <3>2, <3>4, <3>5 DEF Again
  <2>3. CASE in.type = "list"
    <3>1. ListReadsBack(v)
      BY <1>1, <2>3, Zenon DEF ReadsBack
    <3> QED BY <1>1, <1>3, <1>4, <2>1, <2>3, <3>1, ListAgain
  <2>4. CASE in.type \notin {"json", "list"}
    <3>1. TextReadsBack(v)
      BY <1>1, <2>4 DEF ReadsBack
    <3>2. v \in CoerceScalar(in, raw)
      <4>1. in.type # "list" => Coerce(in, raw) = IF in.type = "" /\ Structured(raw) THEN {raw}
                                                  ELSE CoerceScalar(in, raw)
        BY Zenon DEF Coerce
      <4>2. in.type = "" => ~Structured(v)
        BY <1>1, Zenon DEF RendersFaithfully
      <4> QED BY <2>1, <2>4, <4>1, <4>2, Zenon
    <3>3. EffectiveType(in) \in KnownTypes \ {"json", "list"}
      BY <1>3, <2>4
    <3> QED BY <1>1, <1>4, <2>4, <3>1, <3>2, <3>3, ScalarTextAgain
  <2> QED BY <2>2, <2>3, <2>4
<1> QED BY <1>5, <1>6
RoundTripsAt(n) ==
  RendersFaithfully(Inputs[n], out[n]) /\ ReadsBack(Inputs[n], out[n]) => Again(Inputs[n], out[n])

(* Whatever was resolved so far can be read again.                         *)
RoundTripsSound == \A n \in Names \cap DOMAIN out : RoundTripsAt(n)

(* A value does not change once it is resolved.                            *)
LEMMA RoundTripsStay ==
  ASSUME RoundTripsSound, UNCHANGED <<workflow, out>>
  PROVE  RoundTripsSound'
<1>1. Inputs' = Inputs /\ Names' = Names /\ out' = out
  BY DEF Inputs, Names
<1> QED BY <1>1 DEF RoundTripsSound, RoundTripsAt

LEMMA RoundTripsKeep == IInv /\ RoundTripsSound /\ [Next]_vars => RoundTripsSound'
<1> SUFFICES ASSUME IInv, RoundTripsSound, [Next]_vars PROVE RoundTripsSound'
  OBVIOUS
<1>1. CASE ResolveNext
  <2>1. PICK n : n = Head(todo)
    OBVIOUS
  <2>2. /\ phase = "resolve" /\ todo # <<>> /\ UNCHANGED given
        /\ \/ out' = out
           \/ \E v \in UNION {Typed(n, raw) : raw \in Raw(n)} : out' = With(out, n, v)
    BY <1>1, <2>1 DEF ResolveNext
  <2>3. Inputs' = Inputs /\ Names' = Names
    BY <2>2 DEF Inputs, Names, given
  <2>4. CASE out' = out
    BY <2>2, <2>4, RoundTripsStay DEF given
  <2>5. ASSUME NEW raw \in Raw(n), NEW v \in Typed(n, raw), out' = With(out, n, v)
        PROVE  RoundTripsSound'
    <3>1. /\ DOMAIN out' = DOMAIN out \cup {n} /\ out'[n] = v
          /\ \A m \in DOMAIN out : m # n => out'[m] = out[m]
      BY <2>5 DEF With
    <3>2. n \in Names
      BY <2>1, <2>2, HeadTailProperties DEF IInv, TypeSound
    <3>3. ValidInput(Inputs[n])
      BY <2>2, <3>2 DEF IInv, PhaseSound, Valid, Names
    <3>4. RoundTripsAt(n)'
      BY <2>3, <2>5, <3>1, <3>3, TypedAgain DEF RoundTripsAt
    <3>5. ASSUME NEW m \in Names \cap DOMAIN out, m # n PROVE RoundTripsAt(m)'
      BY <2>3, <3>1, <3>5 DEF RoundTripsSound, RoundTripsAt
    <3> QED BY <2>3, <3>1, <3>4, <3>5 DEF RoundTripsSound
  <2> QED BY <2>2, <2>4, <2>5
<1>2. CASE Conclude
  <2>1. /\ phase = "resolve" /\ todo = <<>> /\ UNCHANGED given
        /\ \/ out' = out
           \/ /\ ierrs = {}
              /\ out' = [n \in DOMAIN out \cup DOMAIN supplied |->
                           IF n \in DOMAIN out THEN out[n] ELSE supplied[n]]
    BY <1>2 DEF Conclude
  <2>2. Inputs' = Inputs /\ Names' = Names
    BY <2>1 DEF Inputs, Names, given
  <2>3. CASE out' = out
    BY <2>1, <2>3, RoundTripsStay DEF given
  <2>4. CASE out' # out
    <3> SUFFICES ASSUME NEW n \in Names' \cap DOMAIN out' PROVE RoundTripsAt(n)'
      BY DEF RoundTripsSound
    <3>2. CASE n \in DOMAIN out
      <4>1. out'[n] = out[n]
        BY <2>1, <2>4, <3>2
      <4> QED BY <2>2, <3>2, <4>1 DEF RoundTripsSound, RoundTripsAt
    <3>3. CASE n \notin DOMAIN out
      <4>1. n \in DOMAIN supplied /\ out'[n] = supplied[n] /\ ierrs = {} /\ Range(todo) = {}
        BY <2>1, <2>4, <3>3 DEF Range
      <4>2. supplied[n] = Null
        BY <2>1, <2>2, <3>3, <4>1 DEF IInv, ValuesSound
      <4> QED BY <4>1, <4>2, Zenon DEF RoundTripsAt, RendersFaithfully
    <3> QED BY <3>2, <3>3
  <2> QED BY <2>3, <2>4
<1>3. CASE Validate \/ ApplyPreset \/ (Walk(Inputs) /\ UNCHANGED <<given, resolution>>)
  BY <1>3, RoundTripsStay DEF Validate, ApplyPreset, given, resolution
<1>4. ASSUME NEW depth \in DOMAIN Includes, NEW i \in Includes[depth], Enter(i) PROVE RoundTripsSound'
  BY <1>4, RoundTripsStay DEF Enter, given
<1>5. CASE UNCHANGED vars
  BY <1>5, RoundTripsStay DEF vars, given, resolution
<1> QED BY <1>1, <1>2, <1>3, <1>4, <1>5 DEF Next

(* Go's libraries read back what they made of the values of these inputs.  *)
LibrariesReadBack ==
  \A n \in Names \cap DOMAIN out :
    RendersFaithfully(Inputs[n], out[n]) => ReadsBack(Inputs[n], out[n])

(* Where Go's libraries read back what they write, an input that is        *)
(* rendered for a script and typed again by a weftly the script calls is   *)
(* what it was: no bound, choice, length or conversion refuses or changes  *)
(* it (schema/inputs.go:107-332).                                          *)
THEOREM RoundTrips == Spec => [](LibrariesReadBack => EnvRoundTrips)
<1>1. Init => RoundTripsSound
  BY DEF Init, NoValues, RoundTripsSound
<1>2. RoundTripsSound /\ LibrariesReadBack => EnvRoundTrips
  BY DEF RoundTripsSound, RoundTripsAt, LibrariesReadBack, EnvRoundTrips, Again, Names
<1>3. IInv /\ RoundTripsSound /\ [Next]_vars => RoundTripsSound'
  BY RoundTripsKeep
<1> QED BY <1>1, <1>2, <1>3, Invariance, PTL DEF Spec
=============================================================================
