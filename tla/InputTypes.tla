----------------------------- MODULE InputTypes -----------------------------
(***************************************************************************)
(* internal/schema/inputs.go: the declaration of an input, the conversion  *)
(* of a raw value to the declared type, and what `weftly validate` demands *)
(* of declarations and presets.                                            *)
(*                                                                         *)
(* A value is a pair of a kind and a content.  What Go's libraries make of *)
(* texts is given by tables, which hold the texts that are not refused;    *)
(* texts are compared as a whole.  Numbers with a fraction and the bounds  *)
(* on numbers are counted in halves; NaN is a number that is in no order   *)
(* with any other.                                                         *)
(***************************************************************************)
EXTENDS Integers, Sequences

CONSTANTS
  Ints,           \* strconv.Atoi
  Floats,         \* strconv.ParseFloat
  Durations,      \* time.ParseDuration
  Json,           \* json.Unmarshal
  PartsOf(_),     \* strings.Split at commas, trimmed
  Opens(_),       \* whether a text starts with "["
  LengthOf(_),    \* len
  TextOf(_),      \* fmt's rendering of a value that is no text
  JsonTextOf(_),  \* json.Marshal, or fmt's rendering where it has none
  NaN             \* what ParseFloat and YAML make of "NaN"

ASSUME NaNAssumption == NaN \notin Int

Kind(v) == v[1]
Content(v) == v[2]
Str(s) == <<"text", s>>
Integer(i) == <<"int", i>>
Float(h) == <<"float", h>>
Bool(b) == <<"bool", b>>
Duration(d) == <<"duration", d>>
List(s) == <<"list", s>>
Null == <<"null", "">>
Error == {}

(* The result of a library is a set, empty for an error.                   *)
LookUp(table, text) == {table[t] : t \in DOMAIN table \cap {text}}
IntOf(text) == LookUp(Ints, text)
FloatOf(text) == LookUp(Floats, text)
DurationOf(text) == LookUp(Durations, text)
JsonOf(text) == LookUp(Json, text)

Structured(v) == Kind(v) \in {"list", "map"}
(* YAML and JSON have no durations, nor have lists in them.                *)
Literal(v) ==
  /\ Kind(v) # "duration"
  /\ Kind(v) = "list" => \A i \in DOMAIN Content(v) : Kind(Content(v)[i]) # "duration"
ASSUME JsonAssumption == \A t \in DOMAIN Json : Literal(Json[t])

(* A text with a ${{ }} span has a kind of its own.                        *)
IsExprString(v) == Kind(v) = "expr"

KnownTypes == {"string", "int", "number", "bool", "enum", "duration", "json", "path", "list"}

(* An input without a declared type, a bound or a default has the empty    *)
(* set for it.                                                             *)
Input ==
  [type |-> "", items |-> "", values |-> {}, enum |-> {}, pattern |-> {},
   min |-> {}, max |-> {}, badBound |-> FALSE, minLen |-> {}, maxLen |-> {},
   minItems |-> {}, maxItems |-> {}, mustExist |-> FALSE,
   required |-> FALSE, secret |-> FALSE, default |-> {}]

EffectiveType(in) == IF in.type = "" THEN "string" ELSE in.type
AllowedValues(in) == IF in.values # {} THEN in.values ELSE in.enum

(* UnmarshalYAML and parseBound: a bound is read in the unit of the type,  *)
(* whatever the order of the keys; one that cannot be read is no bound.    *)
ReadBound(text, type) == IF type = "duration" THEN DurationOf(text) ELSE FloatOf(text)
Bounded(in, lowest, highest) ==
  LET min == UNION {ReadBound(t, EffectiveType(in)) : t \in lowest}
      max == UNION {ReadBound(t, EffectiveType(in)) : t \in highest} IN
  [in EXCEPT !.min = min, !.max = max,
             !.badBound = (lowest # {} /\ min = {}) \/ (highest # {} /\ max = {})]

-----------------------------------------------------------------------------
(* Coerce.  The result is the set of the converted value, or Error.        *)

Stringify(v) ==
  CASE Kind(v) = "text" -> Content(v)
    [] Kind(v) = "expr" -> Content(v).source
    [] Kind(v) = "null" -> ""
    [] OTHER -> TextOf(v)

ToInt(v) ==
  CASE Kind(v) = "int" -> {Content(v)}
    [] Kind(v) = "float" /\ Content(v) # NaN -> {i \in {Content(v) \div 2} : 2 * i = Content(v)}
    [] Kind(v) = "text" -> IntOf(Content(v))
    [] OTHER -> Error

ToFloat(v) ==
  CASE Kind(v) = "int" -> {2 * Content(v)}
    [] Kind(v) = "float" -> {Content(v)}
    [] Kind(v) = "text" -> FloatOf(Content(v))
    [] OTHER -> Error

ToBool(v) ==
  CASE Kind(v) = "bool" -> {Content(v)}
    [] Kind(v) = "text" /\ Content(v) \in {"true", "1", "yes", "on"} -> {TRUE}
    [] Kind(v) = "text" /\ Content(v) \in {"false", "0", "no", "off"} -> {FALSE}
    [] OTHER -> Error

(* A length or a number of items, which are whole.                         *)
Between(x, lowest, highest) == (\A l \in lowest : l <= x) /\ (\A h \in highest : x <= h)

(* A value is refused below the lowest and above the highest; NaN never is.*)
Below(x, y) == x # NaN /\ y # NaN /\ x < y
Within(x, lowest, highest) ==
  /\ ~\E l \in lowest : Below(x, l)
  /\ ~\E h \in highest : Below(h, x)

CheckChoice(in, s) == {Str(a) : a \in AllowedValues(in) \cap {s}}

(* An allowed set, where there is one, is all that a string is held to.    *)
CoerceString(in, v) ==
  LET s == Stringify(v) IN
  IF AllowedValues(in) # {} THEN CheckChoice(in, s)
  ELSE IF (\A p \in in.pattern : s \in p) /\ Between(LengthOf(s), in.minLen, in.maxLen)
       THEN {Str(s)} ELSE Error

(* Mutant: the highest value is left out.                                  *)
CoerceInt_NoMax(in, v) ==
  {Integer(i) : i \in {i \in ToInt(v) :
     /\ AllowedValues(in) # {} => TextOf(Integer(i)) \in AllowedValues(in)
     /\ Within(2 * i, in.min, {})}}

CoerceInt(in, v) ==
  {Integer(i) : i \in {i \in ToInt(v) :
     /\ AllowedValues(in) # {} => TextOf(Integer(i)) \in AllowedValues(in)
     /\ Within(2 * i, in.min, in.max)}}

CoerceNumber(in, v) == {Float(h) : h \in {h \in ToFloat(v) : Within(h, in.min, in.max)}}

(* A duration that is one already is taken as it is, out of bounds or not. *)
CoerceDuration(in, v) ==
  IF Kind(v) = "duration" THEN {v}
  ELSE {Duration(d) : d \in {d \in DurationOf(Stringify(v)) : Within(d, in.min, in.max)}}

CoerceScalar(in, v) ==
  CASE EffectiveType(in) = "string" -> CoerceString(in, v)
    [] in.type = "int" -> CoerceInt(in, v)
    [] in.type = "number" -> CoerceNumber(in, v)
    [] in.type = "bool" -> {Bool(b) : b \in ToBool(v)}
    [] in.type = "enum" -> CheckChoice(in, Stringify(v))
    [] in.type = "duration" -> CoerceDuration(in, v)
    [] in.type = "json" -> IF Structured(v) THEN {v} ELSE JsonOf(Stringify(v))
    [] in.type = "path" -> {Str(Stringify(v))}
    [] OTHER -> {v}

(* coerceList: a list, a JSON array, or a text cut at its commas, one with *)
(* a ${{ }} span in it like any other.                                     *)
Split(s) == [i \in DOMAIN PartsOf(s) |-> Str(PartsOf(s)[i])]
Elements(v) ==
  LET s == Stringify(v) IN
  CASE Kind(v) = "list" -> {Content(v)}
    [] Kind(v) \in {"text", "expr"} /\ Opens(s) ->
         {Content(j) : j \in {j \in JsonOf(s) : Kind(j) = "list"}}
    [] Kind(v) \in {"text", "expr"} /\ ~Opens(s) -> {Split(s)}
    [] OTHER -> Error

ElementInput(in) ==
  [Input EXCEPT !.type = IF in.items = "" THEN "string" ELSE in.items,
                !.values = in.values, !.enum = in.enum, !.secret = in.secret,
                !.min = in.min, !.max = in.max]

(* Those of a length that the declaration accepts.                         *)
Counted(in, lists) == {l \in lists : Between(Len(Content(l)), in.minItems, in.maxItems)}

(* A list of converted elements, or Error if one of them is.               *)
AllOf(s) ==
  IF \E i \in DOMAIN s : s[i] = Error THEN Error
  ELSE {List([i \in DOMAIN s |-> CHOOSE e \in s[i] : TRUE])}

(* The elements of a list in a list are strings.                           *)
CoerceElement(in, v) ==
  IF in.type # "list" THEN CoerceScalar(in, v)
  ELSE UNION {AllOf([i \in DOMAIN s |-> CoerceScalar(ElementInput(in), s[i])]) : s \in Elements(v)}

Coerce(in, v) ==
  IF in.type = "" /\ Structured(v) THEN {v}
  ELSE IF in.type # "list" THEN CoerceScalar(in, v)
  ELSE Counted(in, UNION {AllOf([i \in DOMAIN s |-> CoerceElement(ElementInput(in), s[i])]) :
                            s \in Elements(v)})

(* Mutant: a list is written as Go writes it.                              *)
EnvString_Go(v) == Stringify(v)

(* EnvString: what a run: step finds in its environment.                   *)
EnvString(v) ==
  IF Structured(v) THEN JsonTextOf(v) ELSE Stringify(v)

-----------------------------------------------------------------------------
(* ValidateInputSchema.                                                    *)

Inverted(lowest, highest) == \E l \in lowest, h \in highest : Below(h, l)

IrrelevantConstraints(in) ==
  LET t == EffectiveType(in) IN
  \/ in.min \cup in.max # {} /\ t \notin {"int", "number", "duration"}
  \/ in.minLen \cup in.maxLen # {} /\ t # "string"
  \/ in.pattern # {} /\ t # "string"
  \/ in.minItems \cup in.maxItems # {} /\ t # "list"
  \/ in.mustExist /\ t # "path"
  \/ in.items # "" /\ t # "list"
  \/ in.values # {} /\ t \notin {"enum", "list"}

(* Rules 1 to 5 and 7 for one input; only a literal default can be tried.  *)
ValidInput(in) ==
  /\ EffectiveType(in) \in KnownTypes
  /\ in.type = "enum" => AllowedValues(in) # {}
  /\ in.type = "list" => in.items \in KnownTypes
  /\ ~IrrelevantConstraints(in) /\ ~in.badBound
  /\ ~Inverted(in.min, in.max) /\ ~Inverted(in.minLen, in.maxLen) /\ ~Inverted(in.minItems, in.maxItems)
  /\ \A d \in in.default :
       IF IsExprString(d) THEN ~Content(d).steps
       ELSE d # Null => Coerce(in, d) # Error

(* Mutant: the values of a preset are not tried.                           *)
ValidPresets_NamesOnly(inputs, presets) ==
  \A p \in DOMAIN presets : \A n \in DOMAIN presets[p] :
    n \in DOMAIN inputs /\ ~inputs[n].secret

(* Rules 8 to 11.                                                          *)
ValidPresets(inputs, presets) ==
  \A p \in DOMAIN presets : \A n \in DOMAIN presets[p] :
    /\ n \in DOMAIN inputs
    /\ ~inputs[n].secret
    /\ Coerce(inputs[n], presets[p][n]) # Error
=============================================================================
