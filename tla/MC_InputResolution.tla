------------------------- MODULE MC_InputResolution -------------------------
(***************************************************************************)
(* Workflows of up to three inputs, each of one type with and without      *)
(* constraints, or with defaults that read one another; callers that       *)
(* supply nothing, a text of any shape, a number or null.                  *)
(***************************************************************************)
EXTENDS InputResolution

(* What Go makes of the texts of the model; Atoi and ParseDuration take a  *)
(* part of what ParseFloat and people take; JSON knows no NaN.             *)
MCInts == [t \in {"1", "2", "3", "4", "9"} |-> CASE t = "1" -> 1 [] t = "2" -> 2 [] t = "3" -> 3 [] t = "4" -> 4 [] t = "9" -> 9]
MCFloats == [t \in {"1", "2", "3", "4", "9", "3.0", "2.5", "NaN"} |->
             CASE t = "NaN" -> NaN [] t = "1" -> 2 [] t = "2" -> 4 [] t \in {"3", "3.0"} -> 6 [] t = "4" -> 8 [] t = "9" -> 18 [] t = "2.5" -> 5]
MCDurations == [t \in {"3s", "9s"} |-> IF t = "3s" THEN 3 ELSE 9]
Plain == {"", "1", "2", "3", "9", "3.0", "2.5", "NaN", "yes", "true", "null", "a", "b", "3s", "9s", "{}", "[go]",
          "in/x", "/ws/x", "lib/y", "../z", "${{ }}"}
Quoted == [t \in {"\"" \o p \o "\"" : p \in Plain} |-> CHOOSE p \in Plain : t = "\"" \o p \o "\""]
Numerals == DOMAIN MCFloats \ {"NaN"}
Atoms == [t \in Numerals \cup {"true", "null"} \cup DOMAIN Quoted |->
            CASE t \in Numerals -> Float(MCFloats[t])
              [] t = "true" -> Bool(TRUE) [] t = "null" -> Null
              [] t \in DOMAIN Quoted -> Str(Quoted[t])]
Singles == [t \in {"[" \o a \o "]" : a \in DOMAIN Atoms} |->
              List(<<Atoms[CHOOSE a \in DOMAIN Atoms : t = "[" \o a \o "]"]>>)]
Nested == [t \in {"[[" \o q \o "]]" : q \in DOMAIN Quoted} |->
             List(<<Singles[CHOOSE a \in DOMAIN Singles : t = "[" \o a \o "]"]>>)]
Few == {"3", "9", "\"3\"", "\"9\"", "\"a\"", "\"b\""}
Pairs == [t \in {"[" \o p[1] \o "," \o p[2] \o "]" : p \in Few \X Few} |->
            LET p == CHOOSE p \in Few \X Few : t = "[" \o p[1] \o "," \o p[2] \o "]" IN
            List(<<Atoms[p[1]], Atoms[p[2]]>>)]
Others == [t \in {"[]", "{}"} |-> IF t = "[]" THEN List(<<>>) ELSE <<"map", "{}">>]
MCJson == Atoms @@ Singles @@ Pairs @@ Nested @@ Others

MCPartsOf(t) == CASE t = "" -> <<>> [] t = "3,9" -> <<"3", "9">> [] t = "a,b" -> <<"a", "b">> [] OTHER -> <<t>>
MCOpens(t) == t \in (DOMAIN Singles \cup DOMAIN Pairs \cup DOMAIN Nested \cup DOMAIN Others \cup {"[3", "[go]"}) \ {"{}"}
MCLengthOf(t) == Len(t)

Texts == Plain \cup {"3,9", "a,b", "[]", "[3", "[3,9]", "[\"a\",\"b\"]", "[2.5]", "[[\"a\"]]", "[null]"}

(* JSON knows one kind of number; a duration is one of nanoseconds.  What  *)
(* JSON cannot hold is written as fmt does.                                *)
JsonKind(v) ==
  CASE Kind(v) = "int" -> Float(2 * Content(v))
    [] Kind(v) = "duration" -> Float(2 * Content(v))
    [] OTHER -> v
Marshalled(v) == IF Kind(v) = "list" THEN List([i \in DOMAIN Content(v) |-> JsonKind(Content(v)[i])]) ELSE v
MCJsonTextOf(v) ==
  IF \E t \in DOMAIN MCJson : MCJson[t] = Marshalled(v)
  THEN CHOOSE t \in DOMAIN MCJson : MCJson[t] = Marshalled(v) ELSE "[go]"
MCTextOf(v) ==
  CASE Kind(v) = "int" -> CHOOSE t \in DOMAIN MCInts : MCInts[t] = Content(v)
    [] Kind(v) = "float" -> CHOOSE t \in DOMAIN MCFloats \ {"3.0"} : MCFloats[t] = Content(v)
    [] Kind(v) = "bool" -> IF Content(v) THEN "true" ELSE "false"
    [] Kind(v) = "duration" -> CHOOSE t \in DOMAIN MCDurations : MCDurations[t] = Content(v)
    [] OTHER -> "[go]"

MCCanonical(t) ==
  CASE t \in {"in/x", "/ws/x"} -> "/ws/x"
    [] t \in {"lib/y", "/lib/y"} -> "/lib/y"
    [] t = "../z" -> "/z"
    [] OTHER -> "/ws/" \o t
MCInside(p) == p # "/z"

Expr(op, names, dotted) ==
  <<"expr", [source |-> "${{ }}", reads |-> names, dotted |-> dotted, steps |-> FALSE, op |-> op, text |-> "lib/y"]>>
Read(n) == Expr("read", {n}, TRUE)
Reads(e) == Content(e)
Typed1(type) == [Input EXCEPT !.type = type]

(* One input of each type, with the constraints that go with it.           *)
Declarations ==
  {Typed1(t) : t \in {"", "string", "bool", "duration", "json", "enum", "int"}}
  \cup {[Typed1(t) EXCEPT !.enum = {"a", "b"}, !.required = TRUE] : t \in {"", "enum"}}
  \cup {[Typed1("string") EXCEPT !.pattern = {{"a", "3", "yes"}}, !.minLen = {2}, !.default = {Str("yes")}],
        [Typed1("string") EXCEPT !.maxLen = {1}, !.default = {Str("yes")}],
        [Typed1("int") EXCEPT !.enum = {"3", "a"}],
        [Typed1("number") EXCEPT !.enum = {"3"}, !.default = {Float(NaN)}],
        [Typed1("json") EXCEPT !.default = {Str("[3,9]")}],
        [Typed1("bool") EXCEPT !.default = {Bool(FALSE)}, !.secret = TRUE],
        [Typed1("path") EXCEPT !.mustExist = TRUE, !.required = TRUE],
        [Typed1("") EXCEPT !.default = {List(<<Str("a")>>)}],
        [Typed1("bool") EXCEPT !.minItems = {1}]}
  \cup {Bounded([Typed1(t) EXCEPT !.default = {Integer(3)}], {"2.5"}, {"3"}) : t \in {"int", "number"}}
  \cup {Bounded([Typed1("duration") EXCEPT !.default = {Str("3s")}], {"3s"}, {"3s"}),
        Bounded(Typed1("duration"), {"3"}, {}),
        Bounded(Typed1("int"), {"9"}, {"3"}),
        Bounded(Typed1("number"), {"NaN"}, {"3"})}
  \cup {[Typed1("list") EXCEPT !.items = t, !.maxItems = {IF t = "list" THEN 1 ELSE 2}] :
          t \in {"string", "int", "number", "bool", "duration", "list", "json"}}
  \cup {[Typed1("list") EXCEPT !.items = "enum", !.values = {"a", "b"}, !.minItems = {1}, !.default = {Str("a,b")}]}

One(n, v) == [m \in {n} |-> v]
Alone(in) == [inputs |-> One(1, in), presets |-> [p \in {"qa"} |-> NoValues]]
(* A preset that supplies one value.                                       *)
Preset(in, v) == [inputs |-> One(1, in), presets |-> [p \in {"qa"} |-> One(1, v)]]

(* Defaults that read other inputs, in any order and around.               *)
Reading(d1, d2, d3) ==
  [inputs |-> [n \in 1..3 |-> [Typed1(<<"int", "", "duration">>[n]) EXCEPT !.default = {<<d1, d2, d3>>[n]}]],
   presets |-> [p \in {"qa"} |-> One(3, Str("9s"))]]
Bound3 == Bounded([Typed1("duration") EXCEPT !.default = {Read(2)}], {}, {"3s"})
Copies == [inputs |-> [n \in 1..3 |-> CASE n = 1 -> Bound3 [] n = 2 -> [Typed1("duration") EXCEPT !.default = {Read(3)}]
                                         [] n = 3 -> [Typed1("duration") EXCEPT !.default = {Str("9s")}]],
           presets |-> [p \in {} |-> NoValues]]

Sum == [inputs |-> [n \in 1..2 |-> IF n = 1 THEN [Typed1("int") EXCEPT !.default = {Expr("add", {2}, TRUE)}]
                                    ELSE [Typed1("int") EXCEPT !.default = {Integer(1)}]],
        presets |-> [p \in {} |-> NoValues]]

MCWorkflows ==
  {Alone(in) : in \in Declarations}
  \cup {Preset(Typed1("int"), v) : v \in {Str("3"), Str("a"), Null}}
  \cup {Preset([Typed1("string") EXCEPT !.secret = TRUE], Str("a")),
        Preset([Typed1("list") EXCEPT !.items = "string"], Read(1)),
        Reading(Expr("add", {2}, TRUE), Read(3), Str("3s")),
        Reading(Expr("add", {2}, TRUE), Integer(1), Expr("read", {1}, FALSE)),
        Reading(Expr("read", {3}, FALSE), Read(3), Expr("text", {}, FALSE)),
        Reading(Read(2), Read(1), Str("3s")),
        Reading(Read(3), Integer(3), Str("3")),
        Reading(Read(1), Read(3), Read(2)),
        Reading(Integer(3), Read(1), Read(1)),
        Copies, Sum}

MCSupplied == {NoValues} \cup {One(1, Str(t)) : t \in Texts}
              \cup {One(1, v) : v \in {Null, Integer(3), Float(6), Float(5), Float(NaN), Bool(TRUE), <<"map", "{}">>,
                                       List(<<Integer(3), Str("a")>>), List(<<Float(NaN)>>)}}
              \cup {One(2, Integer(3)), One(3, Str("a"))}
MCEnvironments == {NoValues} \cup {One(1, t) : t \in {"9", "a"}}
MCPresetArgs == {{}, {"qa"}, {"other"}}

Fragment(with, ifset) ==
  [inputs |-> [n \in 1..2 |-> [Input EXCEPT !.default = IF n = 1 THEN {Str("a")} ELSE {Expr("add", {1}, TRUE)}]],
   with |-> with, withIfSet |-> ifset]
MCIncludes ==
  <<{Fragment(NoValues, NoValues), Fragment(One(2, Reads(Expr("add", {1}, TRUE))), One(1, Reads(Read(1)))),
     Fragment(One(3, Reads(Read(1))), NoValues)},
    {Fragment(One(1, Reads(Read(1))), One(2, Reads(Read(2)))), Fragment(NoValues, One(1, Reads(Read(3))))}>>
=============================================================================
