----------------------------- MODULE ToolCalls -----------------------------
(***************************************************************************)
(* A client calls tools by name with a dictionary of arguments. The        *)
(* dispatcher coerces the values to the types the tool's schema declares   *)
(* (presentation/argument_coercion.py), hands them to the parameter        *)
(* builder, and answers a call the builder cannot read with an             *)
(* InvalidArgumentFailure that carries an example of a good call           *)
(* (ToolDispatcher._invoke in presentation/tool_registry.py). The schemas  *)
(* and the builders are two tables written by hand in two files: the       *)
(* properties ask whether they agree for every tool.                       *)
(*                                                                         *)
(* A value is its JSON kind and what the conversions tell apart of it:     *)
(* which text, which number, what a list holds. What the use case makes of *)
(* parameters that were built is not part of this module.                  *)
(***************************************************************************)
EXTENDS ToolSchemas, ParamBuilders, FiniteSets, Naturals

CONSTANT Tools            \* the tools the client calls

VARIABLES
  tool, args,             \* the last call
  meant,                  \* the well typed call the client had in mind, if any
  params,                 \* what the builder made of it
  reply                   \* idle | sent | built | missing | refused | raised

vars == <<tool, args, meant, params, reply>>

----------------------------------------------------------------------------
Value(kind, is) == [kind |-> kind, is |-> is]
Null == Value("null", "")
Default == Value("default", "")
Str(is) == Value("text", is)
Num(is) == Value("int", is)
Dec(is) == Value("float", is)
Bool(holds) == Value("bool", IF holds THEN "true" ELSE "false")
List(of) == Value("list", of)          \* one element of that sort, or "none"
Fault(name) == Value("fault", name)

Truthy(v) ==
  CASE v.kind \in {"null", "default"} -> FALSE
    [] v.kind = "text" -> v.is # ""
    [] v.kind \in {"int", "float"} -> v.is # "0"
    [] v.kind = "bool" -> v.is = "true"
    [] v.kind = "list" -> v.is # "none"
    [] v.kind = "object" -> v.is # "empty"

\* int(v) and float(v). A float or a text can be too large for an integer
\* ("inf", 1e999) or no number at all ("nan", and the NaN that json.loads
\* accepts), and an integer of 400 digits ("huge") too large for a float.
AsInteger(v) ==
  CASE v.kind = "int" -> v
    [] v.kind = "bool" -> Num(IF v.is = "true" THEN "1" ELSE "0")
    [] v.kind = "float" ->
         CASE v.is = "inf" -> Fault("OverflowError")
           [] v.is = "nan" -> Fault("ValueError")
           [] OTHER -> Num(v.is)
    [] v.kind = "text" -> IF v.is \in {"0", "1", "huge"} THEN Num(v.is) ELSE Fault("ValueError")
    [] OTHER -> Fault("TypeError")

AsFloat(v) ==
  CASE v.kind = "float" -> v
    [] v.kind = "int" -> IF v.is = "huge" THEN Fault("OverflowError") ELSE Dec(v.is)
    [] v.kind = "bool" -> Dec(IF v.is = "true" THEN "1" ELSE "0")
    [] v.kind = "text" ->
         CASE v.is \in {"0", "1", "inf", "nan"} -> Dec(v.is)
           [] v.is = "1.0" -> Dec("1")
           [] v.is = "huge" -> Dec("inf")
           [] OTHER -> Fault("ValueError")
    [] OTHER -> Fault("TypeError")

----------------------------------------------------------------------------
\* Coercion to the declared type. What a ValueError or a TypeError shows not to
\* be of that type stays as it is.
Misfit == {Fault("ValueError"), Fault("TypeError")}

\* Mutant: a text is true when it is not empty.
ToBool_truth(v) ==
  IF v.kind \in {"int", "float", "text"} THEN Bool(Truthy(v)) ELSE v

ToBool(v) ==
  CASE v.kind \in {"int", "float"} -> Bool(Truthy(v))
    [] v.kind = "text" /\ v.is \in {"true", "1"} -> Bool(TRUE)
    [] v.kind = "text" /\ v.is \in {"false", "0", ""} -> Bool(FALSE)
    [] OTHER -> v

\* Mutant: a text that is no number is not expected.
ToInteger_strict(v) ==
  IF v.kind \in {"bool", "int", "float", "text"} THEN AsInteger(v) ELSE v

\* A text goes through int(), then through int(float()): only the ValueErrors
\* of the two are caught, and nothing a float raises.
ToInteger(v) ==
  CASE v.kind \in {"bool", "int", "float"} -> AsInteger(v)
    [] v.kind = "text" ->
         IF AsInteger(v).kind # "fault" THEN AsInteger(v)
         ELSE IF AsFloat(v) \in Misfit \/ AsInteger(AsFloat(v)) \in Misfit THEN v
              ELSE AsInteger(AsFloat(v))
    [] OTHER -> v

ToFloat(v) == IF v.kind = "bool" \/ AsFloat(v) \in Misfit THEN v ELSE AsFloat(v)

ToStr(v) == IF v.kind \in {"int", "float"} THEN Str(v.is) ELSE v

ToList(v) ==
  CASE v.kind = "list" -> v
    [] v = Null -> List("none")
    [] v.kind = "text" ->
         List(CASE v.is \in {"0", "1"} -> "digits" [] v.is = "~nobody" -> "home" [] OTHER -> "word")
    [] OTHER -> List(IF v.is \in {"inf", "nan"} THEN v.is ELSE v.kind)

Coerce(declared, v) ==
  CASE declared.type = "boolean" -> ToBool(v)
    [] declared.type = "integer" -> ToInteger(v)
    [] declared.type = "number" -> ToFloat(v)
    [] declared.type = "string" -> ToStr(v)
    [] declared.type = "array" -> ToList(v)
    [] declared.type = "object" -> v

\* An argument the schema does not name passes unchanged.
Coerced(schema, given) ==
  [k \in DOMAIN given |->
    IF k \in DOMAIN schema THEN Coerce(schema[k], given[k]) ELSE given[k]]

----------------------------------------------------------------------------
\* What the conversion of an element makes of a list of one.
EachFault(each, of) ==
  IF of = "none" \/ each = "raw" THEN ""
  ELSE IF each = "location"
  THEN CASE of \in {"word", "digits"} -> ""
         [] of = "home" -> "RuntimeError"
         [] OTHER -> "TypeError"
  ELSE CASE of \in {"digits", "int", "float", "bool", "box"} -> ""
         [] of \in {"word", "home", "nan"} -> "ValueError"
         [] of = "inf" -> "OverflowError"
         [] OTHER -> "TypeError"

AsItems(each, v) ==
  IF ~ Truthy(v) THEN Default
  ELSE CASE v.kind \in {"int", "float", "bool"} -> Fault("TypeError")
         [] v.kind = "list" /\ EachFault(each, v.is) # "" -> Fault(EachFault(each, v.is))
         [] OTHER -> v

AsMap(v) ==
  IF ~ Truthy(v) THEN Default
  ELSE CASE v.kind = "object" -> v
         [] v.kind \in {"text", "list"} -> Fault("ValueError")
         [] OTHER -> Fault("TypeError")

\* Path(v).expanduser(): "~nobody" stands for the home of a user there is not.
AsLocation(v) ==
  CASE v = Str("~nobody") -> Fault("RuntimeError")
    [] v.kind = "text" -> v
    [] OTHER -> Fault("TypeError")
AsMember(members, v) ==
  IF v.kind = "text" /\ v.is \in members THEN v ELSE Fault("ValueError")

\* A rectangle is a list of four numbers or a text with four numbers in it;
\* whatever else is given counts as none.
AsBounds(v) == IF v \in {Str("box"), List("box")} THEN v ELSE Default

\* The steps of a batch: any list that is not empty.
AsSteps(v) == IF v.kind = "list" /\ Truthy(v) THEN v ELSE Fault("ValueError")

Convert(r, v) ==
  CASE r.how = "raw" -> v
    [] r.how = "truth" -> Bool(Truthy(v))
    [] r.how = "integer" -> AsInteger(v)
    [] r.how = "float" -> AsFloat(v)
    [] r.how = "integerIf" -> IF v = Null THEN Default ELSE AsInteger(v)
    [] r.how = "floatIf" -> IF v = Null THEN Default ELSE AsFloat(v)
    [] r.how = "location" -> AsLocation(v)
    [] r.how = "locationIf" -> IF Truthy(v) THEN AsLocation(v) ELSE Default
    [] r.how = "items" -> IF r.needed /\ v = Null THEN Fault("TypeError") ELSE AsItems(r.each, v)
    [] r.how = "mapIf" -> AsMap(v)
    [] r.how = "member" -> AsMember(r.of, v)
    [] r.how = "memberIf" -> IF Truthy(v) THEN AsMember(r.of, v) ELSE Default
    [] r.how = "bounds" -> AsBounds(v)
    [] r.how = "steps" -> AsSteps(v)

\* An argument with an alias counts as given unless it is None, or falsy
\* where the builder takes it with `or`.
Gives(r, given, k) ==
  /\ k \in DOMAIN given
  /\ r.alias # "" => given[k] # Null /\ (r.needed \/ Truthy(given[k]))

Read(r, given, k) ==
  CASE Gives(r, given, k) -> Convert(r, given[k])
    [] ~ Gives(r, given, k) /\ Gives(r, given, r.alias) -> Convert(r, given[r.alias])
    [] OTHER ->
         CASE r.needed -> Fault("KeyError")
           [] r.how = "steps" -> AsSteps(Null)
           [] OTHER -> Default

Build(builder, given) == [k \in DOMAIN builder |-> Read(builder[k], given, k)]

----------------------------------------------------------------------------
\* The example an InvalidArgumentFailure carries: the required arguments, each
\* with a default of its type, or an option where there are some.
ExampleValue(declared) ==
  CASE declared.options # {} -> Str(CHOOSE o \in declared.options : TRUE)
    [] declared.options = {} /\ declared.type = "boolean" -> Bool(FALSE)
    [] declared.options = {} /\ declared.type = "integer" -> Num("0")
    [] declared.options = {} /\ declared.type = "number" -> Dec("0")
    [] declared.options = {} /\ declared.type = "array" -> List("none")
    [] declared.options = {} /\ declared.type = "object" -> Value("object", "empty")
    [] declared.options = {} /\ declared.type = "string" -> Str("")

RequiredOf(schema) == {k \in DOMAIN schema : schema[k].required}
\* Mutant: the required flag is read the other way round.
Example_optional(schema) ==
  [k \in DOMAIN schema \ RequiredOf(schema) |-> ExampleValue(schema[k])]

Example(schema) == [k \in RequiredOf(schema) |-> ExampleValue(schema[k])]

\* A refused batch shows a step instead (_run_batch).
ExampleFor(name) ==
  IF name = "batch" THEN [steps |-> List("object")] ELSE Example(Schemas[name])

\* What reaches the builder: a batch is run before arguments are coerced.
Received(name, given) ==
  IF name = "batch" THEN given ELSE Coerced(Schemas[name], given)

\* Coercion runs before the try block, the builder inside of it: KeyError,
\* TypeError and ValueError of the builder are answered, every other exception
\* leaves the dispatcher. With several bad arguments the first one decides.
Answers(given, made) ==
  LET lost == {k \in DOMAIN given : given[k].kind = "fault"}
      bad == {made[k].is : k \in {k \in DOMAIN made : made[k].kind = "fault"}}
  IN  CASE lost # {} -> {"raised"}
        [] lost = {} /\ bad = {} -> {"built"}
        [] OTHER -> {IF f = "KeyError" THEN "missing"
                     ELSE IF Fault(f) \in Misfit THEN "refused" ELSE "raised" : f \in bad}

----------------------------------------------------------------------------
\* Values a client sends for an argument of a type: well typed ones, the loose
\* forms the header of argument_coercion.py names, and any other.
Fitting(declared) ==
  CASE declared.options # {} -> {Str(o) : o \in declared.options}
    [] declared.options = {} /\ declared.type = "string" ->
         {Str("word"), Str("1"), Str("box")}
    [] declared.options = {} /\ declared.type = "integer" -> {Num("0"), Num("1")}
    [] declared.options = {} /\ declared.type = "number" -> {Dec("1"), Num("1")}
    [] declared.options = {} /\ declared.type = "boolean" -> {Bool(TRUE), Bool(FALSE)}
    [] declared.options = {} /\ declared.type = "object" -> {Value("object", "full")}
    [] declared.options = {} /\ declared.type = "array" ->
         (IF declared.least = 0 THEN {List("none")} ELSE {}) \cup
         {List(CASE declared.items = "string" -> "word"
                 [] declared.items = "integer" -> "int"
                 [] declared.items = "object" -> "object")}

Loose(v) ==
  CASE v = Bool(TRUE) -> {Str("true"), Str("1"), Num("1")}
    [] v = Bool(FALSE) -> {Str("false"), Str("0"), Num("0")}
    [] v \in {Num("1"), Dec("1")} -> {Str("1"), Str("1.0")}
    [] v = Num("0") -> {Str("0")}
    [] v = List("word") -> {Str("word")}
    [] v = Str("1") -> {Num("1")}
    [] OTHER -> {}

AnyValue ==
  {Null, Str(""), Str("word"), Str("~nobody"), Str("box"), Str("1"), Str("1.0"), Str("inf"),
   Str("nan"), Str("true"), Num("0"), Num("1"), Num("huge"), Dec("1"), Dec("inf"), Dec("nan"),
   Bool(TRUE), Bool(FALSE), List("none"), List("word"), List("int"), List("box"),
   Value("object", "full")}

Aliases(builder) == {builder[k].alias : k \in DOMAIN builder} \ {""}
Arguments(name) ==
  DOMAIN Schemas[name] \cup DOMAIN Builders[name] \cup Aliases(Builders[name])

Base(schema) ==
  [k \in RequiredOf(schema) |-> CHOOSE v \in Fitting(schema[k]) : v # List("none")]
With(given, k, v) == [j \in DOMAIN given \cup {k} |-> IF j = k THEN v ELSE given[j]]
Without(given, k) == [j \in DOMAIN given \ {k} |-> given[j]]

Begin(name, intended, given) ==
  /\ tool' = name
  /\ meant' = intended
  /\ args' = given
  /\ reply' = "sent"
  /\ UNCHANGED params

\* A call as the schema asks for it, with at most one optional argument.
CallWell(name) ==
  \/ Begin(name, <<Base(Schemas[name])>>, Base(Schemas[name]))
  \/ \E k \in DOMAIN Schemas[name] : \E v \in Fitting(Schemas[name][k]) :
       LET call == With(Base(Schemas[name]), k, v) IN Begin(name, <<call>>, call)

\* The same call with one value in a loose form.
CallLoosely(name) ==
  \E k \in DOMAIN Schemas[name] : \E v \in Fitting(Schemas[name][k]) : \E w \in Loose(v) :
    Begin(name, <<With(Base(Schemas[name]), k, v)>>, With(Base(Schemas[name]), k, w))

\* A call with one argument missing or of any value.
CallBadly(name) ==
  \E k \in Arguments(name) :
    \/ k \in RequiredOf(Schemas[name]) /\ Begin(name, <<>>, Without(Base(Schemas[name]), k))
    \/ \E w \in AnyValue : Begin(name, <<>>, With(Base(Schemas[name]), k, w))

Call == reply = "idle" /\ \E name \in Tools : CallWell(name) \/ CallLoosely(name) \/ CallBadly(name)

Dispatch ==
  /\ reply = "sent"
  /\ LET given == Received(tool, args)
         made == Build(Builders[tool], given)
     IN  /\ reply' \in Answers(given, made)
         /\ params' = IF reply' = "built" THEN made ELSE <<>>
  /\ UNCHANGED <<tool, args, meant>>

\* The client copies the example it was given into its next call.
CopyExample ==
  /\ reply \in {"missing", "refused"}
  /\ Begin(tool, <<ExampleFor(tool)>>, ExampleFor(tool))

Init ==
  /\ tool = "" /\ reply = "idle"
  /\ args = <<>> /\ meant = <<>> /\ params = <<>>

\* The use case takes the parameters; the client goes on to another call.
Proceed ==
  /\ reply \in {"built", "raised"}
  /\ tool' = "" /\ reply' = "idle"
  /\ args' = <<>> /\ meant' = <<>> /\ params' = <<>>

Next == Call \/ Dispatch \/ CopyExample \/ Proceed
Spec == Init /\ [][Next]_vars /\ WF_vars(Dispatch) /\ WF_vars(CopyExample)

----------------------------------------------------------------------------
\* The value of argument k of the well typed call is the value of a parameter:
\* its own, or the one it is an alias of. An integer may arrive as a float, and
\* an empty list or object as the default that stands for it.
Arrives(k) ==
  \E j \in DOMAIN params :
    /\ j = k \/ Builders[tool][j].alias = k
    /\ \/ params[j].is = meant[1][k].is
       \/ params[j] = Default /\ ~ Truthy(meant[1][k])

\* Where schemas and builders part. A flag of a batch is not coerced, so a text
\* is true whatever it says; a batch without steps fits the schema; a text that
\* is no rectangle is no bounds.
TextAsFlag(k) ==
  /\ tool = "batch" /\ k \in {"stop_on_error", "capture_on_failure"}
  /\ k \in DOMAIN args /\ args[k].kind = "text"
EmptyBatch == tool = "batch" /\ meant[1]["steps"] = List("none")
NoRectangle(k) == tool = "tap" /\ k = "bounds" /\ meant[1][k] # Str("box")

(***************************************************************************)
(* A call its client means is built whichever loose form its values came   *)
(* in, and loses nothing: every argument the schema declares is read by    *)
(* the builder, and its value arrives in the parameters. Schema, coercion  *)
(* and builder agree on every argument of every tool, but for the three    *)
(* places named above.                                                     *)
(***************************************************************************)
MeantIsBuilt ==
  meant # <<>> /\ reply \notin {"idle", "sent"} =>
    \/ EmptyBatch
    \/ /\ reply = "built"
       /\ \A k \in DOMAIN meant[1] : Arrives(k) \/ TextAsFlag(k) \/ NoRectangle(k)

(***************************************************************************)
(* The example of a refusal ends it: the client that copies it is not      *)
(* refused again ("the agent can copy it into its next call",              *)
(* argument_coercion.py).                                                  *)
(***************************************************************************)
ExampleHeals == reply \in {"missing", "refused"} ~> reply = "built"

Declares(k, types) == k \in DOMAIN Schemas[tool] /\ Schemas[tool][k].type \in types
Reads(k, hows) ==
  \E j \in DOMAIN Builders[tool] :
    /\ j = k \/ Builders[tool][j].alias = k
    /\ Builders[tool][j].how \in hows \/ Builders[tool][j].each \in hows

(***************************************************************************)
(* Every call is answered with an envelope (ToolDispatcher: "name ->       *)
(* ToolDescriptor -> uniform JSON envelope"), but for the arguments named  *)
(* here: an infinity for a whole number, a NaN the schema declares to be   *)
(* one, an integer of hundreds of digits for a float, and the home of a    *)
(* user there is not for a path. No other value of any argument of any     *)
(* tool raises out of the dispatcher.                                      *)
(***************************************************************************)
RaisesAreKnown ==
  reply = "raised" => \E k \in DOMAIN args :
    \/ /\ args[k] \in {Str("inf"), Dec("inf")}
       /\ Declares(k, {"integer"}) \/ Reads(k, {"integer", "integerIf"})
    \/ args[k] = Dec("nan") /\ Declares(k, {"integer"})
    \/ args[k] = Num("huge") /\ (Declares(k, {"number"}) \/ Reads(k, {"float", "floatIf"}))
    \/ args[k] = Str("~nobody") /\ Reads(k, {"location", "locationIf"})

=============================================================================
