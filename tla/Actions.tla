-------------------------------- MODULE Actions --------------------------------
(***************************************************************************)
(* The input of an action (`Context::action_input`, `ActionOptions`,       *)
(* `Validator`, `FieldRule` and the schema strings of src/src/lib.rs): how *)
(* it is gathered from body, path, query and form, what a schema string    *)
(* means to the parser, what is let through and what it is made into, and  *)
(* what happens when the action hands its input to another of the same     *)
(* schema.                                                                 *)
(*                                                                         *)
(* A schema is the tree that its string spells out.  A JSON value is a     *)
(* record with one field, named for its type.  A string is known by what   *)
(* the code asks of it: the constant Texts.  Rules that are built by       *)
(* calls (`min`, `custom`) and schema references (@name) are left out.     *)
(***************************************************************************)
EXTENDS Integers, SequencesExt

CONSTANTS
    Texts,              \* what the code finds in every string: a function
    Options,            \* the options that actions are registered with
    Calls               \* what requests carry

None == -1              \* no limit

\* A number parsed from text is a float; NaN and the infinities are no JSON.
NotFinite == [notFinite |-> TRUE]
Null      == [null |-> TRUE]
Str(s)    == [str |-> s]
Int_(n)   == [num |-> n, float |-> FALSE]
Float(n)  == [num |-> n, float |-> TRUE]
IsA(v, type) == type \in DOMAIN v

Kinds == {"any", "string", "number", "bool", "array", "object", "date", "lowercase",
          "uppercase", "capitalize", "json", "tinyint", "smallint",
          \* these check a format, and the last two are "not blank"
          "email", "base64", "url", "datauri", "zip", "color", "guid", "uid", "phone"}

\* number: the float that a string spells; integer: an i64.
ASSUME TextsAssumption ==
    \A s \in DOMAIN Texts :
        /\ Texts[s].length \in Nat
        /\ Texts[s].formats \subseteq Kinds
        /\ {Texts[s].lower, Texts[s].upper, Texts[s].caps} \subseteq DOMAIN Texts
        /\ {Texts[s].isNumber, Texts[s].isInteger, Texts[s].isBool, Texts[s].isJson}
              \subseteq BOOLEAN

VARIABLES
    options,            \* of the action that is called
    call,               \* the request
    input,              \* what the action is called with
    outcomes            \* of the action, and of the one it forwards to

vars == <<options, call, input, outcomes>>

-----------------------------------------------------------------------------
(* Kinds of fields. *)

Within(v, low, high) ==
    \/ IsA(v, "num") /\ ~v.float /\ v.num \in low..high
    \/ IsA(v, "str") /\ Texts[v.str].isInteger /\ Texts[v.str].integer \in low..high

\* `FieldKind::matches`.
KindMatches(kind, v) ==
    CASE kind = "any" -> TRUE
      [] kind \in {"string", "lowercase", "uppercase", "capitalize"} -> IsA(v, "str")
      [] kind = "number" -> IsA(v, "num") \/ (IsA(v, "str") /\ Texts[v.str].isNumber)
      [] kind = "bool"   -> IsA(v, "bool") \/ (IsA(v, "str") /\ Texts[v.str].isBool)
      [] kind = "array"  -> IsA(v, "arr")
      [] kind = "object" -> IsA(v, "obj")
      [] kind = "date"   -> IsA(v, "str") \/ IsA(v, "num")
      [] kind = "json"   -> \/ IsA(v, "obj") \/ IsA(v, "arr")
                            \/ IsA(v, "str") /\ Texts[v.str].isJson
      [] kind = "tinyint"  -> Within(v, -128, 127)
      [] kind = "smallint" -> Within(v, -32768, 32767)
      [] OTHER -> IsA(v, "str") /\ kind \in Texts[v.str].formats

\* Mutant: integers are parsed like numbers.
TransformText_Floats(kind, s) ==
    CASE kind \in {"number", "tinyint", "smallint"} /\ Texts[s].isNumber ->
            IF Texts[s].number = NotFinite THEN Null ELSE Texts[s].number
      [] OTHER -> Str(s)

\* `FieldKind::transform` of a string.
TransformText(kind, s) ==
    CASE kind = "number" /\ Texts[s].isNumber ->
            IF Texts[s].number = NotFinite THEN Null ELSE Texts[s].number
      [] kind = "bool" /\ Texts[s].isBool -> [bool |-> Texts[s].bool]
      [] kind = "lowercase"  -> Str(Texts[s].lower)
      [] kind = "uppercase"  -> Str(Texts[s].upper)
      [] kind = "capitalize" -> Str(Texts[s].caps)
      [] kind = "json" /\ Texts[s].isJson -> Texts[s].json
      [] kind \in {"tinyint", "smallint"} /\ Texts[s].isInteger -> Int_(Texts[s].integer)
      [] OTHER -> Str(s)

Transformed(kind, v) == IF IsA(v, "str") THEN TransformText(kind, v.str) ELSE v

-----------------------------------------------------------------------------
(* Schema strings and the rules that the parser makes of them.             *)
(*                                                                         *)
(* A descriptor has one of these forms:                                    *)
(*   kind    string, string(30), string{a|b}                               *)
(*   enum    {a|b}, or {a} of a single value                               *)
(*   object  {name:descriptor,...}                                         *)
(*   items   [kind], or [] of nothing in particular (kind any)             *)
(*   rows    [name:descriptor,...]                                         *)

RECURSIVE FirstLimit(_), FirstBraces(_)

FirstKnown(values, unknown) ==
    LET known == SelectSeq(values, LAMBDA v : v # unknown)
    IN  IF known = <<>> THEN unknown ELSE Head(known)

\* The first parenthesis in the text of a descriptor.
FirstLimit(d) ==
    CASE d.form \in {"kind", "items"}  -> d.limit
      [] d.form = "enum"               -> None
      [] d.form \in {"object", "rows"} ->
            FirstKnown([i \in DOMAIN d.fields |-> FirstLimit(d.fields[i].descriptor)], None)

\* A single value has no bar behind it, and is no enumeration to the parser.
Single(values) == Cardinality(values) = 1
Barred(values) == IF Single(values) THEN {} ELSE values

\* The values in the first braces in it; those of an object are none, and the
\* search ends there.
Nothing == [found |-> FALSE, values |-> {}]
FirstBraces(d) ==
    CASE d.form \in {"kind", "items"} ->
            IF d.values = {} THEN Nothing ELSE [found |-> TRUE, values |-> Barred(d.values)]
      [] d.form = "enum"   -> [found |-> TRUE, values |-> Barred(d.values)]
      [] d.form = "object" -> [found |-> TRUE, values |-> {}]
      [] d.form = "rows"   ->
            FirstKnown([i \in DOMAIN d.fields |-> FirstBraces(d.fields[i].descriptor)], Nothing)

\* `parse_type_limit`, which looks at the whole descriptor unless it starts
\* with a brace, and `parse_enum_values`, which always does.
LimitOf(d)  == IF d.form \in {"enum", "object"} THEN None ELSE FirstLimit(d)
ValuesOf(d) == FirstBraces(d).values

\* `parse_field_kind` of what stands between brackets: the kind in front of a
\* parenthesis or a brace, and an object when there is none.
ItemKind(d) == IF d.kind = "any" /\ d.values # {} THEN "object" ELSE d.kind

RECURSIVE RulesOf(_)

\* `Validator::parse`, `parse_field_rule` and `parse_field_descriptor`.
RulesOf(fields) ==
    [i \in DOMAIN fields |->
        LET f == fields[i]
            d == f.descriptor
        IN  [name     |-> f.name,
             required |-> f.required,
             kind     |-> CASE d.form = "kind"   -> d.kind
                            [] d.form = "enum"   ->
                                  IF Single(d.values) THEN "object" ELSE "string"
                            [] d.form = "object" -> "object"
                            [] OTHER             -> "array",
             nested   |-> IF d.form = "object" THEN RulesOf(d.fields) ELSE <<>>,
             itemKind |-> IF d.form = "items" THEN ItemKind(d) ELSE "any",
             rows     |-> IF d.form = "rows" THEN RulesOf(d.fields) ELSE <<>>,
             max      |-> LimitOf(d),
             allowed  |-> ValuesOf(d)]]

\* `value_length`: what has no length has no limit.
TooLong(v, max) ==
    /\ max # None
    /\ \/ IsA(v, "str") /\ Texts[v.str].length > max
       \/ IsA(v, "arr") /\ Len(v.arr) > max
       \/ IsA(v, "obj") /\ Cardinality(DOMAIN v.obj) > max

\* Mutant: null counts as a value.
Missing_Absent(object, name) == name \notin DOMAIN object
Missing(object, name) == name \notin DOMAIN object \/ object[name] = Null

RECURSIVE Accepts(_, _)

\* `Validator::validate` and `FieldRule::validate`.
Accepts(rules, value) ==
    /\ IsA(value, "obj")
    /\ \A i \in DOMAIN rules :
          LET r == rules[i] IN
          IF Missing(value.obj, r.name) THEN ~r.required
          ELSE LET v == value.obj[r.name] IN
               /\ KindMatches(r.kind, v)
               /\ r.nested # <<>> => Accepts(r.nested, v)
               /\ IsA(v, "arr") =>
                     \A k \in DOMAIN v.arr :
                        /\ KindMatches(r.itemKind, v.arr[k])
                        /\ r.rows # <<>> => Accepts(r.rows, v.arr[k])
               /\ ~TooLong(v, r.max)
               /\ r.allowed # {} => IsA(v, "str") /\ v.str \in r.allowed

\* `Validator::transform` of what it accepts: the named fields of the object,
\* not what is in them.
Made(rules, value) ==
    [obj |-> [name \in DOMAIN value.obj |->
        LET named == {i \in DOMAIN rules : rules[i].name = name}
        IN  IF named = {} THEN value.obj[name]
            ELSE Transformed(rules[Max(named)].kind, value.obj[name])]]

-----------------------------------------------------------------------------
(* Calls. *)

Strings(f) == [name \in DOMAIN f |-> Str(f[name])]

\* Mutant: the query is merged in front of the path.
Gathered_QueryFirst(c) ==
    [obj |-> (IF IsA(c.body, "obj") THEN c.body.obj ELSE <<>>)
                @@ Strings(c.query) @@ Strings(c.params) @@ Strings(c.fields)]

\* `action_input`: a name in the body hides one of the path, that one of the
\* query, and that one of a form.
Gathered(c) ==
    [obj |-> (IF IsA(c.body, "obj") THEN c.body.obj ELSE <<>>)
                @@ Strings(c.params) @@ Strings(c.query) @@ Strings(c.fields)]

Refusal == [accepted |-> FALSE]
Holds(schema, value) == schema.given => Accepts(RulesOf(schema.fields), value)

\* `ActionOptions::prepare`; the validator of `action_with` transforms nothing.
Prepared(value) ==
    IF /\ Holds(options.params, [obj |-> Strings(call.params)])
       /\ Holds(options.query, [obj |-> Strings(call.query)])
       /\ Holds(options.input, value)
    THEN [accepted |-> TRUE,
          value |-> IF options.input.given /\ options.transforms
                    THEN Made(RulesOf(options.input.fields), value) ELSE value]
    ELSE Refusal

Init ==
    /\ options \in Options
    /\ call \in Calls
    /\ input = Gathered(call)
    /\ outcomes = <<>>

\* `Context::action_success` of a route.
Call ==
    /\ outcomes = <<>>
    /\ outcomes' = <<Prepared(input)>>
    /\ UNCHANGED <<options, call, input>>

\* `Context::action` by the action: the context is cloned, so the same path and
\* query are checked again.
Forward ==
    /\ Len(outcomes) = 1 /\ outcomes[1].accepted
    /\ outcomes' = Append(outcomes, Prepared(outcomes[1].value))
    /\ UNCHANGED <<options, call, input>>

Next == Call \/ Forward

Spec == Init /\ [][Next]_vars

-----------------------------------------------------------------------------
(* Properties. *)

RECURSIVE Meets(_, _)

\* What a schema string says: every limit and every enumeration is about the
\* kind that it is written behind.
Fits(d, v) ==
    /\ KindMatches(IF d.values # {} /\ d.kind = "any" THEN "string" ELSE d.kind, v)
    /\ ~TooLong(v, d.limit)
    /\ d.values # {} => IsA(v, "str") /\ v.str \in d.values

Meets(fields, value) ==
    /\ IsA(value, "obj")
    /\ \A i \in DOMAIN fields :
          LET f == fields[i]
              d == f.descriptor
              v == value.obj[f.name]
          IN  IF f.name \notin DOMAIN value.obj \/ value.obj[f.name] = Null THEN ~f.required
              ELSE CASE d.form = "kind"   -> Fits(d, v)
                     [] d.form = "enum"   -> IsA(v, "str") /\ v.str \in d.values
                     [] d.form = "object" -> Meets(d.fields, v)
                     [] d.form = "items"  ->
                            IsA(v, "arr") /\ \A k \in DOMAIN v.arr : Fits(d, v.arr[k])
                     [] d.form = "rows"   ->
                            IsA(v, "arr") /\ \A k \in DOMAIN v.arr : Meets(d.fields, v.arr[k])

\* A limit or an enumeration between brackets, and an enumeration of a single
\* value, at whatever depth.
Misread(d) ==
    \/ d.form \in {"items", "rows"} /\ (LimitOf(d) # None \/ ValuesOf(d) # {})
    \/ d.form \in {"kind", "enum", "items"} /\ Single(d.values)
RECURSIVE MisreadIn(_)
MisreadIn(fields) ==
    \E i \in DOMAIN fields :
        LET d == fields[i].descriptor
        IN  Misread(d) \/ (d.form \in {"object", "rows"} /\ MisreadIn(d.fields))

\* An action gets an input exactly when it is what its schema string says, but
\* for a limit or an enumeration between the brackets of an array, which the
\* parser takes for one of the array itself, and for an enumeration of a single
\* value: {a} is an object to it, and string{a} any string (`parse_type_limit`,
\* `parse_enum_values`, `parse_field_kind`).
AcceptedAsWritten ==
    outcomes # <<>> =>
        LET said == /\ ~options.params.given \/ Meets(options.params.fields,
                                                     [obj |-> Strings(call.params)])
                    /\ ~options.query.given \/ Meets(options.query.fields,
                                                    [obj |-> Strings(call.query)])
                    /\ ~options.input.given \/ Meets(options.input.fields, input)
        IN  \/ outcomes[1].accepted = said
            \/ MisreadIn(options.params.fields) \/ MisreadIn(options.query.fields)
            \/ MisreadIn(options.input.fields)

Cases == {"lowercase", "uppercase", "capitalize"}

\* Changing the case of a text has not settled when it is changed again (the
\* German sharp s gives SS, which `capitalize_words` makes Ss of the next time),
\* and may make it longer.
Settled(kind, s) == Transformed(kind, TransformText(kind, s)) = TransformText(kind, s)
Grown(kind, s, limit) == TooLong(TransformText(kind, s), limit)

\* Where the transformation leaves the schema, or goes on: text that is JSON of
\* another kind, a number that is not finite, an enumeration of something else
\* than strings or of a case that its values do not have, and a change of case
\* that does not settle or outgrows the limit.
Leaves(f, v) ==
    LET kind == f.descriptor.kind IN
    /\ f.descriptor.form = "kind" /\ IsA(v, "str")
    /\ \/ kind = "json" /\ Texts[v.str].isJson
       \/ kind = "number" /\ Texts[v.str].number = NotFinite
       \/ kind # "string" /\ f.descriptor.values # {}
       \/ kind \in Cases /\ ~Settled(kind, v.str)
       \/ kind \in Cases /\ Grown(kind, v.str, f.descriptor.limit)

\* What an action was let have, another action of the same schema is let have,
\* and gets unchanged, but where the transformation leaves the schema
\* (`FieldKind::transform`, `Context::action`).
ForwardedUnchanged ==
    Len(outcomes) = 2 =>
        \/ outcomes[2] = outcomes[1]
        \/ \E i \in DOMAIN options.input.fields :
              LET f == options.input.fields[i]
              IN  f.name \in DOMAIN input.obj /\ Leaves(f, input.obj[f.name])

\* A name of the path that the schema of the path lets through reaches the
\* action with the value that was checked, unless the body, which that schema
\* does not see, carries the name too (`action_input`, `prepare`).
CheckedPathArrives ==
    (outcomes # <<>> /\ outcomes[1].accepted /\ options.params.given) =>
        \A i \in DOMAIN options.params.fields :
            LET f == options.params.fields[i]
            IN  (f.name \in DOMAIN call.params
                    /\ ~(IsA(call.body, "obj") /\ f.name \in DOMAIN call.body.obj))
                => \/ Meets(<<f>>, [obj |-> (f.name :> input.obj[f.name])])
                   \/ MisreadIn(<<f>>)
=============================================================================
