------------------------------- MODULE MCActions -------------------------------
(* Instances of Actions for TLC. *)
EXTENDS Actions

\* Plain text, which is all that most strings are.
Plain(s, length, lower, upper, caps) ==
    [length |-> length, lower |-> lower, upper |-> upper, caps |-> caps,
     formats |-> {"uid", "phone", "color"},
     isNumber |-> FALSE, number |-> Float(0), isInteger |-> FALSE, integer |-> 0,
     isBool |-> FALSE, bool |-> FALSE, isJson |-> FALSE, json |-> Null]
Same(s, length) == Plain(s, length, s, s, s)
Numeral(s, length, n) ==
    [Same(s, length) EXCEPT !.isNumber = TRUE, !.number = Float(n), !.isInteger = TRUE,
                            !.integer = n, !.isJson = TRUE, !.json = Int_(n)]

AllTexts ==
    [s \in {"a", "A", "long", "Long", "LONG", "sharp", "SSa", "ssa", "Ssa", "SSA", "", "1", "200", "NaN", "nan", "NAN", "Nan",
            "true", "{}", "a@b.c"} |->
        CASE s \in {"a", "A"} -> Plain(s, 1, "a", "A", "A")
          [] s \in {"long", "Long", "LONG"} -> Plain(s, 4, "long", "LONG", "Long")
          \* a sharp s and an a; a capital one is SS
          [] s = "sharp" -> Plain(s, 2, s, "SSA", "SSa")
          [] s \in {"SSa", "ssa", "Ssa", "SSA"} -> Plain(s, 3, "ssa", "SSA", "Ssa")
          [] s = ""     -> [Same(s, 0) EXCEPT !.formats = {}]
          [] s = "1"    -> [Numeral(s, 1, 1) EXCEPT !.isBool = TRUE, !.bool = TRUE]
          [] s = "200"  -> Numeral(s, 3, 200)
          [] s \in {"NaN", "nan", "NAN", "Nan"} ->
                [Plain(s, 3, "nan", "NAN", "Nan")
                    EXCEPT !.isNumber = TRUE, !.number = NotFinite]
          [] s = "true" -> [Same(s, 4) EXCEPT !.isBool = TRUE, !.bool = TRUE,
                                              !.isJson = TRUE, !.json = [bool |-> TRUE]]
          [] s = "{}"   -> [Same(s, 2) EXCEPT !.isJson = TRUE, !.json = [obj |-> <<>>]]
          [] s = "a@b.c" -> [Same(s, 5) EXCEPT !.formats = @ \cup {"email"}]]

Kind(k, limit, values) == [form |-> "kind", kind |-> k, limit |-> limit, values |-> values]
Items(k, limit, values) == [form |-> "items", kind |-> k, limit |-> limit, values |-> values]
Field(name, required, d) == [name |-> name, required |-> required, descriptor |-> d]
AB == {"a", "b"}

Leaf ==
    {Kind(k, None, {}) : k \in Kinds} \cup
    {Kind("string", 1, {}), Kind("string", None, AB), Kind("number", None, {"1", "200"}),
     Kind("lowercase", None, AB), Kind("array", 1, {}),
     Kind("capitalize", 2, {}), Kind("uppercase", 2, {}), Kind("string", None, {"a"}),
     [form |-> "enum", values |-> {"a"}], [form |-> "enum", values |-> AB]}
Composed ==
    {[form |-> "object", fields |-> <<Field("x", TRUE, d)>>] :
        d \in {Kind("string", 1, {}), [form |-> "enum", values |-> AB]}}
    \cup {Items("string", None, {}), Items("any", None, {}), Items("number", 1, {}),
          Items("any", None, AB)}
    \cup {[form |-> "rows", fields |-> <<Field("x", TRUE, d)>>] :
        d \in {Kind("string", None, {}), Kind("string", 1, {}), [form |-> "enum", values |-> AB]}}
    \cup {[form |-> "rows", fields |-> <<Field("y", FALSE, Kind("number", None, {})),
            Field("x", FALSE, [form |-> "object",
                               fields |-> <<Field("z", TRUE, Kind("string", 1, {}))>>])>>]}

NoSchema == [given |-> FALSE, fields |-> <<>>]
Schema(fields) == [given |-> TRUE, fields |-> fields]
Id == Field("id", TRUE, Kind("number", None, {}))
Page == Field("page", FALSE, Kind("tinyint", None, {}))

Option(p, q, i, t) == [params |-> p, query |-> q, input |-> i, transforms |-> t]
AllOptions ==
    {Option(NoSchema, NoSchema, Schema(<<Field("v", r, d)>>), t) :
        r \in BOOLEAN, d \in Leaf \cup Composed, t \in BOOLEAN}
        \cup {Option(Schema(<<Id>>), q, i, TRUE) :
                q \in {NoSchema, Schema(<<Page>>)},
                i \in {NoSchema, Schema(<<Id, Page>>), Schema(<<Field("v", TRUE, Kind("any", None, {}))>>)}}

X(v) == [obj |-> ("x" :> v)]
AllValues ==
    {Null, [bool |-> TRUE], Int_(1), Int_(200), Float(1), [obj |-> <<>>], X(Str("a")), X(Str("long")),
     X([obj |-> ("z" :> Str("a"))])}
        \cup {Str(s) : s \in DOMAIN AllTexts}
        \cup {[arr |-> a] : a \in {<<>>, <<Str("a")>>, <<Str("a"), Str("long")>>, <<Int_(1), Str("1")>>,
                                   <<X(Str("a"))>>, <<X(Str("long")), X(Str("a"))>>,
                                   <<X([obj |-> ("z" :> Str("a"))]), [obj |-> ("y" :> Str("1"))]>>}}

A(p, q, f, b) == [params |-> p, query |-> q, fields |-> f, body |-> b]
AllCalls ==
    {A(<<>>, <<>>, <<>>, [obj |-> ("v" :> v)]) : v \in AllValues}
        \cup {A(<<>>, <<>>, <<>>, Null)}
        \cup {A(p, q, f, b) :
                p \in {<<>>, "id" :> "1", "id" :> "a"},
                q \in {<<>>, "id" :> "a", ("page" :> "200"), ("page" :> "1") @@ ("id" :> "200")},
                f \in {<<>>, "page" :> "a", "v" :> "a"},
                b \in {[arr |-> <<>>], [obj |-> ("id" :> Str("a"))], [obj |-> ("page" :> Null)]}}
=============================================================================
