--------------------------- MODULE MCRequestReader ---------------------------
(* Instances of RequestReader for TLC. *)
EXTENDS RequestReader

SizeUnits   == [s0 |-> 0, s1 |-> 1, s2 |-> 2, s9 |-> 9]
LengthUnits == [l0 |-> 0, l2 |-> 2, l9 |-> 9]

Head1(h) == <<"request", "n", h, "n", "n">>
Get      == <<"request", "n", "n">>
Tricky   == <<"n", "request">>

Simple ==
    {Get, Head1("field"), Head1("gzip"), Head1("badlength"), Head1("malformed"),
     Head1("l0"), Head1("l9"), Head1("l2") \o <<"data", "data">>, Head1("l2") \o Tricky,
     <<"nonsense", "n", "n">>, <<"n", "n">>, <<"field", "field", "field">>,
     <<"request", "n", "l2", "n", "chunked", "n", "n">>,
     <<"request", "n", "field", "n", "field", "n", "field", "n", "n">>}

Chunks ==
    {<<"s0", "n">>, <<"s9", "n">>, <<"ext", "n">>,
     <<"s1", "n", "n", "n">>, <<"s1", "ext", "n", "data", "n">>, <<"s1", "n", "data", "data">>,
     <<"s2", "n">> \o Tricky \o <<"n">>,
     <<"s1", "ext", "ext", "ext", "ext", "ext", "ext", "ext", "ext", "n", "data", "n">>}
Trailers ==
    {<<"n">>, <<"field", "n", "n">>, <<"malformed", "n", "n">>,
     <<"field", "n", "field", "n", "field", "n", "field", "n", "n">>,
     <<"field", "field", "field", "field", "field", "field", "field", "field", "n">>}
Chunked ==
    {Head1("chunked") \o x \o y : x \in Chunks, y \in Chunks}
        \cup {Head1("chunked") \o <<"s1", "n", "data", "n", "s0", "n">> \o t : t \in Trailers}
        \cup {Head1("chunked") \o x \o y \o <<"s0", "n", "n">> :
                x \in {<<"s1", "n", "data", "n">>, <<"s2", "n", "data", "data", "n">>},
                y \in {<<>>, <<"s2", "ext", "n", "n", "n", "n">>}}

Firsts ==
    {Get, Head1("field"), Head1("l2") \o Tricky,
     Head1("chunked") \o <<"s2", "n">> \o Tricky \o <<"n", "s0", "n", "n">>}
AllStreams == Simple \cup Chunked \cup {x \o y : x \in Firsts, y \in Simple \cup Chunked}
                \cup {x \o y \o z : x \in Firsts, y \in Simple, z \in {Get}}
=============================================================================
