------------------------------ MODULE MCResponse ------------------------------
(* Instances of Response for TLC. *)
EXTENDS Response

Asks(form, first, last) == [form |-> form, first |-> first, last |-> last]
NoRange == Asks("none", Absent, Absent)
Parts   == {Absent, NotNumber, 0, 1, 2, 5}
Ranges  == {NoRange, Asks("units", 0, 0), Asks("malformed", 0, 0)}
             \cup {Asks("span", f, l) : f \in Parts, l \in Parts}

Here  == <<"app", "example">>
There == <<"other">>

Request(m, r, z, o) == [method |-> m, range |-> r, gzip |-> z, origin |-> o]
AllRequests ==
    {Request(m, r, z, NoOrigin) : m \in {"GET", "HEAD"}, r \in Ranges, z \in {TRUE}}
        \cup {Request(m, NoRange, z, o) :
                m \in {"GET", "HEAD", "OPTIONS"}, z \in BOOLEAN, o \in {NoOrigin, Here, There}}

Resource(status, size, text, ranges, encoded, length, vary) ==
    [status |-> status, size |-> size, text |-> text, ranges |-> ranges,
     encoded |-> encoded, length |-> length, vary |-> vary]
\* The handler says nothing of the length of its body, says it right or wrong.
AllResources ==
    {Resource(200, n, t, r, FALSE, l, {}) :
        n \in {0, 1, 3, 4}, t \in BOOLEAN, r \in BOOLEAN, l \in {Absent, 0, 1, 3, 4}}
        \cup {Resource(200, 4, TRUE, FALSE, TRUE, 4, {"Accept-Encoding"}),
              Resource(200, 4, TRUE, FALSE, FALSE, 4, {"Origin"}),
              Resource(404, 4, TRUE, FALSE, FALSE, Absent, {}),
              Resource(404, 4, TRUE, TRUE, FALSE, Absent, {}),
              Resource(204, 0, FALSE, FALSE, FALSE, Absent, {}),
              Resource(204, 1, TRUE, FALSE, FALSE, Absent, {}),
              Resource(103, 0, FALSE, FALSE, FALSE, Absent, {}),
              Resource(103, 1, TRUE, FALSE, FALSE, Absent, {})}

Entry(s, l) == [suffix |-> s, labels |-> l]
CorsForms ==
    {[form |-> "none", entries |-> {}], [form |-> "star", entries |-> {}],
     [form |-> "list", entries |-> {}],
     [form |-> "list", entries |-> {Entry(FALSE, Here)}],
     [form |-> "list", entries |-> {Entry(TRUE, <<"example">>)}],
     [form |-> "list", entries |-> {Entry(FALSE, There), Entry(TRUE, <<>>)}]}
AllConfigs == {[compress |-> z, cors |-> c] : z \in BOOLEAN, c \in CorsForms}
=============================================================================
