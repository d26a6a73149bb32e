------------------------------- MODULE MCRouting -------------------------------
(* Instances of Routing for TLC. *)
EXTENDS Routing

Root == <<"/">>
A    == <<"/", "a">>
AS   == <<"/", "a", "/">>
AB   == <<"/", "a", "/", "b">>
AP   == <<"/", "a", "/", "{id}">>
P    == <<"/", "{id}", "/">>
BB   == <<"/", "b", "/", "/", "b">>
Bare == <<"a">>

AllRoutes ==
    {[method |-> "GET", path |-> p] : p \in {Root, A, AP, P, BB, Bare}}
        \cup {[method |-> "POST", path |-> AS], [method |-> "GET", path |-> <<"/", "{}">>]}
Api(path, endpoint) ==
    [api |-> TRUE, method |-> "POST", path |-> path, endpoint |-> endpoint]
AllCompats ==
    {Api(AS, <<"read", "{id}">>), Api(A, <<"list">>), Api(AS, <<"list">>), Api(<<"?">>, <<"read", "", "{id}">>),
     Api(<<"/", "?", "b">>, <<"list">>),
     [api |-> FALSE, method |-> "DELETE", path |-> AP, endpoint |-> <<>>]}
AllGroups == {NoGroup, Root, A, <<"/", "b", "/", "/">>}
AllSockets ==
    {[path |-> A, protocols |-> {}], [path |-> P, protocols |-> {"chat"}],
     [path |-> Bare, protocols |-> {}]}
AllDefaults == {AS, <<"/", "b", "/">>, Bare}
AllPaths ==
    {Root, A, AS, AB, <<"/", "/", "a", "/", "/">>, <<"/", "b", "/", "b">>, BB,
     <<"/", "b", "/", "a">>, <<"/", "a", "/", "b", "/", "b">>}
AllOffers == {<<>>, <<"other", "chat">>}
AllParameters == {"{id}"}
=============================================================================
