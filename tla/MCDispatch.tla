----------------------------- MODULE MCDispatch -----------------------------
(* Instances of Dispatch for TLC. *)
EXTENDS Dispatch, TLC

CONSTANTS d1, d2, i1, i2, bad

Symmetry == Permutations({d1, d2})

Plain == [ip |-> i1, method |-> "GET", path |-> "none", endpoint |-> "none",
          upgrade |-> FALSE, wellFormed |-> TRUE]
Get(path)  == [Plain EXCEPT !.path = path]
Post(path) == [Plain EXCEPT !.path = path, !.method = "POST"]
Call(name) == [Post("api") EXCEPT !.endpoint = name]
Open(path) == [Get(path) EXCEPT !.upgrade = TRUE]

AllRequests ==
    {[Get("r") EXCEPT !.ip = bad], [Get("r") EXCEPT !.ip = i2, !.method = "HEAD"],
     Get("m"), Get("x"), Post("g"), Post("x"), [Post("g") EXCEPT !.wellFormed = FALSE],
     Call("a"), Call("m"), Call("g"), Call("x"), Open("w"), Open("x"),
     [Plain EXCEPT !.path = "r", !.method = "OPTIONS"]}

AllRoutes ==
    <<[method |-> "GET", paths |-> {"r"}, auth |-> "any"],
      [method |-> "GET", paths |-> {"m"}, auth |-> "member"],
      [method |-> "POST", paths |-> {"g", "r"}, auth |-> "guest"],
      [method |-> "GET", paths |-> {"m", "r"}, auth |-> "any"]>>
AllSockets   == <<[paths |-> {"w"}, auth |-> "member"], [paths |-> {"w", "v"}, auth |-> "any"]>>
AllEndpoints == [a |-> "any", m |-> "member", g |-> "guest"]
=============================================================================
