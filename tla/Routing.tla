-------------------------------- MODULE Routing --------------------------------
(***************************************************************************)
(* The registration of routes, API endpoints and websockets (`Total::route`*)
(* `route_compat`, `group`, `websocket` of src/src/lib.rs), and whom a     *)
(* request reaches afterwards (`dispatch_inner`, `options_response`,       *)
(* `websocket_upgrade`, `match_native_path`).                              *)
(*                                                                         *)
(* A path is a sequence of words and slashes.  A word in braces is a       *)
(* parameter.  Words are compared as they are; the percent encoding of     *)
(* parameters and the flags of AUTH (module Dispatch) are left out.        *)
(***************************************************************************)
EXTENDS Naturals, SequencesExt

CONSTANTS
    RouteArgs,          \* arguments of route: [method, path]
    Compats,            \* arguments of route_compat
    Groups,             \* arguments of group; the empty path for no group
    SocketArgs,         \* arguments of websocket: [path, protocols]
    ApiDefaults,        \* values of $api
    Paths,              \* paths of requests
    Offers,             \* Sec-WebSocket-Protocol of upgrades
    Parameters,         \* words in braces with a name between them
    MaxRegistrations    \* bound on an application

Methods == {"GET", "POST", "PUT", "PATCH", "DELETE"}
NoGroup == <<>>

ASSUME ArgumentsAssumption ==
    /\ RouteArgs \subseteq [method : Methods, path : Seq(STRING)]
    /\ Compats \subseteq [api : BOOLEAN, method : Methods, path : Seq(STRING),
                          endpoint : Seq(STRING)]
    /\ Groups \subseteq Seq(STRING)
    /\ SocketArgs \subseteq [path : Seq(STRING), protocols : SUBSET STRING]
    /\ ApiDefaults \subseteq Seq(STRING) /\ Paths \subseteq Seq(STRING)
    /\ Offers \subseteq Seq(STRING)
ASSUME ParametersAssumption == "{}" \notin Parameters
ASSUME BoundAssumption == MaxRegistrations \in Nat

VARIABLES
    routes,             \* Total::routes, in the order of registration
    api,                \* Total::api_routes: the endpoints of every base
    sockets,            \* Total::websockets
    default,            \* $api
    log                 \* history: what was registered

routingVars == <<routes, api, sockets, default, log>>

-----------------------------------------------------------------------------
(* Paths. *)

Slash == "/"

\* `normalize_route_path` refuses the others.
Normal(path) == path # <<>> /\ path[1] = Slash

\* `trim_matches`, `trim_start_matches` and `trim_end_matches` of slashes.
Words(path)      == {i \in DOMAIN path : path[i] # Slash}
TrimStart(path)  == IF Words(path) = {} THEN <<>>
                    ELSE SubSeq(path, Min(Words(path)), Len(path))
TrimEnd(path)    == IF Words(path) = {} THEN <<>> ELSE SubSeq(path, 1, Max(Words(path)))
Trim(path)       == TrimEnd(TrimStart(path))

\* `split('/')` of a trimmed path; a segment is what stands between two slashes.
Broken(parts, word) ==
    IF word = Slash THEN Append(parts, <<>>)
    ELSE [parts EXCEPT ![Len(parts)] = Append(@, word)]
Split(text) ==
    LET parts[n \in 0..Len(text)] ==
            IF n = 0 THEN << <<>> >> ELSE Broken(parts[n - 1], text[n])
    IN  parts
Segments(path) == IF Trim(path) = <<>> THEN <<>> ELSE Split(Trim(path))[Len(Trim(path))]

PathsEqual(p, q) == Trim(p) = Trim(q)

\* `match_native_path`: braces without a name match nothing.
Matches(pattern, path) ==
    LET expected == Segments(pattern)
        actual   == Segments(path)
    IN  /\ Len(expected) = Len(actual)
        /\ \A i \in DOMAIN expected :
              \/ expected[i] \in {<<p>> : p \in Parameters}
              \/ expected[i] = actual[i] /\ expected[i] # <<"{}">>

\* `resolve_api_base`: the question mark stands for $api, and slashes are
\* single afterwards.
Resolved(base) ==
    IF "?" \notin ToSet(base) THEN base
    ELSE FoldLeft(LAMBDA path, word :
                      IF word = Slash /\ path # <<>> /\ Last(path) = Slash THEN path
                      ELSE Append(path, word),
                  <<>>,
                  FoldLeft(LAMBDA path, word : path \o (IF word = "?" THEN default ELSE <<word>>),
                           <<>>, base))

\* `normalize_route_prefix`.
GroupPrefix(prefix) == IF prefix = <<Slash>> THEN prefix ELSE TrimEnd(prefix)

\* Mutant: the path is appended as it is.
Joined_Plain(prefix, path) ==
    IF prefix \in {<<Slash>>, <<>>} THEN path ELSE prefix \o Tail(path)

\* `join_route_paths`.
Joined(prefix, path) ==
    IF prefix \in {<<Slash>>, <<>>} THEN path
    ELSE IF path = <<Slash>> THEN Append(prefix, Slash)
    ELSE Append(TrimEnd(prefix), Slash) \o TrimStart(path)

\* `CompatRoute::parse`: the name of an endpoint, and its parameters with the
\* places their values have; an empty segment has a place and no parameter.
NameOf(endpoint)   == endpoint[1]
ParamsOf(endpoint) == {i \in 2..Len(endpoint) : endpoint[i] \notin {"", "{}"}}

-----------------------------------------------------------------------------
(* Registration. *)

\* The prefix of a route is its group, that of an endpoint the base it got.
Log(kind, prefix, what) ==
    /\ Len(log) < MaxRegistrations
    /\ log' = Append(log, [kind |-> kind, prefix |-> prefix, what |-> what])

RoutingInit ==
    /\ routes = <<>> /\ sockets = <<>>
    /\ api = <<>>
    /\ default \in ApiDefaults
    /\ log = <<>>

\* `add_route_with_auth`, in a group or not; what it refuses leaves no trace.
AddRoute(prefix, method, path) ==
    /\ prefix # NoGroup => Normal(prefix)
    /\ Normal(path)
    /\ routes' = Append(routes, [method |-> method,
                                 path |-> Joined(GroupPrefix(prefix), path),
                                 id |-> Len(log) + 1])

Route(prefix, r) ==
    /\ AddRoute(prefix, r.method, r.path)
    /\ Log("route", prefix, r)
    /\ UNCHANGED <<api, sockets, default>>

\* Mutant: the endpoint replaces those of its base.
WithEndpoint_Alone(base, name, endpoint) ==
    [b \in DOMAIN api \cup {base} |-> IF b = base THEN [n \in {name} |-> endpoint] ELSE api[b]]

\* `entry(base).or_default().insert(name, ..)`.
WithEndpoint(base, name, endpoint) ==
    LET others == IF base \in DOMAIN api THEN api[base] ELSE <<>>
        these  == [n \in DOMAIN others \cup {name} |-> IF n = name THEN endpoint ELSE others[n]]
    IN  [b \in DOMAIN api \cup {base} |-> IF b = base THEN these ELSE api[b]]

\* `Total::route_compat` of an API expression.
Endpoint(c) ==
    /\ c.api /\ Normal(Resolved(c.path))
    /\ api' = WithEndpoint(Resolved(c.path), NameOf(c.endpoint),
                           [id |-> Len(log) + 1, params |-> ParamsOf(c.endpoint)])
    /\ Log("endpoint", Resolved(c.path), c)
    /\ UNCHANGED <<routes, sockets, default>>

\* `Total::route_compat` of another, and `RouteGroup::route_compat` of any: a
\* group makes an API expression a POST route like others.
Compat(prefix, c) ==
    /\ c.api => prefix # NoGroup
    /\ AddRoute(prefix, IF c.api THEN "POST" ELSE c.method, c.path)
    /\ Log("route", prefix, [method |-> IF c.api THEN "POST" ELSE c.method, path |-> c.path])
    /\ UNCHANGED <<api, sockets, default>>

Socket(s) ==
    /\ Normal(s.path)
    /\ sockets' = Append(sockets, s)
    /\ Log("socket", NoGroup, s)
    /\ UNCHANGED <<routes, api, default>>

\* The configuration is loaded, or changed, between two registrations.
SetApi(d) ==
    /\ default' = d
    /\ UNCHANGED <<routes, api, sockets, log>>

RoutingNext ==
    \/ \E p \in Groups, r \in RouteArgs : Route(p, r)
    \/ \E c \in Compats : Endpoint(c)
    \/ \E p \in Groups, c \in Compats : Compat(p, c)
    \/ \E s \in SocketArgs : Socket(s)
    \/ \E d \in ApiDefaults : SetApi(d)

RoutingSpec == RoutingInit /\ [][RoutingNext]_routingVars

-----------------------------------------------------------------------------
(* Whom a request reaches. *)

\* The first element of a sequence that passes a test, zero for none.
FirstOf(places) == IF places = {} THEN 0 ELSE Min(places)

\* `dispatch_inner` looks through a HashMap: of several bases that are equal as
\* paths, any may come first.
BasesAt(path) == {base \in DOMAIN api : PathsEqual(base, path)}

\* The first route that fits; HEAD is served by GET.
RouteAt(method, path) ==
    FirstOf({i \in DOMAIN routes :
                /\ routes[i].method = (IF method = "HEAD" THEN "GET" ELSE method)
                /\ Matches(routes[i].path, path)})

SocketAt(path) == FirstOf({i \in DOMAIN sockets : Matches(sockets[i].path, path)})

\* What `dispatch_inner` finds for anything but OPTIONS: it takes an upgrade
\* (`is_websocket_upgrade`, always a GET) first, then POST to a base of the API,
\* and then the routes.
Reached(upgrade, method, path) ==
    IF upgrade THEN [kind |-> "socket", at |-> SocketAt(path)]
    ELSE IF method = "POST" /\ BasesAt(path) # {} THEN [kind |-> "api", at |-> 0]
    ELSE [kind |-> "route", at |-> RouteAt(method, path)]

\* `options_response`.
AllowedMethods(path) ==
    LET methods == {routes[i].method : i \in {j \in DOMAIN routes : Matches(routes[j].path, path)}}
    IN  methods \cup (IF "GET" \in methods THEN {"HEAD"} ELSE {})
                \cup (IF BasesAt(path) = {} THEN {} ELSE {"POST"})

\* `websocket_upgrade`: of the client's subprotocols the first that the socket
\* speaks; a socket that has some refuses a client that speaks none of them.
Subprotocol(socket, offer) ==
    FirstOf({i \in DOMAIN offer : offer[i] \in socket.protocols})
Upgrades(path, offer) ==
    /\ Reached(TRUE, "GET", path).at # 0
    /\ LET s == sockets[Reached(TRUE, "GET", path).at]
       IN  s.protocols # {} => Subprotocol(s, offer) # 0

-----------------------------------------------------------------------------
(* Properties. *)

\* What registration i of a route asks for: the requests whose segments are
\* those of its group followed by its own.
Asks(i, method, path) ==
    /\ log[i].kind = "route" /\ log[i].what.method = method
    /\ LET wanted == Segments(log[i].prefix) \o Segments(log[i].what.path)
           actual == Segments(path)
       IN  /\ Len(wanted) = Len(actual)
           /\ \A k \in DOMAIN wanted :
                 /\ wanted[k] # <<"{}">>
                 /\ wanted[k] = actual[k] \/ wanted[k] \in {<<p>> : p \in Parameters}

\* Registration i has put an endpoint at a base that is this path.
BaseOf(i, path) == log[i].kind = "endpoint" /\ PathsEqual(log[i].prefix, path)

\* A request that is no upgrade reaches the first registration of a route that
\* asks for it, in whatever way slashes were written in the group, in the path
\* and in the request (`join_route_paths`, `match_native_path`), except that a
\* base of the API takes POST from every route, registered before it or after;
\* and OPTIONS lists the methods that reach one of the two (`dispatch_inner`,
\* `options_response`).
ServedAsRegistered ==
    \A path \in Paths :
        /\ \A method \in Methods :
              LET askers  == {i \in DOMAIN log : Asks(i, method, path)}
                  reached == Reached(FALSE, method, path)
              IN  IF method = "POST" /\ \E i \in DOMAIN log : BaseOf(i, path)
                  THEN reached.kind = "api"
                  ELSE /\ reached.kind = "route"
                       /\ IF askers = {} THEN reached.at = 0
                          ELSE reached.at # 0 /\ routes[reached.at].id = Min(askers)
        /\ AllowedMethods(path) =
              {m \in Methods \cup {"HEAD"} :
                  Reached(FALSE, m, path).kind = "api" \/ Reached(FALSE, m, path).at # 0}

\* An endpoint replaces that of its name at its base.
LatestEndpoint(i) ==
    /\ log[i].kind = "endpoint"
    /\ \A j \in i + 1..Len(log) :
          ~ /\ log[j].kind = "endpoint" /\ log[j].prefix = log[i].prefix
            /\ log[j].what.endpoint[1] = log[i].what.endpoint[1]

\* What a name may stand for at a path, one entry for each base that may come
\* first; no endpoint is the one with id 0.
EndpointsFor(path, name) ==
    {IF name \in DOMAIN api[base] THEN api[base][name] ELSE [id |-> 0] : base \in BasesAt(path)}

\* The latest endpoint of a name at a base is what the name stands for at every
\* spelling of that base, unless another base is the same path spelled
\* otherwise: the map keeps the two apart and the dispatcher looks into one of
\* them.  An upgrade finds its websocket unless an earlier one takes its path,
\* which a client learns by a refusal of its subprotocols (`route_compat`,
\* `dispatch_inner`, `websocket_upgrade`).
HiddenByTwinOnly ==
    /\ \A i \in DOMAIN log, path \in Paths :
          (LatestEndpoint(i) /\ BaseOf(i, path)) =>
              \/ EndpointsFor(path, NameOf(log[i].what.endpoint)) =
                    {[id |-> i, params |-> ParamsOf(log[i].what.endpoint)]}
              \/ \E j \in DOMAIN log : BaseOf(j, path) /\ log[j].prefix # log[i].prefix
    /\ \A i \in DOMAIN sockets, path \in Paths, offer \in Offers :
          (Matches(sockets[i].path, path) /\ ToSet(offer) \cap sockets[i].protocols # {}) =>
              \/ Upgrades(path, offer)
              \/ \E j \in 1..i - 1 : Matches(sockets[j].path, path)
=============================================================================
