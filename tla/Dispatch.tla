------------------------------ MODULE Dispatch ------------------------------
(***************************************************************************)
(* `NativeDispatcher::dispatch` of src/src/lib.rs with the counters and    *)
(* the limiter of src/src/statistics.rs: requests that run through AUTH,   *)
(* middleware and handlers side by side, and may be dropped at any await   *)
(* by the deadline of the connection loop.                                 *)
(*                                                                         *)
(* The counters are relaxed atomics and commute; each action takes a       *)
(* dispatch from one await to the next.                                    *)
(***************************************************************************)
EXTENDS Naturals, FiniteSets, SequencesExt

CONSTANTS
    Dispatches,             \* dispatches that may be under way at once
    Replies,                \* how AUTH, middleware and handlers may answer
    Requests,               \* what clients may ask for
    Ips, Blacklist,         \* addresses, and those refused
    Limit, Window,          \* $httpreqlimit, and 60 seconds
    HasAuth, Middlewares,   \* is there an AUTH handler; how many middlewares
    Routes, Sockets,        \* in the order they were registered
    ApiPaths, Endpoints,    \* API paths, and the AUTH flag of each endpoint
    MaxRequests, MaxTime    \* bounds

Flags == {"any", "member", "guest"}

ASSUME DispatchesAssumption == IsFiniteSet(Dispatches)
ASSUME RequestsAssumption ==
    \A r \in Requests :
        /\ r.ip \in Ips
        /\ r.method \in {"GET", "HEAD", "POST", "OPTIONS"}
        /\ {r.upgrade, r.wellFormed} \subseteq BOOLEAN
        /\ r.upgrade => r.method = "GET"
        /\ {"path", "endpoint"} \subseteq DOMAIN r
ASSUME RepliesAssumption == Replies \subseteq {"2xx", "3xx", "4xx", "5xx"}
ASSUME LimitsAssumption == Limit \in Nat /\ Window \in Nat \ {0} /\ Middlewares \in Nat
ASSUME AuthAssumption ==
    /\ HasAuth \in BOOLEAN
    /\ Len(Routes) \in Nat /\ Len(Sockets) \in Nat
    /\ \A i \in 1..Len(Routes) : Routes[i].auth \in Flags
    /\ \A i \in 1..Len(Sockets) : Sockets[i].auth \in {"any", "member"}
    /\ \A e \in DOMAIN Endpoints : Endpoints[e] \in Flags
ASSUME BoundsAssumption == MaxRequests \in Nat /\ MaxTime \in Nat

VARIABLES
    now,
    stats,                  \* the counters
    limits,                 \* the window of each address
    phase,                  \* the await each dispatch stands at
    request,                \* what it serves
    target,                 \* the route, API endpoint or websocket it found
    passed,                 \* middlewares it has passed
    user,                   \* is a user set in its context
    byAuth,                 \* history: was one set by AUTH
    uncounted,              \* history: ended in no class of responses
    admitted, refused       \* history: requests the limiter let pass or not

taskVars == <<phase, request, target, passed, user, byAuth>>
vars == <<now, stats, limits, taskVars, uncounted, admitted, refused>>

Counters == {"requests", "pending", "blocked", "throttled", "2xx", "4xx", "5xx"}
Phases   == {"idle", "routing", "auth", "middleware", "handler", "upgrade", "static"}

None   == [kind |-> "none"]
Target == [kind : {"route", "api", "socket"}, auth : Flags \cup {"unknown"}] \cup {None}
Entry  == [ip : Ips, at : 0..MaxTime, serial : 1..MaxRequests]

TypeOK ==
    /\ now \in 0..MaxTime
    /\ stats \in [Counters -> 0..MaxRequests]
    /\ DOMAIN limits \subseteq Ips
    /\ \A ip \in DOMAIN limits : limits[ip] \in [start : 0..now, count : 1..MaxRequests]
    /\ phase \in [Dispatches -> Phases]
    /\ request \in [Dispatches -> Requests \cup {None}]
    /\ target \in [Dispatches -> Target]
    /\ passed \in [Dispatches -> 0..Middlewares]
    /\ user \in [Dispatches -> BOOLEAN] /\ byAuth \in [Dispatches -> BOOLEAN]
    /\ uncounted \in 0..MaxRequests
    /\ admitted \subseteq Entry /\ refused \subseteq Entry

Init ==
    /\ now = 0
    /\ stats = [c \in Counters |-> 0]
    /\ limits = <<>>
    /\ phase = [d \in Dispatches |-> "idle"]
    /\ request = [d \in Dispatches |-> None]
    /\ target = [d \in Dispatches |-> None]
    /\ passed = [d \in Dispatches |-> 0]
    /\ user = [d \in Dispatches |-> FALSE] /\ byAuth = [d \in Dispatches |-> FALSE]
    /\ uncounted = 0
    /\ admitted = {} /\ refused = {}

-----------------------------------------------------------------------------
(* The limiter: a window per address, from its first request. *)

Live == [ip \in {i \in DOMAIN limits : now - limits[i].start < Window} |-> limits[ip]]

Opened(ip) ==
    IF ip \in DOMAIN Live /\ now - Live[ip].start < Window
    THEN [Live[ip] EXCEPT !.count = @ + 1]
    ELSE [start |-> now, count |-> 1]

\* Mutant: looks at the count before it counts this request.
Exceeded_Before(ip) == Limit > 0 /\ Opened(ip).count - 1 > Limit

\* Mutant: the request that reaches the limit is refused.
Exceeded_AtLimit(ip) == Limit > 0 /\ Opened(ip).count >= Limit

Exceeded(ip) == Limit > 0 /\ Opened(ip).count > Limit

Count(ip) ==
    limits' = IF Limit = 0 THEN limits
              ELSE [i \in DOMAIN Live \cup {ip} |-> IF i = ip THEN Opened(ip) ELSE Live[i]]

-----------------------------------------------------------------------------
(* The way of a request. *)

Bump(counters) ==
    stats' = [c \in Counters |-> IF c \in counters THEN stats[c] + 1 ELSE stats[c]]

Asked(ip) == [ip |-> ip, at |-> now, serial |-> stats["requests"] + 1]

CanStart(d) == phase[d] = "idle" /\ stats["requests"] < MaxRequests

\* Mutant: the guard is made before the blacklist is looked at, and uncounts
\* what was not counted.
Block_Guarded(d, r) ==
    /\ CanStart(d)
    /\ r.ip \in Blacklist
    /\ stats' = [c \in Counters |-> CASE c \in {"requests", "blocked", "4xx"} -> stats[c] + 1
                                      [] c = "pending" -> stats[c] - 1
                                      [] OTHER -> stats[c]]
    /\ UNCHANGED <<now, limits, taskVars, uncounted, admitted, refused>>

Block(d, r) ==
    /\ CanStart(d)
    /\ r.ip \in Blacklist
    /\ Bump({"requests", "blocked", "4xx"})
    /\ UNCHANGED <<now, limits, taskVars, uncounted, admitted, refused>>

\* Mutant: a throttled request is no response.
Throttle_NoClass(d, r) ==
    /\ CanStart(d)
    /\ r.ip \notin Blacklist /\ Exceeded(r.ip)
    /\ Count(r.ip)
    /\ Bump({"requests", "throttled"})
    /\ refused' = refused \cup {Asked(r.ip)}
    /\ UNCHANGED <<now, taskVars, uncounted, admitted>>

Throttle(d, r) ==
    /\ CanStart(d)
    /\ r.ip \notin Blacklist /\ Exceeded(r.ip)
    /\ Count(r.ip)
    /\ Bump({"requests", "throttled", "4xx"})
    /\ refused' = refused \cup {Asked(r.ip)}
    /\ UNCHANGED <<now, taskVars, uncounted, admitted>>

Admit(d, r) ==
    /\ CanStart(d)
    /\ r.ip \notin Blacklist /\ ~Exceeded(r.ip)
    /\ Count(r.ip)
    /\ Bump({"requests", "pending"})
    /\ admitted' = admitted \cup {Asked(r.ip)}
    /\ phase' = [phase EXCEPT ![d] = "routing"]
    /\ request' = [request EXCEPT ![d] = r]
    /\ UNCHANGED <<now, target, passed, user, byAuth, uncounted, refused>>

\* The dispatch is over: its guard uncounts it, whatever the way it ends.
Leave(d) ==
    /\ phase' = [phase EXCEPT ![d] = "idle"]
    /\ request' = [request EXCEPT ![d] = None]
    /\ target' = [target EXCEPT ![d] = None]
    /\ passed' = [passed EXCEPT ![d] = 0]
    /\ user' = [user EXCEPT ![d] = FALSE]
    /\ byAuth' = [byAuth EXCEPT ![d] = FALSE]
    /\ UNCHANGED <<now, limits, admitted, refused>>

Answer(d, class) ==
    /\ Leave(d)
    /\ stats' = [c \in Counters |->
                    CASE c = "pending" -> stats[c] - 1
                      [] c = class     -> stats[c] + 1
                      [] OTHER         -> stats[c]]
    /\ uncounted' = IF class \in Counters THEN uncounted ELSE uncounted + 1

\* Mutant: the guard is not there, and the count falls with the response only.
Vanish_KeepsPending(d) ==
    /\ Leave(d)
    /\ uncounted' = uncounted + 1
    /\ UNCHANGED stats

Vanish(d) ==
    /\ Leave(d)
    /\ stats' = [stats EXCEPT !["pending"] = @ - 1]
    /\ uncounted' = uncounted + 1

Goto(d, where) ==
    /\ phase' = [phase EXCEPT ![d] = where]
    /\ UNCHANGED <<now, stats, limits, request, uncounted, admitted, refused>>

-----------------------------------------------------------------------------
(* Routing: the first of the websockets, the API or the routes that fits. *)

\* HEAD is served by the routes of GET.
RouteMethod(r) == IF r.method = "HEAD" THEN "GET" ELSE r.method

SocketOf(r) == SelectInSeq(Sockets, LAMBDA s : r.path \in s.paths)
RouteOf(r)  == SelectInSeq(Routes, LAMBDA x : x.method = RouteMethod(r) /\ r.path \in x.paths)
IsApi(r)    == r.method = "POST" /\ r.path \in ApiPaths

Allowed(r) == (\E i \in 1..Len(Routes) : r.path \in Routes[i].paths) \/ r.path \in ApiPaths

Found(r) ==
    CASE r.upgrade -> [kind |-> "socket", auth |-> Sockets[SocketOf(r)].auth]
      [] IsApi(r)  -> [kind |-> "api",
                       auth |-> IF r.endpoint \in DOMAIN Endpoints
                                THEN Endpoints[r.endpoint] ELSE "unknown"]
      [] OTHER     -> [kind |-> "route", auth |-> Routes[RouteOf(r)].auth]

HasTarget(r) ==
    IF r.upgrade THEN SocketOf(r) # 0
    ELSE r.method # "OPTIONS" /\ (IsApi(r) \/ RouteOf(r) # 0)

\* The handshake of a websocket, or the length and the parts of a body, are
\* looked at before AUTH.
Select(d) ==
    LET r == request[d]
    IN  /\ phase[d] = "routing" /\ HasTarget(r) /\ r.wellFormed
        /\ target' = [target EXCEPT ![d] = Found(r)]
        /\ Goto(d, "auth")
        /\ UNCHANGED <<passed, user, byAuth>>

NotWellFormed(d) ==
    /\ phase[d] = "routing" /\ HasTarget(request[d]) /\ ~request[d].wellFormed
    /\ Answer(d, "4xx")

\* Preflights and OPTIONS answer before AUTH; $cors may refuse the origin.
Options(d) ==
    /\ phase[d] = "routing" /\ request[d].method = "OPTIONS"
    /\ \/ Allowed(request[d]) /\ Answer(d, "2xx")
       \/ Answer(d, "4xx")

NoTarget(d) ==
    LET r == request[d]
    IN  /\ phase[d] = "routing" /\ ~HasTarget(r) /\ r.method # "OPTIONS"
        /\ IF ~r.upgrade /\ r.method \in {"GET", "HEAD"}
           THEN Goto(d, "static") /\ UNCHANGED <<target, passed, user, byAuth>>
           ELSE Answer(d, "4xx")

\* The file, a part of it, none, no such part, or an error of the disk.
Static(d) ==
    /\ phase[d] = "static"
    /\ \E class \in {"2xx", "4xx", "5xx"} : Answer(d, class)

-----------------------------------------------------------------------------
(* AUTH, middleware and handler. *)

Authorized(flag, known) ==
    CASE flag = "any" -> TRUE [] flag = "member" -> known [] flag = "guest" -> ~known

\* A route compares its flag with what AUTH found, an API or a websocket does
\* so behind the middleware.
AuthDone(d) ==
    /\ phase[d] = "auth"
    /\ \E known \in IF HasAuth THEN BOOLEAN ELSE {FALSE} :
         IF target[d].kind = "route" /\ ~Authorized(target[d].auth, known)
         THEN Answer(d, "4xx")
         ELSE /\ user' = [user EXCEPT ![d] = known]
              /\ byAuth' = [byAuth EXCEPT ![d] = known]
              /\ Goto(d, "middleware")
              /\ UNCHANGED <<target, passed>>

AuthRefuses(d) ==
    /\ phase[d] = "auth" /\ HasAuth
    /\ \E class \in Replies : Answer(d, class)

Middleware(d) ==
    /\ phase[d] = "middleware" /\ passed[d] < Middlewares
    /\ \E known \in BOOLEAN : user' = [user EXCEPT ![d] = known]
    /\ passed' = [passed EXCEPT ![d] = @ + 1]
    /\ Goto(d, "middleware")
    /\ UNCHANGED <<target, byAuth>>

MiddlewareRefuses(d) ==
    /\ phase[d] = "middleware" /\ passed[d] < Middlewares
    /\ \E class \in Replies : Answer(d, class)

\* Mutant: only a member's API is compared with its flag.
Enter_IgnoresGuests(d) ==
    LET t == target[d]
    IN  /\ phase[d] = "middleware" /\ passed[d] = Middlewares
        /\ IF t.auth = "unknown" \/ (t.kind # "route" /\ t.auth = "member" /\ ~user[d])
           THEN Answer(d, "4xx")
           ELSE /\ Goto(d, IF t.kind = "socket" THEN "upgrade" ELSE "handler")
                /\ UNCHANGED <<target, passed, user, byAuth>>

Enter(d) ==
    LET t == target[d]
    IN  /\ phase[d] = "middleware" /\ passed[d] = Middlewares
        /\ IF t.auth = "unknown" \/ (t.kind # "route" /\ ~Authorized(t.auth, user[d]))
           THEN Answer(d, "4xx")
           ELSE /\ Goto(d, IF t.kind = "socket" THEN "upgrade" ELSE "handler")
                /\ UNCHANGED <<target, passed, user, byAuth>>

HandlerDone(d) ==
    /\ phase[d] = "handler"
    /\ \E class \in Replies : Answer(d, class)

\* The handler of the websocket runs in a task of its own.
Upgrade(d) == phase[d] = "upgrade" /\ Answer(d, "1xx")

Awaits(d) ==
    \/ phase[d] \in {"handler", "static"}
    \/ phase[d] = "auth" /\ HasAuth
    \/ phase[d] = "middleware" /\ passed[d] < Middlewares

\* The connection loop drops the dispatch at its deadline, or is aborted.
Cancel(d) == Awaits(d) /\ Vanish(d)

\* A handler panics, or a range of an empty file does.
Panic(d) == Awaits(d) /\ Vanish(d)

Tick ==
    /\ now < MaxTime
    /\ now' = now + 1
    /\ UNCHANGED <<stats, limits, taskVars, uncounted, admitted, refused>>

Step(d) ==
    \/ \E r \in Requests : Block(d, r) \/ Throttle(d, r) \/ Admit(d, r)
    \/ Select(d) \/ NotWellFormed(d) \/ Options(d) \/ NoTarget(d) \/ Static(d)
    \/ AuthDone(d) \/ AuthRefuses(d) \/ Middleware(d) \/ MiddlewareRefuses(d)
    \/ Enter(d) \/ HandlerDone(d) \/ Upgrade(d) \/ Cancel(d) \/ Panic(d)

Next == Tick \/ \E d \in Dispatches : Step(d)

Spec == Init /\ [][Next]_vars

-----------------------------------------------------------------------------
(* What the dispatcher promises. *)

\* The pending counter is the number of dispatches under way, though they end
\* in responses, deadlines, aborts and panics.
PendingCounts == stats["pending"] = Cardinality({d \in Dispatches : phase[d] # "idle"})

\* Each request is counted once: pending, in a class of responses, or as one
\* that had none of them; blocked and throttled ones are among the 4xx.
Accounted ==
    /\ stats["requests"] = stats["pending"] + stats["2xx"] + stats["4xx"] + stats["5xx"] + uncounted
    /\ stats["blocked"] + stats["throttled"] <= stats["4xx"]

Passed(ip, from) ==
    {a \in admitted : a.ip = ip /\ from <= a.at /\ a.at < from + Window}

\* Wherever a window's length is laid, an address gets no more than twice the
\* limit in it: the windows of the limiter follow each other.
WindowsBounded ==
    Limit > 0 => \A ip \in Ips, from \in 0..MaxTime : Cardinality(Passed(ip, from)) <= 2 * Limit

\* A request is refused only when its address has used up the limit within the
\* last window: refused ones do not count, nor do those of other addresses.
RefusedWhenFull ==
    \A r \in refused :
        Cardinality({a \in admitted : /\ a.ip = r.ip /\ a.serial < r.serial
                                      /\ r.at < a.at + Window}) >= Limit

\* The limiter keeps the addresses of the last window only.
LimitsPruned ==
    [][limits' # limits => \A ip \in DOMAIN limits' : now - limits'[ip].start < Window]_vars

\* The flag of an API endpoint or a websocket holds for the user at its
\* handler, the one of a route for the user that AUTH found: middleware comes
\* after that comparison.
FlagsHold ==
    \A d \in Dispatches :
        phase[d] \in {"handler", "upgrade"} =>
            Authorized(target[d].auth, IF target[d].kind = "route" THEN byAuth[d] ELSE user[d])
=============================================================================
