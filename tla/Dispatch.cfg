\* Two dispatches at once, four requests of fourteen kinds from three addresses,
\* a limit of one request in two ticks of the clock.
CONSTANTS
    d1 = d1
    d2 = d2
    i1 = i1
    i2 = i2
    bad = bad
    Dispatches = {d1, d2}
    Replies = {"2xx", "3xx"}
    Requests <- AllRequests
    Ips = {i1, i2, bad}
    Blacklist = {bad}
    Limit = 1
    Window = 2
    HasAuth = TRUE
    Middlewares = 1
    Routes <- AllRoutes
    Sockets <- AllSockets
    ApiPaths = {"api"}
    Endpoints <- AllEndpoints
    MaxRequests = 4
    MaxTime = 2
SYMMETRY Symmetry
SPECIFICATION Spec
INVARIANTS
    TypeOK
    PendingCounts
    Accounted
    WindowsBounded
    RefusedWhenFull
    FlagsHold
\* The requests are used up.
CHECK_DEADLOCK FALSE
