\* serve_tls with two sockets, every kind of request, two requests on a socket.
CONSTANTS
    c1 = c1
    c2 = c2
    Conns = {c1, c2}
    Tls = TRUE
    Requests <- AllRequests
    MaxRequests = 2
SPECIFICATION Spec
INVARIANTS
    TypeOK
    NoOrphanTask
    
    GracefulEndAnswersAll
    AtMostOneLateRequest
PROPERTIES
    IsGracefulDrain
    ShutdownCompletes
    DrainConverges
\* The server really stops.
CHECK_DEADLOCK FALSE
