\* Two connections with one-message channels, of which the second message of a client fills one and blocks its loop; a client may stop reading.
CONSTANTS
    c1 = c1
    c2 = c2
    Conns = {c1, c2}
    InCap = 1
    OutCap = 1
    MaxIn <- Inputs
    MaxOut = 1
    Stallers = {c2}
SPECIFICATION Spec
INVARIANTS
    TypeOK
    CountTracksRegistry
    NormalCloseIsFinal
PROPERTIES
    BroadcastCompletes
    ReturnClosesConnection
CHECK_DEADLOCK FALSE
