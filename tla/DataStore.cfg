\* Two handlers, every kind of operation, four operations in all.
CONSTANTS
    c1 = c1
    c2 = c2
    a = a
    b = b
    x = x
    y = y
    Callers = {c1, c2}
    Ids = {a, b}
    Values = {x, y}
    NoId = NoId
    Ops <- AllOps
    MaxCalls = 4
SPECIFICATION Spec
INVARIANTS
    TypeOK
    TornHasCause
PROPERTIES
    IsCollection
\* The calls are used up.
CHECK_DEADLOCK FALSE
