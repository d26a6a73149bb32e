\* Every sequence of three frames of every kind, arriving whole, and sequences of
\* two that arrive in parts while the handler sends more than its channel holds.
CONSTANTS
    Plans <- AllPlans
    InCap = 1
    OutCap = 1
    MaxMessage = 200
    Compression = TRUE
SPECIFICATION Spec
INVARIANTS
    TypeOK
    DeliveredUnlessCut
    MessageBounded
    WritesWhatItOwes
PROPERTIES
    SendHeldByDeliveryOnly
CHECK_DEADLOCK FALSE
