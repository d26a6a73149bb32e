\* A message written while a frame is half read.
CONSTANTS
    Plans <- CutPlans
    InCap = 1
    OutCap = 1
    MaxMessage = 200
    Compression = FALSE
SPECIFICATION Spec
INVARIANT DeliveredInOrder
CHECK_DEADLOCK FALSE
