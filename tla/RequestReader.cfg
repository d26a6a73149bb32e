\* One or two requests and what follows them, in pieces of one to four units.
CONSTANTS
    Streams <- AllStreams
    Sizes <- SizeUnits
    Lengths <- LengthUnits
    MaxHeader = 7
    MaxBody = 3
    Chunk = 4
SPECIFICATION Spec
INVARIANTS
    TypeOK
    ReadsWhatWasSent
\* The connection ends.
CHECK_DEADLOCK FALSE
