\* Restarts, reloads, edits, crashes and failed writes.
CONSTANTS
    d1 = d1
    d2 = d2
    s = s
    t = t
    Names = {s, t}
    Dirs = {d1, d2}
    Default = d1
    NoDir = NoDir
    Plugins <- OnePlugin
    TotalMode = FALSE
    Projects <- AllProjects
    MaxLoads = 4
    MaxEdits = 2
SPECIFICATION Spec
INVARIANTS
    TypeOK
    GivenStays
    DirIsConfigured
\* The loads are used up.
CHECK_DEADLOCK FALSE
