\* Restarts and reloads with a databases directory that is configured.
CONSTANTS
    d1 = d1
    d2 = d2
    s = s
    t = t
    Names = {s, t}
    Dirs = {d1, d2}
    Default = d1
    NoDir = NoDir
    Plugins <- OnePlugin
    TotalMode = FALSE
    Projects <- Remapped
    MaxLoads = 2
    MaxEdits = 0
SPECIFICATION Spec
INVARIANT GeneratedPersists
\* The loads are used up.
CHECK_DEADLOCK FALSE
