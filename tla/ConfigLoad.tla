------------------------------ MODULE ConfigLoad ------------------------------
(***************************************************************************)
(* The configuration of src/src/lib.rs: a process starts with the files of *)
(* its project (`config`, the overlay of its mode, those of its plugins),  *)
(* line by line, and may load them again.  A generated value is looked for *)
(* in `config.json` of the databases directory, and remembered there; that *)
(* directory is itself configured.  A crash may come at any line, and      *)
(* between the two halves of a write.                                      *)
(*                                                                         *)
(* Of the values, those of generated names, `debug` and `$dirdatabases`    *)
(* are modelled.                                                           *)
(***************************************************************************)
EXTENDS Naturals, Sequences

CONSTANTS
    Names,              \* names whose value may be generated
    Dirs, Default,      \* databases directories, and the one in the beginning
    NoDir,              \* none is configured
    Plugins,            \* sorted
    TotalMode,          \* does TOTAL_MODE ask for debugging?
    Projects,           \* the files an operator may write
    MaxLoads, MaxEdits  \* bounds

Files == {"config", "config-debug", "config-release"} \cup {Plugins[i] : i \in 1..Len(Plugins)}
Entry == [kind : {"generate", "fixed"}, name : Names] \cup [kind : {"debug"}, on : BOOLEAN]
            \cup [kind : {"dir"}, dir : Dirs] \cup [kind : {"malformed"}]

ASSUME DirsAssumption == Default \in Dirs /\ NoDir \notin Dirs
ASSUME PluginsAssumption == Plugins \in Seq(STRING) /\ \A i \in 1..Len(Plugins) : Plugins[i] # "mode"
ASSUME ProjectsAssumption == \A p \in Projects : p \in [Files -> Seq(Entry)]
ASSUME ModeAssumption == TotalMode \in BOOLEAN
ASSUME BoundsAssumption == MaxLoads \in Nat /\ MaxEdits \in Nat

VARIABLES
    project,            \* the files
    caches,             \* what config.json in each directory remembers
    phase,              \* what the process does
    dir,                \* its databases directory
    config,             \* its configuration
    starting,           \* is it the first load of the process?
    todo,               \* files it has still to load
    lines,              \* lines of the present one
    cache, changed,     \* what it remembers, and whether it is to be written
    loads, edits,
    serial,             \* the last generated value
    origin,             \* history: the directory each generated value is from
    given,              \* history: by directory, values of loads that succeeded
    since,              \* history: those since the last edit
    ok                  \* history: the last load succeeded

loadVars == <<phase, dir, config, starting, todo, lines, cache, changed, origin, ok>>
history  == <<given, since>>
vars     == <<project, caches, loadVars, loads, edits, serial, history>>

Empty == <<>>

\* A map with one value more, and one with those of another that it has not.
Put(m, name, v) == [n \in DOMAIN m \cup {name} |-> IF n = name THEN v ELSE m[n]]
Join(m, k)      == [n \in DOMAIN m \cup DOMAIN k |-> IF n \in DOMAIN m THEN m[n] ELSE k[n]]

Defaults == [values |-> Empty, debug |-> "unset", databases |-> NoDir]
Chain    == <<"config", "mode">> \o Plugins

\* Zero is a value that is written in a file.
Values == 0..serial
IsMap(m) == DOMAIN m \subseteq Names /\ \A n \in DOMAIN m : m[n] \in Values

TypeOK ==
    /\ project \in Projects
    /\ DOMAIN caches = Dirs /\ \A d \in Dirs : IsMap(caches[d])
    /\ phase \in {"down", "idle", "files", "lines", "open", "write"}
    /\ dir \in Dirs
    /\ config.debug \in {"unset", "on", "off"} /\ config.databases \in Dirs \cup {NoDir}
    /\ IsMap(config.values) /\ IsMap(cache)
    /\ {starting, changed, ok} \subseteq BOOLEAN
    /\ phase \in {"down", "idle"} => todo = <<>> /\ lines = <<>>
    /\ loads \in 0..MaxLoads /\ edits \in 0..MaxEdits /\ serial \in Nat
    /\ DOMAIN origin \subseteq DOMAIN config.values
    /\ \A n \in DOMAIN origin : origin[n] \in Dirs
    /\ \A d \in Dirs : IsMap(given[d])

Init ==
    /\ project \in Projects
    /\ caches = [d \in Dirs |-> Empty]
    /\ phase = "down"
    /\ dir = Default
    /\ config = Defaults
    /\ starting = FALSE
    /\ todo = <<>> /\ lines = <<>>
    /\ cache = Empty /\ changed = FALSE
    /\ loads = 0 /\ edits = 0 /\ serial = 0
    /\ origin = Empty
    /\ given = [d \in Dirs |-> Empty]
    /\ since = Empty
    /\ ok = FALSE

-----------------------------------------------------------------------------
(* A load begins. *)

Begin(defaults) ==
    /\ loads < MaxLoads
    /\ loads' = loads + 1
    /\ config' = defaults
    /\ origin' = Empty
    /\ todo' = Chain
    /\ phase' = "files"
    /\ UNCHANGED <<project, caches, lines, cache, changed, edits, serial, history, ok>>

\* convention, and convention_dev, in a new process.
Start ==
    /\ phase = "down"
    /\ Begin(Defaults) \/ Begin([Defaults EXCEPT !.debug = "on"])
    /\ dir' = Default
    /\ starting' = TRUE

\* The directories stay as the last load has left them.
Reload ==
    /\ phase = "idle"
    /\ Begin(Defaults)
    /\ starting' = FALSE
    /\ UNCHANGED dir

-----------------------------------------------------------------------------
(* A file. *)

\* The overlay follows what the configuration says by then.
FileOf(stage) ==
    IF stage # "mode" THEN stage
    ELSE IF config.debug = "on" \/ (config.debug = "unset" /\ TotalMode)
         THEN "config-debug" ELSE "config-release"

\* Mutant: what is remembered is read once, though the directory may change.
OpenFile_ReadsOnce ==
    /\ phase = "files"
    /\ lines' = project[FileOf(Head(todo))]
    /\ cache' = IF Head(todo) = "config" THEN caches[dir] ELSE cache
    /\ changed' = FALSE
    /\ phase' = "lines"
    /\ UNCHANGED <<project, caches, dir, config, starting, todo, loads, edits, serial,
                   origin, history, ok>>

OpenFile ==
    /\ phase = "files"
    /\ lines' = project[FileOf(Head(todo))]
    /\ cache' = caches[dir]
    /\ changed' = FALSE
    /\ phase' = "lines"
    /\ UNCHANGED <<project, caches, dir, config, starting, todo, loads, edits, serial,
                   origin, history, ok>>

Line(kind) == phase = "lines" /\ lines # <<>> /\ Head(lines).kind = kind

Take ==
    /\ lines' = Tail(lines)
    /\ UNCHANGED <<project, caches, phase, dir, starting, todo, loads, edits, history, ok>>

Set(name, value) == config' = [config EXCEPT !.values = Put(@, name, value)]

Without(m, name) == [n \in DOMAIN m \ {name} |-> m[n]]

\* A value is generated, and given up for one that is remembered.
Recall ==
    /\ Line("generate")
    /\ LET name == Head(lines).name
       IN  /\ name \in DOMAIN cache
           /\ Set(name, cache[name])
           /\ origin' = Put(origin, name, dir)
    /\ Take
    /\ UNCHANGED <<cache, changed, serial>>

Generate ==
    /\ Line("generate")
    /\ LET name == Head(lines).name
       IN  /\ name \notin DOMAIN cache
           /\ Set(name, serial + 1)
           /\ cache' = Put(cache, name, serial + 1)
           /\ changed' = TRUE
           /\ origin' = Put(origin, name, dir)
    /\ serial' = serial + 1
    /\ Take

Fixed ==
    /\ Line("fixed")
    /\ Set(Head(lines).name, 0)
    /\ origin' = Without(origin, Head(lines).name)
    /\ Take
    /\ UNCHANGED <<cache, changed, serial>>

Directory ==
    /\ Line("dir")
    /\ config' = [config EXCEPT !.databases = Head(lines).dir]
    /\ Take
    /\ UNCHANGED <<cache, changed, serial, origin>>

Debug ==
    /\ Line("debug")
    /\ config' = [config EXCEPT !.debug = IF Head(lines).on THEN "on" ELSE "off"]
    /\ Take
    /\ UNCHANGED <<cache, changed, serial, origin>>

-----------------------------------------------------------------------------
(* The end of a file, and of a load. *)

\* A process that fails to start has no application; one that fails to load
\* again keeps what it has loaded.
Fail ==
    /\ phase' = IF starting THEN "down" ELSE "idle"
    /\ todo' = <<>> /\ lines' = <<>>
    /\ ok' = FALSE
    /\ UNCHANGED <<project, caches, dir, config, starting, cache, changed, loads, edits,
                   serial, origin>>

\* Mutant: the files behind a malformed one are loaded.
Malformed_GoesOn ==
    /\ Line("malformed")
    /\ phase' = IF starting THEN "down" ELSE "idle"
    /\ lines' = <<>>
    /\ ok' = FALSE
    /\ UNCHANGED <<project, caches, dir, config, starting, todo, cache, changed, loads,
                   edits, serial, origin, history>>

Malformed == Line("malformed") /\ Fail /\ UNCHANGED history

\* A file is there and cannot be read.
OpenFails == phase = "files" /\ Fail /\ UNCHANGED history

Configured == IF config.databases = NoDir THEN dir ELSE config.databases

Generated == {n \in DOMAIN origin : config.values[n] # 0}

\* Mutant: the directories are not configured again behind the plugins.
NextFile_ForgetsPlugins ==
    /\ todo' = Tail(todo) /\ lines' = <<>>
    /\ dir' = IF Head(todo) \in {"config", "mode"} THEN Configured ELSE dir
    /\ IF Len(todo) > 1
       THEN phase' = "files" /\ UNCHANGED <<history, ok>>
       ELSE /\ phase' = "idle" /\ ok' = TRUE
            /\ given' = [d \in Dirs |->
                            Join(given[d], [n \in {g \in Generated : origin[g] = d} |->
                                                config.values[n]])]
            /\ since' = Join(since, [n \in Generated |-> config.values[n]])
    /\ UNCHANGED <<project, config, starting, cache, changed, loads, edits, serial, origin>>

\* Directories are configured behind `config`, the overlay, and the last file.
NextFile ==
    /\ todo' = Tail(todo) /\ lines' = <<>>
    /\ dir' = IF Head(todo) \in {"config", "mode"} \/ Len(todo) = 1 THEN Configured ELSE dir
    /\ IF Len(todo) > 1
       THEN phase' = "files" /\ UNCHANGED <<history, ok>>
       ELSE /\ phase' = "idle" /\ ok' = TRUE
            /\ given' = [d \in Dirs |->
                            Join(given[d], [n \in {g \in Generated : origin[g] = d} |->
                                                config.values[n]])]
            /\ since' = Join(since, [n \in Generated |-> config.values[n]])
    /\ UNCHANGED <<project, config, starting, cache, changed, loads, edits, serial, origin>>

CloseFile ==
    /\ phase = "lines" /\ lines = <<>> /\ ~changed
    /\ NextFile
    /\ UNCHANGED caches

Save ==
    /\ phase = "lines" /\ lines = <<>> /\ changed
    /\ phase' = "open"
    /\ UNCHANGED <<project, caches, dir, config, starting, todo, lines, cache, changed,
                   loads, edits, serial, origin, history, ok>>

SaveFails == phase = "open" /\ Fail /\ UNCHANGED history

\* An empty file, or a part of one, does not parse: nothing is remembered.
Truncate ==
    /\ phase = "open"
    /\ caches' = [caches EXCEPT ![dir] = Empty]
    /\ phase' = "write"
    /\ UNCHANGED <<project, dir, config, starting, todo, lines, cache, changed,
                   loads, edits, serial, origin, history, ok>>

Write ==
    /\ phase = "write"
    /\ caches' = [caches EXCEPT ![dir] = cache]
    /\ NextFile

\* What the directory remembered is lost.
Lose ==
    /\ given' = [given EXCEPT ![dir] = Empty]
    /\ since' = Empty

WriteFails == phase = "write" /\ Fail /\ Lose

-----------------------------------------------------------------------------
(* What is around a load. *)

Crash ==
    /\ phase # "down"
    /\ phase' = "down"
    /\ IF phase = "write" THEN Lose ELSE UNCHANGED history
    /\ dir' = Default /\ config' = Defaults /\ origin' = Empty
    /\ todo' = <<>> /\ lines' = <<>> /\ cache' = Empty
    /\ changed' = FALSE /\ starting' = FALSE /\ ok' = FALSE
    /\ UNCHANGED <<project, caches, loads, edits, serial>>

\* An operator writes other files while none is loaded.
Edit ==
    /\ phase \in {"down", "idle"} /\ edits < MaxEdits
    /\ edits' = edits + 1
    /\ \E p \in Projects \ {project} : project' = p
    /\ since' = Empty
    /\ UNCHANGED <<caches, loadVars, loads, serial, given>>

Next ==
    \/ Start \/ Reload \/ OpenFile \/ OpenFails
    \/ Recall \/ Generate \/ Fixed \/ Directory \/ Debug \/ Malformed
    \/ CloseFile \/ Save \/ SaveFails \/ Truncate \/ Write \/ WriteFails
    \/ Crash \/ Edit

Spec == Init /\ [][Next]_vars

-----------------------------------------------------------------------------
(* What the configuration promises. *)

Loaded == phase = "idle" /\ ok

\* A generated value that was given out stays what it is, over restarts,
\* reloads and edits, wherever it is looked for in the same directory: unless
\* the write of a later value was cut, and lost it.
GivenStays ==
    Loaded => \A n \in Generated : config.values[n] = given[origin[n]][n]

\* The databases directory is the one that is configured, by whatever file.
DirIsConfigured ==
    Loaded /\ config.databases # NoDir => dir = config.databases

\* Generated values persist in databases/config.json (README.md:306): what a
\* load gave out, later loads of the same files give again, while no write was
\* cut.
GeneratedPersists ==
    Loaded => \A n \in Generated : config.values[n] = since[n]
=============================================================================
