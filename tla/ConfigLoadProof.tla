--------------------------- MODULE ConfigLoadProof ---------------------------
(***************************************************************************)
(* Proofs about ConfigLoad, for any names, directories, plugins, files and *)
(* any number of loads and edits: generated values that were given out     *)
(* stay what they are.                                                     *)
(***************************************************************************)
EXTENDS ConfigLoad, SequenceTheorems, TLAPS

Stages == Files \cup {"mode"}

InFile == phase \in {"lines", "open", "write"}

\* m has all that k has.
Extends(m, k) == \A n \in DOMAIN k : n \in DOMAIN m /\ m[n] = k[n]

Shapes ==
    /\ project \in Projects /\ todo \in Seq(Stages) /\ lines \in Seq(Entry)
    /\ InFile \/ phase = "files" => todo # <<>>
    /\ dir \in Dirs /\ config.databases \in Dirs \cup {NoDir}
    /\ config = [values |-> config.values, debug |-> config.debug,
                 databases |-> config.databases]
    /\ caches = [d \in Dirs |-> caches[d]]
    /\ given = [d \in Dirs |-> given[d]]
    /\ \A n \in DOMAIN origin : origin[n] \in Dirs /\ n \in DOMAIN config.values

\* While a file is loaded, all that its directory remembers is at hand.
CacheKeeps ==
    /\ phase \in {"lines", "open"} => Extends(cache, caches[dir])
    /\ phase = "lines" /\ ~changed => Extends(caches[dir], cache)

\* What was given out is remembered, in the file or in the write under way.
GivenRemembered ==
    \A d \in Dirs :
        IF phase = "write" /\ d = dir THEN Extends(cache, given[d])
                                      ELSE Extends(caches[d], given[d])

\* A generated value is remembered where it is from.
Remembered(n, m) == n \in DOMAIN m /\ m[n] = config.values[n]

OriginRemembers ==
    InFile \/ phase = "files" \/ Loaded =>
        \A n \in DOMAIN origin :
            IF InFile /\ origin[n] = dir THEN Remembered(n, cache)
                                         ELSE Remembered(n, caches[origin[n]])

IInv == /\ Shapes /\ CacheKeeps /\ GivenRemembered /\ OriginRemembers
        /\ GivenStays /\ DirIsConfigured

-----------------------------------------------------------------------------
(* Maps of remembered values. *)

LEMMA ExtendsIsTransitive ==
  ASSUME NEW a, NEW b, NEW c, Extends(a, b), Extends(b, c)
  PROVE  Extends(a, c)
  BY DEF Extends

-----------------------------------------------------------------------------
(* A load begins, or there is none. *)

LEMMA ChainIsStages == Chain \in Seq(Stages) /\ Chain # <<>>
  <1>1. Plugins \in Seq(Stages)
    <2>1. \A i \in 1..Len(Plugins) : Plugins[i] \in Stages
      BY DEF Stages, Files
    <2> QED  BY <2>1, PluginsAssumption
  <1>2. <<"config", "mode">> \in Seq(Stages) /\ Len(<<"config", "mode">>) = 2
    BY DEF Stages, Files
  <1>3. Chain \in Seq(Stages) /\ Len(Chain) = 2 + Len(Plugins) /\ Len(Plugins) \in Nat
    BY <1>1, <1>2, ConcatProperties, LenProperties DEF Chain
  <1> QED  BY <1>3

LEMMA InitHolds == Init => IInv
  <1> SUFFICES ASSUME Init PROVE IInv
    OBVIOUS
  <1>1. Shapes
    BY DirsAssumption DEF Init, Shapes, Defaults, Empty, InFile
  <1>2. CacheKeeps /\ GivenRemembered /\ OriginRemembers /\ GivenStays /\ DirIsConfigured
    BY DEF Init, CacheKeeps, GivenRemembered, OriginRemembers, GivenStays,
           DirIsConfigured, Extends, InFile, Loaded, Empty
  <1> QED  BY <1>1, <1>2 DEF IInv

LEMMA BeginKeeps ==
  ASSUME IInv, Start \/ Reload
  PROVE  IInv'
  <1>1. /\ phase # "write" /\ phase' = "files" /\ origin' = Empty /\ todo' = Chain
        /\ config' = Defaults \/ config' = [Defaults EXCEPT !.debug = "on"]
        /\ dir' \in {dir, Default}
        /\ UNCHANGED <<project, lines, caches, given>>
    BY DEF Start, Reload, Begin, history
  <1>2. Shapes'
    BY <1>1, ChainIsStages, DirsAssumption DEF IInv, Shapes, Defaults, Empty, InFile
  <1>3. GivenRemembered'
    BY <1>1 DEF IInv, GivenRemembered, Extends
  <1>4. CacheKeeps' /\ OriginRemembers' /\ GivenStays' /\ DirIsConfigured'
    BY <1>1 DEF CacheKeeps, OriginRemembers, GivenStays, DirIsConfigured, Loaded, Empty
  <1> QED  BY <1>2, <1>3, <1>4 DEF IInv

\* A load fails, or the process ends: whatever is given out is remembered.
LEMMA FailKeeps ==
  ASSUME IInv, OpenFails \/ Malformed \/ SaveFails \/ WriteFails
  PROVE  IInv'
  <1>1. /\ phase' \in {"idle", "down"} /\ ~ok' /\ todo' = <<>> /\ lines' = <<>>
        /\ UNCHANGED <<project, caches, dir, config, origin>>
    BY DEF OpenFails, Malformed, SaveFails, WriteFails, Fail
  <1>2. given' = IF phase = "write" THEN [given EXCEPT ![dir] = Empty] ELSE given
    BY DEF OpenFails, Malformed, SaveFails, WriteFails, Lose, Line, history
  <1>3. Shapes'
    BY <1>1, <1>2 DEF IInv, Shapes, InFile
  <1>4. GivenRemembered'
    BY <1>1, <1>2 DEF IInv, Shapes, GivenRemembered, Extends, Empty
  <1>5. CacheKeeps' /\ OriginRemembers' /\ GivenStays' /\ DirIsConfigured'
    BY <1>1 DEF CacheKeeps, OriginRemembers, GivenStays, DirIsConfigured, InFile, Loaded
  <1> QED  BY <1>3, <1>4, <1>5 DEF IInv

LEMMA CrashKeeps ==
  ASSUME IInv, Crash
  PROVE  IInv'
  <1>1. /\ phase' = "down" /\ todo' = <<>> /\ lines' = <<>>
        /\ UNCHANGED <<project, caches>>
    BY DEF Crash
  <1>2. given' = IF phase = "write" THEN [given EXCEPT ![dir] = Empty] ELSE given
    BY DEF Crash, Lose, history
  <1>3. Shapes'
    BY <1>1, <1>2, DirsAssumption DEF IInv, Shapes, Crash, Defaults, Empty, InFile
  <1>4. GivenRemembered'
    BY <1>1, <1>2 DEF IInv, Shapes, GivenRemembered, Extends, Empty
  <1>5. CacheKeeps' /\ OriginRemembers' /\ GivenStays' /\ DirIsConfigured'
    BY <1>1 DEF CacheKeeps, OriginRemembers, GivenStays, DirIsConfigured, InFile, Loaded
  <1> QED  BY <1>3, <1>4, <1>5 DEF IInv

LEMMA EditKeeps ==
  ASSUME IInv, Edit
  PROVE  IInv'
  BY DEF Edit, loadVars, IInv, Shapes, CacheKeeps, GivenRemembered, OriginRemembers,
         GivenStays, DirIsConfigured, InFile, Loaded, Generated, Remembered, Extends

-----------------------------------------------------------------------------
(* The lines of a file. *)

LEMMA OpenFileKeeps ==
  ASSUME IInv, OpenFile
  PROVE  IInv'
  <1>1. /\ phase = "files" /\ phase' = "lines" /\ cache' = caches[dir]
        /\ lines' = project[FileOf(Head(todo))]
        /\ UNCHANGED <<project, todo, caches, dir, config, origin, given>>
    BY DEF OpenFile, history
  <1>2. Shapes'
    <2>1. Head(todo) \in Stages
      BY <1>1 DEF IInv, Shapes
    <2>2. FileOf(Head(todo)) \in Files
      BY <2>1 DEF FileOf, Stages, Files
    <2>3. lines' \in Seq(Entry)
      BY <1>1, <2>2, ProjectsAssumption DEF IInv, Shapes
    <2> QED  BY <1>1, <2>3 DEF IInv, Shapes, InFile
  <1>3. CacheKeeps'
    BY <1>1 DEF CacheKeeps, Extends
  <1>4. GivenRemembered'
    BY <1>1 DEF IInv, GivenRemembered, Extends
  <1>5. OriginRemembers'
    BY <1>1 DEF IInv, OriginRemembers, InFile, Remembered
  <1>6. GivenStays' /\ DirIsConfigured'
    BY <1>1 DEF GivenStays, DirIsConfigured, Loaded
  <1> QED  BY <1>2, <1>3, <1>4, <1>5, <1>6 DEF IInv

\* What all lines leave as it is.
LEMMA InLine ==
  ASSUME IInv, Recall \/ Generate \/ Fixed \/ Directory \/ Debug
  PROVE  /\ phase = "lines" /\ UNCHANGED <<project, phase, todo, caches, dir, given>>
         /\ Head(lines) \in Entry /\ lines' \in Seq(Entry)
         /\ GivenRemembered' /\ GivenStays' /\ DirIsConfigured'
  <1>1. /\ phase = "lines" /\ lines # <<>> /\ lines' = Tail(lines)
        /\ UNCHANGED <<project, phase, todo, caches, dir, given>>
    BY DEF Recall, Generate, Fixed, Directory, Debug, Line, Take, history
  <1>2. Head(lines) \in Entry /\ lines' \in Seq(Entry)
    BY <1>1 DEF IInv, Shapes
  <1>3. GivenRemembered'
    BY <1>1 DEF IInv, GivenRemembered, Extends
  <1>4. GivenStays' /\ DirIsConfigured'
    BY <1>1 DEF GivenStays, DirIsConfigured, Loaded
  <1> QED  BY <1>1, <1>2, <1>3, <1>4

LEMMA RecallKeeps ==
  ASSUME IInv, Recall
  PROVE  IInv'
  <1> DEFINE name == Head(lines).name
  <1>1. /\ name \in DOMAIN cache /\ UNCHANGED <<cache, changed>>
        /\ config' = [config EXCEPT !.values = Put(@, name, cache[name])]
        /\ origin' = Put(origin, name, dir)
    BY DEF Recall, Set
  <1>2. UNCHANGED <<phase, caches, dir, given>> /\ phase = "lines"
    BY InLine
  <1> HIDE DEF name
  <1>3. /\ config'.values = Put(config.values, name, cache[name])
        /\ config'.debug = config.debug /\ config'.databases = config.databases
        /\ config' = [values |-> config'.values, debug |-> config'.debug,
                      databases |-> config'.databases]
    BY <1>1 DEF IInv, Shapes
  <1>4. Shapes'
    BY <1>1, <1>2, <1>3, InLine DEF IInv, Shapes, InFile, Put
  <1>5. CacheKeeps'
    BY <1>1, <1>2 DEF IInv, CacheKeeps
  <1>6. OriginRemembers'
    <2> SUFFICES ASSUME NEW n \in DOMAIN origin'
                 PROVE  IF origin'[n] = dir THEN Remembered(n, cache)'
                                            ELSE Remembered(n, caches[origin[n]])'
      BY <1>2 DEF OriginRemembers, InFile
    <2>1. CASE n = name
      BY <1>1, <1>2, <1>3, <2>1 DEF Remembered, Put
    <2>2. CASE n # name
      <3>1. n \in DOMAIN origin /\ origin'[n] = origin[n]
        BY <1>1, <2>2 DEF Put
      <3>2. config'.values[n] = config.values[n]
        BY <1>3, <2>2, <3>1 DEF IInv, Shapes, Put
      <3> QED  BY <1>1, <1>2, <3>1, <3>2 DEF IInv, OriginRemembers, InFile, Remembered
    <2> QED  BY <2>1, <2>2
  <1> QED  BY <1>4, <1>5, <1>6, InLine DEF IInv

LEMMA GenerateKeeps ==
  ASSUME IInv, Generate
  PROVE  IInv'
  <1> DEFINE name == Head(lines).name
  <1>1. /\ name \notin DOMAIN cache /\ cache' = Put(cache, name, serial + 1) /\ changed'
        /\ config' = [config EXCEPT !.values = Put(@, name, serial + 1)]
        /\ origin' = Put(origin, name, dir)
    BY DEF Generate, Set
  <1>2. UNCHANGED <<phase, caches, dir, given>> /\ phase = "lines"
    BY InLine
  <1> HIDE DEF name
  <1>3. /\ config'.values = Put(config.values, name, serial + 1)
        /\ config'.debug = config.debug /\ config'.databases = config.databases
        /\ config' = [values |-> config'.values, debug |-> config'.debug,
                      databases |-> config'.databases]
    BY <1>1 DEF IInv, Shapes
  <1>4. Shapes'
    BY <1>1, <1>2, <1>3, InLine DEF IInv, Shapes, InFile, Put
  <1>5. Extends(cache', cache)
    BY <1>1 DEF Extends, Put
  <1>6. CacheKeeps'
    <2>1. Extends(cache, caches[dir])
      BY <1>2 DEF IInv, CacheKeeps
    <2>2. Extends(cache', caches'[dir'])
      BY <1>2, <1>5, <2>1, ExtendsIsTransitive
    <2> QED  BY <1>1, <1>2, <2>2 DEF CacheKeeps
  <1>7. OriginRemembers'
    <2> SUFFICES ASSUME NEW n \in DOMAIN origin'
                 PROVE  IF origin'[n] = dir THEN Remembered(n, cache)'
                                            ELSE Remembered(n, caches[origin[n]])'
      BY <1>2 DEF OriginRemembers, InFile
    <2>1. CASE n = name
      BY <1>1, <1>2, <1>3, <2>1 DEF Remembered, Put
    <2>2. CASE n # name
      <3>1. n \in DOMAIN origin /\ origin'[n] = origin[n]
        BY <1>1, <2>2 DEF Put
      <3>2. config'.values[n] = config.values[n]
        BY <1>3, <2>2, <3>1 DEF IInv, Shapes, Put
      <3>3. CASE origin[n] = dir
        <4>1. n \in DOMAIN cache /\ cache[n] = config.values[n]
          BY <1>2, <3>1, <3>3 DEF IInv, OriginRemembers, InFile, Remembered
        <4>2. n \in DOMAIN cache' /\ cache'[n] = cache[n]
          BY <1>5, <4>1 DEF Extends
        <4> QED  BY <3>1, <3>2, <3>3, <4>1, <4>2 DEF Remembered
      <3>4. CASE origin[n] # dir
        BY <1>2, <3>1, <3>2, <3>4 DEF IInv, OriginRemembers, InFile, Remembered
      <3> QED  BY <3>3, <3>4
    <2> QED  BY <2>1, <2>2
  <1> QED  BY <1>4, <1>6, <1>7, InLine DEF IInv

LEMMA FixedKeeps ==
  ASSUME IInv, Fixed
  PROVE  IInv'
  <1> DEFINE name == Head(lines).name
  <1>1. /\ UNCHANGED <<cache, changed>>
        /\ config' = [config EXCEPT !.values = Put(@, name, 0)]
        /\ origin' = Without(origin, name)
    BY DEF Fixed, Set
  <1>2. UNCHANGED <<phase, caches, dir, given>> /\ phase = "lines"
    BY InLine
  <1> HIDE DEF name
  <1>3. /\ config'.values = Put(config.values, name, 0)
        /\ config'.debug = config.debug /\ config'.databases = config.databases
        /\ config' = [values |-> config'.values, debug |-> config'.debug,
                      databases |-> config'.databases]
    BY <1>1 DEF IInv, Shapes
  <1>4. \A n \in DOMAIN origin' : /\ n \in DOMAIN origin /\ origin'[n] = origin[n]
                                  /\ n \in DOMAIN config.values /\ n # name
    BY <1>1 DEF IInv, Shapes, Without
  <1>5. Shapes'
    BY <1>1, <1>2, <1>3, <1>4, InLine DEF IInv, Shapes, InFile, Put
  <1>6. CacheKeeps'
    BY <1>1, <1>2 DEF IInv, CacheKeeps
  <1>7. OriginRemembers'
    BY <1>1, <1>2, <1>3, <1>4 DEF IInv, OriginRemembers, InFile, Remembered, Put
  <1> QED  BY <1>5, <1>6, <1>7, InLine DEF IInv

LEMMA SwitchKeeps ==
  ASSUME IInv, Directory \/ Debug
  PROVE  IInv'
  <1>1. /\ config'.values = config.values /\ config'.databases \in Dirs \cup {NoDir}
        /\ config' = [values |-> config'.values, debug |-> config'.debug,
                      databases |-> config'.databases]
        /\ UNCHANGED <<cache, changed, origin>>
    <2>1. CASE Directory
      <3>1. Head(lines) \in Entry /\ Head(lines).kind = "dir"
        BY <2>1, InLine DEF Directory, Line
      <3>2. Head(lines).dir \in Dirs
        BY <3>1 DEF Entry
      <3> QED  BY <2>1, <3>2 DEF IInv, Shapes, Directory
    <2>2. CASE Debug
      BY <2>2 DEF IInv, Shapes, Debug
    <2> QED  BY <2>1, <2>2
  <1>2. UNCHANGED <<phase, caches, dir, given>> /\ phase = "lines"
    BY InLine
  <1>3. Shapes'
    BY <1>1, <1>2, InLine DEF IInv, Shapes, InFile
  <1>4. CacheKeeps' /\ OriginRemembers'
    BY <1>1, <1>2 DEF IInv, CacheKeeps, OriginRemembers, InFile, Remembered
  <1> QED  BY <1>3, <1>4, InLine DEF IInv

-----------------------------------------------------------------------------
(* The end of a file. *)

LEMMA OneOrMore ==
  ASSUME NEW S, NEW q \in Seq(S), q # <<>>
  PROVE  /\ Tail(q) \in Seq(S)
         /\ Len(q) > 1 \/ Len(q) = 1
         /\ Len(q) > 1 => Tail(q) # <<>> /\ Len(q) # 1
         /\ ~(Len(q) > 1) => Tail(q) = <<>>
  <1> DEFINE length == Len(q)
  <1>1. length \in Nat \ {0} /\ Len(<<>>) = 0
    BY EmptySeq
  <1>2. Tail(q) \in Seq(S) /\ Len(Tail(q)) = length - 1
    BY HeadTailProperties
  <1> HIDE DEF length
  <1>3. length > 1 \/ length = 1
    BY <1>1
  <1>4. length > 1 => length - 1 # 0 /\ length # 1
    BY <1>1
  <1>5. Tail(q) = <<>> => Len(Tail(q)) = 0
    BY <1>1
  <1>6. length > 1 => Tail(q) # <<>>
    BY <1>2, <1>4, <1>5
  <1>7. ~(length > 1) => Tail(q) = <<>>
    <2>1. ~(length > 1) => Len(Tail(q)) = 0
      BY <1>1, <1>2, <1>3
    <2> QED  BY <1>2, <2>1, EmptySeq
  <1> QED  BY <1>2, <1>3, <1>4, <1>6, <1>7 DEF length

LEMMA SaveKeepsInv ==
  ASSUME IInv, Save
  PROVE  IInv'
  <1>1. /\ phase = "lines" /\ phase' = "open"
        /\ UNCHANGED <<project, caches, dir, config, todo, lines, cache, origin, given>>
    BY DEF Save, history
  <1> QED  BY <1>1 DEF IInv, Shapes, CacheKeeps, GivenRemembered, OriginRemembers,
              GivenStays, DirIsConfigured, InFile, Loaded, Remembered, Extends

LEMMA TruncateKeeps ==
  ASSUME IInv, Truncate
  PROVE  IInv'
  <1>1. /\ phase = "open" /\ phase' = "write" /\ caches' = [caches EXCEPT ![dir] = Empty]
        /\ UNCHANGED <<project, dir, config, todo, lines, cache, origin, given>>
    BY DEF Truncate, history
  <1>2. Shapes'
    BY <1>1 DEF IInv, Shapes, InFile
  <1>3. GivenRemembered'
    <2>1. Extends(cache, caches[dir]) /\ Extends(caches[dir], given[dir])
      BY <1>1 DEF IInv, Shapes, CacheKeeps, GivenRemembered
    <2>2. Extends(cache, given[dir])
      BY <2>1, ExtendsIsTransitive
    <2>3. \A d \in Dirs \ {dir} : caches'[d] = caches[d]
      BY <1>1 DEF IInv, Shapes
    <2> QED  BY <1>1, <2>2, <2>3 DEF IInv, GivenRemembered, Extends
  <1>4. OriginRemembers'
    BY <1>1 DEF IInv, Shapes, OriginRemembers, InFile, Remembered
  <1>5. CacheKeeps' /\ GivenStays' /\ DirIsConfigured'
    BY <1>1 DEF CacheKeeps, GivenStays, DirIsConfigured, Loaded
  <1> QED  BY <1>2, <1>3, <1>4, <1>5 DEF IInv

\* The file is done, and its directory remembers what was at hand.
LEMMA NextFileKeeps ==
  ASSUME IInv, NextFile, InFile, caches' = [d \in Dirs |-> caches'[d]],
         \A d \in Dirs \ {dir} : caches'[d] = caches[d],
         Extends(caches'[dir], cache),
         Extends(caches'[dir], given[dir])
  PROVE  IInv'
  <1> DEFINE Fresh(d) == [n \in {g \in Generated : origin[g] = d} |-> config.values[n]]
  <1>0. todo \in Seq(Stages) /\ todo # <<>>
    BY DEF IInv, Shapes
  <1>1. /\ phase' \in {"files", "idle"} /\ todo' = Tail(todo) /\ lines' = <<>>
        /\ dir' \in {dir, Configured}
        /\ UNCHANGED <<project, config, origin>>
        /\ phase' = "files" => Len(todo) > 1 /\ UNCHANGED given
        /\ phase' = "idle" => dir' = Configured
        /\ phase' = "idle" =>
             given' = [d \in Dirs |-> Join(given[d], Fresh(d))]
    <2>1. CASE Len(todo) > 1
      BY <2>1 DEF NextFile, history
    <2>2. CASE ~(Len(todo) > 1)
      <3>1. Len(todo) = 1
        BY <1>0, <2>2, OneOrMore
      <3> QED  BY <2>2, <3>1 DEF NextFile
    <2> QED  BY <2>1, <2>2
  <1>2. \A d \in Dirs : Extends(caches'[d], given[d])
    BY DEF IInv, GivenRemembered
  <1>3. \A n \in DOMAIN origin : /\ origin[n] \in Dirs /\ n \in DOMAIN caches'[origin[n]]
                                 /\ caches'[origin[n]][n] = config.values[n]
    BY DEF IInv, Shapes, OriginRemembers, Remembered, Extends
  <1>4. given' = [d \in Dirs |-> given'[d]]
    BY <1>1 DEF IInv, Shapes
  <1>5. Shapes'
    <2>1. todo' \in Seq(Stages) /\ (phase' = "files" => todo' # <<>>)
      BY <1>0, <1>1, OneOrMore
    <2>2. dir' \in Dirs
      BY <1>1 DEF IInv, Shapes, Configured
    <2>3. lines' \in Seq(Entry) /\ ~InFile'
      BY <1>1 DEF InFile
    <2> QED  BY <1>1, <1>4, <2>1, <2>2, <2>3 DEF IInv, Shapes
  <1>6. CacheKeeps' /\ OriginRemembers'
    BY <1>1, <1>3 DEF CacheKeeps, OriginRemembers, InFile, Remembered
  <1>7. DirIsConfigured'
    BY <1>1 DEF DirIsConfigured, Loaded, Configured
  <1>8. CASE phase' = "files"
    BY <1>1, <1>2, <1>5, <1>6, <1>7, <1>8 DEF IInv, GivenRemembered, GivenStays, Loaded, Extends
  <1>9. CASE phase' = "idle"
    <2>0. \A d \in Dirs : given'[d] = Join(given[d], Fresh(d))
      BY <1>1, <1>9
    <2>1. \A d \in Dirs : \A n \in DOMAIN given'[d] :
             n \in DOMAIN caches'[d] /\ caches'[d][n] = given'[d][n]
      <3> SUFFICES ASSUME NEW d \in Dirs, NEW n \in DOMAIN given'[d]
                   PROVE  n \in DOMAIN caches'[d] /\ caches'[d][n] = given'[d][n]
        OBVIOUS
      <3>1. given'[d] = Join(given[d], Fresh(d))
        BY <2>0
      <3>2. CASE n \in DOMAIN given[d]
        BY <1>2, <3>1, <3>2 DEF Extends, Join
      <3>3. CASE n \notin DOMAIN given[d]
        <4>1. n \in DOMAIN Fresh(d) /\ given'[d][n] = Fresh(d)[n]
          BY <3>1, <3>3 DEF Join
        <4> QED  BY <1>3, <4>1 DEF Generated
      <3> QED  BY <3>2, <3>3
    <2>2. \A n \in Generated : n \in DOMAIN given'[origin[n]]
      <3> SUFFICES ASSUME NEW n \in Generated PROVE n \in DOMAIN given'[origin[n]]
        OBVIOUS
      <3>1. origin[n] \in Dirs /\ n \in DOMAIN Fresh(origin[n])
        BY <1>3 DEF Generated
      <3> HIDE DEF Fresh
      <3>2. DOMAIN Join(given[origin[n]], Fresh(origin[n])) =
               DOMAIN given[origin[n]] \cup DOMAIN Fresh(origin[n])
        BY DEF Join
      <3>3. given'[origin[n]] = Join(given[origin[n]], Fresh(origin[n]))
        BY <2>0, <3>1
      <3> QED  BY <3>1, <3>2, <3>3
    <2>3. GivenRemembered'
      BY <1>9, <2>1 DEF GivenRemembered, Extends
    <2>4. GivenStays'
      BY <1>1, <1>3, <2>1, <2>2 DEF GivenStays, Generated
    <2> QED  BY <1>5, <1>6, <1>7, <2>3, <2>4 DEF IInv
  <1> QED  BY <1>1, <1>8, <1>9

LEMMA CloseFileKeeps ==
  ASSUME IInv, CloseFile
  PROVE  IInv'
  <1>1. phase = "lines" /\ ~changed /\ NextFile /\ UNCHANGED caches
    BY DEF CloseFile
  <1>2. Extends(caches'[dir], cache) /\ Extends(caches'[dir], given[dir])
    BY <1>1 DEF IInv, Shapes, CacheKeeps, GivenRemembered
  <1>3. caches' = [d \in Dirs |-> caches'[d]]
    BY <1>1 DEF IInv, Shapes
  <1> QED  BY <1>1, <1>2, <1>3, NextFileKeeps DEF InFile

LEMMA WriteKeeps ==
  ASSUME IInv, Write
  PROVE  IInv'
  <1>1. phase = "write" /\ caches' = [caches EXCEPT ![dir] = cache] /\ NextFile
    BY DEF Write
  <1>2. /\ caches' = [d \in Dirs |-> caches'[d]] /\ caches'[dir] = cache
        /\ \A d \in Dirs \ {dir} : caches'[d] = caches[d]
    BY <1>1 DEF IInv, Shapes
  <1>3. Extends(caches'[dir], cache) /\ Extends(caches'[dir], given[dir])
    BY <1>1, <1>2 DEF IInv, Shapes, GivenRemembered, Extends
  <1> QED  BY <1>1, <1>2, <1>3, NextFileKeeps DEF InFile

-----------------------------------------------------------------------------
(* Types. *)

ControlTyped ==
    /\ phase \in {"down", "idle", "files", "lines", "open", "write"}
    /\ config.debug \in {"unset", "on", "off"}
    /\ phase \in {"down", "idle"} => todo = <<>> /\ lines = <<>>
    /\ loads \in 0..MaxLoads /\ edits \in 0..MaxEdits

FlagsTyped == {starting, changed, ok} \subseteq BOOLEAN

\* The values of all maps were generated, or are fixed.
MapsTyped ==
    /\ serial \in Nat
    /\ IsMap(config.values) /\ IsMap(cache)
    /\ \A d \in Dirs : IsMap(caches[d]) /\ IsMap(given[d])

Typed == ControlTyped /\ FlagsTyped /\ MapsTyped

LEMMA TypedShapesAreTyped == Shapes /\ Typed => TypeOK
  <1> SUFFICES ASSUME Shapes, Typed PROVE TypeOK
    OBVIOUS
  <1>1. DOMAIN caches = Dirs
    BY DEF Shapes
  <1>2. DOMAIN origin \subseteq DOMAIN config.values /\ \A n \in DOMAIN origin : origin[n] \in Dirs
    BY DEF Shapes
  <1>3. /\ project \in Projects /\ dir \in Dirs
        /\ config.databases \in Dirs \cup {NoDir}
    BY DEF Shapes
  <1> QED  BY <1>1, <1>2, <1>3 DEF Typed, ControlTyped, FlagsTyped, MapsTyped, TypeOK

LEMMA InitTyped == Init => Typed
  <1> SUFFICES ASSUME Init PROVE Typed
    OBVIOUS
  <1>1. ControlTyped
    BY BoundsAssumption DEF Init, ControlTyped, Defaults
  <1>2. FlagsTyped
    BY DEF Init, FlagsTyped
  <1>3. IsMap(Empty)
    BY DEF IsMap, Empty
  <1>4. MapsTyped
    BY <1>3 DEF Init, MapsTyped, Defaults, Empty
  <1> QED  BY <1>1, <1>2, <1>4 DEF Typed

LEMMA FlagsStay == FlagsTyped /\ [Next]_vars => FlagsTyped'
  <1> SUFFICES ASSUME FlagsTyped, [Next]_vars PROVE FlagsTyped'
    OBVIOUS
  <1>1. CASE Start \/ Reload \/ OpenFile \/ OpenFails
    BY <1>1 DEF FlagsTyped, Start, Reload, Begin, OpenFile, OpenFails, Fail
  <1>2. CASE Recall \/ Generate \/ Fixed \/ Directory \/ Debug \/ Malformed
    BY <1>2 DEF FlagsTyped, Recall, Generate, Fixed, Directory, Debug, Malformed, Take, Fail
  <1>3. CASE CloseFile \/ Save \/ SaveFails \/ Truncate \/ Write \/ WriteFails
    BY <1>3 DEF FlagsTyped, CloseFile, Save, SaveFails, Truncate, Write, WriteFails, NextFile, Fail
  <1>4. CASE Crash \/ Edit \/ UNCHANGED vars
    BY <1>4 DEF FlagsTyped, Crash, Edit, vars, loadVars
  <1> QED  BY <1>1, <1>2, <1>3, <1>4 DEF Next

LEMMA ControlStays ==
  ASSUME Shapes, ControlTyped, [Next]_vars
  PROVE  ControlTyped'
  <1>1. CASE Start \/ Reload
    <2>1. /\ phase' = "files" /\ config'.debug \in {"unset", "on"}
          /\ loads < MaxLoads /\ loads' = loads + 1 /\ edits' = edits
      BY <1>1 DEF Start, Reload, Begin, Defaults
    <2>2. loads' \in 0..MaxLoads
      BY <2>1, BoundsAssumption DEF ControlTyped
    <2> QED  BY <2>1, <2>2 DEF ControlTyped
  <1>2. CASE OpenFile
    BY <1>2 DEF ControlTyped, OpenFile
  <1>3. CASE OpenFails \/ Malformed \/ SaveFails \/ WriteFails
    BY <1>3 DEF ControlTyped, OpenFails, Malformed, SaveFails, WriteFails, Fail
  <1>4. CASE Recall \/ Generate \/ Fixed \/ Directory \/ Debug
    <2>1. phase = "lines" /\ phase' = phase /\ loads' = loads /\ edits' = edits
      BY <1>4 DEF Recall, Generate, Fixed, Directory, Debug, Line, Take
    <2>2. config'.debug \in {config.debug, "on", "off"}
      BY <1>4 DEF Shapes, Recall, Generate, Fixed, Directory, Debug, Set
    <2> QED  BY <2>1, <2>2 DEF ControlTyped
  <1>5. CASE Save \/ Truncate
    BY <1>5 DEF ControlTyped, Save, Truncate
  <1>6. CASE CloseFile \/ Write
    <2>1. /\ NextFile /\ todo \in Seq(Stages) /\ todo # <<>>
      BY <1>6 DEF CloseFile, Write, Shapes, InFile
    <2>2. /\ lines' = <<>> /\ todo' = Tail(todo) /\ phase' \in {"files", "idle"}
          /\ phase' = "idle" => ~(Len(todo) > 1)
          /\ UNCHANGED <<config, loads, edits>>
      BY <2>1 DEF NextFile
    <2>3. phase' = "idle" => todo' = <<>>
      BY <2>1, <2>2, OneOrMore
    <2> QED  BY <2>2, <2>3 DEF ControlTyped
  <1>7. CASE Crash
    BY <1>7 DEF ControlTyped, Crash, Defaults
  <1>8. CASE Edit
    <2>1. /\ UNCHANGED <<phase, config, todo, lines, loads>>
          /\ edits < MaxEdits /\ edits' = edits + 1
      BY <1>8 DEF Edit, loadVars
    <2>2. edits' \in 0..MaxEdits
      BY <2>1, BoundsAssumption DEF ControlTyped
    <2> QED  BY <2>1, <2>2 DEF ControlTyped
  <1>9. CASE UNCHANGED vars
    BY <1>9 DEF ControlTyped, vars, loadVars
  <1> QED  BY <1>1, <1>2, <1>3, <1>4, <1>5, <1>6, <1>7, <1>8, <1>9 DEF Next

\* IsMap of the next state, of a map of this one.
MapThen(m) == DOMAIN m \subseteq Names /\ \A n \in DOMAIN m : m[n] \in 0..serial'

LEMMA StaysMap ==
  ASSUME serial \in Nat, serial' \in {serial, serial + 1}, NEW m, IsMap(m)
  PROVE  MapThen(m)
  <1>1. 0..serial \subseteq 0..serial'
    OBVIOUS
  <1> QED  BY <1>1 DEF IsMap, Values, MapThen

LEMMA PutIsMap ==
  ASSUME NEW m, MapThen(m), NEW name \in Names, NEW v \in 0..serial'
  PROVE  MapThen(Put(m, name, v))
  BY DEF MapThen, Put

\* A step that changes one map by a value, or replaces it, leaves all typed.
LEMMA MapsStay ==
  ASSUME Shapes, Typed, [Next]_vars
  PROVE  MapsTyped'
  <1>1. serial \in Nat /\ IsMap(config.values) /\ IsMap(cache)
        /\ \A d \in Dirs : IsMap(caches[d]) /\ IsMap(given[d])
    BY DEF Typed, MapsTyped
  <1>2. SUFFICES /\ serial' \in {serial, serial + 1}
                 /\ MapThen(config'.values) /\ MapThen(cache')
                 /\ \A d \in Dirs : MapThen(caches'[d]) /\ MapThen(given'[d])
    BY <1>1 DEF MapsTyped, IsMap, Values, MapThen
  <1>3. serial' \in {serial, serial + 1}
    BY DEF Next, Start, Reload, Begin, OpenFile, OpenFails, Fail, Recall, Generate, Fixed,
       Directory, Debug, Malformed, CloseFile, NextFile, Save, SaveFails, Truncate, Write,
       WriteFails, Crash, Edit, vars
  <1>4. /\ MapThen(config.values) /\ MapThen(cache) /\ MapThen(Empty)
        /\ \A d \in Dirs : MapThen(caches[d]) /\ MapThen(given[d])
    <2>1. MapThen(Empty)
      BY DEF MapThen, Empty
    <2> QED  BY <1>1, <1>3, <2>1, StaysMap
  <1>5. CASE Start \/ Reload
    <2>1. config'.values = Empty /\ UNCHANGED <<cache, caches, given>>
      BY <1>5 DEF Start, Reload, Begin, Defaults, history
    <2> QED  BY <1>3, <1>4, <2>1
  <1>6. CASE OpenFile
    BY <1>3, <1>4, <1>6 DEF OpenFile, history, Shapes
  <1>7. CASE OpenFails \/ Malformed \/ SaveFails \/ WriteFails
    <2>1. /\ UNCHANGED <<config, cache, caches>>
          /\ given' = given \/ given' = [given EXCEPT ![dir] = Empty]
      BY <1>7 DEF OpenFails, Malformed, SaveFails, WriteFails, Fail, Lose, history
    <2>2. \A d \in Dirs : given'[d] \in {given[d], Empty}
      BY <2>1 DEF Shapes
    <2> QED  BY <1>3, <1>4, <2>1, <2>2
  <1>8. CASE Recall \/ Generate \/ Fixed
    <2>1. /\ lines \in Seq(Entry) /\ lines # <<>> /\ UNCHANGED <<caches, given>>
          /\ Head(lines).kind \in {"generate", "fixed"}
      BY <1>8 DEF Recall, Generate, Fixed, Line, Take, history, Shapes
    <2>2. Head(lines).name \in Names
      <3>1. Head(lines) \in Entry
        BY <2>1
      <3> QED  BY <2>1, <3>1 DEF Entry
    <2> DEFINE name == Head(lines).name
    <2> HIDE DEF name
    <2>3. PICK v \in 0..serial' : /\ config'.values = Put(config.values, name, v)
                                  /\ cache' = cache \/ cache' = Put(cache, name, v)
      <3>1. CASE Recall
        <4>1. /\ name \in DOMAIN cache /\ cache' = cache
              /\ config' = [config EXCEPT !.values = Put(@, name, cache[name])]
          BY <3>1 DEF Recall, Set, name
        <4>2. cache[name] \in 0..serial'
          BY <1>4, <4>1 DEF MapThen
        <4>3. config'.values = Put(config.values, name, cache[name])
          BY <4>1 DEF Shapes
        <4> QED  BY <4>1, <4>2, <4>3
      <3>2. CASE Generate
        <4>1. /\ serial' = serial + 1 /\ cache' = Put(cache, name, serial + 1)
              /\ config' = [config EXCEPT !.values = Put(@, name, serial + 1)]
          BY <3>2 DEF Generate, Set, name
        <4>2. serial + 1 \in 0..serial'
          BY <1>1, <4>1
        <4>3. config'.values = Put(config.values, name, serial + 1)
          BY <4>1 DEF Shapes
        <4> QED  BY <4>1, <4>2, <4>3
      <3>3. CASE Fixed
        <4>1. cache' = cache /\ config' = [config EXCEPT !.values = Put(@, name, 0)]
          BY <3>3 DEF Fixed, Set, name
        <4>2. 0 \in 0..serial'
          BY <1>1, <1>3
        <4>3. config'.values = Put(config.values, name, 0)
          BY <4>1 DEF Shapes
        <4> QED  BY <4>1, <4>2, <4>3
      <3> QED  BY <1>8, <3>1, <3>2, <3>3
    <2>4. name \in Names
      BY <2>2 DEF name
    <2>5. MapThen(Put(config.values, name, v)) /\ MapThen(Put(cache, name, v))
      BY <1>4, <2>3, <2>4, PutIsMap
    <2> QED  BY <1>3, <1>4, <2>1, <2>3, <2>5
  <1>9. CASE Directory \/ Debug
    <2>1. UNCHANGED <<cache, caches, given>> /\ config'.values = config.values
      BY <1>9 DEF Directory, Debug, Take, history, Shapes
    <2> QED  BY <1>3, <1>4, <2>1
  <1>10. CASE CloseFile \/ Write
    <2>1. /\ NextFile /\ UNCHANGED <<config, cache>>
          /\ caches' = caches \/ caches' = [caches EXCEPT ![dir] = cache]
      BY <1>10 DEF CloseFile, Write, NextFile
    <2>2. \A d \in Dirs : caches'[d] \in {caches[d], cache}
      BY <2>1 DEF Shapes
    <2>3. \A d \in Dirs : MapThen(given'[d])
      <3> DEFINE Fresh(d) == [n \in {g \in Generated : origin[g] = d} |-> config.values[n]]
      <3>1. given' = given \/ given' = [d \in Dirs |-> Join(given[d], Fresh(d))]
        BY <2>1 DEF NextFile, history
      <3>2. ASSUME NEW d \in Dirs PROVE MapThen(Join(given[d], Fresh(d)))
        <4>1. MapThen(Fresh(d))
          BY <1>4 DEF MapThen, Generated, Shapes
        <4> HIDE DEF Fresh
        <4> QED  BY <1>4, <4>1 DEF MapThen, Join
      <3> HIDE DEF Fresh
      <3> QED  BY <1>4, <3>1, <3>2
    <2> QED  BY <1>3, <1>4, <2>1, <2>2, <2>3
  <1>11. CASE Save
    BY <1>3, <1>4, <1>11 DEF Save, history
  <1>12. CASE Truncate
    <2>1. UNCHANGED <<config, cache, given>> /\ caches' = [caches EXCEPT ![dir] = Empty]
      BY <1>12 DEF Truncate, history
    <2>2. \A d \in Dirs : caches'[d] \in {caches[d], Empty}
      BY <2>1 DEF Shapes
    <2> QED  BY <1>3, <1>4, <2>1, <2>2
  <1>13. CASE Crash
    <2>1. /\ config'.values = Empty /\ cache' = Empty /\ caches' = caches
          /\ given' = given \/ given' = [given EXCEPT ![dir] = Empty]
      BY <1>13 DEF Crash, Defaults, Lose, history
    <2>2. \A d \in Dirs : given'[d] \in {given[d], Empty}
      BY <2>1 DEF Shapes
    <2> QED  BY <1>3, <1>4, <2>1, <2>2
  <1>14. CASE Edit \/ UNCHANGED vars
    BY <1>3, <1>4, <1>14 DEF Edit, vars, loadVars, history
  <1> QED  BY <1>5, <1>6, <1>7, <1>8, <1>9, <1>10, <1>11, <1>12, <1>13, <1>14 DEF Next

-----------------------------------------------------------------------------
(* Theorems. *)

LEMMA StepKeeps == IInv /\ [Next]_vars => IInv'
  <1> SUFFICES ASSUME IInv, [Next]_vars PROVE IInv'
    OBVIOUS
  <1>1. CASE UNCHANGED vars
    BY <1>1 DEF vars, loadVars, history, IInv, Shapes, CacheKeeps, GivenRemembered,
       OriginRemembers, GivenStays, DirIsConfigured, InFile, Loaded, Generated,
       Remembered, Extends
  <1>2. CASE Next
    BY <1>2, BeginKeeps, OpenFileKeeps, FailKeeps, RecallKeeps, GenerateKeeps, FixedKeeps,
       SwitchKeeps, CloseFileKeeps, SaveKeepsInv, TruncateKeeps, WriteKeeps, CrashKeeps,
       EditKeeps DEF Next
  <1> QED  BY <1>1, <1>2

\* The inductive invariant of loads, restarts, crashes and edits.
THEOREM ConfigInvariance == Spec => []IInv
  BY InitHolds, StepKeeps, PTL DEF Spec

\* Generated values that load_config (lib.rs:697) gave out stay what they are,
\* in the sense of GivenStays.
THEOREM GivenAlwaysStays == Spec => []GivenStays
  <1>1. IInv => GivenStays
    BY DEF IInv
  <1> QED  BY <1>1, ConfigInvariance, PTL

\* Behind a load that succeeded, the databases directory (lib.rs:772) is the
\* one that is configured.
THEOREM DirAlwaysConfigured == Spec => []DirIsConfigured
  <1>1. IInv => DirIsConfigured
    BY DEF IInv
  <1> QED  BY <1>1, ConfigInvariance, PTL

\* The types of ConfigLoad: every map of values has values that were generated,
\* or zero, and nothing is left to load behind a load.
THEOREM TypeCorrect == Spec => []TypeOK
  <1>1. Init => Typed
    BY InitTyped
  <1>2. IInv /\ Typed /\ [Next]_vars => Typed'
    BY ControlStays, FlagsStay, MapsStay DEF IInv, Typed
  <1>3. IInv /\ Typed => TypeOK
    BY TypedShapesAreTyped DEF IInv
  <1> QED  BY <1>1, <1>2, <1>3, ConfigInvariance, PTL DEF Spec
=============================================================================
