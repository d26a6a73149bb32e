--------------------------- MODULE DispatchProof ---------------------------
(***************************************************************************)
(* Proofs about Dispatch, for any number of dispatches, any requests, any  *)
(* limit, any length of its window and any configuration: first of the     *)
(* counters and flags, then of the limiter; and about Routing, which makes *)
(* what the dispatcher looks through, for any application and any paths.   *)
(***************************************************************************)
EXTENDS Dispatch, Routing, Integers, FiniteSetTheorems, SequenceTheorems, WellFoundedInduction,
        TLAPS

\* The dispatches under way.
Busy == {d \in Dispatches : phase[d] # "idle"}

\* The shape of the state, as far as counting and flags need it.
Shapes ==
    /\ stats \in [Counters -> Int] /\ uncounted \in Int
    /\ phase \in [Dispatches -> Phases]
    /\ target = [d \in Dispatches |-> target[d]]
    /\ user \in [Dispatches -> BOOLEAN] /\ byAuth \in [Dispatches -> BOOLEAN]

\* A route that is past its comparison holds it: the user that AUTH found does
\* not change, whatever the middleware sets.
FlagsKept ==
    \A d \in Dispatches :
        phase[d] = "middleware" /\ target[d].kind = "route" =>
            Authorized(target[d].auth, byAuth[d])

IInv == Shapes /\ PendingCounts /\ Accounted /\ FlagsKept /\ FlagsHold

-----------------------------------------------------------------------------
(* A dispatch that starts or ends moves one element of Busy. *)

LEMMA BusyFinite == IsFiniteSet(Busy)
  BY DispatchesAssumption, FS_Subset DEF Busy

\* One more dispatch is under way when an idle one starts.
LEMMA Started ==
  ASSUME NEW d \in Dispatches, phase \in [Dispatches -> Phases], phase[d] = "idle",
         NEW p \in Phases \ {"idle"}, phase' = [phase EXCEPT ![d] = p]
  PROVE  Cardinality(Busy') = Cardinality(Busy) + 1
  <1>1. Busy' = Busy \cup {d} /\ d \notin Busy
    BY DEF Busy
  <1> QED  BY <1>1, BusyFinite, FS_AddElement

\* One less is under way when a busy one ends.
LEMMA Ended ==
  ASSUME NEW d \in Dispatches, phase \in [Dispatches -> Phases], phase[d] # "idle",
         phase' = [phase EXCEPT ![d] = "idle"]
  PROVE  Cardinality(Busy') = Cardinality(Busy) - 1
  <1>1. Busy' = Busy \ {d} /\ d \in Busy
    BY DEF Busy, Phases
  <1> QED  BY <1>1, BusyFinite, FS_RemoveElement

\* None starts or ends when a busy one goes from an await to the next.
LEMMA Moved ==
  ASSUME NEW d \in Dispatches, phase \in [Dispatches -> Phases], phase[d] # "idle",
         NEW p \in Phases \ {"idle"}, phase' = [phase EXCEPT ![d] = p]
  PROVE  Busy' = Busy
  BY DEF Busy

-----------------------------------------------------------------------------
(* What the ends of a dispatch keep. *)

\* A response is counted once, and its dispatch is pending no more.
LEMMA AnswerKeeps ==
  ASSUME IInv, NEW d \in Dispatches, NEW class, phase[d] # "idle",
         class # "pending", class # "requests", class # "blocked", class # "throttled",
         Answer(d, class)
  PROVE  IInv'
  <1> USE DEF IInv
  <1>1. Shapes'
    <2>1. stats' \in [Counters -> Int] /\ uncounted' \in Int
      BY DEF Answer, Shapes
    <2>2. target' = [e \in Dispatches |-> target'[e]]
      BY DEF Answer, Leave, Shapes
    <2>3. /\ phase' \in [Dispatches -> Phases]
          /\ user' \in [Dispatches -> BOOLEAN] /\ byAuth' \in [Dispatches -> BOOLEAN]
      BY DEF Answer, Leave, Shapes, Phases
    <2> QED  BY <2>1, <2>2, <2>3 DEF Shapes
  <1>2. PendingCounts'
    BY Ended DEF Answer, Leave, Shapes, PendingCounts, Counters, Busy
  <1>3. Accounted'
    BY DEF Answer, Shapes, Accounted, Counters
  <1>4. FlagsKept' /\ FlagsHold'
    BY DEF Answer, Leave, Shapes, FlagsKept, FlagsHold
  <1> QED  BY <1>1, <1>2, <1>3, <1>4

\* A dispatch that is dropped or panics is pending no more, either.
LEMMA VanishKeeps ==
  ASSUME IInv, NEW d \in Dispatches, phase[d] # "idle", Vanish(d)
  PROVE  IInv'
  <1> USE DEF IInv
  <1>1. Shapes'
    <2>1. stats' \in [Counters -> Int] /\ uncounted' \in Int
      BY DEF Vanish, Shapes, Counters
    <2>2. target' = [e \in Dispatches |-> target'[e]]
      BY DEF Vanish, Leave, Shapes
    <2>3. /\ phase' \in [Dispatches -> Phases]
          /\ user' \in [Dispatches -> BOOLEAN] /\ byAuth' \in [Dispatches -> BOOLEAN]
      BY DEF Vanish, Leave, Shapes, Phases
    <2> QED  BY <2>1, <2>2, <2>3 DEF Shapes
  <1>2. PendingCounts'
    BY Ended DEF Vanish, Leave, Shapes, PendingCounts, Counters, Busy
  <1>3. Accounted'
    BY DEF Vanish, Shapes, Accounted, Counters
  <1>4. FlagsKept' /\ FlagsHold'
    BY DEF Vanish, Leave, Shapes, FlagsKept, FlagsHold
  <1> QED  BY <1>1, <1>2, <1>3, <1>4

\* A dispatch that moves keeps all counts.
LEMMA GotoKeepsCounts ==
  ASSUME IInv, NEW d \in Dispatches, phase[d] # "idle",
         NEW p \in Phases \ {"idle"}, Goto(d, p)
  PROVE  PendingCounts' /\ Accounted'
  BY Moved DEF IInv, Shapes, Goto, PendingCounts, Accounted, Busy

-----------------------------------------------------------------------------
(* The invariant. *)

LEMMA InitHolds == Init => IInv
  <1> SUFFICES ASSUME Init PROVE IInv
    OBVIOUS
  <1>1. Shapes
    BY DEF Init, Shapes, Phases, Counters
  <1>2. PendingCounts
    <2>1. {d \in Dispatches : phase[d] # "idle"} = {}
      BY DEF Init
    <2> QED  BY <2>1, FS_EmptySet DEF Init, PendingCounts, Counters
  <1>3. Accounted
    BY DEF Init, Accounted, Counters
  <1>4. FlagsKept /\ FlagsHold
    BY DEF Init, FlagsKept, FlagsHold
  <1> QED  BY <1>1, <1>2, <1>3, <1>4 DEF IInv

\* Requests that are answered at the door.
LEMMA DoorKeeps ==
  ASSUME IInv, NEW d \in Dispatches, NEW r \in Requests, Block(d, r) \/ Throttle(d, r)
  PROVE  IInv'
  <1>1. UNCHANGED <<taskVars, uncounted>>
    BY DEF Block, Throttle
  <1>2. PICK why \in {"blocked", "throttled"} : Bump({"requests", why, "4xx"})
    BY DEF Block, Throttle
  <1>3. Shapes'
    BY <1>1, <1>2 DEF IInv, Shapes, taskVars, Bump
  <1>4. PendingCounts'
    BY <1>1, <1>2 DEF IInv, PendingCounts, taskVars, Bump, Counters
  <1>5. Accounted'
    BY <1>1, <1>2 DEF IInv, Shapes, Accounted, Bump, Counters
  <1>6. FlagsKept' /\ FlagsHold'
    BY <1>1 DEF IInv, FlagsKept, FlagsHold, taskVars
  <1> QED  BY <1>3, <1>4, <1>5, <1>6 DEF IInv

LEMMA AdmitKeeps ==
  ASSUME IInv, NEW d \in Dispatches, NEW r \in Requests, Admit(d, r)
  PROVE  IInv'
  <1>1. /\ phase[d] = "idle" /\ phase' = [phase EXCEPT ![d] = "routing"]
        /\ UNCHANGED <<target, user, byAuth, uncounted>>
        /\ Bump({"requests", "pending"})
    BY DEF Admit, CanStart
  <1>2. Shapes'
    BY <1>1 DEF IInv, Shapes, Phases, Bump
  <1>3. PendingCounts'
    BY <1>1, Started DEF IInv, Shapes, PendingCounts, Bump, Counters, Busy, Phases
  <1>4. Accounted'
    BY <1>1 DEF IInv, Shapes, Accounted, Bump, Counters
  <1>5. FlagsKept' /\ FlagsHold'
    BY <1>1 DEF IInv, Shapes, FlagsKept, FlagsHold
  <1> QED  BY <1>2, <1>3, <1>4, <1>5 DEF IInv

LEMMA SelectKeeps ==
  ASSUME IInv, NEW d \in Dispatches, Select(d)
  PROVE  IInv'
  <1>1. /\ phase[d] = "routing" /\ Goto(d, "auth")
        /\ target' = [target EXCEPT ![d] = Found(request[d])]
        /\ UNCHANGED <<user, byAuth>>
    BY DEF Select
  <1>2. PendingCounts' /\ Accounted'
    BY <1>1, GotoKeepsCounts DEF Phases
  <1>3. Shapes'
    BY <1>1 DEF IInv, Shapes, Goto, Phases
  <1>4. FlagsKept' /\ FlagsHold'
    BY <1>1 DEF IInv, Shapes, FlagsKept, FlagsHold, Goto
  <1> QED  BY <1>2, <1>3, <1>4 DEF IInv

LEMMA NoTargetKeeps ==
  ASSUME IInv, NEW d \in Dispatches, NoTarget(d)
  PROVE  IInv'
  <1>1. phase[d] = "routing"
    BY DEF NoTarget
  <1>2. CASE Answer(d, "4xx")
    BY <1>1, <1>2, AnswerKeeps
  <1>3. CASE Goto(d, "static") /\ UNCHANGED <<target, user, byAuth>>
    <2>1. PendingCounts' /\ Accounted'
      BY <1>1, <1>3, GotoKeepsCounts DEF Phases
    <2>2. Shapes'
      BY <1>3 DEF IInv, Shapes, Goto, Phases
    <2>3. FlagsKept' /\ FlagsHold'
      BY <1>3 DEF IInv, Shapes, FlagsKept, FlagsHold, Goto
    <2> QED  BY <2>1, <2>2, <2>3 DEF IInv
  <1> QED  BY <1>2, <1>3 DEF NoTarget

\* The comparison of a route makes FlagsKept, for the user that AUTH found.
LEMMA AuthDoneKeeps ==
  ASSUME IInv, NEW d \in Dispatches, AuthDone(d)
  PROVE  IInv'
  <1>1. phase[d] = "auth"
    BY DEF AuthDone
  <1>2. PICK known \in BOOLEAN :
           IF target[d].kind = "route" /\ ~Authorized(target[d].auth, known)
           THEN Answer(d, "4xx")
           ELSE /\ user' = [user EXCEPT ![d] = known]
                /\ byAuth' = [byAuth EXCEPT ![d] = known]
                /\ Goto(d, "middleware")
                /\ UNCHANGED <<target, passed>>
    BY DEF AuthDone
  <1>3. CASE Answer(d, "4xx")
    BY <1>1, <1>3, AnswerKeeps
  <1>4. CASE /\ ~(target[d].kind = "route" /\ ~Authorized(target[d].auth, known))
             /\ user' = [user EXCEPT ![d] = known]
             /\ byAuth' = [byAuth EXCEPT ![d] = known]
             /\ Goto(d, "middleware")
             /\ UNCHANGED target
    <2>1. PendingCounts' /\ Accounted'
      BY <1>1, <1>4, GotoKeepsCounts DEF Phases
    <2>2. Shapes'
      BY <1>4 DEF IInv, Shapes, Goto, Phases
    <2>3. FlagsKept'
      BY <1>4 DEF IInv, Shapes, FlagsKept, Goto
    <2>4. FlagsHold'
      BY <1>4 DEF IInv, Shapes, FlagsHold, Goto
    <2> QED  BY <2>1, <2>2, <2>3, <2>4 DEF IInv
  <1> QED  BY <1>2, <1>3, <1>4

\* Middleware changes the user, which a route is not compared with again.
LEMMA MiddlewareKeeps ==
  ASSUME IInv, NEW d \in Dispatches, Middleware(d)
  PROVE  IInv'
  <1>1. PICK known \in BOOLEAN :
           /\ phase[d] = "middleware" /\ Goto(d, "middleware")
           /\ user' = [user EXCEPT ![d] = known]
           /\ UNCHANGED <<target, byAuth>>
    BY DEF Middleware
  <1>2. PendingCounts' /\ Accounted'
    BY <1>1, GotoKeepsCounts DEF Phases
  <1>3. Shapes'
    BY <1>1 DEF IInv, Shapes, Goto, Phases
  <1>4. FlagsKept'
    BY <1>1 DEF IInv, Shapes, FlagsKept, Goto
  <1>5. FlagsHold'
    BY <1>1 DEF IInv, Shapes, FlagsHold, Goto
  <1> QED  BY <1>2, <1>3, <1>4, <1>5 DEF IInv

\* Behind the middleware a route brings what FlagsKept says, and everything
\* else is compared.
LEMMA EnterKeeps ==
  ASSUME IInv, NEW d \in Dispatches, Enter(d)
  PROVE  IInv'
  <1>1. phase[d] = "middleware"
    BY DEF Enter
  <1>2. CASE Answer(d, "4xx")
    BY <1>1, <1>2, AnswerKeeps
  <1>3. CASE \E p \in {"handler", "upgrade"} :
               /\ target[d].kind # "route" => Authorized(target[d].auth, user[d])
               /\ Goto(d, p) /\ UNCHANGED <<target, user, byAuth>>
    <2>1. PICK p \in {"handler", "upgrade"} :
             /\ target[d].kind # "route" => Authorized(target[d].auth, user[d])
             /\ Goto(d, p) /\ UNCHANGED <<target, user, byAuth>>
      BY <1>3
    <2>2. PendingCounts' /\ Accounted'
      BY <1>1, <2>1, GotoKeepsCounts DEF Phases
    <2>3. Shapes'
      BY <2>1 DEF IInv, Shapes, Goto, Phases
    <2>4. FlagsKept'
      BY <2>1 DEF IInv, Shapes, FlagsKept, Goto
    <2>5. FlagsHold'
      BY <1>1, <2>1 DEF IInv, Shapes, FlagsKept, FlagsHold, Goto
    <2> QED  BY <2>2, <2>3, <2>4, <2>5 DEF IInv
  <1> QED  BY <1>2, <1>3 DEF Enter

\* Everything else ends the dispatch.
LEMMA EndKeeps ==
  ASSUME IInv, NEW d \in Dispatches,
         \/ NotWellFormed(d) \/ Options(d) \/ Static(d) \/ AuthRefuses(d)
         \/ MiddlewareRefuses(d) \/ HandlerDone(d) \/ Upgrade(d) \/ Cancel(d) \/ Panic(d)
  PROVE  IInv'
  <1>1. phase[d] # "idle"
    BY DEF NotWellFormed, Options, Static, AuthRefuses, MiddlewareRefuses, HandlerDone,
           Upgrade, Cancel, Panic, Awaits
  <1>2. \/ Vanish(d)
        \/ \E class \in {"1xx", "2xx", "3xx", "4xx", "5xx"} : Answer(d, class)
    BY RepliesAssumption
       DEF NotWellFormed, Options, Static, AuthRefuses, MiddlewareRefuses, HandlerDone,
           Upgrade, Cancel, Panic
  <1> QED  BY <1>1, <1>2, AnswerKeeps, VanishKeeps

LEMMA StepKeeps == IInv /\ [Next]_vars => IInv'
  <1> SUFFICES ASSUME IInv, [Next]_vars PROVE IInv'
    OBVIOUS
  <1>1. CASE Tick \/ UNCHANGED vars
    <2>1. UNCHANGED <<stats, phase, target, user, byAuth, uncounted>>
      BY <1>1 DEF Tick, vars, taskVars
    <2> QED  BY <2>1 DEF IInv, Shapes, PendingCounts, Accounted, FlagsKept, FlagsHold
  <1>2. ASSUME NEW d \in Dispatches, Step(d) PROVE IInv'
    BY <1>2, DoorKeeps, AdmitKeeps, SelectKeeps, NoTargetKeeps, AuthDoneKeeps,
       MiddlewareKeeps, EnterKeeps, EndKeeps DEF Step
  <1> QED  BY <1>1, <1>2 DEF Next

\* The inductive invariant: counts and flags agree in every state.
THEOREM Invariance == Spec => []IInv
  BY InitHolds, StepKeeps, PTL DEF Spec

\* The pending counter (statistics.rs:57) is the number of dispatches under
\* way, whether they end in responses, deadlines, aborts or panics.
THEOREM PendingBalances == Spec => []PendingCounts
  <1>1. IInv => PendingCounts
    BY DEF IInv
  <1> QED  BY <1>1, Invariance, PTL

\* Every request that dispatch (lib.rs:1282) counts is in one class of
\* responses, pending, or known to have left without a response.
THEOREM EveryoneAccounted == Spec => []Accounted
  <1>1. IInv => Accounted
    BY DEF IInv
  <1> QED  BY <1>1, Invariance, PTL

\* No handler runs against the AUTH flag of its route, API endpoint or
\* websocket (lib.rs:3607, 3667, 1543), in the sense of FlagsHold.
THEOREM FlagsAlwaysHold == Spec => []FlagsHold
  <1>1. IInv => FlagsHold
    BY DEF IInv
  <1> QED  BY <1>1, Invariance, PTL

-----------------------------------------------------------------------------
(* The limiter. *)

\* What was admitted from an address: since a window started, in the window's
\* length before that, and in the window's length before now.
Since(ip, t)  == {a \in admitted : a.ip = ip /\ t <= a.at}
Before(ip, t) == {a \in admitted : a.ip = ip /\ a.at < t /\ t < a.at + Window}
Recent(ip)    == {a \in admitted : a.ip = ip /\ now < a.at + Window}

AtMost(S, n) == Cardinality(S) <= n

Times ==
    /\ now \in Nat
    /\ IsFiniteSet(admitted)
    /\ \A a \in admitted : a.at \in Nat /\ a.at <= now
    /\ \A ip \in DOMAIN limits :
          limits[ip] \in [start : Nat, count : Nat] /\ limits[ip].start <= now

\* The window of an address has counted all that it let pass, and followed one
\* that let no more than the limit pass.
WindowsCount ==
    \A ip \in DOMAIN limits :
        /\ AtMost(Since(ip, limits[ip].start), limits[ip].count)
        /\ AtMost(Since(ip, limits[ip].start), Limit)
        /\ AtMost(Before(ip, limits[ip].start), Limit)

\* The window of an address that was pruned let no more than the limit pass.
PrunedCounted == \A ip \in Ips \ DOMAIN limits : AtMost(Recent(ip), Limit)

\* A window that is over has nothing behind its end.
Anchored ==
    \A a \in admitted :
        IF a.ip \in DOMAIN limits THEN a.at < limits[a.ip].start + Window ELSE a.at < now

Bounded == WindowsCount /\ PrunedCounted /\ Anchored /\ WindowsBounded

LimiterInv == Times /\ (Limit > 0 => Bounded)

-----------------------------------------------------------------------------
(* Lemmas on sets of admitted requests. *)

LEMMA AdmittedFinite ==
  ASSUME Times, NEW S, S \subseteq admitted
  PROVE  IsFiniteSet(S) /\ Cardinality(S) \in Nat
  BY FS_Subset, FS_CardinalityType DEF Times

\* What is inside a set that is bounded is bounded.
LEMMA Inside ==
  ASSUME Times, NEW S, NEW R, S \subseteq R, R \subseteq admitted, NEW n \in Nat, AtMost(R, n)
  PROVE  AtMost(S, n)
  BY AdmittedFinite, FS_Subset DEF AtMost

\* One element more is one more at most.
LEMMA OneMore ==
  ASSUME NEW S, IsFiniteSet(S), NEW x
  PROVE  /\ IsFiniteSet(S \cup {x}) /\ Cardinality(S \cup {x}) \in Nat
         /\ Cardinality(S \cup {x}) <= Cardinality(S) + 1
  <1>1. Cardinality(S) \in Nat
    BY FS_CardinalityType
  <1>2. /\ IsFiniteSet(S \cup {x})
        /\ Cardinality(S \cup {x}) = IF x \in S THEN Cardinality(S) ELSE Cardinality(S) + 1
    BY FS_AddElement
  <1>3. Cardinality(S \cup {x}) \in Nat /\ Cardinality(S \cup {x}) <= Cardinality(S) + 1
    BY <1>1, <1>2
  <1> QED  BY <1>2, <1>3

\* A union is no larger than its parts together.
LEMMA UnionBound ==
  ASSUME NEW S, IsFiniteSet(S), NEW T, IsFiniteSet(T)
  PROVE  /\ IsFiniteSet(S \cup T) /\ Cardinality(S \cup T) \in Nat
         /\ Cardinality(S \cup T) <= Cardinality(S) + Cardinality(T)
  <1>1. IsFiniteSet(S \cup T) /\ IsFiniteSet(S \cap T)
    BY FS_Union, FS_Intersection
  <1>2. /\ Cardinality(S) \in Nat /\ Cardinality(T) \in Nat
        /\ Cardinality(S \cup T) \in Nat /\ Cardinality(S \cap T) \in Nat
    BY <1>1, FS_CardinalityType
  <1>3. Cardinality(S \cup T) = Cardinality(S) + Cardinality(T) - Cardinality(S \cap T)
    BY FS_Union
  <1> QED  BY <1>1, <1>2, <1>3

-----------------------------------------------------------------------------
(* A request that the limiter counts. *)

\* After Count, the address has a live window, the other live windows are as
\* they were, and all that are over are gone.
LEMMA Counted ==
  ASSUME Times, NEW ip \in Ips, Limit > 0, Count(ip)
  PROVE  /\ DOMAIN limits' = DOMAIN Live \cup {ip}
         /\ limits'[ip] = Opened(ip)
         /\ \A i \in DOMAIN Live \ {ip} : limits'[i] = limits[i]
         /\ \A i \in DOMAIN limits' :
               limits'[i] \in [start : Nat, count : Nat] /\ limits'[i].start <= now
         /\ \A i \in DOMAIN limits' : now - limits'[i].start < Window
  <1>1. Limit # 0
    BY LimitsAssumption
  <1>2. limits' = [i \in DOMAIN Live \cup {ip} |-> IF i = ip THEN Opened(ip) ELSE Live[i]]
    BY <1>1 DEF Count
  <1>3. \A i \in DOMAIN Live : /\ i \in DOMAIN limits /\ Live[i] = limits[i]
                               /\ now - limits[i].start < Window
    BY DEF Live
  <1>4. Opened(ip) \in [start : Nat, count : Nat] /\ Opened(ip).start <= now
    BY <1>3 DEF Opened, Times
  <1>5. now - Opened(ip).start < Window
    BY <1>3, LimitsAssumption DEF Opened, Times
  <1> QED  BY <1>2, <1>3, <1>4, <1>5 DEF Times

\* Where no window is live, the last one is over, and counted what it let pass.
LEMMA NoneLive ==
  ASSUME Times, Bounded, Limit > 0, NEW i \in Ips, i \notin DOMAIN Live
  PROVE  AtMost(Recent(i), Limit) /\ \A a \in admitted : a.ip = i => a.at < now
  <1>1. CASE i \in DOMAIN limits
    <2>1. now >= limits[i].start + Window
      BY <1>1, LimitsAssumption DEF Live, Times
    <2>2. Recent(i) \subseteq Since(i, limits[i].start) /\ Since(i, limits[i].start) \subseteq admitted
      BY <1>1, <2>1, LimitsAssumption DEF Recent, Since, Times
    <2>3. AtMost(Recent(i), Limit)
      BY <1>1, <2>2, Inside, LimitsAssumption DEF Bounded, WindowsCount
    <2>4. ASSUME NEW a \in admitted, a.ip = i PROVE a.at < now
      BY <1>1, <2>1, <2>4, LimitsAssumption DEF Bounded, Anchored, Times
    <2> QED  BY <2>3, <2>4
  <1>2. CASE i \notin DOMAIN limits
    BY <1>2 DEF Bounded, PrunedCounted, Anchored
  <1> QED  BY <1>1, <1>2

\* What the window of a request that is about to be counted has let pass.
LEMMA OpenedCounts ==
  ASSUME Times, Bounded, Limit > 0, NEW ip \in Ips
  PROVE  /\ Opened(ip) \in [start : Nat, count : Nat \ {0}]
         /\ Opened(ip).start <= now /\ now - Opened(ip).start < Window
         /\ AtMost(Since(ip, Opened(ip).start), Opened(ip).count - 1)
         /\ AtMost(Since(ip, Opened(ip).start), Limit)
         /\ AtMost(Before(ip, Opened(ip).start), Limit)
         /\ \A a \in admitted : a.ip = ip => a.at < Opened(ip).start + Window
  <1>1. CASE ip \in DOMAIN Live
    <2>1. /\ ip \in DOMAIN limits /\ now - limits[ip].start < Window
          /\ limits[ip] \in [start : Nat, count : Nat] /\ limits[ip].start <= now
      BY <1>1 DEF Live, Times
    <2>2. Opened(ip) = [start |-> limits[ip].start, count |-> limits[ip].count + 1]
      BY <1>1, <2>1 DEF Opened, Live
    <2> QED  BY <2>1, <2>2 DEF Bounded, WindowsCount, Anchored
  <1>2. CASE ip \notin DOMAIN Live
    <2>1. Opened(ip) = [start |-> now, count |-> 1]
      BY <1>2 DEF Opened
    <2>2. \A a \in admitted : a.ip = ip => a.at < now
      BY <1>2, NoneLive
    <2>3. Since(ip, now) = {}
      BY <2>2 DEF Since, Times
    <2>4. AtMost(Since(ip, now), 0) /\ AtMost(Since(ip, now), Limit)
      BY <2>3, FS_EmptySet, LimitsAssumption DEF AtMost
    <2>5. Before(ip, now) \subseteq Recent(ip) /\ Recent(ip) \subseteq admitted
      BY DEF Before, Recent
    <2>6. AtMost(Before(ip, now), Limit)
      BY <1>2, <2>5, NoneLive, Inside, LimitsAssumption
    <2> QED  BY <2>1, <2>2, <2>4, <2>6, LimitsAssumption DEF Times
  <1> QED  BY <1>1, <1>2

\* The step of the limiter: the request is counted, and let pass or not.
LEMMA CountKeeps ==
  ASSUME LimiterInv, NEW ip \in Ips, Count(ip), now' = now, NEW x, x.ip = ip, x.at = now,
         admitted' = admitted \/ (admitted' = admitted \cup {x} /\ ~Exceeded(ip))
  PROVE  LimiterInv'
  <1> USE DEF LimiterInv
  <1>1. now' \in Nat /\ IsFiniteSet(admitted') /\ \A a \in admitted' : a.at \in Nat /\ a.at <= now'
    BY FS_AddElement DEF Times
  <1>2. CASE Limit = 0
    <2>1. limits' = limits
      BY <1>2 DEF Count
    <2> QED  BY <1>1, <1>2, <2>1 DEF Times
  <1>3. CASE Limit > 0
    <2>1. /\ DOMAIN limits' = DOMAIN Live \cup {ip}
          /\ limits'[ip] = Opened(ip)
          /\ \A i \in DOMAIN Live \ {ip} : limits'[i] = limits[i] /\ i \in DOMAIN limits
          /\ \A i \in DOMAIN limits' :
                limits'[i] \in [start : Nat, count : Nat] /\ limits'[i].start <= now
      BY <1>3, Counted DEF Live
    <2>2. PICK s \in Nat, k \in Nat \ {0} : Opened(ip) = [start |-> s, count |-> k]
      BY <1>3, OpenedCounts
    <2>3. /\ s <= now /\ now - s < Window
          /\ AtMost(Since(ip, s), k - 1) /\ AtMost(Since(ip, s), Limit)
          /\ AtMost(Before(ip, s), Limit)
          /\ \A a \in admitted : a.ip = ip => a.at < s + Window
      BY <1>3, <2>2, OpenedCounts
    <2>4. Times'
      BY <1>1, <2>1 DEF Times
    <2> DEFINE SinceN(i, t)  == {a \in admitted' : a.ip = i /\ t <= a.at}
               BeforeN(i, t) == {a \in admitted' : a.ip = i /\ a.at < t /\ t < a.at + Window}
    <2>5. AtMost(SinceN(ip, s), k) /\ AtMost(SinceN(ip, s), Limit)
      <3>1. CASE admitted' = admitted
        <4>1. SinceN(ip, s) = Since(ip, s)
          BY <3>1 DEF Since
        <4>2. Cardinality(Since(ip, s)) \in Nat
          BY AdmittedFinite DEF Since
        <4> HIDE DEF SinceN
        <4> QED  BY <2>3, <4>1, <4>2, LimitsAssumption DEF AtMost
      <3>2. CASE admitted' = admitted \cup {x} /\ ~Exceeded(ip)
        <4>1. k <= Limit
          BY <1>3, <2>2, <3>2, LimitsAssumption DEF Exceeded
        <4>2. SinceN(ip, s) = Since(ip, s) \cup {x}
          BY <2>3, <3>2 DEF Since, Times
        <4>3. IsFiniteSet(Since(ip, s)) /\ Cardinality(Since(ip, s)) \in Nat
          BY AdmittedFinite DEF Since
        <4>4. /\ Cardinality(SinceN(ip, s)) <= Cardinality(Since(ip, s)) + 1
              /\ Cardinality(SinceN(ip, s)) \in Nat
          <5> HIDE DEF SinceN
          <5> QED  BY <4>2, <4>3, OneMore
        <4> HIDE DEF SinceN
        <4>5. Cardinality(Since(ip, s)) <= k - 1
          BY <2>3 DEF AtMost
        <4>6. Cardinality(SinceN(ip, s)) <= k /\ Cardinality(SinceN(ip, s)) <= Limit
          BY <4>1, <4>3, <4>4, <4>5, LimitsAssumption
        <4> QED  BY <4>6 DEF AtMost
      <3> QED  BY <3>1, <3>2
    <2>6. AtMost(BeforeN(ip, s), Limit)
      <3>1. BeforeN(ip, s) = Before(ip, s)
        BY <2>3 DEF Before, Times
      <3> QED  BY <2>3, <3>1
    <2>7. WindowsCount'
      <3> SUFFICES ASSUME NEW i \in DOMAIN limits'
                   PROVE  /\ AtMost(SinceN(i, limits'[i].start), limits'[i].count)
                          /\ AtMost(SinceN(i, limits'[i].start), Limit)
                          /\ AtMost(BeforeN(i, limits'[i].start), Limit)
        BY DEF WindowsCount, Since, Before, AtMost
      <3>1. CASE i = ip
        <4> HIDE DEF SinceN, BeforeN
        <4>1. limits'[i].start = s /\ limits'[i].count = k
          BY <2>1, <2>2, <3>1
        <4> QED  BY <2>5, <2>6, <3>1, <4>1
      <3>2. CASE i # ip
        <4>1. i \in DOMAIN limits /\ limits'[i] = limits[i]
          BY <2>1, <3>2
        <4>2. /\ SinceN(i, limits[i].start) = Since(i, limits[i].start)
              /\ BeforeN(i, limits[i].start) = Before(i, limits[i].start)
          BY <3>2 DEF Since, Before
        <4> QED  BY <1>3, <4>1, <4>2 DEF Bounded, WindowsCount
      <3> QED  BY <3>1, <3>2
    <2>8. PrunedCounted'
      <3> SUFFICES ASSUME NEW i \in Ips \ DOMAIN limits'
                   PROVE  AtMost({a \in admitted' : a.ip = i /\ now < a.at + Window}, Limit)
        BY DEF PrunedCounted, Recent, AtMost
      <3>1. i # ip /\ i \notin DOMAIN Live
        BY <2>1
      <3>2. {a \in admitted' : a.ip = i /\ now < a.at + Window} = Recent(i)
        BY <3>1 DEF Recent
      <3> QED  BY <1>3, <3>1, <3>2, NoneLive
    <2>9. Anchored'
      <3> SUFFICES ASSUME NEW a \in admitted'
                   PROVE  IF a.ip \in DOMAIN limits' THEN a.at < limits'[a.ip].start + Window
                                                     ELSE a.at < now
        BY DEF Anchored
      <3>1. CASE a.ip = ip
        BY <2>1, <2>2, <2>3, <3>1, LimitsAssumption DEF Times
      <3>2. CASE a.ip # ip /\ a.ip \in DOMAIN limits'
        BY <1>3, <2>1, <3>2 DEF Bounded, Anchored
      <3>3. CASE a.ip # ip /\ a.ip \notin DOMAIN limits'
        <4>1. a \in admitted
          BY <3>3
        <4>2. CASE a.ip \in DOMAIN limits
          <5>1. now - limits[a.ip].start >= Window
            BY <2>1, <3>3, <4>2, LimitsAssumption DEF Live, Times
          <5> QED  BY <1>3, <3>3, <4>1, <4>2, <5>1, LimitsAssumption DEF Bounded, Anchored, Times
        <4>3. CASE a.ip \notin DOMAIN limits
          BY <1>3, <3>3, <4>1, <4>3 DEF Bounded, Anchored
        <4> QED  BY <4>2, <4>3
      <3> QED  BY <3>1, <3>2, <3>3
    <2>10. WindowsBounded'
      <3> SUFFICES ASSUME NEW i \in Ips, NEW from \in 0..MaxTime
                   PROVE  Cardinality({a \in admitted' : a.ip = i /\ from <= a.at /\ a.at < from + Window})
                             <= 2 * Limit
        BY DEF WindowsBounded, Passed
      <3> DEFINE P == {a \in admitted' : a.ip = i /\ from <= a.at /\ a.at < from + Window}
      <3>1. Cardinality(Passed(i, from)) <= 2 * Limit
        BY <1>3 DEF Bounded, WindowsBounded
      <3>2. CASE x \notin P \/ admitted' = admitted
        <4>1. P = Passed(i, from)
          BY <3>2 DEF Passed
        <4> QED  BY <3>1, <4>1
      <3>3. CASE x \in P /\ admitted' # admitted
        <4>1. P \subseteq SinceN(ip, s) \cup BeforeN(ip, s)
          BY <2>3, <2>4, <3>3, BoundsAssumption, LimitsAssumption DEF Times
        <4>2. /\ IsFiniteSet(SinceN(ip, s)) /\ IsFiniteSet(BeforeN(ip, s))
              /\ Cardinality(SinceN(ip, s)) \in Nat /\ Cardinality(BeforeN(ip, s)) \in Nat
          BY <1>1, FS_Subset, FS_CardinalityType
        <4>3. /\ IsFiniteSet(SinceN(ip, s) \cup BeforeN(ip, s))
              /\ Cardinality(SinceN(ip, s) \cup BeforeN(ip, s)) <= 2 * Limit
          <5> HIDE DEF SinceN, BeforeN
          <5>1. /\ IsFiniteSet(SinceN(ip, s) \cup BeforeN(ip, s))
                /\ Cardinality(SinceN(ip, s) \cup BeforeN(ip, s)) \in Nat
                /\ Cardinality(SinceN(ip, s) \cup BeforeN(ip, s))
                     <= Cardinality(SinceN(ip, s)) + Cardinality(BeforeN(ip, s))
            BY <4>2, UnionBound
          <5>2. Cardinality(SinceN(ip, s)) <= Limit /\ Cardinality(BeforeN(ip, s)) <= Limit
            BY <2>5, <2>6 DEF AtMost
          <5> QED  BY <4>2, <5>1, <5>2, LimitsAssumption
        <4>4. Cardinality(P) <= Cardinality(SinceN(ip, s) \cup BeforeN(ip, s))
          BY <4>1, <4>3, FS_Subset
        <4>5. Cardinality(P) \in Nat /\ Cardinality(SinceN(ip, s) \cup BeforeN(ip, s)) \in Nat
          BY <4>1, <4>3, FS_Subset, FS_CardinalityType
        <4> HIDE DEF P, SinceN, BeforeN
        <4>6. Cardinality(P) <= 2 * Limit
          BY <4>3, <4>4, <4>5, LimitsAssumption
        <4> QED  BY <4>6 DEF P
      <3> QED  BY <3>2, <3>3
    <2> QED  BY <2>4, <2>7, <2>8, <2>9, <2>10 DEF Bounded
  <1> QED  BY <1>2, <1>3, LimitsAssumption

-----------------------------------------------------------------------------
(* The invariant. *)

LEMMA LimiterInit == Init => LimiterInv
  <1> SUFFICES ASSUME Init PROVE LimiterInv
    OBVIOUS
  <1>1. Times
    BY FS_EmptySet DEF Init, Times
  <1>2. WindowsCount /\ Anchored
    BY DEF Init, WindowsCount, Anchored
  <1>3. \A S : S \subseteq admitted => Cardinality(S) = 0
    BY FS_EmptySet DEF Init
  <1>4. PrunedCounted
    <2>1. \A i \in Ips : Cardinality(Recent(i)) = 0
      BY <1>3 DEF Recent
    <2> QED  BY <2>1, LimitsAssumption DEF PrunedCounted, AtMost
  <1>5. WindowsBounded
    <2>1. \A i \in Ips, from \in 0..MaxTime : Cardinality(Passed(i, from)) = 0
      BY <1>3 DEF Passed
    <2> QED  BY <2>1, LimitsAssumption DEF WindowsBounded
  <1> QED  BY <1>1, <1>2, <1>4, <1>5 DEF LimiterInv, Bounded

\* Time goes on: what is recent gets less.
LEMMA TickKeeps ==
  ASSUME LimiterInv, Tick
  PROVE  LimiterInv'
  <1> USE DEF LimiterInv
  <1>1. now' = now + 1 /\ UNCHANGED <<limits, admitted>>
    BY DEF Tick
  <1>2. Times'
    BY <1>1 DEF Times
  <1>3. ASSUME Limit > 0 PROVE Bounded'
    <2>1. WindowsCount' /\ WindowsBounded'
      BY <1>1, <1>3 DEF Bounded, WindowsCount, WindowsBounded, Since, Before, Passed, AtMost
    <2>2. Anchored'
      BY <1>1, <1>3 DEF Bounded, Anchored, Times
    <2>3. PrunedCounted'
      <3> SUFFICES ASSUME NEW i \in Ips \ DOMAIN limits
                   PROVE  AtMost({a \in admitted : a.ip = i /\ now + 1 < a.at + Window}, Limit)
        BY <1>1 DEF PrunedCounted, Recent, AtMost
      <3>1. {a \in admitted : a.ip = i /\ now + 1 < a.at + Window} \subseteq Recent(i)
        BY LimitsAssumption DEF Recent, Times
      <3>2. AtMost(Recent(i), Limit) /\ Recent(i) \subseteq admitted
        BY <1>3 DEF Bounded, PrunedCounted, Recent
      <3> QED  BY <3>1, <3>2, Inside, LimitsAssumption
    <2> QED  BY <2>1, <2>2, <2>3 DEF Bounded
  <1> QED  BY <1>2, <1>3, <1>1

\* A step that neither counts nor admits.
LEMMA OthersKeep ==
  ASSUME LimiterInv, UNCHANGED <<now, limits, admitted>>
  PROVE  LimiterInv'
  BY DEF LimiterInv, Times, Bounded, WindowsCount, PrunedCounted, Anchored, WindowsBounded,
         Since, Before, Recent, Passed, AtMost

LEMMA LimiterStep == LimiterInv /\ [Next]_vars => LimiterInv'
  <1> SUFFICES ASSUME LimiterInv, [Next]_vars PROVE LimiterInv'
    OBVIOUS
  <1>1. CASE Tick
    BY <1>1, TickKeeps
  <1>2. CASE UNCHANGED vars
    BY <1>2, OthersKeep DEF vars
  <1>3. ASSUME NEW d \in Dispatches, Step(d) PROVE LimiterInv'
    <2>1. ASSUME NEW r \in Requests, Throttle(d, r) PROVE LimiterInv'
      <3>1. r.ip \in Ips /\ Count(r.ip) /\ now' = now /\ admitted' = admitted
        BY <2>1, RequestsAssumption DEF Throttle
      <3>2. Asked(r.ip).ip = r.ip /\ Asked(r.ip).at = now
        BY DEF Asked
      <3> QED  BY <3>1, <3>2, CountKeeps
    <2>2. ASSUME NEW r \in Requests, Admit(d, r) PROVE LimiterInv'
      <3>1. /\ r.ip \in Ips /\ Count(r.ip) /\ now' = now
            /\ admitted' = admitted \cup {Asked(r.ip)} /\ ~Exceeded(r.ip)
        BY <2>2, RequestsAssumption DEF Admit
      <3>2. Asked(r.ip).ip = r.ip /\ Asked(r.ip).at = now
        BY DEF Asked
      <3> QED  BY <3>1, <3>2, CountKeeps
    <2>3. ASSUME NEW r \in Requests, Block(d, r) PROVE LimiterInv'
      BY <2>3, OthersKeep DEF Block
    <2>4. ASSUME NEW class, Answer(d, class) PROVE LimiterInv'
      BY <2>4, OthersKeep DEF Answer, Leave
    <2>5. ASSUME NEW p, Goto(d, p) PROVE LimiterInv'
      BY <2>5, OthersKeep DEF Goto
    <2>6. ASSUME Vanish(d) PROVE LimiterInv'
      BY <2>6, OthersKeep DEF Vanish, Leave
    <2>7. CASE Select(d) \/ NotWellFormed(d) \/ Options(d) \/ NoTarget(d) \/ Static(d)
      BY <2>4, <2>5, <2>7 DEF Select, NotWellFormed, Options, NoTarget, Static
    <2>8. CASE AuthDone(d) \/ AuthRefuses(d) \/ Middleware(d) \/ MiddlewareRefuses(d)
      BY <2>4, <2>5, <2>8 DEF AuthDone, AuthRefuses, Middleware, MiddlewareRefuses
    <2>9. CASE Enter(d) \/ HandlerDone(d) \/ Upgrade(d) \/ Cancel(d) \/ Panic(d)
      BY <2>4, <2>5, <2>6, <2>9 DEF Enter, HandlerDone, Upgrade, Cancel, Panic
    <2> QED  BY <1>3, <2>1, <2>2, <2>3, <2>7, <2>8, <2>9 DEF Step
  <1> QED  BY <1>1, <1>2, <1>3 DEF Next

\* The inductive invariant of the limiter.
THEOREM LimiterInvariance == Spec => []LimiterInv
  BY LimiterInit, LimiterStep, PTL DEF Spec

\* request_limit_exceeded (statistics.rs:96) lets no more than twice the limit
\* pass in any window's length.
THEOREM WindowsAlwaysBounded == Spec => []WindowsBounded
  <1>1. LimiterInv => WindowsBounded
    BY DEF LimiterInv, Bounded, WindowsBounded
  <1> QED  BY <1>1, LimiterInvariance, PTL

\* The map of the limiter never keeps a window that is over beyond the next
\* request it counts (statistics.rs:102).
THEOREM OverIsPruned == Spec => LimitsPruned
  <1>1. LimiterInv /\ [Next]_vars =>
          (limits' # limits => \A ip \in DOMAIN limits' : now - limits'[ip].start < Window)
    <2> SUFFICES ASSUME LimiterInv, Next, limits' # limits
                 PROVE  \A ip \in DOMAIN limits' : now - limits'[ip].start < Window
      BY DEF vars
    <2>1. PICK d \in Dispatches, r \in Requests : Throttle(d, r) \/ Admit(d, r)
      BY DEF Next, Tick, Step, Block, Select, NotWellFormed, Options, NoTarget, Static,
             AuthDone, AuthRefuses, Middleware, MiddlewareRefuses, Enter, HandlerDone,
             Upgrade, Cancel, Panic, Answer, Vanish, Leave, Goto
    <2>2. r.ip \in Ips /\ Count(r.ip)
      BY <2>1, RequestsAssumption DEF Throttle, Admit
    <2>3. Limit > 0
      BY <2>2, LimitsAssumption DEF Count
    <2> QED  BY <2>2, <2>3, Counted DEF LimiterInv
  <1> QED  BY <1>1, LimiterInvariance, PTL DEF Spec, LimitsPruned

-----------------------------------------------------------------------------
(* The types, and requests in the order they were counted. *)

Classes == {"1xx", "2xx", "3xx", "4xx", "5xx"}

\* A dispatch that moves on, or not, and changes nothing that is counted.
Moves(d) ==
    \/ Select(d) \/ Middleware(d) \/ (NoTarget(d) /\ Goto(d, "static"))
    \/ (AuthDone(d) /\ Goto(d, "middleware"))
    \/ (Enter(d) /\ \E p \in {"handler", "upgrade"} : Goto(d, p))

\* A dispatch starts, is answered or dropped, or moves on.
LEMMA Ways ==
  ASSUME NEW d \in Dispatches, Step(d)
  PROVE  \/ \E r \in Requests : Block(d, r) \/ Throttle(d, r) \/ Admit(d, r)
         \/ phase[d] # "idle" /\ Vanish(d)
         \/ phase[d] # "idle" /\ \E class \in Classes : Answer(d, class)
         \/ phase[d] # "idle" /\ Moves(d)
  <1>1. CASE Select(d) \/ Middleware(d)
    BY <1>1 DEF Select, Middleware, Moves
  <1>2. CASE NotWellFormed(d) \/ Options(d) \/ Static(d) \/ Upgrade(d)
    BY <1>2 DEF NotWellFormed, Options, Static, Upgrade, Classes
  <1>3. CASE AuthRefuses(d) \/ MiddlewareRefuses(d) \/ HandlerDone(d)
    BY <1>3, RepliesAssumption DEF AuthRefuses, MiddlewareRefuses, HandlerDone, Classes
  <1>4. CASE Cancel(d) \/ Panic(d)
    BY <1>4 DEF Cancel, Panic, Awaits
  <1>5. CASE NoTarget(d)
    BY <1>5 DEF NoTarget, Moves, Classes
  <1>6. CASE AuthDone(d)
    BY <1>6 DEF AuthDone, Moves, Classes
  <1>7. CASE Enter(d)
    BY <1>7 DEF Enter, Moves, Classes
  <1> QED  BY <1>1, <1>2, <1>3, <1>4, <1>5, <1>6, <1>7 DEF Step

\* The counters but for pending, which falls.
Growing == Counters \ {"pending"}

CountsTyped ==
    /\ \A c \in Growing : stats[c] \in Nat
    /\ uncounted \in Nat /\ stats["requests"] <= MaxRequests

LimitsTyped ==
    \A ip \in DOMAIN limits :
        /\ ip \in Ips
        /\ limits[ip].count \in 1..stats["requests"]
        /\ limits[ip] \in [start : Nat, count : Nat]

Stamped == [ip : Ips, at : 0..now, serial : 1..stats["requests"]]
EntriesTyped == now <= MaxTime /\ admitted \subseteq Stamped /\ refused \subseteq Stamped

TasksTyped ==
    /\ request \in [Dispatches -> Requests \cup {None}]
    /\ \A d \in Dispatches : phase[d] # "idle" => request[d] \in Requests
    /\ target \in [Dispatches -> Target]
    /\ passed \in [Dispatches -> 0..Middlewares]

Typed == CountsTyped /\ LimitsTyped /\ EntriesTyped /\ TasksTyped

\* A set of natural numbers has a least one.
LEMMA Least ==
  ASSUME NEW T \in SUBSET Nat, T # {}
  PROVE  \E x \in T : \A y \in T : x <= y
  <1> DEFINE R == OpToRel(<, Nat)
  <1>1. \A x, y \in Nat : x < y => <<x, y>> \in R
    BY DEF OpToRel
  <1>2. IsWellFoundedOn(R, Nat)
    BY NatLessThanWellFounded
  <1> HIDE DEF R
  <1>3. PICK x \in T : \A y \in T : ~ (<<y, x>> \in R)
    BY <1>2, WFMin
  <1>4. x \in Nat /\ \A y \in T : y \in Nat /\ ~(y < x)
    BY <1>1, <1>3
  <1>5. \A y \in T : x <= y
    BY <1>4
  <1> QED  BY <1>5

\* A set of numbers that is not empty has its minimum in it.
LEMMA MinIsIn ==
  ASSUME NEW S \in SUBSET Nat, S # {}
  PROVE  Min(S) \in S
  <1>1. \E x \in S : \A y \in S : x <= y
    BY Least
  <1> QED  BY <1>1 DEF Min

\* What routing finds is a target.
LEMMA FoundIsTarget ==
  ASSUME NEW r \in Requests, HasTarget(r)
  PROVE  Found(r) \in Target
  <1>1. /\ r.upgrade \in BOOLEAN /\ (r.upgrade => r.method = "GET")
        /\ Len(Routes) \in Nat /\ Len(Sockets) \in Nat
    BY RequestsAssumption, AuthAssumption
  <1>2. ASSUME NEW kind \in {"route", "api", "socket"}, NEW flag \in Flags \cup {"unknown"}
        PROVE  [kind |-> kind, auth |-> flag] \in Target
    BY DEF Target
  <1>3. CASE r.upgrade
    <2> DEFINE I == {i \in 1..Len(Sockets) : r.path \in Sockets[i].paths}
    <2>1. SocketOf(r) = IF I # {} THEN Min(I) ELSE 0
      BY DEF SocketOf, SelectInSeq
    <2>2. SocketOf(r) # 0
      BY <1>3 DEF HasTarget
    <2>3. I \in SUBSET Nat
      OBVIOUS
    <2>4. SocketOf(r) \in I
      <3> HIDE DEF I
      <3> QED  BY <2>1, <2>2, <2>3, MinIsIn
    <2>5. Sockets[SocketOf(r)].auth \in Flags
      BY <2>4, AuthAssumption DEF Flags
    <2>6. ~IsApi(r)
      BY <1>1, <1>3 DEF IsApi
    <2>7. Found(r) = [kind |-> "socket", auth |-> Sockets[SocketOf(r)].auth]
      BY <1>3, <2>6 DEF Found
    <2> QED  BY <1>2, <2>5, <2>7
  <1>4. CASE ~r.upgrade /\ IsApi(r)
    <2>1. /\ r.endpoint \in DOMAIN Endpoints => Endpoints[r.endpoint] \in Flags
      BY AuthAssumption
    <2>2. Found(r) = [kind |-> "api", auth |-> IF r.endpoint \in DOMAIN Endpoints
                                               THEN Endpoints[r.endpoint] ELSE "unknown"]
      BY <1>4 DEF Found
    <2> QED  BY <1>2, <2>1, <2>2
  <1>5. CASE ~r.upgrade /\ ~IsApi(r)
    <2> DEFINE I == {i \in 1..Len(Routes) :
                       Routes[i].method = RouteMethod(r) /\ r.path \in Routes[i].paths}
    <2>1. RouteOf(r) = IF I # {} THEN Min(I) ELSE 0
      BY DEF RouteOf, SelectInSeq
    <2>2. RouteOf(r) # 0
      BY <1>5 DEF HasTarget
    <2>3. I \in SUBSET Nat
      OBVIOUS
    <2>4. RouteOf(r) \in I
      <3> HIDE DEF I
      <3> QED  BY <2>1, <2>2, <2>3, MinIsIn
    <2>5. Routes[RouteOf(r)].auth \in Flags
      BY <2>4, AuthAssumption
    <2>6. Found(r) = [kind |-> "route", auth |-> Routes[RouteOf(r)].auth]
      BY <1>5 DEF Found
    <2> QED  BY <1>2, <2>5, <2>6
  <1> QED  BY <1>1, <1>3, <1>4, <1>5

\* Counters that grow do so by one at a time, and requests up to their bound.
LEMMA CountsKept ==
  ASSUME IInv, CountsTyped, [Next]_vars
  PROVE  /\ CountsTyped'
         /\ stats'["requests"] \in {stats["requests"], stats["requests"] + 1}
  <1>1. stats \in [Counters -> Int] /\ MaxRequests \in Nat /\ stats["requests"] \in Nat
        /\ Growing \subseteq Counters /\ "requests" \in Growing
    BY BoundsAssumption DEF IInv, Shapes, CountsTyped, Growing, Counters
  <1>2. CASE UNCHANGED <<stats, uncounted>>
    BY <1>1, <1>2 DEF CountsTyped
  <1>3. ASSUME NEW d \in Dispatches, NEW r \in Requests, Block(d, r) \/ Throttle(d, r) \/ Admit(d, r)
        PROVE  CountsTyped' /\ stats'["requests"] = stats["requests"] + 1
    <2>1. stats["requests"] < MaxRequests /\ uncounted' = uncounted
      BY <1>3 DEF Block, Throttle, Admit, CanStart
    <2>2. PICK S : Bump(S) /\ "requests" \in S
      BY <1>3 DEF Block, Throttle, Admit
    <2>3. /\ \A c \in Growing : stats'[c] \in Nat
          /\ stats'["requests"] = stats["requests"] + 1
      BY <1>1, <2>2 DEF Bump, CountsTyped
    <2> QED  BY <1>1, <2>1, <2>3 DEF CountsTyped
  <1>4. ASSUME NEW d \in Dispatches, Vanish(d)
        PROVE  CountsTyped' /\ stats'["requests"] = stats["requests"]
    <2>1. \A c \in Growing : stats'[c] = stats[c]
      BY <1>1, <1>4 DEF Vanish, Growing
    <2> QED  BY <1>1, <1>4, <2>1 DEF Vanish, CountsTyped
  <1>5. ASSUME NEW d \in Dispatches, NEW class \in Classes, Answer(d, class)
        PROVE  CountsTyped' /\ stats'["requests"] = stats["requests"]
    <2>1. \A c \in Growing : stats'[c] = IF c = class THEN stats[c] + 1 ELSE stats[c]
      BY <1>1, <1>5 DEF Answer, Growing, Counters, Classes
    <2>2. uncounted' \in Nat /\ "requests" # class
      BY <1>5 DEF Answer, CountsTyped, Classes
    <2> QED  BY <1>1, <2>1, <2>2 DEF CountsTyped
  <1>6. ASSUME NEW d \in Dispatches, Moves(d)
        PROVE  UNCHANGED <<stats, uncounted>>
    BY <1>6 DEF Moves, Select, Middleware, Goto
  <1> QED  BY <1>2, <1>3, <1>4, <1>5, <1>6, Ways DEF Next, Tick, vars

\* What a window has counted are requests.
LEMMA LimitsKept ==
  ASSUME IInv, LimiterInv, CountsTyped, LimitsTyped, [Next]_vars
  PROVE  LimitsTyped'
  <1>1. stats["requests"] \in Nat /\ stats'["requests"] \in {stats["requests"], stats["requests"] + 1}
    BY CountsKept DEF CountsTyped, Growing, Counters
  <1>2. ASSUME NEW d \in Dispatches, NEW r \in Requests, Throttle(d, r) \/ Admit(d, r)
        PROVE  LimitsTyped'
    <2>1. r.ip \in Ips /\ Count(r.ip) /\ stats["requests"] < MaxRequests
      BY <1>2, RequestsAssumption DEF Throttle, Admit, CanStart
    <2>2. stats'["requests"] = stats["requests"] + 1
      BY <1>2 DEF Throttle, Admit, Bump, Counters
    <2>3. CASE Limit = 0
      BY <1>1, <2>1, <2>2, <2>3 DEF Count, LimitsTyped
    <2>4. CASE Limit > 0
      <3>1. /\ DOMAIN limits' = DOMAIN Live \cup {r.ip}
            /\ limits'[r.ip] = Opened(r.ip)
            /\ \A i \in DOMAIN Live \ {r.ip} : limits'[i] = limits[i]
            /\ \A i \in DOMAIN limits' : limits'[i] \in [start : Nat, count : Nat]
        BY <2>1, <2>4, Counted DEF LimiterInv
      <3>2. \A i \in DOMAIN Live : i \in DOMAIN limits /\ Live[i] = limits[i]
        BY DEF Live
      <3>3. Opened(r.ip).count \in 1..stats["requests"] + 1
        <4>1. CASE r.ip \in DOMAIN Live
          <5>1. limits[r.ip] \in [start : Nat, count : Nat]
                /\ limits[r.ip].count \in 1..stats["requests"]
            BY <3>2, <4>1 DEF LimitsTyped
          <5>2. now - Live[r.ip].start < Window
            BY <4>1 DEF Live
          <5>3. Opened(r.ip).count = limits[r.ip].count + 1
            BY <3>2, <4>1, <5>1, <5>2 DEF Opened
          <5> QED  BY <1>1, <5>1, <5>3
        <4>2. CASE r.ip \notin DOMAIN Live
          BY <1>1, <4>2 DEF Opened
        <4> QED  BY <4>1, <4>2
      <3>4. ASSUME NEW i \in DOMAIN limits'
            PROVE  i \in Ips /\ limits'[i].count \in 1..stats'["requests"]
        <4>1. CASE i = r.ip
          BY <2>1, <2>2, <3>1, <3>3, <4>1
        <4>2. CASE i # r.ip
          BY <1>1, <2>2, <3>1, <3>2, <4>2 DEF LimitsTyped
        <4> QED  BY <4>1, <4>2
      <3> QED  BY <3>1, <3>4 DEF LimitsTyped
    <2> QED  BY <2>3, <2>4, LimitsAssumption
  <1>3. CASE limits' = limits
    BY <1>1, <1>3 DEF LimitsTyped
  <1>4. ASSUME NEW d \in Dispatches, Step(d)
        PROVE  limits' = limits \/ \E r \in Requests : Throttle(d, r) \/ Admit(d, r)
    BY <1>4, Ways DEF Block, Vanish, Answer, Leave, Moves, Select, Middleware, Goto
  <1> QED  BY <1>2, <1>3, <1>4 DEF Next, Tick, vars

\* Requests are stamped with the time and the next number.
LEMMA EntriesKept ==
  ASSUME IInv, LimiterInv, CountsTyped, EntriesTyped, [Next]_vars
  PROVE  EntriesTyped'
  <1>1. stats["requests"] \in Nat /\ stats'["requests"] \in {stats["requests"], stats["requests"] + 1}
        /\ now \in Nat /\ MaxTime \in Nat
    BY CountsKept, BoundsAssumption DEF CountsTyped, Growing, Counters, LimiterInv, Times
  <1>2. now' \in {now, now + 1} /\ now' <= MaxTime
    <2>1. ASSUME NEW d \in Dispatches, Step(d) PROVE now' = now
      BY <2>1, Ways DEF Block, Throttle, Admit, Vanish, Answer, Leave, Moves, Select, Middleware, Goto
    <2> QED  BY <1>1, <2>1 DEF Next, Tick, vars, EntriesTyped
  <1>3. Stamped \subseteq Stamped'
    BY <1>1, <1>2 DEF Stamped
  <1>4. ASSUME NEW d \in Dispatches, NEW r \in Requests, Throttle(d, r) \/ Admit(d, r)
        PROVE  Asked(r.ip) \in Stamped'
    <2>1. stats'["requests"] = stats["requests"] + 1 /\ now' = now /\ r.ip \in Ips
      BY <1>4, RequestsAssumption DEF Throttle, Admit, Bump, Counters
    <2> QED  BY <1>1, <2>1 DEF Asked, Stamped
  <1>5. ASSUME NEW d \in Dispatches, Step(d)
        PROVE  \/ UNCHANGED <<admitted, refused>>
               \/ \E r \in Requests : /\ Throttle(d, r) \/ Admit(d, r)
                                      /\ admitted' \subseteq admitted \cup {Asked(r.ip)}
                                      /\ refused' \subseteq refused \cup {Asked(r.ip)}
    BY <1>5, Ways DEF Block, Throttle, Admit, Vanish, Answer, Leave, Moves, Select, Middleware, Goto
  <1> QED  BY <1>2, <1>3, <1>4, <1>5 DEF Next, Tick, vars, EntriesTyped

\* A dispatch serves a request, and has found its target when it is past routing.
LEMMA TasksKept ==
  ASSUME IInv, TasksTyped, [Next]_vars
  PROVE  TasksTyped'
  <1>1. phase \in [Dispatches -> Phases] /\ Middlewares \in Nat /\ None \in Target
    BY LimitsAssumption DEF IInv, Shapes, Target
  <1>2. CASE UNCHANGED taskVars
    BY <1>2 DEF taskVars, TasksTyped
  <1>3. ASSUME NEW d \in Dispatches, NEW r \in Requests, Admit(d, r)
        PROVE  TasksTyped'
    BY <1>1, <1>3 DEF Admit, TasksTyped
  <1>4. ASSUME NEW d \in Dispatches, Leave(d)
        PROVE  TasksTyped'
    <2>1. /\ request' \in [Dispatches -> Requests \cup {None}]
          /\ \A e \in Dispatches : phase'[e] # "idle" => request'[e] \in Requests
      BY <1>1, <1>4 DEF Leave, TasksTyped
    <2>2. target' \in [Dispatches -> Target]
      BY <1>1, <1>4 DEF Leave, TasksTyped
    <2>3. passed' \in [Dispatches -> 0..Middlewares]
      BY <1>1, <1>4 DEF Leave, TasksTyped
    <2> QED  BY <2>1, <2>2, <2>3 DEF TasksTyped
  <1>5. ASSUME NEW d \in Dispatches, phase[d] # "idle", Moves(d)
        PROVE  TasksTyped'
    <2>1. PICK p : Goto(d, p)
      BY <1>5 DEF Moves, Select, Middleware
    <2>2. /\ request' \in [Dispatches -> Requests \cup {None}]
          /\ \A e \in Dispatches : phase'[e] # "idle" => request'[e] \in Requests
      BY <1>1, <1>5, <2>1 DEF Goto, TasksTyped
    <2>3. target' \in [Dispatches -> Target]
      <3>1. CASE Select(d)
        <4>1. Found(request[d]) \in Target
          BY <1>5, <3>1, FoundIsTarget DEF Select, TasksTyped
        <4> QED  BY <3>1, <4>1 DEF Select, TasksTyped
      <3>2. CASE target' = target
        BY <3>2 DEF TasksTyped
      <3> QED  BY <1>1, <1>5, <3>1, <3>2
               DEF Moves, Middleware, NoTarget, AuthDone, Enter, Answer, Leave, Goto
    <2>4. passed' \in [Dispatches -> 0..Middlewares]
      <3>1. CASE Middleware(d)
        <4>1. passed[d] \in 0..Middlewares /\ passed[d] < Middlewares
          BY <3>1 DEF Middleware, TasksTyped
        <4>2. passed[d] + 1 \in 0..Middlewares
          BY <1>1, <4>1
        <4> QED  BY <3>1, <4>2 DEF Middleware, TasksTyped
      <3>2. CASE passed' = passed
        BY <3>2 DEF TasksTyped
      <3> QED  BY <1>1, <1>5, <3>1, <3>2
               DEF Moves, Select, NoTarget, AuthDone, Enter, Answer, Leave, Goto
    <2> QED  BY <2>2, <2>3, <2>4 DEF TasksTyped
  <1>6. ASSUME NEW d \in Dispatches, Step(d) PROVE TasksTyped'
    BY <1>2, <1>3, <1>4, <1>5, <1>6, Ways DEF Block, Throttle, Vanish, Answer
  <1> QED  BY <1>2, <1>6 DEF Next, Tick, vars

-----------------------------------------------------------------------------
(* What is refused. *)

\* A window has let pass all that it has counted, up to the limit: what it counts
\* beyond that is refused.
WindowsFull ==
    Limit > 0 =>
        \A ip \in DOMAIN limits :
            \/ limits[ip].count <= Cardinality(Since(ip, limits[ip].start))
            \/ Limit <= Cardinality(Since(ip, limits[ip].start))

\* The window of a request that is about to be counted has let pass all that it has
\* counted before.
LEMMA OpenedFull ==
  ASSUME Times, Bounded, Limit > 0, WindowsFull, NEW ip \in Ips
  PROVE  \/ Opened(ip).count - 1 <= Cardinality(Since(ip, Opened(ip).start))
         \/ Limit <= Cardinality(Since(ip, Opened(ip).start))
  <1>1. CASE ip \in DOMAIN Live
    <2>1. /\ ip \in DOMAIN limits /\ now - limits[ip].start < Window
          /\ limits[ip] \in [start : Nat, count : Nat]
      BY <1>1 DEF Live, Times
    <2>2. Opened(ip) = [start |-> limits[ip].start, count |-> limits[ip].count + 1]
      BY <1>1, <2>1 DEF Opened, Live
    <2>3. Opened(ip).count - 1 = limits[ip].count /\ Opened(ip).start = limits[ip].start
      BY <2>1, <2>2
    <2> QED  BY <2>1, <2>3 DEF WindowsFull
  <1>2. CASE ip \notin DOMAIN Live
    <2>1. Opened(ip) = [start |-> now, count |-> 1]
      BY <1>2 DEF Opened
    <2>2. Cardinality(Since(ip, now)) \in Nat
      BY AdmittedFinite DEF Since
    <2> QED  BY <2>1, <2>2
  <1> QED  BY <1>1, <1>2

\* A request that is counted fills its window by one, or finds it full.
LEMMA FullKept ==
  ASSUME LimiterInv, WindowsFull, EntriesTyped, CountsTyped, NEW ip \in Ips, Count(ip),
         \/ admitted' = admitted /\ Exceeded(ip)
         \/ admitted' = admitted \cup {Asked(ip)}
  PROVE  WindowsFull'
  <1> DEFINE SinceN(j, t) == {a \in admitted' : a.ip = j /\ t <= a.at}
  <1> SUFFICES ASSUME Limit > 0, NEW i \in DOMAIN limits'
               PROVE  \/ limits'[i].count <= Cardinality(SinceN(i, limits'[i].start))
                      \/ Limit <= Cardinality(SinceN(i, limits'[i].start))
    BY DEF WindowsFull, Since
  <1>1. Times /\ Bounded
    BY DEF LimiterInv
  <1>2. /\ DOMAIN limits' = DOMAIN Live \cup {ip}
        /\ limits'[ip] = Opened(ip)
        /\ \A j \in DOMAIN Live \ {ip} : limits'[j] = limits[j] /\ j \in DOMAIN limits
    BY <1>1, Counted DEF Live
  <1>4. CASE i # ip
    <2>1. i \in DOMAIN limits /\ limits'[i] = limits[i]
      BY <1>2, <1>4
    <2>2. SinceN(i, limits[i].start) = Since(i, limits[i].start)
      BY <1>4 DEF Since, Asked
    <2> QED  BY <2>1, <2>2 DEF WindowsFull
  <1>5. CASE i = ip
    <2>1. PICK s \in Nat, k \in Nat \ {0} : Opened(ip) = [start |-> s, count |-> k]
      BY <1>1, OpenedCounts
    <2>2. /\ s <= now
          /\ (k - 1 <= Cardinality(Since(ip, s)) \/ Limit <= Cardinality(Since(ip, s)))
      BY <1>1, <2>1, OpenedCounts, OpenedFull
    <2>3. limits'[i].start = s /\ limits'[i].count = k
      BY <1>2, <1>5, <2>1
    <2>4. IsFiniteSet(Since(ip, s)) /\ Cardinality(Since(ip, s)) \in Nat
      BY <1>1, AdmittedFinite DEF Since
    <2>5. CASE admitted' = admitted /\ Exceeded(ip)
      <3>1. SinceN(ip, s) = Since(ip, s)
        BY <2>5 DEF Since
      <3>2. k > Limit
        BY <2>1, <2>5 DEF Exceeded
      <3> HIDE DEF SinceN
      <3> QED  BY <1>5, <2>2, <2>3, <2>4, <3>1, <3>2, LimitsAssumption
    <2>6. CASE admitted' = admitted \cup {Asked(ip)}
      <3>1. Asked(ip) \notin admitted
        <4>1. stats["requests"] \in Nat
          BY DEF CountsTyped, Growing, Counters
        <4>2. \A a \in admitted : a.serial <= stats["requests"]
          BY <4>1 DEF EntriesTyped, Stamped
        <4> QED  BY <4>1, <4>2 DEF Asked
      <3>2. SinceN(ip, s) = Since(ip, s) \cup {Asked(ip)} /\ Asked(ip) \notin Since(ip, s)
        <4>1. Asked(ip).ip = ip /\ s <= Asked(ip).at
          BY <2>2 DEF Asked
        <4> QED  BY <2>6, <3>1, <4>1 DEF Since
      <3>3. Cardinality(SinceN(ip, s)) = Cardinality(Since(ip, s)) + 1
        <4> HIDE DEF SinceN
        <4> QED  BY <2>4, <3>2, FS_AddElement
      <3> HIDE DEF SinceN
      <3> QED  BY <1>5, <2>2, <2>3, <2>4, <3>3, LimitsAssumption
    <2> QED  BY <2>5, <2>6
  <1> QED  BY <1>4, <1>5

\* What was admitted from the address of a refused request in the window's length
\* before it.
Behind(r) ==
    {a \in admitted : a.ip = r.ip /\ a.serial < r.serial /\ r.at < a.at + Window}

\* A request that is refused finds its window full.
LEMMA ThrottledWhenFull ==
  ASSUME LimiterInv, WindowsFull, EntriesTyped, CountsTyped, NEW ip \in Ips, Exceeded(ip)
  PROVE  Cardinality(Behind(Asked(ip))) >= Limit
  <1>1. Times /\ Bounded /\ Limit > 0
    BY DEF LimiterInv, Exceeded
  <1>2. PICK s \in Nat, k \in Nat \ {0} : Opened(ip) = [start |-> s, count |-> k]
    BY <1>1, OpenedCounts
  <1>3. now - s < Window /\ k > Limit
        /\ (k - 1 <= Cardinality(Since(ip, s)) \/ Limit <= Cardinality(Since(ip, s)))
    BY <1>1, <1>2, OpenedCounts, OpenedFull DEF Exceeded
  <1>4. IsFiniteSet(Since(ip, s)) /\ Cardinality(Since(ip, s)) \in Nat
    BY <1>1, AdmittedFinite DEF Since
  <1>5. Limit <= Cardinality(Since(ip, s))
    BY <1>2, <1>3, <1>4, LimitsAssumption
  <1>6. Since(ip, s) \subseteq Behind(Asked(ip))
    <2>1. stats["requests"] \in Nat
      BY DEF CountsTyped, Growing, Counters
    <2>2. ASSUME NEW a \in Since(ip, s) PROVE a \in Behind(Asked(ip))
      <3>1. a \in admitted /\ a.ip = ip /\ s <= a.at /\ a.at \in Nat
            /\ a.serial \in Nat /\ a.serial <= stats["requests"]
        BY <1>1, <2>1 DEF Since, EntriesTyped, Stamped, Times
      <3>2. a.serial < stats["requests"] + 1
        BY <2>1, <3>1
      <3>3. now \in Nat /\ Window \in Nat /\ now - s < Window
        BY <1>1, <1>3, LimitsAssumption DEF Times
      <3>4. now < a.at + Window
        BY <1>2, <3>1, <3>3
      <3> QED  BY <3>1, <3>2, <3>4 DEF Behind, Asked
    <2> QED  BY <2>2
  <1>7. /\ IsFiniteSet(Behind(Asked(ip))) /\ Cardinality(Behind(Asked(ip))) \in Nat
    BY <1>1, AdmittedFinite DEF Behind
  <1>8. Cardinality(Since(ip, s)) <= Cardinality(Behind(Asked(ip)))
    BY <1>6, <1>7, FS_Subset
  <1> QED  BY <1>4, <1>5, <1>7, <1>8, LimitsAssumption

LEMMA RefusedIs == RefusedWhenFull <=> \A r \in refused : Cardinality(Behind(r)) >= Limit
  BY DEF RefusedWhenFull, Behind

\* What was full before a refused request stays so.
LEMMA RefusedKept ==
  ASSUME LimiterInv, LimiterInv', WindowsFull, EntriesTyped, CountsTyped, RefusedWhenFull,
         [Next]_vars
  PROVE  RefusedWhenFull'
  <1>1. ASSUME NEW r, Cardinality(Behind(r)) >= Limit, admitted \subseteq admitted'
        PROVE  Cardinality(Behind(r)') >= Limit
    <2>1. Behind(r) \subseteq Behind(r)' /\ Behind(r)' \subseteq admitted'
      BY <1>1 DEF Behind
    <2>2. IsFiniteSet(admitted')
      BY DEF LimiterInv, Times
    <2>3. /\ IsFiniteSet(Behind(r)') /\ IsFiniteSet(Behind(r))
          /\ Cardinality(Behind(r)) <= Cardinality(Behind(r)')
      BY <2>1, <2>2, FS_Subset
    <2>4. Cardinality(Behind(r)) \in Nat /\ Cardinality(Behind(r)') \in Nat
      BY <2>3, FS_CardinalityType
    <2> QED  BY <1>1, <2>3, <2>4, LimitsAssumption
  <1>2. RefusedWhenFull' <=> \A r \in refused' : Cardinality(Behind(r)') >= Limit
    BY DEF RefusedWhenFull, Behind
  <1>3. ASSUME NEW d \in Dispatches, NEW r \in Requests, Throttle(d, r)
        PROVE  RefusedWhenFull'
    <2>1. r.ip \in Ips /\ Exceeded(r.ip) /\ admitted' = admitted
          /\ refused' = refused \cup {Asked(r.ip)}
      BY <1>3, RequestsAssumption DEF Throttle
    <2>2. Cardinality(Behind(Asked(r.ip))) >= Limit
      BY <2>1, ThrottledWhenFull
    <2>3. \A x \in refused' : Cardinality(Behind(x)) >= Limit
      BY <2>1, <2>2, RefusedIs
    <2> QED  BY <1>1, <1>2, <2>1, <2>3
  <1>4. ASSUME admitted \subseteq admitted', refused' = refused
        PROVE  RefusedWhenFull'
    BY <1>1, <1>2, <1>4, RefusedIs
  <1>5. ASSUME NEW d \in Dispatches, Step(d)
        PROVE  \/ \E r \in Requests : Throttle(d, r)
               \/ admitted \subseteq admitted' /\ refused' = refused
    BY <1>5, Ways DEF Block, Admit, Vanish, Answer, Leave, Moves, Select, Middleware, Goto
  <1> QED  BY <1>3, <1>4, <1>5 DEF Next, Tick, vars

\* Nothing but requests at the door touches the windows.
LEMMA WindowsKept ==
  ASSUME LimiterInv, WindowsFull, EntriesTyped, CountsTyped, [Next]_vars
  PROVE  WindowsFull'
  <1>1. CASE UNCHANGED <<limits, admitted>>
    BY <1>1 DEF WindowsFull, Since
  <1>2. ASSUME NEW d \in Dispatches, NEW r \in Requests, Throttle(d, r) \/ Admit(d, r)
        PROVE  WindowsFull'
    <2>1. r.ip \in Ips /\ Count(r.ip)
          /\ \/ admitted' = admitted /\ Exceeded(r.ip)
             \/ admitted' = admitted \cup {Asked(r.ip)}
      BY <1>2, RequestsAssumption DEF Throttle, Admit
    <2> QED  BY <2>1, FullKept
  <1>3. ASSUME NEW d \in Dispatches, Step(d)
        PROVE  \/ \E r \in Requests : Throttle(d, r) \/ Admit(d, r)
               \/ UNCHANGED <<limits, admitted>>
    BY <1>3, Ways DEF Block, Vanish, Answer, Leave, Moves, Select, Middleware, Goto
  <1> QED  BY <1>1, <1>2, <1>3 DEF Next, Tick, vars

-----------------------------------------------------------------------------
(* All of it together. *)

FullInv == IInv /\ LimiterInv /\ Typed /\ WindowsFull /\ RefusedWhenFull

LEMMA FullInit == Init => FullInv
  <1> SUFFICES ASSUME Init PROVE FullInv
    OBVIOUS
  <1>1. IInv /\ LimiterInv
    BY InitHolds, LimiterInit
  <1>2. CountsTyped /\ EntriesTyped
    BY BoundsAssumption DEF Init, CountsTyped, EntriesTyped, Growing, Counters
  <1>3. LimitsTyped /\ WindowsFull /\ RefusedWhenFull
    BY DEF Init, LimitsTyped, WindowsFull, RefusedWhenFull
  <1>4. TasksTyped
    BY LimitsAssumption DEF Init, TasksTyped, Target
  <1> QED  BY <1>1, <1>2, <1>3, <1>4 DEF FullInv, Typed

LEMMA FullStep == FullInv /\ [Next]_vars => FullInv'
  <1> SUFFICES ASSUME FullInv, [Next]_vars PROVE FullInv'
    OBVIOUS
  <1>1. IInv' /\ LimiterInv'
    BY StepKeeps, LimiterStep DEF FullInv
  <1>2. Typed'
    BY CountsKept, LimitsKept, EntriesKept, TasksKept DEF FullInv, Typed
  <1>3. WindowsFull' /\ RefusedWhenFull'
    BY <1>1, WindowsKept, RefusedKept DEF FullInv, Typed
  <1> QED  BY <1>1, <1>2, <1>3 DEF FullInv

\* The inductive invariant of counters, flags, limiter and types together.
THEOREM FullInvariance == Spec => []FullInv
  BY FullInit, FullStep, PTL DEF Spec

\* Every state of dispatch (lib.rs:1282) and of its counters is of the types of the model.
THEOREM TypeCorrect == Spec => []TypeOK
  <1>1. FullInv => TypeOK
    <2> SUFFICES ASSUME FullInv PROVE TypeOK
      OBVIOUS
    <2> USE DEF FullInv, Typed
    <2>1. /\ now \in 0..MaxTime /\ MaxTime \in Nat /\ MaxRequests \in Nat
          /\ stats["requests"] \in 0..MaxRequests
      BY BoundsAssumption DEF LimiterInv, Times, EntriesTyped, CountsTyped, Growing, Counters
    <2>2. stats["pending"] \in Nat
      BY BusyFinite, FS_CardinalityType DEF IInv, PendingCounts, Busy
    <2>3. \A c \in Counters : stats[c] \in 0..MaxRequests
      <3>1. /\ stats["2xx"] \in Nat /\ stats["4xx"] \in Nat /\ stats["5xx"] \in Nat
            /\ stats["blocked"] \in Nat /\ stats["throttled"] \in Nat /\ uncounted \in Nat
        BY DEF CountsTyped, Growing, Counters
      <3>2. /\ stats["pending"] <= MaxRequests /\ stats["2xx"] <= MaxRequests
            /\ stats["4xx"] <= MaxRequests /\ stats["5xx"] <= MaxRequests
            /\ stats["blocked"] <= MaxRequests /\ stats["throttled"] <= MaxRequests
        BY <2>1, <2>2, <3>1 DEF IInv, Accounted
      <3> QED  BY <2>1, <2>2, <3>1, <3>2 DEF Counters
    <2>4. uncounted \in 0..MaxRequests
      <3>1. /\ stats["2xx"] \in Nat /\ stats["4xx"] \in Nat /\ stats["5xx"] \in Nat
            /\ uncounted \in Nat
        BY DEF CountsTyped, Growing, Counters
      <3> QED  BY <2>1, <2>2, <3>1 DEF IInv, Accounted
    <2>5. stats \in [Counters -> 0..MaxRequests]
      <3>1. stats \in [Counters -> Int]
        BY DEF IInv, Shapes
      <3> QED  BY <2>3, <3>1
    <2>6. ASSUME NEW ip \in DOMAIN limits
          PROVE  ip \in Ips /\ limits[ip] \in [start : 0..now, count : 1..MaxRequests]
      <3>1. limits[ip] \in [start : Nat, count : Nat] /\ limits[ip].start <= now
        BY DEF LimiterInv, Times
      <3>2. limits[ip].count \in 1..stats["requests"] /\ ip \in Ips
        BY DEF LimitsTyped
      <3>3. limits[ip].start \in 0..now /\ limits[ip].count \in 1..MaxRequests
        BY <2>1, <3>1, <3>2
      <3> QED  BY <3>1, <3>2, <3>3
    <2>7. admitted \subseteq Entry /\ refused \subseteq Entry
      <3>1. Stamped \subseteq Entry
        BY <2>1 DEF Stamped, Entry
      <3> QED  BY <3>1 DEF EntriesTyped
    <2> QED  BY <2>1, <2>4, <2>5, <2>6, <2>7 DEF TypeOK, TasksTyped, IInv, Shapes
  <1> QED  BY <1>1, FullInvariance, PTL

\* request_limit_exceeded (statistics.rs:96) refuses a request only when as many
\* as the limit were let pass from its address in the window's length before it.
THEOREM RefusesWhenFull == Spec => []RefusedWhenFull
  <1>1. FullInv => RefusedWhenFull
    BY DEF FullInv
  <1> QED  BY <1>1, FullInvariance, PTL

-----------------------------------------------------------------------------
(***************************************************************************)
(* Routing: a path that a group and a route were joined to is split into   *)
(* the segments of both (SegmentsJoin), so that a route matches what its   *)
(* registration asked for; the rest is the order of registrations.  Split  *)
(* is a function that follows its text, and what it holds at the end of a  *)
(* text is compared with what it holds at each place before.               *)
(***************************************************************************)

\* A number of a set that none of it is below is the one that Min chooses.
LEMMA MinOf ==
  ASSUME NEW S \in SUBSET Nat, NEW a \in S, \A x \in S : a <= x
  PROVE  Min(S) = a
  <1>1. Min(S) \in S /\ \A x \in S : Min(S) <= x
    BY DEF Min
  <1> DEFINE m == Min(S)
  <1>2. m \in Nat /\ a \in Nat /\ m <= a /\ a <= m
    BY <1>1
  <1> HIDE DEF m
  <1>3. m = a
    BY <1>2
  <1> QED  BY <1>3 DEF m

\* A number of a set that none of it is above is the one that Max chooses.
LEMMA MaxOf ==
  ASSUME NEW S \in SUBSET Nat, NEW b \in S, \A x \in S : x <= b
  PROVE  Max(S) = b
  <1>1. Max(S) \in S /\ \A x \in S : x <= Max(S)
    BY DEF Max
  <1> DEFINE m == Max(S)
  <1>2. m \in Nat /\ b \in Nat /\ m <= b /\ b <= m
    BY <1>1
  <1> HIDE DEF m
  <1>3. m = b
    BY <1>2
  <1> QED  BY <1>3 DEF m

\* A bounded set of numbers has a greatest one.
LEMMA Greatest ==
  ASSUME NEW n \in Nat, NEW S \in SUBSET 1..n, S # {}
  PROVE  \E b \in S : \A x \in S : x <= b
  <1> DEFINE T == {k \in 0..n : n - k \in S}
  <1>1. PICK x \in S : TRUE
    OBVIOUS
  <1>2. n - x \in T /\ T \in SUBSET Nat
    OBVIOUS
  <1>3. PICK k \in T : \A j \in T : k <= j
    BY <1>2, Least
  <1>4. \A y \in S : n - y \in T
    OBVIOUS
  <1>5. \A y \in S : y <= n - k
    BY <1>3, <1>4
  <1> QED  BY <1>3, <1>5

\* What a part of a sequence holds.
LEMMA CutIs ==
  ASSUME NEW T, NEW s, NEW a, NEW b, s \in Seq(T), a \in Nat, b \in Nat, 1 <= a, a <= b + 1,
         b <= Len(s)
  PROVE  /\ SubSeq(s, a, b) \in Seq(T) /\ Len(SubSeq(s, a, b)) = b - a + 1
         /\ \A i \in 1..b - a + 1 : SubSeq(s, a, b)[i] = s[a + i - 1]
  <1>1. SubSeq(s, a, b) = [i \in 1..b - a + 1 |-> s[a + i - 1]]
    OBVIOUS
  <1>2. \A i \in 1..b - a + 1 : s[a + i - 1] \in T
    OBVIOUS
  <1>3. b - a + 1 \in Nat
    OBVIOUS
  <1> QED  BY <1>1, <1>2, <1>3

\* Sequences of the same elements are the same.
LEMMA SameSeq ==
  ASSUME NEW T, NEW s, NEW t, s \in Seq(T), t \in Seq(T), Len(s) = Len(t),
         \A i \in 1..Len(s) : s[i] = t[i]
  PROVE  s = t
  OBVIOUS

\* What a concatenation holds.
LEMMA ConcatIs ==
  ASSUME NEW T, NEW s, NEW t, s \in Seq(T), t \in Seq(T)
  PROVE  /\ s \o t \in Seq(T) /\ Len(s \o t) = Len(s) + Len(t)
         /\ \A i \in 1..Len(s) : (s \o t)[i] = s[i]
         /\ \A i \in 1..Len(t) : (s \o t)[Len(s) + i] = t[i]
  <1>1. /\ s \o t \in Seq(T) /\ Len(s \o t) = Len(s) + Len(t)
        /\ \A i \in 1..Len(s) + Len(t) : (s \o t)[i] = IF i <= Len(s) THEN s[i] ELSE t[i - Len(s)]
    BY ConcatProperties
  <1>2. Len(s) \in Nat /\ Len(t) \in Nat
    OBVIOUS
  <1>3. \A i \in 1..Len(s) : (s \o t)[i] = s[i]
    BY <1>1, <1>2
  <1>4. \A i \in 1..Len(t) : (s \o t)[Len(s) + i] = t[i]
    BY <1>1, <1>2
  <1> QED  BY <1>1, <1>3, <1>4

-----------------------------------------------------------------------------
\* What stands in a path: words and slashes (that a literal is in STRING is
\* nothing the provers know).
Text == STRING \cup {Slash}

\* The first and the last word of a path stand at a and b.
Bounds(p, a, b) ==
    /\ p \in Seq(Text) /\ a \in 1..Len(p) /\ b \in a..Len(p)
    /\ p[a] # Slash /\ p[b] # Slash
    /\ \A i \in 1..Len(p) : i < a \/ i > b => p[i] = Slash

\* A path with words has a first and a last one.
LEMMA HasBounds ==
  ASSUME NEW p \in Seq(Text), Words(p) # {}
  PROVE  \E a, b : Bounds(p, a, b)
  <1>1. Words(p) \in SUBSET (1..Len(p)) /\ Words(p) \in SUBSET Nat /\ Len(p) \in Nat
    BY DEF Words
  <1>2. PICK a \in Words(p) : \A x \in Words(p) : a <= x
    BY <1>1, Least
  <1>3. PICK b \in Words(p) : \A x \in Words(p) : x <= b
    BY <1>1, Greatest
  <1>4. a \in 1..Len(p) /\ b \in a..Len(p)
    BY <1>1, <1>2, <1>3
  <1>5. p[a] # Slash /\ p[b] # Slash
    BY <1>2, <1>3 DEF Words
  <1>6. ASSUME NEW i \in 1..Len(p), i < a \/ i > b PROVE p[i] = Slash
    <2>1. i \notin Words(p)
      BY <1>1, <1>2, <1>3, <1>6
    <2> QED  BY <2>1 DEF Words
  <1>7. Bounds(p, a, b)
    BY <1>4, <1>5, <1>6 DEF Bounds
  <1> QED  BY <1>7

\* Trimming cuts a path at its first and at its last word.
LEMMA BoundsAre ==
  ASSUME NEW p, NEW a, NEW b, Bounds(p, a, b)
  PROVE  /\ Words(p) # {} /\ Min(Words(p)) = a /\ Max(Words(p)) = b
         /\ TrimStart(p) = SubSeq(p, a, Len(p)) /\ TrimEnd(p) = SubSeq(p, 1, b)
  <1>1. /\ Len(p) \in Nat /\ a \in Nat /\ b \in Nat
        /\ \A i \in 1..Len(p) : i \in Words(p) => a <= i /\ i <= b
    BY DEF Bounds, Words
  <1>2. a \in Words(p) /\ b \in Words(p)
    BY <1>1 DEF Bounds, Words
  <1>3. Words(p) \in SUBSET Nat /\ Words(p) \subseteq 1..Len(p)
    BY DEF Bounds, Words
  <1>4. Min(Words(p)) = a
    BY <1>1, <1>2, <1>3, MinOf
  <1>5. Max(Words(p)) = b
    BY <1>1, <1>2, <1>3, MaxOf
  <1> QED  BY <1>2, <1>4, <1>5 DEF TrimStart, TrimEnd

\* What is left of a path trimmed at both ends.
LEMMA TrimIs ==
  ASSUME NEW p, NEW a, NEW b, Bounds(p, a, b)
  PROVE  Trim(p) = SubSeq(p, a, b)
  <1> DEFINE t == SubSeq(p, a, Len(p))
             n == Len(p)
             c == b - a + 1
  <1>1. /\ n \in Nat /\ a \in Nat /\ b \in Nat /\ c \in Nat /\ 1 <= a /\ a <= b /\ b <= n
        /\ p \in Seq(Text) /\ a <= n + 1 /\ c <= n - a + 1
    BY DEF Bounds
  <1>2. t \in Seq(Text) /\ Len(t) = n - a + 1 /\ \A i \in 1..n - a + 1 : t[i] = p[a + i - 1]
    BY <1>1, CutIs
  <1>3. TrimStart(p) = t
    BY BoundsAre
  <1> HIDE DEF t
  <1>4. Bounds(t, 1, c)
    <2>1. 1 \in 1..Len(t) /\ c \in 1..Len(t)
      BY <1>1, <1>2
    <2>2. t[1] = p[a] /\ t[c] = p[b]
      <3>1. 1 \in 1..n - a + 1 /\ c \in 1..n - a + 1 /\ a + 1 - 1 = a /\ a + c - 1 = b
        BY <1>1, <1>2, <2>1
      <3>2. t[1] = p[a + 1 - 1] /\ t[c] = p[a + c - 1]
        BY <1>2, <3>1
      <3> QED  BY <3>1, <3>2
    <2>3. ASSUME NEW i \in 1..Len(t), i < 1 \/ i > c PROVE t[i] = Slash
      <3>1. a + i - 1 \in 1..n /\ a + i - 1 > b
        BY <1>1, <1>2, <2>3
      <3> QED  BY <1>2, <3>1 DEF Bounds
    <2> QED  BY <1>2, <2>1, <2>2, <2>3 DEF Bounds
  <1>5. Trim(p) = SubSeq(t, 1, c)
    BY <1>3, <1>4, BoundsAre DEF Trim
  <1>6. SubSeq(t, 1, c) = SubSeq(p, a, b)
    <2>1. /\ SubSeq(t, 1, c) \in Seq(Text) /\ Len(SubSeq(t, 1, c)) = c - 1 + 1
          /\ \A i \in 1..c - 1 + 1 : SubSeq(t, 1, c)[i] = t[1 + i - 1]
      BY <1>1, <1>2, CutIs
    <2>2. /\ SubSeq(p, a, b) \in Seq(Text) /\ Len(SubSeq(p, a, b)) = c
          /\ \A i \in 1..c : SubSeq(p, a, b)[i] = p[a + i - 1]
      BY <1>1, CutIs
    <2>3. \A i \in 1..c : t[1 + i - 1] = p[a + i - 1]
      BY <1>1, <1>2
    <2>4. c - 1 + 1 = c
      BY <1>1
    <2> HIDE DEF c
    <2> QED  BY <2>1, <2>2, <2>3, <2>4, SameSeq
  <1> QED  BY <1>5, <1>6

\* Nothing is left of a path without words, and it has no segments.
LEMMA NoWords ==
  ASSUME NEW p, Words(p) = {}
  PROVE  TrimStart(p) = <<>> /\ TrimEnd(p) = <<>> /\ Trim(p) = <<>> /\ Segments(p) = <<>>
  <1>1. Words(<<>>) = {}
    BY DEF Words
  <1> QED  BY <1>1 DEF Trim, TrimEnd, TrimStart, Segments

-----------------------------------------------------------------------------
(* The segments of a path. *)

\* Induction along the places of a text.
LEMMA Along ==
  ASSUME NEW m \in Nat, NEW S, 0 \in S, \A n \in 1..m : n - 1 \in S => n \in S
  PROVE  0..m \subseteq S
  <1> SUFFICES ASSUME (0..m) \ S # {} PROVE FALSE
    OBVIOUS
  <1> DEFINE T == (0..m) \ S
  <1>0. T \in SUBSET Nat /\ T # {}
    OBVIOUS
  <1> HIDE DEF T
  <1>1. PICK x \in T : \A y \in T : x <= y
    BY <1>0, Least
  <1> USE DEF T
  <1>2. x \in 1..m /\ x - 1 \in 0..m /\ ~(x <= x - 1)
    BY <1>1
  <1> QED  BY <1>1, <1>2

\* `split` as a function that follows its text.
LEMMA SplitIs ==
  ASSUME NEW t, Len(t) \in Nat
  PROVE  Split(t) = [n \in 0..Len(t) |->
             IF n = 0 THEN << <<>> >> ELSE Broken(Split(t)[n - 1], t[n])]
  <1> DEFINE Turn(g, n) == IF n = 0 THEN << <<>> >> ELSE Broken(g[n - 1], t[n])
             m == Len(t)
             S == {N \in 0..m : \E g : g = [n \in 0..N |-> Turn(g, n)]}
  <1>0. m \in Nat
    OBVIOUS
  <1> HIDE DEF m
  <1>1. 0 \in S
    <2> DEFINE g == [n \in 0..0 |-> << <<>> >>]
    <2>1. g = [n \in 0..0 |-> Turn(g, n)]
      OBVIOUS
    <2>2. 0 \in 0..m
      BY <1>0
    <2> HIDE DEF Turn
    <2>3. \E q : q = [n \in 0..0 |-> Turn(q, n)]
      BY <2>1
    <2> QED  BY <2>2, <2>3
  <1>2. ASSUME NEW N \in 1..m, N - 1 \in S PROVE N \in S
    <2>1. PICK g : g = [n \in 0..N - 1 |-> Turn(g, n)]
      BY <1>2
    <2> DEFINE h == [n \in 0..N |-> IF n = N THEN Turn(g, n) ELSE g[n]]
    <2>2. h = [n \in 0..N |-> IF n = N THEN Turn(g, n) ELSE g[n]]
      OBVIOUS
    <2>3. \A n \in 0..N - 1 : g[n] = Turn(g, n)
      BY <2>1
    <2> HIDE DEF h, Turn
    <2>4. \A n \in 0..N : n # 0 => n - 1 \in 0..N - 1 /\ h[n - 1] = g[n - 1]
      BY <1>0, <2>2
    <2>5. \A n \in 0..N : Turn(h, n) = Turn(g, n)
      BY <2>4 DEF Turn
    <2>6. \A n \in 0..N : n # N => n \in 0..N - 1
      BY <1>0
    <2>7. \A n \in 0..N : h[n] = Turn(h, n)
      BY <2>2, <2>3, <2>5, <2>6
    <2>8. h = [n \in 0..N |-> Turn(h, n)]
      BY <2>2, <2>7
    <2>9. \E q : q = [n \in 0..N |-> Turn(q, n)]
      BY <2>8
    <2> QED  BY <1>0, <2>9
  <1> HIDE DEF S, Turn
  <1>3. m \in S
    <2>1. 0..m \subseteq S
      BY <1>0, <1>1, <1>2, Along
    <2> QED  BY <1>0, <2>1
  <1>4. \E g : g = [n \in 0..m |-> Turn(g, n)]
    BY <1>3 DEF S
  <1>5. Split(t) = CHOOSE g : g = [n \in 0..m |-> Turn(g, n)]
    BY DEF Split, Turn, m
  <1>6. Split(t) = [n \in 0..m |-> Turn(Split(t), n)]
    BY <1>4, <1>5
  <1> QED  BY <1>6 DEF Turn, m

\* Split begins with one empty part and takes a word or a slash at a time.
LEMMA SplitSteps ==
  ASSUME NEW t, Len(t) \in Nat
  PROVE  /\ Split(t)[0] = << <<>> >>
         /\ \A n \in 1..Len(t) : Split(t)[n] = Broken(Split(t)[n - 1], t[n])
  <1>1. \A n \in 1..Len(t) : n \in 0..Len(t) /\ n # 0
    OBVIOUS
  <1>2. 0 \in 0..Len(t)
    OBVIOUS
  <1> QED  BY <1>1, <1>2, SplitIs

\* Parts are one or more sequences of words.
Parted(q) == q \in Seq(Seq(Text)) /\ Len(q) >= 1

\* A word or a slash makes parts of parts, whatever parts stand before them.
LEMMA BrokenIs ==
  ASSUME NEW q, NEW w \in Text, Parted(q)
  PROVE  /\ Parted(Broken(q, w))
         /\ \A p \in Seq(Seq(Text)) : Broken(p \o q, w) = p \o Broken(q, w)
  <1> DEFINE last == Append(q[Len(q)], w)
             T == Seq(Text)
  <1>1. q \in Seq(T) /\ Len(q) \in Nat /\ Len(q) >= 1 /\ Len(q) \in 1..Len(q) /\ q[Len(q)] \in T
    BY DEF Parted
  <1>2. last \in T
    BY <1>1, AppendProperties
  <1>3. <<>> \in T
    OBVIOUS
  <1> HIDE DEF T
  <1>4. CASE w = Slash
    <2>1. Broken(q, w) = Append(q, <<>>) /\ \A p : Broken(p \o q, w) = Append(p \o q, <<>>)
      BY <1>4 DEF Broken
    <2>2. Append(q, <<>>) \in Seq(T) /\ Len(Append(q, <<>>)) = Len(q) + 1
      BY <1>1, <1>3, AppendProperties
    <2>3. ASSUME NEW p \in Seq(T) PROVE Append(p \o q, <<>>) = p \o Append(q, <<>>)
      <3>1. /\ p \o q \in Seq(T) /\ Len(p \o q) = Len(p) + Len(q) /\ Len(p) \in Nat
            /\ \A i \in 1..Len(p) : (p \o q)[i] = p[i]
            /\ \A i \in 1..Len(q) : (p \o q)[Len(p) + i] = q[i]
        BY <1>1, ConcatIs
      <3> DEFINE s == Append(p \o q, <<>>)
                 r == Append(q, <<>>)
                 t == p \o r
      <3>2. /\ s \in Seq(T) /\ Len(s) = Len(p) + Len(q) + 1
            /\ \A i \in 1..Len(p) + Len(q) : s[i] = (p \o q)[i]
            /\ s[Len(p) + Len(q) + 1] = <<>>
        BY <1>3, <3>1, AppendProperties
      <3>3. /\ r \in Seq(T) /\ Len(r) = Len(q) + 1
            /\ \A i \in 1..Len(q) : r[i] = q[i]
            /\ r[Len(q) + 1] = <<>>
        BY <1>1, <1>3, AppendProperties
      <3> HIDE DEF s, r
      <3>4. /\ t \in Seq(T) /\ Len(t) = Len(p) + Len(q) + 1
            /\ \A i \in 1..Len(p) : t[i] = p[i]
            /\ \A i \in 1..Len(q) + 1 : t[Len(p) + i] = r[i]
        <4>1. p \in Seq(T) /\ r \in Seq(T)
          BY <3>3
        <4>2. /\ t \in Seq(T) /\ Len(t) = Len(p) + Len(r)
              /\ \A i \in 1..Len(p) : t[i] = p[i]
              /\ \A i \in 1..Len(r) : t[Len(p) + i] = r[i]
          BY ONLY <4>1, ConcatIs
        <4>3. Len(p) + (Len(q) + 1) = Len(p) + Len(q) + 1
          BY <1>1, <3>1
        <4> HIDE DEF t
        <4> QED  BY <3>3, <4>2, <4>3
      <3> HIDE DEF t
      <3>5. ASSUME NEW i \in 1..Len(s) PROVE s[i] = t[i]
        <4>1. CASE i <= Len(p)
          <5>1. i \in 1..Len(p) /\ i \in 1..Len(p) + Len(q)
            BY <1>1, <3>1, <3>2, <4>1
          <5> QED  BY <3>1, <3>2, <3>4, <5>1
        <4>2. CASE i > Len(p)
          <5> DEFINE j == i - Len(p)
          <5>1. j \in 1..Len(q) + 1 /\ i = Len(p) + j
            BY <1>1, <3>1, <3>2, <4>2
          <5> HIDE DEF j
          <5>2. CASE j = Len(q) + 1
            <6>1. i = Len(p) + Len(q) + 1
              BY <1>1, <3>1, <5>1, <5>2
            <6>2. s[i] = <<>>
              BY <3>2, <6>1
            <6>3. t[i] = r[j] /\ r[j] = <<>>
              BY <3>3, <3>4, <5>1, <5>2
            <6> QED  BY <6>2, <6>3
          <5>3. CASE j # Len(q) + 1
            <6>1. j \in 1..Len(q) /\ i \in 1..Len(p) + Len(q)
              BY <1>1, <3>1, <5>1, <5>3
            <6>2. s[i] = q[j]
              BY <3>1, <3>2, <5>1, <6>1
            <6>3. t[i] = q[j]
              BY <3>3, <3>4, <5>1, <6>1
            <6> QED  BY <6>2, <6>3
          <5> QED  BY <5>2, <5>3
        <4> QED  BY <1>1, <3>1, <3>2, <4>1, <4>2
      <3>6. s = t
        BY <3>2, <3>4, <3>5, SameSeq
      <3> QED  BY <3>6 DEF s, r, t
    <2>4. Parted(Broken(q, w))
      BY <1>1, <2>1, <2>2 DEF Parted, T
    <2> QED  BY <2>1, <2>3, <2>4 DEF T
  <1>5. CASE w # Slash
    <2>1. /\ Broken(q, w) = [q EXCEPT ![Len(q)] = last]
          /\ \A p : Broken(p \o q, w) =
                [p \o q EXCEPT ![Len(p \o q)] = Append((p \o q)[Len(p \o q)], w)]
      BY <1>5 DEF Broken
    <2> DEFINE r == [q EXCEPT ![Len(q)] = last]
    <2>2. /\ r \in Seq(T) /\ Len(r) = Len(q)
          /\ \A i \in 1..Len(q) : r[i] = IF i = Len(q) THEN last ELSE q[i]
      <3> HIDE DEF last
      <3>1. r = [i \in 1..Len(q) |-> IF i = Len(q) THEN last ELSE q[i]]
        BY <1>1
      <3> HIDE DEF r
      <3>2. \A i \in 1..Len(q) : (IF i = Len(q) THEN last ELSE q[i]) \in T
        BY <1>1, <1>2
      <3> QED  BY <1>1, <3>1, <3>2
    <2> HIDE DEF r
    <2>3. ASSUME NEW p \in Seq(T)
          PROVE  [p \o q EXCEPT ![Len(p \o q)] = Append((p \o q)[Len(p \o q)], w)] = p \o r
      <3> DEFINE c == p \o q
                 s == [c EXCEPT ![Len(c)] = Append(c[Len(c)], w)]
                 t == p \o r
      <3>1. /\ c \in Seq(T) /\ Len(c) = Len(p) + Len(q) /\ Len(p) \in Nat
            /\ \A i \in 1..Len(p) : c[i] = p[i]
            /\ \A i \in 1..Len(q) : c[Len(p) + i] = q[i]
        BY <1>1, ConcatIs
      <3>2. Append(c[Len(c)], w) = last
        BY <1>1, <3>1
      <3> HIDE DEF c, last
      <3>3. /\ s \in Seq(T) /\ Len(s) = Len(p) + Len(q)
            /\ \A i \in 1..Len(p) + Len(q) : s[i] = IF i = Len(p) + Len(q) THEN last ELSE c[i]
        BY <1>1, <1>2, <3>1, <3>2
      <3>4. /\ t \in Seq(T) /\ Len(t) = Len(p) + Len(q)
            /\ \A i \in 1..Len(p) : t[i] = p[i]
            /\ \A i \in 1..Len(q) : t[Len(p) + i] = r[i]
        <4>1. p \in Seq(T) /\ r \in Seq(T)
          BY <2>2
        <4>2. /\ t \in Seq(T) /\ Len(t) = Len(p) + Len(r)
              /\ \A i \in 1..Len(p) : t[i] = p[i]
              /\ \A i \in 1..Len(r) : t[Len(p) + i] = r[i]
          BY ONLY <4>1, ConcatIs
        <4> HIDE DEF t
        <4> QED  BY <2>2, <4>2
      <3> HIDE DEF s, t
      <3>5. ASSUME NEW i \in 1..Len(s) PROVE s[i] = t[i]
        <4>1. CASE i <= Len(p)
          <5>1. i # Len(p) + Len(q) /\ i \in 1..Len(p)
            BY <1>1, <3>1, <3>3, <4>1
          <5> QED  BY <3>1, <3>3, <3>4, <5>1
        <4>2. CASE i > Len(p)
          <5> DEFINE j == i - Len(p)
          <5>1. j \in 1..Len(q) /\ i = Len(p) + j /\ (i = Len(p) + Len(q) <=> j = Len(q))
            BY <1>1, <3>1, <3>3, <4>2
          <5> HIDE DEF j
          <5> QED  BY <2>2, <3>1, <3>3, <3>4, <5>1
        <4> QED  BY <1>1, <3>1, <3>3, <4>1, <4>2
      <3>6. s = t
        BY <3>3, <3>4, <3>5, SameSeq
      <3> QED  BY <3>6 DEF s, t, c
    <2>4. Parted(Broken(q, w))
      BY <1>1, <2>1, <2>2 DEF Parted, T, r
    <2>5. Broken(q, w) = r
      BY <2>1 DEF r
    <2> QED  BY <2>1, <2>3, <2>4, <2>5 DEF T
  <1> QED  BY <1>4, <1>5

\* Split has parts all along a text.
LEMMA SplitTyped ==
  ASSUME NEW t \in Seq(Text)
  PROVE  \A n \in 0..Len(t) : Parted(Split(t)[n])
  <1> DEFINE m == Len(t)
             part(n) == Split(t)[n]
             S == {n \in 0..m : part(n) \in Seq(Seq(Text)) /\ Len(part(n)) >= 1}
  <1>1. m \in Nat /\ \A n \in 1..m : t[n] \in Text
    OBVIOUS
  <1>2. 0 \in S
    <2> DEFINE start == << <<>> >>
    <2>1. start \in Seq(Seq(Text)) /\ Len(start) >= 1
      OBVIOUS
    <2>2. part(0) = start
      BY <1>1, SplitSteps
    <2>3. 0 \in 0..m
      BY <1>1
    <2> HIDE DEF part, start
    <2>4. part(0) \in Seq(Seq(Text)) /\ Len(part(0)) >= 1
      BY ONLY <2>1, <2>2
    <2> QED  BY <2>3, <2>4
  <1>3. ASSUME NEW n \in 1..m, n - 1 \in S PROVE n \in S
    <2>1. part(n) = Broken(part(n - 1), t[n])
      BY <1>1, SplitSteps
    <2> HIDE DEF part
    <2>2. Parted(part(n - 1)) /\ t[n] \in Text
      BY <1>1, <1>3 DEF Parted
    <2>3. Parted(part(n))
      BY <2>1, <2>2, BrokenIs
    <2> QED  BY <1>1, <2>3 DEF Parted
  <1> HIDE DEF S
  <1>4. 0..m \subseteq S
    BY <1>1, <1>2, <1>3, Along
  <1> QED  BY <1>4 DEF S, Parted

\* t is a, a slash and b.
Joins(t, a, b) ==
    /\ t \in Seq(Text) /\ a \in Seq(Text) /\ b \in Seq(Text)
    /\ Len(t) = Len(a) + 1 + Len(b)
    /\ \A i \in 1..Len(a) : t[i] = a[i]
    /\ t[Len(a) + 1] = Slash
    /\ \A i \in 1..Len(b) : t[Len(a) + 1 + i] = b[i]

\* What a text is split into.
Parts(t) == Split(t)[Len(t)]

\* A slash between two texts separates the parts of the one from those of the
\* other.
LEMMA SplitJoins ==
  ASSUME NEW t, NEW a, NEW b, Joins(t, a, b)
  PROVE  Parts(t) = Parts(a) \o Parts(b)
  <1> DEFINE A == Len(a)
             B == Len(b)
             f(n) == Split(t)[n]
             g(n) == Split(a)[n]
             h(n) == Split(b)[n]
             p == g(A)
             S == {n \in 0..A : f(n) = g(n)}
             U == {n \in 0..B : f(A + 1 + n) = p \o h(n)}
  <1>1. /\ A \in Nat /\ B \in Nat /\ Len(t) = A + 1 + B
        /\ \A i \in 1..A : t[i] = a[i]
        /\ t[A + 1] = Slash
        /\ \A i \in 1..B : t[A + 1 + i] = b[i]
        /\ \A i \in 1..B : b[i] \in Text
    BY DEF Joins
  <1>2. /\ f(0) = << <<>> >> /\ g(0) = << <<>> >> /\ h(0) = << <<>> >>
        /\ \A n \in 1..A + 1 + B : f(n) = Broken(f(n - 1), t[n])
        /\ \A n \in 1..A : g(n) = Broken(g(n - 1), a[n])
        /\ \A n \in 1..B : h(n) = Broken(h(n - 1), b[n])
    BY <1>1, SplitSteps
  <1>3. p \in Seq(Seq(Text)) /\ \A n \in 0..B : Parted(h(n))
    <2>1. A \in 0..A
      BY <1>1
    <2> QED  BY <2>1, SplitTyped DEF Joins, Parted
  <1> HIDE DEF f, g, h, A, B
  <1>4. f(A) = p
    <2>1. 0 \in S
      BY <1>1, <1>2
    <2>2. ASSUME NEW n \in 1..A, n - 1 \in S PROVE n \in S
      <3>1. n \in 1..A + 1 + B /\ n \in 0..A
        BY <1>1
      <3> QED  BY <1>1, <1>2, <2>2, <3>1
    <2> HIDE DEF S
    <2>3. 0..A \subseteq S
      BY <1>1, <2>1, <2>2, Along
    <2>4. A \in S
      BY <1>1, <2>3
    <2> QED  BY <2>4 DEF S
  <1> HIDE DEF p
  <1>5. 0 \in U
    <2>1. f(A + 1) = Broken(f(A), Slash)
      <3>1. A + 1 \in 1..A + 1 + B /\ (A + 1) - 1 = A
        BY <1>1
      <3> QED  BY <1>1, <1>2, <3>1
    <2>2. Broken(p, Slash) = Append(p, <<>>)
      BY DEF Broken
    <2>3. Append(p, <<>>) = p \o << <<>> >>
      <3>1. <<>> \in Seq(Text)
        OBVIOUS
      <3> QED  BY <1>3, <3>1, AppendIsConcat
    <2>4. A + 1 + 0 = A + 1 /\ 0 \in 0..B
      BY <1>1
    <2> QED  BY <1>2, <1>4, <2>1, <2>2, <2>3, <2>4
  <1>6. ASSUME NEW n \in 1..B, n - 1 \in U PROVE n \in U
    <2>1. /\ A + 1 + n \in 1..A + 1 + B /\ (A + 1 + n) - 1 = A + 1 + (n - 1)
          /\ n - 1 \in 0..B /\ n \in 0..B
      BY <1>1
    <2>2. f(A + 1 + n) = Broken(p \o h(n - 1), b[n])
      BY <1>1, <1>2, <1>6, <2>1
    <2>3. Broken(p \o h(n - 1), b[n]) = p \o Broken(h(n - 1), b[n])
      BY <1>1, <1>3, <2>1, BrokenIs
    <2> QED  BY <1>2, <2>1, <2>2, <2>3
  <1> HIDE DEF U
  <1>7. 0..B \subseteq U
    BY <1>1, <1>5, <1>6, Along
  <1>8. B \in U
    BY <1>1, <1>7
  <1>9. Parts(t) = f(A + 1 + B) /\ Parts(a) = p /\ Parts(b) = h(B)
    BY <1>1 DEF Parts, f, g, h, p, A, B
  <1> QED  BY <1>8, <1>9 DEF U

\* The segments of a path with words.
LEMMA SegmentsAre ==
  ASSUME NEW p, NEW a, NEW b, Bounds(p, a, b)
  PROVE  LET t == SubSeq(p, a, b) IN
         /\ t \in Seq(Text) /\ Len(t) = b - a + 1
         /\ \A i \in 1..b - a + 1 : t[i] = p[a + i - 1]
         /\ Segments(p) = Parts(t) /\ Segments(p) \in Seq(Seq(Text))
  <1> DEFINE t == SubSeq(p, a, b)
  <1>1. /\ a \in Nat /\ b \in Nat /\ 1 <= a /\ a <= b /\ b <= Len(p) /\ p \in Seq(Text)
        /\ a <= b + 1 /\ b - a + 1 \in Nat /\ b - a + 1 # 0
    BY DEF Bounds
  <1>2. /\ t \in Seq(Text) /\ Len(t) = b - a + 1
        /\ \A i \in 1..b - a + 1 : t[i] = p[a + i - 1]
    BY <1>1, CutIs
  <1>3. Trim(p) = t
    BY TrimIs
  <1> HIDE DEF t
  <1>4. t # <<>>
    BY <1>1, <1>2
  <1>5. Segments(p) = Parts(t)
    BY <1>3, <1>4 DEF Segments, Parts
  <1>6. Parted(Parts(t))
    BY <1>1, <1>2, SplitTyped DEF Parts
  <1> QED  BY <1>2, <1>5, <1>6 DEF Parted, t

\* Paths with the same text from the first to the last word have the same
\* segments, however many slashes stand around it.
LEMMA SegmentsSame ==
  ASSUME NEW p, NEW q, NEW a, NEW b, Bounds(p, a, b), Bounds(q, a, b),
         \A i \in a..b : p[i] = q[i]
  PROVE  Segments(p) = Segments(q)
  <1>1. a \in Nat /\ b \in Nat /\ a <= b /\ \A i \in 1..b - a + 1 : a + i - 1 \in a..b
    <2>1. a \in Nat /\ b \in Nat /\ a <= b
      BY DEF Bounds
    <2> QED  BY ONLY <2>1
  <1>2. SubSeq(p, a, b) = SubSeq(q, a, b)
    <2> DEFINE s == SubSeq(p, a, b)
               t == SubSeq(q, a, b)
    <2>1. /\ s \in Seq(Text) /\ Len(s) = b - a + 1
          /\ \A i \in 1..b - a + 1 : s[i] = p[a + i - 1]
      BY SegmentsAre
    <2>2. /\ t \in Seq(Text) /\ Len(t) = b - a + 1
          /\ \A i \in 1..b - a + 1 : t[i] = q[a + i - 1]
      BY SegmentsAre
    <2> HIDE DEF s, t
    <2>3. \A i \in 1..Len(s) : s[i] = t[i]
      BY <1>1, <2>1, <2>2
    <2>4. s = t
      BY <2>1, <2>2, <2>3, SameSeq
    <2> QED  BY <2>4 DEF s, t
  <1>3. Trim(p) = Trim(q)
    BY <1>2, TrimIs
  <1> QED  BY <1>3 DEF Segments

\* The path of a group and one of its routes have the segments of both, one
\* behind the other, however slashes were written (join_route_paths, lib.rs:3996).
THEOREM SegmentsJoin ==
  ASSUME NEW prefix \in Seq(Text), NEW path \in Seq(Text)
  PROVE  Segments(Joined(GroupPrefix(prefix), path))
            = Segments(prefix) \o Segments(path)
  <1> DEFINE group == GroupPrefix(prefix)
             Segs(p) == Segments(p)
             T == Seq(Text)
  <1>1. \A p \in Seq(Text) : Segs(p) \in Seq(T)
    <2> SUFFICES ASSUME NEW p \in Seq(Text) PROVE Segs(p) \in Seq(T)
      OBVIOUS
    <2>1. CASE Words(p) = {}
      <3>1. Segs(p) = <<>>
        BY <2>1, NoWords
      <3> HIDE DEF Segs, T
      <3> QED  BY <3>1
    <2>2. CASE Words(p) # {}
      <3>1. PICK a, b : Bounds(p, a, b)
        BY <2>2, HasBounds
      <3> QED  BY <3>1, SegmentsAre
    <2> QED  BY <2>1, <2>2
  <1>2. CASE Words(prefix) = {}
    <2>1. group \in {<<Slash>>, <<>>}
      BY <1>2, NoWords DEF GroupPrefix
    <2>2. Joined(group, path) = path
      BY <2>1 DEF Joined
    <2>3. Segs(prefix) = <<>>
      BY <1>2, NoWords
    <2>4. Segs(path) = <<>> \o Segs(path)
      <3> HIDE DEF Segs, T
      <3> QED  BY <1>1, ConcatEmptySeq
    <2> QED  BY <2>2, <2>3, <2>4
  <1>3. CASE Words(prefix) # {}
    <2>1. PICK a, b : Bounds(prefix, a, b)
      BY <1>3, HasBounds
    <2>2. /\ a \in Nat /\ b \in Nat /\ 1 <= a /\ a <= b /\ b <= Len(prefix) /\ Len(prefix) \in Nat
          /\ \A i \in 1..Len(prefix) : i < a \/ i > b => prefix[i] = Slash
          /\ prefix[a] # Slash /\ prefix[b] # Slash
      BY <2>1 DEF Bounds
    <2>3. group = SubSeq(prefix, 1, b)
      <3>1. prefix # <<Slash>>
        BY <2>2
      <3> QED  BY <2>1, <3>1, BoundsAre DEF GroupPrefix
    <2>4. /\ group \in Seq(Text) /\ Len(group) = b
          /\ \A i \in 1..b : group[i] = prefix[i]
      <3>1. /\ group \in Seq(Text) /\ Len(group) = b - 1 + 1
            /\ \A i \in 1..b - 1 + 1 : group[i] = prefix[1 + i - 1]
        BY <2>2, <2>3, CutIs
      <3>2. b - 1 + 1 = b
        BY <2>2
      <3> HIDE DEF group
      <3>3. ASSUME NEW i \in 1..b PROVE group[i] = prefix[i]
        <4>1. 1 + i - 1 = i
          OBVIOUS
        <4>2. group[i] = prefix[1 + i - 1]
          BY <3>1, <3>2
        <4> QED  BY <4>1, <4>2
      <3> QED  BY <3>1, <3>2, <3>3
    <2> HIDE DEF group
    <2>5. Bounds(group, a, b)
      <3>1. a \in 1..Len(group) /\ b \in a..Len(group) /\ a \in 1..b /\ b \in 1..b
        BY <2>2, <2>4
      <3>2. ASSUME NEW i \in 1..Len(group), i < a \/ i > b PROVE group[i] = Slash
        <4>1. i \in 1..b /\ i < a /\ i \in 1..Len(prefix)
          BY <2>2, <2>4, <3>2
        <4> QED  BY <2>2, <2>4, <4>1
      <3>3. group[a] # Slash /\ group[b] # Slash
        BY <2>2, <2>4, <3>1
      <3> QED  BY <2>4, <3>1, <3>2, <3>3 DEF Bounds
    <2>6. group \notin {<<Slash>>, <<>>}
      <3>1. ASSUME group = <<Slash>> PROVE FALSE
        <4>1. Len(group) = 1 /\ group[1] = Slash
          BY <3>1
        <4>2. b = 1 /\ group[b] = prefix[b]
          BY <2>2, <2>4, <4>1
        <4> QED  BY <2>2, <4>1, <4>2
      <3>2. group # <<>>
        BY <2>2, <2>4
      <3> QED  BY <3>1, <3>2
    <2>7. TrimEnd(group) = group
      <3>1. TrimEnd(group) = SubSeq(group, 1, b)
        BY <2>5, BoundsAre
      <3>2. SubSeq(group, 1, b) = group
        BY <2>4
      <3> QED  BY <3>1, <3>2
    <2> DEFINE front == Append(group, Slash)
    <2>8. /\ front \in Seq(Text) /\ Len(front) = b + 1 /\ front[b + 1] = Slash
          /\ \A i \in 1..b : front[i] = prefix[i]
      <3>1. Slash \in Text
        BY DEF Text
      <3>2. /\ front \in Seq(Text) /\ Len(front) = Len(group) + 1
            /\ \A i \in 1..Len(group) : front[i] = group[i]
            /\ front[Len(group) + 1] = Slash
        BY <2>4, <3>1, AppendProperties
      <3> HIDE DEF front
      <3> QED  BY <2>4, <3>2
    <2>9. CASE Words(path) = {}
      <3>1. TrimStart(path) = <<>> /\ Segs(path) = <<>>
        BY <2>9, NoWords
      <3>2. Joined(group, path) = front
        <4>1. front \o <<>> = front
          BY <2>8, ConcatEmptySeq
        <4>2. Joined(group, path) \in {front, front \o <<>>}
          BY <2>6, <2>7, <3>1 DEF Joined
        <4> QED  BY <4>1, <4>2
      <3> HIDE DEF front
      <3>3. Bounds(front, a, b)
        <4>1. a \in 1..Len(front) /\ b \in a..Len(front) /\ a \in 1..b /\ b \in 1..b
          BY <2>2, <2>8
        <4>2. ASSUME NEW i \in 1..Len(front), i < a \/ i > b PROVE front[i] = Slash
          <5>1. CASE i = b + 1
            BY <2>8, <5>1
          <5>2. CASE i # b + 1
            <6>1. i \in 1..b /\ i < a /\ i \in 1..Len(prefix)
              BY <2>2, <2>8, <4>2, <5>2
            <6> QED  BY <2>2, <2>8, <6>1
          <5> QED  BY <5>1, <5>2
        <4>3. front[a] # Slash /\ front[b] # Slash
          BY <2>2, <2>8, <4>1
        <4> QED  BY <2>8, <4>1, <4>2, <4>3 DEF Bounds
      <3>4. \A i \in a..b : front[i] = prefix[i]
        BY <2>2, <2>8
      <3>5. Segs(front) = Segs(prefix)
        BY <2>1, <3>3, <3>4, SegmentsSame
      <3>6. Segs(prefix) \o <<>> = Segs(prefix)
        <4> HIDE DEF Segs, T
        <4> QED  BY <1>1, ConcatEmptySeq
      <3> QED  BY <3>1, <3>2, <3>5, <3>6 DEF group
    <2>10. CASE Words(path) # {}
      <3>1. PICK c, d : Bounds(path, c, d)
        BY <2>10, HasBounds
      <3> DEFINE n == Len(path)
                 rest == SubSeq(path, c, n)
                 whole == front \o rest
                 e == b + 1 + (d - c + 1)
      <3>2. /\ c \in Nat /\ d \in Nat /\ 1 <= c /\ c <= d /\ d <= n /\ n \in Nat
            /\ \A i \in 1..n : i < c \/ i > d => path[i] = Slash
            /\ path[c] # Slash /\ path[d] # Slash
        BY <3>1 DEF Bounds
      <3>3. Joined(group, path) = whole
        <4>1. path # <<Slash>>
          BY <3>2
        <4>2. TrimStart(path) = rest
          BY <3>1, BoundsAre
        <4> HIDE DEF rest
        <4> QED  BY <2>6, <2>7, <4>1, <4>2 DEF Joined
      <3>4. /\ rest \in Seq(Text) /\ Len(rest) = n - c + 1
            /\ \A i \in 1..n - c + 1 : rest[i] = path[c + i - 1]
        BY <3>2, CutIs
      <3> HIDE DEF rest, front
      <3>5. /\ whole \in Seq(Text) /\ Len(whole) = b + 1 + (n - c + 1)
            /\ \A i \in 1..b : whole[i] = prefix[i]
            /\ whole[b + 1] = Slash
            /\ \A i \in 1..n - c + 1 : whole[b + 1 + i] = path[c + i - 1]
        <4>1. /\ whole \in Seq(Text) /\ Len(whole) = Len(front) + Len(rest)
              /\ \A i \in 1..Len(front) : whole[i] = front[i]
              /\ \A i \in 1..Len(rest) : whole[Len(front) + i] = rest[i]
          <5>1. front \in Seq(Text) /\ rest \in Seq(Text)
            BY <2>8, <3>4
          <5> QED  BY ONLY <5>1, ConcatIs
        <4> HIDE DEF whole
        <4>2. b + 1 \in 1..b + 1 /\ \A i \in 1..b : i \in 1..b + 1
          BY <2>2
        <4> QED  BY <2>8, <3>4, <4>1, <4>2
      <3> HIDE DEF whole, n
      <3>6. Bounds(whole, a, e)
        <4>1. a \in 1..Len(whole) /\ e \in a..Len(whole)
          BY <2>2, <3>2, <3>5
        <4>2. whole[a] # Slash
          <5>1. a \in 1..b
            BY <2>2
          <5> QED  BY <2>2, <3>5, <5>1
        <4>3. whole[e] # Slash
          <5>1. d - c + 1 \in 1..n - c + 1 /\ c + (d - c + 1) - 1 = d
            BY <3>2
          <5>2. whole[e] = path[d]
            BY <3>5, <5>1
          <5> QED  BY <3>2, <5>2
        <4>4. ASSUME NEW i \in 1..Len(whole), i < a \/ i > e PROVE whole[i] = Slash
          <5>1. CASE i < a
            <6>1. i \in 1..b /\ i \in 1..Len(prefix)
              BY <2>2, <5>1
            <6> QED  BY <2>2, <3>5, <5>1, <6>1
          <5>2. CASE i > e
            <6> DEFINE j == i - (b + 1)
            <6>1. j \in 1..n - c + 1 /\ b + 1 + j = i /\ c + j - 1 \in 1..n /\ c + j - 1 > d
              <7>1. i \in 1..b + 1 + (n - c + 1) /\ i > b + 1 + (d - c + 1)
                BY <3>5, <5>2
              <7>2. b \in Nat /\ c \in Nat /\ d \in Nat /\ n \in Nat /\ 1 <= c /\ c <= d /\ d <= n
                BY <2>2, <3>2
              <7> QED  BY ONLY <7>1, <7>2
            <6> HIDE DEF j
            <6>2. whole[i] = path[c + j - 1]
              BY <3>5, <6>1
            <6> QED  BY <3>2, <6>1, <6>2
          <5> QED  BY <4>4, <5>1, <5>2
        <4> HIDE DEF e
        <4> QED  BY <3>5, <4>1, <4>2, <4>3, <4>4 DEF Bounds
      <3> DEFINE t == SubSeq(whole, a, e)
                 u == SubSeq(prefix, a, b)
                 v == SubSeq(path, c, d)
      <3>7. /\ t \in Seq(Text) /\ Len(t) = e - a + 1
            /\ \A i \in 1..e - a + 1 : t[i] = whole[a + i - 1]
            /\ Segs(whole) = Parts(t)
        BY <3>6, SegmentsAre
      <3>8. /\ u \in Seq(Text) /\ Len(u) = b - a + 1
            /\ \A i \in 1..b - a + 1 : u[i] = prefix[a + i - 1]
            /\ Segs(prefix) = Parts(u)
        BY <2>1, SegmentsAre
      <3>9. /\ v \in Seq(Text) /\ Len(v) = d - c + 1
            /\ \A i \in 1..d - c + 1 : v[i] = path[c + i - 1]
            /\ Segs(path) = Parts(v)
        BY <3>1, SegmentsAre
      <3> HIDE DEF t, u, v, Segs
      <3>10. Joins(t, u, v)
        <4> DEFINE k == b - a + 1
                   l == d - c + 1
        <4>1. /\ k \in Nat /\ l \in Nat /\ e - a + 1 = k + 1 + l
              /\ a \in Nat /\ b \in Nat /\ a >= 1 /\ a + k = b + 1
              /\ l <= n - c + 1 /\ n - c + 1 \in Nat
          <5>1. /\ a \in Nat /\ b \in Nat /\ 1 <= a /\ a <= b
                /\ c \in Nat /\ d \in Nat /\ n \in Nat /\ 1 <= c /\ c <= d /\ d <= n
            BY <2>2, <3>2
          <5> QED  BY ONLY <5>1
        <4>2. /\ Len(t) = k + 1 + l /\ \A i \in 1..k + 1 + l : t[i] = whole[a + i - 1]
              /\ Len(u) = k /\ \A i \in 1..k : u[i] = prefix[a + i - 1]
              /\ Len(v) = l /\ \A i \in 1..l : v[i] = path[c + i - 1]
          BY <3>7, <3>8, <3>9, <4>1
        <4> HIDE DEF e, k, l
        <4>3. \A i \in 1..k : i \in 1..k + 1 + l /\ a + i - 1 \in 1..b
          BY ONLY <4>1
        <4>4. \A i \in 1..k : t[i] = u[i]
          <5> SUFFICES ASSUME NEW i \in 1..k PROVE t[i] = u[i]
            OBVIOUS
          <5>1. i \in 1..k + 1 + l /\ a + i - 1 \in 1..b
            BY <4>3
          <5>2. t[i] = whole[a + i - 1] /\ u[i] = prefix[a + i - 1]
            BY <4>2, <5>1
          <5>3. whole[a + i - 1] = prefix[a + i - 1]
            BY <3>5, <5>1
          <5> QED  BY <5>2, <5>3
        <4>5. k + 1 \in 1..k + 1 + l /\ a + (k + 1) - 1 = b + 1
          BY ONLY <4>1
        <4>6. t[k + 1] = Slash
          BY <3>5, <4>2, <4>5
        <4>7. \A i \in 1..l : /\ k + 1 + i \in 1..k + 1 + l /\ i \in 1..n - c + 1
                              /\ a + (k + 1 + i) - 1 = b + 1 + i
          BY ONLY <4>1
        <4>8. \A i \in 1..l : t[k + 1 + i] = v[i]
          <5> SUFFICES ASSUME NEW i \in 1..l PROVE t[k + 1 + i] = v[i]
            OBVIOUS
          <5>1. t[k + 1 + i] = whole[a + (k + 1 + i) - 1] /\ v[i] = path[c + i - 1]
            BY <4>2, <4>7
          <5>2. whole[b + 1 + i] = path[c + i - 1]
            BY <3>5, <4>7
          <5>3. a + (k + 1 + i) - 1 = b + 1 + i
            BY <4>7
          <5> QED  BY <5>1, <5>2, <5>3
        <4> QED  BY <3>7, <3>8, <3>9, <4>2, <4>4, <4>6, <4>8 DEF Joins
      <3>11. Segs(whole) = Segs(prefix) \o Segs(path)
        <4>1. Parts(t) = Parts(u) \o Parts(v)
          BY ONLY <3>10, SplitJoins
        <4> QED  BY <3>7, <3>8, <3>9, <4>1
      <3> QED  BY <3>3, <3>11 DEF Segs, group
    <2> QED  BY <2>9, <2>10
  <1> QED  BY <1>2, <1>3

-----------------------------------------------------------------------------
(* Whom a request reaches. *)

\* A route has what its registration asked for, the routes stand in the order
\* of their registrations, and each registration of a route has one.
RowOf(k) ==
    LET row == routes[k]
        entry == log[row.id]
    IN  /\ row.id \in 1..Len(log) /\ entry.kind = "route"
        /\ row.method = entry.what.method
        /\ row.path = Joined(GroupPrefix(entry.prefix), entry.what.path)

RoutesFollow ==
    /\ Len(routes) \in Nat /\ DOMAIN routes = 1..Len(routes)
    /\ Len(log) \in Nat /\ DOMAIN log = 1..Len(log)
    /\ \A k \in 1..Len(routes) : RowOf(k)
    /\ \A k, l \in 1..Len(routes) : k < l => routes[k].id < routes[l].id
    /\ \A i \in 1..Len(log) :
          log[i].kind = "route" =>
              /\ log[i].what.method \in Methods
              /\ log[i].what.path \in Seq(Text) /\ log[i].prefix \in Seq(Text)
              /\ \E k \in 1..Len(routes) : routes[k].id = i

\* The first of some places in a sequence, zero where there is none.
LEMMA FirstIs ==
  ASSUME NEW n \in Nat, NEW K \in SUBSET (1..n)
  PROVE  /\ K = {} => FirstOf(K) = 0
         /\ K # {} => FirstOf(K) \in K /\ \A k \in K : FirstOf(K) <= k
         /\ FirstOf(K) # 0 <=> K # {}
  <1>1. CASE K = {}
    BY <1>1 DEF FirstOf
  <1>2. CASE K # {}
    <2>1. K \in SUBSET Nat
      OBVIOUS
    <2>2. PICK a \in K : \A x \in K : a <= x
      BY <1>2, <2>1, Least
    <2>3. Min(K) = a
      BY <2>1, <2>2, MinOf
    <2>4. FirstOf(K) = a /\ a # 0
      BY <1>2, <2>3 DEF FirstOf
    <2> QED  BY <1>2, <2>2, <2>4
  <1> QED  BY <1>1, <1>2

\* A route matches the requests that its registration asks for.
LEMMA MatchesWhatIsAsked ==
  ASSUME RoutesFollow, NEW k \in 1..Len(routes), NEW method, NEW path
  PROVE  (routes[k].method = method /\ Matches(routes[k].path, path))
            <=> Asks(routes[k].id, method, path)
  <1> DEFINE i == routes[k].id
             wanted == Segments(log[i].prefix) \o Segments(log[i].what.path)
             actual == Segments(path)
             named == {<<p>> : p \in Parameters}
             braces == <<"{}">>
  <1>1. RowOf(k)
    BY DEF RoutesFollow
  <1>2. /\ i \in 1..Len(log) /\ log[i].kind = "route" /\ routes[k].method = log[i].what.method
        /\ routes[k].path = Joined(GroupPrefix(log[i].prefix), log[i].what.path)
    BY <1>1 DEF RowOf
  <1>3. log[i].what.path \in Seq(Text) /\ log[i].prefix \in Seq(Text)
    BY <1>2 DEF RoutesFollow
  <1>4. Segments(routes[k].path) = wanted
    BY <1>2, <1>3, SegmentsJoin
  <1>5. braces \notin named
    <2> SUFFICES ASSUME NEW p \in Parameters, <<p>> = <<"{}">> PROVE FALSE
      OBVIOUS
    <2>1. <<p>>[1] = p /\ <<"{}">>[1] = "{}"
      OBVIOUS
    <2>2. p = "{}"
      BY <2>1
    <2> QED  BY <2>2, ParametersAssumption
  <1>6. Matches(routes[k].path, path) <=>
            /\ Len(wanted) = Len(actual)
            /\ \A n \in DOMAIN wanted :
                  wanted[n] \in named \/ (wanted[n] = actual[n] /\ wanted[n] # braces)
    BY <1>4 DEF Matches
  <1>7. Asks(i, method, path) <=>
            /\ log[i].what.method = method
            /\ Len(wanted) = Len(actual)
            /\ \A n \in DOMAIN wanted :
                  /\ wanted[n] # braces
                  /\ wanted[n] = actual[n] \/ wanted[n] \in named
    BY <1>2 DEF Asks
  <1> HIDE DEF wanted, actual, named, braces, i
  <1>8. \A n \in DOMAIN wanted :
            wanted[n] \in named \/ (wanted[n] = actual[n] /\ wanted[n] # braces) <=>
            /\ wanted[n] # braces
            /\ wanted[n] = actual[n] \/ wanted[n] \in named
    BY <1>5
  <1> QED  BY <1>2, <1>6, <1>7, <1>8 DEF i

\* The bases of the API are those that endpoints were registered at.
BasesRecorded ==
    /\ \A i \in 1..Len(log) : log[i].kind = "endpoint" => log[i].prefix \in DOMAIN api
    /\ \A base \in DOMAIN api :
          \E i \in 1..Len(log) : log[i].kind = "endpoint" /\ log[i].prefix = base

\* A path has a base exactly when an endpoint was registered at one.
LEMMA BasesAreRecorded ==
  ASSUME RoutesFollow, BasesRecorded, NEW path
  PROVE  BasesAt(path) # {} <=> \E i \in DOMAIN log : BaseOf(i, path)
  <1>1. DOMAIN log = 1..Len(log)
    BY DEF RoutesFollow
  <1>2. ASSUME NEW base \in BasesAt(path) PROVE \E i \in DOMAIN log : BaseOf(i, path)
    <2>1. base \in DOMAIN api /\ PathsEqual(base, path)
      BY DEF BasesAt
    <2>2. PICK i \in 1..Len(log) : log[i].kind = "endpoint" /\ log[i].prefix = base
      BY <2>1 DEF BasesRecorded
    <2> QED  BY <1>1, <2>1, <2>2 DEF BaseOf
  <1>3. ASSUME NEW i \in DOMAIN log, BaseOf(i, path) PROVE BasesAt(path) # {}
    <2>1. log[i].prefix \in DOMAIN api /\ PathsEqual(log[i].prefix, path)
      BY <1>1, <1>3 DEF BaseOf, BasesRecorded
    <2> QED  BY <2>1 DEF BasesAt
  <1> QED  BY <1>2, <1>3

\* What is found for a request that is no upgrade.
LEMMA ReachedIs ==
  ASSUME NEW method, NEW path
  PROVE  LET reached == Reached(FALSE, method, path)
         IN  IF method = "POST" /\ BasesAt(path) # {} THEN reached.kind = "api" /\ reached.at = 0
             ELSE reached.kind = "route" /\ reached.at = RouteAt(method, path)
  BY DEF Reached

\* Of the routes a request reaches the first whose registration asks for it.
RoutesServe(path) ==
    \A method \in Methods :
        LET askers == {i \in DOMAIN log : Asks(i, method, path)}
            at     == RouteAt(method, path)
        IN  IF askers = {} THEN at = 0 ELSE at # 0 /\ routes[at].id = Min(askers)

\* So it does, and OPTIONS lists the methods that reach one.
LEMMA RoutesReached ==
  ASSUME RoutesFollow, NEW path
  PROVE  /\ RoutesServe(path)
         /\ AllowedMethods(path) =
               {m \in Methods \cup {"HEAD"} :
                   RouteAt(m, path) # 0 \/ (m = "POST" /\ BasesAt(path) # {})}
  <1> DEFINE n == Len(routes)
             K(method) == {k \in 1..n : routes[k].method = method /\ Matches(routes[k].path, path)}
  <1>1. n \in Nat /\ DOMAIN routes = 1..n /\ Len(log) \in Nat /\ DOMAIN log = 1..Len(log)
    BY DEF RoutesFollow
  <1>2. "HEAD" \notin Methods /\ "GET" \in Methods /\ "POST" \in Methods
    BY DEF Methods
  <1>3. \A method \in Methods : RouteAt(method, path) = FirstOf(K(method))
    BY <1>1, <1>2 DEF RouteAt
  <1>4. RouteAt("HEAD", path) = FirstOf(K("GET"))
    BY <1>1 DEF RouteAt
  <1>5. ASSUME NEW method \in Methods
        PROVE  LET askers == {i \in DOMAIN log : Asks(i, method, path)}
                   at     == RouteAt(method, path)
               IN  IF askers = {} THEN at = 0 ELSE at # 0 /\ routes[at].id = Min(askers)
    <2> DEFINE A == {i \in 1..Len(log) : Asks(i, method, path)}
               at == FirstOf(K(method))
    <2>1. \A k \in 1..n : routes[k].id \in 1..Len(log)
      BY DEF RoutesFollow, RowOf
    <2>2. \A k \in 1..n : k \in K(method) <=> routes[k].id \in A
      BY <2>1, MatchesWhatIsAsked
    <2>3. \A i \in A : \E k \in K(method) : routes[k].id = i
      <3> SUFFICES ASSUME NEW i \in A PROVE \E k \in K(method) : routes[k].id = i
        OBVIOUS
      <3>1. log[i].kind = "route"
        BY DEF Asks
      <3>2. PICK k \in 1..n : routes[k].id = i
        BY <3>1 DEF RoutesFollow
      <3> QED  BY <2>2, <3>2
    <2>4. /\ K(method) \in SUBSET (1..n) /\ A \in SUBSET Nat
          /\ \A k \in K(method) : routes[k].id \in A
      <3>1. A \in SUBSET Nat
        <4>1. A \subseteq 1..Len(log)
          OBVIOUS
        <4> HIDE DEF A
        <4> QED  BY ONLY <1>1, <4>1
      <3>2. K(method) \in SUBSET (1..n)
        OBVIOUS
      <3> HIDE DEF A, K
      <3>3. \A k \in K(method) : routes[k].id \in A
        BY <2>2, <3>2
      <3> QED  BY <3>1, <3>2, <3>3
    <2> HIDE DEF A, K, at
    <2>5. CASE A = {}
      <3>1. K(method) = {}
        BY <2>4, <2>5
      <3>2. at = 0
        BY <1>1, <2>4, <3>1, FirstIs DEF at
      <3> QED  BY <1>1, <1>3, <2>5, <3>2 DEF A, at
    <2>6. CASE A # {}
      <3>1. K(method) # {}
        BY <2>3, <2>6
      <3>2. at \in K(method) /\ at # 0 /\ \A k \in K(method) : at <= k
        BY <1>1, <2>4, <3>1, FirstIs DEF at
      <3>3. routes[at].id \in A
        BY <2>4, <3>2
      <3>4. ASSUME NEW i \in A PROVE routes[at].id <= i
        <4> DEFINE first == routes[at].id
        <4>1. PICK k \in K(method) : routes[k].id = i
          BY <2>3
        <4>2. at \in 1..n /\ k \in 1..n /\ at <= k
          BY <2>4, <3>2
        <4>3. first \in Nat /\ i \in Nat
          BY <2>4, <3>3
        <4>4. at # k => first < i
          <5>1. at # k => at < k
            BY ONLY <1>1, <4>2
          <5>2. at < k => routes[at].id < routes[k].id
            BY <4>2 DEF RoutesFollow
          <5> QED  BY <4>1, <5>1, <5>2
        <4>5. at = k => first = i
          BY <4>1
        <4> HIDE DEF first
        <4>6. first <= i
          BY ONLY <4>3, <4>4, <4>5
        <4> QED  BY <4>6 DEF first
      <3>5. Min(A) = routes[at].id
        BY <2>4, <3>3, <3>4, MinOf
      <3> QED  BY <1>1, <1>3, <2>6, <3>2, <3>5 DEF A, at
    <2> QED  BY <2>5, <2>6
  <1>6. AllowedMethods(path) =
            {m \in Methods \cup {"HEAD"} :
                RouteAt(m, path) # 0 \/ (m = "POST" /\ BasesAt(path) # {})}
    <2> DEFINE M == {routes[k].method : k \in {l \in DOMAIN routes : Matches(routes[l].path, path)}}
    <2>1. AllowedMethods(path) = M \cup (IF "GET" \in M THEN {"HEAD"} ELSE {})
                              \cup (IF BasesAt(path) = {} THEN {} ELSE {"POST"})
      BY DEF AllowedMethods
    <2>2. M \subseteq Methods
      <3>1. \A k \in 1..n : routes[k].method \in Methods
        BY DEF RoutesFollow, RowOf
      <3> QED  BY <1>1, <3>1
    <2>3. \A m \in Methods : m \in M <=> K(m) # {}
      BY <1>1
    <2>4. \A m : K(m) \in SUBSET (1..n)
      OBVIOUS
    <2> HIDE DEF K, M
    <2>5. \A m \in Methods : m \in M <=> RouteAt(m, path) # 0
      BY <1>1, <1>3, <2>3, <2>4, FirstIs
    <2>6. "GET" \in M <=> RouteAt("HEAD", path) # 0
      BY <1>1, <1>2, <1>4, <2>3, <2>4, FirstIs
    <2> QED  BY <1>2, <2>1, <2>2, <2>5, <2>6
  <1> QED  BY <1>5, <1>6 DEF RoutesServe

\* Each request reaches what its registrations say.
LEMMA Serves ==
  ASSUME RoutesFollow, BasesRecorded
  PROVE  ServedAsRegistered
  <1> SUFFICES ASSUME NEW path \in Paths
      PROVE  /\ \A method \in Methods :
                   LET askers  == {i \in DOMAIN log : Asks(i, method, path)}
                       reached == Reached(FALSE, method, path)
                   IN  IF method = "POST" /\ \E i \in DOMAIN log : BaseOf(i, path)
                       THEN reached.kind = "api"
                       ELSE /\ reached.kind = "route"
                            /\ IF askers = {} THEN reached.at = 0
                               ELSE reached.at # 0 /\ routes[reached.at].id = Min(askers)
             /\ AllowedMethods(path) =
                   {m \in Methods \cup {"HEAD"} :
                       Reached(FALSE, m, path).kind = "api" \/ Reached(FALSE, m, path).at # 0}
    BY DEF ServedAsRegistered
  <1>1. BasesAt(path) # {} <=> \E i \in DOMAIN log : BaseOf(i, path)
    BY BasesAreRecorded
  <1>2. /\ RoutesServe(path)
        /\ AllowedMethods(path) =
              {m \in Methods \cup {"HEAD"} :
                  RouteAt(m, path) # 0 \/ (m = "POST" /\ BasesAt(path) # {})}
    BY RoutesReached
  <1>3. ASSUME NEW method \in Methods
        PROVE  LET askers  == {i \in DOMAIN log : Asks(i, method, path)}
                   reached == Reached(FALSE, method, path)
               IN  IF method = "POST" /\ \E i \in DOMAIN log : BaseOf(i, path)
                   THEN reached.kind = "api"
                   ELSE /\ reached.kind = "route"
                        /\ IF askers = {} THEN reached.at = 0
                           ELSE reached.at # 0 /\ routes[reached.at].id = Min(askers)
    BY <1>1, <1>2, ReachedIs DEF RoutesServe
  <1>4. ASSUME NEW m
        PROVE  (Reached(FALSE, m, path).kind = "api" \/ Reached(FALSE, m, path).at # 0)
                  <=> (RouteAt(m, path) # 0 \/ (m = "POST" /\ BasesAt(path) # {}))
    BY ReachedIs
  <1>5. AllowedMethods(path) =
            {m \in Methods \cup {"HEAD"} :
                Reached(FALSE, m, path).kind = "api" \/ Reached(FALSE, m, path).at # 0}
    BY <1>2, <1>4
  <1> QED  BY <1>3, <1>5

\* Where routes may stand, what they are, and what is on record.
Places == {Joined(GroupPrefix(p), q) : p \in Groups, q \in Seq(STRING)}
Rows == [method : Methods, path : Places, id : Nat]
Recorded == {log[i] : i \in 1..Len(log)}

\* Routes, record and websockets hold what registrations give.
RoutesTyped ==
    /\ routes \in Seq(Rows) /\ log \in Seq(Recorded) /\ sockets \in Seq(SocketArgs)

\* The latest endpoint of a name is in the map, at its base.
EndpointStands(i) ==
    LET base == log[i].prefix
        name == NameOf(log[i].what.endpoint)
    IN  /\ base \in DOMAIN api /\ name \in DOMAIN api[base]
        /\ api[base][name] = [id |-> i, params |-> ParamsOf(log[i].what.endpoint)]

EndpointsFound ==
    /\ \A i \in 1..Len(log) : LatestEndpoint(i) => EndpointStands(i)
    /\ BasesRecorded

\* What registrations keep.
RoutingInv == RoutesTyped /\ RoutesFollow /\ EndpointsFound

\* A sequence over a set is one over a larger set.
LEMMA SeqOver ==
  ASSUME NEW S, NEW T, S \subseteq T, NEW s \in Seq(S)
  PROVE  s \in Seq(T)
  <1>1. Len(s) \in Nat /\ s = [i \in 1..Len(s) |-> s[i]]
    OBVIOUS
  <1>2. \A i \in 1..Len(s) : s[i] \in T
    OBVIOUS
  <1>3. [i \in 1..Len(s) |-> s[i]] \in Seq(T)
    BY <1>1, <1>2
  <1> QED  BY <1>1, <1>3

\* A registration goes to the end of the record, where the latest endpoints
\* stay the latest but for one of the same name at the same base.
LEMMA LogGrows ==
  ASSUME RoutesTyped, NEW kind, NEW prefix, NEW what, Log(kind, prefix, what)
  PROVE  /\ log' \in Seq(Recorded') /\ Len(log) \in Nat /\ Len(log') = Len(log) + 1
         /\ \A i \in 1..Len(log) : log'[i] = log[i]
         /\ log'[Len(log) + 1] = [kind |-> kind, prefix |-> prefix, what |-> what]
         /\ \A i \in 1..Len(log) :
               LatestEndpoint(i)' =>
                  /\ LatestEndpoint(i)
                  /\ kind = "endpoint" =>
                        prefix # log[i].prefix \/ what.endpoint[1] # log[i].what.endpoint[1]
  <1> DEFINE e == [kind |-> kind, prefix |-> prefix, what |-> what]
             n == Len(log)
             S == Recorded \cup {e}
  <1>1. log \in Seq(S) /\ n \in Nat /\ e \in S /\ log' = Append(log, e)
    BY SeqOver DEF RoutesTyped, Log
  <1>2. e.kind = kind /\ e.prefix = prefix /\ e.what = what
    OBVIOUS
  <1> HIDE DEF e, S
  <1>3. /\ log' \in Seq(S) /\ Len(log') = n + 1 /\ \A i \in 1..n : log'[i] = log[i]
        /\ log'[n + 1] = e
    BY <1>1, AppendProperties
  <1>4. log' \in Seq(Recorded')
    <2>1. log' = [i \in 1..Len(log') |-> log'[i]] /\ Len(log') \in Nat
      BY <1>3
    <2>2. \A i \in 1..Len(log') : log'[i] \in Recorded'
      BY DEF Recorded
    <2>3. [i \in 1..Len(log') |-> log'[i]] \in Seq(Recorded')
      BY <2>1, <2>2
    <2> QED  BY <2>1, <2>3
  <1> HIDE DEF n
  <1>5. ASSUME NEW i \in 1..n, LatestEndpoint(i)'
        PROVE  /\ LatestEndpoint(i)
               /\ kind = "endpoint" =>
                     prefix # log[i].prefix \/ what.endpoint[1] # log[i].what.endpoint[1]
    <2>1. /\ log'[i].kind = "endpoint"
          /\ \A j \in i + 1..n + 1 :
                ~ /\ log'[j].kind = "endpoint" /\ log'[j].prefix = log'[i].prefix
                  /\ log'[j].what.endpoint[1] = log'[i].what.endpoint[1]
      BY <1>3, <1>5 DEF LatestEndpoint
    <2>2. log'[i] = log[i] /\ n + 1 \in i + 1..n + 1
      BY <1>1, <1>3
    <2>3. \A j \in i + 1..n : j \in i + 1..n + 1 /\ log'[j] = log[j]
      BY <1>1, <1>3
    <2>4. LatestEndpoint(i)
      BY <2>1, <2>2, <2>3 DEF LatestEndpoint, n
    <2>5. kind = "endpoint" =>
              prefix # log[i].prefix \/ what.endpoint[1] # log[i].what.endpoint[1]
      BY <1>2, <1>3, <2>1, <2>2
    <2> QED  BY <2>4, <2>5
  <1> QED  BY <1>1, <1>3, <1>4, <1>5 DEF n, e

\* What is no endpoint leaves the endpoints as they are.
LEMMA EndpointsKept ==
  ASSUME RoutingInv, NEW kind, NEW prefix, NEW what, Log(kind, prefix, what),
         kind # "endpoint", api' = api
  PROVE  EndpointsFound'
  <1> DEFINE n == Len(log)
  <1>1. /\ n \in Nat /\ Len(log') = n + 1
        /\ \A i \in 1..n : log'[i] = log[i]
        /\ log'[n + 1] = [kind |-> kind, prefix |-> prefix, what |-> what]
        /\ \A i \in 1..n : LatestEndpoint(i)' => LatestEndpoint(i)
    BY LogGrows DEF RoutingInv
  <1>2. /\ \A i \in 1..n : LatestEndpoint(i) => EndpointStands(i)
        /\ BasesRecorded
    BY DEF RoutingInv, EndpointsFound
  <1>3. log'[n + 1].kind # "endpoint"
    BY <1>1
  <1>4. ASSUME NEW i \in 1..n + 1, LatestEndpoint(i)' PROVE EndpointStands(i)'
    <2>1. i \in 1..n
      <3>1. i # n + 1
        BY <1>3, <1>4 DEF LatestEndpoint
      <3> HIDE DEF n
      <3> QED  BY <1>1, <3>1
    <2>2. EndpointStands(i) /\ log'[i] = log[i]
      BY <1>1, <1>2, <1>4, <2>1
    <2> QED  BY <2>2 DEF EndpointStands, NameOf, ParamsOf
  <1>5. BasesRecorded'
    <2>1. ASSUME NEW i \in 1..n + 1, log'[i].kind = "endpoint" PROVE log'[i].prefix \in DOMAIN api
      <3>1. i # n + 1
        BY <1>3, <2>1
      <3>2. i \in 1..n
        BY ONLY <1>1, <3>1, i \in 1..n + 1
      <3> QED  BY <1>1, <1>2, <2>1, <3>2 DEF BasesRecorded
    <2>2. ASSUME NEW base \in DOMAIN api
          PROVE  \E i \in 1..n + 1 : log'[i].kind = "endpoint" /\ log'[i].prefix = base
      <3>1. PICK i \in 1..n : log[i].kind = "endpoint" /\ log[i].prefix = base
        BY <1>2 DEF BasesRecorded
      <3>2. i \in 1..n + 1 /\ log'[i] = log[i]
        BY <1>1
      <3> QED  BY <3>1, <3>2
    <2> HIDE DEF n
    <2> QED  BY <1>1, <2>1, <2>2 DEF BasesRecorded
  <1> HIDE DEF n
  <1> QED  BY <1>1, <1>4, <1>5 DEF EndpointsFound

\* A registration that is no route leaves the routes as they are.
LEMMA RoutesKept ==
  ASSUME RoutingInv, NEW kind, NEW prefix, NEW what, Log(kind, prefix, what),
         kind # "route", routes' = routes
  PROVE  RoutesFollow'
  <1> DEFINE n == Len(log)
  <1>1. /\ log' \in Seq(Recorded') /\ n \in Nat /\ Len(log') = n + 1
        /\ \A i \in 1..n : log'[i] = log[i]
        /\ log'[n + 1] = [kind |-> kind, prefix |-> prefix, what |-> what]
    BY LogGrows DEF RoutingInv
  <1> USE DEF RoutingInv
  <1>2. Len(log') \in Nat /\ DOMAIN log' = 1..Len(log')
    BY <1>1
  <1>3. ASSUME NEW k \in 1..Len(routes) PROVE RowOf(k)'
    <2>1. RowOf(k)
      BY DEF RoutesFollow
    <2>2. routes[k].id \in 1..n /\ routes[k].id \in 1..n + 1
      BY <1>1, <2>1 DEF RowOf
    <2>3. log'[routes[k].id] = log[routes[k].id]
      BY <1>1, <2>2
    <2> QED  BY <1>1, <2>1, <2>2, <2>3 DEF RowOf
  <1>4. ASSUME NEW i \in 1..n + 1, log'[i].kind = "route"
        PROVE  /\ log'[i].what.method \in Methods
               /\ log'[i].what.path \in Seq(Text) /\ log'[i].prefix \in Seq(Text)
               /\ \E k \in 1..Len(routes) : routes[k].id = i
    <2>1. i # n + 1
      BY <1>1, <1>4
    <2>2. i \in 1..n
      BY <1>1, <2>1
    <2> QED  BY <1>1, <1>4, <2>2 DEF RoutesFollow
  <1> HIDE DEF n
  <1> QED  BY <1>1, <1>2, <1>3, <1>4 DEF RoutesFollow

\* Words are text.
LEMMA StringsAreText == STRING \subseteq Text
  BY DEF Text

\* A route goes to the end of the routes as its registration does in the record.
LEMMA AddRouteKeeps ==
  ASSUME RoutingInv,
         NEW p \in Groups, NEW m \in Methods, NEW q \in Seq(STRING), NEW w,
         w.method = m, w.path = q,
         AddRoute(p, m, q), Log("route", p, w), UNCHANGED <<api, sockets>>
  PROVE  RoutingInv'
  <1> DEFINE n == Len(log)
             c == Len(routes)
             e == [kind |-> "route", prefix |-> p, what |-> w]
             place == Joined(GroupPrefix(p), q)
             row == [method |-> m, path |-> place, id |-> n + 1]
  <1> USE DEF RoutingInv
  <1>2. /\ log' \in Seq(Recorded') /\ n \in Nat /\ Len(log') = n + 1
        /\ \A i \in 1..n : log'[i] = log[i]
        /\ log'[n + 1] = e
    BY LogGrows
  <1>3. row \in Rows
    BY <1>2 DEF Rows, Places
  <1>4. routes' = Append(routes, row)
    BY DEF AddRoute
  <1>5. row.method = m /\ row.path = place /\ row.id = n + 1
    OBVIOUS
  <1>6. e.kind = "route" /\ e.prefix = p /\ e.what = w
    OBVIOUS
  <1>7. EndpointsFound'
    BY EndpointsKept
  <1> HIDE DEF e, row
  <1>8. /\ routes \in Seq(Rows) /\ c \in Nat /\ routes' \in Seq(Rows) /\ Len(routes') = c + 1
        /\ \A k \in 1..c : routes'[k] = routes[k]
        /\ routes'[c + 1] = row
    BY <1>3, <1>4, AppendProperties DEF RoutesTyped
  <1>9. RoutesTyped'
    BY <1>2, <1>8 DEF RoutesTyped
  <1>10. DOMAIN log' = 1..n + 1 /\ DOMAIN routes' = 1..c + 1
    BY <1>2, <1>8
  <1>11. q \in Seq(Text) /\ p \in Seq(Text)
    <2>1. Groups \subseteq Seq(STRING)
      BY ArgumentsAssumption
    <2>2. \A s \in Seq(STRING) : s \in Seq(Text)
      BY SeqOver, StringsAreText
    <2> QED  BY <2>1, <2>2
  <1> HIDE DEF n, c, place
  <1>12. ASSUME NEW k \in 1..c + 1 PROVE RowOf(k)'
    <2>1. CASE k = c + 1
      <3>1. routes'[k] = row /\ log'[row.id] = e /\ row.id \in 1..n + 1
        BY <1>2, <1>5, <1>8, <2>1
      <3> QED  BY <1>2, <1>5, <1>6, <3>1 DEF RowOf, place
    <2>2. CASE k # c + 1
      <3>1. k \in 1..c /\ routes'[k] = routes[k]
        BY <1>8, <2>2
      <3>2. RowOf(k)
        BY <3>1 DEF RoutesFollow, c
      <3>3. routes[k].id \in 1..n /\ routes[k].id \in 1..n + 1
        BY <1>2, <3>2 DEF RowOf, n
      <3>4. log'[routes[k].id] = log[routes[k].id]
        BY <1>2, <3>3
      <3> QED  BY <1>2, <3>1, <3>2, <3>3, <3>4 DEF RowOf
    <2> QED  BY <2>1, <2>2
  <1>13. ASSUME NEW k \in 1..c + 1, NEW l \in 1..c + 1, k < l
         PROVE  routes'[k].id < routes'[l].id
    <2>1. k \in 1..c /\ routes'[k] = routes[k]
      BY <1>8, <1>13
    <2>2. routes[k].id \in 1..n
      BY <2>1 DEF RoutesFollow, RowOf, c, n
    <2>3. CASE l = c + 1
      <3>1. routes'[l].id = n + 1
        BY <1>5, <1>8, <2>3
      <3> DEFINE x == routes[k].id
      <3>2. x \in 1..n
        BY <2>2
      <3> HIDE DEF x
      <3>3. x < n + 1
        BY ONLY <1>2, <3>2
      <3> QED  BY <2>1, <3>1, <3>3 DEF x
    <2>4. CASE l # c + 1
      <3>1. l \in 1..c /\ routes'[l] = routes[l]
        BY <1>8, <2>4
      <3> QED  BY <1>13, <2>1, <3>1 DEF RoutesFollow, c
    <2> QED  BY <2>3, <2>4
  <1>14. ASSUME NEW i \in 1..n + 1, log'[i].kind = "route"
         PROVE  /\ log'[i].what.method \in Methods
                /\ log'[i].what.path \in Seq(Text) /\ log'[i].prefix \in Seq(Text)
                /\ \E k \in 1..c + 1 : routes'[k].id = i
    <2>1. CASE i = n + 1
      <3>1. log'[i] = e
        BY <1>2, <2>1
      <3>2. c + 1 \in 1..c + 1 /\ routes'[c + 1].id = i
        BY <1>5, <1>8, <2>1
      <3> QED  BY <1>6, <1>11, <3>1, <3>2
    <2>2. CASE i # n + 1
      <3>1. i \in 1..n /\ log'[i] = log[i]
        BY <1>2, <2>2
      <3>2. /\ log[i].what.method \in Methods
            /\ log[i].what.path \in Seq(Text) /\ log[i].prefix \in Seq(Text)
            /\ \E k \in 1..c : routes[k].id = i
        BY <1>14, <3>1 DEF RoutesFollow, c, n
      <3>3. PICK k \in 1..c : routes[k].id = i
        BY <3>2
      <3>4. k \in 1..c + 1 /\ routes'[k].id = i
        BY <1>8, <3>3
      <3> QED  BY <3>1, <3>2, <3>4
    <2> QED  BY <2>1, <2>2
  <1>15. RoutesFollow'
    BY <1>2, <1>8, <1>10, <1>12, <1>13, <1>14 DEF RoutesFollow
  <1> QED  BY <1>7, <1>9, <1>15

\* An endpoint takes its name in its base and leaves the other names.
LEMMA EndpointKeeps ==
  ASSUME RoutingInv, NEW d \in Compats, Endpoint(d)
  PROVE  RoutingInv'
  <1> DEFINE n == Len(log)
             base == Resolved(d.path)
             e == [kind |-> "endpoint", prefix |-> base, what |-> d]
             name == NameOf(d.endpoint)
             entry == [id |-> n + 1, params |-> ParamsOf(d.endpoint)]
             others == IF base \in DOMAIN api THEN api[base] ELSE <<>>
             these == [k \in DOMAIN others \cup {name} |-> IF k = name THEN entry ELSE others[k]]
  <1>1. Log("endpoint", base, d) /\ RoutesTyped
    BY DEF Endpoint, RoutingInv
  <1>2. /\ log' \in Seq(Recorded') /\ n \in Nat /\ Len(log') = n + 1
        /\ \A i \in 1..n : log'[i] = log[i]
        /\ log'[n + 1] = e
        /\ \A i \in 1..n :
              LatestEndpoint(i)' =>
                 /\ LatestEndpoint(i)
                 /\ base # log[i].prefix \/ d.endpoint[1] # log[i].what.endpoint[1]
    BY <1>1, LogGrows
  <1>3. api' = [b \in DOMAIN api \cup {base} |-> IF b = base THEN these ELSE api[b]]
    BY DEF Endpoint, WithEndpoint
  <1>4. RoutesFollow'
    BY <1>1, RoutesKept DEF Endpoint
  <1>5. RoutesTyped'
    BY <1>2 DEF Endpoint, RoutingInv, RoutesTyped
  <1>6. e.what = d /\ e.kind = "endpoint" /\ e.prefix = base
    OBVIOUS
  <1>7. name \in DOMAIN these /\ these[name] = entry
    OBVIOUS
  <1>8. ASSUME NEW k, k \in DOMAIN others, k # name
        PROVE  k \in DOMAIN these /\ these[k] = others[k]
    BY <1>8
  <1>9. /\ DOMAIN api' = DOMAIN api \cup {base} /\ api'[base] = these
        /\ \A b \in DOMAIN api : b # base => api'[b] = api[b]
    BY <1>3
  <1>10. base \in DOMAIN api => others = api[base]
    OBVIOUS
  <1>11. /\ \A i \in 1..n : LatestEndpoint(i) => EndpointStands(i)
         /\ BasesRecorded
    BY DEF RoutingInv, EndpointsFound
  <1>12. /\ \A i \in 1..n : log[i].kind = "endpoint" => log[i].prefix \in DOMAIN api
         /\ \A b \in DOMAIN api : \E i \in 1..n : log[i].kind = "endpoint" /\ log[i].prefix = b
    BY <1>11 DEF BasesRecorded
  <1> HIDE DEF n, e, these, others, base
  <1>13. n + 1 \in 1..n + 1 /\ \A i \in 1..n : i \in 1..n + 1
    BY <1>2
  <1>14. ASSUME NEW i \in 1..n + 1, i # n + 1 PROVE i \in 1..n
    BY <1>2, <1>14
  <1>15. BasesRecorded'
    <2>1. ASSUME NEW i \in 1..n + 1, log'[i].kind = "endpoint"
          PROVE  log'[i].prefix \in DOMAIN api'
      <3>1. CASE i = n + 1
        BY <1>2, <1>6, <1>9, <3>1
      <3>2. CASE i # n + 1
        BY <1>2, <1>9, <1>12, <1>14, <2>1, <3>2
      <3> QED  BY <3>1, <3>2
    <2>2. ASSUME NEW b \in DOMAIN api'
          PROVE  \E i \in 1..n + 1 : log'[i].kind = "endpoint" /\ log'[i].prefix = b
      <3>1. CASE b = base
        BY <1>2, <1>6, <1>13, <3>1
      <3>2. CASE b # base
        <4>1. PICK i \in 1..n : log[i].kind = "endpoint" /\ log[i].prefix = b
          BY <1>9, <1>12, <3>2
        <4> QED  BY <1>2, <1>13, <4>1
      <3> QED  BY <3>1, <3>2
    <2> QED  BY <1>2, <2>1, <2>2 DEF BasesRecorded
  <1>16. ASSUME NEW i \in 1..n + 1, LatestEndpoint(i)' PROVE EndpointStands(i)'
    <2>1. CASE i = n + 1
      <3>1. log'[i].what = d /\ log'[i].prefix = base
        BY <1>2, <1>6, <2>1
      <3> QED  BY <1>7, <1>9, <2>1, <3>1 DEF EndpointStands
    <2>2. CASE i # n + 1
      <3> DEFINE own == NameOf(log[i].what.endpoint)
                 b == log[i].prefix
      <3>1. i \in 1..n
        BY <1>14, <2>2
      <3>2. LatestEndpoint(i) /\ (b # base \/ own # name) /\ log'[i] = log[i]
        BY <1>2, <1>16, <3>1 DEF NameOf
      <3>3. /\ b \in DOMAIN api /\ own \in DOMAIN api[b]
            /\ api[b][own] = [id |-> i, params |-> ParamsOf(log[i].what.endpoint)]
        BY <1>11, <3>1, <3>2 DEF EndpointStands
      <3> HIDE DEF own, name, b
      <3>4. own \in DOMAIN api'[b] /\ api'[b][own] = api[b][own]
        BY <1>8, <1>9, <1>10, <3>2, <3>3
      <3>5. b \in DOMAIN api'
        BY <1>9, <3>3
      <3> QED  BY <3>2, <3>3, <3>4, <3>5 DEF EndpointStands, own, b, NameOf, ParamsOf
    <2> QED  BY <2>1, <2>2
  <1> QED  BY <1>2, <1>4, <1>5, <1>15, <1>16 DEF RoutingInv, EndpointsFound

\* A websocket leaves routes and endpoints as they are.
LEMMA SocketKeeps ==
  ASSUME RoutingInv, NEW s \in SocketArgs, Socket(s)
  PROVE  RoutingInv'
  <1>2. log' \in Seq(Recorded')
    BY LogGrows DEF Socket, RoutingInv
  <1>3. RoutesTyped'
    BY <1>2, AppendProperties DEF Socket, RoutingInv, RoutesTyped
  <1>4. RoutesFollow'
    BY RoutesKept DEF Socket
  <1>5. EndpointsFound'
    BY EndpointsKept DEF Socket
  <1> QED  BY <1>3, <1>4, <1>5 DEF RoutingInv

\* An application without registrations has the invariant.
LEMMA RoutingStarts ==
  ASSUME RoutingInit
  PROVE  RoutingInv
  <1>1. routes = <<>> /\ sockets = <<>> /\ api = <<>> /\ log = <<>>
    BY DEF RoutingInit
  <1>2. RoutesTyped
    BY <1>1 DEF RoutesTyped
  <1>3. RoutesFollow
    BY <1>1 DEF RoutesFollow
  <1>4. EndpointsFound
    BY <1>1 DEF EndpointsFound, BasesRecorded
  <1> QED  BY <1>2, <1>3, <1>4 DEF RoutingInv

\* What changes only $api, or nothing, keeps the invariant.
LEMMA RoutingStays ==
  ASSUME RoutingInv, UNCHANGED <<routes, api, sockets, log>>
  PROVE  RoutingInv'
  <1>1. RoutesTyped'
    BY DEF RoutingInv, RoutesTyped, Recorded
  <1>2. RoutesFollow'
    BY DEF RoutingInv, RoutesFollow, RowOf
  <1>3. EndpointsFound'
    <2>1. log' = log /\ api' = api
      OBVIOUS
    <2>2. \A i \in 1..Len(log) : LatestEndpoint(i)' <=> LatestEndpoint(i)
      BY <2>1 DEF LatestEndpoint
    <2>3. \A i \in 1..Len(log) : EndpointStands(i)' <=> EndpointStands(i)
      BY <2>1 DEF EndpointStands, NameOf, ParamsOf
    <2>4. BasesRecorded' <=> BasesRecorded
      BY <2>1 DEF BasesRecorded
    <2> QED  BY <2>1, <2>2, <2>3, <2>4 DEF RoutingInv, EndpointsFound
  <1> QED  BY <1>1, <1>2, <1>3 DEF RoutingInv

\* Every registration keeps the invariant.
LEMMA RoutingKeeps ==
  ASSUME RoutingInv, [RoutingNext]_routingVars
  PROVE  RoutingInv'
  <1>1. ASSUME NEW p \in Groups, NEW r \in RouteArgs, Route(p, r) PROVE RoutingInv'
    <2>1. r.method \in Methods /\ r.path \in Seq(STRING)
      BY ArgumentsAssumption
    <2> QED  BY <1>1, <2>1, AddRouteKeeps DEF Route
  <1>2. ASSUME NEW d \in Compats, Endpoint(d) PROVE RoutingInv'
    BY <1>2, EndpointKeeps
  <1>3. ASSUME NEW p \in Groups, NEW d \in Compats, Compat(p, d) PROVE RoutingInv'
    <2> DEFINE m == IF d.api THEN "POST" ELSE d.method
               w == [method |-> m, path |-> d.path]
    <2>1. m \in Methods /\ d.path \in Seq(STRING)
      BY ArgumentsAssumption DEF Methods
    <2>2. w.method = m /\ w.path = d.path
      OBVIOUS
    <2>3. AddRoute(p, m, d.path) /\ Log("route", p, w) /\ UNCHANGED <<api, sockets>>
      BY <1>3 DEF Compat
    <2> HIDE DEF m, w
    <2> QED  BY <2>1, <2>2, <2>3, AddRouteKeeps
  <1>4. ASSUME NEW s \in SocketArgs, Socket(s) PROVE RoutingInv'
    BY <1>4, SocketKeeps
  <1>5. ASSUME NEW d \in ApiDefaults, SetApi(d) PROVE RoutingInv'
    BY <1>5, RoutingStays DEF SetApi
  <1>6. ASSUME UNCHANGED routingVars PROVE RoutingInv'
    BY <1>6, RoutingStays DEF routingVars
  <1> QED  BY <1>1, <1>2, <1>3, <1>4, <1>5, <1>6 DEF RoutingNext

\* The socket that a path reaches is the first that matches it, so that only an
\* earlier socket takes an upgrade.
LEMMA SocketReached ==
  ASSUME RoutesTyped, NEW i \in DOMAIN sockets, NEW path, NEW offer \in Seq(STRING),
         Matches(sockets[i].path, path),
         \A j \in 1..i - 1 : ~ Matches(sockets[j].path, path),
         ToSet(offer) \cap sockets[i].protocols # {}
  PROVE  Upgrades(path, offer)
  <1> DEFINE M == {k \in DOMAIN sockets : Matches(sockets[k].path, path)}
             O == {k \in DOMAIN offer : offer[k] \in sockets[i].protocols}
  <1>1. Len(sockets) \in Nat /\ DOMAIN sockets = 1..Len(sockets)
    BY DEF RoutesTyped
  <1>2. i \in M /\ M \in SUBSET (1..Len(sockets))
    BY <1>1
  <1>3. \A k \in M : i <= k
    <2> SUFFICES ASSUME NEW k \in M, k < i PROVE FALSE
      BY <1>1
    <2>1. k \in 1..i - 1
      BY <1>1
    <2> QED  BY <2>1
  <1> HIDE DEF M
  <1>4. SocketAt(path) = i
    <2>1. SocketAt(path) \in M /\ \A k \in M : SocketAt(path) <= k
      BY <1>1, <1>2, FirstIs DEF SocketAt, M
    <2> QED  BY <1>1, <1>2, <1>3, <2>1
  <1>5. O # {} /\ O \in SUBSET (1..Len(offer)) /\ Len(offer) \in Nat
    BY DEF ToSet
  <1> HIDE DEF O
  <1>6. Subprotocol(sockets[i], offer) # 0
    <2>1. Subprotocol(sockets[i], offer) \in O
      BY <1>5, FirstIs DEF Subprotocol, O
    <2> QED  BY <1>5, <2>1
  <1>7. Reached(TRUE, "GET", path).at = i
    BY <1>4 DEF Reached
  <1>8. i # 0
    BY <1>1
  <1> QED  BY <1>6, <1>7, <1>8 DEF Upgrades

\* Endpoints and websockets are found unless another takes their place.
LEMMA Hidden ==
  ASSUME RoutingInv
  PROVE  HiddenByTwinOnly
  <1>1. ASSUME NEW i \in DOMAIN log, NEW path \in Paths, LatestEndpoint(i), BaseOf(i, path)
        PROVE  \/ EndpointsFor(path, NameOf(log[i].what.endpoint)) =
                     {[id |-> i, params |-> ParamsOf(log[i].what.endpoint)]}
               \/ \E j \in DOMAIN log : BaseOf(j, path) /\ log[j].prefix # log[i].prefix
    <2> DEFINE base == log[i].prefix
    <2> SUFFICES ASSUME ~ \E j \in DOMAIN log : BaseOf(j, path) /\ log[j].prefix # base
                 PROVE  EndpointsFor(path, NameOf(log[i].what.endpoint)) =
                           {[id |-> i, params |-> ParamsOf(log[i].what.endpoint)]}
      OBVIOUS
    <2>0. DOMAIN log = 1..Len(log)
      BY DEF RoutingInv, RoutesTyped
    <2>1. EndpointStands(i)
      BY <1>1, <2>0 DEF RoutingInv, EndpointsFound
    <2>2. base \in BasesAt(path)
      BY <1>1, <2>1 DEF BasesAt, BaseOf, EndpointStands
    <2>3. ASSUME NEW twin \in BasesAt(path) PROVE twin = base
      <3>1. twin \in DOMAIN api /\ PathsEqual(twin, path)
        BY DEF BasesAt
      <3>2. PICK j \in 1..Len(log) : log[j].kind = "endpoint" /\ log[j].prefix = twin
        BY <3>1 DEF RoutingInv, EndpointsFound, BasesRecorded
      <3>3. BaseOf(j, path)
        BY <3>1, <3>2 DEF BaseOf
      <3> QED  BY <2>0, <3>2, <3>3
    <2>4. BasesAt(path) = {base}
      BY <2>2, <2>3
    <2> QED  BY <2>1, <2>4 DEF EndpointsFor, EndpointStands
  <1>2. DOMAIN log = 1..Len(log)
    BY DEF RoutingInv, RoutesTyped
  <1>3. ASSUME NEW i \in DOMAIN sockets, NEW path \in Paths, NEW offer \in Offers,
               Matches(sockets[i].path, path),
               ToSet(offer) \cap sockets[i].protocols # {},
               ~ \E j \in 1..i - 1 : Matches(sockets[j].path, path)
        PROVE  Upgrades(path, offer)
    <2>1. offer \in Seq(STRING)
      BY ArgumentsAssumption
    <2> QED  BY <1>3, <2>1, SocketReached DEF RoutingInv
  <1> QED  BY <1>1, <1>2, <1>3 DEF HiddenByTwinOnly

\* Routes stand in the order of their registrations with what these asked for,
\* and the latest endpoint of a name is in the map (add_route_with_auth of
\* lib.rs:891, route_compat of lib.rs:856).
THEOREM RoutingInductive == RoutingSpec => []RoutingInv
  <1>1. RoutingInit => RoutingInv
    BY RoutingStarts
  <1>2. RoutingInv /\ [RoutingNext]_routingVars => RoutingInv'
    BY RoutingKeeps
  <1> QED  BY <1>1, <1>2, PTL DEF RoutingSpec

\* Whatever routes and endpoints are registered, in whatever groups, and however
\* slashes are written in groups, paths and requests: a request that is no
\* upgrade reaches the first route whose registration asks for it, but for POST
\* to a base of the API, which reaches the API, and OPTIONS lists the methods
\* that reach one of them (dispatch_inner of lib.rs:1338, options_response,
\* match_native_path of lib.rs:1866).
THEOREM RoutesServed == RoutingSpec => []ServedAsRegistered
  <1>1. RoutingInv => ServedAsRegistered
    BY Serves DEF RoutingInv, EndpointsFound
  <1> QED  BY <1>1, RoutingInductive, PTL

\* Whatever endpoints and websockets are registered, with whatever changes of
\* $api in between: the latest endpoint of a name is at its base and found
\* there, unless another base is the same path, and an upgrade that offers a
\* subprotocol of a websocket is refused only if an earlier one takes its path
\* (route_compat, dispatch_inner, websocket_upgrade).
THEOREM EndpointsReached == RoutingSpec => []HiddenByTwinOnly
  <1>1. RoutingInv => HiddenByTwinOnly
    BY Hidden
  <1> QED  BY <1>1, RoutingInductive, PTL
=============================================================================
