------------------------------- MODULE WsHub -------------------------------
(***************************************************************************)
(* The websocket connections of one application together: the registry     *)
(* AppState::ws_connections and the counter of open websockets, the task   *)
(* that `websocket_upgrade` (src/src/lib.rs) spawns for the handler of     *)
(* each connection, and the loop that serves its client.  A handler talks  *)
(* to its own client with send_text and to everyone with broadcast_text,   *)
(* which clones all the senders of the registry and awaits them in turn.   *)
(*                                                                         *)
(* Messages are counted, not named; WsLoop looks at one connection frame   *)
(* by frame.                                                               *)
(***************************************************************************)
EXTENDS Naturals, Sequences, FiniteSets, SequencesExt

CONSTANTS
    Conns,              \* upgraded connections
    InCap, OutCap,      \* capacity of the two channels (32 in the code)
    MaxIn,              \* bound: messages and pings each client sends
    MaxOut,             \* bound: sends and broadcasts of each handler
    Stallers            \* clients that may stop reading

ASSUME ConnsAssumption == IsFiniteSet(Conns)
ASSUME StallersAssumption == Stallers \subseteq Conns
ASSUME CapacityAssumption ==
    /\ InCap \in Nat \ {0} /\ OutCap \in Nat \ {0}
    /\ MaxIn \in [Conns -> Nat] /\ MaxOut \in Nat

VARIABLES
    registry,           \* ws_connections
    count,              \* stats.websocket_connections
    task,               \* where the handler's task stands
    targets,            \* senders a broadcast still holds, in its order
    calls,              \* sends and broadcasts begun by the handler
    loop,               \* where websocket_loop stands
    ending,             \* how it ended
    input,              \* messages and pings the client has sent
    inq, outq,          \* messages waiting in the two channels
    stalled             \* the client reads no more

hubVars  == <<registry, count>>
taskVars == <<task, targets, calls>>
loopVars == <<loop, ending, input, stalled>>
vars == <<hubVars, taskVars, loopVars, inq, outq>>

\* The WsContext, and with it the receiver of the incoming channel and one
\* sender of the outgoing channel, lives while the handler runs.
Alive(c) == task[c] \in {"run", "send", "broadcast"}

TypeOK ==
    /\ registry \subseteq Conns
    /\ count \in 0..Cardinality(Conns)
    /\ task \in [Conns -> {"none", "registered", "run", "send", "broadcast",
                           "returned", "unregistered", "panicked", "done"}]
    /\ targets \in [Conns -> Seq(Conns)]
    /\ \A c \in Conns : IsInjective(targets[c])
    /\ calls \in [Conns -> 0..MaxOut]
    /\ loop \in [Conns -> {"none", "select", "deliver", "write", "closing", "ended"}]
    /\ ending \in [Conns -> {"none", "normal", "early"}]
    /\ input \in [Conns -> Nat] /\ \A c \in Conns : input[c] <= MaxIn[c]
    /\ inq \in [Conns -> 0..InCap]
    /\ outq \in [Conns -> 0..OutCap]
    /\ stalled \in [Conns -> BOOLEAN]

Init ==
    /\ registry = {} /\ count = 0
    /\ task = [c \in Conns |-> "none"]
    /\ targets = [c \in Conns |-> <<>>]
    /\ calls = [c \in Conns |-> 0]
    /\ loop = [c \in Conns |-> "none"]
    /\ ending = [c \in Conns |-> "none"]
    /\ input = [c \in Conns |-> 0]
    /\ inq = [c \in Conns |-> 0]
    /\ outq = [c \in Conns |-> 0]
    /\ stalled = [c \in Conns |-> FALSE]

-----------------------------------------------------------------------------
(* The upgrade and the task of the handler. *)

TaskGo(c, from, to) ==
    /\ task[c] \in from
    /\ task' = [task EXCEPT ![c] = to]

Register(c) ==
    /\ TaskGo(c, {"none"}, "registered")
    /\ registry' = registry \cup {c}
    /\ UNCHANGED <<count, targets, calls, loopVars, inq, outq>>

\* The counter is raised, the handler spawned and the 101 response written.
Upgrade(c) ==
    /\ TaskGo(c, {"registered"}, "run")
    /\ count' = count + 1
    /\ loop' = [loop EXCEPT ![c] = "select"]
    /\ UNCHANGED <<registry, targets, calls, ending, input, stalled, inq, outq>>

Receive(c) ==
    /\ task[c] = "run"
    /\ inq[c] > 0
    /\ inq' = [inq EXCEPT ![c] = @ - 1]
    /\ UNCHANGED <<hubVars, taskVars, loopVars, outq>>

Begin(c, what) ==
    /\ calls[c] < MaxOut
    /\ calls' = [calls EXCEPT ![c] = @ + 1]
    /\ TaskGo(c, {"run"}, what)

Send(c) ==
    /\ Begin(c, "send")
    /\ UNCHANGED <<hubVars, targets, loopVars, inq, outq>>

\* The lock is held for the snapshot only.
Broadcast(c) ==
    /\ Begin(c, "broadcast")
    /\ \E order \in SetToSeqs(registry) : targets' = [targets EXCEPT ![c] = order]
    /\ UNCHANGED <<hubVars, loopVars, inq, outq>>

\* Mutant: the outgoing channel has no bound.
HasRoom_Unbounded(d) == TRUE

\* sender.send(...).await on the outgoing channel of d: it waits for room, or
\* fails at once when the loop that receives has ended.
HasRoom(d) == outq[d] < OutCap

\* Mutant: the end of a loop does not wake those who wait for room.
Push_NeverFails(d) ==
    /\ HasRoom(d)
    /\ outq' = [outq EXCEPT ![d] = @ + 1]

Push(d) ==
    \/ /\ loop[d] # "ended"
       /\ HasRoom(d)
       /\ outq' = [outq EXCEPT ![d] = @ + 1]
    \/ /\ loop[d] = "ended"
       /\ UNCHANGED outq

Sent(c) ==
    /\ TaskGo(c, {"send"}, "run")
    /\ Push(c)
    /\ UNCHANGED <<hubVars, targets, calls, loopVars, inq>>

BroadcastNext(c) ==
    /\ task[c] = "broadcast"
    /\ targets[c] # <<>>
    /\ Push(Head(targets[c]))
    /\ targets' = [targets EXCEPT ![c] = Tail(@)]
    /\ UNCHANGED <<hubVars, task, calls, loopVars, inq>>

BroadcastDone(c) ==
    /\ targets[c] = <<>>
    /\ TaskGo(c, {"broadcast"}, "run")
    /\ UNCHANGED <<hubVars, targets, calls, loopVars, inq, outq>>

Return(c) ==
    /\ TaskGo(c, {"run"}, "returned")
    /\ inq' = [inq EXCEPT ![c] = 0]
    /\ UNCHANGED <<hubVars, targets, calls, loopVars, outq>>

\* Mutant: a panic is taken off the counter, but not off the registry.
Panic_Uncounted(c) ==
    /\ TaskGo(c, {"run"}, "panicked")
    /\ inq' = [inq EXCEPT ![c] = 0]
    /\ count' = count - 1
    /\ UNCHANGED <<registry, targets, calls, loopVars, outq>>

\* A panic ends the task before it can leave the registry.
Panic(c) ==
    /\ TaskGo(c, {"run"}, "panicked")
    /\ inq' = [inq EXCEPT ![c] = 0]
    /\ UNCHANGED <<hubVars, targets, calls, loopVars, outq>>

\* Mutant: the clone of the sender stays in the registry.
Unregister_Leaks(c) ==
    /\ TaskGo(c, {"returned"}, "unregistered")
    /\ UNCHANGED <<hubVars, targets, calls, loopVars, inq, outq>>

Unregister(c) ==
    /\ TaskGo(c, {"returned"}, "unregistered")
    /\ registry' = registry \ {c}
    /\ UNCHANGED <<count, targets, calls, loopVars, inq, outq>>

Uncount(c) ==
    /\ TaskGo(c, {"unregistered"}, "done")
    /\ count' = count - 1
    /\ UNCHANGED <<registry, targets, calls, loopVars, inq, outq>>

-----------------------------------------------------------------------------
(* The loop and its client. *)

LoopGo(c, from, to) ==
    /\ loop[c] = from
    /\ loop' = [loop EXCEPT ![c] = to]

\* The loop returns with an error or for want of its handler, and drops its
\* receiver with what waits there.
LoopBreaks(c) ==
    /\ loop' = [loop EXCEPT ![c] = "ended"]
    /\ ending' = [ending EXCEPT ![c] = "early"]
    /\ outq' = [outq EXCEPT ![c] = 0]
    /\ UNCHANGED <<hubVars, taskVars, input, stalled, inq>>

\* A data frame arrives and goes to incoming.send.
Frame(c) ==
    /\ input[c] < MaxIn[c]
    /\ LoopGo(c, "select", "deliver")
    /\ input' = [input EXCEPT ![c] = @ + 1]
    /\ UNCHANGED <<hubVars, taskVars, ending, stalled, inq, outq>>

\* A ping is answered in the turn that reads it.
Ping(c) ==
    /\ input[c] < MaxIn[c]
    /\ LoopGo(c, "select", "write")
    /\ input' = [input EXCEPT ![c] = @ + 1]
    /\ UNCHANGED <<hubVars, taskVars, ending, stalled, inq, outq>>

Deliver(c) ==
    /\ Alive(c)
    /\ inq[c] < InCap
    /\ LoopGo(c, "deliver", "select")
    /\ inq' = [inq EXCEPT ![c] = @ + 1]
    /\ UNCHANGED <<hubVars, taskVars, ending, input, stalled, outq>>

DeliverFails(c) ==
    /\ ~Alive(c)
    /\ loop[c] = "deliver"
    /\ LoopBreaks(c)

Write(c) ==
    /\ outq[c] > 0
    /\ LoopGo(c, "select", "write")
    /\ outq' = [outq EXCEPT ![c] = @ - 1]
    /\ UNCHANGED <<hubVars, taskVars, ending, input, stalled, inq>>

\* The write has no deadline: it waits for the client.
Wrote(c) ==
    /\ ~stalled[c]
    /\ LoopGo(c, "write", "select")
    /\ UNCHANGED <<hubVars, taskVars, ending, input, stalled, inq, outq>>

\* A close frame is written before the loop returns.
WriteClose(c, how) ==
    /\ LoopGo(c, "select", "closing")
    /\ ending' = [ending EXCEPT ![c] = how]
    /\ UNCHANGED <<hubVars, taskVars, input, stalled, inq, outq>>

\* Mutant: the clones of broadcasts do not count.
Held_NotByBroadcasts(c) == c \in registry \/ Alive(c)

\* The handler's sender, the clone in the registry and those of broadcasts in
\* progress keep the outgoing channel open.
Held(c) ==
    \/ c \in registry
    \/ Alive(c)
    \/ \E d \in Conns : c \in ToSet(targets[d])

CloseNormally(c) ==
    /\ outq[c] = 0
    /\ ~Held(c)
    /\ WriteClose(c, "normal")

\* The client's close frame is answered, a protocol error or a message that is
\* too large told.
ClientCloses(c) == WriteClose(c, "early")

\* That write has no deadline either; then the loop and its receiver are gone.
Closed(c) ==
    /\ ~stalled[c]
    /\ LoopGo(c, "closing", "ended")
    /\ outq' = [outq EXCEPT ![c] = 0]
    /\ UNCHANGED <<hubVars, taskVars, ending, input, stalled, inq>>

\* The connection fails, the read times out, the 101 response could not be
\* written, or the server aborts the connection.
Cut(c) ==
    /\ loop[c] \notin {"none", "ended"}
    /\ LoopBreaks(c)

Stall(c) ==
    /\ c \in Stallers
    /\ ~stalled[c]
    /\ stalled' = [stalled EXCEPT ![c] = TRUE]
    /\ UNCHANGED <<hubVars, taskVars, loop, ending, input, inq, outq>>

-----------------------------------------------------------------------------

Handler(c) ==
    \/ Register(c) \/ Receive(c) \/ Send(c) \/ Broadcast(c) \/ Return(c) \/ Panic(c)

\* What needs the runtime alone: the rest of the upgrade, a handler that waits
\* for room, the end of its task.
Resume(c) ==
    \/ Upgrade(c)
    \/ Sent(c) \/ BroadcastNext(c) \/ BroadcastDone(c)
    \/ Unregister(c) \/ Uncount(c)

Loop(c) ==
    \/ Deliver(c) \/ DeliverFails(c)
    \/ Write(c) \/ Wrote(c)
    \/ CloseNormally(c) \/ Closed(c)

Client(c) == Frame(c) \/ Ping(c) \/ ClientCloses(c) \/ Cut(c) \/ Stall(c)

Next == \E c \in Conns : Handler(c) \/ Resume(c) \/ Loop(c) \/ Client(c)

Spec == Init /\ [][Next]_vars

\* The runtime polls a loop and a waiting handler that can go on; a handler
\* need not receive, send or return.
Fairness == \A c \in Conns : WF_vars(Resume(c)) /\ WF_vars(Loop(c))

-----------------------------------------------------------------------------
(* What the hub promises. *)

\* The counter and the registry differ by the connections caught between
\* their two updates, and agree when none is.
CountTracksRegistry ==
    LET At(where) == Cardinality({c \in Conns : task[c] = where})
    IN  count + At("registered") = Cardinality(registry) + At("unregistered")

\* A loop closes normally only when nobody can send to it any more: neither
\* its handler, nor a broadcast that took its sender before it left.
NormalCloseIsFinal ==
    \A c \in Conns : ending[c] = "normal" =>
        /\ outq[c] = 0
        /\ task[c] \in {"unregistered", "done"}
        /\ \A d \in Conns : c \notin ToSet(targets[d])

\* What may hold the loop of d for ever: a client that reads no more, or its own
\* handler, which does not receive and may itself be waiting for room.
Stuck(d) ==
    \/ stalled[d] /\ loop[d] \in {"write", "closing"}
    \/ loop[d] = "deliver" /\ inq[d] = InCap /\ Alive(d)

\* The broadcast of c waits for room towards d, whose loop is stuck.
HeldUp(c, d) == targets[c] # <<>> /\ Head(targets[c]) = d /\ Stuck(d)

\* A broadcast completes though it waits for one connection after another, each
\* of which may end, or broadcast, meanwhile; only a loop that is stuck for ever
\* holds it up, its own one included.
BroadcastCompletes ==
    Fairness => \A c \in Conns :
        \/ []<>(task[c] # "broadcast")
        \/ \E d \in Conns : <>[]HeldUp(c, d)

\* A handler that returned is followed by the end of its connection, unless its
\* client reads no more, or a broadcast that holds its sender is held up.
ReturnClosesConnection ==
    Fairness => \A c \in Conns :
        \/ task[c] = "returned" ~> loop[c] = "ended"
        \/ <>[]Stuck(c)
        \/ \E d, e \in Conns : <>[](HeldUp(e, d) /\ c \in ToSet(targets[e]))
=============================================================================
