----------------------------- MODULE WsHubProof -----------------------------
(***************************************************************************)
(* Proofs about WsHub, for any finite set of connections, any capacity of  *)
(* the channels and any bounds.                                            *)
(***************************************************************************)
EXTENDS WsHub, FiniteSetTheorems, TLAPS

\* Where a task stands while its connection is in the registry.
Registered == {"registered", "run", "send", "broadcast", "returned", "panicked"}

\* Where it stands while the counter holds it.
Counted == (Registered \ {"registered"}) \cup {"unregistered"}

\* The connections whose task stands somewhere in a set.
In(where) == {c \in Conns : task[c] \in where}

RegistryIs == registry = In(Registered)
CountIs == count = Cardinality(In(Counted))

\* A loop starts with the upgrade, and has an ending from its close frame on.
LoopStarts ==
    \A c \in Conns : task[c] \in {"none", "registered"} => loop[c] = "none"
EndingTold ==
    \A c \in Conns : ending[c] # "none" => loop[c] \in {"closing", "ended"}

\* The tasks, the loops and what is in the channels, without the count.
Shapes ==
    /\ task \in [Conns -> {"none", "registered", "run", "send", "broadcast",
                           "returned", "unregistered", "panicked", "done"}]
    /\ targets \in [Conns -> Seq(Conns)]
    /\ \A c \in Conns : IsInjective(targets[c])
    /\ calls \in [Conns -> 0..MaxOut]
    /\ loop \in [Conns -> {"none", "select", "deliver", "write", "closing", "ended"}]
    /\ ending \in [Conns -> {"none", "normal", "early"}]
    /\ input \in [Conns -> Nat] /\ \A c \in Conns : input[c] <= MaxIn[c]
    /\ inq \in [Conns -> 0..InCap]
    /\ outq \in [Conns -> 0..OutCap]
    /\ stalled \in [Conns -> BOOLEAN]

IInv ==
    /\ Shapes
    /\ RegistryIs /\ CountIs
    /\ LoopStarts /\ EndingTold
    /\ NormalCloseIsFinal

-----------------------------------------------------------------------------
(* Sets of connections. *)

\* Every set of connections is finite.
LEMMA InFinite == ASSUME NEW where PROVE IsFiniteSet(In(where))
  BY ConnsAssumption, FS_Subset DEF In

\* Sets that share nothing count as many as they hold together.
LEMMA Together ==
  ASSUME NEW A, NEW B, IsFiniteSet(A), IsFiniteSet(B), A \cap B = {}
  PROVE  Cardinality(A \cup B) = Cardinality(A) + Cardinality(B)
  <1>1. Cardinality(A \cup B) = Cardinality(A) + Cardinality(B) - Cardinality(A \cap B)
    BY FS_Union
  <1>2. Cardinality(A) \in Nat /\ Cardinality(B) \in Nat /\ Cardinality(A \cap B) = 0
    BY FS_CardinalityType, FS_EmptySet
  <1> QED  BY <1>1, <1>2

\* A task that moves into a set adds its connection to it.
LEMMA Enters ==
  ASSUME NEW c \in Conns, NEW where, NEW to \in where, task[c] \notin where,
         Shapes, task' = [task EXCEPT ![c] = to]
  PROVE  /\ In(where)' = In(where) \cup {c}
         /\ Cardinality(In(where)') = Cardinality(In(where)) + 1
  <1>1. In(where)' = In(where) \cup {c} /\ c \notin In(where)
    BY DEF In, Shapes
  <1> QED  BY <1>1, InFinite, FS_AddElement

\* A task that moves out of a set takes its connection with it.
LEMMA Leaves ==
  ASSUME NEW c \in Conns, NEW where, NEW to, to \notin where, task[c] \in where,
         Shapes, task' = [task EXCEPT ![c] = to]
  PROVE  /\ In(where)' = In(where) \ {c}
         /\ Cardinality(In(where)') = Cardinality(In(where)) - 1
  <1>1. In(where)' = In(where) \ {c} /\ c \in In(where)
    BY DEF In, Shapes
  <1> QED  BY <1>1, InFinite, FS_RemoveElement

\* A task that moves inside a set, or outside it, leaves the set as it is.
LEMMA Stays ==
  ASSUME NEW c \in Conns, NEW where, NEW to, to \in where <=> task[c] \in where,
         Shapes, task' = [task EXCEPT ![c] = to]
  PROVE  In(where)' = In(where)
  BY DEF In, Shapes

\* The order of a broadcast holds each connection of the registry once.
LEMMA Snapshot ==
  ASSUME NEW S \in SUBSET Conns, NEW order \in SetToSeqs(S)
  PROVE  order \in Seq(Conns) /\ IsInjective(order) /\ ToSet(order) \subseteq S
  <1>1. order \in [1..Cardinality(S) -> S] /\ IsInjective(order)
    BY DEF SetToSeqs, IsInjective
  <1>2. Cardinality(S) \in Nat
    BY ConnsAssumption, FS_Subset, FS_CardinalityType
  <1>3. order \in Seq(S)
    BY <1>1, <1>2
  <1> QED  BY <1>1, <1>3 DEF ToSet

\* What is left of a broadcast was in it before, and in the same order.
LEMMA TailKeeps ==
  ASSUME NEW s \in Seq(Conns), s # <<>>, IsInjective(s)
  PROVE  /\ Head(s) \in Conns
         /\ Tail(s) \in Seq(Conns) /\ IsInjective(Tail(s)) /\ ToSet(Tail(s)) \subseteq ToSet(s)
  <1>1. /\ Tail(s) \in Seq(Conns) /\ Head(s) \in Conns
        /\ DOMAIN Tail(s) = 1..(Len(s) - 1) /\ DOMAIN s = 1..Len(s)
        /\ \A i \in DOMAIN Tail(s) : Tail(s)[i] = s[i + 1] /\ i + 1 \in DOMAIN s
    OBVIOUS
  <1>2. IsInjective(Tail(s))
    BY <1>1 DEF IsInjective
  <1>3. ToSet(Tail(s)) \subseteq ToSet(s)
    BY <1>1 DEF ToSet
  <1> QED  BY <1>1, <1>2, <1>3

-----------------------------------------------------------------------------
(* The invariant. *)

LEMMA InitHolds == Init => IInv
  <1> SUFFICES ASSUME Init PROVE IInv
    OBVIOUS
  <1>1. Shapes
    <2>1. \A c \in Conns : targets[c] \in Seq(Conns) /\ IsInjective(targets[c])
      BY DEF Init, IsInjective
    <2> QED  BY <2>1, CapacityAssumption DEF Init, Shapes
  <1>2. In(Registered) = {} /\ In(Counted) = {}
    BY DEF Init, In, Registered, Counted
  <1>3. RegistryIs /\ CountIs
    BY <1>2, FS_EmptySet DEF Init, RegistryIs, CountIs
  <1>4. LoopStarts /\ EndingTold /\ NormalCloseIsFinal
    BY DEF Init, LoopStarts, EndingTold, NormalCloseIsFinal
  <1> QED  BY <1>1, <1>3, <1>4 DEF IInv

\* A step that moves a task where both its registration and its being counted
\* stay what they were, and changes neither, keeps both.
LEMMA BooksKept ==
  ASSUME IInv, NEW c \in Conns, NEW to, task' = [task EXCEPT ![c] = to],
         to \in Registered <=> task[c] \in Registered,
         to \in Counted <=> task[c] \in Counted,
         UNCHANGED hubVars
  PROVE  RegistryIs' /\ CountIs'
  <1>1. In(Registered)' = In(Registered) /\ In(Counted)' = In(Counted)
    BY Stays DEF IInv
  <1> QED  BY <1>1 DEF IInv, RegistryIs, CountIs, hubVars

\* The tasks of the upgrade.
LEMMA UpgradeKeeps ==
  ASSUME IInv, NEW c \in Conns, Register(c) \/ Upgrade(c)
  PROVE  IInv'
  <1> USE DEF IInv
  <1>1. Shapes'
    BY DEF Register, Upgrade, TaskGo, loopVars, Shapes
  <1>2. RegistryIs' /\ CountIs'
    <2>1. CASE Register(c)
      <3>1. /\ task[c] = "none" /\ task' = [task EXCEPT ![c] = "registered"]
            /\ registry' = registry \cup {c} /\ count' = count
        BY <2>1 DEF Register, TaskGo
      <3>2. In(Registered)' = In(Registered) \cup {c} /\ In(Counted)' = In(Counted)
        BY <3>1, Enters, Stays DEF Registered, Counted
      <3> QED  BY <3>1, <3>2 DEF RegistryIs, CountIs
    <2>2. CASE Upgrade(c)
      <3>1. /\ task[c] = "registered" /\ task' = [task EXCEPT ![c] = "run"]
            /\ registry' = registry /\ count' = count + 1
        BY <2>2 DEF Upgrade, TaskGo
      <3>2. /\ In(Registered)' = In(Registered)
            /\ Cardinality(In(Counted)') = Cardinality(In(Counted)) + 1
        BY <3>1, Enters, Stays DEF Registered, Counted
      <3> QED  BY <3>1, <3>2 DEF RegistryIs, CountIs
    <2> QED  BY <2>1, <2>2
  <1>3. LoopStarts' /\ EndingTold' /\ NormalCloseIsFinal'
    BY DEF Register, Upgrade, TaskGo, loopVars, Shapes, LoopStarts, EndingTold, NormalCloseIsFinal
  <1> QED  BY <1>1, <1>2, <1>3

\* What a handler does while it runs, but for its broadcasts.
LEMMA HandlerKeeps ==
  ASSUME IInv, NEW c \in Conns, Receive(c) \/ Send(c) \/ Return(c) \/ Panic(c)
  PROVE  IInv'
  <1> USE DEF IInv
  <1>1. Shapes'
    <2>1. CASE Receive(c)
      <3>1. inq' \in [Conns -> 0..InCap]
        BY <2>1, CapacityAssumption DEF Receive, Shapes
      <3> QED  BY <2>1, <3>1 DEF Receive, taskVars, loopVars, Shapes
    <2>2. CASE Send(c)
      <3>1. /\ calls[c] < MaxOut /\ calls' = [calls EXCEPT ![c] = @ + 1]
            /\ task' = [task EXCEPT ![c] = "send"]
            /\ UNCHANGED <<targets, loopVars, inq, outq>>
        BY <2>2 DEF Send, Begin, TaskGo
      <3>2. calls' \in [Conns -> 0..MaxOut]
        BY <3>1, CapacityAssumption DEF Shapes
      <3>3. task' \in [Conns -> {"none", "registered", "run", "send", "broadcast",
                                 "returned", "unregistered", "panicked", "done"}]
        BY <3>1 DEF Shapes
      <3> QED  BY <3>1, <3>2, <3>3 DEF loopVars, Shapes
    <2>3. CASE Return(c) \/ Panic(c)
      <3>1. inq' \in [Conns -> 0..InCap]
        <4>1. inq' = [inq EXCEPT ![c] = 0]
          BY <2>3 DEF Return, Panic
        <4> QED  BY <4>1, CapacityAssumption DEF Shapes
      <3> QED  BY <2>3, <3>1 DEF Return, Panic, TaskGo, loopVars, Shapes
    <2> QED  BY <2>1, <2>2, <2>3
  <1>2. RegistryIs' /\ CountIs'
    <2>1. CASE Receive(c)
      BY <2>1 DEF Receive, hubVars, taskVars, RegistryIs, CountIs, In
    <2>2. CASE Send(c) \/ Return(c) \/ Panic(c)
      <3>1. PICK to \in {"send", "returned", "panicked"} :
              /\ task[c] = "run" /\ task' = [task EXCEPT ![c] = to]
              /\ UNCHANGED hubVars
        BY <2>2 DEF Send, Begin, Return, Panic, TaskGo
      <3> QED  BY <3>1, BooksKept DEF Registered, Counted
    <2> QED  BY <2>1, <2>2
  <1>3. LoopStarts' /\ EndingTold'
    BY DEF Receive, Send, Begin, Return, Panic, TaskGo, taskVars, loopVars, Shapes, LoopStarts, EndingTold
  <1>4. NormalCloseIsFinal'
    BY DEF Receive, Send, Begin, Return, Panic, TaskGo, taskVars, loopVars, Shapes, NormalCloseIsFinal
  <1> QED  BY <1>1, <1>2, <1>3, <1>4

\* A broadcast takes the senders of the registry, and of no connection that
\* closed normally.
LEMMA BroadcastKeeps ==
  ASSUME IInv, NEW c \in Conns, Broadcast(c)
  PROVE  IInv'
  <1> USE DEF IInv
  <1>1. /\ task[c] = "run" /\ task' = [task EXCEPT ![c] = "broadcast"]
        /\ calls[c] < MaxOut /\ calls' = [calls EXCEPT ![c] = @ + 1]
        /\ UNCHANGED <<hubVars, loopVars, inq, outq>>
    BY DEF Broadcast, Begin, TaskGo
  <1>2. PICK order \in SetToSeqs(registry) : targets' = [targets EXCEPT ![c] = order]
    BY DEF Broadcast
  <1>3. registry \subseteq Conns
    BY DEF RegistryIs, In
  <1>4. order \in Seq(Conns) /\ IsInjective(order) /\ ToSet(order) \subseteq registry
    BY <1>3, Snapshot
  <1>5. Shapes'
    <2>1. targets' \in [Conns -> Seq(Conns)] /\ \A d \in Conns : IsInjective(targets'[d])
      BY <1>2, <1>4 DEF Shapes
    <2>2. calls' \in [Conns -> 0..MaxOut]
      BY <1>1, CapacityAssumption DEF Shapes
    <2> QED  BY <1>1, <2>1, <2>2 DEF loopVars, Shapes
  <1>6. RegistryIs' /\ CountIs'
    BY <1>1, BooksKept DEF Registered, Counted
  <1>7. LoopStarts' /\ EndingTold'
    BY <1>1 DEF Shapes, loopVars, LoopStarts, EndingTold
  <1>8. NormalCloseIsFinal'
    <2> SUFFICES ASSUME NEW d \in Conns, ending'[d] = "normal"
                 PROVE  /\ outq'[d] = 0
                        /\ task'[d] \in {"unregistered", "done"}
                        /\ \A e \in Conns : d \notin ToSet(targets'[e])
      BY DEF NormalCloseIsFinal
    <2>1. /\ outq[d] = 0 /\ task[d] \in {"unregistered", "done"}
          /\ \A e \in Conns : d \notin ToSet(targets[e])
      BY <1>1 DEF loopVars, NormalCloseIsFinal
    <2>2. d \notin registry
      BY <2>1 DEF RegistryIs, In, Registered
    <2> QED  BY <1>1, <1>2, <1>4, <2>1, <2>2 DEF Shapes
  <1> QED  BY <1>5, <1>6, <1>7, <1>8

\* A message that is sent adds to no other channel than the one it goes to.
LEMMA PushKeeps ==
  ASSUME Shapes, NEW d \in Conns, Push(d)
  PROVE  /\ outq' \in [Conns -> 0..OutCap]
         /\ \A e \in Conns : e # d => outq'[e] = outq[e]
  <1>1. CASE loop[d] # "ended" /\ outq[d] < OutCap /\ outq' = [outq EXCEPT ![d] = @ + 1]
    <2>1. outq \in [Conns -> 0..OutCap] /\ OutCap \in Nat
      BY CapacityAssumption DEF Shapes
    <2>2. outq' \in [Conns -> 0..OutCap]
      BY <1>1, <2>1
    <2>3. \A e \in Conns : e # d => outq'[e] = outq[e]
      BY <1>1, <2>1
    <2> QED  BY <1>1, <2>2, <2>3
  <1>2. CASE UNCHANGED outq
    BY <1>2 DEF Shapes
  <1> QED  BY <1>1, <1>2 DEF Push, HasRoom

\* A handler that waited for room goes on.
LEMMA SentKeeps ==
  ASSUME IInv, NEW c \in Conns, Sent(c) \/ BroadcastDone(c)
  PROVE  IInv'
  <1> USE DEF IInv
  <1>1. /\ task[c] \in {"send", "broadcast"} /\ task' = [task EXCEPT ![c] = "run"]
        /\ UNCHANGED <<hubVars, targets, calls, loopVars, inq>>
    BY DEF Sent, BroadcastDone, TaskGo
  <1>2. /\ outq' \in [Conns -> 0..OutCap]
        /\ \A e \in Conns : e # c => outq'[e] = outq[e]
    <2>1. CASE Sent(c)
      BY <2>1, PushKeeps DEF Sent
    <2>2. CASE BroadcastDone(c)
      BY <2>2 DEF BroadcastDone, Shapes
    <2> QED  BY <2>1, <2>2
  <1>3. Shapes'
    BY <1>1, <1>2 DEF loopVars, Shapes
  <1>4. RegistryIs' /\ CountIs'
    BY <1>1, BooksKept DEF Registered, Counted
  <1>5. LoopStarts' /\ EndingTold'
    BY <1>1 DEF Shapes, loopVars, LoopStarts, EndingTold
  <1>6. NormalCloseIsFinal'
    <2>1. ending[c] # "normal"
      BY <1>1 DEF NormalCloseIsFinal
    <2> QED  BY <1>1, <1>2, <2>1 DEF Shapes, loopVars, NormalCloseIsFinal
  <1> QED  BY <1>3, <1>4, <1>5, <1>6

\* A broadcast sends to connections it holds a sender of, none of which closed
\* normally.
LEMMA BroadcastNextKeeps ==
  ASSUME IInv, NEW c \in Conns, BroadcastNext(c)
  PROVE  IInv'
  <1> USE DEF IInv
  <1>1. /\ targets[c] # <<>> /\ Push(Head(targets[c]))
        /\ targets' = [targets EXCEPT ![c] = Tail(targets[c])]
        /\ UNCHANGED <<hubVars, task, calls, loopVars, inq>>
    BY DEF BroadcastNext
  <1>2. targets[c] \in Seq(Conns) /\ IsInjective(targets[c])
    BY DEF Shapes
  <1>3. /\ Head(targets[c]) \in Conns
        /\ Tail(targets[c]) \in Seq(Conns) /\ IsInjective(Tail(targets[c]))
        /\ ToSet(Tail(targets[c])) \subseteq ToSet(targets[c])
    BY <1>1, <1>2, TailKeeps
  <1>4. /\ outq' \in [Conns -> 0..OutCap]
        /\ \A e \in Conns : e # Head(targets[c]) => outq'[e] = outq[e]
    BY <1>1, <1>3, PushKeeps
  <1>5. Shapes'
    <2>1. targets' \in [Conns -> Seq(Conns)] /\ \A d \in Conns : IsInjective(targets'[d])
      BY <1>1, <1>3 DEF Shapes
    <2> QED  BY <1>1, <1>4, <2>1 DEF loopVars, Shapes
  <1>6. RegistryIs' /\ CountIs' /\ LoopStarts' /\ EndingTold'
    BY <1>1 DEF hubVars, loopVars, RegistryIs, CountIs, In, LoopStarts, EndingTold
  <1>7. NormalCloseIsFinal'
    <2> SUFFICES ASSUME NEW d \in Conns, ending'[d] = "normal"
                 PROVE  /\ outq'[d] = 0
                        /\ task'[d] \in {"unregistered", "done"}
                        /\ \A e \in Conns : d \notin ToSet(targets'[e])
      BY DEF NormalCloseIsFinal
    <2>1. /\ outq[d] = 0 /\ task[d] \in {"unregistered", "done"}
          /\ \A e \in Conns : d \notin ToSet(targets[e])
      BY <1>1 DEF loopVars, NormalCloseIsFinal
    <2>2. Head(targets[c]) \in ToSet(targets[c])
      BY <1>1, <1>2 DEF ToSet
    <2>3. d # Head(targets[c])
      BY <2>1, <2>2
    <2> QED  BY <1>1, <1>3, <1>4, <2>1, <2>3 DEF Shapes
  <1> QED  BY <1>5, <1>6, <1>7

\* The end of a handler leaves the registry first and the counter after it.
LEMMA EndKeeps ==
  ASSUME IInv, NEW c \in Conns, Unregister(c) \/ Uncount(c)
  PROVE  IInv'
  <1> USE DEF IInv
  <1>1. Shapes'
    BY DEF Unregister, Uncount, TaskGo, loopVars, Shapes
  <1>2. RegistryIs' /\ CountIs'
    <2>1. CASE Unregister(c)
      <3>1. /\ task[c] = "returned" /\ task' = [task EXCEPT ![c] = "unregistered"]
            /\ registry' = registry \ {c} /\ count' = count
        BY <2>1 DEF Unregister, TaskGo
      <3>2. In(Registered)' = In(Registered) \ {c} /\ In(Counted)' = In(Counted)
        BY <3>1, Leaves, Stays DEF Registered, Counted
      <3> QED  BY <3>1, <3>2 DEF RegistryIs, CountIs
    <2>2. CASE Uncount(c)
      <3>1. /\ task[c] = "unregistered" /\ task' = [task EXCEPT ![c] = "done"]
            /\ registry' = registry /\ count' = count - 1
        BY <2>2 DEF Uncount, TaskGo
      <3>2. /\ In(Registered)' = In(Registered)
            /\ Cardinality(In(Counted)') = Cardinality(In(Counted)) - 1
        BY <3>1, Leaves, Stays DEF Registered, Counted
      <3> QED  BY <3>1, <3>2 DEF RegistryIs, CountIs
    <2> QED  BY <2>1, <2>2
  <1>3. LoopStarts' /\ EndingTold' /\ NormalCloseIsFinal'
    BY DEF Unregister, Uncount, TaskGo, loopVars, Shapes, LoopStarts, EndingTold, NormalCloseIsFinal
  <1> QED  BY <1>1, <1>2, <1>3

-----------------------------------------------------------------------------
(* The loop and its client. *)

\* A step that touches neither the books nor the tasks keeps the books.
LEMMA BooksUntouched ==
  ASSUME IInv, UNCHANGED <<hubVars, taskVars>>
  PROVE  RegistryIs' /\ CountIs'
  BY DEF IInv, hubVars, taskVars, RegistryIs, CountIs, In

\* What moves between the client, the loop and the channels while the loop runs.
LEMMA LoopKeeps ==
  ASSUME IInv, NEW c \in Conns,
         Frame(c) \/ Ping(c) \/ Deliver(c) \/ Write(c) \/ Wrote(c) \/ Stall(c)
  PROVE  IInv'
  <1> USE DEF IInv
  <1>1. UNCHANGED <<hubVars, taskVars, ending>>
    BY DEF Frame, Ping, Deliver, Write, Wrote, Stall
  <1>2. /\ loop' = loop \/ (/\ loop[c] \in {"select", "deliver", "write"}
                            /\ \E to \in {"select", "deliver", "write"} :
                                  loop' = [loop EXCEPT ![c] = to])
        /\ outq' = outq \/ (/\ loop[c] = "select" /\ outq[c] > 0
                            /\ outq' = [outq EXCEPT ![c] = @ - 1])
    BY DEF Frame, Ping, Deliver, Write, Wrote, Stall, LoopGo
  <1>3. Shapes'
    <2>1. input' \in [Conns -> Nat] /\ \A d \in Conns : input'[d] <= MaxIn[d]
      <3>1. \A n \in Nat : n < MaxIn[c] => n + 1 \in Nat /\ n + 1 <= MaxIn[c]
        BY CapacityAssumption
      <3>2. input' = input \/ (input[c] < MaxIn[c] /\ input' = [input EXCEPT ![c] = @ + 1])
        BY DEF Frame, Ping, Deliver, Write, Wrote, Stall
      <3>3. CASE input' = input
        BY <3>3 DEF Shapes
      <3>4. CASE input[c] < MaxIn[c] /\ input' = [input EXCEPT ![c] = @ + 1]
        BY <3>1, <3>4 DEF Shapes
      <3> QED  BY <3>2, <3>3, <3>4
    <2>2. inq' \in [Conns -> 0..InCap]
      <3>1. \A n \in 0..InCap : n < InCap => n + 1 \in 0..InCap
        BY CapacityAssumption
      <3>2. inq' = inq \/ (inq[c] < InCap /\ inq' = [inq EXCEPT ![c] = @ + 1])
        BY DEF Frame, Ping, Deliver, Write, Wrote, Stall
      <3>3. CASE inq' = inq
        BY <3>3 DEF Shapes
      <3>4. CASE inq[c] < InCap /\ inq' = [inq EXCEPT ![c] = @ + 1]
        BY <3>1, <3>4 DEF Shapes
      <3> QED  BY <3>2, <3>3, <3>4
    <2>3. outq' \in [Conns -> 0..OutCap]
      <3>1. \A n \in 0..OutCap : n > 0 => n - 1 \in 0..OutCap
        BY CapacityAssumption
      <3>2. CASE outq' = outq
        BY <3>2 DEF Shapes
      <3>3. CASE outq[c] > 0 /\ outq' = [outq EXCEPT ![c] = @ - 1]
        BY <3>1, <3>3 DEF Shapes
      <3> QED  BY <1>2, <3>2, <3>3
    <2>4. stalled' \in [Conns -> BOOLEAN]
      BY DEF Frame, Ping, Deliver, Write, Wrote, Stall, Shapes
    <2>5. loop' \in [Conns -> {"none", "select", "deliver", "write", "closing", "ended"}]
      BY <1>2 DEF Shapes
    <2> QED  BY <1>1, <2>1, <2>2, <2>3, <2>4, <2>5 DEF taskVars, Shapes
  <1>4. RegistryIs' /\ CountIs'
    BY <1>1, BooksUntouched
  <1>5. LoopStarts' /\ EndingTold'
    BY <1>1, <1>2 DEF taskVars, Shapes, LoopStarts, EndingTold
  <1>6. NormalCloseIsFinal'
    BY <1>1, <1>2 DEF taskVars, Shapes, EndingTold, NormalCloseIsFinal
  <1> QED  BY <1>3, <1>4, <1>5, <1>6

\* A loop that breaks, or is done with its close frame, empties the channel to
\* its client.
LEMMA EndOfLoopKeeps ==
  ASSUME IInv, NEW c \in Conns, DeliverFails(c) \/ Cut(c) \/ Closed(c)
  PROVE  IInv'
  <1> USE DEF IInv
  <1>1. /\ UNCHANGED <<hubVars, taskVars, input, stalled, inq>>
        /\ loop[c] # "none"
        /\ loop' = [loop EXCEPT ![c] = "ended"]
        /\ outq' = [outq EXCEPT ![c] = 0]
        /\ ending' = ending \/ ending' = [ending EXCEPT ![c] = "early"]
    BY DEF DeliverFails, Cut, Closed, LoopBreaks, LoopGo
  <1>2. Shapes'
    <2>1. outq' \in [Conns -> 0..OutCap]
      BY <1>1, CapacityAssumption DEF Shapes
    <2> QED  BY <1>1, <2>1 DEF taskVars, Shapes
  <1>3. RegistryIs' /\ CountIs'
    BY <1>1, BooksUntouched
  <1>4. LoopStarts' /\ EndingTold' /\ NormalCloseIsFinal'
    BY <1>1 DEF taskVars, Shapes, LoopStarts, EndingTold, NormalCloseIsFinal
  <1> QED  BY <1>2, <1>3, <1>4

\* A loop closes normally when the channel to its client is empty and nobody
\* holds a sender: its handler has left the registry for good.
LEMMA CloseKeeps ==
  ASSUME IInv, NEW c \in Conns, CloseNormally(c) \/ ClientCloses(c)
  PROVE  IInv'
  <1> USE DEF IInv
  <1>1. PICK how \in {"normal", "early"} :
          /\ UNCHANGED <<hubVars, taskVars, input, stalled, inq, outq>>
          /\ loop[c] = "select" /\ loop' = [loop EXCEPT ![c] = "closing"]
          /\ ending' = [ending EXCEPT ![c] = how]
          /\ how = "normal" => outq[c] = 0 /\ ~Held(c)
    BY DEF CloseNormally, ClientCloses, WriteClose, LoopGo
  <1>2. how = "normal" => task[c] \in {"unregistered", "done"}
    BY <1>1 DEF Held, RegistryIs, In, Registered, LoopStarts, Shapes
  <1>3. Shapes'
    BY <1>1 DEF taskVars, Shapes
  <1>4. RegistryIs' /\ CountIs'
    BY <1>1, BooksUntouched
  <1>5. LoopStarts' /\ EndingTold'
    BY <1>1 DEF taskVars, Shapes, LoopStarts, EndingTold
  <1>6. NormalCloseIsFinal'
    BY <1>1, <1>2 DEF taskVars, Shapes, Held, NormalCloseIsFinal
  <1> QED  BY <1>3, <1>4, <1>5, <1>6

LEMMA NextKeeps == IInv /\ [Next]_vars => IInv'
  <1> SUFFICES ASSUME IInv, [Next]_vars PROVE IInv'
    OBVIOUS
  <1>1. CASE UNCHANGED vars
    BY <1>1 DEF vars, hubVars, taskVars, loopVars, IInv, Shapes, RegistryIs, CountIs, In,
                LoopStarts, EndingTold, NormalCloseIsFinal
  <1>2. ASSUME NEW c \in Conns, Handler(c) PROVE IInv'
    BY <1>2, UpgradeKeeps, HandlerKeeps, BroadcastKeeps DEF Handler
  <1>3. ASSUME NEW c \in Conns, Resume(c) PROVE IInv'
    BY <1>3, UpgradeKeeps, SentKeeps, BroadcastNextKeeps, EndKeeps DEF Resume
  <1>4. ASSUME NEW c \in Conns, Loop(c) \/ Client(c) PROVE IInv'
    BY <1>4, LoopKeeps, EndOfLoopKeeps, CloseKeeps DEF Loop, Client
  <1> QED  BY <1>1, <1>2, <1>3, <1>4 DEF Next

\* The inductive invariant holds in every state.
THEOREM Inductive == Spec => []IInv
  BY InitHolds, NextKeeps, PTL DEF Spec

-----------------------------------------------------------------------------
(* What follows from it. *)

\* The variables have their types; the count of open websockets is never
\* negative and never above the connections there are.
THEOREM TypeCorrect == Spec => []TypeOK
  <1>1. IInv => TypeOK
    <2> SUFFICES ASSUME IInv PROVE TypeOK
      OBVIOUS
    <2>1. registry \subseteq Conns
      BY DEF IInv, RegistryIs, In
    <2>2. /\ Cardinality(In(Counted)) \in Nat /\ Cardinality(Conns) \in Nat
          /\ Cardinality(In(Counted)) <= Cardinality(Conns)
      BY ConnsAssumption, FS_Subset, FS_CardinalityType DEF In
    <2>3. count \in 0..Cardinality(Conns)
      BY <2>2 DEF IInv, CountIs
    <2> QED  BY <2>1, <2>3 DEF IInv, Shapes, TypeOK
  <1> QED  BY <1>1, Inductive, PTL

\* The count and the registry differ exactly by the connections that are caught
\* between their two updates, at the upgrade and at the end of the handler.
THEOREM CountAgrees == Spec => []CountTracksRegistry
  <1>1. IInv => CountTracksRegistry
    <2> SUFFICES ASSUME IInv PROVE CountTracksRegistry
      OBVIOUS
    <2> DEFINE both == Registered \ {"registered"}
               At(where) == {c \in Conns : task[c] = where}
    <2>1. /\ In(Registered) = In(both) \cup At("registered")
          /\ In(Counted) = In(both) \cup At("unregistered")
          /\ In(both) \cap At("registered") = {}
          /\ In(both) \cap At("unregistered") = {}
      BY DEF In, Registered, Counted
    <2>2. /\ IsFiniteSet(In(both))
          /\ IsFiniteSet(At("registered")) /\ IsFiniteSet(At("unregistered"))
      BY ConnsAssumption, FS_Subset DEF In
    <2> HIDE DEF At, both
    <2>3. /\ Cardinality(In(both)) \in Nat /\ Cardinality(At("registered")) \in Nat
          /\ Cardinality(At("unregistered")) \in Nat
      BY <2>2, FS_CardinalityType
    <2>4. Cardinality(In(Registered)) = Cardinality(In(both)) + Cardinality(At("registered"))
      BY <2>1, <2>2, Together
    <2>5. Cardinality(In(Counted)) = Cardinality(In(both)) + Cardinality(At("unregistered"))
      BY <2>1, <2>2, Together
    <2>6. count + Cardinality(At("registered")) = Cardinality(registry) + Cardinality(At("unregistered"))
      BY <2>3, <2>4, <2>5 DEF IInv, RegistryIs, CountIs
    <2> QED  BY <2>6 DEF At, CountTracksRegistry
  <1> QED  BY <1>1, Inductive, PTL

\* A loop closes normally only when nothing waits for its client, its handler
\* has left the registry and no broadcast holds a sender to it.
THEOREM NormalCloseFinal == Spec => []NormalCloseIsFinal
  <1>1. IInv => NormalCloseIsFinal
    BY DEF IInv
  <1> QED  BY <1>1, Inductive, PTL
=============================================================================
