---------------------------- MODULE ServerProof ----------------------------
(***************************************************************************)
(* Proofs about Server, for every set of connections, every set of         *)
(* requests, with and without TLS.                                         *)
(***************************************************************************)
EXTENDS Server, TLAPS

\* A running task is in the JoinSet, which is empty once serve has returned.
TasksOwned ==
    /\ \A c \in Conns : Running(c) => c \in tasks
    /\ server = "stopped" => tasks = {}

\* A request is unanswered only while it is handled or its response written.
RequestsCounted ==
    \A c \in Conns :
        /\ answered[c] <= received[c]
        /\ phase[c] \in {"handle", "write"} => received[c] = answered[c] + 1
        /\ phase[c] \notin {"handle", "write", "done"} => answered[c] = received[c]
        /\ outcome[c] = "ok" => answered[c] = received[c] /\ phase[c] = "done"

\* After its late request a connection polls the reader no more.
LateCounted ==
    /\ signal = "none" <=> server = "accepting"
    /\ \A c \in Conns : late[c] # 0 =>
          late[c] = 1 /\ signal # "none" /\ phase[c] # "poll"

\* While a response is written, its header and its fate agree already.
FateAgrees ==
    \A c \in Conns :
        /\ phase[c] = "write" =>
              /\ reply[c].last => reply[c].header = "close"
              /\ reply[c].header = "close" => reply[c].last \/ reply[c].own = "close"
              /\ reply[c].websocket => ~reply[c].last /\ reply[c].own = "upgrade"
        /\ phase[c] = "closing" => reply[c].header = "close"
        /\ phase[c] \notin {"write", "closing", "done"} =>
              (reply[c].header = "close" => reply[c].own = "close")

IInv == TypeOK /\ TasksOwned /\ RequestsCounted /\ LateCounted /\ FateAgrees

\* Every step keeps the types; the counters stay in bounds because of
\* RequestsCounted and LateCounted.
LEMMA TypeOKStep ==
    ASSUME IInv, [Next]_vars
    PROVE  TypeOK'
<1> USE RequestsAssumption, MaxRequestsAssumption
    DEF IInv, TypeOK, Phases, Reply, Header, NoReply, serverVars, connVars, countVars
<1>1. ASSUME NEW c \in Conns, HandshakeFails(c) PROVE TypeOK'
  BY <1>1 DEF HandshakeFails, End
<1>2. ASSUME NEW c \in Conns, Poll(c) PROVE TypeOK'
  BY <1>2 DEF Poll, Go, SignalUnseen
<1>3. ASSUME NEW c \in Conns, ReadTimeout(c) PROVE TypeOK'
  BY <1>3 DEF ReadTimeout, End
<1>4. ASSUME NEW c \in Conns, Rejected(c) PROVE TypeOK'
  BY <1>4 DEF Rejected, End
<1>5. ASSUME NEW c \in Conns, ObserveShutdown(c) PROVE TypeOK'
  BY <1>5 DEF ObserveShutdown
<1>6. ASSUME NEW c \in Conns, Leave(c) PROVE TypeOK'
  BY <1>6 DEF Leave, End
<1>7. ASSUME NEW c \in Conns, HandlerTimeout(c) PROVE TypeOK'
  BY <1>7 DEF HandlerTimeout, Respond, Go, ReplyTo
<1>8. ASSUME NEW c \in Conns, WriteFails(c) PROVE TypeOK'
  BY <1>8 DEF WriteFails, End
<1>9. ASSUME NEW c \in Conns, Close(c) PROVE TypeOK'
  BY <1>9 DEF Close, End
<1>10. ASSUME NEW c \in Conns, Handshake(c) PROVE TypeOK'
  BY <1>10 DEF Handshake, Go
<1>11. ASSUME NEW c \in Conns, ReadRequest(c) PROVE TypeOK'
  BY <1>11 DEF ReadRequest, Go, LateCounted
<1>12. ASSUME NEW c \in Conns, PeerClosed(c) PROVE TypeOK'
  BY <1>12 DEF PeerClosed, End
<1>13. ASSUME NEW c \in Conns, BadRequest(c) PROVE TypeOK'
  BY <1>13 DEF BadRequest, Go
<1>14. ASSUME NEW c \in Conns, HandlerDone(c) PROVE TypeOK'
  <2>1. \E websocket \in BOOLEAN, own \in Header : Respond(c, websocket, own)
    BY <1>14 DEF HandlerDone
  <2>2. reply' \in [Conns -> Reply]
    <3>1. PICK websocket \in BOOLEAN, own \in Header : Respond(c, websocket, own)
      BY <2>1
    <3>2. ReplyTo(request[c], websocket, own, signal = "raised") \in Reply
      BY DEF ReplyTo
    <3>3. QED
      BY <3>1, <3>2 DEF Respond
  <2>3. QED
    BY <2>1, <2>2 DEF Respond, Go
<1>15. ASSUME NEW c \in Conns, HandlerPanic(c) PROVE TypeOK'
  BY <1>15 DEF HandlerPanic, End
<1>16. ASSUME NEW c \in Conns, WriteDone(c) PROVE TypeOK'
  BY <1>16 DEF WriteDone, Go, AfterWrite, RequestsCounted
<1>17. ASSUME NEW c \in Conns, WebsocketEnds(c) PROVE TypeOK'
  BY <1>17 DEF WebsocketEnds, End
<1>18. ASSUME NEW c \in Conns, Connect(c) PROVE TypeOK'
  BY <1>18 DEF Connect, Go
<1>19. ASSUME NEW c \in Conns, Refuse(c) PROVE TypeOK'
  BY <1>19 DEF Refuse, Go
<1>20. ASSUME NEW c \in Conns, Accept(c) PROVE TypeOK'
  BY <1>20 DEF Accept, Go
<1>21. ASSUME NEW c \in Conns, Reap(c) PROVE TypeOK'
  BY <1>21 DEF Reap
<1>22. ASSUME NEW c \in Conns, Abort(c) PROVE TypeOK'
  BY <1>22 DEF Abort, End, Running, Waiting
<1>23. CASE AcceptFails
  BY <1>23 DEF AcceptFails
<1>24. CASE Interrupt
  BY <1>24 DEF Interrupt
<1>25. CASE Break
  BY <1>25 DEF Break
<1>26. CASE DrainTimeout
  BY <1>26 DEF DrainTimeout
<1>27. CASE Stopped
  BY <1>27 DEF Stopped, Drained
<1>28. CASE UNCHANGED vars
  BY <1>28 DEF vars
<1>29. QED
  BY <1>1, <1>2, <1>3, <1>4, <1>5, <1>6, <1>7, <1>8, <1>9, <1>10, <1>11, <1>12, <1>13, <1>14,
     <1>15, <1>16, <1>17, <1>18, <1>19, <1>20, <1>21, <1>22, <1>23, <1>24, <1>25, <1>26, <1>27, <1>28
  DEF Next, ServerStep, Timed, Untimed, SocketStep

\* Every step keeps the running tasks in the JoinSet.
LEMMA TasksOwnedStep ==
    ASSUME IInv, [Next]_vars
    PROVE  TasksOwned'
<1> USE RequestsAssumption, MaxRequestsAssumption
    DEF IInv, TypeOK, TasksOwned, Running, Waiting, Phases, serverVars, connVars, countVars
<1>1. ASSUME NEW c \in Conns, HandshakeFails(c) PROVE TasksOwned'
  BY <1>1 DEF HandshakeFails, End
<1>2. ASSUME NEW c \in Conns, Poll(c) PROVE TasksOwned'
  BY <1>2 DEF Poll, Go, SignalUnseen
<1>3. ASSUME NEW c \in Conns, ReadTimeout(c) PROVE TasksOwned'
  BY <1>3 DEF ReadTimeout, End
<1>4. ASSUME NEW c \in Conns, Rejected(c) PROVE TasksOwned'
  BY <1>4 DEF Rejected, End
<1>5. ASSUME NEW c \in Conns, ObserveShutdown(c) PROVE TasksOwned'
  BY <1>5 DEF ObserveShutdown
<1>6. ASSUME NEW c \in Conns, Leave(c) PROVE TasksOwned'
  BY <1>6 DEF Leave, End
<1>7. ASSUME NEW c \in Conns, HandlerTimeout(c) PROVE TasksOwned'
  BY <1>7 DEF HandlerTimeout, Respond, Go, ReplyTo
<1>8. ASSUME NEW c \in Conns, WriteFails(c) PROVE TasksOwned'
  BY <1>8 DEF WriteFails, End
<1>9. ASSUME NEW c \in Conns, Close(c) PROVE TasksOwned'
  BY <1>9 DEF Close, End
<1>10. ASSUME NEW c \in Conns, Handshake(c) PROVE TasksOwned'
  BY <1>10 DEF Handshake, Go
<1>11. ASSUME NEW c \in Conns, ReadRequest(c) PROVE TasksOwned'
  BY <1>11 DEF ReadRequest, Go
<1>12. ASSUME NEW c \in Conns, PeerClosed(c) PROVE TasksOwned'
  BY <1>12 DEF PeerClosed, End
<1>13. ASSUME NEW c \in Conns, BadRequest(c) PROVE TasksOwned'
  BY <1>13 DEF BadRequest, Go
<1>14. ASSUME NEW c \in Conns, HandlerDone(c) PROVE TasksOwned'
  BY <1>14 DEF HandlerDone, Respond, Go, ReplyTo
<1>15. ASSUME NEW c \in Conns, HandlerPanic(c) PROVE TasksOwned'
  BY <1>15 DEF HandlerPanic, End
<1>16. ASSUME NEW c \in Conns, WriteDone(c) PROVE TasksOwned'
  BY <1>16 DEF WriteDone, Go, AfterWrite
<1>17. ASSUME NEW c \in Conns, WebsocketEnds(c) PROVE TasksOwned'
  BY <1>17 DEF WebsocketEnds, End
<1>18. ASSUME NEW c \in Conns, Connect(c) PROVE TasksOwned'
  BY <1>18 DEF Connect, Go
<1>19. ASSUME NEW c \in Conns, Refuse(c) PROVE TasksOwned'
  BY <1>19 DEF Refuse, Go
<1>20. ASSUME NEW c \in Conns, Accept(c) PROVE TasksOwned'
  BY <1>20 DEF Accept, Go
<1>21. ASSUME NEW c \in Conns, Reap(c) PROVE TasksOwned'
  BY <1>21 DEF Reap
<1>22. ASSUME NEW c \in Conns, Abort(c) PROVE TasksOwned'
  BY <1>22 DEF Abort, End
<1>23. CASE AcceptFails
  BY <1>23 DEF AcceptFails
<1>24. CASE Interrupt
  BY <1>24 DEF Interrupt
<1>25. CASE Break
  BY <1>25 DEF Break
<1>26. CASE DrainTimeout
  BY <1>26 DEF DrainTimeout
<1>27. CASE Stopped
  BY <1>27 DEF Stopped, Drained
<1>28. CASE UNCHANGED vars
  BY <1>28 DEF vars
<1>29. QED
  BY <1>1, <1>2, <1>3, <1>4, <1>5, <1>6, <1>7, <1>8, <1>9, <1>10, <1>11, <1>12, <1>13, <1>14,
     <1>15, <1>16, <1>17, <1>18, <1>19, <1>20, <1>21, <1>22, <1>23, <1>24, <1>25, <1>26, <1>27, <1>28
  DEF Next, ServerStep, Timed, Untimed, SocketStep

\* Every step keeps the count of requests and responses.
LEMMA RequestsCountedStep ==
    ASSUME IInv, [Next]_vars
    PROVE  RequestsCounted'
<1> USE RequestsAssumption, MaxRequestsAssumption
    DEF IInv, TypeOK, RequestsCounted, Waiting, serverVars, connVars, countVars
<1>1. ASSUME NEW c \in Conns, HandshakeFails(c) PROVE RequestsCounted'
  BY <1>1 DEF HandshakeFails, End
<1>2. ASSUME NEW c \in Conns, Poll(c) PROVE RequestsCounted'
  BY <1>2 DEF Poll, Go, SignalUnseen
<1>3. ASSUME NEW c \in Conns, ReadTimeout(c) PROVE RequestsCounted'
  BY <1>3 DEF ReadTimeout, End
<1>4. ASSUME NEW c \in Conns, Rejected(c) PROVE RequestsCounted'
  BY <1>4 DEF Rejected, End
<1>5. ASSUME NEW c \in Conns, ObserveShutdown(c) PROVE RequestsCounted'
  BY <1>5 DEF ObserveShutdown
<1>6. ASSUME NEW c \in Conns, Leave(c) PROVE RequestsCounted'
  BY <1>6 DEF Leave, End
<1>7. ASSUME NEW c \in Conns, HandlerTimeout(c) PROVE RequestsCounted'
  BY <1>7 DEF HandlerTimeout, Respond, Go, ReplyTo
<1>8. ASSUME NEW c \in Conns, WriteFails(c) PROVE RequestsCounted'
  BY <1>8 DEF WriteFails, End
<1>9. ASSUME NEW c \in Conns, Close(c) PROVE RequestsCounted'
  BY <1>9 DEF Close, End
<1>10. ASSUME NEW c \in Conns, Handshake(c) PROVE RequestsCounted'
  BY <1>10 DEF Handshake, Go
<1>11. ASSUME NEW c \in Conns, ReadRequest(c) PROVE RequestsCounted'
  BY <1>11 DEF ReadRequest, Go
<1>12. ASSUME NEW c \in Conns, PeerClosed(c) PROVE RequestsCounted'
  BY <1>12 DEF PeerClosed, End
<1>13. ASSUME NEW c \in Conns, BadRequest(c) PROVE RequestsCounted'
  BY <1>13 DEF BadRequest, Go
<1>14. ASSUME NEW c \in Conns, HandlerDone(c) PROVE RequestsCounted'
  BY <1>14 DEF HandlerDone, Respond, Go, ReplyTo
<1>15. ASSUME NEW c \in Conns, HandlerPanic(c) PROVE RequestsCounted'
  BY <1>15 DEF HandlerPanic, End
<1>16. ASSUME NEW c \in Conns, WriteDone(c) PROVE RequestsCounted'
  BY <1>16 DEF WriteDone, Go, AfterWrite
<1>17. ASSUME NEW c \in Conns, WebsocketEnds(c) PROVE RequestsCounted'
  BY <1>17 DEF WebsocketEnds, End
<1>18. ASSUME NEW c \in Conns, Connect(c) PROVE RequestsCounted'
  BY <1>18 DEF Connect, Go
<1>19. ASSUME NEW c \in Conns, Refuse(c) PROVE RequestsCounted'
  BY <1>19 DEF Refuse, Go
<1>20. ASSUME NEW c \in Conns, Accept(c) PROVE RequestsCounted'
  BY <1>20 DEF Accept, Go
<1>21. ASSUME NEW c \in Conns, Reap(c) PROVE RequestsCounted'
  BY <1>21 DEF Reap
<1>22. ASSUME NEW c \in Conns, Abort(c) PROVE RequestsCounted'
  BY <1>22 DEF Abort, End, Running
<1>23. CASE AcceptFails
  BY <1>23 DEF AcceptFails
<1>24. CASE Interrupt
  BY <1>24 DEF Interrupt
<1>25. CASE Break
  BY <1>25 DEF Break
<1>26. CASE DrainTimeout
  BY <1>26 DEF DrainTimeout
<1>27. CASE Stopped
  BY <1>27 DEF Stopped, Drained
<1>28. CASE UNCHANGED vars
  BY <1>28 DEF vars
<1>29. QED
  BY <1>1, <1>2, <1>3, <1>4, <1>5, <1>6, <1>7, <1>8, <1>9, <1>10, <1>11, <1>12, <1>13, <1>14,
     <1>15, <1>16, <1>17, <1>18, <1>19, <1>20, <1>21, <1>22, <1>23, <1>24, <1>25, <1>26, <1>27, <1>28
  DEF Next, ServerStep, Timed, Untimed, SocketStep

\* Every step keeps late requests at one.
LEMMA LateCountedStep ==
    ASSUME IInv, [Next]_vars
    PROVE  LateCounted'
<1> USE RequestsAssumption, MaxRequestsAssumption
    DEF IInv, TypeOK, LateCounted, Waiting, serverVars, connVars, countVars
<1>1. ASSUME NEW c \in Conns, HandshakeFails(c) PROVE LateCounted'
  BY <1>1 DEF HandshakeFails, End
<1>2. ASSUME NEW c \in Conns, Poll(c) PROVE LateCounted'
  BY <1>2 DEF Poll, Go, SignalUnseen
<1>3. ASSUME NEW c \in Conns, ReadTimeout(c) PROVE LateCounted'
  BY <1>3 DEF ReadTimeout, End
<1>4. ASSUME NEW c \in Conns, Rejected(c) PROVE LateCounted'
  BY <1>4 DEF Rejected, End
<1>5. ASSUME NEW c \in Conns, ObserveShutdown(c) PROVE LateCounted'
  BY <1>5 DEF ObserveShutdown
<1>6. ASSUME NEW c \in Conns, Leave(c) PROVE LateCounted'
  BY <1>6 DEF Leave, End
<1>7. ASSUME NEW c \in Conns, HandlerTimeout(c) PROVE LateCounted'
  BY <1>7 DEF HandlerTimeout, Respond, Go, ReplyTo
<1>8. ASSUME NEW c \in Conns, WriteFails(c) PROVE LateCounted'
  BY <1>8 DEF WriteFails, End
<1>9. ASSUME NEW c \in Conns, Close(c) PROVE LateCounted'
  BY <1>9 DEF Close, End
<1>10. ASSUME NEW c \in Conns, Handshake(c) PROVE LateCounted'
  BY <1>10 DEF Handshake, Go
<1>11. ASSUME NEW c \in Conns, ReadRequest(c) PROVE LateCounted'
  BY <1>11 DEF ReadRequest, Go
<1>12. ASSUME NEW c \in Conns, PeerClosed(c) PROVE LateCounted'
  BY <1>12 DEF PeerClosed, End
<1>13. ASSUME NEW c \in Conns, BadRequest(c) PROVE LateCounted'
  BY <1>13 DEF BadRequest, Go
<1>14. ASSUME NEW c \in Conns, HandlerDone(c) PROVE LateCounted'
  BY <1>14 DEF HandlerDone, Respond, Go, ReplyTo
<1>15. ASSUME NEW c \in Conns, HandlerPanic(c) PROVE LateCounted'
  BY <1>15 DEF HandlerPanic, End
<1>16. ASSUME NEW c \in Conns, WriteDone(c) PROVE LateCounted'
  BY <1>16 DEF WriteDone, Go, AfterWrite
<1>17. ASSUME NEW c \in Conns, WebsocketEnds(c) PROVE LateCounted'
  BY <1>17 DEF WebsocketEnds, End
<1>18. ASSUME NEW c \in Conns, Connect(c) PROVE LateCounted'
  BY <1>18 DEF Connect, Go
<1>19. ASSUME NEW c \in Conns, Refuse(c) PROVE LateCounted'
  BY <1>19 DEF Refuse, Go
<1>20. ASSUME NEW c \in Conns, Accept(c) PROVE LateCounted'
  BY <1>20 DEF Accept, Go
<1>21. ASSUME NEW c \in Conns, Reap(c) PROVE LateCounted'
  BY <1>21 DEF Reap
<1>22. ASSUME NEW c \in Conns, Abort(c) PROVE LateCounted'
  BY <1>22 DEF Abort, End, Running
<1>23. CASE AcceptFails
  BY <1>23 DEF AcceptFails
<1>24. CASE Interrupt
  BY <1>24 DEF Interrupt
<1>25. CASE Break
  BY <1>25 DEF Break
<1>26. CASE DrainTimeout
  BY <1>26 DEF DrainTimeout
<1>27. CASE Stopped
  BY <1>27 DEF Stopped, Drained
<1>28. CASE UNCHANGED vars
  BY <1>28 DEF vars
<1>29. QED
  BY <1>1, <1>2, <1>3, <1>4, <1>5, <1>6, <1>7, <1>8, <1>9, <1>10, <1>11, <1>12, <1>13, <1>14,
     <1>15, <1>16, <1>17, <1>18, <1>19, <1>20, <1>21, <1>22, <1>23, <1>24, <1>25, <1>26, <1>27, <1>28
  DEF Next, ServerStep, Timed, Untimed, SocketStep

\* Every step keeps the header and the fate of a response in agreement.
LEMMA FateAgreesStep ==
    ASSUME IInv, [Next]_vars
    PROVE  FateAgrees'
<1> USE RequestsAssumption, MaxRequestsAssumption
    DEF IInv, TypeOK, FateAgrees, NoReply, Waiting, serverVars, connVars, countVars
<1>1. ASSUME NEW c \in Conns, HandshakeFails(c) PROVE FateAgrees'
  BY <1>1 DEF HandshakeFails, End
<1>2. ASSUME NEW c \in Conns, Poll(c) PROVE FateAgrees'
  BY <1>2 DEF Poll, Go, SignalUnseen
<1>3. ASSUME NEW c \in Conns, ReadTimeout(c) PROVE FateAgrees'
  BY <1>3 DEF ReadTimeout, End
<1>4. ASSUME NEW c \in Conns, Rejected(c) PROVE FateAgrees'
  BY <1>4 DEF Rejected, End
<1>5. ASSUME NEW c \in Conns, ObserveShutdown(c) PROVE FateAgrees'
  BY <1>5 DEF ObserveShutdown
<1>6. ASSUME NEW c \in Conns, Leave(c) PROVE FateAgrees'
  BY <1>6 DEF Leave, End
<1>7. ASSUME NEW c \in Conns, HandlerTimeout(c) PROVE FateAgrees'
  BY <1>7 DEF HandlerTimeout, Respond, Go, ReplyTo
<1>8. ASSUME NEW c \in Conns, WriteFails(c) PROVE FateAgrees'
  BY <1>8 DEF WriteFails, End
<1>9. ASSUME NEW c \in Conns, Close(c) PROVE FateAgrees'
  BY <1>9 DEF Close, End
<1>10. ASSUME NEW c \in Conns, Handshake(c) PROVE FateAgrees'
  BY <1>10 DEF Handshake, Go
<1>11. ASSUME NEW c \in Conns, ReadRequest(c) PROVE FateAgrees'
  BY <1>11 DEF ReadRequest, Go
<1>12. ASSUME NEW c \in Conns, PeerClosed(c) PROVE FateAgrees'
  BY <1>12 DEF PeerClosed, End
<1>13. ASSUME NEW c \in Conns, BadRequest(c) PROVE FateAgrees'
  BY <1>13 DEF BadRequest, Go
<1>14. ASSUME NEW c \in Conns, HandlerDone(c) PROVE FateAgrees'
  <2>1. CASE Respond(c, TRUE, "upgrade")
    BY <2>1 DEF Respond, Go, ReplyTo
  <2>2. ASSUME NEW own \in {"none", "close"}, Respond(c, FALSE, own)
        PROVE  FateAgrees'
    BY <2>2 DEF Respond, Go, ReplyTo
  <2>3. QED
    BY <1>14, <2>1, <2>2 DEF HandlerDone
<1>15. ASSUME NEW c \in Conns, HandlerPanic(c) PROVE FateAgrees'
  BY <1>15 DEF HandlerPanic, End
<1>16. ASSUME NEW c \in Conns, WriteDone(c) PROVE FateAgrees'
  BY <1>16 DEF WriteDone, Go, AfterWrite
<1>17. ASSUME NEW c \in Conns, WebsocketEnds(c) PROVE FateAgrees'
  BY <1>17 DEF WebsocketEnds, End
<1>18. ASSUME NEW c \in Conns, Connect(c) PROVE FateAgrees'
  BY <1>18 DEF Connect, Go
<1>19. ASSUME NEW c \in Conns, Refuse(c) PROVE FateAgrees'
  BY <1>19 DEF Refuse, Go
<1>20. ASSUME NEW c \in Conns, Accept(c) PROVE FateAgrees'
  BY <1>20 DEF Accept, Go
<1>21. ASSUME NEW c \in Conns, Reap(c) PROVE FateAgrees'
  BY <1>21 DEF Reap
<1>22. ASSUME NEW c \in Conns, Abort(c) PROVE FateAgrees'
  BY <1>22 DEF Abort, End, Running
<1>23. CASE AcceptFails
  BY <1>23 DEF AcceptFails
<1>24. CASE Interrupt
  BY <1>24 DEF Interrupt
<1>25. CASE Break
  BY <1>25 DEF Break
<1>26. CASE DrainTimeout
  BY <1>26 DEF DrainTimeout
<1>27. CASE Stopped
  BY <1>27 DEF Stopped, Drained
<1>28. CASE UNCHANGED vars
  BY <1>28 DEF vars
<1>29. QED
  BY <1>1, <1>2, <1>3, <1>4, <1>5, <1>6, <1>7, <1>8, <1>9, <1>10, <1>11, <1>12, <1>13, <1>14,
     <1>15, <1>16, <1>17, <1>18, <1>19, <1>20, <1>21, <1>22, <1>23, <1>24, <1>25, <1>26, <1>27, <1>28
  DEF Next, ServerStep, Timed, Untimed, SocketStep

-----------------------------------------------------------------------------

\* The strengthening holds in the initial state.
LEMMA InitIInv == Init => IInv
<1> SUFFICES ASSUME Init PROVE IInv
  OBVIOUS
<1>1. TypeOK
  <2>1. NoReply \in Reply
    BY DEF NoReply, Reply, Header
  <2>2. 0 \in 0..MaxRequests
    BY MaxRequestsAssumption
  <2>3. QED
    BY <2>1, <2>2 DEF Init, TypeOK, Phases
<1>2. TasksOwned
  BY DEF Init, TasksOwned, Running, Waiting
<1>3. RequestsCounted
  BY DEF Init, RequestsCounted
<1>4. LateCounted
  BY DEF Init, LateCounted
<1>5. FateAgrees
  BY DEF Init, FateAgrees, NoReply
<1>6. QED
  BY <1>1, <1>2, <1>3, <1>4, <1>5 DEF IInv

\* The strengthening is an invariant of the server.
THEOREM Invariance == Spec => []IInv
<1>1. IInv /\ [Next]_vars => IInv'
  BY TypeOKStep, TasksOwnedStep, RequestsCountedStep, LateCountedStep, FateAgreesStep
  DEF IInv
<1>2. QED
  BY InitIInv, <1>1, PTL DEF Spec

\* The types of the server's state, and its counters within their bounds.
THEOREM Typed == Spec => []TypeOK
<1>1. IInv => TypeOK
  BY DEF IInv
<1>2. QED
  BY Invariance, <1>1, PTL

\* serve returns Ok only when no connection task is left running.
THEOREM OrphanFree == Spec => []NoOrphanTask
<1>1. IInv => NoOrphanTask
  BY DEF IInv, TasksOwned, NoOrphanTask
<1>2. QED
  BY Invariance, <1>1, PTL

\* The response that ends the loop says "Connection: close", and any other that
\* says so was given that header by its handler.
THEOREM CloseAnnounced == Spec => []CloseIsAnnounced
<1>1. IInv => CloseIsAnnounced
  BY DEF IInv, FateAgrees, CloseIsAnnounced, Running
<1>2. QED
  BY Invariance, <1>1, PTL

\* A task that returns Ok leaves no request unanswered.
THEOREM AnswersAll == Spec => []GracefulEndAnswersAll
<1>1. IInv => GracefulEndAnswersAll
  BY DEF IInv, RequestsCounted, GracefulEndAnswersAll
<1>2. QED
  BY Invariance, <1>1, PTL

\* A connection reads at most one request after the signal.
THEOREM OneLateRequest == Spec => []AtMostOneLateRequest
<1>1. IInv => AtMostOneLateRequest
  BY DEF IInv, TypeOK, LateCounted, AtMostOneLateRequest
<1>2. QED
  BY Invariance, <1>1, PTL

-----------------------------------------------------------------------------

\* The connection as GracefulDrain sees it.
View == [c \in Conns |-> ConnOf(phase[c])]

\* A step that moves one connection moves its view alone.
LEMMA ViewMoves ==
    ASSUME TypeOK, NEW c \in Conns, NEW p \in Phases,
           phase' = [phase EXCEPT ![c] = p]
    PROVE  View' = [View EXCEPT ![c] = ConnOf(p)]
BY DEF View, TypeOK

\* How the phases look from outside.
LEMMA ConnOfPhase ==
    /\ \A p \in Waiting : ConnOf(p) = "none"
    /\ ConnOf("handle") = "busy" /\ ConnOf("write") = "busy"
    /\ ConnOf("done") = "gone"
    /\ \A p \in {"handshake", "read", "poll", "reject", "closing", "leaving", "websocket"} :
          ConnOf(p) = "idle"
BY DEF ConnOf, Waiting, Phases

\* A step of one connection between phases that look alike changes nothing.
LEMMA Stutters ==
    ASSUME TypeOK, NEW c \in Conns, NEW p \in Phases,
           phase' = [phase EXCEPT ![c] = p], ConnOf(p) = ConnOf(phase[c]),
           UNCHANGED <<server, late>>
    PROVE  UNCHANGED Abstract!vars
<1>1. View' = View
  BY ViewMoves DEF View
<1>2. QED
  BY <1>1 DEF View, Abstract!vars

\* The end of a running task is a departure.
LEMMA Departs ==
    ASSUME TypeOK, NEW c \in Conns, Running(c),
           phase' = [phase EXCEPT ![c] = "done"],
           UNCHANGED <<server, late>>
    PROVE  Abstract!Leave(c)
<1>1. View' = [View EXCEPT ![c] = "gone"]
  BY ViewMoves, ConnOfPhase DEF Phases
<1>2. View[c] \in {"idle", "busy"}
  BY ConnOfPhase DEF View, TypeOK, Running, Phases, Waiting
<1>3. QED
  BY <1>1, <1>2 DEF View, Abstract!Leave

\* A step as GracefulDrain sees it.
AbstractStep == [Abstract!Next]_Abstract!vars

\* Every step of the server is a step of GracefulDrain or leaves it alone.
LEMMA Simulates ==
    ASSUME IInv, [Next]_vars
    PROVE  AbstractStep
<1> USE DEF AbstractStep, IInv, serverVars, connVars, countVars
<1>1. ASSUME NEW c \in Conns, HandshakeFails(c) PROVE AbstractStep
  BY <1>1, Departs DEF HandshakeFails, End, Running, Waiting, Abstract!Next
<1>2. ASSUME NEW c \in Conns, ReadTimeout(c) PROVE AbstractStep
  BY <1>2, Departs DEF ReadTimeout, End, Running, Waiting, Abstract!Next
<1>3. ASSUME NEW c \in Conns, PeerClosed(c) PROVE AbstractStep
  BY <1>3, Departs DEF PeerClosed, End, Running, Waiting, Abstract!Next
<1>4. ASSUME NEW c \in Conns, Rejected(c) PROVE AbstractStep
  BY <1>4, Departs DEF Rejected, End, Running, Waiting, Abstract!Next
<1>5. ASSUME NEW c \in Conns, Leave(c) PROVE AbstractStep
  BY <1>5, Departs DEF Leave, End, Running, Waiting, Abstract!Next
<1>6. ASSUME NEW c \in Conns, HandlerPanic(c) PROVE AbstractStep
  BY <1>6, Departs DEF HandlerPanic, End, Running, Waiting, Abstract!Next
<1>7. ASSUME NEW c \in Conns, WriteFails(c) PROVE AbstractStep
  BY <1>7, Departs DEF WriteFails, End, Running, Waiting, Abstract!Next
<1>8. ASSUME NEW c \in Conns, Close(c) PROVE AbstractStep
  BY <1>8, Departs DEF Close, End, Running, Waiting, Abstract!Next
<1>9. ASSUME NEW c \in Conns, WebsocketEnds(c) PROVE AbstractStep
  BY <1>9, Departs DEF WebsocketEnds, End, Running, Waiting, Abstract!Next
<1>10. ASSUME NEW c \in Conns, Abort(c) PROVE AbstractStep
  BY <1>10, Departs DEF Abort, End, Running, Waiting, Abstract!Next
<1>11. ASSUME NEW c \in Conns, Handshake(c) PROVE AbstractStep
  <2>1. "read" \in Phases /\ phase' = [phase EXCEPT ![c] = "read"]
    BY <1>11 DEF Handshake, Go, Phases
  <2>2. ConnOf(phase[c]) = "idle" /\ ConnOf("read") = "idle"
    BY <1>11, ConnOfPhase DEF Handshake, Go
  <2>3. UNCHANGED <<server, late>>
    BY <1>11 DEF Handshake
  <2>4. QED
    BY <2>1, <2>2, <2>3, Stutters
<1>12. ASSUME NEW c \in Conns, Poll(c) PROVE AbstractStep
  <2>1. "poll" \in Phases /\ phase' = [phase EXCEPT ![c] = "poll"]
    BY <1>12 DEF Poll, Go, Phases
  <2>2. ConnOf(phase[c]) = "idle" /\ ConnOf("poll") = "idle"
    BY <1>12, ConnOfPhase DEF Poll, Go
  <2>3. UNCHANGED <<server, late>>
    BY <1>12 DEF Poll
  <2>4. QED
    BY <2>1, <2>2, <2>3, Stutters
<1>13. ASSUME NEW c \in Conns, BadRequest(c) PROVE AbstractStep
  <2>1. "reject" \in Phases /\ phase' = [phase EXCEPT ![c] = "reject"]
    BY <1>13 DEF BadRequest, Go, Phases
  <2>2. ConnOf(phase[c]) = "idle" /\ ConnOf("reject") = "idle"
    BY <1>13, ConnOfPhase DEF BadRequest, Go
  <2>3. UNCHANGED <<server, late>>
    BY <1>13 DEF BadRequest
  <2>4. QED
    BY <2>1, <2>2, <2>3, Stutters
<1>14. ASSUME NEW c \in Conns, HandlerTimeout(c) PROVE AbstractStep
  BY <1>14, Stutters, ConnOfPhase DEF HandlerTimeout, Respond, Go, Phases, Waiting
<1>15. ASSUME NEW c \in Conns, HandlerDone(c) PROVE AbstractStep
  <2>1. "write" \in Phases /\ phase' = [phase EXCEPT ![c] = "write"]
    BY <1>15 DEF HandlerDone, Respond, Go, Phases
  <2>2. ConnOf(phase[c]) = "busy" /\ ConnOf("write") = "busy"
    BY <1>15, ConnOfPhase DEF HandlerDone, Respond, Go
  <2>3. UNCHANGED <<server, late>>
    BY <1>15 DEF HandlerDone, Respond
  <2>4. QED
    BY <2>1, <2>2, <2>3, Stutters
<1>16. ASSUME NEW c \in Conns, Connect(c) PROVE AbstractStep
  BY <1>16, Stutters, ConnOfPhase DEF Connect, Go, Phases, Waiting
<1>17. ASSUME NEW c \in Conns, Refuse(c) PROVE AbstractStep
  BY <1>17, Stutters, ConnOfPhase DEF Refuse, Go, Phases, Waiting
<1>18. ASSUME NEW c \in Conns, ObserveShutdown(c) PROVE AbstractStep
  <2>1. "leaving" \in Phases /\ phase' = [phase EXCEPT ![c] = "leaving"]
    BY <1>18 DEF ObserveShutdown, Phases
  <2>2. ConnOf(phase[c]) = "idle" /\ ConnOf("leaving") = "idle"
    BY <1>18, ConnOfPhase DEF ObserveShutdown
  <2>3. UNCHANGED <<server, late>>
    BY <1>18 DEF ObserveShutdown
  <2>4. QED
    BY <2>1, <2>2, <2>3, Stutters
<1>19. ASSUME NEW c \in Conns, Reap(c) PROVE AbstractStep
  BY <1>19 DEF Reap, Abstract!vars
<1>20. ASSUME NEW c \in Conns, ReadRequest(c) PROVE AbstractStep
  <2>1. View[c] = "idle" /\ View' = [View EXCEPT ![c] = "busy"]
    <3>1. phase[c] = "poll" /\ phase' = [phase EXCEPT ![c] = "handle"]
      BY <1>20 DEF ReadRequest, Go
    <3>2. View' = [View EXCEPT ![c] = ConnOf("handle")]
      BY <3>1, ViewMoves DEF Phases
    <3>3. QED
      BY <3>1, <3>2, ConnOfPhase DEF View
  <2>2. CASE signal = "none"
    <3>1. server = "accepting"
      BY <2>2 DEF LateCounted
    <3>2. Abstract!Begin(c)
      BY <1>20, <2>1, <2>2, <3>1 DEF ReadRequest, Abstract!Begin, Abstract!Move, View, ServiceOf
    <3>3. QED
      BY <3>2 DEF Abstract!Next
  <2>3. CASE signal # "none"
    <3>1. ServiceOf[server] # "serving" /\ late[c] = 0
      BY <1>20, <2>3 DEF LateCounted, TypeOK, ReadRequest, Go, ServiceOf
    <3>2. late' = [late EXCEPT ![c] = 1]
      BY <1>20, <2>3, <3>1 DEF ReadRequest, TypeOK
    <3>3. Abstract!BeginLate(c)
      BY <1>20, <2>1, <3>1, <3>2 DEF ReadRequest, Abstract!BeginLate, Abstract!Move, View
    <3>4. QED
      BY <3>3 DEF Abstract!Next
  <2>4. QED
    BY <2>2, <2>3
<1>21. ASSUME NEW c \in Conns, WriteDone(c) PROVE AbstractStep
  <2> DEFINE p == AfterWrite(reply[c])
  <2>1. p \in Phases /\ ConnOf(p) = "idle"
    BY ConnOfPhase DEF AfterWrite, Phases, Waiting
  <2>2. View[c] = "busy" /\ View' = [View EXCEPT ![c] = "idle"]
    BY <1>21, <2>1, ViewMoves, ConnOfPhase DEF WriteDone, Go, View
  <2>3. Abstract!Answer(c)
    BY <1>21, <2>2 DEF WriteDone, Abstract!Answer, Abstract!Move, View
  <2>4. QED
    BY <2>3 DEF Abstract!Next
<1>22. ASSUME NEW c \in Conns, Accept(c) PROVE AbstractStep
  <2> DEFINE p == IF Tls THEN "handshake" ELSE "read"
  <2>1. View[c] = "none" /\ View' = [View EXCEPT ![c] = "idle"]
    <3>1. phase[c] = "backlog" /\ phase' = [phase EXCEPT ![c] = p]
      BY <1>22 DEF Accept, Go
    <3>2. p \in Phases /\ ConnOf(p) = "idle"
      BY ConnOfPhase DEF Phases
    <3> HIDE DEF p
    <3>3. View' = [View EXCEPT ![c] = ConnOf(p)]
      BY <3>1, <3>2, ViewMoves
    <3>4. QED
      BY <3>1, <3>2, <3>3, ConnOfPhase DEF View, Waiting
  <2>2. Abstract!Open(c)
    BY <1>22, <2>1 DEF Accept, Abstract!Open, Abstract!Move, View, ServiceOf
  <2>3. QED
    BY <2>2 DEF Abstract!Next
<1>23. CASE AcceptFails
  BY <1>23 DEF AcceptFails, Abstract!Next, Abstract!Fail, ServiceOf
<1>24. CASE Interrupt
  BY <1>24 DEF Interrupt, Abstract!vars
<1>25. CASE Break
  BY <1>25 DEF Break, Abstract!Next, Abstract!Stop, ServiceOf
<1>26. CASE DrainTimeout
  BY <1>26 DEF DrainTimeout, Abstract!vars, ServiceOf
<1>27. CASE Stopped
  <2>1. \A c \in Conns : ~Running(c)
    BY <1>27 DEF Stopped, Drained, TasksOwned
  <2>2. Abstract!Live = {}
    BY <2>1, ConnOfPhase DEF Abstract!Live, Running, TypeOK
  <2>3. Abstract!Over
    BY <1>27, <2>2 DEF Stopped, Abstract!Over, ServiceOf
  <2>4. QED
    BY <2>3 DEF Abstract!Next
<1>28. CASE UNCHANGED vars
  BY <1>28 DEF vars, Abstract!vars
<1>29. QED
  BY <1>1, <1>2, <1>3, <1>4, <1>5, <1>6, <1>7, <1>8, <1>9, <1>10, <1>11, <1>12, <1>13, <1>14,
     <1>15, <1>16, <1>17, <1>18, <1>19, <1>20, <1>21, <1>22, <1>23, <1>24, <1>25, <1>26, <1>27, <1>28
  DEF Next, ServerStep, Timed, Untimed, SocketStep

\* The server, plain or with TLS, implements GracefulDrain.
THEOREM ImplementsGracefulDrain == Spec => IsGracefulDrain
<1>1. Init => Abstract!Init
  BY DEF Init, Abstract!Init, ServiceOf, ConnOf, Waiting
<1>2. QED
  BY <1>1, Invariance, Simulates, PTL DEF AbstractStep, Spec, Abstract!Spec, IsGracefulDrain
=============================================================================
