------------------------------- MODULE Server -------------------------------
(***************************************************************************)
(* The life of the native HTTP server of src/src/server.rs: the accept     *)
(* loop of `serve` and `serve_tls`, the connection task                    *)
(* `serve_connection_with_shutdown` that every accepted socket runs, the   *)
(* watch channel that carries the shutdown signal between them and the     *)
(* JoinSet that owns the tasks.                                            *)
(*                                                                         *)
(* A connection's task is cut at its await points: each `phase` is one of  *)
(* them, and the actions of a connection are what may end that await.      *)
(* Time is abstract: a timeout may fire whenever the await it bounds is    *)
(* pending.  The bytes of requests and responses are abstract too; of a    *)
(* request only the version and the tokens of its Connection header are    *)
(* kept, because they decide whether the connection goes on.               *)
(***************************************************************************)
EXTENDS Naturals, FiniteSets

CONSTANTS
    Conns,              \* sockets that clients may open
    Tls,                \* TRUE for serve_tls, FALSE for serve
    Requests,           \* the requests clients may send
    MaxRequests         \* bound: requests one client sends on a connection

Request == [version : {"1.0", "1.1"},
            tokens  : SUBSET {"close", "keep-alive", "upgrade"}]

ASSUME TlsAssumption == Tls \in BOOLEAN
ASSUME RequestsAssumption == Requests \subseteq Request
ASSUME MaxRequestsAssumption == MaxRequests \in Nat

VARIABLES
    server,             \* where serve / serve_tls stands
    interrupt,          \* TRUE once the shutdown future is ready
    signal,             \* the watch channel: value and whether its sender lives
    tasks,              \* the JoinSet: tasks not reaped yet
    phase,              \* the await point of each connection
    request,            \* the request being handled
    reply,              \* the last response of the connection, while its task runs
    outcome,            \* how the task of the connection ended
    received,           \* requests read on a connection
    answered,           \* responses written in full on a connection
    late                \* requests read after the signal

serverVars == <<server, interrupt, signal, tasks>>
countVars  == <<received, answered, late>>
connVars   == <<phase, request, reply, outcome, countVars>>
vars       == <<serverVars, connVars>>

NoRequest == [version |-> "none", tokens |-> {}]
Header    == {"none", "close", "keep-alive", "upgrade"}
Reply     == [header : Header, own : Header, websocket : BOOLEAN, last : BOOLEAN]
NoReply   == [header |-> "none", own |-> "none",
              websocket |-> FALSE, last |-> FALSE]

Phases == {"absent", "backlog", "refused",                 \* not a task yet
           "handshake", "read", "poll", "handle", "write",
           "reject", "closing", "leaving", "websocket",    \* the task runs
           "done"}

Waiting == {"absent", "backlog", "refused"}
Running(c) == phase[c] \notin Waiting \cup {"done"}

TypeOK ==
    /\ server \in {"accepting", "draining", "aborting", "stopped", "failed"}
    /\ interrupt \in BOOLEAN
    /\ signal \in {"none", "raised", "dropped"}
    /\ tasks \subseteq Conns
    /\ phase \in [Conns -> Phases]
    /\ request \in [Conns -> Requests \cup {NoRequest}]
    /\ reply \in [Conns -> Reply]
    /\ outcome \in [Conns -> {"none", "ok", "error", "aborted", "panicked"}]
    /\ received \in [Conns -> 0..MaxRequests]
    /\ answered \in [Conns -> 0..MaxRequests]
    /\ late \in [Conns -> 0..MaxRequests]

Init ==
    /\ server = "accepting"
    /\ interrupt = FALSE
    /\ signal = "none"
    /\ tasks = {}
    /\ phase = [c \in Conns |-> "absent"]
    /\ request = [c \in Conns |-> NoRequest]
    /\ reply = [c \in Conns |-> NoReply]
    /\ outcome = [c \in Conns |-> "none"]
    /\ received = [c \in Conns |-> 0]
    /\ answered = [c \in Conns |-> 0]
    /\ late = [c \in Conns |-> 0]

-----------------------------------------------------------------------------
(* What a response says of the connection. *)

\* request_keep_alive.
KeepAlive(q) ==
    IF q.version = "1.1" THEN "close" \notin q.tokens
                         ELSE "keep-alive" \in q.tokens

\* Mutant: the header follows the client's wish only.
ReplyTo_HeaderIgnoresDrain(q, websocket, own, draining) ==
    [websocket |-> websocket,
     own       |-> own,
     last      |-> ~websocket /\ (~KeepAlive(q) \/ draining),
     header    |-> IF KeepAlive(q) THEN own ELSE "close"]

\* The Connection header and the fate of the connection, decided together
\* from one look at the signal once the handler is done.  The header that the
\* response brings along, `own`, is read by nobody and stays unless overwritten.
ReplyTo(q, websocket, own, draining) ==
    LET last == ~websocket /\ (~KeepAlive(q) \/ draining)
    IN  [websocket |-> websocket,
         own       |-> own,
         last      |-> last,
         header    |-> IF last THEN "close"
                       ELSE IF q.version = "1.0" THEN "keep-alive" ELSE own]

-----------------------------------------------------------------------------
(* The connection task. *)

Go(c, from, to) ==
    /\ phase[c] = from
    /\ phase' = [phase EXCEPT ![c] = to]

\* The future of the task returns; the JoinSet still holds it.
End(c, from, result) ==
    /\ phase[c] \in from
    /\ phase' = [phase EXCEPT ![c] = "done"]
    /\ outcome' = [outcome EXCEPT ![c] = result]
    /\ request' = [request EXCEPT ![c] = NoRequest]
    /\ reply' = [reply EXCEPT ![c] = NoReply]

\* The TLS handshake, under the read timeout; it does not watch the signal.
Handshake(c) ==
    /\ Go(c, "handshake", "read")
    /\ UNCHANGED <<serverVars, request, reply, outcome, countVars>>

HandshakeFails(c) ==
    /\ End(c, {"handshake"}, "ok")
    /\ UNCHANGED <<serverVars, countVars>>

\* Mutant: the select is not biased to the signal.
SignalUnseen_Unbiased == TRUE

\* The biased select polls shutdown.changed() first: the reader is polled
\* only if no signal was seen.
SignalUnseen == signal = "none"

Poll(c) ==
    /\ SignalUnseen
    /\ Go(c, "read", "poll")
    /\ UNCHANGED <<serverVars, request, reply, outcome, countVars>>

\* The signal may be raised between the two polls of one select, so a
\* request can still be taken after it.
ReadRequest(c) ==
    /\ received[c] < MaxRequests
    /\ Go(c, "poll", "handle")
    /\ \E q \in Requests : request' = [request EXCEPT ![c] = q]
    /\ received' = [received EXCEPT ![c] = @ + 1]
    /\ late' = IF signal = "none" THEN late ELSE [late EXCEPT ![c] = @ + 1]
    /\ UNCHANGED <<serverVars, reply, outcome, answered>>

ReadTimeout(c) ==
    /\ End(c, {"poll"}, "error")
    /\ UNCHANGED <<serverVars, countVars>>

PeerClosed(c) ==
    /\ End(c, {"poll"}, "ok")
    /\ UNCHANGED <<serverVars, countVars>>

BadRequest(c) ==
    /\ Go(c, "poll", "reject")
    /\ UNCHANGED <<serverVars, request, reply, outcome, countVars>>

\* The error response is written, or that fails or times out: Err either way.
Rejected(c) ==
    /\ End(c, {"reject"}, "error")
    /\ UNCHANGED <<serverVars, countVars>>

\* Mutant: the signal also interrupts the handler.
ObserveShutdown_InHandler(c) ==
    /\ signal # "none"
    /\ phase[c] \in {"read", "poll", "handle"}
    /\ phase' = [phase EXCEPT ![c] = "leaving"]
    /\ UNCHANGED <<serverVars, request, reply, outcome, countVars>>

ObserveShutdown(c) ==
    /\ signal # "none"
    /\ phase[c] \in {"read", "poll"}
    /\ phase' = [phase EXCEPT ![c] = "leaving"]
    /\ UNCHANGED <<serverVars, request, reply, outcome, countVars>>

\* stream.shutdown() under the write timeout, its result ignored.
Leave(c) ==
    /\ End(c, {"leaving"}, "ok")
    /\ UNCHANGED <<serverVars, countVars>>

Respond(c, websocket, own) ==
    /\ Go(c, "handle", "write")
    /\ reply' = [reply EXCEPT ![c] =
                    ReplyTo(request[c], websocket, own, signal = "raised")]
    /\ UNCHANGED <<serverVars, request, outcome, countVars>>

\* The dispatcher answers an upgrade request with a session, and a header that
\* says so, or refuses it; any other response may bring any Connection header,
\* of which "close" stands apart.
HandlerDone(c) ==
    \/ "upgrade" \in request[c].tokens /\ Respond(c, TRUE, "upgrade")
    \/ \E own \in {"none", "close"} : Respond(c, FALSE, own)

\* Mutant: no deadline for the handler.
HandlerTimeout_None(c) == FALSE

\* The handler's future is dropped and answered with 503 "request timeout".
HandlerTimeout(c) == Respond(c, FALSE, "none")

HandlerPanic(c) ==
    /\ End(c, {"handle"}, "panicked")
    /\ UNCHANGED <<serverVars, countVars>>

\* Where the task goes when the response is on the wire.
AfterWrite(r) ==
    IF r.websocket THEN "websocket" ELSE IF r.last THEN "closing" ELSE "read"

\* Mutant: a response is counted and the loop writes it again.
WriteDone_Again(c) ==
    /\ phase[c] = "write"
    /\ answered' = [answered EXCEPT ![c] = @ + 1]
    /\ UNCHANGED <<serverVars, phase, request, reply, outcome, received, late>>

WriteDone(c) ==
    /\ Go(c, "write", AfterWrite(reply[c]))
    /\ request' = [request EXCEPT ![c] = NoRequest]
    /\ answered' = [answered EXCEPT ![c] = @ + 1]
    /\ UNCHANGED <<serverVars, reply, outcome, received, late>>

\* The write fails or times out.
WriteFails(c) ==
    /\ End(c, {"write"}, "error")
    /\ UNCHANGED <<serverVars, countVars>>

\* The orderly end of the stream after the last response may fail as well.
Close(c) ==
    /\ \E result \in {"ok", "error"} : End(c, {"closing"}, result)
    /\ UNCHANGED <<serverVars, countVars>>

\* websocket_loop returns; it never looks at the signal.
WebsocketEnds(c) ==
    /\ \E result \in {"ok", "error"} : End(c, {"websocket"}, result)
    /\ UNCHANGED <<serverVars, countVars>>

-----------------------------------------------------------------------------
(* The accept loop, the drain and the abort. *)

\* A client connects: the kernel queues the socket while the listener lives.
Connect(c) ==
    /\ server \notin {"stopped", "failed"}
    /\ Go(c, "absent", "backlog")
    /\ UNCHANGED <<serverVars, request, reply, outcome, countVars>>

\* The listener is gone with the queue.
Refuse(c) ==
    /\ server \in {"stopped", "failed"}
    /\ Go(c, "backlog", "refused")
    /\ UNCHANGED <<serverVars, request, reply, outcome, countVars>>

\* Mutant: sockets queued before the signal are still served.
Accept_WhileDraining(c) ==
    /\ server \in {"accepting", "draining"}
    /\ Go(c, "backlog", IF Tls THEN "handshake" ELSE "read")
    /\ tasks' = tasks \cup {c}
    /\ UNCHANGED <<server, interrupt, signal, request, reply, outcome, countVars>>

Accept(c) ==
    /\ server = "accepting"
    /\ Go(c, "backlog", IF Tls THEN "handshake" ELSE "read")
    /\ tasks' = tasks \cup {c}
    /\ UNCHANGED <<server, interrupt, signal, request, reply, outcome, countVars>>

\* `accepted?`: the function returns, dropping the sender and the JoinSet.
AcceptFails ==
    /\ server = "accepting"
    /\ server' = "failed"
    /\ signal' = "dropped"
    /\ UNCHANGED <<interrupt, tasks, connVars>>

Interrupt ==
    /\ ~interrupt
    /\ interrupt' = TRUE
    /\ UNCHANGED <<server, signal, tasks, connVars>>

\* The loop breaks and sends the signal.
Break ==
    /\ server = "accepting"
    /\ interrupt
    /\ server' = "draining"
    /\ signal' = "raised"
    /\ UNCHANGED <<interrupt, tasks, connVars>>

\* join_next yields a finished task, in the accept loop, the drain or shutdown().
Reap(c) ==
    /\ server \in {"accepting", "draining", "aborting"}
    /\ c \in tasks
    /\ phase[c] = "done"
    /\ tasks' = tasks \ {c}
    /\ UNCHANGED <<server, interrupt, signal, connVars>>

\* Mutant: the drain has no deadline.
DrainTimeout_None == FALSE

DrainTimeout ==
    /\ server = "draining"
    /\ tasks # {}
    /\ server' = "aborting"
    /\ UNCHANGED <<interrupt, signal, tasks, connVars>>

\* abort_all, by shutdown() or by the drop of the JoinSet: a task ends at the
\* next await it reaches, and may go on until then.
Abort(c) ==
    /\ server \in {"aborting", "failed"}
    /\ Running(c)
    /\ End(c, {phase[c]}, "aborted")
    /\ UNCHANGED <<serverVars, countVars>>

\* Mutant: idle connections do not count.
Drained_Idle == \A c \in tasks : phase[c] \notin {"handle", "write"}

\* join_next has yielded None: serve returns Ok.
Drained == tasks = {}

Stopped ==
    /\ server \in {"draining", "aborting"}
    /\ Drained
    /\ server' = "stopped"
    /\ UNCHANGED <<interrupt, signal, tasks, connVars>>

-----------------------------------------------------------------------------

\* Steps bounded by a timeout, or that wait for nothing but the scheduler.
Timed(c) ==
    \/ HandshakeFails(c)
    \/ Poll(c)
    \/ ReadTimeout(c)
    \/ Rejected(c)
    \/ ObserveShutdown(c)
    \/ Leave(c)
    \/ HandlerTimeout(c)
    \/ WriteFails(c)
    \/ Close(c)

\* Steps that need the client or the handler.
Untimed(c) ==
    \/ Handshake(c)
    \/ ReadRequest(c)
    \/ PeerClosed(c)
    \/ BadRequest(c)
    \/ HandlerDone(c)
    \/ HandlerPanic(c)
    \/ WriteDone(c)
    \/ WebsocketEnds(c)

ServerStep ==
    \/ AcceptFails
    \/ Interrupt
    \/ Break
    \/ DrainTimeout
    \/ Stopped

SocketStep(c) == Connect(c) \/ Refuse(c) \/ Accept(c) \/ Reap(c) \/ Abort(c)

Next ==
    \/ ServerStep
    \/ \E c \in Conns : Timed(c) \/ Untimed(c) \/ SocketStep(c)

Spec == Init /\ [][Next]_vars

\* The loop of serve is polled again whenever one of its branches is ready,
\* and the drain has a deadline; abort is delivered at the next await.
ServerFairness ==
    /\ WF_vars(Break)
    /\ WF_vars(DrainTimeout)
    /\ WF_vars(Stopped)
    /\ \A c \in Conns : WF_vars(Reap(c)) /\ WF_vars(Abort(c))

\* Every await of a connection but websocket_loop is under a timeout.
TimerFairness == \A c \in Conns : WF_vars(Timed(c))

-----------------------------------------------------------------------------
(* The abstract server that this one implements. *)

ServiceOf == [accepting |-> "serving", draining |-> "stopping",
              aborting |-> "stopping", stopped |-> "over",
              failed |-> "failed"]

ConnOf(p) ==
    CASE p \in Waiting           -> "none"
      [] p \in {"handle", "write"} -> "busy"
      [] p = "done"              -> "gone"
      [] OTHER                   -> "idle"

Abstract == INSTANCE GracefulDrain WITH
    service <- ServiceOf[server],
    conn    <- [c \in Conns |-> ConnOf(phase[c])],
    late    <- late

\* Every behaviour of the server, seen through ServiceOf and ConnOf, is one of
\* GracefulDrain: no connection is opened after the signal, each begins at
\* most one request after it, and Ok is returned when none is left.
IsGracefulDrain == Abstract!Spec

-----------------------------------------------------------------------------
(* What the server promises. *)

\* When serve has returned Ok no connection task is left behind: the drain
\* waits for all of them and the abort is awaited (server.rs:584-592).
NoOrphanTask == server = "stopped" => \A c \in Conns : ~Running(c)

\* A response after which the loop ends its connection has said "Connection:
\* close", and one that says so without being the last is a handler's own
\* doing: the header and the end of the loop use the same look at the signal,
\* while the signal may be raised before, between and after them
\* (server.rs:514-544).  An idle connection is ended by the signal without
\* notice, and nobody reads the header that a handler has set.
CloseIsAnnounced ==
    \A c \in Conns : Running(c) /\ phase[c] # "write" =>
        /\ phase[c] = "closing" => reply[c].header = "close"
        /\ reply[c].header = "close" => phase[c] = "closing" \/ reply[c].own = "close"

\* A task that returns Ok has answered every request it read, whenever the
\* signal came: shutdown drains responses in flight (today.md:14).
GracefulEndAnswersAll ==
    \A c \in Conns : outcome[c] = "ok" => answered[c] = received[c]

\* At most one request per connection is read after the signal: the one that
\* wins the race inside a single select (server.rs:478-502).
AtMostOneLateRequest == \A c \in Conns : late[c] <= 1

\* Once interrupted, the server ends, whatever clients and handlers do.
ShutdownCompletes ==
    ServerFairness => (interrupt ~> server \in {"stopped", "failed"})

\* The timeouts of the connection task alone empty the drain of everything
\* but websockets, before any abort.
DrainConverges ==
    TimerFairness =>
        (server = "draining" ~>
            \A c \in Conns : Running(c) => phase[c] = "websocket")
=============================================================================
