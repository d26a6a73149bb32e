--------------------------- MODULE GracefulDrain ---------------------------
(***************************************************************************)
(* What a server that shuts down gracefully promises, whatever it speaks   *)
(* with its clients: once it has begun to stop it opens no connection,     *)
(* begins at most one more request on a connection that was about to read  *)
(* one, and reports that it is over only when no connection is left.       *)
(* Server.tla implements it.                                               *)
(***************************************************************************)
EXTENDS Naturals

CONSTANT Conns          \* connections that clients may open

VARIABLES
    service,            \* what the owner of the server is told
    conn,               \* where each connection stands
    late                \* requests begun on a connection after the stop

vars == <<service, conn, late>>

Live == {c \in Conns : conn[c] \in {"idle", "busy"}}

TypeOK ==
    /\ service \in {"serving", "stopping", "over", "failed"}
    /\ conn \in [Conns -> {"none", "idle", "busy", "gone"}]
    /\ late \in [Conns -> 0..1]

Init ==
    /\ service = "serving"
    /\ conn = [c \in Conns |-> "none"]
    /\ late = [c \in Conns |-> 0]

Move(c, from, to) ==
    /\ conn[c] = from
    /\ conn' = [conn EXCEPT ![c] = to]

Open(c) ==
    /\ service = "serving"
    /\ Move(c, "none", "idle")
    /\ UNCHANGED <<service, late>>

Begin(c) ==
    /\ service = "serving"
    /\ Move(c, "idle", "busy")
    /\ UNCHANGED <<service, late>>

\* The request that a connection had begun to read when the stop came.
BeginLate(c) ==
    /\ service # "serving"
    /\ late[c] = 0
    /\ Move(c, "idle", "busy")
    /\ late' = [late EXCEPT ![c] = 1]
    /\ UNCHANGED service

Answer(c) ==
    /\ Move(c, "busy", "idle")
    /\ UNCHANGED <<service, late>>

Leave(c) ==
    /\ conn[c] \in {"idle", "busy"}
    /\ conn' = [conn EXCEPT ![c] = "gone"]
    /\ UNCHANGED <<service, late>>

Stop ==
    /\ service = "serving"
    /\ service' = "stopping"
    /\ UNCHANGED <<conn, late>>

Over ==
    /\ service = "stopping"
    /\ Live = {}
    /\ service' = "over"
    /\ UNCHANGED <<conn, late>>

Fail ==
    /\ service = "serving"
    /\ service' = "failed"
    /\ UNCHANGED <<conn, late>>

Next ==
    \/ \E c \in Conns : Open(c) \/ Begin(c) \/ BeginLate(c) \/ Answer(c) \/ Leave(c)
    \/ Stop
    \/ Over
    \/ Fail

Spec == Init /\ [][Next]_vars
=============================================================================
