------------------------------ MODULE MCWsLoop ------------------------------
(* Instances of WsLoop for TLC. *)
EXTENDS WsLoop

Of(op, fin, size) == [op |-> op, fin |-> fin, rsv1 |-> FALSE, wellFormed |-> TRUE,
                      size |-> size, valid |-> TRUE]

Text     == Of("text", TRUE, 100)
Binary   == Of("binary", TRUE, 200)
Start    == Of("text", FALSE, 100)
More     == Of("continuation", FALSE, 100)
Finish   == Of("continuation", TRUE, 100)
Ping     == Of("ping", TRUE, 0)
Pong     == Of("pong", TRUE, 0)
Close    == Of("close", TRUE, 2)
LongPing == Of("ping", TRUE, 126)
Huge     == Of("text", TRUE, 201)
Other    == Of("reserved", TRUE, 0)
Invalid(f)  == [f EXCEPT !.valid = FALSE]
Deflated(f) == [f EXCEPT !.rsv1 = TRUE]
Unmasked(f) == [f EXCEPT !.wellFormed = FALSE]

AllFrames == {Text, Binary, Start, More, Finish, Ping, Pong, Close, LongPing, Huge,
              Other, Invalid(Text), Deflated(Text), Deflated(Start), Unmasked(Text)}
GoodFrames == {Text, Start, Finish, Ping}

PlanOf(frames, max, out, split) ==
    [frames |-> frames, maxFrames |-> max, maxOut |-> out, split |-> split]
AllPlans == {PlanOf(AllFrames, 3, 1, FALSE), PlanOf(GoodFrames, 2, 2, TRUE)}
CutPlans == {PlanOf(GoodFrames, 2, 1, TRUE)}
=============================================================================
