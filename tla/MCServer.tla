------------------------------ MODULE MCServer ------------------------------
(* Instances of Server for TLC. *)
EXTENDS Server

CONSTANTS c1, c2

Plain11     == [version |-> "1.1", tokens |-> {}]
Close11     == [version |-> "1.1", tokens |-> {"close"}]
Upgrade11   == [version |-> "1.1", tokens |-> {"upgrade"}]
Plain10     == [version |-> "1.0", tokens |-> {}]
KeepAlive10 == [version |-> "1.0", tokens |-> {"keep-alive"}]

AllRequests == {Plain11, Close11, Upgrade11, Plain10, KeepAlive10}

=============================================================================
