------------------------------ MODULE MCWsHub ------------------------------
(* Instances of WsHub for TLC. *)
EXTENDS WsHub

CONSTANTS c1, c2

\* One client sends what blocks its loop, the other may stop reading.
Inputs == [c \in {c1, c2} |-> IF c = c1 THEN 2 ELSE 1]

=============================================================================
