---------------------------- MODULE MCDataStore ----------------------------
(* Instances of DataStore for TLC. *)
EXTENDS DataStore

CONSTANTS c1, c2, a, b, x, y

Insert(id, v)     == [kind |-> "insert", doc |-> [id |-> id, v |-> v]]
Update(id, patch) == [kind |-> "update", id |-> id, object |-> TRUE, patch |-> patch]
Touch(id)         == [kind |-> "update", id |-> id, object |-> FALSE, patch |-> [v |-> x]]
RemoveDoc(id)     == [kind |-> "remove", id |-> id]
Read(id)          == [kind |-> "read", id |-> id]
Find              == [kind |-> "find"]

AllOps == {Insert(a, x), Insert(NoId, x), Update(a, [v |-> y]), Update(a, [id |-> b]),
           Touch(a), RemoveDoc(a), Read(a), Find}
=============================================================================
