----------------------------- MODULE Collection -----------------------------
(***************************************************************************)
(* What a collection of documents promises its callers: each operation     *)
(* takes effect at one moment between its call and its answer, or not at   *)
(* all.  The promise lasts while the collection is calm; DataStore.tla     *)
(* says when the files of total5 are.                                      *)
(***************************************************************************)
EXTENDS Naturals, Sequences, FiniteSets

CONSTANTS Callers, Ops

VARIABLES
    rows,               \* the documents, in the order of their insertion
    call,               \* where each caller stands
    calm                \* FALSE once the promise is void

vars == <<rows, call, calm>>

None    == [state |-> "none"]
Asks(o) == [state |-> "asks", op |-> o]
Left(o) == [state |-> "left", op |-> o]         \* the caller is gone
Gets(a) == [state |-> "gets", answer |-> a]

Error == [ok |-> FALSE, count |-> 0, found |-> <<>>]
Matches(o) == {i \in DOMAIN rows : rows[i].id = o.id}

\* The rows at the positions of a set, in their order.
At(S) ==
    [k \in 1..Cardinality(S) |->
        rows[CHOOSE i \in S : Cardinality({j \in S : j <= i}) = k]]

\* The documents after an operation, and what it answers.
After(o) ==
    CASE o.kind = "insert" -> rows \o <<o.doc>>
      [] o.kind = "update" ->
            [i \in DOMAIN rows |->
                IF i \in Matches(o) /\ o.object
                THEN [f \in DOMAIN rows[i] |->
                        IF f \in DOMAIN o.patch THEN o.patch[f] ELSE rows[i][f]]
                ELSE rows[i]]
      [] o.kind = "remove" -> At(DOMAIN rows \ Matches(o))
      [] OTHER -> rows

Answer(o) ==
    [ok    |-> TRUE,
     count |-> CASE o.kind = "insert" -> 1
                 [] o.kind = "update" -> IF o.object THEN Cardinality(Matches(o)) ELSE 0
                 [] o.kind = "remove" -> Cardinality(Matches(o))
                 [] OTHER -> 0,
     found |-> CASE o.kind = "find" -> rows
                 [] o.kind = "read" ->
                        IF Matches(o) = {} THEN <<>>
                        ELSE <<rows[CHOOSE i \in Matches(o) : \A j \in Matches(o) : i <= j]>>
                 [] OTHER -> <<>>]

Init ==
    /\ rows = <<>>
    /\ call = [c \in Callers |-> None]
    /\ calm = TRUE

Step(c, from, to) ==
    /\ call[c] = from
    /\ call' = [call EXCEPT ![c] = to]

Ask(c) ==
    /\ \E o \in Ops : Step(c, None, Asks(o))
    /\ UNCHANGED rows

Apply(c) ==
    \E o \in Ops :
        /\ Step(c, Asks(o), Gets(Answer(o))) \/ Step(c, Left(o), None)
        /\ rows' = After(o)

Fail(c) ==
    /\ \E o \in Ops : Step(c, Asks(o), Gets(Error)) \/ Step(c, Left(o), None)
    /\ UNCHANGED rows

\* The caller goes away; what it asked for may happen yet.
Abandon(c) ==
    /\ \E o \in Ops : Step(c, Asks(o), Left(o)) \/ Step(c, Asks(o), None)
    /\ UNCHANGED rows

Take(c) ==
    /\ call[c].state = "gets"
    /\ call' = [call EXCEPT ![c] = None]
    /\ UNCHANGED rows

\* Everyone who asks is gone at once.
Reset ==
    /\ call' = [c \in Callers |-> None]
    /\ UNCHANGED rows

\* An operation that overlaps others, or is cut in the middle, ends the calm;
\* nothing is promised from there on.
Next ==
    \/ ~calm'
    \/ /\ calm' = calm
       /\ \/ \E c \in Callers : Ask(c) \/ Apply(c) \/ Fail(c) \/ Abandon(c) \/ Take(c)
          \/ Reset

Spec == Init /\ [][Next]_vars
=============================================================================
