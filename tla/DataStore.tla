------------------------------ MODULE DataStore ------------------------------
(***************************************************************************)
(* One collection of the DATA store of src/src/storage.rs: `insert`,       *)
(* `update`, `remove`, `find` and `read` by handlers that run at the same  *)
(* time over one JSON file, with no lock.  An operation is cut at its      *)
(* awaits: load the file, create the directory, open the file (which       *)
(* truncates it) and write it.                                             *)
(*                                                                         *)
(* The file system runs each of these in a thread of its own, which goes   *)
(* on when the handler that awaits it is dropped by its deadline.          *)
(***************************************************************************)
EXTENDS Naturals, FiniteSets, SequencesExt

CONSTANTS
    Callers,            \* handlers that use the collection
    Ids, Values,        \* keys and contents of documents
    NoId,               \* the id of a document that has none
    Ops,                \* the operations they ask for
    MaxCalls            \* bound: operations in all

Doc == [id : Ids \cup {NoId}, v : Values]
Patch == [id : Ids] \cup [v : Values] \cup [id : Ids, v : Values]
Op == [kind : {"insert"}, doc : Doc]
        \cup [kind : {"update"}, id : Ids, object : BOOLEAN, patch : Patch]
        \cup [kind : {"remove", "read"}, id : Ids]
        \cup [kind : {"find"}]

ASSUME CallersAssumption == IsFiniteSet(Callers)
ASSUME OpsAssumption == Ops \subseteq Op
ASSUME BoundAssumption == MaxCalls \in Nat

VARIABLES
    file,               \* the file of the collection
    phase,              \* the await each caller stands at
    op,                 \* the operation it asked for
    body,               \* the rows it is about to write
    result,             \* its answer
    gone,               \* its handler was dropped while the file is written
    calls,
    last,               \* history: the last rows written whole
    calm                \* history: no two changes have overlapped, none was cut

callVars == <<phase, op, body, result, gone>>
vars     == <<file, callVars, calls, last, calm>>

NoOp   == [kind |-> "none"]
NoFile == [state |-> "absent", rows |-> <<>>, size |-> 0]

\* Every document takes the same room: sizes are numbers of rows, and one for
\* the brackets.
Size(rows) == Len(rows) + 1
Whole(rows) == [state |-> "rows", rows |-> rows, size |-> Size(rows)]
Torn(size)  == [state |-> "torn", rows |-> <<>>, size |-> size]

Answers(count, found) == [ok |-> TRUE, count |-> count, found |-> found]
Error == [ok |-> FALSE, count |-> 0, found |-> <<>>]

Changes(o) == o.kind \in {"insert", "update", "remove"}
Idle == {"idle", "done"}

TypeOK ==
    /\ file \in {Torn(n) : n \in 0..MaxCalls + 1} \cup {NoFile} \cup
                {Whole(file.rows)}
    /\ file.rows \in Seq(Doc) /\ last \in Seq(Doc)
    /\ phase \in [Callers -> {"idle", "load", "dir", "open", "write", "done"}]
    /\ op \in [Callers -> Ops \cup {NoOp}]
    /\ body \in [Callers -> Seq(Doc)]
    /\ result \in [Callers -> [ok : BOOLEAN, count : Nat, found : Seq(Doc)]]
    /\ gone \in [Callers -> BOOLEAN]
    /\ calls \in 0..MaxCalls
    /\ calm \in BOOLEAN

Init ==
    /\ file = NoFile
    /\ phase = [c \in Callers |-> "idle"]
    /\ op = [c \in Callers |-> NoOp]
    /\ body = [c \in Callers |-> <<>>]
    /\ result = [c \in Callers |-> Error]
    /\ gone = [c \in Callers |-> FALSE]
    /\ calls = 0
    /\ last = <<>>
    /\ calm = TRUE

-----------------------------------------------------------------------------
(* What the operations compute between their awaits. *)

\* Mutant: a patch is taken for the whole document.
Patched_Replaces(doc, o) ==
    IF doc.id = o.id /\ o.object THEN [id |-> o.id, v |-> doc.v] @@ o.patch ELSE doc

Patched(doc, o) ==
    IF doc.id = o.id /\ o.object
    THEN [f \in DOMAIN doc \cup DOMAIN o.patch |->
            IF f \in DOMAIN o.patch THEN o.patch[f] ELSE doc[f]]
    ELSE doc

\* Vec::retain: what is kept of the first n rows, for each n.
Retained(rows, id) ==
    LET kept[n \in 0..Len(rows)] ==
            IF n = 0 THEN <<>>
            ELSE IF rows[n].id = id THEN kept[n - 1] ELSE Append(kept[n - 1], rows[n])
    IN  kept

Changed(rows, o) ==
    CASE o.kind = "insert" -> Append(rows, o.doc)
      [] o.kind = "update" -> [i \in 1..Len(rows) |-> Patched(rows[i], o)]
      [] o.kind = "remove" -> Retained(rows, o.id)[Len(rows)]

Hits(rows, o) == {i \in 1..Len(rows) : rows[i].id = o.id /\ o.object}

\* Mutant: the difference is taken the other way round.
Counted_Swapped(rows, o) ==
    CASE o.kind = "insert" -> 1
      [] o.kind = "update" -> Cardinality(Hits(rows, o))
      [] o.kind = "remove" -> Len(Changed(rows, o)) - Len(rows)

Counted(rows, o) ==
    CASE o.kind = "insert" -> 1
      [] o.kind = "update" -> Cardinality(Hits(rows, o))
      [] o.kind = "remove" -> Len(rows) - Len(Changed(rows, o))

Found(rows, o) ==
    IF o.kind = "find" THEN rows
    ELSE LET first == SelectInSeq(rows, LAMBDA doc : doc.id = o.id)
         IN  IF first = 0 THEN <<>> ELSE <<rows[first]>>

\* An absent file is an empty collection; a torn one does not parse.
Loadable == file.state # "torn"

-----------------------------------------------------------------------------
(* The operations. *)

Finish(c, answer) ==
    /\ phase' = [phase EXCEPT ![c] = IF gone[c] THEN "idle" ELSE "done"]
    /\ result' = [result EXCEPT ![c] = IF gone[c] THEN Error ELSE answer]
    /\ op' = [op EXCEPT ![c] = NoOp]
    /\ body' = [body EXCEPT ![c] = <<>>]
    /\ gone' = [gone EXCEPT ![c] = FALSE]

Changing(c) == phase[c] \notin Idle /\ Changes(op[c])

Call(c) ==
    /\ calls < MaxCalls
    /\ phase[c] = "idle"
    /\ calls' = calls + 1
    /\ \E o \in Ops :
        /\ op' = [op EXCEPT ![c] = o]
        /\ calm' = (calm /\ ~(Changes(o) /\ \E d \in Callers : Changing(d)))
    /\ phase' = [phase EXCEPT ![c] = "load"]
    /\ UNCHANGED <<file, body, result, gone, last>>

Load(c) ==
    /\ phase[c] = "load"
    /\ Loadable
    /\ IF Changes(op[c])
       THEN /\ body' = [body EXCEPT ![c] = Changed(file.rows, op[c])]
            /\ result' = [result EXCEPT ![c] = Answers(Counted(file.rows, op[c]), <<>>)]
            /\ phase' = [phase EXCEPT ![c] = "dir"]
            /\ UNCHANGED <<op, gone>>
       ELSE Finish(c, Answers(0, Found(file.rows, op[c])))
    /\ UNCHANGED <<file, calls, last, calm>>

\* The file does not parse, or what was read while it changed does not, or the
\* system reports an error, or the model does not serialize.
LoadFails(c) ==
    /\ phase[c] = "load"
    /\ Finish(c, Error)
    /\ UNCHANGED <<file, calls, last, calm>>

MakeDir(c) ==
    /\ phase[c] = "dir"
    /\ phase' = [phase EXCEPT ![c] = "open"]
    /\ UNCHANGED <<file, op, body, result, gone, calls, last, calm>>

\* create_dir_all or the open of the file fails.
SaveFails(c) ==
    /\ phase[c] \in {"dir", "open"}
    /\ Finish(c, Error)
    /\ UNCHANGED <<file, calls, last, calm>>

Truncate(c) ==
    /\ phase[c] = "open"
    /\ file' = Torn(0)
    /\ phase' = [phase EXCEPT ![c] = "write"]
    /\ UNCHANGED <<op, body, result, gone, calls, last, calm>>

\* Each writer starts at the beginning of the file: of two that have truncated
\* it, a later and shorter body leaves the end of the other behind it.
Overlay(rows) == IF Size(rows) >= file.size THEN Whole(rows) ELSE Torn(file.size)

Write(c) ==
    /\ phase[c] = "write"
    /\ file' = Overlay(body[c])
    /\ last' = body[c]
    /\ Finish(c, result[c])
    /\ UNCHANGED <<calls, calm>>

\* The disk is full, or fails: the first bytes may be there.
WriteFails(c) ==
    /\ phase[c] = "write"
    /\ \E n \in 0..Size(body[c]) - 1 :
          file' = IF n = 0 THEN file
                  ELSE Torn(IF n > file.size THEN n ELSE file.size)
    /\ calm' = FALSE
    /\ Finish(c, Error)
    /\ UNCHANGED <<calls, last>>

Take(c) ==
    /\ phase[c] = "done"
    /\ phase' = [phase EXCEPT ![c] = "idle"]
    /\ result' = [result EXCEPT ![c] = Error]
    /\ UNCHANGED <<file, op, body, gone, calls, last, calm>>

\* The caller is gone, with all that it kept.
Forget(c) ==
    /\ phase' = [phase EXCEPT ![c] = "idle"]
    /\ op' = [op EXCEPT ![c] = NoOp]
    /\ body' = [body EXCEPT ![c] = <<>>]
    /\ result' = [result EXCEPT ![c] = Error]

\* Mutant: a dropped handler takes its write with it.
Drop_EndsWrite(c) ==
    /\ phase[c] \notin Idle
    /\ Forget(c)
    /\ UNCHANGED <<file, gone, calls, last, calm>>

\* The handler's deadline drops the operation: a load or a new directory has no
\* consequence, the write of the file goes on without it.
Drop(c) ==
    /\ phase[c] \notin Idle
    /\ ~gone[c]
    /\ IF phase[c] \in {"open", "write"}
       THEN gone' = [gone EXCEPT ![c] = TRUE] /\ UNCHANGED <<phase, op, body, result>>
       ELSE Forget(c) /\ UNCHANGED gone
    /\ UNCHANGED <<file, calls, last, calm>>

\* The process ends and is started again.
Crash ==
    /\ \E c \in Callers : phase[c] # "idle"
    /\ phase' = [c \in Callers |-> "idle"]
    /\ op' = [c \in Callers |-> NoOp]
    /\ body' = [c \in Callers |-> <<>>]
    /\ result' = [c \in Callers |-> Error]
    /\ gone' = [c \in Callers |-> FALSE]
    /\ calm' = (calm /\ \A c \in Callers : phase[c] # "write")
    /\ UNCHANGED <<file, calls, last>>

Next ==
    \/ \E c \in Callers :
        \/ Call(c) \/ Load(c) \/ LoadFails(c) \/ MakeDir(c) \/ SaveFails(c)
        \/ Truncate(c) \/ Write(c) \/ WriteFails(c) \/ Take(c) \/ Drop(c)
    \/ Crash

Spec == Init /\ [][Next]_vars

-----------------------------------------------------------------------------
(* What the store promises. *)

\* A caller as Collection sees it.
CallOf(c) ==
    CASE phase[c] = "idle" -> [state |-> "none"]
      [] phase[c] = "done" -> [state |-> "gets", answer |-> result[c]]
      [] gone[c]           -> [state |-> "left", op |-> op[c]]
      [] OTHER             -> [state |-> "asks", op |-> op[c]]

Abstract == INSTANCE Collection WITH
    rows <- last,
    call <- [c \in Callers |-> CallOf(c)],
    calm <- calm

\* As long as no two changes overlap and none is cut in the middle, each
\* operation is atomic for its callers, though it reads and writes the whole
\* file at different moments, though reads fall between, and though a handler
\* may be dropped while its write goes on.
IsCollection == Abstract!Spec

\* A file that does not parse is being written, or changes have overlapped, or
\* one was cut: handlers dropped by their deadline never tear it.
TornHasCause ==
    file.state = "torn" => ~calm \/ \E c \in Callers : phase[c] = "write"
=============================================================================
