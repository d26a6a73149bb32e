---------------------------- MODULE RequestReader ----------------------------
(***************************************************************************)
(* `HttpConnection::read_request` of src/src/server.rs: the requests that  *)
(* a connection reads from a stream which arrives in pieces of any size,   *)
(* with the buffer it keeps between them.                                  *)
(*                                                                         *)
(* The stream is a sequence of units.  A unit stands for a line end, a     *)
(* request line, a header line, a chunk size, a chunk extension or two     *)
(* bytes of content, and all lengths and limits count units.  What a       *)
(* header says is known from its unit; the words of RFC 9112 are not.      *)
(***************************************************************************)
EXTENDS Naturals, SequencesExt

CONSTANTS
    Streams,            \* what clients may send
    Sizes,              \* chunk-size units, each with its value: a function
    Lengths,            \* Content-Length units, each with its value
    MaxHeader, MaxBody, \* the limits
    Chunk               \* the most that one read returns

Units == {"n",                                      \* CRLF
          "request", "nonsense",                    \* a request line or not
          "field", "chunked", "gzip", "badlength",  \* headers
          "malformed",                              \* a line without a colon
          "ext", "data"} \cup DOMAIN Sizes \cup DOMAIN Lengths

Headers == {"field", "chunked", "gzip", "badlength"} \cup DOMAIN Lengths

ASSUME StreamsAssumption == Streams \subseteq Seq(Units)
ASSUME SizesAssumption ==
    /\ \A u \in DOMAIN Sizes : Sizes[u] \in Nat
    /\ \A u \in DOMAIN Lengths : Lengths[u] \in Nat
ASSUME LimitsAssumption == MaxHeader \in Nat \ {0} /\ MaxBody \in Nat /\ Chunk \in Nat \ {0}

VARIABLES
    stream,             \* what the client sends
    base,               \* units drained: the buffer starts behind them
    got,                \* units read: the buffer ends there
    phase,              \* what the reader looks for
    cursor,             \* where it stands
    end,                \* the end of the body, or of the chunk, it waits for
    trailers,           \* where the trailers start
    body,               \* the content so far, as positions of the stream
    requests,           \* history: the requests returned
    error

vars == <<stream, base, got, phase, cursor, end, trailers, body, requests, error>>

Errors == {"none", "closed", "io", "header_too_large", "body_too_large", "bad_request"}

TypeOK ==
    /\ stream \in Streams
    /\ base \in 0..got /\ got \in 0..Len(stream)
    /\ phase \in {"headers", "body", "size", "data", "trailer", "over"}
    /\ cursor \in 0..got
    /\ end \in 0..cursor + MaxBody
    /\ trailers \in 0..cursor
    /\ body \in Seq(1..Len(stream))
    /\ requests \in Seq([head : Nat, body : Seq(1..Len(stream)), next : 0..got])
    /\ error \in Errors

Init ==
    /\ stream \in Streams
    /\ base = 0 /\ got = 0
    /\ phase = "headers"
    /\ cursor = 0 /\ end = 0 /\ trailers = 0
    /\ body = <<>> /\ requests = <<>>
    /\ error = "none"

-----------------------------------------------------------------------------
(* What a head says. *)

Refused(why) == [error |-> why, chunked |-> FALSE, length |-> 0]

\* One request line, then one header to a line.
WellFormed(text) ==
    /\ text # <<>> /\ text[1] = "request"
    /\ \A i \in 2..Len(text) : IF i % 2 = 0 THEN text[i] = "n" ELSE text[i] \in Headers

\* The first unit of a kind, as `get` finds the first header of a name.
First(text, kind) ==
    LET places == {i \in 1..Len(text) : text[i] \in kind}
    IN  IF places = {} THEN "none" ELSE text[Min(places)]

Coding(text) == First(text, {"chunked", "gzip"})
Length(text) == First(text, {"badlength"} \cup DOMAIN Lengths)
Value(length) == IF length = "none" THEN 0 ELSE Lengths[length]

\* Mutant: the limit on the body is for chunks only.
HeadOf_Unlimited(text) ==
    IF \/ ~WellFormed(text)
       \/ Coding(text) = "gzip"
       \/ Coding(text) = "chunked" /\ Length(text) # "none"
       \/ Length(text) = "badlength"
    THEN Refused("bad_request")
    ELSE [error |-> "none", chunked |-> Coding(text) = "chunked", length |-> Value(Length(text))]

\* The first Transfer-Encoding and the first Content-Length count, and they
\* exclude each other.
HeadOf(text) ==
    IF \/ ~WellFormed(text)
       \/ Coding(text) = "gzip"
       \/ Coding(text) = "chunked" /\ Length(text) # "none"
       \/ Length(text) = "badlength"
    THEN Refused("bad_request")
    ELSE IF Value(Length(text)) > MaxBody THEN Refused("body_too_large")
    ELSE [error |-> "none", chunked |-> Coding(text) = "chunked", length |-> Value(Length(text))]

\* A chunk size may be followed by extensions.
IsSize(line) ==
    /\ line # <<>> /\ line[1] \in DOMAIN Sizes
    /\ \A i \in 2..Len(line) : line[i] = "ext"

HasColon(line) == \E i \in 1..Len(line) : line[i] \in Headers

-----------------------------------------------------------------------------
(* The reader, from one read of the stream to the next. *)

\* Where the blank line behind the head, and the end of the line at the cursor,
\* are found in the buffer.
HeadEnds == {i \in base + 2..got : stream[i - 1] = "n" /\ stream[i] = "n"}
LineEnds == {i \in cursor + 1..got : stream[i] = "n"}
Line(i)  == SubSeq(stream, cursor + 1, i - 1)

\* How much the next read may return; nothing when no read is due.
Room ==
    CASE phase = "headers" /\ HeadEnds = {} /\ got - base < MaxHeader -> Chunk
      [] phase \in {"size", "trailer"} /\ LineEnds = {} /\ got - cursor <= MaxHeader -> Chunk
      [] phase = "body" /\ got < end -> Min({end - got, Chunk})
      [] phase = "data" /\ got <= end -> Min({end + 1 - got, Chunk})
      [] OTHER -> 0

Fail(why) ==
    /\ phase' = "over"
    /\ error' = why
    /\ UNCHANGED <<stream, base, got, cursor, end, trailers, body, requests>>

Goto(where, at) ==
    /\ phase' = where
    /\ cursor' = at
    /\ UNCHANGED <<stream, base, got, requests, error>>

\* Mutant: the whole buffer is drained with the request.
Yield_DrainsAll(content, next) ==
    /\ requests' = Append(requests, [head |-> base, body |-> content, next |-> next])
    /\ base' = got /\ cursor' = got
    /\ phase' = "headers" /\ body' = <<>>
    /\ UNCHANGED <<stream, got, end, trailers, error>>

\* The request is returned and drained; the connection reads the next one.
Yield(content, next) ==
    /\ requests' = Append(requests, [head |-> base, body |-> content, next |-> next])
    /\ base' = next /\ cursor' = next
    /\ phase' = "headers" /\ body' = <<>>
    /\ UNCHANGED <<stream, got, end, trailers, error>>

Read ==
    /\ \E n \in 1..Room : got + n <= Len(stream) /\ got' = got + n
    /\ UNCHANGED <<stream, base, phase, cursor, end, trailers, body, requests, error>>

\* The client has hung up: the read returns nothing.
Eof ==
    /\ Room > 0
    /\ Fail(IF phase = "headers" /\ got = base THEN "closed" ELSE "bad_request")

ReadFails == Room > 0 /\ Fail("io")

HeadersTooLong ==
    /\ phase = "headers"
    /\ IF HeadEnds = {} THEN got - base >= MaxHeader
                        ELSE Min(HeadEnds) - base > MaxHeader
    /\ Fail("header_too_large")

ParseHead ==
    /\ phase = "headers" /\ HeadEnds # {}
    /\ LET stop == Min(HeadEnds)
           head == HeadOf(SubSeq(stream, base + 1, stop - 2))
       IN  /\ stop - base <= MaxHeader
           /\ IF head.error # "none" THEN Fail(head.error)
              ELSE IF head.chunked
              THEN Goto("size", stop) /\ UNCHANGED <<end, trailers, body>>
              ELSE /\ Goto("body", stop)
                   /\ end' = stop + head.length
                   /\ UNCHANGED <<trailers, body>>

BodyDone ==
    /\ phase = "body" /\ got >= end
    /\ Yield([i \in 1..end - cursor |-> cursor + i], end)

LineTooLong ==
    /\ phase \in {"size", "trailer"}
    /\ LineEnds = {} /\ got - cursor > MaxHeader
    /\ Fail("header_too_large")

Exceeds(size) == Len(body) + size > MaxBody

ParseSize ==
    /\ phase = "size" /\ LineEnds # {}
    /\ LET stop == Min(LineEnds)
           line == Line(stop)
           size == Sizes[line[1]]
       IN  IF ~IsSize(line) THEN Fail("bad_request")
           ELSE IF size = 0
           THEN Goto("trailer", stop) /\ trailers' = stop /\ UNCHANGED <<end, body>>
           ELSE IF Exceeds(size) THEN Fail("body_too_large")
           ELSE Goto("data", stop) /\ end' = stop + size /\ UNCHANGED <<trailers, body>>

ChunkDone ==
    /\ phase = "data" /\ got > end
    /\ IF stream[end + 1] # "n" THEN Fail("bad_request")
       ELSE /\ body' = body \o [i \in 1..end - cursor |-> cursor + i]
            /\ Goto("size", end + 1)
            /\ UNCHANGED <<end, trailers>>

ParseTrailer ==
    /\ phase = "trailer" /\ LineEnds # {}
    /\ LET stop == Min(LineEnds)
       IN  IF stop = cursor + 1 THEN Yield(body, stop)
           ELSE IF stop - trailers > MaxHeader THEN Fail("header_too_large")
           ELSE IF ~HasColon(Line(stop)) THEN Fail("bad_request")
           ELSE Goto("trailer", stop) /\ UNCHANGED <<end, trailers, body>>

Next ==
    \/ Read \/ Eof \/ ReadFails
    \/ HeadersTooLong \/ ParseHead \/ BodyDone
    \/ LineTooLong \/ ParseSize \/ ChunkDone \/ ParseTrailer

Spec == Init /\ [][Next]_vars

-----------------------------------------------------------------------------
(* The reference: one look at each unit of the stream, no buffer. *)

\* Nothing has been refused so far.  `count` is what is left of the content, and
\* in trailers what has been seen of them.
Reading(done, long, mode, text, count, content) ==
    [error |-> "none", done |-> done, long |-> long,
     mode |-> mode, text |-> text, count |-> count, content |-> content]

\* Where the request behind some others starts.
Start(done) == IF done = <<>> THEN 0 ELSE Last(done).next

Stopped(s, why)       == [s EXCEPT !.error = why]
Turned(s, mode, count) == Reading(s.done, s.long, mode, <<>>, count, s.content)
More(s, u, count)     == Reading(s.done, s.long, s.mode, Append(s.text, u), count, s.content)
Kept(s, n) == Reading(s.done, s.long, s.mode, <<>>, s.count - 1, Append(s.content, n))
Finished(s, n) ==
    Reading(Append(s.done, [head |-> Start(s.done), body |-> s.content, next |-> n]),
            s.long, "headers", <<>>, 0, <<>>)

AfterHead(s, head, n) ==
    IF head.error # "none" THEN Stopped(s, head.error)
    ELSE IF head.chunked THEN Turned(s, "size", 0)
    ELSE IF head.length = 0 THEN Finished(s, n) ELSE Turned(s, "body", head.length)

InHead(s, u, n) ==
    IF u = "n" /\ s.text # <<>> /\ Last(s.text) = "n"
    THEN IF Len(s.text) + 1 > MaxHeader THEN Stopped(s, "header_too_large")
         ELSE AfterHead(s, HeadOf(Front(s.text)), n)
    ELSE IF Len(s.text) + 1 >= MaxHeader THEN Stopped(s, "header_too_large")
    ELSE More(s, u, 0)

InBody(s, n) == IF s.count = 1 THEN Finished(Kept(s, n), n) ELSE Kept(s, n)

AfterSize(s, line) ==
    IF ~IsSize(line) THEN Stopped(s, "bad_request")
    ELSE IF Sizes[line[1]] = 0 THEN Turned(s, "trailer", 0)
    ELSE IF Len(s.content) + Sizes[line[1]] > MaxBody THEN Stopped(s, "body_too_large")
    ELSE Turned(s, "data", Sizes[line[1]])

InSize(s, u) ==
    IF u = "n" THEN AfterSize(s, s.text)
    ELSE Reading(s.done, s.long \/ Len(s.text) + 1 > MaxHeader,
                 "size", Append(s.text, u), 0, s.content)

InData(s, u, n) ==
    IF s.count > 0 THEN Kept(s, n)
    ELSE IF u = "n" THEN Turned(s, "size", 0) ELSE Stopped(s, "bad_request")

InTrailer(s, u, n) ==
    IF u # "n"
    THEN IF Len(s.text) + 1 > MaxHeader THEN Stopped(s, "header_too_large")
         ELSE More(s, u, s.count + 1)
    ELSE IF s.text = <<>> THEN Finished(s, n)
    ELSE IF s.count + 1 > MaxHeader THEN Stopped(s, "header_too_large")
    ELSE IF ~HasColon(s.text) THEN Stopped(s, "bad_request")
    ELSE Turned(s, "trailer", s.count + 1)

\* What unit n makes of what those before it have made.
Looked(s, u, n) ==
    IF s.error # "none" THEN s
    ELSE CASE s.mode = "headers" -> InHead(s, u, n)
           [] s.mode = "body"    -> InBody(s, n)
           [] s.mode = "size"    -> InSize(s, u)
           [] s.mode = "data"    -> InData(s, u, n)
           [] s.mode = "trailer" -> InTrailer(s, u, n)

\* What the first n units make, for each n.
Reference(units) ==
    LET made[n \in 0..Len(units)] ==
            IF n = 0 THEN Reading(<<>>, FALSE, "headers", <<>>, 0, <<>>)
            ELSE Looked(made[n - 1], units[n], n)
    IN  made

-----------------------------------------------------------------------------
(* What the reader promises. *)

\* The requests, their bodies, the place where each ends, and the error are
\* those of the stream, in whatever pieces it arrived: a marker may be cut
\* between two reads and a read may bring the end of one request and several
\* others.  Only a chunk line longer than the limit is refused or accepted
\* as its pieces happen to fall (read_until looks for the line end first).
ReadsWhatWasSent ==
    LET ref == Reference(stream)[got]
    IN  /\ IsPrefix(requests, ref.done)
        /\ Room > 0 \/ (phase = "over" /\ ~ref.long) => requests = ref.done
        /\ phase = "over" =>
              \/ error = ref.error
              \/ error = "header_too_large" /\ ref.long
              \/ error = "io"
              \/ /\ ref.error = "none"
                 /\ error = IF ref.mode = "headers" /\ ref.text = <<>>
                            THEN "closed" ELSE "bad_request"
=============================================================================
