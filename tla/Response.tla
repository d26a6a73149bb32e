------------------------------- MODULE Response -------------------------------
(***************************************************************************)
(* How a response is shaped on its way from a handler to the stream, and   *)
(* what a client that reads it makes of it: `finalize_cors`,               *)
(* `apply_byte_range`, the compression of `finalize_http_response` and     *)
(* `finalize_head` of src/src/lib.rs, then `write_response` of             *)
(* src/src/server.rs.  Three notices are made outside that path: the       *)
(* refusals of `dispatch` (403, 429) and the timeout of the connection     *)
(* loop (503).                                                             *)
(*                                                                         *)
(* A body is the bytes `from` to `to` of what the handler made, counted    *)
(* from zero, `to` excluded.  An origin is a sequence of labels, compared  *)
(* without regard to case as the code does.                                *)
(***************************************************************************)
EXTENDS Integers, SequencesExt

CONSTANTS
    Requests,           \* requests of clients
    Resources,          \* responses of handlers and of the static files
    Configs,            \* $httpcompress and $cors
    CompressAbove,      \* bodies longer than this are compressed (256)
    GzipSize,           \* the length of a compressed body
    NoticeSize          \* the length of a notice

Absent    == -1         \* a part of a range, or a header, that is not there
NotNumber == -2         \* a part of a range that does not parse, or overflows
NoOrigin  == <<>>
Star      == <<"*">>
PartOfRange == Nat \cup {Absent, NotNumber}
Fields    == {"Accept-Encoding", "Origin"}

RequestType ==
    [method : {"GET", "HEAD", "OPTIONS"},
     \* "units": not in bytes; "malformed": several ranges, or no dash
     range  : [form : {"none", "units", "malformed", "span"},
               first : PartOfRange, last : PartOfRange],
     gzip   : BOOLEAN, origin : Seq(STRING)]

ResourceType ==
    [status : 100..999, size : Nat, text : BOOLEAN, ranges : BOOLEAN, encoded : BOOLEAN,
     \* the Content-Length that the handler has set, which nobody checks
     length : Nat \cup {Absent},
     vary   : SUBSET Fields]

ConfigType ==
    [compress : BOOLEAN, cors : [form : {"none", "star", "list"},
     entries : SUBSET [suffix : BOOLEAN, labels : Seq(STRING)]]]

ASSUME TypesAssumption ==
    /\ Requests \subseteq RequestType
    /\ Resources \subseteq ResourceType
    /\ Configs \subseteq ConfigType
ASSUME SizesAssumption ==
    CompressAbove \in Nat /\ GzipSize \in Nat \ {0} /\ NoticeSize \in Nat \ {0}

VARIABLES
    config,
    exchange,           \* the last request, and what was sent for it
    slack               \* bytes on the stream that its client does not expect

vars == <<config, exchange, slack>>

\* A response is known by its status, its part of the body, whether that is
\* compressed, Content-Length or Absent, Content-Range ("none", "part",
\* "unsatisfied"), Access-Control-Allow-Origin and Vary.  Status 0: the handler's
\* task has panicked, and with it the connection.
Panicked == [status |-> 0, from |-> 0, to |-> 0, gzip |-> FALSE, length |-> Absent,
             content |-> "none", acao |-> NoOrigin, vary |-> {}]

-----------------------------------------------------------------------------
(* The steps of the shaping. *)

\* `into_http_response`: what the handler has made.
Made(r) ==
    [Panicked EXCEPT !.status = r.status, !.to = r.size, !.vary = r.vary,
                     !.length = r.length]

\* `error_response` and the answer to a throttled request.
Notice(status) == [Panicked EXCEPT !.status = status, !.to = NoticeSize]

Size(p) == IF p.gzip THEN GzipSize ELSE p.to - p.from

AllowedOrigin(cors, origin) ==
    \/ cors.form = "star"
    \/ \E e \in cors.entries :
          \/ e.labels = origin /\ ~e.suffix
          \/ e.suffix /\ IsSuffix(e.labels, origin)

\* Mutant: the response does not vary by origin.
Cors_NoVary(p, q, preflight) ==
    IF q.origin = NoOrigin \/ ~AllowedOrigin(config.cors, q.origin) THEN p
    ELSE [p EXCEPT !.acao = IF config.cors.form = "star" THEN Star ELSE q.origin]

\* The origin is let in, or it is not, which only a preflight is told.
Cors(p, q, preflight) ==
    IF q.origin = NoOrigin THEN p
    ELSE IF ~AllowedOrigin(config.cors, q.origin)
    THEN IF preflight /\ config.cors.form # "none"
         THEN [p EXCEPT !.status = 403, !.from = 0, !.to = NoticeSize]
         ELSE p
    ELSE [p EXCEPT !.acao = IF config.cors.form = "star" THEN Star ELSE q.origin,
                   !.vary = @ \cup {"Origin"}]

Least(a, b) == IF a <= b THEN a ELSE b

Satisfiable(s, total) ==
    IF s.first = Absent THEN s.last > 0
    ELSE /\ s.first \in 0..total - 1
         /\ s.last # NotNumber
         /\ s.last = Absent \/ s.first <= Least(s.last, total - 1)

\* The first and the last byte of a satisfiable range; `saturating_sub` keeps
\* the last byte of an empty body at zero.
FirstByte(s, total) == IF s.first = Absent THEN total - Least(s.last, total) ELSE s.first
LastByte(s, total) ==
    IF s.first # Absent /\ s.last # Absent THEN Least(s.last, total - 1)
    ELSE IF total = 0 THEN 0 ELSE total - 1

\* Mutant: the last byte of a range is taken for its end.
Ranged_Short(p, s) ==
    LET total == p.to IN
    IF s.form = "malformed" \/ ~Satisfiable(s, total)
    THEN [p EXCEPT !.status = 416, !.to = 0, !.length = 0, !.content = "unsatisfied"]
    ELSE [p EXCEPT !.status = 206, !.from = FirstByte(s, total), !.to = LastByte(s, total),
                   !.length = LastByte(s, total) - FirstByte(s, total), !.content = "part"]

\* Bytes::slice panics when the range ends behind the body.
Ranged(p, s) ==
    LET total == p.to IN
    IF s.form = "malformed" \/ ~Satisfiable(s, total)
    THEN [p EXCEPT !.status = 416, !.to = 0, !.length = 0, !.content = "unsatisfied"]
    ELSE IF LastByte(s, total) >= total THEN Panicked
    ELSE [p EXCEPT !.status = 206, !.from = FirstByte(s, total), !.to = LastByte(s, total) + 1,
                   !.length = LastByte(s, total) + 1 - FirstByte(s, total), !.content = "part"]

Compresses(p, q, r) ==
    /\ config.compress /\ q.gzip
    /\ p.status = 200 /\ Size(p) > CompressAbove
    /\ ~r.encoded /\ p.content = "none" /\ r.text

\* Mutant: the length the handler has set stays.
Compressed_KeepsLength(p) ==
    [p EXCEPT !.gzip = TRUE, !.vary = @ \cup {"Accept-Encoding"}]

Compressed(p) ==
    [p EXCEPT !.gzip = TRUE, !.length = Absent, !.vary = @ \cup {"Accept-Encoding"}]

\* `finalize_head`: the length stays, the body goes.
WithoutBody(p) ==
    [p EXCEPT !.to = p.from, !.gzip = FALSE,
              !.length = IF p.length = Absent THEN Size(p) ELSE p.length]

\* `finalize_http_response`.
Finalized(r, q) ==
    LET p == Cors(Made(r), q, FALSE)
        s == IF r.ranges /\ q.range.form \in {"malformed", "span"} THEN Ranged(p, q.range) ELSE p
        c == IF Compresses(s, q, r) THEN Compressed(s) ELSE s
    IN  IF q.method = "HEAD" /\ s # Panicked THEN WithoutBody(c) ELSE c

\* What `dispatch_inner` answers; a preflight is not finalized.
Answer(r, q) == IF q.method = "OPTIONS" THEN Cors(Made(r), q, TRUE) ELSE Finalized(r, q)

Informational(p) == p.status \in 100..199

\* `write_response`.
Written(p) ==
    IF p.length = Absent /\ ~Informational(p) THEN [p EXCEPT !.length = Size(p)] ELSE p

-----------------------------------------------------------------------------
(* The connection, its clients and a shared cache. *)

\* What a client reads behind the head: no body follows these.
NeverBody(p) == Informational(p) \/ p.status \in {204, 304}
Bodiless(p, q) == q.method = "HEAD" \/ NeverBody(p)
Expected(p, q) == IF Bodiless(p, q) THEN 0 ELSE p.length

Send(sent) ==
    /\ exchange' = sent
    /\ slack' = IF sent.response.status = 0 THEN 0
                ELSE Size(sent.response) - Expected(sent.response, sent.request)
    /\ UNCHANGED config

Init ==
    /\ config \in Configs
    /\ exchange = [via |-> "none"]
    /\ slack = 0

\* The exchanges of a connection share nothing but the place in the stream, so
\* one of them is followed.
First == exchange.via = "none"

\* `options_response` makes what an OPTIONS is answered with.
MadeFor(q, r) ==
    q.method = "OPTIONS" => r.status \in {204, 404} /\ r.length = Absent /\ (r.status = 204 => r.size = 0)

Dispatched(q, r) ==
    /\ MadeFor(q, r)
    /\ LET p == Answer(r, q) IN
       Send([via |-> "handler", request |-> q, resource |-> r,
             response |-> IF p.status = 0 THEN p ELSE Written(p)])

SendNotice(q, code) ==
    Send([via |-> "notice", request |-> q, response |-> Written(Notice(code))])

\* Refused before the dispatcher has looked for a handler, or not answered by
\* it in time.
Refused(q)  == \E code \in {403, 429} : SendNotice(q, code)
TimedOut(q) == SendNotice(q, 503)

\* A cache stores the answer to a GET that it could read, and gives it to the
\* next request for the resource, if that one selects it.
Cacheable ==
    /\ exchange.via = "handler" /\ slack = 0
    /\ exchange.request.method = "GET" /\ exchange.response.status = 200

Selects(q, stored) ==
    /\ "Accept-Encoding" \in stored.response.vary => q.gzip = stored.request.gzip
    /\ "Origin" \in stored.response.vary => q.origin = stored.request.origin

Cached(q) ==
    /\ q.method = "GET" /\ q.range.form = "none" /\ Selects(q, exchange)
    /\ Send([exchange EXCEPT !.via = "cache", !.request = q])

Next ==
    \/ First /\ \E q \in Requests :
          Refused(q) \/ TimedOut(q) \/ \E r \in Resources : Dispatched(q, r)
    \/ Cacheable /\ \E q \in Requests : Cached(q)

Spec == Init /\ [][Next]_vars

-----------------------------------------------------------------------------
(* Properties. *)

\* The bytes that a range names.
Named(s, total) ==
    {i \in 0..total - 1 :
        /\ s.form # "malformed"
        /\ IF s.first = Absent THEN s.last > 0 /\ i >= total - s.last
           ELSE 0 <= s.first /\ s.first <= i /\ (s.last # Absent => i <= s.last)}

PanicsOn(r, q) ==
    /\ r.size = 0 /\ r.ranges /\ q.method # "OPTIONS"
    /\ q.range.form = "span" /\ q.range.first = Absent /\ q.range.last > 0

\* A range of a body that offers ranges is answered with the bytes it names,
\* and 416 when it names none; the code panics on a suffix of an empty body,
\* and on nothing else (`apply_byte_range`).
RangesExact ==
    exchange.via = "handler" =>
        LET q == exchange.request
            r == exchange.resource
            p == exchange.response
            named == Named(q.range, r.size)
        IN  /\ p.status = 0 <=> PanicsOn(r, q)
            /\ (/\ r.ranges /\ q.method = "GET" /\ ~PanicsOn(r, q)
                /\ q.range.form \in {"malformed", "span"}) =>
                  /\ p.status = (IF named = {} THEN 416 ELSE 206)
                  /\ p.from..p.to - 1 = named
                  /\ ~p.gzip

\* The handler's own Content-Length is not that of its body, and went through.
Overruled(r, p) == r.length \notin {Absent, r.size} /\ p.length = r.length

\* A client of a keep-alive connection finds the next head where it looks for
\* it, but for three cases: a HEAD answered by a notice, which has a body though
\* today.md:54 ticks off that none has (notices are made outside of that
\* suppression, server.rs:510 and lib.rs:1295, 1307); a handler that gives a body
\* to a status which has none; and one that announces another length than that
\* of its body.  Compression, ranges and HEAD, which replace lengths and bodies,
\* add none (lib.rs:1614-1685, server.rs:415).
OutOfStepHasCause ==
    slack # 0 =>
        \/ exchange.via = "notice" /\ exchange.request.method = "HEAD"
        \/ /\ exchange.via = "handler"
           /\ \/ NeverBody(exchange.response)
                 /\ exchange.response.status = exchange.resource.status
              \/ Overruled(exchange.resource, exchange.response)

\* HEAD says of a body what GET would send, an informational answer apart,
\* which gets a length by HEAD alone: two places of the code compute the length,
\* `finalize_head` and `write_response`.
HeadSaysWhatGetSends ==
    (exchange.via = "handler" /\ exchange.request.method = "HEAD" /\ exchange.response.status # 0)
    => LET get == Written(Answer(exchange.resource, [exchange.request EXCEPT !.method = "GET"]))
       IN  /\ exchange.response.status = get.status
           /\ Informational(get) \/ exchange.response.length = get.length
           /\ exchange.response.content = get.content
           /\ exchange.response.vary = get.vary

\* The length that a client is told is that of the body, but for the causes
\* named, and the same for HEAD and GET (`finalize_head`, `write_response`).
LengthsTrue == OutOfStepHasCause /\ HeadSaysWhatGetSends

\* What a cache hands on is for the client that gets it: compressed only when
\* it takes gzip, and never with leave for another origin (`append_vary`).
CacheKeepsApart ==
    exchange.via = "cache" =>
        /\ exchange.response.gzip => exchange.request.gzip
        /\ exchange.response.acao \in {NoOrigin, Star, exchange.request.origin}
=============================================================================
