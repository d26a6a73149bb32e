---------------------------- MODULE ResponseProof ----------------------------
(***************************************************************************)
(* Proofs about Response, for any requests, resources, origins and sizes   *)
(* of bodies: the shape of a response behind each step of its shaping, and *)
(* from it what its client and a cache may rely on.                        *)
(***************************************************************************)
EXTENDS Response, TLAPS

Origins == {NoOrigin, Star} \cup {q.origin : q \in Requests}

ResponseType ==
    [status : Nat, from : Nat, to : Nat, gzip : BOOLEAN, length : Int,
     content : {"none", "part", "unsatisfied"}, acao : Origins, vary : SUBSET Fields]

\* Types.
TypeOK ==
    /\ config \in Configs
    /\ \/ exchange = [via |-> "none"]
       \/ exchange \in [via : {"notice"}, request : Requests, response : ResponseType]
       \/ exchange \in [via : {"handler", "cache"}, request : Requests,
                        resource : Resources, response : ResponseType]
    /\ slack \in Int

\* What is in a response for its client alone says so to caches.
Apart(p, q) ==
    /\ p.gzip => q.gzip /\ "Accept-Encoding" \in p.vary
    /\ p.acao \in {NoOrigin, Star} \/ (p.acao = q.origin /\ "Origin" \in p.vary)

\* The head tells the length of the body.
Measured(p) == p.length = Size(p)

\* What a cache may store.
Storable ==
    Cacheable => Measured(exchange.response) /\ Apart(exchange.response, exchange.request)

ResponseInv == TypeOK /\ Storable /\ RangesExact /\ LengthsTrue /\ CacheKeepsApart

-----------------------------------------------------------------------------
(* The steps of the shaping. *)

\* A field that gets a value of its type leaves a response one.
LEMMA Updates ==
  ASSUME NEW p \in ResponseType
  PROVE  /\ \A v \in Nat : /\ [p EXCEPT !.status = v] \in ResponseType
                            /\ [p EXCEPT !.from = v] \in ResponseType
                            /\ [p EXCEPT !.to = v] \in ResponseType
         /\ \A v \in BOOLEAN : [p EXCEPT !.gzip = v] \in ResponseType
         /\ \A v \in Int : [p EXCEPT !.length = v] \in ResponseType
         /\ \A v \in {"none", "part", "unsatisfied"} : [p EXCEPT !.content = v] \in ResponseType
         /\ \A v \in Origins : [p EXCEPT !.acao = v] \in ResponseType
         /\ \A v \in SUBSET Fields : [p EXCEPT !.vary = v] \in ResponseType
  <1>1. \A v \in Nat : /\ [p EXCEPT !.status = v] \in ResponseType
                        /\ [p EXCEPT !.from = v] \in ResponseType
                        /\ [p EXCEPT !.to = v] \in ResponseType
    BY DEF ResponseType
  <1>2. \A v \in BOOLEAN : [p EXCEPT !.gzip = v] \in ResponseType
    BY DEF ResponseType
  <1>3. \A v \in Int : [p EXCEPT !.length = v] \in ResponseType
    BY DEF ResponseType
  <1>4. \A v \in {"none", "part", "unsatisfied"} : [p EXCEPT !.content = v] \in ResponseType
    BY DEF ResponseType
  <1>5. \A v \in Origins : [p EXCEPT !.acao = v] \in ResponseType
    BY DEF ResponseType
  <1>6. \A v \in SUBSET Fields : [p EXCEPT !.vary = v] \in ResponseType
    BY DEF ResponseType
  <1>. QED
    BY <1>1, <1>2, <1>3, <1>4, <1>5, <1>6

\* What a handler has made is sent whole, with no origin let in.
Whole(r, m) ==
    /\ m \in ResponseType
    /\ m.status = r.status /\ m.from = 0 /\ m.to = r.size
    /\ m.gzip = FALSE /\ m.content = "none" /\ m.acao = NoOrigin
    /\ m.length = r.length
    /\ r.status \in 100..999 /\ r.size \in Nat /\ r.length \in Nat \cup {Absent}

\* `into_http_response` makes a whole response.
LEMMA MadeShape ==
  ASSUME NEW r \in Resources
  PROVE  Whole(r, Made(r))
  <1>. DEFINE p1 == [Panicked EXCEPT !.status = r.status]
              p2 == [p1 EXCEPT !.to = r.size]
              p3 == [p2 EXCEPT !.vary = r.vary]
  <1>1. /\ r.status \in 100..999 /\ r.status \in Nat /\ r.size \in Nat
        /\ r.length \in Nat \cup {Absent} /\ r.length \in Int /\ r.vary \in SUBSET Fields
    BY TypesAssumption DEF ResourceType, Absent
  <1>2. Panicked \in ResponseType
    BY DEF Panicked, ResponseType, Origins, Absent
  <1>3. p1 \in ResponseType
    BY <1>1, <1>2, Updates
  <1>4. p2 \in ResponseType
    BY <1>1, <1>3, Updates
  <1>5. p3 \in ResponseType
    BY <1>1, <1>4, Updates
  <1>6. [p3 EXCEPT !.length = r.length] \in ResponseType
    BY <1>1, <1>5, Updates
  <1>7. Made(r) = [p3 EXCEPT !.length = r.length]
    BY DEF Made
  <1>. QED
    BY <1>1, <1>6, <1>7 DEF Panicked, ResponseType, Whole

\* CORS changes nothing but the origin let in and Vary.
OriginApart(p, q, c) ==
    /\ c \in ResponseType
    /\ c.status = p.status /\ c.from = p.from /\ c.to = p.to /\ c.gzip = p.gzip
    /\ c.length = p.length /\ c.content = p.content
    /\ p.gzip = FALSE => Apart(c, q)

\* `finalize_cors` of an actual request.
LEMMA CorsShape ==
  ASSUME NEW q \in Requests, NEW p \in ResponseType, p.acao = NoOrigin
  PROVE  OriginApart(p, q, Cors(p, q, FALSE))
  <1>1. q.origin \in Origins /\ Star \in Origins
    BY DEF Origins
  <1>2. CASE Cors(p, q, FALSE) = p
    BY <1>2 DEF Apart, OriginApart
  <1>3. CASE Cors(p, q, FALSE) = [p EXCEPT
                !.acao = IF config.cors.form = "star" THEN Star ELSE q.origin,
                !.vary = @ \cup {"Origin"}]
    <2>. DEFINE v == p.vary \cup {"Origin"}
                o == IF config.cors.form = "star" THEN Star ELSE q.origin
    <2>1. v \in SUBSET Fields /\ o \in Origins
      BY <1>1 DEF ResponseType, Fields
    <2>2. [p EXCEPT !.acao = o] \in ResponseType
      BY <2>1, Updates
    <2>3. [[p EXCEPT !.acao = o] EXCEPT !.vary = v] \in ResponseType
      BY <2>1, <2>2, Updates
    <2>4. Cors(p, q, FALSE) = [[p EXCEPT !.acao = o] EXCEPT !.vary = v]
      BY <1>3
    <2>. QED
      BY <2>3, <2>4 DEF ResponseType, Apart, OriginApart
  <1>. QED
    BY <1>2, <1>3 DEF Cors

\* A preflight that is refused gets a notice.
Preflighted(p, c) ==
    /\ c \in ResponseType /\ c.gzip = p.gzip /\ c.length = p.length
    /\ \/ c.status = p.status /\ c.from = p.from /\ c.to = p.to
       \/ c.status = 403 /\ c.from = 0 /\ c.to = NoticeSize

\* `finalize_cors` of a preflight.
LEMMA PreflightShape ==
  ASSUME NEW q \in Requests, NEW p \in ResponseType
  PROVE  Preflighted(p, Cors(p, q, TRUE))
  <1>1. q.origin \in Origins /\ Star \in Origins
    BY DEF Origins
  <1>2. CASE Cors(p, q, TRUE) = p
    BY <1>2 DEF Preflighted
  <1>3. CASE Cors(p, q, TRUE) = [p EXCEPT !.status = 403, !.from = 0, !.to = NoticeSize]
    <2>. DEFINE p1 == [p EXCEPT !.status = 403]
    <2>1. p1 \in ResponseType
      BY DEF ResponseType
    <2>. HIDE DEF p1
    <2>. DEFINE p2 == [p1 EXCEPT !.from = 0]
    <2>2. p2 \in ResponseType
      BY <2>1 DEF ResponseType
    <2>. HIDE DEF p2
    <2>. DEFINE c == [p2 EXCEPT !.to = NoticeSize]
    <2>3. c \in ResponseType
      BY <2>2, SizesAssumption DEF ResponseType
    <2>4. Cors(p, q, TRUE) = c
      BY <1>3 DEF p1, p2
    <2>5. /\ c.status = 403 /\ c.from = 0 /\ c.to = NoticeSize
          /\ c.gzip = p.gzip /\ c.length = p.length
      BY DEF p1, p2, ResponseType
    <2>. HIDE DEF c
    <2>. QED
      BY <2>3, <2>4, <2>5 DEF Preflighted
  <1>4. CASE Cors(p, q, TRUE) = [p EXCEPT
                !.acao = IF config.cors.form = "star" THEN Star ELSE q.origin,
                !.vary = @ \cup {"Origin"}]
    <2>. DEFINE v == p.vary \cup {"Origin"}
                o == IF config.cors.form = "star" THEN Star ELSE q.origin
    <2>1. v \in SUBSET Fields /\ o \in Origins
      BY <1>1 DEF ResponseType, Fields
    <2>2. [p EXCEPT !.acao = o] \in ResponseType
      BY <2>1, Updates
    <2>3. [[p EXCEPT !.acao = o] EXCEPT !.vary = v] \in ResponseType
      BY <2>1, <2>2, Updates
    <2>4. Cors(p, q, TRUE) = [[p EXCEPT !.acao = o] EXCEPT !.vary = v]
      BY <1>4
    <2>. QED
      BY <2>3, <2>4 DEF ResponseType, Preflighted
  <1>. QED
    BY <1>2, <1>3, <1>4 DEF Cors

\* What the arithmetic of ranges comes to.
LEMMA SpanBounds ==
  ASSUME NEW s, s.first \in PartOfRange, s.last \in PartOfRange, NEW total \in Nat
  PROVE  /\ ~Satisfiable(s, total) => Named(s, total) = {}
         /\ Satisfiable(s, total) /\ total = 0 =>
               s.first = Absent /\ s.last > 0 /\ LastByte(s, total) = 0
         /\ Satisfiable(s, total) /\ total > 0 /\ s.form # "malformed" =>
               /\ FirstByte(s, total) \in Nat /\ LastByte(s, total) \in Nat
               /\ FirstByte(s, total) <= LastByte(s, total) /\ LastByte(s, total) < total
               /\ FirstByte(s, total)..LastByte(s, total) = Named(s, total)
  <1>. DEFINE f == s.first  l == s.last
  <1>1. f \in Nat \/ f = -1 \/ f = -2
    BY DEF PartOfRange, Absent, NotNumber
  <1>2. l \in Nat \/ l = -1 \/ l = -2
    BY DEF PartOfRange, Absent, NotNumber
  <1>. HIDE DEF f, l
  <1>3. Satisfiable(s, total) <=>
            IF f = -1 THEN l > 0
            ELSE f \in 0..total - 1 /\ l # -2 /\ (l = -1 \/ f <= Least(l, total - 1))
    BY DEF Satisfiable, f, l, Absent, NotNumber
  <1>4. FirstByte(s, total) = IF f = -1 THEN total - Least(l, total) ELSE f
    BY DEF FirstByte, f, l, Absent
  <1>5. LastByte(s, total) = IF f # -1 /\ l # -1 THEN Least(l, total - 1)
                             ELSE IF total = 0 THEN 0 ELSE total - 1
    BY DEF LastByte, f, l, Absent
  <1>6. \A i : i \in Named(s, total) <=>
            /\ i \in 0..total - 1
            /\ s.form # "malformed"
            /\ IF f = -1 THEN l > 0 /\ i >= total - l
               ELSE 0 <= f /\ f <= i /\ (l # -1 => i <= l)
    BY DEF Named, f, l, Absent
  <1>7. ~Satisfiable(s, total) => Named(s, total) = {}
    BY <1>1, <1>2, <1>3, <1>6 DEF Least
  <1>8. Satisfiable(s, total) /\ total = 0 => f = -1 /\ l > 0 /\ LastByte(s, total) = 0
    BY <1>1, <1>2, <1>3, <1>5 DEF Least
  <1>9. ASSUME Satisfiable(s, total), total > 0, s.form # "malformed"
        PROVE  /\ FirstByte(s, total) \in Nat /\ LastByte(s, total) \in Nat
               /\ FirstByte(s, total) <= LastByte(s, total) /\ LastByte(s, total) < total
               /\ FirstByte(s, total)..LastByte(s, total) = Named(s, total)
    <2>1. /\ FirstByte(s, total) \in Nat /\ LastByte(s, total) \in Nat
          /\ FirstByte(s, total) <= LastByte(s, total) /\ LastByte(s, total) < total
      BY <1>1, <1>2, <1>3, <1>4, <1>5, <1>9 DEF Least
    <2>2. ASSUME NEW i
          PROVE  i \in FirstByte(s, total)..LastByte(s, total) <=> i \in Named(s, total)
      BY <1>1, <1>2, <1>3, <1>4, <1>5, <1>6, <1>9, <2>1 DEF Least
    <2>. QED
      BY <2>1, <2>2
  <1>. QED
    BY <1>7, <1>8, <1>9 DEF f, l, Absent

\* The two ways to answer a range of a whole body, and the panic.
RangeAnswered(p, s, x) ==
    LET named == Named(s, p.to)
        panic == p.to = 0 /\ s.form = "span" /\ s.first = Absent /\ s.last > 0
    IN  \/ panic /\ x = Panicked
        \/ /\ ~panic /\ x \in ResponseType
           /\ x.status = (IF named = {} THEN 416 ELSE 206)
           /\ x.from..x.to - 1 = named
           /\ x.from <= x.to /\ x.length = x.to - x.from
           /\ x.content # "none"
           /\ x.gzip = p.gzip /\ x.acao = p.acao /\ x.vary = p.vary

\* `apply_byte_range` of a whole body.
LEMMA RangedShape ==
  ASSUME NEW q \in Requests, NEW p \in ResponseType, p.from = 0,
         q.range.form \in {"malformed", "span"}
  PROVE  RangeAnswered(p, q.range, Ranged(p, q.range))
  <1>1. /\ q.range.first \in PartOfRange /\ q.range.last \in PartOfRange
        /\ q.range.form \in {"malformed", "span"}
    BY TypesAssumption DEF RequestType
  <1>2. p.to \in Nat
    BY DEF ResponseType
  <1>3. CASE q.range.form = "malformed" \/ ~Satisfiable(q.range, p.to)
    <2>1. Named(q.range, p.to) = {}
      <3>1. CASE q.range.form = "malformed"
        BY <3>1 DEF Named
      <3>. QED
        BY <1>1, <1>2, <1>3, <3>1, SpanBounds
    <2>2. q.range.form = "span" /\ q.range.first = Absent => ~(q.range.last > 0)
      BY <1>3 DEF Satisfiable
    <2>3. Ranged(p, q.range) =
            [p EXCEPT !.status = 416, !.to = 0, !.length = 0, !.content = "unsatisfied"]
      BY <1>3 DEF Ranged
    <2>. QED
      <3>. DEFINE p1 == [p EXCEPT !.status = 416]
      <3>1. p1 \in ResponseType
        BY DEF ResponseType
      <3>. HIDE DEF p1
      <3>. DEFINE p2 == [p1 EXCEPT !.to = 0]
      <3>2. p2 \in ResponseType
        BY <3>1 DEF ResponseType
      <3>. HIDE DEF p2
      <3>. DEFINE p3 == [p2 EXCEPT !.length = 0]
      <3>3. p3 \in ResponseType
        BY <3>2 DEF ResponseType
      <3>. HIDE DEF p3
      <3>. DEFINE x == [p3 EXCEPT !.content = "unsatisfied"]
      <3>4. x \in ResponseType
        BY <3>3 DEF ResponseType
      <3>5. /\ x.status = 416 /\ x.from = 0 /\ x.to = 0 /\ x.length = 0
            /\ x.content = "unsatisfied" /\ x.gzip = p.gzip /\ x.acao = p.acao
            /\ x.vary = p.vary
        BY DEF p1, p2, p3, ResponseType
      <3>6. x.from..x.to - 1 = {} /\ x.from <= x.to /\ x.length = x.to - x.from
        BY <3>5
      <3>7. Ranged(p, q.range) = x
        BY <2>3 DEF p1, p2, p3
      <3>. HIDE DEF x
      <3>. QED
        BY <2>1, <2>2, <3>4, <3>5, <3>6, <3>7 DEF RangeAnswered
  <1>4. CASE q.range.form = "span" /\ Satisfiable(q.range, p.to) /\ p.to = 0
    <2>1. q.range.first = Absent /\ q.range.last > 0 /\ LastByte(q.range, p.to) = 0
      BY <1>1, <1>2, <1>4, SpanBounds
    <2>2. Ranged(p, q.range) = Panicked
      BY <1>4, <2>1 DEF Ranged
    <2>. QED
      BY <1>4, <2>1, <2>2 DEF RangeAnswered
  <1>5. CASE q.range.form = "span" /\ Satisfiable(q.range, p.to) /\ p.to > 0
    <2>1. PICK a \in Nat, b \in Nat :
            /\ a = FirstByte(q.range, p.to) /\ b = LastByte(q.range, p.to)
            /\ a <= b /\ b < p.to /\ a..b = Named(q.range, p.to)
      BY <1>1, <1>2, <1>5, SpanBounds
    <2>2. Named(q.range, p.to) # {}
      <3>1. a \in a..b
        BY <2>1
      <3>. QED
        BY <2>1, <3>1
    <2>3. Ranged(p, q.range) = [p EXCEPT !.status = 206, !.from = a, !.to = b + 1,
                                         !.length = b + 1 - a, !.content = "part"]
      BY <1>2, <1>5, <2>1 DEF Ranged
    <2>. QED
      <3>. DEFINE p1 == [p EXCEPT !.status = 206]
      <3>1. p1 \in ResponseType
        BY DEF ResponseType
      <3>. HIDE DEF p1
      <3>. DEFINE p2 == [p1 EXCEPT !.from = a]
      <3>2. p2 \in ResponseType
        BY <3>1 DEF ResponseType
      <3>. HIDE DEF p2
      <3>. DEFINE p3 == [p2 EXCEPT !.to = b + 1]
      <3>3. p3 \in ResponseType
        BY <3>2 DEF ResponseType
      <3>. HIDE DEF p3
      <3>. DEFINE p4 == [p3 EXCEPT !.length = b + 1 - a]
      <3>4. p4 \in ResponseType
        BY <3>3 DEF ResponseType
      <3>. HIDE DEF p4
      <3>. DEFINE x == [p4 EXCEPT !.content = "part"]
      <3>5. x \in ResponseType
        BY <3>4 DEF ResponseType
      <3>6. /\ x.status = 206 /\ x.from = a /\ x.to = b + 1 /\ x.length = b + 1 - a
            /\ x.content = "part" /\ x.gzip = p.gzip /\ x.acao = p.acao /\ x.vary = p.vary
        BY DEF p1, p2, p3, p4, ResponseType
      <3>7. Ranged(p, q.range) = x
        BY <2>3 DEF p1, p2, p3, p4
      <3>. HIDE DEF x
      <3>8. x.from..x.to - 1 = a..b /\ x.from <= x.to /\ x.length = x.to - x.from
        BY <2>1, <3>6
      <3>. QED
        BY <1>5, <2>1, <2>2, <3>5, <3>6, <3>7, <3>8 DEF RangeAnswered
  <1>. QED
    BY <1>1, <1>2, <1>3, <1>4, <1>5

-----------------------------------------------------------------------------
(* What the shaping makes of a response. *)

\* Behind the ranges, and behind the compression.
Sliced(r, q) ==
    LET p == Cors(Made(r), q, FALSE)
    IN  IF r.ranges /\ q.range.form \in {"malformed", "span"} THEN Ranged(p, q.range) ELSE p
Encoded(r, q) ==
    IF Compresses(Sliced(r, q), q, r) THEN Compressed(Sliced(r, q)) ELSE Sliced(r, q)

\* A suffix of an empty body.
Impossible(r, q) ==
    /\ r.size = 0 /\ r.ranges
    /\ q.range.form = "span" /\ q.range.first = Absent /\ q.range.last > 0

\* What holds of a response before `finalize_head` looks at it.
Shaped(r, q, p) ==
    /\ p \in ResponseType /\ p.status # 0 /\ Size(p) \in Nat
    /\ Apart(p, q)
    /\ NeverBody(p) => p.status = r.status
    /\ p.length \in {Absent, Size(p)} \/ Overruled(r, p)
    /\ (r.ranges /\ q.range.form \in {"malformed", "span"}) =>
          /\ p.status = (IF Named(q.range, r.size) = {} THEN 416 ELSE 206)
          /\ p.from..p.to - 1 = Named(q.range, r.size)
          /\ p.gzip = FALSE /\ p.content # "none"

\* A compressed response loses its length and varies by Accept-Encoding.
LEMMA CompressedShape ==
  ASSUME NEW p \in ResponseType, NEW q \in Requests, p.gzip = FALSE, Apart(p, q), q.gzip
  PROVE  LET c == Compressed(p) IN
         /\ c \in ResponseType /\ c.gzip = TRUE /\ c.length = Absent
         /\ c.status = p.status /\ Apart(c, q)
  <1>. DEFINE c1 == [p EXCEPT !.gzip = TRUE]
  <1>1. c1 \in ResponseType
    BY DEF ResponseType
  <1>. HIDE DEF c1
  <1>. DEFINE c2 == [c1 EXCEPT !.length = Absent]
  <1>2. c2 \in ResponseType
    BY <1>1 DEF ResponseType, Absent
  <1>. HIDE DEF c2
  <1>. DEFINE v == p.vary \cup {"Accept-Encoding"}
              c == [c2 EXCEPT !.vary = v]
  <1>3. v \in SUBSET Fields
    BY DEF ResponseType, Fields
  <1>4. c \in ResponseType
    BY <1>2, <1>3, Updates
  <1>5. Compressed(p) = c
    BY DEF Compressed, c1, c2
  <1>6. /\ c.gzip = TRUE /\ c.length = Absent /\ c.status = p.status
        /\ c.acao = p.acao /\ c.vary = v
    BY DEF c1, c2, ResponseType
  <1>. HIDE DEF c
  <1>7. Apart(c, q)
    BY <1>6 DEF Apart
  <1>. QED
    BY <1>4, <1>5, <1>6, <1>7

\* Taking the body away leaves its length in the head.
Bared(p, q, w) ==
    /\ w \in ResponseType /\ w.gzip = FALSE /\ w.from = p.from /\ w.to = p.from
    /\ w.status = p.status /\ w.content = p.content /\ w.vary = p.vary
    /\ w.length = (IF p.length = Absent THEN Size(p) ELSE p.length)
    /\ Apart(w, q)

\* `finalize_head` of a HEAD.
LEMMA WithoutBodyShape ==
  ASSUME NEW p \in ResponseType, NEW q \in Requests, Apart(p, q), Size(p) \in Nat
  PROVE  Bared(p, q, WithoutBody(p))
  <1>. DEFINE w1 == [p EXCEPT !.to = p.from]
  <1>1. w1 \in ResponseType
    BY DEF ResponseType
  <1>. HIDE DEF w1
  <1>. DEFINE w2 == [w1 EXCEPT !.gzip = FALSE]
  <1>2. w2 \in ResponseType
    BY <1>1 DEF ResponseType
  <1>. HIDE DEF w2
  <1>. DEFINE n == IF p.length = Absent THEN Size(p) ELSE p.length
              w == [w2 EXCEPT !.length = n]
  <1>3. n \in Int
    BY DEF ResponseType
  <1>4. w \in ResponseType
    BY <1>2, <1>3, Updates
  <1>5. WithoutBody(p) = w
    BY DEF WithoutBody, w1, w2
  <1>6. /\ w.gzip = FALSE /\ w.from = p.from /\ w.to = p.from /\ w.status = p.status
        /\ w.content = p.content /\ w.vary = p.vary /\ w.acao = p.acao /\ w.length = n
    BY DEF w1, w2, ResponseType
  <1>. HIDE DEF w
  <1>7. Apart(w, q)
    BY <1>6 DEF Apart
  <1>. QED
    BY <1>4, <1>5, <1>6, <1>7 DEF Bared

\* Writing changes nothing but an absent length.
LengthSet(p, w) ==
    /\ w \in ResponseType
    /\ w.status = p.status /\ w.from = p.from /\ w.to = p.to /\ w.gzip = p.gzip
    /\ w.content = p.content /\ w.acao = p.acao /\ w.vary = p.vary
    /\ w.length = (IF p.length = Absent /\ ~Informational(p) THEN Size(p) ELSE p.length)
    /\ Size(w) = Size(p)

\* `write_response` of any response.
LEMMA WrittenShape ==
  ASSUME NEW p \in ResponseType, Size(p) \in Nat
  PROVE  LengthSet(p, Written(p))
  <1>1. CASE p.length = Absent /\ ~Informational(p)
    <2>. DEFINE w == [p EXCEPT !.length = Size(p)]
    <2>1. w \in ResponseType
      BY DEF ResponseType
    <2>2. /\ w.status = p.status /\ w.from = p.from /\ w.to = p.to /\ w.gzip = p.gzip
          /\ w.content = p.content /\ w.acao = p.acao /\ w.vary = p.vary
          /\ w.length = Size(p)
      BY DEF ResponseType
    <2>3. Written(p) = w
      BY <1>1 DEF Written
    <2>. HIDE DEF w
    <2>. QED
      BY <1>1, <2>1, <2>2, <2>3 DEF Size, LengthSet
  <1>2. CASE ~(p.length = Absent /\ ~Informational(p))
    BY <1>2 DEF Written, LengthSet
  <1>. QED
    BY <1>1, <1>2

\* Behind the ranges a response is shaped, unless the slice has panicked.
LEMMA SlicedShape ==
  ASSUME NEW r \in Resources, NEW q \in Requests
  PROVE  IF Impossible(r, q) THEN Sliced(r, q) = Panicked
         ELSE Shaped(r, q, Sliced(r, q)) /\ Sliced(r, q).gzip = FALSE
  <1>. DEFINE m == Made(r)
  <1>0. /\ m \in ResponseType
        /\ m.status = r.status /\ m.from = 0 /\ m.to = r.size
        /\ m.gzip = FALSE /\ m.content = "none" /\ m.acao = NoOrigin
        /\ m.length = r.length
        /\ r.status \in 100..999 /\ r.size \in Nat /\ r.length \in Nat \cup {Absent}
    <2>1. Whole(r, m)
      BY MadeShape
    <2>. HIDE DEF m
    <2>. QED
      BY <2>1 DEF Whole
  <1>. HIDE DEF m
  <1>. DEFINE c == Cors(m, q, FALSE)
  <1>1. /\ c \in ResponseType
        /\ c.status = r.status /\ c.from = 0 /\ c.to = r.size /\ c.gzip = FALSE
        /\ c.length = r.length /\ c.content = "none"
        /\ Apart(c, q)
    <2>1. OriginApart(m, q, c)
      BY <1>0, CorsShape
    <2>. HIDE DEF c
    <2>. QED
      BY <1>0, <2>1 DEF OriginApart
  <1>2. r.status \in 100..999 /\ r.size \in Nat
    BY <1>0
  <1>. HIDE DEF c
  <1>3. CASE r.ranges /\ q.range.form \in {"malformed", "span"}
    <2>. DEFINE x == Ranged(c, q.range)
    <2>1. RangeAnswered(c, q.range, x)
      BY <1>1, <1>3, RangedShape
    <2>2. Sliced(r, q) = x
      BY <1>3 DEF Sliced, c, m
    <2>. HIDE DEF x
    <2>3. CASE Impossible(r, q)
      BY <1>1, <2>1, <2>2, <2>3 DEF RangeAnswered, Impossible
    <2>4. CASE ~Impossible(r, q)
      <3>1. /\ x \in ResponseType
            /\ x.status = (IF Named(q.range, r.size) = {} THEN 416 ELSE 206)
            /\ x.from..x.to - 1 = Named(q.range, r.size)
            /\ x.from <= x.to /\ x.length = x.to - x.from
            /\ x.content # "none"
            /\ x.gzip = FALSE /\ x.acao = c.acao /\ x.vary = c.vary
        BY <1>1, <1>3, <2>1, <2>4 DEF RangeAnswered, Impossible
      <3>2. Apart(x, q)
        BY <1>1, <3>1 DEF Apart
      <3>3. x.from \in Nat /\ x.to \in Nat
        BY <3>1 DEF ResponseType
      <3>4. Size(x) = x.to - x.from /\ Size(x) \in Nat
        BY <3>1, <3>3 DEF Size
      <3>5. x.status \in {206, 416}
        BY <3>1
      <3>6. x.status # 0 /\ ~NeverBody(x)
        BY <3>5 DEF NeverBody, Informational
      <3>7. Shaped(r, q, x)
        BY <3>1, <3>2, <3>4, <3>6 DEF Shaped
      <3>. QED
        BY <2>2, <2>4, <3>1, <3>7
    <2>. QED
      BY <2>3, <2>4
  <1>4. CASE ~(r.ranges /\ q.range.form \in {"malformed", "span"})
    <2>1. ~Impossible(r, q)
      BY <1>4 DEF Impossible
    <2>2. Sliced(r, q) = c
      BY <1>4 DEF Sliced, c, m
    <2>3. Size(c) = r.size
      BY <1>1, <1>2 DEF Size
    <2>4. c.status # 0
      BY <1>1, <1>2
    <2>5. c.length \in {Absent, Size(c)} \/ Overruled(r, c)
      BY <1>1, <2>3 DEF Overruled
    <2>6. Shaped(r, q, c)
      BY <1>1, <1>2, <1>4, <2>3, <2>4, <2>5 DEF Shaped
    <2>. QED
      BY <1>1, <2>1, <2>2, <2>6
  <1>. QED
    BY <1>3, <1>4

\* Compression keeps it so: it leaves the answer to a range alone.
LEMMA EncodedShape ==
  ASSUME NEW r \in Resources, NEW q \in Requests
  PROVE  IF Impossible(r, q) THEN Sliced(r, q) = Panicked /\ Encoded(r, q) = Panicked
         ELSE Sliced(r, q) # Panicked /\ Shaped(r, q, Encoded(r, q))
  <1>. DEFINE s == Sliced(r, q)
  <1>1. Panicked.status = 0
    BY DEF Panicked
  <1>2. CASE Impossible(r, q)
    <2>1. s = Panicked
      BY <1>2, SlicedShape
    <2>2. ~Compresses(s, q, r)
      BY <1>1, <2>1 DEF Compresses
    <2>. QED
      BY <1>2, <2>1, <2>2 DEF Encoded
  <1>3. CASE ~Impossible(r, q) /\ Compresses(s, q, r)
    <2>1. Shaped(r, q, s) /\ s.gzip = FALSE
      BY <1>3, SlicedShape
    <2>. HIDE DEF s
    <2>2. s.content = "none" /\ s.status = 200 /\ q.gzip
      BY <1>3 DEF Compresses
    <2>. DEFINE e == Compressed(s)
    <2>3. /\ e \in ResponseType /\ e.gzip = TRUE /\ e.length = Absent
          /\ e.status = 200 /\ Apart(e, q)
      <3>1. s \in ResponseType /\ Apart(s, q)
        BY <2>1 DEF Shaped
      <3>. QED
        BY <2>1, <2>2, <3>1, CompressedShape
    <2>4. Encoded(r, q) = e
      BY <1>3 DEF Encoded, s
    <2>. HIDE DEF e
    <2>5. Size(e) \in Nat
      BY <2>3, SizesAssumption DEF Size
    <2>6. ~(r.ranges /\ q.range.form \in {"malformed", "span"})
      BY <2>1, <2>2 DEF Shaped
    <2>7. s # Panicked
      BY <1>1, <2>2
    <2>8. ~NeverBody(e) /\ e.status # 0
      BY <2>3 DEF NeverBody, Informational
    <2>9. Shaped(r, q, e)
      BY <2>3, <2>5, <2>6, <2>8 DEF Shaped
    <2>. QED
      BY <1>3, <2>4, <2>7, <2>9 DEF s
  <1>4. CASE ~Impossible(r, q) /\ ~Compresses(s, q, r)
    <2>1. Shaped(r, q, s)
      BY <1>4, SlicedShape
    <2>2. s # Panicked
      BY <1>1, <2>1 DEF Shaped
    <2>. QED
      BY <1>4, <2>1, <2>2 DEF Encoded
  <1>. QED
    BY <1>2, <1>3, <1>4

\* `finalize_http_response` in these terms.
LEMMA FinalizedIs ==
  ASSUME NEW r \in Resources, NEW q \in Requests
  PROVE  Finalized(r, q) = IF q.method = "HEAD" /\ Sliced(r, q) # Panicked
                           THEN WithoutBody(Encoded(r, q)) ELSE Encoded(r, q)
  BY DEF Finalized, Encoded, Sliced

\* What `dispatch_inner` answers to a HEAD and to the GET it stands for.
LEMMA HeadIsGet ==
  ASSUME NEW r \in Resources, NEW q \in Requests, ~Impossible(r, q), q.method = "HEAD"
  PROVE  LET w == Written(Answer(r, q))
             g == Written(Answer(r, [q EXCEPT !.method = "GET"]))
         IN  /\ w.status = g.status /\ (Informational(g) \/ w.length = g.length)
             /\ w.content = g.content /\ w.vary = g.vary
  <1>. DEFINE get == [q EXCEPT !.method = "GET"]
              e == Encoded(r, q)
  <1>1. q \in RequestType
    BY TypesAssumption
  <1>2. /\ get.method = "GET" /\ get.range = q.range /\ get.gzip = q.gzip
        /\ get.origin = q.origin
    BY <1>1 DEF RequestType
  <1>. HIDE DEF get
  <1>3. Sliced(r, get) = Sliced(r, q)
    BY <1>2 DEF Sliced, Cors
  <1>4. Encoded(r, get) = e
    BY <1>2, <1>3 DEF Encoded, Compresses
  <1>5. Answer(r, q) = WithoutBody(e) /\ Answer(r, get) = e
    <2>1. Answer(r, q) = Finalized(r, q) /\ Answer(r, get) = Finalized(r, get)
      BY <1>2 DEF Answer
    <2>2. Finalized(r, q) = WithoutBody(e)
      BY EncodedShape, FinalizedIs
    <2>3. Finalized(r, get) = e
      BY <1>2, <1>4 DEF Finalized, Encoded, Sliced
    <2>. QED
      BY <2>1, <2>2, <2>3
  <1>6. Shaped(r, q, e)
    BY EncodedShape
  <1>. HIDE DEF e
  <1>. DEFINE w == WithoutBody(e)
              n == IF e.length = Absent THEN Size(e) ELSE e.length
  <1>7. /\ w \in ResponseType /\ w.gzip = FALSE /\ w.from = e.from /\ w.to = e.from
        /\ w.status = e.status /\ w.content = e.content /\ w.vary = e.vary
        /\ w.length = n
    <2>1. e \in ResponseType /\ Apart(e, q) /\ Size(e) \in Nat
      BY <1>6 DEF Shaped
    <2>2. Bared(e, q, w)
      BY <2>1, WithoutBodyShape
    <2>. HIDE DEF w
    <2>. QED
      BY <2>1, <2>2 DEF Bared
  <1>8. Size(e) \in Nat /\ e \in ResponseType /\ n # Absent
    BY <1>6 DEF Shaped, Absent
  <1>. HIDE DEF w
  <1>9. Size(w) = 0
    BY <1>7, <1>8 DEF Size, ResponseType
  <1>10. Written(w).status = e.status /\ Written(w).length = n
         /\ Written(w).content = e.content /\ Written(w).vary = e.vary
    <2>1. LengthSet(w, Written(w))
      BY <1>7, <1>9, WrittenShape
    <2>. QED
      BY <1>7, <1>8, <2>1 DEF LengthSet
  <1>11. /\ Written(e).status = e.status
         /\ Informational(Written(e)) \/ Written(e).length = n
         /\ Written(e).content = e.content /\ Written(e).vary = e.vary
    <2>1. LengthSet(e, Written(e))
      BY <1>8, WrittenShape
    <2>. QED
      BY <1>8, <2>1 DEF LengthSet, Informational
  <1>. QED
    BY <1>5, <1>10, <1>11 DEF w, get

-----------------------------------------------------------------------------
(* The exchanges. *)

\* What is written for an answer of a handler.
Sent(r, q) == IF Answer(r, q).status = 0 THEN Answer(r, q) ELSE Written(Answer(r, q))

\* What holds of it, but for the panic.
Answered(r, q, p) ==
    /\ p \in ResponseType /\ p.status # 0
    /\ NeverBody(p) => p.status = r.status
    /\ q.method = "HEAD" => Size(p) = 0
    /\ q.method # "HEAD" => Measured(p) \/ Overruled(r, p) \/ NeverBody(p)
    /\ q.method = "GET" => Apart(p, q)
    /\ (r.ranges /\ q.method = "GET" /\ q.range.form \in {"malformed", "span"}) =>
          /\ p.status = (IF Named(q.range, r.size) = {} THEN 416 ELSE 206)
          /\ p.from..p.to - 1 = Named(q.range, r.size)
          /\ ~p.gzip

\* The answer to OPTIONS has a length of its own making.
LEMMA PreflightAnswered ==
  ASSUME NEW r \in Resources, NEW q \in Requests, MadeFor(q, r), q.method = "OPTIONS"
  PROVE  Answered(r, q, Sent(r, q))
  <1>. DEFINE m == Made(r)
              c == Cors(m, q, TRUE)
              w == Written(c)
  <1>1. Whole(r, m)
    BY MadeShape
  <1>2. Answer(r, q) = c
    BY DEF Answer
  <1>3. r.status \in {204, 404} /\ r.length = Absent
    BY DEF MadeFor
  <1>. HIDE DEF m
  <1>4. m \in ResponseType
    BY <1>1 DEF Whole
  <1>5. Preflighted(m, c)
    BY <1>4, PreflightShape
  <1>. HIDE DEF c
  <1>6. c \in ResponseType /\ c.gzip = FALSE /\ c.length = Absent
    BY <1>1, <1>3, <1>5 DEF Preflighted, Whole
  <1>7. c.status \in {r.status, 403} /\ Size(c) \in Nat
    BY <1>1, <1>5, SizesAssumption DEF Preflighted, Whole, Size
  <1>8. LengthSet(c, w)
    BY <1>6, <1>7, WrittenShape
  <1>. HIDE DEF w
  <1>9. c.status # 0 /\ ~Informational(c) /\ (NeverBody(c) => c.status = r.status)
    BY <1>3, <1>7 DEF NeverBody, Informational
  <1>10. Sent(r, q) = w
    BY <1>2, <1>9 DEF Sent, w
  <1>. QED
    BY <1>6, <1>8, <1>9, <1>10 DEF LengthSet, Answered, Measured, NeverBody, Informational

\* The answer to GET and HEAD, or the panic of the slice.
LEMMA FinalizedAnswered ==
  ASSUME NEW r \in Resources, NEW q \in Requests, q.method # "OPTIONS"
  PROVE  IF Impossible(r, q) THEN Sent(r, q) = Panicked ELSE Answered(r, q, Sent(r, q))
  <1>. DEFINE e == Encoded(r, q)
  <1>1. Answer(r, q) = Finalized(r, q)
    BY DEF Answer
  <1>2. CASE Impossible(r, q)
    <2>1. Answer(r, q) = Panicked
      BY <1>1, <1>2, EncodedShape, FinalizedIs
    <2>. QED
      BY <1>2, <2>1 DEF Sent, Panicked
  <1>3. CASE ~Impossible(r, q) /\ q.method = "HEAD"
    <2>. DEFINE b == WithoutBody(e)
                w == Written(b)
    <2>1. Answer(r, q) = b
      BY <1>1, <1>3, EncodedShape, FinalizedIs
    <2>2. Shaped(r, q, e)
      BY <1>3, EncodedShape
    <2>. HIDE DEF e
    <2>3. /\ e \in ResponseType /\ Apart(e, q) /\ Size(e) \in Nat /\ e.status # 0
          /\ NeverBody(e) => e.status = r.status
      BY <2>2 DEF Shaped
    <2>4. Bared(e, q, b)
      BY <2>3, WithoutBodyShape
    <2>. HIDE DEF b
    <2>5. b \in ResponseType /\ b.status = e.status /\ b.gzip = FALSE /\ b.from = b.to
      BY <2>4 DEF Bared
    <2>6. Size(b) = 0
      BY <2>5 DEF Size, ResponseType
    <2>7. LengthSet(b, w)
      BY <2>5, <2>6, WrittenShape
    <2>8. Sent(r, q) = w
      BY <2>1, <2>3, <2>5 DEF Sent
    <2>. HIDE DEF w
    <2>9. w \in ResponseType /\ w.status = e.status /\ Size(w) = 0
      BY <2>5, <2>6, <2>7 DEF LengthSet
    <2>. QED
      BY <1>3, <2>3, <2>8, <2>9 DEF Answered, NeverBody, Informational
  <1>4. CASE ~Impossible(r, q) /\ q.method # "HEAD"
    <2>. DEFINE w == Written(e)
    <2>1. Answer(r, q) = e
      BY <1>1, <1>4, FinalizedIs
    <2>2. Shaped(r, q, e)
      BY <1>4, EncodedShape
    <2>. HIDE DEF e
    <2>3. /\ e \in ResponseType /\ Size(e) \in Nat /\ e.status # 0
          /\ e.length \in {Absent, Size(e)} \/ Overruled(r, e)
      BY <2>2 DEF Shaped
    <2>4. LengthSet(e, w)
      BY <2>3, WrittenShape
    <2>5. Sent(r, q) = w
      BY <2>1, <2>3 DEF Sent
    <2>. HIDE DEF w
    <2>6. /\ w \in ResponseType /\ w.status = e.status /\ w.from = e.from /\ w.to = e.to
          /\ w.gzip = e.gzip /\ w.acao = e.acao /\ w.vary = e.vary
      BY <2>4 DEF LengthSet
    <2>0. Measured(w) \/ Overruled(r, w) \/ NeverBody(w)
      BY <2>3, <2>4 DEF LengthSet, Measured, Overruled, NeverBody, Informational
    <2>7. Apart(w, q)
      BY <2>2, <2>6 DEF Shaped, Apart
    <2>8. NeverBody(w) => w.status = r.status
      BY <2>2, <2>6 DEF Shaped, NeverBody, Informational
    <2>9. (r.ranges /\ q.range.form \in {"malformed", "span"}) =>
            /\ w.status = (IF Named(q.range, r.size) = {} THEN 416 ELSE 206)
            /\ w.from..w.to - 1 = Named(q.range, r.size)
            /\ ~w.gzip
      BY <2>2, <2>6 DEF Shaped
    <2>. QED
      BY <1>4, <2>0, <2>3, <2>5, <2>6, <2>7, <2>8, <2>9 DEF Answered
  <1>. QED
    BY <1>2, <1>3, <1>4

-----------------------------------------------------------------------------
(* The invariant. *)

\* A new connection has sent nothing.
LEMMA InitInv == Init => ResponseInv
  BY DEF Init, ResponseInv, TypeOK, Storable, RangesExact, LengthsTrue, OutOfStepHasCause,
         HeadSaysWhatGetSends, CacheKeepsApart, Cacheable

\* The invariant is about these variables alone.
LEMMA StutterInv == ResponseInv /\ UNCHANGED vars => ResponseInv'
  <1>. SUFFICES ASSUME ResponseInv, UNCHANGED vars PROVE ResponseInv'
    OBVIOUS
  <1>1. config' = config /\ exchange' = exchange /\ slack' = slack
    BY DEF vars
  <1>2. TypeOK' /\ Storable' /\ RangesExact' /\ OutOfStepHasCause' /\ CacheKeepsApart'
    BY <1>1 DEF ResponseInv, LengthsTrue, TypeOK, Storable, Cacheable, RangesExact,
                OutOfStepHasCause, CacheKeepsApart
  <1>3. HeadSaysWhatGetSends'
    <2>. DEFINE g == Written(Answer(exchange.resource, [exchange.request EXCEPT !.method = "GET"]))
    <2>1. g' = g
      BY <1>1 DEF Answer, Finalized, Cors, Compresses, AllowedOrigin
    <2>. QED
      BY <1>1, <2>1 DEF ResponseInv, LengthsTrue, HeadSaysWhatGetSends
  <1>. QED
    BY <1>2, <1>3 DEF ResponseInv, LengthsTrue

\* A notice has a length and belongs to nobody.
LEMMA NoticeStep ==
  ASSUME ResponseInv, NEW q \in Requests, NEW code \in {403, 429, 503}, SendNotice(q, code)
  PROVE  ResponseInv'
  <1>. DEFINE n == Notice(code)
              w == Written(n)
              sent == [via |-> "notice", request |-> q, response |-> w]
  <1>1. n \in ResponseType /\ n.status = code /\ Size(n) \in Nat /\ n.length = Absent
    <2>. DEFINE p1 == [Panicked EXCEPT !.status = code]
    <2>0. Panicked \in ResponseType /\ Panicked.gzip = FALSE /\ Panicked.from = 0
          /\ Panicked.length = Absent
      BY DEF Panicked, ResponseType, Origins, Absent
    <2>1. p1 \in ResponseType /\ p1.status = code /\ p1.gzip = FALSE /\ p1.from = 0
          /\ p1.length = Absent
      BY <2>0 DEF ResponseType
    <2>2. n = [p1 EXCEPT !.to = NoticeSize]
      BY DEF Notice
    <2>. HIDE DEF p1, n
    <2>3. n \in ResponseType /\ n.status = code /\ n.gzip = FALSE /\ n.from = 0
          /\ n.length = Absent /\ n.to = NoticeSize
      BY <2>1, <2>2, SizesAssumption DEF ResponseType
    <2>. QED
      BY <2>3, SizesAssumption DEF Size
  <1>. HIDE DEF n
  <1>2. LengthSet(n, w)
    BY <1>1, WrittenShape
  <1>3. exchange' = sent /\ config' = config
        /\ slack' = IF w.status = 0 THEN 0 ELSE Size(w) - Expected(w, q)
    BY DEF SendNotice, Send, n
  <1>. HIDE DEF w
  <1>4. w \in ResponseType /\ w.status = code /\ Size(w) \in Nat /\ w.length = Size(w)
    BY <1>1, <1>2 DEF LengthSet, Informational
  <1>5. Expected(w, q) = IF q.method = "HEAD" THEN 0 ELSE Size(w)
    BY <1>4 DEF Expected, Bodiless, NeverBody, Informational
  <1>6. slack' = IF q.method = "HEAD" THEN Size(w) ELSE 0
    BY <1>3, <1>4, <1>5
  <1>7. TypeOK'
    BY <1>3, <1>4, <1>6 DEF ResponseInv, TypeOK
  <1>8. OutOfStepHasCause'
    BY <1>3, <1>6 DEF OutOfStepHasCause
  <1>9. Storable' /\ RangesExact' /\ HeadSaysWhatGetSends' /\ CacheKeepsApart'
    BY <1>3 DEF Storable, Cacheable, RangesExact, HeadSaysWhatGetSends, CacheKeepsApart
  <1>. QED
    BY <1>7, <1>8, <1>9 DEF ResponseInv, LengthsTrue

\* What a handler has made.
LEMMA HandlerStep ==
  ASSUME ResponseInv, NEW q \in Requests, NEW r \in Resources, Dispatched(q, r)
  PROVE  ResponseInv'
  <1>. DEFINE w == Sent(r, q)
              sent == [via |-> "handler", request |-> q, resource |-> r, response |-> w]
  <1>1. exchange' = sent /\ config' = config
        /\ slack' = IF w.status = 0 THEN 0 ELSE Size(w) - Expected(w, q)
    BY DEF Dispatched, Send, Sent
  <1>2. PanicsOn(r, q) <=> Impossible(r, q) /\ q.method # "OPTIONS"
    BY DEF PanicsOn, Impossible
  <1>3. IF PanicsOn(r, q) THEN w = Panicked ELSE Answered(r, q, w)
    BY <1>2, PreflightAnswered, FinalizedAnswered DEF Dispatched
  <1>. HIDE DEF w
  <1>4. Panicked \in ResponseType /\ Panicked.status = 0
    BY DEF Panicked, ResponseType, Origins, Absent
  <1>5. w \in ResponseType /\ (w.status = 0 <=> PanicsOn(r, q))
    BY <1>3, <1>4 DEF Answered
  <1>6. Size(w) \in Int /\ Expected(w, q) \in Int
    BY <1>5, SizesAssumption DEF ResponseType, Size, Expected
  <1>7. TypeOK'
    BY <1>1, <1>5, <1>6 DEF ResponseInv, TypeOK
  <1>8. Storable'
    <2>. SUFFICES ASSUME Cacheable' PROVE Measured(w) /\ Apart(w, q)
      BY <1>1 DEF Storable
    <2>1. slack' = 0 /\ q.method = "GET" /\ w.status = 200
      BY <1>1 DEF Cacheable
    <2>2. Answered(r, q, w)
      BY <1>3, <1>5, <2>1
    <2>3. Expected(w, q) = w.length
      BY <2>1 DEF Expected, Bodiless, NeverBody, Informational
    <2>4. w.length = Size(w)
      BY <1>1, <1>6, <2>1, <2>3
    <2>. QED
      BY <2>1, <2>2, <2>4 DEF Answered, Measured
  <1>9. RangesExact'
    <2>1. PanicsOn(r, q) \/ Answered(r, q, w)
      BY <1>3
    <2>. QED
      BY <1>1, <1>5, <2>1 DEF RangesExact, Answered
  <1>10. OutOfStepHasCause'
    <2>1. CASE PanicsOn(r, q)
      BY <1>1, <1>5, <2>1 DEF OutOfStepHasCause
    <2>2. CASE ~PanicsOn(r, q)
      <3>1. \/ NeverBody(w) /\ w.status = r.status
            \/ Overruled(r, w)
            \/ Size(w) = Expected(w, q)
        BY <1>3, <2>2 DEF Answered, Measured, Expected, Bodiless
      <3>. QED
        BY <1>1, <1>5, <1>6, <3>1 DEF OutOfStepHasCause
    <2>. QED
      BY <2>1, <2>2
  <1>11. HeadSaysWhatGetSends'
    <2>1. CASE q.method = "HEAD" /\ ~PanicsOn(r, q)
      <3>. DEFINE get == [q EXCEPT !.method = "GET"]
                  g == Written(Answer(r, get))
      <3>1. ~Impossible(r, q) /\ Answer(r, q).status # 0 /\ w = Written(Answer(r, q))
        <4>1. ~Impossible(r, q)
          BY <1>2, <2>1
        <4>2. w.status # 0
          BY <1>5, <2>1
        <4>. QED
          BY <4>1, <4>2 DEF w, Sent
      <3>2. /\ w.status = g.status /\ (Informational(g) \/ w.length = g.length)
            /\ w.content = g.content /\ w.vary = g.vary
        BY <2>1, <3>1, HeadIsGet
      <3>3. g' = g
        BY <1>1 DEF Answer, Finalized, Cors, Compresses, AllowedOrigin
      <3>4. Written(Answer(exchange.resource, [exchange.request EXCEPT !.method = "GET"]))' = g'
        BY <1>1
      <3>. QED
        BY <1>1, <3>2, <3>3, <3>4 DEF HeadSaysWhatGetSends
    <2>2. CASE ~(q.method = "HEAD" /\ ~PanicsOn(r, q))
      BY <1>1, <1>5, <2>2 DEF HeadSaysWhatGetSends
    <2>. QED
      BY <2>1, <2>2
  <1>12. CacheKeepsApart'
    BY <1>1 DEF CacheKeepsApart
  <1>. QED
    BY <1>7, <1>8, <1>9, <1>10, <1>11, <1>12 DEF ResponseInv, LengthsTrue

\* What a cache hands on.
LEMMA CacheStep ==
  ASSUME ResponseInv, NEW q \in Requests, Cacheable, Cached(q)
  PROVE  ResponseInv'
  <1>. DEFINE p == exchange.response
              old == exchange.request
              r == exchange.resource
  <1>1. /\ exchange \in [via : {"handler", "cache"}, request : Requests,
                          resource : Resources, response : ResponseType]
    BY DEF ResponseInv, TypeOK, Cacheable
  <1>2. Measured(p) /\ Apart(p, old) /\ p.status = 200
    BY DEF ResponseInv, Storable, Cacheable
  <1>3. q.method = "GET" /\ Selects(q, exchange)
    BY DEF Cached
  <1>4. /\ exchange'.via = "cache" /\ exchange'.request = q
        /\ exchange'.resource = r /\ exchange'.response = p
        /\ exchange' \in [via : {"handler", "cache"}, request : Requests,
                           resource : Resources, response : ResponseType]
    BY <1>1 DEF Cached, Send
  <1>5. config' = config /\ slack' = IF p.status = 0 THEN 0 ELSE Size(p) - Expected(p, q)
    BY <1>1 DEF Cached, Send
  <1>6. p \in ResponseType
    BY <1>1
  <1>. HIDE DEF p, old, r
  <1>7. slack' = 0
    <2>1. p.length = Size(p) /\ p.length \in Int
      BY <1>2, <1>6 DEF Measured, ResponseType
    <2>2. Expected(p, q) = p.length
      BY <1>2, <1>3 DEF Expected, Bodiless, NeverBody, Informational
    <2>. QED
      BY <1>5, <2>1, <2>2
  <1>8. TypeOK'
    BY <1>4, <1>5, <1>7 DEF ResponseInv, TypeOK
  <1>9. OutOfStepHasCause'
    BY <1>7 DEF OutOfStepHasCause
  <1>10. Storable' /\ RangesExact' /\ HeadSaysWhatGetSends'
    BY <1>4 DEF Storable, Cacheable, RangesExact, HeadSaysWhatGetSends
  <1>11. CacheKeepsApart'
    BY <1>2, <1>3, <1>4 DEF CacheKeepsApart, Selects, Apart, p, old
  <1>. QED
    BY <1>8, <1>9, <1>10, <1>11 DEF ResponseInv, LengthsTrue

\* Everything the run checks of responses, with what a cache may store, is
\* an invariant.
THEOREM Invariance == Spec => []ResponseInv
  <1>1. ResponseInv /\ [Next]_vars => ResponseInv'
    <2>. SUFFICES ASSUME ResponseInv, [Next]_vars PROVE ResponseInv'
      OBVIOUS
    <2>1. ASSUME NEW q \in Requests, Refused(q) \/ TimedOut(q)
          PROVE  ResponseInv'
      BY <2>1, NoticeStep DEF Refused, TimedOut
    <2>2. ASSUME NEW q \in Requests, NEW r \in Resources, Dispatched(q, r)
          PROVE  ResponseInv'
      BY <2>2, HandlerStep
    <2>3. ASSUME NEW q \in Requests, Cacheable, Cached(q)
          PROVE  ResponseInv'
      BY <2>3, CacheStep
    <2>4. CASE UNCHANGED vars
      BY <2>4, StutterInv
    <2>. QED
      BY <2>1, <2>2, <2>3, <2>4 DEF Next
  <1>. QED
    BY <1>1, InitInv, PTL DEF Spec

\* `apply_byte_range` answers any range of any body with the bytes it names,
\* or with 416 when there are none, and panics on nothing but a suffix of an
\* empty body.
THEOREM RangesAreExact == Spec => []RangesExact
  BY Invariance, PTL DEF ResponseInv

\* Every client finds the next head where Content-Length says it is, unless a
\* notice answers its HEAD or the handler itself has announced another length or
\* given a body to a status without one; and HEAD tells what GET would send.
THEOREM LengthsAreTrue == Spec => []LengthsTrue
  BY Invariance, PTL DEF ResponseInv

\* `append_vary` tells a cache enough to keep the clients apart by gzip and by
\* origin.
THEOREM CachesKeepApart == Spec => []CacheKeepsApart
  BY Invariance, PTL DEF ResponseInv
==============================================================================
