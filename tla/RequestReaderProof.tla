-------------------------- MODULE RequestReaderProof --------------------------
(***************************************************************************)
(* Proofs about RequestReader, for any streams, any sizes and lengths, any *)
(* limits, and any pieces in which a stream arrives.                       *)
(***************************************************************************)
EXTENDS RequestReader, Integers, SequenceTheorems, WellFoundedInduction, TLAPS

-----------------------------------------------------------------------------
(* Numbers. *)

\* A set of natural numbers has a least one, which Min chooses.
LEMMA MinIs ==
  ASSUME NEW T \in SUBSET Nat, T # {}
  PROVE  Min(T) \in T /\ \A y \in T : Min(T) <= y
  <1> DEFINE R == OpToRel(<, Nat)
  <1>1. \A x, y \in Nat : x < y => <<x, y>> \in R
    BY DEF OpToRel
  <1>2. IsWellFoundedOn(R, Nat)
    BY NatLessThanWellFounded
  <1> HIDE DEF R
  <1>3. PICK x \in T : \A y \in T : ~ (<<y, x>> \in R)
    BY <1>2, WFMin
  <1>4. x \in Nat /\ \A y \in T : y \in Nat /\ ~(y < x)
    BY <1>1, <1>3
  <1>5. \A y \in T : x <= y
    BY <1>4
  <1> QED  BY <1>5 DEF Min

\* A set with zero, and up to a bound with the successor of each number in it,
\* has all numbers up to that bound.
LEMMA Along ==
  ASSUME NEW m \in Nat, NEW S, 0 \in S, \A n \in 1..m : n - 1 \in S => n \in S
  PROVE  0..m \subseteq S
  <1> SUFFICES ASSUME (0..m) \ S # {} PROVE FALSE
    OBVIOUS
  <1> DEFINE T == (0..m) \ S
  <1>1. T \in SUBSET Nat
    OBVIOUS
  <1>2. Min(T) \in T /\ \A y \in T : Min(T) <= y
    BY <1>1, MinIs
  <1> DEFINE x == Min(T)
  <1> HIDE DEF x
  <1>3. x \in 0..m /\ x \notin S /\ \A y \in 0..m : y \notin S => x <= y
    BY <1>2 DEF x
  <1>4. x \in 1..m /\ x - 1 \in 0..m /\ ~(x <= x - 1)
    BY <1>3
  <1> QED  BY <1>3, <1>4

-----------------------------------------------------------------------------
(* Sequences. *)

\* What stands in a sequence behind c and up to k, and with an element more.
Piece(s, c, k) == SubSeq(s, c + 1, k)
Added(s, x) == Append(s, x)

LEMMA PieceIs ==
  ASSUME NEW T, NEW s, NEW c, NEW j, s \in Seq(T), c \in Nat, j \in Nat, c <= j, j <= Len(s)
  PROVE  Piece(s, c, j) \in Seq(T) /\ c + Len(Piece(s, c, j)) = j
  <1>1. c + 1 \in 1..Len(s) + 1 /\ j \in c..Len(s) /\ Len(s) \in Nat
    OBVIOUS
  <1>2. Piece(s, c, j) = [i \in 1..j - c |-> s[c + i]]
    BY <1>1 DEF Piece
  <1>3. \A i \in 1..j - c : s[c + i] \in T
    BY <1>1
  <1>4. j - c \in Nat
    BY <1>1
  <1> QED  BY <1>2, <1>3, <1>4

LEMMA PieceAt ==
  ASSUME NEW T, NEW s, NEW c, NEW j, s \in Seq(T), c \in Nat, j \in Nat, c <= j, j <= Len(s)
  PROVE  \A i \in 1..j - c : Piece(s, c, j)[i] = s[c + i]
  <1>1. c + 1 \in 1..Len(s) + 1 /\ j \in c..Len(s) /\ Len(s) \in Nat
    OBVIOUS
  <1>2. Piece(s, c, j) = [i \in 1..j - c |-> s[c + i]]
    BY <1>1 DEF Piece
  <1> QED  BY <1>2

LEMMA PieceEnds ==
  ASSUME NEW T, NEW s, NEW c, NEW j, s \in Seq(T), c \in Nat, j \in Nat, c <= j, j <= Len(s)
  PROVE  /\ Piece(s, c, j) = <<>> <=> j = c
         /\ j > c => Last(Piece(s, c, j)) = s[j]
  <1> DEFINE t == Piece(s, c, j)
  <1>1. /\ t \in Seq(T) /\ c + Len(t) = j
        /\ \A i \in 1..j - c : t[i] = s[c + i]
    <2>1. t \in Seq(T) /\ c + Len(t) = j
      BY PieceIs
    <2>2. \A i \in 1..j - c : t[i] = s[c + i]
      BY PieceAt
    <2> QED  BY <2>1, <2>2
  <1> HIDE DEF t
  <1>2. t = <<>> <=> j = c
    <2>1. Len(t) = 0 <=> j = c
      BY <1>1
    <2>2. t = <<>> <=> Len(t) = 0
      BY <1>1, EmptySeq
    <2> QED  BY <2>1, <2>2
  <1>3. j > c => Last(t) = s[j]
    <2> SUFFICES ASSUME j > c PROVE t[Len(t)] = s[j]
      BY DEF Last
    <2>1. Len(t) \in 1..j - c /\ c + Len(t) = j
      BY <1>1
    <2> QED  BY <1>1, <2>1
  <1> QED  BY <1>2, <1>3 DEF t

LEMMA PieceNext ==
  ASSUME NEW T, NEW s, NEW c, NEW j, NEW k,
         s \in Seq(T), c \in Nat, j \in Nat, k \in Nat, c <= j, k - j = 1, k <= Len(s)
  PROVE  Added(Piece(s, c, j), s[k]) = Piece(s, c, k)
  <1> DEFINE t == Piece(s, c, j)
             x == s[k]
  <1>1. /\ t \in Seq(T) /\ c + Len(t) = j
        /\ \A i \in 1..j - c : t[i] = s[c + i]
    <2>1. t \in Seq(T) /\ c + Len(t) = j
      BY PieceIs
    <2>2. \A i \in 1..j - c : t[i] = s[c + i]
      BY PieceAt
    <2> QED  BY <2>1, <2>2
  <1>2. Piece(s, c, k) = [i \in 1..k - c |-> s[c + i]]
    BY DEF Piece
  <1>3. /\ \A i \in 1..k - c : i # k - c => i \in 1..j - c
        /\ \A i \in 1..k - c : i = k - c => s[c + i] = x
    <2>1. \A i \in 1..k - c : i = k - c => c + i = k
      OBVIOUS
    <2> QED  BY <2>1
  <1> HIDE DEF t, x
  <1>4. Append(t, x) = [i \in 1..k - c |-> IF i = k - c THEN x ELSE t[i]]
    <2>1. x \in T
      BY DEF x
    <2>2. /\ Append(t, x) \in Seq(T) /\ Len(Append(t, x)) = Len(t) + 1
          /\ \A i \in 1..Len(t) : Append(t, x)[i] = t[i]
          /\ Append(t, x)[Len(t) + 1] = x
      BY <1>1, <2>1, AppendProperties
    <2> DEFINE w == Append(t, x)
    <2> HIDE DEF w
    <2>3. w \in Seq(T) /\ Len(w) = k - c /\ w[k - c] = x /\ \A i \in 1..j - c : w[i] = t[i]
      BY <1>1, <2>2 DEF w
    <2>4. w = [i \in 1..k - c |-> IF i = k - c THEN x ELSE t[i]]
      BY <1>3, <2>3
    <2> QED  BY <2>4 DEF w
  <1>5. \A i \in 1..k - c : s[c + i] = IF i = k - c THEN x ELSE t[i]
    BY <1>1, <1>3
  <1>6. Append(t, x) = Piece(s, c, k)
    BY <1>2, <1>4, <1>5
  <1> QED  BY <1>6 DEF Added, t, x

\* Some content with the n positions from c + 1 behind it.
With(q, c, n) == [i \in 1..Len(q) + n |-> IF i <= Len(q) THEN q[i] ELSE c + (i - Len(q))]

LEMMA WithIs ==
  ASSUME NEW q \in Seq(Nat), NEW c \in Nat, NEW n \in Nat
  PROVE  /\ With(q, c, 0) = q
         /\ With(q, c, n) \in Seq(Nat)
         /\ Append(With(q, c, n), c + n + 1) = With(q, c, n + 1)
         /\ q \o [i \in 1..n |-> c + i] = With(q, c, n)
         /\ With(<<>>, c, n) = [i \in 1..n |-> c + i]
  <1> DEFINE m == Len(q)
             s == [i \in 1..n |-> c + i]
  <1>1. m \in Nat /\ \A i \in 1..m : q[i] \in Nat
    OBVIOUS
  <1>2. With(q, c, n) \in Seq(Nat) /\ Len(With(q, c, n)) = m + n
    <2>1. m + n \in Nat
      BY <1>1
    <2>2. \A i \in 1..m + n : (IF i <= m THEN q[i] ELSE c + (i - m)) \in Nat
      BY <1>1
    <2> QED  BY <2>1, <2>2 DEF With
  <1>3. With(q, c, 0) = q
    <2>1. q = [i \in 1..m |-> q[i]]
      OBVIOUS
    <2>2. \A i \in 1..m : i <= m
      BY <1>1
    <2>3. m + 0 = m
      BY <1>1
    <2> QED  BY <2>1, <2>2, <2>3 DEF With
  <1>4. Append(With(q, c, n), c + n + 1) = With(q, c, n + 1)
    <2> DEFINE w == With(q, c, n)
               at(i) == IF i <= m THEN q[i] ELSE c + (i - m)
    <2>1. Append(w, c + n + 1) = [i \in 1..m + n + 1 |-> IF i = m + n + 1 THEN c + n + 1 ELSE w[i]]
      BY <1>1, <1>2
    <2>2. \A i \in 1..m + n : w[i] = at(i)
      BY DEF With
    <2>3. \A i \in 1..m + n + 1 : at(i) = IF i = m + n + 1 THEN c + n + 1 ELSE w[i]
      <3>1. \A i \in 1..m + n + 1 : i # m + n + 1 => i \in 1..m + n
        BY <1>1
      <3>2. at(m + n + 1) = c + n + 1
        BY <1>1
      <3> HIDE DEF at, w
      <3> QED  BY <2>2, <3>1, <3>2
    <2>4. m + (n + 1) = m + n + 1
      BY <1>1
    <2>5. With(q, c, n + 1) = [i \in 1..m + n + 1 |-> at(i)]
      BY <2>4 DEF With
    <2> HIDE DEF at, w
    <2>6. Append(w, c + n + 1) = With(q, c, n + 1)
      BY <2>1, <2>3, <2>5
    <2> QED  BY <2>6 DEF w
  <1>5. q \o s = With(q, c, n)
    <2>1. s \in Seq(Nat) /\ Len(s) = n /\ \A i \in 1..n : s[i] = c + i
      OBVIOUS
    <2> HIDE DEF s
    <2>2. q \o s = [i \in 1..m + n |-> IF i <= m THEN q[i] ELSE s[i - m]]
      <3> DEFINE f == q \o s
      <3>1. f \in Seq(Nat) /\ Len(f) = m + n
        BY <2>1, ConcatProperties
      <3>2. \A i \in 1..m + n : f[i] = IF i <= m THEN q[i] ELSE s[i - m]
        BY <2>1, ConcatProperties
      <3> HIDE DEF f
      <3>3. f = [i \in 1..m + n |-> f[i]]
        BY <3>1
      <3>4. f = [i \in 1..m + n |-> IF i <= m THEN q[i] ELSE s[i - m]]
        BY <3>2, <3>3
      <3> QED  BY <3>4 DEF f
    <2>3. \A i \in 1..m + n : ~(i <= m) => s[i - m] = c + (i - m)
      BY <1>1, <2>1
    <2> QED  BY <2>2, <2>3 DEF With
  <1>6. With(<<>>, c, n) = s
    <2>1. 0 + n = n /\ \A i \in 1..n : ~(i <= 0) /\ i - 0 = i
      OBVIOUS
    <2> QED  BY <2>1 DEF With
  <1> QED  BY <1>2, <1>3, <1>4, <1>5, <1>6

\* The next position.
LEMMA WithNext ==
  ASSUME NEW q, NEW c, NEW n, NEW k, NEW i,
         q \in Seq(Nat), c \in Nat, n \in Nat, k \in Nat, k - n = 1, i \in Nat, i - c = k
  PROVE  Added(With(q, c, n), i) = With(q, c, k)
  <1>1. Append(With(q, c, n), c + n + 1) = With(q, c, n + 1)
    BY ONLY q \in Seq(Nat), c \in Nat, n \in Nat, WithIs
  <1>2. i = c + n + 1 /\ k = n + 1
    OBVIOUS
  <1> QED  BY <1>1, <1>2 DEF Added

\* A sequence agrees with another as far as it goes.
Agree(s, t) == Len(s) <= Len(t) /\ \A i \in 1..Len(s) : s[i] = t[i]

\* Then it is a prefix of it, and only then.
LEMMA AgreePrefix ==
  ASSUME NEW T, NEW s \in Seq(T), NEW t \in Seq(T)
  PROVE  IsPrefix(s, t) <=> Agree(s, t)
  <1>1. Len(s) \in Nat /\ Len(t) \in Nat
    OBVIOUS
  <1>2. SubSeq(s, 1, Len(s)) = [i \in 1..Len(s) |-> s[i]]
    BY <1>1
  <1>3. ASSUME Len(s) <= Len(t) PROVE SubSeq(t, 1, Len(s)) = [i \in 1..Len(s) |-> t[i]]
    BY <1>1, <1>3
  <1> QED  BY <1>1, <1>2, <1>3 DEF IsPrefix, Agree

-----------------------------------------------------------------------------
(* The reference, unit by unit. *)

\* The function that Reference defines by recursion exists, so it is what its
\* definition says.
LEMMA ReferenceIs ==
  ASSUME NEW units, Len(units) \in Nat
  PROVE  Reference(units) =
           [n \in 0..Len(units) |->
              IF n = 0 THEN Reading(<<>>, FALSE, "headers", <<>>, 0, <<>>)
              ELSE Looked(Reference(units)[n - 1], units[n], n)]
  <1> DEFINE Step(g, n) == IF n = 0 THEN Reading(<<>>, FALSE, "headers", <<>>, 0, <<>>)
                           ELSE Looked(g[n - 1], units[n], n)
             m == Len(units)
             S == {N \in 0..m : \E g : g = [n \in 0..N |-> Step(g, n)]}
  <1>0. m \in Nat
    OBVIOUS
  <1> HIDE DEF m
  <1>1. 0 \in S
    <2> DEFINE g == [n \in 0..0 |-> Reading(<<>>, FALSE, "headers", <<>>, 0, <<>>)]
    <2>1. g = [n \in 0..0 |-> Step(g, n)]
      OBVIOUS
    <2>2. 0 \in 0..m
      BY <1>0
    <2> HIDE DEF Step
    <2>3. \E q : q = [n \in 0..0 |-> Step(q, n)]
      BY <2>1
    <2> QED  BY <2>2, <2>3
  <1>2. ASSUME NEW N \in 1..m, N - 1 \in S PROVE N \in S
    <2>1. PICK g : g = [n \in 0..N - 1 |-> Step(g, n)]
      BY <1>2
    <2> DEFINE h == [n \in 0..N |-> IF n = N THEN Step(g, n) ELSE g[n]]
    <2>2. h = [n \in 0..N |-> IF n = N THEN Step(g, n) ELSE g[n]]
      OBVIOUS
    <2>3. \A n \in 0..N - 1 : g[n] = Step(g, n)
      BY <2>1
    <2> HIDE DEF h, Step
    <2>4. \A n \in 0..N : n # 0 => n - 1 \in 0..N - 1 /\ h[n - 1] = g[n - 1]
      BY <1>0, <2>2
    <2>5. \A n \in 0..N : Step(h, n) = Step(g, n)
      BY <2>4 DEF Step
    <2>6. \A n \in 0..N : n # N => n \in 0..N - 1
      BY <1>0
    <2>7. \A n \in 0..N : h[n] = Step(h, n)
      BY <2>2, <2>3, <2>5, <2>6
    <2>8. h = [n \in 0..N |-> Step(h, n)]
      BY <2>2, <2>7
    <2>9. \E q : q = [n \in 0..N |-> Step(q, n)]
      BY <2>8
    <2> QED  BY <2>9
  <1>3. PICK g : g = [n \in 0..m |-> Step(g, n)]
    <2> HIDE DEF S
    <2>1. 0..m \subseteq S
      BY <1>0, <1>1, <1>2, Along
    <2>2. m \in 0..m
      BY <1>0
    <2> QED  BY <2>1, <2>2 DEF S
  <1> QED  BY <1>3 DEF Reference, m

\* What the first n units make.
After(units, n) == Reference(units)[n]

LEMMA ReferenceSteps ==
  ASSUME NEW units, Len(units) \in Nat
  PROVE  /\ After(units, 0) = Reading(<<>>, FALSE, "headers", <<>>, 0, <<>>)
         /\ \A n \in 1..Len(units) :
               After(units, n) = Looked(After(units, n - 1), units[n], n)
  <1>1. \A n \in 1..Len(units) : n \in 0..Len(units) /\ n # 0
    OBVIOUS
  <1>2. 0 \in 0..Len(units)
    OBVIOUS
  <1> QED  BY <1>1, <1>2, ReferenceIs DEF After

\* Where nothing was refused, the mode decides.
LEMMA LookedIs ==
  ASSUME NEW done, NEW long, NEW mode, NEW text, NEW count, NEW content, NEW u, NEW n,
         NEW s, s = Reading(done, long, mode, text, count, content)
  PROVE  /\ mode = "headers" => Looked(s, u, n) = InHead(s, u, n)
         /\ mode = "body"    => Looked(s, u, n) = InBody(s, n)
         /\ mode = "size"    => Looked(s, u, n) = InSize(s, u)
         /\ mode = "data"    => Looked(s, u, n) = InData(s, u, n)
         /\ mode = "trailer" => Looked(s, u, n) = InTrailer(s, u, n)
  <1>1. s.mode = mode /\ s.error = "none"
    BY DEF Reading
  <1> QED  BY <1>1 DEF Looked

\* What the steps make of it.
LEMMA Changes ==
  ASSUME NEW done, NEW long, NEW mode, NEW text, NEW count, NEW content,
         NEW s, s = Reading(done, long, mode, text, count, content)
  PROVE  /\ s.error = "none" /\ s.done = done /\ s.long = long /\ s.mode = mode
         /\ s.text = text /\ s.count = count /\ s.content = content
         /\ \A m, k : Turned(s, m, k) = Reading(done, long, m, <<>>, k, content)
         /\ \A u, k : More(s, u, k) = Reading(done, long, mode, Append(text, u), k, content)
         /\ \A n : Kept(s, n) = Reading(done, long, mode, <<>>, count - 1, Append(content, n))
         /\ \A n : Finished(s, n) =
               Reading(Append(done, [head |-> Start(done), body |-> content, next |-> n]),
                       long, "headers", <<>>, 0, <<>>)
         /\ \A why : /\ Stopped(s, why).error = why /\ Stopped(s, why).done = done
                     /\ Stopped(s, why).long = long
  <1>1. /\ s.error = "none" /\ s.done = done /\ s.long = long /\ s.mode = mode
        /\ s.text = text /\ s.count = count /\ s.content = content
    BY DEF Reading
  <1>2. \A why : /\ Stopped(s, why).error = why /\ Stopped(s, why).done = done
                 /\ Stopped(s, why).long = long
    BY DEF Stopped, Reading
  <1>3. \A m, k : Turned(s, m, k) = Reading(done, long, m, <<>>, k, content)
    BY <1>1 DEF Turned
  <1>4. \A u, k : More(s, u, k) = Reading(done, long, mode, Append(text, u), k, content)
    BY <1>1 DEF More
  <1>5. \A n : Kept(s, n) = Reading(done, long, mode, <<>>, count - 1, Append(content, n))
    BY <1>1 DEF Kept
  <1>6. \A n : Finished(s, n) =
               Reading(Append(done, [head |-> Start(done), body |-> content, next |-> n]),
                       long, "headers", <<>>, 0, <<>>)
    BY <1>1 DEF Finished
  <1> QED  BY <1>1, <1>2, <1>3, <1>4, <1>5, <1>6

-----------------------------------------------------------------------------
(* What heads and lines are. *)

LEMMA FirstIs ==
  ASSUME NEW text \in Seq(Units), NEW kind
  PROVE  First(text, kind) \in kind \cup {"none"}
  <1> DEFINE places == {i \in 1..Len(text) : text[i] \in kind}
  <1>1. CASE places = {}
    BY <1>1 DEF First
  <1>2. CASE places # {}
    <2>1. places \in SUBSET Nat
      OBVIOUS
    <2>2. Min(places) \in places
      BY <1>2, <2>1, MinIs
    <2> QED  BY <1>2, <2>2 DEF First
  <1> QED  BY <1>1, <1>2

\* What a head says has its type, and its length is within the limit.
Said == [error : Errors, chunked : BOOLEAN, length : Nat]

LEMMA HeadIs ==
  ASSUME NEW text \in Seq(Units)
  PROVE  /\ HeadOf(text) \in Said
         /\ HeadOf(text).error = "none" => HeadOf(text).length <= MaxBody
  <1> DEFINE head == [error |-> "none", chunked |-> Coding(text) = "chunked",
                      length |-> Value(Length(text))]
  <1>1. Length(text) \in {"badlength", "none"} \cup DOMAIN Lengths
    BY FirstIs DEF Length
  <1>2. Length(text) # "badlength" => Value(Length(text)) \in Nat
    BY <1>1, SizesAssumption DEF Value
  <1>3. CASE HeadOf(text) = Refused("bad_request") \/ HeadOf(text) = Refused("body_too_large")
    <2>1. \A why \in {"bad_request", "body_too_large"} :
             Refused(why) \in Said /\ Refused(why).error = why
      BY DEF Refused, Said, Errors
    <2> QED  BY <1>3, <2>1
  <1>4. CASE /\ Length(text) # "badlength" /\ ~(Value(Length(text)) > MaxBody)
             /\ HeadOf(text) = head
    <2>1. head \in Said /\ head.length = Value(Length(text))
      BY <1>2, <1>4 DEF Said, Errors
    <2> HIDE DEF head
    <2>2. HeadOf(text).length <= MaxBody
      BY <1>2, <1>4, <2>1, LimitsAssumption
    <2> QED  BY <1>4, <2>1, <2>2
  <1> HIDE DEF head
  <1>5. \/ HeadOf(text) = Refused("bad_request") \/ HeadOf(text) = Refused("body_too_large")
        \/ /\ Length(text) # "badlength" /\ ~(Value(Length(text)) > MaxBody)
           /\ HeadOf(text) = head
    BY DEF HeadOf, head
  <1> QED  BY <1>3, <1>4, <1>5

\* The size of a chunk.
LEMMA SizeIs ==
  ASSUME NEW line \in Seq(Units), IsSize(line)
  PROVE  Sizes[line[1]] \in Nat
  BY SizesAssumption DEF IsSize

\* The reference has its type.
Requests == [head : Nat, body : Seq(Nat), next : Nat]
Modes == {"headers", "body", "size", "data", "trailer"}
Readings == [error : Errors, done : Seq(Requests), long : BOOLEAN, mode : Modes,
             text : Seq(Units), count : Int, content : Seq(Nat)]

LEMMA StartIs ==
  ASSUME NEW done \in Seq(Requests)
  PROVE  Start(done) \in Nat
  <1>1. CASE done = <<>>
    BY <1>1 DEF Start
  <1>2. CASE done # <<>>
    <2>1. Last(done) \in Requests
      BY <1>2 DEF Last
    <2> QED  BY <1>2, <2>1 DEF Start, Requests
  <1> QED  BY <1>1, <1>2

LEMMA ReadingTyped ==
  ASSUME NEW done \in Seq(Requests), NEW long \in BOOLEAN, NEW mode \in Modes,
         NEW text \in Seq(Units), NEW count \in Int, NEW content \in Seq(Nat)
  PROVE  Reading(done, long, mode, text, count, content) \in Readings
  BY DEF Reading, Readings, Errors

LEMMA ChangesTyped ==
  ASSUME NEW s \in Readings
  PROVE  /\ \A why \in Errors : Stopped(s, why) \in Readings
         /\ \A m \in Modes, k \in Int : Turned(s, m, k) \in Readings
         /\ \A u \in Units, k \in Int : More(s, u, k) \in Readings
         /\ \A n \in Nat : Kept(s, n) \in Readings
         /\ \A n \in Nat : Finished(s, n) \in Readings
  <1>1. /\ s.done \in Seq(Requests) /\ s.long \in BOOLEAN /\ s.mode \in Modes
        /\ s.text \in Seq(Units) /\ s.count \in Int /\ s.content \in Seq(Nat)
    BY DEF Readings
  <1>2. <<>> \in Seq(Units) /\ <<>> \in Seq(Nat)
    OBVIOUS
  <1>3. \A why \in Errors : Stopped(s, why) \in Readings
    BY DEF Stopped, Readings
  <1>4. \A m \in Modes, k \in Int : Turned(s, m, k) \in Readings
    BY <1>1, <1>2, ReadingTyped DEF Turned
  <1>5. \A u \in Units, k \in Int : More(s, u, k) \in Readings
    <2>1. \A u \in Units : Append(s.text, u) \in Seq(Units)
      BY <1>1
    <2> QED  BY <1>1, <2>1, ReadingTyped DEF More
  <1>6. \A n \in Nat : Kept(s, n) \in Readings
    <2>1. \A n \in Nat : Append(s.content, n) \in Seq(Nat)
      BY <1>1
    <2>2. s.count - 1 \in Int
      BY <1>1
    <2> QED  BY <1>1, <1>2, <2>1, <2>2, ReadingTyped DEF Kept
  <1>7. \A n \in Nat : Finished(s, n) \in Readings
    <2> SUFFICES ASSUME NEW n \in Nat PROVE Finished(s, n) \in Readings
      OBVIOUS
    <2> DEFINE r == [head |-> Start(s.done), body |-> s.content, next |-> n]
    <2>1. r \in Requests
      BY <1>1, StartIs DEF Requests
    <2> HIDE DEF r
    <2>2. Append(s.done, r) \in Seq(Requests)
      BY <1>1, <2>1
    <2>3. "headers" \in Modes /\ 0 \in Int
      BY DEF Modes
    <2> QED  BY <1>1, <1>2, <2>2, <2>3, ReadingTyped DEF Finished, r
  <1> QED  BY <1>3, <1>4, <1>5, <1>6, <1>7

\* It adds requests at the end.
Grows(s, t) ==
    t \in Readings /\ (t.done = s.done \/ \E x \in Requests : t.done = Append(s.done, x))

LEMMA ChangesGrow ==
  ASSUME NEW s \in Readings
  PROVE  /\ Grows(s, s)
         /\ \A why \in Errors : Grows(s, Stopped(s, why))
         /\ \A m \in Modes, k \in Int : Grows(s, Turned(s, m, k))
         /\ \A u \in Units, k \in Int : Grows(s, More(s, u, k))
         /\ \A n \in Nat : Grows(s, Kept(s, n))
         /\ \A n \in Nat : Grows(s, Finished(s, n))
         /\ \A n \in Nat : Grows(s, Finished(Kept(s, n), n))
  <1>1. /\ \A why : Stopped(s, why).done = s.done
        /\ \A m, k : Turned(s, m, k).done = s.done
        /\ \A u, k : More(s, u, k).done = s.done
        /\ \A n : Kept(s, n).done = s.done
    BY DEF Stopped, Turned, More, Kept, Reading, Readings
  <1>2. ASSUME NEW t \in Readings, NEW n \in Nat
        PROVE  \E x \in Requests : Finished(t, n).done = Append(t.done, x)
    <2> DEFINE x == [head |-> Start(t.done), body |-> t.content, next |-> n]
    <2>1. t.done \in Seq(Requests) /\ t.content \in Seq(Nat)
      BY DEF Readings
    <2>2. x \in Requests
      BY <2>1, StartIs DEF Requests
    <2>3. Finished(t, n).done = Append(t.done, x)
      BY DEF Finished, Reading
    <2> HIDE DEF x
    <2> QED  BY <2>2, <2>3
  <1>3. \A n \in Nat : Grows(s, Finished(s, n))
    BY <1>2, ChangesTyped DEF Grows
  <1>4. \A n \in Nat : Grows(s, Finished(Kept(s, n), n))
    <2> SUFFICES ASSUME NEW n \in Nat PROVE Grows(s, Finished(Kept(s, n), n))
      OBVIOUS
    <2> DEFINE t == Kept(s, n)
    <2>1. t \in Readings /\ t.done = s.done
      BY <1>1, ChangesTyped
    <2> HIDE DEF t
    <2>2. Finished(t, n) \in Readings
      BY <2>1, ChangesTyped
    <2>3. Grows(s, Finished(t, n))
      BY <1>2, <2>1, <2>2 DEF Grows
    <2> QED  BY <2>3 DEF t
  <1>5. \A why \in Errors : Grows(s, Stopped(s, why))
    BY <1>1, ChangesTyped DEF Grows
  <1>6. \A m \in Modes, k \in Int : Grows(s, Turned(s, m, k))
    BY <1>1, ChangesTyped DEF Grows
  <1>7. \A u \in Units, k \in Int : Grows(s, More(s, u, k))
    BY <1>1, ChangesTyped DEF Grows
  <1>8. \A n \in Nat : Grows(s, Kept(s, n))
    BY <1>1, ChangesTyped DEF Grows
  <1>9. Grows(s, s)
    BY DEF Grows
  <1> QED  BY <1>3, <1>4, <1>5, <1>6, <1>7, <1>8, <1>9

LEMMA LookedGrows ==
  ASSUME NEW s \in Readings, NEW u \in Units, NEW n \in Nat
  PROVE  Grows(s, Looked(s, u, n))
  <1>1. /\ s.mode \in Modes /\ s.text \in Seq(Units) /\ s.count \in Int
        /\ s.long \in BOOLEAN /\ s.content \in Seq(Nat) /\ s.done \in Seq(Requests)
    BY DEF Readings
  <1>2. {"header_too_large", "body_too_large", "bad_request"} \subseteq Errors /\ 0 \in Int
    BY DEF Errors
  <1>3. {"size", "trailer", "data", "body"} \subseteq Modes
    BY DEF Modes
  <1>4. Grows(s, InHead(s, u, n))
    <2>1. ASSUME s.text # <<>> PROVE Grows(s, AfterHead(s, HeadOf(Front(s.text)), n))
      <3>1. Front(s.text) \in Seq(Units)
        BY <1>1, <2>1 DEF Front
      <3>2. HeadOf(Front(s.text)) \in Said
        BY <3>1, HeadIs
      <3> DEFINE head == HeadOf(Front(s.text))
      <3>3. head.error \in Errors /\ head.length \in Int
        BY <3>2 DEF Said
      <3> HIDE DEF head
      <3>4. Grows(s, AfterHead(s, head, n))
        BY <1>2, <1>3, <3>3, ChangesGrow DEF AfterHead
      <3> QED  BY <3>4 DEF head
    <2> QED  BY <1>2, <2>1, ChangesGrow DEF InHead
  <1>5. Grows(s, InBody(s, n))
    BY ChangesGrow DEF InBody
  <1>6. Grows(s, InSize(s, u))
    <2>1. Grows(s, AfterSize(s, s.text))
      <3>1. IsSize(s.text) => Sizes[s.text[1]] \in Int
        BY <1>1, SizeIs
      <3> QED  BY <1>2, <1>3, <3>1, ChangesGrow DEF AfterSize
    <2>2. Grows(s, Reading(s.done, s.long \/ Len(s.text) + 1 > MaxHeader,
                           "size", Append(s.text, u), 0, s.content))
      <3> DEFINE long == s.long \/ Len(s.text) + 1 > MaxHeader
                 t == Reading(s.done, long, "size", Append(s.text, u), 0, s.content)
      <3>1. long \in BOOLEAN /\ Append(s.text, u) \in Seq(Units)
        BY <1>1
      <3> HIDE DEF long
      <3>2. t \in Readings
        BY <1>1, <1>2, <1>3, <3>1, ReadingTyped
      <3>3. t.done = s.done
        BY DEF Reading
      <3> HIDE DEF t
      <3>4. Grows(s, t)
        BY <3>2, <3>3 DEF Grows
      <3> QED  BY <3>4 DEF t, long
    <2> QED  BY <2>1, <2>2 DEF InSize
  <1>7. Grows(s, InData(s, u, n))
    BY <1>2, <1>3, ChangesGrow DEF InData
  <1>8. Grows(s, InTrailer(s, u, n))
    <2>1. s.count + 1 \in Int
      BY <1>1
    <2> QED  BY <1>2, <1>3, <2>1, ChangesGrow DEF InTrailer
  <1>9. Grows(s, s)
    BY ChangesGrow
  <1> QED  BY <1>1, <1>4, <1>5, <1>6, <1>7, <1>8, <1>9 DEF Looked, Modes

LEMMA ReferenceTyped ==
  ASSUME NEW units \in Seq(Units)
  PROVE  \A n \in 0..Len(units) : After(units, n) \in Readings
  <1> DEFINE r(n) == After(units, n)
             m == Len(units)
             S == {n \in 0..m : r(n) \in Readings}
  <1>1. m \in Nat /\ \A n \in 1..m : units[n] \in Units
    OBVIOUS
  <1>2. r(0) = Reading(<<>>, FALSE, "headers", <<>>, 0, <<>>)
    BY <1>1, ReferenceSteps
  <1>3. \A n \in 1..m : r(n) = Looked(r(n - 1), units[n], n)
    BY <1>1, ReferenceSteps
  <1> HIDE DEF r, m
  <1>4. 0 \in S
    <2>1. Reading(<<>>, FALSE, "headers", <<>>, 0, <<>>) \in Readings
      <3>1. /\ <<>> \in Seq(Requests) /\ <<>> \in Seq(Units) /\ <<>> \in Seq(Nat)
            /\ FALSE \in BOOLEAN /\ "headers" \in Modes /\ 0 \in Int
        BY DEF Modes
      <3> QED  BY <3>1, ReadingTyped
    <2>2. 0 \in 0..m
      BY <1>1
    <2> QED  BY <1>2, <2>1, <2>2
  <1>5. ASSUME NEW n \in 1..m, n - 1 \in S PROVE n \in S
    <2>1. n \in Nat /\ n \in 0..m /\ r(n - 1) \in Readings
      BY <1>1, <1>5
    <2>2. Grows(r(n - 1), Looked(r(n - 1), units[n], n))
      BY <1>1, <2>1, LookedGrows
    <2> QED  BY <1>3, <2>1, <2>2 DEF Grows
  <1> HIDE DEF S
  <1>6. 0..m \subseteq S
    BY <1>1, <1>4, <1>5, Along
  <1> QED  BY <1>6 DEF S, r, m

\* From one place to a later one, requests are added at the end; what is refused
\* stays refused.
LEMMA ReferenceGrows ==
  ASSUME NEW units \in Seq(Units), NEW c \in 0..Len(units), NEW e \in c..Len(units)
  PROVE  /\ Agree(After(units, c).done, After(units, e).done)
         /\ After(units, c).error # "none" => After(units, e) = After(units, c)
  <1> DEFINE r(n) == After(units, n)
             m == Len(units)
             k == e - c
             S == {n \in 0..k : /\ Agree(r(c).done, r(c + n).done)
                                /\ r(c).error # "none" => r(c + n) = r(c)}
  <1>1. m \in Nat /\ \A n \in 1..m : units[n] \in Units
    OBVIOUS
  <1>2. \A n \in 1..m : r(n) = Looked(r(n - 1), units[n], n)
    BY <1>1, ReferenceSteps
  <1>3. \A n \in 0..m : r(n) \in Readings
    BY ReferenceTyped
  <1> HIDE DEF r, m
  <1>4. c \in 0..m /\ e \in c..m /\ k \in Nat /\ c + k = e /\ c \in Nat
    BY <1>1 DEF m
  <1> HIDE DEF k
  <1>5. 0 \in S
    <2>1. r(c).done \in Seq(Requests)
      BY <1>3, <1>4 DEF Readings
    <2>2. Agree(r(c).done, r(c).done)
      BY <2>1 DEF Agree
    <2>3. c + 0 = c /\ 0 \in 0..k
      BY <1>4
    <2> QED  BY <2>2, <2>3
  <1>6. ASSUME NEW n \in 1..k, n - 1 \in S PROVE n \in S
    <2> DEFINE i == c + n
               s == r(i - 1)
               t == r(i)
    <2>1. i \in 1..m /\ i \in Nat /\ c + (n - 1) = i - 1 /\ i - 1 \in 0..m /\ n \in 0..k
      BY <1>1, <1>4
    <2>2. /\ Agree(r(c).done, s.done)
          /\ r(c).error # "none" => s = r(c)
          /\ t = Looked(s, units[i], i) /\ s \in Readings /\ r(c) \in Readings
          /\ units[i] \in Units
      BY <1>1, <1>2, <1>3, <1>4, <1>6, <2>1
    <2>4. r(c).error # "none" => t = r(c)
      BY <2>2 DEF Looked
    <2>5. Grows(s, t)
      BY <2>1, <2>2, LookedGrows
    <2> HIDE DEF s, t
    <2>6. Agree(r(c).done, t.done)
      <3>1. s.done \in Seq(Requests) /\ r(c).done \in Seq(Requests)
        BY <2>2 DEF Readings
      <3>2. CASE t.done = s.done
        BY <2>2, <3>2
      <3>3. CASE \E x \in Requests : t.done = Append(s.done, x)
        <4>1. PICK x \in Requests : t.done = Append(s.done, x)
          BY <3>3
        <4>2. /\ Len(s.done) \in Nat /\ Len(r(c).done) \in Nat
              /\ Len(t.done) = Len(s.done) + 1
              /\ \A j \in 1..Len(s.done) : t.done[j] = s.done[j]
          BY <3>1, <4>1, AppendProperties
        <4>3. Len(r(c).done) <= Len(s.done)
          BY <2>2 DEF Agree
        <4>4. Len(r(c).done) <= Len(t.done)
          BY <4>2, <4>3
        <4>5. \A j \in 1..Len(r(c).done) : j \in 1..Len(s.done)
          BY <4>2, <4>3
        <4>6. \A j \in 1..Len(r(c).done) : t.done[j] = r(c).done[j]
          BY <2>2, <4>2, <4>5 DEF Agree
        <4> QED  BY <4>4, <4>6 DEF Agree
      <3> QED  BY <2>5, <3>2, <3>3 DEF Grows
    <2> QED  BY <2>1, <2>4, <2>6 DEF t
  <1> HIDE DEF S
  <1>7. 0..k \subseteq S
    BY <1>4, <1>5, <1>6, Along
  <1>8. k \in S
    BY <1>4, <1>7
  <1> QED  BY <1>4, <1>8 DEF S, r

-----------------------------------------------------------------------------
(* The reference along a head, a line and a content. *)

\* A blank line ends at i, in what stands behind b.
BlankAt(units, b, i) == i >= b + 2 /\ units[i - 1] = "n" /\ units[i] = "n"

LEMMA AlongHead ==
  ASSUME NEW units \in Seq(Units), NEW b \in 0..Len(units), NEW e \in b..Len(units),
         NEW done, NEW long,
         After(units, b) = Reading(done, long, "headers", <<>>, 0, <<>>),
         e - b < MaxHeader,
         \A i \in b + 1..e : ~BlankAt(units, b, i)
  PROVE  After(units, e) = Reading(done, long, "headers", Piece(units, b, e), 0, <<>>)
  <1> DEFINE r(n) == After(units, n)
             m == Len(units)
             k == e - b
             In(n) == Reading(done, long, "headers", Piece(units, b, b + n), 0, <<>>)
             S == {n \in 0..k : r(b + n) = In(n)}
  <1>1. /\ m \in Nat /\ b \in Nat /\ e \in b..m /\ k \in Nat /\ b + k = e
    OBVIOUS
  <1>2. \A n \in 1..m : r(n) = Looked(r(n - 1), units[n], n)
    BY <1>1, ReferenceSteps
  <1>3. r(b) = Reading(done, long, "headers", <<>>, 0, <<>>)
    OBVIOUS
  <1> HIDE DEF r
  <1>4. 0 \in S
    <2>1. Piece(units, b, b + 0) = <<>>
      BY <1>1 DEF Piece
    <2>2. b + 0 = b /\ 0 \in 0..k
      BY <1>1
    <2> QED  BY <1>3, <2>1, <2>2
  <1>5. ASSUME NEW n \in 1..k, n - 1 \in S PROVE n \in S
    <2> DEFINE i == b + n
               text == Piece(units, b, i - 1)
               s == r(i - 1)
               u == units[i]
    <2>1. i \in b + 1..m /\ i \in 1..m /\ i \in b + 1..e /\ b + (n - 1) = i - 1 /\ n \in 0..k
      BY <1>1
    <2>2. s = Reading(done, long, "headers", text, 0, <<>>)
      BY <1>5, <2>1
    <2>3. /\ text \in Seq(Units) /\ b + Len(text) = i - 1
          /\ text = <<>> <=> i = b + 1
          /\ i > b + 1 => Last(text) = units[i - 1]
          /\ Added(text, u) = Piece(units, b, i)
      <3> DEFINE j == i - 1
      <3>1. /\ units \in Seq(Units) /\ b \in Nat /\ j \in Nat /\ i \in Nat /\ b <= j /\ i - j = 1
            /\ i <= Len(units) /\ j <= Len(units)
        BY <1>1, <2>1
      <3> HIDE DEF i, j
      <3>2. Piece(units, b, j) \in Seq(Units) /\ b + Len(Piece(units, b, j)) = j
        BY ONLY <3>1, PieceIs
      <3>3. Piece(units, b, j) = <<>> <=> i = b + 1
        BY ONLY <3>1, PieceEnds
      <3>4. i > b + 1 => Last(Piece(units, b, j)) = units[j]
        BY ONLY <3>1, PieceEnds
      <3>5. Added(Piece(units, b, j), u) = Piece(units, b, i)
        BY ONLY <3>1, PieceNext
      <3> QED  BY <3>2, <3>3, <3>4, <3>5 DEF j
    <2>4. ~BlankAt(units, b, i)
      BY <2>1
    <2>5. r(i) = Looked(s, u, i)
      BY <1>2, <2>1
    <2> HIDE DEF text, s, i
    <2>6. s.text = text /\ More(s, u, 0) = Reading(done, long, "headers", Append(text, u), 0, <<>>)
      BY <2>2, Changes
    <2>7. ~(u = "n" /\ text # <<>> /\ Last(text) = "n")
      <3>1. text # <<>> => i > b + 1 /\ i >= b + 2
        BY <1>1, <2>1, <2>3 DEF i
      <3> QED  BY <2>3, <2>4, <3>1 DEF BlankAt
    <2>8. ~(Len(text) + 1 >= MaxHeader)
      BY <1>1, <2>1, <2>3, LimitsAssumption
    <2>9. Looked(s, u, i) = InHead(s, u, i)
      BY <2>2, LookedIs
    <2>10. InHead(s, u, i) = More(s, u, 0)
      BY <2>6, <2>7, <2>8 DEF InHead
    <2>11. r(i) = Reading(done, long, "headers", Piece(units, b, i), 0, <<>>)
      BY <2>3, <2>5, <2>6, <2>9, <2>10 DEF Added
    <2> QED  BY <2>1, <2>11 DEF i
  <1> HIDE DEF S
  <1>6. k \in 0..k
    BY <1>1
  <1>7. k \in S
    BY <1>1, <1>4, <1>5, <1>6, Along
  <1> QED  BY <1>1, <1>7 DEF S, r

LEMMA AlongSize ==
  ASSUME NEW units \in Seq(Units), NEW c \in 0..Len(units), NEW e \in c..Len(units),
         NEW done, NEW long \in BOOLEAN, NEW content,
         After(units, c) = Reading(done, long, "size", <<>>, 0, content),
         \A i \in c + 1..e : units[i] # "n"
  PROVE  After(units, e) =
           Reading(done, long \/ e - c > MaxHeader, "size", Piece(units, c, e), 0, content)
  <1> DEFINE r(n) == After(units, n)
             m == Len(units)
             k == e - c
             In(n) == Reading(done, long \/ n > MaxHeader, "size",
                              Piece(units, c, c + n), 0, content)
             S == {n \in 0..k : r(c + n) = In(n)}
  <1>1. /\ m \in Nat /\ c \in Nat /\ e \in c..m /\ k \in Nat /\ c + k = e
    OBVIOUS
  <1>2. \A n \in 1..m : r(n) = Looked(r(n - 1), units[n], n)
    BY <1>1, ReferenceSteps
  <1>3. r(c) = Reading(done, long, "size", <<>>, 0, content)
    OBVIOUS
  <1> HIDE DEF r
  <1>4. 0 \in S
    <2>1. Piece(units, c, c + 0) = <<>>
      BY <1>1 DEF Piece
    <2>2. c + 0 = c /\ 0 \in 0..k
      BY <1>1
    <2>3. (long \/ 0 > MaxHeader) = long
      BY LimitsAssumption
    <2> QED  BY <1>3, <2>1, <2>2, <2>3
  <1>5. ASSUME NEW n \in 1..k, n - 1 \in S PROVE n \in S
    <2> DEFINE i == c + n
               text == Piece(units, c, i - 1)
               s == r(i - 1)
               u == units[i]
               before == long \/ n - 1 > MaxHeader
    <2>1. i \in c + 1..m /\ i \in 1..m /\ i \in c + 1..e /\ c + (n - 1) = i - 1 /\ n \in 0..k
      BY <1>1
    <2>2. s = Reading(done, before, "size", text, 0, content)
      BY <1>5, <2>1
    <2>3. /\ text \in Seq(Units) /\ c + Len(text) = i - 1
          /\ Added(text, u) = Piece(units, c, i)
      <3> DEFINE j == i - 1
      <3>1. /\ units \in Seq(Units) /\ c \in Nat /\ j \in Nat /\ i \in Nat /\ c <= j /\ i - j = 1
            /\ i <= Len(units) /\ j <= Len(units)
        BY <1>1, <2>1
      <3> HIDE DEF i, j
      <3>2. Piece(units, c, j) \in Seq(Units) /\ c + Len(Piece(units, c, j)) = j
        BY ONLY <3>1, PieceIs
      <3>3. Added(Piece(units, c, j), u) = Piece(units, c, i)
        BY ONLY <3>1, PieceNext
      <3> QED  BY <3>2, <3>3 DEF j
    <2>4. u # "n"
      BY <2>1
    <2>5. r(i) = Looked(s, u, i)
      BY <1>2, <2>1
    <2>6. (before \/ Len(text) + 1 > MaxHeader) = (long \/ n > MaxHeader)
      BY <1>1, <2>3, LimitsAssumption
    <2> HIDE DEF text, s, i, before
    <2>7. s.text = text /\ s.done = done /\ s.long = before /\ s.content = content
      BY <2>2, Changes
    <2>8. Looked(s, u, i) = InSize(s, u)
      BY <2>2, LookedIs
    <2>9. InSize(s, u) = Reading(done, long \/ n > MaxHeader, "size", Append(text, u), 0, content)
      BY <2>4, <2>6, <2>7 DEF InSize
    <2>10. r(i) = Reading(done, long \/ n > MaxHeader, "size", Piece(units, c, i), 0, content)
      BY <2>3, <2>5, <2>8, <2>9 DEF Added
    <2> QED  BY <2>1, <2>10 DEF i
  <1> HIDE DEF S
  <1>6. k \in 0..k
    BY <1>1
  <1>7. k \in S
    BY <1>1, <1>4, <1>5, <1>6, Along
  <1> QED  BY <1>1, <1>7 DEF S, r

LEMMA AlongTrailer ==
  ASSUME NEW units \in Seq(Units), NEW c \in 0..Len(units), NEW e \in c..Len(units),
         NEW done, NEW long, NEW content, NEW count \in Nat,
         After(units, c) = Reading(done, long, "trailer", <<>>, count, content),
         e - c <= MaxHeader,
         \A i \in c + 1..e : units[i] # "n"
  PROVE  After(units, e) =
           Reading(done, long, "trailer", Piece(units, c, e), count + (e - c), content)
  <1> DEFINE r(n) == After(units, n)
             m == Len(units)
             k == e - c
             In(n) == Reading(done, long, "trailer", Piece(units, c, c + n),
                              count + n, content)
             S == {n \in 0..k : r(c + n) = In(n)}
  <1>1. /\ m \in Nat /\ c \in Nat /\ e \in c..m /\ k \in Nat /\ c + k = e
    OBVIOUS
  <1>2. \A n \in 1..m : r(n) = Looked(r(n - 1), units[n], n)
    BY <1>1, ReferenceSteps
  <1>3. r(c) = Reading(done, long, "trailer", <<>>, count, content)
    OBVIOUS
  <1> HIDE DEF r
  <1>4. 0 \in S
    <2>1. Piece(units, c, c + 0) = <<>>
      BY <1>1 DEF Piece
    <2>2. c + 0 = c /\ 0 \in 0..k /\ count + 0 = count
      BY <1>1
    <2> QED  BY <1>3, <2>1, <2>2
  <1>5. ASSUME NEW n \in 1..k, n - 1 \in S PROVE n \in S
    <2> DEFINE i == c + n
               text == Piece(units, c, i - 1)
               s == r(i - 1)
               u == units[i]
    <2>1. i \in c + 1..m /\ i \in 1..m /\ i \in c + 1..e /\ c + (n - 1) = i - 1 /\ n \in 0..k
      BY <1>1
    <2>2. s = Reading(done, long, "trailer", text, count + (n - 1), content)
      BY <1>5, <2>1
    <2>3. /\ text \in Seq(Units) /\ c + Len(text) = i - 1
          /\ Added(text, u) = Piece(units, c, i)
      <3> DEFINE j == i - 1
      <3>1. /\ units \in Seq(Units) /\ c \in Nat /\ j \in Nat /\ i \in Nat /\ c <= j /\ i - j = 1
            /\ i <= Len(units) /\ j <= Len(units)
        BY <1>1, <2>1
      <3> HIDE DEF i, j
      <3>2. Piece(units, c, j) \in Seq(Units) /\ c + Len(Piece(units, c, j)) = j
        BY ONLY <3>1, PieceIs
      <3>3. Added(Piece(units, c, j), u) = Piece(units, c, i)
        BY ONLY <3>1, PieceNext
      <3> QED  BY <3>2, <3>3 DEF j
    <2>4. u # "n"
      BY <2>1
    <2>5. r(i) = Looked(s, u, i)
      BY <1>2, <2>1
    <2>6. ~(Len(text) + 1 > MaxHeader) /\ count + (n - 1) + 1 = count + n
      BY <1>1, <2>3, LimitsAssumption
    <2> HIDE DEF text, s, i
    <2>7. /\ s.text = text /\ s.count = count + (n - 1)
          /\ More(s, u, count + n) =
                Reading(done, long, "trailer", Append(text, u), count + n, content)
      BY <2>2, Changes
    <2>8. Looked(s, u, i) = InTrailer(s, u, i)
      BY <2>2, LookedIs
    <2>9. InTrailer(s, u, i) = More(s, u, count + n)
      BY <2>4, <2>6, <2>7 DEF InTrailer
    <2>10. r(i) = Reading(done, long, "trailer", Append(text, u), count + n, content)
      BY <2>5, <2>7, <2>8, <2>9
    <2>11. r(i) = Reading(done, long, "trailer", Piece(units, c, i), count + n, content)
      BY <2>3, <2>10 DEF Added
    <2> QED  BY <2>1, <2>11 DEF i
  <1> HIDE DEF S
  <1>6. k \in 0..k
    BY <1>1
  <1>7. k \in S
    BY <1>1, <1>4, <1>5, <1>6, Along
  <1> QED  BY <1>1, <1>7 DEF S, r

\* The units c + 1..e are k of the left ones of a body or of a chunk, and rest are to come.
\* A body ends with its last unit, the data of a chunk behind it.
Run(units, c, e, done, long, mode, left, content, k, rest) ==
    /\ units \in Seq(Units) /\ c \in 0..Len(units) /\ e \in c..Len(units)
    /\ mode \in {"body", "data"} /\ left \in Nat /\ content \in Seq(Nat)
    /\ k \in Nat /\ rest \in Nat /\ c + k = e /\ rest + k = left
    /\ mode = "body" => rest > 0
    /\ After(units, c) = Reading(done, long, mode, <<>>, left, content)

LEMMA AlongContent ==
  ASSUME NEW units, NEW c, NEW e, NEW done, NEW long, NEW mode, NEW left, NEW content,
         NEW k, NEW rest,
         Run(units, c, e, done, long, mode, left, content, k, rest)
  PROVE  After(units, e) = Reading(done, long, mode, <<>>, rest, With(content, c, k))
  <1> DEFINE r(n) == After(units, n)
             m == Len(units)
             In(n) == Reading(done, long, mode, <<>>, left - n, With(content, c, n))
             S == {n \in 0..k : r(c + n) = In(n)}
  <1>1. /\ units \in Seq(Units) /\ m \in Nat /\ c \in Nat /\ e \in c..m /\ k \in Nat /\ c + k = e
        /\ left \in Nat /\ content \in Seq(Nat) /\ (mode = "body" \/ mode = "data")
        /\ k <= left /\ (mode = "body" => k < left)
        /\ rest = left - k
    BY DEF Run
  <1>2. \A n \in 1..m : r(n) = Looked(r(n - 1), units[n], n)
    BY <1>1, ReferenceSteps
  <1>3. r(c) = Reading(done, long, mode, <<>>, left, content)
    BY DEF Run
  <1> HIDE DEF r
  <1>4. 0 \in S
    <2>1. With(content, c, 0) = content
      BY <1>1, WithIs
    <2>2. c + 0 = c /\ 0 \in 0..k /\ left - 0 = left
      BY <1>1
    <2> QED  BY <1>3, <2>1, <2>2
  <1>5. ASSUME NEW n \in 1..k, n - 1 \in S PROVE n \in S
    <2> DEFINE i == c + n
               s == r(i - 1)
               u == units[i]
               w == With(content, c, n - 1)
    <2>1. /\ i \in 1..m /\ c + (n - 1) = i - 1 /\ n \in 0..k
          /\ n - 1 \in Nat /\ c + (n - 1) + 1 = i /\ (n - 1) + 1 = n
      BY <1>1
    <2>2. s = Reading(done, long, mode, <<>>, left - (n - 1), w)
      BY <1>5, <2>1
    <2>3. Append(w, i) = With(content, c, n)
      <3> DEFINE j == n - 1
      <3>1. /\ content \in Seq(Nat) /\ c \in Nat /\ j \in Nat /\ n \in Nat /\ n - j = 1
            /\ i \in Nat /\ i - c = n
        BY <1>1, <2>1
      <3> HIDE DEF j, i
      <3>2. Added(With(content, c, j), i) = With(content, c, n)
        BY ONLY <3>1, WithNext
      <3> QED  BY <3>2 DEF j, Added
    <2>4. r(i) = Looked(s, u, i)
      BY <1>2, <2>1
    <2>5. /\ left - (n - 1) > 0 /\ left - (n - 1) - 1 = left - n
          /\ mode = "body" => left - (n - 1) # 1
      BY <1>1
    <2> HIDE DEF s, i, w
    <2>6. /\ s.count = left - (n - 1)
          /\ Kept(s, i) = Reading(done, long, mode, <<>>, left - (n - 1) - 1, Append(w, i))
      BY <2>2, Changes
    <2>7. Looked(s, u, i) = Kept(s, i)
      <3>1. CASE mode = "body"
        <4>1. Looked(s, u, i) = InBody(s, i)
          BY <2>2, <3>1, LookedIs
        <4> QED  BY <2>5, <2>6, <3>1, <4>1 DEF InBody
      <3>2. CASE mode = "data"
        <4>1. Looked(s, u, i) = InData(s, u, i)
          BY <2>2, <3>2, LookedIs
        <4> QED  BY <2>5, <2>6, <4>1 DEF InData
      <3> QED  BY <1>1, <3>1, <3>2
    <2>8. r(i) = Reading(done, long, mode, <<>>, left - n, With(content, c, n))
      BY <2>3, <2>4, <2>5, <2>6, <2>7
    <2> QED  BY <2>1, <2>8 DEF i
  <1> HIDE DEF S
  <1>6. k \in 0..k
    BY <1>1
  <1>7. k \in S
    BY <1>1, <1>4, <1>5, <1>6, Along
  <1>8. r(c + k) = In(k)
    BY <1>7 DEF S
  <1> QED  BY <1>1, <1>8 DEF r

-----------------------------------------------------------------------------
(* The reference at the end of a head, a body, a line or a chunk. *)

Returned(done, content, n) == Append(done, [head |-> Start(done), body |-> content, next |-> n])

\* What a head makes of the reference that has done and long.
HeadMakes(head, done, long, stop, t) ==
    /\ head.error # "none" => t.error = head.error /\ t.done = done
    /\ head.error = "none" /\ head.chunked => t = Reading(done, long, "size", <<>>, 0, <<>>)
    /\ head.error = "none" /\ ~head.chunked /\ head.length = 0 =>
          t = Reading(Returned(done, <<>>, stop), long, "headers", <<>>, 0, <<>>)
    /\ head.error = "none" /\ ~head.chunked /\ head.length # 0 =>
          t = Reading(done, long, "body", <<>>, head.length, <<>>)

LEMMA HeadEnd ==
  ASSUME NEW units, NEW b, NEW stop, NEW done, NEW long, NEW text, NEW k, NEW head, NEW t,
         units \in Seq(Units), b \in 0..Len(units), stop \in b + 2..Len(units),
         k \in Nat, stop - k = 2, text = Piece(units, b, k),
         After(units, b) = Reading(done, long, "headers", <<>>, 0, <<>>),
         stop - b <= MaxHeader,
         BlankAt(units, b, stop), \A i \in b + 1..stop - 1 : ~BlankAt(units, b, i),
         head = HeadOf(text), t = After(units, stop)
  PROVE  HeadMakes(head, done, long, stop, t)
  <1> DEFINE before == Piece(units, b, stop - 1)
             s == After(units, stop - 1)
             u == units[stop]
  <1>1. /\ b \in Nat /\ stop \in Nat /\ Len(units) \in Nat
        /\ stop \in b + 1..Len(units) /\ stop \in 1..Len(units)
        /\ b <= k /\ k <= Len(units) /\ k = stop - 2
        /\ stop - 1 \in b..Len(units) /\ stop > b + 1 /\ (stop - 1) - b < MaxHeader
    BY LimitsAssumption
  <1>2. s = Reading(done, long, "headers", before, 0, <<>>)
    BY <1>1, AlongHead
  <1>3. before \in Seq(Units) /\ b + Len(before) = stop - 1
    <2> DEFINE j == stop - 1
    <2>1. units \in Seq(Units) /\ b \in Nat /\ j \in Nat /\ b <= j /\ j <= Len(units)
      BY <1>1
    <2> HIDE DEF j
    <2>2. Piece(units, b, j) \in Seq(Units) /\ b + Len(Piece(units, b, j)) = j
      BY ONLY <2>1, PieceIs
    <2> QED  BY <2>2 DEF j
  <1>4. before # <<>>
    <2>1. before = <<>> <=> stop = b + 1
      BY <1>1, PieceEnds
    <2> QED  BY <1>1, <2>1
  <1>5. Last(before) = "n" /\ u = "n"
    <2>1. Last(before) = units[stop - 1]
      BY <1>1, PieceEnds
    <2> QED  BY <2>1 DEF BlankAt
  <1>6. Front(before) = Piece(units, b, k)
    <2>1. Len(before) - 1 = k - b
      BY <1>1, <1>3
    <2>2. \A i \in 1..k - b : before[i] = units[b + i]
      <3>1. before = [i \in 1..stop - 1 - b |-> units[b + i]]
        BY <1>1 DEF Piece
      <3>2. \A i \in 1..k - b : i \in 1..stop - 1 - b
        BY <1>1
      <3> HIDE DEF before
      <3> QED  BY <3>1, <3>2
    <2>3. Piece(units, b, k) = [i \in 1..k - b |-> units[b + i]]
      BY <1>1 DEF Piece
    <2>4. SubSeq(before, 1, k - b) = [i \in 1..k - b |-> before[i]]
      <3> HIDE DEF before
      <3> QED  BY <1>1, <1>3
    <2> HIDE DEF before
    <2>5. SubSeq(before, 1, k - b) = Piece(units, b, k)
      BY <2>2, <2>3, <2>4
    <2> QED  BY <2>1, <2>5 DEF Front
  <1>7. t = Looked(s, u, stop)
    BY <1>1, ReferenceSteps
  <1>8. ~(Len(before) + 1 > MaxHeader)
    BY <1>1, <1>3, LimitsAssumption
  <1> HIDE DEF before, s, u
  <1>9. s.text = before
    BY <1>2, Changes
  <1>10. t = AfterHead(s, head, stop)
    <2>1. Looked(s, u, stop) = InHead(s, u, stop)
      BY <1>2, LookedIs
    <2>2. InHead(s, u, stop) = AfterHead(s, HeadOf(Front(before)), stop)
      BY <1>4, <1>5, <1>8, <1>9 DEF InHead
    <2> QED  BY <1>6, <1>7, <2>1, <2>2
  <1>11. /\ \A why : Stopped(s, why).error = why /\ Stopped(s, why).done = done
         /\ \A m, n : Turned(s, m, n) = Reading(done, long, m, <<>>, n, <<>>)
         /\ Finished(s, stop) = Reading(Returned(done, <<>>, stop), long, "headers", <<>>, 0, <<>>)
    BY <1>2, Changes DEF Returned
  <1> QED  BY <1>10, <1>11 DEF AfterHead, HeadMakes

LEMMA HeadOverflows ==
  ASSUME NEW units \in Seq(Units), NEW b \in 0..Len(units), NEW e \in b..Len(units),
         NEW done, NEW long,
         After(units, b) = Reading(done, long, "headers", <<>>, 0, <<>>),
         e - b >= MaxHeader,
         \A i \in b + 1..e : ~BlankAt(units, b, i)
  PROVE  /\ After(units, e).error = "header_too_large"
         /\ After(units, e).done = done
  <1> DEFINE i == b + MaxHeader
             text == Piece(units, b, i - 1)
             s == After(units, i - 1)
             t == After(units, i)
             u == units[i]
  <1>1. /\ b \in Nat /\ i \in Nat /\ Len(units) \in Nat
        /\ i \in b + 1..e /\ i \in b + 1..Len(units) /\ i \in 1..Len(units) /\ i \in 0..Len(units)
        /\ i - 1 \in b..Len(units) /\ (i - 1) - b < MaxHeader /\ e \in i..Len(units)
        /\ \A j \in b + 1..i - 1 : j \in b + 1..e
        /\ i - 1 - b + 1 = MaxHeader
    BY LimitsAssumption
  <1> HIDE DEF i
  <1>2. s = Reading(done, long, "headers", text, 0, <<>>)
    BY <1>1, AlongHead
  <1>3. text \in Seq(Units) /\ b + Len(text) = i - 1
    <2> DEFINE j == i - 1
    <2>1. units \in Seq(Units) /\ b \in Nat /\ j \in Nat /\ b <= j /\ j <= Len(units)
      BY <1>1
    <2> HIDE DEF j
    <2>2. Piece(units, b, j) \in Seq(Units) /\ b + Len(Piece(units, b, j)) = j
      BY ONLY <2>1, PieceIs
    <2> QED  BY <2>2 DEF j
  <1>4. ~(u = "n" /\ text # <<>> /\ Last(text) = "n")
    <2>1. text # <<>> => i > b + 1
      BY <1>1, PieceEnds
    <2>2. i > b + 1 => Last(text) = units[i - 1]
      BY <1>1, PieceEnds
    <2>3. ~BlankAt(units, b, i)
      BY <1>1
    <2>4. i > b + 1 => i >= b + 2
      BY <1>1
    <2> QED  BY <2>1, <2>2, <2>3, <2>4 DEF BlankAt
  <1>5. t = Looked(s, u, i)
    BY <1>1, ReferenceSteps
  <1>6. Len(text) + 1 >= MaxHeader
    BY <1>1, <1>3, LimitsAssumption
  <1> HIDE DEF text, s, u
  <1>7. t = Stopped(s, "header_too_large")
    <2>1. s.text = text
      BY ONLY <1>2, Changes
    <2>2. Looked(s, u, i) = InHead(s, u, i)
      BY <1>2, LookedIs
    <2> QED  BY <1>4, <1>5, <1>6, <2>1, <2>2 DEF InHead
  <1>8. t.error = "header_too_large" /\ t.done = done
    BY <1>2, <1>7, Changes
  <1>9. After(units, e) = t
    BY <1>1, <1>8, ReferenceGrows
  <1> QED  BY <1>8, <1>9

LEMMA BodyEnd ==
  ASSUME NEW units \in Seq(Units), NEW c \in 0..Len(units), NEW e \in c + 1..Len(units),
         NEW done, NEW long, NEW left \in Nat, left = e - c,
         After(units, c) = Reading(done, long, "body", <<>>, left, <<>>)
  PROVE  After(units, e) =
           Reading(Returned(done, [i \in 1..left |-> c + i], e), long, "headers", <<>>, 0, <<>>)
  <1> DEFINE k == left - 1
             w == With(<<>>, c, k)
             s == After(units, e - 1)
             all == [i \in 1..left |-> c + i]
  <1>1. /\ c \in Nat /\ e \in Nat /\ Len(units) \in Nat /\ e \in 1..Len(units)
        /\ e - 1 \in c..Len(units) /\ (e - 1) - c < left /\ (e - 1) - c = k /\ k \in Nat
        /\ left - k = 1 /\ c + k + 1 = e /\ k + 1 = left
    OBVIOUS
  <1>2. <<>> \in Seq(Nat)
    OBVIOUS
  <1> HIDE DEF k
  <1>4. s = Reading(done, long, "body", <<>>, 1, w)
    <2> DEFINE f == e - 1
    <2>1. Run(units, c, f, done, long, "body", left, <<>>, k, 1)
      BY <1>1, <1>2 DEF Run
    <2> HIDE DEF f
    <2>2. After(units, f) = Reading(done, long, "body", <<>>, 1, With(<<>>, c, k))
      BY ONLY <2>1, AlongContent
    <2> QED  BY <2>2 DEF f
  <1>5. Append(w, e) = all
    <2>1. Append(w, e) = With(<<>>, c, left)
      <3>1. /\ <<>> \in Seq(Nat) /\ c \in Nat /\ k \in Nat /\ left \in Nat /\ left - k = 1
            /\ e \in Nat /\ e - c = left
        BY <1>1, <1>2
      <3>2. Added(w, e) = With(<<>>, c, left)
        BY ONLY <3>1, WithNext
      <3> QED  BY <3>2 DEF Added
    <2>2. With(<<>>, c, left) = all
      <3>1. c \in Nat /\ left \in Nat /\ <<>> \in Seq(Nat)
        BY <1>1, <1>2
      <3> QED  BY ONLY <3>1, WithIs
    <2> QED  BY <2>1, <2>2
  <1>6. After(units, e) = Looked(s, units[e], e)
    BY <1>1, ReferenceSteps
  <1> HIDE DEF w, s, all
  <1>7. s.count = 1 /\ Kept(s, e) = Reading(done, long, "body", <<>>, 1 - 1, all)
    <2>1. s.count = 1 /\ Kept(s, e) = Reading(done, long, "body", <<>>, 1 - 1, Append(w, e))
      BY <1>4, Changes
    <2> QED  BY <1>5, <2>1
  <1>8. After(units, e) = Finished(Kept(s, e), e)
    <2>1. Looked(s, units[e], e) = InBody(s, e)
      BY <1>4, LookedIs
    <2> QED  BY <1>6, <1>7, <2>1 DEF InBody
  <1>9. Finished(Kept(s, e), e) = Reading(Returned(done, all, e), long, "headers", <<>>, 0, <<>>)
    BY <1>7, Changes DEF Returned
  <1> QED  BY <1>8, <1>9 DEF all

\* What the unit behind a chunk makes of it.
ChunkMakes(u, done, long, content, t) ==
    /\ u = "n" => t = Reading(done, long, "size", <<>>, 0, content)
    /\ u # "n" => t.error = "bad_request" /\ t.done = done

LEMMA ChunkEnd ==
  ASSUME NEW units, NEW c, NEW e, NEW done, NEW long, NEW content, NEW left, NEW run,
         NEW next, NEW t,
         units \in Seq(Units), c \in 0..Len(units), e \in c..Len(units),
         next \in 1..Len(units), next - e = 1,
         content \in Seq(Nat), left \in Nat, left = e - c,
         run = [i \in 1..left |-> c + i],
         After(units, c) = Reading(done, long, "data", <<>>, left, content),
         t = After(units, next)
  PROVE  ChunkMakes(units[next], done, long, content \o run, t)
  <1> DEFINE w == With(content, c, left)
             s == After(units, e)
             u == units[next]
  <1>1. /\ c \in Nat /\ Len(units) \in Nat /\ e \in c..Len(units) /\ next \in 1..Len(units)
        /\ e - c <= left /\ left - (e - c) = 0 /\ next - 1 = e
    OBVIOUS
  <1>2. s = Reading(done, long, "data", <<>>, 0, w)
    <2>1. Run(units, c, e, done, long, "data", left, content, left, 0)
      BY <1>1 DEF Run
    <2> QED  BY ONLY <2>1, AlongContent
  <1>3. w = content \o run
    <2>1. c \in Nat /\ left \in Nat /\ content \in Seq(Nat)
      BY <1>1
    <2>2. content \o [i \in 1..left |-> c + i] = w
      BY ONLY <2>1, WithIs DEF w
    <2> QED  BY <2>2
  <1>4. t = Looked(s, u, next)
    BY <1>1, ReferenceSteps
  <1> HIDE DEF w, s, u
  <1>6. /\ s.count = 0 /\ Turned(s, "size", 0) = Reading(done, long, "size", <<>>, 0, w)
        /\ Stopped(s, "bad_request").error = "bad_request" /\ Stopped(s, "bad_request").done = done
    BY <1>2, Changes
  <1>7. Looked(s, u, next) = InData(s, u, next)
    BY <1>2, LookedIs
  <1>8. InData(s, u, next) = IF u = "n" THEN Turned(s, "size", 0) ELSE Stopped(s, "bad_request")
    BY <1>6 DEF InData
  <1> QED  BY <1>3, <1>4, <1>6, <1>7, <1>8 DEF u, ChunkMakes

\* A line is what stands between c and the first line end at stop.
LineAt(units, c, stop) == units[stop] = "n" /\ \A i \in c + 1..stop - 1 : units[i] # "n"

LEMMA SizeEnd ==
  ASSUME NEW units \in Seq(Units), NEW c \in 0..Len(units), NEW stop \in c + 1..Len(units),
         NEW done, NEW long \in BOOLEAN, NEW content,
         After(units, c) = Reading(done, long, "size", <<>>, 0, content),
         LineAt(units, c, stop),
         NEW line, line = Piece(units, c, stop - 1),
         NEW t, t = After(units, stop)
  PROVE  \E now \in BOOLEAN :
           /\ ~IsSize(line) => t.error = "bad_request" /\ t.done = done
           /\ IsSize(line) /\ Sizes[line[1]] = 0 =>
                 t = Reading(done, now, "trailer", <<>>, 0, content)
           /\ IsSize(line) /\ Sizes[line[1]] # 0 /\ Len(content) + Sizes[line[1]] > MaxBody =>
                 t.error = "body_too_large" /\ t.done = done
           /\ IsSize(line) /\ Sizes[line[1]] # 0 /\ ~(Len(content) + Sizes[line[1]] > MaxBody) =>
                 t = Reading(done, now, "data", <<>>, Sizes[line[1]], content)
  <1> DEFINE now == long \/ (stop - 1) - c > MaxHeader
             s == After(units, stop - 1)
             u == units[stop]
  <1>1. /\ Len(units) \in Nat /\ stop \in 1..Len(units) /\ stop - 1 \in c..Len(units)
    OBVIOUS
  <1>2. s = Reading(done, now, "size", line, 0, content)
    BY <1>1, AlongSize DEF LineAt
  <1>3. t = Looked(s, u, stop)
    BY <1>1, ReferenceSteps
  <1>4. u = "n" /\ now \in BOOLEAN
    BY DEF LineAt
  <1> HIDE DEF now, s, u
  <1>5. /\ s.text = line /\ s.content = content
        /\ \A why : Stopped(s, why).error = why /\ Stopped(s, why).done = done
        /\ \A m, k : Turned(s, m, k) = Reading(done, now, m, <<>>, k, content)
    <2>1. s.text = line /\ s.content = content
      BY ONLY <1>2, Changes
    <2>2. \A why : Stopped(s, why).error = why /\ Stopped(s, why).done = done
      BY ONLY <1>2, Changes
    <2>3. \A m, k : Turned(s, m, k) = Reading(done, now, m, <<>>, k, content)
      BY ONLY <1>2, Changes
    <2> QED  BY <2>1, <2>2, <2>3
  <1>6. Looked(s, u, stop) = InSize(s, u)
    BY <1>2, LookedIs
  <1>7. t = AfterSize(s, line)
    BY <1>3, <1>4, <1>5, <1>6 DEF InSize
  <1>8. /\ ~IsSize(line) => t.error = "bad_request" /\ t.done = done
        /\ IsSize(line) /\ Sizes[line[1]] = 0 =>
              t = Reading(done, now, "trailer", <<>>, 0, content)
        /\ IsSize(line) /\ Sizes[line[1]] # 0 /\ Len(content) + Sizes[line[1]] > MaxBody =>
              t.error = "body_too_large" /\ t.done = done
        /\ IsSize(line) /\ Sizes[line[1]] # 0 /\ ~(Len(content) + Sizes[line[1]] > MaxBody) =>
              t = Reading(done, now, "data", <<>>, Sizes[line[1]], content)
    BY <1>5, <1>7 DEF AfterSize
  <1> QED  BY <1>4, <1>8

LEMMA TrailerOverflows ==
  ASSUME NEW units \in Seq(Units), NEW c \in 0..Len(units), NEW e \in c..Len(units),
         NEW done, NEW long, NEW content, NEW count \in Nat,
         After(units, c) = Reading(done, long, "trailer", <<>>, count, content),
         e - c > MaxHeader,
         \A i \in c + 1..e : units[i] # "n"
  PROVE  /\ After(units, e).error = "header_too_large"
         /\ After(units, e).done = done
  <1> DEFINE i == c + MaxHeader + 1
             text == Piece(units, c, i - 1)
             s == After(units, i - 1)
             t == After(units, i)
             u == units[i]
  <1>1. /\ c \in Nat /\ i \in Nat /\ Len(units) \in Nat
        /\ i \in c + 1..e /\ i \in c + 1..Len(units) /\ i \in 1..Len(units) /\ i \in 0..Len(units)
        /\ i - 1 \in c..Len(units) /\ (i - 1) - c <= MaxHeader /\ e \in i..Len(units)
        /\ \A j \in c + 1..i - 1 : j \in c + 1..e
        /\ i - 1 - c = MaxHeader
    BY LimitsAssumption
  <1> HIDE DEF i
  <1>2. s = Reading(done, long, "trailer", text, count + ((i - 1) - c), content)
    BY <1>1, AlongTrailer
  <1>3. Len(text) + 1 > MaxHeader
    <2> DEFINE j == i - 1
    <2>1. units \in Seq(Units) /\ c \in Nat /\ j \in Nat /\ c <= j /\ j <= Len(units)
      BY <1>1
    <2> HIDE DEF j
    <2>2. Piece(units, c, j) \in Seq(Units) /\ c + Len(Piece(units, c, j)) = j
      BY ONLY <2>1, PieceIs
    <2>3. text \in Seq(Units) /\ c + Len(text) = i - 1
      BY <2>2 DEF j
    <2> QED  BY <1>1, <2>3, LimitsAssumption
  <1>4. t = Looked(s, u, i) /\ u # "n"
    BY <1>1, ReferenceSteps
  <1> HIDE DEF text, s, u
  <1>5. t = Stopped(s, "header_too_large")
    <2>1. s.text = text
      BY ONLY <1>2, Changes
    <2>2. Looked(s, u, i) = InTrailer(s, u, i)
      BY <1>2, LookedIs
    <2> QED  BY <1>3, <1>4, <2>1, <2>2 DEF InTrailer
  <1>6. t.error = "header_too_large" /\ t.done = done
    BY <1>2, <1>5, Changes
  <1>7. After(units, e) = t
    BY <1>1, <1>6, ReferenceGrows
  <1> QED  BY <1>6, <1>7

LEMMA TrailerEnd ==
  ASSUME NEW units \in Seq(Units), NEW c \in 0..Len(units), NEW stop \in c + 1..Len(units),
         NEW done, NEW long, NEW content, NEW count \in Nat,
         After(units, c) = Reading(done, long, "trailer", <<>>, count, content),
         LineAt(units, c, stop),
         NEW line, line = Piece(units, c, stop - 1),
         NEW all, all = count + (stop - c),
         NEW t, t = After(units, stop)
  PROVE  /\ stop = c + 1 =>
               t = Reading(Returned(done, content, stop), long, "headers", <<>>, 0, <<>>)
         /\ stop # c + 1 /\ all > MaxHeader => t.error = "header_too_large" /\ t.done = done
         /\ stop # c + 1 /\ ~(all > MaxHeader) /\ ~HasColon(line) =>
               t.error = "bad_request" /\ t.done = done
         /\ stop # c + 1 /\ ~(all > MaxHeader) /\ HasColon(line) =>
               t = Reading(done, long, "trailer", <<>>, all, content)
  <1>1. /\ c \in Nat /\ Len(units) \in Nat /\ stop \in 1..Len(units)
        /\ stop - 1 \in c..Len(units) /\ stop - 1 \in 0..Len(units) /\ stop \in stop - 1..Len(units)
    OBVIOUS
  <1>2. CASE (stop - 1) - c > MaxHeader
    <2>1. /\ After(units, stop - 1).error = "header_too_large"
          /\ After(units, stop - 1).done = done
      BY <1>1, <1>2, TrailerOverflows DEF LineAt
    <2>2. t = After(units, stop - 1)
      BY <1>1, <2>1, ReferenceGrows
    <2>3. stop # c + 1 /\ all > MaxHeader
      BY <1>1, <1>2, LimitsAssumption
    <2> QED  BY <2>1, <2>2, <2>3
  <1>3. CASE (stop - 1) - c <= MaxHeader
    <2> DEFINE s == After(units, stop - 1)
               u == units[stop]
               before == count + ((stop - 1) - c)
    <2>1. s = Reading(done, long, "trailer", line, before, content)
      BY <1>1, <1>3, AlongTrailer DEF LineAt
    <2>2. line = <<>> <=> stop = c + 1
      BY <1>1, PieceEnds
    <2>3. t = Looked(s, u, stop)
      BY <1>1, ReferenceSteps
    <2>4. u = "n" /\ before + 1 = all
      BY <1>1 DEF LineAt
    <2> HIDE DEF s, u, before
    <2>5. /\ s.text = line /\ s.count = before
          /\ \A why : Stopped(s, why).error = why /\ Stopped(s, why).done = done
          /\ \A m, k : Turned(s, m, k) = Reading(done, long, m, <<>>, k, content)
          /\ Finished(s, stop) =
                Reading(Returned(done, content, stop), long, "headers", <<>>, 0, <<>>)
      <3>1. s.text = line /\ s.count = before
        BY ONLY <2>1, Changes
      <3>2. \A why : Stopped(s, why).error = why /\ Stopped(s, why).done = done
        BY ONLY <2>1, Changes
      <3>3. \A m, k : Turned(s, m, k) = Reading(done, long, m, <<>>, k, content)
        BY ONLY <2>1, Changes
      <3>4. Finished(s, stop) =
                Reading(Returned(done, content, stop), long, "headers", <<>>, 0, <<>>)
        BY <2>1, Changes DEF Returned
      <3> QED  BY <3>1, <3>2, <3>3, <3>4
    <2>6. Looked(s, u, stop) = InTrailer(s, u, stop)
      BY <2>1, LookedIs
    <2> QED  BY <2>2, <2>3, <2>4, <2>5, <2>6 DEF InTrailer
  <1>4. (stop - 1) - c > MaxHeader \/ (stop - 1) - c <= MaxHeader
    BY <1>1, LimitsAssumption
  <1> QED  BY <1>2, <1>3, <1>4


-----------------------------------------------------------------------------
(* The inductive invariant. *)

\* The reference after n units, when nothing has been refused.
Stands(units, n, done, mode, text, count, content) ==
    \E long \in BOOLEAN : After(units, n) = Reading(done, long, mode, text, count, content)

\* While it reads, the reader is where the reference is after the units up to
\* the cursor; the units behind it are in the buffer and not looked at yet.  A
\* body without a length has already been returned by the reference.
AtHead ==
    /\ cursor = base /\ body = <<>>
    /\ Stands(stream, base, requests, "headers", <<>>, 0, <<>>)

AtBody ==
    /\ cursor <= end /\ body = <<>>
    /\ cursor < end => Stands(stream, cursor, requests, "body", <<>>, end - cursor, <<>>)
    /\ cursor = end =>
          Stands(stream, cursor, Returned(requests, <<>>, cursor), "headers", <<>>, 0, <<>>)

AtSize == Stands(stream, cursor, requests, "size", <<>>, 0, body)

AtData ==
    /\ cursor <= end
    /\ Stands(stream, cursor, requests, "data", <<>>, end - cursor, body)

AtTrailer == Stands(stream, cursor, requests, "trailer", <<>>, cursor - trailers, body)

Follows ==
    /\ base = Start(requests)
    /\ phase = "headers" => AtHead
    /\ phase = "body"    => AtBody
    /\ phase = "size"    => AtSize
    /\ phase = "data"    => AtData
    /\ phase = "trailer" => AtTrailer
    /\ phase = "over"    => ReadsWhatWasSent

IInv == TypeOK /\ Follows

-----------------------------------------------------------------------------
(* What the type invariant says. *)

LEMMA SeqWider ==
  ASSUME NEW S, NEW T, S \subseteq T
  PROVE  Seq(S) \subseteq Seq(T)
  OBVIOUS

LEMMA Facts ==
  ASSUME TypeOK
  PROVE  /\ stream \in Seq(Units) /\ Len(stream) \in Nat
         /\ base \in Nat /\ got \in Nat /\ cursor \in Nat /\ end \in Nat /\ trailers \in Nat
         /\ base <= got /\ got <= Len(stream) /\ cursor <= got /\ trailers <= cursor
         /\ requests \in Seq(Requests) /\ body \in Seq(Nat)
  <1>1. stream \in Seq(Units) /\ Len(stream) \in Nat
    BY StreamsAssumption DEF TypeOK
  <1>2. MaxBody \in Nat
    BY LimitsAssumption
  <1>3. /\ base \in Nat /\ got \in Nat /\ cursor \in Nat /\ trailers \in Nat
        /\ base <= got /\ got <= Len(stream) /\ cursor <= got /\ trailers <= cursor
    BY <1>1 DEF TypeOK
  <1>4. end \in Nat
    BY <1>2, <1>3 DEF TypeOK
  <1>5. body \in Seq(Nat)
    <2>1. 1..Len(stream) \subseteq Nat
      OBVIOUS
    <2> QED  BY <2>1, SeqWider DEF TypeOK
  <1>6. requests \in Seq(Requests)
    <2> DEFINE R == [head : Nat, body : Seq(1..Len(stream)), next : 0..got]
    <2>1. Seq(1..Len(stream)) \subseteq Seq(Nat)
      <3>1. 1..Len(stream) \subseteq Nat
        OBVIOUS
      <3> QED  BY <3>1, SeqWider
    <2>2. 0..got \subseteq Nat
      OBVIOUS
    <2>3. R \subseteq Requests
      BY <2>1, <2>2 DEF Requests
    <2>4. requests \in Seq(R)
      BY DEF TypeOK
    <2> HIDE DEF R
    <2> QED  BY <2>3, <2>4, SeqWider
  <1> QED  BY <1>1, <1>3, <1>4, <1>5, <1>6

\* The end of the head is the first blank line in the buffer, if there is one.
LEMMA HeadEndsIs ==
  ASSUME TypeOK
  PROVE  /\ HeadEnds = {} => \A i \in base + 1..got : ~BlankAt(stream, base, i)
         /\ HeadEnds # {} =>
               /\ Min(HeadEnds) \in base + 2..got
               /\ BlankAt(stream, base, Min(HeadEnds))
               /\ \A i \in base + 1..Min(HeadEnds) - 1 : ~BlankAt(stream, base, i)
  <1>1. base \in Nat /\ got \in Nat
    BY Facts
  <1>2. \A i \in base + 1..got : BlankAt(stream, base, i) => i \in HeadEnds
    BY <1>1 DEF BlankAt, HeadEnds
  <1>3. ASSUME HeadEnds # {}
        PROVE  /\ Min(HeadEnds) \in base + 2..got
               /\ BlankAt(stream, base, Min(HeadEnds))
               /\ \A i \in base + 1..Min(HeadEnds) - 1 : ~BlankAt(stream, base, i)
    <2> DEFINE stop == Min(HeadEnds)
    <2>1. HeadEnds \in SUBSET Nat
      BY <1>1 DEF HeadEnds
    <2>2. stop \in HeadEnds /\ \A y \in HeadEnds : stop <= y
      BY <1>3, <2>1, MinIs
    <2> HIDE DEF stop
    <2>3. stop \in base + 2..got /\ BlankAt(stream, base, stop)
      BY <1>1, <2>2 DEF HeadEnds, BlankAt
    <2>4. \A i \in base + 1..stop - 1 : i \in base + 1..got /\ ~(stop <= i)
      BY <1>1, <2>3
    <2>5. \A i \in base + 1..stop - 1 : ~BlankAt(stream, base, i)
      BY <1>2, <2>2, <2>4
    <2> QED  BY <2>3, <2>5 DEF stop
  <1> QED  BY <1>2, <1>3

\* And the end of the line the first line end.
LEMMA LineEndsIs ==
  ASSUME TypeOK
  PROVE  /\ LineEnds = {} => \A i \in cursor + 1..got : stream[i] # "n"
         /\ LineEnds # {} =>
               /\ Min(LineEnds) \in cursor + 1..got
               /\ LineAt(stream, cursor, Min(LineEnds))
  <1>1. cursor \in Nat /\ got \in Nat
    BY Facts
  <1>2. \A i \in cursor + 1..got : stream[i] = "n" => i \in LineEnds
    BY DEF LineEnds
  <1>3. ASSUME LineEnds # {}
        PROVE  /\ Min(LineEnds) \in cursor + 1..got
               /\ LineAt(stream, cursor, Min(LineEnds))
    <2> DEFINE stop == Min(LineEnds)
    <2>1. LineEnds \in SUBSET Nat
      BY <1>1 DEF LineEnds
    <2>2. stop \in LineEnds /\ \A y \in LineEnds : stop <= y
      BY <1>3, <2>1, MinIs
    <2> HIDE DEF stop
    <2>3. stop \in cursor + 1..got /\ stream[stop] = "n"
      BY <2>2 DEF LineEnds
    <2>4. \A i \in cursor + 1..stop - 1 : i \in cursor + 1..got /\ ~(stop <= i)
      BY <1>1, <2>3
    <2>5. \A i \in cursor + 1..stop - 1 : stream[i] # "n"
      BY <1>2, <2>2, <2>4
    <2> QED  BY <2>3, <2>5 DEF stop, LineAt
  <1> QED  BY <1>2, <1>3

-----------------------------------------------------------------------------
(* The reader and the reference at the end of the buffer. *)

\* While the reader waits for more, the reference has refused nothing, has
\* returned what the reader has, and is between two requests when it is.
LEMMA Waiting ==
  ASSUME IInv, Room > 0, NEW ref, ref = After(stream, got)
  PROVE  /\ ref.error = "none" /\ ref.done = requests
         /\ (ref.mode = "headers" /\ ref.text = <<>>) <=> (phase = "headers" /\ got = base)
  <1>1. TypeOK /\ Follows
    BY DEF IInv
  <1>2. /\ stream \in Seq(Units) /\ base \in 0..Len(stream) /\ cursor \in 0..Len(stream)
        /\ got \in base..Len(stream) /\ got \in cursor..Len(stream)
        /\ base \in Nat /\ cursor \in Nat /\ got \in Nat /\ end \in Nat /\ trailers \in Nat
        /\ base <= got /\ cursor <= got /\ got <= Len(stream) /\ trailers <= cursor
        /\ body \in Seq(Nat) /\ MaxHeader \in Nat
    BY <1>1, Facts, LimitsAssumption
  <1> DEFINE Is(mode, text) ==
               \E long, count, content :
                  ref = Reading(requests, long, mode, text, count, content)
  <1>3. \A mode, text : Is(mode, text) =>
           ref.error = "none" /\ ref.done = requests /\ ref.mode = mode /\ ref.text = text
    BY Changes
  <1>4. CASE phase = "headers" /\ HeadEnds = {} /\ got - base < MaxHeader
    <2>1. PICK long \in BOOLEAN :
             After(stream, base) = Reading(requests, long, "headers", <<>>, 0, <<>>)
      BY <1>1, <1>4 DEF Follows, AtHead, Stands
    <2>2. \A i \in base + 1..got : ~BlankAt(stream, base, i)
      BY <1>1, <1>4, HeadEndsIs
    <2>3. ref = Reading(requests, long, "headers", Piece(stream, base, got), 0, <<>>)
      BY ONLY ref = After(stream, got), <1>2, <1>4, <2>1, <2>2, AlongHead
    <2>4. Piece(stream, base, got) = <<>> <=> got = base
      BY ONLY <1>2, PieceEnds
    <2>5. Is("headers", Piece(stream, base, got))
      BY <2>3
    <2> HIDE DEF Is
    <2> QED  BY <1>3, <1>4, <2>4, <2>5
  <1>5. CASE phase = "size" /\ LineEnds = {}
    <2>1. PICK long \in BOOLEAN :
             After(stream, cursor) = Reading(requests, long, "size", <<>>, 0, body)
      BY <1>1, <1>5 DEF Follows, AtSize, Stands
    <2>2. \A i \in cursor + 1..got : stream[i] # "n"
      BY <1>1, <1>5, LineEndsIs
    <2>3. ref = Reading(requests, long \/ got - cursor > MaxHeader, "size",
                        Piece(stream, cursor, got), 0, body)
      BY ONLY ref = After(stream, got), <1>2, <2>1, <2>2, AlongSize
    <2>4. Is("size", Piece(stream, cursor, got))
      BY <2>3
    <2> HIDE DEF Is
    <2> QED  BY <1>3, <1>5, <2>4
  <1>6. CASE phase = "trailer" /\ LineEnds = {} /\ got - cursor <= MaxHeader
    <2>1. PICK long \in BOOLEAN :
             After(stream, cursor) =
               Reading(requests, long, "trailer", <<>>, cursor - trailers, body)
      BY <1>1, <1>6 DEF Follows, AtTrailer, Stands
    <2>2. \A i \in cursor + 1..got : stream[i] # "n"
      BY <1>1, <1>6, LineEndsIs
    <2>3. cursor - trailers \in Nat
      BY <1>2
    <2>4. ref = Reading(requests, long, "trailer", Piece(stream, cursor, got),
                        cursor - trailers + (got - cursor), body)
      <3> DEFINE count == cursor - trailers
      <3>1. count \in Nat /\ After(stream, cursor) =
               Reading(requests, long, "trailer", <<>>, count, body)
        BY <2>1, <2>3
      <3> HIDE DEF count
      <3>2. ref = Reading(requests, long, "trailer", Piece(stream, cursor, got),
                          count + (got - cursor), body)
        BY ONLY ref = After(stream, got), <1>2, <1>6, <2>2, <3>1, AlongTrailer
      <3> QED  BY <3>2 DEF count
    <2>5. Is("trailer", Piece(stream, cursor, got))
      BY <2>4
    <2> HIDE DEF Is
    <2> QED  BY <1>3, <1>6, <2>5
  <1>7. CASE phase = "body" /\ got < end
    <2> DEFINE left == end - cursor
               k == got - cursor
               rest == left - k
    <2>1. PICK long \in BOOLEAN :
             After(stream, cursor) = Reading(requests, long, "body", <<>>, left, <<>>)
      <3>1. cursor < end
        BY <1>2, <1>7
      <3> QED  BY <1>1, <1>7, <3>1 DEF Follows, AtBody, Stands
    <2>2. left \in Nat /\ k \in Nat /\ rest \in Nat /\ cursor + k = got /\ rest + k = left /\ rest > 0
      BY <1>2, <1>7
    <2> HIDE DEF left, k, rest
    <2>3. Run(stream, cursor, got, requests, long, "body", left, <<>>, k, rest)
      BY <1>2, <2>1, <2>2 DEF Run
    <2>4. ref = Reading(requests, long, "body", <<>>, rest, With(<<>>, cursor, k))
      BY ONLY ref = After(stream, got), <2>3, AlongContent
    <2>5. Is("body", <<>>)
      BY <2>4
    <2> HIDE DEF Is
    <2> QED  BY <1>3, <1>7, <2>5
  <1>8. CASE phase = "data" /\ got <= end
    <2> DEFINE left == end - cursor
               k == got - cursor
               rest == left - k
    <2>1. PICK long \in BOOLEAN :
             After(stream, cursor) = Reading(requests, long, "data", <<>>, left, body)
      BY <1>1, <1>8 DEF Follows, AtData, Stands
    <2>2. left \in Nat /\ k \in Nat /\ rest \in Nat /\ cursor + k = got /\ rest + k = left
      BY <1>2, <1>8
    <2>3. body \in Seq(Nat)
      BY <1>2, <1>8
    <2> HIDE DEF left, k, rest
    <2>4. Run(stream, cursor, got, requests, long, "data", left, body, k, rest)
      BY <1>2, <2>1, <2>2, <2>3 DEF Run
    <2>5. ref = Reading(requests, long, "data", <<>>, rest, With(body, cursor, k))
      BY ONLY ref = After(stream, got), <2>4, AlongContent
    <2>6. Is("data", <<>>)
      BY <2>5
    <2> HIDE DEF Is
    <2> QED  BY <1>3, <1>8, <2>6
  <1>9. \/ phase = "headers" /\ HeadEnds = {} /\ got - base < MaxHeader
        \/ phase \in {"size", "trailer"} /\ LineEnds = {} /\ got - cursor <= MaxHeader
        \/ phase = "body" /\ got < end
        \/ phase = "data" /\ got <= end
    BY DEF Room
  <1> QED  BY <1>4, <1>5, <1>6, <1>7, <1>8, <1>9

\* A reader that stops with what the reference says stops as it should.
LEMMA Stops ==
  ASSUME IInv, NEW why \in Errors, Fail(why),
         NEW ref, ref = After(stream, got), ref.done = requests,
         \/ why = ref.error
         \/ why = "header_too_large" /\ ref.long
         \/ why = "io"
         \/ /\ ref.error = "none"
            /\ why = IF ref.mode = "headers" /\ ref.text = <<>> THEN "closed" ELSE "bad_request"
  PROVE  IInv'
  <1>1. TypeOK /\ Follows
    BY DEF IInv
  <1>2. /\ phase' = "over" /\ error' = why
        /\ stream' = stream /\ base' = base /\ got' = got /\ cursor' = cursor /\ end' = end
        /\ trailers' = trailers /\ body' = body /\ requests' = requests
    BY DEF Fail
  <1>3. TypeOK'
    BY <1>1, <1>2 DEF TypeOK
  <1>4. ReadsWhatWasSent'
    <2>1. Reference(stream')[got'] = ref
      BY <1>2 DEF After
    <2>2. IsPrefix(requests, requests)
      <3>1. requests \in Seq(Requests)
        BY <1>1, Facts
      <3>2. Agree(requests, requests)
        BY <3>1 DEF Agree
      <3> QED  BY <3>1, <3>2, AgreePrefix
    <2> QED  BY <1>2, <2>1, <2>2 DEF ReadsWhatWasSent
  <1>5. Follows'
    BY <1>1, <1>2, <1>4 DEF Follows
  <1> QED  BY <1>3, <1>5 DEF IInv

\* What the reference has refused earlier it still refuses.
LEMMA StopsBefore ==
  ASSUME IInv, NEW why \in Errors, why # "none", Fail(why),
         NEW n \in 0..got, After(stream, n).error = why, After(stream, n).done = requests
  PROVE  IInv'
  <1>1. stream \in Seq(Units) /\ n \in 0..Len(stream) /\ got \in n..Len(stream)
    <2>1. stream \in Seq(Units) /\ got \in Nat /\ Len(stream) \in Nat /\ got <= Len(stream)
      BY Facts DEF IInv
    <2> QED  BY <2>1
  <1>2. After(stream, got) = After(stream, n)
    BY <1>1, ReferenceGrows
  <1> DEFINE ref == After(stream, got)
  <1>3. why = ref.error /\ ref.done = requests
    BY <1>2
  <1> HIDE DEF ref
  <1> QED  BY <1>3, Stops DEF ref

\* A request that the reference has returned too.
LEMMA Yields ==
  ASSUME IInv, NEW content \in Seq(1..Len(stream)), NEW next \in cursor..got, Yield(content, next),
         Stands(stream, next, Returned(requests, content, next), "headers", <<>>, 0, <<>>)
  PROVE  IInv'
  <1>1. TypeOK /\ Follows
    BY DEF IInv
  <1>2. /\ requests' = Returned(requests, content, next)
        /\ base' = next /\ cursor' = next /\ phase' = "headers" /\ body' = <<>>
        /\ stream' = stream /\ got' = got /\ end' = end /\ trailers' = trailers /\ error' = error
    BY <1>1 DEF Yield, Follows, Returned
  <1>3. /\ base \in Nat /\ got \in Nat /\ cursor \in Nat /\ trailers \in Nat /\ next \in Nat
        /\ trailers <= cursor /\ cursor <= next /\ next <= got
    <2>1. base \in Nat /\ got \in Nat /\ cursor \in Nat /\ trailers \in Nat /\ trailers <= cursor
      BY <1>1, Facts
    <2> QED  BY <2>1
  <1> DEFINE R == [head : Nat, body : Seq(1..Len(stream)), next : 0..got]
             r == [head |-> Start(requests), body |-> content, next |-> next]
  <1>4. Start(requests) = base
    BY <1>1 DEF Follows
  <1>5. r \in R /\ r.next = next
    BY <1>3, <1>4
  <1>6. requests \in Seq(R)
    BY <1>1 DEF TypeOK
  <1>7. requests' = Append(requests, r)
    BY <1>2 DEF Returned
  <1> HIDE DEF R, r
  <1>8. requests' \in Seq(R) /\ requests' # <<>> /\ Last(requests') = r
    <2>1. /\ Append(requests, r) \in Seq(R) /\ Append(requests, r) # <<>>
          /\ Len(Append(requests, r)) = Len(requests) + 1
          /\ Append(requests, r)[Len(requests) + 1] = r
      BY <1>5, <1>6, AppendProperties
    <2> QED  BY <1>7, <2>1 DEF Last
  <1>9. TypeOK'
    <2>1. stream' \in Streams /\ error' \in Errors /\ body' \in Seq(1..Len(stream'))
      BY <1>1, <1>2 DEF TypeOK
    <2>2. base' \in 0..got' /\ got' \in 0..Len(stream') /\ cursor' \in 0..got'
      BY <1>1, <1>2, <1>3 DEF TypeOK
    <2>3. trailers' \in 0..cursor'
      BY <1>2, <1>3
    <2>4. end' \in 0..cursor' + MaxBody
      BY <1>1, <1>2, <1>3, LimitsAssumption DEF TypeOK
    <2>5. requests' \in Seq([head : Nat, body : Seq(1..Len(stream')), next : 0..got'])
      BY <1>2, <1>8 DEF R
    <2> QED  BY <1>2, <2>1, <2>2, <2>3, <2>4, <2>5 DEF TypeOK
  <1>10. base' = Start(requests')
    BY <1>2, <1>5, <1>8 DEF Start
  <1>11. AtHead'
    BY <1>2 DEF AtHead
  <1>12. Follows'
    BY <1>2, <1>10, <1>11 DEF Follows
  <1> QED  BY <1>9, <1>12 DEF IInv

\* The promise follows while the reader reads: what it has returned, the
\* reference has returned by then, and nothing else when it waits.
LEMMA Promised ==
  ASSUME IInv
  PROVE  ReadsWhatWasSent
  <1>1. TypeOK /\ Follows
    BY DEF IInv
  <1>2. CASE phase = "over"
    BY <1>1, <1>2 DEF Follows
  <1>3. CASE phase # "over"
    <2> DEFINE ref == After(stream, got)
    <2>1. /\ stream \in Seq(Units) /\ base \in 0..Len(stream) /\ cursor \in 0..Len(stream)
          /\ got \in base..Len(stream) /\ got \in cursor..Len(stream) /\ got \in 0..Len(stream)
          /\ requests \in Seq(Requests)
      BY <1>1, Facts
    <2> DEFINE Within(done) == done = requests \/ \E x : done = Append(requests, x)
    <2> HIDE DEF Within
    <2>2. PICK n \in 0..Len(stream) : got \in n..Len(stream) /\ Within(After(stream, n).done)
      <3>1. ASSUME NEW n \in {base, cursor}, NEW done, NEW mode, NEW text, NEW count, NEW content,
                   Stands(stream, n, done, mode, text, count, content), Within(done)
            PROVE  \E m \in 0..Len(stream) : got \in m..Len(stream) /\ Within(After(stream, m).done)
        <4>1. After(stream, n).done = done
          BY <3>1, Changes DEF Stands
        <4>2. n \in 0..Len(stream) /\ got \in n..Len(stream)
          BY <2>1
        <4> QED  BY <3>1, <4>1, <4>2
      <3> Within(requests)
        BY DEF Within
      <3>2. CASE phase = "headers"
        BY <1>1, <3>1, <3>2 DEF Follows, AtHead
      <3>3. CASE phase = "body"
        <4>1. Within(Returned(requests, <<>>, cursor))
          BY DEF Within, Returned
        <4>2. cursor < end \/ cursor = end
          <5>1. cursor \in Nat /\ end \in Nat /\ cursor <= end
            BY <1>1, <3>3, Facts DEF Follows, AtBody
          <5> QED  BY <5>1
        <4> QED  BY <1>1, <3>1, <3>3, <4>1, <4>2 DEF Follows, AtBody
      <3>4. CASE phase = "size"
        BY <1>1, <3>1, <3>4 DEF Follows, AtSize
      <3>5. CASE phase = "data"
        BY <1>1, <3>1, <3>5 DEF Follows, AtData
      <3>6. CASE phase = "trailer"
        BY <1>1, <3>1, <3>6 DEF Follows, AtTrailer
      <3> QED  BY <1>1, <1>3, <3>2, <3>3, <3>4, <3>5, <3>6 DEF TypeOK
    <2> DEFINE done == After(stream, n).done
    <2>3. Agree(done, ref.done)
      BY <2>1, <2>2, ReferenceGrows
    <2>4. ref.done \in Seq(Requests) /\ done \in Seq(Requests)
      BY <2>1, <2>2, ReferenceTyped DEF Readings
    <2>5. ref = Reference(stream)[got]
      BY DEF After
    <2>6. Room > 0 => ref.done = requests
      BY Waiting
    <2> HIDE DEF ref, done
    <2>7. Agree(requests, ref.done)
      <3>1. CASE done = requests
        BY <2>3, <3>1
      <3>2. CASE \E x : done = Append(requests, x)
        <4>1. PICK x : done = Append(requests, x)
          BY <3>2
        <4>2. /\ Len(requests) \in Nat /\ Len(done) = Len(requests) + 1
              /\ \A i \in 1..Len(requests) : done[i] = requests[i]
          BY <2>1, <4>1
        <4>3. Len(ref.done) \in Nat
          BY <2>4
        <4> QED  BY <2>3, <4>2, <4>3 DEF Agree
      <3> QED  BY <2>2, <3>1, <3>2 DEF Within, done
    <2>8. IsPrefix(requests, ref.done)
      BY <2>1, <2>4, <2>7, AgreePrefix
    <2> QED  BY <1>3, <2>5, <2>6, <2>8 DEF ReadsWhatWasSent
  <1> QED  BY <1>2, <1>3

-----------------------------------------------------------------------------
(* The steps. *)

LEMMA Starts ==
  ASSUME Init
  PROVE  IInv
  <1>1. stream \in Seq(Units) /\ Len(stream) \in Nat
    BY StreamsAssumption DEF Init
  <1>2. TypeOK
    <2>1. 0 \in 0..0 /\ 0 \in 0..Len(stream) /\ 0 \in 0..0 + MaxBody
      BY <1>1, LimitsAssumption
    <2> QED  BY <2>1 DEF Init, TypeOK, Errors
  <1>3. base = Start(requests)
    BY DEF Init, Start
  <1>4. AtHead
    <2>1. After(stream, 0) = Reading(<<>>, FALSE, "headers", <<>>, 0, <<>>)
      BY <1>1, ReferenceSteps
    <2>2. Stands(stream, 0, <<>>, "headers", <<>>, 0, <<>>)
      BY <2>1 DEF Stands
    <2> QED  BY <2>2 DEF Init, AtHead
  <1> QED  BY <1>2, <1>3, <1>4 DEF Init, IInv, Follows

LEMMA ReadKeeps ==
  ASSUME IInv, Read
  PROVE  IInv'
  <1>1. TypeOK /\ Follows
    BY DEF IInv
  <1>2. PICK n \in 1..Room : got + n <= Len(stream) /\ got' = got + n
    BY DEF Read
  <1>3. /\ stream' = stream /\ base' = base /\ phase' = phase /\ cursor' = cursor /\ end' = end
        /\ trailers' = trailers /\ body' = body /\ requests' = requests /\ error' = error
    BY DEF Read
  <1>4. /\ base \in Nat /\ got \in Nat /\ cursor \in Nat /\ Len(stream) \in Nat
        /\ base <= got /\ cursor <= got
    BY <1>1, Facts
  <1>5. Room \in Nat => got' \in got..Len(stream) /\ Room > 0
    BY <1>2, <1>4
  <1>6. Room \in Nat
    <2>1. end - got \in Nat \/ ~(got < end)
      BY <1>1, Facts
    <2>2. end + 1 - got \in Nat \/ ~(got <= end)
      BY <1>1, Facts
    <2>3. Chunk \in Nat
      BY LimitsAssumption
    <2>4. got < end => Min({end - got, Chunk}) \in Nat
      <3> SUFFICES ASSUME got < end PROVE Min({end - got, Chunk}) \in Nat
        OBVIOUS
      <3> DEFINE T == {end - got, Chunk}
      <3>1. T \in SUBSET Nat /\ T # {}
        BY <2>1, <2>3
      <3> HIDE DEF T
      <3>2. Min(T) \in Nat
        BY <3>1, MinIs
      <3> QED  BY <3>2 DEF T
    <2>5. got <= end => Min({end + 1 - got, Chunk}) \in Nat
      <3> SUFFICES ASSUME got <= end PROVE Min({end + 1 - got, Chunk}) \in Nat
        OBVIOUS
      <3> DEFINE T == {end + 1 - got, Chunk}
      <3>1. T \in SUBSET Nat /\ T # {}
        BY <2>2, <2>3
      <3> HIDE DEF T
      <3>2. Min(T) \in Nat
        BY <3>1, MinIs
      <3> QED  BY <3>2 DEF T
    <2> QED  BY <2>3, <2>4, <2>5 DEF Room
  <1>7. TypeOK'
    <2>1. 0..got \subseteq 0..got'
      BY <1>4, <1>5, <1>6
    <2>2. requests \in Seq([head : Nat, body : Seq(1..Len(stream)), next : 0..got'])
      <3> DEFINE R(ends) == [head : Nat, body : Seq(1..Len(stream)), next : ends]
      <3>1. R(0..got) \subseteq R(0..got')
        BY <2>1
      <3>2. requests \in Seq(R(0..got))
        BY <1>1 DEF TypeOK
      <3> HIDE DEF R
      <3>3. requests \in Seq(R(0..got'))
        BY <3>1, <3>2, SeqWider
      <3> QED  BY <3>3 DEF R
    <2>3. got' \in 0..Len(stream)
      BY <1>4, <1>5, <1>6
    <2>4. base \in 0..got' /\ cursor \in 0..got'
      BY <1>1, <2>1 DEF TypeOK
    <2> QED  BY <1>1, <1>3, <2>2, <2>3, <2>4 DEF TypeOK
  <1>8. phase # "over"
    <2>1. phase = "over" => Room = 0
      BY DEF Room
    <2> QED  BY <1>5, <1>6, <2>1
  <1>9. Follows'
    BY <1>1, <1>3, <1>8 DEF Follows, AtHead, AtBody, AtSize, AtData, AtTrailer
  <1> QED  BY <1>7, <1>9 DEF IInv

LEMMA EofKeeps ==
  ASSUME IInv, Eof
  PROVE  IInv'
  <1> DEFINE why == IF phase = "headers" /\ got = base THEN "closed" ELSE "bad_request"
             ref == After(stream, got)
  <1>1. Room > 0 /\ Fail(why)
    BY DEF Eof
  <1>2. /\ ref.error = "none" /\ ref.done = requests
        /\ (ref.mode = "headers" /\ ref.text = <<>>) <=> (phase = "headers" /\ got = base)
    BY <1>1, Waiting
  <1>3. why \in Errors
    BY DEF Errors
  <1>4. why = IF ref.mode = "headers" /\ ref.text = <<>> THEN "closed" ELSE "bad_request"
    BY <1>2
  <1>5. ref = After(stream, got)
    OBVIOUS
  <1> HIDE DEF why, ref
  <1> QED  BY ONLY IInv, <1>1, <1>2, <1>3, <1>4, <1>5, Stops

LEMMA ReadFailsKeeps ==
  ASSUME IInv, ReadFails
  PROVE  IInv'
  <1> DEFINE ref == After(stream, got)
  <1>1. Room > 0 /\ Fail("io") /\ "io" \in Errors
    BY DEF ReadFails, Errors
  <1>2. ref.done = requests
    BY <1>1, Waiting
  <1>3. ref = After(stream, got)
    OBVIOUS
  <1> HIDE DEF ref
  <1> QED  BY <1>1, <1>2, <1>3, Stops

LEMMA HeadersTooLongKeeps ==
  ASSUME IInv, HeadersTooLong
  PROVE  IInv'
  <1>1. TypeOK /\ Follows /\ phase = "headers" /\ Fail("header_too_large")
    BY DEF IInv, HeadersTooLong
  <1>2. /\ stream \in Seq(Units) /\ Len(stream) \in Nat /\ base \in Nat /\ got \in Nat
        /\ base <= got /\ got <= Len(stream) /\ MaxHeader \in Nat
    BY <1>1, Facts, LimitsAssumption
  <1>3. PICK long \in BOOLEAN :
           After(stream, base) = Reading(requests, long, "headers", <<>>, 0, <<>>)
    BY <1>1 DEF Follows, AtHead, Stands
  <1>4. PICK e \in base..got : e - base >= MaxHeader /\ \A i \in base + 1..e : ~BlankAt(stream, base, i)
    <2>1. CASE HeadEnds = {}
      <3>1. got - base >= MaxHeader
        BY <2>1 DEF HeadersTooLong
      <3>2. \A i \in base + 1..got : ~BlankAt(stream, base, i)
        BY <1>1, <2>1, HeadEndsIs
      <3>3. got \in base..got
        BY <1>2
      <3> QED  BY <3>1, <3>2, <3>3
    <2>2. CASE HeadEnds # {}
      <3> DEFINE stop == Min(HeadEnds)
                 e == stop - 1
      <3>1. stop - base > MaxHeader
        BY <2>2 DEF HeadersTooLong
      <3>2. stop \in base + 2..got /\ \A i \in base + 1..stop - 1 : ~BlankAt(stream, base, i)
        BY <1>1, <2>2, HeadEndsIs
      <3> HIDE DEF stop
      <3>3. e \in base..got /\ e - base >= MaxHeader
        BY <1>2, <3>1, <3>2
      <3>4. \A i \in base + 1..e : ~BlankAt(stream, base, i)
        BY <3>2
      <3> QED  BY <3>3, <3>4
    <2> QED  BY <2>1, <2>2
  <1>5. base \in 0..Len(stream) /\ e \in base..Len(stream) /\ e \in 0..got
    BY <1>2
  <1>6. After(stream, e).error = "header_too_large" /\ After(stream, e).done = requests
    BY <1>2, <1>3, <1>4, <1>5, HeadOverflows
  <1> QED  BY <1>1, <1>5, <1>6, StopsBefore DEF Errors

\* A reader that goes on where the reference does.
LEMMA Goes ==
  ASSUME IInv, NEW where \in {"body", "size", "data", "trailer"}, NEW at \in cursor..got,
         Goto(where, at),
         end' \in 0..at + MaxBody, trailers' \in 0..at, body' \in Seq(1..Len(stream)),
         where = "body" => AtBody', where = "size" => AtSize',
         where = "data" => AtData', where = "trailer" => AtTrailer'
  PROVE  IInv'
  <1>1. TypeOK /\ Follows
    BY DEF IInv
  <1>2. /\ phase' = where /\ cursor' = at
        /\ stream' = stream /\ base' = base /\ got' = got /\ requests' = requests
        /\ error' = error
    BY DEF Goto
  <1>3. at \in 0..got
    <2>1. cursor \in Nat /\ got \in Nat
      BY <1>1, Facts
    <2> QED  BY <2>1
  <1>4. TypeOK'
    BY <1>1, <1>2, <1>3 DEF TypeOK
  <1>5. Follows'
    BY <1>1, <1>2 DEF Follows
  <1> QED  BY <1>4, <1>5 DEF IInv

\* A run of positions of the stream.
LEMMA RunIs ==
  ASSUME NEW m \in Nat, NEW c \in Nat, NEW e \in Nat, c <= e, e <= m
  PROVE  [i \in 1..e - c |-> c + i] \in Seq(1..m)
  <1>1. e - c \in Nat
    OBVIOUS
  <1>2. \A i \in 1..e - c : c + i \in 1..m
    OBVIOUS
  <1> QED  BY <1>1, <1>2

LEMMA ParseHeadKeeps ==
  ASSUME IInv, ParseHead
  PROVE  IInv'
  <1> DEFINE stop == Min(HeadEnds)
             text == Piece(stream, base, stop - 2)
             head == HeadOf(text)
             ref == After(stream, stop)
  <1>1. TypeOK /\ Follows /\ phase = "headers" /\ HeadEnds # {}
    BY DEF IInv, ParseHead
  <1>2. /\ stop \in base + 2..got /\ BlankAt(stream, base, stop)
        /\ \A i \in base + 1..stop - 1 : ~BlankAt(stream, base, i)
    BY <1>1, HeadEndsIs
  <1>3. /\ stop - base <= MaxHeader
        /\ IF head.error # "none" THEN Fail(head.error)
           ELSE IF head.chunked
           THEN Goto("size", stop) /\ UNCHANGED <<end, trailers, body>>
           ELSE /\ Goto("body", stop)
                /\ end' = stop + head.length
                /\ UNCHANGED <<trailers, body>>
    BY DEF ParseHead, Piece
  <1>4. /\ stream \in Seq(Units) /\ Len(stream) \in Nat /\ base \in Nat /\ got \in Nat
        /\ cursor \in Nat /\ end \in Nat /\ trailers \in Nat
        /\ base <= got /\ got <= Len(stream) /\ trailers <= cursor
        /\ MaxHeader \in Nat /\ MaxBody \in Nat
    BY <1>1, Facts, LimitsAssumption
  <1>5. PICK long \in BOOLEAN :
           After(stream, base) = Reading(requests, long, "headers", <<>>, 0, <<>>)
    BY <1>1 DEF Follows, AtHead, Stands
  <1>6. cursor = base /\ body = <<>>
    BY <1>1 DEF Follows, AtHead
  <1>7. head = HeadOf(text) /\ text = Piece(stream, base, stop - 2) /\ ref = After(stream, stop)
    OBVIOUS
  <1> HIDE DEF stop, text, head, ref
  <1>8. /\ stop \in Nat /\ base \in 0..Len(stream) /\ stop \in base + 2..Len(stream)
        /\ stop \in cursor..got /\ stop \in 0..got /\ base <= stop - 2 /\ stop - 2 \in Nat
        /\ stop - 2 <= Len(stream)
    BY <1>2, <1>4, <1>6
  <1>9. head \in Said /\ (head.error = "none" => head.length <= MaxBody)
    <2> DEFINE j == stop - 2
    <2>1. stream \in Seq(Units) /\ base \in Nat /\ j \in Nat /\ base <= j /\ j <= Len(stream)
          /\ text = Piece(stream, base, j)
      BY <1>4, <1>7, <1>8
    <2> HIDE DEF j
    <2>2. text \in Seq(Units)
      BY ONLY <2>1, PieceIs
    <2> QED  BY <1>7, <2>2, HeadIs
  <1>10. head.error \in Errors /\ head.length \in Nat
    BY <1>9 DEF Said
  <1>11. /\ head.error # "none" => ref.error = head.error /\ ref.done = requests
         /\ head.error = "none" /\ head.chunked =>
               ref = Reading(requests, long, "size", <<>>, 0, <<>>)
         /\ head.error = "none" /\ ~head.chunked /\ head.length = 0 =>
               ref = Reading(Returned(requests, <<>>, stop), long, "headers", <<>>, 0, <<>>)
         /\ head.error = "none" /\ ~head.chunked /\ head.length # 0 =>
               ref = Reading(requests, long, "body", <<>>, head.length, <<>>)
    <2>1. /\ stream \in Seq(Units) /\ base \in 0..Len(stream) /\ stop \in base + 2..Len(stream)
          /\ After(stream, base) = Reading(requests, long, "headers", <<>>, 0, <<>>)
          /\ stop - base <= MaxHeader
          /\ BlankAt(stream, base, stop) /\ \A i \in base + 1..stop - 1 : ~BlankAt(stream, base, i)
          /\ stop - 2 \in Nat /\ stop - (stop - 2) = 2 /\ text = Piece(stream, base, stop - 2)
          /\ head = HeadOf(text) /\ ref = After(stream, stop)
      BY <1>2, <1>3, <1>4, <1>5, <1>7, <1>8
    <2> DEFINE k == stop - 2
    <2>2. k \in Nat /\ stop - k = 2 /\ text = Piece(stream, base, k)
      BY <2>1
    <2> HIDE DEF k
    <2>3. HeadMakes(head, requests, long, stop, ref)
      BY ONLY <2>1, <2>2, HeadEnd
    <2> QED  BY ONLY <2>3 DEF HeadMakes
  <1>12. CASE head.error # "none"
    BY <1>3, <1>7, <1>8, <1>10, <1>11, <1>12, StopsBefore
  <1>13. CASE head.error = "none" /\ head.chunked
    <2>1. Goto("size", stop) /\ end' = end /\ trailers' = trailers /\ body' = body
      BY <1>3, <1>13
    <2>2. AtSize'
      BY <1>5, <1>6, <1>7, <1>11, <1>13, <2>1 DEF Goto, AtSize, Stands
    <2>3. /\ end' \in 0..stop + MaxBody /\ trailers' \in 0..stop
          /\ body' \in Seq(1..Len(stream))
      BY <1>1, <1>4, <1>6, <1>8, <2>1 DEF TypeOK
    <2> QED  BY <1>8, <2>1, <2>2, <2>3, Goes
  <1>14. CASE head.error = "none" /\ ~head.chunked
    <2>1. /\ Goto("body", stop) /\ end' = stop + head.length
          /\ trailers' = trailers /\ body' = body
      BY <1>3, <1>14
    <2>2. stream' = stream /\ requests' = requests /\ cursor' = stop
      BY <2>1 DEF Goto
    <2>3. /\ end' \in 0..stop + MaxBody /\ trailers' \in 0..stop
          /\ body' \in Seq(1..Len(stream))
      <3>1. end' \in 0..stop + MaxBody
        BY <1>4, <1>8, <1>9, <1>10, <1>14, <2>1
      <3>2. trailers' \in 0..stop
        BY <1>1, <1>4, <1>6, <1>8, <2>1 DEF TypeOK
      <3>3. body' \in Seq(1..Len(stream))
        BY <1>1, <2>1 DEF TypeOK
      <3> QED  BY <3>1, <3>2, <3>3
    <2>4. stop <= end' /\ end' - stop = head.length
      BY <1>8, <1>10, <2>1
    <2>5. CASE head.length = 0
      <3>1. Stands(stream, stop, Returned(requests, <<>>, stop), "headers", <<>>, 0, <<>>)
        BY <1>5, <1>7, <1>11, <1>14, <2>5 DEF Stands
      <3>2. end' = stop
        BY <1>8, <2>1, <2>5
      <3>3. ~(stop < end')
        BY <1>8, <3>2
      <3>4. AtBody'
        BY <1>6, <2>1, <2>2, <2>4, <3>1, <3>2, <3>3 DEF AtBody
      <3> QED  BY <1>8, <2>1, <2>3, <3>4, Goes
    <2>6. CASE head.length # 0
      <3>1. Stands(stream, stop, requests, "body", <<>>, end' - stop, <<>>)
        BY <1>5, <1>7, <1>11, <1>14, <2>4, <2>6 DEF Stands
      <3>2. end' # stop
        BY <1>8, <1>10, <2>1, <2>6
      <3>3. AtBody'
        BY <1>6, <2>1, <2>2, <2>4, <3>1, <3>2 DEF AtBody
      <3> QED  BY <1>8, <2>1, <2>3, <3>3, Goes
    <2> QED  BY <2>5, <2>6
  <1> QED  BY <1>12, <1>13, <1>14

LEMMA BodyDoneKeeps ==
  ASSUME IInv, BodyDone
  PROVE  IInv'
  <1> DEFINE left == end - cursor
             content == [i \in 1..left |-> cursor + i]
  <1>1. TypeOK /\ Follows /\ phase = "body" /\ got >= end /\ Yield(content, end)
    BY DEF IInv, BodyDone
  <1>2. cursor <= end /\ body = <<>>
    BY <1>1 DEF Follows, AtBody
  <1>3. /\ stream \in Seq(Units) /\ Len(stream) \in Nat /\ cursor \in Nat /\ got \in Nat
        /\ end \in Nat /\ got <= Len(stream) /\ cursor <= got
    BY <1>1, Facts
  <1>4. content \in Seq(1..Len(stream))
    <2>1. end <= Len(stream)
      BY <1>1, <1>3
    <2> QED  BY <1>2, <1>3, <2>1, RunIs
  <1>5. end \in cursor..got
    BY <1>1, <1>2, <1>3
  <1>6. Stands(stream, end, Returned(requests, content, end), "headers", <<>>, 0, <<>>)
    <2>1. CASE cursor = end
      <3>1. content = <<>>
        BY <1>3, <2>1
      <3>2. Stands(stream, cursor, Returned(requests, <<>>, cursor), "headers", <<>>, 0, <<>>)
        BY <1>1, <2>1 DEF Follows, AtBody
      <3> HIDE DEF content
      <3> QED  BY <2>1, <3>1, <3>2
    <2>2. CASE cursor < end
      <3>1. PICK long \in BOOLEAN :
               After(stream, cursor) = Reading(requests, long, "body", <<>>, left, <<>>)
        BY <1>1, <2>2 DEF Follows, AtBody, Stands
      <3>2. /\ cursor \in 0..Len(stream) /\ end \in cursor + 1..Len(stream)
            /\ left \in Nat /\ left = end - cursor
            /\ content = [i \in 1..left |-> cursor + i]
        BY <1>1, <1>3, <2>2
      <3> HIDE DEF left, content
      <3>3. After(stream, end) =
               Reading(Returned(requests, [i \in 1..left |-> cursor + i], end),
                       long, "headers", <<>>, 0, <<>>)
        BY ONLY <1>3, <3>1, <3>2, BodyEnd
      <3> QED  BY <3>2, <3>3 DEF Stands
    <2> QED  BY <1>2, <1>3, <2>1, <2>2
  <1> HIDE DEF left, content
  <1> QED  BY <1>1, <1>4, <1>5, <1>6, Yields

LEMMA LineTooLongKeeps ==
  ASSUME IInv, LineTooLong
  PROVE  IInv'
  <1>1. /\ TypeOK /\ Follows /\ phase \in {"size", "trailer"} /\ Fail("header_too_large")
        /\ LineEnds = {} /\ got - cursor > MaxHeader
    BY DEF IInv, LineTooLong
  <1>2. /\ stream \in Seq(Units) /\ Len(stream) \in Nat /\ cursor \in Nat /\ got \in Nat
        /\ trailers \in Nat /\ trailers <= cursor /\ cursor <= got /\ got <= Len(stream)
        /\ MaxHeader \in Nat
    BY <1>1, Facts, LimitsAssumption
  <1>3. cursor \in 0..Len(stream) /\ got \in cursor..Len(stream) /\ got \in 0..got
    BY <1>2
  <1>4. \A i \in cursor + 1..got : stream[i] # "n"
    BY <1>1, LineEndsIs
  <1> DEFINE ref == After(stream, got)
  <1>5. ref = After(stream, got)
    OBVIOUS
  <1> HIDE DEF ref
  <1>6. CASE phase = "size"
    <2>1. PICK long \in BOOLEAN :
             After(stream, cursor) = Reading(requests, long, "size", <<>>, 0, body)
      BY <1>1, <1>6 DEF Follows, AtSize, Stands
    <2> DEFINE now == long \/ got - cursor > MaxHeader
               text == Piece(stream, cursor, got)
    <2>2. ref = Reading(requests, now, "size", text, 0, body)
      BY ONLY <1>2, <1>3, <1>4, <1>5, <2>1, AlongSize
    <2>3. now
      BY <1>1
    <2> HIDE DEF now, text
    <2>4. ref.done = requests /\ ref.long
      <3>1. ref.done = requests /\ ref.long = now
        BY ONLY <2>2, Changes
      <3> QED  BY <2>3, <3>1
    <2> QED  BY <1>1, <1>5, <2>4, Stops DEF Errors
  <1>7. CASE phase = "trailer"
    <2> DEFINE count == cursor - trailers
    <2>1. PICK long \in BOOLEAN :
             After(stream, cursor) = Reading(requests, long, "trailer", <<>>, count, body)
      BY <1>1, <1>7 DEF Follows, AtTrailer, Stands
    <2>2. count \in Nat
      BY <1>2
    <2> HIDE DEF count
    <2>3. ref.error = "header_too_large" /\ ref.done = requests
      BY ONLY <1>1, <1>2, <1>3, <1>4, <1>5, <2>1, <2>2, TrailerOverflows
    <2> QED  BY <1>1, <1>5, <2>3, Stops DEF Errors
  <1> QED  BY <1>1, <1>6, <1>7

LEMMA ParseSizeKeeps ==
  ASSUME IInv, ParseSize
  PROVE  IInv'
  <1> DEFINE stop == Min(LineEnds)
             line == Piece(stream, cursor, stop - 1)
             size == Sizes[line[1]]
             ref  == After(stream, stop)
  <1>1. TypeOK /\ Follows /\ phase = "size" /\ LineEnds # {}
    BY DEF IInv, ParseSize
  <1>2. stop \in cursor + 1..got /\ LineAt(stream, cursor, stop)
    BY <1>1, LineEndsIs
  <1>3. IF ~IsSize(line) THEN Fail("bad_request")
        ELSE IF size = 0
        THEN Goto("trailer", stop) /\ trailers' = stop /\ UNCHANGED <<end, body>>
        ELSE IF Len(body) + size > MaxBody THEN Fail("body_too_large")
        ELSE Goto("data", stop) /\ end' = stop + size /\ UNCHANGED <<trailers, body>>
    BY DEF ParseSize, Piece, Line, Exceeds
  <1>4. /\ stream \in Seq(Units) /\ Len(stream) \in Nat /\ got \in Nat /\ cursor \in Nat
        /\ end \in Nat /\ trailers \in Nat /\ trailers <= cursor /\ got <= Len(stream)
        /\ MaxBody \in Nat /\ Len(body) \in Nat
        /\ body \in Seq(1..Len(stream)) /\ end \in 0..cursor + MaxBody
    <2>1. body \in Seq(1..Len(stream)) /\ end \in 0..cursor + MaxBody
      BY <1>1 DEF TypeOK
    <2> QED  BY <1>1, <2>1, Facts, LimitsAssumption
  <1>5. PICK long \in BOOLEAN :
           After(stream, cursor) = Reading(requests, long, "size", <<>>, 0, body)
    BY <1>1 DEF Follows, AtSize, Stands
  <1>6. line = Piece(stream, cursor, stop - 1) /\ ref = After(stream, stop)
        /\ size = Sizes[line[1]]
    OBVIOUS
  <1> HIDE DEF stop, line, size, ref
  <1>7. /\ stop \in Nat /\ cursor \in 0..Len(stream) /\ stop \in cursor + 1..Len(stream)
        /\ stop \in cursor..got /\ stop \in 0..got /\ cursor <= stop - 1 /\ stop - 1 \in Nat
        /\ stop - 1 <= Len(stream)
    BY <1>2, <1>4
  <1>8. IsSize(line) => size \in Nat
    <2> DEFINE j == stop - 1
    <2>1. stream \in Seq(Units) /\ cursor \in Nat /\ j \in Nat /\ cursor <= j /\ j <= Len(stream)
          /\ line = Piece(stream, cursor, j)
      BY <1>4, <1>6, <1>7
    <2> HIDE DEF j
    <2>2. line \in Seq(Units)
      BY ONLY <2>1, PieceIs
    <2> QED  BY <1>6, <2>2, SizeIs
  <1>9. PICK now \in BOOLEAN :
           /\ ~IsSize(line) => ref.error = "bad_request" /\ ref.done = requests
           /\ IsSize(line) /\ size = 0 => ref = Reading(requests, now, "trailer", <<>>, 0, body)
           /\ IsSize(line) /\ size # 0 /\ Len(body) + size > MaxBody =>
                 ref.error = "body_too_large" /\ ref.done = requests
           /\ IsSize(line) /\ size # 0 /\ ~(Len(body) + size > MaxBody) =>
                 ref = Reading(requests, now, "data", <<>>, size, body)
    <2>1. /\ stream \in Seq(Units) /\ cursor \in 0..Len(stream)
          /\ stop \in cursor + 1..Len(stream) /\ long \in BOOLEAN
          /\ After(stream, cursor) = Reading(requests, long, "size", <<>>, 0, body)
          /\ LineAt(stream, cursor, stop)
          /\ line = Piece(stream, cursor, stop - 1) /\ ref = After(stream, stop)
      BY <1>2, <1>4, <1>5, <1>6, <1>7
    <2> USE <1>6
    <2> QED  BY ONLY <2>1, size = Sizes[line[1]], SizeEnd
  <1>10. CASE ~IsSize(line)
    BY <1>3, <1>6, <1>7, <1>9, <1>10, StopsBefore DEF Errors
  <1>11. CASE IsSize(line) /\ size = 0
    <2>1. Goto("trailer", stop) /\ trailers' = stop /\ end' = end /\ body' = body
      BY <1>3, <1>11
    <2>2. cursor' - trailers' = 0
      BY <1>7, <2>1 DEF Goto
    <2>3. AtTrailer'
      BY <1>6, <1>9, <1>11, <2>1, <2>2 DEF Goto, AtTrailer, Stands
    <2>4. end' \in 0..stop + MaxBody /\ trailers' \in 0..stop /\ body' \in Seq(1..Len(stream))
      BY <1>4, <1>7, <2>1
    <2> QED  BY <1>7, <2>1, <2>3, <2>4, Goes
  <1>12. CASE IsSize(line) /\ size # 0 /\ Len(body) + size > MaxBody
    BY <1>3, <1>6, <1>7, <1>9, <1>12, StopsBefore DEF Errors
  <1>13. CASE IsSize(line) /\ size # 0 /\ ~(Len(body) + size > MaxBody)
    <2>1. Goto("data", stop) /\ end' = stop + size /\ trailers' = trailers /\ body' = body
      BY <1>3, <1>13
    <2>2. cursor' = stop /\ cursor' <= end' /\ end' - cursor' = size
      BY <1>7, <1>8, <1>13, <2>1 DEF Goto
    <2>3. AtData'
      BY <1>6, <1>9, <1>13, <2>1, <2>2 DEF Goto, AtData, Stands
    <2>4. size <= MaxBody
      BY <1>4, <1>8, <1>13
    <2>5. end' \in 0..stop + MaxBody /\ trailers' \in 0..stop /\ body' \in Seq(1..Len(stream))
      BY <1>4, <1>7, <1>8, <1>13, <2>1, <2>4
    <2> QED  BY <1>7, <2>1, <2>3, <2>5, Goes
  <1> QED  BY <1>10, <1>11, <1>12, <1>13

LEMMA ChunkDoneKeeps ==
  ASSUME IInv, ChunkDone
  PROVE  IInv'
  <1> DEFINE left == end - cursor
             run  == [i \in 1..left |-> cursor + i]
             next == end + 1
             ref  == After(stream, next)
  <1>1. /\ TypeOK /\ Follows /\ phase = "data" /\ got > end
        /\ IF stream[next] # "n" THEN Fail("bad_request")
           ELSE body' = body \o run /\ Goto("size", next) /\ UNCHANGED <<end, trailers>>
    BY DEF IInv, ChunkDone
  <1>2. /\ stream \in Seq(Units) /\ Len(stream) \in Nat /\ got \in Nat /\ cursor \in Nat
        /\ end \in Nat /\ trailers \in Nat /\ trailers <= cursor /\ got <= Len(stream)
        /\ MaxBody \in Nat /\ body \in Seq(Nat)
        /\ body \in Seq(1..Len(stream)) /\ end \in 0..cursor + MaxBody
    <2>1. body \in Seq(1..Len(stream)) /\ end \in 0..cursor + MaxBody
      BY <1>1 DEF TypeOK
    <2> QED  BY <1>1, <2>1, Facts, LimitsAssumption
  <1>3. cursor <= end
    BY <1>1 DEF Follows, AtData
  <1>4. PICK long \in BOOLEAN :
           After(stream, cursor) = Reading(requests, long, "data", <<>>, left, body)
    BY <1>1 DEF Follows, AtData, Stands
  <1>5. run \in Seq(1..Len(stream))
    <2>1. end <= Len(stream)
      BY <1>1, <1>2
    <2> QED  BY <1>2, <1>3, <2>1, RunIs
  <1>6. body \o run \in Seq(1..Len(stream))
    <2> DEFINE T == 1..Len(stream)
    <2>1. body \in Seq(T) /\ run \in Seq(T)
      BY <1>2, <1>5
    <2> HIDE DEF T, run
    <2>2. body \o run \in Seq(T)
      BY <2>1, ConcatProperties
    <2> QED  BY <2>2 DEF T
  <1>7. /\ cursor \in 0..Len(stream) /\ end \in cursor..Len(stream)
        /\ next \in cursor..got /\ next \in 0..got /\ next \in 1..Len(stream) /\ next - end = 1
        /\ left \in Nat /\ left = end - cursor
    BY <1>1, <1>2, <1>3
  <1>8. /\ ref = After(stream, next) /\ next = end + 1 /\ run = [i \in 1..left |-> cursor + i]
    OBVIOUS
  <1> HIDE DEF left, run, next, ref
  <1>9. /\ stream[next] = "n" => ref = Reading(requests, long, "size", <<>>, 0, body \o run)
        /\ stream[next] # "n" => ref.error = "bad_request" /\ ref.done = requests
    <2>1. ref = After(stream, next) /\ run = [i \in 1..left |-> cursor + i]
      BY <1>8
    <2>2. ChunkMakes(stream[next], requests, long, body \o run, ref)
      BY ONLY <1>2, <1>4, <1>7, <2>1, ChunkEnd
    <2> QED  BY ONLY <2>2 DEF ChunkMakes
  <1>10. CASE stream[next] # "n"
    BY <1>1, <1>7, <1>8, <1>9, <1>10, StopsBefore DEF Errors
  <1>11. CASE stream[next] = "n"
    <2>1. Goto("size", next) /\ end' = end /\ trailers' = trailers /\ body' = body \o run
      BY <1>1, <1>11
    <2>2. AtSize'
      BY <1>8, <1>9, <1>11, <2>1 DEF Goto, AtSize, Stands
    <2>3. end' \in 0..next + MaxBody /\ trailers' \in 0..next
      BY <1>2, <1>3, <1>8, <2>1
    <2> QED  BY <1>6, <1>7, <2>1, <2>2, <2>3, Goes
  <1> QED  BY <1>10, <1>11

LEMMA ParseTrailerKeeps ==
  ASSUME IInv, ParseTrailer
  PROVE  IInv'
  <1> DEFINE stop  == Min(LineEnds)
             line  == Piece(stream, cursor, stop - 1)
             count == cursor - trailers
             all   == stop - trailers
             ref   == After(stream, stop)
  <1>1. TypeOK /\ Follows /\ phase = "trailer" /\ LineEnds # {}
    BY DEF IInv, ParseTrailer
  <1>2. stop \in cursor + 1..got /\ LineAt(stream, cursor, stop)
    BY <1>1, LineEndsIs
  <1>3. IF stop = cursor + 1 THEN Yield(body, stop)
        ELSE IF all > MaxHeader THEN Fail("header_too_large")
        ELSE IF ~HasColon(line) THEN Fail("bad_request")
        ELSE Goto("trailer", stop) /\ UNCHANGED <<end, trailers, body>>
    BY DEF ParseTrailer, Piece, Line
  <1>4. /\ stream \in Seq(Units) /\ Len(stream) \in Nat /\ got \in Nat /\ cursor \in Nat
        /\ end \in Nat /\ trailers \in Nat /\ trailers <= cursor /\ got <= Len(stream)
        /\ MaxBody \in Nat /\ body \in Seq(1..Len(stream)) /\ end \in 0..cursor + MaxBody
    <2>1. body \in Seq(1..Len(stream)) /\ end \in 0..cursor + MaxBody
      BY <1>1 DEF TypeOK
    <2> QED  BY <1>1, <2>1, Facts, LimitsAssumption
  <1>5. PICK long \in BOOLEAN :
           After(stream, cursor) = Reading(requests, long, "trailer", <<>>, count, body)
    BY <1>1 DEF Follows, AtTrailer, Stands
  <1>6. line = Piece(stream, cursor, stop - 1) /\ ref = After(stream, stop)
    OBVIOUS
  <1>7. /\ stop \in Nat /\ cursor \in 0..Len(stream) /\ stop \in cursor + 1..Len(stream)
        /\ stop \in cursor..got /\ stop \in 0..got
        /\ count \in Nat /\ all = count + (stop - cursor)
    BY <1>2, <1>4
  <1> HIDE DEF stop, line, count, all, ref
  <1>8. /\ stop = cursor + 1 =>
              ref = Reading(Returned(requests, body, stop), long, "headers", <<>>, 0, <<>>)
        /\ stop # cursor + 1 /\ all > MaxHeader =>
              ref.error = "header_too_large" /\ ref.done = requests
        /\ stop # cursor + 1 /\ ~(all > MaxHeader) /\ ~HasColon(line) =>
              ref.error = "bad_request" /\ ref.done = requests
        /\ stop # cursor + 1 /\ ~(all > MaxHeader) /\ HasColon(line) =>
              ref = Reading(requests, long, "trailer", <<>>, all, body)
    <2>1. /\ stream \in Seq(Units) /\ cursor \in 0..Len(stream)
          /\ stop \in cursor + 1..Len(stream) /\ count \in Nat
          /\ After(stream, cursor) = Reading(requests, long, "trailer", <<>>, count, body)
          /\ LineAt(stream, cursor, stop) /\ line = Piece(stream, cursor, stop - 1)
          /\ all = count + (stop - cursor) /\ ref = After(stream, stop)
      BY <1>2, <1>4, <1>5, <1>6, <1>7
    <2> QED  BY ONLY <2>1, TrailerEnd
  <1>9. CASE stop = cursor + 1
    <2>1. Stands(stream, stop, Returned(requests, body, stop), "headers", <<>>, 0, <<>>)
      BY <1>6, <1>8, <1>9 DEF Stands
    <2>2. Yield(body, stop)
      BY <1>3, <1>9
    <2> QED  BY <1>4, <1>7, <2>1, <2>2, Yields
  <1>10. CASE stop # cursor + 1 /\ all > MaxHeader
    BY <1>3, <1>6, <1>7, <1>8, <1>10, StopsBefore DEF Errors
  <1>11. CASE stop # cursor + 1 /\ ~(all > MaxHeader) /\ ~HasColon(line)
    BY <1>3, <1>6, <1>7, <1>8, <1>11, StopsBefore DEF Errors
  <1>12. CASE stop # cursor + 1 /\ ~(all > MaxHeader) /\ HasColon(line)
    <2>1. Goto("trailer", stop) /\ end' = end /\ trailers' = trailers /\ body' = body
      BY <1>3, <1>12
    <2>2. cursor' - trailers' = all
      BY <2>1 DEF Goto, all
    <2>3. AtTrailer'
      BY <1>6, <1>8, <1>12, <2>1, <2>2 DEF Goto, AtTrailer, Stands
    <2>4. end' \in 0..stop + MaxBody /\ trailers' \in 0..stop /\ body' \in Seq(1..Len(stream))
      BY <1>4, <1>7, <2>1
    <2> QED  BY <1>7, <2>1, <2>3, <2>4, Goes
  <1> QED  BY <1>9, <1>10, <1>11, <1>12

LEMMA StutterKeeps ==
  ASSUME IInv, UNCHANGED vars
  PROVE  IInv'
  <1>1. /\ stream' = stream /\ base' = base /\ got' = got /\ phase' = phase /\ cursor' = cursor
        /\ end' = end /\ trailers' = trailers /\ body' = body /\ requests' = requests
        /\ error' = error
    BY DEF vars
  <1>2. TypeOK'
    BY <1>1 DEF IInv, TypeOK
  <1>3. Room' = Room
    BY <1>1 DEF Room, HeadEnds, LineEnds
  <1>4. ReadsWhatWasSent => ReadsWhatWasSent'
    BY <1>1, <1>3 DEF ReadsWhatWasSent
  <1>5. Follows'
    BY <1>1, <1>4 DEF IInv, Follows, AtHead, AtBody, AtSize, AtData, AtTrailer
  <1> QED  BY <1>2, <1>5 DEF IInv

-----------------------------------------------------------------------------
(* The theorems. *)

\* Whatever the pieces in which the stream arrives, the reader stands where the
\* reference does when it has looked at the units up to the cursor of
\* `read_request`, and what it has drained is what it has returned.
THEOREM Inductive == Spec => []IInv
  <1>1. Init => IInv
    BY Starts
  <1>2. IInv /\ [Next]_vars => IInv'
    <2> SUFFICES ASSUME IInv, [Next]_vars PROVE IInv'
      OBVIOUS
    <2>1. CASE Read            BY <2>1, ReadKeeps
    <2>2. CASE Eof             BY <2>2, EofKeeps
    <2>3. CASE ReadFails       BY <2>3, ReadFailsKeeps
    <2>4. CASE HeadersTooLong  BY <2>4, HeadersTooLongKeeps
    <2>5. CASE ParseHead       BY <2>5, ParseHeadKeeps
    <2>6. CASE BodyDone        BY <2>6, BodyDoneKeeps
    <2>7. CASE LineTooLong     BY <2>7, LineTooLongKeeps
    <2>8. CASE ParseSize       BY <2>8, ParseSizeKeeps
    <2>9. CASE ChunkDone       BY <2>9, ChunkDoneKeeps
    <2>10. CASE ParseTrailer   BY <2>10, ParseTrailerKeeps
    <2>11. CASE UNCHANGED vars BY <2>11, StutterKeeps
    <2> QED  BY <2>1, <2>2, <2>3, <2>4, <2>5, <2>6, <2>7, <2>8, <2>9, <2>10, <2>11 DEF Next
  <1> QED  BY <1>1, <1>2, PTL DEF Spec

\* The buffer of `read_request` holds units that were read and not drained, and
\* every position it keeps lies in the stream and in the limits, for every
\* stream, size of a read and limit.
THEOREM TypeCorrect == Spec => []TypeOK
  <1>1. IInv => TypeOK
    BY DEF IInv
  <1> QED  BY <1>1, Inductive, PTL

\* `read_request` returns what the client has sent: the same requests with the
\* same bodies, ending at the same places, and the same refusal, in whatever
\* pieces the stream arrives and whatever its units say.
THEOREM ReadsAsSent == Spec => []ReadsWhatWasSent
  <1>1. IInv => ReadsWhatWasSent
    BY Promised
  <1> QED  BY <1>1, Inductive, PTL
=============================================================================
