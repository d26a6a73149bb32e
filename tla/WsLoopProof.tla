---------------------------- MODULE WsLoopProof ----------------------------
(***************************************************************************)
(* Proofs about WsLoop, for any plans, any capacities of the channels, any *)
(* bound on messages, with and without compression.                        *)
(***************************************************************************)
EXTENDS WsLoop, Integers, WellFoundedInduction, TLAPS

-----------------------------------------------------------------------------
(* Induction over numbers, and what it gives of functions that are defined  *)
(* by recursion.  What is to be shown is a set, so that each use names a    *)
(* value and not an operator.                                               *)

\* A set of natural numbers has a least one.
LEMMA Least ==
  ASSUME NEW T \in SUBSET Nat, T # {}
  PROVE  \E x \in T : \A y \in T : x <= y
  <1> DEFINE R == OpToRel(<, Nat)
  <1>1. \A x, y \in Nat : x < y => <<x, y>> \in R
    BY DEF OpToRel
  <1>2. IsWellFoundedOn(R, Nat)
    BY NatLessThanWellFounded
  <1> HIDE DEF R
  <1>3. PICK x \in T : \A y \in T : ~ (<<y, x>> \in R)
    BY <1>2, WFMin
  <1>4. x \in Nat /\ \A y \in T : y \in Nat /\ ~(y < x)
    BY <1>1, <1>3
  <1>5. \A y \in T : x <= y
    BY <1>4
  <1> QED  BY <1>5

\* A set with zero, and with the successor of each number in it, has them all.
LEMMA SetInduction ==
  ASSUME NEW S, 0 \in S, \A n \in Nat : n \in S => n + 1 \in S
  PROVE  Nat \subseteq S
  <1> SUFFICES ASSUME Nat \ S # {} PROVE FALSE
    OBVIOUS
  <1>1. PICK x \in Nat \ S : \A y \in Nat \ S : x <= y
    BY Least
  <1>2. x # 0 /\ x - 1 \in Nat /\ x - 1 \in S
    BY <1>1
  <1> QED  BY <1>2

\* The same up to a bound.
LEMMA Along ==
  ASSUME NEW m \in Nat, NEW S, 0 \in S, \A n \in 1..m : n - 1 \in S => n \in S
  PROVE  0..m \subseteq S
  <1> DEFINE T == {n \in Nat : n <= m => n \in S}
  <1>1. 0 \in T
    OBVIOUS
  <1>2. ASSUME NEW n \in Nat, n \in T PROVE n + 1 \in T
    <2>1. CASE n + 1 <= m
      <3>1. n \in S /\ n + 1 \in 1..m /\ (n + 1) - 1 = n
        BY <1>2, <2>1
      <3> QED  BY <3>1
    <2>2. CASE ~(n + 1 <= m)
      BY <2>2
    <2> QED  BY <2>1, <2>2
  <1> HIDE DEF T
  <1>3. Nat \subseteq T
    BY <1>1, <1>2, SetInduction
  <1> QED  BY <1>3 DEF T

\* Two functions agree from 0 to m, if they begin alike and go on alike.
Alike(f, g, m) == \A n \in 0..m : f[n] = g[n]
GoAlike(f, g, m) ==
    f[0] = g[0] /\ \A n \in 1..m : f[n - 1] = g[n - 1] => f[n] = g[n]

LEMMA AlikeAlong ==
  ASSUME NEW m \in Nat, NEW f, NEW g, GoAlike(f, g, m)
  PROVE  Alike(f, g, m)
  <1> DEFINE S == {n \in 0..m : f[n] = g[n]}
  <1>1. 0 \in S /\ \A n \in 1..m : n - 1 \in S => n \in S
    BY DEF GoAlike
  <1> HIDE DEF S
  <1>2. 0..m \subseteq S
    BY <1>1, Along
  <1> QED  BY <1>2 DEF S, Alike

\* From 0 to m, f begins with base and each value follows from the one before.
Follows(f, S, base, m, step) ==
    /\ f \in [0..m -> S]
    /\ f[0] = base /\ \A n \in 1..m : f[n] = step[<<f[n - 1], n>>]

\* There is such a function.
LEMMA Recursion ==
  ASSUME NEW S, NEW base \in S, NEW m \in Nat, NEW step \in [S \X (1..m) -> S]
  PROVE  \E f : Follows(f, S, base, m, step)
  <1> DEFINE K == {k \in 0..m : \E f : Follows(f, S, base, k, step)}
  <1>1. 0 \in K
    <2>1. Follows([n \in 0..0 |-> base], S, base, 0, step)
      BY DEF Follows
    <2>2. \E f : Follows(f, S, base, 0, step)
      BY <2>1
    <2> QED  BY <2>2
  <1>2. ASSUME NEW k \in 1..m, k - 1 \in K PROVE k \in K
    <2>1. PICK f : Follows(f, S, base, k - 1, step)
      BY <1>2
    <2> DEFINE g == [n \in 0..k |-> IF n = k THEN step[<<f[k - 1], k>>] ELSE f[n]]
    <2>2. f[k - 1] \in S /\ step[<<f[k - 1], k>>] \in S
      BY <2>1 DEF Follows
    <2>3. g \in [0..k -> S] /\ g[0] = base
      BY <2>1, <2>2 DEF Follows
    <2>4. ASSUME NEW n \in 1..k PROVE g[n] = step[<<g[n - 1], n>>]
      <3>1. n - 1 \in 0..k /\ n - 1 # k /\ g[n - 1] = f[n - 1]
        OBVIOUS
      <3>2. CASE n = k
        BY <3>1, <3>2
      <3>3. CASE n # k
        BY <2>1, <3>1, <3>3 DEF Follows
      <3> QED  BY <3>2, <3>3
    <2> HIDE DEF g
    <2>5. Follows(g, S, base, k, step)
      BY <2>3, <2>4 DEF Follows
    <2>6. \E q : Follows(q, S, base, k, step)
      BY <2>5
    <2> QED  BY <2>6
  <1> HIDE DEF K
  <1>3. 0..m \subseteq K
    BY <1>1, <1>2, Along
  <1>4. m \in K
    BY <1>3
  <1> QED  BY <1>4 DEF K

-----------------------------------------------------------------------------
(* The state of the loop. *)

\* Whole frames that the loop has read.
Whole == (pos - held) \div 2

\* The types, in four parts, and what stands between the counters.
Reading ==
    /\ script \in Seq(Frames) /\ Len(script) <= MaxFrames
    /\ arrived \in 0..2 * Len(script) /\ 2 * Len(script) <= arrived + 1
    /\ pos \in 0..arrived
    /\ held \in 0..1 /\ held <= pos
    /\ cut \in BOOLEAN
    /\ ~cut => Aligned

Parts ==
    /\ phase \in {"select", "deliver", "ended"} /\ ending \in Endings \cup {"none"}
    /\ phase = "ended" <=> ending # "none"
    /\ fragments \in Seq(Piece) /\ fragmentOp \in {"none", "text", "binary"}
    /\ fragmentOp = "none" => fragments = <<>>
    /\ handing \in Seq(Piece)

Channels ==
    /\ delivered \in Seq(Seq(Piece))
    /\ taken \in 0..Len(delivered) /\ Len(delivered) <= taken + InCap
    /\ handler \in {"running", "sending", "returned", "unregistered", "panicked"}
    /\ accepted \in 0..MaxOut
    /\ handler = "sending" => accepted < MaxOut
    /\ drained \in 0..accepted /\ accepted <= drained + OutCap

Written == [op : {"text", "pong", "close"}, id : Nat]

Shapes ==
    /\ plan \in Plans
    /\ Reading /\ Parts /\ Channels
    /\ wrote \in Seq(Written)

\* No size exceeds the bound on messages, on the way of a message either.
Sizes ==
    /\ SizeOf(fragments) <= MaxMessage
    /\ phase = "deliver" => SizeOf(handing) <= MaxMessage
    /\ MessageBounded

\* The loop has made of the frames it has read what the reference makes of them.
Assembles ==
    ~cut /\ phase # "ended" =>
        LET made == Reassembled(script)[Whole]
        IN  /\ fragmentOp # "none" => made.open = Ids(fragments)
            /\ made.done = IF phase = "deliver" THEN Append(DeliveredIds, Ids(handing))
                           ELSE DeliveredIds

\* A normal end finds nothing left, and nobody to add to it.
Writes ==
    /\ ending = "normal" =>
          /\ handler = "unregistered" /\ drained = accepted
          /\ Len(wrote) > 0 /\ wrote[Len(wrote)].op = "close"
    /\ WritesWhatItOwes

IInv == Shapes /\ Sizes /\ Assembles /\ DeliveredUnlessCut /\ Writes

-----------------------------------------------------------------------------
(* Arithmetic and sequences. *)

\* Of units, two are a frame.
LEMMA Halves ==
  ASSUME NEW n \in Nat, n % 2 = 0
  PROVE  /\ n \div 2 \in Nat /\ n = 2 * (n \div 2)
         /\ (n + 2) % 2 = 0 /\ (n + 2) \div 2 = n \div 2 + 1
  OBVIOUS

\* What Append makes.
LEMMA Appended ==
  ASSUME NEW T, NEW s \in Seq(T), NEW x \in T
  PROVE  /\ Append(s, x) \in Seq(T)
         /\ Len(s) \in Nat /\ Len(Append(s, x)) = Len(s) + 1
         /\ \A i \in 1..Len(s) : Append(s, x)[i] = s[i]
         /\ Append(s, x)[Len(s) + 1] = x
  OBVIOUS

\* A sequence agrees with another as far as it goes.
Agree(s, t) == Len(s) <= Len(t) /\ \A i \in 1..Len(s) : s[i] = t[i]

\* Agreeing is transitive.
LEMMA AgreeTransitive ==
  ASSUME NEW s, NEW t, NEW u, Len(s) \in Nat, Len(t) \in Nat, Len(u) \in Nat,
         Agree(s, t), Agree(t, u)
  PROVE  Agree(s, u)
  <1>1. \A i \in 1..Len(s) : i \in 1..Len(t) /\ s[i] = t[i] /\ t[i] = u[i]
    BY DEF Agree
  <1> QED  BY <1>1 DEF Agree

\* Then it is a prefix of it, and only then.
LEMMA AgreePrefix ==
  ASSUME NEW T, NEW s \in Seq(T), NEW t \in Seq(T)
  PROVE  IsPrefix(s, t) <=> Agree(s, t)
  <1>1. Len(s) \in Nat /\ Len(t) \in Nat
    OBVIOUS
  <1>2. SubSeq(s, 1, Len(s)) = [i \in 1..Len(s) |-> s[i]]
    BY <1>1
  <1>3. ASSUME Len(s) <= Len(t) PROVE SubSeq(t, 1, Len(s)) = [i \in 1..Len(s) |-> t[i]]
    BY <1>1, <1>3
  <1> QED  BY <1>1, <1>2, <1>3 DEF IsPrefix, Agree

-----------------------------------------------------------------------------
(* The size of the pieces of a message. *)

\* The function that SizeOf defines by recursion.
Totals(f, pieces) ==
    /\ f \in [0..Len(pieces) -> Nat]
    /\ f[0] = 0 /\ \A n \in 1..Len(pieces) : f[n] = f[n - 1] + pieces[n].size

\* It exists, and SizeOf is its last value.
LEMMA SizeOfIs ==
  ASSUME NEW T, \A t \in T : t.size \in Nat, NEW pieces \in Seq(T)
  PROVE  \E f : Totals(f, pieces) /\ SizeOf(pieces) = f[Len(pieces)]
  <1> DEFINE m == Len(pieces)
             Sum(g, n) == IF n = 0 THEN 0 ELSE g[n - 1] + pieces[n].size
             step == [x \in Nat \X (1..m) |-> x[1] + pieces[x[2]].size]
             total == CHOOSE g : g = [n \in 0..m |-> Sum(g, n)]
  <1>1. m \in Nat /\ \A n \in 1..m : pieces[n].size \in Nat
    OBVIOUS
  <1>2. step \in [Nat \X (1..m) -> Nat]
    BY <1>1
  <1>3. \A a \in Nat, n \in 1..m : step[<<a, n>>] = a + pieces[n].size
    OBVIOUS
  <1>4. PICK f : f \in [0..m -> Nat] /\ f[0] = 0 /\ \A n \in 1..m : f[n] = step[<<f[n - 1], n>>]
    <2> HIDE DEF step, m
    <2>1. \E f : Follows(f, Nat, 0, m, step)
      BY <1>1, <1>2, Recursion
    <2> QED  BY <2>1 DEF Follows
  <1>5. \A n \in 1..m : n - 1 \in 0..m /\ n # 0 /\ f[n - 1] \in Nat
    <2>1. \A n \in 1..m : n - 1 \in 0..m /\ n # 0
      BY <1>1
    <2> HIDE DEF step, m
    <2> QED  BY <1>4, <2>1
  <1> HIDE DEF step
  <1>6. \A n \in 1..m : f[n] = f[n - 1] + pieces[n].size
    BY <1>3, <1>4, <1>5
  <1>7. f = [n \in 0..m |-> Sum(f, n)]
    <2>1. \A n \in 0..m : n = 0 \/ n \in 1..m
      BY <1>1
    <2>2. \A n \in 0..m : f[n] = Sum(f, n)
      BY <1>4, <1>6, <2>1
    <2> HIDE DEF Sum, m
    <2> QED  BY <1>4, <2>2
  <1>8. total = [n \in 0..m |-> Sum(total, n)]
    <2> HIDE DEF Sum, m
    <2> QED  BY <1>7
  <1>9. SizeOf(pieces) = total[m]
    BY DEF SizeOf
  <1> HIDE DEF total
  <1>10. DOMAIN total = 0..m /\ total[0] = 0 /\ \A n \in 1..m : total[n] = total[n - 1] + pieces[n].size
    BY <1>1, <1>8
  <1>11. \A n \in 0..m : total[n] = f[n]
    <2>1. GoAlike(total, f, m)
      BY <1>4, <1>6, <1>10 DEF GoAlike
    <2> HIDE DEF m
    <2>2. Alike(total, f, m)
      BY <1>1, <2>1, AlikeAlong
    <2> QED  BY <2>2 DEF Alike
  <1>12. Totals(f, pieces)
    BY <1>4, <1>6 DEF Totals
  <1> HIDE DEF m
  <1>13. SizeOf(pieces) = f[m]
    BY <1>1, <1>9, <1>11
  <1> QED  BY <1>12, <1>13 DEF m

\* No piece has no size, and a piece more has its own.
LEMMA SizeOfAppend ==
  ASSUME NEW T, \A t \in T : t.size \in Nat, NEW pieces \in Seq(T), NEW x \in T
  PROVE  /\ SizeOf(<<>>) = 0 /\ SizeOf(pieces) \in Nat
         /\ SizeOf(Append(pieces, x)) = SizeOf(pieces) + x.size
  <1>1. SizeOf(<<>>) = 0
    <2>1. <<>> \in Seq(T) /\ Len(<<>>) = 0
      OBVIOUS
    <2> QED  BY <2>1, SizeOfIs DEF Totals
  <1>2. PICK f : Totals(f, pieces) /\ SizeOf(pieces) = f[Len(pieces)]
    BY SizeOfIs
  <1> DEFINE more == Append(pieces, x)
  <1>3. /\ more \in Seq(T) /\ Len(pieces) \in Nat /\ Len(more) = Len(pieces) + 1
        /\ \A i \in 1..Len(pieces) : more[i] = pieces[i]
        /\ more[Len(pieces) + 1] = x
    BY Appended
  <1> HIDE DEF more
  <1>4. PICK g : Totals(g, more) /\ SizeOf(more) = g[Len(more)]
    BY <1>3, SizeOfIs
  <1>5. \A n \in 0..Len(pieces) : f[n] = g[n]
    <2>1. /\ f[0] = 0 /\ \A n \in 1..Len(pieces) : f[n] = f[n - 1] + pieces[n].size
          /\ g[0] = 0 /\ \A n \in 1..Len(more) : g[n] = g[n - 1] + more[n].size
      BY <1>2, <1>4 DEF Totals
    <2>2. \A n \in 1..Len(pieces) : n \in 1..Len(more) /\ more[n] = pieces[n]
      BY <1>3
    <2>3. GoAlike(f, g, Len(pieces))
      BY <2>1, <2>2 DEF GoAlike
    <2>4. Alike(f, g, Len(pieces))
      BY <1>3, <2>3, AlikeAlong
    <2> QED  BY <2>4 DEF Alike
  <1>6. g[Len(more)] = g[Len(pieces)] + x.size
    <2>1. Len(more) \in 1..Len(more) /\ Len(more) - 1 = Len(pieces)
      BY <1>3
    <2> QED  BY <1>3, <1>4, <2>1 DEF Totals
  <1>7. SizeOf(pieces) \in Nat
    BY <1>2, <1>3 DEF Totals
  <1>8. g[Len(pieces)] = f[Len(pieces)]
    BY <1>3, <1>5
  <1> QED  BY <1>1, <1>2, <1>4, <1>6, <1>7, <1>8 DEF more

-----------------------------------------------------------------------------
(* The reference. *)

\* What the n-th frame makes of what those before it have made.
Joined(before, n, f) ==
    LET message == IF f.op = "continuation" THEN Append(before.open, n) ELSE <<n>>
    IN  IF f.op \notin {"text", "binary", "continuation"} THEN before
        ELSE IF f.fin THEN [open |-> <<>>, done |-> Append(before.done, message)]
        ELSE [open |-> message, done |-> before.done]

Made == [open : Seq(Nat), done : Seq(Seq(Nat))]
Nothing == [open |-> <<>>, done |-> <<>>]

\* A frame makes an open message and messages of such.
LEMMA JoinedType ==
  ASSUME NEW before \in Made, NEW n \in Nat, NEW f
  PROVE  Joined(before, n, f) \in Made
  <1>1. before.open \in Seq(Nat) /\ before.done \in Seq(Seq(Nat))
    BY DEF Made
  <1> DEFINE message == IF f.op = "continuation" THEN Append(before.open, n) ELSE <<n>>
  <1>2. message \in Seq(Nat)
    BY <1>1
  <1> HIDE DEF message
  <1>3. Append(before.done, message) \in Seq(Seq(Nat)) /\ <<>> \in Seq(Nat)
    BY <1>1, <1>2
  <1>4. /\ [open |-> <<>>, done |-> Append(before.done, message)] \in Made
        /\ [open |-> message, done |-> before.done] \in Made
    BY <1>1, <1>2, <1>3 DEF Made
  <1> QED  BY <1>4 DEF Joined, message

\* The function that Reassembled defines by recursion.
Joins(r, frames) ==
    /\ r \in [0..Len(frames) -> Made]
    /\ r[0] = Nothing /\ \A n \in 1..Len(frames) : r[n] = Joined(r[n - 1], n, frames[n])

\* It exists, so Reassembled is what its definition says.
LEMMA ReassembledIs ==
  ASSUME NEW frames, Len(frames) \in Nat
  PROVE  Joins(Reassembled(frames), frames)
  <1> DEFINE m == Len(frames)
             Sum(g, n) == IF n = 0 THEN Nothing ELSE Joined(g[n - 1], n, frames[n])
             step == [x \in Made \X (1..m) |-> Joined(x[1], x[2], frames[x[2]])]
             total == CHOOSE g : g = [n \in 0..m |-> Sum(g, n)]
  <1>1. \A n \in 1..m : n - 1 \in 0..m /\ n # 0 /\ n \in Nat
    OBVIOUS
  <1>2. step \in [Made \X (1..m) -> Made]
    <2>1. \A x \in Made \X (1..m) : x[1] \in Made /\ x[2] \in Nat
      BY <1>1
    <2>2. \A x \in Made \X (1..m) : Joined(x[1], x[2], frames[x[2]]) \in Made
      BY <2>1, JoinedType
    <2> HIDE DEF m
    <2> QED  BY <2>2
  <1>3. \A a \in Made, n \in 1..m : step[<<a, n>>] = Joined(a, n, frames[n])
    OBVIOUS
  <1>4. Nothing \in Made
    BY DEF Nothing, Made
  <1>5. PICK f : /\ f \in [0..m -> Made] /\ f[0] = Nothing
                 /\ \A n \in 1..m : f[n] = step[<<f[n - 1], n>>]
    <2> HIDE DEF step
    <2>1. m \in Nat
      OBVIOUS
    <2> HIDE DEF m
    <2>2. \E f : Follows(f, Made, Nothing, m, step)
      BY <1>2, <1>4, <2>1, Recursion
    <2> QED  BY <2>2 DEF Follows
  <1> HIDE DEF step
  <1>6. \A n \in 1..m : f[n] = Joined(f[n - 1], n, frames[n])
    <2> HIDE DEF m
    <2> QED  BY <1>1, <1>3, <1>5
  <1>7. f = [n \in 0..m |-> Sum(f, n)]
    <2>1. \A n \in 0..m : n = 0 \/ n \in 1..m
      OBVIOUS
    <2>2. \A n \in 0..m : f[n] = Sum(f, n)
      BY <1>1, <1>5, <1>6, <2>1
    <2> HIDE DEF Sum, m
    <2> QED  BY <1>5, <2>2
  <1>8. total = [n \in 0..m |-> Sum(total, n)]
    <2> HIDE DEF Sum, m
    <2> QED  BY <1>7
  <1>9. Reassembled(frames) = total
    BY DEF Reassembled, Joined, Nothing
  <1> HIDE DEF total
  <1>10. total[0] = Nothing /\ \A n \in 1..m : total[n] = Joined(total[n - 1], n, frames[n])
    BY <1>1, <1>8
  <1>11. GoAlike(total, f, m)
    BY <1>5, <1>6, <1>10 DEF GoAlike
  <1>12. Alike(total, f, m)
    <2>1. m \in Nat
      OBVIOUS
    <2> HIDE DEF m
    <2> QED  BY <1>11, <2>1, AlikeAlong
  <1>13. total \in [0..m -> Made]
    <2> HIDE DEF m
    <2>1. total = [n \in 0..m |-> total[n]]
      BY <1>8
    <2> QED  BY <1>5, <1>12, <2>1 DEF Alike
  <1> QED  BY <1>9, <1>10, <1>13 DEF Joins

\* A frame more changes nothing of what those before it have made.
LEMMA ReassembledAppend ==
  ASSUME NEW T, NEW frames \in Seq(T), NEW x \in T, NEW n \in 0..Len(frames)
  PROVE  Reassembled(Append(frames, x))[n] = Reassembled(frames)[n]
  <1> DEFINE more == Append(frames, x)
             f == Reassembled(frames)
             g == Reassembled(more)
  <1>1. /\ Len(frames) \in Nat /\ Len(more) = Len(frames) + 1
        /\ \A i \in 1..Len(frames) : more[i] = frames[i]
    BY Appended
  <1> HIDE DEF more
  <1>2. Joins(f, frames) /\ Joins(g, more)
    <2>1. Len(more) \in Nat
      BY <1>1
    <2> QED  BY <1>1, <2>1, ReassembledIs
  <1> HIDE DEF f, g
  <1>3. /\ f[0] = Nothing /\ \A i \in 1..Len(frames) : f[i] = Joined(f[i - 1], i, frames[i])
        /\ g[0] = Nothing /\ \A i \in 1..Len(more) : g[i] = Joined(g[i - 1], i, more[i])
    BY <1>2 DEF Joins
  <1>4. \A i \in 1..Len(frames) : i \in 1..Len(more) /\ more[i] = frames[i]
    BY <1>1
  <1>5. GoAlike(g, f, Len(frames))
    BY <1>3, <1>4 DEF GoAlike
  <1>6. Alike(g, f, Len(frames))
    BY <1>1, <1>5, AlikeAlong
  <1> QED  BY <1>6 DEF Alike, f, g, more

\* The messages that some frames make are the first that more of them make.
LEMMA DoneGrows ==
  ASSUME NEW frames, Len(frames) \in Nat, NEW k \in 0..Len(frames), NEW n \in k..Len(frames)
  PROVE  Agree(Reassembled(frames)[k].done, Reassembled(frames)[n].done)
  <1> DEFINE r == Reassembled(frames)
             m == Len(frames)
             P == {i \in 0..m : k <= i => Agree(r[k].done, r[i].done)}
  <1>1. /\ \A i \in 0..m : r[i] \in Made
        /\ \A i \in 1..m : r[i] = Joined(r[i - 1], i, frames[i])
    BY ReassembledIs DEF Joins
  <1>2. \A i \in 0..m : r[i].done \in Seq(Seq(Nat)) /\ Len(r[i].done) \in Nat
    BY <1>1 DEF Made
  <1> HIDE DEF r
  <1>3. \A s : Len(s) \in Nat => Agree(s, s)
    BY DEF Agree
  <1>4. ASSUME NEW i \in 1..m, i - 1 \in P PROVE i \in P
    <2>1. i - 1 \in 0..m /\ i \in 0..m
      OBVIOUS
    <2>2. CASE i <= k
      BY <1>2, <1>3, <2>1, <2>2
    <2>3. CASE k < i
      <3>1. Agree(r[k].done, r[i - 1].done)
        BY <1>4, <2>3
      <3>2. Agree(r[i - 1].done, r[i].done)
        <4>1. CASE r[i].done = r[i - 1].done
          BY <1>2, <1>3, <2>1, <4>1
        <4>2. CASE \E t \in Seq(Nat) : r[i].done = Append(r[i - 1].done, t)
          <5>1. PICK t \in Seq(Nat) : r[i].done = Append(r[i - 1].done, t)
            BY <4>2
          <5>2. /\ Len(r[i].done) = Len(r[i - 1].done) + 1 /\ Len(r[i - 1].done) \in Nat
                /\ \A j \in 1..Len(r[i - 1].done) : r[i].done[j] = r[i - 1].done[j]
            BY <1>2, <2>1, <5>1, Appended
          <5> QED  BY <5>2 DEF Agree
        <4>3. Append(r[i - 1].open, i) \in Seq(Nat) /\ <<i>> \in Seq(Nat)
          BY <1>1, <2>1 DEF Made
        <4>4. \/ r[i].done = r[i - 1].done
              \/ r[i].done = Append(r[i - 1].done, Append(r[i - 1].open, i))
              \/ r[i].done = Append(r[i - 1].done, <<i>>)
          <5>1. r[i] = Joined(r[i - 1], i, frames[i])
            BY <1>1
          <5> DEFINE message == IF frames[i].op = "continuation"
                                THEN Append(r[i - 1].open, i) ELSE <<i>>
          <5>2. \/ r[i] = r[i - 1]
                \/ r[i] = [open |-> <<>>, done |-> Append(r[i - 1].done, message)]
                \/ r[i] = [open |-> message, done |-> r[i - 1].done]
            BY <5>1 DEF Joined
          <5>3. message = Append(r[i - 1].open, i) \/ message = <<i>>
            OBVIOUS
          <5> HIDE DEF message
          <5>4. r[i].done = r[i - 1].done \/ r[i].done = Append(r[i - 1].done, message)
            BY <5>2
          <5>5. CASE r[i].done = r[i - 1].done
            BY <5>5
          <5>6. CASE r[i].done = Append(r[i - 1].done, message)
            BY ONLY <5>3, <5>6
          <5> QED  BY ONLY <5>4, <5>5, <5>6
        <4> QED  BY <4>1, <4>2, <4>3, <4>4
      <3>3. Agree(r[k].done, r[i].done)
        BY <1>2, <2>1, <3>1, <3>2, AgreeTransitive
      <3> QED  BY <2>1, <3>3
    <2> QED  BY <2>2, <2>3
  <1>5. 0 \in P
    BY <1>2, <1>3
  <1> HIDE DEF P
  <1>6. 0..m \subseteq P
    BY <1>4, <1>5, Along
  <1> QED  BY <1>6 DEF P, r

-----------------------------------------------------------------------------
(* Messages and the numbers of their frames. *)

\* A piece more is a number more.
LEMMA IdsAppend ==
  ASSUME NEW T, \A t \in T : t.id \in Nat, NEW pieces \in Seq(T), NEW x \in T
  PROVE  /\ Ids(<<>>) = <<>> /\ Ids(pieces) \in Seq(Nat)
         /\ Ids(Append(pieces, x)) = Append(Ids(pieces), x.id)
  <1>1. Ids(<<>>) = <<>>
    BY DEF Ids
  <1>2. \A i \in 1..Len(pieces) : pieces[i].id \in Nat
    OBVIOUS
  <1>3. Ids(pieces) \in Seq(Nat) /\ Len(Ids(pieces)) = Len(pieces)
    BY <1>2 DEF Ids
  <1> DEFINE more == Append(pieces, x)
  <1>4. /\ Len(pieces) \in Nat /\ Len(more) = Len(pieces) + 1
        /\ \A i \in 1..Len(pieces) : more[i] = pieces[i]
        /\ more[Len(pieces) + 1] = x
    BY Appended
  <1> HIDE DEF more
  <1>5. Ids(more) = [i \in 1..Len(pieces) + 1 |-> more[i].id]
    BY <1>4 DEF Ids
  <1>6. Append(Ids(pieces), x.id)
           = [i \in 1..Len(pieces) + 1 |-> IF i = Len(pieces) + 1 THEN x.id ELSE pieces[i].id]
    BY <1>3, <1>4 DEF Ids
  <1>7. \A i \in 1..Len(pieces) + 1 :
           more[i].id = IF i = Len(pieces) + 1 THEN x.id ELSE pieces[i].id
    BY <1>4
  <1> QED  BY <1>1, <1>3, <1>5, <1>6, <1>7 DEF more

\* The numbers of the frames of some messages, as DeliveredIds has them.
AllIds(messages) == [i \in 1..Len(messages) |-> Ids(messages[i])]

\* A message more is its numbers more.
LEMMA AllIdsAppend ==
  ASSUME NEW T, \A t \in T : t.id \in Nat, NEW messages \in Seq(Seq(T)), NEW x \in Seq(T)
  PROVE  /\ AllIds(messages) \in Seq(Seq(Nat)) /\ Ids(x) \in Seq(Nat)
         /\ AllIds(Append(messages, x)) = Append(AllIds(messages), Ids(x))
  <1>1. \A s \in Seq(T) : Ids(s) \in Seq(Nat)
    <2> SUFFICES ASSUME NEW s \in Seq(T) PROVE Ids(s) \in Seq(Nat)
      OBVIOUS
    <2>1. \A i \in 1..Len(s) : s[i].id \in Nat
      OBVIOUS
    <2> QED  BY <2>1 DEF Ids
  <1>2. \A i \in 1..Len(messages) : Ids(messages[i]) \in Seq(Nat)
    BY <1>1
  <1>3. AllIds(messages) \in Seq(Seq(Nat)) /\ Len(AllIds(messages)) = Len(messages)
    BY <1>2 DEF AllIds
  <1> DEFINE more == Append(messages, x)
  <1>4. /\ Len(messages) \in Nat /\ Len(more) = Len(messages) + 1
        /\ \A i \in 1..Len(messages) : more[i] = messages[i]
        /\ more[Len(messages) + 1] = x
    BY Appended
  <1> HIDE DEF more
  <1>5. AllIds(more) = [i \in 1..Len(messages) + 1 |-> Ids(more[i])]
    BY <1>4 DEF AllIds
  <1>6. Append(AllIds(messages), Ids(x))
           = [i \in 1..Len(messages) + 1 |->
                IF i = Len(messages) + 1 THEN Ids(x) ELSE Ids(messages[i])]
    BY <1>1, <1>3, <1>4 DEF AllIds
  <1>7. \A i \in 1..Len(messages) + 1 :
           Ids(more[i]) = IF i = Len(messages) + 1 THEN Ids(x) ELSE Ids(messages[i])
    BY <1>4
  <1> QED  BY <1>1, <1>3, <1>5, <1>6, <1>7 DEF more

-----------------------------------------------------------------------------
(* What handling a frame comes to. *)

CloseFrame == [op |-> "close", id |-> 0]

\* It ends the loop,
Ends ==
    /\ phase' = "ended" /\ ending' \in Endings \ {"normal"}
    /\ UNCHANGED <<partVars, handing>>
    /\ wrote' = wrote \/ wrote' = Append(wrote, CloseFrame)

\* or it has a piece of a message, with which the message
Carries(f) ==
    /\ f.op \in {"text", "binary", "continuation"}
    /\ f.op = "continuation" <=> fragmentOp # "none"
    /\ SizeOf(fragments) + f.size <= MaxMessage

\* is whole,
Completes(id, f) ==
    /\ Carries(f) /\ f.fin
    /\ phase' = "deliver" /\ handing' = Append(fragments, Payload(id, f))
    /\ fragments' = <<>> /\ fragmentOp' = "none"
    /\ UNCHANGED <<ending, wrote>>

\* or goes on,
Lengthens(id, f) ==
    /\ Carries(f) /\ ~f.fin
    /\ fragments' = Append(fragments, Payload(id, f)) /\ fragmentOp' \in {"text", "binary"}
    /\ UNCHANGED <<loopVars, handing, wrote>>

\* or it is a ping that is answered or a pong.
Pongs(id, f) ==
    /\ f.op = "ping" /\ wrote' = Append(wrote, [op |-> "pong", id |-> id])
    /\ UNCHANGED <<partVars, loopVars, handing>>

Passes(f) == f.op = "pong" /\ UNCHANGED <<partVars, loopVars, handing, wrote>>

Handled(id, f) == Ends \/ Completes(id, f) \/ Lengthens(id, f) \/ Pongs(id, f) \/ Passes(f)

\* There is no other way.
LEMMA HandledSo ==
  ASSUME Parts, NEW id \in 0..MaxFrames, NEW f \in Frame, Handle(id, f), plan \in Plans
  PROVE  Handled(id, f)
  <1>1. /\ SizeOf(<<>>) = 0 /\ SizeOf(fragments) \in Nat
        /\ \A x \in Piece : Append(<<>>, x) = <<x>>
    <2>1. \A x \in Piece : x.size \in Nat
      BY DEF Piece
    <2>2. Payload(id, f) \in Piece
      BY DEF Payload, Piece, Frame
    <2> QED  BY <2>1, <2>2, SizeOfAppend DEF Parts
  <1>2. Payload(id, f) \in Piece /\ f.size \in Nat /\ MaxMessage \in Nat
    BY BoundsAssumption DEF Payload, Piece, Frame
  <1>3. CASE Refuse(f) \/ ProtocolError(f)
    BY <1>3 DEF Refuse, ProtocolError, CloseWith, EndWith, Write, CloseFrame, Endings,
                Ends, Handled
  <1>4. CASE ~Refused(f) /\ Continue(id, f)
    BY <1>1, <1>2, <1>4
       DEF Continue, Overflows, CloseWith, EndWith, Write, CloseFrame, Endings, HandOver,
           Parts, partVars, loopVars, Ends, Carries, Completes, Lengthens, Handled
  <1>5. CASE ~Refused(f) /\ StartMessage(id, f)
    <2>1. /\ fragments = <<>> /\ fragmentOp = "none"
          /\ Append(fragments, Payload(id, f)) = <<Payload(id, f)>>
          /\ SizeOf(fragments) + f.size = f.size
      BY <1>1, <1>2, <1>5 DEF StartMessage, Parts
    <2>2. f.size <= MaxMessage
      BY <1>2, <1>5 DEF Refused
    <2>3. Carries(f)
      BY <2>1, <2>2, <1>5 DEF Carries, StartMessage
    <2> QED  BY <1>5, <2>1, <2>3
             DEF StartMessage, HandOver, partVars, loopVars, Completes, Lengthens, Handled
  <1>6. CASE ControlFrame(id, f)
    BY <1>6 DEF ControlFrame, CloseWith, EndWith, Write, CloseFrame, Endings, Ends, Pongs,
                Passes, Handled
  <1> QED  BY <1>3, <1>4, <1>5, <1>6 DEF Handle

-----------------------------------------------------------------------------
(* The types. *)

\* The parts make the types of the model.
LEMMA TypesFollow == Shapes => TypeOK
  BY DEF Shapes, Reading, Parts, Channels, Written, TypeOK

\* A plan is what its assumption says.
LEMMA PlanTypes ==
  ASSUME plan \in Plans
  PROVE  /\ Frames \subseteq Frame /\ MaxFrames \in Nat /\ MaxOut \in Nat
         /\ \A x \in Piece : x.id \in Nat /\ x.size \in Nat
         /\ MaxMessage \in Nat /\ InCap \in Nat \ {0} /\ OutCap \in Nat \ {0}
  BY PlansAssumption, BoundsAssumption DEF Frames, MaxFrames, MaxOut, Piece

\* A frame that is read stands in the script.
LEMMA NextFrame ==
  ASSUME Shapes, Aligned, arrived >= pos - held + 2
  PROVE  /\ Whole \in Nat /\ pos - held = 2 * Whole
         /\ Whole + 1 \in 1..Len(script) /\ Whole + 1 <= MaxFrames
         /\ script[Whole + 1] \in Frames
  <1>1. pos - held \in Nat /\ (pos - held) % 2 = 0 /\ Len(script) \in Nat /\ MaxFrames \in Nat
    BY PlanTypes DEF Shapes, Reading, Aligned
  <1>2. (pos - held) \div 2 \in Nat /\ pos - held = 2 * ((pos - held) \div 2)
    BY <1>1, Halves
  <1>3. Whole + 1 \in 1..Len(script)
    BY <1>1, <1>2 DEF Whole, Shapes, Reading
  <1> QED  BY <1>1, <1>2, <1>3 DEF Whole, Shapes, Reading

\* Every read of a frame: its number, and what is done with it.
Read(id, f) ==
    /\ phase = "select" /\ id \in 0..MaxFrames /\ f \in Frames
    /\ Handled(id, f)
    /\ held' = 0 /\ pos' \in 0..arrived
    /\ \/ Aligned /\ id = Whole + 1 /\ id \in 1..Len(script) /\ f = script[id] /\ pos' = pos - held + 2
       \/ ~Aligned
    /\ UNCHANGED <<cut, clientVars, delivered, handlerVars, drained>>

\* Both reads of the specification are such.
LEMMA ReadSo ==
  ASSUME Shapes, ReadFrame \/ ReadGarbage
  PROVE  \E id \in 0..MaxFrames, f \in Frames : Read(id, f)
  <1>1. plan \in Plans /\ Parts /\ Frames \subseteq Frame /\ MaxFrames \in Nat
    BY PlanTypes DEF Shapes
  <1>2. CASE ReadFrame
    <2>1. /\ phase = "select" /\ Aligned /\ arrived >= pos - held + 2
          /\ pos' = pos - held + 2 /\ held' = 0
          /\ Handle(Whole + 1, script[Whole + 1])
          /\ UNCHANGED <<cut, clientVars, delivered, handlerVars, drained>>
      BY <1>2 DEF ReadFrame, Whole
    <2>2. /\ Whole + 1 \in 1..Len(script) /\ Whole + 1 \in 0..MaxFrames
          /\ script[Whole + 1] \in Frames
      BY <1>1, <2>1, NextFrame
    <2>3. Handled(Whole + 1, script[Whole + 1])
      BY <1>1, <2>1, <2>2, HandledSo
    <2>4. pos' \in 0..arrived
      BY <2>1 DEF Shapes, Reading
    <2>5. Read(Whole + 1, script[Whole + 1])
      BY <2>1, <2>2, <2>3, <2>4 DEF Read
    <2> QED  BY <2>2, <2>5
  <1>3. CASE ReadGarbage
    <2>1. PICK f \in Frames : Handle(0, f)
      BY <1>3 DEF ReadGarbage
    <2>2. Handled(0, f) /\ 0 \in 0..MaxFrames
      BY <1>1, <2>1, HandledSo
    <2>3. pos' \in 0..arrived
      BY <1>3 DEF ReadGarbage, Shapes, Reading
    <2>4. Read(0, f)
      BY <1>3, <2>1, <2>2, <2>3 DEF ReadGarbage, Read
    <2> QED  BY <2>2, <2>4
  <1> QED  BY <1>2, <1>3

\* The plan of a behaviour is never changed.
LEMMA SamePlan ==
  ASSUME [Next]_vars
  PROVE  plan' = plan /\ Frames' = Frames /\ MaxFrames' = MaxFrames /\ MaxOut' = MaxOut
         /\ Piece' = Piece
  <1>1. plan' = plan
    BY DEF Next, vars, clientVars, ClientStep, SendFrame, RestArrives, LoopStep, ReadHead,
           ReadFrame, ReadGarbage, WriteMessage, CloseNormally, Deliver, DeliverFails,
           ReadFails, HandlerStep, Receive, Become, Send, Sent, SendFails, Return,
           Unregister, Panic
  <1> QED  BY <1>1 DEF Frames, MaxFrames, MaxOut, Piece

\* The handler goes on, without receiving or having sent.
Turns ==
    /\ handler # "unregistered"
    /\ handler' \in {"running", "sending", "returned", "unregistered", "panicked"}
    /\ handler' = "sending" => accepted < MaxOut
    /\ UNCHANGED <<clientVars, readVars, partVars, loopVars, handing, delivered,
                   taken, accepted, drained, wrote>>

\* The steps of the specification, with the reads of frames taken together.
LEMMA Steps ==
  ASSUME Shapes, [Next]_vars
  PROVE  \/ SendFrame \/ RestArrives \/ ReadHead
         \/ \E id \in 0..MaxFrames, f \in Frames : Read(id, f)
         \/ WriteMessage \/ CloseNormally \/ Deliver \/ DeliverFails \/ ReadFails
         \/ Receive \/ Sent \/ Turns
         \/ UNCHANGED vars
  <1>1. CASE Send \/ SendFails \/ Return \/ Unregister \/ Panic
    <2>1. UNCHANGED <<clientVars, readVars, partVars, loopVars, handing, delivered,
                      taken, accepted, drained, wrote>>
      BY <1>1 DEF Send, SendFails, Return, Unregister, Panic, Become
    <2>2. /\ handler # "unregistered"
          /\ handler' \in {"running", "sending", "returned", "unregistered", "panicked"}
          /\ handler' = "sending" => accepted < MaxOut
      BY <1>1 DEF Send, SendFails, Return, Unregister, Panic, Become
    <2> QED  BY <2>1, <2>2 DEF Turns
  <1>2. CASE ReadFrame \/ ReadGarbage
    BY <1>2, ReadSo
  <1> QED  BY <1>1, <1>2 DEF Next, ClientStep, LoopStep, HandlerStep

\* The reader stands where its counters say, also when its future is dropped.
LEMMA ReadingKept ==
  ASSUME Shapes, [Next]_vars
  PROVE  Reading'
  <1> USE DEF Shapes
  <1>1. MaxFrames \in Nat /\ MaxFrames' = MaxFrames /\ Frames' = Frames /\ Reading
        /\ Len(script) \in Nat
    BY PlanTypes, SamePlan DEF Reading
  <1>2. CASE SendFrame
    <2>1. PICK f \in Frames : script' = Append(script, f)
      BY <1>2 DEF SendFrame
    <2>2. script' \in Seq(Frames) /\ Len(script') = Len(script) + 1
      BY <2>1 DEF Reading
    <2>3. arrived' = arrived + 2 \/ arrived' = arrived + 1
      BY <1>2 DEF SendFrame
    <2> QED  BY <1>1, <1>2, <2>2, <2>3 DEF SendFrame, readVars, Reading, Aligned
  <1>3. CASE RestArrives
    BY <1>1, <1>3 DEF RestArrives, readVars, Reading, Aligned
  <1>4. CASE ReadHead
    BY <1>1, <1>4 DEF ReadHead, clientVars, Reading, Aligned
  <1>5. CASE \E id \in 0..MaxFrames, f \in Frames : Read(id, f)
    <2>1. PICK id \in 0..MaxFrames, f \in Frames : Read(id, f)
      BY <1>5
    <2>2. Aligned /\ pos' = pos - held + 2 /\ held' = 0 => Aligned'
      BY <1>1, Halves DEF Reading, Aligned
    <2> QED  BY <1>1, <2>1, <2>2 DEF Read, clientVars, Reading
  <1>6. CASE WriteMessage \/ CloseNormally
    <2>1. /\ UNCHANGED <<pos, clientVars>> /\ held' = 0
          /\ cut' = (cut \/ held > 0)
      BY <1>6 DEF WriteMessage, CloseNormally, DropRead
    <2>2. cut' \in BOOLEAN
      BY <2>1
    <2>3. ~cut' => ~cut /\ held = 0
      <3>1. ~cut' => ~cut /\ ~(held > 0)
        BY <2>1
      <3>2. ~(held > 0) => held = 0
        BY DEF Reading
      <3> QED  BY <3>1, <3>2
    <2> QED  BY <1>1, <2>1, <2>2, <2>3 DEF clientVars, Reading, Aligned
  <1>7. CASE UNCHANGED <<clientVars, readVars>>
    BY <1>1, <1>7 DEF clientVars, readVars, Reading, Aligned
  <1> QED  BY <1>2, <1>3, <1>4, <1>5, <1>6, <1>7, Steps
           DEF Deliver, DeliverFails, ReadFails, Receive, Sent, Become, Turns, vars

\* Every frame leaves the message in the making and the loop's phase well formed.
LEMMA PartsKept ==
  ASSUME Shapes, [Next]_vars
  PROVE  Parts'
  <1> USE DEF Shapes
  <1>1. Piece' = Piece /\ Parts
    BY SamePlan
  <1>2. CASE \E id \in 0..MaxFrames, f \in Frames : Read(id, f)
    <2>1. PICK id \in 0..MaxFrames, f \in Frames : Read(id, f)
      BY <1>2
    <2>2. Payload(id, f) \in Piece
      BY PlanTypes DEF Payload, Piece, Frame
    <2>3. Append(fragments, Payload(id, f)) \in Seq(Piece) /\ <<>> \in Seq(Piece)
      BY <2>2 DEF Parts
    <2>4. phase = "select" /\ Handled(id, f)
      BY <2>1 DEF Read
    <2>5. CASE Ends
      BY <1>1, <2>4, <2>5 DEF Ends, partVars, Parts, Endings
    <2>6. CASE Completes(id, f)
      BY <1>1, <2>3, <2>4, <2>6 DEF Completes, Parts
    <2>7. CASE Lengthens(id, f)
      BY <1>1, <2>3, <2>4, <2>7 DEF Lengthens, loopVars, Parts
    <2>8. CASE Pongs(id, f) \/ Passes(f)
      BY <1>1, <2>8 DEF Pongs, Passes, loopVars, partVars, Parts
    <2> QED  BY <2>4, <2>5, <2>6, <2>7, <2>8 DEF Handled
  <1>3. CASE CloseNormally \/ DeliverFails \/ ReadFails
    BY <1>1, <1>3 DEF CloseNormally, CloseWith, DeliverFails, ReadFails, EndWith, partVars, Parts, Endings
  <1>4. CASE Deliver
    BY <1>1, <1>4 DEF Deliver, partVars, Parts
  <1>5. CASE UNCHANGED <<partVars, loopVars, handing>>
    BY <1>1, <1>5 DEF partVars, loopVars, Parts
  <1> QED  BY <1>2, <1>3, <1>4, <1>5, Steps
           DEF SendFrame, RestArrives, ReadHead, WriteMessage, Receive, Sent, Become, Turns, vars

\* No step puts more into a channel than it holds.
LEMMA ChannelsKept ==
  ASSUME Shapes, [Next]_vars
  PROVE  Channels'
  <1> USE DEF Shapes
  <1>1. /\ Piece' = Piece /\ MaxOut' = MaxOut /\ Channels /\ MaxOut \in Nat
        /\ InCap \in Nat /\ OutCap \in Nat /\ Len(delivered) \in Nat /\ taken \in Nat
        /\ accepted \in Nat /\ drained \in Nat
    BY SamePlan, PlanTypes DEF Channels
  <1>2. CASE Deliver
    <2>1. delivered' \in Seq(Seq(Piece)) /\ Len(delivered') = Len(delivered) + 1
      BY <1>2 DEF Deliver, Channels, Parts
    <2> QED  BY <1>1, <1>2, <2>1 DEF Deliver, HasRoom, handlerVars, Channels
  <1>3. CASE WriteMessage
    BY <1>1, <1>3 DEF WriteMessage, handlerVars, Channels
  <1>4. CASE Receive
    BY <1>1, <1>4 DEF Receive, Channels
  <1>5. CASE Sent
    BY <1>1, <1>5 DEF Sent, Become, Channels
  <1>6. CASE Turns
    BY <1>1, <1>6 DEF Turns, Channels
  <1>7. CASE UNCHANGED <<delivered, handlerVars, drained>>
    BY <1>1, <1>7 DEF handlerVars, Channels
  <1> QED  BY <1>2, <1>3, <1>4, <1>5, <1>6, <1>7, Steps
           DEF SendFrame, RestArrives, ReadHead, Read, CloseNormally, DeliverFails, ReadFails, vars

\* All types are kept.
LEMMA ShapesKept ==
  ASSUME Shapes, [Next]_vars
  PROVE  Shapes'
  <1>1. plan' \in Plans /\ Reading' /\ Parts' /\ Channels'
    BY SamePlan, ReadingKept, PartsKept, ChannelsKept DEF Shapes
  <1>2. wrote' = wrote \/ \E x \in Written : wrote' = Append(wrote, x)
    <2>1. \A n \in Nat : /\ [op |-> "text", id |-> n] \in Written
                         /\ [op |-> "pong", id |-> n] \in Written
                         /\ [op |-> "close", id |-> n] \in Written
      BY DEF Written
    <2>2. MaxFrames \in Nat /\ drained + 1 \in Nat
      BY PlanTypes DEF Shapes, Channels
    <2>3. CASE \E id \in 0..MaxFrames, f \in Frames : Read(id, f)
      <3>1. PICK id \in 0..MaxFrames, f \in Frames : Handled(id, f)
        BY <2>3 DEF Read
      <3>2. \/ wrote' = wrote \/ wrote' = Append(wrote, [op |-> "close", id |-> 0])
            \/ wrote' = Append(wrote, [op |-> "pong", id |-> id])
        BY <3>1 DEF Handled, Ends, CloseFrame, Completes, Lengthens, Pongs, Passes
      <3>3. id \in Nat
        BY <2>2
      <3> QED  BY <2>1, <3>2, <3>3
    <2>4. CASE WriteMessage \/ CloseNormally
      BY <2>1, <2>2, <2>4 DEF WriteMessage, CloseNormally, CloseWith, Write
    <2> QED  BY <2>3, <2>4, Steps
             DEF SendFrame, RestArrives, ReadHead, Deliver, DeliverFails, ReadFails, Receive,
                 Sent, Become, Turns, vars
  <1>3. wrote' \in Seq(Written)
    BY <1>2 DEF Shapes
  <1> QED  BY <1>1, <1>3 DEF Shapes

-----------------------------------------------------------------------------
(* Sizes. *)

\* A message is given up before it gets too large.
LEMMA SizesKept ==
  ASSUME Shapes, Sizes, [Next]_vars
  PROVE  Sizes'
  <1>1. /\ fragments \in Seq(Piece) /\ handing \in Seq(Piece) /\ delivered \in Seq(Seq(Piece))
        /\ \A x \in Piece : x.size \in Nat
        /\ MaxMessage \in Nat /\ Frames \subseteq Frame
    BY PlanTypes DEF Shapes, Parts, Channels
  <1>2. CASE \E id \in 0..MaxFrames, f \in Frames : Read(id, f)
    <2>1. PICK id \in 0..MaxFrames, f \in Frames : Read(id, f)
      BY <1>2
    <2>2. Payload(id, f) \in Piece /\ Payload(id, f).size = f.size
      BY <1>1 DEF Payload, Piece, Frame
    <2>3. /\ SizeOf(<<>>) = 0
          /\ SizeOf(Append(fragments, Payload(id, f))) = SizeOf(fragments) + f.size
      BY <1>1, <2>2, SizeOfAppend
    <2>4. phase = "select" /\ Handled(id, f) /\ delivered' = delivered
      BY <2>1 DEF Read
    <2>5. MessageBounded'
      BY <2>4 DEF Sizes, MessageBounded
    <2>6. CASE Ends
      BY <2>5, <2>6 DEF Ends, partVars, Sizes
    <2>7. CASE Completes(id, f)
      BY <1>1, <2>3, <2>5, <2>7 DEF Completes, Carries, Sizes
    <2>8. CASE Lengthens(id, f)
      BY <2>3, <2>4, <2>5, <2>8 DEF Lengthens, Carries, loopVars, Sizes
    <2>9. CASE Pongs(id, f) \/ Passes(f)
      BY <2>5, <2>9 DEF Pongs, Passes, partVars, loopVars, Sizes
    <2> QED  BY <2>4, <2>6, <2>7, <2>8, <2>9 DEF Handled
  <1>3. CASE Deliver
    <2>1. /\ Len(delivered') = Len(delivered) + 1
          /\ \A i \in 1..Len(delivered) : delivered'[i] = delivered[i]
          /\ delivered'[Len(delivered) + 1] = handing
          /\ Len(delivered) \in Nat
      BY <1>1, <1>3, Appended DEF Deliver
    <2>2. SizeOf(handing) <= MaxMessage /\ \A i \in 1..Len(delivered) : SizeOf(delivered[i]) <= MaxMessage
      BY <1>3 DEF Deliver, Sizes, MessageBounded
    <2>3. MessageBounded'
      <3> SUFFICES ASSUME NEW i \in 1..Len(delivered') PROVE SizeOf(delivered'[i]) <= MaxMessage
        BY DEF MessageBounded, SizeOf
      <3>1. CASE i \in 1..Len(delivered)
        BY <2>1, <2>2, <3>1
      <3>2. CASE i = Len(delivered) + 1
        BY <2>1, <2>2, <3>2
      <3> QED  BY <2>1, <3>1, <3>2
    <2> QED  BY <1>3, <2>3 DEF Deliver, partVars, Sizes
  <1>4. CASE CloseNormally \/ DeliverFails \/ ReadFails
    BY <1>4 DEF CloseNormally, CloseWith, DeliverFails, ReadFails, EndWith, partVars, Sizes,
                MessageBounded
  <1>5. CASE UNCHANGED <<partVars, loopVars, handing, delivered>>
    BY <1>5 DEF partVars, loopVars, Sizes, MessageBounded
  <1> QED  BY <1>2, <1>3, <1>4, <1>5, Steps
           DEF SendFrame, RestArrives, ReadHead, WriteMessage, Receive, Sent, Become, Turns, vars

-----------------------------------------------------------------------------
(* Messages. *)

\* The loop has read no more frames than were sent.
LEMMA WholeBound ==
  ASSUME Shapes
  PROVE  /\ Whole \in 0..Len(script) /\ Len(script) \in Nat
         /\ Reassembled(script)[Whole] \in Made
         /\ DeliveredIds = AllIds(delivered) /\ DeliveredIds \in Seq(Seq(Nat))
         /\ Messages(script) \in Seq(Seq(Nat))
  <1>1. Len(script) \in Nat /\ pos - held \in Nat /\ pos - held <= 2 * Len(script)
    BY DEF Shapes, Reading
  <1>2. Whole \in 0..Len(script)
    BY <1>1 DEF Whole
  <1>3. Reassembled(script) \in [0..Len(script) -> Made]
    BY <1>1, ReassembledIs DEF Joins
  <1>4. DeliveredIds = AllIds(delivered)
    BY DEF DeliveredIds, AllIds
  <1>5. AllIds(delivered) \in Seq(Seq(Nat))
    <2>1. \A x \in Piece : x.id \in Nat
      BY PlanTypes DEF Shapes
    <2>2. delivered \in Seq(Seq(Piece)) /\ <<>> \in Seq(Piece)
      BY DEF Shapes, Channels
    <2> QED  BY <2>1, <2>2, AllIdsAppend
  <1>6. Messages(script) \in Seq(Seq(Nat))
    <2>1. Reassembled(script)[Len(script)] \in Made
      BY <1>1, <1>3
    <2> QED  BY <2>1 DEF Messages, Made
  <1> QED  BY <1>1, <1>2, <1>3, <1>4, <1>5, <1>6

\* A whole frame that is read in its place is handled as the reference does.
LEMMA ReadAssembles ==
  ASSUME Shapes, Assembles, ~cut, NEW id \in 0..MaxFrames, NEW f \in Frames, Read(id, f)
  PROVE  Assembles'
  <1>1. /\ Aligned /\ id = Whole + 1 /\ id \in 1..Len(script) /\ f = script[id]
        /\ pos' = pos - held + 2 /\ held' = 0
        /\ phase = "select" /\ script' = script /\ delivered' = delivered
        /\ Handled(id, f)
    BY DEF Read, Shapes, Reading, clientVars
  <1>2. pos - held \in Nat /\ Len(script) \in Nat
    BY DEF Shapes, Reading
  <1>3. Whole' = id /\ id - 1 = Whole /\ Whole \in Nat
    <2>1. (pos' - held') \div 2 = (pos - held + 2) \div 2
      BY <1>1, <1>2
    <2>2. (pos - held + 2) \div 2 = (pos - held) \div 2 + 1 /\ (pos - held) \div 2 \in Nat
      BY <1>1, <1>2, Halves DEF Aligned
    <2> QED  BY <1>1, <2>1, <2>2 DEF Whole
  <1> DEFINE before == Reassembled(script)[Whole]
             after  == Reassembled(script)[id]
  <1>4. after = Joined(before, id, f)
    <2>1. Joins(Reassembled(script), script)
      BY <1>2, ReassembledIs
    <2>2. Reassembled(script)[id] = Joined(Reassembled(script)[id - 1], id, script[id])
      BY <1>1, <2>1 DEF Joins
    <2> QED  BY <1>1, <1>3, <2>2
  <1>5. /\ fragmentOp # "none" => before.open = Ids(fragments)
        /\ before.done = DeliveredIds
    BY <1>1 DEF Assembles
  <1>6. DeliveredIds' = DeliveredIds
    BY <1>1 DEF DeliveredIds, Ids
  <1> HIDE DEF before, after
  <1> SUFFICES ASSUME phase' # "ended"
               PROVE  /\ fragmentOp' # "none" => after.open = Ids(fragments')
                      /\ after.done = IF phase' = "deliver" THEN Append(DeliveredIds, Ids(handing'))
                                      ELSE DeliveredIds
    BY <1>1, <1>3, <1>6 DEF Assembles, after, Ids
  <1>7. CASE Pongs(id, f) \/ Passes(f)
    BY <1>1, <1>4, <1>5, <1>7 DEF Pongs, Passes, Joined, partVars, loopVars
  <1> DEFINE numbers == Ids(Append(fragments, Payload(id, f)))
  <1>8. ASSUME Carries(f)
        PROVE  /\ f.fin => after.done = Append(DeliveredIds, numbers)
               /\ ~f.fin => after.open = numbers /\ after.done = DeliveredIds
    <2>1. Payload(id, f) \in Piece /\ Payload(id, f).id = id /\ fragments \in Seq(Piece)
          /\ \A x \in Piece : x.id \in Nat
      BY PlanTypes DEF Payload, Piece, Frame, Shapes, Parts
    <2>2. numbers = Append(Ids(fragments), id) /\ Ids(<<>>) = <<>>
      BY <2>1, IdsAppend
    <2> HIDE DEF numbers
    <2>3. CASE f.op = "continuation"
      <3>1. numbers = Append(before.open, id)
        BY <1>5, <1>8, <2>2, <2>3 DEF Carries
      <3> QED  BY <1>4, <1>5, <2>3, <3>1 DEF Joined
    <2>4. CASE f.op # "continuation"
      <3>1. fragments = <<>>
        BY <1>8, <2>4 DEF Carries, Shapes, Parts
      <3>2. numbers = <<id>>
        <4>1. id \in Nat /\ Append(<<>>, id) = <<id>>
          BY <1>1, <1>3
        <4> QED  BY <2>2, <3>1, <4>1
      <3> QED  BY <1>4, <1>5, <1>8, <2>4, <3>2 DEF Joined, Carries
    <2> QED  BY <2>3, <2>4
  <1> HIDE DEF numbers
  <1>9. CASE Completes(id, f)
    <2>1. handing' = Append(fragments, Payload(id, f)) /\ phase' = "deliver" /\ fragmentOp' = "none"
          /\ Carries(f) /\ f.fin
      BY <1>9 DEF Completes
    <2> QED  BY <1>8, <2>1 DEF numbers
  <1>10. CASE Lengthens(id, f)
    <2>1. fragments' = Append(fragments, Payload(id, f)) /\ phase' = phase /\ Carries(f) /\ ~f.fin
      BY <1>10 DEF Lengthens, loopVars
    <2> QED  BY <1>1, <1>8, <2>1 DEF numbers
  <1> QED  BY <1>1, <1>7, <1>9, <1>10 DEF Handled, Ends

\* No other step touches the message in the making, unless it cuts a read.
LEMMA AssemblesKept ==
  ASSUME Shapes, Assembles, [Next]_vars
  PROVE  Assembles'
  <1> SUFFICES ASSUME ~cut', phase' # "ended" PROVE Assembles'
    BY DEF Assembles
  <1>1. ASSUME NEW id \in 0..MaxFrames, NEW f \in Frames, Read(id, f) PROVE Assembles'
    <2>1. ~cut
      BY <1>1 DEF Read
    <2> QED  BY <1>1, <2>1, ReadAssembles
  <1>2. ASSUME script' = script, Whole' = Whole, cut' = cut,
               UNCHANGED <<partVars, loopVars, handing, delivered>>
        PROVE  Assembles'
    BY <1>2 DEF Assembles, partVars, loopVars, DeliveredIds, Ids
  <1>3. CASE SendFrame
    <2>1. PICK f \in Frames : script' = Append(script, f)
      BY <1>3 DEF SendFrame
    <2>2. script \in Seq(Frames) /\ Whole \in 0..Len(script)
      BY WholeBound DEF Shapes, Reading
    <2>3. Reassembled(script')[Whole] = Reassembled(script)[Whole]
      BY <2>1, <2>2, ReassembledAppend
    <2>4. Whole' = Whole /\ cut' = cut /\ UNCHANGED <<partVars, loopVars, handing, delivered>>
      BY <1>3 DEF SendFrame, readVars, Whole
    <2> QED  BY <2>3, <2>4 DEF Assembles, partVars, loopVars, DeliveredIds, Ids
  <1>4. CASE ReadHead
    <2>1. pos' - held' = pos - held
      BY <1>4 DEF ReadHead, Shapes, Reading
    <2> QED  BY <1>2, <1>4, <2>1 DEF ReadHead, clientVars, Whole
  <1>5. CASE WriteMessage
    <2>1. held' = 0 /\ cut' = (cut \/ held > 0) /\ pos' = pos
      BY <1>5 DEF WriteMessage, DropRead
    <2>2. ~cut /\ ~(held > 0)
      BY <2>1
    <2>3. held = 0
      BY <2>2 DEF Shapes, Reading
    <2>4. cut' = cut
      <3>1. cut = FALSE /\ (held > 0) = FALSE
        BY <2>2 DEF Shapes, Reading
      <3> QED  BY <2>1, <3>1
    <2> QED  BY <1>2, <1>5, <2>1, <2>3, <2>4 DEF WriteMessage, clientVars, Whole
  <1>6. CASE CloseNormally \/ DeliverFails \/ ReadFails
    BY <1>6 DEF CloseNormally, CloseWith, DeliverFails, ReadFails, EndWith
  <1>7. CASE Deliver
    <2>1. /\ phase = "deliver" /\ phase' = "select" /\ delivered' = Append(delivered, handing)
          /\ UNCHANGED <<clientVars, readVars, partVars>>
      BY <1>7 DEF Deliver
    <2>2. ~cut /\ Whole' = Whole /\ script' = script /\ UNCHANGED partVars
      BY <2>1 DEF readVars, clientVars, Whole
    <2>3. DeliveredIds' = Append(DeliveredIds, Ids(handing))
      <3>1. \A x \in Piece : x.id \in Nat
        BY PlanTypes DEF Shapes
      <3>2. delivered \in Seq(Seq(Piece)) /\ handing \in Seq(Piece)
        BY DEF Shapes, Channels, Parts
      <3>3. AllIds(Append(delivered, handing)) = Append(AllIds(delivered), Ids(handing))
        BY <3>1, <3>2, AllIdsAppend
      <3> QED  BY <2>1, <3>3 DEF DeliveredIds, AllIds, Ids
    <2> QED  BY <2>1, <2>2, <2>3 DEF Assembles, partVars, Ids
  <1>8. CASE RestArrives \/ Receive \/ Sent \/ Turns \/ UNCHANGED vars
    <2>1. script' = script /\ UNCHANGED <<readVars, partVars, loopVars, handing, delivered>>
      BY <1>8 DEF RestArrives, Receive, Sent, Become, Turns, vars, clientVars
    <2> QED  BY <1>2, <2>1 DEF readVars, Whole
  <1> QED  BY <1>1, <1>3, <1>4, <1>5, <1>6, <1>7, <1>8, Steps

\* The messages of the first frames begin those of all of them.
LEMMA BeginsMessages ==
  ASSUME NEW frames, Len(frames) \in Nat, NEW k \in 0..Len(frames)
  PROVE  /\ Agree(Reassembled(frames)[k].done, Messages(frames))
         /\ Reassembled(frames)[k].done \in Seq(Seq(Nat)) /\ Messages(frames) \in Seq(Seq(Nat))
  <1>1. Len(frames) \in k..Len(frames)
    OBVIOUS
  <1>2. Agree(Reassembled(frames)[k].done, Reassembled(frames)[Len(frames)].done)
    BY <1>1, DoneGrows
  <1>3. Reassembled(frames)[k] \in Made /\ Reassembled(frames)[Len(frames)] \in Made
    BY <1>1, ReassembledIs DEF Joins
  <1> QED  BY <1>2, <1>3 DEF Messages, Made

\* What is delivered began the messages of the client, and does so when it sends more.
LEMMA DeliveredKept ==
  ASSUME Shapes, Assembles, DeliveredUnlessCut, [Next]_vars
  PROVE  DeliveredUnlessCut'
  <1>1. /\ Whole \in 0..Len(script) /\ Len(script) \in Nat
        /\ DeliveredIds = AllIds(delivered) /\ DeliveredIds \in Seq(Seq(Nat))
        /\ Messages(script) \in Seq(Seq(Nat))
    BY WholeBound
  <1>2. CASE SendFrame
    <2>1. PICK f \in Frames : script' = Append(script, f)
      BY <1>2 DEF SendFrame
    <2>2. cut' = cut /\ DeliveredIds' = DeliveredIds
      BY <1>2 DEF SendFrame, readVars, DeliveredIds, Ids
    <2>3. script \in Seq(Frames) /\ Len(script) \in 0..Len(script)
          /\ Len(script') \in Nat /\ Len(script) \in 0..Len(script')
      BY <1>1, <2>1, Appended DEF Shapes, Reading
    <2>4. Reassembled(script')[Len(script)].done = Messages(script)
      BY <2>1, <2>3, ReassembledAppend DEF Messages
    <2>5. Agree(Messages(script), Messages(script')) /\ Messages(script') \in Seq(Seq(Nat))
      BY <2>3, <2>4, BeginsMessages
    <2>6. ASSUME ~cut PROVE IsPrefix(DeliveredIds, Messages(script'))
      <3>1. Agree(DeliveredIds, Messages(script))
        BY <1>1, <2>6, AgreePrefix DEF DeliveredUnlessCut
      <3>2. /\ Len(DeliveredIds) \in Nat /\ Len(Messages(script)) \in Nat
            /\ Len(Messages(script')) \in Nat
        BY <1>1, <2>5
      <3>3. Agree(DeliveredIds, Messages(script'))
        BY <2>5, <3>1, <3>2, AgreeTransitive
      <3> QED  BY <1>1, <2>5, <3>3, AgreePrefix
    <2>7. Messages(script)' = Messages(script')
      BY DEF Messages, Reassembled
    <2> QED  BY <2>2, <2>6, <2>7 DEF DeliveredUnlessCut
  <1>3. CASE Deliver
    <2>1. /\ phase = "deliver" /\ phase' = "select" /\ script' = script /\ cut' = cut
          /\ Whole' = Whole
      BY <1>3 DEF Deliver, clientVars, readVars, Whole
    <2>2. ASSUME ~cut PROVE IsPrefix(DeliveredIds', Messages(script))
      <3>1. Assembles'
        BY AssemblesKept
      <3>2. Reassembled(script)[Whole].done = DeliveredIds'
        BY <2>1, <2>2, <3>1 DEF Assembles
      <3>3. /\ Agree(DeliveredIds', Messages(script)) /\ DeliveredIds' \in Seq(Seq(Nat))
        BY <1>1, <3>2, BeginsMessages
      <3> QED  BY <1>1, <3>3, AgreePrefix
    <2> QED  BY <2>1, <2>2 DEF DeliveredUnlessCut
  <1>4. ASSUME script' = script, delivered' = delivered, cut' = cut \/ cut' = (cut \/ held > 0)
        PROVE  DeliveredUnlessCut'
    <2>1. ~cut' => ~cut
      BY <1>4
    <2> QED  BY <1>4, <2>1 DEF DeliveredUnlessCut, DeliveredIds
  <1> QED  BY <1>2, <1>3, <1>4, Steps
           DEF RestArrives, ReadHead, Read, WriteMessage, CloseNormally, DropRead, DeliverFails,
               ReadFails, Receive, Sent, Become, Turns, vars, clientVars, readVars

-----------------------------------------------------------------------------
(* What is written. *)

\* What a frame more that is written makes of the places and the numbers.
LEMMA Wrote ==
  ASSUME wrote \in Seq(Written), NEW x \in Written, wrote' = Append(wrote, x), NEW op
  PROVE  /\ Numbers(op) \subseteq Nat
         /\ Numbers(op)' = Numbers(op) \cup (IF x.op = op THEN {x.id} ELSE {})
         /\ InOrder(op) /\ (x.op = op => \A n \in Numbers(op) : n < x.id) => InOrder(op)'
         /\ Places(op)' \subseteq Places(op) \cup {Len(wrote')}
         /\ Len(wrote') > 0 /\ wrote'[Len(wrote')] = x
  <1>1. /\ wrote' \in Seq(Written) /\ Len(wrote) \in Nat /\ Len(wrote') = Len(wrote) + 1
        /\ \A i \in 1..Len(wrote) : wrote'[i] = wrote[i]
        /\ wrote'[Len(wrote) + 1] = x
    BY Appended
  <1>2. Places(op)' = {i \in 1..Len(wrote') : wrote'[i].op = op}
    BY DEF Places
  <1>3. Places(op)' = Places(op) \cup (IF x.op = op THEN {Len(wrote) + 1} ELSE {})
    BY <1>1, <1>2 DEF Places
  <1>4. \A i \in Places(op) : i \in 1..Len(wrote) /\ wrote'[i] = wrote[i]
    BY <1>1 DEF Places
  <1>5. Numbers(op)' = {wrote'[i].id : i \in Places(op)'}
    BY DEF Numbers
  <1>6. Numbers(op)' = Numbers(op) \cup (IF x.op = op THEN {x.id} ELSE {})
    BY <1>1, <1>3, <1>4, <1>5 DEF Numbers
  <1>7. ASSUME InOrder(op), x.op = op => \A n \in Numbers(op) : n < x.id
        PROVE  InOrder(op)'
    <2> SUFFICES ASSUME NEW i \in Places(op)', NEW j \in Places(op)', i < j
                 PROVE  wrote'[i].id < wrote'[j].id
      BY DEF InOrder
    <2>1. i \in Places(op)
      BY <1>1, <1>3, <1>4
    <2>2. CASE j \in Places(op)
      BY <1>4, <1>7, <2>1, <2>2 DEF InOrder
    <2>3. CASE j = Len(wrote) + 1 /\ x.op = op
      BY <1>1, <1>4, <1>7, <2>1, <2>3 DEF Numbers
    <2> QED  BY <1>3, <2>2, <2>3
  <1>8. Numbers(op) \subseteq Nat
    <2>1. \A i \in Places(op) : wrote[i] \in Written
      BY DEF Places
    <2>2. \A i \in Places(op) : wrote[i].id \in Nat
      BY <2>1 DEF Written
    <2> QED  BY <2>2 DEF Numbers
  <1> QED  BY <1>1, <1>3, <1>6, <1>7, <1>8

\* Where nothing is written, nothing of it changes.
LEMMA NothingWritten ==
  ASSUME wrote' = wrote, NEW op
  PROVE  Places(op)' = Places(op) /\ Numbers(op)' = Numbers(op) /\ (InOrder(op)' <=> InOrder(op))
  BY DEF Places, Numbers, InOrder

\* The frames that the loop writes.
LEMMA WrittenFrames ==
  \A n \in Nat : /\ [op |-> "text", id |-> n] \in Written
                 /\ [op |-> "pong", id |-> n] \in Written
                 /\ CloseFrame \in Written
  BY DEF Written, CloseFrame

\* Each ping that is read in its place is answered, and nothing else is.
LEMMA PongsKept ==
  ASSUME Shapes, Writes, [Next]_vars
  PROVE  PongsMatchPings'
  <1> DEFINE pings == {i \in 1..Whole : script[i].op = "ping"}
  <1> SUFFICES ASSUME ending' = "none", ~cut'
               PROVE  Numbers("pong")' = pings' /\ InOrder("pong")'
    BY DEF PongsMatchPings, Whole
  <1>1. wrote \in Seq(Written) /\ Whole \in 0..Len(script) /\ Len(script) \in Nat
        /\ script \in Seq(Frames)
    BY WholeBound DEF Shapes, Reading
  <1>2. ASSUME ending = "none", ~cut
        PROVE  Numbers("pong") = pings /\ InOrder("pong")
    BY <1>2 DEF Writes, WritesWhatItOwes, PongsMatchPings, Whole
  <1>3. ASSUME ending = "none", ~cut, pings' = pings,
               \/ wrote' = wrote
               \/ \E x \in Written : wrote' = Append(wrote, x) /\ x.op # "pong"
        PROVE  Numbers("pong")' = pings' /\ InOrder("pong")'
    <2> HIDE DEF pings
    <2>1. CASE wrote' = wrote
      BY <1>2, <1>3, <2>1, NothingWritten
    <2>2. CASE \E x \in Written : wrote' = Append(wrote, x) /\ x.op # "pong"
      <3>1. PICK x \in Written : wrote' = Append(wrote, x) /\ x.op # "pong"
        BY <2>2
      <3>2. Numbers("pong")' = Numbers("pong") /\ (InOrder("pong") => InOrder("pong")')
        <4>1. /\ Numbers("pong")' = Numbers("pong") \cup (IF x.op = "pong" THEN {x.id} ELSE {})
              /\ (InOrder("pong") /\ (x.op = "pong" => \A n \in Numbers("pong") : n < x.id)
                   => InOrder("pong")')
          BY <1>1, <3>1, Wrote
        <4> QED  BY <3>1, <4>1
      <3> QED  BY <1>2, <1>3, <3>2
    <2> QED  BY <1>3, <2>1, <2>2
  <1>4. CASE SendFrame
    <2>1. PICK f \in Frames : script' = Append(script, f)
      BY <1>4 DEF SendFrame
    <2>2. \A i \in 1..Whole : script'[i] = script[i]
      BY <1>1, <2>1, Appended
    <2>3. Whole' = Whole /\ cut' = cut /\ ending' = ending /\ wrote' = wrote
      BY <1>4 DEF SendFrame, readVars, loopVars, Whole
    <2>4. pings' = {i \in 1..Whole : script'[i].op = "ping"}
      BY <2>3
    <2>5. pings' = pings
      BY <2>2, <2>4
    <2> QED  BY <1>3, <2>3, <2>5
  <1>5. ASSUME NEW id \in 0..MaxFrames, NEW f \in Frames, Read(id, f)
        PROVE  Numbers("pong")' = pings' /\ InOrder("pong")'
    <2>1. ~cut /\ script' = script /\ Handled(id, f)
      BY <1>5 DEF Read, clientVars
    <2>2. /\ Aligned /\ id = Whole + 1 /\ id \in 1..Len(script) /\ f = script[id]
          /\ pos' = pos - held + 2 /\ held' = 0
      BY <1>5, <2>1 DEF Read, Shapes, Reading
    <2>3. Whole' = id
      <3>1. pos - held \in Nat
        BY DEF Shapes, Reading
      <3>2. (pos' - held') \div 2 = (pos - held + 2) \div 2
        BY <2>2, <3>1
      <3>3. (pos - held + 2) \div 2 = (pos - held) \div 2 + 1
        BY <2>2, <3>1, Halves DEF Aligned
      <3> QED  BY <2>2, <3>2, <3>3 DEF Whole
    <2>4. pings' = pings \cup (IF f.op = "ping" THEN {id} ELSE {})
      <3>1. pings' = {i \in 1..id : script[i].op = "ping"}
        BY <2>1, <2>3
      <3> QED  BY <1>1, <2>2, <3>1
    <2>5. phase = "select" /\ ending = "none"
      BY <1>5 DEF Read, Shapes, Parts
    <2>6. CASE Pongs(id, f)
      <3> DEFINE x == [op |-> "pong", id |-> id]
      <3>1. x \in Written /\ x.op = "pong" /\ x.id = id /\ wrote' = Append(wrote, x) /\ f.op = "ping"
        <4>1. id \in Nat
          BY <1>1, <2>2
        <4> QED  BY <2>6, <4>1, WrittenFrames DEF Pongs
      <3>2. \A n \in Numbers("pong") : n < id
        BY <1>1, <1>2, <2>1, <2>2, <2>5
      <3> HIDE DEF x
      <3>3. Numbers("pong")' = Numbers("pong") \cup {id} /\ InOrder("pong")'
        BY <1>1, <1>2, <2>1, <2>5, <3>1, <3>2, Wrote
      <3> HIDE DEF pings
      <3> QED  BY <1>2, <2>1, <2>4, <2>5, <3>1, <3>3
    <2>7. CASE Completes(id, f) \/ Lengthens(id, f) \/ Passes(f)
      <3>1. wrote' = wrote /\ f.op # "ping"
        BY <2>7 DEF Completes, Lengthens, Passes, Carries
      <3>2. pings' = pings
        BY <2>4, <3>1
      <3> QED  BY <1>3, <2>1, <2>5, <3>1, <3>2
    <2>8. CASE Ends
      BY <2>8 DEF Ends, Endings
    <2> QED  BY <2>1, <2>6, <2>7, <2>8 DEF Handled
  <1>6. CASE WriteMessage
    <2>1. held' = 0 /\ cut' = (cut \/ held > 0) /\ pos' = pos /\ script' = script /\ ending' = ending
          /\ wrote' = Append(wrote, [op |-> "text", id |-> drained + 1])
      BY <1>6 DEF WriteMessage, DropRead, clientVars, loopVars, Write
    <2>2. ~cut /\ ~(held > 0)
      BY <2>1
    <2>3. held = 0 /\ drained + 1 \in Nat
      BY <2>2 DEF Shapes, Reading, Channels
    <2>4. pings' = pings
      BY <2>1, <2>3 DEF Whole
    <2>5. [op |-> "text", id |-> drained + 1] \in Written
      BY <2>3, WrittenFrames
    <2> HIDE DEF pings
    <2> QED  BY <1>3, <2>1, <2>2, <2>4, <2>5
  <1>7. CASE CloseNormally \/ DeliverFails \/ ReadFails
    BY <1>7 DEF CloseNormally, CloseWith, DeliverFails, ReadFails, EndWith
  <1>8. CASE ReadHead
    <2>1. pos' - held' = pos - held
      BY <1>8 DEF ReadHead, Shapes, Reading
    <2>2. script' = script /\ cut' = cut /\ ending' = ending /\ wrote' = wrote
      BY <1>8 DEF ReadHead, clientVars, loopVars
    <2>3. pings' = pings
      BY <2>1, <2>2 DEF Whole
    <2> QED  BY <1>3, <2>2, <2>3
  <1>9. CASE RestArrives \/ Deliver \/ Receive \/ Sent \/ Turns \/ UNCHANGED vars
    <2>1. script' = script /\ UNCHANGED readVars /\ ending' = ending /\ wrote' = wrote
      BY <1>9 DEF RestArrives, Deliver, Receive, Sent, Become, Turns, vars, clientVars, loopVars
    <2>2. pings' = pings /\ cut' = cut
      BY <2>1 DEF readVars, Whole
    <2> QED  BY <1>3, <2>1, <2>2
  <1> QED  BY <1>4, <1>5, <1>6, <1>7, <1>8, <1>9, Steps

\* The messages of the handler, its end, and the close frame.
Rest ==
    /\ Numbers("text") = 1..drained /\ InOrder("text")
    /\ CloseIsLast
    /\ ending = "normal" =>
          /\ handler = "unregistered" /\ drained = accepted
          /\ Len(wrote) > 0 /\ wrote[Len(wrote)].op = "close"

\* They are the other part of Writes.
LEMMA RestIs == Writes <=> PongsMatchPings /\ Rest
  BY DEF Writes, WritesWhatItOwes, NormalCloseFlushes, Rest

\* Messages are written one by one, and a close frame is the last.
LEMMA RestKept ==
  ASSUME Shapes, Rest, [Next]_vars
  PROVE  Rest'
  <1>1. /\ wrote \in Seq(Written) /\ drained \in Nat
        /\ ending = "normal" => phase = "ended" /\ handler = "unregistered"
    BY DEF Shapes, Parts, Channels, Rest
  <1>2. CloseIsLast <=> \A i \in Places("close") : i = Len(wrote) /\ phase = "ended"
    BY DEF CloseIsLast, Places
  <1>3. CloseIsLast' <=> \A i \in Places("close")' : i = Len(wrote') /\ phase' = "ended"
    BY DEF CloseIsLast, Places
  <1>4. ASSUME wrote' = wrote, drained' = drained, phase = "ended" => phase' = "ended",
               ending' = "normal" => ending = "normal" /\ UNCHANGED <<handler, accepted>>
        PROVE  Rest'
    <2>1. Numbers("text")' = 1..drained' /\ InOrder("text")'
      BY <1>4, NothingWritten DEF Rest
    <2>2. CloseIsLast'
      BY <1>2, <1>3, <1>4, NothingWritten DEF Rest
    <2> QED  BY <1>4, <2>1, <2>2 DEF Rest
  <1>5. ASSUME wrote' = Append(wrote, CloseFrame), drained' = drained, phase # "ended",
               phase' = "ended",
               ending' = "normal" => handler' = "unregistered" /\ drained' = accepted'
        PROVE  Rest'
    <2>1. CloseFrame \in Written /\ CloseFrame.op = "close"
      BY WrittenFrames DEF CloseFrame
    <2>2. /\ Numbers("text")' = Numbers("text") /\ (InOrder("text") => InOrder("text")')
          /\ Places("close")' \subseteq Places("close") \cup {Len(wrote')}
          /\ Len(wrote') > 0 /\ wrote'[Len(wrote')] = CloseFrame
      <3>1. CloseFrame.op # "text"
        BY <2>1
      <3> DEFINE x == CloseFrame
      <3> HIDE DEF x
      <3>2. x \in Written /\ wrote' = Append(wrote, x) /\ x.op # "text" /\ x = CloseFrame
        BY <1>5, <2>1, <3>1 DEF x
      <3>3. /\ Numbers("text")' = Numbers("text") \cup (IF x.op = "text" THEN {x.id} ELSE {})
            /\ (InOrder("text") /\ (x.op = "text" => \A n \in Numbers("text") : n < x.id)
                   => InOrder("text")')
            /\ Len(wrote') > 0 /\ wrote'[Len(wrote')] = x
        BY <1>1, <3>2, Wrote
      <3>4. Places("close")' \subseteq Places("close") \cup {Len(wrote')}
        BY <1>1, <3>2, Wrote
      <3> QED  BY <3>2, <3>3, <3>4
    <2>3. CloseIsLast'
      BY <1>2, <1>3, <1>5, <2>2 DEF Rest
    <2> QED  BY <1>5, <2>1, <2>2, <2>3 DEF Rest
  <1>6. ASSUME NEW x \in Written, wrote' = Append(wrote, x), x.op # "close", phase # "ended",
               ending' # "normal",
               IF x.op = "text" THEN x.id = drained + 1 /\ drained' = drained + 1
                                ELSE drained' = drained
        PROVE  Rest'
    <2>1. /\ Numbers("text")' = Numbers("text") \cup (IF x.op = "text" THEN {x.id} ELSE {})
          /\ Places("close") = {}
          /\ InOrder("text") /\ (x.op = "text" => \A n \in Numbers("text") : n < x.id) => InOrder("text")'
      BY <1>1, <1>2, <1>6, Wrote DEF Rest
    <2>2. Numbers("text") = 1..drained /\ InOrder("text")
      BY DEF Rest
    <2>3. Numbers("text")' = 1..drained'
      <3>1. (1..drained) \cup {drained + 1} = 1..drained + 1
        BY <1>1
      <3>2. CASE x.op = "text"
        BY <1>6, <2>1, <2>2, <3>1, <3>2
      <3>3. CASE x.op # "text"
        BY <1>6, <2>1, <2>2, <3>3
      <3> QED  BY <3>2, <3>3
    <2>4. InOrder("text")'
      BY <1>1, <1>6, <2>1, <2>2
    <2>5. Places("close")' = {}
      <3>1. \A i \in Places("close")' : i = Len(wrote') /\ wrote'[i].op = "close"
        BY <1>1, <1>6, <2>1, Wrote DEF Places
      <3>2. wrote'[Len(wrote')] = x
        BY <1>1, <1>6, Wrote
      <3> QED  BY <1>6, <3>1, <3>2
    <2> QED  BY <1>3, <1>6, <2>3, <2>4, <2>5 DEF Rest
  <1>7. ASSUME NEW id \in 0..MaxFrames, NEW f \in Frames, Read(id, f)
        PROVE  Rest'
    <2>1. phase = "select" /\ drained' = drained /\ UNCHANGED handlerVars /\ Handled(id, f)
          /\ ending # "normal"
      BY <1>1, <1>7 DEF Read
    <2>2. id \in Nat
      BY PlanTypes DEF Shapes
    <2>3. CASE Ends
      BY <1>4, <1>5, <2>1, <2>3 DEF Ends
    <2>4. CASE Completes(id, f) \/ Lengthens(id, f) \/ Passes(f)
      BY <1>4, <2>1, <2>4 DEF Completes, Lengthens, Passes, loopVars
    <2>5. CASE Pongs(id, f)
      <3> DEFINE x == [op |-> "pong", id |-> id]
      <3>1. x \in Written /\ x.op = "pong" /\ wrote' = Append(wrote, x) /\ ending' = ending
        BY <2>2, <2>5, WrittenFrames DEF Pongs, loopVars
      <3> HIDE DEF x
      <3> QED  BY <1>6, <2>1, <3>1
    <2> QED  BY <2>1, <2>3, <2>4, <2>5 DEF Handled
  <1>8. CASE WriteMessage
    <2> DEFINE x == [op |-> "text", id |-> drained + 1]
    <2>1. x \in Written /\ x.op = "text" /\ x.id = drained + 1
      <3>1. drained + 1 \in Nat
        BY <1>1
      <3> QED  BY <3>1, WrittenFrames
    <2>2. wrote' = Append(wrote, x) /\ phase = "select" /\ ending' = ending /\ drained' = drained + 1
      BY <1>8 DEF WriteMessage, Write, loopVars
    <2> HIDE DEF x
    <2> QED  BY <1>1, <1>6, <2>1, <2>2
  <1>9. CASE CloseNormally
    <2>1. /\ wrote' = Append(wrote, CloseFrame) /\ phase = "select" /\ phase' = "ended"
          /\ drained' = drained /\ drained = accepted /\ handler = "unregistered"
          /\ UNCHANGED handlerVars
      BY <1>9 DEF CloseNormally, CloseWith, EndWith, Write, CloseFrame, OutgoingClosed
    <2> QED  BY <1>5, <2>1 DEF handlerVars
  <1>10. CASE DeliverFails \/ ReadFails
    <2>1. wrote' = wrote /\ drained' = drained /\ phase' = "ended" /\ ending' # "normal"
      BY <1>10 DEF DeliverFails, ReadFails, EndWith
    <2> QED  BY <1>4, <2>1
  <1>11. CASE SendFrame \/ RestArrives \/ ReadHead \/ Deliver \/ Receive \/ Sent \/ Turns \/ UNCHANGED vars
    <2>1. wrote' = wrote /\ drained' = drained /\ (phase = "ended" => phase' = "ended") /\ ending' = ending
      BY <1>11 DEF SendFrame, RestArrives, ReadHead, Deliver, Receive, Sent, Become, Turns, vars, loopVars
    <2>2. handler = "unregistered" => UNCHANGED <<handler, accepted>>
      BY <1>11 DEF SendFrame, RestArrives, ReadHead, Deliver, Receive, Sent, Become, Turns, vars, handlerVars
    <2> QED  BY <1>1, <1>4, <2>1, <2>2
  <1> QED  BY <1>7, <1>8, <1>9, <1>10, <1>11, Steps

-----------------------------------------------------------------------------
(* The invariant. *)

\* The invariant holds at the start.
LEMMA InitHolds == Init => IInv
  <1> SUFFICES ASSUME Init PROVE IInv
    OBVIOUS
  <1>1. plan \in Plans /\ MaxFrames \in Nat /\ MaxOut \in Nat /\ MaxMessage \in Nat
        /\ InCap \in Nat /\ OutCap \in Nat
    BY PlanTypes DEF Init
  <1>2. Shapes
    <2>1. Reading
      <3>1. script \in Seq(Frames) /\ Len(script) = 0
        BY DEF Init
      <3>2. arrived = 0 /\ pos = 0 /\ held = 0 /\ cut = FALSE
        BY DEF Init
      <3>3. Aligned
        BY <3>2 DEF Aligned
      <3>4. /\ arrived \in 0..2 * Len(script) /\ 2 * Len(script) <= arrived + 1
            /\ pos \in 0..arrived /\ held \in 0..1 /\ held <= pos
        BY <3>1, <3>2
      <3>5. Len(script) <= MaxFrames
        BY <1>1, <3>1
      <3>6. cut \in BOOLEAN
        BY <3>2
      <3> QED  BY <3>1, <3>3, <3>4, <3>5, <3>6 DEF Reading
    <2>2. Parts
      BY DEF Init, Parts
    <2>3. Channels
      BY <1>1 DEF Init, Channels
    <2> QED  BY <1>1, <2>1, <2>2, <2>3 DEF Init, Shapes
  <1>3. Sizes
    <2>1. SizeOf(<<>>) = 0
      <3>1. <<>> \in Seq({}) /\ Len(<<>>) = 0
        OBVIOUS
      <3> QED  BY <3>1, SizeOfIs DEF Totals
    <2> QED  BY <1>1, <2>1 DEF Init, Sizes, MessageBounded
  <1>4. Reassembled(<<>>)[0] = Nothing /\ Whole = 0
    <2>1. Len(<<>>) = 0
      OBVIOUS
    <2> QED  BY <2>1, ReassembledIs DEF Joins, Init, Whole
  <1>5. Assembles
    BY <1>4 DEF Init, Assembles, Nothing, DeliveredIds
  <1>6. DeliveredUnlessCut
    <2>1. DeliveredIds = <<>> /\ Messages(script) = <<>>
      BY <1>4 DEF Init, DeliveredIds, Messages, Nothing
    <2>2. <<>> \in Seq(Nat) /\ Agree(<<>>, <<>>)
      BY DEF Agree
    <2>3. IsPrefix(<<>>, <<>>)
      BY <2>2, AgreePrefix
    <2> QED  BY <2>1, <2>3 DEF DeliveredUnlessCut
  <1>7. \A op : Places(op) = {} /\ Numbers(op) = {} /\ InOrder(op)
    BY DEF Init, Places, Numbers, InOrder
  <1>8. PongsMatchPings
    BY <1>4, <1>7 DEF Init, PongsMatchPings, Whole
  <1>9. Rest
    BY <1>7 DEF Init, Rest, CloseIsLast
  <1> QED  BY <1>2, <1>3, <1>5, <1>6, <1>8, <1>9, RestIs DEF IInv

\* Every step keeps the invariant.
LEMMA NextKeeps == IInv /\ [Next]_vars => IInv'
  <1> SUFFICES ASSUME IInv, [Next]_vars PROVE IInv'
    OBVIOUS
  <1>1. Shapes' /\ Sizes' /\ Assembles' /\ DeliveredUnlessCut'
    BY ShapesKept, SizesKept, AssemblesKept, DeliveredKept DEF IInv
  <1>2. PongsMatchPings' /\ Rest'
    BY PongsKept, RestKept, RestIs DEF IInv
  <1>3. Writes'
    BY <1>2 DEF Writes, WritesWhatItOwes, NormalCloseFlushes, Rest
  <1> QED  BY <1>1, <1>3 DEF IInv

\* The inductive invariant of a connection: its counters, the message in the
\* making and what it has written agree with the frames it has read.
THEOREM Inductive == Spec => []IInv
  BY InitHolds, NextKeeps, PTL DEF Spec

\* Every state of websocket_loop (server.rs:845) is of the types of the model.
THEOREM TypeCorrect == Spec => []TypeOK
  <1>1. IInv => TypeOK
    BY TypesFollow DEF IInv
  <1> QED  BY <1>1, Inductive, PTL

\* Unless a read was cut in the middle of a frame (the select of
\* server.rs:866), the handler has received the messages of the client, whole
\* and in order, whatever stands between their frames.
THEOREM DeliversInOrder == Spec => []DeliveredUnlessCut
  <1>1. IInv => DeliveredUnlessCut
    BY DEF IInv
  <1> QED  BY <1>1, Inductive, PTL

\* The sum that is compared with max_frame_bytes (server.rs:896) bounds every
\* message, however many frames bring it.
THEOREM MessagesBounded == Spec => []MessageBounded
  <1>1. IInv => MessageBounded
    BY DEF IInv, Sizes
  <1> QED  BY <1>1, Inductive, PTL

\* Pongs answer the pings that were read, messages are written in order and
\* all of them before a normal close, and nothing behind a close frame
\* (server.rs:868, 924).
THEOREM WritesOwed == Spec => []WritesWhatItOwes
  <1>1. IInv => WritesWhatItOwes
    BY DEF IInv, Writes
  <1> QED  BY <1>1, Inductive, PTL
=============================================================================
