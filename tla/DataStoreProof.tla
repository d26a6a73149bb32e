--------------------------- MODULE DataStoreProof ---------------------------
(***************************************************************************)
(* Proofs about DataStore, for any finite set of callers, any operations   *)
(* on documents and any number of calls: that it implements Collection, an *)
(* atomic collection, as long as it is calm.                               *)
(***************************************************************************)
EXTENDS DataStore, Integers, FiniteSetTheorems, WellFoundedInduction, TLAPS

-----------------------------------------------------------------------------
(* Induction over numbers, for a set of them. *)

\* A set of natural numbers has a least one.
LEMMA Least ==
  ASSUME NEW T \in SUBSET Nat, T # {}
  PROVE  \E x \in T : \A y \in T : x <= y
  <1> DEFINE R == OpToRel(<, Nat)
  <1>1. \A x, y \in Nat : x < y => <<x, y>> \in R
    BY DEF OpToRel
  <1>2. IsWellFoundedOn(R, Nat)
    BY NatLessThanWellFounded
  <1> HIDE DEF R
  <1>3. PICK x \in T : \A y \in T : ~ (<<y, x>> \in R)
    BY <1>2, WFMin
  <1>4. x \in Nat /\ \A y \in T : y \in Nat /\ ~(y < x)
    BY <1>1, <1>3
  <1>5. \A y \in T : x <= y
    BY <1>4
  <1> QED  BY <1>5

\* A set with zero, and with the successor of each number in it, has them all.
LEMMA SetInduction ==
  ASSUME NEW S, 0 \in S, \A n \in Nat : n \in S => n + 1 \in S
  PROVE  Nat \subseteq S
  <1> SUFFICES ASSUME Nat \ S # {} PROVE FALSE
    OBVIOUS
  <1>1. PICK x \in Nat \ S : \A y \in Nat \ S : x <= y
    BY Least
  <1>2. x # 0 /\ x - 1 \in Nat /\ x - 1 \in S
    BY <1>1
  <1> QED  BY <1>2

-----------------------------------------------------------------------------
(* What `remove` keeps. *)

\* The function that Retained defines by recursion exists, so it is what its
\* definition says.
LEMMA RetainedIs ==
  ASSUME NEW rows, Len(rows) \in Nat, NEW id
  PROVE  Retained(rows, id) =
           [n \in 0..Len(rows) |->
              IF n = 0 THEN <<>>
              ELSE IF rows[n].id = id THEN Retained(rows, id)[n - 1]
                   ELSE Append(Retained(rows, id)[n - 1], rows[n])]
  <1> DEFINE Next1(g, n) == IF n = 0 THEN <<>>
                            ELSE IF rows[n].id = id THEN g[n - 1]
                                 ELSE Append(g[n - 1], rows[n])
             S == {N \in Nat : \E g : g = [n \in 0..N |-> Next1(g, n)]}
  <1>1. 0 \in S
    <2> DEFINE g == [n \in 0..0 |-> <<>>]
    <2>1. g = [n \in 0..0 |-> Next1(g, n)]
      OBVIOUS
    <2> QED  BY <2>1
  <1>2. ASSUME NEW N \in Nat, N \in S PROVE N + 1 \in S
    <2>1. PICK g : g = [n \in 0..N |-> Next1(g, n)]
      BY <1>2
    <2> DEFINE h == [n \in 0..N + 1 |-> IF n = N + 1 THEN Next1(g, n) ELSE g[n]]
    <2>2. \A n \in 0..N + 1 : n # 0 => n - 1 \in 0..N /\ h[n - 1] = g[n - 1]
      OBVIOUS
    <2>3. \A n \in 0..N + 1 : Next1(h, n) = Next1(g, n)
      BY <2>2
    <2>4. \A n \in 0..N : g[n] = Next1(g, n)
      BY <2>1
    <2> HIDE DEF Next1
    <2>5. \A n \in 0..N + 1 : h[n] = Next1(h, n)
      BY <2>3, <2>4
    <2>6. h = [n \in 0..N + 1 |-> Next1(h, n)]
      BY <2>5
    <2> HIDE DEF h
    <2>7. \E q : q = [n \in 0..N + 1 |-> Next1(q, n)]
      BY <2>6
    <2>8. N + 1 \in Nat
      OBVIOUS
    <2> QED  BY <2>7, <2>8
  <1>3. PICK g : g = [n \in 0..Len(rows) |-> Next1(g, n)]
    <2> HIDE DEF S
    <2>1. Len(rows) \in S
      BY <1>1, <1>2, SetInduction
    <2> QED  BY <2>1 DEF S
  <1> QED  BY <1>3 DEF Retained

\* The positions that are kept, and those of them up to one.
Kept(rows, id) == {i \in 1..Len(rows) : rows[i].id # id}
UpTo(S, n) == {j \in S : j <= n}

\* The first n rows leave as many rows as there are kept positions up to n, and
\* the row of a kept position becomes the one that its rank says.
RetainsUpTo(rows, id, n) ==
    LET new == Retained(rows, id)[n]
        S   == Kept(rows, id)
    IN  /\ new \in Seq(Doc) /\ Len(new) = Cardinality(UpTo(S, n))
        /\ \A i \in UpTo(S, n) :
              Cardinality(UpTo(S, i)) \in 1..Len(new) /\ new[Cardinality(UpTo(S, i))] = rows[i]
        /\ \A k \in 1..Len(new) : \E i \in UpTo(S, n) : Cardinality(UpTo(S, i)) = k

LEMMA RetainsStep ==
  ASSUME NEW rows \in Seq(Doc), NEW id, NEW n \in Nat, n + 1 <= Len(rows),
         RetainsUpTo(rows, id, n)
  PROVE  RetainsUpTo(rows, id, n + 1)
  <1> DEFINE S == Kept(rows, id)
             old == Retained(rows, id)[n]
             new == Retained(rows, id)[n + 1]
             Rank(i) == Cardinality(UpTo(S, i))
  <1>1. /\ old \in Seq(Doc) /\ Len(old) = Rank(n)
        /\ \A i \in UpTo(S, n) : Rank(i) \in 1..Len(old) /\ old[Rank(i)] = rows[i]
        /\ \A k \in 1..Len(old) : \E i \in UpTo(S, n) : Rank(i) = k
    BY DEF RetainsUpTo
  <1>2. n + 1 \in 0..Len(rows) /\ n + 1 \in 1..Len(rows) /\ n + 1 # 0 /\ (n + 1) - 1 = n
        /\ Len(rows) \in Nat
    OBVIOUS
  <1>3. new = IF rows[n + 1].id = id THEN old ELSE Append(old, rows[n + 1])
    <2>1. Retained(rows, id) =
           [m \in 0..Len(rows) |->
              IF m = 0 THEN <<>>
              ELSE IF rows[m].id = id THEN Retained(rows, id)[m - 1]
                   ELSE Append(Retained(rows, id)[m - 1], rows[m])]
      BY <1>2, RetainedIs
    <2> HIDE DEF old
    <2>2. new = IF rows[n + 1].id = id THEN Retained(rows, id)[(n + 1) - 1]
                ELSE Append(Retained(rows, id)[(n + 1) - 1], rows[n + 1])
      BY <1>2, <2>1
    <2> QED  BY <1>2, <2>2 DEF old
  <1>4. rows[n + 1] \in Doc
    BY <1>2
  <1>5. S \subseteq 1..Len(rows) /\ IsFiniteSet(S)
    <2>1. IsFiniteSet(1..Len(rows))
      BY <1>2, FS_Interval
    <2> QED  BY <2>1, FS_Subset DEF Kept
  <1>6. CASE rows[n + 1].id = id
    <2>1. UpTo(S, n + 1) = UpTo(S, n)
      BY <1>2, <1>5, <1>6 DEF UpTo, Kept
    <2>2. new = old
      BY <1>3, <1>6
    <2> QED  BY <1>1, <2>1, <2>2 DEF RetainsUpTo
  <1>7. CASE rows[n + 1].id # id
    <2>1. UpTo(S, n + 1) = UpTo(S, n) \cup {n + 1} /\ n + 1 \notin UpTo(S, n)
      BY <1>2, <1>5, <1>7 DEF UpTo, Kept
    <2>2. IsFiniteSet(UpTo(S, n))
      BY <1>5, FS_Subset DEF UpTo
    <2>3. Rank(n + 1) = Rank(n) + 1
      BY <2>1, <2>2, FS_AddElement
    <2>4. new = Append(old, rows[n + 1])
      BY <1>3, <1>7
    <2> HIDE DEF S, old, new, Rank
    <2>5. /\ new \in Seq(Doc) /\ Len(new) = Len(old) + 1 /\ new[Len(old) + 1] = rows[n + 1]
          /\ \A k \in 1..Len(old) : new[k] = old[k]
      BY <1>1, <1>4, <2>4
    <2>6. Len(old) \in Nat /\ Len(new) = Rank(n + 1)
      BY <1>1, <2>3, <2>5
    <2>7. ASSUME NEW i \in UpTo(S, n + 1)
          PROVE  Rank(i) \in 1..Len(new) /\ new[Rank(i)] = rows[i]
      <3>1. CASE i = n + 1
        BY <1>1, <2>3, <2>5, <2>6, <3>1
      <3>2. CASE i \in UpTo(S, n)
        BY <1>1, <2>5, <2>6, <3>2
      <3> QED  BY <2>1, <3>1, <3>2
    <2>8. ASSUME NEW k \in 1..Len(new) PROVE \E i \in UpTo(S, n + 1) : Rank(i) = k
      <3>1. CASE k = Len(new)
        BY <2>1, <2>6, <3>1
      <3>2. CASE k \in 1..Len(old)
        BY <1>1, <2>1, <3>2
      <3> QED  BY <2>5, <2>6, <3>1, <3>2
    <2> QED  BY <2>5, <2>6, <2>7, <2>8 DEF RetainsUpTo, S, new, Rank
  <1> QED  BY <1>6, <1>7

LEMMA Retains ==
  ASSUME NEW rows \in Seq(Doc), NEW id
  PROVE  RetainsUpTo(rows, id, Len(rows))
  <1> DEFINE S == {n \in Nat : n <= Len(rows) => RetainsUpTo(rows, id, n)}
  <1>1. 0 \in S
    <2>1. Retained(rows, id)[0] = <<>>
      BY RetainedIs
    <2>2. UpTo(Kept(rows, id), 0) = {}
      BY DEF UpTo, Kept
    <2>3. Cardinality(UpTo(Kept(rows, id), 0)) = 0
      BY <2>2, FS_EmptySet
    <2>4. <<>> \in Seq(Doc) /\ Len(<<>>) = 0 /\ 1..0 = {}
      OBVIOUS
    <2>5. RetainsUpTo(rows, id, 0)
      BY <2>1, <2>2, <2>3, <2>4 DEF RetainsUpTo
    <2> QED  BY <2>5
  <1>2. ASSUME NEW n \in Nat, n \in S PROVE n + 1 \in S
    BY <1>2, RetainsStep
  <1> HIDE DEF S
  <1>3. Len(rows) \in S
    BY <1>1, <1>2, SetInduction
  <1> QED  BY <1>3 DEF S

\* What `remove` leaves are the rows at the kept positions, in their order; the
\* others are as many as it counts.
RemovedAll(rows, id) ==
    LET new == Retained(rows, id)[Len(rows)]
        S   == Kept(rows, id)
    IN  /\ new \in Seq(Doc) /\ Len(new) \in Nat /\ Len(new) <= Len(rows)
        /\ Len(new) = Cardinality(S)
        /\ \A i \in S : new[Cardinality({j \in S : j <= i})] = rows[i]
        /\ \A k \in 1..Len(new) : \E i \in S : Cardinality({j \in S : j <= i}) = k
        /\ Len(rows) - Len(new) = Cardinality({i \in 1..Len(rows) : rows[i].id = id})

\* A removal is as RemovedAll says.
LEMMA Removal ==
  ASSUME NEW rows \in Seq(Doc), NEW id
  PROVE  RemovedAll(rows, id)
  <1> DEFINE new == Retained(rows, id)[Len(rows)]
             S == Kept(rows, id)
             Rank(i) == Cardinality(UpTo(S, i))
             Out == {i \in 1..Len(rows) : rows[i].id = id}
  <1>1. Len(rows) \in Nat
    OBVIOUS
  <1>2. UpTo(S, Len(rows)) = S
    BY <1>1 DEF UpTo, Kept
  <1>3. /\ new \in Seq(Doc) /\ Len(new) = Cardinality(S)
        /\ \A i \in S : Rank(i) \in 1..Len(new) /\ new[Rank(i)] = rows[i]
        /\ \A k \in 1..Len(new) : \E i \in S : Rank(i) = k
    BY <1>2, Retains DEF RetainsUpTo
  <1>4. 1..Len(rows) = S \cup Out /\ S \cap Out = {}
    BY DEF Kept
  <1>5. /\ IsFiniteSet(1..Len(rows)) /\ Cardinality(1..Len(rows)) = Len(rows)
    <2> DEFINE m == Len(rows)
    <2>1. 1 \in Int /\ m \in Int /\ m - 1 + 1 = m /\ (1 > m => m = 0)
      BY <1>1
    <2> HIDE DEF m
    <2>2. IsFiniteSet(1..m) /\ Cardinality(1..m) = m
      BY ONLY <2>1, FS_Interval
    <2> QED  BY <2>2 DEF m
  <1>6. /\ IsFiniteSet(S) /\ IsFiniteSet(Out)
        /\ Cardinality(S) \in Nat /\ Cardinality(Out) \in Nat
    BY <1>4, <1>5, FS_Subset, FS_CardinalityType
  <1> HIDE DEF new, S, Out
  <1>7. Len(rows) = Cardinality(S) + Cardinality(Out)
    <2>1. Cardinality(S \cup Out) = Cardinality(S) + Cardinality(Out) - Cardinality(S \cap Out)
      BY <1>6, FS_Union
    <2>2. Cardinality(S \cap Out) = 0
      BY <1>4, FS_EmptySet
    <2>3. Cardinality(S \cup Out) = Len(rows)
      BY <1>4, <1>5
    <2> QED  BY <1>1, <1>6, <2>1, <2>2, <2>3
  <1>8. \A i \in S : {j \in S : j <= i} = UpTo(S, i)
    BY DEF UpTo
  <1>9. /\ \A i \in S : new[Cardinality({j \in S : j <= i})] = rows[i]
        /\ \A k \in 1..Len(new) : \E i \in S : Cardinality({j \in S : j <= i}) = k
    BY <1>3, <1>8
  <1>10. Len(new) \in Nat /\ Len(new) <= Len(rows) /\ Len(rows) - Len(new) = Cardinality(Out)
    BY <1>1, <1>3, <1>6, <1>7
  <1> QED  BY <1>3, <1>9, <1>10 DEF new, S, Out, RemovedAll

\* A patched document is a document, and its fields are those of the patch where
\* it has them.
LEMMA PatchedIs ==
  ASSUME NEW doc \in Doc, NEW o \in Op, o.kind = "update"
  PROVE  /\ Patched(doc, o) \in Doc
         /\ Patched(doc, o) =
              IF doc.id = o.id /\ o.object
              THEN [f \in DOMAIN doc |-> IF f \in DOMAIN o.patch THEN o.patch[f] ELSE doc[f]]
              ELSE doc
  <1>1. o.patch \in Patch
    BY DEF Op
  <1>2. DOMAIN doc = {"id", "v"} /\ doc.id \in Ids \cup {NoId} /\ doc.v \in Values
    BY DEF Doc
  <1>3. /\ DOMAIN o.patch \subseteq {"id", "v"}
        /\ "id" \in DOMAIN o.patch => o.patch.id \in Ids
        /\ "v" \in DOMAIN o.patch => o.patch.v \in Values
    BY <1>1 DEF Patch
  <1> DEFINE p == [f \in DOMAIN doc |-> IF f \in DOMAIN o.patch THEN o.patch[f] ELSE doc[f]]
  <1>4. DOMAIN doc \cup DOMAIN o.patch = DOMAIN doc
    BY <1>2, <1>3
  <1>5. p \in Doc
    <2>1. p = [id |-> p.id, v |-> p.v]
      BY <1>2
    <2>2. p.id \in Ids \cup {NoId} /\ p.v \in Values
      BY <1>2, <1>3
    <2> HIDE DEF p
    <2> QED  BY <2>1, <2>2 DEF Doc
  <1> QED  BY <1>4, <1>5 DEF Patched

\* Where rows have an id, and the first of them.
Having(rows, id) == {i \in 1..Len(rows) : rows[i].id = id}
First(rows, id) == CHOOSE i \in Having(rows, id) : \A j \in Having(rows, id) : i <= j

\* `read` finds the first row with its id, or none.
LEMMA FirstFound ==
  ASSUME NEW rows \in Seq(Doc), NEW o, o.kind = "read"
  PROVE  /\ Found(rows, o) =
              IF Having(rows, o.id) = {} THEN <<>> ELSE <<rows[First(rows, o.id)]>>
         /\ Having(rows, o.id) # {} => rows[First(rows, o.id)] \in Doc
  <1>1. SelectInSeq(rows, LAMBDA doc : doc.id = o.id) =
          IF Having(rows, o.id) = {} THEN 0 ELSE First(rows, o.id)
    BY DEF SelectInSeq, Min, Having, First
  <1>2. Having(rows, o.id) \in SUBSET Nat /\ Having(rows, o.id) \subseteq 1..Len(rows)
    BY DEF Having
  <1>3. Having(rows, o.id) # {} => First(rows, o.id) \in Having(rows, o.id)
    BY <1>2, Least DEF First
  <1>4. Having(rows, o.id) # {} => First(rows, o.id) \in 1..Len(rows) /\ First(rows, o.id) # 0
    BY <1>2, <1>3
  <1> QED  BY <1>1, <1>4 DEF Found

-----------------------------------------------------------------------------
(* The operations are those of Collection. *)

\* What a change writes is a sequence of documents, at most one longer than what
\* it has read, and its count is a number.
LEMMA ChangedIs ==
  ASSUME NEW rows \in Seq(Doc), NEW o \in Op, Changes(o)
  PROVE  /\ Changed(rows, o) \in Seq(Doc) /\ Len(Changed(rows, o)) <= Len(rows) + 1
         /\ Counted(rows, o) \in Nat
  <1>1. Len(rows) \in Nat /\ rows \in [1..Len(rows) -> Doc]
    OBVIOUS
  <1>2. CASE o.kind = "insert"
    <2>1. o.doc \in Doc
      BY <1>2 DEF Op
    <2>2. Changed(rows, o) = Append(rows, o.doc) /\ Counted(rows, o) = 1
      BY <1>2 DEF Changed, Counted
    <2> QED  BY <1>1, <2>1, <2>2
  <1>3. CASE o.kind = "update"
    <2>1. /\ Changed(rows, o) = [i \in 1..Len(rows) |-> Patched(rows[i], o)]
          /\ Counted(rows, o) = Cardinality(Hits(rows, o))
      BY <1>3 DEF Changed, Counted
    <2>2. \A i \in 1..Len(rows) : Patched(rows[i], o) \in Doc
      BY <1>1, <1>3, PatchedIs
    <2>3. Changed(rows, o) \in [1..Len(rows) -> Doc]
      BY <2>1, <2>2
    <2>4. Cardinality(Hits(rows, o)) \in Nat
      <3>1. IsFiniteSet(1..Len(rows))
        BY <1>1, FS_Interval
      <3> QED  BY <3>1, FS_Subset, FS_CardinalityType DEF Hits
    <2>5. Changed(rows, o) \in Seq(Doc) /\ Len(Changed(rows, o)) = Len(rows)
      BY <1>1, <2>3
    <2> QED  BY <1>1, <2>1, <2>4, <2>5
  <1>4. CASE o.kind = "remove"
    <2>1. /\ Changed(rows, o) = Retained(rows, o.id)[Len(rows)]
          /\ Counted(rows, o) = Len(rows) - Len(Retained(rows, o.id)[Len(rows)])
      BY <1>4 DEF Changed, Counted
    <2>2. RemovedAll(rows, o.id)
      BY Removal
    <2> DEFINE new == Retained(rows, o.id)[Len(rows)]
    <2>3. new \in Seq(Doc) /\ Len(new) \in Nat /\ Len(new) <= Len(rows)
      BY <2>2 DEF RemovedAll
    <2>4. Changed(rows, o) = new /\ Counted(rows, o) = Len(rows) - Len(new)
      BY <2>1
    <2> HIDE DEF new
    <2>5. Counted(rows, o) \in Nat /\ Len(new) <= Len(rows) + 1
      BY <1>1, <2>3, <2>4
    <2> QED  BY <2>3, <2>4, <2>5
  <1> QED  BY <1>2, <1>3, <1>4 DEF Changes

\* The documents that a query finds.
LEMMA FoundIs ==
  ASSUME NEW rows \in Seq(Doc), NEW o \in Op, ~Changes(o)
  PROVE  Found(rows, o) \in Seq(Doc)
  <1>1. o.kind \in {"find", "read"}
    BY DEF Op, Changes
  <1>2. CASE o.kind = "find"
    BY <1>2 DEF Found
  <1>3. CASE o.kind = "read"
    <2>1. /\ Found(rows, o) =
              IF Having(rows, o.id) = {} THEN <<>> ELSE <<rows[First(rows, o.id)]>>
          /\ Having(rows, o.id) # {} => rows[First(rows, o.id)] \in Doc
      BY <1>3, FirstFound
    <2>2. \A doc \in Doc : <<doc>> \in Seq(Doc)
      OBVIOUS
    <2>3. <<>> \in Seq(Doc)
      OBVIOUS
    <2> QED  BY <2>1, <2>2, <2>3
  <1> QED  BY <1>1, <1>2, <1>3

\* Collection counts with the same Cardinality.
LEMMA SameCardinality == ASSUME NEW S PROVE Abstract!Cardinality(S) = Cardinality(S)
  BY DEF Abstract!Cardinality, Cardinality

\* On the rows of the collection, each operation changes what Collection says,
\* and answers what it says.
LEMMA EffectIs ==
  ASSUME last \in Seq(Doc), NEW o \in Op
  PROVE  /\ Abstract!After(o) = IF Changes(o) THEN Changed(last, o) ELSE last
         /\ Abstract!Answer(o) = IF Changes(o) THEN Answers(Counted(last, o), <<>>)
                                 ELSE Answers(0, Found(last, o))
  <1>1. Len(last) \in Nat /\ DOMAIN last = 1..Len(last) /\ last \in [1..Len(last) -> Doc]
    OBVIOUS
  <1>2. o.kind \in {"insert", "update", "remove", "find", "read"}
    BY DEF Op
  <1>3. CASE o.kind = "insert"
    <2>1. Append(last, o.doc) = last \o <<o.doc>>
      BY <1>3 DEF Op
    <2> QED  BY <1>3, <2>1 DEF Abstract!After, Abstract!Answer, Changes, Changed, Counted, Answers
  <1>4. CASE o.kind = "update"
    <2>1. \A i \in 1..Len(last) :
             Patched(last[i], o) =
               IF i \in Abstract!Matches(o) /\ o.object
               THEN [f \in DOMAIN last[i] |->
                       IF f \in DOMAIN o.patch THEN o.patch[f] ELSE last[i][f]]
               ELSE last[i]
      BY <1>1, <1>4, PatchedIs DEF Abstract!Matches
    <2>2. Abstract!After(o) = Changed(last, o)
      BY <1>1, <1>4, <2>1 DEF Abstract!After, Changed
    <2>3. Hits(last, o) = IF o.object THEN Abstract!Matches(o) ELSE {}
      BY <1>1 DEF Hits, Abstract!Matches
    <2>4. Counted(last, o) = IF o.object THEN Cardinality(Abstract!Matches(o)) ELSE 0
      BY <1>4, <2>3, FS_EmptySet DEF Counted
    <2>5. Abstract!Answer(o) = Answers(Counted(last, o), <<>>)
      BY <1>4, <2>4, SameCardinality DEF Abstract!Answer, Answers
    <2> QED  BY <1>4, <2>2, <2>5 DEF Changes
  <1>5. CASE o.kind = "remove"
    <2>1. DOMAIN last \ Abstract!Matches(o) = Kept(last, o.id)
      BY <1>1 DEF Abstract!Matches, Kept
    <2>2. Abstract!Matches(o) = {i \in 1..Len(last) : last[i].id = o.id}
      BY <1>1 DEF Abstract!Matches
    <2>6. RemovedAll(last, o.id)
      BY Removal
    <2>3. Abstract!After(o) = Changed(last, o)
      <3>1. Abstract!After(o) = Abstract!At(Kept(last, o.id))
        BY <1>5, <2>1 DEF Abstract!After
      <3>2. Abstract!At(Kept(last, o.id)) = Retained(last, o.id)[Len(last)]
        <4> DEFINE S == Kept(last, o.id)
                   new == Retained(last, o.id)[Len(last)]
                   Up(i) == {j \in S : j <= i}
                   At(k) == CHOOSE i \in S : Abstract!Cardinality(Up(i)) = k
        <4>1. /\ new \in Seq(Doc) /\ Len(new) = Cardinality(S)
              /\ \A i \in S : new[Cardinality(Up(i))] = last[i]
              /\ \A k \in 1..Len(new) : \E i \in S : Cardinality(Up(i)) = k
          BY <2>6 DEF RemovedAll
        <4>2. /\ Abstract!Cardinality(S) = Cardinality(S)
              /\ \A i : Abstract!Cardinality(Up(i)) = Cardinality(Up(i))
          BY SameCardinality
        <4>3. Abstract!At(S) = [k \in 1..Abstract!Cardinality(S) |-> last[At(k)]]
          BY DEF Abstract!At
        <4> HIDE DEF S, new, Up
        <4>4. ASSUME NEW k \in 1..Len(new) PROVE new[k] = last[At(k)]
          <5>1. At(k) \in S /\ Abstract!Cardinality(Up(At(k))) = k
            BY <4>1, <4>2
          <5> HIDE DEF At
          <5> QED  BY <4>1, <4>2, <5>1
        <4>5. new = [k \in 1..Len(new) |-> new[k]]
          BY <4>1
        <4> HIDE DEF At
        <4> QED  BY <4>1, <4>2, <4>3, <4>4, <4>5 DEF S, new
      <3>3. Changed(last, o) = Retained(last, o.id)[Len(last)]
        BY <1>5 DEF Changed
      <3> QED  BY <2>6, <3>1, <3>2, <3>3 DEF RemovedAll
    <2>4. Counted(last, o) = Cardinality(Abstract!Matches(o))
      BY <1>5, <2>2, <2>6 DEF Counted, Changed, RemovedAll
    <2>5. Abstract!Answer(o) = Answers(Counted(last, o), <<>>)
      BY <1>5, <2>4, SameCardinality DEF Abstract!Answer, Answers
    <2> QED  BY <1>5, <2>3, <2>5 DEF Changes
  <1>6. CASE o.kind = "find"
    BY <1>6 DEF Abstract!After, Abstract!Answer, Changes, Found, Answers
  <1>7. CASE o.kind = "read"
    <2>1. Abstract!Matches(o) = Having(last, o.id)
      BY <1>1 DEF Abstract!Matches, Having
    <2>2. Found(last, o) =
            IF Having(last, o.id) = {} THEN <<>> ELSE <<last[First(last, o.id)]>>
      BY <1>7, FirstFound
    <2>3. Abstract!Answer(o) = Answers(0, Found(last, o))
      BY <1>7, <2>1, <2>2 DEF Abstract!Answer, Answers, First
    <2> QED  BY <1>7, <2>3 DEF Abstract!After, Changes
  <1> QED  BY <1>2, <1>3, <1>4, <1>5, <1>6, <1>7

-----------------------------------------------------------------------------
(* The inductive invariant. *)

Phases  == {"idle", "load", "dir", "open", "write", "done"}
Results == [ok : BOOLEAN, count : Nat, found : Seq(Doc)]

\* The types of what belongs to the callers.
CallersTyped ==
    /\ phase \in [Callers -> Phases]
    /\ op \in [Callers -> Ops \cup {NoOp}]
    /\ body \in [Callers -> Seq(Doc)]
    /\ result \in [Callers -> Results]
    /\ gone \in [Callers -> BOOLEAN]

\* The types of the rest.
FileTyped ==
    /\ file \in {Torn(n) : n \in 0..MaxCalls + 1} \cup {NoFile} \cup {Whole(file.rows)}
    /\ file.rows \in Seq(Doc) /\ last \in Seq(Doc)
    /\ calls \in 0..MaxCalls
    /\ calm \in BOOLEAN

\* An operation belongs to a caller that is in it, one that writes is a change,
\* and only the write of a file outlives its handler.
Fits ==
    \A c \in Callers :
        /\ IF phase[c] \in Idle THEN op[c] = NoOp ELSE op[c] \in Ops
        /\ phase[c] \in {"dir", "open", "write"} => Changes(op[c])
        /\ gone[c] => phase[c] \in {"open", "write"}

\* Each call adds a row at most, those that are still to load theirs included.
Loading == {c \in Callers : phase[c] = "load"}
Room ==
    /\ Len(file.rows) + Cardinality(Loading) <= calls
    /\ \A c \in Callers : Len(body[c]) + Cardinality(Loading) <= calls

\* While the collection is calm one change at most is under way, it works on the
\* last rows that were written, and nothing but its write tears the file.
OneChange == \A c, d \in Callers : Changing(c) /\ Changing(d) => c = d
Prepared ==
    \A c \in Callers : phase[c] \in {"dir", "open", "write"} =>
        /\ body[c] = Changed(last, op[c])
        /\ result[c] = Answers(Counted(last, op[c]), <<>>)
FileIsLast ==
    /\ \A c \in Callers : phase[c] = "write" => file = Torn(0)
    /\ (\A c \in Callers : phase[c] # "write") => file.state # "torn" /\ file.rows = last
Calm == calm => OneChange /\ Prepared /\ FileIsLast

IInv == CallersTyped /\ FileTyped /\ Fits /\ Room /\ Calm

-----------------------------------------------------------------------------
(* What the ends of an operation keep. *)

LEMMA LoadingFinite == IsFiniteSet(Loading) /\ Cardinality(Loading) \in Nat
  BY CallersAssumption, FS_Subset, FS_CardinalityType DEF Loading

\* Fewer load, and nothing longer is to be written: there is room.
LEMMA RoomKept ==
  ASSUME CallersTyped, FileTyped, Room, calls' = calls, Loading' \subseteq Loading,
         \/ file'.rows = file.rows
         \/ file'.rows = <<>>
         \/ \E c \in Callers : file'.rows = body[c],
         \A c \in Callers : body'[c] \in {body[c], <<>>}
  PROVE  Room'
  <1>1. Cardinality(Loading') <= Cardinality(Loading) /\ Cardinality(Loading') \in Nat
    BY LoadingFinite, FS_Subset, FS_CardinalityType
  <1>2. Cardinality(Loading) \in Nat /\ calls \in Nat
    BY LoadingFinite, BoundAssumption DEF FileTyped
  <1>3. \A c \in Callers : Len(body[c]) \in Nat
    BY DEF CallersTyped
  <1>4. Len(file.rows) \in Nat
    BY DEF FileTyped
  <1>5. /\ Len(file.rows) + Cardinality(Loading) <= calls
        /\ \A c \in Callers : Len(body[c]) + Cardinality(Loading) <= calls
    BY DEF Room
  <1>6. Len(<<>>) = 0
    OBVIOUS
  <1>7. Len(file'.rows) + Cardinality(Loading') <= calls
    <2>1. CASE file'.rows = file.rows
      BY <1>1, <1>2, <1>4, <1>5, <2>1
    <2>2. CASE file'.rows = <<>>
      BY <1>1, <1>2, <1>4, <1>5, <1>6, <2>2
    <2>3. ASSUME NEW c \in Callers, file'.rows = body[c]
          PROVE  Len(file'.rows) + Cardinality(Loading') <= calls
      BY <1>1, <1>2, <1>3, <1>5, <2>3
    <2> QED  BY <2>1, <2>2, <2>3
  <1>8. ASSUME NEW c \in Callers PROVE Len(body'[c]) + Cardinality(Loading') <= calls
    <2>1. CASE body'[c] = body[c]
      BY <1>1, <1>2, <1>3, <1>5, <2>1
    <2>2. CASE body'[c] = <<>>
      BY <1>1, <1>2, <1>3, <1>5, <1>6, <2>2
    <2> QED  BY <2>1, <2>2
  <1> QED  BY <1>7, <1>8 DEF Room

LEMMA AnswersTyped ==
  /\ Error \in Results
  /\ \A n \in Nat, s \in Seq(Doc) : Answers(n, s) \in Results
  BY DEF Error, Answers, Results

\* Where an operation ends, its caller keeps nothing of it but its answer.
LEMMA FinishKeeps ==
  ASSUME CallersTyped, Fits, NEW c \in Callers, NEW a \in Results, Finish(c, a)
  PROVE  /\ CallersTyped' /\ Fits'
         /\ Loading' \subseteq Loading
         /\ \A d \in Callers : body'[d] \in {body[d], <<>>}
  <1>1. CallersTyped'
    <2>1. phase' \in [Callers -> Phases]
      BY DEF Finish, CallersTyped, Phases
    <2>2. op' \in [Callers -> Ops \cup {NoOp}]
      BY DEF Finish, CallersTyped
    <2>3. body' \in [Callers -> Seq(Doc)]
      BY DEF Finish, CallersTyped
    <2>4. result' \in [Callers -> Results]
      BY AnswersTyped DEF Finish, CallersTyped
    <2>5. gone' \in [Callers -> BOOLEAN]
      BY DEF Finish, CallersTyped
    <2> QED  BY <2>1, <2>2, <2>3, <2>4, <2>5 DEF CallersTyped
  <1>2. Fits'
    BY DEF Finish, CallersTyped, Fits, Idle
  <1>3. Loading' \subseteq Loading
    BY DEF Finish, CallersTyped, Loading
  <1>4. \A d \in Callers : body'[d] \in {body[d], <<>>}
    BY DEF Finish, CallersTyped
  <1> QED  BY <1>1, <1>2, <1>3, <1>4

\* An operation that ends before its write began leaves the calm as it was.
LEMMA FinishCalm ==
  ASSUME CallersTyped, Fits, Calm, NEW c \in Callers, NEW a, Finish(c, a),
         phase[c] # "write", UNCHANGED <<file, last, calm>>
  PROVE  Calm'
  <1> SUFFICES ASSUME calm PROVE OneChange' /\ Prepared' /\ FileIsLast'
    BY DEF Calm
  <1> USE DEF Calm
  <1>1. \A d \in Callers : Changing(d)' => Changing(d)
    BY DEF Finish, CallersTyped, Changing, Idle, Changes, NoOp
  <1>2. OneChange'
    BY <1>1 DEF OneChange
  <1>3. Prepared'
    BY DEF Finish, CallersTyped, Prepared
  <1>4. FileIsLast'
    BY DEF Finish, CallersTyped, FileIsLast
  <1> QED  BY <1>2, <1>3, <1>4

\* An operation that ends with the file as it is.
LEMMA EndKeeps ==
  ASSUME IInv, NEW c \in Callers, NEW a \in Results, Finish(c, a),
         phase[c] # "write", UNCHANGED <<file, calls, last, calm>>
  PROVE  IInv'
  <1>1. CallersTyped' /\ Fits' /\ Room'
    BY FinishKeeps, RoomKept DEF IInv
  <1>2. FileTyped'
    BY DEF IInv, FileTyped
  <1>3. Calm'
    BY FinishCalm DEF IInv
  <1> QED  BY <1>1, <1>2, <1>3 DEF IInv

-----------------------------------------------------------------------------
(* Each action keeps the invariant. *)

LEMMA InitHolds == Init => IInv
  <1> SUFFICES ASSUME Init PROVE IInv
    OBVIOUS
  <1>1. CallersTyped
    <2>1. <<>> \in Seq(Doc)
      OBVIOUS
    <2> QED  BY <2>1, AnswersTyped DEF Init, CallersTyped, Phases
  <1>2. FileTyped
    BY BoundAssumption DEF Init, FileTyped, NoFile
  <1>3. Fits
    BY DEF Init, Fits, Idle
  <1>4. Room
    <2>1. Loading = {}
      BY DEF Init, Loading
    <2>2. Cardinality(Loading) = 0
      BY <2>1, FS_EmptySet
    <2> QED  BY <2>2 DEF Init, Room, NoFile
  <1>5. Calm
    BY DEF Init, Calm, OneChange, Changing, Idle, Prepared, FileIsLast, NoFile
  <1> QED  BY <1>1, <1>2, <1>3, <1>4, <1>5 DEF IInv

LEMMA CallKeeps ==
  ASSUME IInv, NEW c \in Callers, Call(c)
  PROVE  IInv'
  <1> USE DEF IInv
  <1>1. /\ calls < MaxCalls /\ calls' = calls + 1
        /\ phase[c] = "idle" /\ phase' = [phase EXCEPT ![c] = "load"]
        /\ UNCHANGED <<file, body, result, gone, last>>
    BY DEF Call
  <1>2. PICK o \in Ops : /\ op' = [op EXCEPT ![c] = o]
                         /\ calm' = (calm /\ ~(Changes(o) /\ \E d \in Callers : Changing(d)))
    BY DEF Call
  <1>3. CallersTyped'
    BY <1>1, <1>2 DEF CallersTyped, Phases
  <1>4. FileTyped'
    BY <1>1, <1>2, BoundAssumption DEF FileTyped
  <1>5. Fits'
    BY <1>1, <1>2 DEF CallersTyped, Fits, Idle
  <1>6. Room'
    <2>1. Loading' = Loading \cup {c} /\ c \notin Loading
      BY <1>1 DEF CallersTyped, Loading
    <2>2. Cardinality(Loading') = Cardinality(Loading) + 1
      BY <2>1, LoadingFinite, FS_AddElement
    <2>3. Cardinality(Loading) \in Nat /\ calls \in Nat
      BY LoadingFinite, BoundAssumption DEF FileTyped
    <2>4. Len(file.rows) \in Nat /\ \A d \in Callers : Len(body[d]) \in Nat
      BY DEF CallersTyped, FileTyped
    <2> QED  BY <1>1, <2>2, <2>3, <2>4 DEF Room
  <1>7. Calm'
    <2> SUFFICES ASSUME calm' PROVE OneChange' /\ Prepared' /\ FileIsLast'
      BY DEF Calm
    <2>1. calm /\ ~(Changes(o) /\ \E d \in Callers : Changing(d))
      BY <1>2
    <2>2. \A d \in Callers : Changing(d)' => Changing(d) \/ (d = c /\ Changes(o))
      BY <1>1, <1>2 DEF CallersTyped, Changing
    <2>3. OneChange'
      BY <2>1, <2>2 DEF Calm, OneChange
    <2>4. Prepared'
      BY <1>1, <1>2, <2>1 DEF CallersTyped, Calm, Prepared
    <2>5. FileIsLast'
      BY <1>1, <2>1 DEF CallersTyped, Calm, FileIsLast
    <2> QED  BY <2>3, <2>4, <2>5
  <1> QED  BY <1>3, <1>4, <1>5, <1>6, <1>7

LEMMA LoadKeeps ==
  ASSUME IInv, NEW c \in Callers, Load(c)
  PROVE  IInv'
  <1> USE DEF IInv
  <1>1. /\ phase[c] = "load" /\ op[c] \in Ops /\ op[c] \in Op /\ file.state # "torn"
        /\ UNCHANGED <<file, calls, last, calm>>
    BY OpsAssumption DEF Load, Loadable, Fits, Idle
  <1>2. file.rows \in Seq(Doc) /\ Len(file.rows) \in Nat
    BY DEF FileTyped
  <1>3. CASE ~Changes(op[c])
    <2>1. Finish(c, Answers(0, Found(file.rows, op[c])))
      BY <1>3 DEF Load
    <2>2. Answers(0, Found(file.rows, op[c])) \in Results
      BY <1>1, <1>2, <1>3, FoundIs, AnswersTyped
    <2> QED  BY <1>1, <2>1, <2>2, EndKeeps
  <1>4. CASE Changes(op[c])
    <2> DEFINE new == Changed(file.rows, op[c])
               answer == Answers(Counted(file.rows, op[c]), <<>>)
    <2>1. /\ phase' = [phase EXCEPT ![c] = "dir"]
          /\ body' = [body EXCEPT ![c] = new]
          /\ result' = [result EXCEPT ![c] = answer]
          /\ UNCHANGED <<op, gone>>
      BY <1>4 DEF Load
    <2>2. new \in Seq(Doc) /\ Len(new) <= Len(file.rows) + 1 /\ Len(new) \in Nat
      BY <1>1, <1>2, <1>4, ChangedIs
    <2>3. answer \in Results
      <3>1. <<>> \in Seq(Doc)
        OBVIOUS
      <3> QED  BY <1>1, <1>2, <1>4, <3>1, ChangedIs, AnswersTyped
    <2>4. calm => new = Changed(last, op[c]) /\ answer = Answers(Counted(last, op[c]), <<>>)
      <3>1. ASSUME calm, NEW d \in Callers, phase[d] = "write" PROVE FALSE
        BY <1>1, <3>1 DEF Calm, FileIsLast, Torn
      <3>2. calm => file.rows = last
        BY <3>1 DEF Calm, FileIsLast
      <3> QED  BY <3>2
    <2> HIDE DEF new, answer
    <2>5. CallersTyped'
      BY <2>1, <2>2, <2>3 DEF CallersTyped, Phases
    <2>6. FileTyped'
      BY <1>1 DEF FileTyped
    <2>7. Fits'
      BY <1>1, <1>4, <2>1 DEF CallersTyped, Fits, Idle
    <2>8. Room'
      <3>1. Loading' = Loading \ {c} /\ c \in Loading
        BY <1>1, <2>1 DEF CallersTyped, Loading
      <3>2. Cardinality(Loading') = Cardinality(Loading) - 1
        BY <3>1, LoadingFinite, FS_RemoveElement
      <3>3. Cardinality(Loading) \in Nat /\ calls \in Nat
        BY LoadingFinite, BoundAssumption DEF FileTyped
      <3>4. \A d \in Callers : Len(body[d]) \in Nat
        BY DEF CallersTyped
      <3>5. \A d \in Callers : body'[d] = IF d = c THEN new ELSE body[d]
        BY <2>1 DEF CallersTyped
      <3>6. \A d \in Callers : Len(body'[d]) + Cardinality(Loading') <= calls
        <4> TAKE d \in Callers
        <4>1. Len(body[d]) + Cardinality(Loading) <= calls
          BY DEF Room
        <4>2. CASE d = c
          BY <1>2, <2>2, <3>2, <3>3, <3>5, <4>2 DEF Room
        <4>3. CASE d # c
          BY <3>2, <3>3, <3>4, <3>5, <4>1, <4>3
        <4> QED  BY <4>2, <4>3
      <3>7. Len(file.rows) + Cardinality(Loading') <= calls
        BY <1>2, <3>2, <3>3 DEF Room
      <3> QED  BY <1>1, <3>6, <3>7 DEF Room
    <2>9. Calm'
      <3> SUFFICES ASSUME calm PROVE OneChange' /\ Prepared' /\ FileIsLast'
        BY <1>1 DEF Calm
      <3>1. \A d \in Callers : Changing(d)' => Changing(d)
        BY <1>1, <2>1 DEF CallersTyped, Changing, Idle
      <3>2. OneChange'
        BY <3>1 DEF Calm, OneChange
      <3>3. Prepared'
        BY <1>1, <2>1, <2>4 DEF CallersTyped, Calm, Prepared
      <3>4. FileIsLast'
        BY <1>1, <2>1 DEF CallersTyped, Calm, FileIsLast
      <3> QED  BY <3>2, <3>3, <3>4
    <2> QED  BY <2>5, <2>6, <2>7, <2>8, <2>9
  <1> QED  BY <1>3, <1>4

LEMMA FailKeeps ==
  ASSUME IInv, NEW c \in Callers, LoadFails(c) \/ SaveFails(c)
  PROVE  IInv'
  <1>1. /\ phase[c] # "write" /\ Finish(c, Error) /\ UNCHANGED <<file, calls, last, calm>>
    BY DEF LoadFails, SaveFails
  <1> QED  BY <1>1, EndKeeps, AnswersTyped

\* The answer is taken: nothing else is in it.
LEMMA TakeKeeps ==
  ASSUME IInv, NEW c \in Callers, Take(c)
  PROVE  IInv'
  <1> USE DEF IInv
  <1>1. /\ phase[c] = "done" /\ phase' = [phase EXCEPT ![c] = "idle"]
        /\ result' = [result EXCEPT ![c] = Error]
        /\ UNCHANGED <<file, op, body, gone, calls, last, calm>>
    BY DEF Take
  <1>2. CallersTyped'
    BY <1>1, AnswersTyped DEF CallersTyped, Phases
  <1>3. FileTyped' /\ Fits'
    BY <1>1 DEF CallersTyped, FileTyped, Fits, Idle
  <1>4. Room'
    <2>1. Loading' = Loading
      BY <1>1 DEF CallersTyped, Loading
    <2> QED  BY <1>1, <2>1 DEF Room
  <1>5. Calm'
    BY <1>1 DEF CallersTyped, Calm, OneChange, Changing, Idle, Prepared, FileIsLast
  <1> QED  BY <1>2, <1>3, <1>4, <1>5

\* An operation goes on without its handler, or is forgotten.
LEMMA DropKeeps ==
  ASSUME IInv, NEW c \in Callers, Drop(c)
  PROVE  IInv'
  <1> USE DEF IInv
  <1>1. phase[c] \notin Idle /\ UNCHANGED <<file, calls, last, calm>>
    BY DEF Drop
  <1>2. CASE phase[c] \in {"open", "write"}
    <2>1. gone' = [gone EXCEPT ![c] = TRUE] /\ UNCHANGED <<phase, op, body, result>>
      BY <1>2 DEF Drop
    <2>2. CallersTyped' /\ FileTyped' /\ Fits'
      BY <1>1, <1>2, <2>1 DEF CallersTyped, FileTyped, Fits
    <2>3. Room'
      BY <1>1, <2>1 DEF Room, Loading
    <2>4. Calm'
      BY <1>1, <2>1 DEF Calm, OneChange, Changing, Prepared, FileIsLast
    <2> QED  BY <2>2, <2>3, <2>4
  <1>3. CASE phase[c] \notin {"open", "write"}
    <2>1. /\ phase' = [phase EXCEPT ![c] = "idle"]
          /\ op' = [op EXCEPT ![c] = NoOp]
          /\ body' = [body EXCEPT ![c] = <<>>]
          /\ result' = [result EXCEPT ![c] = Error]
          /\ gone' = gone /\ ~gone[c]
      BY <1>3 DEF Drop, Forget
    <2>2. CallersTyped'
      <3>1. body' \in [Callers -> Seq(Doc)]
        BY <2>1 DEF CallersTyped
      <3>2. result' \in [Callers -> Results] /\ gone' \in [Callers -> BOOLEAN]
        BY <2>1, AnswersTyped DEF CallersTyped
      <3>3. phase' \in [Callers -> Phases] /\ op' \in [Callers -> Ops \cup {NoOp}]
        BY <2>1 DEF CallersTyped, Phases
      <3> QED  BY <3>1, <3>2, <3>3 DEF CallersTyped
    <2>3. FileTyped'
      BY <1>1 DEF FileTyped
    <2>4. Fits'
      BY <2>1 DEF CallersTyped, Fits, Idle
    <2>5. Room'
      <3>1. Loading' \subseteq Loading
        BY <2>1 DEF CallersTyped, Loading
      <3>2. \A d \in Callers : body'[d] \in {body[d], <<>>}
        BY <2>1 DEF CallersTyped
      <3> QED  BY <1>1, <3>1, <3>2, RoomKept
    <2>6. Calm'
      <3> SUFFICES ASSUME calm PROVE OneChange' /\ Prepared' /\ FileIsLast'
        BY <1>1 DEF Calm
      <3>1. \A d \in Callers : Changing(d)' => Changing(d)
        BY <2>1 DEF CallersTyped, Changing, Idle
      <3>2. OneChange'
        BY <3>1 DEF Calm, OneChange
      <3>3. Prepared' /\ FileIsLast'
        BY <1>1, <1>3, <2>1 DEF CallersTyped, Calm, Prepared, FileIsLast
      <3> QED  BY <3>2, <3>3
    <2> QED  BY <2>2, <2>3, <2>4, <2>5, <2>6
  <1> QED  BY <1>2, <1>3

LEMMA MakeDirKeeps ==
  ASSUME IInv, NEW c \in Callers, MakeDir(c)
  PROVE  IInv'
  <1> USE DEF IInv
  <1>1. /\ phase[c] = "dir" /\ phase' = [phase EXCEPT ![c] = "open"]
        /\ UNCHANGED <<file, op, body, result, gone, calls, last, calm>>
    BY DEF MakeDir
  <1>2. CallersTyped' /\ FileTyped' /\ Fits'
    BY <1>1 DEF CallersTyped, FileTyped, Fits, Phases, Idle
  <1>3. Room'
    <2>1. Loading' = Loading
      BY <1>1 DEF CallersTyped, Loading
    <2> QED  BY <1>1, <2>1 DEF Room
  <1>4. Calm'
    <2>1. \A d \in Callers : Changing(d)' => Changing(d)
      BY <1>1 DEF CallersTyped, Changing, Idle
    <2>2. calm => OneChange'
      BY <2>1 DEF Calm, OneChange
    <2>3. calm => Prepared' /\ FileIsLast'
      BY <1>1 DEF CallersTyped, Calm, Prepared, FileIsLast
    <2> QED  BY <1>1, <2>2, <2>3 DEF Calm
  <1> QED  BY <1>2, <1>3, <1>4

\* While the collection is calm nobody else writes, so the file is torn by this
\* writer alone.
LEMMA TruncateKeeps ==
  ASSUME IInv, NEW c \in Callers, Truncate(c)
  PROVE  IInv'
  <1> USE DEF IInv
  <1>1. /\ phase[c] = "open" /\ phase' = [phase EXCEPT ![c] = "write"]
        /\ file' = Torn(0)
        /\ UNCHANGED <<op, body, result, gone, calls, last, calm>>
    BY DEF Truncate
  <1>2. CallersTyped' /\ Fits'
    BY <1>1 DEF CallersTyped, Fits, Phases, Idle
  <1>3. FileTyped'
    <2>1. 0 \in 0..MaxCalls + 1
      BY BoundAssumption
    <2>2. Torn(0).rows = <<>> /\ <<>> \in Seq(Doc)
      BY DEF Torn
    <2> QED  BY <1>1, <2>1, <2>2 DEF FileTyped
  <1>4. Room'
    <2>1. Loading' = Loading
      BY <1>1 DEF CallersTyped, Loading
    <2>2. file'.rows = <<>>
      BY <1>1 DEF Torn
    <2> QED  BY <1>1, <2>1, <2>2, RoomKept
  <1>5. Calm'
    <2>1. \A d \in Callers : Changing(d)' => Changing(d)
      BY <1>1 DEF CallersTyped, Changing, Idle
    <2>2. calm => OneChange'
      BY <2>1 DEF Calm, OneChange
    <2>3. calm => Prepared' /\ FileIsLast'
      BY <1>1 DEF CallersTyped, Calm, Prepared, FileIsLast
    <2> QED  BY <1>1, <2>2, <2>3 DEF Calm
  <1> QED  BY <1>2, <1>3, <1>4, <1>5

\* No file is longer than the calls, and one for the brackets.
LEMMA SizeBound ==
  ASSUME FileTyped, CallersTyped, Room
  PROVE  /\ file.size \in 0..MaxCalls + 1
         /\ \A c \in Callers : Size(body[c]) \in 1..MaxCalls + 1
  <1>1. /\ Cardinality(Loading) \in Nat /\ calls \in Nat /\ calls <= MaxCalls /\ MaxCalls \in Nat
    BY LoadingFinite, BoundAssumption DEF FileTyped
  <1>2. Len(file.rows) \in Nat /\ Len(file.rows) <= calls
    BY <1>1 DEF FileTyped, Room
  <1>3. \A c \in Callers : Len(body[c]) \in Nat /\ Len(body[c]) <= calls
    <2>1. \A c \in Callers : Len(body[c]) \in Nat
      BY DEF CallersTyped
    <2> QED  BY <1>1, <2>1 DEF Room
  <1>4. file.size \in 0..MaxCalls + 1
    <2>1. CASE \E n \in 0..MaxCalls + 1 : file = Torn(n)
      BY <2>1 DEF Torn
    <2>2. CASE file = NoFile
      BY <1>1, <2>2 DEF NoFile
    <2>3. CASE file = Whole(file.rows)
      <3>1. file.size = Len(file.rows) + 1
        BY <2>3 DEF Whole, Size
      <3> QED  BY <1>1, <1>2, <3>1
    <2> QED  BY <2>1, <2>2, <2>3 DEF FileTyped
  <1> QED  BY <1>1, <1>3, <1>4 DEF Size

\* While the collection is calm the file is as the writer truncated it, and its
\* rows are what it holds from now on.
LEMMA WriteKeeps ==
  ASSUME IInv, NEW c \in Callers, Write(c)
  PROVE  IInv' /\ (calm => file' = Whole(body[c]))
  <1> USE DEF IInv
  <1>1. /\ phase[c] = "write" /\ Finish(c, result[c])
        /\ file' = Overlay(body[c]) /\ last' = body[c]
        /\ UNCHANGED <<calls, calm>>
    BY DEF Write
  <1>2. result[c] \in Results /\ body[c] \in Seq(Doc)
    BY DEF CallersTyped
  <1>3. /\ file.size \in 0..MaxCalls + 1 /\ Size(body[c]) \in 1..MaxCalls + 1
    BY SizeBound
  <1>4. file' = Whole(body[c]) \/ file' = Torn(file.size)
    BY <1>1 DEF Overlay
  <1>5. /\ CallersTyped' /\ Fits' /\ Loading' \subseteq Loading
        /\ \A d \in Callers : body'[d] \in {body[d], <<>>}
    BY <1>1, <1>2, FinishKeeps
  <1>6. FileTyped'
    <2>1. CASE file' = Whole(body[c])
      BY <1>1, <1>2, <2>1 DEF FileTyped, Whole
    <2>2. CASE file' = Torn(file.size)
      <3>1. file'.rows = <<>> /\ <<>> \in Seq(Doc)
        BY <2>2 DEF Torn
      <3> QED  BY <1>1, <1>2, <1>3, <2>2, <3>1 DEF FileTyped
    <2> QED  BY <1>4, <2>1, <2>2
  <1>7. Room'
    <2>1. file'.rows = body[c] \/ file'.rows = <<>>
      BY <1>4 DEF Whole, Torn
    <2> QED  BY <1>1, <1>5, <2>1, RoomKept
  <1>8. ASSUME calm PROVE OneChange' /\ Prepared' /\ FileIsLast' /\ file' = Whole(body[c])
    <2>1. file.size = 0
      BY <1>1, <1>8 DEF Calm, FileIsLast, Torn
    <2>2. file' = Whole(body[c])
      BY <1>1, <1>3, <2>1 DEF Overlay
    <2>3. \A d \in Callers : phase[d] \in {"dir", "open", "write"} => d = c
      BY <1>1, <1>8 DEF Calm, OneChange, Changing, Fits, Idle
    <2>4. \A d \in Callers : phase'[d] \notin {"dir", "open", "write"}
      BY <1>1, <2>3 DEF Finish, CallersTyped
    <2>5. \A d \in Callers : Changing(d)' => Changing(d)
      BY <1>1 DEF Finish, CallersTyped, Changing, Idle
    <2>6. OneChange'
      BY <1>8, <2>5 DEF Calm, OneChange
    <2>7. FileIsLast'
      BY <1>1, <2>2, <2>4 DEF FileIsLast, Whole
    <2> QED  BY <2>2, <2>4, <2>6, <2>7 DEF Prepared
  <1>9. Calm'
    BY <1>1, <1>8 DEF Calm
  <1> QED  BY <1>5, <1>6, <1>7, <1>8, <1>9

LEMMA WriteFailsKeeps ==
  ASSUME IInv, NEW c \in Callers, WriteFails(c)
  PROVE  IInv'
  <1> USE DEF IInv
  <1>1. /\ calm' = FALSE /\ Finish(c, Error) /\ UNCHANGED <<calls, last>>
    BY DEF WriteFails
  <1>2. file.size \in 0..MaxCalls + 1 /\ Size(body[c]) \in 1..MaxCalls + 1
    BY SizeBound
  <1>3. PICK n \in 0..Size(body[c]) - 1 :
           file' = IF n = 0 THEN file ELSE Torn(IF n > file.size THEN n ELSE file.size)
    BY DEF WriteFails
  <1>4. file' = file \/ \E m \in 0..MaxCalls + 1 : file' = Torn(m)
    BY <1>2, <1>3, BoundAssumption
  <1>5. /\ CallersTyped' /\ Fits' /\ Loading' \subseteq Loading
        /\ \A d \in Callers : body'[d] \in {body[d], <<>>}
    BY <1>1, AnswersTyped, FinishKeeps
  <1>6. FileTyped'
    <2>1. CASE file' = file
      BY <1>1, <2>1 DEF FileTyped
    <2>2. ASSUME NEW m \in 0..MaxCalls + 1, file' = Torn(m) PROVE FileTyped'
      <3>1. file'.rows = <<>> /\ <<>> \in Seq(Doc)
        BY <2>2 DEF Torn
      <3> QED  BY <1>1, <2>2, <3>1 DEF FileTyped
    <2> QED  BY <1>4, <2>1, <2>2
  <1>7. Room'
    <2>1. file'.rows = file.rows \/ file'.rows = <<>>
      BY <1>4 DEF Torn
    <2> QED  BY <1>1, <1>5, <2>1, RoomKept
  <1> QED  BY <1>1, <1>5, <1>6, <1>7 DEF Calm

LEMMA CrashKeeps ==
  ASSUME IInv, Crash
  PROVE  IInv'
  <1> USE DEF IInv
  <1>1. /\ phase' = [d \in Callers |-> "idle"] /\ op' = [d \in Callers |-> NoOp]
        /\ body' = [d \in Callers |-> <<>>] /\ result' = [d \in Callers |-> Error]
        /\ gone' = [d \in Callers |-> FALSE]
        /\ calm' = (calm /\ \A d \in Callers : phase[d] # "write")
        /\ UNCHANGED <<file, calls, last>>
    BY DEF Crash
  <1>2. CallersTyped'
    <2>1. <<>> \in Seq(Doc)
      OBVIOUS
    <2> QED  BY <1>1, <2>1, AnswersTyped DEF CallersTyped, Phases
  <1>3. FileTyped' /\ Fits'
    BY <1>1 DEF FileTyped, Fits, Idle
  <1>4. Room'
    <2>1. Loading' \subseteq Loading
      BY <1>1 DEF Loading
    <2> QED  BY <1>1, <2>1, RoomKept
  <1>5. Calm'
    BY <1>1 DEF Calm, OneChange, Changing, Idle, Prepared, FileIsLast
  <1> QED  BY <1>2, <1>3, <1>4, <1>5

LEMMA NextKeeps == IInv /\ [Next]_vars => IInv'
  <1> SUFFICES ASSUME IInv, [Next]_vars PROVE IInv'
    OBVIOUS
  <1>1. CASE UNCHANGED vars
    BY <1>1 DEF vars, callVars, IInv, CallersTyped, FileTyped, Fits, Room, Loading, Calm,
                OneChange, Changing, Prepared, FileIsLast
  <1>2. CASE Crash
    BY <1>2, CrashKeeps
  <1>3. ASSUME NEW c \in Callers,
               \/ Call(c) \/ Load(c) \/ LoadFails(c) \/ MakeDir(c) \/ SaveFails(c)
               \/ Truncate(c) \/ Write(c) \/ WriteFails(c) \/ Take(c) \/ Drop(c)
        PROVE  IInv'
    BY <1>3, CallKeeps, LoadKeeps, FailKeeps, MakeDirKeeps, TruncateKeeps, WriteKeeps,
       WriteFailsKeeps, TakeKeeps, DropKeeps
  <1> QED  BY <1>1, <1>2, <1>3 DEF Next

\* The inductive invariant holds in every state.
THEOREM Inductive == Spec => []IInv
  BY InitHolds, NextKeeps, PTL DEF Spec

\* Callers, files, answers and counts have their types throughout.
THEOREM TypeCorrect == Spec => []TypeOK
  <1>1. IInv => TypeOK
    BY DEF IInv, CallersTyped, FileTyped, Phases, Results, TypeOK
  <1> QED  BY <1>1, Inductive, PTL

\* A file that does not parse is being written, or changes have overlapped, or
\* one was cut: the deadline of a handler never tears it.
THEOREM TornExplained == Spec => []TornHasCause
  <1>1. IInv => TornHasCause
    BY DEF IInv, Calm, FileIsLast, TornHasCause
  <1> QED  BY <1>1, Inductive, PTL

-----------------------------------------------------------------------------
(* Each step is one of Collection, or changes nothing that it sees. *)

AbstractCalls == [c \in Callers |-> CallOf(c)]

\* A step that is about one caller moves one call of Collection.
LEMMA OneMoves ==
  ASSUME NEW c \in Callers,
         \A d \in Callers \ {c} : /\ phase'[d] = phase[d] /\ op'[d] = op[d]
                                  /\ result'[d] = result[d] /\ gone'[d] = gone[d]
  PROVE  AbstractCalls' = [AbstractCalls EXCEPT ![c] = CallOf(c)']
  <1>1. \A d \in Callers \ {c} : CallOf(d)' = CallOf(d)
    BY DEF CallOf
  <1>2. \A d \in Callers : AbstractCalls[d] = CallOf(d)
    BY DEF AbstractCalls
  <1>3. AbstractCalls' = [d \in Callers |-> CallOf(d)']
    BY DEF AbstractCalls
  <1> HIDE DEF CallOf
  <1>4. [AbstractCalls EXCEPT ![c] = CallOf(c)'] =
          [d \in Callers |-> IF d = c THEN CallOf(c)' ELSE CallOf(d)]
    BY DEF AbstractCalls
  <1>5. \A d \in Callers : CallOf(d)' = IF d = c THEN CallOf(c)' ELSE CallOf(d)
    BY <1>1
  <1> QED  BY <1>3, <1>4, <1>5

\* Where Collection finds a caller that has an operation under way.
LEMMA AsksOrLeft ==
  ASSUME CallersTyped, Fits, NEW c \in Callers, phase[c] \notin Idle
  PROVE  /\ op[c] \in Ops
         /\ ~gone[c] => CallOf(c) = Abstract!Asks(op[c])
         /\ gone[c] => CallOf(c) = Abstract!Left(op[c])
  BY DEF CallersTyped, Fits, CallOf, Idle, Abstract!Asks, Abstract!Left

\* An operation that ends answers its caller, or nobody.
LEMMA FinishMoves ==
  ASSUME CallersTyped, Fits, NEW c \in Callers, phase[c] \notin Idle, NEW a, Finish(c, a)
  PROVE  /\ op[c] \in Ops
         /\ \/ Abstract!Step(c, Abstract!Asks(op[c]), Abstract!Gets(a))
            \/ Abstract!Step(c, Abstract!Left(op[c]), Abstract!None)
  <1>1. AbstractCalls' = [AbstractCalls EXCEPT ![c] = CallOf(c)']
    BY OneMoves DEF Finish, CallersTyped
  <1>2. AbstractCalls[c] = CallOf(c)
    BY DEF AbstractCalls
  <1>3. CASE gone[c]
    <2>1. phase'[c] = "idle" /\ gone'[c] = FALSE
      BY <1>3 DEF Finish, CallersTyped
    <2>2. CallOf(c)' = Abstract!None
      BY <2>1 DEF CallOf, Abstract!None
    <2> QED  BY <1>1, <1>2, <1>3, <2>2, AsksOrLeft DEF Abstract!Step, AbstractCalls
  <1>4. CASE ~gone[c]
    <2>1. phase'[c] = "done" /\ gone'[c] = FALSE /\ result'[c] = a
      BY <1>4 DEF Finish, CallersTyped
    <2>2. CallOf(c)' = Abstract!Gets(a)
      BY <2>1 DEF CallOf, Abstract!Gets
    <2> QED  BY <1>1, <1>2, <1>4, <2>2, AsksOrLeft DEF Abstract!Step, AbstractCalls
  <1> QED  BY <1>3, <1>4, AsksOrLeft DEF CallersTyped

LEMMA CallRefines ==
  ASSUME IInv, NEW c \in Callers, Call(c)
  PROVE  Abstract!Ask(c)
  <1>1. /\ phase[c] = "idle" /\ phase' = [phase EXCEPT ![c] = "load"]
        /\ UNCHANGED <<result, gone, last>>
        /\ \E o \in Ops : op' = [op EXCEPT ![c] = o]
    BY DEF Call
  <1>2. PICK o \in Ops : op' = [op EXCEPT ![c] = o]
    BY <1>1
  <1>3. ~gone[c]
    BY <1>1 DEF IInv, Fits
  <1>4. CallOf(c) = Abstract!None /\ CallOf(c)' = Abstract!Asks(o)
    BY <1>1, <1>2, <1>3 DEF IInv, CallersTyped, CallOf, Abstract!None, Abstract!Asks
  <1>5. AbstractCalls' = [AbstractCalls EXCEPT ![c] = CallOf(c)']
    BY <1>1, <1>2, OneMoves DEF IInv, CallersTyped
  <1>6. Abstract!Step(c, Abstract!None, Abstract!Asks(o))
    BY <1>4, <1>5 DEF Abstract!Step, AbstractCalls
  <1> QED  BY <1>1, <1>6 DEF Abstract!Ask

\* A query takes effect when it has read the file, which is whole while the
\* collection is calm.
LEMMA LoadRefines ==
  ASSUME IInv, NEW c \in Callers, Load(c), calm
  PROVE  Abstract!Apply(c) \/ UNCHANGED Abstract!vars
  <1> USE DEF IInv
  <1>1. /\ phase[c] = "load" /\ op[c] \in Op /\ file.state # "torn"
        /\ UNCHANGED <<last, calm>>
    BY OpsAssumption DEF Load, Loadable, Fits, Idle
  <1>2. file.rows = last
    BY <1>1 DEF Calm, FileIsLast, Torn
  <1>3. CASE ~Changes(op[c])
    <2>1. Finish(c, Answers(0, Found(last, op[c])))
      BY <1>2, <1>3 DEF Load
    <2>2. /\ Abstract!After(op[c]) = last
          /\ Abstract!Answer(op[c]) = Answers(0, Found(last, op[c]))
      BY <1>1, <1>3, EffectIs DEF FileTyped
    <2>3. phase[c] \notin Idle
      BY <1>1 DEF Idle
    <2>4. /\ op[c] \in Ops
          /\ \/ Abstract!Step(c, Abstract!Asks(op[c]), Abstract!Gets(Abstract!Answer(op[c])))
             \/ Abstract!Step(c, Abstract!Left(op[c]), Abstract!None)
      BY <2>1, <2>2, <2>3, FinishMoves
    <2> QED  BY <1>1, <2>2, <2>4 DEF Abstract!Apply
  <1>4. CASE Changes(op[c])
    <2>1. phase' = [phase EXCEPT ![c] = "dir"] /\ UNCHANGED <<op, gone>>
      BY <1>4 DEF Load
    <2>2. \A d \in Callers \ {c} : result'[d] = result[d]
      BY <1>4 DEF Load, CallersTyped
    <2>3. CallOf(c)' = CallOf(c)
      BY <1>1, <2>1 DEF CallersTyped, CallOf
    <2>4. AbstractCalls' = [AbstractCalls EXCEPT ![c] = CallOf(c)]
      BY <2>1, <2>2, <2>3, OneMoves DEF CallersTyped
    <2>5. AbstractCalls' = AbstractCalls
      BY <2>4 DEF AbstractCalls
    <2> QED  BY <1>1, <2>5 DEF Abstract!vars, AbstractCalls
  <1> QED  BY <1>3, <1>4

LEMMA FailRefines ==
  ASSUME IInv, NEW c \in Callers, LoadFails(c) \/ SaveFails(c)
  PROVE  Abstract!Fail(c)
  <1>1. phase[c] \notin Idle /\ Finish(c, Error) /\ UNCHANGED last
    BY DEF LoadFails, SaveFails, Idle
  <1>2. Error = Abstract!Error
    BY DEF Error, Abstract!Error
  <1> QED  BY <1>1, <1>2, FinishMoves DEF IInv, Abstract!Fail

\* The directory and the truncation are steps that no caller sees.
LEMMA SaveStutters ==
  ASSUME IInv, NEW c \in Callers, MakeDir(c) \/ Truncate(c)
  PROVE  UNCHANGED <<last, AbstractCalls>>
  <1>1. /\ phase[c] \in {"dir", "open"}
        /\ \E to \in {"open", "write"} : phase' = [phase EXCEPT ![c] = to]
        /\ UNCHANGED <<op, result, gone, last>>
    BY DEF MakeDir, Truncate
  <1>2. \A d \in Callers : CallOf(d)' = CallOf(d)
    BY <1>1 DEF IInv, CallersTyped, CallOf
  <1> QED  BY <1>1, <1>2 DEF AbstractCalls

\* A change takes effect with its write, for the rows it has read are still the
\* last.
LEMMA WriteRefines ==
  ASSUME IInv, NEW c \in Callers, Write(c), calm
  PROVE  Abstract!Apply(c)
  <1> USE DEF IInv
  <1>1. phase[c] = "write" /\ Finish(c, result[c]) /\ last' = body[c]
    BY DEF Write
  <1>2. op[c] \in Op /\ Changes(op[c]) /\ phase[c] \notin Idle
    BY <1>1, OpsAssumption DEF Fits, Idle
  <1>3. body[c] = Changed(last, op[c]) /\ result[c] = Answers(Counted(last, op[c]), <<>>)
    BY <1>1 DEF Calm, Prepared
  <1>4. Abstract!After(op[c]) = body[c] /\ Abstract!Answer(op[c]) = result[c]
    BY <1>2, <1>3, EffectIs DEF FileTyped
  <1>5. /\ op[c] \in Ops
        /\ \/ Abstract!Step(c, Abstract!Asks(op[c]), Abstract!Gets(Abstract!Answer(op[c])))
           \/ Abstract!Step(c, Abstract!Left(op[c]), Abstract!None)
    BY <1>1, <1>2, <1>4, FinishMoves
  <1> QED  BY <1>1, <1>4, <1>5 DEF Abstract!Apply

LEMMA TakeRefines ==
  ASSUME IInv, NEW c \in Callers, Take(c)
  PROVE  Abstract!Take(c)
  <1>1. /\ phase[c] = "done" /\ phase' = [phase EXCEPT ![c] = "idle"]
        /\ result' = [result EXCEPT ![c] = Error]
        /\ UNCHANGED <<op, gone, last>>
    BY DEF Take
  <1>2. AbstractCalls[c].state = "gets" /\ CallOf(c)' = Abstract!None
    <2>1. ~gone[c]
      BY <1>1 DEF IInv, Fits
    <2> QED  BY <1>1, <2>1 DEF IInv, CallersTyped, AbstractCalls, CallOf, Abstract!None
  <1>3. AbstractCalls' = [AbstractCalls EXCEPT ![c] = CallOf(c)']
    BY <1>1, OneMoves DEF IInv, CallersTyped
  <1> QED  BY <1>1, <1>2, <1>3 DEF Abstract!Take, AbstractCalls

LEMMA DropRefines ==
  ASSUME IInv, NEW c \in Callers, Drop(c)
  PROVE  Abstract!Abandon(c)
  <1>1. phase[c] \notin Idle /\ ~gone[c] /\ UNCHANGED last
    BY DEF Drop
  <1>2. op[c] \in Ops /\ AbstractCalls[c] = Abstract!Asks(op[c])
    BY <1>1, AsksOrLeft DEF IInv, AbstractCalls
  <1>3. CASE phase[c] \in {"open", "write"}
    <2>1. gone' = [gone EXCEPT ![c] = TRUE] /\ UNCHANGED <<phase, op, result>>
      BY <1>3 DEF Drop
    <2>2. CallOf(c)' = Abstract!Left(op[c])
      BY <1>3, <2>1 DEF IInv, CallersTyped, CallOf, Abstract!Left
    <2>3. AbstractCalls' = [AbstractCalls EXCEPT ![c] = CallOf(c)']
      BY <2>1, OneMoves DEF IInv, CallersTyped
    <2>4. Abstract!Step(c, Abstract!Asks(op[c]), Abstract!Left(op[c]))
      BY <1>2, <2>2, <2>3 DEF Abstract!Step, AbstractCalls
    <2> QED  BY <1>1, <1>2, <2>4 DEF Abstract!Abandon
  <1>4. CASE phase[c] \notin {"open", "write"}
    <2>1. /\ phase' = [phase EXCEPT ![c] = "idle"] /\ op' = [op EXCEPT ![c] = NoOp]
          /\ result' = [result EXCEPT ![c] = Error] /\ gone' = gone
      BY <1>4 DEF Drop, Forget
    <2>2. CallOf(c)' = Abstract!None
      BY <1>1, <2>1 DEF IInv, CallersTyped, CallOf, Abstract!None
    <2>3. AbstractCalls' = [AbstractCalls EXCEPT ![c] = CallOf(c)']
      BY <2>1, OneMoves DEF IInv, CallersTyped
    <2>4. Abstract!Step(c, Abstract!Asks(op[c]), Abstract!None)
      BY <1>2, <2>2, <2>3 DEF Abstract!Step, AbstractCalls
    <2> QED  BY <1>1, <1>2, <2>4 DEF Abstract!Abandon
  <1> QED  BY <1>3, <1>4

LEMMA CrashRefines ==
  ASSUME Crash
  PROVE  Abstract!Reset
  <1>1. \A c \in Callers : CallOf(c)' = Abstract!None
    BY DEF Crash, CallOf, Abstract!None
  <1> QED  BY <1>1 DEF Crash, Abstract!Reset

LEMMA StepRefines ==
  ASSUME IInv, [Next]_vars
  PROVE  [Abstract!Next]_(Abstract!vars)
  <1>1. CASE ~calm'
    BY <1>1 DEF Abstract!Next
  <1>2. CASE UNCHANGED vars
    <2>1. UNCHANGED <<last, AbstractCalls, calm>>
      BY <1>2 DEF vars, callVars, AbstractCalls, CallOf
    <2> QED  BY <2>1 DEF Abstract!vars, AbstractCalls
  <1>3. ASSUME calm', Crash PROVE Abstract!Next
    <2>1. calm' = calm
      BY <1>3 DEF Crash, IInv, FileTyped
    <2> QED  BY <1>3, <2>1, CrashRefines DEF Abstract!Next
  <1>4. ASSUME calm', NEW c \in Callers,
               \/ Call(c) \/ Load(c) \/ LoadFails(c) \/ MakeDir(c) \/ SaveFails(c)
               \/ Truncate(c) \/ Write(c) \/ WriteFails(c) \/ Take(c) \/ Drop(c)
        PROVE  [Abstract!Next]_(Abstract!vars)
    <2>1. calm /\ calm' = calm /\ ~WriteFails(c)
      BY <1>4 DEF IInv, FileTyped, Call, Load, LoadFails, MakeDir, SaveFails, Truncate,
                  Write, WriteFails, Take, Drop
    <2>2. CASE MakeDir(c) \/ Truncate(c)
      BY <2>1, <2>2, SaveStutters DEF Abstract!vars, AbstractCalls
    <2>3. \/ Abstract!Ask(c) \/ Abstract!Apply(c) \/ Abstract!Fail(c) \/ Abstract!Abandon(c)
          \/ Abstract!Take(c) \/ UNCHANGED Abstract!vars \/ MakeDir(c) \/ Truncate(c)
      BY <1>4, <2>1, CallRefines, LoadRefines, FailRefines, WriteRefines, TakeRefines, DropRefines
    <2> QED  BY <2>1, <2>2, <2>3 DEF Abstract!Next
  <1> QED  BY <1>1, <1>2, <1>3, <1>4 DEF Next

LEMMA InitRefines == Init => Abstract!Init
  BY DEF Init, CallOf, Abstract!Init, Abstract!None

\* As long as no two changes overlap and none is cut, the store is an atomic
\* collection for its callers: each operation takes effect at one moment between
\* its call and its answer, and answers what it did, though its handler may be
\* dropped while the file is written, and though the process may end.
THEOREM ImplementsCollection == Spec => IsCollection
  <1>1. IInv /\ [Next]_vars => [Abstract!Next]_(Abstract!vars)
    BY StepRefines
  <1> QED  BY <1>1, InitRefines, Inductive, PTL DEF Spec, IsCollection, Abstract!Spec
=============================================================================
