------------------------------ MODULE TextProofs ------------------------------
(***************************************************************************)
(* Proofs about Paths, Chunks and Wire, each for any constants: paths,     *)
(* long answers and streams are all texts that are taken apart.            *)
(***************************************************************************)
EXTENDS Paths, Chunks, Wire, SequenceTheorems, WellFoundedInduction, TLAPS

-----------------------------------------------------------------------------
(***************************************************************************)
(* Numbers and texts.                                                      *)
(***************************************************************************)

\* A set of numbers has a least one.
LEMMA LeastNumber ==
  ASSUME NEW S \in SUBSET Nat, S # {}
  PROVE  \E m \in S : \A k \in S : m <= k
<1> DEFINE R == OpToRel(<, Nat)
<1>1. IsWellFoundedOn(R, Nat)
  BY NatLessThanWellFounded, Zenon
<1>2. \A x, y \in Nat : x < y => <<x, y>> \in R
  BY DEF OpToRel
<1> HIDE DEF R
<1>3. \E m \in S : \A k \in S : ~(<<k, m>> \in R)
  BY <1>1, WFMin
<1>4. PICK m \in S : \A k \in S : ~(<<k, m>> \in R)
  BY <1>3
<1>5. ASSUME NEW k \in S PROVE m <= k
  <2>1. k \in Nat /\ m \in Nat /\ ~(k < m)
    BY <1>2, <1>4
  <2> QED
    BY <2>1
<1> QED
  BY <1>5

\* What FlattenSeq builds up: the first i texts, joined.
JoinsUp(f, s, n) ==
  f[0] = << >> /\ \A i \in 1..n : f[i] = f[i - 1] \o s[i]

LEMMA ConcatRegroups ==
  ASSUME NEW A, NEW x \in Seq(A), NEW y \in Seq(A), NEW z \in Seq(A)
  PROVE  x \o (y \o z) = (x \o y) \o z
BY ConcatAssociative

LEMMA JoinsUpExists ==
  ASSUME NEW A, NEW s \in Seq(Seq(A)), NEW n \in 0..Len(s)
  PROVE  \E f \in [0..n -> Seq(A)] : JoinsUp(f, s, n)
<1> DEFINE P(k) == \E f \in [0..k -> Seq(A)] : JoinsUp(f, s, k)
           Fails == {k \in 0..Len(s) : ~P(k)}
<1> SUFFICES ASSUME Fails # {} PROVE FALSE
  OBVIOUS
<1>1. Fails \in SUBSET Nat
  OBVIOUS
<1>2. PICK m \in Fails : \A k \in Fails : m <= k
  <2> HIDE DEF Fails
  <2> QED
    BY <1>1, LeastNumber
<1>3. m \in 0..Len(s) /\ ~P(m) /\ \A k \in 0..Len(s) : k < m => P(k)
  <2>1. m \in 0..Len(s) /\ ~P(m)
    OBVIOUS
  <2>2. ASSUME NEW k \in 0..Len(s), k < m PROVE P(k)
    <3>1. k \notin Fails
      BY <1>2, <2>1, <2>2
    <3> QED
      BY <3>1
  <2> QED
    BY <2>1, <2>2
<1>4. CASE m = 0
  <2> DEFINE g == [i \in 0..0 |-> << >>]
  <2>1. g \in [0..0 -> Seq(A)]
    BY EmptySeq
  <2>2. JoinsUp(g, s, 0)
    BY DEF JoinsUp
  <2> QED
    BY <1>3, <1>4, <2>1, <2>2
<1>5. CASE m # 0
  <2>1. m - 1 \in 0..Len(s) /\ m - 1 < m /\ m \in 1..Len(s)
    BY <1>3, <1>5
  <2>2. PICK f \in [0..(m - 1) -> Seq(A)] : JoinsUp(f, s, m - 1)
    BY <1>3, <2>1
  <2> DEFINE g == [i \in 0..m |-> IF i = m THEN f[m - 1] \o s[m] ELSE f[i]]
  <2>3. f[m - 1] \in Seq(A) /\ s[m] \in Seq(A)
    <3>1. m - 1 \in 0..(m - 1)
      BY <2>1
    <3>2. s[m] \in Seq(A)
      BY <2>1, ElementOfSeq
    <3> QED
      BY <3>1, <3>2
  <2>4. f[m - 1] \o s[m] \in Seq(A)
    BY <2>3, ConcatProperties
  <2>5. \A i \in 0..m : i = m \/ i \in 0..(m - 1)
    BY <2>1
  <2>6. g \in [0..m -> Seq(A)]
    BY <2>4, <2>5
  <2>7. g[0] = << >>
    BY <1>5, <2>1, <2>2 DEF JoinsUp
  <2>8. ASSUME NEW i \in 1..m PROVE g[i] = g[i - 1] \o s[i]
    <3>1. i - 1 # m /\ i - 1 \in 0..m /\ i \in 0..m
      BY <2>1
    <3>2. g[i - 1] = f[i - 1]
      BY <3>1
    <3>3. CASE i = m
      BY <3>1, <3>2, <3>3
    <3>4. CASE i # m
      <4>1. i \in 1..(m - 1)
        BY <2>1, <3>4
      <4> QED
        BY <2>2, <3>1, <3>2, <3>4, <4>1 DEF JoinsUp
    <3> QED
      BY <3>3, <3>4
  <2>9. JoinsUp(g, s, m)
    <3> HIDE DEF g
    <3> QED
      BY <2>7, <2>8 DEF JoinsUp
  <2> HIDE DEF g
  <2> QED
    BY <1>3, <2>6, <2>9
<1> QED
  BY <1>4, <1>5

\* There is one way to build it up.
LEMMA JoinsUpOnce ==
  ASSUME NEW s, NEW n \in Nat, NEW f, NEW g, JoinsUp(f, s, n), JoinsUp(g, s, n)
  PROVE  \A i \in 0..n : f[i] = g[i]
<1> DEFINE Fails == {i \in 0..n : f[i] # g[i]}
<1> SUFFICES ASSUME Fails # {} PROVE FALSE
  OBVIOUS
<1>1. Fails \in SUBSET Nat
  OBVIOUS
<1>2. PICK m \in Fails : \A k \in Fails : m <= k
  <2> HIDE DEF Fails
  <2> QED
    BY <1>1, LeastNumber
<1>3. m \in 0..n /\ f[m] # g[m]
  OBVIOUS
<1>4. m # 0
  BY <1>3 DEF JoinsUp
<1>5. m - 1 \in 0..n /\ m \in 1..n /\ ~(m <= m - 1)
  BY <1>3, <1>4
<1>6. f[m - 1] = g[m - 1]
  BY <1>2, <1>5
<1> QED
  BY <1>3, <1>5, <1>6 DEF JoinsUp

\* What FlattenSeq returns.
LEMMA FlattenIs ==
  ASSUME NEW A, NEW s \in Seq(Seq(A)), NEW f, JoinsUp(f, s, Len(s))
  PROVE  FlattenSeq(s) = f[Len(s)] /\ FlattenSeq(s) \in Seq(A)
<1> DEFINE n == Len(s)
<1>1. n \in Nat /\ n \in 0..n
  BY LenProperties
<1>2. PICK g \in [0..n -> Seq(A)] : JoinsUp(g, s, n)
  BY <1>1, JoinsUpExists
<1>3. g[n] = f[n] /\ g[n] \in Seq(A)
  BY <1>1, <1>2, JoinsUpOnce
<1>4. CASE n = 0
  <2>1. s = << >> /\ FlattenSeq(s) = s
    BY <1>4, EmptySeq DEF FlattenSeq
  <2> QED
    BY <1>2, <1>3, <1>4, <2>1 DEF JoinsUp
<1>5. CASE n # 0
  <2> DEFINE flatten[i \in 1..n] == IF i = 1 THEN s[i] ELSE flatten[i - 1] \o s[i]
             h == [i \in 1..n |-> g[i]]
             k == [i \in 0..n |-> IF i = 0 THEN << >> ELSE flatten[i]]
  <2>1. FlattenSeq(s) = flatten[n]
    BY <1>5 DEF FlattenSeq
  <2>2. \A i \in 1..n : h[i] = IF i = 1 THEN s[i] ELSE h[i - 1] \o s[i]
    <3> SUFFICES ASSUME NEW i \in 1..n
                 PROVE  h[i] = IF i = 1 THEN s[i] ELSE h[i - 1] \o s[i]
      OBVIOUS
    <3>1. h[i] = g[i] /\ g[i] = g[i - 1] \o s[i]
      BY <1>2 DEF JoinsUp
    <3>2. CASE i = 1
      <4>1. g[i - 1] = << >> /\ s[i] \in Seq(A)
        <5>1. i - 1 = 0 /\ i \in 1..Len(s)
          BY <3>2
        <5> QED
          BY <1>2, <5>1, ElementOfSeq DEF JoinsUp
      <4> QED
        BY <3>1, <3>2, <4>1, ConcatEmptySeq
    <3>3. CASE i # 1
      <4>1. i - 1 \in 1..n
        BY <1>1, <3>3
      <4> QED
        BY <3>1, <3>3, <4>1
    <3> QED
      BY <3>2, <3>3
  <2>3. h = [i \in 1..n |-> IF i = 1 THEN s[i] ELSE h[i - 1] \o s[i]]
    BY <2>2
  <2>4. flatten = [i \in 1..n |-> IF i = 1 THEN s[i] ELSE flatten[i - 1] \o s[i]]
    <3> HIDE DEF h
    <3> QED
      BY <2>3
  <2> HIDE DEF flatten
  <2>5. JoinsUp(k, s, n)
    <3>1. k[0] = << >>
      BY <1>1
    <3>2. ASSUME NEW i \in 1..n PROVE k[i] = k[i - 1] \o s[i]
      <4>1. k[i] = flatten[i]
        BY <1>1
      <4>2. CASE i = 1
        <5>1. k[i - 1] = << >> /\ s[i] \in Seq(A)
          BY <3>1, <4>2, ElementOfSeq
        <5>2. flatten[i] = s[i]
          BY <2>4, <4>2
        <5> QED
          BY <4>1, <5>1, <5>2, ConcatEmptySeq
      <4>3. CASE i # 1
        <5>1. i - 1 \in 1..n /\ i - 1 # 0 /\ i - 1 \in 0..n
          BY <1>1, <4>3
        <5>2. k[i - 1] = flatten[i - 1]
          BY <5>1
        <5>3. flatten[i] = flatten[i - 1] \o s[i]
          BY <2>4, <4>3
        <5> QED
          BY <4>1, <5>2, <5>3
      <4> QED
        BY <4>2, <4>3
    <3> HIDE DEF k
    <3> QED
      BY <3>1, <3>2 DEF JoinsUp
  <2>6. k[n] = flatten[n]
    BY <1>1, <1>5
  <2> HIDE DEF k
  <2>7. k[n] = g[n]
    BY <1>1, <1>2, <2>5, JoinsUpOnce
  <2> QED
    BY <1>3, <2>1, <2>6, <2>7
<1> QED
  BY <1>4, <1>5

LEMMA FlattenOfConcat ==
  ASSUME NEW A, NEW s \in Seq(Seq(A)), NEW t \in Seq(Seq(A))
  PROVE  FlattenSeq(s \o t) = FlattenSeq(s) \o FlattenSeq(t) /\ FlattenSeq(s) \in Seq(A) /\ FlattenSeq(t) \in Seq(A)
<1> DEFINE m == Len(s)
           n == Len(t)
<1>1. /\ m \in Nat /\ n \in Nat /\ s \o t \in Seq(Seq(A)) /\ Len(s \o t) = m + n
      /\ \A i \in 1..(m + n) : (s \o t)[i] = IF i <= m THEN s[i] ELSE t[i - m]
  BY ConcatProperties, LenProperties
<1>2. PICK f \in [0..m -> Seq(A)] : JoinsUp(f, s, m)
  BY <1>1, JoinsUpExists
<1>3. PICK g \in [0..n -> Seq(A)] : JoinsUp(g, t, n)
  BY <1>1, JoinsUpExists
<1>4. /\ FlattenSeq(s) = f[m] /\ FlattenSeq(t) = g[n]
      /\ FlattenSeq(s) \in Seq(A) /\ FlattenSeq(t) \in Seq(A)
  BY <1>2, <1>3, FlattenIs
<1> DEFINE h == [i \in 0..(m + n) |-> IF i <= m THEN f[i] ELSE f[m] \o g[i - m]]
<1>5. h[0] = << >>
  BY <1>1, <1>2 DEF JoinsUp
<1>6. ASSUME NEW i \in 1..(m + n) PROVE h[i] = h[i - 1] \o (s \o t)[i]
  <2>1. i \in 0..(m + n) /\ i - 1 \in 0..(m + n)
    BY <1>1
  <2>2. CASE i <= m
    <3>1. i \in 1..m /\ i - 1 <= m
      BY <1>1, <2>2
    <3>2. h[i] = f[i] /\ h[i - 1] = f[i - 1] /\ (s \o t)[i] = s[i]
      BY <1>1, <2>1, <2>2, <3>1
    <3> QED
      BY <1>2, <3>1, <3>2 DEF JoinsUp
  <2>3. CASE ~(i <= m)
    <3>1. i - m \in 1..n /\ (i - m) - 1 \in 0..n /\ (i - 1) - m = (i - m) - 1
      BY <1>1, <2>3
    <3>2. h[i] = f[m] \o g[i - m] /\ (s \o t)[i] = t[i - m]
      <4>1. h[i] = f[m] \o g[i - m]
        BY <2>1, <2>3
      <4>2. (s \o t)[i] = t[i - m]
        BY <1>1, <2>3
      <4> QED
        BY <4>1, <4>2
    <3>3. g[i - m] = g[(i - m) - 1] \o t[i - m]
      BY <1>3, <3>1 DEF JoinsUp
    <3>4. f[m] \in Seq(A) /\ g[(i - m) - 1] \in Seq(A) /\ t[i - m] \in Seq(A)
      <4>1. m \in 0..m
        BY <1>1
      <4>2. t[i - m] \in Seq(A)
        BY <3>1, ElementOfSeq
      <4> QED
        BY <1>2, <1>3, <3>1, <4>1, <4>2
    <3>5. h[i - 1] = f[m] \o g[(i - m) - 1]
      <4>1. CASE i - 1 <= m
        <5>1. i - 1 = m /\ (i - m) - 1 = 0
          <6>1. i \in Nat /\ m \in Nat
            BY <1>1
          <6> QED
            BY <2>3, <4>1, <6>1
        <5>2. h[i - 1] = f[m]
          BY <2>1, <5>1
        <5>3. g[(i - m) - 1] = << >>
          BY <1>3, <5>1 DEF JoinsUp
        <5> QED
          BY <3>4, <5>2, <5>3, ConcatEmptySeq
      <4>2. CASE ~(i - 1 <= m)
        BY <2>1, <3>1, <4>2
      <4> QED
        BY <4>1, <4>2
    <3> HIDE DEF h
    <3>6. f[m] \o (g[(i - m) - 1] \o t[i - m]) = (f[m] \o g[(i - m) - 1]) \o t[i - m]
      <4>1. \A x \in Seq(A) : \A y \in Seq(A) : \A z \in Seq(A) : x \o (y \o z) = (x \o y) \o z
        BY ConcatRegroups
      <4> QED
        BY <3>4, <4>1, Zenon
    <3>7. h[i] = h[i - 1] \o t[i - m]
      <4>1. h[i] = f[m] \o (g[(i - m) - 1] \o t[i - m])
        BY <3>2, <3>3, Zenon
      <4>2. h[i] = (f[m] \o g[(i - m) - 1]) \o t[i - m]
        BY <3>6, <4>1, Zenon
      <4> QED
        BY <3>5, <4>2, Zenon
    <3> QED
      BY <3>2, <3>7, Zenon
  <2> QED
    BY <2>2, <2>3
<1>7. h[m + n] = f[m] \o g[n]
  <2>1. f[m] \in Seq(A) /\ m + n \in 0..(m + n) /\ (m + n) - m = n
    BY <1>1, <1>4
  <2>2. CASE n = 0
    <3>1. g[n] = << >> /\ h[m + n] = f[m]
      BY <1>1, <1>3, <2>1, <2>2 DEF JoinsUp
    <3> QED
      BY <2>1, <3>1, ConcatEmptySeq
  <2>3. CASE n # 0
    <3>1. ~(m + n <= m)
      BY <1>1, <2>3
    <3> QED
      BY <2>1, <3>1
  <2> QED
    BY <2>2, <2>3
<1> HIDE DEF h
<1>8. JoinsUp(h, s \o t, m + n)
  BY <1>5, <1>6 DEF JoinsUp
<1>9. FlattenSeq(s \o t) = h[m + n]
  BY <1>1, <1>8, FlattenIs
<1> QED
  BY <1>4, <1>7, <1>9

LEMMA FlattenOfOne ==
  ASSUME NEW A, NEW x \in Seq(A)
  PROVE  FlattenSeq(<<x>>) = x
<1> DEFINE s == <<x>>
           f == [i \in 0..1 |-> IF i = 0 THEN << >> ELSE x]
<1>1. s \in Seq(Seq(A)) /\ Len(s) = 1 /\ s[1] = x
  OBVIOUS
<1>2. f[0] = << >> /\ f[1] = x
  OBVIOUS
<1>3. << >> \o x = x
  BY ConcatEmptySeq
<1> HIDE DEF f, s
<1>4. JoinsUp(f, s, 1)
  <2>1. \A i \in 1..1 : i = 1 /\ i - 1 = 0
    OBVIOUS
  <2> QED
    BY <1>1, <1>2, <1>3, <2>1 DEF JoinsUp
<1>5. FlattenSeq(s) = x
  BY <1>1, <1>2, <1>4, FlattenIs
<1> QED
  BY <1>5 DEF s

\* Empty texts, joined, are empty.
LEMMA FlattenOfNothing ==
  ASSUME NEW A, NEW s \in Seq(Seq(A)), \A i \in 1..Len(s) : s[i] = << >>
  PROVE  FlattenSeq(s) = << >>
<1> DEFINE f == [i \in 0..Len(s) |-> << >>]
<1>1. Len(s) \in Nat /\ << >> \o << >> = << >>
  BY LenProperties, EmptySeq, ConcatEmptySeq
<1>2. JoinsUp(f, s, Len(s))
  <2>1. f[0] = << >>
    BY <1>1
  <2>2. \A i \in 1..Len(s) : f[i] = << >> /\ f[i - 1] = << >>
    BY <1>1
  <2> HIDE DEF f
  <2> QED
    BY <1>1, <2>1, <2>2 DEF JoinsUp
<1>3. f[Len(s)] = << >>
  BY <1>1
<1> HIDE DEF f
<1> QED
  BY <1>2, <1>3, FlattenIs

LEMMA FlattenOfAppend ==
  ASSUME NEW A, NEW s \in Seq(Seq(A)), NEW x \in Seq(A)
  PROVE  FlattenSeq(Append(s, x)) = FlattenSeq(s) \o x
<1>1. \A t \in Seq(Seq(A)) : Append(t, x) = t \o <<x>>
  BY AppendIsConcat
<1>2. <<x>> \in Seq(Seq(A))
  OBVIOUS
<1> QED
  <2>1. Append(s, x) = s \o <<x>>
    BY <1>1, Zenon
  <2>2. FlattenSeq(s \o <<x>>) = FlattenSeq(s) \o FlattenSeq(<<x>>)
    BY <1>2, FlattenOfConcat
  <2> QED
    BY <2>1, <2>2, FlattenOfOne, Zenon

\* Of the texts that are not as they should be there is one that is empty, or
\* one symbol longer than a text that is as it should be.
LEMMA LeastText ==
  ASSUME NEW A, NEW Bad \in SUBSET Seq(A), Bad # {}
  PROVE  << >> \in Bad \/ \E t \in Seq(A), c \in A : Append(t, c) \in Bad /\ t \notin Bad
<1> DEFINE L == {Len(t) : t \in Bad}
<1>1. L \in SUBSET Nat /\ L # {}
  BY LenProperties
<1>2. PICK m \in L : \A k \in L : m <= k
  <2> HIDE DEF L
  <2> QED
    BY <1>1, LeastNumber
<1>3. PICK t \in Bad : Len(t) = m
  OBVIOUS
<1>4. CASE t = << >>
  BY <1>4
<1>5. CASE t # << >>
  <2>1. PICK s \in Seq(A), c \in A : t = Append(s, c)
    BY <1>5, SequenceEmptyOrAppend
  <2>2. Len(t) = Len(s) + 1 /\ Len(s) \in Nat
    BY <2>1, AppendProperties, LenProperties
  <2>3. Len(s) \notin L
    BY <1>2, <1>3, <2>2
  <2>4. s \notin Bad
    BY <2>3
  <2> QED
    BY <2>1, <2>4
<1> QED
  BY <1>4, <1>5

-----------------------------------------------------------------------------
(***************************************************************************)
(* Paths.                                                                  *)
(***************************************************************************)

\* A path lies below another when it begins with it and goes on.
LEMMA BelowIs ==
  ASSUME NEW p \in Seq(STRING), NEW d \in Seq(STRING)
  PROVE  Below(p, d) <=> Len(d) < Len(p) /\ \A i \in 1..Len(d) : p[i] = d[i]
<1>1. CASE Len(d) < Len(p)
  <2>1. \A i \in 1..Len(d) : p[i] \in STRING
    BY <1>1
  <2>2. /\ SubSeq(p, 1, Len(d)) \in Seq(STRING) /\ Len(SubSeq(p, 1, Len(d))) = Len(d)
        /\ \A i \in 1..Len(d) : SubSeq(p, 1, Len(d))[i] = p[i]
    BY <2>1, SubSeqProperties
  <2>3. (\A i \in 1..Len(d) : p[i] = d[i]) => SubSeq(p, 1, Len(d)) = d
    BY <2>2, SeqEqual
  <2> QED
    BY <1>1, <2>2, <2>3 DEF Below
<1>2. CASE ~(Len(d) < Len(p))
  BY <1>2 DEF Below
<1> QED
  BY <1>1, <1>2

LEMMA BelowIsTransitive ==
  ASSUME NEW p \in Seq(STRING), NEW q \in Seq(STRING), NEW r \in Seq(STRING),
         Below(p, q), Below(q, r)
  PROVE  Below(p, r)
<1>1. /\ Len(q) < Len(p) /\ \A i \in 1..Len(q) : p[i] = q[i]
      /\ Len(r) < Len(q) /\ \A i \in 1..Len(r) : q[i] = r[i]
  BY BelowIs
<1>2. Len(r) < Len(p) /\ \A i \in 1..Len(r) : p[i] = r[i]
  BY <1>1
<1> QED
  BY <1>2, BelowIs

\* Of a set of objects, one whose path another lies below or at has no other
\* above it: the topmost.
LEMMA TopmostIsThere ==
  ASSUME NEW S, \A o \in S : o.path \in Seq(STRING), NEW o \in S
  PROVE  \E q \in S : AtOrBelow(o.path, q.path) /\ ~\E r \in S : Below(q.path, r.path)
<1> DEFINE A == {q \in S : AtOrBelow(o.path, q.path)}
           L == {Len(q.path) : q \in A}
<1>1. L \in SUBSET Nat /\ L # {}
  <2>1. o \in A
    BY DEF AtOrBelow
  <2>2. \A q \in A : Len(q.path) \in Nat
    OBVIOUS
  <2> QED
    BY <2>1, <2>2
<1>2. PICK n \in L : \A k \in L : n <= k
  BY <1>1, LeastNumber
<1>3. PICK q \in A : Len(q.path) = n
  OBVIOUS
<1>4. ASSUME NEW r \in S, Below(q.path, r.path) PROVE FALSE
  <2>1. Len(r.path) < Len(q.path)
    BY <1>4, BelowIs
  <2>2. AtOrBelow(o.path, r.path)
    BY <1>3, <1>4, BelowIsTransitive DEF AtOrBelow
  <2>3. Len(r.path) \in L /\ Len(r.path) \in Nat
    BY <2>2
  <2> HIDE DEF L
  <2>4. Len(q.path) <= Len(r.path)
    BY <1>2, <1>3, <2>3
  <2>5. Len(q.path) \in Nat
    BY <1>1, <1>3
  <2> QED
    BY <2>1, <2>3, <2>4, <2>5
<1> QED
  BY <1>3, <1>4

\* Beyond the properties: what is in the workspace while it is complete, what
\* save has decided to upload, and what it uploaded before.
RootIsMade == stage # "new" => root = "directory"
CompleteIsRestored == complete => stage = "restored" /\ \A f \in disk : f.kind = "file"
JudgedIsKept == judged # << >> => ShouldSync(judged)
SavedIsKept == \A o \in objects : o.origin = "save" => ShouldSync(o.path)

PathsIInv ==
  /\ PathsTypeOK /\ RootIsMade /\ CompleteIsRestored /\ JudgedIsKept /\ SavedIsKept
  /\ RestoredIsSafe /\ OwnNamespaceOnly /\ SavedComesBack /\ SkillsComeBack

LEMMA PathsInitial == PathsInit => PathsIInv
<1> SUFFICES ASSUME PathsInit PROVE PathsIInv
  OBVIOUS
<1> USE DEF PathsInit
<1>1. \A o \in objects : o.path \in Keys /\ o.origin = "stranger"
  BY DEF Strangers, Object
<1>2. PathsTypeOK
  BY <1>1 DEF PathsTypeOK
<1>3. RootIsMade /\ CompleteIsRestored /\ JudgedIsKept /\ SavedIsKept
  BY <1>1 DEF RootIsMade, CompleteIsRestored, JudgedIsKept, SavedIsKept
<1>4. RestoredIsSafe /\ OwnNamespaceOnly
  BY <1>1 DEF RestoredIsSafe, OwnNamespaceOnly
<1>5. SavedComesBack /\ SkillsComeBack
  BY DEF SavedComesBack, SkillsComeBack
<1> QED
  BY <1>2, <1>3, <1>4, <1>5 DEF PathsIInv

LEMMA FileIs ==
  ASSUME NEW p, NEW markdown, NEW origin
  PROVE  LET f == File(p, markdown, origin) IN
         f.path = p /\ f.kind = "file" /\ f.markdown = markdown /\ f.origin = origin
BY DEF File

LEMMA ObjectIs ==
  ASSUME NEW ns, NEW p, NEW markdown, NEW origin
  PROVE  LET o == Object(ns, p, markdown, origin) IN
         o.namespace = ns /\ o.path = p /\ o.markdown = markdown /\ o.origin = origin
BY DEF Object

\* A skill's files are three names deep: nothing that is synchronised lies above
\* one.
LEMMA NothingAboveSkill ==
  ASSUME NEW p \in Seq(STRING), NEW q \in Seq(STRING), IsSkill(p), IsApprovedSkill(p),
         ShouldSync(q)
  PROVE  ~Below(p, q)
<1> SUFFICES ASSUME Below(p, q) PROVE FALSE
  OBVIOUS
<1>1. Len(q) < Len(p) /\ \A i \in 1..Len(q) : p[i] = q[i]
  BY BelowIs
<1>2. Len(q) # 0
  <2>1. q # << >>
    BY DEF ShouldSync, Safe
  <2> QED
    BY <2>1, EmptySeq
<1>3. 1 \in 1..Len(q)
  BY <1>2, LenProperties
<1>4. IsSkill(q)
  BY <1>1, <1>3 DEF IsSkill
<1>5. Len(q) = 3 /\ Len(p) = 3
  BY <1>4 DEF ShouldSync, IsApprovedSkill
<1> QED
  BY <1>1, <1>5

\* What a restore puts on the disk.
LEMMA RestoreKeeps ==
  ASSUME PathsIInv, NEW ns \in {"own", "other"}, RestorePaths(ns)
  PROVE  PathsIInv'
<1>1. ns = "own" /\ bucket
  BY DEF RestorePaths, Validated, BoundNamespace
<1>2. PICK failing \in SUBSET Offered(ns) :
        LET fetched == {o \in Offered(ns) \ failing : Fits(o.path)}
            kept == {o \in fetched : ~\E q \in fetched : Below(o.path, q.path)}
        IN /\ disk' = {f \in disk : \A o \in kept : o.path # f.path}
                        \union {File(o.path, o.markdown, ns) : o \in kept}
           /\ complete' = (disk = {} /\ failing = {})
  BY DEF RestorePaths
<1> DEFINE fetched == {o \in Offered(ns) \ failing : Fits(o.path)}
           kept == {o \in fetched : ~\E q \in fetched : Below(o.path, q.path)}
<1>3. /\ stage = "ready" /\ stage' = "restored" /\ root' = root /\ objects' = objects
      /\ judged' = judged /\ root = "directory"
  BY DEF RestorePaths, PathsIInv, RootIsMade
<1>4. \A o \in kept : /\ o \in objects /\ o.namespace = ns /\ ShouldSync(o.path) /\ Fits(o.path)
                      /\ IsApprovedSkill(o.path) => o.markdown
  BY DEF Offered
<1>5. ASSUME NEW f \in disk'
      PROVE  f \in disk \/ \E o \in kept : f = File(o.path, o.markdown, ns)
  BY <1>2
<1>6. \A o \in kept : File(o.path, o.markdown, ns) \in disk'
  BY <1>2
<1>7. complete' => kept = {o \in Offered(ns) : ~\E q \in Offered(ns) : Below(o.path, q.path)}
  <2> SUFFICES ASSUME complete'
               PROVE  kept = {o \in Offered(ns) : ~\E q \in Offered(ns) : Below(o.path, q.path)}
    OBVIOUS
  <2>1. disk = {} /\ failing = {}
    BY <1>2
  <2>2. \A o \in Offered(ns) : Fits(o.path)
    BY <2>1 DEF Fits
  <2>3. fetched = Offered(ns)
    BY <2>1, <2>2
  <2> QED
    BY <2>3
<1>8. complete' => disk = {}
  BY <1>2
<1> HIDE DEF kept, fetched
<1>9. PathsTypeOK'
  <2>1. \A f \in disk' : f.path \in Keys /\ f.origin \in {"own", "other", "agent"}
    BY <1>4, <1>5, FileIs DEF PathsIInv, PathsTypeOK
  <2> QED
    BY <1>3, <2>1 DEF PathsIInv, PathsTypeOK
<1>10. RootIsMade' /\ CompleteIsRestored' /\ JudgedIsKept' /\ SavedIsKept'
  <2>1. CompleteIsRestored'
    BY <1>3, <1>5, <1>8, FileIs DEF CompleteIsRestored
  <2> QED
    BY <1>3, <2>1 DEF PathsIInv, RootIsMade, JudgedIsKept, SavedIsKept
<1>11. RestoredIsSafe'
  <2> SUFFICES ASSUME NEW f \in disk', f.origin # "agent"
               PROVE  /\ Safe(f.path) /\ (IsSkill(f.path) => IsApprovedSkill(f.path) /\ f.markdown)
                      /\ \A g \in disk' : g.kind = "link" => ~AtOrBelow(f.path, g.path)
    BY DEF RestoredIsSafe
  <2>1. \A g \in disk' : g.kind = "link" => g \in disk
    BY <1>5, FileIs
  <2>2. CASE f \in disk
    BY <2>1, <2>2 DEF PathsIInv, RestoredIsSafe
  <2>3. ASSUME NEW o \in kept, f = File(o.path, o.markdown, ns)
        PROVE  /\ Safe(f.path) /\ (IsSkill(f.path) => IsApprovedSkill(f.path) /\ f.markdown)
               /\ \A g \in disk : g.kind = "link" => ~AtOrBelow(f.path, g.path)
    BY <1>4, <2>3, FileIs DEF ShouldSync, Fits
  <2> QED
    BY <1>5, <2>1, <2>2, <2>3
<1>12. OwnNamespaceOnly'
  BY <1>1, <1>3, <1>5, FileIs DEF PathsIInv, OwnNamespaceOnly
<1>13. ASSUME complete', NEW o \in objects, o.origin = "save",
              IsApprovedSkill(o.path) => o.markdown
       PROVE  /\ \E f \in disk' : AtOrBelow(o.path, f.path)
              /\ IsSkill(o.path) => \E f \in disk' : f.path = o.path /\ f.kind = "file" /\ f.markdown
  <2>1. o \in Offered(ns)
    BY <1>1, <1>13 DEF Offered, PathsIInv, SavedIsKept, OwnNamespaceOnly
  <2>2. \A q \in Offered(ns) : q.path \in Seq(STRING) /\ ShouldSync(q.path)
    BY PathsAssumption DEF Offered, PathsIInv, PathsTypeOK
  <2>3. PICK q \in Offered(ns) : /\ AtOrBelow(o.path, q.path)
                                 /\ ~\E r \in Offered(ns) : Below(q.path, r.path)
    BY <2>1, <2>2, TopmostIsThere
  <2>4. q \in kept
    BY <1>7, <1>13, <2>3
  <2>5. \E f \in disk' : AtOrBelow(o.path, f.path)
    BY <1>6, <2>3, <2>4, FileIs
  <2>6. ASSUME IsSkill(o.path)
        PROVE  \E f \in disk' : f.path = o.path /\ f.kind = "file" /\ f.markdown
    <3>1. IsApprovedSkill(o.path) /\ o.markdown
      BY <1>13, <2>1, <2>2, <2>6 DEF ShouldSync
    <3>2. \A r \in Offered(ns) : ~Below(o.path, r.path)
      BY <2>1, <2>2, <2>6, <3>1, NothingAboveSkill
    <3>3. o \in kept
      BY <1>7, <1>13, <2>1, <3>2
    <3> QED
      BY <1>6, <3>1, <3>3, FileIs
  <2> QED
    BY <2>5, <2>6
<1>14. SavedComesBack'
  <2> SUFFICES ASSUME complete', NEW o \in objects, o.origin = "save", ~IsSkill(o.path)
               PROVE  \E f \in disk' : AtOrBelow(o.path, f.path)
    BY <1>3 DEF SavedComesBack
  <2> QED
    BY <1>13 DEF IsApprovedSkill
<1>15. SkillsComeBack'
  <2> SUFFICES ASSUME complete', NEW o \in objects, o.origin = "save", IsSkill(o.path), o.markdown
               PROVE  \E f \in disk' : f.path = o.path /\ Instructs(f)'
    BY <1>3 DEF SkillsComeBack
  <2>1. IsApprovedSkill(o.path)
    BY DEF PathsIInv, SavedIsKept, ShouldSync
  <2>2. PICK f \in disk' : f.path = o.path /\ f.kind = "file" /\ f.markdown
    BY <1>13
  <2> QED
    BY <1>3, <2>1, <2>2 DEF Instructs
<1> QED
  BY <1>9, <1>10, <1>11, <1>12, <1>14, <1>15 DEF PathsIInv

LEMMA MakeKeeps == PathsIInv /\ Make => PathsIInv'
<1> SUFFICES ASSUME PathsIInv, Make PROVE PathsIInv'
  OBVIOUS
<1>1. PICK p \in Keys, kind \in {"file", "link"} : \E markdown \in Contents(p) :
        disk' = {f \in disk : ~AtOrBelow(f.path, p) /\ ~Below(p, f.path)}
          \union {[path |-> p, kind |-> kind, markdown |-> markdown, origin |-> "agent"]}
  BY DEF Make
<1>2. \A f \in disk' : \/ f \in disk /\ ~AtOrBelow(f.path, p)
                       \/ f.path = p /\ f.origin = "agent"
  BY <1>1
<1>3. /\ stage' = stage /\ root' = root /\ objects' = objects /\ judged' = judged
      /\ complete' = FALSE
  BY DEF Make
<1>4. PathsTypeOK'
  BY <1>2, <1>3 DEF PathsIInv, PathsTypeOK
<1>5. RootIsMade' /\ CompleteIsRestored' /\ JudgedIsKept' /\ SavedIsKept'
  BY <1>3 DEF PathsIInv, RootIsMade, CompleteIsRestored, JudgedIsKept, SavedIsKept
<1>6. RestoredIsSafe' /\ OwnNamespaceOnly'
  <2>1. ASSUME NEW f \in disk', f.origin # "agent", NEW g \in disk', g.kind = "link"
        PROVE  ~AtOrBelow(f.path, g.path)
    BY <1>2, <2>1 DEF PathsIInv, RestoredIsSafe
  <2> QED
    BY <1>2, <1>3, <2>1 DEF PathsIInv, RestoredIsSafe, OwnNamespaceOnly
<1>7. SavedComesBack' /\ SkillsComeBack'
  BY <1>3 DEF SavedComesBack, SkillsComeBack
<1> QED
  BY <1>4, <1>5, <1>6, <1>7 DEF PathsIInv

LEMMA UploadKeeps ==
  ASSUME PathsIInv, NEW ns \in {"own", "other"}, UploadPath(ns)
  PROVE  PathsIInv'
<1>1. /\ stage' = stage /\ root' = root /\ disk' = disk /\ judged' = << >> /\ judged # << >>
      /\ complete' = complete /\ ns = "own"
  BY DEF UploadPath, Validated, BoundNamespace
<1>2. RootIsMade' /\ CompleteIsRestored' /\ JudgedIsKept' /\ RestoredIsSafe'
  BY <1>1 DEF PathsIInv, RootIsMade, CompleteIsRestored, JudgedIsKept, RestoredIsSafe
<1>3. CASE objects' = objects
  <2>1. PathsTypeOK' /\ SavedIsKept' /\ OwnNamespaceOnly'
    BY <1>1, <1>3 DEF PathsIInv, PathsTypeOK, SavedIsKept, OwnNamespaceOnly
  <2>2. SavedComesBack' /\ SkillsComeBack'
    BY <1>1, <1>3 DEF PathsIInv, SavedComesBack, SkillsComeBack, Instructs
  <2> QED
    BY <1>2, <2>1, <2>2 DEF PathsIInv
<1>4. ASSUME NEW f \in disk, NEW markdown \in Contents(judged), f.path = judged,
             f.kind = "file" => markdown = f.markdown,
             objects' = {o \in objects : o.namespace # ns \/ o.path # judged}
                          \union {Object(ns, judged, markdown, "save")}
      PROVE  PathsIInv'
  <2> DEFINE new == Object(ns, judged, markdown, "save")
  <2>1. /\ new.namespace = "own" /\ new.path = judged /\ new.markdown = markdown
        /\ new.origin = "save"
    BY <1>1, ObjectIs
  <2>2. \A o \in objects' : o \in objects \/ o = new
    BY <1>4
  <2> HIDE DEF new
  <2>3. PathsTypeOK' /\ SavedIsKept' /\ OwnNamespaceOnly'
    BY <1>1, <2>1, <2>2
       DEF PathsIInv, PathsTypeOK, SavedIsKept, JudgedIsKept, OwnNamespaceOnly
  <2>4. SavedComesBack'
    BY <1>1, <1>4, <2>1, <2>2 DEF PathsIInv, SavedComesBack, AtOrBelow
  <2>5. SkillsComeBack'
    <3> SUFFICES ASSUME complete, NEW o \in objects', o.origin = "save", IsSkill(o.path),
                        o.markdown
                 PROVE  \E g \in disk : g.path = o.path /\ Instructs(g)'
      BY <1>1 DEF SkillsComeBack
    <3>1. CASE o \in objects
      BY <1>1, <3>1 DEF PathsIInv, SkillsComeBack, Instructs
    <3>2. CASE o = new
      <4>1. f.kind = "file" /\ root = "directory"
        BY DEF PathsIInv, CompleteIsRestored, RootIsMade
      <4>2. IsApprovedSkill(f.path)
        BY <1>1, <1>4, <2>1, <3>2 DEF PathsIInv, JudgedIsKept, ShouldSync
      <4>3. f.markdown
        BY <1>4, <2>1, <3>2, <4>1
      <4> QED
        BY <1>1, <1>4, <2>1, <3>2, <4>1, <4>2, <4>3 DEF Instructs
    <3> QED
      BY <2>2, <3>1, <3>2
  <2> QED
    BY <1>2, <2>3, <2>4, <2>5 DEF PathsIInv
<1> QED
  BY <1>3, <1>4 DEF UploadPath

LEMMA PathsInvariantStep == PathsIInv /\ [PathsNext]_pathVars => PathsIInv'
<1> SUFFICES ASSUME PathsIInv, [PathsNext]_pathVars PROVE PathsIInv'
  OBVIOUS
<1> USE DEF PathsIInv
<1>1. CASE Prepare
  <2>1. ~complete
    BY <1>1 DEF CompleteIsRestored, Prepare
  <2>2. PathsTypeOK' /\ RootIsMade' /\ CompleteIsRestored' /\ JudgedIsKept' /\ SavedIsKept'
    BY <1>1, <2>1 DEF Prepare, PathsTypeOK, RootIsMade, CompleteIsRestored, JudgedIsKept, SavedIsKept
  <2>3. RestoredIsSafe' /\ OwnNamespaceOnly'
    BY <1>1 DEF Prepare, RestoredIsSafe, OwnNamespaceOnly
  <2>4. SavedComesBack' /\ SkillsComeBack'
    BY <1>1, <2>1 DEF Prepare, SavedComesBack, SkillsComeBack
  <2> QED
    BY <2>2, <2>3, <2>4
<1>2. CASE RestoreNothing
  <2>1. ~complete
    BY <1>2 DEF CompleteIsRestored, RestoreNothing
  <2>2. PathsTypeOK' /\ RootIsMade' /\ CompleteIsRestored' /\ JudgedIsKept' /\ SavedIsKept'
    BY <1>2, <2>1
       DEF RestoreNothing, PathsTypeOK, RootIsMade, CompleteIsRestored, JudgedIsKept, SavedIsKept
  <2>3. RestoredIsSafe' /\ OwnNamespaceOnly'
    BY <1>2 DEF RestoreNothing, RestoredIsSafe, OwnNamespaceOnly
  <2>4. SavedComesBack' /\ SkillsComeBack'
    BY <1>2, <2>1 DEF RestoreNothing, SavedComesBack, SkillsComeBack
  <2> QED
    BY <2>2, <2>3, <2>4
<1>3. CASE Make
  BY <1>3, MakeKeeps
<1>4. CASE Restart
  <2>1. complete' = FALSE /\ (disk' = {} \/ disk' = disk) /\ judged' = << >> /\ stage' = "new"
        /\ objects' = objects /\ (root' = root \/ root' = "missing")
    BY <1>4 DEF Restart
  <2>2. PathsTypeOK' /\ RootIsMade' /\ CompleteIsRestored' /\ JudgedIsKept' /\ SavedIsKept'
    BY <2>1 DEF PathsTypeOK, RootIsMade, CompleteIsRestored, JudgedIsKept, SavedIsKept
  <2>3. RestoredIsSafe' /\ OwnNamespaceOnly'
    BY <2>1 DEF RestoredIsSafe, OwnNamespaceOnly
  <2>4. SavedComesBack' /\ SkillsComeBack'
    BY <2>1 DEF SavedComesBack, SkillsComeBack
  <2> QED
    BY <2>2, <2>3, <2>4
<1>5. ASSUME NEW ns \in {"own", "other"}, JudgeFile(ns) PROVE PathsIInv'
  <2>1. /\ ShouldSync(judged') /\ judged' \in Keys /\ stage' = stage /\ root' = root
        /\ disk' = disk /\ objects' = objects /\ complete' = complete
    BY <1>5 DEF JudgeFile, PathsTypeOK
  <2>2. PathsTypeOK' /\ RootIsMade' /\ CompleteIsRestored' /\ JudgedIsKept' /\ SavedIsKept'
    BY <2>1 DEF PathsTypeOK, RootIsMade, CompleteIsRestored, JudgedIsKept, SavedIsKept
  <2>3. RestoredIsSafe' /\ OwnNamespaceOnly' /\ SavedComesBack' /\ SkillsComeBack'
    BY <2>1 DEF RestoredIsSafe, OwnNamespaceOnly, SavedComesBack, SkillsComeBack, Instructs
  <2> QED
    BY <2>2, <2>3
<1>6. ASSUME NEW ns \in {"own", "other"}, RestorePaths(ns) \/ UploadPath(ns) PROVE PathsIInv'
  BY <1>6, RestoreKeeps, UploadKeeps
<1>7. CASE UNCHANGED pathVars
  <2> USE <1>7 DEF pathVars
  <2>1. PathsTypeOK' /\ RootIsMade' /\ CompleteIsRestored' /\ JudgedIsKept' /\ SavedIsKept'
    BY DEF PathsTypeOK, RootIsMade, CompleteIsRestored, JudgedIsKept, SavedIsKept
  <2>2. RestoredIsSafe' /\ OwnNamespaceOnly' /\ SavedComesBack' /\ SkillsComeBack'
    BY DEF RestoredIsSafe, OwnNamespaceOnly, SavedComesBack, SkillsComeBack, Instructs
  <2> QED
    BY <2>1, <2>2
<1> QED
  BY <1>1, <1>2, <1>3, <1>4, <1>5, <1>6, <1>7 DEF PathsNext

LEMMA PathsInvariance == PathsSpec => []PathsIInv
BY PathsInitial, PathsInvariantStep, PTL DEF PathsSpec

\* Whatever objects were slipped into the bucket, whatever files and links the
\* agent makes while a save is under way and however often the process restarts:
\* restore puts only paths below the root into the workspace, as regular files in
\* regular directories and skills only as approved Markdown, and a session reads
\* and writes below its own namespace only (workspace_sync.py, restore and save).
THEOREM WorkspaceStaysOwn == PathsSpec => []WorkspaceIsOwn
<1>1. PathsIInv => WorkspaceIsOwn
  BY DEF PathsIInv, WorkspaceIsOwn
<1> QED
  BY <1>1, PathsInvariance, PTL

\* A restore without failures into an empty workspace brings back every file that
\* was saved, or the file in the place of its directory, and puts every skill
\* that was saved as Markdown into force, whatever the paths are.
THEOREM SavedFilesComeBack == PathsSpec => []SavesComeBack
<1>1. PathsIInv => SavesComeBack
  BY DEF PathsIInv, SavesComeBack
<1> QED
  BY <1>1, PathsInvariance, PTL

-----------------------------------------------------------------------------
(***************************************************************************)
(* Chunks.                                                                 *)
(***************************************************************************)

LEMMA PrintedIs ==
  ASSUME NEW t \in Seq(Characters)
  PROVE  /\ Printed(t) \in Seq(Seq(Characters)) /\ Len(Printed(t)) = Len(t)
         /\ \A i \in 1..Len(t) : Printed(t)[i] = IF t[i] = NL THEN << >> ELSE <<t[i]>>
<1>1. Len(t) \in Nat /\ DOMAIN t = 1..Len(t) /\ \A i \in 1..Len(t) : t[i] \in Characters
  BY LenProperties, ElementOfSeq
<1>2. \A c \in Characters : (IF c = NL THEN << >> ELSE <<c>>) \in Seq(Characters)
  BY EmptySeq
<1>3. Printed(t) = [i \in 1..Len(t) |-> IF t[i] = NL THEN << >> ELSE <<t[i]>>]
  BY <1>1 DEF Printed
<1>4. Printed(t) \in [1..Len(t) -> Seq(Characters)]
  BY <1>1, <1>2, <1>3
<1>5. \A i \in 1..Len(t) : Printed(t)[i] = IF t[i] = NL THEN << >> ELSE <<t[i]>>
  BY <1>3
<1>6. Printed(t) \in Seq(Seq(Characters)) /\ Len(Printed(t)) = Len(t)
  BY <1>1, <1>4
<1> QED
  BY <1>5, <1>6

\* The printable characters of two texts one behind the other.
LEMMA PrintableOfConcat ==
  ASSUME NEW s \in Seq(Characters), NEW t \in Seq(Characters)
  PROVE  /\ Printable(s \o t) = Printable(s) \o Printable(t)
         /\ Printable(s) \in Seq(Characters) /\ Printable(t) \in Seq(Characters)
<1>1. /\ s \o t \in Seq(Characters) /\ Len(s \o t) = Len(s) + Len(t)
      /\ Len(s) \in Nat /\ Len(t) \in Nat
      /\ \A i \in 1..(Len(s) + Len(t)) : (s \o t)[i] = IF i <= Len(s) THEN s[i] ELSE t[i - Len(s)]
  BY ConcatProperties, LenProperties
<1> DEFINE p == Printed(s)
           q == Printed(t)
           r == Printed(s \o t)
<1>2. /\ p \in Seq(Seq(Characters)) /\ Len(p) = Len(s)
      /\ \A i \in 1..Len(s) : p[i] = IF s[i] = NL THEN << >> ELSE <<s[i]>>
      /\ q \in Seq(Seq(Characters)) /\ Len(q) = Len(t)
      /\ \A i \in 1..Len(t) : q[i] = IF t[i] = NL THEN << >> ELSE <<t[i]>>
      /\ r \in Seq(Seq(Characters)) /\ Len(r) = Len(s) + Len(t)
      /\ \A i \in 1..(Len(s) + Len(t)) :
           r[i] = IF (s \o t)[i] = NL THEN << >> ELSE <<(s \o t)[i]>>
  BY <1>1, PrintedIs
<1> HIDE DEF p, q, r
<1>3. /\ p \o q \in Seq(Seq(Characters)) /\ Len(p \o q) = Len(s) + Len(t)
      /\ \A i \in 1..(Len(s) + Len(t)) :
           (p \o q)[i] = IF i <= Len(s) THEN p[i] ELSE q[i - Len(s)]
  <2>1. p \in Seq(Seq(Characters)) /\ q \in Seq(Seq(Characters))
    BY <1>2
  <2>2. /\ p \o q \in Seq(Seq(Characters)) /\ Len(p \o q) = Len(p) + Len(q)
        /\ \A i \in 1..(Len(p) + Len(q)) :
             (p \o q)[i] = IF i <= Len(p) THEN p[i] ELSE q[i - Len(p)]
    BY <2>1, ConcatProperties
  <2>3. Len(p) = Len(s) /\ Len(q) = Len(t)
    BY <1>2
  <2> QED
    BY <2>2, <2>3, Zenon
<1>4. ASSUME NEW i \in 1..(Len(s) + Len(t)) PROVE r[i] = (p \o q)[i]
  <2>1. CASE i <= Len(s)
    <3>1. i \in 1..Len(s)
      BY <1>1, <2>1
    <3> QED
      BY <1>1, <1>2, <1>3, <2>1, <3>1
  <2>2. CASE ~(i <= Len(s))
    <3>1. i - Len(s) \in 1..Len(t)
      BY <1>1, <2>2
    <3> QED
      BY <1>1, <1>2, <1>3, <2>2, <3>1
  <2> QED
    BY <2>1, <2>2
<1>5. r = p \o q
  BY <1>2, <1>3, <1>4, SeqEqual
<1>6. FlattenSeq(p \o q) = FlattenSeq(p) \o FlattenSeq(q) /\ FlattenSeq(p) \in Seq(Characters)
      /\ FlattenSeq(q) \in Seq(Characters)
  BY <1>2, FlattenOfConcat
<1> QED
  BY <1>5, <1>6 DEF Printable, p, q, r

LEMMA PrintableOfNewlines ==
  ASSUME NEW t \in Seq(Characters), \A i \in 1..Len(t) : t[i] = NL
  PROVE  Printable(t) = << >>
<1>1. /\ Printed(t) \in Seq(Seq(Characters))
      /\ \A i \in 1..Len(Printed(t)) : Printed(t)[i] = << >>
  BY PrintedIs
<1> QED
  BY <1>1, FlattenOfNothing DEF Printable

\* Where a text is cut: at the last newline that leaves a chunk that fits.
LEMMA SplitAtIs ==
  ASSUME NEW t \in Seq(Characters), Len(t) > MaxLen
  PROVE  SplitAt(t) \in 0..MaxLen /\ (SplitAt(t) = 0 => t[1] = NL)
<1>1. MaxLen \in Nat /\ MaxLen # 0
  BY ChunksAssumption
<1>2. CASE Newlines(t) = {}
  BY <1>1, <1>2 DEF SplitAt
<1>3. CASE Newlines(t) # {}
  <2> DEFINE N == Newlines(t)
             D == {MaxLen - i : i \in N}
  <2>1. \A i \in N : i \in 1..MaxLen /\ t[i] = NL
    BY DEF Newlines
  <2>2. D \in SUBSET Nat /\ D # {}
    BY <1>1, <1>3, <2>1
  <2>3. PICK d \in D : \A e \in D : d <= e
    <3> HIDE DEF D
    <3> QED
      BY <2>2, LeastNumber
  <2>4. PICK i \in N : d = MaxLen - i
    OBVIOUS
  <2>5. ASSUME NEW j \in N PROVE j <= i
    <3>1. MaxLen - i <= MaxLen - j
      BY <2>3, <2>4
    <3> QED
      BY <1>1, <2>1, <3>1
  <2> DEFINE newline == CHOOSE k \in N : \A j \in N : j <= k
  <2>6. newline \in N
    BY <2>5
  <2>7. SplitAt(t) = newline - 1
    BY <1>3 DEF SplitAt
  <2> HIDE DEF newline
  <2> QED
    BY <1>1, <2>1, <2>6, <2>7
<1> QED
  BY <1>2, <1>3

\* What is stripped behind a cut is newlines.
LEMMA StrippedIs ==
  ASSUME NEW t \in Seq(Characters), NEW from \in 1..(Len(t) + 1)
  PROVE  \E k \in from..(Len(t) + 1) :
           /\ Stripped(t, from) = SubSeq(t, k, Len(t))
           /\ \A j \in from..(k - 1) : t[j] = NL
           /\ k <= Len(t) => t[k] # NL
<1> DEFINE Kept == {i \in from..Len(t) : t[i] # NL}
<1>1. Len(t) \in Nat
  BY LenProperties
<1>2. CASE Kept = {}
  <2>1. Stripped(t, from) = << >>
    BY <1>2 DEF Stripped
  <2>2. SubSeq(t, Len(t) + 1, Len(t)) = << >>
    BY <1>1, SubSeqEmpty
  <2>3. /\ Len(t) + 1 \in from..(Len(t) + 1) /\ (Len(t) + 1) - 1 = Len(t)
        /\ ~(Len(t) + 1 <= Len(t))
    BY <1>1
  <2> QED
    BY <1>2, <2>1, <2>2, <2>3
<1>3. CASE Kept # {}
  <2>1. Kept \in SUBSET Nat
    BY <1>1
  <2>2. \E k \in Kept : \A j \in Kept : k <= j
    <3> HIDE DEF Kept
    <3> QED
      BY <1>3, <2>1, LeastNumber
  <2> DEFINE k == CHOOSE i \in Kept : \A j \in Kept : i <= j
  <2>3. k \in Kept /\ \A j \in Kept : k <= j
    BY <2>2
  <2>4. Stripped(t, from) = SubSeq(t, k, Len(t))
    BY <1>3 DEF Stripped
  <2> HIDE DEF k
  <2>5. k \in from..Len(t)
    BY <2>3
  <2>6. k \in from..(Len(t) + 1)
    BY <1>1, <2>5
  <2>7. ASSUME NEW j \in from..(k - 1) PROVE t[j] = NL
    <3>1. j \in from..Len(t) /\ ~(k <= j)
      BY <1>1, <2>5
    <3> QED
      BY <2>3, <3>1
  <2>8. t[k] # NL
    BY <2>3
  <2> QED
    BY <2>4, <2>6, <2>7, <2>8
<1> QED
  BY <1>2, <1>3

\* A cut loses newlines only, leaves a chunk that fits and a shorter text.
LEMMA CutIs ==
  ASSUME NEW t \in Seq(Characters), Len(t) > MaxLen
  PROVE  LET c == SubSeq(t, 1, SplitAt(t))
             r == Stripped(t, SplitAt(t) + 1)
         IN /\ c \in Seq(Characters) /\ Len(c) <= MaxLen
            /\ r \in Seq(Characters) /\ Len(r) + 1 <= Len(t)
            /\ Printable(c \o r) = Printable(t)
<1> DEFINE n == Len(t)
           s == SplitAt(t)
           c == SubSeq(t, 1, s)
           r == Stripped(t, s + 1)
<1>1. n \in Nat /\ s \in 0..MaxLen /\ MaxLen \in Nat /\ n > MaxLen /\ (s = 0 => t[1] = NL)
  BY SplitAtIs, LenProperties, ChunksAssumption
<1> HIDE DEF s
<1>2. s + 1 \in 1..(n + 1) /\ s \in Nat /\ s < n
  BY <1>1
<1>3. PICK k \in (s + 1)..(n + 1) : /\ r = SubSeq(t, k, n)
                                    /\ \A j \in (s + 1)..(k - 1) : t[j] = NL
                                    /\ k <= n => t[k] # NL
  BY <1>2, StrippedIs
<1> HIDE DEF r
<1>4. \A i \in 1..n : t[i] \in Characters
  BY ElementOfSeq
<1> DEFINE mid == SubSeq(t, s + 1, k - 1)
<1>5. c \in Seq(Characters) /\ Len(c) = s
  <2>1. \A i \in 1..s : t[i] \in Characters
    BY <1>1, <1>2, <1>4
  <2>2. c \in Seq(Characters) /\ Len(c) = IF 1 <= s THEN s - 1 + 1 ELSE 0
    BY <1>2, <2>1, SubSeqProperties
  <2> HIDE DEF c
  <2> QED
    BY <1>2, <2>2
<1>6. k \in Int /\ k >= s + 1 /\ k <= n + 1
  BY <1>1, <1>2
<1>7. r \in Seq(Characters) /\ Len(r) = n - k + 1
  <2>1. \A i \in k..n : t[i] \in Characters
    BY <1>1, <1>2, <1>4, <1>6
  <2>2. r \in Seq(Characters) /\ Len(r) = IF k <= n THEN n - k + 1 ELSE 0
    BY <1>1, <1>3, <1>6, <2>1, SubSeqProperties
  <2> QED
    BY <1>1, <1>6, <2>2
<1>8. Len(r) + 1 <= n
  <2>1. CASE s = 0
    <3>1. k # 1
      BY <1>1, <1>3, <2>1
    <3> QED
      BY <1>1, <1>6, <1>7, <2>1, <3>1
  <2>2. CASE s # 0
    BY <1>1, <1>2, <1>6, <1>7, <2>2
  <2> QED
    BY <2>1, <2>2
<1>9. mid \in Seq(Characters) /\ \A i \in 1..Len(mid) : mid[i] = NL
  <2>1. \A i \in (s + 1)..(k - 1) : t[i] \in Characters
    BY <1>1, <1>2, <1>4, <1>6
  <2>2. /\ mid \in Seq(Characters)
        /\ Len(mid) = IF s + 1 <= k - 1 THEN (k - 1) - (s + 1) + 1 ELSE 0
        /\ \A i \in 1..((k - 1) - (s + 1) + 1) : mid[i] = t[(s + 1) + i - 1]
    BY <1>2, <1>6, <2>1, SubSeqProperties
  <2> HIDE DEF mid
  <2>3. ASSUME NEW i \in 1..Len(mid) PROVE mid[i] = NL
    <3>1. i \in 1..((k - 1) - (s + 1) + 1) /\ (s + 1) + i - 1 \in (s + 1)..(k - 1)
      BY <1>2, <1>6, <2>2
    <3> QED
      BY <1>3, <2>2, <3>1
  <2> QED
    BY <2>2, <2>3
<1>10. c \o mid = SubSeq(t, 1, k - 1) /\ SubSeq(t, 1, k - 1) \o r = t
  <2>1. /\ 1 \in 1..(n + 1) /\ s \in (1 - 1)..n /\ k - 1 \in s..n
        /\ k - 1 \in (1 - 1)..n /\ n \in (k - 1)..n /\ (k - 1) + 1 = k
    BY <1>1, <1>2, <1>6
  <2>2. c \o mid = SubSeq(t, 1, k - 1)
    BY <2>1, ConcatAdjacentSubSeq
  <2>3. SubSeq(t, 1, k - 1) \o SubSeq(t, (k - 1) + 1, n) = SubSeq(t, 1, n)
    BY <2>1, ConcatAdjacentSubSeq
  <2>4. SubSeq(t, 1, n) = t
    BY SubSeqFull
  <2> QED
    BY <1>3, <2>1, <2>2, <2>3, <2>4
<1> HIDE DEF c, mid, n
<1>11. t = (c \o mid) \o r
  BY <1>10
<1>12. /\ Printable(c) \in Seq(Characters)
       /\ Printable(c \o r) = Printable(c) \o Printable(r)
       /\ Printable(c \o mid) = Printable(c) \o Printable(mid)
       /\ c \o mid \in Seq(Characters)
  BY <1>5, <1>7, <1>9, PrintableOfConcat, ConcatProperties
<1>13. Printable(t) = Printable(c \o mid) \o Printable(r)
  BY <1>7, <1>11, <1>12, PrintableOfConcat
<1>14. Printable(mid) = << >>
  BY <1>9, PrintableOfNewlines
<1>15. Printable(c \o mid) = Printable(c)
  BY <1>12, <1>14, ConcatEmptySeq
<1>16. Len(c) <= MaxLen
  BY <1>1, <1>5
<1> QED
  BY <1>5, <1>7, <1>8, <1>12, <1>13, <1>15, <1>16 DEF c, r, s, n

\* What the chat shows are chunks up to the one that is sent; that one is among
\* them, as the last, only while it is tried as plain text.
ShownSoFar ==
  /\ \A i \in 1..Len(delivered) : delivered[i] <= next
  /\ \A i \in 1..Len(delivered) :
       delivered[i] = next => asPlain /\ i = Len(delivered)

ChunksIInv ==
  /\ ChunksTypeOK /\ NothingLost /\ ChunksFit /\ CutShortens
  /\ ShownInOrder /\ ShownSoFar

LEMMA ChunksInitial == ChunksInit => ChunksIInv
<1> SUFFICES ASSUME ChunksInit PROVE ChunksIInv
  OBVIOUS
<1>1. /\ rest = whole /\ chunks = << >> /\ splitting = TRUE
      /\ next = 1 /\ asPlain = FALSE /\ delivered = << >>
  BY DEF ChunksInit
<1>2. whole \in Seq(Characters)
  <2>1. PICK n \in 1..MaxText : whole \in [1..n -> Characters]
    BY DEF ChunksInit, Text
  <2>2. n \in Nat
    OBVIOUS
  <2> QED
    BY <2>1, <2>2
<1>3. ChunksTypeOK
  <2>1. << >> \in Seq(Seq(Characters)) /\ << >> \in Seq(Nat)
    BY EmptySeq
  <2>2. next \in Nat \ {0}
    BY <1>1
  <2> QED
    BY <1>1, <1>2, <2>1, <2>2 DEF ChunksTypeOK
<1>4. NothingLost
  <2>1. FlattenSeq(chunks) = << >>
    <3>1. chunks \in Seq(Seq(Characters)) /\ Len(chunks) = 0
      BY <1>1
    <3>2. \A i \in 1..Len(chunks) : chunks[i] = << >>
      BY <3>1
    <3> QED
      BY <3>1, <3>2, FlattenOfNothing
  <2> QED
    BY <1>1, <1>2, <2>1, ConcatEmptySeq DEF NothingLost
<1>5. ChunksFit /\ CutShortens
  BY <1>1, <1>2 DEF ChunksFit, CutShortens
<1>6. ShownInOrder /\ ShownSoFar
  BY <1>1 DEF ShownInOrder, ShownSoFar
<1> QED
  BY <1>3, <1>4, <1>5, <1>6 DEF ChunksIInv

\* A chunk more.
LEMMA ChunkIsAdded ==
  ASSUME ChunksTypeOK, ChunksFit, NEW c \in Seq(Characters), Len(c) <= MaxLen,
         chunks' = Append(chunks, c)
  PROVE  /\ chunks' \in Seq(Seq(Characters)) /\ Len(chunks') = Len(chunks) + 1
         /\ ChunksFit' /\ FlattenSeq(chunks') = FlattenSeq(chunks) \o c
         /\ FlattenSeq(chunks) \in Seq(Characters)
<1>1. chunks \in Seq(Seq(Characters))
  BY DEF ChunksTypeOK
<1>2. /\ chunks' \in Seq(Seq(Characters)) /\ Len(chunks') = Len(chunks) + 1
      /\ \A i \in 1..Len(chunks) : chunks'[i] = chunks[i]
      /\ chunks'[Len(chunks) + 1] = c /\ Len(chunks) \in Nat
  BY <1>1, AppendProperties, LenProperties
<1>3. ChunksFit'
  <2> SUFFICES ASSUME NEW i \in 1..Len(chunks') PROVE Len(chunks'[i]) <= MaxLen
    BY DEF ChunksFit
  <2>1. i \in 1..Len(chunks) \/ i = Len(chunks) + 1
    BY <1>2
  <2>2. CASE i \in 1..Len(chunks)
    BY <1>2, <2>2 DEF ChunksFit
  <2>3. CASE i = Len(chunks) + 1
    BY <1>2, <2>3
  <2> QED
    BY <2>1, <2>2, <2>3
<1>4. chunks' = chunks \o <<c>>
  BY <1>1, AppendIsConcat
<1>5. <<c>> \in Seq(Seq(Characters))
  OBVIOUS
<1>6. /\ FlattenSeq(chunks \o <<c>>) = FlattenSeq(chunks) \o FlattenSeq(<<c>>)
      /\ FlattenSeq(chunks) \in Seq(Characters)
  BY <1>1, <1>5, FlattenOfConcat
<1>7. FlattenSeq(<<c>>) = c
  BY FlattenOfOne
<1> QED
  BY <1>2, <1>3, <1>4, <1>6, <1>7

LEMMA CutChunkKeeps == ChunksIInv /\ CutChunk => ChunksIInv'
<1> SUFFICES ASSUME ChunksIInv, CutChunk PROVE ChunksIInv'
  OBVIOUS
<1> DEFINE c == SubSeq(rest, 1, SplitAt(rest))
<1>1. /\ chunks' = Append(chunks, c) /\ rest' = Stripped(rest, SplitAt(rest) + 1)
      /\ Len(rest) > MaxLen
      /\ UNCHANGED <<whole, splitting, next, asPlain, delivered>>
  BY DEF CutChunk, CutFrom
<1>2. /\ ChunksTypeOK /\ ChunksFit /\ rest \in Seq(Characters) /\ whole \in Seq(Characters)
      /\ chunks \in Seq(Seq(Characters))
  BY DEF ChunksIInv, ChunksTypeOK
<1>3. /\ c \in Seq(Characters) /\ Len(c) <= MaxLen
      /\ rest' \in Seq(Characters) /\ Len(rest') + 1 <= Len(rest)
      /\ Printable(c \o rest') = Printable(rest)
  BY <1>1, <1>2, CutIs
<1> HIDE DEF c
<1>4. /\ chunks' \in Seq(Seq(Characters)) /\ Len(chunks') = Len(chunks) + 1
      /\ ChunksFit' /\ FlattenSeq(chunks') = FlattenSeq(chunks) \o c
      /\ FlattenSeq(chunks) \in Seq(Characters)
  BY <1>1, <1>2, <1>3, ChunkIsAdded
<1>5. ChunksTypeOK'
  BY <1>1, <1>2, <1>3, <1>4 DEF ChunksTypeOK
<1>6. NothingLost'
  <2>1. (FlattenSeq(chunks) \o c) \o rest' = FlattenSeq(chunks) \o (c \o rest')
    <3>1. FlattenSeq(chunks) \in Seq(Characters) /\ c \in Seq(Characters) /\ rest' \in Seq(Characters)
      BY <1>3, <1>4
    <3> QED
      BY ONLY <3>1, ConcatAssociative
  <2>2. c \o rest' \in Seq(Characters)
    BY <1>3, ConcatProperties
  <2>3. Printable(FlattenSeq(chunks) \o (c \o rest')) = Printable(FlattenSeq(chunks)) \o Printable(c \o rest')
    BY <1>4, <2>2, PrintableOfConcat
  <2>4. Printable(FlattenSeq(chunks) \o rest) = Printable(FlattenSeq(chunks)) \o Printable(rest)
    BY <1>2, <1>4, PrintableOfConcat
  <2>5. Printable(FlattenSeq(chunks) \o rest) = Printable(whole)
    BY DEF ChunksIInv, NothingLost
  <2> QED
    BY <1>1, <1>3, <1>4, <2>1, <2>3, <2>4, <2>5 DEF NothingLost
<1>7. CutShortens'
  <2>1. /\ Len(rest) \in Nat /\ Len(rest') \in Nat /\ Len(chunks) \in Nat
        /\ Len(whole) \in Nat
    BY <1>2, <1>3, LenProperties
  <2>2. Len(rest) + Len(chunks) <= Len(whole) /\ whole' = whole
    BY <1>1 DEF ChunksIInv, CutShortens
  <2>3. Len(rest') + Len(chunks') <= Len(whole)
    BY <1>3, <1>4, <2>1, <2>2
  <2> QED
    BY <2>2, <2>3 DEF CutShortens
<1>8. ShownInOrder' /\ ShownSoFar'
  BY <1>1 DEF ChunksIInv, ShownInOrder, ShownSoFar
<1> QED
  BY <1>4, <1>5, <1>6, <1>7, <1>8 DEF ChunksIInv

LEMMA LastChunkKeeps == ChunksIInv /\ LastChunk => ChunksIInv'
<1> SUFFICES ASSUME ChunksIInv, LastChunk PROVE ChunksIInv'
  OBVIOUS
<1>1. /\ chunks' = IF rest = << >> THEN chunks ELSE Append(chunks, rest)
      /\ rest' = << >> /\ splitting' = FALSE /\ Len(rest) <= MaxLen
      /\ UNCHANGED <<whole, next, asPlain, delivered>>
  BY DEF LastChunk
<1>2. /\ ChunksTypeOK /\ ChunksFit /\ rest \in Seq(Characters) /\ whole \in Seq(Characters)
      /\ chunks \in Seq(Seq(Characters)) /\ rest' \in Seq(Characters) /\ Len(rest') = 0
  BY <1>1, EmptySeq DEF ChunksIInv, ChunksTypeOK
<1>3. ShownInOrder' /\ ShownSoFar'
  BY <1>1 DEF ChunksIInv, ShownInOrder, ShownSoFar
<1>4. /\ Len(rest) \in Nat /\ Len(chunks) \in Nat /\ Len(whole) \in Nat
      /\ rest # << >> => Len(rest) # 0
  BY <1>2, LenProperties, EmptySeq
<1>5. Len(rest) + Len(chunks) <= Len(whole)
  BY DEF ChunksIInv, CutShortens
<1>6. CASE rest = << >>
  <2>1. chunks' = chunks /\ rest' = rest
    BY <1>1, <1>6
  <2>2. ChunksTypeOK'
    BY <1>1, <1>2, <2>1 DEF ChunksTypeOK
  <2>3. NothingLost' /\ ChunksFit' /\ CutShortens'
    BY <1>1, <2>1 DEF ChunksIInv, NothingLost, ChunksFit, CutShortens
  <2> QED
    BY <1>3, <2>2, <2>3 DEF ChunksIInv
<1>7. CASE rest # << >>
  <2>1. chunks' = Append(chunks, rest)
    BY <1>1, <1>7
  <2>2. /\ chunks' \in Seq(Seq(Characters)) /\ Len(chunks') = Len(chunks) + 1
        /\ ChunksFit' /\ FlattenSeq(chunks') = FlattenSeq(chunks) \o rest
        /\ FlattenSeq(chunks) \in Seq(Characters)
    BY <1>1, <1>2, <2>1, ChunkIsAdded
  <2>3. ChunksTypeOK'
    BY <1>1, <1>2, <2>2 DEF ChunksTypeOK
  <2>4. NothingLost'
    <3>1. (FlattenSeq(chunks) \o rest) \o << >> = FlattenSeq(chunks) \o rest
      BY <1>2, <2>2, ConcatProperties, ConcatEmptySeq
    <3> QED
      BY <1>1, <2>2, <3>1 DEF ChunksIInv, NothingLost
  <2>5. CutShortens'
    <3>1. Len(rest') + Len(chunks') <= Len(whole)
      BY <1>2, <1>4, <1>5, <1>7, <2>2
    <3> QED
      BY <1>1, <3>1 DEF CutShortens
  <2> QED
    BY <1>3, <2>2, <2>3, <2>4, <2>5 DEF ChunksIInv
<1> QED
  BY <1>6, <1>7

\* The chunk that is sent is shown, or not, behind what is there; then it is
\* tried again, or the next one is sent.
LEMMA ShowingKeeps ==
  ASSUME ChunksTypeOK, ShownInOrder, ShownSoFar, Shown,
         \/ next' = next + 1 /\ asPlain' = FALSE
         \/ next' = next /\ asPlain = FALSE /\ asPlain' = TRUE
  PROVE  ShownInOrder' /\ ShownSoFar' /\ delivered' \in Seq(Nat) /\ next' \in Nat \ {0}
<1> DEFINE n == Len(delivered)
<1>1. /\ delivered \in Seq(Nat) /\ n \in Nat /\ next \in Nat /\ next # 0
      /\ \A i \in 1..n : delivered[i] \in Nat
  BY LenProperties, ElementOfSeq DEF ChunksTypeOK
<1>2. /\ \A i \in 1..n - 1 : delivered[i] <= delivered[i + 1]
      /\ \A i \in 1..n - 2 : delivered[i] < delivered[i + 2]
      /\ \A i \in 1..n : delivered[i] <= next
      /\ \A i \in 1..n : delivered[i] = next => asPlain /\ i = n
  BY DEF ShownInOrder, ShownSoFar
<1>3. next' \in Nat \ {0} /\ (next' = next + 1 \/ next' = next)
  BY <1>1
<1>4. CASE delivered' = delivered
  <2>1. ShownInOrder'
    BY <1>2, <1>4 DEF ShownInOrder
  <2>2. \A i \in 1..n : delivered[i] <= next' /\ delivered[i] # next'
    <3>1. CASE next' = next + 1
      BY <1>1, <1>2, <3>1
    <3>2. CASE next' = next /\ asPlain = FALSE
      BY <1>2, <3>2
    <3> QED
      BY <3>1, <3>2
  <2>3. ShownSoFar'
    BY <1>4, <2>2 DEF ShownSoFar
  <2> QED
    BY <1>1, <1>3, <1>4, <2>1, <2>3
<1>5. CASE delivered' = Append(delivered, next)
  <2>1. /\ delivered' \in Seq(Nat) /\ Len(delivered') = n + 1
        /\ \A i \in 1..n : delivered'[i] = delivered[i]
        /\ delivered'[n + 1] = next
    BY <1>1, <1>5, AppendProperties
  <2>2. ASSUME NEW i \in 1..n PROVE delivered'[i] <= delivered'[i + 1]
    <3>1. CASE i = n
      BY <1>2, <2>1, <3>1
    <3>2. CASE i # n
      <4>1. i \in 1..n - 1 /\ i + 1 \in 1..n
        BY <1>1, <3>2
      <4> QED
        BY <1>2, <2>1, <4>1
    <3> QED
      BY <3>1, <3>2
  <2>3. ASSUME NEW i \in 1..n - 1 PROVE delivered'[i] < delivered'[i + 2]
    <3>1. i \in 1..n /\ i # n /\ delivered[i] \in Nat
      BY <1>1
    <3>2. CASE i = n - 1
      <4>1. i + 2 = n + 1
        BY <1>1, <3>2
      <4>2. delivered[i] < next
        BY <1>1, <1>2, <3>1
      <4> QED
        BY <2>1, <3>1, <4>1, <4>2
    <3>3. CASE i # n - 1
      <4>1. i \in 1..n - 2 /\ i + 2 \in 1..n
        BY <1>1, <3>3
      <4> QED
        BY <1>2, <2>1, <3>1, <4>1
    <3> QED
      BY <3>2, <3>3
  <2>4. ShownInOrder'
    <3>1. (n + 1) - 1 = n /\ (n + 1) - 2 = n - 1
      BY <1>1
    <3> QED
      BY <2>1, <2>2, <2>3, <3>1 DEF ShownInOrder
  <2>5. ASSUME NEW i \in 1..(n + 1)
        PROVE  delivered'[i] <= next' /\ (delivered'[i] = next' => asPlain' /\ i = n + 1)
    <3>1. CASE i = n + 1
      <4>1. next <= next' /\ (next = next' => asPlain')
        BY <1>1
      <4> QED
        BY <2>1, <3>1, <4>1
    <3>2. CASE i # n + 1
      <4>1. i \in 1..n
        BY <1>1, <3>2
      <4>2. delivered'[i] = delivered[i] /\ delivered[i] <= next /\ delivered[i] \in Nat
        BY <1>1, <1>2, <2>1, <4>1
      <4>3. CASE next' = next + 1
        BY <1>1, <4>2, <4>3
      <4>4. CASE next' = next /\ asPlain = FALSE
        BY <1>2, <4>1, <4>2, <4>4
      <4> QED
        BY <4>3, <4>4
    <3> QED
      BY <3>1, <3>2
  <2>6. ShownSoFar'
    BY <2>1, <2>5 DEF ShownSoFar
  <2> QED
    BY <1>3, <2>1, <2>4, <2>6
<1> QED
  BY <1>4, <1>5 DEF Shown

LEMMA ChunksInvariantStep == ChunksIInv /\ [ChunksNext]_chunkVars => ChunksIInv'
<1> SUFFICES ASSUME ChunksIInv, [ChunksNext]_chunkVars PROVE ChunksIInv'
  OBVIOUS
<1>1. CASE CutChunk
  BY <1>1, CutChunkKeeps
<1>2. CASE LastChunk
  BY <1>2, LastChunkKeeps
<1>3. CASE SendMarkdown \/ SendPlain
  <2>1. /\ Shown
        /\ \/ next' = next + 1 /\ asPlain' = FALSE
           \/ next' = next /\ asPlain = FALSE /\ asPlain' = TRUE
        /\ UNCHANGED <<whole, rest, chunks, splitting>>
    <3>1. asPlain \in BOOLEAN
      BY DEF ChunksIInv, ChunksTypeOK
    <3>2. CASE SendMarkdown
      BY <3>1, <3>2 DEF SendMarkdown, Shown
    <3>3. CASE SendPlain
      BY <3>3 DEF SendPlain
    <3> QED
      BY <1>3, <3>2, <3>3
  <2>2. ShownInOrder' /\ ShownSoFar' /\ delivered' \in Seq(Nat) /\ next' \in Nat \ {0}
    BY <2>1, ShowingKeeps DEF ChunksIInv
  <2>3. asPlain' \in BOOLEAN
    BY <2>1
  <2>4. ChunksTypeOK'
    BY <2>1, <2>2, <2>3 DEF ChunksIInv, ChunksTypeOK
  <2>5. NothingLost' /\ ChunksFit' /\ CutShortens'
    BY <2>1 DEF ChunksIInv, NothingLost, ChunksFit, CutShortens
  <2> QED
    BY <2>2, <2>4, <2>5 DEF ChunksIInv
<1>4. CASE UNCHANGED chunkVars
  BY <1>4 DEF chunkVars, ChunksIInv, ChunksTypeOK, NothingLost, ChunksFit, CutShortens,
              ShownInOrder, ShownSoFar
<1> QED
  BY <1>1, <1>2, <1>3, <1>4 DEF ChunksNext

LEMMA ChunksInvariance == ChunksSpec => []ChunksIInv
BY ChunksInitial, ChunksInvariantStep, PTL DEF ChunksSpec

\* However long the answer and wherever its newlines, whatever calls fail: its
\* chunks fit, hold all of it but newlines, are shown in order and none more than
\* twice; and cutting ends, since every cut shortens the text (index.py,
\* _split_message and _send_telegram_message).
THEOREM AnswerArrivesWhole == ChunksSpec => []AnswerIsWhole
<1>1. ChunksIInv => AnswerIsWhole
  BY DEF ChunksIInv, AnswerIsWhole
<1> QED
  BY <1>1, ChunksInvariance, PTL

-----------------------------------------------------------------------------
(***************************************************************************)
(* Wire.                                                                   *)
(***************************************************************************)

Splits(A) == [pieces : Seq(Seq(A)), open : Seq(A)]
Nothing == [pieces |-> << >>, open |-> << >>]

LEMMA PieceIsTyped ==
  ASSUME NEW A, NEW open \in Seq(A), NEW end \in Seq(A)
  PROVE  SubSeq(open, 1, Len(open) - Len(end)) \in Seq(A)
<1>1. Len(open) \in Nat /\ Len(end) \in Nat
  BY LenProperties
<1>2. Len(open) - Len(end) \in Int /\ 1 \in Int
  BY <1>1
<1>3. \A i \in 1..(Len(open) - Len(end)) : i \in 1..Len(open)
  BY <1>1
<1>4. \A i \in 1..(Len(open) - Len(end)) : open[i] \in A
  BY <1>3, ElementOfSeq
<1> QED
  BY <1>2, <1>4, SubSeqProperties

LEMMA TakeIsTyped ==
  ASSUME NEW A, NEW split \in Splits(A), NEW c \in A, NEW end \in Seq(A)
  PROVE  Take(split, c, end) \in Splits(A)
<1> DEFINE open == Append(split.open, c)
           piece == SubSeq(open, 1, Len(open) - Len(end))
<1>1. split.open \in Seq(A) /\ split.pieces \in Seq(Seq(A))
  BY DEF Splits
<1>2. open \in Seq(A) /\ Len(open) \in Nat /\ Len(end) \in Nat
  BY <1>1, AppendProperties, LenProperties
<1>3. piece \in Seq(A)
  BY <1>2, PieceIsTyped
<1>4. Append(split.pieces, piece) \in Seq(Seq(A)) /\ << >> \in Seq(A)
  <2> HIDE DEF piece
  <2> QED
    BY <1>1, <1>3, AppendProperties, EmptySeq
<1>5. Take(split, c, end) = IF IsSuffix(end, open)
                            THEN [pieces |-> Append(split.pieces, piece), open |-> << >>]
                            ELSE [pieces |-> split.pieces, open |-> open]
  BY DEF Take
<1> HIDE DEF open, piece
<1> QED
  BY <1>1, <1>2, <1>4, <1>5 DEF Splits

\* What Split builds up: the split of the first i symbols.
ReadsUp(f, text, end, n) ==
  f[0] = Nothing /\ \A i \in 1..n : f[i] = Take(f[i - 1], text[i], end)

LEMMA ReadsUpExists ==
  ASSUME NEW A, NEW text \in Seq(A), NEW end \in Seq(A), NEW n \in 0..Len(text)
  PROVE  \E f \in [0..n -> Splits(A)] : ReadsUp(f, text, end, n)
<1> DEFINE P(k) == \E f \in [0..k -> Splits(A)] : ReadsUp(f, text, end, k)
           Fails == {k \in 0..Len(text) : ~P(k)}
<1> SUFFICES ASSUME Fails # {} PROVE FALSE
  OBVIOUS
<1>1. Fails \in SUBSET Nat
  OBVIOUS
<1>2. PICK m \in Fails : \A k \in Fails : m <= k
  <2> HIDE DEF Fails
  <2> QED
    BY <1>1, LeastNumber
<1>3. m \in 0..Len(text) /\ ~P(m) /\ \A k \in 0..Len(text) : k < m => P(k)
  <2>1. m \in 0..Len(text) /\ ~P(m)
    OBVIOUS
  <2>2. ASSUME NEW k \in 0..Len(text), k < m PROVE P(k)
    <3>1. k \notin Fails
      BY <1>2, <2>1, <2>2
    <3> QED
      BY <3>1
  <2> QED
    BY <2>1, <2>2
<1>4. CASE m = 0
  <2> DEFINE g == [i \in 0..0 |-> Nothing]
  <2>1. Nothing \in Splits(A)
    BY EmptySeq DEF Nothing, Splits
  <2>2. g \in [0..0 -> Splits(A)]
    BY <2>1
  <2>3. ReadsUp(g, text, end, 0)
    BY DEF ReadsUp
  <2> QED
    BY <1>3, <1>4, <2>2, <2>3
<1>5. CASE m # 0
  <2>1. m - 1 \in 0..Len(text) /\ m - 1 < m /\ m \in 1..Len(text) /\ m - 1 \in 0..(m - 1)
    BY <1>3, <1>5
  <2>2. PICK f \in [0..(m - 1) -> Splits(A)] : ReadsUp(f, text, end, m - 1)
    BY <1>3, <2>1
  <2> DEFINE g == [i \in 0..m |-> IF i = m THEN Take(f[m - 1], text[m], end) ELSE f[i]]
  <2>3. Take(f[m - 1], text[m], end) \in Splits(A)
    <3>1. f[m - 1] \in Splits(A) /\ text[m] \in A
      BY <2>1, ElementOfSeq
    <3> QED
      BY <3>1, TakeIsTyped
  <2>4. \A i \in 0..m : i = m \/ i \in 0..(m - 1)
    BY <2>1
  <2>5. g \in [0..m -> Splits(A)]
    BY <2>3, <2>4
  <2>6. g[0] = Nothing
    BY <1>5, <2>1, <2>2 DEF ReadsUp
  <2>7. ASSUME NEW i \in 1..m PROVE g[i] = Take(g[i - 1], text[i], end)
    <3>1. i - 1 # m /\ i - 1 \in 0..m /\ i \in 0..m
      BY <2>1
    <3>2. g[i - 1] = f[i - 1]
      BY <3>1
    <3>3. CASE i = m
      BY <3>1, <3>2, <3>3
    <3>4. CASE i # m
      <4>1. i \in 1..(m - 1)
        BY <2>1, <3>4
      <4>2. g[i] = f[i]
        BY <3>1, <3>4
      <4> HIDE DEF g
      <4> QED
        BY <2>2, <3>2, <4>1, <4>2 DEF ReadsUp
    <3> QED
      BY <3>3, <3>4
  <2>8. ReadsUp(g, text, end, m)
    <3> HIDE DEF g
    <3> QED
      BY <2>6, <2>7 DEF ReadsUp
  <2> HIDE DEF g
  <2> QED
    BY <1>3, <2>5, <2>8
<1> QED
  BY <1>4, <1>5

\* There is one way to build it up.
LEMMA ReadsUpOnce ==
  ASSUME NEW text, NEW end, NEW n \in Nat, NEW f, NEW g,
         ReadsUp(f, text, end, n), ReadsUp(g, text, end, n)
  PROVE  f[n] = g[n]
<1> DEFINE Fails == {i \in 0..n : f[i] # g[i]}
<1>1. Fails = {}
  <2> SUFFICES ASSUME Fails # {} PROVE FALSE
    OBVIOUS
  <2>1. Fails \in SUBSET Nat
    OBVIOUS
  <2>2. PICK m \in Fails : \A k \in Fails : m <= k
    <3> HIDE DEF Fails
    <3> QED
      BY <2>1, LeastNumber
  <2>3. m \in 0..n /\ f[m] # g[m]
    OBVIOUS
  <2>4. m # 0
    BY <2>3 DEF ReadsUp
  <2>5. m - 1 \in 0..n /\ m \in 1..n /\ ~(m <= m - 1)
    BY <2>3, <2>4
  <2>6. f[m - 1] = g[m - 1]
    BY <2>2, <2>5
  <2> QED
    BY <2>3, <2>5, <2>6 DEF ReadsUp
<1>2. n \in 0..n
  OBVIOUS
<1> QED
  BY <1>1, <1>2

\* What Split returns.
LEMMA SplitIs ==
  ASSUME NEW A, NEW text \in Seq(A), NEW end \in Seq(A), NEW f, ReadsUp(f, text, end, Len(text))
  PROVE  Split(text, end) = f[Len(text)] /\ Split(text, end) \in Splits(A)
<1> DEFINE n == Len(text)
           read[i \in 0..n] == IF i = 0 THEN [pieces |-> << >>, open |-> << >>]
                               ELSE Take(read[i - 1], text[i], end)
<1>1. n \in Nat /\ n \in 0..n
  BY LenProperties
<1>2. Split(text, end) = read[n]
  BY DEF Split
<1>3. PICK g \in [0..n -> Splits(A)] : ReadsUp(g, text, end, n)
  BY <1>1, ReadsUpExists
<1>4. g = [i \in 0..n |-> IF i = 0 THEN [pieces |-> << >>, open |-> << >>]
                          ELSE Take(g[i - 1], text[i], end)]
  <2>1. ASSUME NEW i \in 0..n
        PROVE  g[i] = IF i = 0 THEN [pieces |-> << >>, open |-> << >>]
                      ELSE Take(g[i - 1], text[i], end)
    <3>1. i = 0 \/ i \in 1..n
      BY <1>1
    <3>2. i \in 1..n => i # 0
      BY <1>1
    <3> QED
      BY <1>3, <3>1, <3>2 DEF ReadsUp, Nothing
  <2> QED
    BY <2>1
<1>5. read = [i \in 0..n |-> IF i = 0 THEN [pieces |-> << >>, open |-> << >>]
                             ELSE Take(read[i - 1], text[i], end)]
  BY <1>4
<1> HIDE DEF read
<1>6. ReadsUp(read, text, end, n)
  <2>1. read[0] = Nothing
    BY <1>1, <1>5 DEF Nothing
  <2>2. ASSUME NEW i \in 1..n PROVE read[i] = Take(read[i - 1], text[i], end)
    <3>1. i \in 0..n /\ i # 0
      BY <1>1
    <3> QED
      BY <1>5, <3>1
  <2> QED
    BY <2>1, <2>2 DEF ReadsUp
<1>7. read[n] = g[n] /\ g[n] = f[n]
  BY <1>1, <1>3, <1>6, ReadsUpOnce
<1>8. g[n] \in Splits(A)
  BY <1>1, <1>3
<1> QED
  BY <1>2, <1>7, <1>8

LEMMA SplitOfNothing ==
  ASSUME NEW A, NEW end \in Seq(A)
  PROVE  Split(<< >>, end) = Nothing
<1> DEFINE f == [i \in {0} |-> Nothing]
<1>1. << >> \in Seq(A) /\ Len(<< >>) = 0
  BY EmptySeq
<1>2. ReadsUp(f, << >>, end, 0) /\ f[0] = Nothing
  BY DEF ReadsUp
<1> HIDE DEF f
<1>3. Split(<< >>, end) = f[0]
  BY <1>1, <1>2, SplitIs
<1> QED
  BY <1>2, <1>3

\* Split reads one symbol after the other.
LEMMA SplitOfAppend ==
  ASSUME NEW A, NEW text \in Seq(A), NEW c \in A, NEW end \in Seq(A)
  PROVE  /\ Split(text, end) \in Splits(A)
         /\ Split(Append(text, c), end) = Take(Split(text, end), c, end)
<1> DEFINE n == Len(text)
           more == Append(text, c)
<1>1. n \in Nat /\ n \in 0..n /\ n + 1 \in Nat
  BY LenProperties
<1>2. /\ more \in Seq(A) /\ Len(more) = n + 1 /\ more[n + 1] = c
      /\ \A i \in 1..n : more[i] = text[i]
  BY <1>1, AppendProperties
<1>3. PICK f \in [0..n -> Splits(A)] : ReadsUp(f, text, end, n)
  BY <1>1, ReadsUpExists
<1>4. Split(text, end) = f[n] /\ Split(text, end) \in Splits(A)
  BY <1>3, SplitIs
<1> DEFINE g == [i \in 0..(n + 1) |-> IF i = n + 1 THEN Take(f[n], c, end) ELSE f[i]]
<1>5. g[0] = Nothing /\ g[n + 1] = Take(f[n], c, end)
  <2>1. 0 \in 0..(n + 1) /\ n + 1 \in 0..(n + 1) /\ n + 1 # 0
    BY <1>1
  <2> QED
    BY <1>3, <2>1 DEF ReadsUp
<1>6. ASSUME NEW i \in 1..(n + 1) PROVE g[i] = Take(g[i - 1], more[i], end)
  <2>1. i \in 0..(n + 1) /\ i - 1 \in 0..(n + 1) /\ i - 1 # n + 1
    BY <1>1
  <2>2. g[i - 1] = f[i - 1]
    BY <2>1
  <2>3. CASE i = n + 1
    <3>1. i - 1 = n
      BY <1>1, <2>3
    <3> HIDE DEF g
    <3> QED
      BY <1>2, <1>5, <2>2, <2>3, <3>1
  <2>4. CASE i # n + 1
    <3>1. i \in 1..n
      BY <1>1, <2>4
    <3>2. g[i] = f[i]
      BY <2>1, <2>4
    <3>3. f[i] = Take(f[i - 1], text[i], end)
      BY <1>3, <3>1 DEF ReadsUp
    <3> HIDE DEF g
    <3> QED
      BY <1>2, <2>2, <3>1, <3>2, <3>3
  <2> QED
    BY <2>3, <2>4
<1> HIDE DEF g, more
<1>7. ReadsUp(g, more, end, n + 1)
  BY <1>5, <1>6 DEF ReadsUp
<1>8. Split(more, end) = g[n + 1]
  BY <1>2, <1>7, SplitIs
<1> QED
  BY <1>4, <1>5, <1>8 DEF more

LEMMA AppendBehind ==
  ASSUME NEW A, NEW s \in Seq(A), NEW t \in Seq(A), NEW c \in A
  PROVE  s \o Append(t, c) = Append(s \o t, c)
<1>1. s \o t \in Seq(A) /\ <<c>> \in Seq(A)
  BY ConcatProperties
<1>2. Append(s \o t, c) = (s \o t) \o <<c>>
  BY <1>1, AppendIsConcat
<1>3. Append(t, c) = t \o <<c>>
  BY AppendIsConcat
<1>4. (s \o t) \o <<c>> = s \o (t \o <<c>>)
  BY <1>1, ConcatAssociative
<1> QED
  BY <1>2, <1>3, <1>4

\* What is open has nothing that ends a piece.
LEMMA OpenStaysOpen ==
  ASSUME NEW A, NEW text \in Seq(A), NEW end \in Seq(A)
  PROVE  Split(Split(text, end).open, end) = [pieces |-> << >>, open |-> Split(text, end).open]
<1> DEFINE Good(t) == Split(Split(t, end).open, end) = [pieces |-> << >>, open |-> Split(t, end).open]
           Bad == {t \in Seq(A) : ~Good(t)}
<1>1. Good(<< >>)
  BY SplitOfNothing DEF Nothing
<1>2. ASSUME NEW t \in Seq(A), NEW c \in A, Good(t) PROVE Good(Append(t, c))
  <2> DEFINE s == Split(t, end)
             u == Split(Append(t, c), end)
             open == Append(s.open, c)
  <2>1. s \in Splits(A) /\ u = Take(s, c, end) /\ s.open \in Seq(A)
    BY SplitOfAppend DEF Splits
  <2>2. Split(s.open, end) = [pieces |-> << >>, open |-> s.open]
    BY <1>2
  <2> SUFFICES Split(u.open, end) = [pieces |-> << >>, open |-> u.open]
    OBVIOUS
  <2> HIDE DEF s, u
  <2>3. CASE IsSuffix(end, open)
    <3>1. u.open = << >>
      BY <2>1, <2>3 DEF Take
    <3> QED
      BY <3>1, SplitOfNothing DEF Nothing
  <2>4. CASE ~IsSuffix(end, open)
    <3>1. u.open = open
      BY <2>1, <2>4 DEF Take
    <3>2. Split(open, end) = Take([pieces |-> << >>, open |-> s.open], c, end)
      BY <2>1, <2>2, SplitOfAppend
    <3>3. Take([pieces |-> << >>, open |-> s.open], c, end) = [pieces |-> << >>, open |-> open]
      BY <2>4 DEF Take
    <3> QED
      BY <3>1, <3>2, <3>3
  <2> QED
    BY <2>3, <2>4
<1> HIDE DEF Good
<1>3. Bad = {}
  <2> SUFFICES ASSUME Bad # {} PROVE FALSE
    OBVIOUS
  <2>1. Bad \in SUBSET Seq(A)
    OBVIOUS
  <2>2. << >> \notin Bad /\ \A t \in Seq(A), c \in A : t \notin Bad => Append(t, c) \notin Bad
    BY <1>1, <1>2
  <2> HIDE DEF Bad
  <2> QED
    BY <2>1, <2>2, LeastText
<1>4. Good(text)
  BY <1>3
<1> QED
  BY <1>4 DEF Good

LEMMA SplitIsTyped ==
  ASSUME NEW A, NEW text \in Seq(A), NEW end \in Seq(A)
  PROVE  /\ Split(text, end) \in Splits(A)
         /\ Split(text, end).open \in Seq(A) /\ Split(text, end).pieces \in Seq(Seq(A))
<1>1. PICK f \in [0..Len(text) -> Splits(A)] : ReadsUp(f, text, end, Len(text))
  <2>1. Len(text) \in 0..Len(text)
    BY LenProperties
  <2> QED
    BY <2>1, ReadsUpExists
<1>2. Split(text, end) \in Splits(A)
  BY <1>1, SplitIs
<1> QED
  BY <1>2 DEF Splits

\* A text may be split in two goes: what is open after the first is put in
\* front of the second.
SplitsInTwo(text, added, end) ==
  /\ Split(text \o added, end).pieces
       = Split(text, end).pieces \o Split(Split(text, end).open \o added, end).pieces
  /\ Split(text \o added, end).open = Split(Split(text, end).open \o added, end).open

LEMMA SplitOfConcat ==
  ASSUME NEW A, NEW text \in Seq(A), NEW added \in Seq(A), NEW end \in Seq(A)
  PROVE  SplitsInTwo(text, added, end)
<1> DEFINE first == Split(text, end)
<1> DEFINE Good(t) == /\ Split(text \o t, end).pieces
                           = first.pieces \o Split(first.open \o t, end).pieces
                      /\ Split(text \o t, end).open = Split(first.open \o t, end).open
           Bad == {t \in Seq(A) : ~Good(t)}
<1>1. first \in Splits(A) /\ first.open \in Seq(A) /\ first.pieces \in Seq(Seq(A))
  BY SplitIsTyped
<1> HIDE DEF first
<1>2. Good(<< >>)
  <2>1. text \o << >> = text /\ first.open \o << >> = first.open
    BY <1>1, ConcatEmptySeq
  <2>2. Split(first.open, end).pieces = << >> /\ Split(first.open, end).open = first.open
    <3>1. Split(Split(text, end).open, end) = [pieces |-> << >>, open |-> Split(text, end).open]
      BY OpenStaysOpen
    <3> QED
      BY <3>1 DEF first
  <2>3. first.pieces \o << >> = first.pieces
    BY <1>1, ConcatEmptySeq
  <2> QED
    BY <2>1, <2>2, <2>3 DEF first
<1>3. ASSUME NEW t \in Seq(A), NEW c \in A, Good(t) PROVE Good(Append(t, c))
  <2> DEFINE f == first.open
             o == f \o t
             second == Split(o, end)
             both == Split(text \o t, end)
  <2>1. f \in Seq(A) /\ text \o t \in Seq(A) /\ o \in Seq(A)
    BY <1>1, ConcatProperties
  <2>2. second \in Splits(A) /\ both \in Splits(A)
    <3> HIDE DEF o
    <3> QED
      BY <2>1, SplitIsTyped
  <2>3. both.pieces = first.pieces \o second.pieces /\ both.open = second.open
    BY <1>3
  <2>4. Split(text \o Append(t, c), end) = Take(both, c, end)
    <3>1. text \o Append(t, c) = Append(text \o t, c)
      BY AppendBehind
    <3>2. Split(Append(text \o t, c), end) = Take(both, c, end)
      BY <2>1, SplitOfAppend
    <3> QED
      BY <3>1, <3>2
  <2>5. Split(f \o Append(t, c), end) = Take(second, c, end)
    <3> HIDE DEF f
    <3>1. f \o Append(t, c) = Append(o, c)
      BY <2>1, AppendBehind
    <3> HIDE DEF o
    <3>2. Split(Append(o, c), end) = Take(second, c, end)
      BY <2>1, SplitOfAppend
    <3> QED
      BY <3>1, <3>2
  <2> HIDE DEF second, both, o
  <2>6. /\ Take(both, c, end).pieces = first.pieces \o Take(second, c, end).pieces
        /\ Take(both, c, end).open = Take(second, c, end).open
    <3> DEFINE p == first.pieces
               open == Append(second.open, c)
               piece == SubSeq(open, 1, Len(open) - Len(end))
               q == second.pieces
    <3>1. second.open \in Seq(A) /\ q \in Seq(Seq(A)) /\ p \in Seq(Seq(A)) /\ p \o q \in Seq(Seq(A))
      BY <1>1, <2>2 DEF Splits
    <3>2. CASE IsSuffix(end, open)
      <4>1. Take(second, c, end) = [pieces |-> Append(q, piece), open |-> << >>]
        BY <3>2 DEF Take
      <4>2. Take(both, c, end) = [pieces |-> Append(p \o q, piece), open |-> << >>]
        <5>1. IsSuffix(end, Append(both.open, c))
              /\ piece = SubSeq(Append(both.open, c), 1, Len(Append(both.open, c)) - Len(end))
          BY <2>3, <3>2, Zenon
        <5>2. Take(both, c, end) = [pieces |-> Append(both.pieces, piece), open |-> << >>]
          <6> HIDE DEF piece
          <6> QED
            BY <5>1, Zenon DEF Take
        <5> QED
          BY <2>3, <5>2, Zenon
      <4>3. piece \in Seq(A)
        <5>1. open \in Seq(A)
          BY <3>1, AppendProperties
        <5> HIDE DEF open
        <5> QED
          BY <5>1, PieceIsTyped
      <4> HIDE DEF piece, q, p
      <4>4. <<piece>> \in Seq(Seq(A))
        BY <4>3
      <4>5. Append(p \o q, piece) = (p \o q) \o <<piece>> /\ Append(q, piece) = q \o <<piece>>
        <5>1. Append(p \o q, piece) = (p \o q) \o <<piece>>
          BY <3>1, <4>3, AppendIsConcat
        <5>2. Append(q, piece) = q \o <<piece>>
          BY <3>1, <4>3, AppendIsConcat
        <5> QED
          BY <5>1, <5>2
      <4>6. (p \o q) \o <<piece>> = p \o (q \o <<piece>>)
        BY <3>1, <4>4, ConcatAssociative
      <4>7. Append(p \o q, piece) = p \o Append(q, piece)
        BY <4>5, <4>6, Zenon
      <4> DEFINE longer == Append(p \o q, piece)
                 long == Append(q, piece)
      <4>8. Take(both, c, end).pieces = longer /\ Take(second, c, end).pieces = long
            /\ Take(both, c, end).open = Take(second, c, end).open
        <5> HIDE DEF longer, long
        <5>1. Take(second, c, end) = [pieces |-> long, open |-> << >>]
              /\ Take(both, c, end) = [pieces |-> longer, open |-> << >>]
          BY <4>1, <4>2, Zenon DEF long, longer
        <5> QED
          BY <5>1
      <4> QED
        BY <4>7, <4>8, Zenon DEF p
    <3>3. CASE ~IsSuffix(end, open)
      <4>1. Take(second, c, end) = [pieces |-> second.pieces, open |-> open]
        BY <3>3 DEF Take
      <4>2. Take(both, c, end) = [pieces |-> both.pieces, open |-> open]
        <5>1. open = Append(both.open, c)
          BY <2>3, Zenon
        <5> HIDE DEF open
        <5> QED
          BY <3>3, <5>1, Zenon DEF Take
      <4> HIDE DEF open
      <4>3. /\ Take(both, c, end).pieces = both.pieces /\ Take(second, c, end).pieces = second.pieces
            /\ Take(both, c, end).open = Take(second, c, end).open
        BY <4>1, <4>2
      <4> QED
        BY <2>3, <4>3, Zenon
    <3> QED
      BY <3>2, <3>3
  <2> QED
    BY <2>4, <2>5, <2>6, Zenon
<1> HIDE DEF Good
<1>4. Bad = {}
  <2> SUFFICES ASSUME Bad # {} PROVE FALSE
    OBVIOUS
  <2>1. Bad \in SUBSET Seq(A)
    OBVIOUS
  <2>2. << >> \notin Bad /\ \A t \in Seq(A), c \in A : t \notin Bad => Append(t, c) \notin Bad
    BY <1>2, <1>3
  <2> HIDE DEF Bad
  <2> QED
    BY <2>1, <2>2, LeastText
<1>5. Good(added)
  BY <1>4
<1> QED
  BY <1>5 DEF Good, first, SplitsInTwo

LEMMA SuffixIs ==
  ASSUME NEW A, NEW e \in Seq(A), NEW t \in Seq(A)
  PROVE  IsSuffix(e, t) <=> /\ Len(e) <= Len(t)
                            /\ \A i \in 1..Len(e) : e[(Len(e) - i) + 1] = t[(Len(t) - i) + 1]
<1>1. Len(e) \in Nat /\ Len(t) \in Nat
  BY LenProperties
<1>2. \A s \in Seq(A) : Reverse(s) \in Seq(A) /\ Len(Reverse(s)) = Len(s)
  <2> SUFFICES ASSUME NEW s \in Seq(A) PROVE Reverse(s) \in Seq(A) /\ Len(Reverse(s)) = Len(s)
    OBVIOUS
  <2>1. Len(s) \in Nat /\ \A i \in 1..Len(s) : (Len(s) - i) + 1 \in 1..Len(s)
    BY LenProperties
  <2>2. \A i \in 1..Len(s) : s[(Len(s) - i) + 1] \in A
    BY <2>1, ElementOfSeq
  <2> QED
    BY <2>1, <2>2 DEF Reverse
<1>3. \A i \in 1..Len(e) : Reverse(e)[i] = e[(Len(e) - i) + 1]
  BY DEF Reverse
<1>4. \A i \in 1..Len(t) : Reverse(t)[i] = t[(Len(t) - i) + 1]
  BY DEF Reverse
<1>5. IsSuffix(e, t) <=> /\ Len(e) <= Len(t)
                         /\ SubSeq(Reverse(e), 1, Len(e)) = SubSeq(Reverse(t), 1, Len(e))
  BY <1>2 DEF IsSuffix, IsPrefix
<1>6. ASSUME Len(e) <= Len(t)
      PROVE  SubSeq(Reverse(e), 1, Len(e)) = SubSeq(Reverse(t), 1, Len(e))
               <=> \A i \in 1..Len(e) : Reverse(e)[i] = Reverse(t)[i]
  <2> DEFINE re == Reverse(e)
             rt == Reverse(t)
             pe == SubSeq(re, 1, Len(e))
             pt == SubSeq(rt, 1, Len(e))
  <2>1. re \in Seq(A) /\ rt \in Seq(A) /\ Len(re) = Len(e) /\ Len(rt) = Len(t)
    BY <1>2
  <2> HIDE DEF re, rt
  <2>2. /\ pe \in Seq(A) /\ Len(pe) = Len(e) /\ \A i \in 1..Len(e) : pe[i] = re[i]
        /\ pt \in Seq(A) /\ Len(pt) = Len(e) /\ \A i \in 1..Len(e) : pt[i] = rt[i]
    BY <1>1, <1>6, <2>1
  <2> HIDE DEF pe, pt
  <2>3. pe = pt <=> \A i \in 1..Len(e) : re[i] = rt[i]
    BY <2>2, SeqEqual
  <2> QED
    BY <2>3 DEF pe, pt, re, rt
<1>7. Len(e) <= Len(t) => \A i \in 1..Len(e) : i \in 1..Len(t)
  BY <1>1
<1> QED
  BY <1>3, <1>4, <1>5, <1>6, <1>7

Symbols == EventKinds \union {"data:", "event:", "pad", "invalid", LF, "message.started",
             "message.delta", "guardrail.intervened", "message.completed"}
\* What may stand for an event or a record: anything but a line break.
Names == Symbols \ {LF}

LEMMA LineEnds ==
  ASSUME NEW A, NEW s \in Splits(A), NEW c \in A, LF \in A
  PROVE  Take(s, c, <<LF>>) = IF c = LF THEN [pieces |-> Append(s.pieces, s.open), open |-> << >>]
                              ELSE [pieces |-> s.pieces, open |-> Append(s.open, c)]
<1> DEFINE o == s.open
           more == Append(o, c)
           piece == SubSeq(more, 1, Len(more) - Len(<<LF>>))
<1>1. o \in Seq(A) /\ Len(o) \in Nat
  BY LenProperties DEF Splits
<1>2. /\ more \in Seq(A) /\ Len(more) = Len(o) + 1 /\ more[Len(o) + 1] = c
      /\ \A i \in 1..Len(o) : more[i] = o[i]
  BY <1>1, AppendProperties
<1>3. <<LF>> \in Seq(A) /\ Len(<<LF>>) = 1 /\ <<LF>>[1] = LF
  OBVIOUS
<1>4. Take(s, c, <<LF>>) = IF IsSuffix(<<LF>>, more)
                           THEN [pieces |-> Append(s.pieces, piece), open |-> << >>]
                           ELSE [pieces |-> s.pieces, open |-> more]
  BY DEF Take
<1> HIDE DEF more
<1>5. IsSuffix(<<LF>>, more) <=> c = LF
  <2>1. IsSuffix(<<LF>>, more)
          <=> /\ Len(<<LF>>) <= Len(more)
              /\ \A i \in 1..Len(<<LF>>) :
                   <<LF>>[(Len(<<LF>>) - i) + 1] = more[(Len(more) - i) + 1]
    <3> DEFINE end == <<LF>>
    <3>1. end \in Seq(A)
      BY <1>3
    <3> HIDE DEF end
    <3>2. IsSuffix(end, more) <=> /\ Len(end) <= Len(more)
                                  /\ \A i \in 1..Len(end) : end[(Len(end) - i) + 1] = more[(Len(more) - i) + 1]
      BY <1>2, <3>1, SuffixIs
    <3> QED
      BY <3>2, Zenon DEF end
  <2>2. 1 <= Len(more) /\ 1..1 = {1} /\ (1 - 1) + 1 = 1 /\ (Len(more) - 1) + 1 = Len(o) + 1
    BY <1>1, <1>2
  <2>3. IsSuffix(<<LF>>, more) <=> \A i \in {1} : <<LF>>[(1 - i) + 1] = more[(Len(more) - i) + 1]
    BY <1>3, <2>1, <2>2
  <2>4. IsSuffix(<<LF>>, more) <=> LF = more[Len(o) + 1]
    BY <1>3, <2>2, <2>3
  <2> QED
    BY <1>2, <2>4
<1>6. piece = o
  <2>1. Len(more) - Len(<<LF>>) = Len(o)
    BY <1>1, <1>2, <1>3
  <2>2. SubSeq(more, 1, Len(o)) = o
    <3>1. SubSeq(more, 1, Len(o)) \in Seq(A) /\ Len(SubSeq(more, 1, Len(o))) = Len(o)
          /\ \A i \in 1..Len(o) : SubSeq(more, 1, Len(o))[i] = more[i]
      BY <1>1, <1>2
    <3> HIDE DEF o
    <3> QED
      BY <1>1, <1>2, <3>1, SeqEqual
  <2> QED
    BY <2>1, <2>2
<1> HIDE DEF piece
<1> QED
  BY <1>4, <1>5, <1>6, Zenon DEF more, o

\* Neither a line nor what is open has a line break in it.
NoBreak(l) == \A i \in 1..Len(l) : l[i] # LF

LEMMA LinesHoldNoBreak ==
  ASSUME NEW A, NEW text \in Seq(A), LF \in A
  PROVE  /\ NoBreak(SplitLines(text).open)
         /\ \A k \in 1..Len(SplitLines(text).pieces) : NoBreak(SplitLines(text).pieces[k])
<1> DEFINE end == <<LF>>
<1>0. end \in Seq(A)
  OBVIOUS
<1> HIDE DEF end
<1> DEFINE Good(t) == /\ NoBreak(Split(t, end).open)
                      /\ \A k \in 1..Len(Split(t, end).pieces) : NoBreak(Split(t, end).pieces[k])
           Bad == {t \in Seq(A) : ~Good(t)}
<1>1. Good(<< >>)
  <2>1. Split(<< >>, end).open = << >> /\ Split(<< >>, end).pieces = << >>
    BY <1>0, SplitOfNothing DEF Nothing
  <2>2. \A i \in 1..Len(<< >>) : FALSE
    OBVIOUS
  <2> QED
    BY <2>1, <2>2 DEF NoBreak
<1>2. ASSUME NEW t \in Seq(A), NEW c \in A, Good(t) PROVE Good(Append(t, c))
  <2> DEFINE s == Split(t, end)
             u == Split(Append(t, c), end)
             o == s.open
             p == s.pieces
  <2>1. s \in Splits(A) /\ u = Take(s, c, end) /\ o \in Seq(A) /\ p \in Seq(Seq(A))
    BY <1>0, SplitOfAppend DEF Splits
  <2>2. u = IF c = LF THEN [pieces |-> Append(p, o), open |-> << >>]
            ELSE [pieces |-> p, open |-> Append(o, c)]
    <3> HIDE DEF s, u
    <3> QED
      BY <2>1, LineEnds DEF end
  <2>3. NoBreak(o) /\ \A k \in 1..Len(p) : NoBreak(p[k])
    BY <1>2
  <2> SUFFICES NoBreak(u.open) /\ \A k \in 1..Len(u.pieces) : NoBreak(u.pieces[k])
    OBVIOUS
  <2> HIDE DEF u, o, p
  <2>4. CASE c = LF
    <3>1. u.open = << >> /\ u.pieces = Append(p, o)
      BY <2>2, <2>4
    <3>2. /\ Len(Append(p, o)) = Len(p) + 1 /\ Append(p, o)[Len(p) + 1] = o /\ Len(p) \in Nat
          /\ \A k \in 1..Len(p) : Append(p, o)[k] = p[k]
      BY <2>1, AppendProperties, LenProperties
    <3>3. \A k \in 1..(Len(p) + 1) : k = Len(p) + 1 \/ k \in 1..Len(p)
      BY <3>2
    <3>4. NoBreak(<< >>)
      BY DEF NoBreak
    <3>5. \A k \in 1..Len(Append(p, o)) : NoBreak(Append(p, o)[k])
      BY <2>3, <3>2, <3>3
    <3> QED
      BY <3>1, <3>4, <3>5
  <2>5. CASE c # LF
    <3>1. u.open = Append(o, c) /\ u.pieces = p
      BY <2>2, <2>5
    <3>2. NoBreak(Append(o, c))
      <4>1. /\ Len(Append(o, c)) = Len(o) + 1 /\ Append(o, c)[Len(o) + 1] = c /\ Len(o) \in Nat
            /\ \A k \in 1..Len(o) : Append(o, c)[k] = o[k]
        BY <2>1, AppendProperties, LenProperties
      <4>2. \A k \in 1..(Len(o) + 1) : k = Len(o) + 1 \/ k \in 1..Len(o)
        BY <4>1
      <4> QED
        BY <2>3, <2>5, <4>1, <4>2 DEF NoBreak
    <3> QED
      BY <2>3, <3>1, <3>2
  <2> QED
    BY <2>4, <2>5
<1> HIDE DEF Good
<1>3. Bad = {}
  <2> SUFFICES ASSUME Bad # {} PROVE FALSE
    OBVIOUS
  <2>1. Bad \in SUBSET Seq(A)
    OBVIOUS
  <2>2. << >> \notin Bad /\ \A t \in Seq(A), c \in A : t \notin Bad => Append(t, c) \notin Bad
    BY <1>1, <1>2
  <2> HIDE DEF Bad
  <2> QED
    BY <2>1, <2>2, LeastText
<1>4. Good(text)
  BY <1>3
<1> QED
  BY <1>4 DEF Good, SplitLines, end

-----------------------------------------------------------------------------
(* Records, which an empty line ends.                                       *)

EmptyLine == <<LF, LF>>

LEMMA EmptyLineEnds ==
  ASSUME NEW A, NEW t \in Seq(A), LF \in A
  PROVE  IsSuffix(EmptyLine, t) <=> Len(t) >= 2 /\ t[Len(t)] = LF /\ t[Len(t) - 1] = LF
<1> DEFINE end == EmptyLine
<1>0. end \in Seq(A)
  BY DEF EmptyLine
<1>1. Len(end) = 2 /\ end[1] = LF /\ end[2] = LF
  BY DEF EmptyLine
<1> HIDE DEF end
<1>2. IsSuffix(end, t) <=> /\ Len(end) <= Len(t)
                           /\ \A i \in 1..Len(end) : end[(Len(end) - i) + 1] = t[(Len(t) - i) + 1]
  BY <1>0, SuffixIs
<1>3. Len(t) \in Nat
  BY LenProperties
<1>4. (\A i \in 1..2 : end[(2 - i) + 1] = t[(Len(t) - i) + 1]) <=> t[Len(t)] = LF /\ t[Len(t) - 1] = LF
  <2>1. \A i : i \in 1..2 <=> i = 1 \/ i = 2
    OBVIOUS
  <2>2. (2 - 1) + 1 = 2 /\ (2 - 2) + 1 = 1 /\ (Len(t) - 1) + 1 = Len(t) /\ (Len(t) - 2) + 1 = Len(t) - 1
    BY <1>3
  <2> QED
    BY <1>1, <2>1, <2>2
<1>5. IsSuffix(end, t) <=> Len(t) >= 2 /\ t[Len(t)] = LF /\ t[Len(t) - 1] = LF
  BY <1>1, <1>2, <1>3, <1>4
<1> QED
  BY <1>5 DEF end

\* No empty line in it.
NoEmptyLine(t) == \A k \in 2..Len(t) : ~(t[k] = LF /\ t[k - 1] = LF)

\* Without an empty line a text is no record yet.
LEMMA StaysOpen ==
  ASSUME NEW A, NEW text \in Seq(A), LF \in A, NoEmptyLine(text)
  PROVE  Split(text, EmptyLine) = [pieces |-> << >>, open |-> text]
<1> DEFINE end == EmptyLine
<1>0. end \in Seq(A)
  BY DEF EmptyLine
<1> DEFINE Good(t) == NoEmptyLine(t) => Split(t, end) = [pieces |-> << >>, open |-> t]
           Bad == {t \in Seq(A) : ~Good(t)}
<1>1. Good(<< >>)
  <2> HIDE DEF end
  <2> QED
    BY <1>0, SplitOfNothing DEF Nothing
<1>2. ASSUME NEW t \in Seq(A), NEW c \in A, Good(t) PROVE Good(Append(t, c))
  <2> DEFINE more == Append(t, c)
  <2> SUFFICES ASSUME NoEmptyLine(more) PROVE Split(more, end) = [pieces |-> << >>, open |-> more]
    OBVIOUS
  <2>1. /\ more \in Seq(A) /\ Len(more) = Len(t) + 1 /\ Len(t) \in Nat
        /\ \A i \in 1..Len(t) : more[i] = t[i]
    BY AppendProperties, LenProperties
  <2>2. Split(more, end) = Take(Split(t, end), c, end)
    <3> HIDE DEF end
    <3> QED
      BY <1>0, SplitOfAppend
  <2>3. Take([pieces |-> << >>, open |-> t], c, end)
          = IF IsSuffix(end, more)
            THEN [pieces |-> Append(<< >>, SubSeq(more, 1, Len(more) - Len(end))), open |-> << >>]
            ELSE [pieces |-> << >>, open |-> more]
    <3> HIDE DEF end
    <3> QED
      BY DEF Take
  <2> HIDE DEF more
  <2>4. NoEmptyLine(t)
    <3> SUFFICES ASSUME NEW k \in 2..Len(t) PROVE ~(t[k] = LF /\ t[k - 1] = LF)
      BY DEF NoEmptyLine
    <3>1. k \in 1..Len(t) /\ k - 1 \in 1..Len(t) /\ k \in 2..Len(more)
      BY <2>1
    <3> QED
      BY <2>1, <3>1 DEF NoEmptyLine
  <2>5. ~IsSuffix(end, more)
    <3>1. Len(more) >= 2 => Len(more) \in 2..Len(more)
      BY <2>1
    <3>2. IsSuffix(end, more) <=> Len(more) >= 2 /\ more[Len(more)] = LF /\ more[Len(more) - 1] = LF
      BY <2>1, EmptyLineEnds
    <3> QED
      BY <3>1, <3>2 DEF NoEmptyLine
  <2>6. Split(t, end) = [pieces |-> << >>, open |-> t]
    BY <1>2, <2>4
  <2> HIDE DEF end
  <2> QED
    BY <2>2, <2>3, <2>5, <2>6
<1> HIDE DEF Good
<1>3. Bad = {}
  <2> SUFFICES ASSUME Bad # {} PROVE FALSE
    OBVIOUS
  <2>1. Bad \in SUBSET Seq(A)
    OBVIOUS
  <2>2. << >> \notin Bad /\ \A t \in Seq(A), c \in A : t \notin Bad => Append(t, c) \notin Bad
    BY <1>1, <1>2
  <2> HIDE DEF Bad
  <2> QED
    BY <2>1, <2>2, LeastText
<1>4. Good(text)
  BY <1>3
<1> QED
  BY <1>4 DEF Good

\* What the page is to find between two empty lines.
Body(e) == <<"event:", e, LF, "data:", e>>

LEMMA SplitOfRecord ==
  ASSUME NEW e \in Names
  PROVE  /\ EncodeSse(e) \in Seq(Symbols) /\ Body(e) \in Seq(Symbols)
         /\ SplitRecords(EncodeSse(e)) = [pieces |-> <<Body(e)>>, open |-> << >>]
<1> DEFINE t == <<"event:", e, LF, "data:", e, LF>>
           record == EncodeSse(e)
           end == EmptyLine
           body == Body(e)
<1>1. e \in Symbols /\ LF \in Symbols /\ "event:" \in Symbols /\ "data:" \in Symbols /\ e # LF
  BY DEF Names, Symbols
<1>2. "event:" # LF /\ "data:" # LF
  BY DEF LF
<1>3. t \in Seq(Symbols) /\ record \in Seq(Symbols) /\ body \in Seq(Symbols)
      /\ Len(t) = 6 /\ Len(record) = 7 /\ Len(body) = 5
  BY <1>1 DEF EncodeSse, Body
<1>4. /\ t[1] = "event:" /\ t[2] = e /\ t[3] = LF /\ t[4] = "data:" /\ t[5] = e /\ t[6] = LF
      /\ record[1] = "event:" /\ record[2] = e /\ record[3] = LF /\ record[4] = "data:"
      /\ record[5] = e /\ record[6] = LF /\ record[7] = LF
      /\ body[1] = "event:" /\ body[2] = e /\ body[3] = LF /\ body[4] = "data:" /\ body[5] = e
  BY DEF EncodeSse, Body
<1>5. record = Append(t, LF)
  BY DEF EncodeSse
<1>6. end \in Seq(Symbols) /\ Len(end) = 2
  BY <1>1 DEF EmptyLine
<1> HIDE DEF t, record, body
<1>7. NoEmptyLine(t)
  <2> SUFFICES ASSUME NEW k \in 2..6 PROVE ~(t[k] = LF /\ t[k - 1] = LF)
    BY <1>3 DEF NoEmptyLine
  <2>1. k = 2 \/ k = 3 \/ k = 4 \/ k = 5 \/ k = 6
    OBVIOUS
  <2> QED
    BY <1>1, <1>2, <1>4, <2>1
<1>8. Split(t, end) = [pieces |-> << >>, open |-> t]
  BY <1>1, <1>3, <1>7, StaysOpen
<1>9. IsSuffix(end, record)
  <2>1. IsSuffix(end, record) <=> Len(record) >= 2 /\ record[Len(record)] = LF /\ record[Len(record) - 1] = LF
    BY <1>1, <1>3, EmptyLineEnds
  <2> QED
    BY <1>3, <1>4, <2>1
<1> HIDE DEF end
<1>10. SubSeq(record, 1, Len(record) - Len(end)) = body
  <2> DEFINE piece == SubSeq(record, 1, 5)
  <2>1. piece \in Seq(Symbols) /\ Len(piece) = 5 /\ \A i \in 1..5 : piece[i] = record[i]
    BY <1>3
  <2>2. \A i \in 1..5 : i = 1 \/ i = 2 \/ i = 3 \/ i = 4 \/ i = 5
    OBVIOUS
  <2>3. \A i \in 1..5 : record[i] = body[i]
    BY <1>4, <2>2
  <2> HIDE DEF piece
  <2>4. piece = body
    BY <1>3, <2>1, <2>3, SeqEqual
  <2>5. Len(record) - Len(end) = 5
    BY <1>3, <1>6
  <2> QED
    BY <2>4, <2>5 DEF piece
<1>11. Split(record, end) = Take([pieces |-> << >>, open |-> t], LF, end)
  <2>1. Split(Append(t, LF), end) = Take(Split(t, end), LF, end)
    BY <1>1, <1>3, <1>6, SplitOfAppend
  <2> QED
    BY <1>5, <1>8, <2>1
<1>12. Take([pieces |-> << >>, open |-> t], LF, end)
        = IF IsSuffix(end, Append(t, LF))
          THEN [pieces |-> Append(<< >>, SubSeq(Append(t, LF), 1, Len(Append(t, LF)) - Len(end))), open |-> << >>]
          ELSE [pieces |-> << >>, open |-> Append(t, LF)]
  BY DEF Take
<1>13. Split(record, end) = [pieces |-> Append(<< >>, body), open |-> << >>]
  BY <1>5, <1>9, <1>10, <1>11, <1>12
<1>14. Append(<< >>, body) = <<body>>
  OBVIOUS
<1>15. SplitRecords(record) = Split(record, end)
  BY DEF SplitRecords, end, EmptyLine
<1>16. SplitRecords(record) = [pieces |-> <<body>>, open |-> << >>]
  BY <1>13, <1>14, <1>15
<1> QED
  BY <1>3, <1>16 DEF record, body

-----------------------------------------------------------------------------
(* What a text per element is put together to.                              *)

Images(f, s) == FlattenSeq([i \in DOMAIN s |-> f[s[i]]])

LEMMA ImagesAreTyped ==
  ASSUME NEW A, NEW B, NEW f \in [B -> Seq(A)], NEW s \in Seq(B)
  PROVE  /\ [i \in DOMAIN s |-> f[s[i]]] \in Seq(Seq(A))
         /\ Images(f, s) \in Seq(A)
<1> DEFINE m == [i \in DOMAIN s |-> f[s[i]]]
<1>1. Len(s) \in Nat /\ DOMAIN s = 1..Len(s) /\ \A i \in 1..Len(s) : s[i] \in B
  BY LenProperties, ElementOfSeq
<1>2. m \in [1..Len(s) -> Seq(A)]
  BY <1>1
<1>3. m \in Seq(Seq(A))
  <2> DEFINE T == Seq(A)
             n == Len(s)
  <2>1. m \in [1..n -> T] /\ n \in Nat
    BY <1>1, <1>2
  <2> HIDE DEF m, T, n
  <2>2. m \in UNION {[1..k -> T] : k \in Nat}
    BY <2>1
  <2>3. m \in Seq(T)
    BY <2>2, SeqDef
  <2> QED
    BY <2>3 DEF T
<1> HIDE DEF m
<1>4. PICK g \in [0..Len(m) -> Seq(A)] : JoinsUp(g, m, Len(m))
  <2>1. Len(m) \in 0..Len(m)
    BY <1>3, LenProperties
  <2> QED
    BY <1>3, <2>1, JoinsUpExists
<1>5. FlattenSeq(m) \in Seq(A)
  BY <1>3, <1>4, FlattenIs
<1> QED
  BY <1>3, <1>5 DEF Images, m

LEMMA ImagesOfConcat ==
  ASSUME NEW A, NEW B, NEW f \in [B -> Seq(A)], NEW s \in Seq(B), NEW t \in Seq(B)
  PROVE  Images(f, s \o t) = Images(f, s) \o Images(f, t)
<1> DEFINE both == s \o t
           ms == [i \in DOMAIN s |-> f[s[i]]]
           mt == [i \in DOMAIN t |-> f[t[i]]]
           mb == [i \in DOMAIN both |-> f[both[i]]]
<1>1. /\ both \in Seq(B) /\ Len(both) = Len(s) + Len(t) /\ Len(s) \in Nat /\ Len(t) \in Nat
      /\ \A i \in 1..(Len(s) + Len(t)) : both[i] = IF i <= Len(s) THEN s[i] ELSE t[i - Len(s)]
  BY ConcatProperties, LenProperties
<1> HIDE DEF both
<1>2. DOMAIN s = 1..Len(s) /\ DOMAIN t = 1..Len(t) /\ DOMAIN both = 1..(Len(s) + Len(t))
  BY <1>1, LenProperties
<1>3. ms \in Seq(Seq(A)) /\ mt \in Seq(Seq(A)) /\ mb \in Seq(Seq(A))
  <2>1. ms \in Seq(Seq(A))
    BY ImagesAreTyped
  <2>2. mt \in Seq(Seq(A))
    BY ImagesAreTyped
  <2>3. mb \in Seq(Seq(A))
    BY <1>1, ImagesAreTyped
  <2> QED
    BY <2>1, <2>2, <2>3
<1>4. Len(ms) = Len(s) /\ Len(mt) = Len(t) /\ Len(mb) = Len(s) + Len(t)
  <2>1. DOMAIN ms = 1..Len(s) /\ DOMAIN mt = 1..Len(t) /\ DOMAIN mb = 1..(Len(s) + Len(t))
    BY <1>2
  <2> HIDE DEF ms, mt, mb
  <2> QED
    BY <1>1, <1>3, <2>1
<1>5. /\ \A i \in 1..Len(s) : ms[i] = f[s[i]]
      /\ \A i \in 1..Len(t) : mt[i] = f[t[i]]
      /\ \A i \in 1..(Len(s) + Len(t)) : mb[i] = f[both[i]]
  BY <1>2
<1> HIDE DEF ms, mt, mb
<1>6. /\ ms \o mt \in Seq(Seq(A)) /\ Len(ms \o mt) = Len(s) + Len(t)
      /\ \A i \in 1..(Len(s) + Len(t)) : (ms \o mt)[i] = IF i <= Len(s) THEN ms[i] ELSE mt[i - Len(s)]
  <2> DEFINE T == Seq(A)
  <2>1. ms \in Seq(T) /\ mt \in Seq(T)
    BY <1>3
  <2> HIDE DEF T
  <2>2. /\ ms \o mt \in Seq(T) /\ Len(ms \o mt) = Len(ms) + Len(mt)
        /\ \A i \in 1..(Len(ms) + Len(mt)) :
             (ms \o mt)[i] = IF i <= Len(ms) THEN ms[i] ELSE mt[i - Len(ms)]
    BY <2>1, ConcatProperties
  <2> QED
    BY <1>4, <2>2 DEF T
<1>7. \A i \in 1..(Len(s) + Len(t)) : mb[i] = (ms \o mt)[i]
  <2> SUFFICES ASSUME NEW i \in 1..(Len(s) + Len(t)) PROVE mb[i] = (ms \o mt)[i]
    OBVIOUS
  <2>1. CASE i <= Len(s)
    <3>1. i \in 1..Len(s)
      BY <1>1, <2>1
    <3>2. mb[i] = f[s[i]] /\ (ms \o mt)[i] = ms[i]
      BY <1>1, <1>5, <1>6, <2>1
    <3> QED
      BY <1>5, <3>1, <3>2
  <2>2. CASE ~(i <= Len(s))
    <3>1. i - Len(s) \in 1..Len(t)
      BY <1>1, <2>2
    <3>2. mb[i] = f[t[i - Len(s)]] /\ (ms \o mt)[i] = mt[i - Len(s)]
      BY <1>1, <1>5, <1>6, <2>2
    <3> QED
      BY <1>5, <3>1, <3>2
  <2> QED
    BY <2>1, <2>2
<1>8. mb = ms \o mt
  <2> DEFINE mm == ms \o mt
  <2>1. mm \in Seq(Seq(A)) /\ Len(mm) = Len(mb) /\ \A i \in 1..Len(mb) : mb[i] = mm[i]
    BY <1>4, <1>6, <1>7
  <2> HIDE DEF mm
  <2>2. mb = mm
    BY <1>3, <2>1, SeqEqual
  <2> QED
    BY <2>2 DEF mm
<1>9. FlattenSeq(ms \o mt) = FlattenSeq(ms) \o FlattenSeq(mt)
  BY <1>3, FlattenOfConcat
<1> QED
  BY <1>8, <1>9 DEF Images, ms, mt, mb, both

LEMMA ImagesOfNothing ==
  ASSUME NEW A, NEW B, NEW f \in [B -> Seq(A)]
  PROVE  Images(f, << >>) = << >>
<1> DEFINE s == << >>
           m == [i \in DOMAIN s |-> f[s[i]]]
<1>1. s \in Seq(B) /\ Len(s) = 0 /\ DOMAIN s = {}
  BY EmptySeq
<1>2. m = << >>
  BY <1>1
<1>3. FlattenSeq(<< >>) = << >>
  <2>1. << >> \in Seq(Seq(A)) /\ \A i \in 1..Len(<< >>) : << >>[i] = << >>
    BY EmptySeq
  <2> QED
    BY <2>1, FlattenOfNothing
<1> QED
  BY <1>2, <1>3 DEF Images

LEMMA ImagesOfOne ==
  ASSUME NEW A, NEW B, NEW f \in [B -> Seq(A)], NEW x \in B
  PROVE  Images(f, <<x>>) = f[x]
<1> DEFINE s == <<x>>
           m == [i \in DOMAIN s |-> f[s[i]]]
<1>1. DOMAIN s = 1..1 /\ s[1] = x
  OBVIOUS
<1>2. m = <<f[x]>>
  <2>1. DOMAIN m = 1..1 /\ m[1] = f[x]
    BY <1>1
  <2>2. m = [i \in 1..1 |-> f[x]]
    BY <1>1
  <2> HIDE DEF m
  <2> QED
    BY <2>2
<1>3. f[x] \in Seq(A)
  OBVIOUS
<1>4. FlattenSeq(<<f[x]>>) = f[x]
  BY <1>3, FlattenOfOne
<1> QED
  BY <1>2, <1>4, Zenon DEF Images

LEMMA ParseRecordsOfConcat ==
  ASSUME NEW B, NEW s \in Seq(B), NEW t \in Seq(B)
  PROVE  ParseRecords(s \o t) = ParseRecords(s) \o ParseRecords(t)
<1> DEFINE A == {r[2] : r \in B}
           f == [r \in B |-> ParseRecord(r)]
<1>1. \A r \in B : r[2] \in A
  OBVIOUS
<1> HIDE DEF A
<1>2. \A r \in B : ParseRecord(r) \in Seq(A)
  BY <1>1 DEF ParseRecord
<1>3. f \in [B -> Seq(A)]
  BY <1>2
<1>4. \A u \in Seq(B) : ParseRecords(u) = Images(f, u)
  <2> SUFFICES ASSUME NEW u \in Seq(B) PROVE ParseRecords(u) = Images(f, u)
    OBVIOUS
  <2>1. \A i \in DOMAIN u : f[u[i]] = ParseRecord(u[i])
    <3>1. \A i \in DOMAIN u : u[i] \in B
      BY LenProperties, ElementOfSeq
    <3> QED
      BY <3>1
  <2> HIDE DEF f
  <2>2. [i \in DOMAIN u |-> f[u[i]]] = [i \in DOMAIN u |-> ParseRecord(u[i])]
    BY <2>1
  <2> QED
    BY <2>2, Zenon DEF ParseRecords, Images
<1> HIDE DEF f
<1>5. s \o t \in Seq(B)
  BY ConcatProperties
<1>6. Images(f, s \o t) = Images(f, s) \o Images(f, t)
  BY <1>3, ImagesOfConcat
<1> QED
  BY <1>4, <1>5, <1>6, Zenon

LEMMA ParsedIsTyped ==
  ASSUME NEW B, NEW s \in Seq(B)
  PROVE  ParseRecords(s) \in Seq({r[2] : r \in B})
<1> DEFINE A == {r[2] : r \in B}
           f == [r \in B |-> ParseRecord(r)]
<1>1. \A r \in B : r[2] \in A
  OBVIOUS
<1> HIDE DEF A
<1>2. \A r \in B : ParseRecord(r) \in Seq(A)
  BY <1>1 DEF ParseRecord
<1>3. f \in [B -> Seq(A)] /\ \A i \in DOMAIN s : f[s[i]] = ParseRecord(s[i])
  <2>1. \A i \in DOMAIN s : s[i] \in B
    BY LenProperties, ElementOfSeq
  <2> QED
    BY <1>2, <2>1
<1> HIDE DEF f
<1>4. [i \in DOMAIN s |-> f[s[i]]] = [i \in DOMAIN s |-> ParseRecord(s[i])]
  BY <1>3
<1>5. ParseRecords(s) = Images(f, s)
  BY <1>4, Zenon DEF ParseRecords, Images
<1>6. Images(f, s) \in Seq(A)
  BY <1>3, ImagesAreTyped
<1> QED
  BY <1>5, <1>6 DEF A

LEMMA EventsOfConcat ==
  ASSUME NEW B, NEW s \in Seq(B), NEW t \in Seq(B)
  PROVE  EventsOf(s \o t) = EventsOf(s) \o EventsOf(t)
<1> DEFINE A == {r[2] : r \in B}
           f == [r \in B |-> EventFromData(r)]
<1>1. \A r \in B : r[2] \in A
  OBVIOUS
<1> HIDE DEF A
<1>2. \A r \in B : EventFromData(r) \in Seq(A)
  BY <1>1 DEF EventFromData
<1>3. f \in [B -> Seq(A)]
  BY <1>2
<1>4. \A u \in Seq(B) : EventsOf(u) = Images(f, u)
  <2> SUFFICES ASSUME NEW u \in Seq(B) PROVE EventsOf(u) = Images(f, u)
    OBVIOUS
  <2>1. \A i \in DOMAIN u : f[u[i]] = EventFromData(u[i])
    <3>1. \A i \in DOMAIN u : u[i] \in B
      BY LenProperties, ElementOfSeq
    <3> QED
      BY <3>1
  <2> HIDE DEF f
  <2>2. [i \in DOMAIN u |-> f[u[i]]] = [i \in DOMAIN u |-> EventFromData(u[i])]
    BY <2>1
  <2> QED
    BY <2>2, Zenon DEF EventsOf, Images
<1> HIDE DEF f
<1>5. s \o t \in Seq(B)
  BY ConcatProperties
<1>6. Images(f, s \o t) = Images(f, s) \o Images(f, t)
  BY <1>3, ImagesOfConcat
<1> QED
  BY <1>4, <1>5, <1>6, Zenon

\* Lines without a line break in them carry names.
Lines == {l \in Seq(Symbols) : NoBreak(l)}

LEMMA EventsAreNames ==
  ASSUME NEW s \in Seq(Lines)
  PROVE  EventsOf(s) \in Seq(Names)
<1> DEFINE f == [l \in Lines |-> EventFromData(l)]
<1>1. ASSUME NEW l \in Lines PROVE EventFromData(l) \in Seq(Names)
  <2>1. l \in Seq(Symbols) /\ NoBreak(l) /\ Len(l) \in Nat
    BY LenProperties DEF Lines
  <2>2. Len(l) > 1 => l[2] \in Symbols /\ l[2] # LF
    <3>1. Len(l) > 1 => 2 \in 1..Len(l)
      BY <2>1
    <3> QED
      BY <2>1, <3>1, ElementOfSeq DEF NoBreak
  <2>3. Len(l) > 1 => l[2] \in Names
    BY <2>2 DEF Names
  <2> DEFINE x == l[2]
  <2> HIDE DEF x
  <2>4. x \in Names => <<x>> \in Seq(Names)
    OBVIOUS
  <2>5. << >> \in Seq(Names)
    BY EmptySeq
  <2> QED
    BY <2>3, <2>4, <2>5, Zenon DEF EventFromData, x
<1>2. f \in [Lines -> Seq(Names)]
  BY <1>1
<1>3. \A i \in DOMAIN s : f[s[i]] = EventFromData(s[i])
  <2>1. \A i \in DOMAIN s : s[i] \in Lines
    BY LenProperties, ElementOfSeq
  <2> QED
    BY <2>1
<1> HIDE DEF f
<1>4. [i \in DOMAIN s |-> f[s[i]]] = [i \in DOMAIN s |-> EventFromData(s[i])]
  BY <1>3
<1>5. EventsOf(s) = Images(f, s)
  BY <1>4, Zenon DEF EventsOf, Images
<1>6. Images(f, s) \in Seq(Names)
  BY <1>2, ImagesAreTyped
<1> QED
  BY <1>5, <1>6

\* Records, as they are written.
Encoded(rs) == FlattenSeq([i \in DOMAIN rs |-> EncodeSse(rs[i])])

LEMMA EncodedIs ==
  ASSUME NEW r \in Seq(Names), NEW s \in Seq(Names)
  PROVE  /\ Encoded(r) \in Seq(Symbols)
         /\ Encoded(r \o s) = Encoded(r) \o Encoded(s)
<1> DEFINE f == [e \in Names |-> EncodeSse(e)]
<1>1. f \in [Names -> Seq(Symbols)]
  BY SplitOfRecord
<1>2. \A u \in Seq(Names) : Encoded(u) = Images(f, u)
  <2> SUFFICES ASSUME NEW u \in Seq(Names) PROVE Encoded(u) = Images(f, u)
    OBVIOUS
  <2>1. \A i \in DOMAIN u : f[u[i]] = EncodeSse(u[i])
    <3>1. \A i \in DOMAIN u : u[i] \in Names
      BY LenProperties, ElementOfSeq
    <3> QED
      BY <3>1
  <2> HIDE DEF f
  <2>2. [i \in DOMAIN u |-> f[u[i]]] = [i \in DOMAIN u |-> EncodeSse(u[i])]
    BY <2>1
  <2> QED
    BY <2>2, Zenon DEF Encoded, Images
<1> HIDE DEF f
<1>3. r \o s \in Seq(Names)
  BY ConcatProperties
<1>4. Images(f, r \o s) = Images(f, r) \o Images(f, s)
  BY <1>1, ImagesOfConcat
<1>5. Images(f, r) \in Seq(Symbols)
  BY <1>1, ImagesAreTyped
<1> QED
  BY <1>2, <1>3, <1>4, <1>5, Zenon

LEMMA EncodedOfOne ==
  ASSUME NEW e \in Names
  PROVE  Encoded(<<e>>) = EncodeSse(e) /\ Encoded(<< >>) = << >>
<1> DEFINE f == [x \in Names |-> EncodeSse(x)]
           s == <<e>>
           none == << >>
<1>1. f \in [Names -> Seq(Symbols)] /\ f[e] = EncodeSse(e)
  BY SplitOfRecord
<1>2. \A i \in DOMAIN s : f[s[i]] = EncodeSse(s[i])
  OBVIOUS
<1>3. \A i \in DOMAIN none : f[none[i]] = EncodeSse(none[i])
  OBVIOUS
<1> HIDE DEF f
<1>4. Images(f, s) = f[e]
  BY <1>1, ImagesOfOne
<1>5. Images(f, none) = none
  BY <1>1, ImagesOfNothing
<1> HIDE DEF s, none
<1>6. [i \in DOMAIN s |-> f[s[i]]] = [i \in DOMAIN s |-> EncodeSse(s[i])]
  BY <1>2
<1>7. [i \in DOMAIN none |-> f[none[i]]] = [i \in DOMAIN none |-> EncodeSse(none[i])]
  BY <1>3
<1>8. Encoded(s) = Images(f, s) /\ Encoded(none) = Images(f, none)
  BY <1>6, <1>7, Zenon DEF Encoded, Images
<1> QED
  BY <1>1, <1>4, <1>5, <1>8, Zenon DEF s, none

-----------------------------------------------------------------------------
(* What was read so far.                                                    *)

LEMMA CutGrows ==
  ASSUME NEW A, NEW t \in Seq(A), NEW k \in 0..Len(t), NEW n \in 0..Len(t), k <= n
  PROVE  /\ SubSeq(t, 1, k) \in Seq(A) /\ SubSeq(t, k + 1, n) \in Seq(A)
         /\ SubSeq(t, 1, n) = SubSeq(t, 1, k) \o SubSeq(t, k + 1, n)
         /\ Len(SubSeq(t, 1, k)) = k
<1>1. Len(t) \in Nat /\ \A i \in 1..Len(t) : t[i] \in A
  BY LenProperties, ElementOfSeq
<1>2. SubSeq(t, 1, k) \in Seq(A) /\ Len(SubSeq(t, 1, k)) = k
  BY <1>1
<1>3. SubSeq(t, k + 1, n) \in Seq(A)
  BY <1>1
<1>4. 1 \in 1..(Len(t) + 1) /\ k \in (1 - 1)..Len(t) /\ n \in k..Len(t)
  BY <1>1
<1>5. SubSeq(t, 1, k) \o SubSeq(t, k + 1, n) = SubSeq(t, 1, n)
  BY <1>4, ConcatAdjacentSubSeq
<1> QED
  BY <1>2, <1>3, <1>5

LEMMA CutOfLonger ==
  ASSUME NEW A, NEW s \in Seq(A), NEW t \in Seq(A), NEW k \in 0..Len(s)
  PROVE  SubSeq(s \o t, 1, k) = SubSeq(s, 1, k)
<1> DEFINE both == s \o t
           a == SubSeq(both, 1, k)
           b == SubSeq(s, 1, k)
<1>1. Len(s) \in Nat /\ Len(t) \in Nat
  BY LenProperties
<1>2. both \in Seq(A) /\ Len(both) = Len(s) + Len(t) /\ \A i \in 1..Len(s) : both[i] = s[i]
  <2>1. both \in Seq(A) /\ Len(both) = Len(s) + Len(t)
        /\ \A i \in 1..(Len(s) + Len(t)) : both[i] = IF i <= Len(s) THEN s[i] ELSE t[i - Len(s)]
    BY ConcatProperties
  <2>2. \A i \in 1..Len(s) : i \in 1..(Len(s) + Len(t)) /\ i <= Len(s)
    BY <1>1
  <2> HIDE DEF both
  <2> QED
    BY <2>1, <2>2
<1> HIDE DEF both
<1>3. k <= Len(both) /\ k \in Nat
  BY <1>1, <1>2
<1>4. a \in Seq(A) /\ Len(a) = k /\ \A i \in 1..k : a[i] = both[i]
  BY <1>2, <1>3
<1>5. b \in Seq(A) /\ Len(b) = k /\ \A i \in 1..k : b[i] = s[i]
  BY <1>1
<1>6. \A i \in 1..k : i \in 1..Len(s)
  BY <1>1
<1> HIDE DEF a, b
<1>7. a = b
  BY <1>2, <1>4, <1>5, <1>6, SeqEqual
<1> QED
  BY <1>7 DEF a, b, both

LEMMA PartIsPrefix ==
  ASSUME NEW A, NEW s \in Seq(A), NEW t \in Seq(A)
  PROVE  IsPrefix(s, s \o t)
<1>1. Len(s) \in Nat /\ Len(t) \in Nat /\ Len(s \o t) = Len(s) + Len(t)
  BY LenProperties, ConcatProperties
<1>2. Len(s) \in 0..Len(s) /\ Len(s) <= Len(s) + Len(t)
  BY <1>1
<1>3. SubSeq(s \o t, 1, Len(s)) = SubSeq(s, 1, Len(s))
  BY <1>2, CutOfLonger
<1> QED
  BY <1>1, <1>2, <1>3, Zenon DEF IsPrefix

-----------------------------------------------------------------------------
(* The page finds what the BFF wrote.                                       *)

LEMMA ParseOfBody ==
  ASSUME NEW e \in Names
  PROVE  ParseRecords(<<Body(e)>>) = <<e>>
<1> DEFINE b == Body(e)
           s == <<b>>
           x == <<e>>
<1>1. Len(b) = 5 /\ b[2] = e /\ b[4] = "data:"
  BY DEF Body
<1> HIDE DEF b
<1>2. Contains(b, "data:")
  <2>1. 4 \in 1..Len(b)
    BY <1>1
  <2> QED
    BY <1>1, <2>1 DEF Contains
<1>3. ParseRecord(b) = x
  BY <1>1, <1>2 DEF ParseRecord
<1>4. DOMAIN s = 1..1 /\ s[1] = b
  OBVIOUS
<1>5. x \in Seq(Names)
  OBVIOUS
<1> HIDE DEF s, x
<1>6. [i \in DOMAIN s |-> ParseRecord(s[i])] = [i \in 1..1 |-> x]
  BY <1>3, <1>4
<1>7. [i \in 1..1 |-> x] = <<x>>
  OBVIOUS
<1>8. FlattenSeq(<<x>>) = x
  BY <1>5, FlattenOfOne
<1>9. ParseRecords(s) = x
  BY <1>6, <1>7, <1>8, Zenon DEF ParseRecords
<1> QED
  BY <1>9 DEF s, x, b

LEMMA RecordsComeBack ==
  ASSUME NEW rs \in Seq(Names)
  PROVE  /\ ParseRecords(SplitRecords(Encoded(rs)).pieces) = rs
         /\ SplitRecords(Encoded(rs)).open = << >>
<1> DEFINE Good(r) == /\ ParseRecords(SplitRecords(Encoded(r)).pieces) = r
                      /\ SplitRecords(Encoded(r)).open = << >>
           Bad == {r \in Seq(Names) : ~Good(r)}
<1>0. EmptyLine \in Seq(Symbols)
  BY DEF EmptyLine, Symbols
<1>1. Good(<< >>)
  <2>1. Split(<< >>, EmptyLine) = Nothing
    BY <1>0, SplitOfNothing
  <2>2. SplitRecords(<< >>) = Nothing
    BY <2>1 DEF SplitRecords, EmptyLine
  <2>3. "error" \in Names
    BY DEF Names, Symbols, EventKinds, LF
  <2>4. Encoded(<< >>) = << >>
    BY <2>3, EncodedOfOne
  <2>5. ParseRecords(<< >>) = << >>
    <3> DEFINE none == << >>
               m == [i \in DOMAIN none |-> ParseRecord(none[i])]
    <3>1. m = none
      OBVIOUS
    <3>2. none \in Seq(Seq(Names)) /\ \A i \in 1..Len(none) : none[i] = << >>
      BY EmptySeq
    <3>3. FlattenSeq(none) = << >>
      BY <3>2, FlattenOfNothing
    <3> HIDE DEF none
    <3>4. ParseRecords(none) = << >>
      BY <3>1, <3>3, Zenon DEF ParseRecords
    <3> QED
      BY <3>4 DEF none
  <2> QED
    BY <2>2, <2>4, <2>5 DEF Nothing
<1>2. ASSUME NEW r \in Seq(Names), NEW e \in Names, Good(r) PROVE Good(Append(r, e))
  <2> DEFINE more == Append(r, e)
             text == Encoded(r)
             added == EncodeSse(e)
             end == EmptyLine
             first == Split(text, end)
             x == <<e>>
             b == Body(e)
  <2>1. more = r \o x /\ x \in Seq(Names)
    <3>1. more = r \o x
      BY AppendIsConcat
    <3> QED
      BY <3>1
  <2>2. Encoded(x) = added
    BY EncodedOfOne
  <2>3. text \in Seq(Symbols) /\ added \in Seq(Symbols) /\ b \in Seq(Symbols)
    <3>1. text \in Seq(Symbols)
      BY <2>1, EncodedIs
    <3>2. added \in Seq(Symbols) /\ b \in Seq(Symbols)
      BY SplitOfRecord
    <3> QED
      BY <3>1, <3>2
  <2> HIDE DEF x, more
  <2>4. Encoded(more) = text \o added
    <3>1. Encoded(r \o x) = Encoded(r) \o Encoded(x)
      BY <2>1, EncodedIs
    <3> QED
      BY <2>1, <2>2, <3>1, Zenon
  <2>5. SplitRecords(added) = [pieces |-> <<b>>, open |-> << >>]
    BY SplitOfRecord
  <2>6. ParseRecords(<<b>>) = x
    BY ParseOfBody DEF x
  <2> HIDE DEF b
  <2> DEFINE one == <<b>>
  <2>7. one \in Seq(Seq(Symbols))
    BY <2>3
  <2>8. Split(added, end).pieces = one /\ Split(added, end).open = << >>
    BY <2>5 DEF SplitRecords, EmptyLine
  <2>9. first.open = << >> /\ ParseRecords(first.pieces) = r
    BY <1>2 DEF SplitRecords, EmptyLine
  <2>10. first.pieces \in Seq(Seq(Symbols))
    <3> HIDE DEF text, end
    <3> QED
      BY <1>0, <2>3, SplitIsTyped DEF end
  <2> HIDE DEF one, text, added
  <2>11. << >> \o added = added
    BY <2>3, ConcatEmptySeq
  <2> HIDE DEF first
  <2>12. /\ Split(text \o added, end).pieces = first.pieces \o Split(first.open \o added, end).pieces
         /\ Split(text \o added, end).open = Split(first.open \o added, end).open
    <3>1. end \in Seq(Symbols)
      BY <1>0
    <3> HIDE DEF end
    <3>2. SplitsInTwo(text, added, end)
      BY <2>3, <3>1, SplitOfConcat
    <3> QED
      BY <3>2, Zenon DEF first, SplitsInTwo
  <2>13. /\ Split(text \o added, end).pieces = first.pieces \o one
         /\ Split(text \o added, end).open = << >>
    BY <2>8, <2>9, <2>11, <2>12, Zenon
  <2>14. ParseRecords(first.pieces \o one) = ParseRecords(first.pieces) \o ParseRecords(one)
    <3> DEFINE T == Seq(Symbols)
    <3>1. first.pieces \in Seq(T) /\ one \in Seq(T)
      BY <2>7, <2>10
    <3> HIDE DEF T
    <3> QED
      BY <3>1, ParseRecordsOfConcat
  <2>15. ParseRecords(one) = x
    BY <2>6 DEF one
  <2>16. SplitRecords(Encoded(more)) = Split(text \o added, end)
    BY <2>4, Zenon DEF SplitRecords, EmptyLine
  <2>17. Good(more)
    BY <2>1, <2>9, <2>13, <2>14, <2>15, <2>16, Zenon
  <2> QED
    BY <2>17 DEF more
<1> HIDE DEF Good
<1>3. Bad = {}
  <2> SUFFICES ASSUME Bad # {} PROVE FALSE
    OBVIOUS
  <2>1. Bad \in SUBSET Seq(Names)
    OBVIOUS
  <2>2. << >> \notin Bad /\ \A t \in Seq(Names), c \in Names : t \notin Bad => Append(t, c) \notin Bad
    BY <1>1, <1>2
  <2> HIDE DEF Bad
  <2> QED
    BY <2>1, <2>2, LeastText
<1>4. Good(rs)
  BY <1>3
<1> QED
  BY <1>4 DEF Good

-----------------------------------------------------------------------------
(* The events chatBody gets to see.                                         *)

Quiet(es) == \A i \in 1..Len(es) : ~Ends(es[i])
FirstEnd(es, k) == k \in 1..Len(es) /\ Ends(es[k]) /\ \A i \in 1..(k - 1) : ~Ends(es[i])

LEMMA SeenOfQuiet ==
  ASSUME NEW A, NEW es \in Seq(A), Quiet(es)
  PROVE  Seen(es) = es
<1>1. DOMAIN es = 1..Len(es)
  BY LenProperties
<1>2. {i \in DOMAIN es : Ends(es[i])} = {}
  BY <1>1 DEF Quiet
<1> QED
  BY <1>2, Zenon DEF Seen

LEMMA SeenUpTo ==
  ASSUME NEW A, NEW es \in Seq(A), NEW k, FirstEnd(es, k)
  PROVE  Seen(es) = SubSeq(es, 1, k)
<1> DEFINE last == {i \in DOMAIN es : Ends(es[i])}
           least == CHOOSE i \in last : \A j \in last : i <= j
<1>1. DOMAIN es = 1..Len(es) /\ Len(es) \in Nat /\ k \in 1..Len(es)
  BY LenProperties DEF FirstEnd
<1>2. k \in last
  BY <1>1 DEF FirstEnd
<1>3. \A j \in last : j \in 1..Len(es) /\ k <= j
  <2> SUFFICES ASSUME NEW j \in last PROVE j \in 1..Len(es) /\ k <= j
    OBVIOUS
  <2>1. j \in 1..Len(es) /\ Ends(es[j])
    BY <1>1
  <2>2. ~(j \in 1..(k - 1))
    BY <2>1 DEF FirstEnd
  <2> QED
    BY <1>1, <2>1, <2>2
<1> HIDE DEF last
<1>4. least \in last /\ \A j \in last : least <= j
  <2>1. \E i \in last : \A j \in last : i <= j
    BY <1>2, <1>3
  <2> QED
    BY <2>1, Zenon
<1> HIDE DEF least
<1>5. least = k
  BY <1>1, <1>2, <1>3, <1>4
<1>6. last # {}
  BY <1>2
<1>7. Seen(es) = IF last = {} THEN es ELSE SubSeq(es, 1, least)
  BY Zenon DEF Seen, last, least
<1> QED
  BY <1>5, <1>6, <1>7, Zenon

LEMMA FirstEndExists ==
  ASSUME NEW A, NEW es \in Seq(A), ~Quiet(es)
  PROVE  \E k : FirstEnd(es, k)
<1> DEFINE last == {i \in 1..Len(es) : Ends(es[i])}
<1>1. last \in SUBSET Nat /\ last # {} /\ Len(es) \in Nat
  BY LenProperties DEF Quiet
<1>2. PICK k \in last : \A j \in last : k <= j
  <2> HIDE DEF last
  <2> QED
    BY <1>1, LeastNumber
<1>3. k \in 1..Len(es) /\ Ends(es[k])
  OBVIOUS
<1>4. ASSUME NEW i \in 1..(k - 1) PROVE ~Ends(es[i])
  <2>1. i \in 1..Len(es) /\ ~(k <= i)
    BY <1>1, <1>3
  <2>2. i \notin last
    BY <1>2, <2>1
  <2> QED
    BY <2>1, <2>2
<1> QED
  BY <1>3, <1>4 DEF FirstEnd

LEMMA SeenIsTyped ==
  ASSUME NEW A, NEW es \in Seq(A)
  PROVE  Seen(es) \in Seq(A)
<1>1. CASE Quiet(es)
  <2>1. Seen(es) = es
    BY <1>1, SeenOfQuiet
  <2> QED
    BY <2>1
<1>2. CASE ~Quiet(es)
  <2>1. PICK k : FirstEnd(es, k)
    BY <1>2, FirstEndExists
  <2>2. k \in 0..Len(es) /\ Len(es) \in Nat /\ Len(es) \in 0..Len(es) /\ k <= Len(es)
    BY <2>1, LenProperties DEF FirstEnd
  <2>3. SubSeq(es, 1, k) \in Seq(A)
    BY <2>2, CutGrows
  <2>4. Seen(es) = SubSeq(es, 1, k)
    BY <2>1, SeenUpTo
  <2> QED
    BY <2>3, <2>4
<1> QED
  BY <1>1, <1>2

LEMMA QuietOfConcat ==
  ASSUME NEW A, NEW es \in Seq(A), NEW fs \in Seq(A), Quiet(es), Quiet(fs)
  PROVE  Quiet(es \o fs)
<1> DEFINE both == es \o fs
           m == Len(es)
<1>1. m \in Nat /\ Len(fs) \in Nat /\ both \in Seq(A) /\ Len(both) = m + Len(fs)
      /\ \A i \in 1..(m + Len(fs)) : both[i] = IF i <= m THEN es[i] ELSE fs[i - m]
  BY LenProperties, ConcatProperties
<1>2. \A i \in 1..m : ~Ends(es[i])
  BY DEF Quiet
<1> HIDE DEF both, m
<1>3. ASSUME NEW i \in 1..(m + Len(fs)) PROVE ~Ends(both[i])
  <2>1. CASE i <= m
    <3>1. i \in 1..m /\ both[i] = es[i]
      BY <1>1, <2>1
    <3> QED
      BY <1>2, <3>1
  <2>2. CASE ~(i <= m)
    <3>1. i - m \in 1..Len(fs) /\ both[i] = fs[i - m]
      BY <1>1, <2>2
    <3> QED
      BY <3>1 DEF Quiet
  <2> QED
    BY <2>1, <2>2
<1>4. Quiet(both)
  BY <1>1, <1>3 DEF Quiet
<1> QED
  BY <1>4 DEF both

\* What is seen of events that do not end the answer, and of others after them.
SeenInTwo(es, fs) == Seen(es \o fs) = es \o Seen(fs)

LEMMA SeenOfConcat ==
  ASSUME NEW A, NEW es \in Seq(A), NEW fs \in Seq(A), Quiet(es)
  PROVE  SeenInTwo(es, fs)
<1> DEFINE both == es \o fs
           m == Len(es)
<1>1. m \in Nat /\ Len(fs) \in Nat /\ both \in Seq(A) /\ Len(both) = m + Len(fs)
      /\ \A i \in 1..(m + Len(fs)) : both[i] = IF i <= m THEN es[i] ELSE fs[i - m]
  BY LenProperties, ConcatProperties
<1>2. \A i \in 1..m : ~Ends(es[i])
  BY DEF Quiet
<1> HIDE DEF both, m
<1>3. CASE Quiet(fs)
  <2>1. Quiet(both)
    BY <1>3, QuietOfConcat DEF both
  <2>2. Seen(both) = both /\ Seen(fs) = fs
    <3>1. Seen(both) = both
      BY <1>1, <2>1, SeenOfQuiet
    <3>2. Seen(fs) = fs
      BY <1>3, SeenOfQuiet
    <3> QED
      BY <3>1, <3>2
  <2> QED
    BY <2>2, Zenon DEF SeenInTwo, both
<1>4. CASE ~Quiet(fs)
  <2>1. PICK k : FirstEnd(fs, k)
    BY <1>4, FirstEndExists
  <2>2. k \in 1..Len(fs) /\ Ends(fs[k]) /\ \A i \in 1..(k - 1) : ~Ends(fs[i])
    BY <2>1 DEF FirstEnd
  <2>3. FirstEnd(both, m + k)
    <3>1. m + k \in 1..Len(both) /\ ~(m + k <= m) /\ (m + k) - m = k
      BY <1>1, <2>2
    <3>2. Ends(both[m + k])
      BY <1>1, <2>2, <3>1
    <3>3. ASSUME NEW i \in 1..((m + k) - 1) PROVE ~Ends(both[i])
      <4>1. i \in 1..(m + Len(fs))
        BY <1>1, <2>2
      <4>2. CASE i <= m
        <5>1. i \in 1..m /\ both[i] = es[i]
          BY <1>1, <4>1, <4>2
        <5> QED
          BY <1>2, <5>1
      <4>3. CASE ~(i <= m)
        <5>1. i - m \in 1..(k - 1) /\ both[i] = fs[i - m]
          BY <1>1, <2>2, <4>1, <4>3
        <5> QED
          BY <2>2, <5>1
      <4> QED
        BY <4>2, <4>3
    <3> QED
      BY <3>1, <3>2, <3>3 DEF FirstEnd
  <2>4. Seen(both) = SubSeq(both, 1, m + k) /\ Seen(fs) = SubSeq(fs, 1, k)
    <3>1. Seen(both) = SubSeq(both, 1, m + k)
      BY <1>1, <2>3, SeenUpTo
    <3>2. Seen(fs) = SubSeq(fs, 1, k)
      BY <2>1, SeenUpTo
    <3> QED
      BY <3>1, <3>2
  <2> DEFINE cut == SubSeq(fs, 1, k)
             cutBoth == SubSeq(both, 1, m + k)
             joined == es \o cut
  <2>5. cut \in Seq(A) /\ Len(cut) = k /\ \A i \in 1..k : cut[i] = fs[i]
    BY <1>1, <2>2
  <2>6. cutBoth \in Seq(A) /\ Len(cutBoth) = m + k /\ \A i \in 1..(m + k) : cutBoth[i] = both[i]
    BY <1>1, <2>2
  <2> HIDE DEF cut, cutBoth
  <2>7. joined \in Seq(A) /\ Len(joined) = m + k
        /\ \A i \in 1..(m + k) : joined[i] = IF i <= m THEN es[i] ELSE cut[i - m]
    <3>1. joined \in Seq(A) /\ Len(joined) = Len(es) + Len(cut)
          /\ \A i \in 1..(Len(es) + Len(cut)) : joined[i] = IF i <= Len(es) THEN es[i] ELSE cut[i - Len(es)]
      BY <2>5, ConcatProperties
    <3> QED
      BY <2>5, <3>1 DEF m
  <2> HIDE DEF joined
  <2>8. \A i \in 1..(m + k) : cutBoth[i] = joined[i]
    <3> SUFFICES ASSUME NEW i \in 1..(m + k) PROVE cutBoth[i] = joined[i]
      OBVIOUS
    <3>1. i \in 1..(m + Len(fs))
      BY <1>1, <2>2
    <3>2. CASE i <= m
      BY <1>1, <2>6, <2>7, <3>1, <3>2
    <3>3. CASE ~(i <= m)
      <4>1. i - m \in 1..k
        BY <1>1, <2>2, <3>3
      <4> QED
        BY <1>1, <2>5, <2>6, <2>7, <3>1, <3>3, <4>1
    <3> QED
      BY <3>2, <3>3
  <2>9. cutBoth = joined
    BY <2>6, <2>7, <2>8, SeqEqual
  <2> QED
    BY <2>4, <2>9, Zenon DEF SeenInTwo, both, cutBoth, joined, cut
<1> QED
  BY <1>3, <1>4

\* What WriteEvents takes for the end of the answer.
Stops(seen) == seen # << >> /\ Ends(Last(seen))

LEMMA SeenStops ==
  ASSUME NEW A, NEW es \in Seq(A), ~Stops(Seen(es))
  PROVE  Quiet(es)
<1> SUFFICES ASSUME ~Quiet(es) PROVE FALSE
  OBVIOUS
<1>1. PICK k : FirstEnd(es, k)
  BY FirstEndExists
<1>2. k \in 1..Len(es) /\ Ends(es[k]) /\ Len(es) \in Nat
  BY <1>1, LenProperties DEF FirstEnd
<1> DEFINE cut == SubSeq(es, 1, k)
<1>3. cut \in Seq(A) /\ Len(cut) = k /\ cut[k] = es[k]
  BY <1>2
<1>4. Seen(es) = cut
  BY <1>1, SeenUpTo
<1> HIDE DEF cut
<1>5. cut # << >>
  BY <1>2, <1>3
<1>6. Last(cut) = es[k]
  BY <1>3 DEF Last
<1> QED
  BY <1>2, <1>4, <1>5, <1>6, Zenon DEF Stops

-----------------------------------------------------------------------------
(* AgentCore's answer.                                                      *)

LEMMA AnswersAreSymbols ==
  ASSUME NEW a \in Answers
  PROVE  /\ a.symbols \in Seq(Symbols) /\ a.type \in {"sse", "json"}
         /\ a.type = "json" => a.symbols[1] \in Names /\ Len(a.symbols) \in Nat \ {0}
<1>1. \A s \in EventStreams : s \in Seq(Symbols)
  <2> SUFFICES ASSUME NEW es \in SeqOf(EventKinds, MaxEvents)
               PROVE  FlattenSeq([i \in DOMAIN es |-> <<"data:", es[i], LF, LF>>]) \in Seq(Symbols)
    BY DEF EventStreams
  <2> DEFINE f == [e \in EventKinds |-> <<"data:", e, LF, LF>>]
  <2>1. f \in [EventKinds -> Seq(Symbols)]
    BY DEF Symbols
  <2>2. \A e \in EventKinds : f[e] = <<"data:", e, LF, LF>>
    OBVIOUS
  <2> HIDE DEF f
  <2>3. PICK n \in 0..MaxEvents : es \in [1..n -> EventKinds]
    BY WireAssumption DEF SeqOf
  <2>4. es \in Seq(EventKinds) /\ DOMAIN es = 1..n
    <3>1. n \in Nat
      BY WireAssumption, <2>3
    <3>2. es \in UNION {[1..k -> EventKinds] : k \in Nat}
      BY <2>3, <3>1
    <3> QED
      BY <2>3, <3>2, SeqDef
  <2>5. \A i \in DOMAIN es : f[es[i]] = <<"data:", es[i], LF, LF>>
    BY <2>2, <2>3
  <2>6. [i \in DOMAIN es |-> f[es[i]]] = [i \in DOMAIN es |-> <<"data:", es[i], LF, LF>>]
    BY <2>5
  <2>7. Images(f, es) \in Seq(Symbols)
    BY <2>1, <2>4, ImagesAreTyped
  <2> QED
    BY <2>6, <2>7, Zenon DEF Images
<1>2. \A s \in EventStreams : SubSeq(s, 1, Len(s) - 2) \in Seq(Symbols)
  <2> SUFFICES ASSUME NEW s \in EventStreams PROVE SubSeq(s, 1, Len(s) - 2) \in Seq(Symbols)
    OBVIOUS
  <2> DEFINE end == EmptyLine
  <2>1. end \in Seq(Symbols) /\ Len(end) = 2
    BY DEF EmptyLine, Symbols
  <2> HIDE DEF end
  <2>2. SubSeq(s, 1, Len(s) - Len(end)) \in Seq(Symbols)
    BY <1>1, <2>1, PieceIsTyped
  <2> QED
    BY <2>1, <2>2
<1>3. CASE a.type = "sse"
  BY <1>1, <1>2, <1>3 DEF Answers
<1>4. CASE a.type # "sse"
  <2>1. a.type = "json" /\ a.symbols \in Values
    BY <1>4 DEF Answers
  <2>2. PICK e \in EventKinds \union {"invalid"}, n \in 0..MaxBytes :
          a.symbols = Value(e, n)
    BY <2>1 DEF Values
  <2>3. n \in Nat
    BY WireAssumption
  <2>4. e \in Names
    BY DEF Names, Symbols, EventKinds, LF
  <2> DEFINE x == <<e>>
             y == [i \in 1..n |-> "pad"]
  <2>5. x \in Seq(Symbols) /\ Len(x) = 1 /\ x[1] = e
    BY <2>4 DEF Names
  <2>6. y \in Seq(Symbols) /\ Len(y) = n
    BY <2>3 DEF Symbols
  <2>7. a.symbols = x \o y
    BY <2>2, Zenon DEF Value
  <2> HIDE DEF x, y
  <2>8. x \o y \in Seq(Symbols) /\ Len(x \o y) = 1 + n /\ (x \o y)[1] = e
    <3>1. x \o y \in Seq(Symbols) /\ Len(x \o y) = Len(x) + Len(y)
          /\ \A i \in 1..(Len(x) + Len(y)) : (x \o y)[i] = IF i <= Len(x) THEN x[i] ELSE y[i - Len(x)]
      BY <2>5, <2>6, ConcatProperties
    <3>2. 1 \in 1..(1 + n)
      BY <2>3
    <3> QED
      BY <2>5, <2>6, <3>1, <3>2
  <2> QED
    BY <2>1, <2>3, <2>4, <2>7, <2>8
<1> QED
  BY <1>3, <1>4

-----------------------------------------------------------------------------
(* A chunk more.                                                            *)

LEMMA OneChunkMore ==
  ASSUME NEW A, NEW x \in Seq(A), NEW end \in Seq(A), NEW k \in 0..Len(x), NEW n \in 0..Len(x), k <= n
  PROVE  /\ SubSeq(x, 1, k) \in Seq(A) /\ SubSeq(x, k + 1, n) \in Seq(A)
         /\ SubSeq(x, 1, n) = SubSeq(x, 1, k) \o SubSeq(x, k + 1, n)
         /\ SplitsInTwo(SubSeq(x, 1, k), SubSeq(x, k + 1, n), end)
<1>1. /\ SubSeq(x, 1, k) \in Seq(A) /\ SubSeq(x, k + 1, n) \in Seq(A)
      /\ SubSeq(x, 1, n) = SubSeq(x, 1, k) \o SubSeq(x, k + 1, n)
  BY CutGrows
<1> DEFINE a == SubSeq(x, 1, k)
           b == SubSeq(x, k + 1, n)
<1>2. a \in Seq(A) /\ b \in Seq(A)
  BY <1>1
<1> HIDE DEF a, b
<1>3. SplitsInTwo(a, b, end)
  BY <1>2, SplitOfConcat
<1> QED
  BY <1>1, <1>3 DEF a, b

\* The lines of a text.
LEMMA LinesAreTyped ==
  ASSUME NEW text \in Seq(Symbols)
  PROVE  /\ SplitLines(text).pieces \in Seq(Lines) /\ SplitLines(text).open \in Lines
<1> DEFINE end == <<LF>>
           s == Split(text, end)
<1>1. end \in Seq(Symbols) /\ LF \in Symbols
  BY DEF Symbols
<1>2. SplitLines(text) = s
  BY DEF SplitLines
<1> HIDE DEF end
<1>3. s.open \in Seq(Symbols) /\ s.pieces \in Seq(Seq(Symbols))
  BY <1>1, SplitIsTyped
<1> HIDE DEF s
<1>4. NoBreak(s.open) /\ \A k \in 1..Len(s.pieces) : NoBreak(s.pieces[k])
  BY <1>1, <1>2, LinesHoldNoBreak
<1>5. s.open \in Lines
  BY <1>3, <1>4 DEF Lines
<1>6. s.pieces \in Seq(Lines)
  <2> DEFINE p == s.pieces
             n == Len(p)
             T == Seq(Symbols)
  <2>1. p \in Seq(T)
    BY <1>3
  <2>2. \A k \in 1..n : NoBreak(p[k])
    BY <1>4
  <2> HIDE DEF p, T
  <2>3. n \in Nat /\ p \in [1..n -> T] /\ \A k \in 1..n : p[k] \in T
    BY <2>1, LenProperties, ElementOfSeq
  <2>4. \A k \in 1..n : p[k] \in Lines
    BY <2>2, <2>3 DEF Lines, T
  <2> HIDE DEF n
  <2>5. p \in [1..n -> Lines]
    BY <2>3, <2>4
  <2>6. p \in UNION {[1..k -> Lines] : k \in Nat}
    BY <2>3, <2>5
  <2>7. p \in Seq(Lines)
    BY <2>6, SeqDef
  <2> QED
    BY <2>7 DEF p
<1> QED
  BY <1>2, <1>5, <1>6

-----------------------------------------------------------------------------
(* What the BFF writes.                                                     *)

\* Records are only added.
GrowsInto(r, s) == \E w \in Seq(Names) : s = r \o w

LEMMA ToldAreNames ==
  ASSUME NEW es \in Seq(Names)
  PROVE  [i \in DOMAIN es |-> Told(es[i])] \in Seq(Names)
<1> DEFINE n == Len(es)
           m == [i \in DOMAIN es |-> Told(es[i])]
<1>1. n \in Nat /\ DOMAIN es = 1..n /\ \A i \in 1..n : es[i] \in Names
  BY LenProperties, ElementOfSeq
<1>2. \A e \in Names : Told(e) \in Names
  BY DEF Told, Names, Symbols, LF
<1>3. m \in [1..n -> Names]
  BY <1>1, <1>2
<1> HIDE DEF m, n
<1>4. m \in UNION {[1..k -> Names] : k \in Nat}
  BY <1>1, <1>3
<1>5. m \in Seq(Names)
  BY <1>4, SeqDef
<1> QED
  BY <1>5 DEF m

LEMMA Writes ==
  ASSUME yielded \in Seq(Names), records \in Seq(Names), NEW es \in Seq(Names),
         NEW end \in {"no", "error", "message.completed"}, WriteEvents(es, end)
  PROVE  /\ yielded' = yielded \o Seen(es) /\ yielded' \in Seq(Names)
         /\ records' \in Seq(Names) /\ GrowsInto(records, records')
         /\ over' \in BOOLEAN
         /\ end # "no" => over'
         /\ ~over' => Quiet(es)
<1> DEFINE seen == Seen(es)
           told == [i \in DOMAIN seen |-> Told(seen[i])]
           last == IF Stops(seen) \/ end = "no" THEN << >> ELSE <<end>>
           w == told \o last
<1>1. seen \in Seq(Names)
  BY SeenIsTyped
<1>2. told \in Seq(Names)
  <2> HIDE DEF seen
  <2> QED
    BY <1>1, ToldAreNames
<1>3. last \in Seq(Names)
  <2>1. end \in {"error", "message.completed"} => end \in Names
    BY DEF Names, Symbols, EventKinds, LF
  <2>2. << >> \in Seq(Names)
    BY EmptySeq
  <2>3. end # "no" => <<end>> \in Seq(Names)
    BY <2>1
  <2> HIDE DEF seen
  <2> QED
    BY <2>2, <2>3
<1>4. /\ yielded' = yielded \o seen
      /\ records' = records \o told \o last
      /\ over' = (Stops(seen) \/ end # "no")
  BY Zenon DEF WriteEvents, Stops
<1> HIDE DEF told, last
<1>5. w \in Seq(Names) /\ yielded \o seen \in Seq(Names)
  <2>1. w \in Seq(Names)
    BY <1>2, <1>3, ConcatProperties
  <2> HIDE DEF seen
  <2>2. yielded \o seen \in Seq(Names)
    BY <1>1, ConcatProperties
  <2> QED
    BY <2>1, <2>2
<1>6. records \o (told \o last) = (records \o told) \o last
  BY <1>2, <1>3, ConcatRegroups
<1>7. records' = records \o w
  BY <1>4, <1>6, Zenon
<1> HIDE DEF w
<1>8. records \o w \in Seq(Names)
  BY <1>5, ConcatProperties
<1>9. GrowsInto(records, records')
  BY <1>5, <1>7, Zenon DEF GrowsInto
<1>10. ~over' => Quiet(es)
  BY <1>4, SeenStops DEF seen
<1>11. over' \in BOOLEAN /\ (end # "no" => over')
  BY <1>4, Zenon
<1> QED
  BY <1>4, <1>5, <1>7, <1>8, <1>9, <1>10, <1>11, Zenon

-----------------------------------------------------------------------------
(* How much is open.                                                        *)

\* Wherever a text is cut, no more than k symbols are open.
OpenWithin(text, end, k) ==
  \A i \in 0..Len(text) : Len(Split(SubSeq(text, 1, i), end).open) <= k

LEMMA OpenIsPart ==
  ASSUME NEW A, NEW text \in Seq(A), NEW end \in Seq(A)
  PROVE  Len(Split(text, end).open) <= Len(text)
<1> DEFINE Good(t) == Len(Split(t, end).open) <= Len(t)
           Bad == {t \in Seq(A) : ~Good(t)}
<1>1. Good(<< >>)
  BY SplitOfNothing, EmptySeq DEF Nothing
<1>2. ASSUME NEW t \in Seq(A), NEW c \in A, Good(t) PROVE Good(Append(t, c))
  <2> DEFINE s == Split(t, end)
             more == Append(s.open, c)
  <2>1. s \in Splits(A) /\ Split(Append(t, c), end) = Take(s, c, end) /\ s.open \in Seq(A)
    BY SplitOfAppend DEF Splits
  <2>2. Len(s.open) <= Len(t)
    BY <1>2
  <2> HIDE DEF s
  <2>3. /\ Len(s.open) \in Nat /\ Len(t) \in Nat /\ Len(more) = Len(s.open) + 1
        /\ Len(Append(t, c)) = Len(t) + 1
    BY <2>1, LenProperties, AppendProperties
  <2>4. Take(s, c, end).open = more \/ Take(s, c, end).open = << >>
    BY DEF Take
  <2> HIDE DEF more
  <2>5. Len(Take(s, c, end).open) <= Len(t) + 1
    BY <2>2, <2>3, <2>4, EmptySeq
  <2> QED
    BY <2>1, <2>3, <2>5
<1> HIDE DEF Good
<1>3. Bad = {}
  <2> SUFFICES ASSUME Bad # {} PROVE FALSE
    OBVIOUS
  <2>1. Bad \in SUBSET Seq(A)
    OBVIOUS
  <2>2. << >> \notin Bad /\ \A t \in Seq(A), c \in A : t \notin Bad => Append(t, c) \notin Bad
    BY <1>1, <1>2
  <2> HIDE DEF Bad
  <2> QED
    BY <2>1, <2>2, LeastText
<1>4. Good(text)
  BY <1>3
<1> QED
  BY <1>4 DEF Good

\* What is cut off behind a text that came to an end is cut off of what follows it.
LEMMA CutOfSecond ==
  ASSUME NEW A, NEW s \in Seq(A), NEW t \in Seq(A), NEW k \in 0..Len(t)
  PROVE  SubSeq(s \o t, 1, Len(s) + k) = s \o SubSeq(t, 1, k) /\ SubSeq(t, 1, k) \in Seq(A)
<1> DEFINE both == s \o t
           n == Len(s)
           a == SubSeq(both, 1, n + k)
           b == SubSeq(t, 1, k)
           c == s \o b
<1>1. n \in Nat /\ Len(t) \in Nat /\ k \in Nat /\ k <= Len(t)
  BY LenProperties
<1>2. /\ both \in Seq(A) /\ Len(both) = n + Len(t)
      /\ \A i \in 1..(n + Len(t)) : both[i] = IF i <= n THEN s[i] ELSE t[i - n]
  BY ConcatProperties
<1>3. b \in Seq(A) /\ Len(b) = k /\ \A i \in 1..k : b[i] = t[i]
  BY <1>1
<1> HIDE DEF both, b
<1>4. a \in Seq(A) /\ Len(a) = n + k /\ \A i \in 1..(n + k) : a[i] = both[i]
  BY <1>1, <1>2
<1>5. /\ c \in Seq(A) /\ Len(c) = n + k
      /\ \A i \in 1..(n + k) : c[i] = IF i <= n THEN s[i] ELSE b[i - n]
  BY <1>3, ConcatProperties
<1>6. \A i \in 1..(n + k) : i \in 1..(n + Len(t)) /\ (~(i <= n) => i - n \in 1..k)
  BY <1>1
<1> HIDE DEF a, c, n
<1>7. \A i \in 1..(n + k) : a[i] = c[i]
  BY <1>2, <1>3, <1>4, <1>5, <1>6
<1>8. a = c
  BY <1>4, <1>5, <1>7, SeqEqual
<1> QED
  BY <1>3, <1>8 DEF a, b, c, both, n

LEMMA OpenOfConcat ==
  ASSUME NEW A, NEW text \in Seq(A), NEW added \in Seq(A), NEW end \in Seq(A), NEW k \in Nat,
         OpenWithin(text, end, k), Split(text, end).open = << >>, OpenWithin(added, end, k)
  PROVE  OpenWithin(text \o added, end, k)
<1> DEFINE both == text \o added
<1>1. Len(text) \in Nat /\ Len(added) \in Nat /\ Len(both) = Len(text) + Len(added)
  BY LenProperties, ConcatProperties
<1> SUFFICES ASSUME NEW i \in 0..Len(both)
             PROVE  Len(Split(SubSeq(both, 1, i), end).open) <= k
  BY DEF OpenWithin
<1>2. CASE i <= Len(text)
  <2>1. i \in 0..Len(text)
    BY <1>1, <1>2
  <2>2. SubSeq(both, 1, i) = SubSeq(text, 1, i)
    BY <2>1, CutOfLonger
  <2>3. Len(Split(SubSeq(text, 1, i), end).open) <= k
    BY <2>1 DEF OpenWithin
  <2> QED
    BY <2>2, <2>3, Zenon
<1>3. CASE ~(i <= Len(text))
  <2> DEFINE j == i - Len(text)
             part == SubSeq(added, 1, j)
  <2>1. j \in 0..Len(added) /\ i = Len(text) + j
    BY <1>1, <1>3
  <2> HIDE DEF j
  <2>2. SubSeq(both, 1, i) = text \o part /\ part \in Seq(A)
    BY <2>1, CutOfSecond
  <2>3. Len(Split(part, end).open) <= k
    BY <2>1 DEF OpenWithin
  <2> HIDE DEF part
  <2>4. SplitsInTwo(text, part, end) /\ << >> \o part = part
    BY <2>2, SplitOfConcat, ConcatEmptySeq
  <2>5. Split(text \o part, end).open = Split(part, end).open
    BY <2>4, Zenon DEF SplitsInTwo
  <2> QED
    BY <2>2, <2>3, <2>5, Zenon
<1> QED
  BY <1>2, <1>3

ImagesGrow(f, r, b) == Images(f, Append(r, b)) = Images(f, r) \o f[b]

LEMMA ImagesOfMore ==
  ASSUME NEW A, NEW B, NEW f \in [B -> Seq(A)], NEW r \in Seq(B), NEW b \in B
  PROVE  ImagesGrow(f, r, b) /\ Images(f, r) \in Seq(A) /\ f[b] \in Seq(A)
<1>1. Append(r, b) = r \o <<b>> /\ <<b>> \in Seq(B)
  BY AppendIsConcat
<1>2. Images(f, <<b>>) = f[b]
  BY ImagesOfOne
<1> DEFINE one == <<b>>
<1>3. Images(f, r \o <<b>>) = Images(f, r) \o Images(f, <<b>>)
  <2>1. one \in Seq(B)
    BY <1>1
  <2> HIDE DEF one
  <2>2. Images(f, r \o one) = Images(f, r) \o Images(f, one)
    BY <2>1, ImagesOfConcat
  <2> QED
    BY <2>2, Zenon DEF one
<1>4. Images(f, r) \in Seq(A) /\ f[b] \in Seq(A)
  BY ImagesAreTyped
<1> QED
  BY <1>1, <1>2, <1>3, <1>4, Zenon DEF ImagesGrow

\* No text of f leaves anything open, nor has it more than k open anywhere.
Closed(f, B, end, k) ==
  \A b \in B : OpenWithin(f[b], end, k) /\ Split(f[b], end).open = << >>

\* So it is with such texts put together.
LEMMA OpenOfImages ==
  ASSUME NEW A, NEW B, NEW f \in [B -> Seq(A)], NEW s \in Seq(B), NEW end \in Seq(A), NEW k \in Nat,
         Closed(f, B, end, k)
  PROVE  OpenWithin(Images(f, s), end, k)
<1> DEFINE Good(r) == OpenWithin(Images(f, r), end, k) /\ Split(Images(f, r), end).open = << >>
           Bad == {r \in Seq(B) : ~Good(r)}
<1>1. Good(<< >>)
  <2>1. Images(f, << >>) = << >>
    BY ImagesOfNothing
  <2>2. Split(<< >>, end).open = << >>
    BY SplitOfNothing DEF Nothing
  <2>3. OpenWithin(<< >>, end, k)
    <3> SUFFICES ASSUME NEW i \in 0..0 PROVE Len(Split(SubSeq(<< >>, 1, i), end).open) <= k
      BY EmptySeq DEF OpenWithin
    <3>1. SubSeq(<< >>, 1, i) = << >>
      BY SubSeqEmpty
    <3>2. Len(Split(<< >>, end).open) <= k
      BY <2>2, EmptySeq
    <3> QED
      BY <3>1, <3>2, Zenon
  <2> QED
    BY <2>1, <2>2, <2>3, Zenon
<1>2. ASSUME NEW r \in Seq(B), NEW b \in B, Good(r) PROVE Good(Append(r, b))
  <2> DEFINE more == Append(r, b)
             text == Images(f, r)
             added == f[b]
  <2>1. Images(f, more) = text \o added /\ text \in Seq(A) /\ added \in Seq(A)
    <3>1. ImagesGrow(f, r, b) /\ Images(f, r) \in Seq(A) /\ f[b] \in Seq(A)
      BY ImagesOfMore
    <3> QED
      BY <3>1, Zenon DEF ImagesGrow
  <2>2. OpenWithin(text, end, k) /\ Split(text, end).open = << >>
        /\ OpenWithin(added, end, k) /\ Split(added, end).open = << >>
    BY <1>2 DEF Closed
  <2> HIDE DEF more, text, added
  <2>3. OpenWithin(text \o added, end, k)
    BY <2>1, <2>2, OpenOfConcat
  <2>4. SplitsInTwo(text, added, end) /\ << >> \o added = added
    BY <2>1, SplitOfConcat, ConcatEmptySeq
  <2>5. Split(text \o added, end).open = << >>
    BY <2>2, <2>4, Zenon DEF SplitsInTwo
  <2>6. Good(more)
    BY <2>1, <2>3, <2>5, Zenon
  <2> QED
    BY <2>6 DEF more
<1> HIDE DEF Good
<1>3. Bad = {}
  <2> SUFFICES ASSUME Bad # {} PROVE FALSE
    OBVIOUS
  <2>1. Bad \in SUBSET Seq(B)
    OBVIOUS
  <2>2. << >> \notin Bad /\ \A t \in Seq(B), c \in B : t \notin Bad => Append(t, c) \notin Bad
    BY <1>1, <1>2
  <2> HIDE DEF Bad
  <2> QED
    BY <2>1, <2>2, LeastText
<1>4. Good(s)
  BY <1>3
<1> QED
  BY <1>4 DEF Good
LEMMA OpenOfCut ==
  ASSUME NEW A, NEW text \in Seq(A), NEW end \in Seq(A), NEW k \in Nat, OpenWithin(text, end, k),
         NEW n \in 0..Len(text)
  PROVE  OpenWithin(SubSeq(text, 1, n), end, k)
<1> DEFINE cut == SubSeq(text, 1, n)
<1>1. cut \in Seq(A) /\ Len(cut) = n /\ Len(text) \in Nat
  BY LenProperties
<1> SUFFICES ASSUME NEW i \in 0..n PROVE Len(Split(SubSeq(cut, 1, i), end).open) <= k
  BY <1>1 DEF OpenWithin
<1>2. SubSeq(cut, 1, i) = SubSeq(text, 1, i)
  <2> DEFINE a == SubSeq(cut, 1, i)
             b == SubSeq(text, 1, i)
  <2>1. \A j \in 1..n : cut[j] = text[j]
    BY <1>1
  <2> HIDE DEF cut
  <2>2. a \in Seq(A) /\ Len(a) = i /\ \A j \in 1..i : a[j] = cut[j]
    BY <1>1
  <2>3. b \in Seq(A) /\ Len(b) = i /\ \A j \in 1..i : b[j] = text[j]
    BY <1>1
  <2>4. \A j \in 1..i : j \in 1..n
    BY <1>1
  <2> HIDE DEF a, b
  <2>5. a = b
    BY <1>1, <2>1, <2>2, <2>3, <2>4, SeqEqual
  <2> QED
    BY <2>5 DEF a, b
<1>3. i \in 0..Len(text)
  BY <1>1
<1>4. Len(Split(SubSeq(text, 1, i), end).open) <= k
  BY <1>3 DEF OpenWithin
<1> QED
  BY <1>2, <1>4, Zenon

\* The start of a text, symbol by symbol.
LEMMA StartOfText ==
  ASSUME NEW A, NEW text \in Seq(A), NEW i \in 0..Len(text)
  PROVE  /\ SubSeq(text, 1, i) \in Seq(A) /\ Len(SubSeq(text, 1, i)) = i
         /\ i # 0 => SubSeq(text, 1, i) = Append(SubSeq(text, 1, i - 1), text[i])
<1>1. Len(text) \in Nat
  BY LenProperties
<1>2. SubSeq(text, 1, i) \in Seq(A) /\ Len(SubSeq(text, 1, i)) = i
  BY <1>1
<1>3. ASSUME i # 0 PROVE SubSeq(text, 1, i) = Append(SubSeq(text, 1, i - 1), text[i])
  <2> DEFINE a == SubSeq(text, 1, i)
             b == SubSeq(text, 1, i - 1)
             c == Append(b, text[i])
  <2>1. i - 1 \in 0..Len(text) /\ (i - 1) + 1 = i /\ text[i] \in A
    BY <1>1, <1>3, ElementOfSeq
  <2>2. a \in Seq(A) /\ Len(a) = i /\ \A j \in 1..i : a[j] = text[j]
    BY <1>1
  <2>3. b \in Seq(A) /\ Len(b) = i - 1 /\ \A j \in 1..(i - 1) : b[j] = text[j]
    BY <1>1, <2>1
  <2> HIDE DEF a, b
  <2>4. /\ c \in Seq(A) /\ Len(c) = i /\ c[i] = text[i]
        /\ \A j \in 1..(i - 1) : c[j] = b[j]
    BY <2>1, <2>3, AppendProperties
  <2>5. \A j \in 1..i : j = i \/ j \in 1..(i - 1)
    BY <1>1
  <2> HIDE DEF c
  <2>6. a = c
    BY <2>2, <2>3, <2>4, <2>5, SeqEqual
  <2> QED
    BY <2>6 DEF a, b, c
<1> QED
  BY <1>2, <1>3

\* A line of AgentCore's answer, with the line breaks behind it.
DataLine(e) == <<"data:", e, LF, LF>>

LEMMA OpenOfLine ==
  ASSUME NEW e \in EventKinds
  PROVE  /\ DataLine(e) \in Seq(Symbols)
         /\ OpenWithin(DataLine(e), <<LF>>, 2) /\ Split(DataLine(e), <<LF>>).open = << >>
<1> DEFINE t == DataLine(e)
           end == <<LF>>
           start(i) == SubSeq(t, 1, i)
<1>1. e \in Symbols /\ LF \in Symbols /\ "data:" \in Symbols
  BY DEF Symbols
<1>2. t \in Seq(Symbols) /\ Len(t) = 4 /\ t[3] = LF /\ t[4] = LF
  BY <1>1 DEF DataLine
<1>3. end \in Seq(Symbols)
  BY <1>1
<1> HIDE DEF t, end
<1>4. start(4) = t
  BY <1>2, SubSeqFull
<1>5. ASSUME NEW i \in 0..4 PROVE Len(Split(start(i), end).open) <= i
  <2>1. start(i) \in Seq(Symbols) /\ Len(start(i)) = i
    BY <1>2, StartOfText
  <2> HIDE DEF start
  <2>2. Len(Split(start(i), end).open) <= Len(start(i))
    BY <1>3, <2>1, OpenIsPart
  <2> QED
    BY <2>1, <2>2
<1>6. ASSUME NEW i \in {3, 4} PROVE Split(start(i), end).open = << >>
  <2> DEFINE before == start(i - 1)
  <2>1. i \in 0..4 /\ i # 0 /\ i - 1 \in 0..4 /\ t[i] = LF
    BY <1>2
  <2>2. start(i) = Append(before, LF) /\ before \in Seq(Symbols)
    BY <1>2, <2>1, StartOfText
  <2> HIDE DEF start, before
  <2>3. /\ Split(before, end) \in Splits(Symbols)
        /\ Split(Append(before, LF), end) = Take(Split(before, end), LF, end)
    BY <1>1, <1>3, <2>2, SplitOfAppend
  <2> DEFINE s == Split(before, end)
  <2>4. s \in Splits(Symbols)
    BY <2>3
  <2> HIDE DEF s
  <2>5. Take(s, LF, <<LF>>) = [pieces |-> Append(s.pieces, s.open), open |-> << >>]
    BY <1>1, <2>4, LineEnds
  <2>6. Take(s, LF, end).open = << >>
    BY <2>5 DEF end
  <2> QED
    BY <2>2, <2>3, <2>6, Zenon DEF s
<1>7. ASSUME NEW i \in 0..Len(t) PROVE Len(Split(start(i), end).open) <= 2
  <2>1. i \in 0..4 /\ (i \in {3, 4} \/ i <= 2)
    BY <1>2
  <2>2. CASE i \in {3, 4}
    BY <1>6, <2>2, EmptySeq
  <2>3. CASE i <= 2
    <3> DEFINE o == Split(start(i), end).open
    <3>1. Len(o) <= i
      BY <1>5, <2>1
    <3>2. Len(o) \in Nat
      <4>1. start(i) \in Seq(Symbols)
        BY <1>2, <2>1, StartOfText
      <4> HIDE DEF start
      <4> QED
        BY <1>3, <4>1, SplitIsTyped, LenProperties
    <3> HIDE DEF o
    <3>3. Len(o) <= 2
      BY <2>1, <2>3, <3>1, <3>2
    <3> QED
      BY <3>3 DEF o
  <2> QED
    BY <2>1, <2>2, <2>3
<1>8. OpenWithin(t, end, 2)
  BY <1>7 DEF OpenWithin
<1>9. Split(t, end).open = << >>
  BY <1>4, <1>6
<1> QED
  BY <1>2, <1>8, <1>9 DEF t, end

\* A record of the BFF.
LEMMA OpenOfRecord ==
  ASSUME NEW e \in Names
  PROVE  OpenWithin(EncodeSse(e), EmptyLine, 6) /\ Split(EncodeSse(e), EmptyLine).open = << >>
<1> DEFINE t == EncodeSse(e)
           end == EmptyLine
<1>1. t \in Seq(Symbols) /\ SplitRecords(t).open = << >>
  BY SplitOfRecord
<1>2. Len(t) = 7
  BY DEF EncodeSse
<1>3. end \in Seq(Symbols)
  BY DEF EmptyLine, Symbols
<1>4. Split(t, end).open = << >>
  BY <1>1 DEF SplitRecords, EmptyLine
<1> HIDE DEF t, end
<1>5. ASSUME NEW i \in 0..Len(t) PROVE Len(Split(SubSeq(t, 1, i), end).open) <= 6
  <2> DEFINE start == SubSeq(t, 1, i)
             o == Split(start, end).open
  <2>1. start \in Seq(Symbols) /\ Len(start) = i
    BY <1>1, StartOfText
  <2>2. CASE i = 7
    <3>1. start = t
      BY <1>1, <1>2, <2>2, SubSeqFull
    <3> HIDE DEF start
    <3>2. Len(o) = 0
      BY <1>4, <3>1, EmptySeq
    <3> QED
      BY <3>2 DEF start
  <2>3. CASE i # 7
    <3> HIDE DEF start
    <3>1. Len(o) <= i /\ Len(o) \in Nat
      BY <1>3, <2>1, OpenIsPart, SplitIsTyped, LenProperties
    <3> HIDE DEF o
    <3>2. Len(o) <= 6
      BY <1>2, <2>3, <3>1
    <3> QED
      BY <3>2 DEF o, start
  <2> QED
    BY <2>2, <2>3
<1>6. OpenWithin(t, end, 6)
  BY <1>5 DEF OpenWithin
<1> QED
  BY <1>4, <1>6 DEF t, end
\* An event stream never leaves more open than a line.
LEMMA OpenOfAnswer ==
  ASSUME NEW a \in Answers, a.type = "sse"
  PROVE  OpenWithin(a.symbols, <<LF>>, 2)
<1> DEFINE end == <<LF>>
<1>1. end \in Seq(Symbols)
  BY DEF Symbols
<1>2. ASSUME NEW s \in EventStreams PROVE s \in Seq(Symbols) /\ OpenWithin(s, <<LF>>, 2)
  <2>1. PICK es \in SeqOf(EventKinds, MaxEvents) :
          s = FlattenSeq([i \in DOMAIN es |-> <<"data:", es[i], LF, LF>>])
    BY DEF EventStreams
  <2> DEFINE f == [e \in EventKinds |-> DataLine(e)]
  <2>2. f \in [EventKinds -> Seq(Symbols)] /\ Closed(f, EventKinds, <<LF>>, 2)
    BY OpenOfLine DEF Closed
  <2>3. \A e \in EventKinds : f[e] = <<"data:", e, LF, LF>>
    BY DEF DataLine
  <2> HIDE DEF f
  <2>4. PICK n \in 0..MaxEvents : es \in [1..n -> EventKinds]
    BY WireAssumption DEF SeqOf
  <2>5. es \in Seq(EventKinds)
    <3>1. n \in Nat
      BY WireAssumption, <2>4
    <3>2. es \in UNION {[1..k -> EventKinds] : k \in Nat}
      BY <2>4, <3>1
    <3> QED
      BY <3>2, SeqDef
  <2>6. [i \in DOMAIN es |-> f[es[i]]] = [i \in DOMAIN es |-> <<"data:", es[i], LF, LF>>]
    BY <2>3, <2>4
  <2>7. Images(f, es) \in Seq(Symbols) /\ OpenWithin(Images(f, es), end, 2)
    <3>1. Closed(f, EventKinds, end, 2)
      BY <2>2
    <3> HIDE DEF end
    <3> QED
      BY <1>1, <2>2, <2>5, <3>1, ImagesAreTyped, OpenOfImages
  <2>8. s = Images(f, es)
    BY <2>1, <2>6, Zenon DEF Images
  <2> QED
    BY <2>7, <2>8, Zenon
<1>3. ASSUME NEW s \in EventStreams, a.symbols = SubSeq(s, 1, Len(s) - 2)
      PROVE  OpenWithin(a.symbols, <<LF>>, 2)
  <2> DEFINE n == Len(s) - 2
  <2>1. s \in Seq(Symbols) /\ OpenWithin(s, end, 2) /\ Len(s) \in Nat
    BY <1>2, LenProperties
  <2>2. CASE n \in 0..Len(s)
    <3> HIDE DEF n, end
    <3>1. OpenWithin(SubSeq(s, 1, n), end, 2)
      BY <1>1, <2>1, <2>2, OpenOfCut
    <3> QED
      BY <1>3, <3>1, Zenon DEF n, end
  <2>3. CASE ~(n \in 0..Len(s))
    <3>1. n \in Int /\ n < 0 /\ 0 \in 0..Len(s)
      BY <2>1, <2>3
    <3> HIDE DEF n, end
    <3>2. SubSeq(s, 1, n) = << >> /\ SubSeq(s, 1, 0) = << >>
      BY <3>1, SubSeqEmpty
    <3>3. OpenWithin(SubSeq(s, 1, 0), end, 2)
      BY <1>1, <2>1, <3>1, OpenOfCut
    <3> QED
      BY <1>3, <3>2, <3>3, Zenon DEF n, end
  <2> QED
    BY <2>2, <2>3
<1>4. a.symbols \in EventStreams \union {SubSeq(s, 1, Len(s) - 2) : s \in EventStreams \ {<< >>}}
  BY DEF Answers
<1> QED
  BY <1>2, <1>3, <1>4

\* What the BFF writes never leaves more open than a record.
LEMMA OpenOfRecords ==
  ASSUME NEW rs \in Seq(Names)
  PROVE  OpenWithin(Encoded(rs), EmptyLine, 6)
<1> DEFINE f == [e \in Names |-> EncodeSse(e)]
<1>1. EmptyLine \in Seq(Symbols)
  BY DEF EmptyLine, Symbols
<1>2. f \in [Names -> Seq(Symbols)] /\ Closed(f, Names, EmptyLine, 6)
  BY SplitOfRecord, OpenOfRecord DEF Closed
<1>3. \A i \in DOMAIN rs : f[rs[i]] = EncodeSse(rs[i])
  <2>1. \A i \in DOMAIN rs : rs[i] \in Names
    BY LenProperties, ElementOfSeq
  <2> QED
    BY <2>1
<1> HIDE DEF f
<1>4. [i \in DOMAIN rs |-> f[rs[i]]] = [i \in DOMAIN rs |-> EncodeSse(rs[i])]
  BY <1>3
<1>5. OpenWithin(Images(f, rs), EmptyLine, 6)
  BY <1>1, <1>2, OpenOfImages
<1> QED
  BY <1>4, <1>5, Zenon DEF Images, Encoded

-----------------------------------------------------------------------------
(* The BFF.                                                                 *)

\* The lines of what was read so far.
LinesRead == SplitLines(SubSeq(source.symbols, 1, consumed))

BffInv ==
  /\ asked = Idle => answer = 0 /\ records = << >>
  /\ source \in Answers \union {NoSource}
  /\ consumed \in 0..Len(source.symbols)
  /\ yielded \in Seq(Names) /\ records \in Seq(Names)
  /\ source = NoSource => consumed = 0 /\ pending = << >> /\ yielded = << >>
  /\ source.type = "sse" => pending = LinesRead.open
  /\ source.type = "json" => pending = << >>
  /\ source.type = "sse" /\ ~over => yielded = EventsOf(LinesRead.pieces) /\ Quiet(yielded)
  /\ CutsMakeNoDifference

LEMMA NothingRead ==
  ASSUME NEW x
  PROVE  /\ SplitLines(SubSeq(x, 1, 0)) = Nothing
         /\ EventsOf(<< >>) = << >> /\ Seen(<< >>) = << >> /\ Quiet(<< >>)
<1>1. SubSeq(x, 1, 0) = << >>
  BY SubSeqEmpty
<1>2. SplitLines(<< >>) = Nothing
  <2> DEFINE end == <<LF>>
  <2>1. end \in Seq({LF})
    OBVIOUS
  <2> HIDE DEF end
  <2>2. Split(<< >>, end) = Nothing
    BY <2>1, SplitOfNothing
  <2> QED
    BY <2>2 DEF SplitLines, end
<1>3. EventsOf(<< >>) = << >>
  <2> DEFINE none == << >>
             m == [i \in DOMAIN none |-> EventFromData(none[i])]
  <2>1. m = none
    OBVIOUS
  <2>2. none \in Seq(Seq(Names)) /\ \A i \in 1..Len(none) : none[i] = << >>
    BY EmptySeq
  <2>3. FlattenSeq(none) = << >>
    BY <2>2, FlattenOfNothing
  <2> HIDE DEF none
  <2>4. EventsOf(none) = << >>
    BY <2>1, <2>3, Zenon DEF EventsOf
  <2> QED
    BY <2>4 DEF none
<1>4. Quiet(<< >>)
  BY DEF Quiet
<1>5. Seen(<< >>) = << >>
  <2>1. << >> \in Seq(Names)
    BY EmptySeq
  <2> QED
    BY <1>4, <2>1, SeenOfQuiet
<1> QED
  BY <1>1, <1>2, <1>3, <1>4, <1>5, Zenon

LEMMA SourceIsTyped ==
  ASSUME source \in Answers \union {NoSource}
  PROVE  source.symbols \in Seq(Symbols) /\ (source # NoSource => source \in Answers)
         /\ source.type \in {"sse", "json", "none"} /\ (source.type = "none" <=> source = NoSource)
<1>1. CASE source = NoSource
  BY <1>1, EmptySeq DEF NoSource
<1>2. CASE source # NoSource
  BY <1>2, AnswersAreSymbols
<1> QED
  BY <1>1, <1>2

LEMMA BffStarts == WireInit => BffInv
<1> SUFFICES ASSUME WireInit PROVE BffInv
  OBVIOUS
<1>1. /\ source = NoSource /\ consumed = 0 /\ pending = << >> /\ yielded = << >> /\ records = << >>
      /\ answer = 0
  BY DEF WireInit
<1>2. source.type # "sse" /\ Len(source.symbols) = 0
  BY <1>1 DEF NoSource
<1>3. << >> \in Seq(Names)
  BY EmptySeq
<1> QED
  BY <1>1, <1>2, <1>3 DEF BffInv, CutsMakeNoDifference

LEMMA NothingWritten ==
  ASSUME NEW r \in Seq(Names)
  PROVE  GrowsInto(r, r)
<1>1. << >> \in Seq(Names)
  BY EmptySeq
<1>2. r = r \o << >>
  BY ConcatEmptySeq
<1> QED
  BY <1>1, <1>2, Zenon DEF GrowsInto

LEMMA AskKeeps ==
  ASSUME BffInv, Ask
  PROVE  BffInv' /\ GrowsInto(records, records')
<1>1. PICK r \in WireRequests :
        /\ asked' = r
        /\ records' = IF Streams(r) THEN <<"message.started">> ELSE << >>
  BY DEF Ask
<1>2. asked = Idle /\ records = << >>
  BY DEF Ask, BffInv
<1>3. UNCHANGED <<source, consumed, pending, yielded, over>>
  BY DEF Ask
<1>4. asked' # Idle
  <2>1. \A q \in WireRequests : q.path # "none"
    BY DEF WireRequests
  <2> QED
    BY <1>1, <2>1 DEF Idle
<1>5. records' \in Seq(Names)
  <2>1. "message.started" \in Names
    BY DEF Names, Symbols, LF
  <2>2. <<"message.started">> \in Seq(Names) /\ << >> \in Seq(Names)
    BY <2>1
  <2> QED
    BY <1>1, <2>2
<1>6. GrowsInto(records, records')
  <2>1. << >> \o records' = records'
    BY <1>5, ConcatEmptySeq
  <2> QED
    BY <1>2, <1>5, <2>1, Zenon DEF GrowsInto
<1>7. LinesRead' = LinesRead /\ CutsMakeNoDifference' = CutsMakeNoDifference
  BY <1>3 DEF LinesRead, CutsMakeNoDifference
<1> QED
  BY <1>3, <1>4, <1>5, <1>6, <1>7 DEF BffInv

LEMMA ReadFailsKeeps ==
  ASSUME BffInv, ReadFails
  PROVE  BffInv' /\ GrowsInto(records, records')
<1>1. Streaming /\ source # NoSource /\ WriteEvents(<< >>, "error")
      /\ UNCHANGED <<asked, answer, source, consumed, pending>>
  BY DEF ReadFails
<1>2. << >> \in Seq(Names) /\ Seen(<< >>) = << >>
  BY EmptySeq, NothingRead
<1> DEFINE none == << >>
<1>3. none \in Seq(Names) /\ Seen(none) = << >> /\ WriteEvents(none, "error")
  BY <1>1, <1>2
<1> HIDE DEF none
<1>4. yielded \in Seq(Names) /\ records \in Seq(Names)
  BY DEF BffInv
<1>5. /\ yielded' = yielded \o Seen(none) /\ yielded' \in Seq(Names)
      /\ records' \in Seq(Names) /\ GrowsInto(records, records') /\ over'
  BY <1>3, <1>4, Writes
<1>6. yielded' = yielded
  BY <1>3, <1>4, <1>5, ConcatEmptySeq
<1>7. CutsMakeNoDifference' = CutsMakeNoDifference /\ LinesRead' = LinesRead
  BY <1>1, <1>6 DEF CutsMakeNoDifference, LinesRead
<1>8. asked # Idle
  BY <1>1 DEF Streaming, BffInv
<1> QED
  BY <1>1, <1>5, <1>6, <1>7, <1>8 DEF BffInv

LEMMA InvokeKeeps ==
  ASSUME BffInv, InvokeAgentCore
  PROVE  BffInv' /\ GrowsInto(records, records')
<1>1. Streaming /\ source = NoSource /\ UNCHANGED <<asked, answer, consumed, pending>>
  BY DEF InvokeAgentCore
<1>2. asked # Idle /\ consumed = 0 /\ pending = << >> /\ yielded = << >>
      /\ yielded \in Seq(Names) /\ records \in Seq(Names)
  BY <1>1 DEF Streaming, BffInv
<1>3. CASE source' \in Answers /\ UNCHANGED <<yielded, records, over>>
  <2>1. source'.symbols \in Seq(Symbols)
    BY <1>3, AnswersAreSymbols
  <2>2. consumed' \in 0..Len(source'.symbols)
    BY <1>1, <1>2, <2>1, LenProperties
  <2>3. source' # NoSource
    <3>1. source'.type \in {"sse", "json"}
      BY <1>3, AnswersAreSymbols
    <3> QED
      BY <3>1 DEF NoSource
  <2>4. LinesRead' = Nothing
    <3>1. SplitLines(SubSeq(source'.symbols, 1, 0)) = Nothing
      BY NothingRead
    <3> QED
      BY <1>1, <1>2, <3>1 DEF LinesRead
  <2>5. EventsOf(LinesRead'.pieces) = << >> /\ LinesRead'.open = << >>
    BY <2>4, NothingRead DEF Nothing
  <2>6. Quiet(yielded') /\ Seen(<< >>) = << >>
    BY <1>2, <1>3, NothingRead
  <2>7. CutsMakeNoDifference'
    <3>1. yielded' = Seen(EventsOf(LinesRead'.pieces))
      BY <1>2, <1>3, <2>5, <2>6
    <3> QED
      BY <3>1, Zenon DEF CutsMakeNoDifference, LinesRead
  <2>8. GrowsInto(records, records')
    BY <1>2, <1>3, NothingWritten
  <2>9. pending' = LinesRead'.open /\ yielded' = EventsOf(LinesRead'.pieces)
    BY <1>1, <1>2, <1>3, <2>5
  <2> QED
    BY <1>1, <1>2, <1>3, <2>2, <2>3, <2>6, <2>7, <2>8, <2>9 DEF BffInv
<1>4. CASE WriteEvents(<< >>, "error") /\ UNCHANGED source
  <2> DEFINE none == << >>
  <2>1. none \in Seq(Names) /\ Seen(none) = << >> /\ WriteEvents(none, "error")
    BY <1>4, EmptySeq, NothingRead
  <2> HIDE DEF none
  <2>2. /\ yielded' = yielded \o Seen(none) /\ yielded' \in Seq(Names)
        /\ records' \in Seq(Names) /\ GrowsInto(records, records') /\ over'
    BY <1>2, <2>1, Writes
  <2>3. yielded' = << >>
    BY <1>2, <2>1, <2>2, ConcatEmptySeq
  <2>4. source'.type \notin {"sse", "json"}
    BY <1>1, <1>4 DEF NoSource
  <2>5. CutsMakeNoDifference'
    BY <2>4 DEF CutsMakeNoDifference
  <2> QED
    BY <1>1, <1>2, <1>4, <2>2, <2>3, <2>4, <2>5 DEF BffInv
<1> QED
  BY <1>3, <1>4 DEF InvokeAgentCore

LEMMA ReadWholeKeeps ==
  ASSUME BffInv, ReadWhole
  PROVE  BffInv' /\ GrowsInto(records, records')
<1>1. Streaming /\ source.type = "json" /\ consumed' = Len(source.symbols)
      /\ UNCHANGED <<asked, answer, source, pending>>
  BY DEF ReadWhole
<1>2. asked # Idle /\ yielded \in Seq(Names) /\ records \in Seq(Names)
      /\ source \in Answers \union {NoSource} /\ pending = << >>
  BY <1>1 DEF Streaming, BffInv
<1>3. source # NoSource /\ source \in Answers /\ source.symbols \in Seq(Symbols)
  BY <1>1, <1>2, SourceIsTyped
<1>4. source.symbols[1] \in Names /\ Len(source.symbols) \in Nat
  BY <1>1, <1>3, AnswersAreSymbols
<1> DEFINE x == source.symbols[1]
           line == <<"data:", x>>
           lines == <<line>>
           none == << >>
<1>5. lines \in Seq(Lines)
  <2>1. x # LF /\ x \in Symbols /\ "data:" \in Symbols /\ "data:" # LF
    BY <1>4 DEF Names, Symbols, LF
  <2> HIDE DEF x
  <2>2. line \in Seq(Symbols) /\ Len(line) = 2 /\ line[1] = "data:" /\ line[2] = x
    BY <2>1
  <2> HIDE DEF line
  <2>3. NoBreak(line)
    <3>1. \A i \in 1..2 : i = 1 \/ i = 2
      OBVIOUS
    <3> QED
      BY <2>1, <2>2, <3>1 DEF NoBreak
  <2>4. line \in Lines
    BY <2>2, <2>3 DEF Lines
  <2> QED
    BY <2>4
<1>6. none \in Seq(Names)
  BY EmptySeq
<1>7. \/ WriteEvents(none, "error")
      \/ WriteEvents(EventsOf(lines), "message.completed")
  BY Zenon DEF ReadWhole
<1> HIDE DEF lines, none
<1>8. EventsOf(lines) \in Seq(Names)
  BY <1>5, EventsAreNames
<1>9. \E es \in Seq(Names), end \in {"error", "message.completed"} : WriteEvents(es, end)
  BY <1>6, <1>7, <1>8, Zenon
<1>10. PICK es \in Seq(Names), end \in {"error", "message.completed"} : WriteEvents(es, end)
  BY <1>9
<1>11. /\ yielded' \in Seq(Names) /\ records' \in Seq(Names)
       /\ GrowsInto(records, records') /\ over'
  BY <1>2, <1>10, Writes
<1>12. source'.type # "sse" /\ source' # NoSource /\ consumed' \in 0..Len(source'.symbols)
  BY <1>1, <1>3, <1>4
<1>13. CutsMakeNoDifference'
  BY <1>12 DEF CutsMakeNoDifference
<1> QED
  BY <1>1, <1>2, <1>11, <1>12, <1>13 DEF BffInv

LEMMA ReadChunkKeeps ==
  ASSUME BffInv, ReadChunk
  PROVE  BffInv' /\ GrowsInto(records, records')
<1> DEFINE x == source.symbols
           end == <<LF>>
<1>1. Streaming /\ source.type = "sse" /\ UNCHANGED <<asked, answer, source>>
  BY DEF ReadChunk
<1>2. /\ asked # Idle /\ yielded \in Seq(Names) /\ records \in Seq(Names)
      /\ source \in Answers \union {NoSource} /\ consumed \in 0..Len(x)
      /\ pending = LinesRead.open /\ yielded = EventsOf(LinesRead.pieces) /\ Quiet(yielded)
  BY <1>1 DEF Streaming, BffInv
<1>3. x \in Seq(Symbols) /\ source # NoSource /\ Len(x) \in Nat
  BY <1>1, <1>2, SourceIsTyped, LenProperties
<1>4. PICK n \in 1..Left :
        LET split == SplitLines(pending \o SubSeq(x, consumed + 1, consumed + n))
        IN /\ consumed' = consumed + n
           /\ pending' = OpenLine(split)
           /\ WriteEvents(EventsOf(split.pieces), "no")
  BY Zenon DEF ReadChunk
<1> DEFINE a == SubSeq(x, 1, consumed)
           b == SubSeq(x, consumed + 1, consumed + n)
           c == SubSeq(x, 1, consumed + n)
           o == LinesRead.open
           p == LinesRead.pieces
           split == SplitLines(o \o b)
           later == SplitLines(c)
<1>5. consumed + n \in 0..Len(x) /\ consumed \in 0..Len(x) /\ consumed <= consumed + n
  BY <1>2, <1>3, <1>4 DEF Left
<1>6. consumed' = consumed + n /\ pending' = split.open /\ WriteEvents(EventsOf(split.pieces), "no")
  BY <1>2, <1>4, Zenon DEF OpenLine
<1>7. end \in Seq(Symbols)
  BY DEF Symbols
<1> HIDE DEF end
<1>8. a \in Seq(Symbols) /\ b \in Seq(Symbols) /\ c = a \o b /\ SplitsInTwo(a, b, end)
  <2> HIDE DEF x
  <2> QED
    BY <1>3, <1>5, <1>7, OneChunkMore
<1>9. LinesRead = SplitLines(a) /\ LinesRead' = later
  BY <1>1, <1>6 DEF LinesRead
<1> HIDE DEF x, a, b, c
<1>10. c \in Seq(Symbols) /\ o \in Lines /\ p \in Seq(Lines)
  <2>1. c \in Seq(Symbols)
    <3>1. a \o b \in Seq(Symbols)
      BY <1>8, ConcatProperties
    <3> QED
      BY <1>8, <3>1
  <2>2. SplitLines(a).open \in Lines /\ SplitLines(a).pieces \in Seq(Lines)
    BY <1>8, LinesAreTyped
  <2> QED
    BY <1>9, <2>1, <2>2
<1>11. split.pieces \in Seq(Lines)
  <2>1. o \in Seq(Symbols)
    BY <1>10 DEF Lines
  <2> HIDE DEF o
  <2>2. o \o b \in Seq(Symbols)
    BY <1>8, <2>1, ConcatProperties
  <2> DEFINE ob == o \o b
  <2> HIDE DEF ob
  <2>3. SplitLines(ob).pieces \in Seq(Lines)
    BY <2>2, LinesAreTyped DEF ob
  <2> QED
    BY <2>3 DEF ob
<1>12. later.pieces = p \o split.pieces /\ later.open = split.open
  BY <1>8, <1>9, Zenon DEF SplitsInTwo, SplitLines, end
<1> DEFINE q == split.pieces
           es == EventsOf(q)
<1>13. EventsOf(later.pieces) = yielded \o es
  <2>1. q \in Seq(Lines)
    BY <1>11
  <2> HIDE DEF q, p, later
  <2>2. EventsOf(p \o q) = EventsOf(p) \o EventsOf(q)
    BY <1>10, <2>1, EventsOfConcat
  <2>3. later.pieces = p \o q /\ yielded = EventsOf(p)
    BY <1>2, <1>12, Zenon DEF p, q
  <2> QED
    BY <2>2, <2>3, Zenon
<1>14. es \in Seq(Names)
  <2>1. q \in Seq(Lines)
    BY <1>11
  <2> HIDE DEF q
  <2> QED
    BY <2>1, EventsAreNames
<1>15. WriteEvents(es, "no") /\ pending' = later.open
  BY <1>6, <1>12, Zenon
<1> HIDE DEF es, q, split, later
<1>16. /\ yielded' = yielded \o Seen(es) /\ yielded' \in Seq(Names)
       /\ records' \in Seq(Names) /\ GrowsInto(records, records')
       /\ over' \in BOOLEAN
       /\ ~over' => Quiet(es)
  BY <1>2, <1>14, <1>15, Writes
<1>17. Seen(yielded \o es) = yielded \o Seen(es)
  <2>1. SeenInTwo(yielded, es)
    BY <1>2, <1>14, SeenOfConcat
  <2> QED
    BY <2>1, Zenon DEF SeenInTwo
<1>18. yielded' = Seen(EventsOf(later.pieces))
  BY <1>13, <1>16, <1>17, Zenon
<1>19. CutsMakeNoDifference'
  <2>1. yielded' = Seen(EventsOf(LinesRead'.pieces))
    BY <1>9, <1>18, Zenon
  <2> QED
    BY <2>1, Zenon DEF CutsMakeNoDifference, LinesRead
<1>20. ASSUME ~over'
       PROVE  yielded' = EventsOf(LinesRead'.pieces) /\ Quiet(yielded')
  <2>1. Quiet(es)
    BY <1>16, <1>20
  <2>2. Seen(es) = es
    BY <1>14, <2>1, SeenOfQuiet
  <2>3. yielded' = yielded \o es
    BY <1>16, <2>2, Zenon
  <2>4. Quiet(yielded \o es)
    BY <1>2, <1>14, <2>1, QuietOfConcat
  <2> QED
    BY <1>9, <1>13, <2>3, <2>4, Zenon
<1>21. pending' = LinesRead'.open
  BY <1>9, <1>15, Zenon
<1>22. consumed' \in 0..Len(source'.symbols)
  BY <1>1, <1>5, <1>6 DEF x
<1> QED
  BY <1>1, <1>2, <1>3, <1>16, <1>19, <1>20, <1>21, <1>22 DEF BffInv

LEMMA ReadEndKeeps ==
  ASSUME BffInv, ReadEnd
  PROVE  BffInv' /\ GrowsInto(records, records')
<1> DEFINE x == source.symbols
           a == SubSeq(x, 1, consumed)
           o == LinesRead.open
           p == LinesRead.pieces
           last == <<o>>
           es == EventsOf(last)
<1>1. /\ Streaming /\ source.type = "sse" /\ UNCHANGED <<asked, answer, source, consumed, pending>>
      /\ WriteEvents(EventsOf(<<pending>>), "message.completed")
  BY DEF ReadEnd
<1>2. /\ asked # Idle /\ yielded \in Seq(Names) /\ records \in Seq(Names)
      /\ source \in Answers \union {NoSource} /\ consumed \in 0..Len(x)
      /\ pending = o /\ yielded = EventsOf(p) /\ Quiet(yielded)
  BY <1>1 DEF Streaming, BffInv
<1>3. x \in Seq(Symbols) /\ source # NoSource /\ Len(x) \in Nat
  BY <1>1, <1>2, SourceIsTyped, LenProperties
<1>4. a \in Seq(Symbols)
  <2>1. Len(x) \in 0..Len(x) /\ consumed <= Len(x)
    BY <1>2, <1>3
  <2> HIDE DEF x
  <2> QED
    BY <1>2, <1>3, <2>1, CutGrows
<1>5. o \in Lines /\ p \in Seq(Lines)
  <2> HIDE DEF a
  <2>1. SplitLines(a).open \in Lines /\ SplitLines(a).pieces \in Seq(Lines)
    BY <1>4, LinesAreTyped
  <2> QED
    BY <2>1 DEF LinesRead, a
<1>6. WriteEvents(es, "message.completed")
  BY <1>1, <1>2, Zenon
<1> HIDE DEF o, p
<1>7. last \in Seq(Lines)
  BY <1>5
<1>8. Append(p, o) = p \o last
  BY <1>5, AppendIsConcat
<1> HIDE DEF last
<1>9. EventsOf(p \o last) = EventsOf(p) \o es
  BY <1>5, <1>7, EventsOfConcat
<1>10. es \in Seq(Names)
  BY <1>7, EventsAreNames
<1> HIDE DEF es
<1>11. /\ yielded' = yielded \o Seen(es) /\ yielded' \in Seq(Names)
       /\ records' \in Seq(Names) /\ GrowsInto(records, records') /\ over'
  BY <1>2, <1>6, <1>10, Writes
<1>12. Seen(yielded \o es) = yielded \o Seen(es)
  <2>1. SeenInTwo(yielded, es)
    BY <1>2, <1>10, SeenOfConcat
  <2> QED
    BY <2>1, Zenon DEF SeenInTwo
<1>13. EventsOf(Append(p, o)) = yielded \o es
  BY <1>2, <1>8, <1>9, Zenon
<1>14. yielded' = Seen(EventsOf(Append(p, o)))
  BY <1>11, <1>12, <1>13, Zenon
<1>15. LinesRead' = LinesRead
  BY <1>1 DEF LinesRead
<1>16. CutsMakeNoDifference'
  <2>1. yielded' = Seen(EventsOf(Append(LinesRead'.pieces, LinesRead'.open)))
    BY <1>14, <1>15, Zenon DEF p, o
  <2> QED
    BY <2>1, Zenon DEF CutsMakeNoDifference, LinesRead
<1>17. consumed' \in 0..Len(source'.symbols)
  BY <1>1, <1>2
<1> QED
  BY <1>1, <1>2, <1>3, <1>11, <1>15, <1>16, <1>17 DEF BffInv

BffVars == <<asked, answer, source, consumed, pending, yielded, records, over>>

LEMMA BffKeeps ==
  ASSUME BffInv, [WireNext]_wireVars
  PROVE  BffInv' /\ GrowsInto(records, records')
<1> DEFINE Kept == BffInv' /\ GrowsInto(records, records')
<1>1. ASSUME UNCHANGED BffVars PROVE Kept
  <2>1. LinesRead' = LinesRead /\ CutsMakeNoDifference' = CutsMakeNoDifference
    BY <1>1 DEF BffVars, LinesRead, CutsMakeNoDifference
  <2>2. BffInv'
    BY <1>1, <2>1 DEF BffInv, BffVars
  <2>3. records \in Seq(Names) /\ records' = records
    BY <1>1 DEF BffInv, BffVars
  <2> QED
    BY <2>2, <2>3, NothingWritten
<1> SUFFICES Kept
  OBVIOUS
<1>2. CASE Ask
  BY <1>2, AskKeeps
<1>3. CASE InvokeAgentCore
  BY <1>3, InvokeKeeps
<1>4. CASE ReadChunk
  BY <1>4, ReadChunkKeeps
<1>5. CASE ReadEnd
  BY <1>5, ReadEndKeeps
<1>6. CASE ReadWhole
  BY <1>6, ReadWholeKeeps
<1>7. CASE ReadFails
  BY <1>7, ReadFailsKeeps
<1>8. CASE PageReads
  <2>1. UNCHANGED BffVars
    BY <1>8 DEF PageReads, BffVars
  <2> QED
    BY <1>1, <2>1
<1>9. CASE UNCHANGED wireVars
  <2>1. UNCHANGED BffVars
    BY <1>9 DEF wireVars, BffVars
  <2> QED
    BY <1>1, <2>1
<1> HIDE DEF Kept
<1> QED
  BY <1>2, <1>3, <1>4, <1>5, <1>6, <1>7, <1>8, <1>9 DEF WireNext

-----------------------------------------------------------------------------
(* The page.                                                                *)

\* The records of what the page has read.
RecordsRead == SplitRecords(SubSeq(Output, 1, got))

PageInv ==
  /\ got \in 0..Len(Output)
  /\ partial = RecordsRead.open /\ handled = ParseRecords(RecordsRead.pieces)

LEMMA PageStarts == WireInit => PageInv
<1> SUFFICES ASSUME WireInit PROVE PageInv
  OBVIOUS
<1>1. records = << >> /\ got = 0 /\ partial = << >> /\ handled = << >>
  BY DEF WireInit
<1>2. << >> \in Seq(Names)
  BY EmptySeq
<1>3. Output = Encoded(records)
  BY DEF Output, Encoded
<1>4. Output = << >>
  <2>1. "error" \in Names
    BY DEF Names, Symbols, EventKinds, LF
  <2> QED
    BY <1>1, <1>3, <2>1, EncodedOfOne
<1>5. SubSeq(Output, 1, got) = Output /\ got \in 0..Len(Output)
  <2>1. SubSeq(<< >>, 1, 0) = << >> /\ Len(<< >>) = 0
    BY SubSeqEmpty
  <2> QED
    BY <1>1, <1>4, <2>1
<1>6. ParseRecords(SplitRecords(Output).pieces) = records /\ SplitRecords(Output).open = << >>
  BY <1>1, <1>2, <1>3, RecordsComeBack
<1> QED
  BY <1>1, <1>5, <1>6 DEF PageInv, RecordsRead

\* What the BFF writes further changes nothing of what was read.
LEMMA PageKeeps ==
  ASSUME records \in Seq(Names), GrowsInto(records, records'), PageInv,
         UNCHANGED <<got, partial, handled>>
  PROVE  PageInv'
<1>1. PICK w \in Seq(Names) : records' = records \o w
  BY Zenon DEF GrowsInto
<1> DEFINE a == Encoded(records)
           b == Encoded(w)
<1>2. Output = a /\ Output' = Encoded(records')
  BY DEF Output, Encoded
<1>3. a \in Seq(Symbols) /\ b \in Seq(Symbols)
  BY EncodedIs
<1>4. Encoded(records \o w) = a \o b
  BY EncodedIs
<1>5. Output' = a \o b
  BY <1>1, <1>2, <1>4, Zenon
<1> HIDE DEF a, b
<1>6. got \in 0..Len(a)
  BY <1>2 DEF PageInv
<1>7. SubSeq(a \o b, 1, got) = SubSeq(a, 1, got)
  BY <1>3, <1>6, CutOfLonger
<1>8. Len(a \o b) = Len(a) + Len(b) /\ Len(a) \in Nat /\ Len(b) \in Nat
  BY <1>3, ConcatProperties, LenProperties
<1>9. RecordsRead' = RecordsRead
  BY <1>2, <1>5, <1>7, Zenon DEF RecordsRead
<1>10. Len(Output') = Len(a) + Len(b)
  BY <1>5, <1>8, Zenon
<1>11. got' \in 0..Len(Output')
  BY <1>6, <1>8, <1>10
<1> QED
  BY <1>9, <1>11 DEF PageInv

LEMMA PageReadsKeeps ==
  ASSUME records \in Seq(Names), PageInv, PageReads
  PROVE  PageInv'
<1> DEFINE x == Output
           end == EmptyLine
<1>1. x = Encoded(records) /\ x \in Seq(Symbols) /\ Len(x) \in Nat
  <2>1. x = Encoded(records)
    BY DEF Output, Encoded
  <2>2. Encoded(records) \in Seq(Symbols)
    BY EncodedIs
  <2> QED
    BY <2>1, <2>2, LenProperties
<1>2. PICK n \in 1..(Len(x) - got) :
        LET split == SplitRecords(partial \o SubSeq(x, got + 1, got + n))
        IN /\ got' = got + n
           /\ partial' = split.open
           /\ handled' = handled \o ParseRecords(split.pieces)
           /\ UNCHANGED records
  BY Zenon DEF PageReads
<1> DEFINE a == SubSeq(x, 1, got)
           b == SubSeq(x, got + 1, got + n)
           c == SubSeq(x, 1, got + n)
           o == RecordsRead.open
           p == RecordsRead.pieces
           split == SplitRecords(o \o b)
           later == SplitRecords(c)
           q == split.pieces
<1>3. /\ got \in 0..Len(x) /\ partial = o /\ handled = ParseRecords(p)
  BY DEF PageInv
<1>4. got + n \in 0..Len(x) /\ got <= got + n
  BY <1>1, <1>2, <1>3
<1>5. /\ got' = got + n /\ partial' = split.open /\ handled' = handled \o ParseRecords(q)
      /\ records' = records
  BY <1>2, <1>3, Zenon
<1>6. end \in Seq(Symbols)
  BY DEF EmptyLine, Symbols
<1> HIDE DEF end
<1>7. a \in Seq(Symbols) /\ b \in Seq(Symbols) /\ c = a \o b /\ SplitsInTwo(a, b, end)
  <2> HIDE DEF x
  <2> QED
    BY <1>1, <1>3, <1>4, <1>6, OneChunkMore
<1>8. Output' = x
  BY <1>5 DEF Output
<1>9. RecordsRead = SplitRecords(a) /\ RecordsRead' = later
  BY <1>5, <1>8 DEF RecordsRead
<1> HIDE DEF x, a, b, c
<1>10. o \in Seq(Symbols) /\ p \in Seq(Seq(Symbols))
  <2>1. Split(a, end).open \in Seq(Symbols) /\ Split(a, end).pieces \in Seq(Seq(Symbols))
    BY <1>6, <1>7, SplitIsTyped
  <2> QED
    BY <1>9, <2>1 DEF SplitRecords, EmptyLine, end
<1> HIDE DEF o, p
<1>11. q \in Seq(Seq(Symbols))
  <2> DEFINE ob == o \o b
  <2>1. ob \in Seq(Symbols)
    BY <1>7, <1>10, ConcatProperties
  <2> HIDE DEF ob
  <2>2. Split(ob, end).pieces \in Seq(Seq(Symbols))
    BY <1>6, <2>1, SplitIsTyped
  <2> QED
    BY <2>2 DEF ob, SplitRecords, EmptyLine, end
<1>12. later.pieces = p \o q /\ later.open = split.open
  <2>1. SplitRecords(a).pieces = p /\ SplitRecords(a).open = o
    BY <1>9 DEF p, o
  <2> QED
    BY <1>7, <2>1, Zenon DEF SplitsInTwo, SplitRecords, EmptyLine, end
<1> HIDE DEF q, split, later
<1>13. ParseRecords(p \o q) = ParseRecords(p) \o ParseRecords(q)
  <2> DEFINE T == Seq(Symbols)
  <2>1. p \in Seq(T) /\ q \in Seq(T)
    BY <1>10, <1>11
  <2> HIDE DEF T
  <2> QED
    BY <2>1, ParseRecordsOfConcat
<1>14. handled' = ParseRecords(later.pieces)
  BY <1>3, <1>5, <1>12, <1>13, Zenon
<1>15. partial' = later.open
  BY <1>5, <1>12, Zenon
<1>16. got' \in 0..Len(Output')
  BY <1>4, <1>5, <1>8
<1> QED
  BY <1>9, <1>14, <1>15, <1>16 DEF PageInv

LEMMA RecordsArrive ==
  ASSUME records \in Seq(Names), PageInv
  PROVE  RecordsArriveWhole
<1> DEFINE x == Output
           end == EmptyLine
           a == SubSeq(x, 1, got)
           b == SubSeq(x, got + 1, Len(x))
           p == SplitRecords(a).pieces
           q == Split(Split(a, end).open \o b, end).pieces
           A == {r[2] : r \in Seq(Symbols)}
<1>1. x = Encoded(records) /\ x \in Seq(Symbols) /\ Len(x) \in Nat
  <2>1. x = Encoded(records)
    BY DEF Output, Encoded
  <2>2. Encoded(records) \in Seq(Symbols)
    BY EncodedIs
  <2> QED
    BY <2>1, <2>2, LenProperties
<1>2. got \in 0..Len(x) /\ handled = ParseRecords(p)
  BY DEF PageInv, RecordsRead
<1>3. ParseRecords(SplitRecords(x).pieces) = records
  BY <1>1, RecordsComeBack
<1>4. SubSeq(x, 1, Len(x)) = x
  <2> HIDE DEF x
  <2> QED
    BY <1>1, SubSeqFull
<1>5. end \in Seq(Symbols)
  BY DEF EmptyLine, Symbols
<1> HIDE DEF end
<1>6. a \in Seq(Symbols) /\ b \in Seq(Symbols) /\ x = a \o b /\ SplitsInTwo(a, b, end)
  <2> DEFINE m == Len(x)
  <2>1. m \in 0..Len(x) /\ got <= m
    BY <1>1, <1>2
  <2> HIDE DEF x, m
  <2>2. /\ SubSeq(x, 1, got) \in Seq(Symbols) /\ SubSeq(x, got + 1, m) \in Seq(Symbols)
        /\ SubSeq(x, 1, m) = SubSeq(x, 1, got) \o SubSeq(x, got + 1, m)
        /\ SplitsInTwo(SubSeq(x, 1, got), SubSeq(x, got + 1, m), end)
    BY <1>1, <1>2, <1>5, <2>1, OneChunkMore
  <2> QED
    BY <1>4, <2>2, Zenon DEF m
<1> HIDE DEF a, b
<1>7. p \in Seq(Seq(Symbols)) /\ q \in Seq(Seq(Symbols))
  <2>1. Split(a, end).open \in Seq(Symbols) /\ Split(a, end).pieces \in Seq(Seq(Symbols))
    BY <1>5, <1>6, SplitIsTyped
  <2> DEFINE ob == Split(a, end).open \o b
  <2>2. ob \in Seq(Symbols)
    BY <1>6, <2>1, ConcatProperties
  <2> HIDE DEF ob
  <2>3. Split(ob, end).pieces \in Seq(Seq(Symbols))
    BY <1>5, <2>2, SplitIsTyped
  <2> QED
    BY <2>1, <2>3 DEF ob, SplitRecords, EmptyLine, end
<1>8. SplitRecords(x).pieces = p \o q
  BY <1>6, Zenon DEF SplitsInTwo, SplitRecords, EmptyLine, end
<1> HIDE DEF p, q
<1>9. ParseRecords(p \o q) = ParseRecords(p) \o ParseRecords(q)
  <2> DEFINE T == Seq(Symbols)
  <2>1. p \in Seq(T) /\ q \in Seq(T)
    BY <1>7
  <2> HIDE DEF T
  <2> QED
    BY <2>1, ParseRecordsOfConcat
<1>10. records = handled \o ParseRecords(q)
  BY <1>2, <1>3, <1>8, <1>9, Zenon
<1>11. IsPrefix(handled, records)
  <2>1. ParseRecords(p) \in Seq(A) /\ ParseRecords(q) \in Seq(A)
    BY <1>7, ParsedIsTyped
  <2> HIDE DEF A
  <2>2. handled \in Seq(A) /\ ParseRecords(q) \in Seq(A)
    BY <1>2, <2>1
  <2>3. IsPrefix(handled, handled \o ParseRecords(q))
    BY <2>2, PartIsPrefix
  <2> QED
    BY <1>10, <2>3, Zenon
<1>12. ASSUME got = Len(x) PROVE handled = records
  <2>1. a = x
    BY <1>4, <1>12 DEF a
  <2> QED
    BY <1>2, <1>3, <2>1, Zenon DEF p
<1> QED
  BY <1>11, <1>12 DEF RecordsArriveWhole

-----------------------------------------------------------------------------
(* The two together.                                                        *)

LEMMA WireInvariance == WireSpec => [](BffInv /\ PageInv)
<1> DEFINE IInv == BffInv /\ PageInv
<1>1. WireInit => IInv
  BY BffStarts, PageStarts
<1>2. ASSUME IInv, [WireNext]_wireVars PROVE IInv'
  <2>1. BffInv' /\ GrowsInto(records, records') /\ records \in Seq(Names)
    BY <1>2, BffKeeps DEF BffInv
  <2>2. CASE PageReads
    BY <1>2, <2>1, <2>2, PageReadsKeeps
  <2>3. CASE ~PageReads
    <3>1. UNCHANGED <<got, partial, handled>>
      BY <1>2, <2>3 DEF WireNext, wireVars, Ask, InvokeAgentCore, ReadChunk, ReadEnd, ReadWhole, ReadFails
    <3> QED
      BY <1>2, <2>1, <3>1, PageKeeps
  <2> QED
    BY <2>1, <2>2, <2>3
<1> QED
  BY <1>1, <1>2, PTL DEF WireSpec

\* Wherever the two connections of one chat request are cut: the BFF has taken
\* out of AgentCore's answer what its lines hold, and the page out of the BFF's
\* the records that were written (agentcore.mjs: parseAgentCoreStream, sse.mjs:
\* encodeSse, web/src/sse.mjs: parseSse).
THEOREM CutsAreNotSeen == WireSpec => []WireIsTransparent
<1>1. BffInv /\ PageInv => WireIsTransparent
  BY RecordsArrive DEF BffInv, WireIsTransparent
<1> QED
  BY <1>1, WireInvariance, PTL

\* What was asked, and how it was answered.
AskedInv ==
  /\ asked \in WireRequests \union {Idle}
  /\ answer \in {0, 200, 204, 400, 401, 403, 404, 405}
  /\ over \in BOOLEAN

LEMMA AskedKeeps ==
  ASSUME AskedInv, [WireNext]_wireVars
  PROVE  AskedInv'
<1>1. CASE Ask
  <2>1. PICK r \in WireRequests : asked' = r /\ answer' = RouteRequest(r)
    BY <1>1 DEF Ask
  <2>2. Principal(r) \in {401, 403, 200}
    <3>1. r.claims \in {"none", "unscoped", "scoped"}
      BY DEF WireRequests
    <3> QED
      BY <3>1 DEF Principal
  <2>3. Judge(r) \in {200, 400, 401, 403}
    BY <2>2 DEF Judge, ChatRequest
  <2>4. RouteRequest(r) \in {200, 204, 400, 401, 403, 404, 405}
    BY <2>3 DEF RouteRequest
  <2> QED
    BY <1>1, <2>1, <2>4 DEF AskedInv, Ask
<1>2. CASE InvokeAgentCore \/ ReadChunk \/ ReadEnd \/ ReadWhole \/ ReadFails
  <2>1. UNCHANGED <<asked, answer>>
    BY <1>2 DEF InvokeAgentCore, ReadChunk, ReadEnd, ReadWhole, ReadFails
  <2>2. over' \in BOOLEAN
    BY <1>2, Zenon DEF InvokeAgentCore, ReadChunk, ReadEnd, ReadWhole, ReadFails, WriteEvents, AskedInv
  <2> QED
    BY <2>1, <2>2 DEF AskedInv
<1>3. CASE PageReads \/ UNCHANGED wireVars
  <2>1. UNCHANGED <<asked, answer, over>>
    BY <1>3 DEF PageReads, wireVars
  <2> QED
    BY <2>1 DEF AskedInv
<1> QED
  BY <1>1, <1>2, <1>3 DEF WireNext

\* The variables are of their types, and neither reader ever holds more than what
\* is unfinished of one line or one record, however long the answer is and
\* wherever it is cut (agentcore.mjs: pending; web/src/sse.mjs: pending).
THEOREM WireIsTyped == WireSpec => []WireTypeOK
<1>1. WireInit => AskedInv
  BY DEF WireInit, AskedInv
<1>2. WireSpec => []AskedInv
  BY <1>1, AskedKeeps, PTL DEF WireSpec
<1>3. ASSUME BffInv PROVE Len(pending) <= 2
  <2>1. CASE source.type = "sse"
    <3>1. source \in Answers
      BY <1>3, <2>1, SourceIsTyped DEF BffInv, NoSource
    <3>2. consumed \in 0..Len(source.symbols) /\ pending = LinesRead.open
      BY <1>3, <2>1 DEF BffInv
    <3>3. OpenWithin(source.symbols, <<LF>>, 2)
      BY <2>1, <3>1, OpenOfAnswer
    <3> QED
      BY <3>2, <3>3 DEF OpenWithin, LinesRead, SplitLines
  <2>2. CASE source.type # "sse"
    <3>1. pending = << >>
      BY <1>3, <2>2, SourceIsTyped DEF BffInv
    <3> QED
      BY <3>1, EmptySeq
  <2> QED
    BY <2>1, <2>2
<1>4. ASSUME BffInv, PageInv PROVE Len(partial) <= 6
  <2>1. OpenWithin(Encoded(records), EmptyLine, 6)
    BY <1>4, OpenOfRecords DEF BffInv
  <2>2. Output = Encoded(records) /\ got \in 0..Len(Output) /\ partial = RecordsRead.open
    BY <1>4 DEF PageInv, Output, Encoded
  <2> QED
    BY <2>1, <2>2 DEF OpenWithin, RecordsRead, SplitRecords, EmptyLine
<1>5. AskedInv /\ BffInv /\ PageInv => WireTypeOK
  BY <1>3, <1>4 DEF WireTypeOK, AskedInv, BffInv, PageInv
<1> QED
  BY <1>2, <1>5, WireInvariance, PTL
=============================================================================
