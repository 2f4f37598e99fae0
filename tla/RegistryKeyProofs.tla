------------------------- MODULE RegistryKeyProofs -------------------------
(* Theorems about RegistryKey, for any bytes, strings, arrays and blobs: the *)
(* codecs are inverse to one another, and so a value is read as it was       *)
(* written.                                                                  *)
EXTENDS RegistryKey, FiniteSetTheorems, SequenceTheorems, TLAPS

-----------------------------------------------------------------------------
(* Sets of numbers. Induction takes the form of a least counterexample.      *)

LEMMA LeastNumber ==
  ASSUME NEW S \in SUBSET Nat, S # {}
  PROVE  \E x \in S : \A y \in S : x <= y
<1>1. PICK x \in S : \A y \in S : ~(<<y, x>> \in OpToRel(<, Nat))
  BY NatLessThanWellFounded, WFMin
<1>2. ASSUME NEW y \in S PROVE x <= y
  <2>1. ~(y < x)
    BY <1>1, x \in Nat, y \in Nat DEF OpToRel
  <2> QED
    BY <2>1
<1> QED
  BY <1>2

LEMMA MaxIs ==
  ASSUME NEW S \in SUBSET Nat, NEW m \in S, \A y \in S : y <= m
  PROVE  Max(S) = m
<1>1. \A y \in S : m >= y
  OBVIOUS
<1>2. Max(S) \in S /\ \A y \in S : Max(S) >= y
  BY <1>1 DEF Max
<1>3. Max(S) >= m /\ Max(S) <= m /\ Max(S) \in Nat /\ m \in Nat
  BY <1>2
<1> QED
  BY <1>3

LEMMA MaxIsBounded ==
  ASSUME NEW S \in SUBSET Nat, S # {}, NEW n \in Nat, \A y \in S : y <= n
  PROVE  Max(S) \in S /\ \A y \in S : y <= Max(S)
<1> DEFINE Above == {u \in Nat : \A y \in S : y <= u}
<1>1. n \in Above
  OBVIOUS
<1>2. PICK u \in Above : \A v \in Above : u <= v
  BY <1>1, LeastNumber
<1>3. u \in S
  <2> SUFFICES ASSUME u \notin S PROVE FALSE
    OBVIOUS
  <2>1. \A y \in S : y <= u - 1 /\ y \in Nat
    <3> SUFFICES ASSUME NEW y \in S PROVE y <= u - 1 /\ y \in Nat
      OBVIOUS
    <3>1. y <= u /\ y # u /\ y \in Nat /\ u \in Nat
      BY <1>2
    <3> QED
      BY <3>1
  <2>2. u - 1 \in Nat
    <3>1. PICK y \in S : y <= u - 1 /\ y \in Nat
      BY <2>1
    <3> QED
      BY <3>1, u \in Nat
  <2>3. u - 1 \in Above /\ ~(u <= u - 1)
    BY <1>2, <2>1, <2>2
  <2> QED
    BY <1>2, <2>3
<1>4. \A y \in S : y <= u
  BY <1>2
<1>5. Max(S) = u
  BY <1>3, <1>4, MaxIs
<1> QED
  BY <1>3, <1>4, <1>5

-----------------------------------------------------------------------------
(* The positions of a finite set, in their order.                            *)

UpTo(S, i) == {j \in S : j <= i}

LEMMA RanksDiffer ==
  ASSUME NEW S \in SUBSET Nat, IsFiniteSet(S), NEW i \in S, NEW j \in S,
         Cardinality(UpTo(S, i)) = Cardinality(UpTo(S, j))
  PROVE  i = j
<1>1. ASSUME NEW a \in S, NEW b \in S, a < b, Cardinality(UpTo(S, a)) = Cardinality(UpTo(S, b))
      PROVE  FALSE
  <2>1. UpTo(S, a) \in SUBSET UpTo(S, b) /\ b \in UpTo(S, b) /\ b \notin UpTo(S, a)
    <3>1. a \in Nat /\ b \in Nat /\ \A x \in S : x \in Nat
      OBVIOUS
    <3>2. b <= b /\ ~(b <= a) /\ \A x \in S : x <= a => x <= b
      BY <1>1, <3>1
    <3> QED
      BY <3>2 DEF UpTo
  <2>2. IsFiniteSet(UpTo(S, b))
    <3>1. UpTo(S, b) \in SUBSET S
      BY DEF UpTo
    <3> QED
      BY <3>1, FS_Subset
  <2>3. UpTo(S, b) = UpTo(S, a)
    BY <1>1, <2>1, <2>2, FS_Subset
  <2> QED
    BY <2>1, <2>3
<1>2. ~(i < j) /\ ~(j < i)
  BY <1>1
<1>3. i \in Nat /\ j \in Nat
  OBVIOUS
<1> QED
  BY <1>2, <1>3

LEMMA NthIs ==
  ASSUME NEW S \in SUBSET Nat, IsFiniteSet(S), NEW n \in 1 .. Cardinality(S)
  PROVE  Nth(S, n) \in S /\ Cardinality(UpTo(S, Nth(S, n))) = n
<1> DEFINE c == Cardinality(S)
           rank == [i \in S |-> Cardinality(UpTo(S, i))]
<1>1. c \in Nat
  BY FS_CardinalityType
<1>2. ASSUME NEW i \in S PROVE rank[i] \in 1 .. c
  <2>1. UpTo(S, i) \in SUBSET S /\ i \in UpTo(S, i)
    BY DEF UpTo
  <2>2. IsFiniteSet(UpTo(S, i)) /\ Cardinality(UpTo(S, i)) <= c
    BY <2>1, FS_Subset
  <2>3. Cardinality(UpTo(S, i)) \in Nat /\ Cardinality(UpTo(S, i)) # 0
    BY <2>1, <2>2, FS_CardinalityType, FS_EmptySet
  <2> QED
    BY <1>1, <2>2, <2>3
<1>3. \A i, j \in S : rank[i] = rank[j] => i = j
  BY RanksDiffer
<1>4. rank \in Injection(S, 1 .. c)
  BY <1>2, <1>3 DEF Injection, IsInjective
<1>5. IsFiniteSet(1 .. c) /\ Cardinality(1 .. c) = c
  BY <1>1, FS_Interval
<1>6. rank \in Surjection(S, 1 .. c)
  BY <1>4, <1>5, FS_Injection
<1>7. \E i \in S : rank[i] = n
  BY <1>6 DEF Surjection
<1>8. \E i \in S : Cardinality({j \in S : j <= i}) = n
  BY <1>7 DEF UpTo
<1> QED
  BY <1>8 DEF Nth, UpTo

LEMMA NthIsUnique ==
  ASSUME NEW S \in SUBSET Nat, IsFiniteSet(S), NEW i \in S
  PROVE  i = Nth(S, Cardinality(UpTo(S, i)))
<1> DEFINE k == Nth(S, Cardinality(UpTo(S, i)))
<1>1. k \in S /\ Cardinality(UpTo(S, k)) = Cardinality(UpTo(S, i))
  BY DEF Nth, UpTo
<1> HIDE DEF k
<1>2. i = k
  BY <1>1, RanksDiffer
<1> QED
  BY <1>2 DEF k

(* A map that grows takes the n-th position to the n-th of the others.       *)
LEMMA NthOfImage ==
  ASSUME NEW S \in SUBSET Nat, IsFiniteSet(S), NEW p \in [S -> Nat],
         \A i, j \in S : i < j => p[i] < p[j],
         NEW T, T = {p[i] : i \in S}
  PROVE  /\ Cardinality(T) = Cardinality(S) /\ IsFiniteSet(T)
         /\ \A n \in 1 .. Cardinality(S) : Nth(S, n) \in S /\ Nth(T, n) = p[Nth(S, n)]
<1>1. \A i, j \in S : (p[i] = p[j] => i = j) /\ (i <= j <=> p[i] <= p[j])
  <2> SUFFICES ASSUME NEW i \in S, NEW j \in S
               PROVE  (p[i] = p[j] => i = j) /\ (i <= j <=> p[i] <= p[j])
    OBVIOUS
  <2>1. i \in Nat /\ j \in Nat /\ p[i] \in Nat /\ p[j] \in Nat
    OBVIOUS
  <2>2. i < j \/ i = j \/ j < i
    BY <2>1
  <2> QED
    BY <2>1, <2>2
<1>2. ASSUME NEW U \in SUBSET S
      PROVE  Cardinality({p[i] : i \in U}) = Cardinality(U) /\ IsFiniteSet({p[i] : i \in U})
  <2> DEFINE V == {p[i] : i \in U}
             f == [i \in U |-> p[i]]
  <2>1. IsFiniteSet(U)
    BY FS_Subset
  <2>2. f \in [U -> V] /\ \A v \in V : \E i \in U : f[i] = v
    OBVIOUS
  <2>3. \A i, j \in U : f[i] = f[j] => i = j
    BY <1>1
  <2>4. f \in Injection(U, V) /\ f \in Surjection(U, V)
    BY <2>2, <2>3 DEF Injection, Surjection, IsInjective
  <2> QED
    BY <2>1, <2>4, FS_Surjection
<1>3. Cardinality(T) = Cardinality(S) /\ IsFiniteSet(T)
  BY <1>2
<1>4. ASSUME NEW n \in 1 .. Cardinality(S) PROVE Nth(S, n) \in S /\ Nth(T, n) = p[Nth(S, n)]
  <2> DEFINE i == Nth(S, n)
  <2>1. i \in S /\ Cardinality(UpTo(S, i)) = n
    BY NthIs
  <2> HIDE DEF i
  <2>2. UpTo(T, p[i]) = {p[j] : j \in UpTo(S, i)}
    BY <1>1, <2>1 DEF UpTo
  <2>3. UpTo(S, i) \in SUBSET S
    BY DEF UpTo
  <2>4. Cardinality(UpTo(T, p[i])) = n
    BY <1>2, <2>1, <2>2, <2>3
  <2>5. p[i] \in T /\ T \in SUBSET Nat
    BY <2>1
  <2>6. p[i] = Nth(T, n)
    BY <1>3, <2>4, <2>5, NthIsUnique
  <2> QED
    BY <2>1, <2>6 DEF i
<1> QED
  BY <1>3, <1>4

Grows(S, p) ==
  /\ S \in SUBSET Nat /\ IsFiniteSet(S) /\ p \in [S -> Nat]
  /\ \A i, j \in S : i < j => p[i] < p[j]
Image(S, p) == {p[i] : i \in S}

LEMMA NthGrows ==
  ASSUME NEW S, NEW p, Grows(S, p)
  PROVE  /\ Cardinality(Image(S, p)) = Cardinality(S)
         /\ \A n \in 1 .. Cardinality(S) :
              Nth(S, n) \in S /\ Nth(Image(S, p), n) = p[Nth(S, n)]
<1>1. /\ S \in SUBSET Nat /\ IsFiniteSet(S) /\ p \in [S -> Nat]
      /\ \A i, j \in S : i < j => p[i] < p[j]
  BY DEF Grows
<1>2. Image(S, p) = {p[i] : i \in S}
  BY DEF Image
<1>3. Cardinality(Image(S, p)) = Cardinality(S)
  BY <1>1, <1>2, NthOfImage
<1>4. \A n \in 1 .. Cardinality(S) :
              Nth(S, n) \in S /\ Nth(Image(S, p), n) = p[Nth(S, n)]
  BY <1>1, <1>2, NthOfImage
<1> QED
  BY <1>3, <1>4

-----------------------------------------------------------------------------
(* Sequences laid end to end.                                                *)

Joined(ss, i, before) == IF i = 1 THEN ss[i] ELSE before \o ss[i]
JoinsTo(ss, n, f) == f = [i \in 1 .. n |-> Joined(ss, i, f[i - 1])]

LEMMA JoinExtends ==
  ASSUME NEW ss, NEW n \in Nat, n > 0, NEW f, JoinsTo(ss, n - 1, f)
  PROVE  \E g : JoinsTo(ss, n, g)
<1> DEFINE g == [i \in 1 .. n |-> IF i = n THEN Joined(ss, n, f[n - 1]) ELSE f[i]]
<1>1. \A i \in 1 .. n - 1 : f[i] = Joined(ss, i, f[i - 1])
  BY DEF JoinsTo
<1>2. ASSUME NEW i \in 1 .. n PROVE g[i] = Joined(ss, i, g[i - 1])
  <2>1. CASE i = 1
    <3>1. g[i] = Joined(ss, 1, f[0])
      BY <1>1, <2>1
    <3>2. \A x, y : Joined(ss, 1, x) = Joined(ss, 1, y)
      BY DEF Joined
    <3> QED
      BY <2>1, <3>1, <3>2
  <2>2. CASE i # 1
    <3>1. i - 1 \in 1 .. n /\ i - 1 # n
      BY <2>2
    <3>2. g[i - 1] = f[i - 1]
      BY <3>1
    <3>3. CASE i = n
      BY <3>2, <3>3
    <3>4. CASE i # n
      <4>1. i \in 1 .. n - 1
        BY <3>4
      <4> QED
        BY <1>1, <3>2, <3>4, <4>1
    <3> QED
      BY <3>3, <3>4
  <2> QED
    BY <2>1, <2>2
<1>3. g = [i \in 1 .. n |-> g[i]]
  OBVIOUS
<1> HIDE DEF g
<1>4. JoinsTo(ss, n, g)
  BY <1>2, <1>3 DEF JoinsTo
<1> QED
  BY <1>4

LEMMA JoinExists ==
  ASSUME NEW ss, NEW n \in Nat
  PROVE  \E f : JoinsTo(ss, n, f)
<1> DEFINE Bad == {k \in Nat : ~\E f : JoinsTo(ss, k, f)}
<1>1. ASSUME Bad # {} PROVE FALSE
  <2>1. PICK k \in Bad : \A j \in Bad : k <= j
    BY <1>1, LeastNumber
  <2>2. CASE k = 0
    <3>1. 1 .. 0 = {}
      OBVIOUS
    <3>2. JoinsTo(ss, 0, [i \in 1 .. 0 |-> i])
      BY <3>1 DEF JoinsTo
    <3> QED
      BY <2>1, <2>2, <3>2
  <2>3. CASE k # 0
    <3>1. k - 1 \in Nat /\ ~(k <= k - 1) /\ k > 0 /\ k \in Nat
      BY <2>3
    <3>2. \E f : JoinsTo(ss, k - 1, f)
      BY <2>1, <3>1
    <3> QED
      BY <3>1, <3>2, JoinExtends
  <2> QED
    BY <2>2, <2>3
<1> QED
  BY <1>1

(* FlattenSeq is such a sequence's last.                                     *)
LEMMA FlattenIs ==
  ASSUME NEW S, NEW ss \in Seq(Seq(S)), Len(ss) # 0
  PROVE  \E f : JoinsTo(ss, Len(ss), f) /\ FlattenSeq(ss) = f[Len(ss)]
<1> DEFINE n == Len(ss)
           Join == CHOOSE f : f = [i \in 1 .. n |-> IF i = 1 THEN ss[i] ELSE f[i - 1] \o ss[i]]
<1>1. n \in Nat
  BY LenProperties
<1>2. \E f : JoinsTo(ss, n, f)
  BY <1>1, JoinExists
<1>3. \E f : f = [i \in 1 .. n |-> IF i = 1 THEN ss[i] ELSE f[i - 1] \o ss[i]]
  BY <1>2, Zenon DEF JoinsTo, Joined
<1>4. Join = [i \in 1 .. n |-> IF i = 1 THEN ss[i] ELSE Join[i - 1] \o ss[i]]
  BY <1>3, Zenon
<1>5. FlattenSeq(ss) = Join[n]
  BY Zenon DEF FlattenSeq
<1>6. JoinsTo(ss, n, Join)
  BY <1>4, Zenon DEF JoinsTo, Joined
<1> QED
  BY <1>5, <1>6, Zenon

(* The length of the first i.                                                *)
Until(f, i) == IF i = 0 THEN 0 ELSE Len(f[i])

LEMMA JoinStep ==
  ASSUME NEW S, NEW ss \in Seq(Seq(S)), NEW f, JoinsTo(ss, Len(ss), f),
         NEW i \in 1 .. Len(ss), i # 1 => f[i - 1] \in Seq(S)
  PROVE  /\ f[i] \in Seq(S) /\ Until(f, i) = Until(f, i - 1) + Len(ss[i])
         /\ Until(f, i - 1) \in Nat /\ Len(ss[i]) \in Nat
         /\ \A x \in 1 .. Until(f, i - 1) : f[i][x] = f[i - 1][x]
         /\ \A x \in 1 .. Len(ss[i]) : f[i][Until(f, i - 1) + x] = ss[i][x]
<1>1. ss[i] \in Seq(S) /\ Len(ss[i]) \in Nat
  <2>1. ss[i] \in Seq(S)
    BY ElementOfSeq
  <2> QED
    BY <2>1, LenProperties
<1>2. f[i] = Joined(ss, i, f[i - 1])
  BY DEF JoinsTo
<1>0. Until(f, i) = Len(f[i]) /\ (i # 1 => Until(f, i - 1) = Len(f[i - 1]))
  BY LenProperties DEF Until
<1>3. CASE i = 1
  <2>1. f[i] = ss[i]
    BY <1>2, <1>3, Zenon DEF Joined
  <2>2. Until(f, i - 1) = 0
    BY <1>3 DEF Until
  <2> QED
    BY <1>0, <1>1, <2>1, <2>2
<1>4. CASE i # 1
  <2>1. f[i] = f[i - 1] \o ss[i]
    BY <1>2, <1>4, Zenon DEF Joined
  <2>2. f[i - 1] \in Seq(S)
    BY <1>4
  <2>3. Len(f[i - 1]) \in Nat
    BY <2>2, LenProperties
  <2> DEFINE m == Len(f[i - 1])
             l == Len(ss[i])
  <2>4. /\ f[i] \in Seq(S) /\ Len(f[i]) = m + l
        /\ \A x \in 1 .. m + l : f[i][x] = IF x <= m THEN f[i - 1][x] ELSE ss[i][x - m]
    <3> DEFINE s == f[i - 1]
               t == ss[i]
    <3>1. s \in Seq(S) /\ t \in Seq(S)
      BY <1>1, <2>2
    <3>2. f[i] = s \o t
      BY <2>1
    <3> HIDE DEF s, t
    <3>3. f[i] \in Seq(S)
      BY <3>1, <3>2, ConcatProperties, Zenon
    <3>4. Len(f[i]) = Len(s) + Len(t)
      BY <3>1, <3>2, ConcatProperties, Zenon
    <3>5. \A x \in 1 .. Len(s) + Len(t) :
            f[i][x] = IF x <= Len(s) THEN s[x] ELSE t[x - Len(s)]
      <4>1. \A x \in 1 .. Len(s) + Len(t) :
              (s \o t)[x] = IF x <= Len(s) THEN s[x] ELSE t[x - Len(s)]
        BY <3>1, ConcatProperties, Zenon
      <4> QED
        BY <3>2, <4>1, Zenon
    <3> QED
      BY <3>3, <3>4, <3>5 DEF s, t
  <2>5. m \in Nat /\ l \in Nat
    BY <1>1, <2>3
  <2>6. Until(f, i - 1) = m /\ Until(f, i) = Len(f[i])
    BY <1>0, <1>4
  <2> HIDE DEF m, l
  <2>7. \A x \in 1 .. m : f[i][x] = f[i - 1][x]
    BY <2>4, <2>5
  <2>8. \A x \in 1 .. l : m + x \in 1 .. m + l /\ ~(m + x <= m) /\ (m + x) - m = x
    BY <2>5
  <2>9. \A x \in 1 .. l : f[i][m + x] = ss[i][x]
    BY <2>4, <2>8
  <2> QED
    BY <2>4, <2>5, <2>6, <2>7, <2>9 DEF l
<1> QED
  BY <1>3, <1>4

(* What the first i sequences are laid end to end.                           *)
Laid(S, ss, f, i) ==
  /\ f[i] \in Seq(S) /\ Until(f, i - 1) \in Nat /\ Until(f, i) \in Nat
  /\ Len(ss[i]) \in Nat /\ Until(f, i) = Until(f, i - 1) + Len(ss[i])
  /\ \A j \in 1 .. i : \A k \in 1 .. Len(ss[j]) :
       Until(f, j - 1) + k \in 1 .. Until(f, i) /\ f[i][Until(f, j - 1) + k] = ss[j][k]

LEMMA JoinProperties ==
  ASSUME NEW S, NEW ss \in Seq(Seq(S)), NEW f, JoinsTo(ss, Len(ss), f)
  PROVE  \A i \in 1 .. Len(ss) : Laid(S, ss, f, i)
<1> DEFINE n == Len(ss)
           Bad == {i \in 1 .. n : ~Laid(S, ss, f, i)}
<1>1. n \in Nat
  BY LenProperties
<1>2. ASSUME Bad # {} PROVE FALSE
  <2>0. Bad \in SUBSET Nat
    BY <1>1
  <2>1. PICK i \in Bad : \A j \in Bad : i <= j
    BY <1>2, <2>0, LeastNumber
  <2>2. i \in 1 .. n /\ i \in Nat /\ i - 1 \in Nat /\ (i = 1 <=> i - 1 = 0)
    BY <1>1, <2>1
  <2>3. i # 1 => i - 1 \in 1 .. n /\ ~(i <= i - 1)
    BY <2>2
  <2>4. i # 1 => Laid(S, ss, f, i - 1)
    BY <2>1, <2>3
  <2>5. i # 1 => f[i - 1] \in Seq(S)
    BY <2>4 DEF Laid
  <2> DEFINE start == Until(f, i - 1)
  <2>6. /\ f[i] \in Seq(S) /\ Until(f, i) = start + Len(ss[i])
        /\ start \in Nat /\ Len(ss[i]) \in Nat
        /\ \A x \in 1 .. start : f[i][x] = f[i - 1][x]
        /\ \A x \in 1 .. Len(ss[i]) : f[i][start + x] = ss[i][x]
    BY <2>2, <2>5, JoinStep
  <2> HIDE DEF start
  <2>7. Until(f, i) \in Nat
    BY <2>6
  <2>8. ASSUME NEW j \in 1 .. i, NEW k \in 1 .. Len(ss[j])
        PROVE  Until(f, j - 1) + k \in 1 .. Until(f, i) /\ f[i][Until(f, j - 1) + k] = ss[j][k]
    <3>1. CASE j = i
      <4>1. k \in 1 .. Len(ss[i])
        BY <3>1
      <4>2. f[i][start + k] = ss[i][k]
        BY <2>6, <4>1
      <4>3. start + k \in 1 .. Until(f, i)
        BY <2>6, <4>1
      <4> QED
        BY <3>1, <4>2, <4>3 DEF start
    <3>2. CASE j # i
      <4>1. i # 1 /\ j \in 1 .. i - 1
        BY <2>2, <3>2
      <4>2. /\ Until(f, j - 1) + k \in 1 .. start
            /\ f[i - 1][Until(f, j - 1) + k] = ss[j][k]
        BY <2>4, <4>1 DEF Laid, start
      <4>3. f[i][Until(f, j - 1) + k] = f[i - 1][Until(f, j - 1) + k]
        BY <2>6, <4>2
      <4>4. Until(f, j - 1) + k \in 1 .. Until(f, i)
        <5> DEFINE x == Until(f, j - 1) + k
        <5>1. x \in 1 .. start
          BY <4>2
        <5> HIDE DEF x
        <5>2. x \in 1 .. Until(f, i)
          BY <2>6, <5>1
        <5> QED
          BY <5>2 DEF x
      <4> QED
        BY <4>2, <4>3, <4>4
    <3> QED
      BY <3>1, <3>2
  <2>9. Laid(S, ss, f, i)
    BY <2>6, <2>7, <2>8 DEF Laid, start
  <2> QED
    BY <2>1, <2>9
<1> QED
  BY <1>2

-----------------------------------------------------------------------------
(* Characters and bytes.                                                     *)

LEMMA FunctionIsSeq ==
  ASSUME NEW S, NEW n \in Nat, NEW f \in [1 .. n -> S]
  PROVE  f \in Seq(S) /\ Len(f) = n
<1>1. f \in Seq(S)
  BY SeqDef
<1> QED
  BY <1>1, LenProperties

Char == Bytes \X Bytes

LEMMA NullIsAChar == Null \in Char
BY RegistryKeyAssumption DEF Null, Char

(* Halves of numbers.                                                        *)
LEMMA Halves ==
  ASSUME NEW i \in Nat
  PROVE  /\ (2 * i) \div 2 = i /\ (2 * i + 1) \div 2 = i
         /\ (2 * i) % 2 = 0 /\ (2 * i - 1) % 2 = 1
         /\ i % 2 \in {0, 1} /\ i \div 2 \in Nat /\ i = 2 * (i \div 2) + (i % 2)
<1>1. (2 * i) \div 2 = i /\ (2 * i + 1) \div 2 = i
  OBVIOUS
<1>2. (2 * i) % 2 = 0 /\ (2 * i - 1) % 2 = 1 /\ i % 2 \in {0, 1}
  OBVIOUS
<1>3. i \div 2 \in Nat /\ i = 2 * (i \div 2) + (i % 2)
  OBVIOUS
<1> QED
  BY <1>1, <1>2, <1>3

(* writeValue() and readStringArray() cast between bytes and characters: the *)
(* one undoes the other.                                                     *)
LEMMA CharsAreBytes ==
  ASSUME NEW c \in Seq(Bytes \X Bytes)
  PROVE  AsBytes(c) \in Seq(Bytes) /\ Len(AsBytes(c)) = 2 * Len(c) /\ Chars(AsBytes(c)) = c
<1> DEFINE b == AsBytes(c)
<1>1. Len(c) \in Nat /\ DOMAIN c = 1 .. Len(c) /\ c = [i \in 1 .. Len(c) |-> c[i]]
  BY LenProperties
<1>2. \A i \in 1 .. Len(c) :
        c[i][1] \in Bytes /\ c[i][2] \in Bytes /\ c[i] = <<c[i][1], c[i][2]>>
  BY <1>1, ElementOfSeq
<1>3. ASSUME NEW k \in 1 .. 2 * Len(c)
      PROVE  (k + 1) \div 2 \in 1 .. Len(c) /\ 2 - (k % 2) \in {1, 2}
  <2>1. k \in Nat /\ k + 1 \in Nat /\ 1 <= k /\ k <= 2 * Len(c)
    BY <1>1
  <2>2. /\ k % 2 \in {0, 1} /\ (k + 1) % 2 \in {0, 1} /\ (k + 1) \div 2 \in Nat
        /\ k + 1 = 2 * ((k + 1) \div 2) + ((k + 1) % 2)
    BY <2>1, Halves
  <2> DEFINE h == (k + 1) \div 2
             r == (k + 1) % 2
             t == k % 2
  <2>3. h \in Nat /\ k + 1 = 2 * h + r /\ r \in {0, 1} /\ t \in {0, 1}
    BY <2>2
  <2> HIDE DEF h, r, t
  <2>4. h \in 1 .. Len(c) /\ 2 - t \in {1, 2}
    BY <1>1, <2>1, <2>3
  <2> QED
    BY <2>4 DEF h, t
<1>4. b = [k \in 1 .. 2 * Len(c) |-> c[(k + 1) \div 2][2 - (k % 2)]]
  BY DEF AsBytes
<1> HIDE DEF b
<1>5. \A k \in 1 .. 2 * Len(c) : b[k] \in Bytes
  BY <1>2, <1>3, <1>4
<1>6. b \in [1 .. 2 * Len(c) -> Bytes] /\ 2 * Len(c) \in Nat
  BY <1>1, <1>4, <1>5
<1>7. b \in Seq(Bytes)
  BY <1>6, SeqDef
<1>8. Len(b) = 2 * Len(c)
  BY <1>6, <1>7, LenProperties
<1>9. ASSUME NEW i \in 1 .. Len(c) PROVE <<b[2 * i - 1], b[2 * i]>> = c[i]
  <2>1. 2 * i - 1 \in 1 .. 2 * Len(c) /\ 2 * i \in 1 .. 2 * Len(c)
    BY <1>1
  <2>2. ((2 * i - 1) + 1) \div 2 = i /\ 2 - ((2 * i - 1) % 2) = 1
        /\ (2 * i + 1) \div 2 = i /\ 2 - ((2 * i) % 2) = 2
    <3>1. i \in Nat /\ (2 * i - 1) + 1 = 2 * i
      BY <1>1
    <3> QED
      BY <3>1, Halves
  <2>3. b[2 * i - 1] = c[i][1] /\ b[2 * i] = c[i][2]
    <3>1. b[2 * i - 1] = c[((2 * i - 1) + 1) \div 2][2 - ((2 * i - 1) % 2)]
      BY <1>4, <2>1
    <3>2. b[2 * i] = c[(2 * i + 1) \div 2][2 - ((2 * i) % 2)]
      BY <1>4, <2>1
    <3> QED
      BY <2>2, <3>1, <3>2, Zenon
  <2> QED
    BY <1>2, <2>3
<1>10. Len(b) \div 2 = Len(c)
  BY <1>1, <1>8, Halves
<1>11. Chars(b) = [i \in 1 .. Len(c) |-> c[i]]
  BY <1>9, <1>10 DEF Chars
<1> QED
  BY <1>1, <1>7, <1>8, <1>11 DEF b

-----------------------------------------------------------------------------
(* The characters of a string and of an array, and what is read of them.     *)

LEMMA TerminatedIs ==
  ASSUME NEW s \in Seq(Char)
  PROVE  /\ Terminated(s) \in Seq(Char) /\ Len(s) \in Nat /\ Len(Terminated(s)) = Len(s) + 1
         /\ \A k \in 1 .. Len(s) : Terminated(s)[k] = s[k]
         /\ Terminated(s)[Len(s) + 1] = Null
<1>1. Len(s) \in Nat
  BY LenProperties
<1> QED
  <2> DEFINE t == Append(s, Null)
  <2>1. t \in Seq(Char) /\ Len(t) = Len(s) + 1
    BY NullIsAChar, AppendProperties, Zenon
  <2>2. ASSUME NEW k \in 1 .. Len(s) PROVE t[k] = s[k]
    BY NullIsAChar, AppendProperties
  <2>3. t[Len(s) + 1] = Null
    BY NullIsAChar, AppendProperties, Zenon
  <2> QED
    BY <1>1, <2>1, <2>2, <2>3, Zenon DEF Terminated

(* The characters of an array: c holds ss, whose i-th string and its null    *)
(* end at g[i], and one more null.                                           *)
Holds(ss, g, c) ==
  /\ g[0] = 0 /\ \A i \in 0 .. Len(ss) : g[i] \in Nat
  /\ c \in Seq(Char) /\ Len(c) = g[Len(ss)] + 1 /\ c[Len(c)] = Null
  /\ \A i \in 1 .. Len(ss) :
       /\ Len(ss[i]) \in Nat /\ g[i] = g[i - 1] + Len(ss[i]) + 1 /\ c[g[i]] = Null
       /\ \A k \in 1 .. Len(ss[i]) : c[g[i - 1] + k] = ss[i][k]

Lines(ss) == [i \in DOMAIN ss |-> Terminated(ss[i])]

LEMMA ArrayChars ==
  ASSUME NEW ss \in Seq(Seq(Char))
  PROVE  \E g : Holds(ss, g, Terminated(FlattenSeq(Lines(ss))))
<1> DEFINE n == Len(ss)
           t == Lines(ss)
           flat == FlattenSeq(t)
<1>1. n \in Nat /\ DOMAIN ss = 1 .. n /\ \A i \in 1 .. n : ss[i] \in Seq(Char)
  BY LenProperties, ElementOfSeq
<1>2. \A i \in 1 .. n : t[i] = Terminated(ss[i]) /\ t[i] \in Seq(Char)
  BY <1>1, TerminatedIs DEF Lines
<1>3. t \in Seq(Seq(Char)) /\ Len(t) = n
  <2>1. t \in [1 .. n -> Seq(Char)]
    BY <1>1, <1>2 DEF Lines
  <2>2. t \in Seq(Seq(Char))
    <3> HIDE DEF t, n
    <3> QED
      BY <1>1, <2>1, FunctionIsSeq, Zenon
  <2> QED
    BY <1>1, <2>1, <2>2, LenProperties
<1>4. CASE n = 0
  <2>1. flat = t
    BY <1>3, <1>4, Zenon DEF FlattenSeq
  <2>2. flat \in Seq(Char) /\ Len(flat) = 0
    <3>1. t = <<>>
      BY <1>3, <1>4, EmptySeq
    <3> QED
      BY <2>1, <3>1
  <2>3. Terminated(flat) \in Seq(Char) /\ Len(Terminated(flat)) = 1
        /\ Terminated(flat)[1] = Null
    <3> HIDE DEF flat
    <3>1. /\ Terminated(flat) \in Seq(Char) /\ Len(Terminated(flat)) = 0 + 1
          /\ Terminated(flat)[0 + 1] = Null
      BY <2>2, TerminatedIs
    <3>2. 0 + 1 = 1
      OBVIOUS
    <3> QED
      BY <3>1, <3>2
  <2>4. Holds(ss, [i \in 0 .. 0 |-> 0], Terminated(flat))
    <3> DEFINE c == Terminated(flat)
    <3> HIDE DEF c
    <3> QED
      BY <1>4, <2>3 DEF Holds, c
  <2> QED
    BY <2>4
<1>5. CASE n # 0
  <2>1. PICK f : JoinsTo(t, n, f) /\ flat = f[n]
    <3>1. Len(t) # 0
      BY <1>3, <1>5
    <3> QED
      BY <1>3, <3>1, FlattenIs, Zenon
  <2> HIDE DEF t, flat
  <2> DEFINE g == [i \in 0 .. n |-> Until(f, i)]
  <2>2. \A i \in 1 .. n : Laid(Char, t, f, i)
    BY <1>3, <2>1, JoinProperties
  <2>3. n \in 1 .. n /\ 0 \in 0 .. n /\ n \in 0 .. n
    BY <1>1, <1>5
  <2>4. g[0] = 0 /\ g[n] = Len(flat)
    BY <1>5, <2>1, <2>3 DEF Until
  <2>5. ASSUME NEW i \in 1 .. n
        PROVE  /\ i \in 0 .. n /\ i - 1 \in 0 .. n
               /\ g[i] = Until(f, i) /\ g[i - 1] = Until(f, i - 1)
               /\ g[i] \in Nat /\ g[i - 1] \in Nat /\ Len(t[i]) \in Nat
               /\ g[i] = g[i - 1] + Len(t[i])
    <3>1. i \in 0 .. n /\ i - 1 \in 0 .. n
      BY <1>1
    <3>2. g[i] = Until(f, i) /\ g[i - 1] = Until(f, i - 1)
      BY <3>1
    <3> HIDE DEF g
    <3> QED
      BY <2>2, <3>1, <3>2 DEF Laid
  <2>6. flat \in Seq(Char) /\ \A i \in 1 .. n : \A k \in 1 .. Len(t[i]) :
          g[i - 1] + k \in 1 .. Len(flat) /\ flat[g[i - 1] + k] = t[i][k]
    <3>1. /\ f[n] \in Seq(Char)
          /\ \A i \in 1 .. n : \A k \in 1 .. Len(t[i]) :
               /\ Until(f, i - 1) + k \in 1 .. Until(f, n)
               /\ f[n][Until(f, i - 1) + k] = t[i][k]
      BY <2>2, <2>3 DEF Laid
    <3>2. Until(f, n) = Len(flat)
      BY <1>5, <2>1 DEF Until
    <3> QED
      BY <2>1, <2>5, <3>1, <3>2
  <2> HIDE DEF g
  <2> DEFINE c == Terminated(flat)
  <2>7. /\ c \in Seq(Char) /\ Len(flat) \in Nat /\ Len(c) = Len(flat) + 1 /\ c[Len(c)] = Null
        /\ \A k \in 1 .. Len(flat) : c[k] = flat[k]
    BY <2>6, TerminatedIs
  <2> HIDE DEF c
  <2>8. ASSUME NEW i \in 1 .. n
        PROVE  /\ Len(ss[i]) \in Nat /\ g[i] = g[i - 1] + Len(ss[i]) + 1 /\ c[g[i]] = Null
               /\ \A k \in 1 .. Len(ss[i]) : c[g[i - 1] + k] = ss[i][k]
    <3>1. /\ Len(ss[i]) \in Nat /\ Len(t[i]) = Len(ss[i]) + 1
          /\ \A k \in 1 .. Len(ss[i]) : t[i][k] = ss[i][k]
          /\ t[i][Len(ss[i]) + 1] = Null
      BY <1>1, <1>2, TerminatedIs
    <3>2. \A k \in 1 .. Len(t[i]) : c[g[i - 1] + k] = t[i][k]
      BY <2>6, <2>7
    <3>3. g[i] = g[i - 1] + (Len(ss[i]) + 1) /\ Len(ss[i]) + 1 \in 1 .. Len(t[i])
          /\ g[i - 1] \in Nat
      BY <2>5, <3>1
    <3>4. c[g[i]] = Null
      BY <3>1, <3>2, <3>3
    <3>5. \A k \in 1 .. Len(ss[i]) : k \in 1 .. Len(t[i])
      BY <3>1
    <3>6. \A k \in 1 .. Len(ss[i]) : c[g[i - 1] + k] = ss[i][k]
      BY <3>1, <3>2, <3>5
    <3> QED
      BY <3>1, <3>3, <3>4, <3>6
  <2>9. \A i \in 0 .. n : g[i] \in Nat
    <3> SUFFICES ASSUME NEW i \in 0 .. n PROVE g[i] \in Nat
      OBVIOUS
    <3>1. i = 0 \/ i \in 1 .. n
      BY <1>1
    <3> QED
      BY <2>4, <2>5, <3>1
  <2>10. Holds(ss, g, c)
    BY <2>4, <2>7, <2>8, <2>9 DEF Holds
  <2> QED
    BY <2>10 DEF c, flat, t
<1> QED
  BY <1>4, <1>5

LEMMA EndsRise ==
  ASSUME NEW ss \in Seq(Seq(Char)), NEW g, NEW c, Holds(ss, g, c),
         NEW i \in 0 .. Len(ss), NEW j \in 0 .. Len(ss), i < j
  PROVE  g[i] < g[j] /\ g[i] \in Nat /\ g[j] \in Nat
<1> DEFINE n == Len(ss)
           Bad == {k \in 0 .. n : i < k /\ ~(g[i] < g[k])}
<1>1. n \in Nat
  BY LenProperties
<1>2. ASSUME Bad # {} PROVE FALSE
  <2>1. Bad \in SUBSET Nat
    BY <1>1
  <2>2. PICK k \in Bad : \A l \in Bad : k <= l
    BY <1>2, <2>1, LeastNumber
  <2>3. k \in 1 .. n /\ k - 1 \in 0 .. n /\ ~(k <= k - 1) /\ k \in 0 .. n
    BY <1>1, <2>2
  <2>4. g[k] > g[k - 1] /\ g[k] \in Nat /\ g[k - 1] \in Nat /\ g[i] \in Nat
    <3>1. Len(ss[k]) \in Nat /\ g[k] = g[k - 1] + Len(ss[k]) + 1 /\ g[k - 1] \in Nat
          /\ g[k] \in Nat /\ g[i] \in Nat
      BY <2>3 DEF Holds
    <3> QED
      BY <3>1
  <2>5. i = k - 1 \/ (i < k - 1 /\ g[i] < g[k - 1])
    <3>1. i = k - 1 \/ i < k - 1
      BY <2>2, <2>3
    <3> QED
      BY <2>2, <2>3, <3>1
  <2> HIDE DEF Bad
  <2>6. g[i] < g[k]
    <3>1. CASE i = k - 1
      BY <2>4, <3>1
    <3>2. CASE g[i] < g[k - 1]
      BY <2>4, <3>2
    <3> QED
      BY <2>5, <3>1, <3>2
  <2> QED
    BY <2>2, <2>6 DEF Bad
<1> QED
  BY <1>2 DEF Holds

(* A character is the last one or is of one of the strings, or its null.     *)
LEMMA InOneString ==
  ASSUME NEW ss \in Seq(Seq(Char)), NEW g, NEW c, Holds(ss, g, c),
         NEW x \in 1 .. Len(c) - 1
  PROVE  \E i \in 1 .. Len(ss) : g[i - 1] < x /\ x <= g[i]
<1> DEFINE n == Len(ss)
           Reach == {k \in 0 .. n : x <= g[k]}
<1>1. n \in Nat /\ Reach \in SUBSET Nat /\ n \in 0 .. n
  BY LenProperties
<1>2. g[n] \in Nat /\ Len(c) = g[n] + 1
  BY <1>1 DEF Holds
<1>3. n \in Reach
  BY <1>1, <1>2
<1>4. PICK i \in Reach : \A j \in Reach : i <= j
  BY <1>1, <1>3, LeastNumber
<1>5. i # 0
  BY <1>4 DEF Holds
<1>6. i \in 1 .. n /\ i - 1 \in 0 .. n /\ ~(i <= i - 1)
  BY <1>1, <1>4, <1>5
<1>7. ~(x <= g[i - 1]) /\ g[i - 1] \in Nat
  BY <1>4, <1>6 DEF Holds
<1> QED
  BY <1>4, <1>6, <1>7

Full(ss) == {i \in DOMAIN ss : ss[i] # <<>>}
Starts(c) == {i \in DOMAIN c : c[i] # Null /\ (i = 1 \/ c[i - 1] = Null)}

(* Where a string is in the characters: after a and until its null at b.     *)
IsAt(s, c, a, b) ==
  /\ s \in Seq(Char) /\ Len(s) \in Nat /\ a \in Nat /\ b \in Nat
  /\ b = a + Len(s) + 1 /\ b < Len(c) /\ Len(c) \in Nat /\ c[b] = Null
  /\ \A x \in a + 1 .. b - 1 : c[x] = s[x - a] /\ c[x] # Null
  /\ a = 0 \/ c[a] = Null

LEMMA StringIsAt ==
  ASSUME NEW ss \in Seq(Seq(Char)), NEW g, NEW c, Holds(ss, g, c),
         NEW i \in 1 .. Len(ss), NonNull(ss[i])
  PROVE  IsAt(ss[i], c, g[i - 1], g[i])
<1>1. ss[i] \in Seq(Char) /\ DOMAIN ss[i] = 1 .. Len(ss[i]) /\ Len(ss) \in Nat
  <2>1. ss[i] \in Seq(Char)
    BY ElementOfSeq
  <2> QED
    BY <2>1, LenProperties
<1>2. i \in 0 .. Len(ss) /\ i - 1 \in 0 .. Len(ss) /\ Len(ss) \in 0 .. Len(ss)
  BY <1>1
<1>3. /\ Len(ss[i]) \in Nat /\ g[i - 1] \in Nat /\ g[i] \in Nat /\ g[Len(ss)] \in Nat
      /\ g[i] = g[i - 1] + Len(ss[i]) + 1 /\ c[g[i]] = Null /\ Len(c) = g[Len(ss)] + 1
      /\ \A k \in 1 .. Len(ss[i]) : c[g[i - 1] + k] = ss[i][k]
  BY <1>2 DEF Holds
<1>4. g[i] <= g[Len(ss)]
  <2>1. i = Len(ss) \/ i < Len(ss)
    BY <1>1
  <2>2. i < Len(ss) => g[i] < g[Len(ss)]
    BY <1>2, EndsRise
  <2> QED
    BY <1>3, <2>1, <2>2
<1>5. ASSUME NEW x \in g[i - 1] + 1 .. g[i] - 1
      PROVE  c[x] = ss[i][x - g[i - 1]] /\ c[x] # Null
  <2> DEFINE l == Len(ss[i])
             a == g[i - 1]
             b == g[i]
  <2>0. l \in Nat /\ a \in Nat /\ b \in Nat /\ b = a + l + 1 /\ x \in a + 1 .. b - 1
    BY <1>3
  <2> HIDE DEF l, a, b
  <2>1a. x - a \in 1 .. l /\ a + (x - a) = x
    BY <2>0
  <2>1. x - g[i - 1] \in 1 .. Len(ss[i]) /\ g[i - 1] + (x - g[i - 1]) = x
    BY <2>1a DEF l, a
  <2>2. c[x] = ss[i][x - g[i - 1]]
    BY <1>3, <2>1
  <2> QED
    BY <1>1, <2>1, <2>2 DEF NonNull
<1>6. g[i - 1] = 0 \/ c[g[i - 1]] = Null
  <2>1. i - 1 = 0 \/ i - 1 \in 1 .. Len(ss)
    BY <1>1
  <2> QED
    BY <2>1 DEF Holds
<1>7. g[i] < Len(c) /\ Len(c) \in Nat
  BY <1>3, <1>4
<1> QED
  BY <1>1, <1>3, <1>5, <1>6, <1>7 DEF IsAt

StartsIn(c, a) ==
  a \in Nat /\ a + 1 \in 1 .. Len(c) /\ c[a + 1] # Null /\ (a + 1 = 1 \/ c[(a + 1) - 1] = Null)

LEMMA NonEmptyStarts ==
  ASSUME NEW s, NEW c, NEW a, NEW b, IsAt(s, c, a, b), Len(s) # 0
  PROVE  StartsIn(c, a)
<1> DEFINE l == Len(s)
           m == Len(c)
<1>1. l \in Nat /\ l # 0 /\ a \in Nat /\ b = a + l + 1 /\ b < m /\ m \in Nat
  BY DEF IsAt
<1>2. a = 0 \/ c[a] = Null
  BY DEF IsAt
<1> HIDE DEF l, m
<1>3. a + 1 \in a + 1 .. b - 1 /\ a + 1 \in 1 .. m /\ (a + 1) - 1 = a
  BY <1>1
<1>4. c[a + 1] # Null
  BY <1>3 DEF IsAt
<1> QED
  BY <1>1, <1>2, <1>3, <1>4 DEF StartsIn, m

LEMMA OneStart ==
  ASSUME NEW s, NEW c, NEW a, NEW b, IsAt(s, c, a, b),
         NEW x \in Nat, a < x, x <= b, c[x] # Null, x = 1 \/ c[x - 1] = Null
  PROVE  x = a + 1 /\ Len(s) # 0
<1> DEFINE l == Len(s)
<1>1. l \in Nat /\ a \in Nat /\ b \in Nat /\ b = a + l + 1
  BY DEF IsAt
<1>2. x # b
  BY DEF IsAt
<1> HIDE DEF l
<1>3. x = a + 1
  <2> SUFFICES ASSUME x # a + 1 PROVE FALSE
    OBVIOUS
  <2>1. x - 1 \in a + 1 .. b - 1 /\ x # 1
    BY <1>1, <1>2
  <2> QED
    BY <2>1 DEF IsAt
<1>4. l # 0
  BY <1>1, <1>2, <1>3
<1> QED
  BY <1>3, <1>4 DEF l

(* It finds one beginning for each string that is not empty, and no other.   *)
LEMMA StartsAre ==
  ASSUME NEW ss \in Seq(Seq(Char)), NEW g, NEW c, Holds(ss, g, c),
         \A i \in DOMAIN ss : NonNull(ss[i])
  PROVE  Starts(c) = {g[i - 1] + 1 : i \in Full(ss)}
<1> DEFINE n == Len(ss)
<1>1. n \in Nat /\ DOMAIN ss = 1 .. n /\ DOMAIN c = 1 .. Len(c) /\ Len(c) \in Nat
      /\ \A i \in 1 .. n : NonNull(ss[i])
  <2>1. c \in Seq(Char)
    BY DEF Holds
  <2> QED
    BY <2>1, LenProperties
<1>2. g[0] = 0 /\ c[Len(c)] = Null
  BY DEF Holds
<1>3. ASSUME NEW i \in Full(ss) PROVE g[i - 1] + 1 \in Starts(c)
  <2> DEFINE x == g[i - 1] + 1
  <2>1. i \in 1 .. n /\ ss[i] # <<>>
    BY <1>1 DEF Full
  <2>2. IsAt(ss[i], c, g[i - 1], g[i])
    BY <1>1, <2>1, StringIsAt
  <2>3. Len(ss[i]) # 0
    BY <2>1, <2>2, EmptySeq DEF IsAt
  <2>4. StartsIn(c, g[i - 1])
    BY <2>2, <2>3, NonEmptyStarts
  <2> QED
    BY <1>1, <2>4 DEF Starts, StartsIn
<1>4. ASSUME NEW x \in Starts(c) PROVE \E i \in Full(ss) : x = g[i - 1] + 1
  <2>1. x \in 1 .. Len(c) /\ c[x] # Null /\ (x = 1 \/ c[x - 1] = Null)
    BY <1>1 DEF Starts
  <2>2. x \in 1 .. Len(c) - 1
    BY <1>1, <1>2, <2>1
  <2>3. PICK i \in 1 .. n : g[i - 1] < x /\ x <= g[i]
    BY <2>2, InOneString
  <2>4. IsAt(ss[i], c, g[i - 1], g[i])
    BY <1>1, <2>3, StringIsAt
  <2>5. x \in Nat
    BY <2>1
  <2>6. x = g[i - 1] + 1 /\ Len(ss[i]) # 0
    BY <2>1, <2>3, <2>4, <2>5, OneStart
  <2>7. ss[i] # <<>>
    BY <2>6
  <2>8. i \in Full(ss)
    BY <1>1, <2>7 DEF Full
  <2> QED
    BY <2>6, <2>8
<1> QED
  BY <1>3, <1>4

(* readStringArray() takes a string from its first character to the null     *)
(* that follows it.                                                          *)
LEMMA EndIsMax ==
  ASSUME NEW s, NEW c \in Seq(Char), NEW a, NEW b, IsAt(s, c, a, b), Len(s) # 0
  PROVE  SubSeq(c, a + 1, Max({j \in a + 1 .. Len(c) : \A k \in a + 1 .. j : c[k] # Null})) = s
<1> DEFINE l == Len(s)
           n == Len(c)
           S == {j \in a + 1 .. n : \A k \in a + 1 .. j : c[k] # Null}
           m == b - 1
<1>1. /\ s \in Seq(Char) /\ l \in Nat /\ l # 0 /\ a \in Nat /\ b \in Nat
      /\ b = a + l + 1 /\ b < n /\ n \in Nat /\ c[b] = Null
      /\ \A x \in a + 1 .. b - 1 : c[x] = s[x - a] /\ c[x] # Null
  BY DEF IsAt
<1>2. \A y \in 1 .. n : c[y] \in Char
  BY ElementOfSeq
<1> HIDE DEF l, n
<1>4. m \in Nat /\ a + 1 <= m /\ m <= n /\ m - (a + 1) + 1 = l
  BY <1>1
<1>5. m \in S
  BY <1>1, <1>4
<1>6. ASSUME NEW j \in S PROVE j <= m
  <2> SUFFICES ASSUME ~(j <= m) PROVE FALSE
    OBVIOUS
  <2>1. b \in a + 1 .. j
    BY <1>1, <1>4
  <2> QED
    BY <1>1, <2>1
<1>7. S \in SUBSET Nat
  BY <1>1
<1> HIDE DEF S, m
<1>8. Max(S) = m
  BY <1>5, <1>6, <1>7, MaxIs
<1>9. \A y \in a + 1 .. m : c[y] = s[y - a] /\ c[y] \in Char
  <2> SUFFICES ASSUME NEW y \in a + 1 .. m PROVE c[y] = s[y - a] /\ c[y] \in Char
    OBVIOUS
  <2>1. y \in a + 1 .. b - 1 /\ y \in 1 .. n
    BY <1>1, <1>4 DEF m
  <2> QED
    BY <1>1, <1>2, <2>1
<1> DEFINE t == SubSeq(c, a + 1, m)
<1>10. t \in Seq(Char) /\ Len(t) = l /\ \A k \in 1 .. l : t[k] = c[(a + 1) + k - 1]
  <2> DEFINE x == a + 1
  <2>1. x \in Int /\ m \in Int /\ \A y \in x .. m : c[y] \in Char
    BY <1>1, <1>4, <1>9
  <2>2. x <= m /\ m - x + 1 = l
    BY <1>4
  <2> HIDE DEF x
  <2>3. SubSeq(c, x, m) \in Seq(Char)
    BY <2>1, SubSeqProperties, Zenon
  <2>4. Len(SubSeq(c, x, m)) = IF x <= m THEN m - x + 1 ELSE 0
    BY <2>1, SubSeqProperties, Zenon
  <2>5. ASSUME NEW k \in 1 .. m - x + 1 PROVE SubSeq(c, x, m)[k] = c[x + k - 1]
    BY <2>1, SubSeqProperties, SMT
  <2>6. Len(SubSeq(c, x, m)) = l /\ \A k \in 1 .. l : SubSeq(c, x, m)[k] = c[x + k - 1]
    BY <2>2, <2>4, <2>5, Zenon
  <2> QED
    BY <2>3, <2>6, Zenon DEF x
<1> HIDE DEF t
<1>11. Len(t) = Len(s)
  BY <1>10 DEF l
<1>12. ASSUME NEW k \in 1 .. Len(t) PROVE t[k] = s[k]
  <2>1. k \in 1 .. l
    BY <1>10
  <2>2. (a + 1) + k - 1 \in a + 1 .. m /\ ((a + 1) + k - 1) - a = k
    BY <1>1, <1>4, <2>1
  <2> QED
    BY <1>9, <1>10, <2>1, <2>2
<1>13. t = s
  BY <1>1, <1>10, <1>11, <1>12, SeqEqual
<1> QED
  BY <1>8, <1>13 DEF t, S, n

LEMMA StringsDecoded ==
  ASSUME NEW ss \in Seq(Seq(Char)), NEW g, NEW c, Holds(ss, g, c),
         \A i \in DOMAIN ss : NonNull(ss[i]), NEW b, Chars(b) = c
  PROVE  DecodeStrings(b) = NonEmpty(ss)
<1> DEFINE S == Full(ss)
           T == Starts(c)
           p == [i \in S |-> g[i - 1] + 1]
           End(x) == Max({j \in x .. Len(c) : \A k \in x .. j : c[k] # Null})
<1>1. DOMAIN ss = 1 .. Len(ss) /\ Len(ss) \in Nat
  BY LenProperties
<1>2. S \in SUBSET Nat /\ S \in SUBSET (1 .. Len(ss)) /\ IsFiniteSet(S)
  <2>1. S \in SUBSET (1 .. Len(ss)) /\ 1 .. Len(ss) \in SUBSET Nat
    BY <1>1 DEF Full
  <2>2. IsFiniteSet(1 .. Len(ss))
    BY <1>1, FS_Interval
  <2> QED
    BY <2>1, <2>2, FS_Subset
<1>3. \A i \in S : i - 1 \in 0 .. Len(ss) /\ g[i - 1] \in Nat
  BY <1>1, <1>2 DEF Holds
<1>4. p \in [S -> Nat]
  BY <1>3
<1>5. \A i, j \in S : i < j => p[i] < p[j]
  <2> SUFFICES ASSUME NEW i \in S, NEW j \in S, i < j PROVE p[i] < p[j]
    OBVIOUS
  <2>1. i - 1 < j - 1 /\ i - 1 \in 0 .. Len(ss) /\ j - 1 \in 0 .. Len(ss)
    BY <1>2, <1>3
  <2>2. g[i - 1] < g[j - 1] /\ g[i - 1] \in Nat /\ g[j - 1] \in Nat
    BY <2>1, EndsRise
  <2> QED
    BY <2>2
<1>6. T = {p[i] : i \in S}
  BY StartsAre
<1>7. /\ Cardinality(T) = Cardinality(S)
      /\ \A n \in 1 .. Cardinality(S) : Nth(S, n) \in S /\ Nth(T, n) = p[Nth(S, n)]
  <2> HIDE DEF S, T, p
  <2>1. Grows(S, p) /\ T = Image(S, p)
    BY <1>2, <1>4, <1>5, <1>6 DEF Grows, Image
  <2> QED
    BY <2>1, NthGrows, Zenon
<1>8. \A i \in S : SubSeq(c, p[i], End(p[i])) = ss[i]
  <2> SUFFICES ASSUME NEW i \in S PROVE SubSeq(c, p[i], End(p[i])) = ss[i]
    OBVIOUS
  <2>1. i \in 1 .. Len(ss) /\ ss[i] # <<>> /\ NonNull(ss[i])
    BY <1>1, <1>2 DEF Full
  <2>2. IsAt(ss[i], c, g[i - 1], g[i])
    BY <2>1, StringIsAt
  <2>3. Len(ss[i]) # 0 /\ c \in Seq(Char)
    BY <2>1, <2>2, EmptySeq DEF IsAt, Holds
  <2>4. SubSeq(c, g[i - 1] + 1, End(g[i - 1] + 1)) = ss[i]
    <3> DEFINE x == g[i - 1]
               y == g[i]
               v == ss[i]
    <3>1. IsAt(v, c, x, y) /\ Len(v) # 0 /\ c \in Seq(Char)
      BY <2>2, <2>3
    <3> HIDE DEF x, y, v
    <3>2. SubSeq(c, x + 1, Max({j \in x + 1 .. Len(c) : \A k \in x + 1 .. j : c[k] # Null})) = v
      BY <3>1, EndIsMax, Zenon
    <3> QED
      BY <3>2 DEF x, y, v
  <2> QED
    BY <2>4
<1>9. DecodeStrings(b) = [n \in 1 .. Cardinality(T) |-> SubSeq(c, Nth(T, n), End(Nth(T, n)))]
  BY DEF DecodeStrings, Runs, Starts
<1> HIDE DEF S, T, p, End
<1>10. DecodeStrings(b) = [n \in 1 .. Cardinality(S) |-> ss[Nth(S, n)]]
  BY <1>7, <1>8, <1>9
<1> QED
  BY <1>10 DEF NonEmpty, S, Full

LEMMA StringDecoded ==
  ASSUME NEW s \in Seq(Char), NonNull(s), NEW b, Chars(b) = Terminated(s)
  PROVE  DecodeString(b) = s
<1> DEFINE c == Terminated(s)
           l == Len(s)
           S == {i \in DOMAIN c : c[i] # Null} \cup {0}
<1>1. /\ c \in Seq(Char) /\ l \in Nat /\ Len(c) = l + 1 /\ c[l + 1] = Null
      /\ \A k \in 1 .. l : c[k] = s[k]
  BY TerminatedIs
<1>2. DOMAIN c = 1 .. l + 1 /\ DOMAIN s = 1 .. l
  BY <1>1, LenProperties
<1>3. DecodeString(b) = SubSeq(c, 1, Max(S))
  BY DEF DecodeString
<1> HIDE DEF c
<1>4. \A k \in 1 .. l : c[k] # Null /\ c[k] \in Char
  BY <1>1, <1>2, ElementOfSeq DEF NonNull
<1> HIDE DEF l
<1>5. S = 0 .. l
  <2>1. \A i \in S : i \in 0 .. l
    <3> SUFFICES ASSUME NEW i \in S PROVE i \in 0 .. l
      OBVIOUS
    <3>1. i = 0 \/ (i \in 1 .. l + 1 /\ c[i] # Null)
      BY <1>2
    <3>2. i # l + 1
      BY <1>1, <3>1
    <3> QED
      BY <1>1, <3>1, <3>2
  <2>2. \A i \in 0 .. l : i \in S
    <3> SUFFICES ASSUME NEW i \in 0 .. l PROVE i \in S
      OBVIOUS
    <3>1. i = 0 \/ (i \in 1 .. l /\ i \in 1 .. l + 1)
      BY <1>1
    <3> QED
      BY <1>2, <1>4, <3>1
  <2> HIDE DEF S
  <2> QED
    BY <2>1, <2>2
<1> HIDE DEF S
<1>6. Max(S) = l
  <2>1. S \in SUBSET Nat /\ l \in S /\ \A y \in S : y <= l
    BY <1>1, <1>5
  <2> QED
    BY <2>1, MaxIs
<1> DEFINE t == SubSeq(c, 1, l)
<1>7. t \in Seq(Char) /\ Len(t) = l /\ \A k \in 1 .. l : t[k] = c[k]
  <2>1. 1 \in Int /\ l \in Int /\ \A k \in 1 .. l : c[k] \in Char
    BY <1>1, <1>4
  <2>2. l - 1 + 1 = l /\ (~(1 <= l) => l = 0)
    BY <1>1
  <2> QED
    BY <2>1, <2>2, SubSeqProperties, SMT
<1> HIDE DEF t
<1>8. t = s
  <2>1. Len(t) = Len(s) /\ \A k \in 1 .. Len(t) : t[k] = s[k]
    BY <1>1, <1>7 DEF l
  <2> QED
    BY <1>7, <2>1, SeqEqual
<1> QED
  BY <1>3, <1>6, <1>8 DEF t

(* What is written is bytes, and is read again.                              *)
LEMMA StringIsRead ==
  ASSUME NEW s \in Seq(Char)
  PROVE  EncodeString(s) \in Seq(Bytes) /\ (NonNull(s) => DecodeString(EncodeString(s)) = s)
<1>1. Terminated(s) \in Seq(Bytes \X Bytes)
  BY TerminatedIs DEF Char
<1>2. EncodeString(s) \in Seq(Bytes) /\ Chars(EncodeString(s)) = Terminated(s)
  BY <1>1, CharsAreBytes DEF EncodeString
<1>3. NonNull(s) => DecodeString(EncodeString(s)) = s
  BY <1>2, StringDecoded, Zenon
<1> QED
  BY <1>2, <1>3

LEMMA ArrayIsRead ==
  ASSUME NEW ss \in Seq(Seq(Char))
  PROVE  /\ EncodeStrings(ss) \in Seq(Bytes)
         /\ (\A i \in DOMAIN ss : NonNull(ss[i])) =>
              DecodeStrings(EncodeStrings(ss)) = NonEmpty(ss)
<1> DEFINE c == Terminated(FlattenSeq(Lines(ss)))
<1>1. PICK g : Holds(ss, g, c)
  BY ArrayChars
<1>2. EncodeStrings(ss) = AsBytes(c)
  BY Zenon DEF EncodeStrings, Lines
<1> HIDE DEF c
<1>3. c \in Seq(Bytes \X Bytes)
  BY <1>1 DEF Holds, Char
<1>4. EncodeStrings(ss) \in Seq(Bytes) /\ Chars(EncodeStrings(ss)) = c
  BY <1>2, <1>3, CharsAreBytes
<1>5. (\A i \in DOMAIN ss : NonNull(ss[i])) => DecodeStrings(EncodeStrings(ss)) = NonEmpty(ss)
  BY <1>1, <1>4, StringsDecoded, Zenon
<1> QED
  BY <1>4, <1>5

-----------------------------------------------------------------------------
(* Characters that are followed by nulls only.                               *)
Padded(c, d) ==
  /\ c \in Seq(Char) /\ d \in Seq(Char) /\ Len(c) \in Nat /\ Len(d) \in Nat /\ Len(c) <= Len(d)
  /\ \A i \in 1 .. Len(d) : d[i] = IF i <= Len(c) THEN c[i] ELSE Null

LEMMA SameStart ==
  ASSUME NEW c, NEW d, Padded(c, d), NEW m \in Nat \ {0}, NEW n \in Nat, n <= Len(c)
  PROVE  SubSeq(c, m, n) = SubSeq(d, m, n)
<1>1. \A i \in m .. n : c[i] \in Char /\ d[i] = c[i] /\ d[i] \in Char
  <2> SUFFICES ASSUME NEW i \in m .. n PROVE c[i] \in Char /\ d[i] = c[i]
    OBVIOUS
  <2> DEFINE lc == Len(c)
             ld == Len(d)
  <2>1. c \in Seq(Char) /\ lc \in Nat /\ ld \in Nat /\ lc <= ld /\ n <= lc
    BY DEF Padded
  <2> HIDE DEF lc, ld
  <2>2. i \in 1 .. lc /\ i \in 1 .. ld /\ i <= lc
    BY <2>1
  <2> QED
    BY <2>1, <2>2, ElementOfSeq DEF Padded, lc, ld
<1> DEFINE s == SubSeq(c, m, n)
           t == SubSeq(d, m, n)
<1>2. /\ s \in Seq(Char) /\ Len(s) = (IF m <= n THEN n - m + 1 ELSE 0)
      /\ \A i \in 1 .. n - m + 1 : s[i] = c[m + i - 1]
  BY <1>1, SubSeqProperties, SMT
<1>3. /\ t \in Seq(Char) /\ Len(t) = (IF m <= n THEN n - m + 1 ELSE 0)
      /\ \A i \in 1 .. n - m + 1 : t[i] = d[m + i - 1]
  BY <1>1, SubSeqProperties, SMT
<1> HIDE DEF s, t
<1>4. ASSUME NEW i \in 1 .. Len(s) PROVE s[i] = t[i]
  <2>1. i \in 1 .. n - m + 1 /\ m + i - 1 \in m .. n
    BY <1>2
  <2> QED
    BY <1>1, <1>2, <1>3, <2>1
<1>5. s = t
  BY <1>2, <1>3, <1>4, SeqEqual
<1> QED
  BY <1>5 DEF s, t

LEMMA PaddedString ==
  ASSUME NEW a, NEW b, Padded(Chars(a), Chars(b))
  PROVE  DecodeString(a) = DecodeString(b)
<1> DEFINE c == Chars(a)
           d == Chars(b)
           S == {i \in DOMAIN c : c[i] # Null} \cup {0}
           T == {i \in DOMAIN d : d[i] # Null} \cup {0}
           m == Len(c)
           n == Len(d)
<1>1. DecodeString(a) = SubSeq(c, 1, Max(S)) /\ DecodeString(b) = SubSeq(d, 1, Max(T))
  BY DEF DecodeString
<1>2. c \in Seq(Char) /\ d \in Seq(Char)
  BY DEF Padded
<1> HIDE DEF c, d
<1>3. DOMAIN c = 1 .. m /\ DOMAIN d = 1 .. n
  BY <1>2, LenProperties
<1>4. Padded(c, d)
  BY DEF c, d
<1>5. m \in Nat /\ n \in Nat /\ m <= n /\ \A i \in 1 .. n : d[i] = IF i <= m THEN c[i] ELSE Null
  BY <1>4 DEF Padded
<1> HIDE DEF m, n
<1>6. S = T
  BY <1>3, <1>5
<1>7. S \in SUBSET Nat /\ S # {} /\ \A y \in S : y <= m
  BY <1>3, <1>5
<1> HIDE DEF S, T
<1>8. Max(S) \in Nat /\ Max(S) <= m
  BY <1>5, <1>7, MaxIsBounded
<1>9. SubSeq(c, 1, Max(S)) = SubSeq(d, 1, Max(S))
  BY <1>4, <1>8, SameStart DEF m
<1> QED
  BY <1>1, <1>6, <1>9

LEMMA PaddedStrings ==
  ASSUME NEW a, NEW b, Padded(Chars(a), Chars(b))
  PROVE  DecodeStrings(a) = DecodeStrings(b)
<1> DEFINE c == Chars(a)
           d == Chars(b)
           m == Len(c)
           n == Len(d)
           S == Starts(c)
           InC(x) == {j \in x .. Len(c) : \A k \in x .. j : c[k] # Null}
           InD(x) == {j \in x .. Len(d) : \A k \in x .. j : d[k] # Null}
<1>1. /\ DecodeStrings(a) = [i \in 1 .. Cardinality(Starts(c)) |->
           SubSeq(c, Nth(Starts(c), i), Max(InC(Nth(Starts(c), i))))]
      /\ DecodeStrings(b) = [i \in 1 .. Cardinality(Starts(d)) |->
           SubSeq(d, Nth(Starts(d), i), Max(InD(Nth(Starts(d), i))))]
  BY DEF DecodeStrings, Runs, Starts
<1>2. c \in Seq(Char) /\ d \in Seq(Char)
  BY DEF Padded
<1> HIDE DEF c, d
<1>3. DOMAIN c = 1 .. m /\ DOMAIN d = 1 .. n
  BY <1>2, LenProperties
<1>4. Padded(c, d)
  BY DEF c, d
<1>5. m \in Nat /\ n \in Nat /\ m <= n /\ \A i \in 1 .. n : d[i] = IF i <= m THEN c[i] ELSE Null
  BY <1>4 DEF Padded
<1>6. Starts(d) = S
  <2> HIDE DEF m, n
  <2>1. \A i \in 1 .. m :
          /\ i \in 1 .. n /\ d[i] = c[i]
          /\ i # 1 => i - 1 \in 1 .. n /\ d[i - 1] = c[i - 1]
    BY <1>5
  <2>2. \A i \in 1 .. n : d[i] # Null => i \in 1 .. m
    BY <1>5
  <2> QED
    BY <1>3, <2>1, <2>2 DEF Starts
<1>7. S \in SUBSET (1 .. m) /\ S \in SUBSET Nat /\ IsFiniteSet(S) /\ \A x \in S : c[x] # Null
  <2>1. S \in SUBSET (1 .. m) /\ \A x \in S : c[x] # Null
    BY <1>3 DEF Starts
  <2>2. IsFiniteSet(1 .. m) /\ 1 .. m \in SUBSET Nat
    BY <1>5, FS_Interval
  <2> QED
    BY <2>1, <2>2, FS_Subset
<1> HIDE DEF S
<1>8. ASSUME NEW x \in S
      PROVE  SubSeq(c, x, Max(InC(x))) = SubSeq(d, x, Max(InD(x)))
  <2>1. x \in 1 .. m /\ x \in Nat \ {0} /\ c[x] # Null
    BY <1>5, <1>7
  <2>2. \A j \in InD(x) : j \in x .. m
    <3> SUFFICES ASSUME NEW j \in InD(x) PROVE j \in x .. m
      OBVIOUS
    <3>1. j \in x .. n /\ d[j] # Null
      OBVIOUS
    <3> HIDE DEF m, n, InD
    <3>2. j \in 1 .. n /\ j <= m
      BY <1>5, <2>1, <3>1
    <3> QED
      BY <2>1, <3>1, <3>2
  <2>3. \A j \in x .. m : \A k \in x .. j : d[k] = c[k]
    <3> HIDE DEF m, n
    <3> QED
      BY <1>5, <2>1
  <2>4. \A j \in x .. m : j \in x .. n
    <3> HIDE DEF m, n
    <3> QED
      BY <1>5, <2>1
  <2>5. InC(x) = InD(x)
    <3>1. \A j \in InC(x) : j \in InD(x)
      BY <2>3, <2>4
    <3>2. \A j \in InD(x) : j \in InC(x)
      BY <2>2, <2>3
    <3> HIDE DEF InC, InD
    <3> QED
      BY <3>1, <3>2
  <2>6. InC(x) \in SUBSET Nat /\ x \in InC(x) /\ \A y \in InC(x) : y <= m
    <3>1. \A y \in InC(x) : y \in x .. m
      OBVIOUS
    <3>2. x \in InC(x)
      BY <2>1
    <3> HIDE DEF m, InC
    <3> QED
      BY <1>5, <2>1, <3>1, <3>2
  <2> HIDE DEF InC, InD
  <2>7. Max(InC(x)) \in InC(x) /\ Max(InC(x)) \in Nat /\ Max(InC(x)) <= m
    BY <1>5, <2>6, MaxIsBounded
  <2>8. SubSeq(c, x, Max(InC(x))) = SubSeq(d, x, Max(InC(x)))
    BY <1>4, <2>1, <2>7, SameStart
  <2> QED
    BY <2>5, <2>8
<1>9. \A i \in 1 .. Cardinality(S) : Nth(S, i) \in S
  BY <1>7, NthIs
<1> HIDE DEF InC, InD
<1> QED
  BY <1>1, <1>6, <1>8, <1>9 DEF S

-----------------------------------------------------------------------------
(* What was written is what the value holds until the other program touches  *)
(* it, and what a read then returns is decoded from it.                      *)

Holding(type, data, bytes) ==
  /\ type \in Types
  /\ type \in StringTypes => data \in Strings /\ bytes = EncodeString(data)
  /\ type = "REG_MULTI_SZ" => data \in Arrays /\ bytes = EncodeStrings(data)
  /\ type = "REG_BINARY" => data \in Blobs /\ bytes = data
  /\ type = "REG_DWORD" => data \in Numbers /\ bytes = data

WrittenInv ==
  written # NoValue =>
    /\ value # NoValue /\ value.type = written.type
    /\ Holding(written.type, written.data, value.bytes)
    /\ reading # "none" => reading = value.type /\ size = Len(value.bytes)
ResultInv ==
  /\ reading # "none" => result = NoResult
  /\ written # NoValue /\ result # NoResult /\ result.ok /\ result.type = written.type =>
       result.data \in Decoded(written.type, value.bytes)

KeyInv == TypeOK /\ WrittenInv /\ ResultInv

LEMMA CharsIs ==
  ASSUME NEW b \in Seq(Bytes)
  PROVE  /\ Chars(b) \in Seq(Char) /\ Len(b) \in Nat /\ Len(b) \div 2 \in Nat
         /\ Len(Chars(b)) = Len(b) \div 2 /\ Len(b) = 2 * (Len(b) \div 2) + (Len(b) % 2)
         /\ \A i \in 1 .. Len(b) \div 2 : Chars(b)[i] = <<b[2 * i - 1], b[2 * i]>>
<1> DEFINE h == Len(b) \div 2
<1>1. Len(b) \in Nat /\ h \in Nat /\ Len(b) = 2 * h + (Len(b) % 2) /\ Len(b) % 2 \in {0, 1}
  BY LenProperties, Halves
<1>2. Chars(b) = [i \in 1 .. h |-> <<b[2 * i - 1], b[2 * i]>>]
  BY DEF Chars
<1> DEFINE n == Len(b)
<1>3. \A i \in 1 .. n : b[i] \in Bytes
  BY ElementOfSeq
<1>4. n \in Nat /\ h \in Nat /\ 2 * h <= n
  BY <1>1
<1> HIDE DEF h, n
<1>5. \A i \in 1 .. h : 2 * i - 1 \in 1 .. n /\ 2 * i \in 1 .. n
  BY <1>4
<1>6. Chars(b) \in [1 .. h -> Char]
  BY <1>2, <1>3, <1>5 DEF Char
<1>7. Chars(b) \in Seq(Char) /\ Len(Chars(b)) = h
  BY <1>4, <1>6, FunctionIsSeq
<1> QED
  BY <1>1, <1>2, <1>7 DEF h

(* The buffer holds the bytes and zeros.                                     *)
LEMMA BufferIs ==
  ASSUME TypeOK, value # NoValue, Len(value.bytes) <= size
  PROVE  /\ value.bytes \in Seq(Bytes) /\ Len(value.bytes) \in Nat
         /\ Buffer \in Seq(Bytes) /\ Len(Buffer) = size /\ size \in Nat
         /\ \A i \in 1 .. size :
              Buffer[i] = IF i <= Len(value.bytes) THEN value.bytes[i] ELSE 0
<1> DEFINE b == value.bytes
           n == Len(b)
<1>1. b \in Seq(Bytes) /\ size \in Nat
  BY DEF TypeOK
<1>2. DOMAIN b = 1 .. n /\ n \in Nat /\ \A i \in 1 .. n : b[i] \in Bytes
  BY <1>1, LenProperties, ElementOfSeq
<1>3. Buffer = [i \in 1 .. size |-> IF i \in DOMAIN b THEN b[i] ELSE 0]
  BY DEF Buffer
<1> HIDE DEF b, n
<1>4. ASSUME NEW i \in 1 .. size
      PROVE  Buffer[i] = (IF i <= n THEN b[i] ELSE 0) /\ Buffer[i] \in Bytes
  <2>1. i \in DOMAIN b <=> i <= n
    BY <1>1, <1>2
  <2> QED
    BY <1>2, <1>3, <2>1, RegistryKeyAssumption
<1>5. Buffer \in [1 .. size -> Bytes]
  BY <1>3, <1>4
<1>6. Buffer \in Seq(Bytes) /\ Len(Buffer) = size
  BY <1>1, <1>5, FunctionIsSeq
<1> QED
  BY <1>1, <1>2, <1>4, <1>6 DEF b, n

LEMMA BufferIsPadded ==
  ASSUME TypeOK, value # NoValue, Len(value.bytes) <= size, Len(value.bytes) % 2 = 0
  PROVE  Padded(Chars(value.bytes), Chars(Buffer))
<1> DEFINE b == value.bytes
           n == Len(b)
           h == n \div 2
           k == size \div 2
<1>1. /\ b \in Seq(Bytes) /\ n \in Nat /\ Buffer \in Seq(Bytes) /\ Len(Buffer) = size
      /\ size \in Nat
      /\ \A i \in 1 .. size : Buffer[i] = IF i <= n THEN b[i] ELSE 0
  BY BufferIs
<1>2. /\ Chars(b) \in Seq(Char) /\ h \in Nat /\ Len(Chars(b)) = h /\ n = 2 * h + (n % 2)
      /\ \A i \in 1 .. h : Chars(b)[i] = <<b[2 * i - 1], b[2 * i]>>
  BY <1>1, CharsIs
<1>3. /\ Chars(Buffer) \in Seq(Char) /\ k \in Nat /\ Len(Chars(Buffer)) = k
      /\ size = 2 * k + (size % 2) /\ size % 2 \in {0, 1}
      /\ \A i \in 1 .. k : Chars(Buffer)[i] = <<Buffer[2 * i - 1], Buffer[2 * i]>>
  BY <1>1, CharsIs, Halves
<1>4. n <= size /\ n % 2 = 0
  OBVIOUS
<1> HIDE DEF b, n, h, k
<1>5. n = 2 * h /\ h <= k
  BY <1>1, <1>2, <1>3, <1>4
<1>6. ASSUME NEW i \in 1 .. k
      PROVE  Chars(Buffer)[i] = IF i <= h THEN Chars(b)[i] ELSE Null
  <2>1. /\ 2 * i - 1 \in 1 .. size /\ 2 * i \in 1 .. size
        /\ i <= h => 2 * i - 1 <= n /\ 2 * i <= n /\ i \in 1 .. h
        /\ ~(i <= h) => ~(2 * i - 1 <= n) /\ ~(2 * i <= n)
    BY <1>1, <1>2, <1>3, <1>5
  <2>2. CASE i <= h
    BY <1>1, <1>2, <1>3, <2>1, <2>2
  <2>3. CASE ~(i <= h)
    BY <1>1, <1>3, <2>1, <2>3 DEF Null
  <2> QED
    BY <2>2, <2>3
<1>7. Padded(Chars(b), Chars(Buffer))
  BY <1>2, <1>3, <1>5, <1>6 DEF Padded
<1> QED
  BY <1>7 DEF b

-----------------------------------------------------------------------------
(* The invariant.                                                            *)

LEMMA DataIsBytes ==
  /\ \A s \in Strings : s \in Seq(Char) /\ EncodeString(s) \in Seq(Bytes)
  /\ \A ss \in Arrays : ss \in Seq(Seq(Char)) /\ EncodeStrings(ss) \in Seq(Bytes)
  /\ \A b \in Blobs \cup Stored : b \in Seq(Bytes)
  /\ \A m \in Numbers : m \in Seq(Bytes)
<1>1. \A s \in Strings : s \in Seq(Char) /\ EncodeString(s) \in Seq(Bytes)
  <2>1. \A s \in Strings : s \in Seq(Char)
    BY RegistryKeyAssumption DEF Char
  <2> QED
    BY <2>1, StringIsRead
<1>2. \A ss \in Arrays : ss \in Seq(Seq(Char)) /\ EncodeStrings(ss) \in Seq(Bytes)
  <2>1. \A ss \in Arrays : ss \in Seq(Seq(Char))
    BY RegistryKeyAssumption DEF Char
  <2> QED
    BY <2>1, ArrayIsRead
<1>3. \A b \in Blobs \cup Stored : b \in Seq(Bytes)
  BY RegistryKeyAssumption
<1>4. \A m \in Numbers : m \in Seq(Bytes)
  BY RegistryKeyAssumption, FunctionIsSeq DEF Numbers
<1> QED
  BY <1>1, <1>2, <1>3, <1>4

LEMMA InitKeyInv == Init => KeyInv
BY DEF Init, KeyInv, TypeOK, WrittenInv, ResultInv, Types, StringTypes

LEMMA WriteStep ==
  ASSUME KeyInv, NEW type, NEW bytes \in Seq(Bytes), NEW data,
         Holding(type, data, bytes), Write(type, bytes, data)
  PROVE  KeyInv'
<1>1. /\ reading = "none" /\ value' = [type |-> type, bytes |-> bytes]
      /\ written' = [type |-> type, data |-> data]
      /\ result' = NoResult /\ reading' = reading /\ size' = size
  BY DEF Write
<1>2. type \in Types /\ "none" \notin Types
  BY DEF Holding, Types, StringTypes
<1>3. /\ value'.type = type /\ value'.bytes = bytes /\ written'.type = type
      /\ written'.data = data
  BY <1>1
<1>4. value' # NoValue
  BY <1>2, <1>3 DEF NoValue
<1>5. TypeOK'
  BY <1>1, <1>2, <1>3, <1>4 DEF KeyInv, TypeOK
<1>6. WrittenInv'
  BY <1>1, <1>2, <1>3, <1>4 DEF WrittenInv
<1>7. ResultInv'
  BY <1>1 DEF ResultInv
<1> QED
  BY <1>5, <1>6, <1>7 DEF KeyInv

LEMMA NextKeyInv == KeyInv /\ [Next]_vars => KeyInv'
<1> SUFFICES ASSUME KeyInv, [Next]_vars PROVE KeyInv'
  OBVIOUS
<1>1. ASSUME NEW type \in StringTypes, NEW s \in Strings, WriteString(type, s) PROVE KeyInv'
  <2>1. Holding(type, s, EncodeString(s))
    BY DEF Holding, Types, StringTypes
  <2> QED
    BY <1>1, <2>1, DataIsBytes, WriteStep DEF WriteString
<1>2. ASSUME NEW ss \in Arrays, WriteStrings(ss) PROVE KeyInv'
  <2>1. Holding("REG_MULTI_SZ", ss, EncodeStrings(ss))
    BY DEF Holding, Types, StringTypes
  <2> QED
    BY <1>2, <2>1, DataIsBytes, WriteStep DEF WriteStrings
<1>3. ASSUME NEW b \in Blobs, WriteBlob(b) PROVE KeyInv'
  <2>1. Holding("REG_BINARY", b, b)
    BY DEF Holding, Types, StringTypes
  <2>2. b \in Seq(Bytes)
    BY DataIsBytes
  <2> QED
    BY <1>3, <2>1, <2>2, WriteStep DEF WriteBlob
<1>4. ASSUME NEW m \in Numbers, WriteNumber(m) PROVE KeyInv'
  <2>1. Holding("REG_DWORD", m, m)
    BY DEF Holding, Types, StringTypes
  <2> QED
    BY <1>4, <2>1, DataIsBytes, WriteStep DEF WriteNumber
<1>5. CASE DeleteValue
  BY <1>5 DEF DeleteValue, KeyInv, TypeOK, WrittenInv, ResultInv
<1>6. ASSUME NEW type \in Types, QueryEmpty(type) PROVE KeyInv'
  <2>1. PICK data \in Decoded(type, <<>>) : Return(type, data)
    BY <1>6 DEF QueryEmpty
  <2>2. /\ reading' = "none" /\ result' = [ok |-> TRUE, type |-> type, data |-> data]
        /\ value' = value /\ size' = size /\ written' = written
        /\ reading = "none" /\ value.bytes = <<>>
    BY <1>6, <2>1 DEF QueryEmpty, Return
  <2>3. result'.ok = TRUE /\ result'.type = type /\ result'.data = data
    BY <2>2
  <2>4. TypeOK'
    BY <2>2, <2>3 DEF KeyInv, TypeOK
  <2>5. WrittenInv'
    BY <2>2 DEF KeyInv, WrittenInv
  <2>6. ResultInv'
    BY <2>1, <2>2, <2>3 DEF ResultInv
  <2> QED
    BY <2>4, <2>5, <2>6 DEF KeyInv
<1>7. ASSUME NEW type \in Types, QuerySize(type) PROVE KeyInv'
  <2>1. /\ reading = "none" /\ value # NoValue /\ value.type = type /\ value.bytes # <<>>
        /\ reading' = type /\ size' = Len(value.bytes) /\ result' = NoResult
        /\ value' = value /\ written' = written
    BY <1>7 DEF QuerySize, HasData
  <2>2. value.bytes \in Seq(Bytes)
    BY <2>1 DEF KeyInv, TypeOK
  <2>3. Len(value.bytes) \in Nat /\ Len(value.bytes) > 0
    BY <2>1, <2>2, LenProperties, EmptySeq
  <2>4. TypeOK'
    BY <2>1, <2>3 DEF KeyInv, TypeOK
  <2>5. WrittenInv'
    BY <2>1 DEF KeyInv, WrittenInv
  <2>6. ResultInv'
    BY <2>1 DEF ResultInv
  <2> QED
    BY <2>4, <2>5, <2>6 DEF KeyInv
<1>8. ASSUME NEW type \in Types, ReadThrows(type) PROVE KeyInv'
  <2>1. /\ reading' = "none" /\ result' = [ok |-> FALSE, type |-> type]
        /\ value' = value /\ size' = size /\ written' = written
    BY <1>8 DEF ReadThrows
  <2>2. result'.ok = FALSE /\ result'.type = type
    BY <2>1
  <2> QED
    BY <2>1, <2>2 DEF KeyInv, TypeOK, WrittenInv, ResultInv
<1>9. ASSUME NEW type \in Types, NEW bytes \in Stored, OtherWrites(type, bytes) PROVE KeyInv'
  <2>1. /\ value' = [type |-> type, bytes |-> bytes] /\ written' = NoValue
        /\ reading' = reading /\ size' = size /\ result' = result
    BY <1>9 DEF OtherWrites
  <2>2. value'.type = type /\ value'.bytes = bytes /\ bytes \in Seq(Bytes)
    BY <2>1, DataIsBytes
  <2> QED
    BY <2>1, <2>2 DEF KeyInv, TypeOK, WrittenInv, ResultInv
<1>10. CASE ReadData
  <2>1. PICK data \in Decoded(reading, Buffer) : Return(reading, data)
    BY <1>10 DEF ReadData
  <2>2. /\ reading' = "none" /\ result' = [ok |-> TRUE, type |-> reading, data |-> data]
        /\ value' = value /\ size' = size /\ written' = written
        /\ reading # "none" /\ value # NoValue /\ Len(value.bytes) <= size
    BY <1>10, <2>1 DEF ReadData, Return, FitsBuffer
  <2>3. result'.ok = TRUE /\ result'.type = reading /\ result'.data = data
    BY <2>2
  <2>4. TypeOK'
    BY <2>2, <2>3 DEF KeyInv, TypeOK
  <2>5. WrittenInv'
    BY <2>2 DEF KeyInv, WrittenInv
  <2>6. ResultInv'
    <3> SUFFICES ASSUME written # NoValue PROVE data \in Decoded(reading, value.bytes)
      BY <2>2, <2>3 DEF ResultInv
    <3>1. size = Len(value.bytes)
      BY <2>2 DEF KeyInv, WrittenInv
    <3>2. value.bytes \in Seq(Bytes)
      BY <2>2 DEF KeyInv, TypeOK
    <3> DEFINE b == value.bytes
    <3>3. b = [i \in 1 .. Len(b) |-> b[i]] /\ DOMAIN b = 1 .. Len(b)
      BY <3>2, LenProperties
    <3>4. Buffer = b
      BY <3>1, <3>3 DEF Buffer
    <3> QED
      BY <2>1, <3>4
  <2> QED
    BY <2>4, <2>5, <2>6 DEF KeyInv
<1>11. CASE OtherDeletes
  BY <1>11 DEF OtherDeletes, KeyInv, TypeOK, WrittenInv, ResultInv
<1>12. CASE UNCHANGED vars
  BY <1>12 DEF vars, KeyInv, TypeOK, WrittenInv, ResultInv, Buffer
<1> QED
  BY <1>1, <1>2, <1>3, <1>4, <1>5, <1>6, <1>7, <1>8, <1>9, <1>10, <1>11, <1>12 DEF Next

LEMMA KeyInvariance == Spec => []KeyInv
BY InitKeyInv, NextKeyInv, PTL DEF Spec

(* TypeOK of every reachable state: the registry holds bytes under a known   *)
(* type, readRaw() allocates a buffer only for a value with data, and what   *)
(* is recorded as written is there.                                          *)
THEOREM KeyTypeCorrect == Spec => []TypeOK
<1>1. KeyInv => TypeOK
  BY DEF KeyInv
<1> QED
  BY <1>1, KeyInvariance, PTL

(* RoundTrip: readString(), readStringArray(), readBinaryBlob() and the      *)
(* number readers return what writeValue() was given, unless the other       *)
(* program touched the value; an array without its empty strings. For any    *)
(* characters, lengths and numbers of strings.                               *)
THEOREM WhatIsWrittenIsRead == Spec => []RoundTrip
<1>1. KeyInv => RoundTrip
  <2> SUFFICES ASSUME KeyInv, written # NoValue, result # NoResult, result.ok,
                      result.type = written.type
               PROVE  IF result.type = "REG_MULTI_SZ"
                      THEN (\A i \in DOMAIN written.data : NonNull(written.data[i])) =>
                             result.data = NonEmpty(written.data)
                      ELSE IF result.type \in StringTypes
                           THEN NonNull(written.data) => result.data = written.data
                           ELSE result.data = written.data
    BY DEF RoundTrip
  <2> DEFINE type == written.type
             data == written.data
             bytes == value.bytes
  <2>1. Holding(type, data, bytes) /\ result.data \in Decoded(type, bytes) /\ result.type = type
    BY DEF KeyInv, WrittenInv, ResultInv
  <2> HIDE DEF type, data, bytes
  <2>2. CASE type \in StringTypes
    <3>1. data \in Strings /\ bytes = EncodeString(data) /\ result.data = DecodeString(bytes)
      BY <2>1, <2>2 DEF Holding, Decoded
    <3>2. NonNull(data) => result.data = data
      BY <3>1, DataIsBytes, StringIsRead
    <3>3. type # "REG_MULTI_SZ"
      BY <2>2 DEF StringTypes
    <3> QED
      BY <2>1, <2>2, <3>2, <3>3 DEF type, data
  <2>3. CASE type = "REG_MULTI_SZ"
    <3>1. type \notin StringTypes
      BY <2>3 DEF StringTypes
    <3>2. data \in Arrays /\ bytes = EncodeStrings(data) /\ result.data = DecodeStrings(bytes)
      BY <2>1, <2>3, <3>1 DEF Holding, Decoded
    <3>3. (\A i \in DOMAIN data : NonNull(data[i])) => result.data = NonEmpty(data)
      BY <3>2, DataIsBytes, ArrayIsRead
    <3> QED
      BY <2>1, <2>3, <3>3 DEF type, data
  <2>4. CASE type = "REG_BINARY"
    <3>1. type \notin StringTypes /\ type # "REG_MULTI_SZ"
      BY <2>4 DEF StringTypes
    <3>2. bytes = data /\ result.data = bytes
      BY <2>1, <2>4, <3>1 DEF Holding, Decoded
    <3> QED
      BY <2>1, <3>1, <3>2 DEF type, data
  <2>5. CASE type = "REG_DWORD"
    <3>1. type \notin StringTypes /\ type # "REG_MULTI_SZ" /\ type # "REG_BINARY"
      BY <2>5 DEF StringTypes
    <3>2. data \in Numbers /\ bytes = data /\ result.data \in Numbers
          /\ \A i \in DOMAIN result.data \cap DOMAIN bytes : result.data[i] = bytes[i]
      BY <2>1, <2>5, <3>1 DEF Holding, Decoded
    <3>3. result.data = data
      <4> DEFINE m == result.data
      <4>1. m \in [1 .. NumberSize -> Bytes] /\ data \in [1 .. NumberSize -> Bytes]
        BY <3>2 DEF Numbers
      <4>2. \A i \in 1 .. NumberSize : m[i] = data[i]
        BY <3>2, <4>1
      <4> HIDE DEF m
      <4>3. m = [i \in 1 .. NumberSize |-> m[i]] /\ data = [i \in 1 .. NumberSize |-> data[i]]
        BY <4>1, Zenon
      <4>4. m = data
        BY <4>2, <4>3, Zenon
      <4> QED
        BY <4>4 DEF m
    <3> QED
      BY <2>1, <3>1, <3>3 DEF type, data
  <2>6. type \in Types
    BY <2>1 DEF Holding
  <2> QED
    BY <2>2, <2>3, <2>4, <2>5, <2>6 DEF Types
<1> QED
  BY <1>1, KeyInvariance, PTL

(* ReadIsExact: a string or an array is decoded from the data readRaw()      *)
(* found when it asked for them, and neither the size it asked for before    *)
(* nor the zeros it cleared the buffer with shows.                           *)
THEOREM ReadsAreExact == Spec => ReadIsExact
<1>1. KeyInv /\ [Next]_vars =>
        [reading # "none" /\ result' # NoResult /\ result'.ok
           /\ Len(value.bytes) % 2 = 0 =>
           /\ reading \in StringTypes => result'.data = DecodeString(value.bytes)
           /\ reading = "REG_MULTI_SZ" => result'.data = DecodeStrings(value.bytes)]_vars
  <2> SUFFICES ASSUME KeyInv, Next, reading # "none", result' # NoResult, result'.ok,
                      Len(value.bytes) % 2 = 0
               PROVE  /\ reading \in StringTypes => result'.data = DecodeString(value.bytes)
                      /\ reading = "REG_MULTI_SZ" => result'.data = DecodeStrings(value.bytes)
    OBVIOUS
  <2>1. ReadData
    <3>1. result = NoResult
      BY DEF KeyInv, ResultInv
    <3>2. ASSUME NEW type, ReadThrows(type) PROVE FALSE
      <4>1. result' = [ok |-> FALSE, type |-> type]
        BY <3>2 DEF ReadThrows
      <4> QED
        BY <4>1
    <3>3. ASSUME NEW type, NEW bytes, OtherWrites(type, bytes) PROVE FALSE
      BY <3>1, <3>3 DEF OtherWrites
    <3>4. ~OtherDeletes
      BY <3>1 DEF OtherDeletes
    <3>5. ~DeleteValue /\ \A type : ~QueryEmpty(type) /\ ~QuerySize(type)
      BY DEF DeleteValue, QueryEmpty, QuerySize
    <3>6. \A type, bytes, data : ~Write(type, bytes, data)
      BY DEF Write
    <3>7. /\ \A type, s : ~WriteString(type, s)
          /\ \A ss : ~WriteStrings(ss) /\ ~WriteBlob(ss) /\ ~WriteNumber(ss)
      BY <3>6 DEF WriteString, WriteStrings, WriteBlob, WriteNumber
    <3> QED
      BY <3>2, <3>3, <3>4, <3>5, <3>7 DEF Next
  <2>2. /\ value # NoValue /\ Len(value.bytes) <= size
        /\ result'.data \in Decoded(reading, Buffer)
    <3>1. PICK data \in Decoded(reading, Buffer) : Return(reading, data)
      BY <2>1 DEF ReadData
    <3>2. result'.data = data
      BY <3>1 DEF Return
    <3> QED
      BY <2>1, <3>1, <3>2 DEF ReadData, FitsBuffer
  <2>3. Padded(Chars(value.bytes), Chars(Buffer))
    BY <2>2, BufferIsPadded DEF KeyInv
  <2>4. DecodeString(value.bytes) = DecodeString(Buffer)
        /\ DecodeStrings(value.bytes) = DecodeStrings(Buffer)
    BY <2>3, PaddedString, PaddedStrings
  <2>5. reading \in StringTypes => result'.data = DecodeString(Buffer)
    BY <2>2 DEF Decoded
  <2>6. reading = "REG_MULTI_SZ" => result'.data = DecodeStrings(Buffer)
    BY <2>2 DEF Decoded, StringTypes
  <2> QED
    BY <2>4, <2>5, <2>6
<1> QED
  BY <1>1, KeyInvariance, PTL DEF Spec, ReadIsExact
=============================================================================
