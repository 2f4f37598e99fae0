------------------------- MODULE EnumerationProofs -------------------------
(* Theorems about Enumeration, for any entries, sizes of the buffers and     *)
(* lengths of names, and the lemmas on sets and sequences they rest on.      *)
EXTENDS Enumeration, FiniteSetTheorems, SequenceTheorems, TLAPS

-----------------------------------------------------------------------------
(* Sets of numbers. Induction takes the form of a least counterexample.      *)

LEMMA LeastNumber ==
  ASSUME NEW S \in SUBSET Nat, S # {}
  PROVE  \E x \in S : \A y \in S : x <= y
<1>1. PICK x \in S : \A y \in S : ~(<<y, x>> \in OpToRel(<, Nat))
  BY NatLessThanWellFounded, WFMin
<1>2. ASSUME NEW y \in S PROVE x <= y
  <2>1. ~(y < x)
    BY <1>1, x \in Nat, y \in Nat DEF OpToRel
  <2> QED
    BY <2>1
<1> QED
  BY <1>2

LEMMA MinIsLeast ==
  ASSUME NEW S \in SUBSET Nat, S # {}
  PROVE  Min(S) \in S /\ \A y \in S : Min(S) <= y
BY LeastNumber DEF Min

(* A set of n numbers can be listed in order: the least of them comes first, *)
(* and the others can be listed already.                                     *)
ListsInOrder(S, s) ==
  /\ s \in [1 .. Cardinality(S) -> S]
  /\ \A i, j \in 1 .. Cardinality(S) : i < j => s[i] < s[j]

LEMMA LeastFirst ==
  ASSUME NEW S \in SUBSET Nat, IsFiniteSet(S), S # {}, NEW t, ListsInOrder(S \ {Min(S)}, t)
  PROVE  \E s : ListsInOrder(S, s)
<1> DEFINE m == Min(S)
           R == S \ {m}
           n == Cardinality(S)
           s == [i \in 1 .. n |-> IF i = 1 THEN m ELSE t[i - 1]]
<1>1. m \in S /\ \A y \in S : m <= y
  BY MinIsLeast
<1>2. n \in Nat /\ n # 0 /\ Cardinality(R) = n - 1
  BY <1>1, FS_CardinalityType, FS_EmptySet, FS_RemoveElement
<1>3. t \in [1 .. n - 1 -> R] /\ \A i, j \in 1 .. n - 1 : i < j => t[i] < t[j]
  BY <1>2 DEF ListsInOrder
<1> HIDE DEF m, n, R
<1>4. \A i \in 1 .. n : i # 1 => i - 1 \in 1 .. n - 1
  BY <1>2
<1>5. \A i \in 1 .. n : s[i] = IF i = 1 THEN m ELSE t[i - 1]
  OBVIOUS
<1>6. \A i \in 1 .. n : i # 1 => s[i] \in R
  BY <1>3, <1>4, <1>5
<1>7. \A x \in R : x \in S /\ x \in Nat /\ m < x
  <2>1. m \in Nat
    BY <1>1
  <2> QED
    BY <1>1, <2>1 DEF R
<1>8. s \in [1 .. n -> S]
  BY <1>1, <1>6, <1>7
<1>9. ASSUME NEW i \in 1 .. n, NEW j \in 1 .. n, i < j PROVE s[i] < s[j]
  <2>1. j # 1
    BY <1>2, <1>9
  <2>2. CASE i = 1
    BY <1>5, <1>6, <1>7, <2>1, <2>2
  <2>3. CASE i # 1
    <3>1. i - 1 \in 1 .. n - 1 /\ j - 1 \in 1 .. n - 1 /\ i - 1 < j - 1
      BY <1>2, <1>4, <1>9, <2>1, <2>3
    <3>2. t[i - 1] < t[j - 1]
      BY <1>3, <3>1
    <3> QED
      BY <1>5, <2>1, <2>3, <3>2
  <2> QED
    BY <2>2, <2>3
<1> HIDE DEF s
<1> QED
  BY <1>8, <1>9 DEF ListsInOrder, n

LEMMA CanBeListed ==
  ASSUME NEW S \in SUBSET Nat, IsFiniteSet(S)
  PROVE  \E s : ListsInOrder(S, s)
<1> DEFINE Bad == {n \in Nat : \E T \in SUBSET Nat :
                     IsFiniteSet(T) /\ Cardinality(T) = n /\ ~\E s : ListsInOrder(T, s)}
<1>1. ASSUME Bad # {} PROVE FALSE
  <2>1. PICK n \in Bad : \A k \in Bad : n <= k
    BY <1>1, LeastNumber
  <2>2. PICK T \in SUBSET Nat :
          IsFiniteSet(T) /\ Cardinality(T) = n /\ ~\E s : ListsInOrder(T, s)
    BY <2>1
  <2>3. CASE T = {}
    <3>1. Cardinality(T) = 0
      BY <2>3, FS_EmptySet
    <3>2. ListsInOrder(T, <<>>)
      BY <2>3, <3>1 DEF ListsInOrder
    <3> QED
      BY <2>2, <3>2
  <2>4. CASE T # {}
    <3>1. Min(T) \in T
      BY <2>4, MinIsLeast
    <3>2. IsFiniteSet(T \ {Min(T)}) /\ Cardinality(T \ {Min(T)}) = n - 1
      BY <2>2, <3>1, FS_RemoveElement
    <3>3. n \in Nat /\ n # 0
      BY <2>2, <2>4, FS_EmptySet
    <3>4. n - 1 \in Nat /\ ~(n <= n - 1)
      BY <3>3
    <3>5. n - 1 \notin Bad
      BY <2>1, <3>4
    <3>6. \E t : ListsInOrder(T \ {Min(T)}, t)
      BY <3>2, <3>4, <3>5
    <3> QED
      BY <2>2, <2>4, <3>6, LeastFirst
  <2> QED
    BY <2>3, <2>4
<1>2. Cardinality(S) \in Nat
  BY FS_CardinalityType
<1> QED
  BY <1>1, <1>2

LEMMA ListIs ==
  ASSUME NEW S \in SUBSET Nat, IsFiniteSet(S), NEW s, ListsInOrder(S, s)
  PROVE  /\ s \in Seq(S) /\ Len(s) = Cardinality(S) /\ IsInjective(s) /\ ToSet(s) = S
         /\ \A i \in 1 .. Cardinality(S) : Cardinality({x \in S : x <= s[i]}) = i
<1> DEFINE n == Cardinality(S)
<1>1. n \in Nat
  BY FS_CardinalityType
<1>2. s \in [1 .. n -> S] /\ \A i, j \in 1 .. n : i < j => s[i] < s[j]
  BY DEF ListsInOrder
<1>3. ASSUME NEW i \in 1 .. n, NEW j \in 1 .. n
      PROVE  (s[i] = s[j] => i = j) /\ (s[j] <= s[i] <=> j <= i)
  <2>1. s[i] \in Nat /\ s[j] \in Nat
    BY <1>2
  <2>2. i < j \/ i = j \/ j < i
    BY <1>1
  <2> HIDE DEF n
  <2> QED
    BY <1>1, <1>2, <2>1, <2>2
<1>4. IsInjective(s)
  BY <1>2, <1>3 DEF IsInjective
<1>5. s \in Surjection(1 .. n, S)
  <2>1. s \in Injection(1 .. n, S)
    BY <1>2, <1>4 DEF Injection
  <2>2. Cardinality(1 .. n) = n
    BY <1>1, FS_Interval
  <2> QED
    BY <2>1, <2>2, FS_Injection
<1>6. s \in Seq(S) /\ Len(s) = n
  BY <1>1, <1>2, LenProperties
<1>7. ToSet(s) = S
  BY <1>2, <1>5, <1>6 DEF Surjection, ToSet
<1>8. ASSUME NEW i \in 1 .. n PROVE Cardinality({x \in S : x <= s[i]}) = i
  <2> DEFINE D == 1 .. i
             L == {x \in S : x <= s[i]}
             f == [j \in D |-> s[j]]
  <2>1. i \in Nat /\ D \subseteq 1 .. n /\ \A j \in 1 .. n : j <= i <=> j \in D
    BY <1>1
  <2>2. L = {s[j] : j \in D}
    BY <1>2, <1>3, <1>6, <1>7, <2>1 DEF ToSet
  <2>3. f \in [D -> L] /\ (\A x \in L : \E j \in D : f[j] = x) /\ \A j, k \in D : f[j] = f[k] => j = k
    BY <1>3, <2>1, <2>2
  <2>4. f \in Injection(D, L) /\ f \in Surjection(D, L)
    BY <2>3 DEF Injection, Surjection, IsInjective
  <2>5. IsFiniteSet(D) /\ Cardinality(D) = i
    BY <2>1, FS_Interval
  <2> QED
    BY <2>4, <2>5, FS_Surjection
<1> QED
  BY <1>4, <1>6, <1>7, <1>8

(* There is one such list. *)
LEMMA InOrderIs ==
  ASSUME NEW S \in SUBSET Nat, IsFiniteSet(S), NEW s, ListsInOrder(S, s)
  PROVE  InOrder(S) = s
<1> DEFINE n == Cardinality(S)
<1>1. /\ s \in Seq(S) /\ Len(s) = n /\ ToSet(s) = S /\ n \in Nat
      /\ \A i \in 1 .. n : Cardinality({x \in S : x <= s[i]}) = i
  BY ListIs, FS_CardinalityType
<1>2. s \in [1 .. n -> S]
  BY DEF ListsInOrder
<1>3. ASSUME NEW i \in 1 .. n PROVE Nth(S, i) = s[i]
  <2>1. \E x \in S : Cardinality({y \in S : y <= x}) = i
    BY <1>1, <1>2
  <2>2. Nth(S, i) \in S /\ Cardinality({y \in S : y <= Nth(S, i)}) = i
    BY <2>1 DEF Nth
  <2>3. PICK k \in 1 .. n : s[k] = Nth(S, i)
    BY <1>1, <2>2 DEF ToSet
  <2> QED
    BY <1>1, <2>2, <2>3
<1> QED
  BY <1>2, <1>3 DEF InOrder

LEMMA InOrderLists ==
  ASSUME NEW S \in SUBSET Nat, IsFiniteSet(S)
  PROVE  /\ ListsInOrder(S, InOrder(S))
         /\ InOrder(S) \in Seq(S) /\ Len(InOrder(S)) = Cardinality(S)
         /\ IsInjective(InOrder(S)) /\ ToSet(InOrder(S)) = S
<1>1. PICK s : ListsInOrder(S, s)
  BY CanBeListed
<1>2. InOrder(S) = s
  BY <1>1, InOrderIs
<1> QED
  BY <1>1, <1>2, ListIs

(* How many numbers of a set come before one.                                *)
Before(S, e) == {x \in S : x < e}
Rank(S, e) == Cardinality(Before(S, e))

(* What is listed at place i has i - 1 numbers before it.                    *)
LEMMA RankOfListed ==
  ASSUME NEW S \in SUBSET Nat, IsFiniteSet(S), NEW i \in 1 .. Cardinality(S)
  PROVE  InOrder(S)[i] \in S /\ Rank(S, InOrder(S)[i]) = i - 1
<1> DEFINE s == InOrder(S)
           n == Cardinality(S)
           D == 1 .. i - 1
           f == [j \in D |-> s[j]]
<1>1. n \in Nat /\ i \in 1 .. n /\ i \in Nat /\ i - 1 \in Nat
  BY FS_CardinalityType
<1>2. /\ s \in [1 .. n -> S] /\ ToSet(s) = S /\ IsInjective(s)
      /\ \A j, k \in 1 .. n : j < k => s[j] < s[k]
  BY InOrderLists DEF ListsInOrder
<1> HIDE DEF s, n
<1>3. D \subseteq 1 .. n /\ \A j \in 1 .. n : j < i <=> j \in D
  BY <1>1
<1>4. ASSUME NEW j \in 1 .. n PROVE s[j] < s[i] <=> j < i
  <2>1. s[i] \in Nat /\ s[j] \in Nat
    BY <1>1, <1>2
  <2>2. j < i \/ j = i \/ i < j
    BY <1>1
  <2> QED
    BY <1>1, <1>2, <2>1, <2>2
<1>5. Before(S, s[i]) = {s[j] : j \in D}
  BY <1>2, <1>3, <1>4 DEF Before, ToSet
<1>6. f \in [D -> Before(S, s[i])] /\ \A x \in Before(S, s[i]) : \E j \in D : f[j] = x
  BY <1>5
<1>7. \A j, k \in D : f[j] = f[k] => j = k
  BY <1>2, <1>3 DEF IsInjective
<1>8. f \in Injection(D, Before(S, s[i])) /\ f \in Surjection(D, Before(S, s[i]))
  BY <1>6, <1>7 DEF Injection, Surjection, IsInjective
<1>9. IsFiniteSet(D) /\ Cardinality(D) = i - 1
  BY <1>1, FS_Interval
<1>10. Cardinality(Before(S, s[i])) = Cardinality(D)
  BY <1>8, <1>9, FS_Surjection
<1> QED
  BY <1>1, <1>2, <1>9, <1>10 DEF Rank, s

LEMMA RankIsBounded ==
  ASSUME NEW S \in SUBSET Nat, IsFiniteSet(S), NEW e \in S
  PROVE  Rank(S, e) \in Nat /\ Rank(S, e) < Cardinality(S)
<1>1. PICK i \in 1 .. Cardinality(S) : InOrder(S)[i] = e
  BY InOrderLists DEF ListsInOrder, ToSet
<1>2. Rank(S, e) = i - 1 /\ Cardinality(S) \in Nat
  BY <1>1, RankOfListed, FS_CardinalityType
<1> QED
  BY <1>2

(* Two numbers of a set do not have the same rank.                           *)
LEMMA RankTells ==
  ASSUME NEW S \in SUBSET Nat, IsFiniteSet(S), NEW e \in S,
         NEW i \in 1 .. Cardinality(S), Rank(S, e) = i - 1
  PROVE  e = InOrder(S)[i]
<1>1. PICK j \in 1 .. Cardinality(S) : InOrder(S)[j] = e
  BY InOrderLists DEF ListsInOrder, ToSet
<1>2. Rank(S, e) = j - 1 /\ Cardinality(S) \in Nat
  BY <1>1, RankOfListed, FS_CardinalityType
<1>3. i = j
  BY <1>2
<1> QED
  BY <1>1, <1>3

LEMMA RankGrows ==
  ASSUME NEW S, NEW T, S \subseteq T, IsFiniteSet(T), NEW e
  PROVE  Rank(S, e) <= Rank(T, e) /\ Rank(S, e) \in Nat /\ Rank(T, e) \in Nat
<1>1. Before(S, e) \subseteq Before(T, e) /\ Before(T, e) \subseteq T
  BY DEF Before
<1>2. IsFiniteSet(Before(T, e))
  BY <1>1, FS_Subset
<1> QED
  BY <1>1, <1>2, FS_Subset, FS_CardinalityType DEF Rank

LEMMA MaxIsGreatest ==
  ASSUME NEW S \in SUBSET Nat, IsFiniteSet(S), S # {}
  PROVE  Max(S) \in S /\ \A y \in S : Max(S) >= y
<1> DEFINE s == InOrder(S)
           n == Cardinality(S)
<1>1. n \in Nat /\ n # 0
  BY FS_CardinalityType, FS_EmptySet
<1>2. /\ s \in [1 .. n -> S] /\ ToSet(s) = S
      /\ \A j, k \in 1 .. n : j < k => s[j] < s[k]
  BY InOrderLists DEF ListsInOrder
<1> HIDE DEF s, n
<1>3. n \in 1 .. n /\ s[n] \in S
  BY <1>1, <1>2
<1>4. ASSUME NEW y \in S PROVE s[n] >= y
  <2>1. PICK j \in 1 .. n : s[j] = y
    BY <1>2 DEF ToSet
  <2>2. j = n \/ j < n
    BY <1>1
  <2>3. s[n] \in Nat /\ y \in Nat
    BY <1>3
  <2> QED
    BY <1>2, <1>3, <2>1, <2>2, <2>3
<1> QED
  BY <1>3, <1>4 DEF Max

-----------------------------------------------------------------------------
(* Sequences, and the sets of what is in them.                               *)

LEMMA EmptyList == ToSet(<<>>) = {} /\ IsInjective(<<>>) /\ \A S : <<>> \in Seq(S)
BY EmptySeq DEF ToSet, IsInjective

LEMMA OneInList ==
  ASSUME NEW S, NEW e \in S
  PROVE  <<e>> \in Seq(S) /\ <<e>> # <<>> /\ ToSet(<<e>>) = {e} /\ IsInjective(<<e>>)
BY DEF ToSet, IsInjective

LEMMA AppendToList ==
  ASSUME NEW S, NEW s \in Seq(S), NEW e \in S
  PROVE  /\ Append(s, e) \in Seq(S) /\ ToSet(Append(s, e)) = ToSet(s) \cup {e}
         /\ IsInjective(s) /\ e \notin ToSet(s) => IsInjective(Append(s, e))
<1> DEFINE t == Append(s, e)
           n == Len(s)
<1>1. n \in Nat /\ DOMAIN s = 1 .. n
  BY LenProperties
<1>2. t \in Seq(S) /\ DOMAIN t = 1 .. n + 1 /\ t[n + 1] = e /\ \A i \in 1 .. n : t[i] = s[i]
  BY AppendProperties, LenProperties
<1> HIDE DEF t, n
<1>3. \A i : i \in 1 .. n + 1 <=> i \in 1 .. n \/ i = n + 1
  BY <1>1
<1>4. ToSet(t) = ToSet(s) \cup {e}
  BY <1>1, <1>2, <1>3 DEF ToSet
<1>5. ASSUME IsInjective(s), e \notin ToSet(s) PROVE IsInjective(t)
  BY <1>1, <1>2, <1>3, <1>5 DEF IsInjective, ToSet
<1> QED
  BY <1>2, <1>4, <1>5 DEF t

LEMMA HeadOfList ==
  ASSUME NEW S, NEW s \in Seq(S), s # <<>>
  PROVE  /\ Head(s) \in S /\ Tail(s) \in Seq(S) /\ Len(Tail(s)) = Len(s) - 1
         /\ Head(s) \in ToSet(s) /\ ToSet(s) = {Head(s)} \cup ToSet(Tail(s))
         /\ IsInjective(s) => IsInjective(Tail(s)) /\ Head(s) \notin ToSet(Tail(s))
<1> DEFINE t == Tail(s)
           n == Len(s)
<1>1. n \in Nat \ {0} /\ DOMAIN s = 1 .. n /\ Head(s) = s[1]
  BY EmptySeq, LenProperties
<1>2. /\ Head(s) \in S /\ t \in Seq(S) /\ Len(t) = n - 1
      /\ DOMAIN t = 1 .. n - 1 /\ \A i \in 1 .. n - 1 : t[i] = s[i + 1]
  BY HeadTailProperties, LenProperties
<1> HIDE DEF t, n
<1>3. 1 \in 1 .. n /\ \A i \in 1 .. n - 1 : i + 1 \in 1 .. n /\ i + 1 # 1
  BY <1>1
<1>4. \A i \in 1 .. n : i = 1 \/ \E j \in 1 .. n - 1 : i = j + 1
  <2>1. ASSUME NEW i \in 1 .. n, i # 1 PROVE i - 1 \in 1 .. n - 1 /\ i = (i - 1) + 1
    BY <1>1, <2>1
  <2> QED
    BY <2>1
<1>5. \A i, j \in 1 .. n - 1 : i + 1 = j + 1 => i = j
  BY <1>1
<1>6. ToSet(s) = {Head(s)} \cup ToSet(t)
  <2>1. ASSUME NEW i \in 1 .. n PROVE s[i] \in {Head(s)} \cup {t[j] : j \in 1 .. n - 1}
    <3>1. CASE i = 1
      BY <1>1, <3>1
    <3>2. CASE i # 1
      <4>1. PICK j \in 1 .. n - 1 : i = j + 1
        BY <1>4, <3>2
      <4> QED
        BY <1>2, <4>1
    <3> QED
      BY <3>1, <3>2
  <2>2. ASSUME NEW j \in 1 .. n - 1 PROVE t[j] \in {s[i] : i \in 1 .. n}
    BY <1>2, <1>3
  <2>3. Head(s) \in {s[i] : i \in 1 .. n}
    BY <1>1, <1>3
  <2>4. ToSet(s) = {s[i] : i \in 1 .. n} /\ ToSet(t) = {t[j] : j \in 1 .. n - 1}
    BY <1>1, <1>2 DEF ToSet
  <2>5. ToSet(s) \subseteq {Head(s)} \cup ToSet(t)
    BY <2>1, <2>4
  <2>6. {Head(s)} \cup ToSet(t) \subseteq ToSet(s)
    BY <2>2, <2>3, <2>4
  <2> QED
    BY <2>5, <2>6
<1>7. ASSUME IsInjective(s) PROVE IsInjective(t) /\ Head(s) \notin ToSet(t)
  <2>1. ASSUME NEW i \in 1 .. n - 1, NEW j \in 1 .. n - 1, t[i] = t[j] PROVE i = j
    <3>1. s[i + 1] = s[j + 1] /\ i + 1 \in 1 .. n /\ j + 1 \in 1 .. n
      BY <1>2, <1>3, <2>1
    <3>2. i + 1 = j + 1
      BY <1>1, <1>7, <3>1 DEF IsInjective
    <3> QED
      BY <1>5, <3>2
  <2>2. ASSUME NEW i \in 1 .. n - 1 PROVE t[i] # Head(s)
    <3>1. t[i] = s[i + 1] /\ i + 1 \in 1 .. n /\ i + 1 # 1 /\ 1 \in 1 .. n
      BY <1>2, <1>3
    <3> QED
      BY <1>1, <1>7, <3>1 DEF IsInjective
  <2> QED
    BY <1>2, <2>1, <2>2 DEF IsInjective, ToSet
<1> QED
  BY <1>2, <1>6, <1>7 DEF t, n

LEMMA PrefixOfList ==
  ASSUME NEW S, NEW s \in Seq(S), NEW n \in 0 .. Len(s)
  PROVE  /\ SubSeq(s, 1, n) \in Seq(S) /\ Len(SubSeq(s, 1, n)) = n
         /\ ToSet(SubSeq(s, 1, n)) \subseteq ToSet(s)
         /\ IsInjective(s) => IsInjective(SubSeq(s, 1, n))
<1> DEFINE t == SubSeq(s, 1, n)
<1>1. Len(s) \in Nat /\ DOMAIN s = 1 .. Len(s) /\ \A i \in 1 .. n : i \in DOMAIN s /\ s[i] \in S
  BY LenProperties, ElementOfSeq
<1>2. t \in Seq(S) /\ Len(t) = n /\ DOMAIN t = 1 .. n /\ \A i \in 1 .. n : t[i] = s[i]
  BY <1>1, SubSeqProperties, LenProperties
<1> HIDE DEF t
<1>3. ToSet(t) \subseteq ToSet(s) /\ (IsInjective(s) => IsInjective(t))
  BY <1>1, <1>2 DEF ToSet, IsInjective
<1> QED
  BY <1>2, <1>3 DEF t

-----------------------------------------------------------------------------
(* The operators of the walks.                                               *)

LEMMA EntriesAre ==
  /\ Entries \subseteq Nat \ {0} /\ Cardinality(Entries) \in Nat
  /\ \A S : S \subseteq Entries =>
       /\ S \in SUBSET Nat /\ IsFiniteSet(S)
       /\ Cardinality(S) \in Nat /\ Cardinality(S) <= Cardinality(Entries)
BY EnumerationAssumption, FS_Subset, FS_CardinalityType

LEMMA LargestEntry ==
  /\ Max(Entries \cup {0}) \in Nat
  /\ \A e \in Entries : e <= Max(Entries \cup {0})
  /\ Cardinality(Entries) <= Max(Entries \cup {0})
<1> DEFINE m == Max(Entries \cup {0})
<1>1. Entries \cup {0} \in SUBSET Nat /\ Entries \cup {0} # {} /\ IsFiniteSet(Entries \cup {0})
  BY EnumerationAssumption, FS_AddElement
<1>2. m \in Entries \cup {0} /\ \A e \in Entries \cup {0} : m >= e
  BY <1>1, MaxIsGreatest
<1>3. m \in Nat /\ \A e \in Entries : e <= m
  BY <1>1, <1>2
<1> HIDE DEF m
<1>4. Entries \in SUBSET (1 .. m)
  BY <1>3, EnumerationAssumption
<1>5. IsFiniteSet(1 .. m) /\ Cardinality(1 .. m) = m
  BY <1>3, FS_Interval
<1>6. Cardinality(Entries) <= m
  BY <1>4, <1>5, FS_Subset
<1> QED
  BY <1>3, <1>6 DEF m

LEMMA PidsAre ==
  ASSUME table \subseteq Entries
  PROVE  /\ Pids \in Seq(Entries) /\ Len(Pids) <= Capacity
         /\ IsInjective(Pids) /\ ToSet(Pids) \subseteq table
<1> DEFINE all == InOrder(table)
           n == Min({Len(all), Capacity})
<1>1. all \in Seq(table) /\ IsInjective(all) /\ ToSet(all) = table /\ Len(all) \in Nat
  <2>1. table \in SUBSET Nat /\ IsFiniteSet(table) /\ Cardinality(table) \in Nat
    BY EntriesAre
  <2> QED
    BY <2>1, InOrderLists
<1>2. all \in Seq(Entries)
  BY <1>1, SeqMonotonic
<1>3. n \in {Len(all), Capacity} /\ n <= Len(all) /\ n <= Capacity
  BY <1>1, EnumerationAssumption, MinIsLeast
<1>4. n \in 0 .. Len(all)
  BY <1>1, <1>3, EnumerationAssumption
<1> QED
  BY <1>1, <1>2, <1>3, <1>4, PrefixOfList DEF Pids

(* The name at the index is one that as many others come before.             *)
LEMMA CurrentIs ==
  ASSUME table \subseteq Entries, last \in Nat, last < Cardinality(table)
  PROVE  /\ Current \in table /\ Rank(table, Current) = last
         /\ \A e \in table : Rank(table, e) = last => e = Current
<1>1. table \in SUBSET Nat /\ IsFiniteSet(table) /\ Cardinality(table) \in Nat
  BY EntriesAre
<1>2. last + 1 \in 1 .. Cardinality(table) /\ (last + 1) - 1 = last
  BY <1>1
<1> QED
  BY <1>1, <1>2, RankOfListed, RankTells DEF Current

LEMMA LongestIs ==
  ASSUME table \subseteq Entries
  PROVE  Longest \in Nat
<1> DEFINE f == [n \in table |-> Length[n]]
           S == {Length[n] : n \in table}
<1>1. IsFiniteSet(table)
  BY EntriesAre
<1>2. S \in SUBSET Nat
  BY EnumerationAssumption
<1>3. f \in Surjection(table, S)
  BY DEF Surjection
<1>4. IsFiniteSet(S)
  BY <1>1, <1>3, FS_Surjection
<1>5. S \cup {0} \in SUBSET Nat /\ S \cup {0} # {} /\ IsFiniteSet(S \cup {0})
  BY <1>2, <1>4, FS_AddElement
<1> HIDE DEF S
<1>6. Max(S \cup {0}) \in Nat
  BY <1>5, MaxIsGreatest
<1> QED
  BY <1>6 DEF Longest, S

LEMMA LeastOfTable ==
  ASSUME NEW S, S \subseteq Entries, S # {}
  PROVE  Min(S) \in S /\ \A e \in S : Min(S) <= e
BY EntriesAre, MinIsLeast

-----------------------------------------------------------------------------
(* The inductive invariant.                                                  *)

(* Which step belongs to which walk, and what is empty at it.                *)
StepsInv ==
  /\ step = "none" => returned = <<>> /\ list = <<>> /\ copy = <<>> /\ shifted = {}
  /\ step = "query" => kind = "adapters" /\ returned = <<>> /\ list = <<>>
  /\ step = "callback" => kind = "names"
  /\ step = "found" => kind = "process"
  /\ step = "end" \/ kind = "names" => list = <<>>
  /\ copy # <<>> => kind = "adapters" /\ step \in {"walk", "end"}
  /\ shifted # {} => kind = "names"

(* What there is was seen, and so was what the caller has or will be given   *)
(* without another look at it; what stayed still matches.                    *)
SeenInv ==
  /\ ToSet(returned) \subseteq seen
  /\ step # "none" => matching \subseteq seen
  /\ step # "none" /\ AlwaysMatching(kind) => table \subseteq seen
  /\ step # "none" /\ ~AlwaysMatching(kind) => stayed \subseteq matching
  /\ kind = "files" => ToSet(list) \subseteq seen

(* The handle of FindNextFileW stands at or behind all that it found.        *)
FilesInv ==
  kind = "files" /\ step = "walk" => \A e \in ToSet(returned) \cup ToSet(list) : e <= last

(* The copy is divided into what was handed out and what is left.            *)
AdaptersInv ==
  kind = "adapters" /\ step \in {"walk", "end"} =>
    /\ IsInjective(copy) /\ ToSet(copy) \subseteq seen /\ stayed \subseteq ToSet(copy)
    /\ ToSet(returned) \cup ToSet(list) = ToSet(copy)

(* Each entry that stayed was handed out, will be, is ahead of the handle,   *)
(* or was given up.                                                          *)
AccountedInv ==
  kind # "names" /\ step \in {"walk", "end", "found"} => \A e \in stayed :
    \/ e \in overlooked \cup ToSet(returned) \cup ToSet(list)
    \/ kind = "files" /\ step = "walk" /\ e > last

OnceInv ==
  /\ IsInjective(list) /\ ToSet(list) \cap ToSet(returned) = {}
  /\ "added" \in shifted \/ IsInjective(returned)

(* The index has passed a name that fewer others come before. Others go only *)
(* if "removed": what it has passed was reported. Others come only if        *)
(* "added": it has passed all that was reported.                             *)
PassedBy(e) ==
  Rank(table, e) < last \/ (step = "callback" /\ Rank(table, e) = last)
NamesInv ==
  kind = "names" /\ step # "none" =>
    /\ last <= Cardinality(Entries) /\ (step = "callback" => last < Cardinality(Entries))
    /\ "removed" \notin shifted => \A e \in stayed : PassedBy(e) => e \in ToSet(returned)
    /\ "added" \notin shifted => \A e \in ToSet(returned) \cap table : PassedBy(e)
    /\ step = "end" /\ "removed" \notin shifted => stayed \subseteq ToSet(returned)

WalkInv ==
  /\ TypeOK /\ StepsInv /\ SeenInv /\ FilesInv /\ AdaptersInv /\ AccountedInv
  /\ OnceInv /\ NamesInv

LEMMA StepsStep == WalkInv /\ [Next]_vars => StepsInv'
<1> SUFFICES ASSUME WalkInv, [Next]_vars PROVE StepsInv'
  OBVIOUS
<1>1. ASSUME NEW e \in Entries, EntryRemoved(e) PROVE StepsInv'
  BY <1>1 DEF EntryRemoved, Shifted, WalkInv, system, walk, history, StepsInv
<1>2. ASSUME NEW e \in Entries, NEW matches \in BOOLEAN, EntryAdded(e, matches) PROVE StepsInv'
  BY <1>2 DEF EntryAdded, Shifted, WalkInv, system, walk, history, StepsInv
<1>3. CASE BeginFiles
  BY <1>3
     DEF BeginFiles, Begin, Cached, PassesFilters, WalkInv, system, walk, history, StepsInv
<1>4. CASE NoHandle
  BY <1>4 DEF NoHandle, Begin, WalkInv, system, walk, history, StepsInv
<1>5. CASE NextCached
  BY <1>5 DEF NextCached, HandOut, WalkInv, system, walk, history, StepsInv
<1>6. CASE NextFound
  BY <1>6
     DEF NextFound, HandOut, PassesFilters, MayFindMore, WalkInv, system, walk, history,
         StepsInv
<1>7. CASE Exhausted
  BY <1>7 DEF Exhausted, WalkInv, system, walk, history, StepsInv
<1>8. CASE BeginAdapters
  BY <1>8 DEF BeginAdapters, Begin, WalkInv, system, walk, history, StepsInv
<1>9. CASE QueryOverflows
  BY <1>9 DEF QueryOverflows, RoomNeeded, WalkInv, system, walk, history, StepsInv
<1>10. CASE QuerySucceeds
  BY <1>10 DEF QuerySucceeds, WalkInv, system, walk, history, StepsInv
<1>11. CASE NextAdapter
  BY <1>11 DEF NextAdapter, HandOut, WalkInv, system, walk, history, StepsInv
<1>12. CASE NoMoreAdapters
  BY <1>12 DEF NoMoreAdapters, WalkInv, system, walk, history, StepsInv
<1>13. CASE Reset
  BY <1>13 DEF Reset, WalkInv, system, walk, history, StepsInv
<1>14. ASSUME NEW k \in {"process", "processes"}, BeginProcesses(k) PROVE StepsInv'
  BY <1>14 DEF BeginProcesses, Begin, WalkInv, system, walk, history, StepsInv
<1>15. CASE SkipProcess
  BY <1>15 DEF SkipProcess, WalkInv, system, walk, history, StepsInv
<1>16. CASE LookAtProcess
  BY <1>16 DEF LookAtProcess, HandOut, WalkInv, system, walk, history, StepsInv
<1>17. CASE NoMoreProcesses
  BY <1>17 DEF NoMoreProcesses, WalkInv, system, walk, history, StepsInv
<1>18. CASE BeginNames
  BY <1>18 DEF BeginNames, Begin, WalkInv, system, walk, history, StepsInv
<1>19. CASE NameFound
  BY <1>19 DEF NameFound, AskForName, HandOut, WalkInv, system, walk, history, StepsInv
<1>20. CASE MoreData
  BY <1>20 DEF MoreData, AskForName, Enlarged, WalkInv, system, walk, history, StepsInv
<1>21. CASE NoMoreItems
  BY <1>21 DEF NoMoreItems, AskForName, WalkInv, system, walk, history, StepsInv
<1>22. CASE CallbackContinues
  BY <1>22 DEF CallbackContinues, WalkInv, system, walk, history, StepsInv
<1>23. CASE Drop
  BY <1>23 DEF Drop, WalkInv, system, walk, history, StepsInv
<1>24. CASE UNCHANGED vars
  BY <1>24 DEF WalkInv, vars, system, walk, history, StepsInv
<1> QED
  BY <1>1, <1>2, <1>3, <1>4, <1>5, <1>6, <1>7, <1>8, <1>9, <1>10, <1>11, <1>12, <1>13,
     <1>14, <1>15, <1>16, <1>17,
     <1>18, <1>19, <1>20, <1>21, <1>22, <1>23, <1>24 DEF Next, Query, Enumerate

LEMMA TypeStep == WalkInv /\ [Next]_vars => TypeOK'
<1> SUFFICES ASSUME WalkInv, [Next]_vars PROVE TypeOK'
  OBVIOUS
<1>0. TypeOK /\ StepsInv /\ EnumerationAssumption /\ Max(Entries \cup {0}) \in Nat
     /\ <<>> \in Seq(Entries) /\ Len(<<>>) = 0 /\ Len(list) \in Nat
     /\ Room \in Nat \ {0} /\ Capacity \in Nat \ {0}
  BY EnumerationAssumption, LargestEntry, EmptyList, LenProperties DEF WalkInv, TypeOK
<1>a. \A e \in Entries : Append(returned, e) \in Seq(Entries) /\ e <= Max(Entries \cup {0})
  BY <1>0, AppendToList, LargestEntry DEF TypeOK
<1>b. list # <<>> =>
        Head(list) \in Entries /\ Tail(list) \in Seq(Entries) /\ Len(Tail(list)) = Len(list) - 1
  BY <1>0, HeadOfList DEF TypeOK
<1>c. step = "callback" => last < Cardinality(Entries) /\ last + 1 <= Max(Entries \cup {0})
  BY <1>0, EntriesAre, LargestEntry DEF WalkInv, NamesInv, StepsInv, TypeOK
<1>1. ASSUME NEW e \in Entries, EntryRemoved(e) PROVE TypeOK'
  BY <1>1, <1>0 DEF EntryRemoved, Shifted, TypeOK, Kinds, StepsInv, system, walk, history
<1>2. ASSUME NEW e \in Entries, NEW matches \in BOOLEAN, EntryAdded(e, matches) PROVE TypeOK'
  BY <1>2, <1>0 DEF EntryAdded, Shifted, TypeOK, Kinds, StepsInv, system, walk, history
<1>3. CASE BeginFiles
  <2>1. Min(table) \in Entries /\ Min(table) \in Nat /\ Min(table) <= Max(Entries \cup {0})
    BY <1>3, <1>0, LeastOfTable, EntriesAre, LargestEntry DEF BeginFiles, TypeOK
  <2>2. Cached(Min(table)) \in Seq(Entries)
    BY <1>0, <2>1, OneInList DEF Cached
  <2> QED
    BY <1>3, <1>0, <2>1, <2>2 DEF BeginFiles, Begin, TypeOK, Kinds, StepsInv, system
<1>4. CASE NoHandle
  BY <1>4, <1>0 DEF NoHandle, Begin, TypeOK, Kinds, StepsInv, system, walk, history
<1>5. CASE NextCached
  BY <1>5, <1>0, <1>a, <1>b
     DEF NextCached, HandOut, TypeOK, Kinds, StepsInv, system, walk, history
<1>6. CASE NextFound
  <2>1. Following \subseteq table /\ table \subseteq Entries
    BY <1>0 DEF Following, TypeOK
  <2>2. Min(Following) \in Entries
    BY <1>6, <2>1, LeastOfTable DEF NextFound
  <2>3. Min(Following) \in Nat /\ Append(returned, Min(Following)) \in Seq(Entries)
        /\ Min(Following) <= Max(Entries \cup {0})
    BY <1>a, <2>2, EntriesAre
  <2>4. returned' \in Seq(Entries)
    BY <1>6, <1>0, <2>3 DEF NextFound, HandOut, TypeOK
  <2> QED
    BY <1>6, <1>0, <2>3, <2>4 DEF NextFound, TypeOK, StepsInv, system, history
<1>7. CASE Exhausted
  <2>1. Following \subseteq Entries
    BY <1>0 DEF Following, TypeOK
  <2> QED
    BY <1>7, <1>0, <2>1 DEF Exhausted, TypeOK, StepsInv, system
<1>8. CASE BeginAdapters
  BY <1>8, <1>0 DEF BeginAdapters, Begin, TypeOK, Kinds, StepsInv, system, walk, history
<1>9. CASE QueryOverflows
  <2>1. Cardinality(table) \in Nat /\ Len(copy) \in Nat
    BY <1>0, EntriesAre, LenProperties DEF TypeOK
  <2>2. room' \in Nat \ {0} /\ Len(copy) <= room'
    BY <1>9, <1>0, <2>1 DEF QueryOverflows, RoomNeeded, TypeOK
  <2> QED
    BY <1>9, <1>0, <2>2 DEF QueryOverflows, TypeOK, StepsInv, system, history
<1>10. CASE QuerySucceeds
  BY <1>10, <1>0, EntriesAre, InOrderLists, SeqMonotonic
     DEF QuerySucceeds, TypeOK, Kinds, StepsInv, system, walk, history
<1>11. CASE NextAdapter
  BY <1>11, <1>0, <1>a, <1>b
     DEF NextAdapter, HandOut, TypeOK, Kinds, StepsInv, system, walk, history
<1>12. CASE NoMoreAdapters
  BY <1>12, <1>0 DEF NoMoreAdapters, TypeOK, Kinds, StepsInv, system, walk, history
<1>13. CASE Reset
  BY <1>13, <1>0, EmptyList DEF Reset, TypeOK, Kinds, StepsInv, system, walk, history
<1>14. ASSUME NEW k \in {"process", "processes"}, BeginProcesses(k) PROVE TypeOK'
  <2>1. Pids \in Seq(Entries) /\ Len(Pids) <= Capacity
    BY <1>0, PidsAre DEF TypeOK
  <2>2. stayed' \subseteq table /\ seen' = stayed' /\ overlooked' \subseteq table
        /\ table' = table
    BY <1>14, <1>0 DEF BeginProcesses, Begin, TypeOK, system
  <2>3. kind' \in Kinds /\ copy' = <<>> /\ returned' = <<>> /\ room' = Room
    BY <1>14, <1>0 DEF BeginProcesses, Begin, StepsInv, Kinds
  <2>4. step' = "walk" /\ list' = Pids /\ last' = 0 /\ shifted' = {} /\ matching' = matching
    BY <1>14 DEF BeginProcesses, Begin, system
  <2> QED
    BY <1>0, <2>1, <2>2, <2>3, <2>4 DEF TypeOK
<1>15. CASE SkipProcess
  <2>1. list' \in Seq(Entries) /\ Head(list) \in Entries /\ Len(list') <= Capacity
    BY <1>15, <1>0, <1>b DEF SkipProcess, TypeOK
  <2> QED
    BY <1>15, <1>0, <2>1 DEF SkipProcess, TypeOK, StepsInv, system
<1>16. CASE LookAtProcess
  <2>1. list' \in Seq(Entries) /\ Len(list') <= Capacity
    BY <1>16, <1>0, <1>b DEF LookAtProcess, TypeOK
  <2>2. returned' \in Seq(Entries) /\ step' \in {step, "found"}
    BY <1>16, <1>0, <1>a, <1>b DEF LookAtProcess, HandOut, TypeOK
  <2> QED
    BY <1>16, <1>0, <2>1, <2>2 DEF LookAtProcess, TypeOK, StepsInv, system, history
<1>17. CASE NoMoreProcesses
  BY <1>17, <1>0 DEF NoMoreProcesses, TypeOK, Kinds, StepsInv, system, walk, history
<1>18. CASE BeginNames
  BY <1>18, <1>0, LongestIs
     DEF BeginNames, Begin, TypeOK, Kinds, StepsInv, system, walk, history
<1>19. CASE NameFound
  BY <1>19, <1>0, CurrentIs, <1>a
     DEF NameFound, AskForName, HandOut, TypeOK, Kinds, StepsInv, system, walk, history
<1>20. CASE MoreData
  BY <1>20, <1>0
     DEF MoreData, AskForName, Enlarged, TypeOK, Kinds, StepsInv, system, walk, history
<1>21. CASE NoMoreItems
  BY <1>21, <1>0 DEF NoMoreItems, AskForName, TypeOK, Kinds, StepsInv, system, walk, history
<1>22. CASE CallbackContinues
  BY <1>22, <1>0, <1>c DEF CallbackContinues, TypeOK, Kinds, StepsInv, system, walk, history
<1>23. CASE Drop
  BY <1>23, <1>0 DEF Drop, TypeOK, Kinds, StepsInv, system, walk, history
<1>24. CASE UNCHANGED vars
  BY <1>24 DEF WalkInv, vars, system, walk, history, TypeOK
<1> QED
  BY <1>1, <1>2, <1>3, <1>4, <1>5, <1>6, <1>7, <1>8, <1>9, <1>10, <1>11, <1>12, <1>13,
     <1>14, <1>15, <1>16, <1>17,
     <1>18, <1>19, <1>20, <1>21, <1>22, <1>23, <1>24 DEF Next, Query, Enumerate

(* What handing out, dropping and beginning anew do to the lists.            *)
LEMMA HandOutAppends ==
  ASSUME TypeOK, NEW e \in Entries, HandOut(e)
  PROVE  /\ ToSet(returned') = ToSet(returned) \cup {e}
         /\ IsInjective(returned) /\ e \notin ToSet(returned) => IsInjective(returned')
BY AppendToList DEF TypeOK, HandOut

LEMMA HeadIsTaken ==
  ASSUME TypeOK, list # <<>>
  PROVE  /\ Head(list) \in Entries /\ Head(list) \in ToSet(list)
         /\ ToSet(list) = {Head(list)} \cup ToSet(Tail(list))
         /\ IsInjective(list) => IsInjective(Tail(list)) /\ Head(list) \notin ToSet(Tail(list))
BY HeadOfList DEF TypeOK

LEMMA CachedIs ==
  ASSUME NEW e \in Entries
  PROVE  /\ IsInjective(Cached(e)) /\ ToSet(Cached(e)) = {e} \cap matching
BY OneInList, EmptyList DEF Cached, PassesFilters

LEMMA SeenStep == WalkInv /\ [Next]_vars => SeenInv'
<1> SUFFICES ASSUME WalkInv, [Next]_vars PROVE SeenInv'
  OBVIOUS
<1>0. TypeOK /\ StepsInv /\ SeenInv /\ AdaptersInv /\ ToSet(<<>>) = {} /\ IsInjective(<<>>)
  BY EmptyList DEF WalkInv
<1>1. ASSUME NEW e \in Entries, EntryRemoved(e) PROVE SeenInv'
  BY <1>1, <1>0
     DEF EntryRemoved, Shifted, SeenInv, StepsInv, TypeOK, AlwaysMatching, system, walk,
         history
<1>2. ASSUME NEW e \in Entries, NEW matches \in BOOLEAN, EntryAdded(e, matches) PROVE SeenInv'
  BY <1>2, <1>0
     DEF EntryAdded, Shifted, SeenInv, StepsInv, TypeOK, AlwaysMatching, system, walk,
         history
<1>3. CASE BeginFiles
  <2>1. Min(table) \in Entries
    BY <1>3, <1>0, LeastOfTable DEF BeginFiles, TypeOK
  <2>2. ToSet(list') \subseteq matching
    BY <1>3, <1>0, <2>1, CachedIs DEF BeginFiles
  <2> QED
    BY <1>3, <1>0, <2>2 DEF BeginFiles, Begin, SeenInv, StepsInv, AlwaysMatching, system
<1>4. CASE NoHandle
  BY <1>4, <1>0
     DEF NoHandle, Begin, SeenInv, StepsInv, TypeOK, AlwaysMatching, system, walk, history
<1>5. CASE NextCached
  BY <1>5, <1>0, HeadIsTaken, HandOutAppends
     DEF NextCached, HandOut, SeenInv, StepsInv, TypeOK, AlwaysMatching, system, walk,
         history
<1>6. CASE NextFound
  <2>1. Following \subseteq Entries
    BY <1>0 DEF Following, TypeOK
  <2>2. Min(Following) \in Entries
    BY <1>6, <2>1, LeastOfTable DEF NextFound
  <2>3. matching \subseteq seen
    BY <1>6, <1>0 DEF NextFound, MayFindMore, SeenInv
  <2>4. ToSet(returned') \subseteq seen
    BY <1>6, <1>0, <2>2, <2>3, HandOutAppends DEF NextFound, PassesFilters, SeenInv
  <2> QED
    BY <1>6, <1>0, <2>4 DEF NextFound, SeenInv, AlwaysMatching, system, history
<1>7. CASE Exhausted
  BY <1>7, <1>0
     DEF Exhausted, SeenInv, StepsInv, TypeOK, AlwaysMatching, system, walk, history
<1>8. CASE BeginAdapters
  BY <1>8, <1>0
     DEF BeginAdapters, Begin, SeenInv, StepsInv, TypeOK, AlwaysMatching, system, walk,
         history
<1>9. CASE QueryOverflows
  BY <1>9, <1>0
     DEF QueryOverflows, RoomNeeded, SeenInv, StepsInv, TypeOK, AlwaysMatching, system,
         walk, history
<1>10. CASE QuerySucceeds
  BY <1>10, <1>0
     DEF QuerySucceeds, SeenInv, StepsInv, TypeOK, AlwaysMatching, system, walk, history
<1>11. CASE NextAdapter
  <2>1. Head(list) \in seen /\ Head(list) \in Entries
    BY <1>11, <1>0, HeadIsTaken DEF NextAdapter, AdaptersInv
  <2>2. ToSet(returned') \subseteq seen
    BY <1>11, <1>0, <2>1, HandOutAppends DEF NextAdapter, SeenInv
  <2> QED
    BY <1>11, <1>0, <2>2 DEF NextAdapter, SeenInv, AlwaysMatching, system, history
<1>12. CASE NoMoreAdapters
  BY <1>12, <1>0
     DEF NoMoreAdapters, SeenInv, StepsInv, TypeOK, AlwaysMatching, system, walk, history
<1>13. CASE Reset
  BY <1>13, <1>0 DEF Reset, SeenInv, StepsInv, TypeOK, AlwaysMatching, system, walk, history
<1>14. ASSUME NEW k \in {"process", "processes"}, BeginProcesses(k) PROVE SeenInv'
  BY <1>14, <1>0
     DEF BeginProcesses, Begin, SeenInv, StepsInv, TypeOK, AlwaysMatching, system, walk,
         history
<1>15. CASE SkipProcess
  BY <1>15, <1>0
     DEF SkipProcess, SeenInv, StepsInv, TypeOK, AlwaysMatching, system, walk, history
<1>16. CASE LookAtProcess
  <2>1. matching \subseteq seen
    BY <1>16, <1>0 DEF LookAtProcess, SeenInv
  <2>2. ToSet(returned') \subseteq seen
    BY <1>16, <1>0, <2>1, HeadIsTaken, HandOutAppends DEF LookAtProcess, SeenInv
  <2> QED
    BY <1>16, <1>0, <2>2 DEF LookAtProcess, SeenInv, AlwaysMatching, system, history
<1>17. CASE NoMoreProcesses
  BY <1>17, <1>0
     DEF NoMoreProcesses, SeenInv, StepsInv, TypeOK, AlwaysMatching, system, walk, history
<1>18. CASE BeginNames
  BY <1>18, <1>0
     DEF BeginNames, Begin, SeenInv, StepsInv, TypeOK, AlwaysMatching, system, walk, history
<1>19. CASE NameFound
  <2>1. Current \in table /\ Current \in Entries
    BY <1>19, <1>0, CurrentIs DEF NameFound, TypeOK
  <2>2. table \subseteq seen
    BY <1>19, <1>0 DEF NameFound, AskForName, SeenInv, AlwaysMatching
  <2>3. ToSet(returned') \subseteq seen
    BY <1>19, <1>0, <2>1, <2>2, HandOutAppends DEF NameFound, SeenInv
  <2> QED
    BY <1>19, <1>0, <2>3 DEF NameFound, AskForName, SeenInv, AlwaysMatching, system, history
<1>20. CASE MoreData
  BY <1>20, <1>0
     DEF MoreData, AskForName, Enlarged, SeenInv, StepsInv, TypeOK, AlwaysMatching, system,
         walk, history
<1>21. CASE NoMoreItems
  BY <1>21, <1>0
     DEF NoMoreItems, AskForName, SeenInv, StepsInv, TypeOK, AlwaysMatching, system, walk,
         history
<1>22. CASE CallbackContinues
  BY <1>22, <1>0
     DEF CallbackContinues, SeenInv, StepsInv, TypeOK, AlwaysMatching, system, walk, history
<1>23. CASE Drop
  BY <1>23, <1>0 DEF Drop, SeenInv, StepsInv, TypeOK, AlwaysMatching, system, walk, history
<1>24. CASE UNCHANGED vars
  BY <1>24 DEF WalkInv, vars, system, walk, history, SeenInv
<1> QED
  BY <1>1, <1>2, <1>3, <1>4, <1>5, <1>6, <1>7, <1>8, <1>9, <1>10, <1>11, <1>12, <1>13,
     <1>14, <1>15, <1>16, <1>17,
     <1>18, <1>19, <1>20, <1>21, <1>22, <1>23, <1>24 DEF Next, Query, Enumerate

LEMMA FilesStep == WalkInv /\ [Next]_vars => FilesInv'
<1> SUFFICES ASSUME WalkInv, [Next]_vars PROVE FilesInv'
  OBVIOUS
<1>0. TypeOK /\ StepsInv /\ FilesInv /\ ToSet(<<>>) = {} /\ IsInjective(<<>>)
  BY EmptyList DEF WalkInv
<1>1. ASSUME NEW e \in Entries, EntryRemoved(e) PROVE FilesInv'
  BY <1>1, <1>0 DEF EntryRemoved, Shifted, FilesInv, StepsInv, system, walk, history
<1>2. ASSUME NEW e \in Entries, NEW matches \in BOOLEAN, EntryAdded(e, matches) PROVE FilesInv'
  BY <1>2, <1>0 DEF EntryAdded, Shifted, FilesInv, StepsInv, system, walk, history
<1>3. CASE BeginFiles
  <2>1. Min(table) \in Entries /\ Min(table) \in Nat
    BY <1>3, <1>0, LeastOfTable, EntriesAre DEF BeginFiles, TypeOK
  <2>2. ToSet(list') \subseteq {Min(table)} /\ ToSet(returned') = {} /\ last' = Min(table)
    BY <1>3, <1>0, <2>1, CachedIs DEF BeginFiles, Begin, StepsInv
  <2> QED
    BY <2>1, <2>2 DEF FilesInv
<1>4. CASE NoHandle
  BY <1>4, <1>0 DEF NoHandle, Begin, FilesInv, StepsInv, system, walk, history
<1>5. CASE NextCached
  <2>1. ToSet(returned') \cup ToSet(list') \subseteq ToSet(returned) \cup ToSet(list)
    BY <1>5, <1>0, HeadIsTaken, HandOutAppends DEF NextCached
  <2> QED
    BY <1>5, <1>0, <2>1 DEF NextCached, FilesInv
<1>6. CASE NextFound
  <2>1. Following \subseteq Entries /\ \A e \in Following : e > last
    BY <1>0 DEF Following, TypeOK
  <2>2. Min(Following) \in Entries /\ Min(Following) \in Nat /\ Min(Following) > last
    BY <1>6, <2>1, LeastOfTable, EntriesAre DEF NextFound
  <2>3. ToSet(returned') \subseteq ToSet(returned) \cup {Min(Following)} /\ ToSet(list') = {}
    BY <1>6, <1>0, <2>2, HandOutAppends DEF NextFound
  <2>4. \A e \in ToSet(returned) : e \in Entries /\ e \in Nat
    BY <1>0, EntriesAre, LenProperties DEF ToSet, TypeOK
  <2>5. \A e \in ToSet(returned) : e <= last /\ last \in Nat
    BY <1>6, <1>0 DEF NextFound, MayFindMore, FilesInv, TypeOK
  <2>6. \A e \in ToSet(returned) : e <= Min(Following)
    BY <2>2, <2>4, <2>5
  <2>7. last' = Min(Following)
    BY <1>6 DEF NextFound
  <2> QED
    BY <2>2, <2>3, <2>6, <2>7 DEF FilesInv
<1>7. CASE Exhausted
  BY <1>7, <1>0 DEF Exhausted, FilesInv, StepsInv, system, walk, history
<1>8. CASE BeginAdapters
  BY <1>8, <1>0 DEF BeginAdapters, Begin, FilesInv, StepsInv, system, walk, history
<1>9. CASE QueryOverflows
  BY <1>9, <1>0 DEF QueryOverflows, RoomNeeded, FilesInv, StepsInv, system, walk, history
<1>10. CASE QuerySucceeds
  BY <1>10, <1>0 DEF QuerySucceeds, FilesInv, StepsInv, system, walk, history
<1>11. CASE NextAdapter
  BY <1>11, <1>0 DEF NextAdapter, HandOut, FilesInv, StepsInv, system, walk, history
<1>12. CASE NoMoreAdapters
  BY <1>12, <1>0 DEF NoMoreAdapters, FilesInv, StepsInv, system, walk, history
<1>13. CASE Reset
  BY <1>13, <1>0 DEF Reset, FilesInv, StepsInv, system, walk, history
<1>14. ASSUME NEW k \in {"process", "processes"}, BeginProcesses(k) PROVE FilesInv'
  BY <1>14, <1>0 DEF BeginProcesses, Begin, FilesInv, StepsInv, system, walk, history
<1>15. CASE SkipProcess
  BY <1>15, <1>0 DEF SkipProcess, FilesInv, StepsInv, system, walk, history
<1>16. CASE LookAtProcess
  BY <1>16, <1>0 DEF LookAtProcess, HandOut, FilesInv, StepsInv, system, walk, history
<1>17. CASE NoMoreProcesses
  BY <1>17, <1>0 DEF NoMoreProcesses, FilesInv, StepsInv, system, walk, history
<1>18. CASE BeginNames
  BY <1>18, <1>0 DEF BeginNames, Begin, FilesInv, StepsInv, system, walk, history
<1>19. CASE NameFound
  BY <1>19, <1>0
     DEF NameFound, AskForName, HandOut, FilesInv, StepsInv, system, walk, history
<1>20. CASE MoreData
  BY <1>20, <1>0
     DEF MoreData, AskForName, Enlarged, FilesInv, StepsInv, system, walk, history
<1>21. CASE NoMoreItems
  BY <1>21, <1>0 DEF NoMoreItems, AskForName, FilesInv, StepsInv, system, walk, history
<1>22. CASE CallbackContinues
  BY <1>22, <1>0 DEF CallbackContinues, FilesInv, StepsInv, system, walk, history
<1>23. CASE Drop
  BY <1>23, <1>0 DEF Drop, FilesInv, StepsInv, system, walk, history
<1>24. CASE UNCHANGED vars
  BY <1>24 DEF WalkInv, vars, system, walk, history, FilesInv
<1> QED
  BY <1>1, <1>2, <1>3, <1>4, <1>5, <1>6, <1>7, <1>8, <1>9, <1>10, <1>11, <1>12, <1>13,
     <1>14, <1>15, <1>16, <1>17,
     <1>18, <1>19, <1>20, <1>21, <1>22, <1>23, <1>24 DEF Next, Query, Enumerate

LEMMA AdaptersStep == WalkInv /\ [Next]_vars => AdaptersInv'
<1> SUFFICES ASSUME WalkInv, [Next]_vars PROVE AdaptersInv'
  OBVIOUS
<1>0. TypeOK /\ StepsInv /\ AdaptersInv /\ ToSet(<<>>) = {} /\ IsInjective(<<>>) /\ SeenInv
  BY EmptyList DEF WalkInv
<1>1. ASSUME NEW e \in Entries, EntryRemoved(e) PROVE AdaptersInv'
  BY <1>1, <1>0
     DEF EntryRemoved, Shifted, AdaptersInv, StepsInv, SeenInv, AlwaysMatching, system,
         walk, history
<1>2. ASSUME NEW e \in Entries, NEW matches \in BOOLEAN, EntryAdded(e, matches)
      PROVE  AdaptersInv'
  BY <1>2, <1>0
     DEF EntryAdded, Shifted, AdaptersInv, StepsInv, SeenInv, AlwaysMatching, system, walk,
         history
<1>3. CASE BeginFiles
  BY <1>3, <1>0
     DEF BeginFiles, Begin, Cached, PassesFilters, AdaptersInv, StepsInv, SeenInv,
         AlwaysMatching, system, walk, history
<1>4. CASE NoHandle
  BY <1>4, <1>0
     DEF NoHandle, Begin, AdaptersInv, StepsInv, SeenInv, AlwaysMatching, system, walk,
         history
<1>5. CASE NextCached
  BY <1>5, <1>0
     DEF NextCached, HandOut, AdaptersInv, StepsInv, SeenInv, AlwaysMatching, system, walk,
         history
<1>6. CASE NextFound
  BY <1>6, <1>0
     DEF NextFound, HandOut, PassesFilters, MayFindMore, AdaptersInv, StepsInv, SeenInv,
         AlwaysMatching, system, walk, history
<1>7. CASE Exhausted
  BY <1>7, <1>0
     DEF Exhausted, AdaptersInv, StepsInv, SeenInv, AlwaysMatching, system, walk, history
<1>8. CASE BeginAdapters
  BY <1>8, <1>0
     DEF BeginAdapters, Begin, AdaptersInv, StepsInv, SeenInv, AlwaysMatching, system, walk,
         history
<1>9. CASE QueryOverflows
  BY <1>9, <1>0
     DEF QueryOverflows, RoomNeeded, AdaptersInv, StepsInv, SeenInv, AlwaysMatching, system,
         walk, history
<1>10. CASE QuerySucceeds
  <2>1. /\ table \in SUBSET Nat /\ IsFiniteSet(table) /\ kind = "adapters"
        /\ stayed \subseteq table /\ table \subseteq seen /\ ToSet(returned) = {}
    BY <1>10, <1>0, EntriesAre DEF QuerySucceeds, TypeOK, StepsInv, SeenInv, AlwaysMatching
  <2>2. IsInjective(copy') /\ ToSet(copy') = table /\ list' = copy'
    BY <1>10, <2>1, InOrderLists DEF QuerySucceeds
  <2> QED
    BY <1>10, <2>1, <2>2 DEF QuerySucceeds, AdaptersInv, system, history
<1>11. CASE NextAdapter
  <2>1. ToSet(returned') \cup ToSet(list') = ToSet(returned) \cup ToSet(list)
    BY <1>11, <1>0, HeadIsTaken, HandOutAppends DEF NextAdapter
  <2> QED
    BY <1>11, <1>0, <2>1 DEF NextAdapter, AdaptersInv, system, history
<1>12. CASE NoMoreAdapters
  BY <1>12, <1>0
     DEF NoMoreAdapters, AdaptersInv, StepsInv, SeenInv, AlwaysMatching, system, walk,
         history
<1>13. CASE Reset
  BY <1>13, <1>0
     DEF Reset, AdaptersInv, StepsInv, SeenInv, AlwaysMatching, system, walk, history
<1>14. ASSUME NEW k \in {"process", "processes"}, BeginProcesses(k) PROVE AdaptersInv'
  BY <1>14, <1>0
     DEF BeginProcesses, Begin, AdaptersInv, StepsInv, SeenInv, AlwaysMatching, system,
         walk, history
<1>15. CASE SkipProcess
  BY <1>15, <1>0
     DEF SkipProcess, AdaptersInv, StepsInv, SeenInv, AlwaysMatching, system, walk, history
<1>16. CASE LookAtProcess
  BY <1>16, <1>0
     DEF LookAtProcess, HandOut, AdaptersInv, StepsInv, SeenInv, AlwaysMatching, system,
         walk, history
<1>17. CASE NoMoreProcesses
  BY <1>17, <1>0
     DEF NoMoreProcesses, AdaptersInv, StepsInv, SeenInv, AlwaysMatching, system, walk,
         history
<1>18. CASE BeginNames
  BY <1>18, <1>0
     DEF BeginNames, Begin, AdaptersInv, StepsInv, SeenInv, AlwaysMatching, system, walk,
         history
<1>19. CASE NameFound
  BY <1>19, <1>0
     DEF NameFound, AskForName, HandOut, AdaptersInv, StepsInv, SeenInv, AlwaysMatching,
         system, walk, history
<1>20. CASE MoreData
  BY <1>20, <1>0
     DEF MoreData, AskForName, Enlarged, AdaptersInv, StepsInv, SeenInv, AlwaysMatching,
         system, walk, history
<1>21. CASE NoMoreItems
  BY <1>21, <1>0
     DEF NoMoreItems, AskForName, AdaptersInv, StepsInv, SeenInv, AlwaysMatching, system,
         walk, history
<1>22. CASE CallbackContinues
  BY <1>22, <1>0
     DEF CallbackContinues, AdaptersInv, StepsInv, SeenInv, AlwaysMatching, system, walk,
         history
<1>23. CASE Drop
  BY <1>23, <1>0
     DEF Drop, AdaptersInv, StepsInv, SeenInv, AlwaysMatching, system, walk, history
<1>24. CASE UNCHANGED vars
  BY <1>24 DEF WalkInv, vars, system, walk, history, AdaptersInv
<1> QED
  BY <1>1, <1>2, <1>3, <1>4, <1>5, <1>6, <1>7, <1>8, <1>9, <1>10, <1>11, <1>12, <1>13,
     <1>14, <1>15, <1>16, <1>17,
     <1>18, <1>19, <1>20, <1>21, <1>22, <1>23, <1>24 DEF Next, Query, Enumerate

LEMMA AccountedStep == WalkInv /\ [Next]_vars => AccountedInv'
<1> SUFFICES ASSUME WalkInv, [Next]_vars PROVE AccountedInv'
  OBVIOUS
<1>0. TypeOK /\ StepsInv /\ AccountedInv /\ ToSet(<<>>) = {} /\ IsInjective(<<>>)
      /\ AdaptersInv /\ SeenInv
  BY EmptyList DEF WalkInv
<1>1. ASSUME NEW e \in Entries, EntryRemoved(e) PROVE AccountedInv'
  BY <1>1, <1>0 DEF EntryRemoved, Shifted, AccountedInv, StepsInv, system, walk, history
<1>2. ASSUME NEW e \in Entries, NEW matches \in BOOLEAN, EntryAdded(e, matches)
      PROVE  AccountedInv'
  BY <1>2, <1>0 DEF EntryAdded, Shifted, AccountedInv, StepsInv, system, walk, history
<1>3. CASE BeginFiles
  <2>1. Min(table) \in Entries /\ Min(table) \in Nat /\ \A e \in table : Min(table) <= e
        /\ e \in Nat
    BY <1>3, <1>0, LeastOfTable, EntriesAre DEF BeginFiles, TypeOK
  <2>2. /\ ToSet(list') = {Min(table)} \cap matching /\ last' = Min(table)
        /\ stayed' = matching /\ matching \subseteq table
    BY <1>3, <1>0, <2>1, CachedIs DEF BeginFiles, Begin, AlwaysMatching, TypeOK
  <2>3. \A e \in matching : e \in ToSet(list') \/ e > last'
    BY <2>1, <2>2
  <2> QED
    BY <1>3, <2>2, <2>3 DEF BeginFiles, Begin, AccountedInv
<1>4. CASE NoHandle
  <2>1. stayed' \subseteq overlooked'
    BY <1>4, <1>0 DEF NoHandle, Begin, TypeOK
  <2> QED
    BY <2>1 DEF AccountedInv
<1>5. CASE NextCached
  <2>1. ToSet(returned') \cup ToSet(list') = ToSet(returned) \cup ToSet(list)
    BY <1>5, <1>0, HeadIsTaken, HandOutAppends DEF NextCached
  <2> QED
    BY <1>5, <1>0, <2>1 DEF NextCached, AccountedInv, history
<1>6. CASE NextFound
  <2>1. Following \subseteq Entries
    BY <1>0 DEF Following, TypeOK
  <2>2. Min(Following) \in Entries /\ \A e \in Following : Min(Following) <= e
    BY <1>6, <2>1, LeastOfTable DEF NextFound
  <2>3. stayed \subseteq matching /\ stayed \subseteq table /\ table \subseteq Nat
        /\ Min(Following) \in Nat
    BY <1>6, <1>0, <2>2, EntriesAre
       DEF NextFound, MayFindMore, SeenInv, AlwaysMatching, TypeOK
  <2>4. /\ ToSet(returned) \subseteq ToSet(returned')
        /\ Min(Following) \in matching => Min(Following) \in ToSet(returned')
    BY <1>6, <1>0, <2>2, HandOutAppends DEF NextFound, PassesFilters
  <2>5. ASSUME NEW e \in stayed, e > last
        PROVE  e > Min(Following) \/ e \in ToSet(returned')
    <3>1. e \in Following /\ e \in Nat /\ Min(Following) <= e /\ e \in matching
      BY <2>2, <2>3, <2>5 DEF Following
    <3> QED
      BY <2>3, <2>4, <3>1
  <2>6. \A e \in stayed : e \in overlooked \cup ToSet(returned) \/ e > last
    BY <1>6, <1>0 DEF NextFound, MayFindMore, AccountedInv
  <2>7. /\ last' = Min(Following) /\ stayed' = stayed /\ overlooked' = overlooked
        /\ kind' = kind /\ step' = step /\ kind = "files" /\ step = "walk"
    BY <1>6 DEF NextFound, MayFindMore, history
  <2> QED
    BY <2>4, <2>5, <2>6, <2>7 DEF AccountedInv
<1>7. CASE Exhausted
  <2>1. \A e \in stayed : e \in overlooked \cup ToSet(returned) \/ e > last
    BY <1>7, <1>0 DEF Exhausted, AccountedInv
  <2>2. \A e \in stayed : e > last => e \in Following
    BY <1>0 DEF Following, TypeOK
  <2> QED
    BY <1>7, <2>1, <2>2 DEF Exhausted, AccountedInv
<1>8. CASE BeginAdapters
  BY <1>8, <1>0 DEF BeginAdapters, Begin, AccountedInv, StepsInv, system, walk, history
<1>9. CASE QueryOverflows
  BY <1>9, <1>0
     DEF QueryOverflows, RoomNeeded, AccountedInv, StepsInv, system, walk, history
<1>10. CASE QuerySucceeds
  <2>1. table \in SUBSET Nat /\ IsFiniteSet(table) /\ stayed \subseteq table
    BY <1>0, EntriesAre DEF TypeOK
  <2>2. ToSet(list') = table
    BY <1>10, <2>1, InOrderLists DEF QuerySucceeds
  <2> QED
    BY <1>10, <2>1, <2>2 DEF QuerySucceeds, AccountedInv, history
<1>11. CASE NextAdapter
  <2>1. ToSet(returned') \cup ToSet(list') = ToSet(returned) \cup ToSet(list)
    BY <1>11, <1>0, HeadIsTaken, HandOutAppends DEF NextAdapter
  <2> QED
    BY <1>11, <1>0, <2>1 DEF NextAdapter, AccountedInv, history
<1>12. CASE NoMoreAdapters
  BY <1>12, <1>0 DEF NoMoreAdapters, AccountedInv, StepsInv, system, walk, history
<1>13. CASE Reset
  <2>1. stayed \subseteq ToSet(copy)
    BY <1>13, <1>0 DEF Reset, AdaptersInv
  <2> QED
    BY <1>13, <2>1 DEF Reset, AccountedInv, history
<1>14. ASSUME NEW k \in {"process", "processes"}, BeginProcesses(k) PROVE AccountedInv'
  <2>1. stayed' \subseteq table
    BY <1>14, <1>0 DEF BeginProcesses, Begin, TypeOK
  <2>2. list' = Pids /\ overlooked' = table \ ToSet(Pids)
    BY <1>14 DEF BeginProcesses
  <2> QED
    BY <2>1, <2>2 DEF AccountedInv
<1>15. CASE SkipProcess
  <2>1. ToSet(list) = {Head(list)} \cup ToSet(Tail(list))
    BY <1>15, <1>0, HeadIsTaken DEF SkipProcess
  <2> QED
    BY <1>15, <1>0, <2>1 DEF SkipProcess, AccountedInv
<1>16. CASE LookAtProcess
  <2>1. ToSet(list) = {Head(list)} \cup ToSet(Tail(list)) /\ Head(list) \in Entries
    BY <1>16, <1>0, HeadIsTaken DEF LookAtProcess
  <2>2. /\ ToSet(returned) \subseteq ToSet(returned')
        /\ Head(list) \in matching => Head(list) \in ToSet(returned')
    BY <1>16, <1>0, <2>1, HandOutAppends DEF LookAtProcess
  <2>3. stayed \subseteq matching
    BY <1>16, <1>0 DEF LookAtProcess, SeenInv, AlwaysMatching
  <2>4. step' \in {"walk", "found"} /\ kind \in {"process", "processes"} /\ step = "walk"
    BY <1>16 DEF LookAtProcess
  <2>5. \A e \in stayed : e \in overlooked \cup ToSet(returned) \cup ToSet(list)
    BY <1>0, <2>4 DEF AccountedInv
  <2>6. \A e \in stayed : e \in overlooked \cup ToSet(returned') \cup ToSet(Tail(list))
    BY <2>1, <2>2, <2>3, <2>5
  <2> QED
    BY <1>16, <2>6 DEF LookAtProcess, AccountedInv, history
<1>17. CASE NoMoreProcesses
  BY <1>17, <1>0 DEF NoMoreProcesses, AccountedInv, StepsInv, system, walk, history
<1>18. CASE BeginNames
  BY <1>18, <1>0 DEF BeginNames, Begin, AccountedInv, StepsInv, system, walk, history
<1>19. CASE NameFound
  BY <1>19, <1>0
     DEF NameFound, AskForName, HandOut, AccountedInv, StepsInv, system, walk, history
<1>20. CASE MoreData
  BY <1>20, <1>0
     DEF MoreData, AskForName, Enlarged, AccountedInv, StepsInv, system, walk, history
<1>21. CASE NoMoreItems
  BY <1>21, <1>0 DEF NoMoreItems, AskForName, AccountedInv, StepsInv, system, walk, history
<1>22. CASE CallbackContinues
  BY <1>22, <1>0 DEF CallbackContinues, AccountedInv, StepsInv, system, walk, history
<1>23. CASE Drop
  BY <1>23, <1>0 DEF Drop, AccountedInv, StepsInv, system, walk, history
<1>24. CASE UNCHANGED vars
  BY <1>24 DEF WalkInv, vars, system, walk, history, AccountedInv
<1> QED
  BY <1>1, <1>2, <1>3, <1>4, <1>5, <1>6, <1>7, <1>8, <1>9, <1>10, <1>11, <1>12, <1>13,
     <1>14, <1>15, <1>16, <1>17,
     <1>18, <1>19, <1>20, <1>21, <1>22, <1>23, <1>24 DEF Next, Query, Enumerate

LEMMA OnceStep == WalkInv /\ [Next]_vars => OnceInv'
<1> SUFFICES ASSUME WalkInv, [Next]_vars PROVE OnceInv'
  OBVIOUS
<1>0. TypeOK /\ StepsInv /\ OnceInv /\ ToSet(<<>>) = {} /\ IsInjective(<<>>)
     /\ FilesInv /\ AdaptersInv /\ NamesInv
  BY EmptyList DEF WalkInv
<1>1. ASSUME NEW e \in Entries, EntryRemoved(e) PROVE OnceInv'
  BY <1>1, <1>0 DEF EntryRemoved, Shifted, OnceInv, StepsInv, Shifted, system, walk, history
<1>2. ASSUME NEW e \in Entries, NEW matches \in BOOLEAN, EntryAdded(e, matches) PROVE OnceInv'
  BY <1>2, <1>0 DEF EntryAdded, Shifted, OnceInv, StepsInv, Shifted, system, walk, history
<1>3. CASE BeginFiles
  <2>1. Min(table) \in Entries
    BY <1>3, <1>0, LeastOfTable DEF BeginFiles, TypeOK
  <2>2. IsInjective(list') /\ returned' = <<>>
    BY <1>3, <1>0, <2>1, CachedIs DEF BeginFiles, Begin, StepsInv
  <2> QED
    BY <1>0, <2>2 DEF OnceInv
<1>4. CASE NoHandle
  BY <1>4, <1>0 DEF NoHandle, Begin, OnceInv, StepsInv, Shifted, system, walk, history
<1>5. CASE NextCached
  <2>1. /\ ToSet(list) = {Head(list)} \cup ToSet(Tail(list)) /\ Head(list) \in ToSet(list)
        /\ IsInjective(Tail(list)) /\ Head(list) \notin ToSet(Tail(list))
        /\ Head(list) \in Entries
    BY <1>5, <1>0, HeadIsTaken DEF NextCached, OnceInv
  <2>2. /\ ToSet(returned') = ToSet(returned) \cup {Head(list)}
        /\ IsInjective(returned) => IsInjective(returned')
    BY <1>5, <1>0, <2>1, HandOutAppends DEF NextCached, OnceInv
  <2> QED
    BY <1>5, <1>0, <2>1, <2>2 DEF NextCached, OnceInv, history
<1>6. CASE NextFound
  <2>1. Following \subseteq Entries /\ \A e \in Following : e > last /\ e \in Nat
    BY <1>0, EntriesAre DEF Following, TypeOK
  <2>2. Min(Following) \in Following
    BY <1>6, <2>1, LeastOfTable DEF NextFound
  <2>3. \A e \in ToSet(returned) : e <= last /\ last \in Nat
    BY <1>6, <1>0 DEF NextFound, MayFindMore, FilesInv, TypeOK
  <2>4. Min(Following) \notin ToSet(returned)
    BY <2>1, <2>2, <2>3
  <2>5. IsInjective(returned) => IsInjective(returned')
    BY <1>6, <1>0, <2>1, <2>2, <2>4, HandOutAppends DEF NextFound
  <2> QED
    BY <1>6, <1>0, <2>5 DEF NextFound, OnceInv, history
<1>7. CASE Exhausted
  BY <1>7, <1>0 DEF Exhausted, OnceInv, StepsInv, Shifted, system, walk, history
<1>8. CASE BeginAdapters
  BY <1>8, <1>0 DEF BeginAdapters, Begin, OnceInv, StepsInv, Shifted, system, walk, history
<1>9. CASE QueryOverflows
  BY <1>9, <1>0
     DEF QueryOverflows, RoomNeeded, OnceInv, StepsInv, Shifted, system, walk, history
<1>10. CASE QuerySucceeds
  <2>1. table \in SUBSET Nat /\ IsFiniteSet(table)
    BY <1>0, EntriesAre DEF TypeOK
  <2>2. IsInjective(list') /\ returned = <<>>
    BY <1>10, <1>0, <2>1, InOrderLists DEF QuerySucceeds, StepsInv
  <2> QED
    BY <1>10, <1>0, <2>2 DEF QuerySucceeds, OnceInv, history
<1>11. CASE NextAdapter
  <2>1. /\ ToSet(list) = {Head(list)} \cup ToSet(Tail(list)) /\ Head(list) \in ToSet(list)
        /\ IsInjective(Tail(list)) /\ Head(list) \notin ToSet(Tail(list))
        /\ Head(list) \in Entries
    BY <1>11, <1>0, HeadIsTaken DEF NextAdapter, OnceInv
  <2>2. /\ ToSet(returned') = ToSet(returned) \cup {Head(list)}
        /\ IsInjective(returned) => IsInjective(returned')
    BY <1>11, <1>0, <2>1, HandOutAppends DEF NextAdapter, OnceInv
  <2> QED
    BY <1>11, <1>0, <2>1, <2>2 DEF NextAdapter, OnceInv, history
<1>12. CASE NoMoreAdapters
  BY <1>12, <1>0 DEF NoMoreAdapters, OnceInv, StepsInv, Shifted, system, walk, history
<1>13. CASE Reset
  <2>1. IsInjective(list') /\ returned' = <<>>
    BY <1>13, <1>0 DEF Reset, AdaptersInv
  <2> QED
    BY <1>0, <2>1 DEF OnceInv
<1>14. ASSUME NEW k \in {"process", "processes"}, BeginProcesses(k) PROVE OnceInv'
  <2>1. IsInjective(list') /\ returned' = <<>>
    BY <1>14, <1>0, PidsAre DEF BeginProcesses, Begin, StepsInv, TypeOK
  <2> QED
    BY <1>0, <2>1 DEF OnceInv
<1>15. CASE SkipProcess
  <2>1. /\ ToSet(list) = {Head(list)} \cup ToSet(Tail(list)) /\ Head(list) \in ToSet(list)
        /\ IsInjective(Tail(list)) /\ Head(list) \notin ToSet(Tail(list))
        /\ Head(list) \in Entries
    BY <1>15, <1>0, HeadIsTaken DEF SkipProcess, OnceInv
  <2> QED
    BY <1>15, <1>0, <2>1 DEF SkipProcess, OnceInv
<1>16. CASE LookAtProcess
  <2>1. /\ ToSet(list) = {Head(list)} \cup ToSet(Tail(list)) /\ Head(list) \in ToSet(list)
        /\ IsInjective(Tail(list)) /\ Head(list) \notin ToSet(Tail(list))
        /\ Head(list) \in Entries
    BY <1>16, <1>0, HeadIsTaken DEF LookAtProcess, OnceInv
  <2>2. \/ returned' = returned
        \/ /\ ToSet(returned') = ToSet(returned) \cup {Head(list)}
           /\ IsInjective(returned) => IsInjective(returned')
    BY <1>16, <1>0, <2>1, HandOutAppends DEF LookAtProcess, OnceInv
  <2>3. list' = Tail(list) /\ shifted' = shifted
    BY <1>16 DEF LookAtProcess, history
  <2> QED
    BY <1>0, <2>1, <2>2, <2>3 DEF OnceInv
<1>17. CASE NoMoreProcesses
  BY <1>17, <1>0 DEF NoMoreProcesses, OnceInv, StepsInv, Shifted, system, walk, history
<1>18. CASE BeginNames
  BY <1>18, <1>0 DEF BeginNames, Begin, OnceInv, StepsInv, Shifted, system, walk, history
<1>19. CASE NameFound
  <2>1. /\ Current \in table /\ Current \in Entries /\ Rank(table, Current) = last
        /\ kind = "names" /\ step = "walk" /\ list = <<>> /\ last \in Nat
    BY <1>19, <1>0, CurrentIs DEF NameFound, AskForName, TypeOK, StepsInv
  <2>2. "added" \notin shifted => Current \notin ToSet(returned)
    BY <1>0, <2>1 DEF NamesInv, PassedBy
  <2>3. "added" \in shifted \/ IsInjective(returned')
    BY <1>19, <1>0, <2>1, <2>2, HandOutAppends DEF NameFound, OnceInv
  <2> QED
    BY <1>19, <1>0, <2>1, <2>3 DEF NameFound, OnceInv, history
<1>20. CASE MoreData
  BY <1>20, <1>0
     DEF MoreData, AskForName, Enlarged, OnceInv, StepsInv, Shifted, system, walk, history
<1>21. CASE NoMoreItems
  BY <1>21, <1>0
     DEF NoMoreItems, AskForName, OnceInv, StepsInv, Shifted, system, walk, history
<1>22. CASE CallbackContinues
  BY <1>22, <1>0 DEF CallbackContinues, OnceInv, StepsInv, Shifted, system, walk, history
<1>23. CASE Drop
  BY <1>23, <1>0 DEF Drop, OnceInv, StepsInv, Shifted, system, walk, history
<1>24. CASE UNCHANGED vars
  BY <1>24 DEF WalkInv, vars, system, walk, history, OnceInv
<1> QED
  BY <1>1, <1>2, <1>3, <1>4, <1>5, <1>6, <1>7, <1>8, <1>9, <1>10, <1>11, <1>12, <1>13,
     <1>14, <1>15, <1>16, <1>17,
     <1>18, <1>19, <1>20, <1>21, <1>22, <1>23, <1>24 DEF Next, Query, Enumerate

LEMMA NamesStep == WalkInv /\ [Next]_vars => NamesInv'
<1> SUFFICES ASSUME WalkInv, [Next]_vars PROVE NamesInv'
  OBVIOUS
<1>0. TypeOK /\ StepsInv /\ NamesInv /\ ToSet(<<>>) = {} /\ IsInjective(<<>>)
  BY EmptyList DEF WalkInv
<1>1. ASSUME NEW e \in Entries, EntryRemoved(e) PROVE NamesInv'
  <2>1. table' \subseteq table /\ table \subseteq Entries /\ IsFiniteSet(table)
    BY <1>1, <1>0, EntriesAre DEF EntryRemoved, TypeOK
  <2>2. /\ last' = last /\ returned' = returned /\ kind' = kind /\ step' = step /\ last \in Nat
        /\ stayed' \subseteq stayed
        /\ kind = "names" /\ step # "none" => shifted' = shifted \cup {"removed"}
    BY <1>1, <1>0 DEF EntryRemoved, Shifted, walk, TypeOK
  <2>3. ASSUME NEW x, PassedBy(x) PROVE PassedBy(x)'
    <3>1. Rank(table', x) <= Rank(table, x) /\ Rank(table', x) \in Nat /\ Rank(table, x) \in Nat
      BY <2>1, RankGrows
    <3> QED
      BY <2>2, <2>3, <3>1 DEF PassedBy
  <2> QED
    BY <1>0, <2>1, <2>2, <2>3 DEF NamesInv
<1>2. ASSUME NEW e \in Entries, NEW matches \in BOOLEAN, EntryAdded(e, matches) PROVE NamesInv'
  <2>1. table \subseteq table' /\ IsFiniteSet(table')
    BY <1>2, <1>0, EntriesAre DEF EntryAdded, TypeOK
  <2>2. /\ last' = last /\ returned' = returned /\ kind' = kind /\ step' = step /\ last \in Nat
        /\ stayed' = stayed
        /\ kind = "names" /\ step # "none" => shifted' = shifted \cup {"added"}
    BY <1>2, <1>0 DEF EntryAdded, Shifted, walk, TypeOK
  <2>3. ASSUME NEW x, PassedBy(x)' PROVE PassedBy(x)
    <3>1. Rank(table, x) <= Rank(table', x) /\ Rank(table', x) \in Nat /\ Rank(table, x) \in Nat
      BY <2>1, RankGrows
    <3> QED
      BY <2>2, <2>3, <3>1 DEF PassedBy
  <2> QED
    BY <1>0, <2>2, <2>3 DEF NamesInv
<1>3. CASE BeginFiles
  BY <1>3, <1>0
     DEF BeginFiles, Begin, Cached, PassesFilters, NamesInv, PassedBy, StepsInv, Shifted,
         system, walk, history
<1>4. CASE NoHandle
  BY <1>4, <1>0
     DEF NoHandle, Begin, NamesInv, PassedBy, StepsInv, Shifted, system, walk, history
<1>5. CASE NextCached
  BY <1>5, <1>0
     DEF NextCached, HandOut, NamesInv, PassedBy, StepsInv, Shifted, system, walk, history
<1>6. CASE NextFound
  BY <1>6, <1>0
     DEF NextFound, HandOut, PassesFilters, MayFindMore, NamesInv, PassedBy, StepsInv,
         Shifted, system, walk, history
<1>7. CASE Exhausted
  BY <1>7, <1>0 DEF Exhausted, NamesInv, PassedBy, StepsInv, Shifted, system, walk, history
<1>8. CASE BeginAdapters
  BY <1>8, <1>0
     DEF BeginAdapters, Begin, NamesInv, PassedBy, StepsInv, Shifted, system, walk, history
<1>9. CASE QueryOverflows
  BY <1>9, <1>0
     DEF QueryOverflows, RoomNeeded, NamesInv, PassedBy, StepsInv, Shifted, system, walk,
         history
<1>10. CASE QuerySucceeds
  BY <1>10, <1>0
     DEF QuerySucceeds, NamesInv, PassedBy, StepsInv, Shifted, system, walk, history
<1>11. CASE NextAdapter
  BY <1>11, <1>0
     DEF NextAdapter, HandOut, NamesInv, PassedBy, StepsInv, Shifted, system, walk, history
<1>12. CASE NoMoreAdapters
  BY <1>12, <1>0
     DEF NoMoreAdapters, NamesInv, PassedBy, StepsInv, Shifted, system, walk, history
<1>13. CASE Reset
  BY <1>13, <1>0 DEF Reset, NamesInv, PassedBy, StepsInv, Shifted, system, walk, history
<1>14. ASSUME NEW k \in {"process", "processes"}, BeginProcesses(k) PROVE NamesInv'
  BY <1>14, <1>0
     DEF BeginProcesses, Begin, NamesInv, PassedBy, StepsInv, Shifted, system, walk, history
<1>15. CASE SkipProcess
  BY <1>15, <1>0
     DEF SkipProcess, NamesInv, PassedBy, StepsInv, Shifted, system, walk, history
<1>16. CASE LookAtProcess
  BY <1>16, <1>0
     DEF LookAtProcess, HandOut, NamesInv, PassedBy, StepsInv, Shifted, system, walk,
         history
<1>17. CASE NoMoreProcesses
  BY <1>17, <1>0
     DEF NoMoreProcesses, NamesInv, PassedBy, StepsInv, Shifted, system, walk, history
<1>18. CASE BeginNames
  <2>1. /\ last' = 0 /\ step' = "walk" /\ returned' = <<>> /\ table' = table
        /\ stayed' \subseteq table
    BY <1>18, <1>0 DEF BeginNames, Begin, StepsInv, TypeOK, system
  <2>2. \A e \in stayed' : ~PassedBy(e)'
    <3>1. table \in SUBSET Nat /\ IsFiniteSet(table)
      BY <1>0, EntriesAre DEF TypeOK
    <3>2. \A e \in table : Rank(table, e) \in Nat
      BY <3>1, RankIsBounded
    <3> QED
      BY <2>1, <3>2 DEF PassedBy
  <2> QED
    BY <1>0, <2>1, <2>2, EntriesAre DEF NamesInv
<1>19. CASE NameFound
  <2>1. /\ Current \in table /\ Current \in Entries /\ Rank(table, Current) = last
        /\ \A e \in table : Rank(table, e) = last => e = Current
    BY <1>19, <1>0, CurrentIs DEF NameFound, TypeOK
  <2>2. /\ step' = "callback" /\ step = "walk" /\ kind = "names" /\ table' = table
        /\ last' = last /\ stayed' = stayed /\ shifted' = shifted /\ stayed \subseteq table
    BY <1>19, <1>0 DEF NameFound, AskForName, system, history, TypeOK
  <2>3. ToSet(returned') = ToSet(returned) \cup {Current}
    BY <1>19, <1>0, <2>1, HandOutAppends DEF NameFound
  <2>4. \A e : PassedBy(e)' <=> PassedBy(e) \/ Rank(table, e) = last
    BY <2>2 DEF PassedBy
  <2>5. last < Cardinality(Entries)
    <3>1. /\ Cardinality(table) \in Nat /\ Cardinality(Entries) \in Nat /\ last \in Nat
          /\ Cardinality(table) <= Cardinality(Entries)
      BY <1>0, EntriesAre DEF TypeOK
    <3> QED
      BY <1>19, <3>1 DEF NameFound
  <2> QED
    BY <1>0, <2>1, <2>2, <2>3, <2>4, <2>5 DEF NamesInv
<1>20. CASE MoreData
  BY <1>20, <1>0
     DEF MoreData, AskForName, Enlarged, NamesInv, PassedBy, StepsInv, Shifted, system,
         walk, history
<1>21. CASE NoMoreItems
  <2>1. \A e \in table : PassedBy(e)
    <3>1. table \in SUBSET Nat /\ IsFiniteSet(table) /\ Cardinality(table) \in Nat
          /\ last \in Nat
      BY <1>0, EntriesAre DEF TypeOK
    <3>2. \A e \in table : Rank(table, e) \in Nat /\ Rank(table, e) < Cardinality(table)
      BY <3>1, RankIsBounded
    <3> QED
      BY <1>21, <3>1, <3>2 DEF NoMoreItems, PassedBy
  <2>2. /\ step' = "end" /\ step = "walk" /\ kind = "names" /\ table' = table /\ kind' = kind
        /\ last' = last /\ stayed' = stayed /\ shifted' = shifted /\ stayed \subseteq table
        /\ returned' = returned
    BY <1>21, <1>0 DEF NoMoreItems, AskForName, system, history, TypeOK
  <2>3. \A e : PassedBy(e)' <=> PassedBy(e)
    BY <2>2 DEF PassedBy
  <2> QED
    BY <1>0, <2>1, <2>2, <2>3 DEF NamesInv
<1>22. CASE CallbackContinues
  <2>1. /\ step' = "walk" /\ step = "callback" /\ kind = "names" /\ kind' = kind
        /\ last' = last + 1 /\ last \in Nat /\ table' = table /\ stayed' = stayed
        /\ shifted' = shifted /\ returned' = returned /\ stayed \subseteq table
    BY <1>22, <1>0 DEF CallbackContinues, system, history, TypeOK, StepsInv
  <2>2. \A e \in table : PassedBy(e)' <=> PassedBy(e)
    <3>1. \A e \in table : Rank(table, e) \in Nat
      BY <1>0, EntriesAre, RankIsBounded DEF TypeOK
    <3> QED
      BY <2>1, <3>1 DEF PassedBy
  <2>3. last < Cardinality(Entries) /\ Cardinality(Entries) \in Nat
    BY <1>0, <2>1, EntriesAre DEF NamesInv
  <2> QED
    BY <1>0, <2>1, <2>2, <2>3 DEF NamesInv
<1>23. CASE Drop
  BY <1>23, <1>0 DEF Drop, NamesInv, PassedBy, StepsInv, Shifted, system, walk, history
<1>24. CASE UNCHANGED vars
  BY <1>24 DEF WalkInv, vars, system, walk, history, NamesInv, PassedBy
<1> QED
  BY <1>1, <1>2, <1>3, <1>4, <1>5, <1>6, <1>7, <1>8, <1>9, <1>10, <1>11, <1>12, <1>13,
     <1>14, <1>15, <1>16, <1>17,
     <1>18, <1>19, <1>20, <1>21, <1>22, <1>23, <1>24 DEF Next, Query, Enumerate

LEMMA InitWalkInv == Init => WalkInv
<1> SUFFICES ASSUME Init PROVE WalkInv
  OBVIOUS
<1>1. TypeOK
  BY LargestEntry, EmptyList, EnumerationAssumption
     DEF Init, TypeOK, Kinds, EnumerationAssumption
<1>2. StepsInv /\ FilesInv /\ AdaptersInv /\ AccountedInv /\ NamesInv
  BY DEF Init, StepsInv, FilesInv, AdaptersInv, AccountedInv, NamesInv
<1>3. SeenInv /\ OnceInv
  BY EmptyList DEF Init, SeenInv, OnceInv
<1> QED
  BY <1>1, <1>2, <1>3 DEF WalkInv

LEMMA WalkStepInv == WalkInv /\ [Next]_vars => WalkInv'
BY TypeStep, StepsStep, SeenStep, FilesStep, AdaptersStep, AccountedStep, OnceStep,
   NamesStep
   DEF WalkInv

LEMMA WalkInvSuffices == WalkInv => TypeOK /\ NothingMissed /\ NothingInvented
<1> SUFFICES ASSUME WalkInv PROVE NothingMissed /\ NothingInvented
  BY DEF WalkInv
<1>1. NothingMissed
  <2> SUFFICES ASSUME step = "end", "removed" \notin shifted
               PROVE  stayed \ overlooked \subseteq ToSet(returned)
    BY DEF NothingMissed
  <2>1. CASE kind = "names"
    BY <2>1 DEF WalkInv, NamesInv
  <2>2. CASE kind # "names"
    <3>1. ToSet(list) = {}
      BY EmptyList DEF WalkInv, StepsInv
    <3> QED
      BY <2>2, <3>1 DEF WalkInv, AccountedInv
  <2> QED
    BY <2>1, <2>2
<1>2. NothingInvented
  BY DEF WalkInv, SeenInv, OnceInv, NothingInvented
<1> QED
  BY <1>1, <1>2

(* The index of a name and the handle of a directory never pass the last     *)
(* entry there can be; a copy fits the buffer it was made for.               *)
THEOREM WalksAreTyped == Spec => []TypeOK
<1>1. Spec => []WalkInv
  BY InitWalkInv, WalkStepInv, PTL DEF Spec
<1> QED
  BY <1>1, WalkInvSuffices, PTL

(* However many entries there are, whatever comes and goes, and however      *)
(* often buffers are too small: a walk that reached its end handed out what  *)
(* was there throughout, but for what it gave up (FileEnumerator::next(),    *)
(* Adapters::next(), GetAllProcessIdsFromName(), enumerateSubKeys()).        *)
THEOREM WalksMissNothing == Spec => []NothingMissed
<1>1. Spec => []WalkInv
  BY InitWalkInv, WalkStepInv, PTL DEF Spec
<1> QED
  BY <1>1, WalkInvSuffices, PTL

(* Nor does any of them hand out what was not there, or the same twice.      *)
THEOREM WalksInventNothing == Spec => []NothingInvented
<1>1. Spec => []WalkInv
  BY InitWalkInv, WalkStepInv, PTL DEF Spec
<1> QED
  BY <1>1, WalkInvSuffices, PTL

LEMMA EndStaysStep == [Next]_vars => (step = "end" /\ step' = "end" => returned' = returned)
<1> SUFFICES ASSUME [Next]_vars, step = "end", step' = "end" PROVE returned' = returned
  OBVIOUS
<1>1. CASE UNCHANGED vars
  BY <1>1 DEF vars, walk
<1>2. ASSUME NEW e \in Entries,
             EntryRemoved(e) \/ \E matches \in BOOLEAN : EntryAdded(e, matches)
      PROVE  returned' = returned
  BY <1>2 DEF EntryRemoved, EntryAdded, walk
<1>3. ~(\/ BeginFiles \/ NoHandle \/ NextCached \/ NextFound \/ Exhausted
        \/ BeginAdapters \/ Query \/ NextAdapter \/ NoMoreAdapters \/ Reset
        \/ \E k \in {"process", "processes"} : BeginProcesses(k)
        \/ SkipProcess \/ LookAtProcess \/ NoMoreProcesses
        \/ BeginNames \/ Enumerate \/ Drop)
  BY DEF BeginFiles, NoHandle, BeginAdapters, BeginProcesses, BeginNames, Begin,
         NextCached, NextFound, MayFindMore, Exhausted, Query, QueryOverflows,
         QuerySucceeds, NextAdapter, NoMoreAdapters, Reset, SkipProcess, LookAtProcess,
         NoMoreProcesses, Enumerate, NameFound, MoreData, NoMoreItems, AskForName,
         CallbackContinues, Drop
<1> QED
  BY <1>1, <1>2, <1>3 DEF Next

(* What appears after FileEnumerator::next() has returned false, or any of   *)
(* the other walks has come to its end, is not handed out any more.          *)
THEOREM EndOfWalkIsFinal == Spec => EndIsFinal
<1>1. [Next]_vars => [step = "end" /\ step' = "end" => returned' = returned]_vars
  BY EndStaysStep
<1> QED
  BY <1>1, PTL DEF Spec, EndIsFinal
=============================================================================
