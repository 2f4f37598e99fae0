---------------------------- MODULE LibraryProofs ----------------------------
(* Theorems about Composer, Scopes, Directories, Network, Conversions and    *)
(* RegistryTests, for any values of their constants, and about the program   *)
(* of Library, which uses one of the parts.                                  *)
EXTENDS Library, EnumerationProofs

-----------------------------------------------------------------------------
(* Composer: multiples, what a size rounded up to a word is.                 *)

LEMMA Quotient ==
  ASSUME NEW x \in Nat, NEW r \in Nat \ {0}
  PROVE  \E k \in Nat, m \in 0 .. r - 1 : x = r * k + m /\ x % r = m
<1> DEFINE Rest == {m \in Nat : \E k \in Nat : x = r * k + m}
<1>1. x \in Rest
  BY x = r * 0 + x
<1>2. PICK m \in Rest : \A n \in Rest : m <= n
  BY <1>1, LeastNumber
<1>3. PICK k \in Nat : x = r * k + m
  BY <1>2
<1>4. m < r
  <2> SUFFICES ASSUME m >= r PROVE FALSE
    BY <1>2
  <2>1. m - r \in Nat /\ ~(m <= m - r)
    BY <1>2
  <2>2. x = r * (k + 1) + (m - r) /\ k + 1 \in Nat
    BY <1>2, <1>3
  <2> QED
    BY <1>2, <2>1, <2>2
<1>5. m \in 0 .. r - 1
  BY <1>2, <1>4
<1>6. (r * k + m) % r = m
  BY <1>5
<1> QED
  BY <1>3, <1>5, <1>6

Multiple(x) == \E k \in Nat : x = Native * k

LEMMA NativeIs ==
  Native \in Nat /\ Native > 1 /\ Native # 0 /\ SizeValues \in Nat /\ SizeValues > 1
<1>1. /\ Native \in Nat /\ Native > 1 /\ Native # 0 /\ SizeValues \in Nat /\ SizeValues > 0
      /\ SizeValues % Native = 0
  BY ComposerAssumption
<1>2. SizeValues # 1
  <2>1. 1 % Native = 1
    BY <1>1
  <2> QED
    BY <1>1, <2>1
<1> QED
  BY <1>1, <1>2

LEMMA MultipleSum ==
  ASSUME NEW x, NEW y, Multiple(x), Multiple(y)
  PROVE  Multiple(x + y)
<1>1. PICK j \in Nat : x = Native * j
  BY DEF Multiple
<1>2. PICK k \in Nat : y = Native * k
  BY DEF Multiple
<1>3. x + y = Native * (j + k) /\ j + k \in Nat
  BY <1>1, <1>2, NativeIs
<1> QED
  BY <1>3 DEF Multiple

LEMMA MultipleIsAligned ==
  ASSUME NEW x, Multiple(x)
  PROVE  x \in Nat /\ x % Native = 0
<1>1. PICK k \in Nat : x = Native * k
  BY DEF Multiple
<1>2. (Native * k) % Native = 0
  BY NativeIs
<1> QED
  BY <1>1, <1>2, NativeIs

(* A size is rounded up, by less than a word.                                *)
LEMMA AlignNativeRoundsUp ==
  ASSUME NEW p \in Nat, p + Native <= SizeValues
  PROVE  /\ AlignNative(p) \in Nat /\ Multiple(AlignNative(p))
         /\ p <= AlignNative(p) /\ AlignNative(p) < p + Native
<1> DEFINE s == p + (Native - 1)
<1>1. s \in Nat /\ s < SizeValues /\ s % SizeValues = s
  BY NativeIs
<1>2. PICK k \in Nat, m \in 0 .. Native - 1 : s = Native * k + m /\ s % Native = m
  BY <1>1, NativeIs, Quotient
<1>3. AlignNative(p) = s - m
  BY <1>1, <1>2 DEF AlignNative, RoundPowerTwo
<1>4. s - m = Native * k /\ s - m \in Nat /\ p <= s - m /\ s - m < p + Native
  BY <1>1, <1>2, NativeIs
<1> QED
  BY <1>3, <1>4 DEF Multiple

-----------------------------------------------------------------------------
(* The offsets of a composition.                                             *)

RunsTo(parts, n, f) ==
  f = [i \in 0 .. n |-> IF i = 0 THEN 0 ELSE (f[i - 1] + AlignNative(parts[i])) % SizeValues]

LEMMA RunExtends ==
  ASSUME NEW parts, NEW n \in Nat, n > 0, NEW f, RunsTo(parts, n - 1, f)
  PROVE  \E g : RunsTo(parts, n, g)
<1> DEFINE g == [i \in 0 .. n |-> IF i = n THEN (f[n - 1] + AlignNative(parts[n])) % SizeValues
                                  ELSE f[i]]
<1>1. \A i \in 0 .. n - 1 :
        f[i] = IF i = 0 THEN 0 ELSE (f[i - 1] + AlignNative(parts[i])) % SizeValues
  BY DEF RunsTo
<1>2. \A i \in 0 .. n : i # n => i \in 0 .. n - 1
  OBVIOUS
<1>3. \A i \in 0 .. n : i # 0 => i - 1 \in 0 .. n /\ i - 1 # n /\ g[i - 1] = f[i - 1]
  OBVIOUS
<1>4. ASSUME NEW i \in 0 .. n
      PROVE  g[i] = IF i = 0 THEN 0 ELSE (g[i - 1] + AlignNative(parts[i])) % SizeValues
  <2>1. CASE i = n
    BY <1>3, <2>1
  <2>2. CASE i # n
    BY <1>1, <1>2, <1>3, <2>2
  <2> QED
    BY <2>1, <2>2
<1>5. g = [i \in 0 .. n |-> g[i]]
  OBVIOUS
<1> HIDE DEF g
<1>6. RunsTo(parts, n, g)
  BY <1>4, <1>5 DEF RunsTo
<1> QED
  BY <1>6

LEMMA RunExists ==
  ASSUME NEW parts, NEW n \in Nat
  PROVE  \E f : RunsTo(parts, n, f)
<1> DEFINE Bad == {k \in Nat : ~\E f : RunsTo(parts, k, f)}
<1>1. ASSUME Bad # {} PROVE FALSE
  <2>1. PICK k \in Bad : \A j \in Bad : k <= j
    BY <1>1, LeastNumber
  <2>2. CASE k = 0
    <3>1. RunsTo(parts, 0, [i \in 0 .. 0 |-> 0])
      BY DEF RunsTo
    <3> QED
      BY <2>1, <2>2, <3>1
  <2>3. CASE k # 0
    <3>1. k - 1 \in Nat /\ ~(k <= k - 1) /\ k > 0 /\ k \in Nat
      BY <2>3
    <3>2. \E f : RunsTo(parts, k - 1, f)
      BY <2>1, <3>1
    <3> QED
      BY <3>1, <3>2, RunExtends
  <2> QED
    BY <2>2, <2>3
<1> QED
  BY <1>1

LEMMA EndIs ==
  ASSUME NEW parts \in Seq(Nat)
  PROVE  /\ End(parts, 0) = 0
         /\ \A i \in 1 .. Len(parts) :
              End(parts, i) = (End(parts, i - 1) + AlignNative(parts[i])) % SizeValues
<1> DEFINE n == Len(parts)
<1>1. n \in Nat
  BY LenProperties
<1>2. \E f : RunsTo(parts, n, f)
  BY <1>1, RunExists
<1>3. RunsTo(parts, n, Ends(parts))
  BY <1>2 DEF RunsTo, Ends
<1> HIDE DEF n
<1>4. \A i \in 0 .. n : Ends(parts)[i] =
        IF i = 0 THEN 0 ELSE (Ends(parts)[i - 1] + AlignNative(parts[i])) % SizeValues
  BY <1>3 DEF RunsTo
<1>5. 0 \in 0 .. n /\ \A i \in 1 .. n : i \in 0 .. n /\ i # 0
  BY <1>1
<1> QED
  BY <1>4, <1>5 DEF End, n

(* No part makes the size wrap, and each ends at a multiple of a word.       *)
LEMMA EndsAreMultiples ==
  ASSUME NEW parts \in PartLists
  PROVE  \A i \in 0 .. Len(parts) : Multiple(End(parts, i)) /\ End(parts, i) < SizeValues
<1> DEFINE n == Len(parts)
           Bad == {i \in 0 .. n : ~(Multiple(End(parts, i)) /\ End(parts, i) < SizeValues)}
<1>1. parts \in Seq(Nat) /\ n \in Nat /\ DOMAIN parts = 1 .. n
  BY PartsFit, LenProperties
<1>2. ASSUME Bad # {} PROVE FALSE
  <2>1. Bad \in SUBSET Nat
    BY <1>1
  <2>2. PICK i \in Bad : \A j \in Bad : i <= j
    BY <1>2, <2>1, LeastNumber
  <2>3. CASE i = 0
    <3>1. End(parts, i) = 0
      BY <1>1, <2>3, EndIs
    <3>2. 0 = Native * 0
      BY NativeIs
    <3> QED
      BY <2>2, <3>1, <3>2, NativeIs DEF Multiple
  <2>4. CASE i # 0
    <3>1. i - 1 \in 0 .. n /\ i \in 1 .. n /\ ~(i <= i - 1)
      BY <1>1, <2>2, <2>4
    <3>2. Multiple(End(parts, i - 1))
      BY <2>2, <3>1
    <3>3. parts[i] \in Nat /\ End(parts, i - 1) \in Nat
          /\ End(parts, i - 1) + parts[i] + Native <= SizeValues
      BY <1>1, <3>1, <3>2, PartsFit, MultipleIsAligned, ElementOfSeq
    <3>4. parts[i] + Native <= SizeValues
      BY <3>3, NativeIs
    <3> DEFINE a == AlignNative(parts[i])
    <3>5. Multiple(a) /\ a \in Nat /\ a < parts[i] + Native
      BY <3>3, <3>4, AlignNativeRoundsUp
    <3>6. End(parts, i) = (End(parts, i - 1) + a) % SizeValues
      BY <1>1, <3>1, EndIs
    <3> HIDE DEF a
    <3>7. End(parts, i - 1) + a < SizeValues /\ End(parts, i - 1) + a \in Nat
      <4> DEFINE e == End(parts, i - 1)
                 x == parts[i]
      <4>1. /\ Native \in Nat /\ SizeValues \in Nat /\ e \in Nat /\ x \in Nat /\ a \in Nat
            /\ e + x + Native <= SizeValues /\ a < x + Native
        BY <3>3, <3>5, NativeIs
      <4> HIDE DEF e, x
      <4>2. e + a < SizeValues /\ e + a \in Nat
        BY <4>1
      <4> QED
        BY <4>2 DEF e, x
    <3>8. End(parts, i) = End(parts, i - 1) + a
      BY <3>6, <3>7, NativeIs
    <3> QED
      BY <2>2, <3>2, <3>5, <3>7, <3>8, MultipleSum
  <2> QED
    BY <2>3, <2>4
<1> QED
  BY <1>2

LEMMA EndsGrow ==
  ASSUME NEW parts \in PartLists, NEW i \in 1 .. Len(parts)
  PROVE  /\ parts[i] \in Nat /\ End(parts, i - 1) \in Nat /\ End(parts, i) \in Nat
         /\ End(parts, i - 1) + parts[i] <= End(parts, i)
<1>1. parts \in Seq(Nat) /\ Len(parts) \in Nat /\ DOMAIN parts = 1 .. Len(parts)
  BY PartsFit, LenProperties
<1>2. i \in 0 .. Len(parts) /\ i - 1 \in 0 .. Len(parts)
  BY <1>1
<1>3. /\ End(parts, i - 1) \in Nat /\ End(parts, i) \in Nat /\ parts[i] \in Nat
      /\ End(parts, i - 1) + parts[i] + Native <= SizeValues
  BY <1>1, <1>2, PartsFit, EndsAreMultiples, MultipleIsAligned, ElementOfSeq
<1> DEFINE a == AlignNative(parts[i])
<1>4. parts[i] + Native <= SizeValues
  BY <1>3, NativeIs
<1>5. a \in Nat /\ parts[i] <= a /\ a < parts[i] + Native
  BY <1>3, <1>4, AlignNativeRoundsUp
<1>6. End(parts, i) = (End(parts, i - 1) + a) % SizeValues
  BY <1>1, EndIs
<1> HIDE DEF a
<1>7. End(parts, i - 1) + a < SizeValues /\ End(parts, i - 1) + a \in Nat
  <2> DEFINE e == End(parts, i - 1)
             x == parts[i]
  <2>1. /\ Native \in Nat /\ SizeValues \in Nat /\ e \in Nat /\ x \in Nat /\ a \in Nat
        /\ e + x + Native <= SizeValues /\ a < x + Native
    BY <1>3, <1>5, NativeIs
  <2> HIDE DEF e, x
  <2>2. e + a < SizeValues /\ e + a \in Nat
    BY <2>1
  <2> QED
    BY <2>2 DEF e, x
<1>8. End(parts, i) = End(parts, i - 1) + a
  BY <1>6, <1>7, NativeIs
<1> QED
  BY <1>3, <1>5, <1>8

LEMMA EndsAreOrdered ==
  ASSUME NEW parts \in PartLists, NEW i \in 0 .. Len(parts), NEW j \in i .. Len(parts)
  PROVE  End(parts, i) <= End(parts, j) /\ End(parts, i) \in Nat /\ End(parts, j) \in Nat
<1> DEFINE n == Len(parts)
           Bad == {k \in i .. n : ~(End(parts, i) <= End(parts, k))}
<1>1. parts \in Seq(Nat) /\ n \in Nat
  BY PartsFit, LenProperties
<1>2. \A k \in 0 .. n : End(parts, k) \in Nat
  BY EndsAreMultiples, MultipleIsAligned
<1>3. ASSUME Bad # {} PROVE FALSE
  <2>1. Bad \in SUBSET Nat
    BY <1>1
  <2>2. PICK k \in Bad : \A l \in Bad : k <= l
    BY <1>3, <2>1, LeastNumber
  <2>3. k \in 0 .. n /\ k # i
    BY <1>1, <1>2, <2>2
  <2>4. k \in 1 .. n /\ k - 1 \in i .. n /\ k - 1 \in 0 .. n /\ ~(k <= k - 1)
    BY <1>1, <2>2, <2>3
  <2>5. End(parts, i) <= End(parts, k - 1)
    BY <2>2, <2>4
  <2>6. End(parts, k - 1) <= End(parts, k)
    <3>1. parts[k] \in Nat /\ End(parts, k - 1) + parts[k] <= End(parts, k)
      BY <2>4, EndsGrow
    <3> QED
      BY <1>2, <2>3, <2>4, <3>1
  <2>7. End(parts, i) <= End(parts, k)
    BY <1>2, <2>3, <2>4, <2>5, <2>6
  <2> QED
    BY <2>2, <2>7
<1>4. j \in 0 .. n
  BY <1>1
<1> QED
  BY <1>2, <1>3, <1>4

-----------------------------------------------------------------------------
(* What a composition holds.                                                 *)

Place(parts, i) == OffsetsOf(parts)[i] + 1 .. OffsetsOf(parts)[i] + parts[i]

LEMMA PlacesAre ==
  ASSUME NEW parts \in PartLists, NEW i \in DOMAIN parts
  PROVE  /\ i \in 1 .. Len(parts) /\ OffsetsOf(parts)[i] = End(parts, i - 1)
         /\ OffsetsOf(parts)[i] % Native = 0
         /\ Place(parts, i) \subseteq 1 .. End(parts, Len(parts))
         /\ \A at \in Place(parts, i) :
              End(parts, i - 1) < at /\ at <= End(parts, i) /\ at \in Nat
<1>1. parts \in Seq(Nat) /\ Len(parts) \in Nat /\ DOMAIN parts = 1 .. Len(parts)
  BY PartsFit, LenProperties
<1>2. OffsetsOf(parts)[i] = End(parts, i - 1)
  BY DEF OffsetsOf
<1>3. i - 1 \in 0 .. Len(parts) /\ i \in 0 .. Len(parts) /\ Len(parts) \in i .. Len(parts)
  BY <1>1
<1>4. Multiple(End(parts, i - 1))
  BY <1>3, EndsAreMultiples
<1>5. /\ parts[i] \in Nat /\ End(parts, i - 1) \in Nat /\ End(parts, i) \in Nat
      /\ End(parts, i - 1) + parts[i] <= End(parts, i)
  BY <1>1, EndsGrow
<1>6. End(parts, i) <= End(parts, Len(parts)) /\ End(parts, Len(parts)) \in Nat
  BY <1>3, EndsAreOrdered
<1>7. \A at \in Place(parts, i) : End(parts, i - 1) < at /\ at <= End(parts, i) /\ at \in Nat
  BY <1>2, <1>5 DEF Place
<1>8. Place(parts, i) \subseteq 1 .. End(parts, Len(parts))
  BY <1>5, <1>6, <1>7
<1> QED
  BY <1>1, <1>2, <1>4, <1>7, <1>8, MultipleIsAligned

LEMMA PlacesAreApart ==
  ASSUME NEW parts \in PartLists, NEW i \in DOMAIN parts, NEW j \in DOMAIN parts,
         NEW at \in Place(parts, i), at \in Place(parts, j)
  PROVE  i = j
<1>1. Len(parts) \in Nat /\ i \in 1 .. Len(parts) /\ j \in 1 .. Len(parts)
  BY PartsFit, LenProperties, PlacesAre
<1>2. /\ End(parts, i - 1) < at /\ at <= End(parts, i) /\ at \in Nat
      /\ End(parts, j - 1) < at /\ at <= End(parts, j)
  BY PlacesAre
<1>3. ASSUME NEW k \in 1 .. Len(parts), NEW l \in 1 .. Len(parts), k < l,
             at <= End(parts, k), End(parts, l - 1) < at
      PROVE  FALSE
  <2>1. k \in 0 .. Len(parts) /\ l - 1 \in k .. Len(parts)
    BY <1>1, <1>3
  <2>2. End(parts, k) <= End(parts, l - 1) /\ End(parts, k) \in Nat /\ End(parts, l - 1) \in Nat
    BY <2>1, EndsAreOrdered
  <2> QED
    BY <1>2, <1>3, <2>2
<1>4. ~(i < j) /\ ~(j < i)
  BY <1>1, <1>2, <1>3
<1> QED
  BY <1>1, <1>4

(* A byte is of the part it lies in, or clear.                               *)
LEMMA CopiedIs ==
  ASSUME NEW parts \in PartLists
  PROVE  /\ DOMAIN Copied(parts) = 1 .. End(parts, Len(parts))
         /\ Copied(parts) \in Seq(Nat) /\ Len(Copied(parts)) = End(parts, Len(parts))
         /\ End(parts, Len(parts)) \in Sizes
         /\ \A at \in DOMAIN Copied(parts), i \in DOMAIN parts :
              at \in Place(parts, i) <=> Copied(parts)[at] = i
<1> DEFINE n == Len(parts)
           e == End(parts, n)
           in(at) == {i \in DOMAIN parts : at \in Place(parts, i)}
<1>1. parts \in Seq(Nat) /\ n \in Nat /\ DOMAIN parts = 1 .. n /\ n \in 0 .. n
  BY PartsFit, LenProperties
<1>2. e \in Nat /\ e < SizeValues
  BY <1>1, EndsAreMultiples, MultipleIsAligned
<1>3. Copied(parts) = [at \in 1 .. e |-> Max(in(at) \cup {0})]
  BY DEF Copied, Place
<1>4. ASSUME NEW at \in 1 .. e
      PROVE  /\ Max(in(at) \cup {0}) \in in(at) \cup {0}
             /\ \A y \in in(at) \cup {0} : Max(in(at) \cup {0}) >= y
  <2>1. in(at) \cup {0} \in SUBSET (0 .. n) /\ in(at) \cup {0} # {}
    BY <1>1
  <2>2. IsFiniteSet(0 .. n)
    BY <1>1, FS_Interval
  <2>3. in(at) \cup {0} \in SUBSET Nat /\ IsFiniteSet(in(at) \cup {0})
    BY <2>1, <2>2, FS_Subset
  <2> HIDE DEF in
  <2> QED
    BY <2>1, <2>3, MaxIsGreatest
<1>5. \A at \in 1 .. e : Copied(parts)[at] \in Nat
  BY <1>1, <1>3, <1>4
<1>6. Copied(parts) \in [1 .. e -> Nat]
  BY <1>3, <1>5
<1>7. Copied(parts) \in Seq(Nat) /\ Len(Copied(parts)) = e
  BY <1>2, <1>6, LenProperties
<1>8. ASSUME NEW at \in 1 .. e, NEW i \in DOMAIN parts
      PROVE  at \in Place(parts, i) <=> Copied(parts)[at] = i
  <2>1. Copied(parts)[at] = Max(in(at) \cup {0})
    BY <1>3
  <2>2. ASSUME at \in Place(parts, i) PROVE Max(in(at) \cup {0}) = i
    <3>1. i \in in(at) /\ i \in Nat /\ i > 0
      BY <1>1, <2>2
    <3>2. \A j \in in(at) : j = i
      BY <2>2, PlacesAreApart
    <3>3. Max(in(at) \cup {0}) >= i /\ Max(in(at) \cup {0}) \in {i, 0}
      BY <1>4, <3>1, <3>2
    <3> QED
      BY <3>1, <3>3
  <2>3. ASSUME Max(in(at) \cup {0}) = i PROVE at \in Place(parts, i)
    <3>1. i # 0
      BY <1>1
    <3> QED
      BY <1>4, <2>3, <3>1
  <2> QED
    BY <2>1, <2>2, <2>3
<1>9. DOMAIN Copied(parts) = 1 .. e
  BY <1>6
<1>10. e \in Sizes
  BY <1>2, NativeIs DEF Sizes
<1>11. \A at \in DOMAIN Copied(parts), i \in DOMAIN parts :
         at \in Place(parts, i) <=> Copied(parts)[at] = i
  BY <1>8, <1>9
<1> QED
  BY <1>7, <1>9, <1>10, <1>11

-----------------------------------------------------------------------------
(* The inductive invariant.                                                  *)

(* A block that is allocated is held by the composer or by a Buffer, by one  *)
(* of them only, which knows how large it is.                                *)
OwnersInv ==
  /\ NoBlock \notin DOMAIN heap /\ \A block \in DOMAIN heap : heap[block] \in Seq(Nat)
  /\ ~composer.exists => composer = NoComposer
  /\ composer.buffer # NoBlock =>
       composer.buffer \in DOMAIN heap /\ composer.size = Len(heap[composer.buffer])
  /\ \A b \in DOMAIN buffers : buffers[b].data # NoBlock =>
       /\ buffers[b].data \in DOMAIN heap /\ buffers[b].size = Len(heap[buffers[b].data])
       /\ buffers[b].data # composer.buffer
  /\ \A b, c \in DOMAIN buffers :
       buffers[b].data = buffers[c].data /\ buffers[b].data # NoBlock => b = c
  /\ \A block \in DOMAIN heap :
       block = composer.buffer \/ \E b \in DOMAIN buffers : buffers[b].data = block

(* A block that was composed holds what was copied then, and the composer    *)
(* has the offsets of the block it holds.                                    *)
ComposedInv ==
  \A block \in DOMAIN composed :
    /\ composed[block] \in PartLists /\ heap[block] = Copied(composed[block])
    /\ composer.buffer = block => composer.offsets = OffsetsOf(composed[block])

Composers ==
  [offsets : Seq(Sizes), buffer : Blocks \cup {NoBlock}, size : Sizes, exists : BOOLEAN]
ComposerInv == ComposerTypeOK /\ composer \in Composers /\ OwnersInv /\ ComposedInv

LEMMA OneIsASize == 0 \in Sizes /\ 1 \in Sizes
<1>1. SizeValues \in Nat \ {0} /\ Native \in Nat \ {0, 1} /\ SizeValues % Native = 0
  BY ComposerAssumption
<1>2. 1 % Native = 1
  BY <1>1
<1>3. SizeValues # 1
  BY <1>1, <1>2
<1> QED
  BY <1>1, <1>3 DEF Sizes

LEMMA InitComposerInv == ComposerInit => ComposerInv
BY OneIsASize, ComposerAssumption
   DEF ComposerInit, ComposerInv, ComposerTypeOK, Composers, OwnersInv, ComposedInv, NoComposer

LEMMA OffsetsAreSizes ==
  ASSUME NEW parts \in PartLists
  PROVE  OffsetsOf(parts) \in Seq(Sizes)
<1>1. parts \in Seq(Nat) /\ Len(parts) \in Nat /\ DOMAIN parts = 1 .. Len(parts)
  BY PartsFit, LenProperties
<1>2. ASSUME NEW i \in 1 .. Len(parts) PROVE End(parts, i - 1) \in Sizes
  <2>1. i - 1 \in 0 .. Len(parts)
    BY <1>1
  <2>2. Multiple(End(parts, i - 1)) /\ End(parts, i - 1) < SizeValues
    BY <2>1, EndsAreMultiples
  <2> QED
    BY <2>2, MultipleIsAligned, NativeIs DEF Sizes
<1>3. OffsetsOf(parts) \in [1 .. Len(parts) -> Sizes]
  BY <1>1, <1>2 DEF OffsetsOf
<1> QED
  BY <1>1, <1>3

LEMMA ComposeKeeps ==
  ASSUME ComposerInv, NEW parts \in PartLists, NEW block \in Blocks, Compose(parts, block)
  PROVE  ComposerInv'
<1> USE DEF ComposerInv
<1>0. /\ Copied(parts) \in Seq(Nat) /\ Len(Copied(parts)) = End(parts, Len(parts))
      /\ End(parts, Len(parts)) \in Sizes /\ OffsetsOf(parts) \in Seq(Sizes)
  BY CopiedIs, OffsetsAreSizes
<1>1. ComposerTypeOK' /\ (composer \in Composers)'
  BY OneIsASize, ComposerAssumption, <1>0
     DEF ComposerTypeOK, Composers, Owner, OwnersInv, Compose, Allocated, Extended
<1>2. OwnersInv'
  <2>1. /\ DOMAIN heap' = DOMAIN heap \cup {block} /\ heap'[block] = Copied(parts)
        /\ \A other \in DOMAIN heap : other # block /\ heap'[other] = heap[other]
        /\ composer'.buffer = block /\ composer'.size = End(parts, Len(parts))
        /\ composer'.exists = TRUE /\ buffers' = buffers /\ composer.buffer = NoBlock
    BY DEF Compose, Allocated, Extended, OwnersInv, NoComposer
  <2>2. block # NoBlock
    BY ComposerAssumption
  <2>3. \A other \in DOMAIN heap' : heap'[other] \in Seq(Nat)
    BY <1>0, <2>1 DEF OwnersInv
  <2>4. \A b \in DOMAIN buffers : buffers[b].data # NoBlock =>
          /\ buffers[b].data \in DOMAIN heap' /\ buffers[b].size = Len(heap'[buffers[b].data])
          /\ buffers[b].data # composer'.buffer
    BY <2>1 DEF OwnersInv
  <2>5. \A other \in DOMAIN heap' :
          other = composer'.buffer \/ \E b \in DOMAIN buffers' : buffers'[b].data = other
    BY <2>1 DEF OwnersInv
  <2>6. composer'.size = Len(heap'[composer'.buffer])
    BY <1>0, <2>1
  <2> QED
    BY <2>1, <2>2, <2>3, <2>4, <2>5, <2>6 DEF OwnersInv
<1>3. ComposedInv'
  BY ComposerAssumption, <1>0
     DEF ComposerTypeOK, Composers, OwnersInv, ComposedInv, Compose, Allocated, Extended
<1> QED
  BY <1>1, <1>2, <1>3

LEMMA NewBufferKeeps ==
  ASSUME ComposerInv, NEW b \in Buffers, NEW block \in Blocks, NewBuffer(b, 1, block)
  PROVE  ComposerInv'
<1> USE DEF ComposerInv
<1>0. [at \in 1 .. 1 |-> 0] \in Seq(Nat) /\ Len([at \in 1 .. 1 |-> 0]) = 1
  BY OneInList
<1>1. ComposerTypeOK' /\ (composer \in Composers)'
  BY OneIsASize, ComposerAssumption, <1>0
     DEF ComposerTypeOK, Composers, Owner, OwnersInv, NewBuffer, With, Allocated, Extended
<1>2. OwnersInv'
  BY ComposerAssumption, <1>0
     DEF ComposerTypeOK, Composers, Owner, OwnersInv, NewBuffer, With, Allocated, Extended
<1>3. ComposedInv'
  BY ComposerAssumption, <1>0
     DEF ComposerTypeOK, Composers, OwnersInv, ComposedInv, NewBuffer, With, Allocated,
         Extended
<1> QED
  BY <1>1, <1>2, <1>3

LEMMA AcquireKeeps ==
  ASSUME ComposerInv, NEW b \in Buffers, Acquire(b)
  PROVE  ComposerInv'
<1> USE DEF ComposerInv
<1>1. ComposerTypeOK' /\ (composer \in Composers)'
  BY OneIsASize, ComposerAssumption
     DEF ComposerTypeOK, Composers, Owner, OwnersInv, Acquire, With, Extended, Released
<1>2. OwnersInv'
  BY ComposerAssumption
     DEF ComposerTypeOK, Composers, Owner, OwnersInv, Acquire, With, Extended, Released
<1>3. ComposedInv'
  BY ComposerAssumption
     DEF ComposerTypeOK, Composers, OwnersInv, ComposedInv, Acquire, With, Extended,
         Released
<1> QED
  BY <1>1, <1>2, <1>3

LEMMA NewEmptyBufferKeeps ==
  ASSUME ComposerInv, NEW b \in Buffers, NewEmptyBuffer(b)
  PROVE  ComposerInv'
<1> USE DEF ComposerInv
<1>1. ComposerTypeOK' /\ (composer \in Composers)'
  BY OneIsASize, ComposerAssumption
     DEF ComposerTypeOK, Composers, Owner, OwnersInv, NewEmptyBuffer, With, Extended
<1>2. OwnersInv'
  BY ComposerAssumption
     DEF ComposerTypeOK, Composers, Owner, OwnersInv, NewEmptyBuffer, With, Extended
<1>3. ComposedInv'
  BY ComposerAssumption
     DEF ComposerTypeOK, Composers, OwnersInv, ComposedInv, NewEmptyBuffer, With, Extended
<1> QED
  BY <1>1, <1>2, <1>3

LEMMA DestroyBufferKeeps ==
  ASSUME ComposerInv, NEW b \in Buffers, DestroyBuffer(b)
  PROVE  ComposerInv'
<1> USE DEF ComposerInv
<1>1. ComposerTypeOK' /\ (composer \in Composers)'
  BY OneIsASize, ComposerAssumption
     DEF ComposerTypeOK, Composers, Owner, OwnersInv, DestroyBuffer, Without, Freed,
         Restrict
<1>2. OwnersInv'
  BY ComposerAssumption
     DEF ComposerTypeOK, Composers, Owner, OwnersInv, DestroyBuffer, Without, Freed,
         Restrict
<1>3. ComposedInv'
  BY ComposerAssumption
     DEF ComposerTypeOK, Composers, OwnersInv, ComposedInv, DestroyBuffer, Without, Freed,
         Restrict
<1> QED
  BY <1>1, <1>2, <1>3

LEMMA MoveConstructKeeps ==
  ASSUME ComposerInv, NEW b \in Buffers, NEW rhs \in Buffers, MoveConstruct(b, rhs)
  PROVE  ComposerInv'
<1> USE DEF ComposerInv
<1>1. ComposerTypeOK' /\ (composer \in Composers)'
  BY OneIsASize, ComposerAssumption
     DEF ComposerTypeOK, Composers, Owner, OwnersInv, MoveConstruct, With, Extended,
         MovedFrom
<1>2. OwnersInv'
  BY ComposerAssumption
     DEF ComposerTypeOK, Composers, Owner, OwnersInv, MoveConstruct, With, Extended,
         MovedFrom
<1>3. ComposedInv'
  BY ComposerAssumption
     DEF ComposerTypeOK, Composers, OwnersInv, ComposedInv, MoveConstruct, With, Extended,
         MovedFrom
<1> QED
  BY <1>1, <1>2, <1>3

LEMMA MoveAssignKeeps ==
  ASSUME ComposerInv, NEW b \in Buffers, NEW rhs \in Buffers, MoveAssign(b, rhs)
  PROVE  ComposerInv'
<1> USE DEF ComposerInv
<1>1. ComposerTypeOK' /\ (composer \in Composers)'
  BY OneIsASize, ComposerAssumption
     DEF ComposerTypeOK, Composers, Owner, OwnersInv, MoveAssign, Freed, Restrict, MovedFrom
<1>2. OwnersInv'
  <2>1. /\ b \in DOMAIN buffers /\ rhs \in DOMAIN buffers /\ b # rhs
        /\ composer' = composer /\ DOMAIN buffers' = DOMAIN buffers
        /\ buffers'[b] = buffers[rhs]
        /\ buffers'[rhs].data = NoBlock /\ buffers'[rhs].size = buffers[rhs].size
        /\ \A c \in DOMAIN buffers \ {b, rhs} : buffers'[c] = buffers[c]
    BY DEF MoveAssign, MovedFrom, ComposerTypeOK, Owner
  <2>2. /\ DOMAIN heap' = DOMAIN heap \ {buffers[b].data}
        /\ \A block \in DOMAIN heap' : heap'[block] = heap[block]
    BY DEF MoveAssign, Freed, Restrict
  <2>3. NoBlock \notin DOMAIN heap' /\ \A block \in DOMAIN heap' : heap'[block] \in Seq(Nat)
    BY <2>2 DEF OwnersInv
  <2>4. composer.buffer # NoBlock => composer.buffer \in DOMAIN heap'
    BY <2>1, <2>2 DEF OwnersInv
  <2>5. \A c \in DOMAIN buffers' : buffers'[c].data # NoBlock =>
          /\ buffers'[c].data \in DOMAIN heap' /\ buffers'[c].size = Len(heap[buffers'[c].data])
          /\ buffers'[c].data # composer.buffer
    <3> SUFFICES ASSUME NEW c \in DOMAIN buffers', buffers'[c].data # NoBlock
                 PROVE  /\ buffers'[c].data \in DOMAIN heap'
                        /\ buffers'[c].size = Len(heap[buffers'[c].data])
                        /\ buffers'[c].data # composer.buffer
      OBVIOUS
    <3>1. PICK d \in DOMAIN buffers : d # b /\ buffers'[c] = buffers[d]
      <4>1. CASE c = b
        BY <2>1, <4>1
      <4>2. CASE c # b
        BY <2>1, <4>2
      <4> QED
        BY <4>1, <4>2
    <3>2. /\ buffers[d].data \in DOMAIN heap /\ buffers[d].data # composer.buffer
          /\ buffers[d].size = Len(heap[buffers[d].data])
      BY <3>1 DEF OwnersInv
    <3>3. buffers[d].data # buffers[b].data
      BY <2>1, <3>1 DEF OwnersInv
    <3> QED
      BY <2>2, <3>1, <3>2, <3>3
  <2>6. \A c, d \in DOMAIN buffers' :
          buffers'[c].data = buffers'[d].data /\ buffers'[c].data # NoBlock => c = d
    BY <2>1 DEF OwnersInv
  <2>7. \A block \in DOMAIN heap' :
          block = composer.buffer \/ \E c \in DOMAIN buffers' : buffers'[c].data = block
    <3> SUFFICES ASSUME NEW block \in DOMAIN heap', block # composer.buffer
                 PROVE  \E c \in DOMAIN buffers' : buffers'[c].data = block
      OBVIOUS
    <3>1. block \in DOMAIN heap /\ block # buffers[b].data
      BY <2>2
    <3>2. PICK d \in DOMAIN buffers : buffers[d].data = block
      BY <3>1 DEF OwnersInv
    <3>3. CASE d = rhs
      BY <2>1, <3>2, <3>3
    <3>4. CASE d # rhs
      <4>1. d # b
        BY <3>1, <3>2
      <4> QED
        BY <2>1, <3>2, <3>4, <4>1
    <3> QED
      BY <3>3, <3>4
  <2>8. composer.buffer # NoBlock => composer.size = Len(heap'[composer.buffer])
    BY <2>2, <2>4 DEF OwnersInv
  <2>9. \A c \in DOMAIN buffers' : buffers'[c].data # NoBlock =>
          buffers'[c].size = Len(heap'[buffers'[c].data])
    BY <2>2, <2>5
  <2>10. ~composer.exists => composer = NoComposer
    BY DEF OwnersInv
  <2> QED
    BY <2>1, <2>3, <2>4, <2>5, <2>6, <2>7, <2>8, <2>9, <2>10 DEF OwnersInv
<1>3. ComposedInv'
  BY ComposerAssumption
     DEF ComposerTypeOK, Composers, OwnersInv, ComposedInv, MoveAssign, Freed, Restrict,
         MovedFrom
<1> QED
  BY <1>1, <1>2, <1>3

LEMMA DestroyComposerKeeps ==
  ASSUME ComposerInv, DestroyComposer
  PROVE  ComposerInv'
<1> USE DEF ComposerInv
<1>1. ComposerTypeOK' /\ (composer \in Composers)'
  BY OneIsASize, ComposerAssumption
     DEF ComposerTypeOK, Composers, Owner, OwnersInv, DestroyComposer, Freed, Restrict,
         NoComposer
<1>2. OwnersInv'
  BY ComposerAssumption
     DEF ComposerTypeOK, Composers, Owner, OwnersInv, DestroyComposer, Freed, Restrict,
         NoComposer
<1>3. ComposedInv'
  BY ComposerAssumption
     DEF ComposerTypeOK, Composers, OwnersInv, ComposedInv, DestroyComposer, Freed,
         Restrict, NoComposer
<1> QED
  BY <1>1, <1>2, <1>3


LEMMA ComposerStepInv == ComposerInv /\ [ComposerNext]_composerVars => ComposerInv'
<1> SUFFICES ASSUME ComposerInv, [ComposerNext]_composerVars PROVE ComposerInv'
  OBVIOUS
<1>1. CASE ComposerNext
  BY <1>1, ComposeKeeps, NewBufferKeeps, AcquireKeeps, NewEmptyBufferKeeps,
     DestroyBufferKeeps, MoveConstructKeeps, MoveAssignKeeps, DestroyComposerKeeps
     DEF ComposerNext
<1>2. CASE UNCHANGED composerVars
  BY <1>2 DEF composerVars, ComposerInv, ComposerTypeOK, Composers, OwnersInv, ComposedInv
<1> QED
  BY <1>1, <1>2

LEMMA PartsKeptFollows == ComposerInv => PartsKept
<1> SUFFICES ASSUME ComposerInv, NEW block \in DOMAIN composed,
                    NEW parts, parts = composed[block],
                    NEW offsets,
                    offsets = IF composer.buffer = block THEN composer.offsets
                              ELSE OffsetsOf(parts)
             PROVE  /\ \A i \in DOMAIN parts :
                         /\ offsets[i] % Native = 0
                         /\ (offsets[i] + 1) .. (offsets[i] + parts[i])
                              \subseteq DOMAIN heap[block]
                    /\ \A at \in DOMAIN heap[block], i \in DOMAIN parts :
                         at \in (offsets[i] + 1) .. (offsets[i] + parts[i])
                           <=> heap[block][at] = i
  BY DEF PartsKept
<1>1. parts \in PartLists /\ heap[block] = Copied(parts) /\ offsets = OffsetsOf(parts)
  BY DEF ComposerInv, ComposedInv
<1>2. ASSUME NEW i \in DOMAIN parts
      PROVE  Place(parts, i) = (offsets[i] + 1) .. (offsets[i] + parts[i])
  BY <1>1 DEF Place
<1>3. \A i \in DOMAIN parts :
        offsets[i] % Native = 0 /\ Place(parts, i) \subseteq DOMAIN heap[block]
  BY <1>1, PlacesAre, CopiedIs
<1>4. \A at \in DOMAIN heap[block], i \in DOMAIN parts :
        at \in Place(parts, i) <=> heap[block][at] = i
  BY <1>1, CopiedIs
<1>5. ASSUME NEW i \in DOMAIN parts
      PROVE  /\ offsets[i] % Native = 0
             /\ (offsets[i] + 1) .. (offsets[i] + parts[i]) \subseteq DOMAIN heap[block]
  BY <1>2, <1>3, Zenon
<1>6. ASSUME NEW at \in DOMAIN heap[block], NEW i \in DOMAIN parts
      PROVE  at \in (offsets[i] + 1) .. (offsets[i] + parts[i]) <=> heap[block][at] = i
  BY <1>2, <1>4, Zenon
<1> QED
  BY <1>5, <1>6, Zenon

LEMMA OneOwnerFollows == ComposerInv => OneOwner
<1> SUFFICES ASSUME ComposerInv, NEW block \in Blocks,
                    NEW owners, owners = {b \in DOMAIN buffers : buffers[b].data = block}
             PROVE  /\ Cardinality(owners) + (IF composer.buffer = block THEN 1 ELSE 0) =
                         IF block \in DOMAIN heap THEN 1 ELSE 0
                    /\ \A b \in owners : buffers[b].size = Len(heap[block])
                    /\ composer.buffer = block => composer.size = Len(heap[block])
  BY DEF OneOwner
<1>1. block # NoBlock /\ OwnersInv
  BY ComposerAssumption DEF ComposerInv
<1>2. \A b \in owners : buffers[b].size = Len(heap[block])
  BY <1>1 DEF OwnersInv
<1>3. composer.buffer = block => composer.size = Len(heap[block])
  BY <1>1 DEF OwnersInv
<1>4. owners = {} => Cardinality(owners) = 0
  BY FS_EmptySet
<1>5. ASSUME NEW b \in owners
      PROVE  Cardinality(owners) = 1 /\ block \in DOMAIN heap /\ composer.buffer # block
  <2>1. owners = {b}
    BY <1>1 DEF OwnersInv
  <2>2. Cardinality(owners) = 1
    BY <2>1, FS_Singleton, Zenon
  <2> QED
    BY <1>1, <2>2 DEF OwnersInv
<1>6. CASE owners = {}
  BY <1>1, <1>4, <1>6 DEF OwnersInv
<1>7. CASE owners # {}
  <2>1. Cardinality(owners) = 1 /\ block \in DOMAIN heap /\ composer.buffer # block
    BY <1>5, <1>7
  <2> QED
    BY <1>2, <1>3, <2>1
<1> QED
  BY <1>2, <1>3, <1>6, <1>7

(* A Buffer and a BinaryComposer have a size_t for a size and hold memory    *)
(* that is allocated, or none, for any parts that memory can hold.           *)
THEOREM ComposersAreTyped == ComposerSpec => []ComposerTypeOK
<1>1. ComposerInv => ComposerTypeOK
  BY DEF ComposerInv
<1> QED
  BY <1>1, InitComposerInv, ComposerStepInv, PTL DEF ComposerSpec

(* Whatever parts BinaryComposer copies, wherever their sizes round to, each *)
(* is found whole at its aligned offset, in a block that was handed on too.  *)
THEOREM CompositionsKeepParts == ComposerSpec => []PartsKept
BY InitComposerInv, ComposerStepInv, PartsKeptFollows, PTL DEF ComposerSpec

(* However often acquire(), moves and destructors pass it on, a block is     *)
(* freed once and by the one who holds it.                                   *)
THEOREM BlocksHaveOneOwner == ComposerSpec => []OneOwner
BY InitComposerInv, ComposerStepInv, OneOwnerFollows, PTL DEF ComposerSpec

-----------------------------------------------------------------------------
(* What the functions of Scopes hold at each step.                           *)

Guarding == {"AdjustCurrentProcessTokenPrivilege", "AddAdminToObjectDacl"}
(* What the functions guard of what they take: two resources, the second     *)
(* made from the first.                                                      *)
Outer(f) == IF f = "AddAdminToObjectDacl" THEN "descriptor" ELSE "process"
Inner(f) == IF f = "AddAdminToObjectDacl" THEN "list" ELSE "token"
GuardLists(f) == {<<>>, <<Outer(f)>>, <<Outer(f), Inner(f)>>}
GuardsAt(f, p) ==
  LET n == IF f = "AddAdminToObjectDacl" THEN p - 1 ELSE p
  IN IF n <= 1 THEN <<>> ELSE IF n = 2 THEN <<Outer(f)>> ELSE <<Outer(f), Inner(f)>>
(* What the others hold when they come to a step.                            *)
HeldAt(f, p) ==
  IF f = "DuplicateSecurityContext"
  THEN {r \in {"process", "token", "duplicate"} :
          \/ r = "process" /\ p > 1
          \/ r = "token" /\ p > 2
          \/ r = "duplicate" /\ p > 3}
  ELSE IF f \in {"Run", "RunInContext"}
  THEN {r \in {"thread", "process"} : p = 3 \/ (r = "process" /\ p = 4)}
  ELSE IF f # "LoadBinaryResource" /\ p = 2 THEN {"string"} ELSE {}

(* A function that runs has guarded what it took so far; when it is left,    *)
(* what is still guarded is what it still holds, the first of the two while  *)
(* it holds the second.                                                      *)
HeldInv ==
  /\ function \in Guarding =>
       /\ guards \in GuardLists(function) /\ held = ToSet(guards)
       /\ outcome = "running" => guards = GuardsAt(function, pc)
  /\ function \in DOMAIN Bodies \ Guarding => guards = <<>> /\ held = HeldAt(function, pc)
  /\ function = "none" => guards = <<>> /\ held = {}

(* How a function is left, and that nothing is guarded once it was.          *)
OutcomeInv ==
  /\ function = "none" => ~leaving /\ outcome \in {"running", "terminated"}
  /\ function # "none" => outcome # "terminated"
  /\ outcome = "running" => ~leaving
  /\ function # "none" /\ outcome = "returned" => pc = Len(Body) + 1
  /\ function # "none" /\ outcome = "thrown" => pc \in 1 .. Len(Body) /\ This.mayFail
  /\ ~leaving /\ outcome # "running" => guards = <<>>

(* The outermost scope of a native file system has what was before it, those *)
(* inside of it have found names that are not redirected.                    *)
NativeInv ==
  /\ contexts = <<>> => redirected = before
  /\ contexts # <<>> => ~redirected /\ contexts[1] = before
  /\ \A i \in DOMAIN contexts : i # 1 => contexts[i] = FALSE

ScopeInv == ScopeTypeOK /\ HeldInv /\ OutcomeInv /\ NativeInv

LEMMA ListsOfGuards ==
  ASSUME NEW a, NEW b, a # b
  PROVE  /\ ToSet(<<a>>) = {a} /\ ToSet(<<a, b>>) = {a, b}
         /\ IsInjective(<<a>>) /\ IsInjective(<<a, b>>)
         /\ Last(<<a>>) = a /\ Front(<<a>>) = <<>>
         /\ Last(<<a, b>>) = b /\ Front(<<a, b>>) = <<a>>
         /\ <<>> \o <<a>> = <<a>> /\ <<a>> \o <<b>> = <<a, b>>
         /\ <<>> \o <<>> = <<>> /\ <<a>> \o <<>> = <<a>> /\ <<a, b>> \o <<>> = <<a, b>>
<1>1. ToSet(<<a>>) = {a} /\ IsInjective(<<a>>)
  BY DEF ToSet, IsInjective
<1>2. ToSet(<<a, b>>) = {a, b}
  BY DEF ToSet
<1>3. IsInjective(<<a, b>>)
  BY DEF IsInjective
<1>4. Last(<<a>>) = a /\ Last(<<a, b>>) = b
  BY DEF Last
<1>5. <<>> \in Seq({a, b}) /\ <<a>> \in Seq({a, b}) /\ <<b>> \in Seq({a, b})
      /\ <<a, b>> \in Seq({a, b})
  OBVIOUS
<1>6. Front(<<a>>) = <<>>
  <2>1. SubSeq(<<a>>, 1, 0) = <<>>
    BY SubSeqEmpty
  <2>2. Len(<<a>>) - 1 = 0
    OBVIOUS
  <2> QED
    BY <2>1, <2>2 DEF Front
<1>7. Front(<<a, b>>) = <<a>>
  <2> DEFINE s == SubSeq(<<a, b>>, 1, 1)
  <2>1. \A i \in 1 .. 1 : <<a, b>>[i] \in {a, b}
    OBVIOUS
  <2>2. s \in Seq({a, b}) /\ Len(s) = 1 /\ \A i \in 1 .. 1 : s[i] = <<a, b>>[1 + i - 1]
    BY <2>1, SubSeqProperties, 1 - 1 + 1 = 1, 1 <= 1
  <2>3. s[1] = a
    BY <2>2
  <2> HIDE DEF s
  <2>4. s = <<a>>
    BY <2>2, <2>3
  <2>5. Len(<<a, b>>) - 1 = 1
    OBVIOUS
  <2> QED
    BY <2>4, <2>5 DEF Front, s
<1>8. <<>> \o <<a>> = <<a>> /\ <<>> \o <<>> = <<>> /\ <<a>> \o <<>> = <<a>>
      /\ <<a, b>> \o <<>> = <<a, b>>
  BY <1>5, ConcatEmptySeq
<1>9. <<a>> \o <<b>> = <<a, b>>
  <2> DEFINE s == <<a>> \o <<b>>
  <2>1. Len(<<a>>) = 1 /\ Len(<<b>>) = 1
    OBVIOUS
  <2>2. /\ s \in Seq({a, b}) /\ Len(s) = Len(<<a>>) + Len(<<b>>)
        /\ \A i \in 1 .. Len(<<a>>) + Len(<<b>>) :
             s[i] = IF i <= Len(<<a>>) THEN <<a>>[i] ELSE <<b>>[i - Len(<<a>>)]
    BY <1>5, ConcatProperties
  <2> HIDE DEF s
  <2>3. Len(s) = 2 /\ s[1] = a /\ s[2] = b
    BY <2>1, <2>2
  <2>4. \A i \in 1 .. 2 : s[i] = <<a, b>>[i]
    BY <2>3
  <2>5. s = <<a, b>>
    BY <1>5, <2>2, <2>3, <2>4, SeqEqual
  <2> QED
    BY <2>5 DEF s
<1> QED
  BY <1>1, <1>2, <1>3, <1>4, <1>6, <1>7, <1>8, <1>9

LEMMA FourSteps ==
  ASSUME NEW a, NEW b, NEW c, NEW d
  PROVE  <<a, b>> \o <<c, d>> = <<a, b, c, d>>
<1> DEFINE s == <<a, b>> \o <<c, d>>
<1>1. <<a, b>> \in Seq({a, b, c, d}) /\ <<c, d>> \in Seq({a, b, c, d})
      /\ <<a, b, c, d>> \in Seq({a, b, c, d})
  OBVIOUS
<1>2. /\ s \in Seq({a, b, c, d}) /\ Len(s) = Len(<<a, b>>) + Len(<<c, d>>)
      /\ \A i \in 1 .. Len(<<a, b>>) + Len(<<c, d>>) :
           s[i] = IF i <= Len(<<a, b>>) THEN <<a, b>>[i] ELSE <<c, d>>[i - Len(<<a, b>>)]
  BY <1>1, ConcatProperties
<1>3. Len(<<a, b>>) = 2 /\ Len(<<c, d>>) = 2
  OBVIOUS
<1> HIDE DEF s
<1>4. Len(s) = 4 /\ s[1] = a /\ s[2] = b /\ s[3] = c /\ s[4] = d
  BY <1>2, <1>3
<1>5. \A i \in 1 .. 4 : s[i] = <<a, b, c, d>>[i]
  BY <1>4
<1>6. s = <<a, b, c, d>>
  BY <1>1, <1>2, <1>4, <1>5, SeqEqual
<1> QED
  BY <1>6 DEF s

LEMMA BodiesAre ==
  /\ DOMAIN Bodies = {"AdjustCurrentProcessTokenPrivilege", "AddAdminToObjectDacl",
       "DuplicateSecurityContext", "Run", "RunInContext", "FormatGuid", "FormatSid",
       "FormatWindowsError", "GetKnownFolderPath", "LoadBinaryResource"}
  /\ Bodies["AdjustCurrentProcessTokenPrivilege"] =
       << Take("process", {}), Take("token", {"process"}), Ask({}), Ask({"token"}) >>
  /\ Bodies["AddAdminToObjectDacl"] = AddAdminToObjectDacl
  /\ Bodies["DuplicateSecurityContext"] = DuplicateSecurityContext
  /\ Bodies["Run"] = Run /\ Bodies["RunInContext"] = Run
  /\ \A f \in {"FormatGuid", "FormatSid", "FormatWindowsError", "GetKnownFolderPath"} :
       Bodies[f] = << TakeUnguarded({"string"}, {}), Give("string") >>
  /\ Bodies["LoadBinaryResource"] = LoadBinaryResource
<1>1. DOMAIN Bodies = {"AdjustCurrentProcessTokenPrivilege", "AddAdminToObjectDacl",
       "DuplicateSecurityContext", "Run", "RunInContext", "FormatGuid", "FormatSid",
       "FormatWindowsError", "GetKnownFolderPath", "LoadBinaryResource"}
  BY DEF Bodies
<1>2. AdjustCurrentProcessTokenPrivilege =
        << Take("process", {}), Take("token", {"process"}), Ask({}), Ask({"token"}) >>
  BY FourSteps DEF AdjustCurrentProcessTokenPrivilege, AdjustTokenPrivilege
<1>3. /\ Bodies["AdjustCurrentProcessTokenPrivilege"] = AdjustCurrentProcessTokenPrivilege
      /\ Bodies["AddAdminToObjectDacl"] = AddAdminToObjectDacl
      /\ Bodies["DuplicateSecurityContext"] = DuplicateSecurityContext
  BY DEF Bodies
<1>4. Bodies["Run"] = Run /\ Bodies["RunInContext"] = Run
      /\ Bodies["LoadBinaryResource"] = LoadBinaryResource
  BY DEF Bodies, RunInContext
<1>5. \A f \in {"FormatGuid", "FormatSid", "FormatWindowsError", "GetKnownFolderPath"} :
       Bodies[f] = << TakeUnguarded({"string"}, {}), Give("string") >>
  BY DEF Bodies, FormatGuid, FormatSid, FormatWindowsError, GetKnownFolderPath
<1> QED
  BY <1>1, <1>2, <1>3, <1>4, <1>5

LEMMA GuardingBodies ==
  ASSUME NEW f \in Guarding
  PROVE  /\ Len(Bodies[f]) = 4 /\ GuardsAt(f, 1) = <<>> /\ GuardsAt(f, 5) \in GuardLists(f)
         /\ \A p \in 1 .. 4 :
              /\ GuardsAt(f, p) \in GuardLists(f)
              /\ GuardsAt(f, p + 1) = GuardsAt(f, p) \o Bodies[f][p].guards
              /\ ToSet(GuardsAt(f, p + 1)) = ToSet(GuardsAt(f, p)) \cup Bodies[f][p].takes
              /\ Bodies[f][p].uses \subseteq ToSet(GuardsAt(f, p)) /\ Bodies[f][p].gives = {}
              /\ \A g \in GuardLists(f) :
                   Bodies[f][p].takes \cap ToSet(g) # {} => Bodies[f][p].uses \subseteq ToSet(g)
<1>1. CASE f = "AdjustCurrentProcessTokenPrivilege"
  <2>1. /\ Bodies[f][1] = Step({"process"}, <<"process">>, {}, {}, TRUE)
        /\ Bodies[f][2] = Step({"token"}, <<"token">>, {}, {"process"}, TRUE)
        /\ Bodies[f][3] = Step({}, <<>>, {}, {}, TRUE)
        /\ Bodies[f][4] = Step({}, <<>>, {}, {"token"}, TRUE)
        /\ Len(Bodies[f]) = 4
    BY <1>1, BodiesAre DEF Take, Ask
  <2>2. /\ GuardsAt(f, 1) = <<>> /\ GuardsAt(f, 2) = <<"process">>
        /\ GuardsAt(f, 3) = <<"process", "token">> /\ GuardsAt(f, 4) = <<"process", "token">>
        /\ GuardsAt(f, 5) = <<"process", "token">>
        /\ GuardLists(f) = {<<>>, <<"process">>, <<"process", "token">>}
    BY <1>1 DEF GuardsAt, Outer, Inner, GuardLists
  <2>3. ToSet(<<>>) = {} /\ ToSet(<<"process">>) = {"process"}
        /\ ToSet(<<"process", "token">>) = {"process", "token"}
    BY "process" # "token", ListsOfGuards, EmptyList
  <2>4. /\ <<>> \o <<"process">> = <<"process">>
        /\ <<"process">> \o <<"token">> = <<"process", "token">>
        /\ <<"process", "token">> \o <<>> = <<"process", "token">>
    BY "process" # "token", ListsOfGuards
  <2>5. ASSUME NEW p \in 1 .. 4
        PROVE  /\ GuardsAt(f, p) \in GuardLists(f)
               /\ GuardsAt(f, p + 1) = GuardsAt(f, p) \o Bodies[f][p].guards
               /\ ToSet(GuardsAt(f, p + 1)) = ToSet(GuardsAt(f, p)) \cup Bodies[f][p].takes
               /\ Bodies[f][p].uses \subseteq ToSet(GuardsAt(f, p)) /\ Bodies[f][p].gives = {}
               /\ \A g \in GuardLists(f) :
                    Bodies[f][p].takes \cap ToSet(g) # {} =>
                      Bodies[f][p].uses \subseteq ToSet(g)
    <3>1. p = 1 \/ p = 2 \/ p = 3 \/ p = 4
      OBVIOUS
    <3>2. CASE p = 1
      <4>1. /\ GuardsAt(f, p) \in GuardLists(f)
            /\ ToSet(GuardsAt(f, p + 1)) = ToSet(GuardsAt(f, p)) \cup Bodies[f][p].takes
            /\ Bodies[f][p].uses \subseteq ToSet(GuardsAt(f, p)) /\ Bodies[f][p].gives = {}
            /\ \A g \in GuardLists(f) :
                 Bodies[f][p].takes \cap ToSet(g) # {} => Bodies[f][p].uses \subseteq ToSet(g)
        BY <3>2, <2>1, <2>2, <2>3 DEF Step
      <4>2. /\ GuardsAt(f, p) = <<>> /\ GuardsAt(f, p + 1) = <<"process">>
            /\ Bodies[f][p].guards = <<"process">>
        BY <3>2, <2>1, <2>2 DEF Step
      <4> QED
        BY <4>1, <4>2, <2>4, Zenon
    <3>3. CASE p = 2
      <4>1. /\ GuardsAt(f, p) \in GuardLists(f)
            /\ ToSet(GuardsAt(f, p + 1)) = ToSet(GuardsAt(f, p)) \cup Bodies[f][p].takes
            /\ Bodies[f][p].uses \subseteq ToSet(GuardsAt(f, p)) /\ Bodies[f][p].gives = {}
            /\ \A g \in GuardLists(f) :
                 Bodies[f][p].takes \cap ToSet(g) # {} => Bodies[f][p].uses \subseteq ToSet(g)
        BY <3>3, <2>1, <2>2, <2>3 DEF Step
      <4>2. /\ GuardsAt(f, p) = <<"process">> /\ GuardsAt(f, p + 1) = <<"process", "token">>
            /\ Bodies[f][p].guards = <<"token">>
        BY <3>3, <2>1, <2>2 DEF Step
      <4> QED
        BY <4>1, <4>2, <2>4, Zenon
    <3>4. CASE p = 3
      <4>1. /\ GuardsAt(f, p) \in GuardLists(f)
            /\ ToSet(GuardsAt(f, p + 1)) = ToSet(GuardsAt(f, p)) \cup Bodies[f][p].takes
            /\ Bodies[f][p].uses \subseteq ToSet(GuardsAt(f, p)) /\ Bodies[f][p].gives = {}
            /\ \A g \in GuardLists(f) :
                 Bodies[f][p].takes \cap ToSet(g) # {} => Bodies[f][p].uses \subseteq ToSet(g)
        BY <3>4, <2>1, <2>2, <2>3 DEF Step
      <4>2. /\ GuardsAt(f, p) = <<"process", "token">>
            /\ GuardsAt(f, p + 1) = <<"process", "token">>
            /\ Bodies[f][p].guards = <<>>
        BY <3>4, <2>1, <2>2 DEF Step
      <4> QED
        BY <4>1, <4>2, <2>4, Zenon
    <3>5. CASE p = 4
      <4>1. /\ GuardsAt(f, p) \in GuardLists(f)
            /\ ToSet(GuardsAt(f, p + 1)) = ToSet(GuardsAt(f, p)) \cup Bodies[f][p].takes
            /\ Bodies[f][p].uses \subseteq ToSet(GuardsAt(f, p)) /\ Bodies[f][p].gives = {}
            /\ \A g \in GuardLists(f) :
                 Bodies[f][p].takes \cap ToSet(g) # {} => Bodies[f][p].uses \subseteq ToSet(g)
        BY <3>5, <2>1, <2>2, <2>3 DEF Step
      <4>2. /\ GuardsAt(f, p) = <<"process", "token">>
            /\ GuardsAt(f, p + 1) = <<"process", "token">>
            /\ Bodies[f][p].guards = <<>>
        <5>1. /\ GuardsAt(f, 4) = <<"process", "token">> /\ GuardsAt(f, 5) = <<"process", "token">>
              /\ Bodies[f][4].guards = <<>>
          BY <2>1, <2>2 DEF Step
        <5> QED
          BY <3>5, <5>1
      <4> QED
        BY <4>1, <4>2, <2>4, Zenon
    <3> QED
      BY <3>1, <3>2, <3>3, <3>4, <3>5
  <2> QED
    BY <2>1, <2>2, <2>5
<1>2. CASE f = "AddAdminToObjectDacl"
  <2>1. /\ Bodies[f][1] = Step({}, <<>>, {}, {}, TRUE)
        /\ Bodies[f][2] = Step({"descriptor"}, <<"descriptor">>, {}, {}, TRUE)
        /\ Bodies[f][3] = Step({"list"}, <<"list">>, {}, {"descriptor"}, TRUE)
        /\ Bodies[f][4] = Step({}, <<>>, {}, {"list"}, TRUE)
        /\ Len(Bodies[f]) = 4
    BY <1>2, BodiesAre DEF Take, Ask, AddAdminToObjectDacl
  <2>2. /\ GuardsAt(f, 1) = <<>> /\ GuardsAt(f, 2) = <<>> /\ GuardsAt(f, 3) = <<"descriptor">>
        /\ GuardsAt(f, 4) = <<"descriptor", "list">>
        /\ GuardsAt(f, 5) = <<"descriptor", "list">>
        /\ GuardLists(f) = {<<>>, <<"descriptor">>, <<"descriptor", "list">>}
    BY <1>2 DEF GuardsAt, Outer, Inner, GuardLists
  <2>3. ToSet(<<>>) = {} /\ ToSet(<<"descriptor">>) = {"descriptor"}
        /\ ToSet(<<"descriptor", "list">>) = {"descriptor", "list"}
    BY "descriptor" # "list", ListsOfGuards, EmptyList
  <2>4. /\ <<>> \o <<"descriptor">> = <<"descriptor">> /\ <<>> \o <<>> = <<>>
        /\ <<"descriptor">> \o <<"list">> = <<"descriptor", "list">>
        /\ <<"descriptor", "list">> \o <<>> = <<"descriptor", "list">>
    BY "descriptor" # "list", ListsOfGuards
  <2>5. ASSUME NEW p \in 1 .. 4
        PROVE  /\ GuardsAt(f, p) \in GuardLists(f)
               /\ GuardsAt(f, p + 1) = GuardsAt(f, p) \o Bodies[f][p].guards
               /\ ToSet(GuardsAt(f, p + 1)) = ToSet(GuardsAt(f, p)) \cup Bodies[f][p].takes
               /\ Bodies[f][p].uses \subseteq ToSet(GuardsAt(f, p)) /\ Bodies[f][p].gives = {}
               /\ \A g \in GuardLists(f) :
                    Bodies[f][p].takes \cap ToSet(g) # {} =>
                      Bodies[f][p].uses \subseteq ToSet(g)
    <3>1. p = 1 \/ p = 2 \/ p = 3 \/ p = 4
      OBVIOUS
    <3>2. CASE p = 1
      <4>1. /\ GuardsAt(f, p) \in GuardLists(f)
            /\ ToSet(GuardsAt(f, p + 1)) = ToSet(GuardsAt(f, p)) \cup Bodies[f][p].takes
            /\ Bodies[f][p].uses \subseteq ToSet(GuardsAt(f, p)) /\ Bodies[f][p].gives = {}
            /\ \A g \in GuardLists(f) :
                 Bodies[f][p].takes \cap ToSet(g) # {} => Bodies[f][p].uses \subseteq ToSet(g)
        BY <3>2, <2>1, <2>2, <2>3 DEF Step
      <4>2. /\ GuardsAt(f, p) = <<>> /\ GuardsAt(f, p + 1) = <<>>
            /\ Bodies[f][p].guards = <<>>
        BY <3>2, <2>1, <2>2 DEF Step
      <4> QED
        BY <4>1, <4>2, <2>4, Zenon
    <3>3. CASE p = 2
      <4>1. /\ GuardsAt(f, p) \in GuardLists(f)
            /\ ToSet(GuardsAt(f, p + 1)) = ToSet(GuardsAt(f, p)) \cup Bodies[f][p].takes
            /\ Bodies[f][p].uses \subseteq ToSet(GuardsAt(f, p)) /\ Bodies[f][p].gives = {}
            /\ \A g \in GuardLists(f) :
                 Bodies[f][p].takes \cap ToSet(g) # {} => Bodies[f][p].uses \subseteq ToSet(g)
        BY <3>3, <2>1, <2>2, <2>3 DEF Step
      <4>2. /\ GuardsAt(f, p) = <<>> /\ GuardsAt(f, p + 1) = <<"descriptor">>
            /\ Bodies[f][p].guards = <<"descriptor">>
        BY <3>3, <2>1, <2>2 DEF Step
      <4> QED
        BY <4>1, <4>2, <2>4, Zenon
    <3>4. CASE p = 3
      <4>1. /\ GuardsAt(f, p) \in GuardLists(f)
            /\ ToSet(GuardsAt(f, p + 1)) = ToSet(GuardsAt(f, p)) \cup Bodies[f][p].takes
            /\ Bodies[f][p].uses \subseteq ToSet(GuardsAt(f, p)) /\ Bodies[f][p].gives = {}
            /\ \A g \in GuardLists(f) :
                 Bodies[f][p].takes \cap ToSet(g) # {} => Bodies[f][p].uses \subseteq ToSet(g)
        BY <3>4, <2>1, <2>2, <2>3 DEF Step
      <4>2. /\ GuardsAt(f, p) = <<"descriptor">>
            /\ GuardsAt(f, p + 1) = <<"descriptor", "list">>
            /\ Bodies[f][p].guards = <<"list">>
        BY <3>4, <2>1, <2>2 DEF Step
      <4> QED
        BY <4>1, <4>2, <2>4, Zenon
    <3>5. CASE p = 4
      <4>1. /\ GuardsAt(f, p) \in GuardLists(f)
            /\ ToSet(GuardsAt(f, p + 1)) = ToSet(GuardsAt(f, p)) \cup Bodies[f][p].takes
            /\ Bodies[f][p].uses \subseteq ToSet(GuardsAt(f, p)) /\ Bodies[f][p].gives = {}
            /\ \A g \in GuardLists(f) :
                 Bodies[f][p].takes \cap ToSet(g) # {} => Bodies[f][p].uses \subseteq ToSet(g)
        BY <3>5, <2>1, <2>2, <2>3 DEF Step
      <4>2. /\ GuardsAt(f, p) = <<"descriptor", "list">>
            /\ GuardsAt(f, p + 1) = <<"descriptor", "list">>
            /\ Bodies[f][p].guards = <<>>
        BY <3>5, <2>1, <2>2 DEF Step
      <4> QED
        BY <4>1, <4>2, <2>4, Zenon
    <3> QED
      BY <3>1, <3>2, <3>3, <3>4, <3>5
  <2> QED
    BY <2>1, <2>2, <2>5
<1> QED
  BY <1>1, <1>2 DEF Guarding

ForgottenBy(f) == IF f = "DuplicateSecurityContext" THEN {"process", "token"} ELSE {}
OwnedAfter(f) == IF f = "DuplicateSecurityContext" THEN {"duplicate"} ELSE {}
Others == {"DuplicateSecurityContext", "Run", "RunInContext", "FormatGuid", "FormatSid",
           "FormatWindowsError", "GetKnownFolderPath", "LoadBinaryResource"}

LEMMA OtherBodies ==
  ASSUME NEW f \in Others
  PROVE  /\ Len(Bodies[f]) \in Nat /\ HeldAt(f, 1) = {}
         /\ HeldAt(f, Len(Bodies[f]) + 1) \ ForgottenBy(f) = OwnedAfter(f)
         /\ \A p \in 1 .. Len(Bodies[f]) :
              /\ Bodies[f][p].guards = <<>>
              /\ HeldAt(f, p + 1) = (HeldAt(f, p) \cup Bodies[f][p].takes) \ Bodies[f][p].gives
              /\ Bodies[f][p].uses \cup Bodies[f][p].gives \subseteq HeldAt(f, p)
              /\ Bodies[f][p].mayFail => HeldAt(f, p) \subseteq ForgottenBy(f)
         /\ \A p \in 1 .. Len(Bodies[f]) + 1, i \in 1 .. Len(Bodies[f]) :
              i < p /\ Bodies[f][i].takes \cap HeldAt(f, p) # {} =>
                Bodies[f][i].uses \subseteq HeldAt(f, p)
<1>1. CASE f = "DuplicateSecurityContext"
  <2>1. /\ Bodies[f][1] = Step({"process"}, <<>>, {}, {}, TRUE)
        /\ Bodies[f][2] = Step({"token"}, <<>>, {}, {"process"}, TRUE)
        /\ Bodies[f][3] = Step({"duplicate"}, <<>>, {}, {"token"}, TRUE)
        /\ Len(Bodies[f]) = 3
    BY <1>1, BodiesAre DEF DuplicateSecurityContext, TakeUnguarded
  <2>2. /\ HeldAt(f, 1) = {} /\ HeldAt(f, 2) = {"process"}
        /\ HeldAt(f, 3) = {"process", "token"}
        /\ HeldAt(f, 4) = {"process", "token", "duplicate"}
    BY <1>1 DEF HeldAt
  <2>3. ForgottenBy(f) = {"process", "token"} /\ OwnedAfter(f) = {"duplicate"}
    BY <1>1 DEF ForgottenBy, OwnedAfter
  <2>4. \A p \in 1 .. 3 : p = 1 \/ p = 2 \/ p = 3
    OBVIOUS
  <2>5. \A p \in 1 .. 4 : p = 1 \/ p = 2 \/ p = 3 \/ p = 4
    OBVIOUS
  <2> QED
    BY <2>1, <2>2, <2>3, <2>4, <2>5 DEF Step
<1>2. CASE f \in {"Run", "RunInContext"}
  <2>1. /\ Bodies[f][1] = Step({}, <<>>, {}, {}, TRUE)
        /\ Bodies[f][2] = Step({"thread", "process"}, <<>>, {}, {}, TRUE)
        /\ Bodies[f][3] = Step({}, <<>>, {"thread"}, {}, FALSE)
        /\ Bodies[f][4] = Step({}, <<>>, {"process"}, {}, FALSE)
        /\ Len(Bodies[f]) = 4
    <3>1. Bodies[f] = Run
      BY <1>2, BodiesAre
    <3> QED
      BY <3>1 DEF Run, TakeUnguarded, Ask, Give
  <2>2. /\ HeldAt(f, 1) = {} /\ HeldAt(f, 2) = {} /\ HeldAt(f, 3) = {"thread", "process"}
        /\ HeldAt(f, 4) = {"process"} /\ HeldAt(f, 5) = {}
    BY <1>2 DEF HeldAt
  <2>3. ForgottenBy(f) = {} /\ OwnedAfter(f) = {}
    BY <1>2 DEF ForgottenBy, OwnedAfter
  <2>4. \A p \in 1 .. 4 : p = 1 \/ p = 2 \/ p = 3 \/ p = 4
    OBVIOUS
  <2>5. \A p \in 1 .. 5 : p = 1 \/ p = 2 \/ p = 3 \/ p = 4 \/ p = 5
    OBVIOUS
  <2> QED
    BY <2>1, <2>2, <2>3, <2>4, <2>5 DEF Step
<1>3. CASE f \in {"FormatGuid", "FormatSid", "FormatWindowsError", "GetKnownFolderPath"}
  <2>1. /\ Bodies[f][1] = Step({"string"}, <<>>, {}, {}, TRUE)
        /\ Bodies[f][2] = Step({}, <<>>, {"string"}, {}, FALSE)
        /\ Len(Bodies[f]) = 2
    <3>1. Bodies[f] = << TakeUnguarded({"string"}, {}), Give("string") >>
      BY <1>3, BodiesAre
    <3> QED
      BY <3>1 DEF TakeUnguarded, Give
  <2>2. HeldAt(f, 1) = {} /\ HeldAt(f, 2) = {"string"} /\ HeldAt(f, 3) = {}
    BY <1>3 DEF HeldAt
  <2>3. ForgottenBy(f) = {} /\ OwnedAfter(f) = {}
    BY <1>3 DEF ForgottenBy, OwnedAfter
  <2>4. \A p \in 1 .. 2 : p = 1 \/ p = 2
    OBVIOUS
  <2>5. \A p \in 1 .. 3 : p = 1 \/ p = 2 \/ p = 3
    OBVIOUS
  <2> QED
    BY <2>1, <2>2, <2>3, <2>4, <2>5 DEF Step
<1>4. CASE f = "LoadBinaryResource"
  <2>1. Len(Bodies[f]) = 3 /\ \A p \in 1 .. 3 : Bodies[f][p] = Step({}, <<>>, {}, {}, TRUE)
    BY <1>4, BodiesAre DEF LoadBinaryResource, Ask
  <2>2. \A p : HeldAt(f, p) = {}
    BY <1>4 DEF HeldAt
  <2>3. ForgottenBy(f) = {} /\ OwnedAfter(f) = {}
    BY <1>4 DEF ForgottenBy, OwnedAfter
  <2> QED
    BY <2>1, <2>2, <2>3 DEF Step
<1> QED
  BY <1>1, <1>2, <1>3, <1>4 DEF Others

LEMMA AllBodies ==
  /\ DOMAIN Bodies = Guarding \cup Others /\ Guarding \cap Others = {}
  /\ "none" \notin DOMAIN Bodies
BY BodiesAre DEF Guarding, Others

LEMMA GuardListsAre ==
  ASSUME NEW f, NEW g \in GuardLists(f)
  PROVE  /\ g \in Seq(Resources) /\ ToSet(g) \subseteq Resources /\ IsInjective(g)
         /\ g # <<>> => Front(g) \in GuardLists(f) /\ ToSet(Front(g)) = ToSet(g) \ {Last(g)}
<1>1. Outer(f) # Inner(f) /\ Outer(f) \in Resources /\ Inner(f) \in Resources
  BY DEF Outer, Inner, Resources
<1>2. CASE g = <<>>
  BY <1>2, EmptyList
<1>3. CASE g = <<Outer(f)>>
  <2>1. ToSet(g) = {Outer(f)} /\ IsInjective(g) /\ Last(g) = Outer(f) /\ Front(g) = <<>>
    BY <1>1, <1>3, ListsOfGuards, Zenon
  <2>2. g \in Seq(Resources)
    BY <1>1, <1>3
  <2>3. ToSet(Front(g)) = {}
    BY <2>1, EmptyList
  <2>4. <<>> \in GuardLists(f)
    BY DEF GuardLists
  <2> QED
    BY <1>1, <2>1, <2>2, <2>3, <2>4
<1>4. CASE g = <<Outer(f), Inner(f)>>
  <2>1. /\ ToSet(g) = {Outer(f), Inner(f)} /\ IsInjective(g)
        /\ Last(g) = Inner(f) /\ Front(g) = <<Outer(f)>>
    BY <1>1, <1>4, ListsOfGuards, Zenon
  <2>2. g \in Seq(Resources)
    BY <1>1, <1>4
  <2>3. ToSet(Front(g)) = {Outer(f)}
    BY <1>1, <2>1, ListsOfGuards, Zenon
  <2>4. <<Outer(f)>> \in GuardLists(f)
    BY DEF GuardLists
  <2> QED
    BY <1>1, <2>1, <2>2, <2>3, <2>4
<1> QED
  BY <1>2, <1>3, <1>4 DEF GuardLists

LEMMA HeldIsTyped ==
  ASSUME HeldInv, function \in DOMAIN Bodies \cup {"none"}
  PROVE  /\ guards \in Seq(Resources) /\ held \subseteq Resources
         /\ ToSet(guards) \subseteq held /\ IsInjective(guards)
<1>1. CASE function \in Guarding
  BY <1>1, GuardListsAre DEF HeldInv
<1>2. CASE function \notin Guarding
  <2>1. guards = <<>>
    BY <1>2 DEF HeldInv
  <2>2. held = {} \/ held = HeldAt(function, pc)
    BY <1>2 DEF HeldInv
  <2>3. held \subseteq Resources
    BY <2>2 DEF HeldAt, Resources
  <2> QED
    BY <2>1, <2>3, EmptyList
<1> QED
  BY <1>1, <1>2

(* What is left of ScopeTypeOK when HeldInv says what is guarded and held.   *)
CallTypeOK ==
  /\ function \in DOMAIN Bodies \cup {"none"}
  /\ function # "none" => pc \in 1 .. Len(Body) + 1
  /\ leaving \in BOOLEAN /\ outcome \in {"running", "returned", "thrown", "terminated"}
NativeTypeOK == redirected \in BOOLEAN /\ before \in BOOLEAN /\ contexts \in Seq(BOOLEAN)

LEMMA ScopeInvIs ==
  ScopeInv <=> CallTypeOK /\ NativeTypeOK /\ HeldInv /\ OutcomeInv /\ NativeInv
BY HeldIsTyped DEF ScopeInv, ScopeTypeOK, CallTypeOK, NativeTypeOK

LEMMA InitScopeInv == ScopeInit => ScopeInv
<1> SUFFICES ASSUME ScopeInit
             PROVE  CallTypeOK /\ NativeTypeOK /\ HeldInv /\ OutcomeInv /\ NativeInv
  BY ScopeInvIs
<1>1. function = "none" /\ function \notin DOMAIN Bodies /\ function \notin Guarding
  BY AllBodies DEF ScopeInit
<1> QED
  <2>1. CallTypeOK /\ HeldInv /\ OutcomeInv
    BY <1>1 DEF ScopeInit, CallTypeOK, HeldInv, OutcomeInv
  <2>2. contexts = <<>> /\ DOMAIN contexts = {} /\ contexts \in Seq(BOOLEAN)
    BY EmptyList DEF ScopeInit
  <2>3. NativeTypeOK /\ NativeInv
    BY <2>2 DEF ScopeInit, NativeTypeOK, NativeInv
  <2> QED
    BY <2>1, <2>3

LEMMA BodyIs ==
  ASSUME ScopeInv, function # "none"
  PROVE  /\ Len(Body) \in Nat /\ pc \in 1 .. Len(Body) + 1
         /\ function \in Guarding \/ function \in Others
<1>1. function \in Guarding \/ function \in Others
  BY AllBodies DEF ScopeInv, ScopeTypeOK
<1>2. Len(Body) \in Nat
  BY <1>1, GuardingBodies, OtherBodies DEF Body
<1> QED
  BY <1>1, <1>2 DEF ScopeInv, ScopeTypeOK

(* A step of the function that runs.                                         *)
LEMMA StepSucceedsKeeps ==
  ASSUME ScopeInv, StepSucceeds
  PROVE  CallTypeOK' /\ HeldInv' /\ OutcomeInv'
<1> DEFINE f == function
<1>1. /\ f # "none" /\ ~leaving /\ outcome = "running" /\ pc <= Len(Body)
      /\ held' = (held \cup This.takes) \ This.gives /\ guards' = guards \o This.guards
      /\ pc' = pc + 1 /\ function' = function /\ leaving' = leaving /\ outcome' = outcome
  BY DEF StepSucceeds, Running
<1>2. Len(Body) \in Nat /\ pc \in 1 .. Len(Body) /\ (f \in Guarding \/ f \in Others)
  BY <1>1, BodyIs
<1>3. Body' = Body /\ Body = Bodies[f] /\ This = Bodies[f][pc]
  BY <1>1 DEF Body, This
<1>4. CallTypeOK'
  BY <1>1, <1>2, <1>3 DEF CallTypeOK, ScopeInv, ScopeTypeOK
<1>5. OutcomeInv'
  BY <1>1 DEF OutcomeInv
<1>6. CASE f \in Guarding
  <2>1. pc \in 1 .. 4 /\ guards = GuardsAt(f, pc) /\ held = ToSet(guards) /\ f \notin Others
    BY <1>1, <1>2, <1>3, <1>6, GuardingBodies, AllBodies DEF ScopeInv, HeldInv
  <2>2. /\ GuardsAt(f, pc + 1) = GuardsAt(f, pc) \o This.guards
        /\ ToSet(GuardsAt(f, pc + 1)) = ToSet(GuardsAt(f, pc)) \cup This.takes
        /\ This.gives = {}
    BY <1>3, <1>6, <2>1, GuardingBodies
  <2>3. GuardsAt(f, pc + 1) \in GuardLists(f)
    <3>1. pc + 1 \in 1 .. 4 \/ pc + 1 = 5
      BY <2>1
    <3> QED
      BY <1>6, <3>1, GuardingBodies
  <2>4. guards' = GuardsAt(f, pc + 1) /\ held' = ToSet(guards')
    BY <1>1, <2>1, <2>2, Zenon
  <2> QED
    BY <1>1, <1>4, <1>5, <1>6, <2>1, <2>3, <2>4, AllBodies DEF HeldInv
<1>7. CASE f \in Others
  <2>1. guards = <<>> /\ held = HeldAt(f, pc) /\ f \notin Guarding /\ f \in DOMAIN Bodies
    BY <1>7, AllBodies DEF ScopeInv, HeldInv
  <2>2. This.guards = <<>> /\ HeldAt(f, pc + 1) = (HeldAt(f, pc) \cup This.takes) \ This.gives
    BY <1>2, <1>3, <1>7, OtherBodies
  <2>3. guards' = <<>>
    <3>1. <<>> \o <<>> = <<>>
      BY ListsOfGuards, "process" # "token"
    <3> QED
      BY <1>1, <2>1, <2>2, <3>1, Zenon
  <2> QED
    BY <1>1, <1>4, <1>5, <2>1, <2>2, <2>3 DEF HeldInv
<1> QED
  BY <1>2, <1>4, <1>5, <1>6, <1>7

LEMMA UnwindKeeps ==
  ASSUME ScopeInv, Unwind
  PROVE  CallTypeOK' /\ HeldInv' /\ OutcomeInv'
<1>1. /\ leaving /\ guards # <<>> /\ held' = held \ {Last(guards)} /\ guards' = Front(guards)
      /\ function' = function /\ pc' = pc /\ leaving' = leaving /\ outcome' = outcome
  BY DEF Unwind
<1>2. Body' = Body /\ This' = This
  BY <1>1 DEF Body, This
<1>3. function \in Guarding /\ function # "none"
  BY <1>1 DEF ScopeInv, ScopeTypeOK, HeldInv
<1>4. guards \in GuardLists(function) /\ held = ToSet(guards) /\ outcome # "running"
  BY <1>1, <1>3 DEF ScopeInv, HeldInv, OutcomeInv
<1>5. guards' \in GuardLists(function) /\ held' = ToSet(guards')
  BY <1>1, <1>4, GuardListsAre
<1>6. HeldInv'
  BY <1>1, <1>3, <1>4, <1>5 DEF HeldInv
<1>7. CallTypeOK' /\ OutcomeInv'
  BY <1>1, <1>2, <1>3, <1>4 DEF ScopeInv, ScopeTypeOK, CallTypeOK, OutcomeInv
<1> QED
  BY <1>6, <1>7

LEMMA EnterKeeps ==
  ASSUME ScopeInv, NEW f \in DOMAIN Bodies, Enter(f)
  PROVE  CallTypeOK' /\ HeldInv' /\ OutcomeInv'
<1>1. /\ function = "none" /\ outcome # "terminated"
      /\ function' = f /\ pc' = 1 /\ outcome' = "running"
      /\ leaving' = leaving /\ guards' = guards /\ held' = held
  BY DEF Enter, Outside
<1>2. guards = <<>> /\ held = {} /\ ~leaving
  BY <1>1 DEF ScopeInv, HeldInv, OutcomeInv
<1>3. (f \in Guarding \/ f \in Others) /\ f # "none" /\ (f \in Guarding => f \notin Others)
  BY AllBodies
<1>4. Body' = Bodies[f] /\ Len(Bodies[f]) \in Nat
  BY <1>1, <1>3, GuardingBodies, OtherBodies DEF Body
<1>5. CallTypeOK' /\ OutcomeInv'
  BY <1>1, <1>2, <1>3, <1>4 DEF ScopeInv, ScopeTypeOK, CallTypeOK, OutcomeInv
<1>6. CASE f \in Guarding
  <2>1. GuardsAt(f, 1) = <<>> /\ <<>> \in GuardLists(f) /\ ToSet(<<>>) = {}
    BY <1>6, GuardingBodies, EmptyList DEF GuardLists
  <2> QED
    BY <1>1, <1>2, <1>3, <1>5, <1>6, <2>1 DEF HeldInv
<1>7. CASE f \in Others
  <2>1. HeldAt(f, 1) = {} /\ f \notin Guarding
    BY <1>3, <1>7, OtherBodies
  <2> QED
    BY <1>1, <1>2, <1>3, <1>5, <2>1 DEF HeldInv
<1> QED
  BY <1>3, <1>5, <1>6, <1>7

(* The other steps of a call leave what is held and guarded as it is, or     *)
(* there is nothing.                                                         *)
LEMMA LeavingKeeps ==
  ASSUME ScopeInv, StepFails \/ ReturnFromBody \/ Left \/ CallerDone
  PROVE  CallTypeOK' /\ HeldInv' /\ OutcomeInv'
<1>1. function # "none"
  BY DEF StepFails, ReturnFromBody, Left, CallerDone, Running, ScopeInv, OutcomeInv
<1>2. Len(Body) \in Nat /\ pc \in 1 .. Len(Body) + 1
  BY <1>1, BodyIs
<1>3. ASSUME StepFails \/ ReturnFromBody \/ Left
      PROVE  /\ function' = function /\ pc' = pc /\ guards' = guards /\ held' = held
             /\ Body' = Body /\ This' = This
  BY <1>3 DEF StepFails, ReturnFromBody, Left, Body, This
<1>4. CASE StepFails
  BY <1>1, <1>2, <1>3, <1>4
     DEF StepFails, Running, ScopeInv, ScopeTypeOK, CallTypeOK, HeldInv, OutcomeInv
<1>5. CASE ReturnFromBody
  BY <1>1, <1>2, <1>3, <1>5
     DEF ReturnFromBody, Running, ScopeInv, ScopeTypeOK, CallTypeOK, HeldInv, OutcomeInv
<1>6. CASE Left
  BY <1>1, <1>2, <1>3, <1>6 DEF Left, ScopeInv, ScopeTypeOK, CallTypeOK, HeldInv, OutcomeInv
<1>7. CASE CallerDone
  <2>1. function' = "none" /\ held' = {} /\ guards' = guards /\ guards = <<>>
        /\ outcome' = "running" /\ leaving' = FALSE
    BY <1>1, <1>7 DEF CallerDone, ScopeInv, ScopeTypeOK, OutcomeInv
  <2>2. "none" \notin DOMAIN Bodies /\ "none" \notin Guarding
    BY AllBodies
  <2> QED
    BY <2>1, <2>2 DEF CallTypeOK, HeldInv, OutcomeInv
<1> QED
  BY <1>4, <1>5, <1>6, <1>7

LEMMA NativeKeeps ==
  ASSUME ScopeInv, OpenNative \/ CloseNative \/ RevertFails \/ Restarted
  PROVE  ScopeInv'
<1>1. NativeTypeOK' /\ NativeInv'
  <2>1. CASE OpenNative
    <3>1. contexts \in Seq(BOOLEAN) /\ redirected \in BOOLEAN /\ before \in BOOLEAN
      BY DEF ScopeInv, ScopeTypeOK
    <3>2. Len(contexts) \in Nat /\ DOMAIN contexts = 1 .. Len(contexts)
      BY <3>1, LenProperties
    <3>3. contexts' = Append(contexts, redirected) /\ redirected' = FALSE /\ before' = before
      BY <2>1 DEF OpenNative
    <3>4. /\ contexts' \in Seq(BOOLEAN) /\ DOMAIN contexts' = 1 .. Len(contexts) + 1
          /\ contexts'[Len(contexts) + 1] = redirected
          /\ \A i \in 1 .. Len(contexts) : contexts'[i] = contexts[i]
      BY <3>1, <3>2, <3>3, AppendProperties, LenProperties
    <3>5. contexts = <<>> <=> Len(contexts) = 0
      BY <3>1, EmptySeq
    <3>6. contexts' # <<>>
      BY <3>2, <3>4, EmptySeq
    <3>7. contexts'[1] = before
      BY <3>2, <3>4, <3>5 DEF ScopeInv, NativeInv
    <3>8. \A i \in DOMAIN contexts' : i # 1 => contexts'[i] = FALSE
      BY <3>1, <3>2, <3>4, <3>5 DEF ScopeInv, NativeInv
    <3> QED
      BY <3>1, <3>3, <3>4, <3>6, <3>7, <3>8 DEF NativeTypeOK, NativeInv
  <2>2. CASE CloseNative
    <3>1. contexts \in Seq(BOOLEAN) /\ contexts # <<>> /\ before \in BOOLEAN
      BY <2>2 DEF ScopeInv, ScopeTypeOK, CloseNative
    <3> DEFINE n == Len(contexts)
    <3>2. n \in Nat \ {0} /\ DOMAIN contexts = 1 .. n
      BY <3>1, LenProperties, EmptySeq
    <3>3. contexts' = SubSeq(contexts, 1, n - 1) /\ redirected' = contexts[n]
          /\ before' = before
      BY <2>2 DEF CloseNative, Front, Last
    <3>4. /\ contexts' \in Seq(BOOLEAN) /\ Len(contexts') = n - 1
          /\ \A i \in 1 .. n - 1 : contexts'[i] = contexts[i]
      <4>1. \A i \in 1 .. n - 1 : contexts[i] \in BOOLEAN
        BY <3>1, <3>2, ElementOfSeq
      <4> QED
        BY <3>2, <3>3, <4>1, SubSeqProperties
    <3>5. DOMAIN contexts' = 1 .. n - 1 /\ (contexts' = <<>> <=> n = 1)
      BY <3>2, <3>4, LenProperties, EmptySeq
    <3>6. /\ contexts[1] = before /\ \A i \in 1 .. n : i # 1 => contexts[i] = FALSE
      BY <3>1, <3>2 DEF ScopeInv, NativeInv
    <3>7. contexts[n] \in BOOLEAN
      BY <3>1, <3>2, ElementOfSeq
    <3> HIDE DEF n
    <3>8. CASE n = 1
      BY <3>1, <3>2, <3>3, <3>4, <3>5, <3>6, <3>7, <3>8 DEF NativeTypeOK, NativeInv
    <3>9. CASE n # 1
      <4>1. contexts'[1] = before /\ redirected' = FALSE
        BY <3>2, <3>3, <3>4, <3>6, <3>9
      <4>2. \A i \in DOMAIN contexts' : i # 1 => contexts'[i] = FALSE
        BY <3>2, <3>4, <3>5, <3>6
      <4> QED
        BY <3>1, <3>3, <3>4, <3>5, <3>9, <4>1, <4>2 DEF NativeTypeOK, NativeInv
    <3> QED
      BY <3>8, <3>9
  <2>3. CASE RevertFails
    BY <2>3 DEF RevertFails, native, ScopeInv, ScopeTypeOK, NativeTypeOK, NativeInv
  <2>4. CASE Restarted
    BY <2>4, EmptyList DEF Restarted, NativeTypeOK, NativeInv
  <2> QED
    BY <2>1, <2>2, <2>3, <2>4
<1>2. /\ function = "none" /\ function' = function /\ pc' = pc /\ leaving' = leaving
      /\ guards' = guards /\ held' = held
      /\ outcome' \in {"running", "terminated"}
  BY DEF OpenNative, CloseNative, RevertFails, Restarted, Outside, scopeCall, ScopeInv,
         OutcomeInv
<1>3. CallTypeOK' /\ OutcomeInv'
  BY <1>2 DEF ScopeInv, ScopeTypeOK, CallTypeOK, HeldInv, OutcomeInv
<1>4. HeldInv'
  BY <1>2, AllBodies DEF ScopeInv, HeldInv
<1> QED
  BY <1>1, <1>3, <1>4, ScopeInvIs, PTL

LEMMA ScopeStepInv == ScopeInv /\ [ScopeNext]_scopeVars => ScopeInv'
<1> SUFFICES ASSUME ScopeInv, [ScopeNext]_scopeVars PROVE ScopeInv'
  OBVIOUS
<1>1. CASE OpenNative \/ CloseNative \/ RevertFails \/ Restarted
  BY <1>1, NativeKeeps
<1>2. ASSUME UNCHANGED native PROVE NativeTypeOK' /\ NativeInv'
  BY <1>2 DEF native, ScopeInv, ScopeTypeOK, NativeTypeOK, NativeInv
<1>3. ASSUME CallTypeOK' /\ HeldInv' /\ OutcomeInv', UNCHANGED native PROVE ScopeInv'
  BY <1>2, <1>3, ScopeInvIs, PTL
<1>4. CASE \E f \in DOMAIN Bodies : Enter(f)
  BY <1>3, <1>4, EnterKeeps DEF Enter
<1>5. CASE StepSucceeds
  BY <1>3, <1>5, StepSucceedsKeeps DEF StepSucceeds
<1>6. CASE Unwind
  BY <1>3, <1>6, UnwindKeeps DEF Unwind
<1>7. CASE StepFails \/ ReturnFromBody \/ Left \/ CallerDone
  BY <1>3, <1>7, LeavingKeeps DEF StepFails, ReturnFromBody, Left, CallerDone
<1>8. CASE UNCHANGED scopeVars
  BY <1>8
     DEF scopeVars, scopeCall, native, ScopeInv, ScopeTypeOK, HeldInv, OutcomeInv,
         NativeInv, Body, This
<1> QED
  BY <1>1, <1>4, <1>5, <1>6, <1>7, <1>8 DEF ScopeNext

LEMMA NothingLeftOpenFollows == ScopeInv => NothingLeftOpen
<1> SUFFICES ASSUME ScopeInv PROVE NothingLeftOpen
  OBVIOUS
<1> DEFINE f == function
<1>1. f # "none" =>
        Len(Body) \in Nat /\ pc \in 1 .. Len(Body) + 1 /\ (f \in Guarding \/ f \in Others)
  BY BodyIs
<1>2. Body = Bodies[f] /\ This = Bodies[f][pc]
  BY DEF Body, This
<1>3. ToSet(guards) \subseteq held /\ IsInjective(guards)
  BY HeldIsTyped DEF ScopeInv, ScopeTypeOK
<1>4. IF contexts = <<>> THEN redirected = before ELSE ~redirected
  BY DEF ScopeInv, NativeInv
<1>5. f # "none" /\ ~leaving /\ outcome # "running" => held \ Forgotten = Owned
  <2> SUFFICES ASSUME f # "none", ~leaving, outcome # "running" PROVE held \ Forgotten = Owned
    OBVIOUS
  <2>1. guards = <<>> /\ outcome \in {"returned", "thrown"}
    BY DEF ScopeInv, ScopeTypeOK, OutcomeInv
  <2>2. CASE f \in Guarding
    <3>1. held = {}
      BY <2>1, <2>2, EmptyList DEF ScopeInv, HeldInv
    <3>2. Owned = {}
      BY <2>2 DEF Owned, Guarding
    <3> QED
      BY <3>1, <3>2
  <2>3. CASE f \in Others
    <3>1. held = HeldAt(f, pc)
      BY <2>3, AllBodies DEF ScopeInv, HeldInv
    <3>2. Forgotten = ForgottenBy(f)
      BY DEF Forgotten, ForgottenBy
    <3>3. CASE outcome = "returned"
      <4>1. pc = Len(Bodies[f]) + 1
        BY <1>2, <3>3 DEF ScopeInv, OutcomeInv
      <4>2. Owned = OwnedAfter(f)
        BY <3>3 DEF Owned, OwnedAfter
      <4> QED
        BY <2>3, <3>1, <3>2, <4>1, <4>2, OtherBodies
    <3>4. CASE outcome = "thrown"
      <4>1. pc \in 1 .. Len(Bodies[f]) /\ Bodies[f][pc].mayFail
        BY <1>2, <3>4 DEF ScopeInv, OutcomeInv
      <4>2. Owned = {}
        BY <3>4 DEF Owned
      <4>3. HeldAt(f, pc) \subseteq ForgottenBy(f)
        BY <2>3, <4>1, OtherBodies
      <4> QED
        BY <3>1, <3>2, <4>2, <4>3
    <3> QED
      BY <2>1, <3>3, <3>4
  <2> QED
    BY <1>1, <2>2, <2>3
<1>6. Running /\ pc <= Len(Body) => This.uses \cup This.gives \subseteq held
  <2> SUFFICES ASSUME f # "none", outcome = "running", pc <= Len(Body)
               PROVE  This.uses \cup This.gives \subseteq held
    BY DEF Running
  <2>1. pc \in 1 .. Len(Bodies[f])
    BY <1>1, <1>2
  <2>2. CASE f \in Guarding
    <3>1. pc \in 1 .. 4 /\ held = ToSet(GuardsAt(f, pc))
      BY <2>1, <2>2, GuardingBodies DEF ScopeInv, HeldInv
    <3> QED
      BY <1>2, <2>2, <3>1, GuardingBodies
  <2>3. CASE f \in Others
    <3>1. held = HeldAt(f, pc)
      BY <2>3, AllBodies DEF ScopeInv, HeldInv
    <3> QED
      BY <1>2, <2>1, <2>3, <3>1, OtherBodies
  <2> QED
    BY <1>1, <2>2, <2>3
<1>7. ASSUME f # "none", NEW i \in 1 .. pc - 1, Body[i].takes \cap held # {}
      PROVE  Body[i].uses \subseteq held
  <2>1. i \in 1 .. Len(Bodies[f]) /\ pc \in 1 .. Len(Bodies[f]) + 1 /\ i < pc
    BY <1>1, <1>2, <1>7
  <2>2. CASE f \in Guarding
    <3>1. i \in 1 .. 4 /\ guards \in GuardLists(f) /\ held = ToSet(guards)
      BY <2>1, <2>2, GuardingBodies DEF ScopeInv, HeldInv
    <3> QED
      BY <1>2, <1>7, <2>2, <3>1, GuardingBodies
  <2>3. CASE f \in Others
    <3>1. held = HeldAt(f, pc)
      BY <2>3, AllBodies DEF ScopeInv, HeldInv
    <3> QED
      BY <1>2, <1>7, <2>1, <2>3, <3>1, OtherBodies
  <2> QED
    BY <1>1, <1>7, <2>2, <2>3
<1> QED
  BY <1>3, <1>4, <1>5, <1>6, <1>7 DEF NothingLeftOpen

(* ScopeTypeOK, with what is held and guarded at each step of a function.    *)
THEOREM ScopesAreTyped == ScopeSpec => []ScopeTypeOK
<1>1. ScopeInv => ScopeTypeOK
  BY DEF ScopeInv
<1> QED
  BY <1>1, InitScopeInv, ScopeStepInv, PTL DEF ScopeSpec

(* Whichever call of the system fails, the functions that use a              *)
(* ScopeDestructor, and those that call on their own, give back all but what *)
(* DuplicateSecurityContext() forgets; and scopes of a native file system,   *)
(* nested as deep as one likes, leave the thread as it was.                  *)
THEOREM ScopesLeaveNothing == ScopeSpec => []NothingLeftOpen
BY InitScopeInv, ScopeStepInv, NothingLeftOpenFollows, PTL DEF ScopeSpec

-----------------------------------------------------------------------------
(* Directories.                                                              *)

Good == {"ERROR_SUCCESS", "ERROR_ALREADY_EXISTS"}

(* The outcome of the last level says what is at the end of the path, unless *)
(* others have changed it since or denied it.                                *)
LastLevelInv == result \in {"running", "returned", "thrown"} /\ level = Depth =>
  /\ lastError \in Good => present /\ (disturbed \/ tree[Depth] # "absent")
  /\ lastError \notin Good /\ ~disturbed /\ Depth \notin Restricted =>
       tree[Depth] # "directory"

(* Mkdir() is left at the last level, by what its outcome was.               *)
ResultInv ==
  /\ result = "returned" => level = Depth /\ lastError \in Good
  /\ result = "thrown" => level = Depth /\ lastError \notin Good

DirectoryInv == DirectoryTypeOK /\ LastLevelInv /\ ResultInv

LEMMA InitDirectoryInv == DirectoryInit => DirectoryInv
<1> SUFFICES ASSUME DirectoryInit PROVE DirectoryInv
  OBVIOUS
<1>1. disturbed \in BOOLEAN /\ present \in BOOLEAN
  BY DEF DirectoryInit
<1>2. DirectoryTypeOK
  BY <1>1, DirectoriesAssumption DEF DirectoryInit, DirectoryTypeOK, Errors
<1> QED
  BY <1>2 DEF DirectoryInit, DirectoryInv, LastLevelInv, ResultInv

LEMMA DepthIsLevel == Depth \in Levels /\ Depth \in Nat \ {0}
BY DirectoriesAssumption DEF Levels

(* A directory that is created has a directory above it, and nothing below.  *)
LEMMA CreatedWellFormed ==
  ASSUME tree \in Trees, level \in Nat, level < Depth,
         "ERROR_SUCCESS" \in Outcomes(level + 1)
  PROVE  /\ [tree EXCEPT ![level + 1] = "directory"] \in Trees
         /\ level + 1 \in Levels
<1>1. level + 1 \in Levels /\ level + 1 > 0
  BY DepthIsLevel DEF Levels
<1>2. /\ tree[level + 1] = "absent"
      /\ level + 1 > 1 => tree[level] = "directory"
  BY <1>1 DEF Outcomes
<1> DEFINE t == [tree EXCEPT ![level + 1] = "directory"]
<1>3. t \in [Levels -> {"absent", "directory", "file"}]
  BY <1>1 DEF Trees
<1>4. ASSUME NEW i \in Levels \ {1}, t[i] # "absent" PROVE t[i - 1] = "directory"
  <2>1. i - 1 \in Levels /\ i \in Nat
    BY <1>4, DepthIsLevel DEF Levels
  <2>2. CASE i = level + 1
    BY <1>1, <1>2, <1>4, <2>1, <2>2 DEF Trees, Levels
  <2>3. CASE i # level + 1
    <3>1. tree[i] # "absent"
      BY <1>4, <2>3 DEF Trees
    <3>2. tree[i - 1] = "directory"
      BY <1>4, <3>1 DEF Trees, WellFormed
    <3> QED
      BY <2>1, <3>2 DEF Trees
  <2> QED
    BY <2>2, <2>3
<1> QED
  BY <1>1, <1>3, <1>4 DEF Trees, WellFormed

LEMMA DirectoryTypeStep == DirectoryTypeOK /\ [DirectoryNext]_directoryVars => DirectoryTypeOK'
<1> SUFFICES ASSUME DirectoryTypeOK, [DirectoryNext]_directoryVars PROVE DirectoryTypeOK'
  OBVIOUS
<1> USE DepthIsLevel DEF DirectoryTypeOK, Errors
<1>1. CASE Mkdir
  <2>1. disturbed' \in BOOLEAN /\ present' \in BOOLEAN
    BY <1>1 DEF Mkdir
  <2> QED
    BY <1>1, <2>1 DEF Mkdir
<1>2. ASSUME level < Depth, NEW error \in Outcomes(level + 1), CreateNext(error)
      PROVE  DirectoryTypeOK'
  <2>1. error \in Errors
    BY <1>2 DEF Outcomes
  <2>2. tree' \in Trees
    BY <1>2, CreatedWellFormed DEF CreateNext
  <2>3. present' \in BOOLEAN
    BY <1>2 DEF CreateNext
  <2> QED
    BY <1>2, <2>1, <2>2, <2>3 DEF CreateNext, Noted
<1>3. CASE Finish
  BY <1>3 DEF Finish
<1>4. CASE MkdirDone
  <2>1. disturbed' \in BOOLEAN /\ present' \in BOOLEAN
    BY <1>4 DEF MkdirDone
  <2> QED
    BY <1>4, <2>1 DEF MkdirDone
<1>5. ASSUME NEW i \in Levels, NEW what \in {"absent", "directory", "file"},
             OthersChange(i, what)
      PROVE  DirectoryTypeOK'
  <2>1. tree' \in Trees
    BY <1>5 DEF OthersChange, Trees
  <2>2. disturbed' \in BOOLEAN /\ present' \in BOOLEAN
    BY <1>5 DEF OthersChange
  <2> QED
    BY <1>5, <2>1, <2>2 DEF OthersChange
<1>6. CASE UNCHANGED directoryVars
  BY <1>6 DEF directoryVars
<1> QED
  BY <1>1, <1>2, <1>3, <1>4, <1>5, <1>6 DEF DirectoryNext

LEMMA LastLevelStep ==
  DirectoryInv /\ [DirectoryNext]_directoryVars => LastLevelInv' /\ ResultInv'
<1> SUFFICES ASSUME DirectoryInv, [DirectoryNext]_directoryVars
             PROVE  LastLevelInv' /\ ResultInv'
  OBVIOUS
<1> USE DepthIsLevel DEF DirectoryInv, DirectoryTypeOK, LastLevelInv, ResultInv
<1>1. CASE Mkdir
  BY <1>1 DEF Mkdir
<1>2. ASSUME level < Depth, NEW error \in Outcomes(level + 1), CreateNext(error)
      PROVE  LastLevelInv' /\ ResultInv'
  <2>1. result = "running" /\ result' = "running" /\ lastError' = error
        /\ disturbed' = disturbed
    BY <1>2 DEF CreateNext, Noted
  <2>2. CASE level + 1 # Depth
    BY <1>2, <2>1, <2>2 DEF CreateNext
  <2>3. CASE level + 1 = Depth
    <3>1. CASE error = "ERROR_SUCCESS"
      <4>1. tree'[Depth] = "directory"
        BY <1>2, <2>3, <3>1 DEF CreateNext, Trees
      <4> QED
        BY <1>2, <2>1, <3>1, <4>1 DEF CreateNext, Good
    <3>2. CASE error # "ERROR_SUCCESS"
      <4>1. tree' = tree /\ present' = (present \/ tree[Depth] # "absent")
        BY <1>2, <3>2 DEF CreateNext
      <4>2. error = "ERROR_ALREADY_EXISTS" => tree[Depth] # "absent"
        BY <1>2, <2>3 DEF Outcomes
      <4>3. error \notin Good /\ Depth \notin Restricted => tree[Depth] # "directory"
        <5>1. SUFFICES ASSUME error \notin Good, Depth \notin Restricted
                       PROVE  Depth > 1 /\ tree[Depth - 1] # "directory"
          BY DEF Trees, WellFormed, Levels
        <5> QED
          BY <1>2, <2>3, <5>1 DEF Outcomes, Good
      <4> QED
        BY <2>1, <3>2, <4>1, <4>2, <4>3 DEF Good
    <3> QED
      BY <3>1, <3>2
  <2> QED
    BY <2>2, <2>3
<1>3. CASE Finish
  BY <1>3 DEF Finish, Good
<1>4. CASE MkdirDone
  BY <1>4 DEF MkdirDone
<1>5. ASSUME NEW i \in Levels, NEW what \in {"absent", "directory", "file"},
             OthersChange(i, what)
      PROVE  LastLevelInv' /\ ResultInv'
  BY <1>5 DEF OthersChange
<1>6. CASE UNCHANGED directoryVars
  BY <1>6 DEF directoryVars
<1> QED
  BY <1>1, <1>2, <1>3, <1>4, <1>5, <1>6 DEF DirectoryNext

THEOREM DirectoryInvariance == DirectorySpec => []DirectoryInv
<1>1. DirectoryInv /\ [DirectoryNext]_directoryVars => DirectoryInv'
  BY DirectoryTypeStep, LastLevelStep DEF DirectoryInv
<1> QED
  BY InitDirectoryInv, <1>1, PTL DEF DirectorySpec

(* DirectoryTypeOK of every reachable state.                                 *)
THEOREM DirectoriesAreTyped == DirectorySpec => []DirectoryTypeOK
<1>1. DirectoryInv => DirectoryTypeOK
  BY DEF DirectoryInv
<1> QED
  BY DirectoryInvariance, <1>1, PTL

(* Mkdir() returns only if there is, or was while it ran, something at the   *)
(* end of the path, and throws undisturbed and not denied only if there is   *)
(* no directory, however long the path and whichever levels failed.          *)
THEOREM MkdirIsTrue == DirectorySpec => []MkdirExists
<1>1. DirectoryInv => MkdirExists
  BY DEF DirectoryInv, LastLevelInv, ResultInv, MkdirExists
<1> QED
  BY DirectoryInvariance, <1>1, PTL

-----------------------------------------------------------------------------
(* Network: quotients.                                                       *)

LEMMA DivMod ==
  ASSUME NEW d \in Nat \ {0}, NEW k \in Nat, NEW m \in 0 .. d - 1
  PROVE  (d * k + m) \div d = k /\ (d * k + m) % d = m
  OBVIOUS

LEMMA Parity ==
  ASSUME NEW x \in Nat
  PROVE  /\ (2 * x) % 2 = 0 /\ (x > 0 => (2 * x - 1) % 2 = 1)
         /\ \A y \in Nat : (2 * x + y) % 2 = y % 2
  OBVIOUS

-----------------------------------------------------------------------------
(* Network: the powers of two.                                               *)

LEMMA Division ==
  ASSUME NEW x \in Nat, NEW d \in Nat \ {0}
  PROVE  x \div d \in Nat /\ x % d \in 0 .. d - 1 /\ d * (x \div d) + (x % d) = x
<1>1. PICK k \in Nat, m \in 0 .. d - 1 : x = d * k + m
  BY Quotient
<1> DEFINE q == x \div d
           l == x % d
<1>2. q = k /\ l = m
  BY <1>1, DivMod
<1> HIDE DEF q, l
<1>3. q \in Nat /\ l \in 0 .. d - 1 /\ d * q + l = x
  BY <1>1, <1>2
<1> QED
  BY <1>3 DEF q, l

LEMMA Below ==
  ASSUME NEW r \in Nat, NEW d \in Nat, NEW h \in 0 .. d - 1, NEW l \in 0 .. r - 1
  PROVE  r * h + l \in 0 .. r * d - 1
<1>1. d - h \in Nat /\ d - h >= 1 /\ h \in Nat
  OBVIOUS
<1>2. r * (d - h) >= r
  BY <1>1
<1>3. r * (d - h) = r * d - r * h /\ r * h \in Nat /\ r * d \in Nat
  BY <1>1
<1> DEFINE p == r * d
           q == r * h
<1> HIDE DEF p, q
<1>4. p \in Nat /\ q \in Nat /\ p - q >= r
  BY <1>2, <1>3 DEF p, q
<1>5. q + l \in 0 .. p - 1
  BY <1>4
<1> QED
  BY <1>5 DEF p, q

BitsTo(n, f) == f = [i \in 0 .. n |-> IF i = 0 THEN 1 ELSE 2 * f[i - 1]]

LEMMA BitsExtend ==
  ASSUME NEW n \in Nat, n > 0, NEW f, BitsTo(n - 1, f)
  PROVE  \E g : BitsTo(n, g)
<1> DEFINE g == [i \in 0 .. n |-> IF i = n THEN 2 * f[n - 1] ELSE f[i]]
<1>1. \A i \in 0 .. n - 1 : f[i] = IF i = 0 THEN 1 ELSE 2 * f[i - 1]
  BY DEF BitsTo
<1>2. \A i \in 0 .. n : i # n => i \in 0 .. n - 1
  OBVIOUS
<1>3. \A i \in 0 .. n : i # 0 => i - 1 \in 0 .. n /\ i - 1 # n /\ g[i - 1] = f[i - 1]
  OBVIOUS
<1>4. ASSUME NEW i \in 0 .. n PROVE g[i] = IF i = 0 THEN 1 ELSE 2 * g[i - 1]
  <2>1. CASE i = n
    BY <1>3, <2>1
  <2>2. CASE i # n
    BY <1>1, <1>2, <1>3, <2>2
  <2> QED
    BY <2>1, <2>2
<1>5. g = [i \in 0 .. n |-> g[i]]
  OBVIOUS
<1> HIDE DEF g
<1>6. BitsTo(n, g)
  BY <1>4, <1>5 DEF BitsTo
<1> QED
  BY <1>6

LEMMA BitsExist ==
  ASSUME NEW n \in Nat
  PROVE  \E f : BitsTo(n, f)
<1> DEFINE Bad == {k \in Nat : ~\E f : BitsTo(k, f)}
<1>1. ASSUME Bad # {} PROVE FALSE
  <2>1. PICK k \in Bad : \A j \in Bad : k <= j
    BY <1>1, LeastNumber
  <2>2. CASE k = 0
    <3>1. BitsTo(0, [i \in 0 .. 0 |-> 1])
      BY DEF BitsTo
    <3> QED
      BY <2>1, <2>2, <3>1
  <2>3. CASE k # 0
    <3>1. k - 1 \in Nat /\ ~(k <= k - 1) /\ k > 0 /\ k \in Nat
      BY <2>3
    <3>2. \E f : BitsTo(k - 1, f)
      BY <2>1, <3>1
    <3> QED
      BY <3>1, <3>2, BitsExtend
  <2> QED
    BY <2>2, <2>3
<1> QED
  BY <1>1

LEMMA WidthIs ==
  Width \in Nat /\ Width > 0 /\ ByteBits \in Nat /\ ByteBits > 0 /\ Width = 4 * ByteBits
BY NetworkAssumption DEF Width

LEMMA BitIs == Bit[0] = 1 /\ \A n \in 1 .. Width : Bit[n] = 2 * Bit[n - 1]
<1>1. \E f : BitsTo(Width, f)
  BY WidthIs, BitsExist
<1>2. BitsTo(Width, Bit)
  BY <1>1 DEF BitsTo, Bit
<1>3. \A n \in 0 .. Width : Bit[n] = IF n = 0 THEN 1 ELSE 2 * Bit[n - 1]
  BY <1>2 DEF BitsTo
<1>4. 0 \in 0 .. Width /\ \A n \in 1 .. Width : n \in 0 .. Width /\ n # 0
  BY WidthIs
<1> QED
  BY <1>3, <1>4

LEMMA BitIsPositive == \A n \in 0 .. Width : Bit[n] \in Nat \ {0}
<1> DEFINE Bad == {n \in 0 .. Width : Bit[n] \notin Nat \ {0}}
<1>1. ASSUME Bad # {} PROVE FALSE
  <2>1. Bad \in SUBSET Nat
    OBVIOUS
  <2>2. PICK n \in Bad : \A k \in Bad : n <= k
    BY <1>1, <2>1, LeastNumber
  <2>3. n # 0
    BY <2>2, BitIs
  <2>4. n \in 1 .. Width /\ n - 1 \in 0 .. Width /\ ~(n <= n - 1)
    BY <2>2, <2>3, WidthIs
  <2>5. Bit[n - 1] \in Nat \ {0}
    BY <2>2, <2>4
  <2>6. Bit[n] = 2 * Bit[n - 1]
    BY <2>4, BitIs
  <2>7. Bit[n] \in Nat \ {0}
    BY <2>5, <2>6
  <2> QED
    BY <2>2, <2>7
<1> QED
  BY <1>1

LEMMA BitOfSum ==
  ASSUME NEW a \in Nat, NEW b \in Nat, a + b <= Width
  PROVE  Bit[a + b] = Bit[a] * Bit[b]
<1> DEFINE Bad == {n \in Nat : a + n <= Width /\ Bit[a + n] # Bit[a] * Bit[n]}
<1>1. ASSUME Bad # {} PROVE FALSE
  <2>1. PICK n \in Bad : \A k \in Bad : n <= k
    BY <1>1, LeastNumber
  <2>2. n \in Nat /\ a + n <= Width /\ a \in 0 .. Width /\ Bit[a] \in Nat
    BY <2>1, BitIsPositive, WidthIs
  <2>3. n # 0
    BY <2>1, <2>2, BitIs
  <2>4. /\ n - 1 \in Nat /\ ~(n <= n - 1) /\ a + (n - 1) <= Width
        /\ a + n \in 1 .. Width /\ n \in 1 .. Width /\ (a + n) - 1 = a + (n - 1)
        /\ n - 1 \in 0 .. Width
    BY <2>2, <2>3, WidthIs
  <2>5. Bit[a + (n - 1)] = Bit[a] * Bit[n - 1]
    BY <2>1, <2>4
  <2>6. Bit[a + n] = 2 * Bit[a + (n - 1)] /\ Bit[n] = 2 * Bit[n - 1]
    BY <2>4, BitIs
  <2>7. Bit[n - 1] \in Nat
    BY <2>4, BitIsPositive
  <2>8. 2 * (Bit[a] * Bit[n - 1]) = Bit[a] * (2 * Bit[n - 1])
    BY <2>2, <2>7
  <2> QED
    BY <2>1, <2>5, <2>6, <2>8
<1> QED
  BY <1>1

-----------------------------------------------------------------------------
(* Network: words and their bytes.                                           *)

LEMMA WeightsAre ==
  /\ Radix \in Nat \ {0} /\ Weight(1) = 1 /\ Weight(2) = Radix
  /\ Weight(3) = Radix * Radix /\ Weight(4) = Radix * (Radix * Radix)
  /\ Bit[Width] = Radix * (Radix * (Radix * Radix))
<1> DEFINE n == ByteBits
<1>1. n \in Nat /\ n > 0 /\ Width = 4 * n /\ Radix = Bit[n]
  BY WidthIs DEF Radix
<1> HIDE DEF n
<1>2. /\ 0 * n = 0 /\ 1 * n = n /\ 2 * n = n + n /\ 3 * n = n + 2 * n /\ 4 * n = n + 3 * n
      /\ n + n <= Width /\ n + 2 * n <= Width /\ n + 3 * n <= Width
      /\ n + n \in Nat /\ 2 * n \in Nat /\ 3 * n \in Nat /\ n \in 0 .. Width
  BY <1>1
<1>3. Bit[2 * n] = Radix * Radix
  BY <1>1, <1>2, BitOfSum
<1>4. Bit[3 * n] = Radix * (Radix * Radix)
  BY <1>1, <1>2, <1>3, BitOfSum
<1>5. Bit[4 * n] = Radix * (Radix * (Radix * Radix))
  BY <1>1, <1>2, <1>4, BitOfSum
<1>6. Radix \in Nat \ {0} /\ Bit[0] = 1
  BY <1>1, <1>2, BitIsPositive, BitIs
<1>7. 1 - 1 = 0 /\ 2 - 1 = 1 /\ 3 - 1 = 2 /\ 4 - 1 = 3
  OBVIOUS
<1> QED
  BY <1>1, <1>2, <1>3, <1>4, <1>5, <1>6, <1>7 DEF Weight, n

AreDigits(x, r, a, b, c, d) ==
  /\ x \in 0 .. r * (r * (r * r)) - 1
  /\ x % r = a /\ (x \div r) % r = b /\ (x \div (r * r)) % r = c
  /\ (x \div (r * (r * r))) % r = d

LEMMA FourDigits ==
  ASSUME NEW r \in Nat \ {0}, NEW a \in 0 .. r - 1, NEW b \in 0 .. r - 1, NEW c \in 0 .. r - 1,
         NEW d \in 0 .. r - 1
  PROVE  AreDigits(r * (r * (r * d + c) + b) + a, r, a, b, c, d)
<1> DEFINE x == r * (r * (r * d + c) + b) + a
<1>1. r * d + c \in 0 .. r * r - 1 /\ r * r \in Nat \ {0}
  BY Below
<1>2. r * b + a \in 0 .. r * r - 1 /\ r * c + b \in 0 .. r * r - 1
  BY Below
<1>3. r * (r * d + c) + b \in 0 .. r * (r * r) - 1 /\ r * (r * r) \in Nat \ {0}
  BY <1>1, Below
<1>4. r * (r * c + b) + a \in 0 .. r * (r * r) - 1
  BY <1>1, <1>2, Below
<1>5. x \in 0 .. r * (r * (r * r)) - 1
  BY <1>3, Below
<1>6. x % r = a /\ x \div r = r * (r * d + c) + b
  BY <1>3, DivMod
<1>7. (r * (r * d + c) + b) % r = b
  BY <1>1, DivMod
<1>8. x = (r * r) * (r * d + c) + (r * b + a)
  OBVIOUS
<1>9. x \div (r * r) = r * d + c
  BY <1>1, <1>2, <1>8, DivMod
<1>10. (r * d + c) % r = c
  BY DivMod
<1>11. x = (r * (r * r)) * d + (r * (r * c + b) + a)
  OBVIOUS
<1>12. x \div (r * (r * r)) = d
  BY <1>3, <1>4, <1>11, DivMod
<1>13. d % r = d
  OBVIOUS
<1> HIDE DEF x
<1> QED
  BY <1>5, <1>6, <1>7, <1>9, <1>10, <1>12, <1>13 DEF AreDigits, x

(* A word that was loaded from bytes lies in memory as these bytes.          *)
LEMMA LoadedIsInMemory ==
  ASSUME NEW bytes \in Address
  PROVE  Load(bytes) \in Word /\ Memory(Load(bytes)) = bytes
<1> DEFINE r == Radix
           x == Load(bytes)
           a == bytes[1]
           b == bytes[2]
           c == bytes[3]
           d == bytes[4]
<1>1. r \in Nat \ {0}
  BY WeightsAre
<1>2. a \in 0 .. r - 1 /\ b \in 0 .. r - 1 /\ c \in 0 .. r - 1 /\ d \in 0 .. r - 1
  BY DEF Address, WordBytes
<1>3. x = a * 1 + b * r + c * (r * r) + d * (r * (r * r))
  BY WeightsAre DEF Load
<1>4. bytes = [i \in WordBytes |-> bytes[i]]
  BY DEF Address
<1> HIDE DEF r, x, a, b, c, d
<1>5. x = r * (r * (r * d + c) + b) + a
  BY <1>1, <1>2, <1>3
<1>6. /\ x \in 0 .. r * (r * (r * r)) - 1
      /\ x % r = a /\ (x \div r) % r = b /\ (x \div (r * r)) % r = c
      /\ (x \div (r * (r * r))) % r = d
  <2>1. AreDigits(r * (r * (r * d + c) + b) + a, r, a, b, c, d)
    BY <1>1, <1>2, FourDigits
  <2>2. AreDigits(x, r, a, b, c, d)
    BY <1>5, <2>1
  <2> QED
    BY <2>2 DEF AreDigits
<1>7. x \in Word
  BY <1>6, WeightsAre DEF Word, r
<1>8. x \div 1 = x
  BY <1>6
<1>9. ASSUME NEW i \in WordBytes PROVE (x \div Weight(i)) % Radix = bytes[i]
  <2>1. i = 1 \/ i = 2 \/ i = 3 \/ i = 4
    BY DEF WordBytes
  <2> QED
    BY <2>1, <1>6, <1>8, WeightsAre DEF r, a, b, c, d
<1>10. Memory(x) = bytes
  BY <1>4, <1>9 DEF Memory
<1> QED
  BY <1>7, <1>10 DEF x

(* Every word lies in memory as four bytes, and is loaded from them again. *)
LEMMA MemoryIsBytes ==
  ASSUME NEW word \in Nat
  PROVE  Memory(word) \in Address
<1>1. \A i \in WordBytes : Weight(i) \in Nat \ {0}
  <2>1. \A i \in WordBytes : i = 1 \/ i = 2 \/ i = 3 \/ i = 4
    BY DEF WordBytes
  <2>2. Weight(1) \in Nat \ {0} /\ Weight(2) \in Nat \ {0}
    BY WeightsAre
  <2>3. Weight(3) \in Nat \ {0}
    BY WeightsAre
  <2>4. Weight(4) \in Nat \ {0}
    BY <2>3, WeightsAre
  <2> QED
    BY <2>1, <2>2, <2>3, <2>4
<1>2. ASSUME NEW i \in WordBytes PROVE (word \div Weight(i)) % Radix \in 0 .. Radix - 1
  BY <1>1, Division, WeightsAre
<1> QED
  BY <1>2 DEF Memory, Address

LEMMA ReversedBytes ==
  ASSUME NEW bytes \in Address
  PROVE  Reversed(bytes) \in Address /\ Reversed(Reversed(bytes)) = bytes
<1>1. \A i \in WordBytes : 5 - i \in WordBytes /\ 5 - (5 - i) = i
  BY DEF WordBytes
<1>2. Reversed(bytes) \in Address
  BY <1>1 DEF Reversed, Address
<1>3. \A i \in WordBytes : Reversed(Reversed(bytes))[i] = bytes[i]
  BY <1>1 DEF Reversed
<1>4. bytes = [i \in WordBytes |-> bytes[i]]
  BY DEF Address
<1>5. Reversed(Reversed(bytes)) = [i \in WordBytes |-> Reversed(Reversed(bytes))[i]]
  BY DEF Reversed
<1> QED
  BY <1>2, <1>3, <1>4, <1>5

(* htonl turns the bytes of a word. *)
LEMMA HtonlReverses ==
  ASSUME NEW word \in Nat
  PROVE  Htonl(word) \in Word /\ Memory(Htonl(word)) = Reversed(Memory(word))
BY MemoryIsBytes, ReversedBytes, LoadedIsInMemory DEF Htonl

LEMMA WordsAre == Word \in SUBSET Nat
BY WidthIs, BitIsPositive DEF Word

(* An address read byte by byte is shown byte by byte. *)
LEMMA AddressIsShown ==
  ASSUME NEW address \in Address
  PROVE  /\ LiteralAddressToNetwork(address) \in Word
         /\ FormatHostOrder(LiteralAddressToNetwork(address)) = address
<1> DEFINE x == Load(address)
           y == Htonl(x)
<1>1. x \in Word /\ Memory(x) = address
  BY LoadedIsInMemory
<1>2. y \in Word /\ Memory(y) = Reversed(address)
  BY <1>1, HtonlReverses, WordsAre
<1>3. Memory(Htonl(y)) = Reversed(Reversed(address))
  BY <1>2, HtonlReverses, WordsAre
<1> QED
  BY <1>2, <1>3, ReversedBytes DEF LiteralAddressToNetwork, FormatHostOrder, FormatNetworkOrder

-----------------------------------------------------------------------------
(* Network: masks.                                                           *)

LEMMA MaskIsAWord ==
  ASSUME NEW prefix \in 0 .. Width
  PROVE  /\ MaskFromRoutingPrefix(prefix) \in Word
         /\ prefix # 0 => MaskFromRoutingPrefix(prefix) = Bit[Width] - Bit[Width - prefix]
<1> DEFINE t == Bit[Width]
           u == Bit[Width - prefix]
           v == Bit[prefix]
<1>1. prefix \in 0 .. Width /\ Width - prefix \in 0 .. Width /\ Width \in 0 .. Width
      /\ prefix \in Nat /\ Width - prefix \in Nat /\ (Width - prefix) + prefix = Width
  BY WidthIs
<1>2. t = u * v /\ t \in Nat \ {0} /\ u \in Nat \ {0} /\ v \in Nat \ {0}
  <2>1. Bit[(Width - prefix) + prefix] = u * v
    BY <1>1, BitOfSum, WidthIs
  <2> QED
    BY <1>1, <2>1, BitIsPositive
<1> HIDE DEF t, u, v
<1>3. u <= t
  BY <1>2
<1>4. t - u \in 0 .. t - 1 /\ 0 \in 0 .. t - 1
  BY <1>2, <1>3
<1> QED
  BY <1>4 DEF MaskFromRoutingPrefix, Word, t, u

(* Bit n of a mask is set if it is among the first bits.                     *)
LEMMA MaskBits ==
  ASSUME NEW prefix \in 0 .. Width, NEW n \in 0 .. Width - 1
  PROVE  (MaskFromRoutingPrefix(prefix) \div Bit[n]) % 2 = IF n >= Width - prefix THEN 1 ELSE 0
<1> DEFINE m == MaskFromRoutingPrefix(prefix)
           low == Width - prefix
<1>1. /\ prefix \in Nat /\ n \in Nat /\ low \in Nat /\ low <= Width /\ n < Width
      /\ low \in 0 .. Width /\ n \in 0 .. Width /\ Width \in Nat
  BY WidthIs
<1>2. Bit[n] \in Nat \ {0} /\ Bit[low] \in Nat \ {0} /\ Bit[Width] \in Nat \ {0}
  BY <1>1, BitIsPositive
<1>3. CASE prefix = 0
  <2>1. m = 0 /\ ~(n >= low)
    BY <1>1, <1>3 DEF MaskFromRoutingPrefix
  <2>2. 0 = Bit[n] * 0 + 0 /\ 0 \in 0 .. Bit[n] - 1
    BY <1>2
  <2>3. 0 \div Bit[n] = 0
    BY <1>2, <2>2, DivMod
  <2> QED
    BY <2>1, <2>3
<1>4. CASE prefix # 0 /\ n < low
  <2>1. m = Bit[Width] - Bit[low] /\ m \in Nat
    BY <1>4, MaskIsAWord, WordsAre
  <2> DEFINE b == Bit[n]
             e == Bit[(low - n) - 1]
             p == Bit[prefix]
  <2>2. /\ low - n \in 1 .. Width /\ (low - n) - 1 \in 0 .. Width /\ prefix \in 0 .. Width
        /\ low - n \in Nat /\ n + (low - n) = low /\ low + prefix = Width
    BY <1>1, <1>4
  <2>3. b \in Nat \ {0} /\ e \in Nat \ {0} /\ p \in Nat \ {0}
    BY <1>2, <2>2, BitIsPositive
  <2>4. Bit[low - n] = 2 * e
    BY <2>2, BitIs
  <2>5. Bit[low] = b * (2 * e)
    BY <1>1, <2>2, <2>4, BitOfSum
  <2>6. Bit[Width] = Bit[low] * p
    BY <1>1, <2>2, BitOfSum
  <2> HIDE DEF b, e, p, m
  <2>7. m = b * (2 * (e * (p - 1))) + 0 /\ e * (p - 1) \in Nat
    BY <2>1, <2>3, <2>5, <2>6
  <2> DEFINE h == e * (p - 1)
  <2> HIDE DEF h
  <2>8. h \in Nat /\ 2 * h \in Nat /\ m = b * (2 * h) + 0 /\ 0 \in 0 .. b - 1
    BY <2>3, <2>7 DEF h
  <2>9. m \div b = 2 * h
    BY <2>3, <2>8, DivMod
  <2>10. (2 * h) % 2 = 0
    BY <2>8, Parity
  <2> QED
    BY <1>1, <1>4, <2>9, <2>10 DEF b, m
<1>5. CASE prefix # 0 /\ n >= low
  <2>1. m = Bit[Width] - Bit[low] /\ m \in Nat
    BY <1>5, MaskIsAWord, WordsAre
  <2> DEFINE b == Bit[n]
             e == Bit[(Width - n) - 1]
             l == Bit[low]
             f == Bit[n - low]
  <2>2. /\ Width - n \in 1 .. Width /\ (Width - n) - 1 \in 0 .. Width /\ n - low \in 0 .. Width
        /\ Width - n \in Nat /\ n + (Width - n) = Width /\ n - low \in Nat /\ low + (n - low) = n
    BY <1>1, <1>5
  <2>3. b \in Nat \ {0} /\ e \in Nat \ {0} /\ l \in Nat \ {0} /\ f \in Nat \ {0}
    BY <1>2, <2>2, BitIsPositive
  <2>4. Bit[Width - n] = 2 * e
    BY <2>2, BitIs
  <2>5. Bit[Width] = b * (2 * e)
    BY <1>1, <2>2, <2>4, BitOfSum
  <2>6. b = l * f
    BY <1>1, <2>2, BitOfSum
  <2> HIDE DEF b, e, l, f, m
  <2>7. l <= b
    BY <2>3, <2>6
  <2>8. m = b * (2 * e - 1) + (b - l) /\ b - l \in 0 .. b - 1 /\ 2 * e - 1 \in Nat
    BY <2>1, <2>3, <2>5, <2>7 DEF l
  <2>9. m \div b = 2 * e - 1
    BY <2>3, <2>8, DivMod
  <2>10. (2 * e - 1) % 2 = 1
    BY <2>3, Parity
  <2> QED
    BY <1>1, <1>5, <2>9, <2>10 DEF b, m
<1> QED
  BY <1>1, <1>3, <1>4, <1>5

(* A bit of a byte of a word is a bit of the word. *)
LEMMA BitOfByte ==
  ASSUME NEW x \in Nat, NEW k \in 0 .. 3, NEW s \in 0 .. ByteBits - 1
  PROVE  (((x \div Bit[k * ByteBits]) % Radix) \div Bit[s]) % 2 = (x \div Bit[k * ByteBits + s]) % 2
<1> DEFINE n == k * ByteBits
           p == Bit[n]
           t == Bit[s]
           y == x \div p
           z == x % p
           u == y \div Radix
           w == y % Radix
           q == w \div t
           l == w % t
           e == Bit[(ByteBits - s) - 1]
<1>1. /\ n \in Nat /\ n + s <= Width /\ n \in 0 .. Width /\ s \in Nat /\ s \in 0 .. Width
      /\ ByteBits - s \in 1 .. Width /\ (ByteBits - s) - 1 \in 0 .. Width
      /\ ByteBits - s \in Nat /\ s + (ByteBits - s) = ByteBits /\ s + (ByteBits - s) <= Width
  <2>1. k = 0 \/ k = 1 \/ k = 2 \/ k = 3
    OBVIOUS
  <2>2. CASE k = 0
    BY <2>2, WidthIs
  <2>3. CASE k = 1
    BY <2>3, WidthIs
  <2>4. CASE k = 2
    BY <2>4, WidthIs
  <2>5. CASE k = 3
    BY <2>5, WidthIs
  <2> QED
    BY <2>1, <2>2, <2>3, <2>4, <2>5
<1>2. p \in Nat \ {0} /\ t \in Nat \ {0} /\ e \in Nat \ {0} /\ Radix \in Nat \ {0}
  BY <1>1, BitIsPositive, WeightsAre
<1>3. y \in Nat /\ z \in 0 .. p - 1 /\ x = p * y + z
  BY <1>2, Division
<1>4. u \in Nat /\ w \in Nat /\ y = Radix * u + w
  <2>1. u \in Nat /\ w \in 0 .. Radix - 1 /\ Radix * u + w = y
    BY <1>2, <1>3, Division
  <2> HIDE DEF u, w, y
  <2> QED
    BY <2>1
<1>5. q \in Nat /\ l \in 0 .. t - 1 /\ w = t * q + l
  BY <1>2, <1>4, Division
<1>6. Radix = t * (2 * e)
  <2>1. Bit[s + (ByteBits - s)] = t * Bit[ByteBits - s]
    BY <1>1, BitOfSum
  <2>2. Bit[ByteBits - s] = 2 * e
    BY <1>1, BitIs
  <2> QED
    BY <1>1, <2>1, <2>2 DEF Radix
<1>7. Bit[n + s] = p * t
  BY <1>1, BitOfSum
<1> HIDE DEF n, p, t, y, z, u, w, q, l, e
<1> DEFINE h == e * u
           b == p * l + z
<1>8. h \in Nat /\ 2 * h + q \in Nat
  BY <1>2, <1>4, <1>5
<1>9. b \in 0 .. p * t - 1 /\ p * t \in Nat \ {0}
  BY <1>2, <1>3, <1>5, Below
<1>10. x = (p * t) * (2 * h + q) + b
  <2>1. y = t * (2 * h + q) + l
    BY <1>2, <1>4, <1>5, <1>6
  <2> HIDE DEF h
  <2> QED
    BY <2>1, <1>2, <1>3, <1>5, <1>8
<1> HIDE DEF h, b
<1>11. x \div (p * t) = 2 * h + q
  BY <1>8, <1>9, <1>10, DivMod
<1>12. (2 * h + q) % 2 = q % 2
  BY <1>5, <1>8, Parity
<1>13. (x \div (p * t)) % 2 = q % 2
  BY <1>11, <1>12
<1> QED
  BY <1>7, <1>13 DEF n, p, t, y, w, q

ShownBit(shown, i) ==
  (shown[((i - 1) \div ByteBits) + 1] \div Bit[(ByteBits - 1) - ((i - 1) % ByteBits)]) % 2

(* A mask covers the first bits of what is shown of it. *)
LEMMA MaskIsShown ==
  ASSUME NEW prefix \in 0 .. Width, NEW i \in 1 .. Width
  PROVE  ShownBit(FormatHostOrder(MaskFromRoutingPrefix(prefix)), i) = IF i <= prefix THEN 1 ELSE 0
<1> DEFINE m == MaskFromRoutingPrefix(prefix)
           j == i - 1
           k == j \div ByteBits
           r == j % ByteBits
           s == (ByteBits - 1) - r
<1>1. m \in Nat /\ m \in Word
  BY MaskIsAWord, WordsAre
<1>2. FormatHostOrder(m) = Reversed(Memory(m)) /\ Memory(m) \in Address
  BY <1>1, HtonlReverses, MemoryIsBytes DEF FormatHostOrder, FormatNetworkOrder
<1>3. j \in Nat /\ j < 4 * ByteBits /\ ByteBits \in Nat \ {0}
  BY WidthIs
<1>4. k \in Nat /\ r \in 0 .. ByteBits - 1 /\ j = ByteBits * k + r
  BY <1>3, Division
<1> HIDE DEF k, r, j
<1>5. k \in 0 .. 3
  <2> SUFFICES ASSUME k >= 4 PROVE FALSE
    BY <1>4
  <2>1. ByteBits * k >= ByteBits * 4
    BY <1>3, <1>4
  <2> QED
    BY <1>3, <1>4, <2>1
<1>6. /\ s \in 0 .. ByteBits - 1 /\ 3 - k \in 0 .. 3 /\ k + 1 \in WordBytes
      /\ 5 - (k + 1) \in WordBytes
      /\ (5 - (k + 1)) - 1 = 3 - k
  BY <1>3, <1>4, <1>5 DEF WordBytes
<1>7. Reversed(Memory(m))[k + 1] = (m \div Bit[(3 - k) * ByteBits]) % Radix
  BY <1>6 DEF Reversed, Memory, Weight
<1> DEFINE n == (3 - k) * ByteBits + s
<1>8. n = (Width - i) /\ n \in 0 .. Width - 1
  <2>1. i = ByteBits * k + r + 1 /\ Width = 4 * ByteBits
    BY <1>4, WidthIs DEF j
  <2>2. (3 - k) * ByteBits = 3 * ByteBits - ByteBits * k
    BY <1>3, <1>5
  <2>3. n = Width - i
    BY <1>3, <1>4, <2>1, <2>2
  <2> QED
    BY <2>3, WidthIs
<1>9. (((m \div Bit[(3 - k) * ByteBits]) % Radix) \div Bit[s]) % 2 = (m \div Bit[n]) % 2
  BY <1>1, <1>6, BitOfByte
<1>10. (m \div Bit[n]) % 2 = IF n >= Width - prefix THEN 1 ELSE 0
  BY <1>8, MaskBits
<1>11. n >= Width - prefix <=> i <= prefix
  BY <1>8, WidthIs
<1> HIDE DEF n, m, s
<1>12. ShownBit(FormatHostOrder(m), i) = (Reversed(Memory(m))[k + 1] \div Bit[s]) % 2
  BY <1>2 DEF ShownBit, k, r, j, s
<1> QED
  BY <1>7, <1>9, <1>10, <1>11, <1>12 DEF m

-----------------------------------------------------------------------------
(* ByteSwap() and its bytes.                                                 *)

LEMMA FourBytes ==
  ASSUME NEW bytes \in Address
  PROVE  bytes \in Seq(0 .. Radix - 1) /\ Len(bytes) = 4
<1>1. bytes \in [1 .. 4 -> 0 .. Radix - 1] /\ DOMAIN bytes = 1 .. 4
  BY DEF Address, WordBytes
<1>2. bytes \in Seq(0 .. Radix - 1)
  BY <1>1, SeqDef
<1> DEFINE n == Len(bytes)
<1>3. n \in Nat /\ 1 .. n = 1 .. 4
  BY <1>1, <1>2, LenProperties
<1> HIDE DEF n
<1>4. n = 4
  BY <1>3
<1> QED
  BY <1>2, <1>4 DEF n

LEMMA SwappedAreShown ==
  ASSUME NEW val \in 0 .. Radix * Radix - 1
  PROVE  /\ ByteSwap(val) \in Word
         /\ SubSeq(FormatHostOrder(ByteSwap(val)), 3, 4) = SubSeq(FormatNetworkOrder(val), 1, 2)
<1> DEFINE r == Radix
           hi == val \div r
           lo == val % r
           z == val \div (r * r)
<1>1. r \in Nat \ {0} /\ val \in Nat
  <2>1. r \in Nat \ {0}
    BY WeightsAre
  <2>2. r * r \in Nat
    BY <2>1
  <2> QED
    BY <2>1, <2>2
<1>2. hi \in Nat /\ lo \in 0 .. r - 1 /\ val = r * hi + lo
  BY <1>1, Division
<1> HIDE DEF hi, lo
<1>3. hi \in 0 .. r - 1
  <2> SUFFICES ASSUME hi >= r PROVE FALSE
    BY <1>1, <1>2
  <2>1. r * hi >= r * r
    BY <1>1, <1>2
  <2> DEFINE p == r * r
             h == r * hi
  <2>2. p \in Nat /\ h \in Nat /\ h >= p /\ val \in 0 .. p - 1 /\ val = h + lo
    BY <1>1, <1>2, <2>1
  <2> HIDE DEF p, h
  <2> QED
    BY <1>2, <2>2
<1> DEFINE there == [i \in WordBytes |-> IF i = 1 THEN lo ELSE IF i = 2 THEN hi ELSE 0]
           back == [i \in WordBytes |-> IF i = 1 THEN hi ELSE IF i = 2 THEN lo ELSE 0]
<1>4. there \in Address /\ back \in Address
  BY <1>1, <1>2, <1>3 DEF Address
<1>5. val \div r = hi /\ val % r = lo /\ hi % r = hi
  <2>1. hi % r = hi
    BY <1>1, <1>3
  <2> QED
    BY <2>1 DEF hi, lo
<1>6. Load(there) = lo + r * hi /\ Load(back) = hi + r * lo
  <2>1. /\ there[1] = lo /\ there[2] = hi /\ there[3] = 0 /\ there[4] = 0
        /\ back[1] = hi /\ back[2] = lo /\ back[3] = 0 /\ back[4] = 0
    BY DEF WordBytes
  <2> DEFINE c == r * r
             d == r * (r * r)
  <2>2. Weight(1) = 1 /\ Weight(2) = r /\ Weight(3) = c /\ Weight(4) = d
    BY WeightsAre
  <2>3. c \in Nat /\ d \in Nat
    <3>1. c \in Nat
      BY <1>1
    <3> QED
      BY <1>1, <3>1
  <2> HIDE DEF there, back, c, d, r
  <2> QED
    BY <2>1, <2>2, <2>3, <1>1, <1>2, <1>3 DEF Load
<1>7. ByteSwap(val) = lo * r + hi
  BY <1>5 DEF ByteSwap
<1> HIDE DEF there, back
<1>8. Load(there) = val /\ Load(back) = ByteSwap(val)
  BY <1>1, <1>2, <1>3, <1>6, <1>7
<1>9. Memory(val) = there /\ Memory(ByteSwap(val)) = back /\ ByteSwap(val) \in Word
  BY <1>4, <1>8, LoadedIsInMemory
<1>10. FormatHostOrder(ByteSwap(val)) = Reversed(back) /\ FormatNetworkOrder(val) = there
  BY <1>9, HtonlReverses, WordsAre DEF FormatHostOrder, FormatNetworkOrder
<1>11. Reversed(back) \in Address
  BY <1>4, ReversedBytes
<1>12. /\ Reversed(back)[3] = lo /\ Reversed(back)[4] = hi /\ there[1] = lo /\ there[2] = hi
  BY DEF Reversed, back, there, WordBytes
<1>13. Reversed(back) \in Seq(0 .. r - 1) /\ there \in Seq(0 .. r - 1)
       /\ Len(Reversed(back)) = 4 /\ Len(there) = 4
  BY <1>4, <1>11, FourBytes
<1>14. SubSeq(Reversed(back), 3, 4) = SubSeq(there, 1, 2)
  BY <1>12, <1>13, SubSeqProperties
<1> QED
  BY <1>9, <1>10, <1>14

-----------------------------------------------------------------------------
(* RegistryTests: the calls a test consists of.                              *)

CallsOfTests == {"open", "write", "read", "delete", "create", "keys", "values", "compare", "types"}
ValueNames ==
  {"StringValue", "Uint32Value", "Uint64Value", "BinaryBlobValue", "StringArrayValue", "dummy"}
Given == ValueNames \cup {"one", "two", "three"}
Ops == {op \in [call : CallsOfTests, name : Given \cup {""}, type : Types \cup {""}] :
          /\ op.call \in {"write", "create"} => op.name # ""
          /\ op.call = "write" => op.type \in Types}

LEMMA OpsAre ==
  /\ \A name \in Given : /\ \A type \in Types : Op("write", name, type) \in Ops
                         /\ \A type \in Types : Op("read", name, type) \in Ops
                         /\ Op("create", name, "") \in Ops /\ Op("delete", name, "") \in Ops
  /\ Op("open", "", "") \in Ops /\ Op("keys", "", "") \in Ops /\ Op("values", "", "") \in Ops
  /\ Op("compare", "", "") \in Ops /\ Op("types", "", "REG_SZ") \in Ops
<1>1. "" \notin Given
  BY DEF Given, ValueNames
<1>2. "REG_SZ" \in Types
  BY DEF Types
<1> QED
  BY <1>1, <1>2 DEF Op, Ops, CallsOfTests

LEMMA ShortLists ==
  ASSUME NEW S, NEW a \in S, NEW b \in S, NEW c \in S
  PROVE  <<a>> \in Seq(S) /\ <<a, b>> \in Seq(S) /\ <<a, b, c>> \in Seq(S)
  OBVIOUS

LEMMA WriteReadIs ==
  ASSUME NEW name \in Given, NEW type \in Types
  PROVE  WriteRead(name, type) \in Seq(Ops)
<1>1. /\ Op("open", "", "") \in Ops /\ Op("write", name, type) \in Ops
      /\ Op("read", name, type) \in Ops
  BY OpsAre
<1> QED
  BY <1>1, ShortLists DEF WriteRead

LEMMA MethodsAreOps == \A t \in DOMAIN Methods : Methods[t] \in Seq(Ops)
<1>1. OpenKey \in Seq(Ops)
  BY OpsAre, ShortLists DEF OpenKey
<1>2. WriteReadStringValue \in Seq(Ops)
  BY WriteReadIs DEF WriteReadStringValue, Types, Given, ValueNames
<1>3. WriteReadUint32Value \in Seq(Ops)
  BY WriteReadIs DEF WriteReadUint32Value, Types, Given, ValueNames
<1>4. WriteReadUint64Value \in Seq(Ops)
  BY WriteReadIs DEF WriteReadUint64Value, Types, Given, ValueNames
<1>5. WriteReadBinaryBlobValue \in Seq(Ops)
  BY WriteReadIs DEF WriteReadBinaryBlobValue, Types, Given, ValueNames
<1>6. WriteReadStringArrayValue \in Seq(Ops)
  BY WriteReadIs DEF WriteReadStringArrayValue, Types, Given, ValueNames
<1>7. WriteDeleteValue \in Seq(Ops)
  <2>1. /\ Op("open", "", "") \in Ops /\ Op("write", "dummy", "REG_SZ") \in Ops
        /\ Op("delete", "dummy", "") \in Ops
    BY OpsAre DEF Types, Given, ValueNames
  <2> QED
    BY <2>1, ShortLists DEF WriteDeleteValue
<1>8. /\ [i \in DOMAIN Created |-> Op("create", Created[i], "")] \in Seq(Ops)
      /\ [i \in DOMAIN Created |-> Op("write", Created[i], "REG_SZ")] \in Seq(Ops)
  <2>1. DOMAIN Created = 1 .. 3
    BY DEF Created
  <2>2. ASSUME NEW i \in DOMAIN Created
        PROVE  Op("create", Created[i], "") \in Ops /\ Op("write", Created[i], "REG_SZ") \in Ops
    <3>1. Created[i] \in Given
      BY DEF Created, Given
    <3> QED
      BY <3>1, OpsAre DEF Types
  <2>3. \A f \in [1 .. 3 -> Ops] : f \in Seq(Ops)
    BY SeqDef
  <2> QED
    BY <2>1, <2>2, <2>3
<1>9. /\ << Op("open", "", ""), Op("keys", "", ""), Op("compare", "", "") >> \in Seq(Ops)
      /\ << Op("open", "", "") >> \in Seq(Ops)
      /\ << Op("values", "", ""), Op("compare", "", ""), Op("types", "", "REG_SZ") >> \in Seq(Ops)
  BY OpsAre, ShortLists
<1>10. EnumerateKeys \in Seq(Ops)
  BY <1>8, <1>9, ConcatProperties DEF EnumerateKeys
<1>11. EnumerateValues \in Seq(Ops)
  BY <1>8, <1>9, ConcatProperties DEF EnumerateValues
<1> QED
  BY <1>1, <1>2, <1>3, <1>4, <1>5, <1>6, <1>7, <1>10, <1>11 DEF Methods

(* The call that a test makes next. *)
LEMMA NextOpIs ==
  ASSUME TestTypeOK, NEW call, Making(call)
  PROVE  /\ test \in DOMAIN Methods /\ done + 1 \in 0 .. Len(Methods[test])
         /\ call \in {"write", "create"} => NextOp.name \in Names
         /\ call = "write" => NextOp.type \in Types
<1>1. test \in DOMAIN Methods /\ done < Len(Methods[test]) /\ NextOp.call = call
  BY DEF TestTypeOK, Making
<1> DEFINE n == Len(Methods[test])
<1>2. Methods[test] \in Seq(Ops) /\ n \in Nat /\ DOMAIN Methods[test] = 1 .. n
  BY <1>1, MethodsAreOps, LenProperties
<1>3. done \in 0 .. n /\ done < n
  <2>1. test # "none"
    BY DEF Making
  <2> QED
    BY <1>1, <2>1 DEF TestTypeOK
<1> HIDE DEF n
<1>4. done + 1 \in 1 .. n /\ done + 1 \in 0 .. n
  BY <1>2, <1>3
<1>5. NextOp \in Ops /\ NextOp \in Range(Methods[test])
  BY <1>2, <1>4, ElementOfSeq DEF NextOp, Range, n
<1>6. Methods[test] \in Range(Methods)
  BY <1>1 DEF Range
<1>7. NextOp.name # "" => NextOp.name \in Names
  <2> DEFINE named(method) == {op.name : op \in Range(method)}
  <2>1. NextOp.name \in named(Methods[test])
    BY <1>5
  <2>2. named(Methods[test]) \in {named(method) : method \in Range(Methods)}
    BY <1>6
  <2> HIDE DEF named
  <2>3. NextOp.name \in UNION {named(method) : method \in Range(Methods)}
    BY <2>1, <2>2
  <2> QED
    BY <2>3 DEF Names, named
<1> QED
  BY <1>1, <1>4, <1>5, <1>7 DEF Ops, n

TestInv == TestTypeOK /\ (test # "none" => keyThere)

LEMMA InitTestInv == TestInit => TestInv
<1>1. Range(<<>>) = {} /\ DOMAIN <<>> = {}
  BY DEF Range
<1>2. TestInit => test = "none" /\ keyThere = FALSE /\ values = <<>> /\ subkeys = {} /\ found = {}
                  /\ verdict = "passed" /\ spoiled = {}
  BY DEF TestInit
<1> QED
  BY <1>1, <1>2 DEF TestInv, TestTypeOK

LEMMA PassedKeeps ==
  ASSUME TestInv, NEW call, Making(call), NEW holds, Passed(holds)
  PROVE  /\ test' = test /\ test' \in DOMAIN Methods /\ done' \in 0 .. Len(Methods[test'])
         /\ keyThere' = keyThere /\ keyThere = TRUE
         /\ verdict' \in {"open", "passed", "failed"} /\ spoiled' = spoiled
<1>1. test \in DOMAIN Methods /\ done + 1 \in 0 .. Len(Methods[test])
  BY NextOpIs DEF TestInv
<1> QED
  BY <1>1 DEF Making, Passed, TestInv, TestTypeOK

LEMMA TestStepInv == TestInv /\ [TestNext]_testVars => TestInv'
<1> SUFFICES ASSUME TestInv, [TestNext]_testVars PROVE TestInv'
  OBVIOUS
<1> USE DEF TestInv, TestTypeOK
<1>1. ASSUME NEW t \in DOMAIN Methods, Initialize(t) PROVE TestInv'
  <2>1. Len(Methods[t]) \in Nat
    BY MethodsAreOps, LenProperties
  <2>2. t # "none"
    BY DEF Methods
  <2> QED
    BY <1>1, <2>1, <2>2 DEF Initialize
<1>2. CASE Open
  BY <1>2, PassedKeeps DEF Open
<1>3. CASE WriteValue
  <2>1. NextOp.name \in Names /\ NextOp.type \in Types
    BY <1>3, NextOpIs DEF WriteValue
  <2>2. DOMAIN values' \subseteq Names /\ Range(values') \subseteq Types
    BY <1>3, <2>1 DEF WriteValue, Range
  <2> QED
    BY <1>3, <2>2, PassedKeeps DEF WriteValue
<1>4. CASE ReadValue
  BY <1>4, PassedKeeps DEF ReadValue
<1>5. CASE DeleteValue
  <2>1. DOMAIN values' \subseteq Names /\ Range(values') \subseteq Types
    BY <1>5 DEF DeleteValue, Range, Restrict
  <2> QED
    BY <1>5, <2>1, PassedKeeps DEF DeleteValue
<1>6. CASE CreateSubkey
  <2>1. NextOp.name \in Names
    BY <1>6, NextOpIs DEF CreateSubkey
  <2> QED
    BY <1>6, <2>1, PassedKeeps DEF CreateSubkey
<1>7. CASE Enumerated
  BY <1>7, PassedKeeps DEF Enumerated
<1>8. CASE Compare
  BY <1>8, PassedKeeps DEF Compare
<1>9. CASE CompareTypes
  BY <1>9, PassedKeeps DEF CompareTypes
<1>10. CASE Cleanup
  <2>1. Range(<<>>) = {} /\ DOMAIN <<>> = {}
    BY DEF Range
  <2> QED
    BY <1>10, <2>1 DEF Cleanup, KeyDeleted
<1>11. CASE Killed
  BY <1>11 DEF Killed
<1>12. CASE UNCHANGED testVars
  BY <1>12 DEF testVars
<1> QED
  BY <1>1, <1>2, <1>3, <1>4, <1>5, <1>6, <1>7, <1>8, <1>9, <1>10, <1>11, <1>12 DEF TestNext

-----------------------------------------------------------------------------
(* Lists: what is cut out of a sequence, put together, and looked for.       *)

(* What lies between two positions of a sequence.                            *)
LEMMA SliceIs ==
  ASSUME NEW S, NEW s \in Seq(S), NEW i \in 1 .. Len(s) + 1, NEW j \in i - 1 .. Len(s)
  PROVE  /\ SubSeq(s, i, j) \in Seq(S) /\ Len(SubSeq(s, i, j)) = (j - i) + 1
         /\ \A k \in 1 .. (j - i) + 1 : SubSeq(s, i, j)[k] = s[(i + k) - 1] /\ (i + k) - 1 \in 1 .. Len(s)
<1>1. Len(s) \in Nat
  BY LenProperties
<1>2. i \in Int /\ j \in Int /\ \A k \in i .. j : k \in 1 .. Len(s)
  BY <1>1
<1>3. \A k \in i .. j : s[k] \in S
  BY <1>2, ElementOfSeq
<1> DEFINE t == SubSeq(s, i, j)
<1>4. /\ t \in Seq(S) /\ Len(t) = (IF i <= j THEN (j - i) + 1 ELSE 0)
      /\ \A k \in 1 .. (j - i) + 1 : t[k] = s[(i + k) - 1]
  BY <1>2, <1>3, SubSeqProperties
<1> HIDE DEF t
<1>5. (i <= j \/ (j - i) + 1 = 0) /\ \A k \in 1 .. (j - i) + 1 : (i + k) - 1 \in 1 .. Len(s)
  BY <1>1, <1>2
<1>6. Len(t) = (j - i) + 1
  BY <1>4, <1>5
<1> QED
  BY <1>4, <1>5, <1>6 DEF t

LEMMA ConcatIs ==
  ASSUME NEW S, NEW s \in Seq(S), NEW t \in Seq(S)
  PROVE  /\ s \o t \in Seq(S) /\ Len(s \o t) = Len(s) + Len(t)
         /\ \A i \in 1 .. Len(s) : (s \o t)[i] = s[i]
         /\ \A i \in 1 .. Len(t) : (s \o t)[Len(s) + i] = t[i]
<1> DEFINE u == s \o t
           l == Len(s)
           m == Len(t)
<1>1. u \in Seq(S) /\ Len(u) = l + m
  BY ConcatProperties, Zenon
<1>2. \A i \in 1 .. l + m : u[i] = IF i <= l THEN s[i] ELSE t[i - l]
  BY ConcatProperties, Zenon
<1>3. l \in Nat /\ m \in Nat
  BY LenProperties
<1> HIDE DEF u, l, m
<1>4. \A i \in 1 .. l : i \in 1 .. l + m /\ i <= l
  BY <1>3
<1>5. \A i \in 1 .. m : l + i \in 1 .. l + m /\ ~(l + i <= l) /\ (l + i) - l = i
  BY <1>3
<1>6. (\A i \in 1 .. l : u[i] = s[i]) /\ (\A i \in 1 .. m : u[l + i] = t[i])
  BY <1>2, <1>4, <1>5
<1> QED
  BY <1>1, <1>6 DEF u, l, m

(* Find: the first of some characters is where none of them comes before.    *)
IsFirst(s, chars, m) ==
  /\ m \in 1 .. Len(s) + 1 /\ \A i \in 1 .. m - 1 : s[i] \notin chars
  /\ m <= Len(s) => s[m] \in chars

LEMMA FindIs ==
  ASSUME NEW S, NEW s \in Seq(S), NEW chars
  PROVE  IsFirst(s, chars, Find(s, chars)) /\ Find(s, chars) - 1 \in 0 .. Len(s)
<1> DEFINE P == {i \in DOMAIN s : s[i] \in chars} \cup {Len(s) + 1}
           m == Find(s, chars)
<1>1. Len(s) \in Nat /\ DOMAIN s = 1 .. Len(s)
  BY LenProperties
<1>2. P \in SUBSET Nat /\ P # {}
  BY <1>1
<1>3. m \in P /\ \A i \in P : m <= i
  BY <1>2, MinIsLeast, Zenon DEF Find
<1> HIDE DEF m
<1>4. m \in 1 .. Len(s) + 1 /\ (m <= Len(s) => s[m] \in chars)
  BY <1>1, <1>3
<1>5. ASSUME NEW i \in 1 .. m - 1 PROVE s[i] \notin chars
  <2>1. i \in 1 .. Len(s) /\ ~(m <= i)
    BY <1>1, <1>4
  <2> QED
    BY <1>1, <1>3, <2>1
<1>6. m - 1 \in 0 .. Len(s)
  BY <1>1, <1>4
<1> QED
  BY <1>4, <1>5, <1>6 DEF IsFirst, m

LEMMA FindIsFirst ==
  ASSUME NEW S, NEW s \in Seq(S), NEW chars, NEW n, IsFirst(s, chars, n)
  PROVE  Find(s, chars) = n
<1> DEFINE m == Find(s, chars)
<1>1. IsFirst(s, chars, m)
  BY FindIs
<1> HIDE DEF m
<1>2. Len(s) \in Nat /\ m \in 1 .. Len(s) + 1 /\ n \in 1 .. Len(s) + 1
  BY <1>1, LenProperties DEF IsFirst
<1>3. ~(m < n) /\ ~(n < m)
  <2>1. ASSUME m < n PROVE FALSE
    <3>1. m \in 1 .. n - 1 /\ m <= Len(s)
      BY <1>2, <2>1
    <3> QED
      BY <1>1, <3>1 DEF IsFirst
  <2>2. ASSUME n < m PROVE FALSE
    <3>1. n \in 1 .. m - 1 /\ n <= Len(s)
      BY <1>2, <2>2
    <3> QED
      BY <1>1, <3>1 DEF IsFirst
  <2> QED
    BY <2>1, <2>2
<1> QED
  BY <1>2, <1>3 DEF m

(* A set and a number beyond it.                                             *)
LEMMA OneMoreInOrder ==
  ASSUME NEW S \in SUBSET Nat, IsFiniteSet(S), NEW x \in Nat, \A y \in S : y < x
  PROVE  /\ IsFiniteSet(S \cup {x}) /\ Cardinality(S \cup {x}) = Cardinality(S) + 1
         /\ Nth(S \cup {x}, Cardinality(S) + 1) = x
         /\ \A n \in 1 .. Cardinality(S) : Nth(S, n) \in S /\ Nth(S \cup {x}, n) = Nth(S, n)
<1> DEFINE c == Cardinality(S)
           T == S \cup {x}
           s == InOrder(S)
           t == [n \in 1 .. c + 1 |-> IF n = c + 1 THEN x ELSE s[n]]
<1>1. x \notin S
  <2> SUFFICES ASSUME x \in S PROVE FALSE
    OBVIOUS
  <2>1. x < x
    OBVIOUS
  <2> QED
    BY <2>1
<1>2. c \in Nat /\ IsFiniteSet(T) /\ Cardinality(T) = c + 1 /\ T \in SUBSET Nat
  BY <1>1, FS_CardinalityType, FS_AddElement
<1>3. s \in [1 .. c -> S] /\ \A i, j \in 1 .. c : i < j => s[i] < s[j]
  BY InOrderLists DEF ListsInOrder
<1>4. \A n \in 1 .. c : s[n] = Nth(S, n)
  BY DEF InOrder
<1> HIDE DEF c, s
<1>5. ListsInOrder(T, t)
  <2>1. \A n \in 1 .. c + 1 : n = c + 1 \/ n \in 1 .. c
    BY <1>2
  <2>2. t \in [1 .. c + 1 -> T]
    BY <1>3, <2>1
  <2>3. ASSUME NEW i \in 1 .. c + 1, NEW j \in 1 .. c + 1, i < j PROVE t[i] < t[j]
    <3>1. i \in 1 .. c /\ i # c + 1
      BY <1>2, <2>3
    <3>2. t[i] = s[i] /\ s[i] \in S
      BY <1>3, <3>1
    <3>3. CASE j = c + 1
      BY <3>2, <3>3
    <3>4. CASE j # c + 1
      <4>1. j \in 1 .. c /\ t[j] = s[j]
        BY <2>1, <3>4
      <4> QED
        BY <1>3, <2>3, <3>1, <3>2, <4>1
    <3> QED
      BY <3>3, <3>4
  <2> QED
    BY <1>2, <2>2, <2>3 DEF ListsInOrder
<1> HIDE DEF T
<1>6. InOrder(T) = t
  BY <1>2, <1>5, InOrderIs
<1>7. \A n \in 1 .. c + 1 : Nth(T, n) = t[n]
  BY <1>2, <1>6 DEF InOrder
<1>8. c + 1 \in 1 .. c + 1 /\ \A n \in 1 .. c : n \in 1 .. c + 1 /\ n # c + 1
  BY <1>2
<1>9. Nth(T, c + 1) = x /\ \A n \in 1 .. c : Nth(T, n) = Nth(S, n) /\ Nth(S, n) \in S
  BY <1>3, <1>4, <1>7, <1>8
<1> QED
  BY <1>2, <1>9 DEF c, T

(* What a function makes of the numbers of a set, in their order.            *)
Picked(P, f) == [n \in 1 .. Cardinality(P) |-> f[Nth(P, n)]]

LEMMA PickedIs ==
  ASSUME NEW P \in SUBSET Nat, IsFiniteSet(P), NEW V, NEW f \in [P -> V]
  PROVE  /\ Picked(P, f) \in Seq(V) /\ Len(Picked(P, f)) = Cardinality(P)
         /\ \A n \in 1 .. Cardinality(P) : Picked(P, f)[n] = f[Nth(P, n)] /\ Nth(P, n) \in P
<1>1. Cardinality(P) \in Nat
  BY FS_CardinalityType
<1>2. \A n \in 1 .. Cardinality(P) : InOrder(P)[n] = Nth(P, n) /\ InOrder(P)[n] \in P
  BY InOrderLists DEF InOrder, ListsInOrder
<1>3. Picked(P, f) \in [1 .. Cardinality(P) -> V]
  BY <1>2 DEF Picked
<1>4. Picked(P, f) \in Seq(V) /\ Len(Picked(P, f)) = Cardinality(P)
  BY <1>1, <1>3, LenProperties
<1> QED
  BY <1>2, <1>4 DEF Picked

(* A function on one number more, beyond the others.                         *)
OneMore(P, V, f, x, Q, g) ==
  /\ P \in SUBSET Nat /\ IsFiniteSet(P) /\ f \in [P -> V]
  /\ x \in Nat /\ Q = P \cup {x} /\ g \in [Q -> V]
  /\ \A y \in P : y < x /\ g[y] = f[y]

LEMMA PickedOneMore ==
  ASSUME NEW P, NEW V, NEW f, NEW x, NEW Q, NEW g, OneMore(P, V, f, x, Q, g)
  PROVE  Picked(Q, g) = Append(Picked(P, f), g[x])
<1> DEFINE c == Cardinality(P)
           s == Picked(P, f)
           t == Picked(Q, g)
<1>0. /\ P \in SUBSET Nat /\ IsFiniteSet(P) /\ f \in [P -> V]
      /\ x \in Nat /\ Q = P \cup {x} /\ g \in [Q -> V] /\ \A y \in P : y < x /\ g[y] = f[y]
  BY DEF OneMore
<1>1. /\ IsFiniteSet(Q) /\ Cardinality(Q) = c + 1 /\ Nth(Q, c + 1) = x
      /\ \A n \in 1 .. c : Nth(P, n) \in P /\ Nth(Q, n) = Nth(P, n)
  BY <1>0, OneMoreInOrder
<1>2. c \in Nat
  BY <1>0, FS_CardinalityType
<1>3. s \in Seq(V) /\ Len(s) = c /\ \A n \in 1 .. c : s[n] = f[Nth(P, n)]
  <2>1. P \in SUBSET Nat /\ IsFiniteSet(P) /\ f \in [P -> V]
    BY <1>0
  <2> QED
    BY <2>1, PickedIs, Zenon
<1>4. t \in Seq(V) /\ Len(t) = c + 1 /\ \A n \in 1 .. c + 1 : t[n] = g[Nth(Q, n)]
  <2>1. Q \in SUBSET Nat /\ g \in [Q -> V]
    BY <1>0
  <2>2. IsFiniteSet(Q) /\ Cardinality(Q) = c + 1
    BY <1>1
  <2> HIDE DEF c
  <2>3. /\ t \in Seq(V) /\ Len(t) = Cardinality(Q)
        /\ \A n \in 1 .. Cardinality(Q) : t[n] = g[Nth(Q, n)]
    BY <2>1, <2>2, PickedIs
  <2> QED
    BY <2>2, <2>3
<1>5. g[x] \in V
  BY <1>0
<1> DEFINE u == Append(s, g[x])
<1> HIDE DEF c, s, t
<1>6. u \in Seq(V) /\ Len(u) = c + 1 /\ u[c + 1] = g[x] /\ \A n \in 1 .. c : u[n] = s[n]
  BY <1>3, <1>5, AppendProperties
<1> HIDE DEF u
<1>7. ASSUME NEW n \in 1 .. c + 1 PROVE t[n] = u[n]
  <2>1. CASE n = c + 1
    BY <1>1, <1>4, <1>6, <2>1
  <2>2. CASE n # c + 1
    <3>1. n \in 1 .. c
      BY <1>2, <2>2
    <3>2. t[n] = g[Nth(P, n)] /\ Nth(P, n) \in P
      BY <1>1, <1>4, <3>1
    <3> QED
      BY <1>0, <1>3, <1>6, <3>1, <3>2
  <2> QED
    BY <2>1, <2>2
<1>8. t = u
  BY <1>4, <1>6, <1>7, SeqEqual
<1> QED
  BY <1>8 DEF t, u, s

LEMMA PickedSame ==
  ASSUME NEW P \in SUBSET Nat, IsFiniteSet(P), NEW f, NEW g, \A y \in P : g[y] = f[y]
  PROVE  Picked(P, g) = Picked(P, f)
<1>1. \A n \in 1 .. Cardinality(P) : InOrder(P)[n] = Nth(P, n) /\ InOrder(P)[n] \in P
  BY InOrderLists DEF InOrder, ListsInOrder
<1> QED
  BY <1>1 DEF Picked

LEMMA NothingPicked == \A f : Picked({}, f) = <<>>
BY FS_EmptySet DEF Picked

(* A set of positions of a sequence.                                         *)
LEMMA PositionsAre ==
  ASSUME NEW S, NEW s \in Seq(S), NEW P, P \subseteq DOMAIN s
  PROVE  P \in SUBSET Nat /\ IsFiniteSet(P) /\ \A i \in P : i \in 1 .. Len(s) /\ s[i] \in S
<1>1. Len(s) \in Nat /\ DOMAIN s = 1 .. Len(s)
  BY LenProperties
<1>2. IsFiniteSet(1 .. Len(s))
  BY <1>1, FS_Interval
<1> QED
  BY <1>1, <1>2, FS_Subset, ElementOfSeq

Full(ss) == {i \in DOMAIN ss : ss[i] # <<>>}

LEMMA NonEmptyIs ==
  ASSUME NEW S, NEW ss \in Seq(Seq(S))
  PROVE  /\ NonEmpty(ss) = Picked(Full(ss), ss)
         /\ NonEmpty(ss) \in Seq(Seq(S))
<1>1. Full(ss) \in SUBSET Nat /\ IsFiniteSet(Full(ss)) /\ \A i \in Full(ss) : ss[i] \in Seq(S)
  BY PositionsAre DEF Full
<1>2. NonEmpty(ss) = Picked(Full(ss), ss)
  BY DEF NonEmpty, Picked, Full
<1> DEFINE f == [i \in Full(ss) |-> ss[i]]
<1>3. f \in [Full(ss) -> Seq(S)]
  BY <1>1
<1>4. Picked(Full(ss), f) \in Seq(Seq(S))
  BY <1>1, <1>3, PickedIs
<1>5. Picked(Full(ss), ss) = Picked(Full(ss), f)
  BY <1>1, PickedSame
<1> QED
  BY <1>2, <1>4, <1>5

LEMMA NonEmptyOfNone == NonEmpty(<<>>) = <<>>
<1>1. Full(<<>>) = {}
  BY DEF Full
<1>2. NonEmpty(<<>>) = Picked(Full(<<>>), <<>>)
  BY DEF NonEmpty, Picked, Full
<1> QED
  BY <1>1, <1>2, NothingPicked

LEMMA NonEmptyAppended ==
  ASSUME NEW S, NEW ss \in Seq(Seq(S)), NEW s \in Seq(S)
  PROVE  NonEmpty(Append(ss, s)) = IF s = <<>> THEN NonEmpty(ss) ELSE Append(NonEmpty(ss), s)
<1> DEFINE n == Len(ss)
           tt == Append(ss, s)
           P == Full(ss)
           f == [i \in P |-> ss[i]]
<1>1. n \in Nat /\ DOMAIN ss = 1 .. n /\ \A i \in 1 .. n : ss[i] \in Seq(S)
  BY LenProperties, ElementOfSeq
<1>2. /\ tt \in Seq(Seq(S)) /\ DOMAIN tt = 1 .. n + 1 /\ tt[n + 1] = s
      /\ \A i \in 1 .. n : tt[i] = ss[i]
  BY AppendProperties, LenProperties
<1> HIDE DEF n, tt
<1>3. \A i : i \in 1 .. n + 1 <=> i \in 1 .. n \/ i = n + 1
  BY <1>1
<1>4. Full(tt) = IF s = <<>> THEN P ELSE P \cup {n + 1}
  BY <1>1, <1>2, <1>3 DEF Full
<1>5. /\ P \in SUBSET Nat /\ IsFiniteSet(P) /\ P \subseteq 1 .. n
      /\ \A i \in P : tt[i] = ss[i] /\ i < n + 1
  <2>1. P \in SUBSET Nat /\ IsFiniteSet(P) /\ P \subseteq 1 .. n
    BY <1>1, PositionsAre DEF Full
  <2>2. \A i \in 1 .. n : i < n + 1
    BY <1>1
  <2> QED
    BY <1>2, <2>1, <2>2
<1>6. NonEmpty(ss) = Picked(P, ss) /\ NonEmpty(tt) = Picked(Full(tt), tt)
  BY <1>2, NonEmptyIs
<1>7. f \in [P -> Seq(S)] /\ Picked(P, ss) = Picked(P, f)
  <2>1. f \in [P -> Seq(S)]
    BY <1>1, <1>5
  <2> QED
    BY <1>5, <2>1, PickedSame
<1>8. CASE s = <<>>
  BY <1>4, <1>5, <1>6, <1>8, PickedSame DEF tt
<1>9. CASE s # <<>>
  <2> DEFINE x == n + 1
             V == Seq(S)
             Q == P \cup {x}
             g == [i \in Q |-> tt[i]]
  <2>1. /\ x \in Nat /\ (\A y \in P : y < x /\ g[y] = f[y]) /\ (\A y \in Q : g[y] = tt[y])
        /\ f \in [P -> V] /\ g \in [Q -> V] /\ g[x] = s
    BY <1>1, <1>2, <1>5, <1>7
  <2>2. Full(tt) = Q
    BY <1>4, <1>9
  <2> HIDE DEF f, g, P, V, x
  <2>3. Picked(Q, g) = Append(Picked(P, f), g[x])
    <3>1. OneMore(P, V, f, x, Q, g)
      BY <1>5, <2>1 DEF OneMore
    <3> HIDE DEF Q
    <3> QED
      BY <3>1, PickedOneMore
  <2>4. Q \in SUBSET Nat /\ IsFiniteSet(Q)
    BY <1>5, <2>1, FS_AddElement
  <2> HIDE DEF Q
  <2>5. Picked(Q, tt) = Picked(Q, g)
    BY <2>1, <2>4, PickedSame
  <2> QED
    BY <1>6, <1>7, <1>9, <2>1, <2>2, <2>3, <2>5 DEF tt
<1> QED
  BY <1>8, <1>9

(* A list without empty elements is not changed.                             *)
LEMMA NonEmptyOfFull ==
  ASSUME NEW S, NEW ss \in Seq(Seq(S)), \A i \in DOMAIN ss : ss[i] # <<>>
  PROVE  NonEmpty(ss) = ss
<1> DEFINE n == Len(ss)
           s == [i \in 1 .. n |-> i]
<1>1. n \in Nat /\ DOMAIN ss = 1 .. n /\ ss \in [1 .. n -> Seq(S)]
  BY LenProperties
<1> HIDE DEF n
<1>2. IsFiniteSet(1 .. n) /\ Cardinality(1 .. n) = n /\ 1 .. n \in SUBSET Nat
  BY <1>1, FS_Interval
<1>3. ListsInOrder(1 .. n, s)
  BY <1>2 DEF ListsInOrder
<1>4. InOrder(1 .. n) = s
  BY <1>2, <1>3, InOrderIs
<1>5. \A i \in 1 .. n : Nth(1 .. n, i) = i
  BY <1>2, <1>4 DEF InOrder
<1>6. Full(ss) = 1 .. n
  BY <1>1 DEF Full
<1>7. NonEmpty(ss) = [i \in 1 .. n |-> ss[i]]
  BY <1>2, <1>5, <1>6, NonEmptyIs DEF Picked
<1> QED
  BY <1>1, <1>7

(* Runs: where they begin and where they end.                                *)
Starts(s, cuts) == {i \in DOMAIN s : s[i] \notin cuts /\ (i = 1 \/ s[i - 1] \in cuts)}
RunEnd(s, cuts, i) == Max({j \in i .. Len(s) : \A k \in i .. j : s[k] \notin cuts})
RunAt(s, cuts, i) == SubSeq(s, i, RunEnd(s, cuts, i))

IsRun(s, cuts, i, e) ==
  /\ i \in 1 .. Len(s) /\ e \in i .. Len(s)
  /\ \A k \in i .. e : s[k] \notin cuts
  /\ e = Len(s) \/ s[e + 1] \in cuts

LEMMA RunEndIs ==
  ASSUME NEW S, NEW s \in Seq(S), NEW cuts, NEW i \in 1 .. Len(s), s[i] \notin cuts
  PROVE  IsRun(s, cuts, i, RunEnd(s, cuts, i))
<1> DEFINE n == Len(s)
           P == {j \in i .. n : \A k \in i .. j : s[k] \notin cuts}
           e == RunEnd(s, cuts, i)
<1>1. n \in Nat /\ i \in 1 .. n
  BY LenProperties
<1> HIDE DEF n
<1>2. i \in P
  <2>1. \A k \in i .. i : k = i
    BY <1>1
  <2> QED
    BY <1>1, <2>1
<1>3. P \in SUBSET Nat /\ IsFiniteSet(P)
  <2>1. P \subseteq i .. n /\ i .. n \subseteq Nat /\ IsFiniteSet(i .. n)
    BY <1>1, FS_Interval
  <2> QED
    BY <2>1, FS_Subset
<1>4. e \in P /\ \A j \in P : e >= j
  <2>1. e = Max(P)
    BY DEF RunEnd, n
  <2> HIDE DEF P, e
  <2> QED
    BY <1>2, <1>3, <2>1, MaxIsGreatest
<1> HIDE DEF e
<1>5. e = n \/ s[e + 1] \in cuts
  <2> SUFFICES ASSUME e # n, s[e + 1] \notin cuts PROVE FALSE
    OBVIOUS
  <2>1. e + 1 \in i .. n /\ ~(e >= e + 1) /\ \A k \in i .. e + 1 : k \in i .. e \/ k = e + 1
    BY <1>1, <1>4
  <2>2. e + 1 \in P
    BY <1>4, <2>1
  <2> QED
    BY <1>4, <2>1, <2>2
<1> QED
  BY <1>1, <1>4, <1>5 DEF IsRun, n, e

LEMMA RunEndsAt ==
  ASSUME NEW S, NEW s \in Seq(S), NEW cuts, NEW i, NEW e, IsRun(s, cuts, i, e)
  PROVE  RunEnd(s, cuts, i) = e
<1> DEFINE f == RunEnd(s, cuts, i)
           n == Len(s)
<1>1. /\ n \in Nat /\ i \in 1 .. n /\ e \in i .. n
      /\ (\A k \in i .. e : s[k] \notin cuts)
      /\ (e = n \/ s[e + 1] \in cuts)
  BY LenProperties DEF IsRun
<1>2. s[i] \notin cuts
  <2>1. i \in i .. e
    BY <1>1
  <2> QED
    BY <1>1, <2>1
<1>3. f \in i .. n /\ (\A k \in i .. f : s[k] \notin cuts) /\ (f = n \/ s[f + 1] \in cuts)
  BY <1>1, <1>2, RunEndIs DEF IsRun
<1> HIDE DEF f, n
<1>4. ~(f < e)
  <2> SUFFICES ASSUME f < e PROVE FALSE
    OBVIOUS
  <2>1. f + 1 \in i .. e /\ f # n
    BY <1>1, <1>3
  <2> QED
    BY <1>1, <1>3, <2>1
<1>5. ~(e < f)
  <2> SUFFICES ASSUME e < f PROVE FALSE
    OBVIOUS
  <2>1. e + 1 \in i .. f /\ e # n
    BY <1>1, <1>3
  <2> QED
    BY <1>1, <1>3, <2>1
<1>6. f = e
  BY <1>1, <1>3, <1>4, <1>5
<1> QED
  BY <1>6 DEF f

LEMMA StartsAre ==
  ASSUME NEW S, NEW s \in Seq(S), NEW cuts
  PROVE  /\ Starts(s, cuts) \in SUBSET Nat /\ IsFiniteSet(Starts(s, cuts))
         /\ Starts(s, cuts) \subseteq 1 .. Len(s)
         /\ \A i \in Starts(s, cuts) : IsRun(s, cuts, i, RunEnd(s, cuts, i))
         /\ Runs(s, cuts) = Picked(Starts(s, cuts), [i \in Starts(s, cuts) |-> RunAt(s, cuts, i)])
<1> DEFINE P == Starts(s, cuts)
<1>1. P \subseteq DOMAIN s /\ \A i \in P : s[i] \notin cuts
  BY DEF Starts
<1>2. P \in SUBSET Nat /\ IsFiniteSet(P) /\ P \subseteq 1 .. Len(s)
  BY <1>1, PositionsAre
<1>3. \A i \in P : IsRun(s, cuts, i, RunEnd(s, cuts, i))
  BY <1>1, <1>2, RunEndIs
<1>4. Runs(s, cuts) = [n \in 1 .. Cardinality(P) |-> RunAt(s, cuts, Nth(P, n))]
  BY DEF Runs, RunAt, RunEnd, Starts
<1>5. \A n \in 1 .. Cardinality(P) : Nth(P, n) \in P
  BY <1>2, InOrderLists DEF InOrder, ListsInOrder
<1> HIDE DEF P
<1>6. Runs(s, cuts) = Picked(P, [i \in P |-> RunAt(s, cuts, i)])
  BY <1>4, <1>5 DEF Picked
<1> QED
  BY <1>2, <1>3, <1>6 DEF P

(* A run is not empty, and has no cut in it.                                 *)
Uncut(r, cuts) == \A k \in DOMAIN r : r[k] \notin cuts

LEMMA RunAtIs ==
  ASSUME NEW S, NEW s \in Seq(S), NEW cuts, NEW i, NEW e, IsRun(s, cuts, i, e)
  PROVE  /\ RunAt(s, cuts, i) = SubSeq(s, i, e) /\ SubSeq(s, i, e) \in Seq(S)
         /\ SubSeq(s, i, e) # <<>> /\ Uncut(SubSeq(s, i, e), cuts)
         /\ ToSet(SubSeq(s, i, e)) \subseteq ToSet(s)
<1> DEFINE r == SubSeq(s, i, e)
           m == (e - i) + 1
<1>1. /\ Len(s) \in Nat /\ i \in 1 .. Len(s) + 1 /\ e \in i - 1 .. Len(s)
      /\ e \in i .. Len(s) /\ \A k \in i .. e : s[k] \notin cuts
  BY LenProperties DEF IsRun
<1>2. /\ r \in Seq(S) /\ Len(r) = m
      /\ \A k \in 1 .. m : r[k] = s[(i + k) - 1] /\ (i + k) - 1 \in 1 .. Len(s)
  BY <1>1, SliceIs
<1>3. DOMAIN r = 1 .. m
  BY <1>2, LenProperties
<1>4. m # 0 /\ \A k \in 1 .. m : (i + k) - 1 \in i .. e
  BY <1>1
<1> HIDE DEF r, m
<1>5. r # <<>>
  BY <1>2, <1>4, EmptySeq
<1>6. Uncut(r, cuts)
  BY <1>1, <1>2, <1>3, <1>4 DEF Uncut
<1>7. ToSet(r) \subseteq ToSet(s)
  BY <1>2 DEF ToSet
<1>8. RunAt(s, cuts, i) = r
  BY RunEndsAt DEF RunAt, r
<1> QED
  BY <1>2, <1>5, <1>6, <1>7, <1>8 DEF r

LEMMA RunsAre ==
  ASSUME NEW S, NEW s \in Seq(S), NEW cuts
  PROVE  /\ Runs(s, cuts) \in Seq(Seq(S))
         /\ \A n \in DOMAIN Runs(s, cuts) :
              /\ Runs(s, cuts)[n] # <<>> /\ Uncut(Runs(s, cuts)[n], cuts)
              /\ ToSet(Runs(s, cuts)[n]) \subseteq ToSet(s)
<1> DEFINE P == Starts(s, cuts)
           f == [i \in P |-> RunAt(s, cuts, i)]
<1>1. /\ P \in SUBSET Nat /\ IsFiniteSet(P) /\ Runs(s, cuts) = Picked(P, f)
      /\ \A i \in P : IsRun(s, cuts, i, RunEnd(s, cuts, i))
  BY StartsAre
<1>2. \A i \in P : /\ f[i] \in Seq(S) /\ f[i] # <<>> /\ Uncut(f[i], cuts)
                   /\ ToSet(f[i]) \subseteq ToSet(s)
  BY <1>1, RunAtIs DEF RunAt
<1>3. f \in [P -> Seq(S)]
  BY <1>2
<1> HIDE DEF P, f
<1>4. /\ Runs(s, cuts) \in Seq(Seq(S)) /\ Len(Runs(s, cuts)) = Cardinality(P)
      /\ \A n \in 1 .. Cardinality(P) : Runs(s, cuts)[n] = f[Nth(P, n)] /\ Nth(P, n) \in P
  <2> DEFINE V == Seq(S)
             u == Picked(P, f)
  <2>1. f \in [P -> V]
    BY <1>3
  <2> HIDE DEF V
  <2>2. /\ u \in Seq(V) /\ Len(u) = Cardinality(P)
        /\ \A n \in 1 .. Cardinality(P) : u[n] = f[Nth(P, n)] /\ Nth(P, n) \in P
    BY <1>1, <2>1, PickedIs
  <2> HIDE DEF u
  <2>3. Runs(s, cuts) = u
    BY <1>1 DEF u
  <2> QED
    BY <2>2, <2>3 DEF V
<1>5. DOMAIN Runs(s, cuts) = 1 .. Cardinality(P)
  BY <1>4, LenProperties
<1> QED
  BY <1>2, <1>4, <1>5

(* A sequence goes on where another one ends, and no run of it goes on.      *)
Continues(t, s, cuts) ==
  /\ Len(s) <= Len(t) /\ \A i \in 1 .. Len(s) : t[i] = s[i]
  /\ \/ Len(t) = Len(s) \/ t[Len(s) + 1] \in cuts
     \/ Len(s) = 0 \/ s[Len(s)] \in cuts

LEMMA RunsContinue ==
  ASSUME NEW S, NEW s \in Seq(S), NEW t \in Seq(S), NEW cuts, Continues(t, s, cuts),
         NEW i \in Starts(s, cuts)
  PROVE  i \in Starts(t, cuts) /\ RunAt(t, cuts, i) = RunAt(s, cuts, i)
<1> DEFINE e == RunEnd(s, cuts, i)
           m == Len(s)
           n == Len(t)
<1>1. m \in Nat /\ n \in Nat /\ m <= n /\ DOMAIN s = 1 .. m /\ DOMAIN t = 1 .. n
      /\ \A k \in 1 .. m : t[k] = s[k]
  BY LenProperties DEF Continues
<1>2. IsRun(s, cuts, i, e)
  BY StartsAre
<1>3. /\ i \in 1 .. m /\ e \in i .. m
      /\ (\A k \in i .. e : s[k] \notin cuts)
      /\ (e = m \/ s[e + 1] \in cuts)
  BY <1>2 DEF IsRun
<1>4. s[i] \notin cuts /\ (i = 1 \/ s[i - 1] \in cuts)
  BY DEF Starts
<1>0. n = m \/ t[m + 1] \in cuts \/ m = 0 \/ s[m] \in cuts
  BY DEF Continues
<1> HIDE DEF e, m, n
<1>5. i \in Starts(t, cuts)
  <2>1. i \in 1 .. n /\ (i = 1 \/ i - 1 \in 1 .. m)
    BY <1>1, <1>3
  <2> QED
    BY <1>1, <1>3, <1>4, <2>1 DEF Starts
<1>6. e = n \/ t[e + 1] \in cuts
  <2>1. CASE e = m
    <3>1. m \in i .. e /\ m # 0
      BY <1>1, <1>3, <2>1
    <3> QED
      BY <1>0, <1>3, <2>1, <3>1
  <2>2. CASE e # m
    <3>1. e + 1 \in 1 .. m
      BY <1>1, <1>3, <2>2
    <3> QED
      BY <1>1, <1>3, <2>2, <3>1
  <2> QED
    BY <2>1, <2>2
<1>7. \A k \in i .. e : k \in 1 .. m /\ t[k] \notin cuts
  <2>1. \A k \in i .. e : k \in 1 .. m
    BY <1>1, <1>3
  <2> QED
    BY <1>1, <1>3, <2>1
<1>8. IsRun(t, cuts, i, e)
  <2>1. i \in 1 .. n /\ e \in i .. n
    BY <1>1, <1>3
  <2> QED
    BY <1>6, <1>7, <2>1 DEF IsRun, n
<1>9. RunAt(t, cuts, i) = SubSeq(t, i, e) /\ RunAt(s, cuts, i) = SubSeq(s, i, e)
  BY <1>2, <1>8, RunAtIs
<1>10. SubSeq(t, i, e) = SubSeq(s, i, e)
  <2> DEFINE u == SubSeq(s, i, e)
             v == SubSeq(t, i, e)
             l == (e - i) + 1
  <2>1. i \in 1 .. m + 1 /\ e \in i - 1 .. m /\ i \in 1 .. n + 1 /\ e \in i - 1 .. n
    BY <1>1, <1>3
  <2>2. /\ u \in Seq(S) /\ Len(u) = l
        /\ \A k \in 1 .. l : u[k] = s[(i + k) - 1] /\ (i + k) - 1 \in 1 .. m
    BY <2>1, SliceIs DEF m
  <2>3. v \in Seq(S) /\ Len(v) = l /\ \A k \in 1 .. l : v[k] = t[(i + k) - 1]
    BY <2>1, SliceIs DEF n
  <2> HIDE DEF u, v, l
  <2>4. \A k \in 1 .. Len(u) : u[k] = v[k]
    BY <1>1, <2>2, <2>3
  <2>5. u = v
    BY <2>2, <2>3, <2>4, SeqEqual
  <2> QED
    BY <2>5 DEF u, v
<1> QED
  BY <1>5, <1>9, <1>10

LEMMA RunsOfEmpty ==
  ASSUME NEW cuts
  PROVE  Runs(<<>>, cuts) = <<>>
<1>1. Starts(<<>>, cuts) = {}
  BY DEF Starts
<1>2. <<>> \in Seq({})
  BY EmptySeq
<1>3. Runs(<<>>, cuts) = Picked({}, [i \in {} |-> RunAt(<<>>, cuts, i)])
  BY <1>1, <1>2, StartsAre
<1> QED
  BY <1>3, NothingPicked

(* Another cut at the end makes no difference.                               *)
LEMMA RunsBeforeCut ==
  ASSUME NEW S, NEW s \in Seq(S), NEW cuts, NEW d \in S \cap cuts
  PROVE  Runs(Append(s, d), cuts) = Runs(s, cuts)
<1> DEFINE t == Append(s, d)
           P == Starts(s, cuts)
           m == Len(s)
<1>1. m \in Nat /\ DOMAIN s = 1 .. m
  BY LenProperties
<1>2. /\ t \in Seq(S) /\ Len(t) = m + 1 /\ t[m + 1] = d
      /\ (\A i \in 1 .. m : t[i] = s[i])
      /\ DOMAIN t = 1 .. m + 1
  <2>1. t \in Seq(S) /\ Len(t) = m + 1 /\ t[m + 1] = d /\ \A i \in 1 .. m : t[i] = s[i]
    BY AppendProperties
  <2> QED
    BY <2>1, LenProperties
<1> HIDE DEF t, m
<1>3. Continues(t, s, cuts)
  <2>1. m <= Len(t) /\ t[m + 1] \in cuts
    BY <1>1, <1>2
  <2> QED
    BY <1>2, <2>1 DEF Continues, m
<1>4. ASSUME NEW i \in Starts(t, cuts) PROVE i \in P
  <2>1. i \in 1 .. m + 1 /\ t[i] \notin cuts /\ (i = 1 \/ t[i - 1] \in cuts)
    BY <1>2 DEF Starts
  <2>2. i \in 1 .. m /\ (i = 1 \/ i - 1 \in 1 .. m)
    BY <1>1, <1>2, <2>1
  <2> QED
    BY <1>1, <1>2, <2>1, <2>2 DEF Starts
<1>5. Starts(t, cuts) = P
  BY <1>2, <1>3, <1>4, RunsContinue
<1>6. \A i \in P : RunAt(t, cuts, i) = RunAt(s, cuts, i)
  BY <1>2, <1>3, RunsContinue
<1>7. /\ Runs(s, cuts) = Picked(P, [i \in P |-> RunAt(s, cuts, i)])
      /\ Runs(t, cuts) = Picked(P, [i \in P |-> RunAt(t, cuts, i)])
  <2>1. Runs(t, cuts) = Picked(Starts(t, cuts), [i \in Starts(t, cuts) |-> RunAt(t, cuts, i)])
    BY <1>2, StartsAre
  <2> QED
    BY <1>5, <2>1, StartsAre
<1>8. [i \in P |-> RunAt(s, cuts, i)] = [i \in P |-> RunAt(t, cuts, i)]
  BY <1>6
<1> QED
  BY <1>7, <1>8 DEF t

(* No run reaches the end of a sequence, so that what follows is one.        *)
Closed(s, cuts) == Len(s) = 0 \/ s[Len(s)] \in cuts

LEMMA RunAppended ==
  ASSUME NEW S, NEW s \in Seq(S), NEW cuts, Closed(s, cuts), NEW p \in Seq(S), Uncut(p, cuts)
  PROVE  Runs(s \o p, cuts) = IF p = <<>> THEN Runs(s, cuts) ELSE Append(Runs(s, cuts), p)
<1> DEFINE t == s \o p
           P == Starts(s, cuts)
           m == Len(s)
           l == Len(p)
           x == m + 1
<1>1. m \in Nat /\ DOMAIN s = 1 .. m /\ l \in Nat /\ DOMAIN p = 1 .. l
  BY LenProperties
<1>2. /\ t \in Seq(S) /\ Len(t) = m + l /\ (\A i \in 1 .. m : t[i] = s[i])
      /\ (\A i \in 1 .. l : t[m + i] = p[i]) /\ DOMAIN t = 1 .. m + l
  <2>1. /\ t \in Seq(S) /\ Len(t) = m + l /\ (\A i \in 1 .. m : t[i] = s[i])
        /\ \A i \in 1 .. l : t[m + i] = p[i]
    BY ConcatIs
  <2> QED
    BY <2>1, LenProperties
<1>3. CASE p = <<>>
  <2>1. s \o p = s
    BY <1>3, ConcatEmptySeq
  <2> QED
    BY <1>3, <2>1
<1>4. CASE p # <<>>
  <2>1. l # 0
    BY <1>4, EmptySeq
  <2>2. \A k \in 1 .. l : p[k] \notin cuts
    BY <1>1 DEF Uncut
  <2>3. m = 0 \/ s[m] \in cuts
    BY DEF Closed
  <2> HIDE DEF t, m, l
  <2>4. Continues(t, s, cuts)
    <3>1. m <= Len(t)
      BY <1>1, <1>2
    <3> QED
      BY <1>2, <2>3, <3>1 DEF Continues, m
  <2>5. \A k \in x .. m + l : k - m \in 1 .. l /\ t[k] = p[k - m] /\ t[k] \notin cuts
    <3> SUFFICES ASSUME NEW k \in x .. m + l
                 PROVE  k - m \in 1 .. l /\ t[k] = p[k - m] /\ t[k] \notin cuts
      OBVIOUS
    <3>1. k - m \in 1 .. l /\ m + (k - m) = k
      BY <1>1
    <3>2. t[m + (k - m)] = p[k - m] /\ p[k - m] \notin cuts
      BY <1>2, <2>2, <3>1
    <3> QED
      BY <3>1, <3>2
  <2>6. x \in Starts(t, cuts)
    <3>1. /\ x \in x .. m + l /\ x \in 1 .. m + l /\ (m = 0 => x = 1)
          /\ (m # 0 => m \in 1 .. m) /\ x - 1 = m
      BY <1>1, <2>1
    <3>2. t[x] \notin cuts /\ (x = 1 \/ t[x - 1] \in cuts)
      BY <1>2, <2>3, <2>5, <3>1
    <3> QED
      BY <1>2, <3>1, <3>2 DEF Starts
  <2>7. ASSUME NEW i \in Starts(t, cuts), i # x PROVE i \in P
    <3>1. i \in 1 .. m + l /\ t[i] \notin cuts /\ (i = 1 \/ t[i - 1] \in cuts)
      BY <1>2 DEF Starts
    <3>2. i \in 1 .. m
      <4> SUFFICES ASSUME i \notin 1 .. m PROVE FALSE
        OBVIOUS
      <4>1. i - 1 \in x .. m + l /\ i # 1
        BY <1>1, <2>7, <3>1
      <4> QED
        BY <2>5, <3>1, <4>1
    <3>3. i = 1 \/ i - 1 \in 1 .. m
      BY <1>1, <3>2
    <3> QED
      BY <1>1, <1>2, <3>1, <3>2, <3>3 DEF Starts
  <2>8. Starts(t, cuts) = P \cup {x}
    BY <1>2, <2>4, <2>6, <2>7, RunsContinue
  <2>9. IsRun(t, cuts, x, m + l)
    <3>1. x \in 1 .. m + l /\ m + l \in x .. m + l
      BY <1>1, <2>1
    <3> QED
      BY <1>2, <2>5, <3>1 DEF IsRun
  <2>10. RunAt(t, cuts, x) = p
    <3> DEFINE u == SubSeq(t, x, m + l)
    <3>1. x \in 1 .. (m + l) + 1 /\ m + l \in x - 1 .. m + l /\ ((m + l) - x) + 1 = l
          /\ \A k \in 1 .. l : (x + k) - 1 = m + k
      BY <1>1
    <3>2. u \in Seq(S) /\ Len(u) = l /\ \A k \in 1 .. l : u[k] = t[(x + k) - 1]
      <4> HIDE DEF x
      <4> QED
        BY <1>2, <3>1, SliceIs
    <3> HIDE DEF u, x
    <3>3. \A k \in 1 .. Len(u) : u[k] = p[k]
      BY <1>2, <3>1, <3>2
    <3>4. u = p
      BY <3>2, <3>3, SeqEqual DEF l
    <3>5. RunAt(t, cuts, x) = u
      BY <1>2, <2>9, RunAtIs DEF u
    <3> QED
      BY <3>4, <3>5
  <2> DEFINE f == [i \in P |-> RunAt(s, cuts, i)]
             Q == Starts(t, cuts)
             g == [i \in Q |-> RunAt(t, cuts, i)]
             V == Seq(S)
  <2>11. /\ P \in SUBSET Nat /\ IsFiniteSet(P) /\ P \subseteq 1 .. m /\ Runs(s, cuts) = Picked(P, f)
         /\ \A i \in P : IsRun(s, cuts, i, RunEnd(s, cuts, i))
    BY StartsAre DEF m
  <2>12. /\ Runs(t, cuts) = Picked(Q, g) /\ Q \in SUBSET Nat
         /\ \A i \in Q : IsRun(t, cuts, i, RunEnd(t, cuts, i))
    BY <1>2, StartsAre
  <2>13. f \in [P -> V] /\ g \in [Q -> V]
    <3>1. ASSUME NEW i \in P PROVE RunAt(s, cuts, i) \in Seq(S)
      <4>1. PICK e : IsRun(s, cuts, i, e)
        BY <2>11
      <4>2. RunAt(s, cuts, i) = SubSeq(s, i, e) /\ SubSeq(s, i, e) \in Seq(S)
        BY <4>1, RunAtIs
      <4> QED
        BY <4>2
    <3>2. ASSUME NEW i \in Q PROVE RunAt(t, cuts, i) \in Seq(S)
      <4>1. PICK e : IsRun(t, cuts, i, e)
        BY <2>12
      <4>2. RunAt(t, cuts, i) = SubSeq(t, i, e) /\ SubSeq(t, i, e) \in Seq(S)
        BY <1>2, <4>1, RunAtIs
      <4> QED
        BY <4>2
    <3> QED
      BY <3>1, <3>2
  <2>14. \A y \in P : y < x /\ g[y] = f[y]
    <3>1. \A y \in P : y \in Q /\ RunAt(t, cuts, y) = RunAt(s, cuts, y)
      BY <1>2, <2>4, RunsContinue
    <3>2. \A y \in P : y < x
      BY <1>1, <2>11
    <3> QED
      BY <3>1, <3>2
  <2>15. g[x] = p /\ x \in Nat
    BY <1>1, <2>6, <2>10
  <2> HIDE DEF P, Q, f, g, V, x
  <2>16. OneMore(P, V, f, x, Q, g)
    BY <2>8, <2>11, <2>13, <2>14, <2>15 DEF OneMore, Q
  <2>17. Picked(Q, g) = Append(Picked(P, f), g[x])
    BY <2>16, PickedOneMore
  <2>18. Runs(t, cuts) = Append(Runs(s, cuts), p)
    BY <2>11, <2>12, <2>15, <2>17
  <2> QED
    BY <1>4, <2>18 DEF t
<1> QED
  BY <1>3, <1>4

-----------------------------------------------------------------------------
(* Strings: Join, one part after the other.                                  *)

(* Induction over sequences: what holds <<>> and every longer sequence       *)
(* holds all of them.                                                        *)
LEMMA SequencesGrow ==
  ASSUME NEW S, NEW G, <<>> \in G, \A s \in Seq(S), x \in S : s \in G => Append(s, x) \in G
  PROVE  Seq(S) \subseteq G
<1> DEFINE Bad == {n \in Nat : \E s \in Seq(S) : s \notin G /\ Len(s) = n}
<1>1. ASSUME Bad # {} PROVE FALSE
  <2>1. PICK n \in Bad : \A k \in Bad : n <= k
    BY <1>1, LeastNumber
  <2>2. PICK s \in Seq(S) : s \notin G /\ Len(s) = n
    BY <2>1
  <2>3. PICK t \in Seq(S), x \in S : s = Append(t, x)
    BY <2>2, SequenceEmptyOrAppend
  <2>4. n = Len(t) + 1 /\ Len(t) \in Nat
    BY <2>2, <2>3, AppendProperties, LenProperties
  <2>5. Len(t) \notin Bad
    BY <2>1, <2>4
  <2> QED
    BY <2>2, <2>3, <2>4, <2>5
<1>2. ASSUME NEW s \in Seq(S) PROVE s \in G
  BY <1>1, LenProperties
<1> QED
  BY <1>2

(* Join: f tells what the first of the parts are joined to.                  *)
Glued(s, d, t) == IF s = <<>> THEN t ELSE s \o d \o t
JoinedTo(parts, d, n, f) ==
  f = [i \in 0 .. n |-> IF i = 0 THEN <<>> ELSE Glued(f[i - 1], d, parts[i])]

LEMMA JoinedBy ==
  ASSUME NEW parts, NEW d, NEW n \in Nat, NEW f, JoinedTo(parts, d, n, f)
  PROVE  f[0] = <<>> /\ \A i \in 1 .. n : f[i] = Glued(f[i - 1], d, parts[i])
<1>1. \A i \in 0 .. n : f[i] = IF i = 0 THEN <<>> ELSE Glued(f[i - 1], d, parts[i])
  BY DEF JoinedTo
<1>2. 0 \in 0 .. n /\ \A i \in 1 .. n : i \in 0 .. n /\ i # 0 /\ i - 1 \in 0 .. n
  OBVIOUS
<1> QED
  BY <1>1, <1>2

LEMMA JoinedFurther ==
  ASSUME NEW parts, NEW d, NEW n \in Nat, NEW f, JoinedTo(parts, d, n, f)
  PROVE  \E g : JoinedTo(parts, d, n + 1, g)
<1>1. f[0] = <<>> /\ \A i \in 1 .. n : f[i] = Glued(f[i - 1], d, parts[i])
  BY JoinedBy
<1> DEFINE x == n + 1
           g == [i \in 0 .. x |-> IF i = x THEN Glued(f[n], d, parts[x]) ELSE f[i]]
<1>2. /\ x # 0 /\ x - 1 = n /\ n \in 0 .. x /\ n # x
      /\ \A i \in 0 .. x : i = 0 \/ i = x \/ (i \in 1 .. n /\ i # x /\ i # 0 /\ i - 1 \in 0 .. x /\ i - 1 # x)
  OBVIOUS
<1> HIDE DEF x
<1>3. ASSUME NEW i \in 0 .. x PROVE g[i] = IF i = 0 THEN <<>> ELSE Glued(g[i - 1], d, parts[i])
  <2>1. CASE i = 0
    BY <1>1, <1>2, <2>1
  <2>2. CASE i = x
    BY <1>2, <2>2
  <2>3. CASE i # 0 /\ i # x
    <3>1. i \in 1 .. n /\ i - 1 \in 0 .. x /\ i - 1 # x
      BY <1>2, <2>3
    <3>2. g[i] = f[i] /\ g[i - 1] = f[i - 1]
      BY <2>3, <3>1
    <3> QED
      BY <1>1, <2>3, <3>1, <3>2
  <2> QED
    BY <2>1, <2>2, <2>3
<1>4. g = [i \in 0 .. x |-> g[i]]
  OBVIOUS
<1> HIDE DEF g
<1>5. JoinedTo(parts, d, x, g)
  BY <1>3, <1>4 DEF JoinedTo
<1> QED
  BY <1>5 DEF x

LEMMA JoinedExists ==
  ASSUME NEW parts, NEW d, NEW n \in Nat
  PROVE  \E f : JoinedTo(parts, d, n, f)
<1> DEFINE Bad == {k \in Nat : ~\E f : JoinedTo(parts, d, k, f)}
<1>1. ASSUME Bad # {} PROVE FALSE
  <2>1. PICK k \in Bad : \A j \in Bad : k <= j
    BY <1>1, LeastNumber
  <2>2. CASE k = 0
    <3> DEFINE f == [i \in 0 .. 0 |-> <<>>]
    <3>1. JoinedTo(parts, d, 0, f)
      BY DEF JoinedTo
    <3> QED
      BY <2>1, <2>2, <3>1
  <2>3. CASE k # 0
    <3>1. k - 1 \in Nat /\ ~(k <= k - 1) /\ (k - 1) + 1 = k
      BY <2>3
    <3>2. PICK f : JoinedTo(parts, d, k - 1, f)
      BY <2>1, <3>1
    <3>3. \E g : JoinedTo(parts, d, (k - 1) + 1, g)
      BY <3>1, <3>2, JoinedFurther
    <3> QED
      BY <2>1, <3>1, <3>3
  <2> QED
    BY <2>2, <2>3
<1> QED
  BY <1>1

LEMMA JoinedAgree ==
  ASSUME NEW ps, NEW qs, NEW d, NEW n \in Nat, NEW f, NEW g,
         JoinedTo(ps, d, n, f), NEW m \in Nat, n <= m, JoinedTo(qs, d, m, g),
         \A i \in 1 .. n : qs[i] = ps[i]
  PROVE  \A i \in 0 .. n : g[i] = f[i]
<1> DEFINE Bad == {i \in 0 .. n : g[i] # f[i]}
<1>1. ASSUME Bad # {} PROVE FALSE
  <2>1. Bad \in SUBSET Nat
    OBVIOUS
  <2>2. PICK k \in Bad : \A j \in Bad : k <= j
    BY <1>1, <2>1, LeastNumber
  <2>3. k # 0
    BY <2>2, JoinedBy
  <2>4. k \in 1 .. n /\ k \in 1 .. m /\ k - 1 \in 0 .. n /\ ~(k <= k - 1)
    BY <2>2, <2>3
  <2>5. f[k] = Glued(f[k - 1], d, ps[k])
    BY <2>4, JoinedBy
  <2>6. g[k] = Glued(g[k - 1], d, qs[k])
    BY <2>4, JoinedBy
  <2>7. g[k - 1] = f[k - 1]
    BY <2>2, <2>4
  <2> QED
    BY <2>2, <2>4, <2>5, <2>6, <2>7
<1> QED
  BY <1>1

LEMMA JoinIs ==
  ASSUME NEW parts, NEW d, Len(parts) \in Nat
  PROVE  \E f : JoinedTo(parts, d, Len(parts), f) /\ Join(parts, d) = f[Len(parts)]
<1> DEFINE n == Len(parts)
           J == CHOOSE f : f = [i \in 0 .. n |->
                  IF i = 0 THEN <<>>
                  ELSE IF f[i - 1] = <<>> THEN parts[i] ELSE f[i - 1] \o d \o parts[i]]
<1>1. \E f : f = [i \in 0 .. n |->
                  IF i = 0 THEN <<>>
                  ELSE IF f[i - 1] = <<>> THEN parts[i] ELSE f[i - 1] \o d \o parts[i]]
  BY JoinedExists, Zenon DEF JoinedTo, Glued
<1>2. J = [i \in 0 .. n |->
                  IF i = 0 THEN <<>>
                  ELSE IF J[i - 1] = <<>> THEN parts[i] ELSE J[i - 1] \o d \o parts[i]]
  BY <1>1, Zenon
<1>3. Join(parts, d) = J[n]
  BY Zenon DEF Join
<1>4. JoinedTo(parts, d, n, J)
  BY <1>2, Zenon DEF JoinedTo, Glued
<1> QED
  BY <1>3, <1>4, Zenon

LEMMA JoinOfNone == \A d : Join(<<>>, d) = <<>>
<1> SUFFICES ASSUME NEW d PROVE Join(<<>>, d) = <<>>
  OBVIOUS
<1>1. Len(<<>>) = 0
  OBVIOUS
<1>2. PICK f : JoinedTo(<<>>, d, Len(<<>>), f) /\ Join(<<>>, d) = f[Len(<<>>)]
  BY <1>1, JoinIs
<1>3. JoinedTo(<<>>, d, 0, f) /\ Join(<<>>, d) = f[0]
  BY <1>1, <1>2
<1> QED
  BY <1>3, JoinedBy

LEMMA JoinAppended ==
  ASSUME NEW V, NEW parts \in Seq(V), NEW p \in V, NEW d
  PROVE  Join(Append(parts, p), d) = Glued(Join(parts, d), d, p)
<1> DEFINE n == Len(parts)
           more == Append(parts, p)
           x == n + 1
<1>1. n \in Nat /\ Len(more) = x /\ more[x] = p /\ \A i \in 1 .. n : more[i] = parts[i]
  BY LenProperties, AppendProperties
<1>2. PICK f : JoinedTo(parts, d, n, f) /\ Join(parts, d) = f[n]
  BY <1>1, JoinIs
<1>3. Len(more) \in Nat
  BY <1>1
<1> HIDE DEF n, more
<1>4. PICK g : JoinedTo(more, d, Len(more), g) /\ Join(more, d) = g[Len(more)]
  BY <1>3, JoinIs
<1>5. x \in Nat /\ n <= x /\ n \in 0 .. n /\ x \in 1 .. x /\ x - 1 = n
  BY <1>1
<1> HIDE DEF x
<1>6. JoinedTo(more, d, x, g) /\ Join(more, d) = g[x]
  BY <1>1, <1>4
<1>7. g[n] = f[n]
  BY <1>1, <1>2, <1>5, <1>6, JoinedAgree
<1>8. g[x] = Glued(g[x - 1], d, more[x])
  <2>1. \A i \in 1 .. x : g[i] = Glued(g[i - 1], d, more[i])
    <3>1. x \in Nat /\ JoinedTo(more, d, x, g)
      BY <1>5, <1>6
    <3> QED
      BY <3>1, JoinedBy
  <2> QED
    BY <1>5, <2>1
<1> QED
  BY <1>1, <1>2, <1>5, <1>6, <1>7, <1>8 DEF more

LEMMA JoinTyped ==
  ASSUME NEW S, NEW d \in Seq(S)
  PROVE  \A parts \in Seq(Seq(S)) : Join(parts, d) \in Seq(S)
<1> DEFINE V == Seq(S)
           G == {parts \in Seq(V) : Join(parts, d) \in V}
<1>1. <<>> \in G
  BY JoinOfNone, EmptySeq
<1>2. ASSUME NEW parts \in Seq(V), NEW p \in V, parts \in G PROVE Append(parts, p) \in G
  <2>1. Append(parts, p) \in Seq(V)
    BY AppendProperties
  <2>2. Join(parts, d) \in V
    BY <1>2
  <2>3. Glued(Join(parts, d), d, p) \in V
    BY <2>2, ConcatProperties DEF Glued
  <2> HIDE DEF V
  <2> QED
    BY <2>1, <2>3, JoinAppended
<1> HIDE DEF G
<1>3. Seq(V) \subseteq G
  <2> HIDE DEF V
  <2> QED
    BY <1>1, <1>2, SequencesGrow
<1> QED
  BY <1>3 DEF G

(* A C string has no null, and a string without one is as it was.            *)
LEMMA CStringIs ==
  ASSUME NEW S, NEW s \in Seq(S)
  PROVE  CString(s) \in Seq(S \ {Null})
<1> DEFINE n == Find(s, {Null}) - 1
           c == SubSeq(s, 1, n)
<1>1. IsFirst(s, {Null}, Find(s, {Null})) /\ n \in 0 .. Len(s)
  BY FindIs
<1>2. \A i \in 1 .. n : s[i] # Null
  BY <1>1 DEF IsFirst
<1>3. Len(s) \in Nat
  BY LenProperties
<1> HIDE DEF n
<1>4. /\ 1 \in 1 .. Len(s) + 1 /\ n \in 1 - 1 .. Len(s) /\ (n - 1) + 1 = n
      /\ \A i \in 1 .. n : (1 + i) - 1 = i
  BY <1>1, <1>3
<1>5. c \in Seq(S) /\ Len(c) = n /\ \A i \in 1 .. n : c[i] = s[i]
  BY <1>4, SliceIs
<1>6. \A i \in 1 .. Len(c) : c[i] \in S \ {Null}
  BY <1>2, <1>5, ElementOfSeq
<1> HIDE DEF c
<1>7. c = [i \in 1 .. Len(c) |-> c[i]] /\ Len(c) \in Nat
  BY <1>5, LenProperties
<1>8. c \in Seq(S \ {Null})
  BY <1>6, <1>7, IsASeq
<1> QED
  BY <1>8 DEF CString, c, n

LEMMA CStringSame ==
  ASSUME NEW S, Null \notin S, NEW s \in Seq(S)
  PROVE  CString(s) = s
<1>1. Len(s) \in Nat /\ \A i \in 1 .. Len(s) : s[i] \in S
  BY LenProperties, ElementOfSeq
<1> DEFINE n == Len(s) + 1
<1>2. IsFirst(s, {Null}, n)
  BY <1>1 DEF IsFirst
<1>3. n - 1 = Len(s)
  BY <1>1
<1>4. Find(s, {Null}) = n
  <2> HIDE DEF n
  <2> QED
    BY <1>2, FindIsFirst
<1>5. CString(s) = SubSeq(s, 1, Len(s))
  BY <1>3, <1>4 DEF CString
<1> QED
  BY <1>5, SubSeqFull

(* How three sequences are put together does not matter.                     *)
Associate(s, t, u) == (s \o t) \o u = s \o (t \o u)

LEMMA ConcatAssociates ==
  ASSUME NEW S, NEW s \in Seq(S), NEW t \in Seq(S), NEW u \in Seq(S)
  PROVE  Associate(s, t, u)
BY ConcatAssociative DEF Associate

(* What was joined with a cut is found between the cuts, after what is there *)
(* already.                                                                  *)
Uncuts(S, cuts) == {p \in Seq(S) : Uncut(p, cuts)}

(* The runs of what is joined behind a string that ends with a cut.          *)
RunsAsJoined(S, cuts, d, pre) ==
  \A parts \in Seq(Uncuts(S, cuts)) :
    Runs(pre \o Join(parts, <<d>>), cuts) = Runs(pre, cuts) \o NonEmpty(parts)

LEMMA RunsOfJoined ==
  ASSUME NEW S, NEW cuts, NEW d \in S \cap cuts, NEW pre \in Seq(S), Closed(pre, cuts)
  PROVE  RunsAsJoined(S, cuts, d, pre)
<1> DEFINE V == {p \in Seq(S) : Uncut(p, cuts)}
           W == Seq(S)
           c == <<d>>
           G == {parts \in Seq(V) :
                   Runs(pre \o Join(parts, c), cuts) = Runs(pre, cuts) \o NonEmpty(parts)}
<1>0. Seq(V) \subseteq Seq(W) /\ c \in Seq(S) /\ Runs(pre, cuts) \in Seq(W)
  <2>1. Runs(pre, cuts) \in Seq(W)
    BY RunsAre
  <2> QED
    BY <2>1
<1>1. <<>> \in G
  <2>1. Join(<<>>, c) = <<>> /\ NonEmpty(<<>>) = <<>> /\ <<>> \in Seq(V)
    BY JoinOfNone, NonEmptyOfNone, EmptySeq
  <2>2. pre \o <<>> = pre /\ Runs(pre, cuts) \o <<>> = Runs(pre, cuts)
    BY <1>0, ConcatEmptySeq
  <2> QED
    BY <2>1, <2>2
<1>2. ASSUME NEW parts \in Seq(V), NEW p \in V, parts \in G PROVE Append(parts, p) \in G
  <2> DEFINE J == Join(parts, c)
             R == Runs(pre \o J, cuts)
             N == NonEmpty(parts)
  <2>1. J \in Seq(S) /\ N \in Seq(W) /\ R = Runs(pre, cuts) \o N
    BY <1>0, <1>2, JoinTyped, NonEmptyIs
  <2>2. Join(Append(parts, p), c) = Glued(J, c, p)
    <3> HIDE DEF V
    <3> QED
      BY JoinAppended
  <2>3. NonEmpty(Append(parts, p)) = IF p = <<>> THEN N ELSE Append(N, p)
    BY <1>0, NonEmptyAppended
  <2>4. PICK t \in Seq(S) : pre \o Glued(J, c, p) = t \o p /\ Closed(t, cuts) /\ Runs(t, cuts) = R
    <3> HIDE DEF J
    <3>1. CASE J = <<>>
      <4>1. pre \o J = pre
        BY <3>1, ConcatEmptySeq
      <4> QED
        BY <3>1, <4>1 DEF Glued
    <3>2. CASE J # <<>>
      <4> DEFINE u == pre \o J
                 t == Append(u, d)
      <4>1. u \in Seq(S)
        BY <2>1, ConcatProperties
      <4>2. t \in Seq(S) /\ Len(t) = Len(u) + 1 /\ t[Len(u) + 1] = d
        BY <4>1, AppendProperties
      <4>3. Closed(t, cuts)
        BY <4>2 DEF Closed
      <4>4. Runs(t, cuts) = Runs(u, cuts)
        <5> HIDE DEF u
        <5> QED
          BY <4>1, RunsBeforeCut
      <4>5. t = u \o c
        BY <4>1, AppendIsConcat
      <4>6. p \in Seq(S) /\ J \o c \in Seq(S)
        BY <1>0, <2>1, ConcatProperties
      <4>7. pre \o ((J \o c) \o p) = (pre \o (J \o c)) \o p
        <5> HIDE DEF c
        <5> QED
          <6>1. Associate(pre, J \o c, p)
            BY <4>6, ConcatAssociates
          <6> QED
            BY <6>1 DEF Associate
      <4>8. pre \o (J \o c) = (pre \o J) \o c
        <5>1. J \in Seq(S) /\ c \in Seq(S)
          BY <1>0, <2>1
        <5> HIDE DEF c
        <5> QED
          <6>1. Associate(pre, J, c)
            BY <5>1, ConcatAssociates
          <6> QED
            BY <6>1 DEF Associate
      <4>9. Glued(J, c, p) = (J \o c) \o p
        BY <3>2 DEF Glued
      <4>10. pre \o Glued(J, c, p) = t \o p
        <5> HIDE DEF t, u, c
        <5> QED
          BY <4>5, <4>7, <4>8, <4>9 DEF u
      <4> HIDE DEF t
      <4> QED
        BY <4>2, <4>3, <4>4, <4>10 DEF u
    <3> QED
      BY <3>1, <3>2
  <2>5. Runs(t \o p, cuts) = IF p = <<>> THEN R ELSE Append(R, p)
    <3>1. p \in Seq(S) /\ Uncut(p, cuts)
      OBVIOUS
    <3>2. Closed(t, cuts) /\ Runs(t, cuts) = R
      BY <2>4
    <3> HIDE DEF R, V
    <3>3. Runs(t \o p, cuts) = IF p = <<>> THEN Runs(t, cuts) ELSE Append(Runs(t, cuts), p)
      BY <3>1, <3>2, RunAppended
    <3> QED
      BY <3>2, <3>3
  <2>6. Append(Runs(pre, cuts) \o N, p) = Runs(pre, cuts) \o Append(N, p)
    <3> DEFINE a == Runs(pre, cuts)
    <3>0. a \in Seq(W) /\ N \in Seq(W) /\ p \in W /\ <<p>> \in Seq(W) /\ a \o N \in Seq(W)
      BY <1>0, <2>1, ConcatProperties
    <3> HIDE DEF a, N, W
    <3>1. Append(a \o N, p) = (a \o N) \o <<p>> /\ Append(N, p) = N \o <<p>>
      BY <3>0, AppendIsConcat
    <3>2. (a \o N) \o <<p>> = a \o (N \o <<p>>)
      <4>1. Associate(a, N, <<p>>)
        BY <3>0, ConcatAssociates
      <4> QED
        BY <4>1 DEF Associate
    <3> QED
      BY <3>1, <3>2 DEF a
  <2>7. Append(parts, p) \in Seq(V)
    <3> HIDE DEF V
    <3> QED
      BY AppendProperties
  <2>8. Runs(pre \o Join(Append(parts, p), c), cuts) = Runs(pre, cuts) \o NonEmpty(Append(parts, p))
    <3> HIDE DEF J, R, N, c
    <3> QED
      BY <2>1, <2>2, <2>3, <2>4, <2>5, <2>6
  <2> QED
    BY <2>7, <2>8
<1>3. Seq(V) \subseteq G
  <2> HIDE DEF V, G
  <2> QED
    BY <1>1, <1>2, SequencesGrow
<1> QED
  BY <1>3 DEF Uncuts, RunsAsJoined

Letters == Characters \ {Null}

LEMMA LettersAre ==
  /\ Null \notin Letters /\ {Slash, Backslash, EqualSign} \subseteq Letters
  /\ <<Slash>> \in Seq(Letters) /\ <<Backslash>> \in Seq(Letters)
BY StringsAssumption DEF Letters

(* A token has neither a null nor a delimiter, and is not empty.             *)
LEMMA TokensAre ==
  ASSUME NEW s \in Seq(Characters), NEW cuts
  PROVE  /\ Tokenize(s, cuts) \in Seq(Uncuts(Letters, cuts))
         /\ Tokenize(s, cuts) \in Seq(Seq(Letters))
         /\ \A n \in DOMAIN Tokenize(s, cuts) : Tokenize(s, cuts)[n] # <<>>
<1> DEFINE c == CString(s)
           t == Runs(c, cuts)
<1>1. c \in Seq(Letters)
  BY CStringIs DEF Letters
<1> HIDE DEF c
<1>2. t \in Seq(Seq(Letters)) /\ \A n \in DOMAIN t : t[n] # <<>> /\ Uncut(t[n], cuts)
  BY <1>1, RunsAre
<1> HIDE DEF t
<1>3. Len(t) \in Nat /\ DOMAIN t = 1 .. Len(t) /\ t = [n \in 1 .. Len(t) |-> t[n]]
  BY <1>2, LenProperties
<1>4. \A n \in 1 .. Len(t) : t[n] \in Seq(Letters)
  BY <1>2, ElementOfSeq
<1>5. \A n \in 1 .. Len(t) : t[n] \in Uncuts(Letters, cuts)
  BY <1>2, <1>3, <1>4 DEF Uncuts
<1>6. t \in Seq(Uncuts(Letters, cuts))
  BY <1>3, <1>5, IsASeq
<1> QED
  BY <1>2, <1>6 DEF Tokenize, t, c

LEMMA TokensOfJoined ==
  ASSUME NEW cuts, NEW d \in Letters \cap cuts, NEW parts \in Seq(Uncuts(Letters, cuts))
  PROVE  Tokenize(Join(parts, <<d>>), cuts) = NonEmpty(parts)
<1> DEFINE J == Join(parts, <<d>>)
<1>1. parts \in Seq(Seq(Letters)) /\ <<d>> \in Seq(Letters)
  BY DEF Uncuts
<1>2. J \in Seq(Letters) /\ Null \notin Letters
  BY <1>1, JoinTyped, LettersAre
<1>3. <<>> \in Seq(Letters) /\ Closed(<<>>, cuts)
  BY EmptySeq DEF Closed
<1>4. Runs(<<>> \o J, cuts) = Runs(<<>>, cuts) \o NonEmpty(parts)
  <2>1. ASSUME NEW pre \in Seq(Letters), Closed(pre, cuts)
        PROVE  Runs(pre \o J, cuts) = Runs(pre, cuts) \o NonEmpty(parts)
    <3>1. RunsAsJoined(Letters, cuts, d, pre)
      BY <2>1, RunsOfJoined
    <3> QED
      BY <3>1 DEF RunsAsJoined
  <2> HIDE DEF J
  <2> QED
    BY <1>3, <2>1
<1> HIDE DEF J
<1>5. <<>> \o J = J /\ CString(J) = J
  BY <1>2, ConcatEmptySeq, CStringSame
<1>6. NonEmpty(parts) \in Seq(Seq(Letters))
  BY <1>1, NonEmptyIs
<1>7. <<>> \o NonEmpty(parts) = NonEmpty(parts)
  BY <1>6, ConcatEmptySeq
<1> QED
  BY <1>4, <1>5, <1>7, RunsOfEmpty DEF Tokenize, J

LEMMA TokensOfTokens ==
  ASSUME NEW s \in Seq(Characters), NEW cuts, NEW d \in Letters \cap cuts
  PROVE  Tokenize(Join(Tokenize(s, cuts), <<d>>), cuts) = Tokenize(s, cuts)
<1> DEFINE t == Tokenize(s, cuts)
<1>1. t \in Seq(Uncuts(Letters, cuts)) /\ t \in Seq(Seq(Letters)) /\ \A n \in DOMAIN t : t[n] # <<>>
  BY TokensAre
<1> HIDE DEF t
<1>2. Tokenize(Join(t, <<d>>), cuts) = NonEmpty(t) /\ NonEmpty(t) = t
  BY <1>1, TokensOfJoined, NonEmptyOfFull
<1> QED
  BY <1>2 DEF t

(* The name of a root is one token, and in lower case.                       *)
LEMMA RootsAre ==
  ASSUME NEW name \in DOMAIN Roots
  PROVE  /\ name \in Seq(Letters) /\ name # <<>> /\ Uncut(name, {Slash, Backslash})
         /\ Lower(name) = name
<1>1. /\ name \in Seq(Characters) /\ name # <<>>
      /\ \A i \in DOMAIN name : LowerOf[name[i]] = name[i] /\ name[i] \notin {Null, Slash, Backslash}
  BY StringsAssumption
<1>2. Len(name) \in Nat /\ DOMAIN name = 1 .. Len(name) /\ name = [i \in 1 .. Len(name) |-> name[i]]
  BY <1>1, LenProperties
<1>3. \A i \in 1 .. Len(name) : name[i] \in Letters
  BY <1>1, <1>2, ElementOfSeq DEF Letters
<1>4. name \in Seq(Letters)
  BY <1>2, <1>3, IsASeq
<1>5. CString(name) = name
  BY <1>4, CStringSame, LettersAre
<1>6. [i \in DOMAIN name |-> LowerOf[name[i]]] = name
  BY <1>1, <1>2
<1>7. Uncut(name, {Slash, Backslash})
  BY <1>1 DEF Uncut
<1> QED
  BY <1>1, <1>4, <1>5, <1>6, <1>7 DEF Lower

Separators == {Slash, Backslash}
PathTo(name, subkey) == name \o <<Slash>> \o subkey

(* A path that is made of the name of a root and of tokens is cut into them. *)
LEMMA TokensOfPath ==
  ASSUME NEW name \in DOMAIN Roots, NEW parts \in Seq(Uncuts(Letters, Separators)),
         \A n \in DOMAIN parts : parts[n] # <<>>
  PROVE  Tokenize(PathTo(name, Join(parts, <<Backslash>>)), Separators) = <<name>> \o parts
<1> DEFINE J == Join(parts, <<Backslash>>)
           pre == Append(name, Slash)
           path == pre \o J
           none == <<>>
<1>1. /\ name \in Seq(Letters) /\ name # <<>> /\ Uncut(name, Separators)
      /\ Slash \in Letters \cap Separators /\ Backslash \in Letters \cap Separators
      /\ <<Slash>> \in Seq(Letters) /\ <<Backslash>> \in Seq(Letters)
  BY RootsAre, LettersAre DEF Separators
<1>2. parts \in Seq(Seq(Letters))
  BY DEF Uncuts
<1>3. J \in Seq(Letters)
  BY <1>1, <1>2, JoinTyped
<1>4. /\ pre \in Seq(Letters) /\ Len(pre) = Len(name) + 1 /\ pre[Len(name) + 1] = Slash
      /\ pre = name \o <<Slash>>
  BY <1>1, AppendProperties, AppendIsConcat
<1>5. Closed(pre, Separators)
  BY <1>1, <1>4 DEF Closed
<1>6. PathTo(name, J) = path /\ path \in Seq(Letters)
  <2> HIDE DEF J
  <2> QED
    BY <1>3, <1>4, ConcatProperties DEF PathTo
<1>7. Runs(pre, Separators) = Runs(name, Separators)
  BY <1>1, RunsBeforeCut
<1>8. Runs(name, Separators) = <<name>>
  <2>1. none \in Seq(Letters) /\ Closed(none, Separators) /\ Runs(none, Separators) = <<>>
    BY EmptySeq, RunsOfEmpty DEF Closed
  <2> HIDE DEF none
  <2>2. Runs(none \o name, Separators) = Append(Runs(none, Separators), name)
    <3>1. none \in Seq(Letters) /\ Closed(none, Separators)
      BY <2>1
    <3>2. ASSUME NEW p \in Seq(Letters), Uncut(p, Separators), p # <<>>
          PROVE  Runs(none \o p, Separators) = Append(Runs(none, Separators), p)
      BY <3>1, <3>2, RunAppended
    <3> QED
      BY <1>1, <3>2
  <2>3. none \o name = name
    BY <1>1, ConcatEmptySeq DEF none
  <2> QED
    BY <2>1, <2>2, <2>3
<1>9. Runs(path, Separators) = Runs(pre, Separators) \o NonEmpty(parts)
  <2> HIDE DEF pre
  <2>1. \A ps \in Seq(Uncuts(Letters, Separators)) :
          Runs(pre \o Join(ps, <<Backslash>>), Separators) = Runs(pre, Separators) \o NonEmpty(ps)
    <3>1. pre \in Seq(Letters) /\ Closed(pre, Separators) /\ Backslash \in Letters \cap Separators
      BY <1>1, <1>4, <1>5
    <3>2. RunsAsJoined(Letters, Separators, Backslash, pre)
      BY <3>1, RunsOfJoined
    <3> QED
      BY <3>2 DEF RunsAsJoined
  <2> QED
    BY <2>1
<1>10. NonEmpty(parts) = parts
  BY <1>2, NonEmptyOfFull
<1>11. CString(path) = path
  <2> HIDE DEF path
  <2> QED
    BY <1>6, CStringSame, LettersAre
<1> HIDE DEF path, pre, J
<1>12. Tokenize(path, Separators) = <<name>> \o parts
  BY <1>7, <1>8, <1>9, <1>10, <1>11 DEF Tokenize
<1> QED
  BY <1>6, <1>12 DEF J

PathReadAgain(s) ==
  RegistryPath(s).ok =>
    \A name \in DOMAIN Roots : Roots[name] = RegistryPath(s).value.key =>
      RegistryPath(PathTo(name, RegistryPath(s).value.subkey)) = RegistryPath(s)

LEMMA PathsAreReadAgain ==
  ASSUME NEW s \in Seq(Characters)
  PROVE  PathReadAgain(s)
<1> DEFINE tokens == Tokenize(s, Separators)
           root == Lower(tokens[1])
           rest == Tail(tokens)
           J == Join(rest, <<Backslash>>)
<1>1. /\ tokens \in Seq(Uncuts(Letters, Separators)) /\ tokens \in Seq(Seq(Letters))
      /\ \A n \in DOMAIN tokens : tokens[n] # <<>>
  BY TokensAre
<1>2. RegistryPath(s) = IF Len(tokens) < 2 THEN Thrown
                        ELSE IF root \notin DOMAIN Roots THEN Thrown
                        ELSE Done([key |-> Roots[root], subkey |-> J])
  BY DEF RegistryPath, Separators
<1> HIDE DEF tokens, root, J
<1> SUFFICES ASSUME Len(tokens) >= 2, root \in DOMAIN Roots, NEW name \in DOMAIN Roots,
                    Roots[name] = Roots[root]
             PROVE  RegistryPath(PathTo(name, J)) = Done([key |-> Roots[root], subkey |-> J])
  <2>1. Len(tokens) \in Nat
    BY <1>1, LenProperties
  <2>2. CASE Len(tokens) < 2 \/ root \notin DOMAIN Roots
    BY <1>2, <2>2 DEF PathReadAgain, Thrown
  <2>3. CASE ~(Len(tokens) < 2) /\ root \in DOMAIN Roots
    <3>1. RegistryPath(s) = Done([key |-> Roots[root], subkey |-> J]) /\ Len(tokens) >= 2
      BY <1>2, <2>1, <2>3
    <3>2. /\ RegistryPath(s).ok /\ RegistryPath(s).value.key = Roots[root]
          /\ RegistryPath(s).value.subkey = J
      BY <3>1 DEF Done
    <3> QED
      BY <2>3, <3>1, <3>2 DEF PathReadAgain
  <2> QED
    BY <2>1, <2>2, <2>3
<1>3. /\ rest \in Seq(Uncuts(Letters, Separators)) /\ Len(rest) = Len(tokens) - 1
      /\ Len(tokens) \in Nat
      /\ \A i \in 1 .. Len(rest) : rest[i] = tokens[i + 1]
  <2> DEFINE V == Uncuts(Letters, Separators)
  <2>1. tokens \in Seq(V) /\ tokens # <<>> /\ Len(tokens) \in Nat
    BY <1>1, LenProperties, EmptySeq
  <2> HIDE DEF V
  <2> QED
    BY <2>1, HeadTailProperties DEF V
<1>4. Len(rest) \in Nat /\ DOMAIN rest = 1 .. Len(rest) /\ DOMAIN tokens = 1 .. Len(tokens)
  BY <1>1, <1>3, LenProperties
<1> HIDE DEF rest
<1>5. \A n \in DOMAIN rest : rest[n] # <<>>
  <2>1. \A n \in DOMAIN rest : n + 1 \in DOMAIN tokens
    BY <1>3, <1>4
  <2> QED
    BY <1>1, <1>3, <1>4, <2>1
<1> DEFINE again == <<name>> \o rest
           one == <<name>>
<1>6. Tokenize(PathTo(name, J), Separators) = again
  BY <1>3, <1>5, TokensOfPath DEF J
<1>7. /\ Len(again) = Len(tokens) /\ again[1] = name /\ Tail(again) = rest
  <2> DEFINE V == Uncuts(Letters, Separators)
  <2>1. rest \in Seq(V) /\ name \in V
    BY <1>3, RootsAre DEF Uncuts, Separators
  <2>2. one \in Seq(V) /\ Len(one) = 1 /\ one[1] = name
    BY <2>1
  <2> HIDE DEF V
  <2>3. /\ again \in Seq(V) /\ Len(again) = Len(one) + Len(rest)
        /\ again[1] = one[1] /\ \A i \in 1 .. Len(rest) : again[1 + i] = rest[i]
    <3> HIDE DEF one
    <3>1. one \o rest \in Seq(V) /\ Len(one \o rest) = Len(one) + Len(rest)
          /\ (\A i \in 1 .. Len(one) : (one \o rest)[i] = one[i])
          /\ \A i \in 1 .. Len(rest) : (one \o rest)[Len(one) + i] = rest[i]
      <4>1. one \in Seq(V) /\ rest \in Seq(V)
        BY <2>1, <2>2
      <4> QED
        BY <4>1, ConcatIs
    <3> QED
      BY <2>2, <3>1 DEF one
  <2> HIDE DEF again, one
  <2>4. again # <<>> /\ Len(again) = Len(tokens)
    BY <1>3, <1>4, <2>2, <2>3, EmptySeq
  <2>5. Tail(again) \in Seq(V) /\ Len(Tail(again)) = Len(again) - 1
        /\ \A i \in 1 .. Len(Tail(again)) : Tail(again)[i] = again[i + 1]
    BY <2>3, <2>4, HeadTailProperties
  <2> DEFINE u == Tail(again)
  <2>6. Len(u) = Len(rest) /\ \A i \in 1 .. Len(u) : u[i] = rest[i]
    BY <1>3, <1>4, <2>2, <2>3, <2>4, <2>5
  <2> HIDE DEF u
  <2>7. u \in Seq(V)
    BY <2>5 DEF u
  <2>8. u = rest
    BY <2>1, <2>6, <2>7, SeqEqual
  <2> QED
    BY <2>2, <2>3, <2>4, <2>8 DEF u
<1> HIDE DEF again
<1>8. Lower(again[1]) = name /\ ~(Len(again) < 2)
  BY <1>3, <1>7, RootsAre
<1>9. RegistryPath(PathTo(name, J)) =
        Done([key |-> Roots[name], subkey |-> Join(Tail(again), <<Backslash>>)])
  BY <1>6, <1>8 DEF RegistryPath, Separators
<1> QED
  BY <1>7, <1>9 DEF J

-----------------------------------------------------------------------------
(* Strings: bytes and characters.                                            *)

(* FlattenSeq joins with nothing in between.                                 *)
LEMMA FlattenIsJoined ==
  ASSUME NEW S, NEW ss \in Seq(Seq(S))
  PROVE  FlattenSeq(ss) = Join(ss, <<>>)
<1> DEFINE n == Len(ss)
           W == Seq(S)
           none == <<>>
<1>1. n \in Nat /\ (\A i \in 1 .. n : ss[i] \in W) /\ none \in W
  BY LenProperties, ElementOfSeq, EmptySeq
<1>2. PICK f : JoinedTo(ss, none, n, f) /\ Join(ss, none) = f[n]
  BY <1>1, JoinIs
<1>3. f[0] = <<>> /\ \A i \in 1 .. n : f[i] = Glued(f[i - 1], none, ss[i])
  BY <1>1, <1>2, JoinedBy
<1>4. \A s \in W, t \in W : Glued(s, none, t) = s \o t /\ s \o t \in W
  <2> SUFFICES ASSUME NEW s \in W, NEW t \in W PROVE Glued(s, none, t) = s \o t /\ s \o t \in W
    OBVIOUS
  <2>1. s \o <<>> = s /\ <<>> \o t = t /\ s \o t \in W
    BY ConcatEmptySeq, ConcatProperties
  <2> QED
    BY <2>1 DEF Glued
<1>5. \A i \in 0 .. n : f[i] \in W
  <2> DEFINE Bad == {i \in 0 .. n : f[i] \notin W}
  <2>1. ASSUME Bad # {} PROVE FALSE
    <3>1. Bad \in SUBSET Nat
      OBVIOUS
    <3> HIDE DEF W
    <3>2. PICK i \in Bad : \A k \in Bad : i <= k
      BY <2>1, <3>1, LeastNumber
    <3>3. i # 0
      BY <1>1, <1>3, <3>2
    <3>4. i \in 1 .. n /\ i - 1 \in 0 .. n /\ ~(i <= i - 1)
      BY <1>1, <3>2, <3>3
    <3>5. f[i - 1] \in W /\ ss[i] \in W /\ f[i] = Glued(f[i - 1], none, ss[i])
      BY <1>1, <1>3, <3>2, <3>4
    <3>6. f[i] \in W
      <4>1. \A s \in W, t \in W : Glued(s, none, t) \in W
        BY <1>4
      <4> HIDE DEF none
      <4> QED
        BY <3>5, <4>1
    <3> QED
      BY <3>2, <3>6
  <2> QED
    BY <2>1
<1> DEFINE g == [i \in 1 .. n |-> f[i]]
           F == CHOOSE h : h = [i \in 1 .. n |-> IF i = 1 THEN ss[i] ELSE h[i - 1] \o ss[i]]
<1>6. g = [i \in 1 .. n |-> IF i = 1 THEN ss[i] ELSE g[i - 1] \o ss[i]]
  <2>1. ASSUME NEW i \in 1 .. n PROVE f[i] = f[i - 1] \o ss[i] /\ (i = 1 => f[i] = ss[i])
    <3>1. i - 1 \in 0 .. n
      BY <1>1
    <3>2. f[i - 1] \in W /\ ss[i] \in W
      BY <1>1, <1>5, <3>1
    <3> HIDE DEF W
    <3>3. f[i] = f[i - 1] \o ss[i]
      BY <1>3, <1>4, <3>2
    <3>4. i = 1 => f[i - 1] = <<>>
      BY <1>3
    <3> QED
      BY <1>3, <3>3, <3>4 DEF Glued
  <2>2. \A i \in 1 .. n : i # 1 => i - 1 \in 1 .. n
    BY <1>1
  <2>3. \A i \in 1 .. n : g[i] = IF i = 1 THEN ss[i] ELSE g[i - 1] \o ss[i]
    BY <2>1, <2>2
  <2>4. g = [i \in 1 .. n |-> g[i]]
    OBVIOUS
  <2> HIDE DEF g
  <2> QED
    BY <2>3, <2>4
<1>7. F = [i \in 1 .. n |-> IF i = 1 THEN ss[i] ELSE F[i - 1] \o ss[i]]
  <2>1. \E h : h = [i \in 1 .. n |-> IF i = 1 THEN ss[i] ELSE h[i - 1] \o ss[i]]
    <3> HIDE DEF g, F
    <3> QED
      BY <1>6
  <2> QED
    BY <2>1, Zenon
<1>8. n # 0 => FlattenSeq(ss) = F[n]
  BY Zenon DEF FlattenSeq
<1>9. n = 0 => FlattenSeq(ss) = ss /\ ss = <<>>
  BY EmptySeq DEF FlattenSeq
<1> HIDE DEF F, g, n
<1>10. \A i \in 1 .. n : F[i] = g[i]
  <2> DEFINE Bad == {i \in 1 .. n : F[i] # g[i]}
  <2>1. ASSUME Bad # {} PROVE FALSE
    <3>1. Bad \in SUBSET Nat
      OBVIOUS
    <3>2. PICK i \in Bad : \A k \in Bad : i <= k
      BY <2>1, <3>1, LeastNumber
    <3>3. F[i] = IF i = 1 THEN ss[i] ELSE F[i - 1] \o ss[i]
      BY <1>7, <3>2
    <3>4. g[i] = IF i = 1 THEN ss[i] ELSE g[i - 1] \o ss[i]
      BY <1>6, <3>2
    <3>5. i # 1
      BY <3>2, <3>3, <3>4
    <3>6. i - 1 \in 1 .. n /\ ~(i <= i - 1)
      BY <1>1, <3>2, <3>5
    <3>7. F[i - 1] = g[i - 1]
      BY <3>2, <3>6
    <3> QED
      BY <3>2, <3>3, <3>4, <3>7
  <2> QED
    BY <2>1
<1>11. CASE n = 0
  BY <1>2, <1>3, <1>9, <1>11
<1>12. CASE n # 0
  <2>1. n \in 1 .. n
    BY <1>1, <1>12
  <2>2. g[n] = f[n]
    BY <2>1 DEF g
  <2> QED
    BY <1>2, <1>8, <1>10, <1>12, <2>1, <2>2
<1> QED
  BY <1>11, <1>12

LEMMA FlattenAppended ==
  ASSUME NEW S, NEW ss \in Seq(Seq(S)), NEW s \in Seq(S)
  PROVE  /\ FlattenSeq(Append(ss, s)) = FlattenSeq(ss) \o s
         /\ FlattenSeq(ss) \in Seq(S)
<1> DEFINE W == Seq(S)
           none == <<>>
<1>1. Append(ss, s) \in Seq(W)
  BY AppendProperties
<1>2. FlattenSeq(Append(ss, s)) = Join(Append(ss, s), none) /\ FlattenSeq(ss) = Join(ss, none)
  BY <1>1, FlattenIsJoined
<1>3. Join(Append(ss, s), none) = Glued(Join(ss, none), none, s)
  <2>1. ss \in Seq(W) /\ s \in W
    OBVIOUS
  <2> HIDE DEF W, none
  <2> QED
    BY <2>1, JoinAppended
<1>4. Join(ss, none) \in W
  BY EmptySeq, JoinTyped
<1> DEFINE a == Join(ss, none)
<1> HIDE DEF a
<1>5. a \o <<>> = a /\ <<>> \o s = s
  BY <1>4, ConcatEmptySeq DEF a
<1>6. Glued(a, none, s) = a \o s
  BY <1>5 DEF Glued
<1> QED
  BY <1>2, <1>3, <1>4, <1>6 DEF a

NarrowOfAll(s) == [i \in DOMAIN s |-> NarrowOf[s[i]]]

LEMMA NarrowOfAllIs ==
  ASSUME NEW s \in Seq(Characters)
  PROVE  /\ NarrowOfAll(s) \in Seq(Seq(Bytes)) /\ Len(NarrowOfAll(s)) = Len(s)
         /\ \A i \in 1 .. Len(s) : NarrowOfAll(s)[i] = NarrowOf[s[i]]
<1> DEFINE W == Seq(Bytes)
           n == Len(s)
<1>1. n \in Nat /\ DOMAIN s = 1 .. n /\ \A i \in 1 .. n : s[i] \in Characters
  BY LenProperties, ElementOfSeq
<1>2. \A i \in 1 .. n : NarrowOf[s[i]] \in W
  BY <1>1, NarrowAssumption
<1>3. NarrowOfAll(s) = [i \in 1 .. n |-> NarrowOf[s[i]]]
  BY <1>1 DEF NarrowOfAll
<1> HIDE DEF W, n
<1>4. NarrowOfAll(s) \in Seq(W)
  BY <1>1, <1>2, <1>3, IsASeq
<1>5. Len(NarrowOfAll(s)) = n
  BY <1>1, <1>3, <1>4, LenProperties
<1> QED
  BY <1>1, <1>3, <1>4, <1>5 DEF W, n

LEMMA NarrowedAppended ==
  ASSUME NEW s \in Seq(Characters), NEW c \in Characters
  PROVE  Narrowed(Append(s, c)) = Narrowed(s) \o NarrowOf[c]
<1> DEFINE t == Append(s, c)
           a == NarrowOfAll(s)
           b == NarrowOfAll(t)
           x == NarrowOf[c]
           W == Seq(Bytes)
<1>1. /\ t \in Seq(Characters) /\ Len(t) = Len(s) + 1 /\ t[Len(s) + 1] = c
      /\ \A i \in 1 .. Len(s) : t[i] = s[i]
  BY AppendProperties
<1>2. Len(s) \in Nat /\ x \in W
  BY LenProperties, NarrowAssumption
<1> HIDE DEF t
<1>3. a \in Seq(W) /\ Len(a) = Len(s) /\ \A i \in 1 .. Len(s) : a[i] = NarrowOf[s[i]]
  BY NarrowOfAllIs
<1>4. b \in Seq(W) /\ Len(b) = Len(t) /\ \A i \in 1 .. Len(t) : b[i] = NarrowOf[t[i]]
  BY <1>1, NarrowOfAllIs
<1> HIDE DEF a, b, W
<1>5. b = Append(a, x)
  <2> DEFINE d == Append(a, x)
  <2>1. /\ d \in Seq(W) /\ Len(d) = Len(a) + 1 /\ d[Len(a) + 1] = x
        /\ \A i \in 1 .. Len(a) : d[i] = a[i]
    BY <1>2, <1>3, AppendProperties
  <2> HIDE DEF d
  <2>2. Len(b) = Len(d)
    BY <1>1, <1>3, <1>4, <2>1
  <2>3. ASSUME NEW i \in 1 .. Len(b) PROVE b[i] = d[i]
    <3>1. i \in 1 .. Len(t) /\ (i = Len(s) + 1 \/ i \in 1 .. Len(s))
      BY <1>1, <1>2, <1>4
    <3>2. b[i] = NarrowOf[t[i]]
      BY <1>4, <3>1
    <3>3. CASE i = Len(s) + 1
      BY <1>1, <1>3, <2>1, <3>2, <3>3
    <3>4. CASE i \in 1 .. Len(s)
      <4>1. t[i] = s[i] /\ a[i] = NarrowOf[s[i]] /\ d[i] = a[i]
        BY <1>1, <1>3, <2>1, <3>4
      <4> QED
        BY <3>2, <4>1
    <3> QED
      BY <3>1, <3>3, <3>4
  <2> QED
    BY <1>4, <2>1, <2>2, <2>3, SeqEqual DEF d
<1>6. FlattenSeq(b) = FlattenSeq(a) \o x
  BY <1>2, <1>3, <1>5, FlattenAppended DEF W
<1> QED
  BY <1>6 DEF Narrowed, NarrowOfAll, a, b, t

LEMMA NarrowedOfNone == Narrowed(<<>>) = <<>>
<1> DEFINE a == NarrowOfAll(<<>>)
<1>1. a \in Seq(Seq(Bytes)) /\ Len(a) = 0
  BY EmptySeq, NarrowOfAllIs
<1> HIDE DEF a
<1>2. a = <<>> /\ FlattenSeq(a) = a
  BY <1>1, EmptySeq DEF FlattenSeq
<1> QED
  BY <1>2 DEF Narrowed, NarrowOfAll, a

(* What is narrowed is typed, no shorter, and has nulls for nulls only.      *)
LEMMA NarrowedIs ==
  ASSUME NEW s \in Seq(Characters)
  PROVE  /\ Narrowed(s) \in Seq(Bytes) /\ Len(s) <= Len(Narrowed(s))
         /\ s \in Seq(Letters) => Narrowed(s) \in Seq(Bytes \ {Null})
<1> DEFINE Holds(u) == /\ Narrowed(u) \in Seq(Bytes) /\ Len(u) <= Len(Narrowed(u))
                       /\ u \in Seq(Letters) => Narrowed(u) \in Seq(Bytes \ {Null})
           G == {u \in Seq(Characters) : Holds(u)}
<1>1. <<>> \in G
  <2>1. <<>> \in Seq(Characters) /\ <<>> \in Seq(Bytes) /\ <<>> \in Seq(Bytes \ {Null})
    BY EmptySeq
  <2>2. Len(<<>>) <= Len(<<>>)
    OBVIOUS
  <2> QED
    BY <2>1, <2>2, NarrowedOfNone
<1>2. ASSUME NEW u \in Seq(Characters), NEW c \in Characters, u \in G PROVE Append(u, c) \in G
  <2> DEFINE v == Append(u, c)
             x == NarrowOf[c]
             a == Narrowed(u)
  <2>1. v \in Seq(Characters) /\ Len(v) = Len(u) + 1 /\ Narrowed(v) = a \o x
    BY AppendProperties, NarrowedAppended
  <2>2. a \in Seq(Bytes) /\ Len(u) <= Len(a) /\ (u \in Seq(Letters) => a \in Seq(Bytes \ {Null}))
    BY <1>2
  <2>3. x \in Seq(Bytes) /\ x # <<>> /\ (c # Null => Null \notin ToSet(x))
    BY NarrowAssumption
  <2>4. a \o x \in Seq(Bytes) /\ Len(a \o x) = Len(a) + Len(x)
    BY <2>2, <2>3, ConcatProperties
  <2>5. Len(u) \in Nat /\ Len(a) \in Nat /\ Len(x) \in Nat /\ Len(x) # 0
    BY <2>2, <2>3, LenProperties, EmptySeq
  <2>6. Len(v) <= Len(a \o x)
    BY <2>1, <2>2, <2>4, <2>5
  <2>7. ASSUME v \in Seq(Letters) PROVE a \o x \in Seq(Bytes \ {Null})
    <3>1. \A i \in 1 .. Len(v) : v[i] \in Letters
      BY <2>7, ElementOfSeq
    <3>2. /\ Len(u) + 1 \in 1 .. Len(v) /\ v[Len(u) + 1] = c
          /\ \A i \in 1 .. Len(u) : v[i] = u[i] /\ i \in 1 .. Len(v)
      BY <2>1, <2>5, AppendProperties
    <3>3. c \in Letters /\ \A i \in 1 .. Len(u) : u[i] \in Letters
      BY <3>1, <3>2
    <3>4. u = [i \in 1 .. Len(u) |-> u[i]]
      BY LenProperties
    <3>5. u \in Seq(Letters)
      BY <2>5, <3>3, <3>4, IsASeq
    <3>6. /\ x = [i \in 1 .. Len(x) |-> x[i]] /\ DOMAIN x = 1 .. Len(x)
          /\ \A i \in 1 .. Len(x) : x[i] \in Bytes
      BY <2>3, LenProperties, ElementOfSeq
    <3>7. \A i \in 1 .. Len(x) : x[i] \in Bytes \ {Null}
      BY <2>3, <3>3, <3>6 DEF ToSet, Letters
    <3>8. x \in Seq(Bytes \ {Null})
      <4> HIDE DEF x
      <4> QED
        BY <2>5, <3>6, <3>7, IsASeq
    <3> QED
      BY <2>2, <3>5, <3>8, ConcatProperties
  <2> HIDE DEF v, x, a
  <2>8. Holds(v)
    BY <2>1, <2>4, <2>6, <2>7
  <2> QED
    BY <2>1, <2>8 DEF v
<1> HIDE DEF G
<1>3. Seq(Characters) \subseteq G
  BY <1>1, <1>2, SequencesGrow
<1> QED
  BY <1>3 DEF G

LEMMA NarrowedConcat ==
  ASSUME NEW s \in Seq(Characters)
  PROVE  \A t \in Seq(Characters) : Narrowed(s \o t) = Narrowed(s) \o Narrowed(t)
<1> DEFINE G == {t \in Seq(Characters) : Narrowed(s \o t) = Narrowed(s) \o Narrowed(t)}
<1>1. <<>> \in G
  <2>1. s \o <<>> = s /\ Narrowed(s) \o <<>> = Narrowed(s)
    BY NarrowedIs, ConcatEmptySeq
  <2> QED
    BY <2>1, NarrowedOfNone, EmptySeq
<1>2. ASSUME NEW t \in Seq(Characters), NEW c \in Characters, t \in G PROVE Append(t, c) \in G
  <2> DEFINE x == NarrowOf[c]
             o == <<c>>
  <2>1. Append(t, c) \in Seq(Characters) /\ Append(t, c) = t \o o /\ o \in Seq(Characters)
    BY AppendProperties, AppendIsConcat
  <2>2. s \o t \in Seq(Characters) /\ Append(s \o t, c) = (s \o t) \o o
    BY ConcatProperties, AppendIsConcat
  <2> HIDE DEF o
  <2>3. s \o Append(t, c) = Append(s \o t, c)
    <3>1. Associate(s, t, o)
      BY <2>1, ConcatAssociates
    <3> QED
      BY <2>1, <2>2, <3>1 DEF Associate
  <2>4. Narrowed(Append(s \o t, c)) = Narrowed(s \o t) \o x
    BY <2>2, NarrowedAppended
  <2>5. Narrowed(s \o t) = Narrowed(s) \o Narrowed(t) /\ Narrowed(Append(t, c)) = Narrowed(t) \o x
    BY <1>2, NarrowedAppended
  <2>6. (Narrowed(s) \o Narrowed(t)) \o x = Narrowed(s) \o (Narrowed(t) \o x)
    <3>1. Narrowed(s) \in Seq(Bytes) /\ Narrowed(t) \in Seq(Bytes) /\ x \in Seq(Bytes)
      BY NarrowedIs, NarrowAssumption
    <3> HIDE DEF x
    <3> QED
      <4>1. Associate(Narrowed(s), Narrowed(t), x)
        BY <3>1, ConcatAssociates
      <4> QED
        BY <4>1 DEF Associate
  <2> QED
    BY <2>1, <2>3, <2>4, <2>5, <2>6
<1> HIDE DEF G
<1>3. Seq(Characters) \subseteq G
  BY <1>1, <1>2, SequencesGrow
<1> QED
  BY <1>3 DEF G

LEMMA OneBegins ==
  ASSUME NEW S, NEW a \in Seq(S), NEW b \in Seq(S), NEW u \in Seq(S), NEW v \in Seq(S),
         a \o u = b \o v
  PROVE  BeginsWith(a, b) \/ BeginsWith(b, a)
<1>1. \A x \in Seq(S), y \in Seq(S), w \in Seq(S), z \in Seq(S) :
        x \o w = y \o z /\ Len(x) >= Len(y) => BeginsWith(x, y)
  <2> SUFFICES ASSUME NEW x \in Seq(S), NEW y \in Seq(S), NEW w \in Seq(S), NEW z \in Seq(S),
                      x \o w = y \o z, Len(x) >= Len(y)
               PROVE  BeginsWith(x, y)
    OBVIOUS
  <2> DEFINE n == Len(y)
             p == SubSeq(x, 1, n)
  <2>1. n \in Nat /\ Len(x) \in Nat /\ n <= Len(x)
    BY LenProperties
  <2>2. \A i \in 1 .. Len(x) : (x \o w)[i] = x[i]
    BY ConcatIs
  <2>3. \A i \in 1 .. n : (y \o z)[i] = y[i]
    BY ConcatIs
  <2> HIDE DEF n
  <2>4. 1 \in 1 .. Len(x) + 1 /\ n \in 1 - 1 .. Len(x) /\ (n - 1) + 1 = n
        /\ \A k \in 1 .. n : (1 + k) - 1 = k /\ k \in 1 .. Len(x)
    BY <2>1
  <2>5. p \in Seq(S) /\ Len(p) = n /\ \A k \in 1 .. n : p[k] = x[k]
    BY <2>4, SliceIs
  <2> HIDE DEF p
  <2>6. \A k \in 1 .. Len(p) : p[k] = y[k]
    BY <2>2, <2>3, <2>4, <2>5
  <2>7. p = y
    BY <2>5, <2>6, SeqEqual DEF n
  <2> QED
    BY <2>7 DEF BeginsWith, p, n
<1>2. Len(a) \in Nat /\ Len(b) \in Nat
  BY LenProperties
<1>3. CASE Len(a) >= Len(b)
  BY <1>1, <1>3
<1>4. CASE Len(b) >= Len(a)
  BY <1>1, <1>4
<1> QED
  BY <1>2, <1>3, <1>4

(* What is narrowed to bytes that begin with those of a string begins with   *)
(* that string.                                                              *)
LEMMA NarrowedBegins ==
  ASSUME NEW s \in Seq(Characters)
  PROVE  \A t \in Seq(Characters), w \in Seq(Bytes) :
           Narrowed(t) = Narrowed(s) \o w => \E u \in Seq(Characters) : t = s \o u
<1> DEFINE Holds(x) == \A t \in Seq(Characters), w \in Seq(Bytes) :
             Narrowed(t) = Narrowed(x) \o w => \E u \in Seq(Characters) : t = x \o u
           G == {x \in Seq(Characters) : Holds(x)}
<1>1. <<>> \in G
  <2>1. ASSUME NEW t \in Seq(Characters) PROVE t = <<>> \o t
    BY ConcatEmptySeq
  <2>2. Holds(<<>>)
    BY <2>1
  <2> QED
    BY <2>2, EmptySeq
<1>2. ASSUME NEW x \in Seq(Characters), NEW c \in Characters, x \in G PROVE Append(x, c) \in G
  <2> DEFINE y == Append(x, c)
             N == NarrowOf[c]
             o == <<c>>
  <2>1. y \in Seq(Characters) /\ y = x \o o /\ o \in Seq(Characters)
    BY AppendProperties, AppendIsConcat
  <2>2. Narrowed(y) = Narrowed(x) \o N
    BY NarrowedAppended
  <2>3. N \in Seq(Bytes) /\ N # <<>> /\ Narrowed(x) \in Seq(Bytes)
    BY NarrowAssumption, NarrowedIs
  <2>4. ASSUME NEW t \in Seq(Characters), NEW w \in Seq(Bytes), Narrowed(t) = Narrowed(y) \o w
        PROVE  \E u \in Seq(Characters) : t = y \o u
    <3> HIDE DEF y, N, o
    <3>1. Narrowed(t) = Narrowed(x) \o (N \o w) /\ N \o w \in Seq(Bytes)
      <4>1. N \o w \in Seq(Bytes)
        BY <2>3, ConcatProperties, Zenon
      <4>2. (Narrowed(x) \o N) \o w = Narrowed(x) \o (N \o w)
        <5>1. Associate(Narrowed(x), N, w)
          BY <2>3, ConcatAssociates
        <5> QED
          BY <5>1 DEF Associate
      <4> QED
        BY <2>2, <2>4, <4>1, <4>2, Zenon
    <3>2. PICK u \in Seq(Characters) : t = x \o u
      BY <1>2, <3>1
    <3>3. Narrowed(t) = Narrowed(x) \o Narrowed(u) /\ Narrowed(u) \in Seq(Bytes)
      BY <3>2, NarrowedConcat, NarrowedIs
    <3>4. Narrowed(u) = N \o w
      <4> DEFINE m == N \o w
      <4>1. \A p, q, r \in Seq(Bytes) : p \o q = p \o r => q = r
        BY ConcatSimplifications
      <4> HIDE DEF m
      <4>2. Narrowed(x) \o Narrowed(u) = Narrowed(x) \o m /\ m \in Seq(Bytes)
        BY <3>1, <3>3 DEF m
      <4>3. Narrowed(u) = m
        BY <2>3, <3>3, <4>1, <4>2
      <4> QED
        BY <4>3 DEF m
    <3>5. u # <<>>
      <4>1. N \o w # <<>>
        BY <2>3, ConcatEqualIffEmpty
      <4> QED
        BY <3>4, <4>1, NarrowedOfNone
    <3> DEFINE d == Head(u)
               v == Tail(u)
               h == <<d>>
    <3>6. d \in Characters /\ v \in Seq(Characters) /\ u = h \o v /\ h \in Seq(Characters)
      BY <3>5, HeadTailProperties
    <3>7. Narrowed(h) = NarrowOf[d]
      <4>1. Append(<<>>, d) = h /\ <<>> \in Seq(Characters)
        BY EmptySeq
      <4>2. Narrowed(Append(<<>>, d)) = Narrowed(<<>>) \o NarrowOf[d]
        <5> DEFINE none == <<>>
        <5>1. none \in Seq(Characters)
          BY <4>1
        <5> HIDE DEF none, d
        <5>2. Narrowed(Append(none, d)) = Narrowed(none) \o NarrowOf[d]
          BY <3>6, <5>1, NarrowedAppended
        <5> QED
          BY <5>2 DEF none
      <4>3. <<>> \o NarrowOf[d] = NarrowOf[d]
        BY <3>6, NarrowAssumption, ConcatEmptySeq
      <4> HIDE DEF d, h
      <4> QED
        BY <4>1, <4>2, <4>3, NarrowedOfNone
    <3> HIDE DEF d, v, h
    <3>8. Narrowed(u) = NarrowOf[d] \o Narrowed(v)
      <4>1. Narrowed(h \o v) = Narrowed(h) \o Narrowed(v)
        BY <3>6, NarrowedConcat
      <4> QED
        BY <3>6, <3>7, <4>1
    <3>9. /\ NarrowOf[d] \in Seq(Bytes) /\ Narrowed(v) \in Seq(Bytes)
          /\ NarrowOf[d] \o Narrowed(v) = N \o w
      BY <3>4, <3>6, <3>8, NarrowAssumption, NarrowedIs
    <3>10. BeginsWith(NarrowOf[d], N) \/ BeginsWith(N, NarrowOf[d])
      BY <2>3, <3>9, OneBegins
    <3>11. c = d
      BY <3>6, <3>10, NarrowAssumption DEF N
    <3>12. x \o (o \o v) = (x \o o) \o v /\ h = o
      <4>1. x \o (o \o v) = (x \o o) \o v
        <5>1. o \in Seq(Characters) /\ v \in Seq(Characters) /\ x \in Seq(Characters)
          BY <2>1, <3>6
        <5> QED
          <6>1. Associate(x, o, v)
            BY <5>1, ConcatAssociates
          <6> QED
            BY <6>1 DEF Associate
      <4> QED
        BY <3>11, <4>1 DEF h, o
    <3> QED
      BY <2>1, <3>2, <3>6, <3>12
  <2>5. Holds(y)
    BY <2>4
  <2> QED
    BY <2>1, <2>5
<1> HIDE DEF G
<1>3. Seq(Characters) \subseteq G
  BY <1>1, <1>2, SequencesGrow
<1> QED
  BY <1>3 DEF G

LEMMA NarrowedInjective ==
  ASSUME NEW s \in Seq(Characters), NEW t \in Seq(Characters), Narrowed(s) = Narrowed(t)
  PROVE  s = t
<1>1. Narrowed(s) \in Seq(Bytes) /\ Narrowed(t) = Narrowed(s) \o <<>> /\ <<>> \in Seq(Bytes)
  BY NarrowedIs, ConcatEmptySeq, EmptySeq
<1>2. PICK u \in Seq(Characters) : t = s \o u
  BY <1>1, NarrowedBegins
<1>3. /\ Narrowed(t) = Narrowed(s) \o Narrowed(u) /\ Narrowed(u) \in Seq(Bytes)
      /\ Len(u) <= Len(Narrowed(u))
  BY <1>2, NarrowedConcat, NarrowedIs
<1>4. Narrowed(u) = <<>>
  BY <1>1, <1>3, ConcatEqualIffEmpty
<1>5. Len(u) \in Nat /\ Len(u) <= 0
  BY <1>3, <1>4, LenProperties
<1>6. u = <<>>
  BY <1>5, EmptySeq
<1> QED
  BY <1>2, <1>6, ConcatEmptySeq

LEMMA WidenedIs ==
  ASSUME NEW s \in Seq(Characters)
  PROVE  Widened(Narrowed(s)) = s
<1> DEFINE b == Narrowed(s)
<1>1. Len(s) \in Nat /\ Len(b) \in Nat /\ Len(s) <= Len(b) /\ s \in [1 .. Len(s) -> Characters]
  BY NarrowedIs, LenProperties
<1>2. Len(s) \in 0 .. Len(b)
  BY <1>1
<1> HIDE DEF b
<1>3. s \in BoundedSeq(Characters, Len(b))
  BY <1>1, <1>2 DEF BoundedSeq, SeqOf
<1>4. \A t \in BoundedSeq(Characters, Len(b)) : t \in Seq(Characters)
  <2>1. ASSUME NEW m \in 0 .. Len(b), NEW t \in [1 .. m -> Characters] PROVE t \in Seq(Characters)
    BY <1>1, IsASeq
  <2> QED
    BY <2>1 DEF BoundedSeq, SeqOf
<1>5. \A t \in BoundedSeq(Characters, Len(b)) : Narrowed(t) = b => t = s
  BY <1>4, NarrowedInjective DEF b
<1>6. Narrowed(s) = b
  BY DEF b
<1> QED
  BY <1>3, <1>5, <1>6 DEF Widened

NullFirst(r) == r = <<>> \/ r[1] = Null

LEMMA CStringOf ==
  ASSUME NEW S, NEW a \in Seq(S \ {Null}), NEW r \in Seq(S), NullFirst(r)
  PROVE  CString(a \o r) = a /\ Find(a \o r, {Null}) = Len(a) + 1
<1> DEFINE t == a \o r
           n == Len(a)
<1>1. a \in Seq(S) /\ n \in Nat /\ Len(r) \in Nat /\ (\A i \in 1 .. n : a[i] # Null)
  BY LenProperties, ElementOfSeq
<1>2. /\ t \in Seq(S) /\ Len(t) = n + Len(r) /\ (\A i \in 1 .. n : t[i] = a[i])
      /\ \A i \in 1 .. Len(r) : t[n + i] = r[i]
  BY <1>1, ConcatIs
<1>3. Len(r) # 0 => t[n + 1] = Null
  <2>1. Len(r) # 0 => r # <<>> /\ 1 \in 1 .. Len(r)
    BY <1>1, EmptySeq
  <2> QED
    BY <1>2, <2>1 DEF NullFirst
<1> DEFINE m == n + 1
<1> HIDE DEF t
<1>4. IsFirst(t, {Null}, m)
  <2> HIDE DEF n
  <2>1. m \in 1 .. Len(t) + 1 /\ (m <= Len(t) => Len(r) # 0) /\ \A i \in 1 .. m - 1 : i \in 1 .. n
    BY <1>1, <1>2
  <2> QED
    BY <1>1, <1>2, <1>3, <2>1 DEF IsFirst
<1>5. Find(t, {Null}) = m
  <2> HIDE DEF m
  <2> QED
    BY <1>2, <1>4, FindIsFirst
<1> DEFINE c == SubSeq(t, 1, n)
<1>6. CString(t) = c
  <2>1. m - 1 = n
    BY <1>1
  <2> QED
    BY <1>5, <2>1 DEF CString
<1>7. c = a
  <2> HIDE DEF n
  <2>1. /\ 1 \in 1 .. Len(t) + 1 /\ n \in 1 - 1 .. Len(t) /\ (n - 1) + 1 = n
        /\ \A k \in 1 .. n : (1 + k) - 1 = k
    BY <1>1, <1>2
  <2>2. c \in Seq(S) /\ Len(c) = n /\ \A k \in 1 .. n : c[k] = t[k]
    BY <1>2, <2>1, SliceIs
  <2> HIDE DEF c
  <2>3. \A k \in 1 .. Len(c) : c[k] = a[k]
    BY <1>2, <2>2
  <2> QED
    BY <1>1, <2>2, <2>3, SeqEqual DEF n
<1> QED
  BY <1>5, <1>6, <1>7 DEF t

LEMMA CStringSplits ==
  ASSUME NEW S, NEW s \in Seq(S)
  PROVE  \E r \in Seq(S) : s = CString(s) \o r /\ NullFirst(r)
<1> DEFINE n == Find(s, {Null}) - 1
           r == SubSeq(s, n + 1, Len(s))
<1>1. IsFirst(s, {Null}, Find(s, {Null})) /\ n \in 0 .. Len(s) /\ Len(s) \in Nat
  BY FindIs, LenProperties
<1>2. n + 1 = Find(s, {Null}) /\ n + 1 \in 1 .. Len(s) + 1 /\ (n + 1 <= Len(s) => s[n + 1] = Null)
  BY <1>1 DEF IsFirst
<1> HIDE DEF n
<1> DEFINE x == n + 1
<1>3. /\ x \in 1 .. Len(s) + 1 /\ Len(s) \in x - 1 .. Len(s) /\ 1 \in 1 .. Len(s) + 1
      /\ n \in 1 - 1 .. Len(s)
      /\ Len(s) \in n .. Len(s)
  BY <1>1
<1>4. SubSeq(s, 1, n) \o r = SubSeq(s, 1, Len(s))
  BY <1>3, ConcatAdjacentSubSeq
<1>5. SubSeq(s, 1, Len(s)) = s /\ CString(s) = SubSeq(s, 1, n)
  BY SubSeqFull DEF CString, n
<1> HIDE DEF x
<1>6. r \in Seq(S) /\ Len(r) = (Len(s) - x) + 1
      /\ \A k \in 1 .. (Len(s) - x) + 1 : r[k] = s[(x + k) - 1]
  BY <1>3, SliceIs DEF x
<1>7. NullFirst(r)
  <2>1. CASE x <= Len(s)
    <3>1. 1 \in 1 .. (Len(s) - x) + 1 /\ (x + 1) - 1 = x
      BY <1>1, <1>3, <2>1
    <3> QED
      BY <1>2, <1>6, <2>1, <3>1 DEF NullFirst, x
  <2>2. CASE ~(x <= Len(s))
    <3>1. Len(r) = 0
      BY <1>1, <1>3, <1>6, <2>2
    <3> QED
      BY <1>6, <3>1, EmptySeq DEF NullFirst
  <2> QED
    BY <2>1, <2>2
<1> HIDE DEF r
<1> QED
  BY <1>4, <1>5, <1>6, <1>7

(* What is cut at a null and narrowed may as well be narrowed and cut.       *)
LEMMA CStringNarrowed ==
  ASSUME NEW s \in Seq(Characters)
  PROVE  /\ CString(s) \in Seq(Letters) /\ CString(s) \in Seq(Characters)
         /\ CString(Narrowed(s)) = Narrowed(CString(s))
<1> DEFINE a == CString(s)
<1>1. a \in Seq(Letters) /\ a \in Seq(Characters)
  <2>1. a \in Seq(Letters)
    BY CStringIs DEF Letters
  <2> HIDE DEF a
  <2> QED
    BY <2>1 DEF Letters
<1>2. PICK r \in Seq(Characters) : s = a \o r /\ NullFirst(r)
  BY CStringSplits
<1> HIDE DEF a
<1>3. Narrowed(s) = Narrowed(a) \o Narrowed(r)
  BY <1>1, <1>2, NarrowedConcat
<1>4. Narrowed(a) \in Seq(Bytes \ {Null}) /\ Narrowed(r) \in Seq(Bytes)
  BY <1>1, NarrowedIs
<1>5. NullFirst(Narrowed(r))
  <2>1. CASE r = <<>>
    BY <2>1, NarrowedOfNone DEF NullFirst
  <2>2. CASE r # <<>>
    <3> DEFINE h == <<Null>>
               v == Tail(r)
    <3>1. /\ r[1] = Null /\ Head(r) \in Characters /\ v \in Seq(Characters)
          /\ r = <<Head(r)>> \o v /\ Head(r) = r[1]
      BY <1>2, <2>2, HeadTailProperties DEF NullFirst
    <3>2. Null \in Characters /\ h \in Seq(Characters) /\ r = h \o v
      BY <3>1
    <3>3. Narrowed(h) = h
      <4> DEFINE none == <<>>
      <4>1. none \in Seq(Characters) /\ Append(none, Null) = h
        BY EmptySeq
      <4> HIDE DEF none
      <4>2. Narrowed(Append(none, Null)) = Narrowed(none) \o NarrowOf[Null]
        BY <3>2, <4>1, NarrowedAppended
      <4>3. NarrowOf[Null] = h /\ <<>> \o h = h
        BY <3>2, NarrowAssumption, ConcatEmptySeq
      <4> QED
        BY <4>1, <4>2, <4>3, NarrowedOfNone DEF none
    <3> HIDE DEF v
    <3>4. /\ Narrowed(h \o v) = Narrowed(h) \o Narrowed(v) /\ Narrowed(v) \in Seq(Bytes)
          /\ Narrowed(h) \in Seq(Bytes)
      BY <3>1, <3>2, NarrowedConcat, NarrowedIs
    <3>5. (h \o Narrowed(v))[1] = h[1] /\ h[1] = Null
      <4>1. Len(h) = 1 /\ h[1] = Null /\ 1 \in 1 .. 1
        OBVIOUS
      <4>2. h \in Seq(Bytes) /\ Narrowed(v) \in Seq(Bytes)
        BY <3>3, <3>4
      <4> HIDE DEF h
      <4> QED
        BY <4>1, <4>2, ConcatIs
    <3> QED
      BY <3>2, <3>3, <3>4, <3>5 DEF NullFirst
  <2> QED
    BY <2>1, <2>2
<1>6. CString(Narrowed(a) \o Narrowed(r)) = Narrowed(a)
  BY <1>4, <1>5, CStringOf
<1> QED
  BY <1>1, <1>3, <1>6 DEF a

Ended(s) == Append(Narrowed(CString(s)), Null)

LEMMA NullIsAByte == Null \in Bytes
<1>1. Null \in Characters /\ NarrowOf[Null] = <<Null>>
  BY StringsAssumption, NarrowAssumption
<1>2. Null \in ToSet(NarrowOf[Null])
  BY <1>1 DEF ToSet
<1> QED
  BY <1>1, <1>2 DEF Bytes

LEMMA EndedIs ==
  ASSUME NEW s \in Seq(Characters)
  PROVE  /\ CString(Ended(s)) = Narrowed(CString(s))
         /\ Find(Ended(s), {Null}) = Len(Ended(s))
         /\ Narrowed(CString(s)) \in Seq(Bytes \ {Null})
<1> DEFINE a == Narrowed(CString(s))
           e == <<Null>>
<1>1. a \in Seq(Bytes \ {Null}) /\ a \in Seq(Bytes)
  BY CStringNarrowed, NarrowedIs
<1>2. e \in Seq(Bytes) /\ NullFirst(e)
  BY NullIsAByte DEF NullFirst
<1>3. Append(a, Null) = a \o e /\ Len(Append(a, Null)) = Len(a) + 1
  <2> HIDE DEF a
  <2> QED
    BY <1>1, NullIsAByte, AppendIsConcat, AppendProperties
<1> HIDE DEF e
<1>4. CString(a \o e) = a /\ Find(a \o e, {Null}) = Len(a) + 1
  <2> HIDE DEF a
  <2> QED
    BY <1>1, <1>2, CStringOf
<1> QED
  BY <1>1, <1>3, <1>4 DEF Ended

LEMMA NullsOnly ==
  /\ CString(<<Null>>) = <<>> /\ CString(<<>>) = <<>> /\ Find(<<Null>>, {Null}) = Len(<<Null>>)
<1> DEFINE none == <<>>
           e == <<Null>>
<1>1. /\ none \in Seq({Null} \ {Null}) /\ e \in Seq({Null}) /\ none \in Seq({Null})
      /\ NullFirst(e) /\ NullFirst(none)
      /\ Len(none) = 0 /\ Len(e) = 1
  BY EmptySeq DEF NullFirst
<1>2. none \o e = e /\ none \o none = none
  BY <1>1, ConcatEmptySeq
<1> HIDE DEF none, e
<1>3. /\ CString(none \o e) = none /\ Find(none \o e, {Null}) = Len(none) + 1
      /\ CString(none \o none) = none
  BY <1>1, CStringOf
<1> QED
  BY <1>1, <1>2, <1>3 DEF none, e

(* Nothing but the empty string is narrowed to no bytes.                     *)
LEMMA NarrowedEmpty ==
  ASSUME NEW s \in Seq(Characters)
  PROVE  Narrowed(s) = <<>> <=> s = <<>>
<1>1. <<>> \in Seq(Characters)
  BY EmptySeq
<1> QED
  BY <1>1, NarrowedOfNone, NarrowedInjective

Kept(s, callFails) == Done(IF callFails THEN <<>> ELSE CString(s))

LEMMA DoneIs == \A v : Done(v).value = v /\ Done(v).ok
BY DEF Done

LEMMA AnsiSurvives ==
  ASSUME NEW s \in Seq(Characters), NEW throwOnError \in BOOLEAN, NEW callFails \in BOOLEAN,
         ToAnsi(s, throwOnError, callFails).ok
  PROVE  ToWide(ToAnsi(s, throwOnError, callFails).value, TRUE, FALSE) = Kept(s, callFails)
<1> DEFINE c == CString(s)
           b == Narrowed(c)
<1>1. c \in Seq(Characters) /\ c \in Seq(Letters)
  BY CStringNarrowed
<1>2. ToWide(<<>>, TRUE, FALSE) = Done(<<>>)
  BY DEF ToWide
<1>3. CASE s = <<>>
  <2>1. ToAnsi(s, throwOnError, callFails) = Done(<<>>)
    BY <1>3, NullsOnly DEF ToAnsi, ToMultiByte, Done
  <2> QED
    BY <1>2, <1>3, <2>1, DoneIs, NullsOnly DEF Kept
<1>4. CASE s # <<>> /\ callFails
  <2>1. ToAnsi(s, throwOnError, callFails) = IF throwOnError THEN Thrown ELSE Done(<<>>)
    BY <1>4, NullsOnly DEF ToAnsi, ToMultiByte, Done, Thrown
  <2>2. ToAnsi(s, throwOnError, callFails) = Done(<<>>)
    BY <2>1 DEF Thrown
  <2> QED
    BY <1>2, <1>4, <2>2, DoneIs DEF Kept
<1>5. CASE s # <<>> /\ ~callFails
  <2>1. ToAnsi(s, throwOnError, callFails) = Done(b)
    BY <1>5, EndedIs DEF ToAnsi, ToMultiByte, Done, Ended
  <2>2. ToWide(b, TRUE, FALSE) = IF b = <<>> THEN Done(<<>>) ELSE Done(Widened(CString(b)))
    BY DEF ToWide
  <2>3. CString(b) = b
    <3> HIDE DEF b
    <3>1. b \in Seq(Bytes \ {Null})
      BY EndedIs DEF b
    <3> QED
      BY <3>1, CStringSame
  <2>4. Widened(b) = c /\ (b = <<>> => c = <<>>)
    <3> HIDE DEF c
    <3> QED
      BY <1>1, WidenedIs, NarrowedEmpty
  <2> HIDE DEF b, c
  <2>5. ToWide(b, TRUE, FALSE) = Done(c)
    BY <2>2, <2>3, <2>4
  <2> QED
    BY <1>5, <2>1, <2>5, DoneIs DEF Kept, c
<1> QED
  BY <1>3, <1>4, <1>5

LEMMA WideSurvives ==
  ASSUME NEW s \in Seq(Characters), NEW throwOnError \in BOOLEAN, NEW callFails \in BOOLEAN,
         ToWide(Narrowed(s), throwOnError, callFails).ok
  PROVE  ToAnsi(ToWide(Narrowed(s), throwOnError, callFails).value, TRUE, FALSE) =
           Kept(Narrowed(s), callFails)
<1> DEFINE b == Narrowed(s)
           c == CString(s)
<1>1. c \in Seq(Characters) /\ c \in Seq(Letters) /\ CString(b) = Narrowed(c)
  BY CStringNarrowed
<1>2. ToAnsi(<<>>, TRUE, FALSE) = Done(<<>>)
  BY NullsOnly DEF ToAnsi, ToMultiByte, Done
<1>3. CASE b = <<>>
  <2>1. ToWide(b, throwOnError, callFails) = Done(<<>>)
    BY <1>3 DEF ToWide
  <2> QED
    BY <1>2, <1>3, <2>1, DoneIs, NullsOnly DEF Kept
<1>4. CASE b # <<>> /\ callFails
  <2>1. ToWide(b, throwOnError, callFails) = IF throwOnError THEN Thrown ELSE Done(<<>>)
    BY <1>4 DEF ToWide
  <2>2. ToWide(b, throwOnError, callFails) = Done(<<>>)
    BY <2>1 DEF Thrown
  <2> QED
    BY <1>2, <1>4, <2>2, DoneIs DEF Kept
<1>5. CASE b # <<>> /\ ~callFails
  <2>1. Widened(CString(b)) = c
    <3> HIDE DEF c, b
    <3> QED
      BY <1>1, WidenedIs
  <2>2. ToWide(b, throwOnError, callFails) = Done(c)
    BY <1>5, <2>1 DEF ToWide
  <2>3. CString(c) = c
    <3> HIDE DEF c
    <3> QED
      BY <1>1, CStringSame, LettersAre
  <2>4. ToAnsi(c, TRUE, FALSE) = Done(Narrowed(c))
    <3> HIDE DEF c
    <3>1. CASE c = <<>>
      BY <1>2, <3>1, NarrowedOfNone
    <3>2. CASE c # <<>>
      <4>1. CString(Ended(c)) = Narrowed(c) /\ Ended(c) = Append(Narrowed(CString(c)), Null)
        BY <1>1, <2>3, EndedIs DEF Ended
      <4> QED
        BY <3>2, <4>1 DEF ToAnsi, ToMultiByte, Done
    <3> QED
      BY <3>1, <3>2
  <2> HIDE DEF b, c
  <2> QED
    BY <1>1, <1>5, <2>2, <2>4, DoneIs DEF Kept, b
<1> QED
  BY <1>3, <1>4, <1>5

LEMMA Utf8Survives ==
  ASSUME NEW s \in Seq(Characters), NEW throwOnError \in BOOLEAN, NEW callFails \in BOOLEAN,
         ToUtf8(s, throwOnError, callFails).ok
  PROVE  Find(ToUtf8(s, throwOnError, callFails).value, {Null}) =
           Len(ToUtf8(s, throwOnError, callFails).value)
<1>1. ToUtf8(s, throwOnError, callFails) \in {Done(<<Null>>), Done(Ended(s)), Thrown}
  BY DEF ToUtf8, ToMultiByte, Ended
<1>2. ~Thrown.ok
  BY DEF Thrown
<1>3. PICK v \in {<<Null>>, Ended(s)} : ToUtf8(s, throwOnError, callFails) = Done(v)
  BY <1>1, <1>2
<1>4. ToUtf8(s, throwOnError, callFails).value = v
  BY <1>3 DEF Done
<1>5. Find(v, {Null}) = Len(v)
  BY EndedIs, NullsOnly
<1> QED
  BY <1>4, <1>5

-----------------------------------------------------------------------------
(* Strings: what is shortened, trimmed, isolated and looked up.              *)

(* A sequence is cut in two.                                                 *)
First(s, n) == SubSeq(s, 1, n)
Rest(s, n) == SubSeq(s, n + 1, Len(s))

LEMMA CutInTwo ==
  ASSUME NEW S, NEW s \in Seq(S), NEW n \in 0 .. Len(s)
  PROVE  /\ First(s, n) \in Seq(S) /\ Len(First(s, n)) = n
         /\ \A k \in 1 .. n : First(s, n)[k] = s[k] /\ k \in 1 .. Len(s)
         /\ Rest(s, n) \in Seq(S) /\ Len(Rest(s, n)) = Len(s) - n
         /\ \A k \in 1 .. Len(s) - n : Rest(s, n)[k] = s[n + k] /\ n + k \in 1 .. Len(s)
         /\ s = First(s, n) \o Rest(s, n)
<1> DEFINE x == n + 1
           a == SubSeq(s, 1, n)
           b == SubSeq(s, x, Len(s))
<1>1. Len(s) \in Nat
  BY LenProperties
<1>2. /\ x \in 1 .. Len(s) + 1 /\ Len(s) \in x - 1 .. Len(s) /\ 1 \in 1 .. Len(s) + 1
      /\ n \in 1 - 1 .. Len(s)
      /\ Len(s) \in n .. Len(s) /\ (n - 1) + 1 = n /\ (Len(s) - x) + 1 = Len(s) - n
      /\ (\A k \in 1 .. n : (1 + k) - 1 = k /\ k \in 1 .. Len(s))
      /\ \A k \in 1 .. Len(s) - n : (x + k) - 1 = n + k /\ n + k \in 1 .. Len(s)
  <2> DEFINE l == Len(s)
  <2>1. l \in Nat /\ n \in Nat /\ n <= l
    BY <1>1
  <2> HIDE DEF l
  <2>2. /\ x \in 1 .. l + 1 /\ l \in x - 1 .. l /\ 1 \in 1 .. l + 1
        /\ n \in 1 - 1 .. l /\ l \in n .. l /\ (n - 1) + 1 = n /\ (l - x) + 1 = l - n
    BY <2>1
  <2>3. ASSUME NEW k \in 1 .. n PROVE (1 + k) - 1 = k /\ k \in 1 .. l
    BY <2>1
  <2>4. ASSUME NEW k \in 1 .. l - n PROVE (x + k) - 1 = n + k /\ n + k \in 1 .. l
    BY <2>1
  <2> QED
    BY <2>2, <2>3, <2>4 DEF l
<1>3. a \o b = s
  BY <1>2, ConcatAdjacentSubSeq, SubSeqFull, Zenon
<1> HIDE DEF x
<1>4. a \in Seq(S) /\ Len(a) = n /\ \A k \in 1 .. n : a[k] = s[k]
  <2>1. a \in Seq(S) /\ Len(a) = (n - 1) + 1 /\ \A k \in 1 .. (n - 1) + 1 : a[k] = s[(1 + k) - 1]
    BY <1>2, SliceIs
  <2> HIDE DEF a
  <2> QED
    BY <1>2, <2>1
<1>5. b \in Seq(S) /\ Len(b) = Len(s) - n /\ \A k \in 1 .. Len(s) - n : b[k] = s[n + k]
  <2>1. /\ b \in Seq(S) /\ Len(b) = (Len(s) - x) + 1
        /\ \A k \in 1 .. (Len(s) - x) + 1 : b[k] = s[(x + k) - 1]
    BY <1>2, SliceIs
  <2> HIDE DEF b
  <2> QED
    BY <1>2, <2>1
<1>6. First(s, n) = a /\ Rest(s, n) = b
  BY DEF First, Rest, x
<1> HIDE DEF a, b
<1> QED
  BY <1>2, <1>3, <1>4, <1>5, <1>6

(* The greatest and the least of some positions.                             *)
LEMMA GreatestPosition ==
  ASSUME NEW n \in Nat, NEW P \in SUBSET (1 .. n)
  PROVE  /\ Max(P \cup {0}) \in 0 .. n
         /\ Max(P \cup {0}) # 0 => Max(P \cup {0}) \in P
         /\ \A i \in 1 .. n : i > Max(P \cup {0}) => i \notin P
<1> DEFINE Q == P \cup {0}
           m == Max(Q)
<1>1. 1 .. n \in SUBSET Nat /\ IsFiniteSet(1 .. n)
  BY FS_Interval
<1>2. Q \in SUBSET Nat /\ Q # {} /\ IsFiniteSet(Q)
  <2>1. IsFiniteSet(P)
    BY <1>1, FS_Subset
  <2> QED
    BY <2>1, FS_AddElement
<1> HIDE DEF Q
<1>3. m \in Q /\ \A i \in Q : m >= i
  BY <1>2, MaxIsGreatest
<1> HIDE DEF m
<1>4. m \in 0 .. n /\ (m # 0 => m \in P) /\ \A i \in 1 .. n : i > m => i \notin P
  BY <1>1, <1>3 DEF Q
<1> QED
  BY <1>4 DEF m, Q

LEMMA LeastPosition ==
  ASSUME NEW n \in Nat, NEW P \in SUBSET (1 .. n)
  PROVE  /\ Min(P \cup {n + 1}) - 1 \in 0 .. n /\ Min(P \cup {n + 1}) \in Nat
         /\ Min(P \cup {n + 1}) <= n => Min(P \cup {n + 1}) \in P
         /\ \A i \in 1 .. n : i < Min(P \cup {n + 1}) => i \notin P
<1> DEFINE Q == P \cup {n + 1}
           m == Min(Q)
<1>1. Q \in SUBSET Nat /\ Q # {}
  OBVIOUS
<1> HIDE DEF Q
<1>2. m \in Q /\ \A i \in Q : m <= i
  BY <1>1, MinIsLeast
<1> HIDE DEF m
<1>3. m - 1 \in 0 .. n /\ m \in Nat /\ (m <= n => m \in P) /\ \A i \in 1 .. n : i < m => i \notin P
  BY <1>2 DEF Q
<1> QED
  BY <1>3 DEF m, Q

(* Summary.                                                                  *)
LEMMA SummaryKeepsLimit ==
  ASSUME NEW S, NEW s \in Seq(S), NEW max \in 0 .. Len(s), Summary(s, max).ok
  PROVE  Len(Summary(s, max).value) <= max
<1>1. Len(s) \in Nat /\ max \in Nat /\ Len(Padding) = 3
  BY LenProperties DEF Padding
<1>2. CASE Len(s) <= max
  <2>1. Summary(s, max) = Done(s)
    BY <1>2 DEF Summary
  <2> QED
    BY <1>2, <2>1, DoneIs
<1>3. CASE ~(Len(s) <= max) /\ max < 3
  <2>1. Summary(s, max) = Thrown
    BY <1>1, <1>3 DEF Summary
  <2> QED
    BY <2>1 DEF Thrown
<1>4. CASE ~(Len(s) <= max) /\ ~(max < 3)
  <2> DEFINE n == max - 3
             a == First(s, n)
             T == S \cup {"."}
             p == Padding
  <2>1. n \in 0 .. Len(s) /\ n + 3 = max
    BY <1>1, <1>4
  <2> HIDE DEF n
  <2>2. a \in Seq(S) /\ Len(a) = n
    <3>1. First(s, n) \in Seq(S) /\ Len(First(s, n)) = n
      BY <2>1, CutInTwo
    <3> QED
      BY <3>1
  <2> HIDE DEF a
  <2>3. p \in Seq(T) /\ a \in Seq(T)
    BY <2>2 DEF Padding
  <2> HIDE DEF T, p
  <2>4. Len(a \o p) = Len(a) + Len(p)
    BY <2>3, ConcatProperties
  <2>5. Summary(s, max) = Done(a \o p)
    BY <1>1, <1>4 DEF Summary, a, p, n, First
  <2>6. Summary(s, max).value = a \o p
    BY <2>5, DoneIs
  <2> QED
    BY <1>1, <2>1, <2>2, <2>4, <2>6 DEF p
<1> QED
  BY <1>2, <1>3, <1>4

(* BeginsWith.                                                               *)
BeginsSomewhere(hay, needle) == \E i \in 0 .. Len(hay) : SubSeq(hay, 1, i) = needle

LEMMA BeginsIs ==
  ASSUME NEW S, NEW hay \in Seq(S), NEW needle \in Seq(S)
  PROVE  BeginsWith(hay, needle) <=> BeginsSomewhere(hay, needle)
<1> DEFINE n == Len(needle)
<1>1. Len(hay) \in Nat /\ n \in Nat
  BY LenProperties
<1> HIDE DEF n
<1>2. ASSUME BeginsWith(hay, needle) PROVE BeginsSomewhere(hay, needle)
  <2>1. n \in 0 .. Len(hay) /\ SubSeq(hay, 1, n) = needle
    BY <1>1, <1>2 DEF BeginsWith, n
  <2> QED
    BY <2>1 DEF BeginsSomewhere
<1>3. ASSUME BeginsSomewhere(hay, needle) PROVE BeginsWith(hay, needle)
  <2>1. PICK i \in 0 .. Len(hay) : SubSeq(hay, 1, i) = needle
    BY <1>3 DEF BeginsSomewhere
  <2>2. Len(SubSeq(hay, 1, i)) = i
    BY CutInTwo DEF First
  <2>3. n = i
    BY <2>1, <2>2 DEF n
  <2> QED
    BY <1>1, <2>1, <2>3 DEF BeginsWith, n
<1> QED
  BY <1>2, <1>3

LEMMA NameFollowsSeparator ==
  ASSUME NEW S, NEW path \in Seq(S)
  PROVE  /\ {Slash, Backslash} \cap ToSet(IsolateFilename(path)) = {}
         /\ \E directory \in {<<>>} \cup {SubSeq(path, 1, i) : i \in DOMAIN path} :
              /\ directory = <<>> \/ Last(directory) \in {Slash, Backslash}
              /\ CString(path) = directory \o IsolateFilename(path)
<1> DEFINE s == CString(path)
           n == Len(s)
           P == {i \in DOMAIN s : s[i] \in {Slash, Backslash}}
           m == Max(P \cup {0})
           a == First(s, m)
           b == Rest(s, m)
<1>1. s \in Seq(S) /\ n \in Nat /\ DOMAIN s = 1 .. n
  <2>1. s \in Seq(S \ {Null})
    BY CStringIs
  <2> HIDE DEF s
  <2> QED
    BY <2>1, LenProperties
<1>2. PICK r \in Seq(S) : path = s \o r
  BY CStringSplits
<1>3. IsolateFilename(path) = b
  BY DEF IsolateFilename, Rest
<1> HIDE DEF s, n
<1>4. P \in SUBSET (1 .. n) /\ \A i \in P : s[i] \in {Slash, Backslash}
  BY <1>1
<1>5. \A i \in 1 .. n : i \notin P => s[i] \notin {Slash, Backslash}
  BY <1>1
<1> HIDE DEF P
<1>6. m \in 0 .. n /\ (m # 0 => m \in P) /\ \A i \in 1 .. n : i > m => i \notin P
  BY <1>1, <1>4, GreatestPosition
<1> HIDE DEF m
<1>7. /\ a \in Seq(S) /\ Len(a) = m /\ (\A k \in 1 .. m : a[k] = s[k] /\ k \in 1 .. n)
      /\ b \in Seq(S) /\ Len(b) = n - m
      /\ (\A k \in 1 .. n - m : b[k] = s[m + k] /\ m + k \in 1 .. n)
      /\ s = a \o b
  <2>1. m \in 0 .. Len(s)
    BY <1>6 DEF n
  <2> QED
    BY <1>1, <2>1, CutInTwo, Zenon DEF n
<1> HIDE DEF b
<1>8. {Slash, Backslash} \cap ToSet(b) = {}
  <2>1. DOMAIN b = 1 .. n - m
    BY <1>7, LenProperties
  <2>2. ASSUME NEW k \in 1 .. n - m PROVE b[k] \notin {Slash, Backslash}
    <3>0. m + k > m
      BY <1>1, <1>6
    <3>1. m + k \in 1 .. n /\ m + k > m /\ b[k] = s[m + k]
      BY <1>7, <3>0
    <3> QED
      BY <1>5, <1>6, <3>1
  <2> QED
    BY <2>1, <2>2 DEF ToSet
<1>9. a = <<>> \/ (Last(a) \in {Slash, Backslash} /\ a = SubSeq(path, 1, m) /\ m \in DOMAIN path)
  <2>1. CASE m = 0
    BY <1>7, <2>1, EmptySeq
  <2>2. CASE m # 0
    <3> HIDE DEF a
    <3>1. m \in 1 .. m /\ Last(a) = s[m]
      BY <1>6, <1>7, <2>2 DEF Last
    <3>2. /\ Len(path) = n + Len(r)
          /\ (\A i \in 1 .. n : path[i] = s[i])
          /\ Len(r) \in Nat /\ Len(path) \in Nat
      BY <1>1, <1>2, ConcatIs, LenProperties DEF n
    <3>3. m \in 0 .. Len(path) /\ m \in 1 .. Len(path) /\ DOMAIN path = 1 .. Len(path)
      BY <1>1, <1>6, <2>2, <3>2, LenProperties
    <3> DEFINE c == First(path, m)
    <3>4. c \in Seq(S) /\ Len(c) = m /\ \A k \in 1 .. m : c[k] = path[k]
      BY <3>3, CutInTwo
    <3> HIDE DEF c
    <3>5. \A k \in 1 .. Len(c) : c[k] = a[k]
      BY <1>7, <3>2, <3>4
    <3>6. c = a
      BY <1>7, <3>4, <3>5, SeqEqual
    <3> QED
      BY <1>4, <1>6, <2>2, <3>1, <3>3, <3>6 DEF c, First
  <2> QED
    BY <2>1, <2>2
<1> HIDE DEF a
<1>10. a \in {<<>>} \cup {SubSeq(path, 1, i) : i \in DOMAIN path}
  BY <1>9
<1> QED
  BY <1>3, <1>7, <1>8, <1>9, <1>10 DEF s

LEMMA AllTrimmed ==
  ASSUME NEW S, NEW a \in Seq(S), NEW n \in Nat, Len(a) <= n,
         \A i \in 1 .. Len(a) : a[i] \in TrimChars
  PROVE  a \in BoundedSeq(TrimChars, n)
<1>1. Len(a) \in 0 .. n /\ a = [i \in 1 .. Len(a) |-> a[i]]
  BY LenProperties
<1>2. a \in [1 .. Len(a) -> TrimChars]
  BY <1>1
<1> QED
  BY <1>1, <1>2 DEF BoundedSeq, SeqOf

LEMMA RightIsTrimmed ==
  ASSUME NEW S, NEW s \in Seq(S)
  PROVE  \E b \in BoundedSeq(TrimChars, Len(s)) :
           /\ s = TrimRight(s) \o b
           /\ TrimRight(s) \in Seq(S) /\ Len(TrimRight(s)) <= Len(s)
           /\ TrimRight(s) # <<>> => Last(TrimRight(s)) \notin TrimChars
<1> DEFINE n == Len(s)
           P == Untrimmed(s)
           m == Max(P \cup {0})
           a == First(s, m)
           b == Rest(s, m)
<1>1. n \in Nat /\ DOMAIN s = 1 .. n
  BY LenProperties
<1>2. P \in SUBSET (1 .. n) /\ \A i \in 1 .. n : i \in P <=> s[i] \notin TrimChars
  BY <1>1 DEF Untrimmed
<1>3. TrimRight(s) = a
  BY DEF TrimRight, First
<1> HIDE DEF P
<1>4. m \in 0 .. n /\ (m # 0 => m \in P) /\ \A i \in 1 .. n : i > m => i \notin P
  BY <1>1, <1>2, GreatestPosition
<1> HIDE DEF m
<1>5. /\ a \in Seq(S) /\ Len(a) = m /\ (\A k \in 1 .. m : a[k] = s[k] /\ k \in 1 .. n)
      /\ b \in Seq(S) /\ Len(b) = n - m
      /\ (\A k \in 1 .. n - m : b[k] = s[m + k] /\ m + k \in 1 .. n)
      /\ s = a \o b
  <2>1. m \in 0 .. Len(s)
    BY <1>4
  <2> QED
    BY <2>1, CutInTwo, Zenon
<1> HIDE DEF a, b, n
<1>6. \A k \in 1 .. Len(b) : b[k] \in TrimChars
  <2>1. ASSUME NEW k \in 1 .. n - m PROVE b[k] \in TrimChars
    <3>0. m + k > m
      BY <1>1, <1>4
    <3>1. m + k \in 1 .. n /\ m + k > m /\ b[k] = s[m + k]
      BY <1>5, <3>0
    <3> QED
      BY <1>2, <1>4, <3>1
  <2> QED
    BY <1>5, <2>1
<1>7. b \in BoundedSeq(TrimChars, n)
  <2>1. Len(b) <= n
    BY <1>1, <1>4, <1>5
  <2> QED
    BY <1>1, <1>5, <1>6, <2>1, AllTrimmed
<1>8. a # <<>> => Last(a) \notin TrimChars
  <2>1. ASSUME a # <<>> PROVE a[m] \notin TrimChars
    <3>1. m # 0
      BY <1>5, <2>1, EmptySeq
    <3>2. m \in 1 .. m
      BY <1>4, <3>1
    <3> QED
      BY <1>2, <1>4, <1>5, <3>1, <3>2
  <2> QED
    BY <1>5, <2>1 DEF Last
<1>9. m <= n
  BY <1>1, <1>4
<1> QED
  BY <1>3, <1>5, <1>7, <1>8, <1>9 DEF n

LEMMA LeftIsTrimmed ==
  ASSUME NEW S, NEW s \in Seq(S)
  PROVE  \E a \in BoundedSeq(TrimChars, Len(s)) :
           /\ s = a \o TrimLeft(s) /\ TrimLeft(s) \in Seq(S)
           /\ TrimLeft(s) # <<>> => Head(TrimLeft(s)) \notin TrimChars /\ Last(TrimLeft(s)) = Last(s)
<1> DEFINE n == Len(s)
           P == Untrimmed(s)
           k == Min(P \cup {n + 1})
           m == k - 1
           a == First(s, m)
           b == Rest(s, m)
<1>1. n \in Nat /\ DOMAIN s = 1 .. n
  BY LenProperties
<1>2. P \in SUBSET (1 .. n) /\ \A i \in 1 .. n : i \in P <=> s[i] \notin TrimChars
  BY <1>1 DEF Untrimmed
<1> HIDE DEF P
<1>3. m \in 0 .. n /\ k \in Nat /\ (k <= n => k \in P) /\ \A i \in 1 .. n : i < k => i \notin P
  BY <1>1, <1>2, LeastPosition
<1>4. TrimLeft(s) = b
  <2>1. TrimLeft(s) = SubSeq(s, k, n)
    BY DEF TrimLeft, P
  <2> HIDE DEF k, n
  <2>2. m + 1 = k
    BY <1>3
  <2> QED
    BY <2>1, <2>2 DEF Rest, n
<1> HIDE DEF k, n
<1>5. /\ a \in Seq(S) /\ Len(a) = m /\ (\A i \in 1 .. m : a[i] = s[i] /\ i \in 1 .. n)
      /\ b \in Seq(S) /\ Len(b) = n - m
      /\ (\A i \in 1 .. n - m : b[i] = s[m + i] /\ m + i \in 1 .. n)
      /\ s = a \o b
  <2>1. m \in 0 .. Len(s)
    BY <1>3 DEF n
  <2> HIDE DEF m
  <2> QED
    BY <2>1, CutInTwo DEF n
<1> HIDE DEF a, b
<1>6. \A i \in 1 .. Len(a) : a[i] \in TrimChars
  <2>1. ASSUME NEW i \in 1 .. m PROVE a[i] \in TrimChars
    <3>1. i < k /\ i \in 1 .. n /\ a[i] = s[i]
      BY <1>3, <1>5
    <3> QED
      BY <1>2, <1>3, <3>1
  <2> QED
    BY <1>5, <2>1
<1>7. a \in BoundedSeq(TrimChars, n)
  <2>1. Len(a) <= n
    BY <1>1, <1>3, <1>5
  <2> QED
    BY <1>1, <1>5, <1>6, <2>1, AllTrimmed
<1>8. ASSUME b # <<>> PROVE Head(b) \notin TrimChars /\ Last(b) = Last(s)
  <2>1. Len(b) # 0
    BY <1>5, <1>8, EmptySeq
  <2>2. m < n /\ k <= n /\ 1 \in 1 .. n - m /\ n - m \in 1 .. n - m /\ m + 1 = k /\ m + (n - m) = n
    BY <1>1, <1>3, <1>5, <2>1
  <2>3. b[1] = s[k] /\ b[n - m] = s[n]
    BY <1>5, <2>2
  <2>4. s[k] \notin TrimChars
    BY <1>2, <1>3, <2>2
  <2>5. Head(b) = b[1]
    BY <1>5, <1>8, HeadTailProperties
  <2>6. Last(b) = b[n - m] /\ Last(s) = s[n]
    BY <1>5 DEF Last, n
  <2> QED
    BY <2>3, <2>4, <2>5, <2>6
<1> QED
  BY <1>4, <1>5, <1>7, <1>8 DEF n

LEMMA TrimTakesNothingElse ==
  ASSUME NEW S, NEW s \in Seq(S)
  PROVE  \E lead, trail \in BoundedSeq(TrimChars, Len(s)) :
           /\ s = lead \o Trim(s) \o trail
           /\ Trim(s) # <<>> => {Head(Trim(s)), Last(Trim(s))} \cap TrimChars = {}
<1> DEFINE r == TrimRight(s)
           t == TrimLeft(r)
<1>1. PICK b \in BoundedSeq(TrimChars, Len(s)) :
           /\ s = r \o b /\ r \in Seq(S) /\ Len(r) <= Len(s)
           /\ r # <<>> => Last(r) \notin TrimChars
  BY RightIsTrimmed
<1> HIDE DEF r
<1>2. PICK a \in BoundedSeq(TrimChars, Len(r)) :
           /\ r = a \o t /\ t \in Seq(S)
           /\ t # <<>> => Head(t) \notin TrimChars /\ Last(t) = Last(r)
  BY <1>1, LeftIsTrimmed
<1> HIDE DEF t
<1>3. a \in BoundedSeq(TrimChars, Len(s))
  <2>1. Len(r) \in Nat /\ Len(s) \in Nat
    BY <1>1, LenProperties
  <2>2. \A m \in 0 .. Len(r) : m \in 0 .. Len(s)
    BY <1>1, <2>1
  <2> QED
    BY <2>2 DEF BoundedSeq, SeqOf
<1>4. t # <<>> => r # <<>>
  <2>1. ASSUME r = <<>> PROVE t = <<>>
    <3>1. ASSUME NEW m \in Nat, NEW f \in [1 .. m -> TrimChars] PROVE f \in Seq(TrimChars)
      BY IsASeq
    <3>2. a \in Seq(TrimChars)
      <4>1. Len(r) \in Nat
        BY <1>1, LenProperties
      <4> QED
        BY <3>1, <4>1 DEF BoundedSeq, SeqOf
    <3> DEFINE T == S \cup TrimChars
    <3>3. a \in Seq(T) /\ t \in Seq(T)
      BY <1>2, <3>2
    <3> HIDE DEF T
    <3>4. a \o t = <<>>
      BY <1>2, <2>1
    <3>5. a \o t = <<>> <=> a = <<>> /\ t = <<>>
      BY <3>3, ConcatEqualIffEmpty
    <3> QED
      BY <3>4, <3>5
  <2> QED
    BY <2>1
<1>5. t # <<>> => {Head(t), Last(t)} \cap TrimChars = {}
  BY <1>1, <1>2, <1>4
<1>6. Trim(s) = t
  BY DEF Trim, t, r
<1>7. s = a \o t \o b
  BY <1>1, <1>2
<1> QED
  BY <1>3, <1>5, <1>6, <1>7

(* A pair is a key, or a key and a value.                                    *)
LEMMA PairIs ==
  ASSUME NEW S, NEW pair \in Seq(S)
  PROVE  pair \in {KeyOf(pair), KeyOf(pair) \o <<EqualSign>> \o ValueOf(pair)}
<1> DEFINE e == Find(pair, {EqualSign})
           n == e - 1
           a == First(pair, n)
           r == Rest(pair, n)
           h == <<EqualSign>>
           v == SubSeq(pair, e + 1, Len(pair))
<1>1. IsFirst(pair, {EqualSign}, e) /\ n \in 0 .. Len(pair)
  BY FindIs
<1>2. KeyOf(pair) = a /\ ValueOf(pair) = v
  BY DEF KeyOf, ValueOf, First
<1> HIDE DEF e
<1>3. e \in 1 .. Len(pair) + 1 /\ (e <= Len(pair) => pair[e] = EqualSign) /\ Len(pair) \in Nat
  BY <1>1, LenProperties DEF IsFirst
<1>4. a \in Seq(S) /\ r \in Seq(S) /\ Len(r) = Len(pair) - n /\ pair = a \o r
      /\ \A k \in 1 .. Len(pair) - n : r[k] = pair[n + k]
  <2> HIDE DEF n
  <2> QED
    BY <1>1, CutInTwo
<1>5. CASE e = Len(pair) + 1
  <2>1. Len(r) = 0
    BY <1>3, <1>4, <1>5
  <2>2. r = <<>>
    BY <1>4, <2>1, EmptySeq
  <2> HIDE DEF a, r
  <2>3. pair = a
    BY <1>4, <2>2, ConcatEmptySeq
  <2> QED
    BY <1>2, <2>3
<1>6. CASE e # Len(pair) + 1
  <2>1. e <= Len(pair) /\ 1 \in 1 .. Len(pair) - n /\ n + 1 = e /\ Len(r) # 0
    BY <1>3, <1>4, <1>6
  <2>2. r[1] = EqualSign /\ r # <<>>
    BY <1>3, <1>4, <2>1, EmptySeq
  <2> HIDE DEF r
  <2>3. /\ r = <<Head(r)>> \o Tail(r) /\ Head(r) = r[1] /\ Tail(r) = SubSeq(r, 2, Len(r))
        /\ Tail(r) \in Seq(S)
        /\ Len(Tail(r)) = Len(r) - 1 /\ \A k \in 1 .. Len(Tail(r)) : Tail(r)[k] = r[k + 1]
    BY <1>4, <2>2, HeadTailProperties, TailIsSubSeq
  <2>4. Tail(r) = v
    <3> DEFINE t == Tail(r)
               x == e + 1
    <3>1. /\ x \in 1 .. Len(pair) + 1 /\ Len(pair) \in x - 1 .. Len(pair)
          /\ (Len(pair) - x) + 1 = Len(r) - 1
          /\ \A k \in 1 .. Len(r) - 1 : (x + k) - 1 = n + (k + 1) /\ k + 1 \in 1 .. Len(pair) - n
      BY <1>3, <1>4, <2>1
    <3> HIDE DEF x, n
    <3>2. v \in Seq(S) /\ Len(v) = Len(r) - 1 /\ \A k \in 1 .. Len(r) - 1 : v[k] = pair[(x + k) - 1]
      <4> DEFINE w == SubSeq(pair, x, Len(pair))
      <4>1. w \in Seq(S) /\ Len(w) = (Len(pair) - x) + 1
            /\ \A k \in 1 .. (Len(pair) - x) + 1 : w[k] = pair[(x + k) - 1]
        BY <3>1, SliceIs
      <4>2. w = v
        BY DEF x
      <4> HIDE DEF w, v
      <4> QED
        BY <3>1, <4>1, <4>2
    <3> HIDE DEF t, v
    <3>3. t \in Seq(S) /\ Len(t) = Len(r) - 1 /\ \A k \in 1 .. Len(r) - 1 : t[k] = r[k + 1]
      BY <2>3 DEF t
    <3>4. \A k \in 1 .. Len(r) - 1 : v[k] = t[k]
      <4> SUFFICES ASSUME NEW k \in 1 .. Len(r) - 1 PROVE v[k] = t[k]
        OBVIOUS
      <4>1. v[k] = pair[n + (k + 1)] /\ t[k] = r[k + 1] /\ k + 1 \in 1 .. Len(pair) - n
        BY <3>1, <3>2, <3>3
      <4> QED
        BY <1>4, <4>1
    <3>5. v = t
      BY <3>2, <3>3, <3>4, SeqEqual
    <3> QED
      BY <3>5 DEF t
  <2> HIDE DEF a, v
  <2>5. pair = a \o (h \o v)
    BY <1>4, <2>2, <2>3, <2>4
  <2>6. a \o (h \o v) = (a \o h) \o v
    <3> DEFINE T == S \cup {EqualSign}
    <3>1. a \in Seq(T) /\ h \in Seq(T) /\ v \in Seq(T)
      <4>1. a \in Seq(S) /\ v \in Seq(S) /\ S \subseteq T /\ EqualSign \in T
        BY <1>4, <2>3, <2>4
      <4> HIDE DEF T
      <4> QED
        BY <4>1
    <3> HIDE DEF T, h
    <3> QED
      <4>1. Associate(a, h, v)
        BY <3>1, ConcatAssociates
      <4> QED
        BY <4>1 DEF Associate
  <2> QED
    BY <1>2, <2>5, <2>6
<1> QED
  BY <1>5, <1>6

(* The first pair of a key is the one that counts.                           *)
Places(pairs, key) == {i \in DOMAIN pairs : KeyOf(pairs[i]) = key}

LEMMA FirstPlaceCounts ==
  ASSUME NEW pairs, DOMAIN pairs \in SUBSET Nat, NEW key
  PROVE  /\ Places(pairs, key) \in SUBSET Nat
         /\ key \in DOMAIN SplitKeyValuePairs(pairs) <=> Places(pairs, key) # {}
         /\ Places(pairs, key) # {} =>
              SplitKeyValuePairs(pairs)[key] = ValueOf(pairs[Min(Places(pairs, key))])
<1> DEFINE K == {KeyOf(pairs[i]) : i \in DOMAIN pairs}
<1>2. SplitKeyValuePairs(pairs) = [k \in K |-> ValueOf(pairs[Min(Places(pairs, k))])]
  BY DEF SplitKeyValuePairs, Places
<1>3. key \in K <=> Places(pairs, key) # {}
  BY DEF Places
<1> HIDE DEF K
<1> QED
  BY <1>2, <1>3 DEF Places

PairKept(pairs, i) ==
  pairs[i] \in {KeyOf(pairs[i]),
                KeyOf(pairs[i]) \o <<EqualSign>> \o SplitKeyValuePairs(pairs)[KeyOf(pairs[i])]}

LEMMA FirstPairIsKept ==
  ASSUME NEW S, NEW pairs \in Seq(Seq(S)), NEW i \in DOMAIN pairs,
         \A j \in 1 .. i - 1 : KeyOf(pairs[j]) # KeyOf(pairs[i])
  PROVE  PairKept(pairs, i)
<1> DEFINE k == KeyOf(pairs[i])
           P == Places(pairs, k)
           m == Min(P)
<1>1. i \in P /\ P \in SUBSET Nat /\ DOMAIN pairs = 1 .. Len(pairs) /\ Len(pairs) \in Nat
      /\ pairs[i] \in Seq(S)
  BY LenProperties DEF Places
<1> HIDE DEF P
<1>2. m \in P /\ m <= i
  BY <1>1, MinIsLeast
<1> HIDE DEF m
<1>3. m \in 1 .. Len(pairs) /\ KeyOf(pairs[m]) = k
  BY <1>1, <1>2 DEF P, Places
<1>4. m = i
  <2> SUFFICES ASSUME m # i PROVE FALSE
    OBVIOUS
  <2>1. m \in 1 .. i - 1
    BY <1>1, <1>2, <1>3
  <2> QED
    BY <1>3, <2>1
<1>5. SplitKeyValuePairs(pairs)[k] = ValueOf(pairs[i])
  <2>1. DOMAIN pairs \in SUBSET Nat
    BY <1>1
  <2>2. SplitKeyValuePairs(pairs)[k] = ValueOf(pairs[Min(P)])
    <3> HIDE DEF k
    <3> QED
      BY <1>1, <2>1, FirstPlaceCounts DEF P
  <2> QED
    BY <1>4, <2>2 DEF m
<1>6. pairs[i] \in {k, k \o <<EqualSign>> \o ValueOf(pairs[i])}
  BY <1>1, PairIs
<1> QED
  BY <1>5, <1>6 DEF PairKept

Table(pairs) == [i \in DOMAIN pairs |-> <<KeyOf(pairs[i]), ValueOf(pairs[i])>>]

LEMMA TableIsRead ==
  ASSUME NEW S, NEW pairs \in Seq(Seq(S)), NEW t
  PROVE  /\ TryMap(t, Table(pairs)).ok <=> t \in DOMAIN SplitKeyValuePairs(pairs)
         /\ TryMap(t, Table(pairs)).ok =>
              TryMap(t, Table(pairs)).value = SplitKeyValuePairs(pairs)[t]
<1> DEFINE P == Places(pairs, t)
           d == Table(pairs)
           E == {i \in DOMAIN d : d[i][1] = t}
<1>1. /\ DOMAIN d = DOMAIN pairs
      /\ \A i \in DOMAIN pairs : d[i][1] = KeyOf(pairs[i]) /\ d[i][2] = ValueOf(pairs[i])
  BY DEF Table
<1> HIDE DEF d
<1>2. E = P
  BY <1>1 DEF Places
<1>3. TryMap(t, d) = IF E = {} THEN Thrown ELSE Done(d[Min(E)][2])
  BY DEF TryMap
<1> HIDE DEF E
<1>4. /\ P \in SUBSET Nat /\ P \subseteq DOMAIN pairs
      /\ t \in DOMAIN SplitKeyValuePairs(pairs) <=> P # {}
      /\ P # {} => SplitKeyValuePairs(pairs)[t] = ValueOf(pairs[Min(P)])
  <2>1. P \subseteq DOMAIN pairs
    BY DEF Places
  <2>2. DOMAIN pairs \in SUBSET Nat
    BY LenProperties
  <2> QED
    BY <2>1, <2>2, FirstPlaceCounts
<1> HIDE DEF P
<1>5. CASE P = {}
  BY <1>2, <1>3, <1>4, <1>5 DEF Thrown, d
<1>6. CASE P # {}
  <2>1. Min(P) \in P
    BY <1>4, <1>6, MinIsLeast
  <2>2. d[Min(P)][2] = ValueOf(pairs[Min(P)])
    BY <1>1, <1>4, <2>1
  <2>3. TryMap(t, d) = Done(ValueOf(pairs[Min(P)]))
    BY <1>2, <1>3, <1>6, <2>2
  <2> QED
    BY <1>4, <1>6, <2>3, DoneIs DEF d
<1> QED
  BY <1>5, <1>6

(* Flags are named or announced.                                             *)
Named(definitions, out, bit) ==
  \E i \in DOMAIN definitions : bit \in definitions[i].bits /\ definitions[i].name \in ToSet(out)

IsDefinitions(definitions) ==
  /\ Len(definitions) \in Nat /\ DOMAIN definitions = 1 .. Len(definitions)
  /\ \A i \in DOMAIN definitions : definitions[i].name # Unnamed

LEMMA FlagsAreNamed ==
  ASSUME NEW definitions, IsDefinitions(definitions), NEW flags
  PROVE  Unnamed \in ToSet(FormatFlags(definitions, flags))
           <=> \E bit \in flags : ~Named(definitions, FormatFlags(definitions, flags), bit)
<1> DEFINE P == Listed(definitions, flags)
           s == InOrder(P)
           p == [n \in DOMAIN s |-> definitions[s[n]].name]
           out == FormatFlags(definitions, flags)
           left == Remaining(definitions, flags)
           T == {definitions[i].name : i \in P}
           U == T \cup {Unnamed}
<1>1. DOMAIN definitions \in SUBSET Nat /\ IsFiniteSet(DOMAIN definitions)
  BY FS_Interval DEF IsDefinitions
<1>2. P \in SUBSET Nat /\ IsFiniteSet(P)
      /\ \A i : i \in P <=> i \in DOMAIN definitions /\ definitions[i].bits \cap flags # {}
  <2>1. P \subseteq DOMAIN definitions
    BY DEF Listed
  <2> QED
    BY <1>1, <2>1, FS_Subset DEF Listed
<1> HIDE DEF P
<1>3. s \in Seq(P) /\ ToSet(s) = P
  BY <1>2, InOrderLists
<1> HIDE DEF s
<1>4. Len(s) \in Nat /\ DOMAIN s = 1 .. Len(s) /\ (\A n \in 1 .. Len(s) : s[n] \in P)
  BY <1>3, LenProperties, ElementOfSeq
<1>5. p \in Seq(T) /\ ToSet(p) = T
  <2>1. \A n \in 1 .. Len(s) : definitions[s[n]].name \in T
    BY <1>4
  <2>2. p = [n \in 1 .. Len(s) |-> definitions[s[n]].name]
    BY <1>4
  <2>3. p \in Seq(T)
    <3> HIDE DEF T
    <3> QED
      BY <1>4, <2>1, <2>2, IsASeq
  <2>4. ASSUME NEW i \in P PROVE definitions[i].name \in ToSet(p)
    <3>1. PICK n \in DOMAIN s : s[n] = i
      BY <1>3 DEF ToSet
    <3> QED
      BY <3>1 DEF ToSet
  <2>5. ToSet(p) \subseteq T
    BY <1>4 DEF ToSet
  <2> QED
    BY <2>3, <2>4, <2>5
<1> HIDE DEF p
<1>6. out = IF left # {} THEN Append(p, Unnamed) ELSE p
  BY DEF FormatFlags, p, s, P
<1>7. ToSet(out) = IF left # {} THEN T \cup {Unnamed} ELSE T
  <2>1. CASE left # {}
    <3>1. p \in Seq(U) /\ Unnamed \in U
      BY <1>5
    <3> HIDE DEF U
    <3>2. ToSet(Append(p, Unnamed)) = ToSet(p) \cup {Unnamed}
      BY <3>1, AppendToList
    <3> QED
      BY <1>5, <1>6, <2>1, <3>2
  <2>2. CASE left = {}
    BY <1>5, <1>6, <2>2
  <2> QED
    BY <2>1, <2>2
<1>8. Unnamed \notin T
  BY <1>2 DEF IsDefinitions
<1>9. left = {bit \in flags : \A i \in P : bit \notin definitions[i].bits}
  BY DEF Remaining, P
<1> HIDE DEF out, left
<1>10. ASSUME NEW bit \in flags PROVE Named(definitions, out, bit) <=> bit \notin left
  <2>1. ASSUME NEW i \in DOMAIN definitions, bit \in definitions[i].bits
        PROVE  i \in P /\ definitions[i].name \in ToSet(out)
    BY <1>2, <1>7, <2>1
  <2>2. ASSUME NEW i \in P, bit \in definitions[i].bits
        PROVE  Named(definitions, out, bit)
    BY <1>2, <2>1, <2>2 DEF Named
  <2> QED
    BY <1>9, <2>1, <2>2 DEF Named
<1>11. Unnamed \in ToSet(out) <=> left # {}
  BY <1>7, <1>8
<1> QED
  BY <1>9, <1>10, <1>11 DEF out

-----------------------------------------------------------------------------
(* Conversions: what is recorded of a call.                                  *)

IsOutcome(x) == x.ok \in BOOLEAN

LEMMA OutcomesAre == IsOutcome(Thrown) /\ \A value : IsOutcome(Done(value))
BY DEF IsOutcome, Thrown, Done

LEMMA SummaryEnds == \A s, max : IsOutcome(Summary(s, max))
BY OutcomesAre DEF Summary

LEMMA MultiByteEnds == \A s, e, f : IsOutcome(ToMultiByte(s, e, f))
BY OutcomesAre DEF ToMultiByte

LEMMA AnsiEnds == \A s, e, f : IsOutcome(ToAnsi(s, e, f))
BY OutcomesAre DEF ToAnsi

LEMMA WideEnds == \A s, e, f : IsOutcome(ToWide(s, e, f))
BY OutcomesAre DEF ToWide

LEMMA PathEnds == \A s : IsOutcome(RegistryPath(s))
BY OutcomesAre DEF RegistryPath

LEMMA GuidEnds == \A s : IsOutcome(GuidFromString(s))
BY OutcomesAre DEF GuidFromString

LEMMA MapEnds == \A t, dictionary : IsOutcome(TryMap(t, dictionary))
BY OutcomesAre DEF TryMap

Ending == {"Summary", "ToUtf8", "ToAnsi", "ToWide", "RegistryPath", "Guid", "Map"}
Numeric == {"Address", "Mask", "ByteSwap"}

(* What is in conversion after a call.                                       *)
Sound(call, in, out) ==
  /\ call \in Calls /\ (call \in Ending => IsOutcome(out))
  /\ call = "Address" => in \in Address /\ out = LiteralAddressToNetwork(in)
  /\ call = "Mask" => in \in 0 .. Width /\ out = MaskFromRoutingPrefix(in)
  /\ call = "ByteSwap" => in \in 0 .. Radix * Radix - 1 /\ out = ByteSwap(in)

(* What went in is a text, a list of texts or definitions of flags, and what *)
(* came out is what the function makes of it.                                *)
TextSequences == Seq(Seq(Characters))
Answers(call, in, out) ==
  /\ call = "Tokenize" => in \in Seq(Characters) /\ out = Tokenize(in, {Slash})
  /\ call = "Join" => in \in TextSequences /\ out = Join(in, <<Slash>>)
  /\ call = "RegistryPath" => in \in Seq(Characters) /\ out = RegistryPath(in)
  /\ call = "Summary" =>
       in[1] \in Seq(Characters) /\ in[2] \in 0 .. Len(in[1]) /\ out = Summary(in[1], in[2])
  /\ call = "Trim" => in \in Seq(Characters) /\ out = Trim(in)
  /\ call = "ToUtf8" =>
       /\ in[1] \in Seq(Characters) /\ in[2] \in BOOLEAN
       /\ \E throwOnError \in BOOLEAN : out = ToUtf8(in[1], throwOnError, in[2])
  /\ call = "ToAnsi" =>
       /\ in[1] \in Seq(Characters) /\ in[2] \in BOOLEAN
       /\ \E throwOnError \in BOOLEAN : out = ToAnsi(in[1], throwOnError, in[2])
  /\ call = "ToWide" =>
       /\ \E s \in Seq(Characters) : in[1] = Narrowed(s)
       /\ in[2] \in BOOLEAN
       /\ \E throwOnError \in BOOLEAN : out = ToWide(in[1], throwOnError, in[2])
  /\ call = "SplitKeyValuePairs" => in \in TextSequences /\ out = SplitKeyValuePairs(in)
  /\ call = "Map" => in[2] \in TextSequences /\ out = TryMap(in[1], Table(in[2]))
  /\ call = "FormatFlags" => IsDefinitions(in[1]) /\ out = FormatFlags(in[1], in[2])
  /\ call = "Filename" => in \in Seq(Characters) /\ out = IsolateFilename(in)
  /\ call = "Filter" => out.directories # out.files /\ out.named # out.notNamed
  /\ call = "BeginsWith" =>
       in[1] \in Seq(Characters) /\ in[2] \in Seq(Characters) /\ out = BeginsWith(in[1], in[2])

ConversionInv ==
  \/ conversion = NoConversion
  \/ /\ Sound(conversion.call, conversion.in, conversion.out)
     /\ Answers(conversion.call, conversion.in, conversion.out)

LEMMA SoundCall ==
  ASSUME NEW call, NEW in, NEW out, Call(call, in, out), Sound(call, in, out),
         Answers(call, in, out)
  PROVE  ConversionInv'
BY DEF Call, ConversionInv

(* The other calls have no answer of these. *)
LEMMA OtherAnswers ==
  \A in, out : /\ Answers("Guid", in, out) /\ Answers("Address", in, out)
               /\ Answers("Mask", in, out) /\ Answers("ByteSwap", in, out)
BY DEF Answers

LEMMA TextsAre ==
  /\ \A s \in Texts : s \in Seq(Characters)
  /\ \A texts \in TextLists : texts \in TextSequences
  /\ \A definitions \in DefinitionLists : IsDefinitions(definitions)
BY ConversionsAssumption DEF IsDefinitions, TextSequences

LEMMA TextsOfList ==
  ASSUME NEW texts \in TextSequences, NEW i \in DOMAIN texts
  PROVE  texts[i] \in Seq(Characters) /\ Last(texts) \in Seq(Characters)
<1>1. Len(texts) \in Nat /\ i \in 1 .. Len(texts) /\ Len(texts) \in 1 .. Len(texts)
  BY LenProperties DEF TextSequences
<1> QED
  BY <1>1, ElementOfSeq DEF TextSequences, Last

LEMMA ConversionStepInv == ConversionInv /\ [ConversionNext]_conversion => ConversionInv'
<1> SUFFICES ASSUME ConversionInv, [ConversionNext]_conversion PROVE ConversionInv'
  OBVIOUS
<1>1. ASSUME NEW call \in Calls \ (Ending \cup Numeric), NEW in, NEW out, Call(call, in, out),
             Answers(call, in, out)
      PROVE  ConversionInv'
  <2>1. call \notin Ending /\ call # "Address" /\ call # "Mask" /\ call # "ByteSwap"
    BY DEF Numeric
  <2> QED
    BY <1>1, <2>1, SoundCall DEF Sound
<1>2. ASSUME NEW call \in Ending, NEW in, NEW out, Call(call, in, out), IsOutcome(out),
             Answers(call, in, out)
      PROVE  ConversionInv'
  <2>1. call \in Calls /\ call # "Address" /\ call # "Mask" /\ call # "ByteSwap"
    BY DEF Ending, Calls
  <2> QED
    BY <1>2, <2>1, SoundCall DEF Sound
<1>3. /\ {"Tokenize", "Join", "Trim", "SplitKeyValuePairs", "FormatFlags", "Filename", "Filter", "BeginsWith"}
           \subseteq Calls \ (Ending \cup Numeric)
      /\ Ending = {"Summary", "ToUtf8", "ToAnsi", "ToWide", "RegistryPath", "Guid", "Map"}
  BY DEF Calls, Ending, Numeric
<1>0. Texts \subseteq Seq(Characters)
  BY TextsAre
<1>4. ASSUME NEW s \in Texts,
             \/ CallTokenize(s, {Slash}) \/ CallRegistryPath(s) \/ CallTrim(s)
             \/ CallGuid(s) \/ CallFilename(s)
      PROVE  ConversionInv'
  <2>1. CASE CallTokenize(s, {Slash})
    <3>1. Answers("Tokenize", s, Tokenize(s, {Slash}))
      BY <1>0, TextsAre DEF Answers
    <3> QED
      BY <1>1, <1>3, <2>1, <3>1 DEF CallTokenize
  <2>2. CASE CallRegistryPath(s)
    <3>1. Answers("RegistryPath", s, RegistryPath(s))
      BY <1>0, TextsAre DEF Answers
    <3> QED
      BY <1>2, <1>3, <2>2, PathEnds, <3>1 DEF CallRegistryPath
  <2>3. CASE CallTrim(s)
    <3>1. Answers("Trim", s, Trim(s))
      BY <1>0, TextsAre DEF Answers
    <3> QED
      BY <1>1, <1>3, <2>3, <3>1 DEF CallTrim
  <2>4. CASE CallGuid(s)
    BY <1>2, <1>3, <2>4, GuidEnds, OtherAnswers DEF CallGuid
  <2>5. CASE CallFilename(s)
    <3>1. Answers("Filename", s, IsolateFilename(s))
      BY <1>0, TextsAre DEF Answers
    <3> QED
      BY <1>1, <1>3, <2>5, <3>1 DEF CallFilename
  <2> QED
    BY <1>4, <2>1, <2>2, <2>3, <2>4, <2>5
<1>5. ASSUME NEW s \in Texts, NEW max \in 0 .. Len(s), CallSummary(s, max)
      PROVE  ConversionInv'
  <2>1. Answers("Summary", <<s, max>>, Summary(s, max))
    BY <1>0 DEF Answers
  <2> QED
    BY <1>2, <1>3, <1>5, <2>1, SummaryEnds DEF CallSummary
<1>6. ASSUME NEW s \in Texts, NEW e \in BOOLEAN, NEW f \in BOOLEAN,
             CallToUtf8(s, e, f) \/ CallToAnsi(s, e, f) \/ CallToWide(Narrowed(s), e, f)
      PROVE  ConversionInv'
  <2>1. CASE CallToUtf8(s, e, f)
    <3>1. Answers("ToUtf8", <<s, f>>, ToUtf8(s, e, f))
      BY <1>0, TextsAre DEF Answers
    <3> QED
      BY <1>2, <1>3, <2>1, MultiByteEnds, <3>1 DEF CallToUtf8, ToUtf8
  <2>2. CASE CallToAnsi(s, e, f)
    <3>1. Answers("ToAnsi", <<s, f>>, ToAnsi(s, e, f))
      BY <1>0, TextsAre DEF Answers
    <3> QED
      BY <1>2, <1>3, <2>2, AnsiEnds, <3>1 DEF CallToAnsi
  <2>3. CASE CallToWide(Narrowed(s), e, f)
    <3>1. Answers("ToWide", <<Narrowed(s), f>>, ToWide(Narrowed(s), e, f))
      BY <1>0, TextsAre DEF Answers
    <3> QED
      BY <1>2, <1>3, <2>3, WideEnds, <3>1 DEF CallToWide
  <2> QED
    BY <1>6, <2>1, <2>2, <2>3
<1>7. ASSUME NEW s \in Texts, NEW texts \in TextLists, CallFilter(s, ToSet(texts))
      PROVE  ConversionInv'
  <2> DEFINE c(directory) == [name |-> s, directory |-> directory]
             out(x) == [directories |-> FilterDirectories(x), files |-> FilterFiles(x),
                        notRelative |-> FilterNotRelativeDirs(x),
                        named |-> FilterNamedSet(ToSet(texts), x),
                        notNamed |-> FilterNotNamedSet(ToSet(texts), x)]
  <2>1. PICK directory \in BOOLEAN : Call("Filter", c(directory), out(c(directory)))
    BY <1>7 DEF CallFilter
  <2>2. \A x : x.directory \in BOOLEAN => FilterDirectories(x) # FilterFiles(x)
    BY DEF FilterDirectories, FilterFiles
  <2>3. \A x : FilterNamedSet(ToSet(texts), x) # FilterNotNamedSet(ToSet(texts), x)
    BY DEF FilterNamedSet, FilterNotNamedSet
  <2>4. Answers("Filter", c(directory), out(c(directory)))
    BY <2>2, <2>3 DEF Answers
  <2> QED
    BY <1>1, <1>3, <2>1, <2>4
<1>8. ASSUME NEW texts \in TextLists, CallJoin(texts) \/ CallSplit(texts)
      PROVE  ConversionInv'
  <2>1. CASE CallJoin(texts)
    <3>1. Answers("Join", texts, Join(texts, <<Slash>>))
      BY <1>0, TextsAre DEF Answers
    <3> QED
      BY <1>1, <1>3, <2>1, <3>1 DEF CallJoin
  <2>2. CASE CallSplit(texts)
    <3>1. Answers("SplitKeyValuePairs", texts, SplitKeyValuePairs(texts))
      BY <1>0, TextsAre DEF Answers
    <3> QED
      BY <1>1, <1>3, <2>2, <3>1 DEF CallSplit
  <2> QED
    BY <1>8, <2>1, <2>2
<1>9. ASSUME NEW texts \in TextLists, NEW i \in DOMAIN texts,
             CallMap(texts[i], texts) \/ CallBeginsWith(texts[i], Last(texts))
      PROVE  ConversionInv'
  <2>1. CASE CallMap(texts[i], texts)
    <3>1. Answers("Map", <<texts[i], texts>>, TryMap(texts[i], Table(texts)))
      BY <1>0, TextsAre DEF Answers
    <3> QED
      BY <1>2, <1>3, <2>1, MapEnds, <3>1 DEF CallMap, Table
  <2>2. CASE CallBeginsWith(texts[i], Last(texts))
    <3>1. Answers("BeginsWith", <<texts[i], Last(texts)>>, BeginsWith(texts[i], Last(texts)))
      BY TextsAre, TextsOfList DEF Answers
    <3> QED
      BY <1>1, <1>3, <2>2, <3>1 DEF CallBeginsWith
  <2> QED
    BY <1>9, <2>1, <2>2
<1>10. ASSUME NEW definitions \in DefinitionLists, NEW flags \in FlagSets,
              CallFormatFlags(definitions, flags)
       PROVE  ConversionInv'
  <2>1. Answers("FormatFlags", <<definitions, flags>>, FormatFlags(definitions, flags))
    BY TextsAre DEF Answers
  <2> QED
    BY <1>1, <1>3, <1>10, <2>1 DEF CallFormatFlags
<1>11. ASSUME NEW address \in Address, CallAddress(address) PROVE ConversionInv'
  BY <1>11, SoundCall, OtherAnswers DEF CallAddress, Sound, Calls, Ending
<1>12. ASSUME NEW prefix \in 0 .. Width, CallMask(prefix) PROVE ConversionInv'
  BY <1>12, SoundCall, OtherAnswers DEF CallMask, Sound, Calls, Ending
<1>13. ASSUME NEW val \in 0 .. Radix * Radix - 1, CallByteSwap(val) PROVE ConversionInv'
  BY <1>13, SoundCall, OtherAnswers DEF CallByteSwap, Sound, Calls, Ending
<1>14. CASE CallDone
  BY <1>14 DEF CallDone, ConversionInv
<1>15. CASE UNCHANGED conversion
  BY <1>15 DEF ConversionInv
<1> QED
  BY <1>4, <1>5, <1>6, <1>7, <1>8, <1>9, <1>10, <1>11, <1>12, <1>13, <1>14, <1>15 DEF ConversionNext

LEMMA InitConversionInv == ConversionInit => ConversionInv
BY DEF ConversionInit, ConversionInv

LEMMA ConversionTyped == ConversionInv => ConversionTypeOK
<1> SUFFICES ASSUME ConversionInv PROVE ConversionTypeOK
  OBVIOUS
<1>1. CASE conversion = NoConversion
  BY <1>1 DEF NoConversion, ConversionTypeOK
<1>2. CASE /\ Sound(conversion.call, conversion.in, conversion.out)
            /\ Answers(conversion.call, conversion.in, conversion.out)
  <2>1. conversion.call \in Numeric => conversion.out \in Word
    BY <1>2, AddressIsShown, MaskIsAWord, SwappedAreShown DEF Sound, Numeric
  <2> QED
    BY <1>2, <2>1 DEF Sound, ConversionTypeOK, Numeric, Ending, IsOutcome
<1> QED
  BY <1>1, <1>2 DEF ConversionInv

LEMMA AddressesAgreeFollows == ConversionInv => AddressesAgree
<1> SUFFICES ASSUME ConversionInv PROVE AddressesAgree
  OBVIOUS
<1>1. CASE conversion = NoConversion
  BY <1>1 DEF NoConversion, AddressesAgree, Made
<1>2. CASE /\ Sound(conversion.call, conversion.in, conversion.out)
            /\ Answers(conversion.call, conversion.in, conversion.out)
  <2>1. Made("Address") => FormatHostOrder(conversion.out) = conversion.in
    BY <1>2, AddressIsShown DEF Sound, Made
  <2>2. ASSUME Made("Mask"), NEW i \in 1 .. Width
        PROVE  ShownBit(FormatHostOrder(conversion.out), i) = IF i <= conversion.in THEN 1 ELSE 0
    BY <1>2, <2>2, MaskIsShown DEF Sound, Made
  <2>3. Made("ByteSwap") =>
          SubSeq(FormatHostOrder(conversion.out), 3, 4) = SubSeq(FormatNetworkOrder(conversion.in), 1, 2)
    BY <1>2, SwappedAreShown DEF Sound, Made
  <2> QED
    BY <2>1, <2>2, <2>3 DEF AddressesAgree, ShownBit
<1> QED
  BY <1>1, <1>2 DEF ConversionInv

LEMMA PartsSurviveFollows == ConversionInv => PartsSurvive
<1> SUFFICES ASSUME ConversionInv PROVE PartsSurvive
  OBVIOUS
<1> DEFINE in == conversion.in
           out == conversion.out
<1>1. CASE conversion = NoConversion
  BY <1>1 DEF NoConversion, PartsSurvive, Made
<1>2. CASE Answers(conversion.call, in, out)
  <2>1. ASSUME Made("Join"), \A i \in DOMAIN in : {Slash, Null} \cap ToSet(in[i]) = {}
        PROVE  Tokenize(out, {Slash}) = NonEmpty(in)
    <3>1. in \in Seq(Seq(Characters)) /\ out = Join(in, <<Slash>>)
      BY <1>2, <2>1 DEF Answers, Made, TextSequences
    <3> HIDE DEF in, out
    <3>2. Len(in) \in Nat /\ DOMAIN in = 1 .. Len(in) /\ in = [i \in 1 .. Len(in) |-> in[i]]
      BY <3>1, LenProperties
    <3>3. ASSUME NEW i \in 1 .. Len(in) PROVE in[i] \in Uncuts(Letters, {Slash})
      <4> DEFINE p == in[i]
      <4>1. p \in Seq(Characters) /\ {Slash, Null} \cap ToSet(p) = {}
        BY <2>1, <3>1, <3>2, ElementOfSeq
      <4> HIDE DEF p
      <4>2. /\ Len(p) \in Nat /\ DOMAIN p = 1 .. Len(p) /\ p = [k \in 1 .. Len(p) |-> p[k]]
            /\ \A k \in 1 .. Len(p) : p[k] \in Characters
        BY <4>1, LenProperties, ElementOfSeq
      <4>3. \A k \in 1 .. Len(p) : p[k] \in Letters /\ p[k] \notin {Slash}
        BY <4>1, <4>2 DEF ToSet, Letters
      <4>4. p \in Seq(Letters)
        BY <4>2, <4>3, IsASeq
      <4>5. Uncut(p, {Slash})
        BY <4>2, <4>3 DEF Uncut
      <4> QED
        BY <4>4, <4>5 DEF Uncuts, p
    <3> DEFINE V == Uncuts(Letters, {Slash})
    <3>4. \A i \in 1 .. Len(in) : in[i] \in V
      BY <3>3
    <3> HIDE DEF V
    <3>5. in \in Seq(V)
      BY <3>2, <3>4, IsASeq
    <3> QED
      BY <3>1, <3>5, TokensOfJoined, LettersAre DEF V
  <2>2. ASSUME Made("Tokenize") PROVE Tokenize(Join(out, <<Slash>>), {Slash}) = out
    <3>1. in \in Seq(Characters) /\ out = Tokenize(in, {Slash}) /\ Slash \in Letters \cap {Slash}
      BY <1>2, <2>2, LettersAre DEF Answers, Made
    <3> QED
      BY <3>1, TokensOfTokens
  <2>3. ASSUME Made("RegistryPath"), out.ok, NEW name \in DOMAIN Roots, Roots[name] = out.value.key
        PROVE  RegistryPath(name \o <<Slash>> \o out.value.subkey) = out
    <3>1. in \in Seq(Characters) /\ out = RegistryPath(in)
      BY <1>2, <2>3 DEF Answers, Made
    <3>2. PathReadAgain(in)
      BY <3>1, PathsAreReadAgain
    <3> QED
      BY <2>3, <3>1, <3>2 DEF PathReadAgain, PathTo
  <2> QED
    BY <2>1, <2>2, <2>3 DEF PartsSurvive
<1> QED
  BY <1>1, <1>2 DEF ConversionInv

LEMMA TextSurvivesFollows == ConversionInv => TextSurvives
<1> SUFFICES ASSUME ConversionInv PROVE TextSurvives
  OBVIOUS
<1> DEFINE in == conversion.in
           out == conversion.out
<1>1. CASE conversion = NoConversion
  BY <1>1 DEF NoConversion, TextSurvives, Made
<1>2. CASE Answers(conversion.call, in, out)
  <2>1. ASSUME Made("ToAnsi"), out.ok
        PROVE  ToWide(out.value, TRUE, FALSE) = Done(IF in[2] THEN <<>> ELSE CString(in[1]))
    <3>1. PICK throwOnError \in BOOLEAN :
            /\ in[1] \in Seq(Characters) /\ in[2] \in BOOLEAN
            /\ out = ToAnsi(in[1], throwOnError, in[2])
      BY <1>2, <2>1 DEF Answers, Made
    <3> QED
      BY <2>1, <3>1, AnsiSurvives, Zenon DEF Kept
  <2>2. ASSUME Made("ToWide"), out.ok
        PROVE  ToAnsi(out.value, TRUE, FALSE) = Done(IF in[2] THEN <<>> ELSE CString(in[1]))
    <3>1. PICK throwOnError \in BOOLEAN :
            in[2] \in BOOLEAN /\ out = ToWide(in[1], throwOnError, in[2])
      BY <1>2, <2>2 DEF Answers, Made
    <3>2. PICK s \in Seq(Characters) : in[1] = Narrowed(s)
      BY <1>2, <2>2 DEF Answers, Made
    <3> QED
      BY <2>2, <3>1, <3>2, WideSurvives DEF Kept
  <2>3. ASSUME Made("ToUtf8"), out.ok
        PROVE  Find(out.value, {Null}) = Len(out.value)
    <3>1. PICK throwOnError \in BOOLEAN :
            /\ in[1] \in Seq(Characters) /\ in[2] \in BOOLEAN
            /\ out = ToUtf8(in[1], throwOnError, in[2])
      BY <1>2, <2>3 DEF Answers, Made
    <3> DEFINE s == in[1]
               callFails == in[2]
    <3>2. /\ s \in Seq(Characters) /\ callFails \in BOOLEAN
          /\ out = ToUtf8(s, throwOnError, callFails) /\ ToUtf8(s, throwOnError, callFails).ok
      BY <2>3, <3>1
    <3> HIDE DEF s, callFails
    <3>3. Find(ToUtf8(s, throwOnError, callFails).value, {Null}) =
            Len(ToUtf8(s, throwOnError, callFails).value)
      BY <3>2, Utf8Survives
    <3> QED
      BY <3>2, <3>3
  <2> QED
    BY <2>1, <2>2, <2>3 DEF TextSurvives
<1> QED
  BY <1>1, <1>2 DEF ConversionInv

LEMMA NothingUnaccountedFollows == ConversionInv => NothingUnaccounted
<1> SUFFICES ASSUME ConversionInv PROVE NothingUnaccounted
  OBVIOUS
<1> DEFINE in == conversion.in
           out == conversion.out
<1>1. CASE conversion = NoConversion
  BY <1>1 DEF NoConversion, NothingUnaccounted, Made
<1>2. CASE Answers(conversion.call, in, out)
  <2>1. ASSUME Made("FormatFlags")
        PROVE  Unnamed \in ToSet(out) <=> \E bit \in in[2] : ~Named(in[1], out, bit)
    BY <1>2, <2>1, FlagsAreNamed DEF Answers, Made
  <2>2. ASSUME Made("SplitKeyValuePairs"), NEW i \in DOMAIN in,
               \A j \in 1 .. i - 1 : KeyOf(in[j]) # KeyOf(in[i])
        PROVE  in[i] \in {KeyOf(in[i]), KeyOf(in[i]) \o <<EqualSign>> \o out[KeyOf(in[i])]}
    <3>1. in \in Seq(Seq(Characters)) /\ out = SplitKeyValuePairs(in)
      BY <1>2, <2>2 DEF Answers, Made, TextSequences
    <3>2. PairKept(in, i)
      BY <2>2, <3>1, FirstPairIsKept
    <3> QED
      BY <3>1, <3>2 DEF PairKept
  <2>3. ASSUME Made("Trim")
        PROVE  \E lead, trail \in BoundedSeq(TrimChars, Len(in)) :
                 /\ in = lead \o out \o trail
                 /\ out # <<>> => {Head(out), Last(out)} \cap TrimChars = {}
    <3>1. in \in Seq(Characters) /\ out = Trim(in)
      BY <1>2, <2>3 DEF Answers, Made
    <3> QED
      BY <3>1, TrimTakesNothingElse
  <2>4. ASSUME Made("Summary"), out.ok PROVE Len(out.value) <= in[2]
    <3>1. in[1] \in Seq(Characters) /\ in[2] \in 0 .. Len(in[1]) /\ out = Summary(in[1], in[2])
      BY <1>2, <2>4 DEF Answers, Made
    <3> QED
      BY <2>4, <3>1, SummaryKeepsLimit
  <2>5. ASSUME Made("Map")
        PROVE  /\ out.ok <=> in[1] \in DOMAIN SplitKeyValuePairs(in[2])
               /\ out.ok => out.value = SplitKeyValuePairs(in[2])[in[1]]
    <3>1. in[2] \in Seq(Seq(Characters)) /\ out = TryMap(in[1], Table(in[2]))
      BY <1>2, <2>5 DEF Answers, Made, TextSequences
    <3> QED
      BY <3>1, TableIsRead
  <2>6. ASSUME Made("BeginsWith") PROVE out <=> BeginsSomewhere(in[1], in[2])
    <3>1. in[1] \in Seq(Characters) /\ in[2] \in Seq(Characters) /\ out = BeginsWith(in[1], in[2])
      BY <1>2, <2>6 DEF Answers, Made
    <3> QED
      BY <3>1, BeginsIs
  <2>7. ASSUME Made("Filename")
        PROVE  /\ {Slash, Backslash} \cap ToSet(out) = {}
               /\ \E directory \in {<<>>} \cup {SubSeq(in, 1, i) : i \in DOMAIN in} :
                    /\ directory = <<>> \/ Last(directory) \in {Slash, Backslash}
                    /\ CString(in) = directory \o out
    <3>1. in \in Seq(Characters) /\ out = IsolateFilename(in)
      BY <1>2, <2>7 DEF Answers, Made
    <3> QED
      BY <3>1, NameFollowsSeparator
  <2>8. ASSUME Made("Filter") PROVE out.directories # out.files /\ out.named # out.notNamed
    BY <1>2, <2>8 DEF Answers, Made
  <2> QED
    BY <2>1, <2>2, <2>3, <2>4, <2>5, <2>6, <2>7, <2>8 DEF NothingUnaccounted, Named, BeginsSomewhere
<1> QED
  BY <1>1, <1>2 DEF ConversionInv

(* PartsSurvive of every reachable state: strings of any length and of any   *)
(* characters that are joined are tokenized as they were, tokens are joined  *)
(* and tokenized to themselves, and a registry path that was read is written *)
(* and read as the same root and subkey, under every name of the root.       *)
THEOREM PartsAreFoundAgain == ConversionSpec => []PartsSurvive
BY InitConversionInv, ConversionStepInv, PartsSurviveFollows, PTL DEF ConversionSpec

(* TextSurvives of every reachable state: ToAnsi() and ToWide() undo each    *)
(* other up to the first null, whatever bytes a character takes in a code    *)
(* page in which none begins another, and ToUtf8() ends at its only null.    *)
THEOREM TextIsConvertedBack == ConversionSpec => []TextSurvives
BY InitConversionInv, ConversionStepInv, TextSurvivesFollows, PTL DEF ConversionSpec

(* NothingUnaccounted of every reachable state: flags are named or announced,*)
(* pairs are kept, trimming takes off what it may, summaries are within      *)
(* their limit, tables agree, and a name follows the last separator.         *)
THEOREM CallsAccountForAll == ConversionSpec => []NothingUnaccounted
BY InitConversionInv, ConversionStepInv, NothingUnaccountedFollows, PTL DEF ConversionSpec

(* AddressesAgree of every reachable state: what LiteralAddressToNetwork()   *)
(* reads byte by byte FormatIpv4() shows byte by byte, the first bits of     *)
(* what is shown of a mask are set and no others, and ByteSwap() swaps. For  *)
(* every address, every prefix and bytes of any width.                       *)
THEOREM AddressesAreShown == ConversionSpec => []AddressesAgree
BY InitConversionInv, ConversionStepInv, AddressesAgreeFollows, PTL DEF ConversionSpec

(* ConversionTypeOK: what may throw yields an outcome, and an address, a     *)
(* mask and a swapped number fit a word.                                     *)
THEOREM ConversionsAreTyped == ConversionSpec => []ConversionTypeOK
BY InitConversionInv, ConversionStepInv, ConversionTyped, PTL DEF ConversionSpec

(* TestTypeOK: the tests write and create only what they name, and a key     *)
(* that is gone has neither values nor subkeys.                              *)
THEOREM TestsAreTyped == TestSpec => []TestTypeOK
<1>1. TestInv => TestTypeOK
  BY DEF TestInv
<1> QED
  BY InitTestInv, TestStepInv, <1>1, PTL DEF TestSpec

-----------------------------------------------------------------------------
(* RegistryTests: the course of a test. A read or a deletion follows the     *)
(* write of its value, a comparison the calls for all that it compares.      *)

(* What comes before each call of a test: k is its place, p that before it.  *)
Each(ops, k, call) ==
  \A name \in Range(Created) : \E i \in 1 .. k - 1 : ops[i].call = call /\ ops[i].name = name
AfterWrite(ops, p, k) ==
  ops[k].call \in {"read", "delete"} =>
    /\ p > 0 /\ ops[p].call = "write" /\ ops[p].name = ops[k].name
    /\ ops[k].call = "read" => ops[p].type = ops[k].type
AfterAll(t, ops, p, k) ==
  ops[k].call = "compare" =>
    /\ p > 0
    /\ \/ t = "EnumerateKeys" /\ ops[p].call = "keys" /\ Each(ops, k, "create")
       \/ t = "EnumerateValues" /\ ops[p].call = "values" /\ Each(ops, k, "write")
CreatesKeys(t, ops, k) ==
  ops[k].call = "create" => t = "EnumerateKeys" /\ ops[k].name \in Range(Created)
ChecksValues(t, ops, k) ==
  ops[k].call = "types" => t = "EnumerateValues" /\ ops[k].type = "REG_SZ"
WritesValues(t, ops, k) ==
  t = "EnumerateValues" =>
    /\ ops[k].call # "delete"
    /\ ops[k].call = "write" => ops[k].name \in Range(Created) /\ ops[k].type = "REG_SZ"
CallOrdered(t, ops, p, k) ==
  /\ AfterWrite(ops, p, k) /\ AfterAll(t, ops, p, k) /\ CreatesKeys(t, ops, k)
  /\ ChecksValues(t, ops, k) /\ WritesValues(t, ops, k)
Ordered(t, ops) == \A k \in 1 .. Len(ops) : CallOrdered(t, ops, k - 1, k)

(* A call, by its parts. *)
Is(op, call, name, type) == op.call = call /\ op.name = name /\ op.type = type

LEMMA OpIs ==
  ASSUME NEW call, NEW name, NEW type
  PROVE  Is(Op(call, name, type), call, name, type)
BY DEF Is, Op

LEMMA OtherCall ==
  ASSUME NEW t, NEW ops, NEW p, NEW k, ops[k].call \in {"open", "keys", "values"}
  PROVE  CallOrdered(t, ops, p, k)
<1>1. AfterWrite(ops, p, k) /\ CreatesKeys(t, ops, k)
  BY DEF AfterWrite, CreatesKeys
<1>2. AfterAll(t, ops, p, k) /\ ChecksValues(t, ops, k)
  BY DEF AfterAll, ChecksValues
<1>3. WritesValues(t, ops, k)
  BY DEF WritesValues
<1> QED
  BY <1>1, <1>2, <1>3 DEF CallOrdered

LEMMA WriteCall ==
  ASSUME NEW t, NEW ops, NEW p, NEW k, NEW name, NEW type, Is(ops[k], "write", name, type),
         t = "EnumerateValues" => name \in Range(Created) /\ type = "REG_SZ"
  PROVE  CallOrdered(t, ops, p, k)
<1>1. ops[k].call = "write" /\ ops[k].name = name /\ ops[k].type = type
  BY DEF Is
<1>2. AfterWrite(ops, p, k) /\ CreatesKeys(t, ops, k)
  BY <1>1 DEF AfterWrite, CreatesKeys
<1>3. AfterAll(t, ops, p, k) /\ ChecksValues(t, ops, k)
  BY <1>1 DEF AfterAll, ChecksValues
<1>4. WritesValues(t, ops, k)
  BY <1>1 DEF WritesValues
<1> QED
  BY <1>2, <1>3, <1>4 DEF CallOrdered

LEMMA AfterWriteCall ==
  ASSUME NEW t, NEW ops, NEW p \in Nat \ {0}, NEW k, NEW call \in {"read", "delete"},
         t # "EnumerateValues", NEW name, NEW type, NEW read,
         Is(ops[p], "write", name, type), Is(ops[k], call, name, read),
         call = "read" => read = type
  PROVE  CallOrdered(t, ops, p, k)
<1>1. /\ ops[k].call = call /\ ops[k].name = name /\ ops[k].type = read
      /\ ops[p].call = "write" /\ ops[p].name = name /\ ops[p].type = type /\ p > 0
  BY DEF Is
<1>2. AfterWrite(ops, p, k)
  BY <1>1 DEF AfterWrite
<1>3. CreatesKeys(t, ops, k)
  BY <1>1 DEF CreatesKeys
<1>4. AfterAll(t, ops, p, k) /\ ChecksValues(t, ops, k)
  BY <1>1 DEF AfterAll, ChecksValues
<1>5. WritesValues(t, ops, k)
  BY DEF WritesValues
<1> QED
  BY <1>2, <1>3, <1>4, <1>5 DEF CallOrdered

LEMMA CreateCall ==
  ASSUME NEW ops, NEW p, NEW k, NEW name \in Range(Created), NEW type,
         Is(ops[k], "create", name, type)
  PROVE  CallOrdered("EnumerateKeys", ops, p, k)
<1> DEFINE t == "EnumerateKeys"
<1>1. ops[k].call = "create" /\ ops[k].name = name
  BY DEF Is
<1>2. AfterWrite(ops, p, k) /\ CreatesKeys(t, ops, k)
  BY <1>1 DEF AfterWrite, CreatesKeys
<1>3. AfterAll(t, ops, p, k) /\ ChecksValues(t, ops, k)
  BY <1>1 DEF AfterAll, ChecksValues
<1>4. WritesValues(t, ops, k)
  BY DEF WritesValues
<1> QED
  BY <1>2, <1>3, <1>4 DEF CallOrdered

LEMMA CompareCall ==
  ASSUME NEW t, NEW ops, NEW p \in Nat \ {0}, NEW k, ops[k].call = "compare",
         \/ t = "EnumerateKeys" /\ ops[p].call = "keys" /\ Each(ops, k, "create")
         \/ t = "EnumerateValues" /\ ops[p].call = "values" /\ Each(ops, k, "write")
  PROVE  CallOrdered(t, ops, p, k)
<1>1. AfterWrite(ops, p, k) /\ CreatesKeys(t, ops, k)
  BY DEF AfterWrite, CreatesKeys
<1>2. AfterAll(t, ops, p, k)
  <2>1. p > 0
    OBVIOUS
  <2> QED
    BY <2>1 DEF AfterAll
<1>3. ChecksValues(t, ops, k)
  BY DEF ChecksValues
<1>4. WritesValues(t, ops, k)
  BY DEF WritesValues
<1> QED
  BY <1>1, <1>2, <1>3, <1>4 DEF CallOrdered

LEMMA TypesCall ==
  ASSUME NEW ops, NEW p, NEW k, Is(ops[k], "types", "", "REG_SZ")
  PROVE  CallOrdered("EnumerateValues", ops, p, k)
<1> DEFINE t == "EnumerateValues"
<1>1. ops[k].call = "types" /\ ops[k].type = "REG_SZ"
  BY DEF Is
<1>2. AfterWrite(ops, p, k) /\ CreatesKeys(t, ops, k)
  BY <1>1 DEF AfterWrite, CreatesKeys
<1>3. AfterAll(t, ops, p, k)
  BY <1>1 DEF AfterAll
<1>4. ChecksValues(t, ops, k)
  BY <1>1 DEF ChecksValues
<1>5. WritesValues(t, ops, k)
  BY <1>1 DEF WritesValues
<1> QED
  BY <1>2, <1>3, <1>4, <1>5 DEF CallOrdered

(* The calls one after the other. *)
LEMMA CallPlaces ==
  /\ \A k \in 1 .. 3 : \/ k = 1 /\ k - 1 = 0
                       \/ k = 2 /\ k - 1 = 1
                       \/ k = 3 /\ k - 1 = 2
  /\ \A k \in 1 .. 7 : \/ k \in 1 .. 3
                       \/ k = 4 /\ k - 1 = 3
                       \/ k = 5 /\ k - 1 = 4
                       \/ k = 6 /\ k - 1 = 5
                       \/ k = 7 /\ k - 1 = 6
  OBVIOUS

LEMMA WriteReadOrdered ==
  ASSUME NEW t, t \notin {"EnumerateKeys", "EnumerateValues"}, NEW name, NEW type
  PROVE  Ordered(t, WriteRead(name, type))
<1> DEFINE ops == WriteRead(name, type)
<1>1. /\ Len(ops) = 3 /\ Is(ops[1], "open", "", "") /\ Is(ops[2], "write", name, type)
      /\ Is(ops[3], "read", name, type)
  BY OpIs DEF WriteRead
<1> HIDE DEF ops
<1>2. CallOrdered(t, ops, 0, 1)
  <2>1. ops[1].call \in {"open", "keys", "values"}
    BY <1>1 DEF Is
  <2> QED
    BY <2>1, OtherCall
<1>3. CallOrdered(t, ops, 1, 2)
  BY <1>1, WriteCall
<1>4. CallOrdered(t, ops, 2, 3)
  <2>1. 2 \in Nat \ {0}
    OBVIOUS
  <2> QED
    BY <1>1, <2>1, AfterWriteCall
<1>5. Ordered(t, ops)
  BY <1>1, <1>2, <1>3, <1>4, CallPlaces DEF Ordered
<1> QED
  BY <1>5 DEF ops

LEMMA OpenKeyOrdered == Ordered("OpenKey", OpenKey)
<1> DEFINE ops == OpenKey
<1>1. Len(ops) = 2 /\ Is(ops[1], "open", "", "") /\ Is(ops[2], "open", "", "")
  BY OpIs DEF OpenKey
<1> HIDE DEF ops
<1>2. \A k \in 1 .. 2 : k = 1 \/ k = 2
  OBVIOUS
<1>3. \A k \in 1 .. 2 : ops[k].call \in {"open", "keys", "values"}
  BY <1>1, <1>2 DEF Is
<1>4. \A k \in 1 .. 2 : CallOrdered("OpenKey", ops, k - 1, k)
  BY <1>3, OtherCall
<1>5. Ordered("OpenKey", ops)
  BY <1>1, <1>4 DEF Ordered
<1> QED
  BY <1>5 DEF ops

LEMMA WriteDeleteOrdered == Ordered("WriteDeleteValue", WriteDeleteValue)
<1> DEFINE ops == WriteDeleteValue
           t == "WriteDeleteValue"
<1>1. /\ Len(ops) = 3 /\ Is(ops[1], "open", "", "") /\ Is(ops[2], "write", "dummy", "REG_SZ")
      /\ Is(ops[3], "delete", "dummy", "")
  BY OpIs DEF WriteDeleteValue
<1> HIDE DEF ops
<1>2. CallOrdered(t, ops, 0, 1)
  <2>1. ops[1].call \in {"open", "keys", "values"}
    BY <1>1 DEF Is
  <2> QED
    BY <2>1, OtherCall
<1>3. CallOrdered(t, ops, 1, 2)
  BY <1>1, WriteCall
<1>4. CallOrdered(t, ops, 2, 3)
  <2>1. 2 \in Nat \ {0}
    OBVIOUS
  <2> QED
    BY <1>1, <2>1, AfterWriteCall
<1>5. Ordered(t, ops)
  BY <1>1, <1>2, <1>3, <1>4, CallPlaces DEF Ordered
<1> QED
  BY <1>5 DEF ops

LEMMA CreatedAre ==
  /\ Range(Created) = {"one", "two", "three"} /\ DOMAIN Created = 1 .. 3
  /\ Created[1] = "one" /\ Created[2] = "two" /\ Created[3] = "three"
<1>1. /\ DOMAIN Created = 1 .. 3 /\ Created[1] = "one" /\ Created[2] = "two" /\ Created[3] = "three"
  BY DEF Created
<1>2. \A k \in 1 .. 3 : k = 1 \/ k = 2 \/ k = 3
  OBVIOUS
<1> QED
  BY <1>1, <1>2 DEF Range

LEMMA ThreeOfThem ==
  ASSUME NEW S, NEW f \in [1 .. 3 -> S]
  PROVE  f \in Seq(S) /\ Len(f) = 3
<1>1. f \in Seq(S)
  BY SeqDef
<1>2. Len(f) \in Nat /\ DOMAIN f = 1 .. Len(f) /\ DOMAIN f = 1 .. 3
  BY <1>1, LenProperties
<1> QED
  BY <1>1, <1>2

LEMMA Numbers ==
  /\ 1 \in Nat /\ 3 \in Nat /\ 4 \in Nat /\ 6 \in Nat /\ 7 \in Nat
  /\ 4 = 1 + 3 /\ 6 = 3 + 3 /\ 7 = 4 + 3 /\ 1 \in 1 .. 1
  /\ 1 \in 1 .. 3 /\ 2 \in 1 .. 3 /\ 3 \in 1 .. 3
  /\ 1 \in 1 .. 4 /\ 2 \in 1 .. 4 /\ 3 \in 1 .. 4 /\ 4 \in 1 .. 4
  OBVIOUS

(* A call for each of the names. *)
LEMMA CallsFor ==
  ASSUME NEW call \in {"create", "write"}, NEW type \in Types \cup {""},
         call = "write" => type \in Types
  PROVE  LET f == [i \in DOMAIN Created |-> Op(call, Created[i], type)] IN
         /\ f \in Seq(Ops) /\ Len(f) = 3 /\ Is(f[1], call, "one", type)
         /\ Is(f[2], call, "two", type) /\ Is(f[3], call, "three", type)
<1> DEFINE f == [i \in DOMAIN Created |-> Op(call, Created[i], type)]
<1>1. ASSUME NEW i \in 1 .. 3 PROVE f[i] = Op(call, Created[i], type)
  BY CreatedAre
<1>2. ASSUME NEW name \in {"one", "two", "three"} PROVE Op(call, name, type) \in Ops
  <2>1. name \in Given /\ name # ""
    BY DEF Given
  <2> QED
    BY <2>1 DEF Op, Ops, CallsOfTests
<1>3. f \in [1 .. 3 -> Ops]
  <2>1. \A i \in 1 .. 3 : Created[i] \in {"one", "two", "three"}
    BY CreatedAre DEF Range
  <2> QED
    BY <1>2, <2>1, CreatedAre
<1> HIDE DEF f
<1>4. f[1] = Op(call, "one", type) /\ f[2] = Op(call, "two", type) /\ f[3] = Op(call, "three", type)
  <2>1. f[1] = Op(call, Created[1], type) /\ f[2] = Op(call, Created[2], type)
        /\ f[3] = Op(call, Created[3], type)
    BY <1>1, Numbers
  <2> QED
    BY <2>1, CreatedAre
<1>5. f \in Seq(Ops) /\ Len(f) = 3
  BY <1>3, ThreeOfThem
<1>6. Is(f[1], call, "one", type) /\ Is(f[2], call, "two", type) /\ Is(f[3], call, "three", type)
  BY <1>4, OpIs
<1> QED
  BY <1>5, <1>6 DEF f

(* Three calls, which come behind one another.                               *)
LEMMA EachOfThree ==
  ASSUME NEW ops, NEW call, NEW type, NEW n \in {1, 2}, NEW k \in {n + 3, n + 4, n + 5},
         Is(ops[n], call, "one", type), Is(ops[n + 1], call, "two", type),
         Is(ops[n + 2], call, "three", type)
  PROVE  Each(ops, k, call)
<1>1. n \in 1 .. k - 1 /\ n + 1 \in 1 .. k - 1 /\ n + 2 \in 1 .. k - 1
  OBVIOUS
<1>2. /\ ops[n].call = call /\ ops[n].name = "one"
      /\ ops[n + 1].call = call /\ ops[n + 1].name = "two"
      /\ ops[n + 2].call = call /\ ops[n + 2].name = "three"
  BY DEF Is
<1> QED
  BY <1>1, <1>2, CreatedAre DEF Each

LEMMA EnumerateKeysOrdered == Ordered("EnumerateKeys", EnumerateKeys)
<1> DEFINE ops == EnumerateKeys
           t == "EnumerateKeys"
           first == [i \in DOMAIN Created |-> Op("create", Created[i], "")]
           rest == << Op("open", "", ""), Op("keys", "", ""), Op("compare", "", "") >>
<1>1. first \in Seq(Ops) /\ Len(first) = 3 /\ Is(first[1], "create", "one", "")
      /\ Is(first[2], "create", "two", "") /\ Is(first[3], "create", "three", "")
  BY CallsFor
<1>2. rest \in Seq(Ops)
  BY OpsAre, ShortLists
<1>3. /\ Len(rest) = 3 /\ Is(rest[1], "open", "", "") /\ Is(rest[2], "keys", "", "")
      /\ Is(rest[3], "compare", "", "")
  BY OpIs
<1>4. ops = first \o rest
  BY DEF EnumerateKeys
<1> HIDE DEF ops, first, rest
<1>5. /\ Len(ops) = 6
      /\ \A i \in 1 .. 3 : ops[i] = first[i]
      /\ \A i \in 1 .. 3 : ops[3 + i] = rest[i]
  <2>0. first \in Seq(Ops) /\ rest \in Seq(Ops)
    BY <1>1, <1>2
  <2>1. /\ first \o rest \in Seq(Ops) /\ Len(first \o rest) = Len(first) + Len(rest)
        /\ \A i \in 1 .. Len(first) : (first \o rest)[i] = first[i]
        /\ \A i \in 1 .. Len(rest) : (first \o rest)[Len(first) + i] = rest[i]
    BY <2>0, ConcatIs
  <2>2. Len(first) = 3 /\ Len(rest) = 3 /\ ops = first \o rest
    BY <1>1, <1>3, <1>4
  <2> QED
    BY <2>1, <2>2
<1>6. /\ ops[1] = first[1] /\ ops[2] = first[2] /\ ops[3] = first[3]
      /\ ops[4] = rest[1] /\ ops[5] = rest[2] /\ ops[6] = rest[3]
  <2>1. 3 + 1 = 4 /\ 3 + 2 = 5 /\ 3 + 3 = 6
    OBVIOUS
  <2> QED
    BY <1>5, <2>1, Numbers
<1>7. /\ Is(ops[1], "create", "one", "") /\ Is(ops[2], "create", "two", "")
      /\ Is(ops[3], "create", "three", "") /\ Is(ops[4], "open", "", "")
      /\ Is(ops[5], "keys", "", "") /\ Is(ops[6], "compare", "", "")
  BY <1>1, <1>3, <1>6
<1>8. CallOrdered(t, ops, 0, 1) /\ CallOrdered(t, ops, 1, 2) /\ CallOrdered(t, ops, 2, 3)
  BY <1>7, CreateCall, CreatedAre
<1>9. CallOrdered(t, ops, 3, 4) /\ CallOrdered(t, ops, 4, 5)
  <2>1. ops[4].call \in {"open", "keys", "values"} /\ ops[5].call \in {"open", "keys", "values"}
    BY <1>7 DEF Is
  <2> QED
    BY <2>1, OtherCall
<1>10. CallOrdered(t, ops, 5, 6)
  <2>1. Each(ops, 6, "create")
    <3>1. 1 + 1 = 2 /\ 1 + 2 = 3 /\ 1 + 5 = 6
      OBVIOUS
    <3> QED
      BY <1>7, <3>1, EachOfThree
  <2>2. ops[6].call = "compare" /\ ops[5].call = "keys"
    BY <1>7 DEF Is
  <2> QED
    BY <2>1, <2>2, CompareCall
<1>11. \A k \in 1 .. 6 : k \in 1 .. 7 /\ k # 7
  OBVIOUS
<1>12. Ordered(t, ops)
  BY <1>5, <1>8, <1>9, <1>10, <1>11, CallPlaces DEF Ordered
<1> QED
  BY <1>12 DEF ops

LEMMA EnumerateValuesOrdered == Ordered("EnumerateValues", EnumerateValues)
<1> DEFINE ops == EnumerateValues
           t == "EnumerateValues"
           opens == << Op("open", "", "") >>
           first == [i \in DOMAIN Created |-> Op("write", Created[i], "REG_SZ")]
           rest == << Op("values", "", ""), Op("compare", "", ""), Op("types", "", "REG_SZ") >>
           head == opens \o first
<1>1. first \in Seq(Ops) /\ Len(first) = 3 /\ Is(first[1], "write", "one", "REG_SZ")
      /\ Is(first[2], "write", "two", "REG_SZ") /\ Is(first[3], "write", "three", "REG_SZ")
  BY CallsFor DEF Types
<1>2. rest \in Seq(Ops) /\ opens \in Seq(Ops)
  BY OpsAre, ShortLists
<1>3. /\ Len(rest) = 3 /\ Is(rest[1], "values", "", "") /\ Is(rest[2], "compare", "", "")
      /\ Is(rest[3], "types", "", "REG_SZ") /\ Len(opens) = 1 /\ Is(opens[1], "open", "", "")
  BY OpIs
<1>4. ops = head \o rest
  BY DEF EnumerateValues
<1> HIDE DEF ops, first, rest, opens
<1>5. /\ head \in Seq(Ops) /\ Len(head) = 4
      /\ \A i \in 1 .. 1 : head[i] = opens[i]
      /\ \A i \in 1 .. 3 : head[1 + i] = first[i]
  <2>0. opens \in Seq(Ops) /\ first \in Seq(Ops)
    BY <1>1, <1>2
  <2>1. /\ opens \o first \in Seq(Ops) /\ Len(opens \o first) = Len(opens) + Len(first)
        /\ \A i \in 1 .. Len(opens) : (opens \o first)[i] = opens[i]
        /\ \A i \in 1 .. Len(first) : (opens \o first)[Len(opens) + i] = first[i]
    BY <2>0, ConcatIs
  <2>2. /\ head \in Seq(Ops) /\ Len(head) = Len(opens) + Len(first)
        /\ \A i \in 1 .. Len(opens) : head[i] = opens[i]
        /\ \A i \in 1 .. Len(first) : head[Len(opens) + i] = first[i]
    BY <2>1
  <2> HIDE DEF head
  <2>3. Len(opens) = 1 /\ Len(first) = 3
    BY <1>1, <1>3
  <2> QED
    BY <2>2, <2>3
<1> HIDE DEF head
<1>6. /\ Len(ops) = 7
      /\ \A i \in 1 .. 4 : ops[i] = head[i]
      /\ \A i \in 1 .. 3 : ops[4 + i] = rest[i]
  <2>0. head \in Seq(Ops) /\ rest \in Seq(Ops)
    BY <1>2, <1>5
  <2>1. /\ head \o rest \in Seq(Ops) /\ Len(head \o rest) = Len(head) + Len(rest)
        /\ \A i \in 1 .. Len(head) : (head \o rest)[i] = head[i]
        /\ \A i \in 1 .. Len(rest) : (head \o rest)[Len(head) + i] = rest[i]
    BY <2>0, ConcatIs
  <2>2. Len(head) = 4 /\ Len(rest) = 3 /\ ops = head \o rest
    BY <1>3, <1>4, <1>5
  <2> QED
    BY <2>1, <2>2
<1>7. /\ ops[1] = opens[1] /\ ops[2] = first[1] /\ ops[3] = first[2] /\ ops[4] = first[3]
      /\ ops[5] = rest[1] /\ ops[6] = rest[2] /\ ops[7] = rest[3]
  <2>1. 1 + 1 = 2 /\ 1 + 2 = 3 /\ 1 + 3 = 4 /\ 4 + 1 = 5 /\ 4 + 2 = 6 /\ 4 + 3 = 7
    OBVIOUS
  <2> QED
    BY <1>5, <1>6, <2>1, Numbers
<1>8. /\ Is(ops[1], "open", "", "") /\ Is(ops[2], "write", "one", "REG_SZ")
      /\ Is(ops[3], "write", "two", "REG_SZ") /\ Is(ops[4], "write", "three", "REG_SZ")
      /\ Is(ops[5], "values", "", "") /\ Is(ops[6], "compare", "", "")
      /\ Is(ops[7], "types", "", "REG_SZ")
  BY <1>1, <1>3, <1>7
<1>9. CallOrdered(t, ops, 1, 2) /\ CallOrdered(t, ops, 2, 3) /\ CallOrdered(t, ops, 3, 4)
  BY <1>8, WriteCall, CreatedAre
<1>10. CallOrdered(t, ops, 0, 1) /\ CallOrdered(t, ops, 4, 5)
  <2>1. ops[1].call \in {"open", "keys", "values"} /\ ops[5].call \in {"open", "keys", "values"}
    BY <1>8 DEF Is
  <2> QED
    BY <2>1, OtherCall
<1>11. CallOrdered(t, ops, 5, 6)
  <2>1. Each(ops, 6, "write")
    <3>1. 2 + 1 = 3 /\ 2 + 2 = 4 /\ 2 + 4 = 6
      OBVIOUS
    <3> QED
      BY <1>8, <3>1, EachOfThree
  <2>2. ops[6].call = "compare" /\ ops[5].call = "values"
    BY <1>8 DEF Is
  <2> QED
    BY <2>1, <2>2, CompareCall
<1>12. CallOrdered(t, ops, 6, 7)
  BY <1>8, TypesCall
<1>13. Ordered(t, ops)
  BY <1>6, <1>9, <1>10, <1>11, <1>12, CallPlaces DEF Ordered
<1> QED
  BY <1>13 DEF ops

LEMMA MethodsOrdered == \A t \in DOMAIN Methods : Ordered(t, Methods[t])
<1>1. /\ Ordered("WriteReadStringValue", WriteReadStringValue)
      /\ Ordered("WriteReadUint32Value", WriteReadUint32Value)
      /\ Ordered("WriteReadUint64Value", WriteReadUint64Value)
      /\ Ordered("WriteReadBinaryBlobValue", WriteReadBinaryBlobValue)
      /\ Ordered("WriteReadStringArrayValue", WriteReadStringArrayValue)
  BY WriteReadOrdered DEF WriteReadStringValue, WriteReadUint32Value, WriteReadUint64Value,
     WriteReadBinaryBlobValue, WriteReadStringArrayValue
<1> QED
  BY <1>1, OpenKeyOrdered, WriteDeleteOrdered, EnumerateKeysOrdered, EnumerateValuesOrdered
  DEF Methods

(* What the calls of a test have done so far. The key holds what the call    *)
(* before the next one has written, and found is what it has enumerated.     *)
Stored(op) == op.name \in DOMAIN values /\ values[op.name] = op.type
JustDone ==
  test # "none" /\ done > 0 =>
    /\ Methods[test][done].call = "write" => Stored(Methods[test][done])
    /\ Methods[test][done].call = "keys" => found = subkeys
    /\ Methods[test][done].call = "values" => found = DOMAIN values
SoFar ==
  test # "none" =>
    \A i \in 1 .. done :
      /\ Methods[test][i].call = "create" => Methods[test][i].name \in subkeys
      /\ test = "EnumerateValues" /\ Methods[test][i].call = "write" =>
           Methods[test][i].name \in DOMAIN values
KeysAreCreated ==
  /\ subkeys \subseteq Range(Created)
  /\ "subkeys" \notin spoiled => subkeys = {} /\ test # "EnumerateKeys"
OnlyValuesFail ==
  /\ verdict = "passed" => test = "none"
  /\ verdict = "failed" /\ test # "none" => test = "EnumerateValues"
(* Without a test that was killed or has created subkeys, all the values of  *)
(* the key are those that the test has written.                              *)
WrittenBefore(name, n) ==
  \E i \in 1 .. n : Is(Methods[test][i], "write", name, values[name])
FreshKey ==
  spoiled = {} =>
    /\ verdict # "failed"
    /\ test = "none" => ~keyThere
    /\ test # "none" => \A name \in DOMAIN values : WrittenBefore(name, done)
CourseInv == TestInv /\ JustDone /\ SoFar /\ KeysAreCreated /\ OnlyValuesFail /\ FreshKey

LEMMA CourseSuffices == CourseInv => FreshTestsPass
BY DEF CourseInv, TestInv, TestTypeOK, OnlyValuesFail, FreshKey, FreshTestsPass

LEMMA InitCourse == TestInit => CourseInv
<1> SUFFICES ASSUME TestInit PROVE CourseInv
  OBVIOUS
<1>1. TestInv
  BY InitTestInv
<1>2. /\ test = "none" /\ keyThere = FALSE /\ subkeys = {} /\ verdict = "passed"
  BY DEF TestInit
<1>3. JustDone /\ SoFar
  BY <1>2 DEF JustDone, SoFar
<1>4. KeysAreCreated /\ OnlyValuesFail /\ FreshKey
  BY <1>2 DEF KeysAreCreated, OnlyValuesFail, FreshKey
<1> QED
  BY <1>1, <1>3, <1>4 DEF CourseInv

LEMMA NextOrdered ==
  ASSUME TestInv, NEW call, Making(call)
  PROVE  /\ test \in DOMAIN Methods /\ test # "none" /\ verdict = "open" /\ done \in Nat
         /\ NextOp = Methods[test][done + 1] /\ NextOp.call = call
         /\ CallOrdered(test, Methods[test], done, done + 1)
<1> DEFINE n == Len(Methods[test])
<1>1. test \in DOMAIN Methods /\ done < n /\ NextOp.call = call /\ test # "none" /\ verdict = "open"
  BY DEF TestInv, TestTypeOK, Making
<1>2. n \in Nat
  BY <1>1, MethodsAreOps, LenProperties
<1>3. done \in 0 .. n
  BY <1>1 DEF TestInv, TestTypeOK
<1>4. Ordered(test, Methods[test])
  BY <1>1, MethodsOrdered
<1>5. \A k \in 1 .. n : CallOrdered(test, Methods[test], k - 1, k)
  BY <1>4 DEF Ordered
<1> HIDE DEF n
<1>6. done \in Nat /\ done + 1 \in 1 .. n /\ (done + 1) - 1 = done
  BY <1>1, <1>2, <1>3
<1>7. CallOrdered(test, Methods[test], done, done + 1)
  BY <1>5, <1>6
<1> QED
  BY <1>1, <1>6, <1>7 DEF NextOp

(* A call that does what it says. *)
LEMMA CallKeepsCourse ==
  ASSUME CourseInv, NEW call, Making(call), NEW holds \in BOOLEAN, Passed(holds),
         ~holds => test = "EnumerateValues" /\ spoiled # {},
         call = "write" => NextOp.name \in DOMAIN values' /\ values'[NextOp.name] = NextOp.type,
         call = "keys" => found' = subkeys',
         call = "values" => found' = DOMAIN values',
         subkeys \subseteq subkeys', call = "create" => NextOp.name \in subkeys',
         subkeys' \subseteq Range(Created), "subkeys" \notin spoiled => subkeys' = {},
         test = "EnumerateValues" => DOMAIN values \subseteq DOMAIN values',
         \A name \in DOMAIN values' :
           \/ name \in DOMAIN values /\ values'[name] = values[name]
           \/ Is(NextOp, "write", name, values'[name])
  PROVE  (JustDone /\ SoFar /\ KeysAreCreated /\ OnlyValuesFail /\ FreshKey)'
<1> DEFINE ops == Methods[test]
           k == done + 1
<1>1. /\ test \in DOMAIN Methods /\ test # "none" /\ verdict = "open" /\ done \in Nat
      /\ NextOp = ops[k] /\ ops[k].call = call
  BY NextOrdered DEF CourseInv
<1>2. /\ test' = test /\ done' = k /\ keyThere' = keyThere /\ spoiled' = spoiled
      /\ verdict' = IF holds THEN "open" ELSE "failed"
  BY <1>1 DEF Passed
<1>3. k \in Nat /\ k > 0 /\ \A i \in 1 .. k : i \in 1 .. done \/ i = k
  BY <1>1
<1>4. Methods[test]' = ops /\ Methods[test'][done'] = ops[k]
  BY <1>2
<1> HIDE DEF k, ops
<1>5. JustDone'
  <2>1. call = "write" => Stored(Methods[test][done])'
    <3>1. call = "write" => ops[k].name \in DOMAIN values' /\ values'[ops[k].name] = ops[k].type
      BY <1>1
    <3> QED
      BY <1>4, <3>1 DEF Stored
  <2>2. Methods[test'][done'].call = call
    BY <1>1, <1>4
  <2> QED
    BY <2>1, <2>2 DEF JustDone
<1>6. SoFar'
  <2>1. ASSUME NEW i \in 1 .. k
        PROVE  /\ ops[i].call = "create" => ops[i].name \in subkeys'
               /\ test = "EnumerateValues" /\ ops[i].call = "write" => ops[i].name \in DOMAIN values'
    <3>1. CASE i \in 1 .. done
      BY <1>1, <3>1 DEF CourseInv, SoFar, ops
    <3>2. CASE i = k
      <4>1. ops[i].call = call
        BY <1>1, <3>2
      <4>2. call = "write" => ops[i].name \in DOMAIN values'
        BY <1>1, <3>2
      <4>3. call = "create" => ops[i].name \in subkeys'
        BY <1>1, <3>2
      <4> QED
        BY <4>1, <4>2, <4>3
    <3> QED
      BY <1>3, <3>1, <3>2
  <2> QED
    BY <1>2, <1>4, <2>1 DEF SoFar
<1>7. KeysAreCreated'
  BY <1>2 DEF CourseInv, KeysAreCreated
<1>8. OnlyValuesFail'
  BY <1>2 DEF OnlyValuesFail
<1>9. FreshKey'
  <2> SUFFICES ASSUME spoiled = {}
               PROVE  verdict' # "failed" /\ \A name \in DOMAIN values' : WrittenBefore(name, done)'
    BY <1>1, <1>2 DEF FreshKey
  <2>1. verdict' # "failed"
    BY <1>2
  <2>2. ASSUME NEW name \in DOMAIN values'
        PROVE  \E i \in 1 .. k : Is(ops[i], "write", name, values'[name])
    <3>1. CASE name \in DOMAIN values /\ values'[name] = values[name]
      <4>1. PICK i \in 1 .. done : Is(ops[i], "write", name, values[name])
        BY <1>1, <3>1 DEF CourseInv, FreshKey, WrittenBefore, ops
      <4>2. i \in 1 .. k
        BY <1>1 DEF k
      <4> QED
        BY <3>1, <4>1, <4>2
    <3>2. CASE Is(NextOp, "write", name, values'[name])
      <4>1. k \in 1 .. k
        BY <1>3
      <4> QED
        BY <1>1, <3>2, <4>1
    <3> QED
      BY <3>1, <3>2
  <2> QED
    BY <1>2, <1>4, <2>1, <2>2 DEF WrittenBefore
<1> QED
  BY <1>5, <1>6, <1>7, <1>8, <1>9

(* What is written is there: a value that the test reads, or deletes, is the *)
(* one it has just written.                                                  *)
LEMMA ReadAfterWrite ==
  ASSUME CourseInv, NEW call \in {"read", "delete"}, Making(call)
  PROVE  /\ NextOp.name \in DOMAIN values
         /\ call = "read" => values[NextOp.name] = NextOp.type
<1> DEFINE prior == Methods[test][done]
           op == Methods[test][done + 1]
<1>1. /\ test # "none" /\ NextOp = op /\ op.call = call
      /\ CallOrdered(test, Methods[test], done, done + 1)
  BY NextOrdered DEF CourseInv
<1>2. /\ done > 0 /\ prior.call = "write" /\ prior.name = op.name
      /\ op.call = "read" => prior.type = op.type
  BY <1>1 DEF CallOrdered, AfterWrite
<1> HIDE DEF prior, op
<1>3. Stored(prior)
  BY <1>1, <1>2 DEF CourseInv, JustDone, prior
<1> QED
  BY <1>1, <1>2, <1>3 DEF Stored

LEMMA ComparedAfterAll ==
  ASSUME CourseInv, Making("compare")
  PROVE  found = Range(Created) \/ (test = "EnumerateValues" /\ spoiled # {})
<1> DEFINE ops == Methods[test]
           k == done + 1
<1>1. test # "none" /\ ops[k].call = "compare" /\ CallOrdered(test, ops, done, k) /\ done \in Nat
  BY NextOrdered DEF CourseInv
<1>2. /\ done > 0
      /\ \/ test = "EnumerateKeys" /\ ops[done].call = "keys" /\ Each(ops, k, "create")
         \/ test = "EnumerateValues" /\ ops[done].call = "values" /\ Each(ops, k, "write")
  BY <1>1 DEF CallOrdered, AfterAll
<1>3. k - 1 = done
  BY <1>1
<1>4. CASE test = "EnumerateKeys"
  <2>1. ops[done].call = "keys" /\ Each(ops, k, "create")
    BY <1>2, <1>4
  <2>2. found = subkeys /\ subkeys \subseteq Range(Created)
    BY <1>1, <1>2, <2>1 DEF CourseInv, JustDone, KeysAreCreated
  <2> HIDE DEF ops, k
  <2>3. ASSUME NEW name \in Range(Created) PROVE name \in subkeys
    <3>1. PICK i \in 1 .. done : ops[i].call = "create" /\ ops[i].name = name
      BY <1>3, <2>1 DEF Each
    <3> QED
      BY <1>1, <3>1 DEF CourseInv, SoFar, ops
  <2> QED
    BY <2>2, <2>3
<1>5. CASE test = "EnumerateValues" /\ spoiled = {}
  <2>1. ops[done].call = "values" /\ Each(ops, k, "write")
    BY <1>2, <1>5
  <2>2. found = DOMAIN values
    BY <1>1, <1>2, <2>1 DEF CourseInv, JustDone
  <2>3. Ordered(test, ops) /\ Len(ops) \in Nat /\ done \in 0 .. Len(ops)
    <3>1. test \in DOMAIN Methods /\ done \in 0 .. Len(ops)
      BY <1>1 DEF CourseInv, TestInv, TestTypeOK
    <3> QED
      BY <3>1, MethodsOrdered, MethodsAreOps, LenProperties
  <2> HIDE DEF ops, k
  <2>4. ASSUME NEW name \in Range(Created) PROVE name \in DOMAIN values
    <3>1. PICK i \in 1 .. done : ops[i].call = "write" /\ ops[i].name = name
      BY <1>3, <2>1 DEF Each
    <3> QED
      BY <1>1, <1>5, <3>1 DEF CourseInv, SoFar, ops
  <2>5. ASSUME NEW name \in DOMAIN values PROVE name \in Range(Created)
    <3>1. PICK i \in 1 .. done : Is(ops[i], "write", name, values[name])
      BY <1>1, <1>5 DEF CourseInv, FreshKey, WrittenBefore, ops
    <3>2. i \in 1 .. Len(ops)
      BY <1>1, <2>3
    <3>3. WritesValues(test, ops, i)
      BY <2>3, <3>2 DEF Ordered, CallOrdered
    <3> QED
      BY <1>5, <3>1, <3>3 DEF WritesValues, Is
  <2> QED
    BY <2>2, <2>4, <2>5
<1> QED
  BY <1>2, <1>4, <1>5

LEMMA TypesAreChecked ==
  ASSUME CourseInv, Making("types")
  PROVE  /\ test = "EnumerateValues"
         /\ spoiled = {} => Range(values) \subseteq {NextOp.type}
<1> DEFINE ops == Methods[test]
           k == done + 1
<1>1. /\ test # "none" /\ ops[k].call = "types" /\ CallOrdered(test, ops, done, k) /\ done \in Nat
      /\ NextOp = ops[k]
  BY NextOrdered DEF CourseInv
<1>2. test = "EnumerateValues" /\ ops[k].type = "REG_SZ"
  BY <1>1 DEF CallOrdered, ChecksValues
<1>3. Ordered(test, ops) /\ Len(ops) \in Nat /\ done \in 0 .. Len(ops)
  <2>1. test \in DOMAIN Methods /\ done \in 0 .. Len(ops)
    BY <1>1 DEF CourseInv, TestInv, TestTypeOK
  <2> QED
    BY <2>1, MethodsOrdered, MethodsAreOps, LenProperties
<1> HIDE DEF ops, k
<1>4. ASSUME spoiled = {}, NEW name \in DOMAIN values PROVE values[name] = "REG_SZ"
  <2>1. PICK i \in 1 .. done : Is(ops[i], "write", name, values[name])
    BY <1>1, <1>4 DEF CourseInv, FreshKey, WrittenBefore, ops
  <2>2. i \in 1 .. Len(ops)
    BY <1>1, <1>3
  <2>3. WritesValues(test, ops, i)
    BY <1>3, <2>2 DEF Ordered, CallOrdered
  <2> QED
    BY <1>2, <2>1, <2>3 DEF WritesValues, Is
<1> QED
  BY <1>1, <1>2, <1>4 DEF Range

(* A call that leaves the key as it is. *)
LEMMA LookingKeepsCourse ==
  ASSUME CourseInv, NEW call \in {"open", "read", "compare", "types"}, Making(call),
         NEW holds \in BOOLEAN, Passed(holds),
         ~holds => test = "EnumerateValues" /\ spoiled # {},
         UNCHANGED <<values, subkeys, found>>
  PROVE  (JustDone /\ SoFar /\ KeysAreCreated /\ OnlyValuesFail /\ FreshKey)'
<1>1. call # "write" /\ call # "keys" /\ call # "values" /\ call # "create"
  OBVIOUS
<1>2. values' = values /\ subkeys' = subkeys /\ found' = found
  OBVIOUS
<1>3. subkeys' \subseteq Range(Created) /\ ("subkeys" \notin spoiled => subkeys' = {})
  BY <1>2 DEF CourseInv, KeysAreCreated
<1>4. \A name \in DOMAIN values' :
        \/ name \in DOMAIN values /\ values'[name] = values[name]
        \/ Is(NextOp, "write", name, values'[name])
  BY <1>2
<1>5. test = "EnumerateValues" => DOMAIN values \subseteq DOMAIN values'
  BY <1>2
<1>6. subkeys \subseteq subkeys'
  BY <1>2
<1> QED
  BY <1>1, <1>3, <1>4, <1>5, <1>6, CallKeepsCourse

LEMMA CourseStep == CourseInv /\ [TestNext]_testVars => CourseInv'
<1> SUFFICES ASSUME CourseInv, [TestNext]_testVars PROVE CourseInv'
  OBVIOUS
<1> DEFINE Course == JustDone /\ SoFar /\ KeysAreCreated /\ OnlyValuesFail /\ FreshKey
<1> SUFFICES Course'
  BY TestStepInv DEF CourseInv
<1>1. TestInv /\ keyThere \in BOOLEAN /\ (test # "none" => keyThere)
  BY DEF CourseInv, TestInv, TestTypeOK
<1>2. ASSUME NEW t \in DOMAIN Methods, Initialize(t) PROVE Course'
  <2>1. /\ test = "none" /\ test' = t /\ done' = 0 /\ verdict' = "open"
        /\ values' = values /\ subkeys' = subkeys
        /\ spoiled' = IF t = "EnumerateKeys" THEN spoiled \cup {"subkeys"} ELSE spoiled
    BY <1>2 DEF Initialize
  <2>2. JustDone' /\ SoFar'
    BY <2>1 DEF JustDone, SoFar
  <2>3. KeysAreCreated' /\ OnlyValuesFail'
    BY <2>1 DEF CourseInv, KeysAreCreated, OnlyValuesFail
  <2>4. FreshKey'
    <3> SUFFICES ASSUME spoiled' = {} PROVE values' = <<>>
      <4>1. t # "none" /\ keyThere' = TRUE /\ DOMAIN <<>> = {}
        BY <1>2 DEF Methods, Initialize
      <4> QED
        BY <2>1, <4>1 DEF FreshKey
    <3>1. spoiled = {}
      BY <2>1
    <3>2. ~keyThere
      BY <2>1, <3>1 DEF CourseInv, FreshKey
    <3> QED
      BY <1>1, <2>1, <3>2 DEF TestInv, TestTypeOK
  <2> QED
    BY <2>2, <2>3, <2>4
<1>3. CASE Open
  <2>1. Making("open") /\ Passed(keyThere) /\ UNCHANGED <<values, subkeys, found>>
    BY <1>3 DEF Open
  <2> QED
    BY <1>1, <2>1, NextOrdered, LookingKeepsCourse
<1>4. CASE WriteValue
  <2>1. /\ Making("write") /\ Passed(TRUE) /\ UNCHANGED <<subkeys, found>>
        /\ values' = [name \in DOMAIN values \cup {NextOp.name} |->
                      IF name = NextOp.name THEN NextOp.type ELSE values[name]]
    BY <1>4 DEF WriteValue
  <2>2. NextOp.call = "write"
    BY <2>1, <1>1, NextOrdered
  <2>3. /\ NextOp.name \in DOMAIN values' /\ values'[NextOp.name] = NextOp.type
        /\ DOMAIN values \subseteq DOMAIN values'
    BY <2>1
  <2>4. \A name \in DOMAIN values' :
          \/ name \in DOMAIN values /\ values'[name] = values[name]
          \/ Is(NextOp, "write", name, values'[name])
    BY <2>1, <2>2 DEF Is
  <2> QED
    <3>1. /\ subkeys' = subkeys /\ subkeys' \subseteq Range(Created)
          /\ "subkeys" \notin spoiled => subkeys' = {}
      BY <2>1 DEF CourseInv, KeysAreCreated
    <3> DEFINE call == "write"
    <3>2. Making(call) /\ Passed(TRUE) /\ call # "keys" /\ call # "values" /\ call # "create"
      BY <2>1
    <3> HIDE DEF call
    <3> QED
      BY <2>3, <2>4, <3>1, <3>2, CallKeepsCourse
<1>5. CASE ReadValue
  <2>1. /\ Making("read") /\ UNCHANGED <<values, subkeys, found>>
        /\ Passed(NextOp.name \in DOMAIN values /\ values[NextOp.name] = NextOp.type)
    BY <1>5 DEF ReadValue
  <2>2. NextOp.name \in DOMAIN values /\ values[NextOp.name] = NextOp.type
    BY <2>1, ReadAfterWrite
  <2>3. Passed(TRUE)
    BY <2>1, <2>2 DEF Passed
  <2> QED
    BY <2>1, <2>3, LookingKeepsCourse
<1>6. CASE DeleteValue
  <2>1. /\ Making("delete") /\ Passed(NextOp.name \in DOMAIN values)
        /\ values' = Restrict(values, DOMAIN values \ {NextOp.name}) /\ UNCHANGED <<subkeys, found>>
    BY <1>6 DEF DeleteValue
  <2>2. Passed(TRUE)
    BY <2>1, ReadAfterWrite DEF Passed
  <2>3. test # "EnumerateValues"
    <3>1. NextOp = Methods[test][done + 1] /\ NextOp.call = "delete"
          /\ CallOrdered(test, Methods[test], done, done + 1)
      BY <1>1, <2>1, NextOrdered
    <3> QED
      BY <3>1 DEF CallOrdered, WritesValues
  <2>4. \A name \in DOMAIN values' : name \in DOMAIN values /\ values'[name] = values[name]
    BY <2>1 DEF Restrict
  <2> QED
    <3>1. /\ subkeys' = subkeys /\ subkeys' \subseteq Range(Created)
          /\ "subkeys" \notin spoiled => subkeys' = {}
      BY <2>1 DEF CourseInv, KeysAreCreated
    <3> DEFINE call == "delete"
    <3>2. /\ Making(call) /\ Passed(TRUE)
          /\ call # "write" /\ call # "keys" /\ call # "values" /\ call # "create"
      BY <2>1, <2>2
    <3> HIDE DEF call
    <3> QED
      BY <2>3, <2>4, <3>1, <3>2, CallKeepsCourse
<1>7. CASE CreateSubkey
  <2>1. /\ Making("create") /\ Passed(TRUE) /\ subkeys' = subkeys \cup {NextOp.name}
        /\ UNCHANGED <<values, found>>
    BY <1>7 DEF CreateSubkey
  <2>2. test = "EnumerateKeys" /\ NextOp.name \in Range(Created)
    <3>1. NextOp = Methods[test][done + 1] /\ NextOp.call = "create"
          /\ CallOrdered(test, Methods[test], done, done + 1)
      BY <1>1, <2>1, NextOrdered
    <3> QED
      BY <3>1 DEF CallOrdered, CreatesKeys
  <2>3. "subkeys" \in spoiled /\ subkeys \subseteq Range(Created)
    BY <2>2 DEF CourseInv, KeysAreCreated
  <2> QED
    <3>1. /\ subkeys \subseteq subkeys' /\ subkeys' \subseteq Range(Created)
          /\ "subkeys" \notin spoiled => subkeys' = {}
          /\ NextOp.name \in subkeys'
      BY <2>1, <2>2, <2>3
    <3> DEFINE call == "create"
    <3>2. Making(call) /\ Passed(TRUE) /\ call # "write" /\ call # "keys" /\ call # "values"
      BY <2>1
    <3> HIDE DEF call
    <3>3. values' = values
      BY <2>1
    <3>4. \A name \in DOMAIN values' :
            \/ name \in DOMAIN values /\ values'[name] = values[name]
            \/ Is(NextOp, "write", name, values'[name])
      BY <3>3
    <3>5. test = "EnumerateValues" => DOMAIN values \subseteq DOMAIN values'
      BY <3>3
    <3> QED
      BY <3>1, <3>2, <3>4, <3>5, CallKeepsCourse
<1>8. CASE Enumerated
  <2>1. PICK call \in {"keys", "values"} : Making(call)
    BY <1>8 DEF Enumerated
  <2>2. NextOp.call = call
    BY <1>1, <2>1, NextOrdered
  <2>3. /\ Passed(TRUE) /\ UNCHANGED <<values, subkeys>>
        /\ call = "keys" => found' = subkeys'
        /\ call = "values" => found' = DOMAIN values'
    BY <1>8, <2>1, <2>2 DEF Enumerated
  <2> QED
    <3>1. /\ subkeys' = subkeys /\ subkeys' \subseteq Range(Created)
          /\ "subkeys" \notin spoiled => subkeys' = {}
      BY <2>3 DEF CourseInv, KeysAreCreated
    <3>2. call # "write" /\ call # "create"
      BY <2>1
    <3>3. values' = values
      BY <2>3
    <3>4. \A name \in DOMAIN values' :
            \/ name \in DOMAIN values /\ values'[name] = values[name]
            \/ Is(NextOp, "write", name, values'[name])
      BY <3>3
    <3>5. test = "EnumerateValues" => DOMAIN values \subseteq DOMAIN values'
      BY <3>3
    <3> QED
      BY <2>1, <2>3, <3>1, <3>2, <3>4, <3>5, CallKeepsCourse
<1>9. CASE Compare
  <2>1. /\ Making("compare") /\ Passed(found = Range(Created))
        /\ UNCHANGED <<values, subkeys, found>>
    BY <1>9 DEF Compare
  <2>2. found = Range(Created) \/ (test = "EnumerateValues" /\ spoiled # {})
    BY <2>1, ComparedAfterAll
  <2> QED
    BY <2>1, <2>2, LookingKeepsCourse
<1>10. CASE CompareTypes
  <2>1. /\ Making("types") /\ Passed(Range(values) \subseteq {NextOp.type})
        /\ UNCHANGED <<values, subkeys, found>>
    BY <1>10 DEF CompareTypes
  <2>2. Range(values) \subseteq {NextOp.type} \/ (test = "EnumerateValues" /\ spoiled # {})
    BY <2>1, TypesAreChecked
  <2> QED
    BY <2>1, <2>2, LookingKeepsCourse
<1>11. CASE Cleanup
  <2>1. test' = "none" /\ subkeys' = subkeys /\ spoiled' = spoiled /\ test # "none"
    BY <1>11 DEF Cleanup
  <2>2. JustDone' /\ SoFar' /\ OnlyValuesFail'
    BY <2>1 DEF JustDone, SoFar, OnlyValuesFail
  <2>3. KeysAreCreated'
    BY <2>1 DEF CourseInv, KeysAreCreated
  <2>4. FreshKey'
    <3> SUFFICES ASSUME spoiled = {} PROVE verdict' # "failed" /\ ~keyThere'
      BY <2>1 DEF FreshKey
    <3>1. subkeys = {} /\ verdict # "failed"
      BY DEF CourseInv, KeysAreCreated, FreshKey
    <3> QED
      BY <1>11, <3>1 DEF Cleanup, KeyDeleted
  <2> QED
    BY <2>2, <2>3, <2>4
<1>12. CASE Killed
  <2>1. test' = "none" /\ verdict' = "passed" /\ subkeys' = subkeys
        /\ spoiled' = spoiled \cup {"killed"}
    BY <1>12 DEF Killed
  <2>2. JustDone' /\ SoFar' /\ OnlyValuesFail' /\ FreshKey'
    BY <2>1 DEF JustDone, SoFar, OnlyValuesFail, FreshKey
  <2>3. KeysAreCreated'
    BY <2>1 DEF CourseInv, KeysAreCreated
  <2> QED
    BY <2>2, <2>3
<1>13. CASE UNCHANGED testVars
  <2>1. /\ test' = test /\ done' = done /\ keyThere' = keyThere /\ values' = values
        /\ subkeys' = subkeys /\ found' = found /\ verdict' = verdict /\ spoiled' = spoiled
    BY <1>13 DEF testVars
  <2>2. JustDone' /\ SoFar'
    BY <2>1 DEF CourseInv, JustDone, SoFar, Stored
  <2>3. KeysAreCreated' /\ OnlyValuesFail' /\ FreshKey'
    BY <2>1 DEF CourseInv, KeysAreCreated, OnlyValuesFail, FreshKey, WrittenBefore
  <2> QED
    BY <2>2, <2>3
<1> QED
  BY <1>2, <1>3, <1>4, <1>5, <1>6, <1>7, <1>8, <1>9, <1>10, <1>11, <1>12, <1>13 DEF TestNext

(* FreshTestsPass of every reachable state: in whatever order the tests run, *)
(* and however often, each passes and leaves no key, as long as none is      *)
(* killed and EnumerateKeys is not among them; and no other test than        *)
(* EnumerateValues ever fails before its clean-up.                           *)
THEOREM TestsPassInAnyOrder == TestSpec => []FreshTestsPass
BY InitCourse, CourseStep, CourseSuffices, PTL DEF TestSpec

-----------------------------------------------------------------------------
(* The program that uses one of the parts.                                   *)

LEMMA LibraryStepIs ==
  [LibraryNext]_libraryVars =>
    /\ [Next]_vars /\ [ComposerNext]_composerVars
    /\ [ScopeNext]_scopeVars /\ [DirectoryNext]_directoryVars
    /\ [ConversionNext]_conversion /\ [TestNext]_testVars /\ UNCHANGED uses
BY DEF LibraryNext, libraryVars, WalkStep, ConversionStep, BufferStep, ScopeStep,
       DirectoryStep, TestStep

(* What a program does with one part of the library is what that part        *)
(* specifies: it implements the specification of each of them.               *)
THEOREM LibraryImplementsParts ==
  LibrarySpec =>
    /\ Init /\ [][Next]_vars /\ ConversionSpec /\ ComposerSpec
    /\ ScopeSpec /\ DirectorySpec /\ TestSpec
<1>1. LibraryInit =>
        Init /\ ConversionInit /\ ComposerInit /\ ScopeInit /\ DirectoryInit /\ TestInit
  BY DEF LibraryInit
<1> QED
  BY <1>1, LibraryStepIs, PTL
  DEF LibrarySpec, ConversionSpec, ComposerSpec, ScopeSpec, DirectorySpec, TestSpec

(* So the walks of a program miss and invent nothing, and their end is       *)
(* final.                                                                    *)
THEOREM LibraryWalks ==
  LibrarySpec => [](TypeOK /\ NothingMissed /\ NothingInvented) /\ EndIsFinal
<1>1. [Next]_vars => [step = "end" /\ step' = "end" => returned' = returned]_vars
  BY EndStaysStep
<1>2. LibrarySpec => []WalkInv
  BY LibraryImplementsParts, InitWalkInv, WalkStepInv, PTL
<1>3. LibrarySpec => EndIsFinal
  BY <1>1, LibraryImplementsParts, PTL DEF EndIsFinal
<1> QED
  BY <1>2, <1>3, WalkInvSuffices, PTL

(* Its buffers are whole and owned once, its scopes leave nothing open, the  *)
(* directories it makes are there, what it converts is found again, and its  *)
(* tests pass.                                                               *)
THEOREM LibraryKeepsItsPromises ==
  LibrarySpec => [](/\ PartsKept /\ OneOwner /\ NothingLeftOpen /\ MkdirExists
                    /\ AddressesAgree /\ PartsSurvive /\ TextSurvives /\ NothingUnaccounted
                    /\ FreshTestsPass)
BY LibraryImplementsParts, CompositionsKeepParts, BlocksHaveOneOwner, ScopesLeaveNothing,
   MkdirIsTrue, AddressesAreShown, PartsAreFoundAgain, TextIsConvertedBack, CallsAccountForAll,
   TestsPassInAnyOrder, PTL

(* LibraryTypeOK of every reachable state: every variable of every part has  *)
(* its type, whichever part the program uses.                                *)
THEOREM LibraryIsTyped == LibrarySpec => []LibraryTypeOK
<1>1. uses \in Parts /\ [LibraryNext]_libraryVars => (uses \in Parts)'
  BY LibraryStepIs
<1>2. LibraryInit => uses \in Parts
  BY DEF LibraryInit
<1>3. LibrarySpec => [](uses \in Parts)
  BY <1>1, <1>2, PTL DEF LibrarySpec
<1>4. LibrarySpec => []TypeOK
  BY LibraryWalks, PTL
<1> QED
  BY <1>3, <1>4, LibraryImplementsParts, ConversionsAreTyped, ComposersAreTyped, ScopesAreTyped,
     DirectoriesAreTyped, TestsAreTyped, PTL
  DEF LibraryTypeOK

=============================================================================
