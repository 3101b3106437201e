----------------------------- MODULE SplitProofs -----------------------------
(***************************************************************************)
(* Theorems about splitting a PDF, for page lists and documents of any     *)
(* size.  Sorting and %d are recursive or by choice, so the proofs begin   *)
(* with what makes such definitions well-founded: the least number of a    *)
(* set, and the ranks of a finite strict order.                            *)
(***************************************************************************)
EXTENDS PageRanges, SequenceTheorems, FiniteSetTheorems, FunctionTheorems,
        WellFoundedInduction, NaturalsInduction, TLAPS

-----------------------------------------------------------------------------
(* Numbers, finite sets and their orders. *)

\* Of the numbers of a set there is a least.
LEMMA LeastNumber ==
  ASSUME NEW S \in SUBSET Nat, S # {}
  PROVE  \E m \in S : \A n \in S : m <= n
<1> DEFINE R == {p \in Nat \X Nat : p[1] < p[2]}
<1>1. IsWellFoundedOn(R, Nat)
  BY NatLessThanWellFounded DEF OpToRel
<1>2. \A x, y \in Nat : x < y => <<x, y>> \in R
  OBVIOUS
<1> HIDE DEF R
<1>3. PICK m \in S : \A n \in S : <<n, m>> \notin R
  BY <1>1, WFMin
<1>4. ASSUME NEW n \in S PROVE m <= n
  <2>1. m \in Nat /\ n \in Nat
    OBVIOUS
  <2>2. ~(n < m)
    BY <1>2, <1>3, <2>1
  <2> QED
    BY <2>1, <2>2
<1> QED
  BY <1>4

\* Induction over the numbers, for a set instead of a predicate.
LEMMA AllNumbers ==
  ASSUME NEW S, 0 \in S, \A n \in Nat : n \in S => n + 1 \in S
  PROVE  \A n \in Nat : n \in S
<1> DEFINE T == {n \in Nat : n \notin S}
<1> SUFFICES ASSUME T # {} PROVE FALSE
  OBVIOUS
<1>1. PICK m \in T : \A n \in T : m <= n
  BY LeastNumber
<1>2. m - 1 \in Nat /\ m - 1 + 1 = m
  OBVIOUS
<1>3. m - 1 \notin T
  BY <1>1, <1>2
<1> QED
  BY <1>2, <1>3

LEMMA StrictSubset ==
  ASSUME NEW T, IsFiniteSet(T), NEW U \in SUBSET T, U # T
  PROVE  /\ IsFiniteSet(U) /\ Cardinality(U) \in Nat /\ Cardinality(T) \in Nat
         /\ Cardinality(U) < Cardinality(T)
BY FS_Subset, FS_CardinalityType

LEMMA UpTo ==
  ASSUME NEW n \in Nat
  PROVE  IsFiniteSet(1 .. n) /\ Cardinality(1 .. n) = n
BY FS_Interval

\* In a strict total order of a finite set the elements have 0, 1, 2, ... before them.
Below(S, R, x) == {y \in S : <<y, x>> \in R}
Rank(S, R, x) == Cardinality(Below(S, R, x)) + 1

LEMMA Ranks ==
  ASSUME NEW S, IsFiniteSet(S), NEW R,
         \A x \in S : <<x, x>> \notin R,
         \A x, y, z \in S : <<x, y>> \in R /\ <<y, z>> \in R => <<x, z>> \in R,
         \A x, y \in S : x = y \/ <<x, y>> \in R \/ <<y, x>> \in R
  PROVE  /\ \A x \in S : Rank(S, R, x) \in 1 .. Cardinality(S)
         /\ \A x, y \in S : <<x, y>> \in R => Rank(S, R, x) < Rank(S, R, y)
         /\ \A k \in 1 .. Cardinality(S) : \E x \in S : Rank(S, R, x) = k
<1> DEFINE n == Cardinality(S)
           r == [x \in S |-> Cardinality(Below(S, R, x)) + 1]
<1>1. n \in Nat
  BY FS_CardinalityType
<1>2. \A x \in S : r[x] \in 1 .. n
  <2> TAKE x \in S
  <2>1. Below(S, R, x) \in SUBSET S /\ x \notin Below(S, R, x)
    BY DEF Below
  <2> QED
    BY <2>1, StrictSubset
<1>3. \A x, y \in S : <<x, y>> \in R => r[x] < r[y]
  <2> SUFFICES ASSUME NEW x \in S, NEW y \in S, <<x, y>> \in R PROVE r[x] < r[y]
    OBVIOUS
  <2>1. Below(S, R, x) \in SUBSET Below(S, R, y) /\ x \in Below(S, R, y) /\ x \notin Below(S, R, x)
    BY DEF Below
  <2>2. IsFiniteSet(Below(S, R, y))
    BY FS_Subset DEF Below
  <2> QED
    BY <2>1, <2>2, StrictSubset
<1>4. r \in Injection(S, 1 .. n)
  <2>1. r \in [S -> 1 .. n]
    BY <1>2
  <2>2. ASSUME NEW x \in S, NEW y \in S, r[x] = r[y] PROVE x = y
    <3>1. r[x] \in 1 .. n /\ r[y] \in 1 .. n
      BY <1>2
    <3>2. ~(r[x] < r[y]) /\ ~(r[y] < r[x])
      BY <1>1, <2>2, <3>1
    <3> QED
      BY <1>3, <3>2
  <2> HIDE DEF r
  <2> QED
    BY <2>1, <2>2, Fun_IsInj
<1>5. IsFiniteSet(1 .. n) /\ Cardinality(1 .. n) = n
  BY Zenon, <1>1, UpTo
<1>6. r \in Surjection(S, 1 .. n)
  <2> HIDE DEF r
  <2> QED
    BY <1>4, <1>5, FS_Injection
<1>7. \A k \in 1 .. n : \E x \in S : r[x] = k
  BY <1>6 DEF Surjection
<1>8. \A x \in S : r[x] = Rank(S, R, x)
  BY DEF Rank
<1> HIDE DEF r
<1> QED
  BY <1>2, <1>3, <1>7, <1>8

\* An enumeration of a finite set (SetToSeqs) has each element once.
LEMMA Enumerates ==
  ASSUME NEW S, IsFiniteSet(S), NEW s \in SetToSeqs(S)
  PROVE  /\ s \in Seq(S) /\ Len(s) = Cardinality(S) /\ Range(s) = S /\ DOMAIN s = 1 .. Len(s)
         /\ \A i, j \in DOMAIN s : i # j => s[i] # s[j]
<1> DEFINE n == Cardinality(S)
<1>1. n \in Nat
  BY FS_CardinalityType
<1>2. s \in [1 .. n -> S] /\ \A i, j \in 1 .. n : i # j => s[i] # s[j]
  BY DEF SetToSeqs
<1>3. s \in Injection(1 .. n, S)
  BY <1>2, Fun_IsInj
<1>4. IsFiniteSet(1 .. n) /\ Cardinality(1 .. n) = n
  BY Zenon, <1>1, UpTo
<1>5. s \in Surjection(1 .. n, S)
  BY <1>3, <1>4, FS_Injection
<1>6. \A x \in S : \E i \in 1 .. n : s[i] = x
  BY <1>5 DEF Surjection
<1>7. Range(s) = S
  BY <1>2, <1>6 DEF Range
<1>8. s \in Seq(S) /\ Len(s) = n /\ DOMAIN s = 1 .. n
  BY <1>1, <1>2
<1> QED
  BY <1>2, <1>7, <1>8

-----------------------------------------------------------------------------
(* The order of names. *)

\* A name is two lists of digits.
List == Seq(Nat)

LEMMA PrefixIs ==
  ASSUME NEW a \in List, NEW b \in List
  PROVE  IsStrictPrefix(a, b) <=> Len(a) < Len(b) /\ \A j \in 1 .. Len(a) : a[j] = b[j]
<1> DEFINE n == Len(a)
<1>1. n \in Nat /\ Len(b) \in Nat
  BY DEF List
<1>2. SubSeq(a, 1, n) = a
  BY SubSeqFull DEF List
<1>3. CASE n <= Len(b)
  <2>1. \A j \in 1 .. n : b[j] \in Nat
    BY <1>1, <1>3 DEF List
  <2>2. /\ SubSeq(b, 1, n) \in Seq(Nat) /\ Len(SubSeq(b, 1, n)) = n
        /\ \A j \in 1 .. n : SubSeq(b, 1, n)[j] = b[j]
    <3>1. /\ SubSeq(b, 1, n) \in Seq(Nat)
          /\ Len(SubSeq(b, 1, n)) = IF 1 <= n THEN n - 1 + 1 ELSE 0
          /\ \A j \in 1 .. n - 1 + 1 : SubSeq(b, 1, n)[j] = b[1 + j - 1]
      BY <1>1, <2>1, SubSeqProperties
    <3>2. n - 1 + 1 = n /\ \A j \in 1 .. n : 1 + j - 1 = j
      BY <1>1
    <3> QED
      BY <1>1, <3>1, <3>2
  <2>3. IsPrefix(a, b) <=> \A j \in 1 .. n : a[j] = b[j]
    <3>1. IsPrefix(a, b) <=> a = SubSeq(b, 1, n)
      BY <1>2, <1>3 DEF IsPrefix
    <3>2. (\A j \in 1 .. n : a[j] = b[j]) => a = SubSeq(b, 1, n)
      BY <2>2, SeqEqual DEF List
    <3> QED
      BY <2>2, <3>1, <3>2
  <2>4. Len(a) = Len(b) /\ (\A j \in 1 .. n : a[j] = b[j]) => a = b
    BY SeqEqual DEF List
  <2> QED
    BY <1>1, <1>3, <2>3, <2>4 DEF IsStrictPrefix
<1>4. CASE n > Len(b)
  BY <1>1, <1>4 DEF IsStrictPrefix, IsPrefix
<1> QED
  BY <1>1, <1>3, <1>4

\* The first place where two lists differ: a has ended there, or is smaller.
FirstAt(a, b, i) ==
  /\ i \in 1 .. Len(b) /\ i <= Len(a) + 1
  /\ \A j \in 1 .. i - 1 : a[j] = b[j]
  /\ i <= Len(a) => a[i] < b[i]

LEMMA BeforeIs ==
  ASSUME NEW a \in List, NEW b \in List
  PROVE  Before(a, b) <=> \E i \in Nat : FirstAt(a, b, i)
<1>1. Len(a) \in Nat /\ Len(b) \in Nat /\ DOMAIN a = 1 .. Len(a) /\ DOMAIN b = 1 .. Len(b)
  BY DEF List
<1>2. ASSUME IsStrictPrefix(a, b) PROVE \E i \in Nat : FirstAt(a, b, i)
  <2>1. FirstAt(a, b, Len(a) + 1)
    BY <1>1, <1>2, PrefixIs DEF FirstAt
  <2> QED
    BY <1>1, <2>1
<1>3. ASSUME NEW i \in DOMAIN a \cap DOMAIN b, a[i] < b[i], \A j \in 1 .. i - 1 : a[j] = b[j]
      PROVE  \E k \in Nat : FirstAt(a, b, k)
  <2>1. FirstAt(a, b, i) /\ i \in Nat
    BY <1>1, <1>3 DEF FirstAt
  <2> QED
    BY <2>1
<1>4. ASSUME NEW i \in Nat, FirstAt(a, b, i) PROVE Before(a, b)
  <2>1. CASE i <= Len(a)
    <3>1. i \in DOMAIN a \cap DOMAIN b /\ a[i] < b[i] /\ \A j \in 1 .. i - 1 : a[j] = b[j]
      BY <1>1, <1>4, <2>1 DEF FirstAt
    <3> QED
      BY <3>1 DEF Before
  <2>2. CASE i > Len(a)
    <3>1. i = Len(a) + 1 /\ Len(a) < Len(b) /\ \A j \in 1 .. Len(a) : a[j] = b[j]
      BY <1>1, <1>4, <2>2 DEF FirstAt
    <3> QED
      BY <3>1, PrefixIs DEF Before
  <2> QED
    BY <1>1, <2>1, <2>2
<1> QED
  BY <1>2, <1>3, <1>4 DEF Before

LEMMA BeforeOrder ==
  /\ \A a \in List : ~Before(a, a)
  /\ \A a, b, c \in List : Before(a, b) /\ Before(b, c) => Before(a, c)
  /\ \A a, b \in List : a = b \/ Before(a, b) \/ Before(b, a)
<1>1. \A a \in List : \A i \in 1 .. Len(a) : a[i] \in Nat
  BY DEF List
<1>2. \A a \in List : Len(a) \in Nat
  BY DEF List
<1>3. ASSUME NEW a \in List, Before(a, a) PROVE FALSE
  <2>1. PICK i \in Nat : FirstAt(a, a, i)
    BY <1>3, BeforeIs
  <2>2. i \in 1 .. Len(a) /\ i <= Len(a) /\ a[i] < a[i]
    BY <2>1, <1>2 DEF FirstAt
  <2> QED
    BY <1>1, <2>2
<1>4. ASSUME NEW a \in List, NEW b \in List, NEW c \in List, Before(a, b), Before(b, c)
      PROVE  Before(a, c)
  <2>1. PICK i \in Nat : FirstAt(a, b, i)
    BY <1>4, BeforeIs
  <2>2. PICK k \in Nat : FirstAt(b, c, k)
    BY <1>4, BeforeIs
  <2>3. Len(a) \in Nat /\ Len(b) \in Nat /\ Len(c) \in Nat
    BY <1>2
  <2>4. CASE i <= k
    <3>1. i \in 1 .. Len(c) /\ i <= Len(a) + 1
      BY <2>1, <2>2, <2>3, <2>4 DEF FirstAt
    <3>2. \A j \in 1 .. i - 1 : a[j] = c[j]
      BY <2>1, <2>2, <2>3, <2>4 DEF FirstAt
    <3>3. ASSUME i <= Len(a) PROVE a[i] < c[i]
      <4>1. a[i] < b[i] /\ i <= Len(b) /\ i \in 1 .. Len(a) /\ i \in 1 .. Len(b)
        BY <2>1, <2>3, <3>3 DEF FirstAt
      <4>2. b[i] = c[i] \/ b[i] < c[i]
        BY <2>2, <2>3, <2>4, <4>1 DEF FirstAt
      <4> QED
        BY <1>1, <3>1, <4>1, <4>2
    <3> QED
      BY <3>1, <3>2, <3>3, BeforeIs DEF FirstAt
  <2>5. CASE k < i
    <3>1. k \in 1 .. Len(c) /\ k <= Len(a) /\ k <= Len(b)
      BY <2>1, <2>2, <2>3, <2>5 DEF FirstAt
    <3>2. \A j \in 1 .. k - 1 : a[j] = c[j]
      BY <2>1, <2>2, <2>3, <2>5 DEF FirstAt
    <3>3. a[k] = b[k] /\ b[k] < c[k]
      BY <2>1, <2>2, <2>3, <2>5, <3>1 DEF FirstAt
    <3> QED
      BY <3>1, <3>2, <3>3, BeforeIs DEF FirstAt
  <2> QED
    BY <2>4, <2>5
<1>5. ASSUME NEW a \in List, NEW b \in List, a # b PROVE Before(a, b) \/ Before(b, a)
  <2> DEFINE W == {i \in Nat : i >= 1 /\ (i > Len(a) \/ i > Len(b) \/ a[i] # b[i])}
  <2>1. Len(a) \in Nat /\ Len(b) \in Nat
    BY <1>2
  <2>2. Len(a) + 1 \in W
    BY <2>1
  <2>3. PICK m \in W : \A i \in W : m <= i
    BY <2>2, LeastNumber
  <2>4. \A j \in 1 .. m - 1 : j <= Len(a) /\ j <= Len(b) /\ a[j] = b[j]
    <3> TAKE j \in 1 .. m - 1
    <3>1. j \in Nat /\ j >= 1 /\ ~(m <= j)
      OBVIOUS
    <3> QED
      BY <2>3, <3>1
  <2>5. m <= Len(a) + 1 /\ m <= Len(b) + 1 /\ m >= 1
    <3>1. Len(b) + 1 \in W
      BY <2>1
    <3> QED
      BY <2>2, <2>3, <3>1
  <2>6. CASE m <= Len(a) /\ m <= Len(b)
    <3>1. a[m] # b[m] /\ a[m] \in Nat /\ b[m] \in Nat
      BY <1>1, <2>3, <2>6
    <3>2. a[m] < b[m] \/ b[m] < a[m]
      BY <3>1
    <3>3. FirstAt(a, b, m) \/ FirstAt(b, a, m)
      BY <2>1, <2>4, <2>5, <2>6, <3>2 DEF FirstAt
    <3> QED
      BY <3>3, BeforeIs
  <2>7. CASE m > Len(a) /\ m <= Len(b)
    <3>1. FirstAt(a, b, m)
      BY <2>1, <2>4, <2>5, <2>7 DEF FirstAt
    <3> QED
      BY <3>1, BeforeIs
  <2>8. CASE m <= Len(a) /\ m > Len(b)
    <3>1. FirstAt(b, a, m)
      BY <2>1, <2>4, <2>5, <2>8 DEF FirstAt
    <3> QED
      BY <3>1, BeforeIs
  <2>9. CASE m > Len(a) /\ m > Len(b)
    <3>1. Len(a) = Len(b) /\ \A j \in 1 .. Len(a) : a[j] = b[j]
      BY <2>1, <2>4, <2>5, <2>9
    <3>2. a = b
      BY <3>1, SeqEqual DEF List
    <3> QED
      BY <1>5, <3>2
  <2> QED
    BY <2>1, <2>6, <2>7, <2>8, <2>9
<1> QED
  BY <1>3, <1>4, <1>5

Name == List \X List

LEMMA NameOrder ==
  /\ \A m \in Name : ~NameBefore(m, m)
  /\ \A l, m, n \in Name : NameBefore(l, m) /\ NameBefore(m, n) => NameBefore(l, n)
  /\ \A m, n \in Name : m = n \/ NameBefore(m, n) \/ NameBefore(n, m)
<1>1. \A m \in Name : m[1] \in List /\ m[2] \in List /\ m = <<m[1], m[2]>>
  BY DEF Name
<1>2. \A m, n \in Name : m = n <=> m[1] = n[1] /\ m[2] = n[2]
  BY DEF Name
<1> QED
  BY <1>1, <1>2, BeforeOrder DEF NameBefore

-----------------------------------------------------------------------------
(* Sorting. *)

Earlier(names, x) == {j \in DOMAIN names : NameBefore(names[j], x)}
NotLater(names, x) == {j \in DOMAIN names : ~NameBefore(x, names[j])}

LEMMA Counts ==
  ASSUME NEW names \in Seq(Name)
  PROVE  LET n == Len(names)
             lo(x) == Cardinality(Earlier(names, x))
             hi(x) == Cardinality(NotLater(names, x))
         IN  /\ n \in Nat /\ DOMAIN names = 1 .. n /\ IsFiniteSet(1 .. n) /\ Cardinality(1 .. n) = n
             /\ \A x : IsFiniteSet(Earlier(names, x)) /\ IsFiniteSet(NotLater(names, x))
             /\ \A x : lo(x) \in Nat /\ hi(x) \in Nat /\ hi(x) <= n
             /\ \A x \in Range(names) : x \in Name /\ lo(x) < hi(x)
             /\ \A x, y \in Range(names) : NameBefore(x, y) => hi(x) <= lo(y)
<1> DEFINE n == Len(names)
           lo(x) == Cardinality(Earlier(names, x))
           hi(x) == Cardinality(NotLater(names, x))
<1>1. n \in Nat /\ DOMAIN names = 1 .. n
  OBVIOUS
<1>2. IsFiniteSet(1 .. n) /\ Cardinality(1 .. n) = n
  BY Zenon, <1>1, UpTo
<1>3. \A x : Earlier(names, x) \in SUBSET (1 .. n) /\ NotLater(names, x) \in SUBSET (1 .. n)
  BY <1>1 DEF Earlier, NotLater
<1>4. \A x : IsFiniteSet(Earlier(names, x)) /\ IsFiniteSet(NotLater(names, x))
  BY <1>2, <1>3, FS_Subset
<1>5. \A x : lo(x) \in Nat /\ hi(x) \in Nat /\ hi(x) <= n
  BY <1>2, <1>3, <1>4, FS_Subset, FS_CardinalityType
<1>6. \A i \in 1 .. n : names[i] \in Name
  BY <1>1
<1>7. \A x \in Range(names) : x \in Name /\ \E i \in 1 .. n : names[i] = x
  BY <1>1, <1>6 DEF Range
<1>8. ASSUME NEW x \in Range(names) PROVE lo(x) < hi(x)
  <2>1. PICK i \in 1 .. n : names[i] = x
    BY <1>7
  <2>2. Earlier(names, x) \in SUBSET NotLater(names, x)
    <3> SUFFICES ASSUME NEW j \in DOMAIN names, NameBefore(names[j], x), NameBefore(x, names[j])
                 PROVE  FALSE
      BY DEF Earlier, NotLater
    <3>1. names[j] \in Name /\ x \in Name
      BY <1>1, <1>6, <1>7
    <3> QED
      BY <3>1, NameOrder
  <2>3. i \in NotLater(names, x) /\ i \notin Earlier(names, x)
    BY <1>1, <1>7, <2>1, NameOrder DEF Earlier, NotLater
  <2> QED
    BY <1>4, <2>2, <2>3, StrictSubset
<1>9. ASSUME NEW x \in Range(names), NEW y \in Range(names), NameBefore(x, y) PROVE hi(x) <= lo(y)
  <2>1. NotLater(names, x) \in SUBSET Earlier(names, y)
    <3> SUFFICES ASSUME NEW j \in DOMAIN names, ~NameBefore(x, names[j])
                 PROVE  NameBefore(names[j], y)
      BY DEF Earlier, NotLater
    <3>1. names[j] \in Name /\ x \in Name /\ y \in Name
      BY <1>1, <1>6, <1>7
    <3> QED
      BY <1>9, <3>1, NameOrder
  <2> QED
    BY <1>4, <2>1, FS_Subset
<1> QED
  BY <1>1, <1>2, <1>4, <1>5, <1>7, <1>8, <1>9

\* Every place of the sorted list has its name.
LEMMA Placed ==
  ASSUME NEW names \in Seq(Name), NEW k \in 1 .. Len(names)
  PROVE  \E x \in Range(names) : Cardinality(Earlier(names, x)) < k /\ k <= Cardinality(NotLater(names, x))
<1> DEFINE n == Len(names)
           D == 1 .. n
           R == {p \in D \X D : \/ NameBefore(names[p[1]], names[p[2]])
                                \/ names[p[1]] = names[p[2]] /\ p[1] < p[2]}
<1>1. /\ n \in Nat /\ DOMAIN names = D /\ IsFiniteSet(D) /\ Cardinality(D) = n
      /\ \A x : IsFiniteSet(Earlier(names, x)) /\ IsFiniteSet(NotLater(names, x))
  BY Counts
<1>2. \A i \in D : names[i] \in Name
  OBVIOUS
<1>3. \A i, j \in D : <<i, j>> \in R <=> NameBefore(names[i], names[j]) \/ (names[i] = names[j] /\ i < j)
  OBVIOUS
<1> HIDE DEF R
<1>4. /\ \A i \in D : <<i, i>> \notin R
      /\ \A i, j, l \in D : <<i, j>> \in R /\ <<j, l>> \in R => <<i, l>> \in R
      /\ \A i, j \in D : i = j \/ <<i, j>> \in R \/ <<j, i>> \in R
  <2>1. \A i \in D : i \in Nat
    OBVIOUS
  <2>2. \A i \in D : <<i, i>> \notin R
    BY <1>2, <1>3, <2>1, NameOrder
  <2>3. ASSUME NEW i \in D, NEW j \in D, NEW l \in D, <<i, j>> \in R, <<j, l>> \in R
        PROVE  <<i, l>> \in R
    <3>1. /\ NameBefore(names[i], names[j]) \/ (names[i] = names[j] /\ i < j)
          /\ NameBefore(names[j], names[l]) \/ (names[j] = names[l] /\ j < l)
      BY <1>3, <2>3
    <3>2. NameBefore(names[i], names[j]) /\ NameBefore(names[j], names[l]) => NameBefore(names[i], names[l])
      BY <1>2, NameOrder
    <3>3. i < j /\ j < l => i < l
      BY <2>1
    <3>4. NameBefore(names[i], names[l]) \/ (names[i] = names[l] /\ i < l)
      BY <3>1, <3>2, <3>3
    <3> QED
      BY <1>3, <3>4
  <2>4. ASSUME NEW i \in D, NEW j \in D, i # j PROVE <<i, j>> \in R \/ <<j, i>> \in R
    <3>1. names[i] = names[j] \/ NameBefore(names[i], names[j]) \/ NameBefore(names[j], names[i])
      BY <1>2, NameOrder
    <3>2. i < j \/ j < i
      BY <2>1, <2>4
    <3> QED
      BY <1>3, <3>1, <3>2
  <2> QED
    BY <2>2, <2>3, <2>4
<1>5. \A m \in 1 .. Cardinality(D) : \E i \in D : Rank(D, R, i) = m
  <2>1. IsFiniteSet(D)
    BY <1>1
  <2> HIDE DEF D
  <2> QED
    BY <2>1, <1>4, Ranks
<1>6. PICK i \in D : Rank(D, R, i) = k
  BY <1>1, <1>5
<1> DEFINE x == names[i]
<1>7. x \in Range(names) /\ x \in Name
  BY <1>1, <1>2 DEF Range
<1>8. Below(D, R, i) \in SUBSET NotLater(names, x) /\ Earlier(names, x) \in SUBSET Below(D, R, i)
  <2>1. \A j \in D : j \in Below(D, R, i) <=> NameBefore(names[j], x) \/ (names[j] = x /\ j < i)
    BY <1>3 DEF Below
  <2>2. \A j \in D : NameBefore(names[j], x) => ~NameBefore(x, names[j])
    BY <1>2, NameOrder
  <2>3. \A j \in D : names[j] = x => ~NameBefore(x, names[j])
    BY <1>2, NameOrder
  <2> QED
    BY <1>1, <2>1, <2>2, <2>3 DEF Earlier, NotLater, Below
<1>9. i \in NotLater(names, x) /\ i \notin Below(D, R, i)
  BY <1>1, <1>2, <1>4, NameOrder DEF NotLater, Below
<1>10. IsFiniteSet(Below(D, R, i)) /\ Cardinality(Below(D, R, i)) < Cardinality(NotLater(names, x))
       /\ Cardinality(NotLater(names, x)) \in Nat /\ Cardinality(Below(D, R, i)) \in Nat
  BY <1>1, <1>8, <1>9, StrictSubset
<1>11. Cardinality(Earlier(names, x)) <= Cardinality(Below(D, R, i)) /\ Cardinality(Earlier(names, x)) \in Nat
  BY <1>8, <1>10, FS_Subset, FS_CardinalityType
<1>12. k = Cardinality(Below(D, R, i)) + 1
  BY <1>6 DEF Rank
<1> QED
  BY <1>7, <1>10, <1>11, <1>12

\* sort.Strings: the names of the list, in order, as often as they are given.
LEMMA SortedIs ==
  ASSUME NEW names \in Seq(Name)
  PROVE  /\ Sorted(names) \in Seq(Name) /\ Len(Sorted(names)) = Len(names)
         /\ Range(Sorted(names)) = Range(names)
         /\ \A i, j \in DOMAIN names : i < j => ~NameBefore(Sorted(names)[j], Sorted(names)[i])
<1> DEFINE n == Len(names)
           s == Sorted(names)
           lo(x) == Cardinality(Earlier(names, x))
           hi(x) == Cardinality(NotLater(names, x))
<1>1. /\ n \in Nat /\ DOMAIN names = 1 .. n
      /\ \A x : lo(x) \in Nat /\ hi(x) \in Nat /\ hi(x) <= n
      /\ \A x \in Range(names) : x \in Name /\ lo(x) < hi(x)
      /\ \A x, y \in Range(names) : NameBefore(x, y) => hi(x) <= lo(y)
  BY Counts
<1>2. s = [k \in 1 .. n |-> CHOOSE x \in Range(names) : lo(x) < k /\ k <= hi(x)]
  BY <1>1 DEF Sorted, Earlier, NotLater
<1>3. \A k \in 1 .. n : s[k] \in Range(names) /\ lo(s[k]) < k /\ k <= hi(s[k])
  <2> TAKE k \in 1 .. n
  <2>1. \E x \in Range(names) : lo(x) < k /\ k <= hi(x)
    BY Placed
  <2>2. s[k] = CHOOSE x \in Range(names) : lo(x) < k /\ k <= hi(x)
    BY <1>2
  <2> HIDE DEF s, lo, hi
  <2> QED
    BY <2>1, <2>2
<1>4. s \in Seq(Name) /\ Len(s) = n /\ DOMAIN s = 1 .. n
  <2>1. s \in [1 .. n -> Name] /\ DOMAIN s = 1 .. n
    BY <1>1, <1>2, <1>3
  <2> HIDE DEF s
  <2> QED
    BY <1>1, <2>1
<1> HIDE DEF s, lo, hi
<1>5. ASSUME NEW x \in Range(names) PROVE x \in Range(s)
  <2> DEFINE k == lo(x) + 1
  <2>1. k \in 1 .. n /\ k <= hi(x) /\ lo(x) < k /\ k \in Nat
    BY <1>1
  <2>2. s[k] \in Range(names) /\ lo(s[k]) < k /\ k <= hi(s[k])
    BY <1>3, <2>1
  <2> HIDE DEF k
  <2>3. ~NameBefore(x, s[k])
    BY <1>1, <2>1, <2>2
  <2>4. ~NameBefore(s[k], x)
    <3>1. k <= lo(x) \/ ~NameBefore(s[k], x)
      BY <1>1, <2>1, <2>2
    <3> QED
      BY <1>1, <2>1, <3>1
  <2>5. s[k] = x
    BY <1>1, <2>2, <2>3, <2>4, NameOrder
  <2> QED
    BY <1>4, <2>1, <2>5 DEF Range
<1>6. \A x \in Range(s) : x \in Range(names)
  BY <1>3, <1>4 DEF Range
<1>7. ASSUME NEW i \in 1 .. n, NEW j \in 1 .. n, i < j PROVE ~NameBefore(s[j], s[i])
  <2>1. lo(s[i]) < i /\ j <= hi(s[j]) /\ s[i] \in Range(names) /\ s[j] \in Range(names)
    BY <1>3
  <2>2. lo(s[i]) \in Nat /\ hi(s[j]) \in Nat
    BY <1>1
  <2> QED
    BY <1>1, <1>7, <2>1, <2>2
<1> QED
  BY <1>1, <1>4, <1>5, <1>6, <1>7 DEF s

-----------------------------------------------------------------------------
(* Numerals. *)

LEMMA Tenth ==
  ASSUME NEW n \in Nat, n >= 10
  PROVE  n \div 10 \in Nat /\ n \div 10 < n /\ n \div 10 # 0 /\ n % 10 \in Nat
<1>1. n \div 10 \in Nat /\ n \div 10 < n /\ n \div 10 # 0
  OBVIOUS
<1>2. n % 10 \in Nat
  OBVIOUS
<1> QED
  BY <1>1, <1>2

LEMMA SameNumber ==
  ASSUME NEW m \in Nat, NEW n \in Nat, m \div 10 = n \div 10, m % 10 = n % 10
  PROVE  m = n
OBVIOUS

\* The numerals of the numbers up to n.
Numerals(n, g) == g = [k \in 0 .. n |-> IF k < 10 THEN <<k>> ELSE Append(g[k \div 10], k % 10)]

LEMMA NumeralsExist == \A n \in Nat : \E g : Numerals(n, g)
<1> DEFINE T == {n \in Nat : \E g : Numerals(n, g)}
<1>1. 0 \in T
  <2> DEFINE g == [k \in 0 .. 0 |-> <<k>>]
  <2>1. \A k \in 0 .. 0 : k < 10
    OBVIOUS
  <2>2. Numerals(0, g)
    BY <2>1 DEF Numerals
  <2> QED
    BY <2>2
<1>2. ASSUME NEW n \in Nat, n \in T PROVE n + 1 \in T
  <2>1. PICK g : Numerals(n, g)
    BY <1>2
  <2> DEFINE h == [k \in 0 .. n + 1 |-> IF k < 10 THEN <<k>> ELSE Append(g[k \div 10], k % 10)]
  <2>2. \A k \in 0 .. n : g[k] = IF k < 10 THEN <<k>> ELSE Append(g[k \div 10], k % 10)
    BY <2>1, Zenon DEF Numerals
  <2>3. \A k \in 0 .. n + 1 : h[k] = IF k < 10 THEN <<k>> ELSE Append(g[k \div 10], k % 10)
    OBVIOUS
  <2>4. \A k \in 0 .. n : k \in 0 .. n + 1
    OBVIOUS
  <2> HIDE DEF h
  <2>5. \A k \in 0 .. n : h[k] = g[k]
    BY <2>2, <2>3, <2>4, Zenon
  <2>6. \A k \in 0 .. n + 1 : ~(k < 10) => k \div 10 \in 0 .. n
    <3> TAKE k \in 0 .. n + 1
    <3>1. k \in Nat /\ k <= n + 1
      OBVIOUS
    <3> HAVE ~(k < 10)
    <3>2. k \div 10 \in Nat /\ k \div 10 < k
      BY <3>1, Tenth
    <3> QED
      BY <3>1, <3>2
  <2>7. \A k \in 0 .. n + 1 : ~(k < 10) => g[k \div 10] = h[k \div 10]
    BY <2>5, <2>6, Zenon
  <2>8. \A k \in 0 .. n + 1 : (IF k < 10 THEN <<k>> ELSE Append(g[k \div 10], k % 10))
                            = (IF k < 10 THEN <<k>> ELSE Append(h[k \div 10], k % 10))
    BY <2>7, Zenon
  <2>9. h = [k \in 0 .. n + 1 |-> IF k < 10 THEN <<k>> ELSE Append(g[k \div 10], k % 10)]
    BY DEF h
  <2>10. Numerals(n + 1, h)
    BY <2>8, <2>9, Zenon DEF Numerals
  <2> QED
    BY <2>10
<1> HIDE DEF T
<1>3. \A n \in Nat : n \in T
  BY <1>1, <1>2, AllNumbers
<1> QED
  BY <1>3 DEF T

LEMMA NumeralsAgree ==
  ASSUME NEW m \in Nat, NEW n \in Nat, NEW g, NEW h, Numerals(m, g), Numerals(n, h),
         NEW k \in Nat, k <= m, k <= n
  PROVE  g[k] = h[k]
<1> DEFINE W == {i \in Nat : i <= m /\ i <= n /\ g[i] # h[i]}
<1> SUFFICES ASSUME k \in W PROVE FALSE
  OBVIOUS
<1>1. PICK i \in W : \A j \in W : i <= j
  BY LeastNumber
<1>2. i \in Nat /\ i <= m /\ i <= n /\ g[i] # h[i] /\ i \in 0 .. m /\ i \in 0 .. n
  OBVIOUS
<1>3. /\ g[i] = IF i < 10 THEN <<i>> ELSE Append(g[i \div 10], i % 10)
      /\ h[i] = IF i < 10 THEN <<i>> ELSE Append(h[i \div 10], i % 10)
  BY <1>2, Zenon DEF Numerals
<1>4. ~(i < 10)
  BY <1>2, <1>3, Zenon
<1>5. i \div 10 \in Nat /\ i \div 10 < i
  BY <1>2, <1>4, Tenth
<1>6. i \div 10 <= m /\ i \div 10 <= n
  BY <1>2, <1>5
<1>7. g[i \div 10] = h[i \div 10]
  <2>1. i \div 10 \notin W
    BY <1>1, <1>2, <1>5
  <2> QED
    BY <1>5, <1>6, <2>1
<1> QED
  BY <1>2, <1>3, <1>4, <1>7, Zenon

LEMMA DecimalIs ==
  \A n \in Nat : Decimal[n] = IF n < 10 THEN <<n>> ELSE Append(Decimal[n \div 10], n % 10)
<1> DEFINE d == [n \in Nat |-> (CHOOSE g : Numerals(n, g))[n]]
<1>1. \A n \in Nat : Numerals(n, CHOOSE g : Numerals(n, g))
  BY NumeralsExist, Zenon
<1>2. ASSUME NEW n \in Nat
      PROVE  d[n] = IF n < 10 THEN <<n>> ELSE Append(d[n \div 10], n % 10)
  <2> DEFINE g == CHOOSE g : Numerals(n, g)
  <2>1. Numerals(n, g)
    BY <1>1
  <2>2. n \in 0 .. n
    OBVIOUS
  <2>3. d[n] = g[n]
    OBVIOUS
  <2> HIDE DEF g
  <2>4. g[n] = IF n < 10 THEN <<n>> ELSE Append(g[n \div 10], n % 10)
    BY <2>1, <2>2, Zenon DEF Numerals
  <2>5. ~(n < 10) => g[n \div 10] = d[n \div 10]
    <3> HAVE ~(n < 10)
    <3>1. n \div 10 \in Nat /\ n \div 10 <= n /\ n \div 10 <= n \div 10
      BY Tenth
    <3> DEFINE f == CHOOSE f : Numerals(n \div 10, f)
    <3>2. Numerals(n \div 10, f) /\ d[n \div 10] = f[n \div 10]
      BY <1>1, <3>1, Zenon
    <3> HIDE DEF f
    <3> QED
      BY <2>1, <3>1, <3>2, NumeralsAgree
  <2> QED
    BY <2>3, <2>4, <2>5, Zenon
<1>3. d = [n \in Nat |-> IF n < 10 THEN <<n>> ELSE Append(d[n \div 10], n % 10)]
  <2>1. DOMAIN d = Nat /\ d = [n \in Nat |-> d[n]]
    OBVIOUS
  <2> HIDE DEF d
  <2> QED
    BY <1>2, <2>1, Zenon
<1> HIDE DEF d
<1>4. \E g : g = [n \in Nat |-> IF n < 10 THEN <<n>> ELSE Append(g[n \div 10], n % 10)]
  BY <1>3
<1>5. Decimal = [n \in Nat |-> IF n < 10 THEN <<n>> ELSE Append(Decimal[n \div 10], n % 10)]
  BY <1>4 DEF Decimal
<1> QED
  BY <1>5, Zenon

\* %d writes different numbers differently.
LEMMA DecimalTyped == \A n \in Nat : Decimal[n] \in List /\ Len(Decimal[n]) >= 1
<1> DEFINE W == {n \in Nat : ~(Decimal[n] \in List /\ Len(Decimal[n]) >= 1)}
<1> SUFFICES ASSUME W # {} PROVE FALSE
  OBVIOUS
<1>1. PICK n \in W : \A j \in W : n <= j
  BY LeastNumber
<1>2. n \in Nat /\ ~(Decimal[n] \in List /\ Len(Decimal[n]) >= 1)
  OBVIOUS
<1>3. CASE n < 10
  <2>1. Decimal[n] = <<n>>
    BY <1>2, <1>3, DecimalIs
  <2> QED
    BY <1>2, <2>1 DEF List
<1>4. CASE ~(n < 10)
  <2>1. n \div 10 \in Nat /\ n \div 10 < n /\ n % 10 \in Nat
    BY <1>2, <1>4, Tenth
  <2>2. n \div 10 \notin W
    BY <1>1, <1>2, <2>1
  <2>3. Decimal[n \div 10] \in Seq(Nat)
    BY <2>1, <2>2 DEF List
  <2>4. Decimal[n] = Append(Decimal[n \div 10], n % 10)
    BY <1>2, <1>4, DecimalIs
  <2> QED
    BY <1>2, <2>1, <2>3, <2>4, AppendProperties DEF List
<1> QED
  BY <1>3, <1>4

LEMMA SameLists ==
  ASSUME NEW a \in Seq(Nat), NEW b \in Seq(Nat), NEW i \in Nat, NEW j \in Nat, Append(a, i) = Append(b, j)
  PROVE  a = b /\ i = j
BY AppendInjective

LEMMA DecimalInjective == \A m, n \in Nat : Decimal[m] = Decimal[n] => m = n
<1> DEFINE W == {m \in Nat : \E n \in Nat : Decimal[m] = Decimal[n] /\ m # n}
<1> SUFFICES ASSUME W # {} PROVE FALSE
  OBVIOUS
<1>1. PICK m \in W : \A j \in W : m <= j
  BY LeastNumber
<1>2. PICK n \in Nat : Decimal[m] = Decimal[n] /\ m # n
  OBVIOUS
<1>3. m \in Nat
  OBVIOUS
<1>4. ASSUME NEW k \in Nat, ~(k < 10)
      PROVE  /\ k \div 10 \in Nat /\ k \div 10 < k /\ k % 10 \in Nat
             /\ Decimal[k \div 10] \in Seq(Nat) /\ Decimal[k] = Append(Decimal[k \div 10], k % 10)
             /\ Len(Decimal[k]) >= 2
  <2>1. k \div 10 \in Nat /\ k \div 10 < k /\ k % 10 \in Nat
    BY <1>4, Tenth
  <2>2. Decimal[k \div 10] \in Seq(Nat) /\ Len(Decimal[k \div 10]) >= 1
    BY <2>1, DecimalTyped DEF List
  <2>3. Decimal[k] = Append(Decimal[k \div 10], k % 10)
    BY <1>4, DecimalIs
  <2>4. Len(Decimal[k]) = Len(Decimal[k \div 10]) + 1 /\ Len(Decimal[k \div 10]) \in Nat
    BY <2>1, <2>2, <2>3, AppendProperties
  <2> QED
    BY <2>1, <2>2, <2>3, <2>4
<1>5. \A k \in Nat : k < 10 => Decimal[k] = <<k>> /\ Len(Decimal[k]) = 1
  <2>1. \A k \in Nat : k < 10 => Decimal[k] = <<k>>
    BY DecimalIs, Zenon
  <2>2. \A k : Len(<<k>>) = 1
    OBVIOUS
  <2> QED
    BY <2>1, <2>2
<1>8. \A k \in Nat : k < 10 <=> ~(Len(Decimal[k]) >= 2)
  <2>1. \A k \in Nat : ~(k < 10) => Len(Decimal[k]) >= 2
    BY <1>4
  <2>2. ~(1 >= 2)
    OBVIOUS
  <2> QED
    BY <1>5, <2>1, <2>2, Zenon
<1>6. CASE m < 10
  <2>1. n < 10
    BY <1>2, <1>3, <1>6, <1>8, Zenon
  <2>2. <<m>> = <<n>>
    BY <1>2, <1>3, <1>5, <1>6, <2>1
  <2> QED
    BY <1>2, <2>2
<1>7. CASE ~(m < 10)
  <2>1. ~(n < 10)
    BY <1>2, <1>3, <1>7, <1>8, Zenon
  <2>2. Append(Decimal[m \div 10], m % 10) = Append(Decimal[n \div 10], n % 10)
    BY <1>2, <1>3, <1>4, <1>7, <2>1
  <2>3. Decimal[m \div 10] = Decimal[n \div 10] /\ m % 10 = n % 10
    <3> DEFINE a == Decimal[m \div 10]
               b == Decimal[n \div 10]
               i == m % 10
               j == n % 10
    <3>1. a \in Seq(Nat) /\ i \in Nat
      BY <1>3, <1>4, <1>7
    <3>2. b \in Seq(Nat) /\ j \in Nat
      BY <1>2, <1>4, <2>1
    <3>3. Append(a, i) = Append(b, j)
      BY <2>2
    <3> HIDE DEF a, b, i, j
    <3>4. a = b /\ i = j
      BY <3>1, <3>2, <3>3, SameLists
    <3> QED
      BY <3>4 DEF a, b, i, j
  <2>4. m \div 10 \notin W
    BY <1>1, <1>3, <1>4, <1>7
  <2>5. m \div 10 = n \div 10
    BY <1>3, <1>4, <1>7, <2>1, <2>3, <2>4
  <2> QED
    BY <1>2, <1>3, <2>3, <2>5, SameNumber
<1> QED
  BY <1>6, <1>7

-----------------------------------------------------------------------------
(* The archive. *)

\* Of the numbers up to n in a set there is a last.
LEMMA GreatestNumber ==
  ASSUME NEW n \in Nat, NEW S \in SUBSET (0 .. n), S # {}
  PROVE  \E m \in S : \A i \in S : i <= m
<1> DEFINE T == {k \in Nat : k <= n /\ n - k \in S}
<1>1. T # {}
  <2>1. PICK i \in S : TRUE
    OBVIOUS
  <2>2. i \in Nat /\ i <= n /\ n - i \in Nat /\ n - i <= n /\ n - (n - i) = i
    OBVIOUS
  <2>3. n - i \in T
    BY <2>2
  <2> QED
    BY <2>3
<1>2. PICK k \in T : \A l \in T : k <= l
  BY <1>1, LeastNumber
<1>3. n - k \in S
  OBVIOUS
<1>4. ASSUME NEW i \in S PROVE i <= n - k
  <2>1. i \in Nat /\ i <= n /\ n - i \in Nat /\ n - i <= n /\ n - (n - i) = i
    OBVIOUS
  <2>2. n - i \in T
    BY <2>1
  <2>3. k <= n - i /\ k \in Nat
    BY <1>2, <2>2
  <2> QED
    BY <2>1, <2>3
<1> QED
  BY <1>3, <1>4

LEMMA FunctionIsSeq ==
  ASSUME NEW n \in Nat, NEW S, NEW f \in [1 .. n -> S]
  PROVE  f \in Seq(S) /\ Len(f) = n /\ DOMAIN f = 1 .. n
OBVIOUS

PageRange == [start : Nat, end : Nat]

LEMMA PieceNames ==
  /\ \A r \in PageRange : PieceName(r) \in Name
  /\ \A r, s \in PageRange : PieceName(r) = PieceName(s) => r = s
<1>1. \A r \in PageRange : r.start \in Nat /\ r.end \in Nat /\ r = [start |-> r.start, end |-> r.end]
  BY DEF PageRange
<1>2. \A r \in PageRange : PieceName(r) \in Name
  BY <1>1, DecimalTyped DEF PieceName, Name
<1>3. ASSUME NEW r \in PageRange, NEW s \in PageRange, PieceName(r) = PieceName(s) PROVE r = s
  <2>1. Decimal[r.start] = Decimal[s.start] /\ Decimal[r.end] = Decimal[s.end]
    BY <1>3 DEF PieceName
  <2>2. r.start = s.start /\ r.end = s.end
    BY <1>1, <2>1, DecimalInjective
  <2> QED
    BY <1>1, <2>2
<1> QED
  BY <1>2, <1>3

\* No range is written over another's file.
LEMMA PagesKept ==
  ASSUME NEW ranges \in Seq(PageRange), NEW i \in DOMAIN ranges
  PROVE  PagesIn(ranges, PieceName(ranges[i])) = ranges[i]
<1> DEFINE n == Len(ranges)
           S == {k \in DOMAIN ranges : PieceName(ranges[k]) = PieceName(ranges[i])}
           P(k) == /\ PieceName(ranges[k]) = PieceName(ranges[i])
                   /\ \A j \in DOMAIN ranges : PieceName(ranges[j]) = PieceName(ranges[i]) => j <= k
<1>1. n \in Nat /\ DOMAIN ranges = 1 .. n /\ \A k \in 1 .. n : k \in 0 .. n
  OBVIOUS
<1>2. S \in SUBSET (0 .. n) /\ S # {}
  BY <1>1
<1>3. PICK m \in S : \A k \in S : k <= m
  BY <1>1, <1>2, GreatestNumber
<1>4. m \in DOMAIN ranges /\ P(m)
  BY <1>3
<1> DEFINE c == CHOOSE k \in DOMAIN ranges : P(k)
<1>5. c \in DOMAIN ranges /\ P(c)
  BY <1>4
<1>6. ranges[c] \in PageRange /\ ranges[i] \in PageRange
  BY <1>1, <1>5
<1>7. ranges[c] = ranges[i]
  BY <1>5, <1>6, PieceNames
<1> QED
  BY <1>7 DEF PagesIn

NamesOf(ranges) == [i \in DOMAIN ranges |-> PieceName(ranges[i])]

LEMMA NamesTyped ==
  ASSUME NEW ranges \in Seq(PageRange)
  PROVE  /\ NamesOf(ranges) \in Seq(Name) /\ Len(NamesOf(ranges)) = Len(ranges)
         /\ DOMAIN ranges = 1 .. Len(ranges) /\ DOMAIN NamesOf(ranges) = 1 .. Len(ranges) /\ Len(ranges) \in Nat
         /\ \A x \in Range(NamesOf(ranges)) : \E i \in DOMAIN ranges : x = PieceName(ranges[i])
<1>1. DOMAIN ranges = 1 .. Len(ranges) /\ Len(ranges) \in Nat
  OBVIOUS
<1>2. \A i \in 1 .. Len(ranges) : PieceName(ranges[i]) \in Name
  BY <1>1, PieceNames
<1>3. NamesOf(ranges) \in [1 .. Len(ranges) -> Name]
  BY <1>1, <1>2 DEF NamesOf
<1>4. \A x \in Range(NamesOf(ranges)) : \E i \in DOMAIN ranges : x = PieceName(ranges[i])
  BY <1>1 DEF NamesOf, Range
<1> QED
  BY <1>1, <1>3, <1>4

Entry == [name : Name, pages : PageRange]

\* The archive has each range as often as it was given, under its name.
LEMMA ZipIs ==
  ASSUME NEW ranges \in Seq(PageRange)
  PROVE  LET zip == createZipFromFiles(ranges) IN
         /\ zip \in Seq(Entry) /\ Len(zip) = Len(ranges)
         /\ {zip[i].pages : i \in DOMAIN zip} = Range(ranges)
         /\ \A i \in DOMAIN zip : zip[i].pages = PagesIn(ranges, zip[i].name)
<1> DEFINE n == Len(ranges)
           s == Sorted(NamesOf(ranges))
           zip == createZipFromFiles(ranges)
<1>1. /\ n \in Nat /\ DOMAIN ranges = 1 .. n /\ NamesOf(ranges) \in Seq(Name) /\ Len(NamesOf(ranges)) = n
      /\ \A x \in Range(NamesOf(ranges)) : \E i \in DOMAIN ranges : x = PieceName(ranges[i])
  BY NamesTyped
<1>2. s \in Seq(Name) /\ Len(s) = n /\ Range(s) = Range(NamesOf(ranges))
  BY <1>1, SortedIs
<1> HIDE DEF s
<1>3. DOMAIN s = 1 .. n
  BY <1>1, <1>2
<1>4. zip = [i \in DOMAIN s |-> [name |-> s[i], pages |-> PagesIn(ranges, s[i])]]
  BY Zenon DEF createZipFromFiles, NamesOf, s
<1>5. \A i \in 1 .. n : s[i] \in Name /\ s[i] \in Range(NamesOf(ranges))
  <2>1. \A i \in 1 .. n : s[i] \in Range(s)
    BY <1>3 DEF Range
  <2> QED
    BY <1>1, <1>2, <2>1, FunctionIsSeq
<1>6. \A i \in 1 .. n : PagesIn(ranges, s[i]) \in Range(ranges) /\ PagesIn(ranges, s[i]) \in PageRange
  <2> TAKE i \in 1 .. n
  <2>1. PICK k \in DOMAIN ranges : s[i] = PieceName(ranges[k])
    BY <1>1, <1>5
  <2>2. PagesIn(ranges, s[i]) = ranges[k]
    BY <2>1, PagesKept
  <2> QED
    BY <1>1, <2>2 DEF Range
<1>7. zip \in [1 .. n -> Entry] /\ DOMAIN zip = 1 .. n
  <2>1. \A i \in DOMAIN s : [name |-> s[i], pages |-> PagesIn(ranges, s[i])] \in Entry
    BY <1>3, <1>5, <1>6 DEF Entry
  <2>2. zip \in [DOMAIN s -> Entry] /\ DOMAIN zip = DOMAIN s
    BY <1>4, <2>1
  <2> QED
    BY <1>3, <2>2
<1>8. \A i \in 1 .. n : zip[i].name = s[i] /\ zip[i].pages = PagesIn(ranges, s[i])
  BY <1>3, <1>4
<1> HIDE DEF zip
<1>9. zip \in Seq(Entry) /\ Len(zip) = n
  BY <1>1, <1>7
<1>10. ASSUME NEW r \in Range(ranges) PROVE \E i \in 1 .. n : zip[i].pages = r
  <2>1. PICK k \in DOMAIN ranges : r = ranges[k]
    BY DEF Range
  <2>2. PieceName(r) \in Range(s)
    BY <1>1, <1>2, <2>1 DEF Range, NamesOf
  <2>3. PICK i \in 1 .. n : s[i] = PieceName(r)
    BY <1>3, <2>2 DEF Range
  <2>4. zip[i].pages = r
    BY <1>8, <2>1, <2>3, PagesKept
  <2> QED
    BY <2>4
<1>11. {zip[i].pages : i \in DOMAIN zip} = Range(ranges)
  BY <1>6, <1>7, <1>8, <1>10
<1> QED
  BY <1>7, <1>8, <1>9, <1>11 DEF zip

\* A list of parts as it is parsed: the numbers of each part that matches.
LEMMA PagesTyped ==
  ASSUME NEW part \in Seq(Nat), part # <<>>, NEW pageCount \in Nat, pageCount < MaxInt
  PROVE  /\ Head(part) \in Nat /\ Last(part) \in Nat /\ Pages(part) \in PageRange
         /\ Accepted(Pages(part), pageCount) <=> Proper(part, pageCount)
         /\ Proper(part, pageCount) => Pages(part) = [start |-> Head(part), end |-> Last(part)]
<1>1. Len(part) \in Nat /\ Len(part) >= 1
  OBVIOUS
<1>2. Head(part) \in Nat /\ Last(part) \in Nat
  BY <1>1 DEF Last
<1> DEFINE h == Head(part)
           l == Last(part)
<1>3. Pages(part) = [start |-> Atoi(h), end |-> Atoi(l)]
  BY DEF Pages
<1>4. Proper(part, pageCount) <=> 1 <= h /\ h <= l /\ l <= pageCount
  BY DEF Proper
<1> HIDE DEF h, l
<1>5. h \in Nat /\ l \in Nat
  BY <1>2 DEF h, l
<1>6. \A n \in Nat : Atoi(n) \in Nat /\ (n <= pageCount => Atoi(n) = n) /\ (Atoi(n) <= pageCount => Atoi(n) = n)
  BY SplitAssumption DEF Atoi
<1>7. Pages(part) \in PageRange
  BY <1>3, <1>5, <1>6 DEF PageRange
<1>8. Accepted(Pages(part), pageCount) <=> 1 <= h /\ h <= l /\ l <= pageCount
  <2>1. Accepted(Pages(part), pageCount)
          <=> Atoi(h) >= 1 /\ Atoi(l) >= 1 /\ Atoi(h) <= Atoi(l) /\ Atoi(l) <= pageCount
    BY <1>3 DEF Accepted
  <2>2. ASSUME 1 <= h, h <= l, l <= pageCount
        PROVE  Atoi(h) >= 1 /\ Atoi(l) >= 1 /\ Atoi(h) <= Atoi(l) /\ Atoi(l) <= pageCount
    <3>1. h <= pageCount
      BY <1>5, <2>2
    <3>2. Atoi(h) = h /\ Atoi(l) = l
      BY <1>5, <1>6, <2>2, <3>1
    <3> QED
      BY <1>5, <2>2, <3>2
  <2>3. ASSUME Atoi(h) >= 1, Atoi(l) >= 1, Atoi(h) <= Atoi(l), Atoi(l) <= pageCount
        PROVE  1 <= h /\ h <= l /\ l <= pageCount
    <3>1. Atoi(h) <= pageCount
      BY <1>5, <1>6, <2>3
    <3>2. Atoi(h) = h /\ Atoi(l) = l
      BY <1>5, <1>6, <2>3, <3>1
    <3> QED
      BY <1>5, <2>3, <3>2
  <2> QED
    BY <2>1, <2>2, <2>3
<1>9. 1 <= h /\ h <= l /\ l <= pageCount => Pages(part) = [start |-> h, end |-> l]
  BY <1>3, <1>5, <1>6
<1> QED
  BY <1>2, <1>4, <1>7, <1>8, <1>9 DEF h, l

Parsed(parts) == [i \in DOMAIN parts |-> [start |-> Head(parts[i]), end |-> Last(parts[i])]]

LEMMA ParsedIs ==
  ASSUME NEW parts \in Seq(Seq(Nat)), NEW pageCount \in Nat, pageCount < MaxInt
  PROVE  parsePageRanges(parts, pageCount) =
           IF \A i \in DOMAIN parts : Proper(parts[i], pageCount) THEN Parsed(parts) ELSE Refused
<1>1. ASSUME NEW i \in DOMAIN parts
      PROVE  /\ parts[i] # <<>> /\ Accepted(Pages(parts[i]), pageCount) <=> Proper(parts[i], pageCount)
             /\ Proper(parts[i], pageCount) => Pages(parts[i]) = [start |-> Head(parts[i]), end |-> Last(parts[i])]
  <2>1. parts[i] \in Seq(Nat)
    OBVIOUS
  <2>2. CASE parts[i] = <<>>
    BY <2>2 DEF Proper
  <2>3. CASE parts[i] # <<>>
    BY <2>1, <2>3, PagesTyped
  <2> QED
    BY <2>2, <2>3
<1>2. CASE \A i \in DOMAIN parts : Proper(parts[i], pageCount)
  <2>1. parsePageRanges(parts, pageCount) = [i \in DOMAIN parts |-> Pages(parts[i])]
    BY <1>1, <1>2 DEF parsePageRanges
  <2>2. \A i \in DOMAIN parts : Pages(parts[i]) = [start |-> Head(parts[i]), end |-> Last(parts[i])]
    BY <1>1, <1>2
  <2>3. [i \in DOMAIN parts |-> Pages(parts[i])] = Parsed(parts)
    BY <2>2, Zenon DEF Parsed
  <2> QED
    BY <1>2, <2>1, <2>3
<1>3. CASE ~(\A i \in DOMAIN parts : Proper(parts[i], pageCount))
  <2>1. ~(\A i \in DOMAIN parts : parts[i] # <<>> /\ Accepted(Pages(parts[i]), pageCount))
    BY <1>1, <1>3
  <2>2. parsePageRanges(parts, pageCount) = Refused
    BY <2>1 DEF parsePageRanges
  <2> QED
    BY <1>3, <2>2
<1> QED
  BY <1>2, <1>3

LEMMA ParsedTyped ==
  ASSUME NEW parts \in Seq(Seq(Nat)), NEW pageCount, \A i \in DOMAIN parts : Proper(parts[i], pageCount)
  PROVE  /\ Parsed(parts) \in Seq(PageRange) /\ Len(Parsed(parts)) = Len(parts)
         /\ DOMAIN Parsed(parts) = DOMAIN parts /\ DOMAIN parts = 1 .. Len(parts)
         /\ \A i \in DOMAIN parts : Parsed(parts)[i] = [start |-> Head(parts[i]), end |-> Last(parts[i])]
<1>1. DOMAIN parts = 1 .. Len(parts) /\ Len(parts) \in Nat
  OBVIOUS
<1>2. ASSUME NEW i \in 1 .. Len(parts) PROVE [start |-> Head(parts[i]), end |-> Last(parts[i])] \in PageRange
  <2>1. parts[i] \in Seq(Nat) /\ parts[i] # <<>>
    BY <1>1 DEF Proper
  <2>2. Head(parts[i]) \in Nat /\ Last(parts[i]) \in Nat
    BY <2>1 DEF Last
  <2> QED
    BY <2>2 DEF PageRange
<1>3. Parsed(parts) \in [1 .. Len(parts) -> PageRange]
  BY <1>1, <1>2 DEF Parsed
<1>4. \A i \in DOMAIN parts : Parsed(parts)[i] = [start |-> Head(parts[i]), end |-> Last(parts[i])]
  BY DEF Parsed
<1>5. Parsed(parts) \in Seq(PageRange) /\ Len(Parsed(parts)) = Len(parts) /\ DOMAIN Parsed(parts) = 1 .. Len(parts)
  BY <1>1, <1>3, FunctionIsSeq
<1> QED
  BY <1>1, <1>4, <1>5

LEMMA NoZip == createZipFromFiles(Refused) = Refused
<1>1. <<>> \in Seq(PageRange) /\ Len(<<>>) = 0
  OBVIOUS
<1>2. createZipFromFiles(<<>>) \in Seq(Entry) /\ Len(createZipFromFiles(<<>>)) = 0
  BY <1>1, ZipIs
<1> QED
  BY <1>2 DEF Refused

\* Whatever page list is sent for a document of whatever size (SplitPDF): either
\* it is refused, and then one of its parts names no pages of the document, or
\* the archive has a file for every range, each with the pages of its range.
THEOREM SplitAlwaysDelivers ==
  ASSUME NEW mode \in {"all", "ranges"}, NEW parts \in Seq(Seq(Nat)),
         NEW pageCount \in Nat, pageCount < MaxInt
  PROVE  Delivers(mode, parts, pageCount)
<1> DEFINE ranges == IF mode = "all" THEN splitAllPages(pageCount) ELSE Parsed(parts)
           fine == mode = "all" \/ \A i \in DOMAIN parts : Proper(parts[i], pageCount)
           zip == SplitPDF(mode, parts, pageCount)
           want == Requested(mode, parts, pageCount)
<1>1. CASE pageCount >= 2 /\ fine
  <2>1. /\ ranges \in Seq(PageRange) /\ Len(ranges) = IF mode = "all" THEN pageCount ELSE Len(parts)
        /\ {<<ranges[i].start, ranges[i].end>> : i \in DOMAIN ranges} = want
    <3>1. CASE mode = "all"
      <4>1. ranges = [i \in 1 .. pageCount |-> [start |-> i, end |-> i]]
        BY <3>1 DEF splitAllPages
      <4>2. \A i \in 1 .. pageCount : [start |-> i, end |-> i] \in PageRange
        BY DEF PageRange
      <4>3. ranges \in [1 .. pageCount -> PageRange] /\ DOMAIN ranges = 1 .. pageCount
            /\ \A i \in 1 .. pageCount : ranges[i].start = i /\ ranges[i].end = i
        BY <4>1, <4>2
      <4> HIDE DEF ranges
      <4>4. ranges \in Seq(PageRange) /\ Len(ranges) = pageCount
        BY <4>3
      <4>5. want = {<<n, n>> : n \in 1 .. pageCount}
        BY <3>1 DEF Requested
      <4>6. {<<ranges[i].start, ranges[i].end>> : i \in DOMAIN ranges} = {<<n, n>> : n \in 1 .. pageCount}
        <5>1. \A i \in 1 .. pageCount : <<ranges[i].start, ranges[i].end>> = <<i, i>>
          BY <4>3
        <5>2. {<<ranges[i].start, ranges[i].end>> : i \in 1 .. pageCount} = {<<n, n>> : n \in 1 .. pageCount}
          <6>1. \A x : (\E i \in 1 .. pageCount : x = <<ranges[i].start, ranges[i].end>>)
                        <=> (\E i \in 1 .. pageCount : x = <<i, i>>)
            BY <5>1, Zenon
          <6> QED
            BY <6>1
        <5> QED
          BY <4>3, <5>2
      <4> HIDE DEF want
      <4> QED
        BY <3>1, <4>4, <4>5, <4>6
    <3>2. CASE mode = "ranges"
      <4>1. ranges = Parsed(parts) /\ \A i \in DOMAIN parts : Proper(parts[i], pageCount)
        BY <1>1, <3>2
      <4>2. /\ ranges \in Seq(PageRange) /\ Len(ranges) = Len(parts) /\ DOMAIN ranges = DOMAIN parts
            /\ \A i \in DOMAIN parts : ranges[i] = [start |-> Head(parts[i]), end |-> Last(parts[i])]
        BY <4>1, ParsedTyped
      <4>3. want = {<<Head(parts[i]), Last(parts[i])>> : i \in DOMAIN parts}
        BY <3>2 DEF Requested
      <4> HIDE DEF ranges, want
      <4>4. \A i \in DOMAIN parts : ranges[i].start = Head(parts[i]) /\ ranges[i].end = Last(parts[i])
        BY <4>2
      <4> QED
        BY <3>2, <4>2, <4>3, <4>4
    <3> QED
      BY <3>1, <3>2
  <2>2. zip = createZipFromFiles(ranges)
    BY <1>1, ParsedIs DEF SplitPDF
  <2> HIDE DEF ranges, zip, want
  <2>3. /\ zip \in Seq(Entry) /\ Len(zip) = Len(ranges)
        /\ {zip[i].pages : i \in DOMAIN zip} = Range(ranges)
    BY <2>1, <2>2, ZipIs
  <2>4. {<<zip[i].pages.start, zip[i].pages.end>> : i \in DOMAIN zip} = want
    <3>1. ASSUME NEW i \in DOMAIN zip PROVE <<zip[i].pages.start, zip[i].pages.end>> \in want
      <4>1. zip[i].pages \in Range(ranges)
        BY <2>3
      <4>2. PICK k \in DOMAIN ranges : zip[i].pages = ranges[k]
        BY <4>1 DEF Range
      <4> QED
        BY <2>1, <4>2
    <3>2. ASSUME NEW w \in want PROVE \E i \in DOMAIN zip : w = <<zip[i].pages.start, zip[i].pages.end>>
      <4>1. PICK k \in DOMAIN ranges : w = <<ranges[k].start, ranges[k].end>>
        BY <2>1
      <4>2. ranges[k] \in Range(ranges)
        BY DEF Range
      <4>3. PICK i \in DOMAIN zip : zip[i].pages = ranges[k]
        BY <2>3, <4>2
      <4> QED
        BY <4>1, <4>3
    <3> QED
      BY <3>1, <3>2
  <2> QED
    BY <1>1, <2>1, <2>3, <2>4 DEF Delivers, zip, want
<1>2. CASE ~(pageCount >= 2 /\ fine)
  <2>1. zip = Refused
    <3>1. CASE pageCount < 2
      BY <3>1 DEF SplitPDF
    <3>2. CASE ~(pageCount < 2)
      <4>1. mode = "ranges" /\ ~(\A i \in DOMAIN parts : Proper(parts[i], pageCount))
        BY <1>2, <3>2
      <4>2. parsePageRanges(parts, pageCount) = Refused
        BY <4>1, ParsedIs
      <4>3. zip = createZipFromFiles(Refused)
        BY <3>2, <4>1, <4>2 DEF SplitPDF
      <4> QED
        BY <4>3, NoZip
    <3> QED
      BY <3>1, <3>2
  <2> QED
    BY <1>2, <2>1 DEF Delivers
<1> QED
  BY <1>1, <1>2

-----------------------------------------------------------------------------
(* The order of the page list. *)

\* Exchanging elements keeps how many there are.
LEMMA Exchanged ==
  ASSUME NEW D, IsFiniteSet(D), NEW p \in [D -> D], \A k \in D : p[p[k]] = k,
         NEW A \in SUBSET D, NEW B \in SUBSET D, \A k \in D : k \in A <=> p[k] \in B
  PROVE  Cardinality(A) = Cardinality(B)
<1> DEFINE q == [k \in A |-> p[k]]
<1>1. q \in [A -> B]
  OBVIOUS
<1>2. ASSUME NEW k \in A, NEW l \in A, q[k] = q[l] PROVE k = l
  <2>1. p[k] = p[l] /\ k \in D /\ l \in D
    BY <1>2
  <2> QED
    BY <2>1
<1>3. ASSUME NEW b \in B PROVE \E k \in A : q[k] = b
  <2>1. b \in D /\ p[b] \in D /\ p[p[b]] = b
    OBVIOUS
  <2>2. p[b] \in A
    BY <2>1
  <2> QED
    BY <2>1, <2>2
<1> HIDE DEF q
<1>4. q \in Bijection(A, B)
  BY <1>1, <1>2, <1>3, Fun_IsBij
<1>5. IsFiniteSet(A)
  BY FS_Subset
<1>6. ExistsBijection(A, B)
  BY <1>4 DEF ExistsBijection
<1> QED
  BY <1>5, <1>6, FS_Bijection

\* At a place of the sorted list only one name can be.
LEMMA OnlyOne ==
  ASSUME NEW names \in Seq(Name), NEW x \in Range(names), NEW y \in Range(names), NEW k \in Nat,
         Cardinality(Earlier(names, x)) < k, k <= Cardinality(NotLater(names, x)),
         Cardinality(Earlier(names, y)) < k, k <= Cardinality(NotLater(names, y))
  PROVE  x = y
<1> DEFINE lo(z) == Cardinality(Earlier(names, z))
           hi(z) == Cardinality(NotLater(names, z))
<1>1. /\ \A z : lo(z) \in Nat /\ hi(z) \in Nat
      /\ \A z \in Range(names) : z \in Name
      /\ \A u, v \in Range(names) : NameBefore(u, v) => hi(u) <= lo(v)
  BY Counts
<1>2. ASSUME NEW u \in Range(names), NEW v \in Range(names), lo(v) < k, k <= hi(u) PROVE ~NameBefore(u, v)
  <2>1. lo(v) \in Nat /\ hi(u) \in Nat /\ (NameBefore(u, v) => hi(u) <= lo(v))
    BY <1>1
  <2> HIDE DEF lo, hi
  <2> QED
    BY <1>2, <2>1
<1>3. ~NameBefore(x, y) /\ ~NameBefore(y, x)
  BY <1>2
<1> QED
  BY <1>1, <1>3, NameOrder

LEMMA SortedAt ==
  ASSUME NEW names \in Seq(Name), NEW k \in DOMAIN names
  PROVE  /\ Sorted(names)[k] \in Range(names)
         /\ Cardinality(Earlier(names, Sorted(names)[k])) < k
         /\ k <= Cardinality(NotLater(names, Sorted(names)[k]))
<1> DEFINE P(x) == Cardinality(Earlier(names, x)) < k /\ k <= Cardinality(NotLater(names, x))
<1>1. \E x \in Range(names) : P(x)
  BY Placed
<1>2. Sorted(names)[k] = CHOOSE x \in Range(names) : P(x)
  BY DEF Sorted, Earlier, NotLater
<1> QED
  BY <1>1, <1>2

\* p exchanges places, and the names are the same.
Exchange(D, p) == p \in [D -> D] /\ \A k \in D : p[p[k]] = k

LEMMA SortedExchanged ==
  ASSUME NEW names \in Seq(Name), NEW other \in Seq(Name), Len(names) = Len(other),
         NEW p, Exchange(1 .. Len(names), p), \A k \in 1 .. Len(names) : other[k] = names[p[k]]
  PROVE  Range(other) = Range(names) /\ Sorted(other) = Sorted(names)
<1> DEFINE n == Len(names)
           D == 1 .. n
<1>1. DOMAIN names = D /\ DOMAIN other = D /\ IsFiniteSet(D) /\ n \in Nat
  BY Counts
<1>2. p \in [D -> D] /\ \A k \in D : p[p[k]] = k
  BY DEF Exchange
<1>3. Range(other) = Range(names)
  <2>1. ASSUME NEW k \in D PROVE other[k] \in Range(names) /\ names[k] \in Range(other)
    <3>1. p[k] \in D /\ other[k] = names[p[k]] /\ other[p[k]] = names[k]
      BY <1>2
    <3> HIDE DEF D
    <3> QED
      BY <1>1, <3>1 DEF Range
  <2> HIDE DEF D
  <2> QED
    BY <1>1, <2>1 DEF Range
<1>4. ASSUME NEW x
      PROVE  /\ Cardinality(Earlier(other, x)) = Cardinality(Earlier(names, x))
             /\ Cardinality(NotLater(other, x)) = Cardinality(NotLater(names, x))
  <2>1. /\ Earlier(other, x) \in SUBSET D /\ Earlier(names, x) \in SUBSET D
        /\ \A k \in D : k \in Earlier(other, x) <=> p[k] \in Earlier(names, x)
    <3>1. \A k \in D : p[k] \in D /\ other[k] = names[p[k]]
      BY <1>2
    <3> HIDE DEF D
    <3> QED
      BY <1>1, <3>1 DEF Earlier
  <2>2. /\ NotLater(other, x) \in SUBSET D /\ NotLater(names, x) \in SUBSET D
        /\ \A k \in D : k \in NotLater(other, x) <=> p[k] \in NotLater(names, x)
    <3>1. \A k \in D : p[k] \in D /\ other[k] = names[p[k]]
      BY <1>2
    <3> HIDE DEF D
    <3> QED
      BY <1>1, <3>1 DEF NotLater
  <2>3. IsFiniteSet(D)
    BY <1>1
  <2> HIDE DEF D
  <2>4. Cardinality(Earlier(other, x)) = Cardinality(Earlier(names, x))
    BY <1>2, <2>1, <2>3, Exchanged
  <2>5. Cardinality(NotLater(other, x)) = Cardinality(NotLater(names, x))
    BY <1>2, <2>2, <2>3, Exchanged
  <2> QED
    BY <2>4, <2>5
<1>5. ASSUME NEW k \in D PROVE Sorted(other)[k] = Sorted(names)[k]
  <2>1. /\ Sorted(names)[k] \in Range(names)
        /\ Cardinality(Earlier(names, Sorted(names)[k])) < k
        /\ k <= Cardinality(NotLater(names, Sorted(names)[k]))
    BY <1>1, SortedAt
  <2>2. /\ Sorted(other)[k] \in Range(other)
        /\ Cardinality(Earlier(other, Sorted(other)[k])) < k
        /\ k <= Cardinality(NotLater(other, Sorted(other)[k]))
    BY <1>1, SortedAt
  <2>3. /\ Sorted(other)[k] \in Range(names)
        /\ Cardinality(Earlier(names, Sorted(other)[k])) < k
        /\ k <= Cardinality(NotLater(names, Sorted(other)[k]))
    BY <1>3, <1>4, <2>2
  <2>4. k \in Nat
    OBVIOUS
  <2> QED
    BY <2>1, <2>3, <2>4, OnlyOne
<1>6. Sorted(names) \in Seq(Name) /\ Len(Sorted(names)) = n /\ Sorted(other) \in Seq(Name) /\ Len(Sorted(other)) = n
  BY SortedIs
<1>7. Sorted(other) = Sorted(names)
  BY <1>5, <1>6, SeqEqual
<1> QED
  BY <1>3, <1>7

\* The order in which ranges are written does not show in the archive.
LEMMA ZipExchanged ==
  ASSUME NEW ranges \in Seq(PageRange), NEW other \in Seq(PageRange), Len(ranges) = Len(other),
         NEW p, Exchange(1 .. Len(ranges), p), \A k \in 1 .. Len(ranges) : other[k] = ranges[p[k]]
  PROVE  createZipFromFiles(other) = createZipFromFiles(ranges)
<1> DEFINE n == Len(ranges)
           D == 1 .. n
<1>1. /\ n \in Nat /\ DOMAIN ranges = D /\ DOMAIN other = D
      /\ NamesOf(ranges) \in Seq(Name) /\ Len(NamesOf(ranges)) = n
      /\ NamesOf(other) \in Seq(Name) /\ Len(NamesOf(other)) = n
  BY NamesTyped
<1>2. p \in [D -> D]
  BY DEF Exchange
<1>3. \A k \in D : NamesOf(ranges)[k] = PieceName(ranges[k]) /\ NamesOf(other)[k] = PieceName(other[k])
  BY <1>1 DEF NamesOf
<1>4. \A k \in D : NamesOf(other)[k] = NamesOf(ranges)[p[k]]
  BY <1>2, <1>3
<1>5. Sorted(NamesOf(other)) = Sorted(NamesOf(ranges)) /\ Range(NamesOf(other)) = Range(NamesOf(ranges))
  BY <1>1, <1>4, SortedExchanged
<1> DEFINE s == Sorted(NamesOf(ranges))
<1>6. s \in Seq(Name) /\ Len(s) = n /\ Range(s) = Range(NamesOf(ranges))
  BY <1>1, SortedIs
<1>7. createZipFromFiles(ranges) = [i \in DOMAIN s |-> [name |-> s[i], pages |-> PagesIn(ranges, s[i])]]
  BY Zenon DEF createZipFromFiles, NamesOf
<1>8. createZipFromFiles(other) = [i \in DOMAIN s |-> [name |-> s[i], pages |-> PagesIn(other, s[i])]]
  BY <1>5, Zenon DEF createZipFromFiles, NamesOf
<1> HIDE DEF s
<1>9. ASSUME NEW i \in DOMAIN s PROVE PagesIn(other, s[i]) = PagesIn(ranges, s[i])
  <2>1. s[i] \in Range(s)
    BY DEF Range
  <2>2. PICK k \in D : s[i] = PieceName(other[k])
    <3>1. s[i] \in Range(NamesOf(other))
      BY <1>5, <1>6, <2>1
    <3> QED
      BY <1>1, <3>1, NamesTyped
  <2>3. other[k] = ranges[p[k]] /\ p[k] \in D
    BY <1>2
  <2>4. PagesIn(other, s[i]) = other[k]
    BY <1>1, <2>2, PagesKept
  <2>5. PagesIn(ranges, s[i]) = ranges[p[k]]
    <3>1. s[i] = PieceName(ranges[p[k]])
      BY <2>2, <2>3
    <3>2. PagesIn(ranges, PieceName(ranges[p[k]])) = ranges[p[k]]
      BY <1>1, <2>3, PagesKept
    <3> QED
      BY <3>1, <3>2, Zenon
  <2> QED
    BY <2>3, <2>4, <2>5
<1> QED
  BY <1>7, <1>8, <1>9, Zenon

\* "Sort files to ensure deterministic ZIP ordering" (createZipFromFiles): in
\* whatever order the parts of a page list are written, the archive is the same.
THEOREM SplitAlwaysDeterministic ==
  ASSUME NEW parts \in Seq(Seq(Nat)), NEW pageCount \in Nat, pageCount < MaxInt
  PROVE  Deterministic(parts, pageCount)
<1> SUFFICES ASSUME NEW i \in DOMAIN parts, NEW j \in DOMAIN parts
             PROVE  SplitPDF("ranges", [parts EXCEPT ![i] = parts[j], ![j] = parts[i]], pageCount)
                      = SplitPDF("ranges", parts, pageCount)
  BY Zenon DEF Deterministic
<1> DEFINE n == Len(parts)
           D == 1 .. n
           swapped == [parts EXCEPT ![i] = parts[j], ![j] = parts[i]]
           p == [k \in D |-> IF k = i THEN j ELSE IF k = j THEN i ELSE k]
<1>1. n \in Nat /\ DOMAIN parts = D /\ i \in D /\ j \in D /\ \A k \in D : parts[k] \in Seq(Nat)
  OBVIOUS
<1>2. Exchange(D, p)
  <2> HIDE DEF D
  <2> QED
    BY <1>1 DEF Exchange
<1>3. swapped \in [D -> Seq(Nat)] /\ \A k \in D : swapped[k] = parts[p[k]]
  <2> HIDE DEF D
  <2> QED
    BY <1>1
<1> HIDE DEF swapped, p
<1>4. swapped \in Seq(Seq(Nat)) /\ Len(swapped) = n /\ DOMAIN swapped = D
  BY <1>1, <1>3, FunctionIsSeq
<1>5. p \in [D -> D] /\ \A k \in D : p[p[k]] = k
  BY <1>2 DEF Exchange
<1>6. (\A k \in D : Proper(swapped[k], pageCount)) <=> (\A k \in D : Proper(parts[k], pageCount))
  <2> HIDE DEF D
  <2>1. ASSUME \A k \in D : Proper(swapped[k], pageCount), NEW k \in D PROVE Proper(parts[k], pageCount)
    <3>1. p[k] \in D /\ swapped[p[k]] = parts[k]
      BY <1>3, <1>5
    <3> QED
      BY <2>1, <3>1
  <2>2. ASSUME \A k \in D : Proper(parts[k], pageCount), NEW k \in D PROVE Proper(swapped[k], pageCount)
    BY <1>3, <1>5, <2>2
  <2> QED
    BY <2>1, <2>2
<1>7. createZipFromFiles(parsePageRanges(swapped, pageCount)) = createZipFromFiles(parsePageRanges(parts, pageCount))
  <2>1. CASE \A k \in D : Proper(parts[k], pageCount)
    <3>1. parsePageRanges(parts, pageCount) = Parsed(parts) /\ parsePageRanges(swapped, pageCount) = Parsed(swapped)
      BY <1>1, <1>4, <1>6, <2>1, ParsedIs
    <3>2. /\ Parsed(parts) \in Seq(PageRange) /\ Len(Parsed(parts)) = n
          /\ \A k \in D : Parsed(parts)[k] = [start |-> Head(parts[k]), end |-> Last(parts[k])]
      BY <1>1, <2>1, ParsedTyped
    <3>3. /\ Parsed(swapped) \in Seq(PageRange) /\ Len(Parsed(swapped)) = n
          /\ \A k \in D : Parsed(swapped)[k] = [start |-> Head(swapped[k]), end |-> Last(swapped[k])]
      BY <1>4, <1>6, <2>1, ParsedTyped
    <3>4. ASSUME NEW k \in D PROVE Parsed(swapped)[k] = Parsed(parts)[p[k]]
      <4> HIDE DEF D
      <4>1. p[k] \in D /\ swapped[k] = parts[p[k]]
        BY Zenon, <1>3, <1>5
      <4>2. Parsed(swapped)[k] = [start |-> Head(swapped[k]), end |-> Last(swapped[k])]
        BY Zenon, <3>3
      <4>3. Parsed(parts)[p[k]] = [start |-> Head(parts[p[k]]), end |-> Last(parts[p[k]])]
        BY Zenon, <3>2, <4>1
      <4> QED
        BY Zenon, <4>1, <4>2, <4>3
    <3> QED
      BY <1>2, <3>1, <3>2, <3>3, <3>4, ZipExchanged
  <2>2. CASE ~(\A k \in D : Proper(parts[k], pageCount))
    <3>1. parsePageRanges(parts, pageCount) = Refused /\ parsePageRanges(swapped, pageCount) = Refused
      BY <1>1, <1>4, <1>6, <2>2, ParsedIs
    <3> QED
      BY <3>1
  <2> QED
    BY <2>1, <2>2
<1>8. SplitPDF("ranges", swapped, pageCount) = SplitPDF("ranges", parts, pageCount)
  BY <1>7 DEF SplitPDF
<1> QED
  BY <1>8 DEF swapped
=============================================================================
