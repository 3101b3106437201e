----------------------------- MODULE InputProofs -----------------------------
(***************************************************************************)
(* Theorems about what a request's input alone decides, for inputs of any  *)
(* size: the rounding of cross rates, the series of a history, the limits  *)
(* on an upload and the name it is stored under, and the files of a merge, *)
(* for forms with any number of parts.  At the end, the invariants of the  *)
(* inputs run.                                                             *)
(***************************************************************************)
EXTENDS MCInputs, SplitProofs

-----------------------------------------------------------------------------
(* Rounding. *)

\* (2n + d) div (2d) is within half of n / d.
LEMMA Nearest ==
  ASSUME NEW n \in Nat, NEW d \in Nat \ {0}
  PROVE  LET q == (2 * n + d) \div (2 * d) IN
         /\ q \in Nat /\ 2 * d * q - 2 * n <= d /\ 2 * n - 2 * d * q <= d
<1> DEFINE m == 2 * n + d
           k == 2 * d
<1>1. m \in Nat /\ k \in Nat \ {0}
  OBVIOUS
<1>2. ASSUME NEW i \in Nat, NEW j \in Nat \ {0}
      PROVE  /\ i \div j \in Nat /\ j * (i \div j) <= i /\ i < j * (i \div j) + j
  OBVIOUS
<1>3. m \div k \in Nat /\ k * (m \div k) <= m /\ m < k * (m \div k) + k
  BY <1>1, <1>2
<1> DEFINE q == m \div k
<1>4. q \in Nat /\ k * q <= m /\ m < k * q + k
  BY <1>3
<1> HIDE DEF q
<1>5. 2 * d * q - 2 * n <= d /\ 2 * n - 2 * d * q <= d
  BY <1>4
<1> QED
  BY <1>4, <1>5 DEF q

\* A product of factors that are small is small.
LEMMA Within ==
  ASSUME NEW e \in Int, NEW s \in Nat, -s <= e, e <= s, NEW k \in Nat
  PROVE  k * e \in Int /\ k * s \in Nat /\ -(k * s) <= k * e /\ k * e <= k * s
<1>1. k * (s - e) >= 0 /\ k * (s + e) >= 0
  OBVIOUS
<1> QED
  BY <1>1

LEMMA WithinSquare ==
  ASSUME NEW e \in Int, NEW f \in Int, NEW s \in Nat, -s <= e, e <= s, -s <= f, f <= s
  PROVE  e * f \in Int /\ -(s * s) <= e * f /\ e * f <= s * s
<1>1. CASE f >= 0
  <2>1. -(f * s) <= f * e /\ f * e <= f * s
    BY <1>1, Within
  <2>2. f * s <= s * s
    BY <1>1
  <2> QED
    BY <1>1, <2>1, <2>2
<1>2. CASE f < 0
  <2>1. -f \in Nat /\ -f <= s
    BY <1>2
  <2>2. -((-f) * s) <= (-f) * e /\ (-f) * e <= (-f) * s
    BY <2>1, Within
  <2>3. (-f) * s <= s * s
    BY <2>1
  <2> QED
    BY <2>1, <2>2, <2>3
<1> QED
  BY <1>1, <1>2

LEMMA RateNearest ==
  ASSUME NEW x \in Nat, NEW scale \in Nat \ {0}
  PROVE  LET a == roundRate(x, scale) IN
         /\ a \in Nat /\ 2 * scale * a - 2 * (x * Precision) <= scale
         /\ 2 * (x * Precision) - 2 * scale * a <= scale
<1>1. x * Precision \in Nat /\ 2 * x * Precision = 2 * (x * Precision)
  BY SeriesAssumption
<1> QED
  BY <1>1, Nearest DEF roundRate

LEMMA ProductNearest ==
  ASSUME NEW a \in Nat, NEW b \in Nat
  PROVE  LET c == roundProduct(a, b) IN
         /\ c \in Nat /\ 2 * Precision * c - 2 * (a * b) <= Precision
         /\ 2 * (a * b) - 2 * Precision * c <= Precision
<1>1. a * b \in Nat /\ 2 * a * b = 2 * (a * b) /\ Precision \in Nat \ {0}
  BY SeriesAssumption
<1> QED
  BY <1>1, Nearest DEF roundProduct

\* Whatever the rates and the scale, a cross rate is off the product of its legs
\* by no more than three roundings (roundRate of each leg, roundRate of their
\* product in combineByDate) can add up to.
THEOREM CrossRatesClose ==
  \A x, y \in Nat, scale \in Nat \ {0} : RoundedClose(x, y, scale)
<1> SUFFICES ASSUME NEW x \in Nat, NEW y \in Nat, NEW s \in Nat \ {0} PROVE RoundedClose(x, y, s)
  OBVIOUS
<1> DEFINE P == Precision
           a == roundRate(x, s)
           b == roundRate(y, s)
           c == roundProduct(a, b)
           e == 2 * s * a - 2 * (x * P)
           f == 2 * s * b - 2 * (y * P)
           g == 2 * P * c - 2 * (a * b)
           off == 4 * c * P * s * s - 4 * P * P * x * y
           bound == 2 * P * s * s + 2 * P * s * (x + y) + s * s
<1>1. P \in Nat /\ a \in Nat /\ b \in Nat
  BY RateNearest, SeriesAssumption
<1>2. /\ e \in Int /\ -s <= e /\ e <= s /\ f \in Int /\ -s <= f /\ f <= s
  <2>1. x * P \in Nat /\ y * P \in Nat /\ s * a \in Nat /\ s * b \in Nat
    BY <1>1
  <2>2. /\ 2 * s * a - 2 * (x * P) <= s /\ 2 * (x * P) - 2 * s * a <= s
        /\ 2 * s * b - 2 * (y * P) <= s /\ 2 * (y * P) - 2 * s * b <= s
    BY RateNearest
  <2> HIDE DEF P, a, b
  <2> QED
    BY <1>1, <2>1, <2>2
<1>3. c \in Nat /\ g \in Int /\ -P <= g /\ g <= P
  <2>1. c \in Nat /\ 2 * P * c - 2 * (a * b) <= P /\ 2 * (a * b) - 2 * P * c <= P
    BY <1>1, ProductNearest
  <2> HIDE DEF P, a, b, c
  <2>2. a * b \in Nat /\ P * c \in Nat
    BY <1>1, <2>1
  <2> QED
    BY <1>1, <2>1, <2>2
<1>4. off = 2 * (s * s) * g + 2 * P * (x * f + y * e) + e * f
  <2> HIDE DEF P, a, b, c
  <2> QED
    BY <1>1, <1>3
<1> HIDE DEF a, b, c, e, f, g, P
<1>5. -(s * s * P) <= s * s * g /\ s * s * g <= s * s * P
  BY <1>1, <1>3, Within
<1>6. -(x * s) <= x * f /\ x * f <= x * s /\ -(y * s) <= y * e /\ y * e <= y * s
  BY <1>2, Within
<1>7. -(P * (x * s + y * s)) <= P * (x * f + y * e) /\ P * (x * f + y * e) <= P * (x * s + y * s)
  <2>1. /\ x * f + y * e \in Int /\ x * s + y * s \in Nat
        /\ -(x * s + y * s) <= x * f + y * e /\ x * f + y * e <= x * s + y * s
    BY <1>2, <1>6
  <2> QED
    BY <1>1, <2>1, Within
<1>8. -(s * s) <= e * f /\ e * f <= s * s
  BY <1>2, WithinSquare
<1>9. bound = 2 * (s * s * P) + 2 * (P * (x * s + y * s)) + s * s
  BY <1>1
<1>10. off = 2 * (s * s * g) + 2 * (P * (x * f + y * e)) + e * f
  BY <1>1, <1>2, <1>3, <1>4
<1>11. /\ s * s * P \in Int /\ P * (x * s + y * s) \in Int /\ s * s \in Int
       /\ s * s * g \in Int /\ P * (x * f + y * e) \in Int /\ e * f \in Int
  BY <1>1, <1>2, <1>3
<1>12. off <= bound /\ -off <= bound
  <2> HIDE DEF off, bound
  <2> QED
    BY <1>5, <1>7, <1>8, <1>9, <1>10, <1>11
<1> QED
  BY <1>12 DEF RoundedClose, P, c, a, b
-----------------------------------------------------------------------------
(* The series of a history. *)

\* The numbers of a finite set, smallest first.
LEMMA NthIs ==
  ASSUME NEW S \in SUBSET Nat, IsFiniteSet(S)
  PROVE  /\ Cardinality(S) \in Nat
         /\ \A k \in 1 .. Cardinality(S) : Nth(S, k) \in S
         /\ \A x \in S : \E k \in 1 .. Cardinality(S) : Nth(S, k) = x
         /\ \A i, j \in 1 .. Cardinality(S) : i < j => Nth(S, i) < Nth(S, j)
<1> DEFINE n == Cardinality(S)
           R == {p \in S \X S : p[1] < p[2]}
           c == [x \in S |-> Cardinality({m \in S : m <= x})]
           s == [k \in 1 .. n |-> Nth(S, k)]
<1>1. \A x, y \in S : <<x, y>> \in R <=> x < y
  OBVIOUS
<1>2. /\ \A x \in S : <<x, x>> \notin R
      /\ \A x, y, z \in S : <<x, y>> \in R /\ <<y, z>> \in R => <<x, z>> \in R
      /\ \A x, y \in S : x = y \/ <<x, y>> \in R \/ <<y, x>> \in R
  <2> HIDE DEF R
  <2> QED
    BY <1>1
<1>3. \A x \in S : c[x] = Rank(S, R, x)
  <2> TAKE x \in S
  <2>1. Below(S, R, x) = {m \in S : m < x}
    <3> HIDE DEF R
    <3> QED
      BY <1>1 DEF Below
  <2> DEFINE B == {m \in S : m < x}
             C == {m \in S : m <= x}
  <2>2. C = B \cup {x} /\ x \notin B /\ B \in SUBSET S
    <3>1. \A m \in S : m <= x <=> m < x \/ m = x
      OBVIOUS
    <3>2. ~(x < x)
      OBVIOUS
    <3> QED
      BY <3>1, <3>2
  <2> HIDE DEF B, C
  <2>3. IsFiniteSet(B)
    BY <2>2, FS_Subset
  <2>4. Cardinality(C) = Cardinality(B) + 1
    BY <2>2, <2>3, FS_AddElement
  <2>5. Cardinality(C) = Rank(S, R, x)
    BY <2>1, <2>4 DEF Rank, B
  <2> QED
    BY <2>5 DEF C
<1> HIDE DEF R
<1>4. /\ \A x \in S : Rank(S, R, x) \in 1 .. n
      /\ \A x, y \in S : <<x, y>> \in R => Rank(S, R, x) < Rank(S, R, y)
      /\ \A k \in 1 .. n : \E x \in S : Rank(S, R, x) = k
  BY <1>2, Ranks
<1>6. \A k : Nth(S, k) = CHOOSE x \in S : c[x] = k
  BY DEF Nth
<1> HIDE DEF c
<1>5. /\ \A x \in S : c[x] \in 1 .. n
      /\ \A x, y \in S : x < y => c[x] < c[y]
      /\ \A k \in 1 .. n : \E x \in S : c[x] = k
  <2>1. \A x \in S : c[x] \in 1 .. n
    BY <1>3, <1>4
  <2>2. ASSUME NEW x \in S, NEW y \in S, x < y PROVE c[x] < c[y]
    <3>1. <<x, y>> \in R
      BY <1>1, <2>2
    <3>2. Rank(S, R, x) < Rank(S, R, y)
      BY <1>4, <3>1, Zenon
    <3> QED
      BY <1>3, <3>2
  <2>3. \A k \in 1 .. n : \E x \in S : c[x] = k
    BY <1>3, <1>4
  <2> QED
    BY <2>1, <2>2, <2>3
<1>7. n \in Nat
  BY FS_CardinalityType
<1> HIDE DEF n
<1>8. \A k \in 1 .. n : Nth(S, k) \in S /\ c[Nth(S, k)] = k
  BY <1>5, <1>6
<1>9. ASSUME NEW x \in S, NEW y \in S, c[x] = c[y] PROVE x = y
  <2>1. c[x] \in 1 .. n /\ ~(c[x] < c[y]) /\ ~(c[y] < c[x])
    BY <1>5, <1>7, <1>9
  <2>2. ~(x < y) /\ ~(y < x) /\ x \in Nat /\ y \in Nat
    BY <1>5, <2>1
  <2> QED
    BY <2>2
<1>10. \A x \in S : \E k \in 1 .. n : Nth(S, k) = x
  BY <1>5, <1>8, <1>9
<1>11. ASSUME NEW i \in 1 .. n, NEW j \in 1 .. n, i < j PROVE Nth(S, i) < Nth(S, j)
  <2> DEFINE x == Nth(S, i)
             y == Nth(S, j)
  <2>1. x \in S /\ y \in S /\ c[x] = i /\ c[y] = j
    BY <1>8
  <2> HIDE DEF x, y
  <2>2. x # y /\ ~(c[y] < c[x]) /\ x \in Nat /\ y \in Nat
    BY <1>7, <1>11, <2>1
  <2>3. ~(y < x)
    BY <1>5, <2>1, <2>2
  <2>4. x < y
    BY <2>2, <2>3
  <2> QED
    BY <2>4 DEF x, y
<1> QED
  BY <1>7, <1>8, <1>10, <1>11 DEF n

\* Days, weeks, months and years.
LEMMA Division ==
  ASSUME NEW i \in Nat, NEW j \in Nat \ {0}
  PROVE  /\ i \div j \in Nat /\ j * (i \div j) <= i /\ i < j * (i \div j) + j
         /\ i % j \in Nat /\ i % j < j
<1>1. i \div j \in Nat /\ j * (i \div j) <= i /\ i < j * (i \div j) + j
  OBVIOUS
<1>2. i % j \in Nat /\ i % j < j
  OBVIOUS
<1> QED
  BY <1>1, <1>2

LEMMA Remainder ==
  ASSUME NEW i \in Nat, NEW j \in Nat \ {0}
  PROVE  i % j = i - j * (i \div j)
OBVIOUS

LEMMA DivMonotone ==
  ASSUME NEW i \in Nat, NEW k \in Nat, i <= k, NEW j \in Nat \ {0}
  PROVE  i \div j <= k \div j
<1> DEFINE p == i \div j
           q == k \div j
<1>1. p \in Nat /\ j * p <= i /\ i < j * p + j /\ q \in Nat /\ j * q <= k /\ k < j * q + j
  BY Division
<1> HIDE DEF p, q
<1>2. ASSUME q < p PROVE FALSE
  <2>1. j * (q + 1) <= j * p
    BY <1>1, <1>2
  <2>2. j * (q + 1) = j * q + j
    BY <1>1
  <2>3. j * p \in Nat /\ j * q \in Nat /\ j * (q + 1) \in Nat
    BY <1>1
  <2> QED
    BY <1>1, <2>1, <2>2, <2>3
<1>3. p <= q
  BY <1>1, <1>2
<1> QED
  BY <1>3 DEF p, q

\* Periods come in the order of days, and two days have the same bucket exactly
\* when they are in the same week or month.
LEMMA WeekIs ==
  ASSUME NEW d \in Nat, NEW e \in Nat
  PROVE  /\ Week(d) \in Nat
         /\ d <= e => Week(d) <= Week(e)
         /\ ISOWeek(d) = ISOWeek(e) <=> Week(d) = Week(e)
<1>1. Week(d) \in Nat /\ Week(e) \in Nat
  BY Division, SeriesAssumption DEF Week
<1>2. d <= e => Week(d) <= Week(e)
  BY DivMonotone, SeriesAssumption DEF Week
<1>3. ASSUME NEW v \in Nat, NEW w \in Nat, v < w, WeekYear(v) = WeekYear(w)
      PROVE  Cardinality({u \in 0 .. v : WeekYear(u) = WeekYear(v)})
               # Cardinality({u \in 0 .. w : WeekYear(u) = WeekYear(w)})
  <2> DEFINE A == {u \in 0 .. v : WeekYear(u) = WeekYear(v)}
             B == {u \in 0 .. w : WeekYear(u) = WeekYear(w)}
  <2>1. \A u \in 0 .. v : u \in 0 .. w
    BY <1>3
  <2>2. A \in SUBSET B
    BY <1>3, <2>1
  <2>3. w \in B /\ w \notin A
    <3>1. w \in 0 .. w /\ w \notin 0 .. v
      BY <1>3
    <3> QED
      BY <3>1
  <2>4. IsFiniteSet(B)
    <3>1. IsFiniteSet(0 .. w)
      BY FS_Interval
    <3>2. B \in SUBSET (0 .. w)
      OBVIOUS
    <3> HIDE DEF B
    <3> QED
      BY <3>1, <3>2, FS_Subset
  <2> HIDE DEF A, B
  <2>5. Cardinality(A) < Cardinality(B) /\ Cardinality(A) \in Nat /\ Cardinality(B) \in Nat
    <3>1. A # B
      BY <2>3
    <3> QED
      BY <2>2, <2>4, <3>1, StrictSubset
  <2>6. Cardinality(A) # Cardinality(B)
    BY <2>5
  <2> QED
    BY <2>6 DEF A, B
<1> DEFINE v == Week(d)
           w == Week(e)
<1>4. ISOWeek(d) = ISOWeek(e) <=>
        /\ WeekYear(v) = WeekYear(w)
        /\ Cardinality({u \in 0 .. v : WeekYear(u) = WeekYear(v)})
             = Cardinality({u \in 0 .. w : WeekYear(u) = WeekYear(w)})
  BY DEF ISOWeek
<1>5. v \in Nat /\ w \in Nat
  BY <1>1
<1> HIDE DEF v, w
<1>6. ISOWeek(d) = ISOWeek(e) <=> v = w
  <2>1. CASE v = w
    BY <1>4, <2>1
  <2>2. CASE v < w
    <3>1. v # w
      BY <1>5, <2>2
    <3> QED
      BY <1>3, <1>4, <1>5, <2>2, <3>1, Zenon
  <2>3. CASE w < v
    <3>1. v # w
      BY <1>5, <2>3
    <3> QED
      BY <1>3, <1>4, <1>5, <2>3, <3>1, Zenon
  <2>4. v = w \/ v < w \/ w < v
    BY <1>5
  <2> QED
    BY <2>1, <2>2, <2>3, <2>4
<1> QED
  BY <1>1, <1>2, <1>6 DEF v, w

LEMMA MonthIs ==
  ASSUME NEW d \in Nat, NEW e \in Nat
  PROVE  LET m == (d % YearLength) \div MonthLength
             n == (e % YearLength) \div MonthLength
             p == Year(d) * YearLength + m
             q == Year(e) * YearLength + n
         IN  /\ p \in Nat
             /\ d <= e => p <= q
             /\ p = q <=> Year(d) = Year(e) /\ m = n
<1> DEFINE y == Year(d)
           z == Year(e)
           a == d % YearLength
           b == e % YearLength
           m == a \div MonthLength
           n == b \div MonthLength
           L == YearLength
<1>1. L \in Nat \ {0} /\ MonthLength \in Nat \ {0}
  BY SeriesAssumption
<1>2. /\ y \in Nat /\ z \in Nat /\ a \in Nat /\ b \in Nat /\ a < L /\ b < L
      /\ a = d - L * y /\ b = e - L * z
  BY <1>1, Division, Remainder DEF Year
<1>3. d <= e => y <= z
  BY <1>1, DivMonotone DEF Year
<1> HIDE DEF y, z, a, b
<1>4. m \in Nat /\ n \in Nat /\ m < L /\ n < L
  <2>1. ASSUME NEW i \in Nat PROVE i \div MonthLength \in Nat /\ i \div MonthLength <= i
    <3> DEFINE k == i \div MonthLength
    <3>1. k \in Nat /\ MonthLength * k <= i
      BY <1>1, Division
    <3> HIDE DEF k
    <3>2. k <= MonthLength * k
      BY <1>1, <3>1
    <3>3. MonthLength * k \in Nat
      BY <1>1, <3>1
    <3>4. k <= i
      BY <3>1, <3>2, <3>3
    <3> QED
      BY <3>1, <3>4 DEF k
  <2>2. m \in Nat /\ m <= a /\ n \in Nat /\ n <= b
    BY <1>2, <2>1
  <2> HIDE DEF m, n
  <2> QED
    BY <1>1, <1>2, <2>2
<1>5. a <= b => m <= n
  BY <1>1, <1>2, DivMonotone
<1> HIDE DEF m, n, L
<1>6. ASSUME NEW i \in Nat, NEW j \in Nat, i < j PROVE i * L + L <= j * L
  <2>1. (i + 1) * L <= j * L
    BY <1>1, <1>6
  <2>2. (i + 1) * L = i * L + L
    BY <1>1
  <2> QED
    BY <2>1, <2>2
<1>7. y * L \in Nat /\ z * L \in Nat
  BY <1>1, <1>2
<1> DEFINE p == y * L + m
           q == z * L + n
<1>8. y < z => p < q
  BY <1>1, <1>2, <1>4, <1>6, <1>7
<1>9. z < y => q < p
  BY <1>1, <1>2, <1>4, <1>6, <1>7
<1>10. p \in Nat /\ q \in Nat
  BY <1>4, <1>7
<1>11. y = z => (p = q <=> m = n) /\ (d <= e => p <= q)
  <2> SUFFICES ASSUME y = z PROVE (p = q <=> m = n) /\ (d <= e => p <= q)
    OBVIOUS
  <2>1. p = y * L + m /\ q = y * L + n
    OBVIOUS
  <2>2. a = d - L * y /\ b = e - L * y
    BY <1>2
  <2> DEFINE c == L * y
             f == y * L
  <2>3. c \in Nat /\ f \in Nat /\ a = d - c /\ b = e - c /\ p = f + m /\ q = f + n
    BY <1>1, <1>2, <1>7, <2>1, <2>2
  <2> HIDE DEF c, f, p, q
  <2>4. d <= e => a <= b
    BY <2>3
  <2> QED
    BY <1>4, <1>5, <2>3, <2>4
<1> HIDE DEF p, q
<1>12. y = z \/ y < z \/ z < y
  BY <1>2
<1>13. d <= e => p <= q
  <2>1. CASE y = z
    BY <1>11, <2>1
  <2>2. CASE y < z
    BY <1>8, <1>10, <2>2
  <2>3. CASE z < y
    BY <1>2, <1>3, <2>3
  <2> QED
    BY <1>12, <2>1, <2>2, <2>3
<1>14. p = q <=> y = z /\ m = n
  <2>1. CASE y = z
    BY <1>11, <2>1
  <2>2. CASE y < z
    <3>1. y # z /\ p # q
      BY <1>2, <1>8, <1>10, <2>2
    <3> QED
      BY <3>1
  <2>3. CASE z < y
    <3>1. y # z /\ p # q
      BY <1>2, <1>9, <1>10, <2>3
    <3> QED
      BY <3>1
  <2> QED
    BY <1>12, <2>1, <2>2, <2>3
<1> QED
  BY <1>10, <1>13, <1>14 DEF p, q, y, z, m, n, a, b, L

Aggregation == {"daily", "weekly", "monthly"}

LEMMA PeriodIs ==
  ASSUME NEW agg \in Aggregation, NEW d \in Nat, NEW e \in Nat
  PROVE  /\ Period(agg, d) \in Nat
         /\ d <= e => Period(agg, d) <= Period(agg, e)
         /\ bucket(agg, d) = bucket(agg, e) <=> Period(agg, d) = Period(agg, e)
         /\ agg = "daily" => Period(agg, d) = d
<1>1. CASE agg = "daily"
  <2>1. Period(agg, d) = d /\ Period(agg, e) = e /\ bucket(agg, d) = <<d>> /\ bucket(agg, e) = <<e>>
    BY <1>1 DEF Period, bucket
  <2>2. <<d>> = <<e>> <=> d = e
    OBVIOUS
  <2> QED
    BY <2>1, <2>2
<1>2. CASE agg = "weekly"
  <2>1. /\ Period(agg, d) = Week(d) /\ Period(agg, e) = Week(e)
        /\ bucket(agg, d) = ISOWeek(d) /\ bucket(agg, e) = ISOWeek(e)
    BY <1>2 DEF Period, bucket
  <2> QED
    BY <1>2, <2>1, WeekIs
<1>3. CASE agg = "monthly"
  <2> DEFINE m == (d % YearLength) \div MonthLength
             n == (e % YearLength) \div MonthLength
             p == Year(d) * YearLength + m
             q == Year(e) * YearLength + n
  <2>1. /\ Period(agg, d) = p /\ Period(agg, e) = q
        /\ bucket(agg, d) = <<Year(d), m>> /\ bucket(agg, e) = <<Year(e), n>>
    BY <1>3 DEF Period, bucket
  <2>2. p \in Nat /\ (d <= e => p <= q) /\ (p = q <=> Year(d) = Year(e) /\ m = n)
    BY MonthIs
  <2> HIDE DEF p, q, m, n
  <2>3. <<Year(d), m>> = <<Year(e), n>> <=> Year(d) = Year(e) /\ m = n
    OBVIOUS
  <2> QED
    BY <1>3, <2>1, <2>2, <2>3
<1> QED
  BY <1>1, <1>2, <1>3 DEF Aggregation

\* Points in the order of their dates, of which no two are of the same day.
Dated(points, S) ==
  /\ points \in Seq(S) /\ \A p \in S : p.date \in Nat
  /\ \A i, j \in 1 .. Len(points) : i < j => points[i].date < points[j].date

LEMMA DatedIs ==
  ASSUME NEW points, NEW S, Dated(points, S)
  PROVE  /\ Len(points) \in Nat /\ DOMAIN points = 1 .. Len(points)
         /\ \A i \in 1 .. Len(points) : points[i] \in S /\ points[i].date \in Nat
         /\ \A i, j \in 1 .. Len(points) : points[i].date <= points[j].date <=> i <= j
<1>1. /\ points \in Seq(S)
      /\ \A p \in S : p.date \in Nat
      /\ \A i, j \in 1 .. Len(points) : i < j => points[i].date < points[j].date
  BY Zenon DEF Dated
<1>2. Len(points) \in Nat /\ DOMAIN points = 1 .. Len(points) /\ \A i \in 1 .. Len(points) : points[i] \in S
  BY <1>1
<1>3. \A i \in 1 .. Len(points) : points[i].date \in Nat
  BY <1>1, <1>2
<1> DEFINE n == Len(points)
           d == [i \in 1 .. n |-> points[i].date]
<1>4. /\ \A i \in 1 .. n : d[i] \in Nat
      /\ \A i, j \in 1 .. n : i < j => d[i] < d[j]
  BY <1>1, <1>3
<1>5. \A i \in 1 .. n : d[i] = points[i].date
  OBVIOUS
<1> HIDE DEF d, n
<1>6. \A i, j \in 1 .. n : d[i] <= d[j] <=> i <= j
  <2> SUFFICES ASSUME NEW i \in 1 .. n, NEW j \in 1 .. n PROVE d[i] <= d[j] <=> i <= j
    OBVIOUS
  <2>1. CASE i < j
    BY <1>4, <2>1
  <2>2. CASE i = j
    BY <1>4, <2>2
  <2>3. CASE j < i
    <3>1. d[j] < d[i] /\ d[i] \in Nat /\ d[j] \in Nat
      BY <1>4, <2>3
    <3> QED
      BY <2>3, <3>1
  <2>4. i < j \/ i = j \/ j < i
    <3>1. n \in Nat
      BY <1>2 DEF n
    <3> QED
      BY <3>1
  <2> QED
    BY <2>1, <2>2, <2>3, <2>4
<1> QED
  BY <1>2, <1>3, <1>5, <1>6 DEF n

\* What is kept of the first n points: of each period the last one, in order.
InPeriod(agg, p, q) == Period(agg, p.date) = Period(agg, q.date)
Picks(points, n, acc, agg, S) ==
  /\ Dated(acc, S)
  /\ \A i \in 1 .. Len(acc) : \E k \in 1 .. n :
       acc[i] = points[k] /\ \A j \in 1 .. n : InPeriod(agg, points[j], points[k]) => j <= k
  /\ \A k \in 1 .. n : \E i \in 1 .. Len(acc) : InPeriod(agg, acc[i], points[k])

\* Among what is kept so far only the last point can be of the new one's period.
LEMMA OnlyTheLast ==
  ASSUME NEW agg \in Aggregation, NEW points, NEW S, Dated(points, S),
         NEW n \in Nat, NEW m \in 1 .. Len(points), n + 1 = m, NEW acc, Picks(points, n, acc, agg, S)
  PROVE  /\ \A i \in 1 .. Len(acc) : acc[i].date < points[m].date
         /\ \A i \in 1 .. Len(acc) : InPeriod(agg, acc[i], points[m]) => i = Len(acc)
<1> DEFINE p == points[m]
           l == Len(acc)
<1>1. /\ Len(points) \in Nat /\ \A i \in 1 .. Len(points) : points[i] \in S /\ points[i].date \in Nat
      /\ \A i, j \in 1 .. Len(points) : points[i].date <= points[j].date <=> i <= j
  BY DatedIs
<1>2. /\ l \in Nat /\ \A i \in 1 .. l : acc[i].date \in Nat
      /\ \A i, j \in 1 .. l : acc[i].date <= acc[j].date <=> i <= j
  BY DatedIs DEF Picks
<1>3. \A i \in 1 .. l : \E k \in 1 .. n :
        acc[i] = points[k] /\ \A j \in 1 .. n : InPeriod(agg, points[j], points[k]) => j <= k
  BY DEF Picks
<1> HIDE DEF l
<1>4. \A k \in 1 .. n : k \in 1 .. Len(points) /\ ~(m <= k)
  BY <1>1
<1>5. ASSUME NEW i \in 1 .. l PROVE acc[i].date < p.date
  <2>1. PICK k \in 1 .. n : acc[i] = points[k]
    BY <1>3
  <2>2. points[k].date \in Nat /\ points[m].date \in Nat /\ ~(points[m].date <= points[k].date)
    BY <1>1, <1>4
  <2>3. points[k].date < points[m].date
    BY <2>2
  <2> QED
    BY <2>1, <2>3
<1>6. ASSUME NEW i \in 1 .. l, InPeriod(agg, acc[i], p) PROVE i = l
  <2>1. l \in 1 .. l /\ i <= l
    BY <1>2
  <2>2. PICK k \in 1 .. n : 
               /\ acc[i] = points[k]
               /\ \A j \in 1 .. n : InPeriod(agg, points[j], points[k]) => j <= k
    BY <1>3
  <2>3. PICK h \in 1 .. n : acc[l] = points[h]
    BY <1>3, <2>1
  <2> DEFINE x == acc[i].date
             y == acc[l].date
             z == p.date
  <2>4. x \in Nat /\ y \in Nat /\ z \in Nat /\ x <= y /\ y < z
    BY <1>1, <1>2, <1>5, <2>1
  <2>5. Period(agg, x) = Period(agg, z)
    BY <1>6 DEF InPeriod
  <2>6. InPeriod(agg, acc[l], acc[i]) <=> Period(agg, y) = Period(agg, x)
    BY DEF InPeriod
  <2> HIDE DEF x, y, z
  <2>7. /\ Period(agg, x) \in Nat /\ Period(agg, y) \in Nat
        /\ Period(agg, x) <= Period(agg, y) /\ Period(agg, y) <= Period(agg, z)
    <3>1. y <= z
      BY <2>4
    <3> QED
      BY <2>4, <3>1, PeriodIs
  <2>8. InPeriod(agg, points[h], points[k])
    <3>1. Period(agg, y) = Period(agg, x)
      BY <2>5, <2>7
    <3> QED
      BY <2>2, <2>3, <2>6, <3>1
  <2>9. h <= k
    BY <2>2, <2>8
  <2>10. acc[l].date <= acc[i].date
    BY <1>1, <1>4, <2>2, <2>3, <2>9
  <2>11. l <= i
    BY <1>2, <2>1, <2>10
  <2> QED
    BY <1>2, <2>1, <2>11
<1> QED
  BY <1>5, <1>6 DEF l

\* One turn of the loop.
Kept(agg, acc, p) ==
  LET same == {i \in DOMAIN acc : bucket(agg, acc[i].date) = bucket(agg, p.date)}
  IN  IF same = {} THEN Append(acc, p) ELSE [acc EXCEPT ![CHOOSE i \in same : TRUE] = p]

LEMMA KeptPicks ==
  ASSUME NEW agg \in Aggregation, NEW points, NEW S, Dated(points, S),
         NEW n \in Nat, NEW m \in 1 .. Len(points), n + 1 = m, NEW acc, Picks(points, n, acc, agg, S)
  PROVE  Picks(points, m, Kept(agg, acc, points[m]), agg, S)
<1> DEFINE p == points[m]
           l == Len(acc)
           same == {i \in DOMAIN acc : bucket(agg, acc[i].date) = bucket(agg, p.date)}
           u == Kept(agg, acc, p)
<1>1. /\ Len(points) \in Nat /\ \A i \in 1 .. Len(points) : points[i] \in S /\ points[i].date \in Nat
  BY DatedIs
<1>2. /\ l \in Nat /\ DOMAIN acc = 1 .. l /\ \A i \in 1 .. l : acc[i] \in S /\ acc[i].date \in Nat
  BY DatedIs DEF Picks
<1>3. /\ acc \in Seq(S) /\ \A q \in S : q.date \in Nat
      /\ \A i, j \in 1 .. l : i < j => acc[i].date < acc[j].date
  BY DEF Picks, Dated
<1>4. /\ \A i \in 1 .. l : acc[i].date < p.date
      /\ \A i \in 1 .. l : InPeriod(agg, acc[i], p) => i = l
  BY OnlyTheLast
<1>5. \A i \in 1 .. l : i \in same <=> InPeriod(agg, acc[i], p)
  <2> TAKE i \in 1 .. l
  <2>1. acc[i].date \in Nat /\ p.date \in Nat
    BY <1>1, <1>2
  <2>2. i \in same <=> bucket(agg, acc[i].date) = bucket(agg, p.date)
    BY <1>2
  <2>3. bucket(agg, acc[i].date) = bucket(agg, p.date) <=> Period(agg, acc[i].date) = Period(agg, p.date)
    BY <2>1, PeriodIs, Zenon
  <2> QED
    BY <2>2, <2>3 DEF InPeriod
<1>6. /\ \A i \in 1 .. l : \E k \in 1 .. n :
           acc[i] = points[k] /\ \A j \in 1 .. n : InPeriod(agg, points[j], points[k]) => j <= k
      /\ \A k \in 1 .. n : \E i \in 1 .. l : InPeriod(agg, acc[i], points[k])
  BY DEF Picks
<1>7. \A k \in 1 .. m : k \in 1 .. n \/ k = m
  OBVIOUS
<1>8. \A k \in 1 .. n : k \in 1 .. m /\ k <= m
  OBVIOUS
<1>9. \A i \in same : i \in 1 .. l
  BY <1>2
<1>10. u = IF same = {} THEN Append(acc, p) ELSE [acc EXCEPT ![CHOOSE i \in same : TRUE] = p]
  BY DEF Kept
<1>11. p \in S /\ m \in 1 .. m /\ InPeriod(agg, p, p) /\ m \in Nat
  BY <1>1 DEF InPeriod
<1> HIDE DEF same, l, u
\* A point that is kept still is the last one of its period.
<1>12. ASSUME NEW i \in 1 .. l, i \notin same
       PROVE  \E k \in 1 .. m :
                acc[i] = points[k] /\ \A j \in 1 .. m : InPeriod(agg, points[j], points[k]) => j <= k
  <2>1. PICK k \in 1 .. n : 
               /\ acc[i] = points[k]
               /\ \A j \in 1 .. n : InPeriod(agg, points[j], points[k]) => j <= k
    BY <1>6
  <2>2. ~InPeriod(agg, p, points[k])
    BY <1>5, <1>12, <2>1 DEF InPeriod
  <2>3. \A j \in 1 .. m : InPeriod(agg, points[j], points[k]) => j <= k
    BY <1>7, <2>1, <2>2
  <2> QED
    BY <1>8, <2>1, <2>3
<1>13. \A j \in 1 .. m : j <= m
  OBVIOUS
<1> HIDE DEF p
<1>14. p = points[m]
  BY DEF p
<1>15. CASE same = {}
  <2>1. u = Append(acc, p)
    BY <1>10, <1>15
  <2>2. /\ u \in Seq(S) /\ Len(u) = l + 1 /\ u[l + 1] = p /\ \A i \in 1 .. l : u[i] = acc[i]
    <3>1. Append(acc, p) \in Seq(S) /\ Len(Append(acc, p)) = Len(acc) + 1
          /\ \A i \in 1 .. Len(acc) + 1 : Append(acc, p)[i] = IF i <= Len(acc) THEN acc[i] ELSE p
      BY <1>3, <1>11, AppendProperties
    <3>2. l + 1 \in 1 .. l + 1 /\ ~(l + 1 <= l) /\ \A i \in 1 .. l : i \in 1 .. l + 1 /\ i <= l
      BY <1>2
    <3> QED
      BY <2>1, <3>1, <3>2 DEF l
  <2> DEFINE h == l + 1
  <2>3. \A i \in 1 .. h : i \in 1 .. l \/ i = h
    BY <1>2
  <2>4. \A i \in 1 .. l : i \in 1 .. h
    BY <1>2
  <2>5. h \in 1 .. h /\ \A j \in 1 .. h : ~(h < j)
    BY <1>2
  <2> HIDE DEF h
  <2>6. Len(u) = h /\ u[h] = p
    BY <2>2 DEF h
  <2>7. ASSUME NEW i \in 1 .. h, NEW j \in 1 .. h, i < j PROVE u[i].date < u[j].date
    <3>1. i \in 1 .. l
      BY <2>3, <2>5, <2>7
    <3>2. CASE j \in 1 .. l
      BY <1>3, <2>2, <2>7, <3>1, <3>2
    <3>3. CASE j = h
      BY <1>4, <2>2, <2>6, <3>1, <3>3
    <3> QED
      BY <2>3, <3>2, <3>3
  <2>8. Dated(u, S)
    BY <1>3, <2>2, <2>6, <2>7 DEF Dated
  <2>9. ASSUME NEW i \in 1 .. h
        PROVE  \E k \in 1 .. m :
                 u[i] = points[k] /\ \A j \in 1 .. m : InPeriod(agg, points[j], points[k]) => j <= k
    <3>1. CASE i \in 1 .. l
      BY <1>12, <1>15, <2>2, <3>1
    <3>2. CASE i = h
      BY <1>11, <1>13, <1>14, <2>6, <3>2
    <3> QED
      BY <2>3, <3>1, <3>2
  <2>10. ASSUME NEW k \in 1 .. m PROVE \E i \in 1 .. h : InPeriod(agg, u[i], points[k])
    <3>1. CASE k \in 1 .. n
      BY <1>6, <2>2, <2>4, <3>1
    <3>2. CASE k = m
      BY <1>11, <1>14, <2>5, <2>6, <3>2
    <3> QED
      BY <1>7, <3>1, <3>2
  <2> QED
    BY <2>6, <2>8, <2>9, <2>10, <1>14, Zenon DEF Picks, u
<1>16. CASE same # {}
  <2> DEFINE c == CHOOSE i \in same : TRUE
  <2>1. c \in same
    BY <1>16
  <2>2. u = [acc EXCEPT ![c] = p]
    BY <1>10, <1>16
  <2> HIDE DEF c
  <2>3. c = l /\ l \in 1 .. l /\ \A i \in same : i = l
    BY <1>4, <1>5, <1>9, <2>1
  <2>4. u \in Seq(S) /\ Len(u) = l /\ u[l] = p /\ \A i \in 1 .. l : i # l => u[i] = acc[i]
    <3>1. u \in [1 .. l -> S]
      BY <1>2, <1>11, <2>2
    <3>2. u \in Seq(S) /\ Len(u) = l
      BY <1>2, <3>1, FunctionIsSeq
    <3> QED
      BY <1>2, <2>2, <2>3, <3>2
  <2>5. ASSUME NEW i \in 1 .. l, NEW j \in 1 .. l, i < j PROVE u[i].date < u[j].date
    <3>1. i # l
      BY <1>2, <2>5
    <3>2. CASE j = l
      BY <1>4, <2>4, <3>1, <3>2
    <3>3. CASE j # l
      BY <1>3, <2>4, <2>5, <3>1, <3>3
    <3> QED
      BY <3>2, <3>3
  <2>6. Dated(u, S)
    BY <1>3, <2>4, <2>5 DEF Dated
  <2>7. ASSUME NEW i \in 1 .. l
        PROVE  \E k \in 1 .. m :
                 u[i] = points[k] /\ \A j \in 1 .. m : InPeriod(agg, points[j], points[k]) => j <= k
    <3>1. CASE i = l
      BY <1>11, <1>13, <1>14, <2>4, <3>1
    <3>2. CASE i # l
      BY <1>12, <2>3, <2>4, <3>2
    <3> QED
      BY <3>1, <3>2
  <2>8. ASSUME NEW k \in 1 .. m PROVE \E i \in 1 .. l : InPeriod(agg, u[i], points[k])
    <3>1. CASE k \in 1 .. n
      <4>1. PICK i \in 1 .. l : InPeriod(agg, acc[i], points[k])
        BY <1>6, <3>1
      <4>2. InPeriod(agg, acc[l], p)
        BY <1>5, <2>1, <2>3
      <4>3. InPeriod(agg, u[i], points[k])
        <5>1. CASE i = l
          BY <2>4, <4>1, <4>2, <5>1 DEF InPeriod
        <5>2. CASE i # l
          BY <2>4, <4>1, <5>2
        <5> QED
          BY <5>1, <5>2
      <4> QED
        BY <4>3
    <3>2. CASE k = m
      BY <1>11, <1>14, <2>3, <2>4, <3>2
    <3> QED
      BY <1>7, <3>1, <3>2
  <2> QED
    BY <2>4, <2>6, <2>7, <2>8, <1>14, Zenon DEF Picks, u
<1> QED
  BY <1>15, <1>16

\* What the loop has made of the first n points.
Loops(points, agg, n, g) ==
  g = [i \in 0 .. n |-> IF i = 0 THEN <<>> ELSE Kept(agg, g[i - 1], points[i])]

LEMMA LoopsExist == \A points, agg : \A n \in Nat : \E g : Loops(points, agg, n, g)
<1> SUFFICES ASSUME NEW points, NEW agg PROVE \A n \in Nat : \E g : Loops(points, agg, n, g)
  OBVIOUS
<1> DEFINE next(g, i) == IF i = 0 THEN <<>> ELSE Kept(agg, g[i - 1], points[i])
           T == {n \in Nat : \E g : Loops(points, agg, n, g)}
<1>1. 0 \in T
  <2> DEFINE g == [i \in 0 .. 0 |-> <<>>]
  <2>1. \A i \in 0 .. 0 : i = 0
    OBVIOUS
  <2>2. Loops(points, agg, 0, g)
    BY <2>1 DEF Loops
  <2> QED
    BY <2>2
<1>2. ASSUME NEW n \in Nat, n \in T PROVE n + 1 \in T
  <2>1. PICK g : Loops(points, agg, n, g)
    BY <1>2
  <2> DEFINE h == [i \in 0 .. n + 1 |-> next(g, i)]
  <2>2. g = [i \in 0 .. n |-> next(g, i)]
    BY <2>1, Zenon DEF Loops
  <2>3. \A i \in 0 .. n : i \in 0 .. n + 1
    OBVIOUS
  <2>4. \A i \in 0 .. n + 1 : i # 0 => i - 1 \in 0 .. n
    OBVIOUS
  <2>5. \A i \in 0 .. n : h[i] = g[i]
    <3> HIDE DEF next
    <3> QED
      BY <2>2, <2>3, Zenon
  <2>6. \A i \in 0 .. n + 1 : i # 0 => g[i - 1] = h[i - 1]
    BY <2>4, <2>5, Zenon
  <2> HIDE DEF h
  <2>7. \A i \in 0 .. n + 1 : next(g, i) = next(h, i)
    BY <2>6, Zenon
  <2>8. h = [i \in 0 .. n + 1 |-> next(g, i)]
    BY DEF h
  <2>9. h = [i \in 0 .. n + 1 |-> next(h, i)]
    <3> HIDE DEF next
    <3> QED
      BY <2>7, <2>8, Zenon
  <2>10. Loops(points, agg, n + 1, h)
    BY <2>9, Zenon DEF Loops
  <2> QED
    BY <2>10
<1> HIDE DEF T
<1>3. \A n \in Nat : n \in T
  BY <1>1, <1>2, AllNumbers
<1> QED
  BY <1>3 DEF T

\* aggregatePoints keeps, of each period, the last point.
LEMMA AggregateIs ==
  ASSUME NEW agg \in Aggregation, NEW points, NEW S, Dated(points, S)
  PROVE  Picks(points, Len(points), aggregatePoints(points, agg), agg, S)
<1> DEFINE n == Len(points)
<1>1. /\ n \in Nat /\ \A i \in 1 .. n : points[i] \in S /\ points[i].date \in Nat
      /\ \A i, j \in 1 .. n : points[i].date <= points[j].date <=> i <= j
  BY DatedIs
<1>2. CASE agg = "daily"
  <2>1. aggregatePoints(points, agg) = points
    BY <1>2 DEF aggregatePoints
  <2>2. \A i, j \in 1 .. n : InPeriod(agg, points[j], points[i]) => j <= i
    <3> SUFFICES ASSUME NEW i \in 1 .. n, NEW j \in 1 .. n, InPeriod(agg, points[j], points[i]) PROVE j <= i
      OBVIOUS
    <3> DEFINE d == points[i].date
               e == points[j].date
    <3>1. d \in Nat /\ e \in Nat /\ Period(agg, e) = Period(agg, d)
      BY <1>1 DEF InPeriod
    <3> HIDE DEF d, e
    <3>2. e = d
      BY <1>2, <3>1, PeriodIs
    <3>3. e <= d
      BY <3>1, <3>2
    <3> QED
      BY <1>1, <3>3 DEF d, e
  <2>3. \A k \in 1 .. n : InPeriod(agg, points[k], points[k])
    BY DEF InPeriod
  <2> QED
    BY <2>1, <2>2, <2>3, Zenon DEF Picks
<1>3. CASE agg # "daily"
  <2> DEFINE g == CHOOSE g : Loops(points, agg, n, g)
  <2>1. Loops(points, agg, n, g)
    BY <1>1, LoopsExist
  <2>2. aggregatePoints(points, agg) = g[n]
    BY <1>3, Zenon DEF aggregatePoints, Loops, Kept
  <2> HIDE DEF g
  <2>3. \A i \in 0 .. n : g[i] = IF i = 0 THEN <<>> ELSE Kept(agg, g[i - 1], points[i])
    BY <2>1, Zenon DEF Loops
  <2> DEFINE T == {k \in Nat : k <= n => Picks(points, k, g[k], agg, S)}
  <2>4. \A k \in Nat : k \in T <=> (k <= n => Picks(points, k, g[k], agg, S))
    OBVIOUS
  <2> HIDE DEF T
  <2>5. 0 \in T
    <3>1. g[0] = <<>>
      <4>1. 0 \in 0 .. n
        BY <1>1
      <4> QED
        BY <2>3, <4>1, Zenon
    <3>2. Dated(<<>>, S)
      <4>1. <<>> \in Seq(S) /\ Len(<<>>) = 0 /\ 1 .. 0 = {}
        OBVIOUS
      <4>2. \A p \in S : p.date \in Nat
        BY DEF Dated
      <4> QED
        BY <4>1, <4>2 DEF Dated
    <3>3. Picks(points, 0, <<>>, agg, S)
      <4>1. Len(<<>>) = 0 /\ 1 .. 0 = {}
        OBVIOUS
      <4> QED
        BY <3>2, <4>1 DEF Picks
    <3> QED
      BY <2>4, <3>1, <3>3
  <2>6. ASSUME NEW k \in Nat, k \in T PROVE k + 1 \in T
    <3> SUFFICES ASSUME k + 1 <= n PROVE Picks(points, k + 1, g[k + 1], agg, S)
      BY <2>4
    <3>1. Picks(points, k, g[k], agg, S)
      BY <1>1, <2>4, <2>6
    <3> DEFINE m == k + 1
    <3>2. m \in 0 .. n /\ m # 0 /\ m - 1 = k /\ m \in 1 .. n /\ k + 1 = m
      BY <1>1
    <3> HIDE DEF m
    <3>3. g[m] = Kept(agg, g[k], points[m])
      BY <2>3, <3>2
    <3>4. Picks(points, m, Kept(agg, g[k], points[m]), agg, S)
      BY <3>1, <3>2, KeptPicks
    <3>5. Picks(points, m, g[m], agg, S)
      BY <3>3, <3>4
    <3> QED
      BY <3>5 DEF m
  <2>7. \A k \in Nat : k \in T
    BY <2>5, <2>6, AllNumbers
  <2>8. Picks(points, n, g[n], agg, S)
    BY <1>1, <2>4, <2>7
  <2> QED
    BY <2>2, <2>8
<1> QED
  BY <1>2, <1>3

\* The points of a set of dates, as a history answers with: so aggregated they
\* are the last of each period.
LEMMA SeriesIs ==
  ASSUME NEW agg \in Aggregation, NEW points, NEW S, Dated(points, S), NEW left, NEW right,
         {points[i].date : i \in 1 .. Len(points)} = DOMAIN left \cap DOMAIN right,
         \A i \in 1 .. Len(points) :
           points[i].rate = roundProduct(left[points[i].date], right[points[i].date])
  PROVE  LastOfEachPeriod(aggregatePoints(points, agg), left, right, agg)
<1> DEFINE acc == aggregatePoints(points, agg)
           both == DOMAIN left \cap DOMAIN right
           n == Len(points)
           l == Len(acc)
           last == {d \in both : \A e \in both : Period(agg, e) = Period(agg, d) => e <= d}
<1>1. Picks(points, n, acc, agg, S)
  BY AggregateIs
<1> HIDE DEF acc
<1>2. /\ n \in Nat /\ \A i \in 1 .. n : points[i].date \in Nat
      /\ \A i, j \in 1 .. n : points[i].date <= points[j].date <=> i <= j
  BY DatedIs
<1>3. /\ Dated(acc, S)
      /\ \A i \in 1 .. l : \E k \in 1 .. n :
           acc[i] = points[k] /\ \A j \in 1 .. n : InPeriod(agg, points[j], points[k]) => j <= k
      /\ \A k \in 1 .. n : \E i \in 1 .. l : InPeriod(agg, acc[i], points[k])
  BY <1>1 DEF Picks
<1>4. l \in Nat /\ DOMAIN acc = 1 .. l
  BY <1>3, DatedIs
<1>5. \A i, j \in 1 .. l : i < j => acc[i].date < acc[j].date
  BY <1>3 DEF Dated
<1>6. /\ \A i \in 1 .. n : points[i].date \in both
      /\ \A d \in both : \E i \in 1 .. n : points[i].date = d
  <2>1. {points[i].date : i \in 1 .. n} = both
    OBVIOUS
  <2> HIDE DEF both, n
  <2> QED
    BY <2>1
<1>7. \A i \in 1 .. n : points[i].rate = roundProduct(left[points[i].date], right[points[i].date])
  OBVIOUS
<1> HIDE DEF both, n, l
<1>8. ASSUME NEW i \in 1 .. l
      PROVE  acc[i].date \in last /\ acc[i].rate = roundProduct(left[acc[i].date], right[acc[i].date])
  <2>1. PICK k \in 1 .. n : 
               /\ acc[i] = points[k]
               /\ \A j \in 1 .. n : InPeriod(agg, points[j], points[k]) => j <= k
    BY <1>3
  <2>2. acc[i].rate = roundProduct(left[acc[i].date], right[acc[i].date])
    BY <1>7, <2>1
  <2>3. ASSUME NEW e \in both, Period(agg, e) = Period(agg, points[k].date) PROVE e <= points[k].date
    <3>1. PICK j \in 1 .. n : points[j].date = e
      BY <1>6
    <3>2. j <= k
      BY <2>1, <2>3, <3>1 DEF InPeriod
    <3> QED
      BY <1>2, <3>1, <3>2
  <2>4. points[k].date \in last
    BY <1>6, <2>3
  <2> HIDE DEF last
  <2> QED
    BY <2>1, <2>2, <2>4
<1>9. ASSUME NEW d \in last PROVE \E i \in 1 .. l : acc[i].date = d
  <2>1. d \in both /\ \A e \in both : Period(agg, e) = Period(agg, d) => e <= d
    OBVIOUS
  <2>2. PICK k \in 1 .. n : points[k].date = d
    BY <1>6, <2>1
  <2>3. PICK i \in 1 .. l : InPeriod(agg, acc[i], points[k])
    BY <1>3
  <2>4. PICK h \in 1 .. n : 
               /\ acc[i] = points[h]
               /\ \A j \in 1 .. n : InPeriod(agg, points[j], points[h]) => j <= h
    BY <1>3
  <2>5. Period(agg, points[h].date) = Period(agg, points[k].date)
    BY <2>3, <2>4 DEF InPeriod
  <2>6. k <= h
    BY <2>4, <2>5 DEF InPeriod
  <2>7. points[h].date <= points[k].date
    BY <1>6, <2>1, <2>2, <2>5
  <2>8. points[k].date <= points[h].date
    BY <1>2, <2>6
  <2>9. points[h].date = points[k].date
    BY <1>2, <2>7, <2>8
  <2> QED
    BY <2>2, <2>4, <2>9
<1>10. {acc[i].date : i \in DOMAIN acc} = last
  <2> HIDE DEF last
  <2> QED
    BY <1>4, <1>8, <1>9
<1>11. \A i \in DOMAIN acc : acc[i].rate = roundProduct(left[acc[i].date], right[acc[i].date])
  BY <1>4, <1>8
<1> QED
  BY <1>4, <1>5, <1>10, <1>11, Zenon DEF LastOfEachPeriod, acc, last, both

\* The points of a leg, in the order of their dates.
LEMMA LegIs ==
  ASSUME NEW f, DOMAIN f \in SUBSET Nat, IsFiniteSet(DOMAIN f)
  PROVE  LET p == Points(f)
             n == Cardinality(DOMAIN f)
         IN  /\ n \in Nat /\ DOMAIN p = 1 .. n
             /\ \A i \in 1 .. n : p[i].date \in DOMAIN f /\ p[i].date \in Nat /\ p[i].rate = f[p[i].date]
             /\ \A d \in DOMAIN f : \E i \in 1 .. n : p[i].date = d
             /\ \A i, j \in 1 .. n : i < j => p[i].date < p[j].date
<1> DEFINE p == Points(f)
           n == Cardinality(DOMAIN f)
           at(i) == Nth(DOMAIN f, i)
<1>1. /\ n \in Nat
      /\ \A k \in 1 .. n : at(k) \in DOMAIN f
      /\ \A x \in DOMAIN f : \E k \in 1 .. n : at(k) = x
      /\ \A i, j \in 1 .. n : i < j => at(i) < at(j)
  BY NthIs
<1>2. p = [i \in 1 .. n |-> [date |-> at(i), rate |-> f[at(i)]]]
  BY DEF Points
<1> HIDE DEF p, n, at
<1>3. DOMAIN p = 1 .. n /\ \A i \in 1 .. n : p[i].date = at(i) /\ p[i].rate = f[at(i)]
  BY <1>2
<1>4. \A i \in 1 .. n : p[i].date \in DOMAIN f /\ p[i].date \in Nat /\ p[i].rate = f[p[i].date]
  BY <1>1, <1>3
<1>5. \A d \in DOMAIN f : \E i \in 1 .. n : p[i].date = d
  BY <1>1, <1>3
<1>6. \A i, j \in 1 .. n : i < j => p[i].date < p[j].date
  BY <1>1, <1>3
<1> QED
  BY <1>1, <1>3, <1>4, <1>5, <1>6 DEF p, n

\* combineByDate has the dates of both legs, and the products of their rates.
LEMMA CombinedIs ==
  ASSUME NEW left, DOMAIN left \in SUBSET Nat, IsFiniteSet(DOMAIN left),
         NEW right, DOMAIN right \in SUBSET Nat, IsFiniteSet(DOMAIN right)
  PROVE  LET points == combineByDate(Points(left), Points(right)) IN
         /\ \E S : Dated(points, S)
         /\ {points[i].date : i \in 1 .. Len(points)} = DOMAIN left \cap DOMAIN right
         /\ \A i \in 1 .. Len(points) :
              points[i].rate = roundProduct(left[points[i].date], right[points[i].date])
<1> DEFINE a == Points(left)
           b == Points(right)
           m == Cardinality(DOMAIN left)
           n == Cardinality(DOMAIN right)
           rightMap == [d \in {b[i].date : i \in DOMAIN b} |-> (CHOOSE i \in DOMAIN b : b[i].date = d)]
           common == {i \in DOMAIN a : a[i].date \in DOMAIN rightMap}
           combined(p) == [date |-> p.date, rate |-> roundProduct(p.rate, b[rightMap[p.date]].rate)]
           c == Cardinality(common)
           points == combineByDate(a, b)
           at(k) == Nth(common, k)
<1>1. /\ m \in Nat /\ DOMAIN a = 1 .. m
      /\ \A i \in 1 .. m : a[i].date \in DOMAIN left /\ a[i].date \in Nat /\ a[i].rate = left[a[i].date]
      /\ \A d \in DOMAIN left : \E i \in 1 .. m : a[i].date = d
      /\ \A i, j \in 1 .. m : i < j => a[i].date < a[j].date
  BY LegIs
<1>2. /\ n \in Nat /\ DOMAIN b = 1 .. n
      /\ \A i \in 1 .. n : b[i].date \in DOMAIN right /\ b[i].rate = right[b[i].date]
      /\ \A d \in DOMAIN right : \E i \in 1 .. n : b[i].date = d
  BY LegIs
<1>3. points = [k \in 1 .. c |-> combined(a[at(k)])]
  BY DEF combineByDate
<1> HIDE DEF a, b, m, n, points
<1>4. {b[i].date : i \in DOMAIN b} = DOMAIN right
  BY <1>2
<1>5. DOMAIN rightMap = DOMAIN right
  BY <1>4
<1>6. ASSUME NEW d \in DOMAIN right PROVE b[rightMap[d]].rate = right[d]
  <2>1. rightMap[d] = CHOOSE i \in 1 .. n : b[i].date = d
    BY <1>2, <1>4
  <2>2. rightMap[d] \in 1 .. n /\ b[rightMap[d]].date = d
    <3> HIDE DEF rightMap
    <3> QED
      BY <1>2, <2>1
  <2> HIDE DEF rightMap
  <2> QED
    BY <1>2, <2>2
<1> HIDE DEF rightMap
<1>7. common = {i \in 1 .. m : a[i].date \in DOMAIN right}
  BY <1>1, <1>5
<1>8. \A i \in common : i \in 1 .. m /\ a[i].date \in DOMAIN right
  BY <1>7
<1>9. common \in SUBSET Nat /\ IsFiniteSet(common)
  <2>1. common \in SUBSET (1 .. m)
    BY <1>7
  <2> HIDE DEF common
  <2>2. IsFiniteSet(1 .. m)
    BY Zenon, <1>1, UpTo
  <2>3. \A i \in 1 .. m : i \in Nat
    OBVIOUS
  <2> QED
    BY <2>1, <2>2, <2>3, FS_Subset
<1>10. /\ c \in Nat
       /\ \A k \in 1 .. c : at(k) \in common
       /\ \A x \in common : \E k \in 1 .. c : at(k) = x
       /\ \A i, j \in 1 .. c : i < j => at(i) < at(j)
  <2> HIDE DEF common
  <2> QED
    BY <1>9, NthIs
<1>11. \A i \in 1 .. m : a[i].date \in DOMAIN right => i \in common
  BY <1>7
<1> HIDE DEF common, c, at
<1>12. ASSUME NEW i \in common
       PROVE  /\ combined(a[i]).date = a[i].date /\ a[i].date \in DOMAIN left /\ a[i].date \in Nat
              /\ a[i].date \in DOMAIN right
              /\ combined(a[i]).rate = roundProduct(left[a[i].date], right[a[i].date])
  <2> DEFINE d == a[i].date
  <2>1. /\ d \in DOMAIN left /\ d \in DOMAIN right /\ d \in Nat
        /\ a[i].rate = left[d] /\ b[rightMap[d]].rate = right[d]
    BY <1>1, <1>6, <1>8
  <2> QED
    BY <2>1
<1>13. ASSUME NEW k \in 1 .. c PROVE points[k] = combined(a[at(k)])
  BY <1>3
<1> HIDE DEF combined
<1>14. ASSUME NEW k \in 1 .. c
       PROVE  /\ points[k].date = a[at(k)].date
              /\ points[k].date \in DOMAIN left \cap DOMAIN right /\ points[k].date \in Nat
              /\ points[k].rate = roundProduct(left[points[k].date], right[points[k].date])
  <2>1. at(k) \in common /\ points[k] = combined(a[at(k)])
    BY <1>10, <1>13
  <2> QED
    BY <1>12, <2>1
<1> DEFINE S == {points[k] : k \in 1 .. c}
<1>15. points \in Seq(S) /\ Len(points) = c
  <2>1. points \in [1 .. c -> S]
    BY <1>3
  <2> HIDE DEF S
  <2> QED
    BY <1>10, <2>1, FunctionIsSeq
<1>16. \A p \in S : p.date \in Nat
  BY <1>14
<1> HIDE DEF S
<1>17. ASSUME NEW i \in 1 .. c, NEW j \in 1 .. c, i < j PROVE points[i].date < points[j].date
  <2>1. at(i) \in 1 .. m /\ at(j) \in 1 .. m /\ at(i) < at(j)
    BY <1>8, <1>10, <1>17
  <2>2. a[at(i)].date < a[at(j)].date
    BY <1>1, <2>1
  <2> QED
    BY <1>14, <2>2
<1>18. Dated(points, S)
  BY <1>15, <1>16, <1>17 DEF Dated
<1>19. ASSUME NEW d \in DOMAIN left \cap DOMAIN right PROVE \E k \in 1 .. c : points[k].date = d
  <2>1. PICK i \in 1 .. m : a[i].date = d
    BY <1>1
  <2>2. PICK k \in 1 .. c : at(k) = i
    BY <1>10, <1>11, <2>1
  <2> QED
    BY <1>14, <2>1, <2>2
<1>20. {points[i].date : i \in 1 .. Len(points)} = DOMAIN left \cap DOMAIN right
  BY <1>14, <1>15, <1>19
<1>21. \A i \in 1 .. Len(points) :
         points[i].rate = roundProduct(left[points[i].date], right[points[i].date])
  BY <1>14, <1>15
<1> QED
  BY <1>18, <1>20, <1>21 DEF points, a, b

LEMMA OneTimesOne == roundProduct(Precision, Precision) = Precision
<1> DEFINE p == Precision
           n == 2 * p * p + p
           d == 2 * p
           q == n \div d
<1>1. p \in Nat \ {0}
  BY SeriesAssumption
<1> HIDE DEF p
<1>2. n \in Nat /\ d \in Nat \ {0} /\ n = d * p + p /\ p < d
  BY <1>1
<1>3. q \in Nat /\ d * q <= n /\ n < d * q + d
  <2> HIDE DEF n, d
  <2> QED
    BY <1>2, Division
<1> HIDE DEF n, d, q
<1>4. ASSUME p < q PROVE FALSE
  <2>1. d * (p + 1) <= d * q
    BY <1>1, <1>2, <1>3, <1>4
  <2>2. d * (p + 1) = d * p + d
    BY <1>1, <1>2
  <2>3. d * p \in Nat /\ d * q \in Nat /\ d * (p + 1) \in Nat
    BY <1>1, <1>2, <1>3
  <2> QED
    BY <1>1, <1>2, <1>3, <2>1, <2>2, <2>3
<1>5. ASSUME q < p PROVE FALSE
  <2>1. d * (q + 1) <= d * p
    BY <1>1, <1>2, <1>3, <1>5
  <2>2. d * (q + 1) = d * q + d
    BY <1>2, <1>3
  <2>3. d * p \in Nat /\ d * q \in Nat /\ d * (q + 1) \in Nat
    BY <1>1, <1>2, <1>3
  <2> QED
    BY <1>1, <1>2, <1>3, <2>1, <2>2, <2>3
<1>6. q = p
  BY <1>1, <1>3, <1>4, <1>5
<1> QED
  BY <1>6 DEF roundProduct, q, n, d, p

\* The series of a currency against itself.
LEMMA SameIs ==
  ASSUME NEW to \in Nat, NEW days \in Nat, days <= to
  PROVE  LET points == samePair(to - days, to)
             ones == Ones(to, days)
         IN  /\ \E S : Dated(points, S)
             /\ {points[i].date : i \in 1 .. Len(points)} = DOMAIN ones \cap DOMAIN ones
             /\ \A i \in 1 .. Len(points) :
                  points[i].rate = roundProduct(ones[points[i].date], ones[points[i].date])
<1> DEFINE from == to - days
           n == to - from + 1
           points == samePair(from, to)
           ones == Ones(to, days)
<1>1. from \in Nat /\ n \in Nat /\ n = days + 1
  OBVIOUS
<1>2. points = [i \in 1 .. n |-> [date |-> from + i - 1, rate |-> Precision]]
  BY DEF samePair
<1>3. DOMAIN ones = from .. to /\ \A d \in from .. to : ones[d] = Precision
  BY DEF Ones, Window
<1> HIDE DEF points, ones
<1> DEFINE S == {points[i] : i \in 1 .. n}
<1>4. DOMAIN points = 1 .. n /\ \A i \in 1 .. n : points[i].date = from + i - 1 /\ points[i].rate = Precision
  BY <1>2
<1>5. points \in Seq(S) /\ Len(points) = n
  <2>1. points \in [1 .. n -> S]
    BY <1>2, <1>4
  <2> HIDE DEF S, n
  <2> QED
    BY <1>1, <2>1, FunctionIsSeq
<1>6. \A i \in 1 .. n : from + i - 1 \in from .. to /\ from + i - 1 \in Nat
  BY <1>1
<1>7. \A i, j \in 1 .. n : i < j => from + i - 1 < from + j - 1
  BY <1>1
<1>8. \A d \in from .. to : d - from + 1 \in 1 .. n /\ from + (d - from + 1) - 1 = d
  BY <1>1
<1>9. \A i \in 1 .. n : points[i].date \in from .. to /\ points[i].date \in Nat
  BY <1>4, <1>6
<1>10. \A p \in S : p.date \in Nat
  BY <1>9
<1> HIDE DEF S, n, from
<1>11. \A i, j \in 1 .. n : i < j => points[i].date < points[j].date
  BY <1>4, <1>7
<1>12. Dated(points, S)
  BY <1>5, <1>10, <1>11 DEF Dated
<1>13. \A d \in from .. to : \E i \in 1 .. n : points[i].date = d
  BY <1>4, <1>8
<1>14. {points[i].date : i \in 1 .. Len(points)} = DOMAIN ones \cap DOMAIN ones
  BY <1>3, <1>5, <1>9, <1>13
<1>15. \A i \in 1 .. Len(points) :
         points[i].rate = roundProduct(ones[points[i].date], ones[points[i].date])
  BY <1>3, <1>4, <1>5, <1>9, OneTimesOne
<1> QED
  BY <1>12, <1>14, <1>15 DEF points, ones, from

\* Whatever days the two legs of a cross pair lack and wherever the window lies, a
\* history has the last common point of each day, week or month, in order and with
\* the product of that day's rates (combineByDate, aggregatePoints); and so has
\* the series of a currency against itself.
THEOREM SeriesAlwaysAggregated ==
  ASSUME NEW agg \in Aggregation
  PROVE  /\ \A left, right :
              /\ DOMAIN left \in SUBSET Nat /\ IsFiniteSet(DOMAIN left)
              /\ DOMAIN right \in SUBSET Nat /\ IsFiniteSet(DOMAIN right)
              => LastOfEachPeriod(aggregatePoints(combineByDate(Points(left), Points(right)), agg),
                                  left, right, agg)
         /\ \A to, days \in Nat : days <= to =>
              LastOfEachPeriod(aggregatePoints(samePair(to - days, to), agg),
                               Ones(to, days), Ones(to, days), agg)
<1>1. ASSUME NEW left, DOMAIN left \in SUBSET Nat, IsFiniteSet(DOMAIN left),
             NEW right, DOMAIN right \in SUBSET Nat, IsFiniteSet(DOMAIN right)
      PROVE  LastOfEachPeriod(aggregatePoints(combineByDate(Points(left), Points(right)), agg),
                              left, right, agg)
  <2> DEFINE points == combineByDate(Points(left), Points(right))
  <2>1. /\ \E S : Dated(points, S)
        /\ {points[i].date : i \in 1 .. Len(points)} = DOMAIN left \cap DOMAIN right
        /\ \A i \in 1 .. Len(points) :
             points[i].rate = roundProduct(left[points[i].date], right[points[i].date])
    BY <1>1, CombinedIs
  <2>2. PICK S : Dated(points, S)
    BY <2>1
  <2> HIDE DEF points
  <2>3. LastOfEachPeriod(aggregatePoints(points, agg), left, right, agg)
    BY <2>1, <2>2, SeriesIs
  <2> QED
    BY <2>3 DEF points
<1>2. ASSUME NEW to \in Nat, NEW days \in Nat, days <= to
      PROVE  LastOfEachPeriod(aggregatePoints(samePair(to - days, to), agg),
                              Ones(to, days), Ones(to, days), agg)
  <2> DEFINE points == samePair(to - days, to)
             ones == Ones(to, days)
  <2>1. /\ \E S : Dated(points, S)
        /\ {points[i].date : i \in 1 .. Len(points)} = DOMAIN ones \cap DOMAIN ones
        /\ \A i \in 1 .. Len(points) :
             points[i].rate = roundProduct(ones[points[i].date], ones[points[i].date])
    BY <1>2, SameIs
  <2>2. PICK S : Dated(points, S)
    BY <2>1
  <2> HIDE DEF points, ones
  <2>3. LastOfEachPeriod(aggregatePoints(points, agg), ones, ones, agg)
    BY <2>1, <2>2, SeriesIs
  <2> QED
    BY <2>3 DEF points, ones
<1> QED
  BY <1>1, <1>2
-----------------------------------------------------------------------------
(* Upload limits. *)

LEMMA ZipClaimed == Claimed(<<"a", ".", "Z">>) = "zip"
<1> DEFINE n == <<"a", ".", "Z">>
<1>1. Len(n) = 3 /\ DOMAIN n = 1 .. 3 /\ \A i \in DOMAIN n : n[i] # "/"
  OBVIOUS
<1>2. LastSegment(n) = n
  BY <1>1 DEF LastSegment
<1>3. SubSeq(n, 2, 3) = <<".", "Z">>
  <2> DEFINE t == SubSeq(n, 2, 3)
             u == <<".", "Z">>
  <2>1. n \in Seq({"a", ".", "Z"}) /\ u \in Seq({"a", ".", "Z"}) /\ Len(u) = 2 /\ u[1] = "." /\ u[2] = "Z"
    OBVIOUS
  <2>2. t \in Seq({"a", ".", "Z"}) /\ Len(t) = 2 /\ t[1] = n[2] /\ t[2] = n[3]
    BY <1>1, <2>1
  <2>3. n[2] = "." /\ n[3] = "Z"
    OBVIOUS
  <2> HIDE DEF t, u
  <2>4. \A i \in 1 .. 2 : t[i] = u[i]
    BY <2>1, <2>2, <2>3
  <2>5. t = u
    BY <2>1, <2>2, <2>4, SeqEqual
  <2> QED
    BY <2>5 DEF t, u
<1>4. DOMAIN Kinds = {"zip", "gzip", "tar"} /\ Kinds["zip"] = "Z" /\ Kinds["gzip"] = "G" /\ Kinds["tar"] = "T"
  BY DEF Kinds
<1>5. \A k \in DOMAIN Kinds : HasSuffix(n, k) <=> k = "zip"
  <2> TAKE k \in DOMAIN Kinds
  <2>1. HasSuffix(n, k) <=> <<".", "Z">> = <<".", Kinds[k]>>
    BY <1>1, <1>3 DEF HasSuffix
  <2> QED
    BY <1>4, <2>1
<1> HIDE DEF n
<1> QED
  BY <1>1, <1>2, <1>4, <1>5 DEF Claimed, n

LEMMA LeastOfTwo ==
  ASSUME NEW i \in Nat, NEW j \in Nat
  PROVE  Min({i, j}) = IF i <= j THEN i ELSE j
  BY DEF Min

\* With MAX_UPLOAD_SIZE_MB at its default of 50, or more, the limits agree for
\* every ARCHIVE_MAX_MB and every upload: the body limit of the router and the
\* handler (MaxBodySize, http.MaxBytesReader) never refuses an archive within the
\* service's limit, and the service never takes one above it.
THEOREM LimitsAlwaysAgree ==
  ASSUME MaxBodyMB >= 50
  PROVE  \A env \in Int, size, framing \in Nat : LimitsAgree(env, size, framing)
<1> SUFFICES ASSUME NEW env \in Int, NEW size \in Nat, NEW framing \in Nat
             PROVE  LimitsAgree(env, size, framing)
  OBVIOUS
<1> DEFINE L == ArchiveMaxMB(env)
           n == <<"a", ".", "Z">>
           head == [prefix |-> "zip", ustar |-> FALSE]
           up == Upload(env, TRUE, size, framing, n, head)
<1>1. L \in 1 .. 49
  BY DEF ArchiveMaxMB
<1>2. DetectArchive(n, head) = "zip"
  BY ZipClaimed DEF DetectArchive, hasMagic
<1>3. BodyLimit(env) = L * MB + MB
  <2>1. MB \in Nat /\ MaxBodyMB \in Nat /\ L * MB \in Nat /\ MaxBodyMB * MB \in Nat
    BY <1>1, ArchiveAssumption
  <2>2. L * MB + MB <= MaxBodyMB * MB
    <3>1. L + 1 <= MaxBodyMB /\ L + 1 \in Nat /\ L * MB + MB = (L + 1) * MB
      BY <1>1, <2>1
    <3> QED
      BY <2>1, <3>1
  <2> HIDE DEF L
  <2> QED
    BY <2>1, <2>2, LeastOfTwo DEF BodyLimit, L
<1>4. L * MB \in Nat /\ MB \in Nat
  BY <1>1, ArchiveAssumption
<1> HIDE DEF L, n, head
<1>5. up.status = IF size + framing > L * MB + MB THEN 413 ELSE IF size <= 0 THEN 400
                  ELSE IF size > L * MB THEN 413 ELSE 201
  BY <1>2, <1>3, <1>4 DEF Upload, L
<1> HIDE DEF up
<1>6. /\ size \in 1 .. L * MB /\ framing <= MB => up.status = 201
      /\ up.status = 201 => size <= L * MB
  BY <1>4, <1>5
<1> QED
  BY <1>6 DEF LimitsAgree, up, L, n, head
-----------------------------------------------------------------------------
(* The name of an upload. *)

Runes == Seq(Rune)

\* t is what s has after its first d runes, and up to some end.
Slice(s, d, t) ==
  t \in Runes /\ d \in Nat /\ d + Len(t) <= Len(s) /\ \A i \in 1 .. Len(t) : t[i] = s[d + i]

LEMMA Typed1 ==
  ASSUME NEW s \in Runes
  PROVE  /\ Len(s) \in Nat /\ DOMAIN s = 1 .. Len(s) /\ (s # <<>> <=> Len(s) >= 1)
         /\ \A i \in 1 .. Len(s) : s[i] \in Rune
BY DEF Runes

LEMMA SubSeqSlice ==
  ASSUME NEW s \in Runes, NEW a \in Nat, NEW b \in Nat, 1 <= a, a <= b + 1, b <= Len(s)
  PROVE  Slice(s, a - 1, SubSeq(s, a, b)) /\ Len(SubSeq(s, a, b)) = b - a + 1
<1> DEFINE t == SubSeq(s, a, b)
<1>1. Len(s) \in Nat /\ \A i \in 1 .. Len(s) : s[i] \in Rune
  BY Typed1
<1>2. \A i \in a .. b : s[i] \in Rune
  BY <1>1
<1>3. /\ t \in Runes /\ Len(t) = IF a <= b THEN b - a + 1 ELSE 0
      /\ \A i \in 1 .. b - a + 1 : t[i] = s[a + i - 1]
  BY <1>2, SubSeqProperties DEF Runes
<1> HIDE DEF t
<1>4. Len(t) = b - a + 1 /\ a - 1 \in Nat /\ a - 1 + Len(t) <= Len(s)
  BY <1>1, <1>3
<1>5. \A i \in 1 .. Len(t) : t[i] = s[a - 1 + i]
  <2>1. \A i \in Nat : a + i - 1 = a - 1 + i
    OBVIOUS
  <2> QED
    BY <1>3, <1>4, <2>1
<1> QED
  BY <1>3, <1>4, <1>5 DEF Slice, t

LEMMA SliceOfSlice ==
  ASSUME NEW s \in Runes, NEW t, NEW u, NEW d, NEW e, Slice(s, d, t), Slice(t, e, u)
  PROVE  Slice(s, d + e, u)
<1>1. /\ t \in Runes /\ u \in Runes /\ d \in Nat /\ e \in Nat /\ d + Len(t) <= Len(s) /\ e + Len(u) <= Len(t)
      /\ \A i \in 1 .. Len(t) : t[i] = s[d + i]
      /\ \A i \in 1 .. Len(u) : u[i] = t[e + i]
  BY DEF Slice
<1>2. Len(s) \in Nat /\ Len(t) \in Nat /\ Len(u) \in Nat
  BY <1>1, Typed1
<1>3. ASSUME NEW i \in 1 .. Len(u) PROVE u[i] = s[d + e + i]
  <2>1. e + i \in 1 .. Len(t) /\ d + (e + i) = d + e + i
    BY <1>1, <1>2
  <2> QED
    BY <1>1, <2>1
<1> QED
  BY <1>1, <1>2, <1>3 DEF Slice

\* Bytes.
Wide(s) == {i \in DOMAIN s : s[i] = "w"}

LEMMA BytesIs ==
  ASSUME NEW s \in Runes
  PROVE  /\ IsFiniteSet(Wide(s)) /\ Cardinality(Wide(s)) \in Nat /\ Cardinality(Wide(s)) <= Len(s)
         /\ Bytes(s) = Len(s) + 2 * Cardinality(Wide(s)) /\ Bytes(s) \in Nat
<1>1. Len(s) \in Nat /\ Wide(s) \in SUBSET (1 .. Len(s))
  BY Typed1 DEF Wide
<1>2. IsFiniteSet(1 .. Len(s)) /\ Cardinality(1 .. Len(s)) = Len(s)
  BY <1>1, UpTo
<1>3. IsFiniteSet(Wide(s)) /\ Cardinality(Wide(s)) <= Len(s) /\ Cardinality(Wide(s)) \in Nat
  BY <1>1, <1>2, FS_Subset, FS_CardinalityType
<1>4. Bytes(s) = Len(s) + 2 * Cardinality(Wide(s))
  BY DEF Bytes, Wide
<1> QED
  BY <1>1, <1>3, <1>4

\* Shifting places keeps how many there are.
LEMMA Shifted ==
  ASSUME NEW A \in SUBSET Nat, IsFiniteSet(A), NEW d \in Nat
  PROVE  LET B == {d + i : i \in A} IN IsFiniteSet(B) /\ Cardinality(B) = Cardinality(A)
<1> DEFINE B == {d + i : i \in A}
           f == [i \in A |-> d + i]
<1>1. f \in [A -> B]
  OBVIOUS
<1>2. \A i, j \in A : f[i] = f[j] => i = j
  OBVIOUS
<1>3. \A b \in B : \E i \in A : f[i] = b
  OBVIOUS
<1> HIDE DEF f, B
<1>4. f \in Bijection(A, B)
  BY <1>1, <1>2, <1>3, Fun_IsBij
<1>5. ExistsBijection(A, B)
  BY <1>4 DEF ExistsBijection
<1> QED
  BY <1>5, FS_Bijection DEF B

LEMMA SliceBytes ==
  ASSUME NEW s \in Runes, NEW t, NEW d, Slice(s, d, t)
  PROVE  Len(t) <= Len(s) /\ Bytes(t) <= Bytes(s)
<1> DEFINE B == {d + i : i \in Wide(t)}
<1>1. t \in Runes /\ d \in Nat /\ d + Len(t) <= Len(s) /\ \A i \in 1 .. Len(t) : t[i] = s[d + i]
  BY DEF Slice
<1>2. Len(s) \in Nat /\ Len(t) \in Nat /\ DOMAIN s = 1 .. Len(s) /\ DOMAIN t = 1 .. Len(t)
  BY <1>1, Typed1
<1>3. \A i \in Wide(t) : i \in Nat /\ d + i \in Wide(s)
  <2> TAKE i \in Wide(t)
  <2>1. i \in 1 .. Len(t) /\ t[i] = "w"
    BY <1>2 DEF Wide
  <2>2. d + i \in 1 .. Len(s) /\ s[d + i] = "w"
    BY <1>1, <1>2, <2>1
  <2> QED
    BY <1>2, <2>1, <2>2 DEF Wide
<1>4. Wide(t) \in SUBSET Nat /\ B \in SUBSET Wide(s)
  BY <1>3
<1>5. Cardinality(B) = Cardinality(Wide(t))
  BY <1>1, <1>4, BytesIs, Shifted
<1> HIDE DEF B
<1>6. Cardinality(Wide(t)) <= Cardinality(Wide(s))
  BY <1>4, <1>5, BytesIs, FS_Subset
<1>7. /\ Bytes(s) = Len(s) + 2 * Cardinality(Wide(s)) /\ Cardinality(Wide(s)) \in Nat
      /\ Bytes(t) = Len(t) + 2 * Cardinality(Wide(t)) /\ Cardinality(Wide(t)) \in Nat
  BY <1>1, BytesIs
<1> QED
  BY <1>1, <1>2, <1>6, <1>7

LEMMA JoinedBytes ==
  ASSUME NEW s \in Runes, NEW t \in Runes
  PROVE  s \o t \in Runes /\ Len(s \o t) = Len(s) + Len(t) /\ Bytes(s \o t) = Bytes(s) + Bytes(t)
<1> DEFINE st == s \o t
           B == {Len(s) + i : i \in Wide(t)}
<1>1. Len(s) \in Nat /\ Len(t) \in Nat /\ DOMAIN s = 1 .. Len(s) /\ DOMAIN t = 1 .. Len(t)
  BY Typed1
<1>2. /\ st \in Runes /\ Len(st) = Len(s) + Len(t) /\ DOMAIN st = 1 .. Len(s) + Len(t)
      /\ \A i \in 1 .. Len(s) + Len(t) : st[i] = IF i <= Len(s) THEN s[i] ELSE t[i - Len(s)]
  BY <1>1, ConcatProperties DEF Runes
<1> HIDE DEF st
<1>3. Wide(t) \in SUBSET Nat /\ Wide(s) \in SUBSET (1 .. Len(s)) /\ \A i \in Wide(t) : i \in 1 .. Len(t)
  BY <1>1 DEF Wide
<1>4. B \in SUBSET (Len(s) + 1 .. Len(s) + Len(t))
  BY <1>1, <1>3
<1>5. Wide(st) = Wide(s) \cup B
  <2>1. \A i \in 1 .. Len(s) : i \in Wide(st) <=> i \in Wide(s)
    BY <1>1, <1>2 DEF Wide
  <2>2. ASSUME NEW i \in Len(s) + 1 .. Len(s) + Len(t) PROVE i \in Wide(st) <=> i \in B
    <3>1. i \in DOMAIN st /\ st[i] = t[i - Len(s)] /\ i - Len(s) \in DOMAIN t
      BY <1>1, <1>2
    <3>2. i \in Wide(st) <=> i - Len(s) \in Wide(t)
      BY <3>1 DEF Wide
    <3>3. i - Len(s) \in Wide(t) => i \in B
      <4>1. Len(s) + (i - Len(s)) = i
        BY <1>1
      <4> QED
        BY <4>1
    <3>4. i \in B => i - Len(s) \in Wide(t)
      <4> SUFFICES ASSUME NEW j \in Wide(t), i = Len(s) + j PROVE i - Len(s) \in Wide(t)
        OBVIOUS
      <4>1. j = i - Len(s)
        BY <1>1, <1>3
      <4> QED
        BY <4>1
    <3> QED
      BY <3>2, <3>3, <3>4
  <2>3. \A i \in 1 .. Len(s) + Len(t) : i \in 1 .. Len(s) \/ i \in Len(s) + 1 .. Len(s) + Len(t)
    BY <1>1
  <2>4. \A i \in 1 .. Len(s) : i \notin Len(s) + 1 .. Len(s) + Len(t)
    BY <1>1
  <2>5. \A i \in Wide(st) : i \in 1 .. Len(s) + Len(t)
    BY <1>2 DEF Wide
  <2> HIDE DEF B
  <2> QED
    BY <1>3, <1>4, <2>1, <2>2, <2>3, <2>4, <2>5
<1>6. Wide(s) \cap B = {}
  <2>1. \A i \in 1 .. Len(s) : i \notin Len(s) + 1 .. Len(s) + Len(t)
    BY <1>1
  <2> HIDE DEF B
  <2> QED
    BY <1>3, <1>4, <2>1
<1>7. IsFiniteSet(B) /\ Cardinality(B) = Cardinality(Wide(t))
  BY <1>1, <1>3, BytesIs, Shifted
<1> HIDE DEF B
<1>8. Cardinality(Wide(st)) = Cardinality(Wide(s)) + Cardinality(Wide(t))
  <2>1. Cardinality(Wide(s) \cup B) = Cardinality(Wide(s)) + Cardinality(B) - Cardinality({})
    BY <1>6, <1>7, BytesIs, FS_Union
  <2>2. Cardinality({}) = 0 /\ Cardinality(Wide(s)) \in Nat /\ Cardinality(Wide(t)) \in Nat
    BY FS_EmptySet, BytesIs
  <2> QED
    BY <1>5, <1>7, <2>1, <2>2
<1>9. /\ Bytes(s) = Len(s) + 2 * Cardinality(Wide(s)) /\ Cardinality(Wide(s)) \in Nat
      /\ Bytes(t) = Len(t) + 2 * Cardinality(Wide(t)) /\ Cardinality(Wide(t)) \in Nat
      /\ Bytes(st) = Len(st) + 2 * Cardinality(Wide(st))
  BY <1>2, BytesIs
<1>10. Bytes(st) = Bytes(s) + Bytes(t)
  BY <1>1, <1>2, <1>8, <1>9
<1> QED
  BY <1>2, <1>10 DEF st

\* FiniteSetsExt's Max.
LEMMA MaxIs ==
  ASSUME NEW n \in Nat, NEW S \in SUBSET (0 .. n), S # {}
  PROVE  Max(S) \in S /\ \A i \in S : i <= Max(S)
<1>1. \E m \in S : \A i \in S : m >= i
  <2>1. PICK m \in S : \A i \in S : i <= m
    BY GreatestNumber
  <2>2. \A i \in S : m >= i
    BY <2>1
  <2> QED
    BY <2>2
<1>2. Max(S) \in S /\ \A i \in S : Max(S) >= i
  BY <1>1 DEF Max
<1> QED
  BY <1>2

LEMMA Beginning ==
  ASSUME NEW s \in Runes, NEW t, Slice(s, 0, t)
  PROVE  t \in Runes /\ Len(t) <= Len(s) /\ \A i \in 1 .. Len(t) : t[i] = s[i]
<1>1. t \in Runes /\ 0 + Len(t) <= Len(s) /\ \A i \in 1 .. Len(t) : t[i] = s[0 + i]
  BY DEF Slice
<1>2. Len(t) \in Nat /\ \A i \in 1 .. Len(t) : 0 + i = i
  BY <1>1, Typed1
<1> QED
  BY <1>1, <1>2

\* strings.TrimRight drops the runes of a set at the end, and no other.
LEMMA TrimRightIs ==
  ASSUME NEW s \in Runes, NEW R
  PROVE  LET t == TrimRight(s, R) IN
         /\ Slice(s, 0, t)
         /\ t # <<>> => t[Len(t)] \notin R
         /\ \A i \in Len(t) + 1 .. Len(s) : s[i] \in R
<1> DEFINE t == TrimRight(s, R)
           K == {0} \cup {i \in DOMAIN s : s[i] \notin R}
           m == Max(K)
<1>1. Len(s) \in Nat /\ DOMAIN s = 1 .. Len(s)
  BY Typed1
<1>2. K \in SUBSET (0 .. Len(s)) /\ K # {}
  BY <1>1
<1>3. m \in K /\ \A i \in K : i <= m
  <2> HIDE DEF K
  <2> QED
    BY <1>1, <1>2, MaxIs
<1>4. m \in Nat /\ m <= Len(s)
  BY <1>1, <1>3
<1>5. t = SubSeq(s, 1, m)
  BY DEF TrimRight
<1> HIDE DEF t, m
<1>6. Slice(s, 0, t) /\ Len(t) = m
  <2>1. Slice(s, 1 - 1, t) /\ Len(t) = m - 1 + 1
    BY <1>4, <1>5, SubSeqSlice
  <2> QED
    BY <1>4, <2>1
<1>7. t # <<>> => t[Len(t)] \notin R
  <2> HAVE t # <<>>
  <2>1. t \in Runes
    BY <1>6 DEF Slice
  <2>2. m >= 1
    BY <1>6, <2>1, Typed1
  <2>3. m \in DOMAIN s /\ s[m] \notin R
    BY <1>3, <2>2
  <2>4. t[m] = s[0 + m]
    BY <1>4, <1>6, <2>2 DEF Slice
  <2> QED
    BY <1>4, <1>6, <2>3, <2>4
<1>8. ASSUME NEW i \in m + 1 .. Len(s) PROVE s[i] \in R
  <2>1. i \in DOMAIN s /\ ~(i <= m)
    BY <1>1, <1>4
  <2>2. i \notin K
    BY <1>3, <2>1
  <2> QED
    BY <2>1, <2>2
<1> QED
  BY <1>6, <1>7, <1>8 DEF t

LEMMA ReverseIs ==
  ASSUME NEW s \in Runes
  PROVE  /\ Reverse(s) \in Runes /\ Len(Reverse(s)) = Len(s)
         /\ \A i \in 1 .. Len(s) : Reverse(s)[i] = s[Len(s) - i + 1]
<1>1. Len(s) \in Nat /\ \A i \in 1 .. Len(s) : s[i] \in Rune
  BY Typed1
<1>2. \A i \in 1 .. Len(s) : Len(s) - i + 1 \in 1 .. Len(s)
  BY <1>1
<1>3. Reverse(s) \in [1 .. Len(s) -> Rune] /\ \A i \in 1 .. Len(s) : Reverse(s)[i] = s[Len(s) - i + 1]
  BY <1>1, <1>2 DEF Reverse
<1> QED
  BY <1>1, <1>3, FunctionIsSeq DEF Runes

\* strings.TrimSpace: what is left neither begins nor ends with a space, and
\* nothing else is lost.
LEMMA TrimSpaceIs ==
  ASSUME NEW s \in Runes
  PROVE  \E d \in Nat :
           LET t == TrimSpace(s) IN
           /\ Slice(s, d, t)
           /\ t # <<>> => t[1] # " " /\ t[Len(t)] # " "
           /\ \A i \in 1 .. d : s[i] = " "
           /\ \A i \in d + Len(t) + 1 .. Len(s) : s[i] = " "
<1> DEFINE r == TrimRight(s, {" "})
           v == Reverse(r)
           w == TrimRight(v, {" "})
           t == Reverse(w)
           d == Len(r) - Len(w)
<1>1. /\ Slice(s, 0, r) /\ (r # <<>> => r[Len(r)] \notin {" "})
      /\ \A i \in Len(r) + 1 .. Len(s) : s[i] \in {" "}
  BY TrimRightIs
<1> HIDE DEF r
<1>2. r \in Runes /\ Len(r) <= Len(s) /\ \A i \in 1 .. Len(r) : r[i] = s[i]
  BY <1>1, Beginning
<1>3. v \in Runes /\ Len(v) = Len(r) /\ \A i \in 1 .. Len(r) : v[i] = r[Len(r) - i + 1]
  BY <1>2, ReverseIs
<1> HIDE DEF v
<1>4. /\ Slice(v, 0, w) /\ (w # <<>> => w[Len(w)] \notin {" "})
      /\ \A i \in Len(w) + 1 .. Len(v) : v[i] \in {" "}
  BY <1>3, TrimRightIs
<1> HIDE DEF w
<1>5. w \in Runes /\ Len(w) <= Len(v) /\ \A i \in 1 .. Len(w) : w[i] = v[i]
  BY <1>3, <1>4, Beginning
<1>6. t \in Runes /\ Len(t) = Len(w) /\ \A i \in 1 .. Len(w) : t[i] = w[Len(w) - i + 1]
  BY <1>5, ReverseIs
<1> HIDE DEF t
<1>7. Len(s) \in Nat /\ Len(r) \in Nat /\ Len(w) \in Nat
  BY <1>2, <1>5, Typed1
<1>8. d \in Nat /\ d + Len(t) = Len(r) /\ d + Len(t) <= Len(s)
  BY <1>2, <1>3, <1>5, <1>6, <1>7
<1>9. ASSUME NEW i \in 1 .. Len(t) PROVE t[i] = s[d + i]
  <2> DEFINE j == Len(w) - i + 1
             k == Len(r) - j + 1
  <2>1. j \in 1 .. Len(w) /\ j \in 1 .. Len(r) /\ k \in 1 .. Len(r) /\ k = d + i
    BY <1>3, <1>5, <1>6, <1>7
  <2>2. t[i] = w[j] /\ w[j] = v[j]
    BY <1>5, <1>6, <2>1
  <2>3. v[j] = r[k]
    BY <1>3, <2>1
  <2>4. r[k] = s[k]
    BY <1>2, <2>1
  <2> HIDE DEF j, k
  <2> QED
    BY <2>1, <2>2, <2>3, <2>4
<1>10. Slice(s, d, t)
  BY <1>6, <1>8, <1>9 DEF Slice
<1>11. t # <<>> => t[1] # " " /\ t[Len(t)] # " "
  <2> HAVE t # <<>>
  <2>1. Len(t) >= 1 /\ Len(w) >= 1 /\ Len(r) >= 1
    BY <1>3, <1>5, <1>6, <1>7, Typed1
  <2>2. w # <<>> /\ r # <<>>
    BY <1>2, <1>5, <2>1, Typed1
  <2>3. t[1] = w[Len(w)]
    <3>1. 1 \in 1 .. Len(w) /\ Len(w) - 1 + 1 = Len(w)
      BY <1>7, <2>1
    <3> QED
      BY <1>6, <3>1
  <2>4. t[Len(t)] = r[Len(r)]
    <3>1. Len(w) \in 1 .. Len(w) /\ Len(w) - Len(w) + 1 = 1 /\ 1 \in 1 .. Len(w) /\ 1 \in 1 .. Len(r)
          /\ Len(r) - 1 + 1 = Len(r)
      BY <1>7, <2>1
    <3>2. t[Len(w)] = w[1]
      BY <1>6, <3>1
    <3>3. w[1] = v[1]
      BY <1>5, <3>1
    <3>4. v[1] = r[Len(r)]
      BY <1>3, <3>1
    <3> QED
      BY <1>6, <3>2, <3>3, <3>4
  <2> QED
    BY <1>1, <1>4, <2>2, <2>3, <2>4
<1>12. ASSUME NEW i \in 1 .. d PROVE s[i] = " "
  <2> DEFINE j == Len(r) - i + 1
  <2>1. i \in 1 .. Len(r) /\ j \in Len(w) + 1 .. Len(v) /\ j \in 1 .. Len(r) /\ Len(r) - j + 1 = i
    BY <1>3, <1>5, <1>7
  <2> HIDE DEF j
  <2>2. v[j] = " "
    BY <1>4, <2>1
  <2>3. v[j] = r[i] /\ r[i] = s[i]
    BY <1>2, <1>3, <2>1
  <2> QED
    BY <2>2, <2>3
<1>13. \A i \in d + Len(t) + 1 .. Len(s) : s[i] = " "
  BY <1>1, <1>8
<1>14. t = TrimSpace(s)
  BY DEF TrimSpace, t, w, v, r
<1> HIDE DEF d
<1> QED
  BY <1>8, <1>10, <1>11, <1>12, <1>13, <1>14

\* lastPathSegment leaves no separator.
LEMMA LastSegmentIs ==
  ASSUME NEW s \in Runes
  PROVE  \E d \in Nat : /\ Slice(s, d, LastSegment(s))
                        /\ \A i \in 1 .. Len(LastSegment(s)) : LastSegment(s)[i] # "/"
<1> DEFINE cuts == {i \in DOMAIN s : s[i] = "/"}
           m == Max(cuts)
<1>1. Len(s) \in Nat /\ DOMAIN s = 1 .. Len(s)
  BY Typed1
<1>2. CASE cuts = {}
  <2>1. LastSegment(s) = s
    BY <1>2 DEF LastSegment
  <2>2. Slice(s, 0, s)
    BY <1>1 DEF Slice
  <2> QED
    BY <1>1, <1>2, <2>1, <2>2
<1>3. CASE cuts # {}
  <2>1. cuts \in SUBSET (0 .. Len(s))
    BY <1>1
  <2>2. m \in cuts /\ \A i \in cuts : i <= m
    <3> HIDE DEF cuts
    <3> QED
      BY <1>1, <1>3, <2>1, MaxIs
  <2>3. m \in Nat /\ m >= 1 /\ m <= Len(s)
    BY <1>1, <2>2
  <2>4. LastSegment(s) = SubSeq(s, m + 1, Len(s))
    BY <1>3 DEF LastSegment
  <2> DEFINE b == LastSegment(s)
  <2> HIDE DEF m, b
  <2>5. Slice(s, m, b) /\ Len(b) = Len(s) - m
    <3> DEFINE a == m + 1
    <3>1. a \in Nat /\ 1 <= a /\ a <= Len(s) + 1 /\ a - 1 = m /\ Len(s) - a + 1 = Len(s) - m
      BY <1>1, <2>3
    <3>2. b = SubSeq(s, a, Len(s))
      BY <2>4 DEF b
    <3> HIDE DEF a
    <3>3. Slice(s, a - 1, SubSeq(s, a, Len(s))) /\ Len(SubSeq(s, a, Len(s))) = Len(s) - a + 1
      BY <1>1, <3>1, SubSeqSlice
    <3> QED
      BY <3>1, <3>2, <3>3
  <2>6. ASSUME NEW i \in 1 .. Len(b) PROVE b[i] # "/"
    <3>1. b[i] = s[m + i] /\ m + i \in DOMAIN s /\ ~(m + i <= m)
      BY <1>1, <2>3, <2>5 DEF Slice
    <3>2. m + i \notin cuts
      BY <2>2, <3>1
    <3> QED
      BY <3>1, <3>2
  <2> QED
    BY <2>3, <2>5, <2>6 DEF b
<1> QED
  BY <1>2, <1>3

\* What NoDoubleDots has made of the first n runes.
Replaces(s, n, g) ==
  g = [i \in 0 .. n |->
         IF i = 0 THEN <<>>
         ELSE IF s[i] = "." /\ g[i - 1] # <<>> /\ Last(g[i - 1]) = "."
              THEN Append(Front(g[i - 1]), "_") ELSE Append(g[i - 1], s[i])]

LEMMA ReplacesExist == \A s : \A n \in Nat : \E g : Replaces(s, n, g)
<1> SUFFICES ASSUME NEW s PROVE \A n \in Nat : \E g : Replaces(s, n, g)
  OBVIOUS
<1> DEFINE next(g, i) == IF i = 0 THEN <<>>
                         ELSE IF s[i] = "." /\ g[i - 1] # <<>> /\ Last(g[i - 1]) = "."
                              THEN Append(Front(g[i - 1]), "_") ELSE Append(g[i - 1], s[i])
           T == {n \in Nat : \E g : Replaces(s, n, g)}
<1>1. 0 \in T
  <2> DEFINE g == [i \in 0 .. 0 |-> <<>>]
  <2>1. \A i \in 0 .. 0 : i = 0
    OBVIOUS
  <2>2. Replaces(s, 0, g)
    BY <2>1 DEF Replaces
  <2> QED
    BY <2>2
<1>2. ASSUME NEW n \in Nat, n \in T PROVE n + 1 \in T
  <2>1. PICK g : Replaces(s, n, g)
    BY <1>2
  <2> DEFINE h == [i \in 0 .. n + 1 |-> next(g, i)]
  <2>2. g = [i \in 0 .. n |-> next(g, i)]
    BY <2>1, Zenon DEF Replaces
  <2>3. \A i \in 0 .. n : i \in 0 .. n + 1
    OBVIOUS
  <2>4. \A i \in 0 .. n + 1 : i # 0 => i - 1 \in 0 .. n
    OBVIOUS
  <2>5. \A i \in 0 .. n : h[i] = g[i]
    <3> HIDE DEF next
    <3> QED
      BY <2>2, <2>3, Zenon
  <2>6. \A i \in 0 .. n + 1 : i # 0 => g[i - 1] = h[i - 1]
    BY <2>4, <2>5, Zenon
  <2> HIDE DEF h
  <2>7. \A i \in 0 .. n + 1 : next(g, i) = next(h, i)
    BY <2>6, Zenon
  <2>8. h = [i \in 0 .. n + 1 |-> next(g, i)]
    BY DEF h
  <2>9. h = [i \in 0 .. n + 1 |-> next(h, i)]
    <3> HIDE DEF next
    <3> QED
      BY <2>7, <2>8, Zenon
  <2>10. Replaces(s, n + 1, h)
    BY <2>9, Zenon DEF Replaces
  <2> QED
    BY <2>10
<1> HIDE DEF T
<1>3. \A n \in Nat : n \in T
  BY <1>1, <1>2, AllNumbers
<1> QED
  BY <1>3 DEF T

NoDots(s) == \A i \in 1 .. Len(s) - 1 : ~(s[i] = "." /\ s[i + 1] = ".")

\* t is made of runes of s, and of "_", has no "..", and is s if s has none.
Undotted(s, n, t) ==
  /\ t \in Runes /\ Len(t) <= n /\ NoDots(t)
  /\ \A i \in 1 .. Len(t) : t[i] = "_" \/ \E k \in 1 .. Len(s) : t[i] = s[k]
  /\ NoDots(s) => Len(t) = n /\ \A i \in 1 .. n : t[i] = s[i]

LEMMA Appends ==
  ASSUME NEW t \in Runes, NEW r \in Rune
  PROVE  /\ Append(t, r) \in Runes /\ Len(Append(t, r)) = Len(t) + 1
         /\ \A i \in 1 .. Len(t) : Append(t, r)[i] = t[i]
         /\ Append(t, r)[Len(t) + 1] = r
BY AppendProperties DEF Runes

LEMMA UndottedOne ==
  ASSUME NEW s \in Runes, NEW n \in Nat, n + 1 <= Len(s), NEW t, Undotted(s, n, t)
  PROVE  Undotted(s, n + 1, IF s[n + 1] = "." /\ t # <<>> /\ Last(t) = "."
                            THEN Append(Front(t), "_") ELSE Append(t, s[n + 1]))
<1> DEFINE r == s[n + 1]
<1>1. /\ t \in Runes /\ Len(t) \in Nat /\ Len(t) <= n /\ (t # <<>> <=> Len(t) >= 1)
      /\ Len(s) \in Nat /\ r \in Rune /\ n + 1 \in 1 .. Len(s)
  <2>1. t \in Runes /\ Len(t) <= n
    BY DEF Undotted
  <2>2. Len(t) \in Nat /\ (t # <<>> <=> Len(t) >= 1)
    BY <2>1, Typed1
  <2>3. Len(s) \in Nat /\ n + 1 \in 1 .. Len(s)
    BY Typed1
  <2>4. r \in Rune
    BY <2>3, Typed1
  <2> HIDE DEF r
  <2> QED
    BY <2>1, <2>2, <2>3, <2>4
<1>2. /\ NoDots(t)
      /\ \A i \in 1 .. Len(t) : t[i] = "_" \/ \E k \in 1 .. Len(s) : t[i] = s[k]
      /\ NoDots(s) => Len(t) = n /\ \A i \in 1 .. n : t[i] = s[i]
  BY DEF Undotted
<1> HIDE DEF r
<1>3. CASE r = "." /\ t # <<>> /\ Last(t) = "."
  <2> DEFINE f == Front(t)
             u == Append(f, "_")
             m == Len(t) - 1
  <2>1. m \in Nat /\ Len(t) = m + 1
    BY <1>1, <1>3
  <2>2. f \in Runes /\ Len(f) = m /\ \A i \in 1 .. m : f[i] = t[i]
    <3>1. Slice(t, 1 - 1, SubSeq(t, 1, m)) /\ Len(SubSeq(t, 1, m)) = m - 1 + 1
      BY <1>1, <2>1, SubSeqSlice
    <3>2. f = SubSeq(t, 1, m)
      BY DEF Front
    <3> HIDE DEF f
    <3>3. Slice(t, 0, f) /\ Len(f) = m
      BY <2>1, <3>1, <3>2
    <3> QED
      BY <1>1, <3>3, Beginning
  <2> HIDE DEF f, m
  <2>3. /\ u \in Runes /\ Len(u) = m + 1 /\ u[m + 1] = "_"
        /\ \A i \in 1 .. m : u[i] = t[i]
    <3>1. "_" \in Rune
      BY DEF Rune
    <3> QED
      BY <2>2, <3>1, Appends
  <2> HIDE DEF u
  <2>0. Len(u) = m + 1
    BY <2>3, Zenon
  <2>4. ASSUME NEW i \in 1 .. Len(u) - 1 PROVE ~(u[i] = "." /\ u[i + 1] = ".")
    <3>1. i \in 1 .. m /\ (i + 1 \in 1 .. m \/ i + 1 = m + 1)
      BY <2>0, <2>1
    <3>2. i \in 1 .. Len(t) - 1
      BY <2>1, <3>1
    <3>3. ~(t[i] = "." /\ t[i + 1] = ".")
      BY <1>2, <3>2 DEF NoDots
    <3>4. CASE i + 1 \in 1 .. m
      <4>1. u[i + 1] = t[i + 1] /\ u[i] = t[i]
        BY <2>3, <3>1, <3>4
      <4> QED
        BY <3>3, <4>1
    <3>5. CASE i + 1 = m + 1
      <4>1. u[i + 1] = "_"
        BY <2>3, <3>5
      <4> QED
        BY <4>1
    <3> QED
      BY <3>1, <3>4, <3>5
  <2>5. ASSUME NEW i \in 1 .. Len(u) PROVE u[i] = "_" \/ \E k \in 1 .. Len(s) : u[i] = s[k]
    <3>1. i = m + 1 \/ i \in 1 .. m
      BY <2>0, <2>1
    <3>2. ASSUME i \in 1 .. m PROVE i \in 1 .. Len(t)
      BY <2>1, <3>2
    <3> QED
      BY <1>2, <2>3, <3>1, <3>2
  <2>6. ~NoDots(s)
    <3> SUFFICES ASSUME NoDots(s) PROVE FALSE
      OBVIOUS
    <3>0. Len(t) = n
      BY <1>2
    <3>1. n \in 1 .. n /\ n \in 1 .. Len(s) - 1
      BY <1>1, <1>3, <3>0
    <3>2. t[n] = "." /\ t[n] = s[n]
      BY <1>2, <1>3, <3>0, <3>1 DEF Last
    <3>3. s[n + 1] = "."
      BY <1>3 DEF r
    <3> QED
      BY <3>1, <3>2, <3>3 DEF NoDots
  <2>7. Len(u) <= n + 1
    BY <1>1, <2>0, <2>1
  <2>8. Undotted(s, n + 1, u)
    BY <2>3, <2>4, <2>5, <2>6, <2>7 DEF Undotted, NoDots
  <2> QED
    BY <1>3, <2>8 DEF u, f, r
<1>4. CASE ~(r = "." /\ t # <<>> /\ Last(t) = ".")
  <2> DEFINE u == Append(t, r)
             m == Len(t)
  <2>1. m \in Nat /\ u \in Runes /\ Len(u) = m + 1 /\ u[m + 1] = r /\ \A i \in 1 .. m : u[i] = t[i]
    BY <1>1, Appends
  <2> HIDE DEF u
  <2>2. ASSUME NEW i \in 1 .. Len(u) - 1 PROVE ~(u[i] = "." /\ u[i + 1] = ".")
    <3>1. i \in 1 .. m
      BY <2>1
    <3>2. CASE i < m
      <4>1. i \in 1 .. m - 1 /\ i + 1 \in 1 .. m
        BY <2>1, <3>1, <3>2
      <4>2. ~(t[i] = "." /\ t[i + 1] = ".")
        BY <1>2, <4>1 DEF NoDots
      <4> QED
        BY <2>1, <3>1, <4>1, <4>2
    <3>3. CASE i = m
      <4>1. u[i] = t[m] /\ u[i + 1] = r /\ t # <<>>
        BY <1>1, <2>1, <3>1, <3>3
      <4> QED
        BY <1>4, <4>1 DEF Last
    <3> QED
      BY <2>1, <3>1, <3>2, <3>3
  <2>3. ASSUME NEW i \in 1 .. Len(u) PROVE u[i] = "_" \/ \E k \in 1 .. Len(s) : u[i] = s[k]
    <3>1. i = m + 1 \/ i \in 1 .. m
      BY <2>1
    <3>2. u[m + 1] = s[n + 1] /\ n + 1 \in 1 .. Len(s)
      BY <1>1, <2>1 DEF r
    <3> QED
      BY <1>2, <2>1, <3>1, <3>2
  <2>4. NoDots(s) => Len(u) = n + 1 /\ \A i \in 1 .. n + 1 : u[i] = s[i]
    <3> HAVE NoDots(s)
    <3>1. m = n /\ \A i \in 1 .. n : t[i] = s[i]
      BY <1>2
    <3>2. u[n + 1] = s[n + 1]
      BY <2>1, <3>1 DEF r
    <3>3. \A i \in 1 .. n + 1 : i \in 1 .. n \/ i = n + 1
      OBVIOUS
    <3> QED
      BY <2>1, <3>1, <3>2, <3>3
  <2>5. Len(u) <= n + 1
    BY <1>1, <2>1
  <2>6. Undotted(s, n + 1, u)
    BY <2>1, <2>2, <2>3, <2>4, <2>5 DEF Undotted, NoDots
  <2> QED
    BY <1>4, <2>6 DEF u, r
<1> QED
  BY <1>3, <1>4

\* One pass of ReplaceAll leaves no "..", so the loop in SanitizeFileName ends.
LEMMA NoDoubleDotsIs ==
  ASSUME NEW s \in Runes
  PROVE  Undotted(s, Len(s), NoDoubleDots(s))
<1> DEFINE n == Len(s)
           g == CHOOSE g : Replaces(s, n, g)
<1>1. n \in Nat
  BY Typed1
<1>2. Replaces(s, n, g)
  BY <1>1, ReplacesExist
<1>3. NoDoubleDots(s) = g[n]
  BY Zenon DEF NoDoubleDots, Replaces
<1> HIDE DEF g
<1>4. \A i \in 0 .. n : g[i] =
        IF i = 0 THEN <<>>
        ELSE IF s[i] = "." /\ g[i - 1] # <<>> /\ Last(g[i - 1]) = "."
             THEN Append(Front(g[i - 1]), "_") ELSE Append(g[i - 1], s[i])
  BY <1>2, Zenon DEF Replaces
<1> DEFINE T == {k \in Nat : k <= n => Undotted(s, k, g[k])}
<1>5. \A k \in Nat : k \in T <=> (k <= n => Undotted(s, k, g[k]))
  OBVIOUS
<1> HIDE DEF T
<1>6. 0 \in T
  <2>1. g[0] = <<>>
    <3>1. 0 \in 0 .. n
      BY <1>1
    <3> QED
      BY <1>4, <3>1, Zenon
  <2>2. Undotted(s, 0, <<>>)
    <3>1. <<>> \in Runes /\ Len(<<>>) = 0 /\ 1 .. 0 = {} /\ 1 .. 0 - 1 = {}
      BY DEF Runes
    <3> QED
      BY <3>1 DEF Undotted, NoDots
  <2> QED
    BY <1>5, <2>1, <2>2
<1>7. ASSUME NEW k \in Nat, k \in T PROVE k + 1 \in T
  <2> SUFFICES ASSUME k + 1 <= n PROVE Undotted(s, k + 1, g[k + 1])
    BY <1>5
  <2>1. Undotted(s, k, g[k])
    BY <1>1, <1>5, <1>7
  <2> DEFINE j == k + 1
  <2>2. j \in 0 .. n /\ j # 0 /\ j - 1 = k
    BY <1>1
  <2> HIDE DEF j
  <2>3. g[j] = IF s[j] = "." /\ g[k] # <<>> /\ Last(g[k]) = "."
               THEN Append(Front(g[k]), "_") ELSE Append(g[k], s[j])
    BY <1>4, <2>2
  <2>4. g[k + 1] = IF s[k + 1] = "." /\ g[k] # <<>> /\ Last(g[k]) = "."
                   THEN Append(Front(g[k]), "_") ELSE Append(g[k], s[k + 1])
    BY <2>3, Zenon DEF j
  <2> QED
    BY <2>1, <2>4, UndottedOne
<1>8. \A k \in Nat : k \in T
  BY <1>6, <1>7, AllNumbers
<1> QED
  BY <1>1, <1>3, <1>5, <1>8

Plain(s) == \A i \in 1 .. Len(s) : s[i] \notin {"/", "?"}
Clean(s) == s \in Runes /\ NoDots(s) /\ Plain(s)
Fits(s) == Len(s) <= MaxNameRunes /\ Bytes(s) <= MaxNameBytes

LEMMA CleanSlice ==
  ASSUME NEW s \in Runes, NEW t, NEW d, Slice(s, d, t)
  PROVE  /\ t \in Runes
         /\ Plain(s) => Plain(t)
         /\ NoDots(s) => NoDots(t)
         /\ Fits(s) => Fits(t)
<1>1. t \in Runes /\ d \in Nat /\ d + Len(t) <= Len(s) /\ \A i \in 1 .. Len(t) : t[i] = s[d + i]
  BY DEF Slice
<1>2. Len(s) \in Nat /\ Len(t) \in Nat
  BY <1>1, Typed1
<1>3. \A i \in 1 .. Len(t) : d + i \in 1 .. Len(s)
  BY <1>1, <1>2
<1>4. Plain(s) => Plain(t)
  BY <1>1, <1>3 DEF Plain
<1>5. ASSUME NoDots(s), NEW i \in 1 .. Len(t) - 1 PROVE ~(t[i] = "." /\ t[i + 1] = ".")
  <2> DEFINE j == d + i
             k == i + 1
  <2>1. j \in 1 .. Len(s) - 1 /\ i \in 1 .. Len(t) /\ k \in 1 .. Len(t) /\ d + k = j + 1
    BY <1>1, <1>2
  <2>2. ~(s[j] = "." /\ s[j + 1] = ".")
    BY <1>5, <2>1 DEF NoDots
  <2>3. t[i] = s[j]
    BY <1>1, <2>1
  <2> HIDE DEF j, k
  <2>4. t[k] = s[j + 1]
    BY <1>1, <2>1
  <2> QED
    BY <2>2, <2>3, <2>4 DEF k
<1>6. Fits(s) => Fits(t)
  <2>1. Len(t) <= Len(s) /\ Bytes(t) <= Bytes(s) /\ Bytes(s) \in Nat /\ Bytes(t) \in Nat
    BY <1>1, SliceBytes, BytesIs
  <2> QED
    BY <1>2, <2>1, ArchiveAssumption DEF Fits
<1> QED
  BY <1>1, <1>4, <1>5, <1>6 DEF NoDots

LEMMA FallbackIs ==
  /\ Fallback \in Runes /\ Len(Fallback) = 1 /\ Bytes(Fallback) = 1
  /\ Fallback[1] = "a" /\ Plain(Fallback) /\ NoDots(Fallback)
<1>1. Fallback \in Runes /\ Len(Fallback) = 1 /\ Fallback[1] = "a"
  BY DEF Fallback, Runes, Rune
<1>2. \A i \in 1 .. 1 : i = 1
  OBVIOUS
<1>3. 1 .. 1 - 1 = {}
  OBVIOUS
<1>4. Plain(Fallback) /\ NoDots(Fallback)
  BY <1>1, <1>2, <1>3 DEF Plain, NoDots
<1>5. Wide(Fallback) = {}
  <2>1. DOMAIN Fallback = 1 .. 1
    BY <1>1, Typed1
  <2> QED
    BY <1>1, <1>2, <2>1 DEF Wide
<1>6. Bytes(Fallback) = Len(Fallback) + 2 * Cardinality(Wide(Fallback))
  BY <1>1, BytesIs
<1>7. Cardinality(Wide(Fallback)) = 0
  BY <1>5, FS_EmptySet
<1> QED
  BY <1>1, <1>4, <1>6, <1>7

LEMMA NoRunes == <<>> \in Runes /\ Len(<<>>) = 0 /\ Bytes(<<>>) = 0
<1>1. <<>> \in Runes /\ Len(<<>>) = 0
  BY DEF Runes
<1>2. Cardinality(Wide(<<>>)) \in Nat /\ Cardinality(Wide(<<>>)) <= Len(<<>>)
      /\ Bytes(<<>>) = Len(<<>>) + 2 * Cardinality(Wide(<<>>))
  BY <1>1, BytesIs
<1> QED
  BY <1>1, <1>2

\* An extension begins with its dot, so not every rune of it has three bytes.
LEMMA ExtensionIs ==
  ASSUME NEW s \in Runes
  PROVE  LET e == Extension(s) IN
         /\ Slice(s, Len(s) - Len(e), e)
         /\ Len(e) \in 0 .. MaxExtRunes /\ Bytes(e) \in Nat /\ Bytes(e) + 2 <= 3 * MaxExtRunes
<1> DEFINE dots == {i \in DOMAIN s : s[i] = "."}
           m == Max(dots)
           x == SubSeq(s, m, Len(s))
           e == Extension(s)
<1>1. Len(s) \in Nat /\ DOMAIN s = 1 .. Len(s)
  BY Typed1
<1>2. CASE e = <<>>
  <2>1. Slice(s, Len(s), <<>>)
    BY <1>1, NoRunes DEF Slice
  <2>2. Len(s) - 0 = Len(s) /\ 0 + 2 <= 3 * MaxExtRunes
    BY <1>1, ArchiveAssumption
  <2>3. Len(e) = 0 /\ Bytes(e) = 0 /\ Slice(s, Len(s) - Len(e), e)
    BY <1>2, <2>1, <2>2, NoRunes
  <2> HIDE DEF e
  <2> QED
    BY <2>2, <2>3, ArchiveAssumption DEF e
<1>3. CASE e # <<>>
  <2>1. dots # {} /\ Len(x) <= MaxExtRunes /\ e = x
    BY <1>3 DEF Extension
  <2>2. dots \in SUBSET (0 .. Len(s))
    BY <1>1
  <2>3. m \in dots
    <3> HIDE DEF dots
    <3> QED
      BY <1>1, <2>1, <2>2, MaxIs
  <2>4. m \in 1 .. Len(s) /\ s[m] = "."
    BY <1>1, <2>3
  <2> HIDE DEF m
  <2>5. Slice(s, m - 1, x) /\ Len(x) = Len(s) - m + 1
    BY <1>1, <2>4, SubSeqSlice
  <2> HIDE DEF x, e
  <2>6. x \in Runes /\ Len(x) \in Nat /\ Len(x) >= 1 /\ m - 1 = Len(s) - Len(x)
    <3>1. x \in Runes
      BY <2>5 DEF Slice
    <3> QED
      BY <1>1, <2>4, <2>5, <3>1
  <2>7. x[1] = "."
    <3>1. 1 \in 1 .. Len(x) /\ m - 1 + 1 = m
      BY <2>4, <2>6
    <3>2. x[1] = s[m - 1 + 1]
      BY <2>5, <3>1 DEF Slice
    <3> QED
      BY <2>4, <3>1, <3>2
  <2>8. Wide(x) \in SUBSET (2 .. Len(x))
    <3>1. \A i \in Wide(x) : i \in 1 .. Len(x) /\ x[i] = "w"
      BY <2>6, Typed1 DEF Wide
    <3>2. \A i \in Wide(x) : i # 1
      BY <2>7, <3>1
    <3> QED
      BY <2>6, <3>1, <3>2
  <2>9. IsFiniteSet(2 .. Len(x)) /\ Cardinality(2 .. Len(x)) = Len(x) - 1
    <3> HIDE DEF x
    <3>0. 2 \in Int /\ Len(x) \in Int
      BY <2>6
    <3>1. IsFiniteSet(2 .. Len(x)) /\ Cardinality(2 .. Len(x)) = IF 2 > Len(x) THEN 0 ELSE Len(x) - 2 + 1
      BY Zenon, <3>0, FS_Interval
    <3> QED
      BY <2>6, <3>1
  <2>10. Cardinality(Wide(x)) <= Len(x) - 1
    BY <2>8, <2>9, FS_Subset
  <2>11. /\ Cardinality(Wide(x)) \in Nat /\ Bytes(x) = Len(x) + 2 * Cardinality(Wide(x))
    BY <2>6, BytesIs
  <2>12. Bytes(x) \in Nat /\ Bytes(x) + 2 <= 3 * MaxExtRunes
    BY <2>1, <2>6, <2>10, <2>11, ArchiveAssumption
  <2>13. Slice(s, Len(s) - Len(x), x)
    BY <2>5, <2>6
  <2>14. Len(x) \in 0 .. MaxExtRunes
    BY <2>1, <2>6, ArchiveAssumption
  <2>15. e = x
    BY <2>1
  <2> QED
    BY <2>12, <2>13, <2>14, <2>15 DEF e
<1> QED
  BY <1>2, <1>3

\* Cut leaves a beginning of the stem that, with the extension, is in both budgets.
LEMMA CutIs ==
  ASSUME NEW b \in Runes, NEW e \in Runes, Fits(e)
  PROVE  LET c == Cut(b, e) IN
         Slice(b, 0, c) /\ Len(c) + Len(e) <= MaxNameRunes /\ Bytes(c) + Bytes(e) <= MaxNameBytes
<1> DEFINE K == {n \in 0 .. Len(b) : /\ n <= MaxNameRunes - Len(e)
                                     /\ Bytes(SubSeq(b, 1, n)) <= MaxNameBytes - Bytes(e)}
           m == Max(K)
           c == Cut(b, e)
<1>1. Len(b) \in Nat /\ Len(e) \in Nat /\ Bytes(e) \in Nat
  BY Typed1, BytesIs
<1>2. /\ Len(e) <= MaxNameRunes /\ Bytes(e) <= MaxNameBytes
      /\ MaxNameRunes \in Nat /\ MaxNameBytes \in Nat
  BY ArchiveAssumption DEF Fits
<1>3. \A n \in 0 .. Len(b) : Slice(b, 0, SubSeq(b, 1, n)) /\ Len(SubSeq(b, 1, n)) = n
  <2> TAKE n \in 0 .. Len(b)
  <2>1. n \in Nat /\ 1 <= n + 1 /\ n <= Len(b) /\ 1 - 1 = 0 /\ n - 1 + 1 = n
    BY <1>1
  <2>2. Slice(b, 1 - 1, SubSeq(b, 1, n)) /\ Len(SubSeq(b, 1, n)) = n - 1 + 1
    BY <2>1, SubSeqSlice
  <2> QED
    BY <2>1, <2>2
<1>4. 0 \in K
  <2> DEFINE o == SubSeq(b, 1, 0)
  <2>1. 0 \in 0 .. Len(b)
    BY <1>1
  <2>2. o \in Runes /\ Len(o) = 0
    BY <1>3, <2>1 DEF Slice
  <2> HIDE DEF o
  <2>3. Cardinality(Wide(o)) \in Nat /\ Cardinality(Wide(o)) <= Len(o)
        /\ Bytes(o) = Len(o) + 2 * Cardinality(Wide(o))
    BY <2>2, BytesIs
  <2>4. Bytes(o) = 0
    BY <2>2, <2>3
  <2>5. Bytes(SubSeq(b, 1, 0)) = 0
    BY <2>4 DEF o
  <2>6. 0 <= MaxNameRunes - Len(e) /\ 0 <= MaxNameBytes - Bytes(e)
    BY <1>1, <1>2
  <2> QED
    BY <2>1, <2>5, <2>6
<1>5. m \in K
  <2>1. K \in SUBSET (0 .. Len(b)) /\ K # {}
    BY <1>4
  <2> HIDE DEF K
  <2> QED
    BY <1>1, <2>1, MaxIs
<1>6. m \in 0 .. Len(b) /\ m <= MaxNameRunes - Len(e) /\ Bytes(SubSeq(b, 1, m)) <= MaxNameBytes - Bytes(e)
  BY <1>5
<1>7. c = SubSeq(b, 1, m)
  BY DEF Cut
<1> HIDE DEF m, c
<1>8. Slice(b, 0, c) /\ Len(c) = m /\ Bytes(c) <= MaxNameBytes - Bytes(e)
  BY <1>3, <1>6, <1>7
<1>9. Bytes(c) \in Nat
  <2>1. c \in Runes
    BY <1>8 DEF Slice
  <2> QED
    BY <2>1, BytesIs
<1>10. Len(c) + Len(e) <= MaxNameRunes /\ Bytes(c) + Bytes(e) <= MaxNameBytes
  BY <1>1, <1>2, <1>6, <1>8, <1>9
<1> QED
  BY <1>8, <1>10 DEF c

LEMMA TruncateIs ==
  ASSUME NEW s, Clean(s)
  PROVE  /\ Clean(truncateFileName(s)) /\ Fits(truncateFileName(s))
         /\ \E st \in Runes : Len(st) >= 1 /\ truncateFileName(s) = st \o Extension(s)
<1> DEFINE e == Extension(s)
           b == SubSeq(s, 1, Len(s) - Len(e))
           c == Cut(b, e)
           stem == TrimRight(c, {".", " "})
           st == IF stem = <<>> THEN Fallback ELSE stem
           t == st \o e
<1>1. s \in Runes /\ NoDots(s) /\ Plain(s) /\ Len(s) \in Nat
  BY Typed1 DEF Clean
<1>2. /\ Slice(s, Len(s) - Len(e), e)
      /\ Len(e) \in 0 .. MaxExtRunes /\ Bytes(e) \in Nat /\ Bytes(e) + 2 <= 3 * MaxExtRunes
  BY <1>1, ExtensionIs
<1>3. t = truncateFileName(s)
  BY DEF truncateFileName
<1> HIDE DEF e
<1>4. e \in Runes /\ NoDots(e) /\ Plain(e) /\ Len(e) \in Nat /\ Len(s) - Len(e) \in Nat
  <2>1. Len(s) - Len(e) \in Nat
    BY <1>2 DEF Slice
  <2>2. Len(e) \in Nat
    BY <1>2
  <2>3. e \in Runes /\ NoDots(e) /\ Plain(e)
    BY <1>1, <1>2, CleanSlice
  <2> QED
    BY <2>1, <2>2, <2>3
<1>5. Fits(e)
  BY <1>2, ArchiveAssumption DEF Fits
<1>6. Slice(s, 0, b)
  <2> DEFINE n == Len(s) - Len(e)
  <2>1. n \in Nat /\ 1 <= n + 1 /\ n <= Len(s) /\ 1 - 1 = 0
    BY <1>1, <1>4
  <2>2. b = SubSeq(s, 1, n)
    OBVIOUS
  <2> HIDE DEF n, b
  <2>3. Slice(s, 1 - 1, SubSeq(s, 1, n))
    BY <1>1, <2>1, SubSeqSlice
  <2> QED
    BY <2>1, <2>2, <2>3
<1> HIDE DEF b
<1>7. b \in Runes /\ NoDots(b) /\ Plain(b)
  BY <1>1, <1>6, CleanSlice
<1>8. Slice(b, 0, c) /\ Len(c) + Len(e) <= MaxNameRunes /\ Bytes(c) + Bytes(e) <= MaxNameBytes
  BY <1>4, <1>5, <1>7, CutIs
<1> HIDE DEF c
<1>9. c \in Runes /\ NoDots(c) /\ Plain(c)
  BY <1>7, <1>8, CleanSlice
<1>10. Slice(c, 0, stem) /\ (stem # <<>> => stem[Len(stem)] \notin {".", " "})
  BY <1>9, TrimRightIs
<1> HIDE DEF stem
<1>11. stem \in Runes /\ NoDots(stem) /\ Plain(stem) /\ Len(stem) <= Len(c) /\ Bytes(stem) <= Bytes(c)
  BY <1>9, <1>10, CleanSlice, SliceBytes
<1>12. /\ st \in Runes /\ NoDots(st) /\ Plain(st) /\ Len(st) \in Nat /\ Len(st) >= 1
       /\ st[Len(st)] # "." /\ Len(st) + Len(e) <= MaxNameRunes /\ Bytes(st) + Bytes(e) <= MaxNameBytes
  <2>1. CASE stem = <<>>
    <3>1. st = Fallback
      BY <2>1
    <3> HIDE DEF st
    <3>2. 1 + Len(e) <= MaxNameRunes /\ 1 + Bytes(e) <= MaxNameBytes
      BY <1>2, ArchiveAssumption
    <3> QED
      BY <3>1, <3>2, FallbackIs
  <2>2. CASE stem # <<>>
    <3>1. st = stem
      BY <2>2
    <3> HIDE DEF st
    <3>2. Len(stem) \in Nat /\ Len(stem) >= 1 /\ Len(c) \in Nat /\ Bytes(c) \in Nat /\ Bytes(stem) \in Nat
      BY <1>9, <1>11, <2>2, Typed1, BytesIs
    <3>3. Len(stem) + Len(e) <= MaxNameRunes
      BY <1>4, <1>8, <1>11, <3>2, ArchiveAssumption
    <3>4. Bytes(stem) + Bytes(e) <= MaxNameBytes
      BY <1>2, <1>8, <1>11, <3>2, ArchiveAssumption
    <3> QED
      BY <1>10, <1>11, <2>2, <3>1, <3>2, <3>3, <3>4
  <2> QED
    BY <2>1, <2>2
<1> HIDE DEF st
<1>13. t \in Runes /\ Len(t) = Len(st) + Len(e) /\ Bytes(t) = Bytes(st) + Bytes(e)
  BY <1>4, <1>12, JoinedBytes
<1>14. \A i \in 1 .. Len(st) + Len(e) : t[i] = IF i <= Len(st) THEN st[i] ELSE e[i - Len(st)]
  BY <1>4, <1>12, ConcatProperties DEF Runes
<1> HIDE DEF t
<1>15. ASSUME NEW i \in 1 .. Len(st) PROVE i \in 1 .. Len(t) /\ t[i] = st[i]
  <2>1. i \in 1 .. Len(st) + Len(e) /\ i <= Len(st)
    BY <1>4, <1>12
  <2> QED
    BY <1>13, <1>14, <2>1
<1>16. ASSUME NEW i \in 1 .. Len(e) PROVE Len(st) + i \in 1 .. Len(t) /\ t[Len(st) + i] = e[i]
  <2> DEFINE j == Len(st) + i
  <2>1. j \in 1 .. Len(st) + Len(e) /\ ~(j <= Len(st)) /\ j - Len(st) = i
    BY <1>4, <1>12
  <2> HIDE DEF j
  <2>2. t[j] = e[i]
    BY <1>14, <2>1
  <2> QED
    BY <1>13, <2>1, <2>2 DEF j
<1>17. \A i \in 1 .. Len(t) : i \in 1 .. Len(st) \/ i - Len(st) \in 1 .. Len(e)
  BY <1>4, <1>12, <1>13
<1>18. \A i \in 1 .. Len(t) : Len(st) + (i - Len(st)) = i
  BY <1>12, <1>13
<1>19. Plain(t)
  <2> SUFFICES ASSUME NEW i \in 1 .. Len(t) PROVE t[i] \notin {"/", "?"}
    BY DEF Plain
  <2>1. CASE i \in 1 .. Len(st)
    BY <1>12, <1>15, <2>1 DEF Plain
  <2>2. CASE i - Len(st) \in 1 .. Len(e)
    <3> DEFINE k == i - Len(st)
    <3>1. t[Len(st) + k] = e[k] /\ Len(st) + k = i
      BY <1>16, <1>18, <2>2
    <3>2. e[k] \notin {"/", "?"}
      BY <1>4, <2>2 DEF Plain
    <3> HIDE DEF k
    <3> QED
      BY <3>1, <3>2
  <2> QED
    BY <1>17, <2>1, <2>2
<1>20. NoDots(t)
  <2> SUFFICES ASSUME NEW i \in 1 .. Len(t) - 1 PROVE ~(t[i] = "." /\ t[i + 1] = ".")
    BY DEF NoDots
  <2>1. i \in Nat /\ i >= 1 /\ i + 1 <= Len(st) + Len(e)
    BY <1>4, <1>12, <1>13
  <2>2. CASE i < Len(st)
    <3> DEFINE j == i + 1
    <3>1. i \in 1 .. Len(st) - 1 /\ i \in 1 .. Len(st) /\ j \in 1 .. Len(st)
      BY <1>12, <2>1, <2>2
    <3>2. ~(st[i] = "." /\ st[i + 1] = ".")
      BY <1>12, <3>1 DEF NoDots
    <3>3. t[i] = st[i]
      BY <1>15, <3>1
    <3> HIDE DEF j
    <3>4. t[j] = st[j]
      BY <1>15, <3>1
    <3> QED
      BY <3>2, <3>3, <3>4 DEF j
  <2>3. CASE i = Len(st)
    <3>1. i \in 1 .. Len(st)
      BY <1>12, <2>3
    <3>2. t[i] = st[Len(st)]
      BY <1>15, <2>3, <3>1
    <3> QED
      BY <1>12, <3>2
  <2>4. CASE i > Len(st)
    <3> DEFINE k == i - Len(st)
               j == k + 1
    <3>1. k \in 1 .. Len(e) - 1 /\ k \in 1 .. Len(e) /\ j \in 1 .. Len(e) /\ Len(st) + k = i /\ Len(st) + j = i + 1
      BY <1>4, <1>12, <2>1, <2>4
    <3>2. ~(e[k] = "." /\ e[k + 1] = ".")
      BY <1>4, <3>1 DEF NoDots
    <3>3. ~(e[k] = "." /\ e[j] = ".")
      BY <3>2
    <3> HIDE DEF j, k
    <3>4. t[i] = e[k] /\ t[i + 1] = e[j]
      BY <1>16, <3>1
    <3> QED
      BY <3>3, <3>4
  <2> QED
    BY <1>12, <2>1, <2>2, <2>3, <2>4
<1>21. Clean(t) /\ Fits(t)
  BY <1>12, <1>13, <1>19, <1>20 DEF Clean, Fits
<1> QED
  BY <1>3, <1>12, <1>21 DEF t, e

\* The control and reserved characters replaced.
LEMMA ReplacedIs ==
  ASSUME NEW s \in Runes, \A i \in 1 .. Len(s) : s[i] # "/"
  PROVE  LET q == [i \in DOMAIN s |-> IF s[i] = "?" THEN "_" ELSE s[i]] IN
         /\ q \in Runes /\ Len(q) = Len(s) /\ Plain(q)
         /\ \A i \in 1 .. Len(s) : q[i] = IF s[i] = "?" THEN "_" ELSE s[i]
<1> DEFINE q == [i \in DOMAIN s |-> IF s[i] = "?" THEN "_" ELSE s[i]]
<1>1. Len(s) \in Nat /\ DOMAIN s = 1 .. Len(s) /\ \A i \in 1 .. Len(s) : s[i] \in Rune
  BY Typed1
<1>2. "_" \in Rune
  BY DEF Rune
<1>3. q \in [1 .. Len(s) -> Rune]
  BY <1>1, <1>2
<1>4. \A i \in 1 .. Len(s) : q[i] = IF s[i] = "?" THEN "_" ELSE s[i]
  BY <1>1
<1> HIDE DEF q
<1>5. q \in Runes /\ Len(q) = Len(s)
  BY <1>1, <1>3, FunctionIsSeq DEF Runes
<1>6. Plain(q)
  BY <1>4, <1>5 DEF Plain
<1> QED
  BY <1>4, <1>5, <1>6 DEF q

\* The name before it is cut and trimmed at last.
LEMMA UncutIs ==
  ASSUME NEW s \in Runes, \A i \in 1 .. Len(s) : s[i] # "/"
  PROVE  LET q == [i \in DOMAIN s |-> IF s[i] = "?" THEN "_" ELSE s[i]] IN
         /\ q \in Runes /\ Len(q) = Len(s)
         /\ \A i \in 1 .. Len(s) : q[i] = IF s[i] = "?" THEN "_" ELSE s[i]
         /\ Clean(NoDoubleDots(q))
         /\ Undotted(q, Len(q), NoDoubleDots(q))
<1> DEFINE q == [i \in DOMAIN s |-> IF s[i] = "?" THEN "_" ELSE s[i]]
           u == NoDoubleDots(q)
<1>1. /\ q \in Runes /\ Len(q) = Len(s) /\ Plain(q)
      /\ \A i \in 1 .. Len(s) : q[i] = IF s[i] = "?" THEN "_" ELSE s[i]
  BY ReplacedIs
<1> HIDE DEF q
<1>2. Undotted(q, Len(q), u)
  BY <1>1, NoDoubleDotsIs
<1> HIDE DEF u
<1>3. Plain(u)
  <2> SUFFICES ASSUME NEW i \in 1 .. Len(u) PROVE u[i] \notin {"/", "?"}
    BY DEF Plain
  <2>1. u[i] = "_" \/ \E k \in 1 .. Len(q) : u[i] = q[k]
    BY <1>2 DEF Undotted
  <2> QED
    BY <1>1, <2>1 DEF Plain
<1>4. Clean(u)
  BY <1>2, <1>3 DEF Clean, Undotted
<1> QED
  BY <1>1, <1>2, <1>4 DEF q, u

\* Whatever a client calls its file, the name that is stored is safe: neither
\* empty nor too long, without separators, control characters, ".." or
\* spaces around it (SanitizeFileName).
THEOREM AllNamesSafe == \A name \in Seq(Rune) : SafeName(name)
<1> SUFFICES ASSUME NEW raw \in Runes PROVE SafeName(raw)
  BY DEF Runes
<1> DEFINE base == LastSegment(raw)
           name == TrimSpace(base)
           q == [i \in DOMAIN name |-> IF name[i] = "?" THEN "_" ELSE name[i]]
           safe == NoDoubleDots(q)
           short == IF Len(safe) > MaxNameRunes \/ Bytes(safe) > MaxNameBytes
                    THEN truncateFileName(safe) ELSE safe
           t == TrimSpace(short)
           r == SanitizeFileName(raw)
<1>1. base \in Runes /\ \A i \in 1 .. Len(base) : base[i] # "/"
  BY LastSegmentIs DEF Slice
<1>2. r = IF ToSet(name) \subseteq {"."} \/ t = <<>> THEN Fallback ELSE t
  BY DEF SanitizeFileName
<1> HIDE DEF base
<1>3. name \in Runes /\ \A i \in 1 .. Len(name) : name[i] # "/"
  <2>1. PICK d \in Nat : Slice(base, d, name)
    BY <1>1, TrimSpaceIs
  <2> HIDE DEF name
  <2>2. name \in Runes /\ d + Len(name) <= Len(base) /\ \A i \in 1 .. Len(name) : name[i] = base[d + i]
    BY <2>1 DEF Slice
  <2>3. \A i \in 1 .. Len(name) : d + i \in 1 .. Len(base)
    BY <1>1, <2>2, Typed1
  <2> QED
    BY <1>1, <2>2, <2>3
<1> HIDE DEF name
<1>4. Clean(safe)
  BY <1>3, UncutIs
<1> HIDE DEF safe
<1>5. Clean(short) /\ Fits(short)
  <2>1. Len(safe) \in Nat /\ Bytes(safe) \in Nat
    BY <1>4, Typed1, BytesIs DEF Clean
  <2>2. CASE Len(safe) > MaxNameRunes \/ Bytes(safe) > MaxNameBytes
    BY <1>4, <2>2, TruncateIs
  <2>3. CASE ~(Len(safe) > MaxNameRunes \/ Bytes(safe) > MaxNameBytes)
    BY <1>4, <2>1, <2>3, ArchiveAssumption DEF Fits
  <2> QED
    BY <2>2, <2>3
<1> HIDE DEF short
<1>6. /\ t \in Runes /\ Plain(t) /\ NoDots(t) /\ Fits(t)
      /\ t # <<>> => t[1] # " " /\ t[Len(t)] # " "
  <2>1. PICK d \in Nat : Slice(short, d, t) /\ (t # <<>> => t[1] # " " /\ t[Len(t)] # " ")
    BY <1>5, TrimSpaceIs DEF Clean
  <2> HIDE DEF t
  <2>2. short \in Runes /\ Plain(short) /\ NoDots(short)
    BY <1>5 DEF Clean
  <2> QED
    BY <1>5, <2>1, <2>2, CleanSlice
<1> HIDE DEF t
<1>7. /\ r \in Runes /\ r # <<>> /\ Plain(r) /\ NoDots(r) /\ Fits(r)
      /\ r[1] # " " /\ r[Len(r)] # " "
  <2>1. CASE r = Fallback
    <3>1. 1 <= MaxNameRunes /\ 1 <= MaxNameBytes
      BY ArchiveAssumption
    <3>2. Fallback # <<>>
      BY DEF Fallback
    <3>3. Fallback[1] # " " /\ Fallback[Len(Fallback)] # " "
      BY FallbackIs
    <3>4. Fits(Fallback)
      BY <3>1, FallbackIs DEF Fits
    <3> QED
      BY <2>1, <3>2, <3>3, <3>4, FallbackIs
  <2>2. CASE r # Fallback
    <3>1. r = t /\ t # <<>>
      BY <1>2, <2>2
    <3> QED
      BY <1>6, <3>1
  <2> QED
    BY <2>1, <2>2
<1> HIDE DEF r
<1>8. ToSet(r) \cap {"/", "?"} = {}
  <2>1. DOMAIN r = 1 .. Len(r)
    BY <1>7, Typed1
  <2>2. ASSUME NEW x \in ToSet(r) PROVE x \notin {"/", "?"}
    <3>1. PICK i \in DOMAIN r : x = r[i]
      BY DEF ToSet
    <3> QED
      BY <1>7, <2>1, <3>1 DEF Plain
  <2> QED
    BY <2>2
<1>9. Head(r) # " " /\ Last(r) # " "
  <2>1. Head(r) = r[1]
    <3>1. r \in Runes
      BY <1>7
    <3> QED
      BY <3>1 DEF Runes
  <2> QED
    BY <1>7, <2>1 DEF Last
<1>10. Len(r) <= MaxNameRunes /\ Bytes(r) <= MaxNameBytes
  BY <1>7 DEF Fits
<1>11. \A i \in 1 .. Len(r) - 1 : ~(r[i] = "." /\ r[i + 1] = ".")
  BY <1>7 DEF NoDots
<1> QED
  BY <1>7, <1>8, <1>9, <1>10, <1>11 DEF SafeName, r

KindRune(x) == x \in {"Z", "G", "T"}

\* s ends in a dot and the rune of a kind.
Ends2(s, x) == s \in Runes /\ Len(s) >= 2 /\ s[Len(s) - 1] = "." /\ s[Len(s)] = x

LEMMA EndTrimmed ==
  ASSUME NEW s, NEW x, KindRune(x), Ends2(s, x)
  PROVE  /\ Ends2(TrimSpace(s), x) /\ TrimSpace(s) # <<>>
         /\ \E d \in Nat : Slice(s, d, TrimSpace(s))
<1> DEFINE t == TrimSpace(s)
           n == Len(s)
<1>1. s \in Runes /\ n \in Nat /\ n >= 2 /\ s[n - 1] = "." /\ s[n] = x
  BY Typed1 DEF Ends2
<1>2. PICK d \in Nat : /\ Slice(s, d, t)
                       /\ \A i \in 1 .. d : s[i] = " "
                       /\ \A i \in d + Len(t) + 1 .. n : s[i] = " "
  BY <1>1, TrimSpaceIs
<1> HIDE DEF t, n
<1>3. t \in Runes /\ Len(t) \in Nat /\ d + Len(t) <= n /\ \A i \in 1 .. Len(t) : t[i] = s[d + i]
  BY <1>2, Typed1 DEF Slice, n
<1>4. ~(n - 1 \in 1 .. d) /\ ~(n \in 1 .. d) /\ ~(n \in d + Len(t) + 1 .. n)
  BY <1>1, <1>2 DEF KindRune
<1>5. d + Len(t) = n /\ Len(t) >= 2 /\ d + (Len(t) - 1) = n - 1
  <2>1. d \in Nat /\ n \in Nat /\ n >= 2 /\ Len(t) \in Nat /\ d + Len(t) <= n
    BY <1>1, <1>3
  <2> DEFINE k == Len(t)
  <2> HIDE DEF k
  <2>2. k \in Nat /\ d + k <= n /\ ~(n \in d + k + 1 .. n)
    BY <1>4, <2>1 DEF k
  <2>3. d + k = n
    BY <2>1, <2>2
  <2>4. k >= 2 /\ d + (k - 1) = n - 1
    <3>1. d < n - 1
      BY <1>4, <2>1
    <3> QED
      BY <2>1, <2>2, <2>3, <3>1
  <2> QED
    BY <2>3, <2>4 DEF k
<1>6. t[Len(t)] = x /\ t[Len(t) - 1] = "."
  <2> DEFINE k == Len(t) - 1
             m == Len(t)
  <2>1. k \in 1 .. Len(t) /\ m \in 1 .. Len(t) /\ d + k = n - 1 /\ d + m = n
    <3>1. Len(t) \in Nat
      BY <1>3
    <3> QED
      BY <1>5, <3>1
  <2> HIDE DEF k, m
  <2>2. t[k] = s[n - 1] /\ t[m] = s[n]
    BY <1>3, <2>1
  <2> QED
    BY <1>1, <2>2 DEF k, m
<1>7. Ends2(t, x) /\ t # <<>>
  <2>1. t \in Runes /\ Len(t) >= 2
    BY <1>3, <1>5
  <2>2. t # <<>>
    <3>1. Len(t) >= 1
      BY <1>3, <2>1
    <3> QED
      BY <2>1, <3>1, Typed1
  <2> QED
    BY <1>6, <2>1, <2>2, Zenon DEF Ends2
<1> QED
  BY <1>2, <1>7 DEF t

LEMMA EndIsExtension ==
  ASSUME NEW s, NEW x, KindRune(x), Ends2(s, x)
  PROVE  Ends2(Extension(s), x) /\ Len(Extension(s)) = 2
<1> DEFINE dots == {i \in DOMAIN s : s[i] = "."}
           m == Max(dots)
           e == SubSeq(s, m, Len(s))
           n == Len(s)
<1>1. s \in Runes /\ n \in Nat /\ DOMAIN s = 1 .. n /\ n >= 2 /\ s[n - 1] = "." /\ s[n] = x
  BY Typed1 DEF Ends2
<1>2. n - 1 \in dots /\ n \notin dots
  <2>1. n \in Nat /\ n >= 2 /\ n - 1 \in 1 .. n
    BY <1>1
  <2> HIDE DEF n
  <2> QED
    BY <1>1, <2>1 DEF KindRune
<1>3. m \in dots /\ \A i \in dots : i <= m
  <2>1. dots \in SUBSET (0 .. n) /\ dots # {}
    BY <1>1, <1>2
  <2> HIDE DEF dots, n
  <2> QED
    BY <1>1, <2>1, MaxIs
<1>4. m = n - 1
  <2>1. m \in 1 .. n
    BY <1>1, <1>3
  <2>2. m # n
    BY <1>2, <1>3
  <2>3. n - 1 <= m
    BY <1>2, <1>3
  <2> QED
    BY <1>1, <2>1, <2>2, <2>3
<1>5. Extension(s) = IF dots # {} /\ Len(e) <= MaxExtRunes /\ Bytes(e) <= 4 * MaxExtRunes THEN e ELSE <<>>
  BY DEF Extension
<1> HIDE DEF m
<1>6. Slice(s, m - 1, e) /\ Len(e) = 2
  <2>1. m \in Nat /\ 1 <= m /\ m <= n + 1 /\ n - m + 1 = 2
    BY <1>1, <1>4
  <2> QED
    BY <1>1, <2>1, SubSeqSlice
<1> HIDE DEF e
<1>7. e \in Runes /\ e[1] = "." /\ e[2] = x
  <2>1. 1 \in 1 .. 2 /\ 2 \in 1 .. 2 /\ m - 1 + 1 = n - 1 /\ m - 1 + 2 = n
    BY <1>1, <1>4
  <2>2. e \in Runes /\ e[1] = s[m - 1 + 1] /\ e[2] = s[m - 1 + 2]
    BY <1>6, <2>1 DEF Slice
  <2> QED
    BY <1>1, <2>1, <2>2
<1>8. Bytes(e) <= 4 * MaxExtRunes /\ Len(e) <= MaxExtRunes
  <2>1. Cardinality(Wide(e)) \in Nat /\ Cardinality(Wide(e)) <= Len(e)
        /\ Bytes(e) = Len(e) + 2 * Cardinality(Wide(e))
    BY <1>7, BytesIs
  <2> QED
    BY <1>6, <2>1, ArchiveAssumption
<1>9. Extension(s) = e
  BY <1>2, <1>5, <1>8
<1>10. Ends2(e, x)
  BY <1>6, <1>7 DEF Ends2
<1> QED
  BY <1>6, <1>9, <1>10

\* HasSuffix, rune by rune.
LEMMA SuffixIs ==
  ASSUME NEW s \in Runes, NEW k \in DOMAIN Kinds
  PROVE  /\ Kinds[k] \in {"Z", "G", "T"}
         /\ HasSuffix(s, k) <=> Ends2(s, Kinds[k])
<1>1. Kinds[k] \in {"Z", "G", "T"}
  BY DEF Kinds
<1> DEFINE n == Len(s)
           u == SubSeq(s, n - 1, n)
           x == Kinds[k]
<1>2. n \in Nat
  BY Typed1
<1> HIDE DEF x
<1>3. ASSUME n >= 2 PROVE u = <<".", x>> <=> s[n - 1] = "." /\ s[n] = x
  <2> DEFINE a == n - 1
  <2>1. a \in Nat /\ 1 <= a /\ a <= n + 1 /\ n - a + 1 = 2 /\ a - 1 + 1 = a /\ a - 1 + 2 = n
    BY <1>2, <1>3
  <2> HIDE DEF a
  <2>2. Slice(s, a - 1, SubSeq(s, a, n)) /\ Len(SubSeq(s, a, n)) = 2
    BY <1>2, <2>1, SubSeqSlice
  <2>3. u = SubSeq(s, a, n)
    BY DEF a
  <2> HIDE DEF u
  <2>4. u \in Runes /\ Len(u) = 2
    BY <2>2, <2>3 DEF Slice
  <2>5. 1 \in 1 .. 2 /\ 2 \in 1 .. 2
    OBVIOUS
  <2>6. u[1] = s[a - 1 + 1] /\ u[2] = s[a - 1 + 2]
    BY <2>2, <2>3, <2>5 DEF Slice
  <2>7. u[1] = s[a] /\ u[2] = s[n]
    BY <2>1, <2>6
  <2>8. u = <<u[1], u[2]>>
    BY <2>4 DEF Runes
  <2>9. u = <<".", x>> <=> u[1] = "." /\ u[2] = x
    BY <2>8
  <2> QED
    BY <2>7, <2>9 DEF a
<1> QED
  BY <1>1, <1>3 DEF HasSuffix, Ends2, x

\* An archive that is accepted as of some kind keeps its extension through
\* SanitizeFileName, for every name and whatever it begins with.
THEOREM AllExtensionsKept == \A name \in Seq(Rune) : \A head : ExtensionKept(name, head)
<1> SUFFICES ASSUME NEW raw \in Runes, NEW head PROVE ExtensionKept(raw, head)
  BY DEF Runes
<1> DEFINE kind == DetectArchive(raw, head)
           base == LastSegment(raw)
           name == TrimSpace(base)
           q == [i \in DOMAIN name |-> IF name[i] = "?" THEN "_" ELSE name[i]]
           safe == NoDoubleDots(q)
           short == IF Len(safe) > MaxNameRunes \/ Bytes(safe) > MaxNameBytes
                    THEN truncateFileName(safe) ELSE safe
           t == TrimSpace(short)
           x == Kinds[kind]
<1> SUFFICES ASSUME kind # "none", ~(\E i \in 1 .. Len(base) - 1 : base[i] = "." /\ base[i + 1] = ".")
             PROVE  HasSuffix(SanitizeFileName(raw), kind)
  BY DEF ExtensionKept
<1>1. base \in Runes /\ \A i \in 1 .. Len(base) : base[i] # "/"
  BY LastSegmentIs DEF Slice
<1>2. NoDots(base)
  BY DEF NoDots
<1>3. kind \in DOMAIN Kinds /\ HasSuffix(base, kind)
  <2>1. kind = Claimed(raw) /\ Claimed(raw) # "none"
    BY DEF DetectArchive
  <2>2. \E k \in DOMAIN Kinds : HasSuffix(base, k)
    BY <2>1 DEF Claimed
  <2>3. Claimed(raw) = CHOOSE k \in DOMAIN Kinds : HasSuffix(base, k)
    BY <2>1 DEF Claimed
  <2> HIDE DEF kind, base
  <2> QED
    BY <2>1, <2>2, <2>3
<1>4. SanitizeFileName(raw) = IF ToSet(name) \subseteq {"."} \/ t = <<>> THEN Fallback ELSE t
  BY DEF SanitizeFileName
<1> HIDE DEF kind, base
<1>5. x \in {"Z", "G", "T"} /\ Ends2(base, x)
  BY <1>1, <1>3, SuffixIs
<1> HIDE DEF x
<1>6. KindRune(x) /\ x \notin {" ", ".", "w", "?", "_"}
  BY <1>5 DEF KindRune
<1>7. Ends2(name, x) /\ NoDots(name) /\ \A i \in 1 .. Len(name) : name[i] # "/"
  <2>1. Ends2(name, x) /\ \E d \in Nat : Slice(base, d, name)
    BY <1>5, <1>6, EndTrimmed
  <2>2. PICK d \in Nat : Slice(base, d, name)
    BY <2>1
  <2> HIDE DEF name
  <2>3. name \in Runes /\ d + Len(name) <= Len(base) /\ \A i \in 1 .. Len(name) : name[i] = base[d + i]
    BY <2>2 DEF Slice
  <2>4. \A i \in 1 .. Len(name) : d + i \in 1 .. Len(base)
    BY <1>1, <2>3, Typed1
  <2>5. NoDots(name)
    BY <1>1, <1>2, <2>2, CleanSlice
  <2> QED
    BY <1>1, <2>1, <2>3, <2>4, <2>5
<1>8. name \in Runes /\ Len(name) \in Nat /\ Len(name) >= 2 /\ name[Len(name) - 1] = "." /\ name[Len(name)] = x
  BY <1>7, Typed1 DEF Ends2
<1>9. ~(ToSet(name) \subseteq {"."})
  <2>1. Len(name) \in DOMAIN name
    BY <1>8, Typed1
  <2>2. x \in ToSet(name)
    BY <1>8, <2>1 DEF ToSet
  <2> QED
    BY <1>6, <2>2
<1> HIDE DEF name
<1>10. /\ q \in Runes /\ Len(q) = Len(name) /\ Clean(safe) /\ Undotted(q, Len(q), safe)
       /\ \A i \in 1 .. Len(name) : q[i] = IF name[i] = "?" THEN "_" ELSE name[i]
  BY <1>7, <1>8, UncutIs
<1> HIDE DEF q, safe
<1>11. NoDots(q)
  <2> SUFFICES ASSUME NEW i \in 1 .. Len(q) - 1, q[i] = ".", q[i + 1] = "." PROVE FALSE
    BY DEF NoDots
  <2> DEFINE j == i + 1
  <2>1. i \in 1 .. Len(name) - 1 /\ i \in 1 .. Len(name) /\ j \in 1 .. Len(name)
    <3>1. Len(name) \in Nat /\ i \in 1 .. Len(name) - 1
      BY <1>8, <1>10
    <3> QED
      BY <3>1
  <2>2. name[i] = "."
    BY <1>10, <2>1
  <2>3. q[j] = "."
    OBVIOUS
  <2> HIDE DEF j
  <2>4. name[j] = "."
    BY <1>10, <2>1, <2>3
  <2> QED
    BY <1>7, <2>1, <2>2, <2>4 DEF NoDots, j
<1>12. Ends2(safe, x)
  <2>1. safe \in Runes /\ Len(safe) = Len(q) /\ \A i \in 1 .. Len(q) : safe[i] = q[i]
    BY <1>10, <1>11 DEF Undotted
  <2> DEFINE k == Len(name) - 1
             m == Len(name)
  <2>2. k \in 1 .. Len(name) /\ m \in 1 .. Len(name) /\ name[k] = "." /\ name[m] = x
    BY <1>8
  <2>3. Len(safe) = m /\ Len(safe) - 1 = k /\ Len(safe) >= 2
    BY <1>8, <1>10, <2>1
  <2> HIDE DEF k, m
  <2>4. q[k] = "." /\ q[m] = x
    BY <1>6, <1>10, <2>2
  <2>5. safe[k] = "." /\ safe[m] = x
    BY <1>10, <2>1, <2>2, <2>4
  <2> QED
    BY <2>1, <2>3, <2>5 DEF Ends2
<1>13. Ends2(short, x)
  <2>1. CASE Len(safe) > MaxNameRunes \/ Bytes(safe) > MaxNameBytes
    <3>1. PICK st \in Runes : Len(st) >= 1 /\ short = st \o Extension(safe)
      BY <1>10, <2>1, TruncateIs
    <3> DEFINE e == Extension(safe)
    <3>2. e \in Runes /\ Len(e) = 2 /\ e[1] = "." /\ e[2] = x
      <4>1. Ends2(e, x) /\ Len(e) = 2
        BY <1>6, <1>12, EndIsExtension
      <4> HIDE DEF e
      <4> QED
        BY <4>1 DEF Ends2
    <3>3. short = st \o e
      BY <3>1
    <3> HIDE DEF e, short
    <3>4. short \in Runes /\ Len(short) = Len(st) + 2 /\ Len(st) \in Nat
      <4>1. e \in Runes /\ Len(e) = 2
        BY <3>2
      <4>2. st \o e \in Runes /\ Len(st \o e) = Len(st) + Len(e)
        BY <4>1, JoinedBytes
      <4>3. Len(st) \in Nat
        BY Typed1
      <4> QED
        BY <3>3, <4>1, <4>2, <4>3
    <3>5. \A i \in 1 .. Len(st) + Len(e) : (st \o e)[i] = IF i <= Len(st) THEN st[i] ELSE e[i - Len(st)]
      BY <3>2, ConcatProperties DEF Runes
    <3> DEFINE k == Len(st) + 1
               m == Len(st) + 2
    <3>6. /\ k \in 1 .. Len(st) + Len(e) /\ ~(k <= Len(st)) /\ k - Len(st) = 1
          /\ m \in 1 .. Len(st) + Len(e) /\ ~(m <= Len(st)) /\ m - Len(st) = 2
          /\ Len(short) = m /\ Len(short) - 1 = k /\ Len(short) >= 2
      BY <3>2, <3>4
    <3> HIDE DEF k, m
    <3>7. short[k] = e[1] /\ short[m] = e[2]
      BY <3>3, <3>5, <3>6
    <3> QED
      BY <3>2, <3>4, <3>6, <3>7 DEF Ends2
  <2>2. CASE ~(Len(safe) > MaxNameRunes \/ Bytes(safe) > MaxNameBytes)
    BY <1>12, <2>2
  <2> QED
    BY <2>1, <2>2
<1> HIDE DEF short
<1>14. Ends2(t, x) /\ t # <<>>
  BY <1>6, <1>13, EndTrimmed
<1> HIDE DEF t
<1>15. SanitizeFileName(raw) = t
  BY <1>4, <1>9, <1>14
<1>16. t \in Runes
  BY <1>14 DEF Ends2
<1> QED
  BY <1>3, <1>14, <1>15, <1>16, SuffixIs DEF x
-----------------------------------------------------------------------------
(* The files of a merge. *)

LEMMA Appended ==
  ASSUME NEW s, s \in Seq(Range(s)), NEW i
  PROVE  Append(s, i) \in Seq(Range(Append(s, i))) /\ Range(Append(s, i)) = Range(s) \cup {i}
<1> DEFINE S == Range(s) \cup {i}
           t == Append(s, i)
<1>1. s \in Seq(S) /\ i \in S
  <2>1. Range(s) \subseteq S
    OBVIOUS
  <2> QED
    BY <2>1
<1>2. t \in Seq(S) /\ Len(t) = Len(s) + 1 /\ Len(s) \in Nat
  BY <1>1
<1>3. DOMAIN t = 1 .. Len(s) + 1 /\ DOMAIN s = 1 .. Len(s)
  BY <1>1, <1>2
<1>4. t[Len(s) + 1] = i /\ \A k \in 1 .. Len(s) : t[k] = s[k]
  BY <1>1
<1> HIDE DEF t
<1>5. \A k \in DOMAIN t : t[k] \in S
  BY <1>3, <1>4 DEF Range
<1>6. i \in Range(t) /\ \A x \in Range(s) : x \in Range(t)
  <2>1. Len(s) + 1 \in DOMAIN t /\ \A k \in DOMAIN s : k \in DOMAIN t /\ t[k] = s[k]
    BY <1>2, <1>3, <1>4
  <2> QED
    BY <1>4, <2>1 DEF Range
<1>7. Range(t) = S
  BY <1>5, <1>6 DEF Range
<1> QED
  BY <1>2, <1>7 DEF t

\* What is on disk is what paths lists, until the form is refused.
FilesInv ==
  /\ paths \in Seq(Range(paths))
  /\ pc = "parse" => disk = {}
  /\ disk = IF pc = "refused" THEN {} ELSE Range(paths)

\* A form refused at any of its parts, or for their number (MergePDF), leaves no
\* file: saveMultipleUploadedFiles and MergePDF remove by the list of paths, which
\* has every file saved, whatever the parts and the order of their fields.
THEOREM RefusedRemoved == Spec => []RefusedLeavesNothing
<1>1. Init => FilesInv
  <2> SUFFICES ASSUME Init PROVE FilesInv
    OBVIOUS
  <2>1. paths = <<>> /\ disk = {} /\ pc = "parse"
    BY DEF Init
  <2>2. Range(paths) = {} /\ paths \in Seq(Range(paths))
    BY <2>1 DEF Range
  <2> QED
    BY <2>1, <2>2 DEF FilesInv
<1>2. FilesInv /\ [Next]_vars => FilesInv'
  <2> SUFFICES ASSUME FilesInv, [Next]_vars PROVE FilesInv'
    OBVIOUS
  <2>1. CASE Collect
    <3>1. pc = "parse" /\ pc' \in {"refused", "save"} /\ UNCHANGED <<paths, disk>>
      BY <2>1 DEF Collect
    <3> QED
      BY <3>1 DEF FilesInv
  <2>2. CASE SaveUploadedFile
    <3>1. pc = "save" /\ pc' = pc /\ paths' = Append(paths, Current) /\ disk' = disk \cup {Current}
      BY <2>2 DEF SaveUploadedFile
    <3> QED
      BY <3>1, Appended DEF FilesInv
  <2>3. CASE SaveFails \/ RefuseCount
    <3>1. pc = "save" /\ pc' = "refused" /\ paths' = paths /\ disk' = disk \ Range(paths)
      BY <2>3 DEF SaveFails, RefuseCount
    <3> QED
      BY <3>1 DEF FilesInv
  <2>4. CASE MergePDFs
    BY <2>4 DEF MergePDFs, FilesInv
  <2>5. CASE UNCHANGED vars
    BY <2>5 DEF vars, FilesInv
  <2> QED
    BY <2>1, <2>2, <2>3, <2>4, <2>5 DEF Next
<1>3. FilesInv => RefusedLeavesNothing
  BY DEF FilesInv, RefusedLeavesNothing
<1> QED
  BY <1>1, <1>2, <1>3, PTL DEF Spec
-----------------------------------------------------------------------------
(* The order of a merge. *)

\* Ascending(S) has the numbers of S, each once, smallest first.
LEMMA AscendingSorts ==
  ASSUME NEW S \in SUBSET Nat, IsFiniteSet(S)
  PROVE  /\ Ascending(S) \in SetToSeqs(S)
         /\ \A i, j \in DOMAIN Ascending(S) : i < j => Ascending(S)[i] < Ascending(S)[j]
<1> DEFINE n == Cardinality(S)
           s == [k \in 1 .. n |-> Nth(S, k)]
<1>1. /\ n \in Nat /\ \A k \in 1 .. n : Nth(S, k) \in S
      /\ \A i, j \in 1 .. n : i < j => Nth(S, i) < Nth(S, j)
  BY NthIs
<1>2. s \in [1 .. n -> S] /\ DOMAIN s = 1 .. n
  BY <1>1
<1>3. \A i, j \in 1 .. n : i < j => s[i] < s[j]
  BY <1>1
<1> HIDE DEF s
<1>4. \A i, j \in 1 .. n : i # j => s[i] # s[j]
  <2> SUFFICES ASSUME NEW i \in 1 .. n, NEW j \in 1 .. n, i # j PROVE s[i] # s[j]
    OBVIOUS
  <2>0. i < j \/ j < i
    BY <1>1
  <2>1. s[i] \in Nat /\ s[j] \in Nat /\ (i < j \/ j < i)
    BY <1>2, <2>0
  <2>2. s[i] < s[j] \/ s[j] < s[i]
    BY <1>3, <2>1
  <2> QED
    BY <2>1, <2>2
<1>5. s \in SetToSeqs(S)
  BY <1>2, <1>4 DEF SetToSeqs
<1>6. \A i, j \in DOMAIN s : i < j => s[i] < s[j]
  BY <1>2, <1>3
<1> QED
  BY <1>5, <1>6 DEF Ascending

Joins(seqs, n, g) == g = [i \in 1 .. n |-> IF i = 1 THEN seqs[i] ELSE g[i - 1] \o seqs[i]]

LEMMA JoinsExist == \A seqs : \A n \in Nat : \E g : Joins(seqs, n, g)
<1> SUFFICES ASSUME NEW seqs PROVE \A n \in Nat : \E g : Joins(seqs, n, g)
  OBVIOUS
<1> DEFINE T == {n \in Nat : \E g : Joins(seqs, n, g)}
<1>1. 0 \in T
  <2> DEFINE g == [i \in 1 .. 0 |-> seqs[i]]
  <2>1. Joins(seqs, 0, g)
    BY DEF Joins
  <2> QED
    BY <2>1
<1>2. ASSUME NEW n \in Nat, n \in T PROVE n + 1 \in T
  <2>1. PICK g : Joins(seqs, n, g)
    BY <1>2
  <2> DEFINE h == [i \in 1 .. n + 1 |-> IF i = 1 THEN seqs[i] ELSE g[i - 1] \o seqs[i]]
  <2>2. \A i \in 1 .. n : h[i] = g[i]
    <3>1. \A i \in 1 .. n : g[i] = IF i = 1 THEN seqs[i] ELSE g[i - 1] \o seqs[i]
      BY <2>1, Zenon DEF Joins
    <3>2. \A i \in 1 .. n : i \in 1 .. n + 1
      OBVIOUS
    <3> QED
      BY <3>1, <3>2, Zenon
  <2>3. \A i \in 1 .. n + 1 : i # 1 => i - 1 \in 1 .. n
    OBVIOUS
  <2>4. h = [i \in 1 .. n + 1 |-> IF i = 1 THEN seqs[i] ELSE h[i - 1] \o seqs[i]]
    <3>1. \A i \in 1 .. n + 1 : i # 1 => g[i - 1] = h[i - 1]
      BY <2>2, <2>3
    <3> HIDE DEF h
    <3>2. \A i \in 1 .. n + 1 : (IF i = 1 THEN seqs[i] ELSE g[i - 1] \o seqs[i])
                              = (IF i = 1 THEN seqs[i] ELSE h[i - 1] \o seqs[i])
      BY <3>1
    <3>3. h = [i \in 1 .. n + 1 |-> IF i = 1 THEN seqs[i] ELSE g[i - 1] \o seqs[i]]
      BY DEF h
    <3> QED
      BY <3>2, <3>3, Zenon
  <2>5. Joins(seqs, n + 1, h)
    BY <2>4 DEF Joins
  <2> QED
    BY <2>5
<1> HIDE DEF T
<1>3. \A n \in Nat : n \in T
  BY <1>1, <1>2, AllNumbers
<1> QED
  BY <1>3 DEF T

LEMMA FlattenIs ==
  ASSUME NEW S, NEW seqs \in Seq(S), seqs # <<>>
  PROVE  \E g : Joins(seqs, Len(seqs), g) /\ FlattenSeq(seqs) = g[Len(seqs)]
<1>1. Len(seqs) # 0
  OBVIOUS
<1> DEFINE g == CHOOSE g : Joins(seqs, Len(seqs), g)
<1>2. Joins(seqs, Len(seqs), g)
  BY JoinsExist
<1>3. FlattenSeq(seqs) = g[Len(seqs)]
  BY <1>1 DEF FlattenSeq, Joins
<1> QED
  BY <1>2, <1>3

\* s has what the first k sequences have, in their order.
Joined(seqs, k, s) ==
  /\ Range(s) = UNION {Range(seqs[a]) : a \in 1 .. k}
  /\ \A i, j \in DOMAIN s : i < j =>
       \E a, b \in 1 .. k : \E u \in DOMAIN seqs[a], v \in DOMAIN seqs[b] :
         s[i] = seqs[a][u] /\ s[j] = seqs[b][v] /\ (a < b \/ (a = b /\ u < v))

LEMMA JoinOne ==
  ASSUME NEW S, NEW seqs \in Seq(Seq(S)), NEW k \in Nat, k + 1 \in 1 .. Len(seqs),
         NEW s \in Seq(S), Joined(seqs, k, s)
  PROVE  s \o seqs[k + 1] \in Seq(S) /\ Joined(seqs, k + 1, s \o seqs[k + 1])
<1> DEFINE t == seqs[k + 1]
           st == s \o t
<1>1. t \in Seq(S)
  OBVIOUS
<1> HIDE DEF t
<1>2. /\ st \in Seq(S) /\ Len(st) = Len(s) + Len(t) /\ DOMAIN st = 1 .. Len(s) + Len(t)
      /\ DOMAIN s = 1 .. Len(s) /\ DOMAIN t = 1 .. Len(t) /\ Len(s) \in Nat /\ Len(t) \in Nat
  BY <1>1
<1>3. /\ \A i \in 1 .. Len(s) : st[i] = s[i]
      /\ \A i \in Len(s) + 1 .. Len(s) + Len(t) : st[i] = t[i - Len(s)] /\ i - Len(s) \in 1 .. Len(t)
  BY <1>1, <1>2, ConcatProperties
<1>9. DOMAIN seqs[k + 1] = 1 .. Len(t) /\ \A v \in 1 .. Len(t) : seqs[k + 1][v] = t[v]
  BY <1>2 DEF t
<1>4. Range(st) = Range(s) \cup Range(t)
  BY <1>1, RangeConcatenation
<1> HIDE DEF st
<1>5. \A a \in 1 .. k : a \in 1 .. k + 1
  OBVIOUS
<1>6. 1 .. k + 1 = 1 .. k \cup {k + 1} /\ k + 1 \in 1 .. k + 1
  OBVIOUS
<1>7. Range(st) = UNION {Range(seqs[a]) : a \in 1 .. k + 1}
  <2>1. Range(s) = UNION {Range(seqs[a]) : a \in 1 .. k}
    BY DEF Joined
  <2> QED
    BY <1>4, <1>6, <2>1 DEF t
<1>8. ASSUME NEW i \in DOMAIN st, NEW j \in DOMAIN st, i < j
      PROVE  \E a, b \in 1 .. k + 1 : \E u \in DOMAIN seqs[a], v \in DOMAIN seqs[b] :
               st[i] = seqs[a][u] /\ st[j] = seqs[b][v] /\ (a < b \/ (a = b /\ u < v))
  <2>1. i \in Nat /\ j \in Nat /\ i >= 1 /\ j <= Len(s) + Len(t)
    BY <1>2
  <2>2. CASE j <= Len(s)
    <3>1. i \in DOMAIN s /\ j \in DOMAIN s /\ st[i] = s[i] /\ st[j] = s[j]
      BY <1>2, <1>3, <1>8, <2>1, <2>2
    <3>0. \A f, g \in DOMAIN s : f < g =>
            \E a, b \in 1 .. k : \E u \in DOMAIN seqs[a], v \in DOMAIN seqs[b] :
              s[f] = seqs[a][u] /\ s[g] = seqs[b][v] /\ (a < b \/ (a = b /\ u < v))
      BY Zenon DEF Joined
    <3>4. i < j /\ i \in DOMAIN s /\ j \in DOMAIN s
      BY <1>8, <3>1
    <3>2. PICK a \in 1 .. k, b \in 1 .. k :
            \E u \in DOMAIN seqs[a], v \in DOMAIN seqs[b] :
              s[i] = seqs[a][u] /\ s[j] = seqs[b][v] /\ (a < b \/ (a = b /\ u < v))
      BY <3>0, <3>4, Zenon
    <3>3. a \in 1 .. k + 1 /\ b \in 1 .. k + 1
      BY <1>5
    <3> QED
      BY <3>1, <3>2, <3>3
  <2>3. CASE i <= Len(s) /\ j > Len(s)
    <3>1. i \in DOMAIN s /\ st[i] = s[i] /\ s[i] \in Range(s)
      BY <1>2, <1>3, <2>1, <2>3 DEF Range
    <3>2. PICK a \in 1 .. k : s[i] \in Range(seqs[a])
      BY <3>1 DEF Joined
    <3>3. PICK u \in DOMAIN seqs[a] : s[i] = seqs[a][u]
      BY <3>2 DEF Range
    <3>4. j - Len(s) \in DOMAIN seqs[k + 1] /\ st[j] = seqs[k + 1][j - Len(s)]
      <4>1. j \in Len(s) + 1 .. Len(s) + Len(t)
        BY <1>2, <2>1, <2>3
      <4> QED
        BY <1>3, <1>9, <4>1
    <3>5. a < k + 1
      OBVIOUS
    <3> QED
      BY <1>5, <1>6, <3>1, <3>3, <3>4, <3>5
  <2>4. CASE i > Len(s) /\ j > Len(s)
    <3>1. /\ i - Len(s) \in DOMAIN seqs[k + 1] /\ st[i] = seqs[k + 1][i - Len(s)]
          /\ j - Len(s) \in DOMAIN seqs[k + 1] /\ st[j] = seqs[k + 1][j - Len(s)]
      <4>1. i \in Len(s) + 1 .. Len(s) + Len(t) /\ j \in Len(s) + 1 .. Len(s) + Len(t)
        BY <1>2, <1>8, <2>1, <2>4
      <4> QED
        BY <1>3, <1>9, <4>1
    <3>2. i - Len(s) < j - Len(s)
      BY <1>2, <1>8, <2>1
    <3> QED
      BY <1>6, <3>1, <3>2
  <2>5. j <= Len(s) \/ (i <= Len(s) /\ j > Len(s)) \/ (i > Len(s) /\ j > Len(s))
    <3>1. Len(s) \in Nat /\ i \in Nat /\ j \in Nat
      BY <1>2, <2>1
    <3> QED
      BY <3>1
  <2> QED
    BY <2>2, <2>3, <2>4, <2>5, Zenon
<1> QED
  BY <1>2, <1>7, <1>8 DEF Joined, st, t

\* FlattenSeq has every element of every sequence, in their order.
LEMMA Flattened ==
  ASSUME NEW S, NEW seqs \in Seq(Seq(S))
  PROVE  FlattenSeq(seqs) \in Seq(S) /\ Joined(seqs, Len(seqs), FlattenSeq(seqs))
<1> DEFINE n == Len(seqs)
<1>1. CASE seqs = <<>>
  <2>1. FlattenSeq(seqs) = <<>>
    BY <1>1 DEF FlattenSeq
  <2>2. Joined(seqs, 0, <<>>)
    <3>1. DOMAIN <<>> = {} /\ 1 .. 0 = {}
      OBVIOUS
    <3> QED
      BY <3>1 DEF Joined, Range
  <2>3. n = 0 /\ <<>> \in Seq(S)
    BY <1>1
  <2> QED
    BY <2>1, <2>2, <2>3
<1>2. CASE seqs # <<>>
  <2>1. PICK g : Joins(seqs, n, g) /\ FlattenSeq(seqs) = g[n]
    BY <1>2, FlattenIs
  <2>2. \A i \in 1 .. n : g[i] = IF i = 1 THEN seqs[i] ELSE g[i - 1] \o seqs[i]
    BY <2>1, Zenon DEF Joins
  <2>3. n \in Nat /\ n >= 1
    BY <1>2
  <2> DEFINE T == {k \in Nat : k + 1 \in 1 .. n => g[k + 1] \in Seq(S) /\ Joined(seqs, k + 1, g[k + 1])}
  <2>8. \A k \in Nat : k \in T <=> (k + 1 \in 1 .. n => g[k + 1] \in Seq(S) /\ Joined(seqs, k + 1, g[k + 1]))
    OBVIOUS
  <2> HIDE DEF T
  <2>4. 0 \in T
    <3>1. 1 \in 1 .. n /\ g[1] = seqs[1] /\ seqs[1] \in Seq(S)
      BY <2>2, <2>3
    <3>2. 1 .. 1 = {1}
      OBVIOUS
    <3>3. Range(seqs[1]) = UNION {Range(seqs[a]) : a \in 1 .. 1}
      BY <3>2
    <3>4. Joined(seqs, 1, seqs[1])
      BY <3>2, <3>3 DEF Joined
    <3> QED
      BY <2>8, <3>1, <3>4
  <2>5. ASSUME NEW k \in Nat, k \in T PROVE k + 1 \in T
    <3> SUFFICES ASSUME k + 1 + 1 \in 1 .. n
                 PROVE  g[k + 1 + 1] \in Seq(S) /\ Joined(seqs, k + 1 + 1, g[k + 1 + 1])
      BY <2>8
    <3>1. k + 1 \in Nat /\ k + 1 \in 1 .. n /\ k + 1 + 1 # 1 /\ k + 1 + 1 - 1 = k + 1
      BY <2>3
    <3>2. g[k + 1] \in Seq(S) /\ Joined(seqs, k + 1, g[k + 1])
      BY <2>5, <2>8, <3>1
    <3>3. g[k + 1 + 1] = g[k + 1] \o seqs[k + 1 + 1]
      <4> DEFINE j == k + 1 + 1
      <4>1. j \in 1 .. n /\ j # 1 /\ j - 1 = k + 1
        BY <3>1
      <4> HIDE DEF j
      <4>2. g[j] = g[k + 1] \o seqs[j]
        BY <2>2, <4>1
      <4> QED
        BY <4>2 DEF j
    <3> QED
      BY <3>1, <3>2, <3>3, JoinOne
  <2>6. \A k \in Nat : k \in T
    BY <2>4, <2>5, AllNumbers
  <2>7. n - 1 \in Nat /\ n - 1 + 1 = n /\ n \in 1 .. n
    BY <2>3
  <2> QED
    BY <2>1, <2>6, <2>7, <2>8
<1> QED
  BY <1>1, <1>2

\* The files of the form, and those of one field, are finitely many.
LEMMA FormParts ==
  ASSUME form \in Seq(Part)
  PROVE  /\ DOMAIN form \in SUBSET Nat /\ IsFiniteSet(DOMAIN form)
         /\ IsFiniteSet({k \in Fields : PartsOf(k) # {}})
         /\ \A k : PartsOf(k) \in SUBSET DOMAIN form /\ IsFiniteSet(PartsOf(k))
<1> DEFINE D == DOMAIN form
           T == {form[i].key : i \in D}
           f == [i \in D |-> form[i].key]
<1>1. D = 1 .. Len(form) /\ Len(form) \in Nat
  OBVIOUS
<1>2. D \in SUBSET Nat /\ IsFiniteSet(D)
  <2>1. IsFiniteSet(1 .. Len(form))
    BY Zenon, <1>1, UpTo
  <2> QED
    BY <1>1, <2>1
<1>3. f \in Surjection(D, T)
  BY DEF Surjection
<1>4. IsFiniteSet(T)
  BY <1>2, <1>3, FS_Surjection
<1>5. {k \in Fields : PartsOf(k) # {}} \in SUBSET T
  BY DEF PartsOf
<1>6. IsFiniteSet({k \in Fields : PartsOf(k) # {}})
  BY <1>4, <1>5, FS_Subset
<1>7. \A k : PartsOf(k) \in SUBSET D
  BY DEF PartsOf
<1>8. \A k : IsFiniteSet(PartsOf(k))
  BY <1>2, <1>7, FS_Subset
<1> QED
  BY <1>2, <1>6, <1>7, <1>8

\* The parts of the matching fields, each once, those of one field in their order.
Ordered(list) ==
  /\ Range(list) = {i \in DOMAIN form : form[i].key \in Fields}
  /\ \A i, j \in DOMAIN list :
       i < j => list[i] # list[j] /\ (form[list[i]].key = form[list[j]].key => list[i] < list[j])

LEMMA CollectedInOrder ==
  ASSUME form \in Seq(Part), Collect
  PROVE  headers' \in Seq(Nat) /\ Ordered(headers')
<1> DEFINE D == DOMAIN form
           K == {k \in Fields : PartsOf(k) # {}}
<1>1. PICK keys \in SetToSeqs(K) :
        headers' = FlattenSeq([i \in DOMAIN keys |-> Ascending(PartsOf(keys[i]))])
  BY DEF Collect
<1> DEFINE seqs == [i \in DOMAIN keys |-> Ascending(PartsOf(keys[i]))]
           h == headers'
<1>2. /\ IsFiniteSet(K) /\ D \in SUBSET Nat
      /\ \A k : PartsOf(k) \in SUBSET D /\ IsFiniteSet(PartsOf(k))
  BY FormParts
<1>3. /\ keys \in Seq(K) /\ Range(keys) = K /\ DOMAIN keys = 1 .. Len(keys)
      /\ \A i, j \in DOMAIN keys : i # j => keys[i] # keys[j]
  BY <1>1, <1>2, Enumerates
<1> HIDE DEF K
<1>4. ASSUME NEW k
      PROVE  /\ Ascending(PartsOf(k)) \in Seq(D) /\ Range(Ascending(PartsOf(k))) = PartsOf(k)
             /\ \A u, v \in DOMAIN Ascending(PartsOf(k)) :
                  u < v => Ascending(PartsOf(k))[u] < Ascending(PartsOf(k))[v]
  <2>1. PartsOf(k) \in SUBSET Nat /\ IsFiniteSet(PartsOf(k)) /\ PartsOf(k) \subseteq D
    BY <1>2
  <2>2. /\ Ascending(PartsOf(k)) \in SetToSeqs(PartsOf(k))
        /\ \A u, v \in DOMAIN Ascending(PartsOf(k)) :
             u < v => Ascending(PartsOf(k))[u] < Ascending(PartsOf(k))[v]
    BY <2>1, AscendingSorts
  <2>3. Ascending(PartsOf(k)) \in Seq(PartsOf(k)) /\ Range(Ascending(PartsOf(k))) = PartsOf(k)
    BY <2>1, <2>2, Enumerates
  <2>4. Ascending(PartsOf(k)) \in Seq(D)
    BY <2>1, <2>3, SeqMonotonic
  <2> QED
    BY <2>2, <2>3, <2>4
<1>5. seqs \in Seq(Seq(D)) /\ Len(seqs) = Len(keys) /\ DOMAIN seqs = 1 .. Len(keys)
  <2>1. \A i \in 1 .. Len(keys) : Ascending(PartsOf(keys[i])) \in Seq(D)
    BY <1>4
  <2>2. Len(keys) \in Nat
    BY <1>3
  <2>3. seqs \in [1 .. Len(keys) -> Seq(D)]
    BY <1>3, <2>1
  <2> QED
    BY <2>2, <2>3
<1>6. \A a \in 1 .. Len(keys) : seqs[a] = Ascending(PartsOf(keys[a]))
  BY <1>3
<1> HIDE DEF seqs
<1>7. h \in Seq(D) /\ Joined(seqs, Len(keys), h)
  BY <1>1, <1>5, Flattened DEF seqs
<1>8. \A a \in 1 .. Len(keys) : Range(seqs[a]) = PartsOf(keys[a])
  BY <1>4, <1>6
<1>9. \A a \in 1 .. Len(keys) : \A u \in DOMAIN seqs[a] : seqs[a][u] \in D /\ form[seqs[a][u]].key = keys[a]
  <2> SUFFICES ASSUME NEW a \in 1 .. Len(keys), NEW u \in DOMAIN seqs[a]
               PROVE  seqs[a][u] \in D /\ form[seqs[a][u]].key = keys[a]
    OBVIOUS
  <2>1. seqs[a][u] \in PartsOf(keys[a])
    BY <1>8 DEF Range
  <2> QED
    BY <2>1 DEF PartsOf
<1> HIDE DEF h
<1>10. Range(h) = {i \in D : form[i].key \in Fields}
  <2>1. Range(h) = UNION {PartsOf(keys[a]) : a \in 1 .. Len(keys)}
    BY <1>7, <1>8 DEF Joined
  <2>2. ASSUME NEW i \in D, form[i].key \in Fields
        PROVE  \E a \in 1 .. Len(keys) : i \in PartsOf(keys[a])
    <3>1. i \in PartsOf(form[i].key)
      BY DEF PartsOf
    <3>2. form[i].key \in K
      BY <2>2, <3>1 DEF K
    <3>3. PICK a \in 1 .. Len(keys) : keys[a] = form[i].key
      BY <1>3, <3>2 DEF Range
    <3> QED
      BY <3>1, <3>3
  <2>3. ASSUME NEW a \in 1 .. Len(keys), NEW i \in PartsOf(keys[a])
        PROVE  i \in D /\ form[i].key \in Fields
    <3>1. keys[a] \in Fields
      BY <1>3 DEF K
    <3> QED
      BY <3>1 DEF PartsOf
  <2> QED
    BY <2>1, <2>2, <2>3
<1>11. ASSUME NEW i \in DOMAIN h, NEW j \in DOMAIN h, i < j
       PROVE  h[i] # h[j] /\ (form[h[i]].key = form[h[j]].key => h[i] < h[j])
  <2>1. PICK a \in 1 .. Len(keys), b \in 1 .. Len(keys) :
          \E u \in DOMAIN seqs[a], v \in DOMAIN seqs[b] :
            h[i] = seqs[a][u] /\ h[j] = seqs[b][v] /\ (a < b \/ (a = b /\ u < v))
    BY <1>7, <1>11 DEF Joined
  <2>2. PICK u \in DOMAIN seqs[a], v \in DOMAIN seqs[b] :
            h[i] = seqs[a][u] /\ h[j] = seqs[b][v] /\ (a < b \/ (a = b /\ u < v))
    BY <2>1
  <2>3. form[h[i]].key = keys[a] /\ form[h[j]].key = keys[b] /\ h[i] \in Nat /\ h[j] \in Nat
    BY <1>2, <1>9, <2>2
  <2>4. CASE a < b
    <3>1. keys[a] # keys[b]
      BY <1>3, <2>4
    <3> QED
      BY <2>3, <3>1
  <2>5. CASE a = b /\ u < v
    <3>1. h[i] < h[j]
      BY <1>4, <1>6, <2>2, <2>5
    <3> QED
      BY <2>3, <3>1
  <2> QED
    BY <2>2, <2>4, <2>5
<1>12. h \in Seq(Nat)
  BY <1>2, <1>7, SeqMonotonic
<1> QED
  BY <1>10, <1>11, <1>12 DEF Ordered, h

\* The parts are collected in order, and saved as collected.
MergeInv ==
  /\ form \in Seq(Part)
  /\ pc = "parse" => paths = <<>>
  /\ pc = "save" =>
       /\ headers \in Seq(Nat) /\ Ordered(headers)
       /\ paths \in Seq(Nat) /\ Len(paths) <= Len(headers)
       /\ \A i \in 1 .. Len(paths) : paths[i] = headers[i]
  /\ pc = "merged" => Ordered(merged)

\* Every merged document has every matching part of its form once, those of one
\* field in the order they were sent (Collect, SaveUploadedFile, MergePDFs), for
\* any number of fields and parts.
THEOREM MergesAll == Spec => []MergedAll
<1>1. Init => MergeInv
  <2> SUFFICES ASSUME Init PROVE MergeInv
    OBVIOUS
  <2>1. form \in Seq(Part)
    BY UploadAssumption DEF Init, SeqOf
  <2> QED
    BY <2>1 DEF Init, MergeInv
<1>2. MergeInv /\ [Next]_vars => MergeInv'
  <2> SUFFICES ASSUME MergeInv, [Next]_vars PROVE MergeInv'
    OBVIOUS
  <2>1. CASE Collect
    <3>1. headers' \in Seq(Nat) /\ Ordered(headers')
      BY <2>1, CollectedInOrder DEF MergeInv
    <3>2. pc' \in {"refused", "save"} /\ form' = form /\ paths' = <<>>
      BY <2>1 DEF Collect, MergeInv
    <3>3. Ordered(headers)'
      BY <3>1, <3>2 DEF Ordered
    <3>4. paths' \in Seq(Nat) /\ Len(paths') = 0 /\ Len(headers') >= 0
      BY <3>1, <3>2
    <3> QED
      BY <3>1, <3>2, <3>3, <3>4 DEF MergeInv
  <2>2. CASE SaveUploadedFile
    <3>1. /\ pc = "save" /\ pc' = pc /\ form' = form /\ headers' = headers
          /\ Len(paths) < Len(headers) /\ paths' = Append(paths, headers[Len(paths) + 1])
      BY <2>2 DEF SaveUploadedFile, Current
    <3>2. /\ headers \in Seq(Nat) /\ Ordered(headers) /\ paths \in Seq(Nat)
          /\ \A i \in 1 .. Len(paths) : paths[i] = headers[i]
      BY <3>1 DEF MergeInv
    <3>3. headers[Len(paths) + 1] \in Nat
      BY <3>1, <3>2
    <3>4. /\ paths' \in Seq(Nat) /\ Len(paths') = Len(paths) + 1
          /\ \A i \in 1 .. Len(paths) : paths'[i] = paths[i]
          /\ paths'[Len(paths) + 1] = headers[Len(paths) + 1]
      BY <3>1, <3>2, <3>3, AppendProperties
    <3>5. \A i \in 1 .. Len(paths') : paths'[i] = headers'[i]
      BY <3>1, <3>2, <3>4
    <3>6. Ordered(headers)' /\ Len(paths') <= Len(headers')
      BY <3>1, <3>2, <3>4 DEF Ordered
    <3> QED
      BY <3>1, <3>2, <3>4, <3>5, <3>6 DEF MergeInv
  <2>3. CASE SaveFails \/ RefuseCount
    <3>1. pc' = "refused" /\ form' = form
      BY <2>3 DEF SaveFails, RefuseCount
    <3> QED
      BY <3>1 DEF MergeInv
  <2>4. CASE MergePDFs
    <3>1. pc = "save" /\ pc' = "merged" /\ merged' = paths /\ form' = form /\ Len(paths) = Len(headers)
      BY <2>4 DEF MergePDFs
    <3>2. /\ headers \in Seq(Nat) /\ Ordered(headers) /\ paths \in Seq(Nat)
          /\ \A i \in 1 .. Len(paths) : paths[i] = headers[i]
      BY <3>1 DEF MergeInv
    <3>3. merged' = headers
      BY <3>1, <3>2, SeqEqual
    <3>4. Ordered(merged)'
      BY <3>1, <3>2, <3>3 DEF Ordered
    <3> QED
      BY <3>1, <3>4 DEF MergeInv
  <2>5. CASE UNCHANGED vars
    BY <2>5 DEF vars, MergeInv, Ordered
  <2> QED
    BY <2>1, <2>2, <2>3, <2>4, <2>5 DEF Next
<1>3. MergeInv => MergedAll
  BY DEF MergeInv, Ordered, MergedAll
<1> QED
  BY <1>1, <1>2, <1>3, PTL DEF Spec
-----------------------------------------------------------------------------
(* The inputs run. *)

\* What the inputs of a request are, whatever their bounds.
WellFormed(x) ==
  /\ x.kind = "split" => /\ x.mode \in {"all", "ranges"} /\ x.parts \in Seq(Seq(Nat))
                         /\ x.pages \in Nat /\ x.pages < MaxInt
  /\ x.kind = "series" =>
       /\ x.agg \in Aggregation
       /\ DOMAIN x.left \in SUBSET Nat /\ IsFiniteSet(DOMAIN x.left)
       /\ DOMAIN x.right \in SUBSET Nat /\ IsFiniteSet(DOMAIN x.right)
  /\ x.kind = "same" => /\ x.agg \in Aggregation /\ x.to \in Nat /\ x.days \in Nat
                        /\ parseRangeDays(x.days) => x.days <= x.to
  /\ x.kind = "rate" => x.x \in Nat /\ x.y \in Nat /\ x.scale \in Nat \ {0}
  /\ x.kind = "size" => x.env \in Int /\ x.size \in Nat /\ x.framing \in Nat
  /\ x.kind = "name" => x.name \in Seq(Rune)

LEMMA ShortSeqs ==
  ASSUME NEW S
  PROVE  /\ <<>> \in Seq(S)
         /\ \A a \in S : <<a>> \in Seq(S)
         /\ \A a, b \in S : <<a, b>> \in Seq(S)
         /\ \A a, b, c \in S : <<a, b, c>> \in Seq(S)
<1>1. <<>> \in Seq(S)
  OBVIOUS
<1>2. ASSUME NEW a \in S PROVE <<a>> \in Seq(S)
  OBVIOUS
<1>3. ASSUME NEW a \in S, NEW b \in S PROVE <<a, b>> \in Seq(S)
  OBVIOUS
<1>4. ASSUME NEW a \in S, NEW b \in S, NEW c \in S PROVE <<a, b, c>> \in Seq(S)
  OBVIOUS
<1> QED
  BY <1>1, <1>2, <1>3, <1>4

LEMMA ListsTyped ==
  ASSUME NEW l \in Lists
  PROVE  l \in Seq(Seq(Nat))
<1> DEFINE L == Seq(Nat)
           Q == {<<1>>, <<>>, <<9, 12>>}
<1>1. \A n \in Numbers : n \in Nat
  BY SplitAssumption DEF Numbers
<1>2. ASSUME NEW p \in Parts PROVE p \in L
  <2>1. p = <<>> \/ (\E n \in Numbers : p = <<n>>) \/ (\E n, m \in Numbers : p = <<n, m>>)
    BY DEF Parts
  <2> QED
    BY <1>1, <2>1, ShortSeqs
<1>3. 1 \in Nat /\ 2 \in Nat /\ 9 \in Nat /\ 10 \in Nat /\ 12 \in Nat
  OBVIOUS
<1>4. ASSUME NEW p \in ProperParts PROVE p \in L
  <2>1. \/ p = <<1>> \/ p = <<1, 1>> \/ p = <<2>> \/ p = <<1, 10>> \/ p = <<2, 9>>
        \/ p = <<9, 10>> \/ p = <<10>>
    BY Zenon DEF ProperParts
  <2> QED
    BY <1>3, <2>1, ShortSeqs, Zenon
<1>5. ASSUME NEW p \in Q PROVE p \in L
  <2>1. p = <<1>> \/ p = <<>> \/ p = <<9, 12>>
    BY Zenon
  <2> QED
    BY <1>3, <2>1, ShortSeqs, Zenon
<1>6. l \in {<<p>> : p \in Parts} \cup {<<p, q>> : p \in Parts, q \in Q}
             \cup {<<p, q, r>> : p, q, r \in ProperParts}
  BY DEF Lists
<1> HIDE DEF L, Q
<1>7. \/ \E p \in Parts : l = <<p>>
      \/ \E p \in Parts, q \in Q : l = <<p, q>>
      \/ \E p \in ProperParts, q \in ProperParts, r \in ProperParts : l = <<p, q, r>>
  BY <1>6
<1>8. l \in Seq(L)
  BY <1>2, <1>4, <1>5, <1>7, ShortSeqs
<1> QED
  BY <1>8 DEF L

LEMMA NamesOfRunes ==
  ASSUME NEW s \in Stems, NEW e \in Ends
  PROVE  s \o e \in Seq(Rune)
<1> DEFINE R == {".", " ", "/", "?", "w"}
<1>1. R \in SUBSET Rune
  BY DEF Rune
<1>2. <<>> \in Runes
  BY NoRunes
<1>3. ASSUME NEW n \in Nat, NEW f \in [1 .. n -> R] PROVE f \in Runes
  <2>1. f \in [1 .. n -> Rune]
    BY <1>1
  <2> QED
    BY <2>1, FunctionIsSeq DEF Runes
<1> HIDE DEF R
<1>4. s = <<>> \/ s \in [1 .. 1 -> R] \/ s \in [1 .. 2 -> R] \/ s \in [1 .. 3 -> R] \/ s \in [1 .. 4 -> R]
  BY Zenon DEF Stems, R
<1>5. s \in Runes
  BY <1>2, <1>3, <1>4
<1>6. e \in Runes
  <2>1. e = <<>> \/ e = <<".", "Z">> \/ e = <<".", "G">> \/ e = <<".", "T">> \/ e = <<"a", ".", "w">>
    BY Zenon DEF Ends
  <2>2. "." \in Rune /\ "Z" \in Rune /\ "G" \in Rune /\ "T" \in Rune /\ "a" \in Rune /\ "w" \in Rune
    BY DEF Rune
  <2> QED
    BY <2>1, <2>2, ShortSeqs, Zenon DEF Runes
<1> QED
  BY <1>5, <1>6, JoinedBytes DEF Runes

\* The documents asked about are smaller than the largest int, and a window is
\* within a year: in the code 2^63 - 1, and 365 days.
Bounded == MaxInt > 12 /\ MaxDays <= YearLength

LEMMA WindowIs ==
  ASSUME NEW to \in Nat, NEW days \in Nat, days <= to
  PROVE  Window(to, days) \in SUBSET Nat /\ IsFiniteSet(Window(to, days))
<1>1. to - days \in Nat /\ to - days \in Int /\ to \in Int
  OBVIOUS
<1>2. IsFiniteSet(to - days .. to)
  BY Zenon, <1>1, FS_Interval
<1>3. \A d \in to - days .. to : d \in Nat
  BY <1>1
<1> QED
  BY <1>2, <1>3 DEF Window

LEMMA RatesAre ==
  ASSUME NEW to \in Nat, NEW days \in Nat, days <= to, NEW lost, NEW slope
  PROVE  LET f == Rates(to, days, lost, slope) IN DOMAIN f \in SUBSET Nat /\ IsFiniteSet(DOMAIN f)
<1> DEFINE D == Window(to, days) \ lost
<1>1. DOMAIN Rates(to, days, lost, slope) = D
  BY DEF Rates
<1>2. Window(to, days) \in SUBSET Nat /\ IsFiniteSet(Window(to, days))
  BY WindowIs
<1>3. D \in SUBSET Window(to, days)
  OBVIOUS
<1> HIDE DEF D
<1>4. D \in SUBSET Nat /\ IsFiniteSet(D)
  BY <1>2, <1>3, FS_Subset
<1> QED
  BY <1>1, <1>4

LEMMA AskedIsWellFormed ==
  ASSUME Bounded, Ask
  PROVE  WellFormed(input')
<1>1. CASE AskSplit
  <2>1. CASE \E n \in 0 .. 12 : input' = [kind |-> "split", mode |-> "all", parts |-> <<>>, pages |-> n]
    <3>1. PICK n \in 0 .. 12 : input' = [kind |-> "split", mode |-> "all", parts |-> <<>>, pages |-> n]
      BY <2>1
    <3>2. n \in Nat /\ n < MaxInt
      BY SplitAssumption DEF Bounded
    <3>3. <<>> \in Seq(Seq(Nat))
      OBVIOUS
    <3> QED
      BY <3>1, <3>2, <3>3 DEF WellFormed
  <2>2. CASE \E l \in Lists, n \in {1, 2, 9, 10, 12} :
               input' = [kind |-> "split", mode |-> "ranges", parts |-> l, pages |-> n]
    <3>1. PICK l \in Lists, n \in {1, 2, 9, 10, 12} :
            input' = [kind |-> "split", mode |-> "ranges", parts |-> l, pages |-> n]
      BY <2>2
    <3>2. n \in Nat /\ n < MaxInt
      BY SplitAssumption DEF Bounded
    <3>3. l \in Seq(Seq(Nat))
      BY ListsTyped
    <3> QED
      BY <3>1, <3>2, <3>3 DEF WellFormed
  <2> QED
    BY <1>1, <2>1, <2>2 DEF AskSplit
<1>2. CASE AskSeries
  <2>0. MaxDays \in Nat /\ YearLength \in Nat \ {0} /\ MaxDays <= YearLength
    BY SeriesAssumption DEF Bounded
  <2>1. CASE \E n \in 0 .. MaxDays + 1, to \in YearLength .. 2 * YearLength + 1,
                agg \in {"daily", "weekly", "monthly"} :
               input' = [kind |-> "same", days |-> n, to |-> to, agg |-> agg]
    <3>1. PICK n \in 0 .. MaxDays + 1, to \in YearLength .. 2 * YearLength + 1,
               agg \in {"daily", "weekly", "monthly"} :
            input' = [kind |-> "same", days |-> n, to |-> to, agg |-> agg]
      BY <2>1
    <3>2. n \in Nat /\ to \in Nat /\ (parseRangeDays(n) => n <= to)
      BY <2>0 DEF parseRangeDays
    <3> QED
      BY <3>1, <3>2 DEF WellFormed, Aggregation
  <2>2. CASE \E n \in {4, MaxDays}, to \in {YearLength, YearLength + 2, 2 * YearLength - 1},
                agg \in {"daily", "weekly", "monthly"} :
               /\ parseRangeDays(n)
               /\ \E l, r \in Lost(to, n) :
                    input' = [kind |-> "series", days |-> n, to |-> to, agg |-> agg,
                              left |-> Rates(to, n, l, 1), right |-> Rates(to, n, r, 2)]
    <3>1. PICK n \in {4, MaxDays}, to \in {YearLength, YearLength + 2, 2 * YearLength - 1},
               agg \in {"daily", "weekly", "monthly"} :
            /\ parseRangeDays(n)
            /\ \E l, r \in Lost(to, n) :
                 input' = [kind |-> "series", days |-> n, to |-> to, agg |-> agg,
                           left |-> Rates(to, n, l, 1), right |-> Rates(to, n, r, 2)]
      BY <2>2
    <3>2. PICK l, r \in Lost(to, n) :
            input' = [kind |-> "series", days |-> n, to |-> to, agg |-> agg,
                      left |-> Rates(to, n, l, 1), right |-> Rates(to, n, r, 2)]
      BY <3>1
    <3>3. n \in Nat /\ to \in Nat /\ n <= to
      BY <2>0, <3>1 DEF parseRangeDays
    <3> DEFINE f == Rates(to, n, l, 1)
               g == Rates(to, n, r, 2)
    <3>4. DOMAIN f \in SUBSET Nat /\ IsFiniteSet(DOMAIN f) /\ DOMAIN g \in SUBSET Nat /\ IsFiniteSet(DOMAIN g)
      BY <3>3, RatesAre
    <3> HIDE DEF f, g
    <3>5. input' = [kind |-> "series", days |-> n, to |-> to, agg |-> agg, left |-> f, right |-> g]
      BY <3>2 DEF f, g
    <3> QED
      BY <3>4, <3>5 DEF WellFormed, Aggregation
  <2> QED
    BY <1>2, <2>1, <2>2, Zenon DEF AskSeries
<1>3. CASE AskRate
  BY <1>3 DEF AskRate, WellFormed
<1>4. CASE AskUpload
  <2>1. CASE \E env \in {-5, 0, 1, 2, 19, 48, 49, 50, 500}, size \in 0 .. 51 * MB, framing \in 1 .. MB + 1 :
               input' = [kind |-> "size", env |-> env, size |-> size, framing |-> framing]
    <3>1. PICK env \in {-5, 0, 1, 2, 19, 48, 49, 50, 500}, size \in 0 .. 51 * MB, framing \in 1 .. MB + 1 :
            input' = [kind |-> "size", env |-> env, size |-> size, framing |-> framing]
      BY <2>1
    <3>2. env \in Int /\ size \in Nat /\ framing \in Nat
      BY ArchiveAssumption
    <3> QED
      BY <3>1, <3>2 DEF WellFormed
  <2>2. CASE \E s \in Stems, e \in Ends, p \in {"zip", "gzip", "other"}, u \in BOOLEAN :
               input' = [kind |-> "name", name |-> s \o e, head |-> [prefix |-> p, ustar |-> u]]
    <3>1. PICK s \in Stems, e \in Ends, p \in {"zip", "gzip", "other"}, u \in BOOLEAN :
            input' = [kind |-> "name", name |-> s \o e, head |-> [prefix |-> p, ustar |-> u]]
      BY <2>2
    <3>2. s \o e \in Seq(Rune)
      BY NamesOfRunes
    <3> DEFINE v == s \o e
               h == [prefix |-> p, ustar |-> u]
    <3> HIDE DEF v, h
    <3>3. input' = [kind |-> "name", name |-> v, head |-> h] /\ v \in Seq(Rune)
      BY <3>1, <3>2 DEF v, h
    <3> QED
      BY <3>3 DEF WellFormed
  <2> QED
    BY <1>4, <2>1, <2>2 DEF AskUpload
<1> QED
  BY <1>1, <1>2, <1>3, <1>4 DEF Ask

Asked == WellFormed(input)

LEMMA NothingIsWellFormed == WellFormed(Nothing)
BY DEF WellFormed, Nothing

LEMMA InputsWellFormed ==
  ASSUME Bounded
  PROVE  InputSpec => []Asked
<1>1. InputInit => Asked
  BY NothingIsWellFormed DEF InputInit, Asked
<1>2. Asked /\ [InputNext]_<<input, vars>> => Asked'
  <2> SUFFICES ASSUME Asked, [InputNext]_<<input, vars>> PROVE Asked'
    OBVIOUS
  <2>1. CASE Ask
    BY <2>1, AskedIsWellFormed DEF Asked
  <2>2. CASE Answered
    BY <2>2, NothingIsWellFormed DEF Answered, Asked
  <2>3. CASE input' = input
    BY <2>3 DEF Asked
  <2> QED
    BY <2>1, <2>2, <2>3 DEF InputNext, MergeStep
<1> QED
  BY <1>1, <1>2, PTL DEF InputSpec

\* The inputs run, for documents and numbers of any size: what is delivered for a
\* page list is what was asked for, and does not depend on the order of its parts.
THEOREM InputsSplit ==
  ASSUME Bounded
  PROVE  InputSpec => [](SplitDelivers /\ SplitDeterministic)
<1>1. Asked => SplitDelivers
  BY SplitAlwaysDelivers DEF Asked, WellFormed, SplitDelivers
<1>2. Asked => SplitDeterministic
  BY SplitAlwaysDeterministic DEF Asked, WellFormed, SplitDeterministic
<1> QED
  BY <1>1, <1>2, InputsWellFormed, PTL

\* Every series of the inputs run, aggregated, has the last rate of each period.
THEOREM InputsSeries ==
  ASSUME Bounded
  PROVE  InputSpec => []SeriesAggregated
<1>1. Asked => SeriesAggregated
  <2> SUFFICES ASSUME Asked PROVE SeriesAggregated
    OBVIOUS
  <2>1. ASSUME input.kind = "series"
        PROVE  LastOfEachPeriod(aggregatePoints(combineByDate(Points(input.left), Points(input.right)),
                                                input.agg), input.left, input.right, input.agg)
    BY <2>1, SeriesAlwaysAggregated DEF Asked, WellFormed
  <2>2. ASSUME input.kind = "same", parseRangeDays(input.days)
        PROVE  LastOfEachPeriod(aggregatePoints(samePair(input.to - input.days, input.to), input.agg),
                                Ones(input.to, input.days), Ones(input.to, input.days), input.agg)
    BY <2>2, SeriesAlwaysAggregated DEF Asked, WellFormed
  <2> QED
    BY <2>1, <2>2 DEF SeriesAggregated
<1> QED
  BY <1>1, InputsWellFormed, PTL

\* The rounding of a cross rate is bounded in every state of the inputs run.
THEOREM InputsRounding ==
  ASSUME Bounded
  PROVE  InputSpec => []CrossRounding
<1>1. Asked => CrossRounding
  BY CrossRatesClose DEF Asked, WellFormed, CrossRounding
<1> QED
  BY <1>1, InputsWellFormed, PTL

\* The limits on an upload agree in every state of the inputs run.
THEOREM InputsLimits ==
  ASSUME Bounded, MaxBodyMB >= 50
  PROVE  InputSpec => []UploadLimitsAgree
<1>1. Asked => UploadLimitsAgree
  BY LimitsAlwaysAgree DEF Asked, WellFormed, UploadLimitsAgree
<1> QED
  BY <1>1, InputsWellFormed, PTL

\* Every name of the inputs run is safe once sanitized, and an accepted one
\* keeps its extension.
THEOREM InputsNames ==
  ASSUME Bounded
  PROVE  InputSpec => [](NamesSafe /\ NamesKeepExtension)
<1>1. Asked => NamesSafe
  BY AllNamesSafe DEF Asked, WellFormed, NamesSafe
<1>2. Asked => NamesKeepExtension
  BY AllExtensionsKept DEF Asked, WellFormed, NamesKeepExtension
<1> QED
  BY <1>1, <1>2, InputsWellFormed, PTL
=============================================================================
