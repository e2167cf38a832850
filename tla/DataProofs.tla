------------------------------ MODULE DataProofs ------------------------------
(***************************************************************************)
(* Facts about data that the proofs of several components need: induction *)
(* over the naturals, functions that are defined by recursion, the        *)
(* smallest element of a set, and sequences a test has selected from; and *)
(* what the maps compute, for any number of points.                       *)
(*                                                                         *)
(* Induction is stated over a set, the naturals a property holds of, and  *)
(* rests on the well-foundedness of the order of the naturals.            *)
(***************************************************************************)
EXTENDS Maps, FiniteSetsExt, SequenceTheorems, WellFoundedInduction, TLAPS

\* A set of naturals that is not empty has a smallest element.
LEMMA LeastNatural ==
  ASSUME NEW T, T \subseteq Nat, T # {}
  PROVE  \E n \in T : \A m \in T : n <= m
<1>1. PICK n \in T : \A m \in T : ~(<<m, n>> \in OpToRel(<, Nat))
  BY WFMin, NatLessThanWellFounded
<1>2. \A m \in T : ~(m < n)
  BY <1>1 DEF OpToRel
<1>3. \A m \in T : n <= m
  BY <1>2
<1>4. QED
  BY <1>3

\* Induction, for the set of the naturals a property holds of.
LEMMA SetInduction ==
  ASSUME NEW T, 0 \in T, \A n \in Nat : n \in T => n + 1 \in T
  PROVE  Nat \subseteq T
<1>1. SUFFICES ASSUME Nat \ T # {} PROVE FALSE
  OBVIOUS
<1>2. PICK n \in Nat \ T : \A m \in Nat \ T : n <= m
  BY <1>1, LeastNatural
<1>3. n - 1 \in Nat /\ n - 1 \in T
  BY <1>2
<1>4. QED
  BY <1>2, <1>3

\* The same up to a bound.
LEMMA BoundedInduction ==
  ASSUME NEW N \in Nat, NEW T, 0 \in T, \A n \in 0..N-1 : n \in T => n + 1 \in T
  PROVE  0..N \subseteq T
<1> DEFINE U == T \cup {n \in Nat : n > N}
<1>1. \A n \in Nat : n \in U => n + 1 \in U
  OBVIOUS
<1>2. 0 \in U
  OBVIOUS
<1> HIDE DEF U
<1>3. Nat \subseteq U
  BY <1>1, <1>2, SetInduction
<1>4. QED
  BY <1>3 DEF U

\* Min(), which is a CHOOSE, of a set of naturals.
LEMMA MinNatural ==
  ASSUME NEW T, T \subseteq Nat, T # {}
  PROVE  Min(T) \in T /\ \A m \in T : Min(T) <= m
<1>1. \E n \in T : \A m \in T : n <= m
  BY LeastNatural
<1>2. QED
  BY <1>1 DEF Min

-------------------------------------------------------------------------------
(***************************************************************************)
(* Remainders.                                                            *)
(***************************************************************************)

\* Numbers that are equal up to less than d, and whose quotients differ, do not exist.
LEMMA SameQuotient ==
  ASSUME NEW d \in Nat \ {0}, NEW m \in Int, NEW n \in Int,
         NEW a \in 0..d-1, NEW b \in 0..d-1, d * m + a = d * n + b
  PROVE  m = n /\ a = b
<1>1. d * (m - n) = b - a
  <2>1. d * (m - n) = d * m - d * n /\ d * m \in Int /\ d * n \in Int
    OBVIOUS
  <2>2. QED
    BY <2>1
<1>2. ~(m - n >= 1)
  <2>1. SUFFICES ASSUME m - n >= 1 PROVE FALSE
    OBVIOUS
  <2>2. d * (m - n) >= d * 1
    BY <2>1
  <2>3. QED
    BY <1>1, <2>2
<1>3. ~(m - n <= -1)
  <2>1. SUFFICES ASSUME m - n <= -1 PROVE FALSE
    OBVIOUS
  <2>2. d * (m - n) <= d * (-1)
    BY <2>1
  <2>3. QED
    BY <1>1, <2>2
<1>4. m = n
  BY <1>2, <1>3
<1>5. QED
  BY <1>1, <1>4

\* The remainder of a number that is a multiple of d and less than d more.
LEMMA Remainder ==
  ASSUME NEW d \in Nat \ {0}, NEW m \in Int, NEW a \in 0..d-1
  PROVE  (d * m + a) % d = a
<1> DEFINE x == d * m + a
           n == x \div d
           b == x % d
<1>1. x \in Int
  OBVIOUS
<1> HIDE DEF x
<1>2. n \in Int /\ b \in 0..d-1 /\ x = d * n + b
  BY <1>1, Z3
<1> HIDE DEF n, b
<1>3. d * m + a = d * n + b
  BY <1>2 DEF x
<1>4. a = b
  BY <1>2, <1>3, SameQuotient
<1>5. QED
  BY <1>4 DEF b, x

-------------------------------------------------------------------------------
(***************************************************************************)
(* Functions f[k] == IF k = 0 THEN a ELSE F[k][f[k-1]].                   *)
(***************************************************************************)

IsRecursion(f, n, a, F) == f = [k \in 0..n |-> IF k = 0 THEN a ELSE F[k][f[k-1]]]

\* f is such a function up to n, with values in S.
Unfolds(f, n, S, a, F) ==
  f \in [0..n -> S] /\ f[0] = a /\ \A k \in 1..n : f[k] = F[k][f[k-1]]

\* It can be continued by one.
LEMMA RecursionStep ==
  ASSUME NEW S, NEW a \in S, NEW N \in Nat, NEW F \in [1..N -> [S -> S]],
         NEW n \in 0..N-1, NEW f, Unfolds(f, n, S, a, F)
  PROVE  \E g : Unfolds(g, n + 1, S, a, F)
<1> DEFINE y == F[n + 1][f[n]]
           g == [k \in 0..n+1 |-> IF k = n + 1 THEN y ELSE f[k]]
<1>1. f \in [0..n -> S] /\ f[0] = a /\ \A k \in 1..n : f[k] = F[k][f[k-1]]
  BY DEF Unfolds
<1>2. y \in S
  <2>1. n \in Nat /\ n + 1 \in 1..N /\ f[n] \in S
    BY <1>1
  <2>2. QED
    BY <2>1
<1> HIDE DEF y
<1>3. g \in [0..n+1 -> S]
  BY <1>1, <1>2
<1>4. g[n + 1] = y /\ \A k \in 0..n : g[k] = f[k]
  OBVIOUS
<1> HIDE DEF g
<1>5. ASSUME NEW k \in 1..n+1 PROVE g[k] = F[k][g[k-1]]
  <2>1. CASE k = n + 1
    <3>1. g[n] = f[n]
      BY <1>4
    <3>2. QED
      BY <1>4, <2>1, <3>1 DEF y
  <2>2. CASE k # n + 1
    <3>1. k \in 1..n /\ k \in 0..n /\ k - 1 \in 0..n
      BY <2>2
    <3>2. QED
      BY <1>1, <1>4, <3>1
  <2>3. QED
    BY <2>1, <2>2
<1>6. g[0] = a
  BY <1>1, <1>4
<1>7. QED
  BY <1>3, <1>5, <1>6 DEF Unfolds

\* There is such a function.
LEMMA RecursionExists ==
  ASSUME NEW S, NEW a \in S, NEW N \in Nat, NEW F \in [1..N -> [S -> S]]
  PROVE  \E f : IsRecursion(f, N, a, F)
<1> DEFINE T == {n \in 0..N : \E f : Unfolds(f, n, S, a, F)}
<1>1. 0 \in T
  <2> DEFINE f == [k \in 0..0 |-> a]
  <2>1. Unfolds(f, 0, S, a, F)
    BY DEF Unfolds
  <2>2. QED
    BY <2>1
<1>2. ASSUME NEW n \in 0..N-1, n \in T PROVE n + 1 \in T
  <2>1. n + 1 \in 0..N
    OBVIOUS
  <2>2. \E g : Unfolds(g, n + 1, S, a, F)
    BY <1>2, RecursionStep
  <2>3. QED
    BY <2>1, <2>2
<1>3. N \in T
  <2> HIDE DEF T
  <2>1. 0..N \subseteq T
    BY <1>1, <1>2, BoundedInduction
  <2>2. QED
    BY <2>1
<1>4. PICK f : Unfolds(f, N, S, a, F)
  BY <1>3
<1>5. f \in [0..N -> S] /\ f[0] = a /\ \A k \in 1..N : f[k] = F[k][f[k-1]]
  BY <1>4 DEF Unfolds
<1>6. f = [k \in 0..N |-> IF k = 0 THEN a ELSE F[k][f[k-1]]]
  <2> DEFINE h == [k \in 0..N |-> IF k = 0 THEN a ELSE F[k][f[k-1]]]
  <2>1. ASSUME NEW k \in 0..N PROVE f[k] = h[k]
    BY <1>5
  <2>2. QED
    BY <1>5, <2>1
<1>7. QED
  BY <1>6 DEF IsRecursion

\* What a step keeps, all its values have.
LEMMA RecursionType ==
  ASSUME NEW S, NEW a \in S, NEW N \in Nat, NEW F \in [1..N -> [S -> S]],
         NEW f, IsRecursion(f, N, a, F)
  PROVE  Unfolds(f, N, S, a, F)
<1> USE DEF IsRecursion
<1> DEFINE T == {n \in 0..N : f[n] \in S}
<1>1. 0 \in T
  OBVIOUS
<1>2. ASSUME NEW n \in 0..N-1, n \in T PROVE n + 1 \in T
  <2>1. n + 1 \in 1..N /\ f[n] \in S
    BY <1>2
  <2>2. f[n + 1] = F[n+1][f[n]]
    BY <2>1
  <2>3. QED
    BY <2>1, <2>2
<1>3. 0..N \subseteq T
  <2> HIDE DEF T
  <2>1. QED
    BY <1>1, <1>2, BoundedInduction
<1>4. QED
  BY <1>3 DEF Unfolds

-------------------------------------------------------------------------------
(***************************************************************************)
(* Maps, for any number of points.                                        *)
(***************************************************************************)

\* What a map consists of.
LEMMA PointsType ==
  ASSUME NEW points \in Points
  PROVE  /\ Len(points) \in Nat /\ Len(points) >= 2
         /\ \A j \in 1..Len(points) : points[j][1] \in Int /\ points[j][2] \in Int
<1>1. points \in Seq(Int \X Int) /\ Len(points) >= 2
  BY DEF Points
<1>2. Len(points) \in Nat
  BY <1>1
<1>3. ASSUME NEW j \in 1..Len(points) PROVE points[j][1] \in Int /\ points[j][2] \in Int
  <2>1. points[j] \in Int \X Int
    BY <1>1, <1>2
  <2>2. QED
    BY <2>1
<1>4. QED
  BY <1>1, <1>2, <1>3

\* The loop over the points ends, at one point.
LEMMA FoundExists ==
  ASSUME NEW points \in Points, NEW v \in Int
  PROVE  \E k \in 2..Len(points) : Found(points, v, k)
<1> DEFINE T == {k \in 2..Len(points) : k = Len(points) \/ v <= points[k][1]}
<1>1. T # {} /\ T \subseteq Nat
  <2>1. Len(points) \in Nat /\ Len(points) >= 2
    BY PointsType
  <2>2. Len(points) \in T
    BY <2>1
  <2>3. QED
    BY <2>1, <2>2
<1> HIDE DEF T
<1>2. PICK k \in T : \A j \in T : k <= j
  BY <1>1, LeastNatural
<1>3. \A j \in T : ~(j < k)
  BY <1>1, <1>2
<1>4. k \in 2..Len(points) /\ (k = Len(points) \/ v <= points[k][1])
  BY DEF T
<1>5. ASSUME NEW j \in 2..k-1 PROVE v > points[j][1]
  <2>1. j \in 2..Len(points) /\ j < k /\ points[j][1] \in Int
    BY <1>4, PointsType
  <2>2. j \notin T
    BY <1>3, <2>1
  <2>3. QED
    BY <2>1, <2>2 DEF T
<1>6. QED
  BY <1>4, <1>5 DEF Found

\* A quotient that is rounded down lies between whole numbers that bound it.
LEMMA QuotientBetween ==
  ASSUME NEW a \in Int, NEW d \in Nat \ {0}, NEW low \in Int, NEW high \in Int,
         low * d <= a, a <= high * d
  PROVE  (a \div d) \in Int /\ low <= a \div d /\ a \div d <= high
<1> DEFINE q == a \div d
<1>1. q \in Int /\ d * q <= a /\ a < d * q + d
  BY Z3
<1> HIDE DEF q
<1>2. low <= q
  <2>1. SUFFICES ASSUME low >= q + 1 PROVE FALSE
    BY <1>1
  <2>2. low * d >= (q + 1) * d
    BY <2>1, <1>1
  <2>3. QED
    BY <2>2, <1>1
<1>3. q <= high
  <2>1. SUFFICES ASSUME q >= high + 1 PROVE FALSE
    BY <1>1
  <2>2. q * d >= (high + 1) * d
    BY <2>1, <1>1
  <2>3. QED
    BY <2>2, <1>1
<1>4. QED
  BY <1>1, <1>2, <1>3 DEF q

\* Between two points the value on the line is between theirs.
LEMMA OnLineBetween ==
  ASSUME NEW points \in Points, NEW v \in Int, NEW k \in 2..Len(points),
         points[k-1][1] < v, v < points[k][1],
         NEW low \in Int, NEW high \in Int,
         \A j \in 1..Len(points) : low <= points[j][2] /\ points[j][2] <= high
  PROVE  OnLine(points, v, k) \in low..high
<1> DEFINE y == points[k-1][2]
           dy == points[k][2] - points[k-1][2]
           n == v - points[k-1][1]
           dx == points[k][1] - points[k-1][1]
<1>1. /\ \A j \in 1..Len(points) : points[j][1] \in Int /\ points[j][2] \in Int
      /\ k \in 1..Len(points) /\ k - 1 \in 1..Len(points)
  BY PointsType
<1>2. /\ y \in Int /\ dy \in Int /\ n \in Nat /\ dx \in Nat \ {0} /\ n <= dx
      /\ low <= y /\ y <= high /\ low <= y + dy /\ y + dy <= high
  <2>1. /\ points[k][1] \in Int /\ points[k][2] \in Int
        /\ low <= points[k][2] /\ points[k][2] <= high
    BY <1>1
  <2>2. /\ points[k-1][1] \in Int /\ points[k-1][2] \in Int
        /\ low <= points[k-1][2] /\ points[k-1][2] <= high
    BY <1>1
  <2>3. y \in Int /\ dy \in Int /\ low <= y /\ y <= high /\ y + dy = points[k][2]
    BY <2>1, <2>2
  <2>4. n \in Nat /\ dx \in Nat \ {0} /\ n <= dx
    BY <2>1, <2>2
  <2> HIDE DEF y, dy, n, dx
  <2>5. QED
    BY <2>1, <2>3, <2>4
<1>3. OnLine(points, v, k) = y + ((dy * n) \div dx)
  BY DEF OnLine
<1> HIDE DEF y, dy, n, dx
<1>4. dy * n \in Int
  BY <1>2
<1>5. CASE dy >= 0
  <2>1. 0 * dx <= dy * n /\ dy * n <= dy * dx
    BY <1>2, <1>5
  <2>2. 0 \in Int /\ dy \in Int /\ dx \in Nat \ {0}
    BY <1>2
  <2>3. /\ (dy * n) \div dx \in Int
        /\ 0 <= (dy * n) \div dx /\ (dy * n) \div dx <= dy
    BY <1>4, <2>1, <2>2, QuotientBetween, Zenon
  <2>4. QED
    BY <1>2, <1>3, <2>3
<1>6. CASE dy < 0
  <2>1. dy * dx <= dy * n /\ dy * n <= 0 * dx
    BY <1>2, <1>6
  <2>2. 0 \in Int /\ dy \in Int /\ dx \in Nat \ {0}
    BY <1>2
  <2>3. /\ (dy * n) \div dx \in Int
        /\ dy <= (dy * n) \div dx /\ (dy * n) \div dx <= 0
    BY <1>4, <2>1, <2>2, QuotientBetween, Zenon
  <2>4. QED
    BY <1>2, <1>3, <2>3
<1>7. QED
  BY <1>2, <1>5, <1>6

\* pwm_map(), sensor_get_duty() and tacho_map() never divide by zero, and what they
\* return lies within the values of the points, in whatever order these were entered.
THEOREM InterpolateWithin ==
  ASSUME NEW points \in Points, NEW v \in Int, NEW low \in Int, NEW high \in Int,
         \A j \in 1..Len(points) : low <= points[j][2] /\ points[j][2] <= high
  PROVE  Mapped(points, v) \in low..high
<1> DEFINE k == CHOOSE k \in 2..Len(points) : Found(points, v, k)
<1>1. k \in 2..Len(points) /\ Found(points, v, k)
  BY FoundExists
<1>2. Mapped(points, v) = IF v <= points[1][1] THEN points[1][2]
                          ELSE IF v >= points[k][1] THEN points[k][2] ELSE OnLine(points, v, k)
  BY DEF Mapped
<1> HIDE DEF k
<1>3. /\ \A j \in 1..Len(points) : points[j][1] \in Int /\ points[j][2] \in Int
      /\ 1 \in 1..Len(points) /\ k \in 1..Len(points)
  BY <1>1, PointsType
<1>4. CASE v <= points[1][1] \/ v >= points[k][1]
  BY <1>2, <1>3, <1>4
<1>5. CASE v > points[1][1] /\ v < points[k][1]
  <2>1. points[k-1][1] < v
    <3>1. CASE k = 2
      BY <3>1, <1>5
    <3>2. CASE k # 2
      BY <3>2, <1>1 DEF Found
    <3>3. QED
      BY <3>1, <3>2
  <2>2. OnLine(points, v, k) \in low..high
    BY <1>1, <1>5, <2>1, OnLineBetween
  <2>3. QED
    BY <1>2, <1>3, <1>5, <2>2
<1>6. QED
  BY <1>3, <1>4, <1>5

\* Points of which each is beyond the one before are all in order.
LEMMA AscendingOrder ==
  ASSUME NEW points \in Points, Ascending(points)
  PROVE  \A i, j \in 1..Len(points) : i < j => points[i][1] < points[j][1]
<1>1. Len(points) \in Nat /\ \A k \in 1..Len(points) : points[k][1] \in Int
  BY PointsType
<1> SUFFICES ASSUME NEW i \in 1..Len(points)
             PROVE  \A j \in 1..Len(points) : i < j => points[i][1] < points[j][1]
  OBVIOUS
<1> DEFINE T == {n \in Nat : i + 1 + n <= Len(points) => points[i][1] < points[i + 1 + n][1]}
<1>2. 0 \in T
  <2>1. i + 1 <= Len(points) => points[i][1] < points[i + 1][1]
    BY <1>1 DEF Ascending
  <2>2. QED
    BY <2>1
<1>3. ASSUME NEW n \in Nat, n \in T PROVE n + 1 \in T
  <2>1. SUFFICES ASSUME i + 1 + (n + 1) <= Len(points)
                 PROVE  points[i][1] < points[i + 1 + (n + 1)][1]
    OBVIOUS
  <2> DEFINE m == i + 1 + n
  <2>2. m \in 1..Len(points)-1 /\ m + 1 \in 1..Len(points) /\ m + 1 = i + 1 + (n + 1)
    BY <1>1, <2>1
  <2>3. points[i][1] < points[m][1]
    BY <1>1, <1>3, <2>2
  <2> HIDE DEF m
  <2>4. points[m][1] < points[m + 1][1]
    BY <2>2 DEF Ascending
  <2>5. points[i][1] \in Int /\ points[m][1] \in Int /\ points[m + 1][1] \in Int
    BY <1>1, <2>2
  <2>6. QED
    BY <2>2, <2>3, <2>4, <2>5
<1>4. Nat \subseteq T
  <2> HIDE DEF T
  <2>1. QED
    BY <1>2, <1>3, SetInduction
<1>5. ASSUME NEW j \in 1..Len(points), i < j PROVE points[i][1] < points[j][1]
  <2>1. j - i - 1 \in Nat /\ i + 1 + (j - i - 1) = j /\ j <= Len(points)
    BY <1>1, <1>5
  <2>2. j - i - 1 \in T
    BY <1>4, <2>1
  <2>3. QED
    BY <2>1, <2>2
<1>6. QED
  BY <1>5

\* pwm_map(), sensor_get_duty() and tacho_map() with points in order: the value of a
\* point at the point, the line between two points, and constant outside of them.
THEOREM MappedIsReference ==
  ASSUME NEW points \in Points, Ascending(points), NEW v \in Int
  PROVE  Reference(points, v, Mapped(points, v))
<1> DEFINE k == CHOOSE k \in 2..Len(points) : Found(points, v, k)
           n == Len(points)
<1>1. k \in 2..n /\ Found(points, v, k)
  BY FoundExists
<1>2. Mapped(points, v) = IF v <= points[1][1] THEN points[1][2]
                          ELSE IF v >= points[k][1] THEN points[k][2] ELSE OnLine(points, v, k)
  BY DEF Mapped
<1> HIDE DEF k
<1>3. n \in Nat /\ n >= 2 /\ \A j \in 1..n : points[j][1] \in Int
  BY PointsType
<1>4. \A i, j \in 1..n : i < j => points[i][1] < points[j][1]
  BY AscendingOrder
<1>5. /\ k \in 1..n /\ 1 \in 1..n /\ n \in 1..n /\ k - 1 \in 1..n
      /\ k = n \/ v <= points[k][1]
      /\ \A j \in 2..k-1 : v > points[j][1]
  BY <1>1, <1>3 DEF Found
<1> HIDE DEF n
<1>6. ASSUME NEW j \in 1..n, v = points[j][1] PROVE Mapped(points, v) = points[j][2]
  <2>1. CASE j = 1
    BY <1>2, <1>3, <1>6, <2>1
  <2>2. CASE j # 1
    <3>1. v > points[1][1]
      BY <1>3, <1>4, <1>5, <1>6, <2>2
    <3>2. ~(j < k)
      BY <1>3, <1>5, <1>6, <2>2
    <3>3. ~(k < j)
      BY <1>3, <1>4, <1>5, <1>6
    <3>4. j = k
      BY <1>3, <1>5, <3>2, <3>3
    <3>5. QED
      BY <1>2, <1>3, <1>5, <1>6, <3>1, <3>4
  <2>3. QED
    BY <2>1, <2>2
<1>7. v < points[1][1] => Mapped(points, v) = points[1][2]
  BY <1>2, <1>3, <1>5
<1>8. ASSUME v > points[n][1] PROVE Mapped(points, v) = points[n][2]
  <2>1. ~(k < n)
    BY <1>3, <1>4, <1>5, <1>8
  <2>2. k = n /\ points[1][1] < points[n][1]
    BY <1>3, <1>4, <1>5, <2>1
  <2>3. QED
    BY <1>2, <1>3, <1>5, <1>8, <2>2
<1>9. ASSUME NEW j \in 2..n, points[j-1][1] < v, v < points[j][1]
      PROVE  Mapped(points, v) = OnLine(points, v, j)
  <2>1. j \in 1..n /\ j - 1 \in 1..n
    BY <1>3
  <2>2. ~(j < k)
    BY <1>3, <1>5, <1>9, <2>1
  <2>3. ~(k < j)
    <3>1. SUFFICES ASSUME k < j PROVE FALSE
      OBVIOUS
    <3>2. k # n /\ v <= points[k][1]
      BY <1>3, <1>5, <2>1, <3>1
    <3>3. k = j - 1 \/ points[k][1] < points[j-1][1]
      BY <1>3, <1>4, <1>5, <2>1, <3>1
    <3>4. QED
      BY <1>3, <1>5, <1>9, <2>1, <3>2, <3>3
  <2>4. j = k
    BY <1>3, <1>5, <2>1, <2>2, <2>3
  <2>5. v > points[1][1]
    <3>1. j - 1 = 1 \/ points[1][1] < points[j-1][1]
      BY <1>3, <1>4, <1>5, <2>1
    <3>2. QED
      BY <1>3, <1>5, <1>9, <2>1, <3>1
  <2>6. QED
    BY <1>2, <1>3, <1>5, <1>9, <2>1, <2>4, <2>5
<1>10. QED
  BY <1>6, <1>7, <1>8, <1>9 DEF Reference, n

===============================================================================
