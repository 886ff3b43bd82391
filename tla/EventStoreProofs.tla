-------------------------- MODULE EventStoreProofs --------------------------
(***************************************************************************)
(* What recordsets and array results guarantee for any slices, arrays,     *)
(* ranges and number of calls: records come back whole and in their place, *)
(* rows and columns are those of the array.                                *)
(***************************************************************************)
EXTENDS EventStore, SequenceFacts

(***************************************************************************)
(* Products and sums                                                       *)
(***************************************************************************)
Positive == Nat \ {0}

\* A product of positive numbers is positive.
LEMMA PositiveProduct ==
  ASSUME NEW a \in Positive, NEW b \in Positive
  PROVE  a * b \in Positive
<1>1. a \in Nat /\ b \in Nat /\ a >= 1 /\ b >= 1
  BY DEF Positive
<1>2. a * b >= 1
  BY <1>1
<1>. QED BY <1>1, <1>2 DEF Positive

\* The products of positive numbers.
LEMMA ProductsMade ==
  ASSUME NEW s, Len(s) \in Nat, \A k \in 1 .. Len(s) : s[k] \in Positive
  PROVE  /\ Products(s) \in [0 .. Len(s) -> Positive] /\ Products(s)[0] = 1
         /\ \A k \in 1 .. Len(s) : Products(s)[k] = Products(s)[k - 1] * s[k]
<1> DEFINE N == Len(s)
           Made(p) == p = [k \in 0 .. N |-> IF k = 0 THEN 1 ELSE p[k - 1] * s[k]]
           step == [k \in 1 .. N |-> [c \in Positive |-> c * s[k]]]
<1>1. step \in [1 .. N -> [Positive -> Positive]]
  BY PositiveProduct
<1>2. 1 \in Positive /\ N \in Nat
  BY DEF Positive
<1>3. PICK p \in [0 .. N -> Positive] : Follows(p, 1, step, N)
  <2> HIDE DEF step, N
  <2>. QED BY <1>1, <1>2, Recursion
<1>4. p[0] = 1 /\ \A k \in 1 .. N : p[k - 1] \in Positive /\ p[k] = p[k - 1] * s[k]
  <2>1. \A k \in 1 .. N : p[k - 1] \in Positive
    <3>1. \A k \in 1 .. N : k - 1 \in 0 .. N
      BY <1>2
    <3>. QED BY <1>3, <3>1
  <2>2. \A k \in 1 .. N, c \in Positive : step[k][c] = c * s[k]
    OBVIOUS
  <2> HIDE DEF step
  <2>. QED BY <1>3, <2>1, <2>2 DEF Follows
<1>5. Made(p)
  BY <1>2, <1>3, <1>4
<1>6. Products(s) = CHOOSE q : Made(q)
  BY Zenon DEF Products
<1>7. Made(Products(s))
  <2> HIDE DEF Made
  <2>. QED BY <1>5, <1>6
<1> DEFINE P == Products(s)
<1> HIDE DEF P
<1>8. P = [k \in 0 .. N |-> P[k]] /\ P[0] = 1 /\ \A k \in 1 .. N : P[k] = P[k - 1] * s[k]
  <2>1. Made(P)
    BY <1>7 DEF P
  <2>2. DOMAIN P = 0 .. N
    BY <2>1
  <2>3. P[0] = 1
    BY <1>2, <2>1
  <2>4. ASSUME NEW k \in 1 .. N PROVE P[k] = P[k - 1] * s[k]
    <3>1. k \in 0 .. N /\ k # 0
      BY <1>2
    <3>. QED BY <2>1, <3>1
  <2>. QED BY <2>1, <2>2, <2>3, <2>4
<1> DEFINE T == {n \in Nat : n <= N => P[n] \in Positive}
<1>9. T = Nat
  <2>1. 0 \in T
    BY <1>2, <1>8
  <2>2. ASSUME NEW n \in T PROVE n + 1 \in T
    <3> SUFFICES ASSUME n + 1 <= N PROVE P[n + 1] \in Positive
      OBVIOUS
    <3>1. n + 1 \in 1 .. N /\ (n + 1) - 1 = n /\ P[n] \in Positive
      OBVIOUS
    <3>2. P[n + 1] = P[n] * s[n + 1] /\ s[n + 1] \in Positive
      BY <1>8, <3>1
    <3>. QED BY <3>1, <3>2, PositiveProduct
  <2> HIDE DEF T
  <2>3. T \in SUBSET Nat
    BY DEF T
  <2>. QED BY <2>1, <2>2, <2>3, Induction
<1>10. \A k \in 0 .. N : P[k] \in Positive
  BY <1>9
<1>11. P \in [0 .. N -> Positive]
  BY <1>8, <1>10
<1>. QED BY <1>8, <1>11 DEF P

\* The sums of numbers.
LEMMA SumsMade ==
  ASSUME NEW s, Len(s) \in Nat, \A k \in 1 .. Len(s) : s[k] \in Int
  PROVE  /\ Sums(s) \in [0 .. Len(s) -> Int] /\ Sums(s)[0] = 0
         /\ \A k \in 1 .. Len(s) : Sums(s)[k] = Sums(s)[k - 1] + s[k]
<1> DEFINE N == Len(s)
           Made(p) == p = [k \in 0 .. N |-> IF k = 0 THEN 0 ELSE p[k - 1] + s[k]]
           step == [k \in 1 .. N |-> [c \in Int |-> c + s[k]]]
<1>1. step \in [1 .. N -> [Int -> Int]]
  OBVIOUS
<1>2. 0 \in Int /\ N \in Nat
  OBVIOUS
<1>3. PICK p \in [0 .. N -> Int] : Follows(p, 0, step, N)
  <2> HIDE DEF step, N
  <2>. QED BY <1>1, <1>2, Recursion
<1>4. p[0] = 0 /\ \A k \in 1 .. N : p[k - 1] \in Int /\ p[k] = p[k - 1] + s[k]
  <2>1. \A k \in 1 .. N : p[k - 1] \in Int
    <3>1. \A k \in 1 .. N : k - 1 \in 0 .. N
      BY <1>2
    <3>. QED BY <1>3, <3>1
  <2>2. \A k \in 1 .. N, c \in Int : step[k][c] = c + s[k]
    OBVIOUS
  <2> HIDE DEF step
  <2>. QED BY <1>3, <2>1, <2>2 DEF Follows
<1>5. Made(p)
  BY <1>2, <1>3, <1>4
<1>6. Sums(s) = CHOOSE q : Made(q)
  BY Zenon DEF Sums
<1>7. Made(Sums(s))
  <2> HIDE DEF Made
  <2>. QED BY <1>5, <1>6
<1> DEFINE P == Sums(s)
<1> HIDE DEF P
<1>8. P = [k \in 0 .. N |-> P[k]] /\ P[0] = 0 /\ \A k \in 1 .. N : P[k] = P[k - 1] + s[k]
  <2>1. Made(P)
    BY <1>7 DEF P
  <2>2. DOMAIN P = 0 .. N
    BY <2>1
  <2>3. P[0] = 0
    BY <1>2, <2>1
  <2>4. ASSUME NEW k \in 1 .. N PROVE P[k] = P[k - 1] + s[k]
    <3>1. k \in 0 .. N /\ k # 0
      BY <1>2
    <3>. QED BY <2>1, <3>1
  <2>. QED BY <2>1, <2>2, <2>3, <2>4
<1> DEFINE T == {n \in Nat : n <= N => P[n] \in Int}
<1>9. T = Nat
  <2>1. 0 \in T
    BY <1>2, <1>8
  <2>2. ASSUME NEW n \in T PROVE n + 1 \in T
    <3> SUFFICES ASSUME n + 1 <= N PROVE P[n + 1] \in Int
      OBVIOUS
    <3>1. n + 1 \in 1 .. N /\ (n + 1) - 1 = n /\ P[n] \in Int
      OBVIOUS
    <3>2. P[n + 1] = P[n] + s[n + 1] /\ s[n + 1] \in Int
      BY <1>8, <3>1
    <3>. QED BY <3>1, <3>2
  <2> HIDE DEF T
  <2>3. T \in SUBSET Nat
    BY DEF T
  <2>. QED BY <2>1, <2>2, <2>3, Induction
<1>10. \A k \in 0 .. N : P[k] \in Int
  BY <1>9
<1>11. P \in [0 .. N -> Int]
  BY <1>8, <1>10
<1>. QED BY <1>8, <1>11 DEF P

(***************************************************************************)
(* Layouts                                                                 *)
(***************************************************************************)
\* Dividing.
LEMMA Division ==
  ASSUME NEW m \in Int, NEW b \in Nat \ {0}
  PROVE  m \div b \in Int /\ m % b \in 0 .. b - 1 /\ m = b * (m \div b) + (m % b)
OBVIOUS

\* A quotient and a remainder are the only ones.
LEMMA DivisionUnique ==
  ASSUME NEW b \in Positive, NEW q \in Int, NEW r \in 0 .. b - 1
  PROVE  (b * q + r) \div b = q /\ (b * q + r) % b = r
<1> DEFINE m == b * q + r
           q1 == m \div b
           r1 == m % b
<1>1. b \in Int /\ b >= 1 /\ m \in Int
  BY DEF Positive
<1>2. q1 \in Int /\ r1 \in 0 .. b - 1 /\ m = b * q1 + r1
  <2>1. b \in Nat \ {0}
    BY DEF Positive
  <2> HIDE DEF m
  <2>. QED BY <1>1, <2>1, Division
<1> HIDE DEF q1, r1
<1>3. b * (q - q1) = r1 - r
  BY <1>1, <1>2
<1>4. ~(q - q1 >= 1)
  <2> SUFFICES ASSUME q - q1 >= 1 PROVE FALSE
    OBVIOUS
  <2>1. b * (q - q1) >= b
    BY <1>1, <1>2
  <2>. QED BY <1>1, <1>2, <1>3, <2>1
<1>5. ~(q1 - q >= 1)
  <2> SUFFICES ASSUME q1 - q >= 1 PROVE FALSE
    OBVIOUS
  <2>1. b * (q1 - q) >= b
    BY <1>1, <1>2
  <2>2. b * (q1 - q) = r - r1
    BY <1>1, <1>2
  <2>. QED BY <1>1, <1>2, <2>1, <2>2
<1>6. q1 = q
  BY <1>2, <1>4, <1>5
<1>7. r1 = r
  BY <1>1, <1>2, <1>6
<1>. QED BY <1>6, <1>7 DEF q1, r1

\* The digits of a number: the remainder of a product is put together from those
\* of its factors.
LEMMA Digits ==
  ASSUME NEW m \in Nat, NEW a \in Positive, NEW b \in Positive
  PROVE  m % (a * b) = ((m \div a) % b) * a + (m % a)
<1> DEFINE q == m \div a  r == m % a  q2 == q \div b  r2 == q % b
<1>1. a \in Nat \ {0} /\ b \in Nat \ {0} /\ a >= 1 /\ b >= 1 /\ m \in Int
  BY DEF Positive
<1>2. q \in Int /\ r \in 0 .. a - 1 /\ m = a * q + r
  BY <1>1, Division
<1> HIDE DEF q, r
<1>3. q2 \in Int /\ r2 \in 0 .. b - 1 /\ q = b * q2 + r2
  BY <1>1, <1>2, Division
<1> HIDE DEF q2, r2
<1>4. m = (a * b) * q2 + (r2 * a + r)
  <2>1. m = a * (b * q2 + r2) + r
    BY <1>2, <1>3
  <2>. QED BY <1>1, <1>2, <1>3, <2>1
<1>5. r2 * a + r \in 0 .. a * b - 1
  <2>1. r2 * a >= 0
    BY <1>1, <1>3
  <2>2. (b - 1 - r2) * a >= 0
    BY <1>1, <1>3
  <2>3. (b - 1 - r2) * a = a * b - a - r2 * a
    BY <1>1, <1>3
  <2>. QED BY <1>1, <1>2, <1>3, <2>1, <2>2, <2>3
<1>6. a * b \in Positive
  BY PositiveProduct
<1> DEFINE n == a * b
           x == r2 * a + r
<1> HIDE DEF n, x
<1>7. m % n = x
  <2>1. n \in Positive /\ x \in 0 .. n - 1 /\ m = n * q2 + x
    BY <1>4, <1>5, <1>6 DEF n, x
  <2>. QED BY <1>3, <2>1, DivisionUnique
<1>. QED BY <1>7 DEF n, x, r, r2, q

\* A number smaller than the divisor is its own remainder.
LEMMA SmallRemainder ==
  ASSUME NEW b \in Positive, NEW r \in 0 .. b - 1
  PROVE  r \div b = 0 /\ r % b = r
<1>1. b * 0 + r = r
  BY DEF Positive
<1>. QED BY <1>1, DivisionUnique

Orders == {"row", "column"}
\* A range of n dimensions, each with a first and a last index.
Proper(range, n) ==
  /\ n \in Nat /\ Len(range) = 2 * n
  /\ \A i \in 1 .. n : range[2 * i - 1] \in Int /\ range[2 * i] \in Int /\ range[2 * i - 1] <= range[2 * i]

\* The spans of a range and the products of them.
LEMMA SpansMade ==
  ASSUME NEW range, NEW n, Proper(range, n), NEW order \in Orders
  PROVE  /\ n \in Nat /\ Len(range) \div 2 = n /\ Len(Spans(range, order)) = n
         /\ \A k \in 1 .. n :
              /\ Nth(k, range, order) \in 1 .. n /\ Nth(Nth(k, range, order), range, order) = k
              /\ Span(range, k) \in Positive
              /\ Spans(range, order)[k] = Span(range, Nth(k, range, order))
         /\ Products(Spans(range, order)) \in [0 .. n -> Positive]
         /\ Products(Spans(range, order))[0] = 1
         /\ \A k \in 1 .. n :
              Products(Spans(range, order))[k] =
                Products(Spans(range, order))[k - 1] * Span(range, Nth(k, range, order))
<1>1. n \in Nat /\ Len(range) \div 2 = n
  BY DEF Proper
<1>2. ASSUME NEW k \in 1 .. n
      PROVE  Nth(k, range, order) \in 1 .. n /\ Nth(Nth(k, range, order), range, order) = k
  <2>1. Nth(k, range, order) = IF order = "row" THEN n + 1 - k ELSE k
    BY <1>1 DEF Nth
  <2>2. CASE order = "row"
    <3>1. Nth(k, range, order) = n + 1 - k /\ n + 1 - k \in 1 .. n /\ (n + 1) - (n + 1 - k) = k
      BY <1>1, <2>1, <2>2
    <3>2. Nth(n + 1 - k, range, order) = (n + 1) - (n + 1 - k)
      BY <1>1, <2>2 DEF Nth
    <3>. QED BY <3>1, <3>2
  <2>3. CASE order # "row"
    <3>1. Nth(k, range, order) = k
      BY <2>1, <2>3
    <3>. QED BY <3>1
  <2>. QED BY <2>2, <2>3
<1>3. ASSUME NEW k \in 1 .. n PROVE Span(range, k) \in Positive
  BY <1>1 DEF Proper, Span, Positive
<1> DEFINE s == Spans(range, order)
<1>4. Len(s) = n /\ \A k \in 1 .. n : s[k] = Span(range, Nth(k, range, order))
  BY <1>1 DEF Spans
<1> HIDE DEF s
<1>5. \A k \in 1 .. Len(s) : s[k] \in Positive
  BY <1>2, <1>3, <1>4
<1>6. /\ Products(s) \in [0 .. n -> Positive] /\ Products(s)[0] = 1
      /\ \A k \in 1 .. n : Products(s)[k] = Products(s)[k - 1] * s[k]
  <2>1. Len(s) \in Nat
    BY <1>1, <1>4
  <2>. QED BY <1>4, <1>5, <2>1, ProductsMade
<1>. QED BY <1>1, <1>2, <1>3, <1>4, <1>6 DEF s

\* The cell at a place of a range lies in the range and has that place: the
\* differences of its indices are the digits of the place.
LEMMA PlaceOfCell ==
  ASSUME NEW range, NEW n, Proper(range, n), NEW order \in Orders,
         NEW m \in 1 .. Products(Spans(range, order))[n]
  PROVE  /\ DOMAIN CellAt(m, range, order) = 1 .. n
         /\ \A i \in 1 .. n :
              /\ CellAt(m, range, order)[i] \in Int
              /\ range[2 * i - 1] <= CellAt(m, range, order)[i] /\ CellAt(m, range, order)[i] <= range[2 * i]
         /\ Place(CellAt(m, range, order), range, order) = m
<1> DEFINE P == Products(Spans(range, order))
           N(k) == Nth(k, range, order)
           x == CellAt(m, range, order)
           digit(k) == ((m - 1) \div P[k - 1]) % Span(range, N(k))
           steps == [k \in 1 .. n |-> (x[N(k)] - range[2 * N(k) - 1]) * P[k - 1]]
<1>1. /\ n \in Nat /\ Len(range) \div 2 = n
      /\ \A k \in 1 .. n : N(k) \in 1 .. n /\ N(N(k)) = k /\ Span(range, k) \in Positive
      /\ P \in [0 .. n -> Positive] /\ P[0] = 1
      /\ \A k \in 1 .. n : P[k] = P[k - 1] * Span(range, N(k))
  BY SpansMade
<1>2. \A k \in 0 .. n : P[k] \in Positive /\ P[k] \in Nat \ {0}
  BY <1>1 DEF Positive
<1>3. m - 1 \in Nat /\ m \in Int /\ m - 1 \in 0 .. P[n] - 1
  BY <1>1, <1>2
<1>4. DOMAIN x = 1 .. n /\ \A i \in 1 .. n : x[i] = range[2 * i - 1] + (((m - 1) \div P[N(i) - 1]) % Span(range, i))
  BY <1>1 DEF CellAt
<1>5. Place(x, range, order) = 1 + Sums(steps)[n]
  BY <1>1 DEF Place
<1> HIDE DEF P, N, x
<1>6. ASSUME NEW k \in 1 .. n
      PROVE  /\ k - 1 \in 0 .. n /\ P[k - 1] \in Nat \ {0}
             /\ (m - 1) \div P[k - 1] \in Int
             /\ N(k) \in 1 .. n /\ Span(range, N(k)) \in Nat \ {0}
             /\ digit(k) \in 0 .. Span(range, N(k)) - 1 /\ digit(k) \in Int
             /\ x[N(k)] = range[2 * N(k) - 1] + digit(k)
             /\ range[2 * N(k) - 1] \in Int
  <2>0. n \in Nat /\ m - 1 \in Int
    BY <1>1, <1>3
  <2>1. k - 1 \in 0 .. n /\ P[k - 1] \in Nat \ {0}
    <3>1. k - 1 \in 0 .. n
      BY <2>0
    <3>. QED BY <1>2, <3>1
  <2>2. (m - 1) \div P[k - 1] \in Int
    <3> DEFINE a == P[k - 1]  q == m - 1
    <3>1. a \in Nat \ {0} /\ q \in Int
      BY <2>0, <2>1
    <3> HIDE DEF a, q
    <3>2. q \div a \in Int
      BY <3>1, Division
    <3>. QED BY <3>2 DEF a, q
  <2>3. N(k) \in 1 .. n /\ Span(range, N(k)) \in Nat \ {0} /\ N(N(k)) = k
    BY <1>1 DEF Positive
  <2>4. digit(k) \in 0 .. Span(range, N(k)) - 1
    BY <2>2, <2>3, Division
  <2>5. digit(k) \in Int
    BY <2>3, <2>4
  <2>6. range[2 * N(k) - 1] \in Int
    BY <2>3 DEF Proper
  <2>. QED BY <1>4, <2>1, <2>2, <2>3, <2>4, <2>5, <2>6
<1>7. ASSUME NEW i \in 1 .. n
      PROVE  x[i] \in Int /\ range[2 * i - 1] <= x[i] /\ x[i] <= range[2 * i]
  <2>1. N(i) \in 1 .. n /\ N(N(i)) = i
    BY <1>1
  <2> DEFINE d == digit(N(i))
  <2>2. d \in 0 .. Span(range, i) - 1 /\ d \in Int /\ x[i] = range[2 * i - 1] + d
    BY <1>6, <2>1
  <2> HIDE DEF d
  <2>3. range[2 * i - 1] \in Int /\ range[2 * i] \in Int /\ Span(range, i) = range[2 * i] - range[2 * i - 1] + 1
    BY DEF Proper, Span
  <2>. QED BY <2>2, <2>3
<1>8. ASSUME NEW k \in 1 .. n PROVE steps[k] = digit(k) * P[k - 1] /\ steps[k] \in Int
  <2> DEFINE d == digit(k)  lo == range[2 * N(k) - 1]
  <2>1. steps[k] = (x[N(k)] - lo) * P[k - 1]
    OBVIOUS
  <2>2. x[N(k)] = lo + d /\ lo \in Int /\ d \in Int /\ P[k - 1] \in Int
    BY <1>6
  <2> HIDE DEF d, lo, steps
  <2>3. (lo + d) - lo = d
    BY <2>2
  <2>4. steps[k] = d * P[k - 1] /\ d * P[k - 1] \in Int
    BY <2>1, <2>2, <2>3
  <2>. QED BY <2>4 DEF d
<1>9. Len(steps) = n
  BY <1>1
<1> HIDE DEF steps, digit
<1> DEFINE T == {k \in Nat : k <= n => Sums(steps)[k] = (m - 1) % P[k]}
<1>10. /\ Sums(steps)[0] = 0
       /\ \A k \in 1 .. n : Sums(steps)[k] = Sums(steps)[k - 1] + steps[k]
  <2>1. Len(steps) \in Nat /\ \A k \in 1 .. Len(steps) : steps[k] \in Int
    BY <1>1, <1>8, <1>9
  <2>. QED BY <1>9, <2>1, SumsMade
<1>11. T = Nat
  <2>1. 0 \in T
    <3>1. (m - 1) % 1 = 0
      BY <1>3
    <3>. QED BY <1>1, <1>10, <3>1
  <2>2. ASSUME NEW k \in T PROVE k + 1 \in T
    <3> SUFFICES ASSUME k + 1 <= n PROVE Sums(steps)[k + 1] = (m - 1) % P[k + 1]
      OBVIOUS
    <3>1. k \in Nat /\ k + 1 \in 1 .. n /\ k \in 0 .. n /\ (k + 1) - 1 = k
      BY <1>1
    <3>2. Sums(steps)[k + 1] = Sums(steps)[k] + digit(k + 1) * P[k]
      BY <1>8, <1>10, <3>1
    <3>3. Sums(steps)[k] = (m - 1) % P[k]
      BY <1>1, <3>1
    <3> DEFINE b == Span(range, N(k + 1))  a == P[k]
    <3>4. P[k + 1] = a * b /\ a \in Positive /\ b \in Positive /\ digit(k + 1) = ((m - 1) \div a) % b
      BY <1>1, <1>2, <3>1 DEF digit
    <3>5. digit(k + 1) * a \in Int /\ (m - 1) % a \in Int
      <4>1. digit(k + 1) \in Int /\ a \in Nat \ {0}
        BY <1>2, <1>6, <3>1
      <4> DEFINE q == m - 1
      <4>2. q \in Int
        BY <1>3
      <4> HIDE DEF a, q
      <4>3. q % a \in 0 .. a - 1
        BY <4>1, <4>2, Division
      <4>4. digit(k + 1) * a \in Int /\ q % a \in Int
        BY <4>1, <4>3
      <4>. QED BY <4>4 DEF q
    <3> HIDE DEF a, b
    <3>6. (m - 1) % (a * b) = digit(k + 1) * a + ((m - 1) % a)
      BY <1>3, <3>4, Digits
    <3>. QED BY <3>2, <3>3, <3>4, <3>5, <3>6 DEF a
  <2> HIDE DEF T
  <2>3. T \in SUBSET Nat
    BY DEF T
  <2>. QED BY <2>1, <2>2, <2>3, Induction
<1>12. Sums(steps)[n] = (m - 1) % P[n]
  BY <1>1, <1>11
<1>13. (m - 1) % P[n] = m - 1
  <2>1. P[n] \in Positive
    BY <1>1
  <2>. QED BY <1>3, <2>1, SmallRemainder
<1>14. Place(x, range, order) = m
  BY <1>3, <1>5, <1>12, <1>13
<1>. QED BY <1>4, <1>7, <1>14 DEF x

\* A range has as many cells in either order.
LEMMA SameProduct ==
  ASSUME NEW range, NEW n, Proper(range, n)
  PROVE  Products(Spans(range, "row"))[n] = Products(Spans(range, "column"))[n]
<1> DEFINE R == Products(Spans(range, "row"))
           C == Products(Spans(range, "column"))
<1>0. n \in Nat /\ Len(range) \div 2 = n
  BY SpansMade DEF Orders
<1>1. /\ R \in [0 .. n -> Positive] /\ R[0] = 1
      /\ \A k \in 1 .. n : R[k] = R[k - 1] * Span(range, n + 1 - k)
  <2>1. \A k \in 1 .. n : Nth(k, range, "row") = n + 1 - k
    BY <1>0 DEF Nth
  <2>2. "row" \in Orders
    BY DEF Orders
  <2>3. /\ R \in [0 .. n -> Positive] /\ R[0] = 1
        /\ \A k \in 1 .. n : R[k] = R[k - 1] * Span(range, Nth(k, range, "row"))
    BY <2>2, SpansMade
  <2> HIDE DEF R
  <2>. QED BY <2>1, <2>3
<1>2. /\ C \in [0 .. n -> Positive] /\ C[0] = 1
      /\ \A k \in 1 .. n : C[k] = C[k - 1] * Span(range, k) /\ Span(range, k) \in Positive
  <2>1. \A k \in 1 .. n : Nth(k, range, "column") = k
    BY DEF Nth
  <2>2. "column" \in Orders
    BY DEF Orders
  <2>3. /\ C \in [0 .. n -> Positive] /\ C[0] = 1
        /\ \A k \in 1 .. n : C[k] = C[k - 1] * Span(range, Nth(k, range, "column")) /\ Span(range, k) \in Positive
    BY <2>2, SpansMade
  <2> HIDE DEF C
  <2>. QED BY <2>1, <2>3
<1> HIDE DEF R, C
<1>3. \A k \in 0 .. n : R[k] \in Int /\ C[k] \in Int
  BY <1>1, <1>2 DEF Positive
<1> DEFINE T == {k \in Nat : k <= n => C[n] = C[n - k] * R[k]}
<1>4. T = Nat
  <2>1. 0 \in T
    <3>1. n - 0 = n /\ n \in 0 .. n /\ C[n] * 1 = C[n]
      BY <1>0, <1>3
    <3>. QED BY <1>1, <3>1
  <2>2. ASSUME NEW k \in T PROVE k + 1 \in T
    <3> SUFFICES ASSUME k + 1 <= n PROVE C[n] = C[n - (k + 1)] * R[k + 1]
      OBVIOUS
    <3>1. /\ k \in 0 .. n /\ k + 1 \in 1 .. n /\ (k + 1) - 1 = k /\ n - k \in 1 .. n
          /\ (n - k) - 1 = n - (k + 1) /\ n - (k + 1) \in 0 .. n /\ n + 1 - (k + 1) = n - k
      BY <1>0
    <3> DEFINE s == Span(range, n - k)  a == C[n - (k + 1)]  b == R[k]
    <3>2. C[n] = C[n - k] * b
      BY <3>1
    <3>3. C[n - k] = a * s /\ s \in Positive
      BY <1>2, <3>1
    <3>4. R[k + 1] = b * s
      BY <1>1, <3>1
    <3>5. a \in Int /\ b \in Int /\ s \in Int
      BY <1>3, <3>1, <3>3 DEF Positive
    <3> HIDE DEF s, a, b
    <3>6. (a * s) * b = a * (b * s)
      BY <3>5
    <3>. QED BY <3>2, <3>3, <3>4, <3>6 DEF a
  <2> HIDE DEF T
  <2>3. T \in SUBSET Nat
    BY DEF T
  <2>. QED BY <2>1, <2>2, <2>3, Induction
<1>5. C[n] = C[n - n] * R[n] /\ n - n = 0 /\ n \in 0 .. n
  BY <1>0, <1>4
<1>6. 1 * R[n] = R[n]
  BY <1>3, <1>5
<1>. QED BY <1>2, <1>5, <1>6 DEF R, C

(***************************************************************************)
(* Buffers                                                                 *)
(***************************************************************************)
Strings == Seq(Bytes)

\* The offsets of strings, and where each of them is among their bytes.
LEMMA OffsetsMade ==
  ASSUME NEW s \in Seq(Strings)
  PROVE  /\ Len(s) \in Nat /\ DOMAIN s = 1 .. Len(s) /\ FlattenSeq(s) \in Strings
         /\ Len(FlattenSeq(s)) \in Nat /\ (s = <<>> => Len(FlattenSeq(s)) = 0)
         /\ Offsets(s) \in Seq(Nat) /\ Len(Offsets(s)) = Len(s)
         /\ \A i \in 1 .. Len(s) :
              /\ s[i] \in Strings /\ Len(s[i]) \in Nat
              /\ Offsets(s)[i] = Start(s, i) /\ Start(s, i) \in Nat
              /\ Start(s, i + 1) = Start(s, i) + Len(s[i])
              /\ SubSeq(FlattenSeq(s), Start(s, i) + 1, Start(s, i + 1)) = s[i]
         /\ Start(s, 1) = 0 /\ Start(s, Len(s) + 1) = Len(FlattenSeq(s))
<1>1. Len(s) \in Nat /\ DOMAIN s = 1 .. Len(s) /\ \A i \in 1 .. Len(s) : s[i] \in Strings
  BY LenProperties, ElementOfSeq
<1>2. /\ FlattenSeq(s) \in Strings
      /\ Start(s, 1) = 0 /\ Start(s, Len(s) + 1) = Len(FlattenSeq(s))
      /\ \A i \in 1 .. Len(s) :
           /\ Start(s, i) \in Nat /\ Start(s, i + 1) = Start(s, i) + Len(s[i])
           /\ SubSeq(FlattenSeq(s), Start(s, i) + 1, Start(s, i + 1)) = s[i]
  BY FlattenCut DEF Strings
<1>3. /\ Len(FlattenSeq(s)) \in Nat
      /\ \A i \in 1 .. Len(s) : Len(s[i]) \in Nat
  BY <1>1, <1>2 DEF Strings
<1>4. s = <<>> => Len(FlattenSeq(s)) = 0
  <2> SUFFICES ASSUME s = <<>> PROVE Len(FlattenSeq(s)) = 0
    OBVIOUS
  <2>1. Len(s) + 1 = 1
    OBVIOUS
  <2>. QED BY <1>2, <2>1
<1>5. Offsets(s) = [i \in 1 .. Len(s) |-> Start(s, i)]
  BY <1>1 DEF Offsets, Start
<1>6. Offsets(s) \in Seq(Nat) /\ Len(Offsets(s)) = Len(s)
  BY <1>1, <1>2, <1>5
<1>. QED BY <1>1, <1>2, <1>3, <1>4, <1>5, <1>6

\* A buffer of strings gives each of them back.
LEMMA StringItem ==
  ASSUME NEW s \in Seq(Strings), NEW b, b.attr.type = "string",
         b.data = FlattenSeq(s), b.offsets = Offsets(s)
  PROVE  BufferLen(b) = Len(s) /\ \A i \in 1 .. Len(s) : Item(b, i) = s[i]
<1>1. /\ Len(s) \in Nat /\ Offsets(s) \in Seq(Nat) /\ Len(Offsets(s)) = Len(s)
      /\ s = <<>> => Len(FlattenSeq(s)) = 0
      /\ \A i \in 1 .. Len(s) :
           /\ Offsets(s)[i] = Start(s, i)
           /\ SubSeq(FlattenSeq(s), Start(s, i) + 1, Start(s, i + 1)) = s[i]
      /\ Start(s, Len(s) + 1) = Len(FlattenSeq(s))
  BY OffsetsMade
<1>2. BufferLen(b) = Len(s)
  <2>1. CASE Offsets(s) = <<>>
    <3>1. Len(s) = 0
      BY <1>1, <2>1
    <3>2. s = <<>>
      BY <3>1
    <3>. QED BY <1>1, <2>1, <3>1, <3>2 DEF BufferLen
  <2>2. CASE Offsets(s) # <<>>
    BY <1>1, <2>2 DEF BufferLen
  <2>. QED BY <2>1, <2>2
<1>3. ASSUME NEW i \in 1 .. Len(s) PROVE Item(b, i) = s[i]
  <2>1. i = Len(s) => Start(s, i + 1) = Len(FlattenSeq(s))
    BY <1>1
  <2>2. i # Len(s) => i + 1 \in 1 .. Len(s)
    BY <1>1
  <2>3. i # Len(s) => Offsets(s)[i + 1] = Start(s, i + 1)
    BY <1>1, <2>2
  <2>4. (IF i = Len(s) THEN Len(FlattenSeq(s)) ELSE Offsets(s)[i + 1]) = Start(s, i + 1)
    BY <2>1, <2>3
  <2>5. Item(b, i) = SubSeq(FlattenSeq(s), Offsets(s)[i] + 1,
                            IF i = Len(s) THEN Len(FlattenSeq(s)) ELSE Offsets(s)[i + 1])
    BY <1>1 DEF Item
  <2>6. Offsets(s)[i] = Start(s, i) /\ SubSeq(FlattenSeq(s), Start(s, i) + 1, Start(s, i + 1)) = s[i]
    BY <1>1
  <2>. QED BY <2>4, <2>5, <2>6
<1>. QED BY <1>2, <1>3

\* Read into as many places as there are strings, each comes back.
LEMMA StringsReturned ==
  ASSUME NEW s \in Seq(Strings)
  PROVE  VariableResults(s, Len(s)) = s /\ Makeable(s, Len(s))
<1> DEFINE N == Len(s)
           none == [i \in 1 .. N - N |-> 0]
           offsets == Offsets(s) \o none
           ranges == Append(offsets, Len(FlattenSeq(s)))
           sizes == VariableSizes(s, N)
           ends == Sums(sizes)
<1>1. /\ N \in Nat /\ DOMAIN s = 1 .. N /\ Len(FlattenSeq(s)) \in Nat
      /\ Offsets(s) \in Seq(Nat) /\ Len(Offsets(s)) = N
      /\ \A i \in 1 .. N :
           /\ s[i] \in Strings /\ Len(s[i]) \in Nat
           /\ Offsets(s)[i] = Start(s, i) /\ Start(s, i) \in Nat
           /\ Start(s, i + 1) = Start(s, i) + Len(s[i])
           /\ SubSeq(FlattenSeq(s), Start(s, i) + 1, Start(s, i + 1)) = s[i]
      /\ Start(s, 1) = 0 /\ Start(s, N + 1) = Len(FlattenSeq(s))
  BY OffsetsMade
<1>2. none = <<>>
  BY <1>1
<1>3. offsets = Offsets(s)
  <2> HIDE DEF none
  <2>. QED BY <1>1, <1>2, ConcatEmptySeq
<1>4. \A i \in 1 .. N + 1 : ranges[i] = Start(s, i)
  <2> HIDE DEF offsets
  <2>1. \A i \in 1 .. N : ranges[i] = Offsets(s)[i]
    BY <1>1, <1>3
  <2>2. ranges[N + 1] = Len(FlattenSeq(s))
    BY <1>1, <1>3
  <2> HIDE DEF ranges
  <2>3. \A i \in 1 .. N + 1 : i \in 1 .. N \/ i = N + 1
    BY <1>1
  <2>4. \A i \in 1 .. N : Offsets(s)[i] = Start(s, i)
    BY <1>1
  <2>5. Start(s, N + 1) = Len(FlattenSeq(s))
    BY <1>1
  <2>. QED BY <2>1, <2>2, <2>3, <2>4, <2>5
<1>5. sizes = [i \in DOMAIN s |-> ranges[i + 1] - ranges[i]]
  BY Zenon DEF VariableSizes
<1> HIDE DEF sizes, ranges, offsets, none
<1>6. sizes = [i \in 1 .. N |-> ranges[i + 1] - ranges[i]]
  BY <1>1, <1>5
<1>7. ASSUME NEW i \in 1 .. N PROVE sizes[i] = Len(s[i])
  <2>1. ranges[i + 1] = Start(s, i + 1) /\ ranges[i] = Start(s, i)
    BY <1>1, <1>4
  <2>2. Start(s, i + 1) = Start(s, i) + Len(s[i]) /\ Start(s, i) \in Nat /\ Len(s[i]) \in Nat
    BY <1>1
  <2>. QED BY <1>6, <2>1, <2>2
<1>8. Len(sizes) = N /\ \A i \in 1 .. N : sizes[i] \in Nat
  BY <1>1, <1>6, <1>7
<1>9. ends[0] = 0 /\ \A i \in 1 .. N : ends[i] = ends[i - 1] + sizes[i]
  <2>1. Len(sizes) \in Nat /\ \A k \in 1 .. Len(sizes) : sizes[k] \in Int
    BY <1>1, <1>8
  <2>. QED BY <1>8, <2>1, SumsMade
<1> HIDE DEF ends
<1> DEFINE T == {i \in Nat : i <= N => ends[i] = Start(s, i + 1)}
<1>10. T = Nat
  <2>1. 0 \in T
    BY <1>1, <1>9
  <2>2. ASSUME NEW i \in T PROVE i + 1 \in T
    <3> SUFFICES ASSUME i + 1 <= N PROVE ends[i + 1] = Start(s, (i + 1) + 1)
      OBVIOUS
    <3>1. i + 1 \in 1 .. N /\ (i + 1) - 1 = i /\ ends[i] = Start(s, i + 1)
      BY <1>1
    <3>2. ends[i + 1] = ends[i] + sizes[i + 1] /\ sizes[i + 1] = Len(s[i + 1])
      BY <1>7, <1>9, <3>1
    <3>3. Start(s, (i + 1) + 1) = Start(s, i + 1) + Len(s[i + 1])
      BY <1>1, <3>1
    <3>. QED BY <3>1, <3>2, <3>3
  <2> HIDE DEF T
  <2>3. T \in SUBSET Nat
    BY DEF T
  <2>. QED BY <2>1, <2>2, <2>3, Induction
<1>11. ASSUME NEW i \in 1 .. N PROVE SubSeq(FlattenSeq(s), ends[i - 1] + 1, ends[i]) = s[i]
  <2>1. i \in Nat /\ i - 1 \in Nat /\ i - 1 <= N /\ i <= N /\ (i - 1) + 1 = i
    BY <1>1
  <2>2. ends[i - 1] = Start(s, i) /\ ends[i] = Start(s, i + 1)
    BY <1>10, <2>1
  <2>3. SubSeq(FlattenSeq(s), Start(s, i) + 1, Start(s, i + 1)) = s[i]
    BY <1>1
  <2>. QED BY <2>2, <2>3
<1>12. VariableResults(s, N) = [i \in 1 .. N |-> SubSeq(FlattenSeq(s), ends[i - 1] + 1, ends[i])]
  BY <1>1 DEF VariableResults, ends, sizes
<1>13. s = [i \in 1 .. N |-> s[i]]
  BY <1>1
<1>14. VariableResults(s, N) = s
  BY <1>11, <1>12, <1>13
<1>15. Makeable(s, N)
  <2>1. \A i \in 1 .. N : VariableSizes(s, N)[i] >= 0
    BY <1>8 DEF sizes
  <2>. QED BY <1>1, <2>1 DEF Makeable
<1>. QED BY <1>14, <1>15

\* The tagged fields are fields.
LEMMA TaggedFields ==
  ASSUME NEW fields, Len(fields) \in Nat, DOMAIN fields = 1 .. Len(fields)
  PROVE  Tagged(fields) \in Seq(1 .. Len(fields))
<1> DEFINE N == Len(fields)
           s == [i \in 1 .. N |-> IF fields[i].tag = "" THEN <<>> ELSE <<i>>]
<1>1. s \in Seq(Seq(1 .. N))
  <2>1. ASSUME NEW i \in 1 .. N PROVE s[i] \in Seq(1 .. N)
    <3>1. <<>> \in Seq(1 .. N) /\ <<i>> \in Seq(1 .. N)
      OBVIOUS
    <3>2. s[i] = <<>> \/ s[i] = <<i>>
      OBVIOUS
    <3>. QED BY <3>1, <3>2
  <2>2. s = [i \in 1 .. N |-> s[i]]
    OBVIOUS
  <2> HIDE DEF s
  <2>. QED BY <2>1, <2>2
<1>2. FlattenSeq(s) \in Seq(1 .. N)
  <2> HIDE DEF s
  <2>. QED BY <1>1, FlattenCut
<1>3. Tagged(fields) = FlattenSeq(s)
  BY DEF Tagged
<1>. QED BY <1>2, <1>3

(***************************************************************************)
(* The invariant                                                           *)
(***************************************************************************)
\* The buffers of a recordset give its records back.
RecordsInv ==
  rs # <<>> =>
    /\ Len(rs) \in Nat /\ DOMAIN rs = 1 .. Len(rs) /\ 1 \in DOMAIN rs
    /\ Len(captured) \in Nat /\ DOMAIN captured = 1 .. Len(captured)
    /\ captured = <<>> <=> Len(captured) = 0
    /\ Len(captured) + DefaultExtent <= MaxDimension
    /\ \A j \in DOMAIN rs : BufferLen(rs[j]) = Len(captured) /\ rs[j].attr.type \in Supported
    /\ \A i \in DOMAIN captured :
         /\ captured[i] = [j \in DOMAIN rs |-> Item(rs[j], i)]
         /\ \A j \in DOMAIN rs : rs[j].attr.type = "string" => captured[i][j] \in Strings

\* The cells of the array are those that were meant; a sparse one is of a recordset.
ArrayInv ==
  array # NoArray =>
    /\ array = [dims |-> array.dims, extents |-> array.extents, attrs |-> array.attrs,
                sparse |-> array.sparse, cells |-> array.cells]
    /\ array.dims \in Seq(Int) /\ Len(array.dims) >= 1 /\ \A i \in DOMAIN array.dims : array.dims[i] >= 1
    /\ array.sparse \in BOOLEAN /\ (array.sparse => Len(array.dims) = 1)
    /\ \A j \in DOMAIN array.attrs : array.attrs[j].type \in Supported
    /\ array.cells = stored /\ DOMAIN stored = Domain(array.dims)
    /\ \A x \in DOMAIN stored, j \in DOMAIN array.attrs :
         array.attrs[j].type = "string" => Value(stored[x], j, "string") \in Strings

\* A result has a value for every cell of its range, of every attribute.
Complete ==
  /\ result.size \in Nat /\ result.size <= Cells(Spans(result.range, "column"))
  /\ ~array.sparse => result.size = Cells(Spans(result.range, "column"))
  /\ \A k \in DOMAIN result.data :
       result.data[k] = [n \in 1 .. result.size |-> Meant(CellAt(n, result.range, result.order))[k]]
ResultInv ==
  result # NoResult =>
    /\ array # NoArray
    /\ result.range \in Seq(Int) /\ Within(result.range, array.dims) /\ result.order \in Orders
    /\ DOMAIN shown = Domain(array.dims)
    /\ 1 \in DOMAIN result.data /\ DOMAIN result.data = DOMAIN result.attrs
    /\ OfItsArray /\ Exact => Complete

EventInv == RecordsInv /\ ArrayInv /\ ResultInv /\ row \in Nat

(***************************************************************************)
(* Reading                                                                 *)
(***************************************************************************)
\* A range within the domain is a proper one.
LEMMA WithinIsProper ==
  ASSUME NEW dims \in Seq(Int), NEW range \in Seq(Int), Within(range, dims), Len(range) = 2 * Len(dims)
  PROVE  /\ Proper(range, Len(dims))
         /\ \A i \in 1 .. Len(dims) :
              /\ range[2 * i - 1] \in Int /\ range[2 * i] \in Int /\ dims[i] \in Int
              /\ 1 <= range[2 * i - 1] /\ range[2 * i - 1] <= range[2 * i] /\ range[2 * i] <= dims[i]
<1>1. Len(dims) \in Nat /\ DOMAIN dims = 1 .. Len(dims)
  BY LenProperties
<1>2. ASSUME NEW i \in 1 .. Len(dims)
      PROVE  /\ range[2 * i - 1] \in Int /\ range[2 * i] \in Int /\ dims[i] \in Int
             /\ 1 <= range[2 * i - 1] /\ range[2 * i - 1] <= range[2 * i] /\ range[2 * i] <= dims[i]
  <2>1. 2 * i - 1 \in 1 .. Len(range) /\ 2 * i \in 1 .. Len(range)
    BY <1>1
  <2>2. range[2 * i - 1] \in Int /\ range[2 * i] \in Int /\ dims[i] \in Int
    BY <2>1, ElementOfSeq
  <2>. QED BY <1>1, <2>2 DEF Within
<1>. QED BY <1>1, <1>2 DEF Proper

\* It has a number of cells.
LEMMA SpansCount ==
  ASSUME NEW dims \in Seq(Int), NEW range \in Seq(Int), Within(range, dims), Len(range) = 2 * Len(dims)
  PROVE  Cells(Spans(range, "column")) \in Nat
<1> DEFINE d == Len(dims)
           s == Spans(range, "column")
<1>1. Proper(range, d) /\ d \in Nat
  BY WithinIsProper, LenProperties
<1>2. Len(s) = d /\ Products(s) \in [0 .. d -> Positive]
  BY <1>1, SpansMade DEF Orders
<1> HIDE DEF d, s
<1>3. d \in 0 .. d
  BY <1>1
<1>4. Products(s)[d] \in Positive
  BY <1>2, <1>3
<1>. QED BY <1>2, <1>4 DEF Cells, Positive, s

\* The cells of a domain.
LEMMA InDomain ==
  ASSUME NEW dims \in Seq(Int), NEW x, DOMAIN x = 1 .. Len(dims), x = [i \in 1 .. Len(dims) |-> x[i]],
         \A i \in 1 .. Len(dims) : x[i] \in Int /\ 1 <= x[i] /\ x[i] <= dims[i]
  PROVE  x \in Domain(dims)
<1>1. DOMAIN dims = 1 .. Len(dims) /\ \A i \in 1 .. Len(dims) : dims[i] \in Int
  BY LenProperties, ElementOfSeq
<1>2. \A i \in 1 .. Len(dims) : x[i] \in UNION {1 .. dims[k] : k \in DOMAIN dims}
  BY <1>1
<1> DEFINE indices == UNION {1 .. dims[k] : k \in DOMAIN dims}
<1> HIDE DEF indices
<1>3. x \in [DOMAIN dims -> indices]
  BY <1>1, <1>2 DEF indices
<1>. QED BY <1>1, <1>3 DEF Domain, indices

\* The cell at a place of a range within a domain.
LEMMA CellInDomain ==
  ASSUME NEW dims \in Seq(Int), NEW range \in Seq(Int), Within(range, dims), Len(range) = 2 * Len(dims),
         NEW order \in Orders, NEW n \in 1 .. Cells(Spans(range, "column"))
  PROVE  /\ CellAt(n, range, order) \in Domain(dims)
         /\ InRange(CellAt(n, range, order), range)
         /\ Place(CellAt(n, range, order), range, order) = n
         /\ Cells(Spans(range, "column")) \in Nat
<1> DEFINE x == CellAt(n, range, order)
           d == Len(dims)
<1>1. Proper(range, d)
  BY WithinIsProper
<1>2. /\ Len(range) \div 2 = d /\ Len(Spans(range, "column")) = d /\ d \in Nat
      /\ Products(Spans(range, "column")) \in [0 .. d -> Positive]
  BY <1>1, SpansMade DEF Orders
<1>3. Cells(Spans(range, "column")) = Products(Spans(range, order))[d]
  BY <1>1, <1>2, SameProduct DEF Cells, Orders
<1>4. /\ DOMAIN x = 1 .. d /\ Place(x, range, order) = n
      /\ \A i \in 1 .. d : x[i] \in Int /\ range[2 * i - 1] <= x[i] /\ x[i] <= range[2 * i]
  <2>1. n \in 1 .. Products(Spans(range, order))[d]
    BY <1>3
  <2> HIDE DEF d
  <2>2. /\ DOMAIN CellAt(n, range, order) = 1 .. d
        /\ \A i \in 1 .. d :
             /\ CellAt(n, range, order)[i] \in Int
             /\ range[2 * i - 1] <= CellAt(n, range, order)[i] /\ CellAt(n, range, order)[i] <= range[2 * i]
        /\ Place(CellAt(n, range, order), range, order) = n
    <3> DEFINE P == Products(Spans(range, order))[d]
    <3>1. n \in 1 .. P
      BY <2>1
    <3>2. \A m \in 1 .. P :
            /\ DOMAIN CellAt(m, range, order) = 1 .. d
            /\ \A i \in 1 .. d :
                 /\ CellAt(m, range, order)[i] \in Int
                 /\ range[2 * i - 1] <= CellAt(m, range, order)[i]
                 /\ CellAt(m, range, order)[i] <= range[2 * i]
            /\ Place(CellAt(m, range, order), range, order) = m
      BY <1>1, PlaceOfCell
    <3> HIDE DEF P
    <3>. QED BY <3>1, <3>2
  <2>. QED BY <2>2
<1>5. x = [i \in 1 .. d |-> x[i]]
  BY <1>2 DEF CellAt
<1> HIDE DEF x, d
<1>6. ASSUME NEW i \in 1 .. d PROVE x[i] \in Int /\ 1 <= x[i] /\ x[i] <= dims[i]
  <2>1. /\ 1 <= range[2 * i - 1] /\ range[2 * i] <= dims[i] /\ dims[i] \in Int
        /\ range[2 * i - 1] \in Int /\ range[2 * i] \in Int
    BY WithinIsProper DEF d
  <2>2. x[i] \in Int /\ range[2 * i - 1] <= x[i] /\ x[i] <= range[2 * i]
    BY <1>4
  <2> DEFINE lo == range[2 * i - 1]  hi == range[2 * i]  end == dims[i]  y == x[i]
  <2>3. 1 <= lo /\ hi <= end /\ lo \in Int /\ hi \in Int /\ end \in Int /\ y \in Int /\ lo <= y /\ y <= hi
    BY <2>1, <2>2
  <2> HIDE DEF lo, hi, end, y
  <2>4. y \in Int /\ 1 <= y /\ y <= end
    BY <2>3
  <2>. QED BY <2>4 DEF y, end
<1>7. x \in Domain(dims)
  BY <1>4, <1>5, <1>6, InDomain DEF d
<1>8. Cells(Spans(range, "column")) \in Nat
  BY <1>2 DEF Cells, Positive
<1>. QED BY <1>4, <1>7, <1>8 DEF x, InRange

\* The number of cells that are read is at most that of the range.
LEMMA CountBound ==
  ASSUME ArrayInv, array # NoArray, NEW range \in Seq(Int),
         Within(range, array.dims), Len(range) = 2 * Len(array.dims)
  PROVE  /\ Count(array, range) \in Nat /\ Cells(Spans(range, "column")) \in Nat
         /\ Count(array, range) <= Cells(Spans(range, "column"))
         /\ ~array.sparse => Count(array, range) = Cells(Spans(range, "column"))
<1> DEFINE dims == array.dims
           d == Len(dims)
           V == Cells(Spans(range, "column"))
<1>1. dims \in Seq(Int) /\ d \in Nat /\ (array.sparse => d = 1) /\ array.cells = stored /\ DOMAIN stored = Domain(dims)
  BY DEF ArrayInv
<1>2. Proper(range, d)
  BY <1>1, WithinIsProper
<1>3. /\ Len(Spans(range, "column")) = d /\ \A k \in 1 .. d : Span(range, k) \in Positive
      /\ Products(Spans(range, "column")) \in [0 .. d -> Positive] /\ Products(Spans(range, "column"))[0] = 1
      /\ \A k \in 1 .. d : Products(Spans(range, "column"))[k]
                             = Products(Spans(range, "column"))[k - 1] * Span(range, Nth(k, range, "column"))
  BY <1>2, SpansMade DEF Orders
<1>4. V \in Nat
  <2>1. V = Products(Spans(range, "column"))[d]
    BY <1>3 DEF Cells
  <2>2. d \in 0 .. d
    BY <1>1
  <2>3. Products(Spans(range, "column"))[d] \in Positive
    BY <1>3, <2>2
  <2>. QED BY <2>1, <2>3 DEF Positive
<1>5. CASE ~array.sparse
  BY <1>4, <1>5 DEF Count
<1>6. CASE array.sparse
  <2>1. d = 1
    BY <1>1, <1>6
  <2>2. V = Span(range, 1)
    <3>1. Nth(1, range, "column") = 1
      BY DEF Nth
    <3>2. Span(range, 1) \in Nat
      BY <1>3, <2>1 DEF Positive
    <3>3. Products(Spans(range, "column"))[1] = 1 * Span(range, 1)
      BY <1>3, <2>1, <3>1
    <3>4. V = Products(Spans(range, "column"))[1]
      BY <1>3, <2>1 DEF Cells
    <3>5. 1 * Span(range, 1) = Span(range, 1)
      BY <3>2
    <3>. QED BY <3>3, <3>4, <3>5
  <2> DEFINE lo == range[1]  hi == range[2]
             T == {x \in DOMAIN array.cells : InRange(x, range) /\ array.cells[x] # Blank}
             f == [x \in T |-> x[1]]
  <2>3. lo \in Int /\ hi \in Int /\ lo <= hi
    <3>1. 2 * 1 - 1 = 1 /\ 2 * 1 = 2 /\ 1 \in 1 .. d
      BY <2>1
    <3>2. \A i \in 1 .. d : range[2 * i - 1] \in Int /\ range[2 * i] \in Int /\ range[2 * i - 1] <= range[2 * i]
      BY <1>2 DEF Proper
    <3>. QED BY <3>1, <3>2
  <2>4. V = hi - lo + 1
    <3>1. 2 * 1 - 1 = 1 /\ 2 * 1 = 2
      OBVIOUS
    <3>. QED BY <2>2, <3>1 DEF Span
  <2>5. \A x \in T : x = <<x[1]>> /\ x[1] \in lo .. hi
    <3> SUFFICES ASSUME NEW x \in T PROVE x = <<x[1]>> /\ x[1] \in lo .. hi
      OBVIOUS
    <3>1. x \in Domain(dims) /\ InRange(x, range)
      BY <1>1
    <3>2. DOMAIN dims = 1 .. 1 /\ dims[1] \in Int
      <4>1. DOMAIN dims = 1 .. d
        BY <1>1, LenProperties
      <4>. QED BY <1>1, <2>1, <4>1
    <3> HIDE DEF T, dims
    <3>3. x \in [1 .. 1 -> 1 .. dims[1]]
      <4>1. x \in [1 .. 1 -> UNION {1 .. dims[k] : k \in 1 .. 1}]
        BY <3>1, <3>2 DEF Domain
      <4>2. \A i \in 1 .. 1 : i = 1
        OBVIOUS
      <4>3. x[1] \in 1 .. dims[1]
        BY <4>1, <4>2
      <4>. QED BY <4>1, <4>2, <4>3
    <3>4. x[1] \in Int /\ x = <<x[1]>>
      BY <3>2, <3>3
    <3>5. range[2 * 1 - 1] <= x[1] /\ x[1] <= range[2 * 1]
      BY <3>1, <3>3 DEF InRange
    <3>6. 2 * 1 - 1 = 1 /\ 2 * 1 = 2
      OBVIOUS
    <3>. QED BY <2>3, <3>4, <3>5, <3>6
  <2> HIDE DEF T
  <2>6. f \in Injection(T, lo .. hi)
    <3>1. f \in [T -> lo .. hi]
      BY <2>5
    <3>2. \A a, b \in T : f[a] = f[b] => a = b
      <4> SUFFICES ASSUME NEW a \in T, NEW b \in T, f[a] = f[b] PROVE a = b
        OBVIOUS
      <4>1. a[1] = b[1] /\ a = <<a[1]>> /\ b = <<b[1]>>
        BY <2>5
      <4>. QED BY <4>1
    <3>3. DOMAIN f = T
      OBVIOUS
    <3> HIDE DEF f
    <3>4. IsInjective(f)
      BY <3>2, <3>3 DEF IsInjective
    <3>. QED BY <3>1, <3>4, Zenon DEF Injection
  <2>7. IsFiniteSet(lo .. hi) /\ Cardinality(lo .. hi) = hi - lo + 1
    <3> HIDE DEF lo, hi
    <3>1. IsFiniteSet(lo .. hi) /\ Cardinality(lo .. hi) = IF lo > hi THEN 0 ELSE hi - lo + 1
      BY <2>3, FS_Interval, Zenon
    <3>2. ~(lo > hi)
      BY <2>3
    <3>. QED BY <3>1, <3>2
  <2>8. IsFiniteSet(T) /\ Cardinality(T) <= Cardinality(lo .. hi)
    <3> HIDE DEF f, lo, hi
    <3>. QED BY <2>6, <2>7, FS_Injection
  <2>9. Cardinality(T) \in Nat
    BY <2>8, FS_CardinalityType
  <2>10. Count(array, range) = Cardinality(T)
    BY <1>6 DEF Count, T
  <2>. QED BY <1>4, <1>6, <2>4, <2>7, <2>8, <2>9, <2>10
<1>. QED BY <1>5, <1>6

\* The values of the first c cells of a range.
ValuesOf(name, range, order, c) ==
  LET j == AttrResultPosition(name, array.attrs)
  IN [n \in 1 .. c |-> Value(array.cells[CellAt(n, range, order)], j, array.attrs[j].type)]
TypeOf(name) == array.attrs[AttrResultPosition(name, array.attrs)].type
HasAttr(name) == \E j \in DOMAIN array.attrs : array.attrs[j].name = name

\* The attribute of a name.
LEMMA AttrFound ==
  ASSUME NEW name, HasAttr(name)
  PROVE  /\ AttrResultPosition(name, array.attrs) \in DOMAIN array.attrs
         /\ array.attrs[AttrResultPosition(name, array.attrs)].name = name
BY DEF HasAttr, AttrResultPosition

\* They come back as they are when as many were estimated.
LEMMA ValuesReturned ==
  ASSUME ArrayInv, array # NoArray, NEW range \in Seq(Int),
         Within(range, array.dims), Len(range) = 2 * Len(array.dims), NEW order \in Orders,
         NEW name, HasAttr(name), NEW c \in Nat, c <= Cells(Spans(range, "column"))
  PROVE  LET v == ValuesOf(name, range, order, c) IN
         /\ Len(v) = c
         /\ Returned(v, TypeOf(name), c) = v
         /\ TypeOf(name) = "string" => Makeable(v, c)
<1> DEFINE v == ValuesOf(name, range, order, c)
           j == AttrResultPosition(name, array.attrs)
           e(n) == Value(array.cells[CellAt(n, range, order)], j, array.attrs[j].type)
<1>1. v = [n \in 1 .. c |-> e(n)]
  BY DEF ValuesOf
<1>2. Len(v) = c /\ DOMAIN v = 1 .. c
  <2> HIDE DEF v, e
  <2>. QED BY <1>1
<1>3. CASE TypeOf(name) # "string"
  <2> DEFINE S == {e(n) : n \in 1 .. c}
             none == [i \in 1 .. c - c |-> 0]
  <2>1. v \in Seq(S)
    <3>1. \A n \in 1 .. c : e(n) \in S
      OBVIOUS
    <3> HIDE DEF v, S, e
    <3>. QED BY <1>1, <3>1
  <2>2. none = <<>>
    OBVIOUS
  <2>3. Returned(v, TypeOf(name), c) = v \o none
    BY <1>2, <1>3 DEF Returned
  <2> HIDE DEF none, v, S
  <2>4. v \o none = v
    BY <2>1, <2>2, ConcatEmptySeq
  <2>. QED BY <1>2, <1>3, <2>3, <2>4 DEF v
<1>4. CASE TypeOf(name) = "string"
  <2>1. \A n \in 1 .. c : e(n) \in Strings
    <3> SUFFICES ASSUME NEW n \in 1 .. c PROVE e(n) \in Strings
      OBVIOUS
    <3>1. Cells(Spans(range, "column")) \in Nat
      BY CountBound
    <3>2. n \in 1 .. Cells(Spans(range, "column"))
      BY <3>1
    <3>3. array.dims \in Seq(Int)
      BY DEF ArrayInv
    <3>4. CellAt(n, range, order) \in Domain(array.dims)
      BY <3>2, <3>3, CellInDomain
    <3>5. j \in DOMAIN array.attrs /\ array.attrs[j].type = "string"
      BY <1>4, AttrFound DEF TypeOf
    <3> DEFINE x == CellAt(n, range, order)
    <3> HIDE DEF x, j
    <3>6. x \in DOMAIN stored /\ array.cells = stored
      BY <3>4 DEF ArrayInv, x
    <3>7. Value(stored[x], j, "string") \in Strings
      BY <3>5, <3>6 DEF ArrayInv
    <3>. QED BY <3>5, <3>6, <3>7 DEF x
  <2>2. v \in Seq(Strings)
    <3> HIDE DEF e, v
    <3>. QED BY <1>1, <2>1
  <2> HIDE DEF v
  <2>3. VariableResults(v, c) = v /\ Makeable(v, c)
    BY <1>2, <2>2, StringsReturned
  <2>. QED BY <1>2, <1>4, <2>3 DEF Returned, v
<1>. QED BY <1>3, <1>4

\* The range of a query has numbers.
LEMMA OpRangeType ==
  ASSUME NEW dims \in Seq(Int), NEW range \in Seq(Int), Indexable(range, dims)
  PROVE  /\ OpRange(range, dims) \in Seq(Int)
         /\ Len(OpRange(range, dims)) = IF range = <<>> THEN 2 * Len(dims) ELSE Len(range)
<1> DEFINE whole == WholeDomain(dims)
<1>1. Len(dims) \in Nat /\ 2 * Len(dims) \in Nat /\ Len(range) \in Nat /\ DOMAIN range = 1 .. Len(range)
  BY LenProperties
<1>2. \A i \in 1 .. 2 * Len(dims) : whole[i] \in Int
  <2> SUFFICES ASSUME NEW i \in 1 .. 2 * Len(dims) PROVE whole[i] \in Int
    OBVIOUS
  <2>1. whole[i] = IF i % 2 = 1 THEN 1 ELSE dims[i \div 2]
    BY DEF WholeDomain
  <2>2. i % 2 # 1 => i \div 2 \in 1 .. Len(dims)
    BY <1>1
  <2>3. i % 2 # 1 => dims[i \div 2] \in Int
    BY <2>2, ElementOfSeq
  <2>. QED BY <2>1, <2>3
<1>3. whole \in Seq(Int) /\ Len(whole) = 2 * Len(dims)
  <2>1. whole = [i \in 1 .. 2 * Len(dims) |-> whole[i]] /\ Len(whole) = 2 * Len(dims)
    BY <1>1 DEF WholeDomain
  <2> HIDE DEF whole
  <2>. QED BY <1>1, <1>2, <2>1
<1> HIDE DEF whole
<1>4. CASE range = <<>>
  BY <1>3, <1>4 DEF OpRange, whole
<1>5. CASE range # <<>>
  <2> DEFINE e(i) == IF range[i] = 0 THEN whole[i] ELSE range[i]
  <2>1. OpRange(range, dims) = [i \in 1 .. Len(range) |-> e(i)]
    BY <1>1, <1>5 DEF OpRange, whole
  <2>2. \A i \in 1 .. Len(range) : e(i) \in Int
    <3> SUFFICES ASSUME NEW i \in 1 .. Len(range) PROVE e(i) \in Int
      OBVIOUS
    <3>1. range[i] \in Int
      BY ElementOfSeq
    <3>2. range[i] = 0 => i \in 1 .. 2 * Len(dims)
      BY <1>1 DEF Indexable
    <3>. QED BY <1>2, <3>1, <3>2
  <2> HIDE DEF e
  <2>3. [i \in 1 .. Len(range) |-> e(i)] \in Seq(Int)
    BY <1>1, <2>2
  <2>4. Len([i \in 1 .. Len(range) |-> e(i)]) = Len(range)
    BY <1>1
  <2>. QED BY <1>5, <2>1, <2>3, <2>4
<1>. QED BY <1>4, <1>5

\* What a query with enough places reads.
Found(names, range, order, size) ==
  [range |-> range,
   attrs |-> [k \in DOMAIN names |-> array.attrs[AttrResultPosition(names[k], array.attrs)]],
   data |-> [k \in DOMAIN names |->
     Returned(ValuesOf(names[k], SubSeq(range, 1, 2 * Len(array.dims)), order,
                       Count(array, SubSeq(range, 1, 2 * Len(array.dims)))), TypeOf(names[k]), size)],
   order |-> order, size |-> size]
Estimates(c) == IF array.sparse THEN {c, c + 1} \ {0} ELSE {c}

\* A query leaves the array alone and reads all or nothing.
LEMMA QueryStep ==
  ASSUME ArrayInv, NEW op, NEW names, NEW range, NEW order, GetArray(op, names, range, order)
  PROVE  /\ UNCHANGED <<rs, array, captured, stored>> /\ got'.op = op
         /\ \/ /\ UNCHANGED <<result, row, shown>>
               /\ got'.status = "panic" => array # NoArray /\ ~Indexable(range, array.dims)
            \/ LET r == OpRange(range, array.dims)
                   used == SubSeq(r, 1, 2 * Len(array.dims))
                   c == Len([n \in 1 .. Count(array, used) |-> CellAt(n, used, order)])
               IN
               /\ array # NoArray /\ Indexable(range, array.dims) /\ Within(r, array.dims)
               /\ names # <<>> /\ \A k \in DOMAIN names : HasAttr(names[k])
               /\ \E size \in Estimates(c) :
                    \/ /\ UNCHANGED <<result, row, shown>>
                       /\ \E k \in DOMAIN names :
                            TypeOf(names[k]) = "string" /\ ~Makeable(ValuesOf(names[k], used, order, Count(array, used)), size)
                    \/ /\ got'.status = "nil" /\ row' = 0 /\ shown' = stored
                       /\ result' = Found(names, r, order, size)
<1> DEFINE a == array
           r == OpRange(range, a.dims)
           Attr(k) == AttrResultPosition(names[k], a.attrs)
           valid == /\ a # NoArray /\ names # <<>> /\ Within(r, a.dims)
                    /\ \A k \in DOMAIN names : \E j \in DOMAIN a.attrs : a.attrs[j].name = names[k]
           used == SubSeq(r, 1, 2 * Len(a.dims))
           places == [n \in 1 .. Count(a, used) |-> CellAt(n, used, order)]
           Type(k) == a.attrs[Attr(k)].type
           Values(k) == [n \in DOMAIN places |-> Value(a.cells[places[n]], Attr(k), Type(k))]
           Makes(size) == \A k \in DOMAIN names : Type(k) = "string" => Makeable(Values(k), size)
           Fails(status) == Answer(op, 0, status, <<>>) /\ UNCHANGED <<result, row, shown>>
           Sizes == IF a.sparse THEN {Len(places), Len(places) + 1} \ {0} ELSE {Len(places)}
           Succeeds(size) ==
             /\ Makes(size) /\ Answer(op, 0, "nil", <<>>)
             /\ result' = [range |-> r, attrs |-> [k \in DOMAIN names |-> a.attrs[Attr(k)]],
                           data |-> [k \in DOMAIN names |-> Returned(Values(k), Type(k), size)],
                           order |-> order, size |-> size]
             /\ row' = 0 /\ shown' = stored
<1>1. UNCHANGED <<rs, array, captured, stored>>
  BY DEF GetArray
<1>2. \/ a # NoArray /\ ~Indexable(range, a.dims) /\ Fails("panic")
      \/ Fails("error")
      \/ /\ a # NoArray /\ Indexable(range, a.dims) /\ valid
         /\ \E size \in Sizes : (~Makes(size) /\ Fails("panic")) \/ Succeeds(size)
  BY Zenon DEF GetArray
<1>3. \A status : Fails(status) => got'.op = op /\ got'.status = status /\ UNCHANGED <<result, row, shown>>
  BY DEF Answer
<1>4. ASSUME NEW k \in DOMAIN names
      PROVE  Values(k) = ValuesOf(names[k], used, order, Count(a, used)) /\ Type(k) = TypeOf(names[k])
  BY DEF ValuesOf, TypeOf
<1>5. ASSUME NEW size, Succeeds(size)
      PROVE  /\ got'.op = op /\ got'.status = "nil" /\ row' = 0 /\ shown' = stored
             /\ result' = Found(names, r, order, size)
  <2>1. got'.op = op /\ got'.status = "nil"
    BY <1>5 DEF Answer
  <2>2. result' = [range |-> r, attrs |-> [k \in DOMAIN names |-> a.attrs[Attr(k)]],
                   data |-> [k \in DOMAIN names |-> Returned(Values(k), Type(k), size)],
                   order |-> order, size |-> size]
        /\ row' = 0 /\ shown' = stored
    BY <1>5
  <2> DEFINE d1 == [k \in DOMAIN names |-> Returned(Values(k), Type(k), size)]
             d2 == [k \in DOMAIN names |-> Returned(ValuesOf(names[k], used, order, Count(a, used)), TypeOf(names[k]), size)]
  <2>3. d1 = d2
    <3> HIDE DEF Values, Type
    <3>. QED BY <1>4
  <2>4. Found(names, r, order, size) =
          [range |-> r, attrs |-> [k \in DOMAIN names |-> a.attrs[Attr(k)]], data |-> d2, order |-> order, size |-> size]
    BY DEF Found
  <2> HIDE DEF d2, Values, Type, r
  <2>. QED BY <2>1, <2>2, <2>3, <2>4
<1>6. Sizes = Estimates(Len(places))
  BY DEF Estimates
<1>7. CASE a # NoArray /\ ~Indexable(range, a.dims) /\ Fails("panic")
  BY <1>1, <1>3, <1>7
<1>8. CASE Fails("error")
  <2>1. got'.op = op /\ got'.status = "error" /\ UNCHANGED <<result, row, shown>>
    BY <1>3, <1>8
  <2>. QED BY <1>1, <2>1
<1>9. ASSUME a # NoArray, Indexable(range, a.dims), valid, NEW size \in Sizes, ~Makes(size) /\ Fails("panic")
      PROVE  /\ got'.op = op /\ UNCHANGED <<result, row, shown>> /\ size \in Estimates(Len(places))
             /\ \E k \in DOMAIN names :
                  TypeOf(names[k]) = "string" /\ ~Makeable(ValuesOf(names[k], used, order, Count(a, used)), size)
  <2>1. got'.op = op /\ UNCHANGED <<result, row, shown>>
    BY <1>3, <1>9
  <2>2. \E k \in DOMAIN names : Type(k) = "string" /\ ~Makeable(Values(k), size)
    <3> HIDE DEF Type, Values
    <3>. QED BY <1>9
  <2>3. \E k \in DOMAIN names :
          TypeOf(names[k]) = "string" /\ ~Makeable(ValuesOf(names[k], used, order, Count(a, used)), size)
    <3> HIDE DEF Type, Values
    <3>. QED BY <1>4, <2>2
  <2>. QED BY <1>6, <2>1, <2>3
<1>10. valid => \A k \in DOMAIN names : HasAttr(names[k])
  BY DEF HasAttr
<1>11. CASE /\ a # NoArray /\ Indexable(range, a.dims) /\ valid
            /\ \E size \in Sizes : (~Makes(size) /\ Fails("panic")) \/ Succeeds(size)
  <2>1. PICK size \in Sizes : (~Makes(size) /\ Fails("panic")) \/ Succeeds(size)
    BY <1>11
  <2>2. size \in Estimates(Len(places))
    BY <1>6
  <2>3. a # NoArray /\ Indexable(range, a.dims) /\ Within(r, a.dims) /\ names # <<>>
        /\ \A k \in DOMAIN names : HasAttr(names[k])
    BY <1>10, <1>11
  <2>4. CASE ~Makes(size) /\ Fails("panic")
    <3>1. /\ got'.op = op /\ UNCHANGED <<result, row, shown>> /\ size \in Estimates(Len(places))
          /\ \E k \in DOMAIN names :
               TypeOf(names[k]) = "string" /\ ~Makeable(ValuesOf(names[k], used, order, Count(a, used)), size)
      <4> HIDE DEF Makes, Fails, Sizes, valid
      <4>. QED BY <1>9, <1>11, <2>4
    <3> HIDE DEF r, used, places, Makes, Fails
    <3>. QED BY <1>1, <2>3, <3>1, Zenon DEF r, used, places
  <2>5. CASE Succeeds(size)
    <3>1. /\ got'.op = op /\ got'.status = "nil" /\ row' = 0 /\ shown' = stored
          /\ result' = Found(names, r, order, size)
      <4> HIDE DEF Succeeds
      <4>. QED BY <1>5, <2>5
    <3>. QED BY <1>1, <2>2, <2>3, <3>1, Zenon
  <2> HIDE DEF Makes, Fails, Succeeds, Sizes
  <2>. QED BY <2>1, <2>4, <2>5, Zenon
<1> HIDE DEF Fails, Succeeds, Makes, Sizes, valid, Values, Type
<1>. QED BY <1>2, <1>7, <1>8, <1>11, Zenon

\* A result stays what it is while it, what was meant for it and the shape of its
\* array stay.
LEMMA SameResult ==
  ASSUME ResultInv, UNCHANGED <<result, shown>>,
         result # NoResult =>
           array' # NoArray /\ array'.dims = array.dims /\ array'.attrs = array.attrs /\ array'.sparse = array.sparse
  PROVE  ResultInv'
<1>1. CASE result = NoResult
  BY <1>1 DEF ResultInv
<1>2. CASE result # NoResult
  <2>1. /\ array'.dims = array.dims /\ array'.attrs = array.attrs /\ array'.sparse = array.sparse
        /\ array' # NoArray /\ result' = result /\ shown' = shown
    BY <1>2
  <2>2. ShownCells' = ShownCells /\ (OfItsArray' <=> OfItsArray)
    BY <2>1 DEF ShownCells, OfItsArray
  <2>3. Exact' <=> Exact
    BY <2>1, <2>2 DEF Exact
  <2>4. ASSUME Complete PROVE Complete'
    BY <2>1, <2>4 DEF Complete, Meant
  <2>. QED BY <2>1, <2>2, <2>3, <2>4 DEF ResultInv
<1>. QED BY <1>1, <1>2

\* A query gives a result as it should be, and panics only where the range is not
\* one of the array, or strings of a sparse array were estimated.
LEMMA ReadKeeps ==
  ASSUME ArrayInv, ResultInv, row \in Nat, NEW op, NEW N, NEW names \in Seq(N), NEW range \in Seq(Int),
         NEW order \in Orders, GetArray(op, names, range, order)
  PROVE  /\ ResultInv' /\ row' \in Nat /\ got'.op = op /\ UNCHANGED <<rs, array, captured, stored>>
         /\ got'.status = "panic" =>
              /\ array # NoArray
              /\ \/ ~Indexable(range, array.dims)
                 \/ Len(OpRange(range, array.dims)) > 2 * Len(array.dims)
                 \/ array.sparse /\ \E j \in DOMAIN array.attrs : array.attrs[j].type = "string"
<1> DEFINE r == OpRange(range, array.dims)
           used == SubSeq(r, 1, 2 * Len(array.dims))
           count == Count(array, used)
           c == Len([n \in 1 .. count |-> CellAt(n, used, order)])
<1>1. /\ UNCHANGED <<rs, array, captured, stored>> /\ got'.op = op
      /\ \/ /\ UNCHANGED <<result, row, shown>>
            /\ got'.status = "panic" => array # NoArray /\ ~Indexable(range, array.dims)
         \/ /\ array # NoArray /\ Indexable(range, array.dims) /\ Within(r, array.dims)
            /\ names # <<>> /\ \A k \in DOMAIN names : HasAttr(names[k])
            /\ \E size \in Estimates(c) :
                 \/ /\ UNCHANGED <<result, row, shown>>
                    /\ \E k \in DOMAIN names :
                         TypeOf(names[k]) = "string" /\ ~Makeable(ValuesOf(names[k], used, order, count), size)
                 \/ /\ got'.status = "nil" /\ row' = 0 /\ shown' = stored
                    /\ result' = Found(names, r, order, size)
  BY QueryStep, Zenon
<1>2. CASE /\ UNCHANGED <<result, row, shown>>
           /\ got'.status = "panic" => array # NoArray /\ ~Indexable(range, array.dims)
  <2>1. UNCHANGED <<result, row, shown, array>>
    BY <1>1, <1>2
  <2>2. ResultInv'
    BY <2>1, SameResult DEF ResultInv
  <2>. QED BY <1>1, <1>2, <2>1, <2>2
<1>3. ASSUME array # NoArray, Indexable(range, array.dims), Within(r, array.dims),
             names # <<>>, \A k \in DOMAIN names : HasAttr(names[k]), NEW size \in Estimates(c),
             \/ /\ UNCHANGED <<result, row, shown>>
                /\ \E k \in DOMAIN names :
                     TypeOf(names[k]) = "string" /\ ~Makeable(ValuesOf(names[k], used, order, count), size)
             \/ /\ got'.status = "nil" /\ row' = 0 /\ shown' = stored
                /\ result' = Found(names, r, order, size)
      PROVE  /\ ResultInv' /\ row' \in Nat
             /\ got'.status = "panic" =>
                  \/ Len(r) > 2 * Len(array.dims)
                  \/ array.sparse /\ \E j \in DOMAIN array.attrs : array.attrs[j].type = "string"
  <2>1. /\ array.dims \in Seq(Int) /\ Len(array.dims) \in Nat
        /\ array.cells = stored /\ DOMAIN stored = Domain(array.dims)
    BY <1>3 DEF ArrayInv
  <2>2. r \in Seq(Int)
    BY <1>3, <2>1, OpRangeType
  <2> HIDE DEF r
  <2>3. ASSUME Len(r) = 2 * Len(array.dims)
        PROVE  /\ used = r /\ count \in Nat /\ c = count
               /\ Cells(Spans(r, "column")) \in Nat /\ count <= Cells(Spans(r, "column"))
               /\ ~array.sparse => count = Cells(Spans(r, "column"))
    <3>1. used = r
      BY <2>2, <2>3, SubSeqFull
    <3> HIDE DEF used
    <3>2. /\ count \in Nat /\ Cells(Spans(r, "column")) \in Nat /\ count <= Cells(Spans(r, "column"))
          /\ ~array.sparse => count = Cells(Spans(r, "column"))
      BY <1>3, <2>2, <2>3, <3>1, CountBound
    <3> HIDE DEF count
    <3>3. c = count
      BY <3>2
    <3>. QED BY <3>1, <3>2, <3>3
  <2>4. ASSUME Len(r) = 2 * Len(array.dims), NEW k \in DOMAIN names
        PROVE  /\ Len(ValuesOf(names[k], used, order, count)) = count
               /\ Returned(ValuesOf(names[k], used, order, count), TypeOf(names[k]), count)
                    = ValuesOf(names[k], used, order, count)
               /\ TypeOf(names[k]) = "string" => Makeable(ValuesOf(names[k], used, order, count), count)
    <3>1. /\ used = r /\ count \in Nat /\ count <= Cells(Spans(r, "column"))
      BY <2>3, <2>4
    <3>2. HasAttr(names[k])
      BY <1>3
    <3> HIDE DEF used, count
    <3>. QED BY <1>3, <2>2, <2>4, <3>1, <3>2, ValuesReturned
  <2> HIDE DEF used, count, c
  <2>5. CASE /\ UNCHANGED <<result, row, shown>>
             /\ \E k \in DOMAIN names :
                  TypeOf(names[k]) = "string" /\ ~Makeable(ValuesOf(names[k], used, order, count), size)
    <3>1. ResultInv' /\ row' \in Nat
      <4>1. UNCHANGED <<result, row, shown, array>>
        BY <1>1, <2>5
      <4>. QED BY <1>3, <4>1, SameResult
    <3>2. PICK k \in DOMAIN names :
            TypeOf(names[k]) = "string" /\ ~Makeable(ValuesOf(names[k], used, order, count), size)
      BY <2>5
    <3>3. \E j \in DOMAIN array.attrs : array.attrs[j].type = "string"
      BY <1>3, <3>2, AttrFound DEF TypeOf
    <3>4. array.sparse \/ Len(r) > 2 * Len(array.dims)
      <4>0. Len(r) \in Nat /\ Len(r) >= 2 * Len(array.dims)
        BY <1>3, <2>2 DEF Within
      <4> SUFFICES ASSUME ~array.sparse, Len(r) = 2 * Len(array.dims) PROVE FALSE
        BY <2>1, <4>0
      <4>1. size = c
        BY DEF Estimates
      <4>. QED BY <2>3, <2>4, <3>2, <4>1
    <3>. QED BY <3>1, <3>3, <3>4
  <2>6. CASE /\ got'.status = "nil" /\ row' = 0 /\ shown' = stored
             /\ result' = Found(names, r, order, size)
    <3>0. array' = array
      BY <1>1
    <3>1. /\ result'.range = r /\ result'.order = order /\ result'.size = size
          /\ result'.attrs = [k \in DOMAIN names |-> array.attrs[AttrResultPosition(names[k], array.attrs)]]
          /\ result'.data = [k \in DOMAIN names |-> Returned(ValuesOf(names[k], used, order, count), TypeOf(names[k]), size)]
      BY <2>6 DEF Found, used, count
    <3>2. 1 \in DOMAIN names
      <4>1. Len(names) \in Nat \ {0} /\ DOMAIN names = 1 .. Len(names)
        BY <1>3, EmptySeq, LenProperties
      <4>. QED BY <4>1
    <3>3. 1 \in DOMAIN result'.data /\ DOMAIN result'.data = DOMAIN result'.attrs /\ DOMAIN result'.data = DOMAIN names
      BY <3>1, <3>2
    <3>4. ASSUME OfItsArray', Exact'
          PROVE  Complete'
      <4>1. Len(r) = 2 * Len(array.dims)
        BY <3>0, <3>1, <3>4 DEF OfItsArray
      <4>2. /\ used = r /\ count \in Nat /\ c = count
            /\ Cells(Spans(r, "column")) \in Nat /\ count <= Cells(Spans(r, "column"))
            /\ ~array.sparse => count = Cells(Spans(r, "column"))
        BY <2>3, <4>1
      <4>3. size = count
        <5>1. CASE ~array.sparse
          BY <4>2, <5>1 DEF Estimates
        <5>2. CASE array.sparse
          <6> DEFINE S == {x \in DOMAIN array.cells : InRange(x, r) /\ array.cells[x] # Blank}
          <6>1. count = Cardinality(S)
            BY <4>2, <5>2 DEF count, Count
          <6>2. {x \in ShownCells' : shown'[x] # Blank} = S
            <7>1. ShownCells' = {x \in DOMAIN stored : InRange(x, r)}
              BY <1>3, <2>6, <3>0, <3>1 DEF ShownCells
            <7>. QED BY <2>1, <2>6, <7>1
          <6> HIDE DEF S
          <6>3. result'.size = Cardinality({x \in ShownCells' : shown'[x] # Blank})
            BY <3>0, <3>4, <5>2 DEF Exact
          <6>. QED BY <3>1, <6>1, <6>2, <6>3
        <5>. QED BY <5>1, <5>2
      <4>4. ASSUME NEW k \in DOMAIN names
            PROVE  result'.data[k] =
                     [n \in 1 .. size |-> Value(shown'[CellAt(n, r, order)],
                        AttrResultPosition(result'.attrs[k].name, array'.attrs), result'.attrs[k].type)]
        <5> DEFINE j == AttrResultPosition(names[k], array.attrs)
                   v == ValuesOf(names[k], used, order, count)
        <5>1. result'.data[k] = v
          BY <2>4, <3>1, <4>1, <4>3
        <5>2. v = [n \in 1 .. count |-> Value(array.cells[CellAt(n, r, order)], j, array.attrs[j].type)]
          BY <4>2 DEF ValuesOf
        <5>3. array.attrs[j].name = names[k]
          BY <1>3, AttrFound
        <5>4. result'.attrs[k] = array.attrs[j]
          BY <3>1
        <5>5. AttrResultPosition(result'.attrs[k].name, array'.attrs) = j
          BY <3>0, <5>3, <5>4
        <5> HIDE DEF v, j
        <5>. QED BY <2>1, <2>6, <4>3, <5>1, <5>2, <5>4, <5>5
      <4>5. /\ result'.size \in Nat /\ result'.size <= Cells(Spans(result'.range, "column"))
            /\ ~array'.sparse => result'.size = Cells(Spans(result'.range, "column"))
        BY <3>0, <3>1, <4>2, <4>3
      <4>6. ASSUME NEW k \in DOMAIN names
            PROVE  [n \in 1 .. result'.size |->
                     [i \in DOMAIN result'.attrs |->
                       Value(shown'[CellAt(n, result'.range, result'.order)],
                             AttrResultPosition(result'.attrs[i].name, array'.attrs), result'.attrs[i].type)][k]]
                   = result'.data[k]
        BY <3>1, <3>3, <4>4
      <4>. QED BY <3>3, <4>5, <4>6 DEF Complete, Meant
    <3>5. ResultInv'
      BY <1>3, <2>1, <2>2, <2>6, <3>0, <3>1, <3>3, <3>4 DEF ResultInv
    <3>. QED BY <2>6, <3>5
  <2>. QED BY <1>3, <2>5, <2>6
<1>4. CASE /\ array # NoArray /\ Indexable(range, array.dims) /\ Within(r, array.dims)
           /\ names # <<>> /\ \A k \in DOMAIN names : HasAttr(names[k])
           /\ \E size \in Estimates(c) :
                \/ /\ UNCHANGED <<result, row, shown>>
                   /\ \E k \in DOMAIN names :
                        TypeOf(names[k]) = "string" /\ ~Makeable(ValuesOf(names[k], used, order, count), size)
                \/ /\ got'.status = "nil" /\ row' = 0 /\ shown' = stored
                   /\ result' = Found(names, r, order, size)
  <2> HIDE DEF r, used, count, c
  <2>1. ResultInv' /\ row' \in Nat
        /\ (got'.status = "panic" =>
             \/ Len(r) > 2 * Len(array.dims)
             \/ array.sparse /\ \E j \in DOMAIN array.attrs : array.attrs[j].type = "string")
    BY <1>3, <1>4, Zenon
  <2>. QED BY <1>1, <1>4, <2>1, Zenon DEF r
<1> HIDE DEF r, used, count, c
<1>. QED BY <1>1, <1>2, <1>4, Zenon

\* A buffer has an item for every record: the value of its field.
LEMMA BufferMade ==
  ASSUME NEW s \in Slices, NEW i \in 1 .. Len(s.fields)
  PROVE  /\ BufferLen(Buffer(s, i)) = Len(s.rows)
         /\ \A r \in 1 .. Len(s.rows) : Item(Buffer(s, i), r) = s.rows[r][i]
         /\ Buffer(s, i).attr.type = s.fields[i].kind
<1> DEFINE b == Buffer(s, i)
           R == Len(s.rows)
           e(r) == s.rows[r][i]
           c == Column(s, i)
<1>1. /\ DOMAIN s.fields = 1 .. Len(s.fields) /\ R \in Nat /\ DOMAIN s.rows = 1 .. R
      /\ \A r \in 1 .. R : s.fields[i].kind = "string" => e(r) \in Strings
  BY SlicesAssumption DEF Strings
<1>2. c = [r \in 1 .. R |-> e(r)]
  BY <1>1 DEF Column
<1>3. b.attr.type = s.fields[i].kind
  BY DEF Buffer
<1>4. CASE s.fields[i].kind = "string"
  <2>1. b.data = FlattenSeq(c) /\ b.offsets = Offsets(c)
    BY <1>4 DEF Buffer
  <2> HIDE DEF b, c, e
  <2>2. c \in Seq(Strings) /\ Len(c) = R /\ \A r \in 1 .. R : c[r] = e(r)
    BY <1>1, <1>2, <1>4
  <2>3. BufferLen(b) = Len(c) /\ \A r \in 1 .. Len(c) : Item(b, r) = c[r]
    BY <1>3, <1>4, <2>1, <2>2, StringItem
  <2>. QED BY <1>3, <2>2, <2>3 DEF b, e
<1>5. CASE s.fields[i].kind # "string"
  <2>1. b.data = c /\ b.offsets = <<>>
    BY <1>5 DEF Buffer
  <2> HIDE DEF b, c, e
  <2>2. Len(c) = R /\ \A r \in 1 .. R : c[r] = e(r)
    BY <1>1, <1>2
  <2>3. BufferLen(b) = R
    BY <2>1, <2>2 DEF BufferLen
  <2>4. \A r \in 1 .. R : Item(b, r) = c[r]
    BY <1>3, <1>5, <2>1 DEF Item
  <2>. QED BY <1>3, <2>2, <2>3, <2>4 DEF b, e
<1>. QED BY <1>4, <1>5

\* A new recordset has the records of its slice.
LEMMA NewKeeps ==
  ASSUME EventInv, NEW s \in Slices, NewRecordset(s)
  PROVE  EventInv'
<1> DEFINE fields == Tagged(s.fields)
           N == Len(fields)
           R == Len(s.rows)
<1>1. UNCHANGED <<array, result, row, stored, shown>>
  BY DEF NewRecordset
<1>2. ArrayInv' /\ ResultInv' /\ row' \in Nat
  BY <1>1, SameResult DEF EventInv, ArrayInv, ResultInv
<1>3. /\ R \in Nat /\ DOMAIN s.rows = 1 .. R /\ R + DefaultExtent <= MaxDimension
      /\ Len(s.fields) \in Nat /\ DOMAIN s.fields = 1 .. Len(s.fields)
      /\ \A i \in 1 .. Len(s.fields), r \in 1 .. R : s.fields[i].kind = "string" => s.rows[r][i] \in Strings
  BY SlicesAssumption DEF Strings
<1>4. /\ N \in Nat /\ DOMAIN fields = 1 .. N
      /\ \A j \in 1 .. N : fields[j] \in 1 .. Len(s.fields)
  BY <1>3, TaggedFields, LenProperties, ElementOfSeq
<1>5. ASSUME rs' # <<>> PROVE RecordsInv'
  <2>1. /\ rs' = [j \in DOMAIN fields |-> Buffer(s, fields[j])]
        /\ captured' = [r \in DOMAIN s.rows |-> [j \in DOMAIN fields |-> s.rows[r][fields[j]]]]
    BY <1>5 DEF NewRecordset
  <2>0. \A j \in DOMAIN fields : s.fields[fields[j]].kind \in Supported
    BY <1>5 DEF NewRecordset
  <2> HIDE DEF fields, N, R
  <2>2. Len(rs') = N /\ DOMAIN rs' = 1 .. N /\ 1 \in DOMAIN rs'
    BY <1>4, <1>5, <2>1
  <2>3. /\ Len(captured') = R /\ DOMAIN captured' = 1 .. R
        /\ captured' = <<>> <=> R = 0
    <3>1. DOMAIN captured' = 1 .. R
      BY <1>3, <2>1
    <3>2. captured' = [r \in 1 .. R |-> captured'[r]]
      BY <2>1, <3>1
    <3>3. Len(captured') = R
      BY <1>3, <3>1, <3>2
    <3>4. captured' = <<>> => R = 0
      BY <1>3, <3>3
    <3>5. ASSUME R = 0 PROVE captured' = <<>>
      BY <3>2, <3>5
    <3>. QED BY <3>1, <3>3, <3>4, <3>5
  <2>4. \A j \in 1 .. N :
          /\ rs'[j] = Buffer(s, fields[j]) /\ fields[j] \in 1 .. Len(s.fields)
          /\ BufferLen(rs'[j]) = R /\ rs'[j].attr.type = s.fields[fields[j]].kind
          /\ rs'[j].attr.type \in Supported
          /\ \A r \in 1 .. R : Item(rs'[j], r) = s.rows[r][fields[j]]
    BY <1>4, <2>0, <2>1, BufferMade DEF R
  <2>5. ASSUME NEW r \in 1 .. R
        PROVE  /\ captured'[r] = [j \in 1 .. N |-> Item(rs'[j], r)]
               /\ \A j \in 1 .. N : rs'[j].attr.type = "string" => captured'[r][j] \in Strings
    <3>1. captured'[r] = [j \in 1 .. N |-> s.rows[r][fields[j]]]
      BY <1>3, <1>4, <2>1
    <3>2. ASSUME NEW j \in 1 .. N, rs'[j].attr.type = "string" PROVE s.rows[r][fields[j]] \in Strings
      BY <1>3, <2>4, <3>2
    <3>3. \A j \in 1 .. N : Item(rs'[j], r) = s.rows[r][fields[j]]
      BY <2>4
    <3>. QED BY <3>1, <3>2, <3>3
  <2>6. \A r \in DOMAIN captured' :
          /\ captured'[r] = [j \in DOMAIN rs' |-> Item(rs'[j], r)]
          /\ \A j \in DOMAIN rs' : rs'[j].attr.type = "string" => captured'[r][j] \in Strings
    BY <2>2, <2>3, <2>5
  <2>. QED BY <1>3, <1>4, <2>2, <2>3, <2>4, <2>6 DEF RecordsInv
<1>6. ASSUME rs' = <<>> PROVE RecordsInv'
  <2>1. ~(rs # <<>>)'
    BY <1>6
  <2>. QED BY <2>1, Zenon DEF RecordsInv
<1>. QED BY <1>2, <1>5, <1>6 DEF EventInv

\* A new array, with nothing in it.
LEMMA CreatedArray ==
  ASSUME NEW dims \in Seq(Int), Len(dims) >= 1, \A i \in DOMAIN dims : dims[i] >= 1,
         NEW extents, NEW attrs, \A j \in DOMAIN attrs : attrs[j].type \in Supported, NEW sparse \in BOOLEAN, sparse => Len(dims) = 1,
         array' = Created(dims, extents, attrs, sparse), stored' = array'.cells
  PROVE  ArrayInv' /\ array' # NoArray
<1>1. /\ array' = [dims |-> dims, extents |-> extents, attrs |-> attrs, sparse |-> sparse,
                   cells |-> [x \in Domain(dims) |-> Blank]]
      /\ stored' = [x \in Domain(dims) |-> Blank]
  BY DEF Created
<1>2. \A x \in DOMAIN stored', j \in DOMAIN array'.attrs : Value(stored'[x], j, "string") \in Strings
  BY <1>1 DEF Value, Unwritten, Strings
<1>3. array' # NoArray
  BY <1>1 DEF NoArray
<1>. QED BY <1>1, <1>2, <1>3 DEF ArrayInv

\* Before there is an array there is no result.
LEMMA NothingRead ==
  ASSUME ResultInv, array = NoArray
  PROVE  result = NoResult
BY DEF ResultInv

\* The number of the records.
LEMMA RecordCount ==
  ASSUME RecordsInv, rs # <<>>
  PROVE  BufferLen(rs[1]) = Len(captured) /\ Len(captured) \in Nat
BY DEF RecordsInv

\* An array made for a recordset.
LEMMA CreateKeeps ==
  ASSUME EventInv, NEW sparse \in BOOLEAN, CreateRecords(sparse)
  PROVE  EventInv'
<1>1. UNCHANGED <<rs, result, row, captured, shown>>
  BY DEF CreateRecords
<1>2. RecordsInv' /\ row' \in Nat
  BY <1>1 DEF EventInv, RecordsInv
<1>3. CASE UNCHANGED <<array, stored>>
  <2>1. ArrayInv' /\ ResultInv'
    BY <1>1, <1>3, SameResult DEF EventInv, ArrayInv, ResultInv
  <2>. QED BY <1>2, <2>1 DEF EventInv
<1>4. CASE ~UNCHANGED <<array, stored>>
  <2> DEFINE n == BufferLen(rs[1])
             size == IF n = 0 THEN MaxDimension ELSE n
  <2>1. /\ rs # <<>> /\ array = NoArray /\ ValidDimension(size, RecordExtent(size))
        /\ array' = Created(<<size>>, <<RecordExtent(size)>>, Attrs(rs), sparse)
        /\ stored' = array'.cells
    BY <1>4 DEF CreateRecords
  <2>2. size \in Int
    BY <2>1, RecordCount, SizesAssumption DEF EventInv
  <2>3. size >= 1
    BY <2>1, <2>2 DEF ValidDimension
  <2> HIDE DEF size
  <2> DEFINE dims == <<size>>  extents == <<RecordExtent(size)>>  attrs == Attrs(rs)
  <2>4. dims \in Seq(Int) /\ Len(dims) = 1 /\ DOMAIN dims = 1 .. 1 /\ dims[1] = size
    BY <2>2
  <2>5. ArrayInv' /\ array' # NoArray
    <3> HIDE DEF dims, extents, attrs
    <3>1. array' = Created(dims, extents, attrs, sparse) /\ stored' = array'.cells
      BY <2>1 DEF dims, extents, attrs
    <3>2. \A i \in DOMAIN dims : i = 1
      BY <2>4
    <3>3. (\A i \in DOMAIN dims : dims[i] >= 1) /\ Len(dims) >= 1
      BY <2>3, <2>4, <3>2
    <3>4. \A j \in DOMAIN attrs : attrs[j].type \in Supported
      BY <2>1 DEF attrs, Attrs, EventInv, RecordsInv
    <3>. QED BY <2>4, <3>1, <3>3, <3>4, CreatedArray
  <2>6. ResultInv'
    BY <1>1, <2>1, NothingRead, SameResult DEF EventInv
  <2>. QED BY <1>2, <2>5, <2>6 DEF EventInv
<1>. QED BY <1>3, <1>4

\* The records written are those meant, at the cells 1 to their number.
LEMMA WriteKeeps ==
  ASSUME EventInv, NEW sparse \in BOOLEAN, WriteRecords(sparse)
  PROVE  EventInv'
<1>1. UNCHANGED <<rs, result, row, captured, shown>>
  BY DEF WriteRecords
<1>2. RecordsInv' /\ row' \in Nat
  BY <1>1 DEF EventInv, RecordsInv
<1>3. CASE UNCHANGED <<array, stored>>
  <2>1. ArrayInv' /\ ResultInv'
    BY <1>1, <1>3, SameResult DEF EventInv, ArrayInv, ResultInv
  <2>. QED BY <1>2, <2>1 DEF EventInv
<1>4. CASE ~UNCHANGED <<array, stored>>
  <2> DEFINE n == BufferLen(rs[1])
             from(k) == BufferOf(array.attrs[k])
             fresh(i) == [k \in DOMAIN array.attrs |-> Item(rs[from(k)], i)]
             meant(i) == [k \in DOMAIN array.attrs |-> captured[i][from(k)]]
             cells2 == [x \in DOMAIN array.cells |-> IF x[1] <= n THEN fresh(x[1]) ELSE array.cells[x]]
             stored2 == [x \in DOMAIN stored |-> IF x[1] <= n THEN meant(x[1]) ELSE stored[x]]
  <2>1. /\ rs # <<>> /\ array # NoArray /\ array.sparse = sparse /\ ToSet(array.attrs) = ToSet(Attrs(rs))
        /\ Len(array.dims) = 1 /\ 1 <= n /\ n <= array.dims[1]
        /\ array' = [array EXCEPT !.cells = cells2] /\ stored' = stored2
    BY <1>4 DEF WriteRecords
  <2>2. n = Len(captured) /\ n \in Nat /\ DOMAIN captured = 1 .. n
    BY <2>1, RecordCount DEF EventInv, RecordsInv
  <2>3. /\ array = [dims |-> array.dims, extents |-> array.extents, attrs |-> array.attrs,
                    sparse |-> array.sparse, cells |-> array.cells]
        /\ array.dims \in Seq(Int) /\ (\A i \in DOMAIN array.dims : array.dims[i] >= 1)
        /\ \A j \in DOMAIN array.attrs : array.attrs[j].type \in Supported
        /\ array.cells = stored /\ DOMAIN stored = Domain(array.dims)
        /\ \A x \in DOMAIN stored, j \in DOMAIN array.attrs :
             array.attrs[j].type = "string" => Value(stored[x], j, "string") \in Strings
    BY <2>1 DEF EventInv, ArrayInv
  <2> HIDE DEF n
  <2>4. ASSUME NEW x \in DOMAIN stored PROVE x[1] \in Nat /\ x[1] >= 1
    <3>1. DOMAIN array.dims = 1 .. 1 /\ array.dims[1] \in Int
      <4>1. DOMAIN array.dims = 1 .. Len(array.dims)
        BY <2>3, LenProperties
      <4>2. 1 \in 1 .. Len(array.dims)
        BY <2>1
      <4>. QED BY <2>1, <2>3, <4>1, <4>2, ElementOfSeq
    <3>2. x \in [1 .. 1 -> UNION {1 .. array.dims[k] : k \in 1 .. 1}]
      BY <2>3, <3>1 DEF Domain
    <3>. QED BY <3>1, <3>2
  <2>a. ASSUME NEW k \in DOMAIN array.attrs
        PROVE  from(k) \in DOMAIN rs /\ rs[from(k)].attr = array.attrs[k]
    <3>1. array.attrs[k] \in ToSet(Attrs(rs))
      BY <2>1 DEF ToSet
    <3>2. PICK j \in DOMAIN rs : rs[j].attr = array.attrs[k]
      BY <3>1 DEF ToSet, Attrs
    <3>. QED BY <3>2 DEF BufferOf
  <2> HIDE DEF from
  <2>5. ASSUME NEW x \in DOMAIN stored, x[1] <= n
        PROVE  /\ meant(x[1]) = fresh(x[1])
               /\ \A k \in DOMAIN array.attrs : array.attrs[k].type = "string" => meant(x[1])[k] \in Strings
    <3>1. x[1] \in DOMAIN captured
      BY <2>2, <2>4, <2>5
    <3>2. /\ captured[x[1]] = [j \in DOMAIN rs |-> Item(rs[j], x[1])]
          /\ \A j \in DOMAIN rs : rs[j].attr.type = "string" => captured[x[1]][j] \in Strings
      BY <2>1, <3>1 DEF EventInv, RecordsInv
    <3>. QED BY <2>a, <3>2
  <2>6. stored2 = cells2
    <3> HIDE DEF fresh, meant
    <3>. QED BY <2>3, <2>5
  <2> HIDE DEF fresh, meant, cells2
  <2>7. /\ array' = [dims |-> array.dims, extents |-> array.extents, attrs |-> array.attrs,
                     sparse |-> array.sparse, cells |-> cells2]
    BY <2>1, <2>3
  <2>8. ASSUME NEW x \in DOMAIN stored2, NEW j \in DOMAIN array.attrs, array.attrs[j].type = "string"
        PROVE  Value(stored2[x], j, "string") \in Strings
    <3>1. CASE x[1] <= n
      <4>1. stored2[x] = meant(x[1])
        BY <3>1
      <4>2. meant(x[1])[j] \in Strings
        BY <2>5, <2>8, <3>1
      <4>. QED BY <4>1, <4>2 DEF Value, Unwritten, Strings
    <3>2. CASE ~(x[1] <= n)
      BY <2>3, <2>8, <3>2
    <3>. QED BY <3>1, <3>2
  <2>9. DOMAIN stored2 = Domain(array.dims) /\ Len(array.dims) >= 1
    BY <2>1, <2>3
  <2> HIDE DEF stored2
  <2>10. ArrayInv'
    BY <2>1, <2>3, <2>6, <2>7, <2>8, <2>9 DEF ArrayInv
  <2>11. array' # NoArray
    <3>1. array.dims # <<>>
      BY <2>1
    <3>. QED BY <2>7, <3>1 DEF NoArray
  <2>12. ResultInv'
    BY <1>1, <2>7, <2>11, SameResult DEF EventInv
  <2>. QED BY <1>2, <2>10, <2>12 DEF EventInv
<1>. QED BY <1>3, <1>4

\* A simple array that can be made, or that is there, is one with indices.
LEMMA PutKeeps ==
  ASSUME EventInv, NEW g \in Grids, PutSimpleArray(g)
  PROVE  EventInv'
<1>1. UNCHANGED <<rs, result, row, captured, shown>>
  BY DEF PutSimpleArray
<1>2. RecordsInv' /\ row' \in Nat
  BY <1>1 DEF EventInv, RecordsInv
<1>3. CASE UNCHANGED <<array, stored>>
  <2>1. ArrayInv' /\ ResultInv'
    BY <1>1, <1>3, SameResult DEF EventInv, ArrayInv, ResultInv
  <2>. QED BY <1>2, <2>1 DEF EventInv
<1>4. CASE ~UNCHANGED <<array, stored>>
  <2> DEFINE creatable == /\ g.kind \in Supported /\ g.dims # <<>>
                          /\ \A i \in DOMAIN g.dims : ValidDimension(g.dims[i], SimpleExtent(g.dims))
             extents == [i \in DOMAIN g.dims |-> SimpleExtent(g.dims)]
             a == IF array = NoArray THEN Created(g.dims, extents, SimpleAttrs(g.kind), FALSE) ELSE array
             meant == IF array = NoArray THEN a.cells ELSE stored
             Updated(cells) == [x \in DOMAIN cells |->
               IF \A i \in DOMAIN x : x[i] <= g.dims[i]
               THEN <<g.data[Place(x, SimpleRange(g.dims), g.layout)]>> ELSE cells[x]]
  <2>1. /\ array # NoArray \/ creatable
        /\ g.dims # <<>>
        /\ \/ array' = a /\ stored' = meant
           \/ /\ a.attrs = SimpleAttrs(g.kind) /\ g.kind # "string"
              /\ array' = [a EXCEPT !.cells = Updated(@)] /\ stored' = Updated(meant)
    BY <1>4, Zenon DEF PutSimpleArray
  <2>2. /\ a = [dims |-> a.dims, extents |-> a.extents, attrs |-> a.attrs, sparse |-> a.sparse, cells |-> a.cells]
        /\ a.dims \in Seq(Int) /\ Len(a.dims) >= 1 /\ (\A i \in DOMAIN a.dims : a.dims[i] >= 1)
        /\ a.sparse \in BOOLEAN /\ (a.sparse => Len(a.dims) = 1)
        /\ \A j \in DOMAIN a.attrs : a.attrs[j].type \in Supported
        /\ a.cells = meant /\ DOMAIN meant = Domain(a.dims)
        /\ \A x \in DOMAIN meant, j \in DOMAIN a.attrs :
             a.attrs[j].type = "string" => Value(meant[x], j, "string") \in Strings
    <3>1. CASE array = NoArray
      <4> HIDE DEF extents
      <4>1. creatable
        BY <2>1, <3>1
      <4>2. g.dims \in Seq(Int) /\ Len(g.dims) \in Nat /\ Len(g.dims) # 0
        <5>1. g.dims \in Seq(Int)
          BY GridsAssumption
        <5>. QED BY <2>1, <5>1
      <4>3. \A i \in DOMAIN g.dims : g.dims[i] >= 1
        <5>1. \A i \in DOMAIN g.dims : 1 <= g.dims[i]
          BY <4>1 DEF ValidDimension
        <5>2. \A i \in DOMAIN g.dims : g.dims[i] \in Int
          BY <4>2
        <5>. QED BY <5>1, <5>2
      <4>4. /\ a = [dims |-> g.dims, extents |-> extents, attrs |-> SimpleAttrs(g.kind), sparse |-> FALSE,
                    cells |-> [x \in Domain(g.dims) |-> Blank]]
            /\ meant = a.cells
        BY <3>1 DEF Created
      <4> HIDE DEF a, meant
      <4>5. \A x \in DOMAIN meant, j \in DOMAIN a.attrs : Value(meant[x], j, "string") \in Strings
        BY <4>4 DEF Value, Unwritten, Strings
      <4>6. Len(g.dims) >= 1
        BY <4>2
      <4>7. \A j \in DOMAIN a.attrs : a.attrs[j].type \in Supported
        <5>1. g.kind \in Supported
          BY <4>1
        <5>2. \A j \in DOMAIN SimpleAttrs(g.kind) : SimpleAttrs(g.kind)[j].type = g.kind
          BY DEF SimpleAttrs
        <5>. QED BY <4>4, <5>1, <5>2
      <4>. QED BY <4>2, <4>3, <4>4, <4>5, <4>6, <4>7
    <3>2. CASE array # NoArray
      BY <3>2 DEF EventInv, ArrayInv
    <3>. QED BY <3>1, <3>2
  <2> HIDE DEF a, meant, creatable
  <2>3. CASE array' = a /\ stored' = meant
    <3>1. ArrayInv'
      BY <2>2, <2>3 DEF ArrayInv
    <3>2. a # NoArray
      BY <2>2 DEF NoArray
    <3>3. ResultInv'
      <4>1. CASE array = NoArray
        BY <1>1, <4>1, NothingRead, SameResult DEF EventInv
      <4>2. CASE array # NoArray
        <5>1. a = array
          BY <4>2 DEF a
        <5>. QED BY <1>1, <2>3, <3>2, <5>1, SameResult DEF EventInv
      <4>. QED BY <4>1, <4>2
    <3>. QED BY <1>2, <3>1, <3>3 DEF EventInv
  <2>4. CASE /\ a.attrs = SimpleAttrs(g.kind) /\ g.kind # "string"
             /\ array' = [a EXCEPT !.cells = Updated(@)] /\ stored' = Updated(meant)
    <3> DEFINE cells2 == Updated(meant)
    <3>1. cells2 = Updated(a.cells) /\ DOMAIN cells2 = Domain(a.dims)
      BY <2>2
    <3> HIDE DEF cells2
    <3>2. array' = [a EXCEPT !.cells = cells2] /\ stored' = cells2
      BY <2>4, <3>1 DEF cells2
    <3>3. array' = [dims |-> a.dims, extents |-> a.extents, attrs |-> a.attrs, sparse |-> a.sparse, cells |-> cells2]
      BY <2>2, <3>2
    <3>4. \A j \in DOMAIN a.attrs : a.attrs[j].type # "string"
      BY <2>4 DEF SimpleAttrs
    <3>5. ArrayInv'
      BY <2>2, <3>1, <3>2, <3>3, <3>4 DEF ArrayInv
    <3>6. array' # NoArray
      <4>1. a.dims # <<>>
        BY <2>2
      <4>. QED BY <3>3, <4>1 DEF NoArray
    <3>7. ResultInv'
      <4>1. CASE array = NoArray
        BY <1>1, <4>1, NothingRead, SameResult DEF EventInv
      <4>2. CASE array # NoArray
        <5>1. a = array
          BY <4>2 DEF a
        <5>. QED BY <1>1, <3>3, <3>6, <5>1, SameResult DEF EventInv
      <4>. QED BY <4>1, <4>2
    <3>. QED BY <1>2, <3>5, <3>7 DEF EventInv
  <2>. QED BY <2>1, <2>3, <2>4
<1>. QED BY <1>3, <1>4

\* Records are read by the names of their attributes, over one dimension or all.
LEMMA RecordsRead ==
  ASSUME EventInv, NEW range \in Ranges \cup {<<>>}, ReadRecords(range)
  PROVE  EventInv' /\ got'.op = "read" /\ ReadPanics'
<1>0. CASE ~made
  <2>1. UNCHANGED <<rs, made, array, result, row, captured, stored, shown>> /\ got'.op = "read"
    BY <1>0 DEF ReadRecords, Answer
  <2>2. RecordsInv' /\ ArrayInv' /\ row' \in Nat
    BY <2>1 DEF EventInv, RecordsInv, ArrayInv
  <2>3. ResultInv'
    BY <2>1, SameResult DEF EventInv, ResultInv
  <2>. QED BY <1>0, <2>1, <2>2, <2>3 DEF EventInv, ReadPanics
<1> SUFFICES ASSUME made PROVE EventInv' /\ got'.op = "read" /\ ReadPanics'
  BY <1>0
<1> DEFINE names == [j \in DOMAIN rs |-> rs[j].attr.name]
           N == {rs[j].attr.name : j \in DOMAIN rs}
<1>1. names \in Seq(N)
  <2>1. DOMAIN rs = 1 .. Len(rs) /\ Len(rs) \in Nat
    <3>1. CASE rs = <<>>
      BY <3>1
    <3>2. CASE rs # <<>>
      BY <3>2 DEF EventInv, RecordsInv
    <3>. QED BY <3>1, <3>2
  <2>2. names = [j \in 1 .. Len(rs) |-> names[j]] /\ \A j \in 1 .. Len(rs) : names[j] \in N
    BY <2>1
  <2> HIDE DEF names, N
  <2>. QED BY <2>1, <2>2
<1>2. range \in Seq(Int) /\ (range = <<>> \/ Len(range) = 2)
  <2>1. CASE range = <<>>
    BY <2>1
  <2>2. CASE range \in Ranges
    BY <2>2, RangesAssumption
  <2>. QED BY <2>1, <2>2
<1>3. GetArray("read", names, range, "row") /\ "row" \in Orders
  BY DEF ReadRecords, Orders
<1> HIDE DEF names, N
<1>4. /\ ResultInv' /\ row' \in Nat /\ got'.op = "read" /\ UNCHANGED <<rs, array, captured, stored>>
      /\ got'.status = "panic" =>
           /\ array # NoArray
           /\ \/ ~Indexable(range, array.dims)
              \/ Len(OpRange(range, array.dims)) > 2 * Len(array.dims)
              \/ array.sparse /\ \E j \in DOMAIN array.attrs : array.attrs[j].type = "string"
  BY <1>1, <1>2, <1>3, ReadKeeps DEF EventInv
<1>5. EventInv'
  BY <1>4 DEF EventInv, RecordsInv, ArrayInv
<1>6. ASSUME array # NoArray
      PROVE  Indexable(range, array.dims) /\ ~(Len(OpRange(range, array.dims)) > 2 * Len(array.dims))
  <2>1. array.dims \in Seq(Int) /\ Len(array.dims) \in Nat /\ Len(array.dims) >= 1
    BY <1>6 DEF EventInv, ArrayInv
  <2>2. \A i \in DOMAIN range : i <= 2
    <3>1. DOMAIN range = 1 .. Len(range)
      BY <1>2, LenProperties
    <3>. QED BY <1>2, <3>1
  <2>3. DOMAIN range \in SUBSET Int
    BY <1>2
  <2>4. Indexable(range, array.dims)
    BY <2>1, <2>2, <2>3 DEF Indexable
  <2>5. Len(OpRange(range, array.dims)) = IF range = <<>> THEN 2 * Len(array.dims) ELSE Len(range)
    BY <1>2, <2>1, <2>4, OpRangeType
  <2> DEFINE d == Len(array.dims)  l == Len(OpRange(range, array.dims))
  <2>6. d \in Nat /\ d >= 1 /\ (l = 2 * d \/ l = 2)
    BY <1>2, <2>1, <2>5
  <2> HIDE DEF d, l
  <2>7. ~(l > 2 * d)
    BY <2>6
  <2>. QED BY <2>4, <2>7 DEF d, l
<1>7. ReadPanics'
  <2>1. got'.status = "panic" => array.sparse /\ \E j \in DOMAIN array.attrs : array.attrs[j].type = "string"
    BY <1>4, <1>6
  <2>. QED BY <1>4, <2>1 DEF ReadPanics
<1>. QED BY <1>4, <1>5, <1>7

\* Simple arrays are read over all dimensions, or over two.
LEMMA SimpleRead ==
  ASSUME EventInv, NEW x \in Ranges \cup {<<>>}, NEW y \in Ranges \cup {<<>>}, NEW order \in Orders,
         GetSimpleArray(x, y, order)
  PROVE  EventInv' /\ got'.op = "getSimple" /\ ReadPanics'
<1> DEFINE range == SimpleBounds(x, y)
<1>1. range \in Seq(Int) /\ (range = <<>> \/ Len(range) = 4)
  <2> DEFINE z == <<0, 0>>
             u == IF y = <<>> THEN z ELSE y
             v == IF x = <<>> THEN z ELSE x
  <2>1. z \in Seq(Int) /\ Len(z) = 2
    OBVIOUS
  <2> HIDE DEF z
  <2>2. u \in Seq(Int) /\ Len(u) = 2 /\ v \in Seq(Int) /\ Len(v) = 2
    BY <2>1, RangesAssumption
  <2>3. range = <<>> \/ range = u \o v
    BY DEF SimpleBounds, z
  <2> HIDE DEF u, v, range
  <2>4. u \o v \in Seq(Int) /\ Len(u \o v) = 4
    <3>1. u \o v \in Seq(Int) /\ Len(u \o v) = Len(u) + Len(v)
      BY <2>2, ConcatProperties
    <3>. QED BY <2>2, <3>1
  <2>5. <<>> \in Seq(Int)
    OBVIOUS
  <2>. QED BY <2>3, <2>4, <2>5
<1> DEFINE names == <<"a">>
<1>2. names \in Seq({"a"})
  OBVIOUS
<1>3. GetArray("getSimple", names, range, order)
  BY DEF GetSimpleArray
<1> HIDE DEF names, range
<1>4. /\ ResultInv' /\ row' \in Nat /\ got'.op = "getSimple" /\ UNCHANGED <<rs, array, captured, stored>>
      /\ got'.status = "panic" =>
           /\ array # NoArray
           /\ \/ ~Indexable(range, array.dims)
              \/ Len(OpRange(range, array.dims)) > 2 * Len(array.dims)
              \/ array.sparse /\ \E j \in DOMAIN array.attrs : array.attrs[j].type = "string"
  BY <1>1, <1>2, <1>3, ReadKeeps DEF EventInv
<1>5. EventInv'
  BY <1>4 DEF EventInv, RecordsInv, ArrayInv
<1>6. ASSUME array # NoArray, Len(array.dims) # 1
      PROVE  Indexable(range, array.dims) /\ ~(Len(OpRange(range, array.dims)) > 2 * Len(array.dims))
  <2>1. array.dims \in Seq(Int) /\ Len(array.dims) \in Nat /\ Len(array.dims) >= 1
    BY <1>6 DEF EventInv, ArrayInv
  <2>2. \A i \in DOMAIN range : i \in Int /\ i <= 4
    <3>1. DOMAIN range = 1 .. Len(range) /\ Len(range) \in Nat
      BY <1>1, LenProperties
    <3>2. Len(range) <= 4
      <4>1. Len(<<>>) = 0
        OBVIOUS
      <4>2. Len(range) = 0 \/ Len(range) = 4
        BY <1>1, <4>1
      <4>3. 0 <= 4 /\ 4 <= 4
        OBVIOUS
      <4>. QED BY <4>2, <4>3, Zenon
    <3>. QED BY <3>1, <3>2
  <2> DEFINE d == Len(array.dims)  l == Len(OpRange(range, array.dims))
  <2>3. d \in Nat /\ d >= 2
    <3>1. d \in Nat /\ d >= 1 /\ d # 1
      BY <1>6, <2>1
    <3> HIDE DEF d
    <3>. QED BY <3>1
  <2>4. Indexable(range, array.dims)
    <3> HIDE DEF d
    <3>1. \A i \in DOMAIN range : i <= 2 * d
      BY <2>2, <2>3
    <3>. QED BY <3>1 DEF Indexable, d
  <2>5. Len(OpRange(range, array.dims)) = IF range = <<>> THEN 2 * Len(array.dims) ELSE Len(range)
    BY <1>1, <2>1, <2>4, OpRangeType
  <2>6. l = 2 * d \/ l = 4
    BY <1>1, <2>5
  <2> HIDE DEF d, l
  <2>7. ~(l > 2 * d)
    BY <2>3, <2>6
  <2>. QED BY <2>4, <2>7 DEF d, l
<1>7. ReadPanics'
  <2>1. got'.status = "panic" =>
          \/ array.sparse /\ \E j \in DOMAIN array.attrs : array.attrs[j].type = "string"
          \/ Len(array.dims) = 1
    BY <1>4, <1>6
  <2>. QED BY <1>4, <2>1 DEF ReadPanics
<1>. QED BY <1>4, <1>5, <1>7

\* Scanning, rows and columns leave everything but the cursor.
LEMMA ResultsKeep ==
  ASSUME EventInv, NEW op, NEW arg, NEW works, NEW value, Results(op, arg, works, value), row' \in Nat
  PROVE  /\ EventInv' /\ result # NoResult /\ UNCHANGED <<rs, array, result, captured, stored, shown>>
         /\ got'.op = op /\ got'.arg = arg
         /\ got'.status = (IF works THEN "nil" ELSE "panic")
         /\ got'.value = (IF works THEN value ELSE <<>>)
<1>1. /\ result # NoResult /\ UNCHANGED <<rs, array, result, captured, stored, shown>>
      /\ got' = [op |-> op, arg |-> arg, status |-> IF works THEN "nil" ELSE "panic",
                 value |-> IF works THEN value ELSE <<>>]
  BY DEF Results, Answer
<1>2. array # NoArray
  BY <1>1 DEF EventInv, ResultInv
<1>3. ResultInv'
  BY <1>1, <1>2, SameResult DEF EventInv
<1>. QED BY <1>1, <1>3 DEF EventInv, RecordsInv, ArrayInv

(***************************************************************************)
(* The result                                                              *)
(***************************************************************************)
\* What a result that is whole holds: at every place the value meant for the cell.
LEMMA ResultHolds ==
  ASSUME EventInv, result # NoResult, OfItsArray, Exact
  PROVE  /\ result.size \in Nat /\ Size(result) = result.size
         /\ result.size <= Cells(Spans(result.range, "column"))
         /\ ~array.sparse => result.size = Cells(Spans(result.range, "column"))
         /\ \A k \in DOMAIN result.data :
              /\ Len(result.data[k]) = result.size
              /\ \A n \in 1 .. result.size :
                   result.data[k][n] = Meant(CellAt(n, result.range, result.order))[k]
         /\ \A n \in 1 .. result.size :
              LET x == CellAt(n, result.range, result.order) IN
              x \in ShownCells /\ Place(x, result.range, result.order) = n
         /\ 1 \in DOMAIN result.data /\ DOMAIN result.data = DOMAIN result.attrs
<1>1. /\ array # NoArray /\ array.sparse \in BOOLEAN /\ array.dims \in Seq(Int)
      /\ result.range \in Seq(Int) /\ Within(result.range, array.dims) /\ result.order \in Orders
      /\ Len(result.range) = 2 * Len(array.dims) /\ DOMAIN shown = Domain(array.dims)
      /\ 1 \in DOMAIN result.data /\ DOMAIN result.data = DOMAIN result.attrs
  BY DEF EventInv, ResultInv, ArrayInv, OfItsArray
<1> DEFINE V == Cells(Spans(result.range, "column"))
           size == result.size
           e(k, n) == Meant(CellAt(n, result.range, result.order))[k]
<1>2. /\ size \in Nat /\ size <= V /\ (~array.sparse => size = V)
      /\ \A k \in DOMAIN result.data : result.data[k] = [n \in 1 .. size |-> e(k, n)]
  BY Zenon DEF EventInv, ResultInv, Complete
<1>3. Size(result) = size
  BY <1>2 DEF Size
<1>4. ASSUME NEW k \in DOMAIN result.data
      PROVE  Len(result.data[k]) = size /\ \A n \in 1 .. size : result.data[k][n] = e(k, n)
  <2>1. result.data[k] = [n \in 1 .. size |-> e(k, n)] /\ size \in Nat
    BY <1>2
  <2> DEFINE s == result.data[k]
  <2> HIDE DEF size, e, s
  <2>2. s = [n \in 1 .. size |-> e(k, n)]
    BY <2>1 DEF s
  <2>3. Len(s) = size /\ \A n \in 1 .. size : s[n] = e(k, n)
    BY <2>1, <2>2
  <2>. QED BY <2>3 DEF s
<1>5. ASSUME NEW n \in 1 .. size
      PROVE  /\ CellAt(n, result.range, result.order) \in ShownCells
             /\ Place(CellAt(n, result.range, result.order), result.range, result.order) = n
  <2>1. V \in Nat
    BY <1>1, SpansCount
  <2>2. n \in 1 .. V
    <3> HIDE DEF V, size
    <3>. QED BY <1>2, <2>1
  <2>3. /\ CellAt(n, result.range, result.order) \in Domain(array.dims)
        /\ InRange(CellAt(n, result.range, result.order), result.range)
        /\ Place(CellAt(n, result.range, result.order), result.range, result.order) = n
    <3>1. \A m \in 1 .. V :
            /\ CellAt(m, result.range, result.order) \in Domain(array.dims)
            /\ InRange(CellAt(m, result.range, result.order), result.range)
            /\ Place(CellAt(m, result.range, result.order), result.range, result.order) = m
      BY <1>1, CellInDomain
    <3> HIDE DEF V
    <3>. QED BY <2>2, <3>1
  <2>. QED BY <1>1, <2>3 DEF ShownCells
<1> HIDE DEF V, size, e
<1>. QED BY <1>1, <1>2, <1>3, <1>4, <1>5 DEF V, size, e

\* Scanning gives the records.
LEMMA ScanKeeps ==
  ASSUME EventInv, Scan
  PROVE  EventInv' /\ got'.op = "scan" /\ ScanGivesRecords'
<1> DEFINE works == \A k \in DOMAIN result.data : row < Len(result.data[k])
           value == [k \in DOMAIN result.data |-> result.data[k][row + 1]]
<1>1. /\ Results("scan", row, works, value)
      /\ row' = IF works THEN row + 1 ELSE row
      /\ row \in Nat
  BY DEF Scan, EventInv
<1>2. row' \in Nat
  <2> HIDE DEF works
  <2>. QED BY <1>1
<1> HIDE DEF works, value
<1>3. /\ EventInv' /\ result # NoResult /\ UNCHANGED <<rs, array, result, captured, stored, shown>>
      /\ got'.op = "scan" /\ got'.arg = row
      /\ got'.status = (IF works THEN "nil" ELSE "panic")
      /\ got'.value = (IF works THEN value ELSE <<>>)
  BY <1>1, <1>2, ResultsKeep
<1>4. ASSUME OfItsArray', Exact'
      PROVE  /\ got'.status = "nil" <=> got'.arg < Size(result)
             /\ got'.status = "nil" =>
                  \E x \in ShownCells :
                    Place(x, result.range, result.order) = got'.arg + 1 /\ got'.value = Meant(x)
  <2>1. OfItsArray /\ Exact
    <3>1. OfItsArray
      BY <1>3, <1>4 DEF OfItsArray
    <3>2. ShownCells' = ShownCells
      BY <1>3 DEF ShownCells
    <3>. QED BY <1>3, <1>4, <3>1, <3>2 DEF Exact
  <2>2. /\ result.size \in Nat /\ Size(result) = result.size
        /\ \A k \in DOMAIN result.data :
             /\ Len(result.data[k]) = result.size
             /\ \A n \in 1 .. result.size :
                  result.data[k][n] = Meant(CellAt(n, result.range, result.order))[k]
        /\ \A n \in 1 .. result.size :
             /\ CellAt(n, result.range, result.order) \in ShownCells
             /\ Place(CellAt(n, result.range, result.order), result.range, result.order) = n
        /\ 1 \in DOMAIN result.data /\ DOMAIN result.data = DOMAIN result.attrs
    BY <1>3, <2>1, ResultHolds
  <2>3. works <=> row < result.size
    BY <2>2 DEF works
  <2>4. ASSUME works
        PROVE  \E x \in ShownCells : Place(x, result.range, result.order) = row + 1 /\ value = Meant(x)
    <3> DEFINE n == row + 1  x == CellAt(n, result.range, result.order)
    <3>1. n \in 1 .. result.size
      BY <1>1, <2>2, <2>3, <2>4
    <3>2. x \in ShownCells /\ Place(x, result.range, result.order) = row + 1
      BY <2>2, <3>1
    <3>3. \A k \in DOMAIN result.data : result.data[k][n] = Meant(x)[k]
      BY <2>2, <3>1
    <3>4. Meant(x) = [k \in DOMAIN result.attrs |-> Meant(x)[k]]
      BY DEF Meant
    <3>5. value = [k \in DOMAIN result.data |-> result.data[k][n]]
      BY DEF value
    <3> HIDE DEF x, n
    <3>6. value = Meant(x)
      BY <2>2, <3>3, <3>4, <3>5
    <3>. QED BY <3>2, <3>6
  <2>. QED BY <1>3, <2>2, <2>3, <2>4
<1>5. ScanGivesRecords'
  <2>1. ShownCells' = ShownCells /\ Size(result)' = Size(result)
    BY <1>3 DEF ShownCells, Size
  <2>2. \A x : Meant(x)' = Meant(x)
    BY <1>3 DEF Meant
  <2>. QED BY <1>3, <1>4, <2>1, <2>2 DEF ScanGivesRecords
<1>. QED BY <1>3, <1>5
\* A range of two dimensions.
LEMMA GridSpans ==
  ASSUME NEW r, Proper(r, 2)
  PROVE  LET a == Span(r, 1)
             b == Span(r, 2)
             P == Products(Spans(r, "row"))
         IN /\ Len(r) \div 2 = 2 /\ a \in Positive /\ b \in Positive
            /\ a \in Int /\ b \in Int /\ a >= 1 /\ b >= 1 /\ r[1] \in Int /\ r[3] \in Int
            /\ P[0] = 1 /\ P[1] = b /\ Cells(Spans(r, "column")) = b * a
            /\ Nth(1, r, "row") = 2 /\ Nth(2, r, "row") = 1
<1> DEFINE a == Span(r, 1)  b == Span(r, 2)
           P == Products(Spans(r, "row"))
<1>1. /\ Len(r) \div 2 = 2 /\ a \in Positive /\ b \in Positive
      /\ P[0] = 1 /\ P[1] = P[0] * Span(r, Nth(1, r, "row")) /\ P[2] = P[1] * Span(r, Nth(2, r, "row"))
      /\ Len(Spans(r, "column")) = 2
  <2>1. "row" \in Orders /\ "column" \in Orders /\ 1 \in 1 .. 2 /\ 2 \in 1 .. 2 /\ 1 - 1 = 0 /\ 2 - 1 = 1
    BY DEF Orders
  <2>2. /\ Len(r) \div 2 = 2
        /\ \A k \in 1 .. 2 : Span(r, k) \in Positive
        /\ P[0] = 1 /\ \A k \in 1 .. 2 : P[k] = P[k - 1] * Span(r, Nth(k, r, "row"))
    BY <2>1, SpansMade
  <2>3. Len(Spans(r, "column")) = 2
    BY <2>1, SpansMade
  <2> HIDE DEF P
  <2>. QED BY <2>1, <2>2, <2>3
<1>2. Nth(1, r, "row") = 2 /\ Nth(2, r, "row") = 1
  BY <1>1 DEF Nth
<1>3. a \in Int /\ b \in Int /\ a >= 1 /\ b >= 1 /\ r[1] \in Int /\ r[3] \in Int
  <2>1. r[2 * 1 - 1] \in Int /\ r[2 * 2 - 1] \in Int
    BY DEF Proper
  <2>2. 2 * 1 - 1 = 1 /\ 2 * 2 - 1 = 3
    OBVIOUS
  <2>. QED BY <1>1, <2>1, <2>2 DEF Positive
<1> HIDE DEF P
<1>4. P[1] = b /\ P[2] = b * a
  <2>1. P[1] = 1 * b
    BY <1>1, <1>2
  <2>2. P[1] = b
    BY <1>3, <2>1
  <2>. QED BY <1>1, <1>2, <2>2
<1>5. Cells(Spans(r, "column")) = b * a
  <2>1. Products(Spans(r, "row"))[2] = Products(Spans(r, "column"))[2]
    BY SameProduct
  <2>. QED BY <1>1, <1>4, <2>1 DEF Cells, P
<1>. QED BY <1>1, <1>2, <1>3, <1>4, <1>5 DEF P

\* A cell of it in row order: i is its row, p its column.
LEMMA GridCell ==
  ASSUME NEW r, Proper(r, 2), NEW i \in 0 .. Span(r, 1) - 1, NEW p \in 0 .. Span(r, 2) - 1
  PROVE  /\ CellAt(i * Span(r, 2) + p + 1, r, "row") = <<r[1] + i, r[3] + p>>
         /\ i * Span(r, 2) + p + 1 \in 1 .. Cells(Spans(r, "column"))
<1> DEFINE a == Span(r, 1)  b == Span(r, 2)
           P == Products(Spans(r, "row"))
           m == i * b + p + 1
<1>1. /\ Len(r) \div 2 = 2 /\ a \in Positive /\ b \in Positive
      /\ a \in Int /\ b \in Int /\ a >= 1 /\ b >= 1 /\ r[1] \in Int /\ r[3] \in Int
      /\ P[0] = 1 /\ P[1] = b /\ Cells(Spans(r, "column")) = b * a
      /\ Nth(1, r, "row") = 2 /\ Nth(2, r, "row") = 1
  BY GridSpans
<1> HIDE DEF P
<1> DEFINE q == b * i + p
<1>6. i \in Int /\ p \in 0 .. b - 1 /\ 0 <= i /\ i <= a - 1
  BY <1>1
<1> HIDE DEF a, b
<1>7. m - 1 = q /\ q \in Int /\ q >= 0 /\ q < b * a
  <2>1. b * i + p = i * b + p /\ b * i \in Int
    BY <1>1, <1>6
  <2>2. b * i >= 0
    BY <1>1, <1>6
  <2>3. b * (a - 1 - i) >= 0
    BY <1>1, <1>6
  <2>4. b * (a - 1 - i) = b * a - b - b * i
    BY <1>1, <1>6
  <2>. QED BY <1>1, <1>6, <2>1, <2>2, <2>3, <2>4
<1>8. q \div b = i /\ q % b = p
  BY <1>1, <1>6, DivisionUnique
<1>9. i % a = i
  <2>1. i \in 0 .. a - 1
    BY <1>1, <1>6
  <2>. QED BY <1>1, <2>1, SmallRemainder
<1>10. q \div 1 = q
  BY <1>7
<1>11. m \in 1 .. b * a
  BY <1>1, <1>6, <1>7
<1>12. CellAt(m, r, "row") = [k \in 1 .. 2 |-> r[2 * k - 1] + (((m - 1) \div P[Nth(k, r, "row") - 1]) % Span(r, k))]
  BY <1>1 DEF CellAt, P
<1> DEFINE x == CellAt(m, r, "row")
<1> HIDE DEF x, q, m
<1>13. x[1] = r[1] + ((q \div P[1]) % a) /\ x[2] = r[3] + ((q \div P[0]) % b) /\ DOMAIN x = 1 .. 2
       /\ x = [k \in 1 .. 2 |-> x[k]]
  <2>1. 1 \in 1 .. 2 /\ 2 \in 1 .. 2 /\ 2 * 1 - 1 = 1 /\ 2 * 2 - 1 = 3 /\ 2 - 1 = 1 /\ 1 - 1 = 0
    OBVIOUS
  <2>2. \A k \in 1 .. 2 : x[k] = r[2 * k - 1] + (((m - 1) \div P[Nth(k, r, "row") - 1]) % Span(r, k))
    BY <1>12 DEF x
  <2>3. DOMAIN x = 1 .. 2 /\ x = [k \in 1 .. 2 |-> x[k]]
    BY <1>12 DEF x
  <2>. QED BY <1>1, <1>7, <2>1, <2>2, <2>3 DEF a, b
<1>14. x[1] = r[1] + i /\ x[2] = r[3] + p
  BY <1>1, <1>8, <1>9, <1>10, <1>13
<1>15. x = <<r[1] + i, r[3] + p>>
  <2>1. \A k \in 1 .. 2 : k = 1 \/ k = 2
    OBVIOUS
  <2> DEFINE y == <<r[1] + i, r[3] + p>>
  <2>2. y = [k \in 1 .. 2 |-> y[k]] /\ y[1] = r[1] + i /\ y[2] = r[3] + p
    OBVIOUS
  <2> HIDE DEF y
  <2>3. \A k \in 1 .. 2 : x[k] = y[k]
    BY <1>14, <2>1, <2>2
  <2>4. x = y
    BY <1>13, <2>2, <2>3
  <2>. QED BY <2>4 DEF y
<1>. QED BY <1>1, <1>11, <1>15 DEF x, m, b

\* A result of two dimensions in row order, row by row.
LEMMA GridHolds ==
  ASSUME EventInv, result # NoResult, OfItsArray, result.order = "row", Len(array.dims) = 2
  PROVE  LET r == result.range
             a == Span(r, 1)
             b == Span(r, 2)
         IN /\ Len(r) = 4 /\ a \in Positive /\ b \in Positive /\ Len(Flat) = b * a /\ (\E S : Flat \in Seq(S))
            /\ r[1] \in Int /\ r[2] \in Int /\ r[3] \in Int /\ r[4] \in Int
            /\ a = r[2] - r[1] + 1 /\ b = r[4] - r[3] + 1
            /\ \A i \in 0 .. a - 1, p \in 0 .. b - 1 :
                 /\ <<r[1] + i, r[3] + p>> \in ShownCells
                 /\ Flat[i * b + p + 1] = Meant(<<r[1] + i, r[3] + p>>)[1]
<1> DEFINE r == result.range
           a == Span(r, 1)
           b == Span(r, 2)
<1>1. /\ array # NoArray /\ array.dims \in Seq(Int) /\ r \in Seq(Int) /\ Within(r, array.dims)
      /\ Len(r) = 2 * Len(array.dims) /\ ~array.sparse
  BY DEF EventInv, ResultInv, ArrayInv, OfItsArray
<1>2. Proper(r, 2) /\ Len(r) = 4
  <2>1. Proper(r, Len(array.dims))
    BY <1>1, WithinIsProper
  <2>. QED BY <1>1, <2>1
<1>3. Exact
  BY <1>1 DEF Exact
<1>4. /\ Len(Flat) = Cells(Spans(r, "column"))
      /\ \A n \in 1 .. Cells(Spans(r, "column")) :
           Flat[n] = Meant(CellAt(n, r, "row"))[1] /\ CellAt(n, r, "row") \in ShownCells
  <2>1. /\ result.size = Cells(Spans(r, "column"))
        /\ \A k \in DOMAIN result.data :
             /\ Len(result.data[k]) = result.size
             /\ \A n \in 1 .. result.size :
                  result.data[k][n] = Meant(CellAt(n, r, result.order))[k]
        /\ \A n \in 1 .. result.size : CellAt(n, r, result.order) \in ShownCells
        /\ 1 \in DOMAIN result.data
    BY <1>1, <1>3, ResultHolds
  <2> HIDE DEF r
  <2>. QED BY <2>1 DEF Flat
<1>0. \E S : Flat \in Seq(S)
  <2> DEFINE e(n) == Meant(CellAt(n, result.range, result.order))[1]
             S == {e(n) : n \in 1 .. result.size}
  <2>1. Flat = [n \in 1 .. result.size |-> e(n)] /\ result.size \in Nat
    BY <1>1, <1>3, Zenon DEF EventInv, ResultInv, Complete, Flat
  <2>2. \A n \in 1 .. result.size : e(n) \in S
    OBVIOUS
  <2> HIDE DEF e, S
  <2>3. Flat \in Seq(S)
    BY <2>1, <2>2
  <2>. QED BY <2>3
<1>5. ASSUME NEW i \in 0 .. a - 1, NEW p \in 0 .. b - 1
      PROVE  /\ <<r[1] + i, r[3] + p>> \in ShownCells
             /\ Flat[i * b + p + 1] = Meant(<<r[1] + i, r[3] + p>>)[1]
  <2>1. /\ CellAt(i * b + p + 1, r, "row") = <<r[1] + i, r[3] + p>>
        /\ i * b + p + 1 \in 1 .. Cells(Spans(r, "column"))
    <3> HIDE DEF r
    <3>. QED BY <1>2, GridCell
  <2> DEFINE m == i * b + p + 1
  <2> HIDE DEF m, r
  <2>2. CellAt(m, r, "row") = <<r[1] + i, r[3] + p>> /\ m \in 1 .. Cells(Spans(r, "column"))
    BY <2>1 DEF m
  <2>. QED BY <1>4, <2>2 DEF m
<1>6. /\ a \in Positive /\ b \in Positive
      /\ r[1] \in Int /\ r[2] \in Int /\ r[3] \in Int /\ r[4] \in Int
      /\ a = r[2] - r[1] + 1 /\ b = r[4] - r[3] + 1
  <2> HIDE DEF r
  <2>1. 2 * 1 - 1 = 1 /\ 2 * 1 = 2 /\ 2 * 2 - 1 = 3 /\ 2 * 2 = 4 /\ 1 \in 1 .. 2 /\ 2 \in 1 .. 2
    OBVIOUS
  <2>2. /\ \A k \in 1 .. 2 : r[2 * k - 1] \in Int /\ r[2 * k] \in Int /\ r[2 * k - 1] <= r[2 * k]
    BY <1>2 DEF Proper
  <2>3. r[1] \in Int /\ r[2] \in Int /\ r[3] \in Int /\ r[4] \in Int /\ r[1] <= r[2] /\ r[3] <= r[4]
    BY <2>1, <2>2
  <2>4. a = r[2] - r[1] + 1 /\ b = r[4] - r[3] + 1
    BY <2>1 DEF Span
  <2>. QED BY <2>3, <2>4 DEF Positive
<1>7. Len(Flat) = b * a
  <2> HIDE DEF r, a, b
  <2>1. a >= 1 /\ b >= 1 /\ a \in Int /\ b \in Int
    BY <1>6 DEF Positive
  <2>2. 0 \in 0 .. a - 1 /\ 0 \in 0 .. b - 1
    BY <2>1
  <2>3. Cells(Spans(r, "column")) = b * a
    BY <1>2, GridSpans DEF a, b
  <2>. QED BY <1>4, <2>3
<1>. QED BY <1>0, <1>2, <1>5, <1>6, <1>7

\* A row lies within so many rows.
LEMMA RowInside ==
  ASSUME NEW i \in Int, NEW a \in Positive, NEW b \in Positive
  PROVE  i \in 0 .. a - 1 <=> 0 <= i * b /\ i * b + b <= b * a
<1>0. a \in Int /\ b \in Int /\ a >= 1 /\ b >= 1
  BY DEF Positive
<1>1. ASSUME i >= 0 PROVE i * b >= 0
  BY <1>0, <1>1
<1>2. ASSUME i <= -1 PROVE i * b < 0
  <2>1. (-1 - i) * b >= 0
    BY <1>0, <1>2
  <2>2. (-1 - i) * b = -b - i * b
    BY <1>0
  <2>. QED BY <1>0, <2>1, <2>2
<1>3. ASSUME i <= a - 1 PROVE i * b + b <= b * a
  <2>1. (a - 1 - i) * b >= 0
    BY <1>0, <1>3
  <2>2. (a - 1 - i) * b = b * a - b - i * b
    BY <1>0
  <2>. QED BY <1>0, <2>1, <2>2
<1>4. ASSUME i >= a PROVE i * b + b > b * a
  <2>1. (i - a) * b >= 0
    BY <1>0, <1>4
  <2>2. (i - a) * b = i * b - b * a
    BY <1>0
  <2>. QED BY <1>0, <2>1, <2>2
<1>. QED BY <1>0, <1>1, <1>2, <1>3, <1>4

\* The cells a row or a column has.
LineOf(op, arg, n) ==
  IF op = "row" THEN <<result.range[1] + arg, result.range[3] + n - 1>>
                ELSE <<result.range[1] + n - 1, result.range[3] + arg>>
LengthOf(op) == IF op = "row" THEN Span(result.range, 2) ELSE Span(result.range, 1)

\* An answer that has the values meant for its cells is one as it should be.
LEMMA LineAnswered ==
  ASSUME UNCHANGED <<array, result, shown>>, NEW op, NEW arg, got'.op = op, got'.arg = arg,
         OfItsArray /\ result.order = "row" /\ Len(array.dims) <= 2 =>
           IF Len(array.dims) = 2 /\ LineOf(op, arg, 1) \in ShownCells
           THEN got'.status = "nil" /\ got'.value = [n \in 1 .. LengthOf(op) |-> Meant(LineOf(op, arg, n))[1]]
           ELSE got'.status = "panic"
  PROVE  RowsAndColumns'
<1> DEFINE r2 == result'.range
           Line2(n) == IF got'.op = "row" THEN <<r2[1] + got'.arg, r2[3] + n - 1>>
                                         ELSE <<r2[1] + n - 1, r2[3] + got'.arg>>
           length2 == IF got'.op = "row" THEN Span(r2, 2) ELSE Span(r2, 1)
           M2(x) == [k \in DOMAIN result'.attrs |->
             Value(shown'[x], AttrResultPosition(result'.attrs[k].name, array'.attrs), result'.attrs[k].type)]
           Line(n) == LineOf(op, arg, n)
<1>1. ShownCells' = ShownCells /\ (OfItsArray' <=> OfItsArray) /\ array' = array /\ result' = result
  BY DEF ShownCells, OfItsArray
<1> SUFFICES ASSUME OfItsArray', result'.order = "row", Len(array'.dims) <= 2
             PROVE  IF Len(array'.dims) = 2 /\ Line2(1) \in ShownCells'
                    THEN got'.status = "nil" /\ got'.value = [n \in 1 .. length2 |-> M2(Line2(n))[1]]
                    ELSE got'.status = "panic"
  BY Zenon DEF RowsAndColumns, Meant
<1>2. (\A n : Line2(n) = Line(n)) /\ length2 = LengthOf(op)
  BY DEF LineOf, LengthOf
<1>3. \A x : M2(x) = Meant(x)
  BY DEF Meant
<1> HIDE DEF Line2, Line, length2, M2
<1>4. IF Len(array.dims) = 2 /\ Line(1) \in ShownCells
      THEN got'.status = "nil" /\ got'.value = [n \in 1 .. LengthOf(op) |-> Meant(Line(n))[1]]
      ELSE got'.status = "panic"
  BY <1>1, Zenon DEF Line
<1>. QED BY <1>1, <1>2, <1>3, <1>4

\* Rows are those of the range.
LEMMA RowKeeps ==
  ASSUME EventInv, NEW i \in Indices, GetRow(i)
  PROVE  EventInv' /\ got'.op = "row" /\ RowsAndColumns'
<1> DEFINE r == result.range
           b == Span(r, 2)
           start == i * b
           end == start + b
           works == Len(r) >= 4 /\ 0 <= start /\ end <= Len(Flat)
           value == SubSeq(Flat, start + 1, end)
           Line(n) == <<r[1] + i, r[3] + n - 1>>
<1>1. Results("row", i, works, value) /\ row' = row /\ row \in Nat /\ i \in Int
  BY RangesAssumption DEF GetRow, EventInv
<1> HIDE DEF works, value
<1>2. /\ EventInv' /\ result # NoResult /\ UNCHANGED <<rs, array, result, captured, stored, shown>>
      /\ got'.op = "row" /\ got'.arg = i
      /\ got'.status = (IF works THEN "nil" ELSE "panic")
      /\ got'.value = (IF works THEN value ELSE <<>>)
  BY <1>1, ResultsKeep
<1>3. /\ Len(array.dims) \in Nat /\ Len(array.dims) >= 1
      /\ Within(r, array.dims) /\ DOMAIN shown = Domain(array.dims)
  BY <1>2 DEF EventInv, ResultInv, ArrayInv
<1>4. ASSUME OfItsArray, result.order = "row", Len(array.dims) = 2
      PROVE  IF Line(1) \in ShownCells THEN works /\ value = [n \in 1 .. b |-> Meant(Line(n))[1]] ELSE ~works
  <2> DEFINE a == Span(r, 1)
  <2>1. /\ Len(r) = 4 /\ a \in Positive /\ b \in Positive /\ Len(Flat) = b * a /\ (\E S : Flat \in Seq(S))
        /\ r[1] \in Int /\ r[2] \in Int /\ r[3] \in Int /\ r[4] \in Int
        /\ a = r[2] - r[1] + 1
        /\ \A k \in 0 .. a - 1, p \in 0 .. b - 1 :
             /\ <<r[1] + k, r[3] + p>> \in ShownCells
             /\ Flat[k * b + p + 1] = Meant(<<r[1] + k, r[3] + p>>)[1]
    BY <1>2, <1>4, GridHolds
  <2> HIDE DEF r, a, b
  <2>0. a \in Int /\ b \in Int /\ a >= 1 /\ b >= 1
    BY <2>1 DEF Positive
  <2>2. Line(1) = <<r[1] + i, r[3] + 0>>
    BY <1>1, <2>0, <2>1
  <2>3. Line(1) \in ShownCells => i \in 0 .. a - 1
    <3> SUFFICES ASSUME Line(1) \in ShownCells PROVE i \in 0 .. a - 1
      OBVIOUS
    <3>1. InRange(Line(1), r)
      BY DEF ShownCells, r
    <3>2. r[2 * 1 - 1] <= Line(1)[1] /\ Line(1)[1] <= r[2 * 1]
      BY <3>1 DEF InRange
    <3>3. 2 * 1 - 1 = 1 /\ 2 * 1 = 2 /\ Line(1)[1] = r[1] + i
      OBVIOUS
    <3>4. r[1] <= r[1] + i /\ r[1] + i <= r[2]
      BY <3>2, <3>3
    <3>5. i \in Int /\ r[1] \in Int /\ r[2] \in Int /\ a = r[2] - r[1] + 1
      BY <1>1, <2>1
    <3> HIDE DEF start, end, Line
    <3>. QED BY <3>4, <3>5
  <2>4. i \in 0 .. a - 1 => Line(1) \in ShownCells
    <3>1. 0 \in 0 .. b - 1
      BY <2>0
    <3>. QED BY <2>1, <2>2, <3>1
  <2>5. works <=> 0 <= i * b /\ i * b + b <= b * a
    BY <2>1 DEF works
  <2>6. i \in 0 .. a - 1 <=> 0 <= i * b /\ i * b + b <= b * a
    BY <1>1, <2>1, RowInside
  <2>7. ASSUME i \in 0 .. a - 1 PROVE value = [n \in 1 .. b |-> Meant(Line(n))[1]]
    <3> DEFINE e(n) == Meant(Line(n))[1]
    <3>1. ASSUME NEW n \in 1 .. b PROVE Flat[(start + 1) + n - 1] = e(n)
      <4>1. n - 1 \in 0 .. b - 1 /\ i * b + (n - 1) + 1 = (start + 1) + n - 1 /\ r[3] + n - 1 = r[3] + (n - 1)
        BY <1>1, <2>0, <2>1
      <4>2. Flat[i * b + (n - 1) + 1] = Meant(<<r[1] + i, r[3] + (n - 1)>>)[1]
        BY <2>1, <2>7, <4>1
      <4> HIDE DEF Flat
      <4>3. Flat[(start + 1) + n - 1] = Meant(<<r[1] + i, r[3] + n - 1>>)[1]
        BY <4>1, <4>2
      <4>. QED BY <4>3
    <3>2. value = [n \in 1 .. b |-> Flat[(start + 1) + n - 1]]
      <4>1. start \in Int /\ end \in Int /\ end - (start + 1) + 1 = b /\ 0 <= start /\ end <= b * a
        BY <1>1, <2>0, <2>6, <2>7
      <4>2. PICK S : Flat \in Seq(S)
        BY <2>1
      <4>3. Len(Flat) = b * a
        BY <2>1
      <4> HIDE DEF start, end, Flat
      <4>. QED BY <2>0, <4>1, <4>2, <4>3 DEF value
    <3> HIDE DEF e, start
    <3>3. value = [n \in 1 .. b |-> e(n)]
      BY <3>1, <3>2
    <3>. QED BY <3>3 DEF e
  <2>. QED BY <2>3, <2>4, <2>5, <2>6, <2>7
<1>5. ASSUME OfItsArray, Len(array.dims) = 1 PROVE ~works
  BY <1>5 DEF OfItsArray, works
<1>6. ASSUME OfItsArray, result.order = "row", Len(array.dims) <= 2
      PROVE  IF Len(array.dims) = 2 /\ Line(1) \in ShownCells
             THEN got'.status = "nil" /\ got'.value = [n \in 1 .. b |-> Meant(Line(n))[1]]
             ELSE got'.status = "panic"
  <2> DEFINE c == Len(array.dims)
  <2>1. c = 1 \/ c = 2
    <3>1. c \in Nat /\ c >= 1 /\ c <= 2
      BY <1>3, <1>6
    <3> HIDE DEF c
    <3>. QED BY <3>1
  <2>2. CASE c = 1
    <3>1. ~works
      BY <1>5, <1>6, <2>2
    <3>. QED BY <1>2, <2>2, <3>1
  <2>3. CASE c = 2
    <3> HIDE DEF Line, r, b
    <3>1. IF Line(1) \in ShownCells THEN works /\ value = [n \in 1 .. b |-> Meant(Line(n))[1]] ELSE ~works
      BY <1>4, <1>6, <2>3
    <3>. QED BY <1>2, <2>3, <3>1
  <2>. QED BY <2>1, <2>2, <2>3
<1>7. RowsAndColumns'
  <2>1. (\A n : Line(n) = LineOf("row", i, n)) /\ b = LengthOf("row")
    BY DEF LineOf, LengthOf
  <2> HIDE DEF Line, b
  <2>2. OfItsArray /\ result.order = "row" /\ Len(array.dims) <= 2 =>
          IF Len(array.dims) = 2 /\ LineOf("row", i, 1) \in ShownCells
          THEN got'.status = "nil" /\ got'.value = [n \in 1 .. LengthOf("row") |-> Meant(LineOf("row", i, n))[1]]
          ELSE got'.status = "panic"
    BY <1>6, <2>1
  <2>. QED BY <1>2, <2>2, LineAnswered
<1>. QED BY <1>2, <1>7

\* Columns are those of the range.
LEMMA ColumnKeeps ==
  ASSUME EventInv, NEW j \in Indices, GetColumn(j)
  PROVE  EventInv' /\ got'.op = "column" /\ RowsAndColumns'
<1> DEFINE r == result.range
           a == Span(r, 1)
           At(i) == i * Span(r, 2) + j
           works == Len(r) >= 4 /\ \A i \in 0 .. a - 1 : 0 <= At(i) /\ At(i) < Len(Flat)
           value == [i \in 1 .. a |-> Flat[At(i - 1) + 1]]
           Line(n) == <<r[1] + n - 1, r[3] + j>>
<1>1. Results("column", j, works, value) /\ row' = row /\ row \in Nat /\ j \in Int
  BY RangesAssumption DEF GetColumn, EventInv
<1> HIDE DEF works, value
<1>2. /\ EventInv' /\ result # NoResult /\ UNCHANGED <<rs, array, result, captured, stored, shown>>
      /\ got'.op = "column" /\ got'.arg = j
      /\ got'.status = (IF works THEN "nil" ELSE "panic")
      /\ got'.value = (IF works THEN value ELSE <<>>)
  BY <1>1, ResultsKeep
<1>3. /\ Len(array.dims) \in Nat /\ Len(array.dims) >= 1
      /\ Within(r, array.dims) /\ DOMAIN shown = Domain(array.dims)
  BY <1>2 DEF EventInv, ResultInv, ArrayInv
<1>4. ASSUME OfItsArray, result.order = "row", Len(array.dims) = 2
      PROVE  IF Line(1) \in ShownCells THEN works /\ value = [n \in 1 .. a |-> Meant(Line(n))[1]] ELSE ~works
  <2> DEFINE b == Span(r, 2)
  <2>1. /\ Len(r) = 4 /\ a \in Positive /\ b \in Positive /\ Len(Flat) = b * a
        /\ r[1] \in Int /\ r[2] \in Int /\ r[3] \in Int /\ r[4] \in Int
        /\ b = r[4] - r[3] + 1
        /\ \A k \in 0 .. a - 1, p \in 0 .. b - 1 :
             /\ <<r[1] + k, r[3] + p>> \in ShownCells
             /\ Flat[k * b + p + 1] = Meant(<<r[1] + k, r[3] + p>>)[1]
    BY <1>2, <1>4, GridHolds
  <2>2. works <=> \A i \in 0 .. a - 1 : 0 <= i * b + j /\ i * b + j < b * a
    BY <2>1 DEF works
  <2>3. value = [i \in 1 .. a |-> Flat[(i - 1) * b + j + 1]]
    BY DEF value
  <2> HIDE DEF r, a, b
  <2>0. a \in Int /\ b \in Int /\ a >= 1 /\ b >= 1
    BY <2>1 DEF Positive
  <2>4. Line(1) \in ShownCells <=> j \in 0 .. b - 1
    <3>1. Line(1) = <<r[1] + 0, r[3] + j>>
      BY <1>1, <2>1
    <3>2. ASSUME j \in 0 .. b - 1 PROVE Line(1) \in ShownCells
      <4>1. 0 \in 0 .. a - 1
        BY <2>0
      <4>. QED BY <2>1, <3>1, <3>2, <4>1
    <3>3. ASSUME Line(1) \in ShownCells PROVE j \in 0 .. b - 1
      <4>1. InRange(Line(1), r)
        BY <3>3 DEF ShownCells, r
      <4>2. r[2 * 2 - 1] <= Line(1)[2] /\ Line(1)[2] <= r[2 * 2]
        BY <4>1 DEF InRange
      <4>3. 2 * 2 - 1 = 3 /\ 2 * 2 = 4 /\ Line(1)[2] = r[3] + j
        OBVIOUS
      <4>. QED BY <1>1, <2>0, <2>1, <4>2, <4>3
    <3>. QED BY <3>2, <3>3
  <2>5. works <=> j \in 0 .. b - 1
    <3>1. ASSUME j \in 0 .. b - 1, NEW i \in 0 .. a - 1 PROVE 0 <= i * b + j /\ i * b + j < b * a
      <4>1. i \in Int /\ j \in Int /\ 0 <= j /\ j <= b - 1
        BY <2>0, <3>1
      <4>2. 0 <= i * b /\ i * b + b <= b * a
        BY <2>1, <3>1, <4>1, RowInside
      <4> DEFINE ib == i * b  ba == b * a
      <4>3. ib \in Int /\ ba \in Int
        BY <2>0, <4>1
      <4> HIDE DEF ib, ba
      <4>4. 0 <= ib /\ ib + b <= ba
        BY <4>2 DEF ib, ba
      <4>5. 0 <= ib + j /\ ib + j < ba
        BY <2>0, <4>1, <4>3, <4>4
      <4>. QED BY <4>5 DEF ib, ba
    <3>2. ASSUME \A i \in 0 .. a - 1 : 0 <= i * b + j /\ i * b + j < b * a PROVE j \in 0 .. b - 1
      <4>1. 0 \in 0 .. a - 1 /\ a - 1 \in 0 .. a - 1
        BY <2>0
      <4>2. 0 <= 0 * b + j /\ (a - 1) * b + j < b * a
        BY <3>2, <4>1
      <4>3. 0 * b = 0 /\ (a - 1) * b = b * a - b
        BY <2>0
      <4>. QED BY <1>1, <2>0, <4>2, <4>3
    <3>. QED BY <2>2, <3>1, <3>2
  <2>6. ASSUME j \in 0 .. b - 1 PROVE value = [n \in 1 .. a |-> Meant(Line(n))[1]]
    <3> DEFINE e(n) == Meant(Line(n))[1]
    <3>1. ASSUME NEW n \in 1 .. a PROVE Flat[(n - 1) * b + j + 1] = e(n)
      <4>1. n - 1 \in 0 .. a - 1 /\ r[1] + n - 1 = r[1] + (n - 1)
        BY <2>0, <2>1
      <4>2. Flat[(n - 1) * b + j + 1] = Meant(<<r[1] + (n - 1), r[3] + j>>)[1]
        BY <2>1, <2>6, <4>1
      <4>. QED BY <4>1, <4>2
    <3> HIDE DEF e
    <3>2. value = [n \in 1 .. a |-> e(n)]
      BY <2>3, <3>1
    <3>. QED BY <3>2 DEF e
  <2>. QED BY <2>4, <2>5, <2>6
<1>5. ASSUME OfItsArray, Len(array.dims) = 1 PROVE ~works
  BY <1>5 DEF OfItsArray, works
<1>6. ASSUME OfItsArray, result.order = "row", Len(array.dims) <= 2
      PROVE  IF Len(array.dims) = 2 /\ Line(1) \in ShownCells
             THEN got'.status = "nil" /\ got'.value = [n \in 1 .. a |-> Meant(Line(n))[1]]
             ELSE got'.status = "panic"
  <2> DEFINE c == Len(array.dims)
  <2>1. c = 1 \/ c = 2
    <3>1. c \in Nat /\ c >= 1 /\ c <= 2
      BY <1>3, <1>6
    <3> HIDE DEF c
    <3>. QED BY <3>1
  <2>2. CASE c = 1
    <3>1. ~works
      BY <1>5, <1>6, <2>2
    <3>. QED BY <1>2, <2>2, <3>1
  <2>3. CASE c = 2
    <3> HIDE DEF Line, r, a
    <3>1. IF Line(1) \in ShownCells THEN works /\ value = [n \in 1 .. a |-> Meant(Line(n))[1]] ELSE ~works
      BY <1>4, <1>6, <2>3
    <3>. QED BY <1>2, <2>3, <3>1
  <2>. QED BY <2>1, <2>2, <2>3
<1>7. RowsAndColumns'
  <2>1. (\A n : Line(n) = LineOf("column", j, n)) /\ a = LengthOf("column")
    BY DEF LineOf, LengthOf
  <2> HIDE DEF Line, a
  <2>2. OfItsArray /\ result.order = "row" /\ Len(array.dims) <= 2 =>
          IF Len(array.dims) = 2 /\ LineOf("column", j, 1) \in ShownCells
          THEN got'.status = "nil" /\ got'.value = [n \in 1 .. LengthOf("column") |-> Meant(LineOf("column", j, n))[1]]
          ELSE got'.status = "panic"
    BY <1>6, <2>1
  <2>. QED BY <1>2, <2>2, LineAnswered
<1>. QED BY <1>2, <1>7

(***************************************************************************)
(* What can be stored                                                      *)
(***************************************************************************)
\* Whole tiles of n cells do not pass the largest index.
LEMMA TilesFit ==
  ASSUME NEW n \in Nat \ {0}, n + DefaultExtent <= MaxDimension, NEW e \in Nat \ {0}, e <= n, e <= DefaultExtent
  PROVE  ValidDimension(n, e)
<1> DEFINE m == n + e - 1
           q == m \div e
<1>1. e \in Nat \ {0} /\ e <= n /\ e <= DefaultExtent /\ n >= 1
  BY SizesAssumption
<1>2. m \in Int
  BY <1>1
<1>3. q \in Int /\ m % e \in 0 .. e - 1 /\ m = e * q + (m % e)
  <2> HIDE DEF m
  <2>. QED BY <1>1, <1>2, Division
<1> DEFINE rest == m % e
<1>4. rest >= 0 /\ rest \in Int /\ m = e * q + rest
  BY <1>1, <1>3
<1> HIDE DEF q, rest
<1>5. q * e = e * q
  BY <1>1, <1>3
<1>6. q * e <= m
  BY <1>1, <1>2, <1>3, <1>4, <1>5
<1>7. m <= MaxDimension
  BY <1>1, SizesAssumption
<1>8. q * e <= MaxDimension
  <2>1. q * e \in Int
    BY <1>1, <1>3
  <2> HIDE DEF m
  <2>. QED BY <1>2, <1>6, <1>7, <2>1, SizesAssumption
<1>9. 1 <= n /\ 1 <= e
  BY <1>1
<1>. QED BY <1>1, <1>8, <1>9 DEF ValidDimension, q, m

\* So the records of a recordset have an array.
LEMMA RecordsFit ==
  ASSUME NEW n \in Nat \ {0}, n + DefaultExtent <= MaxDimension
  PROVE  ValidDimension(n, RecordExtent(n))
<1> DEFINE e == RecordExtent(n)
<1>1. e \in Nat \ {0} /\ e <= n /\ e <= DefaultExtent
  BY SizesAssumption DEF RecordExtent
<1> HIDE DEF e
<1>. QED BY <1>1, TilesFit DEF e

\* The tiles of the largest domain do.
LEMMA LargestDoesNotFit ==
  ASSUME DefaultExtent <= MaxDimension
  PROVE  ~ValidDimension(MaxDimension, RecordExtent(MaxDimension))
<1> DEFINE b == DefaultExtent
           m == MaxDimension
           q == m \div b
           r == m % b
<1>1. b \in Nat \ {0} /\ m \in Nat /\ m \in Int /\ r # 0 /\ b \in Positive /\ b >= 1
  BY SizesAssumption DEF Positive
<1>2. RecordExtent(m) = b
  BY <1>1 DEF RecordExtent
<1> HIDE DEF b, m
<1>3. q \in Int /\ r \in 0 .. b - 1 /\ m = b * q + r
  <2>1. m \in Int /\ b \in Nat \ {0}
    BY <1>1
  <2>. QED BY <2>1, Division
<1> HIDE DEF q, r
<1>4. m + b - 1 = b * (q + 1) + (r - 1) /\ q + 1 \in Int /\ r - 1 \in 0 .. b - 1
  BY <1>1, <1>3
<1>5. (m + b - 1) \div b = q + 1
  BY <1>1, <1>4, DivisionUnique
<1>6. (q + 1) * b > m
  BY <1>1, <1>3
<1>7. ~((q + 1) * b <= m)
  BY <1>1, <1>3, <1>6
<1>. QED BY <1>2, <1>5, <1>7 DEF ValidDimension, m, b

\* Recordsets with records create arrays, and no others.
LEMMA CreateStores ==
  ASSUME EventInv, NEW sparse \in BOOLEAN, CreateRecords(sparse)
  PROVE  got'.op = "create" /\ InputsStored'
<1> DEFINE n == BufferLen(rs[1])
           size == IF n = 0 THEN MaxDimension ELSE n
           valid == array = NoArray /\ ValidDimension(size, RecordExtent(size))
<1>1. /\ UNCHANGED <<rs, captured>> /\ got'.op = "create"
      /\ rs # <<>> =>
           \/ ~valid /\ got'.status = "error" /\ array' = array
           \/ /\ valid /\ got'.status = "nil"
              /\ array' = Created(<<size>>, <<RecordExtent(size)>>, Attrs(rs), sparse)
  BY DEF CreateRecords, Answer
<1>2. ASSUME rs # <<>>
      PROVE  /\ got'.status = "error" /\ array' = NoArray => captured = <<>>
             /\ got'.status = "nil" => captured # <<>> /\ array'.dims = <<Len(captured)>>
  <2>1. /\ n = Len(captured) /\ n \in Nat /\ n + DefaultExtent <= MaxDimension
        /\ (captured = <<>> <=> n = 0)
    BY <1>2, RecordCount DEF EventInv, RecordsInv
  <2> HIDE DEF n
  <2>2. ASSUME n # 0 PROVE size = n /\ ValidDimension(size, RecordExtent(size))
    BY <2>1, <2>2, RecordsFit
  <2>3. ASSUME n = 0 PROVE ~ValidDimension(size, RecordExtent(size))
    <3>1. DefaultExtent <= MaxDimension
      BY <2>1, <2>3, SizesAssumption
    <3>. QED BY <2>3, <3>1, LargestDoesNotFit
  <2> HIDE DEF size
  <2>4. CASE ~valid /\ got'.status = "error" /\ array' = array
    BY <2>1, <2>2, <2>4
  <2>5. CASE /\ valid /\ got'.status = "nil"
             /\ array' = Created(<<size>>, <<RecordExtent(size)>>, Attrs(rs), sparse)
    <3>1. array'.dims = <<size>>
      BY <2>5 DEF Created
    <3>2. n # 0
      BY <2>3, <2>5
    <3>. QED BY <2>1, <2>2, <2>5, <3>1, <3>2
  <2>. QED BY <1>1, <1>2, <2>4, <2>5
<1>3. InputsStored'
  BY <1>1, <1>2 DEF InputsStored
<1>. QED BY <1>1, <1>3

\* The range of an array is all of it when it has one or two dimensions.
LEMMA RangeOfSimple ==
  ASSUME NEW dims \in Seq(Int), Len(dims) \in 1 .. 2, \A i \in DOMAIN dims : dims[i] >= 1
  PROVE  Within(SimpleRange(dims), dims)
<1> DEFINE L == Len(dims)
           r == SimpleRange(dims)
<1>1. DOMAIN dims = 1 .. L /\ L \in Nat /\ (\A i \in 1 .. L : dims[i] \in Int /\ dims[i] >= 1) /\ L <= 2
  BY LenProperties, ElementOfSeq
<1> HIDE DEF L
<1>2. r = [i \in 1 .. 2 * L |->
            LET p == (i - 1) \div 2 IN
            IF 2 * p > L THEN 0 ELSE IF i % 2 = 1 THEN 1 ELSE dims[p + 1]]
  BY DEF SimpleRange, L
<1> HIDE DEF r
<1>3. Len(r) = 2 * L
  BY <1>1, <1>2
<1>4. ASSUME NEW i \in 1 .. L PROVE r[2 * i - 1] = 1 /\ r[2 * i] = dims[i]
  <2>1. /\ 2 * i - 1 \in 1 .. 2 * L /\ 2 * i \in 1 .. 2 * L
        /\ ((2 * i - 1) - 1) \div 2 = i - 1 /\ (2 * i - 1) \div 2 = i - 1
        /\ (2 * i - 1) % 2 = 1 /\ (2 * i) % 2 # 1 /\ ~(2 * (i - 1) > L) /\ (i - 1) + 1 = i
    BY <1>1
  <2>. QED BY <1>2, <2>1
<1>5. \A i \in 1 .. L : 1 <= r[2 * i - 1] /\ r[2 * i - 1] <= r[2 * i] /\ r[2 * i] <= dims[i]
  <2> SUFFICES ASSUME NEW i \in 1 .. L
               PROVE  1 <= r[2 * i - 1] /\ r[2 * i - 1] <= r[2 * i] /\ r[2 * i] <= dims[i]
    OBVIOUS
  <2>1. dims[i] \in Int /\ dims[i] >= 1
    BY <1>1
  <2> DEFINE d == dims[i]
  <2> HIDE DEF d
  <2>2. 1 <= 1 /\ 1 <= d /\ d <= d
    BY <2>1 DEF d
  <2>. QED BY <1>4, <2>2 DEF d
<1>6. Len(r) >= 2 * Len(dims)
  BY <1>1, <1>3 DEF L
<1>. QED BY <1>1, <1>5, <1>6 DEF Within, r

\* It is none when it has more, or one of no index.
LEMMA RangeOfOthers ==
  ASSUME NEW dims \in Seq(Int), NEW other, DOMAIN other = 1 .. Len(dims), dims # <<>>, Within(SimpleRange(dims), other)
  PROVE  Len(dims) \in 1 .. 2 /\ \A i \in DOMAIN dims : dims[i] >= 1
<1> DEFINE L == Len(dims)
           r == SimpleRange(dims)
<1>1. DOMAIN dims = 1 .. L /\ L \in Nat /\ (\A i \in 1 .. L : dims[i] \in Int) /\ L >= 1
  <2>1. L # 0
    BY EmptySeq
  <2>. QED BY <2>1, LenProperties, ElementOfSeq
<1>2. \A i \in 1 .. L : 1 <= r[2 * i - 1] /\ r[2 * i - 1] <= r[2 * i]
  BY DEF Within
<1> HIDE DEF L
<1>3. r = [i \in 1 .. 2 * L |->
            LET p == (i - 1) \div 2 IN
            IF 2 * p > L THEN 0 ELSE IF i % 2 = 1 THEN 1 ELSE dims[p + 1]]
  BY DEF SimpleRange, L
<1> HIDE DEF r
<1>4. ASSUME NEW i \in 1 .. L
      PROVE  /\ r[2 * i - 1] = IF 2 * (i - 1) > L THEN 0 ELSE 1
             /\ r[2 * i] = IF 2 * (i - 1) > L THEN 0 ELSE dims[i]
  <2>1. /\ 2 * i - 1 \in 1 .. 2 * L /\ 2 * i \in 1 .. 2 * L
        /\ ((2 * i - 1) - 1) \div 2 = i - 1 /\ (2 * i - 1) \div 2 = i - 1
        /\ (2 * i - 1) % 2 = 1 /\ (2 * i) % 2 # 1 /\ (i - 1) + 1 = i
    BY <1>1
  <2>. QED BY <1>3, <2>1
<1>5. L <= 2
  <2> SUFFICES ASSUME L >= 3 PROVE FALSE
    BY <1>1
  <2>1. L \in 1 .. L /\ 2 * (L - 1) > L
    BY <1>1
  <2>2. r[2 * L - 1] = 0 /\ 1 <= r[2 * L - 1]
    BY <1>2, <1>4, <2>1
  <2>. QED BY <2>2
<1>6. ASSUME NEW i \in 1 .. L PROVE dims[i] >= 1
  <2>1. ~(2 * (i - 1) > L)
    BY <1>1, <1>5
  <2>2. r[2 * i - 1] = 1 /\ r[2 * i] = dims[i]
    BY <1>4, <2>1
  <2>3. 1 <= dims[i]
    BY <1>2, <2>2
  <2>. QED BY <1>1, <2>3
<1>. QED BY <1>1, <1>5, <1>6 DEF L

\* The extent of a simple array of one or two dimensions suits each of them.
LEMMA SimpleExtentFits ==
  ASSUME NEW dims \in Seq(Int), Len(dims) \in 1 .. 2, \A i \in DOMAIN dims : dims[i] >= 1
  PROVE  /\ SimpleExtent(dims) \in Nat \ {0} /\ SimpleExtent(dims) <= DefaultExtent
         /\ \A i \in DOMAIN dims : SimpleExtent(dims) <= dims[i]
<1> DEFINE es == {DefaultExtent} \cup ToSet(dims)
<1>1. DOMAIN dims = 1 .. Len(dims) /\ \A i \in DOMAIN dims : dims[i] \in Nat \ {0}
  BY LenProperties, ElementOfSeq
<1>2. ToSet(dims) = {dims[i] : i \in DOMAIN dims}
  BY DEF ToSet
<1>3. DefaultExtent \in Nat \ {0}
  BY SizesAssumption
<1>4. PICK e \in es : \A d \in es : e <= d
  <2>1. CASE Len(dims) = 1
    <3> DEFINE x == dims[1]
    <3>0. DOMAIN dims = {1}
      BY <1>1, <2>1
    <3>1. ToSet(dims) = {x} /\ x \in Nat \ {0}
      BY <1>1, <1>2, <3>0
    <3>2. es = {DefaultExtent, x}
      BY <3>1
    <3> HIDE DEF es, x
    <3>3. CASE DefaultExtent <= x
      BY <1>3, <3>1, <3>2, <3>3
    <3>4. CASE x <= DefaultExtent
      BY <1>3, <3>1, <3>2, <3>4
    <3>. QED BY <1>3, <3>1, <3>3, <3>4
  <2>2. CASE Len(dims) = 2
    <3> DEFINE x == dims[1]
               y == dims[2]
    <3>1. es = {DefaultExtent, x, y} /\ x \in Nat \ {0} /\ y \in Nat \ {0}
      BY <1>1, <1>2, <2>2
    <3> HIDE DEF es, x, y
    <3>2. CASE DefaultExtent <= x /\ DefaultExtent <= y
      BY <1>3, <3>1, <3>2
    <3>3. CASE x <= DefaultExtent /\ x <= y
      BY <1>3, <3>1, <3>3
    <3>4. CASE y <= DefaultExtent /\ y <= x
      BY <1>3, <3>1, <3>4
    <3>. QED BY <1>3, <3>1, <3>2, <3>3, <3>4
  <2>. QED BY <2>1, <2>2
<1>5. SimpleExtent(dims) \in es /\ \A d \in es : SimpleExtent(dims) <= d
  <2> HIDE DEF es
  <2>1. (CHOOSE s \in es : \A d \in es : s <= d) \in es
        /\ \A d \in es : (CHOOSE s \in es : \A c \in es : s <= c) <= d
    BY <1>4
  <2>. QED BY <2>1 DEF SimpleExtent, Min, es
<1>6. DefaultExtent \in es /\ \A i \in DOMAIN dims : dims[i] \in es
  BY <1>2
<1>7. \A d \in es : d \in Nat \ {0}
  BY <1>1, <1>2, <1>3
<1> HIDE DEF es
<1>. QED BY <1>5, <1>6, <1>7

\* Simple arrays are put when they are proper and there is room for them.
LEMMA PutStores ==
  ASSUME EventInv, NEW g \in Grids, PutSimpleArray(g)
  PROVE  got'.op = "putSimple" /\ InputsStored'
<1> DEFINE dims == g.dims
           creatable == /\ g.kind \in Supported /\ g.dims # <<>>
                        /\ \A i \in DOMAIN g.dims : ValidDimension(g.dims[i], SimpleExtent(g.dims))
           extents == [i \in DOMAIN g.dims |-> SimpleExtent(g.dims)]
           a == IF array = NoArray THEN Created(g.dims, extents, SimpleAttrs(g.kind), FALSE) ELSE array
           writable == /\ a.attrs = SimpleAttrs(g.kind) /\ g.kind # "string" /\ ~a.sparse
                       /\ Len(g.dims) = Len(a.dims) /\ Within(SimpleRange(g.dims), a.dims)
                       /\ Len(g.data) = Cells(g.dims)
           proper == /\ g.kind \in Supported \ {"string"} /\ Len(g.dims) \in 1 .. 2
                     /\ Len(g.data) = Cells(g.dims) /\ \A i \in DOMAIN g.dims : g.dims[i] >= 1
           tiled == \A i \in DOMAIN g.dims : g.dims[i] + DefaultExtent <= MaxDimension
<1>0. \/ array = NoArray /\ ~creatable /\ Answer("putSimple", g, "error", <<>>) /\ UNCHANGED array
      \/ array # NoArray /\ g.dims = <<>> /\ Answer("putSimple", g, "panic", <<>>)
      \/ /\ array # NoArray \/ creatable
         /\ g.dims # <<>> /\ ~writable /\ Answer("putSimple", g, "error", <<>>) /\ array' = a
      \/ /\ array # NoArray \/ creatable
         /\ g.dims # <<>> /\ writable /\ Answer("putSimple", g, "nil", <<>>)
  <2>1. UNCHANGED <<array, stored>> => UNCHANGED array
    OBVIOUS
  <2>. QED BY <2>1, Zenon DEF PutSimpleArray
<1>8. \A status : Answer("putSimple", g, status, <<>>) =>
        got'.op = "putSimple" /\ got'.arg = g /\ got'.status = status
  BY DEF Answer
<1>1. got'.op = "putSimple" /\ got'.arg = g
  BY <1>0, <1>8, Zenon
<1>2. \/ array = NoArray /\ ~creatable /\ got'.status = "error" /\ array' = array
      \/ array # NoArray /\ g.dims = <<>> /\ got'.status = "panic"
      \/ /\ array # NoArray \/ creatable
         /\ g.dims # <<>> /\ ~writable /\ got'.status = "error" /\ array' = a
      \/ /\ array # NoArray \/ creatable
         /\ g.dims # <<>> /\ writable /\ got'.status = "nil"
  <2> HIDE DEF creatable, a, writable
  <2>. QED BY <1>0, <1>8
<1>3. g.dims \in Seq(Int)
  BY GridsAssumption
<1>4. ASSUME array # NoArray \/ creatable
      PROVE  /\ a.dims \in Seq(Int) /\ Len(a.dims) \in Nat
             /\ \A j \in DOMAIN a.attrs : a.attrs[j].type \in Supported
  <2>1. CASE array = NoArray
    <3>1. a.dims = g.dims /\ a.attrs = SimpleAttrs(g.kind) /\ g.kind \in Supported
      BY <1>4, <2>1 DEF Created
    <3> HIDE DEF a
    <3>2. \A j \in DOMAIN SimpleAttrs(g.kind) : SimpleAttrs(g.kind)[j].type = g.kind
      BY DEF SimpleAttrs
    <3>. QED BY <1>3, <3>1, <3>2
  <2>2. CASE array # NoArray
    BY <2>2 DEF EventInv, ArrayInv
  <2>. QED BY <2>1, <2>2
<1>5. ASSUME got'.status = "nil" PROVE proper
  <2>1. (array # NoArray \/ creatable) /\ g.dims # <<>> /\ writable
    BY <1>2, <1>5, Zenon
  <2> HIDE DEF a, creatable
  <2>2. DOMAIN a.dims = 1 .. Len(g.dims)
    BY <1>4, <2>1, LenProperties
  <2>3. Len(g.dims) \in 1 .. 2 /\ \A i \in DOMAIN g.dims : g.dims[i] >= 1
    BY <1>3, <2>1, <2>2, RangeOfOthers
  <2>4. g.kind \in Supported
    <3>1. 1 \in DOMAIN SimpleAttrs(g.kind) /\ SimpleAttrs(g.kind)[1].type = g.kind
      BY DEF SimpleAttrs
    <3>. QED BY <1>4, <2>1, <3>1
  <2>. QED BY <2>1, <2>3, <2>4
<1>9. ASSUME proper, tiled PROVE creatable
  <2>1. g.kind \in Supported /\ Len(g.dims) \in 1 .. 2 /\ \A i \in DOMAIN g.dims : g.dims[i] >= 1
    BY <1>9
  <2>2. g.dims # <<>>
    <3>1. Len(<<>>) = 0 /\ 0 \notin 1 .. 2
      OBVIOUS
    <3>. QED BY <2>1, <3>1, Zenon
  <2>3. ASSUME NEW i \in DOMAIN g.dims PROVE ValidDimension(g.dims[i], SimpleExtent(g.dims))
    <3>1. /\ SimpleExtent(g.dims) \in Nat \ {0} /\ SimpleExtent(g.dims) <= DefaultExtent
          /\ SimpleExtent(g.dims) <= g.dims[i]
      BY <1>3, <2>1, SimpleExtentFits
    <3>2. g.dims[i] \in Nat \ {0}
      <4>1. g.dims[i] \in Int
        BY <1>3, LenProperties, ElementOfSeq
      <4>2. g.dims[i] >= 1
        BY <2>1
      <4>. QED BY <4>1, <4>2
    <3>3. g.dims[i] + DefaultExtent <= MaxDimension
      BY <1>9
    <3>. QED BY <3>1, <3>2, <3>3, TilesFit
  <2>. QED BY <2>1, <2>2, <2>3
<1>6. ASSUME proper, tiled, got'.status # "nil"
      PROVE  /\ array' # NoArray
             /\ array'.dims # g.dims \/ array'.attrs # SimpleAttrs(g.kind) \/ array'.sparse
  <2>1. g.dims # <<>>
    <3>1. Len(<<>>) = 0 /\ 0 \notin 1 .. 2
      OBVIOUS
    <3>. QED BY <1>6, <3>1, Zenon
  <2>2. creatable
    BY <1>6, <1>9
  <2>3. CASE ~writable /\ array' = a
    <3>1. array' # NoArray
      <4>1. CASE array = NoArray
        <5>1. array'.dims = g.dims
          BY <2>3, <4>1 DEF Created
        <5>. QED BY <2>1, <5>1 DEF NoArray
      <4>2. CASE array # NoArray
        BY <2>3, <4>2
      <4>. QED BY <4>1, <4>2
    <3>2. ASSUME array'.dims = g.dims, array'.attrs = SimpleAttrs(g.kind), ~array'.sparse PROVE FALSE
      <4> HIDE DEF a
      <4>1. Within(SimpleRange(g.dims), g.dims)
        BY <1>3, <1>6, RangeOfSimple
      <4>. QED BY <1>6, <2>3, <3>2, <4>1
    <3>. QED BY <3>1, <3>2
  <2> HIDE DEF proper, tiled, a, writable, creatable
  <2>. QED BY <1>2, <1>6, <2>1, <2>2, <2>3, Zenon
<1>7. InputsStored'
  <2>1. got'.op # "create"
    BY <1>1
  <2> SUFFICES ASSUME got'.op = "putSimple"
               PROVE  LET g2 == got'.arg
                          proper2 == /\ g2.kind \in Supported \ {"string"} /\ Len(g2.dims) \in 1 .. 2
                                     /\ Len(g2.data) = Cells(g2.dims) /\ \A i \in DOMAIN g2.dims : g2.dims[i] >= 1
                          tiled2 == \A i \in DOMAIN g2.dims : g2.dims[i] + DefaultExtent <= MaxDimension
                      IN /\ got'.status = "nil" => proper2
                         /\ proper2 /\ tiled2 /\ got'.status # "nil" =>
                              /\ array' # NoArray
                              /\ array'.dims # g2.dims \/ array'.attrs # SimpleAttrs(g2.kind) \/ array'.sparse
    BY <2>1, Zenon DEF InputsStored
  <2>. QED BY <1>1, <1>5, <1>6
<1>. QED BY <1>1, <1>7

(***************************************************************************)
(* Theorems                                                                *)
(***************************************************************************)
\* What holds of every answer, with what it rests on.
Answers == ScanGivesRecords /\ RowsAndColumns /\ ReadPanics /\ InputsStored

\* Initially there is nothing.
LEMMA InitHolds ==
  ASSUME Init
  PROVE  EventInv /\ Answers
BY DEF Init, EventInv, RecordsInv, ArrayInv, ResultInv, NoResult,
       Answers, ScanGivesRecords, RowsAndColumns, ReadPanics, InputsStored

\* Every step keeps the invariant, and answers as it should.
LEMMA StepHolds ==
  ASSUME EventInv, Answers, [Next]_vars
  PROVE  EventInv' /\ Answers'
<1>1. ASSUME got'.op \notin {"scan", "row", "column", "read", "getSimple", "create", "putSimple"} PROVE Answers'
  BY <1>1 DEF Answers, ScanGivesRecords, RowsAndColumns, ReadPanics, InputsStored
<1>2. ASSUME got'.op = "scan", ScanGivesRecords' PROVE Answers'
  BY <1>2 DEF Answers, RowsAndColumns, ReadPanics, InputsStored
<1>3. ASSUME got'.op \in {"row", "column"}, RowsAndColumns' PROVE Answers'
  BY <1>3 DEF Answers, ScanGivesRecords, ReadPanics, InputsStored
<1>4. ASSUME got'.op \in {"read", "getSimple"}, ReadPanics' PROVE Answers'
  BY <1>4 DEF Answers, ScanGivesRecords, RowsAndColumns, InputsStored
<1>5. ASSUME got'.op \in {"create", "putSimple"}, InputsStored' PROVE Answers'
  BY <1>5 DEF Answers, ScanGivesRecords, RowsAndColumns, ReadPanics
<1>6. CASE UNCHANGED vars
  <2>1. UNCHANGED <<rs, made, array, result, row, got, captured, stored, shown>>
    BY <1>6 DEF vars
  <2>2. RecordsInv' /\ ArrayInv' /\ row' \in Nat
    BY <2>1 DEF EventInv, RecordsInv, ArrayInv
  <2>3. ResultInv'
    BY <2>1, SameResult DEF EventInv, ResultInv
  <2>4. ShownCells' = ShownCells /\ (OfItsArray' <=> OfItsArray) /\ Size(result)' = Size(result)
    BY <2>1 DEF ShownCells, OfItsArray, Size
  <2>5. Exact' <=> Exact
    BY <2>1, <2>4 DEF Exact
  <2>6. ScanGivesRecords'
    BY <2>1, <2>4, <2>5 DEF Answers, ScanGivesRecords, Meant
  <2>7. RowsAndColumns'
    BY <2>1, <2>4 DEF Answers, RowsAndColumns, Meant
  <2>8. ReadPanics' /\ InputsStored'
    BY <2>1 DEF Answers, ReadPanics, InputsStored
  <2>. QED BY <2>2, <2>3, <2>6, <2>7, <2>8 DEF EventInv, Answers
<1>7. ASSUME NEW s \in Slices, NewRecordset(s) PROVE EventInv' /\ Answers'
  <2>1. got'.op = "new"
    BY <1>7 DEF NewRecordset, Answer
  <2>. QED BY <1>1, <1>7, <2>1, NewKeeps
<1>8. ASSUME NEW sparse \in BOOLEAN, CreateRecords(sparse) PROVE EventInv' /\ Answers'
  BY <1>5, <1>8, CreateKeeps, CreateStores
<1>9. ASSUME NEW sparse \in BOOLEAN, WriteRecords(sparse) PROVE EventInv' /\ Answers'
  <2>1. got'.op = "write"
    BY <1>9 DEF WriteRecords, Answer
  <2>. QED BY <1>1, <1>9, <2>1, WriteKeeps
<1>10. ASSUME NEW r \in Ranges \cup {<<>>}, ReadRecords(r) PROVE EventInv' /\ Answers'
  BY <1>4, <1>10, RecordsRead
<1>11. ASSUME NEW g \in Grids, PutSimpleArray(g) PROVE EventInv' /\ Answers'
  BY <1>5, <1>11, PutKeeps, PutStores
<1>12. ASSUME NEW x \in Ranges \cup {<<>>}, NEW y \in Ranges \cup {<<>>}, NEW order \in {"row", "column"},
              GetSimpleArray(x, y, order)
       PROVE  EventInv' /\ Answers'
  BY <1>4, <1>12, SimpleRead DEF Orders
<1>13. ASSUME Scan PROVE EventInv' /\ Answers'
  BY <1>2, <1>13, ScanKeeps
<1>14. ASSUME NEW i \in Indices, GetRow(i) PROVE EventInv' /\ Answers'
  BY <1>3, <1>14, RowKeeps
<1>15. ASSUME NEW i \in Indices, GetColumn(i) PROVE EventInv' /\ Answers'
  BY <1>3, <1>15, ColumnKeeps
<1>. QED BY <1>6, <1>7, <1>8, <1>9, <1>10, <1>11, <1>12, <1>13, <1>14, <1>15, Zenon DEF Next

\* Together: the invariant and the four properties.
LEMMA EventInvariant == Spec => [](EventInv /\ Answers)
<1>1. Init => EventInv /\ Answers
  BY InitHolds
<1>2. (EventInv /\ Answers) /\ [Next]_vars => (EventInv /\ Answers)'
  BY StepHolds
<1>. QED BY <1>1, <1>2, PTL DEF Spec

\* The records scanned are those of the slice: buffers, offsets, coordinates, ranges
\* and estimated sizes neither lose nor mix them (Scan, event_store.go).
THEOREM ScansGiveRecords == Spec => []ScanGivesRecords
<1>1. EventInv /\ Answers => ScanGivesRecords
  BY DEF Answers
<1>. QED BY <1>1, EventInvariant, PTL

\* GetRow and GetColumn answer the row or the column of the range that was read,
\* and panic when there is none.
THEOREM LinesOfTheRange == Spec => []RowsAndColumns
<1>1. EventInv /\ Answers => RowsAndColumns
  BY DEF Answers
<1>. QED BY <1>1, EventInvariant, PTL

\* A read panics for no other reason than strings estimated in a sparse array, two
\* ranges asked of one dimension, or a recordset that is nil.
THEOREM PanicsOfReads == Spec => []ReadPanics
<1>1. EventInv /\ Answers => ReadPanics
  BY DEF Answers
<1>. QED BY <1>1, EventInvariant, PTL

\* Create accepts every recordset that has records. PutSimpleArray stores proper
\* numbers of one or two dimensions that whole tiles hold, unless the array that is
\* there is another one: in particular it must make the array when there is none.
\* Neither accepts anything else (createSimpleArray, PutSimpleArray).
THEOREM WellMadeIsStored == Spec => []InputsStored
<1>1. EventInv /\ Answers => InputsStored
  BY DEF Answers
<1>. QED BY <1>1, EventInvariant, PTL
=============================================================================
