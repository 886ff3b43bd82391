---------------------------- MODULE SequenceFacts ----------------------------
(***************************************************************************)
(* Induction over the numbers for sets, and what it shows of the sequences *)
(* that FlattenSeq makes.                                                  *)
(***************************************************************************)
EXTENDS Integers, Sequences, SequencesExt, SequenceTheorems, FiniteSetTheorems, WellFoundedInduction, TLAPS

\* A set of numbers has a least one.
LEMMA Least ==
  ASSUME NEW S \in SUBSET Nat, S # {}
  PROVE  \E x \in S : \A y \in S : x <= y
<1>1. PICK x \in S : \A y \in S : ~(<<y, x>> \in OpToRel(<, Nat))
  BY NatLessThanWellFounded, WFMin, Zenon
<1>2. \A y \in Nat : y < x => <<y, x>> \in OpToRel(<, Nat)
  BY DEF OpToRel
<1>3. \A y \in S : ~(y < x)
  BY <1>1, <1>2, Zenon
<1>4. x \in Nat /\ S \subseteq Nat
  OBVIOUS
<1>. QED BY <1>3, <1>4

\* A set with 0 and the successor of each of its numbers has all numbers: of
\* those it lacks there would be a least one.
LEMMA Induction ==
  ASSUME NEW S \in SUBSET Nat, 0 \in S, \A n \in S : n + 1 \in S
  PROVE  S = Nat
<1> SUFFICES ASSUME Nat \ S # {} PROVE FALSE
  OBVIOUS
<1>1. PICK x \in Nat \ S : \A y \in Nat \ S : x <= y
  BY Least
<1>2. x # 0 /\ x \in Nat
  BY <1>1
<1>3. x - 1 \in Nat /\ x - 1 < x /\ (x - 1) + 1 = x
  BY <1>2
<1>4. x - 1 \in S
  BY <1>1, <1>3
<1>. QED BY <1>1, <1>3, <1>4

\* p[k] is what the k-th step makes of p[k - 1].
Follows(p, base, step, n) == p[0] = base /\ \A k \in 1 .. n : p[k] = step[k][p[k - 1]]

\* There is a function on 0 .. n given by its first value and the step to the next.
LEMMA Recursion ==
  ASSUME NEW C, NEW N \in Nat, NEW base \in C, NEW step \in [1 .. N -> [C -> C]]
  PROVE  \E p \in [0 .. N -> C] : Follows(p, base, step, N)
<1> DEFINE S == {n \in Nat : n <= N => \E p \in [0 .. n -> C] : Follows(p, base, step, n)}
<1>1. 0 \in S
  <2> DEFINE p == [k \in 0 .. 0 |-> base]
  <2>1. p \in [0 .. 0 -> C] /\ p[0] = base
    OBVIOUS
  <2> HIDE DEF p
  <2>2. Follows(p, base, step, 0)
    BY <2>1 DEF Follows
  <2>. QED BY <2>1, <2>2
<1>2. ASSUME NEW n \in S PROVE n + 1 \in S
  <2> SUFFICES ASSUME n + 1 <= N
               PROVE  \E p \in [0 .. n + 1 -> C] : Follows(p, base, step, n + 1)
    OBVIOUS
  <2>1. n \in Nat /\ N \in Nat /\ n + 1 \in 1 .. N
    OBVIOUS
  <2>2. PICK p \in [0 .. n -> C] : Follows(p, base, step, n)
    BY <2>1
  <2> DEFINE next == step[n + 1][p[n]]
             q == [k \in 0 .. n + 1 |-> IF k = n + 1 THEN next ELSE p[k]]
  <2>3. next \in C
    BY <2>1
  <2> HIDE DEF next
  <2>4. q \in [0 .. n + 1 -> C]
    BY <2>1, <2>3
  <2>5. /\ q[0] = p[0] /\ q[n] = p[n] /\ q[n + 1] = next
        /\ \A k \in 1 .. n : q[k] = p[k] /\ q[k - 1] = p[k - 1]
    BY <2>1
  <2> HIDE DEF q
  <2>6. ASSUME NEW k \in 1 .. n + 1 PROVE q[k] = step[k][q[k - 1]]
    <3>1. CASE k = n + 1
      <4>1. k - 1 = n
        BY <2>1, <3>1
      <4>. QED BY <2>5, <3>1, <4>1 DEF next
    <3>2. CASE k \in 1 .. n
      BY <2>2, <2>5, <3>2 DEF Follows
    <3>. QED BY <2>1, <3>1, <3>2
  <2>7. q[0] = base
    BY <2>2, <2>5 DEF Follows
  <2>8. Follows(q, base, step, n + 1)
    BY <2>6, <2>7 DEF Follows
  <2>. QED BY <2>4, <2>8
<1>3. S = Nat
  <2> HIDE DEF S
  <2>1. S \in SUBSET Nat
    BY DEF S
  <2>. QED BY <1>1, <1>2, <2>1, Induction
<1>4. PICK p \in [0 .. N -> C] : Follows(p, base, step, N)
  <2>1. N \in S
    <3> HIDE DEF S
    <3>. QED BY <1>3
  <2>. QED BY <2>1
<1>. QED BY <1>4

\* h[n]: the first n of the sequences s one after the other.
Joins(h, s, n) == h[0] = <<>> /\ \A i \in 1 .. n : h[i] = h[i - 1] \o s[i]

\* There is such a function.
LEMMA JoinsExist ==
  ASSUME NEW C, NEW s \in Seq(Seq(C))
  PROVE  \E h \in [0 .. Len(s) -> Seq(C)] : Joins(h, s, Len(s))
<1> DEFINE S == {n \in Nat : n <= Len(s) => \E h \in [0 .. n -> Seq(C)] : Joins(h, s, n)}
<1>1. 0 \in S
  <2>1. [i \in 0 .. 0 |-> <<>>] \in [0 .. 0 -> Seq(C)]
    BY EmptySeq
  <2>2. Joins([i \in 0 .. 0 |-> <<>>], s, 0)
    BY DEF Joins
  <2>. QED BY <2>1, <2>2
<1>2. ASSUME NEW n \in S PROVE n + 1 \in S
  <2> SUFFICES ASSUME n + 1 <= Len(s)
               PROVE  \E h \in [0 .. n + 1 -> Seq(C)] : Joins(h, s, n + 1)
    OBVIOUS
  <2>1. Len(s) \in Nat /\ n \in Nat
    OBVIOUS
  <2>2. PICK h \in [0 .. n -> Seq(C)] : Joins(h, s, n)
    BY <2>1
  <2> DEFINE next == h[n] \o s[n + 1]
             g == [i \in 0 .. n + 1 |-> IF i = n + 1 THEN next ELSE h[i]]
  <2>3. s[n + 1] \in Seq(C) /\ h[n] \in Seq(C)
    BY <2>1, ElementOfSeq
  <2>4. next \in Seq(C)
    BY <2>3, ConcatProperties
  <2>5. g \in [0 .. n + 1 -> Seq(C)]
    BY <2>1, <2>4
  <2>6. g[0] = h[0] /\ g[n] = h[n] /\ g[n + 1] = next /\ \A i \in 1 .. n : g[i] = h[i] /\ g[i - 1] = h[i - 1]
    BY <2>1
  <2> HIDE DEF g
  <2>7. g[n + 1] = g[n] \o s[n + 1]
    BY <2>6
  <2>8. Joins(g, s, n + 1)
    <3> SUFFICES ASSUME NEW i \in 1 .. n + 1 PROVE g[i] = g[i - 1] \o s[i]
      BY <2>2, <2>6 DEF Joins
    <3>1. CASE i = n + 1
      <4>1. i - 1 = n
        BY <2>1, <3>1
      <4>. QED BY <2>7, <3>1, <4>1
    <3>2. CASE i \in 1 .. n
      BY <2>2, <2>6, <3>2 DEF Joins
    <3>3. i = n + 1 \/ i \in 1 .. n
      BY <2>1
    <3>. QED BY <3>1, <3>2, <3>3
  <2>. QED BY <2>5, <2>8
<1>3. S = Nat
  <2> HIDE DEF S
  <2>1. S \in SUBSET Nat
    BY DEF S
  <2>. QED BY <1>1, <1>2, <2>1, Induction
<1>4. Len(s) \in S
  <2> HIDE DEF S
  <2>. QED BY <1>3
<1>. QED BY <1>4

\* FlattenSeq of the first n.
LEMMA FlattenOfFirst ==
  ASSUME NEW C, NEW s \in Seq(Seq(C)),
         NEW h \in [0 .. Len(s) -> Seq(C)], Joins(h, s, Len(s)), NEW n \in 0 .. Len(s)
  PROVE  FlattenSeq(SubSeq(s, 1, n)) = h[n]
<1>0. Len(s) \in Nat
  OBVIOUS
<1>1. CASE n = 0
  <2>1. SubSeq(s, 1, 0) = <<>>
    BY SubSeqEmpty
  <2>. QED BY <1>1, <2>1 DEF FlattenSeq, Joins
<1>2. CASE n > 0
  <2> DEFINE t == SubSeq(s, 1, n)
             Flattens(f) == f = [i \in 1 .. Len(t) |-> IF i = 1 THEN t[i] ELSE f[i - 1] \o t[i]]
             flatten == CHOOSE f : Flattens(f)
  <2>1. Len(t) = n /\ \A i \in 1 .. n : t[i] = s[i]
    BY <1>0, SubSeqProperties
  <2> HIDE DEF t
  <2>2. FlattenSeq(t) = flatten[n]
    <3>1. Len(t) # 0
      BY <1>2, <2>1
    <3>2. FlattenSeq(t) = flatten[Len(t)]
      BY <3>1, Zenon DEF FlattenSeq
    <3>. QED BY <2>1, <3>2
  <2>3. h[1] = s[1]
    <3>1. h[1] = <<>> \o s[1]
      <4>1. 1 \in 1 .. Len(s) /\ 1 - 1 = 0
        BY <1>0, <1>2
      <4>2. h[1] = h[1 - 1] \o s[1] /\ h[0] = <<>>
        BY <4>1 DEF Joins
      <4>. QED BY <4>1, <4>2
    <3>2. s[1] \in Seq(C)
      BY <1>0, <1>2
    <3>. QED BY <3>1, <3>2, ConcatEmptySeq
  <2>4. Flattens([i \in 1 .. n |-> h[i]])
    <3> DEFINE f == [i \in 1 .. n |-> h[i]]
    <3> SUFFICES ASSUME NEW i \in 1 .. n
                 PROVE  h[i] = IF i = 1 THEN t[i] ELSE f[i - 1] \o t[i]
      BY <2>1
    <3>1. i = 1 => h[i] = t[i]
      BY <1>0, <2>1, <2>3
    <3>2. i # 1 => i - 1 \in 1 .. n /\ i \in 1 .. Len(s)
      BY <1>0
    <3>3. i # 1 => h[i] = h[i - 1] \o s[i] /\ f[i - 1] = h[i - 1] /\ t[i] = s[i]
      BY <2>1, <3>2 DEF Joins
    <3>. QED BY <3>1, <3>3
  <2>5. Flattens(flatten)
    <3> HIDE DEF Flattens
    <3>. QED BY <2>4
  <2> HIDE DEF flatten
  <2>6. \A i \in 1 .. n : flatten[i] = IF i = 1 THEN t[i] ELSE flatten[i - 1] \o t[i]
    BY <2>1, <2>5
  <2> HIDE DEF Flattens
  <2> DEFINE S == {i \in Nat : i + 1 <= n => flatten[i + 1] = h[i + 1]}
  <2>7. 0 \in S
    BY <1>0, <1>2, <2>1, <2>3, <2>6
  <2>8. ASSUME NEW i \in S PROVE i + 1 \in S
    <3> SUFFICES ASSUME i + 2 <= n PROVE flatten[i + 2] = h[i + 2]
      OBVIOUS
    <3>1. flatten[i + 1] = h[i + 1] /\ i \in Nat /\ i + 2 \in 1 .. n /\ i + 2 # 1 /\ (i + 2) - 1 = i + 1
      BY <1>0
    <3>2. flatten[i + 2] = flatten[(i + 2) - 1] \o t[i + 2]
      BY <2>6, <3>1
    <3>3. h[i + 2] = h[(i + 2) - 1] \o s[i + 2]
      <4>1. i + 2 \in 1 .. Len(s)
        BY <1>0, <3>1
      <4>. QED BY <4>1 DEF Joins
    <3>4. t[i + 2] = s[i + 2]
      BY <2>1, <3>1
    <3>. QED BY <3>1, <3>2, <3>3, <3>4
  <2>9. S = Nat
    <3> HIDE DEF S
    <3>1. S \in SUBSET Nat
      BY DEF S
    <3>. QED BY <2>7, <2>8, <3>1, Induction
  <2>10. n - 1 \in Nat /\ (n - 1) + 1 = n
    BY <1>0, <1>2
  <2>11. flatten[n] = h[n]
    BY <2>9, <2>10
  <2>. QED BY <2>2, <2>11 DEF t
<1>. QED BY <1>0, <1>1, <1>2

JoinsAll(h, s, C) == h \in [0 .. Len(s) -> Seq(C)] /\ s \in Seq(Seq(C)) /\ Joins(h, s, Len(s))
Keeps(h, i, j) == Len(h[i]) <= Len(h[j]) /\ \A p \in 1 .. Len(h[i]) : h[j][p] = h[i][p]

\* What is joined stays in its place while more is joined to it.
LEMMA JoinsGrow ==
  ASSUME NEW C, NEW s, NEW h, JoinsAll(h, s, C), NEW i \in 0 .. Len(s), NEW j \in i .. Len(s)
  PROVE  Keeps(h, i, j)
<1>1. s \in Seq(Seq(C)) /\ h \in [0 .. Len(s) -> Seq(C)] /\ Joins(h, s, Len(s))
  BY DEF JoinsAll
<1> DEFINE S == {k \in Nat : i + k <= Len(s) => Keeps(h, i, i + k)}
<1>2. Len(s) \in Nat /\ i \in Nat /\ \A k \in 0 .. Len(s) : h[k] \in Seq(C) /\ Len(h[k]) \in Nat
  BY <1>1
<1>3. 0 \in S
  BY <1>2 DEF Keeps
<1>4. ASSUME NEW k \in S PROVE k + 1 \in S
  <2> SUFFICES ASSUME i + (k + 1) <= Len(s) PROVE Keeps(h, i, i + (k + 1))
    OBVIOUS
  <2>1. /\ k \in Nat /\ i + k \in 0 .. Len(s) /\ i + (k + 1) \in 1 .. Len(s)
        /\ (i + (k + 1)) - 1 = i + k
    BY <1>2
  <2>2. Keeps(h, i, i + k)
    BY <1>2, <2>1
  <2> DEFINE a == h[i + k]  b == s[i + (k + 1)]
  <2>3. h[i + (k + 1)] = a \o b
    BY <1>1, <2>1 DEF Joins
  <2>4. a \in Seq(C) /\ b \in Seq(C) /\ Len(a) \in Nat /\ Len(b) \in Nat
    BY <1>1, <1>2, <2>1, ElementOfSeq, LenProperties
  <2> HIDE DEF a, b
  <2>5. /\ Len(a \o b) = Len(a) + Len(b)
        /\ \A p \in 1 .. Len(a) : (a \o b)[p] = a[p]
    BY <2>4, ConcatProperties
  <2>6. Len(h[i]) \in Nat /\ Len(h[i]) <= Len(a) /\ \A p \in 1 .. Len(h[i]) : a[p] = h[i][p]
    BY <1>2, <2>2 DEF a, Keeps
  <2>7. Len(h[i]) <= Len(a \o b)
    BY <2>4, <2>5, <2>6
  <2>8. \A p \in 1 .. Len(h[i]) : (a \o b)[p] = h[i][p]
    BY <2>4, <2>5, <2>6
  <2>. QED BY <2>3, <2>7, <2>8 DEF Keeps
<1>5. S = Nat
  <2> HIDE DEF S
  <2>1. S \in SUBSET Nat
    BY DEF S
  <2>. QED BY <1>3, <1>4, <2>1, Induction
<1>6. j - i \in Nat /\ i + (j - i) = j /\ j <= Len(s)
  BY <1>2
<1>7. j - i \in S
  <2> HIDE DEF S
  <2>. QED BY <1>5, <1>6
<1>. QED BY <1>6, <1>7

\* Where the i-th of the sequences s begins in FlattenSeq(s).
Start(s, i) == Len(FlattenSeq(SubSeq(s, 1, i - 1)))

\* Cut where its parts begin, a flattened sequence gives them back.
LEMMA FlattenCut ==
  ASSUME NEW C, NEW s \in Seq(Seq(C))
  PROVE  /\ FlattenSeq(s) \in Seq(C)
         /\ Start(s, 1) = 0 /\ Start(s, Len(s) + 1) = Len(FlattenSeq(s))
         /\ \A i \in 1 .. Len(s) :
              /\ Start(s, i) \in Nat /\ Start(s, i + 1) = Start(s, i) + Len(s[i])
              /\ Start(s, i + 1) <= Len(FlattenSeq(s))
              /\ SubSeq(FlattenSeq(s), Start(s, i) + 1, Start(s, i + 1)) = s[i]
<1>0. Len(s) \in Nat /\ \A i \in 1 .. Len(s) : s[i] \in Seq(C)
  BY ElementOfSeq
<1>1. PICK h \in [0 .. Len(s) -> Seq(C)] : Joins(h, s, Len(s))
  BY JoinsExist
<1>2. \A i \in 0 .. Len(s) : h[i] \in Seq(C) /\ Len(h[i]) \in Nat
  OBVIOUS
<1>3. ASSUME NEW i \in 0 .. Len(s) PROVE Keeps(h, i, Len(s))
  <2>1. JoinsAll(h, s, C)
    BY <1>1 DEF JoinsAll
  <2>2. Len(s) \in i .. Len(s)
    BY <1>0
  <2>. QED BY <2>1, <2>2, JoinsGrow
<1>4. FlattenSeq(s) = h[Len(s)]
  <2>1. FlattenSeq(SubSeq(s, 1, Len(s))) = h[Len(s)]
    BY <1>0, <1>1, FlattenOfFirst
  <2>. QED BY <2>1, SubSeqFull
<1>5. \A i \in 1 .. Len(s) + 1 : Start(s, i) = Len(h[i - 1])
  <2> SUFFICES ASSUME NEW i \in 1 .. Len(s) + 1 PROVE Start(s, i) = Len(h[i - 1])
    OBVIOUS
  <2>1. i - 1 \in 0 .. Len(s)
    BY <1>0
  <2>. QED BY <1>1, <2>1, FlattenOfFirst DEF Start
<1>6. Start(s, 1) = 0
  <2>1. h[0] = <<>>
    BY <1>1 DEF Joins
  <2>2. 1 \in 1 .. Len(s) + 1 /\ 1 - 1 = 0
    BY <1>0
  <2>. QED BY <1>5, <2>1, <2>2
<1>7. Start(s, Len(s) + 1) = Len(FlattenSeq(s))
  <2>1. Len(s) + 1 \in 1 .. Len(s) + 1 /\ (Len(s) + 1) - 1 = Len(s)
    BY <1>0
  <2>. QED BY <1>4, <1>5, <2>1
<1>8. ASSUME NEW i \in 1 .. Len(s)
      PROVE  /\ Start(s, i) \in Nat /\ Start(s, i + 1) = Start(s, i) + Len(s[i])
             /\ Start(s, i + 1) <= Len(FlattenSeq(s))
             /\ SubSeq(FlattenSeq(s), Start(s, i) + 1, Start(s, i + 1)) = s[i]
  <2> DEFINE a == h[i - 1]  b == s[i]  all == h[Len(s)]
  <2>1. i - 1 \in 0 .. Len(s) /\ i \in 1 .. Len(s) + 1 /\ i + 1 \in 1 .. Len(s) + 1 /\ (i + 1) - 1 = i
    BY <1>0
  <2>2. h[i] = a \o b
    BY <1>1 DEF Joins
  <2>3. a \in Seq(C) /\ b \in Seq(C) /\ all \in Seq(C) /\ Len(a) \in Nat /\ Len(b) \in Nat
    BY <1>0, <1>2, <2>1, LenProperties
  <2>4. /\ Len(h[i]) = Len(a) + Len(b)
        /\ \A p \in 1 .. Len(a) + Len(b) : h[i][p] = IF p <= Len(a) THEN a[p] ELSE b[p - Len(a)]
    <3> HIDE DEF a, b
    <3>. QED BY <2>2, <2>3, ConcatProperties
  <2>5. Len(h[i]) <= Len(all) /\ \A p \in 1 .. Len(h[i]) : all[p] = h[i][p]
    <3>1. i \in 0 .. Len(s)
      BY <1>0
    <3>. QED BY <1>3, <3>1 DEF Keeps
  <2>6. Start(s, i) = Len(a) /\ Start(s, i + 1) = Len(h[i])
    BY <1>5, <2>1
  <2>7. FlattenSeq(s) = all /\ Len(all) \in Nat
    BY <1>4, <2>3, LenProperties
  <2> HIDE DEF a, b, all
  <2>8. SubSeq(all, Len(a) + 1, Len(a) + Len(b)) = b
    <3> DEFINE t == SubSeq(all, Len(a) + 1, Len(a) + Len(b))
    <3>1. \A p \in Len(a) + 1 .. Len(a) + Len(b) : all[p] \in C /\ all[p] = b[p - Len(a)]
      <4> SUFFICES ASSUME NEW p \in Len(a) + 1 .. Len(a) + Len(b)
                   PROVE  all[p] \in C /\ all[p] = b[p - Len(a)]
        OBVIOUS
      <4>1. p \in 1 .. Len(h[i]) /\ p \in 1 .. Len(a) + Len(b) /\ ~(p <= Len(a)) /\ p - Len(a) \in 1 .. Len(b)
        BY <2>3, <2>4
      <4>2. b[p - Len(a)] \in C
        BY <2>3, <4>1, ElementOfSeq
      <4>. QED BY <2>4, <2>5, <4>1, <4>2
    <3>2. Len(a) + 1 \in Int /\ Len(a) + Len(b) \in Int
      BY <2>3
    <3>3. /\ t \in Seq(C)
          /\ Len(t) = IF Len(a) + 1 <= Len(a) + Len(b) THEN (Len(a) + Len(b)) - (Len(a) + 1) + 1 ELSE 0
          /\ \A p \in 1 .. (Len(a) + Len(b)) - (Len(a) + 1) + 1 : t[p] = all[(Len(a) + 1) + p - 1]
      BY <3>1, <3>2, SubSeqProperties
    <3> HIDE DEF t
    <3>4. Len(t) = Len(b)
      BY <2>3, <3>3
    <3>5. \A p \in 1 .. Len(t) : t[p] = b[p]
      <4> SUFFICES ASSUME NEW p \in 1 .. Len(b) PROVE t[p] = b[p]
        BY <3>4
      <4>1. /\ p \in 1 .. (Len(a) + Len(b)) - (Len(a) + 1) + 1
            /\ (Len(a) + 1) + p - 1 \in Len(a) + 1 .. Len(a) + Len(b)
            /\ ((Len(a) + 1) + p - 1) - Len(a) = p
        BY <2>3
      <4>. QED BY <3>1, <3>3, <4>1
    <3>6. t = b
      BY <2>3, <3>3, <3>4, <3>5, SeqEqual
    <3>. QED BY <3>6 DEF t
  <2>9. Start(s, i) \in Nat /\ Start(s, i + 1) = Start(s, i) + Len(b) /\ Start(s, i + 1) <= Len(all)
    BY <2>3, <2>4, <2>5, <2>6
  <2>10. SubSeq(all, Start(s, i) + 1, Start(s, i + 1)) = b
    BY <2>4, <2>6, <2>8
  <2>. QED BY <2>7, <2>9, <2>10 DEF b
<1>9. FlattenSeq(s) \in Seq(C)
  BY <1>0, <1>2, <1>4
<1>. QED BY <1>6, <1>7, <1>8, <1>9

\* Of sequences of at most one element, a flattened sequence has as many as there are
\* not empty, and has the element of each of these.
LEMMA FlattenCount ==
  ASSUME NEW C, NEW s \in Seq(Seq(C)), \A i \in 1 .. Len(s) : s[i] = <<>> \/ Len(s[i]) = 1
  PROVE  /\ Len(FlattenSeq(s)) = Cardinality({i \in 1 .. Len(s) : s[i] # <<>>})
         /\ \A i \in 1 .. Len(s) :
              s[i] # <<>> => \E j \in 1 .. Len(FlattenSeq(s)) : FlattenSeq(s)[j] = s[i][1]
<1> DEFINE Full(n) == {i \in 1 .. n : s[i] # <<>>}
           S == {n \in Nat : n <= Len(s) => IsFiniteSet(Full(n)) /\ Start(s, n + 1) = Cardinality(Full(n))}
<1>1. Len(s) \in Nat /\ \A i \in 1 .. Len(s) : s[i] \in Seq(C) /\ Len(s[i]) \in Nat
  BY ElementOfSeq, LenProperties
<1>2. /\ FlattenSeq(s) \in Seq(C) /\ Start(s, 1) = 0 /\ Start(s, Len(s) + 1) = Len(FlattenSeq(s))
      /\ \A i \in 1 .. Len(s) :
           /\ Start(s, i) \in Nat /\ Start(s, i + 1) = Start(s, i) + Len(s[i])
           /\ Start(s, i + 1) <= Len(FlattenSeq(s))
           /\ SubSeq(FlattenSeq(s), Start(s, i) + 1, Start(s, i + 1)) = s[i]
  BY FlattenCut
<1>3. 0 \in S
  <2>1. Full(0) = {}
    OBVIOUS
  <2>. QED BY <1>2, <2>1, FS_EmptySet
<1>4. ASSUME NEW n \in S PROVE n + 1 \in S
  <2> SUFFICES ASSUME n + 1 <= Len(s)
               PROVE  /\ IsFiniteSet(Full(n + 1))
                      /\ Start(s, (n + 1) + 1) = Cardinality(Full(n + 1))
    OBVIOUS
  <2>1. n \in Nat /\ n + 1 \in 1 .. Len(s) /\ n + 1 \notin Full(n)
    BY <1>1
  <2>2. IsFiniteSet(Full(n)) /\ Start(s, n + 1) = Cardinality(Full(n))
    BY <1>1, <2>1
  <2>3. Start(s, (n + 1) + 1) = Start(s, n + 1) + Len(s[n + 1])
    BY <1>2, <2>1
  <2>4. CASE s[n + 1] = <<>>
    <3>1. Full(n + 1) = Full(n)
      BY <2>1, <2>4
    <3>2. Len(s[n + 1]) = 0 /\ Start(s, n + 1) \in Nat
      BY <1>2, <2>1, <2>4
    <3>3. Start(s, (n + 1) + 1) = Start(s, n + 1)
      BY <2>3, <3>2
    <3>. QED BY <2>2, <3>1, <3>3
  <2>5. CASE s[n + 1] # <<>>
    <3>1. Full(n + 1) = Full(n) \cup {n + 1}
      BY <2>1, <2>5
    <3>2. Len(s[n + 1]) = 1
      BY <2>1, <2>5
    <3> HIDE DEF Full
    <3>3. IsFiniteSet(Full(n + 1)) /\ Cardinality(Full(n + 1)) = Cardinality(Full(n)) + 1
      BY <2>1, <2>2, <3>1, FS_AddElement
    <3>. QED BY <2>2, <2>3, <3>2, <3>3
  <2>. QED BY <2>4, <2>5
<1>5. S = Nat
  <2> HIDE DEF S
  <2>1. S \in SUBSET Nat
    BY DEF S
  <2>. QED BY <1>3, <1>4, <2>1, Induction
<1>6. Len(FlattenSeq(s)) = Cardinality(Full(Len(s)))
  <2>1. Len(s) \in S
    <3> HIDE DEF S
    <3>. QED BY <1>1, <1>5
  <2> HIDE DEF Full
  <2>. QED BY <1>1, <1>2, <2>1
<1>7. ASSUME NEW i \in 1 .. Len(s), s[i] # <<>>
      PROVE  \E j \in 1 .. Len(FlattenSeq(s)) : FlattenSeq(s)[j] = s[i][1]
  <2> DEFINE flat == FlattenSeq(s)
             k == Start(s, i)
  <2>1. flat \in Seq(C) /\ k \in Nat /\ k + 1 <= Len(flat) /\ SubSeq(flat, k + 1, k + 1) = s[i]
    <3>1. Len(s[i]) = 1
      BY <1>7
    <3>. QED BY <1>2, <3>1
  <2> HIDE DEF flat, k
  <2>2. k + 1 \in 1 .. Len(flat)
    BY <2>1
  <2>3. SubSeq(flat, k + 1, k + 1)[1] = flat[k + 1]
    BY <2>1, <2>2
  <2>. QED BY <2>1, <2>2, <2>3 DEF flat
<1>. QED BY <1>6, <1>7

\* The elements of a flattened sequence are those of its parts, each in its place.
LEMMA FlattenParts ==
  ASSUME NEW C, NEW s \in Seq(Seq(C))
  PROVE  /\ FlattenSeq(s) \in Seq(C)
         /\ \A i \in 1 .. Len(s) : \A p \in 1 .. Len(s[i]) :
              Start(s, i) + p \in 1 .. Len(FlattenSeq(s)) /\ FlattenSeq(s)[Start(s, i) + p] = s[i][p]
         /\ \A q \in 1 .. Len(FlattenSeq(s)) : \E i \in 1 .. Len(s) : \E p \in 1 .. Len(s[i]) :
              q = Start(s, i) + p /\ FlattenSeq(s)[q] = s[i][p]
<1>1. Len(s) \in Nat /\ \A i \in 1 .. Len(s) : s[i] \in Seq(C) /\ Len(s[i]) \in Nat
  BY ElementOfSeq, LenProperties
<1> DEFINE flat == FlattenSeq(s)
<1>2. /\ flat \in Seq(C) /\ Start(s, 1) = 0 /\ Start(s, Len(s) + 1) = Len(flat)
      /\ \A i \in 1 .. Len(s) :
           /\ Start(s, i) \in Nat /\ Start(s, i + 1) = Start(s, i) + Len(s[i])
           /\ Start(s, i + 1) <= Len(flat)
           /\ SubSeq(flat, Start(s, i) + 1, Start(s, i + 1)) = s[i]
  BY FlattenCut
<1> HIDE DEF flat
<1>3. ASSUME NEW i \in 1 .. Len(s), NEW p \in 1 .. Len(s[i])
      PROVE  Start(s, i) + p \in 1 .. Len(flat) /\ flat[Start(s, i) + p] = s[i][p]
  <2> DEFINE a == Start(s, i)  b == Start(s, i + 1)  l == Len(s[i])
  <2>1. a \in Nat /\ l \in Nat /\ b = a + l /\ b <= Len(flat) /\ SubSeq(flat, a + 1, b) = s[i] /\ p \in 1 .. l
    BY <1>1, <1>2
  <2> HIDE DEF a, b, l
  <2>2. Len(flat) \in Nat /\ flat \in Seq(C)
    BY <1>2
  <2>3. a + p \in 1 .. Len(flat) /\ p \in Nat /\ 1 <= p /\ p <= b - (a + 1) + 1
    BY <2>1, <2>2
  <2>4. SubSeq(flat, a + 1, b)[p] = flat[(a + 1) + p - 1]
    BY <2>1, <2>2, <2>3
  <2>5. (a + 1) + p - 1 = a + p
    BY <2>1
  <2>. QED BY <2>1, <2>3, <2>4, <2>5 DEF a
<1> DEFINE S == {n \in Nat : n <= Len(s) =>
                   \A q \in 1 .. Start(s, n + 1) : \E i \in 1 .. Len(s) : \E p \in 1 .. Len(s[i]) : q = Start(s, i) + p}
<1>4. 0 \in S
  BY <1>2
<1>5. ASSUME NEW n \in S PROVE n + 1 \in S
  <2> SUFFICES ASSUME n + 1 <= Len(s), NEW q \in 1 .. Start(s, (n + 1) + 1)
               PROVE  \E i \in 1 .. Len(s) : \E p \in 1 .. Len(s[i]) : q = Start(s, i) + p
    OBVIOUS
  <2> DEFINE a == Start(s, n + 1)  l == Len(s[n + 1])
  <2>1. n + 1 \in 1 .. Len(s) /\ n <= Len(s)
    BY <1>1
  <2>2. a \in Nat /\ l \in Nat /\ Start(s, (n + 1) + 1) = a + l
    BY <1>1, <1>2, <2>1
  <2>3. CASE q \in 1 .. a
    BY <2>1, <2>3
  <2>4. CASE q \notin 1 .. a
    <3>1. q \in 1 .. a + l
      BY <2>2
    <3> HIDE DEF a, l
    <3>2. q - a \in 1 .. l /\ q = a + (q - a)
      BY <2>2, <2>4, <3>1
    <3>. QED BY <2>1, <3>2 DEF a, l
  <2>. QED BY <2>3, <2>4
<1>6. Len(s) \in S
  <2>1. S \in SUBSET Nat
    OBVIOUS
  <2> HIDE DEF S
  <2>2. S = Nat
    BY <1>4, <1>5, <2>1, Induction
  <2>. QED BY <1>1, <2>2
<1>7. ASSUME NEW q \in 1 .. Len(flat)
      PROVE  \E i \in 1 .. Len(s) : \E p \in 1 .. Len(s[i]) : q = Start(s, i) + p
  BY <1>1, <1>2, <1>6
<1>8. ASSUME NEW q \in 1 .. Len(flat)
      PROVE  \E i \in 1 .. Len(s) : \E p \in 1 .. Len(s[i]) : q = Start(s, i) + p /\ flat[q] = s[i][p]
  BY <1>3, <1>7
<1>. QED BY <1>2, <1>3, <1>8 DEF flat
==============================================================================
