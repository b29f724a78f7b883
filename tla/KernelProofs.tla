---------------------------- MODULE KernelProofs ----------------------------
(***************************************************************************)
(* Proofs about the kernels: whatever the number of columns, the lanes of a*)
(* chunk, the workers and their slots, and whatever the order in which     *)
(* chunks are taken and done, a column is what the stages make of its own  *)
(* input, and a trace accounts for it value by value.  The stages together *)
(* are the Fourier transform, for every power of two, the modes make of it *)
(* what they promise, and two calls transform a matrix along both axes.    *)
(***************************************************************************)
EXTENDS FftPlanes, Induction

-----------------------------------------------------------------------------
(* Powers of two.                                                          *)

PowAt(f, i) == IF i = 0 THEN 1 ELSE 2 * f[i - 1]

(* The recursion has a solution up to any number ...                         *)
LEMMA PowUpto ==
  ASSUME NEW n \in Nat
  PROVE  \E f : f = [i \in 0..n |-> PowAt(f, i)]
<1> DEFINE T == {m \in Nat : \E f : f = [i \in 0..m |-> PowAt(f, i)]}
<1>1. 0 \in T
  <2> DEFINE f == [i \in 0..0 |-> 1]
  <2>1. \A i \in 0..0 : PowAt(f, i) = 1
    BY DEF PowAt
  <2>2. f = [i \in 0..0 |-> PowAt(f, i)]
    BY <2>1
  <2> QED BY <2>2
<1>2. ASSUME NEW m \in Nat, m \in T PROVE m + 1 \in T
  <2>1. PICK f : f = [i \in 0..m |-> PowAt(f, i)]
    BY <1>2
  <2> DEFINE new == PowAt(f, m + 1)
             g == [i \in 0..(m + 1) |-> IF i = m + 1 THEN new ELSE f[i]]
  <2>2. \A i \in 0..m : g[i] = f[i]
    OBVIOUS
  <2>3. g[m + 1] = new
    OBVIOUS
  <2>4. g = [i \in 0..(m + 1) |-> g[i]]
    OBVIOUS
  <2> HIDE DEF g
  <2>5. ASSUME NEW i \in 0..(m + 1) PROVE g[i] = PowAt(g, i)
    <3>1. i # 0 => i - 1 \in 0..m
      OBVIOUS
    <3>2. PowAt(g, i) = PowAt(f, i)
      BY <2>2, <3>1 DEF PowAt
    <3>3. CASE i = m + 1
      BY <2>3, <3>2, <3>3
    <3>4. CASE i # m + 1
      <4>1. i \in 0..m
        BY <3>4
      <4>2. f[i] = PowAt(f, i)
        BY <2>1, <4>1
      <4> QED BY <2>2, <3>2, <4>1, <4>2
    <3> QED BY <3>3, <3>4
  <2>6. g = [i \in 0..(m + 1) |-> PowAt(g, i)]
    BY <2>4, <2>5
  <2> QED BY <2>6
<1>3. n \in T
  <2> HIDE DEF T
  <2> QED BY <1>1, <1>2, SetInduction
<1> QED BY <1>3

(* ... and the solutions agree where they overlap.                           *)
LEMMA PowsAgree ==
  ASSUME NEW n \in Nat, NEW m \in Nat, n <= m,
         NEW f, f = [i \in 0..n |-> PowAt(f, i)],
         NEW g, g = [i \in 0..m |-> PowAt(g, i)]
  PROVE  \A i \in 0..n : f[i] = g[i]
<1> DEFINE T == {k \in Nat : k <= n => f[k] = g[k]}
<1>1. 0 \in T
  <2>1. 0 \in 0..n /\ 0 \in 0..m
    OBVIOUS
  <2>2. f[0] = PowAt(f, 0) /\ g[0] = PowAt(g, 0)
    BY <2>1
  <2> QED BY <2>2 DEF PowAt
<1>2. ASSUME NEW k \in Nat, k \in T PROVE k + 1 \in T
  <2> SUFFICES ASSUME k + 1 <= n PROVE f[k + 1] = g[k + 1]
    OBVIOUS
  <2>1. f[k] = g[k] /\ k + 1 \in 0..n /\ k + 1 \in 0..m /\ k + 1 # 0 /\ (k + 1) - 1 = k
    BY <1>2
  <2>2. f[k + 1] = PowAt(f, k + 1) /\ g[k + 1] = PowAt(g, k + 1)
    BY <2>1
  <2> QED BY <2>1, <2>2 DEF PowAt
<1>3. Nat \subseteq T
  <2> HIDE DEF T
  <2> QED BY <1>1, <1>2, SetInduction
<1> QED BY <1>3

(* The laws of powers, from which everything else follows.                   *)
LEMMA PowLaws == Pow2[0] = 1 /\ \A n \in Nat : Pow2[n + 1] = 2 * Pow2[n]
<1> DEFINE Upto(n) == CHOOSE f : f = [i \in 0..n |-> PowAt(f, i)]
           pow == [n \in Nat |-> Upto(n)[n]]
<1>1. \A n \in Nat : Upto(n) = [i \in 0..n |-> PowAt(Upto(n), i)]
  BY PowUpto
<1> HIDE DEF Upto
<1>2. ASSUME NEW n \in Nat PROVE pow[n] = PowAt(pow, n)
  <2>1. Upto(n)[n] = PowAt(Upto(n), n)
    BY <1>1
  <2>2. CASE n = 0
    BY <2>1, <2>2 DEF PowAt
  <2>3. CASE n # 0
    <3>1. n - 1 \in Nat /\ n - 1 <= n /\ n - 1 \in 0..(n - 1)
      BY <2>3
    <3>2. \A i \in 0..(n - 1) : Upto(n - 1)[i] = Upto(n)[i]
      BY <1>1, <3>1, PowsAgree
    <3>3. Upto(n - 1)[n - 1] = Upto(n)[n - 1]
      BY <3>1, <3>2
    <3>4. pow[n - 1] = Upto(n)[n - 1]
      BY <3>1, <3>3
    <3> QED BY <2>1, <2>3, <3>4 DEF PowAt
  <2> QED BY <2>2, <2>3
<1>3. pow = [n \in Nat |-> pow[n]]
  OBVIOUS
<1> HIDE DEF pow
<1>4. pow = [n \in Nat |-> PowAt(pow, n)]
  BY <1>2, <1>3
<1>5. Pow2 = [n \in Nat |-> PowAt(Pow2, n)]
  BY <1>4 DEF Pow2, PowAt
<1>6. \A n \in Nat : Pow2[n] = PowAt(Pow2, n)
  BY <1>5
<1>7. ASSUME NEW n \in Nat PROVE Pow2[n + 1] = 2 * Pow2[n]
  <2>1. n + 1 \in Nat /\ n + 1 # 0 /\ (n + 1) - 1 = n
    OBVIOUS
  <2> QED BY <1>6, <2>1 DEF PowAt
<1> QED BY <1>6, <1>7 DEF PowAt

(* Powers of two are positive numbers.                                       *)
LEMMA PowType == \A n \in Nat : Pow2[n] \in Nat \ {0}
<1> DEFINE T == {n \in Nat : Pow2[n] \in Nat \ {0}}
<1>1. 0 \in T
  BY PowLaws
<1>2. ASSUME NEW n \in Nat, n \in T PROVE n + 1 \in T
  BY <1>2, PowLaws
<1> HIDE DEF T
<1>3. Nat \subseteq T
  BY <1>1, <1>2, SetInduction
<1> QED BY <1>3 DEF T

(* They multiply as their exponents add.                                     *)
LEMMA PowSum ==
  ASSUME NEW m \in Nat, NEW n \in Nat
  PROVE  Pow2[m + n] = Pow2[m] * Pow2[n]
<1> DEFINE T == {k \in Nat : Pow2[m + k] = Pow2[m] * Pow2[k]}
<1>0. Pow2[m] \in Nat
  BY PowType
<1>1. 0 \in T
  BY <1>0, PowLaws
<1>2. ASSUME NEW k \in Nat, k \in T PROVE k + 1 \in T
  <2>1. Pow2[m + (k + 1)] = 2 * Pow2[m + k]
    <3>1. m + k \in Nat /\ m + (k + 1) = (m + k) + 1
      OBVIOUS
    <3> QED BY <3>1, PowLaws
  <2>2. Pow2[m + k] = Pow2[m] * Pow2[k] /\ Pow2[k + 1] = 2 * Pow2[k] /\ Pow2[k] \in Nat
    BY <1>2, PowLaws, PowType
  <2>3. Pow2[m] * (2 * Pow2[k]) = 2 * (Pow2[m] * Pow2[k])
    BY <1>0, <2>2
  <2> QED BY <2>1, <2>2, <2>3
<1> HIDE DEF T
<1>3. Nat \subseteq T
  BY <1>1, <1>2, SetInduction
<1> QED BY <1>3 DEF T

(* They grow.                                                                *)
LEMMA PowGrows ==
  ASSUME NEW m \in Nat, NEW n \in Nat, m < n
  PROVE  2 * Pow2[m] <= Pow2[n]
<1>1. n - (m + 1) \in Nat /\ n = (m + 1) + (n - (m + 1)) /\ m + 1 \in Nat
  OBVIOUS
<1>2. Pow2[n] = Pow2[m + 1] * Pow2[n - (m + 1)]
  BY <1>1, PowSum
<1>3. Pow2[m + 1] = 2 * Pow2[m] /\ Pow2[m] \in Nat /\ Pow2[n - (m + 1)] \in Nat \ {0}
  BY <1>1, PowLaws, PowType
<1> DEFINE a == Pow2[m + 1]
           b == Pow2[n - (m + 1)]
<1>4. a \in Nat /\ b \in Nat /\ b >= 1
  BY <1>3
<1> HIDE DEF a, b
<1>5. a <= a * b
  BY <1>4
<1> QED BY <1>2, <1>3, <1>5 DEF a, b

-----------------------------------------------------------------------------
(* The index arithmetic of a stage.                                        *)

PlanShape == N \in Nat \ {0} /\ LgN \in Nat /\ Pow2[LgN] = N

\* Half the length of a block, and the number of blocks, of stage s.
Half(s) == Pow2[s]
Rest(s) == N \div Pow2[s + 1]

(* Lengths and counts of a stage multiply to the length of a column.         *)
LEMMA StageShape ==
  ASSUME PlanShape, NEW s \in 0..(LgN - 1)
  PROVE  /\ Half(s) \in Nat \ {0} /\ Rest(s) \in Nat \ {0} /\ Pow2[s + 1] = 2 * Half(s)
         /\ N = Rest(s) * (2 * Half(s)) /\ N \div (2 * Half(s)) = Rest(s)
         /\ N = 2 * (Rest(s) * Half(s)) /\ N \div 2 = Rest(s) * Half(s)
<1>1. s \in Nat /\ s + 1 \in Nat /\ LgN - (s + 1) \in Nat /\ (s + 1) + (LgN - (s + 1)) = LgN
  BY DEF PlanShape
<1> DEFINE len == Pow2[s + 1]
           q == Pow2[LgN - (s + 1)]
           h == Half(s)
<1>2. N = len * q
  BY <1>1, PowSum DEF PlanShape
<1>3. len \in Nat \ {0} /\ q \in Nat \ {0} /\ h \in Nat \ {0} /\ len = 2 * h
  BY <1>1, PowType, PowLaws DEF Half
<1> HIDE DEF len, q, h
<1>4. N = q * len + 0 /\ N \in Nat
  BY <1>2, <1>3
<1>5. N \div len = q
  BY <1>3, <1>4, DivisionOf
<1>6. q * len = 2 * (q * h) /\ q * h \in Nat
  BY <1>3
<1>7. N = 2 * (q * h) /\ N \div 2 = q * h
  BY <1>4, <1>6
<1>8. Rest(s) = q
  BY <1>5 DEF Rest, len
<1>9. N \div (2 * h) = q /\ Pow2[s + 1] = 2 * h /\ N = q * (2 * h)
  BY <1>3, <1>4, <1>5 DEF len
<1> QED BY <1>3, <1>7, <1>8, <1>9 DEF h

(* The table of twiddles finds the stage of a place.                         *)
LEMMA TwiddleAt ==
  ASSUME PlanShape, NEW s \in 0..(LgN - 1), NEW j \in 0..(Half(s) - 1)
  PROVE  TwiddleTable[(Half(s) - 1) + j] = Twiddle(j * Rest(s))
<1> DEFINE h == Half(s)
           place == (h - 1) + j
           Within(t) == Pow2[t] <= place + 1 /\ place + 1 < Pow2[t + 1]
           u == CHOOSE t \in 0..LgN : Within(t)
<1>1. /\ h \in Nat \ {0} /\ Rest(s) \in Nat \ {0} /\ Pow2[s + 1] = 2 * h /\ Pow2[s] = h
      /\ N = 2 * (Rest(s) * h) /\ LgN \in Nat /\ s \in 0..LgN /\ s \in Nat
  BY StageShape DEF PlanShape, Half
<1>2. place \in Nat /\ place + 1 = h + j /\ Within(s)
  BY <1>1
<1>3. u \in 0..LgN /\ Within(u)
  <2> HIDE DEF Within
  <2> QED BY <1>1, <1>2
<1> HIDE DEF u
<1>4. u = s
  <2>1. u \in Nat /\ Pow2[u] \in Nat /\ Pow2[u + 1] = 2 * Pow2[u]
    BY <1>1, <1>3, PowLaws, PowType
  <2>2. CASE u < s
    <3>1. 2 * Pow2[u] <= Pow2[s]
      BY <1>1, <2>1, <2>2, PowGrows
    <3> QED BY <1>1, <1>2, <1>3, <2>1, <3>1
  <2>3. CASE s < u
    <3>1. 2 * Pow2[s] <= Pow2[u]
      BY <1>1, <2>1, <2>3, PowGrows
    <3> QED BY <1>1, <1>2, <1>3, <2>1, <3>1
  <2> QED BY <1>1, <2>1, <2>2, <2>3
<1>5. place \in 0..(N - 2)
  <2>1. Rest(s) * h >= h /\ Rest(s) * h \in Nat
    BY <1>1
  <2> QED BY <1>1, <1>2, <2>1
<1>6. TwiddleTable[place] = Twiddle((place + 1 - Pow2[u]) * (N \div Pow2[u + 1]))
  BY <1>5 DEF TwiddleTable, u
<1>7. place + 1 - Pow2[s] = j
  BY <1>1, <1>2
<1> QED BY <1>4, <1>6, <1>7 DEF Rest

\* The first of the two elements that make element i in stage s of
\* Cooley-Tukey, and in that of Stockham.
BlockOf(s, i) == (2 * Half(s)) * (i \div (2 * Half(s))) + (i % Half(s))
FirstOf(s, i) == (2 * ((i % (N \div 2)) \div Rest(s)) * Rest(s)) + (i % Rest(s))

(* What stage s of Cooley-Tukey makes of a column, with the elements and the *)
(* twiddle its trace names.                                                  *)
LEMMA StagedExplained ==
  ASSUME PlanShape, NEW s \in 0..(LgN - 1), NEW i \in Positions, NEW v
  PROVE  LET h == Half(s)
             a == BlockOf(s, i)
             k == i % h
             t == Turned(v[a + h], Twiddle(k * Rest(s)))
         IN  /\ a \in Positions /\ a + h \in Positions
             /\ k \in 0..(h - 1) /\ (k * Rest(s)) \div Rest(s) = k
             /\ Staged(v, s)[i] = IF i = a THEN Plus(v[a], t) ELSE Minus(v[a], t)
<1> DEFINE h == Half(s)
           q == Rest(s)
           len == 2 * h
           b == i \div len
           r == i % len
           k == i % h
           a == BlockOf(s, i)
<1>1. h \in Nat \ {0} /\ q \in Nat \ {0} /\ len \in Nat \ {0} /\ N = q * len /\ i \in Nat /\ i < N
      /\ N \div len = q
  BY StageShape DEF Positions, PlanShape
<1>2. b \in Nat /\ r \in 0..(len - 1) /\ i = len * b + r /\ k \in 0..(h - 1)
  <2> HIDE DEF len, h
  <2> QED BY <1>1, Division
<1>3. a = len * b + k
  BY DEF BlockOf
<1>4. b < q
  <2> HIDE DEF len, q, h
  <2> QED BY <1>1, DivisionBelow
<1> HIDE DEF b, r, a, q, k, h
<1>5. len * b + len <= N /\ len * b \in Nat
  <2>1. len * (b + 1) <= len * q
    BY <1>1, <1>2, <1>4
  <2> QED BY <1>1, <1>2, <2>1
<1>6. a \in 0..(N - 1) /\ a + h \in 0..(N - 1)
  BY <1>1, <1>2, <1>3, <1>5
<1>7. r < h <=> i = a
  <2>1. ASSUME r < h PROVE k = r
    <3>1. i = (2 * b) * h + r /\ 2 * b \in Nat /\ r \in Nat
      BY <1>1, <1>2
    <3>2. ((2 * b) * h + r) % h = r
      BY <1>1, <2>1, <3>1, DivisionOf
    <3> QED BY <3>1, <3>2 DEF k
  <2> QED BY <1>1, <1>2, <1>3, <1>5, <2>1
<1>8. (k * q) \div q = k
  <2>1. k * q = k * q + 0 /\ k \in Nat /\ 0 < q
    BY <1>1, <1>2
  <2>2. (k * q + 0) \div q = k
    BY <1>1, <2>1, DivisionOf
  <2> QED BY <1>1, <1>2, <2>1, <2>2
<1>9. Staged(v, s)[i] =
        IF r < h THEN Y0(v[len * b + k], v[len * b + k + h], k * q)
                 ELSE Y1(v[len * b + k], v[len * b + k + h], k * q)
  BY <1>1 DEF Staged, Half, h, b, r, k
<1>10. Staged(v, s)[i] = IF i = a THEN Y0(v[a], v[a + h], k * q) ELSE Y1(v[a], v[a + h], k * q)
  BY <1>3, <1>7, <1>9
<1> QED BY <1>2, <1>6, <1>8, <1>10 DEF Positions, Y0, Y1, h, k, a, q

(* The same of Stockham.                                                     *)
LEMMA ScatteredExplained ==
  ASSUME PlanShape, NEW s \in 0..(LgN - 1), NEW i \in Positions, NEW v
  PROVE  LET q == Rest(s)
             a == FirstOf(s, i)
             j == (i % (N \div 2)) \div q
             t == Turned(v[a + q], Twiddle(j * q))
         IN  /\ a \in Positions /\ a + q \in Positions
             /\ j \in 0..(Half(s) - 1) /\ (j * q) \div q = j
             /\ Scattered(v, s)[i] = IF 2 * i < N THEN Plus(v[a], t) ELSE Minus(v[a], t)
<1> DEFINE h == Half(s)
           q == Rest(s)
           half == N \div 2
           m == i % half
           j == m \div q
           g == i % q
           a == FirstOf(s, i)
<1>1. /\ h \in Nat \ {0} /\ q \in Nat \ {0} /\ half = q * h /\ half \in Nat \ {0} /\ N = 2 * half
      /\ i \in Nat /\ i < N
  <2>1. h \in Nat \ {0} /\ q \in Nat \ {0} /\ half = q * h /\ N = 2 * (q * h)
    BY StageShape
  <2>2. q * h \in Nat \ {0}
    BY <2>1
  <2> QED BY <2>1, <2>2 DEF Positions, PlanShape
<1>2. m \in Nat /\ m < half
  <2> HIDE DEF half
  <2>1. m \in 0..(half - 1)
    BY <1>1, Division
  <2> QED BY <1>1, <2>1
<1>3. j \in Nat /\ j < h /\ g \in 0..(q - 1)
  <2> HIDE DEF m, q, half, h
  <2>1. m < h * q
    BY <1>1, <1>2
  <2> QED BY <1>1, <1>2, <2>1, Division, DivisionBelow
<1>4. a = (2 * j) * q + g
  BY DEF FirstOf
<1> HIDE DEF j, g, m, a, q, h, half
<1>5. (2 * j) * q + (2 * q) <= N /\ (2 * j) * q \in Nat
  <2>1. (j + 1) * q <= h * q
    BY <1>1, <1>3
  <2>2. (2 * j) * q + (2 * q) = 2 * ((j + 1) * q) /\ h * q = half
    BY <1>1, <1>3
  <2>3. (j + 1) * q \in Nat /\ (2 * j) * q \in Nat
    BY <1>1, <1>3
  <2> QED BY <1>1, <2>1, <2>2, <2>3
<1>6. a \in 0..(N - 1) /\ a + q \in 0..(N - 1)
  BY <1>1, <1>3, <1>4, <1>5
<1>7. (2 * j + 1) * q + g = a + q
  BY <1>1, <1>3, <1>4
<1>8. (j * q) \div q = j
  <2>1. j * q = j * q + 0 /\ 0 < q
    BY <1>1, <1>3
  <2>2. (j * q + 0) \div q = j
    BY <1>1, <1>3, <2>1, DivisionOf
  <2> QED BY <2>1, <2>2
<1>9. Scattered(v, s)[i] =
        IF i < half THEN Y0(v[(2 * j) * q + g], v[(2 * j + 1) * q + g], j * q)
                    ELSE Y1(v[(2 * j) * q + g], v[(2 * j + 1) * q + g], j * q)
  BY <1>1 DEF Scattered, Rest, half, j, g, m, q
<1>10. i < half <=> 2 * i < N
  BY <1>1
<1>11. Scattered(v, s)[i] = IF 2 * i < N THEN Y0(v[a], v[a + q], j * q) ELSE Y1(v[a], v[a + q], j * q)
  BY <1>4, <1>7, <1>9, <1>10
<1>12. j \in 0..(h - 1)
  BY <1>1, <1>3
<1> QED BY <1>6, <1>8, <1>11, <1>12 DEF Positions, Y0, Y1, h, j, a, q, m, half

-----------------------------------------------------------------------------
(* The stages one after the other.                                         *)

LevelAt(f, v, s) == IF s = 0 THEN v ELSE StageOf(f[s - 1], s - 1)

(* A column has a value after each number of stages, ...                     *)
LEMMA LevelsExist ==
  ASSUME NEW n \in Nat, NEW v
  PROVE  \E f : f = [s \in 0..n |-> LevelAt(f, v, s)]
<1> DEFINE T == {m \in Nat : \E f : f = [s \in 0..m |-> LevelAt(f, v, s)]}
<1>1. 0 \in T
  <2> DEFINE f == [s \in 0..0 |-> v]
  <2>1. \A s \in 0..0 : LevelAt(f, v, s) = v
    BY DEF LevelAt
  <2>2. f = [s \in 0..0 |-> LevelAt(f, v, s)]
    BY <2>1
  <2> QED BY <2>2
<1>2. ASSUME NEW m \in Nat, m \in T PROVE m + 1 \in T
  <2>1. PICK f : f = [s \in 0..m |-> LevelAt(f, v, s)]
    BY <1>2
  <2> DEFINE new == LevelAt(f, v, m + 1)
             g == [s \in 0..(m + 1) |-> IF s = m + 1 THEN new ELSE f[s]]
  <2>2. \A s \in 0..m : g[s] = f[s]
    OBVIOUS
  <2>3. g[m + 1] = new
    OBVIOUS
  <2>4. g = [s \in 0..(m + 1) |-> g[s]]
    OBVIOUS
  <2> HIDE DEF g
  <2>5. ASSUME NEW s \in 0..(m + 1) PROVE g[s] = LevelAt(g, v, s)
    <3>1. s # 0 => s - 1 \in 0..m
      OBVIOUS
    <3>2. LevelAt(g, v, s) = LevelAt(f, v, s)
      BY <2>2, <3>1 DEF LevelAt
    <3>3. CASE s = m + 1
      BY <2>3, <3>2, <3>3
    <3>4. CASE s # m + 1
      <4>1. s \in 0..m
        BY <3>4
      <4>2. f[s] = LevelAt(f, v, s)
        BY <2>1, <4>1
      <4> QED BY <2>2, <3>2, <4>1, <4>2
    <3> QED BY <3>3, <3>4
  <2>6. g = [s \in 0..(m + 1) |-> LevelAt(g, v, s)]
    BY <2>4, <2>5
  <2> QED BY <2>6
<1>3. n \in T
  <2> HIDE DEF T
  <2> QED BY <1>1, <1>2, SetInduction
<1> QED BY <1>3

(* ... each of which follows from the one before.                            *)
LEMMA LevelLaws ==
  ASSUME LgN \in Nat, NEW v
  PROVE  /\ Levels(v)[0] = v
         /\ \A s \in 0..(LgN - 1) : Levels(v)[s + 1] = StageOf(Levels(v)[s], s)
<1> DEFINE f == CHOOSE f : f = [s \in 0..LgN |-> LevelAt(f, v, s)]
<1>1. Levels(v) = f
  BY DEF Levels, LevelAt
<1>2. f = [s \in 0..LgN |-> LevelAt(f, v, s)]
  BY LevelsExist
<1> HIDE DEF f
<1>3. f[0] = v
  BY <1>2 DEF LevelAt
<1>4. ASSUME NEW s \in 0..(LgN - 1) PROVE f[s + 1] = StageOf(f[s], s)
  <2>1. s + 1 \in 0..LgN /\ s + 1 # 0 /\ (s + 1) - 1 = s
    OBVIOUS
  <2> QED BY <1>2, <2>1 DEF LevelAt
<1> QED BY <1>1, <1>3, <1>4

-----------------------------------------------------------------------------
(* The invariant of a call.                                                *)

Ct == plan.kernel = "cooleytukey"

\* What the first stage finds of column c, its values after each number of
\* stages, and what it ends as but for the post-transform.
Begun(c) == IF Ct THEN Permuted(Prepared(input[c])) ELSE input[c]
Stages(c) == Levels(Begun(c))
Result(c) == Scaled(Stages(c)[LgN])

\* The trace of element i of column c after stage s.
EntryOf(c, s, i) ==
  IF Ct
  THEN Entry(Stages(c)[s + 1][i], <<BlockOf(s, i), BlockOf(s, i) + Half(s)>>, (i % Half(s)) * Rest(s))
  ELSE Entry(Stages(c)[s + 1][i], <<FirstOf(s, i), FirstOf(s, i) + Rest(s)>>,
             ((i % (N \div 2)) \div Rest(s)) * Rest(s))

\* The columns a trace is written of.
Wanted == CASE asked = "first" -> {0}
            [] asked = "all" -> IF Ct THEN Columns ELSE {}
            [] OTHER -> {}

Chunk(c) == c \div Lanes
Held(c) == \E w \in Workers : task[w] = Chunk(c)
Gone(c) == Chunk(c) < next /\ ~Held(c)
Done(c) == Gone(c) /\ Chunk(c) \notin lost

\* In tasks t, the worker the chunk of column c is with.
HolderIn(t, c) == CHOOSE w \in Workers : t[w] = Chunk(c)
Counted(s) == IF s = -1 THEN 0 ELSE s

\* The stages column c has been through, as far as the trace goes.
Depth(c) ==
  CASE phase = "stage" -> IF Gone(c) THEN stage + 1 ELSE stage
    [] phase = "chunks" /\ Held(c) -> Counted(step[HolderIn(task, c)])
    [] phase = "chunks" /\ ~Held(c) -> IF Done(c) THEN LgN ELSE 0
    [] phase \in {"scale", "post", "done"} -> IF Chunk(c) \in lost THEN 0 ELSE LgN
    [] OTHER -> 0

CallShape ==
  /\ PlanShape
  /\ plan.kernel \in {"cooleytukey", "stockham"}
  /\ asked \in {"none", "first", "all"}
  /\ asked # "none" => plan.mode = "C2C"

DataShape ==
  /\ Cardinality(Columns) \in Nat \ {0}
  /\ Columns = 0..(Cardinality(Columns) - 1)
  /\ DOMAIN input = Columns
  /\ data = [c \in Columns |-> data[c]]

\* Chunks go to one worker each, in turn.
TaskInv ==
  /\ next \in 0..ChunkCount
  /\ task \in [Workers -> {Idle} \cup 0..(next - 1)]
  /\ \A v, w \in Workers : task[v] = task[w] /\ task[v] # Idle => v = w
  /\ ~Dispatching => next = 0

PhaseInv ==
  /\ phase \in {"pre", "permute", "stage", "scale", "chunks", "post", "done"}
  /\ phase \in {"pre", "permute", "stage", "scale"} => Ct
  /\ phase = "chunks" => ~Ct
  /\ phase \in {"pre", "permute", "chunks"} => stage = 0
  /\ phase = "stage" => stage \in 0..(LgN - 1)
  /\ lost \subseteq Nat
  /\ lost # {} => SlotCapacity < Threads
  /\ Ct => lost = {}
  /\ phase = "chunks" => \A k \in lost : k < next /\ \A w \in Workers : task[w] # k

\* A chunk's buffers hold its columns after the stages its worker has done.
BufferInv ==
  /\ step \in [Workers -> -1..LgN]
  /\ ping = [w \in Workers |-> ping[w]] /\ pong = [w \in Workers |-> pong[w]]
  /\ \A w \in Workers : step[w] # -1 =>
       /\ phase = "chunks" /\ task[w] # Idle /\ w < SlotCapacity
       /\ (IF step[w] % 2 = 0 THEN ping[w] ELSE pong[w])
            = [c \in ColumnsOf(task[w]) |-> Stages(c)[step[w]]]

DataInv ==
  \A c \in Columns :
    /\ phase = "pre" => data[c] = input[c]
    /\ phase = "permute" => data[c] = IF Gone(c) THEN Begun(c) ELSE Prepared(input[c])
    /\ phase = "stage" => data[c] = Stages(c)[Depth(c)]
    /\ phase = "scale" => data[c] = Stages(c)[LgN]
    /\ phase = "chunks" => data[c] = IF Done(c) THEN Result(c) ELSE input[c]
    /\ phase = "post" => data[c] = IF Chunk(c) \in lost THEN input[c] ELSE Result(c)
    /\ phase = "done" => data[c] = Finished(IF Chunk(c) \in lost THEN input[c] ELSE Result(c))

TraceInv ==
  /\ DOMAIN trace = {x \in (0..(LgN - 1)) \X Wanted \X Positions : x[1] < Depth(x[2])}
  /\ \A x \in DOMAIN trace : trace[x] = EntryOf(x[2], x[1], x[3])

KernelInv ==
  CallShape /\ DataShape /\ TaskInv /\ PhaseInv /\ BufferInv /\ DataInv /\ TraceInv

(* What depends on the call alone stays as it is through the call's steps.   *)
LEMMA CallKept ==
  ASSUME UNCHANGED call
  PROVE  /\ N' = N /\ LgN' = LgN /\ Positions' = Positions /\ Ct' = Ct
         /\ \A c : /\ Begun(c)' = Begun(c) /\ Stages(c)' = Stages(c) /\ Result(c)' = Result(c)
         /\ \A v : Prepared(v)' = Prepared(v) /\ Finished(v)' = Finished(v)
         /\ \A c, s, i : EntryOf(c, s, i)' = EntryOf(c, s, i)
         /\ CallShape' = CallShape
<1>1. plan' = plan /\ input' = input /\ asked' = asked
  BY DEF call
<1>2. N' = N /\ LgN' = LgN /\ Positions' = Positions /\ Ct' = Ct
  BY <1>1 DEF N, LgN, Positions, Ct
<1>3. \A v : Prepared(v)' = Prepared(v) /\ Finished(v)' = Finished(v)
  BY <1>1 DEF Prepared, Finished, Mirrored, Positions, N
<1>4. \A c : Begun(c)' = Begun(c)
  BY <1>1 DEF Begun, Ct, Permuted, BitRev, LgN, Positions, N, Prepared, Mirrored
<1>5. \A c : Stages(c)' = Stages(c)
  BY <1>1 DEF Stages, Begun, Ct, Permuted, BitRev, LgN, Positions, N, Prepared, Mirrored,
              Levels, StageOf, Staged, Scattered, Y0, Y1, Twiddle
<1>6. \A c : Result(c)' = Result(c)
  BY <1>1 DEF Result, Scaled, Stages, Begun, Ct, Permuted, BitRev, LgN, Positions, N, Prepared,
              Mirrored, Levels, StageOf, Staged, Scattered, Y0, Y1, Twiddle
<1>7. \A c, s, i : EntryOf(c, s, i)' = EntryOf(c, s, i)
  BY <1>1 DEF EntryOf, BlockOf, FirstOf, Half, Rest,
              Stages, Begun, Ct, Permuted, BitRev, LgN, Positions, N, Prepared,
              Mirrored, Levels, StageOf, Staged, Scattered, Y0, Y1, Twiddle
<1>8. CallShape' = CallShape
  BY <1>1 DEF CallShape, PlanShape, LgN, N
<1> QED BY <1>2, <1>3, <1>4, <1>5, <1>6, <1>7, <1>8

(* The columns and their chunks.                                             *)
LEMMA ChunkFacts ==
  ASSUME DataShape
  PROVE  /\ Lanes \in Nat \ {0} /\ ChunkCount \in Nat /\ 0 \in Columns /\ Chunk(0) = 0
         /\ \A c \in Columns : c \in Nat /\ Chunk(c) \in Nat /\ Chunk(c) < ChunkCount
         /\ \A c, k : c \in ColumnsOf(k) <=> c \in Columns /\ Chunk(c) = k
<1> DEFINE n == Cardinality(Columns)
<1>1. Lanes \in Nat \ {0}
  BY KernelsAssumption
<1>2. n \in Nat \ {0} /\ Columns = 0..(n - 1)
  BY DEF DataShape
<1>3. n + Lanes - 1 \in Nat
  BY <1>1, <1>2
<1>4. ChunkCount = (n + Lanes - 1) \div Lanes
  BY DEF ChunkCount
<1> HIDE DEF n
<1>5. ChunkCount \in Nat /\ n + Lanes - 1 < (ChunkCount + 1) * Lanes
  <2>1. ChunkCount \in Nat
    BY <1>1, <1>3, <1>4, Division
  <2>2. /\ n + Lanes - 1 = Lanes * ChunkCount + ((n + Lanes - 1) % Lanes)
        /\ (n + Lanes - 1) % Lanes \in 0..(Lanes - 1)
    BY <1>1, <1>3, <1>4, Division
  <2>3. (ChunkCount + 1) * Lanes = Lanes * ChunkCount + Lanes /\ Lanes * ChunkCount \in Nat
    BY <1>1, <2>1
  <2> QED BY <1>1, <1>3, <2>1, <2>2, <2>3
<1>6. ASSUME NEW c \in Columns PROVE c \in Nat /\ Chunk(c) \in Nat /\ Chunk(c) < ChunkCount
  <2>1. c \in Nat /\ c < n
    BY <1>2
  <2>2. ChunkCount * Lanes \in Nat /\ (ChunkCount + 1) * Lanes = ChunkCount * Lanes + Lanes
    BY <1>1, <1>5
  <2>3. c < ChunkCount * Lanes
    BY <1>1, <1>2, <1>5, <2>1, <2>2
  <2> QED BY <1>1, <1>5, <2>1, <2>3, Division, DivisionBelow DEF Chunk
<1>7. 0 \in Columns /\ Chunk(0) = 0
  <2>1. 0 \in Columns
    BY <1>2
  <2>2. (0 * Lanes + 0) \div Lanes = 0
    BY <1>1, DivisionOf
  <2>3. 0 * Lanes + 0 = 0
    BY <1>1
  <2> QED BY <2>1, <2>2, <2>3 DEF Chunk
<1>8. \A c, k : c \in ColumnsOf(k) <=> c \in Columns /\ Chunk(c) = k
  BY DEF ColumnsOf, Chunk
<1> QED BY <1>1, <1>5, <1>6, <1>7, <1>8

(* Steps of a call change no shape.                                          *)
LEMMA ShapeKept ==
  ASSUME KernelInv, UNCHANGED call, DOMAIN data' = Columns, data' = [c \in Columns |-> data'[c]]
  PROVE  /\ Columns' = Columns /\ ChunkCount' = ChunkCount /\ Wanted' = Wanted
         /\ \A k : ColumnsOf(k)' = ColumnsOf(k)
         /\ DataShape' /\ CallShape'
<1>1. Columns' = Columns
  BY DEF Columns
<1>2. ChunkCount' = ChunkCount
  BY <1>1 DEF ChunkCount
<1>3. Wanted' = Wanted
  BY <1>1, CallKept DEF Wanted, call
<1>4. \A k : ColumnsOf(k)' = ColumnsOf(k)
  BY <1>1 DEF ColumnsOf
<1>5. DataShape'
  BY <1>1 DEF KernelInv, DataShape, call
<1> QED BY <1>1, <1>2, <1>3, <1>4, <1>5, CallKept DEF KernelInv

(* A trace that is not written to stays true while its columns stay at their *)
(* stages.                                                                   *)
LEMMA TraceStays ==
  ASSUME KernelInv, UNCHANGED call, Columns' = Columns, trace' = trace, Wanted' = Wanted,
         \A c \in Columns : Depth(c)' = Depth(c)
  PROVE  TraceInv'
<1>1. Wanted \subseteq Columns
  <2>1. 0 \in Columns
    BY ChunkFacts DEF KernelInv
  <2> QED BY <2>1 DEF Wanted
<1>2. LgN' = LgN /\ Positions' = Positions /\ \A c, s, i : EntryOf(c, s, i)' = EntryOf(c, s, i)
  BY CallKept
<1>3. \A x \in (0..(LgN - 1)) \X Wanted \X Positions : Depth(x[2])' = Depth(x[2])
  BY <1>1
<1>4. {x \in (0..(LgN' - 1)) \X Wanted' \X Positions' : x[1] < Depth(x[2])'}
        = {x \in (0..(LgN - 1)) \X Wanted \X Positions : x[1] < Depth(x[2])}
  BY <1>2, <1>3
<1>5. \A x \in DOMAIN trace : trace[x] = EntryOf(x[2], x[1], x[3])
  BY DEF KernelInv, TraceInv
<1>6. DOMAIN trace = {x \in (0..(LgN - 1)) \X Wanted \X Positions : x[1] < Depth(x[2])}
  BY DEF KernelInv, TraceInv
<1> QED BY <1>2, <1>4, <1>5, <1>6 DEF TraceInv

(* One stage of a chunk's columns extends it by that stage of those columns. *)
LEMMA TraceGrows ==
  ASSUME KernelInv, UNCHANGED call, Columns' = Columns, Wanted' = Wanted,
         NEW s \in 0..(LgN - 1), NEW K \in SUBSET Columns,
         trace' = Overlaid(trace, [x \in {s} \X (Wanted \cap K) \X Positions |-> EntryOf(x[2], x[1], x[3])]),
         \A c \in Columns : Depth(c)' = IF c \in K THEN s + 1 ELSE Depth(c),
         \A c \in K : Depth(c) = s
  PROVE  TraceInv'
<1> DEFINE Old == (0..(LgN - 1)) \X Wanted \X Positions
           New == {s} \X (Wanted \cap K) \X Positions
           g == [x \in New |-> EntryOf(x[2], x[1], x[3])]
<1>1. Wanted \subseteq Columns /\ LgN \in Nat
  <2>1. 0 \in Columns
    BY ChunkFacts DEF KernelInv
  <2> QED BY <2>1 DEF Wanted, KernelInv, CallShape, PlanShape
<1>2. LgN' = LgN /\ Positions' = Positions /\ \A c, i, j : EntryOf(c, i, j)' = EntryOf(c, i, j)
  BY CallKept
<1>3. DOMAIN trace = {x \in Old : x[1] < Depth(x[2])}
  BY DEF KernelInv, TraceInv
<1>4. \A x \in DOMAIN trace : trace[x] = EntryOf(x[2], x[1], x[3])
  BY DEF KernelInv, TraceInv
<1>5. DOMAIN g = New /\ \A x \in New : g[x] = EntryOf(x[2], x[1], x[3])
  OBVIOUS
<1> HIDE DEF g
<1>6. /\ DOMAIN trace' = DOMAIN trace \cup New
      /\ \A x \in DOMAIN trace \cup New : trace'[x] = IF x \in New THEN g[x] ELSE trace[x]
  BY <1>5 DEF Overlaid, g
<1>7. ASSUME NEW x \in Old PROVE x[1] < Depth(x[2])' <=> x \in DOMAIN trace \cup New
  <2>1. x[1] \in 0..(LgN - 1) /\ x[2] \in Wanted /\ x[2] \in Columns /\ x[3] \in Positions
        /\ x = <<x[1], x[2], x[3]>>
    BY <1>1
  <2>2. CASE x[2] \in K
    <3>1. Depth(x[2])' = s + 1 /\ Depth(x[2]) = s
      BY <2>1, <2>2
    <3>2. x \in New <=> x[1] = s
      BY <2>1, <2>2
    <3> QED BY <1>3, <2>1, <3>1, <3>2
  <2>3. CASE x[2] \notin K
    <3>1. Depth(x[2])' = Depth(x[2])
      BY <2>1, <2>3
    <3>2. x \notin New
      BY <2>3
    <3> QED BY <1>3, <3>1, <3>2
  <2> QED BY <2>2, <2>3
<1>8. DOMAIN trace \cup New \subseteq Old
  BY <1>1, <1>3
<1>9. DOMAIN trace' = {x \in Old : x[1] < Depth(x[2])'}
  BY <1>6, <1>7, <1>8
<1>10. \A x \in DOMAIN trace' : trace'[x] = EntryOf(x[2], x[1], x[3])
  BY <1>4, <1>5, <1>6
<1> QED BY <1>2, <1>9, <1>10 DEF TraceInv

(* One chunk is given back: its columns are done, the others as before.      *)
LEMMA Released ==
  ASSUME DataShape, TaskInv, NEW w \in Workers, task[w] # Idle, Settled(w), UNCHANGED next
  PROVE  /\ task' \in [Workers -> {Idle} \cup 0..(next - 1)]
         /\ \A u, v \in Workers : task'[u] = task'[v] /\ task'[u] # Idle => u = v
         /\ \A u \in Workers : task'[u] = IF u = w THEN Idle ELSE task[u]
         /\ task[w] \in 0..(next - 1)
         /\ \A c \in Columns :
              /\ Chunk(c) = task[w] => Held(c) /\ ~Gone(c) /\ ~Held(c)' /\ Gone(c)'
              /\ Chunk(c) # task[w] => (Held(c)' <=> Held(c)) /\ (Gone(c)' <=> Gone(c))
<1>1. task' = [task EXCEPT ![w] = Idle]
  BY DEF Settled
<1>2. next \in Nat /\ task[w] \in 0..(next - 1) /\ Idle = -1
  BY ChunkFacts DEF TaskInv, Idle
<1>3. \A u \in Workers : task'[u] = IF u = w THEN Idle ELSE task[u]
  BY <1>1 DEF TaskInv
<1>4. task' \in [Workers -> {Idle} \cup 0..(next - 1)]
  BY <1>1 DEF TaskInv
<1>5. \A u, v \in Workers : task'[u] = task'[v] /\ task'[u] # Idle => u = v
  BY <1>3 DEF TaskInv
<1>6. ASSUME NEW c \in Columns, Chunk(c) = task[w]
      PROVE  Held(c) /\ ~Gone(c) /\ ~Held(c)' /\ Gone(c)'
  <2>1. \A u \in Workers : task'[u] # Chunk(c)
    BY <1>2, <1>3, <1>6 DEF TaskInv
  <2> QED BY <1>2, <1>6, <2>1 DEF Held, Gone, Chunk
<1>7. ASSUME NEW c \in Columns, Chunk(c) # task[w]
      PROVE  (Held(c)' <=> Held(c)) /\ (Gone(c)' <=> Gone(c))
  <2>1. Chunk(c) \in Nat
    BY ChunkFacts
  <2>2. \A u \in Workers : task'[u] = Chunk(c) <=> task[u] = Chunk(c)
    BY <1>2, <1>3, <1>7, <2>1
  <2> QED BY <2>2 DEF Held, Gone, Chunk
<1> QED BY <1>2, <1>3, <1>4, <1>5, <1>6, <1>7

(* The worker a chunk is with.                                               *)
LEMMA HolderIs ==
  ASSUME NEW t, NEW c, NEW w \in Workers, t[w] = Chunk(c),
         \A u \in Workers : t[u] = Chunk(c) => u = w
  PROVE  HolderIn(t, c) = w
BY DEF HolderIn

(* The trace a stage of Cooley-Tukey writes is that of its entries, ...      *)
LEMMA StageWrites ==
  ASSUME KernelInv, Ct, NEW s \in 0..(LgN - 1), NEW K \in SUBSET Columns, NEW after,
         \A c \in K : after[c] = Stages(c)[s + 1]
  PROVE  StageTrace(s, K, after)
           = [x \in {s} \X (Wanted \cap K) \X Positions |-> EntryOf(x[2], x[1], x[3])]
<1> DEFINE traced == CASE asked = "all" -> K [] asked = "first" -> K \cap {0} [] OTHER -> {}
           half == Pow2[s]
           k(i) == i % half
           a(i) == (2 * half * (i \div (2 * half))) + k(i)
           e(x) == Entry(after[x[2]][x[3]], <<a(x[3]), a(x[3]) + half>>,
                         k(x[3]) * (N \div (2 * half)))
<1>1. traced = Wanted \cap K
  BY DEF Wanted, KernelInv, CallShape
<1>2. ASSUME NEW x \in {s} \X (Wanted \cap K) \X Positions PROVE e(x) = EntryOf(x[2], x[1], x[3])
  <2>1. x[1] = s /\ after[x[2]] = Stages(x[2])[s + 1]
    OBVIOUS
  <2>2. N \div (2 * half) = Rest(s) /\ half = Half(s)
    BY StageShape DEF KernelInv, CallShape, Half
  <2>3. a(x[3]) = BlockOf(s, x[3]) /\ k(x[3]) = x[3] % Half(s)
    BY DEF BlockOf, Half
  <2> QED BY <2>1, <2>2, <2>3 DEF EntryOf
<1>3. StageTrace(s, K, after) = [x \in {s} \X traced \X Positions |-> e(x)]
  BY DEF StageTrace
<1> HIDE DEF traced, e
<1> QED BY <1>1, <1>2, <1>3

(* ... and so is the trace a stage of Stockham writes.                       *)
LEMMA ScatterWrites ==
  ASSUME KernelInv, ~Ct, NEW s \in 0..(LgN - 1), NEW k \in Nat, NEW out,
         \A c \in ColumnsOf(k) : out[c] = Stages(c)[s + 1]
  PROVE  ScatterTrace(s, k, out)
           = [x \in {s} \X (Wanted \cap ColumnsOf(k)) \X Positions |-> EntryOf(x[2], x[1], x[3])]
<1> DEFINE segments == N \div Pow2[s + 1]
           j(i) == (i % (N \div 2)) \div segments
           first(i) == (2 * j(i) * segments) + (i % segments)
           traced == IF asked = "first" /\ k = 0 THEN {0} ELSE {}
           e(x) == Entry(out[x[2]][x[3]], <<first(x[3]), first(x[3]) + segments>>, j(x[3]) * segments)
<1>1. traced = Wanted \cap ColumnsOf(k)
  <2>1. 0 \in ColumnsOf(k) <=> k = 0
    BY ChunkFacts DEF KernelInv
  <2> QED BY <2>1 DEF Wanted, KernelInv, CallShape
<1>2. ASSUME NEW x \in {s} \X (Wanted \cap ColumnsOf(k)) \X Positions
      PROVE  e(x) = EntryOf(x[2], x[1], x[3])
  <2>1. x[1] = s /\ out[x[2]] = Stages(x[2])[s + 1]
    OBVIOUS
  <2>2. segments = Rest(s)
    BY DEF Rest
  <2> HIDE DEF segments
  <2>3. first(x[3]) = FirstOf(s, x[3])
    BY <2>2 DEF FirstOf
  <2> QED BY <2>1, <2>2, <2>3 DEF EntryOf
<1>3. ScatterTrace(s, k, out) = [x \in {s} \X traced \X Positions |-> e(x)]
  BY DEF ScatterTrace
<1> HIDE DEF traced, e
<1> QED BY <1>1, <1>2, <1>3

(* A chunk that is with a worker is as far as the worker, and not done.      *)
LEMMA HeldAt ==
  ASSUME DataShape, TaskInv, phase = "chunks", NEW w \in Workers, task[w] # Idle,
         NEW c \in Columns, Chunk(c) = task[w]
  PROVE  Held(c) /\ ~Done(c) /\ HolderIn(task, c) = w /\ Depth(c) = Counted(step[w])
<1>1. Held(c) /\ ~Done(c)
  BY DEF Held, Done, Gone
<1>2. HolderIn(task, c) = w
  <2>1. \A u \in Workers : task[u] = Chunk(c) => u = w
    BY DEF TaskInv
  <2> QED BY <2>1, HolderIs
<1> QED BY <1>1, <1>2 DEF Depth

(* A chunk whose worker does nothing stays where it is.                      *)
LEMMA DepthApart ==
  ASSUME DataShape, TaskInv, UNCHANGED <<call, phase>>, phase = "chunks", NEW c \in Columns,
         \A u \in Workers : /\ task'[u] = Chunk(c) <=> task[u] = Chunk(c)
                            /\ task[u] = Chunk(c) => Counted(step'[u]) = Counted(step[u]),
         Done(c)' <=> Done(c)
  PROVE  Depth(c)' = Depth(c)
<1>1. Held(c)' <=> Held(c)
  BY DEF Held, Chunk
<1>2. LgN' = LgN
  BY CallKept
<1>3. CASE Held(c)
  <2>1. PICK v \in Workers : task[v] = Chunk(c)
    BY <1>3 DEF Held
  <2>2. task[v] # Idle
    BY <2>1, ChunkFacts DEF Idle
  <2>3. task'[v] = Chunk(c) /\ \A u \in Workers : task'[u] = Chunk(c) => u = v
    BY <2>1, <2>2 DEF TaskInv
  <2>4. HolderIn(task', c) = v
    BY <2>3, HolderIs
  <2>5. Depth(c) = Counted(step[v])
    BY <2>1, <2>2, HeldAt
  <2>6. Depth(c)' = Counted(step'[v])
    BY <1>1, <1>3, <2>4 DEF Depth
  <2> QED BY <2>1, <2>5, <2>6
<1>4. CASE ~Held(c)
  <2>1. Depth(c) = IF Done(c) THEN LgN ELSE 0
    BY <1>4 DEF Depth
  <2>2. Depth(c)' = IF Done(c)' THEN LgN ELSE 0
    BY <1>1, <1>2, <1>4 DEF Depth
  <2> QED BY <2>1, <2>2
<1> QED BY <1>3, <1>4

-----------------------------------------------------------------------------
(* The steps of a call.                                                    *)

(* The pre-transform prepares every column.                                 *)
LEMMA PreTransformKeeps ==
  ASSUME KernelInv, PreTransform
  PROVE  KernelInv'
<1>1. /\ phase = "pre" /\ phase' = "permute" /\ data' = [c \in Columns |-> Prepared(data[c])]
      /\ UNCHANGED <<call, stage, work>> /\ UNCHANGED <<next, task, step, ping, pong, lost, trace>>
  BY DEF PreTransform, work
<1>2. /\ Columns' = Columns /\ ChunkCount' = ChunkCount /\ Wanted' = Wanted
      /\ DataShape' /\ CallShape' /\ (\A k : ColumnsOf(k)' = ColumnsOf(k))
  BY <1>1, ShapeKept
<1>3. next = 0
  BY <1>1 DEF KernelInv, TaskInv, Dispatching
<1>4. \A c \in Columns : ~Gone(c)' /\ Chunk(c) \in Nat
  BY <1>1, <1>3, ChunkFacts DEF KernelInv, Gone, Chunk
<1>5. TaskInv'
  BY <1>1, <1>2, <1>3 DEF KernelInv, TaskInv, Dispatching
<1>6. PhaseInv'
  BY <1>1, CallKept DEF KernelInv, PhaseInv
<1>7. BufferInv'
  BY <1>1, <1>2, CallKept DEF KernelInv, BufferInv
<1>8. DataInv'
  <2>1. \A c \in Columns : data[c] = input[c]
    BY <1>1 DEF KernelInv, DataInv
  <2>2. \A c \in Columns : data'[c] = Prepared(input[c])
    BY <1>1, <2>1
  <2>3. \A c \in Columns : Prepared(input[c])' = Prepared(input[c])
    BY <1>1, CallKept DEF call
  <2> QED BY <1>1, <1>2, <1>4, <2>2, <2>3 DEF DataInv
<1>9. TraceInv'
  <2>1. \A c \in Columns : Depth(c) = 0 /\ Depth(c)' = 0
    BY <1>1 DEF Depth
  <2> QED BY <1>1, <1>2, <2>1, TraceStays
<1> QED BY <1>2, <1>5, <1>6, <1>7, <1>8, <1>9 DEF KernelInv

(* A chunk in hand is not done yet.                                         *)
LEMMA TakeKeeps ==
  ASSUME KernelInv, NEW w \in Workers, Take(w)
  PROVE  KernelInv'
<1>1. /\ Dispatching /\ task[w] = Idle /\ next < ChunkCount
      /\ task' = [task EXCEPT ![w] = next] /\ next' = next + 1
      /\ UNCHANGED <<call, data, phase, stage, step, ping, pong, lost, trace>>
  BY DEF Take
<1>2. /\ Columns' = Columns /\ ChunkCount' = ChunkCount /\ Wanted' = Wanted
      /\ DataShape' /\ CallShape' /\ (\A k : ColumnsOf(k)' = ColumnsOf(k))
  <2>1. DOMAIN data' = Columns /\ data' = [c \in Columns |-> data'[c]]
    BY <1>1 DEF KernelInv, DataShape, Columns
  <2> QED BY <1>1, <2>1, ShapeKept
<1>3. next \in Nat /\ ChunkCount \in Nat /\ Idle = -1
  BY ChunkFacts DEF KernelInv, TaskInv, Idle
<1>4. \A u \in Workers : /\ task'[u] = IF u = w THEN next ELSE task[u]
                         /\ task[u] \in {Idle} \cup 0..(next - 1)
  BY <1>1 DEF KernelInv, TaskInv
<1>5. TaskInv'
  <2>1. task' \in [Workers -> {Idle} \cup 0..(next' - 1)]
    <3>1. \A u \in Workers : task'[u] \in {Idle} \cup 0..(next' - 1)
      BY <1>1, <1>3, <1>4
    <3> QED BY <1>1, <3>1 DEF KernelInv, TaskInv
  <2>2. \A u, v \in Workers : task'[u] = task'[v] /\ task'[u] # Idle => u = v
    BY <1>3, <1>4 DEF KernelInv, TaskInv
  <2>3. next' \in 0..ChunkCount'
    BY <1>1, <1>2, <1>3
  <2>4. Dispatching'
    BY <1>1 DEF Dispatching
  <2> QED BY <2>1, <2>2, <2>3, <2>4 DEF TaskInv
<1>6. ASSUME NEW c \in Columns
      PROVE  /\ (Gone(c)' <=> Gone(c)) /\ Chunk(c) \in Nat
             /\ Chunk(c) = next => ~Held(c) /\ ~Gone(c) /\ Held(c)'
             /\ Chunk(c) # next => (Held(c)' <=> Held(c))
  <2>1. Chunk(c) \in Nat
    BY ChunkFacts DEF KernelInv
  <2>2. CASE Chunk(c) = next
    <3>1. \A u \in Workers : task[u] # Chunk(c)
      BY <1>3, <1>4, <2>2
    <3>2. task'[w] = Chunk(c)
      BY <1>4, <2>2
    <3> QED BY <1>1, <1>3, <2>1, <2>2, <3>1, <3>2 DEF Held, Gone, Chunk
  <2>3. CASE Chunk(c) # next
    <3>1. \A u \in Workers : task'[u] = Chunk(c) <=> task[u] = Chunk(c)
      BY <1>1, <1>3, <1>4, <2>1, <2>3
    <3> QED BY <1>1, <1>3, <2>1, <2>3, <3>1 DEF Held, Gone, Chunk
  <2> QED BY <2>1, <2>2, <2>3
<1>7. PhaseInv'
  <2>1. phase = "chunks" => \A k \in lost : k < next' /\ \A u \in Workers : task'[u] # k
    <3> SUFFICES ASSUME phase = "chunks", NEW k \in lost
                 PROVE  k < next' /\ \A u \in Workers : task'[u] # k
      OBVIOUS
    <3>1. k < next /\ \A u \in Workers : task[u] # k
      BY DEF KernelInv, PhaseInv
    <3>2. lost \subseteq Int
      BY DEF KernelInv, PhaseInv
    <3> QED BY <1>1, <1>3, <1>4, <3>1, <3>2
  <2> QED BY <1>1, <2>1, CallKept DEF KernelInv, PhaseInv
<1>8. step[w] = -1
  BY <1>1 DEF KernelInv, BufferInv
<1>9. BufferInv'
  <2>1. \A u \in Workers : step[u] # -1 => task'[u] = task[u]
    BY <1>4, <1>8
  <2> QED BY <1>1, <1>2, <2>1, CallKept DEF KernelInv, BufferInv
<1>10. \A c \in Columns : Depth(c)' = Depth(c)
  <2> SUFFICES ASSUME NEW c \in Columns PROVE Depth(c)' = Depth(c)
    OBVIOUS
  <2>1. CASE phase # "chunks"
    BY <1>1, <1>6, <2>1, CallKept DEF Depth, Chunk
  <2>2. CASE phase = "chunks" /\ Chunk(c) = next
    <3>1. ~Held(c) /\ ~Done(c) /\ Held(c)'
      BY <1>6, <2>2 DEF Done
    <3>2. HolderIn(task', c) = w
      <4>1. task'[w] = Chunk(c) /\ \A u \in Workers : task'[u] = Chunk(c) => u = w
        BY <1>3, <1>4, <2>2
      <4> QED BY <4>1, HolderIs
    <3>3. Depth(c) = 0
      BY <2>2, <3>1 DEF Depth
    <3>4. Depth(c)' = Counted(step[w])
      BY <1>1, <2>2, <3>1, <3>2 DEF Depth
    <3> QED BY <1>8, <3>3, <3>4 DEF Counted
  <2>3. CASE phase = "chunks" /\ Chunk(c) # next /\ Held(c)
    <3>1. PICK v \in Workers : task[v] = Chunk(c)
      BY <2>3 DEF Held
    <3>2. \A u \in Workers : (task[u] = Chunk(c) => u = v) /\ (task'[u] = Chunk(c) => u = v)
      BY <1>3, <1>4, <1>6, <2>3, <3>1 DEF KernelInv, TaskInv
    <3>3. task'[v] = Chunk(c)
      BY <1>3, <1>4, <1>1, <1>6, <3>1
    <3>4. HolderIn(task, c) = v /\ HolderIn(task', c) = v
      BY <3>1, <3>2, <3>3, HolderIs
    <3>5. Depth(c) = Counted(step[v])
      BY <2>3, <3>4 DEF Depth
    <3>6. Depth(c)' = Counted(step[v])
      BY <1>1, <1>6, <2>3, <3>4 DEF Depth
    <3> QED BY <3>5, <3>6
  <2>4. CASE phase = "chunks" /\ Chunk(c) # next /\ ~Held(c)
    <3>1. ~Held(c)' /\ (Done(c)' <=> Done(c))
      BY <1>1, <1>6, <2>4 DEF Done, Chunk
    <3>2. Depth(c) = IF Done(c) THEN LgN ELSE 0
      BY <2>4 DEF Depth
    <3>3. Depth(c)' = IF Done(c)' THEN LgN ELSE 0
      BY <1>1, <2>4, <3>1, CallKept DEF Depth
    <3> QED BY <3>1, <3>2, <3>3
  <2> QED BY <2>1, <2>2, <2>3, <2>4
<1>11. DataInv'
  <2>1. \A c \in Columns : Done(c)' <=> Done(c)
    BY <1>1, <1>6 DEF Done, Chunk
  <2> QED BY <1>1, <1>2, <1>6, <1>10, <2>1, CallKept DEF KernelInv, DataInv, Chunk, call
<1>12. TraceInv'
  BY <1>1, <1>2, <1>10, TraceStays
<1> QED BY <1>2, <1>5, <1>7, <1>9, <1>11, <1>12 DEF KernelInv

(* A chunk is permuted, for good.                                           *)
LEMMA PermuteChunkKeeps ==
  ASSUME KernelInv, NEW w \in Workers, PermuteChunk(w)
  PROVE  KernelInv'
<1>1. /\ phase = "permute" /\ task[w] # Idle /\ data' = OnChunk(Permuted, task[w]) /\ Settled(w)
      /\ UNCHANGED <<call, phase, stage, next, step, ping, pong, lost, trace>>
  BY DEF PermuteChunk
<1>2. data' = [c \in Columns |-> IF c \in ColumnsOf(task[w]) THEN Permuted(data[c]) ELSE data[c]]
  BY <1>1 DEF OnChunk
<1>3. /\ Columns' = Columns /\ ChunkCount' = ChunkCount /\ Wanted' = Wanted
      /\ DataShape' /\ CallShape' /\ (\A k : ColumnsOf(k)' = ColumnsOf(k))
  BY <1>1, <1>2, ShapeKept
<1>4. /\ task' \in [Workers -> {Idle} \cup 0..(next - 1)]
      /\ \A u, v \in Workers : task'[u] = task'[v] /\ task'[u] # Idle => u = v
      /\ \A c \in Columns : /\ Chunk(c) = task[w] => ~Gone(c) /\ Gone(c)'
                            /\ Chunk(c) # task[w] => (Gone(c)' <=> Gone(c))
  BY <1>1, Released DEF KernelInv
<1>5. TaskInv'
  BY <1>1, <1>3, <1>4 DEF KernelInv, TaskInv, Dispatching
<1>6. PhaseInv'
  BY <1>1, CallKept DEF KernelInv, PhaseInv
<1>7. BufferInv'
  BY <1>1, <1>3, CallKept DEF KernelInv, BufferInv
<1>8. DataInv'
  <2>1. \A c \in Columns : data[c] = IF Gone(c) THEN Begun(c) ELSE Prepared(input[c])
    BY <1>1 DEF KernelInv, DataInv
  <2>2. \A c \in Columns : Permuted(Prepared(input[c])) = Begun(c)
    BY <1>1 DEF KernelInv, PhaseInv, Begun
  <2>3. \A c \in Columns : c \in ColumnsOf(task[w]) <=> Chunk(c) = task[w]
    BY ChunkFacts DEF KernelInv
  <2>4. \A c \in Columns : data'[c] = IF Gone(c)' THEN Begun(c) ELSE Prepared(input[c])
    BY <1>2, <1>4, <2>1, <2>2, <2>3
  <2>5. \A c \in Columns : Prepared(input[c])' = Prepared(input[c]) /\ Begun(c)' = Begun(c)
    BY <1>1, CallKept DEF call
  <2> QED BY <1>1, <1>3, <2>4, <2>5 DEF DataInv
<1>9. TraceInv'
  <2>1. \A c \in Columns : Depth(c) = 0 /\ Depth(c)' = 0
    BY <1>1 DEF Depth
  <2> QED BY <1>1, <1>3, <2>1, TraceStays
<1> QED BY <1>3, <1>5, <1>6, <1>7, <1>8, <1>9 DEF KernelInv

(* A chunk of Cooley-Tukey goes through the stage, and so does its trace.   *)
LEMMA StageChunkKeeps ==
  ASSUME KernelInv, NEW w \in Workers, StageChunk(w)
  PROVE  KernelInv'
<1> DEFINE K == ColumnsOf(task[w])
<1>1. /\ phase = "stage" /\ task[w] # Idle /\ Settled(w)
      /\ trace' = Overlaid(trace, StageTrace(stage, K, data'))
      /\ UNCHANGED <<call, phase, stage, next, step, ping, pong, lost>>
  BY DEF StageChunk
<1>2. data' = [c \in Columns |-> IF c \in K THEN Staged(data[c], stage) ELSE data[c]]
  BY DEF StageChunk, OnChunk
<1>3. /\ Columns' = Columns /\ ChunkCount' = ChunkCount /\ Wanted' = Wanted
      /\ DataShape' /\ CallShape' /\ (\A k : ColumnsOf(k)' = ColumnsOf(k))
  <2> HIDE DEF K
  <2> QED BY <1>1, <1>2, ShapeKept
<1>4. /\ task' \in [Workers -> {Idle} \cup 0..(next - 1)]
      /\ \A u, v \in Workers : task'[u] = task'[v] /\ task'[u] # Idle => u = v
      /\ \A c \in Columns : /\ Chunk(c) = task[w] => ~Gone(c) /\ Gone(c)'
                            /\ Chunk(c) # task[w] => (Gone(c)' <=> Gone(c))
  BY <1>1, Released DEF KernelInv
<1>5. TaskInv'
  BY <1>1, <1>3, <1>4 DEF KernelInv, TaskInv, Dispatching
<1>6. PhaseInv'
  BY <1>1, CallKept DEF KernelInv, PhaseInv
<1>7. BufferInv'
  BY <1>1, <1>3, CallKept DEF KernelInv, BufferInv
<1>8. /\ \A c : c \in K <=> c \in Columns /\ Chunk(c) = task[w]
      /\ K \in SUBSET Columns /\ Ct /\ stage \in 0..(LgN - 1) /\ LgN \in Nat
  BY <1>1, ChunkFacts DEF KernelInv, PhaseInv, CallShape, PlanShape
<1> HIDE DEF K
<1>9. \A c \in Columns : /\ Depth(c) = IF Gone(c) THEN stage + 1 ELSE stage
                         /\ Depth(c)' = IF Gone(c)' THEN stage + 1 ELSE stage
                         /\ data[c] = Stages(c)[Depth(c)]
  BY <1>1 DEF KernelInv, DataInv, Depth
<1>10. \A c \in Columns : Depth(c)' = IF c \in K THEN stage + 1 ELSE Depth(c)
  BY <1>4, <1>8, <1>9
<1>11. \A c \in K : Depth(c) = stage
  BY <1>4, <1>8, <1>9
<1>12. \A c \in K : data'[c] = Stages(c)[stage + 1]
  <2> SUFFICES ASSUME NEW c \in K PROVE data'[c] = Stages(c)[stage + 1]
    OBVIOUS
  <2>1. data'[c] = Staged(Stages(c)[stage], stage)
    BY <1>2, <1>8, <1>9, <1>11
  <2>2. Stages(c)[stage + 1] = StageOf(Stages(c)[stage], stage)
    BY <1>8, LevelLaws DEF Stages
  <2> QED BY <1>8, <2>1, <2>2 DEF StageOf, Ct
<1>13. DataInv'
  <2>1. \A c \in Columns : data'[c] = Stages(c)[Depth(c)']
    BY <1>2, <1>9, <1>10, <1>12
  <2>2. \A c \in Columns : Stages(c)' = Stages(c)
    BY <1>1, CallKept
  <2> QED BY <1>1, <1>3, <2>1, <2>2 DEF DataInv
<1>14. TraceInv'
  <2>1. StageTrace(stage, K, data')
          = [x \in {stage} \X (Wanted \cap K) \X Positions |-> EntryOf(x[2], x[1], x[3])]
    BY <1>8, <1>12, StageWrites
  <2> QED BY <1>1, <1>3, <1>8, <1>10, <1>11, <2>1, TraceGrows
<1> QED BY <1>3, <1>5, <1>6, <1>7, <1>13, <1>14 DEF KernelInv

(* A chunk that no slot takes is given up as it was.                        *)
LEMMA NoSlotKeeps ==
  ASSUME KernelInv, NEW w \in Workers, NoSlot(w)
  PROVE  KernelInv'
<1>1. /\ phase = "chunks" /\ task[w] # Idle /\ w >= SlotCapacity /\ Settled(w)
      /\ lost' = lost \cup {task[w]}
      /\ UNCHANGED <<call, data, phase, stage, next, step, ping, pong, trace>>
  BY DEF NoSlot
<1>2. /\ Columns' = Columns /\ ChunkCount' = ChunkCount /\ Wanted' = Wanted
      /\ DataShape' /\ CallShape' /\ (\A k : ColumnsOf(k)' = ColumnsOf(k))
  <2>1. DOMAIN data' = Columns /\ data' = [c \in Columns |-> data'[c]]
    BY <1>1 DEF KernelInv, DataShape, Columns
  <2> QED BY <1>1, <2>1, ShapeKept
<1>3. /\ task' \in [Workers -> {Idle} \cup 0..(next - 1)]
      /\ \A u, v \in Workers : task'[u] = task'[v] /\ task'[u] # Idle => u = v
      /\ \A u \in Workers : task'[u] = IF u = w THEN Idle ELSE task[u]
      /\ task[w] \in 0..(next - 1)
      /\ \A c \in Columns :
           /\ Chunk(c) = task[w] => Held(c) /\ ~Gone(c) /\ ~Held(c)' /\ Gone(c)'
           /\ Chunk(c) # task[w] => (Held(c)' <=> Held(c)) /\ (Gone(c)' <=> Gone(c))
  BY <1>1, Released DEF KernelInv
<1>4. TaskInv'
  BY <1>1, <1>2, <1>3 DEF KernelInv, TaskInv, Dispatching
<1>5. next \in Nat /\ Idle = -1
  BY ChunkFacts DEF KernelInv, TaskInv, Idle
<1>6. PhaseInv'
  <2>1. \A k \in lost' : k < next' /\ \A u \in Workers : task'[u] # k
    <3> SUFFICES ASSUME NEW k \in lost' PROVE k < next' /\ \A u \in Workers : task'[u] # k
      OBVIOUS
    <3>1. CASE k \in lost
      <4>1. k \in Nat /\ k < next /\ \A u \in Workers : task[u] # k
        BY <1>1, <3>1 DEF KernelInv, PhaseInv
      <4> QED BY <1>1, <1>3, <1>5, <4>1
    <3>2. CASE k = task[w]
      <4>1. \A u \in Workers : task[u] = k => u = w
        BY <1>1, <3>2 DEF KernelInv, TaskInv
      <4> QED BY <1>1, <1>3, <1>5, <3>2, <4>1
    <3> QED BY <1>1, <3>1, <3>2
  <2>2. lost' \subseteq Nat
    <3>1. task[w] \in Nat
      BY <1>3, <1>5
    <3> QED BY <1>1, <3>1 DEF KernelInv, PhaseInv
  <2>3. SlotCapacity < Threads
    BY <1>1, KernelsAssumption DEF Workers
  <2> QED BY <1>1, <2>1, <2>2, <2>3, CallKept DEF KernelInv, PhaseInv
<1>7. step[w] = -1
  <2>1. SlotCapacity \in Nat /\ w \in Int
    BY KernelsAssumption DEF Workers
  <2>2. step[w] # -1 => w < SlotCapacity
    BY DEF KernelInv, BufferInv
  <2> QED BY <1>1, <2>1, <2>2
<1>8. BufferInv'
  <2>1. \A u \in Workers : step[u] # -1 => task'[u] = task[u]
    BY <1>3, <1>7
  <2> QED BY <1>1, <1>2, <2>1, CallKept DEF KernelInv, BufferInv
<1>9. \A c \in Columns : Done(c)' <=> Done(c)
  BY <1>1, <1>3 DEF Done, Chunk
<1>10. \A c \in Columns : Depth(c)' = Depth(c)
  <2> SUFFICES ASSUME NEW c \in Columns PROVE Depth(c)' = Depth(c)
    OBVIOUS
  <2>1. CASE Chunk(c) = task[w]
    <3>1. Depth(c) = 0 /\ ~Done(c)
      BY <1>1, <1>7, <2>1, HeldAt DEF KernelInv, Counted
    <3>2. Depth(c)' = 0
      BY <1>1, <1>3, <1>9, <2>1, <3>1 DEF Depth
    <3> QED BY <3>1, <3>2
  <2>2. CASE Chunk(c) # task[w]
    <3>1. \A u \in Workers : task'[u] = Chunk(c) <=> task[u] = Chunk(c)
      BY <1>3, <1>5, <2>2, ChunkFacts DEF KernelInv
    <3> QED BY <1>1, <1>9, <3>1, DepthApart DEF KernelInv
  <2> QED BY <2>1, <2>2
<1>11. DataInv'
  <2>1. \A c \in Columns : data[c] = IF Done(c) THEN Result(c) ELSE input[c]
    BY <1>1 DEF KernelInv, DataInv
  <2>2. \A c \in Columns : Result(c)' = Result(c)
    BY <1>1, CallKept
  <2> QED BY <1>1, <1>2, <1>9, <2>1, <2>2 DEF DataInv, call
<1>12. TraceInv'
  BY <1>1, <1>2, <1>10, TraceStays
<1> QED BY <1>2, <1>4, <1>6, <1>8, <1>11, <1>12 DEF KernelInv

(* The buffers are loaded from columns nobody has written.                  *)
LEMMA LoadKeeps ==
  ASSUME KernelInv, NEW w \in Workers, Load(w)
  PROVE  KernelInv'
<1> DEFINE K == ColumnsOf(task[w])
<1>1. /\ phase = "chunks" /\ task[w] # Idle /\ w < SlotCapacity /\ step[w] = -1
      /\ ping' = [ping EXCEPT ![w] = [c \in K |-> data[c]]] /\ step' = [step EXCEPT ![w] = 0]
      /\ UNCHANGED <<call, data, phase, stage, next, task, pong, lost, trace>>
  BY DEF Load
<1>2. \A c : c \in K <=> c \in Columns /\ Chunk(c) = task[w]
  BY ChunkFacts DEF KernelInv
<1> HIDE DEF K
<1>3. /\ Columns' = Columns /\ ChunkCount' = ChunkCount /\ Wanted' = Wanted
      /\ DataShape' /\ CallShape' /\ (\A k : ColumnsOf(k)' = ColumnsOf(k))
  <2>1. DOMAIN data' = Columns /\ data' = [c \in Columns |-> data'[c]]
    BY <1>1 DEF KernelInv, DataShape, Columns
  <2> QED BY <1>1, <2>1, ShapeKept
<1>4. TaskInv'
  BY <1>1, <1>3 DEF KernelInv, TaskInv, Dispatching
<1>5. PhaseInv'
  BY <1>1, CallKept DEF KernelInv, PhaseInv
<1>6. LgN \in Nat /\ ~Ct
  BY <1>1 DEF KernelInv, CallShape, PlanShape, PhaseInv
<1>7. \A c \in K : data[c] = Stages(c)[0]
  <2> SUFFICES ASSUME NEW c \in K PROVE data[c] = Stages(c)[0]
    OBVIOUS
  <2>1. data[c] = input[c]
    BY <1>1, <1>2, HeldAt DEF KernelInv, DataInv
  <2> QED BY <1>6, <2>1, LevelLaws DEF Stages, Begun
<1>8. BufferInv'
  <2>1. /\ step' \in [Workers -> -1..LgN] /\ ping' = [u \in Workers |-> ping'[u]]
        /\ pong' = [u \in Workers |-> pong'[u]]
        /\ \A u \in Workers : u # w => step'[u] = step[u] /\ ping'[u] = ping[u]
        /\ step'[w] = 0 /\ ping'[w] = [c \in K |-> data[c]]
    <3>1. /\ step \in [Workers -> -1..LgN] /\ ping = [u \in Workers |-> ping[u]]
          /\ pong = [u \in Workers |-> pong[u]]
      BY DEF KernelInv, BufferInv
    <3>2. step' \in [Workers -> -1..LgN]
      BY <1>1, <1>6, <3>1
    <3>3. ping' = [u \in Workers |-> ping'[u]] /\ pong' = [u \in Workers |-> pong'[u]]
      BY <1>1, <3>1
    <3>4. /\ \A u \in Workers : u # w => step'[u] = step[u] /\ ping'[u] = ping[u]
          /\ step'[w] = 0 /\ ping'[w] = [c \in K |-> data[c]]
      BY <1>1, <3>1
    <3> QED BY <3>2, <3>3, <3>4
  <2>2. ping'[w] = [c \in K |-> Stages(c)[0]] /\ 0 % 2 = 0
    BY <1>7, <2>1
  <2>3. ASSUME NEW u \in Workers, step'[u] # -1
        PROVE  /\ task[u] # Idle /\ u < SlotCapacity
               /\ (IF step'[u] % 2 = 0 THEN ping'[u] ELSE pong'[u])
                    = [c \in ColumnsOf(task[u]) |-> Stages(c)[step'[u]]]
    <3>1. CASE u = w
      BY <1>1, <2>1, <2>2, <3>1 DEF K
    <3>2. CASE u # w
      BY <1>1, <2>1, <2>3, <3>2 DEF KernelInv, BufferInv
    <3> QED BY <3>1, <3>2
  <2>4. \A c : Stages(c)' = Stages(c)
    BY <1>1, CallKept
  <2>5. LgN' = LgN
    BY <1>1, CallKept
  <2> QED BY <1>1, <1>3, <2>1, <2>3, <2>4, <2>5 DEF BufferInv
<1>9. \A c \in Columns : Done(c)' <=> Done(c)
  BY <1>1 DEF Done, Chunk, Gone, Held
<1>10. \A c \in Columns : Depth(c)' = Depth(c)
  <2>1. \A u \in Workers : Counted(step'[u]) = Counted(step[u])
    BY <1>1 DEF KernelInv, BufferInv, Counted
  <2> QED BY <1>1, <1>9, <2>1, DepthApart DEF KernelInv
<1>11. DataInv'
  <2>1. \A c \in Columns : data[c] = IF Done(c) THEN Result(c) ELSE input[c]
    BY <1>1 DEF KernelInv, DataInv
  <2>2. \A c \in Columns : Result(c)' = Result(c)
    BY <1>1, CallKept
  <2> QED BY <1>1, <1>3, <1>9, <2>1, <2>2 DEF DataInv, call
<1>12. TraceInv'
  BY <1>1, <1>3, <1>10, TraceStays
<1> QED BY <1>3, <1>4, <1>5, <1>8, <1>11, <1>12 DEF KernelInv

(* A stage of Stockham goes from one buffer to the other.                   *)
LEMMA TransformStageKeeps ==
  ASSUME KernelInv, NEW w \in Workers, TransformStage(w)
  PROVE  KernelInv'
<1> DEFINE K == ColumnsOf(task[w])
           s == step[w]
           even == s % 2 = 0
           from == IF even THEN ping[w] ELSE pong[w]
           out == Through(from, s)
<1>1. /\ phase = "chunks" /\ s \in 0..(LgN - 1) /\ step' = [step EXCEPT ![w] = s + 1]
      /\ even => pong' = [pong EXCEPT ![w] = out] /\ ping' = ping
      /\ ~even => ping' = [ping EXCEPT ![w] = out] /\ pong' = pong
      /\ UNCHANGED <<call, data, phase, stage, next, task, lost>>
  BY DEF TransformStage
<1>2. trace' = Overlaid(trace, ScatterTrace(s, task[w], IF even THEN pong'[w] ELSE ping'[w]))
  BY DEF TransformStage
<1>3. /\ step \in [Workers -> -1..LgN]
      /\ ping = [u \in Workers |-> ping[u]] /\ pong = [u \in Workers |-> pong[u]]
      /\ task[w] # Idle /\ w < SlotCapacity
      /\ from = [c \in K |-> Stages(c)[s]]
  BY <1>1 DEF KernelInv, BufferInv
<1>4. /\ \A c : c \in K <=> c \in Columns /\ Chunk(c) = task[w]
      /\ task[w] \in Nat /\ LgN \in Nat /\ ~Ct
  <2>1. next \in Nat /\ task[w] \in {Idle} \cup 0..(next - 1)
    BY ChunkFacts DEF KernelInv, TaskInv
  <2>2. LgN \in Nat /\ ~Ct
    BY <1>1 DEF KernelInv, CallShape, PlanShape, PhaseInv
  <2> QED BY <1>3, <2>1, <2>2, ChunkFacts DEF KernelInv
<1> HIDE DEF K, from
<1>5. out = [c \in K |-> Stages(c)[s + 1]]
  <2>1. \A c \in K : Stages(c)[s + 1] = Scattered(Stages(c)[s], s)
    BY <1>1, <1>4, LevelLaws DEF Stages, StageOf, Ct
  <2>2. out = [c \in K |-> Scattered(Stages(c)[s], s)]
    BY <1>3 DEF Through
  <2> HIDE DEF out
  <2> QED BY <2>1, <2>2
<1> HIDE DEF out
<1>6. /\ Columns' = Columns /\ ChunkCount' = ChunkCount /\ Wanted' = Wanted
      /\ DataShape' /\ CallShape' /\ (\A k : ColumnsOf(k)' = ColumnsOf(k))
  <2>1. DOMAIN data' = Columns /\ data' = [c \in Columns |-> data'[c]]
    BY <1>1 DEF KernelInv, DataShape, Columns
  <2> QED BY <1>1, <2>1, ShapeKept
<1>7. TaskInv'
  BY <1>1, <1>6 DEF KernelInv, TaskInv, Dispatching
<1>8. PhaseInv'
  BY <1>1, CallKept DEF KernelInv, PhaseInv
<1> HIDE DEF s, even
<1>9. /\ \A u \in Workers : step'[u] = IF u = w THEN s + 1 ELSE step[u]
      /\ step' \in [Workers -> -1..LgN]
      /\ ping' = [u \in Workers |-> ping'[u]] /\ pong' = [u \in Workers |-> pong'[u]]
      /\ \A u \in Workers : u # w => ping'[u] = ping[u] /\ pong'[u] = pong[u]
      /\ even => pong'[w] = out
      /\ ~even => ping'[w] = out
  <2>1. s + 1 \in -1..LgN
    BY <1>1, <1>4
  <2>2. /\ \A u \in Workers : step'[u] = IF u = w THEN s + 1 ELSE step[u]
        /\ step' \in [Workers -> -1..LgN]
    BY <1>1, <1>3, <2>1
  <2>3. CASE even
    BY <1>1, <1>3, <2>2, <2>3
  <2>4. CASE ~even
    BY <1>1, <1>3, <2>2, <2>4
  <2> QED BY <2>3, <2>4
<1>10. (s + 1) % 2 = 0 <=> ~even
  BY <1>1 DEF even
<1>11. BufferInv'
  <2>1. ASSUME NEW u \in Workers, step'[u] # -1
        PROVE  /\ task[u] # Idle /\ u < SlotCapacity
               /\ (IF step'[u] % 2 = 0 THEN ping'[u] ELSE pong'[u])
                    = [c \in ColumnsOf(task[u]) |-> Stages(c)[step'[u]]]
    <3>1. CASE u = w
      <4>1. (IF (s + 1) % 2 = 0 THEN ping'[w] ELSE pong'[w]) = out
        BY <1>9, <1>10
      <4>2. step'[w] = s + 1
        BY <1>9
      <4> QED BY <1>3, <1>5, <3>1, <4>1, <4>2 DEF K
    <3>2. CASE u # w
      <4>1. step'[u] = step[u] /\ ping'[u] = ping[u] /\ pong'[u] = pong[u]
        BY <1>9, <3>2
      <4> QED BY <2>1, <4>1 DEF KernelInv, BufferInv
    <3> QED BY <3>1, <3>2
  <2>2. \A c : Stages(c)' = Stages(c)
    BY <1>1, CallKept
  <2>3. LgN' = LgN
    BY <1>1, CallKept
  <2> QED BY <1>1, <1>6, <1>9, <2>1, <2>2, <2>3 DEF BufferInv
<1>12. \A c \in Columns : Done(c)' <=> Done(c)
  BY <1>1 DEF Done, Chunk, Gone, Held
<1>13. ASSUME NEW c \in K PROVE Depth(c) = s /\ Depth(c)' = s + 1
  <2>1. /\ c \in Columns /\ Chunk(c) = task[w] /\ Held(c) /\ HolderIn(task, c) = w
        /\ Depth(c) = Counted(step[w])
    BY <1>1, <1>3, <1>4, HeldAt DEF KernelInv
  <2>2. Held(c)' /\ HolderIn(task', c) = w
    BY <1>1, <2>1 DEF Held, Chunk
  <2>3. Depth(c)' = Counted(step'[w])
    BY <1>1, <2>2 DEF Depth
  <2>4. step'[w] = s + 1 /\ step[w] = s /\ s # -1 /\ s + 1 # -1
    BY <1>1, <1>9 DEF s
  <2> QED BY <2>1, <2>3, <2>4 DEF Counted
<1>14. ASSUME NEW c \in Columns, c \notin K PROVE Depth(c)' = Depth(c)
  <2>1. Chunk(c) # task[w]
    BY <1>4, <1>14
  <2>2. \A u \in Workers : /\ task'[u] = Chunk(c) <=> task[u] = Chunk(c)
                           /\ task[u] = Chunk(c) => Counted(step'[u]) = Counted(step[u])
    BY <1>1, <1>9, <2>1
  <2> QED BY <1>1, <1>12, <2>2, DepthApart DEF KernelInv
<1>15. DataInv'
  <2>1. \A c \in Columns : data[c] = IF Done(c) THEN Result(c) ELSE input[c]
    BY <1>1 DEF KernelInv, DataInv
  <2>2. \A c \in Columns : Result(c)' = Result(c)
    BY <1>1, CallKept
  <2> QED BY <1>1, <1>6, <1>12, <2>1, <2>2 DEF DataInv, call
<1>16. TraceInv'
  <2> DEFINE final == IF even THEN pong'[w] ELSE ping'[w]
  <2>1. final = out
    BY <1>9
  <2>2. \A c \in K : final[c] = Stages(c)[s + 1]
    BY <1>5, <2>1
  <2> HIDE DEF final
  <2>3. ScatterTrace(s, task[w], final)
          = [x \in {s} \X (Wanted \cap K) \X Positions |-> EntryOf(x[2], x[1], x[3])]
    BY <1>1, <1>4, <2>2, ScatterWrites DEF K
  <2>4. trace' = Overlaid(trace, [x \in {s} \X (Wanted \cap K) \X Positions |->
                                    EntryOf(x[2], x[1], x[3])])
    BY <1>2, <2>3 DEF final
  <2>5. K \in SUBSET Columns /\ \A c \in Columns : Depth(c)' = IF c \in K THEN s + 1 ELSE Depth(c)
    BY <1>4, <1>13, <1>14
  <2> QED BY <1>1, <1>6, <1>13, <2>4, <2>5, TraceGrows
<1> QED BY <1>6, <1>7, <1>8, <1>11, <1>15, <1>16 DEF KernelInv

(* The final buffer is stored, and the chunk is done.                       *)
LEMMA StoreKeeps ==
  ASSUME KernelInv, NEW w \in Workers, Store(w)
  PROVE  KernelInv'
<1> DEFINE K == ColumnsOf(task[w])
           final == IF LgN % 2 = 0 THEN ping[w] ELSE pong[w]
<1>1. /\ phase = "chunks" /\ step[w] = LgN /\ step' = [step EXCEPT ![w] = -1] /\ Settled(w)
      /\ data' = [c \in Columns |-> IF c \in DOMAIN final THEN Scaled(final[c]) ELSE data[c]]
      /\ UNCHANGED <<call, phase, stage, next, ping, pong, lost, trace>>
  BY DEF Store
<1>2. LgN \in Nat /\ ~Ct
  BY <1>1 DEF KernelInv, CallShape, PlanShape, PhaseInv
<1>3. /\ step \in [Workers -> -1..LgN] /\ task[w] # Idle /\ final = [c \in K |-> Stages(c)[LgN]]
  BY <1>1, <1>2 DEF KernelInv, BufferInv
<1>4. \A c : c \in K <=> c \in Columns /\ Chunk(c) = task[w]
  BY ChunkFacts DEF KernelInv
<1> HIDE DEF K, final
<1>5. data' = [c \in Columns |-> IF c \in K THEN Result(c) ELSE data[c]]
  <2>1. DOMAIN final = K /\ \A c \in K : final[c] = Stages(c)[LgN]
    BY <1>3
  <2> QED BY <1>1, <2>1 DEF Result
<1>6. /\ Columns' = Columns /\ ChunkCount' = ChunkCount /\ Wanted' = Wanted
      /\ DataShape' /\ CallShape' /\ (\A k : ColumnsOf(k)' = ColumnsOf(k))
  BY <1>1, <1>5, ShapeKept
<1>7. /\ task' \in [Workers -> {Idle} \cup 0..(next - 1)]
      /\ \A u, v \in Workers : task'[u] = task'[v] /\ task'[u] # Idle => u = v
      /\ \A u \in Workers : task'[u] = IF u = w THEN Idle ELSE task[u]
      /\ task[w] \in 0..(next - 1)
      /\ \A c \in Columns :
           /\ Chunk(c) = task[w] => Held(c) /\ ~Gone(c) /\ ~Held(c)' /\ Gone(c)'
           /\ Chunk(c) # task[w] => (Held(c)' <=> Held(c)) /\ (Gone(c)' <=> Gone(c))
  BY <1>1, <1>3, Released DEF KernelInv
<1>8. TaskInv'
  BY <1>1, <1>6, <1>7 DEF KernelInv, TaskInv, Dispatching
<1>9. next \in Nat /\ Idle = -1
  BY ChunkFacts DEF KernelInv, TaskInv, Idle
<1>10. PhaseInv'
  <2>1. \A k \in lost : k < next' /\ \A u \in Workers : task'[u] # k
    <3> SUFFICES ASSUME NEW k \in lost PROVE k < next' /\ \A u \in Workers : task'[u] # k
      OBVIOUS
    <3>1. k \in Nat /\ k < next /\ \A u \in Workers : task[u] # k
      BY <1>1 DEF KernelInv, PhaseInv
    <3> QED BY <1>1, <1>7, <1>9, <3>1
  <2> QED BY <1>1, <2>1, CallKept DEF KernelInv, PhaseInv
<1>11. /\ \A u \in Workers : step'[u] = IF u = w THEN -1 ELSE step[u]
       /\ step' \in [Workers -> -1..LgN]
  <2>1. -1 \in -1..LgN
    BY <1>2
  <2> QED BY <1>1, <1>3, <2>1
<1>12. BufferInv'
  <2>1. \A u \in Workers : step'[u] # -1 => step'[u] = step[u] /\ task'[u] = task[u]
    BY <1>7, <1>11
  <2> QED BY <1>1, <1>6, <1>11, <2>1, CallKept DEF KernelInv, BufferInv
<1>13. ASSUME NEW c \in Columns
       PROVE  /\ Done(c)' <=> c \in K \/ Done(c)
              /\ Depth(c)' = Depth(c)
  <2>1. CASE Chunk(c) = task[w]
    <3>1. Chunk(c) \notin lost
      BY <1>1, <2>1 DEF KernelInv, PhaseInv
    <3>2. Done(c)' /\ ~Held(c)'
      BY <1>1, <1>7, <2>1, <3>1 DEF Done, Chunk
    <3>3. Depth(c) = LgN
      BY <1>1, <1>2, <1>3, <2>1, HeldAt DEF KernelInv, Counted
    <3>4. Depth(c)' = LgN
      BY <1>1, <3>2, CallKept DEF Depth
    <3> QED BY <1>4, <2>1, <3>2, <3>3, <3>4
  <2>2. CASE Chunk(c) # task[w]
    <3>1. Done(c)' <=> Done(c)
      BY <1>1, <1>7, <2>2 DEF Done, Chunk
    <3>2. \A u \in Workers : /\ task'[u] = Chunk(c) <=> task[u] = Chunk(c)
                             /\ task[u] = Chunk(c) => step'[u] = step[u]
      BY <1>7, <1>9, <1>11, <2>2, ChunkFacts DEF KernelInv
    <3>3. Depth(c)' = Depth(c)
      BY <1>1, <3>1, <3>2, DepthApart DEF KernelInv
    <3> QED BY <1>4, <2>2, <3>1, <3>3
  <2> QED BY <2>1, <2>2
<1>14. DataInv'
  <2>1. \A c \in Columns : data[c] = IF Done(c) THEN Result(c) ELSE input[c]
    BY <1>1 DEF KernelInv, DataInv
  <2>2. \A c \in Columns : data'[c] = IF Done(c)' THEN Result(c) ELSE input[c]
    BY <1>5, <1>13, <2>1
  <2>3. \A c \in Columns : Result(c)' = Result(c)
    BY <1>1, CallKept
  <2> QED BY <1>1, <1>6, <2>2, <2>3 DEF DataInv, call
<1>15. TraceInv'
  BY <1>1, <1>6, <1>13, TraceStays
<1> QED BY <1>6, <1>8, <1>10, <1>12, <1>14, <1>15 DEF KernelInv

(* A dispatch that ends has every column done: the stage is over for all.   *)
LEMMA EndDispatchKeeps ==
  ASSUME KernelInv, EndDispatch
  PROVE  KernelInv'
<1>1. /\ Dispatching /\ next = ChunkCount /\ (\A w \in Workers : task[w] = Idle) /\ next' = 0
      /\ UNCHANGED <<call, data, task, step, ping, pong, lost, trace>>
  BY DEF EndDispatch
<1>2. /\ Columns' = Columns /\ ChunkCount' = ChunkCount /\ Wanted' = Wanted
      /\ DataShape' /\ CallShape' /\ (\A k : ColumnsOf(k)' = ColumnsOf(k))
  <2>1. DOMAIN data' = Columns /\ data' = [c \in Columns |-> data'[c]]
    BY <1>1 DEF KernelInv, DataShape, Columns
  <2> QED BY <1>1, <2>1, ShapeKept
<1>3. TaskInv'
  <2>1. ChunkCount \in Nat
    BY ChunkFacts DEF KernelInv
  <2>2. task' \in [Workers -> {Idle} \cup 0..(next' - 1)]
    BY <1>1 DEF KernelInv, TaskInv
  <2> QED BY <1>1, <1>2, <2>1, <2>2 DEF TaskInv
<1>4. \A w \in Workers : step[w] = -1
  BY <1>1 DEF KernelInv, BufferInv
<1>5. BufferInv'
  BY <1>1, <1>2, <1>4, CallKept DEF KernelInv, BufferInv
<1>6. ASSUME NEW c \in Columns PROVE Gone(c) /\ ~Held(c) /\ ~Gone(c)' /\ ~Held(c)'
  <2>1. Chunk(c) \in Nat /\ Chunk(c) < ChunkCount
    BY ChunkFacts DEF KernelInv
  <2>2. ~Held(c) /\ ~Held(c)'
    BY <1>1, <2>1 DEF Held, Idle, Chunk
  <2>3. Gone(c)
    BY <1>1, <2>1, <2>2 DEF Gone
  <2>4. ~Gone(c)'
    BY <1>1, <2>1 DEF Gone, Chunk
  <2> QED BY <2>2, <2>3, <2>4
<1>7. LgN \in Nat /\ LgN' = LgN /\ Ct' = Ct /\ \A c : Stages(c)[0] = Begun(c)
  BY <1>1, CallKept, LevelLaws DEF KernelInv, CallShape, PlanShape, Stages
<1>8. \A c : Stages(c)' = Stages(c) /\ Result(c)' = Result(c)
  BY <1>1, CallKept
<1>9. CASE phase = "permute"
  <2>1. /\ phase' = (IF LgN > 0 THEN "stage" ELSE "scale") /\ stage' = stage /\ stage = 0
        /\ lost = {} /\ Ct
    BY <1>9 DEF EndDispatch, KernelInv, PhaseInv
  <2>2. \A c \in Columns : data[c] = Stages(c)[0] /\ Depth(c) = 0
    BY <1>6, <1>7, <1>9 DEF KernelInv, DataInv, Depth
  <2>3. \A c \in Columns : Depth(c)' = 0
    <3> SUFFICES ASSUME NEW c \in Columns PROVE Depth(c)' = 0
      OBVIOUS
    <3>1. CASE LgN > 0
      BY <1>6, <2>1, <3>1 DEF Depth
    <3>2. CASE ~(LgN > 0)
      BY <1>7, <2>1, <3>2 DEF Depth
    <3> QED BY <3>1, <3>2
  <2>4. PhaseInv'
    BY <1>1, <1>7, <2>1 DEF KernelInv, PhaseInv
  <2>5. DataInv'
    <3>1. CASE LgN > 0
      BY <1>1, <1>2, <1>8, <2>1, <2>2, <2>3, <3>1 DEF DataInv
    <3>2. CASE ~(LgN > 0)
      <4>1. LgN = 0
        BY <1>7, <3>2
      <4> QED BY <1>1, <1>2, <1>7, <1>8, <2>1, <2>2, <4>1 DEF DataInv
    <3> QED BY <3>1, <3>2
  <2>6. TraceInv'
    BY <1>1, <1>2, <2>2, <2>3, TraceStays
  <2> QED BY <1>2, <1>3, <1>5, <2>4, <2>5, <2>6 DEF KernelInv
<1>10. CASE phase = "stage"
  <2>1. /\ stage' = stage + 1 /\ phase' = (IF stage + 1 < LgN THEN "stage" ELSE "scale")
        /\ lost = {} /\ Ct /\ stage \in 0..(LgN - 1)
    BY <1>10 DEF EndDispatch, KernelInv, PhaseInv
  <2>2. \A c \in Columns : data[c] = Stages(c)[stage + 1] /\ Depth(c) = stage + 1
    BY <1>6, <1>10 DEF KernelInv, DataInv, Depth
  <2>3. ~(stage + 1 < LgN) => stage + 1 = LgN
    BY <1>7, <2>1
  <2>4. \A c \in Columns : Depth(c)' = stage + 1
    <3> SUFFICES ASSUME NEW c \in Columns PROVE Depth(c)' = stage + 1
      OBVIOUS
    <3>1. CASE stage + 1 < LgN
      BY <1>6, <2>1, <3>1 DEF Depth
    <3>2. CASE ~(stage + 1 < LgN)
      BY <1>1, <1>7, <2>1, <2>3, <3>2 DEF Depth
    <3> QED BY <3>1, <3>2
  <2>5. PhaseInv'
    BY <1>1, <1>7, <2>1 DEF KernelInv, PhaseInv
  <2>6. DataInv'
    <3>1. CASE stage + 1 < LgN
      BY <1>1, <1>2, <1>8, <2>1, <2>2, <2>4, <3>1 DEF DataInv
    <3>2. CASE ~(stage + 1 < LgN)
      BY <1>1, <1>2, <1>7, <1>8, <2>1, <2>2, <2>3, <3>2 DEF DataInv
    <3> QED BY <3>1, <3>2
  <2>7. TraceInv'
    BY <1>1, <1>2, <2>2, <2>4, TraceStays
  <2> QED BY <1>2, <1>3, <1>5, <2>5, <2>6, <2>7 DEF KernelInv
<1>11. CASE phase = "chunks"
  <2>1. phase' = "post" /\ stage' = stage
    BY <1>11 DEF EndDispatch
  <2>2. \A c \in Columns : /\ Done(c) <=> Chunk(c) \notin lost
                           /\ Depth(c) = IF Chunk(c) \in lost THEN 0 ELSE LgN
    BY <1>6, <1>11 DEF Done, Depth
  <2>3. \A c \in Columns : Depth(c)' = IF Chunk(c) \in lost THEN 0 ELSE LgN
    BY <1>1, <1>7, <2>1 DEF Depth, Chunk
  <2>4. PhaseInv'
    BY <1>1, <1>7, <2>1 DEF KernelInv, PhaseInv
  <2>5. DataInv'
    <3>1. \A c \in Columns : data[c] = IF Chunk(c) \in lost THEN input[c] ELSE Result(c)
      BY <1>11, <2>2 DEF KernelInv, DataInv
    <3> QED BY <1>1, <1>2, <1>8, <2>1, <3>1 DEF DataInv, Chunk, call
  <2>6. TraceInv'
    BY <1>1, <1>2, <2>2, <2>3, TraceStays
  <2> QED BY <1>2, <1>3, <1>5, <2>4, <2>5, <2>6 DEF KernelInv
<1> QED BY <1>1, <1>9, <1>10, <1>11 DEF Dispatching

(* The serial scaling.                                                      *)
LEMMA ScaleKeeps ==
  ASSUME KernelInv, Scale
  PROVE  KernelInv'
<1>1. /\ phase = "scale" /\ phase' = "post" /\ data' = [c \in Columns |-> Scaled(data[c])]
      /\ UNCHANGED <<call, stage, work>> /\ UNCHANGED <<next, task, step, ping, pong, lost, trace>>
  BY DEF Scale, work
<1>2. /\ Columns' = Columns /\ ChunkCount' = ChunkCount /\ Wanted' = Wanted
      /\ DataShape' /\ CallShape' /\ (\A k : ColumnsOf(k)' = ColumnsOf(k))
  BY <1>1, ShapeKept
<1>3. TaskInv'
  BY <1>1, <1>2 DEF KernelInv, TaskInv, Dispatching
<1>4. lost = {} /\ LgN' = LgN
  BY <1>1, CallKept DEF KernelInv, PhaseInv
<1>5. PhaseInv'
  BY <1>1, CallKept DEF KernelInv, PhaseInv
<1>6. BufferInv'
  BY <1>1, <1>2, CallKept DEF KernelInv, BufferInv
<1>7. DataInv'
  <2>1. \A c \in Columns : data'[c] = Result(c)
    BY <1>1 DEF KernelInv, DataInv, Result
  <2>2. \A c : Result(c)' = Result(c)
    BY <1>1, CallKept
  <2> QED BY <1>1, <1>2, <1>4, <2>1, <2>2 DEF DataInv
<1>8. TraceInv'
  <2>1. \A c \in Columns : Depth(c) = LgN /\ Depth(c)' = LgN
    BY <1>1, <1>4 DEF Depth
  <2> QED BY <1>1, <1>2, <2>1, TraceStays
<1> QED BY <1>2, <1>3, <1>5, <1>6, <1>7, <1>8 DEF KernelInv

(* The post-transform.                                                      *)
LEMMA PostTransformKeeps ==
  ASSUME KernelInv, PostTransform
  PROVE  KernelInv'
<1>1. /\ phase = "post" /\ phase' = "done" /\ data' = [c \in Columns |-> Finished(data[c])]
      /\ UNCHANGED <<call, stage, work>> /\ UNCHANGED <<next, task, step, ping, pong, lost, trace>>
  BY DEF PostTransform, work
<1>2. /\ Columns' = Columns /\ ChunkCount' = ChunkCount /\ Wanted' = Wanted
      /\ DataShape' /\ CallShape' /\ (\A k : ColumnsOf(k)' = ColumnsOf(k))
  BY <1>1, ShapeKept
<1>3. TaskInv'
  BY <1>1, <1>2 DEF KernelInv, TaskInv, Dispatching
<1>4. PhaseInv'
  BY <1>1, CallKept DEF KernelInv, PhaseInv
<1>5. BufferInv'
  BY <1>1, <1>2, CallKept DEF KernelInv, BufferInv
<1>6. DataInv'
  <2> DEFINE end(c) == IF Chunk(c) \in lost THEN input[c] ELSE Result(c)
  <2>1. \A c \in Columns : data'[c] = Finished(end(c))
    BY <1>1 DEF KernelInv, DataInv
  <2>2. \A c : Result(c)' = Result(c)
    BY <1>1, CallKept
  <2>3. \A c : end(c)' = end(c)
    BY <1>1, <2>2 DEF Chunk, call
  <2>4. \A v : Finished(v)' = Finished(v)
    BY <1>1, CallKept
  <2>5. \A c \in Columns : Finished(end(c))' = Finished(end(c))
    BY <1>1, <2>3 DEF Finished, Positions, N, call
  <2> QED BY <1>1, <1>2, <2>1, <2>5 DEF DataInv
<1>7. TraceInv'
  <2>1. \A c \in Columns : Depth(c)' = Depth(c)
    BY <1>1, CallKept DEF Depth, Chunk
  <2> QED BY <1>1, <1>2, <2>1, TraceStays
<1> QED BY <1>2, <1>3, <1>4, <1>5, <1>6, <1>7 DEF KernelInv

(* Every step of a call keeps the invariant, and none leaves a finished one. *)
LEMMA NextKeeps ==
  ASSUME KernelInv, Next
  PROVE  KernelInv'
<1>1. CASE PreTransform
  BY <1>1, PreTransformKeeps
<1>2. CASE EndDispatch
  BY <1>2, EndDispatchKeeps
<1>3. CASE Scale
  BY <1>3, ScaleKeeps
<1>4. CASE PostTransform
  BY <1>4, PostTransformKeeps
<1>5. ASSUME NEW w \in Workers, Take(w) PROVE KernelInv'
  BY <1>5, TakeKeeps
<1>6. ASSUME NEW w \in Workers, PermuteChunk(w) PROVE KernelInv'
  BY <1>6, PermuteChunkKeeps
<1>7. ASSUME NEW w \in Workers, StageChunk(w) PROVE KernelInv'
  BY <1>7, StageChunkKeeps
<1>8. ASSUME NEW w \in Workers, NoSlot(w) PROVE KernelInv'
  BY <1>8, NoSlotKeeps
<1>9. ASSUME NEW w \in Workers, Load(w) PROVE KernelInv'
  BY <1>9, LoadKeeps
<1>10. ASSUME NEW w \in Workers, TransformStage(w) PROVE KernelInv'
  BY <1>10, TransformStageKeeps
<1>11. ASSUME NEW w \in Workers, Store(w) PROVE KernelInv'
  BY <1>11, StoreKeeps
<1> QED BY <1>1, <1>2, <1>3, <1>4, <1>5, <1>6, <1>7, <1>8, <1>9, <1>10, <1>11 DEF Next

(* Nothing else happens.                                                    *)
LEMMA StutterKeeps ==
  ASSUME KernelInv, UNCHANGED vars
  PROVE  KernelInv'
<1>1. UNCHANGED <<call, data, phase, stage, next, task, step, ping, pong, lost, trace>>
  BY DEF vars, work
<1>2. /\ Columns' = Columns /\ ChunkCount' = ChunkCount /\ Wanted' = Wanted
      /\ DataShape' /\ CallShape' /\ (\A k : ColumnsOf(k)' = ColumnsOf(k))
  <2>1. DOMAIN data' = Columns /\ data' = [c \in Columns |-> data'[c]]
    BY <1>1 DEF KernelInv, DataShape, Columns
  <2> QED BY <1>1, <2>1, ShapeKept
<1>3. TaskInv'
  BY <1>1, <1>2 DEF KernelInv, TaskInv, Dispatching
<1>4. PhaseInv'
  BY <1>1, CallKept DEF KernelInv, PhaseInv
<1>5. BufferInv'
  BY <1>1, <1>2, CallKept DEF KernelInv, BufferInv
<1>6. \A c : Depth(c)' = Depth(c) /\ Chunk(c)' = Chunk(c) /\ Gone(c)' = Gone(c) /\ Done(c)' = Done(c)
  <2>1. LgN' = LgN
    BY <1>1, CallKept
  <2> QED BY <1>1, <2>1 DEF Depth, Chunk, Gone, Held, Done
<1>7. DataInv'
  <2>1. \A c : /\ Begun(c)' = Begun(c) /\ Stages(c)' = Stages(c) /\ Result(c)' = Result(c)
    BY <1>1, CallKept
  <2>2. LgN' = LgN /\ input' = input /\ data' = data /\ phase' = phase /\ lost' = lost
    BY <1>1, CallKept DEF call
  <2> DEFINE end(c) == IF Chunk(c) \in lost THEN input[c] ELSE Result(c)
  <2>3. \A c : end(c)' = end(c)
    BY <1>6, <2>1, <2>2
  <2>4. \A c \in Columns : Finished(end(c))' = Finished(end(c))
    BY <1>1, <2>3 DEF Finished, Positions, N, call
  <2>5. \A c \in Columns : Prepared(input[c])' = Prepared(input[c])
    BY <1>1, CallKept DEF call
  <2>6. \A c \in Columns : phase = "done" => data[c] = Finished(end(c))
    BY DEF KernelInv, DataInv
  <2> HIDE DEF end
  <2>7. \A c \in Columns : phase' = "done" => data'[c] = Finished(end(c))'
    BY <2>2, <2>4, <2>6
  <2> QED BY <1>2, <1>6, <2>1, <2>2, <2>5, <2>7 DEF KernelInv, DataInv, end
<1>8. TraceInv'
  BY <1>1, <1>2, <1>6, TraceStays
<1> QED BY <1>2, <1>3, <1>4, <1>5, <1>7, <1>8 DEF KernelInv

(* A power of two has a logarithm.                                           *)
LEMMA LogIs ==
  ASSUME NEW n \in Nat \ {0}, IsPow2(n)
  PROVE  /\ (CHOOSE l \in 0..n : Pow2[l] = n) \in Nat
         /\ Pow2[CHOOSE l \in 0..n : Pow2[l] = n] = n
<1>1. \E l \in 0..n : Pow2[l] = n
  BY DEF IsPow2
<1>2. (CHOOSE l \in 0..n : Pow2[l] = n) \in 0..n
  BY <1>1
<1> QED BY <1>1, <1>2

\* How a call begins, but for what it works on.
Fresh ==
  /\ data = input
  /\ phase = IF plan.kernel = "cooleytukey" THEN "pre" ELSE "chunks"
  /\ stage = 0 /\ next = 0 /\ lost = {}
  /\ task = [w \in Workers |-> Idle]
  /\ step = [w \in Workers |-> -1]
  /\ ping = [w \in Workers |-> ping[w]] /\ pong = [w \in Workers |-> pong[w]]
  /\ DOMAIN trace = {}

(* The invariant holds when a call begins.                                   *)
LEMMA Begins == CallShape /\ DataShape /\ Fresh => KernelInv
<1> SUFFICES ASSUME CallShape, DataShape, Fresh PROVE KernelInv
  OBVIOUS
<1>1. phase = IF Ct THEN "pre" ELSE "chunks"
  BY DEF Fresh, Ct
<1>2. LgN \in Nat /\ ChunkCount \in Nat
  BY ChunkFacts DEF CallShape, PlanShape
<1>3. TaskInv
  BY <1>1, <1>2 DEF Fresh, TaskInv, Idle
<1>4. PhaseInv
  BY <1>1 DEF Fresh, PhaseInv
<1>5. BufferInv
  <2>1. step \in [Workers -> -1..LgN] /\ \A w \in Workers : step[w] = -1
    BY <1>2 DEF Fresh
  <2> QED BY <2>1 DEF Fresh, BufferInv
<1>6. \A c \in Columns : ~Held(c) /\ ~Done(c) /\ Depth(c) = 0
  <2> SUFFICES ASSUME NEW c \in Columns PROVE ~Held(c) /\ ~Done(c) /\ Depth(c) = 0
    OBVIOUS
  <2>1. Chunk(c) \in Nat
    BY ChunkFacts
  <2>2. ~Held(c) /\ ~Done(c)
    BY <2>1 DEF Held, Done, Gone, Fresh, Idle
  <2> QED BY <1>1, <2>2 DEF Depth
<1>7. DataInv
  BY <1>1, <1>6 DEF DataInv, Fresh
<1>8. TraceInv
  <2>1. Wanted \subseteq Columns
    BY ChunkFacts DEF Wanted
  <2>2. {x \in (0..(LgN - 1)) \X Wanted \X Positions : x[1] < Depth(x[2])} = {}
    BY <1>2, <1>6, <2>1
  <2> QED BY <2>2 DEF TraceInv, Fresh
<1> QED BY <1>3, <1>4, <1>5, <1>7, <1>8 DEF KernelInv

(* Init establishes it.                                                      *)
LEMMA InitHolds ==
  ASSUME Init
  PROVE  KernelInv
<1>1. /\ plan \in [kernel : Kernels, N : Sizes, inverse : BOOLEAN, mode : Modes, half : BOOLEAN]
      /\ asked \in IF plan.mode = "C2C" THEN Traces ELSE {"none"}
      /\ Started
  BY DEF Init
<1>2. PICK i : input = [c \in 0..(Batch - 1) |-> Basis(N, i + c)]
  BY DEF Init
<1>3. CallShape
  <2>1. N \in Nat \ {0} /\ IsPow2(N)
    <3>1. N \in Sizes
      BY <1>1 DEF N
    <3>2. N \in 1..Order /\ IsPow2(N)
      BY <3>1, KernelsAssumption
    <3> QED BY <3>2, OrderAssumption
  <2>2. PlanShape
    BY <2>1, LogIs DEF PlanShape, LgN
  <2>3. plan.kernel \in Kernels
    BY <1>1
  <2> QED BY <1>1, <2>2, <2>3, KernelsAssumption DEF CallShape
<1>4. DataShape
  <2>1. Batch \in Nat \ {0} /\ data = input
    BY <1>1, KernelsAssumption DEF Started
  <2>2. Columns = 0..(Batch - 1) /\ DOMAIN input = Columns /\ data = [c \in Columns |-> data[c]]
    BY <1>2, <2>1 DEF Columns
  <2>3. Cardinality(0..(Batch - 1)) = Batch
    BY <2>1, FS_Interval
  <2> QED BY <2>1, <2>2, <2>3 DEF DataShape
<1>5. Fresh
  BY <1>1 DEF Started, Fresh
<1> QED BY <1>3, <1>4, <1>5, Begins

-----------------------------------------------------------------------------
(* What follows from the invariant.                                        *)

(* What the schedule may not touch: the result is a function of the input.   *)
Scheduled ==
  phase = "done" =>
    \A c \in Columns :
      data[c] = Finished(IF c \in LostColumns THEN input[c] ELSE Result(c))

LossesHaveACause ==
  LostColumns # {} => plan.kernel = "stockham" /\ SlotCapacity < Threads

(* The columns that were given up are those of the chunks that were.         *)
LEMMA LostAre ==
  ASSUME KernelInv
  PROVE  \A c : c \in LostColumns <=> c \in Columns /\ Chunk(c) \in lost
BY ChunkFacts DEF KernelInv, LostColumns

(* The result is a function of the input, and losses have their cause.      *)
LEMMA InvGivesScheduled == KernelInv => Scheduled /\ LossesHaveACause
<1> SUFFICES ASSUME KernelInv PROVE Scheduled /\ LossesHaveACause
  OBVIOUS
<1>1. Scheduled
  BY LostAre DEF KernelInv, DataInv, Scheduled
<1>2. LossesHaveACause
  <2>1. LostColumns # {} => lost # {}
    BY LostAre
  <2> QED BY <2>1 DEF KernelInv, PhaseInv, CallShape, Ct, LossesHaveACause
<1> QED BY <1>1, <1>2

(* Before its chunk is stored a column is the input, after it the result.   *)
LEMMA InvGivesWhole == KernelInv => StoredWholeOrNotAtAll
<1> SUFFICES ASSUME KernelInv, phase = "chunks", NEW c \in Columns
             PROVE  data[c] \in {input[c], Scaled(Levels(input[c])[LgN])}
  BY DEF StoredWholeOrNotAtAll
<1>1. data[c] = IF Done(c) THEN Result(c) ELSE input[c]
  BY DEF KernelInv, DataInv
<1>2. Begun(c) = input[c]
  BY DEF KernelInv, PhaseInv, Begun
<1> QED BY <1>1, <1>2 DEF Result, Stages

(* Entry by entry the trace says how a stage made its values.               *)
LEMMA InvGivesTrace == KernelInv => TraceExplains
<1> DEFINE ct == plan.kernel = "cooleytukey"
           traced == (CASE asked = "first" -> {0}
                        [] asked = "all" -> IF ct THEN Columns ELSE {}) \ LostColumns
           Column(s, c) ==
             IF s = -1 THEN IF ct THEN Permuted(input[c]) ELSE input[c]
             ELSE [i \in Positions |-> trace[<<s, c, i>>].value]
           Factor(s, e) == TwiddleTable[(Pow2[s] - 1) + (e.index \div (N \div Pow2[s + 1]))]
           Explained(s, c, i) ==
             LET e == trace[<<s, c, i>>]
                 a == Column(s - 1, c)[e.pair[1]]
                 b == Turned(Column(s - 1, c)[e.pair[2]], Factor(s, e))
             IN  e.value = IF (IF ct THEN i = e.pair[1] ELSE 2 * i < N)
                           THEN Plus(a, b) ELSE Minus(a, b)
<1> SUFFICES ASSUME KernelInv, phase = "done", asked # "none", N > 1
             PROVE  /\ DOMAIN trace = (0..(LgN - 1)) \X traced \X Positions
                    /\ \A x \in DOMAIN trace : Explained(x[1], x[2], x[3])
                    /\ \A c \in traced : data[c] = Scaled(Column(LgN - 1, c))
  BY DEF TraceExplains
<1>1. /\ PlanShape /\ LgN \in Nat /\ LgN >= 1 /\ plan.mode = "C2C" /\ asked \in {"first", "all"}
      /\ ct <=> Ct
  <2>1. PlanShape /\ plan.mode = "C2C" /\ asked \in {"first", "all"}
    BY DEF KernelInv, CallShape
  <2>2. LgN # 0
    BY <2>1, PowLaws DEF PlanShape
  <2> QED BY <2>1, <2>2 DEF PlanShape, Ct
<1>2. \A v : Prepared(v) = v /\ Finished(v) = v
  BY <1>1 DEF Prepared, Finished
<1>3. traced = Wanted \ LostColumns /\ Wanted \subseteq Columns
  BY <1>1, ChunkFacts DEF Wanted, KernelInv
<1> HIDE DEF traced
<1>4. DOMAIN trace = (0..(LgN - 1)) \X traced \X Positions
  <2>1. DOMAIN trace = {x \in (0..(LgN - 1)) \X Wanted \X Positions : x[1] < Depth(x[2])}
    BY DEF KernelInv, TraceInv
  <2>2. \A c \in Columns : Depth(c) = IF c \in LostColumns THEN 0 ELSE LgN
    BY LostAre DEF Depth
  <2>3. \A x \in (0..(LgN - 1)) \X Wanted \X Positions :
          x[1] < Depth(x[2]) <=> x[2] \notin LostColumns
    BY <1>1, <1>3, <2>2
  <2> QED BY <1>3, <2>1, <2>3
<1>5. \A s \in 0..(LgN - 1), c \in traced, i \in Positions : trace[<<s, c, i>>] = EntryOf(c, s, i)
  <2> SUFFICES ASSUME NEW s \in 0..(LgN - 1), NEW c \in traced, NEW i \in Positions
               PROVE  trace[<<s, c, i>>] = EntryOf(c, s, i)
    OBVIOUS
  <2>1. <<s, c, i>> \in DOMAIN trace
    BY <1>4
  <2> QED BY <2>1 DEF KernelInv, TraceInv
<1>6. \A c, s, i : EntryOf(c, s, i).value = Stages(c)[s + 1][i]
  BY DEF EntryOf, Entry
<1>7. \A c : /\ Stages(c)[0] = Begun(c)
             /\ \A s \in 0..(LgN - 1) : Stages(c)[s + 1] = StageOf(Stages(c)[s], s)
  BY <1>1, LevelLaws DEF Stages
<1>8. ASSUME NEW s \in 0..(LgN - 1), NEW c \in traced, NEW i \in Positions
      PROVE  Column(s - 1, c)[i] = Stages(c)[s][i]
  <2>1. CASE s = 0
    BY <1>1, <1>2, <1>7, <2>1 DEF Begun, Ct
  <2>2. CASE s # 0
    <3>1. s - 1 \in 0..(LgN - 1) /\ (s - 1) + 1 = s /\ s - 1 # -1
      BY <1>1, <2>2
    <3>2. Column(s - 1, c)[i] = trace[<<s - 1, c, i>>].value
      BY <3>1
    <3> QED BY <1>5, <1>6, <3>1, <3>2
  <2> QED BY <2>1, <2>2
<1> HIDE DEF Column
<1>9. ASSUME NEW s \in 0..(LgN - 1), NEW c \in traced, NEW i \in Positions
      PROVE  Explained(s, c, i)
  <2> DEFINE e == EntryOf(c, s, i)
             v == Stages(c)[s]
  <2>1. trace[<<s, c, i>>] = e /\ e.value = StageOf(v, s)[i]
    BY <1>5, <1>6, <1>7
  <2>2. CASE ct
    <3> DEFINE a == BlockOf(s, i)
               k == i % Half(s)
    <3>1. e.pair[1] = a /\ e.pair[2] = a + Half(s) /\ e.index = k * Rest(s)
      BY <1>1, <2>2 DEF EntryOf, Entry
    <3>2. /\ a \in Positions /\ a + Half(s) \in Positions
          /\ k \in 0..(Half(s) - 1) /\ (k * Rest(s)) \div Rest(s) = k
          /\ Staged(v, s)[i] = IF i = a THEN Plus(v[a], Turned(v[a + Half(s)], Twiddle(k * Rest(s))))
                                        ELSE Minus(v[a], Turned(v[a + Half(s)], Twiddle(k * Rest(s))))
      BY <1>1, StagedExplained
    <3>3. TwiddleTable[(Half(s) - 1) + k] = Twiddle(k * Rest(s))
      BY <1>1, <3>2, TwiddleAt
    <3>4. Factor(s, e) = Twiddle(k * Rest(s))
      BY <3>1, <3>2, <3>3 DEF Half, Rest
    <3>5. Column(s - 1, c)[a] = v[a] /\ Column(s - 1, c)[a + Half(s)] = v[a + Half(s)]
      BY <1>8, <3>2
    <3>6. StageOf(v, s) = Staged(v, s)
      BY <2>2 DEF StageOf
    <3> HIDE DEF e, v, a, k
    <3> QED BY <2>1, <2>2, <3>1, <3>2, <3>4, <3>5, <3>6
  <2>3. CASE ~ct
    <3> DEFINE a == FirstOf(s, i)
               j == (i % (N \div 2)) \div Rest(s)
    <3>1. e.pair[1] = a /\ e.pair[2] = a + Rest(s) /\ e.index = j * Rest(s)
      BY <1>1, <2>3 DEF EntryOf, Entry
    <3>2. /\ a \in Positions /\ a + Rest(s) \in Positions
          /\ j \in 0..(Half(s) - 1) /\ (j * Rest(s)) \div Rest(s) = j
          /\ Scattered(v, s)[i] = IF 2 * i < N THEN Plus(v[a], Turned(v[a + Rest(s)], Twiddle(j * Rest(s))))
                                  ELSE Minus(v[a], Turned(v[a + Rest(s)], Twiddle(j * Rest(s))))
      BY <1>1, ScatteredExplained
    <3>3. TwiddleTable[(Half(s) - 1) + j] = Twiddle(j * Rest(s))
      BY <1>1, <3>2, TwiddleAt
    <3>4. Factor(s, e) = Twiddle(j * Rest(s))
      BY <3>1, <3>2, <3>3 DEF Half, Rest
    <3>5. Column(s - 1, c)[a] = v[a] /\ Column(s - 1, c)[a + Rest(s)] = v[a + Rest(s)]
      BY <1>8, <3>2
    <3>6. StageOf(v, s) = Scattered(v, s)
      BY <2>3 DEF StageOf
    <3> HIDE DEF e, v, a, j
    <3> QED BY <2>1, <2>3, <3>1, <3>2, <3>4, <3>5, <3>6
  <2> QED BY <2>2, <2>3
<1>10. \A x \in DOMAIN trace : Explained(x[1], x[2], x[3])
  <2> HIDE DEF Explained
  <2> QED BY <1>4, <1>9
<1>11. ASSUME NEW c \in traced PROVE data[c] = Scaled(Column(LgN - 1, c))
  <2>1. data[c] = Result(c)
    BY <1>2, <1>3, InvGivesScheduled DEF Scheduled
  <2>2. LgN - 1 \in 0..(LgN - 1) /\ (LgN - 1) + 1 = LgN /\ LgN - 1 # -1
    BY <1>1
  <2>3. Stages(c)[LgN] = [i \in Positions |-> Stages(c)[LgN][i]]
    <3>1. Stages(c)[LgN] = StageOf(Stages(c)[LgN - 1], LgN - 1)
      BY <1>7, <2>2
    <3> QED BY <3>1 DEF StageOf, Staged, Scattered
  <2>4. Column(LgN - 1, c) = [i \in Positions |-> trace[<<LgN - 1, c, i>>].value]
    BY <2>2 DEF Column
  <2>5. \A i \in Positions : trace[<<LgN - 1, c, i>>].value = Stages(c)[LgN][i]
    BY <1>5, <1>6, <2>2
  <2>6. Column(LgN - 1, c) = Stages(c)[LgN]
    BY <2>3, <2>4, <2>5
  <2> QED BY <2>1, <2>6 DEF Result
<1> QED BY <1>4, <1>10, <1>11

-----------------------------------------------------------------------------
(* The theorems, for calls on one axis and for both calls of a plane.      *)

\* What a plane's first call must know to hand over to its second.
PlaneShape ==
  plane # NoPlane =>
    /\ asked = "none" /\ plan.mode = "C2C"
    /\ plane.second.kernel \in {"cooleytukey", "stockham"} /\ plane.second.mode = "C2C"
    /\ plane.second.N \in Nat \ {0} /\ IsPow2(plane.second.N)
    /\ side = "columns" => \A c \in DOMAIN input : DOMAIN input[c] = Positions

PlaneInv == (phase # "turned" => KernelInv) /\ PlaneShape

(* Both ways to begin establish the invariant.                              *)
LEMMA PlaneInitHolds == PlaneInit => PlaneInv
<1> SUFFICES ASSUME PlaneInit PROVE PlaneInv
  OBVIOUS
<1>1. CASE plane = NoPlane /\ Init
  BY <1>1, InitHolds DEF PlaneInv, PlaneShape
<1>2. ASSUME NEW s \in Shapes, NEW k0 \in Kernels, NEW k1 \in Kernels, NEW inverse \in BOOLEAN,
             plan = ComplexPlan(k0, s.rows, inverse),
             NEW i, input = BasisMatrix(s.rows, s.cols, i),
             plane = [first |-> plan, second |-> ComplexPlan(k1, s.cols, inverse), matrix |-> input],
             asked = "none", Started
      PROVE  PlaneInv
  <2>1. /\ s.rows \in Nat \ {0} /\ s.cols \in Nat \ {0} /\ IsPow2(s.rows) /\ IsPow2(s.cols)
        /\ k0 \in {"cooleytukey", "stockham"} /\ k1 \in {"cooleytukey", "stockham"}
    BY PlanesAssumption, OrderAssumption, KernelsAssumption
  <2>2. /\ plan.kernel = k0 /\ N = s.rows /\ plan.mode = "C2C"
        /\ plane.second.kernel = k1 /\ plane.second.N = s.cols /\ plane.second.mode = "C2C"
    BY <1>2 DEF ComplexPlan, N
  <2>3. DOMAIN input = 0..(s.cols - 1) /\ \A c \in DOMAIN input : DOMAIN input[c] = 0..(s.rows - 1)
    BY <1>2 DEF BasisMatrix
  <2>4. CallShape
    <3>1. PlanShape
      BY <2>1, <2>2, LogIs DEF PlanShape, LgN
    <3> QED BY <1>2, <2>1, <2>2, <3>1 DEF CallShape
  <2>5. DataShape
    <3>1. Cardinality(0..(s.cols - 1)) = s.cols
      BY <2>1, FS_Interval
    <3>2. data = input /\ data = [c \in DOMAIN data |-> data[c]]
      BY <1>2 DEF Started, BasisMatrix
    <3> QED BY <2>1, <2>3, <3>1, <3>2 DEF DataShape, Columns
  <2>6. Fresh
    BY <1>2 DEF Started, Fresh
  <2> QED BY <1>2, <2>1, <2>2, <2>3, <2>4, <2>5, <2>6, Begins DEF PlaneInv, PlaneShape, Positions
<1> QED BY <1>1, <1>2 DEF PlaneInit

(* At the end of the first call every column is a column of the matrix.      *)
LEMMA ColumnsEndWhole ==
  ASSUME KernelInv, PlaneShape, plane # NoPlane, side = "columns", phase = "done"
  PROVE  \A c \in Columns : DOMAIN data[c] = Positions
<1> SUFFICES ASSUME NEW c \in Columns PROVE DOMAIN data[c] = Positions
  OBVIOUS
<1>1. plan.mode = "C2C" /\ LgN \in Nat /\ DOMAIN input[c] = Positions
  BY DEF KernelInv, CallShape, PlanShape, PlaneShape, DataShape
<1>2. data[c] = input[c] \/ data[c] = Result(c)
  BY <1>1 DEF KernelInv, DataInv, Finished
<1>3. DOMAIN Stages(c)[LgN] = Positions
  <2>1. CASE LgN = 0
    <3>1. Stages(c)[LgN] = Begun(c)
      BY <1>1, <2>1, LevelLaws DEF Stages
    <3>2. DOMAIN Begun(c) = Positions
      BY <1>1 DEF Begun, Permuted, Prepared
    <3> QED BY <3>1, <3>2
  <2>2. CASE LgN # 0
    <3>1. LgN - 1 \in 0..(LgN - 1) /\ (LgN - 1) + 1 = LgN
      BY <1>1, <2>2
    <3>2. Stages(c)[LgN] = StageOf(Stages(c)[LgN - 1], LgN - 1)
      BY <1>1, <3>1, LevelLaws DEF Stages
    <3> QED BY <3>2 DEF StageOf, Staged, Scattered
  <2> QED BY <2>1, <2>2
<1>4. DOMAIN Result(c) = Positions
  BY <1>3 DEF Result, Scaled
<1> QED BY <1>1, <1>2, <1>4

(* The second call begins as a call on one axis does.                        *)
LEMMA TurnOverKeeps == PlaneInv /\ TurnOver => PlaneInv'
<1> SUFFICES ASSUME PlaneInv, TurnOver PROVE PlaneInv'
  OBVIOUS
<1>1. /\ plane # NoPlane /\ side = "columns" /\ phase = "done" /\ side' = "rows"
      /\ plan' = plane.second /\ input' = Transposed(data) /\ data' = input'
      /\ phase' = IF plan'.kernel = "cooleytukey" THEN "pre" ELSE "chunks"
      /\ stage' = 0 /\ next' = 0 /\ lost' = {}
      /\ ping' = [w \in Workers |-> <<>>] /\ pong' = [w \in Workers |-> <<>>]
      /\ UNCHANGED <<plane, asked, task, step, trace>>
  BY DEF TurnOver
<1>2. KernelInv /\ PlaneShape
  BY <1>1 DEF PlaneInv
<1>3. /\ asked = "none" /\ plane.second.kernel \in {"cooleytukey", "stockham"}
      /\ plane.second.mode = "C2C" /\ plane.second.N \in Nat \ {0} /\ IsPow2(plane.second.N)
  BY <1>1, <1>2 DEF PlaneShape
<1>4. CallShape'
  <2>1. PlanShape'
    BY <1>1, <1>3, LogIs DEF PlanShape, LgN, N
  <2> QED BY <1>1, <1>3, <2>1 DEF CallShape
<1>5. DataShape'
  <2> DEFINE rows == Cardinality(DOMAIN data[0])
  <2>1. DOMAIN data[0] = 0..(N - 1) /\ N \in Nat \ {0}
    BY <1>1, <1>2, ColumnsEndWhole, ChunkFacts DEF KernelInv, CallShape, PlanShape, Positions
  <2>2. Cardinality(0..(N - 1)) = N
    BY <2>1, FS_Interval
  <2>3. rows = N
    BY <2>1, <2>2
  <2>4. data' = [r \in 0..(N - 1) |-> data'[r]] /\ DOMAIN data' = 0..(N - 1)
    BY <1>1, <2>3 DEF Transposed
  <2> QED BY <1>1, <2>1, <2>2, <2>4 DEF DataShape, Columns
<1>6. Fresh'
  <2>1. \A w \in Workers : task[w] = Idle
    BY <1>1, <1>2 DEF KernelInv, TaskInv, Dispatching
  <2>2. task = [w \in Workers |-> Idle]
    BY <1>2, <2>1 DEF KernelInv, TaskInv
  <2>3. step = [w \in Workers |-> -1]
    BY <1>1, <1>2 DEF KernelInv, BufferInv
  <2>4. DOMAIN trace = {}
    BY <1>2, <1>3 DEF KernelInv, TraceInv, Wanted
  <2> QED BY <1>1, <2>2, <2>3, <2>4 DEF Fresh
<1>7. CallShape' /\ DataShape' /\ Fresh' => KernelInv'
  BY Begins, PTL
<1>8. PlaneShape'
  BY <1>1, <1>3 DEF PlaneShape
<1> QED BY <1>4, <1>5, <1>6, <1>7, <1>8 DEF PlaneInv

(* Every step of a plane keeps it.                                          *)
LEMMA PlaneNextKeeps == PlaneInv /\ [PlaneNext]_allVars => PlaneInv'
<1> SUFFICES ASSUME PlaneInv, [PlaneNext]_allVars PROVE PlaneInv'
  OBVIOUS
<1>1. ASSUME UNCHANGED <<call, planeVars>> PROVE PlaneShape'
  BY <1>1 DEF PlaneInv, PlaneShape, Positions, N, call, planeVars
<1>2. CASE AxisStep
  <2>1. phase # "turned"
    BY <1>2 DEF AxisStep, Next, PreTransform, EndDispatch, Scale, PostTransform, Take,
                PermuteChunk, StageChunk, NoSlot, Load, TransformStage, Store, Dispatching
  <2>2. KernelInv'
    BY <1>2, <2>1, NextKeeps DEF PlaneInv, AxisStep
  <2>3. UNCHANGED <<call, planeVars>>
    BY <1>2 DEF AxisStep, Next, PreTransform, EndDispatch, Scale, PostTransform, Take,
                PermuteChunk, StageChunk, NoSlot, Load, TransformStage, Store
  <2> QED BY <1>1, <2>2, <2>3 DEF PlaneInv
<1>3. CASE TurnOver
  BY <1>3, TurnOverKeeps
<1>4. CASE TurnBack
  BY <1>1, <1>4 DEF TurnBack, PlaneInv
<1>5. CASE UNCHANGED allVars
  <2>1. UNCHANGED vars /\ UNCHANGED <<call, planeVars>> /\ phase' = phase
    BY <1>5 DEF allVars, vars
  <2> QED BY <1>1, <2>1, StutterKeeps DEF PlaneInv
<1> QED BY <1>2, <1>3, <1>4, <1>5 DEF PlaneNext

(* The invariant holds throughout, whatever the constants (eigen_fft.hpp
   2919-3018 and 3404-3560).                                                *)
THEOREM PlaneInvariant == PlaneSpec => []PlaneInv
BY PlaneInitHolds, PlaneNextKeeps, PTL DEF PlaneSpec

(* A column is stored whole or not at all, so that a chunk of Stockham can   *)
(* be attempted again (eigen_fft.hpp 3427-3560).                             *)
THEOREM StockhamStoresWhole == PlaneSpec => []StoredWholeOrNotAtAll
<1>1. PlaneInv => StoredWholeOrNotAtAll
  <2>1. phase = "turned" => StoredWholeOrNotAtAll
    BY DEF StoredWholeOrNotAtAll
  <2> QED BY <2>1, InvGivesWhole DEF PlaneInv
<1> QED BY <1>1, PlaneInvariant, PTL

(* A trace accounts for the result, value by value (eigen_fft.hpp 2958-3010  *)
(* and 3462-3532).                                                           *)
THEOREM TracesExplain == PlaneSpec => []TraceExplains
<1>1. PlaneInv => TraceExplains
  <2>1. phase = "turned" => TraceExplains
    BY DEF TraceExplains
  <2> QED BY <2>1, InvGivesTrace DEF PlaneInv
<1> QED BY <1>1, PlaneInvariant, PTL

(* Whatever the schedule, a call ends with a function of its input and plan  *)
(* alone, column by column, and gives a column up only where Stockham has    *)
(* fewer slots than the dispatcher has threads.                              *)
THEOREM ScheduleDoesNotMatter == PlaneSpec => [](Scheduled /\ (phase # "turned" => LossesHaveACause))
<1>1. PlaneInv => Scheduled /\ (phase # "turned" => LossesHaveACause)
  <2>1. phase = "turned" => Scheduled
    BY DEF Scheduled
  <2> QED BY <2>1, InvGivesScheduled DEF PlaneInv
<1> QED BY <1>1, PlaneInvariant, PTL

(* The same of the calls on one axis alone.                                  *)
THEOREM CallInvariant == Spec => []KernelInv
<1>1. Init => KernelInv
  BY InitHolds
<1>2. KernelInv /\ [Next]_vars => KernelInv'
  BY NextKeeps, StutterKeeps
<1> QED BY <1>1, <1>2, PTL DEF Spec

-----------------------------------------------------------------------------
(* Numbers: sums of powers of z.                                           *)

Number == [Powers -> Int]

\* The coefficient of z^r, for any integer r.
Coefficient(x, r) ==
  LET q == r % Order IN IF q \in Powers THEN x[q] ELSE -x[q - Order \div 2]

(* Half a turn is a whole number of powers.                                  *)
LEMMA HalfTurn == Order \in Nat \ {0} /\ Order \div 2 \in Nat \ {0} /\ Order = 2 * (Order \div 2)
BY OrderAssumption

(* Remainders of integers.                                                   *)
LEMMA Remainder ==
  ASSUME NEW r \in Int, NEW m \in Nat \ {0}
  PROVE  r % m \in 0..(m - 1) /\ \E a \in Int : r = a * m + (r % m)
<1>1. r % m \in 0..(m - 1) /\ r \div m \in Int /\ r = (r \div m) * m + (r % m)
  OBVIOUS
<1> QED BY <1>1

(* ... and it is the only one.                                              *)
LEMMA RemainderOf ==
  ASSUME NEW r \in Int, NEW m \in Nat \ {0}, NEW b \in 0..(m - 1),
         \E a \in Int : r = a * m + b
  PROVE  r % m = b
OBVIOUS

(* Coefficients come round after a whole turn, ...                           *)
LEMMA WholeTurn ==
  ASSUME NEW x, NEW r \in Int, NEW a \in Int
  PROVE  Coefficient(x, r + a * Order) = Coefficient(x, r)
<1>1. PICK b \in Int : r = b * Order + (r % Order) /\ r % Order \in 0..(Order - 1)
  BY Remainder, HalfTurn
<1> DEFINE q == r % Order
<1>2. r + a * Order = (a + b) * Order + q /\ q \in 0..(Order - 1)
  <2>1. (a + b) * Order = a * Order + b * Order
    BY HalfTurn
  <2> QED BY <1>1, <2>1, HalfTurn
<1> HIDE DEF q
<1>3. (r + a * Order) % Order = q
  <2>1. a + b \in Int /\ r + a * Order \in Int
    BY HalfTurn
  <2>2. \E c \in Int : r + a * Order = c * Order + q
    BY <1>2, <2>1
  <2> QED BY <1>2, <2>1, <2>2, RemainderOf, HalfTurn
<1> QED BY <1>3 DEF Coefficient, q

(* ... and change sign after half a turn.                                    *)
LEMMA HalfTurnNegates ==
  ASSUME NEW x \in Number, NEW r \in Int
  PROVE  Coefficient(x, r + Order \div 2) = -Coefficient(x, r)
<1>1. PICK b \in Int : r = b * Order + (r % Order) /\ r % Order \in 0..(Order - 1)
  BY Remainder, HalfTurn
<1> DEFINE q == r % Order
           h == Order \div 2
<1>2. q \in 0..(Order - 1) /\ Order = 2 * h /\ h \in Nat \ {0} /\ Powers = 0..(h - 1) /\ r = b * Order + q
      /\ Order \in Nat \ {0} /\ b * Order \in Int
  BY <1>1, HalfTurn DEF Powers
<1> HIDE DEF q, h
<1>3. CASE q < h
  <2>1. r + h = b * Order + (q + h) /\ q + h \in 0..(Order - 1)
    BY <1>2, <1>3
  <2>2. (r + h) % Order = q + h
    <3>1. r + h \in Int /\ \E c \in Int : r + h = c * Order + (q + h)
      BY <1>2, <2>1
    <3> QED BY <1>2, <2>1, <3>1, RemainderOf
  <2>3. q \in Powers /\ q + h \notin Powers /\ (q + h) - h = q
    BY <1>2, <1>3
  <2> QED BY <2>2, <2>3 DEF Coefficient, q, h
<1>4. CASE q >= h
  <2>1. (b + 1) * Order = b * Order + Order
    BY <1>2
  <2>2. r + h = (b + 1) * Order + (q - h) /\ q - h \in 0..(Order - 1) /\ b + 1 \in Int /\ r + h \in Int
    BY <1>2, <1>4, <2>1
  <2>3. (r + h) % Order = q - h
    <3>1. r + h \in Int /\ \E c \in Int : r + h = c * Order + (q - h)
      BY <1>2, <2>2
    <3> QED BY <1>2, <2>2, <3>1, RemainderOf
  <2>4. q \notin Powers /\ q - h \in Powers
    BY <1>2, <1>4
  <2>5. x[q - h] \in Int
    BY <2>4 DEF Number
  <2> QED BY <2>3, <2>4, <2>5 DEF Coefficient, q, h
<1>5. Coefficient(x, r + h) = -Coefficient(x, r)
  BY <1>2, <1>3, <1>4
<1> QED BY <1>5 DEF h

(* It is an integer.                                                         *)
LEMMA CoefficientType ==
  ASSUME NEW x \in Number, NEW r \in Int
  PROVE  Coefficient(x, r) \in Int
<1> DEFINE q == r % Order
           h == Order \div 2
<1>1. q \in 0..(Order - 1) /\ Order = 2 * h /\ h \in Nat \ {0} /\ Powers = 0..(h - 1)
  BY Remainder, HalfTurn DEF Powers
<1>2. q \in Powers \/ q - h \in Powers
  BY <1>1
<1> QED BY <1>2 DEF Coefficient, Number

(* The powers of a number are its coefficients.                              *)
LEMMA OwnCoefficient ==
  ASSUME NEW x, NEW p \in Powers
  PROVE  Coefficient(x, p) = x[p]
<1>1. p \in 0..(Order - 1) /\ p = 0 * Order + p
  BY HalfTurn DEF Powers
<1>2. p % Order = p
  BY <1>1, RemainderOf, HalfTurn
<1> QED BY <1>2 DEF Coefficient

(* Numbers with the same coefficients are the same.                          *)
LEMMA SameNumber ==
  ASSUME NEW x \in Number, NEW y \in Number, \A p \in Powers : x[p] = y[p]
  PROVE  x = y
BY DEF Number

-----------------------------------------------------------------------------
(* Rotations.                                                              *)

(* A rotation moves coefficients, ...                                        *)
LEMMA RotatedCoefficient ==
  ASSUME NEW x \in Number, NEW e \in Int, NEW r \in Int
  PROVE  Coefficient(Turned(x, e), r) = Coefficient(x, r - e)
<1> DEFINE q == r % Order
           h == Order \div 2
           y == Turned(x, e)
<1>1. \A p \in Powers : y[p] = Coefficient(x, p - e)
  BY DEF Turned, Coefficient
<1>2. /\ q \in 0..(Order - 1) /\ Order = 2 * h /\ h \in Nat \ {0} /\ Powers = 0..(h - 1)
      /\ \E a \in Int : r = a * Order + q
  BY Remainder, HalfTurn DEF Powers
<1>3. PICK a \in Int : r = a * Order + q
  BY <1>2
<1> HIDE DEF y, q
<1>4. Coefficient(x, q - e) = Coefficient(x, r - e)
  <2>1. q - e \in Int /\ r - e = (q - e) + a * Order
    BY <1>2, <1>3, HalfTurn
  <2> QED BY <2>1, WholeTurn
<1>5. CASE q \in Powers
  <2>1. Coefficient(y, r) = y[q]
    BY <1>5 DEF Coefficient, q
  <2> QED BY <1>1, <1>4, <1>5, <2>1 DEF y
<1>6. CASE q \notin Powers
  <2>1. Coefficient(y, r) = -y[q - h]
    BY <1>6 DEF Coefficient, q
  <2>2. q - h \in Powers /\ (q - h) - e \in Int /\ q - e = ((q - h) - e) + h
    BY <1>2, <1>6
  <2>3. Coefficient(x, q - e) = -Coefficient(x, (q - h) - e)
    BY <2>2, HalfTurnNegates
  <2>4. y[q - h] = Coefficient(x, (q - h) - e)
    BY <1>1, <2>2
  <2> QED BY <1>4, <2>1, <2>3, <2>4 DEF y
<1> QED BY <1>5, <1>6

(* What Turned computes, coefficient by coefficient.                        *)
LEMMA RotatedType ==
  ASSUME NEW x \in Number, NEW e \in Int
  PROVE  Turned(x, e) \in Number /\ \A p \in Powers : Turned(x, e)[p] = Coefficient(x, p - e)
<1>1. \A p \in Powers : p - e \in Int
  BY HalfTurn DEF Powers
<1>2. Turned(x, e) = [p \in Powers |-> Coefficient(x, p - e)]
  BY DEF Turned, Coefficient
<1> QED BY <1>1, <1>2, CoefficientType DEF Number

(* ... two make one, ...                                                     *)
LEMMA RotatedTwice ==
  ASSUME NEW x \in Number, NEW d \in Int, NEW e \in Int
  PROVE  Turned(Turned(x, d), e) = Turned(x, d + e)
<1> DEFINE y == Turned(x, d)
<1>1. y \in Number /\ Turned(y, e) \in Number /\ Turned(x, d + e) \in Number
  BY RotatedType
<1>2. ASSUME NEW p \in Powers PROVE Turned(y, e)[p] = Turned(x, d + e)[p]
  <2>1. p - e \in Int /\ (p - e) - d = p - (d + e)
    BY HalfTurn DEF Powers
  <2>2. Turned(y, e)[p] = Coefficient(y, p - e)
    BY <1>1, RotatedType
  <2>3. Coefficient(y, p - e) = Coefficient(x, p - (d + e))
    BY <2>1, RotatedCoefficient
  <2>4. Turned(x, d + e)[p] = Coefficient(x, p - (d + e))
    BY RotatedType
  <2> QED BY <2>2, <2>3, <2>4
<1> QED BY <1>1, <1>2, SameNumber

(* ... whole turns do nothing, ...                                           *)
LEMMA RotatedRound ==
  ASSUME NEW x \in Number, NEW e \in Int, NEW a \in Int
  PROVE  Turned(x, e + a * Order) = Turned(x, e)
<1>1. e + a * Order \in Int /\ -a \in Int
  BY HalfTurn
<1>2. Turned(x, e + a * Order) \in Number /\ Turned(x, e) \in Number
  BY <1>1, RotatedType
<1>3. ASSUME NEW p \in Powers PROVE Turned(x, e + a * Order)[p] = Turned(x, e)[p]
  <2>1. p - e \in Int /\ p - (e + a * Order) = (p - e) + (-a) * Order
    BY HalfTurn DEF Powers
  <2>2. Coefficient(x, p - (e + a * Order)) = Coefficient(x, p - e)
    BY <1>1, <2>1, WholeTurn
  <2> QED BY <1>1, <2>2, RotatedType
<1> QED BY <1>2, <1>3, SameNumber

(* The rotation by 0 leaves a number as it is.                              *)
LEMMA NotRotated ==
  ASSUME NEW x \in Number
  PROVE  Turned(x, 0) = x
<1>1. Turned(x, 0) \in Number
  BY RotatedType
<1>2. ASSUME NEW p \in Powers PROVE Turned(x, 0)[p] = x[p]
  <2>1. p - 0 = p
    BY DEF Powers
  <2> QED BY <2>1, RotatedType, OwnCoefficient
<1> QED BY <1>1, <1>2, SameNumber

(* ... half a turn negates, ...                                              *)
LEMMA RotatedHalf ==
  ASSUME NEW x \in Number, NEW e \in Int
  PROVE  \A p \in Powers : Turned(x, e + Order \div 2)[p] = -Turned(x, e)[p]
<1> SUFFICES ASSUME NEW p \in Powers
             PROVE  Turned(x, e + Order \div 2)[p] = -Turned(x, e)[p]
  OBVIOUS
<1> DEFINE h == Order \div 2
<1>1. p \in Int /\ h \in Int /\ e + h \in Int /\ p - (e + h) \in Int /\ p - e = (p - (e + h)) + h
  BY HalfTurn DEF Powers
<1>2. Coefficient(x, p - e) = -Coefficient(x, p - (e + h))
  BY <1>1, HalfTurnNegates
<1>3. Coefficient(x, p - (e + h)) \in Int
  BY <1>1, CoefficientType
<1>4. Turned(x, e + h)[p] = Coefficient(x, p - (e + h)) /\ Turned(x, e)[p] = Coefficient(x, p - e)
  BY <1>1, RotatedType
<1> QED BY <1>2, <1>3, <1>4

(* ... and sums turn term by term.                                           *)
LEMMA PlusType ==
  ASSUME NEW x \in Number, NEW y \in Number
  PROVE  /\ Plus(x, y) \in Number /\ Minus(x, y) \in Number
         /\ \A p \in Powers : Plus(x, y)[p] = x[p] + y[p] /\ Minus(x, y)[p] = x[p] - y[p]
BY DEF Number, Plus, Minus

(* Coefficients add up, ...                                                 *)
LEMMA CoefficientPlus ==
  ASSUME NEW x \in Number, NEW y \in Number, NEW r \in Int
  PROVE  Coefficient(Plus(x, y), r) = Coefficient(x, r) + Coefficient(y, r)
<1> DEFINE q == r % Order
           h == Order \div 2
<1>1. q \in 0..(Order - 1) /\ Order = 2 * h /\ h \in Nat \ {0} /\ Powers = 0..(h - 1)
  BY Remainder, HalfTurn DEF Powers
<1>2. q \in Powers \/ q - h \in Powers
  BY <1>1
<1> HIDE DEF q, h
<1>3. CASE q \in Powers
  BY <1>3, PlusType DEF Coefficient, q
<1>4. CASE q \notin Powers
  <2>1. Plus(x, y)[q - h] = x[q - h] + y[q - h] /\ x[q - h] \in Int /\ y[q - h] \in Int
    BY <1>2, <1>4, PlusType DEF Number
  <2> QED BY <1>4, <2>1 DEF Coefficient, q, h
<1> QED BY <1>3, <1>4

(* ... so rotations distribute over sums.                                   *)
LEMMA RotatedPlus ==
  ASSUME NEW x \in Number, NEW y \in Number, NEW e \in Int
  PROVE  Turned(Plus(x, y), e) = Plus(Turned(x, e), Turned(y, e))
<1>1. /\ Plus(x, y) \in Number /\ Turned(x, e) \in Number /\ Turned(y, e) \in Number
      /\ Turned(Plus(x, y), e) \in Number /\ Plus(Turned(x, e), Turned(y, e)) \in Number
  BY PlusType, RotatedType
<1>2. ASSUME NEW p \in Powers
      PROVE  Turned(Plus(x, y), e)[p] = Plus(Turned(x, e), Turned(y, e))[p]
  <2>1. p - e \in Int
    BY HalfTurn DEF Powers
  <2>2. Turned(Plus(x, y), e)[p] = Coefficient(x, p - e) + Coefficient(y, p - e)
    BY <1>1, <2>1, RotatedType, CoefficientPlus
  <2>3. Turned(x, e)[p] = Coefficient(x, p - e) /\ Turned(y, e)[p] = Coefficient(y, p - e)
    BY RotatedType
  <2> QED BY <1>1, <2>2, <2>3, PlusType
<1> QED BY <1>1, <1>2, SameNumber

-----------------------------------------------------------------------------
(* Sums.                                                                   *)

SumAt(g, f, k) == IF k = 0 THEN Zero ELSE Plus(g[k - 1], f[k - 1])

(* The recursion has a solution up to any number, ...                        *)
LEMMA SumUpto ==
  ASSUME NEW f, NEW n \in Nat
  PROVE  \E g : g = [k \in 0..n |-> SumAt(g, f, k)]
<1> DEFINE T == {m \in Nat : \E g : g = [k \in 0..m |-> SumAt(g, f, k)]}
<1>1. 0 \in T
  <2> DEFINE g == [k \in 0..0 |-> Zero]
  <2>1. \A k \in 0..0 : SumAt(g, f, k) = Zero
    BY DEF SumAt
  <2>2. g = [k \in 0..0 |-> SumAt(g, f, k)]
    BY <2>1
  <2> QED BY <2>2
<1>2. ASSUME NEW m \in Nat, m \in T PROVE m + 1 \in T
  <2>1. PICK g : g = [k \in 0..m |-> SumAt(g, f, k)]
    BY <1>2
  <2> DEFINE new == SumAt(g, f, m + 1)
             e == [k \in 0..(m + 1) |-> IF k = m + 1 THEN new ELSE g[k]]
  <2>2. \A k \in 0..m : e[k] = g[k]
    OBVIOUS
  <2>3. e[m + 1] = new
    OBVIOUS
  <2>4. e = [k \in 0..(m + 1) |-> e[k]]
    OBVIOUS
  <2> HIDE DEF e
  <2>5. ASSUME NEW k \in 0..(m + 1) PROVE e[k] = SumAt(e, f, k)
    <3>1. k # 0 => k - 1 \in 0..m
      OBVIOUS
    <3>2. SumAt(e, f, k) = SumAt(g, f, k)
      BY <2>2, <3>1 DEF SumAt
    <3>3. CASE k = m + 1
      BY <2>3, <3>2, <3>3
    <3>4. CASE k # m + 1
      <4>1. k \in 0..m
        BY <3>4
      <4>2. g[k] = SumAt(g, f, k)
        BY <2>1, <4>1
      <4> QED BY <2>2, <3>2, <4>1, <4>2
    <3> QED BY <3>3, <3>4
  <2>6. e = [k \in 0..(m + 1) |-> SumAt(e, f, k)]
    BY <2>4, <2>5
  <2> QED BY <2>6
<1>3. n \in T
  <2> HIDE DEF T
  <2> QED BY <1>1, <1>2, SetInduction
<1> QED BY <1>3

(* ... only one ...                                                          *)
LEMMA SumsAgree ==
  ASSUME NEW f, NEW n \in Nat, NEW m \in Nat, n <= m,
         NEW g, \A k \in 0..n : g[k] = SumAt(g, f, k),
         NEW e, \A k \in 0..m : e[k] = SumAt(e, f, k)
  PROVE  \A k \in 0..n : g[k] = e[k]
<1> DEFINE T == {k \in Nat : k <= n => g[k] = e[k]}
<1>1. 0 \in T
  <2>1. 0 \in 0..n /\ 0 \in 0..m
    OBVIOUS
  <2>2. g[0] = SumAt(g, f, 0) /\ e[0] = SumAt(e, f, 0)
    BY <2>1
  <2> QED BY <2>2 DEF SumAt
<1>2. ASSUME NEW k \in Nat, k \in T PROVE k + 1 \in T
  <2> SUFFICES ASSUME k + 1 <= n PROVE g[k + 1] = e[k + 1]
    OBVIOUS
  <2>1. g[k] = e[k] /\ k + 1 \in 0..n /\ k + 1 \in 0..m /\ k + 1 # 0 /\ (k + 1) - 1 = k
    BY <1>2
  <2>2. g[k + 1] = SumAt(g, f, k + 1) /\ e[k + 1] = SumAt(e, f, k + 1)
    BY <2>1
  <2> QED BY <2>1, <2>2 DEF SumAt
<1>3. Nat \subseteq T
  <2> HIDE DEF T
  <2> QED BY <1>1, <1>2, SetInduction
<1> QED BY <1>3

(* ... and so a sum is the sum of all terms but the last, and the last.      *)
LEMMA SumLaws ==
  ASSUME NEW f
  PROVE  Total(f, 0) = Zero /\ \A n \in Nat : Total(f, n + 1) = Plus(Total(f, n), f[n])
<1> DEFINE Upto(n) == CHOOSE g : g = [k \in 0..n |-> SumAt(g, f, k)]
           sum == [n \in Nat |-> Upto(n)[n]]
           all == CHOOSE g : g = [n \in Nat |-> SumAt(g, f, n)]
<1>1. \A n \in Nat : Upto(n) = [k \in 0..n |-> SumAt(Upto(n), f, k)]
  BY SumUpto
<1> HIDE DEF Upto
<1>2. ASSUME NEW n \in Nat PROVE sum[n] = SumAt(sum, f, n)
  <2>1. Upto(n)[n] = SumAt(Upto(n), f, n)
    BY <1>1
  <2>2. CASE n = 0
    BY <2>1, <2>2 DEF SumAt
  <2>3. CASE n # 0
    <3>1. n - 1 \in Nat /\ n - 1 <= n /\ n - 1 \in 0..(n - 1)
      BY <2>3
    <3>2. \A k \in 0..(n - 1) : Upto(n - 1)[k] = Upto(n)[k]
      <4>1. /\ \A k \in 0..(n - 1) : Upto(n - 1)[k] = SumAt(Upto(n - 1), f, k)
            /\ \A k \in 0..n : Upto(n)[k] = SumAt(Upto(n), f, k)
        BY <1>1, <3>1
      <4> HIDE DEF sum, all
      <4> QED BY <3>1, <4>1, SumsAgree
    <3>3. Upto(n - 1)[n - 1] = Upto(n)[n - 1]
      BY <3>1, <3>2
    <3>4. sum[n - 1] = Upto(n)[n - 1]
      BY <3>1, <3>3
    <3> QED BY <2>1, <2>3, <3>4 DEF SumAt
  <2> QED BY <2>2, <2>3
<1>3. sum = [n \in Nat |-> sum[n]]
  OBVIOUS
<1> HIDE DEF sum
<1>4. sum = [n \in Nat |-> SumAt(sum, f, n)]
  BY <1>2, <1>3
<1>5. all = [n \in Nat |-> SumAt(all, f, n)]
  BY <1>4
<1>6. \A n : Total(f, n) = all[n]
  BY DEF Total, SumAt
<1> HIDE DEF all
<1>7. \A n \in Nat : all[n] = SumAt(all, f, n)
  BY <1>5
<1>8. ASSUME NEW n \in Nat PROVE all[n + 1] = Plus(all[n], f[n])
  <2>1. n + 1 \in Nat /\ n + 1 # 0 /\ (n + 1) - 1 = n
    OBVIOUS
  <2> QED BY <1>7, <2>1 DEF SumAt
<1> QED BY <1>6, <1>7, <1>8 DEF SumAt

(* A sum of numbers is a number.                                             *)
LEMMA SumType ==
  ASSUME NEW n \in Nat, NEW f, \A k \in 0..(n - 1) : f[k] \in Number
  PROVE  Total(f, n) \in Number
<1> DEFINE T == {m \in Nat : m <= n => Total(f, m) \in Number}
<1>1. 0 \in T
  <2>1. Zero \in Number
    BY DEF Zero, Number
  <2> QED BY <2>1, SumLaws
<1>2. ASSUME NEW m \in Nat, m \in T PROVE m + 1 \in T
  <2> SUFFICES ASSUME m + 1 <= n PROVE Total(f, m + 1) \in Number
    OBVIOUS
  <2>1. Total(f, m) \in Number /\ f[m] \in Number
    BY <1>2
  <2> QED BY <2>1, SumLaws, PlusType
<1> HIDE DEF T
<1>3. n \in T
  BY <1>1, <1>2, SetInduction
<1> QED BY <1>3 DEF T

(* It depends on its terms only.                                             *)
LEMMA SumSame ==
  ASSUME NEW n \in Nat, NEW f, NEW g, \A k \in 0..(n - 1) : f[k] = g[k]
  PROVE  Total(f, n) = Total(g, n)
<1> DEFINE T == {m \in Nat : m <= n => Total(f, m) = Total(g, m)}
<1>1. 0 \in T
  BY SumLaws
<1>2. ASSUME NEW m \in Nat, m \in T PROVE m + 1 \in T
  <2> SUFFICES ASSUME m + 1 <= n PROVE Total(f, m + 1) = Total(g, m + 1)
    OBVIOUS
  <2>1. Total(f, m) = Total(g, m) /\ f[m] = g[m]
    BY <1>2
  <2>2. Total(f, m + 1) = Plus(Total(f, m), f[m]) /\ Total(g, m + 1) = Plus(Total(g, m), g[m])
    BY SumLaws
  <2> QED BY <2>1, <2>2
<1> HIDE DEF T
<1>3. n \in T
  BY <1>1, <1>2, SetInduction
<1> QED BY <1>3 DEF T

(* It turns with its terms.                                                  *)
LEMMA SumTurned ==
  ASSUME NEW n \in Nat, NEW f, \A k \in 0..(n - 1) : f[k] \in Number, NEW e \in Int,
         NEW g, \A k \in 0..(n - 1) : g[k] = Turned(f[k], e)
  PROVE  Turned(Total(f, n), e) = Total(g, n)
<1> DEFINE T == {m \in Nat : m <= n => Turned(Total(f, m), e) = Total(g, m)}
<1>1. 0 \in T
  <2>1. Zero \in Number /\ Turned(Zero, e) \in Number
    BY RotatedType DEF Zero, Number
  <2>2. \A p \in Powers : Turned(Zero, e)[p] = Zero[p]
    <3>1. \A p \in Powers : Turned(Zero, e)[p] = Coefficient(Zero, p - e)
      BY <2>1, RotatedType
    <3>2. ASSUME NEW r \in Int PROVE Coefficient(Zero, r) = 0
      <4> DEFINE q == r % Order
                 h == Order \div 2
      <4>1. q \in 0..(Order - 1) /\ Order = 2 * h /\ h \in Nat \ {0} /\ Powers = 0..(h - 1)
        BY Remainder, HalfTurn DEF Powers
      <4>2. q \in Powers \/ q - h \in Powers
        BY <4>1
      <4>3. \A p \in Powers : Zero[p] = 0
        BY DEF Zero
      <4> HIDE DEF q, h
      <4> QED BY <4>2, <4>3 DEF Coefficient, q, h
    <3> QED BY <3>1, <3>2, HalfTurn DEF Zero, Powers
  <2> QED BY <2>1, <2>2, SameNumber, SumLaws
<1>2. ASSUME NEW m \in Nat, m \in T PROVE m + 1 \in T
  <2> SUFFICES ASSUME m + 1 <= n PROVE Turned(Total(f, m + 1), e) = Total(g, m + 1)
    OBVIOUS
  <2>1. Turned(Total(f, m), e) = Total(g, m) /\ f[m] \in Number /\ g[m] = Turned(f[m], e)
    BY <1>2
  <2>2. Total(f, m + 1) = Plus(Total(f, m), f[m]) /\ Total(g, m + 1) = Plus(Total(g, m), g[m])
    BY SumLaws
  <2>3. Total(f, m) \in Number
    <3>1. \A k \in 0..(m - 1) : f[k] \in Number
      OBVIOUS
    <3> QED BY <3>1, SumType
  <2> QED BY <2>1, <2>2, <2>3, RotatedPlus
<1> HIDE DEF T
<1>3. n \in T
  BY <1>1, <1>2, SetInduction
<1> QED BY <1>3 DEF T

(* Additions can be regrouped.                                               *)
LEMMA PlusRegroup ==
  ASSUME NEW a \in Number, NEW b \in Number, NEW c \in Number, NEW d \in Number
  PROVE  /\ Plus(Plus(a, b), Plus(c, d)) = Plus(Plus(a, c), Plus(b, d))
         /\ Plus(Plus(a, b), c) = Plus(a, Plus(b, c))
<1>1. \A p \in Powers : a[p] \in Int /\ b[p] \in Int /\ c[p] \in Int /\ d[p] \in Int
  BY DEF Number
<1> QED BY <1>1 DEF Plus

(* The sum of terms with an even place and the sum of those with an odd one. *)
LEMMA SumEvenOdd ==
  ASSUME NEW n \in Nat, NEW f, \A k \in 0..(2 * n - 1) : f[k] \in Number,
         NEW even, \A k \in 0..(n - 1) : even[k] = f[2 * k],
         NEW odd, \A k \in 0..(n - 1) : odd[k] = f[2 * k + 1]
  PROVE  Total(f, 2 * n) = Plus(Total(even, n), Total(odd, n))
<1> DEFINE T == {m \in Nat : m <= n => Total(f, 2 * m) = Plus(Total(even, m), Total(odd, m))}
<1>1. 0 \in T
  <2>1. Plus(Zero, Zero) = Zero
    BY DEF Plus, Zero
  <2> QED BY <2>1, SumLaws
<1>2. ASSUME NEW m \in Nat, m \in T PROVE m + 1 \in T
  <2> SUFFICES ASSUME m + 1 <= n
               PROVE  Total(f, 2 * (m + 1)) = Plus(Total(even, m + 1), Total(odd, m + 1))
    OBVIOUS
  <2>1. Total(f, 2 * m) = Plus(Total(even, m), Total(odd, m)) /\ even[m] = f[2 * m] /\ odd[m] = f[2 * m + 1]
    BY <1>2
  <2>2. /\ \A k \in 0..(m - 1) : even[k] \in Number /\ odd[k] \in Number
        /\ even[m] \in Number /\ odd[m] \in Number
    OBVIOUS
  <2>3. Total(even, m) \in Number /\ Total(odd, m) \in Number
    BY <2>2, SumType
  <2>4. /\ 2 * m \in Nat /\ 2 * m + 1 \in Nat /\ 2 * (m + 1) = (2 * m + 1) + 1
    OBVIOUS
  <2>5. Total(f, 2 * (m + 1)) = Plus(Plus(Total(f, 2 * m), f[2 * m]), f[2 * m + 1])
    BY <2>4, SumLaws
  <2>6. Total(even, m + 1) = Plus(Total(even, m), even[m]) /\ Total(odd, m + 1) = Plus(Total(odd, m), odd[m])
    BY SumLaws
  <2>7. Plus(Plus(Plus(Total(even, m), Total(odd, m)), even[m]), odd[m])
          = Plus(Plus(Total(even, m), even[m]), Plus(Total(odd, m), odd[m]))
    <3> DEFINE E == Total(even, m)
               O == Total(odd, m)
    <3>1. E \in Number /\ O \in Number /\ even[m] \in Number /\ odd[m] \in Number
      BY <2>2, <2>3
    <3> HIDE DEF E, O
    <3>2. Plus(Plus(Plus(E, O), even[m]), odd[m]) = Plus(Plus(E, O), Plus(even[m], odd[m]))
      <4>1. Plus(E, O) \in Number
        BY <3>1, PlusType
      <4> HIDE DEF T
      <4> QED BY <3>1, <4>1, PlusRegroup
    <3>3. Plus(Plus(E, O), Plus(even[m], odd[m])) = Plus(Plus(E, even[m]), Plus(O, odd[m]))
      BY <3>1, PlusRegroup
    <3> QED BY <3>2, <3>3 DEF E, O
  <2> QED BY <2>1, <2>5, <2>6, <2>7
<1> HIDE DEF T
<1>3. n \in T
  BY <1>1, <1>2, SetInduction
<1> QED BY <1>3 DEF T

-----------------------------------------------------------------------------
(* Twiddles.                                                               *)

\* The size of a transform divides a whole turn.
Divides == Order % N = 0

(* The size of a plan divides the whole turn evenly.                        *)
LEMMA TurnShape ==
  ASSUME PlanShape, Divides
  PROVE  Order \div N \in Int /\ Order = N * (Order \div N) /\ N \in Nat \ {0}
BY HalfTurn DEF PlanShape, Divides

(* Exponents add, ...                                                        *)
LEMMA TwiddleAdds ==
  ASSUME PlanShape, Divides, NEW a \in Int, NEW b \in Int
  PROVE  Twiddle(a) \in Int /\ Twiddle(a + b) = Twiddle(a) + Twiddle(b)
<1> DEFINE u == Order \div N
           sign == IF plan.inverse THEN 1 ELSE -1
<1>1. u \in Int /\ sign \in {1, -1}
  BY TurnShape
<1>2. Twiddle(a) = sign * a * u /\ Twiddle(b) = sign * b * u /\ Twiddle(a + b) = sign * (a + b) * u
  BY DEF Twiddle
<1> HIDE DEF u, sign
<1>3. (a + b) * u = a * u + b * u /\ a * u \in Int /\ b * u \in Int
  BY <1>1
<1>4. CASE sign = 1
  BY <1>2, <1>3, <1>4
<1>5. CASE sign = -1
  <2>1. (-1) * a * u = -(a * u) /\ (-1) * b * u = -(b * u) /\ (-1) * (a + b) * u = -((a + b) * u)
    BY <1>1
  <2> QED BY <1>2, <1>3, <1>5, <2>1
<1> QED BY <1>1, <1>4, <1>5

(* ... N of them are whole turns, ...                                        *)
LEMMA TwiddleRound ==
  ASSUME PlanShape, Divides, NEW x \in Number, NEW e \in Int, NEW a \in Int
  PROVE  Turned(x, e + Twiddle(a * N)) = Turned(x, e)
<1> DEFINE u == Order \div N
           sign == IF plan.inverse THEN 1 ELSE -1
           t == Twiddle(a * N)
<1>1. u \in Int /\ sign \in {1, -1} /\ Order = N * u /\ N \in Nat
  BY TurnShape
<1>2. t = sign * (a * N) * u
  BY DEF Twiddle
<1> HIDE DEF u, sign, t
<1>3. (a * N) * u = a * Order
  BY <1>1
<1>4. t = a * Order \/ t = (-a) * Order
  <2>1. CASE sign = 1
    <3>1. a * N \in Int
      BY <1>1
    <3>2. 1 * (a * N) = a * N
      BY <3>1
    <3> QED BY <1>2, <1>3, <2>1, <3>2
  <2>2. CASE sign = -1
    <3>1. a * N \in Int /\ Order \in Int
      BY <1>1, HalfTurn
    <3>2. (-1) * (a * N) = -(a * N) /\ (-(a * N)) * u = -((a * N) * u) /\ (-a) * Order = -(a * Order)
      BY <1>1, <3>1
    <3> QED BY <1>2, <1>3, <2>2, <3>2
  <2> QED BY <1>1, <2>1, <2>2
<1>5. Turned(x, e + t) = Turned(x, e)
  <2>1. -a \in Int
    OBVIOUS
  <2> QED BY <1>4, <2>1, RotatedRound
<1> QED BY <1>5 DEF t

(* ... and half of them half a turn, which negates.                          *)
LEMMA TwiddleHalf ==
  ASSUME PlanShape, Divides, NEW x \in Number, NEW e \in Int, NEW m \in Nat, N = 2 * m
  PROVE  \A p \in Powers : Turned(x, e + Twiddle(m))[p] = -Turned(x, e)[p]
<1> DEFINE u == Order \div N
           sign == IF plan.inverse THEN 1 ELSE -1
           h == Order \div 2
           t == Twiddle(m)
<1>1. u \in Int /\ sign \in {1, -1} /\ Order = N * u /\ N \in Nat /\ Order = 2 * h /\ h \in Int
  BY TurnShape, HalfTurn
<1>2. t = sign * m * u
  BY DEF Twiddle
<1> HIDE DEF u, sign, h, t
<1>3. m * u = h
  <2>1. N * u = 2 * (m * u) /\ m * u \in Int
    BY <1>1
  <2> QED BY <1>1, <2>1
<1>4. t = h \/ t = -h
  <2>1. CASE sign = 1
    BY <1>2, <1>3, <2>1
  <2>2. CASE sign = -1
    <3>1. (-1) * m * u = -(m * u)
      BY <1>1
    <3> QED BY <1>2, <1>3, <2>2, <3>1
  <2> QED BY <1>1, <2>1, <2>2
<1>5. \A p \in Powers : Turned(x, e + h)[p] = -Turned(x, e)[p]
  BY RotatedHalf DEF h
<1>6. Turned(x, e - h) = Turned(x, e + h)
  <2>1. e - h \in Int /\ e + h = (e - h) + 1 * Order /\ 1 \in Int
    BY <1>1
  <2> QED BY <2>1, RotatedRound
<1>7. e - h = e + (-h)
  BY <1>1
<1> QED BY <1>4, <1>5, <1>6, <1>7 DEF t

-----------------------------------------------------------------------------
(* Transforms of every st-th element.                                      *)

\* The transform of the n elements of v at off, off + st, off + 2 * st, ...
Sub(v, n, off, st, k) ==
  Total([m \in 0..(n - 1) |-> Turned(v[off + m * st], Twiddle(m * k * st))], n)

Column == [Positions -> Number]

(* The elements are elements of the column.                                  *)
LEMMA SubPlaces ==
  ASSUME PlanShape, NEW n \in Nat, NEW st \in Nat, n * st = N, NEW off \in 0..(st - 1),
         NEW m \in 0..(n - 1)
  PROVE  off + m * st \in Positions
<1>1. (m + 1) * st <= n * st /\ (m + 1) * st = m * st + st /\ m * st \in Nat
  OBVIOUS
<1> QED BY <1>1 DEF Positions, PlanShape

(* Its terms are numbers, and so is their sum.                              *)
LEMMA SubTerms ==
  ASSUME PlanShape, Divides, NEW v \in Column, NEW n \in Nat, NEW st \in Nat, n * st = N,
         NEW off \in 0..(st - 1), NEW k \in Nat
  PROVE  /\ \A m \in 0..(n - 1) :
              /\ v[off + m * st] \in Number /\ Twiddle(m * k * st) \in Int
              /\ Turned(v[off + m * st], Twiddle(m * k * st)) \in Number
         /\ Sub(v, n, off, st, k) \in Number
<1>1. ASSUME NEW m \in 0..(n - 1)
      PROVE  /\ v[off + m * st] \in Number /\ Twiddle(m * k * st) \in Int
             /\ Turned(v[off + m * st], Twiddle(m * k * st)) \in Number
  <2>1. v[off + m * st] \in Number
    BY SubPlaces DEF Column
  <2>2. m * k * st \in Int
    OBVIOUS
  <2>3. Twiddle(m * k * st) \in Int
    BY <2>2, TwiddleAdds
  <2> QED BY <2>1, <2>3, RotatedType
<1> DEFINE f == [m \in 0..(n - 1) |-> Turned(v[off + m * st], Twiddle(m * k * st))]
<1>2. \A m \in 0..(n - 1) : f[m] \in Number
  BY <1>1
<1> HIDE DEF f
<1>3. Total(f, n) \in Number
  BY <1>2, SumType
<1> QED BY <1>1, <1>3 DEF Sub, f

(* It comes round after n.                                                   *)
LEMMA SubPeriod ==
  ASSUME PlanShape, Divides, NEW v \in Column, NEW n \in Nat, NEW st \in Nat, n * st = N,
         NEW off \in 0..(st - 1), NEW k \in Nat
  PROVE  Sub(v, n, off, st, k + n) = Sub(v, n, off, st, k)
<1> DEFINE f == [m \in 0..(n - 1) |-> Turned(v[off + m * st], Twiddle(m * (k + n) * st))]
           g == [m \in 0..(n - 1) |-> Turned(v[off + m * st], Twiddle(m * k * st))]
<1>1. ASSUME NEW m \in 0..(n - 1) PROVE f[m] = g[m]
  <2>1. m * (k + n) * st = m * k * st + m * N
    <3>1. m * (k + n) * st = m * k * st + m * (n * st)
      OBVIOUS
    <3> QED BY <3>1
  <2>2. m * k * st \in Int /\ m * N \in Int /\ m \in Int
    BY DEF PlanShape
  <2>3. Twiddle(m * (k + n) * st) = Twiddle(m * k * st) + Twiddle(m * N)
    BY <2>1, <2>2, TwiddleAdds
  <2>4. v[off + m * st] \in Number /\ Twiddle(m * k * st) \in Int
    BY SubTerms
  <2>5. Turned(v[off + m * st], Twiddle(m * k * st) + Twiddle(m * N)) = Turned(v[off + m * st], Twiddle(m * k * st))
    BY <2>2, <2>4, TwiddleRound
  <2> QED BY <2>3, <2>5
<1> HIDE DEF f, g
<1>2. Total(f, n) = Total(g, n)
  BY <1>1, SumSame
<1> QED BY <1>2 DEF Sub, f, g

(* Twice as many elements are those at even and those at odd places.         *)
LEMMA SubSplit ==
  ASSUME PlanShape, Divides, NEW v \in Column, NEW n \in Nat, NEW st \in Nat, (2 * n) * st = N,
         NEW off \in 0..(st - 1), NEW k \in Nat
  PROVE  Sub(v, 2 * n, off, st, k)
           = Plus(Sub(v, n, off, 2 * st, k), Turned(Sub(v, n, off + st, 2 * st, k), Twiddle(k * st)))
<1> DEFINE f == [m \in 0..(2 * n - 1) |-> Turned(v[off + m * st], Twiddle(m * k * st))]
           even == [m \in 0..(n - 1) |-> Turned(v[off + m * (2 * st)], Twiddle(m * k * (2 * st)))]
           later == [m \in 0..(n - 1) |-> Turned(v[(off + st) + m * (2 * st)], Twiddle(m * k * (2 * st)))]
           odd == [m \in 0..(n - 1) |-> Turned(later[m], Twiddle(k * st))]
<1>1. /\ 2 * n \in Nat /\ 2 * st \in Nat /\ n * (2 * st) = N /\ k * st \in Int
      /\ off \in 0..(2 * st - 1) /\ off + st \in 0..(2 * st - 1)
  OBVIOUS
<1>2. \A m \in 0..(2 * n - 1) : f[m] \in Number
  BY <1>1, SubTerms
<1>3. ASSUME NEW m \in 0..(n - 1) PROVE even[m] = f[2 * m]
  <2>1. 2 * m \in 0..(2 * n - 1) /\ (2 * m) * st = m * (2 * st) /\ (2 * m) * k * st = m * k * (2 * st)
    OBVIOUS
  <2> QED BY <2>1
<1>4. ASSUME NEW m \in 0..(n - 1) PROVE later[m] \in Number /\ odd[m] = f[2 * m + 1]
  <2>1. /\ 2 * m + 1 \in 0..(2 * n - 1) /\ off + (2 * m + 1) * st = (off + st) + m * (2 * st)
        /\ (2 * m + 1) * k * st = m * k * (2 * st) + k * st /\ m * k * (2 * st) \in Int
    <3>1. (2 * m + 1) * st = m * (2 * st) + st
      OBVIOUS
    <3>2. (2 * m + 1) * k * st = (2 * m) * k * st + k * st
      OBVIOUS
    <3>3. (2 * m) * k * st = m * k * (2 * st) /\ m * k * (2 * st) \in Int
      OBVIOUS
    <3>4. m * (2 * st) \in Int
      OBVIOUS
    <3> QED BY <3>1, <3>2, <3>3, <3>4
  <2> DEFINE w == v[(off + st) + m * (2 * st)]
  <2>2. w \in Number /\ Twiddle(m * k * (2 * st)) \in Int /\ later[m] \in Number
    BY <1>1, SubTerms
  <2>3. Twiddle((2 * m + 1) * k * st) = Twiddle(m * k * (2 * st)) + Twiddle(k * st)
    BY <1>1, <2>1, TwiddleAdds
  <2>4. Twiddle(k * st) \in Int
    BY <1>1, TwiddleAdds
  <2>5. Turned(Turned(w, Twiddle(m * k * (2 * st))), Twiddle(k * st)) = Turned(w, Twiddle((2 * m + 1) * k * st))
    <3> DEFINE d == Twiddle(m * k * (2 * st))
               e == Twiddle(k * st)
    <3>1. d \in Int /\ e \in Int /\ w \in Number
      BY <2>2, <2>4
    <3> HIDE DEF d, e, w
    <3>2. Turned(Turned(w, d), e) = Turned(w, d + e)
      BY <3>1, RotatedTwice
    <3> QED BY <2>3, <3>2 DEF d, e
  <2>6. f[2 * m + 1] = Turned(w, Twiddle((2 * m + 1) * k * st))
    BY <2>1
  <2>7. odd[m] = Turned(Turned(w, Twiddle(m * k * (2 * st))), Twiddle(k * st))
    OBVIOUS
  <2> QED BY <2>2, <2>5, <2>6, <2>7
<1>5. \A m \in 0..(n - 1) : odd[m] = Turned(later[m], Twiddle(k * st))
  OBVIOUS
<1>6. Twiddle(k * st) \in Int
  BY <1>1, TwiddleAdds
<1> HIDE DEF f, even, later, odd
<1>7. Total(f, 2 * n) = Plus(Total(even, n), Total(odd, n))
  BY <1>2, <1>3, <1>4, SumEvenOdd
<1>8. Turned(Total(later, n), Twiddle(k * st)) = Total(odd, n)
  BY <1>4, <1>5, <1>6, SumTurned
<1>9. /\ Sub(v, 2 * n, off, st, k) = Total(f, 2 * n) /\ Sub(v, n, off, 2 * st, k) = Total(even, n)
      /\ Sub(v, n, off + st, 2 * st, k) = Total(later, n)
  BY DEF Sub, f, even, later
<1> QED BY <1>7, <1>8, <1>9

(* A butterfly makes two values of twice as many elements from one value     *)
(* each of those at even and at odd places.                                  *)
LEMMA ButterflyJoins ==
  ASSUME PlanShape, Divides, NEW v \in Column, NEW n \in Nat, NEW st \in Nat, (2 * n) * st = N,
         NEW off \in 0..(st - 1), NEW k \in Nat
  PROVE  LET a == Sub(v, n, off, 2 * st, k)
             b == Turned(Sub(v, n, off + st, 2 * st, k), Twiddle(k * st))
         IN  /\ Plus(a, b) = Sub(v, 2 * n, off, st, k)
             /\ Minus(a, b) = Sub(v, 2 * n, off, st, k + n)
<1> DEFINE a == Sub(v, n, off, 2 * st, k)
           y == Sub(v, n, off + st, 2 * st, k)
           b == Turned(y, Twiddle(k * st))
           c == Turned(y, Twiddle((k + n) * st))
<1>1. /\ 2 * n \in Nat /\ 2 * st \in Nat /\ n * (2 * st) = N /\ k * st \in Int /\ k + n \in Nat
      /\ off \in 0..(2 * st - 1) /\ off + st \in 0..(2 * st - 1) /\ n * st \in Nat /\ N = 2 * (n * st)
      /\ (k + n) * st = k * st + n * st
  OBVIOUS
<1>2. a \in Number /\ y \in Number
  BY <1>1, SubTerms
<1>3. Sub(v, n, off, 2 * st, k + n) = a /\ Sub(v, n, off + st, 2 * st, k + n) = y
  BY <1>1, SubPeriod
<1>4. Plus(a, b) = Sub(v, 2 * n, off, st, k) /\ Plus(a, c) = Sub(v, 2 * n, off, st, k + n)
  BY <1>1, <1>3, SubSplit
<1>5. /\ Twiddle(k * st) \in Int /\ Twiddle(n * st) \in Int
      /\ Twiddle((k + n) * st) = Twiddle(k * st) + Twiddle(n * st)
  <2>1. n * st \in Int
    BY <1>1
  <2> QED BY <1>1, <2>1, TwiddleAdds
<1>6. b \in Number /\ c \in Number
  <2>1. Twiddle(k * st) + Twiddle(n * st) \in Int
    BY <1>5
  <2> QED BY <1>2, <1>5, <2>1, RotatedType
<1>7. \A p \in Powers : c[p] = -b[p]
  BY <1>1, <1>2, <1>5, TwiddleHalf
<1> HIDE DEF a, b, c, y
<1>8. Plus(a, c) = Minus(a, b)
  <2>1. \A p \in Powers : a[p] \in Int /\ b[p] \in Int
    BY <1>2, <1>6 DEF Number
  <2>2. \A p \in Powers : a[p] + c[p] = a[p] - b[p]
    BY <1>7, <2>1
  <2> QED BY <2>2 DEF Plus, Minus
<1> QED BY <1>4, <1>8 DEF a, b, c, y

-----------------------------------------------------------------------------
(* Stockham's stages.                                                      *)

\* The distance of the elements a value has been made of after s stages.
Stride(s) == N \div Pow2[s]

(* Blocks and strides share the column between them.                        *)
LEMMA StrideShape ==
  ASSUME PlanShape, NEW s \in 0..LgN
  PROVE  /\ Half(s) \in Nat \ {0} /\ Stride(s) \in Nat \ {0} /\ Half(s) * Stride(s) = N
         /\ s # LgN => /\ Rest(s) \in Nat \ {0} /\ Stride(s) = 2 * Rest(s) /\ Stride(s + 1) = Rest(s)
                       /\ Half(s + 1) = 2 * Half(s) /\ (2 * Half(s)) * Rest(s) = N
<1>1. Half(s) \in Nat \ {0} /\ N \in Nat \ {0} /\ LgN \in Nat
  BY PowType DEF Half, PlanShape
<1>2. CASE s = LgN
  <2>1. Half(s) = N
    BY <1>2 DEF PlanShape, Half
  <2>2. N \div N = 1
    <3>1. N = 1 * N + 0
      BY <1>1
    <3> QED BY <1>1, <3>1, DivisionOf
  <2> QED BY <1>1, <1>2, <2>1, <2>2 DEF Stride, Half
<1>3. CASE s # LgN
  <2>1. s \in 0..(LgN - 1)
    BY <1>1, <1>3
  <2> DEFINE h == Half(s)
             q == Rest(s)
  <2>2. h \in Nat \ {0} /\ q \in Nat \ {0} /\ Pow2[s + 1] = 2 * h /\ N = q * (2 * h)
    BY <2>1, StageShape
  <2>3. N \div h = 2 * q
    <3> HIDE DEF h, q
    <3>1. N = (2 * q) * h + 0 /\ 2 * q \in Nat
      BY <2>2
    <3> QED BY <2>2, <3>1, DivisionOf
  <2>4. h * (2 * q) = N /\ (2 * h) * q = N
    BY <2>2
  <2> QED BY <1>1, <2>2, <2>3, <2>4 DEF Stride, Half, Rest
<1> QED BY <1>2, <1>3

(* Values k * Stride(s) + g, g < Stride(s), are the transforms of the        *)
(* elements g, g + Stride(s), ...                                            *)
Autosorted(v, w, s) ==
  \A k \in 0..(Half(s) - 1) : \A g \in 0..(Stride(s) - 1) :
    w[k * Stride(s) + g] = Sub(v, Half(s), g, Stride(s), k)

(* One stage of Stockham keeps the columns sorted that way.                 *)
LEMMA StockhamStage ==
  ASSUME PlanShape, Divides, NEW v \in Column, NEW w, NEW s \in 0..(LgN - 1), Autosorted(v, w, s)
  PROVE  Autosorted(v, Scattered(w, s), s + 1)
<1> DEFINE h == Half(s)
           q == Rest(s)
           half == N \div 2
<1>1. /\ h \in Nat \ {0} /\ q \in Nat \ {0} /\ Stride(s) = 2 * q /\ Stride(s + 1) = q
      /\ Half(s + 1) = 2 * h /\ (2 * h) * q = N
  <2>1. s \in 0..LgN /\ s # LgN
    BY DEF PlanShape
  <2> QED BY <2>1, StrideShape
<1>2. half = h * q /\ N = 2 * half /\ half \in Nat \ {0}
  <2>1. half = q * h /\ N = 2 * (q * h)
    BY StageShape
  <2>2. q * h = h * q /\ h * q \in Nat \ {0}
    BY <1>1
  <2> QED BY <2>1, <2>2
<1> SUFFICES ASSUME NEW l \in 0..(2 * h - 1), NEW g \in 0..(q - 1)
             PROVE  Scattered(w, s)[l * q + g] = Sub(v, 2 * h, g, q, l)
  BY <1>1 DEF Autosorted
<1> DEFINE i == l * q + g
           k == IF l < h THEN l ELSE l - h
           a == FirstOf(s, i)
<1> HIDE DEF h, q, half
<1>3. k \in 0..(h - 1) /\ (l < h => l = k) /\ (l >= h => l = k + h)
  BY <1>1
<1>4. k * q + q <= half /\ k * q \in Nat /\ k * q + g < half
  <2>1. (k + 1) * q <= h * q /\ (k + 1) * q = k * q + q
    BY <1>1, <1>3
  <2> QED BY <1>1, <1>2, <1>3, <2>1
<1>5. i = (IF l < h THEN 0 ELSE half) + (k * q + g)
  <2>1. (k + h) * q = k * q + h * q
    BY <1>1, <1>3
  <2>2. CASE l < h
    BY <1>1, <1>3, <1>4, <2>2
  <2>3. CASE ~(l < h)
    <3>1. l * q = k * q + half
      BY <1>1, <1>2, <1>3, <2>1, <2>3
    <3>2. l * q + g = half + (k * q + g)
      BY <1>1, <1>2, <1>4, <3>1
    <3> QED BY <2>3, <3>2
  <2> QED BY <2>2, <2>3
<1>6. i \in Positions /\ (2 * i < N <=> l < h)
  BY <1>2, <1>3, <1>4, <1>5 DEF Positions, PlanShape
<1> HIDE DEF i, k, a
<1>7. i % half = k * q + g
  <2>1. \E b \in {0, 1} : i = b * half + (k * q + g)
    BY <1>2, <1>4, <1>5
  <2>2. PICK b \in {0, 1} : i = b * half + (k * q + g)
    BY <2>1
  <2>3. b \in Nat /\ k * q + g \in Nat
    BY <1>4, <1>1
  <2> QED BY <1>2, <1>4, <2>2, <2>3, DivisionOf
<1>8. (i % half) \div q = k
  <2>1. k \in Nat /\ g \in Nat /\ g < q
    BY <1>1, <1>3
  <2>2. (k * q + g) \div q = k
    BY <1>1, <2>1, DivisionOf
  <2> QED BY <1>7, <2>2
<1>9. i % q = g
  <2>1. i = l * q + g /\ l \in Nat /\ g \in Nat /\ g < q
    BY <1>1 DEF i
  <2> QED BY <1>1, <2>1, DivisionOf
<1>10. a = k * (2 * q) + g /\ a + q = k * (2 * q) + (g + q)
  <2>1. a = (2 * k) * q + g
    BY <1>8, <1>9 DEF FirstOf, a, half, q
  <2> QED BY <1>1, <1>3, <2>1
<1>11. w[a] = Sub(v, h, g, 2 * q, k) /\ w[a + q] = Sub(v, h, g + q, 2 * q, k)
  <2>1. g \in 0..(2 * q - 1) /\ g + q \in 0..(2 * q - 1)
    BY <1>1
  <2> QED BY <1>1, <1>3, <1>10, <2>1 DEF Autosorted, h
<1>12. Scattered(w, s)[i] =
         LET t == Turned(w[a + q], Twiddle(k * q)) IN IF 2 * i < N THEN Plus(w[a], t) ELSE Minus(w[a], t)
  BY <1>6, <1>8, ScatteredExplained DEF a, half, q
<1>13. /\ Plus(w[a], Turned(w[a + q], Twiddle(k * q))) = Sub(v, 2 * h, g, q, k)
       /\ Minus(w[a], Turned(w[a + q], Twiddle(k * q))) = Sub(v, 2 * h, g, q, k + h)
  BY <1>1, <1>3, <1>11, ButterflyJoins
<1>14. Scattered(w, s)[i] = Sub(v, 2 * h, g, q, l)
  <2>1. CASE l < h
    BY <1>3, <1>6, <1>12, <1>13, <2>1
  <2>2. CASE ~(l < h)
    <3>1. l = k + h
      BY <1>1, <1>3, <2>2
    <3> QED BY <1>6, <1>12, <1>13, <2>2, <3>1
  <2> QED BY <2>1, <2>2
<1> QED BY <1>14 DEF i

(* A transform of one element is the element.                                *)
LEMMA SubOne ==
  ASSUME PlanShape, Divides, NEW v \in Column, NEW off \in Positions
  PROVE  Sub(v, 1, off, N, 0) = v[off]
<1> DEFINE f == [m \in 0..0 |-> Turned(v[off + m * N], Twiddle(m * 0 * N))]
<1>1. N \in Nat \ {0} /\ off \in 0..(N - 1) /\ 0 * N = 0 /\ 0 * 0 * N = 0 /\ off + 0 = off
  BY DEF Positions, PlanShape
<1>2. f[0] = Turned(v[off], Twiddle(0))
  BY <1>1
<1>3. Twiddle(0) = 0
  BY TurnShape DEF Twiddle
<1>4. f[0] = v[off] /\ v[off] \in Number
  <2>1. v[off] \in Number
    BY DEF Column
  <2> QED BY <1>2, <1>3, <2>1, NotRotated
<1> HIDE DEF f
<1>5. Total(f, 0) = Zero /\ Total(f, 0 + 1) = Plus(Total(f, 0), f[0])
  BY SumLaws
<1>6. Total(f, 1) = Plus(Zero, v[off])
  BY <1>4, <1>5
<1>7. Plus(Zero, v[off]) = v[off]
  <2>1. \A p \in Powers : v[off][p] \in Int
    BY <1>4 DEF Number
  <2>2. \A p \in Powers : Zero[p] + v[off][p] = v[off][p]
    BY <2>1 DEF Zero
  <2>3. v[off] = [p \in Powers |-> v[off][p]]
    BY <1>4 DEF Number
  <2> QED BY <2>2, <2>3 DEF Plus
<1> QED BY <1>6, <1>7 DEF Sub, f

\* The transform itself.
Spectrum(v) == [k \in Positions |-> Total([n \in Positions |-> Turned(v[n], Twiddle(n * k))], N)]

(* The transform of every element of a column is its spectrum.              *)
LEMMA SubAll ==
  ASSUME PlanShape, Divides, NEW v \in Column, NEW k \in Positions
  PROVE  Sub(v, N, 0, 1, k) = Spectrum(v)[k]
<1> DEFINE f == [m \in 0..(N - 1) |-> Turned(v[0 + m * 1], Twiddle(m * k * 1))]
           g == [n \in Positions |-> Turned(v[n], Twiddle(n * k))]
<1>1. \A m \in 0..(N - 1) : 0 + m * 1 = m /\ m * k * 1 = m * k
  BY DEF Positions, PlanShape
<1>2. \A m \in 0..(N - 1) : f[m] = g[m]
  BY <1>1 DEF Positions
<1>3. N \in Nat
  BY DEF PlanShape
<1> HIDE DEF f, g
<1>4. Total(f, N) = Total(g, N)
  BY <1>2, <1>3, SumSame
<1> QED BY <1>4 DEF Sub, Spectrum, f, g

(* Stages make columns.                                                      *)
LEMMA LevelShape ==
  ASSUME PlanShape, NEW v, NEW s \in 0..LgN, v = [i \in Positions |-> v[i]]
  PROVE  Levels(v)[s] = [i \in Positions |-> Levels(v)[s][i]]
<1>1. CASE s = 0
  BY <1>1, LevelLaws DEF PlanShape
<1>2. CASE s # 0
  <2>1. s - 1 \in 0..(LgN - 1) /\ (s - 1) + 1 = s
    BY <1>2 DEF PlanShape
  <2>2. Levels(v)[s] = StageOf(Levels(v)[s - 1], s - 1)
    BY <2>1, LevelLaws DEF PlanShape
  <2>3. \A w, t : Staged(w, t) = [i \in Positions |-> Staged(w, t)[i]]
    <3> SUFFICES ASSUME NEW w, NEW t PROVE Staged(w, t) = [i \in Positions |-> Staged(w, t)[i]]
      OBVIOUS
    <3> DEFINE half == Pow2[t]
               len == 2 * half
               at(i) == len * (i \div len) + (i % half)
               e(i) == IF i % len < half THEN Y0(w[at(i)], w[at(i) + half], (i % half) * (N \div len))
                                         ELSE Y1(w[at(i)], w[at(i) + half], (i % half) * (N \div len))
    <3>1. Staged(w, t) = [i \in Positions |-> e(i)]
      BY DEF Staged
    <3> HIDE DEF e
    <3> QED BY <3>1
  <2>4. \A w, t : Scattered(w, t) = [i \in Positions |-> Scattered(w, t)[i]]
    <3> SUFFICES ASSUME NEW w, NEW t PROVE Scattered(w, t) = [i \in Positions |-> Scattered(w, t)[i]]
      OBVIOUS
    <3> DEFINE segments == N \div Pow2[t + 1]
               half == N \div 2
               j(i) == (i % half) \div segments
               g(i) == i % segments
               a(i) == w[2 * j(i) * segments + g(i)]
               b(i) == w[(2 * j(i) + 1) * segments + g(i)]
               e(i) == IF i < half THEN Y0(a(i), b(i), j(i) * segments) ELSE Y1(a(i), b(i), j(i) * segments)
    <3>1. Scattered(w, t) = [i \in Positions |-> e(i)]
      BY DEF Scattered
    <3> HIDE DEF e
    <3> QED BY <3>1
  <2>5. \A w, t : StageOf(w, t) = [i \in Positions |-> StageOf(w, t)[i]]
    BY <2>3, <2>4 DEF StageOf
  <2> QED BY <2>2, <2>5
<1> QED BY <1>1, <1>2

(* A column that is sorted by frequency after all stages is the spectrum.    *)
LEMMA SortedIsSpectrum ==
  ASSUME PlanShape, Divides, NEW v \in Column, NEW w, w = [i \in Positions |-> w[i]],
         \A k \in Positions : w[k] = Sub(v, N, 0, 1, k)
  PROVE  w = Spectrum(v)
<1>1. \A k \in Positions : w[k] = Spectrum(v)[k]
  BY SubAll
<1>2. Spectrum(v) = [k \in Positions |-> Spectrum(v)[k]]
  BY DEF Spectrum
<1> HIDE DEF Spectrum
<1> QED BY <1>1, <1>2

(* Stockham's stages compute the spectrum.                                   *)
LEMMA StockhamTransforms ==
  ASSUME PlanShape, Divides, plan.kernel # "cooleytukey", NEW v \in Column
  PROVE  Levels(v)[LgN] = Spectrum(v)
<1> DEFINE T == {s \in Nat : s <= LgN => Autosorted(v, Levels(v)[s], s)}
<1>1. LgN \in Nat /\ 0 \in 0..LgN
  BY DEF PlanShape
<1>2. 0 \in T
  <2>1. Half(0) = 1 /\ Half(0) * Stride(0) = N /\ Stride(0) \in Nat \ {0} /\ Levels(v)[0] = v
    BY <1>1, PowLaws, StrideShape, LevelLaws DEF Half
  <2>2. Stride(0) = N
    BY <2>1
  <2>3. ASSUME NEW k \in 0..(1 - 1), NEW g \in 0..(N - 1)
        PROVE  v[k * N + g] = Sub(v, 1, g, N, k)
    <3>1. k = 0 /\ 0 * N + g = g /\ g \in Positions
      BY DEF PlanShape, Positions
    <3> QED BY <3>1, SubOne
  <2>4. Autosorted(v, Levels(v)[0], 0)
    BY <2>1, <2>2, <2>3 DEF Autosorted
  <2> QED BY <2>4
<1>3. ASSUME NEW s \in Nat, s \in T PROVE s + 1 \in T
  <2> SUFFICES ASSUME s + 1 <= LgN PROVE Autosorted(v, Levels(v)[s + 1], s + 1)
    OBVIOUS
  <2>1. s \in 0..(LgN - 1) /\ Autosorted(v, Levels(v)[s], s)
    BY <1>1, <1>3
  <2>2. Levels(v)[s + 1] = Scattered(Levels(v)[s], s)
    BY <1>1, <2>1, LevelLaws DEF StageOf
  <2> QED BY <2>1, <2>2, StockhamStage
<1>4. LgN \in T
  <2> HIDE DEF T
  <2>1. Nat \subseteq T
    BY <1>2, <1>3, SetInduction
  <2> QED BY <1>1, <2>1
<1>5. Autosorted(v, Levels(v)[LgN], LgN) /\ LgN \in 0..LgN
  BY <1>1, <1>4
<1>6. Half(LgN) = N /\ Stride(LgN) = 1
  <2>1. Half(LgN) = N /\ Half(LgN) * Stride(LgN) = N /\ N \in Nat \ {0} /\ Stride(LgN) \in Nat \ {0}
    BY <1>5, StrideShape DEF PlanShape, Half
  <2> DEFINE t == Stride(LgN)
  <2>2. N * t = N /\ t \in Nat \ {0}
    BY <2>1
  <2> HIDE DEF t
  <2>3. t = 1
    BY <2>1, <2>2
  <2> QED BY <2>1, <2>3 DEF t
<1>7. \A k \in Positions : Levels(v)[LgN][k] = Sub(v, N, 0, 1, k)
  <2> SUFFICES ASSUME NEW k \in Positions PROVE Levels(v)[LgN][k] = Sub(v, N, 0, 1, k)
    OBVIOUS
  <2>1. k \in 0..(N - 1) /\ 0 \in 0..(1 - 1) /\ k * 1 + 0 = k
    BY DEF Positions, PlanShape
  <2>2. Levels(v)[LgN][k * 1 + 0] = Sub(v, N, 0, 1, k)
    BY <1>5, <1>6, <2>1 DEF Autosorted
  <2> QED BY <2>1, <2>2
<1>8. v = [i \in Positions |-> v[i]]
  BY DEF Column
<1> QED BY <1>5, <1>7, <1>8, LevelShape, SortedIsSpectrum

-----------------------------------------------------------------------------
(* Bit reversal.                                                           *)

Digit(i, b) == (i \div Pow2[b]) % 2
LowAt(f, i, b) == IF b = 0 THEN 0 ELSE (2 * f[b - 1]) + ((i \div Pow2[b - 1]) % 2)

\* The bits of i below bit b, in reverse order.
Low(i) == CHOOSE f : f = [b \in 0..LgN |-> LowAt(f, i, b)]

(* The recursion has a solution up to any number, ...                        *)
LEMMA LowUpto ==
  ASSUME NEW n \in Nat, NEW i
  PROVE  \E f : f = [b \in 0..n |-> LowAt(f, i, b)]
<1> DEFINE T == {m \in Nat : \E f : f = [b \in 0..m |-> LowAt(f, i, b)]}
<1>1. 0 \in T
  <2> DEFINE f == [b \in 0..0 |-> 0]
  <2>1. \A b \in 0..0 : LowAt(f, i, b) = 0
    BY DEF LowAt
  <2>2. f = [b \in 0..0 |-> LowAt(f, i, b)]
    BY <2>1
  <2> QED BY <2>2
<1>2. ASSUME NEW m \in Nat, m \in T PROVE m + 1 \in T
  <2>1. PICK f : f = [b \in 0..m |-> LowAt(f, i, b)]
    BY <1>2
  <2> DEFINE new == LowAt(f, i, m + 1)
             e == [b \in 0..(m + 1) |-> IF b = m + 1 THEN new ELSE f[b]]
  <2>2. \A b \in 0..m : e[b] = f[b]
    OBVIOUS
  <2>3. e[m + 1] = new
    OBVIOUS
  <2>4. e = [b \in 0..(m + 1) |-> e[b]]
    OBVIOUS
  <2> HIDE DEF e
  <2>5. ASSUME NEW b \in 0..(m + 1) PROVE e[b] = LowAt(e, i, b)
    <3>1. b # 0 => b - 1 \in 0..m
      OBVIOUS
    <3>2. LowAt(e, i, b) = LowAt(f, i, b)
      BY <2>2, <3>1 DEF LowAt
    <3>3. CASE b = m + 1
      BY <2>3, <3>2, <3>3
    <3>4. CASE b # m + 1
      <4>1. b \in 0..m
        BY <3>4
      <4>2. f[b] = LowAt(f, i, b)
        BY <2>1, <4>1
      <4> QED BY <2>2, <3>2, <4>1, <4>2
    <3> QED BY <3>3, <3>4
  <2>6. e = [b \in 0..(m + 1) |-> LowAt(e, i, b)]
    BY <2>4, <2>5
  <2> QED BY <2>6
<1>3. n \in T
  <2> HIDE DEF T
  <2> QED BY <1>1, <1>2, SetInduction
<1> QED BY <1>3

(* ... so each bit doubles what is below it.                                 *)
LEMMA LowLaws ==
  ASSUME LgN \in Nat, NEW i
  PROVE  /\ BitRev(i) = Low(i)[LgN] /\ Low(i)[0] = 0
         /\ \A b \in 0..(LgN - 1) : Low(i)[b + 1] = 2 * Low(i)[b] + Digit(i, b)
<1> DEFINE f == Low(i)
<1>1. f = [b \in 0..LgN |-> LowAt(f, i, b)]
  BY LowUpto DEF Low
<1>2. BitRev(i) = f[LgN]
  BY DEF BitRev, Low, LowAt
<1> HIDE DEF f
<1>3. f[0] = 0
  BY <1>1 DEF LowAt
<1>4. ASSUME NEW b \in 0..(LgN - 1) PROVE f[b + 1] = 2 * f[b] + Digit(i, b)
  <2>1. b + 1 \in 0..LgN /\ b + 1 # 0 /\ (b + 1) - 1 = b
    OBVIOUS
  <2> QED BY <1>1, <2>1 DEF LowAt, Digit
<1> QED BY <1>2, <1>3, <1>4 DEF f

(* A digit is 0 or 1.                                                       *)
LEMMA DigitType ==
  ASSUME NEW i \in Nat, NEW b \in Nat
  PROVE  Digit(i, b) \in {0, 1}
<1> DEFINE d == i \div Pow2[b]
<1>1. d \in Nat
  BY PowType, Division
<1> HIDE DEF d
<1>2. d % 2 \in {0, 1}
  BY <1>1
<1> QED BY <1>2 DEF Digit, d

(* The low bits of a multiple of 2^s are 0, ...                              *)
LEMMA DigitBelow ==
  ASSUME NEW c \in Nat, NEW s \in Nat, NEW u \in Nat, u < s
  PROVE  /\ Digit(c * Pow2[s], u) = 0
         /\ Digit(c * Pow2[s] + Pow2[s], u) = 0
<1> DEFINE m == s - (u + 1)
           a == Pow2[m]
           p == Pow2[u]
<1>1. m \in Nat /\ m + (u + 1) = s /\ u + 1 \in Nat
  OBVIOUS
<1>2. Pow2[s] = a * (2 * p) /\ a \in Nat \ {0} /\ p \in Nat \ {0}
  <2>1. Pow2[u + 1] = 2 * p
    BY PowLaws
  <2>2. Pow2[m + (u + 1)] = Pow2[m] * Pow2[u + 1]
    BY <1>1, PowSum
  <2> QED BY <1>1, <2>1, <2>2, PowType
<1> HIDE DEF a, p, m
<1>3. ASSUME NEW d \in Nat PROVE Digit(d * Pow2[s], u) = 0
  <2>1. d * Pow2[s] = (2 * (d * a)) * p + 0 /\ d * a \in Nat
    BY <1>2
  <2>2. (d * Pow2[s]) \div p = 2 * (d * a)
    <3>1. 2 * (d * a) \in Nat
      BY <2>1
    <3> DEFINE e == 2 * (d * a)
    <3> HIDE DEF e
    <3>2. e \in Nat /\ d * Pow2[s] = e * p + 0
      BY <2>1, <3>1 DEF e
    <3>3. (e * p + 0) \div p = e
      BY <1>2, <3>2, DivisionOf
    <3> QED BY <3>2, <3>3 DEF e
  <2>3. (2 * (d * a)) % 2 = 0
    <3> DEFINE x == d * a
    <3>1. x \in Nat
      BY <2>1
    <3> HIDE DEF x
    <3>2. (2 * x) % 2 = 0
      BY <3>1
    <3> QED BY <3>2 DEF x
  <2> QED BY <2>2, <2>3 DEF Digit, p
<1>4. c * Pow2[s] + Pow2[s] = (c + 1) * Pow2[s] /\ c + 1 \in Nat
  <2>1. Pow2[s] \in Nat
    BY PowType
  <2> QED BY <2>1
<1> QED BY <1>3, <1>4

(* ... and adding 2^s to a multiple of 2^(s+1) changes bit s alone.          *)
LEMMA DigitAt ==
  ASSUME NEW c \in Nat, NEW s \in Nat
  PROVE  /\ Digit(c * (2 * Pow2[s]), s) = 0
         /\ Digit(c * (2 * Pow2[s]) + Pow2[s], s) = 1
         /\ \A u \in Nat : u > s => Digit(c * (2 * Pow2[s]) + Pow2[s], u) = Digit(c * (2 * Pow2[s]), u)
<1> DEFINE p == Pow2[s]
           i == c * (2 * p)
<1>1. p \in Nat \ {0} /\ Pow2[s + 1] = 2 * p
  BY PowType, PowLaws
<1> HIDE DEF p
<1>2. i = (2 * c) * p + 0 /\ i + p = (2 * c + 1) * p + 0 /\ 2 * c \in Nat /\ 2 * c + 1 \in Nat /\ i \in Nat
  BY <1>1
<1>3. i \div p = 2 * c /\ (i + p) \div p = 2 * c + 1
  <2> HIDE DEF i
  <2>1. ((2 * c) * p + 0) \div p = 2 * c /\ ((2 * c + 1) * p + 0) \div p = 2 * c + 1
    BY <1>1, <1>2, DivisionOf
  <2> QED BY <1>2, <2>1
<1>4. (2 * c) % 2 = 0 /\ (2 * c + 1) % 2 = 1
  OBVIOUS
<1>5. ASSUME NEW u \in Nat, u > s PROVE (i + p) \div Pow2[u] = i \div Pow2[u]
  <2> DEFINE m == u - (s + 1)
             a == Pow2[m]
  <2>1. m \in Nat /\ m + (s + 1) = u /\ s + 1 \in Nat
    BY <1>5
  <2>2. Pow2[u] = a * (2 * p) /\ a \in Nat \ {0}
    <3>1. Pow2[m + (s + 1)] = Pow2[m] * Pow2[s + 1]
      BY <2>1, PowSum
    <3> QED BY <1>1, <2>1, <3>1, PowType
  <2> DEFINE d == c \div a
             r == c % a
  <2>3. d \in Nat /\ r \in 0..(a - 1) /\ c = a * d + r
    <3> HIDE DEF a
    <3> QED BY <2>2, Division
  <2> HIDE DEF d, r, a, m
  <2>4. i = d * Pow2[u] + r * (2 * p) /\ Pow2[u] \in Nat \ {0}
    <3>1. i = (a * d + r) * (2 * p)
      BY <2>3
    <3>2. (a * d + r) * (2 * p) = d * (a * (2 * p)) + r * (2 * p)
      BY <1>1, <2>2, <2>3
    <3> QED BY <2>2, <3>1, <3>2, PowType
  <2>5. r * (2 * p) + p < Pow2[u] /\ r * (2 * p) \in Nat
    <3>1. (r + 1) * (2 * p) <= a * (2 * p)
      BY <1>1, <2>2, <2>3
    <3>2. (r + 1) * (2 * p) = r * (2 * p) + 2 * p /\ r * (2 * p) \in Nat
      BY <1>1, <2>2, <2>3
    <3> QED BY <1>1, <2>2, <3>1, <3>2
  <2>6. ASSUME NEW x \in Nat, x < Pow2[u] PROVE (d * Pow2[u] + x) \div Pow2[u] = d
    BY <2>3, <2>4, <2>6, DivisionOf
  <2>7. i + p = d * Pow2[u] + (r * (2 * p) + p)
    <3>1. d * Pow2[u] \in Nat
      BY <2>3, <2>4
    <3> HIDE DEF i
    <3> QED BY <1>1, <2>4, <2>5, <3>1
  <2>8. r * (2 * p) + p \in Nat /\ r * (2 * p) < Pow2[u]
    BY <1>1, <2>4, <2>5
  <2> HIDE DEF i
  <2> QED BY <2>4, <2>5, <2>6, <2>7, <2>8
<1> HIDE DEF i
<1> QED BY <1>3, <1>4, <1>5 DEF Digit, p, i

(* A multiple of 2^s has its reversal below the stride.                     *)
LEMMA ReverseBelow ==
  ASSUME PlanShape, NEW s \in 0..LgN, NEW c \in Nat
  PROVE  BitRev(c * Half(s)) \in 0..(Stride(s) - 1)
<1> DEFINE i == c * Half(s)
           f == Low(i)
           T == {u \in Nat : u <= LgN => /\ f[u] \in Nat
                                         /\ u <= s => f[u] = 0
                                         /\ u >= s => f[u] < Pow2[u - s]}
<1>1. LgN \in Nat /\ s \in Nat /\ Half(s) \in Nat \ {0} /\ i \in Nat /\ Stride(s) \in Nat
  BY StrideShape DEF PlanShape
<1> HIDE DEF f, i
<1>2. f[0] = 0 /\ f[LgN] = BitRev(i) /\ \A b \in 0..(LgN - 1) : f[b + 1] = 2 * f[b] + Digit(i, b)
  BY <1>1, LowLaws DEF f
<1>3. 0 \in T
  <2>1. s <= 0 => s = 0 /\ 0 - s = 0
    BY <1>1
  <2> QED BY <1>2, <2>1, PowLaws
<1>4. ASSUME NEW u \in Nat, u \in T PROVE u + 1 \in T
  <2> SUFFICES ASSUME u + 1 <= LgN
               PROVE  /\ f[u + 1] \in Nat
                      /\ u + 1 <= s => f[u + 1] = 0
                      /\ u + 1 >= s => f[u + 1] < Pow2[(u + 1) - s]
    OBVIOUS
  <2>1. f[u] \in Nat /\ (u <= s => f[u] = 0) /\ (u >= s => f[u] < Pow2[u - s])
    BY <1>1, <1>4
  <2>2. f[u + 1] = 2 * f[u] + Digit(i, u) /\ Digit(i, u) \in {0, 1}
    BY <1>1, <1>2, DigitType
  <2>3. u + 1 <= s => Digit(i, u) = 0
    BY <1>1, DigitBelow DEF i, Half
  <2>4. CASE u >= s
    <3>1. u - s \in Nat /\ (u + 1) - s = (u - s) + 1
      BY <1>1, <2>4
    <3>2. Pow2[(u + 1) - s] = 2 * Pow2[u - s] /\ Pow2[u - s] \in Nat
      BY <3>1, PowLaws, PowType
    <3>3. ~(u + 1 <= s)
      BY <1>1, <2>4
    <3> QED BY <2>1, <2>2, <2>4, <3>2, <3>3
  <2>5. CASE u < s
    <3>1. u + 1 <= s /\ u <= s
      BY <1>1, <2>5
    <3>2. f[u + 1] = 0
      BY <2>1, <2>2, <2>3, <3>1
    <3>3. u + 1 >= s => (u + 1) - s = 0
      BY <1>1, <3>1
    <3> QED BY <3>2, <3>3, PowLaws
  <2> QED BY <1>1, <2>4, <2>5
<1>5. LgN \in T
  <2> HIDE DEF T
  <2>1. Nat \subseteq T
    BY <1>3, <1>4, SetInduction
  <2> QED BY <1>1, <2>1
<1>6. BitRev(i) \in Nat /\ BitRev(i) < Pow2[LgN - s]
  BY <1>1, <1>2, <1>5
<1>7. Pow2[LgN - s] = Stride(s)
  <2>1. LgN - s \in Nat /\ s + (LgN - s) = LgN
    BY <1>1
  <2>2. N = Half(s) * Pow2[LgN - s] /\ Pow2[LgN - s] \in Nat \ {0}
    BY <1>1, <2>1, PowSum, PowType DEF PlanShape, Half
  <2> DEFINE p == Pow2[LgN - s]
             h == Half(s)
  <2>3. p \in Nat /\ h \in Nat \ {0} /\ N = p * h + 0
    BY <1>1, <2>2
  <2> HIDE DEF p, h
  <2>4. (p * h + 0) \div h = p
    BY <2>3, DivisionOf
  <2> QED BY <2>3, <2>4 DEF p, h, Stride, Half
<1> QED BY <1>1, <1>6, <1>7 DEF i

(* Setting bit s of a multiple of 2^(s+1) adds Rest(s) to its reversal.     *)
LEMMA ReverseNext ==
  ASSUME PlanShape, NEW s \in 0..(LgN - 1), NEW c \in Nat
  PROVE  BitRev(c * (2 * Half(s)) + Half(s)) = BitRev(c * (2 * Half(s))) + Rest(s)
<1> DEFINE h == Half(s)
           i == c * (2 * h)
           f == Low(i)
           e == Low(i + h)
           T == {u \in Nat : u <= LgN => /\ f[u] \in Nat /\ e[u] \in Nat
                                         /\ u <= s => f[u] = 0 /\ e[u] = 0
                                         /\ u > s => e[u] = f[u] + Pow2[u - (s + 1)]}
<1>1. LgN \in Nat /\ s \in Nat /\ s \in 0..LgN /\ h = Pow2[s] /\ h \in Nat \ {0} /\ i \in Nat /\ i + h \in Nat
      /\ i = (2 * c) * h /\ 2 * c \in Nat
  BY StrideShape DEF PlanShape, Half
<1>2. /\ f[0] = 0 /\ f[LgN] = BitRev(i) /\ \A b \in 0..(LgN - 1) : f[b + 1] = 2 * f[b] + Digit(i, b)
      /\ e[0] = 0 /\ e[LgN] = BitRev(i + h)
      /\ \A b \in 0..(LgN - 1) : e[b + 1] = 2 * e[b] + Digit(i + h, b)
  <2> HIDE DEF i, h
  <2> QED BY <1>1, LowLaws
<1>3. /\ Digit(i, s) = 0 /\ Digit(i + h, s) = 1
      /\ \A u \in Nat : u > s => Digit(i + h, u) = Digit(i, u)
  BY <1>1, DigitAt
<1>4. ASSUME NEW u \in Nat, u < s PROVE Digit(i, u) = 0 /\ Digit(i + h, u) = 0
  BY <1>1, <1>4, DigitBelow
<1> HIDE DEF f, e, i, h
<1>5. 0 \in T
  BY <1>1, <1>2
<1>6. ASSUME NEW u \in Nat, u \in T PROVE u + 1 \in T
  <2> SUFFICES ASSUME u + 1 <= LgN
               PROVE  /\ f[u + 1] \in Nat /\ e[u + 1] \in Nat
                      /\ u + 1 <= s => f[u + 1] = 0 /\ e[u + 1] = 0
                      /\ u + 1 > s => e[u + 1] = f[u + 1] + Pow2[(u + 1) - (s + 1)]
    OBVIOUS
  <2>1. /\ f[u] \in Nat /\ e[u] \in Nat /\ (u <= s => f[u] = 0 /\ e[u] = 0)
        /\ u > s => e[u] = f[u] + Pow2[u - (s + 1)]
    BY <1>1, <1>6
  <2>2. /\ f[u + 1] = 2 * f[u] + Digit(i, u) /\ Digit(i, u) \in {0, 1}
        /\ e[u + 1] = 2 * e[u] + Digit(i + h, u) /\ Digit(i + h, u) \in {0, 1}
    BY <1>1, <1>2, DigitType
  <2>3. CASE u < s
    BY <1>1, <1>4, <2>1, <2>2, <2>3
  <2>4. CASE u = s
    <3>1. (u + 1) - (s + 1) = 0 /\ ~(u + 1 <= s)
      BY <1>1, <2>4
    <3>2. f[u] = 0 /\ e[u] = 0 /\ Digit(i, u) = 0 /\ Digit(i + h, u) = 1
      BY <1>1, <1>3, <2>1, <2>4
    <3>3. f[u + 1] = 0 /\ e[u + 1] = 1
      BY <2>2, <3>2
    <3>4. Pow2[(u + 1) - (s + 1)] = 1
      BY <3>1, PowLaws
    <3> HIDE DEF T
    <3> QED BY <3>1, <3>3, <3>4
  <2>5. CASE u > s
    <3>1. u - (s + 1) \in Nat /\ (u + 1) - (s + 1) = (u - (s + 1)) + 1 /\ ~(u + 1 <= s)
      BY <1>1, <2>5
    <3>2. Pow2[(u + 1) - (s + 1)] = 2 * Pow2[u - (s + 1)] /\ Pow2[u - (s + 1)] \in Nat
      BY <3>1, PowLaws, PowType
    <3>3. Digit(i + h, u) = Digit(i, u)
      BY <1>3, <2>5
    <3> QED BY <2>1, <2>2, <2>5, <3>1, <3>2, <3>3
  <2> QED BY <1>1, <2>3, <2>4, <2>5
<1>7. LgN \in T
  <2> HIDE DEF T
  <2>1. Nat \subseteq T
    BY <1>5, <1>6, SetInduction
  <2> QED BY <1>1, <2>1
<1>8. BitRev(i + h) = BitRev(i) + Pow2[LgN - (s + 1)]
  BY <1>1, <1>2, <1>7
<1>9. Pow2[LgN - (s + 1)] = Rest(s)
  <2>1. LgN - (s + 1) \in Nat /\ (s + 1) + (LgN - (s + 1)) = LgN /\ s + 1 \in Nat
    BY <1>1
  <2> DEFINE p == Pow2[LgN - (s + 1)]
             len == Pow2[s + 1]
  <2>2. N = len * p /\ p \in Nat /\ len \in Nat \ {0}
    <3>1. Pow2[(s + 1) + (LgN - (s + 1))] = len * p
      BY <2>1, PowSum
    <3> QED BY <2>1, <3>1, PowType DEF PlanShape
  <2> HIDE DEF p, len
  <2>3. N = p * len + 0
    BY <2>2
  <2>4. (p * len + 0) \div len = p
    BY <2>2, DivisionOf
  <2> QED BY <2>3, <2>4 DEF p, len, Rest
<1> QED BY <1>8, <1>9 DEF i, h

-----------------------------------------------------------------------------
(* Cooley-Tukey's stages.                                                  *)

(* Block b of 2^s values is the transform of the elements that start at the  *)
(* reverse of the block's place.                                             *)
Bitsorted(v, w, s) ==
  \A b \in 0..(Stride(s) - 1) : \A k \in 0..(Half(s) - 1) :
    w[b * Half(s) + k] = Sub(v, Half(s), BitRev(b * Half(s)), Stride(s), k)

(* One stage of Cooley-Tukey keeps the columns sorted that way.             *)
LEMMA CooleyTukeyStage ==
  ASSUME PlanShape, Divides, NEW v \in Column, NEW w, NEW s \in 0..(LgN - 1), Bitsorted(v, w, s)
  PROVE  Bitsorted(v, Staged(w, s), s + 1)
<1> DEFINE h == Half(s)
           q == Rest(s)
<1>1. /\ h \in Nat \ {0} /\ q \in Nat \ {0} /\ Stride(s) = 2 * q /\ Stride(s + 1) = q
      /\ Half(s + 1) = 2 * h /\ (2 * h) * q = N
  <2>1. s \in 0..LgN /\ s # LgN
    BY DEF PlanShape
  <2> QED BY <2>1, StrideShape
<1> SUFFICES ASSUME NEW b \in 0..(q - 1), NEW l \in 0..(2 * h - 1)
             PROVE  Staged(w, s)[b * (2 * h) + l] = Sub(v, 2 * h, BitRev(b * (2 * h)), q, l)
  BY <1>1 DEF Bitsorted
<1> DEFINE i == b * (2 * h) + l
           k == IF l < h THEN l ELSE l - h
           a == BlockOf(s, i)
           off == BitRev(b * (2 * h))
<1> HIDE DEF h, q
<1>2. k \in 0..(h - 1) /\ (l < h => l = k) /\ (~(l < h) => l = k + h)
  BY <1>1
<1>3. b \in Nat /\ b * (2 * h) \in Nat /\ i \in Nat /\ i < N
  <2>1. (b + 1) * (2 * h) <= q * (2 * h) /\ (b + 1) * (2 * h) = b * (2 * h) + 2 * h
    BY <1>1
  <2>2. q * (2 * h) = N /\ b * (2 * h) \in Nat
    BY <1>1
  <2> QED BY <1>1, <2>1, <2>2
<1>4. i \in Positions
  BY <1>3 DEF Positions, PlanShape
<1> HIDE DEF k, a, off
<1>5. i \div (2 * h) = b
  <2>1. 2 * h \in Nat \ {0} /\ l \in Nat /\ l < 2 * h
    BY <1>1
  <2> QED BY <1>3, <2>1, DivisionOf
<1>6. i % h = k
  <2>1. CASE l < h
    <3>1. i = (2 * b) * h + k /\ 2 * b \in Nat /\ k \in Nat /\ k < h
      BY <1>1, <1>2, <1>3, <2>1
    <3>2. ((2 * b) * h + k) % h = k
      BY <1>1, <3>1, DivisionOf
    <3> HIDE DEF i
    <3> QED BY <3>1, <3>2
  <2>2. CASE ~(l < h)
    <3>1. i = (2 * b + 1) * h + k /\ 2 * b + 1 \in Nat /\ k \in Nat /\ k < h
      BY <1>1, <1>2, <1>3, <2>2
    <3>2. ((2 * b + 1) * h + k) % h = k
      BY <1>1, <3>1, DivisionOf
    <3> HIDE DEF i
    <3> QED BY <3>1, <3>2
  <2> QED BY <2>1, <2>2
<1>7. a = b * (2 * h) + k /\ a = (2 * b) * h + k /\ a + h = (2 * b + 1) * h + k
  <2>1. a = (2 * h) * b + k
    BY <1>5, <1>6 DEF BlockOf, a, h
  <2> QED BY <1>1, <1>2, <1>3, <2>1
<1>8. i = a <=> l < h
  BY <1>1, <1>2, <1>3, <1>7
<1> HIDE DEF i
<1>9. off \in 0..(q - 1) /\ BitRev((2 * b) * h) = off /\ BitRev((2 * b + 1) * h) = off + q
  <2>1. s + 1 \in 0..LgN
    BY DEF PlanShape
  <2>2. off \in 0..(q - 1)
    BY <1>1, <1>3, <2>1, ReverseBelow DEF off
  <2>3. (2 * b) * h = b * (2 * h) /\ (2 * b + 1) * h = b * (2 * h) + h
    BY <1>1, <1>3
  <2>4. BitRev(b * (2 * h) + h) = off + q
    BY <1>3, ReverseNext DEF off, h, q
  <2> QED BY <2>2, <2>3, <2>4 DEF off
<1>10. w[a] = Sub(v, h, off, 2 * q, k) /\ w[a + h] = Sub(v, h, off + q, 2 * q, k)
  <2>1. 2 * b \in 0..(2 * q - 1) /\ 2 * b + 1 \in 0..(2 * q - 1)
    BY <1>1
  <2>2. /\ w[(2 * b) * h + k] = Sub(v, h, BitRev((2 * b) * h), 2 * q, k)
        /\ w[(2 * b + 1) * h + k] = Sub(v, h, BitRev((2 * b + 1) * h), 2 * q, k)
    BY <1>1, <1>2, <2>1 DEF Bitsorted, h
  <2> QED BY <1>7, <1>9, <2>2
<1>11. Staged(w, s)[i] =
         LET t == Turned(w[a + h], Twiddle(k * q)) IN IF i = a THEN Plus(w[a], t) ELSE Minus(w[a], t)
  BY <1>4, <1>6, StagedExplained DEF a, h, q
<1>12. /\ Plus(w[a], Turned(w[a + h], Twiddle(k * q))) = Sub(v, 2 * h, off, q, k)
       /\ Minus(w[a], Turned(w[a + h], Twiddle(k * q))) = Sub(v, 2 * h, off, q, k + h)
  BY <1>1, <1>2, <1>9, <1>10, ButterflyJoins
<1>13. Staged(w, s)[i] = Sub(v, 2 * h, off, q, l)
  <2>1. CASE l < h
    BY <1>2, <1>8, <1>11, <1>12, <2>1
  <2>2. CASE ~(l < h)
    BY <1>2, <1>8, <1>11, <1>12, <2>2
  <2> QED BY <2>1, <2>2
<1> QED BY <1>13 DEF i, off

(* After the permutation and all its stages, Cooley-Tukey has the spectrum. *)
LEMMA CooleyTukeyTransforms ==
  ASSUME PlanShape, Divides, plan.kernel = "cooleytukey", NEW v \in Column
  PROVE  Levels(Permuted(v))[LgN] = Spectrum(v)
<1> DEFINE u == Permuted(v)
           T == {s \in Nat : s <= LgN => Bitsorted(v, Levels(u)[s], s)}
<1>1. LgN \in Nat /\ 0 \in 0..LgN /\ u = [i \in Positions |-> u[i]] /\ \A i \in Positions : u[i] = v[BitRev(i)]
  BY DEF PlanShape, Permuted
<1> HIDE DEF u
<1>2. 0 \in T
  <2>1. Half(0) = 1 /\ Half(0) * Stride(0) = N /\ Stride(0) \in Nat \ {0} /\ Levels(u)[0] = u
    BY <1>1, PowLaws, StrideShape, LevelLaws DEF Half
  <2>2. Stride(0) = N
    BY <2>1
  <2>3. ASSUME NEW b \in 0..(N - 1), NEW k \in 0..(1 - 1)
        PROVE  u[b * 1 + k] = Sub(v, 1, BitRev(b * 1), N, k)
    <3>1. k = 0 /\ b * 1 + 0 = b /\ b * 1 = b /\ b \in Positions /\ b \in Nat
      BY DEF PlanShape, Positions
    <3>2. BitRev(b) \in Positions
      BY <1>1, <2>1, <2>2, <3>1, ReverseBelow DEF Positions
    <3> QED BY <1>1, <3>1, <3>2, SubOne
  <2>4. Bitsorted(v, Levels(u)[0], 0)
    BY <2>1, <2>2, <2>3 DEF Bitsorted
  <2> QED BY <2>4
<1>3. ASSUME NEW s \in Nat, s \in T PROVE s + 1 \in T
  <2> SUFFICES ASSUME s + 1 <= LgN PROVE Bitsorted(v, Levels(u)[s + 1], s + 1)
    OBVIOUS
  <2>1. s \in 0..(LgN - 1) /\ Bitsorted(v, Levels(u)[s], s)
    BY <1>1, <1>3
  <2>2. Levels(u)[s + 1] = Staged(Levels(u)[s], s)
    BY <1>1, <2>1, LevelLaws DEF StageOf
  <2> QED BY <2>1, <2>2, CooleyTukeyStage
<1>4. LgN \in T
  <2> HIDE DEF T
  <2>1. Nat \subseteq T
    BY <1>2, <1>3, SetInduction
  <2> QED BY <1>1, <2>1
<1>5. Bitsorted(v, Levels(u)[LgN], LgN) /\ LgN \in 0..LgN
  BY <1>1, <1>4
<1>6. Half(LgN) = N /\ Stride(LgN) = 1
  <2>1. Half(LgN) = N /\ Half(LgN) * Stride(LgN) = N /\ N \in Nat \ {0} /\ Stride(LgN) \in Nat \ {0}
    BY <1>5, StrideShape DEF PlanShape, Half
  <2> DEFINE t == Stride(LgN)
  <2>2. N * t = N /\ t \in Nat \ {0}
    BY <2>1
  <2> HIDE DEF t
  <2>3. t = 1
    BY <2>1, <2>2
  <2> QED BY <2>1, <2>3 DEF t
<1>7. BitRev(0) = 0
  <2>1. BitRev(0 * Half(LgN)) \in 0..(1 - 1)
    BY <1>5, <1>6, ReverseBelow
  <2>2. 0 * N = 0
    BY DEF PlanShape
  <2> QED BY <1>6, <2>1, <2>2
<1>8. \A k \in Positions : Levels(u)[LgN][k] = Sub(v, N, 0, 1, k)
  <2> SUFFICES ASSUME NEW k \in Positions PROVE Levels(u)[LgN][k] = Sub(v, N, 0, 1, k)
    OBVIOUS
  <2>1. k \in 0..(N - 1) /\ 0 \in 0..(1 - 1) /\ 0 * N + k = k /\ 0 * N = 0
    BY DEF Positions, PlanShape
  <2>2. Levels(u)[LgN][0 * N + k] = Sub(v, N, BitRev(0 * N), 1, k)
    BY <1>5, <1>6, <2>1 DEF Bitsorted
  <2> QED BY <1>7, <2>1, <2>2
<1> QED BY <1>1, <1>5, <1>8, LevelShape, SortedIsSpectrum DEF u

-----------------------------------------------------------------------------
(* Divisions that leave no remainder.                                      *)

Multiple(m) == {x \in Number : \A p \in Powers : \E a \in Int : x[p] = m * a}
Self(x) == Conjugate(x) = x

(* Multiples of m are multiples of its divisors, ...                         *)
LEMMA MultipleOf ==
  ASSUME NEW m \in Nat, NEW n \in Nat, NEW x \in Multiple(m * n)
  PROVE  x \in Multiple(m) /\ x \in Multiple(n) /\ x \in Number
<1>1. x \in Number
  BY DEF Multiple
<1>2. ASSUME NEW p \in Powers PROVE (\E a \in Int : x[p] = m * a) /\ (\E a \in Int : x[p] = n * a)
  <2>1. PICK a \in Int : x[p] = (m * n) * a
    BY DEF Multiple
  <2>2. n * a \in Int /\ m * a \in Int /\ (m * n) * a = m * (n * a) /\ (m * n) * a = n * (m * a)
    OBVIOUS
  <2> QED BY <2>1, <2>2
<1> QED BY <1>1, <1>2 DEF Multiple

(* ... and so are their sums, differences, conjugates and rotations, ...     *)
LEMMA MultipleLaws ==
  ASSUME NEW m \in Nat, NEW x \in Multiple(m), NEW y \in Multiple(m)
  PROVE  /\ Zero \in Multiple(m) /\ Plus(x, y) \in Multiple(m) /\ Conjugate(x) \in Multiple(m)
         /\ \A e \in Int : Turned(x, e) \in Multiple(m)
<1>1. x \in Number /\ y \in Number
  BY DEF Multiple
<1>2. ASSUME NEW a \in Int, NEW b \in Int
      PROVE  m * a + m * b = m * (a + b) /\ -(m * a) = m * (-a) /\ 0 = m * 0 /\ a + b \in Int /\ -a \in Int
  OBVIOUS
<1>3. Zero \in Multiple(m)
  <2>1. Zero \in Number /\ \A p \in Powers : Zero[p] = 0
    BY DEF Zero, Number
  <2>2. 0 = m * 0 /\ 0 \in Int
    OBVIOUS
  <2> QED BY <2>1, <2>2 DEF Multiple
<1>4. Plus(x, y) \in Multiple(m)
  <2>1. ASSUME NEW p \in Powers PROVE \E a \in Int : Plus(x, y)[p] = m * a
    <3>1. PICK a \in Int, b \in Int : x[p] = m * a /\ y[p] = m * b
      BY DEF Multiple
    <3>2. Plus(x, y)[p] = m * a + m * b
      BY <1>1, <3>1, PlusType
    <3>3. Plus(x, y)[p] = m * (a + b) /\ a + b \in Int
      BY <1>2, <3>2
    <3> QED BY <3>3
  <2> QED BY <1>1, <2>1, PlusType DEF Multiple
<1>5. Conjugate(x) \in Multiple(m)
  <2>1. ASSUME NEW p \in Powers PROVE \E a \in Int : Conjugate(x)[p] = m * a
    <3>1. CASE p = 0
      <4>1. Conjugate(x)[p] = x[p]
        BY <3>1 DEF Conjugate
      <4> QED BY <4>1 DEF Multiple
    <3>2. CASE p # 0
      <4> DEFINE r == Order \div 2 - p
      <4>1. r \in Powers /\ Conjugate(x)[p] = -x[r]
        BY <3>2, HalfTurn DEF Conjugate, Powers
      <4>2. PICK a \in Int : x[r] = m * a
        BY <4>1 DEF Multiple
      <4> QED BY <1>2, <4>1, <4>2
    <3> QED BY <3>1, <3>2
  <2>2. \A p \in Powers : Conjugate(x)[p] \in Int
    BY <2>1
  <2>3. Conjugate(x) \in Number
    BY <2>2 DEF Number, Conjugate
  <2> QED BY <2>1, <2>3 DEF Multiple
<1>6. ASSUME NEW e \in Int PROVE Turned(x, e) \in Multiple(m)
  <2>1. ASSUME NEW p \in Powers PROVE \E a \in Int : Turned(x, e)[p] = m * a
    <3> DEFINE q == (p - e) % Order
               h == Order \div 2
    <3>1. Turned(x, e)[p] = IF q \in Powers THEN x[q] ELSE -x[q - h]
      BY DEF Turned
    <3>2. p - e \in Int
      BY HalfTurn DEF Powers
    <3>3. q \in 0..(Order - 1) /\ Order = 2 * h /\ h \in Nat \ {0} /\ Powers = 0..(h - 1)
      BY <3>2, Remainder, HalfTurn DEF Powers
    <3>4. q \in Powers \/ q - h \in Powers
      BY <3>3
    <3> HIDE DEF q, h
    <3>5. CASE q \in Powers
      BY <3>1, <3>5 DEF Multiple
    <3>6. CASE q \notin Powers
      <4>1. PICK a \in Int : x[q - h] = m * a
        BY <3>4, <3>6 DEF Multiple
      <4> QED BY <1>2, <3>1, <3>6, <4>1
    <3> QED BY <3>5, <3>6
  <2> QED BY <1>1, <2>1, RotatedType DEF Multiple
<1> QED BY <1>3, <1>4, <1>5, <1>6

(* Sums of multiples are multiples.                                         *)
LEMMA MultipleSum ==
  ASSUME NEW m \in Nat, NEW n \in Nat, NEW f, \A k \in 0..(n - 1) : f[k] \in Multiple(m)
  PROVE  Total(f, n) \in Multiple(m)
<1> DEFINE T == {i \in Nat : i <= n => Total(f, i) \in Multiple(m)}
<1>1. 0 \in T
  <2>1. Zero \in Number /\ \A p \in Powers : Zero[p] = 0
    BY DEF Zero, Number
  <2>2. 0 = m * 0 /\ 0 \in Int
    OBVIOUS
  <2> QED BY <2>1, <2>2, SumLaws DEF Multiple
<1>2. ASSUME NEW i \in Nat, i \in T PROVE i + 1 \in T
  <2> SUFFICES ASSUME i + 1 <= n PROVE Total(f, i + 1) \in Multiple(m)
    OBVIOUS
  <2>1. Total(f, i) \in Multiple(m) /\ f[i] \in Multiple(m)
    BY <1>2
  <2> HIDE DEF T
  <2> QED BY <2>1, SumLaws, MultipleLaws
<1> HIDE DEF T
<1>3. n \in T
  BY <1>1, <1>2, SetInduction
<1> QED BY <1>3 DEF T

(* ... so that dividing a multiple of m * n by n is exact.                   *)
LEMMA MultipleOver ==
  ASSUME NEW m \in Nat, NEW n \in Nat \ {0}, NEW x \in Multiple(m * n)
  PROVE  Over(x, n) \in Multiple(m) /\ \A p \in Powers : x[p] = n * Over(x, n)[p]
<1>1. ASSUME NEW p \in Powers
      PROVE  \E a \in Int : Over(x, n)[p] = m * a /\ x[p] = n * (m * a) /\ m * a \in Int
  <2>1. PICK a \in Int : x[p] = (m * n) * a
    BY DEF Multiple
  <2> DEFINE b == m * a
  <2>2. b \in Int /\ (m * n) * a = n * b
    OBVIOUS
  <2> HIDE DEF b
  <2>3. (n * b) \div n = b
    BY <2>2
  <2>4. Over(x, n)[p] = b
    BY <2>1, <2>2, <2>3 DEF Over
  <2> QED BY <2>1, <2>2, <2>4 DEF b
<1>2. \A p \in Powers : Over(x, n)[p] \in Int /\ x[p] = n * Over(x, n)[p]
  BY <1>1
<1>3. Over(x, n) \in Number
  BY <1>2 DEF Number, Over
<1> QED BY <1>1, <1>2, <1>3 DEF Multiple

-----------------------------------------------------------------------------
(* Real numbers.                                                           *)

(* What Conjugate computes.                                                 *)
LEMMA ConjugateType ==
  ASSUME NEW x \in Number
  PROVE  /\ Conjugate(x) \in Number
         /\ \A p \in Powers : Conjugate(x)[p] = IF p = 0 THEN x[0] ELSE -x[Order \div 2 - p]
         /\ \A p \in Powers : p # 0 => Order \div 2 - p \in Powers
         /\ 0 \in Powers
<1>1. 0 \in Powers /\ \A p \in Powers : p # 0 => Order \div 2 - p \in Powers
  BY HalfTurn DEF Powers
<1>2. \A p \in Powers : Conjugate(x)[p] = IF p = 0 THEN x[0] ELSE -x[Order \div 2 - p]
  BY DEF Conjugate
<1>3. \A p \in Powers : Conjugate(x)[p] \in Int
  BY <1>1, <1>2 DEF Number
<1>4. Conjugate(x) \in Number
  BY <1>3 DEF Conjugate, Number
<1> QED BY <1>1, <1>2, <1>4

(* A number is its own conjugate if its coefficients mirror each other.      *)
LEMMA SelfIs ==
  ASSUME NEW x \in Number
  PROVE  Self(x) <=> \A p \in Powers : p # 0 => x[p] = -x[Order \div 2 - p]
<1>1. Self(x) <=> \A p \in Powers : Conjugate(x)[p] = x[p]
  BY ConjugateType, SameNumber DEF Self
<1> QED BY <1>1, ConjugateType

(* Such numbers are their real parts, ...                                    *)
LEMMA SelfIsReal ==
  ASSUME NEW x \in Number, Self(x)
  PROVE  RealPart(x) = x
<1>1. ASSUME NEW p \in Powers PROVE RealPart(x)[p] = x[p]
  <2>1. Plus(x, Conjugate(x))[p] = x[p] + x[p] /\ x[p] \in Int
    BY PlusType DEF Self, Number
  <2>2. (x[p] + x[p]) \div 2 = x[p]
    <3> DEFINE a == x[p]
    <3>1. a \in Int
      BY <2>1
    <3> HIDE DEF a
    <3>2. (a + a) \div 2 = a
      BY <3>1
    <3> QED BY <3>2 DEF a
  <2> QED BY <2>1, <2>2 DEF RealPart
<1>2. RealPart(x) = [p \in Powers |-> RealPart(x)[p]] /\ x = [p \in Powers |-> x[p]]
  BY DEF RealPart, Number
<1> QED BY <1>1, <1>2

(* ... and the real part of a number with even coefficients is one.          *)
LEMMA RealIsSelf ==
  ASSUME NEW m \in Nat, NEW x \in Multiple(m * 2)
  PROVE  RealPart(x) \in Multiple(m) /\ Self(RealPart(x))
<1> DEFINE s == Plus(x, Conjugate(x))
<1>1. x \in Number /\ Conjugate(x) \in Number /\ m * 2 \in Nat
  BY ConjugateType DEF Multiple
<1>2. s \in Multiple(m * 2)
  BY <1>1, MultipleLaws
<1> HIDE DEF s
<1>3. Over(s, 2) \in Multiple(m) /\ \A p \in Powers : s[p] = 2 * Over(s, 2)[p]
  BY <1>2, MultipleOver
<1>4. RealPart(x) = Over(s, 2)
  BY DEF RealPart, Over, s
<1> DEFINE r == Over(s, 2)
<1>5. r \in Number
  BY <1>3 DEF Multiple
<1> HIDE DEF r
<1>6. ASSUME NEW p \in Powers, p # 0 PROVE r[p] = -r[Order \div 2 - p]
  <2> DEFINE o == Order \div 2 - p
  <2>1. o \in Powers /\ o # 0 /\ Order \div 2 - o = p
    BY <1>6, HalfTurn DEF Powers
  <2> HIDE DEF o
  <2>2. x[p] \in Int /\ x[o] \in Int /\ r[p] \in Int /\ r[o] \in Int
    BY <1>1, <1>5, <2>1 DEF Number
  <2>3. Conjugate(x)[p] = -x[o] /\ Conjugate(x)[o] = -x[p]
    BY <1>1, <1>6, <2>1, ConjugateType DEF o
  <2>4. s[p] = x[p] + (-x[o]) /\ s[o] = x[o] + (-x[p])
    BY <1>1, <2>1, <2>3, PlusType DEF s
  <2>5. s[p] = 2 * r[p] /\ s[o] = 2 * r[o]
    BY <1>3, <2>1 DEF r
  <2>6. r[p] = -r[o]
    BY <2>2, <2>4, <2>5
  <2> QED BY <2>6 DEF o
<1>7. Self(r)
  BY <1>5, <1>6, SelfIs
<1> QED BY <1>3, <1>4, <1>7 DEF r

(* Sums of real numbers, quotients, and numbers turned by half turns are     *)
(* real.                                                                     *)
LEMMA SelfPlus ==
  ASSUME NEW x \in Number, NEW y \in Number, Self(x), Self(y)
  PROVE  Self(Plus(x, y))
<1>1. Plus(x, y) \in Number
  BY PlusType
<1>2. ASSUME NEW p \in Powers, p # 0 PROVE Plus(x, y)[p] = -Plus(x, y)[Order \div 2 - p]
  <2> DEFINE o == Order \div 2 - p
  <2>1. o \in Powers
    BY <1>2, ConjugateType
  <2>2. x[p] = -x[o] /\ y[p] = -y[o]
    BY <1>2, SelfIs
  <2> HIDE DEF o
  <2>3. x[o] \in Int /\ y[o] \in Int
    BY <2>1 DEF Number
  <2>4. Plus(x, y)[p] = -Plus(x, y)[o]
    BY <2>1, <2>2, <2>3, PlusType
  <2> QED BY <2>4 DEF o
<1> QED BY <1>1, <1>2, SelfIs

(* Sums of real numbers are real, ...                                       *)
LEMMA SelfSum ==
  ASSUME NEW n \in Nat, NEW f, \A k \in 0..(n - 1) : f[k] \in Number /\ Self(f[k])
  PROVE  Self(Total(f, n))
<1> DEFINE T == {m \in Nat : m <= n => Self(Total(f, m))}
<1>1. 0 \in T
  <2>1. Zero \in Number /\ \A p \in Powers : Zero[p] = 0
    BY DEF Zero, Number
  <2>2. Self(Zero)
    BY <2>1, SelfIs, ConjugateType
  <2> QED BY <2>2, SumLaws
<1>2. ASSUME NEW m \in Nat, m \in T PROVE m + 1 \in T
  <2> SUFFICES ASSUME m + 1 <= n PROVE Self(Total(f, m + 1))
    OBVIOUS
  <2>1. Self(Total(f, m)) /\ f[m] \in Number /\ Self(f[m]) /\ \A k \in 0..(m - 1) : f[k] \in Number
    BY <1>2
  <2>2. Total(f, m) \in Number
    BY <2>1, SumType
  <2> HIDE DEF T
  <2> QED BY <2>1, <2>2, SumLaws, SelfPlus
<1> HIDE DEF T
<1>3. n \in T
  BY <1>1, <1>2, SetInduction
<1> QED BY <1>3 DEF T

(* ... quotients of real numbers are, ...                                   *)
LEMMA SelfOver ==
  ASSUME NEW n \in Nat \ {0}, NEW x \in Multiple(1 * n), Self(x)
  PROVE  Self(Over(x, n))
<1> DEFINE y == Over(x, n)
<1>1. y \in Number /\ x \in Number /\ \A p \in Powers : x[p] = n * y[p]
  <2>1. y \in Multiple(1) /\ \A p \in Powers : x[p] = n * y[p]
    BY MultipleOver
  <2> QED BY <2>1 DEF Multiple
<1> HIDE DEF y
<1>2. ASSUME NEW p \in Powers, p # 0 PROVE y[p] = -y[Order \div 2 - p]
  <2> DEFINE o == Order \div 2 - p
  <2>1. o \in Powers
    BY <1>1, <1>2, ConjugateType
  <2>2. x[p] = -x[o]
    BY <1>1, <1>2, SelfIs
  <2> HIDE DEF o
  <2>3. n * y[p] = -(n * y[o]) /\ y[p] \in Int /\ y[o] \in Int
    BY <1>1, <2>1, <2>2 DEF Number
  <2>4. n * (y[p] + y[o]) = 0
    BY <2>3
  <2>5. y[p] + y[o] = 0
    <3> DEFINE z == y[p] + y[o]
    <3>1. z \in Int /\ n * z = 0
      BY <2>3, <2>4
    <3> HIDE DEF z
    <3>2. z = 0
      BY <3>1
    <3> QED BY <3>2 DEF z
  <2>6. y[p] = -y[o]
    BY <2>3, <2>5
  <2> QED BY <2>6 DEF o
<1> QED BY <1>1, <1>2, SelfIs DEF y

(* ... and so are real numbers turned by half turns.                        *)
LEMMA SelfTurned ==
  ASSUME NEW x \in Number, Self(x), NEW a \in Int
  PROVE  Self(Turned(x, a * (Order \div 2)))
<1> DEFINE h == Order \div 2
           b == a \div 2
<1>1. a % 2 \in {0, 1} /\ b \in Int /\ a = 2 * b + (a % 2) /\ Order = 2 * h /\ h \in Int
  BY HalfTurn
<1> HIDE DEF b, h
<1>2. CASE a % 2 = 0
  <2>1. a * h = 0 + b * Order
    BY <1>1, <1>2
  <2>2. Turned(x, a * h) = x
    <3>1. Turned(x, 0 + b * Order) = Turned(x, 0)
      BY <1>1, RotatedRound
    <3> QED BY <2>1, <3>1, NotRotated
  <2> QED BY <2>2 DEF h
<1>3. CASE a % 2 = 1
  <2>1. a * h = h + b * Order
    BY <1>1, <1>3
  <2> DEFINE y == Turned(x, 0 + h)
  <2>2. Turned(x, a * h) = y
    <3>1. 0 + h = h
      BY <1>1
    <3> QED BY <1>1, <2>1, <3>1, RotatedRound
  <2>3. \A p \in Powers : y[p] = -x[p]
    BY RotatedHalf, NotRotated DEF h
  <2>4. y \in Number
    <3>1. 0 + h \in Int
      BY <1>1
    <3> QED BY <3>1, RotatedType
  <2> HIDE DEF y
  <2>5. ASSUME NEW p \in Powers, p # 0 PROVE y[p] = -y[Order \div 2 - p]
    <3>1. Order \div 2 - p \in Powers
      BY <2>5, ConjugateType
    <3>2. x[p] = -x[Order \div 2 - p]
      BY <2>5, SelfIs
    <3> QED BY <2>3, <3>1, <3>2
  <2> QED BY <2>2, <2>4, <2>5, SelfIs DEF h
<1> QED BY <1>1, <1>2, <1>3

-----------------------------------------------------------------------------
(* The modes of a call.                                                    *)

(* Half the length of a column is the length of half a column, but for       *)
(* columns of a single element.                                              *)
LEMMA HalfSize ==
  ASSUME PlanShape
  PROVE  N \div 2 \in Positions /\ 0 \in Positions /\ ((N = 1 /\ N \div 2 = 0) \/ N = 2 * (N \div 2))
<1>1. N \in Nat \ {0} /\ LgN \in Nat /\ Pow2[LgN] = N
  BY DEF PlanShape
<1>2. CASE LgN = 0
  <2>1. N = 1
    BY <1>1, <1>2, PowLaws
  <2> QED BY <2>1 DEF Positions
<1>3. CASE LgN # 0
  <2>1. 0 \in 0..(LgN - 1)
    BY <1>1, <1>3
  <2> DEFINE d == Rest(0) * Half(0)
  <2>2. N = 2 * d /\ N \div 2 = d /\ Rest(0) \in Nat \ {0} /\ Half(0) \in Nat \ {0}
    BY <2>1, StageShape
  <2>3. d \in Nat
    BY <2>2
  <2> HIDE DEF d
  <2> QED BY <1>1, <2>2, <2>3 DEF Positions
<1> QED BY <1>2, <1>3

(* Multiples are numbers.                                                   *)
LEMMA MultipleColumns ==
  ASSUME NEW m \in Nat, NEW v \in [Positions -> Multiple(m)]
  PROVE  v \in Column
BY DEF Multiple, Column

(* The spectrum of multiples consists of multiples, ...                      *)
LEMMA SpectrumMultiple ==
  ASSUME PlanShape, Divides, NEW m \in Nat, NEW v \in [Positions -> Multiple(m)], NEW k \in Positions
  PROVE  Spectrum(v)[k] \in Multiple(m) /\ Spectrum(v)[k] \in Number
<1> DEFINE f == [n \in Positions |-> Turned(v[n], Twiddle(n * k))]
<1>1. ASSUME NEW n \in 0..(N - 1) PROVE f[n] \in Multiple(m)
  <2>1. n \in Positions /\ n * k \in Int
    BY DEF Positions, PlanShape
  <2>2. Twiddle(n * k) \in Int /\ v[n] \in Multiple(m)
    BY <2>1, TwiddleAdds
  <2> QED BY <2>1, <2>2, MultipleLaws
<1>2. N \in Nat
  BY DEF PlanShape
<1> HIDE DEF f
<1>3. Total(f, N) \in Multiple(m)
  BY <1>1, <1>2, MultipleSum
<1>4. Spectrum(v)[k] = Total(f, N)
  BY DEF Spectrum, f
<1> QED BY <1>3, <1>4 DEF Multiple

(* ... and the spectrum of real numbers is real at frequency 0 and at the    *)
(* highest one.                                                              *)
LEMMA RealBins ==
  ASSUME PlanShape, Divides, NEW v \in [Positions -> Multiple(1 * N)], \A i \in Positions : Self(v[i]),
         NEW k \in {0, N \div 2}
  PROVE  k \in Positions /\ RealPart(Dft(v)[k]) = Dft(v)[k]
<1> DEFINE f == [n \in Positions |-> Turned(v[n], Twiddle(n * k))]
           S == Spectrum(v)[k]
<1>1. k \in Positions /\ k \in Nat /\ (k = 0 \/ N = 2 * k) /\ N \in Nat \ {0} /\ 1 * N \in Nat
  BY HalfSize DEF Positions, PlanShape
<1>2. ASSUME NEW n \in 0..(N - 1) PROVE f[n] \in Number /\ Self(f[n])
  <2>1. n \in Positions /\ v[n] \in Number /\ Self(v[n]) /\ n * k \in Int /\ Twiddle(n * k) \in Int
    <3>1. n \in Positions /\ n * k \in Int
      BY <1>1 DEF Positions
    <3> QED BY <1>1, <3>1, TwiddleAdds DEF Multiple
  <2> DEFINE u == Order \div N
             sign == IF plan.inverse THEN 1 ELSE -1
             h == Order \div 2
  <2>2. u \in Int /\ sign \in {1, -1} /\ Order = N * u /\ Order = 2 * h /\ h \in Int
    BY TurnShape, HalfTurn
  <2>3. Twiddle(n * k) = sign * (n * k) * u
    BY DEF Twiddle
  <2> HIDE DEF u, sign, h
  <2>4. \E a \in Int : Twiddle(n * k) = a * h
    <3>1. CASE k = 0
      <4>1. n * k = 0 /\ sign * 0 * u = 0 /\ 0 * h = 0
        BY <2>2, <3>1
      <4> QED BY <2>3, <4>1
    <3>2. CASE N = 2 * k
      <4>1. k * u = h
        <5>1. N * u = 2 * (k * u) /\ k * u \in Int
          BY <1>1, <2>2, <3>2
        <5> QED BY <2>2, <5>1
      <4>2. (sign * n) * (k * u) = sign * (n * k) * u /\ sign * n \in Int
        BY <1>1, <2>2
      <4> QED BY <2>3, <4>1, <4>2
    <3> QED BY <1>1, <3>1, <3>2
  <2>5. PICK a \in Int : Twiddle(n * k) = a * h
    BY <2>4
  <2>6. Self(Turned(v[n], a * h))
    BY <2>1, SelfTurned DEF h
  <2> QED BY <2>1, <2>5, <2>6, RotatedType
<1>3. S \in Multiple(1 * N) /\ S \in Number
  BY <1>1, SpectrumMultiple
<1>4. S = Total(f, N)
  BY <1>1 DEF Spectrum
<1> HIDE DEF f
<1>5. Self(Total(f, N))
  BY <1>1, <1>2, SelfSum
<1> HIDE DEF S
<1>6. Self(Over(S, N)) /\ Over(S, N) \in Number
  <2>1. Self(S) /\ Over(S, N) \in Multiple(1)
    BY <1>1, <1>3, <1>4, <1>5, MultipleOver
  <2> QED BY <1>1, <1>3, <2>1, SelfOver DEF Multiple
<1>7. Dft(v)[k] = IF plan.inverse THEN Over(S, N) ELSE S
  BY <1>1 DEF Dft, Scaled, Spectrum, S
<1> QED BY <1>1, <1>3, <1>4, <1>5, <1>6, <1>7, SelfIsReal

(* Preparing half a spectrum expands it.                                     *)
LEMMA MirroredIs ==
  ASSUME PlanShape, NEW m \in Nat, NEW v \in [Positions -> Multiple(m * 2)]
  PROVE  /\ Mirrored(v) = Hermitian(v)
         /\ Mirrored(v) \in [Positions -> Multiple(m)]
         /\ [i \in Positions |-> RealPart(v[i])] \in [Positions -> Multiple(m)]
         /\ \A i \in Positions : Self(RealPart(v[i]))
<1> DEFINE d == N \div 2
           w == [i \in Positions |-> IF i \in {0, d} THEN RealPart(v[i]) ELSE v[i]]
           y(i) == IF i > d THEN Conjugate(w[N - i]) ELSE w[i]
           z(i) == CASE i \in {0, d} -> RealPart(v[i])
                     [] i \notin {0, d} /\ 2 * i < N -> v[i]
                     [] OTHER -> Conjugate(v[N - i])
<1>1. d \in Positions /\ 0 \in Positions /\ N \in Nat \ {0} /\ d \in Nat /\ ((N = 1 /\ d = 0) \/ N = 2 * d)
  BY HalfSize DEF Positions, PlanShape
<1>2. ASSUME NEW i \in Positions
      PROVE  v[i] \in Multiple(m) /\ RealPart(v[i]) \in Multiple(m) /\ Self(RealPart(v[i]))
  <2>1. v[i] \in Multiple(m * 2)
    OBVIOUS
  <2>2. v[i] \in Multiple(m)
    BY <2>1, MultipleOf
  <2>3. RealPart(v[i]) \in Multiple(m) /\ Self(RealPart(v[i]))
    BY <2>1, RealIsSelf
  <2> QED BY <2>2, <2>3
<1> HIDE DEF d
<1>3. \A i \in Positions : w[i] = IF i \in {0, d} THEN RealPart(v[i]) ELSE v[i]
  OBVIOUS
<1>4. Mirrored(v) = [i \in Positions |-> y(i)]
  BY DEF Mirrored, d
<1>5. Hermitian(v) = [i \in Positions |-> z(i)]
  BY DEF Hermitian, d
<1> HIDE DEF w
<1>6. ASSUME NEW i \in Positions PROVE y(i) = z(i) /\ y(i) \in Multiple(m)
  <2>1. i \in 0..(N - 1)
    BY DEF Positions
  <2>2. CASE i > d
    <3>1. N - i \in Positions /\ N - i \notin {0, d} /\ i \notin {0, d} /\ ~(2 * i < N)
      BY <1>1, <2>1, <2>2 DEF Positions
    <3>2. w[N - i] = v[N - i]
      BY <1>3, <3>1
    <3>3. Conjugate(v[N - i]) \in Multiple(m)
      BY <1>2, <3>1, MultipleLaws
    <3> QED BY <2>2, <3>1, <3>2, <3>3
  <2>3. CASE ~(i > d) /\ i \in {0, d}
    BY <1>2, <1>3, <2>3
  <2>4. CASE ~(i > d) /\ i \notin {0, d}
    <3>1. 2 * i < N
      BY <1>1, <2>1, <2>4
    <3> QED BY <1>2, <1>3, <2>4, <3>1
  <2> QED BY <2>2, <2>3, <2>4
<1> HIDE DEF y, z
<1> QED BY <1>2, <1>4, <1>5, <1>6

\* What the transforms may assume of a call: the size divides a whole turn,
\* and no division of the elements of a column leaves a remainder.
ExactInput ==
  /\ Divides
  /\ plan.mode \in {"C2C", "R2C", "C2R", "R2R"} /\ plan.half \in BOOLEAN
  /\ \A c \in DOMAIN input : input[c] \in [Positions -> Multiple(N * 2)]

(* What a call prepares its columns to stays exact.                          *)
LEMMA PreparedExact ==
  ASSUME PlanShape, ExactInput, NEW c \in DOMAIN input
  PROVE  Prepared(input[c]) \in [Positions -> Multiple(1 * N)] /\ Prepared(input[c]) \in Column
<1> DEFINE v == input[c]
<1>1. N \in Nat /\ 1 * N = N /\ v \in [Positions -> Multiple(N * 2)]
  BY DEF PlanShape, ExactInput
<1> HIDE DEF v
<1>2. v \in [Positions -> Multiple(N)]
  <2>1. \A i \in Positions : v[i] \in Multiple(N)
    BY <1>1, MultipleOf
  <2> QED BY <1>1, <2>1
<1>3. Mirrored(v) \in [Positions -> Multiple(N)] /\ [i \in Positions |-> RealPart(v[i])] \in [Positions -> Multiple(N)]
  BY <1>1, MirroredIs
<1>4. Prepared(v) \in [Positions -> Multiple(N)]
  BY <1>2, <1>3 DEF Prepared
<1> QED BY <1>1, <1>4, MultipleColumns DEF v

(* What the stages of either kernel make of a column is its transform.       *)
LEMMA ResultIsDft ==
  ASSUME KernelInv, ExactInput, NEW c \in Columns
  PROVE  Result(c) = Dft(IF Ct THEN Prepared(input[c]) ELSE input[c])
<1>1. PlanShape /\ Divides /\ c \in DOMAIN input
  BY DEF KernelInv, CallShape, DataShape, ExactInput
<1>2. \A v : Dft(v) = Scaled(Spectrum(v))
  BY DEF Dft, Spectrum
<1>3. CASE Ct
  <2>1. Levels(Permuted(Prepared(input[c])))[LgN] = Spectrum(Prepared(input[c]))
    BY <1>1, <1>3, PreparedExact, CooleyTukeyTransforms DEF Ct
  <2> QED BY <1>2, <1>3, <2>1 DEF Result, Stages, Begun
<1>4. CASE ~Ct
  <2>1. N * 2 \in Nat /\ input[c] \in [Positions -> Multiple(N * 2)]
    BY <1>1 DEF PlanShape, ExactInput
  <2>2. Levels(input[c])[LgN] = Spectrum(input[c])
    BY <1>1, <1>4, <2>1, MultipleColumns, StockhamTransforms DEF Ct
  <2> QED BY <1>2, <1>4, <2>2 DEF Result, Stages, Begun
<1> QED BY <1>3, <1>4

(* So every mode keeps its promise.                                          *)
LEMMA InvGivesTransforms ==
  ASSUME KernelInv, ExactInput
  PROVE  TransformsCorrectly
<1> SUFFICES ASSUME phase = "done", plan.mode # "R2R", NEW c \in Columns \ LostColumns,
                    Ct \/ Prearranged(input[c])
             PROVE  data[c] = Promised(input[c])
  BY DEF TransformsCorrectly, Ct
<1> DEFINE v == input[c]
           x == IF Ct THEN Prepared(v) ELSE v
<1>1. PlanShape /\ Divides /\ c \in DOMAIN input /\ N \in Nat /\ 1 * N = N /\ v \in [Positions -> Multiple(N * 2)]
  BY DEF KernelInv, CallShape, DataShape, ExactInput, PlanShape
<1>2. data[c] = Finished(Dft(x))
  BY ResultIsDft, InvGivesScheduled DEF Scheduled
<1>3. plan.mode \in {"C2C", "R2C", "C2R"} /\ plan.half \in BOOLEAN
  BY DEF ExactInput
<1>4. Mirrored(v) = Hermitian(v) /\ \A i \in Positions : Self(RealPart(v[i]))
  <2> HIDE DEF v
  <2> QED BY <1>1, MirroredIs
<1>5. Ct \/ Prearranged(v)
  OBVIOUS
<1>6. \A w : [i \in Positions |-> RealPart(w[i])] = Reals(w)
  BY DEF Reals
<1>7. CASE plan.mode = "C2C"
  BY <1>2, <1>7 DEF Prepared, Finished, Promised
<1>8. CASE plan.mode = "R2C"
  <2>1. x = Reals(v)
    BY <1>5, <1>6, <1>8 DEF Prepared, Prearranged
  <2>2. CASE ~plan.half
    BY <1>2, <1>8, <2>1, <2>2 DEF Finished, Promised
  <2>3. CASE plan.half
    <3> DEFINE D == Dft(x)
    <3>1. x \in [Positions -> Multiple(1 * N)] /\ \A i \in Positions : Self(x[i])
      <4>1. Reals(v) \in [Positions -> Multiple(N)]
        <5> HIDE DEF v
        <5> QED BY <1>1, <1>6, MirroredIs
      <4>2. \A i \in Positions : Reals(v)[i] = RealPart(v[i])
        BY DEF Reals
      <4> QED BY <1>1, <1>4, <2>1, <4>1, <4>2
    <3>2. \A k \in {0, N \div 2} : RealPart(D[k]) = D[k]
      <4> HIDE DEF x
      <4> QED BY <1>1, <3>1, RealBins
    <3>3. Promised(v) = LowerBins(D)
      BY <1>8, <2>1, <2>3 DEF Promised
    <3> HIDE DEF D, x
    <3>4. Finished(D) = [i \in Positions |-> IF i > N \div 2 THEN Zero
                                             ELSE IF i \in {0, N \div 2} THEN RealPart(D[i]) ELSE D[i]]
      BY <1>8, <2>3 DEF Finished
    <3>5. LowerBins(D) = [i \in Positions |-> IF i <= N \div 2 THEN D[i] ELSE Zero]
      BY DEF LowerBins
    <3>6. \A i \in Positions : i > N \div 2 <=> ~(i <= N \div 2)
      BY <1>1, HalfSize DEF Positions
    <3>7. Finished(D) = LowerBins(D)
      BY <3>2, <3>4, <3>5, <3>6
    <3> QED BY <1>2, <3>3, <3>7 DEF D, x
  <2> QED BY <1>3, <2>2, <2>3
<1>9. CASE plan.mode = "C2R"
  <2>1. \A w : Finished(w) = Reals(w)
    BY <1>9 DEF Finished, Reals
  <2>2. CASE ~plan.half
    BY <1>2, <1>9, <2>1, <2>2 DEF Prepared, Promised
  <2>3. CASE plan.half
    <3>1. x = Hermitian(v)
      BY <1>4, <1>5, <1>9, <2>3 DEF Prepared, Prearranged
    <3> QED BY <1>2, <1>9, <2>1, <2>3, <3>1 DEF Promised
  <2> QED BY <1>3, <2>2, <2>3
<1> QED BY <1>3, <1>7, <1>8, <1>9

(* The vectors a call may begin with are exact.                              *)
LEMMA UnitsAreExact ==
  ASSUME NEW n \in Nat \ {0}, NEW i \in Nat
  PROVE  Unit(n, i) \in Multiple(n * 2) /\ Zero \in Multiple(n * 2)
<1>1. /\ Unit(n, i) \in Number /\ \A p \in Powers : Unit(n, i)[p] \in {4 * n, 0}
      /\ Zero \in Number /\ \A p \in Powers : Zero[p] = 0
  BY DEF Unit, Zero, Number
<1>2. 4 * n = (n * 2) * 2 /\ 0 = (n * 2) * 0 /\ 2 \in Int /\ 0 \in Int
  OBVIOUS
<1>3. \A p \in Powers : /\ \E a \in Int : Unit(n, i)[p] = (n * 2) * a
                        /\ \E a \in Int : Zero[p] = (n * 2) * a
  BY <1>1, <1>2
<1> QED BY <1>1, <1>3 DEF Multiple

(* A call begins with exact columns ...                                     *)
LEMMA InitExact == Init => ExactInput
<1> SUFFICES ASSUME Init PROVE ExactInput
  OBVIOUS
<1>1. plan \in [kernel : Kernels, N : Sizes, inverse : BOOLEAN, mode : Modes, half : BOOLEAN]
  BY DEF Init
<1>2. N \in Nat \ {0} /\ Divides
  <2>1. N \in Sizes
    BY <1>1 DEF N
  <2>2. N \in 1..Order /\ Order % N = 0
    BY <2>1, KernelsAssumption
  <2> QED BY <2>2, OrderAssumption DEF Divides
<1>3. plan.mode \in {"C2C", "R2C", "C2R", "R2R"} /\ plan.half \in BOOLEAN
  BY <1>1, KernelsAssumption
<1>4. PICK i \in 0..(2 * N - 1) : input = [c \in 0..(Batch - 1) |-> Basis(N, i + c)]
  BY DEF Init
<1>5. ASSUME NEW c \in 0..(Batch - 1) PROVE Basis(N, i + c) \in [Positions -> Multiple(N * 2)]
  <2>1. i + c \in Nat
    BY <1>2
  <2>2. Unit(N, i + c) \in Multiple(N * 2) /\ Zero \in Multiple(N * 2)
    BY <1>2, <2>1, UnitsAreExact
  <2>3. Basis(N, i + c) = [m \in Positions |-> IF m = ((i + c) \div 2) % N THEN Unit(N, i + c) ELSE Zero]
    BY DEF Basis, Positions
  <2> QED BY <2>2, <2>3
<1> QED BY <1>2, <1>3, <1>4, <1>5 DEF ExactInput

(* ... and its steps leave them alone.                                      *)
LEMMA ExactKept == ExactInput /\ UNCHANGED call => ExactInput'
<1> SUFFICES ASSUME ExactInput, UNCHANGED call PROVE ExactInput'
  OBVIOUS
<1>1. plan' = plan /\ input' = input
  BY DEF call
<1> QED BY <1>1 DEF ExactInput, Divides, Positions, N, Multiple, Number

-----------------------------------------------------------------------------
(* Two axes.                                                               *)

\* What Twiddle, Spectrum and Dft are for a plan that is not at work.
AxisPower(axis, k) == (IF axis.inverse THEN 1 ELSE -1) * k * (Order \div axis.N)
AxisSum(axis, v, k) ==
  Total([x \in 0..(axis.N - 1) |-> Turned(v[x], AxisPower(axis, x * k))], axis.N)
Divisor(axis) == IF axis.inverse THEN axis.N ELSE 1
AxisDft(axis, v, k) == Over(AxisSum(axis, v, k), Divisor(axis))

(* A quotient is known by its product with the divisor.                      *)
LEMMA OverIs ==
  ASSUME NEW n \in Nat \ {0}, NEW x \in Number, NEW y \in Number, \A p \in Powers : x[p] = n * y[p]
  PROVE  Over(x, n) = y
<1>1. ASSUME NEW p \in Powers PROVE Over(x, n)[p] = y[p]
  <2> DEFINE a == y[p]
  <2>1. a \in Int /\ x[p] = n * a
    BY DEF Number
  <2> HIDE DEF a
  <2>2. (n * a) \div n = a
    BY <2>1
  <2> QED BY <2>1, <2>2 DEF Over, a
<1>2. Over(x, n) = [p \in Powers |-> Over(x, n)[p]] /\ y = [p \in Powers |-> y[p]]
  BY DEF Over, Number
<1> HIDE DEF Over
<1> QED BY <1>1, <1>2

(* Factors come out of rotations and sums.                                   *)
LEMMA TimesTurned ==
  ASSUME NEW n \in Nat, NEW x \in Number, NEW y \in Number, \A p \in Powers : x[p] = n * y[p], NEW e \in Int
  PROVE  \A p \in Powers : Turned(x, e)[p] = n * Turned(y, e)[p]
<1> SUFFICES ASSUME NEW p \in Powers PROVE Turned(x, e)[p] = n * Turned(y, e)[p]
  OBVIOUS
<1> DEFINE q == (p - e) % Order
           h == Order \div 2
<1>1. \A z : Turned(z, e)[p] = IF q \in Powers THEN z[q] ELSE -z[q - h]
  BY DEF Turned
<1>2. q \in Powers \/ q - h \in Powers
  <2>1. p - e \in Int
    BY HalfTurn DEF Powers
  <2>2. q \in 0..(Order - 1) /\ Order = 2 * h /\ h \in Nat \ {0} /\ Powers = 0..(h - 1)
    BY <2>1, Remainder, HalfTurn DEF Powers
  <2> QED BY <2>2
<1> HIDE DEF q, h
<1>3. CASE q \in Powers
  BY <1>1, <1>3
<1>4. CASE q \notin Powers
  <2>1. x[q - h] = n * y[q - h] /\ y[q - h] \in Int
    BY <1>2, <1>4 DEF Number
  <2>2. -(n * y[q - h]) = n * (-y[q - h])
    BY <2>1
  <2> QED BY <1>1, <1>4, <2>1, <2>2
<1> QED BY <1>3, <1>4

(* ... and out of sums.                                                     *)
LEMMA TimesSum ==
  ASSUME NEW d \in Nat, NEW n \in Nat, NEW f, NEW g,
         \A k \in 0..(n - 1) : f[k] \in Number /\ g[k] \in Number /\ \A p \in Powers : f[k][p] = d * g[k][p]
  PROVE  \A p \in Powers : Total(f, n)[p] = d * Total(g, n)[p]
<1> DEFINE T == {m \in Nat : m <= n => \A p \in Powers : Total(f, m)[p] = d * Total(g, m)[p]}
<1>1. 0 \in T
  <2>1. \A p \in Powers : Zero[p] = 0
    BY DEF Zero
  <2>2. 0 = d * 0
    OBVIOUS
  <2> QED BY <2>1, <2>2, SumLaws
<1>2. ASSUME NEW m \in Nat, m \in T PROVE m + 1 \in T
  <2> SUFFICES ASSUME m + 1 <= n, NEW p \in Powers PROVE Total(f, m + 1)[p] = d * Total(g, m + 1)[p]
    OBVIOUS
  <2>1. Total(f, m)[p] = d * Total(g, m)[p] /\ f[m][p] = d * g[m][p] /\ f[m] \in Number /\ g[m] \in Number
    BY <1>2
  <2>2. Total(f, m) \in Number /\ Total(g, m) \in Number
    <3>1. \A k \in 0..(m - 1) : f[k] \in Number /\ g[k] \in Number
      OBVIOUS
    <3> QED BY <3>1, SumType
  <2> HIDE DEF T
  <2>3. Total(f, m + 1)[p] = Total(f, m)[p] + f[m][p] /\ Total(g, m + 1)[p] = Total(g, m)[p] + g[m][p]
    BY <2>1, <2>2, SumLaws, PlusType
  <2>4. Total(g, m)[p] \in Int /\ g[m][p] \in Int
    BY <2>1, <2>2 DEF Number
  <2>5. d * (Total(g, m)[p] + g[m][p]) = d * Total(g, m)[p] + d * g[m][p]
    BY <2>4
  <2> QED BY <2>1, <2>3, <2>5
<1> HIDE DEF T
<1>3. n \in T
  BY <1>1, <1>2, SetInduction
<1> QED BY <1>3 DEF T

\* l is m times n: a name for the equation, which the provers can match.
IsProduct(l, m, n) == l = m * n

(* A multiple of m * n can be divided by n, or left alone.                   *)
LEMMA OverEither ==
  ASSUME NEW m \in Nat, NEW n \in Nat \ {0}, NEW l, IsProduct(l, m, n), NEW x \in Multiple(l),
         NEW d, d = 1 \/ d = n
  PROVE  /\ Over(x, d) \in Multiple(m) /\ Over(x, d) \in Number
         /\ \A p \in Powers : x[p] = d * Over(x, d)[p]
<1>0. l = m * n
  BY DEF IsProduct
<1>1. CASE d = n
  <2>1. Over(x, n) \in Multiple(m) /\ \A p \in Powers : x[p] = n * Over(x, n)[p]
    BY <1>0, MultipleOver
  <2>2. Over(x, n) \in Number
    BY <2>1 DEF Multiple
  <2> QED BY <1>1, <2>1, <2>2
<1>2. CASE d = 1
  <2>1. x \in Multiple(m) /\ x \in Number
    BY <1>0, MultipleOf
  <2>2. \A p \in Powers : x[p] = 1 * x[p]
    BY <2>1 DEF Number
  <2>3. Over(x, 1) = x
    BY <2>1, <2>2, OverIs
  <2> QED BY <1>2, <2>1, <2>2, <2>3
<1> QED BY <1>1, <1>2

\* What is known of the plan of an axis.
AxisShape(axis) ==
  /\ axis.N \in Nat \ {0} /\ Order % axis.N = 0
  /\ axis.mode = "C2C" /\ axis.half = FALSE /\ axis.inverse \in BOOLEAN

(* Powers of z are whole.                                                   *)
LEMMA AxisPowerType ==
  ASSUME NEW axis, AxisShape(axis), NEW k \in Int
  PROVE  AxisPower(axis, k) \in Int
<1>1. Order \in Nat /\ axis.N \in Nat \ {0}
  BY HalfTurn DEF AxisShape
<1>2. Order \div axis.N \in Int
  BY <1>1
<1> QED BY <1>2 DEF AxisPower

(* Sums along one axis of exact values are exact.                            *)
LEMMA AxisSumType ==
  ASSUME NEW axis, AxisShape(axis), NEW k \in Nat, NEW m \in Nat, NEW v,
         \A x \in 0..(axis.N - 1) : v[x] \in Multiple(m)
  PROVE  AxisSum(axis, v, k) \in Multiple(m)
<1> DEFINE f == [x \in 0..(axis.N - 1) |-> Turned(v[x], AxisPower(axis, x * k))]
<1>1. ASSUME NEW x \in 0..(axis.N - 1) PROVE f[x] \in Multiple(m)
  <2>1. x * k \in Int
    OBVIOUS
  <2>2. AxisPower(axis, x * k) \in Int
    BY <2>1, AxisPowerType
  <2> QED BY <2>2, MultipleLaws
<1>2. axis.N \in Nat
  BY DEF AxisShape
<1> HIDE DEF f
<1> QED BY <1>1, <1>2, MultipleSum DEF AxisSum, f

\* For every column of M the terms of element r of column c of the transform.
BothAxes(p, q, M, r, c) ==
  [y \in 0..(q.N - 1) |->
     Total([x \in 0..(p.N - 1) |->
              Turned(M[y][x], AxisPower(p, x * r) + AxisPower(q, y * c))], p.N)]

(* The transforms of one axis and then the other are the sum over both.      *)
LEMMA TwoAxes ==
  ASSUME NEW p, AxisShape(p), NEW q, AxisShape(q), NEW r \in Nat, NEW c \in Nat, NEW M,
         \A y \in 0..(q.N - 1) : \A x \in 0..(p.N - 1) : M[y][x] \in Multiple((q.N * 2) * p.N),
         NEW f, \A y \in 0..(q.N - 1) : f[y] = AxisDft(p, M[y], r)
  PROVE  AxisDft(q, f, c) = Over(Total(BothAxes(p, q, M, r, c), q.N), Divisor(p) * Divisor(q))
<1> DEFINE Column2 == BothAxes(p, q, M, r, c)
<1>0. \A y \in 0..(q.N - 1) :
        Column2[y] = Total([x \in 0..(p.N - 1) |->
                              Turned(M[y][x], AxisPower(p, x * r) + AxisPower(q, y * c))], p.N)
  BY DEF BothAxes
<1> HIDE DEF Column2
<1> DEFINE a == p.N
           b == q.N
           dp == Divisor(p)
           dq == Divisor(q)
           S == [y \in 0..(b - 1) |-> AxisSum(p, M[y], r)]
           g == [y \in 0..(b - 1) |-> Turned(f[y], AxisPower(q, y * c))]
           sum == Total(Column2, b)
           part == Total(g, b)
<1>1. a \in Nat \ {0} /\ b \in Nat \ {0} /\ dp \in {1, a} /\ dq \in {1, b} /\ b * 2 \in Nat /\ b * 2 = 2 * b
  BY DEF AxisShape, Divisor
<1>2. ASSUME NEW y \in 0..(b - 1)
      PROVE  /\ S[y] \in Number /\ f[y] \in Multiple(b * 2) /\ f[y] \in Number
             /\ \A i \in Powers : S[y][i] = dp * f[y][i]
  <2>1. (b * 2) * a \in Nat /\ \A x \in 0..(a - 1) : M[y][x] \in Multiple((b * 2) * a)
    BY <1>1
  <2>2. S[y] \in Multiple((b * 2) * a)
    BY <2>1, AxisSumType
  <2>3. f[y] = Over(S[y], dp)
    BY DEF AxisDft
  <2> HIDE DEF S, a, b, dp
  <2>4. S[y] \in Number
    BY <2>2 DEF Multiple
  <2> DEFINE m == b * 2
  <2>5. m \in Nat /\ S[y] \in Multiple(m * a)
    BY <1>1, <2>2
  <2> HIDE DEF m
  <2>6. Over(S[y], dp) \in Multiple(m) /\ Over(S[y], dp) \in Number /\ \A i \in Powers : S[y][i] = dp * Over(S[y], dp)[i]
    <3>1. IsProduct(m * a, m, a) /\ S[y] \in Multiple(m * a)
      BY <2>5 DEF IsProduct
    <3>2. m \in Nat /\ a \in Nat \ {0} /\ (dp = 1 \/ dp = a)
      BY <1>1, <2>5
    <3> QED BY <3>1, <3>2, OverEither
  <2> QED BY <2>3, <2>4, <2>6 DEF m
<1>3. ASSUME NEW y \in 0..(b - 1)
      PROVE  Column2[y] = Turned(S[y], AxisPower(q, y * c))
  <2> DEFINE t == [x \in 0..(a - 1) |-> Turned(M[y][x], AxisPower(p, x * r))]
             u == [x \in 0..(a - 1) |-> Turned(M[y][x], AxisPower(p, x * r) + AxisPower(q, y * c))]
             e == AxisPower(q, y * c)
  <2>1. e \in Int
    <3>1. y * c \in Int
      OBVIOUS
    <3> QED BY <3>1, AxisPowerType
  <2>2. ASSUME NEW x \in 0..(a - 1) PROVE t[x] \in Number /\ u[x] = Turned(t[x], e)
    <3>1. M[y][x] \in Number
      BY DEF Multiple
    <3>2. x * r \in Int
      OBVIOUS
    <3>3. AxisPower(p, x * r) \in Int
      BY <3>2, AxisPowerType
    <3> QED BY <2>1, <3>1, <3>3, RotatedTwice, RotatedType
  <2>3. S[y] = Total(t, a) /\ Column2[y] = Total(u, a)
    BY <1>0 DEF AxisSum
  <2> HIDE DEF t, u, e, S, a
  <2>4. Turned(Total(t, a), e) = Total(u, a)
    BY <1>1, <2>1, <2>2, SumTurned
  <2> QED BY <2>3, <2>4 DEF e
<1>4. ASSUME NEW y \in 0..(b - 1)
      PROVE  /\ Column2[y] \in Number /\ g[y] \in Number /\ g[y] \in Multiple(b * 2)
             /\ \A i \in Powers : Column2[y][i] = dp * g[y][i]
  <2> DEFINE e == AxisPower(q, y * c)
  <2>1. e \in Int
    <3>1. y * c \in Int
      OBVIOUS
    <3> QED BY <3>1, AxisPowerType
  <2>2. g[y] = Turned(f[y], e) /\ Column2[y] = Turned(S[y], e) /\ dp \in Nat
    <3>1. g[y] = Turned(f[y], e)
      OBVIOUS
    <3>2. Column2[y] = Turned(S[y], e)
      BY <1>3
    <3> HIDE DEF g, S, e, dp
    <3>3. dp \in Nat
      BY <1>1
    <3> QED BY <3>1, <3>2, <3>3
  <2> HIDE DEF e, g, S, dp, b
  <2>3. Column2[y] \in Number /\ g[y] \in Number
    BY <1>2, <2>1, <2>2, RotatedType
  <2>4. g[y] \in Multiple(b * 2)
    <3> DEFINE m == b * 2
    <3>1. m \in Nat /\ f[y] \in Multiple(m)
      BY <1>1, <1>2
    <3> HIDE DEF m
    <3>2. Turned(f[y], e) \in Multiple(m)
      BY <2>1, <3>1, MultipleLaws
    <3> QED BY <2>2, <3>2 DEF m
  <2>5. \A i \in Powers : Column2[y][i] = dp * g[y][i]
    BY <1>2, <2>1, <2>2, TimesTurned
  <2> QED BY <2>3, <2>4, <2>5
<1>5. part = AxisSum(q, f, c)
  BY DEF AxisSum
<1> HIDE DEF a, b, dp, dq, S, g
<1>6. part \in Multiple(b * 2) /\ part \in Number /\ sum \in Number
  BY <1>1, <1>4, MultipleSum, SumType
<1>7. \A i \in Powers : sum[i] = dp * part[i]
  <2>1. dp \in Nat /\ b \in Nat
    BY <1>1
  <2> QED BY <1>4, <2>1, TimesSum
<1> HIDE DEF sum, part
<1> DEFINE R == Over(part, dq)
<1>8. R \in Number /\ \A i \in Powers : part[i] = dq * R[i]
  <2>1. part \in Multiple(2 * b)
    BY <1>1, <1>6
  <2>2. IsProduct(2 * b, 2, b)
    BY DEF IsProduct
  <2>3. 2 \in Nat /\ b \in Nat \ {0} /\ (dq = 1 \/ dq = b)
    BY <1>1
  <2>4. Over(part, dq) \in Number /\ \A i \in Powers : part[i] = dq * Over(part, dq)[i]
    BY <2>1, <2>2, <2>3, OverEither
  <2> QED BY <2>4 DEF R
<1> HIDE DEF R
<1>9. \A i \in Powers : sum[i] = (dp * dq) * R[i]
  <2> SUFFICES ASSUME NEW i \in Powers PROVE sum[i] = (dp * dq) * R[i]
    OBVIOUS
  <2>1. R[i] \in Int /\ dp \in Nat /\ dq \in Nat
    BY <1>1, <1>8 DEF Number
  <2>2. (dp * dq) * R[i] = dp * (dq * R[i])
    BY <2>1
  <2> QED BY <1>7, <1>8, <2>2
<1>10. dp * dq \in Nat \ {0}
  BY <1>1
<1>11. Over(sum, dp * dq) = R
  BY <1>6, <1>8, <1>9, <1>10, OverIs
<1> QED BY <1>5, <1>11 DEF R, AxisDft, sum, dp, dq, b, Column2

(* What is exact by the size of the axis is exact after its transform.       *)
LEMMA AxisDftExact ==
  ASSUME NEW axis, AxisShape(axis), NEW m \in Nat, NEW l \in Nat, IsProduct(l, m, axis.N), NEW k \in Nat,
         NEW v, \A x \in 0..(axis.N - 1) : v[x] \in Multiple(l)
  PROVE  AxisDft(axis, v, k) \in Multiple(m)
<1>1. AxisSum(axis, v, k) \in Multiple(l)
  BY AxisSumType
<1>2. axis.N \in Nat \ {0} /\ (Divisor(axis) = 1 \/ Divisor(axis) = axis.N)
  BY DEF AxisShape, Divisor
<1>3. Over(AxisSum(axis, v, k), Divisor(axis)) \in Multiple(m)
  BY <1>1, <1>2, OverEither
<1> QED BY <1>3 DEF AxisDft

(* The transform of the plan at work.                                        *)
LEMMA DftIsAxis ==
  ASSUME PlanShape, Divides, NEW v \in Column, NEW k \in Positions
  PROVE  Dft(v)[k] = AxisDft(plan, v, k)
<1>1. Spectrum(v)[k] = AxisSum(plan, v, k)
  BY DEF Spectrum, AxisSum, Positions, N, Twiddle, AxisPower
<1>2. Spectrum(v)[k] \in Number
  <2> DEFINE f == [n \in Positions |-> Turned(v[n], Twiddle(n * k))]
  <2>1. ASSUME NEW n \in 0..(N - 1) PROVE f[n] \in Number
    <3>1. n \in Positions /\ n * k \in Int
      BY DEF Positions, PlanShape
    <3>2. Twiddle(n * k) \in Int /\ v[n] \in Number
      BY <3>1, TwiddleAdds DEF Column
    <3> QED BY <3>1, <3>2, RotatedType
  <2>2. N \in Nat
    BY DEF PlanShape
  <2> HIDE DEF f
  <2>3. Total(f, N) \in Number
    BY <2>1, <2>2, SumType
  <2> QED BY <2>3 DEF Spectrum, f
<1>3. Over(Spectrum(v)[k], 1) = Spectrum(v)[k]
  <2>1. \A p \in Powers : Spectrum(v)[k][p] = 1 * Spectrum(v)[k][p]
    BY <1>2 DEF Number
  <2> QED BY <1>2, <2>1, OverIs
<1>4. Dft(v)[k] = IF plan.inverse THEN Over(Spectrum(v)[k], N) ELSE Spectrum(v)[k]
  BY DEF Dft, Scaled, Spectrum
<1> QED BY <1>1, <1>3, <1>4 DEF AxisDft, Divisor, N

(* The tiles leave nothing out.                                              *)
LEMMA TiledAll ==
  ASSUME NEW n \in Nat, NEW tile \in Nat \ {0}
  PROVE  0..(n - 1) \subseteq Tiled(n, tile)
<1> SUFFICES ASSUME NEW i \in 0..(n - 1) PROVE i \in Tiled(n, tile)
  OBVIOUS
<1> DEFINE c0 == tile * (i \div tile)
<1>1. i = c0 + (i % tile) /\ i % tile \in 0..(tile - 1) /\ i \div tile \in Nat
  BY DivisionOf
<1>2. c0 \in Nat /\ c0 <= i /\ i < c0 + tile
  BY <1>1
<1>3. c0 % tile = 0
  BY <1>1
<1> HIDE DEF c0
<1>4. c0 \in {c \in 0..(n - 1) : c % tile = 0} /\ i \in c0..((IF c0 + tile < n THEN c0 + tile ELSE n) - 1)
  BY <1>2, <1>3
<1> QED BY <1>4 DEF Tiled

\* A matrix of a columns with b rows.
MatrixShape(m, a, b) ==
  a \in Nat \ {0} /\ b \in Nat \ {0} /\ DOMAIN m = 0..(a - 1) /\ DOMAIN m[0] = 0..(b - 1)

(* So the transposition is one, whatever the size of the tiles.              *)
LEMMA TransposedIs ==
  ASSUME NEW m, NEW a, NEW b, MatrixShape(m, a, b)
  PROVE  Transposed(m) = [r \in 0..(b - 1) |-> [c \in 0..(a - 1) |-> m[c][r]]]
<1>0. a \in Nat \ {0} /\ b \in Nat \ {0} /\ DOMAIN m = 0..(a - 1) /\ DOMAIN m[0] = 0..(b - 1)
  BY DEF MatrixShape
<1>1. Cardinality(0..(a - 1)) = a /\ Cardinality(0..(b - 1)) = b
  BY <1>0, FS_Interval
<1>2. \A r \in 0..(b - 1) : r \in Tiled(b, TileRows)
  BY <1>0, TiledAll, PlanesAssumption
<1>3. \A c \in 0..(a - 1) : c \in Tiled(a, TileCols)
  BY <1>0, TiledAll, PlanesAssumption
<1> QED BY <1>0, <1>1, <1>2, <1>3 DEF Transposed

\* The matrix is exact along both axes, so that the plans may divide by both sizes.
MatrixExact ==
  /\ AxisShape(plane.first) /\ AxisShape(plane.second)
  /\ DOMAIN plane.matrix = 0..(plane.second.N - 1)
  /\ \A y \in 0..(plane.second.N - 1) :
       plane.matrix[y] \in [0..(plane.first.N - 1) -> Multiple((plane.second.N * 2) * plane.first.N)]

\* Element x of every column of the matrix after the first axis.
RowOf(x) == [y \in 0..(plane.second.N - 1) |-> AxisDft(plane.first, plane.matrix[y], x)]

\* What a plane carries from one call to the next, and brings back.
PlaneData ==
  /\ ExactInput
  /\ plane = NoPlane => side = "columns" /\ phase # "turned"
  /\ plane # NoPlane =>
       /\ MatrixExact
       /\ side \in {"columns", "rows"}
       /\ side = "columns" => plan = plane.first /\ input = plane.matrix /\ phase # "turned"
       /\ side = "rows" =>
            /\ plan = plane.second /\ DOMAIN input = 0..(plane.first.N - 1)
            /\ whole => \A x \in 0..(plane.first.N - 1) : input[x] = RowOf(x)
            /\ phase = "turned" /\ whole /\ lost = {} =>
                 data = [c \in 0..(plane.second.N - 1) |->
                           [r \in 0..(plane.first.N - 1) |-> AxisDft(plane.second, RowOf(r), c)]]

(* The definition of the two-dimensional transform, one axis at a time.      *)
LEMMA PlaneByAxes ==
  ASSUME MatrixExact, NEW r \in Nat, NEW c \in Nat
  PROVE  Dft2(r, c) = AxisDft(plane.second, RowOf(r), c)
<1> DEFINE p == plane.first
           q == plane.second
           M == plane.matrix
           f == RowOf(r)
<1>1. AxisShape(p) /\ AxisShape(q)
  BY DEF MatrixExact
<1>2. \A y \in 0..(q.N - 1) : \A x \in 0..(p.N - 1) : M[y][x] \in Multiple((q.N * 2) * p.N)
  BY DEF MatrixExact
<1>3. \A y \in 0..(q.N - 1) : f[y] = AxisDft(p, M[y], r)
  BY DEF RowOf
<1>4. Dft2(r, c) = Over(Total(BothAxes(p, q, M, r, c), q.N), Divisor(p) * Divisor(q))
  BY DEF Dft2, AxisPower, Divisor, BothAxes
<1> HIDE DEF p, q, M, f
<1>5. AxisDft(q, f, c) = Over(Total(BothAxes(p, q, M, r, c), q.N), Divisor(p) * Divisor(q))
  BY <1>1, <1>2, <1>3, TwoAxes
<1> QED BY <1>4, <1>5 DEF q, f

(* So the matrix that a plane brings back is its transform.                  *)
LEMMA DataGivesPlane == PlaneData => PlaneTransformed
<1> SUFFICES ASSUME PlaneData, phase = "turned", whole, lost = {} PROVE
      /\ DOMAIN data = 0..(plane.second.N - 1)
      /\ \A c \in DOMAIN data : data[c] = [r \in 0..(plane.first.N - 1) |-> Dft2(r, c)]
  BY DEF PlaneTransformed
<1>1. plane # NoPlane /\ side = "rows" /\ MatrixExact
  BY DEF PlaneData
<1>2. data = [c \in 0..(plane.second.N - 1) |->
                [r \in 0..(plane.first.N - 1) |-> AxisDft(plane.second, RowOf(r), c)]]
  BY <1>1 DEF PlaneData
<1>3. ASSUME NEW c \in 0..(plane.second.N - 1), NEW r \in 0..(plane.first.N - 1)
      PROVE  AxisDft(plane.second, RowOf(r), c) = Dft2(r, c)
  BY <1>1, PlaneByAxes
<1> QED BY <1>2, <1>3

(* What a complex call has made of a column when it is done.                 *)
LEMMA AxisDone ==
  ASSUME KernelInv, ExactInput, plan.mode = "C2C", phase = "done", NEW c \in Columns
  PROVE  /\ c \in DOMAIN input
         /\ data[c] = IF Chunk(c) \in lost THEN input[c]
                      ELSE [k \in Positions |-> AxisDft(plan, input[c], k)]
<1> DEFINE v == input[c]
<1>1. PlanShape /\ Divides /\ c \in DOMAIN input /\ N \in Nat
  BY DEF KernelInv, CallShape, DataShape, ExactInput, PlanShape
<1>2. Result(c) = Dft(v)
  BY ResultIsDft DEF Prepared
<1>3. v \in Column
  <2>1. N * 2 \in Nat /\ v \in [Positions -> Multiple(N * 2)]
    BY <1>1 DEF ExactInput
  <2> HIDE DEF v
  <2> QED BY <2>1, MultipleColumns
<1> HIDE DEF v
<1>4. Dft(v) = [k \in Positions |-> AxisDft(plan, v, k)]
  <2>1. Dft(v) = [k \in Positions |-> Dft(v)[k]]
    BY DEF Dft, Scaled
  <2> QED BY <1>1, <1>3, <2>1, DftIsAxis
<1>5. data[c] = IF Chunk(c) \in lost THEN input[c] ELSE Result(c)
  BY DEF KernelInv, DataInv, Finished
<1> QED BY <1>1, <1>2, <1>4, <1>5 DEF v

(* Planes begin with exact matrices, calls on one axis with exact columns.   *)
LEMMA PlaneInitData == PlaneInit => PlaneData
<1> SUFFICES ASSUME PlaneInit PROVE PlaneData
  OBVIOUS
<1>1. CASE plane = NoPlane /\ Init
  <2>1. phase # "turned" /\ side = "columns"
    BY <1>1 DEF Init, Started, PlaneInit
  <2> QED BY <1>1, <2>1, InitExact DEF PlaneData
<1>2. ASSUME NEW s \in Shapes, NEW k0 \in Kernels, NEW k1 \in Kernels, NEW inverse \in BOOLEAN,
             plan = ComplexPlan(k0, s.rows, inverse),
             NEW i \in 0..(2 * s.rows * s.cols - 1), input = BasisMatrix(s.rows, s.cols, i),
             plane = [first |-> plan, second |-> ComplexPlan(k1, s.cols, inverse), matrix |-> input],
             Started
      PROVE  PlaneData
  <2> DEFINE a == s.rows
             b == s.cols
             m == (b * 2) * a
  <2>1. a \in Nat \ {0} /\ b \in Nat \ {0} /\ Order % a = 0 /\ Order % b = 0 /\ i \in Nat
    BY PlanesAssumption, OrderAssumption
  <2>2. /\ plane.first = plan /\ plane.second = ComplexPlan(k1, b, inverse) /\ plane.matrix = input
        /\ plane # NoPlane
        /\ plan.N = a /\ plane.second.N = b
    <3>1. "second" \in DOMAIN plane /\ "second" \notin DOMAIN NoPlane
      BY <1>2 DEF NoPlane
    <3> QED BY <1>2, <3>1 DEF ComplexPlan
  <2>3. AxisShape(plane.first) /\ AxisShape(plane.second)
    BY <1>2, <2>1, <2>2 DEF AxisShape, ComplexPlan
  <2>4. Unit(a * b, i) \in Multiple(m) /\ Zero \in Multiple(m) /\ m \in Nat
    <3>1. a * b \in Nat \ {0} /\ (a * b) * 2 = m /\ m \in Nat
      BY <2>1
    <3> QED BY <2>1, <3>1, UnitsAreExact
  <2>5. \A c \in 0..(b - 1) : input[c] \in [0..(a - 1) -> Multiple(m)]
    <3> HIDE DEF m
    <3> QED BY <1>2, <2>4 DEF BasisMatrix
  <2>6. DOMAIN input = 0..(b - 1)
    BY <1>2 DEF BasisMatrix
  <2>7. MatrixExact
    BY <2>2, <2>3, <2>5, <2>6 DEF MatrixExact
  <2>8. ExactInput
    <3>1. m = b * (a * 2) /\ a * 2 \in Nat
      BY <2>1
    <3> DEFINE l == a * 2
    <3>2. b \in Nat \ {0} /\ l \in Nat /\ Multiple(m) \subseteq Multiple(l)
      <4>1. m = l * b
        BY <2>1
      <4> HIDE DEF m, l, b
      <4> QED BY <2>1, <3>1, <4>1, MultipleOf DEF l
    <3>3. \A c \in DOMAIN input : input[c] \in [Positions -> Multiple(N * 2)]
      <4>1. Positions = 0..(a - 1) /\ N * 2 = l
        BY <2>2 DEF Positions, N
      <4> HIDE DEF m, l
      <4>2. ASSUME NEW c \in DOMAIN input PROVE input[c] \in [0..(a - 1) -> Multiple(l)]
        BY <2>5, <2>6, <3>2
      <4> QED BY <4>1, <4>2
    <3> QED BY <2>1, <2>2, <2>3, <3>3 DEF ExactInput, Divides, N, AxisShape
  <2>9. side = "columns" /\ phase # "turned"
    BY <1>2 DEF Started, PlaneInit
  <2> QED BY <2>2, <2>7, <2>8, <2>9 DEF PlaneData
<1> QED BY <1>1, <1>2 DEF PlaneInit

(* The first call hands the rows of its result to the second.                *)
LEMMA TurnOverData ==
  ASSUME PlaneInv, PlaneData, TurnOver
  PROVE  PlaneData'
<1> DEFINE p == plane.first
           q == plane.second
           M == plane.matrix
<1>1. /\ plane # NoPlane /\ side = "columns" /\ phase = "done" /\ side' = "rows"
      /\ plan' = q /\ input' = Transposed(data) /\ phase' # "turned"
      /\ whole' = (lost = {}) /\ plane' = plane
  BY DEF TurnOver
<1>2. KernelInv /\ PlaneShape /\ ExactInput /\ MatrixExact /\ plan = p /\ input = M
  BY <1>1 DEF PlaneInv, PlaneData
<1>3. /\ p.N \in Nat \ {0} /\ q.N \in Nat \ {0} /\ AxisShape(p) /\ AxisShape(q)
      /\ DOMAIN M = 0..(q.N - 1)
      /\ \A y \in 0..(q.N - 1) : M[y] \in [0..(p.N - 1) -> Multiple((q.N * 2) * p.N)]
  BY <1>2 DEF MatrixExact, AxisShape
<1>4. DOMAIN data = 0..(q.N - 1) /\ Positions = 0..(p.N - 1) /\ Columns = 0..(q.N - 1) /\ plan.mode = "C2C"
  BY <1>2, <1>3 DEF KernelInv, DataShape, Columns, Positions, N, AxisShape
<1>5. ASSUME NEW y \in 0..(q.N - 1)
      PROVE  data[y] = IF Chunk(y) \in lost THEN M[y] ELSE [k \in 0..(p.N - 1) |-> AxisDft(p, M[y], k)]
  BY <1>1, <1>2, <1>4, AxisDone
<1>6. input' = [r \in 0..(p.N - 1) |-> [c \in 0..(q.N - 1) |-> data[c][r]]]
  <2>1. DOMAIN data[0] = 0..(p.N - 1)
    BY <1>1, <1>2, <1>3, <1>4, ColumnsEndWhole
  <2> DEFINE a == p.N
             b == q.N
  <2>2. MatrixShape(data, b, a)
    BY <1>3, <1>4, <2>1 DEF MatrixShape
  <2> HIDE DEF a, b
  <2>3. Transposed(data) = [r \in 0..(a - 1) |-> [c \in 0..(b - 1) |-> data[c][r]]]
    BY <2>2, TransposedIs
  <2> QED BY <1>1, <2>3 DEF a, b
<1> DEFINE m == q.N * 2
           l == m * p.N
<1>7. ASSUME NEW x \in 0..(p.N - 1), NEW y \in 0..(q.N - 1)
      PROVE  data[y][x] \in Multiple(m)
  <2>1. m \in Nat /\ l \in Nat /\ IsProduct(l, m, p.N) /\ M[y] \in [0..(p.N - 1) -> Multiple(l)]
    <3>1. IsProduct(l, m, p.N)
      BY DEF IsProduct
    <3>2. m \in Nat
      BY <1>3
    <3>3. l \in Nat
      <4> HIDE DEF m
      <4> QED BY <1>3, <3>2
    <3>4. M[y] \in [0..(p.N - 1) -> Multiple(l)]
      BY <1>3
    <3> QED BY <3>1, <3>2, <3>3, <3>4
  <2>2. l = m * p.N
    OBVIOUS
  <2> HIDE DEF m, l, p, q, M
  <2>3. \A z \in 0..(p.N - 1) : M[y][z] \in Multiple(l)
    BY <2>1
  <2>4. M[y][x] \in Multiple(m)
    BY <1>3, <2>1, <2>2, <2>3, MultipleOf
  <2>5. AxisDft(p, M[y], x) \in Multiple(m)
    BY <1>3, <2>1, <2>3, AxisDftExact
  <2> QED BY <1>5, <2>4, <2>5
<1>8. ExactInput'
  <2>1. N' = q.N /\ Positions' = 0..(q.N - 1) /\ plan'.mode = "C2C" /\ plan'.half = FALSE
    BY <1>1, <1>3 DEF N, Positions, AxisShape
  <2>2. Divides'
    BY <1>3, <2>1 DEF Divides, AxisShape
  <2>3. \A c \in DOMAIN input' : input'[c] \in [0..(q.N - 1) -> Multiple(m)]
    BY <1>6, <1>7
  <2> QED BY <2>1, <2>2, <2>3 DEF ExactInput
<1>9. whole' => \A x \in 0..(p.N - 1) : input'[x] = RowOf(x)
  <2> SUFFICES ASSUME lost = {}, NEW x \in 0..(p.N - 1) PROVE input'[x] = RowOf(x)
    BY <1>1
  <2>1. \A y \in 0..(q.N - 1) : data[y][x] = AxisDft(p, M[y], x)
    BY <1>5
  <2> QED BY <1>6, <2>1 DEF RowOf
<1>10. MatrixExact' /\ \A x : RowOf(x)' = RowOf(x)
  BY <1>1, <1>2 DEF MatrixExact, RowOf
<1>11. DOMAIN input' = 0..(p.N - 1)
  BY <1>6
<1> QED BY <1>1, <1>8, <1>9, <1>10, <1>11 DEF PlaneData

(* The second brings the rows back as columns.                               *)
LEMMA TurnBackData ==
  ASSUME PlaneInv, PlaneData, TurnBack
  PROVE  PlaneData'
<1> DEFINE p == plane.first
           q == plane.second
<1>1. /\ side = "rows" /\ phase = "done" /\ phase' = "turned" /\ data' = Transposed(data)
      /\ UNCHANGED <<call, lost, plane, side, whole>>
  BY DEF TurnBack, work, planeVars
<1>2. KernelInv /\ ExactInput /\ plane # NoPlane /\ MatrixExact /\ plan = q /\ DOMAIN input = 0..(p.N - 1)
  BY <1>1 DEF PlaneInv, PlaneData
<1>3. p.N \in Nat \ {0} /\ q.N \in Nat \ {0} /\ AxisShape(p) /\ AxisShape(q)
  BY <1>2 DEF MatrixExact, AxisShape
<1>4. DOMAIN data = 0..(p.N - 1) /\ Columns = 0..(p.N - 1) /\ Positions = 0..(q.N - 1) /\ plan.mode = "C2C"
  BY <1>2, <1>3 DEF KernelInv, DataShape, Columns, Positions, N, AxisShape
<1>5. whole /\ lost = {} =>
        data' = [c \in 0..(q.N - 1) |-> [r \in 0..(p.N - 1) |-> AxisDft(q, RowOf(r), c)]]
  <2> SUFFICES ASSUME whole, lost = {}
               PROVE  data' = [c \in 0..(q.N - 1) |-> [r \in 0..(p.N - 1) |-> AxisDft(q, RowOf(r), c)]]
    OBVIOUS
  <2>1. \A x \in 0..(p.N - 1) : input[x] = RowOf(x)
    BY <1>1, <1>2 DEF PlaneData
  <2>2. \A x \in 0..(p.N - 1) : data[x] = [k \in 0..(q.N - 1) |-> AxisDft(q, RowOf(x), k)]
    BY <1>1, <1>2, <1>4, <2>1, AxisDone
  <2> DEFINE a == p.N
             b == q.N
             z(r, c) == AxisDft(q, RowOf(r), c)
  <2>3. /\ a \in Nat \ {0} /\ b \in Nat \ {0} /\ DOMAIN data = 0..(a - 1)
        /\ \A x \in 0..(a - 1) : data[x] = [k \in 0..(b - 1) |-> z(x, k)]
    BY <1>3, <1>4, <2>2
  <2> HIDE DEF a, b, z
  <2>4. DOMAIN data[0] = 0..(b - 1)
    <3>1. 0 \in 0..(a - 1)
      BY <2>3
    <3> QED BY <2>3, <3>1
  <2>5. Transposed(data) = [c \in 0..(b - 1) |-> [r \in 0..(a - 1) |-> data[r][c]]]
    <3>1. MatrixShape(data, a, b)
      BY <2>3, <2>4 DEF MatrixShape
    <3> QED BY <3>1, TransposedIs
  <2>6. Transposed(data) = [c \in 0..(b - 1) |-> [r \in 0..(a - 1) |-> z(r, c)]]
    BY <2>3, <2>5
  <2> QED BY <1>1, <2>6 DEF a, b, z
<1>6. ExactInput'
  BY <1>1, <1>2, ExactKept
<1>7. MatrixExact' /\ \A x : RowOf(x)' = RowOf(x)
  BY <1>1, <1>2 DEF MatrixExact, RowOf
<1>8. plan' = plan /\ input' = input
  BY <1>1 DEF call
<1> QED BY <1>1, <1>2, <1>5, <1>6, <1>7, <1>8 DEF PlaneData

(* Every step keeps what a plane carries.                                    *)
LEMMA PlaneDataKept == PlaneInv /\ PlaneData /\ [PlaneNext]_allVars => PlaneData'
<1> SUFFICES ASSUME PlaneInv, PlaneData, [PlaneNext]_allVars PROVE PlaneData'
  OBVIOUS
<1>1. ASSUME UNCHANGED <<call, planeVars>>, phase' # "turned" PROVE PlaneData'
  <2>1. ExactInput'
    BY <1>1, ExactKept DEF PlaneData
  <2>2. plan' = plan /\ input' = input /\ plane' = plane /\ side' = side /\ whole' = whole
    BY <1>1 DEF call, planeVars
  <2>3. (MatrixExact => MatrixExact') /\ \A x : RowOf(x)' = RowOf(x)
    BY <2>2 DEF MatrixExact, RowOf
  <2> QED BY <1>1, <2>1, <2>2, <2>3 DEF PlaneData
<1>2. CASE AxisStep
  <2>1. UNCHANGED <<call, planeVars>> /\ phase' # "turned"
    BY <1>2 DEF AxisStep, Next, PreTransform, EndDispatch, Scale, PostTransform, Take,
                PermuteChunk, StageChunk, NoSlot, Load, TransformStage, Store, Dispatching
  <2> QED BY <1>1, <2>1
<1>3. CASE TurnOver
  BY <1>3, TurnOverData
<1>4. CASE TurnBack
  BY <1>4, TurnBackData
<1>5. CASE UNCHANGED allVars
  <2>1. UNCHANGED <<call, planeVars, phase, data, lost>>
    BY <1>5 DEF allVars, vars, work
  <2>2. plan' = plan /\ input' = input /\ plane' = plane /\ side' = side /\ whole' = whole
    BY <2>1 DEF call, planeVars
  <2>3. (MatrixExact => MatrixExact') /\ \A x : RowOf(x)' = RowOf(x)
    BY <2>2 DEF MatrixExact, RowOf
  <2>4. ExactInput'
    BY <2>1, ExactKept DEF PlaneData
  <2> QED BY <2>1, <2>2, <2>3, <2>4 DEF PlaneData
<1> QED BY <1>2, <1>3, <1>4, <1>5 DEF PlaneNext

(* Both invariants together.                                                 *)
LEMMA PlaneDataInvariant == PlaneSpec => [](PlaneInv /\ PlaneData)
<1>1. PlaneInit => PlaneInv /\ PlaneData
  BY PlaneInitHolds, PlaneInitData
<1>2. PlaneInv /\ PlaneData /\ [PlaneNext]_allVars => (PlaneInv /\ PlaneData)'
  BY PlaneNextKeeps, PlaneDataKept
<1> QED BY <1>1, <1>2, PTL DEF PlaneSpec

(* Whatever numbers a column holds, the stages of either kernel make its     *)
(* Fourier transform of it: Cooley-Tukey in natural order after the          *)
(* permutation, Stockham without one (eigen_fft.hpp 2919-3018 and 3462-3532).*)
THEOREM StagesAreFourier ==
  ASSUME PlanShape, Divides, NEW v \in Column
  PROVE  Levels(IF Ct THEN Permuted(v) ELSE v)[LgN] = Spectrum(v)
<1>1. CASE Ct
  BY <1>1, CooleyTukeyTransforms DEF Ct
<1>2. CASE ~Ct
  BY <1>2, StockhamTransforms DEF Ct
<1> QED BY <1>1, <1>2

(* The stages of either kernel are the Fourier transform, for every power of *)
(* two and every batch, and every mode makes of it what it promises          *)
(* (eigen_fft.hpp 2485-2598, 2919-3018 and 3462-3532).                       *)
THEOREM TransformsAreFourier == PlaneSpec => []TransformsCorrectly
<1>1. PlaneInv /\ PlaneData => TransformsCorrectly
  <2>1. phase = "turned" => TransformsCorrectly
    BY DEF TransformsCorrectly
  <2> QED BY <2>1, InvGivesTransforms DEF PlaneInv, PlaneData
<1> QED BY <1>1, PlaneDataInvariant, PTL

(* The same of the calls on one axis alone.                                  *)
THEOREM CallsAreFourier == Spec => []TransformsCorrectly
<1>1. Init => KernelInv /\ ExactInput
  BY InitHolds, InitExact
<1>2. KernelInv /\ ExactInput /\ [Next]_vars => (KernelInv /\ ExactInput)'
  <2>1. [Next]_vars => UNCHANGED call
    BY DEF Next, PreTransform, EndDispatch, Scale, PostTransform, Take, PermuteChunk, StageChunk,
           NoSlot, Load, TransformStage, Store, vars
  <2> QED BY <2>1, NextKeeps, StutterKeeps, ExactKept
<1>3. KernelInv /\ ExactInput => TransformsCorrectly
  BY InvGivesTransforms
<1> QED BY <1>1, <1>2, <1>3, PTL DEF Spec

(* A matrix comes back as its two-dimensional transform, whatever its shape, *)
(* the kernels, the tiles, the lanes and the threads (eigen_fft.hpp          *)
(* 3177-3215).                                                               *)
THEOREM PlanesAreFourier == PlaneSpec => []PlaneTransformed
<1>1. PlaneInv /\ PlaneData => PlaneTransformed
  BY DataGivesPlane
<1> QED BY <1>1, PlaneDataInvariant, PTL
=============================================================================
