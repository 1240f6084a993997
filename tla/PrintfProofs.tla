---------------------------- MODULE PrintfProofs ----------------------------
(***************************************************************************)
(* Proofs about module Printf, for every size of a word, every format and  *)
(* all arguments: printf stays in its format, and what a printed number    *)
(* reads back as.                                                          *)
(***************************************************************************)
EXTENDS Printf, NaturalsInduction, WellFoundedInduction, TLAPS

(* Induction, and functions defined by recursion on 0..m.                   *)

\* Induction over the natural numbers: the least number without a property
\* has a predecessor with it.
LEMMA Induction ==
    ASSUME NEW T, 0 \in T, \A n \in Nat : n \in T => n + 1 \in T
    PROVE  Nat \subseteq T
<1> SUFFICES ASSUME NEW S, S = {n \in Nat : n \notin T}, S # {} PROVE FALSE
  BY Zenon
<1>1. PICK m \in S : \A n \in S : ~(<<n, m>> \in OpToRel(<, Nat))
  BY WFMin, NatLessThanWellFounded, Zenon
<1>2. m \in Nat /\ m \notin T /\ m # 0 /\ m - 1 \in Nat
  OBVIOUS
<1>3. m - 1 \notin T
  <2>1. m - 1 + 1 = m
    BY <1>2
  <2> QED
    BY <1>2, <2>1
<1>4. m - 1 \in S /\ m - 1 < m
  BY <1>2, <1>3
<1>5. <<m - 1, m>> \in OpToRel(<, Nat)
  BY <1>2, <1>4, Zenon DEF OpToRel
<1> QED
  BY <1>1, <1>4, <1>5, Zenon

\* f begins with a, and F takes each of its values to the next one; all are
\* in S.
Runs(f, m, S, a, F) ==
    /\ f \in [0..m -> S]
    /\ f = [k \in 0..m |-> IF k = 0 THEN a ELSE F[k][f[k - 1]]]

\* There is such a function, when F maps S to itself.
LEMMA RunExists ==
    ASSUME NEW S, NEW a \in S, NEW F \in [Nat -> [S -> S]], NEW m \in Nat
    PROVE  \E f : Runs(f, m, S, a, F)
<1> DEFINE T == {n \in Nat : \E f : Runs(f, n, S, a, F)}
<1>1. 0 \in T
  <2> DEFINE f == [n \in 0..0 |-> a]
  <2>1. f \in [0..0 -> S]
    OBVIOUS
  <2>2. Runs(f, 0, S, a, F)
    BY <2>1 DEF Runs
  <2> QED
    BY <2>1, <2>2, Zenon
<1>2. ASSUME NEW n \in Nat, n \in T PROVE n + 1 \in T
  <2>1. PICK f : Runs(f, n, S, a, F)
    BY <1>2
  <2> DEFINE g == [k \in 0..(n + 1) |-> IF k = n + 1 THEN F[n + 1][f[n]] ELSE f[k]]
  <2>2. g \in [0..(n + 1) -> S]
    <3>1. F[n + 1] \in [S -> S] /\ f[n] \in S
      BY <2>1 DEF Runs
    <3>2. ASSUME NEW k \in 0..(n + 1), k # n + 1 PROVE f[k] \in S
      BY <2>1, <3>2 DEF Runs
    <3> QED
      BY <3>1, <3>2
  <2>3. ASSUME NEW k \in 0..(n + 1)
        PROVE  g[k] = IF k = 0 THEN a ELSE F[k][g[k - 1]]
    <3>1. CASE k = n + 1
      <4>1. k # 0 /\ k - 1 = n /\ n \in 0..(n + 1) /\ n # n + 1
        BY <3>1
      <4> QED
        BY <3>1, <4>1
    <3>2. CASE k = 0
      <4>1. k # n + 1 /\ k \in 0..n
        BY <3>2
      <4> QED
        BY <2>1, <3>2, <4>1 DEF Runs
    <3>3. CASE k # n + 1 /\ k # 0
      <4>1. k \in 0..n /\ k - 1 \in 0..(n + 1) /\ k - 1 # n + 1
        BY <3>3
      <4>2. f[k] = F[k][f[k - 1]]
        BY <2>1, <3>3, <4>1 DEF Runs
      <4> QED
        BY <3>3, <4>1, <4>2
    <3> QED
      BY <3>1, <3>2, <3>3
  <2>4. Runs(g, n + 1, S, a, F)
    <3> HIDE DEF g
    <3>1. g = [k \in 0..(n + 1) |-> g[k]]
      BY <2>2
    <3> QED
      BY <2>2, <2>3, <3>1, Zenon DEF Runs
  <2>5. n + 1 \in Nat
    OBVIOUS
  <2> HIDE DEF g
  <2> QED
    BY <2>4, <2>5, Zenon
<1>3. Nat \subseteq T
  <2> HIDE DEF T
  <2> QED
    BY <1>1, <1>2, Induction, Zenon
<1> QED
  BY <1>3

\* Two of them, of different lengths, agree where both are defined.
LEMMA RunsAgree ==
    ASSUME NEW S, NEW a, NEW F, NEW m \in Nat, NEW n \in Nat, m <= n, NEW f, NEW g,
           Runs(f, m, S, a, F), Runs(g, n, S, a, F), NEW k \in 0..m
    PROVE  f[k] = g[k]
<1> DEFINE T == {i \in Nat : i <= m => f[i] = g[i]}
<1>1. 0 \in T
  <2>1. 0 \in 0..m /\ 0 \in 0..n
    OBVIOUS
  <2> QED
    BY <2>1 DEF Runs
<1>2. ASSUME NEW i \in Nat, i \in T PROVE i + 1 \in T
  <2> SUFFICES ASSUME i + 1 <= m PROVE f[i + 1] = g[i + 1]
    OBVIOUS
  <2>1. i + 1 \in 0..m /\ i + 1 \in 0..n /\ i + 1 # 0 /\ i + 1 - 1 = i /\ i <= m
    OBVIOUS
  <2>2. f[i + 1] = F[i + 1][f[i]] /\ g[i + 1] = F[i + 1][g[i]]
    BY <2>1 DEF Runs
  <2> QED
    BY <1>2, <2>1, <2>2
<1>3. Nat \subseteq T
  <2> HIDE DEF T
  <2> QED
    BY <1>1, <1>2, Induction, Zenon
<1> QED
  BY <1>3

\* c begins with a and goes on by F, as long as it stays in S.
Steps(c, m, S, a, F) ==
    /\ c[0] = a
    /\ \A k \in 1..m : c[k - 1] \in S => c[k] = F[k][c[k - 1]]

\* What follows the same steps is the same function.
LEMMA Follows ==
    ASSUME NEW S, NEW a, NEW F, NEW m \in Nat, NEW f, Runs(f, m, S, a, F),
           NEW c, Steps(c, m, S, a, F), NEW j \in 0..m
    PROVE  c[j] = f[j]
<1> DEFINE T == {i \in Nat : i <= m => c[i] = f[i]}
<1>1. 0 \in T
  <2>1. 0 \in 0..m
    OBVIOUS
  <2> QED
    BY <2>1 DEF Runs, Steps
<1>2. ASSUME NEW i \in Nat, i \in T PROVE i + 1 \in T
  <2> SUFFICES ASSUME i + 1 <= m PROVE c[i + 1] = f[i + 1]
    OBVIOUS
  <2>1. /\ i + 1 \in 0..m /\ i + 1 \in 1..m /\ i + 1 # 0 /\ i + 1 - 1 = i /\ i <= m
        /\ i \in 0..m
    OBVIOUS
  <2>2. f[i + 1] = F[i + 1][f[i]] /\ f[i] \in S
    BY <2>1 DEF Runs
  <2>3. c[i] = f[i]
    BY <1>2, <2>1
  <2> QED
    BY <2>1, <2>2, <2>3 DEF Steps
<1>3. Nat \subseteq T
  <2> HIDE DEF T
  <2> QED
    BY <1>1, <1>2, Induction, Zenon
<1> QED
  BY <1>3

(* Powers of two.                                                           *)

Doubling == [k \in Nat |-> [x \in Nat |-> 2 * x]]

LEMMA TwoToRuns ==
    ASSUME NEW n \in Nat
    PROVE  \E f : Runs(f, n, Nat, 1, Doubling) /\ TwoTo(n) = f[n]
<1> DEFINE Eq(g) == g = [k \in 0..n |-> IF k = 0 THEN 1 ELSE 2 * g[k - 1]]
<1>1. Doubling \in [Nat -> [Nat -> Nat]]
  BY DEF Doubling
<1>2. PICK f : Runs(f, n, Nat, 1, Doubling)
  BY <1>1, RunExists, Zenon
<1>3. Eq(f)
  <2>1. ASSUME NEW k \in 0..n, k # 0 PROVE Doubling[k][f[k - 1]] = 2 * f[k - 1]
    <3>1. k \in Nat /\ f[k - 1] \in Nat
      BY <1>2, <2>1 DEF Runs
    <3> QED
      BY <3>1 DEF Doubling
  <2>2. ASSUME NEW k \in 0..n PROVE f[k] = IF k = 0 THEN 1 ELSE 2 * f[k - 1]
    BY <1>2, <2>1, <2>2 DEF Runs
  <2>3. f = [k \in 0..n |-> f[k]]
    BY <1>2 DEF Runs
  <2> QED
    BY <2>2, <2>3, Zenon
<1>4. PICK c : Eq(c) /\ TwoTo(n) = c[n]
  <2> DEFINE d == CHOOSE g : Eq(g)
  <2>1. Eq(d)
    <3> HIDE DEF Eq
    <3> QED
      BY <1>3, Zenon
  <2>2. TwoTo(n) = d[n]
    BY Zenon DEF TwoTo
  <2> HIDE DEF d
  <2> QED
    BY <2>1, <2>2, Zenon
<1>6. c[0] = 1
  <2>1. 0 \in 0..n
    OBVIOUS
  <2> QED
    BY <1>4, <2>1
<1>7. ASSUME NEW k \in 1..n, c[k - 1] \in Nat PROVE c[k] = Doubling[k][c[k - 1]]
  <2>1. k \in 0..n /\ k # 0 /\ k \in Nat
    OBVIOUS
  <2>2. c[k] = 2 * c[k - 1]
    BY <1>4, <2>1
  <2> QED
    BY <1>7, <2>1, <2>2 DEF Doubling
<1>8. c[n] = f[n]
  <2>1. n \in 0..n
    OBVIOUS
  <2>2. Steps(c, n, Nat, 1, Doubling)
    BY <1>6, <1>7 DEF Steps
  <2> QED
    BY <1>2, <2>1, <2>2, Follows
<1> QED
  BY <1>2, <1>4, <1>8

LEMMA TwoToZero == TwoTo(0) = 1
<1>1. PICK f : Runs(f, 0, Nat, 1, Doubling) /\ TwoTo(0) = f[0]
  BY TwoToRuns
<1> QED
  BY <1>1 DEF Runs

LEMMA TwoToNext ==
    ASSUME NEW n \in Nat
    PROVE  TwoTo(n) \in Nat /\ TwoTo(n + 1) = 2 * TwoTo(n)
<1>1. PICK f : Runs(f, n, Nat, 1, Doubling) /\ TwoTo(n) = f[n]
  BY TwoToRuns
<1>2. n + 1 \in Nat
  OBVIOUS
<1>3. PICK g : Runs(g, n + 1, Nat, 1, Doubling) /\ TwoTo(n + 1) = g[n + 1]
  BY <1>2, TwoToRuns
<1>4. f[n] = g[n]
  BY <1>1, <1>3, RunsAgree
<1>5. g[n + 1] = Doubling[n + 1][g[n]] /\ g[n] \in Nat /\ f[n] \in Nat
  <2>1. n + 1 # 0 /\ n + 1 - 1 = n /\ n + 1 \in 0..(n + 1) /\ n \in 0..(n + 1)
    OBVIOUS
  <2> QED
    BY <1>1, <1>3, <2>1 DEF Runs
<1>6. Doubling[n + 1][g[n]] = 2 * g[n]
  BY <1>5 DEF Doubling
<1> QED
  BY <1>1, <1>3, <1>4, <1>5, <1>6

LEMMA TwoToSum ==
    ASSUME NEW m \in Nat, NEW n \in Nat
    PROVE  TwoTo(m + n) = TwoTo(m) * TwoTo(n)
<1> DEFINE T == {i \in Nat : TwoTo(m + i) = TwoTo(m) * TwoTo(i)}
<1>1. 0 \in T
  <2>1. m + 0 = m /\ TwoTo(m) \in Nat
    BY TwoToNext
  <2> QED
    BY <2>1, TwoToZero
<1>2. ASSUME NEW i \in Nat, i \in T PROVE i + 1 \in T
  <2>1. m + (i + 1) = (m + i) + 1 /\ m + i \in Nat
    OBVIOUS
  <2>2. TwoTo((m + i) + 1) = 2 * TwoTo(m + i) /\ TwoTo(m) \in Nat
    BY <2>1, TwoToNext
  <2>3. TwoTo(i + 1) = 2 * TwoTo(i) /\ TwoTo(i) \in Nat
    BY TwoToNext
  <2>4. TwoTo(m + i) = TwoTo(m) * TwoTo(i)
    BY <1>2
  <2>5. \A x, y \in Nat : 2 * (x * y) = x * (2 * y)
    OBVIOUS
  <2> QED
    BY <2>1, <2>2, <2>3, <2>4, <2>5
<1>3. Nat \subseteq T
  <2> HIDE DEF T
  <2> QED
    BY <1>1, <1>2, Induction, Zenon
<1> QED
  BY <1>3

LEMMA TwoToGrows ==
    ASSUME NEW m \in Nat, NEW n \in Nat, m <= n
    PROVE  TwoTo(m) \in Nat \ {0} /\ TwoTo(n) \in Nat \ {0} /\ TwoTo(m) <= TwoTo(n)
<1>1. \A i \in Nat : TwoTo(i) \in Nat \ {0}
  <2> DEFINE T == {i \in Nat : TwoTo(i) \in Nat \ {0}}
  <2>1. 0 \in T
    BY TwoToZero
  <2>2. ASSUME NEW i \in Nat, i \in T PROVE i + 1 \in T
    <3>1. TwoTo(i + 1) = 2 * TwoTo(i) /\ TwoTo(i) \in Nat \ {0}
      BY <2>2, TwoToNext
    <3> QED
      BY <3>1
  <2>3. Nat \subseteq T
    <3> HIDE DEF T
    <3> QED
      BY <2>1, <2>2, Induction, Zenon
  <2> QED
    BY <2>3
<1>2. PICK d \in Nat : n = m + d
  <2>1. n - m \in Nat /\ n = m + (n - m)
    OBVIOUS
  <2> QED
    BY <2>1
<1>3. TwoTo(n) = TwoTo(m) * TwoTo(d)
  BY <1>2, TwoToSum
<1>4. TwoTo(m) \in Nat \ {0} /\ TwoTo(d) \in Nat \ {0} /\ TwoTo(n) \in Nat \ {0}
  BY <1>1
<1>5. \A x, y \in Nat \ {0} : x <= x * y
  OBVIOUS
<1> QED
  BY <1>3, <1>4, <1>5
(* Division, digit by digit.                                                *)

Dividing(base) == [k \in Nat |-> [x \in Nat |-> x \div base]]

LEMMA LeftRuns ==
    ASSUME NEW n \in Nat, NEW base \in Nat \ {0}, NEW i \in Nat
    PROVE  \E f : Runs(f, i, Nat, n, Dividing(base)) /\ Left(n, base, i) = f[i]
<1> DEFINE Eq(g) == g = [k \in 0..i |-> IF k = 0 THEN n ELSE g[k - 1] \div base]
<1>1. Dividing(base) \in [Nat -> [Nat -> Nat]]
  <2>1. \A x \in Nat : x \div base \in Nat
    OBVIOUS
  <2> QED
    BY <2>1 DEF Dividing
<1>2. PICK f : Runs(f, i, Nat, n, Dividing(base))
  BY <1>1, RunExists, Zenon
<1>3. Eq(f)
  <2>1. ASSUME NEW k \in 0..i, k # 0 PROVE Dividing(base)[k][f[k - 1]] = f[k - 1] \div base
    <3>1. k \in Nat /\ f[k - 1] \in Nat
      BY <1>2, <2>1 DEF Runs
    <3> QED
      BY <3>1 DEF Dividing
  <2>2. ASSUME NEW k \in 0..i PROVE f[k] = IF k = 0 THEN n ELSE f[k - 1] \div base
    BY <1>2, <2>1, <2>2, SMTT(30) DEF Runs
  <2>3. f = [k \in 0..i |-> f[k]]
    BY <1>2 DEF Runs
  <2> QED
    BY <2>2, <2>3, Zenon
<1>4. PICK c : Eq(c) /\ Left(n, base, i) = c[i]
  <2> DEFINE d == CHOOSE g : Eq(g)
  <2>1. Eq(d)
    <3> HIDE DEF Eq
    <3> QED
      BY <1>3, Zenon
  <2>2. Left(n, base, i) = d[i]
    BY Zenon DEF Left
  <2> HIDE DEF d
  <2> QED
    BY <2>1, <2>2, Zenon
<1>5. c[0] = n
  <2>1. 0 \in 0..i
    OBVIOUS
  <2> QED
    BY <1>4, <2>1
<1>6. ASSUME NEW k \in 1..i, c[k - 1] \in Nat PROVE c[k] = Dividing(base)[k][c[k - 1]]
  <2>1. k \in 0..i /\ k # 0 /\ k \in Nat
    OBVIOUS
  <2>2. c[k] = c[k - 1] \div base
    BY <1>4, <2>1
  <2> QED
    BY <1>6, <2>1, <2>2 DEF Dividing
<1>7. c[i] = f[i]
  <2>1. i \in 0..i
    OBVIOUS
  <2>2. Steps(c, i, Nat, n, Dividing(base))
    BY <1>5, <1>6 DEF Steps
  <2> QED
    BY <1>2, <2>1, <2>2, Follows
<1> QED
  BY <1>2, <1>4, <1>7

LEMMA LeftZero ==
    ASSUME NEW n \in Nat, NEW base \in Nat \ {0}
    PROVE  Left(n, base, 0) = n
<1>1. PICK f : Runs(f, 0, Nat, n, Dividing(base)) /\ Left(n, base, 0) = f[0]
  BY LeftRuns
<1> QED
  BY <1>1 DEF Runs

LEMMA LeftNext ==
    ASSUME NEW n \in Nat, NEW base \in Nat \ {0}, NEW i \in Nat
    PROVE  Left(n, base, i) \in Nat /\ Left(n, base, i + 1) = Left(n, base, i) \div base
<1>1. PICK f : Runs(f, i, Nat, n, Dividing(base)) /\ Left(n, base, i) = f[i]
  BY LeftRuns
<1>2. i + 1 \in Nat
  OBVIOUS
<1>3. PICK g : Runs(g, i + 1, Nat, n, Dividing(base)) /\ Left(n, base, i + 1) = g[i + 1]
  BY <1>2, LeftRuns
<1>4. f[i] = g[i]
  BY <1>1, <1>3, RunsAgree
<1>5. g[i + 1] = Dividing(base)[i + 1][g[i]] /\ g[i] \in Nat /\ f[i] \in Nat
  <2>1. i + 1 # 0 /\ i + 1 - 1 = i /\ i + 1 \in 0..(i + 1) /\ i \in 0..(i + 1)
    OBVIOUS
  <2> QED
    BY <1>1, <1>3, <2>1 DEF Runs
<1>6. Dividing(base)[i + 1][g[i]] = g[i] \div base
  BY <1>5 DEF Dividing
<1> QED
  BY <1>1, <1>3, <1>4, <1>5, <1>6

\* What the proofs need to know of division.
LEMMA Division ==
    ASSUME NEW x \in Nat, NEW b \in Nat \ {0}
    PROVE  /\ x \div b \in Nat /\ x % b \in 0..(b - 1)
           /\ x = (x \div b) * b + (x % b)
           /\ x \div b <= x
           /\ x < b => x \div b = 0
OBVIOUS

LEMMA DivisionBound ==
    ASSUME NEW x \in Nat, NEW b \in Nat \ {0}, NEW c \in Nat, x < c * b
    PROVE  x \div b < c
<1>1. x \div b \in Nat /\ (x \div b) * b <= x
  BY Division
<1>2. \A q \in Nat : q >= c => q * b >= c * b
  OBVIOUS
<1> QED
  BY <1>1, <1>2

\* Each digit of w bits or more takes w bits away.
Bits(total, w, i) == IF w * i <= total THEN total - w * i ELSE 0

LEMMA LeftShrinks ==
    ASSUME NEW n \in Nat, NEW total \in Nat, NEW w \in Nat, NEW base \in Nat,
           n < TwoTo(total), TwoTo(w) <= base, NEW i \in Nat
    PROVE  Left(n, base, i) < TwoTo(Bits(total, w, i))
<1>b. base \in Nat \ {0}
  BY TwoToGrows
<1> DEFINE T == {j \in Nat : Left(n, base, j) < TwoTo(Bits(total, w, j))}
<1>1. 0 \in T
  <2>1. Bits(total, w, 0) = total
    BY DEF Bits
  <2> QED
    BY <1>b, <2>1, LeftZero
<1>2. ASSUME NEW j \in Nat, j \in T PROVE j + 1 \in T
  <2> DEFINE q == Left(n, base, j)
             r == Left(n, base, j + 1)
  <2>1. q \in Nat /\ r = q \div base
    BY <1>b, LeftNext, Zenon
  <2>2. q < TwoTo(Bits(total, w, j))
    BY <1>2
  <2>3. w * (j + 1) = w * j + w /\ w * j \in Nat
    OBVIOUS
  <2>4. CASE w * (j + 1) <= total
    <3> DEFINE k == total - w * (j + 1)
    <3>1. Bits(total, w, j + 1) = k /\ Bits(total, w, j) = k + w /\ k \in Nat
      BY <2>3, <2>4 DEF Bits
    <3>2. TwoTo(k + w) = TwoTo(k) * TwoTo(w) /\ TwoTo(k) \in Nat /\ TwoTo(w) \in Nat
      BY <3>1, TwoToSum, TwoToNext
    <3>3. \A x, y, z \in Nat : y <= z => x * y <= x * z
      OBVIOUS
    <3> HIDE DEF k, q, r
    <3>4. q < TwoTo(k) * base
      <4>1. TwoTo(k) * TwoTo(w) <= TwoTo(k) * base
        BY <3>2, <3>3
      <4>2. q < TwoTo(k) * TwoTo(w)
        BY <2>2, <3>1, <3>2
      <4>3. \A x, y \in Nat : x * y \in Nat
        OBVIOUS
      <4> QED
        BY <2>1, <3>2, <4>1, <4>2, <4>3
    <3>5. r < TwoTo(k)
      BY <1>b, <2>1, <3>2, <3>4, DivisionBound
    <3> QED
      BY <3>1, <3>5 DEF r
  <2>5. CASE ~(w * (j + 1) <= total)
    <3>1. Bits(total, w, j + 1) = 0 /\ Bits(total, w, j) \in Nat /\ Bits(total, w, j) <= w
      BY <2>3, <2>5 DEF Bits
    <3>2. TwoTo(Bits(total, w, j)) <= TwoTo(w) /\ TwoTo(w) \in Nat /\ TwoTo(Bits(total, w, j)) \in Nat
      BY <3>1, TwoToGrows
    <3> HIDE DEF q, r
    <3>3. q < base
      BY <2>1, <2>2, <3>2
    <3>4. r = 0
      BY <1>b, <2>1, <3>3, Division, Zenon
    <3> QED
      BY <3>1, <3>4, TwoToZero DEF r
  <2> QED
    BY <2>4, <2>5
<1>3. Nat \subseteq T
  <2> HIDE DEF T
  <2> QED
    BY <1>1, <1>2, Induction, Zenon
<1> QED
  BY <1>3

\* When the digits have as many bits as the word, nothing is left.
LEMMA NothingLeft ==
    ASSUME NEW n \in Nat, NEW total \in Nat, NEW w \in Nat, NEW base \in Nat,
           n < TwoTo(total), TwoTo(w) <= base, NEW i \in Nat, total <= w * i
    PROVE  Left(n, base, i) = 0
<1>1. Left(n, base, i) < TwoTo(Bits(total, w, i))
  BY LeftShrinks
<1>2. Bits(total, w, i) = 0
  <2>1. w * i \in Nat
    OBVIOUS
  <2> QED
    BY <2>1 DEF Bits
<1>3. base \in Nat \ {0}
  BY TwoToGrows
<1>4. Left(n, base, i) \in Nat
  BY <1>3, LeftNext, Zenon
<1> QED
  BY <1>1, <1>2, <1>4, TwoToZero
(* Characters.                                                              *)

LEMMA CharsOfDigits ==
    /\ ToChar(0) = "0" /\ ToChar(1) = "1" /\ ToChar(2) = "2" /\ ToChar(3) = "3"
    /\ ToChar(4) = "4" /\ ToChar(5) = "5" /\ ToChar(6) = "6" /\ ToChar(7) = "7"
    /\ ToChar(8) = "8" /\ ToChar(9) = "9" /\ ToChar(10) = "A" /\ ToChar(11) = "B"
    /\ ToChar(12) = "C" /\ ToChar(13) = "D" /\ ToChar(14) = "E" /\ ToChar(15) = "F"
BY DEF ToChar, DigitChars

HexChars == {ToChar(d) : d \in 0..15}

\* A digit reads back from its character.
LEMMA DigitOfChar ==
    ASSUME NEW d \in 0..15
    PROVE  ToChar(d) \in HexChars /\ DigitOf(ToChar(d)) = d
<1>1. \A i, j \in 0..15 : ToChar(i) = ToChar(j) => i = j
  BY CharsOfDigits
<1>2. ToChar(d) \in HexChars
  BY Zenon DEF HexChars
<1>3. \A i \in 0..15 : ToChar(i) = ToChar(d) <=> i = d
  BY <1>1
<1> QED
  BY <1>2, <1>3 DEF DigitOf

\* atoi takes no decimal digit for a blank or a sign.
LEMMA DecimalChar ==
    ASSUME NEW d \in 0..9
    PROVE  ToChar(d) \in Decimal /\ ToChar(d) \notin Whitespace /\ ToChar(d) \notin {"-", "+"}
<1>1. ToChar(d) \in {"0", "1", "2", "3", "4", "5", "6", "7", "8", "9"}
  <2>1. d = 0 \/ d = 1 \/ d = 2 \/ d = 3 \/ d = 4 \/ d = 5 \/ d = 6 \/ d = 7 \/ d = 8 \/ d = 9
    OBVIOUS
  <2> QED
    BY <2>1, CharsOfDigits, ZenonT(30)
<1>2. ToChar(d) \notin Whitespace
  BY <1>1, Zenon DEF Whitespace
<1>3. ToChar(d) \notin {"-", "+"}
  BY <1>1, Zenon
<1> QED
  BY <1>2, <1>3, Zenon DEF Decimal

-----------------------------------------------------------------------------
(* The printers write numerals.                                             *)

\* text is n in the base, with nothing left over.
IsNumeral(text, n, base) ==
    /\ text \in Seq(HexChars) /\ Len(text) > 0
    /\ \A k \in 1..Len(text) : text[k] = ToChar(Left(n, base, Len(text) - k) % base)
    /\ Left(n, base, Len(text)) = 0

LEMMA CountOfDigits ==
    ASSUME NEW n \in Nat \ {0}, NEW base \in Nat \ {0}, NEW limit \in Nat,
           Left(n, base, limit) = 0
    PROVE  Count(n, base, limit) \in Nat \ {0} /\ Left(n, base, Count(n, base, limit)) = 0
<1> DEFINE Good(i) == /\ Left(n, base, i) = 0 \/ i = limit
                      /\ \A j \in 0..(i - 1) : Left(n, base, j) # 0
           S == {i \in Nat : Left(n, base, i) = 0}
<1>1. limit \in S
  OBVIOUS
<1>2. PICK m \in S : \A i \in S : ~(<<i, m>> \in OpToRel(<, Nat))
  <2>1. S \subseteq Nat /\ S # {}
    BY <1>1
  <2> HIDE DEF S
  <2> QED
    BY <2>1, WFMin, NatLessThanWellFounded, Zenon
<1>3. m \in Nat /\ Left(n, base, m) = 0
  OBVIOUS
<1>4. \A i \in S : ~(i < m)
  <2>1. ASSUME NEW i \in S, i < m PROVE <<i, m>> \in OpToRel(<, Nat)
    <3>1. i \in Nat
      OBVIOUS
    <3> HIDE DEF S
    <3> QED
      BY <1>3, <2>1, <3>1, Zenon DEF OpToRel
  <2> HIDE DEF S
  <2> QED
    BY <1>2, <2>1, Zenon
<1>5. m \in 0..limit
  BY <1>1, <1>3, <1>4
<1>6. Good(m)
  BY <1>3, <1>4
<1>7. PICK c \in 0..limit : Good(c) /\ c = Count(n, base, limit)
  <2> HIDE DEF Good
  <2>1. (CHOOSE i \in 0..limit : Good(i)) \in 0..limit /\ Good(CHOOSE i \in 0..limit : Good(i))
    BY <1>5, <1>6, Zenon
  <2>2. Count(n, base, limit) = CHOOSE i \in 0..limit : Good(i)
    BY Zenon DEF Count, Good
  <2> QED
    BY <2>1, <2>2, Zenon
<1>8. c # 0
  BY <1>7, LeftZero
<1> QED
  BY <1>7, <1>8

\* What is printed of a number other than 0 are as many of its digits as the
\* loop has counted, the lowest last.
LEMMA PrintedDigits ==
    ASSUME NEW n \in Nat \ {0}, NEW base \in 2..16, NEW limit \in Nat,
           Count(n, base, limit) \in Nat \ {0}
    PROVE  LET m == Count(n, base, limit)
               t == Printed(n, base, limit)
           IN  /\ t \in Seq(HexChars) /\ Len(t) = m
               /\ \A k \in 1..m : t[k] = ToChar(Left(n, base, m - k) % base)
<1>b. base \in Nat \ {0} /\ base \in Nat /\ base <= 16
  OBVIOUS
<1> DEFINE m == Count(n, base, limit)
           lo == Loop(n, base, limit)
           t == Printed(n, base, limit)
<1>1. m \in Nat \ {0}
  OBVIOUS
<1> HIDE DEF m
<1>2. \A i \in 1..m : Left(n, base, i - 1) % base \in 0..15
  <2> SUFFICES ASSUME NEW i \in 1..m PROVE Left(n, base, i - 1) % base \in 0..15
    OBVIOUS
  <2>1. i - 1 \in Nat
    BY <1>1
  <2>2. Left(n, base, i - 1) \in Nat
    BY <1>b, <2>1, LeftNext, Zenon
  <2>3. Left(n, base, i - 1) % base \in 0..(base - 1)
    BY <1>b, <2>2, Division, Zenon
  <2> QED
    BY <1>b, <2>3
<1>3. lo = [i \in 1..m |-> ToChar(Left(n, base, i - 1) % base)]
  BY DEF Loop, m
<1>4. lo \in Seq(HexChars) /\ Len(lo) = m
  <2>1. \A i \in 1..m : ToChar(Left(n, base, i - 1) % base) \in HexChars
    BY <1>2, DigitOfChar
  <2> HIDE DEF lo
  <2> QED
    BY <1>1, <1>3, <2>1
<1>5. t = [i \in 1..m |-> lo[(m - i) + 1]]
  <2>1. t = [i \in 1..Len(lo) |-> lo[Len(lo) - i + 1]]
    BY Zenon DEF Printed
  <2> HIDE DEF lo, t
  <2> QED
    BY <1>4, <2>1, Zenon
<1> HIDE DEF lo, t
<1>6. \A k \in 1..m : t[k] = ToChar(Left(n, base, m - k) % base) /\ t[k] \in HexChars
  <2> SUFFICES ASSUME NEW k \in 1..m
               PROVE  t[k] = ToChar(Left(n, base, m - k) % base) /\ t[k] \in HexChars
    OBVIOUS
  <2>1. (m - k) + 1 \in 1..m /\ (m - k) + 1 - 1 = m - k
    BY <1>1
  <2>2. t[k] = lo[(m - k) + 1]
    BY <1>5
  <2>3. lo[(m - k) + 1] = ToChar(Left(n, base, m - k) % base)
    <3>1. PICK i \in 1..m : i = (m - k) + 1 /\ i - 1 = m - k
      BY <1>1, <2>1
    <3>2. lo[i] = ToChar(Left(n, base, i - 1) % base)
      BY <1>3
    <3> QED
      BY <3>1, <3>2, Zenon
  <2>4. lo[(m - k) + 1] \in HexChars
    BY <1>4, <2>1
  <2> QED
    BY <2>2, <2>3, <2>4
<1>7. t \in Seq(HexChars) /\ Len(t) = m
  BY <1>1, <1>5, <1>6
<1> QED
  BY <1>6, <1>7, Zenon DEF m, t

LEMMA PrintedNumeral ==
    ASSUME NEW n \in Nat, NEW base \in 2..16, NEW limit \in Nat,
           Left(n, base, limit) = 0
    PROVE  IsNumeral(Printed(n, base, limit), n, base)
<1>b. base \in Nat \ {0} /\ base \in Nat /\ base <= 16
  OBVIOUS
<1>1. CASE n = 0
  <2> DEFINE t == <<"0">>
  <2>1. Printed(n, base, limit) = t
    BY <1>1, Zenon DEF Printed
  <2>2. t \in Seq(HexChars) /\ Len(t) = 1 /\ t[1] = ToChar(0)
    <3>1. "0" = ToChar(0) /\ ToChar(0) \in HexChars
      BY CharsOfDigits, DigitOfChar
    <3> QED
      BY <3>1
  <2>3. Left(n, base, 0) = 0
    BY <1>1, <1>b, LeftZero
  <2>4. Left(n, base, 1) = 0
    <3>1. Left(n, base, 0 + 1) = Left(n, base, 0) \div base
      BY <1>b, LeftNext
    <3>2. 0 \div base = 0
      BY <1>b, Division
    <3> QED
      BY <2>3, <3>1, <3>2
  <2>5. 0 % base = 0
    BY <1>b
  <2> HIDE DEF t
  <2>6. \A k \in 1..Len(t) : t[k] = ToChar(Left(n, base, Len(t) - k) % base)
    <3> SUFFICES ASSUME NEW k \in 1..Len(t) PROVE t[k] = ToChar(Left(n, base, Len(t) - k) % base)
      OBVIOUS
    <3>1. k = 1 /\ Len(t) - k = 0
      BY <2>2
    <3> QED
      BY <2>2, <2>3, <2>5, <3>1
  <2> QED
    BY <2>1, <2>2, <2>4, <2>6 DEF IsNumeral
<1>2. CASE n # 0
  <2> DEFINE m == Count(n, base, limit)
             t == Printed(n, base, limit)
  <2>1. m \in Nat \ {0} /\ Left(n, base, m) = 0
    BY <1>b, <1>2, CountOfDigits
  <2> HIDE DEF m
  <2>2. t \in Seq(HexChars) /\ Len(t) = m /\ \A k \in 1..m : t[k] = ToChar(Left(n, base, m - k) % base)
    BY <1>2, <2>1, PrintedDigits, Zenon DEF m
  <2> HIDE DEF t
  <2> QED
    BY <2>1, <2>2 DEF IsNumeral, t
<1> QED
  BY <1>1, <1>2

LEMMA FixedNumeral ==
    ASSUME NEW n \in Nat, NEW digits \in Nat \ {0}, Left(n, 16, digits) = 0
    PROVE  IsNumeral(Fixed(n, digits), n, 16)
<1> DEFINE t == Fixed(n, digits)
<1>1. t = [k \in 1..digits |-> ToChar(Left(n, 16, digits - k) % 16)]
  BY DEF Fixed
<1> HIDE DEF t
<1>2. \A k \in 1..digits : ToChar(Left(n, 16, digits - k) % 16) \in HexChars
  <2> SUFFICES ASSUME NEW k \in 1..digits PROVE ToChar(Left(n, 16, digits - k) % 16) \in HexChars
    OBVIOUS
  <2>1. digits - k \in Nat
    OBVIOUS
  <2>2. Left(n, 16, digits - k) \in Nat
    <3>1. 16 \in Nat \ {0}
      OBVIOUS
    <3> QED
      BY <2>1, <3>1, LeftNext, Zenon
  <2>3. Left(n, 16, digits - k) % 16 \in 0..15
    BY <2>2
  <2> QED
    BY <2>3, DigitOfChar
<1>3. t \in Seq(HexChars) /\ Len(t) = digits
  BY <1>1, <1>2
<1> QED
  BY <1>1, <1>3 DEF IsNumeral, t
-----------------------------------------------------------------------------
(* Numerals read back.                                                      *)

\* The digits of a numeral, and what they are the rest of.
LEMMA NumeralDigits ==
    ASSUME NEW text, NEW n \in Nat, NEW base \in 2..16, IsNumeral(text, n, base),
           NEW k \in 1..Len(text)
    PROVE  LET q == Left(n, base, Len(text) - k)
           IN  /\ Len(text) \in Nat /\ q \in Nat
               /\ q % base \in 0..(base - 1) /\ text[k] = ToChar(q % base)
               /\ DigitOf(text[k]) = q % base /\ DigitOf(text[k]) \in Int
               /\ q = Left(n, base, Len(text) - (k - 1)) * base + DigitOf(text[k])
<1>b. base \in Nat \ {0} /\ base \in Nat /\ base <= 16
  OBVIOUS
<1> DEFINE i == Len(text) - k
           q == Left(n, base, i)
<1>1. Len(text) \in Nat /\ i \in Nat /\ Len(text) - (k - 1) = i + 1
  BY DEF IsNumeral
<1>2. text[k] = ToChar(q % base)
  BY DEF IsNumeral
<1> HIDE DEF i
<1>3. q \in Nat /\ Left(n, base, i + 1) = q \div base
  BY <1>b, <1>1, LeftNext, Zenon
<1> HIDE DEF q
<1>4. q % base \in 0..(base - 1) /\ q = (q \div base) * base + (q % base)
  BY <1>b, <1>3, Division, Zenon
<1>5. q % base \in 0..15
  <2>1. \A x \in 0..(base - 1) : x \in 0..15 /\ x \in Nat
    BY <1>b
  <2> QED
    BY <1>4, <2>1, Zenon
<1>6. DigitOf(text[k]) = q % base
  BY <1>2, <1>5, DigitOfChar, SMTT(30)
<1>7. DigitOf(text[k]) \in Int
  BY <1>5, <1>6, SMTT(30)
<1> QED
  BY <1>1, <1>2, <1>3, <1>4, <1>6, <1>7, Zenon DEF i, q

\* Reading another digit of text.
Reading(text, base) ==
    [k \in Nat |-> [x \in Int |-> IF k \in 1..Len(text) THEN x * base + DigitOf(text[k]) ELSE x]]

\* What is read after k digits is what is left when the others are taken away.
LEMMA ReadRest ==
    ASSUME NEW text, NEW n \in Nat, NEW base \in 2..16, IsNumeral(text, n, base),
           NEW f, Runs(f, Len(text), Int, 0, Reading(text, base)), NEW k \in 0..Len(text)
    PROVE  f[k] = Left(n, base, Len(text) - k)
<1> DEFINE T == {i \in Nat : i <= Len(text) => f[i] = Left(n, base, Len(text) - i)}
<1>0. Len(text) \in Nat
  BY DEF IsNumeral
<1>1. 0 \in T
  <2>1. 0 \in 0..Len(text) /\ Len(text) - 0 = Len(text)
    BY <1>0
  <2>2. f[0] = 0
    BY <2>1 DEF Runs
  <2>3. Left(n, base, Len(text)) = 0
    BY DEF IsNumeral
  <2> QED
    BY <2>1, <2>2, <2>3
<1>2. ASSUME NEW i \in Nat, i \in T PROVE i + 1 \in T
  <2> SUFFICES ASSUME i + 1 <= Len(text) PROVE f[i + 1] = Left(n, base, Len(text) - (i + 1))
    OBVIOUS
  <2>1. /\ i + 1 \in 1..Len(text) /\ i + 1 \in 0..Len(text) /\ i + 1 # 0 /\ (i + 1) - 1 = i
        /\ i \in 0..Len(text) /\ i <= Len(text) /\ i + 1 \in Nat
    BY <1>0
  <2>2. f[i + 1] = Reading(text, base)[i + 1][f[i]] /\ f[i] \in Int
    BY <2>1, Zenon DEF Runs
  <2>3. Reading(text, base)[i + 1][f[i]] = f[i] * base + DigitOf(text[i + 1])
    BY <2>1, <2>2 DEF Reading
  <2>4. f[i] = Left(n, base, Len(text) - i)
    BY <1>2, <2>1
  <2>5. Left(n, base, Len(text) - (i + 1))
            = Left(n, base, Len(text) - ((i + 1) - 1)) * base + DigitOf(text[i + 1])
    BY <2>1, NumeralDigits, Zenon
  <2> QED
    BY <2>1, <2>2, <2>3, <2>4, <2>5
<1>3. Nat \subseteq T
  <2> HIDE DEF T
  <2> QED
    BY <1>1, <1>2, Induction, Zenon
<1> QED
  BY <1>0, <1>3

LEMMA ReadingRuns ==
    ASSUME NEW text, NEW n \in Nat, NEW base \in 2..16, IsNumeral(text, n, base)
    PROVE  \E f : Runs(f, Len(text), Int, 0, Reading(text, base))
<1>1. \A k \in 1..Len(text) : DigitOf(text[k]) \in Int
  BY NumeralDigits, Zenon
<1>2. Reading(text, base) \in [Nat -> [Int -> Int]]
  <2>1. \A x \in Int : x * base \in Int
    OBVIOUS
  <2> QED
    BY <1>1, <2>1 DEF Reading
<1>3. Len(text) \in Nat /\ 0 \in Int
  BY DEF IsNumeral
<1> QED
  BY <1>2, <1>3, RunExists, Zenon

\* A numeral means its number.
LEMMA ValueOfNumeral ==
    ASSUME NEW text, NEW n \in Nat, NEW base \in 2..16, IsNumeral(text, n, base)
    PROVE  Value(text, base) = n
<1> DEFINE m == Len(text)
           F == Reading(text, base)
           Eq(g) == g = [k \in 0..m |-> IF k = 0 THEN 0 ELSE g[k - 1] * base + DigitOf(text[k])]
<1>0. m \in Nat /\ m \in 0..m /\ 0 \in 0..m /\ m - m = 0
  BY DEF IsNumeral
<1>1. PICK f : Runs(f, m, Int, 0, F)
  BY ReadingRuns
<1>2. ASSUME NEW k \in 1..m, NEW x \in Int
      PROVE  F[k][x] = x * base + DigitOf(text[k])
  BY <1>0 DEF Reading
<1> HIDE DEF F
<1>3. Eq(f)
  <2>1. ASSUME NEW k \in 0..m
        PROVE  f[k] = IF k = 0 THEN 0 ELSE f[k - 1] * base + DigitOf(text[k])
    <3>1. CASE k = 0
      BY <1>1, <3>1 DEF Runs
    <3>2. CASE k # 0
      <4>1. k \in 1..m /\ f[k - 1] \in Int
        <5>1. f \in [0..m -> Int]
          BY <1>1, Zenon DEF Runs
        <5>2. k \in 1..m /\ k - 1 \in 0..m
          BY <1>0, <3>2
        <5> QED
          BY <5>1, <5>2, Zenon
      <4>2. f[k] = F[k][f[k - 1]]
        BY <1>1, <3>2, Zenon DEF Runs
      <4> QED
        BY <1>2, <3>2, <4>1, <4>2, Zenon
    <3> QED
      BY <3>1, <3>2
  <2>2. f = [k \in 0..m |-> f[k]]
    BY <1>1 DEF Runs
  <2> QED
    BY <2>1, <2>2, Zenon
<1>4. PICK c : Eq(c) /\ Value(text, base) = c[m]
  <2> DEFINE d == CHOOSE g : Eq(g)
  <2>1. Eq(d)
    <3> HIDE DEF Eq
    <3> QED
      BY <1>3, Zenon
  <2>2. Value(text, base) = d[m]
    BY Zenon DEF Value
  <2> HIDE DEF d
  <2> QED
    BY <2>1, <2>2, Zenon
<1>5. Steps(c, m, Int, 0, F)
  <2>1. c[0] = 0
    BY <1>0, <1>4
  <2>2. ASSUME NEW k \in 1..m, c[k - 1] \in Int PROVE c[k] = F[k][c[k - 1]]
    <3>1. k \in 0..m /\ k # 0
      BY <1>0
    <3>2. c[k] = c[k - 1] * base + DigitOf(text[k])
      BY <1>4, <3>1, SMTT(30)
    <3> QED
      BY <1>2, <2>2, <3>2, Zenon
  <2> QED
    BY <2>1, <2>2 DEF Steps
<1>6. c[m] = f[m]
  BY <1>0, <1>1, <1>5, Follows
<1>7. f[m] = Left(n, base, m - m)
  BY <1>0, <1>1, ReadRest DEF F
<1>8. Left(n, base, 0) = n
  BY LeftZero
<1> QED
  BY <1>0, <1>4, <1>6, <1>7, <1>8

\* No rest is larger than the number.
LEMMA LeftAtMost ==
    ASSUME NEW n \in Nat, NEW base \in Nat \ {0}, NEW i \in Nat
    PROVE  Left(n, base, i) \in 0..n
<1> DEFINE T == {j \in Nat : Left(n, base, j) \in 0..n}
<1>1. 0 \in T
  BY LeftZero
<1>2. ASSUME NEW j \in Nat, j \in T PROVE j + 1 \in T
  <2>1. Left(n, base, j) \in Nat /\ Left(n, base, j + 1) = Left(n, base, j) \div base
    BY LeftNext
  <2>2. Left(n, base, j) \div base \in Nat /\ Left(n, base, j) \div base <= Left(n, base, j)
    BY <2>1, Division, Zenon
  <2>3. Left(n, base, j) <= n
    BY <1>2
  <2> QED
    BY <2>1, <2>2, <2>3
<1>3. Nat \subseteq T
  <2> HIDE DEF T
  <2> QED
    BY <1>1, <1>2, Induction, Zenon
<1> QED
  BY <1>3

\* An int holds what fits it.
LEMMA ToIntFits ==
    ASSUME NEW x \in Nat, x < TwoTo(IntBits - 1)
    PROVE  ToInt(x) = x
<1>1. IntBits - 1 \in Nat /\ IntBits \in Nat /\ IntBits - 1 <= IntBits
  BY WordsWhole
<1>2. TwoTo(IntBits - 1) \in Nat /\ TwoTo(IntBits) \in Nat \ {0} /\ TwoTo(IntBits - 1) <= TwoTo(IntBits)
  BY <1>1, TwoToGrows
<1>3. x < TwoTo(IntBits)
  BY <1>2
<1>4. x \div TwoTo(IntBits) = 0 /\ x = (x \div TwoTo(IntBits)) * TwoTo(IntBits) + (x % TwoTo(IntBits))
  BY <1>2, <1>3, Division
<1>5. x % TwoTo(IntBits) = x
  BY <1>2, <1>4, Division
<1> QED
  BY <1>5 DEF ToInt

\* The same as Reading, in an int.
Scanning(text) ==
    [k \in Nat |-> [x \in Int |-> ToInt(x * 10 + DigitOf(text[k]))]]

\* The loop of atoi reads a numeral that fits an int.
LEMMA ReadDigitsOfNumeral ==
    ASSUME NEW text, NEW n \in Nat, IsNumeral(text, n, 10), n < TwoTo(IntBits - 1)
    PROVE  ReadDigits(text) = n
<1> DEFINE m == Len(text)
           R == Reading(text, 10)
           F == Scanning(text)
           Eq(g) == g = [k \in 0..m |->
                            IF k = 0 THEN 0 ELSE ToInt(g[k - 1] * 10 + DigitOf(text[k]))]
<1>0. m \in Nat /\ m \in 0..m /\ 0 \in 0..m /\ m - m = 0 /\ 10 \in 2..16 /\ 10 \in Nat \ {0}
  BY DEF IsNumeral
<1>1. PICK f : Runs(f, m, Int, 0, R)
  BY <1>0, ReadingRuns
<1>2. ASSUME NEW k \in 0..m PROVE f[k] \in 0..n /\ f[k] \in Int /\ ToInt(f[k]) = f[k]
  <2>1. f[k] = Left(n, 10, m - k)
    BY <1>0, <1>1, ReadRest
  <2>2. m - k \in Nat
    BY <1>0
  <2>3. f[k] \in 0..n
    BY <1>0, <2>1, <2>2, LeftAtMost
  <2>4. TwoTo(IntBits - 1) \in Nat
    BY WordsWhole, TwoToNext
  <2>5. f[k] \in Nat /\ f[k] < TwoTo(IntBits - 1)
    BY <2>3, <2>4
  <2> QED
    BY <2>3, <2>5, ToIntFits
<1>3. ASSUME NEW k \in 1..m PROVE f[k] = ToInt(f[k - 1] * 10 + DigitOf(text[k]))
  <2>1. k \in 0..m /\ k - 1 \in 0..m /\ k # 0 /\ k \in Nat
    BY <1>0
  <2>2. f[k] = R[k][f[k - 1]]
    BY <1>1, <2>1, Zenon DEF Runs
  <2>3. R[k][f[k - 1]] = f[k - 1] * 10 + DigitOf(text[k])
    BY <1>2, <2>1, Zenon DEF Reading
  <2> QED
    BY <1>2, <2>1, <2>2, <2>3
<1>4. ASSUME NEW k \in 1..m, NEW x \in Int
      PROVE  F[k][x] = ToInt(x * 10 + DigitOf(text[k]))
  <2>1. k \in Nat
    BY <1>0
  <2> QED
    BY <2>1 DEF Scanning
<1> HIDE DEF F, R
<1>5. f \in [0..m -> Int] /\ f[0] = 0
  BY <1>0, <1>1 DEF Runs
<1>6. Eq(f)
  <2>1. ASSUME NEW k \in 0..m
        PROVE  f[k] = IF k = 0 THEN 0 ELSE ToInt(f[k - 1] * 10 + DigitOf(text[k]))
    <3>1. k = 0 \/ k \in 1..m
      BY <1>0
    <3> QED
      BY <1>0, <1>3, <1>5, <3>1
  <2>2. f = [k \in 0..m |-> f[k]]
    BY <1>5
  <2> QED
    BY <2>1, <2>2, Zenon
<1>7. Runs(f, m, Int, 0, F)
  <2>1. ASSUME NEW k \in 0..m PROVE f[k] = IF k = 0 THEN 0 ELSE F[k][f[k - 1]]
    <3>1. CASE k = 0
      BY <1>5, <3>1
    <3>2. CASE k \in 1..m
      <4>1. f[k - 1] \in Int /\ k # 0
        BY <1>0, <1>2, <3>2
      <4> QED
        BY <1>3, <1>4, <3>2, <4>1, Zenon
    <3> QED
      BY <1>0, <3>1, <3>2
  <2>2. f = [k \in 0..m |-> f[k]]
    BY <1>5
  <2> QED
    BY <1>5, <2>1, <2>2, Zenon DEF Runs
<1>8. PICK c : Eq(c) /\ ReadDigits(text) = c[m]
  <2> DEFINE d == CHOOSE g : Eq(g)
  <2>1. Eq(d)
    <3> HIDE DEF Eq
    <3> QED
      BY <1>6, Zenon
  <2>2. ReadDigits(text) = d[m]
    BY Zenon DEF ReadDigits
  <2> HIDE DEF d
  <2> QED
    BY <2>1, <2>2, Zenon
<1>9. Steps(c, m, Int, 0, F)
  <2>1. c[0] = 0
    BY <1>0, <1>8
  <2>2. ASSUME NEW k \in 1..m, c[k - 1] \in Int PROVE c[k] = F[k][c[k - 1]]
    <3>1. k \in 0..m /\ k # 0
      BY <1>0
    <3>2. c[k] = ToInt(c[k - 1] * 10 + DigitOf(text[k]))
      BY <1>8, <3>1, SMTT(30)
    <3> QED
      BY <1>4, <2>2, <3>2, Zenon
  <2> QED
    BY <2>1, <2>2 DEF Steps
<1>10. c[m] = f[m]
  BY <1>0, <1>7, <1>9, Follows
<1>11. f[m] = Left(n, 10, m - m)
  BY <1>0, <1>1, ReadRest DEF R
<1>12. Left(n, 10, 0) = n
  BY <1>0, LeftZero
<1> QED
  BY <1>0, <1>8, <1>10, <1>11, <1>12

\* atoi reads it as well: it finds no blank, no sign and only digits.
LEMMA AtoiOfNumeral ==
    ASSUME NEW text, NEW n \in Nat, IsNumeral(text, n, 10), n < TwoTo(IntBits - 1)
    PROVE  atoi(text) = n
<1> DEFINE m == Len(text)
<1>0. text \in Seq(HexChars) /\ m \in Nat /\ m > 0 /\ 10 \in 2..16
  BY DEF IsNumeral
<1>1. ASSUME NEW k \in 1..m
      PROVE  text[k] \in Decimal /\ text[k] \notin Whitespace /\ text[k] \notin {"-", "+"}
  <2> DEFINE d == Left(n, 10, m - k) % 10
  <2>1. d \in 0..(10 - 1) /\ text[k] = ToChar(d)
    BY <1>0, NumeralDigits
  <2> HIDE DEF d
  <2>2. d \in 0..9
    BY <2>1
  <2> QED
    BY <2>1, <2>2, DecimalChar, Zenon
<1>2. SkipWhile(text, Whitespace) = 1
  <2> DEFINE P(i) == /\ i <= m => text[i] \notin Whitespace
                     /\ \A j \in 1..(i - 1) : text[j] \in Whitespace
  <2>1. ASSUME NEW i \in 1..(m + 1) PROVE P(i) <=> i = 1
    <3>1. 1 \in 1..m
      BY <1>0
    <3>2. text[1] \notin Whitespace
      BY <1>1, <3>1
    <3>3. CASE i = 1
      BY <3>2, <3>3
    <3>4. CASE i # 1
      <4>1. 1 \in 1..(i - 1)
        BY <1>0, <3>4
      <4> QED
        BY <3>2, <3>4, <4>1
    <3> QED
      BY <3>3, <3>4
  <2>2. 1 \in 1..(m + 1)
    BY <1>0
  <2>3. SkipWhile(text, Whitespace) = CHOOSE i \in 1..(m + 1) : P(i)
    BY Zenon DEF SkipWhile
  <2> HIDE DEF P
  <2> QED
    BY <2>1, <2>2, <2>3
<1>3. SkipWhile(text, Decimal) = m + 1
  <2> DEFINE P(i) == /\ i <= m => text[i] \notin Decimal
                     /\ \A j \in 1..(i - 1) : text[j] \in Decimal
  <2>1. ASSUME NEW i \in 1..(m + 1) PROVE P(i) <=> i = m + 1
    <3>1. CASE i = m + 1
      BY <1>0, <1>1, <3>1
    <3>2. CASE i # m + 1
      <4>1. i \in 1..m /\ i <= m
        BY <1>0, <3>2
      <4> QED
        BY <1>1, <3>2, <4>1
    <3> QED
      BY <3>1, <3>2
  <2>2. m + 1 \in 1..(m + 1)
    BY <1>0
  <2>3. SkipWhile(text, Decimal) = CHOOSE i \in 1..(m + 1) : P(i)
    BY Zenon DEF SkipWhile
  <2> HIDE DEF P
  <2> QED
    BY <2>1, <2>2, <2>3
<1>4. SubSeq(text, 1, m) = text
  BY <1>0
<1>5. text # <<>> /\ Head(text) = text[1] /\ 1 \in 1..m
  BY <1>0
<1>6. Head(text) \notin {"-", "+"}
  BY <1>1, <1>5
<1>7. SubSeq(text, 1, (m + 1) - 1) = text
  <2>1. (m + 1) - 1 = m
    BY <1>0
  <2> QED
    BY <1>4, <2>1
<1>8. ReadDigits(text) = n
  BY ReadDigitsOfNumeral
<1> HIDE DEF m
<1> QED
  BY <1>2, <1>3, <1>4, <1>6, <1>7, <1>8, Zenon DEF atoi, m
-----------------------------------------------------------------------------
(* The printers: no limit of a loop cuts off a digit.                       *)

LEMMA SmallPowers == TwoTo(1) = 2 /\ TwoTo(3) = 8 /\ TwoTo(4) = 16
<1>1. TwoTo(0 + 1) = 2 * TwoTo(0)
  BY TwoToNext
<1>2. TwoTo(1 + 1) = 2 * TwoTo(1)
  BY TwoToNext
<1>3. TwoTo(2 + 1) = 2 * TwoTo(2)
  BY TwoToNext
<1>4. TwoTo(3 + 1) = 2 * TwoTo(3)
  BY TwoToNext
<1>5. 0 + 1 = 1 /\ 1 + 1 = 2 /\ 2 + 1 = 3 /\ 3 + 1 = 4
  OBVIOUS
<1> QED
  BY <1>1, <1>2, <1>3, <1>4, <1>5, TwoToZero

\* The limits of the loops, in digits, and the bits they have to hold.
LEMMA Limits ==
    /\ LongBits \in Nat /\ LongBits - 1 \in Nat /\ LongBits <= 3 * LongBits
    /\ DigitLimit \in Nat /\ LongBits <= 3 * DigitLimit
    /\ LongBits \div 4 + 2 \in Nat \ {0} /\ LongBits <= 4 * (LongBits \div 4 + 2)
    /\ IntBits \in Nat /\ IntBits \div 4 \in Nat \ {0} /\ IntBits <= 4 * (IntBits \div 4)
BY WordsWhole DEF DigitLimit

LEMMA WordSizes ==
    /\ TwoTo(IntBits) \in Nat \ {0} /\ TwoTo(LongBits) \in Nat \ {0}
    /\ TwoTo(IntBits) <= TwoTo(LongBits)
    /\ TwoTo(LongBits - 1) \in Nat /\ TwoTo(IntBits - 1) \in Nat
<1>1. IntBits \in Nat /\ LongBits \in Nat /\ IntBits <= LongBits /\ LongBits - 1 \in Nat /\ IntBits - 1 \in Nat
  BY WordsWhole
<1> QED
  BY <1>1, TwoToGrows, TwoToNext

\* The words a printer can be called with.
TakesWord(p, w) == p \in Printers /\ w \in Longs /\ (p = "serial_write_hex" => w \in Ints)

\* Every printer writes a numeral of its base.
LEMMA PrintersWriteNumerals ==
    ASSUME NEW p, NEW n, TakesWord(p, n), ~(p = "print_binary" /\ n >= TwoTo(LongBits - 1))
    PROVE  n \in Nat /\ Base(p) \in 2..16 /\ IsNumeral(Text(p, n), n, Base(p))
<1>n. n \in Nat /\ n < TwoTo(LongBits)
  BY WordSizes DEF TakesWord, Longs
<1>1. CASE p = "print_uint"
  <2>1. Text(p, n) = Printed(n, 10, DigitLimit) /\ Base(p) = 10
    BY <1>1, Zenon DEF Text, Base, print_uint
  <2>2. Left(n, 10, DigitLimit) = 0
    <3>1. TwoTo(3) <= 10 /\ 10 \in Nat /\ 3 \in Nat
      BY SmallPowers
    <3> QED
      BY <1>n, <3>1, Limits, NothingLeft
  <2> QED
    BY <1>n, <2>1, <2>2, Limits, PrintedNumeral
<1>2. CASE p = "print_int" \/ p = "serial_write_int"
  <2>1. Text(p, n) = Printed(n, 10, LongBits) /\ Base(p) = 10
    BY <1>2, Zenon DEF Text, Base, print_int, serial_write_int
  <2>2. Left(n, 10, LongBits) = 0
    <3>1. TwoTo(3) <= 10 /\ 10 \in Nat /\ 3 \in Nat
      BY SmallPowers
    <3> QED
      BY <1>n, <3>1, Limits, NothingLeft
  <2> QED
    BY <1>n, <2>1, <2>2, Limits, PrintedNumeral
<1>3. CASE p = "print_hex"
  <2>1. Text(p, n) = Fixed(n, LongBits \div 4 + 2) /\ Base(p) = 16
    BY <1>3, Zenon DEF Text, Base, print_hex
  <2>2. Left(n, 16, LongBits \div 4 + 2) = 0
    <3>1. TwoTo(4) <= 16 /\ 16 \in Nat /\ 4 \in Nat
      BY SmallPowers
    <3> QED
      BY <1>n, <3>1, Limits, NothingLeft
  <2> QED
    BY <1>n, <2>1, <2>2, Limits, FixedNumeral
<1>4. CASE p = "print_hex_upper"
  <2>1. Text(p, n) = Printed(n, 16, DigitLimit) /\ Base(p) = 16
    BY <1>4, Zenon DEF Text, Base, print_hex_upper
  <2>2. Left(n, 16, DigitLimit) = 0
    <3>1. TwoTo(3) <= 16 /\ 16 \in Nat /\ 3 \in Nat
      BY SmallPowers
    <3> QED
      BY <1>n, <3>1, Limits, NothingLeft
  <2> QED
    BY <1>n, <2>1, <2>2, Limits, PrintedNumeral
<1>5. CASE p = "print_octal"
  <2>1. Text(p, n) = Printed(n, 8, DigitLimit) /\ Base(p) = 8
    BY <1>5, Zenon DEF Text, Base, print_octal
  <2>2. Left(n, 8, DigitLimit) = 0
    <3>1. TwoTo(3) <= 8 /\ 8 \in Nat /\ 3 \in Nat
      BY SmallPowers
    <3> QED
      BY <1>n, <3>1, Limits, NothingLeft
  <2> QED
    BY <1>n, <2>1, <2>2, Limits, PrintedNumeral
<1>6. CASE p = "print_binary"
  <2>1. Text(p, n) = Printed(n, 2, LongBits - 1) /\ Base(p) = 2
    BY <1>6, Zenon DEF Text, Base, print_binary
  <2>2. Left(n, 2, LongBits - 1) = 0
    <3>1. TwoTo(1) <= 2 /\ 2 \in Nat /\ 1 \in Nat /\ LongBits - 1 <= 1 * (LongBits - 1)
      BY SmallPowers, Limits
    <3>2. n < TwoTo(LongBits - 1)
      BY <1>n, <1>6, WordSizes
    <3> QED
      BY <1>n, <3>1, <3>2, Limits, NothingLeft
  <2> QED
    BY <1>n, <2>1, <2>2, Limits, PrintedNumeral
<1>7. CASE p = "serial_write_hex"
  <2>1. Text(p, n) = Fixed(n, IntBits \div 4) /\ Base(p) = 16
    BY <1>7, Zenon DEF Text, Base, serial_write_hex
  <2>2. Left(n, 16, IntBits \div 4) = 0
    <3>1. TwoTo(4) <= 16 /\ 16 \in Nat /\ 4 \in Nat
      BY SmallPowers
    <3>2. n < TwoTo(IntBits)
      BY <1>n, <1>7, WordSizes DEF TakesWord, Ints
    <3> QED
      BY <1>n, <3>1, <3>2, Limits, NothingLeft
  <2> QED
    BY <1>n, <2>1, <2>2, Limits, FixedNumeral
<1> QED
  BY <1>1, <1>2, <1>3, <1>4, <1>5, <1>6, <1>7, Zenon DEF TakesWord, Printers

\* The highest bit of a number with L + 1 bits, and the digits below it.
LEMMA TopBit ==
    ASSUME NEW L \in Nat, NEW n \in Nat, TwoTo(L) <= n, n - TwoTo(L) \in Nat, NEW j \in 0..L
    PROVE  Left(n, 2, j) = Left(n - TwoTo(L), 2, j) + TwoTo(L - j)
<1> DEFINE m == n - TwoTo(L)
           T == {i \in Nat : i <= L => Left(n, 2, i) = Left(m, 2, i) + TwoTo(L - i)}
<1>b. 2 \in Nat \ {0} /\ m \in Nat
  OBVIOUS
<1>1. 0 \in T
  <2>1. Left(n, 2, 0) = n /\ Left(m, 2, 0) = m
    BY <1>b, LeftZero
  <2>2. L - 0 = L /\ TwoTo(L) \in Nat
    BY TwoToGrows
  <2> QED
    BY <2>1, <2>2
<1> HIDE DEF m
<1>2. ASSUME NEW i \in Nat, i \in T PROVE i + 1 \in T
  <2> SUFFICES ASSUME i + 1 <= L PROVE Left(n, 2, i + 1) = Left(m, 2, i + 1) + TwoTo(L - (i + 1))
    OBVIOUS
  <2>1. /\ Left(n, 2, i) \in Nat /\ Left(n, 2, i + 1) = Left(n, 2, i) \div 2
        /\ Left(m, 2, i) \in Nat /\ Left(m, 2, i + 1) = Left(m, 2, i) \div 2
    BY <1>b, LeftNext
  <2>2. Left(n, 2, i) = Left(m, 2, i) + TwoTo(L - i)
    BY <1>2
  <2>3. TwoTo(L - (i + 1)) \in Nat /\ TwoTo((L - (i + 1)) + 1) = 2 * TwoTo(L - (i + 1))
    <3>1. L - (i + 1) \in Nat
      OBVIOUS
    <3> QED
      BY <3>1, TwoToNext, Zenon
  <2>4. (L - (i + 1)) + 1 = L - i
    OBVIOUS
  <2>5. \A x, y, z \in Nat : x = y + 2 * z => x \div 2 = (y \div 2) + z
    OBVIOUS
  <2> QED
    BY <2>1, <2>2, <2>3, <2>4, <2>5
<1>3. Nat \subseteq T
  <2> HIDE DEF T
  <2> QED
    BY <1>1, <1>2, Induction, Zenon
<1> QED
  BY <1>3 DEF m

\* print_binary stops one digit before the highest bit: what it writes of a
\* number that has this bit is the number without it.
LEMMA BinaryLosesBit ==
    ASSUME NEW n \in Longs, n >= TwoTo(LongBits - 1)
    PROVE  Value(Text("print_binary", n), Base("print_binary")) = n - TwoTo(LongBits - 1)
<1> DEFINE L == LongBits - 1
           m == n - TwoTo(L)
           t == Printed(n, 2, L)
<1>1. /\ L \in Nat \ {0} /\ n \in Nat \ {0} /\ TwoTo(L) <= n /\ m \in Nat
      /\ TwoTo(L) \in Nat /\ m < TwoTo(L)
  <2>1. L \in Nat \ {0} /\ L + 1 = LongBits
    BY WordsWhole
  <2>2. TwoTo(L) \in Nat \ {0} /\ TwoTo(L + 1) = 2 * TwoTo(L)
    BY <2>1, TwoToNext, TwoToGrows
  <2> QED
    BY <2>1, <2>2 DEF Longs
<1>2. Text("print_binary", n) = t /\ Base("print_binary") = 2
  BY Zenon DEF Text, Base, print_binary
<1> HIDE DEF L, m, t
<1>3. ASSUME NEW j \in 0..L
      PROVE  /\ Left(n, 2, j) \in Nat \ {0} /\ Left(m, 2, j) \in Nat
             /\ Left(n, 2, j) = Left(m, 2, j) + TwoTo(L - j)
  <2>1. Left(n, 2, j) = Left(m, 2, j) + TwoTo(L - j)
    BY <1>1, TopBit DEF m
  <2>2. Left(m, 2, j) \in Nat
    <3>1. 2 \in Nat \ {0} /\ j \in Nat
      BY <1>1
    <3> QED
      BY <1>1, <3>1, LeftNext, Zenon
  <2>3. TwoTo(L - j) \in Nat \ {0}
    BY <1>1, TwoToGrows
  <2> QED
    BY <2>1, <2>2, <2>3
<1>4. Count(n, 2, L) = L
  <2> DEFINE Good(i) == (Left(n, 2, i) = 0 \/ i = L) /\ \A j \in 0..(i - 1) : Left(n, 2, j) # 0
  <2>1. \A i \in 0..L : Good(i) <=> i = L
    BY <1>1, <1>3
  <2>2. L \in 0..L
    BY <1>1
  <2> HIDE DEF Good
  <2>3. (CHOOSE i \in 0..L : Good(i)) = L
    BY <2>1, <2>2, Zenon
  <2> QED
    BY <2>3, Zenon DEF Count, Good
<1>5. t \in Seq(HexChars) /\ Len(t) = L /\ \A k \in 1..L : t[k] = ToChar(Left(n, 2, L - k) % 2)
  <2>1. 2 \in 2..16 /\ L \in Nat
    BY <1>1
  <2> DEFINE c == Count(n, 2, L)
  <2>2. c = L /\ c \in Nat \ {0} /\ n \in Nat \ {0}
    BY <1>1, <1>4, Zenon
  <2>3. /\ t \in Seq(HexChars) /\ Len(t) = c
        /\ \A k \in 1..c : t[k] = ToChar(Left(n, 2, c - k) % 2)
    BY <2>1, <2>2, PrintedDigits, Zenon DEF t
  <2> HIDE DEF c
  <2> QED
    BY <2>2, <2>3, Zenon
<1>6. ASSUME NEW k \in 1..L PROVE Left(n, 2, L - k) % 2 = Left(m, 2, L - k) % 2
  <2>1. L - k \in 0..L /\ L - (L - k) = k /\ k - 1 \in Nat /\ (k - 1) + 1 = k
    BY <1>1
  <2>2. TwoTo((k - 1) + 1) = 2 * TwoTo(k - 1) /\ TwoTo(k - 1) \in Nat
    BY <2>1, TwoToNext, TwoToGrows, Zenon
  <2>3. \A x, y, z \in Nat : x = y + 2 * z => x % 2 = y % 2
    OBVIOUS
  <2>4. Left(n, 2, L - k) = Left(m, 2, L - k) + TwoTo(k)
    BY <1>3, <2>1
  <2> QED
    BY <1>3, <2>1, <2>2, <2>3, <2>4
<1>7. Left(m, 2, L) = 0
  <2>1. TwoTo(1) <= 2 /\ 2 \in Nat /\ 1 \in Nat /\ L \in Nat /\ L <= 1 * L
    BY <1>1, SmallPowers
  <2> QED
    BY <1>1, <2>1, NothingLeft
<1>8. IsNumeral(t, m, 2)
  BY <1>1, <1>5, <1>6, <1>7 DEF IsNumeral
<1>9. Value(t, 2) = m
  <2>1. 2 \in 2..16
    OBVIOUS
  <2> QED
    BY <1>1, <1>8, <2>1, ValueOfNumeral
<1> QED
  BY <1>2, <1>9, Zenon DEF m, L

\* The numbers a printer can be called with; only print_int's caller may pass a
\* negative one.
Callable(p, n) ==
    /\ n \in Int /\ TakesWord(p, ToWord(n))
    /\ n < 0 => p = "print_int"

\* What a printer writes reads back.
LEMMA PrintStep ==
    ASSUME NEW p, NEW n, Callable(p, n), PrintNumber(p, n)
    PROVE  NumbersReadBack'
<1> DEFINE w == ToWord(n)
<1>0. n \in Int /\ TakesWord(p, w) /\ w \in Longs /\ (n < 0 => p = "print_int")
  BY Zenon DEF Callable, TakesWord
<1>1. last'.by = p /\ last'.number = n /\ last'.text = Text(p, w)
  BY Zenon DEF PrintNumber
<1>s. TwoTo(LongBits) \in Nat /\ TwoTo(LongBits - 1) \in Nat /\ TwoTo(IntBits - 1) \in Nat
  BY WordSizes
<1>w. w = IF n < 0 THEN n + TwoTo(LongBits) ELSE n
  BY Zenon DEF ToWord
<1> HIDE DEF w
<1>2. Value(Text(p, w), Base(p)) = ReadsBackAs(p, n)
  <2>1. CASE p = "print_binary" /\ w >= TwoTo(LongBits - 1)
    <3>1. w = n /\ ~(n < 0)
      BY <1>0, <1>w, <2>1
    <3>2. ReadsBackAs(p, n) = w - TwoTo(LongBits - 1)
      BY <2>1, <3>1 DEF ReadsBackAs
    <3> QED
      BY <1>0, <2>1, <3>2, BinaryLosesBit
  <2>2. CASE ~(p = "print_binary" /\ w >= TwoTo(LongBits - 1))
    <3>1. w \in Nat /\ Base(p) \in 2..16 /\ IsNumeral(Text(p, w), w, Base(p))
      BY <1>0, <2>2, PrintersWriteNumerals
    <3>2. Value(Text(p, w), Base(p)) = w
      BY <3>1, ValueOfNumeral
    <3>3. ReadsBackAs(p, n) = w
      BY <1>0, <1>w, <2>2 DEF ReadsBackAs
    <3> QED
      BY <3>2, <3>3
  <2> QED
    BY <2>1, <2>2
<1>3. ASSUME Base(p) = 10, n \in 0..(TwoTo(IntBits - 1) - 1) PROVE atoi(Text(p, w)) = n
  <2>1. w = n /\ n < TwoTo(IntBits - 1)
    BY <1>3, <1>s, <1>w
  <2>2. p # "print_binary"
    BY <1>3, SMTT(30) DEF Base
  <2>3. w \in Nat /\ IsNumeral(Text(p, w), w, 10)
    BY <1>0, <1>3, <2>2, PrintersWriteNumerals
  <2> QED
    BY <2>1, <2>3, AtoiOfNumeral
<1> QED
  BY <1>1, <1>2, <1>3, Zenon DEF NumbersReadBack
-----------------------------------------------------------------------------
(* The steps of printf.                                                     *)

\* Some number is printed, and so many characters of the format are behind.
Prints(length) ==
    /\ \E p \in Printers, n \in Int : Callable(p, n) /\ PrintNumber(p, n)
    /\ at' = at + length

\* A word is a number as it is.
LEMMA WordIsNumber ==
    ASSUME NEW n \in Longs
    PROVE  n \in Int /\ ~(n < 0) /\ ToWord(n) = n
BY WordSizes DEF Longs, ToWord

LEMMA NumberPrints ==
    ASSUME NEW p \in Printers \ {"serial_write_hex"}, NEW numbers \in SUBSET Longs, NEW length,
           Number(p, numbers, length)
    PROVE  Prints(length)
<1>1. PICK n \in numbers : PrintNumber(p, n) /\ at' = at + length
  BY Zenon DEF Number
<1>2. n \in Int /\ ~(n < 0) /\ ToWord(n) = n /\ n \in Longs
  BY WordIsNumber
<1>3. Callable(p, n)
  BY <1>2, Zenon DEF Callable, TakesWord
<1> QED
  BY <1>1, <1>2, <1>3, Zenon DEF Prints

\* A number with a sign, as long as a word.
Signed == {n \in Int : -TwoTo(LongBits) <= n /\ n < TwoTo(LongBits)}

LEMMA SignedPrints ==
    ASSUME NEW numbers \in SUBSET Signed, NEW length, Number("print_int", numbers, length)
    PROVE  Prints(length)
<1>1. PICK n \in numbers : PrintNumber("print_int", n) /\ at' = at + length
  BY Zenon DEF Number
<1>2. n \in Int /\ ToWord(n) \in Longs
  BY WordSizes DEF Signed, ToWord, Longs
<1>3. Callable("print_int", n)
  BY <1>2, Zenon DEF Callable, TakesWord, Printers
<1> QED
  BY <1>1, <1>2, <1>3, Zenon DEF Prints, Callable, TakesWord

\* The arguments are words of the machine, also as unsigned, and numbers with a
\* sign as int or long long.
LEMMA ArgumentsAreWords ==
    /\ Args \subseteq Longs /\ AsUnsigned \subseteq Longs
    /\ AsInt \subseteq Signed /\ AsLongLong \subseteq Signed
<1>1. Args \subseteq Longs
  BY ArgsAreWords
<1>2. \A w \in Args : w % TwoTo(IntBits) \in 0..(TwoTo(IntBits) - 1)
  <2> SUFFICES ASSUME NEW w \in Args PROVE w % TwoTo(IntBits) \in 0..(TwoTo(IntBits) - 1)
    OBVIOUS
  <2>1. w \in Nat
    BY <1>1, WordSizes DEF Longs
  <2> QED
    BY <2>1, WordSizes, Division
<1>3. AsUnsigned \subseteq 0..(TwoTo(IntBits) - 1)
  BY <1>2, Zenon DEF AsUnsigned
<1>4. AsUnsigned \subseteq Longs
  BY <1>3, WordSizes DEF Longs
<1>5. \A w \in Args : ToInt(w) \in Signed
  <2> SUFFICES ASSUME NEW w \in Args PROVE ToInt(w) \in Signed
    OBVIOUS
  <2> DEFINE r == w % TwoTo(IntBits)
  <2>1. r \in 0..(TwoTo(IntBits) - 1)
    BY <1>2
  <2>2. ToInt(w) = IF r < TwoTo(IntBits - 1) THEN r ELSE r - TwoTo(IntBits)
    BY Zenon DEF ToInt
  <2> HIDE DEF r
  <2> QED
    BY <2>1, <2>2, WordSizes DEF Signed
<1>6. AsInt \subseteq Signed
  BY <1>5, Zenon DEF AsInt
<1>7. \A w \in Args : (IF w < TwoTo(LongBits - 1) THEN w ELSE w - TwoTo(LongBits)) \in Signed
  BY <1>1, WordSizes DEF Longs, Signed
<1>8. AsLongLong \subseteq Signed
  BY <1>7, Zenon DEF AsLongLong
<1> QED
  BY <1>1, <1>4, <1>6, <1>8

\* How far a conversion goes, and what printf has seen of it.
LEMMA LongNumberPrints ==
    ASSUME LongNumber
    PROVE  \/ Prints(2)
           \/ Prints(3) /\ Char(at + 2) = "l"
           \/ Prints(4) /\ Char(at + 3) \in {"u", "d", "x", "X"}
<1> DEFINE l == Char(at + 2)
           c == Char(at + 3)
<1>p. /\ "print_uint" \in Printers \ {"serial_write_hex"}
      /\ "print_int" \in Printers \ {"serial_write_hex"}
      /\ "print_hex" \in Printers \ {"serial_write_hex"}
      /\ "print_hex_upper" \in Printers \ {"serial_write_hex"}
      /\ Args \in SUBSET Longs /\ AsLongLong \in SUBSET Signed
  BY ArgumentsAreWords, Zenon DEF Printers
<1>1. CASE l = "l" /\ c = "u"
  <2>1. Number("print_uint", Args, 4)
    BY <1>1, Zenon DEF LongNumber
  <2> QED
    BY <1>p, <1>1, <2>1, NumberPrints, Zenon
<1>2. CASE l = "l" /\ c = "d"
  <2>1. Number("print_int", AsLongLong, 4)
    BY <1>2, Zenon DEF LongNumber
  <2> QED
    BY <1>p, <1>2, <2>1, SignedPrints, Zenon
<1>3. CASE l = "l" /\ c = "x"
  <2>1. Number("print_hex", Args, 4)
    BY <1>3, Zenon DEF LongNumber
  <2> QED
    BY <1>p, <1>3, <2>1, NumberPrints, Zenon
<1>4. CASE l = "l" /\ c = "X"
  <2>1. Number("print_hex_upper", Args, 4)
    BY <1>4, Zenon DEF LongNumber
  <2> QED
    BY <1>p, <1>4, <2>1, NumberPrints, Zenon
<1>5. CASE l = "l" /\ c \notin {"u", "d", "x", "X"}
  <2>1. Number("print_hex", Args, 3)
    BY <1>5, Zenon DEF LongNumber
  <2> QED
    BY <1>p, <1>5, <2>1, NumberPrints, Zenon
<1>6. CASE l # "l"
  <2>1. Number("print_hex", Args, 2)
    BY <1>6, Zenon DEF LongNumber
  <2> QED
    BY <1>p, <2>1, NumberPrints, Zenon
<1> QED
  BY <1>1, <1>2, <1>3, <1>4, <1>5, <1>6, Zenon

LEMMA ConversionPrints ==
    ASSUME Conversion
    PROVE  \/ NoNumber \/ Prints(2)
           \/ Prints(3) /\ Char(at + 2) = "l"
           \/ Prints(4) /\ Char(at + 3) \in {"u", "d", "x", "X"}
<1> DEFINE c == Char(at + 1)
<1>p. /\ "print_uint" \in Printers \ {"serial_write_hex"}
      /\ "print_int" \in Printers \ {"serial_write_hex"}
      /\ "print_hex" \in Printers \ {"serial_write_hex"}
      /\ "print_hex_upper" \in Printers \ {"serial_write_hex"}
      /\ "print_octal" \in Printers \ {"serial_write_hex"}
      /\ "print_binary" \in Printers \ {"serial_write_hex"}
      /\ Args \in SUBSET Longs /\ AsInt \in SUBSET Signed /\ AsUnsigned \in SUBSET Longs
  BY ArgumentsAreWords, Zenon DEF Printers
<1>1. CASE c = "d"
  <2>1. Number("print_int", AsInt, 2)
    BY <1>1, Zenon DEF Conversion
  <2> QED
    BY <1>p, <2>1, SignedPrints, Zenon
<1>2. CASE c = "u"
  <2>1. Number("print_uint", AsUnsigned, 2)
    BY <1>2, Zenon DEF Conversion
  <2> QED
    BY <1>p, <2>1, NumberPrints, Zenon
<1>3. CASE c = "l"
  <2>1. LongNumber
    BY <1>3, Zenon DEF Conversion
  <2> QED
    BY <2>1, LongNumberPrints, Zenon
<1>4. CASE c = "x"
  <2>1. Number("print_hex", AsUnsigned, 2)
    BY <1>4, Zenon DEF Conversion
  <2> QED
    BY <1>p, <2>1, NumberPrints, Zenon
<1>5. CASE c = "X"
  <2>1. Number("print_hex_upper", AsUnsigned, 2)
    BY <1>5, Zenon DEF Conversion
  <2> QED
    BY <1>p, <2>1, NumberPrints, Zenon
<1>6. CASE c = "o"
  <2>1. Number("print_octal", AsUnsigned, 2)
    BY <1>6, Zenon DEF Conversion
  <2> QED
    BY <1>p, <2>1, NumberPrints, Zenon
<1>7. CASE c = "b"
  <2>1. Number("print_binary", AsUnsigned, 2)
    BY <1>7, Zenon DEF Conversion
  <2> QED
    BY <1>p, <2>1, NumberPrints, Zenon
<1>8. CASE c = "p"
  <2>1. Number("print_hex_upper", Args, 2)
    BY <1>8, Zenon DEF Conversion
  <2> QED
    BY <1>p, <2>1, NumberPrints, Zenon
<1>9. CASE c \notin {"d", "u", "l", "x", "X", "o", "b", "p"}
  <2>1. NoNumber
    BY <1>9, Zenon DEF Conversion
  <2> QED
    BY <2>1, Zenon
<1> QED
  BY <1>1, <1>2, <1>3, <1>4, <1>5, <1>6, <1>7, <1>8, <1>9, Zenon

\* What printf has seen is in the format.
LEMMA SeenIsInside ==
    ASSUME Len(format) \in Nat, NEW i \in Nat, Char(i) # NUL
    PROVE  i <= Len(format)
BY DEF Char

-----------------------------------------------------------------------------
(* The invariant.                                                           *)

\* printf is in its format, which it never changes, and the last number
\* printed reads back.
IInv ==
    /\ format \in Formats /\ at \in Nat
    /\ StaysInFormat
    /\ NumbersReadBack

LEMMA InitInv ==
    ASSUME Init
    PROVE  IInv
<1>1. format \in Formats /\ at = 1 /\ last.by = "none"
  BY Zenon DEF Init
<1>2. format \in Seq(STRING)
  BY <1>1, FormatsAreStrings, Zenon
<1>3. Len(format) \in Nat
  BY <1>2
<1>4. StaysInFormat /\ at \in Nat
  BY <1>1, <1>3 DEF StaysInFormat
<1>5. NumbersReadBack
  BY <1>1, Zenon DEF NumbersReadBack
<1> QED
  BY <1>1, <1>4, <1>5, Zenon DEF IInv

LEMMA NextInv ==
    ASSUME IInv, [Next]_vars
    PROVE  IInv'
<1>1. format' = format
  BY Zenon DEF Next, Conversion, Literal, Direct, vars
<1>2. format \in Seq(STRING) /\ at \in Nat
  BY FormatsAreStrings, Zenon DEF IInv
<1>3. Len(format) \in Nat /\ at <= Len(format) + 1
  BY <1>2 DEF IInv, StaysInFormat
<1>4. format' \in Formats
  BY <1>1, Zenon DEF IInv
<1>5. ASSUME last' = last PROVE NumbersReadBack'
  BY <1>5, Zenon DEF IInv, NumbersReadBack
<1>6. ASSUME NEW length, Prints(length) PROVE NumbersReadBack'
  <2>1. PICK p \in Printers, n \in Int : Callable(p, n) /\ PrintNumber(p, n)
    BY <1>6, Zenon DEF Prints
  <2> QED
    BY <2>1, PrintStep
<1>7. ASSUME NEW k \in Nat, at' = at + k, at + k <= Len(format) + 1
      PROVE  at' \in Nat /\ StaysInFormat'
  BY <1>1, <1>2, <1>3, <1>7 DEF StaysInFormat
<1>8. CASE Conversion
  <2>1. Char(at + 1) # NUL
    BY <1>8, Zenon DEF Conversion, HasConversion
  <2>2. at + 1 \in Nat /\ at + 2 \in Nat /\ at + 3 \in Nat
    BY <1>2
  <2>3. at + 1 <= Len(format)
    BY <1>3, <2>1, <2>2, SeenIsInside
  <2>4. CASE NoNumber
    <3>1. at' = at + 2 /\ last' = last
      BY <2>4, Zenon DEF NoNumber
    <3>2. at + 2 <= Len(format) + 1
      BY <1>2, <1>3, <2>3
    <3> QED
      BY <1>4, <1>5, <1>7, <3>1, <3>2 DEF IInv
  <2>5. CASE Prints(2)
    <3>1. at' = at + 2
      BY <2>5, Zenon DEF Prints
    <3>2. at + 2 <= Len(format) + 1
      BY <1>2, <1>3, <2>3
    <3> QED
      BY <1>4, <1>6, <1>7, <2>5, <3>1, <3>2 DEF IInv
  <2>6. CASE Prints(3) /\ Char(at + 2) = "l"
    <3>1. at' = at + 3
      BY <2>6, Zenon DEF Prints
    <3>2. Char(at + 2) # NUL
      BY <2>6, Zenon DEF NUL
    <3>3. at + 2 <= Len(format)
      BY <1>3, <2>2, <3>2, SeenIsInside
    <3>4. at + 3 <= Len(format) + 1
      BY <1>2, <1>3, <3>3
    <3> QED
      BY <1>4, <1>6, <1>7, <2>6, <3>1, <3>4 DEF IInv
  <2>7. CASE Prints(4) /\ Char(at + 3) \in {"u", "d", "x", "X"}
    <3>1. at' = at + 4
      BY <2>7, Zenon DEF Prints
    <3>2. Char(at + 3) # NUL
      BY <2>7, Zenon DEF NUL
    <3>3. at + 3 <= Len(format)
      BY <1>3, <2>2, <3>2, SeenIsInside
    <3>4. at + 4 <= Len(format) + 1
      BY <1>2, <1>3, <3>3
    <3> QED
      BY <1>4, <1>6, <1>7, <2>7, <3>1, <3>4 DEF IInv
  <2> QED
    BY <1>8, <2>4, <2>5, <2>6, <2>7, ConversionPrints, Zenon
<1>9. CASE Literal
  <2>1. Char(at) # NUL /\ at' = at + 1 /\ last' = last
    BY <1>9, Zenon DEF Literal
  <2>2. at <= Len(format)
    BY <1>2, <1>3, <2>1, SeenIsInside
  <2>3. at + 1 <= Len(format) + 1
    BY <1>2, <1>3, <2>2
  <2> QED
    BY <1>4, <1>5, <1>7, <2>1, <2>3 DEF IInv
<1>10. CASE Direct
  <2>1. at' = at
    BY <1>10, Zenon DEF Direct
  <2>2. PICK p \in Printers, n \in Longs : (p = "serial_write_hex" => n \in Ints) /\ PrintNumber(p, n)
    BY <1>10, Zenon DEF Direct
  <2>3. NumbersReadBack'
    BY <2>2, WordIsNumber, PrintStep DEF Callable, TakesWord
  <2> QED
    BY <1>1, <1>2, <1>3, <1>4, <2>1, <2>3 DEF IInv, StaysInFormat
<1>11. CASE UNCHANGED vars
  <2>1. at' = at /\ last' = last
    BY <1>11, Zenon DEF vars
  <2> QED
    BY <1>1, <1>2, <1>3, <1>4, <1>5, <2>1 DEF IInv, StaysInFormat
<1> QED
  BY <1>8, <1>9, <1>10, <1>11, Zenon DEF Next

\* Where printf is, and the last number printed, in every state.
THEOREM PrintfInvariant == Spec => []IInv
<1>1. Init => IInv
  BY InitInv
<1>2. IInv /\ [Next]_vars => IInv'
  BY NextInv
<1> QED
  BY <1>1, <1>2, PTL DEF Spec

\* For every size of the words, what printf or another caller prints of a number
\* reads back as the number they passed, by atoi too when it is decimal and fits
\* an int, with exactly these exceptions: a negative number for %d or %lld is
\* printed without its sign, as 2^64 more (contrary to STDIO.md), and
\* print_binary leaves out the highest of 64 bits.  The loops of print_uint,
\* print_octal and print_hex_upper stop at 31 digits, and no number needs more.
THEOREM NumbersAreWhole == Spec => []NumbersReadBack
<1>1. IInv => NumbersReadBack
  BY DEF IInv
<1> QED
  BY <1>1, PrintfInvariant, PTL

\* printf reads up to three characters ahead, and yet for every format, also one
\* that ends inside a conversion, it never steps over the end.
THEOREM FormatIsTheLimit == Spec => []StaysInFormat
<1>1. IInv => StaysInFormat
  BY DEF IInv
<1> QED
  BY <1>1, PrintfInvariant, PTL
=============================================================================
