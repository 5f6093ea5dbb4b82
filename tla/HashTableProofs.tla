--------------------------- MODULE HashTableProofs ---------------------------
(***************************************************************************)
(* Proofs about the hash table.  From the bottom up: induction and         *)
(* recursive functions; powers of two, reversed words and the cursors of a *)
(* scan; chains, and what inserting, taking, filling holes and compacting  *)
(* do to their entries; one table; the two tables and rehashing; resizing; *)
(* the scan; the safe iterator; the inductive invariant Inv.               *)
(*                                                                         *)
(* Two orders carry the argument.  A scan goes through the reversed hashes *)
(* upwards, and no resize changes an entry's hash.  An iterator goes       *)
(* through places (table, index, slot) upwards, and while it has begun     *)
(* nothing moves an entry to an earlier place (Keeps).                     *)
(***************************************************************************)
EXTENDS HashTable, FiniteSetTheorems, SequenceTheorems, WellFoundedInduction, TLAPS

-----------------------------------------------------------------------------
(* Induction and recursion over the natural numbers.                       *)

\* Induction over the natural numbers, for a set that holds the numbers proved so far.
LEMMA NatSetInduction ==
  ASSUME NEW S, 0 \in S, \A n \in Nat : n \in S => n + 1 \in S
  PROVE  Nat \subseteq S
<1> DEFINE T == Nat \ S
           R == OpToRel(<, Nat)
<1>1. SUFFICES ASSUME T # {} PROVE FALSE
  OBVIOUS
<1>2. IsWellFoundedOn(R, Nat)
  BY NatLessThanWellFounded
<1>3. T \subseteq Nat
  OBVIOUS
<1>4. \A y, x \in Nat : y < x => <<y, x>> \in R
  BY DEF OpToRel
<1> HIDE DEF R
<1>5. \E x \in T : \A y \in T : ~ (<<y, x>> \in R)
  <2> HIDE DEF T
  <2> QED BY <1>1, <1>2, <1>3, WFMin
<1>6. PICK x \in T : \A y \in T : ~ (<<y, x>> \in R)
  BY <1>5
<1>7. x # 0 /\ x \in Nat
  OBVIOUS
<1>8. x - 1 \in Nat /\ x - 1 < x /\ (x - 1) + 1 = x
  BY <1>7
<1>9. x - 1 \in T
  BY <1>6, <1>7, <1>8
<1> QED
  BY <1>4, <1>6, <1>7, <1>8, <1>9

\* Induction up to n.
LEMMA IntervalInduction ==
  ASSUME NEW n \in Nat, NEW S, 0 \in S, \A k \in Nat : k < n /\ k \in S => k + 1 \in S
  PROVE  \A k \in 0 .. n : k \in S
<1> DEFINE T == {k \in Nat : k <= n => k \in S}
<1>1. 0 \in T
  OBVIOUS
<1>2. \A k \in Nat : k \in T => k + 1 \in T
  OBVIOUS
<1> HIDE DEF T
<1>3. Nat \subseteq T
  BY <1>1, <1>2, NatSetInduction
<1> QED
  BY <1>3 DEF T

\* A function given by its first value and by a step, up to n.
Recursion(x, F, n, f) ==
  f = [i \in 0 .. n |-> IF i = 0 THEN x ELSE F[<<i, f[i - 1]>>]]

\* What such a function is, value by value.
LEMMA RecursionValues ==
  ASSUME NEW x, NEW F, NEW n \in Nat, NEW f, Recursion(x, F, n, f)
  PROVE  f[0] = x /\ \A i \in 1 .. n : f[i] = F[<<i, f[i - 1]>>]
BY DEF Recursion

\* It is there for every n.
LEMMA RecursionExists ==
  ASSUME NEW x, NEW F, NEW n \in Nat
  PROVE  \E f : Recursion(x, F, n, f)
<1> DEFINE P == {k \in Nat : \E f : Recursion(x, F, k, f)}
<1>1. 0 \in P
  <2>1. Recursion(x, F, 0, [i \in 0 .. 0 |-> x])
    BY DEF Recursion
  <2> QED BY <2>1
<1>2. ASSUME NEW k \in Nat, k \in P PROVE k + 1 \in P
  <2>1. PICK f : Recursion(x, F, k, f)
    BY <1>2
  <2> DEFINE g == [i \in 0 .. (k + 1) |-> IF i <= k THEN f[i] ELSE F[<<i, f[i - 1]>>]]
  <2>2. f[0] = x /\ \A i \in 1 .. k : f[i] = F[<<i, f[i - 1]>>]
    BY <2>1 DEF Recursion
  <2>3. g[0] = x
    BY <2>2
  <2>4. ASSUME NEW i \in 1 .. (k + 1) PROVE g[i] = F[<<i, g[i - 1]>>]
    <3>1. g[i - 1] = f[i - 1]
      OBVIOUS
    <3>2. g[i] = F[<<i, f[i - 1]>>]
      <4>1. CASE i <= k
        BY <4>1, <2>2
      <4>2. CASE ~ (i <= k)
        BY <4>2
      <4> QED BY <4>1, <4>2
    <3> QED BY <3>1, <3>2
  <2>5. g = [i \in 0 .. (k + 1) |-> g[i]]
    OBVIOUS
  <2> HIDE DEF g
  <2>6. [i \in 0 .. (k + 1) |-> g[i]]
          = [i \in 0 .. (k + 1) |-> IF i = 0 THEN x ELSE F[<<i, g[i - 1]>>]]
    BY <2>3, <2>4
  <2>7. Recursion(x, F, k + 1, g)
    BY <2>5, <2>6 DEF Recursion
  <2> QED BY <2>7
<1> HIDE DEF P
<1>3. Nat \subseteq P
  BY <1>1, <1>2, NatSetInduction
<1> QED
  BY <1>3 DEF P

\* A longer one agrees with a shorter one.
LEMMA RecursionAgrees ==
  ASSUME NEW x, NEW F, NEW m \in Nat, NEW n \in Nat, m <= n,
         NEW f, Recursion(x, F, m, f), NEW g, Recursion(x, F, n, g)
  PROVE  f[m] = g[m]
<1> DEFINE S == {i \in Nat : f[i] = g[i]}
<1>1. f[0] = x /\ \A i \in 1 .. m : f[i] = F[<<i, f[i - 1]>>]
  BY DEF Recursion
<1>2. g[0] = x /\ \A i \in 1 .. n : g[i] = F[<<i, g[i - 1]>>]
  BY DEF Recursion
<1>3. 0 \in S
  BY <1>1, <1>2
<1>4. ASSUME NEW k \in Nat, k < m /\ k \in S PROVE k + 1 \in S
  <2>1. k + 1 \in 1 .. m /\ k + 1 \in 1 .. n /\ (k + 1) - 1 = k
    BY <1>4
  <2>2. f[k + 1] = F[<<k + 1, f[k]>>] /\ g[k + 1] = F[<<k + 1, g[k]>>]
    BY <1>1, <1>2, <2>1
  <2>3. f[k] = g[k]
    BY <1>4
  <2>4. f[k + 1] = g[k + 1]
    BY <2>2, <2>3
  <2> QED BY <2>4
<1> HIDE DEF S
<1>5. \A k \in 0 .. m : k \in S
  BY <1>3, <1>4, IntervalInduction
<1> QED
  BY <1>5 DEF S

\* A function on all natural numbers given by its first value and by a step.
Recursive(x, F, f) == f = [i \in Nat |-> IF i = 0 THEN x ELSE F[<<i, f[i - 1]>>]]

\* It exists.
LEMMA NatRecursion ==
  ASSUME NEW x, NEW F
  PROVE  \E f : Recursive(x, F, f)
<1> DEFINE up(n) == CHOOSE g : Recursion(x, F, n, g)
           f == [n \in Nat |-> up(n)[n]]
<1>1. \A n \in Nat : Recursion(x, F, n, up(n))
  BY RecursionExists
<1> HIDE DEF up
<1>2. ASSUME NEW i \in Nat PROVE f[i] = IF i = 0 THEN x ELSE F[<<i, f[i - 1]>>]
  <2>1. CASE i = 0
    <3>1. up(0)[0] = x
      BY <1>1, RecursionValues
    <3> QED BY <2>1, <3>1
  <2>2. CASE i # 0
    <3>1. i - 1 \in Nat /\ i - 1 <= i /\ i \in 1 .. i
      BY <2>2
    <3>2. Recursion(x, F, i, up(i)) /\ Recursion(x, F, i - 1, up(i - 1))
      BY <1>1, <3>1
    <3>3. up(i)[i] = F[<<i, up(i)[i - 1]>>]
      BY <3>1, <3>2, RecursionValues
    <3>4. up(i - 1)[i - 1] = up(i)[i - 1]
      BY <3>1, <3>2, RecursionAgrees
    <3>5. f[i] = up(i)[i] /\ f[i - 1] = up(i - 1)[i - 1]
      BY <3>1
    <3> QED BY <2>2, <3>3, <3>4, <3>5
  <2> QED BY <2>1, <2>2
<1>3. f = [i \in Nat |-> f[i]]
  OBVIOUS
<1> HIDE DEF f
<1>4. [i \in Nat |-> f[i]] = [i \in Nat |-> IF i = 0 THEN x ELSE F[<<i, f[i - 1]>>]]
  BY <1>2
<1> QED
  BY <1>3, <1>4 DEF Recursive

-----------------------------------------------------------------------------
(* Powers of two, quotients and remainders.                                *)

\* Pow2 satisfies its definition.
LEMMA Pow2Def == Pow2 = [n \in Nat |-> IF n = 0 THEN 1 ELSE 2 * Pow2[n - 1]]
<1> DEFINE F == [p \in Nat \X Nat |-> 2 * p[2]]
           P(f) == f = [n \in Nat |-> IF n = 0 THEN 1 ELSE 2 * f[n - 1]]
<1>0. PICK f : Recursive(1, F, f)
  BY NatRecursion
<1>1. f = [i \in Nat |-> IF i = 0 THEN 1 ELSE F[<<i, f[i - 1]>>]]
  BY <1>0 DEF Recursive
<1> DEFINE S == {i \in Nat : f[i] \in Nat}
<1>2. 0 \in S
  BY <1>1
<1>3. ASSUME NEW k \in Nat, k \in S PROVE k + 1 \in S
  <2>1. f[k + 1] = F[<<k + 1, f[k]>>]
    BY <1>1
  <2>2. f[k] \in Nat
    BY <1>3
  <2>3. F[<<k + 1, f[k]>>] = 2 * f[k]
    BY <2>2
  <2> QED BY <2>1, <2>2, <2>3
<1>4. \A k \in Nat : f[k] \in Nat
  <2> HIDE DEF S
  <2>1. Nat \subseteq S
    BY <1>2, <1>3, NatSetInduction
  <2> QED BY <2>1 DEF S
<1>5. \A i \in Nat \ {0} : F[<<i, f[i - 1]>>] = 2 * f[i - 1]
  BY <1>4
<1> HIDE DEF F
<1>6. P(f)
  BY <1>1, <1>5
<1>7. P(CHOOSE g : P(g))
  <2> HIDE DEF P
  <2> QED BY <1>6
<1>8. Pow2 = CHOOSE g : P(g)
  BY DEF Pow2
<1> QED
  BY <1>7, <1>8

\* Its values.
LEMMA Pow2Facts ==
  /\ Pow2[0] = 1
  /\ \A n \in Nat : Pow2[n] \in Nat \ {0} /\ Pow2[n + 1] = 2 * Pow2[n]
<1>1. Pow2[0] = 1
  BY Pow2Def
<1>2. \A n \in Nat : Pow2[n + 1] = 2 * Pow2[n]
  <2> TAKE n \in Nat
  <2>1. n + 1 \in Nat /\ n + 1 # 0 /\ (n + 1) - 1 = n
    OBVIOUS
  <2> QED BY <2>1, Pow2Def
<1> DEFINE S == {n \in Nat : Pow2[n] \in Nat \ {0}}
<1>3. 0 \in S
  BY <1>1
<1>4. \A n \in Nat : n \in S => n + 1 \in S
  BY <1>2
<1>5. Nat \subseteq S
  <2> HIDE DEF S
  <2> QED BY <1>3, <1>4, NatSetInduction
<1> QED
  BY <1>1, <1>2, <1>5

\* A product of powers.
LEMMA Pow2Plus ==
  ASSUME NEW m \in Nat, NEW n \in Nat
  PROVE  Pow2[m + n] = Pow2[m] * Pow2[n]
<1> DEFINE S == {k \in Nat : Pow2[m + k] = Pow2[m] * Pow2[k]}
<1>1. 0 \in S
  BY Pow2Facts
<1>2. ASSUME NEW k \in Nat, k \in S PROVE k + 1 \in S
  <2>1. m + (k + 1) = (m + k) + 1 /\ m + k \in Nat
    OBVIOUS
  <2>2. Pow2[m + (k + 1)] = 2 * Pow2[m + k]
    BY <2>1, Pow2Facts
  <2>3. Pow2[k + 1] = 2 * Pow2[k] /\ Pow2[k] \in Nat /\ Pow2[m] \in Nat
    BY Pow2Facts
  <2>4. Pow2[m + k] = Pow2[m] * Pow2[k]
    BY <1>2
  <2>5. 2 * (Pow2[m] * Pow2[k]) = Pow2[m] * (2 * Pow2[k])
    BY <2>3
  <2> QED BY <2>2, <2>3, <2>4, <2>5
<1>3. Nat \subseteq S
  <2> HIDE DEF S
  <2> QED BY <1>1, <1>2, NatSetInduction
<1> QED
  BY <1>3

\* Powers grow.
LEMMA Pow2Mono ==
  ASSUME NEW m \in Nat, NEW n \in Nat, m <= n
  PROVE  /\ Pow2[m] <= Pow2[n]
         /\ Pow2[n] = Pow2[m] * Pow2[n - m]
         /\ Pow2[n - m] \in Nat \ {0}
         /\ m < n => 2 * Pow2[m] <= Pow2[n]
<1>1. n - m \in Nat /\ m + (n - m) = n
  OBVIOUS
<1>2. Pow2[n] = Pow2[m] * Pow2[n - m]
  BY <1>1, Pow2Plus
<1>3. Pow2[n - m] \in Nat \ {0} /\ Pow2[m] \in Nat \ {0}
  BY <1>1, Pow2Facts
<1>4. Pow2[m] <= Pow2[n]
  BY <1>2, <1>3
<1>5. m < n => 2 * Pow2[m] <= Pow2[n]
  <2> SUFFICES ASSUME m < n PROVE 2 * Pow2[m] <= Pow2[n]
    OBVIOUS
  <2>1. n - m - 1 \in Nat /\ (n - m - 1) + 1 = n - m
    BY <1>1
  <2>2. Pow2[n - m] = 2 * Pow2[n - m - 1] /\ Pow2[n - m - 1] \in Nat \ {0}
    BY <2>1, Pow2Facts
  <2>3. Pow2[n - m] >= 2
    BY <2>2
  <2> QED BY <1>2, <1>3, <2>3
<1> QED BY <1>2, <1>3, <1>4, <1>5

\* Division with remainder.
LEMMA DivMod ==
  ASSUME NEW a \in Nat, NEW m \in Nat \ {0}
  PROVE  /\ a \div m \in Nat /\ a % m \in Nat /\ a % m < m
         /\ a = m * (a \div m) + (a % m)
OBVIOUS

\* Quotient and remainder are unique.
LEMMA DivModUnique ==
  ASSUME NEW m \in Nat \ {0}, NEW q \in Nat, NEW r \in Nat, r < m
  PROVE  /\ (m * q + r) \div m = q
         /\ (m * q + r) % m = r
OBVIOUS

\* The remainder by a divisor of the divisor.
LEMMA ModMod ==
  ASSUME NEW a \in Nat, NEW m \in Nat \ {0}, NEW d \in Nat \ {0}
  PROVE  (a % (m * d)) % m = a % m
<1> DEFINE N == m * d
           q == a \div N
           r == a % N
           s == r \div m
           u == r % m
<1>1. N \in Nat \ {0}
  OBVIOUS
<1>2. q \in Nat /\ r \in Nat /\ a = N * q + r
  <2> HIDE DEF N
  <2> QED BY <1>1, DivMod
<1>3. s \in Nat /\ u \in Nat /\ u < m /\ r = m * s + u
  <2> HIDE DEF r
  <2> QED BY <1>2, DivMod
<1>0. u = (a % (m * d)) % m
  OBVIOUS
<1> HIDE DEF q, r, s, u
<1>4. d * q + s \in Nat
  BY <1>2, <1>3
<1>5. a = m * (d * q + s) + u
  <2>1. a = (m * d) * q + (m * s + u)
    BY <1>2, <1>3
  <2>2. (m * d) * q = m * (d * q) /\ m * (d * q + s) = m * (d * q) + m * s
    BY <1>2, <1>3
  <2>3. m * (d * q) \in Nat /\ m * s \in Nat
    BY <1>2, <1>3
  <2> QED BY <2>1, <2>2, <2>3, <1>3
<1> DEFINE k == d * q + s
<1>6. a % m = u
  <2>1. k \in Nat /\ a = m * k + u
    BY <1>4, <1>5
  <2> HIDE DEF k
  <2>2. (m * k + u) % m = u
    BY <2>1, <1>3, DivModUnique
  <2> QED BY <2>1, <2>2
<1> QED
  BY <1>0, <1>6

\* A hash in the smaller of two tables is decided by its bucket in the larger one.
LEMMA BucketInSmaller ==
  ASSUME NEW a \in Nat, NEW m \in Nat, NEW n \in Nat, m <= n
  PROVE  (a % Pow2[n]) % Pow2[m] = a % Pow2[m]
<1>1. Pow2[n] = Pow2[m] * Pow2[n - m] /\ Pow2[n - m] \in Nat \ {0}
  BY Pow2Mono
<1>2. Pow2[m] \in Nat \ {0}
  BY Pow2Facts
<1>3. (a % (Pow2[m] * Pow2[n - m])) % Pow2[m] = a % Pow2[m]
  BY <1>1, <1>2, ModMod, Zenon
<1> QED
  BY <1>1, <1>3, Zenon

-----------------------------------------------------------------------------
(* Reversed bits.                                                          *)

\* The step from n to n + 1 bits.
RevStep(n, g) == [v \in 0 .. Pow2[n] - 1 |-> (v % 2) * Pow2[n - 1] + g[v \div 2]]

\* Functions on n bits.
Words(n) == 0 .. Pow2[n] - 1

\* Half of a word is a word of one bit less.
LEMMA HalfWord ==
  ASSUME NEW n \in Nat, NEW v \in Words(n + 1)
  PROVE  /\ v \div 2 \in Words(n)
         /\ v % 2 \in {0, 1}
         /\ v = 2 * (v \div 2) + (v % 2)
BY Pow2Facts DEF Words

\* A step gives a function of one bit more.
LEMMA RevStepType ==
  ASSUME NEW n \in Nat, NEW g \in [Words(n) -> Nat]
  PROVE  RevStep(n + 1, g) \in [Words(n + 1) -> Nat]
<1> SUFFICES ASSUME NEW v \in Words(n + 1)
             PROVE (v % 2) * Pow2[(n + 1) - 1] + g[v \div 2] \in Nat
  BY DEF RevStep, Words
<1>1. g[v \div 2] \in Nat
  BY HalfWord
<1>2. v % 2 \in Nat
  BY HalfWord
<1>3. Pow2[(n + 1) - 1] \in Nat
  BY Pow2Facts
<1> QED
  BY <1>1, <1>2, <1>3

\* RevBits satisfies its definition.
LEMMA RevBitsDef ==
  RevBits = [n \in Nat |-> [v \in 0 .. Pow2[n] - 1 |->
               IF n = 0 THEN 0 ELSE (v % 2) * Pow2[n - 1] + RevBits[n - 1][v \div 2]]]
<1> DEFINE Fns == UNION {[Words(m) -> Nat] : m \in Nat}
           F == [p \in Nat \X Fns |-> RevStep(p[1], p[2])]
           x == [v \in 0 .. Pow2[0] - 1 |-> 0]
           P(f) == f = [n \in Nat |-> [v \in 0 .. Pow2[n] - 1 |->
                         IF n = 0 THEN 0 ELSE (v % 2) * Pow2[n - 1] + f[n - 1][v \div 2]]]
<1>0. PICK f : Recursive(x, F, f)
  <2> HIDE DEF x, F
  <2> QED BY NatRecursion
<1>1. f = [i \in Nat |-> IF i = 0 THEN x ELSE F[<<i, f[i - 1]>>]]
  BY <1>0 DEF Recursive
<1>2. f[0] = x /\ \A i \in Nat : f[i + 1] = F[<<i + 1, f[i]>>]
  <2> HIDE DEF x, F
  <2> QED BY <1>1
<1> DEFINE S == {i \in Nat : f[i] \in [Words(i) -> Nat]}
<1>3. 0 \in S
  BY <1>2 DEF Words
<1>4. ASSUME NEW i \in Nat, f[i] \in [Words(i) -> Nat]
      PROVE  f[i + 1] = RevStep(i + 1, f[i]) /\ f[i + 1] \in [Words(i + 1) -> Nat]
  <2>1. f[i] \in Fns
    BY <1>4
  <2>2. F[<<i + 1, f[i]>>] = RevStep(i + 1, f[i])
    <3> DEFINE p == <<i + 1, f[i]>>
    <3>1. p \in Nat \X Fns /\ p[1] = i + 1 /\ p[2] = f[i]
      <4> HIDE DEF Fns
      <4> QED BY <2>1
    <3>2. \A q \in Nat \X Fns : F[q] = RevStep(q[1], q[2])
      <4> HIDE DEF Fns
      <4> QED OBVIOUS
    <3>3. F[p] = RevStep(p[1], p[2])
      <4> HIDE DEF p, F, Fns
      <4> QED BY <3>1, <3>2
    <3> HIDE DEF F, Fns
    <3> QED BY <3>1, <3>3
  <2> HIDE DEF F, x
  <2> QED BY <1>2, <1>4, <2>2, RevStepType
<1>5. Nat \subseteq S
  <2>1. \A i \in Nat : i \in S => i + 1 \in S
    BY <1>4
  <2> HIDE DEF S
  <2> QED BY <1>3, <2>1, NatSetInduction
<1>6. \A i \in Nat : f[i + 1] = RevStep(i + 1, f[i])
  BY <1>4, <1>5
<1>7. ASSUME NEW n \in Nat
      PROVE  f[n] = [v \in 0 .. Pow2[n] - 1 |->
                       IF n = 0 THEN 0 ELSE (v % 2) * Pow2[n - 1] + f[n - 1][v \div 2]]
  <2>1. CASE n = 0
    BY <2>1, <1>2
  <2>2. CASE n # 0
    <3>1. n - 1 \in Nat /\ (n - 1) + 1 = n
      BY <2>2
    <3>2. f[n] = RevStep(n, f[n - 1])
      BY <1>6, <3>1
    <3> QED BY <3>2, <2>2 DEF RevStep
  <2> QED BY <2>1, <2>2
<1>8. P(f)
  <2>1. f = [i \in Nat |-> f[i]]
    <3> HIDE DEF x, F
    <3> QED BY <1>1
  <2> QED BY <2>1, <1>7
<1>9. P(CHOOSE g : P(g))
  <2> HIDE DEF P
  <2> QED BY <1>8
<1>10. RevBits = CHOOSE g : P(g)
  BY DEF RevBits
<1>11. P(RevBits)
  <2> HIDE DEF P
  <2> QED BY <1>9, <1>10
<1> QED
  BY <1>11

\* Its values: no bits, and one bit more.
LEMMA RevBitsValues ==
  /\ RevBits[0][0] = 0
  /\ \A n \in Nat : \A v \in Words(n + 1) :
        RevBits[n + 1][v] = (v % 2) * Pow2[n] + RevBits[n][v \div 2]
<1>1. RevBits[0][0] = 0
  BY RevBitsDef, Pow2Facts
<1>2. ASSUME NEW n \in Nat, NEW v \in Words(n + 1)
      PROVE  RevBits[n + 1][v] = (v % 2) * Pow2[n] + RevBits[n][v \div 2]
  <2>1. n + 1 \in Nat /\ n + 1 # 0 /\ (n + 1) - 1 = n
    OBVIOUS
  <2>2. RevBits[n + 1] = [u \in 0 .. Pow2[n + 1] - 1 |->
            IF n + 1 = 0 THEN 0
            ELSE (u % 2) * Pow2[(n + 1) - 1] + RevBits[(n + 1) - 1][u \div 2]]
    <3> DEFINE B(k) == [u \in 0 .. Pow2[k] - 1 |->
                          IF k = 0 THEN 0 ELSE (u % 2) * Pow2[k - 1] + RevBits[k - 1][u \div 2]]
    <3>1. RevBits = [k \in Nat |-> B(k)]
      BY RevBitsDef
    <3>2. RevBits[n + 1] = B(n + 1)
      <4> HIDE DEF B
      <4> QED BY <2>1, <3>1
    <3> QED BY <3>2
  <2>3. RevBits[n + 1][v] = (v % 2) * Pow2[(n + 1) - 1] + RevBits[(n + 1) - 1][v \div 2]
    BY <2>1, <2>2 DEF Words
  <2> QED BY <2>1, <2>3
<1> QED BY <1>1, <1>2

\* A reversed word is a word.
LEMMA RevBitsType ==
  ASSUME NEW n \in Nat, NEW v \in Words(n)
  PROVE  RevBits[n][v] \in Words(n)
<1> DEFINE S == {k \in Nat : \A u \in Words(k) : RevBits[k][u] \in Words(k)}
<1>1. 0 \in S
  BY RevBitsValues, Pow2Facts DEF Words
<1>2. ASSUME NEW k \in Nat, k \in S PROVE k + 1 \in S
  <2> SUFFICES ASSUME NEW u \in Words(k + 1) PROVE RevBits[k + 1][u] \in Words(k + 1)
    OBVIOUS
  <2>1. RevBits[k + 1][u] = (u % 2) * Pow2[k] + RevBits[k][u \div 2]
    BY RevBitsValues
  <2>2. RevBits[k][u \div 2] \in Words(k) /\ u % 2 \in {0, 1}
    BY <1>2, HalfWord
  <2>3. Pow2[k + 1] = 2 * Pow2[k] /\ Pow2[k] \in Nat \ {0}
    BY Pow2Facts
  <2>4. CASE u % 2 = 0
    <3>1. RevBits[k + 1][u] = RevBits[k][u \div 2]
      BY <2>1, <2>2, <2>3, <2>4 DEF Words
    <3> QED BY <3>1, <2>2, <2>3 DEF Words
  <2>5. CASE u % 2 = 1
    <3>1. RevBits[k + 1][u] = Pow2[k] + RevBits[k][u \div 2]
      BY <2>1, <2>3, <2>5
    <3> QED BY <3>1, <2>2, <2>3 DEF Words
  <2> QED BY <2>2, <2>4, <2>5
<1>3. Nat \subseteq S
  <2> HIDE DEF S
  <2> QED BY <1>1, <1>2, NatSetInduction
<1> QED BY <1>3

\* Two words joined.
LEMMA WordJoin ==
  ASSUME NEW e \in Nat, NEW m \in Nat, NEW a \in Words(e), NEW b \in Words(m)
  PROVE  a + Pow2[e] * b \in Words(e + m)
<1> DEFINE P == Pow2[e]
           M == Pow2[m]
<1>1. P \in Nat \ {0} /\ M \in Nat \ {0} /\ Pow2[e + m] = P * M
  BY Pow2Facts, Pow2Plus
<1>2. a \in Nat /\ a <= P - 1 /\ b \in Nat /\ b <= M - 1
  BY <1>1 DEF Words
<1> HIDE DEF P, M
<1>3. P * b <= P * (M - 1) /\ P * (M - 1) = P * M - P /\ P * b \in Nat /\ P * M \in Nat
  BY <1>1, <1>2
<1>4. a + P * b \in 0 .. (P * M) - 1
  BY <1>1, <1>2, <1>3
<1> QED
  BY <1>1, <1>4 DEF Words, P

\* The low e bits of a word become the high ones, and the high ones the low.
LEMMA RevSplit ==
  ASSUME NEW e \in Nat, NEW m \in Nat, NEW a \in Words(e), NEW b \in Words(m)
  PROVE  RevBits[e + m][a + Pow2[e] * b] = RevBits[e][a] * Pow2[m] + RevBits[m][b]
<1> DEFINE M == Pow2[m]
           B == RevBits[m][b]
           S == {k \in Nat : \A c \in Words(k) :
                    RevBits[k + m][c + Pow2[k] * b] = RevBits[k][c] * M + B}
<1>0. M \in Nat \ {0} /\ B \in Nat /\ b \in Nat
  BY Pow2Facts, RevBitsType DEF Words
<1>1. 0 \in S
  <2> SUFFICES ASSUME NEW c \in Words(0)
               PROVE  RevBits[0 + m][c + Pow2[0] * b] = RevBits[0][c] * M + B
    BY DEF S
  <2>1. c = 0 /\ Pow2[0] = 1 /\ 0 + m = m
    BY Pow2Facts DEF Words
  <2>2. c + Pow2[0] * b = b
    BY <2>1, <1>0
  <2>3. RevBits[0][c] * M = 0
    BY <2>1, <1>0, RevBitsValues
  <2>4. RevBits[0 + m][c + Pow2[0] * b] = B
    BY <2>1, <2>2
  <2> HIDE DEF M, B
  <2> QED BY <2>3, <2>4, <1>0
<1>2. ASSUME NEW k \in Nat, k \in S PROVE k + 1 \in S
  <2> SUFFICES ASSUME NEW c \in Words(k + 1)
               PROVE  RevBits[(k + 1) + m][c + Pow2[k + 1] * b] = RevBits[k + 1][c] * M + B
    BY DEF S
  <2> DEFINE P == Pow2[k]
             d == c \div 2
             r == c % 2
             w == c + Pow2[k + 1] * b
             X == RevBits[k][d]
             u == d + P * b
  <2>1. P \in Nat \ {0} /\ Pow2[k + 1] = 2 * P
    BY Pow2Facts
  <2>2. d \in Words(k) /\ r \in {0, 1} /\ c = 2 * d + r
    BY HalfWord
  <2>3. d \in Nat /\ X \in Nat
    BY <2>2, RevBitsType DEF Words
  <2>4. u \in Nat /\ w = 2 * u + r
    <3>1. P * b \in Nat
      BY <2>1, <1>0
    <3>2. (2 * P) * b = 2 * (P * b)
      BY <2>1, <1>0
    <3> HIDE DEF P, d, r
    <3> QED BY <3>1, <3>2, <2>1, <2>2, <2>3 DEF w, u
  <2>5. w \in Words((k + m) + 1)
    <3>1. w \in Words((k + 1) + m)
      BY WordJoin
    <3>2. (k + 1) + m = (k + m) + 1
      OBVIOUS
    <3> QED BY <3>1, <3>2
  <2>6. w % 2 = r /\ w \div 2 = u
    <3> HIDE DEF w, u, r
    <3> QED BY <2>2, <2>4
  <2>7. RevBits[(k + m) + 1][w] = (w % 2) * Pow2[k + m] + RevBits[k + m][w \div 2]
    <3> HIDE DEF w
    <3>1. k + m \in Nat
      OBVIOUS
    <3> QED BY <2>5, <3>1, RevBitsValues
  <2>8. RevBits[k + m][u] = X * M + B
    BY <1>2, <2>2 DEF S
  <2>9. Pow2[k + m] = P * M
    BY Pow2Plus
  <2>10. RevBits[k + 1][c] = r * P + X
    BY RevBitsValues
  <2>11. (k + 1) + m = (k + m) + 1
    OBVIOUS
  <2> HIDE DEF P, M, B, X, r, w, u
  <2>12. RevBits[(k + m) + 1][w] = r * (P * M) + (X * M + B)
    BY <2>6, <2>7, <2>8, <2>9
  <2>13. (r * P + X) * M + B = r * (P * M) + (X * M + B)
    BY <2>1, <2>2, <2>3, <1>0
  <2>14. RevBits[(k + 1) + m][w] = RevBits[k + 1][c] * M + B
    BY <2>10, <2>11, <2>12, <2>13
  <2> QED BY <2>14 DEF w
<1> HIDE DEF S
<1>3. Nat \subseteq S
  BY <1>1, <1>2, NatSetInduction
<1> QED
  BY <1>3 DEF S

\* Reversing twice gives the word back.
LEMMA RevRev ==
  ASSUME NEW n \in Nat, NEW v \in Words(n)
  PROVE  RevBits[n][RevBits[n][v]] = v
<1> DEFINE S == {k \in Nat : \A u \in Words(k) : RevBits[k][RevBits[k][u]] = u}
<1>1. 0 \in S
  BY RevBitsValues, Pow2Facts DEF Words
<1>2. ASSUME NEW k \in Nat, k \in S PROVE k + 1 \in S
  <2> SUFFICES ASSUME NEW u \in Words(k + 1) PROVE RevBits[k + 1][RevBits[k + 1][u]] = u
    OBVIOUS
  <2> DEFINE d == u \div 2
             r == u % 2
             X == RevBits[k][d]
  <2>1. d \in Words(k) /\ r \in {0, 1} /\ u = 2 * d + r
    BY HalfWord
  <2>2. X \in Words(k) /\ RevBits[k][X] = d
    BY <2>1, <1>2, RevBitsType
  <2>3. r \in Words(1)
    <3>1. Pow2[1] = 2
      <4>1. Pow2[0 + 1] = 2 * Pow2[0] /\ Pow2[0] = 1
        BY Pow2Facts
      <4> QED BY <4>1
    <3> QED BY <2>1, <3>1 DEF Words
  <2>4. RevBits[1][r] = r
    <3>1. r \in Words(0 + 1)
      BY <2>3
    <3>2. RevBits[0 + 1][r] = (r % 2) * Pow2[0] + RevBits[0][r \div 2]
      <4> HIDE DEF r
      <4> QED BY <3>1, RevBitsValues
    <3>3. r % 2 = r /\ r \div 2 = 0
      <4> HIDE DEF r
      <4> QED BY <2>1
    <3>4. Pow2[0] = 1 /\ RevBits[0][0] = 0
      BY Pow2Facts, RevBitsValues
    <3> HIDE DEF r
    <3> QED BY <3>2, <3>3, <3>4, <2>1
  <2>5. RevBits[k + 1][u] = r * Pow2[k] + X
    BY RevBitsValues
  <2>6. r * Pow2[k] + X = X + Pow2[k] * r
    <3>1. Pow2[k] \in Nat /\ X \in Nat /\ r \in Nat
      BY <2>1, <2>2, Pow2Facts DEF Words
    <3> HIDE DEF X, r
    <3> QED BY <3>1
  <2>7. RevBits[k + 1][X + Pow2[k] * r] = RevBits[k][X] * Pow2[1] + RevBits[1][r]
    <3> HIDE DEF X, r
    <3> QED BY <2>2, <2>3, RevSplit
  <2>8. Pow2[1] = 2
    <3>1. Pow2[0 + 1] = 2 * Pow2[0] /\ Pow2[0] = 1
      BY Pow2Facts
    <3> QED BY <3>1
  <2>9. d \in Nat /\ r \in Nat
    BY <2>1 DEF Words
  <2> HIDE DEF X, r, d
  <2>10. RevBits[k + 1][RevBits[k + 1][u]] = d * 2 + r
    BY <2>2, <2>4, <2>5, <2>6, <2>7, <2>8
  <2> QED BY <2>1, <2>9, <2>10
<1>3. Nat \subseteq S
  <2> HIDE DEF S
  <2> QED BY <1>1, <1>2, NatSetInduction
<1> QED BY <1>3

\* The word of zeros and the word of ones.
LEMMA RevConstant ==
  ASSUME NEW n \in Nat
  PROVE  RevBits[n][0] = 0 /\ RevBits[n][Pow2[n] - 1] = Pow2[n] - 1
<1> DEFINE S == {k \in Nat : RevBits[k][0] = 0 /\ RevBits[k][Pow2[k] - 1] = Pow2[k] - 1}
<1>1. 0 \in S
  BY RevBitsValues, Pow2Facts
<1>2. ASSUME NEW k \in Nat, k \in S PROVE k + 1 \in S
  <2>1. Pow2[k + 1] = 2 * Pow2[k] /\ Pow2[k] \in Nat \ {0}
    BY Pow2Facts
  <2>2. 0 \in Words(k + 1) /\ Pow2[k + 1] - 1 \in Words(k + 1)
    BY <2>1 DEF Words
  <2>3. /\ RevBits[k + 1][0] = (0 % 2) * Pow2[k] + RevBits[k][0 \div 2]
        /\ RevBits[k + 1][Pow2[k + 1] - 1]
             = ((Pow2[k + 1] - 1) % 2) * Pow2[k] + RevBits[k][(Pow2[k + 1] - 1) \div 2]
    BY <2>2, RevBitsValues
  <2>4. /\ (Pow2[k + 1] - 1) % 2 = 1 /\ (Pow2[k + 1] - 1) \div 2 = Pow2[k] - 1
        /\ 0 % 2 = 0 /\ 0 \div 2 = 0
    BY <2>1
  <2>5. RevBits[k][0] = 0 /\ RevBits[k][Pow2[k] - 1] = Pow2[k] - 1
    BY <1>2
  <2>6. RevBits[k + 1][0] = 0
    BY <2>1, <2>3, <2>4, <2>5
  <2>7. RevBits[k + 1][Pow2[k + 1] - 1] = Pow2[k + 1] - 1
    BY <2>1, <2>3, <2>4, <2>5
  <2> QED BY <2>6, <2>7
<1>3. Nat \subseteq S
  <2> HIDE DEF S
  <2> QED BY <1>1, <1>2, NatSetInduction
<1> QED BY <1>3

-----------------------------------------------------------------------------
(* Cursors.  A bucket of a table with 2^e buckets takes Span(e) consecutive *)
(* values of the reversed cursor, and a scan goes through them in order.    *)

Cursors == Words(CursorBits)
Span(e) == Pow2[CursorBits - e]

\* The reversed cursor at which the bucket of v in a table with 2^e buckets ends.
Beyond(v, e) == (Rev[v] \div Span(e) + 1) * Span(e)

\* A cursor in a table with 2^e buckets: its bucket and the bits above.
LEMMA CursorParts ==
  ASSUME NEW e \in Nat, e <= CursorBits, NEW v \in Cursors
  PROVE  /\ Pow2[e] \in Nat \ {0} /\ Span(e) \in Nat \ {0}
         /\ Pow2[CursorBits] = Pow2[e] * Span(e)
         /\ v % Pow2[e] \in Words(e) /\ v \div Pow2[e] \in Words(CursorBits - e)
         /\ v = (v % Pow2[e]) + Pow2[e] * (v \div Pow2[e])
         /\ Rev[v] \in Cursors
         /\ Rev[v] \div Span(e) = RevBits[e][v % Pow2[e]]
         /\ Rev[v] % Span(e) = RevBits[CursorBits - e][v \div Pow2[e]]
<1> DEFINE P == Pow2[e]
           m == CursorBits - e
           M == Pow2[m]
           a == v % P
           b == v \div P
<1>0. CursorBits \in Nat /\ m \in Nat /\ e + m = CursorBits
  BY HashAssumption
<1>1. P \in Nat \ {0} /\ M \in Nat \ {0} /\ Pow2[e + m] = P * M
  BY <1>0, Pow2Facts, Pow2Plus
<1>2. v \in Nat /\ v < P * M
  <2>1. v \in 0 .. Pow2[CursorBits] - 1
    BY DEF Cursors, Words
  <2>2. P * M \in Nat
    BY <1>1
  <2> QED BY <2>1, <2>2, <1>0, <1>1
<1>3. a \in Nat /\ b \in Nat /\ a < P /\ v = P * b + a
  <2> HIDE DEF P
  <2> QED BY <1>1, <1>2, DivMod
<1>4. b < M
  <2> HIDE DEF P, M, a, b
  <2>1. CASE b >= M
    <3>1. P * b >= P * M
      BY <2>1, <1>1, <1>3
    <3> QED BY <3>1, <1>1, <1>2, <1>3
  <2> QED BY <2>1, <1>1, <1>3
<1>5. a \in Words(e) /\ b \in Words(m)
  <2>1. a \in 0 .. P - 1 /\ b \in 0 .. M - 1
    BY <1>1, <1>3, <1>4
  <2> HIDE DEF a, b
  <2> QED BY <2>1 DEF Words
<1>6. v = a + P * b
  BY <1>1, <1>3
<1>7. Rev[v] = RevBits[e][a] * M + RevBits[m][b]
  <2>1. RevBits[e + m][a + Pow2[e] * b] = RevBits[e][a] * Pow2[m] + RevBits[m][b]
    <3> HIDE DEF a, b, m
    <3> QED BY <1>0, <1>5, RevSplit
  <2> QED BY <2>1, <1>0, <1>6 DEF Rev
<1>8. Rev[v] \in Cursors
  BY <1>0, RevBitsType DEF Rev, Cursors
<1> DEFINE X == RevBits[e][a]
           Y == RevBits[m][b]
<1>9. X \in Nat /\ Y \in Nat /\ Y < M
  <2>1. X \in Words(e) /\ Y \in Words(m)
    BY <1>0, <1>5, RevBitsType
  <2> HIDE DEF X, Y
  <2> QED BY <2>1, <1>1 DEF Words
<1>10. Rev[v] \div M = X /\ Rev[v] % M = Y
  <2>1. Rev[v] = M * X + Y
    <3>1. X * M = M * X
      BY <1>1, <1>9
    <3> HIDE DEF X, Y, M
    <3> QED BY <3>1, <1>7 DEF X, Y
  <2> HIDE DEF X, Y, M
  <2>2. (M * X + Y) \div M = X /\ (M * X + Y) % M = Y
    BY <1>1, <1>9, DivModUnique
  <2> QED BY <2>1, <2>2
<1>11. Span(e) = M
  BY DEF Span
<1> HIDE DEF M, X, Y, a, b
<1>12. Rev[v] \div Span(e) = X /\ Rev[v] % Span(e) = Y
  BY <1>10, <1>11
<1> QED BY <1>0, <1>1, <1>5, <1>6, <1>8, <1>11, <1>12 DEF X, Y, a, b

\* The bucket of a cursor is decided by the high bits of the reversed cursor.
LEMMA SameBucket ==
  ASSUME NEW e \in Nat, e <= CursorBits, NEW u \in Cursors, NEW v \in Cursors
  PROVE  Rev[u] \div Span(e) = Rev[v] \div Span(e) <=> u % Pow2[e] = v % Pow2[e]
<1>1. u % Pow2[e] \in Words(e) /\ Rev[u] \div Span(e) = RevBits[e][u % Pow2[e]]
  BY CursorParts
<1>2. v % Pow2[e] \in Words(e) /\ Rev[v] \div Span(e) = RevBits[e][v % Pow2[e]]
  BY CursorParts
<1> DEFINE a == u % Pow2[e]
           b == v % Pow2[e]
<1>3. RevBits[e][RevBits[e][a]] = a /\ RevBits[e][RevBits[e][b]] = b
  BY <1>1, <1>2, RevRev
<1>4. RevBits[e][a] = RevBits[e][b] <=> a = b
  <2> HIDE DEF a, b
  <2> QED BY <1>3
<1> QED BY <1>1, <1>2, <1>4

\* Different cursors have different reversed cursors.
LEMMA RevInjective ==
  ASSUME NEW u \in Cursors, NEW v \in Cursors, Rev[u] = Rev[v]
  PROVE  u = v
BY HashAssumption, RevRev DEF Rev, Cursors

\* The cursors below 2^e are those at which a bucket begins.
LEMMA BucketBegins ==
  ASSUME NEW e \in Nat, e <= CursorBits, NEW v \in Cursors
  PROVE  Rev[v] % Span(e) = 0 <=> v < Pow2[e]
<1> DEFINE P == Pow2[e]
           b == v \div P
           m == CursorBits - e
<1>0. m \in Nat
  BY HashAssumption
<1>1. /\ P \in Nat \ {0} /\ v % P \in Words(e) /\ b \in Words(m)
      /\ v = (v % P) + P * b
      /\ Rev[v] % Span(e) = RevBits[m][b]
  BY CursorParts
<1>2. b \in Nat /\ v % P \in Nat /\ v % P < P /\ 0 \in Words(m)
  <2>1. Pow2[m] \in Nat \ {0}
    BY <1>0, Pow2Facts
  <2> QED BY <1>1, <2>1 DEF Words
<1>3. RevBits[m][b] = 0 <=> b = 0
  <2>1. RevBits[m][0] = 0 /\ RevBits[m][RevBits[m][b]] = b
    BY <1>0, <1>1, RevConstant, RevRev
  <2> HIDE DEF b, m
  <2> QED BY <2>1
<1> DEFINE a == v % P
<1>4. a \in Nat /\ a < P /\ v = a + P * b
  BY <1>1, <1>2
<1> HIDE DEF P, b, a
<1>5. b = 0 <=> v < P
  <2>1. CASE b = 0
    <3>1. P * b = 0
      BY <2>1, <1>1
    <3> QED BY <2>1, <3>1, <1>1, <1>4
  <2>2. CASE b # 0
    <3>1. P * b >= P
      BY <2>2, <1>1, <1>2
    <3>2. P * b \in Nat
      BY <1>1, <1>2
    <3> QED BY <2>2, <3>1, <3>2, <1>1, <1>4
  <2> QED BY <2>1, <2>2
<1> QED BY <1>1, <1>3, <1>5 DEF P

\* Products in order.
LEMMA MulOrder ==
  ASSUME NEW a \in Nat, NEW b \in Nat, NEW m \in Nat \ {0}
  PROVE  /\ a * m \in Nat
         /\ a * m < b * m <=> a < b
         /\ a * m <= b * m <=> a <= b
<1>1. a * m \in Nat /\ b * m \in Nat
  OBVIOUS
<1>2. CASE a <= b
  <2>1. b * m = a * m + (b - a) * m /\ (b - a) * m \in Nat
    BY <1>2
  <2>2. a < b => (b - a) * m >= m
    BY <1>2
  <2>3. a = b => (b - a) * m = 0
    BY <1>2
  <2> QED BY <1>1, <1>2, <2>1, <2>2, <2>3
<1>3. CASE b < a
  <2>1. a * m = b * m + (a - b) * m /\ (a - b) * m >= m
    BY <1>3
  <2> QED BY <1>1, <1>3, <2>1
<1> QED BY <1>2, <1>3

\* The end of a bucket, among the reversed cursors.
LEMMA BeyondFacts ==
  ASSUME NEW e \in Nat, e <= CursorBits, NEW v \in Cursors
  PROVE  /\ Rev[v] \in Nat /\ Beyond(v, e) \in Nat
         /\ Rev[v] < Beyond(v, e) /\ Beyond(v, e) <= Pow2[CursorBits]
         /\ Beyond(v, e) - Span(e) <= Rev[v]
         /\ Rev[v] \div Span(e) \in Nat /\ Rev[v] \div Span(e) < Pow2[e]
<1> DEFINE M == Span(e)
           P == Pow2[e]
           q == Rev[v] \div M
           r == Rev[v] % M
<1>1. /\ P \in Nat \ {0} /\ M \in Nat \ {0} /\ Pow2[CursorBits] = P * M
      /\ Rev[v] \in Cursors /\ q = RevBits[e][v % P] /\ v % P \in Words(e)
  BY CursorParts
<1>2. Rev[v] \in Nat
  BY <1>1 DEF Cursors, Words
<1>3. q \in Nat /\ r \in Nat /\ r < M /\ Rev[v] = M * q + r
  <2> HIDE DEF M
  <2> QED BY <1>1, <1>2, DivMod
<1>4. q < P
  <2>1. q \in Words(e)
    BY <1>1, RevBitsType
  <2> HIDE DEF q
  <2> QED BY <2>1, <1>1 DEF Words
<1>5. Beyond(v, e) = (q + 1) * M
  BY DEF Beyond
<1> HIDE DEF q, r, M, P
<1>6. (q + 1) * M = M * q + M /\ M * q \in Nat
  BY <1>1, <1>3
<1>7. (q + 1) * M <= P * M
  BY <1>1, <1>3, <1>4, MulOrder
<1>8. Beyond(v, e) - M <= Rev[v] /\ Rev[v] < Beyond(v, e) /\ Beyond(v, e) \in Nat
  BY <1>1, <1>3, <1>5, <1>6
<1> QED BY <1>1, <1>2, <1>3, <1>4, <1>5, <1>7, <1>8 DEF M, P, q

\* The cursors from v to there are in the bucket of v.
LEMMA WithinBucket ==
  ASSUME NEW e \in Nat, e <= CursorBits, NEW u \in Cursors, NEW v \in Cursors,
         Rev[v] <= Rev[u], Rev[u] < Beyond(v, e)
  PROVE  u % Pow2[e] = v % Pow2[e]
<1> DEFINE M == Span(e)
           q == Rev[v] \div M
           k == Rev[u] \div M
<1>1. M \in Nat \ {0}
  BY CursorParts
<1>2. Rev[u] \in Nat /\ Rev[v] \in Nat /\ Beyond(v, e) - M <= Rev[v]
  BY BeyondFacts
<1>3. Beyond(v, e) = (q + 1) * M /\ q \in Nat
  BY BeyondFacts DEF Beyond
<1> HIDE DEF M
<1>4. k = q
  <2> DEFINE s == Rev[u] - M * q
  <2>1. (q + 1) * M = M * q + M /\ M * q \in Nat
    BY <1>1, <1>3
  <2>2. s \in Nat /\ s < M /\ Rev[u] = M * q + s
    BY <1>1, <1>2, <1>3, <2>1
  <2> HIDE DEF s, q
  <2>3. (M * q + s) \div M = q
    BY <1>1, <1>3, <2>2, DivModUnique
  <2> QED BY <2>2, <2>3
<1> QED BY <1>4, SameBucket DEF M

\* The next cursor is where the bucket ends, or zero after the last one.
LEMMA NextCursorRev ==
  ASSUME NEW e \in Nat, e <= CursorBits, NEW v \in Cursors
  PROVE  /\ NextCursor(v, e) \in Cursors
         /\ Rev[NextCursor(v, e)]
              = IF Beyond(v, e) = Pow2[CursorBits] THEN 0 ELSE Beyond(v, e)
<1> DEFINE N == Pow2[CursorBits]
           M == Span(e)
           P == Pow2[e]
           m == CursorBits - e
           a == v % P
           q == Rev[v] \div M
           w == a + (N - P)
<1>0. CursorBits \in Nat /\ m \in Nat /\ e + m = CursorBits
  BY HashAssumption
<1>1. /\ P \in Nat \ {0} /\ M \in Nat \ {0} /\ N = P * M
      /\ a \in Words(e) /\ q = RevBits[e][a]
  BY CursorParts
<1>2. M = Pow2[m]
  BY DEF Span
<1>3. M - 1 \in Words(m) /\ RevBits[m][M - 1] = M - 1
  <2>1. RevBits[m][Pow2[m] - 1] = Pow2[m] - 1
    BY <1>0, RevConstant
  <2> QED BY <1>1, <1>2, <2>1 DEF Words
<1>4. w = a + P * (M - 1)
  <2>1. a \in Nat
    BY <1>1 DEF Words
  <2> HIDE DEF P, M, N, a
  <2>2. P * (M - 1) = P * M - P /\ P * M \in Nat
    BY <1>1
  <2> QED BY <1>1, <2>1, <2>2 DEF w
<1>5. w \in Cursors
  <2>1. a + Pow2[e] * (M - 1) \in Words(e + m)
    <3> HIDE DEF a, M, m
    <3> QED BY <1>0, <1>1, <1>3, WordJoin
  <2> QED BY <2>1, <1>0, <1>4 DEF Cursors
<1>6. Rev[w] = q * M + (M - 1)
  <2>1. RevBits[e + m][a + Pow2[e] * (M - 1)] = RevBits[e][a] * Pow2[m] + RevBits[m][M - 1]
    <3> HIDE DEF a, M, m
    <3> QED BY <1>0, <1>1, <1>3, RevSplit
  <2> HIDE DEF M, m, q
  <2> QED BY <2>1, <1>0, <1>1, <1>2, <1>3, <1>4 DEF Rev
<1>7. q \in Nat /\ Beyond(v, e) = (q + 1) * M
  BY BeyondFacts DEF Beyond
<1>8. Rev[w] + 1 = Beyond(v, e)
  <2> HIDE DEF M, q, w
  <2>1. (q + 1) * M = q * M + M /\ q * M \in Nat
    BY <1>1, <1>7
  <2> QED BY <1>1, <1>6, <1>7, <2>1
<1>9. Beyond(v, e) \in Nat /\ Beyond(v, e) <= N
  BY BeyondFacts
<1> DEFINE t == Beyond(v, e) % N
<1>10. N \in Nat \ {0}
  BY <1>0, Pow2Facts
<1>11. t = IF Beyond(v, e) = N THEN 0 ELSE Beyond(v, e)
  <2> HIDE DEF N
  <2>1. CASE Beyond(v, e) = N
    BY <2>1, <1>10
  <2>2. CASE Beyond(v, e) # N
    BY <2>2, <1>9, <1>10
  <2> QED BY <2>1, <2>2
<1>12. t \in Cursors
  BY <1>9, <1>10, <1>11 DEF Cursors, Words
<1>13. NextCursor(v, e) = Rev[t]
  <2>1. NextCursor(v, e) = Rev[(Rev[w] + 1) % N]
    BY DEF NextCursor
  <2> HIDE DEF w, N
  <2> QED BY <2>1, <1>8 DEF t
<1>14. Rev[t] \in Cursors /\ Rev[Rev[t]] = t
  <2> HIDE DEF t
  <2> QED BY <1>0, <1>12, RevBitsType, RevRev DEF Rev, Cursors
<1> HIDE DEF t, N
<1>15. Rev[NextCursor(v, e)] = t
  BY <1>13, <1>14
<1> QED BY <1>11, <1>13, <1>14, <1>15 DEF N

\* Where the loop of a scan over the larger table stops: where a bucket of the smaller
\* one begins.
LEMMA LoopStops ==
  ASSUME NEW s \in Nat, NEW l \in Nat, s <= l, l <= CursorBits, NEW u \in Cursors
  PROVE  (NextCursor(u, l) % Pow2[l]) \div Pow2[s] = 0
           <=> Rev[NextCursor(u, l)] % Span(s) = 0
<1> DEFINE w == NextCursor(u, l)
           M == Span(l)
           q == Rev[u] \div M
<1>0. CursorBits \in Nat /\ s <= CursorBits
  BY HashAssumption
<1>1. w \in Cursors /\ (Rev[w] = 0 \/ Rev[w] = Beyond(u, l))
  BY NextCursorRev
<1>2. M \in Nat \ {0} /\ q \in Nat /\ Beyond(u, l) = (q + 1) * M
  BY CursorParts, BeyondFacts DEF Beyond
<1>3. 0 % M = 0 /\ ((q + 1) * M) % M = 0
  <2> HIDE DEF M, q
  <2>1. 0 < M /\ q + 1 \in Nat
    BY <1>2
  <2> DEFINE k == q + 1
  <2>2. k * M = M * k + 0 /\ M * 0 + 0 = 0
    BY <1>2, <2>1
  <2> HIDE DEF k
  <2>3. (M * k + 0) % M = 0 /\ (M * 0 + 0) % M = 0
    BY <1>2, <2>1, DivModUnique DEF k
  <2>4. (k * M) % M = 0 /\ 0 % M = 0
    BY <2>2, <2>3
  <2> QED BY <2>4 DEF k
<1>4. Rev[w] % M = 0
  <2> HIDE DEF w, M, q
  <2> QED BY <1>1, <1>2, <1>3
<1>5. w < Pow2[l]
  BY <1>1, <1>4, BucketBegins
<1>6. Pow2[l] \in Nat \ {0} /\ Pow2[s] \in Nat \ {0} /\ w \in Nat
  BY <1>1, <1>0, Pow2Facts DEF Cursors, Words
<1>7. w % Pow2[l] = w
  <2> HIDE DEF w
  <2> QED BY <1>5, <1>6
<1>8. w \div Pow2[s] = 0 <=> w < Pow2[s]
  <2> HIDE DEF w
  <2> DEFINE P == Pow2[s]
             b == w \div P
             a == w % P
  <2>1. P \in Nat \ {0} /\ a \in Nat /\ b \in Nat /\ a < P /\ w = P * b + a
    <3> HIDE DEF P
    <3> QED BY <1>6, DivMod DEF P
  <2> HIDE DEF P, a, b
  <2>2. b = 0 => P * b = 0
    BY <2>1
  <2>3. b # 0 => P * b >= P
    BY <2>1
  <2>4. P * b \in Nat
    BY <2>1
  <2>5. b = 0 <=> w < P
    BY <2>1, <2>2, <2>3, <2>4
  <2> QED BY <2>5 DEF P, b
<1>9. Rev[w] % Span(s) = 0 <=> w < Pow2[s]
  BY <1>0, <1>1, BucketBegins
<1> HIDE DEF w
<1>10. (w % Pow2[l]) \div Pow2[s] = 0 <=> Rev[w] % Span(s) = 0
  BY <1>7, <1>8, <1>9
<1> QED BY <1>10 DEF w

\* One step of that loop, from a cursor inside the bucket of v in the smaller table: to
\* the next cursor of the smaller table, or to a later cursor inside the bucket.
LEMMA LoopStep ==
  ASSUME NEW s \in Nat, NEW l \in Nat, s <= l, l <= CursorBits,
         NEW v \in Cursors, NEW u \in Cursors, Rev[v] <= Rev[u], Rev[u] < Beyond(v, s)
  PROVE  \/ /\ NextCursor(u, l) = NextCursor(v, s)
            /\ Beyond(u, l) = Beyond(v, s)
            /\ Rev[NextCursor(u, l)] % Span(s) = 0
         \/ /\ Rev[NextCursor(u, l)] = Beyond(u, l) /\ Beyond(u, l) < Beyond(v, s)
            /\ Rev[NextCursor(u, l)] \div Span(l) = Rev[u] \div Span(l) + 1
            /\ Rev[NextCursor(u, l)] % Span(s) # 0
<1> DEFINE w == NextCursor(u, l)
           M == Span(l)
           K == Span(s)
           D == Pow2[l - s]
           N == Pow2[CursorBits]
           q == Rev[u] \div M
           g == Rev[v] \div K
           B == Beyond(u, l)
           H == Beyond(v, s)
<1>0. CursorBits \in Nat /\ s <= CursorBits
  BY HashAssumption
<1>1. M \in Nat \ {0} /\ K \in Nat \ {0}
  BY <1>0, CursorParts
<1>2. D \in Nat \ {0} /\ K = D * M
  <2>1. l - s \in Nat /\ CursorBits - l \in Nat /\ (l - s) + (CursorBits - l) = CursorBits - s
    BY <1>0
  <2> DEFINE a == l - s
             b == CursorBits - l
  <2> HIDE DEF a, b
  <2>2. a \in Nat /\ b \in Nat /\ a + b = CursorBits - s
    BY <2>1 DEF a, b
  <2>3. Pow2[a + b] = Pow2[a] * Pow2[b] /\ Pow2[a] \in Nat \ {0}
    BY <2>2, Pow2Facts, Pow2Plus
  <2>4. D = Pow2[a] /\ M = Pow2[b] /\ K = Pow2[a + b]
    BY <2>2 DEF a, b, Span
  <2> QED BY <2>3, <2>4
<1>3. q \in Nat /\ g \in Nat /\ B = (q + 1) * M /\ H = (g + 1) * K
  BY <1>0, BeyondFacts DEF Beyond
<1>4. /\ Rev[u] \in Nat /\ Rev[v] \in Nat /\ B \in Nat /\ H \in Nat /\ Rev[u] < B
      /\ B <= N /\ H <= N /\ B - M <= Rev[u] /\ H - K <= Rev[v] /\ N \in Nat \ {0}
  BY <1>0, BeyondFacts, Pow2Facts
<1>5. w \in Cursors /\ Rev[w] = IF B = N THEN 0 ELSE B
  BY NextCursorRev
<1>6. NextCursor(v, s) \in Cursors /\ Rev[NextCursor(v, s)] = IF H = N THEN 0 ELSE H
  BY <1>0, NextCursorRev
<1>7. Rev[u] < H
  OBVIOUS
<1>8. B <= H
  <2> HIDE DEF M, K, D, N, q, g, B, H
  <2>1. H = ((g + 1) * D) * M /\ (g + 1) * D \in Nat
    BY <1>1, <1>2, <1>3
  <2>2. q * M <= Rev[u]
    <3>1. (q + 1) * M = q * M + M /\ q * M \in Nat
      BY <1>1, <1>3
    <3> QED BY <3>1, <1>1, <1>3, <1>4
  <2>3. q * M < H /\ q * M \in Nat
    BY <1>1, <1>3, <1>4, <1>7, <2>2
  <2> DEFINE h == (g + 1) * D
  <2>4. h \in Nat /\ H = h * M
    BY <2>1
  <2> HIDE DEF h
  <2>5. q < h
    BY <2>3, <2>4, <1>1, <1>3, MulOrder
  <2>6. q + 1 \in Nat /\ q + 1 <= h
    BY <2>4, <2>5, <1>3
  <2>7. (q + 1) * M <= h * M
    BY <2>4, <2>6, <1>1, MulOrder
  <2> QED BY <2>4, <2>7, <1>3
<1>9. CASE B = H
  <2>1. Rev[w] = Rev[NextCursor(v, s)]
    BY <1>5, <1>6, <1>9
  <2>2. w = NextCursor(v, s)
    BY <2>1, <1>5, <1>6, RevInjective
  <2>3. Rev[w] % K = 0
    <3>1. Rev[w] = 0 \/ Rev[w] = (g + 1) * K
      BY <1>3, <1>5, <1>9
    <3> HIDE DEF w, K, g
    <3> DEFINE h == g + 1
    <3>2. h \in Nat /\ h * K = K * h + 0 /\ K * 0 + 0 = 0
      BY <1>1, <1>3
    <3> HIDE DEF h
    <3>3. (K * h + 0) % K = 0 /\ (K * 0 + 0) % K = 0
      BY <1>1, <3>2, DivModUnique
    <3>4. (h * K) % K = 0 /\ 0 % K = 0
      BY <3>2, <3>3
    <3> QED BY <3>1, <3>4 DEF h
  <2> QED BY <2>2, <2>3, <1>9
<1>10. CASE B # H
  <2>1. B < H /\ Rev[w] = B
    <3> HIDE DEF B, H, N, w
    <3> QED BY <1>4, <1>5, <1>8, <1>10
  <2>2. Rev[w] \div M = q + 1
    <3> HIDE DEF M, q, w, B
    <3> DEFINE h == q + 1
    <3>1. h \in Nat /\ h * M = M * h + 0
      BY <1>1, <1>3
    <3> HIDE DEF h
    <3>2. (M * h + 0) \div M = h
      BY <1>1, <3>1, DivModUnique
    <3>3. Rev[w] = h * M
      BY <2>1, <1>3 DEF h
    <3>4. Rev[w] \div M = h
      BY <3>1, <3>2, <3>3
    <3> QED BY <3>4 DEF h
  <2>3. Rev[w] % K # 0
    <3> HIDE DEF M, K, D, N, q, g, B, H, w
    <3> DEFINE r == B - K * g
    <3>1. (g + 1) * K = K * g + K /\ K * g \in Nat
      BY <1>1, <1>3
    <3>2. r \in Nat /\ 0 < r /\ r < K /\ B = K * g + r
      BY <3>1, <1>1, <1>3, <1>4, <2>1
    <3> HIDE DEF r
    <3>3. (K * g + r) % K = r
      BY <3>2, <1>1, <1>3, DivModUnique
    <3>4. Rev[w] % K = r
      BY <3>2, <3>3, <2>1
    <3> QED BY <3>2, <3>4
  <2> QED BY <2>1, <2>2, <2>3
<1> QED BY <1>9, <1>10

\* First() is the least element of a set of natural numbers.
LEMMA FirstIsLeast ==
  ASSUME NEW P, P \subseteq Nat, P # {}
  PROVE  First(P) \in P /\ \A q \in P : First(P) <= q
<1> DEFINE R == OpToRel(<, Nat)
<1>1. IsWellFoundedOn(R, Nat)
  BY NatLessThanWellFounded
<1>2. \A y, x \in Nat : y < x => <<y, x>> \in R
  BY DEF OpToRel
<1> HIDE DEF R
<1>3. \E x \in P : \A y \in P : ~ (<<y, x>> \in R)
  BY <1>1, WFMin
<1>5. PICK x \in P : \A y \in P : ~ (<<y, x>> \in R)
  BY <1>3
<1>4. ASSUME NEW y \in P PROVE x <= y
  <2>1. x \in Nat /\ y \in Nat
    OBVIOUS
  <2>2. ~ (y < x)
    BY <1>2, <1>5, <2>1
  <2> QED BY <2>1, <2>2
<1> QED
  BY <1>3, <1>4 DEF First

\* The cursors of that loop.
Loop(v, l, n, c) == c = [k \in 0 .. n |-> IF k = 0 THEN v ELSE NextCursor(c[k - 1], l)]

\* They are cursors, one after the other.
LEMMA LoopValues ==
  ASSUME NEW v \in Cursors, NEW l \in Nat, l <= CursorBits, NEW n \in Nat,
         NEW c, Loop(v, l, n, c)
  PROVE  /\ c[0] = v
         /\ \A k \in 0 .. n : c[k] \in Cursors
         /\ \A k \in Nat : k < n => c[k + 1] = NextCursor(c[k], l)
<1>1. c[0] = v
  BY DEF Loop
<1>2. ASSUME NEW k \in Nat, k < n PROVE c[k + 1] = NextCursor(c[k], l)
  <2>1. k + 1 \in 0 .. n /\ k + 1 # 0 /\ (k + 1) - 1 = k
    BY <1>2
  <2> QED BY <2>1 DEF Loop
<1> DEFINE S == {k \in Nat : c[k] \in Cursors}
<1>3. 0 \in S
  BY <1>1
<1>4. \A k \in Nat : k < n /\ k \in S => k + 1 \in S
  BY <1>2, NextCursorRev
<1>5. \A k \in 0 .. n : k \in S
  <2> HIDE DEF S
  <2> QED BY <1>3, <1>4, IntervalInduction
<1> QED BY <1>1, <1>2, <1>5

\* They exist.
LEMMA LoopExists ==
  ASSUME NEW v \in Cursors, NEW l \in Nat, l <= CursorBits, NEW n \in Nat
  PROVE  \E c : Loop(v, l, n, c)
<1> DEFINE F == [p \in Nat \X Cursors |-> NextCursor(p[2], l)]
<1>1. PICK c : Recursion(v, F, n, c)
  <2> HIDE DEF F
  <2> QED BY RecursionExists
<1>2. c = [i \in 0 .. n |-> IF i = 0 THEN v ELSE F[<<i, c[i - 1]>>]]
  BY <1>1 DEF Recursion
<1>3. \A i \in Nat : \A u \in Cursors : F[<<i, u>>] = NextCursor(u, l)
  OBVIOUS
<1> HIDE DEF F
<1> DEFINE S == {k \in Nat : c[k] \in Cursors}
<1>4. 0 \in S
  BY <1>2
<1>5. ASSUME NEW k \in Nat, k < n, k \in S PROVE k + 1 \in S
  <2>1. k + 1 \in 0 .. n /\ k + 1 # 0 /\ (k + 1) - 1 = k
    BY <1>5
  <2>2. c[k + 1] = F[<<k + 1, c[k]>>]
    BY <1>2, <2>1
  <2>3. c[k + 1] = NextCursor(c[k], l)
    BY <1>3, <1>5, <2>2
  <2> QED BY <1>5, <2>3, NextCursorRev
<1>6. \A k \in 0 .. n : k \in S
  <2> HIDE DEF S
  <2>1. \A k \in Nat : k < n /\ k \in S => k + 1 \in S
    BY <1>5
  <2> QED BY <1>4, <2>1, IntervalInduction
<1>7. ASSUME NEW i \in 0 .. n, i # 0 PROVE F[<<i, c[i - 1]>>] = NextCursor(c[i - 1], l)
  <2>1. i - 1 \in 0 .. n /\ i \in Nat
    BY <1>7
  <2>2. c[i - 1] \in Cursors
    BY <2>1, <1>6
  <2> QED BY <1>3, <2>1, <2>2
<1>8. Loop(v, l, n, c)
  BY <1>2, <1>7 DEF Loop
<1> QED BY <1>8

\* Up to where the loop stops its cursors go through the bucket of v.
LEMMA LoopCovers ==
  ASSUME NEW s \in Nat, NEW l \in Nat, s <= l, l <= CursorBits, NEW v \in Cursors,
         NEW n \in Nat, NEW c, Loop(v, l, n, c),
         NEW m \in 0 .. n, \A j \in 1 .. m : Rev[c[j]] % Span(s) # 0
  PROVE  /\ Rev[v] <= Rev[c[m]] /\ Rev[c[m]] < Beyond(v, s)
         /\ m <= Rev[c[m]] \div Span(l)
         /\ \A u \in Cursors : Rev[v] <= Rev[u] /\ Rev[u] < Rev[c[m]]
              => \E j \in 0 .. m - 1 : u % Pow2[l] = c[j] % Pow2[l]
<1> DEFINE In(k) == Rev[v] <= Rev[c[k]] /\ Rev[c[k]] < Beyond(v, s)
           Far(k) == k <= Rev[c[k]] \div Span(l)
           Covers(k) == \A u \in Cursors : Rev[v] <= Rev[u] /\ Rev[u] < Rev[c[k]]
                          => \E j \in 0 .. k - 1 : u % Pow2[l] = c[j] % Pow2[l]
           S == {k \in Nat : In(k) /\ Far(k) /\ Covers(k)}
<1>0. s <= CursorBits /\ CursorBits \in Nat
  BY HashAssumption
<1>1. /\ c[0] = v
      /\ \A k \in 0 .. n : c[k] \in Cursors
      /\ \A k \in Nat : k < n => c[k + 1] = NextCursor(c[k], l)
  BY LoopValues
<1>2. \A u \in Cursors : Rev[u] \in Nat /\ Rev[u] \div Span(l) \in Nat
  BY BeyondFacts
<1>3. 0 \in S
  <2>1. In(0)
    BY <1>0, <1>1, BeyondFacts
  <2>2. Far(0)
    BY <1>1, <1>2
  <2>3. Covers(0)
    BY <1>1, <1>2
  <2> HIDE DEF In, Far, Covers
  <2> QED BY <2>1, <2>2, <2>3
<1>4. ASSUME NEW k \in Nat, k < m, k \in S PROVE k + 1 \in S
  <2> DEFINE u == c[k]
             w == c[k + 1]
  <2>1. k \in 0 .. n /\ k < n /\ k + 1 \in 1 .. m /\ k + 1 \in 0 .. n
    BY <1>4
  <2>2. u \in Cursors /\ w \in Cursors /\ w = NextCursor(u, l) /\ Rev[w] % Span(s) # 0
    BY <1>1, <2>1
  <2>3. In(k) /\ Far(k) /\ Covers(k)
    BY <1>4
  <2>4. /\ Rev[w] = Beyond(u, l) /\ Beyond(u, l) < Beyond(v, s)
        /\ Rev[w] \div Span(l) = Rev[u] \div Span(l) + 1
    <3>1. Rev[v] <= Rev[u] /\ Rev[u] < Beyond(v, s)
      BY <2>3
    <3> HIDE DEF u, w
    <3> QED BY <2>2, <3>1, LoopStep
  <2>5. Rev[u] < Beyond(u, l) /\ Beyond(u, l) \in Nat
    BY <2>2, BeyondFacts
  <2>6. /\ Rev[u] \in Nat /\ Rev[v] \in Nat /\ Rev[w] \in Nat /\ Rev[u] \div Span(l) \in Nat
        /\ Beyond(v, s) \in Nat
    BY <1>0, <1>2, <2>2, BeyondFacts
  <2>7. In(k + 1)
    BY <2>3, <2>4, <2>5, <2>6
  <2>8. Far(k + 1)
    BY <2>3, <2>4, <2>6
  <2>9. Covers(k + 1)
    <3> SUFFICES ASSUME NEW y \in Cursors, Rev[v] <= Rev[y], Rev[y] < Rev[w]
                 PROVE  \E j \in 0 .. (k + 1) - 1 : y % Pow2[l] = c[j] % Pow2[l]
      OBVIOUS
    <3>1. CASE Rev[y] < Rev[u]
      <4>1. PICK j \in 0 .. k - 1 : y % Pow2[l] = c[j] % Pow2[l]
        BY <2>3, <3>1
      <4>2. j \in 0 .. (k + 1) - 1
        OBVIOUS
      <4> QED BY <4>1, <4>2
    <3>2. CASE ~ (Rev[y] < Rev[u])
      <4>1. Rev[u] <= Rev[y] /\ Rev[y] < Beyond(u, l)
        BY <1>2, <2>4, <2>6, <3>2
      <4>2. y % Pow2[l] = u % Pow2[l]
        BY <2>2, <4>1, WithinBucket
      <4>3. k \in 0 .. (k + 1) - 1
        OBVIOUS
      <4> QED BY <4>2, <4>3
    <3> QED BY <3>1, <3>2
  <2> HIDE DEF In, Far, Covers
  <2> QED BY <2>7, <2>8, <2>9
<1>5. \A k \in 0 .. m : k \in S
  <2> HIDE DEF S
  <2>1. \A k \in Nat : k < m /\ k \in S => k + 1 \in S
    BY <1>4
  <2> QED BY <1>3, <2>1, IntervalInduction
<1>6. In(m) /\ Far(m) /\ Covers(m)
  <2> HIDE DEF In, Far, Covers
  <2> QED BY <1>5
<1> QED BY <1>6

\* What a call of the scan walks in the larger table: buckets with every cursor from v on
\* that shares the bucket of v in the smaller table, up to the cursor that follows there.
LEMMA ExpansionFacts ==
  ASSUME NEW s \in Nat, NEW l \in Nat, s <= l, l <= CursorBits, NEW v \in Cursors
  PROVE  \E n \in Nat \ {0} :
           /\ Len(Expansion(v, s, l)) = n + 1
           /\ Expansion(v, s, l)[n + 1] = NextCursor(v, s)
           /\ \A u \in Cursors : Rev[v] <= Rev[u] /\ Rev[u] < Beyond(v, s)
                => \E k \in 1 .. n : u % Pow2[l] = Expansion(v, s, l)[k] % Pow2[l]
<1> DEFINE N == Pow2[l]
           c == CHOOSE c : Loop(v, l, N, c)
           Stop == {k \in 1 .. N : (c[k] % Pow2[l]) \div Pow2[s] = 0}
           n == First(Stop)
<1>0. CursorBits \in Nat /\ s <= CursorBits
  BY HashAssumption
<1>1. N \in Nat \ {0}
  BY Pow2Facts
<1>2. Loop(v, l, N, c)
  <2> HIDE DEF N
  <2> QED BY <1>1, LoopExists
<1>3. Expansion(v, s, l) = [k \in 1 .. n + 1 |-> c[k - 1]]
  BY DEF Expansion, Loop
<1> HIDE DEF c
<1>4. /\ c[0] = v
      /\ \A k \in 0 .. N : c[k] \in Cursors
      /\ \A k \in Nat : k < N => c[k + 1] = NextCursor(c[k], l)
  <2> HIDE DEF N
  <2> QED BY <1>1, <1>2, LoopValues
<1>5. \A k \in 1 .. N : k \in Stop <=> Rev[c[k]] % Span(s) = 0
  <2> TAKE k \in 1 .. N
  <2>1. k - 1 \in Nat /\ k - 1 < N /\ (k - 1) + 1 = k /\ k - 1 \in 0 .. N
    BY <1>1
  <2>2. c[k] = NextCursor(c[k - 1], l) /\ c[k - 1] \in Cursors
    BY <1>4, <2>1
  <2>3. (c[k] % Pow2[l]) \div Pow2[s] = 0 <=> Rev[c[k]] % Span(s) = 0
    BY <2>2, LoopStops
  <2> QED BY <2>3
<1>6. Stop # {}
  <2> SUFFICES ASSUME Stop = {} PROVE FALSE
    OBVIOUS
  <2>1. \A j \in 1 .. N : Rev[c[j]] % Span(s) # 0
    BY <1>5
  <2>2. N \in 0 .. N /\ c[N] \in Cursors
    BY <1>1, <1>4
  <2>3. N <= Rev[c[N]] \div Span(l)
    <3> HIDE DEF N
    <3> QED BY <1>1, <1>2, <2>1, <2>2, LoopCovers
  <2>4. Rev[c[N]] \div Span(l) \in Nat /\ Rev[c[N]] \div Span(l) < Pow2[l]
    BY <2>2, BeyondFacts
  <2> QED BY <1>1, <2>3, <2>4
<1>7. n \in Stop /\ \A q \in Stop : n <= q
  <2>1. Stop \subseteq Nat
    BY <1>1
  <2> HIDE DEF Stop
  <2> QED BY <1>6, <2>1, FirstIsLeast
<1>8. n \in 1 .. N /\ Rev[c[n]] % Span(s) = 0
  <2>1. n \in 1 .. N
    BY <1>7
  <2> HIDE DEF n, Stop
  <2> QED BY <1>5, <1>7, <2>1
<1> HIDE DEF n, Stop
<1> DEFINE m == n - 1
<1>9. m \in 0 .. N /\ m \in Nat /\ m + 1 = n /\ m < N /\ n \in Nat \ {0}
  BY <1>1, <1>8
<1>10. \A j \in 1 .. m : Rev[c[j]] % Span(s) # 0
  <2> TAKE j \in 1 .. m
  <2>1. j \in 1 .. N /\ ~ (n <= j)
    BY <1>1, <1>8, <1>9
  <2> QED BY <2>1, <1>5, <1>7
<1>11. /\ Rev[v] <= Rev[c[m]] /\ Rev[c[m]] < Beyond(v, s)
       /\ \A u \in Cursors : Rev[v] <= Rev[u] /\ Rev[u] < Rev[c[m]]
              => \E j \in 0 .. m - 1 : u % Pow2[l] = c[j] % Pow2[l]
  <2> HIDE DEF m, N
  <2> QED BY <1>1, <1>2, <1>9, <1>10, LoopCovers
<1>12. c[m] \in Cursors /\ c[n] = NextCursor(c[m], l)
  BY <1>4, <1>9
<1>13. c[n] = NextCursor(v, s) /\ Beyond(c[m], l) = Beyond(v, s)
  <2> HIDE DEF m
  <2> QED BY <1>8, <1>11, <1>12, LoopStep
<1>14. ASSUME NEW u \in Cursors, Rev[v] <= Rev[u], Rev[u] < Beyond(v, s)
       PROVE  \E k \in 1 .. n : u % Pow2[l] = c[k - 1] % Pow2[l]
  <2>0. Rev[u] \in Nat /\ Rev[c[m]] \in Nat
    BY <1>12, BeyondFacts
  <2>1. CASE Rev[u] < Rev[c[m]]
    <3>1. PICK j \in 0 .. m - 1 : u % Pow2[l] = c[j] % Pow2[l]
      BY <1>11, <1>14, <2>1
    <3>2. j + 1 \in 1 .. n /\ (j + 1) - 1 = j
      BY <1>9
    <3>3. u % Pow2[l] = c[(j + 1) - 1] % Pow2[l]
      BY <3>1, <3>2
    <3> QED BY <3>2, <3>3
  <2>2. CASE ~ (Rev[u] < Rev[c[m]])
    <3>1. Rev[c[m]] <= Rev[u] /\ Rev[u] < Beyond(c[m], l)
      BY <1>13, <1>14, <2>0, <2>2
    <3>2. u % Pow2[l] = c[m] % Pow2[l]
      BY <1>12, <3>1, WithinBucket
    <3>3. n \in 1 .. n
      BY <1>9
    <3> QED BY <3>2, <3>3
  <2> QED BY <2>1, <2>2
<1> DEFINE cs == Expansion(v, s, l)
<1>15. Len(cs) = n + 1 /\ \A k \in 1 .. n + 1 : cs[k] = c[k - 1]
  <2>1. cs = [k \in 1 .. n + 1 |-> c[k - 1]]
    BY <1>3
  <2>2. n + 1 \in Nat
    BY <1>9
  <2> HIDE DEF cs
  <2> QED BY <2>1, <2>2
<1>16. cs[n + 1] = NextCursor(v, s)
  <2>1. n + 1 \in 1 .. n + 1 /\ (n + 1) - 1 = n
    BY <1>9
  <2> HIDE DEF cs
  <2> QED BY <1>13, <1>15, <2>1
<1>17. ASSUME NEW u \in Cursors, Rev[v] <= Rev[u], Rev[u] < Beyond(v, s)
       PROVE  \E k \in 1 .. n : u % Pow2[l] = cs[k] % Pow2[l]
  <2>1. PICK k \in 1 .. n : u % Pow2[l] = c[k - 1] % Pow2[l]
    BY <1>14, <1>17
  <2>2. k \in 1 .. n + 1
    BY <1>9
  <2> HIDE DEF cs
  <2>3. u % Pow2[l] = cs[k] % Pow2[l]
    BY <1>15, <2>1, <2>2
  <2> QED BY <2>3
<1> HIDE DEF cs
<1>18. \A u \in Cursors : Rev[v] <= Rev[u] /\ Rev[u] < Beyond(v, s)
                => \E k \in 1 .. n : u % Pow2[l] = cs[k] % Pow2[l]
  BY <1>17
<1> QED BY <1>9, <1>15, <1>16, <1>18 DEF cs

-----------------------------------------------------------------------------
(* Bucket chains, cell by cell.                                            *)

Positions == 1 .. EntriesPerBucket
Chains == Seq(Bucket)

\* Position p of bucket i set to x.
Set(c, i, p, x) == [c EXCEPT ![i][p] = x]

\* No entry where a chained bucket has its link.
Linked(c) == \A k \in 1 .. Len(c) - 1 : c[k][EntriesPerBucket] = None

\* No entry twice.
Apart(c) ==
  \A i, j \in 1 .. Len(c) : \A p, q \in Positions :
    c[i][p] = c[j][q] /\ c[i][p] # None => i = j /\ p = q

GoodChain(c) == c \in Chains /\ c # <<>> /\ Linked(c) /\ Apart(c)

\* Buckets have positions, and a chained one has one that is not its link.
LEMMA BucketFacts ==
  /\ EntriesPerBucket \in Nat /\ EntriesPerBucket >= 2
  /\ 1 \in Positions /\ 2 \in Positions /\ EntriesPerBucket \in Positions
  /\ EmptyBucket \in Bucket /\ \A p \in Positions : EmptyBucket[p] = None
  /\ None \notin Elems
BY FillAssumption, HashAssumption DEF Positions, EmptyBucket, Bucket

\* What a chain is made of.
LEMMA ChainFacts ==
  ASSUME NEW c \in Chains
  PROVE  /\ Len(c) \in Nat
         /\ c # <<>> <=> Len(c) >= 1
         /\ \A i \in 1 .. Len(c) : c[i] \in Bucket /\ DOMAIN c[i] = Positions
         /\ \A i \in 1 .. Len(c) : \A p \in Positions : c[i][p] \in Elems \cup {None}
<1>1. Len(c) \in Nat /\ (c # <<>> <=> Len(c) >= 1) /\ \A i \in 1 .. Len(c) : c[i] \in Bucket
  BY DEF Chains
<1>2. \A b \in Bucket : DOMAIN b = Positions /\ \A p \in Positions : b[p] \in Elems \cup {None}
  BY DEF Bucket, Positions
<1> QED BY <1>1, <1>2

\* The entries of a chain.
LEMMA EntriesFacts ==
  ASSUME NEW c \in Chains
  PROVE  /\ Entries(c) \subseteq Elems
         /\ None \notin Entries(c)
         /\ \A i \in 1 .. Len(c) : \A p \in Positions : c[i][p] # None => c[i][p] \in Entries(c)
         /\ \A x \in Entries(c) : \E i \in 1 .. Len(c) : \E p \in Positions : c[i][p] = x
<1>1. \A i \in 1 .. Len(c) : DOMAIN c[i] = Positions
  BY ChainFacts
<1>2. \A i \in 1 .. Len(c) : \A p \in Positions : c[i][p] # None => c[i][p] \in Entries(c)
  BY <1>1 DEF Entries, Filled
<1>3. ASSUME NEW x \in Entries(c)
      PROVE  x # None /\ \E i \in 1 .. Len(c) : \E p \in Positions : c[i][p] = x
  BY <1>1, <1>3 DEF Entries, Filled
<1>4. Entries(c) \subseteq Elems
  BY <1>3, ChainFacts
<1> QED BY <1>2, <1>3, <1>4

\* A set is the entries of a chain if it has what the cells have, and nothing else.
LEMMA EntriesAre ==
  ASSUME NEW c \in Chains, NEW X,
         \A i \in 1 .. Len(c) : \A p \in Positions : c[i][p] # None => c[i][p] \in X,
         \A x \in X : x # None /\ \E i \in 1 .. Len(c) : \E p \in Positions : c[i][p] = x
  PROVE  Entries(c) = X
<1>1. ASSUME NEW x \in Entries(c) PROVE x \in X
  <2>1. PICK i \in 1 .. Len(c), p \in Positions : c[i][p] = x
    BY EntriesFacts
  <2>2. x # None
    BY EntriesFacts
  <2> QED BY <2>1, <2>2
<1>2. ASSUME NEW x \in X PROVE x \in Entries(c)
  <2>1. PICK i \in 1 .. Len(c), p \in Positions : c[i][p] = x
    BY <1>2
  <2> QED BY <2>1, EntriesFacts
<1> QED BY <1>1, <1>2

\* Chains with the same cells are the same.
LEMMA ChainsEqual ==
  ASSUME NEW c \in Chains, NEW d \in Chains, Len(c) = Len(d),
         \A i \in 1 .. Len(c) : \A p \in Positions : c[i][p] = d[i][p]
  PROVE  c = d
<1>1. \A i \in 1 .. Len(c) : c[i] = d[i]
  <2> TAKE i \in 1 .. Len(c)
  <2>1. c[i] \in Bucket /\ d[i] \in Bucket
    BY ChainFacts
  <2>2. \A p \in Positions : c[i][p] = d[i][p]
    OBVIOUS
  <2>3. ASSUME NEW a \in Bucket, NEW b \in Bucket, \A p \in Positions : a[p] = b[p]
        PROVE  a = b
    <3>1. a = [p \in Positions |-> a[p]] /\ b = [p \in Positions |-> b[p]]
      BY DEF Bucket, Positions
    <3>2. [p \in Positions |-> a[p]] = [p \in Positions |-> b[p]]
      BY <2>3
    <3> QED BY <3>1, <3>2
  <2> QED BY <2>1, <2>2, <2>3
<1> QED BY <1>1 DEF Chains

\* Setting a cell.
LEMMA SetFacts ==
  ASSUME NEW c \in Chains, NEW i \in 1 .. Len(c), NEW p \in Positions,
         NEW x \in Elems \cup {None}
  PROVE  /\ Set(c, i, p, x) \in Chains /\ Len(Set(c, i, p, x)) = Len(c)
         /\ Set(c, i, p, x)[i][p] = x
         /\ \A j \in 1 .. Len(c) : \A q \in Positions :
              j # i \/ q # p => Set(c, i, p, x)[j][q] = c[j][q]
<1> DEFINE b == [c[i] EXCEPT ![p] = x]
           d == [c EXCEPT ![i] = b]
<1>1. c[i] \in Bucket /\ DOMAIN c[i] = Positions
  BY ChainFacts
<1>2. b \in Bucket /\ b[p] = x /\ \A q \in Positions : q # p => b[q] = c[i][q]
  BY <1>1 DEF Bucket, Positions
<1>3. Set(c, i, p, x) = d
  BY DEF Set
<1> HIDE DEF b
<1>4. d \in Chains /\ Len(d) = Len(c) /\ d[i] = b /\ \A j \in 1 .. Len(c) : j # i => d[j] = c[j]
  BY <1>2 DEF Chains
<1> HIDE DEF d
<1> QED BY <1>2, <1>3, <1>4

\* d is c but for position p of bucket i, which has x.
IsSet(d, c, i, p, x) ==
  /\ d \in Chains /\ Len(d) = Len(c) /\ d[i][p] = x
  /\ \A j \in 1 .. Len(c) : \A q \in Positions : j # i \/ q # p => d[j][q] = c[j][q]

\* Setting a cell, as one fact.
LEMMA SetIsSet ==
  ASSUME NEW c \in Chains, NEW i \in 1 .. Len(c), NEW p \in Positions,
         NEW x \in Elems \cup {None}
  PROVE  IsSet(Set(c, i, p, x), c, i, p, x)
BY SetFacts DEF IsSet

\* An entry put into an empty cell.
LEMMA SetEntry ==
  ASSUME NEW c, GoodChain(c), NEW i \in 1 .. Len(c), NEW p \in Positions, c[i][p] = None,
         i < Len(c) => p # EntriesPerBucket, NEW x \in Elems, x \notin Entries(c)
  PROVE  GoodChain(Set(c, i, p, x)) /\ Entries(Set(c, i, p, x)) = Entries(c) \cup {x}
<1> DEFINE d == Set(c, i, p, x)
<1>1. c \in Chains /\ c # <<>> /\ Linked(c) /\ Apart(c)
  BY DEF GoodChain
<1>2. /\ d \in Chains /\ Len(d) = Len(c) /\ d[i][p] = x
      /\ \A j \in 1 .. Len(c) : \A q \in Positions : j # i \/ q # p => d[j][q] = c[j][q]
  BY <1>1, SetFacts
<1>3. x # None /\ Len(c) \in Nat /\ EntriesPerBucket \in Positions
  BY <1>1, BucketFacts, ChainFacts
<1>4. \A j \in 1 .. Len(c) : \A q \in Positions : c[j][q] # x
  BY <1>1, <1>3, EntriesFacts
<1> HIDE DEF d
<1>5. Linked(d)
  <2> SUFFICES ASSUME NEW k \in 1 .. Len(d) - 1 PROVE d[k][EntriesPerBucket] = None
    BY DEF Linked
  <2>1. k \in 1 .. Len(c) - 1 /\ k \in 1 .. Len(c) /\ k < Len(c)
    BY <1>2, <1>3
  <2>2. c[k][EntriesPerBucket] = None
    BY <1>1, <2>1 DEF Linked
  <2>3. k # i \/ EntriesPerBucket # p
    BY <2>1
  <2> QED BY <1>2, <1>3, <2>1, <2>2, <2>3
<1>6. Apart(d)
  <2> SUFFICES ASSUME NEW j \in 1 .. Len(d), NEW k \in 1 .. Len(d),
                      NEW q \in Positions, NEW r \in Positions,
                      d[j][q] = d[k][r], d[j][q] # None
               PROVE  j = k /\ q = r
    BY DEF Apart
  <2>0. j \in 1 .. Len(c) /\ k \in 1 .. Len(c)
    BY <1>2
  <2>1. CASE j = i /\ q = p
    BY <2>0, <2>1, <1>2, <1>4
  <2>2. CASE k = i /\ r = p
    BY <2>0, <2>2, <1>2, <1>4
  <2>3. CASE (j # i \/ q # p) /\ (k # i \/ r # p)
    <3>1. d[j][q] = c[j][q] /\ d[k][r] = c[k][r]
      BY <2>0, <2>3, <1>2
    <3>2. c[j][q] = c[k][r] /\ c[j][q] # None
      BY <3>1
    <3> QED BY <2>0, <3>2, <1>1 DEF Apart
  <2> QED BY <2>1, <2>2, <2>3
<1>7. Entries(d) = Entries(c) \cup {x}
  <2>1. ASSUME NEW j \in 1 .. Len(d), NEW q \in Positions, d[j][q] # None
        PROVE  d[j][q] \in Entries(c) \cup {x}
    BY <2>1, <1>1, <1>2, EntriesFacts
  <2>2. ASSUME NEW y \in Entries(c) \cup {x}
        PROVE  y # None /\ \E j \in 1 .. Len(d) : \E q \in Positions : d[j][q] = y
    <3>1. CASE y = x
      BY <3>1, <1>2, <1>3
    <3>2. CASE y # x
      <4>1. y \in Entries(c)
        BY <3>2
      <4>2. PICK j \in 1 .. Len(c), q \in Positions : c[j][q] = y
        BY <4>1, <1>1, EntriesFacts
      <4>3. y # None
        BY <4>1, <1>1, EntriesFacts
      <4>4. d[j][q] = y
        BY <4>2, <4>3, <1>2
      <4> QED BY <4>3, <4>4, <1>2
    <3> QED BY <3>1, <3>2
  <2> DEFINE Y == Entries(c) \cup {x}
  <2>3. d \in Chains
    BY <1>2
  <2>4. \A j \in 1 .. Len(d) : \A q \in Positions : d[j][q] # None => d[j][q] \in Y
    BY <2>1
  <2>5. \A y \in Y : y # None /\ \E j \in 1 .. Len(d) : \E q \in Positions : d[j][q] = y
    BY <2>2
  <2> HIDE DEF Y
  <2>6. Entries(d) = Y
    BY <2>3, <2>4, <2>5, EntriesAre
  <2> QED BY <2>6 DEF Y
<1>8. d # <<>>
  BY <1>1, <1>2, ChainFacts
<1> QED BY <1>2, <1>5, <1>6, <1>7, <1>8 DEF GoodChain, d

\* An entry taken out of its cell.
LEMMA ClearEntry ==
  ASSUME NEW c, GoodChain(c), NEW i \in 1 .. Len(c), NEW p \in Positions
  PROVE  /\ GoodChain(Set(c, i, p, None))
         /\ Entries(Set(c, i, p, None)) = Entries(c) \ {c[i][p]}
<1> DEFINE d == Set(c, i, p, None)
<1>1. c \in Chains /\ c # <<>> /\ Linked(c) /\ Apart(c)
  BY DEF GoodChain
<1>2. /\ d \in Chains /\ Len(d) = Len(c) /\ d[i][p] = None
      /\ \A j \in 1 .. Len(c) : \A q \in Positions : j # i \/ q # p => d[j][q] = c[j][q]
  BY <1>1, SetFacts
<1>3. Len(c) \in Nat /\ EntriesPerBucket \in Positions
  BY <1>1, BucketFacts, ChainFacts
<1> HIDE DEF d
<1>5. Linked(d)
  <2> SUFFICES ASSUME NEW k \in 1 .. Len(d) - 1 PROVE d[k][EntriesPerBucket] = None
    BY DEF Linked
  <2>1. k \in 1 .. Len(c) - 1 /\ k \in 1 .. Len(c)
    BY <1>2, <1>3
  <2>2. c[k][EntriesPerBucket] = None
    BY <1>1, <2>1 DEF Linked
  <2> QED BY <1>2, <1>3, <2>1, <2>2
<1>6. Apart(d)
  <2> SUFFICES ASSUME NEW j \in 1 .. Len(d), NEW k \in 1 .. Len(d),
                      NEW q \in Positions, NEW r \in Positions,
                      d[j][q] = d[k][r], d[j][q] # None
               PROVE  j = k /\ q = r
    BY DEF Apart
  <2>0. j \in 1 .. Len(c) /\ k \in 1 .. Len(c)
    BY <1>2
  <2>3. (j # i \/ q # p) /\ (k # i \/ r # p)
    BY <1>2
  <2>4. d[j][q] = c[j][q] /\ d[k][r] = c[k][r]
    BY <2>0, <2>3, <1>2
  <2>5. c[j][q] = c[k][r] /\ c[j][q] # None
    BY <2>4
  <2> QED BY <2>0, <2>5, <1>1 DEF Apart
<1>7. Entries(d) = Entries(c) \ {c[i][p]}
  <2>1. ASSUME NEW j \in 1 .. Len(d), NEW q \in Positions, d[j][q] # None
        PROVE  d[j][q] \in Entries(c) \ {c[i][p]}
    <3>1. (j # i \/ q # p) /\ j \in 1 .. Len(c)
      BY <2>1, <1>2
    <3>2. d[j][q] = c[j][q]
      BY <3>1, <1>2
    <3>3. c[j][q] \in Entries(c)
      BY <2>1, <3>1, <3>2, <1>1, EntriesFacts
    <3>4. c[j][q] # c[i][p]
      BY <2>1, <3>1, <3>2, <1>1 DEF Apart
    <3> QED BY <3>2, <3>3, <3>4
  <2>2. ASSUME NEW y \in Entries(c) \ {c[i][p]}
        PROVE  y # None /\ \E j \in 1 .. Len(d) : \E q \in Positions : d[j][q] = y
    <3>2. PICK j \in 1 .. Len(c), q \in Positions : c[j][q] = y
      BY <1>1, EntriesFacts
    <3>3. y # None
      BY <1>1, EntriesFacts
    <3>4. d[j][q] = y
      BY <3>2, <1>2
    <3> QED BY <3>3, <3>4, <1>2
  <2> QED BY <1>2, <2>1, <2>2, EntriesAre
<1>8. d # <<>>
  BY <1>1, <1>2, ChainFacts
<1> QED BY <1>2, <1>5, <1>6, <1>7, <1>8 DEF GoodChain, d

\* Buckets left out of a chain that have no entries.
LEMMA SelectBuckets ==
  ASSUME NEW c, GoodChain(c), NEW d \in Chains, d # <<>>, Linked(d),
         NEW f \in [1 .. Len(d) -> 1 .. Len(c)],
         \A k \in 1 .. Len(d) : d[k] = c[f[k]],
         \A j, k \in 1 .. Len(d) : f[j] = f[k] => j = k,
         \A i \in 1 .. Len(c) : \A p \in Positions :
           c[i][p] # None => \E k \in 1 .. Len(d) : f[k] = i
  PROVE  GoodChain(d) /\ Entries(d) = Entries(c)
<1>1. c \in Chains /\ Apart(c)
  BY DEF GoodChain
<1>2. Apart(d)
  <2> SUFFICES ASSUME NEW j \in 1 .. Len(d), NEW k \in 1 .. Len(d),
                      NEW q \in Positions, NEW r \in Positions,
                      d[j][q] = d[k][r], d[j][q] # None
               PROVE  j = k /\ q = r
    BY DEF Apart
  <2>1. f[j] \in 1 .. Len(c) /\ f[k] \in 1 .. Len(c)
    OBVIOUS
  <2>2. c[f[j]][q] = c[f[k]][r] /\ c[f[j]][q] # None
    OBVIOUS
  <2>3. f[j] = f[k] /\ q = r
    BY <2>1, <2>2, <1>1 DEF Apart
  <2> QED BY <2>3
<1>3. Entries(d) = Entries(c)
  <2>1. ASSUME NEW j \in 1 .. Len(d), NEW q \in Positions, d[j][q] # None
        PROVE  d[j][q] \in Entries(c)
    <3>1. f[j] \in 1 .. Len(c) /\ d[j][q] = c[f[j]][q]
      OBVIOUS
    <3> QED BY <2>1, <3>1, <1>1, EntriesFacts
  <2>2. ASSUME NEW y \in Entries(c)
        PROVE  y # None /\ \E j \in 1 .. Len(d) : \E q \in Positions : d[j][q] = y
    <3>1. PICK i \in 1 .. Len(c), q \in Positions : c[i][q] = y
      BY <1>1, EntriesFacts
    <3>2. y # None
      BY <1>1, EntriesFacts
    <3>3. PICK k \in 1 .. Len(d) : f[k] = i
      BY <3>1, <3>2
    <3>4. d[k][q] = y
      BY <3>1, <3>3
    <3> QED BY <3>2, <3>4
  <2> QED BY <2>1, <2>2, EntriesAre
<1> QED BY <1>2, <1>3 DEF GoodChain

\* The last bucket dropped.
LEMMA DropLast ==
  ASSUME NEW c, GoodChain(c), Len(c) >= 2, \A p \in Positions : c[Len(c)][p] = None
  PROVE  /\ GoodChain(SubSeq(c, 1, Len(c) - 1))
         /\ Entries(SubSeq(c, 1, Len(c) - 1)) = Entries(c)
         /\ Len(SubSeq(c, 1, Len(c) - 1)) = Len(c) - 1
         /\ \A k \in 1 .. Len(c) - 1 : SubSeq(c, 1, Len(c) - 1)[k] = c[k]
<1> DEFINE n == Len(c)
           d == SubSeq(c, 1, n - 1)
           f == [k \in 1 .. n - 1 |-> k]
<1>1. c \in Chains /\ Linked(c) /\ n \in Nat
  BY ChainFacts DEF GoodChain
<1>2. d \in Chains /\ Len(d) = n - 1 /\ \A k \in 1 .. n - 1 : d[k] = c[k]
  <2>1. c \in Seq(Bucket)
    BY <1>1 DEF Chains
  <2> QED BY <2>1, <1>1 DEF Chains
<1> HIDE DEF d
<1>3. d # <<>>
  BY <1>1, <1>2, ChainFacts
<1>4. Linked(d)
  BY <1>1, <1>2 DEF Linked
<1>5. f \in [1 .. Len(d) -> 1 .. Len(c)]
  BY <1>1, <1>2
<1>6. /\ \A k \in 1 .. Len(d) : d[k] = c[f[k]]
      /\ \A j, k \in 1 .. Len(d) : f[j] = f[k] => j = k
  BY <1>1, <1>2
<1>7. ASSUME NEW i \in 1 .. Len(c), NEW p \in Positions, c[i][p] # None
      PROVE  \E k \in 1 .. Len(d) : f[k] = i
  <2>1. i # n
    BY <1>7
  <2>2. i \in 1 .. Len(d) /\ f[i] = i
    BY <2>1, <1>1, <1>2
  <2> QED BY <2>2
<1>8. GoodChain(d) /\ Entries(d) = Entries(c)
  <2> HIDE DEF f
  <2>1. \A k \in 1 .. Len(d) : d[k] = c[f[k]]
    BY <1>6
  <2>2. \A i \in 1 .. Len(c) : \A p \in Positions :
          c[i][p] # None => \E k \in 1 .. Len(d) : f[k] = i
    BY <1>7
  <2>3. \A j, k \in 1 .. Len(d) : f[j] = f[k] => j = k
    BY <1>6
  <2>4. d \in Chains
    BY <1>2
  <2> QED BY <1>3, <1>4, <1>5, <2>1, <2>2, <2>3, <2>4, SelectBuckets
<1> QED BY <1>2, <1>8 DEF d

\* A bucket in the middle dropped.
LEMMA DropEmpty ==
  ASSUME NEW c, GoodChain(c), NEW m \in 1 .. Len(c), m < Len(c), 1 < m,
         \A p \in Positions : c[m][p] = None
  PROVE  /\ GoodChain(RemoveAt(c, m)) /\ Entries(RemoveAt(c, m)) = Entries(c)
         /\ Len(RemoveAt(c, m)) = Len(c) - 1
<1> DEFINE n == Len(c)
           d == RemoveAt(c, m)
           f == [k \in 1 .. n - 1 |-> IF k < m THEN k ELSE k + 1]
<1>1. c \in Chains /\ Linked(c) /\ n \in Nat /\ n >= 2
  BY ChainFacts DEF GoodChain
<1>2. d \in Chains /\ Len(d) = n - 1 /\ \A k \in 1 .. n - 1 : d[k] = c[f[k]]
  <2> DEFINE a == SubSeq(c, 1, m - 1)
             b == SubSeq(c, m + 1, n)
  <2>1. c \in Seq(Bucket)
    BY <1>1 DEF Chains
  <2>2. a \in Seq(Bucket) /\ Len(a) = m - 1 /\ \A k \in 1 .. m - 1 : a[k] = c[k]
    BY <2>1, <1>1
  <2>3. b \in Seq(Bucket) /\ Len(b) = n - m /\ \A k \in 1 .. n - m : b[k] = c[m + k]
    BY <2>1, <1>1
  <2>4. d = a \o b
    BY DEF RemoveAt
  <2> HIDE DEF a, b, d
  <2>5. d \in Seq(Bucket) /\ Len(d) = (m - 1) + (n - m)
    <3>1. a \in Seq(Bucket) /\ b \in Seq(Bucket)
      BY <2>2, <2>3
    <3>2. a \o b \in Seq(Bucket) /\ Len(a \o b) = Len(a) + Len(b)
      BY <3>1, ConcatProperties
    <3> QED BY <2>2, <2>3, <2>4, <3>2
  <2>6. ASSUME NEW k \in 1 .. n - 1
        PROVE  d[k] = IF k < m THEN a[k] ELSE b[k - (m - 1)]
    <3>1. k \in 1 .. Len(a) + Len(b) /\ (k <= Len(a) <=> k < m) /\ k - Len(a) = k - (m - 1)
      BY <2>2, <2>3, <1>1
    <3>2. (a \o b)[k] = IF k <= Len(a) THEN a[k] ELSE b[k - Len(a)]
      BY <2>2, <2>3, <3>1, ConcatProperties
    <3> QED BY <2>4, <3>1, <3>2
  <2>7. ASSUME NEW k \in 1 .. n - 1 PROVE d[k] = c[f[k]]
    <3>1. CASE k < m
      BY <2>2, <2>6, <3>1
    <3>2. CASE ~ (k < m)
      <4>1. k - (m - 1) \in 1 .. n - m /\ m + (k - (m - 1)) = k + 1
        BY <3>2, <1>1
      <4>2. d[k] = c[k + 1]
        BY <2>3, <2>6, <3>2, <4>1
      <4> QED BY <4>2, <3>2
    <3> QED BY <3>1, <3>2
  <2> QED BY <2>5, <2>7, <1>1 DEF Chains
<1> HIDE DEF d
<1>3. d # <<>>
  BY <1>1, <1>2, ChainFacts
<1>4. Linked(d)
  <2> SUFFICES ASSUME NEW k \in 1 .. Len(d) - 1 PROVE d[k][EntriesPerBucket] = None
    BY DEF Linked
  <2>1. k \in 1 .. n - 1 /\ f[k] \in 1 .. n - 1
    BY <1>1, <1>2
  <2> QED BY <2>1, <1>1, <1>2 DEF Linked
<1>5. f \in [1 .. Len(d) -> 1 .. Len(c)]
  BY <1>1, <1>2
<1>6. \A j, k \in 1 .. Len(d) : f[j] = f[k] => j = k
  BY <1>1, <1>2
<1>7. ASSUME NEW i \in 1 .. Len(c), NEW p \in Positions, c[i][p] # None
      PROVE  \E k \in 1 .. Len(d) : f[k] = i
  <2>1. i # m
    BY <1>7
  <2>2. CASE i < m
    <3>1. i \in 1 .. Len(d) /\ f[i] = i
      BY <2>2, <1>1, <1>2
    <3> QED BY <3>1
  <2>3. CASE i > m
    <3>1. i - 1 \in 1 .. Len(d) /\ f[i - 1] = i
      BY <2>3, <1>1, <1>2
    <3> QED BY <3>1
  <2>4. i < m \/ i > m
    BY <2>1, <1>1
  <2> QED BY <2>2, <2>3, <2>4
<1>8. GoodChain(d) /\ Entries(d) = Entries(c)
  <2> HIDE DEF f
  <2>1. \A k \in 1 .. Len(d) : d[k] = c[f[k]]
    BY <1>2
  <2>2. \A i \in 1 .. Len(c) : \A p \in Positions :
          c[i][p] # None => \E k \in 1 .. Len(d) : f[k] = i
    BY <1>7
  <2>3. d \in Chains
    BY <1>2
  <2> QED BY <1>3, <1>4, <1>5, <1>6, <2>1, <2>2, <2>3, SelectBuckets
<1> QED BY <1>2, <1>8 DEF d

\* An empty bucket added behind a last bucket that has room for the link.
LEMMA AppendBucket ==
  ASSUME NEW c, GoodChain(c), c[Len(c)][EntriesPerBucket] = None
  PROVE  /\ GoodChain(Append(c, EmptyBucket)) /\ Entries(Append(c, EmptyBucket)) = Entries(c)
         /\ Len(Append(c, EmptyBucket)) = Len(c) + 1
         /\ \A k \in 1 .. Len(c) : Append(c, EmptyBucket)[k] = c[k]
         /\ Append(c, EmptyBucket)[Len(c) + 1] = EmptyBucket
<1> DEFINE n == Len(c)
           d == Append(c, EmptyBucket)
<1>1. c \in Chains /\ Linked(c) /\ Apart(c) /\ n \in Nat /\ n >= 1
  BY ChainFacts DEF GoodChain
<1>2. /\ d \in Chains /\ Len(d) = n + 1 /\ \A k \in 1 .. n : d[k] = c[k]
      /\ d[n + 1] = EmptyBucket
  BY <1>1, BucketFacts DEF Chains
<1>3. \A p \in Positions : d[n + 1][p] = None
  BY <1>2, BucketFacts
<1> HIDE DEF d
<1>4. Linked(d)
  <2> SUFFICES ASSUME NEW k \in 1 .. Len(d) - 1 PROVE d[k][EntriesPerBucket] = None
    BY DEF Linked
  <2>1. k \in 1 .. n /\ (k = n \/ k \in 1 .. n - 1)
    BY <1>1, <1>2
  <2> QED BY <2>1, <1>1, <1>2 DEF Linked
<1>5. Apart(d)
  <2> SUFFICES ASSUME NEW j \in 1 .. Len(d), NEW k \in 1 .. Len(d),
                      NEW q \in Positions, NEW r \in Positions,
                      d[j][q] = d[k][r], d[j][q] # None
               PROVE  j = k /\ q = r
    BY DEF Apart
  <2>1. j \in 1 .. n /\ k \in 1 .. n
    BY <1>1, <1>2, <1>3
  <2>2. c[j][q] = c[k][r] /\ c[j][q] # None
    BY <2>1, <1>2
  <2> QED BY <2>1, <2>2, <1>1 DEF Apart
<1>6. Entries(d) = Entries(c)
  <2>1. ASSUME NEW j \in 1 .. Len(d), NEW q \in Positions, d[j][q] # None
        PROVE  d[j][q] \in Entries(c)
    <3>1. j \in 1 .. n
      BY <2>1, <1>1, <1>2, <1>3
    <3> QED BY <2>1, <3>1, <1>1, <1>2, EntriesFacts
  <2>2. ASSUME NEW y \in Entries(c)
        PROVE  y # None /\ \E j \in 1 .. Len(d) : \E q \in Positions : d[j][q] = y
    <3>1. PICK i \in 1 .. n, q \in Positions : c[i][q] = y
      BY <1>1, EntriesFacts
    <3>2. y # None
      BY <1>1, EntriesFacts
    <3>3. i \in 1 .. Len(d) /\ d[i][q] = y
      BY <1>1, <1>2, <3>1
    <3> QED BY <3>2, <3>3
  <2> QED BY <1>2, <2>1, <2>2, EntriesAre
<1>7. d # <<>>
  BY <1>1, <1>2, ChainFacts
<1> QED BY <1>2, <1>4, <1>5, <1>6, <1>7 DEF d, GoodChain

\* The filled positions of a bucket are finitely many.
LEMMA FilledFacts ==
  ASSUME NEW c \in Chains, NEW i \in 1 .. Len(c)
  PROVE  /\ Filled(c[i]) \subseteq Positions /\ Filled(c[i]) \subseteq Nat
         /\ \A p \in Positions : p \in Filled(c[i]) <=> c[i][p] # None
         /\ IsFiniteSet(Filled(c[i])) /\ Cardinality(Filled(c[i])) \in Nat
<1>1. DOMAIN c[i] = Positions
  BY ChainFacts
<1>2. /\ Filled(c[i]) \subseteq Positions
      /\ \A p \in Positions : p \in Filled(c[i]) <=> c[i][p] # None
  BY <1>1 DEF Filled
<1>3. IsFiniteSet(Positions) /\ Positions \subseteq Nat
  BY BucketFacts, FS_Interval DEF Positions
<1>4. IsFiniteSet(Filled(c[i]))
  BY <1>2, <1>3, FS_Subset
<1>5. Cardinality(Filled(c[i])) \in Nat
  BY <1>4, FS_CardinalityType
<1> QED BY <1>2, <1>3, <1>4, <1>5

\* A bucket that is not full has a free position, other than its link.
LEMMA FreePosition ==
  ASSUME NEW c, GoodChain(c), NEW i \in 1 .. Len(c), ~ IsFull(c, i),
         NEW p, p = First((1 .. NumPositions(c, i)) \ Filled(c[i]))
  PROVE  p \in Positions /\ c[i][p] = None /\ (i < Len(c) => p # EntriesPerBucket)
<1> DEFINE n == NumPositions(c, i)
           A == 1 .. n
           B == Filled(c[i])
           R == A \ B
<1>1. c \in Chains /\ Linked(c) /\ Len(c) \in Nat
  BY ChainFacts DEF GoodChain
<1>2. EntriesPerBucket \in Nat /\ EntriesPerBucket >= 2 /\ EntriesPerBucket \in Positions
  BY BucketFacts
<1>3. n \in Nat /\ n >= 1 /\ n <= EntriesPerBucket /\ (i < Len(c) => n = EntriesPerBucket - 1)
      /\ (~ (i < Len(c)) => n = EntriesPerBucket)
  BY <1>2 DEF NumPositions
<1>4. B \subseteq Positions /\ \A q \in Positions : q \in B <=> c[i][q] # None
  BY <1>1, FilledFacts
<1>5. B \subseteq A
  <2> SUFFICES ASSUME NEW q \in B PROVE q \in A
    OBVIOUS
  <2>1. q \in 1 .. EntriesPerBucket /\ c[i][q] # None
    BY <1>4 DEF Positions
  <2>2. CASE i < Len(c)
    <3>1. i \in 1 .. Len(c) - 1
      BY <1>1, <2>2
    <3>2. c[i][EntriesPerBucket] = None
      BY <1>1, <3>1 DEF Linked
    <3>3. q # EntriesPerBucket
      BY <2>1, <3>2
    <3> QED BY <1>2, <1>3, <2>1, <2>2, <3>3
  <2>3. CASE ~ (i < Len(c))
    BY <1>3, <2>1, <2>3
  <2> QED BY <2>2, <2>3
<1>6. R # {}
  <2> SUFFICES ASSUME R = {} PROVE FALSE
    OBVIOUS
  <2>1. A = B
    BY <1>5
  <2>2. Cardinality(A) = n
    BY <1>3, FS_Interval
  <2> QED BY <2>1, <2>2 DEF IsFull
<1>7. R \subseteq Nat
  BY <1>3
<1>8. p = First(R)
  OBVIOUS
<1>9. p \in R
  <2> HIDE DEF R
  <2> QED BY <1>6, <1>7, <1>8, FirstIsLeast
<1>10. p \in 1 .. n /\ p \notin B
  BY <1>9
<1>11. p \in Positions
  BY <1>2, <1>3, <1>10 DEF Positions
<1>12. c[i][p] = None
  <2> HIDE DEF B
  <2> QED BY <1>4, <1>10, <1>11
<1>13. i < Len(c) => p # EntriesPerBucket
  BY <1>2, <1>3, <1>10
<1> QED BY <1>11, <1>12, <1>13

\* A full last bucket has an entry where its link would be.
LEMMA FullLast ==
  ASSUME NEW c, GoodChain(c), IsFull(c, Len(c))
  PROVE  c[Len(c)][EntriesPerBucket] # None
<1> DEFINE B == Filled(c[Len(c)])
<1>1. c \in Chains /\ Len(c) \in Nat /\ Len(c) \in 1 .. Len(c)
  BY ChainFacts DEF GoodChain
<1>2. EntriesPerBucket \in Nat /\ EntriesPerBucket >= 2 /\ EntriesPerBucket \in Positions
  BY BucketFacts
<1>3. B \subseteq Positions /\ \A q \in Positions : q \in B <=> c[Len(c)][q] # None
  BY <1>1, FilledFacts
<1>4. Cardinality(B) = EntriesPerBucket
  BY <1>1 DEF IsFull, NumPositions
<1>5. IsFiniteSet(Positions) /\ Cardinality(Positions) = EntriesPerBucket
  BY <1>2, FS_Interval DEF Positions
<1>6. B = Positions
  <2> HIDE DEF B
  <2> QED BY <1>3, <1>4, <1>5, FS_Subset
<1> QED BY <1>2, <1>3, <1>6

\* A set of at most one element.
LEMMA AtMostOne ==
  ASSUME NEW S, IsFiniteSet(S), Cardinality(S) <= 1
  PROVE  \A x, y \in S : x = y
<1>1. Cardinality(S) \in Nat
  BY FS_CardinalityType
<1>2. CASE Cardinality(S) = 0
  BY <1>2, FS_EmptySet
<1>3. CASE Cardinality(S) = 1
  BY <1>3, FS_Singleton
<1> QED BY <1>1, <1>2, <1>3

-----------------------------------------------------------------------------
(* Positions counted along a chain.                                        *)

SlotOf(i, p) == (i - 1) * EntriesPerBucket + p
Slots(c) == 1 .. Len(c) * EntriesPerBucket

\* Every slot is a position of a bucket.
LEMMA SlotIsCell ==
  ASSUME NEW c \in Chains, NEW k \in Slots(c)
  PROVE  \E i \in 1 .. Len(c) : \E p \in Positions : k = SlotOf(i, p) /\ Slot(c, k) = c[i][p]
<1> DEFINE E == EntriesPerBucket
           i == ((k - 1) \div E) + 1
           p == ((k - 1) % E) + 1
           n == Len(c)
<1>1. E \in Nat /\ E >= 2 /\ n \in Nat
  BY BucketFacts, ChainFacts
<1>2. n * E \in Nat
  BY <1>1
<1>3. k - 1 \in Nat /\ k \in Nat /\ k <= n * E
  BY <1>2 DEF Slots
<1> DEFINE a == (k - 1) \div E
           b == (k - 1) % E
<1>4. a \in Nat /\ b \in Nat /\ b < E /\ k - 1 = a * E + b
  BY <1>1, <1>3, DivMod
<1>5. Slot(c, k) = c[a + 1][b + 1]
  BY DEF Slot
<1> HIDE DEF a, b
<1>6. a < n
  <2> SUFFICES ASSUME n <= a PROVE FALSE
    BY <1>1, <1>4
  <2>1. n * E <= a * E
    BY <1>1, <1>4, MulOrder
  <2> QED BY <1>1, <1>2, <1>3, <1>4, <2>1
<1>7. a + 1 \in 1 .. Len(c) /\ b + 1 \in Positions
  BY <1>1, <1>4, <1>6 DEF Positions
<1>8. k = SlotOf(a + 1, b + 1)
  <2>1. (a + 1) - 1 = a
    BY <1>4
  <2>2. SlotOf(a + 1, b + 1) = a * E + (b + 1)
    BY <2>1 DEF SlotOf
  <2>3. a * E \in Nat
    BY <1>1, <1>4
  <2> HIDE DEF E
  <2> QED BY <1>3, <1>4, <2>2, <2>3
<1> QED BY <1>5, <1>7, <1>8

\* Every position of a bucket has a slot, and slots are ordered by bucket.
LEMMA CellIsSlot ==
  ASSUME NEW c \in Chains, NEW i \in 1 .. Len(c), NEW p \in Positions
  PROVE  /\ SlotOf(i, p) \in Slots(c) /\ Slot(c, SlotOf(i, p)) = c[i][p]
         /\ SlotOf(i, p) \in Nat
<1> DEFINE E == EntriesPerBucket
           n == Len(c)
           k == SlotOf(i, p)
           a == i - 1
           b == p - 1
           m == a * E
<1>1. E \in Nat /\ E >= 2 /\ n \in Nat
  BY BucketFacts, ChainFacts
<1>2. a \in Nat /\ b \in Nat /\ b < E /\ a + 1 <= n /\ a + 1 = i /\ b + 1 = p
  BY <1>1 DEF Positions
<1>3. k = m + p /\ m \in Nat
  BY <1>1, <1>2 DEF SlotOf
<1>4. k - 1 = a * E + b /\ k - 1 \in Nat
  BY <1>2, <1>3
<1>5. m + E <= n * E
  <2>1. (a + 1) * E <= n * E
    BY <1>1, <1>2, MulOrder
  <2>2. (a + 1) * E = m + E
    BY <1>1, <1>2
  <2> QED BY <2>1, <2>2
<1>6. n * E \in Nat
  BY <1>1
<1>7. k \in 1 .. n * E /\ k \in Nat
  <2> HIDE DEF m, k
  <2> QED BY <1>1, <1>2, <1>3, <1>5, <1>6
<1>8. (k - 1) \div E = a /\ (k - 1) % E = b
  <2> HIDE DEF a, b, k
  <2>1. E \in Nat \ {0} /\ k - 1 = E * a + b
    BY <1>1, <1>2, <1>4
  <2>2. (E * a + b) \div E = a /\ (E * a + b) % E = b
    BY <1>2, <2>1, DivModUnique
  <2> QED BY <2>1, <2>2
<1>9. Slot(c, k) = c[a + 1][b + 1]
  BY <1>8 DEF Slot
<1> HIDE DEF k
<1> QED BY <1>2, <1>7, <1>9 DEF Slots, k

\* A slot in a later bucket is a later slot.
LEMMA LaterBucket ==
  ASSUME NEW i \in Nat, NEW j \in Nat, i < j, 1 <= i, NEW p \in Positions, NEW q \in Positions
  PROVE  SlotOf(i, p) < SlotOf(j, q)
<1> DEFINE E == EntriesPerBucket
           m == (i - 1) * E
           n == (j - 1) * E
<1>1. E \in Nat /\ E >= 2 /\ p \in 1 .. E /\ q \in 1 .. E
  BY BucketFacts DEF Positions
<1>2. m \in Nat /\ n \in Nat
  BY <1>1
<1>3. i * E <= n
  <2>1. j - 1 \in Nat /\ i <= j - 1
    OBVIOUS
  <2> QED BY <1>1, <2>1, MulOrder
<1>4. i * E = m + E
  BY <1>1
<1> HIDE DEF m, n
<1>5. m + p < n + q
  BY <1>1, <1>2, <1>3, <1>4
<1> QED BY <1>5 DEF SlotOf, m, n

-----------------------------------------------------------------------------
(* What the operations on a chain do to its entries.                       *)

\* A chain with room takes an entry at a free position that is not a link.
LEMMA PutInRoom ==
  ASSUME NEW c, GoodChain(c), NEW x \in Elems, x \notin Entries(c),
         {i \in 1 .. Len(c) : ~ IsFull(c, i)} # {}
  PROVE  \E i \in 1 .. Len(c) : \E p \in Positions :
           /\ Put(c, x) = Set(c, i, p, x)
           /\ c[i][p] = None /\ (i < Len(c) => p # EntriesPerBucket)
<1> DEFINE room == {i \in 1 .. Len(c) : ~ IsFull(c, i)}
           i == First(room)
           p == First((1 .. NumPositions(c, i)) \ Filled(c[i]))
<1>1. Len(c) \in Nat
  BY ChainFacts DEF GoodChain
<1>2. room \subseteq Nat /\ room # {}
  BY <1>1
<1>3. i \in room
  <2> HIDE DEF room
  <2> QED BY <1>2, FirstIsLeast
<1>4. i \in 1 .. Len(c) /\ ~ IsFull(c, i)
  <2> HIDE DEF i
  <2> QED BY <1>3
<1>5. Put(c, x) = [c EXCEPT ![i][p] = x]
  BY <1>2 DEF Put
<1> HIDE DEF i, room
<1>6. p \in Positions /\ c[i][p] = None /\ (i < Len(c) => p # EntriesPerBucket)
  <2> HIDE DEF p
  <2>1. p = First((1 .. NumPositions(c, i)) \ Filled(c[i]))
    BY DEF p
  <2> QED BY <1>4, <2>1, FreePosition
<1> HIDE DEF p
<1>7. Put(c, x) = Set(c, i, p, x)
  BY <1>5 DEF Set
<1> QED BY <1>4, <1>6, <1>7

\* The chain that a full chain becomes: its last entry and x in a new bucket.
Grown(c, x) ==
  Set(Set(Append(Set(c, Len(c), EntriesPerBucket, None), EmptyBucket),
          Len(c) + 1, 1, c[Len(c)][EntriesPerBucket]),
      Len(c) + 1, 2, x)

\* Such a chain, cell by cell.
LEMMA GrownFacts ==
  ASSUME NEW c, GoodChain(c), NEW x \in Elems, x \notin Entries(c),
         c[Len(c)][EntriesPerBucket] # None
  PROVE  /\ GoodChain(Grown(c, x)) /\ Entries(Grown(c, x)) = Entries(c) \cup {x}
         /\ Len(Grown(c, x)) = Len(c) + 1
         /\ Grown(c, x)[Len(c) + 1][1] = c[Len(c)][EntriesPerBucket]
         /\ Grown(c, x)[Len(c) + 1][2] = x
         /\ \A q \in Positions : q # 1 /\ q # 2 => Grown(c, x)[Len(c) + 1][q] = None
         /\ Grown(c, x)[Len(c)][EntriesPerBucket] = None
         /\ \A i \in 1 .. Len(c) : \A p \in Positions :
              i # Len(c) \/ p # EntriesPerBucket => Grown(c, x)[i][p] = c[i][p]
<1> DEFINE n == Len(c)
           E == EntriesPerBucket
           y == c[n][E]
           c1 == Set(c, n, E, None)
           c2 == Append(c1, EmptyBucket)
           c3 == Set(c2, n + 1, 1, y)
           c4 == Set(c3, n + 1, 2, x)
<1>1. c \in Chains /\ n \in Nat /\ n \in 1 .. n /\ n >= 1
  BY ChainFacts DEF GoodChain
<1>2. E \in Nat /\ E >= 2 /\ E \in Positions /\ 1 \in Positions /\ 2 \in Positions
  BY BucketFacts
<1>3. y \in Elems /\ y \in Entries(c) /\ y # x /\ y # None
  <2>1. y \in Elems \cup {None} /\ y # None
    BY <1>1, <1>2, ChainFacts
  <2>2. y \in Entries(c)
    BY <1>1, <1>2, EntriesFacts
  <2> QED BY <2>1, <2>2
<1>4. GoodChain(c1) /\ Entries(c1) = Entries(c) \ {y}
  BY <1>1, <1>2, ClearEntry
<1>5. /\ Len(c1) = n /\ c1[n][E] = None
      /\ \A i \in 1 .. n : \A p \in Positions : i # n \/ p # E => c1[i][p] = c[i][p]
  <2>1. None \in Elems \cup {None}
    OBVIOUS
  <2>2. IsSet(c1, c, n, E, None)
    BY <1>1, <1>2, <2>1, SetIsSet
  <2> QED BY <2>2 DEF IsSet
<1> HIDE DEF c1
<1>6. /\ GoodChain(c2) /\ Entries(c2) = Entries(c1) /\ Len(c2) = n + 1
      /\ \A k \in 1 .. n : c2[k] = c1[k]
      /\ c2[n + 1] = EmptyBucket
  BY <1>4, <1>5, AppendBucket
<1>7. \A p \in Positions : c2[n + 1][p] = None
  BY <1>6, BucketFacts
<1>8. c2 \in Chains /\ n + 1 \in 1 .. Len(c2) /\ ~ (n + 1 < Len(c2))
  BY <1>1, <1>6 DEF GoodChain
<1> HIDE DEF c2
<1>9. GoodChain(c3) /\ Entries(c3) = Entries(c2) \cup {y}
  <2>1. y \notin Entries(c2)
    BY <1>4, <1>6
  <2> HIDE DEF y
  <2> QED BY <1>2, <1>3, <1>6, <1>7, <1>8, <2>1, SetEntry
<1>10. /\ c3 \in Chains /\ Len(c3) = n + 1 /\ c3[n + 1][1] = y
       /\ \A i \in 1 .. n + 1 : \A p \in Positions : i # n + 1 \/ p # 1 => c3[i][p] = c2[i][p]
  <2> HIDE DEF y
  <2>1. y \in Elems \cup {None}
    BY <1>3
  <2>2. IsSet(c3, c2, n + 1, 1, y)
    BY <1>2, <1>8, <2>1, SetIsSet
  <2> HIDE DEF c3
  <2> QED BY <1>6, <2>2 DEF IsSet
<1> HIDE DEF c3
<1>11. c3[n + 1][2] = None
  BY <1>2, <1>6, <1>7, <1>8, <1>10
<1>12. Entries(c3) = Entries(c)
  BY <1>3, <1>4, <1>6, <1>9
<1>13. n + 1 \in 1 .. Len(c3) /\ ~ (n + 1 < Len(c3))
  BY <1>1, <1>10
<1>14. GoodChain(c4) /\ Entries(c4) = Entries(c3) \cup {x}
  BY <1>2, <1>9, <1>11, <1>12, <1>13, SetEntry
<1>15. /\ Len(c4) = n + 1 /\ c4[n + 1][2] = x
       /\ \A i \in 1 .. n + 1 : \A p \in Positions : i # n + 1 \/ p # 2 => c4[i][p] = c3[i][p]
  <2>1. x \in Elems \cup {None}
    OBVIOUS
  <2>2. IsSet(c4, c3, n + 1, 2, x)
    BY <1>2, <1>10, <1>13, <2>1, SetIsSet
  <2> HIDE DEF c4
  <2> QED BY <1>10, <2>2 DEF IsSet
<1> HIDE DEF c4
<1>16. n + 1 \in 1 .. n + 1 /\ n \in 1 .. n + 1 /\ n # n + 1 /\ \A i \in 1 .. n : i \in 1 .. n + 1 /\ i # n + 1
  BY <1>1
<1>17. c4[n + 1][1] = y
  BY <1>2, <1>10, <1>15, <1>16
<1>18. \A q \in Positions : q # 1 /\ q # 2 => c4[n + 1][q] = None
  BY <1>7, <1>10, <1>15, <1>16
<1>19. \A i \in 1 .. n : \A p \in Positions : c4[i][p] = c1[i][p]
  BY <1>6, <1>10, <1>15, <1>16
<1>20. Grown(c, x) = c4
  BY DEF Grown, c1, c2, c3, c4
<1> QED
  BY <1>1, <1>2, <1>5, <1>12, <1>14, <1>15, <1>17, <1>18, <1>19, <1>20

\* A chain without room grows by a bucket.
LEMMA PutWhenFull ==
  ASSUME NEW c, GoodChain(c), NEW x \in Elems, x \notin Entries(c),
         {i \in 1 .. Len(c) : ~ IsFull(c, i)} = {}
  PROVE  c[Len(c)][EntriesPerBucket] # None /\ Put(c, x) = Grown(c, x)
<1> DEFINE n == Len(c)
           E == EntriesPerBucket
           y == c[n][E]
           c1 == Set(c, n, E, None)
           b == [EmptyBucket EXCEPT ![1] = y, ![2] = x]
           d == Append(c1, b)
           g == Grown(c, x)
<1>1. c \in Chains /\ n \in Nat /\ n \in 1 .. n /\ n >= 1
  BY ChainFacts DEF GoodChain
<1>2. E \in Nat /\ E >= 2 /\ E \in Positions /\ 1 \in Positions /\ 2 \in Positions
  BY BucketFacts
<1>3. y # None
  <2>1. IsFull(c, n)
    BY <1>1
  <2> QED BY <2>1, FullLast
<1>4. y \in Elems
  <2>1. y \in Elems \cup {None}
    BY <1>1, <1>2, ChainFacts
  <2> QED BY <1>3, <2>1
<1>5. Put(c, x) = d
  BY DEF Put, Set
<1>6. b \in Bucket /\ b[1] = y /\ b[2] = x /\ \A q \in Positions : q # 1 /\ q # 2 => b[q] = None
  <2>1. EmptyBucket \in Bucket /\ \A p \in Positions : EmptyBucket[p] = None
    BY BucketFacts
  <2> HIDE DEF y
  <2> QED BY <1>2, <1>4, <2>1 DEF Bucket, Positions
<1> HIDE DEF b
<1>7. IsSet(c1, c, n, E, None)
  <2>1. None \in Elems \cup {None}
    OBVIOUS
  <2> QED BY <1>1, <1>2, <2>1, SetIsSet
<1> HIDE DEF c1
<1>8. c1 \in Chains /\ Len(c1) = n
  BY <1>7 DEF IsSet
<1>9. d \in Chains /\ Len(d) = n + 1 /\ d[n + 1] = b /\ \A k \in 1 .. n : d[k] = c1[k]
  BY <1>1, <1>6, <1>8 DEF Chains
<1> HIDE DEF d
<1>10. /\ g \in Chains /\ Len(g) = n + 1
       /\ g[n + 1][1] = y /\ g[n + 1][2] = x
       /\ \A q \in Positions : q # 1 /\ q # 2 => g[n + 1][q] = None
       /\ g[n][E] = None
       /\ \A i \in 1 .. n : \A p \in Positions : i # n \/ p # E => g[i][p] = c[i][p]
  BY <1>3, GrownFacts DEF GoodChain
<1> HIDE DEF g
<1>11. ASSUME NEW i \in 1 .. Len(d), NEW p \in Positions PROVE d[i][p] = g[i][p]
  <2>1. CASE i = n + 1
    BY <1>6, <1>9, <1>10, <2>1
  <2>2. CASE i # n + 1
    <3>1. i \in 1 .. n
      BY <1>1, <1>9, <2>2
    <3>2. d[i][p] = c1[i][p]
      BY <1>9, <3>1
    <3>3. c1[i][p] = g[i][p]
      BY <1>7, <1>10, <3>1 DEF IsSet
    <3> QED BY <3>2, <3>3
  <2> QED BY <2>1, <2>2
<1>12. d = g
  BY <1>9, <1>10, <1>11, ChainsEqual
<1> QED BY <1>3, <1>5, <1>12 DEF g

\* Inserting adds the entry and moves no other entry to an earlier slot.
LEMMA PutFacts ==
  ASSUME NEW c, GoodChain(c), NEW x \in Elems, x \notin Entries(c)
  PROVE  /\ GoodChain(Put(c, x)) /\ Entries(Put(c, x)) = Entries(c) \cup {x}
         /\ \A k \in Slots(c) : Slot(c, k) # None =>
              \E m \in Slots(Put(c, x)) : m >= k /\ Slot(Put(c, x), m) = Slot(c, k)
<1> DEFINE n == Len(c)
           E == EntriesPerBucket
           d == Put(c, x)
<1>1. c \in Chains /\ n \in Nat /\ n \in 1 .. n /\ n >= 1
  BY ChainFacts DEF GoodChain
<1>2. E \in Nat /\ E >= 2 /\ E \in Positions /\ 1 \in Positions /\ 2 \in Positions
  BY BucketFacts
<1>3. CASE {i \in 1 .. n : ~ IsFull(c, i)} # {}
  <2>1. PICK i \in 1 .. n, p \in Positions :
          d = Set(c, i, p, x) /\ c[i][p] = None /\ (i < n => p # E)
    BY <1>3, PutInRoom
  <2>2. GoodChain(d) /\ Entries(d) = Entries(c) \cup {x}
    <3> HIDE DEF d
    <3> QED BY <2>1, SetEntry
  <2>3. IsSet(d, c, i, p, x)
    <3>1. x \in Elems \cup {None}
      OBVIOUS
    <3>2. IsSet(Set(c, i, p, x), c, i, p, x)
      BY <1>1, <3>1, SetIsSet
    <3> QED BY <2>1, <3>2
  <2> HIDE DEF d
  <2>4. ASSUME NEW k \in Slots(c), Slot(c, k) # None
        PROVE  k \in Slots(d) /\ k >= k /\ Slot(d, k) = Slot(c, k)
    <3>1. PICK j \in 1 .. n, q \in Positions : k = SlotOf(j, q) /\ Slot(c, k) = c[j][q]
      BY <1>1, SlotIsCell
    <3>2. j # i \/ q # p
      BY <2>1, <2>4, <3>1
    <3>3. d \in Chains /\ Len(d) = n /\ d[j][q] = c[j][q]
      BY <2>3, <3>2 DEF IsSet
    <3>4. SlotOf(j, q) \in Slots(d) /\ Slot(d, SlotOf(j, q)) = d[j][q] /\ SlotOf(j, q) \in Nat
      BY <3>3, CellIsSlot
    <3> QED BY <3>1, <3>3, <3>4
  <2> QED BY <2>2, <2>4 DEF d
<1>4. CASE {i \in 1 .. n : ~ IsFull(c, i)} = {}
  <2>1. c[n][E] # None /\ d = Grown(c, x)
    BY <1>4, PutWhenFull
  <2> HIDE DEF d
  <2>2. /\ GoodChain(d) /\ Entries(d) = Entries(c) \cup {x}
        /\ Len(d) = n + 1 /\ d[n + 1][1] = c[n][E]
        /\ \A i \in 1 .. n : \A p \in Positions : i # n \/ p # E => d[i][p] = c[i][p]
    BY <2>1, GrownFacts
  <2>3. d \in Chains
    BY <2>2 DEF GoodChain
  <2>4. ASSUME NEW k \in Slots(c), Slot(c, k) # None
        PROVE  \E m \in Slots(d) : m >= k /\ Slot(d, m) = Slot(c, k)
    <3>1. PICK j \in 1 .. n, q \in Positions : k = SlotOf(j, q) /\ Slot(c, k) = c[j][q]
      BY <1>1, SlotIsCell
    <3>2. CASE j # n \/ q # E
      <4>1. j \in 1 .. Len(d) /\ d[j][q] = c[j][q]
        BY <1>1, <2>2, <3>2
      <4>2. SlotOf(j, q) \in Slots(d) /\ Slot(d, SlotOf(j, q)) = d[j][q] /\ SlotOf(j, q) \in Nat
        BY <2>3, <4>1, CellIsSlot
      <4>3. k >= k
        BY <3>1, <4>2
      <4> QED BY <3>1, <4>1, <4>2, <4>3
    <3>3. CASE j = n /\ q = E
      <4>1. n + 1 \in 1 .. Len(d) /\ d[n + 1][1] = c[j][q]
        BY <1>1, <2>2, <3>3
      <4> DEFINE m == SlotOf(n + 1, 1)
      <4>2. m \in Slots(d) /\ Slot(d, m) = d[n + 1][1] /\ m \in Nat
        BY <1>2, <2>3, <4>1, CellIsSlot
      <4>3. k < m /\ k \in Nat
        <5>1. SlotOf(n, E) < SlotOf(n + 1, 1)
          BY <1>1, <1>2, LaterBucket
        <5>2. SlotOf(n, E) \in Nat
          BY <1>1, <1>2, CellIsSlot
        <5> QED BY <3>1, <3>3, <5>1, <5>2
      <4> HIDE DEF m
      <4>4. m >= k
        BY <4>2, <4>3
      <4> QED BY <3>1, <4>1, <4>2, <4>4
    <3> QED BY <3>2, <3>3
  <2> QED BY <2>2, <2>4 DEF d
<1> QED BY <1>3, <1>4

\* Pruning the last bucket keeps the entries.
LEMMA PruneFacts ==
  ASSUME NEW c, GoodChain(c), Len(c) >= 2, Cardinality(Filled(c[Len(c)])) <= 1
  PROVE  /\ GoodChain(PruneLastBucket(c)) /\ Entries(PruneLastBucket(c)) = Entries(c)
         /\ Len(PruneLastBucket(c)) = Len(c) - 1
<1> DEFINE n == Len(c)
           E == EntriesPerBucket
           left == Filled(c[n])
           front == SubSeq(c, 1, n - 2)
           d == PruneLastBucket(c)
<1>1. c \in Chains /\ n \in Nat /\ n \in 1 .. n /\ n - 1 \in 1 .. n /\ Linked(c)
  BY ChainFacts DEF GoodChain
<1>2. E \in Nat /\ E >= 2 /\ E \in Positions
  BY BucketFacts
<1>3. /\ left \subseteq Positions /\ left \subseteq Nat /\ IsFiniteSet(left)
      /\ \A p \in Positions : p \in left <=> c[n][p] # None
  BY <1>1, FilledFacts
<1>4. c[n - 1] \in Bucket
  BY <1>1, ChainFacts
<1>5. front \in Seq(Bucket) /\ Len(front) = n - 2 /\ \A k \in 1 .. n - 2 : front[k] = c[k]
  <2> DEFINE m == n - 2
  <2>1. m \in Nat /\ 1 \in Int /\ m \in Int
    BY <1>1
  <2>2. \A k \in 1 .. m : c[k] \in Bucket
    BY <1>1, ChainFacts
  <2>3. front = SubSeq(c, 1, m)
    OBVIOUS
  <2> HIDE DEF m, front
  <2>4. /\ SubSeq(c, 1, m) \in Seq(Bucket)
        /\ Len(SubSeq(c, 1, m)) = IF 1 <= m THEN m - 1 + 1 ELSE 0
        /\ \A k \in 1 .. m - 1 + 1 : SubSeq(c, 1, m)[k] = c[1 + k - 1]
    BY <2>1, <2>2, SubSeqProperties
  <2>5. m - 1 + 1 = m /\ \A k \in 1 .. m : 1 + k - 1 = k
    BY <2>1
  <2>6. Len(front) = m
    BY <2>1, <2>3, <2>4
  <2>7. \A k \in 1 .. m : front[k] = c[k]
    BY <2>3, <2>4, <2>5
  <2> QED BY <2>3, <2>4, <2>6, <2>7 DEF m
<1>6. CASE left = {}
  <2>1. d = Append(front, c[n - 1])
    BY <1>6 DEF PruneLastBucket
  <2> DEFINE e == SubSeq(c, 1, n - 1)
  <2>2. /\ GoodChain(e) /\ Entries(e) = Entries(c)
        /\ Len(e) = n - 1 /\ \A k \in 1 .. n - 1 : e[k] = c[k]
    <3>1. \A p \in Positions : c[n][p] = None
      BY <1>3, <1>6
    <3> QED BY <3>1, DropLast
  <2> HIDE DEF d, e, front
  <2>3. d \in Seq(Bucket) /\ Len(d) = n - 1 /\ \A k \in 1 .. n - 1 : d[k] = c[k]
    <3>1. d \in Seq(Bucket) /\ Len(d) = (n - 2) + 1 /\ d[(n - 2) + 1] = c[n - 1]
          /\ \A k \in 1 .. n - 2 : d[k] = front[k]
      BY <1>4, <1>5, <2>1
    <3>2. (n - 2) + 1 = n - 1
      BY <1>1
    <3>3. ASSUME NEW k \in 1 .. n - 1 PROVE d[k] = c[k]
      <4>1. k = n - 1 \/ k \in 1 .. n - 2
        BY <1>1
      <4> QED BY <1>5, <3>1, <3>2, <4>1
    <3> QED BY <3>1, <3>2, <3>3
  <2>4. d = e
    <3>1. e \in Seq(Bucket)
      BY <2>2 DEF GoodChain, Chains
    <3> QED BY <2>2, <2>3, <3>1
  <2> QED BY <2>2, <2>4 DEF d
<1>7. CASE left # {}
  <2> DEFINE q == First(left)
             x == c[n][q]
             b == [c[n - 1] EXCEPT ![E] = x]
             c1 == Set(c, n, q, None)
             e == SubSeq(c1, 1, n - 1)
             g == Set(e, n - 1, E, x)
  <2>1. q \in left /\ q \in Positions
    <3>1. q \in left
      <4> HIDE DEF left
      <4> QED BY <1>3, <1>7, FirstIsLeast
    <3> QED BY <1>3, <3>1
  <2>2. x \in Elems /\ x \in Entries(c)
    <3>1. x # None
      BY <1>3, <2>1
    <3>2. x \in Elems \cup {None}
      BY <1>1, <2>1, ChainFacts
    <3>3. x \in Entries(c)
      BY <1>1, <2>1, <3>1, EntriesFacts
    <3> QED BY <3>1, <3>2, <3>3
  <2>3. d = Append(front, b)
    BY <1>7 DEF PruneLastBucket
  <2>4. \A p \in Positions : p # q => c[n][p] = None
    <3>1. \A p \in left : p = q
      <4> HIDE DEF q, left
      <4> QED BY <1>3, <2>1, AtMostOne DEF left
    <3> QED BY <1>3, <3>1
  <2> HIDE DEF q
  <2>5. b \in Bucket /\ b[E] = x /\ \A p \in Positions : p # E => b[p] = c[n - 1][p]
    <3> HIDE DEF x
    <3> QED BY <1>2, <1>4, <2>2 DEF Bucket, Positions
  <2>6. GoodChain(c1) /\ Entries(c1) = Entries(c) \ {x}
    BY <1>1, <2>1, ClearEntry
  <2>7. IsSet(c1, c, n, q, None)
    <3>1. None \in Elems \cup {None}
      OBVIOUS
    <3> QED BY <1>1, <2>1, <3>1, SetIsSet
  <2> HIDE DEF c1, x, b
  <2>8. Len(c1) = n /\ \A p \in Positions : c1[n][p] = None
    BY <1>1, <2>4, <2>7 DEF IsSet
  <2>9. /\ GoodChain(e) /\ Entries(e) = Entries(c1)
        /\ Len(e) = n - 1 /\ \A k \in 1 .. n - 1 : e[k] = c1[k]
    BY <2>6, <2>8, DropLast
  <2> HIDE DEF e
  <2>10. e \in Chains /\ n - 1 \in 1 .. Len(e) /\ ~ (n - 1 < Len(e))
    BY <1>1, <2>9 DEF GoodChain
  <2>11. \A k \in 1 .. n - 1 : \A p \in Positions : e[k][p] = c[k][p]
    <3> TAKE k \in 1 .. n - 1
    <3> TAKE p \in Positions
    <3>1. k \in 1 .. n /\ k # n
      BY <1>1
    <3>2. c1[k][p] = c[k][p]
      BY <2>7, <3>1 DEF IsSet
    <3> QED BY <2>9, <3>2
  <2>12. e[n - 1][E] = None
    <3>1. c[n - 1][E] = None
      BY <1>1 DEF Linked
    <3>2. n - 1 \in 1 .. n - 1
      BY <1>1
    <3> QED BY <1>2, <2>11, <3>1, <3>2
  <2>13. GoodChain(g) /\ Entries(g) = Entries(e) \cup {x}
    <3>1. x \notin Entries(e)
      BY <2>6, <2>9
    <3> QED BY <1>2, <2>2, <2>9, <2>10, <2>12, <3>1, SetEntry
  <2>14. IsSet(g, e, n - 1, E, x)
    <3>1. x \in Elems \cup {None}
      BY <2>2
    <3> QED BY <1>2, <2>10, <3>1, SetIsSet
  <2> HIDE DEF g, d, front
  <2>15. d \in Chains /\ Len(d) = n - 1 /\ d[n - 1] = b /\ \A k \in 1 .. n - 2 : d[k] = c[k]
    <3>1. d \in Seq(Bucket) /\ Len(d) = (n - 2) + 1 /\ d[(n - 2) + 1] = b
          /\ \A k \in 1 .. n - 2 : d[k] = front[k]
      BY <2>5, <1>5, <2>3
    <3>2. (n - 2) + 1 = n - 1
      BY <1>1
    <3> QED BY <1>5, <3>1, <3>2 DEF Chains
  <2>16. ASSUME NEW k \in 1 .. Len(d), NEW p \in Positions PROVE d[k][p] = g[k][p]
    <3>0. n \in Nat /\ Len(e) = n - 1 /\ Len(d) = n - 1
      BY <1>1, <2>9, <2>15
    <3>1. k \in 1 .. n - 1 /\ k \in 1 .. Len(e) /\ (k = n - 1 \/ k \in 1 .. n - 2)
      BY <3>0
    <3>2. CASE k = n - 1 /\ p = E
      BY <2>5, <2>14, <2>15, <3>2 DEF IsSet
    <3>3. CASE k = n - 1 /\ p # E
      <4>1. g[k][p] = e[k][p] /\ e[k][p] = c[k][p]
        BY <2>11, <2>14, <3>1, <3>3 DEF IsSet
      <4>2. d[k][p] = c[k][p]
        BY <2>5, <2>15, <3>3
      <4> QED BY <4>1, <4>2
    <3>4. CASE k # n - 1
      <4>1. g[k][p] = e[k][p] /\ e[k][p] = c[k][p]
        BY <2>11, <2>14, <3>1, <3>4 DEF IsSet
      <4>2. d[k][p] = c[k][p]
        BY <2>15, <3>1, <3>4
      <4> QED BY <4>1, <4>2
    <3> QED BY <3>2, <3>3, <3>4
  <2>17. d = g
    <3>1. g \in Chains /\ Len(g) = n - 1
      BY <2>9, <2>14 DEF IsSet
    <3> QED BY <2>15, <2>16, <3>1, ChainsEqual
  <2> QED BY <2>2, <2>6, <2>9, <2>13, <2>15, <2>17 DEF d
<1> QED BY <1>6, <1>7

\* Position q of the last bucket moved to position p of bucket i.
Moved(c, i, p, q) == [c EXCEPT ![i][p] = c[Len(c)][q], ![Len(c)][q] = None]

\* An entry of the last bucket moved to a free position of another.
LEMMA MoveEntry ==
  ASSUME NEW c, GoodChain(c), NEW i \in 1 .. Len(c), i < Len(c),
         NEW p \in Positions, p # EntriesPerBucket, c[i][p] = None,
         NEW q \in Positions, c[Len(c)][q] # None,
         NEW d, d = Moved(c, i, p, q)
  PROVE  GoodChain(d) /\ Entries(d) = Entries(c) /\ Len(d) = Len(c)
<1> DEFINE n == Len(c)
           x == c[n][q]
           c1 == Set(c, n, q, None)
           c2 == Set(c1, i, p, x)
           a1 == Set(c, i, p, x)
           a2 == Set(a1, n, q, None)
<1>1. c \in Chains /\ n \in Nat /\ n \in 1 .. n
  BY ChainFacts DEF GoodChain
<1>2. x \in Elems /\ x \in Entries(c) /\ x \in Elems \cup {None} /\ None \in Elems \cup {None}
  <2>1. x \in Elems \cup {None}
    BY <1>1, ChainFacts
  <2>2. x \in Entries(c)
    BY <1>1, EntriesFacts
  <2> QED BY <2>1, <2>2
<1>3. d = a2
  BY DEF Set, Moved
<1>4. GoodChain(c1) /\ Entries(c1) = Entries(c) \ {x}
  BY <1>1, ClearEntry
<1>5. IsSet(c1, c, n, q, None)
  BY <1>1, <1>2, SetIsSet
<1> HIDE DEF x
<1>6. IsSet(a1, c, i, p, x)
  BY <1>1, <1>2, SetIsSet
<1> HIDE DEF c1, a1
<1>7. c1 \in Chains /\ Len(c1) = n /\ c1[i][p] = None
  BY <1>5 DEF IsSet
<1>8. a1 \in Chains /\ Len(a1) = n
  BY <1>6 DEF IsSet
<1>9. GoodChain(c2) /\ Entries(c2) = Entries(c1) \cup {x}
  <2>1. i \in 1 .. Len(c1) /\ (i < Len(c1) => p # EntriesPerBucket)
    BY <1>7
  <2>2. x \notin Entries(c1)
    BY <1>4
  <2> QED BY <1>2, <1>4, <1>7, <2>1, <2>2, SetEntry
<1>10. IsSet(c2, c1, i, p, x)
  BY <1>2, <1>7, SetIsSet
<1>11. IsSet(a2, a1, n, q, None)
  BY <1>1, <1>2, <1>8, SetIsSet
<1> HIDE DEF c2, a2
<1>12. c2 \in Chains /\ a2 \in Chains /\ Len(c2) = n /\ Len(a2) = n
  BY <1>7, <1>8, <1>10, <1>11 DEF IsSet
<1>13. ASSUME NEW j \in 1 .. n, NEW r \in Positions PROVE a2[j][r] = c2[j][r]
  <2>0. i # n
    BY <1>1
  <2>1. CASE j = i /\ r = p
    <3>1. c2[j][r] = x
      BY <1>10, <2>1 DEF IsSet
    <3>2. a1[j][r] = x
      BY <1>6, <2>1 DEF IsSet
    <3>3. a2[j][r] = a1[j][r]
      BY <1>8, <1>11, <2>0, <2>1 DEF IsSet
    <3> QED BY <3>1, <3>2, <3>3
  <2>2. CASE j = n /\ r = q
    <3>1. a2[j][r] = None
      BY <1>11, <2>2 DEF IsSet
    <3>2. c1[j][r] = None
      BY <1>5, <2>2 DEF IsSet
    <3>3. c2[j][r] = c1[j][r]
      BY <1>7, <1>10, <2>0, <2>2 DEF IsSet
    <3> QED BY <3>1, <3>2, <3>3
  <2>3. CASE (j # i \/ r # p) /\ (j # n \/ r # q)
    <3>1. c2[j][r] = c1[j][r]
      BY <1>7, <1>10, <2>3 DEF IsSet
    <3>2. c1[j][r] = c[j][r]
      BY <1>5, <2>3 DEF IsSet
    <3>3. a2[j][r] = a1[j][r]
      BY <1>8, <1>11, <2>3 DEF IsSet
    <3>4. a1[j][r] = c[j][r]
      BY <1>6, <2>3 DEF IsSet
    <3> QED BY <3>1, <3>2, <3>3, <3>4
  <2> QED BY <2>1, <2>2, <2>3
<1>14. a2 = c2
  BY <1>12, <1>13, ChainsEqual
<1> QED BY <1>2, <1>3, <1>4, <1>9, <1>12, <1>14

\* Filling a hole keeps the entries, and at most the last bucket goes.
LEMMA FillBucketHoleFacts ==
  ASSUME NEW c, GoodChain(c), NEW i \in 1 .. Len(c), i < Len(c),
         NEW p \in Positions, p # EntriesPerBucket, c[i][p] = None
  PROVE  /\ GoodChain(FillBucketHole(c, i, p)) /\ Entries(FillBucketHole(c, i, p)) = Entries(c)
         /\ i <= Len(FillBucketHole(c, i, p))
<1> DEFINE n == Len(c)
           from == First(Filled(c[n]))
           moved == IF Filled(c[n]) = {} THEN c
                    ELSE [c EXCEPT ![i][p] = c[n][from], ![n][from] = None]
<1>1. c \in Chains /\ n \in Nat /\ n \in 1 .. n /\ n >= 2
  BY ChainFacts DEF GoodChain
<1>2. GoodChain(moved) /\ Entries(moved) = Entries(c) /\ Len(moved) = n
  <2>1. CASE Filled(c[n]) = {}
    BY <2>1
  <2>2. CASE Filled(c[n]) # {}
    <3>1. from \in Positions /\ c[n][from] # None
      <4>1. /\ Filled(c[n]) \subseteq Positions /\ Filled(c[n]) \subseteq Nat
            /\ \A q \in Positions : q \in Filled(c[n]) <=> c[n][q] # None
        BY <1>1, FilledFacts
      <4>2. from \in Filled(c[n])
        BY <2>2, <4>1, FirstIsLeast
      <4> HIDE DEF from
      <4> QED BY <4>1, <4>2
    <3> HIDE DEF from
    <3>2. moved = Moved(c, i, p, from)
      BY <2>2 DEF Moved
    <3> HIDE DEF moved
    <3> QED BY <3>1, <3>2, MoveEntry
  <2> QED BY <2>1, <2>2
<1>3. FillBucketHole(c, i, p) = IF Cardinality(Filled(moved[n])) <= 1 THEN PruneLastBucket(moved) ELSE moved
  BY DEF FillBucketHole
<1> HIDE DEF moved
<1>4. CASE Cardinality(Filled(moved[n])) <= 1
  <2>1. /\ GoodChain(PruneLastBucket(moved)) /\ Entries(PruneLastBucket(moved)) = Entries(moved)
        /\ Len(PruneLastBucket(moved)) = n - 1
    BY <1>1, <1>2, <1>4, PruneFacts
  <2> QED BY <1>1, <1>2, <1>3, <1>4, <2>1
<1>5. CASE ~ (Cardinality(Filled(moved[n])) <= 1)
  BY <1>1, <1>2, <1>3, <1>5
<1> QED BY <1>4, <1>5

\* Taking an entry out leaves the others; while rehashing is paused they also stay where
\* they are.
LEMMA TakeFacts ==
  ASSUME NEW c, GoodChain(c), NEW x \in Entries(c), NEW paused \in BOOLEAN
  PROVE  /\ GoodChain(Take(c, x, paused)) /\ Entries(Take(c, x, paused)) = Entries(c) \ {x}
         /\ paused => /\ Len(Take(c, x, paused)) = Len(c)
                      /\ \A k \in Slots(c) : Slot(c, k) # x => Slot(Take(c, x, paused), k) = Slot(c, k)
<1> DEFINE n == Len(c)
           E == EntriesPerBucket
           i == CHOOSE j \in 1 .. Len(c) : \E q \in DOMAIN c[j] : c[j][q] = x
           p == CHOOSE q \in DOMAIN c[i] : c[i][q] = x
           holed == [c EXCEPT ![i][p] = None]
<1>1. c \in Chains /\ n \in Nat /\ Linked(c) /\ \A j \in 1 .. n : DOMAIN c[j] = Positions
  BY ChainFacts DEF GoodChain
<1>2. x # None /\ None \in Elems \cup {None}
  BY <1>1, EntriesFacts
<1>3. \E j \in 1 .. n : \E q \in DOMAIN c[j] : c[j][q] = x
  BY <1>1, EntriesFacts
<1>4. i \in 1 .. n /\ \E q \in DOMAIN c[i] : c[i][q] = x
  BY <1>3
<1>5. Take(c, x, paused) = IF i < n /\ ~ paused THEN FillBucketHole(holed, i, p) ELSE holed
  BY DEF Take
<1> HIDE DEF i
<1>6. p \in DOMAIN c[i] /\ c[i][p] = x
  BY <1>4
<1>7. p \in Positions
  BY <1>1, <1>4, <1>6
<1>8. holed = Set(c, i, p, None)
  BY DEF Set
<1> HIDE DEF p, holed
<1>9. GoodChain(holed) /\ Entries(holed) = Entries(c) \ {x}
  BY <1>4, <1>6, <1>7, <1>8, ClearEntry
<1>10. IsSet(holed, c, i, p, None)
  <2>1. IsSet(Set(c, i, p, None), c, i, p, None)
    BY <1>1, <1>2, <1>4, <1>7, SetIsSet
  <2> QED BY <1>8, <2>1
<1>11. holed \in Chains /\ Len(holed) = n /\ holed[i][p] = None
  BY <1>10 DEF IsSet
<1>12. CASE i < n /\ ~ paused
  <2>1. p # E
    <3>1. i \in 1 .. n - 1
      BY <1>1, <1>4, <1>12
    <3>2. c[i][E] = None
      BY <1>1, <3>1 DEF Linked
    <3> QED BY <1>2, <1>6, <3>2
  <2>2. i \in 1 .. Len(holed) /\ i < Len(holed)
    BY <1>4, <1>11, <1>12
  <2>3. /\ GoodChain(FillBucketHole(holed, i, p))
        /\ Entries(FillBucketHole(holed, i, p)) = Entries(holed)
    BY <1>7, <1>9, <1>11, <2>1, <2>2, FillBucketHoleFacts
  <2> QED BY <1>5, <1>9, <1>12, <2>3
<1>13. CASE ~ (i < n /\ ~ paused)
  <2>1. Take(c, x, paused) = holed
    BY <1>5, <1>13
  <2>2. ASSUME NEW k \in Slots(c), Slot(c, k) # x PROVE Slot(holed, k) = Slot(c, k)
    <3>1. PICK j \in 1 .. n, q \in Positions : k = SlotOf(j, q) /\ Slot(c, k) = c[j][q]
      BY <1>1, SlotIsCell
    <3>2. j # i \/ q # p
      BY <1>6, <2>2, <3>1
    <3>3. holed[j][q] = c[j][q] /\ j \in 1 .. Len(holed)
      BY <1>10, <1>11, <3>2 DEF IsSet
    <3>4. Slot(holed, SlotOf(j, q)) = holed[j][q]
      BY <1>11, <3>3, CellIsSlot
    <3> QED BY <3>1, <3>3, <3>4
  <2> QED BY <1>9, <1>11, <2>1, <2>2
<1> QED BY <1>12, <1>13

\* A chain without the entries of D.
Without(c, D) ==
  [i \in 1 .. Len(c) |-> [p \in DOMAIN c[i] |-> IF c[i][p] \in D THEN None ELSE c[i][p]]]

\* What is left of a chain.
LEMMA WithoutFacts ==
  ASSUME NEW c, GoodChain(c), NEW D
  PROVE  GoodChain(Without(c, D)) /\ Entries(Without(c, D)) = Entries(c) \ D
<1> DEFINE n == Len(c)
           d == Without(c, D)
<1>1. c \in Chains /\ n \in Nat /\ n >= 1 /\ Linked(c) /\ Apart(c)
      /\ \A i \in 1 .. n : DOMAIN c[i] = Positions /\ c[i] \in Bucket
  BY ChainFacts DEF GoodChain
<1>2. d = [i \in 1 .. n |-> [p \in Positions |-> IF c[i][p] \in D THEN None ELSE c[i][p]]]
  BY <1>1 DEF Without
<1> HIDE DEF d
<1>3. \A i \in 1 .. n : d[i] = [p \in Positions |-> IF c[i][p] \in D THEN None ELSE c[i][p]]
  BY <1>2
<1>4. \A i \in 1 .. n : d[i] \in Bucket
  <2> TAKE i \in 1 .. n
  <2>1. \A p \in Positions : c[i][p] \in Elems \cup {None}
    BY <1>1, ChainFacts
  <2> QED BY <1>3, <2>1 DEF Bucket, Positions
<1>5. d \in Chains /\ Len(d) = n /\ d # <<>>
  <2>1. d \in [1 .. n -> Bucket]
    BY <1>2, <1>4
  <2>2. d \in Chains /\ Len(d) = n
    BY <1>1, <2>1 DEF Chains
  <2> QED BY <1>1, <2>2, ChainFacts
<1>6. \A i \in 1 .. n : \A p \in Positions : d[i][p] = IF c[i][p] \in D THEN None ELSE c[i][p]
  BY <1>3
<1>7. Linked(d)
  <2> SUFFICES ASSUME NEW k \in 1 .. Len(d) - 1 PROVE d[k][EntriesPerBucket] = None
    BY DEF Linked
  <2>1. k \in 1 .. n /\ k \in 1 .. n - 1
    BY <1>1, <1>5
  <2>2. c[k][EntriesPerBucket] = None
    BY <1>1, <2>1 DEF Linked
  <2> QED BY <1>6, <2>1, <2>2, BucketFacts
<1>8. Apart(d)
  <2> SUFFICES ASSUME NEW j \in 1 .. Len(d), NEW k \in 1 .. Len(d),
                      NEW q \in Positions, NEW r \in Positions,
                      d[j][q] = d[k][r], d[j][q] # None
               PROVE  j = k /\ q = r
    BY DEF Apart
  <2>1. j \in 1 .. n /\ k \in 1 .. n
    BY <1>5
  <2>2. c[j][q] = c[k][r] /\ c[j][q] # None
    BY <1>6, <2>1
  <2> QED BY <1>1, <2>1, <2>2 DEF Apart
<1>9. Entries(d) = Entries(c) \ D
  <2>1. ASSUME NEW j \in 1 .. Len(d), NEW q \in Positions, d[j][q] # None
        PROVE  d[j][q] \in Entries(c) \ D
    <3>1. j \in 1 .. n /\ d[j][q] = c[j][q] /\ c[j][q] \notin D
      BY <1>5, <1>6, <2>1
    <3> QED BY <1>1, <2>1, <3>1, EntriesFacts
  <2>2. ASSUME NEW y \in Entries(c) \ D
        PROVE  y # None /\ \E j \in 1 .. Len(d) : \E q \in Positions : d[j][q] = y
    <3>1. PICK j \in 1 .. n, q \in Positions : c[j][q] = y
      BY <1>1, EntriesFacts
    <3>2. y # None
      BY <1>1, EntriesFacts
    <3> QED BY <1>5, <1>6, <3>1, <3>2
  <2> QED BY <1>5, <2>1, <2>2, EntriesAre
<1> QED BY <1>5, <1>7, <1>8, <1>9 DEF GoodChain, d

\* A recursion that stays in a set.
LEMMA RecursionStays ==
  ASSUME NEW U, NEW F \in [Nat \X U -> U], NEW x \in U, NEW n \in Nat
  PROVE  \E f : Recursion(x, F, n, f) /\ \A k \in 0 .. n : f[k] \in U
<1>1. PICK f : Recursion(x, F, n, f)
  BY RecursionExists
<1>2. f[0] = x /\ \A i \in 1 .. n : f[i] = F[<<i, f[i - 1]>>]
  BY <1>1 DEF Recursion
<1> DEFINE S == {k \in Nat : f[k] \in U}
<1>3. 0 \in S
  BY <1>2
<1>4. ASSUME NEW k \in Nat, k < n, k \in S PROVE k + 1 \in S
  <2>1. k + 1 \in 1 .. n /\ (k + 1) - 1 = k /\ k + 1 \in Nat
    BY <1>4
  <2>2. f[k + 1] = F[<<k + 1, f[k]>>]
    BY <1>2, <2>1
  <2>3. f[k] \in U
    BY <1>4
  <2>4. f[k + 1] \in U
    BY <2>1, <2>2, <2>3
  <2> QED BY <2>1, <2>4
<1>5. \A k \in 0 .. n : k \in S
  <2> HIDE DEF S
  <2>1. \A k \in Nat : k < n /\ k \in S => k + 1 \in S
    BY <1>4
  <2> QED BY <1>3, <2>1, IntervalInduction
<1> QED BY <1>1, <1>5

\* Values that stay in a set, one after the other.
LEMMA StaysIn ==
  ASSUME NEW U, NEW f, NEW n \in Nat, f[0] \in U,
         \A k \in 1 .. n : f[k - 1] \in U => f[k] \in U
  PROVE  \A k \in 0 .. n : f[k] \in U
<1> DEFINE S == {k \in Nat : f[k] \in U}
<1>1. 0 \in S
  OBVIOUS
<1>2. ASSUME NEW k \in Nat, k < n, k \in S PROVE k + 1 \in S
  <2>1. k + 1 \in 1 .. n /\ (k + 1) - 1 = k /\ k + 1 \in Nat
    BY <1>2
  <2>2. f[k] \in U
    BY <1>2
  <2>3. f[k + 1] \in U
    BY <2>1, <2>2
  <2> QED BY <2>1, <2>3
<1> HIDE DEF S
<1>3. \A k \in Nat : k < n /\ k \in S => k + 1 \in S
  BY <1>2
<1>4. \A k \in 0 .. n : k \in S
  BY <1>1, <1>3, IntervalInduction
<1> QED BY <1>4 DEF S

\* What FillHoles() does at position p.
FillOne(d, i, p) == IF i < Len(d) /\ d[i][p] = None THEN FillBucketHole(d, i, p) ELSE d
Filling(c, i, f) == f = [p \in 0 .. EntriesPerBucket - 1 |-> IF p = 0 THEN c ELSE FillOne(f[p - 1], i, p)]

\* The chains with the entries X and a bucket i.
Holding(X, i) == {d \in Chains : GoodChain(d) /\ Entries(d) = X /\ i <= Len(d)}

\* Filling one hole stays among them.
LEMMA FillOneStays ==
  ASSUME NEW X, NEW i \in Nat \ {0}, NEW d \in Holding(X, i), NEW p \in 1 .. EntriesPerBucket - 1
  PROVE  FillOne(d, i, p) \in Holding(X, i)
<1>1. d \in Chains /\ GoodChain(d) /\ Entries(d) = X /\ i <= Len(d)
  BY DEF Holding
<1>2. p \in Positions /\ p # EntriesPerBucket
  BY BucketFacts DEF Positions
<1>3. CASE i < Len(d) /\ d[i][p] = None
  <2>1. i \in 1 .. Len(d)
    BY <1>1, ChainFacts
  <2>2. /\ GoodChain(FillBucketHole(d, i, p)) /\ Entries(FillBucketHole(d, i, p)) = Entries(d)
        /\ i <= Len(FillBucketHole(d, i, p))
    BY <1>1, <1>2, <1>3, <2>1, FillBucketHoleFacts
  <2>3. FillOne(d, i, p) = FillBucketHole(d, i, p)
    BY <1>3 DEF FillOne
  <2> QED BY <1>1, <2>2, <2>3 DEF Holding, GoodChain
<1>4. CASE ~ (i < Len(d) /\ d[i][p] = None)
  BY <1>4 DEF FillOne
<1> QED BY <1>3, <1>4

\* Filling the holes of a bucket keeps the entries.
LEMMA FillHolesFacts ==
  ASSUME NEW c, GoodChain(c), NEW i \in Nat \ {0}, i <= Len(c)
  PROVE  /\ GoodChain(FillHoles(c, i)) /\ Entries(FillHoles(c, i)) = Entries(c)
         /\ i <= Len(FillHoles(c, i))
<1> DEFINE U == Holding(Entries(c), i)
           n == EntriesPerBucket - 1
           F == [r \in Nat \X U |-> IF r[1] \in 1 .. n THEN FillOne(r[2], i, r[1]) ELSE r[2]]
           f == CHOOSE f : Filling(c, i, f)
<1>1. n \in Nat
  BY BucketFacts
<1>2. c \in U
  BY DEF Holding, GoodChain
<1>3. \A d \in U : \A p \in 1 .. n : FillOne(d, i, p) \in U
  BY FillOneStays
<1> HIDE DEF U
<1>4. F \in [Nat \X U -> U]
  BY <1>3
<1>5. \A d \in U : \A p \in 1 .. n : F[<<p, d>>] = FillOne(d, i, p)
  BY <1>1
<1> HIDE DEF F
<1>6. PICK g : Recursion(c, F, n, g) /\ \A k \in 0 .. n : g[k] \in U
  <2> HIDE DEF n
  <2> QED BY <1>1, <1>2, <1>4, RecursionStays
<1>7. Filling(c, i, g)
  <2>1. \A p \in 1 .. n : F[<<p, g[p - 1]>>] = FillOne(g[p - 1], i, p)
    <3> TAKE p \in 1 .. n
    <3>1. p - 1 \in 0 .. n
      BY <1>1
    <3> QED BY <1>5, <1>6, <3>1
  <2>2. g = [p \in 0 .. n |-> IF p = 0 THEN c ELSE F[<<p, g[p - 1]>>]]
    BY <1>6 DEF Recursion
  <2>3. \A p \in 0 .. n : p # 0 => p \in 1 .. n
    BY <1>1
  <2>4. [p \in 0 .. n |-> IF p = 0 THEN c ELSE F[<<p, g[p - 1]>>]]
          = [p \in 0 .. n |-> IF p = 0 THEN c ELSE FillOne(g[p - 1], i, p)]
    BY <2>1, <2>3
  <2> QED BY <2>2, <2>4 DEF Filling
<1>8. Filling(c, i, f)
  BY <1>7
<1>9. FillHoles(c, i) = f[n]
  BY DEF FillHoles, Filling, FillOne
<1> HIDE DEF f
<1>10. f[0] = c /\ \A p \in 1 .. n : f[p] = FillOne(f[p - 1], i, p)
  BY <1>1, <1>8 DEF Filling
<1>11. \A k \in 0 .. n : f[k] \in U
  <2>1. f[0] \in U /\ \A k \in 1 .. n : f[k - 1] \in U => f[k] \in U
    BY <1>2, <1>3, <1>10
  <2> HIDE DEF n
  <2> QED BY <1>1, <2>1, StaysIn
<1>12. f[n] \in U
  BY <1>1, <1>11
<1> QED BY <1>9, <1>12 DEF U, Holding

\* The loop of compactBucketChain().
Rounds(w, n, f) == f = [k \in 0 .. n |-> IF k = 0 THEN w ELSE CompactRound(f[k - 1])]
Compacting(X) ==
  {w \in [chain : Chains, at : Nat] :
     GoodChain(w.chain) /\ Entries(w.chain) = X /\ 1 <= w.at /\ w.at <= Len(w.chain)}

\* One round of it keeps the entries, and does nothing to a single bucket.
LEMMA CompactRoundFacts ==
  ASSUME NEW X, NEW w \in Compacting(X)
  PROVE  /\ CompactRound(w) \in Compacting(X)
         /\ Len(w.chain) = 1 => CompactRound(w) = w
<1> DEFINE c == w.chain
           i == w.at
           n == Len(c)
           next == Filled(c[i + 1])
<1>1. c \in Chains /\ GoodChain(c) /\ Entries(c) = X /\ i \in Nat /\ 1 <= i /\ i <= n
      /\ w \in [chain : Chains, at : Nat]
  BY DEF Compacting
<1>2. n \in Nat
  BY <1>1, ChainFacts
<1>3. CASE i = n
  <2>1. CompactRound(w) = w
    BY <1>3 DEF CompactRound
  <2> QED BY <2>1
<1>4. CASE i # n
  <2>0. n # 1 /\ i + 1 \in 1 .. n /\ n >= 2
    <3>1. i \in Nat /\ 1 <= i /\ i <= n /\ n \in Nat /\ i # n
      BY <1>1, <1>2, <1>4
    <3> HIDE DEF n, i
    <3> QED BY <3>1
  <2>1. CASE i + 1 < n /\ next = {}
    <3>1. CompactRound(w) = [w EXCEPT !.chain = RemoveAt(c, i + 1)]
      BY <1>4, <2>1 DEF CompactRound
    <3> DEFINE d == RemoveAt(c, i + 1)
    <3>2. GoodChain(d) /\ Entries(d) = Entries(c) /\ Len(d) = n - 1
      <4>1. \A p \in Positions : c[i + 1][p] = None
        BY <1>1, <2>0, <2>1, FilledFacts
      <4>2. 1 < i + 1
        BY <1>1
      <4> QED BY <1>1, <2>0, <2>1, <4>1, <4>2, DropEmpty
    <3>3. d \in Chains
      BY <3>2 DEF GoodChain
    <3> HIDE DEF d
    <3>4. [w EXCEPT !.chain = d] \in [chain : Chains, at : Nat]
          /\ [w EXCEPT !.chain = d].chain = d /\ [w EXCEPT !.chain = d].at = i
      BY <1>1, <3>3
    <3>5. i <= Len(d)
      BY <1>1, <1>2, <2>1, <3>2
    <3> QED BY <1>1, <2>0, <3>1, <3>2, <3>4, <3>5 DEF Compacting, d
  <2>2. CASE i + 1 = n /\ Cardinality(next) <= 1
    <3>1. CompactRound(w) = [w EXCEPT !.chain = PruneLastBucket(c)]
      BY <1>4, <2>2, <1>2 DEF CompactRound
    <3> DEFINE d == PruneLastBucket(c)
    <3>2. GoodChain(d) /\ Entries(d) = Entries(c) /\ Len(d) = n - 1
      BY <1>1, <2>0, <2>2, PruneFacts
    <3>3. d \in Chains
      BY <3>2 DEF GoodChain
    <3> HIDE DEF d
    <3>4. [w EXCEPT !.chain = d] \in [chain : Chains, at : Nat]
          /\ [w EXCEPT !.chain = d].chain = d /\ [w EXCEPT !.chain = d].at = i
      BY <1>1, <3>3
    <3>5. i <= Len(d)
      BY <1>1, <1>2, <2>2, <3>2
    <3> QED BY <1>1, <2>0, <3>1, <3>2, <3>4, <3>5 DEF Compacting, d
  <2>3. CASE ~ (i + 1 < n /\ next = {}) /\ ~ (i + 1 = n /\ Cardinality(next) <= 1)
    <3> DEFINE d == FillHoles(c, i)
               v == [chain |-> d, at |-> IF i < Len(d) THEN i + 1 ELSE i]
    <3>1. CompactRound(w) = v
      BY <1>4, <2>3 DEF CompactRound
    <3>2. GoodChain(d) /\ Entries(d) = Entries(c) /\ i <= Len(d)
      BY <1>1, FillHolesFacts
    <3>3. d \in Chains /\ Len(d) \in Nat
      BY <3>2, ChainFacts DEF GoodChain
    <3> HIDE DEF d
    <3>4. v \in Compacting(X)
      BY <1>1, <3>2, <3>3 DEF Compacting
    <3> QED BY <2>0, <3>1, <3>4
  <2> QED BY <2>1, <2>2, <2>3
<1> QED BY <1>3, <1>4

\* Compacting a chain keeps its entries, and leaves a single bucket alone.
LEMMA CompactFacts ==
  ASSUME NEW c, GoodChain(c)
  PROVE  /\ GoodChain(CompactBucketChain(c)) /\ Entries(CompactBucketChain(c)) = Entries(c)
         /\ Len(c) = 1 => CompactBucketChain(c) = c
<1> DEFINE w == [chain |-> c, at |-> 1]
           U == {v \in Compacting(Entries(c)) : Len(c) = 1 => v = w}
           n == 2 * Len(c)
           F == [r \in Nat \X U |-> CompactRound(r[2])]
           f == CHOOSE f : Rounds(w, n, f)
<1>1. c \in Chains /\ Len(c) \in Nat /\ Len(c) >= 1
  BY ChainFacts DEF GoodChain
<1>2. n \in Nat
  BY <1>1
<1>3. w \in U
  BY <1>1 DEF Compacting
<1>4. ASSUME NEW v \in U PROVE CompactRound(v) \in U
  <2>1. v \in Compacting(Entries(c)) /\ (Len(c) = 1 => v = w)
    BY <1>4
  <2>2. CompactRound(v) \in Compacting(Entries(c)) /\ (Len(v.chain) = 1 => CompactRound(v) = v)
    BY <2>1, CompactRoundFacts
  <2>3. Len(c) = 1 => CompactRound(v) = w
    <3>1. Len(c) = 1 => Len(v.chain) = 1
      BY <2>1
    <3> HIDE DEF w
    <3> QED BY <2>1, <2>2, <3>1
  <2> HIDE DEF w
  <2> QED BY <2>2, <2>3
<1> HIDE DEF U, w
<1>5. F \in [Nat \X U -> U]
  BY <1>4
<1>6. \A k \in Nat : \A v \in U : F[<<k, v>>] = CompactRound(v)
  OBVIOUS
<1> HIDE DEF F
<1>7. PICK g : Recursion(w, F, n, g) /\ \A k \in 0 .. n : g[k] \in U
  <2> HIDE DEF n
  <2> QED BY <1>2, <1>3, <1>5, RecursionStays
<1>8. Rounds(w, n, g)
  <2>1. \A k \in 1 .. n : F[<<k, g[k - 1]>>] = CompactRound(g[k - 1])
    <3> TAKE k \in 1 .. n
    <3>1. k - 1 \in 0 .. n /\ k \in Nat
      BY <1>2
    <3> QED BY <1>6, <1>7, <3>1
  <2>2. g = [k \in 0 .. n |-> IF k = 0 THEN w ELSE F[<<k, g[k - 1]>>]]
    BY <1>7 DEF Recursion
  <2>3. \A k \in 0 .. n : k # 0 => k \in 1 .. n
    BY <1>2
  <2>4. [k \in 0 .. n |-> IF k = 0 THEN w ELSE F[<<k, g[k - 1]>>]]
          = [k \in 0 .. n |-> IF k = 0 THEN w ELSE CompactRound(g[k - 1])]
    BY <2>1, <2>3
  <2> QED BY <2>2, <2>4 DEF Rounds
<1>9. Rounds(w, n, f)
  BY <1>8
<1>10. CompactBucketChain(c) = f[n].chain
  BY DEF CompactBucketChain, Iterate, Rounds, w
<1> HIDE DEF f
<1>11. f[0] = w /\ \A k \in 1 .. n : f[k] = CompactRound(f[k - 1])
  BY <1>2, <1>9 DEF Rounds
<1>12. \A k \in 0 .. n : f[k] \in U
  <2>1. f[0] \in U /\ \A k \in 1 .. n : f[k - 1] \in U => f[k] \in U
    BY <1>3, <1>4, <1>11
  <2> HIDE DEF n
  <2> QED BY <1>2, <2>1, StaysIn
<1>13. f[n] \in U
  BY <1>2, <1>12
<1>14. f[n] \in Compacting(Entries(c)) /\ (Len(c) = 1 => f[n] = w)
  BY <1>13 DEF U
<1>15. GoodChain(f[n].chain) /\ Entries(f[n].chain) = Entries(c)
  BY <1>14 DEF Compacting
<1>16. w.chain = c
  BY DEF w
<1> QED BY <1>10, <1>14, <1>15, <1>16

\* What a walk of a chain does at slot k.
WalkOne(s, c, k) == IF Slot(c, k) = None THEN s ELSE Append(s, Slot(c, k))
Walking(c, f) ==
  f = [k \in 0 .. Len(c) * EntriesPerBucket |-> IF k = 0 THEN <<>> ELSE WalkOne(f[k - 1], c, k)]

\* s lists the elements of X, each once.
Lists(s, X) ==
  /\ s \in Seq(Elems)
  /\ \A a \in 1 .. Len(s) : s[a] \in X
  /\ \A x \in X : \E a \in 1 .. Len(s) : s[a] = x
  /\ \A a, b \in 1 .. Len(s) : s[a] = s[b] => a = b

\* An element more.
LEMMA ListMore ==
  ASSUME NEW s, NEW X, Lists(s, X), NEW x \in Elems, x \notin X
  PROVE  Lists(Append(s, x), X \cup {x})
<1> DEFINE t == Append(s, x)
           n == Len(s)
<1>1. s \in Seq(Elems) /\ n \in Nat
  BY DEF Lists
<1>2. t \in Seq(Elems) /\ Len(t) = n + 1 /\ t[n + 1] = x /\ \A a \in 1 .. n : t[a] = s[a]
  BY <1>1
<1> HIDE DEF t
<1>3. \A a \in 1 .. Len(t) : a \in 1 .. n \/ a = n + 1
  BY <1>1, <1>2
<1>4. \A a \in 1 .. Len(t) : t[a] \in X \cup {x}
  BY <1>2, <1>3 DEF Lists
<1>5. \A y \in X \cup {x} : \E a \in 1 .. Len(t) : t[a] = y
  <2> TAKE y \in X \cup {x}
  <2>1. CASE y = x
    <3>1. n + 1 \in 1 .. Len(t)
      BY <1>1, <1>2
    <3> QED BY <1>2, <2>1, <3>1
  <2>2. CASE y \in X
    <3>1. PICK a \in 1 .. n : s[a] = y
      BY <2>2 DEF Lists
    <3>2. a \in 1 .. Len(t)
      BY <1>1, <1>2
    <3> QED BY <1>2, <3>1, <3>2
  <2> QED BY <2>1, <2>2
<1>6. \A a, b \in 1 .. Len(t) : t[a] = t[b] => a = b
  <2>1. \A a \in 1 .. n : t[a] \in X /\ t[a] # x
    BY <1>2 DEF Lists
  <2>2. \A a, b \in 1 .. n : t[a] = t[b] => a = b
    BY <1>2 DEF Lists
  <2> QED BY <1>2, <1>3, <2>1, <2>2
<1> QED BY <1>2, <1>4, <1>5, <1>6 DEF Lists, t

\* The entries of a chain up to slot k.
UpTo(c, k) == {Slot(c, j) : j \in 1 .. k} \ {None}

\* One slot more.
LEMMA WalkOneFacts ==
  ASSUME NEW c, GoodChain(c), NEW k \in Slots(c), NEW s, Lists(s, UpTo(c, k - 1))
  PROVE  Lists(WalkOne(s, c, k), UpTo(c, k))
<1> DEFINE x == Slot(c, k)
<1>1. c \in Chains /\ Apart(c) /\ Len(c) * EntriesPerBucket \in Nat
  <2>1. c \in Chains /\ Apart(c) /\ Len(c) \in Nat /\ EntriesPerBucket \in Nat
    BY ChainFacts, BucketFacts DEF GoodChain
  <2> QED BY <2>1
<1>2. k \in Nat /\ k >= 1
  BY <1>1 DEF Slots
<1>3. UpTo(c, k) = (UpTo(c, k - 1) \cup {x}) \ {None}
  <2>1. 1 .. k = (1 .. (k - 1)) \cup {k}
    BY <1>2
  <2> QED BY <2>1 DEF UpTo
<1>4. None \notin UpTo(c, k - 1)
  BY DEF UpTo
<1>5. CASE x = None
  <2>1. UpTo(c, k) = UpTo(c, k - 1)
    BY <1>3, <1>4, <1>5
  <2>2. WalkOne(s, c, k) = s
    BY <1>5 DEF WalkOne
  <2> QED BY <2>1, <2>2
<1>6. CASE x # None
  <2>1. PICK i \in 1 .. Len(c), p \in Positions : k = SlotOf(i, p) /\ x = c[i][p]
    BY <1>1, SlotIsCell
  <2>2. x \in Elems
    <3>1. x \in Elems \cup {None}
      BY <1>1, <2>1, ChainFacts
    <3> QED BY <1>6, <3>1
  <2>3. x \notin UpTo(c, k - 1)
    <3> SUFFICES ASSUME NEW j \in 1 .. (k - 1), Slot(c, j) = x PROVE FALSE
      BY DEF UpTo
    <3>1. j \in Slots(c) /\ j # k
      BY <1>1, <1>2 DEF Slots
    <3>2. PICK l \in 1 .. Len(c), q \in Positions : j = SlotOf(l, q) /\ Slot(c, j) = c[l][q]
      BY <1>1, <3>1, SlotIsCell
    <3>3. c[i][p] = c[l][q] /\ c[i][p] # None
      BY <1>6, <2>1, <3>2
    <3>4. i = l /\ p = q
      BY <1>1, <3>3 DEF Apart
    <3> QED BY <2>1, <3>1, <3>2, <3>4
  <2>4. UpTo(c, k) = UpTo(c, k - 1) \cup {x}
    BY <1>3, <1>4, <1>6
  <2>5. WalkOne(s, c, k) = Append(s, x)
    BY <1>6 DEF WalkOne
  <2> HIDE DEF x
  <2> QED BY <2>2, <2>3, <2>4, <2>5, ListMore
<1> QED BY <1>5, <1>6

\* A walk of a chain meets every entry once.
LEMMA InOrderFacts ==
  ASSUME NEW c, GoodChain(c)
  PROVE  Lists(InOrder(c), Entries(c))
<1> DEFINE n == Len(c) * EntriesPerBucket
           U == Seq(Elems)
           F == [r \in Nat \X U |-> IF r[1] \in 1 .. n THEN WalkOne(r[2], c, r[1]) ELSE r[2]]
           f == CHOOSE f : Walking(c, f)
<1>1. c \in Chains /\ n \in Nat
  <2>1. c \in Chains /\ Len(c) \in Nat /\ EntriesPerBucket \in Nat
    BY ChainFacts, BucketFacts DEF GoodChain
  <2> QED BY <2>1
<1>2. ASSUME NEW s \in U, NEW k \in 1 .. n PROVE WalkOne(s, c, k) \in U
  <2>1. k \in Slots(c)
    BY DEF Slots
  <2>2. PICK i \in 1 .. Len(c), p \in Positions : Slot(c, k) = c[i][p]
    BY <1>1, <2>1, SlotIsCell
  <2>3. Slot(c, k) \in Elems \cup {None}
    BY <1>1, <2>2, ChainFacts
  <2> QED BY <2>3 DEF WalkOne
<1>3. <<>> \in U
  OBVIOUS
<1> HIDE DEF U
<1>4. F \in [Nat \X U -> U]
  BY <1>2
<1>5. \A s \in U : \A k \in 1 .. n : F[<<k, s>>] = WalkOne(s, c, k)
  BY <1>1
<1> HIDE DEF F
<1>6. PICK g : Recursion(<<>>, F, n, g) /\ \A k \in 0 .. n : g[k] \in U
  <2> HIDE DEF n
  <2> QED BY <1>1, <1>3, <1>4, RecursionStays
<1>7. Walking(c, g)
  <2>1. \A k \in 1 .. n : F[<<k, g[k - 1]>>] = WalkOne(g[k - 1], c, k)
    <3> TAKE k \in 1 .. n
    <3>1. k - 1 \in 0 .. n
      BY <1>1
    <3> QED BY <1>5, <1>6, <3>1
  <2>2. g = [k \in 0 .. n |-> IF k = 0 THEN <<>> ELSE F[<<k, g[k - 1]>>]]
    BY <1>6 DEF Recursion
  <2>3. \A k \in 0 .. n : k # 0 => k \in 1 .. n
    BY <1>1
  <2>4. [k \in 0 .. n |-> IF k = 0 THEN <<>> ELSE F[<<k, g[k - 1]>>]]
          = [k \in 0 .. n |-> IF k = 0 THEN <<>> ELSE WalkOne(g[k - 1], c, k)]
    BY <2>1, <2>3
  <2> QED BY <2>2, <2>4 DEF Walking
<1>8. Walking(c, f)
  BY <1>7
<1>9. InOrder(c) = f[n]
  BY DEF InOrder, Walking, WalkOne
<1> HIDE DEF f
<1>10. f[0] = <<>> /\ \A k \in 1 .. n : f[k] = WalkOne(f[k - 1], c, k)
  BY <1>1, <1>8 DEF Walking
<1> DEFINE S == {k \in Nat : Lists(f[k], UpTo(c, k))}
<1>11. 0 \in S
  <2>1. UpTo(c, 0) = {}
    BY DEF UpTo
  <2>2. Lists(<<>>, {})
    BY DEF Lists
  <2> QED BY <1>10, <2>1, <2>2
<1>12. ASSUME NEW k \in Nat, k < n, k \in S PROVE k + 1 \in S
  <2>1. k + 1 \in 1 .. n /\ (k + 1) - 1 = k /\ k + 1 \in Nat
    BY <1>1, <1>12
  <2>2. k + 1 \in Slots(c)
    BY <2>1 DEF Slots
  <2>3. Lists(f[k], UpTo(c, k))
    BY <1>12
  <2>4. Lists(WalkOne(f[k], c, k + 1), UpTo(c, k + 1))
    BY <2>1, <2>2, <2>3, WalkOneFacts
  <2>5. f[k + 1] = WalkOne(f[k], c, k + 1)
    BY <1>10, <2>1
  <2> QED BY <2>1, <2>4, <2>5
<1> HIDE DEF S
<1>13. n \in S
  <2>1. \A k \in Nat : k < n /\ k \in S => k + 1 \in S
    BY <1>12
  <2>2. \A k \in 0 .. n : k \in S
    <3> HIDE DEF n
    <3> QED BY <1>1, <1>11, <2>1, IntervalInduction
  <2>3. n \in 0 .. n
    BY <1>1
  <2> QED BY <2>2, <2>3
<1>14. UpTo(c, n) = Entries(c)
  <2>1. ASSUME NEW x \in UpTo(c, n) PROVE x \in Entries(c)
    <3>1. PICK k \in 1 .. n : x = Slot(c, k)
      BY <2>1 DEF UpTo
    <3>2. x # None /\ k \in Slots(c)
      BY DEF UpTo, Slots
    <3>3. PICK i \in 1 .. Len(c), p \in Positions : Slot(c, k) = c[i][p]
      BY <1>1, <3>2, SlotIsCell
    <3> QED BY <1>1, <3>1, <3>2, <3>3, EntriesFacts
  <2>2. ASSUME NEW x \in Entries(c) PROVE x \in UpTo(c, n)
    <3>1. PICK i \in 1 .. Len(c), p \in Positions : c[i][p] = x
      BY <1>1, EntriesFacts
    <3>2. x # None
      BY <1>1, EntriesFacts
    <3>3. SlotOf(i, p) \in Slots(c) /\ Slot(c, SlotOf(i, p)) = c[i][p]
      BY <1>1, CellIsSlot
    <3>4. SlotOf(i, p) \in 1 .. n
      BY <3>3 DEF Slots
    <3> QED BY <3>1, <3>2, <3>3, <3>4 DEF UpTo
  <2> QED BY <2>1, <2>2
<1> QED BY <1>9, <1>13, <1>14 DEF S

-----------------------------------------------------------------------------
(* Tables.                                                                 *)

Exps == -1 .. MaxExp
Indices(e) == 0 .. NumBuckets(e) - 1

\* A table of 2^e chains, each with entries that hash to its index.
GoodTable(T, e) ==
  /\ T \in [Indices(e) -> Chains]
  /\ \A i \in Indices(e) : GoodChain(T[i])
  /\ \A i \in Indices(e) : \A x \in Entries(T[i]) : Hash[x] % NumBuckets(e) = i

Stored(T) == UNION {Entries(T[i]) : i \in DOMAIN T}

\* The number of buckets.
LEMMA NumBucketsFacts ==
  ASSUME NEW e \in Exps
  PROVE  /\ NumBuckets(e) \in Nat
         /\ e = -1 => NumBuckets(e) = 0
         /\ e # -1 => /\ e \in Nat /\ e <= CursorBits /\ CursorBits \in Nat
                      /\ NumBuckets(e) = Pow2[e] /\ NumBuckets(e) \in Nat \ {0}
                      /\ NumBuckets(e) >= 1 /\ 0 \in Indices(e)
<1>1. MaxExp \in Nat /\ CursorBits \in Nat /\ MaxExp < CursorBits
  BY HashAssumption
<1>2. CASE e = -1
  BY <1>2 DEF NumBuckets
<1>3. CASE e # -1
  <2>1. e \in Nat /\ e <= CursorBits
    BY <1>1, <1>3 DEF Exps
  <2>2. Pow2[e] \in Nat \ {0}
    BY <2>1, Pow2Facts
  <2>3. NumBuckets(e) = Pow2[e]
    BY <1>3 DEF NumBuckets
  <2>4. NumBuckets(e) >= 1 /\ 0 \in Indices(e)
    BY <2>2, <2>3 DEF Indices
  <2> QED BY <1>1, <1>3, <2>1, <2>2, <2>3, <2>4
<1> QED BY <1>2, <1>3

\* The bucket of a hash.
LEMMA HashFacts ==
  ASSUME NEW e \in Exps, e # -1, NEW x \in Elems
  PROVE  Hash[x] \in Cursors /\ Hash[x] \in Nat /\ Hash[x] % NumBuckets(e) \in Indices(e)
<1>1. NumBuckets(e) \in Nat \ {0}
  BY NumBucketsFacts
<1>2. Hash[x] \in Cursors
  BY HashAssumption DEF Cursors, Words
<1>3. CursorBits \in Nat
  BY HashAssumption
<1>4. Pow2[CursorBits] \in Nat \ {0}
  BY <1>3, Pow2Facts
<1>5. Hash[x] \in Nat
  BY <1>2, <1>4 DEF Cursors, Words
<1>6. Hash[x] % NumBuckets(e) \in 0 .. NumBuckets(e) - 1
  <2> DEFINE N == NumBuckets(e)
             h == Hash[x]
  <2> HIDE DEF N, h
  <2>1. h % N \in Nat /\ h % N < N
    BY <1>1, <1>5, DivMod DEF N, h
  <2>2. N \in Nat
    BY <1>1 DEF N
  <2>3. h % N \in 0 .. N - 1
    BY <2>1, <2>2
  <2> QED BY <2>3 DEF N, h
<1> QED BY <1>2, <1>5, <1>6 DEF Indices

\* The entries of a table, and where they are.
LEMMA TableFacts ==
  ASSUME NEW e \in Exps, NEW T, GoodTable(T, e)
  PROVE  /\ DOMAIN T = Indices(e)
         /\ \A i \in Indices(e) : Entries(T[i]) \subseteq Stored(T)
         /\ \A x \in Stored(T) : /\ x \in Elems /\ e # -1
                                 /\ Hash[x] % NumBuckets(e) \in Indices(e)
                                 /\ x \in Entries(T[Hash[x] % NumBuckets(e)])
         /\ IsFiniteSet(Stored(T)) /\ Cardinality(Stored(T)) \in Nat
         /\ Cardinality(Stored(T)) <= Cardinality(Elems)
         /\ Cardinality(Stored(T)) = 0 <=> Stored(T) = {}
<1>1. DOMAIN T = Indices(e)
  BY DEF GoodTable
<1>2. \A i \in Indices(e) : Entries(T[i]) \subseteq Stored(T)
  BY <1>1 DEF Stored
<1>3. ASSUME NEW x \in Stored(T)
      PROVE  /\ x \in Elems /\ e # -1
             /\ Hash[x] % NumBuckets(e) \in Indices(e)
             /\ x \in Entries(T[Hash[x] % NumBuckets(e)])
  <2>1. PICK i \in Indices(e) : x \in Entries(T[i])
    BY <1>1, <1>3 DEF Stored
  <2>2. Hash[x] % NumBuckets(e) = i
    BY <2>1 DEF GoodTable
  <2>3. T[i] \in Chains
    BY DEF GoodTable
  <2>4. x \in Elems
    BY <2>1, <2>3, EntriesFacts
  <2>5. e # -1
    BY NumBucketsFacts DEF Indices
  <2> QED BY <2>1, <2>2, <2>4, <2>5
<1>4. Stored(T) \subseteq Elems /\ IsFiniteSet(Elems)
  BY <1>3, HashAssumption
<1>5. /\ IsFiniteSet(Stored(T)) /\ Cardinality(Stored(T)) \in Nat
      /\ Cardinality(Stored(T)) <= Cardinality(Elems)
  BY <1>4, FS_Subset, FS_CardinalityType
<1>6. Cardinality(Stored(T)) = 0 <=> Stored(T) = {}
  BY <1>5, FS_EmptySet
<1> QED BY <1>1, <1>2, <1>3, <1>5, <1>6

\* The empty chain.
LEMMA EmptyChainFacts ==
  GoodChain(EmptyChain) /\ EmptyChain \in Chains /\ Entries(EmptyChain) = {} /\ Len(EmptyChain) = 1
<1> DEFINE c == EmptyChain
<1>1. c \in Chains /\ Len(c) = 1 /\ c[1] = EmptyBucket /\ c # <<>>
  BY BucketFacts DEF EmptyChain, Chains
<1>2. \A p \in Positions : c[1][p] = None
  BY <1>1, BucketFacts
<1> HIDE DEF c
<1>3. Linked(c)
  BY <1>1 DEF Linked
<1>4. \A i \in 1 .. Len(c) : i = 1
  BY <1>1
<1>5. Apart(c)
  <2> SUFFICES ASSUME NEW j \in 1 .. Len(c), NEW k \in 1 .. Len(c),
                      NEW q \in Positions, NEW r \in Positions,
                      c[j][q] = c[k][r], c[j][q] # None
               PROVE  j = k /\ q = r
    BY DEF Apart
  <2> QED BY <1>2, <1>4
<1>6. Entries(c) = {}
  <2> SUFFICES ASSUME NEW x \in Entries(c) PROVE FALSE
    OBVIOUS
  <2>1. PICK i \in 1 .. Len(c), p \in Positions : c[i][p] = x
    BY <1>1, EntriesFacts
  <2>2. x # None
    BY <1>1, EntriesFacts
  <2> QED BY <1>2, <1>4, <2>1, <2>2
<1> QED BY <1>1, <1>3, <1>5, <1>6 DEF c, GoodChain

\* A table without entries.
LEMMA EmptyTableFacts ==
  ASSUME NEW e \in Exps
  PROVE  /\ GoodTable(EmptyTable(e), e) /\ Stored(EmptyTable(e)) = {}
         /\ \A i \in Indices(e) : EmptyTable(e)[i] = EmptyChain
<1>1. EmptyTable(e) = [i \in Indices(e) |-> EmptyChain]
  BY DEF EmptyTable, Indices
<1> DEFINE T == EmptyTable(e)
<1>2. DOMAIN T = Indices(e) /\ \A i \in Indices(e) : T[i] = EmptyChain
  BY <1>1
<1>3. T \in [Indices(e) -> Chains]
  BY <1>1, EmptyChainFacts
<1> HIDE DEF T
<1>4. \A i \in Indices(e) : GoodChain(T[i]) /\ Entries(T[i]) = {}
  BY <1>2, EmptyChainFacts
<1>5. GoodTable(T, e) /\ Stored(T) = {}
  BY <1>2, <1>3, <1>4 DEF GoodTable, Stored
<1> QED BY <1>2, <1>5 DEF T

\* Another chain in the place of one.
With(T, i, d) == [T EXCEPT ![i] = d]

\* What that does to a table.
LEMMA ReplaceChain ==
  ASSUME NEW e \in Exps, NEW T, GoodTable(T, e), NEW i \in Indices(e),
         NEW d, GoodChain(d), \A x \in Entries(d) : Hash[x] % NumBuckets(e) = i
  PROVE  /\ GoodTable(With(T, i, d), e)
         /\ Stored(With(T, i, d)) = (Stored(T) \ Entries(T[i])) \cup Entries(d)
         /\ With(T, i, d)[i] = d
         /\ \A j \in Indices(e) : j # i => With(T, i, d)[j] = T[j]
<1> DEFINE R == With(T, i, d)
<1>1. T \in [Indices(e) -> Chains] /\ d \in Chains
  BY DEF GoodTable, GoodChain
<1>2. /\ R \in [Indices(e) -> Chains] /\ R[i] = d
      /\ \A j \in Indices(e) : j # i => R[j] = T[j]
  BY <1>1 DEF With
<1> HIDE DEF R
<1>3. GoodTable(R, e)
  <2>1. \A j \in Indices(e) : GoodChain(R[j]) /\ \A x \in Entries(R[j]) : Hash[x] % NumBuckets(e) = j
    BY <1>2 DEF GoodTable
  <2> QED BY <1>2, <2>1 DEF GoodTable
<1>4. Stored(R) = (Stored(T) \ Entries(T[i])) \cup Entries(d)
  <2>0. DOMAIN R = Indices(e) /\ DOMAIN T = Indices(e)
    BY <1>1, <1>2
  <2>1. ASSUME NEW x \in Stored(R) PROVE x \in (Stored(T) \ Entries(T[i])) \cup Entries(d)
    <3>1. PICK j \in Indices(e) : x \in Entries(R[j])
      BY <2>0, <2>1 DEF Stored
    <3>2. CASE j = i
      BY <1>2, <3>1, <3>2
    <3>3. CASE j # i
      <4>1. x \in Entries(T[j])
        BY <1>2, <3>1, <3>3
      <4>2. x \notin Entries(T[i])
        BY <3>3, <4>1 DEF GoodTable
      <4>3. x \in Stored(T)
        BY <2>0, <4>1 DEF Stored
      <4> QED BY <4>2, <4>3
    <3> QED BY <3>2, <3>3
  <2>2. ASSUME NEW x \in (Stored(T) \ Entries(T[i])) \cup Entries(d) PROVE x \in Stored(R)
    <3>1. CASE x \in Entries(d)
      BY <1>2, <2>0, <3>1 DEF Stored
    <3>2. CASE x \in Stored(T) \ Entries(T[i])
      <4>1. PICK j \in Indices(e) : x \in Entries(T[j])
        BY <2>0, <3>2 DEF Stored
      <4>2. j # i
        BY <3>2, <4>1
      <4>3. x \in Entries(R[j])
        BY <1>2, <4>1, <4>2
      <4> QED BY <2>0, <4>3 DEF Stored
    <3> QED BY <2>2, <3>1, <3>2
  <2> QED BY <2>1, <2>2
<1> QED BY <1>2, <1>3, <1>4 DEF R

\* An entry put into its bucket.
LEMMA PutTable ==
  ASSUME NEW e \in Exps, e # -1, NEW T, GoodTable(T, e), NEW x \in Elems, x \notin Stored(T),
         NEW i, i = Hash[x] % NumBuckets(e)
  PROVE  /\ i \in Indices(e)
         /\ GoodTable(With(T, i, Put(T[i], x)), e)
         /\ Stored(With(T, i, Put(T[i], x))) = Stored(T) \cup {x}
<1>1. i \in Indices(e)
  BY HashFacts
<1>2. GoodChain(T[i]) /\ x \notin Entries(T[i]) /\ Entries(T[i]) \subseteq Stored(T)
  BY <1>1, TableFacts DEF GoodTable
<1> DEFINE d == Put(T[i], x)
<1>3. GoodChain(d) /\ Entries(d) = Entries(T[i]) \cup {x}
  BY <1>2, PutFacts
<1>4. \A y \in Entries(d) : Hash[y] % NumBuckets(e) = i
  BY <1>1, <1>3 DEF GoodTable
<1> HIDE DEF d
<1>5. /\ GoodTable(With(T, i, d), e)
      /\ Stored(With(T, i, d)) = (Stored(T) \ Entries(T[i])) \cup Entries(d)
  BY <1>1, <1>3, <1>4, ReplaceChain
<1>6. Stored(With(T, i, d)) = Stored(T) \cup {x}
  BY <1>2, <1>3, <1>5
<1> QED BY <1>1, <1>5, <1>6 DEF d

-----------------------------------------------------------------------------
(* The two tables.                                                         *)

\* One value for each table.
Pair(a, b) == [t \in Tables |-> IF t = 0 THEN a ELSE b]

\* The state of a hash table, made of its parts.
Mk(e0, e1, T0, T1, r, p) ==
  [exp |-> Pair(e0, e1), tab |-> Pair(T0, T1), rehash |-> r, pause |-> p]

\* The two values make the pair.
LEMMA PairIs ==
  ASSUME NEW f, f = [t \in Tables |-> f[t]]
  PROVE  f = Pair(f[0], f[1])
<1>1. \A t \in Tables : f[t] = IF t = 0 THEN f[0] ELSE f[1]
  BY DEF Tables
<1>2. [t \in Tables |-> f[t]] = [t \in Tables |-> IF t = 0 THEN f[0] ELSE f[1]]
  BY <1>1
<1> QED BY <1>2 DEF Pair

\* The values of a pair.
LEMMA PairFacts ==
  ASSUME NEW a, NEW b, NEW c
  PROVE  /\ DOMAIN Pair(a, b) = Tables /\ Pair(a, b)[0] = a /\ Pair(a, b)[1] = b
         /\ [Pair(a, b) EXCEPT ![0] = c] = Pair(c, b)
         /\ [Pair(a, b) EXCEPT ![1] = c] = Pair(a, c)
         /\ [t \in Tables |-> Pair(a, b)[1 - t]] = Pair(b, a)
<1>1. DOMAIN Pair(a, b) = Tables /\ Pair(a, b)[0] = a /\ Pair(a, b)[1] = b
  BY DEF Pair, Tables
<1>2. [Pair(a, b) EXCEPT ![0] = c] = Pair(c, b)
  BY DEF Pair, Tables
<1>3. [Pair(a, b) EXCEPT ![1] = c] = Pair(a, c)
  <2> DEFINE f == [Pair(a, b) EXCEPT ![1] = c]
  <2>0. f = [t \in Tables |-> IF t = 1 THEN c ELSE Pair(a, b)[t]]
    BY <1>1
  <2>1. f = [t \in Tables |-> f[t]] /\ f[0] = a /\ f[1] = c
    <3> HIDE DEF f
    <3> QED BY <1>1, <2>0 DEF Tables
  <2> HIDE DEF f
  <2>2. f = Pair(f[0], f[1])
    BY <2>1, PairIs
  <2>3. f = Pair(a, c)
    BY <2>1, <2>2
  <2> QED BY <2>3 DEF f
<1>4. [t \in Tables |-> Pair(a, b)[1 - t]] = Pair(b, a)
  BY DEF Pair, Tables
<1> QED BY <1>1, <1>2, <1>3, <1>4

\* The parts of a hash table.
LEMMA MkFields ==
  ASSUME NEW e0, NEW e1, NEW T0, NEW T1, NEW r, NEW p, NEW h, h = Mk(e0, e1, T0, T1, r, p)
  PROVE  /\ h.exp[0] = e0 /\ h.exp[1] = e1 /\ h.tab[0] = T0 /\ h.tab[1] = T1
         /\ h.rehash = r /\ h.pause = p
         /\ h.exp = Pair(e0, e1) /\ h.tab = Pair(T0, T1)
<1>1. h.exp = Pair(e0, e1) /\ h.tab = Pair(T0, T1) /\ h.rehash = r /\ h.pause = p
  BY DEF Mk
<1> QED BY <1>1, PairFacts

\* swapTables().
LEMMA MkSwap ==
  ASSUME NEW e0, NEW e1, NEW T0, NEW T1, NEW r, NEW p
  PROVE  SwapTables(Mk(e0, e1, T0, T1, r, p)) = Mk(e1, e0, T1, T0, r, p)
<1> DEFINE h == Mk(e0, e1, T0, T1, r, p)
<1>1. h.exp = Pair(e0, e1) /\ h.tab = Pair(T0, T1)
  BY MkFields
<1>2. [t \in Tables |-> h.exp[1 - t]] = Pair(e1, e0)
  BY <1>1, PairFacts
<1>3. [t \in Tables |-> h.tab[1 - t]] = Pair(T1, T0)
  BY <1>1, PairFacts
<1>4. SwapTables(h) = [h EXCEPT !.exp = Pair(e1, e0), !.tab = Pair(T1, T0)]
  BY <1>2, <1>3 DEF SwapTables
<1> QED BY <1>4 DEF Mk

\* Assignments to the fields of a hash table.
SetPause(h, x) == [h EXCEPT !.pause = x]
SetRehash(h, x) == [h EXCEPT !.rehash = x]
SetTab0(h, x) == [h EXCEPT !.tab[0] = x]
SetTab1(h, x) == [h EXCEPT !.tab[1] = x]
SetExp1(h, x) == [h EXCEPT !.exp[1] = x]

\* What they make of its parts.
LEMMA MkSet ==
  ASSUME NEW e0, NEW e1, NEW T0, NEW T1, NEW r, NEW p, NEW x
  PROVE  /\ SetPause(Mk(e0, e1, T0, T1, r, p), x) = Mk(e0, e1, T0, T1, r, x)
         /\ SetRehash(Mk(e0, e1, T0, T1, r, p), x) = Mk(e0, e1, T0, T1, x, p)
         /\ SetTab0(Mk(e0, e1, T0, T1, r, p), x) = Mk(e0, e1, x, T1, r, p)
         /\ SetTab1(Mk(e0, e1, T0, T1, r, p), x) = Mk(e0, e1, T0, x, r, p)
         /\ SetExp1(Mk(e0, e1, T0, T1, r, p), x) = Mk(e0, x, T0, T1, r, p)
<1>1. SetPause(Mk(e0, e1, T0, T1, r, p), x) = Mk(e0, e1, T0, T1, r, x)
  BY DEF Mk, SetPause
<1>2. SetRehash(Mk(e0, e1, T0, T1, r, p), x) = Mk(e0, e1, T0, T1, x, p)
  BY DEF Mk, SetRehash
<1>3. SetTab0(Mk(e0, e1, T0, T1, r, p), x) = Mk(e0, e1, x, T1, r, p)
  BY PairFacts DEF Mk, SetTab0
<1>4. SetTab1(Mk(e0, e1, T0, T1, r, p), x) = Mk(e0, e1, T0, x, r, p)
  BY PairFacts DEF Mk, SetTab1
<1>5. SetExp1(Mk(e0, e1, T0, T1, r, p), x) = Mk(e0, x, T0, T1, r, p)
  <2> DEFINE h == Mk(e0, e1, T0, T1, r, p)
             f == [Pair(e0, e1) EXCEPT ![1] = x]
  <2>1. h.exp = Pair(e0, e1)
    BY MkFields
  <2>2. SetExp1(h, x) = [h EXCEPT !.exp = f]
    <3> HIDE DEF h
    <3> QED BY <2>1 DEF SetExp1
  <2>3. f = Pair(e0, x)
    BY PairFacts
  <2> HIDE DEF f
  <2>4. [h EXCEPT !.exp = f] = [exp |-> f, tab |-> Pair(T0, T1), rehash |-> r, pause |-> p]
    BY DEF Mk
  <2> QED BY <2>2, <2>3, <2>4 DEF Mk
<1> QED BY <1>1, <1>2, <1>3, <1>4, <1>5

\* What two tables, their exponents and rehash_idx are at any time.
Sound(e0, e1, T0, T1, r) ==
  /\ e0 \in Exps /\ e1 \in Exps
  /\ GoodTable(T0, e0) /\ GoodTable(T1, e1)
  /\ r \in -1 .. NumBuckets(e0) - 1
  /\ e1 = -1 <=> r = -1
  /\ Stored(T0) \cap Stored(T1) = {}
  /\ \A i \in 0 .. r - 1 : T0[i] = EmptyChain

Good(h) ==
  /\ h = Mk(h.exp[0], h.exp[1], h.tab[0], h.tab[1], h.rehash, h.pause)
  /\ h.pause \in Nat
  /\ Sound(h.exp[0], h.exp[1], h.tab[0], h.tab[1], h.rehash)

\* g is sound and has the entries X.
Has(g, X, p) == Good(g) /\ Contents(g) = X /\ g.pause = p

\* Table 0 exists as well.
Room(g, X, p) == Has(g, X, p) /\ g.exp[0] # -1

\* The parts of a hash table, and what they hold.
LEMMA MkFacts ==
  ASSUME NEW e0, NEW e1, NEW T0, NEW T1, NEW r, NEW p, NEW h, h = Mk(e0, e1, T0, T1, r, p)
  PROVE  /\ Held(h, 0) = Stored(T0) /\ Held(h, 1) = Stored(T1)
         /\ Used(h, 0) = Cardinality(Stored(T0)) /\ Used(h, 1) = Cardinality(Stored(T1))
         /\ Contents(h) = Stored(T0) \cup Stored(T1)
         /\ HasChildren(h, 0) <=> \E i \in DOMAIN T0 : Len(T0[i]) > 1
         /\ IsRehashing(h) <=> r # -1
         /\ Shrinking(h) <=> r # -1 /\ e1 < e0
<1>1. h.exp[0] = e0 /\ h.exp[1] = e1 /\ h.tab[0] = T0 /\ h.tab[1] = T1 /\ h.rehash = r
  BY MkFields
<1>2. Held(h, 0) = Stored(T0) /\ Held(h, 1) = Stored(T1)
  BY <1>1 DEF Held, Stored
<1> QED BY <1>1, <1>2 DEF Used, Contents, HasChildren, IsRehashing, Shrinking

\* Sound parts make a sound hash table.
LEMMA MkGood ==
  ASSUME NEW e0, NEW e1, NEW T0, NEW T1, NEW r, Sound(e0, e1, T0, T1, r), NEW p \in Nat
  PROVE  Has(Mk(e0, e1, T0, T1, r, p), Stored(T0) \cup Stored(T1), p)
<1> DEFINE h == Mk(e0, e1, T0, T1, r, p)
<1>1. /\ h.exp[0] = e0 /\ h.exp[1] = e1 /\ h.tab[0] = T0 /\ h.tab[1] = T1
      /\ h.rehash = r /\ h.pause = p
  BY MkFields
<1>2. Contents(h) = Stored(T0) \cup Stored(T1)
  BY MkFacts
<1>3. h = Mk(h.exp[0], h.exp[1], h.tab[0], h.tab[1], h.rehash, h.pause)
  BY <1>1
<1> HIDE DEF h
<1>4. Good(h)
  BY <1>1, <1>3 DEF Good
<1> QED BY <1>1, <1>2, <1>4 DEF Has, h

\* The assignments that begin and end a rehashing.
SetTarget(h, e, T, r) == [h EXCEPT !.exp[1] = e, !.tab[1] = T, !.rehash = r]

\* What they make of its parts.
LEMMA MkTarget ==
  ASSUME NEW e0, NEW e1, NEW T0, NEW T1, NEW r, NEW p, NEW x, NEW y, NEW z
  PROVE  SetTarget(Mk(e0, e1, T0, T1, r, p), x, y, z) = Mk(e0, x, T0, y, z, p)
<1>1. SetTarget(Mk(e0, e1, T0, T1, r, p), x, y, z)
        = SetRehash(SetTab1(SetExp1(Mk(e0, e1, T0, T1, r, p), x), y), z)
  BY DEF SetTarget, SetRehash, SetTab1, SetExp1
<1> QED BY <1>1, MkSet

\* The end of a rehashing.
LEMMA MkCompleted ==
  ASSUME NEW e0, NEW e1, NEW T0, NEW T1, NEW r, NEW p
  PROVE  RehashingCompleted(Mk(e0, e1, T0, T1, r, p)) = Mk(e1, -1, T1, EmptyTable(-1), -1, p)
<1> DEFINE m == -1
           E == EmptyTable(m)
           h == Mk(e0, e1, T0, T1, r, p)
           s == SwapTables(h)
<1>1. RehashingCompleted(h) = SetTarget(s, m, E, m)
  BY DEF RehashingCompleted, SetTarget
<1> HIDE DEF m, E
<1>2. s = Mk(e1, e0, T1, T0, r, p)
  BY MkSwap
<1> HIDE DEF h, s
<1>3. SetTarget(s, m, E, m) = Mk(e1, m, T1, E, m, p)
  BY <1>2, MkTarget
<1>4. RehashingCompleted(h) = Mk(e1, m, T1, E, m, p)
  BY <1>1, <1>3
<1> QED BY <1>4 DEF h, m, E

\* After it, table 1 has become table 0.
LEMMA CompletedFacts ==
  ASSUME NEW e0, NEW e1 \in Exps, NEW T0, NEW T1, GoodTable(T1, e1), NEW r, NEW p \in Nat
  PROVE  Has(RehashingCompleted(Mk(e0, e1, T0, T1, r, p)), Stored(T1), p)
<1> DEFINE E == EmptyTable(-1)
<1>1. -1 \in Exps
  BY HashAssumption DEF Exps
<1>2. GoodTable(E, -1) /\ Stored(E) = {}
  BY <1>1, EmptyTableFacts
<1>3. Sound(e1, -1, T1, E, -1)
  <2>1. -1 \in -1 .. NumBuckets(e1) - 1
    BY NumBucketsFacts
  <2>2. \A i \in 0 .. (-1) - 1 : T1[i] = EmptyChain
    OBVIOUS
  <2> HIDE DEF E
  <2> QED BY <1>1, <1>2, <2>1, <2>2 DEF Sound
<1> HIDE DEF E
<1>4. Has(Mk(e1, -1, T1, E, -1, p), Stored(T1) \cup Stored(E), p)
  BY <1>3, MkGood
<1>5. Stored(T1) \cup Stored(E) = Stored(T1)
  BY <1>2
<1>6. RehashingCompleted(Mk(e0, e1, T0, T1, r, p)) = Mk(e1, -1, T1, E, -1, p)
  BY MkCompleted DEF E
<1> QED BY <1>4, <1>5, <1>6

\* A chain of table 0 whose entries table R already has is dropped, and rehash_idx moves
\* on; when table 0 is empty, table R takes its place.
LEMMA FinalizeFacts ==
  ASSUME NEW e0, NEW e1, NEW T0, NEW T1, NEW r, Sound(e0, e1, T0, T1, r), r # -1, NEW p \in Nat,
         NEW R, GoodTable(R, e1), Stored(R) = Stored(T1) \cup Entries(T0[r])
  PROVE  Room(RehashStepFinalize(Mk(e0, e1, T0, R, r, p)), Stored(T0) \cup Stored(T1), p)
<1> DEFINE h == Mk(e0, e1, T0, R, r, p)
           D == With(T0, r, EmptyChain)
           g == Mk(e0, e1, D, R, r + 1, p)
           N == NumBuckets(e0)
<1>1. /\ e0 \in Exps /\ e1 \in Exps /\ GoodTable(T0, e0) /\ e1 # -1
      /\ r \in -1 .. N - 1 /\ Stored(T0) \cap Stored(T1) = {}
      /\ \A i \in 0 .. r - 1 : T0[i] = EmptyChain
  BY DEF Sound
<1>2. N \in Nat /\ Indices(e0) = 0 .. N - 1
  BY <1>1, NumBucketsFacts DEF Indices
<1>3. r \in Nat /\ r < N /\ r \in Indices(e0) /\ r \in 0 .. N - 1 /\ r + 1 # -1
  BY <1>1, <1>2
<1>4. /\ GoodTable(D, e0) /\ Stored(D) = Stored(T0) \ Entries(T0[r])
      /\ D[r] = EmptyChain /\ \A j \in Indices(e0) : j # r => D[j] = T0[j]
  <2>1. GoodChain(EmptyChain) /\ Entries(EmptyChain) = {}
    BY EmptyChainFacts
  <2>2. \A x \in Entries(EmptyChain) : Hash[x] % NumBuckets(e0) = r
    BY <2>1
  <2>3. /\ GoodTable(D, e0) /\ Stored(D) = (Stored(T0) \ Entries(T0[r])) \cup Entries(EmptyChain)
        /\ D[r] = EmptyChain /\ \A j \in Indices(e0) : j # r => D[j] = T0[j]
    BY <1>1, <1>3, <2>1, <2>2, ReplaceChain
  <2> QED BY <2>1, <2>3
<1>5. [h EXCEPT !.tab[0][h.rehash] = EmptyChain, !.rehash = @ + 1] = g
  <2>1. h.tab[0] = T0 /\ h.rehash = r
    BY MkFields
  <2>2. SetTab0(h, D) = Mk(e0, e1, D, R, r, p)
    BY MkSet
  <2> DEFINE k == SetTab0(h, D)
  <2>3. k.rehash = r
    BY <2>2, MkFields
  <2>4. SetRehash(k, k.rehash + 1) = g
    BY <2>2, <2>3, MkSet
  <2>5. [h EXCEPT !.tab[0][h.rehash] = EmptyChain, !.rehash = @ + 1] = SetRehash(k, k.rehash + 1)
    <3>1. D = [h.tab[0] EXCEPT ![h.rehash] = EmptyChain]
      BY <2>1 DEF With
    <3> HIDE DEF D, h
    <3> QED BY <3>1 DEF SetRehash, SetTab0
  <2> QED BY <2>4, <2>5
<1>6. RehashStepFinalize(h)
        = IF Used(g, 0) = 0 /\ ~ HasChildren(g, 0) THEN RehashingCompleted(g) ELSE g
  <2> HIDE DEF g
  <2> QED BY <1>5 DEF RehashStepFinalize
<1>7. /\ Used(g, 0) = Cardinality(Stored(D))
      /\ HasChildren(g, 0) <=> \E i \in DOMAIN D : Len(D[i]) > 1
  <2> HIDE DEF D
  <2> QED BY MkFacts
<1>8. DOMAIN D = Indices(e0) /\ (Cardinality(Stored(D)) = 0 <=> Stored(D) = {})
  BY <1>1, <1>4, TableFacts
<1>9. CASE Used(g, 0) = 0 /\ ~ HasChildren(g, 0)
  <2>1. Has(RehashingCompleted(g), Stored(R), p)
    BY <1>1, CompletedFacts
  <2>2. Entries(T0[r]) \subseteq Stored(T0)
    BY <1>1, <1>3, TableFacts
  <2>3. Stored(R) = Stored(T0) \cup Stored(T1)
    BY <1>4, <1>7, <1>8, <1>9, <2>2
  <2>4. RehashingCompleted(g).exp[0] = e1
    <3> DEFINE c == RehashingCompleted(g)
               m == -1
               E == EmptyTable(m)
    <3>1. c = Mk(e1, m, R, E, m, p)
      BY MkCompleted
    <3> HIDE DEF c, m, E
    <3>2. c.exp[0] = e1
      BY <3>1, MkFields
    <3> QED BY <3>2 DEF c
  <2> HIDE DEF g
  <2> QED BY <1>1, <1>6, <1>9, <2>1, <2>3, <2>4 DEF Room
<1>10. CASE ~ (Used(g, 0) = 0 /\ ~ HasChildren(g, 0))
  <2>1. \A i \in 0 .. r : D[i] = EmptyChain
    <3> TAKE i \in 0 .. r
    <3>1. i \in Indices(e0) /\ (i = r \/ i \in 0 .. r - 1)
      BY <1>2, <1>3
    <3> QED BY <1>1, <1>4, <3>1
  <2>2. r + 1 < N
    <3> SUFFICES ASSUME ~ (r + 1 < N) PROVE FALSE
      OBVIOUS
    <3>1. \A i \in Indices(e0) : D[i] = EmptyChain
      BY <1>2, <1>3, <2>1
    <3>2. \A i \in DOMAIN D : Entries(D[i]) = {} /\ Len(D[i]) = 1
      BY <1>8, <3>1, EmptyChainFacts
    <3>3. Stored(D) = {}
      BY <3>2 DEF Stored
    <3>4. \A i \in DOMAIN D : ~ (Len(D[i]) > 1)
      <4> HIDE DEF D
      <4> TAKE i \in DOMAIN D
      <4>1. Len(D[i]) = 1
        BY <3>2
      <4> QED BY <4>1
    <3> QED BY <1>7, <1>8, <1>10, <3>3, <3>4
  <2>3. Sound(e0, e1, D, R, r + 1)
    <3>1. r + 1 \in -1 .. N - 1
      BY <1>2, <1>3, <2>2
    <3>2. Stored(D) \cap Stored(R) = {}
      BY <1>1, <1>4
    <3>3. \A i \in 0 .. (r + 1) - 1 : D[i] = EmptyChain
      BY <1>3, <2>1
    <3> HIDE DEF D
    <3> QED BY <1>1, <1>3, <1>4, <3>1, <3>2, <3>3 DEF Sound
  <2>4. Has(g, Stored(D) \cup Stored(R), p)
    <3> HIDE DEF D
    <3> QED BY <2>3, MkGood
  <2>5. Stored(D) \cup Stored(R) = Stored(T0) \cup Stored(T1)
    <3>1. Entries(T0[r]) \subseteq Stored(T0)
      BY <1>1, <1>3, TableFacts
    <3> QED BY <1>4, <3>1
  <2>6. g.exp[0] = e0 /\ e0 # -1
    <3>1. e0 # -1
      BY <1>1, <1>3, NumBucketsFacts
    <3> QED BY <3>1, MkFields
  <2> HIDE DEF g
  <2> QED BY <1>6, <1>10, <2>4, <2>5, <2>6 DEF Room
<1> QED BY <1>9, <1>10

\* What MoveChain() does with entry x: put it where its hash, taken from the index in a
\* shrink, says.
MoveOne(T, x, hash, e) == [T EXCEPT ![hash % NumBuckets(e)] = Put(@, x)]
MoveHash(h, x) == IF Shrinking(h) THEN h.rehash ELSE Hash[x]

\* In a shrink the index of the old bucket serves as the hash.
LEMMA MoveHashFacts ==
  ASSUME NEW e0, NEW e1, NEW T0, NEW T1, NEW r, Sound(e0, e1, T0, T1, r), r # -1, NEW p,
         NEW h, h = Mk(e0, e1, T0, T1, r, p), NEW x \in Entries(T0[r])
  PROVE  MoveHash(h, x) % NumBuckets(e1) = Hash[x] % NumBuckets(e1)
<1>1. /\ e0 \in Exps /\ e1 \in Exps /\ GoodTable(T0, e0) /\ e1 # -1
      /\ r \in -1 .. NumBuckets(e0) - 1
  BY DEF Sound
<1>2. r \in Indices(e0) /\ e0 # -1
  <2>1. NumBuckets(e0) \in Nat
    BY <1>1, NumBucketsFacts
  <2>2. r \in 0 .. NumBuckets(e0) - 1
    BY <1>1, <2>1
  <2>3. e0 # -1
    BY <1>1, <2>2, NumBucketsFacts
  <2> QED BY <2>2, <2>3 DEF Indices
<1>3. Hash[x] % NumBuckets(e0) = r /\ x \in Elems
  <2>1. Hash[x] % NumBuckets(e0) = r /\ T0[r] \in Chains
    BY <1>1, <1>2 DEF GoodTable
  <2> QED BY <2>1, EntriesFacts
<1>4. h.rehash = r /\ (Shrinking(h) <=> r # -1 /\ e1 < e0)
  BY MkFields, MkFacts
<1>5. CASE ~ (e1 < e0)
  BY <1>4, <1>5 DEF MoveHash
<1>6. CASE e1 < e0
  <2>1. MoveHash(h, x) = Hash[x] % NumBuckets(e0)
    BY <1>3, <1>4, <1>6 DEF MoveHash
  <2>2. /\ e0 \in Nat /\ e1 \in Nat /\ e1 <= e0
        /\ NumBuckets(e0) = Pow2[e0] /\ NumBuckets(e1) = Pow2[e1]
    BY <1>1, <1>2, <1>6, NumBucketsFacts
  <2>3. Hash[x] \in Nat
    BY <1>1, <1>2, <1>3, HashFacts
  <2>4. (Hash[x] % Pow2[e0]) % Pow2[e1] = Hash[x] % Pow2[e1]
    BY <2>2, <2>3, BucketInSmaller
  <2> QED BY <2>1, <2>2, <2>4
<1> QED BY <1>5, <1>6

\* The tables of the loop of MoveChain(), up to entry n.
MovingTo(h, xs, n, f) ==
  f = [k \in 0 .. n |-> IF k = 0 THEN h.tab[1]
                        ELSE MoveOne(f[k - 1], xs[k], MoveHash(h, xs[k]), h.exp[1])]

\* They exist.
LEMMA MovingExists ==
  ASSUME NEW h, NEW xs, NEW n \in Nat
  PROVE  \E f : MovingTo(h, xs, n, f)
<1> DEFINE P == {k \in Nat : \E f : MovingTo(h, xs, k, f)}
           step(T, i) == MoveOne(T, xs[i], MoveHash(h, xs[i]), h.exp[1])
<1>1. 0 \in P
  <2>1. MovingTo(h, xs, 0, [i \in 0 .. 0 |-> h.tab[1]])
    BY DEF MovingTo
  <2> QED BY <2>1
<1>2. ASSUME NEW k \in Nat, k \in P PROVE k + 1 \in P
  <2>1. PICK f : MovingTo(h, xs, k, f)
    BY <1>2
  <2> DEFINE g == [i \in 0 .. (k + 1) |-> IF i <= k THEN f[i] ELSE step(f[i - 1], i)]
  <2>2. f = [i \in 0 .. k |-> IF i = 0 THEN h.tab[1] ELSE step(f[i - 1], i)]
    BY <2>1 DEF MovingTo
  <2> HIDE DEF step
  <2>3. f[0] = h.tab[1] /\ \A i \in 1 .. k : f[i] = step(f[i - 1], i)
    BY <2>2
  <2>4. g[0] = h.tab[1]
    BY <2>3
  <2>5. ASSUME NEW i \in 1 .. (k + 1) PROVE g[i] = step(g[i - 1], i)
    <3>1. g[i - 1] = f[i - 1]
      OBVIOUS
    <3>2. g[i] = step(f[i - 1], i)
      <4>1. CASE i <= k
        BY <4>1, <2>3
      <4>2. CASE ~ (i <= k)
        BY <4>2
      <4> QED BY <4>1, <4>2
    <3> QED BY <3>1, <3>2
  <2>6. g = [i \in 0 .. (k + 1) |-> g[i]]
    OBVIOUS
  <2> HIDE DEF g
  <2>7. [i \in 0 .. (k + 1) |-> g[i]]
          = [i \in 0 .. (k + 1) |-> IF i = 0 THEN h.tab[1] ELSE step(g[i - 1], i)]
    BY <2>4, <2>5
  <2>8. MovingTo(h, xs, k + 1, g)
    BY <2>6, <2>7 DEF MovingTo, step
  <2> QED BY <2>8
<1> HIDE DEF P
<1>3. Nat \subseteq P
  BY <1>1, <1>2, NatSetInduction
<1> QED BY <1>3 DEF P

\* Moving a chain puts its entries into table 1.
LEMMA MoveChainFacts ==
  ASSUME NEW e0, NEW e1, NEW T0, NEW T1, NEW r, Sound(e0, e1, T0, T1, r), r # -1, NEW p
  PROVE  \E R : /\ MoveChain(Mk(e0, e1, T0, T1, r, p)) = Mk(e0, e1, T0, R, r, p)
                /\ GoodTable(R, e1) /\ Stored(R) = Stored(T1) \cup Entries(T0[r])
<1> DEFINE h == Mk(e0, e1, T0, T1, r, p)
           xs == InOrder(T0[r])
           X == Entries(T0[r])
           n == Len(xs)
           f == CHOOSE f : MovingTo(h, xs, n, f)
<1>1. /\ e0 \in Exps /\ e1 \in Exps /\ GoodTable(T0, e0) /\ GoodTable(T1, e1) /\ e1 # -1
      /\ r \in -1 .. NumBuckets(e0) - 1 /\ Stored(T0) \cap Stored(T1) = {}
  BY DEF Sound
<1>2. r \in Indices(e0)
  <2>1. NumBuckets(e0) \in Nat
    BY <1>1, NumBucketsFacts
  <2> QED BY <1>1, <2>1 DEF Indices
<1>3. /\ h.exp[0] = e0 /\ h.exp[1] = e1 /\ h.tab[0] = T0 /\ h.tab[1] = T1
      /\ h.rehash = r /\ h.pause = p
  BY MkFields
<1>4. Lists(xs, X) /\ X \subseteq Stored(T0)
  BY <1>1, <1>2, InOrderFacts, TableFacts DEF GoodTable
<1>5. n \in Nat /\ (\A a \in 1 .. n : xs[a] \in X) /\ (\A x \in X : \E a \in 1 .. n : xs[a] = x)
      /\ \A a, b \in 1 .. n : xs[a] = xs[b] => a = b
  <2>1. xs \in Seq(Elems)
    BY <1>4 DEF Lists
  <2> HIDE DEF xs
  <2> QED BY <1>4, <2>1 DEF Lists
<1>6. MoveChain(h) = SetTab1(h, f[n])
  BY <1>3 DEF MoveChain, MovingTo, MoveOne, MoveHash, SetTab1
<1> HIDE DEF xs
<1>7. MovingTo(h, xs, n, f)
  <2> HIDE DEF n, h
  <2> QED BY <1>5, MovingExists
<1> HIDE DEF f
<1>8. /\ f[0] = T1
      /\ \A k \in 1 .. n : f[k] = MoveOne(f[k - 1], xs[k], MoveHash(h, xs[k]), e1)
  <2> HIDE DEF h, n
  <2>1. f = [k \in 0 .. n |-> IF k = 0 THEN T1 ELSE MoveOne(f[k - 1], xs[k], MoveHash(h, xs[k]), e1)]
    BY <1>3, <1>7 DEF MovingTo
  <2>2. f[0] = T1
    BY <1>5, <2>1
  <2>3. ASSUME NEW k \in 1 .. n PROVE f[k] = MoveOne(f[k - 1], xs[k], MoveHash(h, xs[k]), e1)
    <3>1. k \in 0 .. n /\ k # 0
      BY <1>5
    <3> QED BY <2>1, <3>1
  <2> QED BY <2>2, <2>3
<1> DEFINE S == {k \in Nat : GoodTable(f[k], e1) /\ Stored(f[k]) = Stored(T1) \cup {xs[j] : j \in 1 .. k}}
<1>9. 0 \in S
  <2>1. {xs[j] : j \in 1 .. 0} = {}
    OBVIOUS
  <2> QED BY <1>1, <1>8, <2>1
<1>10. ASSUME NEW k \in Nat, k < n, k \in S PROVE k + 1 \in S
  <2> DEFINE x == xs[k + 1]
             T == f[k]
             i == Hash[x] % NumBuckets(e1)
             Z == {xs[j] : j \in 1 .. k}
  <2>1. k + 1 \in 1 .. n /\ (k + 1) - 1 = k /\ k + 1 \in Nat
    BY <1>5, <1>10
  <2>2. x \in X /\ x \in Stored(T0) /\ x \in Elems
    BY <1>1, <1>4, <1>5, <2>1, TableFacts
  <2>3. GoodTable(T, e1) /\ Stored(T) = Stored(T1) \cup Z
    BY <1>10
  <2>4. x \notin Z
    <3> SUFFICES ASSUME NEW j \in 1 .. k, xs[j] = x PROVE FALSE
      OBVIOUS
    <3>1. j \in 1 .. n /\ j # k + 1
      BY <1>5, <2>1
    <3> QED BY <1>5, <2>1, <3>1
  <2>5. x \notin Stored(T)
    BY <1>1, <2>2, <2>3, <2>4
  <2>6. MoveHash(h, x) % NumBuckets(e1) = i
    <3> HIDE DEF x
    <3> QED BY <2>2, MoveHashFacts
  <2>7. f[k + 1] = MoveOne(T, x, MoveHash(h, x), e1)
    BY <1>8, <2>1
  <2> HIDE DEF x, T, h, Z
  <2>8. MoveOne(T, x, MoveHash(h, x), e1) = With(T, i, Put(T[i], x))
    <3> HIDE DEF i
    <3> QED BY <2>6 DEF MoveOne, With
  <2>9. GoodTable(With(T, i, Put(T[i], x)), e1) /\ Stored(With(T, i, Put(T[i], x))) = Stored(T) \cup {x}
    BY <1>1, <2>2, <2>3, <2>5, PutTable
  <2>10. {xs[j] : j \in 1 .. (k + 1)} = Z \cup {x}
    <3>1. 1 .. (k + 1) = (1 .. k) \cup {k + 1}
      OBVIOUS
    <3> QED BY <3>1 DEF Z, x
  <2>11. GoodTable(f[k + 1], e1) /\ Stored(f[k + 1]) = Stored(T1) \cup (Z \cup {x})
    BY <2>3, <2>7, <2>8, <2>9
  <2> QED BY <2>1, <2>10, <2>11
<1> HIDE DEF S
<1>11. n \in S
  <2>1. \A k \in Nat : k < n /\ k \in S => k + 1 \in S
    BY <1>10
  <2>2. \A k \in 0 .. n : k \in S
    <3> HIDE DEF n
    <3> QED BY <1>5, <1>9, <2>1, IntervalInduction
  <2>3. n \in 0 .. n
    BY <1>5
  <2> QED BY <2>2, <2>3
<1>12. GoodTable(f[n], e1) /\ Stored(f[n]) = Stored(T1) \cup {xs[j] : j \in 1 .. n}
  BY <1>11 DEF S
<1>13. {xs[j] : j \in 1 .. n} = X
  BY <1>5
<1>14. SetTab1(h, f[n]) = Mk(e0, e1, T0, f[n], r, p)
  BY MkSet
<1> QED BY <1>6, <1>12, <1>13, <1>14


\* The parts of a sound hash table.
LEMMA GoodParts ==
  ASSUME NEW h, NEW X, NEW p, Has(h, X, p)
  PROVE  /\ p \in Nat
         /\ \E e0, e1, T0, T1, r : /\ h = Mk(e0, e1, T0, T1, r, p)
                                   /\ Sound(e0, e1, T0, T1, r) /\ X = Stored(T0) \cup Stored(T1)
<1>1. Good(h) /\ Contents(h) = X /\ h.pause = p
  BY DEF Has
<1> DEFINE e0 == h.exp[0]
           e1 == h.exp[1]
           T0 == h.tab[0]
           T1 == h.tab[1]
           r == h.rehash
<1>2. h = Mk(e0, e1, T0, T1, r, p) /\ Sound(e0, e1, T0, T1, r) /\ p \in Nat
  BY <1>1 DEF Good
<1> HIDE DEF e0, e1, T0, T1, r
<1>3. Contents(h) = Stored(T0) \cup Stored(T1)
  BY <1>2, MkFacts
<1> QED BY <1>1, <1>2, <1>3

\* One visit of an empty chain by rehashStepShrink().
Skip(g) == IF IsRehashing(g) /\ g.tab[0][g.rehash] = EmptyChain THEN RehashStepFinalize(g) ELSE g

\* It keeps the entries.
LEMMA SkipFacts ==
  ASSUME NEW h, NEW X, NEW p, Has(h, X, p)
  PROVE  Has(Skip(h), X, p) /\ (h.exp[0] # -1 => Skip(h).exp[0] # -1)
<1>1. CASE ~ (IsRehashing(h) /\ h.tab[0][h.rehash] = EmptyChain)
  BY <1>1 DEF Skip
<1>2. CASE IsRehashing(h) /\ h.tab[0][h.rehash] = EmptyChain
  <2>0. p \in Nat
    BY GoodParts
  <2>1. PICK e0, e1, T0, T1, r : /\ h = Mk(e0, e1, T0, T1, r, p)
                                 /\ Sound(e0, e1, T0, T1, r) /\ X = Stored(T0) \cup Stored(T1)
    BY GoodParts
  <2>2. r # -1 /\ T0[r] = EmptyChain
    BY <1>2, <2>1, MkFields, MkFacts
  <2>3. GoodTable(T1, e1) /\ Stored(T1) = Stored(T1) \cup Entries(T0[r])
    BY <2>1, <2>2, EmptyChainFacts DEF Sound
  <2>4. Room(RehashStepFinalize(Mk(e0, e1, T0, T1, r, p)), Stored(T0) \cup Stored(T1), p)
    BY <2>0, <2>1, <2>2, <2>3, FinalizeFacts
  <2> QED BY <1>2, <2>1, <2>4 DEF Skip, Room
<1> QED BY <1>1, <1>2

\* A chain that moves, and is dropped.
LEMMA MoveStep ==
  ASSUME NEW h, NEW X, NEW p, Has(h, X, p), IsRehashing(h)
  PROVE  Room(RehashStepFinalize(MoveChain(h)), X, p)
<1>0. p \in Nat
  BY GoodParts
<1>1. PICK e0, e1, T0, T1, r : /\ h = Mk(e0, e1, T0, T1, r, p)
                               /\ Sound(e0, e1, T0, T1, r) /\ X = Stored(T0) \cup Stored(T1)
  BY GoodParts
<1>2. r # -1
  BY <1>1, MkFacts
<1>3. PICK R : /\ MoveChain(Mk(e0, e1, T0, T1, r, p)) = Mk(e0, e1, T0, R, r, p)
               /\ GoodTable(R, e1) /\ Stored(R) = Stored(T1) \cup Entries(T0[r])
  BY <1>1, <1>2, MoveChainFacts
<1>4. Room(RehashStepFinalize(Mk(e0, e1, T0, R, r, p)), Stored(T0) \cup Stored(T1), p)
  BY <1>0, <1>1, <1>2, <1>3, FinalizeFacts
<1> QED BY <1>1, <1>3, <1>4

\* The hash tables of the loop over empty chains.
Skipping(h, n, f) == f = [k \in 0 .. n |-> IF k = 0 THEN h ELSE Skip(f[k - 1])]

\* They exist.
LEMMA SkippingExists ==
  ASSUME NEW h, NEW n \in Nat
  PROVE  \E f : Skipping(h, n, f)
<1> DEFINE P == {k \in Nat : \E f : Skipping(h, k, f)}
<1>1. 0 \in P
  <2>1. Skipping(h, 0, [i \in 0 .. 0 |-> h])
    BY DEF Skipping
  <2> QED BY <2>1
<1>2. ASSUME NEW k \in Nat, k \in P PROVE k + 1 \in P
  <2>1. PICK f : Skipping(h, k, f)
    BY <1>2
  <2> DEFINE g == [i \in 0 .. (k + 1) |-> IF i <= k THEN f[i] ELSE Skip(f[i - 1])]
  <2>2. f = [i \in 0 .. k |-> IF i = 0 THEN h ELSE Skip(f[i - 1])]
    BY <2>1 DEF Skipping
  <2>3. f[0] = h /\ \A i \in 1 .. k : f[i] = Skip(f[i - 1])
    BY <2>2
  <2>4. g[0] = h
    BY <2>3
  <2>5. ASSUME NEW i \in 1 .. (k + 1) PROVE g[i] = Skip(g[i - 1])
    <3>1. g[i - 1] = f[i - 1]
      OBVIOUS
    <3>2. g[i] = Skip(f[i - 1])
      <4>1. CASE i <= k
        BY <4>1, <2>3
      <4>2. CASE ~ (i <= k)
        BY <4>2
      <4> QED BY <4>1, <4>2
    <3> QED BY <3>1, <3>2
  <2>6. g = [i \in 0 .. (k + 1) |-> g[i]]
    OBVIOUS
  <2> HIDE DEF g
  <2>7. [i \in 0 .. (k + 1) |-> g[i]] = [i \in 0 .. (k + 1) |-> IF i = 0 THEN h ELSE Skip(g[i - 1])]
    BY <2>4, <2>5
  <2>8. Skipping(h, k + 1, g)
    BY <2>6, <2>7 DEF Skipping
  <2> QED BY <2>8
<1> HIDE DEF P
<1>3. Nat \subseteq P
  BY <1>1, <1>2, NatSetInduction
<1> QED BY <1>3 DEF P

\* A step of a shrink: empty chains are skipped, and one that is not moves.
LEMMA ShrinkStep ==
  ASSUME NEW h, NEW X, NEW p, Room(h, X, p)
  PROVE  Room(RehashStepShrink(h), X, p)
<1> DEFINE n == EmptyVisits
           f == CHOOSE f : Skipping(h, n, f)
           s == f[n]
<1>1. n \in Nat
  BY FillAssumption
<1>2. RehashStepShrink(h) = IF ~ IsRehashing(s) \/ s.rehash - h.rehash = n
                            THEN s ELSE RehashStepFinalize(MoveChain(s))
  BY DEF RehashStepShrink, Iterate, Skipping, Skip
<1> HIDE DEF n
<1>3. Skipping(h, n, f)
  BY <1>1, SkippingExists
<1> HIDE DEF f
<1>4. f[0] = h /\ \A k \in 1 .. n : f[k] = Skip(f[k - 1])
  BY <1>1, <1>3 DEF Skipping
<1> DEFINE S == {k \in Nat : Room(f[k], X, p)}
<1>5. 0 \in S
  BY <1>4
<1>6. ASSUME NEW k \in Nat, k < n, k \in S PROVE k + 1 \in S
  <2>1. k + 1 \in 1 .. n /\ (k + 1) - 1 = k /\ k + 1 \in Nat
    BY <1>1, <1>6
  <2>2. Room(Skip(f[k]), X, p)
    BY <1>6, SkipFacts DEF Room
  <2>3. f[k + 1] = Skip(f[k])
    BY <1>4, <2>1
  <2> QED BY <2>1, <2>2, <2>3
<1> HIDE DEF S
<1>7. n \in S
  <2>1. \A k \in 0 .. n : k \in S
    BY <1>1, <1>5, <1>6, IntervalInduction
  <2> QED BY <1>1, <2>1
<1>8. Room(s, X, p)
  BY <1>7 DEF S
<1> HIDE DEF s
<1>9. IsRehashing(s) => Room(RehashStepFinalize(MoveChain(s)), X, p)
  BY <1>8, MoveStep DEF Room
<1> QED BY <1>2, <1>8, <1>9

\* A step of a rehashing keeps the entries.
LEMMA RehashStepFacts ==
  ASSUME NEW h, NEW X, NEW p, Has(h, X, p), IsRehashing(h)
  PROVE  Room(RehashStep(h), X, p)
<1>1. h.exp[0] # -1
  <2>1. PICK e0, e1, T0, T1, r : h = Mk(e0, e1, T0, T1, r, p) /\ Sound(e0, e1, T0, T1, r)
    BY GoodParts
  <2>2. r # -1 /\ h.exp[0] = e0
    BY <2>1, MkFields, MkFacts
  <2>3. e0 \in Exps /\ r \in -1 .. NumBuckets(e0) - 1
    BY <2>1 DEF Sound
  <2> QED BY <2>2, <2>3, NumBucketsFacts
<1> QED BY <1>1, ShrinkStep, MoveStep DEF RehashStep, Room

\* So do the steps that reads and writes take; they take none while rehashing is paused.
LEMMA RehashStepIfFacts ==
  ASSUME NEW h, NEW X, NEW p, Has(h, X, p), NEW when
  PROVE  /\ Has(RehashStepIf(h, when), X, p) /\ Has(OnRead(h), X, p)
         /\ h.exp[0] # -1 => RehashStepIf(h, when).exp[0] # -1
         /\ p # 0 => RehashStepIf(h, when) = h /\ OnRead(h) = h
<1>1. ASSUME NEW w
      PROVE  /\ Has(RehashStepIf(h, w), X, p) /\ (p # 0 => RehashStepIf(h, w) = h)
             /\ h.exp[0] # -1 => RehashStepIf(h, w).exp[0] # -1
  <2>1. h.pause = p
    BY DEF Has
  <2>2. IsRehashing(h) => Room(RehashStep(h), X, p)
    BY RehashStepFacts
  <2> QED BY <2>1, <2>2 DEF RehashStepIf, Room
<1>2. Has(RehashStepIf(h, "ALLOW"), X, p) /\ (p # 0 => RehashStepIf(h, "ALLOW") = h)
  BY <1>1
<1> QED BY <1>1, <1>2 DEF OnRead

-----------------------------------------------------------------------------
(* Resizing.                                                               *)

\* A capacity that the largest table has.
Fits(n) == n \in Nat /\ n * BucketFactor <= Pow2[MaxExp] * BucketDivisor

\* The capacities that are asked for.
LEMMA FitsFacts ==
  /\ \A n \in Sizes : Fits(n)
  /\ \A n \in Nat : n <= Cardinality(Elems) + 1 => Fits(n)
  /\ Fits(1)
<1> DEFINE N == Cardinality(Elems) + 1
           M == Pow2[MaxExp] * BucketDivisor
<1>1. \A n \in Sizes : Fits(n)
  BY HashAssumption DEF Fits
<1>2. Fits(N)
  BY HashAssumption DEF Fits
<1>3. BucketFactor \in Nat \ {0} /\ BucketDivisor \in Nat \ {0} /\ Pow2[MaxExp] \in Nat
  BY FillAssumption, HashAssumption, Pow2Facts
<1>4. Cardinality(Elems) \in Nat
  BY HashAssumption, FS_CardinalityType
<1>5. N \in Nat /\ N >= 1
  BY <1>4
<1>6. M \in Nat
  BY <1>3
<1>7. ASSUME NEW n \in Nat, n <= N PROVE Fits(n)
  <2>1. N * BucketFactor <= M
    BY <1>2 DEF Fits
  <2> HIDE DEF N, M
  <2>2. n * BucketFactor <= N * BucketFactor /\ n * BucketFactor \in Nat /\ N * BucketFactor \in Nat
    BY <1>3, <1>5, <1>7, MulOrder
  <2>3. n * BucketFactor <= M
    BY <1>6, <2>1, <2>2
  <2> QED BY <2>3 DEF Fits, M
<1>8. Fits(1)
  <2> HIDE DEF N
  <2> QED BY <1>5, <1>7
<1> QED BY <1>1, <1>7, <1>8

\* nextBucketExp() finds a table that has the capacity.
LEMMA NextBucketExpFacts ==
  ASSUME NEW w \in Nat \ {0}, Fits(w)
  PROVE  /\ NextBucketExp(w) \in 0 .. MaxExp
         /\ NextBucketExp(w) \in Exps /\ NextBucketExp(w) # -1 /\ NextBucketExp(w) \in Nat
         /\ w * BucketFactor <= Pow2[NextBucketExp(w)] * BucketDivisor
<1> DEFINE B == BucketDivisor
           a == w * BucketFactor
           q == (a - 1) \div B
           P == {e \in 0 .. MaxExp + 1 : Pow2[e] >= q + 1}
           e == NextBucketExp(w)
           M == Pow2[MaxExp]
<1>1. B \in Nat \ {0} /\ BucketFactor \in Nat \ {0} /\ MaxExp \in Nat /\ M \in Nat
  BY FillAssumption, HashAssumption, Pow2Facts
<1>2. a \in Nat /\ a >= 1 /\ a <= M * B
  <2>1. a <= M * B
    BY DEF Fits
  <2>2. 1 <= w /\ 1 \in Nat /\ w \in Nat
    OBVIOUS
  <2>3. 1 * BucketFactor <= w * BucketFactor /\ w * BucketFactor \in Nat
    BY <1>1, <2>2, MulOrder
  <2> QED BY <1>1, <2>1, <2>3
<1> HIDE DEF a, B, M
<1>3. a - 1 \in Nat
  BY <1>2
<1>4. q \in Nat /\ a - 1 = B * q + ((a - 1) % B) /\ (a - 1) % B \in Nat /\ (a - 1) % B < B
  BY <1>1, <1>3, DivMod
<1> HIDE DEF q
<1>5. q * B = B * q /\ (q + 1) * B = q * B + B /\ q * B \in Nat
  BY <1>1, <1>4
<1>6. q * B < a /\ a <= (q + 1) * B
  BY <1>1, <1>2, <1>4, <1>5
<1>7. q < M
  <2>1. M * B \in Nat
    BY <1>1
  <2>2. q * B < M * B
    BY <1>2, <1>5, <1>6, <2>1
  <2> QED BY <1>1, <1>4, <2>2, MulOrder
<1>8. MaxExp \in P
  BY <1>1, <1>4, <1>7 DEF M
<1>9. e = First(P)
  BY DEF NextBucketExp, a, q, B
<1>10. P \subseteq Nat /\ P # {}
  BY <1>1, <1>8
<1> HIDE DEF e
<1>11. First(P) \in P /\ First(P) <= MaxExp
  <2> HIDE DEF P
  <2> QED BY <1>8, <1>10, FirstIsLeast
<1>12. e \in 0 .. MaxExp /\ Pow2[e] >= q + 1
  BY <1>1, <1>9, <1>11
<1>13. e \in Exps /\ e # -1 /\ e \in Nat
  BY <1>1, <1>12 DEF Exps
<1>14. a <= Pow2[e] * B
  <2>1. Pow2[e] \in Nat /\ q + 1 \in Nat
    BY <1>4, <1>13, Pow2Facts
  <2>2. (q + 1) * B <= Pow2[e] * B /\ (q + 1) * B \in Nat
    BY <1>1, <1>12, <2>1, MulOrder
  <2>3. Pow2[e] * B \in Nat
    BY <1>1, <2>1
  <2> QED BY <1>2, <1>6, <2>2, <2>3
<1> QED BY <1>12, <1>13, <1>14 DEF e, a, B

\* Every entry of chain c but those of D is in chain d, at its slot or at a later one.
KeepsChain(c, d, D) ==
  \A k \in Slots(c) : Slot(c, k) # None /\ Slot(c, k) \notin D =>
    \E l \in Slots(d) : k <= l /\ Slot(d, l) = Slot(c, k)

\* The chains of a table stay where they are, and keep their entries so.
KeepsTable(T, R, D) == \A j \in DOMAIN T : j \in DOMAIN R /\ KeepsChain(T[j], R[j], D)
Keeps(h, g, D) == \A t \in Tables : KeepsTable(h.tab[t], g.tab[t], D)

\* Nothing is lost when nothing changes.
LEMMA KeepsSame ==
  /\ \A c \in Chains : \A D : KeepsChain(c, c, D)
  /\ \A e \in Exps : \A T, D : GoodTable(T, e) => KeepsTable(T, T, D)
<1>1. ASSUME NEW c \in Chains, NEW D PROVE KeepsChain(c, c, D)
  <2>1. Len(c) \in Nat /\ EntriesPerBucket \in Nat
    BY ChainFacts, BucketFacts
  <2>2. Len(c) * EntriesPerBucket \in Nat
    BY <2>1
  <2>3. \A k \in Slots(c) : k <= k
    BY <2>2 DEF Slots
  <2> QED BY <2>3 DEF KeepsChain
<1>2. ASSUME NEW e \in Exps, NEW T, NEW D, GoodTable(T, e) PROVE KeepsTable(T, T, D)
  <2>1. \A j \in DOMAIN T : T[j] \in Chains
    BY <1>2 DEF GoodTable
  <2> QED BY <1>1, <2>1 DEF KeepsTable
<1> QED BY <1>1, <1>2

\* A chain of which nothing is left to keep.
LEMMA KeepsNothing ==
  ASSUME NEW c \in Chains, NEW d, NEW D, Entries(c) \subseteq D
  PROVE  KeepsChain(c, d, D)
<1> SUFFICES ASSUME NEW k \in Slots(c), Slot(c, k) # None, Slot(c, k) \notin D PROVE FALSE
  BY DEF KeepsChain
<1>1. PICK i \in 1 .. Len(c), p \in Positions : Slot(c, k) = c[i][p]
  BY SlotIsCell
<1> QED BY <1>1, EntriesFacts

\* A hash table keeps its entries when its two tables do.
LEMMA KeepsBoth ==
  ASSUME NEW e0, NEW e1, NEW T0, NEW T1, NEW r, NEW p, NEW f0, NEW f1, NEW R0, NEW R1, NEW s, NEW q, NEW D,
         KeepsTable(T0, R0, D), KeepsTable(T1, R1, D)
  PROVE  Keeps(Mk(e0, e1, T0, T1, r, p), Mk(f0, f1, R0, R1, s, q), D)
<1> DEFINE h == Mk(e0, e1, T0, T1, r, p)
           g == Mk(f0, f1, R0, R1, s, q)
<1>1. h.tab[0] = T0 /\ h.tab[1] = T1
  BY MkFields
<1>2. g.tab[0] = R0 /\ g.tab[1] = R1
  BY MkFields
<1> HIDE DEF h, g
<1>3. Keeps(h, g, D)
  BY <1>1, <1>2 DEF Keeps, Tables
<1> QED BY <1>3 DEF h, g

\* A table that is not rehashing has no table 1.
LEMMA NoTarget ==
  ASSUME NEW e0, NEW e1, NEW T0, NEW T1, NEW r, Sound(e0, e1, T0, T1, r), r = -1
  PROVE  e1 = -1 /\ Stored(T1) = {} /\ DOMAIN T1 = {}
<1>1. e1 = -1 /\ GoodTable(T1, e1)
  BY DEF Sound
<1>2. e1 \in Exps
  BY DEF Sound
<1>3. DOMAIN T1 = {}
  BY <1>1, <1>2, NumBucketsFacts, TableFacts DEF Indices
<1> QED BY <1>1, <1>3 DEF Stored

\* A resize keeps the entries, and leaves a table 0; one that does not make the table smaller
\* keeps their places too.
LEMMA ResizeFacts ==
  ASSUME NEW h, NEW X, NEW p, Has(h, X, p), ~ IsRehashing(h),
         NEW capacity, Fits(capacity), NEW allowed,
         NEW want, want = IF capacity = 0 THEN 1 ELSE capacity
  PROVE  /\ Room(Resize(h, capacity, allowed), X, p)
         /\ h.exp[0] <= NextBucketExp(want) => Keeps(h, Resize(h, capacity, allowed), {})
<1>0. p \in Nat
  BY GoodParts
<1>1. PICK e0, e1, T0, T1, r : /\ h = Mk(e0, e1, T0, T1, r, p)
                               /\ Sound(e0, e1, T0, T1, r) /\ X = Stored(T0) \cup Stored(T1)
  BY GoodParts
<1>2. r = -1 /\ e0 \in Exps /\ GoodTable(T0, e0) /\ h.exp[0] = e0
  <2>1. r = -1
    BY <1>1, MkFacts
  <2> QED BY <1>1, <2>1, MkFields DEF Sound
<1>3. e1 = -1 /\ Stored(T1) = {} /\ DOMAIN T1 = {} /\ X = Stored(T0)
  BY <1>1, <1>2, NoTarget
<1> DEFINE e == NextBucketExp(want)
           E == EmptyTable(e)
           z == 0
           g == Mk(e0, e, T0, E, z, p)
           m == -1
           N == EmptyTable(m)
           c == Mk(e, m, E, N, m, p)
<1>4. want \in Nat \ {0} /\ Fits(want)
  BY FitsFacts DEF Fits
<1>5. e \in Exps /\ e # -1 /\ e \in Nat
  BY <1>4, NextBucketExpFacts
<1> HIDE DEF e
<1>6. GoodTable(E, e) /\ Stored(E) = {} /\ DOMAIN E = Indices(e)
  BY <1>5, EmptyTableFacts, TableFacts
<1>7. SetTarget(h, e, E, z) = g
  <2> HIDE DEF E, z
  <2> QED BY <1>1, MkTarget
<1>8. RehashingCompleted(g) = c
  <2> HIDE DEF E, z
  <2> QED BY MkCompleted
<1>9. CASE e0 = -1
  <2>1. Stored(T0) = {} /\ DOMAIN T0 = {}
    <3>1. DOMAIN T0 = {}
      BY <1>2, <1>9, NumBucketsFacts, TableFacts DEF Indices
    <3> QED BY <3>1 DEF Stored
  <2>2. Used(h, 0) = 0 /\ ~ HasChildren(h, 0)
    <3>1. Used(h, 0) = Cardinality(Stored(T0)) /\ (HasChildren(h, 0) <=> \E i \in DOMAIN T0 : Len(T0[i]) > 1)
      BY <1>1, MkFacts
    <3>2. Cardinality({}) = 0
      BY FS_EmptySet
    <3> QED BY <2>1, <3>1, <3>2
  <2>3. Resize(h, capacity, allowed) = c
    <3> HIDE DEF g, c, E
    <3> QED BY <1>2, <1>5, <1>7, <1>8, <1>9, <2>2 DEF Resize, SetTarget, e, E, z
  <2>4. Has(c, X, p)
    <3>1. Has(RehashingCompleted(g), Stored(E), p)
      <4> HIDE DEF E, z
      <4> QED BY <1>0, <1>5, <1>6, CompletedFacts
    <3>2. Stored(E) = X
      BY <1>3, <1>6, <2>1
    <3> HIDE DEF g, c, E
    <3> QED BY <1>8, <3>1, <3>2
  <2>5. c.exp[0] = e
    <3> HIDE DEF E, N, m
    <3> QED BY MkFields
  <2>6. Keeps(h, c, {})
    <3>1. KeepsTable(T0, E, {}) /\ KeepsTable(T1, N, {})
      BY <1>3, <2>1 DEF KeepsTable
    <3> HIDE DEF E, N, m
    <3> QED BY <1>1, <3>1, KeepsBoth
  <2> HIDE DEF c
  <2> QED BY <1>5, <2>3, <2>4, <2>5, <2>6 DEF Room
<1>10. CASE e0 # -1
  <2>1. \/ /\ Resize(h, capacity, allowed) \in {h, c, g}
           /\ Resize(h, capacity, allowed) = c => Used(h, 0) = 0
        \/ Resize(h, capacity, allowed) = h
        \/ Resize(h, capacity, allowed) = g
    <3> HIDE DEF g, c, E
    <3> QED BY <1>7, <1>8 DEF Resize, SetTarget, e, E, z
  <2>2. Room(h, X, p) /\ Keeps(h, h, {})
    <3>1. KeepsTable(T0, T0, {}) /\ KeepsTable(T1, T1, {})
      BY <1>2, <1>3, KeepsSame DEF KeepsTable
    <3>2. Keeps(h, h, {})
      BY <1>1, <3>1, KeepsBoth
    <3> QED BY <1>2, <1>10, <3>2 DEF Room
  <2>3. Room(g, X, p) /\ Keeps(h, g, {})
    <3>1. Sound(e0, e, T0, E, z)
      <4>1. NumBuckets(e0) \in Nat /\ NumBuckets(e0) >= 1
        BY <1>2, <1>10, NumBucketsFacts
      <4>2. z \in -1 .. NumBuckets(e0) - 1 /\ z # -1
        BY <4>1
      <4>3. \A i \in 0 .. z - 1 : T0[i] = EmptyChain
        OBVIOUS
      <4> HIDE DEF E, z
      <4> QED BY <1>2, <1>5, <1>6, <4>2, <4>3 DEF Sound
    <3>2. Has(g, Stored(T0) \cup Stored(E), p)
      <4> HIDE DEF E, z
      <4> QED BY <1>0, <3>1, MkGood
    <3>3. Stored(T0) \cup Stored(E) = X
      BY <1>3, <1>6
    <3>4. g.exp[0] = e0
      <4> HIDE DEF E, z
      <4> QED BY MkFields
    <3>5. KeepsTable(T0, T0, {}) /\ KeepsTable(T1, E, {})
      BY <1>2, <1>3, KeepsSame DEF KeepsTable
    <3>6. Keeps(h, g, {})
      <4> HIDE DEF E, z
      <4> QED BY <1>1, <3>5, KeepsBoth
    <3> HIDE DEF g
    <3> QED BY <1>10, <3>2, <3>3, <3>4, <3>6 DEF Room
  <2>4. ASSUME Used(h, 0) = 0 PROVE Room(c, X, p) /\ (h.exp[0] <= e => Keeps(h, c, {}))
    <3>1. Stored(T0) = {}
      <4>1. Used(h, 0) = Cardinality(Stored(T0))
        BY <1>1, MkFacts
      <4> QED BY <1>2, <2>4, <4>1, TableFacts
    <3>2. Has(RehashingCompleted(g), Stored(E), p)
      <4> HIDE DEF E, z
      <4> QED BY <1>0, <1>5, <1>6, CompletedFacts
    <3>3. Stored(E) = X
      BY <1>3, <1>6, <3>1
    <3>4. c.exp[0] = e
      <4> HIDE DEF E, N, m
      <4> QED BY MkFields
    <3>5. ASSUME e0 <= e PROVE Keeps(h, c, {})
      <4>1. DOMAIN T0 \subseteq DOMAIN E
        <5>1. DOMAIN T0 = Indices(e0) /\ e0 \in Nat
          BY <1>2, <1>10, TableFacts, NumBucketsFacts
        <5>2. Pow2[e0] <= Pow2[e] /\ Pow2[e0] \in Nat /\ Pow2[e] \in Nat
          BY <1>5, <3>5, <5>1, Pow2Mono, Pow2Facts
        <5>3. NumBuckets(e0) = Pow2[e0] /\ NumBuckets(e) = Pow2[e]
          BY <1>2, <1>5, <1>10, NumBucketsFacts
        <5> QED BY <1>6, <5>1, <5>2, <5>3 DEF Indices
      <4>2. \A j \in DOMAIN T0 : T0[j] \in Chains /\ Entries(T0[j]) \subseteq {}
        BY <1>2, <3>1, TableFacts DEF GoodTable
      <4>3. KeepsTable(T0, E, {})
        <5> HIDE DEF E
        <5> QED BY <4>1, <4>2, KeepsNothing DEF KeepsTable
      <4>4. KeepsTable(T1, N, {})
        BY <1>3 DEF KeepsTable
      <4> HIDE DEF E, N, m
      <4> QED BY <1>1, <4>3, <4>4, KeepsBoth
    <3> HIDE DEF g, c, E
    <3> QED BY <1>2, <1>5, <1>8, <3>2, <3>3, <3>4, <3>5 DEF Room
  <2> HIDE DEF g, c
  <2> QED BY <1>2, <2>1, <2>2, <2>3, <2>4 DEF e
<1> QED BY <1>9, <1>10

\* The static_assert beside BUCKET_FACTOR: a table that is too full for w entries is smaller
\* than the one nextBucketExp() finds for them.
LEMMA GrowsOnly ==
  ASSUME NEW w \in Nat \ {0}, Fits(w), NEW e \in Exps, e # -1,
         NEW limit \in Nat, MaxFillSoft <= limit, ~ (w * 100 <= limit * Capacity(e))
  PROVE  e <= NextBucketExp(w)
<1> DEFINE N == NumBuckets(e)
           E == EntriesPerBucket
           F == BucketFactor
           B == BucketDivisor
           S == MaxFillSoft
           G == (N * E) * F
           f == NextBucketExp(w)
           a == w * F
<1>1. /\ N \in Nat \ {0} /\ E \in Nat \ {0} /\ F \in Nat \ {0} /\ B \in Nat \ {0} /\ S \in Nat
      /\ 100 * B <= (S * F) * E
  BY NumBucketsFacts, FillAssumption
<1>2. f \in Nat /\ a <= Pow2[f] * B
  BY NextBucketExpFacts
<1>3. Capacity(e) = N * E
  BY DEF Capacity
<1>4. ~ (w * 100 <= limit * (N * E))
  BY <1>3
<1>4a. e \in Nat /\ N = Pow2[e]
  BY NumBucketsFacts
<1>4b. S <= limit
  OBVIOUS
<1> HIDE DEF N, E, F, B, S, f
<1>5. N * E \in Nat /\ N * E >= 1
  <2>1. 1 * E <= N * E /\ N * E \in Nat
    <3>1. 1 <= N /\ 1 \in Nat /\ N \in Nat
      BY <1>1
    <3> QED BY <1>1, <3>1, MulOrder
  <2> QED BY <1>1, <2>1
<1>6. G \in Nat \ {0}
  <2>1. 1 * F <= (N * E) * F /\ (N * E) * F \in Nat
    <3> DEFINE M == N * E
    <3>1. 1 <= M /\ 1 \in Nat /\ M \in Nat
      BY <1>5
    <3> HIDE DEF M
    <3>2. 1 * F <= M * F /\ M * F \in Nat
      BY <1>1, <3>1, MulOrder
    <3> QED BY <3>2 DEF M
  <2> QED BY <1>1, <2>1
<1>7. limit * G < 100 * a
  <2> DEFINE L == limit * (N * E)
             v == w * 100
  <2>1. L \in Nat /\ v \in Nat /\ L < v
    BY <1>4, <1>5
  <2>2. L * F = limit * G /\ v * F = 100 * a
    BY <1>1, <1>5
  <2> HIDE DEF L, v
  <2>3. L * F < v * F
    BY <1>1, <2>1, MulOrder
  <2> QED BY <2>2, <2>3
<1>8. S * G <= limit * G
  <2> HIDE DEF G
  <2> QED BY <1>1, <1>4b, <1>6, MulOrder
<1>9. 100 * (B * N) <= S * G
  <2> DEFINE K == (S * F) * E
             b == 100 * B
  <2>1. K \in Nat /\ b \in Nat /\ b <= K
    BY <1>1
  <2>2. K * N = S * G /\ b * N = 100 * (B * N)
    BY <1>1
  <2> HIDE DEF K, b
  <2>3. b * N <= K * N
    BY <1>1, <2>1, MulOrder
  <2> QED BY <2>2, <2>3
<1>10. B * N < a
  <2>1. B * N \in Nat /\ a \in Nat /\ S * G \in Nat /\ limit * G \in Nat
    BY <1>1, <1>6
  <2> DEFINE x == B * N
             y == S * G
             z == limit * G
  <2> HIDE DEF x, y, z, a
  <2>2. x \in Nat /\ a \in Nat /\ y \in Nat /\ z \in Nat /\ z < 100 * a /\ y <= z /\ 100 * x <= y
    BY <1>7, <1>8, <1>9, <2>1 DEF x, y, z
  <2>3. x < a
    BY <2>2
  <2> QED BY <2>3 DEF x
<1>11. N < Pow2[f]
  <2>1. Pow2[f] \in Nat /\ N \in Nat
    BY <1>1, <1>2, Pow2Facts
  <2>2. N * B \in Nat /\ Pow2[f] * B \in Nat /\ B * N = N * B /\ a \in Nat
    BY <1>1, <2>1
  <2>3. N * B < Pow2[f] * B
    BY <1>2, <1>10, <2>2
  <2> QED BY <1>1, <2>1, <2>3, MulOrder
<1>12. ~ (f <= e)
  <2> SUFFICES ASSUME f <= e PROVE FALSE
    OBVIOUS
  <2>1. Pow2[f] <= Pow2[e] /\ Pow2[f] \in Nat /\ Pow2[e] \in Nat
    BY <1>2, <1>4a, Pow2Mono, Pow2Facts
  <2> QED BY <1>4a, <1>11, <2>1
<1> QED BY <1>2, <1>4a, <1>12 DEF f

\* A table that is rehashing has a table 0.
LEMMA RehashingRoom ==
  ASSUME NEW h, NEW X, NEW p, Has(h, X, p), IsRehashing(h)
  PROVE  Room(h, X, p) /\ h.exp[1] # -1
<1>1. PICK e0, e1, T0, T1, r : h = Mk(e0, e1, T0, T1, r, p) /\ Sound(e0, e1, T0, T1, r)
  BY GoodParts
<1>2. r # -1 /\ h.exp[0] = e0 /\ h.exp[1] = e1
  BY <1>1, MkFields, MkFacts
<1>3. e0 \in Exps /\ r \in -1 .. NumBuckets(e0) - 1 /\ e1 # -1
  BY <1>1, <1>2 DEF Sound
<1>4. e0 # -1
  BY <1>2, <1>3, NumBucketsFacts
<1> QED BY <1>2, <1>3, <1>4 DEF Room

\* Nothing is lost when nothing changes.
LEMMA KeepsItself ==
  ASSUME NEW h, NEW X, NEW p, Has(h, X, p), NEW D
  PROVE  Keeps(h, h, D)
<1>1. PICK e0, e1, T0, T1, r : h = Mk(e0, e1, T0, T1, r, p) /\ Sound(e0, e1, T0, T1, r)
  BY GoodParts
<1>2. KeepsTable(T0, T0, D) /\ KeepsTable(T1, T1, D)
  BY <1>1, KeepsSame DEF Sound
<1> QED BY <1>1, <1>2, KeepsBoth

\* A shrink that is turned back keeps the entries; it is not while someone iterates.
LEMMA AbortShrinkFacts ==
  ASSUME NEW h, NEW X, NEW p, Has(h, X, p), IsRehashing(h)
  PROVE  /\ Room(AbortShrinkIfNeeded(h), X, p)
         /\ iter.on => AbortShrinkIfNeeded(h) = h
<1>0. p \in Nat
  BY GoodParts
<1>1. PICK e0, e1, T0, T1, r : /\ h = Mk(e0, e1, T0, T1, r, p)
                               /\ Sound(e0, e1, T0, T1, r) /\ X = Stored(T0) \cup Stored(T1)
  BY GoodParts
<1>2. Room(h, X, p) /\ e0 # -1 /\ e1 # -1
  BY <1>1, RehashingRoom, MkFields DEF Room
<1> DEFINE z == 0
           g == Mk(e1, e0, T1, T0, z, p)
<1>3. [SwapTables(h) EXCEPT !.rehash = 0] = g
  <2> DEFINE s == Mk(e1, e0, T1, T0, r, p)
  <2>1. SwapTables(h) = s
    BY <1>1, MkSwap
  <2>2. SetRehash(s, z) = g
    <3> HIDE DEF z
    <3> QED BY MkSet
  <2> HIDE DEF s, g
  <2> QED BY <2>1, <2>2 DEF SetRehash
<1>4. Room(g, X, p)
  <2>1. Sound(e1, e0, T1, T0, z)
    <3>1. NumBuckets(e1) \in Nat /\ NumBuckets(e1) >= 1
      BY <1>1, <1>2, NumBucketsFacts DEF Sound
    <3>2. z \in -1 .. NumBuckets(e1) - 1 /\ z # -1
      BY <3>1
    <3>3. \A i \in 0 .. z - 1 : T1[i] = EmptyChain
      OBVIOUS
    <3>4. Stored(T1) \cap Stored(T0) = {}
      BY <1>1 DEF Sound
    <3> HIDE DEF z
    <3> QED BY <1>1, <1>2, <3>2, <3>3, <3>4 DEF Sound
  <2>2. Has(g, Stored(T1) \cup Stored(T0), p)
    <3> HIDE DEF z
    <3> QED BY <1>0, <2>1, MkGood
  <2>3. Stored(T1) \cup Stored(T0) = X
    BY <1>1
  <2>4. g.exp[0] = e1
    <3> HIDE DEF z
    <3> QED BY MkFields
  <2> HIDE DEF g
  <2> QED BY <1>2, <2>2, <2>3, <2>4 DEF Room
<1> HIDE DEF g
<1> QED BY <1>2, <1>3, <1>4 DEF AbortShrinkIfNeeded

\* Making room keeps the entries; their places too while someone iterates.
LEMMA ExpandFacts ==
  ASSUME NEW h, NEW X, NEW p, Has(h, X, p), NEW allowed
  PROVE  /\ Room(ExpandIfNeeded(h, allowed), X, p)
         /\ iter.on => Keeps(h, ExpandIfNeeded(h, allowed), {})
<1>1. CASE IsRehashing(h)
  <2>1. Room(h, X, p) /\ Keeps(h, h, {})
    BY <1>1, RehashingRoom, KeepsItself
  <2>2. Room(AbortShrinkIfNeeded(h), X, p) /\ (iter.on => AbortShrinkIfNeeded(h) = h)
    BY <1>1, AbortShrinkFacts
  <2> QED BY <1>1, <2>1, <2>2 DEF ExpandIfNeeded
<1>2. CASE ~ IsRehashing(h)
  <2> DEFINE limit == IF policy = "ALLOW" THEN MaxFillSoft ELSE MaxFillHard
             u == Used(h, 0)
             w == u + 1
             e == h.exp[0]
  <2>1. PICK e0, e1, T0, T1, r : /\ h = Mk(e0, e1, T0, T1, r, p)
                                 /\ Sound(e0, e1, T0, T1, r) /\ X = Stored(T0) \cup Stored(T1)
    BY GoodParts
  <2>2. e = e0 /\ e \in Exps /\ GoodTable(T0, e) /\ u = Cardinality(Stored(T0))
    BY <2>1, MkFields, MkFacts DEF Sound
  <2>3. u \in Nat /\ u <= Cardinality(Elems) /\ Cardinality(Elems) \in Nat
    BY <2>2, TableFacts, HashAssumption, FS_CardinalityType
  <2>4. limit \in Nat /\ MaxFillSoft <= limit
    BY FillAssumption
  <2>5. ExpandIfNeeded(h, allowed) = IF w * 100 <= limit * Capacity(e) THEN h ELSE Resize(h, w, allowed)
    BY <1>2 DEF ExpandIfNeeded
  <2> HIDE DEF limit, u
  <2>6. w \in Nat \ {0} /\ w # 0 /\ w <= Cardinality(Elems) + 1
    BY <2>3
  <2>7. Fits(w)
    BY <2>6, FitsFacts
  <2> HIDE DEF w, e
  <2>8. CASE w * 100 <= limit * Capacity(e)
    <3>1. e # -1
      <4> SUFFICES ASSUME e = -1 PROVE FALSE
        OBVIOUS
      <4>1. Capacity(e) = 0
        <5>1. NumBuckets(e) = 0 /\ EntriesPerBucket \in Nat
          BY <2>2, NumBucketsFacts, BucketFacts
        <5> QED BY <5>1 DEF Capacity
      <4> QED BY <2>4, <2>6, <2>8, <4>1
    <3> QED BY <2>5, <2>8, <3>1, KeepsItself DEF Room, e
  <2>9. CASE ~ (w * 100 <= limit * Capacity(e))
    <3>1. w = IF w = 0 THEN 1 ELSE w
      BY <2>6
    <3>2. /\ Room(Resize(h, w, allowed), X, p)
          /\ h.exp[0] <= NextBucketExp(w) => Keeps(h, Resize(h, w, allowed), {})
      BY <1>2, <2>7, <3>1, ResizeFacts
    <3>3. e <= NextBucketExp(w)
      <4>1. NextBucketExp(w) \in Nat
        BY <2>6, <2>7, NextBucketExpFacts
      <4>2. CASE e = -1
        BY <4>1, <4>2
      <4>3. CASE e # -1
        BY <2>2, <2>4, <2>6, <2>7, <2>9, <4>3, GrowsOnly
      <4> QED BY <4>2, <4>3
    <3> QED BY <2>5, <2>9, <3>2, <3>3 DEF e
  <2> QED BY <2>8, <2>9
<1> QED BY <1>1, <1>2

\* An automatic shrink keeps the entries; there is none while rehashing is paused.
LEMMA ShrinkFacts ==
  ASSUME NEW h, NEW X, NEW p, Has(h, X, p)
  PROVE  /\ Has(ShrinkIfNeeded(h), X, p)
         /\ p # 0 => ShrinkIfNeeded(h) = h
<1>1. h.pause = p /\ p \in Nat
  BY GoodParts DEF Has
<1>2. p # 0 => ShrinkIfNeeded(h) = h
  <2>1. p # 0 => h.pause > 0
    BY <1>1
  <2> QED BY <2>1, Zenon DEF ShrinkIfNeeded
<1>3. ~ IsRehashing(h) => Has(Resize(h, Used(h, 0), TRUE), X, p)
  <2> SUFFICES ASSUME ~ IsRehashing(h) PROVE Has(Resize(h, Used(h, 0), TRUE), X, p)
    OBVIOUS
  <2> DEFINE u == Used(h, 0)
             w == IF u = 0 THEN 1 ELSE u
  <2>1. PICK e0, e1, T0, T1, r : h = Mk(e0, e1, T0, T1, r, p) /\ Sound(e0, e1, T0, T1, r)
    BY GoodParts
  <2>2. e0 \in Exps /\ GoodTable(T0, e0) /\ u = Cardinality(Stored(T0))
    BY <2>1, MkFacts DEF Sound
  <2>3. u \in Nat /\ u <= Cardinality(Elems) + 1
    <3>1. u \in Nat /\ u <= Cardinality(Elems) /\ Cardinality(Elems) \in Nat
      BY <2>2, TableFacts, HashAssumption, FS_CardinalityType
    <3> QED BY <3>1
  <2>4. Fits(u)
    BY <2>3, FitsFacts
  <2> HIDE DEF u
  <2>5. Room(Resize(h, u, TRUE), X, p)
    BY <2>4, ResizeFacts
  <2> QED BY <2>5 DEF Room, u
<1> QED BY <1>2, <1>3 DEF ShrinkIfNeeded

-----------------------------------------------------------------------------
(* Lookup, insertion and removal.                                          *)

\* findBucket() finds an entry in the table that holds it.
LEMMA FoundInFacts ==
  ASSUME NEW h, NEW X, NEW p, Has(h, X, p), NEW t \in Tables, NEW x \in Elems
  PROVE  FoundIn(h, t, x) <=> x \in Held(h, t)
<1>1. PICK e0, e1, T0, T1, r : h = Mk(e0, e1, T0, T1, r, p) /\ Sound(e0, e1, T0, T1, r)
  BY GoodParts
<1> DEFINE e == IF t = 0 THEN e0 ELSE e1
           T == IF t = 0 THEN T0 ELSE T1
           i == Hash[x] % NumBuckets(e)
<1>2. h.exp[t] = e /\ h.tab[t] = T /\ Held(h, t) = Stored(T) /\ h.rehash = r
  BY <1>1, MkFields, MkFacts DEF Tables
<1>3. e \in Exps /\ GoodTable(T, e) /\ (t = 0 => \A j \in 0 .. r - 1 : T[j] = EmptyChain)
      /\ r \in -1 .. NumBuckets(e0) - 1
  BY <1>1 DEF Sound
<1> HIDE DEF e, T
<1>4. BucketOf(h, t, x) = i
  BY <1>2 DEF BucketOf
<1>5. Used(h, t) = Cardinality(Stored(T)) /\ (Cardinality(Stored(T)) = 0 <=> Stored(T) = {})
      /\ Cardinality(Stored(T)) \in Nat
  BY <1>2, <1>3, TableFacts DEF Used
<1>6. ASSUME FoundIn(h, t, x) PROVE x \in Stored(T)
  <2>1. Stored(T) # {} /\ x \in Entries(T[i])
    BY <1>2, <1>4, <1>5, <1>6 DEF FoundIn
  <2>2. e # -1
    BY <1>3, <2>1, TableFacts
  <2>3. i \in Indices(e)
    BY <1>3, <2>2, HashFacts
  <2> QED BY <1>3, <2>1, <2>3, TableFacts
<1>7. ASSUME x \in Stored(T) PROVE FoundIn(h, t, x)
  <2>1. e # -1 /\ i \in Indices(e) /\ x \in Entries(T[i])
    BY <1>3, <1>7, TableFacts
  <2>2. Used(h, t) > 0
    BY <1>5, <1>7
  <2>3. ~ (t = 0 /\ i < r)
    <3> SUFFICES ASSUME t = 0, i < r PROVE FALSE
      OBVIOUS
    <3>1. NumBuckets(e) \in Nat /\ NumBuckets(e0) \in Nat
      BY <1>1, <1>3, NumBucketsFacts DEF Sound
    <3>2. i \in 0 .. r - 1
      <4>1. i \in Int /\ i >= 0 /\ r \in Int
        BY <1>3, <2>1, <3>1 DEF Indices
      <4> HIDE DEF i
      <4> QED BY <4>1
    <3>3. T[i] = EmptyChain
      BY <1>3, <3>2
    <3> QED BY <2>1, <3>3, EmptyChainFacts
  <2> HIDE DEF i
  <2> QED BY <1>2, <1>4, <2>1, <2>2, <2>3 DEF FoundIn
<1> QED BY <1>2, <1>6, <1>7

\* It finds every entry there is, and no other.
LEMMA FoundFacts ==
  ASSUME NEW h, NEW X, NEW p, Has(h, X, p), NEW x \in Elems
  PROVE  Found(h, x) <=> x \in X
<1>1. X = Held(h, 0) \cup Held(h, 1)
  BY DEF Has, Contents
<1>2. \A t \in Tables : FoundIn(h, t, x) <=> x \in Held(h, t)
  BY FoundInFacts
<1> QED BY <1>1, <1>2 DEF Found, Tables

\* Keeping is transitive.
LEMMA KeepsOn ==
  ASSUME NEW h, NEW g, NEW f, NEW D, Keeps(h, g, {}), Keeps(g, f, D),
         \A t \in Tables : \A j \in DOMAIN h.tab[t] : h.tab[t][j] \in Chains,
         \A t \in Tables : \A j \in DOMAIN g.tab[t] : g.tab[t][j] \in Chains,
         \A t \in Tables : \A j \in DOMAIN f.tab[t] : f.tab[t][j] \in Chains
  PROVE  Keeps(h, f, D)
<1> SUFFICES ASSUME NEW t \in Tables, NEW j \in DOMAIN h.tab[t]
             PROVE  j \in DOMAIN f.tab[t] /\ KeepsChain(h.tab[t][j], f.tab[t][j], D)
  BY DEF Keeps, KeepsTable
<1> DEFINE c == h.tab[t][j]
           d == g.tab[t][j]
           b == f.tab[t][j]
<1>1. j \in DOMAIN g.tab[t] /\ KeepsChain(c, d, {})
  BY DEF Keeps, KeepsTable
<1>2. j \in DOMAIN f.tab[t] /\ KeepsChain(d, b, D)
  BY <1>1 DEF Keeps, KeepsTable
<1>3. c \in Chains /\ d \in Chains /\ b \in Chains
  BY <1>1, <1>2
<1> HIDE DEF c, d, b
<1>4. KeepsChain(c, b, D)
  <2> SUFFICES ASSUME NEW k \in Slots(c), Slot(c, k) # None, Slot(c, k) \notin D
               PROVE  \E l \in Slots(b) : k <= l /\ Slot(b, l) = Slot(c, k)
    BY DEF KeepsChain
  <2>1. PICK m \in Slots(d) : k <= m /\ Slot(d, m) = Slot(c, k)
    BY <1>1 DEF KeepsChain
  <2>2. PICK l \in Slots(b) : m <= l /\ Slot(b, l) = Slot(d, m)
    BY <1>2, <2>1 DEF KeepsChain
  <2>3. k \in Nat /\ m \in Nat /\ l \in Nat
    <3>1. ASSUME NEW a \in Chains, NEW s \in Slots(a) PROVE s \in Nat
      <4>1. Len(a) \in Nat /\ EntriesPerBucket \in Nat
        BY ChainFacts, BucketFacts
      <4>2. Len(a) * EntriesPerBucket \in Nat
        BY <4>1
      <4> QED BY <4>2 DEF Slots
    <3> QED BY <1>3, <3>1
  <2> QED BY <2>1, <2>2, <2>3
<1> QED BY <1>2, <1>4 DEF c, b

\* The chains of a sound hash table.
LEMMA GoodChains ==
  ASSUME NEW h, NEW X, NEW p, Has(h, X, p)
  PROVE  /\ \A t \in Tables : GoodTable(h.tab[t], h.exp[t]) /\ h.exp[t] \in Exps
         /\ \A t \in Tables : \A j \in DOMAIN h.tab[t] : h.tab[t][j] \in Chains /\ GoodChain(h.tab[t][j])
         /\ \A t \in Tables : Held(h, t) = Stored(h.tab[t])
         /\ X \subseteq Elems
<1>1. PICK e0, e1, T0, T1, r : h = Mk(e0, e1, T0, T1, r, p) /\ Sound(e0, e1, T0, T1, r)
  BY GoodParts
<1>2. h.tab[0] = T0 /\ h.tab[1] = T1 /\ h.exp[0] = e0 /\ h.exp[1] = e1
  BY <1>1, MkFields
<1>3. \A t \in Tables : GoodTable(h.tab[t], h.exp[t]) /\ h.exp[t] \in Exps
  BY <1>1, <1>2 DEF Sound, Tables
<1>4. \A t \in Tables : \A j \in DOMAIN h.tab[t] : h.tab[t][j] \in Chains /\ GoodChain(h.tab[t][j])
  <2> TAKE t \in Tables
  <2>1. GoodTable(h.tab[t], h.exp[t])
    BY <1>3
  <2> QED BY <2>1 DEF GoodTable
<1>5. \A t \in Tables : Held(h, t) = Stored(h.tab[t])
  BY DEF Held, Stored
<1>6. \A t \in Tables : Stored(h.tab[t]) \subseteq Elems
  BY <1>3, TableFacts
<1>7. X = Held(h, 0) \cup Held(h, 1)
  BY DEF Has, Contents
<1> QED BY <1>3, <1>4, <1>5, <1>6, <1>7 DEF Tables

\* Another chain in the place of one keeps the others.
LEMMA KeepsWith ==
  ASSUME NEW e \in Exps, NEW T, GoodTable(T, e), NEW i \in Indices(e), NEW d, NEW D, KeepsChain(T[i], d, D)
  PROVE  KeepsTable(T, With(T, i, d), D)
<1>1. T \in [Indices(e) -> Chains] /\ DOMAIN T = Indices(e)
  BY DEF GoodTable
<1> DEFINE R == With(T, i, d)
<1>2. DOMAIN R = Indices(e) /\ R[i] = d /\ \A j \in Indices(e) : j # i => R[j] = T[j]
  BY <1>1 DEF With
<1> HIDE DEF R
<1>3. ASSUME NEW j \in Indices(e) PROVE KeepsChain(T[j], R[j], D)
  <2>1. CASE j = i
    BY <1>2, <2>1
  <2>2. CASE j # i
    BY <1>1, <1>2, <2>2, KeepsSame
  <2> QED BY <2>1, <2>2
<1>4. KeepsTable(T, R, D)
  BY <1>1, <1>2, <1>3 DEF KeepsTable
<1> QED BY <1>4 DEF R

\* An assignment to a chain of table t.
SetChain(h, t, i, d) == [h EXCEPT !.tab[t][i] = d]

\* It is one to the table.
LEMMA MkChain ==
  ASSUME NEW e0, NEW e1, NEW T0, NEW T1, NEW r, NEW p, NEW i, NEW d, NEW h, h = Mk(e0, e1, T0, T1, r, p)
  PROVE  /\ SetChain(h, 0, i, d) = Mk(e0, e1, With(T0, i, d), T1, r, p)
         /\ SetChain(h, 1, i, d) = Mk(e0, e1, T0, With(T1, i, d), r, p)
<1>1. h.tab[0] = T0 /\ h.tab[1] = T1
  BY MkFields
<1>2. SetChain(h, 0, i, d) = SetTab0(h, With(T0, i, d))
  BY <1>1 DEF SetChain, SetTab0, With
<1>3. SetChain(h, 1, i, d) = SetTab1(h, With(T1, i, d))
  BY <1>1 DEF SetChain, SetTab1, With
<1> QED BY <1>2, <1>3, MkSet

\* An entry that is added moves no other backwards.
LEMMA KeepsPut ==
  ASSUME NEW c, GoodChain(c), NEW x \in Elems, x \notin Entries(c)
  PROVE  KeepsChain(c, Put(c, x), {})
<1> DEFINE d == Put(c, x)
<1>1. \A k \in Slots(c) : Slot(c, k) # None => \E m \in Slots(d) : m >= k /\ Slot(d, m) = Slot(c, k)
  BY PutFacts
<1>2. c \in Chains /\ d \in Chains
  BY PutFacts DEF GoodChain
<1> HIDE DEF d
<1>3. \A k \in Slots(c), m \in Slots(d) : m >= k => k <= m
  <2>1. Len(c) \in Nat /\ Len(d) \in Nat /\ EntriesPerBucket \in Nat
    BY <1>2, ChainFacts, BucketFacts
  <2>2. Len(c) * EntriesPerBucket \in Nat /\ Len(d) * EntriesPerBucket \in Nat
    BY <2>1
  <2> QED BY <2>2 DEF Slots
<1>4. KeepsChain(c, d, {})
  BY <1>1, <1>3 DEF KeepsChain
<1> QED BY <1>4 DEF d

\* An entry put into table 1 of a rehashing, or into table 0 otherwise.
LEMMA PutHash ==
  ASSUME NEW h, NEW X, NEW p, Room(h, X, p), NEW x \in Elems, x \notin X,
         NEW t, t = IF IsRehashing(h) THEN 1 ELSE 0,
         NEW i, i = BucketOf(h, t, x), NEW g, g = SetChain(h, t, i, Put(h.tab[t][i], x))
  PROVE  Has(g, X \cup {x}, p) /\ Keeps(h, g, {})
<1>0. p \in Nat /\ Has(h, X, p) /\ h.exp[0] # -1
  BY GoodParts DEF Room
<1>1. PICK e0, e1, T0, T1, r : /\ h = Mk(e0, e1, T0, T1, r, p)
                               /\ Sound(e0, e1, T0, T1, r) /\ X = Stored(T0) \cup Stored(T1)
  BY <1>0, GoodParts
<1>2. /\ h.exp[0] = e0 /\ h.exp[1] = e1 /\ h.tab[0] = T0 /\ h.tab[1] = T1
      /\ (IsRehashing(h) <=> r # -1)
  BY <1>1, MkFields, MkFacts
<1>3. /\ e0 \in Exps /\ e1 \in Exps /\ e0 # -1 /\ GoodTable(T0, e0) /\ GoodTable(T1, e1)
      /\ Stored(T0) \cap Stored(T1) = {} /\ (e1 = -1 <=> r = -1) /\ r \in -1 .. NumBuckets(e0) - 1
  BY <1>0, <1>1, <1>2 DEF Sound
<1>4. CASE r = -1
  <2>1. t = 0 /\ i = Hash[x] % NumBuckets(e0)
    BY <1>2, <1>4 DEF BucketOf
  <2> DEFINE d == Put(T0[i], x)
             R == With(T0, i, d)
  <2>2. i \in Indices(e0) /\ GoodTable(R, e0) /\ Stored(R) = Stored(T0) \cup {x}
    BY <1>1, <1>3, <2>1, PutTable
  <2>3. GoodChain(T0[i]) /\ x \notin Entries(T0[i])
    BY <1>1, <1>3, <2>2, TableFacts DEF GoodTable
  <2>4. KeepsChain(T0[i], d, {})
    BY <2>3, KeepsPut
  <2> HIDE DEF d
  <2>5. KeepsTable(T0, R, {}) /\ KeepsTable(T1, T1, {})
    BY <1>3, <2>2, <2>4, KeepsWith, KeepsSame
  <2>6. g = Mk(e0, e1, R, T1, r, p)
    <3>1. g = SetChain(h, 0, i, d)
      BY <1>2, <2>1 DEF d
    <3> QED BY <1>1, <3>1, MkChain
  <2> HIDE DEF R
  <2>7. Sound(e0, e1, R, T1, r)
    <3>1. Stored(R) \cap Stored(T1) = {}
      BY <1>1, <1>3, <2>2
    <3>2. \A j \in 0 .. r - 1 : R[j] = EmptyChain
      BY <1>4
    <3> QED BY <1>3, <2>2, <3>1, <3>2 DEF Sound
  <2>8. Has(g, Stored(R) \cup Stored(T1), p)
    BY <1>0, <2>6, <2>7, MkGood
  <2>9. Stored(R) \cup Stored(T1) = X \cup {x}
    BY <1>1, <2>2
  <2>10. Keeps(h, g, {})
    BY <1>1, <2>5, <2>6, KeepsBoth
  <2> QED BY <2>8, <2>9, <2>10
<1>5. CASE r # -1
  <2>1. t = 1 /\ i = Hash[x] % NumBuckets(e1)
    BY <1>2, <1>5 DEF BucketOf
  <2> DEFINE d == Put(T1[i], x)
             R == With(T1, i, d)
  <2>2. i \in Indices(e1) /\ GoodTable(R, e1) /\ Stored(R) = Stored(T1) \cup {x}
    BY <1>1, <1>3, <1>5, <2>1, PutTable
  <2>3. GoodChain(T1[i]) /\ x \notin Entries(T1[i])
    BY <1>1, <1>3, <2>2, TableFacts DEF GoodTable
  <2>4. KeepsChain(T1[i], d, {})
    BY <2>3, KeepsPut
  <2> HIDE DEF d
  <2>5. KeepsTable(T0, T0, {}) /\ KeepsTable(T1, R, {})
    BY <1>3, <2>2, <2>4, KeepsWith, KeepsSame
  <2>6. g = Mk(e0, e1, T0, R, r, p)
    <3>1. g = SetChain(h, 1, i, d)
      BY <1>2, <2>1 DEF d
    <3> QED BY <1>1, <3>1, MkChain
  <2> HIDE DEF R
  <2>7. Sound(e0, e1, T0, R, r)
    <3>1. Stored(T0) \cap Stored(R) = {}
      BY <1>1, <1>3, <2>2
    <3>2. \A j \in 0 .. r - 1 : T0[j] = EmptyChain
      BY <1>1 DEF Sound
    <3> QED BY <1>3, <2>2, <3>1, <3>2 DEF Sound
  <2>8. Has(g, Stored(T0) \cup Stored(R), p)
    BY <1>0, <2>6, <2>7, MkGood
  <2>9. Stored(T0) \cup Stored(R) = X \cup {x}
    BY <1>1, <2>2
  <2>10. Keeps(h, g, {})
    BY <1>1, <2>5, <2>6, KeepsBoth
  <2> QED BY <2>8, <2>9, <2>10
<1> QED BY <1>4, <1>5

\* insert() adds the entry; no other entry moves backwards while someone iterates.
LEMMA InsertFacts ==
  ASSUME NEW h, NEW X, NEW p, Has(h, X, p), NEW x \in Elems, x \notin X, NEW allowed
  PROVE  /\ Has(Insert(h, x, allowed), X \cup {x}, p)
         /\ iter.on /\ p # 0 => Keeps(h, Insert(h, x, allowed), {})
<1> DEFINE f == ExpandIfNeeded(h, allowed)
           w == "AVOID"
           g == RehashStepIf(f, w)
           t == IF IsRehashing(g) THEN 1 ELSE 0
           i == BucketOf(g, t, x)
           s == SetChain(g, t, i, Put(g.tab[t][i], x))
<1>1. Room(f, X, p) /\ (iter.on => Keeps(h, f, {}))
  BY ExpandFacts
<1>2. Insert(h, x, allowed) = s
  BY DEF Insert, SetChain
<1> HIDE DEF f, w
<1>3. Room(g, X, p) /\ (p # 0 => g = f)
  BY <1>1, RehashStepIfFacts DEF Room
<1> HIDE DEF g
<1>4. Has(s, X \cup {x}, p) /\ Keeps(g, s, {})
  BY <1>3, PutHash
<1> HIDE DEF s
<1>5. ASSUME iter.on, p # 0 PROVE Keeps(h, s, {})
  <2>1. Keeps(h, g, {}) /\ Has(g, X, p)
    BY <1>1, <1>3, <1>5 DEF Room
  <2>2. \A q \in Tables : \A j \in DOMAIN h.tab[q] : h.tab[q][j] \in Chains
    BY GoodChains
  <2>3. \A q \in Tables : \A j \in DOMAIN g.tab[q] : g.tab[q][j] \in Chains
    BY <2>1, GoodChains
  <2>4. \A q \in Tables : \A j \in DOMAIN s.tab[q] : s.tab[q][j] \in Chains
    BY <1>4, GoodChains
  <2> QED BY <1>4, <2>1, <2>2, <2>3, <2>4, KeepsOn
<1> QED BY <1>2, <1>4, <1>5

\* Take(), with rehashing paused when n is 1.
Paused(n) == n = 1
TakeAt(c, x, n) == Take(c, x, Paused(n))

\* An entry taken out of its bucket; the others keep their places while rehashing is paused.
LEMMA TakeTable ==
  ASSUME NEW e \in Exps, NEW T, GoodTable(T, e), NEW x \in Stored(T), NEW n,
         NEW i, i = Hash[x] % NumBuckets(e), NEW d, d = TakeAt(T[i], x, n)
  PROVE  /\ i \in Indices(e) /\ x \in Entries(T[i])
         /\ GoodTable(With(T, i, d), e) /\ Stored(With(T, i, d)) = Stored(T) \ {x}
         /\ \A j \in Indices(e) : j # i => With(T, i, d)[j] = T[j]
         /\ Paused(n) => KeepsTable(T, With(T, i, d), {x})
<1> DEFINE c == T[i]
<1>1. i \in Indices(e) /\ x \in Entries(c)
  BY TableFacts
<1>2. GoodChain(c) /\ Entries(c) \subseteq Stored(T)
  BY <1>1, TableFacts DEF GoodTable
<1>2a. \A y \in Entries(c) : Hash[y] % NumBuckets(e) = i
  BY <1>1 DEF GoodTable
<1>3. d = Take(c, x, Paused(n))
  BY DEF TakeAt
<1> HIDE DEF c
<1>4. /\ GoodChain(d) /\ Entries(d) = Entries(c) \ {x}
      /\ Paused(n) => /\ Len(d) = Len(c)
                   /\ \A k \in Slots(c) : Slot(c, k) # x => Slot(d, k) = Slot(c, k)
  <2> DEFINE paused == Paused(n)
  <2>1. d = Take(c, x, paused) /\ paused \in BOOLEAN
    BY <1>3 DEF Paused
  <2> HIDE DEF paused
  <2>2. /\ GoodChain(Take(c, x, paused)) /\ Entries(Take(c, x, paused)) = Entries(c) \ {x}
        /\ paused => /\ Len(Take(c, x, paused)) = Len(c)
                     /\ \A k \in Slots(c) : Slot(c, k) # x => Slot(Take(c, x, paused), k) = Slot(c, k)
    BY <1>1, <1>2, <2>1, TakeFacts
  <2>3. Paused(n) => paused
    BY <1>3 DEF paused
  <2> QED BY <2>1, <2>2, <2>3
<1>5. \A y \in Entries(d) : Hash[y] % NumBuckets(e) = i
  BY <1>2a, <1>4
<1>6. /\ GoodTable(With(T, i, d), e)
      /\ Stored(With(T, i, d)) = (Stored(T) \ Entries(c)) \cup Entries(d)
      /\ \A j \in Indices(e) : j # i => With(T, i, d)[j] = T[j]
  BY <1>1, <1>4, <1>5, ReplaceChain DEF c
<1>7. Stored(With(T, i, d)) = Stored(T) \ {x}
  BY <1>1, <1>2, <1>4, <1>6
<1>8. ASSUME Paused(n) PROVE KeepsChain(c, d, {x})
  <2>1. Slots(d) = Slots(c)
    BY <1>4, <1>8 DEF Slots
  <2>2. \A k \in Slots(c) : k <= k
    <3>1. Len(c) \in Nat /\ EntriesPerBucket \in Nat
      BY <1>2, ChainFacts, BucketFacts DEF GoodChain
    <3>2. Len(c) * EntriesPerBucket \in Nat
      BY <3>1
    <3> QED BY <3>2 DEF Slots
  <2> QED BY <1>4, <1>8, <2>1, <2>2 DEF KeepsChain
<1>9. Paused(n) => KeepsTable(T, With(T, i, d), {x})
  BY <1>1, <1>8, KeepsWith DEF c
<1> QED BY <1>1, <1>6, <1>7, <1>9 DEF c

\* Sets with one element less, and of one element.
Minus(X, x) == X \ {x}
Single(x) == {x}

\* The same in a hash table.
LEMMA TakeHash ==
  ASSUME NEW h, NEW X, NEW p, Has(h, X, p), NEW t \in Tables, NEW x \in Held(h, t),
         NEW i, i = BucketOf(h, t, x), NEW n,
         NEW g, g = SetChain(h, t, i, TakeAt(h.tab[t][i], x, n))
  PROVE  Has(g, Minus(X, x), p) /\ (Paused(n) => Keeps(h, g, Single(x)))
<1> DEFINE Y == Minus(X, x)
           D == Single(x)
<1>00. Y = X \ {x} /\ D = {x}
  BY DEF Minus, Single
<1> HIDE DEF Y, D
<1>0. p \in Nat
  BY GoodParts
<1>1. PICK e0, e1, T0, T1, r : /\ h = Mk(e0, e1, T0, T1, r, p)
                               /\ Sound(e0, e1, T0, T1, r) /\ X = Stored(T0) \cup Stored(T1)
  BY GoodParts
<1>2. /\ h.exp[0] = e0 /\ h.exp[1] = e1 /\ h.tab[0] = T0 /\ h.tab[1] = T1
      /\ Held(h, 0) = Stored(T0) /\ Held(h, 1) = Stored(T1)
  BY <1>1, MkFields, MkFacts
<1>3. /\ e0 \in Exps /\ e1 \in Exps /\ GoodTable(T0, e0) /\ GoodTable(T1, e1)
      /\ Stored(T0) \cap Stored(T1) = {} /\ (e1 = -1 <=> r = -1) /\ r \in -1 .. NumBuckets(e0) - 1
      /\ \A j \in 0 .. r - 1 : T0[j] = EmptyChain
  BY <1>1 DEF Sound
<1>4. CASE t = 0
  <2> DEFINE d == TakeAt(T0[i], x, n)
             R == With(T0, i, d)
  <2>1. x \in Stored(T0) /\ i = Hash[x] % NumBuckets(e0)
    BY <1>2, <1>4 DEF BucketOf
  <2>2. /\ i \in Indices(e0) /\ x \in Entries(T0[i])
        /\ GoodTable(R, e0) /\ Stored(R) = Stored(T0) \ {x}
        /\ \A j \in Indices(e0) : j # i => R[j] = T0[j]
        /\ Paused(n) => KeepsTable(T0, R, {x})
    BY <1>3, <2>1, TakeTable
  <2>3. g = Mk(e0, e1, R, T1, r, p)
    <3>1. g = SetChain(h, 0, i, d)
      BY <1>2, <1>4
    <3> HIDE DEF d
    <3> QED BY <1>1, <3>1, MkChain
  <2> HIDE DEF R
  <2>4. Sound(e0, e1, R, T1, r)
    <3>1. Stored(R) \cap Stored(T1) = {}
      BY <1>3, <2>2
    <3>2. ASSUME NEW j \in 0 .. r - 1 PROVE R[j] = EmptyChain
      <4>1. NumBuckets(e0) \in Nat
        BY <1>3, NumBucketsFacts
      <4>2. j \in Indices(e0)
        BY <1>3, <4>1 DEF Indices
      <4>3. T0[j] = EmptyChain
        BY <1>3
      <4>4. j # i
        BY <2>2, <4>3, EmptyChainFacts
      <4> QED BY <2>2, <4>2, <4>3, <4>4
    <3> QED BY <1>3, <2>2, <3>1, <3>2 DEF Sound
  <2>5. Has(g, Stored(R) \cup Stored(T1), p)
    BY <1>0, <2>3, <2>4, MkGood
  <2>6. Stored(R) \cup Stored(T1) = Y
    BY <1>00, <1>1, <1>3, <2>1, <2>2
  <2>7. ASSUME Paused(n) PROVE Keeps(h, g, D)
    <3>1. KeepsTable(T0, R, {x}) /\ KeepsTable(T1, T1, {x})
      BY <1>3, <2>2, <2>7, KeepsSame
    <3> QED BY <1>00, <1>1, <2>3, <3>1, KeepsBoth
  <2> QED BY <2>5, <2>6, <2>7 DEF Y, D
<1>5. CASE t = 1
  <2> DEFINE d == TakeAt(T1[i], x, n)
             R == With(T1, i, d)
  <2>1. x \in Stored(T1) /\ i = Hash[x] % NumBuckets(e1)
    BY <1>2, <1>5 DEF BucketOf
  <2>2. /\ i \in Indices(e1) /\ x \in Entries(T1[i])
        /\ GoodTable(R, e1) /\ Stored(R) = Stored(T1) \ {x}
        /\ \A j \in Indices(e1) : j # i => R[j] = T1[j]
        /\ Paused(n) => KeepsTable(T1, R, {x})
    <3>1. e1 \in Exps /\ GoodTable(T1, e1) /\ d = TakeAt(T1[i], x, n)
      BY <1>3
    <3> QED BY <2>1, <3>1, TakeTable
  <2>3. g = Mk(e0, e1, T0, R, r, p)
    <3>1. g = SetChain(h, 1, i, d)
      BY <1>2, <1>5
    <3> HIDE DEF d
    <3> QED BY <1>1, <3>1, MkChain
  <2> HIDE DEF R
  <2>4. Sound(e0, e1, T0, R, r)
    <3>1. Stored(T0) \cap Stored(R) = {}
      BY <1>3, <2>2
    <3> QED BY <1>3, <2>2, <3>1 DEF Sound
  <2>5. Has(g, Stored(T0) \cup Stored(R), p)
    BY <1>0, <2>3, <2>4, MkGood
  <2>6. Stored(T0) \cup Stored(R) = Y
    BY <1>00, <1>1, <1>3, <2>1, <2>2
  <2>7. ASSUME Paused(n) PROVE Keeps(h, g, D)
    <3>1. KeepsTable(T0, T0, {x}) /\ KeepsTable(T1, R, {x})
      BY <1>3, <2>2, <2>7, KeepsSame
    <3> QED BY <1>00, <1>1, <2>3, <3>1, KeepsBoth
  <2> QED BY <2>5, <2>6, <2>7 DEF Y, D
<1> QED BY <1>4, <1>5 DEF Tables, Y, D

\* hashtablePop() removes the entry; the others stay where they are while rehashing is paused.
LEMMA PopFacts ==
  ASSUME NEW h, NEW X, NEW p, Has(h, X, p), NEW x \in X
  PROVE  /\ Has(PopEntry(h, x), X \ {x}, p)
         /\ p # 0 => Keeps(h, PopEntry(h, x), {x})
<1> DEFINE P == {u \in Tables : FoundIn(h, u, x)}
           t == First(P)
           i == BucketOf(h, t, x)
           n == IF h.pause > 0 THEN 1 ELSE 0
           g == SetChain(h, t, i, TakeAt(h.tab[t][i], x, n))
<1>1. PopEntry(h, x) = ShrinkIfNeeded(g)
  <2>1. Take(h.tab[t][i], x, h.pause > 0) = TakeAt(h.tab[t][i], x, n)
    BY DEF TakeAt, Paused
  <2>2. PopEntry(h, x) = ShrinkIfNeeded(SetChain(h, t, i, Take(h.tab[t][i], x, h.pause > 0)))
    BY DEF PopEntry, SetChain
  <2> QED BY <2>1, <2>2
<1>2. x \in Elems /\ X = Held(h, 0) \cup Held(h, 1) /\ h.pause = p /\ p \in Nat
  BY GoodChains, GoodParts DEF Has, Contents
<1>3. \A u \in Tables : FoundIn(h, u, x) <=> x \in Held(h, u)
  BY <1>2, FoundInFacts
<1>4. P \subseteq Nat /\ P # {}
  BY <1>2, <1>3 DEF Tables
<1>5. t \in P
  <2> HIDE DEF P
  <2> QED BY <1>4, FirstIsLeast
<1>6. t \in Tables /\ x \in Held(h, t)
  BY <1>3, <1>5
<1>7. p # 0 => Paused(n)
  BY <1>2 DEF Paused
<1>7a. i = BucketOf(h, t, x) /\ g = SetChain(h, t, i, TakeAt(h.tab[t][i], x, n))
  OBVIOUS
<1> HIDE DEF t, n, i, g
<1> DEFINE Y == Minus(X, x)
           D == Single(x)
<1>7b. Y = X \ {x} /\ D = {x}
  BY DEF Minus, Single
<1>8. Has(g, Y, p) /\ (Paused(n) => Keeps(h, g, D))
  BY <1>6, <1>7a, TakeHash
<1> HIDE DEF Y, D
<1>9. Has(ShrinkIfNeeded(g), Y, p) /\ (p # 0 => ShrinkIfNeeded(g) = g)
  BY <1>8, ShrinkFacts
<1> QED BY <1>1, <1>7, <1>7b, <1>8, <1>9

\* The chains of a table that a scan callback deletes D from.
PurgeChain(c, D) == IF Entries(c) \cap D # {} THEN CompactBucketChain(Without(c, D)) ELSE c
PurgeTable(T, t, W, D) == [i \in DOMAIN T |-> IF <<t, i>> \in W THEN PurgeChain(T[i], D) ELSE T[i]]

\* The entries of D go, and no others.
LEMMA PurgeTableFacts ==
  ASSUME NEW e \in Exps, NEW T, GoodTable(T, e), NEW t, NEW W, NEW D
  PROVE  /\ GoodTable(PurgeTable(T, t, W, D), e)
         /\ Stored(PurgeTable(T, t, W, D)) \subseteq Stored(T)
         /\ Stored(T) \ D \subseteq Stored(PurgeTable(T, t, W, D))
         /\ \A i \in Indices(e) : T[i] = EmptyChain => PurgeTable(T, t, W, D)[i] = EmptyChain
         /\ D = {} => PurgeTable(T, t, W, D) = T
<1> DEFINE R == PurgeTable(T, t, W, D)
<1>1. T \in [Indices(e) -> Chains] /\ DOMAIN T = Indices(e) /\ \A i \in Indices(e) : GoodChain(T[i])
  BY DEF GoodTable
<1>2. ASSUME NEW c, GoodChain(c)
      PROVE  /\ GoodChain(PurgeChain(c, D))
             /\ Entries(PurgeChain(c, D)) \subseteq Entries(c)
             /\ Entries(c) \ D \subseteq Entries(PurgeChain(c, D))
             /\ Entries(c) = {} => PurgeChain(c, D) = c
             /\ D = {} => PurgeChain(c, D) = c
  <2> DEFINE d == Without(c, D)
  <2>1. GoodChain(d) /\ Entries(d) = Entries(c) \ D
    BY <1>2, WithoutFacts
  <2> HIDE DEF d
  <2>2. GoodChain(CompactBucketChain(d)) /\ Entries(CompactBucketChain(d)) = Entries(d)
    BY <2>1, CompactFacts
  <2>3. PurgeChain(c, D) = IF Entries(c) \cap D # {} THEN CompactBucketChain(d) ELSE c
    BY DEF PurgeChain, d
  <2>4. CASE Entries(c) \cap D # {}
    <3>1. PurgeChain(c, D) = CompactBucketChain(d) /\ Entries(c) # {} /\ D # {}
      BY <2>3, <2>4
    <3> QED BY <2>1, <2>2, <3>1
  <2>5. CASE ~ (Entries(c) \cap D # {})
    <3>1. PurgeChain(c, D) = c
      BY <2>3, <2>5
    <3> QED BY <1>2, <3>1
  <2> QED BY <2>4, <2>5
<1>3. R = [i \in Indices(e) |-> IF <<t, i>> \in W THEN PurgeChain(T[i], D) ELSE T[i]]
  BY <1>1 DEF PurgeTable
<1> HIDE DEF R
<1>4. ASSUME NEW i \in Indices(e)
      PROVE  /\ GoodChain(R[i])
             /\ Entries(R[i]) \subseteq Entries(T[i])
             /\ Entries(T[i]) \ D \subseteq Entries(R[i])
             /\ Entries(T[i]) = {} => R[i] = T[i]
             /\ D = {} => R[i] = T[i]
  <2>1. R[i] = PurgeChain(T[i], D) \/ R[i] = T[i]
    BY <1>3
  <2>2. GoodChain(T[i])
    BY <1>1
  <2>3. CASE R[i] = T[i]
    BY <2>2, <2>3
  <2>4. CASE R[i] = PurgeChain(T[i], D)
    BY <1>2, <2>2, <2>4
  <2> QED BY <2>1, <2>3, <2>4
<1>5. DOMAIN R = Indices(e) /\ R = [i \in Indices(e) |-> R[i]]
  BY <1>3
<1>6. GoodTable(R, e)
  <2>1. \A i \in Indices(e) : R[i] \in Chains
    BY <1>4 DEF GoodChain
  <2>2. R \in [Indices(e) -> Chains]
    BY <1>5, <2>1
  <2>3. \A i \in Indices(e) : \A x \in Entries(R[i]) : Hash[x] % NumBuckets(e) = i
    BY <1>4 DEF GoodTable
  <2> QED BY <1>4, <2>2, <2>3 DEF GoodTable
<1>7. Stored(R) \subseteq Stored(T) /\ Stored(T) \ D \subseteq Stored(R)
  <2>1. ASSUME NEW x \in Stored(R) PROVE x \in Stored(T)
    <3>1. PICK i \in Indices(e) : x \in Entries(R[i])
      BY <1>5 DEF Stored
    <3>2. x \in Entries(T[i])
      BY <1>4, <3>1
    <3> QED BY <1>1, <3>2 DEF Stored
  <2>2. ASSUME NEW x \in Stored(T), x \notin D PROVE x \in Stored(R)
    <3>1. PICK i \in Indices(e) : x \in Entries(T[i])
      BY <1>1 DEF Stored
    <3>2. x \in Entries(R[i])
      BY <1>4, <2>2, <3>1
    <3> QED BY <1>5, <3>2 DEF Stored
  <2> QED BY <2>1, <2>2
<1>8. \A i \in Indices(e) : T[i] = EmptyChain => R[i] = EmptyChain
  BY <1>4, EmptyChainFacts
<1>9. ASSUME D = {} PROVE R = T
  <2>1. \A i \in Indices(e) : R[i] = T[i]
    BY <1>4, <1>9
  <2> QED BY <1>1, <1>5, <2>1
<1> QED BY <1>6, <1>7, <1>8, <1>9 DEF R

\* A scan callback's deletions leave a sound hash table, with the other entries.
LEMMA PurgeFacts ==
  ASSUME NEW h, NEW X, NEW p, Has(h, X, p), NEW W, NEW D
  PROVE  /\ \E Y : Has(Purge(h, W, D), Y, p) /\ Y \subseteq X /\ X \ D \subseteq Y
         /\ D = {} => Purge(h, W, D) = h
<1>0. p \in Nat
  BY GoodParts
<1>1. PICK e0, e1, T0, T1, r : /\ h = Mk(e0, e1, T0, T1, r, p)
                               /\ Sound(e0, e1, T0, T1, r) /\ X = Stored(T0) \cup Stored(T1)
  BY GoodParts
<1>2. h.tab[0] = T0 /\ h.tab[1] = T1 /\ h.tab = Pair(T0, T1)
  BY <1>1, MkFields
<1> DEFINE R0 == PurgeTable(T0, 0, W, D)
           R1 == PurgeTable(T1, 1, W, D)
           g == Mk(e0, e1, R0, R1, r, p)
<1>3. /\ e0 \in Exps /\ e1 \in Exps /\ GoodTable(T0, e0) /\ GoodTable(T1, e1)
      /\ Stored(T0) \cap Stored(T1) = {} /\ (e1 = -1 <=> r = -1) /\ r \in -1 .. NumBuckets(e0) - 1
      /\ \A j \in 0 .. r - 1 : T0[j] = EmptyChain
  BY <1>1 DEF Sound
<1>4. /\ GoodTable(R0, e0) /\ Stored(R0) \subseteq Stored(T0) /\ Stored(T0) \ D \subseteq Stored(R0)
      /\ \A i \in Indices(e0) : T0[i] = EmptyChain => R0[i] = EmptyChain
      /\ D = {} => R0 = T0
  BY <1>3, PurgeTableFacts
<1>5. /\ GoodTable(R1, e1) /\ Stored(R1) \subseteq Stored(T1) /\ Stored(T1) \ D \subseteq Stored(R1)
      /\ D = {} => R1 = T1
  BY <1>3, PurgeTableFacts
<1>6. Purge(h, W, D) = [h EXCEPT !.tab = [t \in Tables |-> PurgeTable(h.tab[t], t, W, D)]]
  <2> DEFINE tabs == [t \in Tables |-> [i \in DOMAIN h.tab[t] |->
                       IF <<t, i>> \in W /\ Entries(h.tab[t][i]) \cap D # {}
                       THEN CompactBucketChain(Without(h.tab[t][i], D)) ELSE h.tab[t][i]]]
  <2>1. Purge(h, W, D) = [h EXCEPT !.tab = tabs]
    BY DEF Purge, Without
  <2>2. ASSUME NEW t \in Tables
        PROVE  [i \in DOMAIN h.tab[t] |->
                       IF <<t, i>> \in W /\ Entries(h.tab[t][i]) \cap D # {}
                       THEN CompactBucketChain(Without(h.tab[t][i], D)) ELSE h.tab[t][i]]
                 = PurgeTable(h.tab[t], t, W, D)
    BY DEF PurgeTable, PurgeChain
  <2>3. tabs = [t \in Tables |-> PurgeTable(h.tab[t], t, W, D)]
    BY <2>2
  <2> QED BY <2>1, <2>3
<1>7. [t \in Tables |-> PurgeTable(h.tab[t], t, W, D)] = Pair(R0, R1)
  <2> DEFINE f == [t \in Tables |-> PurgeTable(h.tab[t], t, W, D)]
  <2>1. f = [t \in Tables |-> f[t]] /\ f[0] = R0 /\ f[1] = R1
    BY <1>2 DEF Tables
  <2> HIDE DEF f
  <2>2. f = Pair(f[0], f[1])
    BY <2>1, PairIs
  <2>3. f = Pair(R0, R1)
    BY <2>1, <2>2
  <2> QED BY <2>3 DEF f
<1>8. Purge(h, W, D) = g
  <2> HIDE DEF R0, R1
  <2>1. Purge(h, W, D) = [h EXCEPT !.tab = Pair(R0, R1)]
    BY <1>6, <1>7
  <2> QED BY <1>1, <2>1 DEF Mk
<1> HIDE DEF R0, R1
<1>9. Sound(e0, e1, R0, R1, r)
  <2>1. Stored(R0) \cap Stored(R1) = {}
    BY <1>3, <1>4, <1>5
  <2>2. ASSUME NEW j \in 0 .. r - 1 PROVE R0[j] = EmptyChain
    <3>1. NumBuckets(e0) \in Nat
      BY <1>3, NumBucketsFacts
    <3>2. j \in Indices(e0)
      BY <1>3, <3>1 DEF Indices
    <3> QED BY <1>3, <1>4, <3>2
  <2> QED BY <1>3, <1>4, <1>5, <2>1, <2>2 DEF Sound
<1>10. Has(g, Stored(R0) \cup Stored(R1), p)
  BY <1>0, <1>9, MkGood
<1> DEFINE Y == Stored(R0) \cup Stored(R1)
<1>11. Y \subseteq X /\ X \ D \subseteq Y
  BY <1>1, <1>4, <1>5
<1>12. D = {} => g = h
  BY <1>1, <1>4, <1>5
<1> HIDE DEF g, Y
<1>13. Has(g, Y, p)
  BY <1>10 DEF Y
<1> QED BY <1>8, <1>11, <1>12, <1>13

\* Pausing and resuming rehashing.
LEMMA PauseFacts ==
  ASSUME NEW h, NEW X, NEW p, Has(h, X, p), NEW q \in Nat
  PROVE  /\ Has(SetPause(h, q), X, q)
         /\ SetPause(h, q).exp = h.exp /\ SetPause(h, q).tab = h.tab /\ SetPause(h, q).rehash = h.rehash
         /\ SetPause(h, q).pause = q
         /\ q = p => SetPause(h, q) = h
<1>1. PICK e0, e1, T0, T1, r : /\ h = Mk(e0, e1, T0, T1, r, p)
                               /\ Sound(e0, e1, T0, T1, r) /\ X = Stored(T0) \cup Stored(T1)
  BY GoodParts
<1> DEFINE g == SetPause(h, q)
<1>2. g = Mk(e0, e1, T0, T1, r, q)
  BY <1>1, MkSet
<1> HIDE DEF g
<1>3. Has(g, X, q)
  BY <1>1, <1>2, MkGood
<1>4. g.exp = h.exp /\ g.tab = h.tab /\ g.rehash = h.rehash /\ g.pause = q
  BY <1>1, <1>2, MkFields
<1> QED BY <1>1, <1>2, <1>3, <1>4 DEF g

\* Resuming undoes a pause, and may shrink the table when nobody else pauses rehashing.
LEMMA ResumeFacts ==
  ASSUME NEW h, NEW X, NEW p \in Nat, NEW n, n = p + 1, Has(h, X, n)
  PROVE  /\ Has(Resume(h), X, p)
         /\ p # 0 => Resume(h) = SetPause(h, p)
<1> DEFINE g == SetPause(h, p)
<1>1. h.pause = n /\ h.pause - 1 = p
  BY DEF Has
<1>2. Resume(h) = ShrinkIfNeeded(g)
  BY <1>1 DEF Resume, SetPause
<1>3. Has(g, X, p)
  BY PauseFacts
<1> HIDE DEF g
<1>4. Has(ShrinkIfNeeded(g), X, p) /\ (p # 0 => ShrinkIfNeeded(g) = g)
  BY <1>3, ShrinkFacts
<1> QED BY <1>2, <1>4 DEF g

-----------------------------------------------------------------------------
(* The scan.                                                               *)

\* The cursor after a bucket is behind no cursor that is beyond the bucket.
LEMMA AfterBucket ==
  ASSUME NEW e \in Nat, e <= CursorBits, NEW v \in Cursors, NEW u \in Cursors,
         ~ (Rev[u] < Beyond(v, e))
  PROVE  NextCursor(v, e) # 0 /\ Rev[NextCursor(v, e)] <= Rev[u]
<1>1. CursorBits \in Nat
  BY HashAssumption
<1>2. Rev[v] \in Nat /\ Beyond(v, e) \in Nat /\ Rev[v] < Beyond(v, e)
  BY BeyondFacts
<1>3. Rev[u] \in Nat /\ Rev[u] < Pow2[CursorBits] /\ Pow2[CursorBits] \in Nat
  <2>1. Rev[u] \in Cursors
    BY CursorParts
  <2> QED BY <1>1, <2>1, Pow2Facts DEF Cursors, Words
<1>4. Beyond(v, e) # Pow2[CursorBits] /\ Beyond(v, e) <= Rev[u]
  BY <1>2, <1>3
<1>5. Rev[NextCursor(v, e)] = Beyond(v, e)
  BY <1>4, NextCursorRev
<1>6. Rev[0] = 0
  BY <1>1, RevConstant DEF Rev
<1> QED BY <1>2, <1>4, <1>5, <1>6

\* The place of the chain of cursor u in table t, and whether rehashing has left it.
At(h, t, u) == <<t, u % NumBuckets(h.exp[t])>>
Live(h, w) == w[1] = 1 \/ w[2] >= h.rehash
ChainAt(h, w) == h.tab[w[1]][w[2]]

\* The chain of an entry has it, and rehashing has left it.
LEMMA ChainOfEntry ==
  ASSUME NEW h, NEW X, NEW p, Has(h, X, p), NEW t \in Tables, NEW x \in Held(h, t),
         NEW u, u % NumBuckets(h.exp[t]) = Hash[x] % NumBuckets(h.exp[t])
  PROVE  Live(h, At(h, t, u)) /\ x \in Entries(ChainAt(h, At(h, t, u)))
<1> DEFINE T == h.tab[t]
           e == h.exp[t]
           i == Hash[x] % NumBuckets(e)
<1>1. GoodTable(T, e) /\ e \in Exps /\ x \in Stored(T)
  BY GoodChains
<1>2. i \in Indices(e) /\ x \in Entries(T[i])
  BY <1>1, TableFacts
<1>3. At(h, t, u)[1] = t /\ At(h, t, u)[2] = i
  BY DEF At
<1>4. x \in Entries(ChainAt(h, At(h, t, u)))
  BY <1>2, <1>3 DEF ChainAt
<1>5. ASSUME t = 0 PROVE i >= h.rehash
  <2>1. PICK e0, e1, T0, T1, r : h = Mk(e0, e1, T0, T1, r, p) /\ Sound(e0, e1, T0, T1, r)
    BY GoodParts
  <2>2. T = T0 /\ e = e0 /\ h.rehash = r
    BY <1>5, <2>1, MkFields
  <2>3. (\A j \in 0 .. r - 1 : T[j] = EmptyChain) /\ r \in -1 .. NumBuckets(e) - 1
    BY <2>1, <2>2 DEF Sound
  <2>4. NumBuckets(e) \in Nat
    BY <1>1, NumBucketsFacts
  <2>5. i \in Nat /\ r \in Int
    BY <1>2, <2>3, <2>4 DEF Indices
  <2>6. i \notin 0 .. r - 1
    BY <1>2, <2>3, EmptyChainFacts
  <2> HIDE DEF i
  <2> QED BY <2>2, <2>5, <2>6
<1>6. Live(h, At(h, t, u))
  <2> HIDE DEF i
  <2> QED BY <1>3, <1>5 DEF Live, Tables
<1> QED BY <1>4, <1>6

\* What one call emits.
Emitted(h, v) == UNION {Entries(ChainAt(h, w)) : w \in Visit(h, v).chains}

\* One call emits every entry from its cursor up to the cursor it returns.
LEMMA VisitFacts ==
  ASSUME NEW h, NEW X, NEW p, Has(h, X, p), X # {}, NEW v \in Cursors
  PROVE  /\ Visit(h, v).next \in Cursors
         /\ \A x \in X : Rev[v] <= Rev[Hash[x]] /\ x \notin Emitted(h, v) =>
              Visit(h, v).next # 0 /\ Rev[Visit(h, v).next] <= Rev[Hash[x]]
<1>0. X = Held(h, 0) \cup Held(h, 1) /\ X \subseteq Elems
  BY GoodChains DEF Has, Contents
<1>1. \A t \in Tables : h.exp[t] \in Exps /\ GoodTable(h.tab[t], h.exp[t]) /\ Held(h, t) = Stored(h.tab[t])
  BY GoodChains
<1>2. \A x \in Elems : Hash[x] \in Cursors
  BY HashAssumption DEF Cursors, Words
<1>3. h.exp[0] # -1
  <2>1. CASE IsRehashing(h)
    BY <2>1, RehashingRoom DEF Room
  <2>2. CASE ~ IsRehashing(h)
    <3>1. PICK e0, e1, T0, T1, r : /\ h = Mk(e0, e1, T0, T1, r, p) /\ Sound(e0, e1, T0, T1, r)
                                   /\ X = Stored(T0) \cup Stored(T1)
      BY GoodParts
    <3>2. r = -1 /\ h.exp[0] = e0
      BY <2>2, <3>1, MkFields, MkFacts
    <3>3. Stored(T1) = {} /\ e0 \in Exps /\ GoodTable(T0, e0)
      BY <3>1, <3>2, NoTarget DEF Sound
    <3>4. PICK x : x \in Stored(T0)
      BY <3>1, <3>3
    <3> QED BY <3>2, <3>3, <3>4, TableFacts
  <2> QED BY <2>1, <2>2
<1>4. CASE ~ IsRehashing(h)
  <2> DEFINE e == h.exp[0]
  <2>1. e \in Nat /\ e <= CursorBits /\ NumBuckets(e) = Pow2[e]
    BY <1>1, <1>3, NumBucketsFacts DEF Tables
  <2>2. Visit(h, v).next = NextCursor(v, e) /\ Visit(h, v).chains = {At(h, 0, v)}
    BY <1>4 DEF Visit, At
  <2>3. Visit(h, v).next \in Cursors
    BY <2>1, <2>2, NextCursorRev
  <2>4. Held(h, 1) = {}
    <3>1. PICK e0, e1, T0, T1, r : h = Mk(e0, e1, T0, T1, r, p) /\ Sound(e0, e1, T0, T1, r)
      BY GoodParts
    <3>2. r = -1 /\ Held(h, 1) = Stored(T1)
      BY <1>4, <3>1, MkFacts
    <3> QED BY <3>1, <3>2, NoTarget
  <2>5. ASSUME NEW x \in X, Rev[v] <= Rev[Hash[x]], x \notin Emitted(h, v)
        PROVE  Visit(h, v).next # 0 /\ Rev[Visit(h, v).next] <= Rev[Hash[x]]
    <3>1. Hash[x] \in Cursors
      BY <1>0, <1>2
    <3>2. ~ (Rev[Hash[x]] < Beyond(v, e))
      <4> SUFFICES ASSUME Rev[Hash[x]] < Beyond(v, e) PROVE FALSE
        OBVIOUS
      <4>1. Hash[x] % Pow2[e] = v % Pow2[e]
        BY <2>1, <2>5, <3>1, WithinBucket
      <4>2. x \in Held(h, 0) /\ 0 \in Tables
        BY <1>0, <2>4 DEF Tables
      <4>3. x \in Entries(ChainAt(h, At(h, 0, v)))
        BY <2>1, <4>1, <4>2, ChainOfEntry
      <4> QED BY <2>2, <2>5, <4>3 DEF Emitted
    <3> QED BY <2>1, <2>2, <3>1, <3>2, AfterBucket
  <2> QED BY <2>3, <2>5
<1>5. CASE IsRehashing(h)
  <2> DEFINE s == IF h.exp[0] <= h.exp[1] THEN 0 ELSE 1
             small == h.exp[s]
             large == h.exp[1 - s]
             cs == Expansion(v, small, large)
             C == {w \in {At(h, s, v)} \cup {At(h, 1 - s, cs[k]) : k \in 1 .. Len(cs) - 1} : Live(h, w)}
  <2>1. h.exp[1] # -1
    BY <1>5, RehashingRoom
  <2>2. s \in Tables /\ 1 - s \in Tables /\ \A t \in Tables : t = s \/ t = 1 - s
    BY DEF Tables
  <2>3. \A t \in Tables : /\ h.exp[t] \in Nat /\ h.exp[t] <= CursorBits
                          /\ NumBuckets(h.exp[t]) = Pow2[h.exp[t]]
    BY <1>1, <1>3, <2>1, NumBucketsFacts DEF Tables
  <2>4. small \in Nat /\ large \in Nat /\ small <= large /\ large <= CursorBits /\ small <= CursorBits
    <3>1. h.exp[0] \in Nat /\ h.exp[1] \in Nat /\ h.exp[0] <= CursorBits /\ h.exp[1] <= CursorBits
      BY <2>3 DEF Tables
    <3> QED BY <3>1
  <2>5. Visit(h, v).chains = C /\ Visit(h, v).next = cs[Len(cs)]
    BY <1>5 DEF Visit, At, Live
  <2> HIDE DEF s
  <2>6. PICK n \in Nat \ {0} :
           /\ Len(cs) = n + 1
           /\ cs[n + 1] = NextCursor(v, small)
           /\ \A u \in Cursors : Rev[v] <= Rev[u] /\ Rev[u] < Beyond(v, small)
                => \E k \in 1 .. n : u % Pow2[large] = cs[k] % Pow2[large]
    <3> HIDE DEF small, large
    <3> QED BY <2>4, ExpansionFacts
  <2>7. Visit(h, v).next = NextCursor(v, small) /\ Len(cs) - 1 = n
    BY <2>5, <2>6
  <2> HIDE DEF cs
  <2>8. Visit(h, v).next \in Cursors
    BY <2>4, <2>7, NextCursorRev
  <2>9. ASSUME NEW x \in X, Rev[v] <= Rev[Hash[x]], x \notin Emitted(h, v)
        PROVE  Visit(h, v).next # 0 /\ Rev[Visit(h, v).next] <= Rev[Hash[x]]
    <3>1. Hash[x] \in Cursors
      BY <1>0, <1>2
    <3>2. ~ (Rev[Hash[x]] < Beyond(v, small))
      <4> SUFFICES ASSUME Rev[Hash[x]] < Beyond(v, small) PROVE FALSE
        OBVIOUS
      <4>1. PICK t \in Tables : x \in Held(h, t)
        BY <1>0 DEF Tables
      <4>2. ASSUME NEW u, At(h, t, u) \in {At(h, s, v)} \cup {At(h, 1 - s, cs[k]) : k \in 1 .. Len(cs) - 1},
                   u % NumBuckets(h.exp[t]) = Hash[x] % NumBuckets(h.exp[t])
            PROVE  FALSE
        <5>1. Live(h, At(h, t, u)) /\ x \in Entries(ChainAt(h, At(h, t, u)))
          BY <4>1, <4>2, ChainOfEntry
        <5>2. At(h, t, u) \in C
          BY <4>2, <5>1
        <5> HIDE DEF C
        <5> QED BY <2>5, <2>9, <5>1, <5>2 DEF Emitted
      <4>3. CASE t = s
        <5>1. Hash[x] % Pow2[small] = v % Pow2[small]
          BY <2>4, <2>9, <3>1, WithinBucket
        <5>2. v % NumBuckets(h.exp[t]) = Hash[x] % NumBuckets(h.exp[t])
          BY <2>3, <4>3, <5>1
        <5>3. At(h, t, v) = At(h, s, v)
          BY <4>3
        <5> QED BY <4>2, <5>2, <5>3
      <4>4. CASE t = 1 - s
        <5>1. PICK k \in 1 .. n : Hash[x] % Pow2[large] = cs[k] % Pow2[large]
          BY <2>6, <2>9, <3>1
        <5>2. cs[k] % NumBuckets(h.exp[t]) = Hash[x] % NumBuckets(h.exp[t])
          BY <2>3, <4>4, <5>1
        <5>3. At(h, t, cs[k]) = At(h, 1 - s, cs[k]) /\ k \in 1 .. Len(cs) - 1
          BY <2>7, <4>4
        <5> QED BY <4>2, <5>2, <5>3
      <4> QED BY <2>2, <4>3, <4>4
    <3> HIDE DEF small
    <3> QED BY <2>4, <2>7, <3>1, <3>2, AfterBucket
  <2> QED BY <2>8, <2>9
<1> QED BY <1>4, <1>5

-----------------------------------------------------------------------------
(* The safe iterator.                                                      *)

\* An entry and the place where it is.
Placed(h, x, t, j, k) ==
  /\ t \in Tables /\ j \in DOMAIN h.tab[t] /\ k \in Slots(h.tab[t][j])
  /\ Slot(h.tab[t][j], k) = x /\ x # None

\* Place <<a, b, c>> comes after place <<t, j, k>> in the order of the iterator.
After(a, b, c, t, j, k) == a > t \/ (a = t /\ b > j) \/ (a = t /\ b = j /\ c > k)

\* The entries of Q are all ahead of the iterator.
Pending(h, t, j, k, Q) ==
  \A x \in Q : \E a, b, c : Placed(h, x, a, b, c) /\ After(a, b, c, t, j, k)

Position(h, t, j, k, Q) ==
  t \in Tables /\ j \in DOMAIN h.tab[t] /\ k \in Nat /\ Pending(h, t, j, k, Q)

\* Places are numbers.
LEMMA PlaceTypes ==
  ASSUME NEW h, NEW X, NEW p, Has(h, X, p), NEW t \in Tables, NEW j \in DOMAIN h.tab[t]
  PROVE  /\ t \in Nat /\ j \in Nat /\ j < NumBuckets(h.exp[t]) /\ NumBuckets(h.exp[t]) \in Nat
         /\ j \in Indices(h.exp[t]) /\ DOMAIN h.tab[t] = Indices(h.exp[t])
         /\ \A k \in Slots(h.tab[t][j]) : k \in Nat /\ k >= 1
         /\ GoodChain(h.tab[t][j]) /\ h.tab[t][j] \in Chains
<1>1. GoodTable(h.tab[t], h.exp[t]) /\ h.exp[t] \in Exps /\ GoodChain(h.tab[t][j]) /\ h.tab[t][j] \in Chains
  BY GoodChains
<1>2. DOMAIN h.tab[t] = Indices(h.exp[t])
  BY <1>1, TableFacts
<1>3. NumBuckets(h.exp[t]) \in Nat
  BY <1>1, NumBucketsFacts
<1>4. j \in Nat /\ j < NumBuckets(h.exp[t])
  BY <1>2, <1>3 DEF Indices
<1>5. Len(h.tab[t][j]) \in Nat /\ EntriesPerBucket \in Nat
  BY <1>1, ChainFacts, BucketFacts
<1>6. Len(h.tab[t][j]) * EntriesPerBucket \in Nat
  BY <1>5
<1>7. \A k \in Slots(h.tab[t][j]) : k \in Nat /\ k >= 1
  BY <1>6 DEF Slots
<1> QED BY <1>1, <1>2, <1>3, <1>4, <1>7 DEF Tables

\* A change that keeps places leaves what is ahead of the iterator ahead of it.
LEMMA KeepsPosition ==
  ASSUME NEW h, NEW X, NEW p, Has(h, X, p), NEW g, NEW Y, NEW q, Has(g, Y, q),
         NEW D, Keeps(h, g, D), NEW t, NEW j, NEW k, NEW Q, Position(h, t, j, k, Q),
         NEW R, R \subseteq Q, R \cap D = {}
  PROVE  Position(g, t, j, k, R)
<1>1. t \in Tables /\ j \in DOMAIN h.tab[t] /\ k \in Nat /\ Pending(h, t, j, k, Q)
  BY DEF Position
<1>2. j \in DOMAIN g.tab[t]
  BY <1>1 DEF Keeps, KeepsTable
<1>3. ASSUME NEW x \in R PROVE \E a, b, c : Placed(g, x, a, b, c) /\ After(a, b, c, t, j, k)
  <2>1. PICK a, b, c : Placed(h, x, a, b, c) /\ After(a, b, c, t, j, k)
    BY <1>1 DEF Pending
  <2>2. a \in Tables /\ b \in DOMAIN h.tab[a] /\ c \in Slots(h.tab[a][b]) /\ Slot(h.tab[a][b], c) = x /\ x # None
    BY <2>1 DEF Placed
  <2>3. b \in DOMAIN g.tab[a] /\ KeepsChain(h.tab[a][b], g.tab[a][b], D) /\ x \notin D
    BY <2>2 DEF Keeps, KeepsTable
  <2>4. PICK d \in Slots(g.tab[a][b]) : c <= d /\ Slot(g.tab[a][b], d) = x
    BY <2>2, <2>3 DEF KeepsChain
  <2>5. Placed(g, x, a, b, d)
    BY <2>2, <2>3, <2>4 DEF Placed
  <2>6. c \in Nat /\ d \in Nat
    BY <2>2, <2>3, PlaceTypes
  <2>7. After(a, b, d, t, j, k)
    BY <1>1, <2>1, <2>4, <2>6 DEF After
  <2> QED BY <2>5, <2>7
<1> QED BY <1>1, <1>2, <1>3 DEF Position, Pending

\* A compacted chain in its place.
LEMMA CompactHash ==
  ASSUME NEW h, NEW X, NEW p, Has(h, X, p), NEW t \in Tables, NEW i \in DOMAIN h.tab[t],
         NEW g, g = SetChain(h, t, i, CompactBucketChain(h.tab[t][i]))
  PROVE  /\ Has(g, X, p) /\ g.exp = h.exp
         /\ \A a \in Tables : DOMAIN g.tab[a] = DOMAIN h.tab[a]
         /\ \A a \in Tables : \A b \in DOMAIN h.tab[a] : ~ (a = t /\ b = i) => g.tab[a][b] = h.tab[a][b]
<1>0. p \in Nat
  BY GoodParts
<1>1. PICK e0, e1, T0, T1, r : /\ h = Mk(e0, e1, T0, T1, r, p)
                               /\ Sound(e0, e1, T0, T1, r) /\ X = Stored(T0) \cup Stored(T1)
  BY GoodParts
<1>2. h.tab[0] = T0 /\ h.tab[1] = T1 /\ h.exp = Pair(e0, e1)
  BY <1>1, MkFields
<1>3. /\ e0 \in Exps /\ e1 \in Exps /\ GoodTable(T0, e0) /\ GoodTable(T1, e1)
      /\ Stored(T0) \cap Stored(T1) = {} /\ (e1 = -1 <=> r = -1) /\ r \in -1 .. NumBuckets(e0) - 1
      /\ \A j \in 0 .. r - 1 : T0[j] = EmptyChain
  BY <1>1 DEF Sound
<1>4. ASSUME NEW e \in Exps, NEW T, GoodTable(T, e), i \in DOMAIN T,
             NEW d, d = CompactBucketChain(T[i])
      PROVE  /\ GoodTable(With(T, i, d), e) /\ Stored(With(T, i, d)) = Stored(T)
             /\ DOMAIN With(T, i, d) = DOMAIN T /\ DOMAIN T = Indices(e)
             /\ \A j \in DOMAIN T : j # i => With(T, i, d)[j] = T[j]
             /\ \A j \in DOMAIN T : T[j] = EmptyChain => With(T, i, d)[j] = EmptyChain
  <2>1. DOMAIN T = Indices(e) /\ i \in Indices(e)
    BY <1>4, TableFacts
  <2>2. GoodChain(T[i]) /\ \A x \in Entries(T[i]) : Hash[x] % NumBuckets(e) = i
    BY <1>4, <2>1 DEF GoodTable
  <2>3. GoodChain(d) /\ Entries(d) = Entries(T[i]) /\ (Len(T[i]) = 1 => d = T[i])
    BY <1>4, <2>2, CompactFacts
  <2>4. \A x \in Entries(d) : Hash[x] % NumBuckets(e) = i
    BY <2>2, <2>3
  <2>5. /\ GoodTable(With(T, i, d), e)
        /\ Stored(With(T, i, d)) = (Stored(T) \ Entries(T[i])) \cup Entries(d)
        /\ With(T, i, d)[i] = d
        /\ \A j \in Indices(e) : j # i => With(T, i, d)[j] = T[j]
    BY <1>4, <2>1, <2>3, <2>4, ReplaceChain
  <2>6. Stored(With(T, i, d)) = Stored(T)
    BY <1>4, <2>1, <2>3, <2>5, TableFacts
  <2>7. DOMAIN With(T, i, d) = Indices(e)
    BY <2>5, TableFacts
  <2>8. ASSUME NEW j \in Indices(e), T[j] = EmptyChain PROVE With(T, i, d)[j] = EmptyChain
    <3>1. CASE j = i
      BY <2>3, <2>5, <2>8, <3>1, EmptyChainFacts
    <3>2. CASE j # i
      BY <2>5, <2>8, <3>2
    <3> QED BY <3>1, <3>2
  <2> QED BY <2>1, <2>5, <2>6, <2>7, <2>8
<1>5. CASE t = 0
  <2> DEFINE d == CompactBucketChain(T0[i])
             R == With(T0, i, d)
  <2>1. i \in DOMAIN T0 /\ g = SetChain(h, 0, i, d)
    BY <1>2, <1>5
  <2>2. /\ GoodTable(R, e0) /\ Stored(R) = Stored(T0) /\ DOMAIN R = DOMAIN T0 /\ DOMAIN T0 = Indices(e0)
        /\ \A j \in DOMAIN T0 : j # i => R[j] = T0[j]
        /\ \A j \in DOMAIN T0 : T0[j] = EmptyChain => R[j] = EmptyChain
    BY <1>3, <1>4, <2>1
  <2> HIDE DEF d
  <2>3. g = Mk(e0, e1, R, T1, r, p)
    BY <1>1, <2>1, MkChain
  <2> HIDE DEF R
  <2>4. Sound(e0, e1, R, T1, r)
    <3>1. Stored(R) \cap Stored(T1) = {}
      BY <1>3, <2>2
    <3>2. ASSUME NEW j \in 0 .. r - 1 PROVE R[j] = EmptyChain
      <4>1. NumBuckets(e0) \in Nat
        BY <1>3, NumBucketsFacts
      <4>2. j \in Indices(e0)
        BY <1>3, <4>1 DEF Indices
      <4> QED BY <1>3, <2>2, <4>2
    <3> QED BY <1>3, <2>2, <3>1, <3>2 DEF Sound
  <2>5. Has(g, Stored(R) \cup Stored(T1), p)
    BY <1>0, <2>3, <2>4, MkGood
  <2>6. g.tab[0] = R /\ g.tab[1] = T1 /\ g.exp = Pair(e0, e1)
    BY <2>3, MkFields
  <2>7. Has(g, X, p)
    BY <1>1, <2>2, <2>5
  <2> QED BY <1>2, <1>5, <2>2, <2>6, <2>7 DEF Tables
<1>6. CASE t = 1
  <2> DEFINE d == CompactBucketChain(T1[i])
             R == With(T1, i, d)
  <2>1. i \in DOMAIN T1 /\ g = SetChain(h, 1, i, d)
    BY <1>2, <1>6
  <2>2. /\ GoodTable(R, e1) /\ Stored(R) = Stored(T1) /\ DOMAIN R = DOMAIN T1
        /\ \A j \in DOMAIN T1 : j # i => R[j] = T1[j]
    BY <1>3, <1>4, <2>1
  <2> HIDE DEF d
  <2>3. g = Mk(e0, e1, T0, R, r, p)
    BY <1>1, <2>1, MkChain
  <2> HIDE DEF R
  <2>4. Sound(e0, e1, T0, R, r)
    BY <1>3, <2>2 DEF Sound
  <2>5. Has(g, Stored(T0) \cup Stored(R), p)
    BY <1>0, <2>3, <2>4, MkGood
  <2>6. g.tab[0] = T0 /\ g.tab[1] = R /\ g.exp = Pair(e0, e1)
    BY <2>3, MkFields
  <2>7. Has(g, X, p)
    BY <1>1, <2>2, <2>5
  <2> QED BY <1>2, <1>6, <2>2, <2>6, <2>7 DEF Tables
<1> QED BY <1>5, <1>6 DEF Tables

\* A table rehashes when it has a table 1.
LEMMA RehashingExp ==
  ASSUME NEW h, NEW X, NEW p, Has(h, X, p)
  PROVE  IsRehashing(h) <=> h.exp[1] # -1
<1>1. PICK e0, e1, T0, T1, r : h = Mk(e0, e1, T0, T1, r, p) /\ Sound(e0, e1, T0, T1, r)
  BY GoodParts
<1>2. h.exp[1] = e1 /\ (IsRehashing(h) <=> r # -1)
  BY <1>1, MkFields, MkFacts
<1> QED BY <1>1, <1>2 DEF Sound

\* An iterator under way, and the state of Advance().
Yes == TRUE
No == FALSE
It(t, j, k, z, l, Q) ==
  [on |-> Yes, begun |-> Yes, table |-> t, idx |-> j, slot |-> k, size |-> z, last |-> l, due |-> Q]
Walk(h, i, b) == [ht |-> h, it |-> i, end |-> b]

\* The fields of an iterator.
LEMMA ItFields ==
  ASSUME NEW t, NEW j, NEW k, NEW z, NEW l, NEW Q, NEW i, i = It(t, j, k, z, l, Q)
  PROVE  /\ i.table = t /\ i.idx = j /\ i.slot = k /\ i.size = z /\ i.last = l /\ i.due = Q
         /\ i.on /\ i.begun
BY DEF It, Yes

\* The fields of a walk.
LEMMA WalkFields ==
  ASSUME NEW h, NEW i, NEW b, NEW w, w = Walk(h, i, b)
  PROVE  /\ w.ht = h /\ w.it = i
         /\ b = Yes => w.end
         /\ b = No => ~ w.end
<1>1. w.ht = h /\ w.it = i /\ w.end = b
  BY DEF Walk
<1>2. b = Yes => w.end
  BY <1>1 DEF Yes
<1>3. b = No => ~ w.end
  BY <1>1 DEF No
<1> QED BY <1>1, <1>2, <1>3

\* Assignments to them.
SetTable(i, x) == [i EXCEPT !.table = x]
SetIdx(i, x) == [i EXCEPT !.idx = x]
SetSlot(i, x) == [i EXCEPT !.slot = x]
SetSize(i, x) == [i EXCEPT !.size = x]
SetLast(i, x) == [i EXCEPT !.last = x]
SetDue(i, x) == [i EXCEPT !.due = x]
SetHt(w, x) == [w EXCEPT !.ht = x]
SetIt(w, x) == [w EXCEPT !.it = x]
SetEnd(w, x) == [w EXCEPT !.end = x]

\* What they make of an iterator.
LEMMA ItSet ==
  ASSUME NEW t, NEW j, NEW k, NEW z, NEW l, NEW Q, NEW x
  PROVE  /\ SetTable(It(t, j, k, z, l, Q), x) = It(x, j, k, z, l, Q)
         /\ SetIdx(It(t, j, k, z, l, Q), x) = It(t, x, k, z, l, Q)
         /\ SetSlot(It(t, j, k, z, l, Q), x) = It(t, j, x, z, l, Q)
         /\ SetSize(It(t, j, k, z, l, Q), x) = It(t, j, k, x, l, Q)
         /\ SetLast(It(t, j, k, z, l, Q), x) = It(t, j, k, z, x, Q)
         /\ SetDue(It(t, j, k, z, l, Q), x) = It(t, j, k, z, l, x)
<1>1. SetTable(It(t, j, k, z, l, Q), x) = It(x, j, k, z, l, Q)
  BY DEF It, SetTable
<1>2. SetIdx(It(t, j, k, z, l, Q), x) = It(t, x, k, z, l, Q)
  BY DEF It, SetIdx
<1>3. SetSlot(It(t, j, k, z, l, Q), x) = It(t, j, x, z, l, Q)
  BY DEF It, SetSlot
<1>4. SetSize(It(t, j, k, z, l, Q), x) = It(t, j, k, x, l, Q)
  BY DEF It, SetSize
<1>5. SetLast(It(t, j, k, z, l, Q), x) = It(t, j, k, z, x, Q)
  BY DEF It, SetLast
<1>6. SetDue(It(t, j, k, z, l, Q), x) = It(t, j, k, z, l, x)
  BY DEF It, SetDue
<1> QED BY <1>1, <1>2, <1>3, <1>4, <1>5, <1>6

\* What they make of a walk.
LEMMA WalkSet ==
  ASSUME NEW h, NEW i, NEW b, NEW x
  PROVE  /\ SetHt(Walk(h, i, b), x) = Walk(x, i, b)
         /\ SetIt(Walk(h, i, b), x) = Walk(h, x, b)
         /\ SetEnd(Walk(h, i, b), x) = Walk(h, i, x)
<1>1. SetHt(Walk(h, i, b), x) = Walk(x, i, b)
  BY DEF Walk, SetHt
<1>2. SetIt(Walk(h, i, b), x) = Walk(h, x, b)
  BY DEF Walk, SetIt
<1>3. SetEnd(Walk(h, i, b), x) = Walk(h, i, x)
  BY DEF Walk, SetEnd
<1> QED BY <1>1, <1>2, <1>3

\* The chains from index j of table t on.
Left(E, t, j) == IF t = 0 THEN NumBuckets(E[0]) - j + NumBuckets(E[1]) ELSE NumBuckets(E[1]) - j

\* The iterator is under way, with at most m chains left.
Going(w, X, q, Q, l, E, m) ==
  \E h, t, j, k, z : /\ w = Walk(h, It(t, j, k, z, l, Q), No)
                     /\ Has(h, X, q) /\ h.exp = E /\ Position(h, t, j, k, Q)
                     /\ Left(E, t, j) <= m

\* It has come to the end, and owes nothing.
Over(w, X, q, Q) == \E h, i : w = Walk(h, i, Yes) /\ Has(h, X, q) /\ Q = {}

\* When a chain has nothing ahead of the iterator, what it owes is at later indices.
LEMMA ChainDone ==
  ASSUME NEW h, NEW X, NEW p, Has(h, X, p), NEW t, NEW j, NEW k, NEW Q, Position(h, t, j, k, Q),
         NEW z, NEW l, Ahead(h, It(t, j, k, z, l, Q)) = {}
  PROVE  \A x \in Q : \E a, b, c : Placed(h, x, a, b, c) /\ (a > t \/ (a = t /\ b > j))
<1> DEFINE i == It(t, j, k, z, l, Q)
           c0 == h.tab[t][j]
<1>1. t \in Tables /\ j \in DOMAIN h.tab[t] /\ k \in Nat /\ Pending(h, t, j, k, Q)
  BY DEF Position
<1>2. i.table = t /\ i.idx = j /\ i.slot = k
  BY ItFields
<1>3. Ahead(h, i) = {m \in k + 1 .. Len(c0) * EntriesPerBucket : Slot(c0, m) # None}
  <2> HIDE DEF i
  <2> QED BY <1>2 DEF Ahead
<1>4. Len(c0) * EntriesPerBucket \in Nat
  <2>1. Len(c0) \in Nat /\ EntriesPerBucket \in Nat
    BY <1>1, PlaceTypes, ChainFacts, BucketFacts
  <2> QED BY <2>1
<1> TAKE x \in Q
<1>5. PICK a, b, c : Placed(h, x, a, b, c) /\ After(a, b, c, t, j, k)
  BY <1>1 DEF Pending
<1>6. ASSUME a = t, b = j, c > k PROVE FALSE
  <2>1. c \in Slots(c0) /\ Slot(c0, c) # None
    BY <1>5, <1>6 DEF Placed
  <2>2. c \in k + 1 .. Len(c0) * EntriesPerBucket
    BY <1>1, <1>4, <1>6, <2>1 DEF Slots
  <2> HIDE DEF i, c0
  <2>3. c \in Ahead(h, i)
    BY <1>3, <2>1, <2>2
  <2> QED BY <2>3 DEF i
<1>7. a > t \/ (a = t /\ b > j)
  BY <1>5, <1>6 DEF After
<1> QED BY <1>5, <1>7

\* The assignments of EndOfIndex().
LEMMA EndOfIndexIs ==
  ASSUME NEW w, NEW h, NEW i, NEW t, NEW j, NEW k, NEW z, NEW l, NEW Q,
         i = It(t, j, k, z, l, Q), w = Walk(h, i, No)
  PROVE  \E g : /\ g = h \/ g = SetChain(h, t, j, CompactBucketChain(h.tab[t][j]))
                /\ j + 1 < NumBuckets(g.exp[t]) /\ ~ (j + 1 >= NumBuckets(g.exp[t])) =>
                     EndOfIndex(w) = Walk(g, It(t, j + 1, 0, Used(g, t), l, Q), No)
                /\ j + 1 >= NumBuckets(g.exp[t]) /\ ~ (j + 1 < NumBuckets(g.exp[t])) /\ IsRehashing(g) /\ t = 0 =>
                     EndOfIndex(w) = Walk(g, It(1, 0, 0, Used(g, t), l, Q), No)
                /\ ~ (j + 1 < NumBuckets(g.exp[t])) /\ ~ (IsRehashing(g) /\ t = 0) =>
                     EndOfIndex(w) = Walk(g, i, Yes)
<1>1. w.ht = h /\ w.it = i
  BY WalkFields
<1>2. i.table = t /\ i.idx = j /\ i.slot = k /\ i.size = z
  BY ItFields
<1> DEFINE gone == h.pause = 1 /\ Used(h, t) < z
           g == IF gone THEN SetChain(h, t, j, CompactBucketChain(h.tab[t][j])) ELSE h
           u == Used(g, t)
           n == j + 1
           moved == It(t, n, 0, u, l, Q)
           moved0 == [i EXCEPT !.slot = 0, !.size = u, !.idx = @ + 1]
           over == It(1, 0, 0, u, l, Q)
           N == NumBuckets(g.exp[t])
<1>3. moved0 = moved
  <2> DEFINE a == SetSize(SetSlot(i, 0), u)
  <2>1. moved0 = SetIdx(a, a.idx + 1)
    <3> HIDE DEF u
    <3> QED BY DEF SetIdx, SetSize, SetSlot
  <2> HIDE DEF u
  <2>2. a = It(t, j, 0, u, l, Q)
    BY ItSet
  <2>3. a.idx = j
    BY <2>2, ItFields
  <2> HIDE DEF a
  <2>4. SetIdx(a, n) = moved
    <3> HIDE DEF n
    <3> QED BY <2>2, ItSet
  <2> QED BY <2>1, <2>3, <2>4
<1>4. [moved EXCEPT !.idx = 0, !.table = 1] = over
  <2> HIDE DEF u, n
  <2>1. [moved EXCEPT !.idx = 0, !.table = 1] = SetTable(SetIdx(moved, 0), 1)
    <3> HIDE DEF moved
    <3> QED BY DEF SetTable, SetIdx
  <2> QED BY <2>1, ItSet
<1>5. moved.idx = n
  <2> HIDE DEF u, n
  <2> QED BY ItFields
<1>6. EndOfIndex(w) =
        CASE moved0.idx < N -> [w EXCEPT !.ht = g, !.it = moved0]
          [] moved0.idx >= N /\ IsRehashing(g) /\ t = 0 ->
               [w EXCEPT !.ht = g, !.it = [moved0 EXCEPT !.idx = 0, !.table = 1]]
          [] OTHER -> [w EXCEPT !.ht = g, !.end = TRUE]
  BY <1>1, <1>2 DEF EndOfIndex, SetChain
<1> HIDE DEF moved0, moved, N, over, n, u
<1>7. EndOfIndex(w) =
        CASE n < N -> [w EXCEPT !.ht = g, !.it = moved]
          [] n >= N /\ IsRehashing(g) /\ t = 0 -> [w EXCEPT !.ht = g, !.it = over]
          [] OTHER -> [w EXCEPT !.ht = g, !.end = TRUE]
  <2> HIDE DEF g
  <2> QED BY <1>3, <1>4, <1>5, <1>6
<1>8. g = h \/ g = SetChain(h, t, j, CompactBucketChain(h.tab[t][j]))
  OBVIOUS
<1> HIDE DEF g
<1>9. [w EXCEPT !.ht = g, !.it = moved] = Walk(g, moved, No)
  <2>1. [w EXCEPT !.ht = g, !.it = moved] = SetIt(SetHt(w, g), moved)
    BY DEF SetIt, SetHt
  <2> QED BY <2>1, WalkSet
<1>10. [w EXCEPT !.ht = g, !.it = over] = Walk(g, over, No)
  <2>1. [w EXCEPT !.ht = g, !.it = over] = SetIt(SetHt(w, g), over)
    BY DEF SetIt, SetHt
  <2> QED BY <2>1, WalkSet
<1>11. [w EXCEPT !.ht = g, !.end = TRUE] = Walk(g, i, Yes)
  <2>1. [w EXCEPT !.ht = g, !.end = TRUE] = SetEnd(SetHt(w, g), Yes)
    BY DEF SetEnd, SetHt, Yes
  <2> QED BY <2>1, WalkSet
<1> DEFINE A == [w EXCEPT !.ht = g, !.it = moved]
           B == [w EXCEPT !.ht = g, !.it = over]
           C == [w EXCEPT !.ht = g, !.end = TRUE]
<1>12. EndOfIndex(w) =
        CASE n < N -> A
          [] n >= N /\ IsRehashing(g) /\ t = 0 -> B
          [] OTHER -> C
  BY <1>7
<1>13. A = Walk(g, moved, No) /\ B = Walk(g, over, No) /\ C = Walk(g, i, Yes)
  BY <1>9, <1>10, <1>11
<1> HIDE DEF A, B, C
<1>14. n < N /\ ~ (n >= N) => EndOfIndex(w) = A
  BY <1>12
<1>15. n >= N /\ ~ (n < N) /\ IsRehashing(g) /\ t = 0 => EndOfIndex(w) = B
  BY <1>12
<1>16. ~ (n < N) /\ ~ (IsRehashing(g) /\ t = 0) => EndOfIndex(w) = C
  BY <1>12
<1> QED BY <1>8, <1>13, <1>14, <1>15, <1>16 DEF n, N, moved, over, u

\* A chain that is done: the next one, or the end with nothing owed.
LEMMA EndOfIndexFacts ==
  ASSUME NEW w, NEW X, NEW q, NEW Q, NEW l, NEW E, NEW m \in Nat, Going(w, X, q, Q, l, E, m),
         Ahead(w.ht, w.it) = {}
  PROVE  /\ m # 0
         /\ Over(EndOfIndex(w), X, q, Q) \/ Going(EndOfIndex(w), X, q, Q, l, E, m - 1)
<1>1. PICK h, t, j, k, z : /\ w = Walk(h, It(t, j, k, z, l, Q), No)
                           /\ Has(h, X, q) /\ h.exp = E /\ Position(h, t, j, k, Q)
                           /\ Left(E, t, j) <= m
  BY DEF Going
<1> DEFINE i == It(t, j, k, z, l, Q)
<1>2. w.ht = h /\ w.it = i
  BY <1>1, WalkFields
<1>3. t \in Tables /\ j \in DOMAIN h.tab[t]
  BY <1>1 DEF Position
<1>4. \A x \in Q : \E a, b, c : Placed(h, x, a, b, c) /\ (a > t \/ (a = t /\ b > j))
  BY <1>1, <1>2, ChainDone
<1>5. PICK g : /\ g = h \/ g = SetChain(h, t, j, CompactBucketChain(h.tab[t][j]))
               /\ j + 1 < NumBuckets(g.exp[t]) /\ ~ (j + 1 >= NumBuckets(g.exp[t])) =>
                    EndOfIndex(w) = Walk(g, It(t, j + 1, 0, Used(g, t), l, Q), No)
               /\ j + 1 >= NumBuckets(g.exp[t]) /\ ~ (j + 1 < NumBuckets(g.exp[t])) /\ IsRehashing(g) /\ t = 0 =>
                    EndOfIndex(w) = Walk(g, It(1, 0, 0, Used(g, t), l, Q), No)
               /\ ~ (j + 1 < NumBuckets(g.exp[t])) /\ ~ (IsRehashing(g) /\ t = 0) =>
                    EndOfIndex(w) = Walk(g, i, Yes)
  <2> HIDE DEF i
  <2>1. i = It(t, j, k, z, l, Q) /\ w = Walk(h, i, No)
    BY <1>1 DEF i
  <2> QED BY <2>1, EndOfIndexIs
<1>6. /\ Has(g, X, q) /\ g.exp = E
      /\ \A a \in Tables : DOMAIN g.tab[a] = DOMAIN h.tab[a]
      /\ \A a \in Tables : \A b \in DOMAIN h.tab[a] : ~ (a = t /\ b = j) => g.tab[a][b] = h.tab[a][b]
  <2>1. CASE g = h
    BY <1>1, <2>1
  <2>2. CASE g = SetChain(h, t, j, CompactBucketChain(h.tab[t][j]))
    BY <1>1, <1>3, <2>2, CompactHash
  <2> QED BY <1>5, <2>1, <2>2
<1>7. /\ t \in Nat /\ j \in Nat /\ j < NumBuckets(E[t]) /\ NumBuckets(E[t]) \in Nat
      /\ DOMAIN h.tab[t] = Indices(E[t])
  BY <1>1, <1>3, PlaceTypes
<1>8. /\ E[0] \in Exps /\ E[1] \in Exps /\ NumBuckets(E[0]) \in Nat /\ NumBuckets(E[1]) \in Nat
      /\ DOMAIN h.tab[1] = Indices(E[1])
  <2>1. \A a \in Tables : E[a] \in Exps /\ GoodTable(h.tab[a], E[a])
    BY <1>1, GoodChains
  <2>2. DOMAIN h.tab[1] = Indices(E[1])
    BY <2>1, TableFacts DEF Tables
  <2> QED BY <2>1, <2>2, NumBucketsFacts DEF Tables
<1>9. t = 0 \/ t = 1
  BY <1>3 DEF Tables
<1>10. m # 0
  BY <1>1, <1>7, <1>8, <1>9 DEF Left
<1>11. ASSUME NEW a, NEW b,
              \A x \in Q : \A c, d, e : Placed(h, x, c, d, e) /\ (c > t \/ (c = t /\ d > j)) =>
                                          After(c, d, e, a, b, 0)
       PROVE  Pending(g, a, b, 0, Q)
  <2> SUFFICES ASSUME NEW x \in Q
               PROVE \E c, d, e : Placed(g, x, c, d, e) /\ After(c, d, e, a, b, 0)
    BY DEF Pending
  <2>1. PICK c, d, e : Placed(h, x, c, d, e) /\ (c > t \/ (c = t /\ d > j))
    BY <1>4
  <2>2. c \in Tables /\ d \in DOMAIN h.tab[c]
    BY <2>1 DEF Placed
  <2>3. ~ (c = t /\ d = j)
    BY <1>7, <2>1
  <2>4. g.tab[c][d] = h.tab[c][d] /\ DOMAIN g.tab[c] = DOMAIN h.tab[c]
    BY <1>6, <2>2, <2>3
  <2>5. Placed(g, x, c, d, e)
    BY <2>1, <2>4 DEF Placed
  <2> QED BY <1>11, <2>1, <2>5
<1> HIDE DEF i
<1>12. CASE j + 1 < NumBuckets(E[t])
  <2>1. EndOfIndex(w) = Walk(g, It(t, j + 1, 0, Used(g, t), l, Q), No)
    <3>1. ~ (j + 1 >= NumBuckets(g.exp[t])) /\ j + 1 < NumBuckets(g.exp[t])
      BY <1>6, <1>7, <1>12
    <3> QED BY <1>5, <3>1
  <2>2. ASSUME NEW x \in Q, NEW c, NEW d, NEW e, Placed(h, x, c, d, e), c > t \/ (c = t /\ d > j)
        PROVE  After(c, d, e, t, j + 1, 0)
    <3>1. c \in Tables /\ d \in DOMAIN h.tab[c] /\ e \in Slots(h.tab[c][d])
      BY <2>2 DEF Placed
    <3>2. c \in Nat /\ d \in Nat /\ e \in Nat /\ e >= 1
      BY <1>1, <3>1, PlaceTypes
    <3> QED BY <1>7, <2>2, <3>2 DEF After
  <2>3. Pending(g, t, j + 1, 0, Q)
    BY <1>11, <2>2
  <2>4. Position(g, t, j + 1, 0, Q)
    BY <1>3, <1>6, <1>7, <1>12, <2>3 DEF Position, Indices
  <2>5. Left(E, t, j + 1) <= m - 1
    BY <1>1, <1>7, <1>8, <1>9 DEF Left
  <2> QED BY <1>6, <1>10, <2>1, <2>4, <2>5 DEF Going
<1>13. CASE ~ (j + 1 < NumBuckets(E[t])) /\ IsRehashing(g) /\ t = 0
  <2>1. EndOfIndex(w) = Walk(g, It(1, 0, 0, Used(g, t), l, Q), No)
    <3>1. j + 1 >= NumBuckets(g.exp[t]) /\ ~ (j + 1 < NumBuckets(g.exp[t]))
      BY <1>6, <1>7, <1>13
    <3> QED BY <1>5, <1>13, <3>1
  <2>2. ASSUME NEW x \in Q, NEW c, NEW d, NEW e, Placed(h, x, c, d, e), c > t \/ (c = t /\ d > j)
        PROVE  After(c, d, e, 1, 0, 0)
    <3>1. c \in Tables /\ d \in DOMAIN h.tab[c] /\ e \in Slots(h.tab[c][d])
      BY <2>2 DEF Placed
    <3>2. c \in Nat /\ d \in Nat /\ e \in Nat /\ e >= 1 /\ d < NumBuckets(E[c])
      BY <1>1, <3>1, PlaceTypes
    <3>3. c # 0
      BY <1>7, <1>13, <2>2, <3>2
    <3>4. c = 1
      BY <3>1, <3>3 DEF Tables
    <3> QED BY <3>2, <3>4 DEF After
  <2>3. Pending(g, 1, 0, 0, Q)
    BY <1>11, <2>2
  <2>4. E[1] # -1
    BY <1>6, <1>13, RehashingExp
  <2>5. 0 \in DOMAIN g.tab[1]
    <3>1. NumBuckets(E[1]) \in Nat \ {0}
      BY <1>8, <2>4, NumBucketsFacts
    <3>2. DOMAIN g.tab[1] = DOMAIN h.tab[1]
      BY <1>6 DEF Tables
    <3> QED BY <1>8, <3>1, <3>2 DEF Indices
  <2>6. Position(g, 1, 0, 0, Q)
    BY <2>3, <2>5 DEF Position, Tables
  <2>7. Left(E, 1, 0) <= m - 1
    BY <1>1, <1>7, <1>8, <1>13 DEF Left
  <2> QED BY <1>6, <1>10, <2>1, <2>6, <2>7 DEF Going
<1>14. CASE ~ (j + 1 < NumBuckets(E[t])) /\ ~ (IsRehashing(g) /\ t = 0)
  <2>1. EndOfIndex(w) = Walk(g, i, Yes)
    BY <1>5, <1>6, <1>14
  <2>2. ASSUME NEW x \in Q PROVE FALSE
    <3>1. PICK c, d, e : Placed(h, x, c, d, e) /\ (c > t \/ (c = t /\ d > j))
      BY <1>4
    <3>2. c \in Tables /\ d \in DOMAIN h.tab[c]
      BY <3>1 DEF Placed
    <3>3. c \in Nat /\ d \in Nat /\ d < NumBuckets(E[c])
      BY <1>1, <3>2, PlaceTypes
    <3>4. c > t
      BY <1>7, <1>14, <3>1, <3>3
    <3>5. t = 0 /\ c = 1
      BY <1>9, <3>2, <3>4 DEF Tables
    <3>6. E[1] = -1
      BY <1>6, <1>14, <3>5, RehashingExp
    <3>7. NumBuckets(E[1]) = 0
      BY <1>8, <3>6, NumBucketsFacts
    <3> QED BY <3>3, <3>5, <3>7
  <2>3. Q = {}
    BY <2>2
  <2> QED BY <1>6, <1>10, <2>1, <2>3 DEF Over
<1> QED BY <1>12, <1>13, <1>14

\* A round of the loop of Advance().
Round(v) == IF v.end \/ Ahead(v.ht, v.it) # {} THEN v ELSE EndOfIndex(v)

\* The walks of the loop.
WalkRounds(w, n, f) == f = [k \in 0 .. n |-> IF k = 0 THEN w ELSE Round(f[k - 1])]

\* They exist.
LEMMA WalkRoundsExist ==
  ASSUME NEW w, NEW n \in Nat
  PROVE  \E f : WalkRounds(w, n, f)
<1> DEFINE P == {k \in Nat : \E f : WalkRounds(w, k, f)}
<1>1. 0 \in P
  <2>1. WalkRounds(w, 0, [i \in 0 .. 0 |-> w])
    BY DEF WalkRounds
  <2> QED BY <2>1
<1>2. ASSUME NEW k \in Nat, k \in P PROVE k + 1 \in P
  <2>1. PICK f : WalkRounds(w, k, f)
    BY <1>2
  <2> DEFINE g == [i \in 0 .. (k + 1) |-> IF i <= k THEN f[i] ELSE Round(f[i - 1])]
  <2>2. f = [i \in 0 .. k |-> IF i = 0 THEN w ELSE Round(f[i - 1])]
    BY <2>1 DEF WalkRounds
  <2>3. f[0] = w /\ \A i \in 1 .. k : f[i] = Round(f[i - 1])
    BY <2>2
  <2>4. g[0] = w
    BY <2>3
  <2>5. ASSUME NEW i \in 1 .. (k + 1) PROVE g[i] = Round(g[i - 1])
    <3>1. g[i - 1] = f[i - 1]
      OBVIOUS
    <3>2. g[i] = Round(f[i - 1])
      <4>1. CASE i <= k
        BY <4>1, <2>3
      <4>2. CASE ~ (i <= k)
        BY <4>2
      <4> QED BY <4>1, <4>2
    <3> QED BY <3>1, <3>2
  <2>6. g = [i \in 0 .. (k + 1) |-> g[i]]
    OBVIOUS
  <2> HIDE DEF g
  <2>7. [i \in 0 .. (k + 1) |-> g[i]] = [i \in 0 .. (k + 1) |-> IF i = 0 THEN w ELSE Round(g[i - 1])]
    BY <2>4, <2>5
  <2>8. WalkRounds(w, k + 1, g)
    BY <2>6, <2>7 DEF WalkRounds
  <2> QED BY <2>8
<1> HIDE DEF P
<1>3. Nat \subseteq P
  BY <1>1, <1>2, NatSetInduction
<1> QED BY <1>3 DEF P

\* The iterator stands before an entry.
Standing(w, X, q, Q, l) ==
  \E h, t, j, k, z : /\ w = Walk(h, It(t, j, k, z, l, Q), No)
                     /\ Has(h, X, q) /\ Position(h, t, j, k, Q)
                     /\ Ahead(h, It(t, j, k, z, l, Q)) # {}

\* Advance() ends before an entry, or at the end with nothing owed.
LEMMA AdvanceFacts ==
  ASSUME NEW w, NEW X, NEW q, NEW Q, NEW l, NEW E, NEW M \in Nat,
         M = NumBuckets(w.ht.exp[0]) + NumBuckets(w.ht.exp[1]),
         Over(w, X, q, Q) \/ Going(w, X, q, Q, l, E, M)
  PROVE  Over(Advance(w), X, q, Q) \/ Standing(Advance(w), X, q, Q, l)
<1> DEFINE f == CHOOSE f : WalkRounds(w, M, f)
<1>1. Advance(w) = f[M]
  BY DEF Advance, Iterate, WalkRounds, Round
<1>2. WalkRounds(w, M, f)
  BY WalkRoundsExist
<1> HIDE DEF f
<1>3. f[0] = w /\ \A k \in 1 .. M : f[k] = Round(f[k - 1])
  BY <1>2 DEF WalkRounds
<1>4. ASSUME NEW v, Over(v, X, q, Q) PROVE Round(v) = v
  <2>1. PICK h, i : v = Walk(h, i, Yes)
    BY <1>4 DEF Over
  <2>2. v.end
    BY <2>1, WalkFields
  <2> QED BY <2>2 DEF Round
<1>5. ASSUME NEW v, Standing(v, X, q, Q, l) PROVE Round(v) = v
  <2>1. PICK h, t, j, k, z : v = Walk(h, It(t, j, k, z, l, Q), No) /\ Ahead(h, It(t, j, k, z, l, Q)) # {}
    BY <1>5 DEF Standing
  <2>2. Ahead(v.ht, v.it) # {}
    BY <2>1, WalkFields
  <2> QED BY <2>2 DEF Round
<1>6. ASSUME NEW v, NEW m \in Nat, Going(v, X, q, Q, l, E, m)
      PROVE  \/ Standing(v, X, q, Q, l)
             \/ m # 0 /\ (Over(Round(v), X, q, Q) \/ Going(Round(v), X, q, Q, l, E, m - 1))
  <2>1. PICK h, t, j, k, z : /\ v = Walk(h, It(t, j, k, z, l, Q), No)
                             /\ Has(h, X, q) /\ Position(h, t, j, k, Q)
    BY <1>6 DEF Going
  <2>2. v.ht = h /\ v.it = It(t, j, k, z, l, Q) /\ ~ v.end
    BY <2>1, WalkFields
  <2>3. CASE Ahead(v.ht, v.it) # {}
    BY <2>1, <2>2, <2>3 DEF Standing
  <2>4. CASE Ahead(v.ht, v.it) = {}
    <3>1. Round(v) = EndOfIndex(v)
      BY <2>2, <2>4 DEF Round
    <3> QED BY <1>6, <2>4, <3>1, EndOfIndexFacts
  <2> QED BY <2>3, <2>4
<1> DEFINE S == {k \in Nat : Over(f[k], X, q, Q) \/ Standing(f[k], X, q, Q, l) \/ Going(f[k], X, q, Q, l, E, M - k)}
<1>7. 0 \in S
  <2>1. M - 0 = M
    OBVIOUS
  <2> QED BY <1>3, <2>1
<1>8. ASSUME NEW k \in Nat, k < M, k \in S PROVE k + 1 \in S
  <2>1. k + 1 \in 1 .. M /\ (k + 1) - 1 = k /\ k + 1 \in Nat /\ M - k \in Nat /\ (M - k) - 1 = M - (k + 1)
    BY <1>8
  <2>2. f[k + 1] = Round(f[k])
    BY <1>3, <2>1
  <2>3. CASE Over(f[k], X, q, Q)
    BY <1>4, <2>1, <2>2, <2>3
  <2>4. CASE Standing(f[k], X, q, Q, l)
    BY <1>5, <2>1, <2>2, <2>4
  <2>5. CASE Going(f[k], X, q, Q, l, E, M - k) /\ ~ Standing(f[k], X, q, Q, l)
    <3> DEFINE m == M - k
    <3>1. m \in Nat /\ Going(f[k], X, q, Q, l, E, m)
      BY <2>1, <2>5
    <3> HIDE DEF m
    <3>2. Over(Round(f[k]), X, q, Q) \/ Going(Round(f[k]), X, q, Q, l, E, m - 1)
      BY <1>6, <2>5, <3>1
    <3>3. m - 1 = M - (k + 1)
      BY <2>1 DEF m
    <3> QED BY <2>1, <2>2, <3>2, <3>3
  <2> QED BY <1>8, <2>3, <2>4, <2>5
<1>9. M \in S
  <2> HIDE DEF S
  <2>1. \A k \in 0 .. M : k \in S
    BY <1>7, <1>8, IntervalInduction
  <2> QED BY <2>1
<1>10. Over(f[M], X, q, Q) \/ Standing(f[M], X, q, Q, l) \/ Going(f[M], X, q, Q, l, E, M - M)
  BY <1>9
<1>11. Going(f[M], X, q, Q, l, E, M - M) => Standing(f[M], X, q, Q, l)
  <2> DEFINE m == M - M
  <2>1. m = 0
    OBVIOUS
  <2> HIDE DEF m
  <2>2. Going(f[M], X, q, Q, l, E, m) => Standing(f[M], X, q, Q, l)
    BY <1>6, <2>1
  <2> QED BY <2>2 DEF m
<1> QED BY <1>1, <1>10, <1>11

-----------------------------------------------------------------------------
(* The inductive invariant.                                                *)

\* A scan, and an iterator that has not begun.
Sc(b, v, Q) == [on |-> b, cursor |-> v, due |-> Q]
Waiting(Q) == [on |-> Yes, begun |-> No, table |-> 0, idx |-> 0, slot |-> 0, size |-> 0,
               last |-> None, due |-> Q]

\* The entries a scan of the entries X owes are at or beyond its cursor, in the order of the
\* reversed hashes.
ScanInv(s, X) ==
  \/ s = Sc(No, 0, {})
  \/ \E v, Q : /\ s = Sc(Yes, v, Q) /\ v \in Cursors /\ Q \subseteq X
               /\ \A x \in Q : Rev[v] <= Rev[Hash[x]]

\* While an iterator that has begun goes on rehashing is paused, and what it owes is ahead of it.
IterInv(i, h, X, p) ==
  \/ i = NoIter
  \/ \E Q : i = Waiting(Q) /\ Q \subseteq X
  \/ \E t, j, k, z, l, Q : p # 0 /\ i = It(t, j, k, z, l, Q) /\ Position(h, t, j, k, Q)

Inv == /\ Good(ht) /\ policy \in Policies
       /\ ScanInv(scan, Contents(ht)) /\ IterInv(iter, ht, Contents(ht), ht.pause)

\* The fields of a scan.
LEMMA ScFields ==
  ASSUME NEW b, NEW v, NEW Q, NEW s, s = Sc(b, v, Q)
  PROVE  /\ s.cursor = v /\ s.due = Q
         /\ b = Yes => s.on
         /\ b = No => ~ s.on
<1>1. s.cursor = v /\ s.due = Q /\ s.on = b
  BY DEF Sc
<1>2. b = Yes => s.on
  BY <1>1 DEF Yes
<1>3. b = No => ~ s.on
  BY <1>1 DEF No
<1> QED BY <1>1, <1>2, <1>3

\* The fields of an iterator that has not begun.
LEMMA WaitingFields ==
  /\ ~ NoIter.on /\ ~ NoIter.begun /\ NoIter.due = {} /\ NoIter.last = None
  /\ \A Q : Waiting(Q).on /\ ~ Waiting(Q).begun /\ Waiting(Q).due = Q /\ Waiting(Q).last = None
BY DEF NoIter, Waiting, Yes, No

\* What the states of an iterator have in common.
LEMMA IterCases ==
  ASSUME NEW i, NEW h, NEW X, NEW p, IterInv(i, h, X, p)
  PROVE  /\ i.begun => i.on /\ p # 0
         /\ ~ i.on => i = NoIter
<1>1. CASE i = NoIter
  BY <1>1, WaitingFields
<1>2. CASE \E Q : i = Waiting(Q) /\ Q \subseteq X
  BY <1>2, WaitingFields
<1>3. CASE \E t, j, k, z, l, Q : p # 0 /\ i = It(t, j, k, z, l, Q) /\ Position(h, t, j, k, Q)
  <2>1. PICK t, j, k, z, l, Q : p # 0 /\ i = It(t, j, k, z, l, Q)
    BY <1>3
  <2>2. i.begun /\ i.on
    BY <2>1, ItFields
  <2> QED BY <2>1, <2>2
<1> QED BY <1>1, <1>2, <1>3 DEF IterInv

\* More entries change nothing for a scan.
LEMMA ScanGrows ==
  ASSUME NEW s, NEW X, NEW Y, X \subseteq Y, ScanInv(s, X)
  PROVE  ScanInv(s, Y)
BY DEF ScanInv

\* Nor for an iterator, if no entry moves backwards.
LEMMA IterGrows ==
  ASSUME NEW i, NEW h, NEW g, NEW X, NEW Y, NEW p, X \subseteq Y, IterInv(i, h, X, p),
         Has(h, X, p), Has(g, Y, p), i.begun => Keeps(h, g, {})
  PROVE  IterInv(i, g, Y, p)
<1>1. CASE i = NoIter
  BY <1>1 DEF IterInv
<1>2. CASE \E Q : i = Waiting(Q) /\ Q \subseteq X
  BY <1>2 DEF IterInv
<1>3. CASE \E t, j, k, z, l, Q : p # 0 /\ i = It(t, j, k, z, l, Q) /\ Position(h, t, j, k, Q)
  <2>1. PICK t, j, k, z, l, Q : p # 0 /\ i = It(t, j, k, z, l, Q) /\ Position(h, t, j, k, Q)
    BY <1>3
  <2> DEFINE D == {}
  <2>2. Keeps(h, g, D) /\ Q \cap D = {} /\ Q \subseteq Q
    BY <2>1, ItFields
  <2> HIDE DEF D
  <2>3. Position(g, t, j, k, Q)
    BY <2>1, <2>2, KeepsPosition
  <2> QED BY <2>1, <2>3 DEF IterInv
<1> QED BY <1>1, <1>2, <1>3 DEF IterInv

\* The invariant, part by part.
LEMMA InvParts ==
  ASSUME Inv
  PROVE  /\ Has(ht, Contents(ht), ht.pause) /\ ht.pause \in Nat
         /\ policy \in Policies /\ ScanInv(scan, Contents(ht))
         /\ IterInv(iter, ht, Contents(ht), ht.pause)
         /\ iter.begun => iter.on /\ ht.pause # 0
         /\ ~ iter.on => iter = NoIter
<1>1. Has(ht, Contents(ht), ht.pause)
  BY DEF Inv, Has
<1>2. ht.pause \in Nat
  BY <1>1, GoodParts
<1>3. IterInv(iter, ht, Contents(ht), ht.pause)
  BY DEF Inv
<1>4. /\ iter.begun => iter.on /\ ht.pause # 0
      /\ ~ iter.on => iter = NoIter
  BY <1>3, IterCases
<1> QED BY <1>1, <1>2, <1>3, <1>4 DEF Inv

\* A step that only changes the table keeps the invariant if it keeps the entries and, for an
\* iterator that has begun, moves none backwards.
LEMMA Carried ==
  ASSUME Inv, NEW g, NEW Y, Has(g, Y, ht.pause), Contents(ht) \subseteq Y,
         iter.begun => Keeps(ht, g, {}), ht' = g, UNCHANGED <<policy, scan, iter>>
  PROVE  Inv'
<1>1. /\ Has(ht, Contents(ht), ht.pause) /\ policy \in Policies /\ ScanInv(scan, Contents(ht))
      /\ IterInv(iter, ht, Contents(ht), ht.pause)
  BY InvParts
<1>2. ScanInv(scan, Y)
  BY <1>1, ScanGrows
<1>3. IterInv(iter, g, Y, ht.pause)
  BY <1>1, IterGrows
<1>4. Good(g) /\ Contents(g) = Y /\ g.pause = ht.pause
  BY DEF Has
<1>5. Contents(ht)' = Y /\ Good(ht)' /\ (ht.pause)' = ht.pause /\ policy' = policy /\ scan' = scan /\ iter' = iter
  BY <1>4
<1>6. ScanInv(scan, Contents(ht))'
  BY <1>2, <1>5
<1>7. IterInv(iter, ht, Contents(ht), ht.pause)'
  BY <1>3, <1>4, <1>5
<1> QED BY <1>1, <1>5, <1>6, <1>7 DEF Inv

-----------------------------------------------------------------------------
(* The invariant holds initially and is kept by every operation.           *)

\* A hash table without tables.
Nothing(p) == Mk(-1, -1, EmptyTable(-1), EmptyTable(-1), -1, p)

\* It is sound, and empty.
LEMMA NothingFacts ==
  ASSUME NEW p \in Nat
  PROVE  Has(Nothing(p), {}, p)
<1> DEFINE e == -1
           T == EmptyTable(e)
<1>1. e \in Exps
  BY HashAssumption DEF Exps
<1> HIDE DEF e
<1>2. GoodTable(T, e) /\ Stored(T) = {}
  BY <1>1, EmptyTableFacts
<1>3. NumBuckets(e) \in Nat
  BY <1>1, NumBucketsFacts
<1>4. e \in -1 .. NumBuckets(e) - 1 /\ 0 .. e - 1 = {}
  BY <1>3 DEF e
<1> HIDE DEF T
<1>5. Sound(e, e, T, T, e)
  BY <1>1, <1>2, <1>4 DEF Sound, e
<1>6. Has(Mk(e, e, T, T, e, p), Stored(T) \cup Stored(T), p)
  BY <1>5, MkGood
<1>7. Stored(T) \cup Stored(T) = {}
  BY <1>2
<1> QED BY <1>6, <1>7 DEF Nothing, T, e

\* The empty table satisfies the invariant.
LEMMA InitInv ==
  ASSUME Init
  PROVE  Inv
<1>1. ht = Nothing(0)
  <2>1. [t \in Tables |-> -1] = Pair(-1, -1) /\ [t \in Tables |-> EmptyTable(-1)] = Pair(EmptyTable(-1), EmptyTable(-1))
    <3> DEFINE E == EmptyTable(-1)
    <3> HIDE DEF E
    <3>1. [t \in Tables |-> -1] = Pair(-1, -1) /\ [t \in Tables |-> E] = Pair(E, E)
      BY DEF Pair
    <3> QED BY <3>1 DEF E
  <2> QED BY <2>1 DEF Init, Nothing, Mk
<1>2. Has(ht, {}, 0)
  BY <1>1, NothingFacts
<1>3. Good(ht) /\ Contents(ht) = {} /\ ht.pause = 0
  BY <1>2 DEF Has
<1>4. scan = Sc(No, 0, {}) /\ iter = NoIter /\ policy \in Policies
  BY HashAssumption DEF Init, NoScan, Sc, No
<1> QED BY <1>3, <1>4 DEF Inv, ScanInv, IterInv

\* A read may rehash, unless rehashing is paused.
LEMMA ReadFacts ==
  ASSUME NEW h, NEW X, NEW p, Has(h, X, p)
  PROVE  Has(OnRead(h), X, p) /\ (p # 0 => OnRead(h) = h)
<1> DEFINE when == "ALLOW"
<1>1. /\ Has(RehashStepIf(h, when), X, p) /\ Has(OnRead(h), X, p)
      /\ h.exp[0] # -1 => RehashStepIf(h, when).exp[0] # -1
      /\ p # 0 => RehashStepIf(h, when) = h /\ OnRead(h) = h
  BY RehashStepIfFacts
<1> QED BY <1>1

\* hashtableFind() keeps the invariant.
LEMMA FindStep ==
  ASSUME Inv, Find
  PROVE  Inv'
<1> DEFINE X == Contents(ht)
<1>1. Has(ht, X, ht.pause) /\ (iter.begun => ht.pause # 0)
  BY InvParts
<1>2. Has(OnRead(ht), X, ht.pause) /\ (ht.pause # 0 => OnRead(ht) = ht)
  BY <1>1, ReadFacts
<1>3. iter.begun => Keeps(ht, OnRead(ht), {})
  BY <1>1, <1>2, KeepsItself
<1>4. ht' = OnRead(ht) /\ UNCHANGED <<policy, scan, iter>>
  BY DEF Find
<1> QED BY <1>2, <1>3, <1>4, Carried

\* hashtableAdd() keeps the invariant.
LEMMA AddStep ==
  ASSUME Inv, NEW x \in Elems, NEW allowed \in BOOLEAN, Add(x, allowed)
  PROVE  Inv'
<1> DEFINE X == Contents(ht)
           h == OnRead(ht)
<1>1. Has(ht, X, ht.pause) /\ (iter.begun => iter.on /\ ht.pause # 0)
  BY InvParts
<1>2. Has(h, X, ht.pause) /\ (ht.pause # 0 => h = ht)
  BY <1>1, ReadFacts
<1>3. ht' = (IF Found(h, x) THEN h ELSE Insert(h, x, allowed)) /\ UNCHANGED <<policy, scan, iter>>
  BY DEF Add
<1> HIDE DEF h, X
<1>4. CASE Found(h, x)
  <2>1. iter.begun => Keeps(ht, h, {})
    BY <1>1, <1>2, KeepsItself
  <2>2. ht' = h
    BY <1>3, <1>4
  <2> QED BY <1>2, <1>3, <2>1, <2>2, Carried DEF X
<1>5. CASE ~ Found(h, x)
  <2>1. x \notin X
    BY <1>2, <1>5, FoundFacts
  <2>2. /\ Has(Insert(h, x, allowed), X \cup {x}, ht.pause)
        /\ iter.on /\ ht.pause # 0 => Keeps(h, Insert(h, x, allowed), {})
    BY <1>2, <2>1, InsertFacts
  <2> DEFINE g == Insert(h, x, allowed)
             Y == X \cup {x}
  <2>3. ht' = g
    BY <1>3, <1>5
  <2>4. X \subseteq Y
    OBVIOUS
  <2> HIDE DEF g, Y
  <2>5. Has(g, Y, ht.pause) /\ (iter.begun => Keeps(ht, g, {}))
    BY <1>1, <1>2, <2>2 DEF g, Y
  <2> QED BY <1>3, <2>3, <2>4, <2>5, Carried DEF X
<1> QED BY <1>4, <1>5

\* hashtableExpand() keeps the invariant.
LEMMA ExpandStep ==
  ASSUME Inv, NEW size \in Sizes, NEW allowed \in BOOLEAN, Expand(size, allowed)
  PROVE  Inv'
<1> DEFINE want == IF size = 0 THEN 1 ELSE size
           g == Resize(ht, size, allowed)
<1>1. Has(ht, Contents(ht), ht.pause) /\ ~ iter.begun
  BY InvParts DEF Expand
<1>2. ~ IsRehashing(ht) /\ ht' = g /\ UNCHANGED <<policy, scan, iter>>
  BY DEF Expand
<1>3. Fits(size)
  BY FitsFacts
<1> HIDE DEF want
<1>4. Room(Resize(ht, size, allowed), Contents(ht), ht.pause)
  <2>1. want = IF size = 0 THEN 1 ELSE size
    BY DEF want
  <2> QED BY <1>1, <1>2, <1>3, <2>1, ResizeFacts
<1>5. Has(g, Contents(ht), ht.pause)
  BY <1>4 DEF Room
<1> HIDE DEF g
<1> QED BY <1>1, <1>2, <1>5, Carried

\* hashtableRightsizeIfNeeded() keeps the invariant.
LEMMA RightsizeStep ==
  ASSUME Inv, NEW allowed \in BOOLEAN, Rightsize(allowed)
  PROVE  Inv'
<1> DEFINE h == ShrinkIfNeeded(ht)
           g == ExpandIfNeeded(ht, allowed)
<1>1. Has(ht, Contents(ht), ht.pause) /\ (iter.begun => iter.on /\ ht.pause # 0)
  BY InvParts
<1>2. Has(h, Contents(ht), ht.pause) /\ (ht.pause # 0 => h = ht)
  BY <1>1, ShrinkFacts
<1>3. Has(g, Contents(ht), ht.pause) /\ (iter.begun => Keeps(ht, g, {}))
  BY <1>1, ExpandFacts DEF Room
<1>4. ht' = (IF h # ht THEN h ELSE g) /\ UNCHANGED <<policy, scan, iter>>
  BY DEF Rightsize
<1> HIDE DEF h, g
<1>5. CASE h # ht
  <2>1. ht' = h /\ ~ iter.begun
    BY <1>1, <1>2, <1>4, <1>5
  <2> QED BY <1>2, <1>4, <2>1, Carried
<1>6. CASE h = ht
  <2>1. ht' = g
    BY <1>4, <1>6
  <2> QED BY <1>3, <1>4, <2>1, Carried
<1> QED BY <1>5, <1>6

\* hashtableRehashMicroseconds() keeps the invariant.
LEMMA RehashMicrosecondsStep ==
  ASSUME Inv, RehashMicroseconds
  PROVE  Inv'
<1>1. Has(ht, Contents(ht), ht.pause) /\ (iter.begun => ht.pause # 0)
  BY InvParts
<1>2. IsRehashing(ht) /\ ht.pause = 0 /\ ht' = RehashStep(ht) /\ UNCHANGED <<policy, scan, iter>>
  BY DEF RehashMicroseconds
<1>3. Has(RehashStep(ht), Contents(ht), ht.pause)
  BY <1>1, <1>2, RehashStepFacts DEF Room
<1> QED BY <1>1, <1>2, <1>3, Carried

\* hashtableSetResizePolicy() keeps the invariant.
LEMMA SetResizePolicyStep ==
  ASSUME Inv, NEW p \in Policies, SetResizePolicy(p)
  PROVE  Inv'
<1>1. ht' = ht /\ scan' = scan /\ iter' = iter /\ policy' = p
  BY DEF SetResizePolicy
<1> QED BY <1>1 DEF Inv

\* Assignments to the entries owed.
SetScDue(s, Q) == [s EXCEPT !.due = Q]

\* What they make of a scan and of an iterator that has not begun.
LEMMA ScSet ==
  /\ \A b, v, Q, R : SetScDue(Sc(b, v, Q), R) = Sc(b, v, R)
  /\ \A Q, R : SetDue(Waiting(Q), R) = Waiting(R)
  /\ \A Q, l : SetLast(Waiting(Q), None) = Waiting(Q)
  /\ SetDue(NoIter, {}) = NoIter /\ SetLast(NoIter, None) = NoIter
<1>1. \A b, v, Q, R : SetScDue(Sc(b, v, Q), R) = Sc(b, v, R)
  BY DEF SetScDue, Sc
<1>2. \A Q, R : SetDue(Waiting(Q), R) = Waiting(R)
  BY DEF SetDue, Waiting
<1>3. \A Q, l : SetLast(Waiting(Q), None) = Waiting(Q)
  BY DEF SetLast, Waiting
<1>4. SetDue(NoIter, {}) = NoIter /\ SetLast(NoIter, None) = NoIter
  <2> DEFINE i == [on |-> No, begun |-> No, table |-> 0, idx |-> 0, slot |-> 0, size |-> 0,
                   last |-> None, due |-> {}]
  <2>1. NoIter = i
    BY DEF NoIter, No
  <2>2. SetDue(i, {}) = i
    BY DEF SetDue
  <2>3. SetLast(i, None) = i
    BY DEF SetLast
  <2> HIDE DEF i
  <2> QED BY <2>1, <2>2, <2>3
<1> QED BY <1>1, <1>2, <1>3, <1>4

\* A scan that owes less, of the entries Y.
LEMMA ScanOwesLess ==
  ASSUME NEW s, NEW X, ScanInv(s, X), NEW R, NEW Y, R \subseteq s.due, R \subseteq Y
  PROVE  ScanInv(SetScDue(s, R), Y)
<1>1. CASE s = Sc(No, 0, {})
  <2>1. R = {}
    BY <1>1, ScFields
  <2>2. SetScDue(s, R) = Sc(No, 0, R)
    BY <1>1, ScSet
  <2> QED BY <2>1, <2>2 DEF ScanInv
<1>2. CASE \E v, Q : /\ s = Sc(Yes, v, Q) /\ v \in Cursors /\ Q \subseteq X
                     /\ \A x \in Q : Rev[v] <= Rev[Hash[x]]
  <2>1. PICK v, Q : /\ s = Sc(Yes, v, Q) /\ v \in Cursors /\ Q \subseteq X
                    /\ \A x \in Q : Rev[v] <= Rev[Hash[x]]
    BY <1>2
  <2>2. s.due = Q
    BY <2>1, ScFields
  <2>3. SetScDue(s, R) = Sc(Yes, v, R)
    BY <2>1, ScSet
  <2>4. \A x \in R : Rev[v] <= Rev[Hash[x]]
    BY <2>1, <2>2
  <2> QED BY <2>1, <2>3, <2>4 DEF ScanInv
<1> QED BY <1>1, <1>2 DEF ScanInv

\* hashtableEmpty() keeps the invariant.
LEMMA EmptyStep ==
  ASSUME Inv, Empty
  PROVE  Inv'
<1> DEFINE p == ht.pause
<1>1. Has(ht, Contents(ht), p) /\ p \in Nat /\ iter = NoIter
  BY InvParts DEF Empty
<1>2. policy \in Policies /\ ScanInv(scan, Contents(ht))
  BY InvParts
<1>3. ht' = Nothing(p)
  <2>1. PICK e0, e1, T0, T1, r : ht = Mk(e0, e1, T0, T1, r, p)
    BY <1>1, GoodParts
  <2> DEFINE E == EmptyTable(-1)
  <2>2. [t \in Tables |-> -1] = Pair(-1, -1) /\ [t \in Tables |-> E] = Pair(E, E)
    <3> HIDE DEF E
    <3> QED BY DEF Pair
  <2>3. ht' = [ht EXCEPT !.exp = [t \in Tables |-> -1], !.tab = [t \in Tables |-> E], !.rehash = -1]
    BY DEF Empty
  <2> HIDE DEF E, p
  <2>4. ht' = Mk(-1, -1, E, E, -1, p)
    BY <2>1, <2>2, <2>3 DEF Mk
  <2> QED BY <2>4 DEF Nothing, E
<1> HIDE DEF p
<1>4. Has(ht', {}, p)
  BY <1>1, <1>3, NothingFacts
<1>5. (Good(ht))' /\ Contents(ht)' = {}
  BY <1>1, <1>4 DEF Has
<1>6. scan' = SetScDue(scan, {}) /\ policy' = policy /\ iter' = iter
  BY DEF Empty, SetScDue
<1>7. ScanInv(SetScDue(scan, {}), {})
  BY <1>2, ScanOwesLess
<1>8. ScanInv(scan, Contents(ht))'
  BY <1>5, <1>6, <1>7
<1>9. IterInv(iter, ht, Contents(ht), ht.pause)'
  BY <1>1, <1>5, <1>6 DEF IterInv
<1> QED BY <1>2, <1>5, <1>6, <1>8, <1>9 DEF Inv

\* hashtablePop() keeps the invariant.
LEMMA PopStep ==
  ASSUME Inv, NEW x \in Elems, Pop(x)
  PROVE  Inv'
<1> DEFINE X == Contents(ht)
           p == ht.pause
           h == OnRead(ht)
           g == IF Found(h, x) THEN PopEntry(h, x) ELSE h
           Y == X \ {x}
           last == IF iter.last = x THEN None ELSE iter.last
           rest == iter.due \ {x}
<1>1. /\ Has(ht, X, p) /\ policy \in Policies
      /\ ScanInv(scan, X) /\ IterInv(iter, ht, X, p)
  BY InvParts
<1>2. Has(h, X, p) /\ (p # 0 => h = ht)
  BY <1>1, ReadFacts
<1>3. /\ ht' = g /\ scan' = SetScDue(scan, scan.due \ {x}) /\ policy' = policy
      /\ iter' = SetLast(SetDue(iter, rest), last)
  <2>1. ht' = g /\ policy' = policy
    BY DEF Pop
  <2>2. scan' = SetScDue(scan, scan.due \ {x})
    BY DEF Pop, SetScDue
  <2>3. iter' = [iter EXCEPT !.due = rest, !.last = last]
    BY DEF Pop
  <2> HIDE DEF rest, last
  <2>4. iter' = SetLast(SetDue(iter, rest), last)
    BY <2>3 DEF SetLast, SetDue
  <2> QED BY <2>1, <2>2, <2>4
<1>4. Has(g, Y, p) /\ (p # 0 => Keeps(ht, g, {x}))
  <2> HIDE DEF h, X, p
  <2>1. CASE Found(h, x)
    <3>1. x \in X
      BY <1>2, <2>1, FoundFacts
    <3>2. Has(PopEntry(h, x), X \ {x}, p) /\ (p # 0 => Keeps(h, PopEntry(h, x), {x}))
      BY <1>2, <3>1, PopFacts
    <3> QED BY <1>2, <2>1, <3>2
  <2>2. CASE ~ Found(h, x)
    <3>1. x \notin X
      BY <1>2, <2>2, FoundFacts
    <3>2. Y = X
      BY <3>1
    <3> DEFINE D == {x}
    <3> HIDE DEF D
    <3>3. p # 0 => Keeps(ht, h, D)
      BY <1>1, <1>2, KeepsItself
    <3> QED BY <1>2, <2>2, <3>2, <3>3 DEF D
  <2> QED BY <2>1, <2>2
<1> HIDE DEF g, h
<1>5. Good(g) /\ Contents(g) = Y /\ g.pause = p
  BY <1>4 DEF Has
<1>6. scan.due \subseteq X
  <2>1. CASE scan = Sc(No, 0, {})
    BY <2>1, ScFields
  <2>2. CASE \E v, Q : scan = Sc(Yes, v, Q) /\ Q \subseteq X
    BY <2>2, ScFields
  <2> QED BY <1>1, <2>1, <2>2 DEF ScanInv
<1>7. ScanInv(SetScDue(scan, scan.due \ {x}), Y)
  <2> DEFINE R == scan.due \ {x}
  <2>1. R \subseteq scan.due /\ R \subseteq Y
    BY <1>6
  <2> HIDE DEF R, X, Y
  <2>2. ScanInv(SetScDue(scan, R), Y)
    BY <1>1, <2>1, ScanOwesLess
  <2> QED BY <2>2 DEF R
<1>8. IterInv(iter', g, Y, p)
  <2>1. CASE iter = NoIter
    <3>1. rest = {} /\ last = None
      BY <2>1, WaitingFields
    <3> HIDE DEF rest, last, Y, X, p
    <3>2. iter' = NoIter
      BY <1>3, <2>1, <3>1, ScSet
    <3> QED BY <2>1, <3>2 DEF IterInv
  <2>2. CASE \E Q : iter = Waiting(Q) /\ Q \subseteq X
    <3>1. PICK Q : iter = Waiting(Q) /\ Q \subseteq X
      BY <2>2
    <3>2. rest = Q \ {x} /\ last = None
      BY <3>1, WaitingFields
    <3>3. rest \subseteq Y
      BY <3>1, <3>2
    <3> HIDE DEF rest, last, Y, X, p
    <3>4. iter' = Waiting(rest)
      BY <1>3, <3>1, <3>2, ScSet
    <3> QED BY <3>1, <3>3, <3>4 DEF IterInv
  <2>3. CASE \E t, j, k, z, l, Q : p # 0 /\ iter = It(t, j, k, z, l, Q) /\ Position(ht, t, j, k, Q)
    <3>1. PICK t, j, k, z, l, Q : p # 0 /\ iter = It(t, j, k, z, l, Q) /\ Position(ht, t, j, k, Q)
      BY <2>3
    <3>2. rest = Q \ {x}
      BY <3>1, ItFields
    <3> DEFINE D == {x}
    <3>3. rest \subseteq Q /\ rest \cap D = {} /\ Keeps(ht, g, D)
      BY <1>4, <3>1, <3>2
    <3> HIDE DEF rest, last, Y, X, p, D
    <3>4. Position(g, t, j, k, rest)
      BY <1>1, <1>4, <3>1, <3>3, KeepsPosition
    <3>5. SetDue(iter, rest) = It(t, j, k, z, l, rest)
      BY <3>1, ItSet
    <3>6. iter' = It(t, j, k, z, last, rest)
      BY <1>3, <3>5, ItSet
    <3> QED BY <3>1, <3>4, <3>6 DEF IterInv
  <2> QED BY <1>1, <2>1, <2>2, <2>3 DEF IterInv
<1> HIDE DEF X, Y, p, last, rest
<1>9. Contents(ht)' = Y /\ Good(ht)' /\ (ht.pause)' = p
  BY <1>3, <1>5
<1>10. ScanInv(scan, Contents(ht))'
  BY <1>3, <1>7, <1>9
<1>11. IterInv(iter, ht, Contents(ht), ht.pause)'
  BY <1>3, <1>8, <1>9
<1> QED BY <1>1, <1>3, <1>9, <1>10, <1>11 DEF Inv

\* hashtableInitIterator() keeps the invariant.
LEMMA InitIteratorStep ==
  ASSUME Inv, InitIterator
  PROVE  Inv'
<1> DEFINE X == Contents(ht)
<1>1. ht' = ht /\ scan' = scan /\ policy' = policy
  BY DEF InitIterator
<1>2. iter' = Waiting(X)
  BY DEF InitIterator, NoIter, Waiting, Yes, No
<1>3. IterInv(iter', ht, X, ht.pause)
  BY <1>2 DEF IterInv
<1> QED BY <1>1, <1>3 DEF Inv

\* hashtableCleanupIterator() keeps the invariant.
LEMMA CleanupIteratorStep ==
  ASSUME Inv, CleanupIterator
  PROVE  Inv'
<1> DEFINE X == Contents(ht)
<1>1. /\ Has(ht, X, ht.pause) /\ policy \in Policies /\ ScanInv(scan, X)
      /\ ht.pause \in Nat /\ (iter.begun => ht.pause # 0)
  BY InvParts
<1>2. ht' = (IF iter.begun THEN Resume(ht) ELSE ht) /\ iter' = NoIter /\ scan' = scan /\ policy' = policy
  BY DEF CleanupIterator
<1> HIDE DEF X
<1>3. \E p : Has(ht', X, p)
  <2>1. CASE iter.begun
    <3> DEFINE n == ht.pause
               p == ht.pause - 1
    <3>1. p \in Nat /\ n = p + 1 /\ Has(ht, X, n)
      BY <1>1, <2>1
    <3> HIDE DEF p, n
    <3>2. Has(Resume(ht), X, p)
      BY <3>1, ResumeFacts
    <3> QED BY <1>2, <2>1, <3>2
  <2>2. CASE ~ iter.begun
    BY <1>1, <1>2, <2>2
  <2> QED BY <2>1, <2>2
<1>4. (Good(ht))' /\ Contents(ht)' = X
  BY <1>3 DEF Has
<1>5. ScanInv(scan, Contents(ht))'
  BY <1>1, <1>2, <1>4
<1>6. IterInv(iter, ht, Contents(ht), ht.pause)'
  BY <1>2, <1>4 DEF IterInv
<1> QED BY <1>1, <1>2, <1>4, <1>5, <1>6 DEF Inv

\* The number of entries.
LEMMA SizeFacts ==
  ASSUME NEW h, NEW X, NEW p, Has(h, X, p)
  PROVE  /\ Size(h) \in Nat /\ (Size(h) = 0 <=> X = {})
         /\ IsFiniteSet(X) /\ Size(h) = Cardinality(X)
<1>1. PICK e0, e1, T0, T1, r : /\ h = Mk(e0, e1, T0, T1, r, p)
                               /\ Sound(e0, e1, T0, T1, r) /\ X = Stored(T0) \cup Stored(T1)
  BY GoodParts
<1>2. Held(h, 0) = Stored(T0) /\ Held(h, 1) = Stored(T1)
  BY <1>1, MkFacts
<1>3. /\ e0 \in Exps /\ e1 \in Exps /\ GoodTable(T0, e0) /\ GoodTable(T1, e1)
      /\ Stored(T0) \cap Stored(T1) = {}
  BY <1>1 DEF Sound
<1>4. /\ IsFiniteSet(Stored(T0)) /\ Cardinality(Stored(T0)) \in Nat
      /\ Cardinality(Stored(T0)) = 0 <=> Stored(T0) = {}
  BY <1>3, TableFacts
<1>5. /\ IsFiniteSet(Stored(T1)) /\ Cardinality(Stored(T1)) \in Nat
      /\ Cardinality(Stored(T1)) = 0 <=> Stored(T1) = {}
  BY <1>3, TableFacts
<1>6. Size(h) = Cardinality(Stored(T0)) + Cardinality(Stored(T1))
  BY <1>2 DEF Size, Used
<1> DEFINE A == Stored(T0)
           B == Stored(T1)
<1> HIDE DEF A, B
<1>7. IsFiniteSet(A) /\ IsFiniteSet(B) /\ A \cap B = {} /\ X = A \cup B
  BY <1>1, <1>3, <1>4, <1>5 DEF A, B
<1>8. IsFiniteSet(A \cup B) /\ Cardinality(A \cup B) = Cardinality(A) + Cardinality(B) - Cardinality(A \cap B)
  BY <1>7, FS_Union
<1>9. Cardinality(A \cap B) = 0
  BY <1>7, FS_EmptySet
<1>10. IsFiniteSet(X) /\ Size(h) = Cardinality(X)
  <2>1. Cardinality(A) \in Nat /\ Cardinality(B) \in Nat /\ Size(h) = Cardinality(A) + Cardinality(B)
    BY <1>4, <1>5, <1>6 DEF A, B
  <2>2. Cardinality(A \cup B) = Cardinality(A) + Cardinality(B)
    BY <1>8, <1>9, <2>1
  <2> QED BY <1>7, <1>8, <2>1, <2>2
<1> QED BY <1>1, <1>4, <1>5, <1>6, <1>10

\* One call of hashtableScan() in a table with entries: what is owed afterwards.
LEMMA ScanAdvances ==
  ASSUME NEW h, NEW X, NEW p, Has(h, X, p), X # {}, NEW s, ScanInv(s, X),
         NEW O, O = IF s.on THEN s.due ELSE X,
         NEW R, R = O \ Emitted(h, s.cursor), NEW next, next = Visit(h, s.cursor).next,
         NEW Y, R \subseteq Y
  PROVE  ScanInv([on |-> next # 0, cursor |-> next, due |-> R], Y)
<1>1. CursorBits \in Nat
  BY HashAssumption
<1>2. \A x \in X : Rev[Hash[x]] \in Nat
  <2>1. X \subseteq Elems
    BY GoodChains
  <2>2. \A x \in X : Hash[x] \in Cursors
    BY <2>1, HashAssumption DEF Cursors, Words
  <2>3. \A u \in Cursors : Rev[u] \in Nat
    BY <1>1, RevBitsType DEF Rev, Cursors, Words
  <2> QED BY <2>2, <2>3
<1>3. s.cursor \in Cursors /\ O \subseteq X /\ \A x \in O : Rev[s.cursor] <= Rev[Hash[x]]
  <2>1. CASE s = Sc(No, 0, {})
    <3>1. s.cursor = 0 /\ O = X
      <4>1. s.cursor = 0 /\ ~ s.on
        BY <2>1, ScFields
      <4> QED BY <4>1
    <3>2. Rev[0] = 0
      BY <1>1, RevConstant DEF Rev
    <3>3. 0 \in Cursors
      BY <1>1, Pow2Facts DEF Cursors, Words
    <3> QED BY <1>2, <3>1, <3>2, <3>3
  <2>2. CASE \E v, Q : /\ s = Sc(Yes, v, Q) /\ v \in Cursors /\ Q \subseteq X
                       /\ \A x \in Q : Rev[v] <= Rev[Hash[x]]
    <3>1. PICK v, Q : /\ s = Sc(Yes, v, Q) /\ v \in Cursors /\ Q \subseteq X
                      /\ \A x \in Q : Rev[v] <= Rev[Hash[x]]
      BY <2>2
    <3>2. s.on /\ s.cursor = v /\ s.due = Q
      BY <3>1, ScFields
    <3>3. O = Q
      BY <3>2
    <3> QED BY <3>1, <3>2, <3>3
  <2> QED BY <2>1, <2>2 DEF ScanInv
<1>4. /\ next \in Cursors
      /\ \A x \in X : Rev[s.cursor] <= Rev[Hash[x]] /\ x \notin Emitted(h, s.cursor) =>
              next # 0 /\ Rev[next] <= Rev[Hash[x]]
  <2> DEFINE v == s.cursor
  <2>1. v \in Cursors
    BY <1>3
  <2> HIDE DEF v
  <2>2. /\ Visit(h, v).next \in Cursors
        /\ \A x \in X : Rev[v] <= Rev[Hash[x]] /\ x \notin Emitted(h, v) =>
              Visit(h, v).next # 0 /\ Rev[Visit(h, v).next] <= Rev[Hash[x]]
    BY <2>1, VisitFacts
  <2> QED BY <2>2 DEF v
<1>5. \A x \in R : next # 0 /\ Rev[next] <= Rev[Hash[x]]
  BY <1>3, <1>4
<1>6. CASE next = 0
  <2>1. R = {}
    BY <1>5, <1>6
  <2>2. [on |-> next # 0, cursor |-> next, due |-> R] = Sc(No, 0, {})
    BY <1>6, <2>1 DEF Sc, No
  <2> QED BY <2>2 DEF ScanInv
<1>7. CASE next # 0
  <2>1. [on |-> next # 0, cursor |-> next, due |-> R] = Sc(Yes, next, R)
    BY <1>7 DEF Sc, Yes
  <2> QED BY <1>4, <1>5, <2>1 DEF ScanInv
<1> QED BY <1>6, <1>7

\* The table after a call of hashtableScan() whose callback deletes the entries D.
LEMMA ScanKeeps ==
  ASSUME NEW h, NEW X, NEW p, Has(h, X, p), NEW W, NEW D,
         NEW q, q = p + 1, NEW g, g = Resume(Purge(SetPause(h, q), W, D))
  PROVE  /\ \E Y : Has(g, Y, p) /\ X \ D \subseteq Y
         /\ D = {} => Has(g, X, p) /\ (p # 0 => g = h)
<1>1. p \in Nat /\ q \in Nat
  BY GoodParts
<1> DEFINE f == SetPause(h, q)
           k == Purge(f, W, D)
<1>2. Has(f, X, q)
  BY <1>1, PauseFacts
<1>3. g = Resume(k)
  OBVIOUS
<1> HIDE DEF f
<1>4. /\ \E Y : Has(k, Y, q) /\ Y \subseteq X /\ X \ D \subseteq Y
      /\ D = {} => k = f
  BY <1>2, PurgeFacts
<1> HIDE DEF k
<1>5. \E Y : Has(g, Y, p) /\ X \ D \subseteq Y
  <2>1. PICK Y : Has(k, Y, q) /\ X \ D \subseteq Y
    BY <1>4
  <2>2. Has(Resume(k), Y, p)
    BY <1>1, <2>1, ResumeFacts
  <2> QED BY <1>3, <2>1, <2>2
<1>6. ASSUME D = {} PROVE Has(g, X, p) /\ (p # 0 => g = h)
  <2>1. Has(Resume(f), X, p) /\ (p # 0 => Resume(f) = SetPause(f, p))
    BY <1>1, <1>2, ResumeFacts
  <2>2. SetPause(f, p) = h
    <3>1. PICK e0, e1, T0, T1, r : h = Mk(e0, e1, T0, T1, r, p)
      BY GoodParts
    <3>2. f = Mk(e0, e1, T0, T1, r, q)
      BY <3>1, MkSet DEF f
    <3> QED BY <3>1, <3>2, MkSet
  <2> QED BY <1>3, <1>4, <1>6, <2>1, <2>2
<1> QED BY <1>5, <1>6

\* hashtableScan() keeps the invariant.
LEMMA ScanCallStep ==
  ASSUME Inv, ScanCall
  PROVE  Inv'
<1> DEFINE X == Contents(ht)
           p == ht.pause
           v == scan.cursor
           O == IF scan.on THEN scan.due ELSE X
           next == Visit(ht, v).next
           W == Visit(ht, v).chains
           q == p + 1
<1>1. /\ Has(ht, X, p) /\ p \in Nat /\ policy \in Policies /\ ScanInv(scan, X) /\ IterInv(iter, ht, X, p)
      /\ (~ iter.on => iter = NoIter) /\ (iter.begun => p # 0)
  BY InvParts
<1>2. iter' = iter /\ policy' = policy
  BY DEF ScanCall
<1>3. Size(ht) \in Nat /\ (Size(ht) = 0 <=> X = {})
  BY <1>1, SizeFacts
<1>4. CASE Size(ht) = 0 /\ scan' = [NoScan EXCEPT !.due = O] /\ UNCHANGED ht
  <2>1. X = {}
    BY <1>3, <1>4
  <2>2. O = {}
    <3>1. CASE scan = Sc(No, 0, {})
      BY <2>1, <3>1, ScFields
    <3>2. CASE \E u, Q : scan = Sc(Yes, u, Q) /\ Q \subseteq X
      BY <2>1, <3>2, ScFields
    <3> QED BY <1>1, <3>1, <3>2 DEF ScanInv
  <2> HIDE DEF O
  <2>3. scan' = Sc(No, 0, {})
    BY <1>4, <2>2 DEF NoScan, Sc, No
  <2>4. ScanInv(scan', X)
    BY <2>3 DEF ScanInv
  <2>5. ht' = ht
    BY <1>4
  <2> QED BY <1>2, <2>4, <2>5 DEF Inv
<1>5. CASE /\ Size(ht) > 0
           /\ \E D \in IF iter.on THEN {{}} ELSE SUBSET Emitted(ht, v) :
                ht' = Resume(Purge(SetPause(ht, q), W, D))
           /\ scan' = [on |-> next # 0, cursor |-> next, due |-> O \ Emitted(ht, v)]
  <2>1. X # {}
    BY <1>3, <1>5
  <2>2. PICK D \in IF iter.on THEN {{}} ELSE SUBSET Emitted(ht, v) :
               ht' = Resume(Purge(SetPause(ht, q), W, D))
    BY <1>5
  <2>3. D \subseteq Emitted(ht, v) /\ (iter.on => D = {})
    BY <2>2
  <2> DEFINE R == O \ Emitted(ht, v)
             g == Resume(Purge(SetPause(ht, q), W, D))
  <2>4. /\ \E Y : Has(g, Y, p) /\ X \ D \subseteq Y
        /\ D = {} => Has(g, X, p) /\ (p # 0 => g = ht)
    <3> HIDE DEF W, X, p, g
    <3>1. q = p + 1 /\ g = Resume(Purge(SetPause(ht, q), W, D))
      BY DEF g
    <3> HIDE DEF q
    <3> QED BY <1>1, <3>1, ScanKeeps
  <2>5. ht' = g
    BY <2>2
  <2>6. O \subseteq X
    <3>1. CASE scan = Sc(No, 0, {})
      BY <3>1, ScFields
    <3>2. CASE \E u, Q : scan = Sc(Yes, u, Q) /\ Q \subseteq X
      BY <3>2, ScFields
    <3> QED BY <1>1, <3>1, <3>2 DEF ScanInv
  <2> HIDE DEF g
  <2>7. PICK Y : /\ Has(g, Y, p) /\ X \ D \subseteq Y
                 /\ D = {} => X \subseteq Y /\ (p # 0 => g = ht)
    <3>1. CASE D = {}
      <4>1. Has(g, X, p) /\ X \ D \subseteq X /\ X \subseteq X
        BY <2>4, <3>1
      <4> QED BY <2>4, <4>1
    <3>2. CASE D # {}
      BY <2>4, <3>2
    <3> QED BY <3>1, <3>2
  <2>8. R \subseteq Y
    BY <2>3, <2>6, <2>7
  <2>9. ScanInv([on |-> next # 0, cursor |-> next, due |-> R], Y)
    <3>1. /\ O = (IF scan.on THEN scan.due ELSE X) /\ R = O \ Emitted(ht, scan.cursor)
          /\ next = Visit(ht, scan.cursor).next
      OBVIOUS
    <3> HIDE DEF O, R, next, X, p, v
    <3> QED BY <1>1, <2>1, <2>8, <3>1, ScanAdvances
  <2>10. scan' = [on |-> next # 0, cursor |-> next, due |-> R]
    BY <1>5
  <2> HIDE DEF O, R, next, X, p, v, W, q
  <2>11. IterInv(iter, g, Y, p)
    <3>1. CASE ~ iter.on
      BY <1>1, <3>1 DEF IterInv
    <3>2. CASE iter.on
      <4>1. D = {} /\ X \subseteq Y /\ (p # 0 => g = ht)
        BY <2>3, <2>7, <3>2
      <4>2. iter.begun => Keeps(ht, g, {})
        BY <1>1, <4>1, KeepsItself
      <4> QED BY <1>1, <2>7, <4>1, <4>2, IterGrows
    <3> QED BY <3>1, <3>2
  <2>12. Good(g) /\ Contents(g) = Y /\ g.pause = p
    BY <2>7 DEF Has
  <2>13. (Good(ht))' /\ Contents(ht)' = Y /\ (ht.pause)' = p
    BY <2>5, <2>12
  <2>14. ScanInv(scan, Contents(ht))'
    BY <2>9, <2>10, <2>13
  <2>15. IterInv(iter, ht, Contents(ht), ht.pause)'
    BY <1>2, <2>5, <2>11, <2>13
  <2> QED BY <1>1, <1>2, <2>13, <2>14, <2>15 DEF Inv
<1> QED BY <1>4, <1>5 DEF ScanCall, Emitted, ChainAt, SetPause

\* Every entry has a place, and rehashing has left it.
LEMMA PlaceOfEntry ==
  ASSUME NEW h, NEW X, NEW p, Has(h, X, p), NEW x \in X
  PROVE  \E a, b, c : Placed(h, x, a, b, c) /\ (a = 1 \/ b >= h.rehash)
<1>1. PICK e0, e1, T0, T1, r : /\ h = Mk(e0, e1, T0, T1, r, p)
                               /\ Sound(e0, e1, T0, T1, r) /\ X = Stored(T0) \cup Stored(T1)
  BY GoodParts
<1>2. h.tab[0] = T0 /\ h.tab[1] = T1 /\ h.rehash = r
  BY <1>1, MkFields
<1>3. /\ e0 \in Exps /\ e1 \in Exps /\ GoodTable(T0, e0) /\ GoodTable(T1, e1)
      /\ r \in -1 .. NumBuckets(e0) - 1 /\ \A j \in 0 .. r - 1 : T0[j] = EmptyChain
  BY <1>1 DEF Sound
<1>4. PICK a \in Tables : x \in Stored(h.tab[a])
  BY <1>1, <1>2 DEF Tables
<1>5. PICK b \in DOMAIN h.tab[a] : x \in Entries(h.tab[a][b])
  BY <1>4 DEF Stored
<1> DEFINE d == h.tab[a][b]
<1>6. d \in Chains
  BY GoodChains
<1> HIDE DEF d
<1>7. PICK i \in 1 .. Len(d), q \in Positions : d[i][q] = x
  BY <1>5, <1>6, EntriesFacts DEF d
<1>8. x # None
  BY <1>5, <1>6, EntriesFacts DEF d
<1> DEFINE c == SlotOf(i, q)
<1>9. c \in Slots(d) /\ Slot(d, c) = x
  BY <1>6, <1>7, CellIsSlot
<1> HIDE DEF c
<1>10. Placed(h, x, a, b, c)
  BY <1>8, <1>9 DEF Placed, d
<1>11. ASSUME a # 1 PROVE b >= h.rehash
  <2>1. a = 0
    BY <1>11 DEF Tables
  <2>2. b \in Indices(e0) /\ x \in Entries(T0[b])
    BY <1>2, <1>3, <1>5, <2>1, TableFacts
  <2>3. NumBuckets(e0) \in Nat
    BY <1>3, NumBucketsFacts
  <2>4. ~ (b \in 0 .. r - 1)
    BY <1>3, <2>2, EmptyChainFacts
  <2> QED BY <1>2, <1>3, <2>2, <2>3, <2>4 DEF Indices
<1> QED BY <1>10, <1>11

\* The first hashtableNext() of a table with buckets starts before every entry.
LEMMA FirstWalk ==
  ASSUME NEW h, NEW X, NEW p, Has(h, X, p), h.exp[0] # -1, NEW Q, Q \subseteq X, NEW z,
         NEW q \in Nat, NEW g, g = SetPause(h, q), NEW j, j = IF IsRehashing(h) THEN h.rehash ELSE 0,
         NEW w, w = Walk(g, It(0, j, 0, z, None, Q), No),
         NEW M, M = NumBuckets(w.ht.exp[0]) + NumBuckets(w.ht.exp[1])
  PROVE  M \in Nat /\ Going(w, X, q, Q, None, h.exp, M)
<1> DEFINE i == It(0, j, 0, z, None, Q)
<1>1. PICK e0, e1, T0, T1, r : /\ h = Mk(e0, e1, T0, T1, r, p)
                               /\ Sound(e0, e1, T0, T1, r) /\ X = Stored(T0) \cup Stored(T1)
  BY GoodParts
<1>2. /\ h.exp[0] = e0 /\ h.exp[1] = e1 /\ h.tab[0] = T0 /\ h.tab[1] = T1 /\ h.rehash = r
      /\ IsRehashing(h) <=> r # -1
  BY <1>1, MkFields, MkFacts
<1>3. /\ e0 \in Exps /\ e1 \in Exps /\ GoodTable(T0, e0) /\ GoodTable(T1, e1)
      /\ r \in -1 .. NumBuckets(e0) - 1 /\ (e1 = -1 <=> r = -1)
  BY <1>1 DEF Sound
<1>4. NumBuckets(e0) \in Nat /\ NumBuckets(e1) \in Nat
  BY <1>3, NumBucketsFacts
<1>5. Has(g, X, q) /\ g.exp = h.exp /\ g.tab = h.tab /\ g.rehash = h.rehash
  BY PauseFacts
<1> HIDE DEF i
<1>6. w.ht = g /\ w.ht.exp = h.exp
  BY <1>5, WalkFields
<1>7. M \in Nat /\ M = NumBuckets(e0) + NumBuckets(e1)
  BY <1>2, <1>4, <1>6
<1>8. NumBuckets(e0) \in Nat \ {0}
  BY <1>2, <1>3, NumBucketsFacts
<1>9. j \in Indices(e0) /\ j \in Nat /\ j >= 0
  BY <1>2, <1>3, <1>8 DEF Indices
<1>10. DOMAIN g.tab[0] = Indices(e0)
  BY <1>2, <1>3, <1>5, TableFacts
<1>11. ASSUME NEW x \in Q
       PROVE  \E a, b, c : Placed(g, x, a, b, c) /\ After(a, b, c, 0, j, 0)
  <2>1. x \in X
    OBVIOUS
  <2>2. PICK a, b, c : Placed(g, x, a, b, c) /\ (a = 1 \/ b >= g.rehash)
    BY <1>5, <2>1, PlaceOfEntry
  <2>3. a \in Tables /\ b \in DOMAIN g.tab[a] /\ c \in Slots(g.tab[a][b])
    BY <2>2 DEF Placed
  <2>4. a \in Nat /\ b \in Nat /\ c \in Nat /\ c >= 1
    BY <1>5, <2>3, PlaceTypes
  <2>5. CASE a = 1
    BY <2>2, <2>5 DEF After
  <2>6. CASE a = 0
    <3>1. b >= j
      BY <1>2, <1>3, <1>5, <2>2, <2>4, <2>6
    <3>2. b > j \/ (b = j /\ c > 0)
      BY <1>9, <2>4, <3>1
    <3> QED BY <2>2, <2>6, <3>2 DEF After
  <2> QED BY <2>3, <2>5, <2>6 DEF Tables
<1>12. Position(g, 0, j, 0, Q)
  BY <1>9, <1>10, <1>11 DEF Position, Pending, Tables
<1>13. Left(h.exp, 0, j) <= M
  BY <1>2, <1>4, <1>7, <1>9 DEF Left
<1>14. w = Walk(g, i, No)
  BY DEF i
<1> QED BY <1>5, <1>7, <1>12, <1>13, <1>14 DEF Going, i

\* The other calls go on where the last one stopped.
LEMMA NextWalk ==
  ASSUME NEW h, NEW X, NEW q, Has(h, X, q), NEW t, NEW j, NEW k, NEW z, NEW l, NEW Q, Position(h, t, j, k, Q),
         NEW w, w = Walk(h, It(t, j, k, z, l, Q), No),
         NEW M, M = NumBuckets(w.ht.exp[0]) + NumBuckets(w.ht.exp[1])
  PROVE  M \in Nat /\ Going(w, X, q, Q, l, h.exp, M)
<1>1. w.ht = h
  BY WalkFields
<1>2. \A a \in Tables : h.exp[a] \in Exps
  BY GoodChains
<1>3. NumBuckets(h.exp[0]) \in Nat /\ NumBuckets(h.exp[1]) \in Nat
  BY <1>2, NumBucketsFacts DEF Tables
<1>4. t \in Tables /\ j \in DOMAIN h.tab[t]
  BY DEF Position
<1>5. j \in Nat
  BY <1>4, PlaceTypes
<1>6. M \in Nat /\ M = NumBuckets(h.exp[0]) + NumBuckets(h.exp[1])
  BY <1>1, <1>3
<1>7. Left(h.exp, t, j) <= M
  BY <1>3, <1>4, <1>5, <1>6 DEF Left, Tables
<1> QED BY <1>6, <1>7 DEF Going

\* The entry that is returned is the next one.
LEMMA ReturnNext ==
  ASSUME NEW h, NEW X, NEW p, Has(h, X, p), NEW t, NEW j, NEW k, NEW z, NEW l, NEW Q,
         Position(h, t, j, k, Q), NEW i, i = It(t, j, k, z, l, Q), Ahead(h, i) # {},
         NEW at, at = First(Ahead(h, i)), NEW x, x = Slot(h.tab[t][j], at),
         NEW R, R = Q \ {x}
  PROVE  Position(h, t, j, at, R)
<1> DEFINE c0 == h.tab[t][j]
           A == Ahead(h, i)
<1>1. t \in Tables /\ j \in DOMAIN h.tab[t] /\ k \in Nat /\ Pending(h, t, j, k, Q)
  BY DEF Position
<1>2. i.table = t /\ i.idx = j /\ i.slot = k
  BY ItFields
<1>3. A = {m \in k + 1 .. Len(c0) * EntriesPerBucket : Slot(c0, m) # None}
  BY <1>2 DEF Ahead
<1>4. Len(c0) * EntriesPerBucket \in Nat
  <2>1. Len(c0) \in Nat /\ EntriesPerBucket \in Nat
    BY <1>1, PlaceTypes, ChainFacts, BucketFacts
  <2> QED BY <2>1
<1>5. A \subseteq Nat
  BY <1>1, <1>3, <1>4
<1> HIDE DEF A
<1>6. at \in A /\ \A q \in A : at <= q
  <2>1. A # {} /\ at = First(A)
    BY DEF A
  <2> QED BY <1>5, <2>1, FirstIsLeast
<1>7. at \in Nat
  BY <1>5, <1>6
<1>8. ASSUME NEW y \in R
      PROVE  \E a, b, c : Placed(h, y, a, b, c) /\ After(a, b, c, t, j, at)
  <2>1. y \in Q /\ y # x
    BY <1>8
  <2>2. PICK a, b, c : Placed(h, y, a, b, c) /\ After(a, b, c, t, j, k)
    BY <1>1, <2>1 DEF Pending
  <2>3. ASSUME a = t, b = j, c > k PROVE c > at
    <3>1. c \in Slots(c0) /\ Slot(c0, c) = y /\ y # None
      BY <2>2, <2>3 DEF Placed
    <3>2. c \in k + 1 .. Len(c0) * EntriesPerBucket /\ c \in Nat
      BY <1>1, <1>4, <2>3, <3>1 DEF Slots
    <3>3. c \in A
      BY <1>3, <3>1, <3>2
    <3>4. c # at
      BY <2>1, <3>1
    <3> QED BY <1>6, <1>7, <3>2, <3>3, <3>4
  <2>4. After(a, b, c, t, j, at)
    BY <2>2, <2>3 DEF After
  <2> QED BY <2>2, <2>4
<1> QED BY <1>1, <1>7, <1>8 DEF Position, Pending

\* The iterator after the end, and on the entry it returns.
Ended(Q) == [NoIter EXCEPT !.due = Q]
Returning(i, at, x) == [i EXCEPT !.slot = at, !.last = x, !.due = @ \ {x}]
Arrives(v, at, x) ==
  /\ v.end => ht' = Resume(v.ht) /\ iter' = Ended(iter.due)
  /\ ~ v.end => ht' = v.ht /\ iter' = Returning(v.it, at, x)

\* The iterator after the end owes nothing.
LEMMA EndedFacts == Ended({}) = NoIter
BY ScSet DEF Ended, SetDue

\* The iterator on the entry it returns stands at that entry's place.
LEMMA ReturningFacts ==
  ASSUME NEW t, NEW j, NEW k, NEW z, NEW l, NEW Q, NEW at, NEW x,
         NEW i, i = It(t, j, k, z, l, Q)
  PROVE  Returning(i, at, x) = It(t, j, at, z, x, Q \ {x})
<1>1. i.due = Q
  BY ItFields
<1>2. Returning(i, at, x) = SetDue(SetLast(SetSlot(i, at), x), Q \ {x})
  BY <1>1 DEF Returning, SetDue, SetLast, SetSlot
<1>3. SetSlot(i, at) = It(t, j, at, z, l, Q)
  BY ItSet
<1>4. SetLast(It(t, j, at, z, l, Q), x) = It(t, j, at, z, x, Q)
  BY ItSet
<1>5. SetDue(It(t, j, at, z, x, Q), Q \ {x}) = It(t, j, at, z, x, Q \ {x})
  BY ItSet
<1> QED BY <1>2, <1>3, <1>4, <1>5

\* A walk that ended: hashtableNext() resumes the table and drops the iterator.
LEMMA OverParts ==
  ASSUME NEW v, NEW X, NEW q, NEW Q, Over(v, X, q, Q)
  PROVE  v.end /\ Has(v.ht, X, q) /\ Q = {}
<1>1. PICK h, i : v = Walk(h, i, Yes) /\ Has(h, X, q) /\ Q = {}
  BY DEF Over
<1>2. v.end /\ v.ht = h
  BY <1>1, WalkFields
<1> QED BY <1>1, <1>2

\* A walk that stands before an entry: its table and its iterator.
LEMMA StandingWalk ==
  ASSUME NEW v, NEW X, NEW q, NEW Q, NEW l, Standing(v, X, q, Q, l)
  PROVE  \E h, t, j, k, z : /\ v.ht = h /\ v.it = It(t, j, k, z, l, Q) /\ ~ v.end
                            /\ Has(h, X, q) /\ Position(h, t, j, k, Q)
                            /\ Ahead(h, It(t, j, k, z, l, Q)) # {}
<1>1. PICK h, t, j, k, z : /\ v = Walk(h, It(t, j, k, z, l, Q), No)
                           /\ Has(h, X, q) /\ Position(h, t, j, k, Q)
                           /\ Ahead(h, It(t, j, k, z, l, Q)) # {}
  BY DEF Standing
<1>2. v.ht = h /\ v.it = It(t, j, k, z, l, Q) /\ ~ v.end
  BY <1>1, WalkFields
<1> QED BY <1>1, <1>2

\* The place of the entry an iterator returns.
LEMMA ReturnPlace ==
  ASSUME NEW h, NEW X, NEW q, Has(h, X, q), NEW t, NEW j, NEW k, NEW z, NEW l, NEW Q,
         Position(h, t, j, k, Q), NEW i, i = It(t, j, k, z, l, Q), Ahead(h, i) # {},
         NEW at, at = First(Ahead(h, i)), NEW x, x = Slot(h.tab[i.table][i.idx], at),
         NEW R, R = Q \ {x}
  PROVE  Returning(i, at, x) = It(t, j, at, z, x, R) /\ Position(h, t, j, at, R)
<1>1. i.table = t /\ i.idx = j
  BY ItFields
<1>2. x = Slot(h.tab[t][j], at)
  BY <1>1
<1>3. Position(h, t, j, at, R)
  BY <1>2, ReturnNext
<1>4. Returning(i, at, x) = It(t, j, at, z, x, R)
  BY ReturningFacts
<1> QED BY <1>3, <1>4

\* A walk that stands before an entry: the place of that entry, and the iterator on it.
LEMMA StandingParts ==
  ASSUME NEW v, NEW X, NEW q, NEW Q, NEW l, Standing(v, X, q, Q, l)
  PROVE  /\ ~ v.end /\ Has(v.ht, X, q)
         /\ \A at, x, R :
              /\ at = First(Ahead(v.ht, v.it))
              /\ x = Slot(v.ht.tab[v.it.table][v.it.idx], at)
              /\ R = Q \ {x}
              => \E t, j, z : /\ Returning(v.it, at, x) = It(t, j, at, z, x, R)
                              /\ Position(v.ht, t, j, at, R)
<1>1. PICK h, t, j, k, z : /\ v.ht = h /\ v.it = It(t, j, k, z, l, Q) /\ ~ v.end
                           /\ Has(h, X, q) /\ Position(h, t, j, k, Q)
                           /\ Ahead(h, It(t, j, k, z, l, Q)) # {}
  BY StandingWalk
<1> DEFINE i == v.it
<1>2. v.ht = h /\ i = It(t, j, k, z, l, Q) /\ Ahead(h, i) # {}
  BY <1>1
<1> HIDE DEF i
<1>3. ASSUME NEW at, NEW x, NEW R, at = First(Ahead(h, i)),
             x = Slot(h.tab[i.table][i.idx], at), R = Q \ {x}
      PROVE  Returning(i, at, x) = It(t, j, at, z, x, R) /\ Position(h, t, j, at, R)
  BY <1>1, <1>2, <1>3, ReturnPlace
<1> QED BY <1>1, <1>3 DEF i

\* hashtableNext() at the end of the table keeps the invariant.
LEMMA IterNextEnds ==
  ASSUME NEW X, NEW q \in Nat \ {0}, NEW h, Has(h, X, q), policy \in Policies, ScanInv(scan, X),
         ht' = Resume(h), iter' = NoIter, policy' = policy, scan' = scan
  PROVE  Inv'
<1> DEFINE p == q - 1
<1>1. Has(Resume(h), X, p)
  <2>1. p \in Nat /\ q = p + 1
    OBVIOUS
  <2> HIDE DEF p
  <2> QED BY <2>1, ResumeFacts
<1>2. (Good(ht))' /\ Contents(ht)' = X
  BY <1>1 DEF Has
<1>3. ScanInv(scan, Contents(ht))'
  BY <1>2
<1>4. IterInv(iter, ht, Contents(ht), ht.pause)'
  BY <1>2 DEF IterInv
<1> QED BY <1>2, <1>3, <1>4 DEF Inv

\* hashtableNext() that returns an entry keeps the invariant.
LEMMA IterNextReturns ==
  ASSUME NEW X, NEW q \in Nat \ {0}, NEW h, Has(h, X, q), policy \in Policies, ScanInv(scan, X),
         NEW t, NEW j, NEW at, NEW z, NEW x, NEW R, Position(h, t, j, at, R),
         ht' = h, iter' = It(t, j, at, z, x, R), policy' = policy, scan' = scan
  PROVE  Inv'
<1>1. Good(h) /\ Contents(h) = X /\ h.pause = q
  BY DEF Has
<1>2. (Good(ht))' /\ Contents(ht)' = X /\ (ht.pause)' = q
  BY <1>1
<1>3. ScanInv(scan, Contents(ht))'
  BY <1>2
<1>4. IterInv(iter', h, X, q)
  BY DEF IterInv
<1>5. IterInv(iter, ht, Contents(ht), ht.pause)'
  BY <1>2, <1>4
<1> QED BY <1>2, <1>3, <1>5 DEF Inv

\* The entry a walk stands before.
Lands(v, at, x) ==
  at = First(Ahead(v.ht, v.it)) /\ x = Slot(v.ht.tab[v.it.table][v.it.idx], at)

\* StandingParts, for that entry.
LEMMA StandingLands ==
  ASSUME NEW v, NEW X, NEW q, NEW Q, NEW l, Standing(v, X, q, Q, l), NEW at, NEW x, Lands(v, at, x)
  PROVE  /\ ~ v.end /\ Has(v.ht, X, q)
         /\ \E t, j, z : /\ Returning(v.it, at, x) = It(t, j, at, z, x, Q \ {x})
                         /\ Position(v.ht, t, j, at, Q \ {x})
<1>1. /\ ~ v.end /\ Has(v.ht, X, q)
      /\ \A b, y, S :
           /\ b = First(Ahead(v.ht, v.it))
           /\ y = Slot(v.ht.tab[v.it.table][v.it.idx], b)
           /\ S = Q \ {y}
           => \E t, j, z : /\ Returning(v.it, b, y) = It(t, j, b, z, y, S)
                           /\ Position(v.ht, t, j, b, S)
  BY StandingParts
<1>2. at = First(Ahead(v.ht, v.it)) /\ x = Slot(v.ht.tab[v.it.table][v.it.idx], at)
  BY Zenon DEF Lands
<1>3. \E t, j, z : /\ Returning(v.it, at, x) = It(t, j, at, z, x, Q \ {x})
                   /\ Position(v.ht, t, j, at, Q \ {x})
  BY <1>1, <1>2, Zenon
<1> QED BY <1>1, <1>3, Zenon

\* hashtableNext() at the end of its walk keeps the invariant.
LEMMA IterNextAt ==
  ASSUME NEW v, NEW X, NEW q \in Nat \ {0}, NEW Q, NEW l, Over(v, X, q, Q) \/ Standing(v, X, q, Q, l),
         policy \in Policies, ScanInv(scan, X), iter.due = Q,
         NEW at, NEW x, Lands(v, at, x), Arrives(v, at, x), policy' = policy, scan' = scan
  PROVE  Inv'
<1>1. CASE Over(v, X, q, Q)
  <2>1. v.end /\ Has(v.ht, X, q) /\ Q = {}
    BY <1>1, OverParts
  <2>2. ht' = Resume(v.ht) /\ iter' = NoIter
    BY <2>1, EndedFacts DEF Arrives
  <2> QED BY <2>1, <2>2, IterNextEnds
<1>2. CASE Standing(v, X, q, Q, l)
  <2> DEFINE R == Q \ {x}
             h == v.ht
  <2>1. /\ ~ v.end /\ Has(h, X, q)
        /\ \E t, j, z : /\ Returning(v.it, at, x) = It(t, j, at, z, x, R)
                        /\ Position(h, t, j, at, R)
    BY <1>2, StandingLands
  <2> HIDE DEF R
  <2>2. PICK t, j, z : /\ Returning(v.it, at, x) = It(t, j, at, z, x, R)
                       /\ Position(h, t, j, at, R)
    BY <2>1
  <2>3. ht' = h /\ iter' = It(t, j, at, z, x, R)
    BY <2>1, <2>2 DEF Arrives
  <2> HIDE DEF h
  <2> QED BY <2>1, <2>2, <2>3, IterNextReturns
<1> QED BY <1>1, <1>2

\* hashtableNext(), once the walk it starts from is known, keeps the invariant.
LEMMA IterNextFrom ==
  ASSUME NEW X, NEW q \in Nat \ {0}, NEW Q, NEW l, NEW E, NEW w, NEW M \in Nat,
         M = NumBuckets(w.ht.exp[0]) + NumBuckets(w.ht.exp[1]), Going(w, X, q, Q, l, E, M),
         policy \in Policies, ScanInv(scan, X), iter.due = Q,
         NEW v, v = Advance(w), NEW at, NEW x, Lands(v, at, x), Arrives(v, at, x),
         policy' = policy, scan' = scan
  PROVE  Inv'
<1>1. Over(v, X, q, Q) \/ Standing(v, X, q, Q, l)
  BY AdvanceFacts
<1> QED BY <1>1, IterNextAt

\* hashtableNext() of a table without buckets leaks a pause and keeps the invariant.
LEMMA IterNextEmptyStep ==
  ASSUME Inv, IterNextEmpty
  PROVE  Inv'
<1> DEFINE X == Contents(ht)
           p == ht.pause
           q == ht.pause + 1
<1>1. Has(ht, X, p) /\ p \in Nat /\ policy \in Policies /\ ScanInv(scan, X) /\ IterInv(iter, ht, X, p)
  BY InvParts
<1>2. /\ ht.exp[0] = -1 /\ iter.on /\ ~ iter.begun /\ ht' = SetPause(ht, q) /\ iter' = Ended(iter.due)
      /\ policy' = policy /\ scan' = scan
  BY DEF IterNextEmpty, SetPause, Ended
<1>3. X = {}
  <2> HIDE DEF X, p
  <2>1. PICK e0, e1, T0, T1, r : /\ ht = Mk(e0, e1, T0, T1, r, p)
                                 /\ Sound(e0, e1, T0, T1, r) /\ X = Stored(T0) \cup Stored(T1)
    BY <1>1, GoodParts
  <2>2. e0 = -1
    BY <1>2, <2>1, MkFields
  <2>3. /\ GoodTable(T0, e0) /\ GoodTable(T1, e1) /\ e0 \in Exps /\ e1 \in Exps
        /\ r \in -1 .. NumBuckets(e0) - 1 /\ (e1 = -1 <=> r = -1)
    BY <2>1 DEF Sound
  <2>4. e1 = -1
    BY <2>2, <2>3, NumBucketsFacts
  <2> QED BY <2>1, <2>2, <2>3, <2>4, TableFacts
<1>4. iter.due = {}
  <2>1. CASE \E Q : iter = Waiting(Q) /\ Q \subseteq X
    BY <1>3, <2>1, WaitingFields
  <2>2. ~ (iter = NoIter)
    BY <1>2, WaitingFields
  <2>3. ~ (\E t, j, k, z, l, Q : iter = It(t, j, k, z, l, Q))
    BY <1>2, ItFields
  <2> QED BY <1>1, <2>1, <2>2, <2>3 DEF IterInv
<1>5. iter' = NoIter
  BY <1>2, <1>4, EndedFacts
<1>6. Has(ht', X, q)
  <2> HIDE DEF X
  <2>1. q \in Nat
    BY <1>1
  <2> HIDE DEF p, q
  <2> QED BY <1>1, <1>2, <2>1, PauseFacts
<1> HIDE DEF X, p, q
<1>7. (Good(ht))' /\ Contents(ht)' = X
  BY <1>6 DEF Has
<1>8. ScanInv(scan, Contents(ht))'
  BY <1>1, <1>2, <1>7
<1>9. IterInv(iter, ht, Contents(ht), ht.pause)'
  BY <1>5 DEF IterInv
<1> QED BY <1>1, <1>2, <1>7, <1>8, <1>9 DEF Inv

\* hashtableNext() of a table with buckets keeps the invariant.
LEMMA IterNextStep ==
  ASSUME Inv, IterNext
  PROVE  Inv'
<1> DEFINE X == Contents(ht)
           first == [iter EXCEPT !.begun = TRUE, !.size = Used(ht, 0),
                                 !.idx = IF IsRehashing(ht) THEN ht.rehash ELSE 0]
           w == IF iter.begun THEN [ht |-> ht, it |-> iter, end |-> FALSE]
                ELSE [ht |-> [ht EXCEPT !.pause = @ + 1], it |-> first, end |-> FALSE]
           v == Advance(w)
           at == First(Ahead(v.ht, v.it))
           x == Slot(v.ht.tab[v.it.table][v.it.idx], at)
           M == NumBuckets(w.ht.exp[0]) + NumBuckets(w.ht.exp[1])
<1>1. /\ Has(ht, X, ht.pause) /\ policy \in Policies /\ ScanInv(scan, X)
      /\ IterInv(iter, ht, X, ht.pause) /\ ht.pause \in Nat
  BY InvParts
<1>2. /\ iter.on /\ (iter.begun \/ ht.exp[0] # -1)
      /\ policy' = policy /\ scan' = scan /\ Arrives(v, at, x)
  <2> HIDE DEF w
  <2>1. /\ iter.on
        /\ iter.begun \/ ht.exp[0] # -1
        /\ IF v.end
           THEN ht' = Resume(v.ht) /\ iter' = Ended(iter.due)
           ELSE ht' = v.ht /\ iter' = Returning(v.it, at, x)
        /\ UNCHANGED <<policy, scan>>
    BY DEF IterNext, w, Ended, Returning
  <2> HIDE DEF v, at, x
  <2> QED BY <2>1 DEF Arrives
<1>3. PICK Q, l, q : iter.due = Q /\ M \in Nat /\ q \in Nat \ {0} /\ Going(w, X, q, Q, l, ht.exp, M)
  <2>1. CASE \E Q : iter = Waiting(Q) /\ Q \subseteq X
    <3>1. PICK Q : iter = Waiting(Q) /\ Q \subseteq X
      BY <2>1
    <3> DEFINE j == IF IsRehashing(ht) THEN ht.rehash ELSE 0
               z == Used(ht, 0)
               q == ht.pause + 1
               g == SetPause(ht, q)
    <3>2. iter.due = Q /\ ~ iter.begun /\ ht.exp[0] # -1
      BY <1>2, <3>1, WaitingFields
    <3>3. first = It(0, j, 0, z, None, Q)
      <4>1. first = [iter EXCEPT !.begun = TRUE, !.size = z, !.idx = j]
        OBVIOUS
      <4> HIDE DEF first, z, j
      <4> QED BY <3>1, <4>1 DEF Waiting, It, Yes
    <3>4. [ht EXCEPT !.pause = @ + 1] = g
      BY DEF SetPause
    <3>5. w = [ht |-> g, it |-> It(0, j, 0, z, None, Q), end |-> FALSE]
      <4> HIDE DEF first, g, j, z
      <4> QED BY <3>2, <3>3, <3>4
    <3>6. /\ g = SetPause(ht, q) /\ j = (IF IsRehashing(ht) THEN ht.rehash ELSE 0)
          /\ M = NumBuckets(w.ht.exp[0]) + NumBuckets(w.ht.exp[1])
      OBVIOUS
    <3>7. w = Walk(g, It(0, j, 0, z, None, Q), No)
      <4> HIDE DEF w, g, j, z
      <4> QED BY <3>5 DEF Walk, No
    <3> DEFINE p == ht.pause
    <3>8. q \in Nat /\ q \in Nat \ {0} /\ Has(ht, X, p) /\ Q \subseteq X
      BY <1>1, <3>1
    <3> HIDE DEF w, g, j, z, M, X, p, q
    <3>9. M \in Nat /\ Going(w, X, q, Q, None, ht.exp, M)
      BY <3>2, <3>6, <3>7, <3>8, FirstWalk
    <3> QED BY <3>2, <3>8, <3>9
  <2>2. CASE \E t, j, k, z, l, Q : /\ ht.pause # 0 /\ iter = It(t, j, k, z, l, Q)
                                   /\ Position(ht, t, j, k, Q)
    <3>1. PICK t, j, k, z, l, Q : /\ ht.pause # 0 /\ iter = It(t, j, k, z, l, Q)
                                  /\ Position(ht, t, j, k, Q)
      BY <2>2
    <3> DEFINE q == ht.pause
    <3>2. iter.due = Q /\ iter.begun
      BY <3>1, ItFields
    <3>3. w = Walk(ht, It(t, j, k, z, l, Q), No)
      BY <3>1, <3>2 DEF Walk, No
    <3>4. M = NumBuckets(w.ht.exp[0]) + NumBuckets(w.ht.exp[1]) /\ Has(ht, X, q) /\ q \in Nat \ {0}
      BY <1>1, <3>1
    <3> HIDE DEF w, M, X, q
    <3>5. M \in Nat /\ Going(w, X, q, Q, l, ht.exp, M)
      BY <3>1, <3>3, <3>4, NextWalk
    <3> QED BY <3>2, <3>4, <3>5
  <2>3. ~ (iter = NoIter)
    BY <1>2, WaitingFields
  <2> QED BY <1>1, <2>1, <2>2, <2>3 DEF IterInv
<1> DEFINE E == ht.exp
<1>4. /\ M = NumBuckets(w.ht.exp[0]) + NumBuckets(w.ht.exp[1]) /\ v = Advance(w)
      /\ Lands(v, at, x)
  <2> HIDE DEF w
  <2> QED BY DEF Lands
<1>5. Going(w, X, q, Q, l, E, M)
  BY <1>3
<1> HIDE DEF w, v, at, x, M, X, E
<1> QED BY <1>1, <1>2, <1>3, <1>4, <1>5, IterNextFrom

\* Every step keeps the invariant.
LEMMA NextInv ==
  ASSUME Inv, [Next]_vars
  PROVE  Inv'
<1>1. ASSUME NEW x \in Elems, Pop(x) PROVE Inv'
  BY <1>1, PopStep
<1>2. ASSUME NEW allowed \in BOOLEAN, NEW x \in Elems, Add(x, allowed) PROVE Inv'
  BY <1>2, AddStep
<1>3. ASSUME NEW allowed \in BOOLEAN, NEW size \in Sizes, Expand(size, allowed) PROVE Inv'
  BY <1>3, ExpandStep
<1>4. ASSUME NEW allowed \in BOOLEAN, Rightsize(allowed) PROVE Inv'
  BY <1>4, RightsizeStep
<1>5. ASSUME NEW p \in Policies, SetResizePolicy(p) PROVE Inv'
  BY <1>5, SetResizePolicyStep
<1>6. CASE Find \/ RehashMicroseconds \/ Empty
  BY <1>6, FindStep, RehashMicrosecondsStep, EmptyStep
<1>7. CASE ScanCall \/ InitIterator \/ IterNextEmpty \/ IterNext \/ CleanupIterator
  BY <1>7, ScanCallStep, InitIteratorStep, IterNextEmptyStep, IterNextStep, CleanupIteratorStep
<1>8. CASE UNCHANGED vars
  <2>1. ht' = ht /\ policy' = policy /\ scan' = scan /\ iter' = iter
    BY <1>8 DEF vars
  <2> QED BY <2>1 DEF Inv
<1> QED BY <1>1, <1>2, <1>3, <1>4, <1>5, <1>6, <1>7, <1>8 DEF Next

\* The type invariant follows.
LEMMA InvTypeOK ==
  ASSUME Inv
  PROVE  TypeOK
<1> DEFINE X == Contents(ht)
<1>1. /\ Has(ht, X, ht.pause) /\ policy \in Policies /\ ScanInv(scan, X)
      /\ ht.pause \in Nat
      /\ iter.begun => iter.on /\ ht.pause # 0
  BY InvParts
<1>2. /\ \A t \in Tables : GoodTable(ht.tab[t], ht.exp[t]) /\ ht.exp[t] \in Exps
      /\ \A t \in Tables : \A j \in DOMAIN ht.tab[t] : ht.tab[t][j] \in Chains /\ GoodChain(ht.tab[t][j])
      /\ X \subseteq Elems
  BY <1>1, GoodChains
<1>3. PICK e0, e1, T0, T1, r : ht = Mk(e0, e1, T0, T1, r, ht.pause) /\ Sound(e0, e1, T0, T1, r)
  BY <1>1, GoodParts
<1>4. ht.exp = Pair(e0, e1) /\ ht.exp[0] = e0 /\ ht.exp[1] = e1 /\ ht.rehash = r
  BY <1>3, MkFields
<1>5. e0 \in Exps /\ e1 \in Exps /\ r \in -1 .. NumBuckets(e0) - 1 /\ (e1 = -1 <=> r = -1)
  BY <1>3 DEF Sound
<1>6. ht.exp \in [Tables -> -1 .. MaxExp]
  BY <1>4, <1>5 DEF Pair, Exps
<1>7. \A t \in Tables : DOMAIN ht.tab[t] = 0 .. NumBuckets(ht.exp[t]) - 1
  BY <1>2, TableFacts DEF Indices
<1>8. ASSUME NEW t \in Tables, NEW i \in DOMAIN ht.tab[t]
      PROVE  /\ ht.tab[t][i] \in Seq(Bucket) /\ ht.tab[t][i] # <<>>
             /\ \A k \in 1 .. Len(ht.tab[t][i]) - 1 : ht.tab[t][i][k][EntriesPerBucket] = None
  <2> DEFINE c == ht.tab[t][i]
  <2>1. c \in Chains /\ GoodChain(c)
    BY <1>2
  <2> HIDE DEF c
  <2>2. c \in Seq(Bucket) /\ c # <<>> /\ \A k \in 1 .. Len(c) - 1 : c[k][EntriesPerBucket] = None
    BY <2>1 DEF GoodChain, Linked, Chains
  <2> QED BY <2>2 DEF c
<1>9. scan \in [on : BOOLEAN, cursor : 0 .. Pow2[CursorBits] - 1, due : SUBSET Elems]
  <2>1. CASE scan = Sc(No, 0, {})
    <3>1. 0 \in 0 .. Pow2[CursorBits] - 1
      BY HashAssumption, Pow2Facts
    <3> QED BY <2>1, <3>1 DEF Sc, No
  <2>2. CASE \E v, Q : scan = Sc(Yes, v, Q) /\ v \in Cursors /\ Q \subseteq X
    <3>1. PICK v, Q : scan = Sc(Yes, v, Q) /\ v \in Cursors /\ Q \subseteq X
      BY <2>2
    <3>2. v \in 0 .. Pow2[CursorBits] - 1 /\ Q \in SUBSET Elems
      BY <1>2, <3>1 DEF Cursors, Words
    <3> QED BY <3>1, <3>2 DEF Sc, Yes
  <2> QED BY <1>1, <2>1, <2>2 DEF ScanInv
<1>10. ht.pause \in Nat /\ (iter.begun => ht.pause > 0)
  BY <1>1
<1>11. ht.rehash \in -1 .. NumBuckets(ht.exp[0]) - 1 /\ (ht.exp[1] = -1 <=> ht.rehash = -1)
  BY <1>4, <1>5
<1> HIDE DEF X
<1> QED BY <1>1, <1>6, <1>7, <1>8, <1>9, <1>10, <1>11 DEF TypeOK

\* So does Findable.
LEMMA InvFindable ==
  ASSUME Inv
  PROVE  Findable
<1> DEFINE X == Contents(ht)
<1>1. Has(ht, X, ht.pause)
  BY InvParts
<1>2. X \subseteq Elems /\ \A t \in Tables : \A j \in DOMAIN ht.tab[t] : GoodChain(ht.tab[t][j])
  BY <1>1, GoodChains
<1>3. \A x \in X : Found(ht, x)
  BY <1>1, <1>2, FoundFacts
<1>4. Size(ht) = Cardinality(X)
  BY <1>1, SizeFacts
<1>5. ASSUME NEW t \in Tables, NEW i \in DOMAIN ht.tab[t] PROVE IsInjective(InOrder(ht.tab[t][i]))
  <2> DEFINE s == InOrder(ht.tab[t][i])
  <2>1. Lists(s, Entries(ht.tab[t][i]))
    BY <1>2, InOrderFacts
  <2> HIDE DEF s
  <2>2. s \in Seq(Elems) /\ \A a, b \in 1 .. Len(s) : s[a] = s[b] => a = b
    BY <2>1 DEF Lists
  <2>3. IsInjective(s)
    BY <2>2 DEF IsInjective
  <2> QED BY <2>3 DEF s
<1> QED BY <1>3, <1>4, <1>5 DEF Findable

\* The invariant is inductive: whatever the table is asked to do, both tables stay sound, no
\* entry is in two places, a scan owes only entries at or beyond its cursor in the order of
\* reversed hashes, and a safe iterator owes only entries at places it has not come to.
THEOREM Invariance == Spec => []Inv
<1>1. Init => Inv
  BY InitInv
<1>2. Inv /\ [Next]_vars => Inv'
  BY NextInv
<1> QED BY <1>1, <1>2, PTL DEF Spec

\* The types hold always: rehash_idx stays inside the old table, no entry is where a chained
\* bucket has its link, and an iterator that has begun pauses rehashing until it is done,
\* however many pauses have leaked.
THEOREM TypeCorrect == Spec => []TypeOK
<1>1. Inv => TypeOK
  BY InvTypeOK
<1> QED BY <1>1, Invariance, PTL

\* However the table is expanded, shrunk, turned back, rehashed and compacted, findBucket()
\* finds each entry the table holds, and each is there once.
THEOREM EntriesFindable == Spec => []Findable
<1>1. Inv => Findable
  BY InvFindable
<1> QED BY <1>1, Invariance, PTL

\* A full scan emits every entry that is in the table from its first call to its last,
\* whatever resizes and rehash steps fall between its calls.
THEOREM ScanIsComplete == Spec => []ScanComplete
<1>1. Inv => ScanComplete
  <2> SUFFICES ASSUME Inv, ~ scan.on PROVE scan.due = {}
    BY DEF ScanComplete
  <2>1. ScanInv(scan, Contents(ht))
    BY InvParts
  <2>2. CASE scan = Sc(No, 0, {})
    BY <2>2, ScFields
  <2>3. CASE \E v, Q : scan = Sc(Yes, v, Q)
    BY <2>3, ScFields
  <2> QED BY <2>1, <2>2, <2>3 DEF ScanInv
<1> QED BY <1>1, Invariance, PTL

\* A safe iterator that comes to its end has returned every entry that was in the table
\* throughout, whatever is inserted and deleted between its steps and however many pauses have
\* leaked, so that the chains it leaves are compacted or not.
THEOREM IterationIsComplete == Spec => []IterComplete
<1>1. Inv => IterComplete
  <2> SUFFICES ASSUME Inv, ~ iter.on PROVE iter.due = {}
    BY DEF IterComplete
  <2>1. iter = NoIter
    BY InvParts
  <2> QED BY <2>1, WaitingFields
<1> QED BY <1>1, Invariance, PTL
=============================================================================
