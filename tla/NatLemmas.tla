---------------------------- MODULE NatLemmas ----------------------------
(***************************************************************************)
(* Facts about the natural numbers that the proofs of several components   *)
(* rest on: induction, stated with the SET of numbers that have a property *)
(* (so that a first-order prover can use it), functions defined by         *)
(* recursion, powers of two, and division with remainder.                  *)
(***************************************************************************)
EXTENDS Integers, TLAPS, WellFoundedInduction

(* Every non-empty set of numbers has a least one.                         *)
LEMMA LeastNumber ==
  ASSUME NEW S \in SUBSET Nat, S # {}
  PROVE  \E m \in S : \A k \in S : m <= k
<1> DEFINE Less == {ss \in Nat \X Nat : ss[1] < ss[2]}
<1>1. IsWellFoundedOn(Less, Nat)
  BY NatLessThanWellFounded DEF OpToRel
<1>2. PICK m \in S : \A k \in S : <<k, m>> \notin Less
  BY <1>1, WFMin
<1>3. \A k \in S : <<k, m>> \in Nat \X Nat /\ <<k, m>>[1] = k /\ <<k, m>>[2] = m
  OBVIOUS
<1>4. \A k \in S : ~(k < m)
  BY <1>2, <1>3
<1> QED
  BY <1>4

(* Every non-empty set of numbers up to N has a greatest one.              *)
LEMMA GreatestNumber ==
  ASSUME NEW N \in Nat, NEW S \in SUBSET (0..N), S # {}
  PROVE  \E m \in S : \A k \in S : k <= m
<1> DEFINE T == {i \in 0..N : N - i \in S}
<1>1. T \in SUBSET Nat /\ T # {}
  <2>1. PICK k : k \in S
    OBVIOUS
  <2>2. N - k \in 0..N /\ N - (N - k) = k
    BY <2>1
  <2> QED
    BY <2>1, <2>2
<1>2. PICK m \in T : \A i \in T : m <= i
  BY <1>1, LeastNumber
<1>3. ASSUME NEW k \in S PROVE k <= N - m
  <2>1. k \in 0..N /\ N - k \in 0..N /\ N - (N - k) = k
    OBVIOUS
  <2>2. m <= N - k /\ m \in 0..N
    BY <1>2, <2>1
  <2> QED
    BY <2>1, <2>2
<1> QED
  BY <1>2, <1>3

(* Induction from n to n + 1.                                              *)
LEMMA Induct ==
  ASSUME NEW S, 0 \in S, \A n \in Nat : n \in S => n + 1 \in S
  PROVE  \A n \in Nat : n \in S
<1> SUFFICES ASSUME NEW x \in Nat, x \notin S PROVE FALSE
  OBVIOUS
<1> DEFINE T == {n \in Nat : n \notin S}
<1>1. PICK m \in T : \A k \in T : m <= k
  BY LeastNumber
<1>2. m \in Nat /\ m # 0 /\ m - 1 \in Nat /\ m - 1 \notin T
  BY <1>1
<1> QED
  BY <1>1, <1>2

(* Induction up to a bound.                                                *)
LEMMA InductUpTo ==
  ASSUME NEW N \in Nat, NEW S, 0 \in S, \A n \in 0..(N - 1) : n \in S => n + 1 \in S
  PROVE  \A n \in 0..N : n \in S
<1> DEFINE T == S \cup {n \in Nat : n > N}
<1>1. \A n \in Nat : n \in T => n + 1 \in T
  OBVIOUS
<1>2. \A n \in Nat : n \in T
  BY <1>1, Induct
<1> QED
  BY <1>2

-----------------------------------------------------------------------------
(* g has value base at 0 and goes from each value to the next by step.     *)
Recurs(g, V, base, step) ==
  /\ g \in [Nat -> V]
  /\ g[0] = base
  /\ \A n \in Nat : g[n + 1] = step[n][g[n]]

(* Such a function exists: first its beginnings, which agree with each     *)
(* other, then itself.                                                     *)
LEMMA Recursion ==
  ASSUME NEW V, NEW base \in V, NEW step \in [Nat -> [V -> V]]
  PROVE  \E g : Recurs(g, V, base, step)
<1> DEFINE Begins(n, g) == g[0] = base /\ \A i \in 0..(n - 1) : g[i + 1] = step[i][g[i]]
           Starts == {n \in Nat : \E g \in [0..n -> V] : Begins(n, g)}
<1>1. 0 \in Starts
  <2> DEFINE g == [i \in 0..0 |-> base]
  <2>1. g \in [0..0 -> V] /\ Begins(0, g)
    OBVIOUS
  <2> QED
    BY <2>1
<1>2. ASSUME NEW n \in Nat, n \in Starts PROVE n + 1 \in Starts
  <2>1. PICK g \in [0..n -> V] : Begins(n, g)
    BY <1>2
  <2> DEFINE h == [i \in 0..(n + 1) |-> IF i = n + 1 THEN step[n][g[n]] ELSE g[i]]
  <2>2. step[n][g[n]] \in V
    OBVIOUS
  <2>3. h \in [0..(n + 1) -> V]
    BY <2>2
  <2>4. Begins(n + 1, h)
    BY <2>1
  <2>5. \E x \in [0..(n + 1) -> V] : Begins(n + 1, x)
    <3> HIDE DEF h, Begins
    <3> QED
      BY <2>3, <2>4
  <2> QED
    BY <2>5
<1>3. \A n \in Nat : n \in Starts
  <2> HIDE DEF Starts
  <2> QED
    BY <1>1, <1>2, Induct
<1>4. ASSUME NEW n \in Nat, NEW g, NEW h, Begins(n, g), Begins(n, h)
      PROVE  \A i \in 0..n : g[i] = h[i]
  <2> DEFINE S == {i \in 0..n : g[i] = h[i]}
  <2>1. 0 \in S /\ \A i \in 0..(n - 1) : i \in S => i + 1 \in S
    BY <1>4
  <2>2. \A i \in 0..n : i \in S
    <3> HIDE DEF S
    <3> QED
      BY <2>1, InductUpTo
  <2> QED
    BY <2>2
<1> DEFINE part(n) == CHOOSE g \in [0..n -> V] : Begins(n, g)
           f == [n \in Nat |-> part(n)[n]]
<1>5. ASSUME NEW n \in Nat PROVE part(n) \in [0..n -> V] /\ Begins(n, part(n))
  BY <1>3
<1>6. f \in [Nat -> V] /\ f[0] = base
  <2>1. ASSUME NEW n \in Nat PROVE part(n)[n] \in V
    <3> HIDE DEF part
    <3> QED
      BY <1>5
  <2>2. part(0)[0] = base
    <3> HIDE DEF part
    <3> QED
      BY <1>5
  <2> QED
    BY <2>1, <2>2
<1>7. ASSUME NEW n \in Nat PROVE f[n + 1] = step[n][f[n]]
  <2> HIDE DEF part
  <2>1. Begins(n, part(n + 1))
    BY <1>5
  <2>2. part(n + 1)[n] = part(n)[n]
    <3> HIDE DEF Begins
    <3>1. Begins(n, part(n))
      BY <1>5
    <3>2. \A i \in 0..n : part(n + 1)[i] = part(n)[i]
      BY <1>4, <2>1, <3>1
    <3> QED
      BY <3>2
  <2>3. part(n + 1)[n + 1] = step[n][part(n + 1)[n]]
    BY <1>5
  <2> QED
    BY <2>2, <2>3
<1> HIDE DEF f
<1>8. Recurs(f, V, base, step)
  BY <1>6, <1>7 DEF Recurs
<1> QED
  BY <1>8

(* The same for a function that is defined up to N only.                   *)
RecursUpTo(g, N, V, base, step) ==
  /\ g \in [0..N -> V]
  /\ g[0] = base
  /\ \A n \in 0..(N - 1) : g[n + 1] = step[n][g[n]]

LEMMA RecursionUpTo ==
  ASSUME NEW N \in Nat, NEW V, NEW base \in V, NEW step \in [0..(N - 1) -> [V -> V]]
  PROVE  \E g : RecursUpTo(g, N, V, base, step)
<1>1. PICK more \in [Nat -> [V -> V]] : \A n \in 0..(N - 1) : more[n] = step[n]
  <2> DEFINE longer == [n \in Nat |-> IF n < N THEN step[n] ELSE [v \in V |-> v]]
  <2>1. longer \in [Nat -> [V -> V]] /\ \A n \in 0..(N - 1) : longer[n] = step[n]
    OBVIOUS
  <2> QED
    BY <2>1
<1>2. PICK f : Recurs(f, V, base, more)
  BY Recursion
<1> DEFINE g == [n \in 0..N |-> f[n]]
<1>3. RecursUpTo(g, N, V, base, step)
  BY <1>1, <1>2 DEF Recurs, RecursUpTo
<1> QED
  BY <1>3

(* What starts at one and doubles stays positive.                          *)
LEMMA DoublesPositive ==
  ASSUME NEW p, p[0] = 1, \A i \in Nat : p[i + 1] = 2 * p[i]
  PROVE  \A i \in Nat : p[i] \in Nat \ {0}
<1> DEFINE S == {i \in Nat : p[i] \in Nat \ {0}}
<1>1. 0 \in S
  OBVIOUS
<1>2. ASSUME NEW i \in Nat, i \in S PROVE i + 1 \in S
  <2>1. i + 1 \in Nat /\ p[i] \in Nat \ {0} /\ p[i + 1] = 2 * p[i]
    BY <1>2
  <2> QED
    BY <2>1
<1> HIDE DEF S
<1>3. \A i \in Nat : i \in S
  BY <1>1, <1>2, Induct
<1> QED
  BY <1>3 DEF S

(* Its values multiply where its arguments add.                            *)
LEMMA DoublesAdd ==
  ASSUME NEW p, p[0] = 1, \A i \in Nat : p[i + 1] = 2 * p[i]
  PROVE  \A i, j \in Nat : p[i + j] = p[i] * p[j]
<1> SUFFICES ASSUME NEW i \in Nat PROVE \A j \in Nat : p[i + j] = p[i] * p[j]
  OBVIOUS
<1> DEFINE S == {j \in Nat : p[i + j] = p[i] * p[j]}
<1>1. 0 \in S
  <2>1. i + 0 = i /\ p[0] = 1 /\ p[i] \in Nat
    BY DoublesPositive
  <2> QED
    BY <2>1
<1>2. ASSUME NEW j \in Nat, j \in S PROVE j + 1 \in S
  <2>1. /\ p[i] \in Nat /\ p[j] \in Nat
        /\ p[j + 1] = 2 * p[j]
    BY DoublesPositive
  <2>2. p[i + (j + 1)] = 2 * p[i + j]
    <3>1. i + j \in Nat /\ i + (j + 1) = (i + j) + 1
      OBVIOUS
    <3> QED
      BY <3>1
  <2>3. p[i + (j + 1)] = p[i] * p[j + 1]
    <3> DEFINE x == p[i]
               y == p[j]
    <3>1. p[i + (j + 1)] = 2 * (x * y)
      BY <1>2, <2>2
    <3>2. p[j + 1] = 2 * y /\ x \in Nat /\ y \in Nat
      BY <2>1
    <3> HIDE DEF x, y
    <3>3. 2 * (x * y) = x * (2 * y)
      BY <3>2
    <3>4. p[i + (j + 1)] = x * p[j + 1]
      BY <3>1, <3>2, <3>3
    <3> QED
      BY <3>4 DEF x
  <2> QED
    BY <2>3
<1> HIDE DEF S
<1>3. \A j \in Nat : j \in S
  BY <1>1, <1>2, Induct
<1> QED
  BY <1>3 DEF S

(* The powers of two, defined as a recursive function, double.             *)
LEMMA Doubling ==
  ASSUME NEW p, p = CHOOSE f : f = [i \in Nat |-> IF i = 0 THEN 1 ELSE 2 * f[i - 1]]
  PROVE  /\ p[0] = 1
         /\ \A i \in Nat : p[i] \in Nat \ {0} /\ p[i + 1] = 2 * p[i]
<1>1. PICK step \in [Nat -> [Nat -> Nat]] : \A i, v \in Nat : step[i][v] = 2 * v
  <2> DEFINE twice == [i \in Nat |-> [v \in Nat |-> 2 * v]]
  <2>1. twice \in [Nat -> [Nat -> Nat]] /\ \A i, v \in Nat : twice[i][v] = 2 * v
    OBVIOUS
  <2> QED
    BY <2>1
<1>2. PICK g : Recurs(g, Nat, 1, step)
  BY Recursion
<1>3. g \in [Nat -> Nat] /\ g[0] = 1 /\ \A i \in Nat : g[i + 1] = 2 * g[i]
  BY <1>1, <1>2 DEF Recurs
<1>4. ASSUME NEW i \in Nat, i # 0 PROVE g[i] = 2 * g[i - 1]
  <2>1. i - 1 \in Nat /\ i = (i - 1) + 1
    BY <1>4
  <2> QED
    BY <1>3, <2>1
<1>5. g = [i \in Nat |-> IF i = 0 THEN 1 ELSE 2 * g[i - 1]]
  BY <1>3, <1>4
<1>6. p = [i \in Nat |-> IF i = 0 THEN 1 ELSE 2 * p[i - 1]]
  BY <1>5
<1>7. \A i \in Nat : p[i] = IF i = 0 THEN 1 ELSE 2 * p[i - 1]
  BY <1>6
<1>8. p[0] = 1
  BY <1>7
<1>9. ASSUME NEW i \in Nat PROVE p[i + 1] = 2 * p[i]
  <2>1. i + 1 \in Nat /\ i + 1 # 0 /\ (i + 1) - 1 = i
    OBVIOUS
  <2> QED
    BY <1>7, <2>1
<1>10. \A i \in Nat : p[i] \in Nat \ {0}
  BY <1>8, <1>9, DoublesPositive
<1> QED
  BY <1>8, <1>9, <1>10

-----------------------------------------------------------------------------
(* Quotient and remainder are the only numbers that are.                   *)
LEMMA DivideUnique ==
  ASSUME NEW w \in Nat \ {0}, NEW q \in Nat, NEW r \in 0..(w - 1)
  PROVE  (q * w + r) \div w = q /\ (q * w + r) % w = r
OBVIOUS

(* They exist.                                                             *)
LEMMA Divide ==
  ASSUME NEW w \in Nat \ {0}, NEW x \in Nat
  PROVE  /\ x \div w \in Nat /\ x % w \in 0..(w - 1)
         /\ x = (x \div w) * w + (x % w)
OBVIOUS

(* Division by a product, done one factor after the other.                 *)
LEMMA DivideParts ==
  ASSUME NEW a \in Nat \ {0}, NEW c \in Nat \ {0}, NEW x \in Nat
  PROVE  /\ a * c \in Nat \ {0}
         /\ x \div (a * c) = (x \div a) \div c
         /\ x % (a * c) = ((x \div a) % c) * a + (x % a)
<1> DEFINE q == (x \div a) \div c
           s == (x \div a) % c
           r == x % a
<1>1. q \in Nat /\ s \in 0..(c - 1) /\ r \in 0..(a - 1)
  BY Divide
<1>2. x = (q * c + s) * a + r
  BY Divide
<1>3. a * c \in Nat \ {0}
  OBVIOUS
<1> HIDE DEF q, s, r
<1>4. s * a + r \in 0..(a * c - 1)
  <2>1. s * a <= (c - 1) * a
    BY <1>1
  <2>2. (c - 1) * a = a * c - a
    OBVIOUS
  <2> QED
    BY <1>1, <2>1, <2>2
<1>5. x = q * (a * c) + (s * a + r)
  BY <1>1, <1>2
<1>6. x \div (a * c) = q /\ x % (a * c) = s * a + r
  BY <1>1, <1>3, <1>4, <1>5, DivideUnique
<1> QED
  BY <1>3, <1>6 DEF q, s, r

(* The remainder by a product, divided by one of its factors.              *)
LEMMA ModParts ==
  ASSUME NEW a \in Nat \ {0}, NEW c \in Nat \ {0}, NEW x \in Nat
  PROVE  /\ (x % (a * c)) \div a = (x \div a) % c
         /\ (x % (a * c)) % a = x % a
<1> DEFINE s == (x \div a) % c
           r == x % a
<1>1. x \div a \in Nat
  BY Divide
<1>2. s \in Nat /\ r \in 0..(a - 1)
  BY <1>1, Divide
<1>3. x % (a * c) = s * a + r
  BY DivideParts
<1> HIDE DEF s, r
<1>4. (s * a + r) \div a = s /\ (s * a + r) % a = r
  BY <1>2, DivideUnique
<1>5. (x % (a * c)) \div a = s /\ (x % (a * c)) % a = r
  BY <1>3, <1>4
<1> QED
  BY <1>5 DEF s, r
=============================================================================
