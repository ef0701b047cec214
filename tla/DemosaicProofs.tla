--------------------------- MODULE DemosaicProofs ---------------------------
(* Every demosaicing algorithm leaves neutral scenes neutral up to the      *)
(* borders and finds the colours of the scenes that suit it four positions  *)
(* from them, on areas and sensors of every size, at every white level: the *)
(* invariants GreyStaysGrey and ColoursFoundInside of the runs.  First the  *)
(* sums and planes both rest on, then neutral views algorithm by algorithm, *)
(* then views of any scene, one section for each step of the algorithms.    *)
EXTENDS Demosaic, NatLemmas, FiniteSetTheorems, TLAPS

-----------------------------------------------------------------------------
(* Sums of functions.  The element a sum takes next.                        *)
Picked(S) == CHOOSE x \in S : TRUE

(* t gives the sum of f over every subset of its domain.                    *)
Totals(t, f) ==
  /\ t \in [SUBSET DOMAIN f -> Int]
  /\ t[{}] = 0
  /\ \A S \in SUBSET DOMAIN f : S # {} => t[S] = f[Picked(S)] + t[S \ {Picked(S)}]

(* The recursion a sum is defined by has a solution, found one size of      *)
(* subsets after the other.                                                 *)
LEMMA TotalsExist ==
  ASSUME NEW f, IsFiniteSet(DOMAIN f), \A p \in DOMAIN f : f[p] \in Int
  PROVE  \E t : Totals(t, f)
<1> DEFINE D == DOMAIN f
           V == [SUBSET D -> Int]
           base == [S \in SUBSET D |-> 0]
           Longer(v) == [S \in SUBSET D |-> IF S = {} THEN 0 ELSE f[Picked(S)] + v[S \ {Picked(S)}]]
           step == [n \in Nat |-> [v \in V |-> Longer(v)]]
<1>1. \A S \in SUBSET D : S # {} => Picked(S) \in S /\ S \ {Picked(S)} \in SUBSET D
  BY DEF Picked
<1>2. base \in V
  OBVIOUS
<1>3. ASSUME NEW v \in V PROVE Longer(v) \in V
  <2>1. ASSUME NEW S \in SUBSET D, S # {} PROVE f[Picked(S)] + v[S \ {Picked(S)}] \in Int
    <3>1. f[Picked(S)] \in Int /\ v[S \ {Picked(S)}] \in Int
      BY <1>1, <2>1
    <3> QED
      BY <3>1
  <2> QED
    BY <2>1
<1>4. step \in [Nat -> [V -> V]]
  <2> HIDE DEF V, Longer
  <2> QED
    BY <1>3
<1>5. PICK g : Recurs(g, V, base, step)
  <2> HIDE DEF V, base, step
  <2> QED
    BY <1>2, <1>4, Recursion
<1>6. g[0] = base /\ \A n \in Nat : g[n] \in V /\ g[n + 1] = Longer(g[n])
  <2>1. g \in [Nat -> V] /\ g[0] = base /\ \A n \in Nat : g[n + 1] = step[n][g[n]]
    BY <1>5 DEF Recurs
  <2> HIDE DEF V, Longer, base
  <2> QED
    BY <2>1
<1> DEFINE h == [S \in SUBSET D |-> g[Cardinality(S)][S]]
<1>7. \A S \in SUBSET D : IsFiniteSet(S) /\ Cardinality(S) \in Nat
  BY FS_Subset, FS_CardinalityType
<1>8. h \in V
  <2>1. ASSUME NEW S \in SUBSET D PROVE g[Cardinality(S)][S] \in Int
    BY <1>6, <1>7
  <2> QED
    BY <2>1
<1>9. h[{}] = 0
  BY <1>6, FS_EmptySet
<1>10. ASSUME NEW S \in SUBSET D, S # {} PROVE h[S] = f[Picked(S)] + h[S \ {Picked(S)}]
  <2> DEFINE T == S \ {Picked(S)}
  <2>1. T \in SUBSET D /\ Picked(S) \in S
    BY <1>1, <1>10
  <2>2. Cardinality(T) = Cardinality(S) - 1 /\ Cardinality(T) \in Nat /\ Cardinality(S) \in Nat
    BY <2>1, <1>7, FS_RemoveElement
  <2>3. g[Cardinality(S)] = Longer(g[Cardinality(T)])
    <3> HIDE DEF T, Longer
    <3> QED
      BY <2>2, <1>6
  <2>4. g[Cardinality(S)][S] = f[Picked(S)] + g[Cardinality(T)][T]
    BY <2>3, <1>10
  <2> QED
    BY <2>1, <2>4
<1> QED
  <2> HIDE DEF h
  <2> QED
    BY <1>8, <1>9, <1>10 DEF Totals

(* So SumFunction is such a sum.                                            *)
LEMMA SumUnfolds ==
  ASSUME NEW f, IsFiniteSet(DOMAIN f), \A p \in DOMAIN f : f[p] \in Int
  PROVE  \E t : Totals(t, f) /\ SumFunction(f) = t[DOMAIN f]
<1> DEFINE D == DOMAIN f
           Total(t) == t = [S \in SUBSET D |-> IF S = {} THEN 0
                                               ELSE f[Picked(S)] + t[S \ {Picked(S)}]]
           sum == CHOOSE t : Total(t)
<1>1. PICK t : Totals(t, f)
  BY TotalsExist
<1>2. Total(t)
  BY <1>1 DEF Totals
<1>3. Total(sum)
  <2> HIDE DEF Total
  <2> QED
    BY <1>2
<1>4. SumFunction(f) = sum[D]
  BY DEF SumFunction, SumFunctionOnSet, FoldFunctionOnSet, MapThenFoldSet, Picked
<1>5. sum[{}] = 0 /\ \A S \in SUBSET D : S # {} => sum[S] = f[Picked(S)] + sum[S \ {Picked(S)}]
  <2> HIDE DEF sum
  <2> QED
    BY <1>3
<1>6. sum = [S \in SUBSET D |-> sum[S]]
  <2> HIDE DEF sum
  <2> QED
    BY <1>3
<1> DEFINE Known == {n \in Nat : \A S \in SUBSET D : Cardinality(S) = n => sum[S] \in Int}
<1>7. \A S \in SUBSET D : IsFiniteSet(S) /\ Cardinality(S) \in Nat
  BY FS_Subset, FS_CardinalityType
<1>8. 0 \in Known
  <2> HIDE DEF sum
  <2>1. \A S \in SUBSET D : Cardinality(S) = 0 => S = {}
    BY <1>7, FS_EmptySet
  <2>2. sum[{}] \in Int
    BY <1>5
  <2>3. \A S \in SUBSET D : Cardinality(S) = 0 => sum[S] \in Int
    BY <2>1, <2>2, Zenon
  <2> QED
    BY <2>3
<1>9. ASSUME NEW n \in Nat, n \in Known PROVE n + 1 \in Known
  <2> HIDE DEF sum
  <2> SUFFICES ASSUME NEW S \in SUBSET D, Cardinality(S) = n + 1 PROVE sum[S] \in Int
    OBVIOUS
  <2>1. S # {}
    BY FS_EmptySet
  <2>2. Picked(S) \in S
    BY <2>1 DEF Picked
  <2>3. Cardinality(S \ {Picked(S)}) = n
    BY <1>7, <2>2, FS_RemoveElement
  <2>4. sum[S \ {Picked(S)}] \in Int /\ f[Picked(S)] \in Int
    BY <2>2, <2>3, <1>9
  <2>5. sum[S] = f[Picked(S)] + sum[S \ {Picked(S)}]
    BY <2>1, <1>5
  <2> QED
    BY <2>4, <2>5
<1>10. \A n \in Nat : n \in Known
  <2> HIDE DEF Known
  <2> QED
    BY <1>8, <1>9, Induct
<1>11. \A S \in SUBSET D : sum[S] \in Int
  <2> HIDE DEF sum
  <2> QED
    BY <1>10, <1>7
<1> QED
  <2> HIDE DEF sum
  <2> QED
    BY <1>4, <1>5, <1>6, <1>11 DEF Totals

(* A factor of every term is a factor of the sum.                           *)
LEMMA SumScales ==
  ASSUME NEW D, IsFiniteSet(D), NEW c \in Int, NEW g \in [D -> Int], NEW f, DOMAIN f = D,
         \A p \in D : f[p] = c * g[p]
  PROVE  SumFunction(f) = c * SumFunction(g) /\ SumFunction(g) \in Int
<1>1. \A p \in D : f[p] \in Int /\ g[p] \in Int
  OBVIOUS
<1>2. PICK t : Totals(t, f) /\ SumFunction(f) = t[D]
  BY <1>1, SumUnfolds
<1>3. PICK u : Totals(u, g) /\ SumFunction(g) = u[D]
  BY <1>1, SumUnfolds
<1>4. /\ t \in [SUBSET D -> Int] /\ u \in [SUBSET D -> Int] /\ t[{}] = 0 /\ u[{}] = 0
      /\ \A S \in SUBSET D : S # {} => t[S] = f[Picked(S)] + t[S \ {Picked(S)}]
      /\ \A S \in SUBSET D : S # {} => u[S] = g[Picked(S)] + u[S \ {Picked(S)}]
  BY <1>2, <1>3 DEF Totals
<1> DEFINE Scaled == {n \in Nat : \A S \in SUBSET D : Cardinality(S) = n => t[S] = c * u[S]}
<1>5. \A S \in SUBSET D : IsFiniteSet(S) /\ Cardinality(S) \in Nat
  BY FS_Subset, FS_CardinalityType
<1>6. 0 \in Scaled
  <2>1. \A S \in SUBSET D : Cardinality(S) = 0 => S = {}
    BY <1>5, FS_EmptySet
  <2>2. c * 0 = 0
    OBVIOUS
  <2> QED
    BY <2>1, <2>2, <1>4
<1>7. ASSUME NEW n \in Nat, n \in Scaled PROVE n + 1 \in Scaled
  <2> SUFFICES ASSUME NEW S \in SUBSET D, Cardinality(S) = n + 1 PROVE t[S] = c * u[S]
    OBVIOUS
  <2> DEFINE p == Picked(S)
             T == S \ {p}
  <2>1. S # {} /\ IsFiniteSet(S)
    BY <1>5, FS_EmptySet
  <2>2. p \in S
    BY <2>1 DEF Picked
  <2>3. Cardinality(T) = n
    <3> HIDE DEF p
    <3>1. Cardinality(T) = Cardinality(S) - 1
      BY <2>1, <2>2, FS_RemoveElement
    <3> QED
      BY <3>1
  <2>4. t[T] = c * u[T] /\ T \in SUBSET D
    BY <2>2, <2>3, <1>7
  <2>5. t[S] = f[p] + t[T] /\ u[S] = g[p] + u[T] /\ f[p] = c * g[p]
    BY <2>1, <2>2, <1>4
  <2>6. g[p] \in Int /\ u[T] \in Int
    BY <2>2, <2>4, <1>1, <1>4
  <2> HIDE DEF p, T
  <2>7. c * (g[p] + u[T]) = (c * g[p]) + (c * u[T])
    BY <2>6
  <2> QED
    BY <2>4, <2>5, <2>7
<1>8. \A n \in Nat : n \in Scaled
  <2> HIDE DEF Scaled
  <2> QED
    BY <1>6, <1>7, Induct
<1>9. t[D] = c * u[D] /\ u[D] \in Int
  BY <1>8, <1>5, <1>4
<1> QED
  BY <1>2, <1>3, <1>9

(* The sum of terms of at least one, and of ones.                           *)
LEMMA SumPositive ==
  ASSUME NEW D, IsFiniteSet(D), D # {}, NEW g \in [D -> Nat \ {0}]
  PROVE  SumFunction(g) \in Nat \ {0}
<1>1. \A p \in D : g[p] \in Int
  OBVIOUS
<1>2. PICK u : Totals(u, g) /\ SumFunction(g) = u[D]
  BY <1>1, SumUnfolds
<1>3. /\ u \in [SUBSET D -> Int] /\ u[{}] = 0
      /\ \A S \in SUBSET D : S # {} => u[S] = g[Picked(S)] + u[S \ {Picked(S)}]
  BY <1>2 DEF Totals
<1> DEFINE Large == {n \in Nat : \A S \in SUBSET D : Cardinality(S) = n => u[S] >= n}
<1>4. \A S \in SUBSET D : IsFiniteSet(S) /\ Cardinality(S) \in Nat
  BY FS_Subset, FS_CardinalityType
<1>5. 0 \in Large
  <2>1. \A S \in SUBSET D : Cardinality(S) = 0 => S = {}
    BY <1>4, FS_EmptySet
  <2>2. u[{}] >= 0
    BY <1>3
  <2>3. \A S \in SUBSET D : Cardinality(S) = 0 => u[S] >= 0
    BY <2>1, <2>2, Zenon
  <2> QED
    BY <2>3
<1>6. ASSUME NEW n \in Nat, n \in Large PROVE n + 1 \in Large
  <2> SUFFICES ASSUME NEW S \in SUBSET D, Cardinality(S) = n + 1 PROVE u[S] >= n + 1
    OBVIOUS
  <2> DEFINE p == Picked(S)
             T == S \ {p}
  <2>1. S # {} /\ IsFiniteSet(S)
    BY <1>4, FS_EmptySet
  <2>2. p \in S
    BY <2>1 DEF Picked
  <2>3. Cardinality(T) = n
    <3> HIDE DEF p
    <3>1. Cardinality(T) = Cardinality(S) - 1
      BY <2>1, <2>2, FS_RemoveElement
    <3> QED
      BY <3>1
  <2>4. u[T] >= n /\ T \in SUBSET D
    BY <2>2, <2>3, <1>6
  <2>5. u[S] = g[p] + u[T] /\ g[p] >= 1 /\ g[p] \in Nat /\ u[T] \in Int
    BY <2>1, <2>2, <2>4, <1>3
  <2> HIDE DEF p, T
  <2> QED
    BY <2>4, <2>5
<1>7. \A n \in Nat : n \in Large
  <2> HIDE DEF Large
  <2> QED
    BY <1>5, <1>6, Induct
<1>8. Cardinality(D) \in Nat /\ Cardinality(D) # 0 /\ u[D] \in Int
  BY <1>3, <1>4, FS_EmptySet
<1>9. u[D] >= Cardinality(D)
  BY <1>7, <1>8
<1> QED
  BY <1>2, <1>8, <1>9

-----------------------------------------------------------------------------
(* Positions and planes.                                                    *)

LEMMA IndexInside ==
  ASSUME NEW w \in Nat, NEW h \in Nat, NEW x \in 0 .. w - 1, NEW y \in 0 .. h - 1
  PROVE  (y * w) + x + 1 \in 1 .. w * h
<1>1. y * w \in Nat /\ w * h \in Nat
  OBVIOUS
<1>2. (y + 1) * w <= h * w
  OBVIOUS
<1>3. (y + 1) * w = (y * w) + w /\ h * w = w * h
  OBVIOUS
<1> DEFINE a == y * w
           b == w * h
           c == (y + 1) * w
<1>4. a \in Nat /\ b \in Nat /\ c <= b /\ c = a + w /\ c \in Nat
  BY <1>1, <1>2, <1>3
<1> HIDE DEF a, b, c
<1>5. a + x + 1 \in 1 .. b
  BY <1>4
<1> QED
  BY <1>5 DEF a, b

LEMMA PositionOf ==
  ASSUME NEW w \in Nat \ {0}, NEW h \in Nat, NEW i \in 1 .. w * h
  PROVE  ((i - 1) % w) \in 0 .. w - 1 /\ ((i - 1) \div w) \in 0 .. h - 1
<1>1. w * h \in Nat
  OBVIOUS
<1> DEFINE n == w * h
           q == (i - 1) \div w
           r == (i - 1) % w
<1>2. i - 1 \in Nat /\ i - 1 < n
  <2> HIDE DEF n
  <2> QED
    BY <1>1 DEF n
<1>3. q \in Nat /\ r \in 0 .. w - 1 /\ i - 1 = (q * w) + r
  BY <1>2, Divide
<1>4. q < h
  <2> SUFFICES ASSUME q >= h PROVE FALSE
    BY <1>3
  <2>1. q * w >= h * w
    <3> HIDE DEF q
    <3> QED
      BY <1>3
  <2>2. h * w = n
    OBVIOUS
  <2> DEFINE a == q * w
             b == h * w
  <2>3. a \in Nat /\ b \in Nat /\ a >= b /\ i - 1 = a + r /\ i - 1 < b
    BY <1>2, <1>3, <2>1, <2>2
  <2> HIDE DEF a, b, r
  <2> QED
    BY <1>3, <2>3
<1> HIDE DEF q, r
<1>5. r \in 0 .. w - 1 /\ q \in 0 .. h - 1
  BY <1>3, <1>4
<1> QED
  BY <1>5 DEF q, r

(* A plane is the beginning of a sequence, all of it.                       *)
LEMMA WholeSubSeq ==
  ASSUME NEW n \in Nat, NEW f, NEW c, \A i \in 1 .. n : f[i] = c
  PROVE  \A i \in 1 .. n : SubSeq(f, 1, n)[i] = c
OBVIOUS

(* A view of a neutral scene: v at every position.                          *)
Sized(s) ==
  /\ s.w \in Nat /\ s.w >= 6
  /\ s.h \in Nat /\ s.h >= 6
  /\ s.white \in Nat
Flat(s, plane, c) == \A i \in 1 .. s.w * s.h : plane[i] = c
Grey(s, v) == Sized(s) /\ v \in 0 .. s.white /\ Flat(s, s.at, v)

LEMMA ClampedInside ==
  ASSUME NEW v \in Int, NEW high \in Nat
  PROVE  Clamped(v, 0, high) \in 0 .. high
BY DEF Clamped, Most, Least

LEMMA GetGrey ==
  ASSUME NEW s, NEW v, Grey(s, v), NEW x \in Int, NEW y \in Int
  PROVE  get(s, x, y) = v
<1> DEFINE X == Clamped(x, 0, s.w - 1)
           Y == Clamped(y, 0, s.h - 1)
<1>1. s.w \in Nat /\ s.h \in Nat /\ s.w - 1 \in Nat /\ s.h - 1 \in Nat
  BY DEF Grey, Sized
<1>2. X \in 0 .. s.w - 1 /\ Y \in 0 .. s.h - 1
  BY <1>1, ClampedInside
<1>3. Index(s, X, Y) \in 1 .. s.w * s.h
  <2> HIDE DEF X, Y
  <2> QED
    BY <1>1, <1>2, IndexInside DEF Index
<1> QED
  BY <1>3 DEF get, Grey, Flat

(* What a flat plane has at a position inside the area.                     *)
LEMMA FlatAt ==
  ASSUME NEW s, Sized(s), NEW plane, NEW c, Flat(s, plane, c),
         NEW x \in 0 .. s.w - 1, NEW y \in 0 .. s.h - 1
  PROVE  plane[Index(s, x, y)] = c
<1>1. s.w \in Nat /\ s.h \in Nat
  BY DEF Sized
<1>2. Index(s, x, y) \in 1 .. s.w * s.h
  BY <1>1, IndexInside DEF Index
<1> QED
  BY <1>2 DEF Flat

(* The position a plane computes an entry for.                              *)
LEMMA EntryPosition ==
  ASSUME NEW s, Sized(s), NEW i \in 1 .. s.w * s.h
  PROVE  ((i - 1) % s.w) \in 0 .. s.w - 1 /\ ((i - 1) \div s.w) \in 0 .. s.h - 1
<1>1. s.w \in Nat \ {0} /\ s.h \in Nat
  BY DEF Sized
<1> QED
  BY <1>1, PositionOf

LEMMA SizeType ==
  ASSUME NEW s, Sized(s)
  PROVE  s.w \in Nat /\ s.h \in Nat /\ s.w * s.h \in Nat /\ 3 * s.w * s.h \in Nat
<1>1. s.w \in Nat /\ s.h \in Nat
  BY DEF Sized
<1> QED
  BY <1>1

(* A plane whose every value is c is flat.                                  *)
LEMMA FlatSubSeq ==
  ASSUME NEW s, Sized(s), NEW f, NEW c, \A i \in 1 .. s.w * s.h : f[i] = c
  PROVE  Flat(s, SubSeq(f, 1, s.w * s.h), c)
BY SizeType, WholeSubSeq DEF Flat

-----------------------------------------------------------------------------
(* The fractions of a sample.                                               *)

LEMMA QuarterIs == Quarter \in Nat \ {0} /\ Sub = 4 * Quarter /\ Sub \in Nat \ {0}
BY SubAssumption DEF Quarter

LEMMA RoundedBack ==
  ASSUME NEW white \in Nat, NEW v \in 0 .. white
  PROVE  Rounded(Sub * v, white) = v /\ Truncated(Sub * v, white) = v
<1>1. Sub \in Nat \ {0} /\ Sub \div 2 \in 0 .. Sub - 1 /\ v \in Nat /\ 0 \in 0 .. Sub - 1
  BY QuarterIs
<1>2. ((v * Sub) + (Sub \div 2)) \div Sub = v /\ ((v * Sub) + 0) \div Sub = v
  BY <1>1, DivideUnique
<1>3. v * Sub = Sub * v /\ v * Sub \in Nat
  BY <1>1
<1>4. Rounded(Sub * v, white) = v
  BY <1>2, <1>3 DEF Rounded, Clamped, Most, Least
<1>5. v * Sub <= white * Sub
  BY <1>1
<1>6. Clamped(v * Sub, 0, white * Sub) = v * Sub
  <2> DEFINE a == v * Sub
             b == white * Sub
  <2>1. a \in Nat /\ b \in Nat /\ a <= b
    BY <1>1, <1>3, <1>5
  <2> HIDE DEF a, b
  <2>2. Clamped(a, 0, b) = a
    BY <2>1 DEF Clamped, Most, Least
  <2> QED
    BY <2>2 DEF a, b
<1> QED
  BY <1>2, <1>3, <1>4, <1>6 DEF Truncated

(* A picture every sample of which is v.                                    *)
Uniform(data, n, v) == data \in Seq(Nat) /\ Len(data) = n /\ \A i \in 1 .. n : data[i] = v

LEMMA UniformSubSeq ==
  ASSUME NEW n \in Nat, NEW v \in Nat, NEW f, \A i \in 1 .. n : f[i] = v
  PROVE  Uniform(SubSeq(f, 1, n), n, v)
<1>1. \A i \in 1 .. n : SubSeq(f, 1, n)[i] = v
  BY WholeSubSeq
<1>2. Len(SubSeq(f, 1, n)) = n /\ SubSeq(f, 1, n) \in Seq(Nat)
  OBVIOUS
<1> QED
  BY <1>1, <1>2 DEF Uniform

LEMMA PixelOf ==
  ASSUME NEW w \in Nat, NEW h \in Nat, NEW i \in 1 .. 3 * w * h
  PROVE  ((i - 1) \div 3) + 1 \in 1 .. w * h /\ (i % 3) \in {0, 1, 2}
<1>1. 3 * w * h = 3 * (w * h) /\ w * h \in Nat
  OBVIOUS
<1> DEFINE n == w * h
<1>2. n \in Nat /\ i \in 1 .. 3 * n
  BY <1>1
<1> HIDE DEF n
<1>3. ((i - 1) \div 3) + 1 \in 1 .. n /\ (i % 3) \in {0, 1, 2}
  BY <1>2
<1> QED
  BY <1>3 DEF n

LEMMA InterleavedFlat ==
  ASSUME NEW s, NEW v, Sized(s), v \in 0 .. s.white, NEW red, NEW green, NEW blue,
         Flat(s, red, Sub * v), Flat(s, green, Sub * v), Flat(s, blue, Sub * v)
  PROVE  /\ Uniform(Interleaved(s, Rounded, red, green, blue), 3 * s.w * s.h, v)
         /\ Uniform(Interleaved(s, Truncated, red, green, blue), 3 * s.w * s.h, v)
<1> DEFINE n == 3 * s.w * s.h
           P(i) == ((i - 1) \div 3) + 1
           R(i) == CASE i % 3 = 1 -> Rounded(red[P(i)], s.white)
                     [] i % 3 = 2 -> Rounded(green[P(i)], s.white)
                     [] i % 3 = 0 -> Rounded(blue[P(i)], s.white)
           T(i) == CASE i % 3 = 1 -> Truncated(red[P(i)], s.white)
                     [] i % 3 = 2 -> Truncated(green[P(i)], s.white)
                     [] i % 3 = 0 -> Truncated(blue[P(i)], s.white)
<1>1. s.w \in Nat /\ s.h \in Nat /\ n \in Nat /\ s.white \in Nat /\ v \in Nat
  BY SizeType DEF Sized
<1>2. ASSUME NEW i \in 1 .. n PROVE R(i) = v /\ T(i) = v
  <2>1. P(i) \in 1 .. s.w * s.h /\ (i % 3) \in {0, 1, 2}
    BY <1>1, PixelOf
  <2>2. red[P(i)] = Sub * v /\ green[P(i)] = Sub * v /\ blue[P(i)] = Sub * v
    BY <2>1 DEF Flat
  <2>3. Rounded(Sub * v, s.white) = v /\ Truncated(Sub * v, s.white) = v
    BY <1>1, RoundedBack
  <2> HIDE DEF P
  <2> QED
    BY <2>1, <2>2, <2>3
<1>3. Interleaved(s, Rounded, red, green, blue) = SubSeq([i \in 1 .. n |-> R(i)], 1, n)
  BY DEF Interleaved
<1>4. Interleaved(s, Truncated, red, green, blue) = SubSeq([i \in 1 .. n |-> T(i)], 1, n)
  BY DEF Interleaved
<1>5. Uniform(SubSeq([i \in 1 .. n |-> R(i)], 1, n), n, v)
  <2> DEFINE f == [i \in 1 .. n |-> R(i)]
  <2>1. \A i \in 1 .. n : f[i] = v
    BY <1>2
  <2>2. Uniform(SubSeq(f, 1, n), n, v)
    <3> HIDE DEF f, n
    <3> QED
      BY <1>1, <2>1, UniformSubSeq
  <2> QED
    BY <2>2
<1>6. Uniform(SubSeq([i \in 1 .. n |-> T(i)], 1, n), n, v)
  <2> DEFINE f == [i \in 1 .. n |-> T(i)]
  <2>1. \A i \in 1 .. n : f[i] = v
    BY <1>2
  <2>2. Uniform(SubSeq(f, 1, n), n, v)
    <3> HIDE DEF f, n
    <3> QED
      BY <1>1, <2>1, UniformSubSeq
  <2> QED
    BY <2>2
<1> QED
  BY <1>3, <1>4, <1>5, <1>6

-----------------------------------------------------------------------------
(* Means: of ones, of the samples of a window.                              *)

LEMMA SumOnes ==
  ASSUME NEW D, IsFiniteSet(D)
  PROVE  SumFunction([p \in D |-> 1]) = Cardinality(D)
<1> DEFINE g == [p \in D |-> 1]
<1>1. \A p \in D : g[p] \in Int /\ g[p] = 1
  OBVIOUS
<1>2. DOMAIN g = D
  OBVIOUS
<1> HIDE DEF g
<1>3. PICK u : Totals(u, g) /\ SumFunction(g) = u[D]
  BY <1>1, <1>2, SumUnfolds
<1>4. /\ u \in [SUBSET D -> Int] /\ u[{}] = 0
      /\ \A S \in SUBSET D : S # {} => u[S] = g[Picked(S)] + u[S \ {Picked(S)}]
  BY <1>2, <1>3 DEF Totals
<1> DEFINE Counted == {n \in Nat : \A S \in SUBSET D : Cardinality(S) = n => u[S] = n}
<1>5. \A S \in SUBSET D : IsFiniteSet(S) /\ Cardinality(S) \in Nat
  BY FS_Subset, FS_CardinalityType
<1>6. 0 \in Counted
  <2>1. \A S \in SUBSET D : Cardinality(S) = 0 => S = {}
    BY <1>5, FS_EmptySet
  <2>2. \A S \in SUBSET D : Cardinality(S) = 0 => u[S] = 0
    BY <2>1, <1>4, Zenon
  <2> QED
    BY <2>2
<1>7. ASSUME NEW n \in Nat, n \in Counted PROVE n + 1 \in Counted
  <2> SUFFICES ASSUME NEW S \in SUBSET D, Cardinality(S) = n + 1 PROVE u[S] = n + 1
    OBVIOUS
  <2> DEFINE p == Picked(S)
             T == S \ {p}
  <2>1. S # {} /\ IsFiniteSet(S)
    BY <1>5, FS_EmptySet
  <2>2. p \in S
    BY <2>1 DEF Picked
  <2>3. Cardinality(T) = n
    <3> HIDE DEF p
    <3>1. Cardinality(T) = Cardinality(S) - 1
      BY <2>1, <2>2, FS_RemoveElement
    <3> QED
      BY <3>1
  <2>4. u[T] = n /\ T \in SUBSET D
    BY <2>2, <2>3, <1>7
  <2>5. u[S] = g[p] + u[T] /\ g[p] = 1
    BY <2>1, <2>2, <1>1, <1>4
  <2> HIDE DEF p, T
  <2> QED
    BY <2>4, <2>5
<1>8. \A n \in Nat : n \in Counted
  <2> HIDE DEF Counted
  <2> QED
    BY <1>6, <1>7, Induct
<1>9. u[D] = Cardinality(D)
  BY <1>8, <1>5
<1> QED
  BY <1>3, <1>9 DEF g

(* A multiple of a number is divided by it without a rest.                  *)
LEMMA DivideExact ==
  ASSUME NEW c \in Int, NEW k \in Nat \ {0}
  PROVE  (c * k) \div k = c
<1>1. CASE c \in Nat
  <2>1. 0 \in 0 .. k - 1
    OBVIOUS
  <2>2. ((c * k) + 0) \div k = c
    BY <1>1, <2>1, DivideUnique
  <2> QED
    BY <2>2
<1>2. CASE c \notin Nat
  <2> DEFINE a == c * k
             q == a \div k
             r == a % k
  <2>1. a \in Int /\ q \in Int /\ r \in 0 .. k - 1 /\ a = (k * q) + r
    OBVIOUS
  <2>2. r = k * (c - q) /\ c - q \in Int
    <3> HIDE DEF q, r
    <3>1. k * (c - q) = (k * c) - (k * q)
      BY <2>1
    <3> QED
      BY <2>1, <3>1
  <2> HIDE DEF q, r
  <2> DEFINE d == c - q
  <2>3. ~(d >= 1)
    <3> SUFFICES ASSUME d >= 1 PROVE FALSE
      OBVIOUS
    <3> HIDE DEF d
    <3>1. k * d >= k * 1
      BY <2>2 DEF d
    <3> QED
      BY <2>1, <2>2, <3>1 DEF d
  <2>4. ~(d <= -1)
    <3> SUFFICES ASSUME d <= -1 PROVE FALSE
      OBVIOUS
    <3>0. d \in Int
      BY <2>2
    <3> HIDE DEF d
    <3>1. k * d <= k * (-1)
      BY <3>0
    <3>2. k * (-1) < 0
      OBVIOUS
    <3>3. r = k * d /\ r \in Int /\ r >= 0
      BY <2>1, <2>2 DEF d
    <3> DEFINE m == k * d
               e == k * (-1)
    <3>4. m \in Int /\ e \in Int /\ m <= e /\ e < 0 /\ r = m
      BY <3>0, <3>1, <3>2, <3>3
    <3> HIDE DEF m, e
    <3> QED
      BY <3>3, <3>4
  <2>5. d = 0
    BY <2>2, <2>3, <2>4
  <2> QED
    BY <2>1, <2>2, <2>5 DEF q
<1> QED
  BY <1>1, <1>2

(* The mean of equal samples is the sample.                                 *)
LEMMA MeanOfEquals ==
  ASSUME NEW D, IsFiniteSet(D), D # {}, NEW c \in Int, NEW f, DOMAIN f = D, \A p \in D : f[p] = c
  PROVE  /\ SumFunction(f) = c * Cardinality(D)
         /\ Cardinality(D) \in Nat \ {0}
         /\ SumFunction(f) \div Cardinality(D) = c
<1> DEFINE g == [p \in D |-> 1]
           k == Cardinality(D)
<1>1. g \in [D -> Int] /\ \A p \in D : f[p] = c * g[p]
  OBVIOUS
<1>2. SumFunction(g) = k
  BY SumOnes
<1>3. k \in Nat \ {0}
  BY FS_CardinalityType, FS_EmptySet
<1> HIDE DEF g
<1>4. SumFunction(f) = c * SumFunction(g)
  BY <1>1, SumScales
<1>5. (c * k) \div k = c
  <2> HIDE DEF k
  <2> QED
    BY <1>3, DivideExact
<1> QED
  BY <1>2, <1>3, <1>4, <1>5

LEMMA AroundInside ==
  ASSUME NEW s, Sized(s), NEW x \in 0 .. s.w - 1, NEW y \in 0 .. s.h - 1, NEW radius \in Nat,
         NEW color
  PROVE  /\ IsFiniteSet(Around(s, x, y, radius, color))
         /\ \A p \in Around(s, x, y, radius, color) :
               /\ p[1] \in 0 .. s.w - 1 /\ p[2] \in 0 .. s.h - 1
               /\ p[1] \in x - radius .. x + radius /\ p[2] \in y - radius .. y + radius
               /\ fc(s, p[1], p[2]) = color
<1> DEFINE X == Most(0, x - radius) .. Least(s.w - 1, x + radius)
           Y == Most(0, y - radius) .. Least(s.h - 1, y + radius)
           A == Around(s, x, y, radius, color)
<1>1. s.w \in Nat /\ s.h \in Nat
  BY DEF Sized
<1>2. /\ Most(0, x - radius) \in Int /\ Least(s.w - 1, x + radius) \in Int
      /\ Most(0, y - radius) \in Int /\ Least(s.h - 1, y + radius) \in Int
  BY <1>1 DEF Most, Least
<1>3. IsFiniteSet(X) /\ IsFiniteSet(Y)
  BY <1>2, FS_Interval
<1>4. IsFiniteSet(X \X Y)
  <2> HIDE DEF X, Y
  <2> QED
    BY <1>3, FS_Product
<1>5. A \in SUBSET (X \X Y) /\ \A p \in A : fc(s, p[1], p[2]) = color
  BY DEF Around
<1>6. IsFiniteSet(A)
  <2> HIDE DEF A, X, Y
  <2> QED
    BY <1>4, <1>5, FS_Subset
<1>7. ASSUME NEW i \in X
      PROVE  i \in 0 .. s.w - 1 /\ i \in x - radius .. x + radius
  BY <1>1 DEF Most, Least
<1>8. ASSUME NEW i \in Y
      PROVE  i \in 0 .. s.h - 1 /\ i \in y - radius .. y + radius
  BY <1>1 DEF Most, Least
<1>9. \A p \in A : p[1] \in X /\ p[2] \in Y
  <2> HIDE DEF A, X, Y
  <2> QED
    BY <1>5
<1> HIDE DEF A, X, Y
<1>10. \A p \in A : /\ p[1] \in 0 .. s.w - 1 /\ p[2] \in 0 .. s.h - 1
                    /\ p[1] \in x - radius .. x + radius /\ p[2] \in y - radius .. y + radius
                    /\ fc(s, p[1], p[2]) = color
  BY <1>5, <1>7, <1>8, <1>9
<1> QED
  BY <1>6, <1>10 DEF A

(* The mean of a plane over the sites of a colour, when it has c at them.   *)
LEMMA MeanAroundIs ==
  ASSUME NEW s, Sized(s), NEW x \in 0 .. s.w - 1, NEW y \in 0 .. s.h - 1, NEW color, NEW none,
         NEW plane, NEW c \in Int,
         \A p \in Around(s, x, y, 1, color) : plane[Index(s, p[1], p[2])] = c
  PROVE  /\ MeanAround(s, plane, x, y, color, none) \in {none, c}
         /\ Around(s, x, y, 1, color) # {} => MeanAround(s, plane, x, y, color, none) = c
<1> DEFINE sites == Around(s, x, y, 1, color)
           f == [p \in sites |-> plane[Index(s, p[1], p[2])]]
<1>1. IsFiniteSet(sites)
  BY AroundInside
<1>2. ASSUME sites # {} PROVE SumFunction(f) \div Cardinality(sites) = c
  <2>1. DOMAIN f = sites /\ \A p \in sites : f[p] = c
    OBVIOUS
  <2> HIDE DEF f, sites
  <2> QED
    BY <1>1, <1>2, <2>1, MeanOfEquals
<1>3. MeanAround(s, plane, x, y, color, none) =
        IF sites = {} THEN none ELSE SumFunction(f) \div Cardinality(sites)
  BY DEF MeanAround
<1> HIDE DEF sites, f
<1> QED
  BY <1>2, <1>3 DEF sites

LEMMA WeightedSame ==
  ASSUME NEW a \in Nat, NEW wa \in Nat, NEW wb \in Nat
  PROVE  Weighted(a, wa, a, wb) = a
<1>1. CASE wa + wb = 0
  <2>1. (a + a) \div 2 = a
    OBVIOUS
  <2> QED
    BY <1>1, <2>1 DEF Weighted
<1>2. CASE wa + wb # 0
  <2>1. wa + wb \in Nat \ {0} /\ 0 \in 0 .. (wa + wb) - 1
    BY <1>2
  <2>2. ((a * (wa + wb)) + 0) \div (wa + wb) = a
    <3> DEFINE k == wa + wb
    <3>1. k \in Nat \ {0} /\ 0 \in 0 .. k - 1
      BY <2>1
    <3> HIDE DEF k
    <3>2. ((a * k) + 0) \div k = a
      BY <3>1, DivideUnique
    <3> QED
      BY <3>2 DEF k
  <2>3. (a * (wa + wb)) + 0 = (wa * a) + (wb * a)
    OBVIOUS
  <2> QED
    BY <1>2, <2>2, <2>3 DEF Weighted
<1> QED
  BY <1>1, <1>2

-----------------------------------------------------------------------------
(* Green at the Bayer sites of a neutral scene.                             *)

LEMMA DirectionalGrey ==
  ASSUME NEW s, NEW v, Grey(s, v), NEW x \in Int, NEW y \in Int, NEW dx \in Int, NEW dy \in Int
  PROVE  Gradient(s, x, y, dx, dy) = 0 /\ Directional(s, x, y, dx, dy) = Sub * v
<1>1. v \in Nat
  BY DEF Grey, Sized
<1>2. /\ get(s, x, y) = v
      /\ get(s, x - dx, y - dy) = v /\ get(s, x + dx, y + dy) = v
      /\ get(s, x - (2 * dx), y - (2 * dy)) = v /\ get(s, x + (2 * dx), y + (2 * dy)) = v
  <2>1. /\ x - dx \in Int /\ y - dy \in Int /\ x + dx \in Int /\ y + dy \in Int
        /\ x - (2 * dx) \in Int /\ y - (2 * dy) \in Int
        /\ x + (2 * dx) \in Int /\ y + (2 * dy) \in Int
    OBVIOUS
  <2> QED
    BY <2>1, GetGrey
<1>3. Curvature(s, x, y, dx, dy) = 0
  BY <1>1, <1>2 DEF Curvature
<1>4. Gradient(s, x, y, dx, dy) = 0
  BY <1>1, <1>2, <1>3 DEF Gradient, Abs
<1>5. Quarter * ((2 * (v + v)) + 0) = Sub * v
  BY <1>1, QuarterIs
<1>6. Directional(s, x, y, dx, dy) = Sub * v
  BY <1>2, <1>3, <1>5 DEF Directional
<1> QED
  BY <1>4, <1>6

LEMMA LevelType ==
  ASSUME NEW s, NEW v, Grey(s, v)
  PROVE  v \in Nat /\ Sub * v \in Nat /\ Sized(s) /\ s.white \in Nat
<1>1. v \in Nat /\ Sized(s) /\ s.white \in Nat
  BY DEF Grey, Sized
<1>2. Sub * v \in Nat
  BY <1>1, QuarterIs
<1> QED
  BY <1>1, <1>2

LEMMA AdaptiveGreenGrey ==
  ASSUME NEW s, NEW v, Grey(s, v)
  PROVE  Flat(s, AdaptiveGreen(s), Sub * v)
<1> DEFINE Choice(x, y, dh, dv) ==
             IF 2 * dh < dv THEN Directional(s, x, y, 1, 0)
             ELSE IF 2 * dv < dh THEN Directional(s, x, y, 0, 1)
             ELSE Weighted(Directional(s, x, y, 1, 0), dv, Directional(s, x, y, 0, 1), dh)
           At(x, y) == IF GreenAt(s, x, y) THEN Sub * get(s, x, y)
                       ELSE Most(0, Choice(x, y, Gradient(s, x, y, 1, 0), Gradient(s, x, y, 0, 1)))
           f == [i \in 1 .. s.w * s.h |-> At((i - 1) % s.w, (i - 1) \div s.w)]
<1>1. v \in Nat /\ Sub * v \in Nat /\ Sized(s)
  BY LevelType
<1>2. ASSUME NEW x \in Int, NEW y \in Int PROVE At(x, y) = Sub * v
  <2>1. /\ Directional(s, x, y, 1, 0) = Sub * v /\ Directional(s, x, y, 0, 1) = Sub * v
        /\ Gradient(s, x, y, 1, 0) = 0 /\ Gradient(s, x, y, 0, 1) = 0
        /\ get(s, x, y) = v
    BY DirectionalGrey, GetGrey
  <2> DEFINE c == Sub * v
  <2>2. c \in Nat
    BY <1>1
  <2> HIDE DEF c
  <2>3. Weighted(c, 0, c, 0) = c /\ Most(0, c) = c
    BY <2>2, WeightedSame DEF Most
  <2>4. Weighted(Sub * v, 0, Sub * v, 0) = Sub * v /\ Most(0, Sub * v) = Sub * v
    BY <2>3 DEF c
  <2> QED
    BY <2>1, <2>4
<1>3. \A i \in 1 .. s.w * s.h : f[i] = Sub * v
  <2> SUFFICES ASSUME NEW i \in 1 .. s.w * s.h
               PROVE  At((i - 1) % s.w, (i - 1) \div s.w) = Sub * v
    OBVIOUS
  <2>1. ((i - 1) % s.w) \in Int /\ ((i - 1) \div s.w) \in Int
    BY <1>1, EntryPosition
  <2> HIDE DEF At
  <2> QED
    BY <1>2, <2>1
<1>4. AdaptiveGreen(s) = SubSeq(f, 1, s.w * s.h)
  BY DEF AdaptiveGreen, Plane
<1> HIDE DEF f
<1> QED
  BY <1>1, <1>3, <1>4, FlatSubSeq

(* Both directions of a neutral scene are flat.                             *)
LEMMA DirectionGrey ==
  ASSUME NEW s, NEW v, Grey(s, v), NEW dx \in Int, NEW dy \in Int
  PROVE  Flat(s, Direction(s, dx, dy), Sub * v)
<1> DEFINE f == [i \in 1 .. s.w * s.h |-> Directional(s, (i - 1) % s.w, (i - 1) \div s.w, dx, dy)]
<1>1. Sized(s)
  BY LevelType
<1>2. \A i \in 1 .. s.w * s.h : f[i] = Sub * v
  <2> SUFFICES ASSUME NEW i \in 1 .. s.w * s.h
               PROVE  Directional(s, (i - 1) % s.w, (i - 1) \div s.w, dx, dy) = Sub * v
    OBVIOUS
  <2>1. ((i - 1) % s.w) \in Int /\ ((i - 1) \div s.w) \in Int
    BY <1>1, EntryPosition
  <2> QED
    BY <2>1, DirectionalGrey
<1>3. Direction(s, dx, dy) = SubSeq(f, 1, s.w * s.h)
  BY DEF Direction, Plane
<1> HIDE DEF f
<1> QED
  BY <1>1, <1>2, <1>3, FlatSubSeq

LEMMA HomogeneousType ==
  ASSUME NEW s, NEW this, NEW other, NEW x \in Int, NEW y \in Int
  PROVE  Homogeneous(s, this, other, x, y) \in Nat
<1> DEFINE X == x - 1 .. x + 1
           Y == y - 1 .. y + 1
           H == {p \in X \X Y : Unlikeness(s, this, x, y, p) < Unlikeness(s, other, x, y, p)}
<1>1. IsFiniteSet(X) /\ IsFiniteSet(Y)
  <2>1. x - 1 \in Int /\ x + 1 \in Int /\ y - 1 \in Int /\ y + 1 \in Int
    OBVIOUS
  <2> QED
    BY <2>1, FS_Interval
<1>2. IsFiniteSet(X \X Y)
  <2> HIDE DEF X, Y
  <2> QED
    BY <1>1, FS_Product
<1>3. H \in SUBSET (X \X Y)
  OBVIOUS
<1>4. Cardinality(H) \in Nat
  <2> HIDE DEF H, X, Y
  <2> QED
    BY <1>2, <1>3, FS_Subset, FS_CardinalityType
<1> QED
  BY <1>4 DEF Homogeneous

LEMMA RefinedGreenGrey ==
  ASSUME NEW s, NEW v, Grey(s, v), NEW first, NEW gh, NEW gv,
         Flat(s, first, Sub * v), Flat(s, gh, Sub * v), Flat(s, gv, Sub * v)
  PROVE  Flat(s, RefinedGreen(s, first, gh, gv), Sub * v)
<1> DEFINE Choice(i, hh, vh) ==
             IF hh > vh + 1 THEN gh[i]
             ELSE IF vh > hh + 1 THEN gv[i]
             ELSE Weighted(gh[i], hh + 1, gv[i], vh + 1)
           At(x, y) == IF GreenAt(s, x, y) \/ x \notin 3 .. s.w - 4 \/ y \notin 3 .. s.h - 4
                       THEN first[Index(s, x, y)]
                       ELSE Most(0, Choice(Index(s, x, y), Homogeneous(s, gh, gv, x, y),
                                           Homogeneous(s, gv, gh, x, y)))
           f == [i \in 1 .. s.w * s.h |-> At((i - 1) % s.w, (i - 1) \div s.w)]
<1>1. v \in Nat /\ Sub * v \in Nat /\ Sized(s) /\ s.w \in Nat /\ s.h \in Nat
  BY LevelType, SizeType
<1>2. ASSUME NEW x \in 0 .. s.w - 1, NEW y \in 0 .. s.h - 1 PROVE At(x, y) = Sub * v
  <2> DEFINE j == Index(s, x, y)
             hh == Homogeneous(s, gh, gv, x, y)
             vh == Homogeneous(s, gv, gh, x, y)
             c == Sub * v
  <2>1. first[j] = c /\ gh[j] = c /\ gv[j] = c
    BY <1>1, FlatAt
  <2>2. x \in Int /\ y \in Int
    BY <1>1
  <2>3. hh \in Nat /\ vh \in Nat /\ c \in Nat
    BY <1>1, <2>2, HomogeneousType
  <2>4. At(x, y) \in {first[j], Most(0, Choice(j, hh, vh))}
    OBVIOUS
  <2>5. Most(0, Choice(j, hh, vh)) = c
    <3> HIDE DEF j, hh, vh, c
    <3>1. hh + 1 \in Nat /\ vh + 1 \in Nat
      BY <2>3
    <3>2. Weighted(c, hh + 1, c, vh + 1) = c /\ Most(0, c) = c
      BY <2>3, <3>1, WeightedSame DEF Most
    <3> QED
      BY <2>1, <3>2
  <2> HIDE DEF At, Choice, j, hh, vh
  <2> QED
    BY <2>1, <2>4, <2>5
<1>3. \A i \in 1 .. s.w * s.h : f[i] = Sub * v
  <2> SUFFICES ASSUME NEW i \in 1 .. s.w * s.h
               PROVE  At((i - 1) % s.w, (i - 1) \div s.w) = Sub * v
    OBVIOUS
  <2>1. ((i - 1) % s.w) \in 0 .. s.w - 1 /\ ((i - 1) \div s.w) \in 0 .. s.h - 1
    BY <1>1, EntryPosition
  <2> HIDE DEF At
  <2> QED
    BY <1>2, <2>1
<1>4. RefinedGreen(s, first, gh, gv) = SubSeq(f, 1, s.w * s.h)
  BY DEF RefinedGreen, Plane
<1> HIDE DEF f
<1> QED
  BY <1>1, <1>3, <1>4, FlatSubSeq

-----------------------------------------------------------------------------
(* Red and blue: no difference from green, and none to smooth away.         *)

LEMMA DifferenceGrey ==
  ASSUME NEW s, NEW v, Grey(s, v), NEW green, Flat(s, green, Sub * v), NEW color
  PROVE  Flat(s, Difference(s, green, color), 0)
<1> DEFINE At(x, y) == IF fc(s, x, y) = color THEN (Sub * get(s, x, y)) - green[Index(s, x, y)] ELSE 0
           f == [i \in 1 .. s.w * s.h |-> At((i - 1) % s.w, (i - 1) \div s.w)]
<1>1. v \in Nat /\ Sub * v \in Nat /\ Sized(s) /\ s.w \in Nat /\ s.h \in Nat
  BY LevelType, SizeType
<1>2. ASSUME NEW x \in 0 .. s.w - 1, NEW y \in 0 .. s.h - 1 PROVE At(x, y) = 0
  <2>1. green[Index(s, x, y)] = Sub * v
    BY <1>1, FlatAt
  <2>2. get(s, x, y) = v
    BY <1>1, GetGrey
  <2>3. (Sub * v) - (Sub * v) = 0
    BY <1>1
  <2> QED
    BY <2>1, <2>2, <2>3
<1>3. \A i \in 1 .. s.w * s.h : f[i] = 0
  <2> SUFFICES ASSUME NEW i \in 1 .. s.w * s.h
               PROVE  At((i - 1) % s.w, (i - 1) \div s.w) = 0
    OBVIOUS
  <2>1. ((i - 1) % s.w) \in 0 .. s.w - 1 /\ ((i - 1) \div s.w) \in 0 .. s.h - 1
    BY <1>1, EntryPosition
  <2> HIDE DEF At
  <2> QED
    BY <1>2, <2>1
<1>4. Difference(s, green, color) = SubSeq(f, 1, s.w * s.h)
  BY DEF Difference, Plane
<1> HIDE DEF f
<1> QED
  BY <1>1, <1>3, <1>4, FlatSubSeq

LEMMA ByDifferenceGrey ==
  ASSUME NEW s, NEW v, Grey(s, v), NEW green, Flat(s, green, Sub * v), NEW color,
         NEW differences, Flat(s, differences, 0)
  PROVE  Flat(s, ByDifference(s, green, differences, color), Sub * v)
<1> DEFINE At(x, y) == IF fc(s, x, y) = color THEN Sub * get(s, x, y)
                       ELSE green[Index(s, x, y)] + MeanAround(s, differences, x, y, color, 0)
           f == [i \in 1 .. s.w * s.h |-> At((i - 1) % s.w, (i - 1) \div s.w)]
<1>1. v \in Nat /\ Sub * v \in Nat /\ Sized(s) /\ s.w \in Nat /\ s.h \in Nat
  BY LevelType, SizeType
<1>2. ASSUME NEW x \in 0 .. s.w - 1, NEW y \in 0 .. s.h - 1 PROVE At(x, y) = Sub * v
  <2>1. green[Index(s, x, y)] = Sub * v
    BY <1>1, FlatAt
  <2>2. get(s, x, y) = v
    BY <1>1, GetGrey
  <2>3. \A p \in Around(s, x, y, 1, color) : differences[Index(s, p[1], p[2])] = 0
    <3>1. \A p \in Around(s, x, y, 1, color) : p[1] \in 0 .. s.w - 1 /\ p[2] \in 0 .. s.h - 1
      BY <1>1, AroundInside
    <3> QED
      BY <1>1, <3>1, FlatAt
  <2>4. MeanAround(s, differences, x, y, color, 0) \in {0, 0}
    BY <1>1, <2>3, MeanAroundIs
  <2> DEFINE c == Sub * v
             m == MeanAround(s, differences, x, y, color, 0)
  <2>5. c + m = c
    <3>1. c \in Nat /\ m = 0
      BY <1>1, <2>4
    <3> HIDE DEF c, m
    <3> QED
      BY <3>1
  <2> QED
    BY <2>1, <2>2, <2>5
<1>3. \A i \in 1 .. s.w * s.h : f[i] = Sub * v
  <2> SUFFICES ASSUME NEW i \in 1 .. s.w * s.h
               PROVE  At((i - 1) % s.w, (i - 1) \div s.w) = Sub * v
    OBVIOUS
  <2>1. ((i - 1) % s.w) \in 0 .. s.w - 1 /\ ((i - 1) \div s.w) \in 0 .. s.h - 1
    BY <1>1, EntryPosition
  <2> HIDE DEF At
  <2> QED
    BY <1>2, <2>1
<1>4. ByDifference(s, green, differences, color) = SubSeq(f, 1, s.w * s.h)
  BY DEF ByDifference, Plane
<1> HIDE DEF f
<1> QED
  BY <1>1, <1>3, <1>4, FlatSubSeq

LEMMA UnzippedGrey ==
  ASSUME NEW s, NEW v, Grey(s, v), NEW green, Flat(s, green, Sub * v),
         NEW plane, Flat(s, plane, Sub * v)
  PROVE  Flat(s, Unzipped(s, green, plane), Sub * v)
<1> DEFINE D(x, y) == plane[Index(s, x, y)] - green[Index(s, x, y)]
           Smoothed(x, y, near, mean) ==
             IF 2 * Abs(D(x, y) - mean) > (3 * SumFunction([p \in near |-> Abs(D(p[1], p[2]) - mean)])) + (2 * Sub)
             THEN green[Index(s, x, y)] + mean ELSE plane[Index(s, x, y)]
           Cross(x, y) == {<<x - 1, y>>, <<x + 1, y>>, <<x, y - 1>>, <<x, y + 1>>}
           At(x, y) == IF x \notin 2 .. s.w - 3 \/ y \notin 2 .. s.h - 3 THEN plane[Index(s, x, y)]
                       ELSE Smoothed(x, y, Cross(x, y),
                                     SumFunction([p \in Cross(x, y) |-> D(p[1], p[2])]) \div 4)
           f == [i \in 1 .. s.w * s.h |-> At((i - 1) % s.w, (i - 1) \div s.w)]
<1>1. v \in Nat /\ Sub * v \in Nat /\ Sized(s) /\ s.w \in Nat /\ s.h \in Nat
  BY LevelType, SizeType
<1>2. ASSUME NEW x \in 0 .. s.w - 1, NEW y \in 0 .. s.h - 1 PROVE D(x, y) = 0
  <2>1. plane[Index(s, x, y)] = Sub * v /\ green[Index(s, x, y)] = Sub * v
    BY <1>1, FlatAt
  <2>2. (Sub * v) - (Sub * v) = 0
    BY <1>1
  <2> QED
    BY <2>1, <2>2
<1>3. ASSUME NEW x \in 0 .. s.w - 1, NEW y \in 0 .. s.h - 1 PROVE At(x, y) = Sub * v
  <2>1. CASE x \notin 2 .. s.w - 3 \/ y \notin 2 .. s.h - 3
    <3>1. At(x, y) = plane[Index(s, x, y)]
      BY <2>1
    <3>2. plane[Index(s, x, y)] = Sub * v
      BY <1>1, FlatAt
    <3> QED
      BY <3>1, <3>2
  <2>2. CASE x \in 2 .. s.w - 3 /\ y \in 2 .. s.h - 3
    <3> DEFINE C == Cross(x, y)
               g == [p \in C |-> D(p[1], p[2])]
               mean == SumFunction(g) \div 4
               e == [p \in C |-> Abs(D(p[1], p[2]) - mean)]
    <3>1. IsFiniteSet(C) /\ C # {}
      <4>1. C = {<<x - 1, y>>} \cup {<<x + 1, y>>} \cup {<<x, y - 1>>} \cup {<<x, y + 1>>}
        OBVIOUS
      <4>2. \A a : IsFiniteSet({a})
        BY FS_Singleton
      <4>3. IsFiniteSet({<<x - 1, y>>} \cup {<<x + 1, y>>} \cup {<<x, y - 1>>} \cup {<<x, y + 1>>})
        BY <4>2, FS_Union
      <4> QED
        BY <4>1, <4>3
    <3>2. \A p \in C : p[1] \in 0 .. s.w - 1 /\ p[2] \in 0 .. s.h - 1
      BY <1>1, <2>2
    <3>3. \A p \in C : D(p[1], p[2]) = 0
      <4> HIDE DEF C, D
      <4> QED
        BY <1>2, <3>2
    <3>4. SumFunction(g) = 0
      <4>1. DOMAIN g = C /\ \A p \in C : g[p] = 0
        BY <3>3
      <4> HIDE DEF g, C
      <4>2. SumFunction(g) = 0 * Cardinality(C) /\ Cardinality(C) \in Nat \ {0}
        BY <3>1, <4>1, MeanOfEquals
      <4> QED
        BY <4>2
    <3>5. mean = 0
      <4> HIDE DEF g
      <4> QED
        BY <3>4
    <3>6. SumFunction(e) = 0
      <4>1. DOMAIN e = C /\ \A p \in C : e[p] = 0
        <5> SUFFICES ASSUME NEW p \in C PROVE Abs(D(p[1], p[2]) - mean) = 0
          OBVIOUS
        <5> HIDE DEF D, mean, C
        <5> QED
          BY <3>3, <3>5 DEF Abs
      <4> HIDE DEF e, C
      <4>2. SumFunction(e) = 0 * Cardinality(C) /\ Cardinality(C) \in Nat \ {0}
        BY <3>1, <4>1, MeanOfEquals
      <4> QED
        BY <4>2
    <3>7. D(x, y) = 0
      BY <1>2
    <3>8. At(x, y) = IF 2 * Abs(D(x, y) - mean) > (3 * SumFunction(e)) + (2 * Sub)
                     THEN green[Index(s, x, y)] + mean ELSE plane[Index(s, x, y)]
      BY <2>2
    <3>9. ~(2 * Abs(D(x, y) - mean) > (3 * SumFunction(e)) + (2 * Sub))
      <4> HIDE DEF D, mean, e
      <4> QED
        BY <3>5, <3>6, <3>7, QuarterIs DEF Abs
    <3>10. plane[Index(s, x, y)] = Sub * v
      BY <1>1, FlatAt
    <3> HIDE DEF At, D, mean, e
    <3> QED
      BY <3>8, <3>9, <3>10
  <2> QED
    BY <2>1, <2>2
<1>4. \A i \in 1 .. s.w * s.h : f[i] = Sub * v
  <2> SUFFICES ASSUME NEW i \in 1 .. s.w * s.h
               PROVE  At((i - 1) % s.w, (i - 1) \div s.w) = Sub * v
    OBVIOUS
  <2>1. ((i - 1) % s.w) \in 0 .. s.w - 1 /\ ((i - 1) \div s.w) \in 0 .. s.h - 1
    BY <1>1, EntryPosition
  <2> HIDE DEF At
  <2> QED
    BY <1>3, <2>1
<1>5. Unzipped(s, green, plane) = SubSeq(f, 1, s.w * s.h)
  BY DEF Unzipped, Plane
<1> HIDE DEF f
<1> QED
  BY <1>1, <1>4, <1>5, FlatSubSeq

(* AMaZE, of a neutral view.                                                *)
LEMMA AmazeGrey ==
  ASSUME NEW s, NEW v, Grey(s, v)
  PROVE  Uniform(AmazeOf(s), 3 * s.w * s.h, v)
<1> DEFINE gh == Direction(s, 1, 0)
           gv == Direction(s, 0, 1)
           green == RefinedGreen(s, AdaptiveGreen(s), gh, gv)
           Colour(c) == Unzipped(s, green, ByDifference(s, green, Difference(s, green, c), c))
<1>1. Sized(s) /\ v \in 0 .. s.white
  BY DEF Grey
<1>2. Flat(s, gh, Sub * v) /\ Flat(s, gv, Sub * v)
  <2>1. 0 \in Int /\ 1 \in Int
    OBVIOUS
  <2> QED
    BY <2>1, DirectionGrey
<1>3. Flat(s, green, Sub * v)
  <2> HIDE DEF gh, gv
  <2> QED
    BY <1>2, AdaptiveGreenGrey, RefinedGreenGrey
<1>4. AmazeOf(s) = Interleaved(s, Rounded, Colour(0), green, Colour(2))
  BY DEF AmazeOf, AmazeColours
<1> HIDE DEF green
<1>5. ASSUME NEW c PROVE Flat(s, Colour(c), Sub * v)
  BY <1>3, DifferenceGrey, ByDifferenceGrey, UnzippedGrey
<1> HIDE DEF Colour
<1>6. Flat(s, Colour(0), Sub * v) /\ Flat(s, Colour(2), Sub * v)
  BY <1>5
<1> QED
  BY <1>1, <1>3, <1>4, <1>6, InterleavedFlat

-----------------------------------------------------------------------------
(* LMMSE.                                                                   *)

LEMMA CutKeeps ==
  ASSUME NEW white \in Nat, NEW v \in 0 .. white
  PROVE  Clamped(Sub * v, 0, Sub * white) = Sub * v
<1>1. Sub \in Nat /\ Sub * v \in Nat /\ Sub * white \in Nat /\ Sub * v <= Sub * white
  BY QuarterIs
<1> DEFINE a == Sub * v
           b == Sub * white
<1>2. a \in Nat /\ b \in Nat /\ a <= b
  BY <1>1
<1> HIDE DEF a, b
<1>3. Clamped(a, 0, b) = a
  BY <1>2 DEF Clamped, Most, Least
<1> QED
  BY <1>3 DEF a, b

LEMMA CutToGrey ==
  ASSUME NEW s, NEW v, Grey(s, v), NEW plane, Flat(s, plane, Sub * v)
  PROVE  Flat(s, CutTo(s, plane), Sub * v)
<1> DEFINE At(x, y) == Clamped(plane[Index(s, x, y)], 0, Sub * s.white)
           f == [i \in 1 .. s.w * s.h |-> At((i - 1) % s.w, (i - 1) \div s.w)]
<1>1. v \in Nat /\ Sub * v \in Nat /\ Sized(s) /\ s.w \in Nat /\ s.h \in Nat
  BY LevelType, SizeType
<1>2. ASSUME NEW x \in 0 .. s.w - 1, NEW y \in 0 .. s.h - 1 PROVE At(x, y) = Sub * v
  <2>1. plane[Index(s, x, y)] = Sub * v
    BY <1>1, FlatAt
  <2>2. Clamped(Sub * v, 0, Sub * s.white) = Sub * v
    BY CutKeeps DEF Grey, Sized
  <2> QED
    BY <2>1, <2>2
<1>3. \A i \in 1 .. s.w * s.h : f[i] = Sub * v
  <2> SUFFICES ASSUME NEW i \in 1 .. s.w * s.h
               PROVE  At((i - 1) % s.w, (i - 1) \div s.w) = Sub * v
    OBVIOUS
  <2>1. ((i - 1) % s.w) \in 0 .. s.w - 1 /\ ((i - 1) \div s.w) \in 0 .. s.h - 1
    BY <1>1, EntryPosition
  <2> HIDE DEF At
  <2> QED
    BY <1>2, <2>1
<1>4. CutTo(s, plane) = SubSeq(f, 1, s.w * s.h)
  BY DEF CutTo, Plane
<1> HIDE DEF f
<1> QED
  BY <1>1, <1>3, <1>4, FlatSubSeq

LEMMA CutDirectionGrey ==
  ASSUME NEW s, NEW v, Grey(s, v), NEW dx \in Int, NEW dy \in Int
  PROVE  Flat(s, CutDirection(s, dx, dy), Sub * v)
<1> DEFINE At(x, y) == IF GreenAt(s, x, y) THEN Sub * get(s, x, y)
                       ELSE Clamped(Directional(s, x, y, dx, dy), 0, Sub * s.white)
           f == [i \in 1 .. s.w * s.h |-> At((i - 1) % s.w, (i - 1) \div s.w)]
<1>1. v \in Nat /\ Sub * v \in Nat /\ Sized(s) /\ s.w \in Nat /\ s.h \in Nat
  BY LevelType, SizeType
<1>2. ASSUME NEW x \in 0 .. s.w - 1, NEW y \in 0 .. s.h - 1 PROVE At(x, y) = Sub * v
  <2>1. x \in Int /\ y \in Int
    BY <1>1
  <2>2. Directional(s, x, y, dx, dy) = Sub * v /\ get(s, x, y) = v
    BY <2>1, DirectionalGrey, GetGrey
  <2>3. Clamped(Sub * v, 0, Sub * s.white) = Sub * v
    BY CutKeeps DEF Grey, Sized
  <2> QED
    BY <2>2, <2>3
<1>3. \A i \in 1 .. s.w * s.h : f[i] = Sub * v
  <2> SUFFICES ASSUME NEW i \in 1 .. s.w * s.h
               PROVE  At((i - 1) % s.w, (i - 1) \div s.w) = Sub * v
    OBVIOUS
  <2>1. ((i - 1) % s.w) \in 0 .. s.w - 1 /\ ((i - 1) \div s.w) \in 0 .. s.h - 1
    BY <1>1, EntryPosition
  <2> HIDE DEF At
  <2> QED
    BY <1>2, <2>1
<1>4. CutDirection(s, dx, dy) = SubSeq(f, 1, s.w * s.h)
  BY DEF CutDirection, Plane
<1> HIDE DEF f
<1> QED
  BY <1>1, <1>3, <1>4, FlatSubSeq

(* What a direction leaves of the samples does not vary: there is nothing.  *)
LEMMA VarianceGrey ==
  ASSUME NEW s, NEW v, Grey(s, v), NEW plane, Flat(s, plane, Sub * v),
         NEW x \in Int, NEW y \in Int
  PROVE  Variance(s, plane, x, y) = 0
<1> DEFINE Residue(d) == LET nx == Clamped(x + d[1], 0, s.w - 1)
                             ny == Clamped(y + d[2], 0, s.h - 1)
                         IN ((Sub * get(s, nx, ny)) - plane[Index(s, nx, ny)]) \div Quarter
           window == (-2 .. 2) \X (-2 .. 2)
           f == [d \in window |-> Residue(d)]
           g == [d \in window |-> Residue(d) * Residue(d)]
<1>1. v \in Nat /\ Sub * v \in Nat /\ Sized(s) /\ s.w - 1 \in Nat /\ s.h - 1 \in Nat
  BY LevelType, SizeType DEF Sized
<1>2. ASSUME NEW d \in window PROVE Residue(d) = 0
  <2> DEFINE nx == Clamped(x + d[1], 0, s.w - 1)
             ny == Clamped(y + d[2], 0, s.h - 1)
  <2>1. x + d[1] \in Int /\ y + d[2] \in Int
    OBVIOUS
  <2>2. nx \in 0 .. s.w - 1 /\ ny \in 0 .. s.h - 1
    BY <1>1, <2>1, ClampedInside
  <2> HIDE DEF nx, ny
  <2>3. nx \in Int /\ ny \in Int
    BY <1>1, <2>2
  <2>4. get(s, nx, ny) = v /\ plane[Index(s, nx, ny)] = Sub * v
    BY <1>1, <2>2, <2>3, GetGrey, FlatAt
  <2>5. ((Sub * v) - (Sub * v)) \div Quarter = 0
    <3>1. (Sub * v) - (Sub * v) = 0
      BY <1>1
    <3>2. 0 \div Quarter = 0
      BY QuarterIs
    <3> QED
      BY <3>1, <3>2
  <2> QED
    BY <2>4, <2>5 DEF nx, ny
<1>3. IsFiniteSet(window) /\ window # {}
  <2>1. IsFiniteSet(-2 .. 2)
    <3>1. -2 \in Int /\ 2 \in Int
      OBVIOUS
    <3> QED
      BY <3>1, FS_Interval
  <2>2. <<0, 0>> \in window
    OBVIOUS
  <2> QED
    BY <2>1, <2>2, FS_Product
<1>4. DOMAIN f = window /\ \A d \in window : f[d] = 0
  <2> HIDE DEF Residue, window
  <2> QED
    BY <1>2
<1>5. DOMAIN g = window /\ \A d \in window : g[d] = 0
  <2>1. 0 * 0 = 0
    OBVIOUS
  <2> HIDE DEF Residue, window
  <2> QED
    BY <1>2, <2>1
<1>6. Variance(s, plane, x, y) =
        ((25 * SumFunction(g)) - (SumFunction(f) * SumFunction(f))) \div 625
  BY DEF Variance
<1> HIDE DEF window, f, g
<1>7. SumFunction(f) = 0 * Cardinality(window) /\ SumFunction(g) = 0 * Cardinality(window)
      /\ Cardinality(window) \in Nat
  BY <1>3, <1>4, <1>5, MeanOfEquals
<1> QED
  BY <1>6, <1>7

LEMMA LmmseGreenGrey ==
  ASSUME NEW s, NEW v, Grey(s, v), NEW gh, NEW gv, Flat(s, gh, Sub * v), Flat(s, gv, Sub * v)
  PROVE  Flat(s, LmmseGreen(s, gh, gv), Sub * v)
<1> DEFINE At(x, y) == IF GreenAt(s, x, y) THEN gh[Index(s, x, y)]
                       ELSE Weighted(gh[Index(s, x, y)], Variance(s, gv, x, y),
                                     gv[Index(s, x, y)], Variance(s, gh, x, y))
           f == [i \in 1 .. s.w * s.h |-> At((i - 1) % s.w, (i - 1) \div s.w)]
<1>1. v \in Nat /\ Sub * v \in Nat /\ Sized(s) /\ s.w \in Nat /\ s.h \in Nat
  BY LevelType, SizeType
<1>2. ASSUME NEW x \in 0 .. s.w - 1, NEW y \in 0 .. s.h - 1 PROVE At(x, y) = Sub * v
  <2>1. x \in Int /\ y \in Int
    BY <1>1
  <2>2. gh[Index(s, x, y)] = Sub * v /\ gv[Index(s, x, y)] = Sub * v
    BY <1>1, FlatAt
  <2>3. Variance(s, gv, x, y) = 0 /\ Variance(s, gh, x, y) = 0
    BY <2>1, VarianceGrey
  <2>4. Weighted(Sub * v, 0, Sub * v, 0) = Sub * v
    BY <1>1, WeightedSame
  <2> QED
    BY <2>2, <2>3, <2>4
<1>3. \A i \in 1 .. s.w * s.h : f[i] = Sub * v
  <2> SUFFICES ASSUME NEW i \in 1 .. s.w * s.h
               PROVE  At((i - 1) % s.w, (i - 1) \div s.w) = Sub * v
    OBVIOUS
  <2>1. ((i - 1) % s.w) \in 0 .. s.w - 1 /\ ((i - 1) \div s.w) \in 0 .. s.h - 1
    BY <1>1, EntryPosition
  <2> HIDE DEF At
  <2> QED
    BY <1>2, <2>1
<1>4. LmmseGreen(s, gh, gv) = SubSeq(f, 1, s.w * s.h)
  BY DEF LmmseGreen, Plane
<1> HIDE DEF f
<1> QED
  BY <1>1, <1>3, <1>4, FlatSubSeq

(* LMMSE, of a neutral view.                                                *)
LEMMA LmmseGrey ==
  ASSUME NEW s, NEW v, Grey(s, v)
  PROVE  Uniform(LmmseOf(s), 3 * s.w * s.h, v)
<1> DEFINE green == LmmseGreen(s, CutDirection(s, 1, 0), CutDirection(s, 0, 1))
           Colour(c) == CutTo(s, ByDifference(s, green, Difference(s, green, c), c))
<1>1. Sized(s) /\ v \in 0 .. s.white
  BY DEF Grey
<1>2. Flat(s, green, Sub * v)
  <2>1. 0 \in Int /\ 1 \in Int
    OBVIOUS
  <2>2. Flat(s, CutDirection(s, 1, 0), Sub * v) /\ Flat(s, CutDirection(s, 0, 1), Sub * v)
    BY <2>1, CutDirectionGrey
  <2> QED
    BY <2>2, LmmseGreenGrey
<1>3. LmmseOf(s) = Interleaved(s, Rounded, Colour(0), green, Colour(2))
  BY DEF LmmseOf, LmmseColours
<1> HIDE DEF green
<1>4. ASSUME NEW c PROVE Flat(s, Colour(c), Sub * v)
  BY <1>2, DifferenceGrey, ByDifferenceGrey, CutToGrey
<1> HIDE DEF Colour
<1>5. Flat(s, Colour(0), Sub * v) /\ Flat(s, Colour(2), Sub * v)
  BY <1>4
<1> QED
  BY <1>1, <1>2, <1>3, <1>5, InterleavedFlat

-----------------------------------------------------------------------------
(* RCD.  In the dark the ratios of the sites are 0 and do not matter.       *)

(* The ratio of a sample v to a green of v.                                 *)
Share(v) == IF v = 0 THEN 0 ELSE Sub

LEMMA ShareIs ==
  ASSUME NEW v \in Nat
  PROVE  (Sub * Sub * v) \div Most(Sub, Sub * v) = Share(v) /\ Share(v) \in Nat
<1>1. Sub \in Nat \ {0}
  BY QuarterIs
<1>2. CASE v = 0
  <2>1. Sub * Sub * v = 0 /\ Sub * v = 0
    BY <1>1, <1>2
  <2>2. Most(Sub, 0) = Sub /\ 0 \div Sub = 0
    BY <1>1 DEF Most
  <2> QED
    BY <1>2, <2>1, <2>2 DEF Share
<1>3. CASE v # 0
  <2> DEFINE c == Sub * v
  <2>1. c \in Nat \ {0} /\ Sub <= c
    <3>1. v >= 1 /\ Sub * 1 <= Sub * v
      BY <1>1, <1>3
    <3> QED
      BY <1>1, <3>1
  <2>2. Sub * Sub * v = (Sub * c) + 0
    BY <1>1
  <2> HIDE DEF c
  <2>3. 0 \in 0 .. c - 1
    BY <2>1
  <2>4. ((Sub * c) + 0) \div c = Sub
    BY <1>1, <2>1, <2>3, DivideUnique
  <2>5. Most(Sub, c) = c
    BY <1>1, <2>1 DEF Most
  <2> QED
    BY <1>1, <1>3, <2>2, <2>4, <2>5 DEF Share, c
<1> QED
  BY <1>2, <1>3

(* Green times the ratio is the sample again, for any ratio in the dark.    *)
LEMMA ShareBack ==
  ASSUME NEW v \in Nat, NEW m \in {Sub, Share(v)}
  PROVE  ((Sub * v) * m) \div Sub = Sub * v
<1>1. Sub \in Nat \ {0} /\ m \in Nat
  BY QuarterIs, ShareIs
<1>2. CASE v = 0
  <2>1. (Sub * v) * m = 0 /\ Sub * v = 0
    BY <1>1, <1>2
  <2>2. 0 \div Sub = 0
    BY <1>1
  <2> QED
    BY <2>1, <2>2
<1>3. CASE v # 0
  <2>1. m = Sub
    BY <1>3 DEF Share
  <2> DEFINE c == Sub * v
  <2>2. c \in Nat /\ 0 \in 0 .. Sub - 1
    BY <1>1
  <2> HIDE DEF c
  <2>3. ((c * Sub) + 0) \div Sub = c
    BY <1>1, <2>2, DivideUnique
  <2>4. (c * Sub) + 0 = c * Sub
    BY <1>1, <2>2
  <2> QED
    BY <2>1, <2>3, <2>4 DEF c
<1> QED
  BY <1>2, <1>3

LEMMA RatioGrey ==
  ASSUME NEW s, NEW v, Grey(s, v), NEW green, Flat(s, green, Sub * v), NEW color,
         NEW x \in 0 .. s.w - 1, NEW y \in 0 .. s.h - 1, fc(s, x, y) = color
  PROVE  Ratio(s, green, color)[Index(s, x, y)] = Share(v)
<1> DEFINE n == s.w * s.h
           At(a, b) == IF fc(s, a, b) # color THEN Sub
                       ELSE (Sub * Sub * get(s, a, b)) \div Most(Sub, green[Index(s, a, b)])
           f == [i \in 1 .. n |-> At((i - 1) % s.w, (i - 1) \div s.w)]
           j == Index(s, x, y)
<1>1. v \in Nat /\ Sub * v \in Nat /\ Sized(s) /\ s.w \in Nat \ {0} /\ s.h \in Nat /\ n \in Nat
  BY LevelType, SizeType DEF Sized
<1>2. j \in 1 .. n /\ ((j - 1) % s.w) = x /\ (j - 1) \div s.w = y
  <2>1. j \in 1 .. n
    BY <1>1, IndexInside DEF Index
  <2>2. j - 1 = (y * s.w) + x
    BY <1>1 DEF Index
  <2>3. ((y * s.w) + x) \div s.w = y /\ (((y * s.w) + x) % s.w) = x
    <3>1. y \in Nat
      BY <1>1
    <3> QED
      BY <1>1, <3>1, DivideUnique
  <2> QED
    BY <2>1, <2>2, <2>3
<1>3. At(x, y) = Share(v)
  <2>1. get(s, x, y) = v /\ green[Index(s, x, y)] = Sub * v
    BY <1>1, GetGrey, FlatAt
  <2>2. (Sub * Sub * v) \div Most(Sub, Sub * v) = Share(v)
    BY <1>1, ShareIs
  <2> QED
    BY <2>1, <2>2
<1>4. f[j] = Share(v)
  <2> HIDE DEF At, j, n
  <2> QED
    BY <1>2, <1>3
<1>5. Ratio(s, green, color) = SubSeq(f, 1, n)
  BY DEF Ratio, Plane
<1>6. SubSeq(f, 1, n)[j] = f[j]
  <2> HIDE DEF At, j, n
  <2> QED
    BY <1>1, <1>2
<1> QED
  BY <1>4, <1>5, <1>6

LEMMA ByRatioGrey ==
  ASSUME NEW s, NEW v, Grey(s, v), NEW green, Flat(s, green, Sub * v), NEW color
  PROVE  Flat(s, ByRatio(s, green, Ratio(s, green, color), color), Sub * v)
<1> DEFINE ratios == Ratio(s, green, color)
           At(x, y) == IF fc(s, x, y) = color THEN Sub * get(s, x, y)
                       ELSE Clamped((green[Index(s, x, y)] * MeanAround(s, ratios, x, y, color, Sub)) \div Sub,
                                    0, Sub * s.white)
           f == [i \in 1 .. s.w * s.h |-> At((i - 1) % s.w, (i - 1) \div s.w)]
<1>1. v \in Nat /\ Sub * v \in Nat /\ Sized(s) /\ s.w \in Nat /\ s.h \in Nat
  BY LevelType, SizeType
<1>2. ASSUME NEW x \in 0 .. s.w - 1, NEW y \in 0 .. s.h - 1 PROVE At(x, y) = Sub * v
  <2>1. green[Index(s, x, y)] = Sub * v
    BY <1>1, FlatAt
  <2>2. get(s, x, y) = v
    BY <1>1, GetGrey
  <2>3. \A p \in Around(s, x, y, 1, color) : ratios[Index(s, p[1], p[2])] = Share(v)
    <3>1. \A p \in Around(s, x, y, 1, color) :
             p[1] \in 0 .. s.w - 1 /\ p[2] \in 0 .. s.h - 1 /\ fc(s, p[1], p[2]) = color
      BY <1>1, AroundInside
    <3> QED
      BY <3>1, RatioGrey
  <2> DEFINE m == MeanAround(s, ratios, x, y, color, Sub)
  <2>4. m \in {Sub, Share(v)}
    <3> HIDE DEF ratios
    <3> QED
      BY <1>1, <2>3, ShareIs, MeanAroundIs
  <2>5. ((Sub * v) * m) \div Sub = Sub * v
    <3> HIDE DEF m
    <3> QED
      BY <1>1, <2>4, ShareBack
  <2>6. Clamped(Sub * v, 0, Sub * s.white) = Sub * v
    BY CutKeeps DEF Grey, Sized
  <2> QED
    BY <2>1, <2>2, <2>5, <2>6
<1>3. \A i \in 1 .. s.w * s.h : f[i] = Sub * v
  <2> SUFFICES ASSUME NEW i \in 1 .. s.w * s.h
               PROVE  At((i - 1) % s.w, (i - 1) \div s.w) = Sub * v
    OBVIOUS
  <2>1. ((i - 1) % s.w) \in 0 .. s.w - 1 /\ ((i - 1) \div s.w) \in 0 .. s.h - 1
    BY <1>1, EntryPosition
  <2> HIDE DEF At
  <2> QED
    BY <1>2, <2>1
<1>4. ByRatio(s, green, ratios, color) = SubSeq(f, 1, s.w * s.h)
  BY DEF ByRatio, Plane
<1> HIDE DEF f
<1> QED
  BY <1>1, <1>3, <1>4, FlatSubSeq

(* RCD, of a neutral view.                                                  *)
LEMMA RcdGrey ==
  ASSUME NEW s, NEW v, Grey(s, v)
  PROVE  Uniform(RcdOf(s), 3 * s.w * s.h, v)
<1> DEFINE green == AdaptiveGreen(s)
           Colour(c) == ByRatio(s, green, Ratio(s, green, c), c)
<1>1. Sized(s) /\ v \in 0 .. s.white
  BY DEF Grey
<1>2. Flat(s, green, Sub * v)
  BY AdaptiveGreenGrey
<1>3. RcdOf(s) = Interleaved(s, Rounded, Colour(0), green, Colour(2))
  BY DEF RcdOf, RcdColours
<1> HIDE DEF green
<1>4. ASSUME NEW c PROVE Flat(s, Colour(c), Sub * v)
  BY <1>2, ByRatioGrey
<1> HIDE DEF Colour
<1>5. Flat(s, Colour(0), Sub * v) /\ Flat(s, Colour(2), Sub * v)
  BY <1>4
<1> QED
  BY <1>1, <1>2, <1>3, <1>5, InterleavedFlat

-----------------------------------------------------------------------------
(* The X-Trans algorithms.                                                  *)

LEMMA WeightPositive ==
  ASSUME NEW x \in Int, NEW y \in Int, NEW p, p[1] \in x - 3 .. x + 3, p[2] \in y - 3 .. y + 3
  PROVE  Weight(x, y, p) \in Nat \ {0}
<1> DEFINE dx == p[1] - x
           dy == p[2] - y
           k == (10 * ((dx * dx) + (dy * dy))) + 1
<1>1. dx \in {-3, -2, -1, 0, 1, 2, 3} /\ dy \in {-3, -2, -1, 0, 1, 2, 3}
  OBVIOUS
<1> HIDE DEF dx, dy
<1>2. (dx * dx) \in 0 .. 9 /\ (dy * dy) \in 0 .. 9
  BY <1>1
<1>3. k \in 1 .. 181
  <2> DEFINE a == dx * dx
             b == dy * dy
  <2>1. a \in 0 .. 9 /\ b \in 0 .. 9
    BY <1>2
  <2> HIDE DEF a, b
  <2>2. (10 * (a + b)) + 1 \in 1 .. 181
    BY <2>1
  <2> QED
    BY <2>2 DEF a, b
<1>4. 100000 \div k \in Nat \ {0}
  <2> HIDE DEF k
  <2> DEFINE q == 100000 \div k
             r == 100000 % k
  <2>1. q \in Nat /\ r \in 0 .. k - 1 /\ 100000 = (q * k) + r
    BY <1>3, Divide
  <2> HIDE DEF q, r
  <2>2. q # 0
    <3> SUFFICES ASSUME q = 0 PROVE FALSE
      OBVIOUS
    <3>1. q * k = 0
      BY <1>3
    <3> QED
      BY <2>1, <3>1, <1>3
  <2> QED
    BY <2>1, <2>2 DEF q
<1> QED
  BY <1>4 DEF Weight, dx, dy

(* The weighted mean of a plane that is c at every site is c.               *)
LEMMA WeightedMeanIs ==
  ASSUME NEW s, Sized(s), NEW x \in 0 .. s.w - 1, NEW y \in 0 .. s.h - 1, NEW radius \in 1 .. 3,
         NEW color, NEW plane, NEW c \in Int,
         \A p \in Around(s, x, y, radius, color) : plane[Index(s, p[1], p[2])] = c,
         Around(s, x, y, radius, color) # {}
  PROVE  WeightedMean(s, plane, x, y, Around(s, x, y, radius, color)) = c
<1> DEFINE sites == Around(s, x, y, radius, color)
           f == [p \in sites |-> plane[Index(s, p[1], p[2])] * Weight(x, y, p)]
           g == [p \in sites |-> Weight(x, y, p)]
           k == SumFunction(g)
<1>1. s.w \in Nat /\ s.h \in Nat
  BY SizeType
<1>2. x \in Int /\ y \in Int /\ radius \in Nat
  BY <1>1
<1>3. /\ IsFiniteSet(sites) /\ sites # {}
      /\ \A p \in sites : /\ p[1] \in 0 .. s.w - 1 /\ p[2] \in 0 .. s.h - 1
                          /\ p[1] \in x - radius .. x + radius
                          /\ p[2] \in y - radius .. y + radius
  BY <1>2, AroundInside
<1>4. ASSUME NEW p \in sites
      PROVE  plane[Index(s, p[1], p[2])] = c /\ Weight(x, y, p) \in Nat \ {0}
  <2> HIDE DEF sites
  <2>1. p[1] \in 0 .. s.w - 1 /\ p[2] \in 0 .. s.h - 1
    BY <1>3
  <2>2. p[1] \in x - radius .. x + radius /\ p[2] \in y - radius .. y + radius
    BY <1>3
  <2>3. p[1] \in x - 3 .. x + 3 /\ p[2] \in y - 3 .. y + 3
    <3> DEFINE p1 == p[1]
               p2 == p[2]
    <3>1. p1 \in x - radius .. x + radius /\ p2 \in y - radius .. y + radius
      BY <2>2
    <3> HIDE DEF p1, p2
    <3>2. p1 \in x - 3 .. x + 3 /\ p2 \in y - 3 .. y + 3
      BY <1>2, <3>1
    <3> QED
      BY <3>2 DEF p1, p2
  <2> QED
    BY <1>2, <2>3, WeightPositive DEF sites
<1>5. g \in [sites -> Nat \ {0}] /\ g \in [sites -> Int]
  <2> HIDE DEF sites
  <2> QED
    BY <1>4
<1>6. DOMAIN f = sites /\ \A p \in sites : f[p] = c * g[p]
  <2> SUFFICES ASSUME NEW p \in sites
               PROVE  plane[Index(s, p[1], p[2])] * Weight(x, y, p) = c * Weight(x, y, p)
    OBVIOUS
  <2> HIDE DEF sites
  <2> QED
    BY <1>4
<1>7. WeightedMean(s, plane, x, y, sites) = SumFunction(f) \div k
  BY DEF WeightedMean
<1> HIDE DEF sites, f, g
<1>8. SumFunction(f) = c * k /\ k \in Nat \ {0}
  BY <1>3, <1>5, <1>6, SumScales, SumPositive
<1> HIDE DEF k
<1>9. (c * k) \div k = c
  BY <1>8, DivideExact
<1> QED
  BY <1>7, <1>8, <1>9 DEF sites

LEMMA WeightedMeanFlat ==
  ASSUME NEW s, Sized(s), NEW x \in 0 .. s.w - 1, NEW y \in 0 .. s.h - 1, NEW radius \in 1 .. 3,
         NEW color, NEW plane, NEW c \in Int, Flat(s, plane, c),
         Around(s, x, y, radius, color) # {}
  PROVE  WeightedMean(s, plane, x, y, Around(s, x, y, radius, color)) = c
<1>1. \A p \in Around(s, x, y, radius, color) : p[1] \in 0 .. s.w - 1 /\ p[2] \in 0 .. s.h - 1
  <2>1. radius \in Nat
    OBVIOUS
  <2> QED
    BY <2>1, AroundInside
<1>2. \A p \in Around(s, x, y, radius, color) : plane[Index(s, p[1], p[2])] = c
  BY <1>1, FlatAt
<1> QED
  BY <1>2, WeightedMeanIs

LEMMA SamplesGrey ==
  ASSUME NEW s, NEW v, Grey(s, v)
  PROVE  Flat(s, Samples(s), Sub * v)
<1> DEFINE At(x, y) == Sub * get(s, x, y)
           f == [i \in 1 .. s.w * s.h |-> At((i - 1) % s.w, (i - 1) \div s.w)]
<1>1. v \in Nat /\ Sub * v \in Nat /\ Sized(s) /\ s.w \in Nat /\ s.h \in Nat
  BY LevelType, SizeType
<1>2. ASSUME NEW x \in 0 .. s.w - 1, NEW y \in 0 .. s.h - 1 PROVE At(x, y) = Sub * v
  <2>1. get(s, x, y) = v
    BY <1>1, GetGrey
  <2> QED
    BY <2>1
<1>3. \A i \in 1 .. s.w * s.h : f[i] = Sub * v
  <2> SUFFICES ASSUME NEW i \in 1 .. s.w * s.h
               PROVE  At((i - 1) % s.w, (i - 1) \div s.w) = Sub * v
    OBVIOUS
  <2>1. ((i - 1) % s.w) \in 0 .. s.w - 1 /\ ((i - 1) \div s.w) \in 0 .. s.h - 1
    BY <1>1, EntryPosition
  <2> HIDE DEF At
  <2> QED
    BY <1>2, <2>1
<1>4. Samples(s) = SubSeq(f, 1, s.w * s.h)
  BY DEF Samples, Plane
<1> HIDE DEF f
<1> QED
  BY <1>1, <1>3, <1>4, FlatSubSeq

LEMMA XTransGreenGrey ==
  ASSUME NEW s, NEW v, Grey(s, v), NEW samples, Flat(s, samples, Sub * v)
  PROVE  Flat(s, XTransGreen(s, samples), Sub * v)
<1> DEFINE Green(x, y, sites) ==
             IF fc(s, x, y) = 1 \/ sites = {} THEN samples[Index(s, x, y)]
             ELSE WeightedMean(s, samples, x, y, sites)
           At(x, y) == Green(x, y, Around(s, x, y, 2, 1))
           f == [i \in 1 .. s.w * s.h |-> At((i - 1) % s.w, (i - 1) \div s.w)]
<1>1. v \in Nat /\ Sub * v \in Nat /\ Sized(s) /\ s.w \in Nat /\ s.h \in Nat
  BY LevelType, SizeType
<1>2. ASSUME NEW x \in 0 .. s.w - 1, NEW y \in 0 .. s.h - 1 PROVE At(x, y) = Sub * v
  <2> DEFINE sites == Around(s, x, y, 2, 1)
  <2>1. samples[Index(s, x, y)] = Sub * v
    BY <1>1, FlatAt
  <2>2. sites # {} => WeightedMean(s, samples, x, y, sites) = Sub * v
    <3>1. 2 \in 1 .. 3
      OBVIOUS
    <3> QED
      BY <1>1, <3>1, WeightedMeanFlat
  <2>3. At(x, y) = Green(x, y, sites)
    OBVIOUS
  <2> HIDE DEF At, sites
  <2> QED
    BY <2>1, <2>2, <2>3
<1>3. \A i \in 1 .. s.w * s.h : f[i] = Sub * v
  <2> SUFFICES ASSUME NEW i \in 1 .. s.w * s.h
               PROVE  At((i - 1) % s.w, (i - 1) \div s.w) = Sub * v
    OBVIOUS
  <2>1. ((i - 1) % s.w) \in 0 .. s.w - 1 /\ ((i - 1) \div s.w) \in 0 .. s.h - 1
    BY <1>1, EntryPosition
  <2> HIDE DEF At
  <2> QED
    BY <1>2, <2>1
<1>4. XTransGreen(s, samples) = SubSeq(f, 1, s.w * s.h)
  BY DEF XTransGreen, Plane
<1> HIDE DEF f
<1> QED
  BY <1>1, <1>3, <1>4, FlatSubSeq

LEMMA DifferencesGrey ==
  ASSUME NEW s, NEW v, Grey(s, v), NEW green, Flat(s, green, Sub * v), NEW color
  PROVE  Flat(s, Differences(s, green, color), 0)
<1> DEFINE differences == Difference(s, green, color)
           Diff(x, y, sites) ==
             IF fc(s, x, y) = color THEN differences[Index(s, x, y)]
             ELSE IF sites = {} THEN 0
             ELSE WeightedMean(s, differences, x, y, sites)
           At(x, y) == Diff(x, y, Around(s, x, y, 3, color))
           f == [i \in 1 .. s.w * s.h |-> At((i - 1) % s.w, (i - 1) \div s.w)]
<1>1. v \in Nat /\ Sub * v \in Nat /\ Sized(s) /\ s.w \in Nat /\ s.h \in Nat
  BY LevelType, SizeType
<1>2. ASSUME NEW x \in 0 .. s.w - 1, NEW y \in 0 .. s.h - 1 PROVE At(x, y) = 0
  <2> DEFINE sites == Around(s, x, y, 3, color)
  <2>1. Flat(s, differences, 0)
    BY DifferenceGrey
  <2> HIDE DEF differences
  <2>2. differences[Index(s, x, y)] = 0
    BY <1>1, <2>1, FlatAt
  <2>3. sites # {} => WeightedMean(s, differences, x, y, sites) = 0
    <3>1. 3 \in 1 .. 3 /\ 0 \in Nat
      OBVIOUS
    <3> QED
      BY <1>1, <2>1, <3>1, WeightedMeanFlat
  <2>4. At(x, y) = Diff(x, y, sites)
    OBVIOUS
  <2> HIDE DEF At, sites
  <2> QED
    BY <2>2, <2>3, <2>4
<1>3. \A i \in 1 .. s.w * s.h : f[i] = 0
  <2> SUFFICES ASSUME NEW i \in 1 .. s.w * s.h
               PROVE  At((i - 1) % s.w, (i - 1) \div s.w) = 0
    OBVIOUS
  <2>1. ((i - 1) % s.w) \in 0 .. s.w - 1 /\ ((i - 1) \div s.w) \in 0 .. s.h - 1
    BY <1>1, EntryPosition
  <2> HIDE DEF At
  <2> QED
    BY <1>2, <2>1
<1>4. Differences(s, green, color) = SubSeq(f, 1, s.w * s.h)
  BY DEF Differences, Spread, Plane
<1> HIDE DEF f
<1> QED
  BY <1>1, <1>3, <1>4, FlatSubSeq

LEMMA AddedGrey ==
  ASSUME NEW s, NEW v, Grey(s, v), NEW a, Flat(s, a, Sub * v), NEW b, Flat(s, b, 0)
  PROVE  Flat(s, Added(s, a, b), Sub * v)
<1> DEFINE At(x, y) == a[Index(s, x, y)] + b[Index(s, x, y)]
           f == [i \in 1 .. s.w * s.h |-> At((i - 1) % s.w, (i - 1) \div s.w)]
<1>1. v \in Nat /\ Sub * v \in Nat /\ Sized(s) /\ s.w \in Nat /\ s.h \in Nat
  BY LevelType, SizeType
<1>2. ASSUME NEW x \in 0 .. s.w - 1, NEW y \in 0 .. s.h - 1 PROVE At(x, y) = Sub * v
  <2>1. a[Index(s, x, y)] = Sub * v /\ b[Index(s, x, y)] = 0
    BY <1>1, FlatAt
  <2>2. (Sub * v) + 0 = Sub * v
    BY <1>1
  <2> QED
    BY <2>1, <2>2
<1>3. \A i \in 1 .. s.w * s.h : f[i] = Sub * v
  <2> SUFFICES ASSUME NEW i \in 1 .. s.w * s.h
               PROVE  At((i - 1) % s.w, (i - 1) \div s.w) = Sub * v
    OBVIOUS
  <2>1. ((i - 1) % s.w) \in 0 .. s.w - 1 /\ ((i - 1) \div s.w) \in 0 .. s.h - 1
    BY <1>1, EntryPosition
  <2> HIDE DEF At
  <2> QED
    BY <1>2, <2>1
<1>4. Added(s, a, b) = SubSeq(f, 1, s.w * s.h)
  BY DEF Added, Plane
<1> HIDE DEF f
<1> QED
  BY <1>1, <1>3, <1>4, FlatSubSeq

LEMMA MarkesteijnColoursGrey ==
  ASSUME NEW s, NEW v, Grey(s, v), NEW green, Flat(s, green, Sub * v)
  PROVE  Uniform(MarkesteijnColours(s, green), 3 * s.w * s.h, v)
<1> DEFINE Colour(c) == Added(s, green, Differences(s, green, c))
<1>1. Sized(s) /\ v \in 0 .. s.white
  BY DEF Grey
<1>2. MarkesteijnColours(s, green) = Interleaved(s, Truncated, Colour(0), green, Colour(2))
  BY DEF MarkesteijnColours
<1>3. ASSUME NEW c PROVE Flat(s, Colour(c), Sub * v)
  BY DifferencesGrey, AddedGrey
<1> HIDE DEF Colour
<1>4. Flat(s, Colour(0), Sub * v) /\ Flat(s, Colour(2), Sub * v)
  BY <1>3
<1> QED
  BY <1>1, <1>2, <1>4, InterleavedFlat

(* The mosaic has the three colours.                                        *)
Coloured(s) == \A i \in 1 .. s.w * s.h : s.fc[i] \in {0, 1, 2}

LEMMA RefinedGrey ==
  ASSUME NEW s, NEW v, Grey(s, v), Coloured(s), NEW green, Flat(s, green, Sub * v),
         NEW red_diff, Flat(s, red_diff, 0), NEW blue_diff, Flat(s, blue_diff, 0)
  PROVE  Flat(s, Refined(s, green, red_diff, blue_diff), Sub * v)
<1> DEFINE Half(i, u) == (green[i] + u) \div 2
           At(x, y) ==
             CASE fc(s, x, y) = 0 -> Half(Index(s, x, y), (Sub * get(s, x, y)) - red_diff[Index(s, x, y)])
               [] fc(s, x, y) = 2 -> Half(Index(s, x, y), (Sub * get(s, x, y)) - blue_diff[Index(s, x, y)])
               [] fc(s, x, y) = 1 -> green[Index(s, x, y)]
           f == [i \in 1 .. s.w * s.h |-> At((i - 1) % s.w, (i - 1) \div s.w)]
<1>1. v \in Nat /\ Sub * v \in Nat /\ Sized(s) /\ s.w \in Nat /\ s.h \in Nat
  BY LevelType, SizeType
<1>2. ASSUME NEW x \in 0 .. s.w - 1, NEW y \in 0 .. s.h - 1 PROVE At(x, y) = Sub * v
  <2> DEFINE j == Index(s, x, y)
             c == Sub * v
  <2>1. green[j] = c /\ red_diff[j] = 0 /\ blue_diff[j] = 0
    BY <1>1, FlatAt
  <2>2. Sub * get(s, x, y) = c
    BY <1>1, GetGrey
  <2>3. fc(s, x, y) \in {0, 1, 2}
    <3>1. j \in 1 .. s.w * s.h
      BY <1>1, IndexInside DEF Index
    <3> QED
      BY <3>1 DEF fc, Coloured
  <2>4. (c + (c - 0)) \div 2 = c
    <3>1. c \in Nat
      BY <1>1
    <3> HIDE DEF c
    <3> QED
      BY <3>1
  <2>5. Half(j, Sub * get(s, x, y) - red_diff[j]) = c /\ Half(j, Sub * get(s, x, y) - blue_diff[j]) = c
    <3> HIDE DEF c, j
    <3> QED
      BY <2>1, <2>2, <2>4
  <2> HIDE DEF Half
  <2> QED
    BY <2>1, <2>3, <2>5
<1>3. \A i \in 1 .. s.w * s.h : f[i] = Sub * v
  <2> SUFFICES ASSUME NEW i \in 1 .. s.w * s.h
               PROVE  At((i - 1) % s.w, (i - 1) \div s.w) = Sub * v
    OBVIOUS
  <2>1. ((i - 1) % s.w) \in 0 .. s.w - 1 /\ ((i - 1) \div s.w) \in 0 .. s.h - 1
    BY <1>1, EntryPosition
  <2> HIDE DEF At
  <2> QED
    BY <1>2, <2>1
<1>4. Refined(s, green, red_diff, blue_diff) = SubSeq(f, 1, s.w * s.h)
  BY DEF Refined, Plane
<1> HIDE DEF f
<1> QED
  BY <1>1, <1>3, <1>4, FlatSubSeq

(* The two Markesteijn algorithms, of a neutral view.                       *)
LEMMA MarkesteijnGrey ==
  ASSUME NEW s, NEW v, Grey(s, v)
  PROVE  Uniform(MarkesteijnOf(s), 3 * s.w * s.h, v)
BY SamplesGrey, XTransGreenGrey, MarkesteijnColoursGrey DEF MarkesteijnOf

LEMMA Markesteijn3PassGrey ==
  ASSUME NEW s, NEW v, Grey(s, v), Coloured(s)
  PROVE  Uniform(Markesteijn3PassOf(s), 3 * s.w * s.h, v)
<1> DEFINE green == XTransGreen(s, Samples(s))
           red == Differences(s, green, 0)
           blue == Differences(s, green, 2)
<1>1. Flat(s, green, Sub * v)
  BY SamplesGrey, XTransGreenGrey
<1>2. Flat(s, red, 0) /\ Flat(s, blue, 0)
  <2> HIDE DEF green
  <2> QED
    BY <1>1, DifferencesGrey
<1>3. Markesteijn3PassOf(s) = MarkesteijnColours(s, Refined(s, green, red, blue))
  BY DEF Markesteijn3PassOf, ThirdPass
<1> HIDE DEF green, red, blue
<1> QED
  BY <1>1, <1>2, <1>3, RefinedGrey, MarkesteijnColoursGrey

LEMMA FastPlaneGrey ==
  ASSUME NEW s, NEW v, Grey(s, v), NEW color
  PROVE  Flat(s, FastPlane(s, color), Sub * v)
<1> DEFINE Mean(sites) == (Sub * SumFunction([p \in sites |-> get(s, p[1], p[2])])) \div Cardinality(sites)
           Near(x, y, r) == Around(s, x, y, r, color)
           At(x, y) == CASE fc(s, x, y) = color -> Sub * get(s, x, y)
                         [] fc(s, x, y) # color /\ Near(x, y, 1) # {} -> Mean(Near(x, y, 1))
                         [] fc(s, x, y) # color /\ Near(x, y, 1) = {} /\ Near(x, y, 2) # {} ->
                                Mean(Near(x, y, 2))
                         [] fc(s, x, y) # color /\ Near(x, y, 2) = {} /\ Near(x, y, 3) # {} ->
                                Mean(Near(x, y, 3))
                         [] OTHER -> Sub * get(s, x, y)
           f == [i \in 1 .. s.w * s.h |-> At((i - 1) % s.w, (i - 1) \div s.w)]
<1>1. v \in Nat /\ Sub * v \in Nat /\ Sized(s) /\ s.w \in Nat /\ s.h \in Nat
  BY LevelType, SizeType
<1>2. ASSUME NEW x \in 0 .. s.w - 1, NEW y \in 0 .. s.h - 1 PROVE At(x, y) = Sub * v
  <2>1. Sub * get(s, x, y) = Sub * v
    BY <1>1, GetGrey
  <2>2. ASSUME NEW r \in 1 .. 3, Near(x, y, r) # {} PROVE Mean(Near(x, y, r)) = Sub * v
    <3> DEFINE sites == Near(x, y, r)
               gets == [p \in sites |-> get(s, p[1], p[2])]
               k == Cardinality(sites)
    <3>1. r \in Nat
      OBVIOUS
    <3>2. IsFiniteSet(sites) /\ \A p \in sites : p[1] \in Int /\ p[2] \in Int
      BY <1>1, <3>1, AroundInside
    <3>3. DOMAIN gets = sites /\ \A p \in sites : gets[p] = v
      <4> HIDE DEF sites
      <4> QED
        BY <3>2, GetGrey
    <3>4. SumFunction(gets) = v * k /\ k \in Nat \ {0}
      <4> HIDE DEF sites, gets
      <4> QED
        BY <1>1, <2>2, <3>2, <3>3, MeanOfEquals DEF sites
    <3>5. Mean(sites) = (Sub * SumFunction(gets)) \div k
      OBVIOUS
    <3>6. (Sub * (v * k)) \div k = Sub * v
      <4> DEFINE c == Sub * v
      <4> HIDE DEF k
      <4>1. Sub * (v * k) = (c * k) + 0
        BY <1>1, <3>4, QuarterIs
      <4>2. c \in Nat /\ 0 \in 0 .. k - 1
        BY <1>1, <3>4
      <4> HIDE DEF c
      <4>3. ((c * k) + 0) \div k = c
        BY <3>4, <4>2, DivideUnique
      <4> QED
        BY <4>1, <4>3 DEF c
    <3> HIDE DEF sites, gets, k, Mean
    <3> QED
      BY <3>4, <3>5, <3>6 DEF sites
  <2>3. /\ Near(x, y, 1) # {} => Mean(Near(x, y, 1)) = Sub * v
        /\ Near(x, y, 2) # {} => Mean(Near(x, y, 2)) = Sub * v
        /\ Near(x, y, 3) # {} => Mean(Near(x, y, 3)) = Sub * v
    <3> HIDE DEF Mean, Near
    <3> QED
      BY <2>2
  <2> HIDE DEF Mean, Near
  <2> QED
    BY <2>1, <2>3
<1>3. \A i \in 1 .. s.w * s.h : f[i] = Sub * v
  <2> SUFFICES ASSUME NEW i \in 1 .. s.w * s.h
               PROVE  At((i - 1) % s.w, (i - 1) \div s.w) = Sub * v
    OBVIOUS
  <2>1. ((i - 1) % s.w) \in 0 .. s.w - 1 /\ ((i - 1) \div s.w) \in 0 .. s.h - 1
    BY <1>1, EntryPosition
  <2> HIDE DEF At
  <2> QED
    BY <1>2, <2>1
<1>4. FastPlane(s, color) = SubSeq(f, 1, s.w * s.h)
  BY DEF FastPlane, Plane
<1> HIDE DEF f
<1> QED
  BY <1>1, <1>3, <1>4, FlatSubSeq

(* The fast algorithm, of a neutral view.                                   *)
LEMMA XTransFastGrey ==
  ASSUME NEW s, NEW v, Grey(s, v)
  PROVE  Uniform(XTransFastOf(s), 3 * s.w * s.h, v)
<1>1. Sized(s) /\ v \in 0 .. s.white
  BY DEF Grey
<1> QED
  BY <1>1, FastPlaneGrey, InterleavedFlat DEF XTransFastOf

-----------------------------------------------------------------------------
(* The sensor: every sample of a neutral scene is v.                        *)

Framed(raw) ==
  /\ raw.size.w \in Nat /\ raw.size.h \in Nat
  /\ raw.active_area.x \in Nat /\ raw.active_area.y \in Nat
  /\ raw.active_area.w \in Nat /\ raw.active_area.w >= 6
  /\ raw.active_area.h \in Nat /\ raw.active_area.h >= 6
  /\ raw.active_area.x + raw.active_area.w <= raw.size.w
  /\ raw.active_area.y + raw.active_area.h <= raw.size.h
  /\ raw.white_level \in Nat
  /\ DOMAIN raw.data = 1 .. raw.size.w * raw.size.h
GreyRaw(raw, v) ==
  /\ Framed(raw) /\ v \in 0 .. raw.white_level
  /\ \A i \in 1 .. raw.size.w * raw.size.h : raw.data[i] = v

(* The area lies in the buffer.                                             *)
LEMMA PlaceInside ==
  ASSUME NEW raw, Framed(raw),
         NEW x \in 0 .. raw.active_area.w - 1, NEW y \in 0 .. raw.active_area.h - 1
  PROVE  Place(raw, x, y) \in 1 .. raw.size.w * raw.size.h
<1> DEFINE W == raw.size.w
           H == raw.size.h
           ax == raw.active_area.x
           ay == raw.active_area.y
           aw == raw.active_area.w
           ah == raw.active_area.h
           X == x + ax
           Y == y + ay
<1>0. /\ W \in Nat /\ H \in Nat /\ ax \in Nat /\ ay \in Nat /\ aw \in Nat /\ ah \in Nat
      /\ ax + aw <= W /\ ay + ah <= H /\ x \in 0 .. aw - 1 /\ y \in 0 .. ah - 1
  BY DEF GreyRaw, Framed
<1>1. W \in Nat /\ H \in Nat /\ X \in 0 .. W - 1 /\ Y \in 0 .. H - 1
  <2> HIDE DEF W, H, ax, ay, aw, ah
  <2> QED
    BY <1>0
<1>2. Place(raw, x, y) = (Y * W) + X + 1
  <2>1. x \in Nat /\ raw.active_area.x \in Nat /\ Y * W \in Nat
    <3>1. x \in Nat /\ ax \in Nat
      <4> HIDE DEF ax, aw, ah, W, H
      <4> QED
        BY <1>0
    <3>2. Y * W \in Nat
      <4> HIDE DEF Y, W
      <4> QED
        BY <1>1
    <3> QED
      BY <3>1, <3>2
  <2> DEFINE a == Y * W
  <2>2. Place(raw, x, y) = a + x + raw.active_area.x + 1
    BY DEF Place
  <2> HIDE DEF a
  <2> QED
    BY <2>1, <2>2 DEF a
<1> HIDE DEF W, H, X, Y
<1>3. (Y * W) + X + 1 \in 1 .. W * H
  BY <1>1, IndexInside
<1> QED
  BY <1>2, <1>3 DEF W, H

LEMMA InSensorHolds ==
  ASSUME NEW raw, Framed(raw)
  PROVE  InSensor(raw)
<1>1. raw.active_area.w - 1 \in 0 .. raw.active_area.w - 1
      /\ raw.active_area.h - 1 \in 0 .. raw.active_area.h - 1
  <2> DEFINE aw == raw.active_area.w
             ah == raw.active_area.h
  <2>1. aw \in Nat /\ aw >= 6 /\ ah \in Nat /\ ah >= 6
    BY DEF GreyRaw, Framed
  <2> HIDE DEF aw, ah
  <2>2. aw - 1 \in 0 .. aw - 1 /\ ah - 1 \in 0 .. ah - 1
    BY <2>1
  <2> QED
    BY <2>2 DEF aw, ah
<1>2. Place(raw, raw.active_area.w - 1, raw.active_area.h - 1) \in 1 .. raw.size.w * raw.size.h
  BY <1>1, PlaceInside
<1> QED
  BY <1>2 DEF InSensor, Framed

(* So both views of the sensor are neutral.                                 *)
LEMMA SamplesOfGrey ==
  ASSUME NEW raw, NEW v, GreyRaw(raw, v), NEW n, n = raw.active_area.w * raw.active_area.h,
         NEW f, f = [i \in 1 .. n |->
                       raw.data[Place(raw, (i - 1) % raw.active_area.w, (i - 1) \div raw.active_area.w)]]
  PROVE  n \in Nat /\ \A i \in 1 .. n : SubSeq(f, 1, n)[i] = v
<1>1. n \in Nat /\ raw.active_area.w \in Nat \ {0} /\ raw.active_area.h \in Nat
  <2> DEFINE aw == raw.active_area.w
             ah == raw.active_area.h
  <2>1. aw \in Nat /\ aw >= 6 /\ ah \in Nat
    BY DEF GreyRaw, Framed
  <2> HIDE DEF aw, ah
  <2>2. aw \in Nat \ {0} /\ ah \in Nat /\ aw * ah \in Nat
    BY <2>1
  <2> QED
    BY <2>2 DEF aw, ah
<1>2. ASSUME NEW i \in 1 .. n PROVE f[i] = v
  <2> DEFINE x == (i - 1) % raw.active_area.w
             y == (i - 1) \div raw.active_area.w
  <2>1. x \in 0 .. raw.active_area.w - 1 /\ y \in 0 .. raw.active_area.h - 1
    BY <1>1, PositionOf
  <2>2. Place(raw, x, y) \in 1 .. raw.size.w * raw.size.h
    <3> HIDE DEF x, y
    <3> QED
      BY <2>1, PlaceInside DEF GreyRaw
  <2>3. f[i] = raw.data[Place(raw, x, y)]
    OBVIOUS
  <2> HIDE DEF x, y
  <2> QED
    BY <2>2, <2>3 DEF GreyRaw, Framed
<1>3. \A i \in 1 .. n : f[i] = v
  BY <1>2
<1>4. \A i \in 1 .. n : SubSeq(f, 1, n)[i] = v
  <2>1. \A g : (\A i \in 1 .. n : g[i] = v) => \A i \in 1 .. n : SubSeq(g, 1, n)[i] = v
    BY <1>1, WholeSubSeq
  <2> QED
    BY <1>3, <2>1
<1> QED
  BY <1>1, <1>4

LEMMA BayerViewGrey ==
  ASSUME NEW raw, NEW v, GreyRaw(raw, v)
  PROVE  /\ Grey(BayerView(raw), v)
         /\ BayerView(raw).w = raw.active_area.w /\ BayerView(raw).h = raw.active_area.h
<1> DEFINE s == BayerView(raw)
           n == raw.active_area.w * raw.active_area.h
           f == [i \in 1 .. n |->
                   raw.data[Place(raw, (i - 1) % raw.active_area.w, (i - 1) \div raw.active_area.w)]]
<1>1. /\ s.w = raw.active_area.w /\ s.h = raw.active_area.h /\ s.white = raw.white_level
      /\ s.at = SubSeq(f, 1, n)
  BY DEF BayerView, View
<1>2. \A i \in 1 .. n : SubSeq(f, 1, n)[i] = v
  BY SamplesOfGrey
<1> HIDE DEF s, f
<1>3. Sized(s) /\ v \in 0 .. s.white
  BY <1>1 DEF Sized, GreyRaw, Framed
<1>4. Flat(s, s.at, v)
  BY <1>1, <1>2 DEF Flat
<1> QED
  BY <1>1, <1>3, <1>4 DEF Grey, s

LEMMA XTransColours ==
  ASSUME NEW i \in 1 .. 6, NEW j \in 1 .. 6
  PROVE  XTransStandard[i][j] \in {0, 1, 2}
<1> DEFINE rows == {<<1, 2, 1, 1, 0, 1>>, <<0, 1, 0, 2, 1, 2>>, <<1, 0, 1, 2, 1, 2>>}
<1>1. XTransStandard[i] \in rows
  BY DEF XTransStandard
<1>2. ASSUME NEW row \in rows PROVE row[j] \in {0, 1, 2}
  <2>1. CASE row = <<1, 2, 1, 1, 0, 1>>
    BY <2>1
  <2>2. CASE row = <<0, 1, 0, 2, 1, 2>>
    BY <2>2
  <2>3. CASE row = <<1, 0, 1, 2, 1, 2>>
    BY <2>3
  <2> QED
    BY <2>1, <2>2, <2>3
<1> HIDE DEF rows
<1> QED
  BY <1>1, <1>2

LEMMA ColorAtType ==
  ASSUME NEW x \in Nat, NEW y \in Nat
  PROVE  color_at(XTransStandard, x, y) \in {0, 1, 2}
<1>1. (y % 6) + 1 \in 1 .. 6 /\ (x % 6) + 1 \in 1 .. 6
  OBVIOUS
<1> QED
  BY <1>1, XTransColours DEF color_at

LEMMA XTransViewGrey ==
  ASSUME NEW raw, NEW v, GreyRaw(raw, v), raw.xtrans_pattern \in {None, XTransStandard}
  PROVE  /\ Grey(XTransView(raw), v) /\ Coloured(XTransView(raw))
         /\ XTransView(raw).w = raw.active_area.w /\ XTransView(raw).h = raw.active_area.h
<1> DEFINE s == XTransView(raw)
           a == raw.active_area
           n == a.w * a.h
           f == [i \in 1 .. n |-> raw.data[Place(raw, (i - 1) % a.w, (i - 1) \div a.w)]]
           Colour(i) == color_at(CellsOf(raw), ((i - 1) % a.w) + a.x, ((i - 1) \div a.w) + a.y)
           g == [i \in 1 .. n |-> Colour(i)]
<1>1. /\ s.w = a.w /\ s.h = a.h /\ s.white = raw.white_level
      /\ s.at = SubSeq(f, 1, n) /\ s.fc = SubSeq(g, 1, n)
  BY DEF XTransView, View
<1>2. n \in Nat /\ \A i \in 1 .. n : SubSeq(f, 1, n)[i] = v
  <2>1. \A i \in 1 .. n : SubSeq(f, 1, n)[i] = v
    BY SamplesOfGrey
  <2> DEFINE aw == raw.active_area.w
             ah == raw.active_area.h
  <2>2. aw \in Nat /\ ah \in Nat
    BY DEF GreyRaw, Framed
  <2> HIDE DEF aw, ah
  <2>3. aw * ah \in Nat
    BY <2>2
  <2> QED
    BY <2>1, <2>3 DEF aw, ah
<1> HIDE DEF s, f
<1>3. Sized(s) /\ v \in 0 .. s.white
  BY <1>1 DEF Sized, GreyRaw, Framed
<1>4. Flat(s, s.at, v)
  BY <1>1, <1>2 DEF Flat
<1>5. ASSUME NEW i \in 1 .. n PROVE Colour(i) \in {0, 1, 2}
  <2>1. CellsOf(raw) = XTransStandard
    BY DEF CellsOf
  <2>2. a.w \in Nat \ {0} /\ a.h \in Nat /\ a.x \in Nat /\ a.y \in Nat
    BY DEF GreyRaw, Framed
  <2>3. ((i - 1) % a.w) \in Nat /\ ((i - 1) \div a.w) \in Nat
    BY <2>2, PositionOf
  <2>4. ((i - 1) % a.w) + a.x \in Nat /\ ((i - 1) \div a.w) + a.y \in Nat
    BY <2>2, <2>3
  <2> QED
    BY <2>1, <2>4, ColorAtType
<1>6. \A i \in 1 .. n : SubSeq(g, 1, n)[i] = g[i]
  <2> HIDE DEF Colour, n
  <2> QED
    BY <1>2
<1>7. Coloured(s)
  <2> HIDE DEF Colour
  <2> QED
    BY <1>1, <1>5, <1>6 DEF Coloured
<1> QED
  BY <1>1, <1>3, <1>4, <1>7 DEF Grey, s

-----------------------------------------------------------------------------
(* Bilinear: an area with at least one row and column around it.            *)

Surrounded(raw) ==
  /\ raw.active_area.x >= 1 /\ raw.active_area.y >= 1
  /\ raw.active_area.x + raw.active_area.w + 1 <= raw.size.w
  /\ raw.active_area.y + raw.active_area.h + 1 <= raw.size.h

LEMMA GetRawGrey ==
  ASSUME NEW raw, NEW v, GreyRaw(raw, v),
         NEW x \in 0 .. raw.size.w - 1, NEW y \in 0 .. raw.size.h - 1
  PROVE  GetRaw(raw, x, y) = v
<1>1. raw.size.w \in Nat /\ raw.size.h \in Nat /\ v \in Nat
  BY DEF GreyRaw, Framed
<1>2. (y * raw.size.w) + x + 1 \in 1 .. raw.size.w * raw.size.h
  BY <1>1, IndexInside
<1>3. x < raw.size.w /\ y < raw.size.h
  BY <1>1
<1>4. get_pixel(raw, x, y) = v
  BY <1>2, <1>3 DEF get_pixel, GreyRaw, Framed
<1> QED
  BY <1>1, <1>4, OutcomeAssumption DEF GetRaw, Or0

LEMMA BayerAtType ==
  ASSUME NEW pattern \in Patterns, NEW x \in Nat, NEW y \in Nat
  PROVE  /\ bayer_at(pattern, x, y) \in {0, 1, 2}
         /\ cfa_color(pattern, x, y) \in {0, 1, 2, 3}
<1>1. ASSUME NEW i \in 1 .. 4 PROVE to_array(pattern)[i] \in {0, 1, 2}
  <2>1. CASE pattern = "RGGB"
    <3>1. to_array(pattern) = <<0, 1, 1, 2>>
      BY <2>1 DEF to_array
    <3> QED
      BY <3>1
  <2>2. CASE pattern = "GRBG"
    <3>1. to_array(pattern) = <<1, 0, 2, 1>>
      BY <2>2 DEF to_array
    <3> QED
      BY <3>1
  <2>3. CASE pattern = "BGGR"
    <3>1. to_array(pattern) = <<2, 1, 1, 0>>
      BY <2>3 DEF to_array
    <3> QED
      BY <3>1
  <2>4. CASE pattern = "GBRG"
    <3>1. to_array(pattern) = <<1, 2, 0, 1>>
      BY <2>4 DEF to_array
    <3> QED
      BY <3>1
  <2> QED
    BY <2>1, <2>2, <2>3, <2>4 DEF Patterns
<1>2. ((y % 2) * 2) + (x % 2) + 1 \in 1 .. 4
  <2>1. (y % 2) \in {0, 1} /\ (x % 2) \in {0, 1}
    OBVIOUS
  <2> QED
    BY <2>1
<1>3. bayer_at(pattern, x, y) \in {0, 1, 2}
  BY <1>1, <1>2 DEF bayer_at
<1> QED
  BY <1>3 DEF cfa_color

LEMMA BilinearPixelGrey ==
  ASSUME NEW raw, NEW v, GreyRaw(raw, v), raw.cfa_pattern \in Patterns,
         NEW x \in 1 .. raw.size.w - 2, NEW y \in 1 .. raw.size.h - 2
  PROVE  demosaic_pixel_bilinear(raw, x, y) = <<v, v, v>>
<1> DEFINE l == Most(0, x - 1)
           u == Most(0, y - 1)
           own == GetRaw(raw, x, y)
           across == avg2(GetRaw(raw, l, y), GetRaw(raw, x + 1, y))
           along  == avg2(GetRaw(raw, x, u), GetRaw(raw, x, y + 1))
           cross  == avg4(GetRaw(raw, x, u), GetRaw(raw, x, y + 1),
                          GetRaw(raw, l, y), GetRaw(raw, x + 1, y))
           corners == avg4(GetRaw(raw, l, u), GetRaw(raw, x + 1, u),
                           GetRaw(raw, l, y + 1), GetRaw(raw, x + 1, y + 1))
           c == cfa_color(raw.cfa_pattern, x, y)
<1>1. raw.size.w \in Nat /\ raw.size.h \in Nat /\ v \in Nat
  BY DEF GreyRaw, Framed
<1>2. /\ x \in 0 .. raw.size.w - 1 /\ x + 1 \in 0 .. raw.size.w - 1 /\ l \in 0 .. raw.size.w - 1
      /\ y \in 0 .. raw.size.h - 1 /\ y + 1 \in 0 .. raw.size.h - 1 /\ u \in 0 .. raw.size.h - 1
  BY <1>1 DEF Most
<1>3. own = v
  BY <1>2, GetRawGrey
<1>4. avg2(v, v) = v /\ avg4(v, v, v, v) = v
  BY <1>1 DEF avg2, avg4
<1> HIDE DEF l, u
<1>5. across = v /\ along = v /\ cross = v
  BY <1>2, <1>4, GetRawGrey
<1>6. corners = v
  BY <1>2, <1>4, GetRawGrey
<1>7. c \in {0, 1, 2, 3}
  <2>1. x \in Nat /\ y \in Nat
    BY <1>1
  <2> QED
    BY <2>1, BayerAtType
<1>8. demosaic_pixel_bilinear(raw, x, y) =
        CASE c = 0 -> <<own, cross, corners>>
          [] c = 1 -> <<across, own, along>>
          [] c = 2 -> <<corners, cross, own>>
          [] c = 3 -> <<along, own, across>>
  BY DEF demosaic_pixel_bilinear, l, u
<1> HIDE DEF own, across, along, cross, corners, c
<1> QED
  BY <1>3, <1>5, <1>6, <1>7, <1>8

LEMMA BilinearGrey ==
  ASSUME NEW raw, NEW v, GreyRaw(raw, v), Surrounded(raw), raw.cfa_pattern \in Patterns
  PROVE  Uniform(Bilinear(raw), 3 * raw.active_area.w * raw.active_area.h, v)
<1> DEFINE a == raw.active_area
           n == 3 * a.w * a.h
           X(i) == (((i - 1) \div 3) % a.w) + a.x
           Y(i) == (((i - 1) \div 3) \div a.w) + a.y
           At(i) == demosaic_pixel_bilinear(raw, X(i), Y(i))[((i - 1) % 3) + 1]
           f == [i \in 1 .. n |-> At(i)]
<1>1. /\ a.w \in Nat \ {0} /\ a.h \in Nat /\ a.x \in Nat /\ a.y \in Nat /\ v \in Nat
      /\ raw.size.w \in Nat /\ raw.size.h \in Nat
  BY DEF GreyRaw, Framed
<1>2. n \in Nat
  BY <1>1
<1>3. ASSUME NEW i \in 1 .. n PROVE At(i) = v
  <2> DEFINE j == ((i - 1) \div 3) + 1
             q == (i - 1) \div 3
  <2>1. j \in 1 .. a.w * a.h
    BY <1>1, PixelOf
  <2>2. j - 1 = q
    <3>1. i - 1 \in Nat
      BY <1>2
    <3>2. q \in Nat
      BY <3>1
    <3> HIDE DEF q
    <3>3. (q + 1) - 1 = q
      BY <3>2
    <3> QED
      BY <3>3 DEF q
  <2>3. (q % a.w) \in 0 .. a.w - 1 /\ (q \div a.w) \in 0 .. a.h - 1
    <3> HIDE DEF j, q
    <3>1. ((j - 1) % a.w) \in 0 .. a.w - 1 /\ ((j - 1) \div a.w) \in 0 .. a.h - 1
      BY <1>1, <2>1, PositionOf
    <3> QED
      BY <2>2, <3>1
  <2> DEFINE qx == q % a.w
             qy == q \div a.w
  <2>4. qx \in 0 .. a.w - 1 /\ qy \in 0 .. a.h - 1
    BY <2>3
  <2>5. X(i) = qx + a.x /\ Y(i) = qy + a.y
    OBVIOUS
  <2> HIDE DEF qx, qy, X, Y
  <2>6. X(i) \in 1 .. raw.size.w - 2 /\ Y(i) \in 1 .. raw.size.h - 2
    BY <1>1, <2>4, <2>5 DEF Surrounded
  <2>7. demosaic_pixel_bilinear(raw, X(i), Y(i)) = <<v, v, v>>
    BY <2>6, BilinearPixelGrey
  <2>8. ((i - 1) % 3) + 1 \in 1 .. 3
    BY <1>2
  <2> QED
    BY <2>7, <2>8
<1>4. Bilinear(raw) = f
  BY DEF Bilinear
<1>5. f \in Seq(Nat) /\ Len(f) = n /\ \A i \in 1 .. n : f[i] = v
  <2> HIDE DEF At, n
  <2> QED
    BY <1>1, <1>2, <1>3
<1> QED
  BY <1>4, <1>5 DEF Uniform

-----------------------------------------------------------------------------
(* Every algorithm, of a neutral sensor image.                              *)

LEMMA NotSmall ==
  ASSUME NEW raw, Framed(raw)
  PROVE  /\ ~(raw.active_area.w < 6 \/ raw.active_area.h < 6)
         /\ 3 * raw.active_area.w * raw.active_area.h \in Nat \ {0}
<1> DEFINE aw == raw.active_area.w
           ah == raw.active_area.h
<1>1. aw \in Nat /\ aw >= 6 /\ ah \in Nat /\ ah >= 6
  BY DEF Framed
<1> HIDE DEF aw, ah
<1>2. ~(aw < 6 \/ ah < 6) /\ 3 * aw * ah \in Nat \ {0}
  BY <1>1
<1> QED
  BY <1>1, <1>2 DEF aw, ah

LEMMA DemosaicIntoGrey ==
  ASSUME NEW raw, NEW v, GreyRaw(raw, v), NEW method \in BayerMethods \union XTransMethods,
         method = "Bilinear" => Surrounded(raw) /\ raw.cfa_pattern \in Patterns,
         method \in XTransMethods => raw.xtrans_pattern \in {None, XTransStandard}
  PROVE  Uniform(demosaic_into(method, raw), 3 * raw.active_area.w * raw.active_area.h, v)
<1>1. ~(raw.active_area.w < 6 \/ raw.active_area.h < 6) /\ InSensor(raw)
  BY NotSmall, InSensorHolds DEF GreyRaw
<1>2. CASE method = "Bilinear"
  <2>1. demosaic_into(method, raw) = Bilinear(raw)
    BY <1>2 DEF demosaic_into
  <2> QED
    BY <1>2, <2>1, BilinearGrey
<1>3. CASE method = "Amaze"
  <2>1. demosaic_into(method, raw) = AmazeOf(BayerView(raw))
    BY <1>1, <1>3 DEF demosaic_into
  <2> QED
    BY <2>1, BayerViewGrey, AmazeGrey
<1>4. CASE method = "Lmmse"
  <2>1. demosaic_into(method, raw) = LmmseOf(BayerView(raw))
    BY <1>1, <1>4 DEF demosaic_into
  <2> QED
    BY <2>1, BayerViewGrey, LmmseGrey
<1>5. CASE method = "Rcd"
  <2>1. demosaic_into(method, raw) = RcdOf(BayerView(raw))
    BY <1>1, <1>5 DEF demosaic_into
  <2> QED
    BY <2>1, BayerViewGrey, RcdGrey
<1>6. CASE method = "Markesteijn"
  <2>1. demosaic_into(method, raw) = MarkesteijnOf(XTransView(raw))
    BY <1>1, <1>6 DEF demosaic_into
  <2>2. method \in XTransMethods
    BY <1>6 DEF XTransMethods
  <2> QED
    BY <2>1, <2>2, XTransViewGrey, MarkesteijnGrey
<1>7. CASE method = "Markesteijn3Pass"
  <2>1. demosaic_into(method, raw) = Markesteijn3PassOf(XTransView(raw))
    BY <1>1, <1>7 DEF demosaic_into
  <2>2. method \in XTransMethods
    BY <1>7 DEF XTransMethods
  <2> QED
    BY <2>1, <2>2, XTransViewGrey, Markesteijn3PassGrey
<1>8. CASE method = "XTransFast"
  <2>1. demosaic_into(method, raw) = XTransFastOf(XTransView(raw))
    BY <1>1, <1>8 DEF demosaic_into
  <2>2. method \in XTransMethods
    BY <1>8 DEF XTransMethods
  <2> QED
    BY <2>1, <2>2, XTransViewGrey, XTransFastGrey
<1> QED
  BY <1>2, <1>3, <1>4, <1>5, <1>6, <1>7, <1>8 DEF BayerMethods, XTransMethods

LEMMA DemosaicGrey ==
  ASSUME NEW raw, NEW v, GreyRaw(raw, v), NEW method \in BayerMethods \union XTransMethods,
         method = "Bilinear" => Surrounded(raw) /\ raw.cfa_pattern \in Patterns,
         method \in XTransMethods => raw.xtrans_pattern \in {None, XTransStandard}
  PROVE  LET picture == demosaic(method, raw)
         IN /\ picture.w = raw.active_area.w /\ picture.h = raw.active_area.h
            /\ Uniform(picture.data, 3 * raw.active_area.w * raw.active_area.h, v)
<1> DEFINE data == demosaic_into(method, raw)
           n == 3 * raw.active_area.w * raw.active_area.h
<1>1. Uniform(data, n, v)
  BY DemosaicIntoGrey
<1>2. n \in Nat \ {0}
  BY NotSmall DEF GreyRaw
<1> HIDE DEF data, n
<1>3. data \notin {Error, Panic} /\ data # <<>>
  BY <1>1, <1>2, OutcomeAssumption DEF Uniform
<1>4. demosaic(method, raw) =
        [w |-> raw.active_area.w, h |-> raw.active_area.h, data |-> data]
  BY <1>3 DEF demosaic, OrPanic, data
<1> QED
  BY <1>1, <1>4 DEF n

-----------------------------------------------------------------------------
(* The photograph of a neutral scene is a neutral sensor image.             *)

LEMMA MosaicColourType ==
  ASSUME NEW mosaic \in Mosaics, NEW x \in Nat, NEW y \in Nat
  PROVE  MosaicColour(mosaic, x, y) \in {0, 1, 2}
BY BayerAtType, ColorAtType DEF MosaicColour, Mosaics

LEMMA ShadeIs ==
  ASSUME NEW scene \in Scenes, Neutral(scene), NEW x \in Int, NEW y \in Int
  PROVE  /\ scene.shade[1] \in 0 .. White
         /\ \A c \in 1 .. 3 : SceneColour(scene, x, y)[c] = scene.shade[1]
<1>1. scene.shade \in [1 .. 3 -> 0 .. White] /\ scene.slope = 0 /\ White \in Nat
  BY SceneAssumption DEF Neutral
<1>2. scene.shade[1] \in 0 .. White
  BY <1>1
<1>3. ASSUME NEW c \in 1 .. 3 PROVE SceneColour(scene, x, y)[c] = scene.shade[1]
  <2>1. SceneColour(scene, x, y)[c] = scene.shade[c] + (scene.slope * (x + y))
    BY DEF SceneColour
  <2>2. scene.shade[c] = scene.shade[1]
    BY DEF Neutral
  <2>3. 0 * (x + y) = 0
    OBVIOUS
  <2> QED
    BY <1>1, <1>2, <2>1, <2>2, <2>3
<1> QED
  BY <1>2, <1>3

LEMMA PhotographedGrey ==
  ASSUME NEW s \in [method : Methods, mosaic : Mosaics, origin : Origins, scene : Scenes],
         Neutral(s.scene)
  PROVE  /\ GreyRaw(Photographed(s), s.scene.shade[1])
         /\ Photographed(s).active_area = from_coords(s.origin[1], s.origin[2], AreaWidth, AreaHeight)
         /\ Photographed(s).size = Dims(AreaWidth + Margin, AreaHeight + Margin)
         /\ Photographed(s).xtrans_pattern \in {None, XTransStandard}
         /\ Photographed(s).cfa_pattern \in Patterns
<1> DEFINE raw == Photographed(s)
           W == AreaWidth + Margin
           H == AreaHeight + Margin
           Sample(x, y) == SceneColour(s.scene, x, y)[MosaicColour(s.mosaic, x, y) + 1]
           f == [i \in 1 .. W * H |-> Sample((i - 1) % W, (i - 1) \div W)]
           v == s.scene.shade[1]
<1>1. /\ raw.active_area = from_coords(s.origin[1], s.origin[2], AreaWidth, AreaHeight)
      /\ raw.size = Dims(W, H)
      /\ raw.xtrans_pattern \in {None, XTransStandard}
      /\ raw.cfa_pattern \in Patterns
      /\ raw.white_level = White
  <2>1. s.mosaic # "X-Trans" => s.mosaic \in Patterns
    BY DEF Mosaics
  <2>2. "RGGB" \in Patterns
    BY DEF Patterns
  <2> QED
    BY <2>1, <2>2 DEF Photographed, RawImageNew
<1>2. raw.data = f
  BY DEF Photographed, RawImageNew, Dims, num_pixels
<1>3. AreaWidth \in Nat /\ AreaWidth >= 6 /\ AreaHeight \in Nat /\ AreaHeight >= 6 /\ Margin \in Nat
  BY AreaAssumption
<1>4. s.origin[1] \in 0 .. Margin /\ s.origin[2] \in 0 .. Margin
  BY AreaAssumption
<1>5. W \in Nat \ {0} /\ H \in Nat
  BY <1>3
<1>6. s.scene \in Scenes /\ s.mosaic \in Mosaics
  OBVIOUS
<1>7. v \in 0 .. White /\ White \in Nat
  <2>1. White \in Nat /\ 0 \in Int
    BY SceneAssumption
  <2> QED
    BY <1>6, <2>1, ShadeIs
<1>8. \A i \in 1 .. W * H : f[i] = v
  <2> SUFFICES ASSUME NEW i \in 1 .. W * H PROVE Sample((i - 1) % W, (i - 1) \div W) = v
    OBVIOUS
  <2> DEFINE x == (i - 1) % W
             y == (i - 1) \div W
  <2> HIDE DEF W, H
  <2>1. x \in 0 .. W - 1 /\ y \in 0 .. H - 1
    BY <1>5, PositionOf
  <2> HIDE DEF x, y
  <2>2. x \in Nat /\ y \in Nat /\ x \in Int /\ y \in Int
    BY <2>1, <1>5
  <2>3. MosaicColour(s.mosaic, x, y) + 1 \in 1 .. 3
    BY <1>6, <2>2, MosaicColourType
  <2>4. Sample(x, y) = v
    BY <1>6, <2>2, <2>3, ShadeIs
  <2> QED
    BY <2>4 DEF x, y
<1>9. GreyRaw(raw, v)
  <2>1. /\ raw.size.w = W /\ raw.size.h = H
        /\ raw.active_area.x = s.origin[1] /\ raw.active_area.y = s.origin[2]
        /\ raw.active_area.w = AreaWidth /\ raw.active_area.h = AreaHeight
    BY <1>1 DEF Dims, from_coords
  <2>2. DOMAIN f = 1 .. W * H
    OBVIOUS
  <2> DEFINE ox == s.origin[1]
             oy == s.origin[2]
  <2>3. ox \in Nat /\ oy \in Nat /\ ox + AreaWidth <= W /\ oy + AreaHeight <= H
    <3>1. ox \in 0 .. Margin /\ oy \in 0 .. Margin
      BY <1>4
    <3> HIDE DEF ox, oy
    <3> QED
      BY <1>3, <3>1
  <2> HIDE DEF raw, f, v, W, H, ox, oy
  <2> QED
    BY <1>1, <1>2, <1>3, <1>5, <1>7, <1>8, <2>1, <2>2, <2>3 DEF GreyRaw, Framed, ox, oy
<1> QED
  BY <1>1, <1>9

(* Whatever was developed is the picture of the shot.                       *)
Developed ==
  /\ shot \in [method : Methods, mosaic : Mosaics, origin : Origins, scene : Scenes]
  /\ Fits(shot.method, shot.mosaic)
  /\ image # None => image = demosaic(shot.method, Photographed(shot))

LEMMA DevelopedInvariant == Spec => []Developed
<1>1. Init => Developed
  BY DEF Init, Developed
<1>2. Developed /\ [Next]_vars => Developed'
  BY DEF Developed, Next, Develop, vars
<1> QED
  BY <1>1, <1>2, PTL DEF Spec

LEMMA DevelopedGrey ==
  Developed => GreyStaysGrey
<1> SUFFICES ASSUME Developed, image # None, Neutral(shot.scene),
                    shot.method = "Bilinear" => HasSurroundings,
                    NEW x \in 0 .. AreaWidth - 1, NEW y \in 0 .. AreaHeight - 1
             PROVE  Close(Found(x, y), Expected(x, y))
  BY DEF GreyStaysGrey
<1> DEFINE raw == Photographed(shot)
           v == shot.scene.shade[1]
<1>1. shot \in [method : Methods, mosaic : Mosaics, origin : Origins, scene : Scenes]
  BY DEF Developed
<1>2. /\ GreyRaw(raw, v)
      /\ raw.active_area = from_coords(shot.origin[1], shot.origin[2], AreaWidth, AreaHeight)
      /\ raw.size = Dims(AreaWidth + Margin, AreaHeight + Margin)
      /\ raw.xtrans_pattern \in {None, XTransStandard}
      /\ raw.cfa_pattern \in Patterns
  BY <1>1, PhotographedGrey
<1> HIDE DEF raw
<1>3. raw.active_area.w = AreaWidth /\ raw.active_area.h = AreaHeight
  BY <1>2 DEF from_coords
<1>4. HasSurroundings => Surrounded(raw)
  <2> SUFFICES ASSUME HasSurroundings PROVE Surrounded(raw)
    OBVIOUS
  <2> DEFINE ox == shot.origin[1]
             oy == shot.origin[2]
  <2>1. ox \in 0 .. Margin /\ oy \in 0 .. Margin /\ Margin \in Nat
    BY <1>1, AreaAssumption
  <2>2. ox > 0 /\ oy > 0 /\ ox < Margin /\ oy < Margin
    BY DEF HasSurroundings
  <2>3. /\ raw.size.w = AreaWidth + Margin /\ raw.size.h = AreaHeight + Margin
        /\ raw.active_area.x = ox /\ raw.active_area.y = oy
    BY <1>2 DEF Dims, from_coords
  <2> HIDE DEF ox, oy
  <2>4. /\ ox >= 1 /\ oy >= 1
        /\ ox + AreaWidth + 1 <= AreaWidth + Margin /\ oy + AreaHeight + 1 <= AreaHeight + Margin
    BY <2>1, <2>2, AreaAssumption
  <2> QED
    BY <1>3, <2>3, <2>4 DEF Surrounded
<1>5. shot.method \in BayerMethods \union XTransMethods
  BY <1>1, SceneAssumption
<1>6. image.w = AreaWidth /\ Uniform(image.data, 3 * AreaWidth * AreaHeight, v)
  <2>1. image = demosaic(shot.method, raw)
    BY DEF Developed, raw
  <2> QED
    BY <1>2, <1>3, <1>4, <1>5, <2>1, DemosaicGrey
<1>7. x \in Nat /\ y \in Nat /\ AreaWidth \in Nat /\ AreaHeight \in Nat
  BY AreaAssumption
<1>8. (y * AreaWidth) + x + 1 \in 1 .. AreaWidth * AreaHeight
  BY <1>7, IndexInside
<1>9. ASSUME NEW c \in 1 .. 3 PROVE Found(x, y)[c] = v
  <2> DEFINE p == (y * AreaWidth) + x
             n == AreaWidth * AreaHeight
  <2>1. p \in Nat /\ n \in Nat
    BY <1>7
  <2>2. p + 1 \in 1 .. n
    <3> DEFINE q == y * AreaWidth
    <3>1. q \in Nat /\ p = q + x /\ q + x + 1 \in 1 .. n
      BY <1>7, <1>8
    <3> HIDE DEF q, p, n
    <3> QED
      BY <1>7, <3>1
  <2>3. 3 * AreaWidth * AreaHeight = 3 * n
    BY <1>7
  <2>4. Found(x, y)[c] = image.data[(3 * p) + c]
    BY <1>6 DEF Found
  <2> HIDE DEF p, n
  <2>5. (3 * p) + c \in 1 .. 3 * n
    BY <2>1, <2>2
  <2> QED
    BY <1>6, <2>3, <2>4, <2>5 DEF Uniform
<1>10. ASSUME NEW c \in 1 .. 3 PROVE Expected(x, y)[c] = v
  <2> DEFINE ox == shot.origin[1]
             oy == shot.origin[2]
  <2>1. ox \in 0 .. Margin /\ oy \in 0 .. Margin /\ Margin \in Nat
    BY <1>1, AreaAssumption
  <2> HIDE DEF ox, oy
  <2>2. x + ox \in Int /\ y + oy \in Int
    BY <1>7, <2>1
  <2>3. shot.scene \in Scenes
    BY <1>1
  <2> QED
    BY <2>2, <2>3, ShadeIs DEF Expected, ox, oy
<1>11. v \in Nat
  BY <1>2 DEF GreyRaw, Framed
<1>12. ASSUME NEW c \in 1 .. 3 PROVE Abs(Found(x, y)[c] - Expected(x, y)[c]) <= Tolerance
  <2>1. Abs(v - v) = 0
    BY <1>11 DEF Abs
  <2>2. Tolerance \in {0, 1}
    BY DEF Tolerance
  <2> HIDE DEF v
  <2> QED
    BY <1>9, <1>10, <2>1, <2>2
<1> QED
  BY <1>12 DEF Close

(* No algorithm tints or darkens a neutral scene anywhere in the picture,   *)
(* on sensors and areas of every size and place, mosaics of every kind and  *)
(* at every level (GreyStaysGrey); the bilinear one on areas that have a    *)
(* row and a column of sensor around them.                                  *)
THEOREM GreyStaysGreyAlways == Spec => []GreyStaysGrey
BY DevelopedInvariant, DevelopedGrey, PTL

-----------------------------------------------------------------------------
(* Scenes.  The colour of a scene at a position of the area: a shade, and   *)
(* what the slope adds on the way from the sensor's corner.                 *)

Shades(k) == k.shade \in [1 .. 3 -> Nat] /\ k.slope \in Nat /\ k.start \in Nat
Tone(k, c, x, y) == k.shade[c] + (k.slope * (x + y + k.start))

LEMMA ToneType ==
  ASSUME NEW k, Shades(k), NEW c \in 1 .. 3, NEW x \in Int, NEW y \in Int
  PROVE  Tone(k, c, x, y) \in Int
<1> DEFINE a == k.shade[c]
           m == k.slope
           z == k.start
<1>1. a \in Nat /\ m \in Nat /\ z \in Nat
  BY DEF Shades
<1> HIDE DEF a, m, z
<1>2. a + (m * (x + y + z)) \in Int
  BY <1>1
<1> QED
  BY <1>2 DEF Tone, a, m, z

(* Halfway between two positions is the mean of their colours.              *)
LEMMA ToneMiddle ==
  ASSUME NEW k, Shades(k), NEW c \in 1 .. 3, NEW x \in Int, NEW y \in Int,
         NEW x1 \in Int, NEW y1 \in Int, NEW x2 \in Int, NEW y2 \in Int,
         x1 + x2 = 2 * x, y1 + y2 = 2 * y
  PROVE  Tone(k, c, x1, y1) + Tone(k, c, x2, y2) = 2 * Tone(k, c, x, y)
<1> DEFINE a == k.shade[c]
           m == k.slope
           z == k.start
           u == x1 + y1 + z
           v == x2 + y2 + z
           w == x + y + z
<1>1. a \in Nat /\ m \in Nat /\ z \in Nat
  BY DEF Shades
<1>2. /\ Tone(k, c, x1, y1) = a + (m * u) /\ Tone(k, c, x2, y2) = a + (m * v)
      /\ Tone(k, c, x, y) = a + (m * w)
  BY DEF Tone
<1> HIDE DEF a, m, z
<1>3. u \in Int /\ v \in Int /\ w \in Int /\ u + v = 2 * w
  BY <1>1
<1> HIDE DEF u, v, w
<1>4. (m * u) + (m * v) = m * (u + v) /\ m * (2 * w) = 2 * (m * w)
  BY <1>1, <1>3
<1> DEFINE mu == m * u
           mv == m * v
           mw == m * w
<1>5. mu \in Int /\ mv \in Int /\ mw \in Int /\ mu + mv = 2 * mw
  BY <1>1, <1>3, <1>4
<1> HIDE DEF mu, mv, mw
<1>6. (a + mu) + (a + mv) = 2 * (a + mw)
  BY <1>1, <1>5
<1> QED
  BY <1>2, <1>6 DEF mu, mv, mw

(* Colours differ by constants.                                             *)
LEMMA ToneDiffers ==
  ASSUME NEW k, Shades(k), NEW c \in 1 .. 3, NEW x \in Int, NEW y \in Int
  PROVE  Tone(k, c, x, y) = Tone(k, 2, x, y) + (k.shade[c] - k.shade[2])
<1> DEFINE a == k.shade[c]
           b == k.shade[2]
           e == k.slope * (x + y + k.start)
<1>1. a \in Nat /\ b \in Nat /\ k.slope \in Nat /\ k.start \in Nat
  BY DEF Shades
<1>2. e \in Int
  BY <1>1
<1>3. Tone(k, c, x, y) = a + e /\ Tone(k, 2, x, y) = b + e
  BY DEF Tone
<1> HIDE DEF a, b, e
<1>4. a + e = (b + e) + (a - b)
  BY <1>1, <1>2
<1> QED
  BY <1>3, <1>4 DEF a, b

-----------------------------------------------------------------------------
(* Planes, entry by entry.                                                  *)

LEMMA IndexBack ==
  ASSUME NEW s, Sized(s), NEW x \in 0 .. s.w - 1, NEW y \in 0 .. s.h - 1
  PROVE  /\ Index(s, x, y) \in 1 .. s.w * s.h
         /\ ((Index(s, x, y) - 1) % s.w) = x /\ (Index(s, x, y) - 1) \div s.w = y
<1>1. s.w \in Nat \ {0} /\ s.h \in Nat
  BY DEF Sized
<1>2. Index(s, x, y) \in 1 .. s.w * s.h
  BY <1>1, IndexInside DEF Index
<1>3. Index(s, x, y) - 1 = (y * s.w) + x
  BY <1>1 DEF Index
<1>4. ((y * s.w) + x) \div s.w = y /\ (((y * s.w) + x) % s.w) = x
  <2>1. y \in Nat
    BY <1>1
  <2> QED
    BY <1>1, <2>1, DivideUnique
<1> QED
  BY <1>2, <1>3, <1>4

(* A plane's entries are numbers, and at least m positions from the borders *)
(* the colour c of the scene.                                               *)
Whole(s, plane) == \A i \in 1 .. s.w * s.h : plane[i] \in Int
Inner(s, m, x, y) == x \in m .. s.w - 1 - m /\ y \in m .. s.h - 1 - m
Exact(s, k, plane, c, m) ==
  /\ Whole(s, plane)
  /\ \A x, y : Inner(s, m, x, y) => plane[Index(s, x, y)] = Sub * Tone(k, c, x, y)

LEMMA InnerInside ==
  ASSUME NEW s, Sized(s), NEW m \in Nat, NEW x, NEW y, Inner(s, m, x, y)
  PROVE  x \in 0 .. s.w - 1 /\ y \in 0 .. s.h - 1 /\ x \in Int /\ y \in Int
BY SizeType DEF Inner

LEMMA WholeAt ==
  ASSUME NEW s, Sized(s), NEW plane, Whole(s, plane),
         NEW x \in 0 .. s.w - 1, NEW y \in 0 .. s.h - 1
  PROVE  plane[Index(s, x, y)] \in Int
BY IndexBack DEF Whole

(* What a plane of computed entries is: f goes through the values g of the  *)
(* positions row by row.                                                    *)
Fills(s, f, g) ==
  /\ g \in [(0 .. s.w - 1) \X (0 .. s.h - 1) -> Int]
  /\ \A i \in 1 .. s.w * s.h : f[i] = g[<<(i - 1) % s.w, (i - 1) \div s.w>>]

Laid(s, plane, g) ==
  \A x \in 0 .. s.w - 1, y \in 0 .. s.h - 1 : plane[Index(s, x, y)] = g[<<x, y>>]

LEMMA PlaneIs ==
  ASSUME NEW s, Sized(s), NEW f, NEW g, Fills(s, f, g),
         NEW plane, plane = SubSeq(f, 1, s.w * s.h)
  PROVE  Whole(s, plane) /\ Laid(s, plane, g)
<1> DEFINE n == s.w * s.h
<1>1. n \in Nat
  BY SizeType
<1>2. \A i \in 1 .. n : plane[i] = f[i]
  <2>1. \A i \in 1 .. n : SubSeq(f, 1, n)[i] = f[i]
    <3> HIDE DEF n
    <3> QED
      BY <1>1
  <2> QED
    BY <2>1
<1>3. Whole(s, plane)
  <2> SUFFICES ASSUME NEW i \in 1 .. n
               PROVE  plane[i] \in Int
    BY DEF Whole
  <2> DEFINE x == (i - 1) % s.w
             y == (i - 1) \div s.w
  <2>1. x \in 0 .. s.w - 1 /\ y \in 0 .. s.h - 1
    BY EntryPosition
  <2>2. plane[i] = g[<<x, y>>]
    BY <1>2 DEF Fills
  <2> HIDE DEF x, y
  <2> QED
    BY <2>1, <2>2 DEF Fills
<1>4. ASSUME NEW x \in 0 .. s.w - 1, NEW y \in 0 .. s.h - 1
      PROVE  plane[Index(s, x, y)] = g[<<x, y>>]
  <2> DEFINE j == Index(s, x, y)
  <2>1. j \in 1 .. n /\ ((j - 1) % s.w) = x /\ (j - 1) \div s.w = y
    BY IndexBack
  <2> HIDE DEF j, n
  <2>2. plane[j] = g[<<(j - 1) % s.w, (j - 1) \div s.w>>]
    BY <1>2, <2>1 DEF n, Fills
  <2> QED
    BY <2>1, <2>2 DEF j
<1> QED
  BY <1>3, <1>4 DEF Laid

-----------------------------------------------------------------------------
(* The Bayer mosaic.  Red is where both parities are 0.                     *)

SiteOf(a, b) == IF a = 0 THEN (IF b = 0 THEN 0 ELSE 3) ELSE (IF b = 0 THEN 1 ELSE 2)
Checkered(s) ==
  \E px \in Nat, py \in Nat : \A x \in 0 .. s.w - 1, y \in 0 .. s.h - 1 :
     fc(s, x, y) = SiteOf((x + px) % 2, (y + py) % 2)

(* The colour of a site, counted from 1.                                    *)
Hue(site) == IF site = 0 THEN 1 ELSE IF site = 2 THEN 3 ELSE 2

LEMMA ParityFlips ==
  ASSUME NEW x \in Int, NEW p \in Nat
  PROVE  /\ ((x + p) % 2) \in {0, 1}
         /\ (((x + 1) + p) % 2) = 1 - ((x + p) % 2) /\ (((x - 1) + p) % 2) = 1 - ((x + p) % 2)
         /\ (((x + 2) + p) % 2) = ((x + p) % 2) /\ (((x - 2) + p) % 2) = ((x + p) % 2)
OBVIOUS

(* A red or blue site has green sites beside it and its own colour behind   *)
(* them.                                                                    *)
LEMMA SitesBeside ==
  ASSUME NEW s, Sized(s), Checkered(s), NEW x \in 2 .. s.w - 3, NEW y \in 2 .. s.h - 3,
         ~GreenAt(s, x, y)
  PROVE  /\ \A d \in {-1, 1} : /\ Hue(fc(s, x + d, y)) = 2 /\ Hue(fc(s, x, y + d)) = 2
         /\ \A d \in {-2, 2} : fc(s, x + d, y) = fc(s, x, y) /\ fc(s, x, y + d) = fc(s, x, y)
<1>1. s.w \in Nat /\ s.h \in Nat
  BY SizeType
<1>2. PICK px \in Nat, py \in Nat : \A i \in 0 .. s.w - 1, j \in 0 .. s.h - 1 :
        fc(s, i, j) = SiteOf((i + px) % 2, (j + py) % 2)
  BY DEF Checkered
<1>3. x \in Int /\ y \in Int
  BY <1>1
<1> DEFINE a == (x + px) % 2
           b == (y + py) % 2
<1>4. /\ a \in {0, 1} /\ b \in {0, 1}
      /\ (((x + 1) + px) % 2) = 1 - a /\ (((x - 1) + px) % 2) = 1 - a
      /\ (((x + 2) + px) % 2) = a /\ (((x - 2) + px) % 2) = a
      /\ (((y + 1) + py) % 2) = 1 - b /\ (((y - 1) + py) % 2) = 1 - b
      /\ (((y + 2) + py) % 2) = b /\ (((y - 2) + py) % 2) = b
  BY <1>3, ParityFlips
<1>5. /\ x \in 0 .. s.w - 1 /\ x + 1 \in 0 .. s.w - 1 /\ x - 1 \in 0 .. s.w - 1
      /\ x + 2 \in 0 .. s.w - 1 /\ x - 2 \in 0 .. s.w - 1
      /\ y \in 0 .. s.h - 1 /\ y + 1 \in 0 .. s.h - 1 /\ y - 1 \in 0 .. s.h - 1
      /\ y + 2 \in 0 .. s.h - 1 /\ y - 2 \in 0 .. s.h - 1
  BY <1>1
<1> HIDE DEF a, b
<1>6. /\ fc(s, x, y) = SiteOf(a, b)
      /\ fc(s, x + 1, y) = SiteOf(1 - a, b) /\ fc(s, x - 1, y) = SiteOf(1 - a, b)
      /\ fc(s, x + 2, y) = SiteOf(a, b) /\ fc(s, x - 2, y) = SiteOf(a, b)
      /\ fc(s, x, y + 1) = SiteOf(a, 1 - b) /\ fc(s, x, y - 1) = SiteOf(a, 1 - b)
      /\ fc(s, x, y + 2) = SiteOf(a, b) /\ fc(s, x, y - 2) = SiteOf(a, b)
  BY <1>2, <1>4, <1>5 DEF a, b
<1>7. SiteOf(a, b) \notin {1, 3}
  BY <1>6 DEF GreenAt
<1>8. Hue(SiteOf(1 - a, b)) = 2 /\ Hue(SiteOf(a, 1 - b)) = 2
  BY <1>4, <1>7 DEF SiteOf, Hue
<1>9. x + (-1) = x - 1 /\ y + (-1) = y - 1 /\ x + (-2) = x - 2 /\ y + (-2) = y - 2
  BY <1>3
<1> QED
  BY <1>6, <1>8, <1>9

(* Red and blue are in every 3x3 window.                                    *)
LEMMA SiteNear ==
  ASSUME NEW s, Sized(s), Checkered(s), NEW x \in 1 .. s.w - 2, NEW y \in 1 .. s.h - 2,
         NEW color \in {0, 2}
  PROVE  Around(s, x, y, 1, color) # {}
<1>1. s.w \in Nat /\ s.h \in Nat
  BY SizeType
<1>2. PICK px \in Nat, py \in Nat : \A i \in 0 .. s.w - 1, j \in 0 .. s.h - 1 :
        fc(s, i, j) = SiteOf((i + px) % 2, (j + py) % 2)
  BY DEF Checkered
<1> DEFINE t == IF color = 0 THEN 0 ELSE 1
<1>3. \E i \in {x, x + 1} : ((i + px) % 2) = t
  <2>1. x \in Int
    BY <1>1
  <2>2. ((x + px) % 2) \in {0, 1} /\ (((x + 1) + px) % 2) = 1 - ((x + px) % 2)
    BY <2>1, ParityFlips
  <2>3. t \in {0, 1}
    OBVIOUS
  <2> HIDE DEF t
  <2> QED
    BY <2>2, <2>3
<1>4. \E j \in {y, y + 1} : ((j + py) % 2) = t
  <2>1. y \in Int
    BY <1>1
  <2>2. ((y + py) % 2) \in {0, 1} /\ (((y + 1) + py) % 2) = 1 - ((y + py) % 2)
    BY <2>1, ParityFlips
  <2>3. t \in {0, 1}
    OBVIOUS
  <2> HIDE DEF t
  <2> QED
    BY <2>2, <2>3
<1>5. PICK i \in {x, x + 1} : ((i + px) % 2) = t
  BY <1>3
<1>6. PICK j \in {y, y + 1} : ((j + py) % 2) = t
  BY <1>4
<1>7. i \in 0 .. s.w - 1 /\ j \in 0 .. s.h - 1
  BY <1>1
<1>8. fc(s, i, j) = color
  <2>1. fc(s, i, j) = SiteOf(t, t)
    <3> HIDE DEF t
    <3> QED
      BY <1>2, <1>5, <1>6, <1>7
  <2> QED
    BY <2>1 DEF SiteOf
<1>9. i \in Most(0, x - 1) .. Least(s.w - 1, x + 1) /\ j \in Most(0, y - 1) .. Least(s.h - 1, y + 1)
  BY <1>1 DEF Most, Least
<1>10. <<i, j>> \in Around(s, x, y, 1, color)
  BY <1>8, <1>9 DEF Around
<1> QED
  BY <1>10

(* A view of a scene through a mosaic that saturates nowhere.               *)
Scene(s, k) ==
  /\ Sized(s) /\ Shades(k)
  /\ \A x \in 0 .. s.w - 1, y \in 0 .. s.h - 1 :
        /\ s.at[Index(s, x, y)] = Tone(k, Hue(fc(s, x, y)), x, y)
        /\ \A c \in 1 .. 3 : Tone(k, c, x, y) \in 0 .. s.white

LEMMA HueType ==
  ASSUME NEW site
  PROVE  Hue(site) \in 1 .. 3
BY DEF Hue

LEMMA GetInside ==
  ASSUME NEW s, Sized(s), NEW x \in 0 .. s.w - 1, NEW y \in 0 .. s.h - 1
  PROVE  get(s, x, y) = s.at[Index(s, x, y)]
<1>1. s.w \in Nat /\ s.h \in Nat
  BY SizeType
<1>2. Clamped(x, 0, s.w - 1) = x /\ Clamped(y, 0, s.h - 1) = y
  BY <1>1 DEF Clamped, Most, Least
<1> QED
  BY <1>2 DEF get

LEMMA GetScene ==
  ASSUME NEW s, NEW k, Scene(s, k), NEW x \in 0 .. s.w - 1, NEW y \in 0 .. s.h - 1
  PROVE  get(s, x, y) = Tone(k, Hue(fc(s, x, y)), x, y)
BY GetInside DEF Scene

LEMMA GetType ==
  ASSUME NEW s, NEW k, Scene(s, k), NEW x \in Int, NEW y \in Int
  PROVE  get(s, x, y) \in Int
<1> DEFINE X == Clamped(x, 0, s.w - 1)
           Y == Clamped(y, 0, s.h - 1)
<1>1. s.w \in Nat /\ s.h \in Nat /\ s.w - 1 \in Nat /\ s.h - 1 \in Nat /\ Sized(s) /\ Shades(k)
  BY DEF Scene, Sized
<1>2. X \in 0 .. s.w - 1 /\ Y \in 0 .. s.h - 1
  BY <1>1, ClampedInside
<1> HIDE DEF X, Y
<1>3. s.at[Index(s, X, Y)] = Tone(k, Hue(fc(s, X, Y)), X, Y)
  BY <1>2 DEF Scene
<1>4. Tone(k, Hue(fc(s, X, Y)), X, Y) \in Int
  <2>1. X \in Int /\ Y \in Int
    BY <1>1, <1>2
  <2> QED
    BY <1>1, <2>1, HueType, ToneType
<1> QED
  BY <1>3, <1>4 DEF get, X, Y

(* Green of the two directions.                                             *)
LEMMA DirectionalType ==
  ASSUME NEW s, NEW k, Scene(s, k), NEW x \in Int, NEW y \in Int, NEW dx \in Int, NEW dy \in Int
  PROVE  Directional(s, x, y, dx, dy) \in Int /\ Gradient(s, x, y, dx, dy) \in Nat
<1> DEFINE a == get(s, x, y)
           b == get(s, x - dx, y - dy)
           c == get(s, x + dx, y + dy)
           d == get(s, x - (2 * dx), y - (2 * dy))
           e == get(s, x + (2 * dx), y + (2 * dy))
<1>1. a \in Int /\ b \in Int /\ c \in Int /\ d \in Int /\ e \in Int
  <2>1. /\ x - dx \in Int /\ y - dy \in Int /\ x + dx \in Int /\ y + dy \in Int
        /\ x - (2 * dx) \in Int /\ y - (2 * dy) \in Int
        /\ x + (2 * dx) \in Int /\ y + (2 * dy) \in Int
    OBVIOUS
  <2> QED
    BY <2>1, GetType
<1>2. /\ Curvature(s, x, y, dx, dy) = (2 * a) - d - e
      /\ Gradient(s, x, y, dx, dy) = Abs(b - c) + Abs((2 * a) - d - e)
      /\ Directional(s, x, y, dx, dy) \in {Sub * a, Quarter * ((2 * (b + c)) + ((2 * a) - d - e))}
  BY DEF Curvature, Gradient, Directional
<1> HIDE DEF a, b, c, d, e
<1>3. Abs(b - c) + Abs((2 * a) - d - e) \in Nat
  BY <1>1 DEF Abs
<1>4. Sub * a \in Int /\ Quarter * ((2 * (b + c)) + ((2 * a) - d - e)) \in Int
  BY <1>1, QuarterIs
<1> QED
  BY <1>2, <1>3, <1>4

LEMMA DirectionalExact ==
  ASSUME NEW s, NEW k, Scene(s, k), Checkered(s), NEW x, NEW y, Inner(s, 2, x, y),
         NEW dx \in {0, 1}, NEW dy \in {0, 1}, dx + dy = 1
  PROVE  Directional(s, x, y, dx, dy) = Sub * Tone(k, 2, x, y)
<1>1. s.w \in Nat /\ s.h \in Nat /\ Sized(s) /\ Shades(k) /\ Checkered(s)
  BY SizeType DEF Scene
<1>2. x \in 2 .. s.w - 3 /\ y \in 2 .. s.h - 3 /\ x \in Int /\ y \in Int
  BY <1>1 DEF Inner
<1>3. x \in 0 .. s.w - 1 /\ y \in 0 .. s.h - 1
  BY <1>1, <1>2
<1>4. CASE GreenAt(s, x, y)
  <2>1. get(s, x, y) = Tone(k, 2, x, y)
    BY <1>3, <1>4, GetScene DEF GreenAt, Hue
  <2> QED
    BY <1>4, <2>1 DEF Directional
<1>5. CASE ~GreenAt(s, x, y)
  <2> DEFINE h == Hue(fc(s, x, y))
             g == Tone(k, 2, x, y)
             t == Tone(k, h, x, y)
  <2>1. h \in 1 .. 3
    BY HueType
  <2>2. g \in Int /\ t \in Int
    BY <1>1, <1>2, <2>1, ToneType
  <2>3. /\ x - dx \in 0 .. s.w - 1 /\ x + dx \in 0 .. s.w - 1
        /\ y - dy \in 0 .. s.h - 1 /\ y + dy \in 0 .. s.h - 1
        /\ x - (2 * dx) \in 0 .. s.w - 1 /\ x + (2 * dx) \in 0 .. s.w - 1
        /\ y - (2 * dy) \in 0 .. s.h - 1 /\ y + (2 * dy) \in 0 .. s.h - 1
    BY <1>1, <1>2
  <2>4. /\ Hue(fc(s, x - dx, y - dy)) = 2 /\ Hue(fc(s, x + dx, y + dy)) = 2
        /\ fc(s, x - (2 * dx), y - (2 * dy)) = fc(s, x, y)
        /\ fc(s, x + (2 * dx), y + (2 * dy)) = fc(s, x, y)
    <3>1. /\ \A d \in {-1, 1} : /\ Hue(fc(s, x + d, y)) = 2 /\ Hue(fc(s, x, y + d)) = 2
          /\ \A d \in {-2, 2} : fc(s, x + d, y) = fc(s, x, y) /\ fc(s, x, y + d) = fc(s, x, y)
      BY <1>1, <1>2, <1>5, SitesBeside
    <3>2. /\ x + (-1) = x - 1 /\ x + (-2) = x - 2 /\ y + (-1) = y - 1 /\ y + (-2) = y - 2
          /\ x - 0 = x /\ x + 0 = x /\ y - 0 = y /\ y + 0 = y
          /\ 2 * 0 = 0 /\ 2 * 1 = 2
      BY <1>2
    <3>3. CASE dx = 1 /\ dy = 0
      BY <3>1, <3>2, <3>3
    <3>4. CASE dx = 0 /\ dy = 1
      BY <3>1, <3>2, <3>4
    <3> QED
      BY <3>3, <3>4
  <2>5. /\ get(s, x, y) = t
        /\ get(s, x - dx, y - dy) = Tone(k, 2, x - dx, y - dy)
        /\ get(s, x + dx, y + dy) = Tone(k, 2, x + dx, y + dy)
        /\ get(s, x - (2 * dx), y - (2 * dy)) = Tone(k, h, x - (2 * dx), y - (2 * dy))
        /\ get(s, x + (2 * dx), y + (2 * dy)) = Tone(k, h, x + (2 * dx), y + (2 * dy))
    BY <1>3, <2>3, <2>4, GetScene
  <2>6. get(s, x - dx, y - dy) + get(s, x + dx, y + dy) = 2 * g
    <3>1. dx \in Int /\ dy \in Int /\ 2 \in 1 .. 3
      OBVIOUS
    <3>2. Tone(k, 2, x - dx, y - dy) + Tone(k, 2, x + dx, y + dy) = 2 * Tone(k, 2, x, y)
      <4>1. /\ x - dx \in Int /\ x + dx \in Int /\ y - dy \in Int /\ y + dy \in Int
            /\ (x - dx) + (x + dx) = 2 * x /\ (y - dy) + (y + dy) = 2 * y
        BY <1>2
      <4> QED
        BY <1>1, <1>2, <3>1, <4>1, ToneMiddle
    <3> QED
      BY <2>5, <3>2
  <2>7. get(s, x - (2 * dx), y - (2 * dy)) + get(s, x + (2 * dx), y + (2 * dy)) = 2 * t
    <3>1. 2 * dx \in Int /\ 2 * dy \in Int
      OBVIOUS
    <3> HIDE DEF h
    <3>2. Tone(k, h, x - (2 * dx), y - (2 * dy)) + Tone(k, h, x + (2 * dx), y + (2 * dy))
            = 2 * Tone(k, h, x, y)
      <4>1. /\ x - (2 * dx) \in Int /\ x + (2 * dx) \in Int
            /\ y - (2 * dy) \in Int /\ y + (2 * dy) \in Int
            /\ (x - (2 * dx)) + (x + (2 * dx)) = 2 * x /\ (y - (2 * dy)) + (y + (2 * dy)) = 2 * y
        BY <1>2
      <4> QED
        BY <1>1, <1>2, <2>1, <3>1, <4>1, ToneMiddle
    <3> QED
      BY <2>5, <3>2
  <2>8. Curvature(s, x, y, dx, dy) = 0
    <3> DEFINE u == get(s, x - (2 * dx), y - (2 * dy))
               v == get(s, x + (2 * dx), y + (2 * dy))
    <3>1. x - (2 * dx) \in Int /\ y - (2 * dy) \in Int /\ x + (2 * dx) \in Int /\ y + (2 * dy) \in Int
      BY <1>2
    <3>2. u \in Int /\ v \in Int /\ u + v = 2 * t
      BY <2>7, <3>1, GetType
    <3>3. Curvature(s, x, y, dx, dy) = (2 * t) - u - v
      BY <2>5 DEF Curvature
    <3> HIDE DEF u, v, t
    <3> QED
      BY <2>2, <3>2, <3>3
  <2>9. Quarter * ((2 * (2 * g)) + 0) = Sub * g
    <3> HIDE DEF g
    <3> QED
      BY <2>2, QuarterIs
  <2> QED
    BY <1>5, <2>6, <2>8, <2>9 DEF Directional
<1> QED
  BY <1>4, <1>5

-----------------------------------------------------------------------------
(* Green of a scene.                                                        *)

LEMMA LevelIs ==
  ASSUME NEW s, NEW k, Scene(s, k), NEW x \in 0 .. s.w - 1, NEW y \in 0 .. s.h - 1,
         NEW c \in 1 .. 3
  PROVE  Tone(k, c, x, y) \in 0 .. s.white /\ Tone(k, c, x, y) \in Nat /\ Sub * Tone(k, c, x, y) \in Nat
<1>1. Tone(k, c, x, y) \in 0 .. s.white /\ s.white \in Nat
  BY DEF Scene, Sized
<1> DEFINE t == Tone(k, c, x, y)
<1> HIDE DEF t
<1>2. t \in Nat /\ Sub * t \in Nat
  <2>1. t \in Nat
    BY <1>1 DEF t
  <2> QED
    BY <2>1, QuarterIs
<1> QED
  BY <1>1, <1>2 DEF t

LEMMA WeightedType ==
  ASSUME NEW a \in Int, NEW b \in Int, NEW wa \in Nat, NEW wb \in Nat
  PROVE  Weighted(a, wa, b, wb) \in Int
<1>1. CASE wa + wb = 0
  <2>1. (a + b) \div 2 \in Int
    OBVIOUS
  <2> QED
    BY <1>1, <2>1 DEF Weighted
<1>2. CASE wa + wb # 0
  <2> DEFINE n == (wa * a) + (wb * b)
             m == wa + wb
  <2>1. n \in Int /\ m \in Nat \ {0}
    BY <1>2
  <2> HIDE DEF n, m
  <2>2. n \div m \in Int
    BY <2>1
  <2> QED
    BY <1>2, <2>2 DEF Weighted, n, m
<1> QED
  BY <1>1, <1>2

LEMMA AdaptiveGreenExact ==
  ASSUME NEW s, NEW k, Scene(s, k), Checkered(s)
  PROVE  Exact(s, k, AdaptiveGreen(s), 2, 2)
<1> DEFINE Choice(x, y, dh, dv) ==
             IF 2 * dh < dv THEN Directional(s, x, y, 1, 0)
             ELSE IF 2 * dv < dh THEN Directional(s, x, y, 0, 1)
             ELSE Weighted(Directional(s, x, y, 1, 0), dv, Directional(s, x, y, 0, 1), dh)
           At(x, y) == IF GreenAt(s, x, y) THEN Sub * get(s, x, y)
                       ELSE Most(0, Choice(x, y, Gradient(s, x, y, 1, 0), Gradient(s, x, y, 0, 1)))
           f == [i \in 1 .. s.w * s.h |-> At((i - 1) % s.w, (i - 1) \div s.w)]
           g == [p \in (0 .. s.w - 1) \X (0 .. s.h - 1) |-> At(p[1], p[2])]
<1>1. Sized(s) /\ s.w \in Nat /\ s.h \in Nat
  BY SizeType DEF Scene
<1>2. ASSUME NEW x \in Int, NEW y \in Int
      PROVE  /\ Directional(s, x, y, 1, 0) \in Int /\ Directional(s, x, y, 0, 1) \in Int
             /\ Gradient(s, x, y, 1, 0) \in Nat /\ Gradient(s, x, y, 0, 1) \in Nat
             /\ Sub * get(s, x, y) \in Int
  <2>1. 0 \in Int /\ 1 \in Int
    OBVIOUS
  <2>2. get(s, x, y) \in Int
    BY GetType
  <2> QED
    BY <2>1, <2>2, DirectionalType, QuarterIs
<1>3. ASSUME NEW x \in 0 .. s.w - 1, NEW y \in 0 .. s.h - 1 PROVE At(x, y) \in Int
  <2>1. x \in Int /\ y \in Int
    BY <1>1
  <2> DEFINE a == Directional(s, x, y, 1, 0)
             b == Directional(s, x, y, 0, 1)
             dh == Gradient(s, x, y, 1, 0)
             dv == Gradient(s, x, y, 0, 1)
  <2>2. a \in Int /\ b \in Int /\ dh \in Nat /\ dv \in Nat /\ Sub * get(s, x, y) \in Int
    BY <1>2, <2>1
  <2>3. Weighted(a, dv, b, dh) \in Int
    <3> HIDE DEF a, b, dh, dv
    <3> QED
      BY <2>2, WeightedType
  <2>4. Choice(x, y, dh, dv) \in Int
    <3>1. Choice(x, y, dh, dv) \in {a, b, Weighted(a, dv, b, dh)}
      OBVIOUS
    <3> HIDE DEF a, b, dh, dv, Choice
    <3> QED
      BY <2>2, <2>3, <3>1
  <2> HIDE DEF Choice
  <2> QED
    BY <2>2, <2>4 DEF Most
<1>4. ASSUME NEW x, NEW y, Inner(s, 2, x, y) PROVE At(x, y) = Sub * Tone(k, 2, x, y)
  <2> DEFINE c == Sub * Tone(k, 2, x, y)
  <2>1. x \in 0 .. s.w - 1 /\ y \in 0 .. s.h - 1 /\ x \in Int /\ y \in Int
    BY <1>1, <1>4, InnerInside
  <2>2. c \in Nat
    BY <2>1, LevelIs
  <2>3. Directional(s, x, y, 1, 0) = c /\ Directional(s, x, y, 0, 1) = c
    BY <1>4, DirectionalExact
  <2>4. CASE GreenAt(s, x, y)
    <3>1. get(s, x, y) = Tone(k, 2, x, y)
      BY <2>1, <2>4, GetScene DEF GreenAt, Hue
    <3> QED
      BY <2>4, <3>1
  <2>5. CASE ~GreenAt(s, x, y)
    <3> DEFINE dh == Gradient(s, x, y, 1, 0)
               dv == Gradient(s, x, y, 0, 1)
    <3>1. dh \in Nat /\ dv \in Nat
      BY <1>2, <2>1
    <3>2. At(x, y) = Most(0, Choice(x, y, dh, dv))
      BY <2>5
    <3>3. Choice(x, y, dh, dv) \in {c, Weighted(c, dv, c, dh)}
      BY <2>3
    <3> HIDE DEF c, dh, dv, Choice
    <3>4. Weighted(c, dv, c, dh) = c
      BY <2>2, <3>1, WeightedSame
    <3> QED
      BY <2>2, <3>2, <3>3, <3>4 DEF Most, c
  <2> QED
    BY <2>4, <2>5
<1>5. Fills(s, f, g)
  <2> HIDE DEF At
  <2> QED
    BY <1>1, <1>3, EntryPosition DEF Fills
<1>6. AdaptiveGreen(s) = SubSeq(f, 1, s.w * s.h)
  BY DEF AdaptiveGreen, Plane
<1>7. \A x \in 0 .. s.w - 1, y \in 0 .. s.h - 1 : g[<<x, y>>] = At(x, y)
  <2> HIDE DEF At
  <2> QED
    OBVIOUS
<1> HIDE DEF f, g, At
<1>8. /\ Whole(s, AdaptiveGreen(s))
      /\ \A x \in 0 .. s.w - 1, y \in 0 .. s.h - 1 : (AdaptiveGreen(s))[Index(s, x, y)] = At(x, y)
  <2>1. Whole(s, AdaptiveGreen(s)) /\ Laid(s, AdaptiveGreen(s), g)
    BY <1>1, <1>5, <1>6, PlaneIs
  <2> QED
    BY <1>7, <2>1 DEF Laid
<1> QED
  BY <1>1, <1>4, <1>8, InnerInside DEF Exact

LEMMA DirectionExact ==
  ASSUME NEW s, NEW k, Scene(s, k), Checkered(s), NEW dx \in {0, 1}, NEW dy \in {0, 1}, dx + dy = 1
  PROVE  Exact(s, k, Direction(s, dx, dy), 2, 2)
<1> DEFINE At(x, y) == Directional(s, x, y, dx, dy)
           f == [i \in 1 .. s.w * s.h |-> At((i - 1) % s.w, (i - 1) \div s.w)]
           g == [p \in (0 .. s.w - 1) \X (0 .. s.h - 1) |-> At(p[1], p[2])]
<1>1. Sized(s) /\ s.w \in Nat /\ s.h \in Nat
  BY SizeType DEF Scene
<1>2. ASSUME NEW x \in 0 .. s.w - 1, NEW y \in 0 .. s.h - 1 PROVE At(x, y) \in Int
  <2>1. x \in Int /\ y \in Int /\ dx \in Int /\ dy \in Int
    BY <1>1
  <2> QED
    BY <2>1, DirectionalType
<1>3. ASSUME NEW x, NEW y, Inner(s, 2, x, y) PROVE At(x, y) = Sub * Tone(k, 2, x, y)
  BY <1>3, DirectionalExact
<1>4. Fills(s, f, g)
  <2> HIDE DEF At
  <2> QED
    BY <1>1, <1>2, EntryPosition DEF Fills
<1>5. Direction(s, dx, dy) = SubSeq(f, 1, s.w * s.h)
  BY DEF Direction, Plane
<1>6. \A x \in 0 .. s.w - 1, y \in 0 .. s.h - 1 : g[<<x, y>>] = At(x, y)
  <2> HIDE DEF At
  <2> QED
    OBVIOUS
<1> HIDE DEF f, g, At
<1>7. /\ Whole(s, Direction(s, dx, dy))
      /\ \A x \in 0 .. s.w - 1, y \in 0 .. s.h - 1 : (Direction(s, dx, dy))[Index(s, x, y)] = At(x, y)
  <2>1. Whole(s, Direction(s, dx, dy)) /\ Laid(s, Direction(s, dx, dy), g)
    BY <1>1, <1>4, <1>5, PlaneIs
  <2> QED
    BY <1>6, <2>1 DEF Laid
<1> QED
  BY <1>1, <1>3, <1>7, InnerInside DEF Exact

LEMMA RefinedGreenExact ==
  ASSUME NEW s, NEW k, Scene(s, k), NEW first, NEW gh, NEW gv,
         Exact(s, k, first, 2, 2), Exact(s, k, gh, 2, 2), Exact(s, k, gv, 2, 2)
  PROVE  Exact(s, k, RefinedGreen(s, first, gh, gv), 2, 2)
<1> DEFINE Choice(i, hh, vh) ==
             IF hh > vh + 1 THEN gh[i]
             ELSE IF vh > hh + 1 THEN gv[i]
             ELSE Weighted(gh[i], hh + 1, gv[i], vh + 1)
           At(x, y) == IF GreenAt(s, x, y) \/ x \notin 3 .. s.w - 4 \/ y \notin 3 .. s.h - 4
                       THEN first[Index(s, x, y)]
                       ELSE Most(0, Choice(Index(s, x, y), Homogeneous(s, gh, gv, x, y),
                                           Homogeneous(s, gv, gh, x, y)))
           f == [i \in 1 .. s.w * s.h |-> At((i - 1) % s.w, (i - 1) \div s.w)]
           g == [p \in (0 .. s.w - 1) \X (0 .. s.h - 1) |-> At(p[1], p[2])]
<1>1. Sized(s) /\ s.w \in Nat /\ s.h \in Nat
  BY SizeType DEF Scene
<1>2. ASSUME NEW x \in 0 .. s.w - 1, NEW y \in 0 .. s.h - 1, NEW hh \in Nat, NEW vh \in Nat
      PROVE  /\ Weighted(gh[Index(s, x, y)], hh + 1, gv[Index(s, x, y)], vh + 1) \in Int
             /\ gh[Index(s, x, y)] \in Int /\ gv[Index(s, x, y)] \in Int /\ first[Index(s, x, y)] \in Int
  <2> DEFINE a == gh[Index(s, x, y)]
             b == gv[Index(s, x, y)]
  <2>1. a \in Int /\ b \in Int /\ first[Index(s, x, y)] \in Int
    BY <1>1, WholeAt DEF Exact
  <2>2. hh + 1 \in Nat /\ vh + 1 \in Nat
    OBVIOUS
  <2> HIDE DEF a, b
  <2>3. Weighted(a, hh + 1, b, vh + 1) \in Int
    BY <2>1, <2>2, WeightedType
  <2> QED
    BY <2>1, <2>3 DEF a, b
<1>3. ASSUME NEW x \in 0 .. s.w - 1, NEW y \in 0 .. s.h - 1 PROVE At(x, y) \in Int
  <2> DEFINE j == Index(s, x, y)
             hh == Homogeneous(s, gh, gv, x, y)
             vh == Homogeneous(s, gv, gh, x, y)
  <2>1. hh \in Nat /\ vh \in Nat
    <3>1. x \in Int /\ y \in Int
      BY <1>1
    <3> QED
      BY <3>1, HomogeneousType
  <2>2. Choice(j, hh, vh) \in Int
    <3>1. Choice(j, hh, vh) \in {gh[j], gv[j], Weighted(gh[j], hh + 1, gv[j], vh + 1)}
      OBVIOUS
    <3> HIDE DEF hh, vh, Choice
    <3> QED
      BY <1>2, <2>1, <3>1
  <2>3. Most(0, Choice(j, hh, vh)) \in Int
    <3> HIDE DEF Choice, j, hh, vh
    <3> QED
      BY <2>2 DEF Most
  <2>4. At(x, y) \in {first[j], Most(0, Choice(j, hh, vh))}
    OBVIOUS
  <2>5. first[j] \in Int
    BY <1>2, <2>1
  <2> HIDE DEF At, Choice, j, hh, vh
  <2> QED
    BY <2>3, <2>4, <2>5
<1>4. ASSUME NEW x, NEW y, Inner(s, 2, x, y) PROVE At(x, y) = Sub * Tone(k, 2, x, y)
  <2> DEFINE j == Index(s, x, y)
             hh == Homogeneous(s, gh, gv, x, y)
             vh == Homogeneous(s, gv, gh, x, y)
             c == Sub * Tone(k, 2, x, y)
  <2>1. x \in 0 .. s.w - 1 /\ y \in 0 .. s.h - 1 /\ x \in Int /\ y \in Int
    BY <1>1, <1>4, InnerInside
  <2>2. first[j] = c /\ gh[j] = c /\ gv[j] = c
    BY <1>4 DEF Exact
  <2>3. hh \in Nat /\ vh \in Nat /\ c \in Nat
    BY <2>1, HomogeneousType, LevelIs
  <2>4. At(x, y) \in {first[j], Most(0, Choice(j, hh, vh))}
    OBVIOUS
  <2>5. Most(0, Choice(j, hh, vh)) = c
    <3> HIDE DEF j, hh, vh, c
    <3>1. hh + 1 \in Nat /\ vh + 1 \in Nat
      BY <2>3
    <3>2. Weighted(c, hh + 1, c, vh + 1) = c /\ Most(0, c) = c
      BY <2>3, <3>1, WeightedSame DEF Most
    <3> QED
      BY <2>2, <3>2
  <2> HIDE DEF At, Choice, j, hh, vh
  <2> QED
    BY <2>2, <2>4, <2>5
<1>5. Fills(s, f, g)
  <2> HIDE DEF At
  <2> QED
    BY <1>1, <1>3, EntryPosition DEF Fills
<1>6. RefinedGreen(s, first, gh, gv) = SubSeq(f, 1, s.w * s.h)
  BY DEF RefinedGreen, Plane
<1>7. \A x \in 0 .. s.w - 1, y \in 0 .. s.h - 1 : g[<<x, y>>] = At(x, y)
  <2> HIDE DEF At
  <2> QED
    OBVIOUS
<1> HIDE DEF f, g, At
<1>8. /\ Whole(s, RefinedGreen(s, first, gh, gv))
      /\ \A x \in 0 .. s.w - 1, y \in 0 .. s.h - 1 : (RefinedGreen(s, first, gh, gv))[Index(s, x, y)] = At(x, y)
  <2>1. Whole(s, RefinedGreen(s, first, gh, gv)) /\ Laid(s, RefinedGreen(s, first, gh, gv), g)
    BY <1>1, <1>5, <1>6, PlaneIs
  <2> QED
    BY <1>7, <2>1 DEF Laid
<1> QED
  BY <1>1, <1>4, <1>8, InnerInside DEF Exact

-----------------------------------------------------------------------------
(* Red and blue of a scene by their difference from green.                  *)

LEMMA SumType ==
  ASSUME NEW D, IsFiniteSet(D), NEW g \in [D -> Int]
  PROVE  SumFunction(g) \in Int
<1>1. DOMAIN g = D /\ \A p \in D : g[p] = 1 * g[p]
  OBVIOUS
<1> QED
  BY <1>1, SumScales

LEMMA MeanAroundType ==
  ASSUME NEW s, Sized(s), NEW x \in 0 .. s.w - 1, NEW y \in 0 .. s.h - 1, NEW color,
         NEW none \in Int, NEW plane, Whole(s, plane)
  PROVE  MeanAround(s, plane, x, y, color, none) \in Int
<1> DEFINE sites == Around(s, x, y, 1, color)
           f == [p \in sites |-> plane[Index(s, p[1], p[2])]]
<1>1. /\ IsFiniteSet(sites)
      /\ \A p \in sites : p[1] \in 0 .. s.w - 1 /\ p[2] \in 0 .. s.h - 1
  BY AroundInside
<1>2. f \in [sites -> Int]
  <2> HIDE DEF sites
  <2> QED
    BY <1>1, WholeAt
<1>3. MeanAround(s, plane, x, y, color, none) =
        IF sites = {} THEN none ELSE SumFunction(f) \div Cardinality(sites)
  BY DEF MeanAround
<1> HIDE DEF sites, f
<1>4. SumFunction(f) \in Int
  BY <1>1, <1>2, SumType
<1>5. CASE sites = {}
  BY <1>3, <1>5
<1>6. CASE sites # {}
  <2>1. Cardinality(sites) \in Nat \ {0}
    BY <1>1, <1>6, FS_CardinalityType, FS_EmptySet
  <2> DEFINE a == SumFunction(f)
             b == Cardinality(sites)
  <2>2. a \in Int /\ b \in Nat \ {0}
    BY <1>4, <2>1
  <2> HIDE DEF a, b
  <2>3. a \div b \in Int
    BY <2>2
  <2> QED
    BY <1>3, <1>6, <2>3 DEF a, b
<1> QED
  BY <1>5, <1>6

(* What the shades of two colours differ by.                                *)
Offset(k, c) == Sub * (k.shade[c] - k.shade[2])

LEMMA OffsetIs ==
  ASSUME NEW k, Shades(k), NEW c \in 1 .. 3, NEW x \in Int, NEW y \in Int
  PROVE  /\ Offset(k, c) \in Int
         /\ (Sub * Tone(k, c, x, y)) - (Sub * Tone(k, 2, x, y)) = Offset(k, c)
         /\ (Sub * Tone(k, 2, x, y)) + Offset(k, c) = Sub * Tone(k, c, x, y)
<1> DEFINE a == Tone(k, c, x, y)
           b == Tone(k, 2, x, y)
           d == k.shade[c] - k.shade[2]
<1>1. a \in Int /\ b \in Int
  BY ToneType
<1>2. d \in Int
  <2>1. k.shade[c] \in Nat /\ k.shade[2] \in Nat
    BY DEF Shades
  <2> QED
    BY <2>1
<1>3. a = b + d
  BY ToneDiffers
<1> HIDE DEF a, b, d
<1>4. Sub * d \in Int /\ (Sub * a) - (Sub * b) = Sub * d /\ (Sub * b) + (Sub * d) = Sub * a
  <2> DEFINE u == Sub * b
             v == Sub * d
  <2>1. Sub * (b + d) = u + v /\ u \in Int /\ v \in Int
    BY <1>1, <1>2, QuarterIs
  <2> HIDE DEF u, v
  <2>2. (u + v) - u = v
    BY <2>1
  <2> QED
    BY <1>3, <2>1, <2>2 DEF u, v
<1> QED
  BY <1>4 DEF a, b, d, Offset

LEMMA DifferenceExact ==
  ASSUME NEW s, NEW k, Scene(s, k), NEW m \in Nat, NEW green, Exact(s, k, green, 2, m), NEW color
  PROVE  /\ Whole(s, Difference(s, green, color))
         /\ \A x, y : Inner(s, m, x, y) /\ fc(s, x, y) = color =>
               Difference(s, green, color)[Index(s, x, y)] = Offset(k, Hue(color))
<1> DEFINE At(x, y) == IF fc(s, x, y) = color
                       THEN (Sub * get(s, x, y)) - green[Index(s, x, y)] ELSE 0
           f == [i \in 1 .. s.w * s.h |-> At((i - 1) % s.w, (i - 1) \div s.w)]
           g == [p \in (0 .. s.w - 1) \X (0 .. s.h - 1) |-> At(p[1], p[2])]
<1>1. Sized(s) /\ Shades(k) /\ s.w \in Nat /\ s.h \in Nat
  BY SizeType DEF Scene
<1>2. ASSUME NEW x \in 0 .. s.w - 1, NEW y \in 0 .. s.h - 1 PROVE At(x, y) \in Int
  <2> DEFINE a == get(s, x, y)
             b == green[Index(s, x, y)]
  <2>1. a \in Int
    <3>1. x \in Int /\ y \in Int
      BY <1>1
    <3> QED
      BY <3>1, GetType
  <2>2. b \in Int
    BY <1>1, WholeAt DEF Exact
  <2>3. At(x, y) \in {(Sub * a) - b, 0}
    OBVIOUS
  <2> HIDE DEF a, b, At
  <2>4. (Sub * a) - b \in Int
    BY <2>1, <2>2, QuarterIs
  <2> QED
    BY <2>3, <2>4
<1>3. ASSUME NEW x, NEW y, Inner(s, m, x, y), fc(s, x, y) = color
      PROVE  At(x, y) = Offset(k, Hue(color))
  <2>1. x \in 0 .. s.w - 1 /\ y \in 0 .. s.h - 1 /\ x \in Int /\ y \in Int
    BY <1>1, <1>3, InnerInside
  <2>2. get(s, x, y) = Tone(k, Hue(color), x, y)
    BY <1>3, <2>1, GetScene
  <2>3. green[Index(s, x, y)] = Sub * Tone(k, 2, x, y)
    BY <1>3 DEF Exact
  <2>4. (Sub * Tone(k, Hue(color), x, y)) - (Sub * Tone(k, 2, x, y)) = Offset(k, Hue(color))
    BY <1>1, <2>1, HueType, OffsetIs
  <2> QED
    BY <1>3, <2>2, <2>3, <2>4
<1>4. Fills(s, f, g)
  <2> HIDE DEF At
  <2> QED
    BY <1>1, <1>2, EntryPosition DEF Fills
<1>5. Difference(s, green, color) = SubSeq(f, 1, s.w * s.h)
  BY DEF Difference, Plane
<1>6. \A x \in 0 .. s.w - 1, y \in 0 .. s.h - 1 : g[<<x, y>>] = At(x, y)
  <2> HIDE DEF At
  <2> QED
    OBVIOUS
<1> HIDE DEF f, g, At
<1>7. /\ Whole(s, Difference(s, green, color))
      /\ \A x \in 0 .. s.w - 1, y \in 0 .. s.h - 1 : (Difference(s, green, color))[Index(s, x, y)] = At(x, y)
  <2>1. Whole(s, Difference(s, green, color)) /\ Laid(s, Difference(s, green, color), g)
    BY <1>1, <1>4, <1>5, PlaneIs
  <2> QED
    BY <1>6, <2>1 DEF Laid
<1> QED
  BY <1>1, <1>3, <1>7, InnerInside

LEMMA ByDifferenceExact ==
  ASSUME NEW s, NEW k, Scene(s, k), Checkered(s), NEW green, Exact(s, k, green, 2, 2),
         NEW color \in {0, 2}
  PROVE  Exact(s, k, ByDifference(s, green, Difference(s, green, color), color), Hue(color), 3)
<1> DEFINE plane == Difference(s, green, color)
           At(x, y) == IF fc(s, x, y) = color THEN Sub * get(s, x, y)
                       ELSE green[Index(s, x, y)] + MeanAround(s, plane, x, y, color, 0)
           f == [i \in 1 .. s.w * s.h |-> At((i - 1) % s.w, (i - 1) \div s.w)]
           g == [p \in (0 .. s.w - 1) \X (0 .. s.h - 1) |-> At(p[1], p[2])]
<1>1. Sized(s) /\ Shades(k) /\ s.w \in Nat /\ s.h \in Nat
  BY SizeType DEF Scene
<1>2. /\ Whole(s, plane)
      /\ \A x, y : Inner(s, 2, x, y) /\ fc(s, x, y) = color =>
            plane[Index(s, x, y)] = Offset(k, Hue(color))
  <2>1. 2 \in Nat
    OBVIOUS
  <2> QED
    BY <2>1, DifferenceExact
<1> HIDE DEF plane
<1>3. ASSUME NEW x \in 0 .. s.w - 1, NEW y \in 0 .. s.h - 1 PROVE At(x, y) \in Int
  <2> DEFINE a == get(s, x, y)
             b == green[Index(s, x, y)]
             d == MeanAround(s, plane, x, y, color, 0)
  <2>1. a \in Int
    <3>1. x \in Int /\ y \in Int
      BY <1>1
    <3> QED
      BY <3>1, GetType
  <2>2. b \in Int
    BY <1>1, WholeAt DEF Exact
  <2>3. d \in Int
    <3>1. 0 \in Int
      OBVIOUS
    <3> QED
      BY <1>1, <1>2, <3>1, MeanAroundType
  <2>4. At(x, y) \in {Sub * a, b + d}
    OBVIOUS
  <2> HIDE DEF a, b, d, At
  <2>5. Sub * a \in Int /\ b + d \in Int
    BY <2>1, <2>2, <2>3, QuarterIs
  <2> QED
    BY <2>4, <2>5
<1>4. ASSUME NEW x, NEW y, Inner(s, 3, x, y) PROVE At(x, y) = Sub * Tone(k, Hue(color), x, y)
  <2>1. /\ x \in 0 .. s.w - 1 /\ y \in 0 .. s.h - 1 /\ x \in Int /\ y \in Int
        /\ x \in 1 .. s.w - 2 /\ y \in 1 .. s.h - 2 /\ Inner(s, 2, x, y)
    BY <1>1, <1>4 DEF Inner
  <2>2. CASE fc(s, x, y) = color
    <3>1. get(s, x, y) = Tone(k, Hue(color), x, y)
      BY <2>1, <2>2, GetScene
    <3> QED
      BY <2>2, <3>1
  <2>3. CASE fc(s, x, y) # color
    <3> DEFINE c == Offset(k, Hue(color))
    <3>1. c \in Int
      <4>1. 0 \in Int
        OBVIOUS
      <4> QED
        BY <1>1, <4>1, HueType, OffsetIs
    <3>2. \A p \in Around(s, x, y, 1, color) : plane[Index(s, p[1], p[2])] = c
      <4> SUFFICES ASSUME NEW p \in Around(s, x, y, 1, color)
                   PROVE  plane[Index(s, p[1], p[2])] = c
        OBVIOUS
      <4>0. 1 \in Nat
        OBVIOUS
      <4>1. /\ p[1] \in 0 .. s.w - 1 /\ p[2] \in 0 .. s.h - 1
            /\ p[1] \in x - 1 .. x + 1 /\ p[2] \in y - 1 .. y + 1
            /\ fc(s, p[1], p[2]) = color
        BY <1>1, <2>1, <4>0, AroundInside
      <4>2. Inner(s, 2, p[1], p[2])
        <5> DEFINE i == p[1]
                   j == p[2]
        <5>1. i \in x - 1 .. x + 1 /\ j \in y - 1 .. y + 1
          BY <4>1
        <5> HIDE DEF i, j
        <5>2. i \in 2 .. s.w - 1 - 2 /\ j \in 2 .. s.h - 1 - 2
          BY <1>1, <1>4, <5>1 DEF Inner
        <5> QED
          BY <5>2 DEF Inner, i, j
      <4> QED
        BY <1>2, <4>1, <4>2
    <3>3. Around(s, x, y, 1, color) # {}
      BY <1>1, <2>1, SiteNear
    <3>4. MeanAround(s, plane, x, y, color, 0) = c
      BY <1>1, <2>1, <3>1, <3>2, <3>3, MeanAroundIs
    <3>5. green[Index(s, x, y)] = Sub * Tone(k, 2, x, y)
      BY <2>1 DEF Exact
    <3>6. (Sub * Tone(k, 2, x, y)) + c = Sub * Tone(k, Hue(color), x, y)
      BY <1>1, <2>1, HueType, OffsetIs
    <3> QED
      BY <2>3, <3>4, <3>5, <3>6
  <2> QED
    BY <2>2, <2>3
<1>5. Fills(s, f, g)
  <2> HIDE DEF At
  <2> QED
    BY <1>1, <1>3, EntryPosition DEF Fills
<1>6. ByDifference(s, green, plane, color) = SubSeq(f, 1, s.w * s.h)
  BY DEF ByDifference, Plane
<1>7. \A x \in 0 .. s.w - 1, y \in 0 .. s.h - 1 : g[<<x, y>>] = At(x, y)
  <2> HIDE DEF At
  <2> QED
    OBVIOUS
<1> HIDE DEF f, g, At
<1>8. /\ Whole(s, ByDifference(s, green, plane, color))
      /\ \A x \in 0 .. s.w - 1, y \in 0 .. s.h - 1 : (ByDifference(s, green, plane, color))[Index(s, x, y)] = At(x, y)
  <2>1. Whole(s, ByDifference(s, green, plane, color)) /\ Laid(s, ByDifference(s, green, plane, color), g)
    BY <1>1, <1>5, <1>6, PlaneIs
  <2> QED
    BY <1>7, <2>1 DEF Laid
<1>9. Exact(s, k, ByDifference(s, green, plane, color), Hue(color), 3)
  <2>1. 3 \in Nat
    OBVIOUS
  <2> QED
    BY <1>1, <1>4, <1>8, <2>1, InnerInside DEF Exact
<1> QED
  BY <1>9 DEF plane

LEMMA UnzippedExact ==
  ASSUME NEW s, NEW k, Scene(s, k), NEW c \in 1 .. 3, NEW green, Exact(s, k, green, 2, 2),
         NEW plane, Exact(s, k, plane, c, 3)
  PROVE  Exact(s, k, Unzipped(s, green, plane), c, 4)
<1> DEFINE D(x, y) == plane[Index(s, x, y)] - green[Index(s, x, y)]
           Smoothed(x, y, near, mean) ==
             IF 2 * Abs(D(x, y) - mean) > (3 * SumFunction([p \in near |-> Abs(D(p[1], p[2]) - mean)])) + (2 * Sub)
             THEN green[Index(s, x, y)] + mean ELSE plane[Index(s, x, y)]
           Cross(x, y) == {<<x - 1, y>>, <<x + 1, y>>, <<x, y - 1>>, <<x, y + 1>>}
           At(x, y) == IF x \notin 2 .. s.w - 3 \/ y \notin 2 .. s.h - 3 THEN plane[Index(s, x, y)]
                       ELSE Smoothed(x, y, Cross(x, y),
                                     SumFunction([p \in Cross(x, y) |-> D(p[1], p[2])]) \div 4)
           Sum(x, y) == SumFunction([p \in Cross(x, y) |-> D(p[1], p[2])])
           f == [i \in 1 .. s.w * s.h |-> At((i - 1) % s.w, (i - 1) \div s.w)]
           g == [p \in (0 .. s.w - 1) \X (0 .. s.h - 1) |-> At(p[1], p[2])]
<1>1. Sized(s) /\ Shades(k) /\ s.w \in Nat /\ s.h \in Nat
  BY SizeType DEF Scene
<1>2. ASSUME NEW x \in 0 .. s.w - 1, NEW y \in 0 .. s.h - 1
      PROVE  plane[Index(s, x, y)] \in Int /\ green[Index(s, x, y)] \in Int /\ D(x, y) \in Int
  <2>1. plane[Index(s, x, y)] \in Int /\ green[Index(s, x, y)] \in Int
    BY <1>1, WholeAt DEF Exact
  <2> QED
    BY <2>1
<1>3. ASSUME NEW x \in 2 .. s.w - 3, NEW y \in 2 .. s.h - 3
      PROVE  /\ IsFiniteSet(Cross(x, y)) /\ Cross(x, y) # {}
             /\ \A p \in Cross(x, y) : p[1] \in 0 .. s.w - 1 /\ p[2] \in 0 .. s.h - 1
             /\ Sum(x, y) \in Int
  <2> DEFINE C == Cross(x, y)
  <2>1. IsFiniteSet(C) /\ C # {}
    <3>1. C = {<<x - 1, y>>} \cup {<<x + 1, y>>} \cup {<<x, y - 1>>} \cup {<<x, y + 1>>}
      OBVIOUS
    <3>2. \A a : IsFiniteSet({a})
      BY FS_Singleton
    <3>3. IsFiniteSet({<<x - 1, y>>} \cup {<<x + 1, y>>} \cup {<<x, y - 1>>} \cup {<<x, y + 1>>})
      BY <3>2, FS_Union
    <3> QED
      BY <3>1, <3>3
  <2>2. \A p \in C : p[1] \in 0 .. s.w - 1 /\ p[2] \in 0 .. s.h - 1
    BY <1>1
  <2> DEFINE e == [p \in C |-> D(p[1], p[2])]
  <2>3. e \in [C -> Int]
    <3> HIDE DEF C, D
    <3> QED
      BY <1>2, <2>2
  <2>4. SumFunction(e) \in Int
    <3> HIDE DEF C, e
    <3> QED
      BY <2>1, <2>3, SumType
  <2> QED
    BY <2>1, <2>2, <2>4
<1>4. ASSUME NEW x \in 0 .. s.w - 1, NEW y \in 0 .. s.h - 1 PROVE At(x, y) \in Int
  <2>1. CASE x \notin 2 .. s.w - 3 \/ y \notin 2 .. s.h - 3
    <3>1. At(x, y) = plane[Index(s, x, y)]
      BY <2>1
    <3> HIDE DEF At
    <3> QED
      BY <1>2, <3>1
  <2>2. CASE x \in 2 .. s.w - 3 /\ y \in 2 .. s.h - 3
    <3> DEFINE mean == Sum(x, y) \div 4
               a == green[Index(s, x, y)]
    <3>1. mean \in Int
      <4> DEFINE z == Sum(x, y)
      <4>1. z \in Int
        BY <1>3, <2>2
      <4> HIDE DEF z
      <4>2. z \div 4 \in Int
        BY <4>1
      <4> QED
        BY <4>2 DEF z
    <3>2. At(x, y) \in {a + mean, plane[Index(s, x, y)]}
      BY <2>2
    <3>3. a \in Int
      BY <1>2
    <3> HIDE DEF At, mean, a
    <3> QED
      BY <1>2, <3>1, <3>2, <3>3
  <2> QED
    BY <2>1, <2>2
<1>5. ASSUME NEW x, NEW y, Inner(s, 3, x, y) PROVE D(x, y) = Offset(k, c)
  <2>1. x \in Int /\ y \in Int /\ Inner(s, 2, x, y)
    BY <1>1, <1>5 DEF Inner
  <2>2. plane[Index(s, x, y)] = Sub * Tone(k, c, x, y)
    BY <1>5 DEF Exact
  <2>3. green[Index(s, x, y)] = Sub * Tone(k, 2, x, y)
    BY <2>1 DEF Exact
  <2> QED
    BY <1>1, <2>1, <2>2, <2>3, OffsetIs
<1>6. ASSUME NEW x, NEW y, Inner(s, 4, x, y) PROVE At(x, y) = Sub * Tone(k, c, x, y)
  <2>1. /\ x \in 2 .. s.w - 3 /\ y \in 2 .. s.h - 3 /\ Inner(s, 3, x, y)
        /\ x \in 0 .. s.w - 1 /\ y \in 0 .. s.h - 1
    BY <1>1, <1>6 DEF Inner
  <2> DEFINE C == Cross(x, y)
             mean == Sum(x, y) \div 4
             d == Offset(k, c)
             b == Abs(d - mean)
             e == [p \in C |-> Abs(D(p[1], p[2]) - mean)]
  <2>2. mean \in Int /\ d \in Int /\ b \in Nat
    <3> DEFINE z == Sum(x, y)
    <3>1. z \in Int
      BY <1>3, <2>1
    <3>2. d \in Int
      <4>1. 0 \in Int
        OBVIOUS
      <4> QED
        BY <1>1, <4>1, OffsetIs
    <3> HIDE DEF z, d
    <3>3. z \div 4 \in Int
      BY <3>1
    <3>4. mean = z \div 4
      BY DEF z
    <3>5. mean \in Int
      BY <3>3, <3>4
    <3> HIDE DEF mean
    <3>6. Abs(d - mean) \in Nat
      BY <3>2, <3>5 DEF Abs
    <3> QED
      BY <3>2, <3>5, <3>6
  <2>3. \A p \in C : D(p[1], p[2]) = d
    <3> SUFFICES ASSUME NEW p \in C PROVE D(p[1], p[2]) = d
      OBVIOUS
    <3>1. Inner(s, 3, p[1], p[2])
      <4>1. x \in 4 .. s.w - 5 /\ y \in 4 .. s.h - 5
        BY <1>1, <1>6 DEF Inner
      <4>2. p[1] \in x - 1 .. x + 1 /\ p[2] \in y - 1 .. y + 1
        BY <4>1
      <4> DEFINE i == p[1]
                 j == p[2]
      <4>3. i \in 3 .. s.w - 4 /\ j \in 3 .. s.h - 4
        <5>1. i \in x - 1 .. x + 1 /\ j \in y - 1 .. y + 1
          BY <4>2
        <5> HIDE DEF i, j
        <5> QED
          BY <1>1, <4>1, <5>1
      <4> QED
        BY <1>1, <4>3 DEF Inner
    <3> HIDE DEF C, D, d
    <3> QED
      BY <1>5, <3>1 DEF d
  <2>4. SumFunction(e) = b * Cardinality(C) /\ Cardinality(C) \in Nat \ {0}
    <3>1. IsFiniteSet(C) /\ C # {}
      BY <1>3, <2>1
    <3>2. DOMAIN e = C /\ \A p \in C : e[p] = b
      <4> HIDE DEF C, D, d, mean
      <4> QED
        BY <2>3
    <3> HIDE DEF e, C, b
    <3> QED
      BY <2>2, <3>1, <3>2, MeanOfEquals
  <2>5. D(x, y) = d
    BY <1>5, <2>1
  <2>6. At(x, y) = IF 2 * Abs(D(x, y) - mean) > (3 * SumFunction(e)) + (2 * Sub)
                   THEN green[Index(s, x, y)] + mean ELSE plane[Index(s, x, y)]
    BY <2>1
  <2>7. ~(2 * b > (3 * SumFunction(e)) + (2 * Sub))
    <3> DEFINE n == Cardinality(C)
               z == SumFunction(e)
    <3>1. n \in Nat \ {0} /\ z = b * n
      BY <2>4
    <3> HIDE DEF n, z, b
    <3>2. z \in Nat /\ z >= b
      <4>1. b * n >= b * 1 /\ b * n \in Nat
        BY <2>2, <3>1
      <4> QED
        BY <2>2, <3>1, <4>1
    <3>3. ~(2 * b > (3 * z) + (2 * Sub))
      BY <2>2, <3>2, QuarterIs
    <3> QED
      BY <3>3 DEF z
  <2>8. plane[Index(s, x, y)] = Sub * Tone(k, c, x, y)
    BY <2>1 DEF Exact
  <2> HIDE DEF At, D, e
  <2> QED
    BY <2>5, <2>6, <2>7, <2>8
<1>7. Fills(s, f, g)
  <2> HIDE DEF At
  <2> QED
    BY <1>1, <1>4, EntryPosition DEF Fills
<1>8. Unzipped(s, green, plane) = SubSeq(f, 1, s.w * s.h)
  BY DEF Unzipped, Plane
<1>9. \A x \in 0 .. s.w - 1, y \in 0 .. s.h - 1 : g[<<x, y>>] = At(x, y)
  <2> HIDE DEF At
  <2> QED
    OBVIOUS
<1> HIDE DEF f, g, At
<1>10. /\ Whole(s, Unzipped(s, green, plane))
      /\ \A x \in 0 .. s.w - 1, y \in 0 .. s.h - 1 : (Unzipped(s, green, plane))[Index(s, x, y)] = At(x, y)
  <2>1. Whole(s, Unzipped(s, green, plane)) /\ Laid(s, Unzipped(s, green, plane), g)
    BY <1>1, <1>7, <1>8, PlaneIs
  <2> QED
    BY <1>9, <2>1 DEF Laid
<1>11. 4 \in Nat
  OBVIOUS
<1> QED
  BY <1>1, <1>6, <1>10, <1>11, InnerInside DEF Exact

-----------------------------------------------------------------------------
(* The picture: four positions or more from the borders its samples are the *)
(* colours of the scene.                                                    *)

Pictured(s, k, data) ==
  /\ data \in Seq(Nat) /\ Len(data) = 3 * s.w * s.h
  /\ \A x, y : Inner(s, 4, x, y) =>
        \A c \in 1 .. 3 : data[(3 * ((y * s.w) + x)) + c] = Tone(k, c, x, y)

(* Entry 3 q + c of a picture is the colour c of the position q.            *)
LEMMA SampleOf ==
  ASSUME NEW w \in Nat, NEW h \in Nat, NEW x \in 0 .. w - 1, NEW y \in 0 .. h - 1, NEW c \in 1 .. 3
  PROVE  /\ (3 * ((y * w) + x)) + c \in 1 .. 3 * w * h
         /\ ((((3 * ((y * w) + x)) + c) - 1) \div 3) + 1 = (y * w) + x + 1
         /\ (((3 * ((y * w) + x)) + c) % 3) = (c % 3)
<1> DEFINE q == (y * w) + x
           n == w * h
<1>1. q \in Nat /\ n \in Nat /\ q + 1 \in 1 .. n
  BY IndexInside
<1>2. 3 * w * h = 3 * n
  OBVIOUS
<1> HIDE DEF q, n
<1>3. /\ (3 * q) + c \in 1 .. 3 * n
      /\ ((((3 * q) + c) - 1) \div 3) + 1 = q + 1
      /\ (((3 * q) + c) % 3) = (c % 3)
  BY <1>1
<1>4. q + 1 = (y * w) + x + 1
  BY <1>1 DEF q
<1> QED
  BY <1>2, <1>3, <1>4 DEF q

LEMMA CutType ==
  ASSUME NEW v \in Int, NEW white \in Nat
  PROVE  Rounded(v, white) \in Nat /\ Truncated(v, white) \in Nat
<1>1. Rounded(v, white) \in Nat
  <2>1. (v + (Sub \div 2)) \div Sub \in Int
    BY QuarterIs
  <2> QED
    BY <2>1 DEF Rounded, Clamped, Most, Least
<1>2. Truncated(v, white) \in Nat
  <2> DEFINE a == Clamped(v, 0, white * Sub)
  <2>1. a \in Nat
    <3>1. white * Sub \in Nat
      BY QuarterIs
    <3> QED
      BY <3>1 DEF Clamped, Most, Least
  <2> HIDE DEF a
  <2>2. a \div Sub \in Nat
    BY <2>1, QuarterIs
  <2> QED
    BY <2>2 DEF a, Truncated
<1> QED
  BY <1>1, <1>2

(* A plane that is rounded to the colour c of the scene.                    *)
RoundsTo(s, k, plane, c) ==
  /\ Whole(s, plane)
  /\ \A x, y : Inner(s, 4, x, y) => Rounded(plane[Index(s, x, y)], s.white) = Tone(k, c, x, y)

LEMMA ExactRoundsTo ==
  ASSUME NEW s, NEW k, Scene(s, k), NEW m \in 0 .. 4, NEW c \in 1 .. 3, NEW plane, Exact(s, k, plane, c, m)
  PROVE  RoundsTo(s, k, plane, c)
<1>1. Sized(s) /\ s.white \in Nat /\ s.w \in Nat /\ s.h \in Nat
  BY SizeType DEF Scene, Sized
<1>2. ASSUME NEW x, NEW y, Inner(s, 4, x, y)
      PROVE  Rounded(plane[Index(s, x, y)], s.white) = Tone(k, c, x, y)
  <2>1. Inner(s, m, x, y) /\ x \in 0 .. s.w - 1 /\ y \in 0 .. s.h - 1
    BY <1>1, <1>2 DEF Inner
  <2>2. Tone(k, c, x, y) \in 0 .. s.white
    BY <2>1, LevelIs
  <2> QED
    BY <1>1, <2>1, <2>2, RoundedBack DEF Exact
<1> QED
  BY <1>2 DEF Exact, RoundsTo

LEMMA InterleavedRounded ==
  ASSUME NEW s, NEW k, Scene(s, k), NEW red, NEW green, NEW blue,
         RoundsTo(s, k, red, 1), RoundsTo(s, k, green, 2), RoundsTo(s, k, blue, 3)
  PROVE  Pictured(s, k, Interleaved(s, Rounded, red, green, blue))
<1> DEFINE n == 3 * s.w * s.h
           P(i) == ((i - 1) \div 3) + 1
           R(i) == CASE i % 3 = 1 -> Rounded(red[P(i)], s.white)
                     [] i % 3 = 2 -> Rounded(green[P(i)], s.white)
                     [] i % 3 = 0 -> Rounded(blue[P(i)], s.white)
           f == [i \in 1 .. n |-> R(i)]
           data == SubSeq(f, 1, n)
<1>1. Sized(s) /\ s.w \in Nat /\ s.h \in Nat /\ n \in Nat /\ s.white \in Nat
  BY SizeType DEF Scene, Sized
<1>2. ASSUME NEW i \in 1 .. n PROVE R(i) \in Nat
  <2>1. P(i) \in 1 .. s.w * s.h /\ (i % 3) \in {0, 1, 2}
    BY <1>1, PixelOf
  <2>2. red[P(i)] \in Int /\ green[P(i)] \in Int /\ blue[P(i)] \in Int
    BY <2>1 DEF RoundsTo, Whole
  <2> HIDE DEF P
  <2>3. /\ Rounded(red[P(i)], s.white) \in Nat /\ Rounded(green[P(i)], s.white) \in Nat
        /\ Rounded(blue[P(i)], s.white) \in Nat
    BY <1>1, <2>2, CutType
  <2> QED
    BY <2>1, <2>3
<1>3. f \in [1 .. n -> Nat]
  <2> HIDE DEF R
  <2> QED
    BY <1>2
<1>4. data \in Seq(Nat) /\ Len(data) = n /\ \A i \in 1 .. n : data[i] = f[i]
  <2> HIDE DEF f, n
  <2> QED
    BY <1>1, <1>3
<1>5. ASSUME NEW x, NEW y, Inner(s, 4, x, y), NEW c \in 1 .. 3
      PROVE  data[(3 * ((y * s.w) + x)) + c] = Tone(k, c, x, y)
  <2> DEFINE j == (3 * ((y * s.w) + x)) + c
  <2>1. x \in 0 .. s.w - 1 /\ y \in 0 .. s.h - 1
    <3>1. 4 \in Nat
      OBVIOUS
    <3> QED
      BY <1>1, <1>5, <3>1, InnerInside
  <2>2. j \in 1 .. n /\ P(j) = (y * s.w) + x + 1 /\ (j % 3) = (c % 3)
    BY <1>1, <2>1, SampleOf
  <2>3. P(j) = Index(s, x, y)
    BY <2>2 DEF Index
  <2> HIDE DEF P, j, n
  <2>4. data[j] = R(j)
    BY <1>4, <2>2
  <2>5. R(j) = IF c = 1 THEN Rounded(red[P(j)], s.white)
               ELSE IF c = 2 THEN Rounded(green[P(j)], s.white) ELSE Rounded(blue[P(j)], s.white)
    BY <2>2
  <2> HIDE DEF R, data
  <2>6. data[j] = Tone(k, c, x, y)
    BY <1>5, <2>3, <2>4, <2>5 DEF RoundsTo
  <2> QED
    BY <2>6 DEF j
<1>6. Interleaved(s, Rounded, red, green, blue) = data
  BY DEF Interleaved
<1> HIDE DEF data
<1> QED
  BY <1>4, <1>5, <1>6 DEF Pictured

(* A plane that is cut off to the colour c of the scene.                    *)
TruncatesTo(s, k, plane, c) ==
  /\ Whole(s, plane)
  /\ \A x, y : Inner(s, 4, x, y) => Truncated(plane[Index(s, x, y)], s.white) = Tone(k, c, x, y)

LEMMA ExactTruncatesTo ==
  ASSUME NEW s, NEW k, Scene(s, k), NEW m \in 0 .. 4, NEW c \in 1 .. 3, NEW plane, Exact(s, k, plane, c, m)
  PROVE  TruncatesTo(s, k, plane, c)
<1>1. Sized(s) /\ s.white \in Nat /\ s.w \in Nat /\ s.h \in Nat
  BY SizeType DEF Scene, Sized
<1>2. ASSUME NEW x, NEW y, Inner(s, 4, x, y)
      PROVE  Truncated(plane[Index(s, x, y)], s.white) = Tone(k, c, x, y)
  <2>1. Inner(s, m, x, y) /\ x \in 0 .. s.w - 1 /\ y \in 0 .. s.h - 1
    BY <1>1, <1>2 DEF Inner
  <2>2. Tone(k, c, x, y) \in 0 .. s.white
    BY <2>1, LevelIs
  <2> QED
    BY <1>1, <2>1, <2>2, RoundedBack DEF Exact
<1> QED
  BY <1>2 DEF Exact, TruncatesTo

LEMMA InterleavedTruncated ==
  ASSUME NEW s, NEW k, Scene(s, k), NEW red, NEW green, NEW blue,
         TruncatesTo(s, k, red, 1), TruncatesTo(s, k, green, 2), TruncatesTo(s, k, blue, 3)
  PROVE  Pictured(s, k, Interleaved(s, Truncated, red, green, blue))
<1> DEFINE n == 3 * s.w * s.h
           P(i) == ((i - 1) \div 3) + 1
           R(i) == CASE i % 3 = 1 -> Truncated(red[P(i)], s.white)
                     [] i % 3 = 2 -> Truncated(green[P(i)], s.white)
                     [] i % 3 = 0 -> Truncated(blue[P(i)], s.white)
           f == [i \in 1 .. n |-> R(i)]
           data == SubSeq(f, 1, n)
<1>1. Sized(s) /\ s.w \in Nat /\ s.h \in Nat /\ n \in Nat /\ s.white \in Nat
  BY SizeType DEF Scene, Sized
<1>2. ASSUME NEW i \in 1 .. n PROVE R(i) \in Nat
  <2>1. P(i) \in 1 .. s.w * s.h /\ (i % 3) \in {0, 1, 2}
    BY <1>1, PixelOf
  <2>2. red[P(i)] \in Int /\ green[P(i)] \in Int /\ blue[P(i)] \in Int
    BY <2>1 DEF TruncatesTo, Whole
  <2> HIDE DEF P
  <2>3. /\ Truncated(red[P(i)], s.white) \in Nat /\ Truncated(green[P(i)], s.white) \in Nat
        /\ Truncated(blue[P(i)], s.white) \in Nat
    BY <1>1, <2>2, CutType
  <2> QED
    BY <2>1, <2>3
<1>3. f \in [1 .. n -> Nat]
  <2> HIDE DEF R
  <2> QED
    BY <1>2
<1>4. data \in Seq(Nat) /\ Len(data) = n /\ \A i \in 1 .. n : data[i] = f[i]
  <2> HIDE DEF f, n
  <2> QED
    BY <1>1, <1>3
<1>5. ASSUME NEW x, NEW y, Inner(s, 4, x, y), NEW c \in 1 .. 3
      PROVE  data[(3 * ((y * s.w) + x)) + c] = Tone(k, c, x, y)
  <2> DEFINE j == (3 * ((y * s.w) + x)) + c
  <2>1. x \in 0 .. s.w - 1 /\ y \in 0 .. s.h - 1
    <3>1. 4 \in Nat
      OBVIOUS
    <3> QED
      BY <1>1, <1>5, <3>1, InnerInside
  <2>2. j \in 1 .. n /\ P(j) = (y * s.w) + x + 1 /\ (j % 3) = (c % 3)
    BY <1>1, <2>1, SampleOf
  <2>3. P(j) = Index(s, x, y)
    BY <2>2 DEF Index
  <2> HIDE DEF P, j, n
  <2>4. data[j] = R(j)
    BY <1>4, <2>2
  <2>5. R(j) = IF c = 1 THEN Truncated(red[P(j)], s.white)
               ELSE IF c = 2 THEN Truncated(green[P(j)], s.white) ELSE Truncated(blue[P(j)], s.white)
    BY <2>2
  <2> HIDE DEF R, data
  <2>6. data[j] = Tone(k, c, x, y)
    BY <1>5, <2>3, <2>4, <2>5 DEF TruncatesTo
  <2> QED
    BY <2>6 DEF j
<1>6. Interleaved(s, Truncated, red, green, blue) = data
  BY DEF Interleaved
<1> HIDE DEF data
<1> QED
  BY <1>4, <1>5, <1>6 DEF Pictured

(* AMaZE, of a Bayer view of a scene.                                       *)
LEMMA AmazeExact ==
  ASSUME NEW s, NEW k, Scene(s, k), Checkered(s)
  PROVE  Pictured(s, k, AmazeOf(s))
<1> DEFINE gh == Direction(s, 1, 0)
           gv == Direction(s, 0, 1)
           green == RefinedGreen(s, AdaptiveGreen(s), gh, gv)
           Colour(c) == Unzipped(s, green, ByDifference(s, green, Difference(s, green, c), c))
<1>1. Exact(s, k, gh, 2, 2) /\ Exact(s, k, gv, 2, 2)
  <2>1. 0 \in {0, 1} /\ 1 \in {0, 1} /\ 1 + 0 = 1 /\ 0 + 1 = 1
    OBVIOUS
  <2> QED
    BY <2>1, DirectionExact
<1>2. Exact(s, k, green, 2, 2)
  <2> HIDE DEF gh, gv
  <2> QED
    BY <1>1, AdaptiveGreenExact, RefinedGreenExact
<1>3. AmazeOf(s) = Interleaved(s, Rounded, Colour(0), green, Colour(2))
  BY DEF AmazeOf, AmazeColours
<1> HIDE DEF green
<1>4. Exact(s, k, Colour(0), 1, 4) /\ Exact(s, k, Colour(2), 3, 4)
  <2>1. Hue(0) = 1 /\ Hue(2) = 3 /\ 1 \in 1 .. 3 /\ 3 \in 1 .. 3
    BY DEF Hue
  <2>2. /\ Exact(s, k, ByDifference(s, green, Difference(s, green, 0), 0), 1, 3)
        /\ Exact(s, k, ByDifference(s, green, Difference(s, green, 2), 2), 3, 3)
    BY <1>2, <2>1, ByDifferenceExact
  <2> QED
    BY <1>2, <2>1, <2>2, UnzippedExact
<1> HIDE DEF Colour
<1>5. 2 \in 0 .. 4 /\ 4 \in 0 .. 4 /\ 1 \in 1 .. 3 /\ 2 \in 1 .. 3 /\ 3 \in 1 .. 3
  OBVIOUS
<1>6. RoundsTo(s, k, Colour(0), 1) /\ RoundsTo(s, k, green, 2) /\ RoundsTo(s, k, Colour(2), 3)
  BY <1>2, <1>4, <1>5, ExactRoundsTo
<1> QED
  BY <1>3, <1>6, InterleavedRounded

-----------------------------------------------------------------------------
(* LMMSE's weights: a variance is not negative.                             *)

LEMMA SquareNat ==
  ASSUME NEW z \in Int
  PROVE  z * z \in Nat
<1>1. CASE z >= 0
  BY <1>1
<1>2. CASE z < 0
  <2>1. -z \in Nat /\ (-z) * (-z) = z * z
    BY <1>2
  <2> QED
    BY <2>1
<1> QED
  BY <1>1, <1>2

(* One more term r, where V is the sum of n terms and U that of their       *)
(* squares.                                                                 *)
LEMMA OneMoreSquare ==
  ASSUME NEW n \in Nat, NEW r \in Int, NEW U \in Int, NEW V \in Int, n * U >= V * V,
         n = 0 => U = 0 /\ V = 0
  PROVE  (n + 1) * ((r * r) + U) >= (r + V) * (r + V)
<1>1. CASE n = 0
  BY <1>1
<1>2. CASE n # 0
  <2> DEFINE e == ((n * (r * r)) + U) - (2 * (r * V))
             z == (n * r) - V
             d == (n * U) - (V * V)
  <2>1. e \in Int /\ z \in Int /\ d \in Nat
    <3> DEFINE a == n * (r * r)
               b == r * V
               i == n * U
               j == V * V
    <3>1. a \in Int /\ b \in Int /\ i \in Int /\ j \in Int /\ n * r \in Int /\ i >= j
      OBVIOUS
    <3> HIDE DEF a, b, i, j
    <3> QED
      BY <3>1 DEF a, b, i, j
  <2>2. n * e = (z * z) + d
    OBVIOUS
  <2>3. (n + 1) * ((r * r) + U) = (((r + V) * (r + V)) + e) + d
    OBVIOUS
  <2>4. (r + V) * (r + V) \in Int /\ z * z \in Nat
    BY <2>1, SquareNat
  <2> DEFINE q == (r + V) * (r + V)
             m == z * z
  <2> HIDE DEF e, z, d, q
  <2>5. e >= 0
    <3> HIDE DEF m
    <3>1. n * e >= 0
      BY <2>1, <2>2, <2>4 DEF m
    <3> SUFFICES ASSUME e <= -1 PROVE FALSE
      BY <2>1
    <3>2. n * e <= n * (-1)
      BY <2>1
    <3>3. n * (-1) < 0
      BY <1>2
    <3> DEFINE u == n * e
               w == n * (-1)
    <3>4. u \in Int /\ w \in Int /\ u >= 0 /\ u <= w /\ w < 0
      BY <2>1, <3>1, <3>2, <3>3
    <3> HIDE DEF u, w
    <3> QED
      BY <3>4
  <2>6. (q + e) + d >= q
    BY <2>1, <2>4, <2>5 DEF q
  <2> QED
    BY <2>3, <2>6 DEF q
<1> QED
  BY <1>1, <1>2

(* The square of a sum is at most the sum of the squares, as often as there *)
(* are terms.                                                               *)
LEMMA SumSquares ==
  ASSUME NEW D, IsFiniteSet(D), NEW f \in [D -> Int], NEW g, g = [p \in D |-> f[p] * f[p]]
  PROVE  /\ Cardinality(D) * SumFunction(g) >= SumFunction(f) * SumFunction(f)
         /\ SumFunction(f) \in Int /\ SumFunction(g) \in Int
<1>1. \A p \in D : f[p] \in Int /\ g[p] \in Int /\ g[p] = f[p] * f[p]
  OBVIOUS
<1>2. DOMAIN f = D /\ DOMAIN g = D
  OBVIOUS
<1>3. PICK t : Totals(t, f) /\ SumFunction(f) = t[D]
  BY <1>1, <1>2, SumUnfolds
<1>4. PICK u : Totals(u, g) /\ SumFunction(g) = u[D]
  BY <1>1, <1>2, SumUnfolds
<1>5. /\ t \in [SUBSET D -> Int] /\ u \in [SUBSET D -> Int] /\ t[{}] = 0 /\ u[{}] = 0
      /\ \A S \in SUBSET D : S # {} => t[S] = f[Picked(S)] + t[S \ {Picked(S)}]
      /\ \A S \in SUBSET D : S # {} => u[S] = g[Picked(S)] + u[S \ {Picked(S)}]
  BY <1>2, <1>3, <1>4 DEF Totals
<1> DEFINE Good == {n \in Nat : \A S \in SUBSET D : Cardinality(S) = n => n * u[S] >= t[S] * t[S]}
<1>6. \A S \in SUBSET D : /\ IsFiniteSet(S) /\ Cardinality(S) \in Nat
                          /\ Cardinality(S) = 0 => S = {}
  BY FS_Subset, FS_CardinalityType, FS_EmptySet
<1>7. 0 \in Good
  <2>1. \A S \in SUBSET D : Cardinality(S) = 0 => S = {}
    BY <1>6
  <2>2. 0 * 0 >= 0 * 0
    OBVIOUS
  <2> QED
    BY <2>1, <2>2, <1>5
<1>8. ASSUME NEW n \in Nat, n \in Good PROVE n + 1 \in Good
  <2> SUFFICES ASSUME NEW S \in SUBSET D, Cardinality(S) = n + 1
               PROVE  (n + 1) * u[S] >= t[S] * t[S]
    OBVIOUS
  <2> DEFINE p == Picked(S)
             T == S \ {p}
  <2>1. S # {} /\ IsFiniteSet(S)
    BY <1>6, FS_EmptySet
  <2>2. p \in S
    BY <2>1 DEF Picked
  <2>3. Cardinality(T) = n
    <3> HIDE DEF p
    <3>1. Cardinality(T) = Cardinality(S) - 1
      BY <2>1, <2>2, FS_RemoveElement
    <3> QED
      BY <3>1
  <2>4. n * u[T] >= t[T] * t[T] /\ T \in SUBSET D
    BY <2>2, <2>3, <1>8
  <2>5. t[S] = f[p] + t[T] /\ u[S] = (f[p] * f[p]) + u[T]
    BY <2>1, <2>2, <1>1, <1>5
  <2>6. f[p] \in Int /\ u[T] \in Int /\ t[T] \in Int
    BY <2>2, <2>4, <1>1, <1>5
  <2>7. n = 0 => u[T] = 0 /\ t[T] = 0
    <3>1. n = 0 => T = {}
      BY <2>3, <2>4, <1>6
    <3> HIDE DEF T
    <3> QED
      BY <3>1, <1>5
  <2> DEFINE r == f[p]
             U == u[T]
             V == t[T]
  <2> HIDE DEF p, T, r, U, V, Good
  <2>8. (n + 1) * ((r * r) + U) >= (r + V) * (r + V)
    BY <2>4, <2>6, <2>7, OneMoreSquare DEF r, U, V
  <2> QED
    BY <2>5, <2>8 DEF r, U, V
<1>9. \A n \in Nat : n \in Good
  <2> HIDE DEF Good
  <2> QED
    BY <1>7, <1>8, Induct
<1>10. Cardinality(D) * u[D] >= t[D] * t[D] /\ t[D] \in Int /\ u[D] \in Int
  BY <1>5, <1>6, <1>9
<1> QED
  BY <1>3, <1>4, <1>10

LEMMA VarianceType ==
  ASSUME NEW s, NEW k, Scene(s, k), NEW plane, Whole(s, plane), NEW x \in Int, NEW y \in Int
  PROVE  Variance(s, plane, x, y) \in Nat
<1> DEFINE Residue(d) == LET nx == Clamped(x + d[1], 0, s.w - 1)
                             ny == Clamped(y + d[2], 0, s.h - 1)
                         IN ((Sub * get(s, nx, ny)) - plane[Index(s, nx, ny)]) \div Quarter
           window == (-2 .. 2) \X (-2 .. 2)
           f == [d \in window |-> Residue(d)]
           e == [d \in window |-> Residue(d) * Residue(d)]
<1>1. Sized(s) /\ s.w - 1 \in Nat /\ s.h - 1 \in Nat
  BY SizeType DEF Scene, Sized
<1>2. ASSUME NEW d \in window PROVE Residue(d) \in Int
  <2> DEFINE nx == Clamped(x + d[1], 0, s.w - 1)
             ny == Clamped(y + d[2], 0, s.h - 1)
             a == get(s, nx, ny)
             b == plane[Index(s, nx, ny)]
  <2>1. x + d[1] \in Int /\ y + d[2] \in Int
    OBVIOUS
  <2>2. nx \in 0 .. s.w - 1 /\ ny \in 0 .. s.h - 1
    BY <1>1, <2>1, ClampedInside
  <2> HIDE DEF nx, ny
  <2>3. a \in Int /\ b \in Int
    <3>1. nx \in Int /\ ny \in Int
      BY <1>1, <2>2
    <3> QED
      BY <1>1, <2>2, <3>1, GetType, WholeAt
  <2>4. Residue(d) = ((Sub * a) - b) \div Quarter
    BY DEF nx, ny
  <2> HIDE DEF a, b, Residue
  <2>5. ((Sub * a) - b) \div Quarter \in Int
    <3> DEFINE i == (Sub * a) - b
    <3>1. i \in Int
      BY <2>3, QuarterIs
    <3> HIDE DEF i
    <3>2. i \div Quarter \in Int
      BY <3>1, QuarterIs
    <3> QED
      BY <3>2 DEF i
  <2> QED
    BY <2>4, <2>5
<1>3. IsFiniteSet(window) /\ Cardinality(window) = 25
  <2>1. IsFiniteSet(-2 .. 2) /\ Cardinality(-2 .. 2) = 5
    <3>1. -2 \in Int /\ 2 \in Int
      OBVIOUS
    <3>2. /\ IsFiniteSet(-2 .. 2)
          /\ Cardinality(-2 .. 2) = IF -2 > 2 THEN 0 ELSE (2 - (-2)) + 1
      BY <3>1, FS_Interval
    <3>3. (IF -2 > 2 THEN 0 ELSE (2 - (-2)) + 1) = 5
      OBVIOUS
    <3> QED
      BY <3>2, <3>3
  <2>2. 5 * 5 = 25
    OBVIOUS
  <2> QED
    BY <2>1, <2>2, FS_Product
<1>4. f \in [window -> Int] /\ e = [d \in window |-> f[d] * f[d]]
  <2> HIDE DEF Residue, window
  <2> QED
    BY <1>2
<1>5. Variance(s, plane, x, y) =
        ((25 * SumFunction(e)) - (SumFunction(f) * SumFunction(f))) \div 625
  BY DEF Variance
<1> HIDE DEF window, f, e
<1> DEFINE U == SumFunction(e)
           V == SumFunction(f)
<1>6. 25 * U >= V * V /\ U \in Int /\ V \in Int
  BY <1>3, <1>4, SumSquares
<1> HIDE DEF U, V
<1>7. ((25 * U) - (V * V)) \div 625 \in Nat
  <2> DEFINE i == V * V
  <2>1. i \in Int /\ 25 * U >= i
    BY <1>6
  <2> HIDE DEF i
  <2>2. ((25 * U) - i) \div 625 \in Nat
    BY <1>6, <2>1
  <2> QED
    BY <2>2 DEF i
<1> QED
  BY <1>5, <1>7 DEF U, V

LEMMA CutDirectionExact ==
  ASSUME NEW s, NEW k, Scene(s, k), Checkered(s), NEW dx \in {0, 1}, NEW dy \in {0, 1}, dx + dy = 1
  PROVE  Exact(s, k, CutDirection(s, dx, dy), 2, 2)
<1> DEFINE At(x, y) == IF GreenAt(s, x, y) THEN Sub * get(s, x, y)
                       ELSE Clamped(Directional(s, x, y, dx, dy), 0, Sub * s.white)
           f == [i \in 1 .. s.w * s.h |-> At((i - 1) % s.w, (i - 1) \div s.w)]
           g == [p \in (0 .. s.w - 1) \X (0 .. s.h - 1) |-> At(p[1], p[2])]
<1>1. Sized(s) /\ s.w \in Nat /\ s.h \in Nat /\ s.white \in Nat
  BY SizeType DEF Scene, Sized
<1>2. ASSUME NEW x \in 0 .. s.w - 1, NEW y \in 0 .. s.h - 1 PROVE At(x, y) \in Int
  <2> DEFINE a == get(s, x, y)
             b == Directional(s, x, y, dx, dy)
             w == s.white
  <2>1. x \in Int /\ y \in Int /\ dx \in Int /\ dy \in Int
    BY <1>1
  <2>2. a \in Int /\ b \in Int /\ w \in Nat
    BY <1>1, <2>1, GetType, DirectionalType
  <2>3. At(x, y) \in {Sub * a, Clamped(b, 0, Sub * w)}
    OBVIOUS
  <2> HIDE DEF a, b, w, At
  <2>4. Sub * a \in Int /\ Sub * w \in Nat
    BY <2>2, QuarterIs
  <2>5. Clamped(b, 0, Sub * w) \in Int
    BY <2>2, <2>4 DEF Clamped, Most, Least
  <2> QED
    BY <2>3, <2>4, <2>5
<1>3. ASSUME NEW x, NEW y, Inner(s, 2, x, y) PROVE At(x, y) = Sub * Tone(k, 2, x, y)
  <2>1. x \in 0 .. s.w - 1 /\ y \in 0 .. s.h - 1 /\ x \in Int /\ y \in Int
    BY <1>1, <1>3, InnerInside
  <2>2. CASE GreenAt(s, x, y)
    <3>1. get(s, x, y) = Tone(k, 2, x, y)
      BY <2>1, <2>2, GetScene DEF GreenAt, Hue
    <3> QED
      BY <2>2, <3>1
  <2>3. CASE ~GreenAt(s, x, y)
    <3>1. Directional(s, x, y, dx, dy) = Sub * Tone(k, 2, x, y)
      BY <1>3, DirectionalExact
    <3>2. Tone(k, 2, x, y) \in 0 .. s.white
      BY <2>1, LevelIs
    <3>3. Clamped(Sub * Tone(k, 2, x, y), 0, Sub * s.white) = Sub * Tone(k, 2, x, y)
      BY <1>1, <3>2, CutKeeps
    <3> QED
      BY <2>3, <3>1, <3>3
  <2> QED
    BY <2>2, <2>3
<1>4. Fills(s, f, g)
  <2> HIDE DEF At
  <2> QED
    BY <1>1, <1>2, EntryPosition DEF Fills
<1>5. CutDirection(s, dx, dy) = SubSeq(f, 1, s.w * s.h)
  BY DEF CutDirection, Plane
<1>6. \A x \in 0 .. s.w - 1, y \in 0 .. s.h - 1 : g[<<x, y>>] = At(x, y)
  <2> HIDE DEF At
  <2> QED
    OBVIOUS
<1> HIDE DEF f, g, At
<1>7. /\ Whole(s, CutDirection(s, dx, dy))
      /\ \A x \in 0 .. s.w - 1, y \in 0 .. s.h - 1 : (CutDirection(s, dx, dy))[Index(s, x, y)] = At(x, y)
  <2>1. Whole(s, CutDirection(s, dx, dy)) /\ Laid(s, CutDirection(s, dx, dy), g)
    BY <1>1, <1>4, <1>5, PlaneIs
  <2> QED
    BY <1>6, <2>1 DEF Laid
<1> QED
  BY <1>1, <1>3, <1>7, InnerInside DEF Exact

LEMMA LmmseGreenExact ==
  ASSUME NEW s, NEW k, Scene(s, k), NEW gh, NEW gv, Exact(s, k, gh, 2, 2), Exact(s, k, gv, 2, 2)
  PROVE  Exact(s, k, LmmseGreen(s, gh, gv), 2, 2)
<1> DEFINE At(x, y) == IF GreenAt(s, x, y) THEN gh[Index(s, x, y)]
                       ELSE Weighted(gh[Index(s, x, y)], Variance(s, gv, x, y),
                                     gv[Index(s, x, y)], Variance(s, gh, x, y))
           f == [i \in 1 .. s.w * s.h |-> At((i - 1) % s.w, (i - 1) \div s.w)]
           g == [p \in (0 .. s.w - 1) \X (0 .. s.h - 1) |-> At(p[1], p[2])]
<1>1. Sized(s) /\ s.w \in Nat /\ s.h \in Nat
  BY SizeType DEF Scene
<1>2. ASSUME NEW x \in 0 .. s.w - 1, NEW y \in 0 .. s.h - 1
      PROVE  Variance(s, gv, x, y) \in Nat /\ Variance(s, gh, x, y) \in Nat
  <2>1. x \in Int /\ y \in Int
    BY <1>1
  <2> QED
    BY <2>1, VarianceType DEF Exact
<1>3. ASSUME NEW x \in 0 .. s.w - 1, NEW y \in 0 .. s.h - 1 PROVE At(x, y) \in Int
  <2> DEFINE a == gh[Index(s, x, y)]
             b == gv[Index(s, x, y)]
             v == Variance(s, gv, x, y)
             u == Variance(s, gh, x, y)
  <2>1. a \in Int /\ b \in Int /\ v \in Nat /\ u \in Nat
    BY <1>1, <1>2, WholeAt DEF Exact
  <2>2. At(x, y) \in {a, Weighted(a, v, b, u)}
    OBVIOUS
  <2> HIDE DEF a, b, v, u, At
  <2> QED
    BY <2>1, <2>2, WeightedType
<1>4. ASSUME NEW x, NEW y, Inner(s, 2, x, y) PROVE At(x, y) = Sub * Tone(k, 2, x, y)
  <2> DEFINE a == Sub * Tone(k, 2, x, y)
             v == Variance(s, gv, x, y)
             u == Variance(s, gh, x, y)
  <2>1. x \in 0 .. s.w - 1 /\ y \in 0 .. s.h - 1
    BY <1>1, <1>4, InnerInside
  <2>2. gh[Index(s, x, y)] = a /\ gv[Index(s, x, y)] = a
    BY <1>4 DEF Exact
  <2>3. a \in Nat /\ v \in Nat /\ u \in Nat
    BY <1>2, <2>1, LevelIs
  <2>4. At(x, y) \in {a, Weighted(a, v, a, u)}
    BY <2>2
  <2> HIDE DEF a, v, u, At
  <2>5. At(x, y) = a
    BY <2>3, <2>4, WeightedSame
  <2> QED
    BY <2>5 DEF a
<1>5. Fills(s, f, g)
  <2> HIDE DEF At
  <2> QED
    BY <1>1, <1>3, EntryPosition DEF Fills
<1>6. LmmseGreen(s, gh, gv) = SubSeq(f, 1, s.w * s.h)
  BY DEF LmmseGreen, Plane
<1>7. \A x \in 0 .. s.w - 1, y \in 0 .. s.h - 1 : g[<<x, y>>] = At(x, y)
  <2> HIDE DEF At
  <2> QED
    OBVIOUS
<1> HIDE DEF f, g, At
<1>8. /\ Whole(s, LmmseGreen(s, gh, gv))
      /\ \A x \in 0 .. s.w - 1, y \in 0 .. s.h - 1 : (LmmseGreen(s, gh, gv))[Index(s, x, y)] = At(x, y)
  <2>1. Whole(s, LmmseGreen(s, gh, gv)) /\ Laid(s, LmmseGreen(s, gh, gv), g)
    BY <1>1, <1>5, <1>6, PlaneIs
  <2> QED
    BY <1>7, <2>1 DEF Laid
<1> QED
  BY <1>1, <1>4, <1>8, InnerInside DEF Exact

LEMMA CutToExact ==
  ASSUME NEW s, NEW k, Scene(s, k), NEW m \in Nat, NEW c \in 1 .. 3, NEW plane, Exact(s, k, plane, c, m)
  PROVE  Exact(s, k, CutTo(s, plane), c, m)
<1> DEFINE At(x, y) == Clamped(plane[Index(s, x, y)], 0, Sub * s.white)
           f == [i \in 1 .. s.w * s.h |-> At((i - 1) % s.w, (i - 1) \div s.w)]
           g == [p \in (0 .. s.w - 1) \X (0 .. s.h - 1) |-> At(p[1], p[2])]
<1>1. Sized(s) /\ s.w \in Nat /\ s.h \in Nat /\ s.white \in Nat
  BY SizeType DEF Scene, Sized
<1>2. ASSUME NEW x \in 0 .. s.w - 1, NEW y \in 0 .. s.h - 1 PROVE At(x, y) \in Int
  <2> DEFINE a == plane[Index(s, x, y)]
             w == s.white
  <2>1. a \in Int /\ w \in Nat
    BY <1>1, WholeAt DEF Exact
  <2> HIDE DEF a, w
  <2>2. Sub * w \in Nat
    BY <2>1, QuarterIs
  <2>3. Clamped(a, 0, Sub * w) \in Int
    BY <2>1, <2>2 DEF Clamped, Most, Least
  <2> QED
    BY <2>3 DEF a, w
<1>3. ASSUME NEW x, NEW y, Inner(s, m, x, y) PROVE At(x, y) = Sub * Tone(k, c, x, y)
  <2>1. x \in 0 .. s.w - 1 /\ y \in 0 .. s.h - 1
    BY <1>1, <1>3, InnerInside
  <2>2. plane[Index(s, x, y)] = Sub * Tone(k, c, x, y)
    BY <1>3 DEF Exact
  <2>3. Tone(k, c, x, y) \in 0 .. s.white
    BY <2>1, LevelIs
  <2>4. Clamped(Sub * Tone(k, c, x, y), 0, Sub * s.white) = Sub * Tone(k, c, x, y)
    BY <1>1, <2>3, CutKeeps
  <2> QED
    BY <2>2, <2>4
<1>4. Fills(s, f, g)
  <2> HIDE DEF At
  <2> QED
    BY <1>1, <1>2, EntryPosition DEF Fills
<1>5. CutTo(s, plane) = SubSeq(f, 1, s.w * s.h)
  BY DEF CutTo, Plane
<1>6. \A x \in 0 .. s.w - 1, y \in 0 .. s.h - 1 : g[<<x, y>>] = At(x, y)
  <2> HIDE DEF At
  <2> QED
    OBVIOUS
<1> HIDE DEF f, g, At
<1>7. /\ Whole(s, CutTo(s, plane))
      /\ \A x \in 0 .. s.w - 1, y \in 0 .. s.h - 1 : (CutTo(s, plane))[Index(s, x, y)] = At(x, y)
  <2>1. Whole(s, CutTo(s, plane)) /\ Laid(s, CutTo(s, plane), g)
    BY <1>1, <1>4, <1>5, PlaneIs
  <2> QED
    BY <1>6, <2>1 DEF Laid
<1> QED
  BY <1>1, <1>3, <1>7, InnerInside DEF Exact

(* LMMSE, of a Bayer view of a scene.                                       *)
LEMMA LmmseExact ==
  ASSUME NEW s, NEW k, Scene(s, k), Checkered(s)
  PROVE  Pictured(s, k, LmmseOf(s))
<1> DEFINE green == LmmseGreen(s, CutDirection(s, 1, 0), CutDirection(s, 0, 1))
           Colour(c) == CutTo(s, ByDifference(s, green, Difference(s, green, c), c))
<1>1. Exact(s, k, green, 2, 2)
  <2>1. 0 \in {0, 1} /\ 1 \in {0, 1} /\ 1 + 0 = 1 /\ 0 + 1 = 1
    OBVIOUS
  <2>2. Exact(s, k, CutDirection(s, 1, 0), 2, 2) /\ Exact(s, k, CutDirection(s, 0, 1), 2, 2)
    BY <2>1, CutDirectionExact
  <2> QED
    BY <2>2, LmmseGreenExact
<1>2. LmmseOf(s) = Interleaved(s, Rounded, Colour(0), green, Colour(2))
  BY DEF LmmseOf, LmmseColours
<1> HIDE DEF green
<1>3. Exact(s, k, Colour(0), 1, 3) /\ Exact(s, k, Colour(2), 3, 3)
  <2>1. Hue(0) = 1 /\ Hue(2) = 3 /\ 1 \in 1 .. 3 /\ 3 \in 1 .. 3 /\ 3 \in Nat
    BY DEF Hue
  <2>2. /\ Exact(s, k, ByDifference(s, green, Difference(s, green, 0), 0), 1, 3)
        /\ Exact(s, k, ByDifference(s, green, Difference(s, green, 2), 2), 3, 3)
    BY <1>1, <2>1, ByDifferenceExact
  <2> QED
    BY <2>1, <2>2, CutToExact
<1> HIDE DEF Colour
<1>4. 2 \in 0 .. 4 /\ 3 \in 0 .. 4 /\ 1 \in 1 .. 3 /\ 2 \in 1 .. 3 /\ 3 \in 1 .. 3
  OBVIOUS
<1>5. RoundsTo(s, k, Colour(0), 1) /\ RoundsTo(s, k, green, 2) /\ RoundsTo(s, k, Colour(2), 3)
  BY <1>1, <1>3, <1>4, ExactRoundsTo
<1> QED
  BY <1>2, <1>5, InterleavedRounded

-----------------------------------------------------------------------------
(* RCD, where the scene has the same colours everywhere.                    *)

Told(k, c) ==
  /\ k.shade[2] = 0 => k.shade[c] = 0
  /\ k.shade[2] # 0 => \/ ((Sub * k.shade[c]) % k.shade[2]) = 0
                       \/ 2 * k.shade[2] <= Sub

LEMMA ToneEven ==
  ASSUME NEW k, Shades(k), k.slope = 0, NEW c \in 1 .. 3, NEW x \in Int, NEW y \in Int
  PROVE  Tone(k, c, x, y) = k.shade[c]
<1> DEFINE a == k.shade[c]
           e == x + y + k.start
<1>1. a \in Nat /\ k.start \in Nat
  BY DEF Shades
<1>2. e \in Int
  BY <1>1
<1>3. Tone(k, c, x, y) = a + (0 * e)
  BY DEF Tone
<1> HIDE DEF a, e
<1>4. a + (0 * e) = a
  BY <1>1, <1>2
<1> QED
  BY <1>3, <1>4 DEF a

(* A colour is what green and its ratio to green round to.                  *)
LEMMA ProportionBack ==
  ASSUME NEW white \in Nat, NEW r \in 0 .. white, NEW g \in Nat, g = 0 => r = 0,
         g # 0 => ((Sub * r) % g) = 0 \/ 2 * g <= Sub,
         NEW q, q = (Sub * Sub * r) \div Most(Sub, Sub * g)
  PROVE  /\ q \in Nat
         /\ Rounded(Clamped(((Sub * g) * q) \div Sub, 0, Sub * white), white) = r
<1>1. /\ Sub \in Nat \ {0} /\ r \in Nat /\ r <= white
      /\ (Sub \div 2) \in Nat /\ 2 * (Sub \div 2) = Sub
  BY QuarterIs
<1>2. CASE g = 0
  <2>1. Sub * g = 0 /\ Most(Sub, 0) = Sub /\ Sub * Sub * r = 0 /\ 0 \div Sub = 0
    BY <1>1, <1>2 DEF Most
  <2>2. q = 0
    BY <2>1
  <2>3. ((Sub * g) * q) \div Sub = Sub * 0
    BY <1>1, <2>1, <2>2
  <2>4. Clamped(Sub * 0, 0, Sub * white) = Sub * 0 /\ Rounded(Sub * 0, white) = 0
    <3>1. 0 \in 0 .. white
      OBVIOUS
    <3> QED
      BY <3>1, CutKeeps, RoundedBack
  <2> QED
    BY <1>2, <2>2, <2>3, <2>4
<1>3. CASE g # 0
  <2> DEFINE n == Sub * r
             a == n \div g
             b == n % g
             h == Sub \div 2
  <2>1. n \in Nat /\ g \in Nat \ {0}
    BY <1>1, <1>3
  <2>2. a \in Nat /\ b \in 0 .. g - 1 /\ n = (g * a) + b /\ (b = 0 \/ 2 * g <= Sub)
    <3> HIDE DEF n
    <3>1. (n \div g) \in Nat /\ (n % g) \in 0 .. g - 1 /\ n = (g * (n \div g)) + (n % g)
      BY <2>1
    <3>2. (n % g) = 0 \/ 2 * g <= Sub
      BY <1>3 DEF n
    <3> QED
      BY <3>1, <3>2
  <2> HIDE DEF a, b
  <2>3. q = a
    <3> DEFINE d == Sub * g
               e == Sub * b
    <3>1. d \in Nat \ {0} /\ e \in 0 .. d - 1 /\ Most(Sub, d) = d
      <4>1. Sub * g >= Sub * 1 /\ Sub * g \in Nat
        BY <1>1, <2>1
      <4>2. Sub * b <= Sub * (g - 1) /\ Sub * b \in Nat
        BY <1>1, <2>1, <2>2
      <4>3. Sub * (g - 1) = (Sub * g) - Sub
        BY <1>1, <2>1
      <4> DEFINE i == Sub * (g - 1)
      <4>4. e <= i /\ i = d - Sub /\ e \in Nat /\ d \in Nat /\ d >= Sub
        BY <1>1, <4>1, <4>2, <4>3
      <4> HIDE DEF d, e, i
      <4> QED
        BY <1>1, <4>4 DEF Most
    <3>2. Sub * Sub * r = (a * d) + e
      <4>1. Sub * n = (a * (Sub * g)) + (Sub * b)
        <5>1. Sub * ((g * a) + b) = (a * (Sub * g)) + (Sub * b)
          BY <1>1, <2>1, <2>2
        <5> HIDE DEF n
        <5> QED
          BY <2>2, <5>1
      <4>2. Sub * Sub * r = Sub * n
        BY <1>1
      <4> QED
        BY <4>1, <4>2
    <3> HIDE DEF d, e
    <3>3. ((a * d) + e) \div d = a
      BY <2>2, <3>1, DivideUnique
    <3> QED
      BY <3>1, <3>2, <3>3 DEF d
  <2>4. ((Sub * g) * q) \div Sub = g * a
    <3>1. (Sub * g) * a = (g * a) * Sub /\ g * a \in Int
      BY <1>1, <2>1, <2>2
    <3>2. ((g * a) * Sub) \div Sub = g * a
      BY <1>1, <3>1, DivideExact
    <3> QED
      BY <2>3, <3>1, <3>2
  <2> DEFINE e == g * a
             m == Sub * white
  <2>5. e \in Nat /\ e = n - b /\ n <= m /\ m \in Nat /\ b \in Nat
    <3>1. Sub * r <= Sub * white /\ Sub * white \in Nat
      BY <1>1
    <3>2. g * a \in Nat
      BY <2>1, <2>2
    <3> DEFINE i == g * a
    <3>3. i \in Nat /\ n = i + b /\ b \in Nat
      BY <2>2, <3>2
    <3> HIDE DEF i
    <3>4. i = n - b
      BY <2>1, <3>3
    <3> QED
      BY <3>1, <3>3, <3>4 DEF i
  <2>6. Clamped(e, 0, m) = e
    <3> HIDE DEF e, m, n
    <3> QED
      BY <2>1, <2>5 DEF Clamped, Most, Least
  <2>7. (e + h) \div Sub = r
    <3>1. h - b \in 0 .. Sub - 1
      <4> HIDE DEF h
      <4>1. h \in Nat /\ 2 * h = Sub
        BY <1>1 DEF h
      <4> QED
        BY <1>1, <2>1, <2>2, <4>1
    <3>2. ((r * Sub) + (h - b)) \div Sub = r
      <4> HIDE DEF h
      <4> QED
        BY <1>1, <3>1, DivideUnique
    <3>3. e + h = (r * Sub) + (h - b)
      <4>1. n = r * Sub
        BY <1>1
      <4>2. h \in Int
        BY <1>1
      <4> HIDE DEF n, e, h
      <4>3. e + h = n + (h - b)
        BY <2>1, <2>5, <4>2
      <4> QED
        BY <4>1, <4>3
    <3> QED
      BY <3>2, <3>3
  <2>8. Rounded(e, white) = r
    <3> HIDE DEF e
    <3> QED
      BY <1>1, <2>7 DEF Rounded, Clamped, Most, Least
  <2> QED
    BY <2>2, <2>3, <2>4, <2>6, <2>8
<1> QED
  BY <1>2, <1>3

Proportion(k, c) == (Sub * Sub * k.shade[c]) \div Most(Sub, Sub * k.shade[2])

LEMMA RatioExact ==
  ASSUME NEW s, NEW k, Scene(s, k), k.slope = 0, NEW green, Exact(s, k, green, 2, 2), NEW color
  PROVE  /\ Whole(s, Ratio(s, green, color))
         /\ \A x, y : Inner(s, 2, x, y) /\ fc(s, x, y) = color =>
               Ratio(s, green, color)[Index(s, x, y)] = Proportion(k, Hue(color))
<1> DEFINE At(x, y) == IF fc(s, x, y) # color THEN Sub
                       ELSE (Sub * Sub * get(s, x, y)) \div Most(Sub, green[Index(s, x, y)])
           f == [i \in 1 .. s.w * s.h |-> At((i - 1) % s.w, (i - 1) \div s.w)]
           g == [p \in (0 .. s.w - 1) \X (0 .. s.h - 1) |-> At(p[1], p[2])]
<1>1. Sized(s) /\ Shades(k) /\ s.w \in Nat /\ s.h \in Nat
  BY SizeType DEF Scene
<1>2. ASSUME NEW x \in 0 .. s.w - 1, NEW y \in 0 .. s.h - 1 PROVE At(x, y) \in Int
  <2> DEFINE a == get(s, x, y)
             b == green[Index(s, x, y)]
             n == Sub * Sub * a
             m == Most(Sub, b)
  <2>1. a \in Int
    <3>1. x \in Int /\ y \in Int
      BY <1>1
    <3> QED
      BY <3>1, GetType
  <2>2. b \in Int
    BY <1>1, WholeAt DEF Exact
  <2>3. At(x, y) \in {Sub, n \div m}
    OBVIOUS
  <2>4. n \in Int /\ m \in Nat \ {0}
    <3> HIDE DEF a, b
    <3> QED
      BY <2>1, <2>2, QuarterIs DEF Most
  <2> HIDE DEF n, m, At
  <2>5. n \div m \in Int
    BY <2>4
  <2> QED
    BY <2>3, <2>5, QuarterIs
<1>3. ASSUME NEW x, NEW y, Inner(s, 2, x, y), fc(s, x, y) = color
      PROVE  At(x, y) = Proportion(k, Hue(color))
  <2>1. x \in 0 .. s.w - 1 /\ y \in 0 .. s.h - 1 /\ x \in Int /\ y \in Int
    BY <1>1, <1>3, InnerInside
  <2>2. get(s, x, y) = Tone(k, Hue(color), x, y)
    BY <1>3, <2>1, GetScene
  <2>3. green[Index(s, x, y)] = Sub * Tone(k, 2, x, y)
    BY <1>3 DEF Exact
  <2>4. Tone(k, Hue(color), x, y) = k.shade[Hue(color)] /\ Tone(k, 2, x, y) = k.shade[2]
    BY <1>1, <2>1, HueType, ToneEven
  <2> QED
    BY <1>3, <2>2, <2>3, <2>4 DEF Proportion
<1>4. Fills(s, f, g)
  <2> HIDE DEF At
  <2> QED
    BY <1>1, <1>2, EntryPosition DEF Fills
<1>5. Ratio(s, green, color) = SubSeq(f, 1, s.w * s.h)
  BY DEF Ratio, Plane
<1>6. \A x \in 0 .. s.w - 1, y \in 0 .. s.h - 1 : g[<<x, y>>] = At(x, y)
  <2> HIDE DEF At
  <2> QED
    OBVIOUS
<1> HIDE DEF f, g, At
<1>7. /\ Whole(s, Ratio(s, green, color))
      /\ \A x \in 0 .. s.w - 1, y \in 0 .. s.h - 1 : (Ratio(s, green, color))[Index(s, x, y)] = At(x, y)
  <2>1. Whole(s, Ratio(s, green, color)) /\ Laid(s, Ratio(s, green, color), g)
    BY <1>1, <1>4, <1>5, PlaneIs
  <2>2. ASSUME NEW x \in 0 .. s.w - 1, NEW y \in 0 .. s.h - 1
        PROVE  (Ratio(s, green, color))[Index(s, x, y)] = At(x, y)
    <3>1. (Ratio(s, green, color))[Index(s, x, y)] = g[<<x, y>>]
      BY <2>1 DEF Laid
    <3> QED
      BY <1>6, <3>1
  <2> QED
    BY <2>1, <2>2
<1>8. 2 \in Nat
  OBVIOUS
<1> QED
  BY <1>1, <1>3, <1>7, <1>8, InnerInside

LEMMA ByRatioRounds ==
  ASSUME NEW s, NEW k, Scene(s, k), Checkered(s), k.slope = 0, NEW green, Exact(s, k, green, 2, 2),
         NEW color \in {0, 2}, Told(k, Hue(color))
  PROVE  RoundsTo(s, k, ByRatio(s, green, Ratio(s, green, color), color), Hue(color))
<1> DEFINE ratios == Ratio(s, green, color)
           At(x, y) == IF fc(s, x, y) = color THEN Sub * get(s, x, y)
                       ELSE Clamped((green[Index(s, x, y)] * MeanAround(s, ratios, x, y, color, Sub)) \div Sub,
                                    0, Sub * s.white)
           c == Hue(color)
           q == Proportion(k, c)
           f == [i \in 1 .. s.w * s.h |-> At((i - 1) % s.w, (i - 1) \div s.w)]
           g == [p \in (0 .. s.w - 1) \X (0 .. s.h - 1) |-> At(p[1], p[2])]
<1>1. Sized(s) /\ Shades(k) /\ s.w \in Nat /\ s.h \in Nat /\ s.white \in Nat /\ c \in 1 .. 3
  BY SizeType, HueType DEF Scene, Sized
<1>2. /\ Whole(s, ratios)
      /\ \A x, y : Inner(s, 2, x, y) /\ fc(s, x, y) = color => ratios[Index(s, x, y)] = q
  BY RatioExact
<1> HIDE DEF ratios
<1>3. ASSUME NEW x \in 0 .. s.w - 1, NEW y \in 0 .. s.h - 1 PROVE At(x, y) \in Int
  <2> DEFINE a == get(s, x, y)
             b == green[Index(s, x, y)]
             d == MeanAround(s, ratios, x, y, color, Sub)
             w == s.white
             n == b * d
             m == n \div Sub
  <2>1. a \in Int
    <3>1. x \in Int /\ y \in Int
      BY <1>1
    <3> QED
      BY <3>1, GetType
  <2>2. b \in Int
    BY <1>1, WholeAt DEF Exact
  <2>3. d \in Int /\ w \in Nat
    BY <1>1, <1>2, QuarterIs, MeanAroundType
  <2>4. At(x, y) \in {Sub * a, Clamped(m, 0, Sub * w)}
    OBVIOUS
  <2> HIDE DEF a, b, d, w, At
  <2>5. n \in Int
    BY <2>2, <2>3
  <2> HIDE DEF n
  <2>6. m \in Int
    BY <2>5, QuarterIs
  <2> HIDE DEF m
  <2>7. Sub * a \in Int /\ Clamped(m, 0, Sub * w) \in Int
    <3>1. Sub * w \in Int
      BY <2>3, QuarterIs
    <3> QED
      BY <2>1, <2>6, <3>1, QuarterIs DEF Clamped, Most, Least
  <2> QED
    BY <2>4, <2>7
<1>4. ASSUME NEW x, NEW y, Inner(s, 4, x, y) PROVE Rounded(At(x, y), s.white) = Tone(k, c, x, y)
  <2>1. /\ x \in 0 .. s.w - 1 /\ y \in 0 .. s.h - 1 /\ x \in Int /\ y \in Int
        /\ x \in 1 .. s.w - 2 /\ y \in 1 .. s.h - 2 /\ Inner(s, 2, x, y)
    BY <1>1, <1>4 DEF Inner
  <2>2. Tone(k, c, x, y) \in 0 .. s.white /\ Tone(k, 2, x, y) \in Nat
    BY <1>1, <2>1, LevelIs
  <2>3. CASE fc(s, x, y) = color
    <3>1. get(s, x, y) = Tone(k, c, x, y)
      BY <2>1, <2>3, GetScene
    <3>2. At(x, y) = Sub * Tone(k, c, x, y)
      BY <2>3, <3>1
    <3> HIDE DEF At, c
    <3> QED
      BY <1>1, <2>2, <3>2, RoundedBack
  <2>4. CASE fc(s, x, y) # color
    <3> DEFINE r == k.shade[c]
               h == k.shade[2]
    <3>1. Tone(k, c, x, y) = r /\ Tone(k, 2, x, y) = h
      BY <1>1, <2>1, ToneEven
    <3>2. r \in 0 .. s.white /\ h \in Nat
      BY <2>2, <3>1
    <3>3. /\ h = 0 => r = 0
          /\ h # 0 => ((Sub * r) % h) = 0 \/ 2 * h <= Sub
      BY DEF Told
    <3>4. q = (Sub * Sub * r) \div Most(Sub, Sub * h)
      BY DEF Proportion
    <3> HIDE DEF q, r, h, c
    <3>5. q \in Nat /\ Rounded(Clamped(((Sub * h) * q) \div Sub, 0, Sub * s.white), s.white) = r
      BY <1>1, <3>2, <3>3, <3>4, ProportionBack
    <3>6. \A p \in Around(s, x, y, 1, color) : ratios[Index(s, p[1], p[2])] = q
      <4> SUFFICES ASSUME NEW p \in Around(s, x, y, 1, color)
                   PROVE  ratios[Index(s, p[1], p[2])] = q
        OBVIOUS
      <4>0. 1 \in Nat
        OBVIOUS
      <4>1. /\ p[1] \in 0 .. s.w - 1 /\ p[2] \in 0 .. s.h - 1
            /\ p[1] \in x - 1 .. x + 1 /\ p[2] \in y - 1 .. y + 1
            /\ fc(s, p[1], p[2]) = color
        BY <1>1, <2>1, <4>0, AroundInside
      <4>2. Inner(s, 2, p[1], p[2])
        <5> DEFINE i == p[1]
                   j == p[2]
        <5>1. i \in x - 1 .. x + 1 /\ j \in y - 1 .. y + 1
          BY <4>1
        <5> HIDE DEF i, j
        <5>2. i \in 2 .. s.w - 1 - 2 /\ j \in 2 .. s.h - 1 - 2
          BY <1>1, <1>4, <5>1 DEF Inner
        <5> QED
          BY <5>2 DEF Inner, i, j
      <4> QED
        BY <1>2, <4>1, <4>2
    <3>7. Around(s, x, y, 1, color) # {}
      BY <1>1, <2>1, SiteNear
    <3>8. MeanAround(s, ratios, x, y, color, Sub) = q
      <4>1. q \in Int
        BY <3>5
      <4> QED
        BY <1>1, <2>1, <3>6, <3>7, <4>1, MeanAroundIs
    <3>9. green[Index(s, x, y)] = Sub * h
      BY <2>1, <3>1 DEF Exact
    <3>10. At(x, y) = Clamped(((Sub * h) * q) \div Sub, 0, Sub * s.white)
      BY <2>4, <3>8, <3>9
    <3> HIDE DEF At
    <3> QED
      BY <3>1, <3>5, <3>10
  <2> QED
    BY <2>3, <2>4
<1>5. Fills(s, f, g)
  <2> HIDE DEF At
  <2> QED
    BY <1>1, <1>3, EntryPosition DEF Fills
<1>6. ByRatio(s, green, ratios, color) = SubSeq(f, 1, s.w * s.h)
  BY DEF ByRatio, Plane
<1>7. \A x \in 0 .. s.w - 1, y \in 0 .. s.h - 1 : g[<<x, y>>] = At(x, y)
  <2> HIDE DEF At
  <2> QED
    OBVIOUS
<1> HIDE DEF f, g, At
<1>8. /\ Whole(s, ByRatio(s, green, ratios, color))
      /\ \A x \in 0 .. s.w - 1, y \in 0 .. s.h - 1 : (ByRatio(s, green, ratios, color))[Index(s, x, y)] = At(x, y)
  <2>1. Whole(s, ByRatio(s, green, ratios, color)) /\ Laid(s, ByRatio(s, green, ratios, color), g)
    BY <1>1, <1>5, <1>6, PlaneIs
  <2>2. ASSUME NEW x \in 0 .. s.w - 1, NEW y \in 0 .. s.h - 1
        PROVE  (ByRatio(s, green, ratios, color))[Index(s, x, y)] = At(x, y)
    <3>1. (ByRatio(s, green, ratios, color))[Index(s, x, y)] = g[<<x, y>>]
      BY <2>1 DEF Laid
    <3> QED
      BY <1>7, <3>1
  <2> QED
    BY <2>1, <2>2
<1>9. ASSUME NEW x, NEW y, Inner(s, 4, x, y)
      PROVE  (ByRatio(s, green, ratios, color))[Index(s, x, y)] = At(x, y)
  <2>1. 4 \in Nat
    OBVIOUS
  <2>2. x \in 0 .. s.w - 1 /\ y \in 0 .. s.h - 1
    BY <1>1, <1>9, <2>1, InnerInside
  <2> QED
    BY <1>8, <2>2
<1>10. RoundsTo(s, k, ByRatio(s, green, ratios, color), c)
  BY <1>4, <1>8, <1>9 DEF RoundsTo
<1> QED
  BY <1>10 DEF ratios

(* RCD, of a Bayer view of such a scene.                                    *)
LEMMA RcdExact ==
  ASSUME NEW s, NEW k, Scene(s, k), Checkered(s), k.slope = 0, Told(k, 1), Told(k, 3)
  PROVE  Pictured(s, k, RcdOf(s))
<1> DEFINE green == AdaptiveGreen(s)
           Colour(c) == ByRatio(s, green, Ratio(s, green, c), c)
<1>1. Exact(s, k, green, 2, 2)
  BY AdaptiveGreenExact
<1>2. RcdOf(s) = Interleaved(s, Rounded, Colour(0), green, Colour(2))
  BY DEF RcdOf, RcdColours
<1> HIDE DEF green
<1>3. RoundsTo(s, k, Colour(0), 1) /\ RoundsTo(s, k, Colour(2), 3)
  <2>1. Hue(0) = 1 /\ Hue(2) = 3
    BY DEF Hue
  <2> QED
    BY <1>1, <2>1, ByRatioRounds
<1> HIDE DEF Colour
<1>4. RoundsTo(s, k, green, 2)
  <2>1. 2 \in 0 .. 4 /\ 2 \in 1 .. 3
    OBVIOUS
  <2> QED
    BY <1>1, <2>1, ExactRoundsTo
<1> QED
  BY <1>2, <1>3, <1>4, InterleavedRounded

-----------------------------------------------------------------------------
(* The X-Trans mosaic: green is in every three neighbours of a row, every   *)
(* colour in every six.                                                     *)

Tiled(s) ==
  \E px \in Nat, py \in Nat : \A x \in 0 .. s.w - 1, y \in 0 .. s.h - 1 :
     fc(s, x, y) = color_at(XTransStandard, x + px, y + py)

XTransRows == {<<1, 2, 1, 1, 0, 1>>, <<0, 1, 0, 2, 1, 2>>, <<1, 0, 1, 2, 1, 2>>}

LEMMA RowOf ==
  ASSUME NEW i \in 1 .. 6
  PROVE  XTransStandard[i] \in XTransRows
BY DEF XTransStandard, XTransRows

LEMMA GreenInThree ==
  ASSUME NEW row \in XTransRows, NEW z \in Nat
  PROVE  \E d \in 0 .. 2 : row[((z + d) % 6) + 1] = 1
<1>1. CASE row = <<1, 2, 1, 1, 0, 1>>
  <2>1. \E d \in 0 .. 2 : ((z + d) % 3) = 0
    OBVIOUS
  <2>2. PICK d \in 0 .. 2 : ((z + d) % 3) = 0
    BY <2>1
  <2>3. ((z + d) % 6) \in {0, 3}
    BY <2>2
  <2>4. row[0 + 1] = 1 /\ row[3 + 1] = 1
    BY <1>1
  <2> QED
    BY <2>3, <2>4
<1>2. CASE row = <<0, 1, 0, 2, 1, 2>>
  <2>1. \E d \in 0 .. 2 : ((z + d) % 3) = 1
    OBVIOUS
  <2>2. PICK d \in 0 .. 2 : ((z + d) % 3) = 1
    BY <2>1
  <2>3. ((z + d) % 6) \in {1, 4}
    BY <2>2
  <2>4. row[1 + 1] = 1 /\ row[4 + 1] = 1
    BY <1>2
  <2> QED
    BY <2>3, <2>4
<1>3. CASE row = <<1, 0, 1, 2, 1, 2>>
  <2>1. \E d \in 0 .. 2 : ((z + d) % 2) = 0
    OBVIOUS
  <2>2. PICK d \in 0 .. 2 : ((z + d) % 2) = 0
    BY <2>1
  <2>3. ((z + d) % 6) \in {0, 2, 4}
    BY <2>2
  <2>4. row[0 + 1] = 1 /\ row[2 + 1] = 1 /\ row[4 + 1] = 1
    BY <1>3
  <2> QED
    BY <2>3, <2>4
<1> QED
  BY <1>1, <1>2, <1>3 DEF XTransRows

LEMMA ColourInSix ==
  ASSUME NEW row \in XTransRows, NEW z \in Nat, NEW c \in {0, 1, 2}
  PROVE  \E d \in 0 .. 5 : row[((z + d) % 6) + 1] = c
<1>1. \E j \in 0 .. 5 : row[j + 1] = c
  <2>1. CASE row = <<1, 2, 1, 1, 0, 1>>
    <3>1. row[0 + 1] = 1 /\ row[1 + 1] = 2 /\ row[4 + 1] = 0
      BY <2>1
    <3> QED
      BY <3>1
  <2>2. CASE row = <<0, 1, 0, 2, 1, 2>>
    <3>1. row[0 + 1] = 0 /\ row[1 + 1] = 1 /\ row[3 + 1] = 2
      BY <2>2
    <3> QED
      BY <3>1
  <2>3. CASE row = <<1, 0, 1, 2, 1, 2>>
    <3>1. row[0 + 1] = 1 /\ row[1 + 1] = 0 /\ row[3 + 1] = 2
      BY <2>3
    <3> QED
      BY <3>1
  <2> QED
    BY <2>1, <2>2, <2>3 DEF XTransRows
<1>2. PICK j \in 0 .. 5 : row[j + 1] = c
  BY <1>1
<1>3. \E d \in 0 .. 5 : ((z + d) % 6) = j
  <2> DEFINE a == z % 6
  <2>1. a \in 0 .. 5 /\ (z - a) % 6 = 0 /\ z - a \in Nat
    OBVIOUS
  <2>2. CASE j >= a
    <3>1. j - a \in 0 .. 5 /\ z + (j - a) = (z - a) + j
      BY <2>1, <2>2
    <3>2. (((z - a) + j) % 6) = j
      BY <2>1
    <3> QED
      BY <3>1, <3>2
  <2>3. CASE j < a
    <3>1. (j + 6) - a \in 0 .. 5 /\ z + ((j + 6) - a) = ((z - a) + j) + 6
      BY <2>1, <2>3
    <3>2. ((((z - a) + j) + 6) % 6) = j
      BY <2>1
    <3> QED
      BY <3>1, <3>2
  <2> QED
    BY <2>1, <2>2, <2>3
<1> QED
  BY <1>2, <1>3

LEMMA TileNear ==
  ASSUME NEW s, Sized(s), Tiled(s), NEW y \in 0 .. s.h - 1, NEW x \in 0 .. s.w - 1
  PROVE  /\ x \in 1 .. s.w - 2 => Around(s, x, y, 2, 1) # {}
         /\ x \in 3 .. s.w - 4 => \A c \in {0, 1, 2} : Around(s, x, y, 3, c) # {}
<1>1. s.w \in Nat /\ s.h \in Nat
  BY SizeType
<1>2. PICK px \in Nat, py \in Nat : \A i \in 0 .. s.w - 1, j \in 0 .. s.h - 1 :
        fc(s, i, j) = color_at(XTransStandard, i + px, j + py)
  BY DEF Tiled
<1> DEFINE row == XTransStandard[((y + py) % 6) + 1]
<1>3. row \in XTransRows
  <2>1. ((y + py) % 6) + 1 \in 1 .. 6
    BY <1>1
  <2> QED
    BY <2>1, RowOf
<1>4. \A i \in 0 .. s.w - 1 : fc(s, i, y) = row[((i + px) % 6) + 1]
  BY <1>2 DEF color_at
<1>5. y \in Most(0, y - 2) .. Least(s.h - 1, y + 2) /\ y \in Most(0, y - 3) .. Least(s.h - 1, y + 3)
  BY <1>1 DEF Most, Least
<1> HIDE DEF row
<1>6. ASSUME x \in 1 .. s.w - 2 PROVE Around(s, x, y, 2, 1) # {}
  <2> DEFINE z == (x - 1) + px
  <2>1. z \in Nat
    BY <1>1, <1>6
  <2> HIDE DEF z
  <2>2. PICK d \in 0 .. 2 : row[((z + d) % 6) + 1] = 1
    BY <1>3, <2>1, GreenInThree
  <2> DEFINE i == (x - 1) + d
  <2>3. i \in 0 .. s.w - 1 /\ i + px = z + d
    BY <1>1, <1>6 DEF z
  <2>4. i \in Most(0, x - 2) .. Least(s.w - 1, x + 2)
    BY <1>1, <1>6 DEF Most, Least
  <2> HIDE DEF i
  <2>5. fc(s, i, y) = 1
    BY <1>4, <2>2, <2>3
  <2>6. <<i, y>> \in Around(s, x, y, 2, 1)
    BY <1>5, <2>4, <2>5 DEF Around
  <2> QED
    BY <2>6
<1>7. ASSUME x \in 3 .. s.w - 4, NEW c \in {0, 1, 2} PROVE Around(s, x, y, 3, c) # {}
  <2> DEFINE z == (x - 3) + px
  <2>1. z \in Nat
    BY <1>1, <1>7
  <2> HIDE DEF z
  <2>2. PICK d \in 0 .. 5 : row[((z + d) % 6) + 1] = c
    BY <1>3, <2>1, ColourInSix
  <2> DEFINE i == (x - 3) + d
  <2>3. i \in 0 .. s.w - 1 /\ i + px = z + d
    BY <1>1, <1>7 DEF z
  <2>4. i \in Most(0, x - 3) .. Least(s.w - 1, x + 3)
    BY <1>1, <1>7 DEF Most, Least
  <2> HIDE DEF i
  <2>5. fc(s, i, y) = c
    BY <1>4, <2>2, <2>3
  <2>6. <<i, y>> \in Around(s, x, y, 3, c)
    BY <1>5, <2>4, <2>5 DEF Around
  <2> QED
    BY <2>6
<1> QED
  BY <1>6, <1>7

LEMMA TileColours ==
  ASSUME NEW s, Sized(s), Tiled(s), NEW x \in 0 .. s.w - 1, NEW y \in 0 .. s.h - 1
  PROVE  fc(s, x, y) \in {0, 1, 2}
<1>1. s.w \in Nat /\ s.h \in Nat
  BY SizeType
<1>2. PICK px \in Nat, py \in Nat : \A i \in 0 .. s.w - 1, j \in 0 .. s.h - 1 :
        fc(s, i, j) = color_at(XTransStandard, i + px, j + py)
  BY DEF Tiled
<1>3. x + px \in Nat /\ y + py \in Nat
  BY <1>1
<1> QED
  BY <1>2, <1>3, ColorAtType

LEMMA WeightedMeanType ==
  ASSUME NEW s, Sized(s), NEW x \in 0 .. s.w - 1, NEW y \in 0 .. s.h - 1, NEW radius \in 1 .. 3,
         NEW color, NEW plane, Whole(s, plane), Around(s, x, y, radius, color) # {}
  PROVE  WeightedMean(s, plane, x, y, Around(s, x, y, radius, color)) \in Int
<1> DEFINE sites == Around(s, x, y, radius, color)
           f == [p \in sites |-> plane[Index(s, p[1], p[2])] * Weight(x, y, p)]
           g == [p \in sites |-> Weight(x, y, p)]
<1>1. s.w \in Nat /\ s.h \in Nat
  BY SizeType
<1>2. x \in Int /\ y \in Int /\ radius \in Nat
  BY <1>1
<1>3. /\ IsFiniteSet(sites) /\ sites # {}
      /\ \A p \in sites : /\ p[1] \in 0 .. s.w - 1 /\ p[2] \in 0 .. s.h - 1
                          /\ p[1] \in x - radius .. x + radius
                          /\ p[2] \in y - radius .. y + radius
  BY <1>2, AroundInside
<1>4. ASSUME NEW p \in sites
      PROVE  plane[Index(s, p[1], p[2])] \in Int /\ Weight(x, y, p) \in Nat \ {0}
  <2> HIDE DEF sites
  <2>1. p[1] \in 0 .. s.w - 1 /\ p[2] \in 0 .. s.h - 1
    BY <1>3
  <2>2. p[1] \in x - radius .. x + radius /\ p[2] \in y - radius .. y + radius
    BY <1>3
  <2>3. p[1] \in x - 3 .. x + 3 /\ p[2] \in y - 3 .. y + 3
    <3> DEFINE p1 == p[1]
               p2 == p[2]
    <3>1. p1 \in x - radius .. x + radius /\ p2 \in y - radius .. y + radius
      BY <2>2
    <3> HIDE DEF p1, p2
    <3>2. p1 \in x - 3 .. x + 3 /\ p2 \in y - 3 .. y + 3
      BY <1>2, <3>1
    <3> QED
      BY <3>2 DEF p1, p2
  <2> QED
    BY <1>2, <2>1, <2>3, WeightPositive, WholeAt
<1>5. g \in [sites -> Nat \ {0}] /\ f \in [sites -> Int]
  <2>1. \A p \in sites : plane[Index(s, p[1], p[2])] * Weight(x, y, p) \in Int
    <3> HIDE DEF sites
    <3> QED
      BY <1>4
  <2> HIDE DEF sites
  <2> QED
    BY <1>4, <2>1
<1>6. WeightedMean(s, plane, x, y, sites) = SumFunction(f) \div SumFunction(g)
  BY DEF WeightedMean
<1> HIDE DEF sites, f, g
<1> DEFINE a == SumFunction(f)
           b == SumFunction(g)
<1>7. a \in Int /\ b \in Nat \ {0}
  BY <1>3, <1>5, SumType, SumPositive
<1> HIDE DEF a, b
<1>8. a \div b \in Int
  BY <1>7
<1> QED
  BY <1>6, <1>8 DEF sites, a, b

-----------------------------------------------------------------------------
(* The X-Trans algorithms, where the scene has the same colours everywhere. *)

LEMMA SamplesAre ==
  ASSUME NEW s, NEW k, Scene(s, k)
  PROVE  /\ Whole(s, Samples(s))
         /\ \A x \in 0 .. s.w - 1, y \in 0 .. s.h - 1 :
               Samples(s)[Index(s, x, y)] = Sub * Tone(k, Hue(fc(s, x, y)), x, y)
<1> DEFINE At(x, y) == Sub * get(s, x, y)
           f == [i \in 1 .. s.w * s.h |-> At((i - 1) % s.w, (i - 1) \div s.w)]
           g == [p \in (0 .. s.w - 1) \X (0 .. s.h - 1) |-> At(p[1], p[2])]
<1>1. Sized(s) /\ s.w \in Nat /\ s.h \in Nat
  BY SizeType DEF Scene
<1>2. ASSUME NEW x \in 0 .. s.w - 1, NEW y \in 0 .. s.h - 1 PROVE At(x, y) \in Int
  <2> DEFINE a == get(s, x, y)
  <2>1. a \in Int
    <3>1. x \in Int /\ y \in Int
      BY <1>1
    <3> QED
      BY <3>1, GetType
  <2> HIDE DEF a
  <2>2. Sub * a \in Int
    BY <2>1, QuarterIs
  <2> QED
    BY <2>2 DEF a
<1>3. ASSUME NEW x \in 0 .. s.w - 1, NEW y \in 0 .. s.h - 1
      PROVE  At(x, y) = Sub * Tone(k, Hue(fc(s, x, y)), x, y)
  BY GetScene
<1>4. Fills(s, f, g)
  <2> HIDE DEF At
  <2> QED
    BY <1>1, <1>2, EntryPosition DEF Fills
<1>5. Samples(s) = SubSeq(f, 1, s.w * s.h)
  BY DEF Samples, Plane
<1>6. \A x \in 0 .. s.w - 1, y \in 0 .. s.h - 1 : g[<<x, y>>] = At(x, y)
  <2> HIDE DEF At
  <2> QED
    OBVIOUS
<1> HIDE DEF f, g, At
<1>7. /\ Whole(s, Samples(s))
      /\ \A x \in 0 .. s.w - 1, y \in 0 .. s.h - 1 : (Samples(s))[Index(s, x, y)] = At(x, y)
  <2>1. Whole(s, Samples(s)) /\ Laid(s, Samples(s), g)
    BY <1>1, <1>4, <1>5, PlaneIs
  <2>2. ASSUME NEW x \in 0 .. s.w - 1, NEW y \in 0 .. s.h - 1
        PROVE  (Samples(s))[Index(s, x, y)] = At(x, y)
    <3>1. (Samples(s))[Index(s, x, y)] = g[<<x, y>>]
      BY <2>1 DEF Laid
    <3> QED
      BY <1>6, <3>1
  <2> QED
    BY <2>1, <2>2
<1> QED
  BY <1>3, <1>7

LEMMA XTransGreenExact ==
  ASSUME NEW s, NEW k, Scene(s, k), k.slope = 0, Tiled(s)
  PROVE  Exact(s, k, XTransGreen(s, Samples(s)), 2, 1)
<1> DEFINE samples == Samples(s)
           Green(x, y, sites) ==
             IF fc(s, x, y) = 1 \/ sites = {} THEN samples[Index(s, x, y)]
             ELSE WeightedMean(s, samples, x, y, sites)
           At(x, y) == Green(x, y, Around(s, x, y, 2, 1))
           f == [i \in 1 .. s.w * s.h |-> At((i - 1) % s.w, (i - 1) \div s.w)]
           g == [p \in (0 .. s.w - 1) \X (0 .. s.h - 1) |-> At(p[1], p[2])]
<1>1. Sized(s) /\ Shades(k) /\ s.w \in Nat /\ s.h \in Nat /\ 2 \in 1 .. 3 /\ 1 \in Nat /\ 2 \in Nat
  BY SizeType DEF Scene
<1>2. /\ Whole(s, samples)
      /\ \A x \in 0 .. s.w - 1, y \in 0 .. s.h - 1 :
            samples[Index(s, x, y)] = Sub * Tone(k, Hue(fc(s, x, y)), x, y)
  BY SamplesAre
<1> HIDE DEF samples
<1>3. ASSUME NEW x \in 0 .. s.w - 1, NEW y \in 0 .. s.h - 1 PROVE At(x, y) \in Int
  <2> DEFINE sites == Around(s, x, y, 2, 1)
  <2>1. samples[Index(s, x, y)] \in Int
    BY <1>1, <1>2, WholeAt
  <2>2. sites # {} => WeightedMean(s, samples, x, y, sites) \in Int
    BY <1>1, <1>2, WeightedMeanType
  <2>3. At(x, y) = Green(x, y, sites)
    OBVIOUS
  <2> HIDE DEF At, sites
  <2> QED
    BY <2>1, <2>2, <2>3
<1>4. ASSUME NEW x \in 0 .. s.w - 1, NEW y \in 0 .. s.h - 1, fc(s, x, y) = 1
      PROVE  samples[Index(s, x, y)] = Sub * k.shade[2]
  <2>1. x \in Int /\ y \in Int /\ Hue(1) = 2
    BY <1>1 DEF Hue
  <2>2. Tone(k, 2, x, y) = k.shade[2]
    BY <1>1, <2>1, ToneEven
  <2> QED
    BY <1>2, <1>4, <2>1, <2>2
<1>5. ASSUME NEW x, NEW y, Inner(s, 1, x, y) PROVE At(x, y) = Sub * Tone(k, 2, x, y)
  <2> DEFINE sites == Around(s, x, y, 2, 1)
             c == Sub * k.shade[2]
  <2>1. x \in 0 .. s.w - 1 /\ y \in 0 .. s.h - 1 /\ x \in Int /\ y \in Int /\ x \in 1 .. s.w - 2
    BY <1>1, <1>5 DEF Inner
  <2>2. sites # {}
    BY <1>1, <2>1, TileNear
  <2>3. \A p \in sites : p[1] \in 0 .. s.w - 1 /\ p[2] \in 0 .. s.h - 1 /\ fc(s, p[1], p[2]) = 1
    BY <1>1, <2>1, AroundInside
  <2>4. \A p \in sites : samples[Index(s, p[1], p[2])] = c
    BY <1>4, <2>3
  <2>5. c \in Int
    <3>1. k.shade[2] \in Nat
      BY DEF Shades, Scene
    <3> QED
      BY <3>1, QuarterIs
  <2>6. WeightedMean(s, samples, x, y, sites) = c
    <3> HIDE DEF c
    <3> QED
      BY <1>1, <2>1, <2>2, <2>4, <2>5, WeightedMeanIs
  <2>7. fc(s, x, y) = 1 => samples[Index(s, x, y)] = c
    BY <1>4, <2>1
  <2>8. At(x, y) = Green(x, y, sites)
    OBVIOUS
  <2>9. Tone(k, 2, x, y) = k.shade[2]
    BY <1>1, <2>1, ToneEven
  <2> HIDE DEF At, sites
  <2> QED
    BY <2>2, <2>6, <2>7, <2>8, <2>9
<1>6. Fills(s, f, g)
  <2> HIDE DEF At
  <2> QED
    BY <1>1, <1>3, EntryPosition DEF Fills
<1>7. XTransGreen(s, samples) = SubSeq(f, 1, s.w * s.h)
  BY DEF XTransGreen, Plane
<1>8. \A x \in 0 .. s.w - 1, y \in 0 .. s.h - 1 : g[<<x, y>>] = At(x, y)
  <2> HIDE DEF At
  <2> QED
    OBVIOUS
<1> HIDE DEF f, g, At
<1>9. /\ Whole(s, XTransGreen(s, samples))
      /\ \A x \in 0 .. s.w - 1, y \in 0 .. s.h - 1 : (XTransGreen(s, samples))[Index(s, x, y)] = At(x, y)
  <2>1. Whole(s, XTransGreen(s, samples)) /\ Laid(s, XTransGreen(s, samples), g)
    BY <1>1, <1>6, <1>7, PlaneIs
  <2>2. ASSUME NEW x \in 0 .. s.w - 1, NEW y \in 0 .. s.h - 1
        PROVE  (XTransGreen(s, samples))[Index(s, x, y)] = At(x, y)
    <3>1. (XTransGreen(s, samples))[Index(s, x, y)] = g[<<x, y>>]
      BY <2>1 DEF Laid
    <3> QED
      BY <1>8, <3>1
  <2> QED
    BY <2>1, <2>2
<1>10. Exact(s, k, XTransGreen(s, samples), 2, 1)
  BY <1>1, <1>5, <1>9, InnerInside DEF Exact
<1> QED
  BY <1>10 DEF samples

(* Differences are exact at their own sites already next to the border.     *)
LEMMA DifferencesExact ==
  ASSUME NEW s, NEW k, Scene(s, k), k.slope = 0, Tiled(s), NEW green, Exact(s, k, green, 2, 1),
         NEW color \in {0, 2}
  PROVE  /\ Whole(s, Differences(s, green, color))
         /\ \A x, y : (Inner(s, 4, x, y) \/ (Inner(s, 1, x, y) /\ fc(s, x, y) = color)) =>
               Differences(s, green, color)[Index(s, x, y)] = Offset(k, Hue(color))
<1> DEFINE differences == Difference(s, green, color)
           Diff(x, y, sites) ==
             IF fc(s, x, y) = color THEN differences[Index(s, x, y)]
             ELSE IF sites = {} THEN 0
             ELSE WeightedMean(s, differences, x, y, sites)
           At(x, y) == Diff(x, y, Around(s, x, y, 3, color))
           c == Offset(k, Hue(color))
           f == [i \in 1 .. s.w * s.h |-> At((i - 1) % s.w, (i - 1) \div s.w)]
           g == [p \in (0 .. s.w - 1) \X (0 .. s.h - 1) |-> At(p[1], p[2])]
<1>1. Sized(s) /\ Shades(k) /\ s.w \in Nat /\ s.h \in Nat /\ 3 \in 1 .. 3 /\ 1 \in Nat /\ 3 \in Nat
  BY SizeType DEF Scene
<1>2. /\ Whole(s, differences)
      /\ \A x, y : Inner(s, 1, x, y) /\ fc(s, x, y) = color => differences[Index(s, x, y)] = c
  BY <1>1, DifferenceExact
<1>3. c \in Int
  <2>1. 0 \in Int
    OBVIOUS
  <2> QED
    BY <1>1, <2>1, HueType, OffsetIs
<1> HIDE DEF differences, c
<1>4. ASSUME NEW x \in 0 .. s.w - 1, NEW y \in 0 .. s.h - 1 PROVE At(x, y) \in Int
  <2> DEFINE sites == Around(s, x, y, 3, color)
  <2>1. differences[Index(s, x, y)] \in Int
    BY <1>1, <1>2, WholeAt
  <2>2. sites # {} => WeightedMean(s, differences, x, y, sites) \in Int
    BY <1>1, <1>2, WeightedMeanType
  <2>3. At(x, y) = Diff(x, y, sites)
    OBVIOUS
  <2> HIDE DEF At, sites
  <2> QED
    BY <2>1, <2>2, <2>3
<1>5. ASSUME NEW x, NEW y, Inner(s, 4, x, y) PROVE At(x, y) = c
  <2> DEFINE sites == Around(s, x, y, 3, color)
  <2>1. /\ x \in 0 .. s.w - 1 /\ y \in 0 .. s.h - 1 /\ x \in Int /\ y \in Int
        /\ x \in 3 .. s.w - 4 /\ Inner(s, 1, x, y) /\ color \in {0, 1, 2}
    BY <1>1, <1>5 DEF Inner
  <2>2. sites # {}
    BY <1>1, <2>1, TileNear
  <2>3. \A p \in sites : differences[Index(s, p[1], p[2])] = c
    <3> SUFFICES ASSUME NEW p \in sites PROVE differences[Index(s, p[1], p[2])] = c
      OBVIOUS
    <3>1. /\ p[1] \in 0 .. s.w - 1 /\ p[2] \in 0 .. s.h - 1
          /\ p[1] \in x - 3 .. x + 3 /\ p[2] \in y - 3 .. y + 3
          /\ fc(s, p[1], p[2]) = color
      BY <1>1, <2>1, AroundInside
    <3>2. Inner(s, 1, p[1], p[2])
      <4> DEFINE i == p[1]
                 j == p[2]
      <4>1. i \in x - 3 .. x + 3 /\ j \in y - 3 .. y + 3
        BY <3>1
      <4> HIDE DEF i, j
      <4>2. i \in 1 .. s.w - 1 - 1 /\ j \in 1 .. s.h - 1 - 1
        BY <1>1, <1>5, <4>1 DEF Inner
      <4> QED
        BY <4>2 DEF Inner, i, j
    <3> QED
      BY <1>2, <3>1, <3>2
  <2>4. WeightedMean(s, differences, x, y, sites) = c
    BY <1>1, <1>3, <2>1, <2>2, <2>3, WeightedMeanIs
  <2>5. fc(s, x, y) = color => differences[Index(s, x, y)] = c
    BY <1>2, <2>1
  <2>6. At(x, y) = Diff(x, y, sites)
    OBVIOUS
  <2> HIDE DEF At, sites
  <2> QED
    BY <2>2, <2>4, <2>5, <2>6
<1>6. ASSUME NEW x, NEW y, Inner(s, 1, x, y), fc(s, x, y) = color PROVE At(x, y) = c
  BY <1>2, <1>6
<1>7. Fills(s, f, g)
  <2> HIDE DEF At
  <2> QED
    BY <1>1, <1>4, EntryPosition DEF Fills
<1>8. Differences(s, green, color) = SubSeq(f, 1, s.w * s.h)
  BY DEF Differences, Spread, differences, Plane
<1>9. \A x \in 0 .. s.w - 1, y \in 0 .. s.h - 1 : g[<<x, y>>] = At(x, y)
  <2> HIDE DEF At
  <2> QED
    OBVIOUS
<1> HIDE DEF f, g, At
<1>10. /\ Whole(s, Differences(s, green, color))
      /\ \A x \in 0 .. s.w - 1, y \in 0 .. s.h - 1 : (Differences(s, green, color))[Index(s, x, y)] = At(x, y)
  <2>1. Whole(s, Differences(s, green, color)) /\ Laid(s, Differences(s, green, color), g)
    BY <1>1, <1>7, <1>8, PlaneIs
  <2>2. ASSUME NEW x \in 0 .. s.w - 1, NEW y \in 0 .. s.h - 1
        PROVE  (Differences(s, green, color))[Index(s, x, y)] = At(x, y)
    <3>1. (Differences(s, green, color))[Index(s, x, y)] = g[<<x, y>>]
      BY <2>1 DEF Laid
    <3> QED
      BY <1>9, <3>1
  <2> QED
    BY <2>1, <2>2
<1>11. ASSUME NEW x, NEW y, Inner(s, 4, x, y) \/ (Inner(s, 1, x, y) /\ fc(s, x, y) = color)
       PROVE  Differences(s, green, color)[Index(s, x, y)] = c
  <2>1. x \in 0 .. s.w - 1 /\ y \in 0 .. s.h - 1
    BY <1>1, <1>11 DEF Inner
  <2>2. Differences(s, green, color)[Index(s, x, y)] = At(x, y)
    BY <1>10, <2>1
  <2>3. At(x, y) = c
    BY <1>5, <1>6, <1>11
  <2> QED
    BY <2>2, <2>3
<1> QED
  BY <1>10, <1>11 DEF c

LEMMA AddedExact ==
  ASSUME NEW s, NEW k, Scene(s, k), NEW c \in 1 .. 3, NEW green, Exact(s, k, green, 2, 1),
         NEW diff, Whole(s, diff), \A x, y : Inner(s, 4, x, y) => diff[Index(s, x, y)] = Offset(k, c)
  PROVE  Exact(s, k, Added(s, green, diff), c, 4)
<1> DEFINE At(x, y) == green[Index(s, x, y)] + diff[Index(s, x, y)]
           f == [i \in 1 .. s.w * s.h |-> At((i - 1) % s.w, (i - 1) \div s.w)]
           g == [p \in (0 .. s.w - 1) \X (0 .. s.h - 1) |-> At(p[1], p[2])]
<1>1. Sized(s) /\ Shades(k) /\ s.w \in Nat /\ s.h \in Nat /\ 4 \in Nat
  BY SizeType DEF Scene
<1>2. ASSUME NEW x \in 0 .. s.w - 1, NEW y \in 0 .. s.h - 1 PROVE At(x, y) \in Int
  <2> DEFINE a == green[Index(s, x, y)]
             b == diff[Index(s, x, y)]
  <2>1. a \in Int /\ b \in Int
    BY <1>1, WholeAt DEF Exact
  <2> HIDE DEF a, b
  <2>2. a + b \in Int
    BY <2>1
  <2> QED
    BY <2>2 DEF a, b
<1>3. ASSUME NEW x, NEW y, Inner(s, 4, x, y) PROVE At(x, y) = Sub * Tone(k, c, x, y)
  <2>1. x \in Int /\ y \in Int /\ Inner(s, 1, x, y)
    BY <1>1, <1>3 DEF Inner
  <2>2. green[Index(s, x, y)] = Sub * Tone(k, 2, x, y)
    BY <2>1 DEF Exact
  <2>3. diff[Index(s, x, y)] = Offset(k, c)
    BY <1>3
  <2>4. (Sub * Tone(k, 2, x, y)) + Offset(k, c) = Sub * Tone(k, c, x, y)
    BY <1>1, <2>1, OffsetIs
  <2> QED
    BY <2>2, <2>3, <2>4
<1>4. Fills(s, f, g)
  <2> HIDE DEF At
  <2> QED
    BY <1>1, <1>2, EntryPosition DEF Fills
<1>5. Added(s, green, diff) = SubSeq(f, 1, s.w * s.h)
  BY DEF Added, Plane
<1>6. \A x \in 0 .. s.w - 1, y \in 0 .. s.h - 1 : g[<<x, y>>] = At(x, y)
  <2> HIDE DEF At
  <2> QED
    OBVIOUS
<1> HIDE DEF f, g, At
<1>7. /\ Whole(s, Added(s, green, diff))
      /\ \A x \in 0 .. s.w - 1, y \in 0 .. s.h - 1 : (Added(s, green, diff))[Index(s, x, y)] = At(x, y)
  <2>1. Whole(s, Added(s, green, diff)) /\ Laid(s, Added(s, green, diff), g)
    BY <1>1, <1>4, <1>5, PlaneIs
  <2>2. ASSUME NEW x \in 0 .. s.w - 1, NEW y \in 0 .. s.h - 1
        PROVE  (Added(s, green, diff))[Index(s, x, y)] = At(x, y)
    <3>1. (Added(s, green, diff))[Index(s, x, y)] = g[<<x, y>>]
      BY <2>1 DEF Laid
    <3> QED
      BY <1>6, <3>1
  <2> QED
    BY <2>1, <2>2
<1> QED
  BY <1>1, <1>3, <1>7, InnerInside DEF Exact

LEMMA MarkesteijnColoursExact ==
  ASSUME NEW s, NEW k, Scene(s, k), k.slope = 0, Tiled(s), NEW green, Exact(s, k, green, 2, 1)
  PROVE  Pictured(s, k, MarkesteijnColours(s, green))
<1> DEFINE Colour(c) == Added(s, green, Differences(s, green, c))
<1>1. MarkesteijnColours(s, green) = Interleaved(s, Truncated, Colour(0), green, Colour(2))
  BY DEF MarkesteijnColours
<1>2. Exact(s, k, Colour(0), 1, 4) /\ Exact(s, k, Colour(2), 3, 4)
  <2>1. Hue(0) = 1 /\ Hue(2) = 3 /\ 1 \in 1 .. 3 /\ 3 \in 1 .. 3
    BY DEF Hue
  <2>2. ASSUME NEW color \in {0, 2}
        PROVE  /\ Whole(s, Differences(s, green, color))
               /\ \A x, y : Inner(s, 4, x, y) =>
                     Differences(s, green, color)[Index(s, x, y)] = Offset(k, Hue(color))
    BY DifferencesExact
  <2> QED
    BY <2>1, <2>2, AddedExact
<1> HIDE DEF Colour
<1>3. 1 \in 0 .. 4 /\ 4 \in 0 .. 4 /\ 1 \in 1 .. 3 /\ 2 \in 1 .. 3 /\ 3 \in 1 .. 3
  OBVIOUS
<1>4. TruncatesTo(s, k, Colour(0), 1) /\ TruncatesTo(s, k, green, 2) /\ TruncatesTo(s, k, Colour(2), 3)
  BY <1>2, <1>3, ExactTruncatesTo
<1> QED
  BY <1>1, <1>4, InterleavedTruncated

(* What the difference says of green is what green already is.              *)
LEMMA RefinedExact ==
  ASSUME NEW s, NEW k, Scene(s, k), Tiled(s), NEW green, Exact(s, k, green, 2, 1),
         NEW red_diff, Whole(s, red_diff), NEW blue_diff, Whole(s, blue_diff),
         \A x, y : Inner(s, 1, x, y) /\ fc(s, x, y) = 0 => red_diff[Index(s, x, y)] = Offset(k, 1),
         \A x, y : Inner(s, 1, x, y) /\ fc(s, x, y) = 2 => blue_diff[Index(s, x, y)] = Offset(k, 3)
  PROVE  Exact(s, k, Refined(s, green, red_diff, blue_diff), 2, 1)
<1> DEFINE Half(i, u) == (green[i] + u) \div 2
           At(x, y) ==
             CASE fc(s, x, y) = 0 -> Half(Index(s, x, y), (Sub * get(s, x, y)) - red_diff[Index(s, x, y)])
               [] fc(s, x, y) = 2 -> Half(Index(s, x, y), (Sub * get(s, x, y)) - blue_diff[Index(s, x, y)])
               [] fc(s, x, y) = 1 -> green[Index(s, x, y)]
           f == [i \in 1 .. s.w * s.h |-> At((i - 1) % s.w, (i - 1) \div s.w)]
           g == [p \in (0 .. s.w - 1) \X (0 .. s.h - 1) |-> At(p[1], p[2])]
<1>1. Sized(s) /\ Shades(k) /\ s.w \in Nat /\ s.h \in Nat /\ 1 \in Nat
  BY SizeType DEF Scene
<1>2. ASSUME NEW x \in 0 .. s.w - 1, NEW y \in 0 .. s.h - 1 PROVE At(x, y) \in Int
  <2> DEFINE a == get(s, x, y)
             b == green[Index(s, x, y)]
             r == red_diff[Index(s, x, y)]
             u == blue_diff[Index(s, x, y)]
  <2>1. a \in Int
    <3>1. x \in Int /\ y \in Int
      BY <1>1
    <3> QED
      BY <3>1, GetType
  <2>2. b \in Int /\ r \in Int /\ u \in Int
    BY <1>1, WholeAt DEF Exact
  <2>3. fc(s, x, y) \in {0, 1, 2}
    BY <1>1, TileColours
  <2>4. At(x, y) \in {(b + ((Sub * a) - r)) \div 2, (b + ((Sub * a) - u)) \div 2, b}
    BY <2>3
  <2> HIDE DEF a, b, r, u, At
  <2>5. (b + ((Sub * a) - r)) \div 2 \in Int /\ (b + ((Sub * a) - u)) \div 2 \in Int
    <3>1. Sub * a \in Int
      BY <2>1, QuarterIs
    <3> DEFINE c == Sub * a
    <3> HIDE DEF c
    <3>2. (b + (c - r)) \div 2 \in Int /\ (b + (c - u)) \div 2 \in Int
      BY <2>2, <3>1 DEF c
    <3> QED
      BY <3>2 DEF c
  <2> QED
    BY <2>2, <2>4, <2>5
<1>3. ASSUME NEW x, NEW y, Inner(s, 1, x, y) PROVE At(x, y) = Sub * Tone(k, 2, x, y)
  <2> DEFINE c == Sub * Tone(k, 2, x, y)
             j == Index(s, x, y)
  <2>1. x \in 0 .. s.w - 1 /\ y \in 0 .. s.h - 1 /\ x \in Int /\ y \in Int
    BY <1>1, <1>3, InnerInside
  <2>2. fc(s, x, y) \in {0, 1, 2}
    BY <1>1, <2>1, TileColours
  <2>3. green[j] = c /\ c \in Nat
    <3>1. 2 \in 1 .. 3
      OBVIOUS
    <3> QED
      BY <1>3, <2>1, <3>1, LevelIs DEF Exact
  <2>4. ASSUME NEW h \in 1 .. 3, Hue(fc(s, x, y)) = h
        PROVE  (Sub * get(s, x, y)) - Offset(k, h) = c
    <3> DEFINE t == Sub * get(s, x, y)
               d == Offset(k, h)
    <3>1. get(s, x, y) = Tone(k, h, x, y)
      BY <2>1, <2>4, GetScene
    <3>2. d \in Int /\ t - c = d
      BY <1>1, <2>1, <3>1, OffsetIs
    <3>3. t \in Int
      <4>1. Tone(k, h, x, y) \in Int
        BY <1>1, <2>1, ToneType
      <4> QED
        BY <3>1, <4>1, QuarterIs
    <3> HIDE DEF t, d, c
    <3>4. t - d = c
      BY <2>3, <3>2, <3>3
    <3> QED
      BY <3>4 DEF t, d
  <2>5. (c + c) \div 2 = c
    <3> HIDE DEF c
    <3> QED
      BY <2>3
  <2>6. CASE fc(s, x, y) = 0
    <3>1. red_diff[j] = Offset(k, 1)
      BY <1>3, <2>6
    <3>2. (Sub * get(s, x, y)) - red_diff[j] = c
      <4>1. Hue(fc(s, x, y)) = 1 /\ 1 \in 1 .. 3
        BY <2>6 DEF Hue
      <4> QED
        BY <2>4, <3>1, <4>1
    <3>3. At(x, y) = (green[j] + ((Sub * get(s, x, y)) - red_diff[j])) \div 2
      BY <2>6
    <3> HIDE DEF At, c, j
    <3> QED
      BY <2>3, <2>5, <3>2, <3>3 DEF c
  <2>7. CASE fc(s, x, y) = 2
    <3>1. blue_diff[j] = Offset(k, 3)
      BY <1>3, <2>7
    <3>2. (Sub * get(s, x, y)) - blue_diff[j] = c
      <4>1. Hue(fc(s, x, y)) = 3 /\ 3 \in 1 .. 3
        BY <2>7 DEF Hue
      <4> QED
        BY <2>4, <3>1, <4>1
    <3>3. At(x, y) = (green[j] + ((Sub * get(s, x, y)) - blue_diff[j])) \div 2
      BY <2>7
    <3> HIDE DEF At, c, j
    <3> QED
      BY <2>3, <2>5, <3>2, <3>3 DEF c
  <2>8. CASE fc(s, x, y) = 1
    <3>1. At(x, y) = green[j]
      BY <2>8
    <3> HIDE DEF At
    <3> QED
      BY <2>3, <3>1
  <2> QED
    BY <2>2, <2>6, <2>7, <2>8
<1>4. Fills(s, f, g)
  <2> HIDE DEF At
  <2> QED
    BY <1>1, <1>2, EntryPosition DEF Fills
<1>5. Refined(s, green, red_diff, blue_diff) = SubSeq(f, 1, s.w * s.h)
  BY DEF Refined, Plane
<1>6. \A x \in 0 .. s.w - 1, y \in 0 .. s.h - 1 : g[<<x, y>>] = At(x, y)
  <2> HIDE DEF At
  <2> QED
    OBVIOUS
<1> HIDE DEF f, g, At
<1>7. /\ Whole(s, Refined(s, green, red_diff, blue_diff))
      /\ \A x \in 0 .. s.w - 1, y \in 0 .. s.h - 1 : (Refined(s, green, red_diff, blue_diff))[Index(s, x, y)] = At(x, y)
  <2>1. Whole(s, Refined(s, green, red_diff, blue_diff)) /\ Laid(s, Refined(s, green, red_diff, blue_diff), g)
    BY <1>1, <1>4, <1>5, PlaneIs
  <2>2. ASSUME NEW x \in 0 .. s.w - 1, NEW y \in 0 .. s.h - 1
        PROVE  (Refined(s, green, red_diff, blue_diff))[Index(s, x, y)] = At(x, y)
    <3>1. (Refined(s, green, red_diff, blue_diff))[Index(s, x, y)] = g[<<x, y>>]
      BY <2>1 DEF Laid
    <3> QED
      BY <1>6, <3>1
  <2> QED
    BY <2>1, <2>2
<1> QED
  BY <1>1, <1>3, <1>7, InnerInside DEF Exact

(* The two Markesteijn algorithms, of an X-Trans view of such a scene.      *)
LEMMA MarkesteijnExact ==
  ASSUME NEW s, NEW k, Scene(s, k), k.slope = 0, Tiled(s)
  PROVE  Pictured(s, k, MarkesteijnOf(s))
BY XTransGreenExact, MarkesteijnColoursExact DEF MarkesteijnOf

LEMMA Markesteijn3PassExact ==
  ASSUME NEW s, NEW k, Scene(s, k), k.slope = 0, Tiled(s)
  PROVE  Pictured(s, k, Markesteijn3PassOf(s))
<1> DEFINE green == XTransGreen(s, Samples(s))
           red == Differences(s, green, 0)
           blue == Differences(s, green, 2)
<1>1. Exact(s, k, green, 2, 1)
  BY XTransGreenExact
<1> HIDE DEF green
<1>2. /\ Whole(s, red) /\ Whole(s, blue)
      /\ \A x, y : Inner(s, 1, x, y) /\ fc(s, x, y) = 0 => red[Index(s, x, y)] = Offset(k, 1)
      /\ \A x, y : Inner(s, 1, x, y) /\ fc(s, x, y) = 2 => blue[Index(s, x, y)] = Offset(k, 3)
  <2>1. Hue(0) = 1 /\ Hue(2) = 3
    BY DEF Hue
  <2>2. ASSUME NEW color \in {0, 2}
        PROVE  /\ Whole(s, Differences(s, green, color))
               /\ \A x, y : Inner(s, 1, x, y) /\ fc(s, x, y) = color =>
                     Differences(s, green, color)[Index(s, x, y)] = Offset(k, Hue(color))
    BY <1>1, DifferencesExact
  <2> QED
    BY <2>1, <2>2
<1>3. Markesteijn3PassOf(s) = MarkesteijnColours(s, Refined(s, green, red, blue))
  BY DEF Markesteijn3PassOf, ThirdPass, green
<1> HIDE DEF red, blue
<1>4. Exact(s, k, Refined(s, green, red, blue), 2, 1)
  BY <1>1, <1>2, RefinedExact
<1> QED
  BY <1>3, <1>4, MarkesteijnColoursExact

(* The fast algorithm: the mean of the nearest sites of a colour.           *)
LEMMA ScaledMeanType ==
  ASSUME NEW D, IsFiniteSet(D), D # {}, NEW g \in [D -> Int]
  PROVE  (Sub * SumFunction(g)) \div Cardinality(D) \in Int
<1> DEFINE a == SumFunction(g)
           b == Cardinality(D)
<1>1. a \in Int
  BY SumType
<1>2. b \in Nat \ {0}
  BY FS_CardinalityType, FS_EmptySet
<1> HIDE DEF a, b
<1> DEFINE c == Sub * a
<1>3. c \in Int
  BY <1>1, QuarterIs
<1> HIDE DEF c
<1>4. c \div b \in Int
  BY <1>2, <1>3
<1> QED
  BY <1>4 DEF a, b, c

LEMMA ScaledMeanOfEquals ==
  ASSUME NEW D, IsFiniteSet(D), D # {}, NEW v \in Int, NEW g, DOMAIN g = D, \A p \in D : g[p] = v
  PROVE  (Sub * SumFunction(g)) \div Cardinality(D) = Sub * v
<1> DEFINE b == Cardinality(D)
<1>1. SumFunction(g) = v * b /\ b \in Nat \ {0}
  BY MeanOfEquals
<1> HIDE DEF b
<1>2. Sub * (v * b) = (Sub * v) * b /\ Sub * v \in Int
  BY <1>1, QuarterIs
<1>3. ((Sub * v) * b) \div b = Sub * v
  BY <1>1, <1>2, DivideExact
<1> QED
  BY <1>1, <1>2, <1>3 DEF b

LEMMA FastPlaneExact ==
  ASSUME NEW s, NEW k, Scene(s, k), k.slope = 0, Tiled(s), NEW color \in {0, 1, 2}
  PROVE  Exact(s, k, FastPlane(s, color), Hue(color), 3)
<1> DEFINE Mean(sites) == (Sub * SumFunction([p \in sites |-> get(s, p[1], p[2])])) \div Cardinality(sites)
           Near(x, y, r) == Around(s, x, y, r, color)
           At(x, y) == CASE fc(s, x, y) = color -> Sub * get(s, x, y)
                         [] fc(s, x, y) # color /\ Near(x, y, 1) # {} -> Mean(Near(x, y, 1))
                         [] fc(s, x, y) # color /\ Near(x, y, 1) = {} /\ Near(x, y, 2) # {} ->
                                Mean(Near(x, y, 2))
                         [] fc(s, x, y) # color /\ Near(x, y, 2) = {} /\ Near(x, y, 3) # {} ->
                                Mean(Near(x, y, 3))
                         [] OTHER -> Sub * get(s, x, y)
           v == k.shade[Hue(color)]
           f == [i \in 1 .. s.w * s.h |-> At((i - 1) % s.w, (i - 1) \div s.w)]
           g == [p \in (0 .. s.w - 1) \X (0 .. s.h - 1) |-> At(p[1], p[2])]
<1>1. /\ Sized(s) /\ Shades(k) /\ s.w \in Nat /\ s.h \in Nat /\ 3 \in Nat /\ Hue(color) \in 1 .. 3
      /\ v \in Int
  <2>1. Hue(color) \in 1 .. 3
    BY HueType
  <2> QED
    BY <2>1, SizeType DEF Scene, Shades
<1> HIDE DEF v
<1>2. ASSUME NEW x \in 0 .. s.w - 1, NEW y \in 0 .. s.h - 1, NEW r \in 1 .. 3
      PROVE  /\ IsFiniteSet(Near(x, y, r))
             /\ \A p \in Near(x, y, r) : /\ p[1] \in 0 .. s.w - 1 /\ p[2] \in 0 .. s.h - 1
                                         /\ p[1] \in Int /\ p[2] \in Int
                                         /\ fc(s, p[1], p[2]) = color
  <2>1. r \in Nat
    OBVIOUS
  <2>2. /\ IsFiniteSet(Near(x, y, r))
        /\ \A p \in Near(x, y, r) : /\ p[1] \in 0 .. s.w - 1 /\ p[2] \in 0 .. s.h - 1
                                    /\ fc(s, p[1], p[2]) = color
    <3> DEFINE D == Around(s, x, y, r, color)
    <3>1. /\ IsFiniteSet(D)
          /\ \A p \in D : /\ p[1] \in 0 .. s.w - 1 /\ p[2] \in 0 .. s.h - 1
                          /\ p[1] \in x - r .. x + r /\ p[2] \in y - r .. y + r
                          /\ fc(s, p[1], p[2]) = color
      BY <1>1, <2>1, AroundInside
    <3> HIDE DEF D
    <3> QED
      BY <3>1 DEF D
  <2>3. \A i : (i \in 0 .. s.w - 1 \/ i \in 0 .. s.h - 1) => i \in Int
    BY <1>1
  <2> HIDE DEF Near
  <2> QED
    BY <2>2, <2>3
<1>3. ASSUME NEW x \in 0 .. s.w - 1, NEW y \in 0 .. s.h - 1 PROVE At(x, y) \in Int
  <2>1. Sub * get(s, x, y) \in Int
    <3> DEFINE a == get(s, x, y)
    <3>1. x \in Int /\ y \in Int
      BY <1>1
    <3>2. a \in Int
      BY <3>1, GetType
    <3> HIDE DEF a
    <3>3. Sub * a \in Int
      BY <3>2, QuarterIs
    <3> QED
      BY <3>3 DEF a
  <2>2. ASSUME NEW r \in 1 .. 3, Near(x, y, r) # {} PROVE Mean(Near(x, y, r)) \in Int
    <3> DEFINE D == Near(x, y, r)
               values == [p \in D |-> get(s, p[1], p[2])]
    <3>1. IsFiniteSet(D) /\ \A p \in D : p[1] \in Int /\ p[2] \in Int
      BY <1>2
    <3>2. values \in [D -> Int]
      <4> HIDE DEF D
      <4> QED
        BY <3>1, GetType
    <3>3. Mean(D) = (Sub * SumFunction(values)) \div Cardinality(D)
      OBVIOUS
    <3> HIDE DEF Mean, D, values
    <3> QED
      BY <2>2, <3>1, <3>2, <3>3, ScaledMeanType DEF D
  <2>3. /\ Near(x, y, 1) # {} => Mean(Near(x, y, 1)) \in Int
        /\ Near(x, y, 2) # {} => Mean(Near(x, y, 2)) \in Int
        /\ Near(x, y, 3) # {} => Mean(Near(x, y, 3)) \in Int
    <3> HIDE DEF Mean, Near
    <3> QED
      BY <2>2
  <2> HIDE DEF Mean, Near
  <2> QED
    BY <2>1, <2>3
<1>4. ASSUME NEW x \in 0 .. s.w - 1, NEW y \in 0 .. s.h - 1, fc(s, x, y) = color
      PROVE  get(s, x, y) = v
  <2>1. x \in Int /\ y \in Int
    BY <1>1
  <2>2. Tone(k, Hue(color), x, y) = v
    BY <1>1, <2>1, ToneEven DEF v
  <2> QED
    BY <1>4, <2>2, GetScene
<1>5. ASSUME NEW x, NEW y, Inner(s, 3, x, y)
      PROVE  At(x, y) = Sub * Tone(k, Hue(color), x, y)
  <2>1. x \in 0 .. s.w - 1 /\ y \in 0 .. s.h - 1 /\ x \in Int /\ y \in Int /\ x \in 3 .. s.w - 4
    BY <1>1, <1>5 DEF Inner
  <2>2. ASSUME NEW r \in 1 .. 3, Near(x, y, r) # {} PROVE Mean(Near(x, y, r)) = Sub * v
    <3> DEFINE D == Near(x, y, r)
               values == [p \in D |-> get(s, p[1], p[2])]
    <3>1. /\ IsFiniteSet(D)
          /\ \A p \in D : /\ p[1] \in 0 .. s.w - 1 /\ p[2] \in 0 .. s.h - 1
                          /\ fc(s, p[1], p[2]) = color
      BY <1>2, <2>1
    <3>2. DOMAIN values = D /\ \A p \in D : values[p] = v
      <4> HIDE DEF D
      <4> QED
        BY <1>4, <3>1
    <3>3. Mean(D) = (Sub * SumFunction(values)) \div Cardinality(D)
      OBVIOUS
    <3> HIDE DEF Mean, D, values
    <3> QED
      BY <1>1, <2>2, <3>1, <3>2, <3>3, ScaledMeanOfEquals DEF D
  <2>3. /\ Near(x, y, 1) # {} => Mean(Near(x, y, 1)) = Sub * v
        /\ Near(x, y, 2) # {} => Mean(Near(x, y, 2)) = Sub * v
        /\ Near(x, y, 3) # {} => Mean(Near(x, y, 3)) = Sub * v
    <3> HIDE DEF Mean, Near
    <3> QED
      BY <2>2
  <2>4. Near(x, y, 3) # {}
    BY <1>1, <2>1, TileNear
  <2>5. fc(s, x, y) = color => Sub * get(s, x, y) = Sub * v
    BY <1>4, <2>1
  <2>6. Tone(k, Hue(color), x, y) = v
    BY <1>1, <2>1, ToneEven DEF v
  <2> HIDE DEF Mean, Near
  <2> QED
    BY <2>3, <2>4, <2>5, <2>6
<1> HIDE DEF Mean, Near
<1>6. Fills(s, f, g)
  <2> HIDE DEF At
  <2> QED
    BY <1>1, <1>3, EntryPosition DEF Fills
<1>7. FastPlane(s, color) = SubSeq(f, 1, s.w * s.h)
  BY DEF FastPlane, Plane, Mean, Near
<1>8. \A x \in 0 .. s.w - 1, y \in 0 .. s.h - 1 : g[<<x, y>>] = At(x, y)
  <2> HIDE DEF At
  <2> QED
    OBVIOUS
<1> HIDE DEF f, g, At
<1>9. /\ Whole(s, FastPlane(s, color))
      /\ \A x \in 0 .. s.w - 1, y \in 0 .. s.h - 1 : (FastPlane(s, color))[Index(s, x, y)] = At(x, y)
  <2>1. Whole(s, FastPlane(s, color)) /\ Laid(s, FastPlane(s, color), g)
    BY <1>1, <1>6, <1>7, PlaneIs
  <2>2. ASSUME NEW x \in 0 .. s.w - 1, NEW y \in 0 .. s.h - 1
        PROVE  (FastPlane(s, color))[Index(s, x, y)] = At(x, y)
    <3>1. (FastPlane(s, color))[Index(s, x, y)] = g[<<x, y>>]
      BY <2>1 DEF Laid
    <3> QED
      BY <1>8, <3>1
  <2> QED
    BY <2>1, <2>2
<1> QED
  BY <1>1, <1>5, <1>9, InnerInside DEF Exact

LEMMA XTransFastExact ==
  ASSUME NEW s, NEW k, Scene(s, k), k.slope = 0, Tiled(s)
  PROVE  Pictured(s, k, XTransFastOf(s))
<1>1. /\ Hue(0) = 1 /\ Hue(1) = 2 /\ Hue(2) = 3 /\ 3 \in 0 .. 4
      /\ 1 \in 1 .. 3 /\ 2 \in 1 .. 3 /\ 3 \in 1 .. 3
  BY DEF Hue
<1>2. \A color \in {0, 1, 2} : Exact(s, k, FastPlane(s, color), Hue(color), 3)
  BY FastPlaneExact
<1>3. /\ Exact(s, k, FastPlane(s, 0), 1, 3) /\ Exact(s, k, FastPlane(s, 1), 2, 3)
      /\ Exact(s, k, FastPlane(s, 2), 3, 3)
  BY <1>1, <1>2
<1>4. /\ TruncatesTo(s, k, FastPlane(s, 0), 1) /\ TruncatesTo(s, k, FastPlane(s, 1), 2)
      /\ TruncatesTo(s, k, FastPlane(s, 2), 3)
  BY <1>1, <1>3, ExactTruncatesTo
<1> QED
  BY <1>4, InterleavedTruncated DEF XTransFastOf

-----------------------------------------------------------------------------
(* The sensor that photographed a scene, and the scene from a position of   *)
(* it.                                                                      *)

SceneType == [shade : [1 .. 3 -> Nat], slope : Nat]
Seen(scene, a, b) == [shade |-> scene.shade, slope |-> scene.slope, start |-> a + b]

LEMMA SeenIs ==
  ASSUME NEW scene \in SceneType, NEW a \in Nat, NEW b \in Nat
  PROVE  /\ Shades(Seen(scene, a, b))
         /\ \A c \in 1 .. 3, x \in Int, y \in Int :
               Tone(Seen(scene, a, b), c, x, y) = SceneColour(scene, x + a, y + b)[c]
<1>1. scene.shade \in [1 .. 3 -> Nat] /\ scene.slope \in Nat
  BY DEF SceneType
<1>2. ASSUME NEW c \in 1 .. 3, NEW x \in Int, NEW y \in Int
      PROVE  Tone(Seen(scene, a, b), c, x, y) = SceneColour(scene, x + a, y + b)[c]
  <2>1. x + y + (a + b) = (x + a) + (y + b)
    OBVIOUS
  <2> QED
    BY <2>1 DEF Tone, Seen, SceneColour
<1>3. Shades(Seen(scene, a, b))
  <2>1. a + b \in Nat
    OBVIOUS
  <2> QED
    BY <1>1, <2>1 DEF Shades, Seen
<1> QED
  BY <1>2, <1>3

(* Every sample is the colour its site has in the scene, and no colour of   *)
(* the scene is above the white level.                                      *)
Took(raw, mosaic, scene) ==
  /\ Framed(raw) /\ scene \in SceneType
  /\ \A x \in 0 .. raw.size.w - 1, y \in 0 .. raw.size.h - 1 :
        /\ raw.data[(y * raw.size.w) + x + 1] = SceneColour(scene, x, y)[MosaicColour(mosaic, x, y) + 1]
        /\ \A c \in 1 .. 3 : SceneColour(scene, x, y)[c] \in 0 .. raw.white_level

(* Where a position of the area is on the sensor.                           *)
LEMMA PlaceIs ==
  ASSUME NEW raw, Framed(raw),
         NEW x \in 0 .. raw.active_area.w - 1, NEW y \in 0 .. raw.active_area.h - 1
  PROVE  /\ x \in Nat /\ y \in Nat /\ raw.active_area.x \in Nat /\ raw.active_area.y \in Nat
         /\ x + raw.active_area.x \in 0 .. raw.size.w - 1
         /\ y + raw.active_area.y \in 0 .. raw.size.h - 1
         /\ Place(raw, x, y) = ((y + raw.active_area.y) * raw.size.w) + (x + raw.active_area.x) + 1
<1> DEFINE W == raw.size.w
           H == raw.size.h
           ax == raw.active_area.x
           ay == raw.active_area.y
           aw == raw.active_area.w
           ah == raw.active_area.h
<1>1. /\ W \in Nat /\ H \in Nat /\ ax \in Nat /\ ay \in Nat /\ aw \in Nat /\ ah \in Nat
      /\ ax + aw <= W /\ ay + ah <= H /\ x \in 0 .. aw - 1 /\ y \in 0 .. ah - 1
  BY DEF Framed
<1> HIDE DEF W, H, ax, ay, aw, ah
<1>2. x \in Nat /\ y \in Nat /\ x + ax \in 0 .. W - 1 /\ y + ay \in 0 .. H - 1
  BY <1>1
<1> DEFINE m == (y + ay) * W
<1>3. m \in Nat
  <2>1. y + ay \in Nat
    BY <1>1, <1>2
  <2> QED
    BY <1>1, <2>1
<1>4. Place(raw, x, y) = m + x + ax + 1
  BY DEF Place, ay, W, ax
<1> HIDE DEF m
<1>5. m + x + ax + 1 = m + (x + ax) + 1
  BY <1>1, <1>2, <1>3
<1> QED
  BY <1>1, <1>2, <1>4, <1>5 DEF W, H, ax, ay, m

-----------------------------------------------------------------------------
(* The sites of the four Bayer mosaics.                                     *)

LEMMA HueOfSite ==
  ASSUME NEW pattern \in Patterns, NEW x \in Nat, NEW y \in Nat
  PROVE  bayer_at(pattern, x, y) + 1 = Hue(cfa_color(pattern, x, y))
<1>1. bayer_at(pattern, x, y) \in {0, 1, 2}
  BY BayerAtType
<1>2. CASE bayer_at(pattern, x, y) = 1
  <2>1. cfa_color(pattern, x, y) \in {1, 3}
    BY <1>2 DEF cfa_color
  <2>2. Hue(1) = 2 /\ Hue(3) = 2
    BY DEF Hue
  <2> QED
    BY <1>2, <2>1, <2>2
<1>3. CASE bayer_at(pattern, x, y) \in {0, 2}
  <2>1. cfa_color(pattern, x, y) = bayer_at(pattern, x, y)
    BY <1>3 DEF cfa_color
  <2>2. Hue(0) = 1 /\ Hue(2) = 3
    BY DEF Hue
  <2> QED
    BY <1>3, <2>1, <2>2
<1> QED
  BY <1>1, <1>2, <1>3

LEMMA BayerAtIs ==
  ASSUME NEW pattern \in Patterns, NEW A, to_array(pattern) = A, NEW x \in Nat, NEW y \in Nat
  PROVE  /\ ((x % 2) = 0 /\ (y % 2) = 0) => bayer_at(pattern, x, y) = A[1]
         /\ ((x % 2) = 1 /\ (y % 2) = 0) => bayer_at(pattern, x, y) = A[2]
         /\ ((x % 2) = 0 /\ (y % 2) = 1) => bayer_at(pattern, x, y) = A[3]
         /\ ((x % 2) = 1 /\ (y % 2) = 1) => bayer_at(pattern, x, y) = A[4]
<1>1. /\ (0 * 2) + 0 + 1 = 1 /\ (0 * 2) + 1 + 1 = 2 /\ (1 * 2) + 0 + 1 = 3 /\ (1 * 2) + 1 + 1 = 4
  OBVIOUS
<1>2. bayer_at(pattern, x, y) = A[((y % 2) * 2) + (x % 2) + 1]
  BY DEF bayer_at
<1> DEFINE a == x % 2
           b == y % 2
<1>3. bayer_at(pattern, x, y) = A[(b * 2) + a + 1]
  BY <1>2
<1> HIDE DEF a, b
<1>4. /\ (a = 0 /\ b = 0) => bayer_at(pattern, x, y) = A[1]
      /\ (a = 1 /\ b = 0) => bayer_at(pattern, x, y) = A[2]
      /\ (a = 0 /\ b = 1) => bayer_at(pattern, x, y) = A[3]
      /\ (a = 1 /\ b = 1) => bayer_at(pattern, x, y) = A[4]
  BY <1>1, <1>3
<1> QED
  BY <1>4 DEF a, b

(* Where red is, by the first row of the mosaic.                            *)
LEMMA SiteAt ==
  ASSUME NEW pattern \in Patterns
  PROVE  \E px \in Nat, py \in Nat : \A x \in Nat, y \in Nat :
            cfa_color(pattern, x, y) = SiteOf((x + px) % 2, (y + py) % 2)
<1> DEFINE px == IF pattern \in {"RGGB", "GBRG"} THEN 0 ELSE 1
           py == IF pattern \in {"RGGB", "GRBG"} THEN 0 ELSE 1
<1> SUFFICES ASSUME NEW x \in Nat, NEW y \in Nat
             PROVE  cfa_color(pattern, x, y) = SiteOf((x + px) % 2, (y + py) % 2)
  <2>1. px \in Nat /\ py \in Nat
    OBVIOUS
  <2> HIDE DEF px, py
  <2> QED
    BY <2>1
<1> DEFINE a == x % 2
           b == y % 2
<1>1. /\ a \in {0, 1} /\ b \in {0, 1} /\ ((x + 0) % 2) = a /\ ((y + 0) % 2) = b
      /\ ((x + 1) % 2) = 1 - a /\ ((y + 1) % 2) = 1 - b
  OBVIOUS
<1>2. x + 1 \in Nat /\ 1 - 0 = 1 /\ 1 - 1 = 0
  OBVIOUS
<1> HIDE DEF a, b
<1>3. CASE pattern = "RGGB"
  <2>1. to_array(pattern) = <<0, 1, 1, 2>> /\ px = 0 /\ py = 0
    BY <1>3 DEF to_array
  <2> DEFINE A == <<0, 1, 1, 2>>
  <2>2. A[1] = 0 /\ A[2] = 1 /\ A[3] = 1 /\ A[4] = 2
    OBVIOUS
  <2> HIDE DEF A, px, py
  <2>3. to_array(pattern) = A
    BY <2>1 DEF A
  <2>4. /\ (a = 0 /\ b = 0) => bayer_at(pattern, x, y) = 0 /\ bayer_at(pattern, x + 1, y) = 1
        /\ (a = 1 /\ b = 0) => bayer_at(pattern, x, y) = 1 /\ bayer_at(pattern, x + 1, y) = 0
        /\ (a = 0 /\ b = 1) => bayer_at(pattern, x, y) = 1 /\ bayer_at(pattern, x + 1, y) = 2
        /\ (a = 1 /\ b = 1) => bayer_at(pattern, x, y) = 2 /\ bayer_at(pattern, x + 1, y) = 1
    BY <1>1, <1>2, <2>2, <2>3, BayerAtIs DEF a, b
  <2>5. cfa_color(pattern, x, y) = SiteOf(a, b)
    BY <1>1, <2>4 DEF cfa_color, SiteOf
  <2> QED
    BY <1>1, <2>1, <2>5
<1>4. CASE pattern = "GRBG"
  <2>1. to_array(pattern) = <<1, 0, 2, 1>> /\ px = 1 /\ py = 0
    BY <1>4 DEF to_array
  <2> DEFINE A == <<1, 0, 2, 1>>
  <2>2. A[1] = 1 /\ A[2] = 0 /\ A[3] = 2 /\ A[4] = 1
    OBVIOUS
  <2> HIDE DEF A, px, py
  <2>3. to_array(pattern) = A
    BY <2>1 DEF A
  <2>4. /\ (a = 0 /\ b = 0) => bayer_at(pattern, x, y) = 1 /\ bayer_at(pattern, x + 1, y) = 0
        /\ (a = 1 /\ b = 0) => bayer_at(pattern, x, y) = 0 /\ bayer_at(pattern, x + 1, y) = 1
        /\ (a = 0 /\ b = 1) => bayer_at(pattern, x, y) = 2 /\ bayer_at(pattern, x + 1, y) = 1
        /\ (a = 1 /\ b = 1) => bayer_at(pattern, x, y) = 1 /\ bayer_at(pattern, x + 1, y) = 2
    BY <1>1, <1>2, <2>2, <2>3, BayerAtIs DEF a, b
  <2>5. cfa_color(pattern, x, y) = SiteOf(1 - a, b)
    BY <1>1, <1>2, <2>4 DEF cfa_color, SiteOf
  <2> QED
    BY <1>1, <2>1, <2>5
<1>5. CASE pattern = "BGGR"
  <2>1. to_array(pattern) = <<2, 1, 1, 0>> /\ px = 1 /\ py = 1
    BY <1>5 DEF to_array
  <2> DEFINE A == <<2, 1, 1, 0>>
  <2>2. A[1] = 2 /\ A[2] = 1 /\ A[3] = 1 /\ A[4] = 0
    OBVIOUS
  <2> HIDE DEF A, px, py
  <2>3. to_array(pattern) = A
    BY <2>1 DEF A
  <2>4. /\ (a = 0 /\ b = 0) => bayer_at(pattern, x, y) = 2 /\ bayer_at(pattern, x + 1, y) = 1
        /\ (a = 1 /\ b = 0) => bayer_at(pattern, x, y) = 1 /\ bayer_at(pattern, x + 1, y) = 2
        /\ (a = 0 /\ b = 1) => bayer_at(pattern, x, y) = 1 /\ bayer_at(pattern, x + 1, y) = 0
        /\ (a = 1 /\ b = 1) => bayer_at(pattern, x, y) = 0 /\ bayer_at(pattern, x + 1, y) = 1
    BY <1>1, <1>2, <2>2, <2>3, BayerAtIs DEF a, b
  <2>5. cfa_color(pattern, x, y) = SiteOf(1 - a, 1 - b)
    BY <1>1, <1>2, <2>4 DEF cfa_color, SiteOf
  <2> QED
    BY <1>1, <2>1, <2>5
<1>6. CASE pattern = "GBRG"
  <2>1. to_array(pattern) = <<1, 2, 0, 1>> /\ px = 0 /\ py = 1
    BY <1>6 DEF to_array
  <2> DEFINE A == <<1, 2, 0, 1>>
  <2>2. A[1] = 1 /\ A[2] = 2 /\ A[3] = 0 /\ A[4] = 1
    OBVIOUS
  <2> HIDE DEF A, px, py
  <2>3. to_array(pattern) = A
    BY <2>1 DEF A
  <2>4. /\ (a = 0 /\ b = 0) => bayer_at(pattern, x, y) = 1 /\ bayer_at(pattern, x + 1, y) = 2
        /\ (a = 1 /\ b = 0) => bayer_at(pattern, x, y) = 2 /\ bayer_at(pattern, x + 1, y) = 1
        /\ (a = 0 /\ b = 1) => bayer_at(pattern, x, y) = 0 /\ bayer_at(pattern, x + 1, y) = 1
        /\ (a = 1 /\ b = 1) => bayer_at(pattern, x, y) = 1 /\ bayer_at(pattern, x + 1, y) = 0
    BY <1>1, <1>2, <2>2, <2>3, BayerAtIs DEF a, b
  <2>5. cfa_color(pattern, x, y) = SiteOf(a, 1 - b)
    BY <1>1, <1>2, <2>4 DEF cfa_color, SiteOf
  <2> QED
    BY <1>1, <2>1, <2>5
<1> QED
  BY <1>3, <1>4, <1>5, <1>6 DEF Patterns

-----------------------------------------------------------------------------
(* Both views of a sensor that photographed a scene are views of the scene. *)

LEMMA FramedView ==
  ASSUME NEW raw, Framed(raw), NEW s, s.w = raw.active_area.w, s.h = raw.active_area.h,
         s.white = raw.white_level
  PROVE  Sized(s)
BY DEF Framed, Sized

LEMMA ViewScene ==
  ASSUME NEW raw, NEW mosaic, NEW scene, Took(raw, mosaic, scene),
         NEW s, s.w = raw.active_area.w, s.h = raw.active_area.h, s.white = raw.white_level,
         NEW f, s.at = SubSeq(f, 1, s.w * s.h),
         \A i \in 1 .. s.w * s.h : f[i] = raw.data[Place(raw, (i - 1) % s.w, (i - 1) \div s.w)],
         \A x \in 0 .. s.w - 1, y \in 0 .. s.h - 1 :
            MosaicColour(mosaic, x + raw.active_area.x, y + raw.active_area.y) + 1 = Hue(fc(s, x, y))
  PROVE  Scene(s, Seen(scene, raw.active_area.x, raw.active_area.y))
<1> DEFINE ax == raw.active_area.x
           ay == raw.active_area.y
           k == Seen(scene, ax, ay)
           g == [p \in (0 .. s.w - 1) \X (0 .. s.h - 1) |-> raw.data[Place(raw, p[1], p[2])]]
<1>1. Framed(raw) /\ Sized(s) /\ scene \in SceneType
  BY FramedView DEF Took
<1>2. /\ Shades(k)
      /\ \A c \in 1 .. 3, x \in Int, y \in Int : Tone(k, c, x, y) = SceneColour(scene, x + ax, y + ay)[c]
  <2>1. ax \in Nat /\ ay \in Nat
    BY <1>1 DEF Framed
  <2> HIDE DEF ax, ay
  <2> QED
    BY <1>1, <2>1, SeenIs
<1> HIDE DEF k
<1>3. ASSUME NEW x \in 0 .. s.w - 1, NEW y \in 0 .. s.h - 1
      PROVE  /\ raw.data[Place(raw, x, y)] = Tone(k, Hue(fc(s, x, y)), x, y)
             /\ \A c \in 1 .. 3 : Tone(k, c, x, y) \in 0 .. s.white
             /\ raw.data[Place(raw, x, y)] \in Int
  <2>1. /\ x \in Nat /\ y \in Nat /\ x + ax \in 0 .. raw.size.w - 1 /\ y + ay \in 0 .. raw.size.h - 1
        /\ Place(raw, x, y) = ((y + ay) * raw.size.w) + (x + ax) + 1
    BY <1>1, PlaceIs
  <2>2. x \in Int /\ y \in Int
    BY <2>1
  <2>3. MosaicColour(mosaic, x + ax, y + ay) + 1 = Hue(fc(s, x, y))
    OBVIOUS
  <2> HIDE DEF ax, ay
  <2>4. /\ raw.data[Place(raw, x, y)] = SceneColour(scene, x + ax, y + ay)[MosaicColour(mosaic, x + ax, y + ay) + 1]
        /\ \A c \in 1 .. 3 : SceneColour(scene, x + ax, y + ay)[c] \in 0 .. raw.white_level
    BY <2>1 DEF Took
  <2>5. Hue(fc(s, x, y)) \in 1 .. 3
    BY HueType
  <2>6. raw.data[Place(raw, x, y)] = Tone(k, Hue(fc(s, x, y)), x, y)
    BY <1>2, <2>2, <2>3, <2>4, <2>5
  <2>7. \A c \in 1 .. 3 : Tone(k, c, x, y) \in 0 .. s.white
    BY <1>2, <2>2, <2>4
  <2>8. Tone(k, Hue(fc(s, x, y)), x, y) \in Int
    BY <1>2, <2>2, <2>5, ToneType
  <2> QED
    BY <2>6, <2>7, <2>8
<1>4. Fills(s, f, g)
  <2>1. g \in [(0 .. s.w - 1) \X (0 .. s.h - 1) -> Int]
    BY <1>3
  <2>2. \A i \in 1 .. s.w * s.h : f[i] = g[<<(i - 1) % s.w, (i - 1) \div s.w>>]
    BY <1>1, EntryPosition
  <2> QED
    BY <2>1, <2>2 DEF Fills
<1>5. Laid(s, s.at, g)
  <2> HIDE DEF g
  <2> QED
    BY <1>1, <1>4, PlaneIs
<1>6. ASSUME NEW x \in 0 .. s.w - 1, NEW y \in 0 .. s.h - 1
      PROVE  s.at[Index(s, x, y)] = Tone(k, Hue(fc(s, x, y)), x, y)
  <2>1. s.at[Index(s, x, y)] = g[<<x, y>>]
    BY <1>5 DEF Laid
  <2>2. g[<<x, y>>] = raw.data[Place(raw, x, y)]
    OBVIOUS
  <2> HIDE DEF g
  <2> QED
    BY <1>3, <2>1, <2>2
<1> QED
  BY <1>1, <1>2, <1>3, <1>6 DEF Scene, k

LEMMA BayerViewScene ==
  ASSUME NEW raw, NEW mosaic \in Patterns, NEW scene, Took(raw, mosaic, scene),
         raw.cfa_pattern = mosaic
  PROVE  /\ Scene(BayerView(raw), Seen(scene, raw.active_area.x, raw.active_area.y))
         /\ Checkered(BayerView(raw))
         /\ BayerView(raw).w = raw.active_area.w /\ BayerView(raw).h = raw.active_area.h
<1> DEFINE s == BayerView(raw)
           a == raw.active_area
           ax == a.x
           ay == a.y
           f == [i \in 1 .. a.w * a.h |-> raw.data[Place(raw, (i - 1) % a.w, (i - 1) \div a.w)]]
           e == [i \in 1 .. a.w * a.h |->
                   cfa_color(raw.cfa_pattern, ((i - 1) % a.w) + ax, ((i - 1) \div a.w) + ay)]
           g == [p \in (0 .. s.w - 1) \X (0 .. s.h - 1) |-> cfa_color(mosaic, p[1] + ax, p[2] + ay)]
<1>1. /\ s.w = a.w /\ s.h = a.h /\ s.white = raw.white_level
      /\ s.at = SubSeq(f, 1, s.w * s.h) /\ s.fc = SubSeq(e, 1, s.w * s.h)
  BY DEF BayerView, View
<1> HIDE DEF s
<1>2. Framed(raw) /\ Sized(s)
  BY <1>1, FramedView DEF Took
<1>3. \A i \in 1 .. s.w * s.h : f[i] = raw.data[Place(raw, (i - 1) % s.w, (i - 1) \div s.w)]
  BY <1>1
<1> HIDE DEF f
<1>4. ASSUME NEW x \in 0 .. s.w - 1, NEW y \in 0 .. s.h - 1
      PROVE  x + ax \in Nat /\ y + ay \in Nat /\ x \in Nat /\ y \in Nat /\ ax \in Nat /\ ay \in Nat
  <2>1. x \in Nat /\ y \in Nat /\ ax \in Nat /\ ay \in Nat
    BY <1>1, <1>2, PlaceIs
  <2> HIDE DEF ax, ay
  <2> QED
    BY <2>1
<1>5. g \in [(0 .. s.w - 1) \X (0 .. s.h - 1) -> Int]
  <2>1. ASSUME NEW x \in 0 .. s.w - 1, NEW y \in 0 .. s.h - 1 PROVE cfa_color(mosaic, x + ax, y + ay) \in Int
    <3>1. cfa_color(mosaic, x + ax, y + ay) \in {0, 1, 2, 3}
      BY <1>4, BayerAtType
    <3> QED
      BY <3>1
  <2> HIDE DEF ax, ay
  <2> QED
    BY <2>1
<1>6. \A i \in 1 .. s.w * s.h : e[i] = g[<<(i - 1) % s.w, (i - 1) \div s.w>>]
  <2>1. \A i \in 1 .. s.w * s.h : ((i - 1) % s.w) \in 0 .. s.w - 1 /\ ((i - 1) \div s.w) \in 0 .. s.h - 1
    BY <1>2, EntryPosition
  <2>2. \A i \in 1 .. s.w * s.h : e[i] = cfa_color(mosaic, ((i - 1) % s.w) + ax, ((i - 1) \div s.w) + ay)
    BY <1>1
  <2> HIDE DEF ax, ay, e
  <2> QED
    BY <2>1, <2>2
<1>7. \A x \in 0 .. s.w - 1, y \in 0 .. s.h - 1 : fc(s, x, y) = cfa_color(mosaic, x + ax, y + ay)
  <2>1. \A x \in 0 .. s.w - 1, y \in 0 .. s.h - 1 : fc(s, x, y) = g[<<x, y>>]
    <3> HIDE DEF e, g
    <3> QED
      <4>1. Fills(s, e, g)
        BY <1>5, <1>6 DEF Fills
      <4>2. Laid(s, s.fc, g)
        BY <1>1, <1>2, <4>1, PlaneIs
      <4> QED
        BY <4>2 DEF Laid, fc
  <2> HIDE DEF ax, ay
  <2> QED
    BY <2>1
<1> HIDE DEF e, g
<1>8. Scene(s, Seen(scene, raw.active_area.x, raw.active_area.y))
  <2>1. ASSUME NEW x \in 0 .. s.w - 1, NEW y \in 0 .. s.h - 1
        PROVE  MosaicColour(mosaic, x + ax, y + ay) + 1 = Hue(fc(s, x, y))
    <3>1. mosaic # "X-Trans"
      BY DEF Patterns
    <3> QED
      BY <1>4, <1>7, <3>1, HueOfSite DEF MosaicColour
  <2> QED
    BY <1>1, <1>3, <2>1, ViewScene
<1>9. Checkered(s)
  <2>1. PICK px \in Nat, py \in Nat : \A x \in Nat, y \in Nat :
          cfa_color(mosaic, x, y) = SiteOf((x + px) % 2, (y + py) % 2)
    BY SiteAt
  <2>2. ax \in Nat /\ ay \in Nat
    BY <1>2 DEF Framed
  <2> HIDE DEF ax, ay
  <2>3. ASSUME NEW x \in 0 .. s.w - 1, NEW y \in 0 .. s.h - 1
        PROVE  fc(s, x, y) = SiteOf((x + (ax + px)) % 2, (y + (ay + py)) % 2)
    <3>1. (x + ax) + px = x + (ax + px) /\ (y + ay) + py = y + (ay + py)
      BY <1>4, <2>2
    <3> QED
      BY <1>4, <1>7, <2>1, <3>1
  <2>4. ax + px \in Nat /\ ay + py \in Nat
    BY <2>2
  <2> QED
    BY <2>3, <2>4 DEF Checkered
<1> QED
  BY <1>1, <1>8, <1>9 DEF s

LEMMA XTransViewScene ==
  ASSUME NEW raw, NEW scene, Took(raw, "X-Trans", scene), raw.xtrans_pattern = XTransStandard
  PROVE  /\ Scene(XTransView(raw), Seen(scene, raw.active_area.x, raw.active_area.y))
         /\ Tiled(XTransView(raw))
         /\ XTransView(raw).w = raw.active_area.w /\ XTransView(raw).h = raw.active_area.h
<1> DEFINE s == XTransView(raw)
           a == raw.active_area
           ax == a.x
           ay == a.y
           f == [i \in 1 .. a.w * a.h |-> raw.data[Place(raw, (i - 1) % a.w, (i - 1) \div a.w)]]
           e == [i \in 1 .. a.w * a.h |->
                   color_at(CellsOf(raw), ((i - 1) % a.w) + ax, ((i - 1) \div a.w) + ay)]
           g == [p \in (0 .. s.w - 1) \X (0 .. s.h - 1) |-> color_at(XTransStandard, p[1] + ax, p[2] + ay)]
<1>1. /\ s.w = a.w /\ s.h = a.h /\ s.white = raw.white_level
      /\ s.at = SubSeq(f, 1, s.w * s.h) /\ s.fc = SubSeq(e, 1, s.w * s.h)
  BY DEF XTransView, View
<1> HIDE DEF s
<1>2. Framed(raw) /\ Sized(s)
  BY <1>1, FramedView DEF Took
<1>3. \A i \in 1 .. s.w * s.h : f[i] = raw.data[Place(raw, (i - 1) % s.w, (i - 1) \div s.w)]
  BY <1>1
<1> HIDE DEF f
<1>4. ASSUME NEW x \in 0 .. s.w - 1, NEW y \in 0 .. s.h - 1
      PROVE  x + ax \in Nat /\ y + ay \in Nat /\ x \in Nat /\ y \in Nat /\ ax \in Nat /\ ay \in Nat
  <2>1. x \in Nat /\ y \in Nat /\ ax \in Nat /\ ay \in Nat
    BY <1>1, <1>2, PlaceIs
  <2> HIDE DEF ax, ay
  <2> QED
    BY <2>1
<1>5. ASSUME NEW x \in 0 .. s.w - 1, NEW y \in 0 .. s.h - 1
      PROVE  color_at(XTransStandard, x + ax, y + ay) \in {0, 1, 2}
  BY <1>4, ColorAtType
<1>6. g \in [(0 .. s.w - 1) \X (0 .. s.h - 1) -> Int]
  <2>1. ASSUME NEW x \in 0 .. s.w - 1, NEW y \in 0 .. s.h - 1
        PROVE  color_at(XTransStandard, x + ax, y + ay) \in Int
    BY <1>5
  <2> HIDE DEF ax, ay
  <2> QED
    BY <2>1
<1>7. \A i \in 1 .. s.w * s.h : e[i] = g[<<(i - 1) % s.w, (i - 1) \div s.w>>]
  <2>1. \A i \in 1 .. s.w * s.h : ((i - 1) % s.w) \in 0 .. s.w - 1 /\ ((i - 1) \div s.w) \in 0 .. s.h - 1
    BY <1>2, EntryPosition
  <2>2. CellsOf(raw) = XTransStandard
    BY DEF CellsOf
  <2>3. \A i \in 1 .. s.w * s.h : e[i] = color_at(XTransStandard, ((i - 1) % s.w) + ax, ((i - 1) \div s.w) + ay)
    BY <1>1, <2>2
  <2> HIDE DEF ax, ay, e
  <2> QED
    BY <2>1, <2>3
<1>8. \A x \in 0 .. s.w - 1, y \in 0 .. s.h - 1 : fc(s, x, y) = color_at(XTransStandard, x + ax, y + ay)
  <2>1. \A x \in 0 .. s.w - 1, y \in 0 .. s.h - 1 : fc(s, x, y) = g[<<x, y>>]
    <3> HIDE DEF e, g
    <3> QED
      <4>1. Fills(s, e, g)
        BY <1>6, <1>7 DEF Fills
      <4>2. Laid(s, s.fc, g)
        BY <1>1, <1>2, <4>1, PlaneIs
      <4> QED
        BY <4>2 DEF Laid, fc
  <2> HIDE DEF ax, ay
  <2> QED
    BY <2>1
<1> HIDE DEF e, g
<1>9. Scene(s, Seen(scene, raw.active_area.x, raw.active_area.y))
  <2>1. 0 + 1 = Hue(0) /\ 1 + 1 = Hue(1) /\ 2 + 1 = Hue(2)
    BY DEF Hue
  <2>2. ASSUME NEW x \in 0 .. s.w - 1, NEW y \in 0 .. s.h - 1
        PROVE  MosaicColour("X-Trans", x + ax, y + ay) + 1 = Hue(fc(s, x, y))
    <3>1. MosaicColour("X-Trans", x + ax, y + ay) = fc(s, x, y)
      BY <1>8 DEF MosaicColour
    <3>2. fc(s, x, y) \in {0, 1, 2}
      BY <1>5, <1>8
    <3> QED
      BY <2>1, <3>1, <3>2
  <2> QED
    BY <1>1, <1>3, <2>2, ViewScene
<1>10. Tiled(s)
  <2>1. ax \in Nat /\ ay \in Nat
    BY <1>2 DEF Framed
  <2> QED
    BY <1>8, <2>1 DEF Tiled
<1> QED
  BY <1>1, <1>9, <1>10 DEF s

-----------------------------------------------------------------------------
(* Bilinear, on the sensor itself.                                          *)

LEMMA GetRawScene ==
  ASSUME NEW raw, NEW mosaic \in Patterns, NEW scene, Took(raw, mosaic, scene),
         NEW x \in 0 .. raw.size.w - 1, NEW y \in 0 .. raw.size.h - 1
  PROVE  GetRaw(raw, x, y) = Tone(Seen(scene, 0, 0), Hue(cfa_color(mosaic, x, y)), x, y)
<1>1. Framed(raw) /\ scene \in SceneType /\ raw.size.w \in Nat /\ raw.size.h \in Nat
      /\ raw.white_level \in Nat
  BY DEF Took, Framed
<1>2. x \in Nat /\ y \in Nat /\ x < raw.size.w /\ y < raw.size.h /\ x + 0 = x /\ y + 0 = y
  BY <1>1
<1>3. mosaic # "X-Trans"
  BY DEF Patterns
<1>4. MosaicColour(mosaic, x, y) + 1 = Hue(cfa_color(mosaic, x, y))
  BY <1>2, <1>3, HueOfSite DEF MosaicColour
<1> DEFINE h == Hue(cfa_color(mosaic, x, y))
<1>5. h \in 1 .. 3
  BY HueType
<1>6. /\ raw.data[(y * raw.size.w) + x + 1] = SceneColour(scene, x, y)[h]
      /\ SceneColour(scene, x, y)[h] \in 0 .. raw.white_level
  BY <1>4, <1>5 DEF Took
<1>7. SceneColour(scene, x, y)[h] \in Nat
  BY <1>1, <1>6
<1>8. Tone(Seen(scene, 0, 0), h, x, y) = SceneColour(scene, x, y)[h]
  <2>1. x \in Int /\ y \in Int /\ 0 \in Nat
    BY <1>2
  <2>2. Tone(Seen(scene, 0, 0), h, x, y) = SceneColour(scene, x + 0, y + 0)[h]
    <3> DEFINE z == 0
    <3>1. z \in Nat
      OBVIOUS
    <3> HIDE DEF z
    <3>2. Tone(Seen(scene, z, z), h, x, y) = SceneColour(scene, x + z, y + z)[h]
      <4>1. \A c \in 1 .. 3, i \in Int, j \in Int :
              Tone(Seen(scene, z, z), c, i, j) = SceneColour(scene, i + z, j + z)[c]
        BY <1>1, <3>1, SeenIs
      <4> HIDE DEF h
      <4> QED
        BY <1>5, <2>1, <4>1
    <3> QED
      BY <3>2 DEF z
  <2> QED
    BY <1>2, <2>2
<1> HIDE DEF h
<1>9. get_pixel(raw, x, y) = SceneColour(scene, x, y)[h]
  BY <1>2, <1>6 DEF get_pixel
<1>10. GetRaw(raw, x, y) = SceneColour(scene, x, y)[h]
  BY <1>7, <1>9, OutcomeAssumption DEF GetRaw, Or0
<1> QED
  BY <1>8, <1>10 DEF h

LEMMA GetRawType ==
  ASSUME NEW raw, NEW mosaic \in Patterns, NEW scene, Took(raw, mosaic, scene),
         NEW x \in Nat, NEW y \in Nat
  PROVE  GetRaw(raw, x, y) \in Nat
<1>1. Framed(raw) /\ scene \in SceneType /\ raw.size.w \in Nat /\ raw.size.h \in Nat
  BY DEF Took, Framed
<1>2. CASE x < raw.size.w /\ y < raw.size.h
  <2>1. x \in 0 .. raw.size.w - 1 /\ y \in 0 .. raw.size.h - 1
    BY <1>1, <1>2
  <2> DEFINE k == Seen(scene, 0, 0)
             h == Hue(cfa_color(mosaic, x, y))
  <2>2. h \in 1 .. 3
    BY HueType
  <2>3. Shades(k)
    <3>1. 0 \in Nat
      OBVIOUS
    <3> QED
      BY <1>1, <3>1, SeenIs
  <2>4. GetRaw(raw, x, y) = Tone(k, h, x, y)
    <3>1. \A i \in 0 .. raw.size.w - 1, j \in 0 .. raw.size.h - 1 :
            GetRaw(raw, i, j) = Tone(k, Hue(cfa_color(mosaic, i, j)), i, j)
      BY GetRawScene
    <3> HIDE DEF k
    <3> QED
      BY <2>1, <3>1
  <2> HIDE DEF k, h
  <2>5. Tone(k, h, x, y) \in Nat
    <3> DEFINE a == k.shade[h]
               m == k.slope
               z == x + y + k.start
    <3>1. a \in Nat /\ m \in Nat /\ k.start \in Nat
      BY <2>2, <2>3 DEF Shades
    <3>2. z \in Nat
      BY <3>1
    <3> HIDE DEF a, m, z
    <3>3. a + (m * z) \in Nat
      BY <3>1, <3>2
    <3> QED
      BY <3>3 DEF Tone, a, m, z
  <2> QED
    BY <2>4, <2>5
<1>3. CASE ~(x < raw.size.w /\ y < raw.size.h)
  <2>1. get_pixel(raw, x, y) = None
    BY <1>3 DEF get_pixel
  <2> QED
    BY <2>1 DEF GetRaw, Or0
<1> QED
  BY <1>2, <1>3

LEMMA BilinearPixelType ==
  ASSUME NEW raw, NEW mosaic \in Patterns, NEW scene, Took(raw, mosaic, scene),
         raw.cfa_pattern = mosaic, NEW x \in Nat, NEW y \in Nat, NEW c \in 1 .. 3
  PROVE  demosaic_pixel_bilinear(raw, x, y)[c] \in Nat
<1> DEFINE l == Most(0, x - 1)
           u == Most(0, y - 1)
           own == GetRaw(raw, x, y)
           across == avg2(GetRaw(raw, l, y), GetRaw(raw, x + 1, y))
           along  == avg2(GetRaw(raw, x, u), GetRaw(raw, x, y + 1))
           cross  == avg4(GetRaw(raw, x, u), GetRaw(raw, x, y + 1),
                          GetRaw(raw, l, y), GetRaw(raw, x + 1, y))
           corners == avg4(GetRaw(raw, l, u), GetRaw(raw, x + 1, u),
                           GetRaw(raw, l, y + 1), GetRaw(raw, x + 1, y + 1))
           site == cfa_color(raw.cfa_pattern, x, y)
<1>1. l \in Nat /\ u \in Nat /\ x + 1 \in Nat /\ y + 1 \in Nat
  BY DEF Most
<1>2. demosaic_pixel_bilinear(raw, x, y) =
        CASE site = 0 -> <<own, cross, corners>>
          [] site = 1 -> <<across, own, along>>
          [] site = 2 -> <<corners, cross, own>>
          [] site = 3 -> <<along, own, across>>
  BY DEF demosaic_pixel_bilinear
<1>3. site \in {0, 1, 2, 3}
  BY BayerAtType
<1> HIDE DEF l, u, site
<1>4. \A a \in Nat, b \in Nat : avg2(a, b) \in Nat
  BY DEF avg2
<1>5. \A a \in Nat, b \in Nat, d \in Nat, e \in Nat : avg4(a, b, d, e) \in Nat
  BY DEF avg4
<1>6. \A i \in Nat, j \in Nat : GetRaw(raw, i, j) \in Nat
  BY GetRawType
<1>7. own \in Nat /\ across \in Nat /\ along \in Nat
  BY <1>1, <1>4, <1>6
<1>8. cross \in Nat /\ corners \in Nat
  <2>1. /\ GetRaw(raw, x, u) \in Nat /\ GetRaw(raw, x, y + 1) \in Nat
        /\ GetRaw(raw, l, y) \in Nat /\ GetRaw(raw, x + 1, y) \in Nat
        /\ GetRaw(raw, l, u) \in Nat /\ GetRaw(raw, x + 1, u) \in Nat
        /\ GetRaw(raw, l, y + 1) \in Nat /\ GetRaw(raw, x + 1, y + 1) \in Nat
    BY <1>1, <1>6
  <2> QED
    BY <1>5, <2>1
<1> HIDE DEF own, across, along, cross, corners
<1>9. CASE site = 0
  BY <1>2, <1>7, <1>8, <1>9
<1>10. CASE site = 1
  BY <1>2, <1>7, <1>8, <1>10
<1>11. CASE site = 2
  BY <1>2, <1>7, <1>8, <1>11
<1>12. CASE site = 3
  BY <1>2, <1>7, <1>8, <1>12
<1> QED
  BY <1>3, <1>9, <1>10, <1>11, <1>12

(* Beside a site lies another site, at its corners a third.                 *)
LEMMA SitesAround ==
  ASSUME NEW mosaic \in Patterns, NEW x \in Nat \ {0}, NEW y \in Nat \ {0}
  PROVE  \E a \in {0, 1}, b \in {0, 1} :
           /\ cfa_color(mosaic, x, y) = SiteOf(a, b)
           /\ \A i \in {x - 1, x + 1} : cfa_color(mosaic, i, y) = SiteOf(1 - a, b)
           /\ \A j \in {y - 1, y + 1} : cfa_color(mosaic, x, j) = SiteOf(a, 1 - b)
           /\ \A i \in {x - 1, x + 1}, j \in {y - 1, y + 1} :
                 cfa_color(mosaic, i, j) = SiteOf(1 - a, 1 - b)
<1>1. PICK px \in Nat, py \in Nat : \A i \in Nat, j \in Nat :
        cfa_color(mosaic, i, j) = SiteOf((i + px) % 2, (j + py) % 2)
  BY SiteAt
<1> DEFINE a == (x + px) % 2
           b == (y + py) % 2
<1>2. x \in Int /\ y \in Int /\ x - 1 \in Nat /\ y - 1 \in Nat /\ x + 1 \in Nat /\ y + 1 \in Nat
  OBVIOUS
<1>3. /\ a \in {0, 1} /\ b \in {0, 1}
      /\ (((x + 1) + px) % 2) = 1 - a /\ (((x - 1) + px) % 2) = 1 - a
      /\ (((y + 1) + py) % 2) = 1 - b /\ (((y - 1) + py) % 2) = 1 - b
  BY <1>2, ParityFlips
<1>4. \A i \in {x - 1, x + 1} : i \in Nat /\ ((i + px) % 2) = 1 - a
  <2> HIDE DEF a
  <2> QED
    BY <1>2, <1>3
<1>5. \A j \in {y - 1, y + 1} : j \in Nat /\ ((j + py) % 2) = 1 - b
  <2> HIDE DEF b
  <2> QED
    BY <1>2, <1>3
<1>6. cfa_color(mosaic, x, y) = SiteOf(a, b)
  BY <1>1
<1>7. \A i \in {x - 1, x + 1} : cfa_color(mosaic, i, y) = SiteOf(1 - a, b)
  <2> SUFFICES ASSUME NEW i \in {x - 1, x + 1} PROVE cfa_color(mosaic, i, y) = SiteOf(1 - a, b)
    OBVIOUS
  <2>1. cfa_color(mosaic, i, y) = SiteOf((i + px) % 2, (y + py) % 2)
    BY <1>1, <1>4
  <2> QED
    BY <1>4, <2>1
<1>8. \A j \in {y - 1, y + 1} : cfa_color(mosaic, x, j) = SiteOf(a, 1 - b)
  <2> SUFFICES ASSUME NEW j \in {y - 1, y + 1} PROVE cfa_color(mosaic, x, j) = SiteOf(a, 1 - b)
    OBVIOUS
  <2>1. cfa_color(mosaic, x, j) = SiteOf((x + px) % 2, (j + py) % 2)
    BY <1>1, <1>5
  <2> QED
    BY <1>5, <2>1
<1>9. \A i \in {x - 1, x + 1}, j \in {y - 1, y + 1} : cfa_color(mosaic, i, j) = SiteOf(1 - a, 1 - b)
  <2> SUFFICES ASSUME NEW i \in {x - 1, x + 1}, NEW j \in {y - 1, y + 1}
               PROVE  cfa_color(mosaic, i, j) = SiteOf(1 - a, 1 - b)
    OBVIOUS
  <2>1. cfa_color(mosaic, i, j) = SiteOf((i + px) % 2, (j + py) % 2)
    BY <1>1, <1>4, <1>5
  <2> QED
    BY <1>4, <1>5, <2>1
<1> HIDE DEF a, b
<1> QED
  BY <1>3, <1>6, <1>7, <1>8, <1>9

LEMMA BilinearPixelExact ==
  ASSUME NEW raw, NEW mosaic \in Patterns, NEW scene, Took(raw, mosaic, scene),
         raw.cfa_pattern = mosaic,
         NEW x \in 1 .. raw.size.w - 2, NEW y \in 1 .. raw.size.h - 2
  PROVE  LET k == Seen(scene, 0, 0)
         IN demosaic_pixel_bilinear(raw, x, y) = <<Tone(k, 1, x, y), Tone(k, 2, x, y), Tone(k, 3, x, y)>>
<1> DEFINE k == Seen(scene, 0, 0)
           own == GetRaw(raw, x, y)
           across == avg2(GetRaw(raw, x - 1, y), GetRaw(raw, x + 1, y))
           along  == avg2(GetRaw(raw, x, y - 1), GetRaw(raw, x, y + 1))
           cross  == avg4(GetRaw(raw, x, y - 1), GetRaw(raw, x, y + 1),
                          GetRaw(raw, x - 1, y), GetRaw(raw, x + 1, y))
           corners == avg4(GetRaw(raw, x - 1, y - 1), GetRaw(raw, x + 1, y - 1),
                           GetRaw(raw, x - 1, y + 1), GetRaw(raw, x + 1, y + 1))
           T(c) == Tone(k, c, x, y)
<1>1. /\ raw.size.w \in Nat /\ raw.size.h \in Nat /\ scene \in SceneType /\ Shades(k)
  <2>1. 0 \in Nat /\ scene \in SceneType
    BY DEF Took
  <2> QED
    BY <2>1, SeenIs DEF Took, Framed
<1> HIDE DEF k
<1>2. /\ x \in Nat \ {0} /\ y \in Nat \ {0} /\ x \in Int /\ y \in Int
      /\ x - 1 \in Int /\ y - 1 \in Int /\ x + 1 \in Int /\ y + 1 \in Int
      /\ x \in 0 .. raw.size.w - 1 /\ x + 1 \in 0 .. raw.size.w - 1 /\ x - 1 \in 0 .. raw.size.w - 1
      /\ y \in 0 .. raw.size.h - 1 /\ y + 1 \in 0 .. raw.size.h - 1 /\ y - 1 \in 0 .. raw.size.h - 1
      /\ Most(0, x - 1) = x - 1 /\ Most(0, y - 1) = y - 1
      /\ (x - 1) + (x + 1) = 2 * x /\ (y - 1) + (y + 1) = 2 * y /\ x + x = 2 * x /\ y + y = 2 * y
      /\ (y + 1) + (y - 1) = 2 * y
  BY <1>1 DEF Most
<1>3. PICK a \in {0, 1}, b \in {0, 1} :
        /\ cfa_color(mosaic, x, y) = SiteOf(a, b)
        /\ \A i \in {x - 1, x + 1} : cfa_color(mosaic, i, y) = SiteOf(1 - a, b)
        /\ \A j \in {y - 1, y + 1} : cfa_color(mosaic, x, j) = SiteOf(a, 1 - b)
        /\ \A i \in {x - 1, x + 1}, j \in {y - 1, y + 1} :
              cfa_color(mosaic, i, j) = SiteOf(1 - a, 1 - b)
  BY <1>2, SitesAround
<1> DEFINE hs == Hue(SiteOf(1 - a, b))
           hu == Hue(SiteOf(a, 1 - b))
           hc == Hue(SiteOf(1 - a, 1 - b))
<1>4. hs \in 1 .. 3 /\ hu \in 1 .. 3 /\ hc \in 1 .. 3
  BY HueType
<1>5. \A i \in 0 .. raw.size.w - 1, j \in 0 .. raw.size.h - 1 :
        GetRaw(raw, i, j) = Tone(k, Hue(cfa_color(mosaic, i, j)), i, j)
  BY GetRawScene DEF k
<1>6. /\ GetRaw(raw, x - 1, y) = Tone(k, hs, x - 1, y) /\ GetRaw(raw, x + 1, y) = Tone(k, hs, x + 1, y)
      /\ GetRaw(raw, x, y - 1) = Tone(k, hu, x, y - 1) /\ GetRaw(raw, x, y + 1) = Tone(k, hu, x, y + 1)
      /\ GetRaw(raw, x - 1, y - 1) = Tone(k, hc, x - 1, y - 1)
      /\ GetRaw(raw, x + 1, y - 1) = Tone(k, hc, x + 1, y - 1)
      /\ GetRaw(raw, x - 1, y + 1) = Tone(k, hc, x - 1, y + 1)
      /\ GetRaw(raw, x + 1, y + 1) = Tone(k, hc, x + 1, y + 1)
      /\ own = T(Hue(SiteOf(a, b)))
  BY <1>2, <1>3, <1>5
<1> HIDE DEF hs, hu, hc
<1>7. \A c \in 1 .. 3 :
        /\ T(c) \in Int
        /\ Tone(k, c, x - 1, y) \in Int /\ Tone(k, c, x + 1, y) \in Int
        /\ Tone(k, c, x, y - 1) \in Int /\ Tone(k, c, x, y + 1) \in Int
        /\ Tone(k, c, x - 1, y - 1) \in Int /\ Tone(k, c, x + 1, y - 1) \in Int
        /\ Tone(k, c, x - 1, y + 1) \in Int /\ Tone(k, c, x + 1, y + 1) \in Int
  BY <1>1, <1>2, ToneType
<1>8. \A c \in 1 .. 3 :
        /\ Tone(k, c, x - 1, y) + Tone(k, c, x + 1, y) = 2 * T(c)
        /\ Tone(k, c, x, y - 1) + Tone(k, c, x, y + 1) = 2 * T(c)
        /\ Tone(k, c, x - 1, y - 1) + Tone(k, c, x + 1, y + 1) = 2 * T(c)
        /\ Tone(k, c, x - 1, y + 1) + Tone(k, c, x + 1, y - 1) = 2 * T(c)
  <2> SUFFICES ASSUME NEW c \in 1 .. 3
               PROVE  /\ Tone(k, c, x - 1, y) + Tone(k, c, x + 1, y) = 2 * T(c)
                      /\ Tone(k, c, x, y - 1) + Tone(k, c, x, y + 1) = 2 * T(c)
                      /\ Tone(k, c, x - 1, y - 1) + Tone(k, c, x + 1, y + 1) = 2 * T(c)
                      /\ Tone(k, c, x - 1, y + 1) + Tone(k, c, x + 1, y - 1) = 2 * T(c)
    OBVIOUS
  <2> DEFINE l == x - 1
             r == x + 1
             u == y - 1
             d == y + 1
  <2>1. /\ l \in Int /\ r \in Int /\ u \in Int /\ d \in Int
        /\ l + r = 2 * x /\ u + d = 2 * y /\ x + x = 2 * x /\ y + y = 2 * y /\ d + u = 2 * y
    BY <1>2
  <2> HIDE DEF l, r, u, d
  <2>2. Tone(k, c, l, y) + Tone(k, c, r, y) = 2 * Tone(k, c, x, y)
    BY <1>1, <1>2, <2>1, ToneMiddle
  <2>3. Tone(k, c, x, u) + Tone(k, c, x, d) = 2 * Tone(k, c, x, y)
    BY <1>1, <1>2, <2>1, ToneMiddle
  <2>4. Tone(k, c, l, u) + Tone(k, c, r, d) = 2 * Tone(k, c, x, y)
    BY <1>1, <1>2, <2>1, ToneMiddle
  <2>5. Tone(k, c, l, d) + Tone(k, c, r, u) = 2 * Tone(k, c, x, y)
    BY <1>1, <1>2, <2>1, ToneMiddle
  <2> QED
    BY <2>2, <2>3, <2>4, <2>5 DEF l, r, u, d
<1> HIDE DEF T
<1>9. \A d \in Int, e \in Int, t \in Int : d + e = 2 * t => avg2(d, e) = t
  BY DEF avg2
<1>10. \A d \in Int, e \in Int, f \in Int, g \in Int, t \in Int :
         d + e = 2 * t /\ f + g = 2 * t => avg4(d, e, f, g) = t /\ avg4(d, f, g, e) = t
  BY DEF avg4
<1>11. across = T(hs) /\ along = T(hu)
  BY <1>4, <1>6, <1>7, <1>8, <1>9
<1>12. hs = hu => cross = T(hs)
  BY <1>4, <1>6, <1>7, <1>8, <1>10
<1>13. corners = T(hc)
  <2> DEFINE d == Tone(k, hc, x - 1, y - 1)
             e == Tone(k, hc, x + 1, y + 1)
             f == Tone(k, hc, x + 1, y - 1)
             g == Tone(k, hc, x - 1, y + 1)
             t == T(hc)
  <2>1. /\ d \in Int /\ e \in Int /\ f \in Int /\ g \in Int /\ t \in Int
        /\ d + e = 2 * t /\ g + f = 2 * t
    BY <1>4, <1>7, <1>8
  <2>2. corners = avg4(d, f, g, e)
    BY <1>6
  <2> HIDE DEF d, e, f, g, t, corners
  <2>3. f + g = 2 * t
    BY <2>1
  <2>4. corners = t
    BY <1>10, <2>1, <2>2, <2>3
  <2> QED
    BY <2>4 DEF t
<1> DEFINE site == cfa_color(mosaic, x, y)
<1>14. demosaic_pixel_bilinear(raw, x, y) =
        CASE site = 0 -> <<own, cross, corners>>
          [] site = 1 -> <<across, own, along>>
          [] site = 2 -> <<corners, cross, own>>
          [] site = 3 -> <<along, own, across>>
  BY <1>2 DEF demosaic_pixel_bilinear
<1>15. site = SiteOf(a, b)
  BY <1>3
<1> HIDE DEF own, across, along, cross, corners, site
<1>16. demosaic_pixel_bilinear(raw, x, y) = <<T(1), T(2), T(3)>>
  <2>0. 1 - 0 = 1 /\ 1 - 1 = 0
    OBVIOUS
  <2>1. CASE a = 0 /\ b = 0
    <3>1. site = 0 /\ own = T(1) /\ hs = 2 /\ hu = 2 /\ hc = 3
      BY <1>6, <1>15, <2>0, <2>1 DEF SiteOf, Hue, hs, hu, hc
    <3> QED
      BY <1>12, <1>13, <1>14, <3>1
  <2>2. CASE a = 1 /\ b = 0
    <3>1. site = 1 /\ own = T(2) /\ hs = 1 /\ hu = 3
      BY <1>6, <1>15, <2>0, <2>2 DEF SiteOf, Hue, hs, hu
    <3> QED
      BY <1>11, <1>14, <3>1
  <2>3. CASE a = 1 /\ b = 1
    <3>1. site = 2 /\ own = T(3) /\ hs = 2 /\ hu = 2 /\ hc = 1
      BY <1>6, <1>15, <2>0, <2>3 DEF SiteOf, Hue, hs, hu, hc
    <3> QED
      BY <1>12, <1>13, <1>14, <3>1
  <2>4. CASE a = 0 /\ b = 1
    <3>1. site = 3 /\ own = T(2) /\ hs = 3 /\ hu = 1
      BY <1>6, <1>15, <2>0, <2>4 DEF SiteOf, Hue, hs, hu
    <3> QED
      BY <1>11, <1>14, <3>1
  <2> QED
    BY <2>1, <2>2, <2>3, <2>4
<1> QED
  BY <1>16 DEF T, k

LEMMA BilinearExact ==
  ASSUME NEW raw, NEW mosaic \in Patterns, NEW scene, Took(raw, mosaic, scene),
         raw.cfa_pattern = mosaic, NEW s, s.w = raw.active_area.w, s.h = raw.active_area.h
  PROVE  Pictured(s, Seen(scene, raw.active_area.x, raw.active_area.y), Bilinear(raw))
<1> DEFINE ax == raw.active_area.x
           ay == raw.active_area.y
           k == Seen(scene, ax, ay)
           n == 3 * s.w * s.h
           Q(i) == (i - 1) \div 3
           C(i) == ((i - 1) % 3) + 1
           At(i) == demosaic_pixel_bilinear(raw, (Q(i) % s.w) + ax, (Q(i) \div s.w) + ay)[C(i)]
           f == [i \in 1 .. n |-> At(i)]
<1>1. /\ s.w \in Nat \ {0} /\ s.h \in Nat \ {0} /\ ax \in Nat /\ ay \in Nat /\ scene \in SceneType
      /\ raw.size.w \in Nat /\ raw.size.h \in Nat /\ ax + s.w <= raw.size.w /\ ay + s.h <= raw.size.h
  <2>1. /\ raw.active_area.w \in Nat \ {0} /\ raw.active_area.h \in Nat \ {0}
        /\ ax \in Nat /\ ay \in Nat /\ scene \in SceneType
        /\ raw.size.w \in Nat /\ raw.size.h \in Nat
        /\ ax + raw.active_area.w <= raw.size.w /\ ay + raw.active_area.h <= raw.size.h
    BY DEF Took, Framed
  <2> HIDE DEF ax, ay
  <2> QED
    BY <2>1
<1>2. Bilinear(raw) = f
  BY DEF Bilinear
<1>3. n \in Nat
  BY <1>1
<1> HIDE DEF ax, ay, k, n
<1>4. ASSUME NEW i \in 1 .. n PROVE At(i) \in Nat
  <2>1. i \in Nat \ {0}
    BY <1>3
  <2>2. Q(i) \in Nat /\ C(i) \in 1 .. 3
    BY <2>1
  <2> HIDE DEF Q, C
  <2> DEFINE qx == Q(i) % s.w
             qy == Q(i) \div s.w
  <2>3. qx \in Nat /\ qy \in Nat
    BY <1>1, <2>2
  <2>4. At(i) = demosaic_pixel_bilinear(raw, qx + ax, qy + ay)[C(i)]
    OBVIOUS
  <2> HIDE DEF qx, qy, At
  <2>5. qx + ax \in Nat /\ qy + ay \in Nat
    BY <1>1, <2>3
  <2> QED
    BY <2>2, <2>4, <2>5, BilinearPixelType
<1>5. f \in Seq(Nat) /\ Len(f) = n /\ \A i \in 1 .. n : f[i] = At(i)
  <2> HIDE DEF At
  <2> QED
    BY <1>3, <1>4
<1> HIDE DEF f
<1>6. ASSUME NEW x, NEW y, Inner(s, 4, x, y), NEW c \in 1 .. 3
      PROVE  f[(3 * ((y * s.w) + x)) + c] = Tone(k, c, x, y)
  <2> DEFINE j == (3 * ((y * s.w) + x)) + c
             q == (y * s.w) + x
  <2>1. /\ x \in 0 .. s.w - 1 /\ y \in 0 .. s.h - 1 /\ x \in Nat /\ y \in Nat
        /\ x + ax \in 1 .. raw.size.w - 2 /\ y + ay \in 1 .. raw.size.h - 2
    <3> DEFINE w == s.w
               h == s.h
    <3>1. x \in 4 .. w - 1 - 4 /\ y \in 4 .. h - 1 - 4
      BY <1>6 DEF Inner
    <3>2. w \in Nat /\ h \in Nat /\ ax + w <= raw.size.w /\ ay + h <= raw.size.h
      BY <1>1
    <3> HIDE DEF w, h
    <3>3. /\ x \in 0 .. w - 1 /\ y \in 0 .. h - 1 /\ x \in Nat /\ y \in Nat
          /\ x + ax \in 1 .. raw.size.w - 2 /\ y + ay \in 1 .. raw.size.h - 2
      BY <1>1, <3>1, <3>2
    <3> QED
      BY <3>3 DEF w, h
  <2>2. j \in 1 .. n
    BY <1>1, <2>1, SampleOf DEF n
  <2>3. q \in Nat
    BY <1>1, <2>1
  <2>4. (q % s.w) = x /\ q \div s.w = y
    <3> HIDE DEF q
    <3> QED
      BY <1>1, <2>1, DivideUnique DEF q
  <2> HIDE DEF q
  <2>5. Q(j) = q /\ C(j) = c
    <3>1. j = (3 * q) + c
      BY DEF q
    <3> HIDE DEF j
    <3> QED
      BY <2>3, <3>1
  <2> HIDE DEF j, Q, C
  <2>6. At(j) = demosaic_pixel_bilinear(raw, x + ax, y + ay)[c]
    BY <2>4, <2>5
  <2> HIDE DEF At
  <2> DEFINE k0 == Seen(scene, 0, 0)
             X == x + ax
             Y == y + ay
  <2>7. X \in 1 .. raw.size.w - 2 /\ Y \in 1 .. raw.size.h - 2 /\ X \in Int /\ Y \in Int
    BY <1>1, <2>1
  <2>8. At(j) = demosaic_pixel_bilinear(raw, X, Y)[c]
    BY <2>6
  <2> HIDE DEF X, Y
  <2>9. demosaic_pixel_bilinear(raw, X, Y) = <<Tone(k0, 1, X, Y), Tone(k0, 2, X, Y), Tone(k0, 3, X, Y)>>
    BY <2>7, BilinearPixelExact
  <2> HIDE DEF k0
  <2>10. At(j) = Tone(k0, c, X, Y)
    BY <2>8, <2>9
  <2>11. Tone(k0, c, X, Y) = Tone(k, c, x, y)
    <3>1. X + Y + (0 + 0) = x + y + (ax + ay)
      BY <1>1, <2>1 DEF X, Y
    <3> QED
      BY <3>1 DEF Tone, k0, k, Seen
  <2>12. f[j] = Tone(k, c, x, y)
    BY <1>5, <2>2, <2>10, <2>11
  <2> QED
    BY <2>12 DEF j
<1>7. Pictured(s, k, f)
  BY <1>5, <1>6 DEF Pictured, n
<1> QED
  BY <1>2, <1>7 DEF k, ax, ay

-----------------------------------------------------------------------------
(* Every algorithm, of a sensor that photographed a scene that suits it.    *)

LEMMA PicturedSame ==
  ASSUME NEW r, NEW s, r.w = s.w, r.h = s.h, NEW k, NEW data, Pictured(r, k, data)
  PROVE  Pictured(s, k, data)
BY DEF Pictured, Inner

LEMMA DemosaicIntoExact ==
  ASSUME NEW raw, NEW mosaic \in Mosaics, NEW scene, Took(raw, mosaic, scene),
         NEW method \in BayerMethods \union XTransMethods, Fits(method, mosaic),
         method \in BayerMethods => raw.cfa_pattern = mosaic,
         method \in XTransMethods => raw.xtrans_pattern = XTransStandard,
         scene.slope = 0 \/ method \in BayerMethods \ {"Rcd"},
         method = "Rcd" => RatiosTold(scene),
         NEW s, s.w = raw.active_area.w, s.h = raw.active_area.h
  PROVE  Pictured(s, Seen(scene, raw.active_area.x, raw.active_area.y), demosaic_into(method, raw))
<1> DEFINE k == Seen(scene, raw.active_area.x, raw.active_area.y)
           b == BayerView(raw)
           t == XTransView(raw)
<1>1. ~(raw.active_area.w < 6 \/ raw.active_area.h < 6) /\ InSensor(raw)
  BY NotSmall, InSensorHolds DEF Took
<1>2. method \notin XTransMethods => mosaic \in Patterns
  BY DEF Fits, Mosaics
<1>3. method \in XTransMethods => mosaic = "X-Trans" /\ scene.slope = 0
  BY DEF Fits, XTransMethods, BayerMethods
<1>4. k.slope = scene.slope /\ k.shade = scene.shade
  BY DEF Seen
<1>5. CASE method = "Bilinear"
  <2>1. demosaic_into(method, raw) = Bilinear(raw)
    BY <1>5 DEF demosaic_into
  <2>2. method \in BayerMethods /\ method \notin XTransMethods
    BY <1>5 DEF BayerMethods, XTransMethods
  <2> QED
    BY <1>2, <2>1, <2>2, BilinearExact
<1>6. ASSUME method \in {"Amaze", "Lmmse", "Rcd"}
      PROVE  Scene(b, k) /\ Checkered(b) /\ b.w = s.w /\ b.h = s.h
  <2>1. method \in BayerMethods /\ method \notin XTransMethods
    BY <1>6 DEF BayerMethods, XTransMethods
  <2>2. mosaic \in Patterns /\ raw.cfa_pattern = mosaic
    BY <1>2, <2>1
  <2> QED
    BY <2>2, BayerViewScene
<1>7. ASSUME method \in XTransMethods
      PROVE  Scene(t, k) /\ k.slope = 0 /\ Tiled(t) /\ t.w = s.w /\ t.h = s.h
  BY <1>3, <1>4, <1>7, XTransViewScene
<1> HIDE DEF k, b, t
<1>8. CASE method = "Amaze"
  <2>1. demosaic_into(method, raw) = AmazeOf(b)
    BY <1>1, <1>8 DEF demosaic_into, b
  <2>2. Pictured(b, k, AmazeOf(b)) /\ b.w = s.w /\ b.h = s.h
    BY <1>6, <1>8, AmazeExact
  <2> QED
    BY <2>1, <2>2, PicturedSame DEF k
<1>9. CASE method = "Lmmse"
  <2>1. demosaic_into(method, raw) = LmmseOf(b)
    BY <1>1, <1>9 DEF demosaic_into, b
  <2>2. Pictured(b, k, LmmseOf(b)) /\ b.w = s.w /\ b.h = s.h
    BY <1>6, <1>9, LmmseExact
  <2> QED
    BY <2>1, <2>2, PicturedSame DEF k
<1>10. CASE method = "Rcd"
  <2>1. demosaic_into(method, raw) = RcdOf(b)
    BY <1>1, <1>10 DEF demosaic_into, b
  <2>2. k.slope = 0 /\ Told(k, 1) /\ Told(k, 3)
    <3>1. "Rcd" \notin BayerMethods \ {"Rcd"}
      OBVIOUS
    <3>2. RatiosTold(scene) /\ scene.slope = 0
      BY <1>10, <3>1
    <3> QED
      BY <1>4, <3>2 DEF RatiosTold, Told
  <2>3. Pictured(b, k, RcdOf(b)) /\ b.w = s.w /\ b.h = s.h
    BY <1>6, <1>10, <2>2, RcdExact
  <2> QED
    BY <2>1, <2>3, PicturedSame DEF k
<1>11. CASE method = "Markesteijn"
  <2>1. demosaic_into(method, raw) = MarkesteijnOf(t) /\ method \in XTransMethods
    BY <1>1, <1>11 DEF demosaic_into, t, XTransMethods
  <2>2. Pictured(t, k, MarkesteijnOf(t)) /\ t.w = s.w /\ t.h = s.h
    BY <1>7, <2>1, MarkesteijnExact
  <2> QED
    BY <2>1, <2>2, PicturedSame DEF k
<1>12. CASE method = "Markesteijn3Pass"
  <2>1. demosaic_into(method, raw) = Markesteijn3PassOf(t) /\ method \in XTransMethods
    BY <1>1, <1>12 DEF demosaic_into, t, XTransMethods
  <2>2. Pictured(t, k, Markesteijn3PassOf(t)) /\ t.w = s.w /\ t.h = s.h
    BY <1>7, <2>1, Markesteijn3PassExact
  <2> QED
    BY <2>1, <2>2, PicturedSame DEF k
<1>13. CASE method = "XTransFast"
  <2>1. demosaic_into(method, raw) = XTransFastOf(t) /\ method \in XTransMethods
    BY <1>1, <1>13 DEF demosaic_into, t, XTransMethods
  <2>2. Pictured(t, k, XTransFastOf(t)) /\ t.w = s.w /\ t.h = s.h
    BY <1>7, <2>1, XTransFastExact
  <2> QED
    BY <2>1, <2>2, PicturedSame DEF k
<1> QED
  BY <1>5, <1>8, <1>9, <1>10, <1>11, <1>12, <1>13 DEF BayerMethods, XTransMethods

(* The photograph of a scene is such a sensor.                              *)
LEMMA SceneTypes ==
  ASSUME NEW scene \in Scenes
  PROVE  scene \in SceneType /\ scene.shade \in [1 .. 3 -> 0 .. White] /\ White \in Nat
<1>1. scene \in [shade : [1 .. 3 -> 0 .. White], slope : Nat] /\ White \in Nat
  BY SceneAssumption
<1>2. scene.shade \in [1 .. 3 -> 0 .. White] /\ scene.slope \in Nat
  BY <1>1
<1>3. scene.shade \in [1 .. 3 -> Nat]
  BY <1>1, <1>2
<1>4. scene = [shade |-> scene.shade, slope |-> scene.slope]
  BY <1>1
<1>5. scene \in SceneType
  BY <1>2, <1>3, <1>4 DEF SceneType
<1> QED
  BY <1>1, <1>2, <1>5

LEMMA SceneBounded ==
  ASSUME NEW scene \in Scenes, scene.slope = 0 \/ Unsaturated(scene),
         NEW x \in 0 .. AreaWidth + Margin - 1, NEW y \in 0 .. AreaHeight + Margin - 1, NEW c \in 1 .. 3
  PROVE  SceneColour(scene, x, y)[c] \in 0 .. White
<1> DEFINE a == scene.shade[c]
           m == scene.slope
           far == AreaWidth + AreaHeight + (2 * Margin)
<1>1. a \in 0 .. White /\ m \in Nat /\ White \in Nat
  BY SceneTypes DEF SceneType
<1>2. SceneColour(scene, x, y)[c] = a + (m * (x + y))
  BY DEF SceneColour
<1>3. x + y \in Nat /\ far \in Nat /\ x + y <= far
  BY AreaAssumption
<1>4. m = 0 \/ a + (m * far) <= White
  BY DEF Unsaturated
<1> HIDE DEF a, m, far
<1> DEFINE p == x + y
<1>5. p \in Nat /\ p <= far
  BY <1>3
<1> HIDE DEF p
<1>6. a + (m * p) \in 0 .. White
  <2>1. CASE m = 0
    <3>1. 0 * p = 0
      BY <1>5
    <3> QED
      BY <1>1, <2>1, <3>1
  <2>2. CASE m # 0
    <3>1. m * p <= m * far /\ m * p \in Nat /\ m * far \in Nat
      BY <1>1, <1>3, <1>5
    <3>2. a + (m * far) <= White
      BY <1>4, <2>2
    <3> DEFINE d == m * p
               e == m * far
    <3> HIDE DEF d, e
    <3>3. a + d \in 0 .. White
      BY <1>1, <3>1, <3>2 DEF d, e
    <3> QED
      BY <3>3 DEF d
  <2> QED
    BY <2>1, <2>2
<1> QED
  BY <1>2, <1>6 DEF p

LEMMA PhotographedScene ==
  ASSUME NEW s \in [method : Methods, mosaic : Mosaics, origin : Origins, scene : Scenes],
         s.scene.slope = 0 \/ Unsaturated(s.scene)
  PROVE  /\ Took(Photographed(s), s.mosaic, s.scene)
         /\ Photographed(s).active_area = from_coords(s.origin[1], s.origin[2], AreaWidth, AreaHeight)
         /\ s.mosaic = "X-Trans" => Photographed(s).xtrans_pattern = XTransStandard
         /\ s.mosaic # "X-Trans" => Photographed(s).cfa_pattern = s.mosaic
<1> DEFINE raw == Photographed(s)
           W == AreaWidth + Margin
           H == AreaHeight + Margin
           Sample(x, y) == SceneColour(s.scene, x, y)[MosaicColour(s.mosaic, x, y) + 1]
           f == [i \in 1 .. W * H |-> Sample((i - 1) % W, (i - 1) \div W)]
<1>1. /\ raw.active_area = from_coords(s.origin[1], s.origin[2], AreaWidth, AreaHeight)
      /\ raw.size = Dims(W, H)
      /\ s.mosaic = "X-Trans" => raw.xtrans_pattern = XTransStandard
      /\ s.mosaic # "X-Trans" => raw.cfa_pattern = s.mosaic
      /\ raw.white_level = White
  BY DEF Photographed, RawImageNew
<1>2. raw.data = f
  BY DEF Photographed, RawImageNew, Dims, num_pixels
<1>3. AreaWidth \in Nat /\ AreaWidth >= 6 /\ AreaHeight \in Nat /\ AreaHeight >= 6 /\ Margin \in Nat
  BY AreaAssumption
<1>4. s.origin[1] \in 0 .. Margin /\ s.origin[2] \in 0 .. Margin
  BY AreaAssumption
<1>5. W \in Nat \ {0} /\ H \in Nat
  BY <1>3
<1>6. s.scene \in Scenes /\ s.mosaic \in Mosaics
  OBVIOUS
<1>7. s.scene \in SceneType /\ White \in Nat
  BY <1>6, SceneTypes
<1>8. /\ raw.size.w = W /\ raw.size.h = H
      /\ raw.active_area.x = s.origin[1] /\ raw.active_area.y = s.origin[2]
      /\ raw.active_area.w = AreaWidth /\ raw.active_area.h = AreaHeight
  BY <1>1 DEF Dims, from_coords
<1>9. Framed(raw)
  <2>1. DOMAIN f = 1 .. W * H
    OBVIOUS
  <2> DEFINE ox == s.origin[1]
             oy == s.origin[2]
  <2>2. ox \in Nat /\ oy \in Nat /\ ox + AreaWidth <= W /\ oy + AreaHeight <= H
    <3>1. ox \in 0 .. Margin /\ oy \in 0 .. Margin
      BY <1>4
    <3> HIDE DEF ox, oy
    <3> QED
      BY <1>3, <3>1
  <2> HIDE DEF raw, f, W, H, ox, oy
  <2> QED
    BY <1>1, <1>2, <1>3, <1>5, <1>7, <1>8, <2>1, <2>2 DEF Framed, ox, oy
<1>10. ASSUME NEW x \in 0 .. W - 1, NEW y \in 0 .. H - 1
       PROVE  /\ f[(y * W) + x + 1] = Sample(x, y)
              /\ \A c \in 1 .. 3 : SceneColour(s.scene, x, y)[c] \in 0 .. White
  <2>1. \A c \in 1 .. 3 : SceneColour(s.scene, x, y)[c] \in 0 .. White
    <3> DEFINE scene == s.scene
    <3>1. scene \in Scenes /\ (scene.slope = 0 \/ Unsaturated(scene))
      BY <1>6
    <3>2. x \in 0 .. AreaWidth + Margin - 1 /\ y \in 0 .. AreaHeight + Margin - 1
      BY <1>3
    <3> HIDE DEF scene, W, H
    <3>3. \A c \in 1 .. 3 : SceneColour(scene, x, y)[c] \in 0 .. White
      BY <3>1, <3>2, SceneBounded
    <3> QED
      BY <3>3 DEF scene
  <2> HIDE DEF W, H
  <2> DEFINE j == (y * W) + x + 1
  <2>2. j \in 1 .. W * H
    BY <1>5, IndexInside
  <2>3. ((j - 1) % W) = x /\ (j - 1) \div W = y
    <3> DEFINE q == (y * W) + x
    <3>1. y \in Nat /\ q \in Nat
      BY <1>5
    <3>2. j - 1 = q
      <4>1. j = q + 1
        OBVIOUS
      <4> HIDE DEF j, q
      <4> QED
        BY <3>1, <4>1
    <3>3. (q % W) = x /\ q \div W = y
      BY <1>5, <3>1, DivideUnique
    <3> HIDE DEF j, q
    <3> QED
      BY <3>2, <3>3
  <2> HIDE DEF j, Sample
  <2>4. f[j] = Sample((j - 1) % W, (j - 1) \div W)
    BY <2>2
  <2> QED
    BY <2>1, <2>3, <2>4 DEF j
<1> HIDE DEF raw, f, W, H
<1>11. Took(raw, s.mosaic, s.scene)
  BY <1>1, <1>2, <1>7, <1>8, <1>9, <1>10 DEF Took
<1> QED
  BY <1>1, <1>11 DEF raw

LEMMA DevelopedColours ==
  Developed => ColoursFoundInside
<1> SUFFICES ASSUME Developed, image # None, Suits(shot.method, shot.scene),
                    NEW x \in 4 .. AreaWidth - 5, NEW y \in 4 .. AreaHeight - 5
             PROVE  Close(Found(x, y), Expected(x, y))
  BY DEF ColoursFoundInside
<1> DEFINE raw == Photographed(shot)
           ox == shot.origin[1]
           oy == shot.origin[2]
           k == Seen(shot.scene, ox, oy)
           s == Dims(AreaWidth, AreaHeight)
           data == demosaic_into(shot.method, raw)
<1>1. /\ shot \in [method : Methods, mosaic : Mosaics, origin : Origins, scene : Scenes]
      /\ Fits(shot.method, shot.mosaic)
  BY DEF Developed
<1>2. /\ shot.method \in BayerMethods \union XTransMethods
      /\ shot.mosaic \in Mosaics /\ shot.scene \in Scenes /\ shot.scene \in SceneType
  BY <1>1, SceneAssumption, SceneTypes
<1>3. /\ shot.scene.slope = 0 \/ (shot.method \in BayerMethods \ {"Rcd"} /\ Unsaturated(shot.scene))
      /\ shot.method = "Rcd" => RatiosTold(shot.scene)
  BY DEF Suits
<1>4. /\ Took(raw, shot.mosaic, shot.scene)
      /\ raw.active_area = from_coords(ox, oy, AreaWidth, AreaHeight)
      /\ shot.mosaic = "X-Trans" => raw.xtrans_pattern = XTransStandard
      /\ shot.mosaic # "X-Trans" => raw.cfa_pattern = shot.mosaic
  BY <1>1, <1>3, PhotographedScene
<1>5. /\ raw.active_area.w = AreaWidth /\ raw.active_area.h = AreaHeight
      /\ raw.active_area.x = ox /\ raw.active_area.y = oy
      /\ s.w = AreaWidth /\ s.h = AreaHeight
  BY <1>4 DEF from_coords, Dims
<1>6. /\ shot.method \in BayerMethods => raw.cfa_pattern = shot.mosaic
      /\ shot.method \in XTransMethods => raw.xtrans_pattern = XTransStandard
  BY <1>1, <1>4 DEF Fits, BayerMethods, XTransMethods
<1> HIDE DEF raw, s, ox, oy
<1>7. Pictured(s, k, data)
  BY <1>1, <1>2, <1>3, <1>4, <1>5, <1>6, DemosaicIntoExact
<1> HIDE DEF data
<1>8. AreaWidth \in Nat /\ AreaHeight \in Nat /\ AreaWidth >= 6 /\ AreaHeight >= 6
  BY AreaAssumption
<1>9. data \in Seq(Nat) /\ data # <<>>
  <2>1. 3 * AreaWidth * AreaHeight \in Nat \ {0}
    BY <1>8
  <2> QED
    BY <1>5, <1>7, <2>1 DEF Pictured
<1>10. image.w = AreaWidth /\ image.data = data
  <2>1. image = demosaic(shot.method, raw)
    BY DEF Developed, raw
  <2>2. data \notin {Error, Panic} /\ data # <<>>
    BY <1>9, OutcomeAssumption
  <2>3. demosaic(shot.method, raw) = [w |-> raw.active_area.w, h |-> raw.active_area.h, data |-> data]
    BY <2>2 DEF demosaic, OrPanic, data
  <2> QED
    BY <1>5, <2>1, <2>3
<1>11. Inner(s, 4, x, y)
  <2>1. x \in 4 .. AreaWidth - 1 - 4 /\ y \in 4 .. AreaHeight - 1 - 4
    BY <1>8
  <2> QED
    BY <1>5, <2>1 DEF Inner
<1>12. ASSUME NEW c \in 1 .. 3 PROVE Found(x, y)[c] = Expected(x, y)[c] /\ Expected(x, y)[c] \in Int
  <2>1. Found(x, y)[c] = data[(3 * ((y * AreaWidth) + x)) + c]
    BY <1>10 DEF Found
  <2>2. data[(3 * ((y * AreaWidth) + x)) + c] = Tone(k, c, x, y)
    BY <1>5, <1>7, <1>11 DEF Pictured
  <2>3. ox \in Nat /\ oy \in Nat
    <3>1. ox \in 0 .. Margin /\ oy \in 0 .. Margin /\ Margin \in Nat
      BY <1>1, AreaAssumption DEF ox, oy
    <3> QED
      BY <3>1
  <2>4. x \in Int /\ y \in Int
    BY <1>8
  <2>5. /\ Shades(k)
        /\ \A d \in 1 .. 3, i \in Int, j \in Int : Tone(k, d, i, j) = SceneColour(shot.scene, i + ox, j + oy)[d]
    BY <1>2, <2>3, SeenIs
  <2> HIDE DEF k
  <2>6. Tone(k, c, x, y) = SceneColour(shot.scene, x + ox, y + oy)[c]
    BY <2>4, <2>5
  <2>7. Tone(k, c, x, y) \in Int
    BY <2>4, <2>5, ToneType
  <2> QED
    BY <2>1, <2>2, <2>6, <2>7 DEF Expected, ox, oy
<1>13. ASSUME NEW c \in 1 .. 3 PROVE Abs(Found(x, y)[c] - Expected(x, y)[c]) <= Tolerance
  <2> DEFINE v == Expected(x, y)[c]
  <2>1. v \in Int /\ Found(x, y)[c] = v
    BY <1>12
  <2> HIDE DEF v
  <2>2. Abs(v - v) = 0
    BY <2>1 DEF Abs
  <2>3. Tolerance \in {0, 1}
    BY DEF Tolerance
  <2> QED
    BY <2>1, <2>2, <2>3 DEF v
<1> QED
  BY <1>13 DEF Close

(* Four positions from the border every algorithm finds exactly the colours *)
(* of a scene that suits it, at every parity of the area's origin, mosaic,  *)
(* size of the area and of the sensor around it (ColoursFoundInside).       *)
THEOREM ColoursFoundInsideAlways == Spec => []ColoursFoundInside
BY DevelopedInvariant, DevelopedColours, PTL
=============================================================================
