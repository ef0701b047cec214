------------------------- MODULE CodecRecordsProofs -------------------------
(***************************************************************************)
(* What the parsers of CodecRecords make of what was written: parse_hvcc   *)
(* of hvcc_bytes, parse_av1c of av1c_bytes, and the two splitters, for any *)
(* number, order and length of arrays, units and OBUs.                     *)
(***************************************************************************)
EXTENDS CodecRecords, NatLemmas

-----------------------------------------------------------------------------
(* Bytes in place                                                          *)

(* The bytes c are found in data behind the first pos.                     *)
InPlace(data, pos, c) ==
  /\ pos + Len(c) <= Len(data)
  /\ \A k \in 1..Len(c) : data[pos + k] = c[k]

LEMMA SeqElements ==
  ASSUME NEW S, NEW s \in Seq(S)
  PROVE  /\ Len(s) \in Nat /\ DOMAIN s = 1..Len(s)
         /\ \A i \in 1..Len(s) : s[i] \in S
OBVIOUS

LEMMA SeqFunction ==
  ASSUME NEW n \in Nat, NEW S, NEW s \in [1..n -> S]
  PROVE  s \in Seq(S) /\ Len(s) = n
OBVIOUS

LEMMA SeqSame ==
  ASSUME NEW S, NEW T, NEW s \in Seq(S), NEW t \in Seq(T), Len(s) = Len(t),
         \A i \in 1..Len(s) : s[i] = t[i]
  PROVE  s = t
OBVIOUS

LEMMA Joined ==
  ASSUME NEW S, NEW s \in Seq(S), NEW t \in Seq(S)
  PROVE  /\ s \o t \in Seq(S) /\ Len(s \o t) = Len(s) + Len(t)
         /\ \A i \in 1..Len(s) : (s \o t)[i] = s[i]
         /\ \A i \in 1..Len(t) : (s \o t)[Len(s) + i] = t[i]
OBVIOUS

LEMMA Cut ==
  ASSUME NEW S, NEW s \in Seq(S), NEW a \in Nat, NEW b \in Nat, a + b <= Len(s)
  PROVE  /\ SubSeq(s, a + 1, a + b) \in Seq(S) /\ Len(SubSeq(s, a + 1, a + b)) = b
         /\ \A i \in 1..b : SubSeq(s, a + 1, a + b)[i] = s[a + i]
OBVIOUS

LEMMA AtJoined ==
  ASSUME NEW S, NEW s \in Seq(S), NEW t \in Seq(S)
  PROVE  InPlace(s \o t, 0, s) /\ InPlace(s \o t, Len(s), t)
<1> DEFINE u == s \o t
<1>1. /\ u \in Seq(S) /\ Len(u) = Len(s) + Len(t)
      /\ \A i \in 1..Len(s) : u[i] = s[i]
      /\ \A i \in 1..Len(t) : u[Len(s) + i] = t[i]
  BY Joined
<1>2. Len(s) \in Nat /\ Len(t) \in Nat
  BY SeqElements
<1> HIDE DEF u
<1>3. InPlace(u, 0, s)
  BY <1>1, <1>2 DEF InPlace
<1>4. InPlace(u, Len(s), t)
  BY <1>1, <1>2 DEF InPlace
<1> QED
  BY <1>3, <1>4 DEF u

(* Bytes in place within bytes in place.                                   *)
LEMMA AtWithin ==
  ASSUME NEW data, Len(data) \in Nat, NEW c, Len(c) \in Nat, NEW d, Len(d) \in Nat,
         NEW p \in Nat, NEW q \in Nat, InPlace(data, p, c), InPlace(c, q, d)
  PROVE  InPlace(data, p + q, d)
<1>1. p + q + Len(d) <= Len(data)
  BY DEF InPlace
<1>2. ASSUME NEW k \in 1..Len(d) PROVE data[p + q + k] = d[k]
  <2>1. q + k \in 1..Len(c) /\ p + (q + k) = p + q + k
    BY DEF InPlace
  <2>2. data[p + (q + k)] = c[q + k] /\ c[q + k] = d[k]
    BY <2>1 DEF InPlace
  <2> QED
    BY <2>1, <2>2
<1> QED
  BY <1>1, <1>2 DEF InPlace

LEMMA AtWhole ==
  ASSUME NEW S, NEW data \in Seq(S), NEW c \in Seq(S), NEW p \in Nat, InPlace(data, p, c)
  PROVE  Slice(data, p, Len(c)) = c
<1> DEFINE n == Len(c)
           s == SubSeq(data, p + 1, p + n)
<1>1. n \in Nat /\ p + n <= Len(data) /\ \A i \in 1..n : data[p + i] = c[i]
  BY SeqElements DEF InPlace
<1>2. s = Slice(data, p, Len(c)) /\ n = Len(c)
  BY DEF Slice
<1> HIDE DEF n
<1>3. s \in Seq(S) /\ Len(s) = n /\ \A i \in 1..n : s[i] = data[p + i]
  BY <1>1, Cut
<1> HIDE DEF s
<1>4. \A i \in 1..n : s[i] = c[i]
  BY <1>1, <1>3
<1>5. s = c
  BY <1>2, <1>3, <1>4, SeqSame
<1> QED
  BY <1>2, <1>5

-----------------------------------------------------------------------------
(* FlattenSeq, and where each sequence lies in what it makes               *)

(* J[i]: the first i sequences, put together.                              *)
Joins(s, J, S) ==
  /\ J \in [0..Len(s) -> Seq(S)] /\ J[0] = <<>>
  /\ \A i \in 1..Len(s) : J[i] = J[i - 1] \o s[i]
  /\ J[Len(s)] = FlattenSeq(s)

LEMMA Flatten ==
  ASSUME NEW S, NEW s \in Seq(Seq(S))
  PROVE  \E J : Joins(s, J, S)
<1> DEFINE n == Len(s)
<1>1. n \in Nat /\ \A i \in 1..n : s[i] \in Seq(S)
  BY SeqElements
<1>2. PICK step \in [0..(n - 1) -> [Seq(S) -> Seq(S)]] :
        \A i \in 0..(n - 1), v \in Seq(S) : step[i][v] = v \o s[i + 1]
  <2> DEFINE joins == [i \in 0..(n - 1) |-> [v \in Seq(S) |-> v \o s[i + 1]]]
  <2>1. ASSUME NEW i \in 0..(n - 1), NEW v \in Seq(S) PROVE v \o s[i + 1] \in Seq(S)
    <3>1. s[i + 1] \in Seq(S)
      BY <1>1
    <3> QED
      BY <3>1, Joined
  <2> HIDE DEF n
  <2>2. joins \in [0..(n - 1) -> [Seq(S) -> Seq(S)]]
    BY <2>1
  <2>3. \A i \in 0..(n - 1), v \in Seq(S) : joins[i][v] = v \o s[i + 1]
    OBVIOUS
  <2> QED
    BY <2>2, <2>3
<1>3. <<>> \in Seq(S)
  OBVIOUS
<1> HIDE DEF n
<1>4. PICK J : RecursUpTo(J, n, Seq(S), <<>>, step)
  BY <1>1, <1>3, RecursionUpTo
<1>5. /\ J \in [0..n -> Seq(S)] /\ J[0] = <<>>
      /\ \A i \in 0..(n - 1) : J[i + 1] = J[i] \o s[i + 1]
  <2>1. ASSUME NEW i \in 0..(n - 1) PROVE J[i + 1] = J[i] \o s[i + 1]
    <3>1. i \in 0..n /\ J[i] \in Seq(S)
      BY <1>1, <1>4 DEF RecursUpTo
    <3>2. J[i + 1] = step[i][J[i]]
      BY <1>4 DEF RecursUpTo
    <3> QED
      BY <1>2, <3>1, <3>2
  <2> QED
    BY <1>4, <2>1 DEF RecursUpTo
<1>6. ASSUME NEW i \in 1..n PROVE J[i] = J[i - 1] \o s[i]
  <2>1. i - 1 \in 0..(n - 1) /\ (i - 1) + 1 = i
    BY <1>1
  <2> QED
    BY <1>5, <2>1
<1>7. J[n] = FlattenSeq(s)
  <2>1. CASE n = 0
    <3>1. s = <<>>
      BY <2>1 DEF n
    <3> QED
      BY <1>5, <2>1, <3>1 DEF FlattenSeq
  <2>2. CASE n # 0
    <3> DEFINE f == CHOOSE f : f = [i \in 1..n |-> IF i = 1 THEN s[i] ELSE f[i - 1] \o s[i]]
               h == [i \in 1..n |-> J[i]]
    <3>1. FlattenSeq(s) = f[n]
      BY <2>2 DEF FlattenSeq, n
    <3>2. ASSUME NEW i \in 1..n PROVE h[i] = IF i = 1 THEN s[i] ELSE h[i - 1] \o s[i]
      <4>1. CASE i = 1
        <5>0. 1 \in 1..n /\ 1 - 1 = 0
          BY <1>1, <2>2
        <5>1. J[1] = J[1 - 1] \o s[1] /\ s[1] \in Seq(S)
          BY <1>1, <1>6, <5>0
        <5>2. <<>> \o s[1] = s[1]
          BY <5>1
        <5> QED
          BY <1>5, <4>1, <5>0, <5>1, <5>2
      <4>2. CASE i # 1
        <5>1. i - 1 \in 1..n
          BY <1>1, <4>2
        <5> QED
          BY <1>6, <4>2, <5>1
      <4> QED
        BY <4>1, <4>2
    <3>3. h = [i \in 1..n |-> IF i = 1 THEN s[i] ELSE h[i - 1] \o s[i]]
      BY <3>2
    <3> HIDE DEF h
    <3>4. f = [i \in 1..n |-> IF i = 1 THEN s[i] ELSE f[i - 1] \o s[i]]
      BY <3>3
    <3> HIDE DEF f
    <3> DEFINE Same == {i \in 0..(n - 1) : f[i + 1] = J[i + 1]}
    <3>5. 0 \in Same
      <4>1. 1 \in 1..n /\ 0 \in 0..(n - 1) /\ 0 + 1 = 1
        BY <1>1, <2>2
      <4>2. f[1] = s[1]
        BY <3>4, <4>1
      <4>3. h[1] = s[1] /\ h[1] = J[1]
        BY <3>2, <4>1 DEF h
      <4> QED
        BY <4>1, <4>2, <4>3
    <3>6. ASSUME NEW i \in 0..(n - 2), i \in Same PROVE i + 1 \in Same
      <4>1. (i + 1) + 1 \in 1..n /\ ((i + 1) + 1) - 1 = i + 1 /\ (i + 1) + 1 # 1
            /\ i + 1 \in 0..(n - 1)
        BY <1>1, <2>2
      <4>2. f[(i + 1) + 1] = f[i + 1] \o s[(i + 1) + 1]
        BY <3>4, <4>1
      <4>3. J[(i + 1) + 1] = J[i + 1] \o s[(i + 1) + 1]
        BY <1>6, <4>1
      <4>4. f[i + 1] = J[i + 1]
        BY <3>6
      <4> QED
        BY <4>1, <4>2, <4>3, <4>4
    <3> HIDE DEF Same
    <3>7. n - 1 \in Nat /\ (n - 1) - 1 = n - 2 /\ n - 1 \in 0..(n - 1) /\ (n - 1) + 1 = n
      BY <1>1, <2>2
    <3>8. \A i \in 0..(n - 1) : i \in Same
      BY <3>5, <3>6, <3>7, InductUpTo
    <3>9. f[(n - 1) + 1] = J[(n - 1) + 1]
      BY <3>7, <3>8 DEF Same
    <3> QED
      BY <3>1, <3>7, <3>9
  <2> QED
    BY <2>1, <2>2
<1> QED
  BY <1>5, <1>6, <1>7 DEF Joins, n

LEMMA JoinPlaces ==
  ASSUME NEW S, NEW s \in Seq(Seq(S)), NEW J, Joins(s, J, S)
  PROVE  /\ FlattenSeq(s) \in Seq(S) /\ Len(FlattenSeq(s)) = Len(J[Len(s)])
         /\ \A i \in 0..Len(s) : J[i] \in Seq(S) /\ Len(J[i]) \in Nat
         /\ Len(J[0]) = 0
         /\ \A i \in 1..Len(s) :
              /\ Len(J[i]) = Len(J[i - 1]) + Len(s[i])
              /\ InPlace(FlattenSeq(s), Len(J[i - 1]), s[i])
<1> DEFINE n == Len(s)
           M == {m \in 0..n : \A i \in 1..m : InPlace(J[m], Len(J[i - 1]), s[i])}
<1>1. n \in Nat /\ \A i \in 1..n : s[i] \in Seq(S) /\ Len(s[i]) \in Nat
  BY SeqElements
<1>2. \A i \in 0..n : J[i] \in Seq(S) /\ Len(J[i]) \in Nat
  BY SeqElements DEF Joins
<1>3. \A i \in 1..n : J[i] = J[i - 1] \o s[i]
  BY DEF Joins
<1> HIDE DEF n
<1>4. 0 \in M
  BY <1>1
<1>5. ASSUME NEW m \in 0..(n - 1), m \in M PROVE m + 1 \in M
  <2>1. m \in 0..n /\ m + 1 \in 1..n /\ (m + 1) - 1 = m /\ m + 1 \in 0..n
    BY <1>1
  <2>2. J[m] \in Seq(S) /\ s[m + 1] \in Seq(S) /\ J[m + 1] = J[m] \o s[m + 1]
        /\ Len(J[m]) \in Nat /\ Len(J[m + 1]) \in Nat
    BY <1>1, <1>2, <1>3, <2>1
  <2>3. InPlace(J[m + 1], 0, J[m]) /\ InPlace(J[m + 1], Len(J[m]), s[m + 1])
    BY <2>2, AtJoined
  <2>4. ASSUME NEW i \in 1..(m + 1) PROVE InPlace(J[m + 1], Len(J[i - 1]), s[i])
    <3>1. CASE i = m + 1
      BY <2>1, <2>3, <3>1
    <3>2. CASE i # m + 1
      <4>1. i \in 1..m /\ i \in 1..n /\ i - 1 \in 0..n
        BY <1>1, <2>1, <3>2
      <4>2. InPlace(J[m], Len(J[i - 1]), s[i])
        BY <1>5, <4>1
      <4>3. Len(J[i - 1]) \in Nat /\ Len(s[i]) \in Nat /\ 0 + Len(J[i - 1]) = Len(J[i - 1])
        BY <1>1, <1>2, <4>1
      <4>4. InPlace(J[m + 1], 0 + Len(J[i - 1]), s[i])
        BY <2>2, <2>3, <4>2, <4>3, AtWithin
      <4> QED
        BY <4>3, <4>4
    <3> QED
      BY <3>1, <3>2
  <2> QED
    BY <2>1, <2>4
<1> HIDE DEF M
<1>6. \A m \in 0..n : m \in M
  BY <1>1, <1>4, <1>5, InductUpTo
<1>7. J[n] = FlattenSeq(s) /\ n \in 0..n
  BY <1>1 DEF Joins, n
<1>8. \A i \in 1..n : InPlace(FlattenSeq(s), Len(J[i - 1]), s[i])
  BY <1>6, <1>7 DEF M
<1>9. ASSUME NEW i \in 1..n PROVE Len(J[i]) = Len(J[i - 1]) + Len(s[i])
  <2>1. i - 1 \in 0..n
    BY <1>1
  <2>2. J[i - 1] \in Seq(S) /\ s[i] \in Seq(S) /\ J[i] = J[i - 1] \o s[i]
    BY <1>1, <1>2, <1>3, <2>1
  <2> QED
    BY <2>2, Joined
<1>10. Len(J[0]) = 0
  BY DEF Joins
<1>11. J[n] \in Seq(S)
  BY <1>2, <1>7
<1> QED
  BY <1>2, <1>7, <1>8, <1>9, <1>10, <1>11 DEF n

-----------------------------------------------------------------------------
(* The loops                                                               *)

LEMMA SameSteps ==
  ASSUME NEW n \in Nat, NEW f, NEW g, f[0] = g[0],
         \A j \in 1..n : f[j - 1] = g[j - 1] => f[j] = g[j]
  PROVE  f[n] = g[n]
<1> DEFINE Same == {j \in 0..n : f[j] = g[j]}
<1>1. 0 \in Same
  OBVIOUS
<1>2. ASSUME NEW j \in 0..(n - 1), j \in Same PROVE j + 1 \in Same
  <2>1. j + 1 \in 1..n /\ (j + 1) - 1 = j /\ j + 1 \in 0..n
    OBVIOUS
  <2>2. f[j] = g[j]
    BY <1>2
  <2>3. f[j + 1] = g[j + 1]
    BY <2>1, <2>2
  <2> QED
    BY <2>1, <2>3
<1> HIDE DEF Same
<1>3. \A j \in 0..n : j \in Same
  BY <1>1, <1>2, InductUpTo
<1>4. n \in Same
  BY <1>3
<1> QED
  BY <1>4 DEF Same

UnitSteps(data, pos, n, g) ==
  /\ n \in Nat /\ g[0] = [ok |-> TRUE, pos |-> pos, units |-> <<>>]
  /\ \A j \in 1..n : g[j] = NextUnit(data, g[j - 1])

LEMMA RecordUnitsLoop ==
  ASSUME NEW data, NEW pos, NEW n, NEW g, UnitSteps(data, pos, n, g)
  PROVE  RecordUnits(data, pos, n) = g[n]
<1>0. n \in Nat /\ g[0] = [ok |-> TRUE, pos |-> pos, units |-> <<>>]
      /\ \A j \in 1..n : g[j] = NextUnit(data, g[j - 1])
  BY DEF UnitSteps
<1> DEFINE start == [ok |-> TRUE, pos |-> pos, units |-> <<>>]
           f == CHOOSE f : f = [j \in 0..n |-> IF j = 0 THEN start ELSE NextUnit(data, f[j - 1])]
           h == [j \in 0..n |-> g[j]]
<1>1. RecordUnits(data, pos, n) = f[n]
  BY DEF RecordUnits
<1> HIDE DEF start
<1>2. ASSUME NEW j \in 0..n PROVE h[j] = IF j = 0 THEN start ELSE NextUnit(data, h[j - 1])
  <2>1. j # 0 => j - 1 \in 0..n /\ j \in 1..n
    BY <1>0
  <2> QED
    BY <1>0, <2>1 DEF start
<1>3. h = [j \in 0..n |-> IF j = 0 THEN start ELSE NextUnit(data, h[j - 1])]
  BY <1>2
<1>4. n \in 0..n /\ 0 \in 0..n /\ \A j \in 1..n : j \in 0..n /\ j # 0
  BY <1>0
<1>5. h[n] = g[n]
  BY <1>0, <1>4
<1> HIDE DEF h
<1>6. f = [j \in 0..n |-> IF j = 0 THEN start ELSE NextUnit(data, f[j - 1])]
  BY <1>3
<1> HIDE DEF f
<1>7. f[0] = h[0]
  BY <1>2, <1>4, <1>6
<1>8. \A j \in 1..n : f[j - 1] = h[j - 1] => f[j] = h[j]
  BY <1>2, <1>4, <1>6
<1>9. f[n] = h[n]
  BY <1>0, <1>7, <1>8, SameSteps
<1> QED
  BY <1>1, <1>5, <1>9

ArraySteps(data, n, g) ==
  /\ n \in Nat /\ g[0] = [ok |-> TRUE, pos |-> HvccHeaderLen, units |-> <<>>]
  /\ \A j \in 1..n : g[j] = NextArray(data, g[j - 1])

LEMMA RecordArraysLoop ==
  ASSUME NEW data, NEW n, NEW g, ArraySteps(data, n, g)
  PROVE  RecordArrays(data, n) = g[n]
<1>0. n \in Nat /\ g[0] = [ok |-> TRUE, pos |-> HvccHeaderLen, units |-> <<>>]
      /\ \A j \in 1..n : g[j] = NextArray(data, g[j - 1])
  BY DEF ArraySteps
<1> DEFINE start == [ok |-> TRUE, pos |-> HvccHeaderLen, units |-> <<>>]
           f == CHOOSE f : f = [j \in 0..n |-> IF j = 0 THEN start ELSE NextArray(data, f[j - 1])]
           h == [j \in 0..n |-> g[j]]
<1>1. RecordArrays(data, n) = f[n]
  BY DEF RecordArrays
<1> HIDE DEF start
<1>2. ASSUME NEW j \in 0..n PROVE h[j] = IF j = 0 THEN start ELSE NextArray(data, h[j - 1])
  <2>1. j # 0 => j - 1 \in 0..n /\ j \in 1..n
    BY <1>0
  <2> QED
    BY <1>0, <2>1 DEF start
<1>3. h = [j \in 0..n |-> IF j = 0 THEN start ELSE NextArray(data, h[j - 1])]
  BY <1>2
<1>4. n \in 0..n /\ 0 \in 0..n /\ \A j \in 1..n : j \in 0..n /\ j # 0
  BY <1>0
<1>5. h[n] = g[n]
  BY <1>0, <1>4
<1> HIDE DEF h
<1>6. f = [j \in 0..n |-> IF j = 0 THEN start ELSE NextArray(data, f[j - 1])]
  BY <1>3
<1> HIDE DEF f
<1>7. f[0] = h[0]
  BY <1>2, <1>4, <1>6
<1>8. \A j \in 1..n : f[j - 1] = h[j - 1] => f[j] = h[j]
  BY <1>2, <1>4, <1>6
<1>9. f[n] = h[n]
  BY <1>0, <1>7, <1>8, SameSteps
<1> QED
  BY <1>1, <1>5, <1>9

NalSteps(data, size, n, g) ==
  /\ n \in Nat /\ n = Len(data) /\ g[0] = [ok |-> TRUE, pos |-> 0, units |-> <<>>]
  /\ \A j \in 1..n : g[j] = NextNal(data, size, g[j - 1])

LEMMA NalsLoop ==
  ASSUME NEW data, NEW size, NEW n, NEW g, NalSteps(data, size, n, g)
  PROVE  split_length_prefixed(data, size) = g[n]
<1>0. n \in Nat /\ n = Len(data) /\ g[0] = [ok |-> TRUE, pos |-> 0, units |-> <<>>]
      /\ \A j \in 1..n : g[j] = NextNal(data, size, g[j - 1])
  BY DEF NalSteps
<1> DEFINE start == [ok |-> TRUE, pos |-> 0, units |-> <<>>]
           f == CHOOSE f : f = [j \in 0..n |-> IF j = 0 THEN start ELSE NextNal(data, size, f[j - 1])]
           h == [j \in 0..n |-> g[j]]
<1>1. split_length_prefixed(data, size) = f[n]
  BY <1>0 DEF split_length_prefixed
<1> HIDE DEF start
<1>2. ASSUME NEW j \in 0..n PROVE h[j] = IF j = 0 THEN start ELSE NextNal(data, size, h[j - 1])
  <2>1. j # 0 => j - 1 \in 0..n /\ j \in 1..n
    BY <1>0
  <2> QED
    BY <1>0, <2>1 DEF start
<1>3. h = [j \in 0..n |-> IF j = 0 THEN start ELSE NextNal(data, size, h[j - 1])]
  BY <1>2
<1>4. n \in 0..n /\ 0 \in 0..n /\ \A j \in 1..n : j \in 0..n /\ j # 0
  BY <1>0
<1>5. h[n] = g[n]
  BY <1>0, <1>4
<1> HIDE DEF h
<1>6. f = [j \in 0..n |-> IF j = 0 THEN start ELSE NextNal(data, size, f[j - 1])]
  BY <1>3
<1> HIDE DEF f
<1>7. f[0] = h[0]
  BY <1>2, <1>4, <1>6
<1>8. \A j \in 1..n : f[j - 1] = h[j - 1] => f[j] = h[j]
  BY <1>2, <1>4, <1>6
<1>9. f[n] = h[n]
  BY <1>0, <1>7, <1>8, SameSteps
<1> QED
  BY <1>1, <1>5, <1>9

ObuSteps(data, n, g) ==
  /\ n \in Nat /\ n = Len(data) /\ g[0] = [ok |-> TRUE, pos |-> 0, obus |-> <<>>]
  /\ \A j \in 1..n : g[j] = NextObu(data, g[j - 1])

LEMMA ObusLoop ==
  ASSUME NEW data, NEW n, NEW g, ObuSteps(data, n, g)
  PROVE  split_obus(data) = g[n]
<1>0. n \in Nat /\ n = Len(data) /\ g[0] = [ok |-> TRUE, pos |-> 0, obus |-> <<>>]
      /\ \A j \in 1..n : g[j] = NextObu(data, g[j - 1])
  BY DEF ObuSteps
<1> DEFINE start == [ok |-> TRUE, pos |-> 0, obus |-> <<>>]
           f == CHOOSE f : f = [j \in 0..n |-> IF j = 0 THEN start ELSE NextObu(data, f[j - 1])]
           h == [j \in 0..n |-> g[j]]
<1>1. split_obus(data) = f[n]
  BY <1>0 DEF split_obus
<1> HIDE DEF start
<1>2. ASSUME NEW j \in 0..n PROVE h[j] = IF j = 0 THEN start ELSE NextObu(data, h[j - 1])
  <2>1. j # 0 => j - 1 \in 0..n /\ j \in 1..n
    BY <1>0
  <2> QED
    BY <1>0, <2>1 DEF start
<1>3. h = [j \in 0..n |-> IF j = 0 THEN start ELSE NextObu(data, h[j - 1])]
  BY <1>2
<1>4. n \in 0..n /\ 0 \in 0..n /\ \A j \in 1..n : j \in 0..n /\ j # 0
  BY <1>0
<1>5. h[n] = g[n]
  BY <1>0, <1>4
<1> HIDE DEF h
<1>6. f = [j \in 0..n |-> IF j = 0 THEN start ELSE NextObu(data, f[j - 1])]
  BY <1>3
<1> HIDE DEF f
<1>7. f[0] = h[0]
  BY <1>2, <1>4, <1>6
<1>8. \A j \in 1..n : f[j - 1] = h[j - 1] => f[j] = h[j]
  BY <1>2, <1>4, <1>6
<1>9. f[n] = h[n]
  BY <1>0, <1>7, <1>8, SameSteps
<1> QED
  BY <1>1, <1>5, <1>9

-----------------------------------------------------------------------------
(* The hvcC record                                                         *)

LEMMA Widen ==
  ASSUME NEW S, NEW T, S \subseteq T
  PROVE  Seq(S) \subseteq Seq(T)
<1> SUFFICES ASSUME NEW s \in Seq(S) PROVE s \in Seq(T)
  OBVIOUS
<1>1. Len(s) \in Nat /\ DOMAIN s = 1..Len(s) /\ \A i \in 1..Len(s) : s[i] \in T
  BY SeqElements
<1> QED
  OBVIOUS

LEMMA LengthBytes ==
  ASSUME NEW n \in Nat
  PROVE  U16(n) \in Seq(Nat) /\ Len(U16(n)) = 2
<1> DEFINE h == n \div 256
           l == n % 256
<1>1. h \in Nat /\ l \in Nat
  BY Divide
<1> HIDE DEF h, l
<1>2. <<h, l>> \in Seq(Nat)
  BY <1>1
<1> QED
  BY <1>2 DEF U16, h, l

(* A length is read as it is written.                                      *)
LEMMA LengthRead ==
  ASSUME NEW n \in Nat, NEW data, NEW p \in Nat, InPlace(data, p, U16(n))
  PROVE  BE16(data, p) = n /\ p + 2 <= Len(data)
<1> DEFINE h == n \div 256
           l == n % 256
<1>1. U16(n) = <<h, l>>
  BY DEF U16
<1>2. n = h * 256 + l
  BY Divide
<1> HIDE DEF h, l
<1>3. p + 2 <= Len(data) /\ data[p + 1] = h /\ data[p + 2] = l
  BY <1>1 DEF InPlace
<1> QED
  BY <1>2, <1>3 DEF BE16

(* Where acc stands there is a unit behind its 16-bit length.              *)
UnitAt(data, acc, c, unit) ==
  /\ acc.ok = TRUE /\ acc.pos \in Nat /\ data \in Seq(Nat) /\ unit \in Seq(Nat)
  /\ c = U16(Len(unit)) \o unit /\ InPlace(data, acc.pos, c)

LEMMA UnitRead ==
  ASSUME NEW data, NEW unit, NEW c, NEW acc, UnitAt(data, acc, c, unit)
  PROVE  NextUnit(data, acc)
           = [ok |-> TRUE, pos |-> acc.pos + Len(c), units |-> Append(acc.units, unit)]
<1> DEFINE n == Len(unit)
           w == U16(n)
           p == acc.pos
<1>0. p \in Nat /\ data \in Seq(Nat) /\ unit \in Seq(Nat) /\ c = w \o unit /\ InPlace(data, p, c)
  BY DEF UnitAt
<1> HIDE DEF p
<1>1. n \in Nat /\ Len(data) \in Nat
  BY <1>0, SeqElements
<1>2. w \in Seq(Nat) /\ Len(w) = 2
  <2>1. n \div 256 \in Nat /\ n % 256 \in Nat
    BY <1>1, Divide
  <2> HIDE DEF n
  <2> QED
    BY <2>1 DEF U16
<1> HIDE DEF w
<1>3. c \in Seq(Nat) /\ Len(c) = 2 + n
  <2>1. w \o unit \in Seq(Nat) /\ Len(w \o unit) = Len(w) + Len(unit)
    BY <1>0, <1>2, Joined
  <2> QED
    BY <1>0, <1>2, <2>1
<1>4. InPlace(c, 0, w) /\ InPlace(c, 2, unit)
  <2>1. InPlace(w \o unit, 0, w) /\ InPlace(w \o unit, Len(w), unit)
    BY <1>0, <1>2, AtJoined
  <2> QED
    BY <1>0, <1>2, <2>1
<1>6. InPlace(data, p, w) /\ InPlace(data, p + 2, unit)
  <2>1. p + 0 = p /\ 0 \in Nat /\ 2 \in Nat /\ Len(w) \in Nat /\ Len(c) \in Nat /\ Len(unit) \in Nat
    BY <1>0, <1>1, <1>2, <1>3
  <2>2. InPlace(data, p + 0, w)
    BY <1>1, <1>0, <1>4, <2>1, AtWithin
  <2>3. InPlace(data, p + 2, unit)
    BY <1>1, <1>0, <1>4, <2>1, AtWithin
  <2> QED
    BY <2>1, <2>2, <2>3
<1>7. BE16(data, p) = n /\ p + 2 <= Len(data)
  BY <1>0, <1>1, <1>6, LengthRead DEF w
<1>8. Slice(data, p + 2, n) = unit /\ p + 2 + n <= Len(data)
  <2>1. p + 2 \in Nat
    BY <1>0
  <2>2. Slice(data, p + 2, n) = unit
    BY <1>0, <1>6, <2>1, AtWhole
  <2>3. p + 2 + n <= Len(data)
    BY <1>0, <1>6 DEF InPlace
  <2> QED
    BY <2>2, <2>3
<1>9. acc.ok = TRUE /\ acc.pos = p
  BY DEF UnitAt, p
<1> HIDE DEF n
<1>10. ~(p + 2 > Len(data)) /\ ~(p + 2 + n > Len(data))
  BY <1>0, <1>1, <1>7, <1>8
<1>11. NextUnit(data, acc) = [ok |-> TRUE, pos |-> p + 2 + n, units |-> Append(acc.units, unit)]
  BY <1>7, <1>8, <1>9, <1>10 DEF NextUnit
<1>12. p + 2 + n = p + Len(c)
  BY <1>0, <1>1, <1>3
<1> QED
  BY <1>11, <1>12 DEF p

LEMMA Prefix ==
  ASSUME NEW S, NEW s \in Seq(S)
  PROVE  /\ SubSeq(s, 1, 0) = <<>> /\ SubSeq(s, 1, Len(s)) = s
         /\ \A j \in 1..Len(s) : SubSeq(s, 1, j) = Append(SubSeq(s, 1, j - 1), s[j])
<1>1. SubSeq(s, 1, 0) = <<>> /\ SubSeq(s, 1, Len(s)) = s
  OBVIOUS
<1>2. ASSUME NEW j \in 1..Len(s) PROVE SubSeq(s, 1, j) = Append(SubSeq(s, 1, j - 1), s[j])
  <2> DEFINE a == SubSeq(s, 1, j)
             b == SubSeq(s, 1, j - 1)
             c == Append(b, s[j])
  <2>0. 0 \in Nat /\ j - 1 \in Nat /\ j \in Nat /\ 0 + (j - 1) = j - 1 /\ 0 + j = j /\ 0 + 1 = 1
        /\ 0 + (j - 1) <= Len(s) /\ 0 + j <= Len(s) /\ s[j] \in S
    OBVIOUS
  <2>1. a \in Seq(S) /\ Len(a) = j /\ \A i \in 1..j : a[i] = s[i]
    OBVIOUS
  <2>2. b \in Seq(S) /\ Len(b) = j - 1 /\ \A i \in 1..(j - 1) : b[i] = s[i]
    OBVIOUS
  <2> HIDE DEF a, b
  <2>3. c \in Seq(S) /\ Len(c) = j /\ c[j] = s[j] /\ \A i \in 1..(j - 1) : c[i] = b[i]
    BY <2>0, <2>2
  <2> HIDE DEF c
  <2>4. \A i \in 1..j : a[i] = c[i]
    BY <2>0, <2>1, <2>2, <2>3
  <2>5. a = c
    BY <2>0, <2>1, <2>3, <2>4, SeqSame
  <2> QED
    BY <2>5 DEF a, b, c
<1> QED
  BY <1>1, <1>2

(* The units, each behind its length, put together from p on.              *)
UnitsAt(data, p, units, n, chunks) ==
  /\ data \in Seq(Nat) /\ units \in Seq(Seq(Nat)) /\ p \in Nat
  /\ n \in Nat /\ n = Len(units) /\ chunks \in Seq(Seq(Nat)) /\ Len(chunks) = n
  /\ \A i \in 1..n : chunks[i] = U16(Len(units[i])) \o units[i]
  /\ InPlace(data, p, FlattenSeq(chunks))

LEMMA UnitsRead ==
  ASSUME NEW data, NEW units, NEW p, NEW n, NEW chunks, UnitsAt(data, p, units, n, chunks)
  PROVE  /\ FlattenSeq(chunks) \in Seq(Nat)
         /\ RecordUnits(data, p, n)
              = [ok |-> TRUE, pos |-> p + Len(FlattenSeq(chunks)), units |-> units]
<1>0. /\ data \in Seq(Nat) /\ units \in Seq(Seq(Nat)) /\ p \in Nat
      /\ n \in Nat /\ n = Len(units) /\ chunks \in Seq(Seq(Nat)) /\ Len(chunks) = n
      /\ \A i \in 1..n : chunks[i] = U16(Len(units[i])) \o units[i]
      /\ InPlace(data, p, FlattenSeq(chunks))
  BY DEF UnitsAt
<1>1. Len(data) \in Nat /\ \A i \in 1..n : units[i] \in Seq(Nat) /\ chunks[i] \in Seq(Nat)
  BY <1>0, SeqElements
<1>5. PICK J : Joins(chunks, J, Nat)
  BY <1>0, Flatten
<1>6. /\ FlattenSeq(chunks) \in Seq(Nat) /\ Len(FlattenSeq(chunks)) = Len(J[n])
      /\ Len(J[0]) = 0 /\ \A i \in 0..n : Len(J[i]) \in Nat
      /\ \A i \in 1..n : /\ Len(J[i]) = Len(J[i - 1]) + Len(chunks[i])
                         /\ InPlace(FlattenSeq(chunks), Len(J[i - 1]), chunks[i])
  <2>1. J[Len(chunks)] = J[n]
    BY <1>0
  <2>2. /\ FlattenSeq(chunks) \in Seq(Nat) /\ Len(FlattenSeq(chunks)) = Len(J[Len(chunks)])
        /\ \A i \in 0..Len(chunks) : J[i] \in Seq(Nat) /\ Len(J[i]) \in Nat
        /\ Len(J[0]) = 0
        /\ \A i \in 1..Len(chunks) :
             /\ Len(J[i]) = Len(J[i - 1]) + Len(chunks[i])
             /\ InPlace(FlattenSeq(chunks), Len(J[i - 1]), chunks[i])
    BY <1>0, <1>5, JoinPlaces
  <2> QED
    BY <1>0, <2>1, <2>2
<1> DEFINE g == [i \in 0..n |-> [ok |-> TRUE, pos |-> p + Len(J[i]), units |-> SubSeq(units, 1, i)]]
<1>7. g[0] = [ok |-> TRUE, pos |-> p, units |-> <<>>]
  <2>1. 0 \in 0..n /\ p + 0 = p /\ SubSeq(units, 1, 0) = <<>>
    BY <1>0, <1>1, Prefix
  <2> QED
    BY <1>0, <1>6, <2>1
<1>8. ASSUME NEW j \in 1..n PROVE g[j] = NextUnit(data, g[j - 1])
  <2> DEFINE q == p + Len(J[j - 1])
             us == SubSeq(units, 1, j - 1)
             c == chunks[j]
  <2>1. j - 1 \in 0..n /\ j \in 0..n /\ Len(J[j - 1]) \in Nat /\ q \in Nat
    BY <1>0, <1>1, <1>6
  <2>2. c = U16(Len(units[j])) \o units[j] /\ units[j] \in Seq(Nat) /\ c \in Seq(Nat)
    BY <1>0, <1>1
  <2>3. Len(c) \in Nat /\ Len(FlattenSeq(chunks)) \in Nat
    BY <1>0, <1>6, <2>2, SeqElements
  <2>4. InPlace(data, q, c)
    BY <1>0, <1>1, <1>6, <2>1, <2>3, AtWithin
  <2>5. Len(J[j]) = Len(J[j - 1]) + Len(c)
    BY <1>0, <1>6
  <2>6. SubSeq(units, 1, j) = Append(us, units[j])
    BY <1>0, Prefix
  <2>7. g[j] = [ok |-> TRUE, pos |-> p + Len(J[j]), units |-> SubSeq(units, 1, j)]
        /\ g[j - 1] = [ok |-> TRUE, pos |-> q, units |-> us]
    BY <1>0, <2>1
  <2>8. p + Len(J[j]) = q + Len(c)
    <3> HIDE DEF c
    <3> QED
      BY <1>0, <2>1, <2>3, <2>5
  <2> HIDE DEF g, q, us, c
  <2> DEFINE acc == [ok |-> TRUE, pos |-> q, units |-> us]
  <2>9. UnitAt(data, acc, c, units[j])
    BY <1>0, <2>1, <2>2, <2>4 DEF UnitAt
  <2>10. acc.pos = q /\ acc.units = us
    BY <1>0
  <2> HIDE DEF acc
  <2>11. NextUnit(data, acc) = [ok |-> TRUE, pos |-> q + Len(c), units |-> Append(us, units[j])]
    BY <1>0, <2>9, <2>10, UnitRead
  <2> QED
    BY <1>0, <2>6, <2>7, <2>8, <2>11 DEF acc
<1>9. g[n] = [ok |-> TRUE, pos |-> p + Len(J[n]), units |-> SubSeq(units, 1, n)]
  BY <1>0, <1>1
<1> HIDE DEF g
<1>10. RecordUnits(data, p, n) = g[n]
  <2>1. UnitSteps(data, p, n, g)
    BY <1>0, <1>7, <1>8 DEF UnitSteps
  <2> QED
    BY <1>0, <2>1, RecordUnitsLoop
<1>11. SubSeq(units, 1, n) = units
  BY <1>0, Prefix
<1> QED
  BY <1>0, <1>6, <1>9, <1>10, <1>11

(* The chunks of units.                                                    *)
Coded(units) == [i \in DOMAIN units |-> U16(Len(units[i])) \o units[i]]

LEMMA CodedUnits ==
  ASSUME NEW units \in Seq(Seq(Nat)), NEW n, n = Len(units)
  PROVE  /\ Coded(units) \in Seq(Seq(Nat)) /\ Len(Coded(units)) = n /\ n \in Nat
         /\ \A i \in 1..n : Coded(units)[i] = U16(Len(units[i])) \o units[i]
<1> DEFINE chunks == Coded(units)
<1>1. n \in Nat /\ DOMAIN units = 1..n /\ \A i \in 1..n : units[i] \in Seq(Nat)
  BY SeqElements
<1>2. ASSUME NEW i \in 1..n PROVE U16(Len(units[i])) \o units[i] \in Seq(Nat)
  <2>1. units[i] \in Seq(Nat) /\ Len(units[i]) \in Nat
    BY <1>1
  <2>2. U16(Len(units[i])) \in Seq(Nat)
    BY <2>1, LengthBytes
  <2> QED
    BY <2>1, <2>2, Joined
<1>3. chunks \in [1..n -> Seq(Nat)] /\ \A i \in 1..n : chunks[i] = U16(Len(units[i])) \o units[i]
  BY <1>1, <1>2 DEF Coded
<1> HIDE DEF chunks
<1>4. chunks \in Seq(Seq(Nat)) /\ Len(chunks) = n
  BY <1>1, <1>3, SeqFunction
<1> QED
  BY <1>1, <1>3, <1>4 DEF chunks

LEMMA Flattened ==
  ASSUME NEW S, NEW s \in Seq(Seq(S))
  PROVE  FlattenSeq(s) \in Seq(S)
<1>1. PICK J : Joins(s, J, S)
  BY Flatten
<1> QED
  BY <1>1, JoinPlaces

(* What is in place in one of two parts put together.                      *)
LEMMA AtParts ==
  ASSUME NEW S, NEW s \in Seq(S), NEW t \in Seq(S), NEW data, Len(data) \in Nat,
         NEW p \in Nat, InPlace(data, p, s \o t)
  PROVE  InPlace(data, p, s) /\ InPlace(data, p + Len(s), t)
<1> DEFINE u == s \o t
<1>1. u \in Seq(S) /\ InPlace(u, 0, s) /\ InPlace(u, Len(s), t)
  BY Joined, AtJoined
<1>2. Len(u) \in Nat /\ Len(s) \in Nat /\ Len(t) \in Nat /\ 0 \in Nat /\ p + 0 = p
  BY <1>1, SeqElements
<1> HIDE DEF u
<1>3. InPlace(data, p + 0, s)
  BY <1>1, <1>2, AtWithin DEF u
<1>4. InPlace(data, p + Len(s), t)
  BY <1>1, <1>2, AtWithin DEF u
<1> QED
  BY <1>2, <1>3, <1>4

(* Where acc stands there is an array of the record.                       *)
ArrayAt(data, acc, array) ==
  /\ acc.ok = TRUE /\ acc.pos \in Nat /\ data \in Seq(Nat)
  /\ array.type \in Nat /\ array.nal_units \in Seq(Seq(Nat))
  /\ InPlace(data, acc.pos, ArrayBytes(array))

LEMMA ArrayIsBytes ==
  ASSUME NEW array, array.type \in Nat, array.nal_units \in Seq(Seq(Nat)), NEW n,
         n = Len(array.nal_units)
  PROVE  /\ n \in Nat /\ ArrayBytes(array) \in Seq(Nat)
         /\ <<128 * Flag(array.completeness) + array.type>> \in Seq(Nat)
         /\ U16(n) \in Seq(Nat) /\ Len(U16(n)) = 2
         /\ FlattenSeq(Coded(array.nal_units)) \in Seq(Nat)
         /\ ArrayBytes(array) = (<<128 * Flag(array.completeness) + array.type>> \o U16(n))
                                  \o FlattenSeq(Coded(array.nal_units))
<1> DEFINE f == Flag(array.completeness)
           x == 128 * f + array.type
           us == array.nal_units
<1>1. n \in Nat /\ Coded(us) \in Seq(Seq(Nat))
  BY CodedUnits
<1>2. FlattenSeq(Coded(us)) \in Seq(Nat)
  BY <1>1, Flattened
<1>3. <<x>> \in Seq(Nat)
  <2>1. f \in Nat
    BY DEF Flag
  <2> HIDE DEF f
  <2>2. x \in Nat
    BY <2>1
  <2> HIDE DEF x
  <2> QED
    BY <2>2
<1>4. U16(n) \in Seq(Nat) /\ Len(U16(n)) = 2
  BY <1>1, LengthBytes
<1>5. ArrayBytes(array) = (<<x>> \o U16(n)) \o FlattenSeq(Coded(us))
  BY DEF ArrayBytes, Coded
<1> HIDE DEF x, us
<1>6. <<x>> \o U16(n) \in Seq(Nat)
  BY <1>3, <1>4, Joined
<1>7. (<<x>> \o U16(n)) \o FlattenSeq(Coded(us)) \in Seq(Nat)
  BY <1>2, <1>6, Joined
<1> QED
  BY <1>1, <1>2, <1>3, <1>4, <1>5, <1>7 DEF x, us

LEMMA ArrayRead ==
  ASSUME NEW data, NEW acc, NEW array, ArrayAt(data, acc, array)
  PROVE  NextArray(data, acc) = [ok |-> TRUE, pos |-> acc.pos + Len(ArrayBytes(array)),
                                 units |-> acc.units \o array.nal_units]
<1> DEFINE us == array.nal_units
           n == Len(us)
           x == 128 * Flag(array.completeness) + array.type
           p == acc.pos
           b == ArrayBytes(array)
           c == Coded(us)
           f == FlattenSeq(c)
           w == U16(n)
<1>0. /\ acc.ok = TRUE /\ p \in Nat /\ data \in Seq(Nat) /\ Len(data) \in Nat
      /\ us \in Seq(Seq(Nat)) /\ InPlace(data, p, b)
  BY SeqElements DEF ArrayAt
<1>1. /\ n \in Nat /\ b \in Seq(Nat) /\ <<x>> \in Seq(Nat) /\ w \in Seq(Nat) /\ Len(w) = 2
      /\ f \in Seq(Nat) /\ b = (<<x>> \o w) \o f
  BY ArrayIsBytes DEF ArrayAt
<1>2. /\ c \in Seq(Seq(Nat)) /\ Len(c) = n
      /\ \A i \in 1..n : c[i] = U16(Len(us[i])) \o us[i]
  BY <1>0, CodedUnits
<1>3. n = Len(us) /\ w = U16(n) /\ f = FlattenSeq(c) /\ Len(<<x>>) = 1
  OBVIOUS
<1> HIDE DEF us, n, x, p, b, c, f, w
<1> DEFINE h == <<x>> \o w
<1>4. h \in Seq(Nat) /\ Len(h) = 3 /\ b = h \o f
  <2>1. <<x>> \o w \in Seq(Nat) /\ Len(<<x>> \o w) = Len(<<x>>) + Len(w)
    BY <1>1, Joined
  <2> QED
    BY <1>1, <1>3, <2>1
<1>6. InPlace(data, p, h) /\ InPlace(data, p + 3, f)
  <2> HIDE DEF h
  <2>1. InPlace(data, p, h \o f)
    BY <1>0, <1>4
  <2>2. InPlace(data, p, h) /\ InPlace(data, p + Len(h), f)
    BY <1>0, <1>1, <1>4, <2>1, AtParts
  <2> QED
    BY <1>4, <2>2
<1>7. InPlace(data, p + 1, w) /\ p + 1 \in Nat /\ p + 3 \in Nat
  <2>1. InPlace(data, p + Len(<<x>>), w)
    BY <1>0, <1>1, <1>6, AtParts
  <2> QED
    BY <1>0, <1>3, <2>1
<1>8. BE16(data, p + 1) = n
  BY <1>1, <1>3, <1>7, LengthRead
<1>9. p + 3 <= Len(data)
  <2> HIDE DEF h
  <2> QED
    BY <1>4, <1>6 DEF InPlace
<1> DEFINE array1 == RecordUnits(data, p + 3, n)
           q == p + 3
<1>10. array1 = [ok |-> TRUE, pos |-> (p + 3) + Len(f), units |-> us]
  <2>1. UnitsAt(data, q, us, n, c)
    BY <1>0, <1>1, <1>2, <1>3, <1>6, <1>7 DEF UnitsAt
  <2>2. array1 = RecordUnits(data, q, n)
    OBVIOUS
  <2> HIDE DEF q, array1
  <2>3. RecordUnits(data, q, n) = [ok |-> TRUE, pos |-> q + Len(FlattenSeq(c)), units |-> us]
    BY <2>1, UnitsRead
  <2> QED
    BY <1>3, <2>2, <2>3 DEF q
<1>11. (p + 3) + Len(f) = p + Len(b)
  <2>1. Len(f) \in Nat /\ Len(h) = 3
    BY <1>1, <1>4, SeqElements
  <2> HIDE DEF h
  <2>2. Len(h \o f) = Len(h) + Len(f)
    BY <1>1, <1>4, Joined
  <2> QED
    BY <1>0, <1>4, <2>1, <2>2
<1> HIDE DEF array1
<1>12. NextArray(data, acc) = [array1 EXCEPT !.units = acc.units \o array1.units]
  <2>1. ~(acc.pos + 3 > Len(data)) /\ BE16(data, acc.pos + 1) = n
    BY <1>0, <1>8, <1>9 DEF p
  <2>2. array1.ok = TRUE /\ array1 = RecordUnits(data, acc.pos + 3, n)
    BY <1>10 DEF array1, p
  <2> QED
    BY <1>0, <2>1, <2>2 DEF NextArray
<1>13. NextArray(data, acc) = [ok |-> TRUE, pos |-> (p + 3) + Len(f), units |-> acc.units \o us]
  BY <1>10, <1>12
<1> QED
  BY <1>11, <1>13 DEF p, b, us

(* The arrays of the record behind its header: their bytes and their       *)
(* units, put together.                                                    *)
ArraysAt(data, arrays, n, bytes, units) ==
  /\ data \in Seq(Nat) /\ n \in Nat
  /\ bytes \in Seq(Seq(Nat)) /\ Len(bytes) = n /\ units \in Seq(Seq(Seq(Nat))) /\ Len(units) = n
  /\ \A i \in 1..n : /\ arrays[i].type \in Nat /\ arrays[i].nal_units \in Seq(Seq(Nat))
                     /\ bytes[i] = ArrayBytes(arrays[i]) /\ units[i] = arrays[i].nal_units
  /\ InPlace(data, HvccHeaderLen, FlattenSeq(bytes))

LEMMA ArraysRead ==
  ASSUME NEW data, NEW arrays, NEW n, NEW bytes, NEW units,
         ArraysAt(data, arrays, n, bytes, units)
  PROVE  RecordArrays(data, n)
           = [ok |-> TRUE, pos |-> HvccHeaderLen + Len(FlattenSeq(bytes)),
              units |-> FlattenSeq(units)]
<1> DEFINE start == HvccHeaderLen
<1>0. /\ data \in Seq(Nat) /\ n \in Nat
      /\ bytes \in Seq(Seq(Nat)) /\ Len(bytes) = n
      /\ units \in Seq(Seq(Seq(Nat))) /\ Len(units) = n
      /\ \A i \in 1..n : /\ arrays[i].type \in Nat /\ arrays[i].nal_units \in Seq(Seq(Nat))
                         /\ bytes[i] = ArrayBytes(arrays[i]) /\ units[i] = arrays[i].nal_units
      /\ InPlace(data, start, FlattenSeq(bytes))
  BY DEF ArraysAt
<1>1. Len(data) \in Nat /\ start \in Nat /\ \A i \in 1..n : bytes[i] \in Seq(Nat)
  BY <1>0, SeqElements DEF HvccHeaderLen
<1> HIDE DEF start
<1>2. PICK J : Joins(bytes, J, Nat)
  BY <1>0, Flatten
<1>3. PICK K : Joins(units, K, Seq(Nat))
  BY <1>0, Flatten
<1>4. /\ FlattenSeq(bytes) \in Seq(Nat) /\ Len(FlattenSeq(bytes)) = Len(J[n])
      /\ Len(J[0]) = 0 /\ \A i \in 0..n : Len(J[i]) \in Nat
      /\ \A i \in 1..n : /\ Len(J[i]) = Len(J[i - 1]) + Len(bytes[i])
                         /\ InPlace(FlattenSeq(bytes), Len(J[i - 1]), bytes[i])
  <2>1. /\ FlattenSeq(bytes) \in Seq(Nat) /\ Len(FlattenSeq(bytes)) = Len(J[Len(bytes)])
        /\ \A i \in 0..Len(bytes) : J[i] \in Seq(Nat) /\ Len(J[i]) \in Nat
        /\ Len(J[0]) = 0
        /\ \A i \in 1..Len(bytes) :
             /\ Len(J[i]) = Len(J[i - 1]) + Len(bytes[i])
             /\ InPlace(FlattenSeq(bytes), Len(J[i - 1]), bytes[i])
    BY <1>0, <1>2, JoinPlaces
  <2> QED
    BY <1>0, <2>1
<1>5. K[0] = <<>> /\ K[n] = FlattenSeq(units) /\ \A i \in 1..n : K[i] = K[i - 1] \o units[i]
  BY <1>0, <1>3 DEF Joins
<1> DEFINE g == [i \in 0..n |-> [ok |-> TRUE, pos |-> start + Len(J[i]), units |-> K[i]]]
<1>6. g[0] = [ok |-> TRUE, pos |-> start, units |-> <<>>]
  <2>1. 0 \in 0..n /\ start + 0 = start
    BY <1>0, <1>1
  <2> QED
    BY <1>4, <1>5, <2>1
<1>7. ASSUME NEW j \in 1..n PROVE g[j] = NextArray(data, g[j - 1])
  <2> DEFINE q == start + Len(J[j - 1])
             us == K[j - 1]
             acc == [ok |-> TRUE, pos |-> q, units |-> us]
             b == bytes[j]
  <2>1. j - 1 \in 0..n /\ j \in 0..n /\ Len(J[j - 1]) \in Nat /\ q \in Nat
    <3>1. j - 1 \in 0..n /\ j \in 0..n
      BY <1>0
    <3>2. Len(J[j - 1]) \in Nat
      BY <1>4, <3>1
    <3> QED
      BY <1>1, <3>1, <3>2
  <2>2. b \in Seq(Nat) /\ b = ArrayBytes(arrays[j]) /\ units[j] = arrays[j].nal_units
        /\ arrays[j].type \in Nat /\ arrays[j].nal_units \in Seq(Seq(Nat))
    BY <1>0, <1>1
  <2>3. Len(b) \in Nat /\ Len(FlattenSeq(bytes)) \in Nat
    BY <1>4, <2>2, SeqElements
  <2>4. InPlace(data, q, b)
    BY <1>0, <1>1, <1>4, <2>1, <2>3, AtWithin
  <2>5. Len(J[j]) = Len(J[j - 1]) + Len(b)
    BY <1>4
  <2>6. K[j] = us \o units[j]
    BY <1>5
  <2>7. g[j] = [ok |-> TRUE, pos |-> start + Len(J[j]), units |-> K[j]] /\ g[j - 1] = acc
    BY <2>1
  <2>8. acc.ok = TRUE /\ acc.pos = q /\ acc.units = us
    OBVIOUS
  <2>9. start + Len(J[j]) = q + Len(b)
    <3> HIDE DEF b
    <3> QED
      BY <1>1, <2>1, <2>3, <2>5
  <2> HIDE DEF g, q, us, acc, b
  <2>10. ArrayAt(data, acc, arrays[j])
    BY <1>0, <2>1, <2>2, <2>4, <2>8 DEF ArrayAt
  <2>11. NextArray(data, acc) = [ok |-> TRUE, pos |-> acc.pos + Len(ArrayBytes(arrays[j])),
                                 units |-> acc.units \o arrays[j].nal_units]
    BY <2>10, ArrayRead
  <2>12. NextArray(data, acc) = [ok |-> TRUE, pos |-> q + Len(b), units |-> us \o units[j]]
    BY <2>2, <2>8, <2>11
  <2> QED
    BY <2>6, <2>7, <2>9, <2>12
<1>8. g[n] = [ok |-> TRUE, pos |-> start + Len(J[n]), units |-> K[n]]
  BY <1>0
<1> HIDE DEF g
<1>9. RecordArrays(data, n) = g[n]
  <2>1. ArraySteps(data, n, g)
    BY <1>0, <1>6, <1>7 DEF ArraySteps, start
  <2> QED
    BY <2>1, RecordArraysLoop
<1> QED
  BY <1>4, <1>5, <1>8, <1>9 DEF start

LEMMA BytesAreNumbers == Bytes \subseteq Seq(Nat)
<1>1. 0..255 \subseteq Nat
  OBVIOUS
<1> QED
  BY <1>1, Widen DEF Bytes

HeaderOf(h, o, a, b, c, q, x, y) ==
  /\ o \in Seq(Nat) /\ Len(o) = 15 /\ q \in Seq(Nat) /\ Len(q) = 2
  /\ a \in Nat /\ b \in Nat /\ c \in Nat /\ x \in Nat /\ y \in Nat
  /\ h = <<1>> \o o \o <<a, b, c>> \o q \o <<x, y>>

LEMMA HeaderBytes ==
  ASSUME NEW h, NEW o, NEW a, NEW b, NEW c, NEW q, NEW x, NEW y,
         HeaderOf(h, o, a, b, c, q, x, y)
  PROVE  h \in Seq(Nat) /\ Len(h) = HvccHeaderLen /\ h[1] = 1 /\ h[22] = x /\ h[23] = y
<1>0. /\ o \in Seq(Nat) /\ Len(o) = 15 /\ q \in Seq(Nat) /\ Len(q) = 2
      /\ a \in Nat /\ b \in Nat /\ c \in Nat /\ x \in Nat /\ y \in Nat
  BY DEF HeaderOf
<1> DEFINE t1 == <<1>>
           t3 == <<a, b, c>>
           t5 == <<x, y>>
<1>1. /\ t1 \in Seq(Nat) /\ Len(t1) = 1 /\ t1[1] = 1 /\ t3 \in Seq(Nat) /\ Len(t3) = 3
      /\ t5 \in Seq(Nat) /\ Len(t5) = 2 /\ t5[1] = x /\ t5[2] = y
  BY <1>0
<1>2. h = t1 \o o \o t3 \o q \o t5
  BY DEF HeaderOf
<1> HIDE DEF t1, t3, t5
<1> DEFINE h2 == t1 \o o
           h3 == h2 \o t3
           h4 == h3 \o q
<1>3. t1 \in Seq(Nat) /\ t3 \in Seq(Nat) /\ t5 \in Seq(Nat) /\ o \in Seq(Nat) /\ q \in Seq(Nat)
  BY <1>0, <1>1
<1>4. h = h4 \o t5
  BY <1>2
<1>5. h2 \in Seq(Nat) /\ Len(h2) = 16 /\ h2[1] = 1
  <2>1. /\ t1 \o o \in Seq(Nat) /\ Len(t1 \o o) = Len(t1) + Len(o)
        /\ \A i \in 1..Len(t1) : (t1 \o o)[i] = t1[i]
    BY <1>3, Joined
  <2> QED
    BY <1>0, <1>1, <2>1
<1> HIDE DEF h2
<1>6. h3 \in Seq(Nat) /\ Len(h3) = 19 /\ h3[1] = 1
  <2>0. h2 \in Seq(Nat)
    BY <1>5
  <2>1. /\ h2 \o t3 \in Seq(Nat) /\ Len(h2 \o t3) = Len(h2) + Len(t3)
        /\ \A i \in 1..Len(h2) : (h2 \o t3)[i] = h2[i]
    BY <1>3, <2>0, Joined
  <2> HIDE DEF h3
  <2>2. Len(h2) = 16 /\ h2[1] = 1 /\ 1 \in 1..Len(h2) /\ Len(t3) = 3
    BY <1>1, <1>5
  <2> QED
    BY <2>1, <2>2 DEF h3
<1> HIDE DEF h3
<1>7. h4 \in Seq(Nat) /\ Len(h4) = 21 /\ h4[1] = 1
  <2>0. h3 \in Seq(Nat)
    BY <1>6
  <2>1. /\ h3 \o q \in Seq(Nat) /\ Len(h3 \o q) = Len(h3) + Len(q)
        /\ \A i \in 1..Len(h3) : (h3 \o q)[i] = h3[i]
    BY <1>3, <2>0, Joined
  <2>2. Len(h3) = 19 /\ h3[1] = 1 /\ 1 \in 1..Len(h3) /\ Len(q) = 2
    BY <1>0, <1>6
  <2> QED
    BY <2>1, <2>2
<1> HIDE DEF h4
<1>8. /\ h4 \o t5 \in Seq(Nat) /\ Len(h4 \o t5) = 23 /\ (h4 \o t5)[1] = 1
      /\ (h4 \o t5)[22] = x /\ (h4 \o t5)[23] = y
  <2>0. h4 \in Seq(Nat)
    BY <1>7
  <2>1. /\ h4 \o t5 \in Seq(Nat) /\ Len(h4 \o t5) = Len(h4) + Len(t5)
        /\ \A i \in 1..Len(h4) : (h4 \o t5)[i] = h4[i]
        /\ \A i \in 1..Len(t5) : (h4 \o t5)[Len(h4) + i] = t5[i]
    BY <1>3, <2>0, Joined
  <2>2. /\ h4[1] = 1 /\ 1 \in 1..Len(h4) /\ 1 \in 1..Len(t5) /\ 2 \in 1..Len(t5)
        /\ Len(h4) + 1 = 22 /\ Len(h4) + 2 = 23 /\ Len(h4) + Len(t5) = 23
        /\ t5[1] = x /\ t5[2] = y
    BY <1>1, <1>7
  <2>3. (h4 \o t5)[Len(h4) + 1] = t5[1] /\ (h4 \o t5)[Len(h4) + 2] = t5[2]
    BY <2>1, <2>2
  <2> QED
    BY <2>1, <2>2, <2>3
<1> QED
  BY <1>4, <1>8 DEF HvccHeaderLen

LEMMA HvccRead ==
  ASSUME NEW config, HevcConfigOK(config)
  PROVE  parse_hvcc(hvcc_bytes(config))
           = IF config.length_size_minus_one = 2 THEN Bad
             ELSE [ok |-> TRUE, nal_length_size |-> config.length_size_minus_one + 1,
                   nal_units |-> FlattenSeq([i \in DOMAIN config.arrays |->
                                               config.arrays[i].nal_units])]
<1> DEFINE arrays == config.arrays
           n == Len(arrays)
           bytes == [i \in DOMAIN arrays |-> ArrayBytes(arrays[i])]
           units == [i \in DOMAIN arrays |-> arrays[i].nal_units]
           m == config.length_size_minus_one
           f == Flag(config.temporal_id_nested)
           r == config.constant_frame_rate * 16 + config.num_temporal_layers * 2 + f
           x == config.constant_frame_rate * 64 + config.num_temporal_layers * 8 + f * 4 + m
           a == 252 + config.chroma_format_idc
           b == 248 + config.bit_depth_luma_minus8
           c == 248 + config.bit_depth_chroma_minus8
           h == <<1>> \o config.opaque \o <<a, b, c>> \o config.opaque2 \o <<x, n>>
           e == FlattenSeq(bytes)
           data == h \o e
<1>1. hvcc_bytes(config) = data
  BY DEF hvcc_bytes
<1>2. n \in Nat /\ DOMAIN arrays = 1..n
  BY DEF HevcConfigOK
<1>3. ASSUME NEW i \in 1..n
      PROVE  arrays[i].type \in Nat /\ arrays[i].nal_units \in Seq(Seq(Nat))
  <2>1. arrays[i] \in [completeness: BOOLEAN, type: 0..63, nal_units: Seq(Bytes)]
    <3>1. arrays \in Seq([completeness: BOOLEAN, type: 0..63, nal_units: Seq(Bytes)])
      BY DEF HevcConfigOK
    <3> HIDE DEF arrays
    <3> QED
      BY <3>1, SeqElements
  <2>2. Seq(Bytes) \subseteq Seq(Seq(Nat))
    BY BytesAreNumbers, Widen
  <2>3. arrays[i].type \in 0..63 /\ arrays[i].nal_units \in Seq(Bytes)
    BY <2>1
  <2>4. arrays[i].type \in Nat
    <3>1. 0..63 \subseteq Nat
      OBVIOUS
    <3> QED
      BY <2>3, <3>1
  <2> HIDE DEF arrays
  <2> QED
    BY <2>2, <2>3, <2>4
<1>4. bytes \in Seq(Seq(Nat)) /\ Len(bytes) = n /\ \A i \in 1..n : bytes[i] = ArrayBytes(arrays[i])
  <2>1. ASSUME NEW i \in 1..n PROVE ArrayBytes(arrays[i]) \in Seq(Nat)
    BY <1>3, ArrayIsBytes
  <2>2. bytes \in [1..n -> Seq(Nat)] /\ \A i \in 1..n : bytes[i] = ArrayBytes(arrays[i])
    BY <1>2, <2>1
  <2> HIDE DEF bytes, n
  <2> QED
    BY <1>2, <2>2, SeqFunction
<1>5. units \in Seq(Seq(Seq(Nat))) /\ Len(units) = n /\ \A i \in 1..n : units[i] = arrays[i].nal_units
  <2>1. units \in [1..n -> Seq(Seq(Nat))] /\ \A i \in 1..n : units[i] = arrays[i].nal_units
    BY <1>2, <1>3
  <2> HIDE DEF units, n
  <2> QED
    BY <1>2, <2>1, SeqFunction
<1>6. m \in 0..3 /\ f \in Nat /\ r \in Nat /\ x = r * 4 + m /\ x \in Nat
  <2>1. m \in 0..3 /\ config.constant_frame_rate \in Nat /\ config.num_temporal_layers \in Nat
    BY DEF HevcConfigOK
  <2>2. f \in Nat
    BY DEF Flag
  <2> HIDE DEF f
  <2> QED
    BY <2>1, <2>2
<1>7. x % 4 = m
  <2> HIDE DEF r, m, x
  <2> QED
    BY <1>6, DivideUnique
<1>8. h \in Seq(Nat) /\ Len(h) = HvccHeaderLen /\ h[1] = 1 /\ h[22] = x /\ h[23] = n
  <2>1. config.opaque \in Seq(Nat) /\ config.opaque2 \in Seq(Nat)
    <3>1. Bytes \subseteq Seq(Nat)
      BY BytesAreNumbers
    <3> QED
      BY <3>1 DEF HevcConfigOK
  <2>2. Len(config.opaque) = 15 /\ Len(config.opaque2) = 2 /\ a \in Nat /\ b \in Nat /\ c \in Nat
    BY DEF HevcConfigOK
  <2> HIDE DEF a, b, c, x, n
  <2>3. HeaderOf(h, config.opaque, a, b, c, config.opaque2, x, n)
    BY <1>2, <1>6, <2>1, <2>2 DEF HeaderOf
  <2> HIDE DEF h
  <2> QED
    BY <2>3, HeaderBytes
<1>9. e \in Seq(Nat)
  BY <1>4, Flattened
<1> HIDE DEF h, bytes, units, x, m, r, n
<1>10. /\ data \in Seq(Nat) /\ Len(data) = HvccHeaderLen + Len(e) /\ InPlace(data, HvccHeaderLen, e)
       /\ data[1] = 1 /\ data[22] = x /\ data[23] = n
  <2>1. /\ h \o e \in Seq(Nat) /\ Len(h \o e) = Len(h) + Len(e)
        /\ \A i \in 1..Len(h) : (h \o e)[i] = h[i]
    BY <1>8, <1>9, Joined
  <2>2. InPlace(h \o e, Len(h), e)
    BY <1>8, <1>9, AtJoined
  <2>3. 1 \in 1..Len(h) /\ 22 \in 1..Len(h) /\ 23 \in 1..Len(h)
    BY <1>8 DEF HvccHeaderLen
  <2> QED
    BY <1>8, <2>1, <2>2, <2>3
<1>11. ~(Len(data) < HvccHeaderLen)
  BY <1>9, <1>10 DEF HvccHeaderLen
<1> HIDE DEF data
<1>12. RecordArrays(data, data[23])
         = [ok |-> TRUE, pos |-> HvccHeaderLen + Len(e), units |-> FlattenSeq(units)]
  <2>1. ArraysAt(data, arrays, n, bytes, units)
    BY <1>2, <1>3, <1>4, <1>5, <1>10 DEF ArraysAt
  <2> QED
    BY <1>10, <2>1, ArraysRead
<1>13. CASE m = 2
  <2>1. (data[22] % 4) + 1 = 3
    BY <1>7, <1>10, <1>13
  <2>2. parse_hvcc(data) = Bad
    BY <1>11, <2>1 DEF parse_hvcc
  <2> QED
    BY <1>1, <1>13, <2>2 DEF m
<1>14. CASE m # 2
  <2>1. (data[22] % 4) + 1 # 3 /\ (data[22] % 4) + 1 = m + 1
    BY <1>6, <1>7, <1>10, <1>14
  <2>2. parse_hvcc(data) = [ok |-> TRUE, nal_length_size |-> m + 1, nal_units |-> FlattenSeq(units)]
    <3>1. /\ RecordArrays(data, data[23]).ok = TRUE
          /\ RecordArrays(data, data[23]).units = FlattenSeq(units)
      BY <1>12
    <3> QED
      BY <1>10, <1>11, <2>1, <3>1 DEF parse_hvcc
  <2> QED
    BY <1>1, <1>14, <2>2 DEF m, units
<1> QED
  BY <1>13, <1>14

-----------------------------------------------------------------------------
(* The av1C record                                                         *)

LEMMA Av1cRead ==
  ASSUME NEW config, Av1ConfigOK(config), config.config_obus \in Seq(Nat)
  PROVE  parse_av1c(av1c_bytes(config))
           = [ok |-> TRUE, seq_profile |-> config.seq_profile, config_obus |-> config.config_obus]
<1> DEFINE s == config.seq_profile
           o == config.opaque
           a == s * 32 + o
           b == Flag(config.high_bitdepth) * 64 + Flag(config.monochrome) * 16
                  + config.chroma_subsampling_x * 8 + config.chroma_subsampling_y * 4
           h == <<129, a, b, config.delay>>
           t == config.config_obus
           data == h \o t
<1>1. av1c_bytes(config) = data
  BY DEF av1c_bytes
<1> DEFINE x == config.chroma_subsampling_x
           y == config.chroma_subsampling_y
           d == config.delay
<1>0. s \in 0..7 /\ o \in 0..31 /\ d \in 0..31 /\ x \in 0..1 /\ y \in 0..1
  BY DEF Av1ConfigOK
<1>2. s \in Nat /\ o \in 0..31 /\ a \in Nat
  <2> HIDE DEF s, o
  <2> QED
    BY <1>0
<1>3. a \div 32 = s
  <2> HIDE DEF s, o
  <2> QED
    BY <1>2, DivideUnique
<1>4. b \in Nat
  <2> DEFINE f == Flag(config.high_bitdepth)
             g == Flag(config.monochrome)
  <2>1. f \in Nat /\ g \in Nat
    BY DEF Flag
  <2>2. b = f * 64 + g * 16 + x * 8 + y * 4
    OBVIOUS
  <2> HIDE DEF f, g, b, x, y
  <2> QED
    BY <1>0, <2>1, <2>2
<1>5. d \in Nat
  <2> HIDE DEF d
  <2> QED
    BY <1>0
<1> HIDE DEF a, b
<1>6. h \in Seq(Nat) /\ t \in Seq(Nat)
  BY <1>2, <1>4, <1>5
<1>7. Len(h) = 4 /\ h[1] = 129 /\ h[2] = a
  OBVIOUS
<1> HIDE DEF h, t
<1>8. /\ data \in Seq(Nat) /\ Len(data) = Len(h) + Len(t) /\ Len(t) \in Nat
      /\ \A i \in 1..Len(h) : data[i] = h[i]
      /\ \A i \in 1..Len(t) : data[Len(h) + i] = t[i]
  BY <1>6, Joined, SeqElements
<1> HIDE DEF data
<1>9. data[1] = 129 /\ data[2] = a /\ ~(Len(data) < 4)
  <2>1. 1 \in 1..Len(h) /\ 2 \in 1..Len(h)
    BY <1>7
  <2> QED
    BY <1>7, <1>8, <2>1
<1>10. SubSeq(data, 5, Len(data)) = t
  <2> DEFINE u == SubSeq(data, 4 + 1, 4 + Len(t))
             n == Len(t)
  <2>1. data \in Seq(Nat) /\ 4 \in Nat /\ n \in Nat /\ 4 + n <= Len(data) /\ Len(data) = 4 + n
    BY <1>7, <1>8
  <2>2. u \in Seq(Nat) /\ Len(u) = n /\ \A i \in 1..n : u[i] = data[4 + i]
    <3>1. data \in Seq(Nat) /\ 4 \in Nat /\ n \in Nat /\ 4 + n <= Len(data)
      BY <2>1
    <3>2. u = SubSeq(data, 4 + 1, 4 + n)
      OBVIOUS
    <3> HIDE DEF n, u
    <3>3. /\ SubSeq(data, 4 + 1, 4 + n) \in Seq(Nat) /\ Len(SubSeq(data, 4 + 1, 4 + n)) = n
          /\ \A i \in 1..n : SubSeq(data, 4 + 1, 4 + n)[i] = data[4 + i]
      BY <3>1, Cut
    <3> QED
      BY <3>2, <3>3
  <2>3. \A i \in 1..n : data[4 + i] = t[i]
    BY <1>7, <1>8
  <2>4. u = SubSeq(data, 5, Len(data))
    BY <2>1
  <2> HIDE DEF u
  <2>5. u = t
    <3>1. t \in Seq(Nat) /\ Len(u) = Len(t) /\ \A i \in 1..Len(u) : u[i] = t[i]
      BY <1>6, <2>2, <2>3
    <3> QED
      BY <2>2, <3>1, SeqSame
  <2> QED
    BY <2>4, <2>5
<1>11. parse_av1c(data) = [ok |-> TRUE, seq_profile |-> s, config_obus |-> t]
  BY <1>3, <1>9, <1>10 DEF parse_av1c
<1> QED
  BY <1>1, <1>11 DEF t

-----------------------------------------------------------------------------
(* The payload: chunks, and a rest                                         *)

LEMMA DigitsAreANumber ==
  ASSUME NEW base \in Nat, NEW d \in Seq(Nat)
  PROVE  Digits(base, d) \in Nat
<1> DEFINE n == Len(d)
<1>1. n \in Nat /\ \A i \in 1..n : d[i] \in Nat
  BY SeqElements
<1>2. PICK step \in [0..(n - 1) -> [Nat -> Nat]] :
        \A i \in 0..(n - 1), v \in Nat : step[i][v] = v * base + d[i + 1]
  <2> DEFINE steps == [i \in 0..(n - 1) |-> [v \in Nat |-> v * base + d[i + 1]]]
  <2>1. ASSUME NEW i \in 0..(n - 1), NEW v \in Nat PROVE v * base + d[i + 1] \in Nat
    <3>1. d[i + 1] \in Nat
      BY <1>1
    <3>2. v * base \in Nat
      OBVIOUS
    <3> QED
      BY <3>1, <3>2
  <2> HIDE DEF n
  <2>2. steps \in [0..(n - 1) -> [Nat -> Nat]]
    BY <2>1
  <2>3. \A i \in 0..(n - 1), v \in Nat : steps[i][v] = v * base + d[i + 1]
    OBVIOUS
  <2> QED
    BY <2>2, <2>3
<1> HIDE DEF n
<1>3. PICK v : RecursUpTo(v, n, Nat, 0, step)
  BY <1>1, RecursionUpTo
<1>4. v \in [0..n -> Nat] /\ v[0] = 0
  BY <1>3 DEF RecursUpTo
<1>5. ASSUME NEW i \in 0..n PROVE v[i] = IF i = 0 THEN 0 ELSE v[i - 1] * base + d[i]
  <2>1. CASE i = 0
    BY <1>4, <2>1
  <2>2. CASE i # 0
    <3>1. i - 1 \in 0..(n - 1) /\ i - 1 \in 0..n /\ (i - 1) + 1 = i
      BY <1>1, <2>2
    <3>2. v[i] = step[i - 1][v[i - 1]]
      BY <1>3, <3>1 DEF RecursUpTo
    <3>3. v[i - 1] \in Nat
      BY <1>4, <3>1
    <3>4. step[i - 1][v[i - 1]] = v[i - 1] * base + d[i]
      BY <1>2, <3>1, <3>3
    <3> QED
      BY <2>2, <3>2, <3>4
  <2> QED
    BY <2>1, <2>2
<1> DEFINE f == CHOOSE f : f = [i \in 0..n |-> IF i = 0 THEN 0 ELSE f[i - 1] * base + d[i]]
<1>6. Digits(base, d) = f[n]
  BY DEF Digits, n
<1>7. v = [i \in 0..n |-> IF i = 0 THEN 0 ELSE v[i - 1] * base + d[i]]
  BY <1>4, <1>5
<1>8. f = [i \in 0..n |-> IF i = 0 THEN 0 ELSE f[i - 1] * base + d[i]]
  BY <1>7
<1> HIDE DEF f
<1>9. f[0] = v[0]
  BY <1>1, <1>4, <1>8
<1>10. ASSUME NEW j \in 1..n, f[j - 1] = v[j - 1] PROVE f[j] = v[j]
  <2>1. j \in 0..n /\ j # 0
    BY <1>1
  <2>2. f[j] = f[j - 1] * base + d[j]
    BY <1>8, <2>1
  <2>3. v[j] = v[j - 1] * base + d[j]
    BY <1>5, <2>1
  <2> QED
    BY <1>10, <2>2, <2>3
<1>11. f[n] = v[n]
  BY <1>1, <1>9, <1>10, SameSteps
<1>12. v[n] \in Nat
  BY <1>1, <1>4
<1> QED
  BY <1>6, <1>11, <1>12

(* data is these chunks, none of them empty, and the rest.                 *)
Chunked(data, chunks, rest) ==
  /\ data \in Seq(Nat) /\ chunks \in Seq(Seq(Nat)) /\ rest \in Seq(Nat)
  /\ data = FlattenSeq(chunks) \o rest
  /\ \A i \in 1..Len(chunks) : Len(chunks[i]) > 0

(* Chunk i lies behind the first at[i - 1] bytes and before the first at[i]*)
(* end, the rest behind the last chunk.                                    *)
Places(at, k, l, data, chunks, rest) ==
  /\ k \in Nat /\ k = Len(chunks) /\ l \in Nat /\ l = Len(data)
  /\ at \in [0..k -> Nat] /\ at[0] = 0
  /\ \A i \in 1..k : chunks[i] \in Seq(Nat) /\ at[i] = at[i - 1] + Len(chunks[i])
                     /\ InPlace(data, at[i - 1], chunks[i])
  /\ at[k] + Len(rest) = l /\ InPlace(data, at[k], rest)
  /\ k <= at[k] /\ (rest # <<>> => k < l)

LEMMA ChunkPlaces ==
  ASSUME NEW data, NEW chunks, NEW rest, Chunked(data, chunks, rest)
  PROVE  \E at : Places(at, Len(chunks), Len(data), data, chunks, rest)
<1> DEFINE k == Len(chunks)
           l == Len(data)
           f == FlattenSeq(chunks)
<1>1. data \in Seq(Nat) /\ chunks \in Seq(Seq(Nat)) /\ rest \in Seq(Nat)
      /\ data = f \o rest /\ \A i \in 1..k : Len(chunks[i]) > 0
  BY DEF Chunked
<1>2. k \in Nat /\ l \in Nat /\ Len(rest) \in Nat /\ \A i \in 1..k : chunks[i] \in Seq(Nat)
  BY <1>1, SeqElements
<1>3. PICK J : Joins(chunks, J, Nat)
  BY <1>1, Flatten
<1>4. /\ f \in Seq(Nat) /\ Len(f) = Len(J[k])
      /\ \A i \in 0..k : J[i] \in Seq(Nat) /\ Len(J[i]) \in Nat
      /\ Len(J[0]) = 0
      /\ \A i \in 1..k : Len(J[i]) = Len(J[i - 1]) + Len(chunks[i])
                         /\ InPlace(f, Len(J[i - 1]), chunks[i])
  BY <1>1, <1>3, JoinPlaces
<1>5. k = Len(chunks) /\ l = Len(data)
  OBVIOUS
<1> HIDE DEF k, l, f
<1> DEFINE at == [i \in 0..k |-> Len(J[i])]
<1>6. at \in [0..k -> Nat] /\ at[0] = 0 /\ at[k] = Len(f)
  BY <1>2, <1>4
<1>7. InPlace(data, 0, f) /\ InPlace(data, Len(f), rest) /\ l = Len(f) + Len(rest) /\ Len(f) \in Nat
  <2>1. InPlace(f \o rest, 0, f) /\ InPlace(f \o rest, Len(f), rest)
    BY <1>1, <1>4, AtJoined
  <2>2. Len(f \o rest) = Len(f) + Len(rest)
    BY <1>1, <1>4, Joined
  <2>3. Len(f) \in Nat
    BY <1>4, SeqElements
  <2> QED
    BY <1>1, <1>5, <2>1, <2>2, <2>3
<1>8. ASSUME NEW i \in 1..k
      PROVE  at[i] = at[i - 1] + Len(chunks[i]) /\ InPlace(data, at[i - 1], chunks[i])
             /\ at[i - 1] < at[i] /\ at[i - 1] \in Nat
  <2>1. i \in 0..k /\ i - 1 \in 0..k
    BY <1>2
  <2>2. at[i] = Len(J[i]) /\ at[i - 1] = Len(J[i - 1]) /\ Len(J[i - 1]) \in Nat
    BY <1>4, <2>1
  <2> DEFINE p == Len(J[i - 1])
  <2>3. InPlace(f, p, chunks[i]) /\ Len(J[i]) = p + Len(chunks[i])
    BY <1>4
  <2>4. chunks[i] \in Seq(Nat) /\ Len(chunks[i]) \in Nat /\ Len(chunks[i]) > 0
    BY <1>1, <1>2, SeqElements
  <2>5. p \in Nat /\ 0 \in Nat /\ 0 + p = p
    BY <2>2
  <2> HIDE DEF p
  <2>6. InPlace(data, 0 + p, chunks[i])
    BY <1>2, <1>5, <1>7, <2>3, <2>4, <2>5, AtWithin
  <2>7. at[i - 1] = p /\ at[i] = p + Len(chunks[i])
    BY <2>2, <2>3 DEF p
  <2>8. p < p + Len(chunks[i])
    BY <2>4, <2>5
  <2> HIDE DEF at
  <2> QED
    BY <2>5, <2>6, <2>7, <2>8
<1> HIDE DEF at
<1>9. k <= at[k]
  <2> DEFINE Up == {i \in 0..k : i <= at[i]}
  <2>1. 0 \in Up
    BY <1>2, <1>6
  <2>2. ASSUME NEW i \in 0..(k - 1), i \in Up PROVE i + 1 \in Up
    <3>1. i + 1 \in 1..k /\ (i + 1) - 1 = i /\ i + 1 \in 0..k
      BY <1>2
    <3>2. at[i] < at[i + 1] /\ at[i] \in Nat
      BY <1>8, <3>1
    <3>3. i <= at[i] /\ at[i + 1] \in Nat
      BY <1>6, <2>2, <3>1
    <3>4. i + 1 <= at[i + 1]
      BY <3>2, <3>3
    <3> QED
      BY <3>1, <3>4
  <2> HIDE DEF Up
  <2>3. \A i \in 0..k : i \in Up
    BY <1>2, <2>1, <2>2, InductUpTo
  <2> QED
    BY <1>2, <2>3 DEF Up
<1>10. rest # <<>> => k < l
  <2>1. rest # <<>> => Len(rest) > 0
    BY <1>1
  <2> QED
    BY <1>2, <1>6, <1>7, <1>9, <2>1
<1>11. at[k] + Len(rest) = l /\ InPlace(data, at[k], rest)
  BY <1>6, <1>7
<1>12. Places(at, k, l, data, chunks, rest)
  BY <1>2, <1>5, <1>6, <1>8, <1>9, <1>10, <1>11 DEF Places
<1> QED
  BY <1>12 DEF k, l

-----------------------------------------------------------------------------
(* The NAL units of a payload                                              *)

(* A part of what is in place.                                             *)
Inside(data, p, c, a, b) ==
  /\ data \in Seq(Nat) /\ c \in Seq(Nat) /\ p \in Nat /\ a \in Nat /\ b \in Nat
  /\ InPlace(data, p, c) /\ a + b <= Len(c)

LEMMA InsideSlice ==
  ASSUME NEW data, NEW p, NEW c, NEW a, NEW b, Inside(data, p, c, a, b)
  PROVE  /\ Slice(data, p + a, b) = SubSeq(c, a + 1, a + b)
         /\ SubSeq(c, a + 1, a + b) \in Seq(Nat)
         /\ p + a + b <= Len(data)
<1> DEFINE s == SubSeq(data, (p + a) + 1, (p + a) + b)
           t == SubSeq(c, a + 1, a + b)
<1>0. /\ data \in Seq(Nat) /\ c \in Seq(Nat) /\ p \in Nat /\ a \in Nat /\ b \in Nat
      /\ InPlace(data, p, c) /\ a + b <= Len(c)
  BY DEF Inside
<1>1. Len(data) \in Nat /\ Len(c) \in Nat /\ p + a \in Nat /\ (p + a) + b <= Len(data)
  BY <1>0, SeqElements DEF InPlace
<1>2. s \in Seq(Nat) /\ Len(s) = b /\ \A i \in 1..b : s[i] = data[(p + a) + i]
  <2> DEFINE q == p + a
  <2>1. q \in Nat /\ q + b <= Len(data) /\ data \in Seq(Nat) /\ b \in Nat
    BY <1>0, <1>1
  <2> HIDE DEF q
  <2>2. /\ SubSeq(data, q + 1, q + b) \in Seq(Nat) /\ Len(SubSeq(data, q + 1, q + b)) = b
        /\ \A i \in 1..b : SubSeq(data, q + 1, q + b)[i] = data[q + i]
    BY <2>1, Cut
  <2>3. s = SubSeq(data, q + 1, q + b)
    BY DEF q
  <2> HIDE DEF s
  <2>4. s \in Seq(Nat) /\ Len(s) = b /\ \A i \in 1..b : s[i] = data[q + i]
    BY <2>2, <2>3
  <2> QED
    BY <2>4 DEF q
<1>3. t \in Seq(Nat) /\ Len(t) = b /\ \A i \in 1..b : t[i] = c[a + i]
  BY <1>0, Cut
<1>4. ASSUME NEW i \in 1..b PROVE data[(p + a) + i] = c[a + i]
  <2>1. a + i \in 1..Len(c) /\ p + (a + i) = (p + a) + i
    BY <1>0, <1>1
  <2>2. data[p + (a + i)] = c[a + i]
    BY <1>0, <2>1 DEF InPlace
  <2> QED
    BY <2>1, <2>2
<1> HIDE DEF s, t
<1>5. \A i \in 1..Len(s) : s[i] = t[i]
  BY <1>2, <1>3, <1>4
<1>6. s = t
  BY <1>2, <1>3, <1>5, SeqSame
<1>7. p + a + b <= Len(data)
  BY <1>0, <1>1
<1> QED
  BY <1>3, <1>6, <1>7 DEF Slice, s, t

(* Where acc stands there is a unit behind its length.                     *)
NalAt(data, n, acc, chunk, unit) ==
  /\ acc.ok = TRUE /\ acc.pos \in Nat /\ data \in Seq(Nat) /\ n \in Nat
  /\ chunk \in Seq(Nat) /\ unit \in Seq(Nat) /\ NalWritten(n, chunk, unit)
  /\ InPlace(data, acc.pos, chunk)

LEMMA NalRead ==
  ASSUME NEW data, NEW n, NEW acc, NEW chunk, NEW unit, NalAt(data, n, acc, chunk, unit)
  PROVE  NextNal(data, n, acc)
           = [ok |-> TRUE, pos |-> acc.pos + Len(chunk), units |-> Append(acc.units, unit)]
<1> DEFINE p == acc.pos
           len == Len(unit)
<1>1. /\ acc.ok = TRUE /\ p \in Nat /\ data \in Seq(Nat) /\ n \in Nat
      /\ chunk \in Seq(Nat) /\ unit \in Seq(Nat) /\ InPlace(data, p, chunk)
  BY DEF NalAt
<1>2. /\ unit # <<>> /\ Len(chunk) = n + len /\ Number(SubSeq(chunk, 1, n)) = len
      /\ SubSeq(chunk, n + 1, Len(chunk)) = unit
  BY DEF NalAt, NalWritten
<1>3. len \in Nat /\ len # 0 /\ Len(data) \in Nat
  BY <1>1, <1>2, SeqElements
<1> HIDE DEF p, len
<1>4. Inside(data, p, chunk, 0, n) /\ Inside(data, p, chunk, n, len)
  BY <1>1, <1>2, <1>3 DEF Inside
<1>5. Slice(data, p + 0, n) = SubSeq(chunk, 0 + 1, 0 + n)
  BY <1>4, InsideSlice
<1>6. Slice(data, p + n, len) = SubSeq(chunk, n + 1, n + len) /\ p + n + len <= Len(data)
  BY <1>4, InsideSlice
<1>7. p + 0 = p /\ 0 + 1 = 1 /\ 0 + n = n
  BY <1>1
<1>8. Number(Slice(data, p, n)) = len /\ Slice(data, p + n, len) = unit
  BY <1>2, <1>5, <1>6, <1>7
<1>9. p # Len(data) /\ ~(p + n > Len(data)) /\ ~(p + n + len > Len(data))
  BY <1>1, <1>3, <1>6
<1>10. acc.ok = TRUE /\ acc.pos = p
  BY <1>1 DEF p
<1>11. NextNal(data, n, acc)
         = [ok |-> TRUE, pos |-> p + n + len, units |-> Append(acc.units, unit)]
  BY <1>3, <1>8, <1>9, <1>10 DEF NextNal
<1>12. p + n + len = p + Len(chunk)
  BY <1>1, <1>2, <1>3
<1> QED
  BY <1>11, <1>12 DEF p

(* Where acc stands there is a rest that begins no unit.                   *)
NoNalAt(data, n, acc, rest) ==
  /\ acc.ok = TRUE /\ acc.pos \in Nat /\ data \in Seq(Nat) /\ n \in Nat
  /\ rest \in Seq(Nat) /\ rest # <<>> /\ NoNal(n, rest)
  /\ InPlace(data, acc.pos, rest) /\ acc.pos + Len(rest) = Len(data)

LEMMA NalMissing ==
  ASSUME NEW data, NEW n, NEW acc, NEW rest, NoNalAt(data, n, acc, rest)
  PROVE  NextNal(data, n, acc) = Bad
<1> DEFINE p == acc.pos
           len == Number(SubSeq(rest, 1, n))
<1>1. /\ acc.ok = TRUE /\ p \in Nat /\ data \in Seq(Nat) /\ n \in Nat
      /\ rest \in Seq(Nat) /\ rest # <<>> /\ InPlace(data, p, rest) /\ p + Len(rest) = Len(data)
  BY DEF NoNalAt
<1>2. Len(rest) < n \/ len = 0 \/ n + len > Len(rest)
  BY DEF NoNalAt, NoNal
<1>3. Len(rest) \in Nat /\ Len(rest) # 0 /\ Len(data) \in Nat
  BY <1>1, SeqElements
<1>4. acc.ok = TRUE /\ acc.pos = p
  BY <1>1
<1> HIDE DEF p
<1>5. p # Len(data)
  BY <1>1, <1>3
<1>6. CASE Len(rest) < n
  <2>1. p + n > Len(data)
    BY <1>1, <1>3, <1>6
  <2> QED
    BY <1>4, <1>5, <2>1 DEF NextNal
<1>7. CASE ~(Len(rest) < n)
  <2>1. Inside(data, p, rest, 0, n)
    BY <1>1, <1>3, <1>7 DEF Inside
  <2>2. Slice(data, p + 0, n) = SubSeq(rest, 0 + 1, 0 + n) /\ SubSeq(rest, 0 + 1, 0 + n) \in Seq(Nat)
    BY <2>1, InsideSlice
  <2>3. p + 0 = p /\ 0 + 1 = 1 /\ 0 + n = n
    BY <1>1
  <2>4. Slice(data, p, n) = SubSeq(rest, 1, n) /\ SubSeq(rest, 1, n) \in Seq(Nat)
    BY <2>2, <2>3
  <2>5. len \in Nat
    <3> DEFINE prefix == SubSeq(rest, 1, n)
    <3>1. prefix \in Seq(Nat)
      BY <2>4
    <3> HIDE DEF prefix
    <3>2. Digits(256, prefix) \in Nat
      BY <3>1, DigitsAreANumber
    <3> QED
      BY <3>2 DEF Number, prefix
  <2>6. len = Number(Slice(data, p, n))
    BY <2>4
  <2> HIDE DEF len
  <2>7. len = 0 \/ p + n + len > Len(data)
    BY <1>1, <1>2, <1>3, <1>7, <2>5
  <2>8. ~(p + n > Len(data))
    BY <1>1, <1>3, <1>7
  <2> QED
    BY <1>4, <1>5, <2>6, <2>7, <2>8 DEF NextNal
<1> QED
  BY <1>6, <1>7

LEMMA NalsRead ==
  ASSUME NEW n \in Nat, NEW data, NEW chunks, NEW units, NEW rest,
         NalsOK(n, data, chunks, units, rest)
  PROVE  split_length_prefixed(data, n)
           = IF rest = <<>> THEN [ok |-> TRUE, pos |-> Len(data), units |-> units] ELSE Bad
<1> DEFINE k == Len(chunks)
           l == Len(data)
<1>1. Bytes \subseteq Seq(Nat) /\ Seq(Bytes) \subseteq Seq(Seq(Nat))
  BY BytesAreNumbers, Widen
<1>2. units \in Seq(Seq(Nat)) /\ chunks \in Seq(Seq(Nat)) /\ rest \in Seq(Nat)
  BY <1>1 DEF NalsOK
<1>3. /\ data = FlattenSeq(chunks) \o rest /\ Len(units) = k
      /\ \A i \in 1..k : NalWritten(n, chunks[i], units[i])
      /\ rest # <<>> => NoNal(n, rest)
  BY DEF NalsOK
<1>4. k \in Nat /\ \A i \in 1..k : chunks[i] \in Seq(Nat) /\ units[i] \in Seq(Nat)
  BY <1>2, <1>3, SeqElements
<1>5. data \in Seq(Nat)
  <2>1. FlattenSeq(chunks) \in Seq(Nat)
    BY <1>2, Flattened
  <2> QED
    BY <1>2, <1>3, <2>1, Joined
<1>6. ASSUME NEW i \in 1..k PROVE Len(chunks[i]) > 0
  <2>1. Len(chunks[i]) = n + Len(units[i]) /\ units[i] # <<>> /\ units[i] \in Seq(Nat)
    BY <1>3, <1>4 DEF NalWritten
  <2>2. Len(units[i]) \in Nat /\ Len(units[i]) > 0
    BY <2>1
  <2> QED
    BY <2>1, <2>2
<1>7. Chunked(data, chunks, rest)
  BY <1>2, <1>3, <1>5, <1>6 DEF Chunked
<1>8. PICK at : Places(at, k, l, data, chunks, rest)
  BY <1>7, ChunkPlaces
<1> HIDE DEF k, l
<1>9. /\ k \in Nat /\ l \in Nat /\ l = Len(data) /\ at \in [0..k -> Nat] /\ at[0] = 0
      /\ \A i \in 1..k : at[i] = at[i - 1] + Len(chunks[i]) /\ InPlace(data, at[i - 1], chunks[i])
      /\ at[k] + Len(rest) = l /\ InPlace(data, at[k], rest)
      /\ k <= at[k] /\ (rest # <<>> => k < l)
  BY <1>8 DEF Places
<1> DEFINE whole == [ok |-> TRUE, pos |-> l, units |-> units]
           end == IF rest = <<>> THEN whole ELSE Bad
           upto(j) == [ok |-> TRUE, pos |-> at[j], units |-> SubSeq(units, 1, j)]
           g == [j \in 0..l |-> IF j <= k THEN upto(j) ELSE end]
<1>10. k <= l /\ Len(rest) \in Nat /\ at[k] \in Nat /\ (rest = <<>> => at[k] = l)
  <2>1. Len(rest) \in Nat /\ at[k] \in Nat
    BY <1>2, <1>9, SeqElements
  <2>2. rest = <<>> => Len(rest) = 0
    OBVIOUS
  <2> QED
    BY <1>9, <2>1, <2>2
<1>11. g[0] = [ok |-> TRUE, pos |-> 0, units |-> <<>>]
  <2>1. 0 \in 0..l /\ 0 <= k /\ SubSeq(units, 1, 0) = <<>>
    BY <1>2, <1>9, Prefix
  <2> QED
    BY <1>9, <2>1
<1>12. SubSeq(units, 1, k) = units
  BY <1>2, <1>3, Prefix
<1>13. ASSUME NEW j \in 1..l PROVE g[j] = NextNal(data, n, g[j - 1])
  <2>0. j - 1 \in 0..l /\ j \in 0..l
    BY <1>9
  <2>1. CASE j <= k
    <3> DEFINE acc == upto(j - 1)
    <3>1. j \in 1..k /\ j - 1 <= k /\ j - 1 \in 0..k
      BY <1>9, <2>1
    <3>2. g[j] = upto(j) /\ g[j - 1] = acc
      BY <2>0, <2>1, <3>1
    <3>3. acc.ok = TRUE /\ acc.pos = at[j - 1] /\ acc.units = SubSeq(units, 1, j - 1)
      OBVIOUS
    <3> HIDE DEF acc, g
    <3>4. NalAt(data, n, acc, chunks[j], units[j])
      <4>1. at[j - 1] \in Nat /\ InPlace(data, at[j - 1], chunks[j])
        BY <1>9, <3>1
      <4>2. chunks[j] \in Seq(Nat) /\ units[j] \in Seq(Nat) /\ NalWritten(n, chunks[j], units[j])
        BY <1>3, <1>4, <3>1
      <4> QED
        BY <1>5, <3>3, <4>1, <4>2 DEF NalAt
    <3>5. NextNal(data, n, acc) = [ok |-> TRUE, pos |-> acc.pos + Len(chunks[j]),
                                   units |-> Append(acc.units, units[j])]
      BY <3>4, NalRead
    <3>6. at[j] = at[j - 1] + Len(chunks[j])
      BY <1>9, <3>1
    <3>7. SubSeq(units, 1, j) = Append(SubSeq(units, 1, j - 1), units[j])
      BY <1>2, <1>3, <3>1, Prefix
    <3> QED
      BY <3>2, <3>3, <3>5, <3>6, <3>7
  <2>2. CASE j = k + 1
    <3> DEFINE acc == upto(k)
    <3>1. ~(j <= k) /\ j - 1 = k /\ k <= k
      BY <1>9, <2>2
    <3>2. g[j] = end /\ g[j - 1] = acc
      BY <2>0, <3>1
    <3>3. acc.ok = TRUE /\ acc.pos = at[k] /\ acc.units = units
      BY <1>12
    <3>4. acc = [ok |-> TRUE, pos |-> at[k], units |-> units]
      BY <1>12
    <3> HIDE DEF acc, g
    <3>5. CASE rest = <<>>
      <4>1. acc.pos = Len(data) /\ acc = whole
        BY <1>9, <1>10, <3>3, <3>4, <3>5
      <4>2. NextNal(data, n, acc) = acc
        BY <4>1 DEF NextNal
      <4> QED
        BY <3>2, <3>5, <4>1, <4>2
    <3>6. CASE rest # <<>>
      <4>1. NoNalAt(data, n, acc, rest)
        BY <1>2, <1>3, <1>5, <1>9, <1>10, <3>3, <3>6 DEF NoNalAt
      <4>2. NextNal(data, n, acc) = Bad
        BY <4>1, NalMissing
      <4> QED
        BY <3>2, <3>6, <4>2
    <3> QED
      BY <3>5, <3>6
  <2>3. CASE j > k + 1
    <3>1. ~(j <= k) /\ ~(j - 1 <= k)
      BY <1>9, <2>3
    <3>2. g[j] = end /\ g[j - 1] = end
      BY <2>0, <3>1
    <3> HIDE DEF g
    <3>3. CASE rest = <<>>
      <4>1. whole.pos = Len(data)
        BY <1>9
      <4> HIDE DEF whole
      <4>2. NextNal(data, n, whole) = whole
        BY <4>1 DEF NextNal
      <4> QED
        BY <3>2, <3>3, <4>2
    <3>4. CASE rest # <<>>
      <4>1. Bad.ok = FALSE
        BY DEF Bad
      <4>2. NextNal(data, n, Bad) = Bad
        BY <4>1 DEF NextNal
      <4> QED
        BY <3>2, <3>4, <4>2
    <3> QED
      BY <3>3, <3>4
  <2> QED
    BY <1>9, <2>1, <2>2, <2>3
<1>14. g[l] = end
  <2>1. l \in 0..l
    BY <1>9
  <2>2. CASE l <= k
    <3>1. l = k /\ rest = <<>>
      BY <1>9, <1>10, <2>2
    <3>2. g[l] = upto(k)
      BY <2>1, <2>2, <3>1
    <3>3. at[k] = l
      BY <1>10, <3>1
    <3> QED
      BY <1>12, <3>1, <3>2, <3>3
  <2>3. CASE ~(l <= k)
    BY <2>1, <2>3
  <2> QED
    BY <2>2, <2>3
<1> HIDE DEF g
<1>15. NalSteps(data, n, l, g)
  BY <1>9, <1>11, <1>13 DEF NalSteps
<1>16. split_length_prefixed(data, n) = g[l]
  BY <1>15, NalsLoop
<1> QED
  BY <1>9, <1>14, <1>16

-----------------------------------------------------------------------------
(* The OBUs of a payload or of a record                                    *)

LEMMA LebValueIsANumber ==
  ASSUME NEW bytes \in Seq(Nat)
  PROVE  LebValue(bytes) \in Nat
<1> DEFINE n == Len(bytes)
           d == [i \in DOMAIN bytes |-> bytes[i] % 128]
           e == Reverse(d)
<1>1. n \in Nat /\ DOMAIN bytes = 1..n /\ \A i \in 1..n : bytes[i] \in Nat
  BY SeqElements
<1>2. \A i \in 1..n : bytes[i] % 128 \in Nat
  <2> SUFFICES ASSUME NEW i \in 1..n PROVE bytes[i] % 128 \in Nat
    OBVIOUS
  <2> DEFINE b == bytes[i]
  <2>1. b \in Nat
    BY <1>1
  <2> HIDE DEF b
  <2>2. b % 128 \in Nat
    BY <2>1, Divide
  <2> QED
    BY <2>2 DEF b
<1> HIDE DEF n
<1>3. d \in [1..n -> Nat]
  BY <1>1, <1>2
<1> HIDE DEF d
<1>4. d \in Seq(Nat) /\ Len(d) = n
  BY <1>1, <1>3, SeqFunction
<1>5. e \in [1..n -> Nat]
  <2>1. e = [i \in 1..n |-> d[(n - i) + 1]]
    BY <1>4 DEF Reverse
  <2>2. \A i \in 1..n : (n - i) + 1 \in 1..n
    BY <1>1
  <2> HIDE DEF e
  <2> QED
    BY <1>3, <2>1, <2>2
<1> HIDE DEF e
<1>6. e \in Seq(Nat)
  BY <1>1, <1>5, SeqFunction
<1>7. Digits(128, e) \in Nat
  BY <1>6, DigitsAreANumber
<1> QED
  BY <1>7 DEF LebValue, e, d

(* At start a leb128 number of m bytes.                                    *)
LebAt(data, start, m) ==
  /\ data \in Seq(Nat) /\ start \in Nat /\ m \in 1..8 /\ start + m <= Len(data)
  /\ LebWritten(Slice(data, start, m))

LEMMA SliceBytes ==
  ASSUME NEW data \in Seq(Nat), NEW p \in Nat, NEW m \in Nat, p + m <= Len(data)
  PROVE  /\ Slice(data, p, m) \in Seq(Nat) /\ Len(Slice(data, p, m)) = m
         /\ \A i \in 1..m : Slice(data, p, m)[i] = data[p + i]
BY Cut DEF Slice

LEMMA LebRead ==
  ASSUME NEW data, NEW start, NEW m, LebAt(data, start, m)
  PROVE  Leb128(data, start)
           = [ok |-> TRUE, value |-> LebValue(Slice(data, start, m)), len |-> m]
<1> DEFINE s == Slice(data, start, m)
           ends == {n \in 1..8 : start + n <= Len(data) /\ data[start + n] < 128}
           n == CHOOSE k \in ends : \A j \in ends : k <= j
<1>1. data \in Seq(Nat) /\ start \in Nat /\ m \in 1..8 /\ start + m <= Len(data) /\ LebWritten(s)
  BY DEF LebAt
<1>2. Len(s) = m /\ \A i \in 1..m : s[i] = data[start + i]
  BY <1>1, SliceBytes
<1> HIDE DEF s
<1>3. \A i \in 1..m : data[start + i] < 128 <=> i = m
  BY <1>1, <1>2 DEF LebWritten
<1>4. m \in ends
  BY <1>1, <1>3
<1>5. ASSUME NEW j \in ends PROVE m <= j
  <2>1. CASE j < m
    <3>1. j \in 1..m /\ j # m /\ data[start + j] < 128
      BY <1>1, <2>1
    <3> QED
      BY <1>3, <3>1
  <2> QED
    BY <1>1, <2>1
<1>6. ends # {} /\ ends \subseteq 1..8
  BY <1>4
<1>7. Leb128(data, start)
        = IF ends = {} THEN Bad
          ELSE [ok |-> TRUE, value |-> LebValue(Slice(data, start, n)), len |-> n]
  BY DEF Leb128
<1> HIDE DEF ends
<1>8. n = m
  <2>1. n \in ends /\ \A j \in ends : n <= j
    BY <1>4, <1>5
  <2> HIDE DEF n
  <2>2. n <= m /\ m <= n /\ n \in 1..8
    BY <1>4, <1>5, <1>6, <2>1
  <2> QED
    BY <1>1, <2>2
<1> HIDE DEF n
<1> QED
  BY <1>6, <1>7, <1>8

LEMMA LebFound ==
  ASSUME NEW data \in Seq(Nat), NEW start \in Nat
  PROVE  Leb128(data, start) = Bad \/ \E m \in 1..8 : LebAt(data, start, m)
<1> DEFINE ends == {n \in 1..8 : start + n <= Len(data) /\ data[start + n] < 128}
<1>1. CASE ends = {}
  BY <1>1 DEF Leb128
<1>2. CASE ends # {}
  <2>1. ends \in SUBSET Nat
    OBVIOUS
  <2> HIDE DEF ends
  <2>2. PICK m \in ends : \A k \in ends : m <= k
    BY <1>2, <2>1, LeastNumber
  <2>3. m \in 1..8 /\ start + m <= Len(data) /\ data[start + m] < 128
    BY <2>2 DEF ends
  <2>4. Len(data) \in Nat
    BY SeqElements
  <2>5. ASSUME NEW i \in 1..m, data[start + i] < 128 PROVE i = m
    <3>1. i \in 1..8 /\ start + i <= Len(data)
      BY <2>3, <2>4
    <3>2. i \in ends
      BY <2>5, <3>1 DEF ends
    <3>3. m <= i
      BY <2>2, <3>2
    <3> QED
      BY <2>3, <3>3
  <2> DEFINE s == Slice(data, start, m)
  <2>6. s \in Seq(Nat) /\ Len(s) = m /\ \A i \in 1..m : s[i] = data[start + i]
    <3>1. m \in Nat /\ start + m <= Len(data)
      BY <2>3
    <3> QED
      BY <3>1, SliceBytes
  <2> HIDE DEF s
  <2>7. \A i \in 1..m : s[i] < 128 <=> i = m
    BY <2>3, <2>5, <2>6
  <2>8. LebWritten(s)
    BY <2>3, <2>6, <2>7 DEF LebWritten
  <2>9. LebAt(data, start, m)
    BY <2>3, <2>8 DEF LebAt, s
  <2> QED
    BY <2>3, <2>9
<1> QED
  BY <1>1, <1>2

(* ReadObu with its parts named.                                           *)
LEMMA ReadObuCases ==
  ASSUME NEW data, NEW p, NEW chunk, chunk[1] = data[p + 1], p \in Nat,
         chunk[1] \in Nat
  PROVE  LET start == p + HeaderLen(chunk)
             size == Leb128(data, start)
             obu(from, len) == [ok |-> TRUE, pos |-> from + len,
                                obu |-> [type |-> (chunk[1] \div 8) % 16,
                                         payload |-> Slice(data, from, len)]]
         IN ReadObu(data, p)
              = IF chunk[1] >= 128 \/ start > Len(data) THEN Bad
                ELSE IF (chunk[1] \div 2) % 2 = 0 THEN obu(start, Len(data) - start)
                ELSE IF ~size.ok THEN Bad
                ELSE IF start + size.len + size.value > Len(data) THEN Bad
                ELSE obu(start + size.len, size.value)
<1> DEFINE b0 == data[p + 1]
           e == (b0 \div 4) % 2
<1>1. p + 1 + e = p + HeaderLen(chunk)
  <2>1. b0 \in Nat /\ chunk[1] = b0
    OBVIOUS
  <2> HIDE DEF b0
  <2>2. e \in {0, 1}
    BY <2>1
  <2>3. HeaderLen(chunk) = IF e = 1 THEN 2 ELSE 1
    BY <2>1 DEF HeaderLen
  <2> HIDE DEF e
  <2> QED
    BY <2>2, <2>3
<1> QED
  BY <1>1 DEF ReadObu

LEMMA HeaderLenRange == ASSUME NEW obu PROVE HeaderLen(obu) \in 1..2
BY DEF HeaderLen

(* Where acc stands there is an OBU, with a size or as the last.           *)
ObuAt(data, acc, chunk, obu) ==
  /\ acc.ok = TRUE /\ acc.pos \in Nat /\ data \in Seq(Nat) /\ chunk \in Seq(Nat)
  /\ obu.payload \in Seq(Nat) /\ ObuWritten(chunk, obu) /\ InPlace(data, acc.pos, chunk)
  /\ Sized(chunk) \/ acc.pos + Len(chunk) = Len(data)

LEMMA ObuRead ==
  ASSUME NEW data, NEW acc, NEW chunk, NEW obu, ObuAt(data, acc, chunk, obu)
  PROVE  NextObu(data, acc)
           = [ok |-> TRUE, pos |-> acc.pos + Len(chunk), obus |-> Append(acc.obus, obu)]
<1> DEFINE p == acc.pos
           h == HeaderLen(chunk)
           len == Len(obu.payload)
           l == Len(data)
           type == (chunk[1] \div 8) % 16
           start == p + h
           whole == [ok |-> TRUE, pos |-> p + Len(chunk), obu |-> obu]
<1>1. /\ acc.ok = TRUE /\ p \in Nat /\ data \in Seq(Nat) /\ chunk \in Seq(Nat)
      /\ obu.payload \in Seq(Nat) /\ ObuWritten(chunk, obu) /\ InPlace(data, p, chunk)
      /\ Sized(chunk) \/ p + Len(chunk) = l
  BY DEF ObuAt
<1>2. PICK m \in 0..8 :
        /\ IF Sized(chunk)
           THEN LebWritten(SizeBytes(chunk, m)) /\ LebValue(SizeBytes(chunk, m)) = len
           ELSE m = 0
        /\ Len(chunk) = h + m + len
        /\ obu = [type |-> type, payload |-> SubSeq(chunk, h + m + 1, Len(chunk))]
  BY <1>1 DEF ObuWritten
<1>3. Len(chunk) > 0 /\ chunk[1] < 128
  BY <1>1 DEF ObuWritten
<1>4. len \in Nat /\ l \in Nat /\ h \in 1..2 /\ Len(chunk) \in Nat
  BY <1>1, SeqElements, HeaderLenRange
<1>5. chunk[1] = data[p + 1] /\ chunk[1] \in Nat
  <2>1. 1 \in 1..Len(chunk)
    BY <1>3, <1>4
  <2> QED
    BY <1>1, <2>1, SeqElements DEF InPlace
<1> HIDE DEF p, h, len, l
<1>6. p + Len(chunk) <= l
  BY <1>1 DEF InPlace, l
<1>7. start \in Nat /\ start <= l /\ start + m + len <= l /\ start + m + len = p + Len(chunk)
  BY <1>1, <1>2, <1>4, <1>6
<1>8. Slice(data, start + m, len) = obu.payload
  <2> DEFINE a == h + m
  <2>1. Inside(data, p, chunk, a, len)
    BY <1>1, <1>2, <1>4 DEF Inside
  <2>2. Slice(data, p + a, len) = SubSeq(chunk, a + 1, a + len)
    BY <2>1, InsideSlice
  <2>3. p + a = start + m /\ a + len = Len(chunk) /\ a + 1 = h + m + 1
    BY <1>1, <1>2, <1>4
  <2>4. obu.payload = SubSeq(chunk, h + m + 1, Len(chunk))
    BY <1>2
  <2> HIDE DEF a, start
  <2> QED
    BY <2>2, <2>3, <2>4
<1>9. obu = [type |-> type, payload |-> Slice(data, start + m, len)]
  BY <1>2, <1>8
<1> DEFINE size == Leb128(data, start)
           read(from, n) == [ok |-> TRUE, pos |-> from + n,
                             obu |-> [type |-> type, payload |-> Slice(data, from, n)]]
<1>10. ReadObu(data, p)
         = IF chunk[1] >= 128 \/ start > Len(data) THEN Bad
           ELSE IF (chunk[1] \div 2) % 2 = 0 THEN read(start, Len(data) - start)
           ELSE IF ~size.ok THEN Bad
           ELSE IF start + size.len + size.value > Len(data) THEN Bad
           ELSE read(start + size.len, size.value)
  BY <1>1, <1>5, ReadObuCases DEF h
<1>11. read(start + m, len) = whole
  BY <1>7, <1>9
<1> HIDE DEF start, type, size, read, whole
<1>12. ~(chunk[1] >= 128 \/ start > Len(data))
  BY <1>3, <1>4, <1>5, <1>7 DEF l
<1>13. ASSUME Sized(chunk) PROVE ReadObu(data, p) = whole
  <2>1. (chunk[1] \div 2) % 2 # 0
    BY <1>13 DEF Sized
  <2>2. LebWritten(SizeBytes(chunk, m)) /\ LebValue(SizeBytes(chunk, m)) = len
    BY <1>2, <1>13
  <2>3. Inside(data, p, chunk, h, m)
    BY <1>1, <1>2, <1>4 DEF Inside
  <2>4. Slice(data, p + h, m) = SubSeq(chunk, h + 1, h + m)
    BY <2>3, InsideSlice
  <2>5. Slice(data, start, m) = SizeBytes(chunk, m)
    BY <2>4 DEF SizeBytes, start, h
  <2>6. m # 0
    <3>1. m \in Nat /\ start + m <= Len(data)
      BY <1>2, <1>4, <1>7 DEF l
    <3>2. Len(Slice(data, start, m)) = m
      BY <1>1, <1>7, <3>1, SliceBytes
    <3>3. Len(SizeBytes(chunk, m)) \in 1..8
      BY <2>2 DEF LebWritten
    <3>4. m \in 1..8
      BY <2>5, <3>2, <3>3
    <3> QED
      BY <3>4
  <2>7. LebAt(data, start, m)
    <3>1. m \in 1..8 /\ start + m <= Len(data)
      BY <1>2, <1>4, <1>7, <2>6 DEF l
    <3> QED
      BY <1>1, <1>7, <2>2, <2>5, <3>1 DEF LebAt
  <2>8. size = [ok |-> TRUE, value |-> LebValue(Slice(data, start, m)), len |-> m]
    BY <2>7, LebRead DEF size
  <2>9. size.ok = TRUE /\ size.len = m /\ size.value = len
    BY <2>2, <2>5, <2>8
  <2>10. ~(start + m + len > Len(data))
    BY <1>4, <1>7 DEF l
  <2>11. ReadObu(data, p) = read(start + m, len)
    BY <1>10, <1>12, <2>1, <2>9, <2>10
  <2> QED
    BY <1>11, <2>11
<1>14. ASSUME ~Sized(chunk) PROVE ReadObu(data, p) = whole
  <2>1. (chunk[1] \div 2) % 2 = 0
    <3> DEFINE b == chunk[1]
    <3>1. b \in Nat /\ (b \div 2) % 2 # 1
      BY <1>5, <1>14 DEF Sized
    <3> HIDE DEF b
    <3>2. (b \div 2) % 2 = 0
      BY <3>1
    <3> QED
      BY <3>2 DEF b
  <2>2. m = 0 /\ p + Len(chunk) = l
    BY <1>1, <1>2, <1>14
  <2>3. Len(data) - start = len /\ start = start + m
    BY <1>4, <1>7, <2>2 DEF l
  <2>4. ReadObu(data, p) = read(start + m, len)
    BY <1>10, <1>12, <2>1, <2>3
  <2> QED
    BY <1>11, <2>4
<1>15. ReadObu(data, p) = whole
  BY <1>13, <1>14
<1>16. acc.ok = TRUE /\ acc.pos = p /\ acc.pos # Len(data)
  BY <1>1, <1>3, <1>4, <1>6 DEF p, l
<1>17. NextObu(data, acc)
         = [ok |-> TRUE, pos |-> p + Len(chunk), obus |-> Append(acc.obus, obu)]
  <2>1. ReadObu(data, acc.pos) = [ok |-> TRUE, pos |-> p + Len(chunk), obu |-> obu]
    BY <1>15, <1>16 DEF whole
  <2> QED
    BY <1>16, <2>1 DEF NextObu
<1> QED
  BY <1>17 DEF p

(* Where acc stands there is a rest that begins no OBU.                    *)
NoObuAt(data, acc, rest) ==
  /\ acc.ok = TRUE /\ acc.pos \in Nat /\ data \in Seq(Nat)
  /\ rest \in Seq(Nat) /\ rest # <<>> /\ NoObu(rest)
  /\ InPlace(data, acc.pos, rest) /\ acc.pos + Len(rest) = Len(data)

LEMMA ObuMissing ==
  ASSUME NEW data, NEW acc, NEW rest, NoObuAt(data, acc, rest)
  PROVE  NextObu(data, acc) = Bad
<1> DEFINE p == acc.pos
           h == HeaderLen(rest)
           l == Len(data)
           type == (rest[1] \div 8) % 16
           start == p + h
           size == Leb128(data, start)
           read(from, n) == [ok |-> TRUE, pos |-> from + n,
                             obu |-> [type |-> type, payload |-> Slice(data, from, n)]]
<1>1. /\ acc.ok = TRUE /\ p \in Nat /\ data \in Seq(Nat) /\ rest \in Seq(Nat) /\ rest # <<>>
      /\ InPlace(data, p, rest) /\ p + Len(rest) = l
  BY DEF NoObuAt
<1>2. \/ rest[1] >= 128
      \/ Len(rest) < h
      \/ /\ Sized(rest)
         /\ \A m \in 1..8 : h + m <= Len(rest) /\ LebWritten(SizeBytes(rest, m)) =>
              h + m + LebValue(SizeBytes(rest, m)) > Len(rest)
  BY DEF NoObuAt, NoObu
<1>3. l \in Nat /\ Len(rest) \in Nat /\ Len(rest) > 0 /\ h \in 1..2
  <2>1. Len(rest) > 0
    BY <1>1
  <2> QED
    BY <1>1, <2>1, SeqElements, HeaderLenRange
<1>4. rest[1] = data[p + 1] /\ rest[1] \in Nat
  <2>1. 1 \in 1..Len(rest)
    BY <1>3
  <2> QED
    BY <1>1, <2>1, SeqElements DEF InPlace
<1> HIDE DEF p, h
<1>5. ReadObu(data, p)
        = IF rest[1] >= 128 \/ start > l THEN Bad
          ELSE IF (rest[1] \div 2) % 2 = 0 THEN read(start, l - start)
          ELSE IF ~size.ok THEN Bad
          ELSE IF start + size.len + size.value > l THEN Bad
          ELSE read(start + size.len, size.value)
  BY <1>1, <1>4, ReadObuCases DEF h
<1> HIDE DEF l, size, read
<1>6. start \in Nat
  BY <1>1, <1>3
<1>7. CASE rest[1] >= 128 \/ Len(rest) < h
  <2>1. rest[1] >= 128 \/ start > l
    BY <1>1, <1>3, <1>7
  <2>2. ReadObu(data, p) = Bad
    BY <1>5, <2>1
  <2> QED
    BY <1>1, <1>3, <2>2 DEF NextObu, p, l, Bad
<1>8. CASE ~(rest[1] >= 128 \/ Len(rest) < h)
  <2>1. /\ Sized(rest)
        /\ \A m \in 1..8 : h + m <= Len(rest) /\ LebWritten(SizeBytes(rest, m)) =>
             h + m + LebValue(SizeBytes(rest, m)) > Len(rest)
    BY <1>2, <1>8
  <2>2. (rest[1] \div 2) % 2 # 0
    BY <2>1 DEF Sized
  <2>3. ~size.ok \/ start + size.len + size.value > l
    <3>1. CASE size = Bad
      BY <3>1 DEF Bad
    <3>2. CASE \E m \in 1..8 : LebAt(data, start, m)
      <4>1. PICK m \in 1..8 : LebAt(data, start, m)
        BY <3>2
      <4> DEFINE s == Slice(data, start, m)
      <4>2. size = [ok |-> TRUE, value |-> LebValue(s), len |-> m]
        BY <4>1, LebRead DEF size
      <4>3. start + m <= l /\ LebWritten(s)
        BY <4>1 DEF LebAt, l
      <4>4. h + m <= Len(rest)
        BY <1>1, <1>3, <4>3
      <4>5. Inside(data, p, rest, h, m)
        BY <1>1, <1>3, <4>4 DEF Inside
      <4>6. Slice(data, p + h, m) = SubSeq(rest, h + 1, h + m)
            /\ SubSeq(rest, h + 1, h + m) \in Seq(Nat)
        BY <4>5, InsideSlice
      <4>7. s = SizeBytes(rest, m) /\ s \in Seq(Nat)
        BY <4>6 DEF SizeBytes, h
      <4>8. LebValue(s) \in Nat
        BY <4>7, LebValueIsANumber
      <4> HIDE DEF s
      <4>9. h + m + LebValue(s) > Len(rest)
        BY <2>1, <4>3, <4>4, <4>7
      <4>10. start + m + LebValue(s) > l
        BY <1>1, <1>3, <4>8, <4>9
      <4> HIDE DEF start
      <4> QED
        BY <4>2, <4>10
    <3> QED
      BY <1>1, <1>6, <3>1, <3>2, LebFound DEF size
  <2>4. ReadObu(data, p) = Bad
    BY <1>5, <2>2, <2>3
  <2> QED
    BY <1>1, <1>3, <2>4 DEF NextObu, p, l, Bad
<1> QED
  BY <1>7, <1>8

LEMMA ObusRead ==
  ASSUME NEW data, NEW chunks, NEW units, NEW rest,
         ObusOK(data, chunks, units, rest)
  PROVE  /\ data \in Seq(Nat)
         /\ split_obus(data)
              = IF rest = <<>> THEN [ok |-> TRUE, pos |-> Len(data), obus |-> units] ELSE Bad
<1> DEFINE k == Len(chunks)
           l == Len(data)
           Obu == [type: 0..15, payload: Bytes]
<1>1. Bytes \subseteq Seq(Nat) /\ Seq(Bytes) \subseteq Seq(Seq(Nat))
  BY BytesAreNumbers, Widen
<1>2. units \in Seq(Obu) /\ chunks \in Seq(Seq(Nat)) /\ rest \in Seq(Nat)
  BY <1>1 DEF ObusOK
<1>3. /\ data = FlattenSeq(chunks) \o rest /\ Len(units) = k
      /\ \A i \in 1..k : ObuWritten(chunks[i], units[i])
      /\ \A i \in 1..k : i < k \/ rest # <<>> => Sized(chunks[i])
      /\ rest # <<>> => NoObu(rest)
  BY DEF ObusOK
<1>4. k \in Nat /\ \A i \in 1..k : chunks[i] \in Seq(Nat) /\ units[i].payload \in Seq(Nat)
  <2>1. k \in Nat /\ \A i \in 1..k : chunks[i] \in Seq(Nat) /\ units[i] \in Obu
    BY <1>2, <1>3, SeqElements
  <2> QED
    BY <1>1, <2>1
<1>5. data \in Seq(Nat)
  <2>1. FlattenSeq(chunks) \in Seq(Nat)
    BY <1>2, Flattened
  <2> QED
    BY <1>2, <1>3, <2>1, Joined
<1>6. ASSUME NEW i \in 1..k PROVE Len(chunks[i]) > 0
  BY <1>3 DEF ObuWritten
<1>7. Chunked(data, chunks, rest)
  BY <1>2, <1>3, <1>5, <1>6 DEF Chunked
<1>8. PICK at : Places(at, k, l, data, chunks, rest)
  BY <1>7, ChunkPlaces
<1> HIDE DEF k, l
<1>9. /\ k \in Nat /\ l \in Nat /\ l = Len(data) /\ at \in [0..k -> Nat] /\ at[0] = 0
      /\ \A i \in 1..k : at[i] = at[i - 1] + Len(chunks[i]) /\ InPlace(data, at[i - 1], chunks[i])
      /\ at[k] + Len(rest) = l /\ InPlace(data, at[k], rest)
      /\ k <= at[k] /\ (rest # <<>> => k < l)
  BY <1>8 DEF Places
<1> DEFINE whole == [ok |-> TRUE, pos |-> l, obus |-> units]
           end == IF rest = <<>> THEN whole ELSE Bad
           upto(j) == [ok |-> TRUE, pos |-> at[j], obus |-> SubSeq(units, 1, j)]
           g == [j \in 0..l |-> IF j <= k THEN upto(j) ELSE end]
<1>10. k <= l /\ Len(rest) \in Nat /\ at[k] \in Nat /\ (rest = <<>> => at[k] = l)
  <2>1. Len(rest) \in Nat /\ at[k] \in Nat
    BY <1>2, <1>9, SeqElements
  <2>2. rest = <<>> => Len(rest) = 0
    OBVIOUS
  <2> QED
    BY <1>9, <2>1, <2>2
<1>11. g[0] = [ok |-> TRUE, pos |-> 0, obus |-> <<>>]
  <2>1. 0 \in 0..l /\ 0 <= k /\ SubSeq(units, 1, 0) = <<>>
    BY <1>2, <1>9, Prefix
  <2> QED
    BY <1>9, <2>1
<1>12. SubSeq(units, 1, k) = units
  BY <1>2, <1>3, Prefix
<1>13. ASSUME NEW j \in 1..l PROVE g[j] = NextObu(data, g[j - 1])
  <2>0. j - 1 \in 0..l /\ j \in 0..l
    BY <1>9
  <2>1. CASE j <= k
    <3> DEFINE acc == upto(j - 1)
    <3>1. j \in 1..k /\ j - 1 <= k /\ j - 1 \in 0..k
      BY <1>9, <2>1
    <3>2. g[j] = upto(j) /\ g[j - 1] = acc
      BY <2>0, <2>1, <3>1
    <3>3. acc.ok = TRUE /\ acc.pos = at[j - 1] /\ acc.obus = SubSeq(units, 1, j - 1)
      OBVIOUS
    <3> HIDE DEF acc, g
    <3>4. ObuAt(data, acc, chunks[j], units[j])
      <4>1. at[j - 1] \in Nat /\ InPlace(data, at[j - 1], chunks[j])
        BY <1>9, <3>1
      <4>2. /\ chunks[j] \in Seq(Nat) /\ units[j].payload \in Seq(Nat)
            /\ ObuWritten(chunks[j], units[j])
        BY <1>3, <1>4, <3>1
      <4>3. Sized(chunks[j]) \/ at[j - 1] + Len(chunks[j]) = Len(data)
        <5>1. CASE j < k \/ rest # <<>>
          BY <1>3, <3>1, <5>1
        <5>2. CASE ~(j < k \/ rest # <<>>)
          <6>1. j = k /\ rest = <<>>
            BY <1>9, <3>1, <5>2
          <6>2. at[k] = l /\ at[j] = at[j - 1] + Len(chunks[j])
            BY <1>9, <1>10, <3>1, <6>1
          <6> QED
            BY <1>9, <6>1, <6>2
        <5> QED
          BY <5>1, <5>2
      <4> QED
        BY <1>5, <3>3, <4>1, <4>2, <4>3 DEF ObuAt
    <3>5. NextObu(data, acc) = [ok |-> TRUE, pos |-> acc.pos + Len(chunks[j]),
                                   obus |-> Append(acc.obus, units[j])]
      BY <3>4, ObuRead
    <3>6. at[j] = at[j - 1] + Len(chunks[j])
      BY <1>9, <3>1
    <3>7. SubSeq(units, 1, j) = Append(SubSeq(units, 1, j - 1), units[j])
      BY <1>2, <1>3, <3>1, Prefix
    <3> QED
      BY <3>2, <3>3, <3>5, <3>6, <3>7
  <2>2. CASE j = k + 1
    <3> DEFINE acc == upto(k)
    <3>1. ~(j <= k) /\ j - 1 = k /\ k <= k
      BY <1>9, <2>2
    <3>2. g[j] = end /\ g[j - 1] = acc
      BY <2>0, <3>1
    <3>3. acc.ok = TRUE /\ acc.pos = at[k] /\ acc.obus = units
      BY <1>12
    <3>4. acc = [ok |-> TRUE, pos |-> at[k], obus |-> units]
      BY <1>12
    <3> HIDE DEF acc, g
    <3>5. CASE rest = <<>>
      <4>1. acc.pos = Len(data) /\ acc = whole
        BY <1>9, <1>10, <3>3, <3>4, <3>5
      <4>2. NextObu(data, acc) = acc
        BY <4>1 DEF NextObu
      <4> QED
        BY <3>2, <3>5, <4>1, <4>2
    <3>6. CASE rest # <<>>
      <4>1. NoObuAt(data, acc, rest)
        BY <1>2, <1>3, <1>5, <1>9, <1>10, <3>3, <3>6 DEF NoObuAt
      <4>2. NextObu(data, acc) = Bad
        BY <4>1, ObuMissing
      <4> QED
        BY <3>2, <3>6, <4>2
    <3> QED
      BY <3>5, <3>6
  <2>3. CASE j > k + 1
    <3>1. ~(j <= k) /\ ~(j - 1 <= k)
      BY <1>9, <2>3
    <3>2. g[j] = end /\ g[j - 1] = end
      BY <2>0, <3>1
    <3> HIDE DEF g
    <3>3. CASE rest = <<>>
      <4>1. whole.pos = Len(data)
        BY <1>9
      <4> HIDE DEF whole
      <4>2. NextObu(data, whole) = whole
        BY <4>1 DEF NextObu
      <4> QED
        BY <3>2, <3>3, <4>2
    <3>4. CASE rest # <<>>
      <4>1. Bad.ok = FALSE
        BY DEF Bad
      <4>2. NextObu(data, Bad) = Bad
        BY <4>1 DEF NextObu
      <4> QED
        BY <3>2, <3>4, <4>2
    <3> QED
      BY <3>3, <3>4
  <2>4. j <= k \/ j = k + 1 \/ j > k + 1
    BY <1>9
  <2> QED
    BY <2>1, <2>2, <2>3, <2>4
<1>14. g[l] = end
  <2>1. l \in 0..l
    BY <1>9
  <2>2. CASE l <= k
    <3>1. l = k /\ rest = <<>>
      BY <1>9, <1>10, <2>2
    <3>2. g[l] = upto(k)
      BY <2>1, <2>2, <3>1
    <3>3. at[k] = l
      BY <1>10, <3>1
    <3> QED
      BY <1>12, <3>1, <3>2, <3>3
  <2>3. CASE ~(l <= k)
    BY <2>1, <2>3
  <2> QED
    BY <2>2, <2>3
<1> HIDE DEF g
<1>15. ObuSteps(data, l, g)
  BY <1>9, <1>11, <1>13 DEF ObuSteps
<1>16. split_obus(data) = g[l]
  BY <1>15, ObusLoop
<1> QED
  BY <1>5, <1>9, <1>14, <1>16
=============================================================================
