----------------------------- MODULE LjpegProofs -----------------------------
(***************************************************************************)
(* Theorems about the lossless-JPEG decoder, for every stream (conforming  *)
(* or not), every size of code, lookup, sample and image; that it reads    *)
(* the code word and the difference that an encoder wrote; and that of    *)
(* every stream of the modelled encoder it returns the encoded image.      *)
(***************************************************************************)
EXTENDS LjpegDecoder, NatLemmas

-----------------------------------------------------------------------------
(* Powers of two                                                           *)

LEMMA PowDoubles ==
  /\ Pow2[0] = 1
  /\ \A i \in Nat : Pow2[i] \in Nat \ {0} /\ Pow2[i + 1] = 2 * Pow2[i]
<1> DEFINE p == Pow2
<1>1. p = CHOOSE f : f = [i \in Nat |-> IF i = 0 THEN 1 ELSE 2 * f[i - 1]]
  BY DEF Pow2
<1> HIDE DEF p
<1>2. p[0] = 1 /\ \A i \in Nat : p[i] \in Nat \ {0} /\ p[i + 1] = 2 * p[i]
  BY <1>1, Doubling
<1> QED
  BY <1>2 DEF p

LEMMA PowAdds == \A i, j \in Nat : Pow2[i + j] = Pow2[i] * Pow2[j]
BY PowDoubles, DoublesAdd

(* A code's beginning: what is left of the first n bits of w after n - k.  *)
LEMMA Beginning ==
  ASSUME NEW w \in Nat, NEW k \in Nat, NEW l \in Nat, NEW n \in Nat, k <= l, l <= n
  PROVE  w \div Pow2[n - k] = (w \div Pow2[n - l]) \div Pow2[l - k]
<1>1. n - k \in Nat /\ n - l \in Nat /\ l - k \in Nat /\ (n - l) + (l - k) = n - k
  OBVIOUS
<1>2. Pow2[n - k] = Pow2[n - l] * Pow2[l - k]
  BY <1>1, PowAdds
<1>3. Pow2[n - l] \in Nat \ {0} /\ Pow2[l - k] \in Nat \ {0}
  BY <1>1, PowDoubles
<1> DEFINE a == Pow2[n - l]
           c == Pow2[l - k]
<1> HIDE DEF a, c
<1>4. w \div (a * c) = (w \div a) \div c
  BY <1>3, DivideParts DEF a, c
<1> QED
  BY <1>2, <1>4 DEF a, c

-----------------------------------------------------------------------------
(* Huffman tables                                                          *)

(* A function on 1..MaxLen+1 that starts with zero and goes on by step.    *)
LEMMA FromOne ==
  ASSUME NEW step \in [1..MaxLen -> [Nat -> Nat]]
  PROVE  \E f \in [1..(MaxLen + 1) -> Nat] :
           f[1] = 0 /\ \A l \in 1..MaxLen : f[l + 1] = step[l][f[l]]
<1>1. MaxLen \in Nat
  BY LjpegAssumption
<1> DEFINE from0 == [i \in 0..(MaxLen - 1) |-> step[i + 1]]
<1>2. from0 \in [0..(MaxLen - 1) -> [Nat -> Nat]]
  <2>1. \A i \in 0..(MaxLen - 1) : i + 1 \in 1..MaxLen
    BY <1>1
  <2> QED
    BY <2>1
<1>3. \A i \in 0..(MaxLen - 1) : from0[i] = step[i + 1]
  OBVIOUS
<1> HIDE DEF from0
<1>4. PICK g : RecursUpTo(g, MaxLen, Nat, 0, from0)
  BY <1>1, <1>2, RecursionUpTo
<1> DEFINE f == [l \in 1..(MaxLen + 1) |-> g[l - 1]]
<1>5. f \in [1..(MaxLen + 1) -> Nat]
  <2>1. \A l \in 1..(MaxLen + 1) : l - 1 \in 0..MaxLen
    BY <1>1
  <2> QED
    BY <1>4, <2>1 DEF RecursUpTo
<1>6. f[1] = 0
  BY <1>1, <1>4 DEF RecursUpTo
<1>7. ASSUME NEW l \in 1..MaxLen PROVE f[l + 1] = step[l][f[l]]
  <2>1. /\ l - 1 \in 0..(MaxLen - 1) /\ (l - 1) + 1 = l /\ (l + 1) - 1 = l
        /\ l \in 1..(MaxLen + 1) /\ l + 1 \in 1..(MaxLen + 1)
    BY <1>1
  <2>2. g[(l - 1) + 1] = from0[l - 1][g[l - 1]]
    BY <1>4, <2>1 DEF RecursUpTo
  <2> QED
    BY <1>3, <2>1, <2>2
<1> QED
  BY <1>5, <1>6, <1>7

LEMMA NatFromOne ==
  ASSUME NEW f, f[1] \in Nat, \A l \in 1..MaxLen : f[l] \in Nat => f[l + 1] \in Nat
  PROVE  \A l \in 1..(MaxLen + 1) : f[l] \in Nat
<1>1. MaxLen \in Nat
  BY LjpegAssumption
<1> DEFINE S == {i \in Nat : f[i + 1] \in Nat}
<1>2. 0 \in S
  OBVIOUS
<1>3. ASSUME NEW i \in 0..(MaxLen - 1), i \in S PROVE i + 1 \in S
  <2>1. i + 1 \in 1..MaxLen /\ i + 1 \in Nat
    BY <1>1
  <2> QED
    BY <1>3, <2>1
<1> HIDE DEF S
<1>4. \A i \in 0..MaxLen : i \in S
  BY <1>1, <1>2, <1>3, InductUpTo
<1> USE DEF S
<1>5. ASSUME NEW l \in 1..(MaxLen + 1) PROVE f[l] \in Nat
  <2>1. l - 1 \in 0..MaxLen /\ (l - 1) + 1 = l
    BY <1>1
  <2> QED
    BY <1>4, <2>1
<1> QED
  BY <1>5

(* The recursive definition of FirstCode may be unfolded.                   *)
LEMMA FirstCodeUnfolds ==
  ASSUME NEW table \in HuffmanTable
  PROVE  /\ FirstCode(table)[1] = 0
         /\ \A l \in 1..MaxLen :
              FirstCode(table)[l + 1] = (FirstCode(table)[l] + table.bits[l]) * 2
         /\ \A l \in 1..(MaxLen + 1) : FirstCode(table)[l] \in Nat
<1> DEFINE b == table.bits
           f == FirstCode(table)
<1>1. MaxLen \in Nat /\ \A l \in 1..MaxLen : b[l] \in Nat
  BY LjpegAssumption DEF HuffmanTable
<1>2. PICK step \in [1..MaxLen -> [Nat -> Nat]] :
        \A l \in 1..MaxLen, v \in Nat : step[l][v] = (v + b[l]) * 2
  <2> DEFINE steps == [l \in 1..MaxLen |-> [v \in Nat |-> (v + b[l]) * 2]]
  <2> HIDE DEF b
  <2>1. \A l \in 1..MaxLen, v \in Nat : (v + b[l]) * 2 \in Nat
    BY <1>1
  <2>2. steps \in [1..MaxLen -> [Nat -> Nat]]
    BY <2>1
  <2>3. \A l \in 1..MaxLen, v \in Nat : steps[l][v] = (v + b[l]) * 2
    OBVIOUS
  <2> QED
    BY <2>2, <2>3
<1>3. PICK g \in [1..(MaxLen + 1) -> Nat] :
        g[1] = 0 /\ \A l \in 1..MaxLen : g[l + 1] = step[l][g[l]]
  BY FromOne
<1>4. ASSUME NEW l \in 1..(MaxLen + 1)
      PROVE  g[l] = IF l = 1 THEN 0 ELSE (g[l - 1] + b[l - 1]) * 2
  <2>1. CASE l # 1
    <3>1. l - 1 \in 1..MaxLen /\ (l - 1) + 1 = l /\ l - 1 \in 1..(MaxLen + 1)
      BY <1>1, <2>1
    <3>2. g[l - 1] \in Nat
      BY <3>1
    <3>3. g[(l - 1) + 1] = step[l - 1][g[l - 1]]
      BY <1>3, <3>1
    <3> HIDE DEF b
    <3> QED
      BY <1>2, <2>1, <3>1, <3>2, <3>3
  <2> QED
    BY <1>3, <2>1
<1>5. g = [l \in 1..(MaxLen + 1) |-> IF l = 1 THEN 0 ELSE (g[l - 1] + table.bits[l - 1]) * 2]
  BY <1>4
<1>6. f = [l \in 1..(MaxLen + 1) |-> IF l = 1 THEN 0 ELSE (f[l - 1] + table.bits[l - 1]) * 2]
  BY <1>5 DEF FirstCode
<1> HIDE DEF f
<1>7. \A l \in 1..(MaxLen + 1) : f[l] = IF l = 1 THEN 0 ELSE (f[l - 1] + b[l - 1]) * 2
  BY <1>6
<1>8. f[1] = 0
  <2>1. 1 \in 1..(MaxLen + 1)
    BY <1>1
  <2> QED
    BY <1>7, <2>1
<1>9. ASSUME NEW l \in 1..MaxLen PROVE f[l + 1] = (f[l] + b[l]) * 2
  <2>1. l + 1 \in 1..(MaxLen + 1) /\ l + 1 # 1 /\ (l + 1) - 1 = l
    BY <1>1
  <2> QED
    BY <1>7, <2>1
<1> HIDE DEF b
<1>10. \A l \in 1..(MaxLen + 1) : f[l] \in Nat
  <2>1. ASSUME NEW l \in 1..MaxLen, f[l] \in Nat PROVE f[l + 1] \in Nat
    <3>1. f[l + 1] = (f[l] + b[l]) * 2
      BY <1>9
    <3>2. b[l] \in Nat
      BY <1>1
    <3> QED
      BY <2>1, <3>1, <3>2
  <2> QED
    BY <1>8, <2>1, NatFromOne
<1> QED
  BY <1>8, <1>9, <1>10 DEF f, b

(* The recursive definition of Shorter may be unfolded.                     *)
LEMMA ShorterUnfolds ==
  ASSUME NEW table \in HuffmanTable
  PROVE  /\ Shorter(table)[1] = 0
         /\ \A l \in 1..MaxLen :
              Shorter(table)[l + 1] = Shorter(table)[l] + table.bits[l]
         /\ \A l \in 1..(MaxLen + 1) : Shorter(table)[l] \in Nat
<1> DEFINE b == table.bits
           f == Shorter(table)
<1>1. MaxLen \in Nat /\ \A l \in 1..MaxLen : b[l] \in Nat
  BY LjpegAssumption DEF HuffmanTable
<1>2. PICK step \in [1..MaxLen -> [Nat -> Nat]] :
        \A l \in 1..MaxLen, v \in Nat : step[l][v] = v + b[l]
  <2> DEFINE steps == [l \in 1..MaxLen |-> [v \in Nat |-> v + b[l]]]
  <2> HIDE DEF b
  <2>1. \A l \in 1..MaxLen, v \in Nat : v + b[l] \in Nat
    BY <1>1
  <2>2. steps \in [1..MaxLen -> [Nat -> Nat]]
    BY <2>1
  <2>3. \A l \in 1..MaxLen, v \in Nat : steps[l][v] = v + b[l]
    OBVIOUS
  <2> QED
    BY <2>2, <2>3
<1>3. PICK g \in [1..(MaxLen + 1) -> Nat] :
        g[1] = 0 /\ \A l \in 1..MaxLen : g[l + 1] = step[l][g[l]]
  BY FromOne
<1>4. ASSUME NEW l \in 1..(MaxLen + 1)
      PROVE  g[l] = IF l = 1 THEN 0 ELSE g[l - 1] + b[l - 1]
  <2>1. CASE l # 1
    <3>1. l - 1 \in 1..MaxLen /\ (l - 1) + 1 = l /\ l - 1 \in 1..(MaxLen + 1)
      BY <1>1, <2>1
    <3>2. g[l - 1] \in Nat
      BY <3>1
    <3>3. g[(l - 1) + 1] = step[l - 1][g[l - 1]]
      BY <1>3, <3>1
    <3> HIDE DEF b
    <3> QED
      BY <1>2, <2>1, <3>1, <3>2, <3>3
  <2> QED
    BY <1>3, <2>1
<1>5. g = [l \in 1..(MaxLen + 1) |-> IF l = 1 THEN 0 ELSE g[l - 1] + table.bits[l - 1]]
  BY <1>4
<1>6. f = [l \in 1..(MaxLen + 1) |-> IF l = 1 THEN 0 ELSE f[l - 1] + table.bits[l - 1]]
  BY <1>5 DEF Shorter
<1> HIDE DEF f
<1>7. \A l \in 1..(MaxLen + 1) : f[l] = IF l = 1 THEN 0 ELSE f[l - 1] + b[l - 1]
  BY <1>6
<1>8. f[1] = 0
  <2>1. 1 \in 1..(MaxLen + 1)
    BY <1>1
  <2> QED
    BY <1>7, <2>1
<1>9. ASSUME NEW l \in 1..MaxLen PROVE f[l + 1] = f[l] + b[l]
  <2>1. l + 1 \in 1..(MaxLen + 1) /\ l + 1 # 1 /\ (l + 1) - 1 = l
    BY <1>1
  <2> QED
    BY <1>7, <2>1
<1> HIDE DEF b
<1>10. \A l \in 1..(MaxLen + 1) : f[l] \in Nat
  <2>1. ASSUME NEW l \in 1..MaxLen, f[l] \in Nat PROVE f[l + 1] \in Nat
    <3>1. f[l + 1] = f[l] + b[l]
      BY <1>9
    <3>2. b[l] \in Nat
      BY <1>1
    <3> QED
      BY <2>1, <3>1, <3>2
  <2> QED
    BY <1>8, <2>1, NatFromOne
<1> QED
  BY <1>8, <1>9, <1>10 DEF f, b

(* Codes of length l begin where those of a shorter length m have ended.   *)
LEMMA LongerCodesFollow ==
  ASSUME NEW table \in HuffmanTable, NEW m \in 1..MaxLen
  PROVE  \A l \in (m + 1)..MaxLen :
           (FirstCode(table)[m] + table.bits[m]) * Pow2[l - m] <= FirstCode(table)[l]
<1> DEFINE f == FirstCode(table)
           e == f[m] + table.bits[m]
           S == {i \in Nat : m + 1 + i <= MaxLen => e * Pow2[i + 1] <= f[m + 1 + i]}
<1>1. MaxLen \in Nat /\ \A l \in 1..MaxLen : table.bits[l] \in Nat
  BY LjpegAssumption DEF HuffmanTable
<1>2. e \in Nat /\ f[m + 1] = e * 2 /\ m \in Nat
  BY <1>1, FirstCodeUnfolds
<1>3. Pow2[1] = 2
  <2>1. 0 + 1 = 1 /\ Pow2[0 + 1] = 2 * Pow2[0]
    BY PowDoubles
  <2> QED
    BY <2>1, PowDoubles
<1>4. 0 \in S
  BY <1>2, <1>3
<1>5. ASSUME NEW i \in Nat, i \in S PROVE i + 1 \in S
  <2> SUFFICES ASSUME m + 1 + (i + 1) <= MaxLen
               PROVE  e * Pow2[(i + 1) + 1] <= f[m + 1 + (i + 1)]
    OBVIOUS
  <2> DEFINE l == m + 1 + i
             a == Pow2[i + 1]
  <2>1. l \in 1..MaxLen /\ m + 1 + (i + 1) = l + 1
    BY <1>1, <1>2
  <2>2. a \in Nat /\ Pow2[(i + 1) + 1] = 2 * a
    BY PowDoubles
  <2>3. e * a <= f[l]
    BY <1>5, <2>1
  <2>4. f[l] \in Nat /\ table.bits[l] \in Nat /\ f[l + 1] = (f[l] + table.bits[l]) * 2
    BY <1>1, <2>1, FirstCodeUnfolds
  <2> HIDE DEF e, a, f, l
  <2>5. e * (2 * a) = 2 * (e * a) /\ e * a \in Nat
    BY <1>2, <2>2
  <2>6. e * (2 * a) <= f[l + 1]
    BY <2>3, <2>4, <2>5
  <2> QED
    BY <2>1, <2>2, <2>6
<1> HIDE DEF S
<1>6. \A i \in Nat : i \in S
  BY <1>4, <1>5, Induct
<1> USE DEF S
<1>7. ASSUME NEW l \in (m + 1)..MaxLen PROVE e * Pow2[l - m] <= f[l]
  <2>1. l - m - 1 \in Nat /\ (l - m - 1) + 1 = l - m /\ m + 1 + (l - m - 1) = l /\ l <= MaxLen
    BY <1>1
  <2>2. l - m - 1 \in S
    BY <1>6, <2>1
  <2> HIDE DEF e, f
  <2> QED
    BY <2>1, <2>2
<1> QED
  BY <1>7

(* w begins with the code of symbol number i, of length l.                 *)
BeginsWith(w, table, i, l) ==
  /\ i \in 0..(Len(table.huffval) - 1) /\ l \in 1..MaxLen
  /\ i - Shorter(table)[l] \in 0..(table.bits[l] - 1)
  /\ w \div Pow2[MaxLen - l] = FirstCode(table)[l] + (i - Shorter(table)[l])

(* That code is the one that the slow path finds: no shorter beginning of  *)
(* w is a code.                                                            *)
LEMMA FirstFit ==
  ASSUME NEW table \in HuffmanTable, NEW w \in Nat, NEW i, NEW l, BeginsWith(w, table, i, l)
  PROVE  SlowPath(table, w) = <<table.huffval[i + 1], l>>
<1> DEFINE f == FirstCode(table)
           j == Shorter(table)
           b == table.bits
           N == Len(table.huffval)
           code(k) == w \div Pow2[MaxLen - k]
           Fits(k) == /\ b[k] # 0
                      /\ code(k) <= f[k] + b[k] - 1
                      /\ j[k] + code(k) - f[k] \in 0..(N - 1)
           fits == {k \in 1..MaxLen : Fits(k)}
<1>1. /\ MaxLen \in Nat
      /\ N \in Nat /\ \A k \in 1..MaxLen : b[k] \in Nat
  BY LjpegAssumption DEF HuffmanTable
<1>2. \A k \in 1..MaxLen : f[k] \in Nat /\ j[k] \in Nat
  BY <1>1, FirstCodeUnfolds, ShorterUnfolds
<1>3. \A k \in 1..MaxLen : code(k) \in Nat
  <2> SUFFICES ASSUME NEW k \in 1..MaxLen PROVE code(k) \in Nat
    OBVIOUS
  <2>1. MaxLen - k \in Nat
    BY <1>1
  <2>2. Pow2[MaxLen - k] \in Nat \ {0}
    BY <2>1, PowDoubles
  <2> QED
    BY <2>2, Divide
<1>4. i \in 0..(N - 1) /\ i - j[l] \in 0..(b[l] - 1)
  BY DEF BeginsWith
<1>5. l \in 1..MaxLen /\ code(l) = f[l] + (i - j[l])
  BY DEF BeginsWith
<1> HIDE DEF f, j, b, N
<1> HIDE DEF code
<1>6. l \in fits /\ j[l] + code(l) - f[l] = i
  BY <1>1, <1>2, <1>4, <1>5
<1>7. ASSUME NEW k \in fits PROVE l <= k
  <2> SUFFICES ASSUME k < l PROVE FALSE
    BY <1>1, <1>5
  <2>1. k \in 1..MaxLen /\ k \in Nat /\ l \in Nat /\ k <= l /\ l <= MaxLen
    BY <1>1, <1>5
  <2>2. (f[k] + b[k]) * Pow2[l - k] <= f[l]
    <3>1. l \in (k + 1)..MaxLen
      BY <1>1, <1>5, <2>1
    <3> QED
      BY <2>1, <3>1, LongerCodesFollow DEF f, b
  <2>3. code(k) = code(l) \div Pow2[l - k]
    BY <1>1, <2>1, Beginning DEF code
  <2> DEFINE d == Pow2[l - k]
             q == code(l) \div d
  <2>4. d \in Nat \ {0}
    <3>1. l - k \in Nat
      BY <2>1
    <3> QED
      BY <3>1, PowDoubles
  <2>5. code(l) \in Nat /\ f[l] <= code(l)
    BY <1>2, <1>3, <1>4, <1>5
  <2>6. q + 1 <= f[k] + b[k]
    BY <1>1, <1>2, <1>3, <2>1, <2>3
  <2> HIDE DEF d
  <2>7. code(l) < (q + 1) * d /\ q \in Nat
    <3>1. q \in Nat /\ code(l) % d \in 0..(d - 1) /\ code(l) = q * d + (code(l) % d)
      BY <2>4, <2>5, Divide
    <3>2. (q + 1) * d = q * d + d
      BY <2>4, <3>1
    <3> HIDE DEF q
    <3> QED
      BY <2>4, <3>1, <3>2
  <2> DEFINE e == f[k] + b[k]
  <2>8. e \in Nat /\ e * d <= f[l] /\ q + 1 <= e /\ f[l] \in Nat
    BY <1>1, <1>2, <1>5, <2>1, <2>2, <2>6 DEF d
  <2> HIDE DEF q, e
  <2>9. (q + 1) * d <= e * d
    BY <2>4, <2>7, <2>8
  <2>10. (q + 1) * d \in Nat /\ e * d \in Nat
    BY <2>4, <2>7, <2>8
  <2> QED
    BY <2>5, <2>7, <2>8, <2>9, <2>10
<1> DEFINE first == CHOOSE k \in fits : \A m \in fits : k <= m
<1>8. first = l
  <2>1. first \in fits /\ \A m \in fits : first <= m
    BY <1>6, <1>7
  <2>2. first \in Nat /\ l \in Nat
    <3>1. fits \subseteq 1..MaxLen
      OBVIOUS
    <3> HIDE DEF fits, first
    <3> QED
      BY <1>1, <1>5, <2>1, <3>1
  <2>3. first <= l /\ l <= first
    BY <1>6, <1>7, <2>1
  <2> HIDE DEF first
  <2> QED
    BY <2>2, <2>3
<1>9. SlowPath(table, w) = <<table.huffval[j[first] + code(first) - f[first] + 1], first>>
  BY <1>6 DEF SlowPath, f, j, b, N, code
<1> QED
  BY <1>6, <1>8, <1>9

(* So it is found by its first Fast bits.                                  *)
LEMMA FoundIsFirstFit ==
  ASSUME NEW table \in HuffmanTable, NEW w \in Nat,
         NEW il \in CodesAhead(table, w \div Pow2[MaxLen - Fast])
  PROVE  <<table.huffval[il[1] + 1], il[2]>> = SlowPath(table, w)
<1> DEFINE i == il[1]
           l == il[2]
<1>1. /\ i \in 0..(Len(table.huffval) - 1) /\ l \in 1..Fast
      /\ i - Shorter(table)[l] \in 0..(table.bits[l] - 1)
      /\ (w \div Pow2[MaxLen - Fast]) \div Pow2[Fast - l]
           = FirstCode(table)[l] + (i - Shorter(table)[l])
  BY DEF CodesAhead
<1> HIDE DEF i, l
<1>2. MaxLen \in Nat /\ Fast \in Nat /\ Fast <= MaxLen
  BY LjpegAssumption
<1>3. l \in 1..MaxLen /\ l \in Nat /\ l <= Fast
  BY <1>1, <1>2
<1>4. w \div Pow2[MaxLen - l] = (w \div Pow2[MaxLen - Fast]) \div Pow2[Fast - l]
  BY <1>2, <1>3, Beginning
<1>5. BeginsWith(w, table, i, l)
  BY <1>1, <1>3, <1>4 DEF BeginsWith
<1> QED
  BY <1>5, FirstFit DEF i, l

(* decode_huffman gives what the slow path alone would give.               *)
LEMMA HuffmanIsSlowPath ==
  ASSUME NEW table \in HuffmanTable, NEW w \in Nat
  PROVE  Huffman(table, w) = SlowPath(table, w)
<1> DEFINE found == Lookup(table, w \div Pow2[MaxLen - Fast])
<1>1. CASE found = {}
  BY <1>1 DEF Huffman
<1>2. CASE found # {}
  <2>1. \A g \in found : g = SlowPath(table, w)
    BY FoundIsFirstFit DEF Lookup
  <2>2. (CHOOSE g \in found : TRUE) \in found
    BY <1>2
  <2> QED
    BY <1>2, <2>1, <2>2 DEF Huffman
<1> QED
  BY <1>1, <1>2

-----------------------------------------------------------------------------
(* Types                                                                   *)

LEMMA SeqElements ==
  ASSUME NEW S, NEW s \in Seq(S)
  PROVE  /\ Len(s) \in Nat /\ DOMAIN s = 1..Len(s)
         /\ \A i \in 1..Len(s) : s[i] \in S
OBVIOUS

LEMMA SeqOf ==
  ASSUME NEW n \in Nat, NEW S, NEW s \in [1..n -> S]
  PROVE  s \in Seq(S)
OBVIOUS

LEMMA SlowPathType ==
  ASSUME NEW table \in HuffmanTable, NEW w
  PROVE  SlowPath(table, w)[1] \in Nat /\ SlowPath(table, w)[2] \in Nat
<1> DEFINE j == Shorter(table)
           f == FirstCode(table)
           code(l) == w \div Pow2[MaxLen - l]
           fits == {l \in 1..MaxLen :
                      /\ table.bits[l] # 0
                      /\ code(l) <= f[l] + table.bits[l] - 1
                      /\ j[l] + code(l) - f[l] \in 0..(Len(table.huffval) - 1)}
           first == CHOOSE l \in fits : \A m \in fits : l <= m
           i == j[first] + code(first) - f[first]
<1>1. MaxLen \in Nat /\ table.huffval \in Seq(Nat)
  BY LjpegAssumption DEF HuffmanTable
<1>2. SlowPath(table, w) = IF fits = {} THEN <<0, MaxLen>> ELSE <<table.huffval[i + 1], first>>
  BY DEF SlowPath
<1>3. CASE fits = {}
  <2> HIDE DEF fits
  <2> QED
    BY <1>1, <1>2, <1>3
<1>4. CASE fits # {}
  <2>1. fits \in SUBSET Nat
    OBVIOUS
  <2>2. first \in fits
    <3> HIDE DEF fits
    <3>1. \E l \in fits : \A m \in fits : l <= m
      BY <1>4, <2>1, LeastNumber
    <3> QED
      BY <3>1
  <2>3. first \in Nat /\ i \in 0..(Len(table.huffval) - 1)
    <3> HIDE DEF first
    <3> QED
      BY <2>2
  <2> HIDE DEF fits, first, i
  <2>4. i + 1 \in 1..Len(table.huffval)
    BY <1>1, <2>3
  <2>5. table.huffval[i + 1] \in Nat
    BY <1>1, <2>4
  <2> QED
    BY <1>2, <1>4, <2>3, <2>5
<1> QED
  BY <1>3, <1>4

(* A coded difference takes a number of bits.                              *)
LEMMA DifferenceLength ==
  ASSUME NEW table \in HuffmanTable
  PROVE  Difference(table).length \in Nat
<1> DEFINE w == BitsAt(used, MaxLen)
           found == Lookup(table, w \div Pow2[MaxLen - Fast])
           h == Huffman(table, w)
<1>1. table.huffval \in Seq(Nat) /\ Fast \in Nat
  BY LjpegAssumption DEF HuffmanTable
<1>2. h[1] \in Nat /\ h[2] \in Nat
  <2>1. CASE found = {}
    BY <2>1, SlowPathType DEF Huffman
  <2>2. CASE found # {}
    <3>1. h \in found
      <4> HIDE DEF found
      <4>1. (CHOOSE f \in found : TRUE) \in found
        BY <2>2
      <4>2. h = CHOOSE f \in found : TRUE
        BY <2>2 DEF Huffman, found
      <4> QED
        BY <4>1, <4>2
    <3>2. PICK il \in CodesAhead(table, w \div Pow2[MaxLen - Fast]) :
            h = <<table.huffval[il[1] + 1], il[2]>>
      BY <3>1 DEF Lookup
    <3>3. il[1] \in 0..(Len(table.huffval) - 1) /\ il[2] \in Nat
      BY <1>1 DEF CodesAhead
    <3>4. il[1] + 1 \in 1..Len(table.huffval)
      BY <1>1, <3>3
    <3>5. table.huffval[il[1] + 1] \in Nat
      BY <1>1, <3>4
    <3> HIDE DEF h
    <3> QED
      BY <3>2, <3>3, <3>5
  <2> QED
    BY <2>1, <2>2
<1>3. Difference(table).length = h[2] + h[1]
  BY DEF Difference
<1> QED
  BY <1>2, <1>3

LEMMA SegmentGiven ==
  ASSUME TypeOK, NEW kind, AtSegment(kind)
  PROVE  Segment(segment) /\ segment.kind = kind
BY StreamAssumption DEF TypeOK, AtSegment, segment

LEMMA Sizes ==
  ASSUME TypeOK
  PROVE  /\ Width \in Nat /\ Height \in Nat /\ Largest \in Nat /\ Initial \in Nat
         /\ Blocks \in Nat /\ SamplesToDecode \in Nat
<1>1. Width \in Nat /\ Height \in Nat
  BY StreamAssumption DEF TypeOK, Width, Height
<1>2. Largest \in Nat
  <2>1. frame.precision \in Nat /\ SampleWidth \in Nat
    BY LjpegAssumption DEF TypeOK
  <2>2. Pow2[frame.precision] \in Nat \ {0} /\ Pow2[SampleWidth] \in Nat \ {0}
    BY <2>1, PowDoubles
  <2> QED
    BY <2>2 DEF Largest, MaxVal
<1>3. Initial \in Nat
  <2>1. \A a, b \in Nat : Sub(a, b) \in Nat
    BY DEF Sub
  <2>2. Sub(Sub(frame.precision, point_transform), 1) \in Nat
    BY <2>1 DEF TypeOK
  <2> QED
    BY <2>2, PowDoubles DEF Initial
<1>4. Blocks \in Nat
  <2>1. Width \div 2 \in Nat /\ Height \div 2 \in Nat
    BY <1>1
  <2> QED
    BY <2>1 DEF Blocks
<1>5. Width * Height \in Nat
  BY <1>1
<1> QED
  BY <1>1, <1>2, <1>3, <1>4, <1>5 DEF SamplesToDecode

-----------------------------------------------------------------------------
(* The invariant                                                           *)

LEMMA InitIInv == Init => IInv
<1> SUFFICES ASSUME Init PROVE IInv
  OBVIOUS
<1>1. DefaultTable \in HuffmanTable
  BY DEF DefaultTable, HuffmanTable
<1>2. frame \in [precision: Nat, width: Nat, height: Nat, components: Seq([id: Nat, dc_table: Nat])]
  BY DEF Init
<1>3. huffman_dc \in [0..(Slots - 1) -> HuffmanTable]
  BY <1>1 DEF Init
<1>4. bits \in Seq({0, 1}) /\ used \in 0..Len(bits)
  BY DEF Init
<1> QED
  BY <1>2, <1>3, <1>4 DEF Init, IInv, TypeOK, ScanInv

(* A step of the marker loop.                                              *)
LEMMA MarkerStep ==
  ASSUME IInv, pc = "markers", pc' \in {"markers", "start", "failed"}, TypeOK', used' = used
  PROVE  IInv'
BY DEF IInv, ScanInv

LEMMA ParseSof3Inv == IInv /\ ParseSof3 => IInv'
<1> SUFFICES ASSUME IInv, ParseSof3 PROVE IInv'
  OBVIOUS
<1>1. TypeOK /\ AtSegment("SOF3")
  BY DEF IInv, ParseSof3
<1>2. Segment(segment) /\ segment.kind = "SOF3"
  BY <1>1, SegmentGiven
<1> DEFINE comps == [i \in DOMAIN segment.ids |-> [id |-> segment.ids[i], dc_table |-> 0]]
<1>3. comps \in Seq([id: Nat, dc_table: Nat])
  <2>1. segment.ids \in Seq(Nat)
    BY <1>2 DEF Segment
  <2>2. Len(segment.ids) \in Nat /\ DOMAIN segment.ids = 1..Len(segment.ids)
    BY <2>1, SeqElements
  <2>3. \A i \in 1..Len(segment.ids) : segment.ids[i] \in Nat
    BY <2>1, SeqElements
  <2>4. comps \in [1..Len(segment.ids) -> [id: Nat, dc_table: Nat]]
    BY <2>2, <2>3
  <2> HIDE DEF comps
  <2> QED
    BY <2>2, <2>4, SeqOf
<1>4. frame' \in [precision: Nat, width: Nat, height: Nat, components: Seq([id: Nat, dc_table: Nat])]
  BY <1>2, <1>3 DEF ParseSof3, Segment
<1>5. TypeOK'
  BY <1>1, <1>4 DEF ParseSof3, TypeOK, scanning
<1> QED
  BY <1>1, <1>5, MarkerStep DEF ParseSof3, AtSegment, scanning

LEMMA Sof3TooShortInv == IInv /\ Sof3TooShort => IInv'
<1> SUFFICES ASSUME IInv, Sof3TooShort PROVE IInv'
  OBVIOUS
<1>1. TypeOK /\ AtSegment("SOF3")
  BY DEF IInv, Sof3TooShort
<1>2. Segment(segment) /\ segment.kind = "SOF3"
  BY <1>1, SegmentGiven
<1>3. frame' \in [precision: Nat, width: Nat, height: Nat, components: Seq([id: Nat, dc_table: Nat])]
  BY <1>1, <1>2 DEF Sof3TooShort, Segment, TypeOK
<1>4. TypeOK'
  BY <1>1, <1>3 DEF Sof3TooShort, Fail, TypeOK, scanning
<1> QED
  BY <1>1, <1>4, MarkerStep DEF Sof3TooShort, Fail, AtSegment, scanning

(* Of the tables of a segment for one slot, the last one is stored.        *)
LEMMA ParseDhtInv == IInv /\ ParseDht => IInv'
<1> SUFFICES ASSUME IInv, ParseDht PROVE IInv'
  OBVIOUS
<1>1. TypeOK /\ AtSegment("DHT")
  BY DEF IInv, ParseDht
<1> DEFINE tables == segment.tables
           bad == {i \in DOMAIN tables : tables[i].slot >= Slots \/ tables[i].cut}
           stored(s) == {i \in DOMAIN tables : /\ \A b \in bad : i < b
                                               /\ tables[i].class = 0
                                               /\ tables[i].slot = s}
           last(s) == CHOOSE i \in stored(s) : \A j \in stored(s) : j <= i
<1>2. /\ Len(tables) \in Nat /\ DOMAIN tables = 1..Len(tables)
      /\ \A i \in DOMAIN tables : tables[i].table \in HuffmanTable
  <2>1. tables \in Seq([class: Nat, slot: Nat, cut: BOOLEAN, table: HuffmanTable])
    BY <1>1, SegmentGiven DEF Segment
  <2> HIDE DEF tables
  <2>2. /\ Len(tables) \in Nat /\ DOMAIN tables = 1..Len(tables)
        /\ \A i \in 1..Len(tables) :
             tables[i] \in [class: Nat, slot: Nat, cut: BOOLEAN, table: HuffmanTable]
    BY <2>1, SeqElements
  <2> QED
    BY <2>2
<1>3. ASSUME NEW s, stored(s) # {} PROVE tables[last(s)].table \in HuffmanTable
  <2>1. stored(s) \in SUBSET (0..Len(tables))
    BY <1>2
  <2>2. \E i \in stored(s) : \A j \in stored(s) : j <= i
    <3> HIDE DEF stored, tables
    <3> QED
      BY <1>2, <1>3, <2>1, GreatestNumber
  <2>3. last(s) \in stored(s)
    <3> HIDE DEF stored, tables
    <3> QED
      BY <2>2
  <2>4. last(s) \in DOMAIN tables
    <3> HIDE DEF last
    <3> QED
      BY <2>3
  <2> QED
    BY <1>2, <2>4
<1>4. huffman_dc' = [s \in DOMAIN huffman_dc |->
                      IF stored(s) = {} THEN huffman_dc[s] ELSE tables[last(s)].table]
  BY DEF ParseDht
<1> HIDE DEF last, stored, tables
<1>5. huffman_dc' \in [0..(Slots - 1) -> HuffmanTable]
  BY <1>1, <1>3, <1>4 DEF TypeOK
<1>6. next' \in Nat \ {0} /\ pc' \in {"markers", "failed"}
  BY <1>1 DEF ParseDht, TypeOK, AtSegment
<1>7. TypeOK'
  BY <1>1, <1>5, <1>6 DEF ParseDht, TypeOK, scanning
<1> QED
  BY <1>1, <1>6, <1>7, MarkerStep DEF ParseDht, AtSegment, scanning

LEMMA ParseSosInv == IInv /\ ParseSos => IInv'
<1> SUFFICES ASSUME IInv, ParseSos PROVE IInv'
  OBVIOUS
<1>1. TypeOK /\ AtSegment("SOS")
  BY DEF IInv, ParseSos
<1> DEFINE comps == frame.components
           given == segment.selectors
           names(i) == {k \in DOMAIN given : /\ given[k].id = comps[i].id
                                             /\ \A j \in 1..(i - 1) : comps[j].id # comps[i].id}
           last(i) == CHOOSE k \in names(i) : \A m \in names(i) : m <= k
           new == [i \in DOMAIN comps |->
                    IF names(i) = {} THEN comps[i]
                    ELSE [comps[i] EXCEPT !.dc_table = given[last(i)].table]]
<1>2. Segment(segment) /\ segment.kind = "SOS"
  BY <1>1, SegmentGiven
<1>3. /\ Len(given) \in Nat /\ DOMAIN given = 1..Len(given)
      /\ \A k \in DOMAIN given : given[k].table \in Nat
  <2>1. given \in Seq([id: Nat, table: Nat])
    BY <1>2 DEF Segment
  <2> HIDE DEF given
  <2>2. /\ Len(given) \in Nat /\ DOMAIN given = 1..Len(given)
        /\ \A k \in 1..Len(given) : given[k] \in [id: Nat, table: Nat]
    BY <2>1, SeqElements
  <2> QED
    BY <2>2
<1>4. comps \in Seq([id: Nat, dc_table: Nat])
  BY <1>1 DEF TypeOK
<1>5. ASSUME NEW i, names(i) # {} PROVE given[last(i)].table \in Nat
  <2>1. names(i) \in SUBSET (0..Len(given))
    BY <1>3
  <2>2. \E k \in names(i) : \A m \in names(i) : m <= k
    <3> HIDE DEF names, given
    <3> QED
      BY <1>3, <1>5, <2>1, GreatestNumber
  <2>3. last(i) \in names(i)
    <3> HIDE DEF names, given
    <3> QED
      BY <2>2
  <2>4. last(i) \in DOMAIN given
    <3> HIDE DEF last
    <3> QED
      BY <2>3
  <2> QED
    BY <1>3, <2>4
<1>6. frame' = [frame EXCEPT !.components = new]
  BY DEF ParseSos
<1> HIDE DEF last, names, given
<1>7. new \in Seq([id: Nat, dc_table: Nat])
  <2> HIDE DEF comps
  <2>1. /\ DOMAIN comps = 1..Len(comps) /\ Len(comps) \in Nat
        /\ \A i \in 1..Len(comps) : comps[i] \in [id: Nat, dc_table: Nat]
    BY <1>4, SeqElements
  <2>2. ASSUME NEW i \in DOMAIN comps PROVE new[i] \in [id: Nat, dc_table: Nat]
    <3>1. comps[i] \in [id: Nat, dc_table: Nat]
      BY <2>1
    <3> QED
      BY <1>5, <3>1
  <2>3. new \in [1..Len(comps) -> [id: Nat, dc_table: Nat]]
    BY <2>1, <2>2
  <2> HIDE DEF new
  <2> QED
    BY <2>1, <2>3, SeqOf
<1> HIDE DEF new
<1>8. frame' \in [precision: Nat, width: Nat, height: Nat, components: Seq([id: Nat, dc_table: Nat])]
  BY <1>1, <1>6, <1>7 DEF TypeOK
<1>9. stream.scan \in Seq({0, 1})
  BY <1>1, StreamAssumption DEF TypeOK
<1>10. TypeOK'
  <2>1. predictor' \in Nat /\ point_transform' \in Nat
    BY <1>2 DEF ParseSos, Segment
  <2>2. bits' \in Seq({0, 1}) /\ used' \in 0..Len(bits')
    <3>1. bits' = stream.scan /\ used' = used /\ used = 0
      BY <1>1 DEF ParseSos, IInv, ScanInv, AtSegment
    <3> QED
      BY <1>9, <3>1, SeqElements
  <2> QED
    BY <1>1, <1>8, <2>1, <2>2 DEF ParseSos, TypeOK
<1> QED
  BY <1>1, <1>10, MarkerStep DEF ParseSos, AtSegment

(* Segments that leave the frame and the tables as they are.               *)
LEMMA OtherSegmentsInv ==
  ASSUME IInv, ParseDri \/ SkipSegment \/ SosTooShort \/ MissingSoi
  PROVE  IInv'
<1>1. TypeOK /\ pc = "markers" /\ pc' \in {"markers", "failed"}
  BY DEF IInv, ParseDri, SkipSegment, SosTooShort, MissingSoi, Fail, AtSegment
<1>2. /\ UNCHANGED <<stream, frame, huffman_dc, predictor, point_transform, bits, used>>
      /\ next' \in {next, next + 1}
  BY DEF ParseDri, SkipSegment, SosTooShort, MissingSoi, Fail, scanning, header
<1>3. TypeOK'
  BY <1>1, <1>2 DEF TypeOK
<1> QED
  BY <1>1, <1>2, <1>3, MarkerStep

LEMMA NoScanInv == IInv /\ NoScan => IInv'
<1> SUFFICES ASSUME IInv, NoScan PROVE IInv'
  OBVIOUS
<1>1. TypeOK /\ pc = "markers" /\ pc' = "start" /\ bits' = stream.all /\ used' = used
  BY DEF IInv, NoScan, AtSegment
<1>2. used = 0
  BY <1>1 DEF IInv, ScanInv
<1>3. stream.all \in Seq({0, 1})
  BY <1>1, StreamAssumption DEF TypeOK
<1>4. bits' \in Seq({0, 1}) /\ used' \in 0..Len(bits')
  BY <1>1, <1>2, <1>3, SeqElements
<1>5. TypeOK'
  BY <1>1, <1>4 DEF NoScan, header, TypeOK
<1> QED
  BY <1>1, <1>5, MarkerStep

LEMMA StartScanInv == IInv /\ StartScan => IInv'
<1> SUFFICES ASSUME IInv, StartScan PROVE IInv'
  OBVIOUS
<1>1. /\ TypeOK /\ pc' = "scan" /\ UNCHANGED <<stream, frame, point_transform, bits>>
      /\ used' = 0 /\ sample' = 0
      /\ prev' = [c \in 0..3 |-> Initial] /\ col0_prev' = [c \in 0..3 |-> Initial]
      /\ output' = [p \in 0..(Width * Height - 1) |-> 0]
  BY DEF IInv, StartScan, header
<1>2. TypeOK'
  <2>1. used' \in 0..Len(bits')
    BY <1>1, SeqElements DEF TypeOK
  <2> QED
    BY <1>1, <2>1 DEF StartScan, header, TypeOK
<1>3. Largest' = Largest /\ Width' = Width /\ Height' = Height /\ SamplesToDecode' = SamplesToDecode
  BY <1>1 DEF Largest, MaxVal, Width, Height, SamplesToDecode, Blocks
<1>4. /\ Len(frame.components) \in {1, 4}
      /\ Len(frame.components) = 1 => frame.components[1].dc_table \in 0..(Slots - 1)
  <2>1. frame.components \in Seq([id: Nat, dc_table: Nat])
    BY <1>1 DEF TypeOK
  <2>2. \A i \in 1..Len(frame.components) : frame.components[i] \in [id: Nat, dc_table: Nat]
    BY <2>1, SeqElements
  <2>3. Len(frame.components) = 1 => frame.components[1] \in [id: Nat, dc_table: Nat]
    BY <2>2
  <2> QED
    BY <2>3, LjpegAssumption DEF StartScan
<1>5. /\ sample' \in 0..SamplesToDecode
      /\ prev' \in [0..3 -> Nat] /\ col0_prev' \in [0..3 -> Nat]
      /\ output' \in [0..(Width * Height - 1) -> 0..Largest]
  BY <1>1, Sizes
<1>6. ScanInv'
  BY <1>1, <1>3, <1>4, <1>5 DEF ScanInv
<1> QED
  BY <1>2, <1>6 DEF IInv

LEMMA RefuseInv ==
  ASSUME IInv, RefuseScan \/ PanicOnSlot \/ PanicOnLength
  PROVE  IInv'
<1>1. TypeOK /\ pc' \in {"failed", "panicked"} /\ UNCHANGED <<stream, header, scanning>>
  BY DEF IInv, RefuseScan, PanicOnSlot, PanicOnLength, Fail
<1>2. TypeOK'
  BY <1>1 DEF TypeOK, header, scanning
<1> QED
  BY <1>1, <1>2 DEF IInv, ScanInv

(* A sample has been decoded, with table t.                                *)
LEMMA SampleInv ==
  ASSUME IInv, pc = "scan", UNCHANGED <<stream, header, pc, bits>>,
         NEW t \in HuffmanTable, NEW clamped, NEW value \in 0..Largest,
         Decoded(Difference(t), clamped, value),
         sample < SamplesToDecode, sample' = sample + 1,
         NEW place, output' = [output EXCEPT ![place] = value],
         prev' \in [0..3 -> Nat], col0_prev' \in [0..3 -> Nat]
  PROVE  IInv'
<1>1. TypeOK /\ UNCHANGED <<stream, frame, point_transform, next, huffman_dc, predictor>>
  BY DEF IInv, header
<1>2. used' \in 0..Len(bits)
  <2> DEFINE n == Difference(t).length
  <2>1. n \in Nat
    BY DifferenceLength
  <2>2. used \in 0..Len(bits) /\ Len(bits) \in Nat
    BY <1>1, SeqElements DEF TypeOK
  <2>3. \/ used + n <= Len(bits) /\ used' = used + n
        \/ used' \in used..Len(bits)
    BY <2>2 DEF Decoded
  <2> HIDE DEF n
  <2> QED
    BY <2>1, <2>2, <2>3
<1>3. TypeOK'
  BY <1>1, <1>2 DEF TypeOK
<1>4. Largest' = Largest /\ Width' = Width /\ Height' = Height /\ SamplesToDecode' = SamplesToDecode
  BY <1>1 DEF Largest, MaxVal, Width, Height, SamplesToDecode, Blocks
<1>5. sample' \in 0..SamplesToDecode
  <2>1. SamplesToDecode \in Nat
    BY <1>1, Sizes
  <2>2. sample \in 0..SamplesToDecode
    BY DEF IInv, ScanInv
  <2> QED
    BY <2>1, <2>2
<1>6. output' \in [0..(Width * Height - 1) -> 0..Largest]
  BY DEF IInv, ScanInv
<1>7. ScanInv'
  BY <1>1, <1>4, <1>5, <1>6 DEF IInv, ScanInv
<1> QED
  BY <1>3, <1>7 DEF IInv

LEMMA FourComponentSampleInv == IInv /\ FourComponentSample => IInv'
<1> SUFFICES ASSUME IInv, FourComponentSample PROVE IInv'
  OBVIOUS
<1> DEFINE c == sample % 4
           slot == frame.components[c + 1].dc_table
           t == huffman_dc[IF slot < Slots THEN slot ELSE Slots - 1]
<1>1. /\ TypeOK /\ pc = "scan" /\ Len(frame.components) = 4 /\ sample < 4 * Blocks
      /\ sample' = sample + 1 /\ UNCHANGED <<stream, header, pc, bits>>
  BY DEF IInv, FourComponentSample
<1>2. PICK value, clamped :
        /\ value \in 0..Largest
        /\ Decoded(Difference(t), clamped, value)
        /\ prev' = [prev EXCEPT ![c] = value]
        /\ col0_prev' = [col0_prev EXCEPT ![c] = value] \/ col0_prev' = col0_prev
        /\ output' = [output EXCEPT ![Place] = value]
  BY DEF FourComponentSample
<1>3. sample \in Nat /\ prev \in [0..3 -> Nat] /\ col0_prev \in [0..3 -> Nat]
  BY <1>1, Sizes DEF IInv, ScanInv
<1>4. c + 1 \in 1..4
  BY <1>3
<1> HIDE DEF c
<1>5. t \in HuffmanTable
  <2>1. frame.components \in Seq([id: Nat, dc_table: Nat])
    BY <1>1 DEF TypeOK
  <2>2. frame.components[c + 1] \in [id: Nat, dc_table: Nat]
    BY <1>1, <1>4, <2>1, SeqElements
  <2>3. slot \in Nat
    BY <2>2
  <2> HIDE DEF slot
  <2>4. (IF slot < Slots THEN slot ELSE Slots - 1) \in 0..(Slots - 1)
    BY <2>3, LjpegAssumption
  <2> QED
    BY <1>1, <2>4 DEF TypeOK
<1> HIDE DEF t
<1>6. prev' \in [0..3 -> Nat] /\ col0_prev' \in [0..3 -> Nat]
  <2>1. value \in Nat
    BY <1>1, <1>2, Sizes
  <2> QED
    BY <1>2, <1>3, <2>1
<1>7. sample < SamplesToDecode
  BY <1>1 DEF SamplesToDecode
<1> QED
  BY <1>1, <1>2, <1>5, <1>6, <1>7, SampleInv

LEMMA OneComponentSampleInv == IInv /\ OneComponentSample => IInv'
<1> SUFFICES ASSUME IInv, OneComponentSample PROVE IInv'
  OBVIOUS
<1> DEFINE t == huffman_dc[frame.components[1].dc_table]
<1>1. /\ TypeOK /\ pc = "scan" /\ Len(frame.components) = 1 /\ sample < Width * Height
      /\ sample' = sample + 1 /\ UNCHANGED <<stream, header, pc, bits, prev, col0_prev>>
  BY DEF IInv, OneComponentSample
<1>2. PICK value, clamped :
        /\ value \in 0..Largest
        /\ Decoded(Difference(t), clamped, value)
        /\ output' = [output EXCEPT ![sample] = value]
  BY DEF OneComponentSample
<1>3. /\ frame.components[1].dc_table \in 0..(Slots - 1)
      /\ prev \in [0..3 -> Nat] /\ col0_prev \in [0..3 -> Nat]
  BY <1>1 DEF IInv, ScanInv
<1>4. t \in HuffmanTable
  BY <1>1, <1>3 DEF TypeOK
<1> HIDE DEF t
<1>5. sample < SamplesToDecode /\ prev' \in [0..3 -> Nat] /\ col0_prev' \in [0..3 -> Nat]
  BY <1>1, <1>3 DEF SamplesToDecode
<1> QED
  BY <1>1, <1>2, <1>4, <1>5, SampleInv

LEMMA FinishScanInv == IInv /\ FinishScan => IInv'
<1> SUFFICES ASSUME IInv, FinishScan PROVE IInv'
  OBVIOUS
<1>1. /\ TypeOK /\ pc = "scan" /\ pc' = "done"
      /\ UNCHANGED <<stream, header, bits, used, sample, prev, col0_prev>>
      /\ output' = [p \in DOMAIN output |->
                     (output[p] * Pow2[point_transform]) % Pow2[SampleWidth]]
  BY DEF IInv, FinishScan
<1>2. TypeOK'
  BY <1>1 DEF TypeOK, header
<1>3. Width' = Width /\ Height' = Height
  BY <1>1 DEF Width, Height, header
<1> DEFINE places == 0..(Width * Height - 1)
           a == Pow2[point_transform]
           m == Pow2[SampleWidth]
<1>4. output \in [places -> 0..Largest]
  BY <1>1 DEF IInv, ScanInv
<1>5. a \in Nat \ {0} /\ m \in Nat \ {0} /\ Largest \in Nat
  BY <1>1, PowDoubles, Sizes, LjpegAssumption DEF TypeOK
<1>6. output' = [p \in places |-> (output[p] * a) % m]
  BY <1>1, <1>4
<1> HIDE DEF places, a, m
<1>7. ASSUME NEW p \in places PROVE (output[p] * a) % m \in 0..(m - 1)
  <2>1. output[p] \in Nat
    BY <1>4, <1>5
  <2>2. output[p] * a \in Nat
    BY <1>5, <2>1
  <2> QED
    BY <1>5, <2>2, Divide
<1>8. output' \in [places -> 0..(m - 1)]
  BY <1>6, <1>7
<1>9. ScanInv'
  BY <1>1, <1>3, <1>8 DEF ScanInv, places, m
<1> QED
  BY <1>2, <1>9 DEF IInv

LEMMA NextIInv == IInv /\ [Next]_vars => IInv'
<1> SUFFICES ASSUME IInv, [Next]_vars PROVE IInv'
  OBVIOUS
<1>1. CASE Next
  BY <1>1, ParseSof3Inv, Sof3TooShortInv, ParseDhtInv, OtherSegmentsInv, ParseSosInv,
     NoScanInv, StartScanInv, RefuseInv, FourComponentSampleInv, OneComponentSampleInv,
     FinishScanInv DEF Next
<1>2. CASE UNCHANGED vars
  <2>1. UNCHANGED <<stream, next, frame, huffman_dc, predictor, point_transform, pc,
                    bits, used, sample, prev, col0_prev, output>>
    BY <1>2 DEF vars, header, scanning
  <2>2. TypeOK'
    BY <2>1 DEF IInv, TypeOK
  <2>3. Largest' = Largest /\ Width' = Width /\ Height' = Height /\ SamplesToDecode' = SamplesToDecode
    BY <2>1 DEF Largest, MaxVal, Width, Height, SamplesToDecode, Blocks
  <2>4. ScanInv'
    BY <2>1, <2>3 DEF IInv, ScanInv
  <2> QED
    BY <2>2, <2>4 DEF IInv
<1> QED
  BY <1>1, <1>2

-----------------------------------------------------------------------------
(* Places in the image                                                     *)

LEMMA PlaceInside ==
  ASSUME NEW W \in Nat, NEW H \in Nat, NEW s \in Nat, s < 4 * ((W \div 2) * (H \div 2))
  PROVE  (((s \div 4) \div (W \div 2)) * 2 + (s % 4) \div 2) * W
           + (((s \div 4) % (W \div 2)) * 2) + ((s % 4) % 2) \in 0..(W * H - 1)
<1> DEFINE w == W \div 2
           h == H \div 2
           b == s \div 4
           c == s % 4
           y == b \div w
           x == b % w
<1>1. w \in Nat /\ h \in Nat /\ 2 * w <= W /\ 2 * h <= H
      /\ b \in Nat /\ c \in 0..3 /\ 4 * b <= s
  OBVIOUS
<1>2. s < 4 * (w * h)
  OBVIOUS
<1> HIDE DEF w, h, b
<1>3. w * h \in Nat /\ b < w * h
  BY <1>1, <1>2
<1>4. w # 0
  BY <1>1, <1>3
<1>5. y \in Nat /\ x \in 0..(w - 1) /\ b = y * w + x
  BY <1>1, <1>4, Divide
<1> HIDE DEF x, y
<1>6. y < h
  <2> SUFFICES ASSUME h <= y PROVE FALSE
    BY <1>1, <1>5
  <2>1. h * w <= y * w /\ h * w = w * h
    BY <1>1, <1>5
  <2> QED
    BY <1>1, <1>3, <1>5, <2>1
<1> DEFINE row == y * 2 + c \div 2
           col == x * 2 + (c % 2)
<1>7. c \div 2 \in 0..1 /\ c % 2 \in 0..1
  BY <1>1
<1> HIDE DEF c
<1>8. row \in 0..(H - 1) /\ col \in 0..(W - 1)
  BY <1>1, <1>5, <1>6, <1>7
<1>9. row * W + (x * 2) + (c % 2) = row * W + col
  <2>1. row * W \in Nat
    BY <1>8
  <2> HIDE DEF row
  <2> QED
    BY <1>5, <1>7, <2>1
<1> HIDE DEF row, col
<1>10. row * W + col \in 0..(W * H - 1)
  <2>1. row * W <= (H - 1) * W /\ (H - 1) * W = W * H - W /\ row * W \in Nat
    BY <1>8
  <2> QED
    BY <1>8, <2>1
<1> QED
  BY <1>9, <1>10 DEF row, x, y, b, c, w

LEMMA NeighboursInside ==
  ASSUME NEW W \in Nat, NEW H \in Nat, NEW s \in Nat, s < W * H
  PROVE  /\ s \in 0..(W * H - 1)
         /\ s % W > 0 => s - 1 \in 0..(W * H - 1)
         /\ s \div W > 0 => s - W \in 0..(W * H - 1)
         /\ s % W > 0 /\ s \div W > 0 => s - W - 1 \in 0..(W * H - 1)
<1> DEFINE q == s \div W
           r == s % W
<1>1. W # 0 /\ W * H \in Nat
  OBVIOUS
<1>2. q \in Nat /\ r \in 0..(W - 1) /\ s = q * W + r
  BY <1>1, Divide
<1> HIDE DEF q, r
<1>3. q > 0 => q * W >= W
  BY <1>2
<1>4. q * W \in Nat
  BY <1>2
<1>5. (r > 0 => s - 1 >= 0) /\ (q > 0 => s - W >= 0) /\ (r > 0 /\ q > 0 => s - W - 1 >= 0)
  BY <1>2, <1>3, <1>4
<1> QED
  BY <1>1, <1>5 DEF q, r

-----------------------------------------------------------------------------
(* Bits as numbers                                                         *)

LEMMA SameSteps ==
  ASSUME NEW n \in Nat, NEW f, NEW g, f[0] = g[0],
         \A j \in 1..n : f[j - 1] = g[j - 1] => f[j] = g[j]
  PROVE  f[n] = g[n]
<1> DEFINE Same == {j \in 0..n : f[j] = g[j]}
<1>1. 0 \in Same
  OBVIOUS
<1>2. ASSUME NEW j \in 0..(n - 1), j \in Same PROVE j + 1 \in Same
  <2>1. j + 1 \in 1..n /\ (j + 1) - 1 = j /\ j + 1 \in 0..n
    OBVIOUS
  <2>2. f[j] = g[j]
    BY <1>2
  <2>3. f[j + 1] = g[j + 1]
    BY <2>1, <2>2
  <2> QED
    BY <2>1, <2>3
<1> HIDE DEF Same
<1>3. \A j \in 0..n : j \in Same
  BY <1>1, <1>2, InductUpTo
<1>4. n \in Same
  BY <1>3
<1> QED
  BY <1>4 DEF Same

LEMMA Quotient0 ==
  ASSUME NEW v \in Nat, NEW a \in Nat, v < a
  PROVE  v \div a = 0
OBVIOUS

(* Bit k from bit i on.                                                    *)
BitAt(i, k) == IF i + k <= Len(bits) THEN bits[i + k] ELSE 0

LEMMA BitsAtUnfolds ==
  ASSUME bits \in Seq({0, 1}), NEW i \in Nat
  PROVE  /\ BitsAt(i, 0) = 0
         /\ \A n \in Nat : /\ BitsAt(i, n) \in Nat
                           /\ BitsAt(i, n + 1) = BitsAt(i, n) * 2 + BitAt(i, n + 1)
<1>1. Len(bits) \in Nat /\ \A k \in 1..Len(bits) : bits[k] \in {0, 1}
  BY SeqElements
<1>2. \A k \in Nat \ {0} : BitAt(i, k) \in Nat
  BY <1>1 DEF BitAt
<1>3. PICK step \in [Nat -> [Nat -> Nat]] :
        \A n \in Nat, v \in Nat : step[n][v] = v * 2 + BitAt(i, n + 1)
  <2> DEFINE steps == [n \in Nat |-> [v \in Nat |-> v * 2 + BitAt(i, n + 1)]]
  <2>1. ASSUME NEW n \in Nat, NEW v \in Nat PROVE v * 2 + BitAt(i, n + 1) \in Nat
    <3>1. BitAt(i, n + 1) \in Nat
      BY <1>2
    <3> QED
      BY <3>1
  <2>2. steps \in [Nat -> [Nat -> Nat]]
    BY <2>1
  <2>3. \A n \in Nat, v \in Nat : steps[n][v] = v * 2 + BitAt(i, n + 1)
    OBVIOUS
  <2> QED
    BY <2>2, <2>3
<1>4. PICK g : Recurs(g, Nat, 0, step)
  BY <1>3, Recursion
<1>5. g \in [Nat -> Nat] /\ g[0] = 0 /\ \A n \in Nat : g[n + 1] = g[n] * 2 + BitAt(i, n + 1)
  BY <1>3, <1>4 DEF Recurs
<1>6. ASSUME NEW n \in Nat PROVE BitsAt(i, n) = g[n]
  <2> DEFINE f == CHOOSE f : f = [k \in 0..n |-> IF k = 0 THEN 0 ELSE f[k - 1] * 2 + BitAt(i, k)]
             h == [k \in 0..n |-> g[k]]
  <2>1. BitsAt(i, n) = f[n]
    BY DEF BitsAt, BitAt
  <2>2. ASSUME NEW k \in 0..n PROVE h[k] = IF k = 0 THEN 0 ELSE h[k - 1] * 2 + BitAt(i, k)
    <3>1. CASE k # 0
      <4>1. k - 1 \in Nat /\ k - 1 \in 0..n /\ (k - 1) + 1 = k
        BY <3>1
      <4>2. g[(k - 1) + 1] = g[k - 1] * 2 + BitAt(i, (k - 1) + 1)
        BY <1>5, <4>1
      <4> QED
        BY <3>1, <4>1, <4>2
    <3> QED
      BY <1>5, <3>1
  <2>3. h = [k \in 0..n |-> IF k = 0 THEN 0 ELSE h[k - 1] * 2 + BitAt(i, k)]
    BY <2>2
  <2> HIDE DEF h
  <2>4. f = [k \in 0..n |-> IF k = 0 THEN 0 ELSE f[k - 1] * 2 + BitAt(i, k)]
    BY <2>3
  <2> HIDE DEF f
  <2>5. f[0] = g[0]
    BY <1>5, <2>4
  <2>6. ASSUME NEW k \in 1..n, f[k - 1] = g[k - 1] PROVE f[k] = g[k]
    <3>1. k - 1 \in Nat /\ (k - 1) + 1 = k /\ k \in 0..n /\ k # 0
      OBVIOUS
    <3>2. g[(k - 1) + 1] = g[k - 1] * 2 + BitAt(i, (k - 1) + 1)
      BY <1>5, <3>1
    <3>3. f[k] = f[k - 1] * 2 + BitAt(i, k)
      BY <2>4, <3>1
    <3> QED
      BY <2>6, <3>1, <3>2, <3>3
  <2>7. f[n] = g[n]
    BY <2>5, <2>6, SameSteps
  <2> QED
    BY <2>1, <2>7
<1>7. BitsAt(i, 0) = 0
  <2>1. 0 \in Nat
    OBVIOUS
  <2> QED
    BY <1>5, <1>6, <2>1
<1>8. ASSUME NEW n \in Nat
      PROVE  BitsAt(i, n) \in Nat /\ BitsAt(i, n + 1) = BitsAt(i, n) * 2 + BitAt(i, n + 1)
  <2>1. n + 1 \in Nat
    OBVIOUS
  <2>2. BitsAt(i, n) = g[n] /\ BitsAt(i, n + 1) = g[n + 1]
    BY <1>6, <2>1
  <2>3. g[n] \in Nat /\ g[n + 1] = g[n] * 2 + BitAt(i, n + 1)
    BY <1>5
  <2> QED
    BY <2>2, <2>3
<1> QED
  BY <1>7, <1>8

(* The first k bits of a number of them.                                   *)
LEMMA BitsAtBeginning ==
  ASSUME bits \in Seq({0, 1}), NEW i \in Nat, NEW k \in Nat, NEW n \in Nat, k <= n
  PROVE  BitsAt(i, n) \div Pow2[n - k] = BitsAt(i, k)
<1> DEFINE S == {m \in Nat : BitsAt(i, k + m) \div Pow2[m] = BitsAt(i, k)}
<1>1. BitsAt(i, k) \in Nat
  BY BitsAtUnfolds
<1>2. 0 \in S
  <2> DEFINE v == BitsAt(i, k)
  <2> HIDE DEF v
  <2>1. v \div 1 = v /\ k + 0 = k
    BY <1>1 DEF v
  <2>2. Pow2[0] = 1
    BY PowDoubles
  <2>3. BitsAt(i, k + 0) \div Pow2[0] = BitsAt(i, k)
    BY <2>1, <2>2 DEF v
  <2> QED
    BY <2>3
<1>3. ASSUME NEW m \in Nat, m \in S PROVE m + 1 \in S
  <2>1. k + m \in Nat /\ (k + m) + 1 = k + (m + 1)
    OBVIOUS
  <2> DEFINE v == BitsAt(i, k + m)
             b == BitAt(i, (k + m) + 1)
             a == Pow2[m]
  <2>2. v \in Nat /\ BitsAt(i, (k + m) + 1) = v * 2 + b
    BY <2>1, BitsAtUnfolds
  <2>3. b \in {0, 1}
    <3>1. Len(bits) \in Nat /\ \A j \in 1..Len(bits) : bits[j] \in {0, 1}
      BY SeqElements
    <3> QED
      BY <2>1, <3>1 DEF BitAt
  <2>4. a \in Nat \ {0} /\ Pow2[m + 1] = 2 * a
    BY PowDoubles
  <2>5. v \div a = BitsAt(i, k)
    BY <1>3
  <2> HIDE DEF v, b, a
  <2>6. (v * 2 + b) \div 2 = v /\ v * 2 + b \in Nat
    BY <2>2, <2>3
  <2>7. (v * 2 + b) \div (2 * a) = ((v * 2 + b) \div 2) \div a
    BY <2>4, <2>6, DivideParts
  <2>8. BitsAt(i, k + (m + 1)) \div Pow2[m + 1] = BitsAt(i, k)
    BY <2>1, <2>2, <2>4, <2>5, <2>6, <2>7
  <2> QED
    BY <2>8
<1> HIDE DEF S
<1>4. \A m \in Nat : m \in S
  BY <1>2, <1>3, Induct
<1>5. n - k \in Nat /\ k + (n - k) = n
  OBVIOUS
<1> QED
  BY <1>4, <1>5 DEF S

(* Bits written by BitString are read as the number written.               *)
LEMMA NumberRead ==
  ASSUME bits \in Seq({0, 1}), NEW i \in Nat, NEW n \in Nat, NEW v \in Nat, v < Pow2[n],
         \A k \in 1..n : BitAt(i, k) = BitString(v, n)[k]
  PROVE  BitsAt(i, n) = v
<1> DEFINE S == {k \in 0..n : BitsAt(i, k) = v \div Pow2[n - k]}
<1>1. Pow2[n] \in Nat \ {0} /\ v \div Pow2[n] = 0
  <2>1. Pow2[n] \in Nat \ {0}
    BY PowDoubles
  <2> DEFINE a == Pow2[n]
  <2> HIDE DEF a
  <2>2. a \in Nat \ {0} /\ v < a
    BY <2>1 DEF a
  <2>3. v \div a = 0
    BY <2>2, Quotient0
  <2> QED
    BY <2>1, <2>3 DEF a
<1>2. 0 \in S
  BY <1>1, BitsAtUnfolds
<1>3. ASSUME NEW k \in 0..(n - 1), k \in S PROVE k + 1 \in S
  <2>1. k + 1 \in 1..n /\ n - (k + 1) \in Nat /\ (n - (k + 1)) + 1 = n - k /\ k \in Nat
    OBVIOUS
  <2> DEFINE a == Pow2[n - (k + 1)]
             q == v \div a
  <2>2. a \in Nat \ {0} /\ Pow2[n - k] = 2 * a
    BY <2>1, PowDoubles
  <2>3. BitsAt(i, k + 1) = BitsAt(i, k) * 2 + BitAt(i, k + 1)
    BY <2>1, BitsAtUnfolds
  <2>4. BitAt(i, k + 1) = q % 2
    BY <2>1 DEF BitString
  <2>5. BitsAt(i, k) = v \div (2 * a)
    BY <1>3, <2>2
  <2> HIDE DEF a
  <2>6. v \div (2 * a) = q \div 2
    <3>1. 2 \in Nat \ {0} /\ a * 2 = 2 * a
      BY <2>2
    <3>2. v \div (a * 2) = (v \div a) \div 2
      BY <2>2, <3>1, DivideParts
    <3> QED
      BY <3>1, <3>2
  <2>7. q \in Nat
    BY <2>2, Divide
  <2> HIDE DEF q
  <2>8. (q \div 2) * 2 + (q % 2) = q
    BY <2>7
  <2>9. BitsAt(i, k + 1) = q
    BY <2>3, <2>4, <2>5, <2>6, <2>8
  <2> QED
    BY <2>1, <2>9 DEF q, a
<1> HIDE DEF S
<1>4. n \in S
  <2>1. \A k \in 0..n : k \in S
    BY <1>2, <1>3, InductUpTo
  <2> QED
    BY <2>1
<1>5. BitsAt(i, n) = v \div Pow2[n - n]
  BY <1>4 DEF S
<1>6. n - n = 0 /\ Pow2[0] = 1 /\ v \div 1 = v
  BY PowDoubles
<1> QED
  BY <1>5, <1>6

-----------------------------------------------------------------------------
(* The codes of a table                                                    *)

LEMMA ShorterGrows ==
  ASSUME NEW table \in HuffmanTable, NEW a \in 1..(MaxLen + 1), NEW b \in 1..(MaxLen + 1), a <= b
  PROVE  Shorter(table)[a] <= Shorter(table)[b]
<1> DEFINE j == Shorter(table)
           S == {i \in Nat : a + i <= MaxLen + 1 => j[a] <= j[a + i]}
<1>1. MaxLen \in Nat /\ a \in Nat /\ b \in Nat
  BY LjpegAssumption
<1>2. /\ \A l \in 1..(MaxLen + 1) : j[l] \in Nat
      /\ \A l \in 1..MaxLen : j[l + 1] = j[l] + table.bits[l] /\ table.bits[l] \in Nat
  BY ShorterUnfolds DEF HuffmanTable
<1> HIDE DEF j
<1>3. 0 \in S
  BY <1>1, <1>2
<1>4. ASSUME NEW i \in Nat, i \in S PROVE i + 1 \in S
  <2> SUFFICES ASSUME a + (i + 1) <= MaxLen + 1 PROVE j[a] <= j[a + (i + 1)]
    OBVIOUS
  <2>1. a + i \in 1..MaxLen /\ a + (i + 1) = (a + i) + 1 /\ a + i \in 1..(MaxLen + 1)
    BY <1>1
  <2>2. j[a] <= j[a + i]
    BY <1>1, <1>4, <2>1
  <2> QED
    BY <1>2, <2>1, <2>2
<1> HIDE DEF S
<1>5. \A i \in Nat : i \in S
  BY <1>3, <1>4, Induct
<1>6. b - a \in Nat /\ a + (b - a) = b /\ b <= MaxLen + 1
  BY <1>1
<1> QED
  BY <1>5, <1>6 DEF S, j

(* Between two lengths in use the code is only lengthened.                 *)
LEMMA CodeLengthened ==
  ASSUME NEW table \in HuffmanTable, NEW a \in 1..MaxLen, NEW b \in (a + 1)..MaxLen,
         Shorter(table)[b] = Shorter(table)[a + 1]
  PROVE  FirstCode(table)[b] = (FirstCode(table)[a] + table.bits[a]) * Pow2[b - a]
<1> DEFINE j == Shorter(table)
           f == FirstCode(table)
           e == f[a] + table.bits[a]
           S == {i \in Nat : a + 1 + i <= b => f[a + 1 + i] = e * Pow2[i + 1]}
<1>1. MaxLen \in Nat /\ a \in Nat /\ b \in Nat /\ a + 1 <= b /\ b <= MaxLen
  BY LjpegAssumption
<1>2. /\ \A l \in 1..(MaxLen + 1) : j[l] \in Nat /\ f[l] \in Nat
      /\ \A l \in 1..MaxLen : /\ j[l + 1] = j[l] + table.bits[l] /\ table.bits[l] \in Nat
                              /\ f[l + 1] = (f[l] + table.bits[l]) * 2
  BY ShorterUnfolds, FirstCodeUnfolds DEF HuffmanTable
<1>3. e \in Nat /\ f[a + 1] = e * 2
  <2>1. a \in 1..MaxLen /\ a \in 1..(MaxLen + 1)
    BY <1>1
  <2> HIDE DEF f
  <2> QED
    BY <1>2, <2>1
<1>4. Pow2[1] = 2
  <2>1. 0 + 1 = 1 /\ Pow2[0 + 1] = 2 * Pow2[0]
    BY PowDoubles
  <2> QED
    BY <2>1, PowDoubles
<1>5. 0 \in S
  BY <1>3, <1>4
<1>6. ASSUME NEW i \in Nat, i \in S PROVE i + 1 \in S
  <2> SUFFICES ASSUME a + 1 + (i + 1) <= b PROVE f[a + 1 + (i + 1)] = e * Pow2[(i + 1) + 1]
    OBVIOUS
  <2> DEFINE l == a + 1 + i
             p == Pow2[i + 1]
  <2>1. /\ l \in 1..MaxLen /\ a + 1 + (i + 1) = l + 1 /\ l + 1 <= b /\ a + 1 <= l
        /\ l \in 1..(MaxLen + 1) /\ l + 1 \in 1..(MaxLen + 1) /\ a + 1 \in 1..(MaxLen + 1)
        /\ b \in 1..(MaxLen + 1)
    BY <1>1
  <2>2. f[l] = e * p /\ p \in Nat /\ Pow2[(i + 1) + 1] = 2 * p
    BY <1>1, <1>6, <2>1, PowDoubles
  <2> HIDE DEF l
  <2>3. j[a + 1] <= j[l] /\ j[l + 1] <= j[b]
    BY <2>1, ShorterGrows
  <2>4. table.bits[l] = 0
    <3>1. j[l + 1] = j[l] + table.bits[l] /\ j[l] \in Nat /\ table.bits[l] \in Nat /\ j[a + 1] \in Nat
      BY <1>2, <2>1
    <3>2. j[b] = j[a + 1]
      OBVIOUS
    <3> HIDE DEF j
    <3> QED
      BY <2>3, <3>1, <3>2
  <2>5. f[l + 1] = f[l] * 2 /\ f[l] \in Nat
    BY <1>2, <2>1, <2>4
  <2> HIDE DEF e, p, f
  <2>6. (e * p) * 2 = e * (2 * p)
    BY <1>3, <2>2
  <2> QED
    BY <2>1, <2>2, <2>5, <2>6
<1> HIDE DEF S
<1>7. \A i \in Nat : i \in S
  BY <1>5, <1>6, Induct
<1>8. b - a - 1 \in Nat /\ (b - a - 1) + 1 = b - a /\ a + 1 + (b - a - 1) = b /\ b <= b
  BY <1>1
<1>9. b - a - 1 \in S
  BY <1>7, <1>8
<1>10. f[b] = e * Pow2[b - a]
  <2> HIDE DEF f, e
  <2> QED
    BY <1>8, <1>9 DEF S
<1> QED
  BY <1>10

LEMMA Joined ==
  ASSUME NEW S, NEW s \in Seq(S), NEW t \in Seq(S)
  PROVE  /\ s \o t \in Seq(S) /\ Len(s \o t) = Len(s) + Len(t)
         /\ \A i \in 1..Len(s) : (s \o t)[i] = s[i]
         /\ \A i \in 1..Len(t) : (s \o t)[Len(s) + i] = t[i]
OBVIOUS

(* The recursive definition of HuffSize may be unfolded.                   *)
LEMMA HuffSizeUnfolds ==
  ASSUME NEW table \in HuffmanTable
  PROVE  \E g : /\ HuffSize(table) = g[MaxLen]
                /\ g[0] = <<>>
                /\ \A k \in 0..(MaxLen - 1) :
                     g[k + 1] = g[k] \o [i \in 1..table.bits[k + 1] |-> k + 1]
                /\ g \in [0..MaxLen -> Seq(1..MaxLen)]
<1> DEFINE V == Seq(1..MaxLen)
           ofLength(k) == [i \in 1..table.bits[k + 1] |-> k + 1]
<1>1. /\ MaxLen \in Nat \ {0} /\ table.bits \in [1..MaxLen -> Nat]
      /\ \A l \in 1..MaxLen : table.bits[l] \in Nat
  BY LjpegAssumption DEF HuffmanTable
<1>2. ASSUME NEW k \in 0..(MaxLen - 1) PROVE ofLength(k) \in V
  <2>1. k + 1 \in 1..MaxLen
    BY <1>1
  <2>2. table.bits[k + 1] \in Nat
    BY <1>1, <2>1
  <2>3. ofLength(k) \in [1..table.bits[k + 1] -> 1..MaxLen]
    BY <2>1
  <2> QED
    BY <2>2, <2>3, SeqOf
<1>3. PICK step \in [0..(MaxLen - 1) -> [V -> V]] :
        \A k \in 0..(MaxLen - 1), v \in V : step[k][v] = v \o ofLength(k)
  <2> DEFINE steps == [k \in 0..(MaxLen - 1) |-> [v \in V |-> v \o ofLength(k)]]
  <2> HIDE DEF ofLength
  <2>1. \A k \in 0..(MaxLen - 1), v \in V : v \o ofLength(k) \in V
    <3> SUFFICES ASSUME NEW k \in 0..(MaxLen - 1), NEW v \in V PROVE v \o ofLength(k) \in V
      OBVIOUS
    <3>1. ofLength(k) \in V
      BY <1>2
    <3> QED
      BY <3>1, Joined
  <2> HIDE DEF V
  <2>2. steps \in [0..(MaxLen - 1) -> [V -> V]]
    BY <2>1
  <2>3. \A k \in 0..(MaxLen - 1), v \in V : steps[k][v] = v \o ofLength(k)
    OBVIOUS
  <2> QED
    BY <2>2, <2>3
<1>4. <<>> \in V
  OBVIOUS
<1> HIDE DEF V, ofLength
<1>5. PICK g : RecursUpTo(g, MaxLen, V, <<>>, step)
  BY <1>1, <1>3, <1>4, RecursionUpTo
<1>6. /\ g \in [0..MaxLen -> V] /\ g[0] = <<>>
      /\ \A k \in 0..(MaxLen - 1) : g[k + 1] = g[k] \o ofLength(k)
  <2>1. g \in [0..MaxLen -> V] /\ g[0] = <<>>
    BY <1>5 DEF RecursUpTo
  <2>2. ASSUME NEW k \in 0..(MaxLen - 1) PROVE g[k + 1] = g[k] \o ofLength(k)
    <3>1. k \in 0..MaxLen
      BY <1>1
    <3>2. g[k] \in V /\ g[k + 1] = step[k][g[k]]
      BY <1>5, <3>1 DEF RecursUpTo
    <3> QED
      BY <1>3, <3>2
  <2> QED
    BY <2>1, <2>2
<1> DEFINE f == CHOOSE f : f = [l \in 0..Len(table.bits) |->
                  IF l = 0 THEN <<>> ELSE f[l - 1] \o [i \in 1..table.bits[l] |-> l]]
<1>7. HuffSize(table) = f[Len(table.bits)] /\ Len(table.bits) = MaxLen
  <2>1. HuffSize(table) = f[Len(table.bits)]
    BY DEF HuffSize
  <2>2. Len(table.bits) = MaxLen
    BY <1>1
  <2> QED
    BY <2>1, <2>2
<1>8. ASSUME NEW l \in 0..MaxLen
      PROVE  g[l] = IF l = 0 THEN <<>> ELSE g[l - 1] \o [i \in 1..table.bits[l] |-> l]
  <2>1. CASE l # 0
    <3>1. l - 1 \in 0..(MaxLen - 1) /\ (l - 1) + 1 = l
      BY <1>1, <2>1
    <3>2. g[(l - 1) + 1] = g[l - 1] \o ofLength(l - 1)
      BY <1>6, <3>1
    <3>3. ofLength(l - 1) = [i \in 1..table.bits[l] |-> l]
      BY <3>1 DEF ofLength
    <3> QED
      BY <2>1, <3>1, <3>2, <3>3
  <2> QED
    BY <1>6, <2>1
<1>9. g = [l \in 0..MaxLen |-> IF l = 0 THEN <<>> ELSE g[l - 1] \o [i \in 1..table.bits[l] |-> l]]
  BY <1>6, <1>8
<1>10. f = [l \in 0..MaxLen |-> IF l = 0 THEN <<>> ELSE f[l - 1] \o [i \in 1..table.bits[l] |-> l]]
  BY <1>7, <1>9
<1> HIDE DEF f
<1>11. f[0] = g[0]
  <2>1. 0 \in 0..MaxLen
    BY <1>1
  <2>2. f[0] = <<>>
    BY <1>10, <2>1
  <2> QED
    BY <1>6, <2>2
<1>12. ASSUME NEW l \in 1..MaxLen, f[l - 1] = g[l - 1] PROVE f[l] = g[l]
  <2>1. l \in 0..MaxLen /\ l # 0
    BY <1>1
  <2>2. f[l] = f[l - 1] \o [i \in 1..table.bits[l] |-> l]
    BY <1>10, <2>1
  <2>3. g[l] = g[l - 1] \o [i \in 1..table.bits[l] |-> l]
    BY <1>8, <2>1
  <2> QED
    BY <1>12, <2>2, <2>3
<1>13. f[MaxLen] = g[MaxLen]
  BY <1>1, <1>11, <1>12, SameSteps
<1> QED
  BY <1>6, <1>7, <1>13 DEF V, ofLength

(* HUFFSIZE counts the codes as the decoder's `j` does.                    *)
LEMMA HuffSizeIs ==
  ASSUME NEW table \in HuffmanTable
  PROVE  /\ Len(HuffSize(table)) = Shorter(table)[MaxLen + 1]
         /\ HuffSize(table) \in Seq(1..MaxLen)
         /\ \A i \in 1..Len(HuffSize(table)) :
              /\ Shorter(table)[HuffSize(table)[i]] < i
              /\ i <= Shorter(table)[HuffSize(table)[i] + 1]
<1> DEFINE j == Shorter(table)
<1>1. MaxLen \in Nat \ {0}
  BY LjpegAssumption
<1>2. /\ j[1] = 0
      /\ \A l \in 1..(MaxLen + 1) : j[l] \in Nat
      /\ \A l \in 1..MaxLen : j[l + 1] = j[l] + table.bits[l] /\ table.bits[l] \in Nat
  BY ShorterUnfolds DEF HuffmanTable
<1>3. PICK g : /\ HuffSize(table) = g[MaxLen]
               /\ g[0] = <<>>
               /\ \A k \in 0..(MaxLen - 1) :
                    g[k + 1] = g[k] \o [i \in 1..table.bits[k + 1] |-> k + 1]
               /\ g \in [0..MaxLen -> Seq(1..MaxLen)]
  BY HuffSizeUnfolds
<1> HIDE DEF j
<1> DEFINE Counts(s) == \A i \in 1..Len(s) : j[s[i]] < i /\ i <= j[s[i] + 1]
           S == {k \in 0..MaxLen : Len(g[k]) = j[k + 1] /\ Counts(g[k])}
<1>4. 0 \in S
  <2>1. 0 \in 0..MaxLen /\ 0 + 1 = 1
    BY <1>1
  <2> QED
    BY <1>2, <1>3, <2>1
<1>5. ASSUME NEW k \in 0..(MaxLen - 1), k \in S PROVE k + 1 \in S
  <2> DEFINE s == g[k]
             l == k + 1
             n == table.bits[l]
             t == [i \in 1..n |-> l]
  <2>1. l \in 1..MaxLen /\ l \in 1..(MaxLen + 1) /\ l \in 0..MaxLen /\ k \in 0..MaxLen
    BY <1>1
  <2>2. n \in Nat /\ j[l + 1] = j[l] + n /\ j[l] \in Nat
    BY <1>2, <2>1
  <2>3. s \in Seq(1..MaxLen)
    BY <1>3, <2>1
  <2>4. t \in Seq(1..MaxLen) /\ Len(t) = n /\ \A i \in 1..n : t[i] = l
    <3>1. t \in [1..n -> 1..MaxLen]
      BY <2>1
    <3>2. t \in Seq(1..MaxLen)
      BY <2>2, <3>1, SeqOf
    <3> QED
      BY <2>2, <3>2
  <2>5. g[l] = s \o t
    BY <1>3
  <2>6. Len(s) = j[l] /\ Counts(s)
    BY <1>5
  <2> HIDE DEF s, n, t, Counts
  <2>7. /\ Len(s \o t) = Len(s) + n
        /\ \A i \in 1..Len(s) : (s \o t)[i] = s[i]
        /\ \A i \in 1..Len(t) : (s \o t)[Len(s) + i] = t[i]
    <3>1. s \in Seq(1..MaxLen) /\ t \in Seq(1..MaxLen)
      BY <2>3, <2>4
    <3>2. Len(t) = n
      BY <2>4
    <3> HIDE DEF t
    <3>3. /\ Len(s \o t) = Len(s) + Len(t)
          /\ \A i \in 1..Len(s) : (s \o t)[i] = s[i]
          /\ \A i \in 1..Len(t) : (s \o t)[Len(s) + i] = t[i]
      BY ONLY <3>1, Joined
    <3> QED
      BY <3>2, <3>3
  <2> DEFINE r == s \o t
  <2> HIDE DEF r, l
  <2>8. Len(r) = j[l + 1] /\ Len(r) = j[l] + n
    BY <2>2, <2>6, <2>7 DEF r
  <2>9. ASSUME NEW i \in 1..Len(r) PROVE j[r[i]] < i /\ i <= j[r[i] + 1]
    <3>1. CASE i <= j[l]
      <4>1. i \in 1..Len(s)
        BY <2>2, <2>6, <3>1
      <4>2. r[i] = s[i]
        BY <2>7, <4>1 DEF r
      <4> QED
        BY <2>6, <4>1, <4>2 DEF Counts
    <3>2. CASE i > j[l]
      <4> DEFINE m == i - j[l]
      <4>1. m \in 1..n /\ j[l] + m = i
        BY <2>2, <2>8, <3>2
      <4> HIDE DEF m
      <4>2. r[i] = l
        BY <2>4, <2>6, <2>7, <4>1 DEF r
      <4> QED
        BY <2>2, <2>8, <3>2, <4>2
    <3> QED
      BY <2>2, <3>1, <3>2
  <2>10. Counts(r)
    BY <2>9 DEF Counts
  <2> QED
    BY <2>1, <2>5, <2>8, <2>10 DEF l, r
<1> HIDE DEF S
<1>6. MaxLen \in S
  <2>1. \A k \in 0..MaxLen : k \in S
    BY <1>1, <1>4, <1>5, InductUpTo
  <2> QED
    BY <1>1, <2>1
<1>7. HuffSize(table) \in Seq(1..MaxLen)
  <2>1. MaxLen \in 0..MaxLen
    BY <1>1
  <2> QED
    BY <1>3, <2>1
<1> QED
  BY <1>3, <1>6, <1>7 DEF S, j

LEMMA NoShorterCodes ==
  ASSUME NEW table \in HuffmanTable, NEW l \in 1..(MaxLen + 1), Shorter(table)[l] = 0
  PROVE  FirstCode(table)[l] = 0
<1> DEFINE j == Shorter(table)
           f == FirstCode(table)
           S == {i \in 0..MaxLen : j[i + 1] = 0 => f[i + 1] = 0}
<1>1. MaxLen \in Nat
  BY LjpegAssumption
<1>2. /\ j[1] = 0 /\ f[1] = 0
      /\ \A k \in 1..(MaxLen + 1) : j[k] \in Nat
      /\ \A k \in 1..MaxLen : /\ j[k + 1] = j[k] + table.bits[k] /\ table.bits[k] \in Nat
                              /\ f[k + 1] = (f[k] + table.bits[k]) * 2
  BY ShorterUnfolds, FirstCodeUnfolds DEF HuffmanTable
<1> HIDE DEF j, f
<1>3. 0 \in S
  BY <1>1, <1>2
<1>4. ASSUME NEW i \in 0..(MaxLen - 1), i \in S PROVE i + 1 \in S
  <2> DEFINE k == i + 1
  <2>1. k \in 1..MaxLen /\ k \in 1..(MaxLen + 1) /\ k \in 0..MaxLen
    BY <1>1
  <2>2. j[k] \in Nat /\ table.bits[k] \in Nat /\ (j[k] = 0 => f[k] = 0)
    BY <1>2, <1>4, <2>1
  <2>3. j[k + 1] = j[k] + table.bits[k] /\ f[k + 1] = (f[k] + table.bits[k]) * 2
    BY <1>2, <2>1
  <2>4. j[k + 1] = 0 => f[k + 1] = 0
    BY <2>2, <2>3
  <2> QED
    BY <2>1, <2>4
<1> HIDE DEF S
<1>5. \A i \in 0..MaxLen : i \in S
  BY <1>1, <1>3, <1>4, InductUpTo
<1>6. l - 1 \in 0..MaxLen /\ (l - 1) + 1 = l
  BY <1>1
<1>7. l - 1 \in S
  BY <1>5, <1>6
<1> QED
  BY <1>6, <1>7 DEF S, j, f

(* HUFFCODE assigns the codes that the decoder counts.                     *)
LEMMA HuffCodeIs ==
  ASSUME NEW table \in HuffmanTable
  PROVE  \A i \in 1..Len(HuffSize(table)) :
           HuffCode(table)[i] = FirstCode(table)[HuffSize(table)[i]]
                                  + (i - 1 - Shorter(table)[HuffSize(table)[i]])
<1> DEFINE j == Shorter(table)
           f == FirstCode(table)
           z == HuffSize(table)
           N == Len(z)
           h == [i \in 1..N |-> f[z[i]] + (i - 1 - j[z[i]])]
           c == HuffCode(table)
<1>1. MaxLen \in Nat \ {0}
  BY LjpegAssumption
<1>2. /\ \A k \in 1..(MaxLen + 1) : j[k] \in Nat /\ f[k] \in Nat
      /\ \A k \in 1..MaxLen : /\ j[k + 1] = j[k] + table.bits[k] /\ table.bits[k] \in Nat
                              /\ f[k + 1] = (f[k] + table.bits[k]) * 2
  BY ShorterUnfolds, FirstCodeUnfolds DEF HuffmanTable
<1>3. /\ N \in Nat
      /\ \A i \in 1..N : /\ z[i] \in 1..MaxLen /\ z[i] \in 1..(MaxLen + 1)
                         /\ z[i] + 1 \in 1..(MaxLen + 1)
                         /\ j[z[i]] < i /\ i <= j[z[i] + 1]
  <2>1. z \in Seq(1..MaxLen) /\ \A i \in 1..N : j[z[i]] < i /\ i <= j[z[i] + 1]
    BY HuffSizeIs
  <2>2. N \in Nat /\ \A i \in 1..N : z[i] \in 1..MaxLen
    <3> HIDE DEF z
    <3> QED
      BY <2>1, SeqElements
  <2>3. \A l \in 1..MaxLen : l \in 1..(MaxLen + 1) /\ l + 1 \in 1..(MaxLen + 1)
    BY <1>1
  <2> QED
    BY <2>1, <2>2, <2>3
<1>4. c = CHOOSE g : g = [i \in 1..N |-> IF i = 1 THEN 0
                                        ELSE (g[i - 1] + 1) * Pow2[z[i] - z[i - 1]]]
  BY DEF HuffCode
<1>5. \A a, b \in 1..(MaxLen + 1) : a <= b => j[a] <= j[b]
  BY ShorterGrows
<1>6. \A l \in 1..(MaxLen + 1) : j[l] = 0 => f[l] = 0
  BY NoShorterCodes
<1>7. \A a \in 1..MaxLen : \A b \in (a + 1)..MaxLen :
        j[b] = j[a + 1] => f[b] = (f[a] + table.bits[a]) * Pow2[b - a]
  BY CodeLengthened
<1> HIDE DEF j, f, z, N
<1>8. ASSUME NEW i \in 1..N
      PROVE  h[i] = IF i = 1 THEN 0 ELSE (h[i - 1] + 1) * Pow2[z[i] - z[i - 1]]
  <2> DEFINE b == z[i]
  <2>1. /\ b \in 1..MaxLen /\ b \in 1..(MaxLen + 1) /\ b + 1 \in 1..(MaxLen + 1)
        /\ j[b] < i /\ i <= j[b + 1] /\ j[b] \in Nat /\ f[b] \in Nat /\ i \in Nat
        /\ h[i] = f[b] + (i - 1 - j[b])
    BY <1>2, <1>3
  <2>2. CASE i = 1
    <3>1. j[b] = 0
      BY <2>1, <2>2
    <3>2. f[b] = 0
      BY <1>6, <2>1, <3>1
    <3> HIDE DEF h
    <3>3. h[i] = 0
      BY <2>1, <2>2, <3>1, <3>2
    <3> QED
      BY <2>2, <3>3
  <2>3. CASE i # 1
    <3> DEFINE m == i - 1
               a == z[m]
    <3>1. m \in 1..N /\ m \in Nat /\ m + 1 = i
      BY <1>3, <2>3
    <3>2. /\ a \in 1..MaxLen /\ a \in 1..(MaxLen + 1) /\ a + 1 \in 1..(MaxLen + 1)
          /\ j[a] < m /\ m <= j[a + 1] /\ j[a] \in Nat /\ f[a] \in Nat
          /\ h[m] = f[a] + (m - 1 - j[a])
      BY <1>2, <1>3, <3>1
    <3>3. /\ j[a + 1] = j[a] + table.bits[a] /\ table.bits[a] \in Nat
          /\ j[b + 1] \in Nat /\ j[a + 1] \in Nat
      BY <1>2, <2>1, <3>2
    <3> HIDE DEF h, a, b, m
    <3>4. CASE a = b
      <4>1. h[i] = h[m] + 1 /\ h[m] \in Int
        BY <2>1, <3>1, <3>2, <3>4
      <4>2. b - a = 0 /\ Pow2[0] = 1
        BY <3>2, <3>4, PowDoubles
      <4>3. h[i] = (h[m] + 1) * Pow2[b - a]
        BY <4>1, <4>2
      <4> QED
        BY <2>3, <4>3 DEF a, b, m
    <3>5. CASE a < b
      <4>1. j[a + 1] <= j[b]
        <5>1. a + 1 <= b
          BY <2>1, <3>2, <3>5
        <5> QED
          BY <1>5, <2>1, <3>2, <5>1
      <4>2. j[b] = m /\ j[a + 1] = m
        BY <2>1, <3>1, <3>2, <3>3, <4>1
      <4>3. b \in (a + 1)..MaxLen
        BY <1>1, <2>1, <3>2, <3>5
      <4>4. f[b] = (f[a] + table.bits[a]) * Pow2[b - a]
        BY <1>7, <3>2, <4>2, <4>3
      <4>5. h[i] = f[b]
        BY <2>1, <3>1, <4>2
      <4>6. h[m] + 1 = f[a] + table.bits[a]
        BY <3>1, <3>2, <3>3, <4>2
      <4>7. h[i] = (h[m] + 1) * Pow2[b - a]
        BY <4>4, <4>5, <4>6
      <4> QED
        BY <2>3, <4>7 DEF a, b, m
    <3>6. CASE a > b
      <4>1. j[b + 1] <= j[a]
        <5>1. b + 1 <= a
          BY <2>1, <3>2, <3>6
        <5> QED
          BY <1>5, <2>1, <3>2, <5>1
      <4> QED
        BY <2>1, <3>1, <3>2, <3>3, <4>1
    <3> QED
      BY <1>1, <2>1, <3>2, <3>4, <3>5, <3>6
  <2> QED
    BY <2>2, <2>3
<1>9. h = [i \in 1..N |-> IF i = 1 THEN 0 ELSE (h[i - 1] + 1) * Pow2[z[i] - z[i - 1]]]
  BY <1>8
<1> HIDE DEF h
<1>10. c = [i \in 1..N |-> IF i = 1 THEN 0 ELSE (c[i - 1] + 1) * Pow2[z[i] - z[i - 1]]]
  BY <1>4, <1>9
<1> HIDE DEF c
<1> DEFINE S == {k \in Nat : k + 1 <= N => c[k + 1] = h[k + 1]}
<1>11. 0 \in S
  <2>1. CASE 1 <= N
    <3>1. 1 \in 1..N
      BY <1>3, <2>1
    <3>2. c[1] = 0 /\ h[1] = 0
      BY <1>9, <1>10, <3>1
    <3> QED
      BY <3>2
  <2> QED
    BY <1>3, <2>1
<1>12. ASSUME NEW k \in Nat, k \in S PROVE k + 1 \in S
  <2> DEFINE i == k + 1
  <2> SUFFICES ASSUME i + 1 <= N PROVE c[i + 1] = h[i + 1]
    OBVIOUS
  <2>1. i + 1 \in 1..N /\ i + 1 # 1 /\ (i + 1) - 1 = i /\ i <= N
    BY <1>3
  <2>2. c[i] = h[i]
    BY <1>12, <2>1
  <2> HIDE DEF i
  <2>3. c[i + 1] = (c[i] + 1) * Pow2[z[i + 1] - z[i]]
    BY <1>10, <2>1
  <2>4. h[i + 1] = (h[i] + 1) * Pow2[z[i + 1] - z[i]]
    BY <1>9, <2>1
  <2> QED
    BY <2>2, <2>3, <2>4
<1> HIDE DEF S
<1>13. \A k \in Nat : k \in S
  BY <1>11, <1>12, Induct
<1>14. ASSUME NEW i \in 1..N PROVE c[i] = h[i]
  <2>1. i - 1 \in Nat /\ (i - 1) + 1 = i /\ i <= N
    BY <1>3
  <2>2. i - 1 \in S
    BY <1>13, <2>1
  <2> QED
    BY <2>1, <2>2 DEF S
<1>15. \A i \in 1..N : h[i] = f[z[i]] + (i - 1 - j[z[i]])
  BY DEF h
<1> QED
  BY <1>14, <1>15 DEF N, z, f, j, c

-----------------------------------------------------------------------------
(* What was written is read                                                *)

LEMMA BitStringIs ==
  ASSUME NEW v \in Nat, NEW n \in Nat
  PROVE  BitString(v, n) \in Seq({0, 1}) /\ Len(BitString(v, n)) = n
<1>1. ASSUME NEW k \in 1..n PROVE (v \div Pow2[n - k]) % 2 \in {0, 1}
  <2>1. n - k \in Nat
    OBVIOUS
  <2>2. Pow2[n - k] \in Nat \ {0}
    BY <2>1, PowDoubles
  <2> DEFINE q == v \div Pow2[n - k]
  <2>3. q \in Nat
    BY <2>2, Divide
  <2> HIDE DEF q
  <2>4. q % 2 \in {0, 1}
    BY <2>3
  <2> QED
    BY <2>4 DEF q
<1>2. BitString(v, n) \in [1..n -> {0, 1}]
  BY <1>1 DEF BitString
<1> QED
  BY <1>2, SeqOf

(* A symbol's code word, wherever the table puts the symbol.               *)
LEMMA CodeWordIs ==
  ASSUME NEW table \in HuffmanTable, WellFormed(table), NEW t, HasCode(table, t)
  PROVE  \E n, v, l : /\ table.huffval[n + 1] = t
                      /\ CodeWord(table, t) = BitString(v, l)
                      /\ v \in Nat /\ v < Pow2[l]
                      /\ v = FirstCode(table)[l] + (n - Shorter(table)[l])
                      /\ n \in 0..(Len(table.huffval) - 1) /\ l \in 1..MaxLen
                      /\ n - Shorter(table)[l] \in 0..(table.bits[l] - 1)
<1> DEFINE i == CHOOSE i \in 1..Len(table.huffval) : table.huffval[i] = t
           l == HuffSize(table)[i]
           v == HuffCode(table)[i]
           j == Shorter(table)
           f == FirstCode(table)
<1>1. i \in 1..Len(table.huffval) /\ table.huffval[i] = t
  BY DEF HasCode
<1>2. CodeWord(table, t) = BitString(v, l)
  BY DEF CodeWord
<1> HIDE DEF i
<1>3. i \in 1..Len(HuffSize(table)) /\ v < Pow2[l] - 1
  BY <1>1 DEF WellFormed
<1>4. l \in 1..MaxLen /\ j[l] < i /\ i <= j[l + 1]
  <2>1. HuffSize(table) \in Seq(1..MaxLen)
    BY HuffSizeIs
  <2>2. \A k \in 1..Len(HuffSize(table)) : HuffSize(table)[k] \in 1..MaxLen
    <3> DEFINE z == HuffSize(table)
    <3> HIDE DEF z
    <3>1. z \in Seq(1..MaxLen)
      BY <2>1 DEF z
    <3>2. \A k \in 1..Len(z) : z[k] \in 1..MaxLen
      BY <3>1, SeqElements
    <3> QED
      BY <3>2 DEF z
  <2> QED
    BY <1>3, <2>2, HuffSizeIs
<1>5. v = f[l] + (i - 1 - j[l])
  BY <1>3, HuffCodeIs
<1> HIDE DEF l, v
<1>6. MaxLen \in Nat /\ l \in Nat /\ MaxLen - l \in Nat /\ l \in 1..(MaxLen + 1)
  BY <1>4, LjpegAssumption
<1>7. /\ f[l] \in Nat /\ j[l] \in Nat /\ table.bits[l] \in Nat
      /\ j[l + 1] = j[l] + table.bits[l]
  BY <1>4, <1>6, FirstCodeUnfolds, ShorterUnfolds DEF HuffmanTable
<1> HIDE DEF j, f
<1> DEFINE N == Len(table.huffval)
           b == table.bits[l]
           a == j[l]
           c == f[l]
<1>8. N \in Nat
  BY DEF HuffmanTable
<1>9. /\ i - 1 \in 0..(N - 1)
      /\ (i - 1) - a \in 0..(b - 1)
      /\ v = c + ((i - 1) - a) /\ (i - 1) + 1 = i /\ v \in Nat
  <2>1. i \in 1..N /\ a < i /\ i <= a + b /\ v = c + (i - 1 - a) /\ c \in Nat /\ a \in Nat /\ b \in Nat
    BY <1>1, <1>4, <1>5, <1>7
  <2> HIDE DEF N, a, b, c
  <2> QED
    BY <1>8, <2>1
<1>10. Pow2[l] \in Nat /\ v < Pow2[l]
  <2> DEFINE p == Pow2[l]
  <2>1. p \in Nat /\ v < p - 1
    BY <1>3, <1>6, PowDoubles
  <2> HIDE DEF p
  <2>2. v < p
    BY <1>9, <2>1
  <2> QED
    BY <2>1, <2>2 DEF p
<1> QED
  BY <1>1, <1>2, <1>4, <1>9, <1>10 DEF j, f

(* decode_huffman finds the symbol whose code word comes next.             *)
LEMMA CodeWordRead ==
  ASSUME bits \in Seq({0, 1}), NEW i \in Nat,
         NEW table \in HuffmanTable, WellFormed(table), NEW t, HasCode(table, t),
         \A k \in 1..Len(CodeWord(table, t)) : BitAt(i, k) = CodeWord(table, t)[k]
  PROVE  /\ Huffman(table, BitsAt(i, MaxLen)) = <<t, Len(CodeWord(table, t))>>
         /\ CodeWord(table, t) \in Seq({0, 1})
<1>1. PICK n, v, l : /\ table.huffval[n + 1] = t
                     /\ CodeWord(table, t) = BitString(v, l)
                     /\ v \in Nat /\ v < Pow2[l]
                     /\ v = FirstCode(table)[l] + (n - Shorter(table)[l])
                     /\ n \in 0..(Len(table.huffval) - 1) /\ l \in 1..MaxLen
                     /\ n - Shorter(table)[l] \in 0..(table.bits[l] - 1)
  BY CodeWordIs
<1>2. l \in Nat /\ MaxLen \in Nat /\ l <= MaxLen
  BY <1>1, LjpegAssumption
<1>3. Len(CodeWord(table, t)) = l /\ CodeWord(table, t) \in Seq({0, 1})
  BY <1>1, <1>2, BitStringIs
<1>4. BitsAt(i, l) = v
  BY <1>1, <1>2, <1>3, NumberRead
<1> DEFINE w == BitsAt(i, MaxLen)
<1>5. w \in Nat /\ w \div Pow2[MaxLen - l] = v
  BY <1>2, <1>4, BitsAtUnfolds, BitsAtBeginning
<1> HIDE DEF w
<1>6. BeginsWith(w, table, n, l)
  BY <1>1, <1>5 DEF BeginsWith
<1>7. Huffman(table, w) = <<t, l>>
  BY <1>1, <1>5, <1>6, FirstFit, HuffmanIsSlowPath
<1> QED
  BY <1>3, <1>7 DEF w

-----------------------------------------------------------------------------

LEMMA PowGrows ==
  ASSUME NEW a \in Nat, NEW b \in Nat, a <= b
  PROVE  Pow2[a] <= Pow2[b]
<1>1. b - a \in Nat /\ a + (b - a) = b
  OBVIOUS
<1> DEFINE p == Pow2[a]
           q == Pow2[b - a]
<1>2. p \in Nat \ {0} /\ q \in Nat \ {0} /\ Pow2[a + (b - a)] = p * q
  BY <1>1, PowDoubles, PowAdds
<1> HIDE DEF p, q
<1>3. p <= p * q
  BY <1>2
<1> QED
  BY <1>1, <1>2, <1>3 DEF p

(* A difference is of one category.                                        *)
LEMMA CategoryIs ==
  ASSUME NEW diff \in Int, NEW t \in 0..15, IsCategory(t, diff)
  PROVE  Category(diff) = t
<1>1. ASSUME NEW a \in 0..15, NEW b \in 0..15, IsCategory(a, diff), IsCategory(b, diff), a < b
      PROVE  FALSE
  <2>1. a \in Nat /\ b - 1 \in Nat /\ b > 0 /\ a <= b - 1
    BY <1>1
  <2>2. Pow2[a] <= Pow2[b - 1]
    BY <2>1, PowGrows
  <2>3. Pow2[a] \in Nat /\ Pow2[b - 1] \in Nat
    BY <2>1, PowDoubles
  <2>4. diff < Pow2[a] /\ -diff < Pow2[a] /\ (diff >= Pow2[b - 1] \/ -diff >= Pow2[b - 1])
    BY <1>1, <2>1 DEF IsCategory
  <2> QED
    BY <2>2, <2>3, <2>4
<1>2. ASSUME NEW u \in 0..15, IsCategory(u, diff) PROVE u = t
  BY <1>1, <1>2
<1> QED
  BY <1>2 DEF Category

(* Extend undoes what the bits of a difference are taken from.             *)
LEMMA ExtendUndoes ==
  ASSUME NEW diff \in Int, NEW t \in 0..15, IsCategory(t, diff),
         NEW v, v = IF diff >= 0 THEN diff ELSE diff + Pow2[t] - 1
  PROVE  v \in Nat /\ v < Pow2[t] /\ Extend(v, t) = diff
<1> DEFINE p == Pow2[t]
<1>1. p \in Nat \ {0}
  BY PowDoubles
<1>2. diff < p /\ -diff < p
  BY DEF IsCategory
<1>3. v \in Nat /\ v < p
  BY <1>1, <1>2
<1>4. CASE t = 0
  <2>1. p = 1
    BY <1>4, PowDoubles
  <2> HIDE DEF p
  <2>2. diff = 0
    BY <1>2, <2>1
  <2> QED
    BY <1>3, <1>4, <2>2 DEF Extend, p
<1>5. CASE t # 0
  <2> DEFINE h == Pow2[t - 1]
  <2>1. h \in Nat \ {0} /\ p = 2 * h
    <3>1. t - 1 \in Nat /\ (t - 1) + 1 = t
      BY <1>5
    <3> QED
      BY <3>1, PowDoubles
  <2>2. diff >= h \/ -diff >= h
    BY <1>5 DEF IsCategory
  <2>3. Extend(v, t) = IF v < h THEN v - p + 1 ELSE v
    BY <1>5 DEF Extend
  <2> HIDE DEF p, h
  <2>4. Extend(v, t) = diff
    <3>1. CASE diff >= 0
      <4>1. v = diff /\ ~(v < h)
        BY <2>1, <2>2, <3>1
      <4> QED
        BY <2>3, <4>1
    <3>2. CASE diff < 0
      <4>1. v = diff + p - 1
        BY <3>2 DEF p
      <4>2. v < h
        BY <2>1, <2>2, <3>2, <4>1
      <4> QED
        BY <1>1, <2>3, <4>1, <4>2
    <3> QED
      BY <3>1, <3>2
  <2> QED
    BY <1>3, <2>4 DEF p
<1> QED
  BY <1>4, <1>5

(* A difference that its table has a code for.                             *)
Coded(table, diff, t) ==
  /\ table \in HuffmanTable /\ WellFormed(table)
  /\ diff \in Int /\ t \in 0..15 /\ IsCategory(t, diff) /\ HasCode(table, t)

(* Its bits come next.                                                     *)
ComesNext(s) == \A k \in 1..Len(s) : BitAt(used, k) = s[k]

LEMMA CodedType ==
  ASSUME NEW table, NEW diff, NEW t, Coded(table, diff, t)
  PROVE  CodeWord(table, t) \in Seq({0, 1}) /\ DifferenceBits(table, diff) \in Seq({0, 1})
<1>1. /\ table \in HuffmanTable /\ WellFormed(table) /\ HasCode(table, t)
      /\ diff \in Int /\ t \in 0..15 /\ t \in Nat /\ IsCategory(t, diff)
  BY DEF Coded
<1> DEFINE v == IF diff >= 0 THEN diff ELSE diff + Pow2[t] - 1
           c == CodeWord(table, t)
           e == BitString(v, t)
<1>2. DifferenceBits(table, diff) = c \o e
  BY <1>1, CategoryIs DEF DifferenceBits
<1>3. v \in Nat
  BY <1>1, ExtendUndoes
<1>4. e \in Seq({0, 1})
  <2> HIDE DEF v
  <2> QED
    BY <1>1, <1>3, BitStringIs
<1>5. c \in Seq({0, 1})
  <2>1. PICK x, l : c = BitString(x, l) /\ x \in Nat /\ l \in 1..MaxLen
    BY <1>1, CodeWordIs
  <2>2. l \in Nat
    BY <2>1, LjpegAssumption
  <2> QED
    BY <2>1, <2>2, BitStringIs
<1> HIDE DEF c, e
<1>6. c \o e \in Seq({0, 1})
  BY <1>4, <1>5, Joined
<1> QED
  BY <1>2, <1>5, <1>6 DEF c

(* The decoder reads the difference that was written, and all its bits.    *)
LEMMA DifferenceRead ==
  ASSUME bits \in Seq({0, 1}), used \in Nat, NEW table, NEW diff, NEW t, Coded(table, diff, t),
         ComesNext(DifferenceBits(table, diff))
  PROVE  Difference(table) = [value |-> diff, category |-> t,
                              length |-> Len(DifferenceBits(table, diff))]
<1>1. /\ table \in HuffmanTable /\ WellFormed(table) /\ HasCode(table, t)
      /\ diff \in Int /\ t \in 0..15 /\ t \in Nat /\ IsCategory(t, diff)
  BY DEF Coded
<1> DEFINE v == IF diff >= 0 THEN diff ELSE diff + Pow2[t] - 1
           c == CodeWord(table, t)
           e == BitString(v, t)
           both == c \o e
<1>2. DifferenceBits(table, diff) = both
  BY <1>1, CategoryIs DEF DifferenceBits
<1>3. v \in Nat /\ v < Pow2[t] /\ Extend(v, t) = diff
  BY <1>1, ExtendUndoes
<1> HIDE DEF v
<1>4. e \in Seq({0, 1}) /\ Len(e) = t
  BY <1>1, <1>3, BitStringIs
<1>5. c \in Seq({0, 1})
  BY CodedType
<1> HIDE DEF c, e
<1>6. /\ Len(c) \in Nat /\ Len(e) \in Nat /\ Len(both) = Len(c) + Len(e)
      /\ \A k \in 1..Len(c) : both[k] = c[k]
      /\ \A k \in 1..Len(e) : both[Len(c) + k] = e[k]
  <2>1. c \in Seq({0, 1}) /\ e \in Seq({0, 1})
    BY <1>4, <1>5
  <2>2. Len(c) \in Nat /\ Len(e) \in Nat
    BY <2>1, SeqElements
  <2>3. /\ Len(both) = Len(c) + Len(e)
        /\ \A k \in 1..Len(c) : both[k] = c[k]
        /\ \A k \in 1..Len(e) : both[Len(c) + k] = e[k]
    BY ONLY <2>1, Joined
  <2> QED
    BY <2>2, <2>3
<1>7. \A k \in 1..Len(both) : BitAt(used, k) = both[k]
  BY <1>2 DEF ComesNext
<1> HIDE DEF both
<1>8. Huffman(table, BitsAt(used, MaxLen)) = <<t, Len(c)>>
  <2>1. \A k \in 1..Len(c) : BitAt(used, k) = c[k]
    <3> SUFFICES ASSUME NEW k \in 1..Len(c) PROVE BitAt(used, k) = c[k]
      OBVIOUS
    <3>1. k \in 1..Len(both)
      BY <1>6
    <3> QED
      BY <1>6, <1>7, <3>1
  <2> QED
    BY <1>1, <2>1, CodeWordRead DEF c
<1>9. BitsAt(used + Len(c), t) = v
  <2> DEFINE i == used + Len(c)
  <2>1. i \in Nat
    BY <1>6
  <2>2. ASSUME NEW k \in 1..t PROVE BitAt(i, k) = BitString(v, t)[k]
    <3>1. k \in 1..Len(e) /\ Len(c) + k \in 1..Len(both)
      BY <1>1, <1>4, <1>6
    <3>2. BitAt(used, Len(c) + k) = e[k]
      BY <1>6, <1>7, <3>1
    <3>3. used + (Len(c) + k) = i + k
      BY <1>6, <3>1
    <3>4. BitAt(i, k) = BitAt(used, Len(c) + k)
      BY <3>3 DEF BitAt
    <3> QED
      BY <3>2, <3>4 DEF e
  <2> HIDE DEF i
  <2>3. BitsAt(i, t) = v
    BY <1>1, <1>3, <2>1, <2>2, NumberRead
  <2> QED
    BY <2>3 DEF i
<1> DEFINE h == Huffman(table, BitsAt(used, MaxLen))
<1>10. Difference(table) = [value |-> IF h[1] = 0 THEN 0 ELSE Extend(BitsAt(used + h[2], h[1]), h[1]),
                            category |-> h[1], length |-> h[2] + h[1]]
  BY DEF Difference
<1> HIDE DEF h
<1>11. h[1] = t /\ h[2] = Len(c)
  BY <1>8 DEF h
<1>12. Difference(table) = [value |-> IF t = 0 THEN 0 ELSE Extend(BitsAt(used + Len(c), t), t),
                            category |-> t, length |-> Len(c) + t]
  BY <1>10, <1>11
<1>13. (IF t = 0 THEN 0 ELSE Extend(BitsAt(used + Len(c), t), t)) = diff
  <2>1. CASE t = 0
    <3>1. diff = 0
      BY <1>3, <2>1 DEF Extend
    <3> QED
      BY <2>1, <3>1
  <2>2. CASE t # 0
    BY <1>3, <1>9, <2>2
  <2> QED
    BY <2>1, <2>2
<1>14. Len(c) + t = Len(both)
  BY <1>4, <1>6
<1> QED
  BY <1>2, <1>12, <1>13, <1>14

-----------------------------------------------------------------------------
(* The theorems                                                            *)

(* The inductive invariant holds for every stream, conforming or not.      *)
THEOREM Inductive == Spec => []IInv
BY InitIInv, NextIInv, PTL DEF Spec

(* decode keeps the types of its fields, and never consumes more bits than *)
(* the scan has.                                                           *)
THEOREM TypeCorrect == Spec => []TypeOK
<1>1. IInv => TypeOK
  BY DEF IInv
<1> QED
  BY <1>1, Inductive, PTL

(* Whatever tables a stream defines, prefix codes or not, complete or not: *)
(* the 8-bit lookup never yields another symbol or length than the 16-bit  *)
(* loop would (decode_huffman, build_tables).                              *)
THEOREM FastAlwaysAgrees == Spec => []FastAgreesWithSlow
<1>1. IInv => FastAgreesWithSlow
  <2> SUFFICES ASSUME IInv, NEW s \in DOMAIN huffman_dc, NEW w \in 0..(Pow2[MaxLen] - 1)
               PROVE  Huffman(huffman_dc[s], w) = SlowPath(huffman_dc[s], w)
    BY DEF FastAgreesWithSlow
  <2>1. huffman_dc[s] \in HuffmanTable
    BY DEF IInv, TypeOK
  <2>2. w \in Nat
    <3>1. Pow2[MaxLen] \in Nat
      BY PowDoubles, LjpegAssumption
    <3> QED
      BY <3>1
  <2> QED
    BY <2>1, <2>2, HuffmanIsSlowPath
<1> QED
  BY <1>1, Inductive, PTL

(* No index into the output that decode_scan computes is outside it, for   *)
(* every size the container sets, odd ones and zero among them.            *)
THEOREM IndicesAlwaysInside == Spec => []IndicesInside
<1>1. IInv => IndicesInside
  <2> SUFFICES ASSUME IInv, pc = "scan", sample < SamplesToDecode PROVE IndicesInside
    BY DEF IndicesInside
  <2>1. Width \in Nat /\ Height \in Nat /\ sample \in Nat
        /\ DOMAIN output = 0..(Width * Height - 1)
    BY Sizes DEF IInv, ScanInv
  <2>2. CASE Len(frame.components) = 4
    <3>1. sample < 4 * ((Width \div 2) * (Height \div 2))
      BY <2>2 DEF SamplesToDecode, Blocks
    <3>2. Place \in 0..(Width * Height - 1)
      BY <2>1, <3>1, PlaceInside DEF Place, SuperX, SuperY
    <3> QED
      BY <2>1, <2>2, <3>2 DEF IndicesInside
  <2>3. CASE Len(frame.components) # 4
    <3>1. sample < Width * Height
      BY <2>3 DEF SamplesToDecode
    <3> QED
      BY <2>1, <2>3, <3>1, NeighboursInside DEF IndicesInside
  <2> QED
    BY <2>2, <2>3
<1> QED
  BY <1>1, Inductive, PTL

-----------------------------------------------------------------------------
(* The encoder's scan: the bits of every sample are read where the encoder *)
(* put them.                                                               *)

LEMMA QuotientBelow ==
  ASSUME NEW a \in Nat \ {0}, NEW b \in Nat, NEW x \in Nat, x < a * b
  PROVE  x \div a \in Nat /\ x \div a < b
<1> DEFINE q == x \div a
           r == x % a
<1>1. q \in Nat /\ r \in 0..(a - 1) /\ x = q * a + r
  BY Divide
<1> HIDE DEF q, r
<1>2. q < b
  <2> SUFFICES ASSUME b <= q PROVE FALSE
    BY <1>1
  <2>1. a * b <= a * q
    BY <1>1
  <2>2. a * q = q * a
    BY <1>1
  <2> DEFINE m == a * b
             n == q * a
  <2>3. m <= n /\ m \in Nat /\ n \in Nat /\ x < m /\ x = n + r
    BY <1>1, <2>1, <2>2
  <2> HIDE DEF m, n
  <2> QED
    BY <1>1, <2>3
<1> QED
  BY <1>1, <1>2 DEF q

LEMMA PositionInside ==
  ASSUME NEW p \in Nat \ {0}, NEW w \in Nat \ {0}, NEW h \in Nat \ {0},
         NEW k \in Nat, k < p * (w * h)
  PROVE  /\ (k % p) + 1 \in 1..p
         /\ (k \div p) % w \in 0..(w - 1)
         /\ (k \div p) \div w \in 0..(h - 1)
         /\ k \div p = ((k \div p) \div w) * w + ((k \div p) % w)
         /\ k \div p \in Nat
<1>1. w * h \in Nat
  OBVIOUS
<1> DEFINE q == k \div p
<1>2. q \in Nat /\ q < w * h
  BY <1>1, QuotientBelow
<1>3. (k % p) + 1 \in 1..p
  <2> DEFINE r == k % p
  <2>1. r \in 0..(p - 1)
    BY Divide
  <2> HIDE DEF r
  <2>2. r + 1 \in 1..p
    BY <2>1
  <2> QED
    BY <2>2 DEF r
<1> HIDE DEF q
<1>4. q \div w \in Nat /\ q \div w < h
  BY <1>2, QuotientBelow
<1>5. q % w \in 0..(w - 1) /\ q = (q \div w) * w + (q % w)
  BY <1>2, Divide
<1>6. q \div w \in 0..(h - 1)
  <2> DEFINE y == q \div w
  <2> HIDE DEF y
  <2>1. y \in 0..(h - 1)
    BY <1>4 DEF y
  <2> QED
    BY <2>1 DEF y
<1> QED
  BY <1>2, <1>3, <1>5, <1>6 DEF q

LEMMA SamplePosition ==
  ASSUME NEW e, Encodable(e), NEW k \in Nat, k < SampleCount(e)
  PROVE  /\ ComponentOf(e, k) \in 1..Len(e.planes)
         /\ ColumnOf(e, k) \in 0..(e.width - 1)
         /\ RowOf(e, k) \in 0..(e.height - 1)
<1> DEFINE p == Len(e.planes)
           w == e.width
           h == e.height
<1>1. p \in Nat \ {0} /\ w \in Nat \ {0} /\ h \in Nat \ {0}
  BY DEF Encodable
<1>2. k < p * (w * h)
  BY DEF SampleCount
<1> HIDE DEF p, w, h
<1>3. (k % p) + 1 \in 1..p /\ (k \div p) % w \in 0..(w - 1) /\ (k \div p) \div w \in 0..(h - 1)
  BY <1>1, <1>2, PositionInside
<1> QED
  BY <1>3 DEF p, w, h, ComponentOf, ColumnOf, RowOf

LEMMA PlaneType ==
  ASSUME NEW e, Encodable(e), NEW c \in 1..Len(e.planes),
         NEW x \in 0..(e.width - 1), NEW y \in 0..(e.height - 1)
  PROVE  /\ e.planes[c][x][y] \in Nat
         /\ e.planes[c][x][y] < Pow2[e.precision - e.transform]
<1> DEFINE limit == Pow2[e.precision - e.transform]
<1>1. e.planes[c] \in [0..(e.width - 1) -> [0..(e.height - 1) -> 0..(limit - 1)]]
  BY DEF Encodable
<1>2. limit \in Nat
  <2>1. e.precision \in 2..16 /\ e.transform \in 0..(e.precision - 1)
    BY DEF Encodable
  <2> DEFINE a == e.precision
             b == e.transform
  <2> HIDE DEF a, b
  <2>2. a \in 2..16 /\ b \in 0..(a - 1)
    BY <2>1 DEF a, b
  <2>3. a - b \in Nat
    BY <2>2
  <2> QED
    BY <2>3, PowDoubles DEF a, b
<1> HIDE DEF limit
<1>3. e.planes[c][x][y] \in 0..(limit - 1)
  BY <1>1
<1> QED
  BY <1>2, <1>3 DEF limit

LEMMA HalfType ==
  ASSUME NEW e, Encodable(e)
  PROVE  Half(e) \in Nat
<1>1. e.precision \in 2..16 /\ e.transform \in 0..(e.precision - 1)
  BY DEF Encodable
<1>2. e.precision - e.transform - 1 \in Nat
  BY <1>1
<1> QED
  BY <1>2, PowDoubles DEF Half

LEMMA PredictionType ==
  ASSUME NEW s \in 1..7, NEW a \in Int, NEW b \in Int, NEW c \in Int
  PROVE  Prediction(s, a, b, c) \in Int
BY DEF Prediction

LEMMA PredictedType ==
  ASSUME NEW e, Encodable(e), NEW c \in 1..Len(e.planes),
         NEW x \in 0..(e.width - 1), NEW y \in 0..(e.height - 1)
  PROVE  Predicted(e.planes[c], x, y, e.selection, Half(e)) \in Int
<1> DEFINE p(i, j) == e.planes[c][i][j]
           s == e.selection
           half == Half(e)
<1>1. e.width \in Nat /\ e.height \in Nat /\ s \in 1..7
  BY DEF Encodable
<1>2. \A i \in 0..(e.width - 1), j \in 0..(e.height - 1) : p(i, j) \in Int
  BY PlaneType
<1>3. half \in Int
  BY HalfType
<1>4. /\ x > 0 => x - 1 \in 0..(e.width - 1)
      /\ y > 0 => y - 1 \in 0..(e.height - 1)
      /\ x = 0 \/ x > 0
      /\ y = 0 \/ y > 0
  BY <1>1
<1>5. x > 0 => p(x - 1, y) \in Int
  BY <1>2, <1>4
<1>6. y > 0 => p(x, y - 1) \in Int
  BY <1>2, <1>4
<1>7. x > 0 /\ y > 0 => p(x - 1, y - 1) \in Int
  BY <1>2, <1>4
<1>8. Predicted(e.planes[c], x, y, s, half) =
        CASE x = 0 /\ y = 0 -> half
          [] x > 0 /\ y = 0 -> p(x - 1, y)
          [] x = 0 /\ y > 0 -> p(x, y - 1)
          [] x > 0 /\ y > 0 -> Prediction(s, p(x - 1, y), p(x, y - 1), p(x - 1, y - 1))
  BY DEF Predicted
<1> HIDE DEF p, s, half
<1>9. x > 0 /\ y > 0 => Prediction(s, p(x - 1, y), p(x, y - 1), p(x - 1, y - 1)) \in Int
  BY <1>1, <1>5, <1>6, <1>7, PredictionType
<1>10. (x > 0 => x # 0) /\ (y > 0 => y # 0)
  BY <1>4
<1>11. Predicted(e.planes[c], x, y, s, half) \in Int
  BY <1>3, <1>4, <1>5, <1>6, <1>8, <1>9, <1>10
<1> QED
  BY <1>11 DEF s, half

(* Every sample is coded by a table that has a code for its difference.    *)
LEMMA SampleCoded ==
  ASSUME NEW e, Encodable(e), Supported(e), NEW c \in 1..Len(e.planes),
         NEW x \in 0..(e.width - 1), NEW y \in 0..(e.height - 1)
  PROVE  \E t \in 0..15 : Coded(e.tables[c], DifferenceOf(e, c, x, y), t) /\ t <= SampleWidth
<1> DEFINE diff == DifferenceOf(e, c, x, y)
<1>1. PICK t \in 0..15 : IsCategory(t, diff) /\ HasCode(e.tables[c], t)
  BY DEF Encodable, Codable
<1>2. WellFormed(e.tables[c])
  BY DEF Encodable
<1>3. e.tables[c] \in HuffmanTable /\ Category(diff) <= SampleWidth
  BY DEF Supported
<1>4. diff \in Int
  <2> DEFINE p == Predicted(e.planes[c], x, y, e.selection, Half(e))
             v == e.planes[c][x][y]
  <2>1. p \in Int /\ v \in Nat /\ diff = v - p
    BY PredictedType, PlaneType DEF DifferenceOf
  <2> HIDE DEF p, v, diff
  <2> QED
    BY <2>1
<1> HIDE DEF diff
<1>5. Category(diff) = t
  BY <1>1, <1>4, CategoryIs
<1>6. Coded(e.tables[c], diff, t)
  BY <1>1, <1>2, <1>3, <1>4 DEF Coded
<1> QED
  BY <1>3, <1>5, <1>6 DEF diff

LEMMA SampleBitsType ==
  ASSUME NEW e, Encodable(e), Supported(e), NEW k \in Nat, k < SampleCount(e)
  PROVE  SampleBits(e, k) \in Seq({0, 1})
<1> DEFINE c == ComponentOf(e, k)
           x == ColumnOf(e, k)
           y == RowOf(e, k)
<1>1. c \in 1..Len(e.planes) /\ x \in 0..(e.width - 1) /\ y \in 0..(e.height - 1)
  BY SamplePosition
<1>2. SampleBits(e, k) = DifferenceBits(e.tables[c], DifferenceOf(e, c, x, y))
  BY DEF SampleBits
<1> HIDE DEF c, x, y
<1>3. \E t \in 0..15 : Coded(e.tables[c], DifferenceOf(e, c, x, y), t)
  BY <1>1, SampleCoded
<1> QED
  BY <1>2, <1>3, CodedType

LEMMA SampleCountType ==
  ASSUME NEW e, Encodable(e)
  PROVE  SampleCount(e) \in Nat \ {0}
<1> DEFINE p == Len(e.planes)
           w == e.width
           h == e.height
<1>1. p \in Nat \ {0} /\ w \in Nat \ {0} /\ h \in Nat \ {0}
  BY DEF Encodable
<1> HIDE DEF p, w, h
<1>2. w * h \in Nat \ {0}
  BY <1>1
<1>3. p * (w * h) \in Nat \ {0}
  BY <1>1, <1>2
<1> QED
  BY <1>3 DEF p, w, h, SampleCount

(* The recursive definition of ScanUpTo may be unfolded.                   *)
LEMMA ScanUnfolds ==
  ASSUME NEW e, Encodable(e), Supported(e)
  PROVE  /\ ScanUpTo(e)[0] = <<>>
         /\ \A i \in 0..SampleCount(e) : ScanUpTo(e)[i] \in Seq({0, 1})
         /\ \A i \in 0..(SampleCount(e) - 1) :
              ScanUpTo(e)[i + 1] = ScanUpTo(e)[i] \o SampleBits(e, i)
<1> DEFINE n == SampleCount(e)
           V == Seq({0, 1})
           u == ScanUpTo(e)
           b(i) == SampleBits(e, i)
<1>1. n \in Nat
  BY SampleCountType
<1>2. \A i \in 0..(n - 1) : b(i) \in V
  <2> SUFFICES ASSUME NEW i \in 0..(n - 1) PROVE b(i) \in V
    OBVIOUS
  <2> DEFINE m == n
  <2> HIDE DEF m
  <2>1. m \in Nat /\ i \in 0..(m - 1)
    BY <1>1 DEF m
  <2>2. i \in Nat /\ i < m
    BY <2>1
  <2> QED
    BY <2>2, SampleBitsType DEF m
<1>3. u = CHOOSE f : f = [i \in 0..n |-> IF i = 0 THEN <<>> ELSE f[i - 1] \o b(i - 1)]
  BY DEF ScanUpTo
<1> HIDE DEF n, b
<1>4. PICK step \in [0..(n - 1) -> [V -> V]] :
        \A k \in 0..(n - 1), v \in V : step[k][v] = v \o b(k)
  <2> DEFINE steps == [k \in 0..(n - 1) |-> [v \in V |-> v \o b(k)]]
  <2>1. \A k \in 0..(n - 1), v \in V : v \o b(k) \in V
    <3> SUFFICES ASSUME NEW k \in 0..(n - 1), NEW v \in V PROVE v \o b(k) \in V
      OBVIOUS
    <3>1. b(k) \in V
      BY <1>2
    <3> QED
      BY <3>1, Joined
  <2> HIDE DEF V
  <2>2. steps \in [0..(n - 1) -> [V -> V]]
    BY <2>1
  <2>3. \A k \in 0..(n - 1), v \in V : steps[k][v] = v \o b(k)
    OBVIOUS
  <2> QED
    BY <2>2, <2>3
<1>5. <<>> \in V
  OBVIOUS
<1> HIDE DEF V
<1>6. PICK g : RecursUpTo(g, n, V, <<>>, step)
  BY <1>1, <1>4, <1>5, RecursionUpTo
<1>7. /\ g \in [0..n -> V] /\ g[0] = <<>>
      /\ \A k \in 0..(n - 1) : g[k + 1] = g[k] \o b(k)
  <2>1. g \in [0..n -> V] /\ g[0] = <<>>
    BY <1>6 DEF RecursUpTo
  <2>2. ASSUME NEW k \in 0..(n - 1) PROVE g[k + 1] = g[k] \o b(k)
    <3>1. k \in 0..n
      BY <1>1
    <3>2. g[k] \in V /\ g[k + 1] = step[k][g[k]]
      BY <1>6, <3>1 DEF RecursUpTo
    <3> QED
      BY <1>4, <3>2
  <2> QED
    BY <2>1, <2>2
<1>8. ASSUME NEW l \in 0..n
      PROVE  g[l] = IF l = 0 THEN <<>> ELSE g[l - 1] \o b(l - 1)
  <2>1. CASE l # 0
    <3>1. l - 1 \in 0..(n - 1) /\ (l - 1) + 1 = l
      BY <1>1, <2>1
    <3>2. g[(l - 1) + 1] = g[l - 1] \o b(l - 1)
      BY <1>7, <3>1
    <3> QED
      BY <2>1, <3>1, <3>2
  <2> QED
    BY <1>7, <2>1
<1>9. g = [l \in 0..n |-> IF l = 0 THEN <<>> ELSE g[l - 1] \o b(l - 1)]
  BY <1>7, <1>8
<1>10. u = [l \in 0..n |-> IF l = 0 THEN <<>> ELSE u[l - 1] \o b(l - 1)]
  BY <1>3, <1>9
<1> HIDE DEF u
<1>11. u[0] = g[0]
  <2>1. 0 \in 0..n
    BY <1>1
  <2>2. u[0] = <<>>
    BY <1>10, <2>1
  <2> QED
    BY <1>7, <2>2
<1>12. ASSUME NEW m \in 0..n PROVE u[m] = g[m]
  <2>1. m \in Nat
    OBVIOUS
  <2>2. ASSUME NEW l \in 1..m, u[l - 1] = g[l - 1] PROVE u[l] = g[l]
    <3>1. l \in 0..n /\ l # 0
      BY <1>1
    <3>2. u[l] = u[l - 1] \o b(l - 1)
      BY <1>10, <3>1
    <3>3. g[l] = g[l - 1] \o b(l - 1)
      BY <1>8, <3>1
    <3> QED
      BY <2>2, <3>2, <3>3
  <2> QED
    BY <1>11, <2>1, <2>2, SameSteps
<1>13. \A i \in 0..(n - 1) : i \in 0..n /\ i + 1 \in 0..n
  BY <1>1
<1>14. \A i \in 0..(n - 1) : u[i + 1] = u[i] \o b(i)
  BY <1>7, <1>12, <1>13
<1>15. \A i \in 0..n : u[i] \in V
  BY <1>7, <1>12
<1> QED
  BY <1>7, <1>11, <1>14, <1>15 DEF u, n, b, V

(* The bits of a sample are where those before it end.                     *)
LEMMA ScanHolds ==
  ASSUME NEW e, Encodable(e), Supported(e), NEW k \in Nat, k < SampleCount(e)
  PROVE  LET all == ScanUpTo(e)[SampleCount(e)]
             before == Len(ScanUpTo(e)[k])
             own == SampleBits(e, k)
         IN /\ before \in Nat /\ Len(own) \in Nat
            /\ Len(ScanUpTo(e)[k + 1]) = before + Len(own)
            /\ before + Len(own) <= Len(all) /\ Len(all) \in Nat
            /\ \A m \in 1..Len(own) : all[before + m] = own[m]
<1> DEFINE n == SampleCount(e)
           u == ScanUpTo(e)
           b(i) == SampleBits(e, i)
           before == Len(u[k])
           own == b(k)
           end == before + Len(own)
           S == {d \in 0..(n - (k + 1)) :
                   /\ end <= Len(u[(k + 1) + d])
                   /\ \A m \in 1..Len(own) : u[(k + 1) + d][before + m] = own[m]}
<1>1. n \in Nat /\ k \in 0..(n - 1) /\ k \in 0..n /\ n - (k + 1) \in Nat
  <2>1. n \in Nat /\ k < n
    BY SampleCountType
  <2> HIDE DEF n
  <2> QED
    BY <2>1
<1>2. /\ \A i \in 0..n : u[i] \in Seq({0, 1})
      /\ \A i \in 0..(n - 1) : u[i + 1] = u[i] \o b(i)
  BY ScanUnfolds
<1>3. \A i \in 0..(n - 1) : b(i) \in Seq({0, 1})
  <2> SUFFICES ASSUME NEW i \in 0..(n - 1) PROVE b(i) \in Seq({0, 1})
    OBVIOUS
  <2>1. i \in Nat /\ i < n
    <3> HIDE DEF n
    <3> QED
      BY <1>1
  <2> QED
    BY <2>1, SampleBitsType
<1> HIDE DEF n, u, b
<1>4. ASSUME NEW i \in 0..(n - 1)
      PROVE  /\ Len(u[i]) \in Nat /\ Len(b(i)) \in Nat /\ Len(u[i + 1]) = Len(u[i]) + Len(b(i))
             /\ \A m \in 1..Len(u[i]) : u[i + 1][m] = u[i][m]
             /\ \A m \in 1..Len(b(i)) : u[i + 1][Len(u[i]) + m] = b(i)[m]
  <2> DEFINE s == u[i]
             t == b(i)
  <2>1. s \in Seq({0, 1}) /\ t \in Seq({0, 1}) /\ u[i + 1] = s \o t
    <3>1. i \in 0..n
      BY <1>1
    <3> QED
      BY <1>2, <1>3, <3>1
  <2> HIDE DEF s, t
  <2>2. Len(s) \in Nat /\ Len(t) \in Nat
    BY <2>1, SeqElements
  <2>3. /\ Len(s \o t) = Len(s) + Len(t)
        /\ \A m \in 1..Len(s) : (s \o t)[m] = s[m]
        /\ \A m \in 1..Len(t) : (s \o t)[Len(s) + m] = t[m]
    BY ONLY <2>1, Joined
  <2> QED
    BY <2>1, <2>2, <2>3 DEF s, t
<1>5. /\ before \in Nat /\ Len(own) \in Nat /\ Len(u[k + 1]) = end /\ end \in Nat
      /\ \A m \in 1..Len(own) : u[k + 1][before + m] = own[m]
  <2>1. /\ before \in Nat /\ Len(own) \in Nat /\ Len(u[k + 1]) = before + Len(own)
        /\ \A m \in 1..Len(own) : u[k + 1][before + m] = own[m]
    BY <1>1, <1>4
  <2> HIDE DEF before, own
  <2> QED
    BY <2>1
<1> HIDE DEF before, own, end
<1>6. 0 \in S
  <2>1. (k + 1) + 0 = k + 1 /\ 0 \in 0..(n - (k + 1))
    BY <1>1
  <2> QED
    BY <1>5, <2>1
<1>7. ASSUME NEW d \in 0..((n - (k + 1)) - 1), d \in S PROVE d + 1 \in S
  <2> DEFINE i == (k + 1) + d
  <2>1. i \in 0..(n - 1) /\ (k + 1) + (d + 1) = i + 1 /\ d + 1 \in 0..(n - (k + 1))
    BY <1>1
  <2>2. end <= Len(u[i]) /\ \A m \in 1..Len(own) : u[i][before + m] = own[m]
    BY <1>7
  <2> HIDE DEF i
  <2>3. /\ Len(u[i]) \in Nat /\ Len(b(i)) \in Nat /\ Len(u[i + 1]) = Len(u[i]) + Len(b(i))
        /\ \A m \in 1..Len(u[i]) : u[i + 1][m] = u[i][m]
    BY <1>4, <2>1
  <2>4. end <= Len(u[i + 1])
    BY <1>5, <2>2, <2>3
  <2>5. ASSUME NEW m \in 1..Len(own) PROVE u[i + 1][before + m] = own[m]
    <3>1. before + m \in 1..Len(u[i])
      BY <1>5, <2>2, <2>3 DEF end
    <3> QED
      BY <2>2, <2>3, <3>1
  <2> QED
    BY <2>1, <2>4, <2>5
<1> HIDE DEF S
<1>8. \A d \in 0..(n - (k + 1)) : d \in S
  BY <1>1, <1>6, <1>7, InductUpTo
<1>9. n - (k + 1) \in 0..(n - (k + 1)) /\ (k + 1) + (n - (k + 1)) = n
  BY <1>1
<1>10. end <= Len(u[n]) /\ \A m \in 1..Len(own) : u[n][before + m] = own[m]
  BY <1>8, <1>9 DEF S
<1>11. Len(u[n]) \in Nat
  <2>1. n \in 0..n
    BY <1>1
  <2> QED
    BY <1>2, <2>1, SeqElements
<1> QED
  BY <1>5, <1>10, <1>11 DEF n, u, b, before, own, end

-----------------------------------------------------------------------------
(* The decoder's samples                                                   *)

LEMMA SourceGiven ==
  ASSUME TypeOK, Conforming
  PROVE  /\ Encodable(encoded) /\ Supported(encoded) /\ Carries(stream)
         /\ \E n \in 1..Len(stream.segments) : Announced(stream, n)
BY SourceAssumption DEF TypeOK, Conforming, encoded

LEMMA Beginnings ==
  ASSUME NEW S, NEW s \in Seq(S), NEW n \in Nat, n <= Len(s)
  PROVE  \A i \in 1..n : SubSeq(s, 1, n)[i] = s[i]
OBVIOUS

(* In step with the encoder, the decoder reads the sample's difference and *)
(* is in step again.                                                       *)
LEMMA SampleRead ==
  ASSUME TypeOK, Conforming, bits = stream.scan, sample \in Nat,
         sample < SampleCount(encoded), used = encoded.ends[sample + 1]
  PROVE  LET c == ComponentOf(encoded, sample)
             d == Difference(encoded.tables[c])
         IN /\ d.value = DifferenceOf(encoded, c, ColumnOf(encoded, sample), RowOf(encoded, sample))
            /\ d.category \in Nat /\ d.category <= SampleWidth /\ d.length \in Nat
            /\ used + d.length <= Len(bits)
            /\ used + d.length = encoded.ends[(sample + 1) + 1]
<1> DEFINE e == encoded
           k == sample
           n == SampleCount(e)
           u == ScanUpTo(e)
           all == u[n]
           own == SampleBits(e, k)
           c == ComponentOf(e, k)
           x == ColumnOf(e, k)
           y == RowOf(e, k)
           table == e.tables[c]
           diff == DifferenceOf(e, c, x, y)
           d == Difference(table)
<1>1. Encodable(e) /\ Supported(e) /\ Carries(stream)
  BY SourceGiven
<1>2. bits \in Seq({0, 1}) /\ used \in Nat /\ Len(bits) \in Nat
  BY SeqElements DEF TypeOK
<1>3. /\ Len(u[k]) \in Nat /\ Len(own) \in Nat
      /\ Len(u[k + 1]) = Len(u[k]) + Len(own)
      /\ Len(u[k]) + Len(own) <= Len(all) /\ Len(all) \in Nat
      /\ \A m \in 1..Len(own) : all[Len(u[k]) + m] = own[m]
  BY <1>1, ScanHolds
<1>4. /\ \A i \in 0..n : e.ends[i + 1] = Len(u[i])
      /\ e.ends[n + 1] <= Len(bits)
      /\ SubSeq(bits, 1, e.ends[n + 1]) = all
  BY <1>1 DEF Carries, encoded
<1>5. n \in Nat /\ k \in 0..n /\ k + 1 \in 0..n /\ n \in 0..n
  <2>1. n \in Nat /\ k \in Nat /\ k < n
    BY <1>1, SampleCountType
  <2> HIDE DEF n, k
  <2> QED
    BY <2>1
<1>6. used = Len(u[k]) /\ e.ends[(k + 1) + 1] = Len(u[k + 1]) /\ e.ends[n + 1] = Len(all)
  BY <1>4, <1>5
<1>7. c \in 1..Len(e.planes) /\ x \in 0..(e.width - 1) /\ y \in 0..(e.height - 1)
  BY <1>1, SamplePosition
<1>8. own = DifferenceBits(table, diff)
  BY DEF SampleBits
<1> HIDE DEF e, k, n, u, own, c, x, y
<1>9. PICK t \in 0..15 : Coded(table, diff, t) /\ t <= SampleWidth
  BY <1>1, <1>7, SampleCoded
<1> HIDE DEF table, diff
<1>10. ComesNext(own)
  <2> SUFFICES ASSUME NEW m \in 1..Len(own) PROVE BitAt(used, m) = own[m]
    BY DEF ComesNext
  <2>1. used + m \in 1..Len(all) /\ used + m <= Len(bits)
    <3> HIDE DEF all
    <3> QED
      BY <1>2, <1>3, <1>4, <1>6
  <2>2. all[used + m] = bits[used + m]
    <3>1. Len(all) <= Len(bits)
      BY <1>4, <1>6
    <3>2. SubSeq(bits, 1, Len(all)) = all
      BY <1>4, <1>6
    <3> HIDE DEF all
    <3>3. SubSeq(bits, 1, Len(all))[used + m] = bits[used + m]
      BY <1>2, <1>3, <2>1, <3>1, Beginnings
    <3> QED
      BY <3>2, <3>3
  <2>3. all[used + m] = own[m]
    BY <1>3, <1>6
  <2>4. BitAt(used, m) = bits[used + m]
    BY <2>1 DEF BitAt
  <2> QED
    BY <2>2, <2>3, <2>4
<1>11. d = [value |-> diff, category |-> t, length |-> Len(own)]
  BY <1>2, <1>8, <1>9, <1>10, DifferenceRead
<1> HIDE DEF all, d
<1>12. d.value = diff /\ d.category = t /\ d.length = Len(own)
  BY <1>11
<1>13. used + d.length <= Len(bits) /\ used + d.length = e.ends[(k + 1) + 1]
  BY <1>2, <1>3, <1>4, <1>6, <1>12
<1> QED
  BY <1>3, <1>9, <1>12, <1>13 DEF d, e, k, c, x, y, table, diff

(* Such a sample is decoded, not filled in.                                *)
LEMMA SampleDecoded ==
  ASSUME TypeOK, Conforming, Ready, sample \in Nat,
         sample < SampleCount(encoded), used = encoded.ends[sample + 1],
         NEW clamped, NEW value,
         Decoded(Difference(encoded.tables[ComponentOf(encoded, sample)]), clamped, value)
  PROVE  value = clamped /\ used' = encoded.ends[(sample + 1) + 1]
<1> DEFINE d == Difference(encoded.tables[ComponentOf(encoded, sample)])
<1>1. /\ d.category \in Nat /\ d.category <= SampleWidth /\ d.length \in Nat
      /\ used + d.length <= Len(bits)
      /\ used + d.length = encoded.ends[(sample + 1) + 1]
  BY SampleRead DEF Ready
<1>2. Supported(encoded) /\ Encodable(encoded)
  BY SourceGiven
<1>3. frame.precision \in 2..16 /\ frame.precision <= SampleWidth
  BY <1>2 DEF Ready, Supported, Encodable
<1>4. SampleWidth \in Nat /\ used \in Nat /\ Len(bits) \in Nat
  BY LjpegAssumption, SeqElements DEF TypeOK
<1>5. Decoded(d, clamped, value)
  OBVIOUS
<1> HIDE DEF d
<1>6. ~Overflows(d)
  <2> DEFINE p == frame.precision
             t == d.category
  <2> HIDE DEF p, t
  <2>1. p \in 2..16 /\ p <= SampleWidth /\ t \in Nat /\ t <= SampleWidth
    BY <1>1, <1>3 DEF p, t
  <2>2. ~(p > SampleWidth \/ t > SampleWidth)
    BY <1>4, <2>1
  <2> QED
    BY <2>2 DEF Overflows, p, t
<1>7. ~(used + d.length > Len(bits))
  BY <1>1, <1>4
<1>8. value = clamped /\ used' = used + d.length
  BY <1>5, <1>6, <1>7 DEF Decoded
<1> QED
  BY <1>1, <1>8

-----------------------------------------------------------------------------
(* What the decoder knows before the scan                                  *)

LEMMA ReadyMeans ==
  ASSUME TypeOK, Conforming, Ready
  PROVE  /\ Initial = Half(encoded)
         /\ encoded.precision \in 2..16 /\ encoded.precision <= SampleWidth
         /\ encoded.transform \in 0..(encoded.precision - 1)
         /\ encoded.selection \in 1..7
         /\ MaxVal = Pow2[encoded.precision] - 1
         /\ encoded.width \in Nat \ {0} /\ encoded.height \in Nat \ {0}
         /\ Len(encoded.planes) = 1 =>
              Width = encoded.width /\ Height = encoded.height
         /\ Len(encoded.planes) # 1 =>
              /\ Len(encoded.planes) = 4 /\ encoded.selection = 1
              /\ Width = 2 * encoded.width /\ Height = 2 * encoded.height
<1> DEFINE e == encoded
           p == e.precision
           t == e.transform
<1>1. Encodable(e) /\ Supported(e)
  BY SourceGiven
<1>2. p \in 2..16 /\ t \in 0..(p - 1) /\ e.selection \in 1..7 /\ e.width \in Nat \ {0} /\ e.height \in Nat \ {0}
  BY <1>1 DEF Encodable
<1>3. p <= SampleWidth /\ (Len(e.planes) = 1 \/ (Len(e.planes) = 4 /\ e.selection = 1))
  BY <1>1 DEF Supported
<1>4. frame.precision = p /\ point_transform = t /\ <<Width, Height>> = ImageSize(e)
  BY DEF Ready
<1>5. MaxVal = Pow2[p] - 1
  BY <1>4 DEF MaxVal
<1>6. Initial = Pow2[Sub(Sub(p, t), 1)]
  BY <1>4 DEF Initial
<1>7. Half(e) = Pow2[p - t - 1]
  BY DEF Half
<1>8. Len(e.planes) = 1 => Width = e.width /\ Height = e.height
  BY <1>4 DEF ImageSize
<1>9. Len(e.planes) # 1 => Width = 2 * e.width /\ Height = 2 * e.height
  BY <1>4 DEF ImageSize
<1> HIDE DEF p, t
<1>10. Sub(Sub(p, t), 1) = p - t - 1
  BY <1>2 DEF Sub
<1>11. Initial = Half(e)
  BY <1>6, <1>7, <1>10
<1> HIDE DEF e
<1> QED
  BY <1>2, <1>3, <1>5, <1>8, <1>9, <1>11 DEF p, t, e

(* The samples of the image are of the range that the clamps leave alone,  *)
(* and the point transform takes them to the range of the output.          *)
LEMMA SampleFits ==
  ASSUME TypeOK, Conforming, Ready, NEW c \in 1..Len(encoded.planes),
         NEW x \in 0..(encoded.width - 1), NEW y \in 0..(encoded.height - 1)
  PROVE  LET v == encoded.planes[c][x][y]
         IN /\ v \in Nat /\ v <= MaxVal /\ MaxVal \in Nat
            /\ (v * Pow2[encoded.transform]) % Pow2[SampleWidth] = v * Pow2[encoded.transform]
<1> DEFINE p == encoded.precision
           t == encoded.transform
           v == encoded.planes[c][x][y]
           a == Pow2[p - t]
           b == Pow2[t]
           s == Pow2[SampleWidth]
           m == Pow2[p]
<1>1. /\ p \in 2..16 /\ p <= SampleWidth /\ t \in 0..(p - 1) /\ MaxVal = m - 1
  BY ReadyMeans
<1>2. v \in Nat /\ v < a
  BY SourceGiven, PlaneType
<1>3. SampleWidth \in Nat
  BY LjpegAssumption
<1> HIDE DEF p, t, v
<1>4. p \in Nat /\ t \in Nat /\ p - t \in Nat /\ (p - t) + t = p
  BY <1>1
<1>5. /\ a \in Nat \ {0} /\ b \in Nat \ {0} /\ s \in Nat \ {0} /\ m \in Nat \ {0}
      /\ m = a * b /\ m <= s
  <2>1. a \in Nat \ {0} /\ b \in Nat \ {0} /\ s \in Nat \ {0} /\ m \in Nat \ {0}
    BY <1>3, <1>4, PowDoubles
  <2>2. Pow2[(p - t) + t] = a * b
    BY <1>4, PowAdds
  <2>3. m <= s
    BY <1>1, <1>3, <1>4, PowGrows
  <2> QED
    BY <1>4, <2>1, <2>2, <2>3
<1> HIDE DEF a, b, s, m
<1>6. v <= m - 1 /\ m - 1 \in Nat
  <2>1. a <= a * b
    BY <1>5
  <2> QED
    BY <1>2, <1>5, <2>1
<1>7. v * b \in Nat /\ v * b < s
  <2>1. v + 1 <= a
    BY <1>2, <1>5
  <2>2. (v + 1) * b <= a * b
    BY <1>2, <1>5, <2>1
  <2>3. (v + 1) * b = v * b + b /\ v * b \in Nat
    BY <1>2, <1>5
  <2> DEFINE r == v * b
             q == a * b
  <2> HIDE DEF r, q
  <2>4. r + b <= q /\ r \in Nat /\ q = m
    BY <1>5, <2>2, <2>3 DEF r, q
  <2>5. r < s
    BY <1>5, <2>4
  <2> QED
    BY <2>4, <2>5 DEF r
<1>8. (v * b) % s = v * b
  <2> DEFINE r == v * b
  <2> HIDE DEF r
  <2>1. r \in Nat /\ r < s
    BY <1>7 DEF r
  <2>2. r % s = r
    BY <1>5, <2>1
  <2> QED
    BY <2>2 DEF r
<1> QED
  BY <1>1, <1>2, <1>6, <1>8 DEF v, b, s, t

-----------------------------------------------------------------------------
(* One component                                                           *)

LEMMA SameHeader ==
  ASSUME UNCHANGED <<stream, header, bits>>
  PROVE  /\ encoded' = encoded /\ Width' = Width /\ Height' = Height
         /\ Conforming' = Conforming /\ Ready' = Ready
<1>1. /\ stream' = stream /\ frame' = frame /\ huffman_dc' = huffman_dc
      /\ predictor' = predictor /\ point_transform' = point_transform /\ bits' = bits
  BY DEF header
<1>2. encoded' = encoded /\ Width' = Width /\ Height' = Height
  BY <1>1 DEF encoded, Width, Height
<1>3. Conforming' = Conforming
  BY <1>1 DEF Conforming
<1>4. Ready' = Ready
  BY <1>1, <1>2 DEF Ready
<1> QED
  BY <1>2, <1>3, <1>4

(* What decode_scan reads left of (x, y) and above.                        *)
Neighbours(plane, x, y, half, ra, rb, rc) ==
  /\ x \in Nat /\ y \in Nat
  /\ x > 0 => ra = plane[x - 1][y]
  /\ x = 0 => ra = half
  /\ y > 0 => rb = plane[x][y - 1]
  /\ y = 0 => rb = half
  /\ x > 0 /\ y > 0 => rc = plane[x - 1][y - 1]

(* Table H.1 names the same.                                               *)
LEMMA OnePredicts ==
  ASSUME NEW plane, NEW x, NEW y, NEW half, NEW ra, NEW rb, NEW rc,
         Neighbours(plane, x, y, half, ra, rb, rc), predictor \in 1..7
  PROVE  (IF x = 0 /\ y = 0 THEN half
          ELSE IF y = 0 THEN ra
          ELSE IF x = 0 THEN rb
          ELSE Predict(ra, rb, rc)) = Predicted(plane, x, y, predictor, half)
<1> USE DEF Neighbours
<1>1. (x = 0 \/ x > 0) /\ (y = 0 \/ y > 0) /\ (x > 0 => x # 0) /\ (y > 0 => y # 0)
  OBVIOUS
<1>2. Predict(ra, rb, rc) = Prediction(predictor, ra, rb, rc)
  BY DEF Predict, Prediction
<1>3. CASE x = 0 /\ y = 0
  BY <1>1, <1>3 DEF Predicted
<1>4. CASE x > 0 /\ y = 0
  BY <1>1, <1>4 DEF Predicted
<1>5. CASE x = 0 /\ y > 0
  BY <1>1, <1>5 DEF Predicted
<1>6. CASE x > 0 /\ y > 0
  BY <1>1, <1>2, <1>6 DEF Predicted
<1> QED
  BY <1>1, <1>3, <1>4, <1>5, <1>6

(* The neighbours of a sample come before it.                              *)
LEMMA NeighboursBefore ==
  ASSUME NEW w \in Nat \ {0}, NEW x \in 0..(w - 1), NEW y \in Nat
  PROVE  /\ x > 0 => y * w + (x - 1) < y * w + x
         /\ y > 0 => (y - 1) * w + x < y * w + x
         /\ x > 0 /\ y > 0 => (y - 1) * w + (x - 1) < y * w + x
         /\ x > 0 => (y * w + x) - 1 = y * w + (x - 1)
         /\ y > 0 => (y * w + x) - w = (y - 1) * w + x
         /\ x > 0 /\ y > 0 => (y * w + x) - w - 1 = (y - 1) * w + (x - 1)
<1> DEFINE m == y * w
<1>1. m \in Nat /\ (y - 1) * w = m - w
  OBVIOUS
<1> HIDE DEF m
<1>2. /\ m + (x - 1) < m + x /\ (m - w) + x < m + x /\ (m - w) + (x - 1) < m + x
      /\ (m + x) - 1 = m + (x - 1) /\ (m + x) - w = (m - w) + x
      /\ (m + x) - w - 1 = (m - w) + (x - 1)
  BY <1>1
<1> QED
  BY <1>1, <1>2 DEF m

(* decode_scan predicts as the encoder did.                                *)
LEMMA OnePredicted ==
  ASSUME IInv, Conforming, Ready, Progress, pc = "scan", Len(encoded.planes) = 1,
         sample < SampleCount(encoded)
  PROVE  LET x == sample % Width
             y == sample \div Width
             ra == IF x > 0 THEN output[sample - 1] ELSE Initial
             rb == IF y > 0 THEN output[sample - Width] ELSE Initial
             rc == IF x > 0 /\ y > 0 THEN output[sample - Width - 1] ELSE Initial
         IN (IF x = 0 /\ y = 0 THEN Initial
             ELSE IF y = 0 THEN ra
             ELSE IF x = 0 THEN rb
             ELSE Predict(ra, rb, rc))
            = Predicted(encoded.planes[1], x, y, encoded.selection, Half(encoded))
<1> DEFINE w == encoded.width
           x == sample % w
           y == sample \div w
           ra == IF x > 0 THEN output[sample - 1] ELSE Initial
           rb == IF y > 0 THEN output[sample - w] ELSE Initial
           rc == IF x > 0 /\ y > 0 THEN output[sample - w - 1] ELSE Initial
           plane == encoded.planes[1]
           half == Half(encoded)
<1>1. /\ Initial = half /\ encoded.selection \in 1..7 /\ w \in Nat \ {0}
      /\ encoded.height \in Nat \ {0} /\ Width = w /\ Height = encoded.height
  BY ReadyMeans DEF IInv
<1>2. predictor = encoded.selection
  BY DEF Ready
<1>3. sample \in Nat
  BY Sizes DEF IInv, ScanInv
<1>4. sample < 1 * (w * encoded.height)
  BY DEF SampleCount
<1>5. x \in 0..(w - 1) /\ y \in 0..(encoded.height - 1) /\ sample = y * w + x
  <2> DEFINE s == sample
             h == encoded.height
             v == w
  <2>1. s \in Nat /\ v \in Nat \ {0} /\ h \in Nat /\ v * h \in Nat /\ s < v * h
    <3>1. w * encoded.height \in Nat
      BY <1>1
    <3>2. 1 * (w * encoded.height) = w * encoded.height
      BY <3>1
    <3> QED
      BY <1>1, <1>3, <1>4, <3>1, <3>2
  <2> HIDE DEF s, h, v
  <2>2. s \div v \in Nat /\ s \div v < h
    BY <2>1, QuotientBelow
  <2>3. s % v \in 0..(v - 1) /\ s = (s \div v) * v + (s % v)
    BY <2>1, Divide
  <2> DEFINE q == s \div v
  <2> HIDE DEF q
  <2>4. q \in 0..(h - 1)
    BY <2>1, <2>2 DEF q
  <2> QED
    BY <2>3, <2>4 DEF q, s, v, h
<1>6. \A i \in 0..(w - 1), j \in 0..(encoded.height - 1) :
        j * w + i < sample => output[j * w + i] = plane[i][j]
  BY <1>1 DEF Progress, ScanIndex, SampleAt
<1> HIDE DEF w, x, y, plane, half
<1>7. x \in Nat /\ y \in Nat
  BY <1>5
<1>8. /\ x > 0 => x - 1 \in 0..(w - 1)
      /\ y > 0 => y - 1 \in 0..(encoded.height - 1)
  <2> DEFINE h == encoded.height
  <2>1. y \in 0..(h - 1) /\ h \in Nat
    BY <1>1, <1>5
  <2> HIDE DEF h
  <2>2. y > 0 => y - 1 \in 0..(h - 1)
    BY <2>1
  <2>3. x > 0 => x - 1 \in 0..(w - 1)
    BY <1>1, <1>5
  <2> QED
    BY <2>2, <2>3 DEF h
<1>9. /\ x > 0 => y * w + (x - 1) < sample /\ sample - 1 = y * w + (x - 1)
      /\ y > 0 => (y - 1) * w + x < sample /\ sample - w = (y - 1) * w + x
      /\ x > 0 /\ y > 0 => /\ (y - 1) * w + (x - 1) < sample
                          /\ sample - w - 1 = (y - 1) * w + (x - 1)
  BY <1>1, <1>5, <1>7, NeighboursBefore
<1>10. /\ x > 0 => ra = plane[x - 1][y]
       /\ x = 0 => ra = half
  <2>1. CASE x > 0
    BY <1>5, <1>6, <1>8, <1>9, <1>7, <2>1
  <2>2. CASE ~(x > 0)
    BY <1>1, <1>7, <2>2
  <2> QED
    BY <2>1, <2>2
<1>11. /\ y > 0 => rb = plane[x][y - 1]
       /\ y = 0 => rb = half
  <2>1. CASE y > 0
    BY <1>5, <1>6, <1>8, <1>9, <1>7, <2>1
  <2>2. CASE ~(y > 0)
    BY <1>1, <1>7, <2>2
  <2> QED
    BY <2>1, <2>2
<1>12. x > 0 /\ y > 0 => rc = plane[x - 1][y - 1]
  BY <1>5, <1>6, <1>8, <1>9
<1> HIDE DEF ra, rb, rc
<1>13. predictor \in 1..7
  BY <1>1, <1>2
<1>14. (IF x = 0 /\ y = 0 THEN half ELSE IF y = 0 THEN ra ELSE IF x = 0 THEN rb
        ELSE Predict(ra, rb, rc)) = Predicted(plane, x, y, predictor, half)
  <2>1. Neighbours(plane, x, y, half, ra, rb, rc)
    BY <1>7, <1>10, <1>11, <1>12 DEF Neighbours
  <2> QED
    BY <1>13, <2>1, OnePredicts
<1> QED
  BY <1>1, <1>2, <1>14 DEF ra, rb, rc, x, y, w, plane, half

LEMMA OnePosition ==
  ASSUME NEW e, Encodable(e), Len(e.planes) = 1, NEW k \in Nat, k < SampleCount(e)
  PROVE  /\ ComponentOf(e, k) = 1 /\ 1 \in 1..Len(e.planes)
         /\ ColumnOf(e, k) = k % e.width /\ RowOf(e, k) = k \div e.width
         /\ k % e.width \in 0..(e.width - 1) /\ k \div e.width \in 0..(e.height - 1)
<1>1. k % 1 = 0 /\ k \div 1 = k
  OBVIOUS
<1>2. /\ ComponentOf(e, k) = (k % 1) + 1
      /\ ColumnOf(e, k) = (k \div 1) % e.width
      /\ RowOf(e, k) = (k \div 1) \div e.width
  BY DEF ComponentOf, ColumnOf, RowOf
<1>3. ColumnOf(e, k) \in 0..(e.width - 1) /\ RowOf(e, k) \in 0..(e.height - 1)
  BY SamplePosition
<1> QED
  BY <1>1, <1>2, <1>3

LEMMA OneSampleCount ==
  ASSUME NEW e, Encodable(e), Len(e.planes) = 1
  PROVE  SampleCount(e) = e.width * e.height
<1> DEFINE w == e.width
           h == e.height
<1>1. w \in Nat /\ h \in Nat
  BY DEF Encodable
<1>2. SampleCount(e) = 1 * (w * h)
  BY DEF SampleCount
<1> HIDE DEF w, h
<1>3. 1 * (w * h) = w * h
  BY <1>1
<1> QED
  BY <1>2, <1>3 DEF w, h

(* Progress, after a sample.                                               *)
LEMMA ProgressKept ==
  ASSUME UNCHANGED <<stream, header>>, used' = encoded.ends[sample' + 1],
         \A x \in 0..(Width - 1), y \in 0..(Height - 1) :
           ScanIndex(x, y) < sample' => output'[y * Width + x] = SampleAt(encoded, x, y),
         Len(encoded.planes) = 4 => (\A c \in 0..3 : PrevInv(c, (sample + 3 - c) \div 4))'
  PROVE  Progress'
<1>1. stream' = stream /\ frame' = frame
  BY DEF header
<1>2. encoded' = encoded /\ Width' = Width /\ Height' = Height
  BY <1>1 DEF encoded, Width, Height
<1>3. \A x, y : ScanIndex(x, y)' = ScanIndex(x, y)
  BY <1>2 DEF ScanIndex
<1>4. (used = encoded.ends[sample + 1])'
  BY <1>2
<1>5. (\A x \in 0..(Width - 1), y \in 0..(Height - 1) :
         ScanIndex(x, y) < sample => output[y * Width + x] = SampleAt(encoded, x, y))'
  BY <1>2, <1>3
<1>6. (Len(encoded.planes) = 4 => \A c \in 0..3 : PrevInv(c, (sample + 3 - c) \div 4))'
  BY <1>2
<1> QED
  BY <1>4, <1>5, <1>6 DEF Progress

LEMMA OneComponentDecodes ==
  ASSUME IInv, DecodeInv, OneComponentSample
  PROVE  DecodeInv'
<1>1. /\ UNCHANGED <<stream, header, bits>> /\ pc = "scan" /\ pc' = pc /\ sample' = sample + 1
      /\ Len(frame.components) = 1 /\ sample < Width * Height
  BY DEF OneComponentSample
<1>2. Conforming' = Conforming /\ Ready' = Ready /\ encoded' = encoded
  BY <1>1, SameHeader
<1>3. CASE ~Conforming
  BY <1>2, <1>3 DEF DecodeInv
<1>4. CASE Conforming
  <2>1. TypeOK /\ Ready /\ Progress
    BY <1>1, <1>4 DEF DecodeInv, IInv
  <2>2. Len(encoded.planes) = 1 /\ Encodable(encoded)
    BY <1>1, <1>4, <2>1, SourceGiven DEF Ready
  <2> DEFINE w == encoded.width
             h == encoded.height
             x == sample % w
             y == sample \div w
             v == encoded.planes[1][x][y]
             d == Difference(encoded.tables[1])
             predicted == Predicted(encoded.planes[1], x, y, encoded.selection, Half(encoded))
             clamp(n) == IF n < 0 \/ n > MaxVal THEN MaxVal ELSE n
  <2>3. Width = w /\ Height = h /\ w \in Nat \ {0} /\ h \in Nat \ {0}
    BY <1>4, <2>1, <2>2, ReadyMeans
  <2>4. sample \in Nat /\ sample < SampleCount(encoded)
    <3>1. sample \in Nat
      BY <1>1, Sizes DEF IInv, ScanInv
    <3> QED
      BY <1>1, <2>2, <2>3, <3>1, OneSampleCount
  <2>5. /\ ComponentOf(encoded, sample) = 1 /\ 1 \in 1..Len(encoded.planes)
        /\ ColumnOf(encoded, sample) = x /\ RowOf(encoded, sample) = y
        /\ x \in 0..(w - 1) /\ y \in 0..(h - 1)
    BY <2>2, <2>4, OnePosition
  <2>6. huffman_dc[frame.components[1].dc_table] = encoded.tables[1]
    BY <2>1, <2>5 DEF Ready
  <2>7. PICK value : /\ Decoded(d, clamp(predicted + d.value), value)
                     /\ output' = [output EXCEPT ![sample] = value]
    <3>1. predicted = LET i == sample % Width
                          j == sample \div Width
                          ra == IF i > 0 THEN output[sample - 1] ELSE Initial
                          rb == IF j > 0 THEN output[sample - Width] ELSE Initial
                          rc == IF i > 0 /\ j > 0 THEN output[sample - Width - 1] ELSE Initial
                      IN IF i = 0 /\ j = 0 THEN Initial
                         ELSE IF j = 0 THEN ra
                         ELSE IF i = 0 THEN rb
                         ELSE Predict(ra, rb, rc)
      BY <1>1, <1>4, <2>1, <2>2, <2>3, <2>4, OnePredicted
    <3> HIDE DEF predicted
    <3> QED
      BY <2>6, <3>1 DEF OneComponentSample
  <2>8. d.value = v - predicted
    BY <1>4, <2>1, <2>4, <2>5, SampleRead DEF Ready, Progress, DifferenceOf
  <2>9. value = clamp(predicted + d.value) /\ used' = encoded.ends[(sample + 1) + 1]
    BY <1>4, <2>1, <2>4, <2>5, <2>7, SampleDecoded DEF Progress
  <2>10. v \in Nat /\ v <= MaxVal /\ MaxVal \in Nat /\ predicted \in Int
    BY <1>4, <2>1, <2>2, <2>5, SampleFits, PredictedType
  <2>11. value = v
    <3> DEFINE m == MaxVal
    <3>1. v \in Nat /\ v <= m /\ m \in Nat /\ predicted \in Int
      BY <2>10
    <3> HIDE DEF v, predicted, m
    <3>2. predicted + (v - predicted) = v /\ ~(v < 0) /\ ~(v > m)
      BY <3>1
    <3> QED
      BY <2>8, <2>9, <3>2 DEF m
  <2>12. ASSUME NEW i \in 0..(Width - 1), NEW j \in 0..(Height - 1), ScanIndex(i, j) < sample'
         PROVE  output'[j * Width + i] = SampleAt(encoded, i, j)
    <3>1. ScanIndex(i, j) = j * w + i /\ SampleAt(encoded, i, j) = encoded.planes[1][i][j]
      BY <2>2 DEF ScanIndex, SampleAt
    <3>2. i \in 0..(w - 1) /\ j \in Nat /\ j * w + i \in Nat /\ j * w + i < sample + 1
      <4>1. i \in 0..(w - 1) /\ j \in Nat
        BY <2>3
      <4>2. j * w \in Nat
        BY <2>3, <4>1
      <4> QED
        BY <1>1, <2>12, <3>1, <4>1, <4>2
    <3>3. (j * w + i) % w = i /\ (j * w + i) \div w = j
      BY <2>3, <3>2, DivideUnique
    <3>4. sample \in DOMAIN output
      <4>1. output \in [0..(Width * Height - 1) -> 0..Largest]
        BY <1>1 DEF IInv, ScanInv
      <4>2. Width * Height \in Nat
        BY <2>3
      <4>3. sample \in 0..(Width * Height - 1)
        BY <1>1, <2>4, <4>2
      <4> QED
        BY <4>1, <4>3
    <3>5. CASE j * w + i = sample
      <4>1. output'[sample] = value
        BY <2>7, <3>4
      <4> QED
        BY <2>3, <2>11, <3>1, <3>3, <3>5, <4>1
    <3>6. CASE j * w + i # sample
      <4> DEFINE p == j * w + i
      <4>1. p < sample /\ p \in Nat
        <5> HIDE DEF p
        <5>1. p \in Nat /\ p < sample + 1 /\ p # sample
          BY <3>2, <3>6 DEF p
        <5> QED
          BY <2>4, <5>1
      <4>2. output[p] = SampleAt(encoded, i, j)
        BY <2>1, <2>3, <3>1, <4>1 DEF Progress
      <4>3. output'[p] = output[p]
        <5> HIDE DEF p
        <5>1. p # sample /\ p \in DOMAIN output
          <6>1. output \in [0..(Width * Height - 1) -> 0..Largest]
            BY <1>1 DEF IInv, ScanInv
          <6>2. Width * Height \in Nat
            BY <2>3
          <6>3. p \in 0..(Width * Height - 1)
            BY <1>1, <2>4, <4>1, <6>2
          <6> QED
            BY <3>6, <6>1, <6>3 DEF p
        <5> QED
          BY <2>7, <5>1
      <4> QED
        BY <2>3, <4>2, <4>3
    <3> QED
      BY <3>5, <3>6
  <2>13. Progress'
    BY <1>1, <2>2, <2>9, <2>12, ProgressKept
  <2> QED
    BY <1>1, <1>2, <2>1, <2>13 DEF DecodeInv
<1> QED
  BY <1>3, <1>4

-----------------------------------------------------------------------------
(* Four components                                                         *)

LEMMA FourParts ==
  ASSUME NEW s \in Nat
  PROVE  /\ s \div 4 \in Nat /\ s % 4 \in 0..3 /\ s = 4 * (s \div 4) + (s % 4)
         /\ (s + 3 - (s % 4)) \div 4 = s \div 4
         /\ ((s + 1) + 3 - (s % 4)) \div 4 = (s \div 4) + 1
         /\ \A d \in 0..3 : d # s % 4 => ((s + 1) + 3 - d) \div 4 = (s + 3 - d) \div 4
<1> DEFINE q == s \div 4
           c == s % 4
<1>1. q \in Nat /\ c \in 0..3 /\ s = 4 * q + c
  OBVIOUS
<1> HIDE DEF q, c
<1>2. (s + 3 - c) \div 4 = q /\ ((s + 1) + 3 - c) \div 4 = q + 1
  BY <1>1
<1>3. ASSUME NEW d \in 0..3, d # c PROVE ((s + 1) + 3 - d) \div 4 = (s + 3 - d) \div 4
  <2>1. CASE d < c
    <3>1. (s + 3 - d) \div 4 = q + 1 /\ ((s + 1) + 3 - d) \div 4 = q + 1
      BY <1>1, <2>1
    <3> QED
      BY <3>1
  <2>2. CASE d > c
    <3>1. (s + 3 - d) \div 4 = q /\ ((s + 1) + 3 - d) \div 4 = q
      BY <1>1, <2>2
    <3> QED
      BY <3>1
  <2> QED
    BY <1>1, <1>3, <2>1, <2>2
<1> QED
  BY <1>1, <1>2, <1>3 DEF q, c

LEMMA FourPosition ==
  ASSUME NEW e, Encodable(e), Len(e.planes) = 4, NEW k \in Nat, k < SampleCount(e)
  PROVE  LET q == k \div 4
             x == q % e.width
             y == q \div e.width
         IN /\ ComponentOf(e, k) = (k % 4) + 1 /\ (k % 4) + 1 \in 1..Len(e.planes)
            /\ ColumnOf(e, k) = x /\ RowOf(e, k) = y
            /\ x \in 0..(e.width - 1) /\ y \in 0..(e.height - 1)
            /\ q = y * e.width + x
<1> DEFINE w == e.width
           h == e.height
<1>1. w \in Nat \ {0} /\ h \in Nat \ {0}
  BY DEF Encodable
<1>2. k < 4 * (w * h) /\ 4 \in Nat \ {0}
  BY DEF SampleCount
<1> HIDE DEF w, h
<1>3. /\ (k % 4) + 1 \in 1..4
      /\ (k \div 4) % w \in 0..(w - 1)
      /\ (k \div 4) \div w \in 0..(h - 1)
      /\ k \div 4 = ((k \div 4) \div w) * w + ((k \div 4) % w)
  BY <1>1, <1>2, PositionInside
<1> QED
  BY <1>3 DEF w, h, ComponentOf, ColumnOf, RowOf

LEMMA FourSampleCount ==
  ASSUME NEW e, Len(e.planes) = 4
  PROVE  SampleCount(e) = 4 * (e.width * e.height)
BY DEF SampleCount

(* The sample before in its component, and the last of its first column.   *)
PrevOf(plane, w, half, count, last, first) ==
  IF count = 0 THEN last = half /\ first = half
  ELSE /\ last = plane[(count - 1) % w][(count - 1) \div w]
       /\ first = plane[0][(count - 1) \div w]

LEMMA FourPredicts ==
  ASSUME NEW plane, NEW w \in Nat \ {0}, NEW half, NEW x \in 0..(w - 1), NEW y \in Nat,
         NEW last, NEW first, PrevOf(plane, w, half, y * w + x, last, first)
  PROVE  (IF x > 0 THEN last ELSE IF y = 0 THEN half ELSE first)
           = Predicted(plane, x, y, 1, half)
<1> DEFINE q == y * w + x
<1>1. CASE x > 0
  <2>1. q # 0 /\ q - 1 = y * w + (x - 1) /\ x - 1 \in 0..(w - 1)
    <3>1. y * w \in Nat
      OBVIOUS
    <3> QED
      BY <1>1, <3>1
  <2>2. (q - 1) % w = x - 1 /\ (q - 1) \div w = y
    BY <2>1, DivideUnique
  <2> HIDE DEF q
  <2>3. last = plane[x - 1][y]
    <3>1. PrevOf(plane, w, half, q, last, first)
      BY DEF q
    <3> QED
      BY <2>1, <2>2, <3>1 DEF PrevOf
  <2>4. x # 0 /\ (y = 0 \/ y > 0)
    BY <1>1
  <2>5. Predicted(plane, x, y, 1, half) = plane[x - 1][y]
    BY <1>1, <2>4 DEF Predicted, Prediction
  <2> QED
    BY <1>1, <2>3, <2>5
<1>2. CASE x = 0 /\ y = 0
  BY <1>2 DEF Predicted
<1>3. CASE x = 0 /\ y > 0
  <2>1. q # 0 /\ q - 1 = (y - 1) * w + (w - 1) /\ w - 1 \in 0..(w - 1) /\ y - 1 \in Nat
    <3>1. y * w \in Nat /\ (y - 1) * w = y * w - w /\ y * w >= w
      BY <1>3
    <3> DEFINE m == y * w
               n == (y - 1) * w
    <3> HIDE DEF m, n
    <3>2. m \in Nat /\ n = m - w /\ m >= w
      BY <3>1 DEF m, n
    <3>3. m + 0 # 0 /\ (m + 0) - 1 = n + (w - 1)
      BY <3>2
    <3> QED
      BY <1>3, <3>3 DEF m, n
  <2>2. (q - 1) \div w = y - 1
    BY <2>1, DivideUnique
  <2> HIDE DEF q
  <2>3. first = plane[0][y - 1]
    <3>1. PrevOf(plane, w, half, q, last, first)
      BY DEF q
    <3> QED
      BY <2>1, <2>2, <3>1 DEF PrevOf
  <2>4. y # 0
    BY <1>3
  <2>5. Predicted(plane, x, y, 1, half) = plane[0][y - 1]
    BY <1>3, <2>4 DEF Predicted
  <2> QED
    BY <1>3, <2>3, <2>4, <2>5
<1> QED
  BY <1>1, <1>2, <1>3

LEMMA FourKeeps ==
  ASSUME NEW plane, NEW w \in Nat \ {0}, NEW half, NEW x \in 0..(w - 1), NEW y \in Nat,
         NEW last, NEW first, PrevOf(plane, w, half, y * w + x, last, first)
  PROVE  PrevOf(plane, w, half, (y * w + x) + 1, plane[x][y],
                IF x = 0 THEN plane[x][y] ELSE first)
<1> DEFINE q == y * w + x
<1>1. q \in Nat /\ q % w = x /\ q \div w = y
  <2>1. y * w \in Nat
    OBVIOUS
  <2> QED
    BY <2>1, DivideUnique
<1>2. PrevOf(plane, w, half, q, last, first)
  OBVIOUS
<1>3. x # 0 => (q # 0 /\ (q - 1) \div w = y)
  <2> SUFFICES ASSUME x # 0 PROVE q # 0 /\ (q - 1) \div w = y
    OBVIOUS
  <2>1. q # 0 /\ q - 1 = y * w + (x - 1) /\ x - 1 \in 0..(w - 1)
    <3>1. y * w \in Nat
      OBVIOUS
    <3> QED
      BY <3>1
  <2> QED
    BY <2>1, DivideUnique
<1> HIDE DEF q
<1>4. q + 1 # 0 /\ (q + 1) - 1 = q
  BY <1>1
<1>5. PrevOf(plane, w, half, q + 1, plane[x][y], IF x = 0 THEN plane[x][y] ELSE first)
  BY <1>1, <1>2, <1>3, <1>4 DEF PrevOf
<1> QED
  BY <1>5 DEF q

(* Where decode_scan puts a sample: its place in the order of the scan and *)
(* its position in the image determine each other.                         *)
PlacesAgree(w, i, j, s) ==
  LET q == s \div 4
      c == s % 4
      index == 4 * ((j \div 2) * w + (i \div 2)) + 2 * (j % 2) + (i % 2)
      place == ((q \div w) * 2 + c \div 2) * (2 * w) + ((q % w) * 2) + (c % 2)
  IN /\ index \in Nat
     /\ index = s => /\ j * (2 * w) + i = place
                     /\ q \div w = j \div 2 /\ q % w = i \div 2
                     /\ c = 2 * (j % 2) + (i % 2)
     /\ j * (2 * w) + i = place => index = s

LEMMA FourPlaces ==
  ASSUME NEW w \in Nat \ {0}, NEW i \in 0..(2 * w - 1), NEW j \in Nat, NEW s \in Nat
  PROVE  PlacesAgree(w, i, j, s)
<1> DEFINE q == s \div 4
           c == s % 4
           a == j \div 2
           b == i \div 2
           g == j % 2
           f == i % 2
           r == q \div w
           k == q % w
           index == 4 * (a * w + b) + 2 * g + f
           place == (r * 2 + c \div 2) * (2 * w) + (k * 2) + (c % 2)
<1>1. a \in Nat /\ g \in {0, 1} /\ j = 2 * a + g
  OBVIOUS
<1>2. b \in 0..(w - 1) /\ f \in {0, 1} /\ i = 2 * b + f
  OBVIOUS
<1>3. q \in Nat /\ c \in 0..3 /\ s = 4 * q + c
  BY FourParts
<1>4. r \in Nat /\ k \in 0..(w - 1) /\ q = r * w + k
  <2> HIDE DEF q
  <2> QED
    BY <1>3, Divide
<1> HIDE DEF a, b, g, f
<1>5. a * w \in Nat
  BY <1>1
<1>6. index \in Nat
  <2> DEFINE n == a * w
  <2> HIDE DEF n
  <2>1. 4 * (n + b) + 2 * g + f \in Nat
    BY <1>1, <1>2, <1>5 DEF n
  <2> QED
    BY <2>1 DEF n
<1>7. ASSUME index = s
      PROVE  q = a * w + b /\ c = 2 * g + f /\ r = a /\ k = b /\ c \div 2 = g /\ c % 2 = f
  <2>1. q = a * w + b /\ c = 2 * g + f
    <3> DEFINE n == a * w
    <3> HIDE DEF n, q, c
    <3>1. 4 * (n + b) + 2 * g + f = 4 * q + c /\ n \in Nat
      BY <1>3, <1>5, <1>7 DEF n
    <3>2. q = n + b /\ c = 2 * g + f
      BY <1>1, <1>2, <1>3, <3>1
    <3> QED
      BY <3>2 DEF n
  <2> HIDE DEF q, c
  <2>2. r = a /\ k = b
    BY <1>1, <1>2, <2>1, DivideUnique
  <2>3. c \div 2 = g /\ c % 2 = f
    BY <1>1, <1>2, <2>1
  <2> QED
    BY <2>1, <2>2, <2>3
<1>8. index = s => j * (2 * w) + i = place /\ r = a /\ k = b /\ c = 2 * g + f
  <2> SUFFICES ASSUME index = s
               PROVE  j * (2 * w) + i = place /\ r = a /\ k = b /\ c = 2 * g + f
    OBVIOUS
  <2>1. r = a /\ k = b /\ c = 2 * g + f /\ c \div 2 = g /\ c % 2 = f
    BY <1>7
  <2>2. r * 2 + c \div 2 = j /\ (k * 2) + (c % 2) = i
    <3> HIDE DEF r, k, c
    <3> QED
      BY <1>1, <1>2, <2>1
  <2>3. place = (r * 2 + c \div 2) * (2 * w) + ((k * 2) + (c % 2))
    <3> DEFINE m == (r * 2 + c \div 2) * (2 * w)
               n == k * 2
               l == c % 2
    <3>1. m \in Nat /\ n \in Nat /\ l \in Nat
      <4> HIDE DEF r, k, c
      <4>1. r * 2 + c \div 2 \in Nat /\ 2 * w \in Nat
        BY <1>1, <2>2
      <4> DEFINE u == r * 2 + c \div 2
                 z == 2 * w
      <4> HIDE DEF u, z
      <4>2. u * z \in Nat
        BY <4>1 DEF u, z
      <4>3. k * 2 \in Nat /\ c % 2 \in Nat
        BY <1>3, <1>4
      <4> QED
        BY <4>2, <4>3 DEF u, z
    <3> HIDE DEF m, n, l
    <3>2. m + n + l = m + (n + l)
      BY <3>1
    <3> QED
      BY <3>2 DEF m, n, l
  <2> HIDE DEF r, k, c, q, place
  <2> QED
    BY <2>1, <2>2, <2>3
<1>9. j * (2 * w) + i = place => index = s
  <2> SUFFICES ASSUME j * (2 * w) + i = place PROVE index = s
    OBVIOUS
  <2> DEFINE y == r * 2 + c \div 2
             x == k * 2 + (c % 2)
             v == 2 * w
  <2> HIDE DEF r, k, c, q
  <2>1. c \div 2 \in {0, 1} /\ c % 2 \in {0, 1} /\ c = 2 * (c \div 2) + (c % 2)
    BY <1>3
  <2> DEFINE c1 == c \div 2
             c0 == c % 2
  <2> HIDE DEF c1, c0
  <2>2. y \in Nat /\ x \in 0..(v - 1) /\ v \in Nat \ {0} /\ i \in 0..(v - 1)
    <3>1. y = r * 2 + c1 /\ x = k * 2 + c0 /\ c1 \in {0, 1} /\ c0 \in {0, 1}
      BY <2>1 DEF c1, c0
    <3> HIDE DEF y, x
    <3> QED
      BY <1>4, <3>1
  <2>3. place = y * v + x
    <3> HIDE DEF v
    <3> DEFINE m == y * v
               n == k * 2
    <3>1. m \in Nat /\ n \in Nat /\ c0 \in Nat
      <4>1. n \in Nat
        BY <1>4
      <4>2. c0 \in Nat
        BY <2>1 DEF c0
      <4> HIDE DEF y
      <4> QED
        BY <2>2, <4>1, <4>2
    <3> HIDE DEF m, n
    <3>2. m + n + c0 = m + (n + c0)
      BY <3>1
    <3> QED
      BY <3>2 DEF m, n, c0, v
  <2>4. j * v + i = y * v + x
    BY <2>3
  <2> HIDE DEF place, v
  <2>5. i = x /\ j = y
    <3> HIDE DEF x, y
    <3>1. (j * v + i) % v = i /\ (j * v + i) \div v = j
      BY <2>2, DivideUnique
    <3>2. (y * v + x) % v = x /\ (y * v + x) \div v = y
      BY <2>2, DivideUnique
    <3> QED
      BY <2>4, <3>1, <3>2
  <2>6. a = r /\ g = c1 /\ b = k /\ f = c0
    <3>1. 2 * a + g = r * 2 + c1 /\ 2 * b + f = k * 2 + c0 /\ c1 \in {0, 1} /\ c0 \in {0, 1}
      BY <1>1, <1>2, <2>1, <2>5 DEF c1, c0
    <3> QED
      BY <1>1, <1>2, <1>4, <3>1
  <2>7. a * w + b = q
    BY <1>4, <2>6
  <2> DEFINE n == a * w + b
  <2> HIDE DEF n
  <2>8. 4 * n + 2 * g + f = 4 * q + c
    <3>1. n = q /\ c = 2 * g + f
      BY <2>1, <2>6, <2>7 DEF n, c1, c0
    <3> QED
      BY <1>1, <1>2, <1>3, <3>1
  <2> QED
    BY <1>3, <2>8 DEF n
<1> QED
  BY <1>6, <1>8, <1>9 DEF a, b, g, f, PlacesAgree

LEMMA InImage ==
  ASSUME NEW a \in Nat, NEW b \in Nat, NEW i \in 0..(a - 1), NEW j \in 0..(b - 1)
  PROVE  j * a + i \in 0..(a * b - 1) /\ j * a + i \in Nat
<1>1. j \in Nat /\ b - 1 \in Nat /\ j <= b - 1 /\ i <= a - 1 /\ i \in Nat
  OBVIOUS
<1>2. j * a <= (b - 1) * a /\ (b - 1) * a = a * b - a /\ j * a \in Nat /\ a * b \in Nat
  BY <1>1
<1> DEFINE m == j * a
           n == a * b
<1> HIDE DEF m, n
<1>3. m <= n - a /\ m \in Nat /\ n \in Nat
  BY <1>2 DEF m, n
<1>4. m + i \in 0..(n - 1) /\ m + i \in Nat
  BY <1>1, <1>3
<1> QED
  BY <1>4 DEF m, n

LEMMA FourComponentDecodes ==
  ASSUME IInv, DecodeInv, FourComponentSample
  PROVE  DecodeInv'
<1>1. /\ UNCHANGED <<stream, header, bits>> /\ pc = "scan" /\ pc' = pc /\ sample' = sample + 1
      /\ Len(frame.components) = 4 /\ sample < 4 * Blocks
  BY DEF FourComponentSample
<1>2. Conforming' = Conforming /\ Ready' = Ready /\ encoded' = encoded
  BY <1>1, SameHeader
<1>3. CASE ~Conforming
  BY <1>2, <1>3 DEF DecodeInv
<1>4. CASE Conforming
  <2>1. TypeOK /\ Ready /\ Progress
    BY <1>1, <1>4 DEF DecodeInv, IInv
  <2>2. Len(encoded.planes) = 4 /\ Encodable(encoded)
    BY <1>1, <1>4, <2>1, SourceGiven DEF Ready
  <2> DEFINE w == encoded.width
             h == encoded.height
             c == sample % 4
             q == sample \div 4
             x == q % w
             y == q \div w
             v == encoded.planes[c + 1][x][y]
             d == Difference(encoded.tables[c + 1])
             predicted == Predicted(encoded.planes[c + 1], x, y, 1, Half(encoded))
             clamp(n) == IF n < 0 THEN 0 ELSE IF n > MaxVal THEN MaxVal ELSE n
  <2>3. /\ Width = 2 * w /\ Height = 2 * h /\ w \in Nat \ {0} /\ h \in Nat \ {0}
        /\ encoded.selection = 1 /\ Initial = Half(encoded)
    <3>1. Len(encoded.planes) # 1
      BY <2>2
    <3> QED
      BY <1>4, <2>1, <3>1, ReadyMeans
  <2>4. /\ Width \div 2 = w /\ Blocks = w * h
    <3> DEFINE a == w
               b == h
    <3>1. a \in Nat /\ b \in Nat /\ Width = 2 * a /\ Height = 2 * b
      BY <2>3
    <3> HIDE DEF a, b
    <3>2. (2 * a) \div 2 = a /\ (2 * b) \div 2 = b
      BY <3>1
    <3> QED
      BY <3>1, <3>2 DEF Blocks, a, b
  <2>5. sample \in Nat /\ sample < SampleCount(encoded)
    <3>1. sample \in Nat
      BY <1>1, Sizes DEF IInv, ScanInv
    <3> QED
      BY <1>1, <2>2, <2>4, <3>1, FourSampleCount
  <2>6. /\ ComponentOf(encoded, sample) = c + 1 /\ c + 1 \in 1..Len(encoded.planes)
        /\ ColumnOf(encoded, sample) = x /\ RowOf(encoded, sample) = y
        /\ x \in 0..(w - 1) /\ y \in 0..(h - 1) /\ q = y * w + x
    BY <2>2, <2>5, FourPosition
  <2>7. c \in 0..3 /\ q \in Nat
    BY <2>5, FourParts
  <2>8. SuperX = x /\ SuperY = y
    BY <2>4 DEF SuperX, SuperY
  <2>9. /\ frame.components[c + 1].dc_table < Slots
        /\ huffman_dc[frame.components[c + 1].dc_table] = encoded.tables[c + 1]
    <3> DEFINE slot == frame.components[c + 1].dc_table
    <3>1. slot \in 0..(Slots - 1) /\ huffman_dc[slot] = encoded.tables[c + 1]
      BY <2>1, <2>6 DEF Ready
    <3> HIDE DEF slot
    <3>2. slot < Slots
      BY <3>1, LjpegAssumption
    <3> QED
      BY <3>1, <3>2 DEF slot
  <2>10. PrevOf(encoded.planes[c + 1], w, Half(encoded), y * w + x, prev[c], col0_prev[c])
    <3>1. PrevInv(c, (sample + 3 - c) \div 4)
      BY <2>1, <2>2, <2>7 DEF Progress
    <3>2. (sample + 3 - c) \div 4 = q
      BY <2>5, FourParts
    <3>3. PrevInv(c, q)
      BY <3>1, <3>2
    <3> QED
      BY <2>6, <3>3 DEF PrevInv, PrevOf
  <2>11. (IF x > 0 THEN prev[c] ELSE IF y = 0 THEN Initial ELSE col0_prev[c]) = predicted
    <3>1. y \in Nat
      BY <2>3, <2>6
    <3> HIDE DEF x, y
    <3> QED
      BY <2>3, <2>6, <2>10, <3>1, FourPredicts
  <2>12. PICK value : /\ Decoded(d, clamp(predicted + d.value), value)
                      /\ prev' = [prev EXCEPT ![c] = value]
                      /\ col0_prev' = IF x = 0 THEN [col0_prev EXCEPT ![c] = value] ELSE col0_prev
                      /\ output' = [output EXCEPT ![Place] = value]
    <3> HIDE DEF predicted
    <3> QED
      BY <2>8, <2>9, <2>11 DEF FourComponentSample
  <2>13. d.value = v - predicted
    BY <1>4, <2>1, <2>3, <2>5, <2>6, SampleRead DEF Ready, Progress, DifferenceOf
  <2>14. value = clamp(predicted + d.value) /\ used' = encoded.ends[(sample + 1) + 1]
    BY <1>4, <2>1, <2>5, <2>6, <2>12, SampleDecoded DEF Progress
  <2>15. v \in Nat /\ v <= MaxVal /\ MaxVal \in Nat /\ predicted \in Int
    BY <1>4, <2>1, <2>2, <2>3, <2>6, SampleFits, PredictedType
  <2>16. value = v
    <3> DEFINE m == MaxVal
    <3>1. v \in Nat /\ v <= m /\ m \in Nat /\ predicted \in Int
      BY <2>15
    <3> HIDE DEF v, predicted, m
    <3>2. predicted + (v - predicted) = v /\ ~(v < 0) /\ ~(v > m)
      BY <3>1
    <3> QED
      BY <2>13, <2>14, <3>2 DEF m
  <2>17. /\ output \in [0..(Width * Height - 1) -> 0..Largest]
         /\ prev \in [0..3 -> Nat] /\ col0_prev \in [0..3 -> Nat]
    BY <1>1 DEF IInv, ScanInv
  <2>18. ASSUME NEW i \in 0..(Width - 1), NEW j \in 0..(Height - 1), ScanIndex(i, j) < sample'
         PROVE  output'[j * Width + i] = SampleAt(encoded, i, j)
    <3> DEFINE index == 4 * ((j \div 2) * w + (i \div 2)) + 2 * (j % 2) + (i % 2)
               place == (y * 2 + c \div 2) * (2 * w) + (x * 2) + (c % 2)
               p == j * Width + i
    <3>1. ScanIndex(i, j) = index
      BY <2>2 DEF ScanIndex
    <3>2. Place = place
      BY <2>3, <2>8 DEF Place
    <3>3. SampleAt(encoded, i, j) = encoded.planes[2 * (j % 2) + (i % 2) + 1][i \div 2][j \div 2]
      BY <2>2 DEF SampleAt
    <3>4. i \in 0..(2 * w - 1) /\ j \in Nat
      BY <2>3
    <3>5. /\ index \in Nat
          /\ index = sample => /\ j * (2 * w) + i = place
                               /\ y = j \div 2 /\ x = i \div 2
                               /\ c = 2 * (j % 2) + (i % 2)
          /\ j * (2 * w) + i = place => index = sample
      <4>1. PlacesAgree(w, i, j, sample)
        BY <2>3, <2>5, <3>4, FourPlaces
      <4> QED
        BY <4>1 DEF PlacesAgree
    <3>6. p = j * (2 * w) + i
      BY <2>3
    <3>7. p \in DOMAIN output
      <4>1. Width \in Nat /\ Height \in Nat
        BY <2>1, Sizes
      <4>2. p \in 0..(Width * Height - 1)
        BY <4>1, InImage
      <4> HIDE DEF p
      <4> QED
        BY <2>17, <4>2
    <3> HIDE DEF index, place, p
    <3>8. index < sample + 1
      BY <1>1, <2>18, <3>1
    <3>9. CASE index = sample
      <4>1. p = Place /\ y = j \div 2 /\ x = i \div 2 /\ c = 2 * (j % 2) + (i % 2)
        BY <3>2, <3>5, <3>6, <3>9
      <4>2. output'[p] = value
        BY <2>12, <3>7, <4>1
      <4>3. SampleAt(encoded, i, j) = v
        BY <3>3, <4>1
      <4> QED
        BY <2>16, <4>2, <4>3 DEF p
    <3>10. CASE index # sample
      <4>1. index < sample
        BY <2>5, <3>5, <3>8, <3>10
      <4>2. output[p] = SampleAt(encoded, i, j)
        BY <2>1, <3>1, <4>1 DEF Progress, p
      <4>3. p # Place
        BY <3>2, <3>5, <3>6, <3>10
      <4>4. output'[p] = output[p]
        BY <2>12, <3>7, <4>3
      <4> QED
        BY <4>2, <4>4 DEF p
    <3> QED
      BY <3>9, <3>10
  <2>19. ASSUME NEW b \in 0..3 PROVE PrevInv(b, (sample + 3 - b) \div 4)'
    <3> DEFINE plane == encoded.planes[b + 1]
               half == Half(encoded)
    <3>1. SUFFICES PrevOf(plane, w, half, ((sample + 1) + 3 - b) \div 4, prev'[b], col0_prev'[b])
      BY <1>1, <1>2 DEF PrevInv, PrevOf
    <3>2. CASE b = c
      <4>1. ((sample + 1) + 3 - b) \div 4 = q + 1
        BY <2>5, <3>2, FourParts
      <4>2. prev'[b] = v
        BY <2>7, <2>12, <2>16, <2>17, <3>2
      <4>3. col0_prev'[b] = IF x = 0 THEN v ELSE col0_prev[c]
        BY <2>7, <2>12, <2>16, <2>17, <3>2
      <4>4. y \in Nat
        BY <2>3, <2>6
      <4>5. PrevOf(encoded.planes[c + 1], w, half, (y * w + x) + 1, v,
                   IF x = 0 THEN v ELSE col0_prev[c])
        <5> HIDE DEF x, y
        <5> QED
          BY <2>3, <2>6, <2>10, <4>4, FourKeeps
      <4> QED
        BY <2>6, <3>2, <4>1, <4>2, <4>3, <4>5
    <3>3. CASE b # c
      <4>1. ((sample + 1) + 3 - b) \div 4 = (sample + 3 - b) \div 4
        BY <2>5, <3>3, FourParts
      <4>2. prev'[b] = prev[b] /\ col0_prev'[b] = col0_prev[b]
        BY <2>12, <2>17, <3>3
      <4>3. PrevInv(b, (sample + 3 - b) \div 4)
        BY <2>1, <2>2 DEF Progress
      <4>4. PrevOf(plane, w, half, (sample + 3 - b) \div 4, prev[b], col0_prev[b])
        BY <4>3 DEF PrevInv, PrevOf
      <4> QED
        BY <4>1, <4>2, <4>4
    <3> QED
      BY <3>2, <3>3
  <2>20. Progress'
    BY <1>1, <2>14, <2>18, <2>19, ProgressKept
  <2> QED
    BY <1>1, <1>2, <2>1, <2>20 DEF DecodeInv
<1> QED
  BY <1>3, <1>4

-----------------------------------------------------------------------------
(* The marker loop                                                         *)

LEMMA LastFrameEarlier ==
  ASSUME NEW segments, NEW m \in Nat, NEW k \in 1..(m - 1), LastFrame(segments, m + 1, k)
  PROVE  LastFrame(segments, m, k) /\ segments[m].kind # "SOF3"
<1>1. \A i \in (k + 1)..((m + 1) - 1) : segments[i].kind # "SOF3"
  BY DEF LastFrame
<1>2. m \in (k + 1)..((m + 1) - 1) /\ \A i \in (k + 1)..(m - 1) : i \in (k + 1)..((m + 1) - 1)
  OBVIOUS
<1>3. segments[m].kind # "SOF3" /\ \A i \in (k + 1)..(m - 1) : segments[i].kind # "SOF3"
  BY <1>1, <1>2
<1> QED
  BY <1>3 DEF LastFrame

LEMMA LastDefinitionEarlier ==
  ASSUME NEW segments, NEW m \in Nat, NEW k \in 1..(m - 1), NEW i,
         LastDefinition(segments, m + 1, k, i)
  PROVE  /\ LastDefinition(segments, m, k, i)
         /\ segments[m].kind = "DHT" =>
              \A j \in DOMAIN segments[m].tables :
                ~IsFor(segments[m].tables[j], segments[k].tables[i].slot)
<1> DEFINE slot == segments[k].tables[i].slot
           Avoids(l) == segments[l].kind = "DHT" =>
                          \A j \in DOMAIN segments[l].tables : ~IsFor(segments[l].tables[j], slot)
<1>1. /\ IsFor(segments[k].tables[i], slot)
      /\ \A j \in DOMAIN segments[k].tables : j > i => ~IsFor(segments[k].tables[j], slot)
      /\ \A l \in (k + 1)..((m + 1) - 1) : Avoids(l)
  BY DEF LastDefinition
<1>2. m \in (k + 1)..((m + 1) - 1) /\ \A l \in (k + 1)..(m - 1) : l \in (k + 1)..((m + 1) - 1)
  OBVIOUS
<1> HIDE DEF Avoids
<1>3. Avoids(m) /\ \A l \in (k + 1)..(m - 1) : Avoids(l)
  BY <1>1, <1>2
<1> QED
  BY <1>1, <1>3 DEF LastDefinition, Avoids

(* What the decoder knows of segment k when it is at segment m.            *)
KnowsFrame(m, k) ==
  LastFrame(stream.segments, m, k) =>
    LET f == stream.segments[k]
    IN /\ frame.precision = f.precision
       /\ frame.width = f.width /\ frame.height = f.height
       /\ Len(frame.components) = Len(f.ids)
       /\ \A c \in 1..Len(f.ids) : frame.components[c].id = f.ids[c]

KnowsTables(m, k) ==
  stream.segments[k].kind = "DHT" => \A i \in DOMAIN stream.segments[k].tables :
    LastDefinition(stream.segments, m, k, i) =>
      LET entry == stream.segments[k].tables[i]
      IN huffman_dc[entry.slot] = entry.table

LEMMA HeadersInvIs ==
  ASSUME NEW n
  PROVE  HeadersInv(n) <=> /\ next \in 1..n
                           /\ \A k \in 1..(next - 1) : KnowsFrame(next, k) /\ KnowsTables(next, k)
BY DEF HeadersInv, KnowsFrame, KnowsTables

(* Where the marker loop is in a conforming stream.                        *)
LEMMA AtAnnounced ==
  ASSUME TypeOK, NEW n \in 1..Len(stream.segments), Announced(stream, n), HeadersInv(n)
  PROVE  /\ n \in Nat /\ next \in 1..n /\ ~(next > Len(stream.segments))
         /\ next = n => segment.kind = "SOS" /\ ~segment.cut
         /\ next # n => next \in 1..(n - 1) /\ Readable(segment)
<1>1. Len(stream.segments) \in Nat
  BY StreamAssumption DEF TypeOK
<1>2. next \in 1..n
  BY DEF HeadersInv
<1>3. /\ stream.segments[n].kind = "SOS" /\ ~stream.segments[n].cut
      /\ \A k \in 1..(n - 1) : Readable(stream.segments[k])
  BY DEF Announced, DescribesScan
<1> DEFINE N == Len(stream.segments)
<1> HIDE DEF N
<1>4. N \in Nat /\ n \in 1..N
  BY <1>1 DEF N
<1>5. n \in Nat /\ ~(next > N) /\ (next # n => next \in 1..(n - 1))
  BY <1>2, <1>4
<1> QED
  BY <1>2, <1>3, <1>5 DEF N, segment

(* A segment before the scan header has been parsed.                       *)
LEMMA NextSegment ==
  ASSUME IInv, DecodeInv, Conforming, pc = "markers", pc' = pc,
         UNCHANGED stream, next' = next + 1, segment.kind # "SOS",
         \A k \in 1..next :
           (k < next => KnowsFrame(next, k) /\ KnowsTables(next, k))
             => (KnowsFrame(next, k) /\ KnowsTables(next, k))'
  PROVE  DecodeInv'
<1>1. PICK n \in 1..Len(stream.segments) : Announced(stream, n) /\ HeadersInv(n)
  BY DEF DecodeInv
<1>2. n \in Nat /\ next \in 1..(n - 1)
  BY <1>1, AtAnnounced DEF IInv
<1>3. \A k \in 1..(next - 1) : KnowsFrame(next, k) /\ KnowsTables(next, k)
  BY <1>1, HeadersInvIs
<1>4. ASSUME NEW k \in 1..next
      PROVE  (KnowsFrame(next, k) /\ KnowsTables(next, k))'
  <2>1. k < next => k \in 1..(next - 1)
    BY <1>2
  <2> QED
    BY <1>3, <2>1
<1>5. next' \in 1..n /\ \A k : k \in 1..(next' - 1) => k \in 1..next
  BY <1>2
<1>6. HeadersInv(n)'
  <2>1. (next \in 1..n /\ \A k \in 1..(next - 1) : KnowsFrame(next, k) /\ KnowsTables(next, k))'
    BY <1>4, <1>5
  <2> QED
    BY <2>1 DEF HeadersInv, KnowsFrame, KnowsTables
<1>7. Announced(stream', n) /\ n \in 1..Len(stream'.segments)
  BY <1>1
<1> QED
  BY <1>6, <1>7 DEF DecodeInv

LEMMA FrameKept ==
  ASSUME NEW k \in 1..next, next \in Nat, UNCHANGED stream, next' = next + 1,
         k < next => KnowsFrame(next, k), segment.kind = "SOF3" \/ frame' = frame,
         segment.kind = "SOF3" => k < next
  PROVE  KnowsFrame(next, k)'
<1> SUFFICES ASSUME LastFrame(stream.segments, next + 1, k)
             PROVE  LET f == stream.segments[k]
                    IN /\ frame'.precision = f.precision
                       /\ frame'.width = f.width /\ frame'.height = f.height
                       /\ Len(frame'.components) = Len(f.ids)
                       /\ \A c \in 1..Len(f.ids) : frame'.components[c].id = f.ids[c]
  BY DEF KnowsFrame
<1>1. CASE k < next
  <2>1. k \in 1..(next - 1)
    BY <1>1
  <2>2. LastFrame(stream.segments, next, k) /\ segment.kind # "SOF3"
    BY <2>1, LastFrameEarlier DEF segment
  <2> QED
    BY <1>1, <2>2 DEF KnowsFrame
<1>2. CASE k = next
  <2>1. segment.kind = "SOF3"
    BY <1>2 DEF LastFrame, segment
  <2> QED
    BY <1>2, <2>1
<1> QED
  BY <1>1, <1>2

LEMMA TablesKept ==
  ASSUME NEW k \in 1..next, next \in Nat, UNCHANGED <<stream, huffman_dc>>, next' = next + 1,
         k < next => KnowsTables(next, k), segment.kind # "DHT"
  PROVE  KnowsTables(next, k)'
<1> SUFFICES ASSUME stream.segments[k].kind = "DHT",
                    NEW i \in DOMAIN stream.segments[k].tables,
                    LastDefinition(stream.segments, next + 1, k, i)
             PROVE  LET entry == stream.segments[k].tables[i]
                    IN huffman_dc[entry.slot] = entry.table
  BY DEF KnowsTables
<1>1. k < next /\ k \in 1..(next - 1)
  BY DEF segment
<1>2. LastDefinition(stream.segments, next, k, i)
  BY <1>1, LastDefinitionEarlier
<1> QED
  BY <1>1, <1>2 DEF KnowsTables

LEMMA SkippedDecodes ==
  ASSUME IInv, DecodeInv, Conforming, ParseDri \/ SkipSegment
  PROVE  DecodeInv'
<1>1. /\ pc = "markers" /\ pc' = pc /\ next' = next + 1 /\ next \in Nat
      /\ stream' = stream /\ frame' = frame /\ huffman_dc' = huffman_dc
      /\ segment.kind \in {"DRI", "other"}
  BY DEF ParseDri, SkipSegment, AtSegment, IInv, TypeOK, segment, scanning
<1>2. ASSUME NEW k \in 1..next, k < next => KnowsFrame(next, k) /\ KnowsTables(next, k)
      PROVE  (KnowsFrame(next, k) /\ KnowsTables(next, k))'
  <2>1. segment.kind # "SOF3" /\ segment.kind # "DHT"
    BY <1>1
  <2>2. KnowsFrame(next, k)'
    BY <1>1, <1>2, <2>1, FrameKept
  <2>3. KnowsTables(next, k)'
    BY <1>1, <1>2, <2>1, TablesKept
  <2> QED
    BY <2>2, <2>3
<1>3. segment.kind # "SOS"
  BY <1>1
<1> QED
  BY <1>1, <1>2, <1>3, NextSegment

LEMMA ParseSof3Decodes ==
  ASSUME IInv, DecodeInv, Conforming, ParseSof3
  PROVE  DecodeInv'
<1>1. /\ pc = "markers" /\ pc' = pc /\ next' = next + 1 /\ next \in Nat
      /\ stream' = stream /\ huffman_dc' = huffman_dc /\ segment.kind = "SOF3"
      /\ frame' = [precision |-> segment.precision,
                   width |-> segment.width, height |-> segment.height,
                   components |-> [i \in DOMAIN segment.ids |->
                                     [id |-> segment.ids[i], dc_table |-> 0]]]
  BY DEF ParseSof3, AtSegment, IInv, TypeOK, segment, scanning
<1>2. ASSUME NEW k \in 1..next, k < next => KnowsFrame(next, k) /\ KnowsTables(next, k)
      PROVE  (KnowsFrame(next, k) /\ KnowsTables(next, k))'
  <2>1. KnowsTables(next, k)'
    <3>1. segment.kind # "DHT"
      BY <1>1
    <3> QED
      BY <1>1, <1>2, <3>1, TablesKept
  <2>2. KnowsFrame(next, k)'
    <3>1. CASE k < next
      BY <1>1, <1>2, <3>1, FrameKept
    <3>2. CASE ~(k < next)
      <4>1. k = next
        BY <1>1, <3>2
      <4>2. stream.segments[k] = segment
        BY <4>1 DEF segment
      <4>3. segment.ids \in Seq(Nat)
        <5>1. AtSegment("SOF3")
          BY DEF ParseSof3
        <5> QED
          BY <1>1, <5>1, SegmentGiven DEF Segment, IInv
      <4> DEFINE ids == segment.ids
                 comps == [i \in DOMAIN ids |-> [id |-> ids[i], dc_table |-> 0]]
      <4> HIDE DEF ids
      <4>4. Len(ids) \in Nat /\ DOMAIN ids = 1..Len(ids)
        BY <4>3, SeqElements DEF ids
      <4>5. Len(comps) = Len(ids) /\ \A c \in 1..Len(ids) : comps[c].id = ids[c]
        BY <4>4
      <4>6. frame'.components = comps
        BY <1>1 DEF ids
      <4> HIDE DEF comps
      <4>7. /\ frame'.precision = segment.precision
            /\ frame'.width = segment.width /\ frame'.height = segment.height
            /\ Len(frame'.components) = Len(segment.ids)
            /\ \A c \in 1..Len(segment.ids) : frame'.components[c].id = segment.ids[c]
        BY <1>1, <4>5, <4>6 DEF ids
      <4> QED
        BY <1>1, <4>2, <4>7 DEF KnowsFrame
    <3> QED
      BY <3>1, <3>2
  <2> QED
    BY <2>1, <2>2
<1>3. segment.kind # "SOS"
  BY <1>1
<1> QED
  BY <1>1, <1>2, <1>3, NextSegment

LEMMA TablesTyped ==
  ASSUME NEW t \in Seq([class: Nat, slot: Nat, cut: BOOLEAN, table: HuffmanTable])
  PROVE  /\ DOMAIN t = 1..Len(t) /\ Len(t) \in Nat
         /\ \A i \in DOMAIN t : t[i].slot \in Nat
<1> DEFINE Entry == [class: Nat, slot: Nat, cut: BOOLEAN, table: HuffmanTable]
<1>1. \A e \in Entry : e.slot \in Nat
  OBVIOUS
<1> HIDE DEF Entry
<1>2. t \in Seq(Entry)
  BY DEF Entry
<1>3. DOMAIN t = 1..Len(t) /\ Len(t) \in Nat /\ \A i \in 1..Len(t) : t[i] \in Entry
  BY <1>2, SeqElements
<1> QED
  BY <1>1, <1>3

LEMMA ParseDhtDecodes ==
  ASSUME IInv, DecodeInv, Conforming, ParseDht
  PROVE  DecodeInv'
<1> DEFINE tables == segment.tables
           bad == {i \in DOMAIN tables : tables[i].slot >= Slots \/ tables[i].cut}
           stored(s) == {i \in DOMAIN tables : /\ \A b \in bad : i < b
                                               /\ tables[i].class = 0
                                               /\ tables[i].slot = s}
           last(s) == CHOOSE i \in stored(s) : \A j \in stored(s) : j <= i
<1>1. /\ pc = "markers" /\ next \in Nat /\ stream' = stream /\ frame' = frame
      /\ segment.kind = "DHT" /\ AtSegment("DHT")
      /\ huffman_dc' = [s \in DOMAIN huffman_dc |->
                           IF stored(s) = {} THEN huffman_dc[s] ELSE tables[last(s)].table]
      /\ IF bad = {} THEN pc' = pc /\ next' = next + 1 ELSE pc' = "failed" /\ next' = next
  BY DEF ParseDht, AtSegment, IInv, TypeOK, segment
<1>2. PICK n \in 1..Len(stream.segments) : Announced(stream, n) /\ HeadersInv(n)
  BY <1>1 DEF DecodeInv
<1>3. /\ tables \in Seq([class: Nat, slot: Nat, cut: BOOLEAN, table: HuffmanTable])
      /\ huffman_dc \in [0..(Slots - 1) -> HuffmanTable]
  BY <1>1, SegmentGiven DEF IInv, TypeOK, Segment
<1>4. \A i \in DOMAIN tables : tables[i].slot < Slots /\ ~tables[i].cut
  <2>1. segment.kind # "SOS"
    BY <1>1
  <2>2. Readable(segment)
    BY <1>2, <2>1, AtAnnounced DEF IInv
  <2> QED
    BY <1>1, <2>2 DEF Readable
<1> HIDE DEF tables
<1>5. /\ DOMAIN tables = 1..Len(tables) /\ Len(tables) \in Nat
      /\ \A i \in DOMAIN tables : tables[i].slot \in Nat
  BY <1>3, TablesTyped
<1>6. bad = {}
  BY <1>4, <1>5, LjpegAssumption
<1>7. pc' = pc /\ next' = next + 1
  BY <1>1, <1>6
<1>8. \A s : stored(s) = {i \in DOMAIN tables : IsFor(tables[i], s)}
  BY <1>6 DEF IsFor
<1> HIDE DEF bad, stored
<1>9. ASSUME NEW k \in 1..next, k < next => KnowsFrame(next, k) /\ KnowsTables(next, k)
      PROVE  (KnowsFrame(next, k) /\ KnowsTables(next, k))'
  <2>1. KnowsFrame(next, k)'
    <3>1. segment.kind # "SOF3"
      BY <1>1
    <3> QED
      BY <1>1, <1>7, <1>9, <3>1, FrameKept
  <2>2. KnowsTables(next, k)'
    <3> SUFFICES ASSUME stream.segments[k].kind = "DHT",
                        NEW i \in DOMAIN stream.segments[k].tables,
                        LastDefinition(stream.segments, next + 1, k, i)
                 PROVE  LET entry == stream.segments[k].tables[i]
                        IN huffman_dc'[entry.slot] = entry.table
      BY <1>1, <1>7 DEF KnowsTables
    <3> DEFINE entry == stream.segments[k].tables[i]
               slot == entry.slot
    <3>1. CASE k < next
      <4>1. k \in 1..(next - 1)
        BY <1>1, <3>1
      <4>2. /\ LastDefinition(stream.segments, next, k, i)
            /\ \A j \in DOMAIN tables : ~IsFor(tables[j], slot)
        BY <1>1, <4>1, LastDefinitionEarlier DEF segment, tables
      <4>3. huffman_dc[slot] = entry.table
        BY <1>9, <3>1, <4>2 DEF KnowsTables
      <4>4. stored(slot) = {}
        BY <1>8, <4>2
      <4>5. slot \in DOMAIN huffman_dc
        <5>1. k \in 1..(n - 1) /\ k \in 1..Len(stream.segments)
          <6>1. n \in Nat /\ next \in 1..n /\ Len(stream.segments) \in Nat
            BY <1>2, AtAnnounced, StreamAssumption DEF IInv, TypeOK
          <6> DEFINE N == Len(stream.segments)
          <6> HIDE DEF N
          <6>2. n \in 1..N /\ N \in Nat
            BY <1>2, <6>1 DEF N
          <6>3. k \in 1..(n - 1) /\ k \in 1..N
            BY <4>1, <6>1, <6>2
          <6> QED
            BY <6>3 DEF N
        <5>2. Readable(stream.segments[k]) /\ Segment(stream.segments[k])
          BY <1>2, <5>1, StreamAssumption DEF Announced, IInv, TypeOK
        <5>3. slot < Slots
          BY <5>2 DEF Readable
        <5>4. slot \in Nat
          <6>1. stream.segments[k].tables \in Seq([class: Nat, slot: Nat, cut: BOOLEAN,
                                                   table: HuffmanTable])
            BY <5>2 DEF Segment
          <6> DEFINE t == stream.segments[k].tables
          <6> HIDE DEF t
          <6>2. \A j \in DOMAIN t : t[j].slot \in Nat
            BY <6>1, TablesTyped DEF t
          <6> QED
            BY <6>2 DEF t
        <5> HIDE DEF slot
        <5> QED
          BY <1>3, <5>3, <5>4, LjpegAssumption
      <4> HIDE DEF slot
      <4> QED
        BY <1>1, <4>3, <4>4, <4>5 DEF slot
    <3>2. CASE ~(k < next)
      <4>1. k = next
        BY <1>1, <3>2
      <4>2. stream.segments[k].tables = tables /\ i \in DOMAIN tables /\ entry = tables[i]
        BY <4>1 DEF segment, tables
      <4>3. /\ IsFor(tables[i], slot)
            /\ \A j \in DOMAIN tables : j > i => ~IsFor(tables[j], slot)
        BY <4>2 DEF LastDefinition
      <4>4. slot \in DOMAIN huffman_dc
        <5>1. slot \in Nat /\ slot < Slots
          BY <1>4, <1>5, <4>2
        <5> HIDE DEF slot
        <5> QED
          BY <1>3, <5>1, LjpegAssumption
      <4> HIDE DEF entry, slot
      <4>5. i \in stored(slot) /\ \A j \in stored(slot) : j <= i
        BY <1>5, <1>8, <4>2, <4>3
      <4>6. last(slot) = i
        <5>1. last(slot) \in stored(slot) /\ \A j \in stored(slot) : j <= last(slot)
          BY <4>5
        <5>2. stored(slot) \subseteq Nat
          BY <1>5, <1>8
        <5> HIDE DEF last
        <5>3. last(slot) <= i /\ i <= last(slot)
          BY <4>5, <5>1
        <5> QED
          BY <4>5, <5>1, <5>2, <5>3
      <4>7. stored(slot) # {}
        BY <4>5
      <4> HIDE DEF last
      <4>8. huffman_dc'[slot] = tables[i].table
        BY <1>1, <4>4, <4>6, <4>7
      <4> QED
        BY <4>2, <4>8 DEF entry, slot
    <3> QED
      BY <3>1, <3>2
  <2> QED
    BY <2>1, <2>2
<1>10. segment.kind # "SOS"
  BY <1>1
<1> QED
  BY <1>1, <1>7, <1>9, <1>10, NextSegment

-----------------------------------------------------------------------------
(* The scan header                                                         *)

(* The frame and the scan header of the encoder, where the decoder meets   *)
(* the scan header.                                                        *)
FrameKnown(f) ==
  /\ frame.precision = f.precision /\ frame.width = f.width /\ frame.height = f.height
  /\ Len(frame.components) = Len(f.ids)
  /\ \A c \in 1..Len(f.ids) : frame.components[c].id = f.ids[c]

TableSelected(f, c) ==
  \E j \in DOMAIN segment.selectors :
    /\ Selects(segment, j, f, c)
    /\ segment.selectors[j].table \in 0..(Slots - 1)
    /\ huffman_dc[segment.selectors[j].table] = encoded.tables[c]

LEMMA AtScanHeader ==
  ASSUME IInv, DecodeInv, Conforming, pc = "markers", segment.kind = "SOS"
  PROVE  /\ DescribesScan(segment, encoded)
         /\ \E f : /\ DescribesFrame(f, stream.dimensions, encoded) /\ FrameKnown(f)
                   /\ \A c \in 1..Len(encoded.planes) : TableSelected(f, c)
<1>1. PICK n \in 1..Len(stream.segments) : Announced(stream, n) /\ HeadersInv(n)
  BY DEF DecodeInv
<1>2. n \in Nat /\ next \in 1..n /\ next = n
  <2>1. n \in Nat /\ next \in 1..n /\ (next # n => Readable(segment))
    BY <1>1, AtAnnounced DEF IInv
  <2> QED
    BY <2>1 DEF Readable
<1>3. segment = stream.segments[n]
  BY <1>2 DEF segment
<1>4. PICK k \in 1..(n - 1) :
        /\ LastFrame(stream.segments, n, k)
        /\ DescribesFrame(stream.segments[k], stream.dimensions, encoded)
        /\ \A c \in 1..Len(encoded.planes) : \E j \in DOMAIN segment.selectors :
             /\ Selects(segment, j, stream.segments[k], c)
             /\ \E m \in 1..(n - 1) :
                  /\ stream.segments[m].kind = "DHT"
                  /\ \E i \in DOMAIN stream.segments[m].tables :
                       /\ LastDefinition(stream.segments, n, m, i)
                       /\ stream.segments[m].tables[i].slot = segment.selectors[j].table
                       /\ stream.segments[m].tables[i].table = encoded.tables[c]
  BY <1>1, <1>3 DEF Announced, encoded
<1> DEFINE f == stream.segments[k]
<1>5. \A m \in 1..(n - 1) : KnowsFrame(n, m) /\ KnowsTables(n, m)
  BY <1>1, <1>2, HeadersInvIs
<1>6. FrameKnown(f)
  BY <1>4, <1>5 DEF KnowsFrame, FrameKnown
<1>7. ASSUME NEW c \in 1..Len(encoded.planes)
      PROVE  TableSelected(f, c)
  <2>1. PICK j \in DOMAIN segment.selectors :
          /\ Selects(segment, j, f, c)
          /\ \E m \in 1..(n - 1) :
               /\ stream.segments[m].kind = "DHT"
               /\ \E i \in DOMAIN stream.segments[m].tables :
                    /\ LastDefinition(stream.segments, n, m, i)
                    /\ stream.segments[m].tables[i].slot = segment.selectors[j].table
                    /\ stream.segments[m].tables[i].table = encoded.tables[c]
    BY <1>4
  <2>2. PICK m \in 1..(n - 1) :
          /\ stream.segments[m].kind = "DHT"
          /\ \E i \in DOMAIN stream.segments[m].tables :
               /\ LastDefinition(stream.segments, n, m, i)
               /\ stream.segments[m].tables[i].slot = segment.selectors[j].table
               /\ stream.segments[m].tables[i].table = encoded.tables[c]
    BY <2>1
  <2>3. PICK i \in DOMAIN stream.segments[m].tables :
          /\ LastDefinition(stream.segments, n, m, i)
          /\ stream.segments[m].tables[i].slot = segment.selectors[j].table
          /\ stream.segments[m].tables[i].table = encoded.tables[c]
    BY <2>2
  <2> DEFINE slot == segment.selectors[j].table
             t == stream.segments[m].tables
  <2>4. huffman_dc[slot] = encoded.tables[c]
    BY <1>5, <2>2, <2>3 DEF KnowsTables
  <2>5. Readable(stream.segments[m]) /\ Segment(stream.segments[m])
    <3>1. m \in 1..Len(stream.segments)
      <4> DEFINE N == Len(stream.segments)
      <4>1. N \in Nat /\ n \in 1..N
        BY <1>1, StreamAssumption DEF IInv, TypeOK
      <4> HIDE DEF N
      <4>2. m \in 1..N
        BY <1>2, <4>1
      <4> QED
        BY <4>2 DEF N
    <3>2. Readable(stream.segments[m])
      BY <1>1 DEF Announced
    <3> QED
      BY <3>1, <3>2, StreamAssumption DEF IInv, TypeOK
  <2>6. t \in Seq([class: Nat, slot: Nat, cut: BOOLEAN, table: HuffmanTable])
    BY <2>2, <2>5 DEF Segment
  <2>7. slot < Slots
    BY <2>2, <2>3, <2>5 DEF Readable
  <2>8. slot \in Nat
    <3> HIDE DEF t
    <3>1. \A l \in DOMAIN t : t[l].slot \in Nat
      BY <2>6, TablesTyped
    <3> QED
      BY <2>3, <3>1 DEF t
  <2>9. slot \in 0..(Slots - 1)
    <3> HIDE DEF slot
    <3> QED
      BY <2>7, <2>8, LjpegAssumption
  <2> QED
    BY <2>1, <2>4, <2>9 DEF TableSelected
<1>8. DescribesScan(segment, encoded)
  BY <1>1, <1>3 DEF Announced, encoded
<1> QED
  BY <1>4, <1>6, <1>7, <1>8

LEMMA ParseSosDecodes ==
  ASSUME IInv, DecodeInv, Conforming, ParseSos
  PROVE  DecodeInv'
<1> DEFINE comps == frame.components
           given == segment.selectors
           names(i) == {k \in DOMAIN given : /\ given[k].id = comps[i].id
                                             /\ \A j \in 1..(i - 1) : comps[j].id # comps[i].id}
           last(i) == CHOOSE k \in names(i) : \A m \in names(i) : m <= k
           new == [i \in DOMAIN comps |->
                    IF names(i) = {} THEN comps[i]
                    ELSE [comps[i] EXCEPT !.dc_table = given[last(i)].table]]
<1>1. /\ pc = "markers" /\ segment.kind = "SOS" /\ AtSegment("SOS")
      /\ frame' = [frame EXCEPT !.components = new]
      /\ predictor' = segment.selection /\ point_transform' = segment.transform
      /\ bits' = stream.scan /\ pc' = "start"
      /\ stream' = stream /\ huffman_dc' = huffman_dc
  BY DEF ParseSos, AtSegment, segment
<1>2. PICK f : /\ DescribesFrame(f, stream.dimensions, encoded) /\ FrameKnown(f)
               /\ \A c \in 1..Len(encoded.planes) : TableSelected(f, c)
  BY <1>1, AtScanHeader
<1>3. DescribesScan(segment, encoded)
  BY <1>1, AtScanHeader
<1>4. /\ comps \in Seq([id: Nat, dc_table: Nat])
      /\ frame \in [precision: Nat, width: Nat, height: Nat,
                    components: Seq([id: Nat, dc_table: Nat])]
  BY DEF IInv, TypeOK
<1>5. given \in Seq([id: Nat, table: Nat])
  BY <1>1, SegmentGiven DEF IInv, Segment
<1>6. DOMAIN given \subseteq Nat
  <2> HIDE DEF given
  <2>1. DOMAIN given = 1..Len(given)
    BY <1>5, SeqElements
  <2> QED
    BY <2>1
<1>7. /\ Len(comps) \in Nat /\ DOMAIN comps = 1..Len(comps)
      /\ \A i \in 1..Len(comps) : comps[i] \in [id: Nat, dc_table: Nat]
  <2> HIDE DEF comps
  <2> QED
    BY <1>4, SeqElements
<1>8. /\ Len(comps) = Len(encoded.planes) /\ Len(f.ids) = Len(encoded.planes)
      /\ \A c \in 1..Len(comps) : comps[c].id = f.ids[c]
      /\ \A c, d \in 1..Len(comps) : f.ids[c] = f.ids[d] => c = d
  BY <1>2 DEF FrameKnown, DescribesFrame
<1>9. ASSUME NEW c \in 1..Len(comps)
      PROVE  /\ new[c].dc_table \in 0..(Slots - 1)
             /\ huffman_dc[new[c].dc_table] = encoded.tables[c]
  <2>1. PICK j \in DOMAIN given : /\ Selects(segment, j, f, c)
                                  /\ given[j].table \in 0..(Slots - 1)
                                  /\ huffman_dc[given[j].table] = encoded.tables[c]
    BY <1>2, <1>8 DEF TableSelected
  <2>2. given[j].id = comps[c].id /\ \A m \in DOMAIN given : given[m].id = comps[c].id => m = j
    BY <1>8, <2>1 DEF Selects
  <2>3. \A d \in 1..(c - 1) : comps[d].id # comps[c].id
    <3>1. \A d \in 1..(c - 1) : d \in 1..Len(comps) /\ d # c
      <4> HIDE DEF comps
      <4> QED
        BY <1>7
    <3> HIDE DEF comps
    <3> QED
      BY <1>8, <3>1
  <2>4. names(c) = {j}
    <3> HIDE DEF given, comps
    <3> QED
      BY <2>1, <2>2, <2>3
  <2>5. last(c) = j
    <3>1. j \in Nat
      BY <1>6, <2>1
    <3> HIDE DEF names
    <3> QED
      BY <2>4, <3>1
  <2>6. new[c] = [comps[c] EXCEPT !.dc_table = given[j].table]
    <3>1. c \in DOMAIN comps /\ names(c) # {}
      BY <1>7, <2>4
    <3> HIDE DEF names, last, comps, given
    <3> QED
      BY <2>5, <3>1
  <2>7. comps[c] \in [id: Nat, dc_table: Nat]
    BY <1>7
  <2>8. new[c].dc_table = given[j].table
    <3> HIDE DEF new, comps, given
    <3> QED
      BY <2>6, <2>7
  <2> QED
    BY <2>1, <2>8
<1>10. Len(new) = Len(encoded.planes)
  <2>1. Len(new) = Len(comps)
    <3> DEFINE entry(i) == IF names(i) = {} THEN comps[i]
                           ELSE [comps[i] EXCEPT !.dc_table = given[last(i)].table]
               n == Len(comps)
    <3>1. new = [i \in 1..n |-> entry(i)] /\ n \in Nat
      BY <1>7
    <3> HIDE DEF entry, new, n
    <3>2. Len([i \in 1..n |-> entry(i)]) = n
      BY <3>1
    <3> QED
      BY <3>1, <3>2 DEF n
  <2> QED
    BY <1>8, <2>1
<1> HIDE DEF names, last, given, comps, new
<1>11. /\ frame'.precision = frame.precision /\ frame'.width = frame.width
       /\ frame'.height = frame.height /\ frame'.components = new
  BY <1>1, <1>4
<1>12. Width' = Width /\ Height' = Height /\ encoded' = encoded
  BY <1>1, <1>11 DEF Width, Height, encoded
<1>13. frame.precision = encoded.precision /\ <<Width, Height>> = ImageSize(encoded)
  <2>1. f.precision = encoded.precision
    BY <1>2 DEF DescribesFrame
  <2>2. (IF stream.dimensions = None THEN <<f.width, f.height>> ELSE stream.dimensions)
          = ImageSize(encoded)
    BY <1>2 DEF DescribesFrame
  <2>3. frame.precision = f.precision /\ frame.width = f.width /\ frame.height = f.height
    BY <1>2 DEF FrameKnown
  <2>4. stream.dimensions = None \/ stream.dimensions \in Nat \X Nat
    BY StreamAssumption DEF IInv, TypeOK
  <2>5. <<Width, Height>> = IF stream.dimensions = None THEN <<f.width, f.height>>
                            ELSE stream.dimensions
    BY <2>3, <2>4 DEF Width, Height
  <2> QED
    BY <2>1, <2>2, <2>3, <2>5
<1>14. predictor' = encoded.selection /\ point_transform' = encoded.transform
  BY <1>1, <1>3 DEF DescribesScan
<1>15. Ready'
  <2>1. /\ frame'.precision = encoded.precision
        /\ <<Width, Height>>' = ImageSize(encoded)
        /\ Len(frame'.components) = Len(encoded.planes)
    BY <1>10, <1>11, <1>12, <1>13
  <2>2. \A c \in 1..Len(encoded.planes) :
          /\ frame'.components[c].dc_table \in 0..(Slots - 1)
          /\ huffman_dc'[frame'.components[c].dc_table] = encoded.tables[c]
    BY <1>1, <1>8, <1>9, <1>11
  <2> QED
    BY <1>1, <1>12, <1>14, <2>1, <2>2 DEF Ready
<1> QED
  BY <1>1, <1>15 DEF DecodeInv

(* What cannot happen to a conforming stream.                              *)
LEMMA NeverRefused ==
  ASSUME IInv, DecodeInv, Conforming
  PROVE  /\ ~Sof3TooShort /\ ~SosTooShort /\ ~NoScan /\ ~RefuseScan /\ ~PanicOnSlot
         /\ ~MissingSoi /\ ~PanicOnLength
<1>1. ASSUME pc = "markers"
      PROVE  /\ ~(next > Len(stream.segments))
             /\ segment.kind \notin {"EOI", "no SOI", "overrun"}
             /\ segment.kind = "SOF3" => ~segment.cut
             /\ segment.kind = "SOS" => ~segment.cut
  <2>1. PICK n \in 1..Len(stream.segments) : Announced(stream, n) /\ HeadersInv(n)
    BY <1>1 DEF DecodeInv
  <2>2. /\ ~(next > Len(stream.segments))
        /\ next = n => segment.kind = "SOS" /\ ~segment.cut
        /\ next # n => Readable(segment)
    BY <2>1, AtAnnounced DEF IInv
  <2> QED
    BY <2>2 DEF Readable
<1>2. ASSUME pc = "start"
      PROVE  /\ Len(frame.components) \in {1, 4}
             /\ Len(frame.components) = 1 => frame.components[1].dc_table \in 0..(Slots - 1)
  <2>1. Ready /\ Supported(encoded)
    BY <1>2, SourceGiven DEF DecodeInv, IInv
  <2> QED
    BY <2>1 DEF Ready, Supported
<1>3. ~Sof3TooShort /\ ~SosTooShort /\ ~NoScan /\ ~MissingSoi /\ ~PanicOnLength
  BY <1>1 DEF Sof3TooShort, SosTooShort, NoScan, MissingSoi, PanicOnLength, AtSegment, segment
<1>4. ~RefuseScan
  BY <1>2 DEF RefuseScan
<1>5. ~PanicOnSlot
  <2>1. Slots \in Nat
    BY LjpegAssumption
  <2> QED
    BY <1>2, <2>1 DEF PanicOnSlot
<1> QED
  BY <1>3, <1>4, <1>5

-----------------------------------------------------------------------------
(* The ends of the scan                                                    *)

(* How many samples there are, in either arrangement.                      *)
LEMMA AllSamples ==
  ASSUME TypeOK, Conforming, Ready
  PROVE  SamplesToDecode = SampleCount(encoded)
<1> DEFINE e == encoded
           w == e.width
           h == e.height
<1>1. /\ Len(frame.components) = Len(e.planes) /\ Encodable(e)
      /\ w \in Nat /\ h \in Nat
  BY ReadyMeans, SourceGiven DEF Ready
<1>2. CASE Len(e.planes) = 1
  <2>1. Width = w /\ Height = h
    BY <1>2, ReadyMeans
  <2> QED
    BY <1>1, <1>2, <2>1, OneSampleCount DEF SamplesToDecode
<1>3. CASE Len(e.planes) # 1
  <2>1. Len(e.planes) = 4 /\ Width = 2 * w /\ Height = 2 * h
    BY <1>3, ReadyMeans
  <2> HIDE DEF w, h
  <2>2. (2 * w) \div 2 = w /\ (2 * h) \div 2 = h
    BY <1>1
  <2>3. Blocks = w * h
    BY <2>1, <2>2 DEF Blocks
  <2> QED
    BY <1>1, <2>1, <2>3, FourSampleCount DEF SamplesToDecode, w, h
<1> QED
  BY <1>2, <1>3

(* Every position of the image is a sample of the scan.                    *)
LEMMA PositionCoded ==
  ASSUME TypeOK, Conforming, Ready, NEW i \in 0..(Width - 1), NEW j \in 0..(Height - 1)
  PROVE  /\ ScanIndex(i, j) < SampleCount(encoded)
         /\ \E c \in 1..Len(encoded.planes), x \in 0..(encoded.width - 1),
               y \in 0..(encoded.height - 1) : SampleAt(encoded, i, j) = encoded.planes[c][x][y]
<1> DEFINE e == encoded
           w == e.width
           h == e.height
<1>1. Encodable(e) /\ w \in Nat \ {0} /\ h \in Nat \ {0}
  BY ReadyMeans, SourceGiven
<1>2. CASE Len(e.planes) = 1
  <2>1. Width = w /\ Height = h
    BY <1>2, ReadyMeans
  <2>2. ScanIndex(i, j) = j * w + i /\ SampleAt(e, i, j) = e.planes[1][i][j]
    BY <1>2 DEF ScanIndex, SampleAt
  <2>3. i \in 0..(w - 1) /\ j \in 0..(h - 1) /\ 1 \in 1..Len(e.planes)
    BY <1>2, <2>1
  <2>4. SampleCount(e) = w * h
    BY <1>1, <1>2, OneSampleCount
  <2> HIDE DEF w, h
  <2>5. j * w + i \in 0..(w * h - 1) /\ w * h \in Nat
    BY <1>1, <2>3, InImage
  <2> DEFINE p == j * w + i
             n == w * h
  <2>6. p < n
    <3>1. p \in 0..(n - 1) /\ n \in Nat
      BY <2>5
    <3> HIDE DEF p, n
    <3> QED
      BY <3>1
  <2> HIDE DEF e
  <2> QED
    BY <2>2, <2>3, <2>4, <2>6 DEF w, h, e
<1>3. CASE Len(e.planes) # 1
  <2>1. Len(e.planes) = 4 /\ Width = 2 * w /\ Height = 2 * h
    BY <1>3, ReadyMeans
  <2> DEFINE c == 2 * (j % 2) + (i % 2)
             x == i \div 2
             y == j \div 2
  <2>2. ScanIndex(i, j) = 4 * (y * w + x) + 2 * (j % 2) + (i % 2)
    BY <2>1 DEF ScanIndex
  <2>3. SampleAt(e, i, j) = e.planes[c + 1][x][y]
    BY <2>1 DEF SampleAt
  <2>4. SampleCount(e) = 4 * (w * h)
    BY <2>1, FourSampleCount
  <2>5. i \in 0..(2 * w - 1) /\ j \in 0..(2 * h - 1)
    BY <2>1
  <2> HIDE DEF w, h
  <2>6. x \in 0..(w - 1) /\ y \in 0..(h - 1) /\ c \in 0..3 /\ i % 2 \in {0, 1} /\ j % 2 \in {0, 1}
    <3>1. x \in 0..(w - 1) /\ i % 2 \in {0, 1}
      BY <1>1, <2>5
    <3>2. y \in 0..(h - 1) /\ j % 2 \in {0, 1}
      BY <1>1, <2>5
    <3>3. c \in 0..3
      BY <3>1, <3>2
    <3> QED
      BY <3>1, <3>2, <3>3
  <2>7. y * w + x \in 0..(w * h - 1) /\ w * h \in Nat
    <3> HIDE DEF x, y
    <3> QED
      BY <1>1, <2>6, InImage
  <2> DEFINE p == y * w + x
             n == w * h
             g == j % 2
             f == i % 2
  <2>8. 4 * p + 2 * g + f < 4 * n
    <3>1. p \in 0..(n - 1) /\ n \in Nat /\ g \in {0, 1} /\ f \in {0, 1}
      BY <2>6, <2>7
    <3> HIDE DEF p, n, g, f
    <3> QED
      BY <3>1
  <2>9. c + 1 \in 1..Len(e.planes)
    <3> HIDE DEF c
    <3> QED
      BY <2>1, <2>6
  <2>10. ScanIndex(i, j) < SampleCount(e)
    BY <2>2, <2>4, <2>8
  <2> HIDE DEF c, x, y, e
  <2> QED
    BY <2>3, <2>6, <2>9, <2>10 DEF w, h, e
<1> QED
  BY <1>2, <1>3

LEMMA StartScanDecodes ==
  ASSUME IInv, DecodeInv, Conforming, StartScan
  PROVE  DecodeInv'
<1>1. /\ UNCHANGED <<stream, header, bits>> /\ pc = "start" /\ pc' = "scan"
      /\ used' = 0 /\ sample' = 0
      /\ prev' = [c \in 0..3 |-> Initial] /\ col0_prev' = [c \in 0..3 |-> Initial]
  BY DEF StartScan
<1>2. TypeOK /\ Ready /\ Encodable(encoded) /\ Supported(encoded) /\ Carries(stream)
  BY <1>1, SourceGiven DEF DecodeInv, IInv
<1>3. encoded' = encoded /\ Width' = Width /\ Height' = Height /\ Conforming' /\ Ready'
  BY <1>1, <1>2, SameHeader
<1>4. used' = encoded.ends[sample' + 1]
  <2>1. ScanUpTo(encoded)[0] = <<>>
    BY <1>2, ScanUnfolds
  <2>2. SampleCount(encoded) \in Nat
    BY <1>2, SampleCountType
  <2>3. encoded.ends[0 + 1] = Len(ScanUpTo(encoded)[0])
    BY <1>2, <2>2 DEF Carries, encoded
  <2> QED
    BY <1>1, <2>1, <2>3
<1>5. ASSUME NEW i \in 0..(Width - 1), NEW j \in 0..(Height - 1)
      PROVE  ~(ScanIndex(i, j) < sample')
  <2> DEFINE w == encoded.width
             a == j \div 2
             b == i \div 2
             p == j * w + i
             q == a * w + b
             g == j % 2
             f == i % 2
  <2>1. w \in Nat /\ i \in Nat /\ j \in Nat
    <3>1. Width \in Nat /\ Height \in Nat
      BY <1>2, Sizes
    <3> QED
      BY <1>2, <3>1, ReadyMeans
  <2>2. p \in Nat
    <3> HIDE DEF w
    <3> QED
      BY <2>1
  <2>3. q \in Nat /\ g \in Nat /\ f \in Nat
    <3>1. a \in Nat /\ b \in Nat /\ g \in Nat /\ f \in Nat
      BY <2>1
    <3> HIDE DEF w, a, b
    <3> QED
      BY <2>1, <3>1
  <2>4. ScanIndex(i, j) = IF Len(encoded.planes) = 1 THEN p ELSE 4 * q + 2 * g + f
    BY DEF ScanIndex
  <2> HIDE DEF p, q, g, f
  <2>5. ~(p < 0) /\ ~(4 * q + 2 * g + f < 0)
    BY <2>2, <2>3
  <2> QED
    BY <1>1, <2>4, <2>5
<1>6. (\A c \in 0..3 : PrevInv(c, (sample + 3 - c) \div 4))'
  <2>1. Initial = Half(encoded)
    BY <1>2, ReadyMeans
  <2>2. \A c \in 0..3 : (0 + 3 - c) \div 4 = 0
    OBVIOUS
  <2>3. \A c \in 0..3 : prev'[c] = Half(encoded) /\ col0_prev'[c] = Half(encoded)
    BY <1>1, <2>1
  <2> QED
    BY <1>1, <1>3, <2>2, <2>3 DEF PrevInv
<1>7. UNCHANGED <<stream, header>>
  BY <1>1
<1>8. Progress'
  <2>1. encoded' = encoded /\ Width' = Width /\ Height' = Height /\ sample' = 0
    BY <1>1, <1>3
  <2>2. (used = encoded.ends[sample + 1])'
    BY <1>4, <2>1
  <2>3. \A i, j : ScanIndex(i, j)' = ScanIndex(i, j)
    BY <2>1 DEF ScanIndex
  <2>4. (\A x \in 0..(Width - 1), y \in 0..(Height - 1) :
           ScanIndex(x, y) < sample => output[y * Width + x] = SampleAt(encoded, x, y))'
    BY <1>5, <2>1, <2>3
  <2>5. (Len(encoded.planes) = 4 => \A c \in 0..3 : PrevInv(c, (sample + 3 - c) \div 4))'
    BY <1>6
  <2> QED
    BY <2>2, <2>4, <2>5 DEF Progress
<1> QED
  BY <1>1, <1>3, <1>8 DEF DecodeInv

LEMMA FinishScanDecodes ==
  ASSUME IInv, DecodeInv, Conforming, FinishScan
  PROVE  DecodeInv'
<1> DEFINE W == Width
           H == Height
           e == encoded
<1>1. /\ UNCHANGED <<stream, header, bits>> /\ pc = "scan" /\ pc' = "done"
      /\ sample = SamplesToDecode
      /\ output' = [p \in DOMAIN output |->
                      (output[p] * Pow2[point_transform]) % Pow2[SampleWidth]]
  BY DEF FinishScan
<1>2. TypeOK /\ Ready /\ Progress /\ Carries(stream)
  BY <1>1, SourceGiven DEF DecodeInv, IInv
<1>3. sample = SampleCount(e)
  BY <1>1, <1>2, AllSamples
<1>4. DOMAIN output = 0..(W * H - 1)
  BY <1>1 DEF IInv, ScanInv
<1>5. point_transform = e.transform /\ <<W, H>> = ImageSize(e)
  BY <1>2 DEF Ready
<1>6. W \in Nat \ {0} /\ H \in Nat
  <2>1. e.width \in Nat \ {0} /\ e.height \in Nat \ {0}
    BY <1>2, ReadyMeans
  <2>2. (W = e.width /\ H = e.height) \/ (W = 2 * e.width /\ H = 2 * e.height)
    BY <1>2, ReadyMeans
  <2> HIDE DEF W, H, e
  <2> QED
    BY <2>1, <2>2
<1>7. ASSUME NEW p \in 0..(W * H - 1)
      PROVE  (output[p] * Pow2[point_transform]) % Pow2[SampleWidth]
               = SampleAt(e, p % W, p \div W) * Pow2[e.transform]
  <2> DEFINE i == p % W
             j == p \div W
  <2>1. i \in 0..(W - 1) /\ j \in 0..(H - 1) /\ p = j * W + i
    <3> HIDE DEF W, H
    <3>1. p \in Nat /\ p < W * H
      <4> DEFINE n == W * H
      <4>1. n \in Nat /\ p \in 0..(n - 1)
        BY <1>6
      <4> HIDE DEF n
      <4>2. p \in Nat /\ p < n
        BY <4>1
      <4> QED
        BY <4>2 DEF n
    <3>2. i \in 0..(W - 1) /\ p = j * W + i
      BY <1>6, <3>1, Divide
    <3>3. j \in Nat /\ j < H
      BY <1>6, <3>1, QuotientBelow
    <3> HIDE DEF j
    <3>4. j \in 0..(H - 1)
      BY <1>6, <3>3
    <3> QED
      BY <3>2, <3>4 DEF j
  <2>2. ScanIndex(i, j) < sample
    <3> HIDE DEF i, j
    <3> QED
      BY <1>2, <1>3, <2>1, PositionCoded
  <2>3. PICK c \in 1..Len(e.planes) : \E x \in 0..(e.width - 1) : \E y \in 0..(e.height - 1) :
          SampleAt(e, i, j) = e.planes[c][x][y]
    <3> HIDE DEF i, j
    <3> QED
      BY <1>2, <2>1, PositionCoded
  <2>4. PICK x \in 0..(e.width - 1) : \E y \in 0..(e.height - 1) :
          SampleAt(e, i, j) = e.planes[c][x][y]
    BY <2>3
  <2>5. PICK y \in 0..(e.height - 1) : SampleAt(e, i, j) = e.planes[c][x][y]
    BY <2>4
  <2> DEFINE v == e.planes[c][x][y]
  <2>6. (v * Pow2[e.transform]) % Pow2[SampleWidth] = v * Pow2[e.transform]
    BY <1>2, SampleFits
  <2>7. output[p] = v
    <3> HIDE DEF i, j
    <3>1. output[j * W + i] = SampleAt(e, i, j)
      BY <1>2, <2>1, <2>2 DEF Progress
    <3> QED
      BY <2>1, <2>5, <3>1
  <2> HIDE DEF v
  <2> QED
    BY <1>5, <2>5, <2>6, <2>7 DEF v
<1>8. output' = Image(e)
  <2>1. ImageSize(e)[1] = W /\ ImageSize(e)[2] = H
    BY <1>5
  <2>2. Image(e) = [p \in 0..(W * H - 1) |-> SampleAt(e, p % W, p \div W) * Pow2[e.transform]]
    BY <2>1 DEF Image
  <2> HIDE DEF W, H, e
  <2> QED
    BY <1>1, <1>4, <1>7, <2>2
<1>9. output' = encoded'.image
  <2>1. encoded' = encoded
    BY <1>1 DEF encoded
  <2> QED
    BY <1>2, <1>8, <2>1 DEF Carries, encoded
<1> QED
  BY <1>1, <1>9 DEF DecodeInv

-----------------------------------------------------------------------------
(* The invariant of a conforming stream                                    *)

LEMMA InitDecodeInv == Init => DecodeInv
<1> SUFFICES ASSUME Init, Conforming PROVE DecodeInv
  BY DEF DecodeInv
<1>1. TypeOK
  BY InitIInv DEF IInv
<1>2. PICK n \in 1..Len(stream.segments) : Announced(stream, n)
  BY <1>1, SourceGiven
<1>3. n \in Nat \ {0}
  <2> DEFINE N == Len(stream.segments)
  <2>1. n \in 1..N /\ N \in Nat
    BY <1>1, StreamAssumption DEF TypeOK
  <2> HIDE DEF N
  <2> QED
    BY <2>1
<1>4. next \in 1..n /\ ~\E k : k \in 1..(next - 1)
  <2>1. next = 1
    BY DEF Init
  <2> QED
    BY <1>3, <2>1
<1>5. HeadersInv(n)
  BY <1>4 DEF HeadersInv
<1>6. pc = "markers"
  BY DEF Init
<1> QED
  BY <1>2, <1>5, <1>6 DEF DecodeInv

LEMMA NextDecodeInv == IInv /\ DecodeInv /\ [Next]_vars => DecodeInv'
<1> SUFFICES ASSUME IInv, DecodeInv, [Next]_vars PROVE DecodeInv'
  OBVIOUS
<1>1. CASE ~Conforming
  <2>1. stream' = stream
    <3>1. CASE Next
      BY <3>1 DEF Next, ParseSof3, Sof3TooShort, ParseDht, ParseDri, SkipSegment, ParseSos,
         SosTooShort, NoScan, StartScan, RefuseScan, PanicOnSlot, MissingSoi,
         PanicOnLength, FourComponentSample, OneComponentSample, FinishScan, Fail
    <3> QED
      BY <3>1 DEF vars
  <2> QED
    BY <1>1, <2>1 DEF DecodeInv, Conforming
<1>2. CASE Conforming /\ Next
  BY <1>2, ParseSof3Decodes, ParseDhtDecodes, SkippedDecodes, ParseSosDecodes, NeverRefused,
     StartScanDecodes, FourComponentDecodes, OneComponentDecodes, FinishScanDecodes DEF Next
<1>3. CASE Conforming /\ UNCHANGED vars
  <2>1. UNCHANGED <<stream, next, frame, huffman_dc, predictor, point_transform, pc,
                    bits, used, sample, prev, col0_prev, output, restart_interval>>
    BY <1>3 DEF vars, header, scanning
  <2>2. UNCHANGED <<stream, header, bits>>
    BY <2>1 DEF header
  <2>3. encoded' = encoded /\ Width' = Width /\ Height' = Height /\ Ready' = Ready
    BY <2>2, SameHeader
  <2>4. \A n : HeadersInv(n) => HeadersInv(n)'
    BY <2>1 DEF HeadersInv
  <2>5. Progress => Progress'
    <3> SUFFICES ASSUME Progress PROVE Progress'
      OBVIOUS
    <3>1. \A x, y : ScanIndex(x, y)' = ScanIndex(x, y)
      BY <2>3 DEF ScanIndex
    <3>2. \A c, n : PrevInv(c, n)' <=> PrevInv(c, n)
      BY <2>1, <2>3 DEF PrevInv
    <3>3. (used = encoded.ends[sample + 1])'
      BY <2>1, <2>3 DEF Progress
    <3>4. (\A x \in 0..(Width - 1), y \in 0..(Height - 1) :
             ScanIndex(x, y) < sample => output[y * Width + x] = SampleAt(encoded, x, y))'
      BY <2>1, <2>3, <3>1 DEF Progress
    <3>5. (Len(encoded.planes) = 4 => \A c \in 0..3 : PrevInv(c, (sample + 3 - c) \div 4))'
      BY <2>1, <2>3, <3>2 DEF Progress
    <3> QED
      BY <3>3, <3>4, <3>5 DEF Progress
  <2> QED
    BY <1>3, <2>1, <2>3, <2>4, <2>5 DEF DecodeInv
<1> QED
  BY <1>1, <1>2, <1>3

-----------------------------------------------------------------------------
(* The theorems                                                            *)

(* Of a stream with a source the decoder knows, at every segment, what the *)
(* headers before it define; it begins the scan with what the encoder was  *)
(* given, and after every sample has decoded those the encoder wrote.      *)
THEOREM DecodesInductive == Spec => []DecodeInv
<1> QED
  BY Inductive, InitDecodeInv, NextDecodeInv, PTL DEF Spec

(* decode_scan keeps in step with the modelled encoder, whatever its       *)
(* tables, its image, the code lengths and the order of the segments.      *)
THEOREM AlwaysInStep == Spec => []InStep
<1>1. DecodeInv => InStep
  BY DEF DecodeInv, InStep, Progress, encoded
<1> QED
  BY <1>1, DecodesInductive, PTL

(* decode returns the image that was encoded, for every stream of the      *)
(* modelled encoder: no restart markers, no fill bytes before a marker, no *)
(* difference of category 16 of 16-bit samples.                            *)
THEOREM AlwaysDecodesImage == Spec => []DecodesImage
<1>1. DecodeInv => DecodesImage
  BY DEF DecodeInv, DecodesImage, encoded
<1> QED
  BY <1>1, DecodesInductive, PTL

=============================================================================
