---------------------------- MODULE LosslessJpeg ----------------------------
(***************************************************************************)
(* What a lossless-JPEG scan means, as the standard the decoder names      *)
(* (ITU-T T.81 Annexes C and H) puts it: which code words a table assigns, *)
(* and which bits an encoder writes for an image.  Nothing here comes from *)
(* the decoder; LjpegDecoder is checked against it.                        *)
(*                                                                         *)
(* A table is [bits |-> number of codes of each length 1..MaxLen,          *)
(* huffval |-> the symbols in code order].  Bit strings are sequences of   *)
(* 0 and 1.  Recursion is by functions, which the prover can unfold.       *)
(***************************************************************************)
EXTENDS Integers, Sequences

(* 2^i                                                                     *)
Pow2[i \in Nat] == IF i = 0 THEN 1 ELSE 2 * Pow2[i - 1]

(* The n low bits of v, the highest first.                                 *)
BitString(v, n) == [k \in 1..n |-> (v \div Pow2[n - k]) % 2]

(* HUFFSIZE (C.1): the lengths of a table's codes, shortest first.         *)
HuffSize(table) ==
  LET upTo[l \in 0..Len(table.bits)] ==
        IF l = 0 THEN <<>> ELSE upTo[l - 1] \o [i \in 1..table.bits[l] |-> l]
  IN upTo[Len(table.bits)]

(* HUFFCODE (C.2): the next code is the last plus one, lengthened.         *)
HuffCode(table) ==
  LET size == HuffSize(table)
      code[i \in 1..Len(size)] ==
        IF i = 1 THEN 0 ELSE (code[i - 1] + 1) * Pow2[size[i] - size[i - 1]]
  IN code

(* A table an encoder may use: the all-ones codes stay free.               *)
WellFormed(table) ==
  /\ Len(table.huffval) = Len(HuffSize(table))
  /\ \A i \in 1..Len(HuffSize(table)) : HuffCode(table)[i] < Pow2[HuffSize(table)[i]] - 1

HasCode(table, symbol) == \E i \in 1..Len(table.huffval) : table.huffval[i] = symbol

CodeWord(table, symbol) ==
  LET i == CHOOSE i \in 1..Len(table.huffval) : table.huffval[i] = symbol
  IN BitString(HuffCode(table)[i], HuffSize(table)[i])

(* H.1.2.2: a difference is its magnitude category, then the bits that     *)
(* tell it from the others of the category.  Differences of 16 bits, which *)
(* the standard takes modulo 2^16 and category 16 are left out.            *)
IsCategory(t, diff) ==
  /\ diff < Pow2[t] /\ -diff < Pow2[t]
  /\ t > 0 => diff >= Pow2[t - 1] \/ -diff >= Pow2[t - 1]

Category(diff) == CHOOSE t \in 0..15 : IsCategory(t, diff)

DifferenceBits(table, diff) ==
  LET t == Category(diff) IN
  CodeWord(table, t) \o BitString(IF diff >= 0 THEN diff ELSE diff + Pow2[t] - 1, t)

(* Table H.1, ra left of the sample, rb above it, rc left of rb.           *)
Prediction(selection, ra, rb, rc) ==
  CASE selection = 1 -> ra
    [] selection = 2 -> rb
    [] selection = 3 -> rc
    [] selection = 4 -> ra + rb - rc
    [] selection = 5 -> ra + (rb - rc) \div 2
    [] selection = 6 -> rb + (ra - rc) \div 2
    [] selection = 7 -> (ra + rb) \div 2

(* H.1.1: the first sample of a component is predicted by half the range,  *)
(* the first line by the left neighbour, the first column by the one       *)
(* above.  plane[x][y] is the component.                                   *)
Predicted(plane, x, y, selection, half) ==
  CASE x = 0 /\ y = 0 -> half
    [] x > 0 /\ y = 0 -> plane[x - 1][y]
    [] x = 0 /\ y > 0 -> plane[x][y - 1]
    [] x > 0 /\ y > 0 ->
         Prediction(selection, plane[x - 1][y], plane[x][y - 1], plane[x - 1][y - 1])

-----------------------------------------------------------------------------
(* A scan e of components of one size, interleaved sample by sample:       *)
(* e.planes[c] coded with e.tables[c].  H.1.1: samples are of the range    *)
(* that the point transform leaves.                                        *)

Half(e) == Pow2[e.precision - e.transform - 1]

(* The component, column and row of sample k, counted from 0.              *)
ComponentOf(e, k) == (k % Len(e.planes)) + 1
ColumnOf(e, k) == (k \div Len(e.planes)) % e.width
RowOf(e, k) == (k \div Len(e.planes)) \div e.width

DifferenceOf(e, c, x, y) ==
  e.planes[c][x][y] - Predicted(e.planes[c], x, y, e.selection, Half(e))

SampleBits(e, k) ==
  DifferenceBits(e.tables[ComponentOf(e, k)],
                 DifferenceOf(e, ComponentOf(e, k), ColumnOf(e, k), RowOf(e, k)))

SampleCount(e) == Len(e.planes) * (e.width * e.height)

(* The bits of the first i samples.                                        *)
ScanUpTo(e) ==
  LET upTo[i \in 0..SampleCount(e)] == IF i = 0 THEN <<>> ELSE upTo[i - 1] \o SampleBits(e, i - 1)
  IN upTo

(* What may be coded at all: samples of the range, well-formed tables, and *)
(* a code for the category of each difference.                             *)
Codable(e, c, x, y) ==
  \E t \in 0..15 : IsCategory(t, DifferenceOf(e, c, x, y)) /\ HasCode(e.tables[c], t)

Encodable(e) ==
  /\ e.width \in Nat \ {0} /\ e.height \in Nat \ {0}
  /\ e.precision \in 2..16 /\ e.transform \in 0..(e.precision - 1) /\ e.selection \in 1..7
  /\ Len(e.planes) \in Nat \ {0} /\ Len(e.tables) = Len(e.planes)
  /\ \A c \in 1..Len(e.planes) :
       /\ WellFormed(e.tables[c])
       /\ e.planes[c] \in [0..(e.width - 1) -> [0..(e.height - 1) ->
                            0..(Pow2[e.precision - e.transform] - 1)]]
       /\ \A x \in 0..(e.width - 1), y \in 0..(e.height - 1) : Codable(e, c, x, y)
=============================================================================
