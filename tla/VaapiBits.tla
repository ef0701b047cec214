------------------------------ MODULE VaapiBits ------------------------------
(***************************************************************************)
(* The bit reader of the VAAPI backend                                     *)
(* (crates/rawshift-hwdec/src/vaapi/bits.rs), as HevcHeaders and           *)
(* Av1Headers use it.  Bytes are bytes here, nothing is scaled down.       *)
(*                                                                         *)
(* A parser of the backend is one pass over a list of syntax elements.     *)
(* Each has a condition under which it is there, a coding and a check:     *)
(* tables by element name, that Parse folds over the list.                 *)
(***************************************************************************)
EXTENDS Integers, Sequences, FiniteSets

-----------------------------------------------------------------------------
(* rbsp_from_nal_payload                                                   *)

(* Byte i is an emulation prevention byte: two zeros before it, and at     *)
(* most a 3 behind it.  zeros[i] counts the zeros in a row before byte i.  *)
Dropped(p, zeros, i) ==
  p[i] = 3 /\ zeros[i] >= 2 /\ (i = Len(p) \/ p[i + 1] <= 3)

ZeroRun(p) ==
  LET zeros[i \in 1..(Len(p) + 1)] ==
        IF i = 1 THEN 0 ELSE IF p[i - 1] = 0 THEN zeros[i - 1] + 1 ELSE 0
  IN zeros

Escapes(p) == {i \in 1..Len(p) : Dropped(p, ZeroRun(p), i)}

(* The RBSP: [data, epb_before], the latter the RBSP offset of each        *)
(* dropped byte.                                                           *)
Rbsp(p) ==
  LET escapes == Escapes(p)
      data[i \in 0..Len(p)] ==
        IF i = 0 THEN <<>>
        ELSE IF i \in escapes THEN data[i - 1] ELSE Append(data[i - 1], p[i])
  IN [data |-> data[Len(p)],
      epb_before |-> [i \in escapes |-> Len(data[i])]]

(* Mutant: a byte dropped before the last of them is not counted.          *)
EpbCountWithin_Shifted(rbsp, bytes) ==
  Cardinality({i \in DOMAIN rbsp.epb_before : rbsp.epb_before[i] < bytes - 1})

EpbCountWithin(rbsp, bytes) ==
  Cardinality({i \in DOMAIN rbsp.epb_before : rbsp.epb_before[i] < bytes})

-----------------------------------------------------------------------------
(* BitReader, over a function from bit positions to bits.  A read past the *)
(* end moves the position past the end: the reader is then overrun.        *)

BitsOf(data) ==
  [k \in 0..(8 * Len(data) - 1) |-> (data[(k \div 8) + 1] \div 2^(7 - (k % 8))) % 2]

End(b) == Cardinality(DOMAIN b)

U(b, at, n) ==
  LET value[k \in 0..n] ==
        IF k = 0 THEN 0
        ELSE value[k - 1] * 2 + (IF at + k - 1 < End(b) THEN b[at + k - 1] ELSE 0)
  IN value[n]

(* ue(v): <<value, bits>>; without a 1 among the next bits it overruns, as *)
(* it does when the code goes past the end; a prefix of 32 zeros is an     *)
(* error as well.                                                          *)
Overrun(b) == <<0, End(b) + 1>>

AfterPrefix(b, at, zeros) ==
  IF at + 2 * zeros + 1 > End(b) THEN Overrun(b)
  ELSE <<2^zeros - 1 + U(b, at + zeros + 1, zeros), 2 * zeros + 1>>

Ue(b, at) ==
  LET ones == {z \in 0..31 : at + z < End(b) /\ b[at + z] = 1} IN
  IF ones = {} THEN Overrun(b)
  ELSE AfterPrefix(b, at, CHOOSE z \in ones : \A y \in ones : z <= y)

(* Mutant: signs are swapped.                                              *)
Signed_Swapped(k) == IF k % 2 = 1 THEN -((k + 1) \div 2) ELSE k \div 2

Signed(k) == IF k % 2 = 1 THEN (k + 1) \div 2 ELSE -(k \div 2)

CeilLog2(x) == CHOOSE l \in 0..31 : 2^l >= x /\ (l = 0 \/ 2^(l - 1) < x)

Flag(b, at) == IF at < End(b) THEN b[at] ELSE 0

-----------------------------------------------------------------------------
(* The codings of AV1: each is <<value, bits>>.                            *)

Su(b, at, n) ==
  <<IF Flag(b, at) = 1 THEN U(b, at, n) - 2^n ELSE U(b, at, n), n>>

FloorLog2(x) == CHOOSE l \in 0..30 : 2^l <= x /\ x \div 2^l < 2

(* ns(n): the first m values take one bit less than the others.            *)
NsOf(b, at, n, w, m) ==
  LET v == U(b, at, w - 1) IN
  IF v < m THEN <<v, w - 1>> ELSE <<2 * v - m + Flag(b, at + w - 1), w>>

Ns(b, at, n) ==
  LET w == FloorLog2(n) + 1 IN NsOf(b, at, n, w, 2^w - n)

AlignToByte(at) == 8 * ((at + 7) \div 8)

-----------------------------------------------------------------------------
(* One pass over the elements.                                             *)

(* A skipped element counts as its length.                                 *)
Skip(length) == <<length, length>>

(* [ok, at, h] with the element behind it; nothing may be read past the    *)
(* end.                                                                    *)
Taken(s, e, read, end, accepted) ==
  [ok |-> s.at + read[2] <= end /\ accepted,
   at |-> s.at + read[2],
   h  |-> [s.h EXCEPT ![e] = read[1]]]

(* ReadAt gives <<value, bits>> of an element, absent ones having 0 bits.  *)
(* Nothing is read behind an element that is not accepted.                 *)
Parse(elements, b, ReadAt(_, _, _), Accepts(_, _, _)) ==
  LET with(s, e, read) == Taken(s, e, read, End(b), Accepts(e, s.h, read[1]))
      next(s, e) == IF s.ok THEN with(s, e, ReadAt(e, s.h, s.at)) ELSE s
      start == [ok |-> TRUE, at |-> 0,
                h |-> [e \in {elements[i] : i \in DOMAIN elements} |-> 0]]
      few(s, first, last) ==
        LET parse[k \in first..last] ==
              IF k = first THEN s ELSE next(parse[k - 1], elements[k])
        IN IF s.ok THEN parse[last] ELSE s
      tens == (Len(elements) + 9) \div 10
      last(j) == IF j = tens THEN Len(elements) ELSE 10 * j
      parse[j \in 0..tens] ==
        IF j = 0 THEN start ELSE few(parse[j - 1], 10 * (j - 1), last(j))
  IN parse[tens]
=============================================================================
