------------------------------- MODULE BitPump -------------------------------
(***************************************************************************)
(* BitPump (crates/rawshift-image-ljpeg/src/bit_pump.rs): the bit reader   *)
(* under every lossless-JPEG scan.  fill() is a loop; each of its          *)
(* iterations is a step here, so that nothing recursive is needed.         *)
(*                                                                         *)
(* The sizes are parameters.  In the code a byte has 8 bits, the register  *)
(* 8 bytes, a peek yields at most half a register, and the fast path is    *)
(* taken for at least 4 bytes.  Four byte values matter to fill(): Prefix  *)
(* (0xFF), Stuffing (0x00), Restart (0xD0..0xD7) and EndOfImage (0xD9).    *)
(***************************************************************************)
EXTENDS Integers, Sequences

CONSTANTS
  ByteBits,   \* bits in a byte
  Word,       \* bytes in the register; also what the fast path looks at
  MinFast,    \* fewest bytes the fast path adds
  Prefix, Stuffing, Restart, EndOfImage,
  Data        \* the byte sequences a pump may be given

(* 2^i, as a function the prover can unfold.                               *)
Pow2[i \in Nat] == IF i = 0 THEN 1 ELSE 2 * Pow2[i - 1]

Byte == 0..(Pow2[ByteBits] - 1)
Width == Word * ByteBits
Half == Width \div 2

ASSUME PumpAssumption ==
  /\ ByteBits \in Nat \ {0} /\ Word \in Nat \ {0} /\ Word % 2 = 0
  /\ MinFast \in 1..Word
  /\ {Prefix, Stuffing, EndOfImage} \cup Restart \subseteq Byte
  /\ Prefix \notin {Stuffing, EndOfImage} \cup Restart
  /\ Stuffing # EndOfImage /\ {Stuffing, EndOfImage} \cap Restart = {}
  /\ Data \subseteq Seq(Byte)

VARIABLES
  data,     \* the input, fixed
  pos,      \* bytes taken from it
  bits,     \* the register: Width bits, the oldest on top, used ones not cleared
  left,     \* bits_left
  pc,       \* "fill", "value", "peeked", "consume" or "ready"
  op,       \* the operation under way: "peek", "get", "consume" or "none"
  n,        \* its argument
  result,   \* what peek or get_bits returns
  taken     \* history: bits consumed since the pump was made

vars == <<data, pos, bits, left, pc, op, n, result, taken>>

Init ==
  /\ data \in Data
  /\ pos = 0 /\ bits = 0 /\ left = 0
  /\ pc = "fill" /\ op = "none" /\ n = 0 /\ result = 0 /\ taken = 0

-----------------------------------------------------------------------------
(* fill                                                                    *)

At(i) == data[i + 1]

(* Where the operation goes on once fill() has returned.                   *)
Filled == IF op \in {"peek", "get"} THEN "value" ELSE "ready"

(* Mutant: the last byte of the input is never read.                       *)
CanFill_NotLast == left <= Width - ByteBits /\ pos + 1 < Len(data)

CanFill == left <= Width - ByteBits /\ pos < Len(data)

BytesToAdd == (Width - left) \div ByteBits

(* Mutant: only the first byte of the chunk is looked at.                  *)
FastPath_FirstByte ==
  /\ Len(data) - pos >= Word
  /\ BytesToAdd >= MinFast
  /\ At(pos) # Prefix

(* Eight bytes ahead and no 0xFF among them.                               *)
FastPath ==
  /\ Len(data) - pos >= Word
  /\ BytesToAdd >= MinFast
  /\ \A i \in pos..(pos + Word - 1) : At(i) # Prefix

(* The value of the m bytes that start at pos, the first on top.           *)
BytesAhead[m \in 0..Word] ==
  IF m = 0 THEN 0 ELSE BytesAhead[m - 1] * Pow2[ByteBits] + At(pos + m - 1)

Shifted(b, count) == (b * Pow2[count]) % Pow2[Width]

FillFast ==
  /\ pc = "fill" /\ CanFill /\ FastPath
  /\ bits' = Shifted(bits, BytesToAdd * ByteBits) + BytesAhead[BytesToAdd]
  /\ left' = left + BytesToAdd * ByteBits
  /\ pos' = pos + BytesToAdd
  /\ UNCHANGED <<data, pc, op, n, result, taken>>

Follows(S) == pos + 1 < Len(data) /\ At(pos + 1) \in S

(* One byte: a stuffed zero goes with its prefix, a restart marker is      *)
(* skipped, any other pair is data.                                        *)
FillByte ==
  /\ pc = "fill" /\ CanFill /\ ~FastPath
  /\ ~(At(pos) = Prefix /\ Follows({EndOfImage}))
  /\ IF At(pos) = Prefix /\ Follows(Restart)
     THEN pos' = pos + 2 /\ UNCHANGED <<bits, left>>
     ELSE /\ bits' = Shifted(bits, ByteBits) + At(pos)
          /\ left' = left + ByteBits
          /\ pos' = IF At(pos) = Prefix /\ Follows({Stuffing}) THEN pos + 2 ELSE pos + 1
  /\ UNCHANGED <<data, pc, op, n, result, taken>>

(* 0xFF 0xD9: the loop is left behind the 0xFF.                            *)
FillMarker ==
  /\ pc = "fill" /\ CanFill /\ ~FastPath
  /\ At(pos) = Prefix /\ Follows({EndOfImage})
  /\ pos' = pos + 1
  /\ pc' = Filled
  /\ UNCHANGED <<data, bits, left, op, n, result, taken>>

FillDone ==
  /\ pc = "fill" /\ ~CanFill
  /\ pc' = Filled
  /\ UNCHANGED <<data, pos, bits, left, op, n, result, taken>>

-----------------------------------------------------------------------------
(* peek, consume, get_bits                                                 *)

(* peek(k), or the first half of get_bits(k).                              *)
Peek(o, k) ==
  /\ pc = "ready"
  /\ op' = o /\ n' = k
  /\ pc' = IF k > 0 /\ left < k THEN "fill" ELSE "value"
  /\ UNCHANGED <<data, pos, bits, left, result, taken>>

(* A u32 holds the low half of the register; a shift by its whole width    *)
(* wraps to no shift (release builds).                                     *)
Padded(k) == ((bits % Pow2[Half]) * Pow2[(k - left) % Half]) % Pow2[Half]

(* Mutant: the value is not masked to n bits.                              *)
PeekValue_Unmasked ==
  /\ pc = "value"
  /\ result' = IF n = 0 THEN 0
               ELSE IF left < n THEN Padded(n)
               ELSE (bits \div Pow2[left - n]) % Pow2[Half]
  /\ pc' = "peeked"
  /\ UNCHANGED <<data, pos, bits, left, op, n, taken>>

PeekValue ==
  /\ pc = "value"
  /\ result' = IF n = 0 THEN 0
               ELSE IF left < n THEN Padded(n)
               ELSE (bits \div Pow2[left - n]) % Pow2[n]
  /\ pc' = "peeked"
  /\ UNCHANGED <<data, pos, bits, left, op, n, taken>>

(* The value is handed over; get_bits(n) goes on with consume(n).          *)
Peeked ==
  /\ pc = "peeked"
  /\ result' = 0
  /\ IF op = "get"
     THEN pc' = "consume" /\ op' = "consume" /\ UNCHANGED n
     ELSE pc' = "ready" /\ op' = "none" /\ n' = 0
  /\ UNCHANGED <<data, pos, bits, left, taken>>

(* consume(k) as called by the decoder.                                    *)
Consume(k) ==
  /\ pc = "ready"
  /\ op' = "consume" /\ n' = k
  /\ pc' = "consume"
  /\ UNCHANGED <<data, pos, bits, left, result, taken>>

ConsumeBits ==
  LET used == IF n <= left THEN n ELSE left IN
  /\ pc = "consume"
  /\ left' = left - used
  /\ taken' = taken + used
  /\ op' = "none" /\ n' = 0
  /\ pc' = IF left' < Half THEN "fill" ELSE "ready"
  /\ UNCHANGED <<data, pos, bits, result>>

Next ==
  \/ FillFast \/ FillByte \/ FillMarker \/ FillDone
  \/ \E k \in 0..Half : Peek("peek", k) \/ Peek("get", k) \/ Consume(k)
  \/ PeekValue \/ Peeked \/ ConsumeBits

Spec == Init /\ [][Next]_vars

-----------------------------------------------------------------------------
(* The bit stream a byte sequence stands for, by the rules of the format:  *)
(* stuffed zeros and restart markers removed, nothing from the EOI on.     *)

Pair(i, S) == data[i] = Prefix /\ i < Len(data) /\ data[i + 1] \in S

(* What the input stands for from its i-th byte on.                        *)
Rest[i \in 1..(Len(data) + 2)] ==
  IF i > Len(data) \/ Pair(i, {EndOfImage}) THEN <<>>
  ELSE IF Pair(i, Restart) THEN Rest[i + 2]
  ELSE <<data[i]>> \o Rest[IF Pair(i, {Stuffing}) THEN i + 2 ELSE i + 1]

Payload == Rest[1]

HasEndOfImage == \E i \in 1..Len(data) : Pair(i, {EndOfImage})

(* The number that the first i bytes of p write, the first on top.         *)
Number(p) ==
  LET number[i \in 0..Len(p)] ==
        IF i = 0 THEN 0 ELSE number[i - 1] * Pow2[ByteBits] + p[i]
  IN number

Total == ByteBits * Len(Payload)

(* The count bits of number x that have off bits below them.               *)
Field(x, off, count) == (x \div Pow2[off]) % Pow2[count]

(* The value of count bits of payload p that follow the first skip bits.   *)
BitsOf(p, skip, count) ==
  Field(Number(p)[Len(p)], ByteBits * Len(p) - skip - count, count)

-----------------------------------------------------------------------------

(* The bits still in the register are the payload bits that follow those   *)
(* consumed, whatever mixture of fast and byte-wise refills put them       *)
(* there, however the reads are sized: no bit is lost, doubled or moved.   *)
(* (Up to an EOI: the fill behind it takes the marker's D9 for data.)      *)
RegisterIsNextBits ==
  taken + left <= Total =>
    bits % Pow2[left] = BitsOf(Payload, taken, left)

(* "The next `n` bits as a u32" (peek): as long as the payload has them.   *)
PeekIsNextBits ==
  pc = "peeked" /\ taken + n <= Total =>
    result = BitsOf(Payload, taken, n)

(* Input without an EOI: the register never holds more than the payload    *)
(* has, and a read that finds too few bits has found the end of the input. *)
ShortOnlyAtEnd ==
  ~HasEndOfImage =>
    /\ taken + left <= Total
    /\ pc \in {"value", "peeked"} /\ left < n => taken + left = Total

-----------------------------------------------------------------------------
(* The inductive invariant behind them.                                    *)

(* The register is Width bits, nothing outside the input is read, and what *)
(* peek returns fits the half register of its type.                        *)
TypeOK ==
  /\ data \in Data
  /\ pos \in 0..Len(data)
  /\ left \in 0..Width
  /\ bits \in 0..(Pow2[Width] - 1)
  /\ taken \in Nat /\ n \in 0..Half
  /\ pc \in {"fill", "value", "peeked", "consume", "ready"}
  /\ op \in {"peek", "get", "consume", "none"}
  /\ result \in 0..(Pow2[Half] - 1)

(* Bytes of payload that have been through the register or are in it.      *)
Delivered == (taken + left) \div ByteBits

(* The input from its i-th byte on stands for the payload behind its first *)
(* k bytes.                                                                *)
Continues(k, i) ==
  /\ k + Len(Rest[i]) = Len(Payload)
  /\ \A j \in 1..Len(Rest[i]) : Payload[k + j] = Rest[i][j]

(* The pump is in step with the payload until it has gone past an EOI; it  *)
(* has then delivered all of the payload.                                  *)
StreamInv ==
  /\ (taken + left) % ByteBits = 0
  /\ Continues(Delivered, pos + 1) \/ (HasEndOfImage /\ taken + left >= Total)

(* Of the bits in the register, those that are payload.                    *)
Genuine == IF taken + left <= Total THEN left ELSE Total - taken

(* They are the payload's next bits, also when D9 bits follow them.        *)
RegisterInv ==
  taken <= Total =>
    Field(bits, left - Genuine, Genuine) = BitsOf(Payload, taken, Genuine)

(* A fill leaves too few bits only at the end of the payload.              *)
ShortInv ==
  pc \in {"value", "peeked"} /\ left < n => taken + left >= Total

IInv == TypeOK /\ StreamInv /\ RegisterInv /\ ShortInv /\ PeekIsNextBits

=============================================================================
