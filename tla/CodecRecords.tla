---------------------------- MODULE CodecRecords ----------------------------
(***************************************************************************)
(* The codec configuration of a HEIF item between the container crate and  *)
(* the hardware backend: the adapters serialize the parsed record again    *)
(* (hvcc_bytes, av1c_bytes), the backend parses it (parse_hvcc,            *)
(* parse_av1c) and splits the item's payload (split_length_prefixed,       *)
(* split_obus).  Bytes are numbers; positions count from 0 as in the code. *)
(*                                                                         *)
(* A parser returns [ok |-> TRUE, ...] or Bad.                             *)
(***************************************************************************)
EXTENDS Naturals, Sequences, SequencesExt

CONSTANTS
  MaxArrays,  \* arrays of parameter sets in a record (255)
  MaxU16      \* units of an array, bytes of a unit (65535)

Bad == [ok |-> FALSE]

U16(n) == <<n \div 256, n % 256>>
Flag(b) == IF b THEN 1 ELSE 0
Slice(data, from, len) == SubSeq(data, from + 1, from + len)

(* The number of these digits, the highest first.                          *)
Digits(base, digits) ==
  LET value[i \in 0..Len(digits)] == IF i = 0 THEN 0 ELSE value[i - 1] * base + digits[i]
  IN value[Len(digits)]

-----------------------------------------------------------------------------
(* hvcC.  `opaque` and `opaque2` stand for the profile, tier, level and    *)
(* segmentation bytes and for the frame rate, which no one downstream      *)
(* reads.                                                                  *)

ArrayBytes(array) ==
  <<128 * Flag(array.completeness) + array.type>> \o U16(Len(array.nal_units))
    \o FlattenSeq([i \in DOMAIN array.nal_units |->
                     U16(Len(array.nal_units[i])) \o array.nal_units[i]])

HvccFits(config) ==
  /\ Len(config.arrays) <= MaxArrays
  /\ \A i \in DOMAIN config.arrays :
       /\ Len(config.arrays[i].nal_units) <= MaxU16
       /\ \A j \in DOMAIN config.arrays[i].nal_units :
            Len(config.arrays[i].nal_units[j]) <= MaxU16

(* Mutant: the temporal fields are packed one bit too low.                 *)
HvccBytes_Packing(config) ==
  <<1>> \o config.opaque
    \o <<252 + config.chroma_format_idc, 248 + config.bit_depth_luma_minus8,
         248 + config.bit_depth_chroma_minus8>>
    \o config.opaque2
    \o <<config.constant_frame_rate * 64 + config.num_temporal_layers * 8
           + Flag(config.temporal_id_nested) * 2 + config.length_size_minus_one,
         Len(config.arrays)>>
    \o FlattenSeq([i \in DOMAIN config.arrays |-> ArrayBytes(config.arrays[i])])

hvcc_bytes(config) ==
  <<1>> \o config.opaque
    \o <<252 + config.chroma_format_idc, 248 + config.bit_depth_luma_minus8,
         248 + config.bit_depth_chroma_minus8>>
    \o config.opaque2
    \o <<config.constant_frame_rate * 64 + config.num_temporal_layers * 8
           + Flag(config.temporal_id_nested) * 4 + config.length_size_minus_one,
         Len(config.arrays)>>
    \o FlattenSeq([i \in DOMAIN config.arrays |-> ArrayBytes(config.arrays[i])])

BE16(data, pos) == data[pos + 1] * 256 + data[pos + 2]

(* One NAL unit of an array, behind its 16-bit length.                     *)
NextUnit(data, acc) ==
  IF ~acc.ok \/ acc.pos + 2 > Len(data) THEN Bad
  ELSE LET len == BE16(data, acc.pos)
       IN IF acc.pos + 2 + len > Len(data) THEN Bad
          ELSE [ok |-> TRUE, pos |-> acc.pos + 2 + len,
                units |-> Append(acc.units, Slice(data, acc.pos + 2, len))]

(* n of them from pos on.                                                  *)
RecordUnits(data, pos, n) ==
  LET after[j \in 0..n] == IF j = 0 THEN [ok |-> TRUE, pos |-> pos, units |-> <<>>]
                           ELSE NextUnit(data, after[j - 1])
  IN after[n]

HvccHeaderLen == 23

NextArray(data, acc) ==
  IF ~acc.ok \/ acc.pos + 3 > Len(data) THEN Bad
  ELSE LET array == RecordUnits(data, acc.pos + 3, BE16(data, acc.pos + 1))
       IN IF ~array.ok THEN Bad
          ELSE [array EXCEPT !.units = acc.units \o array.units]

RecordArrays(data, n) ==
  LET after[j \in 0..n] == IF j = 0 THEN [ok |-> TRUE, pos |-> HvccHeaderLen, units |-> <<>>]
                           ELSE NextArray(data, after[j - 1])
  IN after[n]

parse_hvcc(data) ==
  LET length_size == (data[22] % 4) + 1
      arrays == RecordArrays(data, data[23])
  IN IF Len(data) < HvccHeaderLen THEN Bad
     ELSE IF data[1] # 1 \/ length_size = 3 THEN Bad
     ELSE IF ~arrays.ok THEN Bad
     ELSE [ok |-> TRUE, nal_length_size |-> length_size, nal_units |-> arrays.units]

(* Every byte of the payload belongs to a prefix of length_size bytes or   *)
(* to a unit of at least one.  One step per unit; more than Len(payload)   *)
(* there cannot be.                                                        *)
Number(bytes) == Digits(256, bytes)

NextNal(payload, length_size, acc) ==
  IF ~acc.ok \/ acc.pos = Len(payload) THEN acc
  ELSE IF acc.pos + length_size > Len(payload) THEN Bad
  ELSE LET len == Number(Slice(payload, acc.pos, length_size))
           body == acc.pos + length_size
       IN IF len = 0 \/ body + len > Len(payload) THEN Bad
          ELSE [ok |-> TRUE, pos |-> body + len,
                units |-> Append(acc.units, Slice(payload, body, len))]

split_length_prefixed(payload, length_size) ==
  LET after[j \in 0..Len(payload)] ==
        IF j = 0 THEN [ok |-> TRUE, pos |-> 0, units |-> <<>>]
        ELSE NextNal(payload, length_size, after[j - 1])
  IN after[Len(payload)]

-----------------------------------------------------------------------------
(* av1C and OBUs.                                                          *)

av1c_bytes(config) ==
  <<129, config.seq_profile * 32 + config.opaque,
    Flag(config.high_bitdepth) * 64 + Flag(config.monochrome) * 16
      + config.chroma_subsampling_x * 8 + config.chroma_subsampling_y * 4,
    config.delay>> \o config.config_obus

parse_av1c(data) ==
  IF Len(data) < 4 \/ data[1] # 129 THEN Bad
  ELSE [ok |-> TRUE, seq_profile |-> data[2] \div 32,
        config_obus |-> SubSeq(data, 5, Len(data))]

(* leb128: seven bits a byte, the lowest first, at most eight bytes.       *)
LebValue(bytes) ==
  Digits(128, Reverse([i \in DOMAIN bytes |-> bytes[i] % 128]))

Leb128(data, pos) ==
  LET ends == {n \in 1..8 : pos + n <= Len(data) /\ data[pos + n] < 128}
      n == CHOOSE k \in ends : \A l \in ends : k <= l
  IN IF ends = {} THEN Bad
     ELSE [ok |-> TRUE, value |-> LebValue(Slice(data, pos, n)), len |-> n]

(* One OBU at pos: its type and payload, and where the next one starts.    *)
(* Without a size field it takes the rest of the stream.                   *)
ReadObu(data, pos) ==
  LET b0 == data[pos + 1]
      start == pos + 1 + ((b0 \div 4) % 2)
      size == Leb128(data, start)
      obu(from, len) == [ok |-> TRUE, pos |-> from + len,
                         obu |-> [type |-> (b0 \div 8) % 16,
                                  payload |-> Slice(data, from, len)]]
  IN IF b0 >= 128 \/ start > Len(data) THEN Bad
     ELSE IF (b0 \div 2) % 2 = 0 THEN obu(start, Len(data) - start)
     ELSE IF ~size.ok THEN Bad
     ELSE IF start + size.len + size.value > Len(data) THEN Bad
     ELSE obu(start + size.len, size.value)

NextObu(data, acc) ==
  IF ~acc.ok \/ acc.pos = Len(data) THEN acc
  ELSE LET read == ReadObu(data, acc.pos)
       IN IF ~read.ok THEN Bad
          ELSE [ok |-> TRUE, pos |-> read.pos, obus |-> Append(acc.obus, read.obu)]

split_obus(data) ==
  LET after[j \in 0..Len(data)] ==
        IF j = 0 THEN [ok |-> TRUE, pos |-> 0, obus |-> <<>>]
        ELSE NextObu(data, after[j - 1])
  IN after[Len(data)]

-----------------------------------------------------------------------------
(* What is written, by whatever writer: the bytes of the units, chunk by   *)
(* chunk, and of a rest that begins no unit.                               *)

(* ISO/IEC 14496-15 8.3.2: a length of n bytes, and the unit.              *)
NalWritten(n, chunk, unit) ==
  /\ unit # <<>> /\ Len(chunk) = n + Len(unit)
  /\ Number(SubSeq(chunk, 1, n)) = Len(unit)
  /\ SubSeq(chunk, n + 1, Len(chunk)) = unit

NoNal(n, rest) ==
  \/ Len(rest) < n
  \/ Number(SubSeq(rest, 1, n)) = 0
  \/ n + Number(SubSeq(rest, 1, n)) > Len(rest)

(* AV1 5.3: a header of one or two bytes, the size in leb128 (4.10.5) or   *)
(* none, and the payload.                                                  *)
HeaderLen(obu) == IF (obu[1] \div 4) % 2 = 1 THEN 2 ELSE 1
Sized(obu) == (obu[1] \div 2) % 2 = 1

LebWritten(bytes) ==
  /\ Len(bytes) \in 1..8
  /\ \A i \in 1..Len(bytes) : bytes[i] < 128 <=> i = Len(bytes)

SizeBytes(obu, m) == SubSeq(obu, HeaderLen(obu) + 1, HeaderLen(obu) + m)

ObuWritten(chunk, obu) ==
  /\ Len(chunk) > 0 /\ chunk[1] < 128
  /\ \E m \in 0..8 :
       /\ IF Sized(chunk)
          THEN LebWritten(SizeBytes(chunk, m)) /\ LebValue(SizeBytes(chunk, m)) = Len(obu.payload)
          ELSE m = 0
       /\ Len(chunk) = HeaderLen(chunk) + m + Len(obu.payload)
       /\ obu = [type |-> (chunk[1] \div 8) % 16,
                 payload |-> SubSeq(chunk, HeaderLen(chunk) + m + 1, Len(chunk))]

NoObu(rest) ==
  \/ rest[1] >= 128
  \/ Len(rest) < HeaderLen(rest)
  \/ /\ Sized(rest)
     /\ \A m \in 1..8 :
          HeaderLen(rest) + m <= Len(rest) /\ LebWritten(SizeBytes(rest, m)) =>
            HeaderLen(rest) + m + LebValue(SizeBytes(rest, m)) > Len(rest)

Bytes == Seq(0..255)
NalsOK(n, bytes, chunks, units, rest) ==
  /\ units \in Seq(Bytes) /\ chunks \in Seq(Bytes) /\ rest \in Bytes
  /\ bytes = FlattenSeq(chunks) \o rest
  /\ Len(chunks) = Len(units) /\ \A i \in 1..Len(units) : NalWritten(n, chunks[i], units[i])
  /\ rest # <<>> => NoNal(n, rest)

(* An OBU without a size takes all that follows: only the last may be one. *)
ObusOK(bytes, chunks, units, rest) ==
  /\ units \in Seq([type: 0..15, payload: Bytes]) /\ chunks \in Seq(Bytes) /\ rest \in Bytes
  /\ bytes = FlattenSeq(chunks) \o rest
  /\ Len(chunks) = Len(units) /\ \A i \in 1..Len(units) : ObuWritten(chunks[i], units[i])
  /\ \A i \in 1..Len(units) : i < Len(units) \/ rest # <<>> => Sized(chunks[i])
  /\ rest # <<>> => NoObu(rest)

(* The fields of the parsed records that decide what is written.           *)
HevcConfigOK(config) ==
  /\ config.opaque \in Bytes /\ Len(config.opaque) = 15
  /\ config.opaque2 \in Bytes /\ Len(config.opaque2) = 2
  /\ config.chroma_format_idc \in 0..3
  /\ config.bit_depth_luma_minus8 \in 0..7 /\ config.bit_depth_chroma_minus8 \in 0..7
  /\ config.constant_frame_rate \in 0..3 /\ config.num_temporal_layers \in 0..7
  /\ config.temporal_id_nested \in BOOLEAN /\ config.length_size_minus_one \in 0..3
  /\ config.arrays \in Seq([completeness: BOOLEAN, type: 0..63, nal_units: Seq(Bytes)])

Av1ConfigOK(config) ==
  /\ config.seq_profile \in 0..7 /\ config.opaque \in 0..31 /\ config.delay \in 0..31
  /\ config.chroma_subsampling_x \in 0..1 /\ config.chroma_subsampling_y \in 0..1
=============================================================================
