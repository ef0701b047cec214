---------------------------- MODULE MCHeifDecode ----------------------------
(***************************************************************************)
(* Items of one or two coded pictures, with every way a 4:2:0 window can   *)
(* lie in a 4 x 4 picture, in each surface format, tight or padded; whole  *)
(* surfaces and surfaces that lack something.                              *)
(***************************************************************************)
EXTENDS HeifDecode

CodedW == 4
CodedH == 4

Crops ==
  {[x |-> x, y |-> y, w |-> w, h |-> h] :
     x \in {0, 2}, y \in {0, 2}, w \in {1, 2, 3, 4}, h \in {1, 2, 3, 4}}

InPicture(c) == c.x + c.w <= CodedW /\ c.y + c.h <= CodedH

(* Distinct samples that use the high and the low byte of a word.          *)
SampleOf(depth) ==
  [c \in {"y", "cb", "cr"}, x \in 0..CodedW - 1, y \in 0..CodedH - 1 |->
     ((IF c = "y" THEN 5 ELSE IF c = "cb" THEN 90 ELSE 170)
        + 3 * x + 13 * y + (IF depth = 8 THEN 0 ELSE 256 * x + 512)) % 2 ^ depth]

(* The bytes of a sample in a surface.                                     *)
Stored(f, depth, v) ==
  CASE f \in {"Nv12", "I420"} -> <<v>>
    [] f = "P010" -> <<(v * 2 ^ (16 - depth)) % 256, (v * 2 ^ (16 - depth)) \div 256>>
    [] f = "I010" -> <<v % 256, v \div 256>>

Padding(n) == [i \in 1..n |-> 99]

(* Rows of samples, each padded to its pitch; the last one only if tail.   *)
Rows(row(_), rows, pad, tail) ==
  FlattenSeq([y \in 1..rows |->
    row(y - 1) \o (IF y < rows \/ tail THEN Padding(pad) ELSE <<>>)])

LumaRow(p, f, y) ==
  FlattenSeq([x \in 1..CodedW |-> Stored(f, p.depth, p.sample["y", x - 1, y])])
PairRow(p, f, y) ==
  FlattenSeq([x \in 1..CodedW \div 2 |-> Stored(f, p.depth, p.sample["cb", x - 1, y])
                                  \o Stored(f, p.depth, p.sample["cr", x - 1, y])])

DriverImage(p, pad, gap) ==
  LET f == IF p.depth = 8 THEN "Nv12" ELSE "P010"
      luma == Rows(LAMBDA y : LumaRow(p, f, y), CodedH, pad, TRUE)
      pairs == Rows(LAMBDA y : PairRow(p, f, y), CodedH \div 2, pad, FALSE)
      pitch == CodedW * bytes_per_sample(f) + pad
  IN [num_planes |-> 2, fourcc |-> IF p.depth = 8 THEN "NV12" ELSE "P010", maps |-> TRUE,
      data |-> luma \o Padding(gap) \o pairs,
      offsets |-> <<0, Len(luma) + gap>>, pitches |-> <<pitch, pitch>>, sound |-> TRUE]

(* An image cut off before the last byte the window needs.                 *)
Cut(image, p) ==
  LET f == IF p.depth = 8 THEN "Nv12" ELSE "P010"
      bps == bytes_per_sample(f)
      needed == image.offsets[2]
                  + image.pitches[2] * (p.crop.y \div 2 + DivCeil2(p.crop.h) - 1)
                  + p.crop.x * bps + 2 * DivCeil2(p.crop.w) * bps
  IN [image EXCEPT !.data = SubSeq(@, 1, needed - 1), !.sound = FALSE]

DriverImages(p) ==
  LET tight == DriverImage(p, 0, 0)
      padded == DriverImage(p, 3, 2)
  IN {tight, padded, DriverImage(p, 2, 0),
      Cut(tight, p), Cut(padded, p),
      [tight EXCEPT !.num_planes = 1, !.sound = FALSE],
      [tight EXCEPT !.fourcc = "YV12", !.sound = FALSE],
      [tight EXCEPT !.fourcc = IF p.depth = 8 THEN "P010" ELSE "NV12", !.sound = FALSE],
      [tight EXCEPT !.maps = FALSE, !.sound = FALSE]}

(* The planes a backend of three planes returns, cropped by itself.        *)
PlaneOf(p, f, c, w, h, pad) ==
  LET scale == IF c = "y" THEN 1 ELSE 2
      row(y) == FlattenSeq([x \in 1..w |->
                  Stored(f, p.depth, p.sample[c, p.crop.x \div scale + x - 1,
                                                 p.crop.y \div scale + y])])
  IN [data |-> Rows(row, h, pad, FALSE), stride |-> w * bytes_per_sample(f) + pad]

OtherFrame(p, pad) ==
  LET f == IF p.depth = 8 THEN "I420" ELSE "I010"
      cw == DivCeil2(p.crop.w)
      ch == DivCeil2(p.crop.h)
  IN [format |-> f, sound |-> TRUE,
      planes |-> <<PlaneOf(p, f, "y", p.crop.w, p.crop.h, pad),
                   PlaneOf(p, f, "cb", cw, ch, pad), PlaneOf(p, f, "cr", cw, ch, pad)>>]

OtherFrames(p) ==
  LET padded == OtherFrame(p, 1)
  IN {padded, OtherFrame(p, 0),
      [padded EXCEPT !.planes = SubSeq(@, 1, 2), !.sound = FALSE],
      [padded EXCEPT !.planes[3].data = SubSeq(@, 1, Len(@) - 1), !.sound = FALSE],
      [padded EXCEPT !.planes[2].stride = 0, !.sound = FALSE],
      [padded EXCEPT !.format = IF p.depth = 8 THEN "I010" ELSE "I420", !.sound = FALSE]}

-----------------------------------------------------------------------------
(* Records and payloads.                                                   *)

NalUnits == <<<<64, 1, 12>>, <<66, 1>>, <<68, 1, 0, 3>>>>

HevcConfig(length_size, arrays) ==
  [opaque |-> [i \in 1..15 |-> 7], opaque2 |-> <<3, 0>>, chroma_format_idc |-> 1,
   bit_depth_luma_minus8 |-> 2, bit_depth_chroma_minus8 |-> 0, constant_frame_rate |-> 1,
   num_temporal_layers |-> 5, temporal_id_nested |-> TRUE,
   length_size_minus_one |-> length_size - 1, arrays |-> arrays]

Arrays(type, units) == [completeness |-> TRUE, type |-> type, nal_units |-> units]

Prefixed(n, units) ==
  [i \in DOMAIN units |-> [k \in 1..n - 1 |-> 0] \o <<Len(units[i])>> \o units[i]]

Item(codec, config, chroma, units, chunks, pictures) ==
  [codec |-> codec, config |-> config, chroma |-> chroma, units |-> units, chunks |-> chunks,
   rest |-> <<>>, pictures |-> pictures]

CodedPicture(crop, depth, chunks, units) ==
  [crop |-> crop, depth |-> depth, payload |-> FlattenSeq(chunks), chunks |-> chunks,
   rest |-> <<>>, units |-> units, whole |-> TRUE, sample |-> SampleOf(depth)]

Coded == <<<<38, 1, 9>>, <<38, 1>>>>

HevcItems ==
  {Item("hevc", HevcConfig(n, <<Arrays(32, <<NalUnits[1]>>), Arrays(33, <<>>),
                                Arrays(34, SubSeq(NalUnits, 2, 3))>>),
        chroma, NalUnits, <<>>, <<CodedPicture(c, depth, Prefixed(n, Coded), Coded)>>) :
     n \in {1, 2, 4}, chroma \in {"Monochrome", "Yuv420"}, depth \in {8, 10},
     c \in {c \in Crops : InPicture(c)}}

Obu(type, extension, sized, payload) ==
  <<type * 8 + (IF extension THEN 4 ELSE 0) + (IF sized THEN 2 ELSE 0)>>
    \o (IF extension THEN <<32>> ELSE <<>>)
    \o (IF sized THEN <<128 + Len(payload), 0>> ELSE <<>>) \o payload

Units == <<[type |-> 6, payload |-> <<1, 2>>], [type |-> 4, payload |-> <<3>>]>>
Sequence == [type |-> 1, payload |-> <<8, 8>>]

Av1Config(obus) ==
  [seq_profile |-> 0, opaque |-> 4, high_bitdepth |-> TRUE, monochrome |-> FALSE,
   chroma_subsampling_x |-> 1, chroma_subsampling_y |-> 1, delay |-> 0,
   config_obus |-> obus]

Av1Item(extension, chroma, pictures) ==
  LET sequence == Obu(1, extension, TRUE, <<8, 8>>)
  IN Item("av1", Av1Config(sequence), chroma, <<Sequence>>, <<sequence>>, pictures)

Coded1(crop, depth, extension, sized) ==
  CodedPicture(crop, depth, <<Obu(6, extension, TRUE, <<1, 2>>), Obu(4, extension, sized, <<3>>)>>,
               Units)

Av1Items ==
  {Av1Item(extension, chroma, <<Coded1(c, depth, extension, sized)>>) :
     extension \in BOOLEAN, sized \in BOOLEAN, chroma \in {"Monochrome", "Yuv420", "Yuv444"},
     depth \in {8, 10}, c \in {[x |-> 0, y |-> 0, w |-> w, h |-> h] : w \in {3, 4}, h \in {1, 4}}}

(* A grid of two tiles, an item whose payload is cut off or goes on with   *)
(* no unit, a record of too many arrays, of a length size of 3 or of a     *)
(* profile out of scope, and a unit longer than its field.                 *)
Whole == [x |-> 0, y |-> 0, w |-> 4, h |-> 4]
Plain(n) == CodedPicture(Whole, 8, Prefixed(n, Coded), Coded)
Faulty(n) == [Plain(n) EXCEPT !.whole = FALSE]
Damaged(picture, rest) == [picture EXCEPT !.whole = FALSE, !.rest = rest, !.payload = @ \o rest]
Filled(n, bytes) == [i \in 1..n |-> bytes]
TooLong == <<NalUnits[1], Filled(MaxU16 + 1, 1), NalUnits[2]>>

OddItems ==
  {Item("hevc", HevcConfig(2, <<Arrays(33, NalUnits)>>), "Yuv420", NalUnits, <<>>,
        <<Plain(2), CodedPicture([Whole EXCEPT !.w = 2], 10, Prefixed(2, Coded), Coded)>>),
   Item("hevc", HevcConfig(3, <<>>), "Yuv420", <<>>, <<>>, <<Faulty(3)>>),
   Item("hevc", HevcConfig(2, Filled(MaxArrays + 1, Arrays(33, <<>>))), "Yuv420", <<>>, <<>>,
        <<Faulty(2)>>),
   Item("hevc", HevcConfig(2, <<Arrays(33, TooLong)>>), "Yuv420", TooLong, <<>>, <<Faulty(2)>>),
   [Av1Item(FALSE, "Yuv444", <<[Coded1(Whole, 8, FALSE, TRUE) EXCEPT !.whole = FALSE]>>)
      EXCEPT !.config.seq_profile = 1],
   [Av1Item(FALSE, "Yuv444", <<[Coded1(Whole, 8, FALSE, TRUE) EXCEPT !.whole = FALSE]>>)
      EXCEPT !.rest = <<200>>, !.config.config_obus = @ \o <<200>>]}
  \cup {Item("hevc", HevcConfig(4, <<Arrays(33, NalUnits)>>), "Yuv420", NalUnits, <<>>,
             <<Plain(4), Damaged(Plain(4), rest)>>) :
          rest \in {<<0, 0, 1>>, <<0, 0, 0, 0>>, <<0, 0, 0, 3, 38, 1>>}}
  \cup {Av1Item(FALSE, "Yuv420", <<Damaged(Coded1(Whole, 8, FALSE, TRUE), rest)>>) :
          rest \in {<<128>>, <<36>>, <<34>>, <<34, 2, 1>>, <<34, 200, 201>>,
                    <<34>> \o Filled(8, 128) \o <<0>>}}

Checked == HevcItems \cup Av1Items \cup OddItems
=============================================================================
