---------------------------- MODULE LjpegDecoder ----------------------------
(***************************************************************************)
(* LjpegDecoder::decode (crates/rawshift-image-ljpeg/src/lib.rs): the loop *)
(* over the markers, one segment a step, then the scan, one sample a step. *)
(*                                                                         *)
(* A stream is given by its parsed layout: `segments`, in file order;      *)
(* `scan`, the entropy-coded bits between the SOS header and the next      *)
(* marker, stuffing and restart markers removed as BitPump removes them    *)
(* (module BitPump shows that it delivers exactly these bits); `all`, the  *)
(* bits of the whole file, which is what a stream without SOS is decoded   *)
(* from.  A read past the last bit yields what is left in the pump's       *)
(* register: such a sample may come out as any value.                      *)
(*                                                                         *)
(* In the code Fast = 8, MaxLen = 16, Slots = 4 and a sample is a u16.     *)
(***************************************************************************)
EXTENDS LosslessJpeg, FiniteSets

CONSTANTS
  Streams,      \* the streams that may be given
  Fast,         \* bits that index HuffmanTable::lookup
  MaxLen,       \* longest Huffman code
  Slots,        \* entries of huffman_dc
  SampleWidth,  \* bits of an output sample
  None

ASSUME LjpegAssumption ==
  /\ Fast \in Nat \ {0} /\ MaxLen \in Nat /\ Fast <= MaxLen
  /\ Slots \in Nat \ {0} /\ SampleWidth \in Nat \ {0}

(* What a DHT segment may define: counts per length and symbols, of no     *)
(* particular number.                                                      *)
HuffmanTable == [bits: [1..MaxLen -> Nat], huffval: Seq(Nat)]

(* The types of what the parsers read, parse_sos masking the transform.     *)
Segment(s) ==
  /\ s.kind = "SOF3" => /\ s.precision \in Nat /\ s.width \in Nat /\ s.height \in Nat
                        /\ s.ids \in Seq(Nat)
  /\ s.kind = "DHT" => s.tables \in Seq([class: Nat, slot: Nat, cut: BOOLEAN,
                                         table: HuffmanTable])
  /\ s.kind = "SOS" => /\ s.selectors \in Seq([id: Nat, table: Nat])
                       /\ s.selection \in Nat /\ s.transform \in 0..(SampleWidth - 1)

ASSUME StreamAssumption ==
  \A s \in Streams :
    /\ Len(s.segments) \in Nat /\ \A k \in 1..Len(s.segments) : Segment(s.segments[k])
    /\ s.scan \in Seq({0, 1}) /\ s.all \in Seq({0, 1})
    /\ s.dimensions = None \/ s.dimensions \in Nat \X Nat

VARIABLES
  stream,       \* the input, fixed
  next,         \* the segment the marker loop is at
  frame,        \* FrameInfo: precision, width, height, components
  huffman_dc,   \* slot -> table
  predictor, point_transform,
  restart_interval,
  pc,           \* "markers", "start", "scan", "done", "failed" or "panicked"
  bits,         \* what the pump reads from
  used,         \* bits consumed of it
  sample,       \* samples decoded
  prev, col0_prev,   \* per component, in a four-component scan
  output        \* position -> sample

header == <<next, frame, huffman_dc, predictor, point_transform, restart_interval>>
scanning == <<bits, used, sample, prev, col0_prev, output>>
vars == <<stream, header, pc, scanning>>

-----------------------------------------------------------------------------
(* HuffmanTable                                                            *)

(* `code` as build_tables has it when it reaches each length.              *)
FirstCode(table) ==
  LET code[l \in 1..(MaxLen + 1)] ==
        IF l = 1 THEN 0 ELSE (code[l - 1] + table.bits[l - 1]) * 2
  IN code

(* `j`: symbols with shorter codes.                                        *)
Shorter(table) ==
  LET j[l \in 1..(MaxLen + 1)] == IF l = 1 THEN 0 ELSE j[l - 1] + table.bits[l - 1]
  IN j

(* The codes of at most Fast bits that p begins with, as <<i, l>>: symbol  *)
(* number i, of length l.                                                  *)
CodesAhead(table, p) ==
  {il \in (0..(Len(table.huffval) - 1)) \X (1..Fast) :
     LET rank == il[1] - Shorter(table)[il[2]] IN
     /\ rank \in 0..(table.bits[il[2]] - 1)
     /\ p \div Pow2[Fast - il[2]] = FirstCode(table)[il[2]] + rank}

(* Mutant: every entry consumes the whole index.                           *)
Lookup_WholeIndex(table, p) ==
  {<<table.huffval[il[1] + 1], Fast>> : il \in CodesAhead(table, p)}

(* lookup[p]: the symbol and length of the code that p begins with, if it  *)
(* has one: a set of at most one.                                          *)
Lookup(table, p) ==
  {<<table.huffval[il[1] + 1], il[2]>> : il \in CodesAhead(table, p)}

(* The slow path over the next MaxLen bits w: the shortest prefix that     *)
(* does not exceed maxcode of its length, else zero after all of them.     *)
(* maxcode is -1 for an unused length.                                     *)
SlowPath(table, w) ==
  LET code(l) == w \div Pow2[MaxLen - l]
      fits == {l \in 1..MaxLen :
                 /\ table.bits[l] # 0
                 /\ code(l) <= FirstCode(table)[l] + table.bits[l] - 1
                 /\ Shorter(table)[l] + code(l) - FirstCode(table)[l]
                      \in 0..(Len(table.huffval) - 1)}
  IN IF fits = {} THEN <<0, MaxLen>>
     ELSE LET l == CHOOSE l \in fits : \A m \in fits : l <= m
          IN <<table.huffval[Shorter(table)[l] + code(l) - FirstCode(table)[l] + 1], l>>

(* decode_huffman: <<symbol, bits consumed>>.  A default table has an      *)
(* empty lookup.                                                           *)
Huffman(table, w) ==
  LET found == Lookup(table, w \div Pow2[MaxLen - Fast]) IN
  IF found # {} THEN CHOOSE f \in found : TRUE ELSE SlowPath(table, w)

DefaultTable == [bits |-> [l \in 1..MaxLen |-> 0], huffval |-> <<>>]

-----------------------------------------------------------------------------
(* LjpegDecoder::new, and the marker loop of decode                        *)

Init ==
  /\ stream \in Streams
  /\ next = 1
  /\ frame = [precision |-> 0, width |-> 0, height |-> 0, components |-> <<>>]
  /\ huffman_dc = [s \in 0..(Slots - 1) |-> DefaultTable]
  /\ predictor = 1 /\ point_transform = 0 /\ restart_interval = 0
  /\ pc = "markers"
  /\ bits = <<>> /\ used = 0 /\ sample = 0
  /\ prev = <<>> /\ col0_prev = <<>> /\ output = <<>>

AtSegment(kind) ==
  /\ pc = "markers"
  /\ next <= Len(stream.segments)
  /\ stream.segments[next].kind = kind

segment == stream.segments[next]

Fail == pc' = "failed" /\ UNCHANGED <<stream, scanning>>

ParseSof3 ==
  /\ AtSegment("SOF3") /\ ~segment.cut
  /\ frame' = [precision |-> segment.precision,
               width |-> segment.width, height |-> segment.height,
               components |-> [i \in DOMAIN segment.ids |->
                                 [id |-> segment.ids[i], dc_table |-> 0]]]
  /\ next' = next + 1
  /\ UNCHANGED <<stream, huffman_dc, predictor, point_transform, restart_interval,
                 pc, scanning>>

(* Too short for its fixed part or for its components; the former leaves   *)
(* the frame as it was, the latter only the components.                    *)
Sof3TooShort ==
  /\ AtSegment("SOF3") /\ segment.cut
  /\ \/ UNCHANGED frame
     \/ frame' = [precision |-> segment.precision, width |-> segment.width,
                  height |-> segment.height, components |-> frame.components]
  /\ UNCHANGED <<next, huffman_dc, predictor, point_transform, restart_interval>>
  /\ Fail

(* parse_dht stops at a slot that does not exist or a table cut short; the *)
(* tables before it are stored, those of class 1 (AC) never.               *)
ParseDht ==
  LET bad == {i \in DOMAIN segment.tables :
                segment.tables[i].slot >= Slots \/ segment.tables[i].cut}
      stored(s) == {i \in DOMAIN segment.tables :
                      /\ \A b \in bad : i < b
                      /\ segment.tables[i].class = 0
                      /\ segment.tables[i].slot = s}
      last(s) == CHOOSE i \in stored(s) : \A j \in stored(s) : j <= i
  IN
  /\ AtSegment("DHT")
  /\ huffman_dc' = [s \in DOMAIN huffman_dc |->
                      IF stored(s) = {} THEN huffman_dc[s]
                      ELSE segment.tables[last(s)].table]
  /\ IF bad = {} THEN pc' = pc /\ next' = next + 1 ELSE pc' = "failed" /\ next' = next
  /\ UNCHANGED <<stream, frame, predictor, point_transform, restart_interval, scanning>>

(* A DRI too short to hold an interval (None) changes nothing.             *)
ParseDri ==
  /\ AtSegment("DRI")
  /\ restart_interval' = IF segment.interval = None THEN restart_interval
                         ELSE segment.interval
  /\ next' = next + 1
  /\ UNCHANGED <<stream, frame, huffman_dc, predictor, point_transform, pc, scanning>>

(* The file does not begin with the SOI marker: a "no SOI" stands for its  *)
(* first two bytes.                                                        *)
MissingSoi == AtSegment("no SOI") /\ UNCHANGED header /\ Fail

(* The file ends within a segment's length field, within the interval of a *)
(* DRI or within a DHT or SOS of a greater length: Rust's slices panic,     *)
(* before anything of the segment is stored.  Another segment that ends    *)
(* behind the file is its last: NoScan follows.                            *)
PanicOnLength ==
  /\ AtSegment("overrun")
  /\ pc' = "panicked"
  /\ UNCHANGED <<stream, header, scanning>>

(* APPn, COM and every marker the decoder does not know.                   *)
SkipSegment ==
  /\ AtSegment("other")
  /\ next' = next + 1
  /\ UNCHANGED <<stream, frame, huffman_dc, predictor, point_transform,
                 restart_interval, pc, scanning>>

(* Mutant: the table selector goes to the component at the same position.  *)
ParseSos_ByPosition ==
  /\ AtSegment("SOS") /\ ~segment.cut
  /\ frame' = [frame EXCEPT !.components =
                 [i \in DOMAIN @ |->
                    IF i \in DOMAIN segment.selectors
                    THEN [@[i] EXCEPT !.dc_table = segment.selectors[i].table]
                    ELSE @[i]]]
  /\ predictor' = segment.selection
  /\ point_transform' = segment.transform
  /\ bits' = stream.scan
  /\ pc' = "start"
  /\ UNCHANGED <<stream, next, huffman_dc, restart_interval,
                 used, sample, prev, col0_prev, output>>

(* A selector goes to the first component of its id, whatever the order.   *)
ParseSos ==
  LET comps == frame.components
      names(i) == {k \in DOMAIN segment.selectors :
                     /\ segment.selectors[k].id = comps[i].id
                     /\ \A j \in 1..(i - 1) : comps[j].id # comps[i].id}
      last(i) == CHOOSE k \in names(i) : \A m \in names(i) : m <= k
  IN
  /\ AtSegment("SOS") /\ ~segment.cut
  /\ frame' = [frame EXCEPT !.components =
                 [i \in DOMAIN comps |->
                    IF names(i) = {} THEN comps[i]
                    ELSE [comps[i] EXCEPT !.dc_table = segment.selectors[last(i)].table]]]
  /\ predictor' = segment.selection
  /\ point_transform' = segment.transform
  /\ bits' = stream.scan
  /\ pc' = "start"
  /\ UNCHANGED <<stream, next, huffman_dc, restart_interval,
                 used, sample, prev, col0_prev, output>>

SosTooShort ==
  /\ AtSegment("SOS") /\ segment.cut
  /\ UNCHANGED header
  /\ Fail

(* EOI, or the end of the file, before any SOS: the scan is everything.    *)
NoScan ==
  /\ \/ AtSegment("EOI")
     \/ pc = "markers" /\ next > Len(stream.segments)
  /\ bits' = stream.all
  /\ pc' = "start"
  /\ UNCHANGED <<stream, header, used, sample, prev, col0_prev, output>>

-----------------------------------------------------------------------------
(* decode_scan                                                             *)

(* set_dimensions, which every caller calls, overrides the frame header.   *)
Width == IF stream.dimensions = None THEN frame.width ELSE stream.dimensions[1]
Height == IF stream.dimensions = None THEN frame.height ELSE stream.dimensions[2]

Sub(a, b) == IF a > b THEN a - b ELSE 0      \* saturating_sub

Initial == Pow2[Sub(Sub(frame.precision, point_transform), 1)]

MaxVal == Pow2[frame.precision] - 1

(* What an output sample may hold.                                         *)
Largest == IF frame.precision <= SampleWidth THEN MaxVal ELSE Pow2[SampleWidth] - 1

StartScan ==
  /\ pc = "start"
  /\ Len(frame.components) \in {1, 4}
  /\ Len(frame.components) = 1 => frame.components[1].dc_table < Slots
  /\ pc' = "scan"
  /\ used' = 0 /\ sample' = 0
  /\ prev' = [c \in 0..3 |-> Initial] /\ col0_prev' = [c \in 0..3 |-> Initial]
  /\ output' = [p \in 0..(Width * Height - 1) |-> 0]
  /\ UNCHANGED <<stream, header, bits>>

(* No components, or a number of them it does not support.                 *)
RefuseScan ==
  /\ pc = "start"
  /\ Len(frame.components) \notin {1, 4}
  /\ UNCHANGED header
  /\ Fail

(* A one-component scan indexes huffman_dc with the table it was told; a   *)
(* four-component scan takes the last slot instead of one that is missing. *)
PanicOnSlot ==
  /\ pc = "start"
  /\ Len(frame.components) = 1 /\ frame.components[1].dc_table >= Slots
  /\ pc' = "panicked"
  /\ UNCHANGED <<stream, header, scanning>>

(* The value of n bits from bit i on, zeros behind the last.               *)
BitsAt(i, n) ==
  LET value[k \in 0..n] ==
        IF k = 0 THEN 0
        ELSE value[k - 1] * 2 + (IF i + k <= Len(bits) THEN bits[i + k] ELSE 0)
  IN value[n]

Extend(v, t) ==
  IF t = 0 THEN 0 ELSE IF v < Pow2[t - 1] THEN v - Pow2[t] + 1 ELSE v

(* One coded difference: its value and the bits it takes.                  *)
Difference(table) ==
  LET h == Huffman(table, BitsAt(used, MaxLen))
  IN [value |-> IF h[1] = 0 THEN 0 ELSE Extend(BitsAt(used + h[2], h[1]), h[1]),
      category |-> h[1], length |-> h[2] + h[1]]

(* Mutant: modes 5 and 6 are swapped.                                      *)
Predict_Swapped(ra, rb, rc) ==
  CASE predictor = 0 -> 0
    [] predictor = 2 -> rb
    [] predictor = 3 -> rc
    [] predictor = 4 -> ra + rb - rc
    [] predictor = 6 -> ra + (rb - rc) \div 2
    [] predictor = 5 -> rb + (ra - rc) \div 2
    [] predictor = 7 -> (ra + rb) \div 2
    [] OTHER -> ra

Predict(ra, rb, rc) ==
  CASE predictor = 0 -> 0
    [] predictor = 2 -> rb
    [] predictor = 3 -> rc
    [] predictor = 4 -> ra + rb - rc
    [] predictor = 5 -> ra + (rb - rc) \div 2
    [] predictor = 6 -> rb + (ra - rc) \div 2
    [] predictor = 7 -> (ra + rb) \div 2
    [] OTHER -> ra

(* A precision or a category above 16, which the parsers let through: the   *)
(* shifts and sums are beyond their 32 bits, and get_bits beyond its 32.    *)
Overflows(d) == frame.precision > SampleWidth \/ d.category > SampleWidth

(* The difference d makes the sample `clamped`; one the bits do not suffice *)
(* for may be anything and leaves none.                                     *)
Decoded(d, clamped, value) ==
  \/ Overflows(d) /\ used' \in used..Len(bits)
  \/ /\ ~Overflows(d) /\ used + d.length <= Len(bits)
     /\ value = clamped /\ used' = used + d.length
  \/ ~Overflows(d) /\ used + d.length > Len(bits) /\ used' = Len(bits)

(* Four components are the four pixels of a 2x2 block, each predicted by   *)
(* its left neighbour, or in column 0 by the one above.                    *)
Blocks == (Width \div 2) * (Height \div 2)

SuperX == (sample \div 4) % (Width \div 2)
SuperY == (sample \div 4) \div (Width \div 2)
Place == (SuperY * 2 + (sample % 4) \div 2) * Width + (SuperX * 2) + ((sample % 4) % 2)

FourComponentSample ==
  LET c == sample % 4
      sx == SuperX
      sy == SuperY
      slot == frame.components[c + 1].dc_table
      d == Difference(huffman_dc[IF slot < Slots THEN slot ELSE Slots - 1])
      predicted == IF sx > 0 THEN prev[c]
                   ELSE IF sy = 0 THEN Initial ELSE col0_prev[c]
      clamp(v) == IF v < 0 THEN 0 ELSE IF v > MaxVal THEN MaxVal ELSE v
  IN
  /\ pc = "scan" /\ Len(frame.components) = 4 /\ sample < 4 * Blocks
  /\ \E value \in 0..Largest :
       /\ Decoded(d, clamp(predicted + d.value), value)
       /\ prev' = [prev EXCEPT ![c] = value]
       /\ col0_prev' = IF sx = 0 THEN [col0_prev EXCEPT ![c] = value] ELSE col0_prev
       /\ output' = [output EXCEPT ![Place] = value]
  /\ sample' = sample + 1
  /\ UNCHANGED <<stream, header, pc, bits>>

(* A negative value is a huge u32, so that `min` makes it the maximum.     *)
OneComponentSample ==
  LET d == Difference(huffman_dc[frame.components[1].dc_table])
      x == sample % Width
      y == sample \div Width
      ra == IF x > 0 THEN output[sample - 1] ELSE Initial
      rb == IF y > 0 THEN output[sample - Width] ELSE Initial
      rc == IF x > 0 /\ y > 0 THEN output[sample - Width - 1] ELSE Initial
      predicted == IF x = 0 /\ y = 0 THEN Initial
                   ELSE IF y = 0 THEN ra
                   ELSE IF x = 0 THEN rb
                   ELSE Predict(ra, rb, rc)
      clamp(v) == IF v < 0 \/ v > MaxVal THEN MaxVal ELSE v
  IN
  /\ pc = "scan" /\ Len(frame.components) = 1 /\ sample < Width * Height
  /\ \E value \in 0..Largest :
       /\ Decoded(d, clamp(predicted + d.value), value)
       /\ output' = [output EXCEPT ![sample] = value]
  /\ sample' = sample + 1
  /\ UNCHANGED <<stream, header, pc, bits, prev, col0_prev>>

SamplesToDecode == IF Len(frame.components) = 4 THEN 4 * Blocks ELSE Width * Height

(* The point transform, and the image goes to the caller.                  *)
FinishScan ==
  /\ pc = "scan" /\ sample = SamplesToDecode
  /\ output' = [p \in DOMAIN output |->
                  (output[p] * Pow2[point_transform]) % Pow2[SampleWidth]]
  /\ pc' = "done"
  /\ UNCHANGED <<stream, header, bits, used, sample, prev, col0_prev>>

Next ==
  \/ MissingSoi \/ PanicOnLength
  \/ ParseSof3 \/ Sof3TooShort \/ ParseDht \/ ParseDri \/ SkipSegment
  \/ ParseSos \/ SosTooShort \/ NoScan
  \/ StartScan \/ RefuseScan \/ PanicOnSlot
  \/ FourComponentSample \/ OneComponentSample \/ FinishScan

Spec == Init /\ [][Next]_vars

-----------------------------------------------------------------------------

(* The 8-bit lookup is only a shortcut (decode_huffman): for every table   *)
(* the decoder holds and every next 16 bits, it finds the symbol and the   *)
(* length that the bit-by-bit path finds.                                  *)
FastAgreesWithSlow ==
  pc = "start" =>
    \A s \in DOMAIN huffman_dc, w \in 0..(Pow2[MaxLen] - 1) :
      Huffman(huffman_dc[s], w) = SlowPath(huffman_dc[s], w)

-----------------------------------------------------------------------------
(* Conforming streams, of the encoder of LosslessJpeg: without restart     *)
(* markers, without fill bytes before a marker, without differences of 16  *)
(* bits.  stream.source is None, or what that encoder was given            *)
(* (Encodable), with `ends`, where each sample's bits end, and `image`,    *)
(* what a decoder has to return.                                           *)
Conforming == stream.source # None

(* The four components are the pixels of a 2x2 block, as in Sony's files.  *)
ImageSize(e) == IF Len(e.planes) = 1 THEN <<e.width, e.height>>
                ELSE <<2 * e.width, 2 * e.height>>

SampleAt(e, x, y) ==
  IF Len(e.planes) = 1 THEN e.planes[1][x][y]
  ELSE e.planes[2 * (y % 2) + (x % 2) + 1][x \div 2][y \div 2]

Image(e) ==
  [p \in 0..(ImageSize(e)[1] * ImageSize(e)[2] - 1) |->
     SampleAt(e, p % ImageSize(e)[1], p \div ImageSize(e)[1]) * Pow2[e.transform]]

(* Segment k is the last SOF3 before segment n; entry i of the DHT segment *)
(* k is the last before n to define its slot ("replaces", B.2.4.2).        *)
LastFrame(segments, n, k) ==
  /\ segments[k].kind = "SOF3"
  /\ \A m \in (k + 1)..(n - 1) : segments[m].kind # "SOF3"

IsFor(entry, slot) == entry.class = 0 /\ entry.slot = slot

LastDefinition(segments, n, k, i) ==
  LET slot == segments[k].tables[i].slot
  IN /\ IsFor(segments[k].tables[i], slot)
     /\ \A j \in DOMAIN segments[k].tables : j > i => ~IsFor(segments[k].tables[j], slot)
     /\ \A m \in (k + 1)..(n - 1) : segments[m].kind = "DHT" =>
          \A j \in DOMAIN segments[m].tables : ~IsFor(segments[m].tables[j], slot)

(* What may stand before the scan header.                                  *)
Readable(s) ==
  /\ s.kind \in {"SOF3", "DHT", "DRI", "other"}
  /\ s.kind = "SOF3" => ~s.cut
  /\ s.kind = "DHT" => \A i \in DOMAIN s.tables : s.tables[i].slot < Slots /\ ~s.tables[i].cut

(* The frame header f and the scan header h of e.                          *)
DescribesFrame(f, dimensions, e) ==
  /\ f.precision = e.precision
  /\ (IF dimensions = None THEN <<f.width, f.height>> ELSE dimensions) = ImageSize(e)
  /\ Len(f.ids) = Len(e.planes)
  /\ \A c, d \in 1..Len(f.ids) : f.ids[c] = f.ids[d] => c = d

DescribesScan(h, e) ==
  ~h.cut /\ h.selection = e.selection /\ h.transform = e.transform

(* Selector j names the table of component c of f.                         *)
Selects(h, j, f, c) ==
  /\ h.selectors[j].id = f.ids[c]
  /\ \A m \in DOMAIN h.selectors : h.selectors[m].id = f.ids[c] => m = j

(* Segment n is the first SOS, and the segments before it announce e.      *)
Announced(s, n) ==
  LET segments == s.segments
      h == segments[n]
      e == s.source
  IN /\ h.kind = "SOS" /\ DescribesScan(h, e)
     /\ \A k \in 1..(n - 1) : Readable(segments[k])
     /\ \E k \in 1..(n - 1) :
          /\ LastFrame(segments, n, k) /\ DescribesFrame(segments[k], s.dimensions, e)
          /\ \A c \in 1..Len(e.planes) : \E j \in DOMAIN h.selectors :
               /\ Selects(h, j, segments[k], c)
               /\ \E m \in 1..(n - 1) : segments[m].kind = "DHT" /\ \E i \in DOMAIN segments[m].tables :
                    /\ LastDefinition(segments, n, m, i)
                    /\ segments[m].tables[i].slot = h.selectors[j].table
                    /\ segments[m].tables[i].table = e.tables[c]

(* Within the decoder's types and, of four components, Sony's predictor.   *)
Supported(e) ==
  /\ Len(e.planes) = 1 \/ (Len(e.planes) = 4 /\ e.selection = 1)
  /\ e.precision <= SampleWidth
  /\ \A c \in 1..Len(e.planes) :
       /\ e.tables[c] \in HuffmanTable
       /\ \A x \in 0..(e.width - 1), y \in 0..(e.height - 1) :
            Category(DifferenceOf(e, c, x, y)) <= SampleWidth

(* The scan begins with the bits of e, each sample's ending at its end.    *)
Carries(s) ==
  LET e == s.source
      n == SampleCount(e)
  IN /\ Len(e.ends) = n + 1 /\ \A i \in 0..n : e.ends[i + 1] = Len(ScanUpTo(e)[i])
     /\ e.ends[n + 1] <= Len(s.scan)
     /\ SubSeq(s.scan, 1, e.ends[n + 1]) = ScanUpTo(e)[n]
     /\ e.image = Image(e)

(* A source is what its stream was made from.  Any stream may be without   *)
(* one.                                                                    *)
ASSUME SourceAssumption ==
  \A s \in Streams : s.source # None =>
    /\ Encodable(s.source) /\ Supported(s.source) /\ Carries(s)
    /\ \E n \in 1..Len(s.segments) : Announced(s, n)

(* decode_scan keeps in step with the encoder: before every sample it has  *)
(* consumed exactly the bits of those before it, however long their codes  *)
(* and whichever of the two table lookups found them.                      *)
InStep ==
  Conforming /\ pc = "scan" =>
    used = stream.source.ends[sample + 1]

(* "Decodes lossless JPEG data (ITU-T T.81 Annex H / SOF3)": of every      *)
(* stream of the modelled encoder, whatever the order of its segments, the *)
(* tables it redefines and the segments to skip, decode returns the very   *)
(* image that was encoded.                                                 *)
DecodesImage ==
  Conforming =>
    /\ pc \notin {"failed", "panicked"}
    /\ pc = "done" => output = stream.source.image

-----------------------------------------------------------------------------
(* The inductive invariant                                                 *)

TypeOK ==
  /\ stream \in Streams /\ next \in Nat \ {0}
  /\ frame \in [precision: Nat, width: Nat, height: Nat,
                components: Seq([id: Nat, dc_table: Nat])]
  /\ huffman_dc \in [0..(Slots - 1) -> HuffmanTable]
  /\ predictor \in Nat /\ point_transform \in Nat
  /\ pc \in {"markers", "start", "scan", "done", "failed", "panicked"}
  /\ bits \in Seq({0, 1}) /\ used \in 0..Len(bits)

(* A scan is only begun with a table for its component, and fills the      *)
(* image sample by sample with values of the sample's type; what is        *)
(* returned fits the output's type.                                        *)
ScanInv ==
  /\ pc \in {"markers", "start"} => used = 0
  /\ pc = "scan" =>
       /\ Len(frame.components) \in {1, 4}
       /\ Len(frame.components) = 1 => frame.components[1].dc_table \in 0..(Slots - 1)
       /\ sample \in 0..SamplesToDecode
       /\ prev \in [0..3 -> Nat] /\ col0_prev \in [0..3 -> Nat]
       /\ output \in [0..(Width * Height - 1) -> 0..Largest]
  /\ pc = "done" => output \in [0..(Width * Height - 1) -> 0..(Pow2[SampleWidth] - 1)]

IInv == TypeOK /\ ScanInv

(* Behind InStep and DecodesImage: at segment `next` the decoder knows what *)
(* the segments before it define, before the scan all that e's encoder was *)
(* given, and in it the samples decoded so far.                            *)
encoded == stream.source

HeadersInv(n) ==
  /\ next \in 1..n
  /\ \A k \in 1..(next - 1) :
       /\ LastFrame(stream.segments, next, k) =>
            LET f == stream.segments[k]
            IN /\ frame.precision = f.precision
               /\ frame.width = f.width /\ frame.height = f.height
               /\ Len(frame.components) = Len(f.ids)
               /\ \A c \in 1..Len(f.ids) : frame.components[c].id = f.ids[c]
       /\ stream.segments[k].kind = "DHT" => \A i \in DOMAIN stream.segments[k].tables :
            LastDefinition(stream.segments, next, k, i) =>
              LET entry == stream.segments[k].tables[i]
              IN huffman_dc[entry.slot] = entry.table

Ready ==
  /\ frame.precision = encoded.precision /\ <<Width, Height>> = ImageSize(encoded)
  /\ predictor = encoded.selection /\ point_transform = encoded.transform
  /\ bits = stream.scan
  /\ Len(frame.components) = Len(encoded.planes)
  /\ \A c \in 1..Len(encoded.planes) :
       /\ frame.components[c].dc_table \in 0..(Slots - 1)
       /\ huffman_dc[frame.components[c].dc_table] = encoded.tables[c]

(* The sample of position (x, y), in the order of the scan.                *)
ScanIndex(x, y) ==
  IF Len(encoded.planes) = 1 THEN y * encoded.width + x
  ELSE 4 * ((y \div 2) * encoded.width + (x \div 2)) + 2 * (y % 2) + (x % 2)

(* prev and col0_prev of component c after `count` samples of it.          *)
PrevInv(c, count) ==
  IF count = 0 THEN prev[c] = Half(encoded) /\ col0_prev[c] = Half(encoded)
  ELSE /\ prev[c] = encoded.planes[c + 1][(count - 1) % encoded.width][(count - 1) \div encoded.width]
       /\ col0_prev[c] = encoded.planes[c + 1][0][(count - 1) \div encoded.width]

Progress ==
  /\ used = encoded.ends[sample + 1]
  /\ \A x \in 0..(Width - 1), y \in 0..(Height - 1) :
       ScanIndex(x, y) < sample => output[y * Width + x] = SampleAt(encoded, x, y)
  /\ Len(encoded.planes) = 4 => \A c \in 0..3 : PrevInv(c, (sample + 3 - c) \div 4)

DecodeInv ==
  Conforming =>
    /\ pc \notin {"failed", "panicked"}
    /\ pc = "markers" => \E n \in 1..Len(stream.segments) : Announced(stream, n) /\ HeadersInv(n)
    /\ pc \in {"start", "scan"} => Ready
    /\ pc = "scan" => Progress
    /\ pc = "done" => output = encoded.image

(* The indices decode_scan computes are inside the image, for every width  *)
(* and height the caller sets: the place a sample goes to (so that its     *)
(* `x < out_width && y < out_height` never fails), and those that its      *)
(* prediction reads, of which Rust would make a panic.                     *)
IndicesInside ==
  pc = "scan" /\ sample < SamplesToDecode =>
    IF Len(frame.components) = 4 THEN Place \in DOMAIN output
    ELSE /\ sample \in DOMAIN output
         /\ sample % Width > 0 => sample - 1 \in DOMAIN output
         /\ sample \div Width > 0 => sample - Width \in DOMAIN output
         /\ sample % Width > 0 /\ sample \div Width > 0 =>
              sample - Width - 1 \in DOMAIN output
=============================================================================
