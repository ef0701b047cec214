----------------------------- MODULE Av1Picture ------------------------------
(***************************************************************************)
(* What an encoder writes for a still picture (the AV1 specification, 5.5  *)
(* sequence header, 5.9 frame header, 5.11 tile groups) and what the       *)
(* driver has to be told of it: the reference the parser in Av1Headers is  *)
(* checked against.  Nothing here comes from the parser.                   *)
(*                                                                         *)
(* A sequence is a record s, a picture a record p, of the values of their  *)
(* syntax elements.  Values that are not coded are those that the          *)
(* specification infers: Meant(p, s) puts them in.                         *)
(***************************************************************************)
EXTENDS Integers, Sequences, SequencesExt

CONSTANT None

-----------------------------------------------------------------------------
(* 4.10                                                                    *)

Ones(n) == [k \in 1..n |-> 1]
f(n, v) == [k \in 1..n |-> (v \div 2^(n - k)) % 2]
su(n, v) == f(n, IF v < 0 THEN v + 2^n ELSE v)
Log2(x) == CHOOSE n \in 0..30 : 2^n <= x /\ x \div 2^n < 2
uvlc(v) == f(Log2(v + 1), 0) \o f(Log2(v + 1) + 1, v + 1)

ns(n, v) ==
  LET w == Log2(n) + 1
      m == 2^w - n
  IN IF v < m THEN f(w - 1, v) ELSE f(w, v + m)

le(n, v) == [i \in 1..n |-> (v \div 256^(i - 1)) % 256]

Coded(there, bits) == IF there THEN bits ELSE <<>>
Flagged(v, bits) == IF v = None THEN <<0>> ELSE <<1>> \o bits

Aligned(bits) == bits \o [k \in 1..((-Len(bits)) % 8) |-> 0]
Bytes(bits) ==
  [i \in 1..(Len(bits) \div 8) |->
     LET value[k \in 0..8] == IF k = 0 THEN 0 ELSE 2 * value[k - 1] + bits[8 * (i - 1) + k]
     IN value[8]]

-----------------------------------------------------------------------------
(* 5.5.  s.timing is None or [interval: None or a number of ticks, model:  *)
(* None or [delay, removal]], lengths of its delays; s.points a sequence   *)
(* of [level, model, delay].                                               *)

HasModel(s) == s.timing # None /\ s.timing.model # None

TimingInfo(s) ==
  Ones(64)
    \o (IF s.timing.interval = None THEN <<0>> ELSE <<1>> \o uvlc(s.timing.interval))
    \o Flagged(s.timing.model,
               f(5, s.timing.model.delay - 1) \o Ones(32)
                 \o f(5, s.timing.model.removal - 1) \o f(5, 9))

OperatingPoint(o, s) ==
  f(12, 0) \o f(5, o.level) \o Coded(o.level > 7, <<1>>)
    \o Coded(HasModel(s),
             <<o.model>> \o Coded(o.model = 1, f(s.timing.model.delay, 1)
                                                 \o f(s.timing.model.delay, 1) \o <<1>>))
    \o Coded(s.display_delay, <<o.delay>> \o Coded(o.delay = 1, f(4, 9)))

Choice(v) == IF v = 2 THEN <<1>> ELSE <<0, v>>

FullTools(s) ==
  <<s.interintra, s.masked, s.warped, s.dual_filter, s.order_hint>>
    \o Coded(s.order_hint = 1, <<s.jnt_comp, 1>>)
    \o Choice(s.screen_content) \o Coded(s.screen_content > 0, Choice(s.integer_mv))
    \o Coded(s.order_hint = 1, f(3, s.order_hint_bits - 1))

ColorConfig(s) ==
  <<s.high_bitdepth, s.mono>>
    \o Flagged(s.colour, f(8, s.colour[1]) \o f(8, s.colour[2]) \o f(8, s.colour[3]))
    \o <<s.full_range>> \o Coded(s.mono = 0, f(2, 1) \o <<s.separate_uv>>)

SequenceHeader(s) ==
  f(3, s.profile) \o <<s.still, s.reduced>>
    \o (IF s.reduced = 1 THEN f(5, 4)
        ELSE (IF s.timing = None THEN <<0>> ELSE <<1>> \o TimingInfo(s))
             \o <<IF s.display_delay THEN 1 ELSE 0>> \o f(5, Len(s.points) - 1)
             \o FlattenSeq([i \in DOMAIN s.points |-> OperatingPoint(s.points[i], s)]))
    \o f(4, s.size_bits - 1) \o f(4, s.size_bits) \o f(s.size_bits, s.width - 1)
    \o f(s.size_bits + 1, s.height - 1)
    \o Coded(s.reduced = 0,
             IF s.ids THEN <<1>> \o f(4, 3) \o f(3, 2) ELSE <<0>>)
    \o <<s.sb128, s.filter_intra, s.intra_edge>>
    \o Coded(s.reduced = 0, FullTools(s))
    \o <<s.superres, s.cdef, s.restoration>> \o ColorConfig(s) \o <<s.grain>> \o <<1>>

Planes(s) == IF s.mono = 1 THEN 1 ELSE 3

-----------------------------------------------------------------------------
(* 5.9.15, in superblocks; a tile is at most MAX_TILE_WIDTH samples    *)
(* wide and MAX_TILE_AREA large.                                           *)

TileLog2(size, target) ==
  CHOOSE k \in 0..20 : size * 2^k >= target /\ \A j \in 0..(k - 1) : size * 2^j < target

Denominator(p) == IF p.superres = None THEN 8 ELSE 9 + p.superres
CodedWidth(p) == (8 * p.width + Denominator(p) \div 2) \div Denominator(p)

SbSize(s) == IF s.sb128 = 1 THEN 128 ELSE 64
InSbs(samples, s) == (samples + SbSize(s) - 1) \div SbSize(s)
Larger(x, y) == IF x > y THEN x ELSE y
Smaller(x, y) == IF x < y THEN x ELSE y

WidestTile(s) == 4096 \div SbSize(s)
MinLog2Cols(w, s) == TileLog2(WidestTile(s), w)
MinLog2Tiles(w, h, s) ==
  Larger(MinLog2Cols(w, s), TileLog2((4096 * 2304) \div (SbSize(s) * SbSize(s)), w * h))
MinLog2Rows(w, h, cols, s) == Larger(0, MinLog2Tiles(w, h, s) - cols)

UpTo(least, chosen, most) ==
  [i \in 1..(chosen - least) |-> 1] \o Coded(chosen < most, <<0>>)

(* p.tiles is [uniform |-> TRUE, cols, rows], logarithms counted from the  *)
(* least allowed, or [uniform |-> FALSE, widths, heights].                 *)
ColsLog2(p, s) ==
  IF p.tiles.uniform THEN p.tiles.cols + MinLog2Cols(InSbs(CodedWidth(p), s), s)
  ELSE TileLog2(1, Len(p.tiles.widths))
RowsLog2(p, s) ==
  IF p.tiles.uniform
  THEN p.tiles.rows
       + MinLog2Rows(InSbs(CodedWidth(p), s), InSbs(p.height, s), ColsLog2(p, s), s)
  ELSE TileLog2(1, Len(p.tiles.heights))

(* The sizes of the tiles of `total` superblocks.                          *)
Shares(total, log2) ==
  LET size == (total + 2^log2 - 1) \div 2^log2
      count == (total + size - 1) \div size
  IN [i \in 1..count |-> IF i < count THEN size ELSE total - (count - 1) * size]

TileWidths(p, s) ==
  IF p.tiles.uniform THEN Shares(InSbs(CodedWidth(p), s), ColsLog2(p, s)) ELSE p.tiles.widths
TileHeights(p, s) ==
  IF p.tiles.uniform THEN Shares(InSbs(p.height, s), RowsLog2(p, s)) ELSE p.tiles.heights

Explicit(sizes, most) ==
  LET start[i \in 1..Len(sizes)] == IF i = 1 THEN 0 ELSE start[i - 1] + sizes[i - 1]
      total == start[Len(sizes)] + sizes[Len(sizes)]
  IN FlattenSeq([i \in DOMAIN sizes |-> ns(Smaller(total - start[i], most), sizes[i] - 1)])

TallestTile(p, s) ==
  LET w == InSbs(CodedWidth(p), s)
      h == InSbs(p.height, s)
      widest == CHOOSE x \in {p.tiles.widths[i] : i \in DOMAIN p.tiles.widths} :
                  \A i \in DOMAIN p.tiles.widths : p.tiles.widths[i] <= x
      area == IF MinLog2Tiles(w, h, s) > 0 THEN (w * h) \div 2^(MinLog2Tiles(w, h, s) + 1)
              ELSE w * h
  IN Larger(1, area \div widest)

TileInfo(p, s) ==
  LET w == InSbs(CodedWidth(p), s)
      h == InSbs(p.height, s)
      cols == ColsLog2(p, s)
      rows == RowsLog2(p, s)
  IN (IF p.tiles.uniform
      THEN <<1>> \o UpTo(MinLog2Cols(w, s), cols, TileLog2(1, Smaller(w, 64)))
           \o UpTo(MinLog2Rows(w, h, cols, s), rows, TileLog2(1, Smaller(h, 64)))
      ELSE <<0>> \o Explicit(p.tiles.widths, WidestTile(s))
           \o Explicit(p.tiles.heights, TallestTile(p, s)))
     \o Coded(cols + rows > 0, f(cols + rows, p.context_tile) \o f(2, p.tile_bytes - 1))

-----------------------------------------------------------------------------
(* 5.9.11 to 5.9.20.  p.q is [base, y_dc, u_dc, u_ac, v_dc, v_ac, qm],     *)
(* p.features None or 64 values of which some are None.                    *)

DeltaQ(v) == IF v = 0 THEN <<0>> ELSE <<1>> \o su(7, v)

Quantization(q, s) ==
  LET differ == q.v_dc # q.u_dc \/ q.v_ac # q.u_ac IN
  f(8, q.base) \o DeltaQ(q.y_dc)
    \o Coded(s.mono = 0,
             Coded(s.separate_uv = 1, <<IF differ THEN 1 ELSE 0>>)
               \o DeltaQ(q.u_dc) \o DeltaQ(q.u_ac)
               \o Coded(differ, DeltaQ(q.v_dc) \o DeltaQ(q.v_ac)))
    \o Flagged(q.qm, f(4, q.qm[1]) \o f(4, q.qm[2])
                       \o Coded(s.mono = 0 /\ s.separate_uv = 1, f(4, q.qm[3])))

FeatureWidth == <<9, 7, 7, 7, 7, 3, 0, 0>>
Feature(k, v) == IF k <= 5 THEN su(FeatureWidth[k], v) ELSE f(FeatureWidth[k], v)

Segmentation(features) ==
  Flagged(features,
          FlattenSeq([segment \in 1..8 |-> FlattenSeq([k \in 1..8 |->
            LET v == features[8 * (segment - 1) + k] IN Flagged(v, Feature(k, v))])]))

QIndexOf(p, segment) ==
  IF p.features = None \/ p.features[8 * segment + 1] = None THEN p.q.base
  ELSE Larger(0, Smaller(255, p.q.base + p.features[8 * segment + 1]))

Lossless(p) ==
  /\ \A segment \in 0..7 : QIndexOf(p, segment) = 0
  /\ p.q.y_dc = 0 /\ p.q.u_dc = 0 /\ p.q.u_ac = 0 /\ p.q.v_dc = 0 /\ p.q.v_ac = 0

Unfiltered(p) == Lossless(p) \/ p.intrabc = 1
Unrestored(p, s) ==
  (Lossless(p) /\ p.superres = None) \/ p.intrabc = 1 \/ s.restoration = 0

Deltas(p) ==
  Coded(p.q.base > 0,
        Flagged(p.delta_q, f(2, p.delta_q)))
    \o Coded(p.q.base > 0 /\ p.delta_q # None /\ p.intrabc = 0,
             Flagged(p.delta_lf, f(2, p.delta_lf[1]) \o <<p.delta_lf[2]>>))

(* lf is [levels, sharpness, deltas: None or [update: None or 10 values,   *)
(* some None]].                                                            *)
LoopFilter(lf, s) ==
  f(6, lf.levels[1]) \o f(6, lf.levels[2])
    \o Coded(s.mono = 0 /\ (lf.levels[1] > 0 \/ lf.levels[2] > 0),
             f(6, lf.levels[3]) \o f(6, lf.levels[4]))
    \o f(3, lf.sharpness)
    \o Flagged(lf.deltas,
               Flagged(lf.deltas.update,
                       FlattenSeq([i \in 1..10 |->
                         Flagged(lf.deltas.update[i], su(7, lf.deltas.update[i]))])))

(* cdef is [damping, strengths], 1, 2, 4 or 8 of them.                     *)
Cdef(cdef, s) ==
  f(2, cdef.damping - 3) \o f(2, TileLog2(1, Len(cdef.strengths)))
    \o FlattenSeq([i \in DOMAIN cdef.strengths |->
         f(4, cdef.strengths[i][1]) \o f(2, cdef.strengths[i][2])
           \o Coded(s.mono = 0, f(4, cdef.strengths[i][3]) \o f(2, cdef.strengths[i][4]))])

(* lr is [kinds: of each plane "none", "wiener", "sgrproj" or "switchable",*)
(* size: 64, 128 or 256, chroma_shift].                                    *)
KindCode == [none |-> 0, switchable |-> 1, wiener |-> 2, sgrproj |-> 3]
RestoredPlanes(lr, s) == {i \in 1..Planes(s) : lr.kinds[i] # "none"}

Restoration(lr, s) ==
  FlattenSeq([i \in 1..Planes(s) |-> f(2, KindCode[lr.kinds[i]])])
    \o Coded(RestoredPlanes(lr, s) # {},
             IF s.sb128 = 1 THEN <<IF lr.size = 256 THEN 1 ELSE 0>>
             ELSE CASE lr.size = 64 -> <<0>> [] lr.size = 128 -> <<1, 0>>
                    [] lr.size = 256 -> <<1, 1>>)
    \o Coded(s.mono = 0 /\ RestoredPlanes(lr, s) \cap {2, 3} # {}, <<lr.chroma_shift>>)

-----------------------------------------------------------------------------
(* 5.9.30.  g is [seed, y, from_luma, cb, cr, scaling, lag, ar_y, ar_cb,   *)
(* ar_cr, shifts, cb_mult, cr_mult, overlap, clip].                        *)

Points(points) ==
  f(4, Len(points))
    \o FlattenSeq([i \in DOMAIN points |-> f(8, points[i][1]) \o f(8, points[i][2])])

Coefficients(values) == FlattenSeq([i \in DOMAIN values |-> f(8, values[i] + 128)])
Mult(m) == f(8, m[1]) \o f(8, m[2]) \o f(9, m[3])

ChromaPoints(g, s) == s.mono = 0 /\ g.from_luma = 0 /\ g.y # <<>>

FilmGrain(g, s) ==
  f(16, g.seed) \o Points(g.y) \o Coded(s.mono = 0, <<g.from_luma>>)
    \o Coded(ChromaPoints(g, s), Points(g.cb) \o Points(g.cr))
    \o f(2, g.scaling - 8) \o f(2, g.lag)
    \o Coded(g.y # <<>>, Coefficients(g.ar_y))
    \o Coded(g.from_luma = 1 \/ g.cb # <<>>, Coefficients(g.ar_cb))
    \o Coded(g.from_luma = 1 \/ g.cr # <<>>, Coefficients(g.ar_cr))
    \o f(2, g.shifts[1] - 6) \o f(2, g.shifts[2])
    \o Coded(g.cb # <<>>, Mult(g.cb_mult)) \o Coded(g.cr # <<>>, Mult(g.cr_mult))
    \o <<g.overlap, g.clip>>

-----------------------------------------------------------------------------
(* 5.9.2, of a key or intra-only frame.  Values that no one needs, here    *)
(* and above, are ones.                                                    *)

Shown(p, s) == s.reduced = 1 \/ p.show = 1
ShownKeyFrame(p, s) == Shown(p, s) /\ p.type = 0

FullStart(p, s) ==
  <<0>> \o f(2, p.type) \o <<p.show>> \o Coded(p.show = 0, <<p.showable>>)
    \o Coded(~ShownKeyFrame(p, s), <<p.error_resilient>>)

FrameHeader(p, s) ==
  Coded(s.reduced = 0, FullStart(p, s))
    \o <<p.disable_cdf_update>>
    \o Coded(s.reduced = 1 \/ s.screen_content = 2, <<p.screen_content>>)
    \o Coded(p.screen_content = 1 /\ (s.reduced = 1 \/ s.integer_mv = 2), <<1>>)
    \o Coded(s.reduced = 0, Coded(s.ids, Ones(8)) \o <<IF p.override THEN 1 ELSE 0>>)
    \o Coded(s.reduced = 0 /\ s.order_hint = 1, f(s.order_hint_bits, p.order_hint))
    \o Coded(s.reduced = 0 /\ HasModel(s),
             Flagged(p.removal,
                     FlattenSeq([i \in DOMAIN s.points |->
                       Coded(s.points[i].model = 1, Ones(s.timing.model.removal))])))
    \o Coded(~ShownKeyFrame(p, s), f(8, p.refresh))
    \o Coded(~ShownKeyFrame(p, s) /\ p.refresh # 255 /\ p.error_resilient = 1
               /\ s.order_hint = 1, Ones(8 * s.order_hint_bits))
    \o Coded(s.reduced = 0 /\ p.override,
             f(s.size_bits, p.width - 1) \o f(s.size_bits + 1, p.height - 1))
    \o Coded(s.superres = 1, Flagged(p.superres, f(3, p.superres)))
    \o (IF p.render THEN Ones(33) ELSE <<0>>)
    \o Coded(p.screen_content = 1 /\ p.superres = None, <<p.intrabc>>)
    \o Coded(s.reduced = 0 /\ p.disable_cdf_update = 0, <<p.disable_end_update>>)
    \o TileInfo(p, s) \o Quantization(p.q, s) \o Segmentation(p.features) \o Deltas(p)
    \o Coded(~Unfiltered(p), LoopFilter(p.lf, s))
    \o Coded(~Unfiltered(p) /\ s.cdef = 1, Cdef(p.cdef, s))
    \o Coded(~Unrestored(p, s), Restoration(p.lr, s))
    \o Coded(~Lossless(p), <<p.tx_select>>) \o <<p.reduced_tx>>
    \o Coded(s.grain = 1 /\ (Shown(p, s) \/ p.showable = 1),
             Flagged(p.grain, FilmGrain(p.grain, s)))

-----------------------------------------------------------------------------
(* 5.11.1: the tiles from first to last, counted from 0 in raster order.   *)

TileGroup(tiles, first, last, p, s) ==
  LET bits == ColsLog2(p, s) + RowsLog2(p, s)
      whole == first = 0 /\ last = Len(tiles) - 1
  IN Bytes(Aligned(Coded(Len(tiles) > 1,
                         IF whole THEN <<0>> ELSE <<1>> \o f(bits, first) \o f(bits, last))))
     \o FlattenSeq([i \in 1..(last - first) |->
          le(p.tile_bytes, Len(tiles[first + i]) - 1) \o tiles[first + i]])
     \o tiles[last + 1]

-----------------------------------------------------------------------------
(* What a decoder has to know of the picture, with the values that are     *)
(* inferred where they are not coded.                                      *)

IfCoded(there, v, inferred) == IF there THEN v ELSE inferred

UnitDeltas == <<1, 0, 0, 0, -1, 0, -1, -1, 0, 0>>
DeltasOf(lf) ==
  IF lf.deltas = None \/ lf.deltas.update = None THEN UnitDeltas
  ELSE [i \in 1..10 |-> IF lf.deltas.update[i] = None THEN UnitDeltas[i]
                        ELSE lf.deltas.update[i]]

MeantFilter(p, s) ==
  LET lf == p.lf
      chroma == s.mono = 0 /\ (lf.levels[1] > 0 \/ lf.levels[2] > 0)
  IN IF Unfiltered(p)
     THEN [levels |-> <<0, 0, 0, 0>>, sharpness |-> 0, adjusted |-> 0, deltas |-> UnitDeltas]
     ELSE [levels |-> IF chroma THEN lf.levels ELSE <<lf.levels[1], lf.levels[2], 0, 0>>,
           sharpness |-> lf.sharpness, adjusted |-> IF lf.deltas = None THEN 0 ELSE 1,
           deltas |-> DeltasOf(lf)]

MeantCdef(p, s) ==
  IF Unfiltered(p) \/ s.cdef = 0 THEN [damping |-> 3, strengths |-> <<<<0, 0, 0, 0>>>>]
  ELSE p.cdef

NoGrain == [apply |-> 0]
MeantGrain(p, s) ==
  IF p.grain = None \/ s.grain = 0 \/ ~(Shown(p, s) \/ p.showable = 1) THEN NoGrain
  ELSE [apply |-> 1] @@ p.grain

MeantRestoration(p, s) ==
  LET none == [i \in 1..3 |-> "none"]
      used == RestoredPlanes(p.lr, s)
  IN IF Unrestored(p, s) \/ used = {} THEN [kinds |-> none, size |-> 64, chroma_shift |-> 0]
     ELSE [kinds |-> [i \in 1..3 |-> IF i \in used THEN p.lr.kinds[i] ELSE "none"],
           size |-> p.lr.size,
           chroma_shift |-> IfCoded(used \cap {2, 3} # {}, p.lr.chroma_shift, 0)]

MeantDeltas(p) ==
  LET q == IfCoded(p.q.base > 0, p.delta_q, None)
  IN [q |-> q, lf |-> IfCoded(q # None /\ p.intrabc = 0, p.delta_lf, None)]

(* A frame that is shown can be shown again unless it is a key frame.      *)
Showable(p, s) ==
  CASE s.reduced = 1 -> 0
    [] s.reduced = 0 /\ p.show = 1 -> IF p.type = 0 THEN 0 ELSE 1
    [] OTHER -> p.showable

(* A key frame that is shown resets what a lost frame could have spoiled.  *)
Resilient(p, s) == IF ShownKeyFrame(p, s) THEN 1 ELSE p.error_resilient

Meant(p, s) ==
  [size |-> <<p.width, p.height, Denominator(p)>>,
   sample |-> <<IF s.high_bitdepth = 1 THEN 10 ELSE 8, s.mono, s.full_range,
                IfCoded(s.colour # None, s.colour[3], 2)>>,
   tools |-> <<s.sb128, s.filter_intra, s.intra_edge, s.cdef, s.grain>>,
   inter |-> IfCoded(s.reduced = 0,
                     <<s.interintra, s.masked, s.dual_filter, s.order_hint,
                       IfCoded(s.order_hint = 1, s.jnt_comp, 0)>>, <<0, 0, 0, 0, 0>>),
   still |-> s.still,
   frame |-> <<IfCoded(s.reduced = 0, p.type, 0), IF Shown(p, s) THEN 1 ELSE 0,
               Showable(p, s)>>,
   order_hint |-> IfCoded(s.reduced = 0 /\ s.order_hint = 1, p.order_hint, 0),
   superres |-> IF p.superres # None THEN 1 ELSE 0,
   uniform |-> IF p.tiles.uniform THEN 1 ELSE 0,
   cdf |-> <<p.disable_cdf_update,
             IfCoded(s.reduced = 0 /\ p.disable_cdf_update = 0, p.disable_end_update, 1)>>,
   screen |-> <<p.screen_content, p.intrabc>>,
   columns |-> Front(TileWidths(p, s)), rows |-> Front(TileHeights(p, s)),
   tiles |-> <<Len(TileWidths(p, s)), Len(TileHeights(p, s)),
               IfCoded(ColsLog2(p, s) + RowsLog2(p, s) > 0, p.context_tile, 0)>>,
   quantizer |-> p.q,
   features |-> IfCoded(p.features # None, p.features, [i \in 1..64 |-> None]),
   deltas |-> MeantDeltas(p),
   transform |-> <<IF Lossless(p) THEN "4x4" ELSE IF p.tx_select = 1 THEN "select" ELSE "largest",
                   p.reduced_tx>>,
   filter |-> MeantFilter(p, s), cdef |-> MeantCdef(p, s),
   restoration |-> MeantRestoration(p, s), grain |-> MeantGrain(p, s)]

=============================================================================
