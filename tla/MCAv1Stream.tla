----------------------------- MODULE MCAv1Stream -----------------------------
(***************************************************************************)
(* Still pictures an encoder writes (module Av1Picture) and streams the    *)
(* parser has to refuse.  Each family of pictures turns on the syntax of   *)
(* one part of the headers with the combinations of its elements; what     *)
(* follows in the header moves with it through the byte.                   *)
(* Left out, where the parser departs from the AV1 syntax or guesses (the  *)
(* README's observations): monochrome pictures with CDEF, screen content   *)
(* tools with integer_mv left to the frame header, pictures wider than     *)
(* 4096 samples or larger than 4096 by 2304, and a decoder model without   *)
(* an equal picture interval.                                              *)
(***************************************************************************)
EXTENDS Av1Stream

Seq0 ==
  [profile |-> 0, still |-> 1, reduced |-> 1, timing |-> None, display_delay |-> FALSE,
   points |-> <<>>, size_bits |-> 9, width |-> 300, height |-> 200, ids |-> FALSE,
   sb128 |-> 0, filter_intra |-> 1, intra_edge |-> 0, interintra |-> 0, masked |-> 1,
   warped |-> 0, dual_filter |-> 1, order_hint |-> 0, jnt_comp |-> 0, screen_content |-> 2,
   integer_mv |-> 2, order_hint_bits |-> 3, superres |-> 0, cdef |-> 0, restoration |-> 0,
   high_bitdepth |-> 0, mono |-> 0, colour |-> None, full_range |-> 1, separate_uv |-> 0,
   grain |-> 0]

Point == [level |-> 4, model |-> 0, delay |-> 0]
FullSeq == [Seq0 EXCEPT !.reduced = 0, !.points = <<Point>>]

NoDeltas == [base |-> 100, y_dc |-> 0, u_dc |-> 0, u_ac |-> 0, v_dc |-> 0, v_ac |-> 0, qm |-> None]
Uniform(cols, rows) == [uniform |-> TRUE, cols |-> cols, rows |-> rows]
Sized(widths, heights) == [uniform |-> FALSE, widths |-> widths, heights |-> heights]

Pic0 ==
  [type |-> 0, show |-> 1, showable |-> 0, error_resilient |-> 1, disable_cdf_update |-> 0,
   screen_content |-> 0, override |-> FALSE, order_hint |-> 5, removal |-> None,
   refresh |-> 1, width |-> 300, height |-> 200, superres |-> None, render |-> FALSE,
   intrabc |-> 0, disable_end_update |-> 0, tiles |-> Uniform(0, 0), context_tile |-> 0,
   tile_bytes |-> 1, q |-> NoDeltas, features |-> None, delta_q |-> None, delta_lf |-> None,
   lf |-> [levels |-> <<20, 0, 7, 63>>, sharpness |-> 5, deltas |-> None],
   cdef |-> [damping |-> 4, strengths |-> <<<<9, 3, 6, 1>>>>],
   lr |-> [kinds |-> <<"wiener", "none", "none">>, size |-> 128, chroma_shift |-> 0],
   tx_select |-> 1, reduced_tx |-> 0, grain |-> None]

-----------------------------------------------------------------------------
(* OBUs.  The bytes of a tile are any; here they tell its number and come  *)
(* in sizes from one byte to more than a size field of one byte holds.     *)

Obu(type, payload) == [type |-> type, payload |-> payload]

Tile(n, sizes) == [i \in 1..sizes[(n % Len(sizes)) + 1] |-> (n + 7 * i) % 256]
CountOf(p, s) == Len(P!TileWidths(p, s)) * Len(P!TileHeights(p, s))
TilesOfPicture(p, s, sizes) == [n \in 1..CountOf(p, s) |-> Tile(n, sizes)]

SequenceObu(s) == Obu("sequence_header", P!Bytes(P!Aligned(P!SequenceHeader(s) \o <<1>>)))
HeaderBytes(p, s) == P!Bytes(P!Aligned(P!FrameHeader(p, s)))
HeaderObu(p, s) == Obu("frame_header", P!Bytes(P!Aligned(P!FrameHeader(p, s) \o <<1>>)))
GroupObu(own, first, last, p, s) == Obu("tile_group", P!TileGroup(own, first, last, p, s))
Group(own, p, s) == P!TileGroup(own, 0, Len(own) - 1, p, s)
FrameObu(own, p, s) == Obu("frame", HeaderBytes(p, s) \o Group(own, p, s))

Source(own, p, s) ==
  [meant |-> P!Meant(p, s), tiles |-> own,
   resilient |-> IF s.reduced = 1 THEN None ELSE P!Resilient(p, s)]
Stream(config, payload, source) ==
  [profile |-> 0, config |-> config, payload |-> payload, source |-> source]

Whole(own, p, s) ==
  Stream(<<SequenceObu(s)>>, <<FrameObu(own, p, s)>>, Source(own, p, s))
Still(p, s) == Whole(TilesOfPicture(p, s, <<3>>), p, s)
Refused(config, payload) == Stream(config, payload, None)

-----------------------------------------------------------------------------
(* Sequence headers.                                                       *)

Model(delay, removal) == [delay |-> delay, removal |-> removal]
Timings ==
  {None} \cup [interval : {0, 6}, model : {None, Model(3, 10), Model(30, 1)}]
    \cup {[interval |-> None, model |-> None]}

ThreePoints ==
  <<[level |-> 8, model |-> 1, delay |-> 1], [level |-> 7, model |-> 0, delay |-> 0],
    [level |-> 31, model |-> 1, delay |-> 1]>>

(* What an operating point lets be coded is not there without it.          *)
TimedStreams ==
  {Still([Pic0 EXCEPT !.removal = removal],
         [FullSeq EXCEPT !.timing = timing, !.points = points, !.display_delay = delay]) :
    timing \in Timings, points \in {<<Point>>, ThreePoints}, delay \in BOOLEAN,
    removal \in {None, 1}}

FullStreams ==
  {Still([Pic0 EXCEPT !.disable_cdf_update = cdf, !.disable_end_update = cdf],
         [FullSeq EXCEPT !.ids = ids, !.order_hint = hint, !.jnt_comp = hint,
                         !.screen_content = tools, !.integer_mv = mv]) :
    ids \in BOOLEAN, hint \in {0, 1}, tools \in {0, 2}, mv \in {0, 2}, cdf \in {0, 1}}

(* Forced screen content tools, and with them intra block copies.          *)
ScreenStreams ==
  {Still([Pic0 EXCEPT !.screen_content = 1, !.intrabc = copy, !.delta_q = 1,
                      !.delta_lf = <<1, 0>>],
         [FullSeq EXCEPT !.screen_content = 1, !.integer_mv = mv, !.cdef = 1,
                         !.restoration = 1]) :
    copy \in {0, 1}, mv \in {0, 1}}

ColourStreams ==
  {Still(Pic0, [Seq0 EXCEPT !.colour = colour, !.mono = mono, !.high_bitdepth = deep,
                            !.full_range = mono, !.still = 1 - deep]) :
    colour \in {None, <<1, 13, 6>>, <<1, 1, 0>>}, mono \in {0, 1}, deep \in {0, 1}}

(* Frames that are not shown, or are not key frames.                       *)
HiddenStreams ==
  {Still([Pic0 EXCEPT !.type = type, !.show = show, !.showable = showable,
                      !.error_resilient = resilient, !.removal = removal],
         [FullSeq EXCEPT !.order_hint = 1,
                         !.timing = [interval |-> interval, model |-> Model(5, 7)],
                         !.points = ThreePoints]) :
    type \in {0, 2}, show \in {0}, showable \in {0, 1}, resilient \in {0, 1},
    removal \in {None, 1}, interval \in {None, 3}}
  \cup
  {Still([Pic0 EXCEPT !.type = 2, !.error_resilient = resilient],
         [FullSeq EXCEPT !.order_hint = hint]) : resilient \in {0, 1}, hint \in {0, 1}}

-----------------------------------------------------------------------------
(* Sizes and tiles: 5 by 4 superblocks of 64, or 3 by 2 of 128.            *)

TiledStreams ==
  {Whole(TilesOfPicture(p, s, sizes), p, s) :
    p \in {[Pic0 EXCEPT !.tiles = layout, !.context_tile = 1, !.tile_bytes = 2] :
             layout \in {Uniform(1, 0), Uniform(0, 2), Uniform(2, 1), Uniform(3, 2),
                        Sized(<<2, 1, 2>>, <<1, 3>>), Sized(<<1, 4>>, <<4>>),
                        Sized(<<5>>, <<1, 1, 1, 1>>)}},
    s \in {Seq0}, sizes \in {<<1, 259, 2>>, <<256, 257>>}}
  \cup
  {Still([Pic0 EXCEPT !.tiles = layout], [Seq0 EXCEPT !.sb128 = 1]) :
    layout \in {Uniform(0, 0), Uniform(1, 1), Uniform(2, 0), Sized(<<1, 2>>, <<1, 1>>)}}

ResizedStreams ==
  {Still([Pic0 EXCEPT !.override = override, !.width = IF override THEN 131 ELSE 300,
                      !.height = IF override THEN 65 ELSE 200, !.superres = superres,
                      !.render = render, !.tiles = Uniform(1, 0)],
         [FullSeq EXCEPT !.superres = 1]) :
    override \in BOOLEAN, superres \in {None, 0, 7}, render \in BOOLEAN}

-----------------------------------------------------------------------------
(* Quantizers, segments and filters.                                       *)

Segments(put) == [i \in 1..64 |-> IF i \in DOMAIN put THEN put[i] ELSE None]

QuantizerStreams ==
  {Still([Pic0 EXCEPT !.q = q, !.delta_q = d, !.delta_lf = lf],
         [Seq0 EXCEPT !.separate_uv = uv]) :
    q \in {[NoDeltas EXCEPT !.y_dc = -64, !.u_dc = 63, !.v_dc = 63, !.qm = qm] :
             qm \in {None, <<3, 15, 15>>}},
    d \in {None, 2}, lf \in {None, <<3, 1>>}, uv \in {0, 1}}
  \cup
  {Still([Pic0 EXCEPT !.q = q], [Seq0 EXCEPT !.separate_uv = 1]) :
    q \in {[NoDeltas EXCEPT !.u_ac = 1, !.v_ac = -1, !.qm = <<0, 7, 8>>]}}

Filters == [Seq0 EXCEPT !.cdef = 1, !.restoration = 1, !.superres = 1]

(* Whether anything is lost, segment by segment: with it come or go the    *)
(* filters, and with superres only some of them.                           *)
LosslessStreams ==
  {Still([Pic0 EXCEPT !.q = [NoDeltas EXCEPT !.base = base, !.y_dc = dc],
                      !.features = features, !.superres = superres, !.delta_q = 0], Filters) :
    base \in {0, 5}, dc \in {0, 3}, superres \in {None, 4},
    features \in {None, Segments(<<>>), Segments(1 :> -5 @@ 9 :> -255),
                  Segments([i \in {8 * k + 1 : k \in 0..7} |-> -5]),
                  Segments(57 :> 1 @@ 5 :> -63 @@ 62 :> 7 @@ 63 :> 0 @@ 64 :> 0)}}

LoopFilters ==
  {[levels |-> levels, sharpness |-> 3, deltas |-> deltas] :
    levels \in {<<0, 0, 9, 9>>, <<0, 1, 2, 3>>, <<63, 62, 0, 61>>},
    deltas \in {None, [update |-> None],
                [update |-> <<-63, None, 5, None, None, 0, None, 1, None, 63>>]}}
Strengths(n) == [i \in 1..n |-> <<i, i % 4, 15 - i, (i + 1) % 4>>]
Kinds == {"none", "wiener", "sgrproj", "switchable"}

FilterStreams ==
  {Still([Pic0 EXCEPT !.lf = lf, !.tx_select = 0, !.reduced_tx = 1], [Filters EXCEPT !.mono = mono, !.cdef = 1 - mono]) :
    lf \in LoopFilters, mono \in {0, 1}}
  \cup
  {Still([Pic0 EXCEPT !.cdef = [damping |-> d, strengths |-> Strengths(n)]], Filters) :
    d \in {3, 6}, n \in {1, 2, 4, 8}}
  \cup
  {Still([Pic0 EXCEPT !.lr = [kinds |-> <<y, u, v>>, size |-> size, chroma_shift |-> 1]],
         [Filters EXCEPT !.sb128 = big]) :
    y \in {"none", "sgrproj"}, u \in Kinds, v \in {"none", "switchable"}, size \in {128, 256},
    big \in {0, 1}}
  \cup
  {Still([Pic0 EXCEPT !.lr = [kinds |-> <<y, "wiener", "wiener">>, size |-> 64,
                              chroma_shift |-> 0]],
         [Filters EXCEPT !.mono = mono, !.cdef = 0]) :
    y \in Kinds, mono \in {0, 1}}

-----------------------------------------------------------------------------
(* Film grain.                                                             *)

Ramp(n) == [i \in 1..n |-> <<9 * i, 255 - i>>]
Taps(n) == [i \in 1..n |-> i - 13]
Luma(lag) == 2 * lag * (lag + 1)

(* A chroma plane without points of its own may scale from luma.           *)
Grain(y, from_luma, cb, cr, lag) ==
  LET chroma == Luma(lag) + (IF y > 0 THEN 1 ELSE 0) IN
  [seed |-> 40503, y |-> Ramp(y), from_luma |-> from_luma, cb |-> Ramp(cb), cr |-> Ramp(cr),
   scaling |-> 8 + lag, lag |-> lag, ar_y |-> IF y > 0 THEN Taps(Luma(lag)) ELSE <<>>,
   ar_cb |-> IF from_luma = 1 \/ cb > 0 THEN Taps(chroma) ELSE <<>>,
   ar_cr |-> IF from_luma = 1 \/ cr > 0 THEN Taps(chroma) ELSE <<>>,
   shifts |-> <<9 - lag, lag>>, cb_mult |-> IF cb > 0 THEN <<128, 192, 256>> ELSE <<0, 0, 0>>,
   cr_mult |-> IF cr > 0 THEN <<1, 2, 511>> ELSE <<0, 0, 0>>, overlap |-> 1, clip |-> 0]

Grained(g, mono) ==
  Still([Pic0 EXCEPT !.grain = g], [Seq0 EXCEPT !.grain = 1, !.mono = mono])

GrainStreams ==
  {Grained(Grain(y, 0, cb, cr, lag), 0) :
    y \in {2, 14}, cb \in {0, 10}, cr \in {0, 1}, lag \in {0, 3}}
  \cup {Grained(Grain(y, 1, 0, 0, 2), 0) : y \in {0, 1}}
  \cup {Grained(Grain(y, 0, 0, 0, 1), 1) : y \in {0, 3}}
  \cup {Grained(None, 0)}
  \cup {Still([Pic0 EXCEPT !.show = 0, !.showable = showable, !.grain = Grain(1, 0, 1, 0, 1)],
              [FullSeq EXCEPT !.grain = 1]) : showable \in {0, 1}}

-----------------------------------------------------------------------------
(* The OBUs of one picture of six tiles.                                   *)

Six == [Pic0 EXCEPT !.tiles = Sized(<<2, 1, 2>>, <<1, 3>>), !.context_tile = 5]
SixTiles == TilesOfPicture(Six, Seq0, <<2, 1, 4>>)
Part(first, last) == GroupObu(SixTiles, first, last, Six, Seq0)
SixSource == Source(SixTiles, Six, Seq0)
SixHeader == HeaderObu(Six, Seq0)
Other == Obu("other", <<>>)

(* The same headers with another picture's size.                           *)
SmallSeq == [Seq0 EXCEPT !.width = 64]

Groups ==
  {<<Part(0, 5)>>, <<Part(0, 0), Part(1, 5)>>, <<Part(0, 4), Part(5, 5)>>,
   <<Part(0, 1), Part(2, 3), Part(4, 5)>>, [i \in 1..6 |-> Part(i - 1, i - 1)]}

ArrangedStreams ==
  {Stream(config, <<Other>> \o again \o <<SixHeader>> \o groups \o tail, SixSource) :
    config \in {<<SequenceObu(Seq0)>>, <<SequenceObu(SmallSeq), SequenceObu(Seq0), Other>>},
    again \in {<<>>, <<SequenceObu(Seq0)>>}, groups \in Groups,
    tail \in {<<>>, <<Other, SixHeader, Part(0, 1)>>}}
  \cup
  {Stream(<<>>, <<SequenceObu(Seq0), FrameObu(SixTiles, Six, Seq0)>> \o tail, SixSource) :
    tail \in {<<Part(3, 5)>>, <<SequenceObu(SmallSeq), SixHeader>>,
              <<FrameObu(SixTiles, Pic0, Seq0), Obu("tile_list", <<>>)>>}}

-----------------------------------------------------------------------------
(* Refused.                                                                *)

Opening == <<SequenceObu(Seq0)>>
Frame(p, s) == FrameObu(TilesOfPicture(p, s, <<3>>), p, s)
CutOff(obu, n) == [obu EXCEPT !.payload = SubSeq(obu.payload, 1, n)]
Busy == [Pic0 EXCEPT !.grain = Grain(2, 0, 1, 1, 1)]
BusySeq == [Seq0 EXCEPT !.grain = 1]

RefusedStreams ==
  {Refused(Opening, <<SixHeader>> \o groups) :
    groups \in {<<>>, <<Part(0, 4)>>, <<Part(1, 5)>>, <<Part(0, 1), Part(4, 5)>>,
                <<Part(0, 3), Obu("tile_list", <<>>), Part(4, 5)>>,
                <<CutOff(Part(0, 5), 10)>>, <<CutOff(Part(0, 5), 1)>>}}
  \cup {Refused(config, payload) :
          config \in {<<>>, <<SequenceObu([Seq0 EXCEPT !.profile = 1])>>},
          payload \in {<<Frame(Pic0, Seq0)>>, <<SixHeader, Part(0, 5)>>,
                       <<SixHeader, Part(0, 5), SequenceObu(Seq0)>>}}
  \cup {Refused(Opening, <<>>), Refused(Opening, <<Part(0, 5), SixHeader>>),
        Refused(Opening, <<Other, Obu("tile_list", <<0>>), Frame(Pic0, Seq0)>>),
        Refused(<<SequenceObu([Seq0 EXCEPT !.colour = <<1, 13, 0>>])>>, <<Frame(Pic0, Seq0)>>),
        [Still(Pic0, Seq0) EXCEPT !.profile = 1, !.source = None]}
  \cup {Refused(<<SequenceObu(FullSeq)>>, <<Obu("frame", <<128 + 32 * type>>)>>) :
          type \in {0, 1}}
  \cup {Refused(<<SequenceObu(FullSeq)>>, <<Frame([Pic0 EXCEPT !.type = type], FullSeq)>>) :
          type \in {1, 3}}
  \cup {Refused(<<SequenceObu([FullSeq EXCEPT !.timing = [interval |-> None, model |-> Model(3, 10)]])>>,
                <<Frame(Pic0, FullSeq)>>)}
  \cup {Refused(<<SequenceObu(BusySeq)>>,
                <<Frame([Busy EXCEPT !.grain = Grain(y, 0, cb, cr, 1)], BusySeq)>>) :
          y \in {15}, cb \in {1}, cr \in {1}}
  \cup {Refused(<<SequenceObu(BusySeq)>>,
                <<Frame([Busy EXCEPT !.grain = Grain(2, 0, cb, 11, 1)], BusySeq)>>) :
          cb \in {0, 11}}
  \cup {Refused(<<SequenceObu(BusySeq)>>, <<CutOff(Frame(Busy, BusySeq), n)>>) :
          n \in {k : k \in 0..Len(HeaderBytes(Busy, BusySeq))}}
  \cup {Refused(<<CutOff(SequenceObu(Seq0), n)>>, <<Frame(Pic0, Seq0)>>) : n \in 0..6}

Checked ==
  TimedStreams \cup FullStreams \cup ScreenStreams \cup ColourStreams \cup HiddenStreams
    \cup TiledStreams \cup ResizedStreams \cup QuantizerStreams \cup LosslessStreams
    \cup FilterStreams \cup GrainStreams \cup ArrangedStreams \cup RefusedStreams

=============================================================================
