---------------------------- MODULE MCHevcStream ----------------------------
(***************************************************************************)
(* Streams a conforming encoder writes (module H265Syntax) and streams the *)
(* walk has to refuse.  Each family of conforming streams turns on the     *)
(* syntax of one part of a parameter set or of the slice header, with      *)
(* combinations of its elements; the extra header bits move everything     *)
(* behind them through the byte, and zeros put emulation prevention bytes  *)
(* into headers and sets.                                                  *)
(***************************************************************************)
EXTENDS HevcStream

H == INSTANCE H265Syntax

(* 72 x 40 samples in coding tree blocks of 16: 5 x 3.                     *)
Sps ==
  [sub_layers |-> <<>>, ordering_info |-> TRUE, max_dec_pic_buffering_minus1 |-> 0,
   chroma_format_idc |-> 1, width |-> 72, height |-> 40, crop |-> <<>>,
   depth |-> 8, depth_chroma |-> 8, log2_max_poc_lsb |-> 4, blocks |-> <<0, 1, 0, 2, 1, 2>>,
   flags |-> {}, pcm |-> <<>>, rps |-> <<>>,
   long_term_ref_pics_present |-> FALSE, num_long_term_ref_pics_sps |-> 0,
   temporal_mvp_enabled |-> FALSE, sao_enabled |-> FALSE, vui |-> <<>>]

Pps ==
  [pps_id |-> 0, dependent_enabled |-> TRUE, output_flag_present |-> FALSE,
   num_extra_slice_header_bits |-> 0, flags |-> {}, ref_idx |-> <<0, 0>>, init_qp |-> 26,
   cu_qp_delta_depth |-> <<>>, cb_qp_offset |-> 0, cr_qp_offset |-> 0,
   chroma_qp_offsets_present |-> FALSE,
   deblocking_control_present |-> FALSE, deblocking_override_enabled |-> FALSE,
   deblocking_disabled |-> 0, beta_offset |-> 0, tc_offset |-> 0,
   loop_filter_across |-> FALSE, loop_filter_across_tiles |-> FALSE,
   tiles_enabled |-> FALSE, entropy_sync_enabled |-> FALSE,
   header_extension_present |-> FALSE, uniform_spacing |-> TRUE, merge_level |-> 2,
   columns |-> 1, rows |-> 1, column_widths |-> <<>>, row_heights |-> <<>>]

NoSet == [inter |-> FALSE, negative |-> 0, entries |-> <<>>]

(* An independent first segment with nothing switched on.                  *)
Segment ==
  [first |-> TRUE, pps_id |-> 0, dependent |-> 0, address |-> 0, slice_type |-> 2,
   poc_lsb |-> 0, rps_from_sps |-> FALSE, rps |-> NoSet,
   long_term |-> [from_sps |-> 0, msb |-> <<>>], temporal_mvp |-> 0,
   sao_luma |-> 0, sao_chroma |-> 0, qp_delta |-> 0, cb_qp_offset |-> 0,
   cr_qp_offset |-> 0, deblocking_override |-> 0, deblocking_disabled |-> 0,
   beta_offset |-> 0, tc_offset |-> 0, loop_filter_across |-> 0,
   entry_points |-> 0, extension |-> 0]

-----------------------------------------------------------------------------
(* NAL units and streams.                                                  *)

SpsNal(set) == <<66, 1>> \o H!Escape(H!Bytes(H!Aligned(H!SeqParameterSet(set))))
PpsNal(set) == <<68, 1>> \o H!Escape(H!Bytes(H!Aligned(H!PicParameterSet(set))))
Vps == <<64, 1, 12>>
Sei == <<78, 1, 5>>
NonIrap == <<2, 1, 208>>
Forbidden == <<194, 1, 12>>

HeaderBits(g, s, p, idr) == H!Aligned(H!SegmentHeader(g, s, p, idr))

(* The slice data is any bytes; these need escaping themselves.            *)
SliceNal(g, s, p, type) ==
  <<2 * type, 1>>
    \o H!Escape(H!Bytes(HeaderBits(g, s, p, type \in {19, 20})) \o <<0, 0, 2, 0>>)

SetBits(g, s, idr) ==
  IF g.dependent = 1 \/ idr \/ g.rps_from_sps THEN 0
  ELSE Len(H!RefPicSet(g.rps, Len(s.rps), Len(s.rps)))

SourceOf(g, s, p, idr) ==
  [header |-> g, rps_bits |-> SetBits(g, s, idr),
   data |-> 2 + Len(H!Escape(H!Bytes(HeaderBits(g, s, p, idr))))]

Slices(gs, s, p, type) == [i \in DOMAIN gs |-> SliceNal(gs[i], s, p, type)]
Source(gs, s, p, type) ==
  [sps |-> s, pps |-> p, type |-> type,
   segments |-> [i \in DOMAIN gs |-> SourceOf(gs[i], s, p, type \in {19, 20})]]

(* Parameter sets out of band.                                             *)
Behind(sets, gs, s, p, type) ==
  [hvcc |-> sets, payload |-> Slices(gs, s, p, type), source |-> Source(gs, s, p, type)]

Stream(gs, s, p, type) == Behind(<<Vps, SpsNal(s), PpsNal(p)>>, gs, s, p, type)

(* In band, over others of the same id that the record has.                *)
OtherSps == [Sps EXCEPT !.sao_enabled = TRUE, !.width = 64]
OtherPps == [Pps EXCEPT !.tiles_enabled = TRUE, !.columns = 2]
OtherSets == <<SpsNal(OtherSps), PpsNal(OtherPps)>>

Overridden(gs, s, p, type) ==
  [hvcc |-> OtherSets,
   payload |-> <<PpsNal(p), SpsNal(s), Sei>> \o Slices(gs, s, p, type),
   source |-> Source(gs, s, p, type)]

Outside(hvcc, payload) == [hvcc |-> hvcc, payload |-> payload, source |-> OutOfScope]
Damaged(hvcc, payload) == [hvcc |-> hvcc, payload |-> payload, source |-> None]

Bits == {0, 1}
Shifts == {0, 3, 7}
Shifted(p, shift) == [p EXCEPT !.num_extra_slice_header_bits = shift]

-----------------------------------------------------------------------------
(* Family 1: what a CRA picture says of pictures it does not refer to.     *)

(* Of one picture, of two predicted from it, of none.                      *)
ListedSet1 == [inter |-> FALSE, negative |-> 1, entries |-> <<2>>]
PredictedSet2 == [inter |-> TRUE, delta_idx_minus1 |-> 0, used |-> <<"used", "delta">>]

RpsSps ==
  [Sps EXCEPT !.rps = <<ListedSet1, PredictedSet2, NoSet>>, !.temporal_mvp_enabled = TRUE]

Listed ==
  {[inter |-> FALSE, negative |-> n, entries |-> e] :
     n \in 0..1, e \in {<<>>, <<0>>, <<4>>, <<2, 0>>, <<7, 1, 0>>}}

(* delta_idx_minus1 leads to the set with 0, 2 or 1 pictures.              *)
Predicted ==
  {[inter |-> TRUE, delta_idx_minus1 |-> d, used |-> used] :
     d \in 0..2, used \in UNION {[1..n -> {"used", "delta", "none"}] : n \in 1..3}}

PredictedFits(set, s) ==
  Len(set.used) = H!NumDeltaPocs(s.rps[Len(s.rps) - set.delta_idx_minus1]) + 1

CraSlices ==
  {Stream(<<[Segment EXCEPT !.rps = set, !.poc_lsb = poc, !.qp_delta = 3]>>,
          RpsSps, Shifted(Pps, shift), 21) :
     set \in {l \in Listed : l.negative <= Len(l.entries)}
             \cup {q \in Predicted : PredictedFits(q, RpsSps)},
     poc \in {0, 9}, shift \in {0, 3}}
  \cup
  {Stream(<<[Segment EXCEPT !.rps_from_sps = TRUE, !.temporal_mvp = mvp, !.qp_delta = -2]>>,
          [RpsSps EXCEPT !.rps = SubSeq(@, 1, n)], Shifted(Pps, shift), 21) :
     mvp \in Bits, n \in {1, 2, 3}, shift \in Shifts}

(* The first from_sps of the pictures are candidates of the SPS.           *)
LongTermSlices(candidates) ==
  {Stream(<<[Segment EXCEPT !.long_term = [from_sps |-> n, msb |-> msb],
                            !.temporal_mvp = 1, !.qp_delta = -1]>>,
          [Sps EXCEPT !.long_term_ref_pics_present = TRUE, !.temporal_mvp_enabled = TRUE,
                      !.num_long_term_ref_pics_sps = candidates],
          Shifted(Pps, 1), 16) :
     <<n, msb>> \in {x \in (0..candidates) \X UNION {[1..k -> BOOLEAN] : k \in 0..3} :
                       x[1] <= Len(x[2])}}

-----------------------------------------------------------------------------
(* Family 2: the filters, over every combination of what turns them on.    *)

FilterPps ==
  {[Shifted(Pps, 2) EXCEPT !.output_flag_present = across,
      !.chroma_qp_offsets_present = chroma, !.deblocking_control_present = (c # "none"),
      !.deblocking_override_enabled = (c \in {"override", "override_off"}),
      !.deblocking_disabled = IF c \in {"off", "override_off"} THEN 1 ELSE 0,
      !.loop_filter_across = across] :
     chroma \in BOOLEAN, c \in {"none", "on", "off", "override", "override_off"},
     across \in BOOLEAN}

FilterSps ==
  {[Sps EXCEPT !.sao_enabled = sao, !.chroma_format_idc = format, !.depth_chroma = 8 + 2 * format] :
     sao \in BOOLEAN, format \in 0..1}

(* The values of H.265 for the elements these sets leave out.              *)
Inferred(g, s, p) ==
  LET sao_luma == IF s.sao_enabled THEN g.sao_luma ELSE 0
      sao_chroma == IF s.sao_enabled /\ s.chroma_format_idc = 1 THEN g.sao_chroma ELSE 0
      override == IF p.deblocking_override_enabled THEN g.deblocking_override ELSE 0
      disabled == IF override = 1 THEN g.deblocking_disabled ELSE p.deblocking_disabled
      coded == p.loop_filter_across /\ (sao_luma = 1 \/ sao_chroma = 1 \/ disabled = 0)
  IN [g EXCEPT !.sao_luma = sao_luma, !.sao_chroma = sao_chroma,
        !.cb_qp_offset = IF p.chroma_qp_offsets_present THEN g.cb_qp_offset ELSE 0,
        !.cr_qp_offset = IF p.chroma_qp_offsets_present THEN g.cr_qp_offset ELSE 0,
        !.deblocking_override = override, !.deblocking_disabled = disabled,
        !.loop_filter_across = IF coded THEN g.loop_filter_across
                               ELSE IF p.loop_filter_across THEN 1 ELSE 0]

FilterSegments ==
  {[Segment EXCEPT !.sao_luma = f[1], !.sao_chroma = f[2], !.deblocking_override = f[3],
      !.deblocking_disabled = f[4], !.loop_filter_across = f[5],
      !.qp_delta = 26 * (2 * f[1] - 1), !.cb_qp_offset = -12 * f[2], !.cr_qp_offset = 5,
      !.beta_offset = 6, !.tc_offset = -6] : f \in [1..5 -> Bits]}

FilterSlices ==
  UNION {{Overridden(<<g>>, s, p, 19) : g \in {Inferred(f, s, p) : f \in FilterSegments}} :
           s \in FilterSps, p \in FilterPps}

-----------------------------------------------------------------------------
(* Family 3: several segments, entry points, extensions, tiles.            *)

Second(dependent, address) ==
  [Segment EXCEPT !.first = FALSE, !.dependent = dependent, !.address = address]

TilePps ==
  {[Pps EXCEPT !.tiles_enabled = TRUE, !.columns = c, !.rows = r] : c \in 1..4, r \in 1..3}
  \cup
  {[Pps EXCEPT !.tiles_enabled = TRUE, !.uniform_spacing = FALSE,
      !.columns = Len(w) + 1, !.column_widths = w, !.rows = Len(h) + 1, !.row_heights = h] :
     w \in {<<>>, <<3>>, <<0, 2>>}, h \in {<<>>, <<0, 0>>}}
  \cup {[Pps EXCEPT !.entropy_sync_enabled = TRUE], Pps}

SegmentPairs(p) ==
  {<<[Segment EXCEPT !.entry_points = e, !.extension = x],
     [Second(dependent, a) EXCEPT !.entry_points = IF e = 0 THEN 0 ELSE 3 - e,
                                  !.extension = 3 - x]>> :
     e \in IF p.tiles_enabled \/ p.entropy_sync_enabled THEN 0..2 ELSE {0},
     x \in IF p.header_extension_present THEN {1, 3} ELSE {0},
     dependent \in IF p.dependent_enabled THEN Bits ELSE {0}, a \in {1, 14}}

(* Not coded without the extension flag.                                   *)
Trimmed(gs, p) ==
  [i \in DOMAIN gs |->
     IF p.header_extension_present THEN gs[i] ELSE [gs[i] EXCEPT !.extension = 0]]

PlainSps == SpsNal(Sps)
SegmentStreams(p, sets) ==
  {Behind(sets, Trimmed(gs, p), Sps, p, 20) : gs \in SegmentPairs(p)}

SegmentSlices ==
  UNION {SegmentStreams(p, <<PlainSps, PpsNal(p)>>) :
           p \in {[Shifted(q, shift) EXCEPT !.header_extension_present = x,
                                            !.dependent_enabled = d] :
                    q \in TilePps, shift \in {0, 5}, x \in BOOLEAN, d \in BOOLEAN}}

(* Headers that end in zeros, at any bit: a byte is inserted before the    *)
(* last of the header, before those in front of it, or behind it.          *)
EndSlices ==
  {Stream(<<[Segment EXCEPT !.qp_delta = 1, !.extension = x]>>, Sps,
          [Shifted(Pps, shift) EXCEPT !.header_extension_present = TRUE], 19) :
     shift \in 0..7, x \in 2..5}

-----------------------------------------------------------------------------
(* Family 4: what a sequence parameter set says before and behind what the *)
(* slices need of it.                                                      *)

Layers == UNION {[1..n -> [profile : BOOLEAN, level : BOOLEAN]] : n \in 0..2}
PcmPart == [depth |-> 7, depth_chroma |-> 5, min |-> 0, diff |-> 2, no_filter |-> TRUE]
VuiParts == [aspect : {0, 1, 255}, overscan : BOOLEAN, range : {"unspecified", "limited", "full"}]

(* Sets of an SPS, each predicted from the one before it or listed.        *)
SetLists ==
  {<<first>> : first \in {NoSet, ListedSet1}}
  \cup {<<ListedSet1, [inter |-> TRUE, used |-> used]>> :
           used \in [1..2 -> {"used", "delta", "none"}]}
  \cup {<<ListedSet1, PredictedSet2, [inter |-> TRUE, used |-> <<"none", "delta", "used">>]>>}

RichSps ==
  [Sps EXCEPT !.sub_layers = <<[profile |-> TRUE, level |-> FALSE]>>, !.pcm = <<PcmPart>>,
     !.max_dec_pic_buffering_minus1 = 4, !.crop = <<1, 2, 0, 3>>, !.sao_enabled = TRUE,
     !.log2_max_poc_lsb = 9, !.temporal_mvp_enabled = TRUE, !.rps = <<ListedSet1, PredictedSet2>>,
     !.flags = {"strong_intra_smoothing"},
     !.vui = <<[aspect |-> 255, overscan |-> TRUE, range |-> "full"]>>]

SpsChecked ==
  {[Sps EXCEPT !.sub_layers = l, !.ordering_info = o, !.max_dec_pic_buffering_minus1 = 3,
               !.temporal_mvp_enabled = TRUE] : l \in Layers, o \in BOOLEAN}
  \cup {[Sps EXCEPT !.chroma_format_idc = f, !.crop = c, !.depth = d[1], !.depth_chroma = d[2]] :
           f \in 0..1, c \in {<<>>, <<1, 2, 3, 4>>, <<0, 35, 19, 0>>},
           d \in {<<8, 8>>, <<8, 10>>, <<9, 8>>, <<10, 10>>}}
  \cup {[Sps EXCEPT !.pcm = pcm, !.flags = on, !.blocks = b, !.long_term_ref_pics_present = lt,
                    !.num_long_term_ref_pics_sps = IF lt THEN 2 ELSE 0, !.vui = <<v>>] :
           pcm \in {<<>>, <<PcmPart>>}, on \in SUBSET {"amp", "strong_intra_smoothing"},
           b \in {<<0, 1, 0, 2, 1, 2>>, <<0, 3, 0, 3, 0, 0>>}, lt \in BOOLEAN,
           v \in {w \in VuiParts : w.aspect = 255 \/ ~w.overscan}}
  \cup {[Sps EXCEPT !.rps = sets, !.vui = <<v>>] : sets \in SetLists, v \in VuiParts}
  \cup {RichSps}

SpsSlices ==
  {Stream(<<[Segment EXCEPT !.rps_from_sps = (s.rps # <<>>),
                            !.temporal_mvp = IF s.temporal_mvp_enabled THEN 1 ELSE 0,
                            !.sao_luma = IF s.sao_enabled THEN 1 ELSE 0,
                            !.qp_delta = 1]>>, s, Pps, 21) : s \in SpsChecked}

-----------------------------------------------------------------------------
(* Family 5: the same of a picture parameter set.                          *)

PpsFlags ==
  {"sign_data_hiding", "cabac_init", "constrained_intra_pred", "transform_skip",
   "weighted_pred", "weighted_bipred", "transquant_bypass", "lists_modification"}

PpsChecked ==
  {[Pps EXCEPT !.flags = on, !.cu_qp_delta_depth = depth, !.num_extra_slice_header_bits = 5] :
     on \in {x \in SUBSET PpsFlags : Cardinality(x) \notin 3..6}, depth \in {<<>>, <<0>>, <<3>>}}
  \cup {[Pps EXCEPT !.pps_id = id, !.ref_idx = r, !.init_qp = qp, !.cb_qp_offset = cb,
                    !.cr_qp_offset = -cb, !.merge_level = 4] :
           id \in {0, 63}, r \in {<<0, 14>>, <<2, 0>>}, qp \in {0, 25, 51}, cb \in {-12, 0, 5}}
  \cup {[Pps EXCEPT !.deblocking_control_present = TRUE, !.beta_offset = o, !.tc_offset = -o,
                    !.deblocking_override_enabled = TRUE,
                    !.tiles_enabled = t, !.columns = IF t THEN 2 ELSE 1,
                    !.loop_filter_across_tiles = across /\ t, !.loop_filter_across = across] :
           o \in {-6, 0, 6}, t \in BOOLEAN, across \in BOOLEAN}

PpsSlices ==
  {Overridden(<<[Segment EXCEPT !.pps_id = p.pps_id, !.qp_delta = -1,
                   !.deblocking_override = Bit(p.deblocking_override_enabled),
                   !.deblocking_disabled = Bit(p.deblocking_override_enabled),
                   !.loop_filter_across = Bit(p.loop_filter_across)]>>, Sps, p, 20) :
     p \in PpsChecked}

-----------------------------------------------------------------------------
(* Streams that are refused, and one that only looks like it.              *)

Plain == SliceNal(Segment, Sps, Pps, 19)

BadTiles == [Pps EXCEPT !.tiles_enabled = TRUE, !.uniform_spacing = FALSE, !.columns = 3,
                        !.column_widths = <<2, 1>>]

RefusedSps ==
  {[Sps EXCEPT !.chroma_format_idc = 2], [Sps EXCEPT !.depth = 12],
   [Sps EXCEPT !.depth_chroma = 11], [Sps EXCEPT !.width = 16896], [Sps EXCEPT !.height = 0],
   [Sps EXCEPT !.max_dec_pic_buffering_minus1 = 16],
   [Sps EXCEPT !.crop = <<18, 18, 0, 0>>], [Sps EXCEPT !.crop = <<0, 0, 0, 25>>],
   [Sps EXCEPT !.rps = <<[inter |-> FALSE, negative |-> 17, entries |-> [i \in 1..17 |-> 0]]>>]}
RefusedPps ==
  {[Pps EXCEPT !.pps_id = 1], [Pps EXCEPT !.pps_id = 64], [Pps EXCEPT !.init_qp = 200],
   [Pps EXCEPT !.ref_idx = <<15, 0>>], [Pps EXCEPT !.cu_qp_delta_depth = <<4>>],
   [Pps EXCEPT !.tiles_enabled = TRUE, !.columns = 20], BadTiles}

Refused ==
  {Outside(<<SpsNal(s), PpsNal(Pps)>>, <<SliceNal(Segment, s, Pps, 19)>>) : s \in RefusedSps}
  \cup {Outside(<<SpsNal(Sps), PpsNal(p)>>, <<SliceNal(Segment, Sps, p, 19)>>) :
           p \in RefusedPps \ {[Pps EXCEPT !.pps_id = 1]}}
  \cup
  {Outside(<<SpsNal(Sps)>>, <<Plain>>),
   Outside(<<PpsNal(Pps)>>, <<Plain>>),
   Outside(<<SpsNal(Sps), PpsNal([Pps EXCEPT !.pps_id = 1])>>, <<Plain>>),
   Outside(<<SpsNal(Sps), PpsNal(Pps)>>, <<>>),
   Outside(<<SpsNal(Sps), PpsNal(Pps)>>, <<Plain, NonIrap>>),
   Outside(<<SpsNal(Sps), PpsNal(Pps)>>, <<Forbidden, Plain>>),
   Outside(<<SpsNal(Sps), PpsNal(Pps), <<>>>>, <<Plain>>),
   Outside(<<SpsNal(Sps), PpsNal(Pps)>>,
           <<Plain, SliceNal([Segment EXCEPT !.slice_type = 1], Sps, Pps, 20)>>)}

(* Headers and sets cut off after any byte.                                *)
CutPps == [Pps EXCEPT !.header_extension_present = TRUE, !.tiles_enabled = TRUE,
                      !.columns = 2]
CutNal == SliceNal([Segment EXCEPT !.entry_points = 2, !.extension = 2], Sps, CutPps, 19)
CutSps == SpsNal(RichSps)

CutOff ==
  {Damaged(<<SpsNal(Sps), PpsNal(CutPps)>>, <<SubSeq(CutNal, 1, n)>>) : n \in 2..Len(CutNal)}
  \cup {Damaged(<<SubSeq(CutSps, 1, n), PpsNal(Pps)>>, <<Plain>>) : n \in 1..Len(CutSps) - 1}
  \cup {Damaged(<<SpsNal(Sps), SubSeq(PpsNal(CutPps), 1, n)>>, <<CutNal>>) :
           n \in 1..Len(PpsNal(CutPps)) - 1}

Checked ==
  CraSlices \cup LongTermSlices(0) \cup LongTermSlices(1) \cup LongTermSlices(3)
    \cup FilterSlices \cup SegmentSlices \cup EndSlices \cup SpsSlices \cup PpsSlices
    \cup Refused \cup CutOff

=============================================================================
