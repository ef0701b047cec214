----------------------------- MODULE Av1Headers ------------------------------
(***************************************************************************)
(* parse_sequence_header, parse_frame_header and parse_tile_group of the   *)
(* VAAPI backend (crates/rawshift-hwdec/src/vaapi/av1.rs), over the bit    *)
(* reader of VaapiBits.                                                    *)
(*                                                                         *)
(* A header is a record h of the values of its syntax elements, named as   *)
(* in the code, flags being 0 or 1; a name ending in _minus_1 is the coded *)
(* value.  s is a sequence header, h a frame header on its way.            *)
(***************************************************************************)
EXTENDS VaapiBits

CONSTANT None  \* no value: of a segment's feature, of a header


-----------------------------------------------------------------------------
(* parse_sequence_header                                                   *)

SeqElements ==
  <<"seq_profile", "still_picture", "reduced_still_picture_header", "seq_level_idx_0",
    "timing_info_present", "display_tick", "equal_picture_interval", "num_ticks_per_picture",
    "decoder_model_info_present", "buffer_delay_length_minus_1", "decoding_tick",
    "buffer_removal_time_length_minus_1", "frame_presentation_time_length_minus_1",
    "initial_display_delay_present", "op_cnt_minus_1", "operating_points",
    "frame_width_bits_minus_1", "frame_height_bits_minus_1",
    "max_frame_width_minus_1", "max_frame_height_minus_1",
    "frame_id_numbers_present", "delta_frame_id_length_minus_2",
    "additional_frame_id_length_minus_1",
    "use_128x128_superblock", "enable_filter_intra", "enable_intra_edge_filter",
    "enable_interintra_compound", "enable_masked_compound", "enable_warped_motion",
    "enable_dual_filter", "enable_order_hint", "enable_jnt_comp", "enable_ref_frame_mvs",
    "seq_choose_screen_content_tools", "seq_force_screen_content_tools",
    "seq_choose_integer_mv", "seq_force_integer_mv", "order_hint_bits_minus_1",
    "enable_superres", "enable_cdef", "enable_restoration",
    "high_bitdepth", "mono_chrome", "color_description_present", "color_primaries",
    "transfer_characteristics", "matrix_coefficients", "color_range",
    "chroma_sample_position", "separate_uv_delta_q", "film_grain_params_present">>

(* Elements that are there exactly if another one is set.                  *)
SeqCondition ==
  [display_tick |-> "timing_info_present",
   equal_picture_interval |-> "timing_info_present",
   num_ticks_per_picture |-> "equal_picture_interval",
   decoder_model_info_present |-> "timing_info_present",
   buffer_delay_length_minus_1 |-> "decoder_model_info_present",
   decoding_tick |-> "decoder_model_info_present",
   buffer_removal_time_length_minus_1 |-> "decoder_model_info_present",
   frame_presentation_time_length_minus_1 |-> "decoder_model_info_present",
   seq_level_idx_0 |-> "reduced_still_picture_header",
   delta_frame_id_length_minus_2 |-> "frame_id_numbers_present",
   additional_frame_id_length_minus_1 |-> "frame_id_numbers_present",
   enable_jnt_comp |-> "enable_order_hint", enable_ref_frame_mvs |-> "enable_order_hint",
   order_hint_bits_minus_1 |-> "enable_order_hint",
   color_primaries |-> "color_description_present",
   transfer_characteristics |-> "color_description_present",
   matrix_coefficients |-> "color_description_present"]

(* Left out of a reduced header.                                           *)
OnlyFull ==
  {"timing_info_present", "initial_display_delay_present", "op_cnt_minus_1",
   "operating_points", "frame_id_numbers_present", "enable_interintra_compound",
   "enable_masked_compound", "enable_warped_motion", "enable_dual_filter",
   "enable_order_hint", "seq_choose_screen_content_tools",
   "seq_force_screen_content_tools", "seq_choose_integer_mv", "seq_force_integer_mv"}

SeqPresent(e, h) ==
  /\ e \in OnlyFull => h.reduced_still_picture_header = 0
  /\ e \in DOMAIN SeqCondition => h[SeqCondition[e]] = 1
  /\ e = "seq_force_screen_content_tools" => h.seq_choose_screen_content_tools = 0
  /\ e = "seq_choose_integer_mv" => h.seq_force_screen_content_tools > 0
  /\ e = "seq_force_integer_mv" =>
       h.seq_force_screen_content_tools > 0 /\ h.seq_choose_integer_mv = 0
  /\ e \in {"chroma_sample_position", "separate_uv_delta_q"} => h.mono_chrome = 0

(* Widths of more than a bit.                                              *)
SeqBits ==
  [seq_profile |-> 3, seq_level_idx_0 |-> 5, buffer_delay_length_minus_1 |-> 5,
   buffer_removal_time_length_minus_1 |-> 5, frame_presentation_time_length_minus_1 |-> 5,
   op_cnt_minus_1 |-> 5, frame_width_bits_minus_1 |-> 4, frame_height_bits_minus_1 |-> 4,
   delta_frame_id_length_minus_2 |-> 4, additional_frame_id_length_minus_1 |-> 3,
   order_hint_bits_minus_1 |-> 3, color_primaries |-> 8, transfer_characteristics |-> 8,
   matrix_coefficients |-> 8, chroma_sample_position |-> 2]

(* The operating points: how many of them have a decoder model, and the    *)
(* length of all.                                                          *)
OperatingPoints(b, at, h) ==
  LET model(p) ==
        IF h.decoder_model_info_present = 0 THEN 0
        ELSE IF Flag(b, p) = 0 THEN 1
        ELSE 2 + 2 * (h.buffer_delay_length_minus_1 + 1)
      delay(p) ==
        IF h.initial_display_delay_present = 0 THEN 0 ELSE IF Flag(b, p) = 0 THEN 1 ELSE 5
      after(acc, p, length) ==
        <<acc[1] + (IF length > 1 THEN 1 ELSE 0), p + length + delay(p + length)>>
      from(acc, p) == after(acc, p, model(p))
      tier(acc) == IF U(b, acc[2] + 12, 5) > 7 THEN 1 ELSE 0
      point(acc) == from(acc, acc[2] + 17 + tier(acc))
      points[i \in 0..(h.op_cnt_minus_1 + 1)] ==
        IF i = 0 THEN <<0, at>> ELSE point(points[i - 1])
      read(acc) == <<acc[1], acc[2] - at>>
  IN read(points[h.op_cnt_minus_1 + 1])

SeqRead(e, b, at, h) ==
  CASE e \in DOMAIN SeqBits -> <<U(b, at, SeqBits[e]), SeqBits[e]>>
    [] e = "display_tick" -> Skip(64)
    [] e = "decoding_tick" -> Skip(32)
    [] e = "num_ticks_per_picture" -> Ue(b, at)
    [] e = "operating_points" -> OperatingPoints(b, at, h)
    [] e = "max_frame_width_minus_1" ->
         <<U(b, at, h.frame_width_bits_minus_1 + 1), h.frame_width_bits_minus_1 + 1>>
    [] e = "max_frame_height_minus_1" ->
         <<U(b, at, h.frame_height_bits_minus_1 + 1), h.frame_height_bits_minus_1 + 1>>
    [] OTHER -> <<U(b, at, 1), 1>>

(* SELECT_SCREEN_CONTENT_TOOLS is 2, and so are unspecified colours.       *)
SeqAbsent(e, h) ==
  IF e \in {"seq_force_screen_content_tools", "color_primaries",
            "transfer_characteristics", "matrix_coefficients"}
  THEN 2 ELSE 0

(* The profile, and identity-matrix 4:4:4.                                 *)
SeqAccepts(e, h, v) ==
  /\ e = "seq_profile" => v = 0
  /\ e = "color_range" =>
       ~(h.mono_chrome = 0 /\ h.color_primaries = 1 /\ h.transfer_characteristics = 13
           /\ h.matrix_coefficients = 0)

SeqReadOrAbsent(e, b, at, h) ==
  IF SeqPresent(e, h) THEN SeqRead(e, b, at, h) ELSE <<SeqAbsent(e, h), 0>>

(* [ok, h]                                                                 *)
ParseSequenceHeader(payload) ==
  LET of(b) == Parse(SeqElements, b, LAMBDA e, h, at : SeqReadOrAbsent(e, b, at, h), SeqAccepts)
  IN of(BitsOf(payload))

Planes(s) == IF s.mono_chrome = 1 THEN 1 ELSE 3
OrderHintBits(s) == IF s.enable_order_hint = 1 THEN s.order_hint_bits_minus_1 + 1 ELSE 0
IdLength(s) == s.additional_frame_id_length_minus_1 + s.delta_frame_id_length_minus_2 + 3

-----------------------------------------------------------------------------
(* parse_frame_header: the elements, in order.                             *)

FrameElements ==
  <<"show_existing_frame", "frame_type", "show_frame", "temporal_point_info",
    "showable_frame", "error_resilient_mode", "disable_cdf_update",
    "allow_screen_content_tools", "current_frame_id", "frame_size_override", "order_hint",
    "buffer_removal_time_present", "buffer_removal_times", "refresh_frame_flags",
    "ref_order_hints", "frame_width_minus_1", "frame_height_minus_1", "use_superres",
    "coded_denom", "render_size_differs", "render_size", "allow_intrabc",
    "disable_frame_end_update_cdf",
    "uniform_tile_spacing", "tile_widths", "tile_cols_log2", "tile_heights",
    "tile_rows_log2", "context_update_tile_id", "tile_size_bytes_minus_1",
    "base_q_idx", "delta_q_y_dc", "diff_uv_delta", "delta_q_u_dc", "delta_q_u_ac",
    "delta_q_v_dc", "delta_q_v_ac", "using_qmatrix", "qm_y", "qm_u", "qm_v",
    "segmentation_enabled", "features", "delta_q_present", "delta_q_res",
    "delta_lf_present", "delta_lf_res", "delta_lf_multi",
    "level_0", "level_1", "level_u", "level_v", "sharpness", "loop_filter_delta_enabled",
    "loop_filter_delta_update", "loop_filter_deltas",
    "cdef_damping_minus_3", "cdef_bits", "cdef_strengths",
    "lr_type", "lr_unit_shift", "lr_uv_shift", "tx_mode_select", "reduced_tx_set",
    "apply_grain", "grain_seed", "num_y_points", "point_y", "chroma_scaling_from_luma",
    "num_cb_points", "point_cb", "num_cr_points", "point_cr", "grain_scaling_minus_8",
    "ar_coeff_lag", "ar_coeffs_y", "ar_coeffs_cb", "ar_coeffs_cr",
    "ar_coeff_shift_minus_6", "grain_scale_shift", "cb_mult", "cb_luma_mult", "cb_offset",
    "cr_mult", "cr_luma_mult", "cr_offset", "overlap_flag", "clip_to_restricted_range">>

From(first, last) ==
  LET at(e) == CHOOSE i \in DOMAIN FrameElements : FrameElements[i] = e
  IN {FrameElements[i] : i \in at(first)..at(last)}

LoopFilterElements == From("level_0", "loop_filter_deltas")
CdefElements == From("cdef_damping_minus_3", "cdef_strengths")
RestorationElements == From("lr_type", "lr_uv_shift")
GrainElements == From("grain_seed", "clip_to_restricted_range")

(* Elements that are there only if another one is set.                     *)
FrameCondition ==
  [buffer_removal_times |-> "buffer_removal_time_present",
   frame_width_minus_1 |-> "frame_size_override",
   frame_height_minus_1 |-> "frame_size_override",
   coded_denom |-> "use_superres", render_size |-> "render_size_differs",
   tile_cols_log2 |-> "uniform_tile_spacing", tile_rows_log2 |-> "uniform_tile_spacing",
   delta_q_v_dc |-> "diff_uv_delta", delta_q_v_ac |-> "diff_uv_delta",
   qm_y |-> "using_qmatrix", qm_u |-> "using_qmatrix", qm_v |-> "using_qmatrix",
   features |-> "segmentation_enabled",
   delta_q_res |-> "delta_q_present", delta_lf_present |-> "delta_q_present",
   delta_lf_res |-> "delta_lf_present", delta_lf_multi |-> "delta_lf_present",
   loop_filter_delta_update |-> "loop_filter_delta_enabled",
   loop_filter_deltas |-> "loop_filter_delta_update"]

-----------------------------------------------------------------------------
(* The size of the frame: decoded, after superres.                         *)

KEY_FRAME == 0
INTRA_ONLY_FRAME == 2

ShownKey(h) == h.frame_type = KEY_FRAME /\ h.show_frame = 1
SuperresDenom(h) == IF h.use_superres = 1 THEN h.coded_denom + 9 ELSE 8
UpscaledWidth(h) == h.frame_width_minus_1 + 1
FrameHeight(h) == h.frame_height_minus_1 + 1

FrameWidth(h) ==
  (8 * UpscaledWidth(h) + SuperresDenom(h) \div 2) \div SuperresDenom(h)

-----------------------------------------------------------------------------
(* parse_tile_info                                                         *)

MAX_TILE_WIDTH == 4096
MAX_TILE_AREA == 4096 * 2304
MAX_TILE_COLS == 64
MAX_TILE_ROWS == 64

Least(x, y) == IF x < y THEN x ELSE y
Most(x, y) == IF x > y THEN x ELSE y

tile_log2(blk_size, target) ==
  CHOOSE k \in 0..16 : blk_size * 2^k >= target
                        /\ (k = 0 \/ blk_size * 2^(k - 1) < target)

(* A dimension in superblocks.                                             *)
Sbs(samples, s) ==
  LET mi == 2 * ((samples + 7) \div 8)
  IN IF s.use_128x128_superblock = 1 THEN (mi + 31) \div 32 ELSE (mi + 15) \div 16

SbCols(h, s) == Sbs(FrameWidth(h), s)
SbRows(h, s) == Sbs(FrameHeight(h), s)

(* sb_size - 2, of a superblock in samples.                                *)
SbShift(s) == IF s.use_128x128_superblock = 1 THEN 5 ELSE 4

MaxTileWidthSb(s) == MAX_TILE_WIDTH \div 2^SbShift(s)
MaxTileAreaSb(s) == MAX_TILE_AREA \div 2^(2 * SbShift(s))
MinLog2TileCols(h, s) == tile_log2(MaxTileWidthSb(s), SbCols(h, s))
MaxLog2TileCols(h, s) == tile_log2(1, Least(SbCols(h, s), MAX_TILE_COLS))
MaxLog2TileRows(h, s) == tile_log2(1, Least(SbRows(h, s), MAX_TILE_ROWS))

MinLog2Tiles(h, s) ==
  Most(MinLog2TileCols(h, s), tile_log2(MaxTileAreaSb(s), SbRows(h, s) * SbCols(h, s)))

MinLog2TileRows(h, s) == Most(MinLog2Tiles(h, s) - h.tile_cols_log2, 0)

(* A 1 for every step up from the least, a 0 before the most is reached.   *)
Increments(b, at, least, most) ==
  LET steps == Most(most - least, 0)
      ones == CHOOSE k \in 0..steps : /\ \A i \in 0..(k - 1) : Flag(b, at + i) = 1
                                      /\ k = steps \/ Flag(b, at + k) = 0
  IN <<least + ones, Least(ones + 1, steps)>>

(* Explicit sizes minus one, up to `total`, each at most `limit`.          *)
ExplicitSizes(b, at, total, limit) ==
  LET put(acc, read) ==
        [start |-> acc.start + read[1] + 1, at |-> acc.at + read[2],
         sizes |-> Append(acc.sizes, read[1])]
      next(acc) == IF acc.start >= total THEN acc
                   ELSE put(acc, Ns(b, acc.at, Least(total - acc.start, limit)))
      sizes[i \in Nat] == IF i = 0 THEN [start |-> 0, at |-> at, sizes |-> <<>>]
                          ELSE next(sizes[i - 1])
      read(acc) == <<acc.sizes, acc.at - at>>
  IN read(sizes[total])

(* Of tiles with explicit widths.                                          *)
MaxTileHeightSb(h, s) ==
  LET sbs == SbRows(h, s) * SbCols(h, s)
      widest == 1 + CHOOSE w \in {h.tile_widths[i] : i \in DOMAIN h.tile_widths} :
                      \A i \in DOMAIN h.tile_widths : h.tile_widths[i] <= w
      area == IF MinLog2Tiles(h, s) > 0 THEN sbs \div 2^(MinLog2Tiles(h, s) + 1) ELSE sbs
  IN Most(area \div widest, 1)

(* The sizes minus one of uniform tiles: all the same, the last one too.   *)
UniformSizes(sbs, log2) ==
  LET size == (sbs + 2^log2 - 1) \div 2^log2
  IN [i \in 1..((sbs + size - 1) \div size) |-> size - 1]

Columns(h, s) ==
  IF h.uniform_tile_spacing = 1 THEN UniformSizes(SbCols(h, s), h.tile_cols_log2)
  ELSE h.tile_widths
Rows(h, s) ==
  IF h.uniform_tile_spacing = 1 THEN UniformSizes(SbRows(h, s), h.tile_rows_log2)
  ELSE h.tile_heights

-----------------------------------------------------------------------------
(* Lists in the header.                                                    *)

(* n values of eight bits less an offset; n pairs of them.                 *)
Octets(b, at, n, offset) == <<[i \in 1..n |-> U(b, at + 8 * (i - 1), 8) - offset], 8 * n>>
Pairs(b, at, n) ==
  <<[i \in 1..n |-> <<U(b, at + 16 * (i - 1), 8), U(b, at + 16 * (i - 1) + 8, 8)>>], 16 * n>>

read_delta_q(b, at) ==
  IF Flag(b, at) = 1 THEN <<Su(b, at + 1, 7)[1], 8>> ELSE <<0, 1>>

SEGMENTATION_FEATURE_BITS == <<8, 6, 6, 6, 6, 3, 0, 0>>
SEGMENTATION_FEATURE_MAX == <<255, 63, 63, 63, 63, 7, 0, 0>>
SegmentationFeatureSigned(f) == f <= 5

Clip3(low, high, v) == IF v < low THEN low ELSE IF v > high THEN high ELSE v

FeatureValue(b, at, f) ==
  LET n == SEGMENTATION_FEATURE_BITS[f]
      most == SEGMENTATION_FEATURE_MAX[f]
  IN IF SegmentationFeatureSigned(f)
     THEN <<Clip3(-most, most, Su(b, at, n + 1)[1]), n + 1>>
     ELSE <<Clip3(0, most, U(b, at, n)), n>>

(* feature_data[8 * segment + feature], counted from 1.                    *)
Features(b, at) ==
  LET put(acc, read) == <<Append(acc[1], read[1]), acc[2] + 1 + read[2]>>
      next(acc, f) ==
        put(acc, IF Flag(b, acc[2]) = 1 THEN FeatureValue(b, acc[2] + 1, f)
                 ELSE <<None, 0>>)
      segment(acc) ==
        LET features[f \in 0..8] == IF f = 0 THEN acc ELSE next(features[f - 1], f)
        IN IF acc[2] < End(b) THEN features[8] ELSE Overrun(b)
      segments[i \in 0..8] == IF i = 0 THEN <<<<>>, at>> ELSE segment(segments[i - 1])
      read(acc) == <<acc[1], acc[2] - at>>
  IN read(segments[8])

(* Reference and mode deltas, from those of setup_past_independence.       *)
LoopFilterDeltas == <<1, 0, 0, 0, -1, 0, -1, -1, 0, 0>>

UpdatedDeltas(b, at) ==
  LET next(acc, i) ==
        IF Flag(b, acc[2]) = 1
        THEN <<[acc[1] EXCEPT ![i] = Su(b, acc[2] + 1, 7)[1]], acc[2] + 8>>
        ELSE <<acc[1], acc[2] + 1>>
      deltas[i \in 0..10] == IF i = 0 THEN <<LoopFilterDeltas, at>> ELSE next(deltas[i - 1], i)
      read(acc) == <<acc[1], acc[2] - at>>
  IN read(deltas[10])

(* Strengths of luma and chroma, primary and secondary; twelve bits each.  *)
CdefStrengths(b, at, n) ==
  <<[i \in 1..n |-> [y_pri |-> U(b, at + 12 * (i - 1), 4), y_sec |-> U(b, at + 12 * (i - 1) + 4, 2),
                     uv_pri |-> U(b, at + 12 * (i - 1) + 6, 4),
                     uv_sec |-> U(b, at + 12 * (i - 1) + 10, 2)]], 12 * n>>

REMAP_LR_TYPE == <<0, 3, 1, 2>>

LrTypes(b, at, planes) ==
  <<[i \in 1..planes |-> REMAP_LR_TYPE[U(b, at + 2 * (i - 1), 2) + 1]], 2 * planes>>

UsesLr(h) == \E i \in DOMAIN h.lr_type : h.lr_type[i] # 0
UsesChromaLr(h) == \E i \in DOMAIN h.lr_type : i > 1 /\ h.lr_type[i] # 0

LrUnitShift(b, at, s) ==
  IF s.use_128x128_superblock = 1 THEN <<1 + Flag(b, at), 1>>
  ELSE IF Flag(b, at) = 0 THEN <<0, 1>> ELSE <<1 + Flag(b, at + 1), 2>>

NumPosLuma(h) == 2 * h.ar_coeff_lag * (h.ar_coeff_lag + 1)
NumPosChroma(h) == NumPosLuma(h) + (IF h.num_y_points > 0 THEN 1 ELSE 0)

-----------------------------------------------------------------------------
(* Which elements are there.                                               *)

QIndex(h, segment) ==
  IF h.segmentation_enabled = 1 /\ h.features[8 * segment + 1] # None
  THEN Clip3(0, 255, h.base_q_idx + h.features[8 * segment + 1])
  ELSE h.base_q_idx

compute_coded_lossless(h) ==
  /\ \A segment \in 0..7 : QIndex(h, segment) = 0
  /\ \A e \in {"delta_q_y_dc", "delta_q_u_dc", "delta_q_u_ac", "delta_q_v_dc", "delta_q_v_ac"} :
       h[e] = 0

NoFilters(h) == compute_coded_lossless(h) \/ h.allow_intrabc = 1

(* Mutant: filtered although nothing was lost.                             *)
FilterPresent_IfLossless(e, h, s) ==
  /\ h.allow_intrabc = 0
  /\ e \in RestorationElements => s.enable_restoration = 1
  /\ e \in CdefElements => s.enable_cdef = 1
  /\ e \in {"level_u", "level_v"} => s.mono_chrome = 0 /\ (h.level_0 > 0 \/ h.level_1 > 0)
  /\ e = "lr_unit_shift" => UsesLr(h)
  /\ e = "lr_uv_shift" => UsesChromaLr(h)

FilterPresent(e, h, s) ==
  /\ e \in LoopFilterElements => ~NoFilters(h)
  /\ e \in CdefElements => ~NoFilters(h) /\ s.enable_cdef = 1
  /\ e \in RestorationElements =>
       /\ s.enable_restoration = 1 /\ h.allow_intrabc = 0
       /\ ~(compute_coded_lossless(h) /\ FrameWidth(h) = UpscaledWidth(h))
  /\ e \in {"level_u", "level_v"} => s.mono_chrome = 0 /\ (h.level_0 > 0 \/ h.level_1 > 0)
  /\ e = "lr_unit_shift" => UsesLr(h)
  /\ e = "lr_uv_shift" => UsesChromaLr(h)

GrainPresent(e, h, s) ==
  /\ h.apply_grain = 1
  /\ e = "chroma_scaling_from_luma" => s.mono_chrome = 0
  /\ e \in {"num_cb_points", "num_cr_points"} =>
       s.mono_chrome = 0 /\ h.chroma_scaling_from_luma = 0 /\ h.num_y_points > 0
  /\ e = "ar_coeffs_y" => h.num_y_points > 0
  /\ e = "ar_coeffs_cb" => h.chroma_scaling_from_luma = 1 \/ h.num_cb_points > 0
  /\ e = "ar_coeffs_cr" => h.chroma_scaling_from_luma = 1 \/ h.num_cr_points > 0
  /\ e \in {"cb_mult", "cb_luma_mult", "cb_offset"} => h.num_cb_points > 0
  /\ e \in {"cr_mult", "cr_luma_mult", "cr_offset"} => h.num_cr_points > 0

FramePresent(e, h, s) ==
  LET full == s.reduced_still_picture_header = 0 IN
  /\ e \in DOMAIN FrameCondition => h[FrameCondition[e]] = 1
  /\ e \in LoopFilterElements \cup CdefElements \cup RestorationElements =>
       FilterPresent(e, h, s)
  /\ e \in GrainElements => GrainPresent(e, h, s)
  /\ CASE e \in {"show_existing_frame", "frame_type", "show_frame", "frame_size_override"} -> full
       [] e = "temporal_point_info" ->
            full /\ h.show_frame = 1 /\ s.decoder_model_info_present = 1
              /\ s.equal_picture_interval = 0
       [] e = "showable_frame" -> full /\ h.show_frame = 0
       [] e = "error_resilient_mode" -> full /\ ~ShownKey(h)
       [] e = "allow_screen_content_tools" -> s.seq_force_screen_content_tools = 2
       [] e = "current_frame_id" -> s.frame_id_numbers_present = 1
       [] e = "buffer_removal_time_present" -> s.decoder_model_info_present = 1
       [] e = "refresh_frame_flags" -> ~ShownKey(h)
       [] e = "ref_order_hints" ->
            /\ h.frame_type = INTRA_ONLY_FRAME \/ h.refresh_frame_flags # 255
            /\ h.error_resilient_mode = 1 /\ s.enable_order_hint = 1
       [] e = "use_superres" -> s.enable_superres = 1
       [] e = "allow_intrabc" ->
            h.allow_screen_content_tools = 1 /\ UpscaledWidth(h) = FrameWidth(h)
       [] e = "disable_frame_end_update_cdf" -> full /\ h.disable_cdf_update = 0
       [] e \in {"tile_widths", "tile_heights"} -> h.uniform_tile_spacing = 0
       [] e \in {"context_update_tile_id", "tile_size_bytes_minus_1"} ->
            h.tile_cols_log2 > 0 \/ h.tile_rows_log2 > 0
       [] e = "diff_uv_delta" -> s.separate_uv_delta_q = 1
       [] e \in {"delta_q_u_dc", "delta_q_u_ac"} -> s.mono_chrome = 0
       [] e = "qm_v" -> s.separate_uv_delta_q = 1
       [] e = "delta_q_present" -> h.base_q_idx > 0
       [] e = "delta_lf_present" -> h.allow_intrabc = 0
       [] e = "tx_mode_select" -> ~compute_coded_lossless(h)
       [] e = "apply_grain" ->
            s.film_grain_params_present = 1 /\ (h.show_frame = 1 \/ h.showable_frame = 1)
       [] OTHER -> TRUE

-----------------------------------------------------------------------------
(* What they are.                                                          *)

FrameBits ==
  [frame_type |-> 2, refresh_frame_flags |-> 8, coded_denom |-> 3,
   tile_size_bytes_minus_1 |-> 2, base_q_idx |-> 8, qm_y |-> 4, qm_u |-> 4, qm_v |-> 4,
   delta_q_res |-> 2, delta_lf_res |-> 2, level_0 |-> 6, level_1 |-> 6, level_u |-> 6,
   level_v |-> 6, sharpness |-> 3, cdef_damping_minus_3 |-> 2, cdef_bits |-> 2,
   grain_seed |-> 16, num_y_points |-> 4, num_cb_points |-> 4, num_cr_points |-> 4,
   grain_scaling_minus_8 |-> 2, ar_coeff_lag |-> 2, ar_coeff_shift_minus_6 |-> 2,
   grain_scale_shift |-> 2, cb_mult |-> 8, cb_luma_mult |-> 8, cb_offset |-> 9,
   cr_mult |-> 8, cr_luma_mult |-> 8, cr_offset |-> 9]

Width(e, h, s) ==
  CASE e \in DOMAIN FrameBits -> FrameBits[e]
    [] e = "order_hint" -> OrderHintBits(s)
    [] e = "frame_width_minus_1" -> s.frame_width_bits_minus_1 + 1
    [] e = "frame_height_minus_1" -> s.frame_height_bits_minus_1 + 1
    [] e = "context_update_tile_id" -> h.tile_rows_log2 + h.tile_cols_log2
    [] OTHER -> 1

SkippedBits(e, s) ==
  CASE e \in {"temporal_point_info", "render_size"} -> 32
    [] e = "current_frame_id" -> IdLength(s)
    [] e = "buffer_removal_times" ->
         s.operating_points * (s.buffer_removal_time_length_minus_1 + 1)
    [] e = "ref_order_hints" -> 8 * OrderHintBits(s)

FrameRead(e, b, at, h, s) ==
  CASE e \in {"temporal_point_info", "render_size", "current_frame_id",
              "buffer_removal_times", "ref_order_hints"} -> Skip(SkippedBits(e, s))
    [] e = "tile_widths" -> ExplicitSizes(b, at, SbCols(h, s), MaxTileWidthSb(s))
    [] e = "tile_heights" -> ExplicitSizes(b, at, SbRows(h, s), MaxTileHeightSb(h, s))
    [] e = "tile_cols_log2" -> Increments(b, at, MinLog2TileCols(h, s), MaxLog2TileCols(h, s))
    [] e = "tile_rows_log2" -> Increments(b, at, MinLog2TileRows(h, s), MaxLog2TileRows(h, s))
    [] e \in {"delta_q_y_dc", "delta_q_u_dc", "delta_q_u_ac", "delta_q_v_dc", "delta_q_v_ac"} ->
         read_delta_q(b, at)
    [] e = "features" -> Features(b, at)
    [] e = "loop_filter_deltas" -> UpdatedDeltas(b, at)
    [] e = "cdef_strengths" -> CdefStrengths(b, at, 2^h.cdef_bits)
    [] e = "lr_type" -> LrTypes(b, at, Planes(s))
    [] e = "lr_unit_shift" -> LrUnitShift(b, at, s)
    [] e = "point_y" -> Pairs(b, at, h.num_y_points)
    [] e = "point_cb" -> Pairs(b, at, h.num_cb_points)
    [] e = "point_cr" -> Pairs(b, at, h.num_cr_points)
    [] e = "ar_coeffs_y" -> Octets(b, at, NumPosLuma(h), 128)
    [] e \in {"ar_coeffs_cb", "ar_coeffs_cr"} -> Octets(b, at, NumPosChroma(h), 128)
    [] OTHER -> <<U(b, at, Width(e, h, s)), Width(e, h, s)>>

(* An element that is not there: a flag or number counts as 0 and a list   *)
(* as empty, but for these.                                                *)
FrameAbsent(e, h, s) ==
  CASE e = "show_frame" -> 1
    [] e = "showable_frame" -> IF h.frame_type = KEY_FRAME THEN 0 ELSE 1
    [] e = "error_resilient_mode" -> 1 - s.reduced_still_picture_header
    [] e = "allow_screen_content_tools" -> s.seq_force_screen_content_tools
    [] e = "refresh_frame_flags" -> 255
    [] e = "frame_width_minus_1" -> s.max_frame_width_minus_1
    [] e = "frame_height_minus_1" -> s.max_frame_height_minus_1
    [] e = "disable_frame_end_update_cdf" -> 1
    [] e = "tile_cols_log2" -> tile_log2(1, Len(h.tile_widths))
    [] e = "tile_rows_log2" -> tile_log2(1, Len(h.tile_heights))
    [] e = "delta_q_v_dc" -> h.delta_q_u_dc
    [] e = "delta_q_v_ac" -> h.delta_q_u_ac
    [] e = "qm_v" -> h.qm_u
    [] e = "loop_filter_deltas" -> LoopFilterDeltas
    [] e \in {"features", "tile_widths", "tile_heights", "cdef_strengths", "lr_type",
              "point_y", "point_cb", "point_cr", "ar_coeffs_y", "ar_coeffs_cb",
              "ar_coeffs_cr"} -> <<>>
    [] OTHER -> 0

(* temporal_point_info is refused where it is there.                       *)
FrameAccepts(e, h, v) ==
  CASE e = "show_existing_frame" -> v = 0
    [] e = "frame_type" -> v \in {KEY_FRAME, INTRA_ONLY_FRAME}
    [] e = "temporal_point_info" -> v = 0
    [] e = "tile_widths" -> Len(v) <= MAX_TILE_COLS
    [] e = "tile_heights" -> Len(v) <= MAX_TILE_ROWS
    [] e = "num_y_points" -> v <= 14
    [] e \in {"num_cb_points", "num_cr_points"} -> v <= 10
    [] OTHER -> TRUE

FrameReadOrAbsent(e, b, at, h, s) ==
  IF FramePresent(e, h, s) THEN FrameRead(e, b, at, h, s) ELSE <<FrameAbsent(e, h, s), 0>>

(* [ok, h, header_bytes]; the alignment has to be there as well.           *)
ParseFrameHeader(payload, s) ==
  LET header(b, p) ==
        [ok |-> p.ok /\ AlignToByte(p.at) <= End(b), h |-> p.h,
         header_bytes |-> AlignToByte(p.at) \div 8]
      of(b) == header(b, Parse(FrameElements, b,
                               LAMBDA e, h, at : FrameReadOrAbsent(e, b, at, h, s),
                               FrameAccepts))
  IN of(BitsOf(payload))

-----------------------------------------------------------------------------
(* parse_tile_group                                                        *)

TileCols(h, s) == Len(Columns(h, s))
NumTiles(h, s) == TileCols(h, s) * Len(Rows(h, s))

(* Its range and where its first tile begins: [first, last, pos].          *)
GroupRange(b, h, num_tiles) ==
  LET bits == h.tile_cols_log2 + h.tile_rows_log2
  IN IF num_tiles > 1 /\ Flag(b, 0) = 1
     THEN [first |-> U(b, 1, bits), last |-> U(b, 1 + bits, bits),
           pos |-> AlignToByte(1 + 2 * bits) \div 8]
     ELSE [first |-> 0, last |-> num_tiles - 1, pos |-> IF num_tiles > 1 THEN 1 ELSE 0]

CodedSize(data, pos, bytes) ==
  LET size[i \in 0..bytes] ==
        IF i = 0 THEN 1 ELSE size[i - 1] + data[pos + i] * 256^(i - 1)
  IN size[bytes]

(* The tile at byte pos of the group; the last one takes what is left.     *)
TakeTile(acc, data, n, last, h, cols) ==
  LET field == IF n = last THEN 0 ELSE h.tile_size_bytes_minus_1 + 1
      pos == acc.pos + field
      size == IF n = last THEN Len(data) - pos ELSE CodedSize(data, acc.pos, field)
      fits == pos <= Len(data) /\ size > 0 /\ pos + size <= Len(data)
  IN IF acc.ok /\ fits
     THEN [ok |-> TRUE, pos |-> pos + size,
           tiles |-> Append(acc.tiles,
                            [row |-> n \div cols, column |-> n % cols,
                             data |-> SubSeq(data, pos + 1, pos + size)])]
     ELSE [acc EXCEPT !.ok = FALSE]

(* [ok, tiles]                                                             *)
TilesOf(data, range, h, num_tiles, cols) ==
  LET tiles[n \in Int] ==
        IF n < range.first THEN [ok |-> TRUE, pos |-> range.pos, tiles |-> <<>>]
        ELSE TakeTile(tiles[n - 1], data, n, range.last, h, cols)
      sound == range.first <= range.last /\ range.last < num_tiles
                 /\ range.pos <= Len(data)
  IN IF sound THEN tiles[range.last] ELSE [ok |-> FALSE, tiles |-> <<>>]

ParseTileGroup(data, h, s) ==
  TilesOf(data, GroupRange(BitsOf(data), h, NumTiles(h, s)), h, NumTiles(h, s), TileCols(h, s))

=============================================================================
