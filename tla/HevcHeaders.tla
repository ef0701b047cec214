----------------------------- MODULE HevcHeaders -----------------------------
(***************************************************************************)
(* How the VAAPI backend reads HEVC headers: parse_sps, parse_pps and      *)
(* parse_slice_header of vaapi/hevc.rs, over the bit reader of VaapiBits.  *)
(*                                                                         *)
(* A parameter set is a record h of the values of its syntax elements,     *)
(* named as in the code, flags being 0 or 1; elements the code reads and   *)
(* forgets have a name too.                                                *)
(***************************************************************************)
EXTENDS VaapiBits

(* Behind the two bytes of the NAL header.                                 *)
PayloadOf(nal) == Rbsp(SubSeq(nal, 3, Len(nal)))

AfterUe(b, at) == at + Ue(b, at)[2]

-----------------------------------------------------------------------------
(* parse_st_ref_pic_set: <<NumDeltaPocs, the position behind it>>; past    *)
(* the end is an error.                                                    *)

(* An entry is used, or has a delta, or is neither.                        *)
PredictedSet(b, at, entries) ==
  LET entry(acc) ==
        IF Flag(b, acc[2]) = 1 THEN <<acc[1] + 1, acc[2] + 1>>
        ELSE <<acc[1] + Flag(b, acc[2] + 1), acc[2] + 2>>
      read[i \in 0..entries] == IF i = 0 THEN <<0, at>> ELSE entry(read[i - 1])
  IN read[entries]

ListedSet(b, at, negative, positive) ==
  LET read[i \in 0..(negative + positive)] ==
        IF i = 0 THEN at ELSE AfterUe(b, read[i - 1]) + 1
  IN IF negative > 16 \/ positive > 16 THEN Overrun(b)
     ELSE <<negative + positive, read[negative + positive]>>

(* From the set delta[1] + 1 before it, at + delta[2] being the sign.      *)
SetPredictedFrom(b, at, delta, idx, num_delta_pocs) ==
  LET ref_idx == idx - (delta[1] + 1) IN
  IF ref_idx < 0 THEN Overrun(b)
  ELSE PredictedSet(b, AfterUe(b, at + delta[2] + 1), num_delta_pocs[ref_idx + 1] + 1)

parse_st_ref_pic_set(b, at, idx, num_sets, num_delta_pocs) ==
  LET start == IF idx # 0 THEN at + 1 ELSE at
      negative == Ue(b, start)
      positive == Ue(b, start + negative[2])
      delta == IF idx = num_sets THEN Ue(b, start) ELSE <<0, 0>>
  IN IF idx # 0 /\ Flag(b, at) = 1
     THEN SetPredictedFrom(b, start, delta, idx, num_delta_pocs)
     ELSE ListedSet(b, start + negative[2] + positive[2], negative[1], positive[1])

-----------------------------------------------------------------------------
(* The parts of an SPS that are more than an element.                      *)

(* skip_profile_tier_level: the position behind it.  A profile or a level  *)
(* of each sub-layer behind the flags of all.                              *)
AfterProfileTierLevel(b, at, sub_layers) ==
  LET flags == at + 96
      read[i \in 0..sub_layers] ==
        IF i = 0 THEN flags + (IF sub_layers > 0 THEN 16 ELSE 0)
        ELSE read[i - 1] + 88 * Flag(b, flags + 2 * i - 2) + 8 * Flag(b, flags + 2 * i - 1)
  IN read[sub_layers]

(* <<max_dec_pic_buffering_minus1 of the last, the position behind>>.      *)
OrderingInfo(b, at, layers) ==
  LET with(buffering, p) ==
        IF buffering[1] > 15 THEN Overrun(b)
        ELSE <<buffering[1], AfterUe(b, AfterUe(b, p + buffering[2]))>>
      layer(acc) == with(Ue(b, acc[2]), acc[2])
      read[i \in 0..layers] == IF i = 0 THEN <<0, at>> ELSE layer(read[i - 1])
  IN read[layers]

(* <<num_delta_pocs, the position behind>>.                                *)
RefPicSets(b, at, num_sets) ==
  LET with(pocs, set) == <<Append(pocs, set[1]), set[2]>>
      set(acc) == with(acc[1], parse_st_ref_pic_set(b, acc[2], Len(acc[1]), num_sets, acc[1]))
      read[i \in 0..num_sets] == IF i = 0 THEN <<<<>>, at>> ELSE set(read[i - 1])
  IN read[num_sets]

(* <<value, position>> as <<value, length>>.                               *)
ReadFrom(at, read) == <<read[1], read[2] - at>>

-----------------------------------------------------------------------------
(* parse_sps, with parse_vui_full_range behind vui_parameters_present.     *)

SpsElements ==
  <<"vps_id", "max_sub_layers_minus1", "temporal_id_nesting", "profile_tier_level",
    "sps_id", "chroma_format_idc", "separate_colour_plane",
    "pic_width_in_luma_samples", "pic_height_in_luma_samples",
    "conformance_window", "crop_left", "crop_right", "crop_top", "crop_bottom",
    "bit_depth_luma_minus8", "bit_depth_chroma_minus8", "log2_max_pic_order_cnt_lsb_minus4",
    "ordering_info_present", "sps_max_dec_pic_buffering_minus1",
    "log2_min_luma_coding_block_size_minus3", "log2_diff_max_min_luma_coding_block_size",
    "log2_min_transform_block_size_minus2", "log2_diff_max_min_transform_block_size",
    "max_transform_hierarchy_depth_inter", "max_transform_hierarchy_depth_intra",
    "scaling_list_enabled", "amp_enabled", "sample_adaptive_offset_enabled", "pcm_enabled",
    "pcm_sample_bit_depth_luma_minus1", "pcm_sample_bit_depth_chroma_minus1",
    "log2_min_pcm_luma_coding_block_size_minus3",
    "log2_diff_max_min_pcm_luma_coding_block_size", "pcm_loop_filter_disabled",
    "num_short_term_ref_pic_sets", "num_delta_pocs",
    "long_term_ref_pics_present", "num_long_term_ref_pics_sps", "lt_ref_pics",
    "sps_temporal_mvp_enabled", "strong_intra_smoothing_enabled",
    "vui_parameters_present", "aspect_ratio_info_present", "aspect_ratio_idc", "sar",
    "overscan_info_present", "overscan_appropriate",
    "video_signal_type_present", "video_format", "video_full_range">>

(* Elements that are there exactly if another one is set.                  *)
SpsCondition ==
  [crop_left |-> "conformance_window", crop_right |-> "conformance_window",
   crop_top |-> "conformance_window", crop_bottom |-> "conformance_window",
   pcm_sample_bit_depth_luma_minus1 |-> "pcm_enabled",
   pcm_sample_bit_depth_chroma_minus1 |-> "pcm_enabled",
   log2_min_pcm_luma_coding_block_size_minus3 |-> "pcm_enabled",
   log2_diff_max_min_pcm_luma_coding_block_size |-> "pcm_enabled",
   pcm_loop_filter_disabled |-> "pcm_enabled",
   num_long_term_ref_pics_sps |-> "long_term_ref_pics_present",
   lt_ref_pics |-> "long_term_ref_pics_present",
   aspect_ratio_info_present |-> "vui_parameters_present",
   aspect_ratio_idc |-> "aspect_ratio_info_present",
   overscan_info_present |-> "vui_parameters_present",
   overscan_appropriate |-> "overscan_info_present",
   video_signal_type_present |-> "vui_parameters_present",
   video_format |-> "video_signal_type_present",
   video_full_range |-> "video_signal_type_present"]

SpsPresent(e, h) ==
  /\ e \in DOMAIN SpsCondition => h[SpsCondition[e]] = 1
  /\ e = "separate_colour_plane" => h.chroma_format_idc = 3
  /\ e = "sar" => h.aspect_ratio_idc = 255

(* ue(v), with the most the code takes; crops have no bound.               *)
SpsMost ==
  [sps_id |-> 15, chroma_format_idc |-> 3,
   pic_width_in_luma_samples |-> 16888, pic_height_in_luma_samples |-> 16888,
   bit_depth_luma_minus8 |-> 8, bit_depth_chroma_minus8 |-> 8,
   log2_max_pic_order_cnt_lsb_minus4 |-> 12,
   log2_min_luma_coding_block_size_minus3 |-> 3,
   log2_diff_max_min_luma_coding_block_size |-> 3,
   log2_min_transform_block_size_minus2 |-> 3,
   log2_diff_max_min_transform_block_size |-> 3,
   max_transform_hierarchy_depth_inter |-> 4, max_transform_hierarchy_depth_intra |-> 4,
   log2_min_pcm_luma_coding_block_size_minus3 |-> 2,
   log2_diff_max_min_pcm_luma_coding_block_size |-> 2,
   num_short_term_ref_pic_sets |-> 64, num_long_term_ref_pics_sps |-> 32]
Crops == {"crop_left", "crop_right", "crop_top", "crop_bottom"}

(* u(n) of more than a bit.                                                *)
SpsBits ==
  [vps_id |-> 4, max_sub_layers_minus1 |-> 3, pcm_sample_bit_depth_luma_minus1 |-> 4,
   pcm_sample_bit_depth_chroma_minus1 |-> 4, aspect_ratio_idc |-> 8, video_format |-> 3]

SpsRead(e, b, at, h) ==
  CASE e \in DOMAIN SpsMost \cup Crops -> Ue(b, at)
    [] e \in DOMAIN SpsBits -> <<U(b, at, SpsBits[e]), SpsBits[e]>>
    [] e = "profile_tier_level" ->
         Skip(AfterProfileTierLevel(b, at, h.max_sub_layers_minus1) - at)
    [] e = "sps_max_dec_pic_buffering_minus1" ->
         ReadFrom(at, OrderingInfo(b, at, IF h.ordering_info_present = 1
                                          THEN h.max_sub_layers_minus1 + 1 ELSE 1))
    [] e = "num_delta_pocs" ->
         ReadFrom(at, RefPicSets(b, at, h.num_short_term_ref_pic_sets))
    [] e = "lt_ref_pics" ->
         Skip(h.num_long_term_ref_pics_sps * (h.log2_max_pic_order_cnt_lsb_minus4 + 5))
    [] e = "sar" -> Skip(32)
    [] OTHER -> <<U(b, at, 1), 1>>

SpsReadOrAbsent(e, b, at, h) == IF SpsPresent(e, h) THEN SpsRead(e, b, at, h) ELSE <<0, 0>>

(* Scaling lists and separate planes are outside the scope.                *)
SpsAccepts(e, v) ==
  /\ e \in DOMAIN SpsMost => v <= SpsMost[e]
  /\ e \in {"pic_width_in_luma_samples", "pic_height_in_luma_samples"} => v # 0
  /\ e = "max_sub_layers_minus1" => v <= 6
  /\ e \in {"separate_colour_plane", "scaling_list_enabled"} => v = 0

(* [ok, h]                                                                 *)
parse_sps(nal) ==
  LET of(b) == Parse(SpsElements, b, LAMBDA e, h, at : SpsReadOrAbsent(e, b, at, h),
                     LAMBDA e, h, v : SpsAccepts(e, v))
  IN of(BitsOf(PayloadOf(nal).data))

(* ctb_log2_size_y, pic_size_in_ctbs                                       *)
CtbSize(sps) ==
  2^(sps.log2_min_luma_coding_block_size_minus3 + 3
       + sps.log2_diff_max_min_luma_coding_block_size)
InCtbs(sps, samples) == (samples + CtbSize(sps) - 1) \div CtbSize(sps)
CtbsWide(sps) == InCtbs(sps, sps.pic_width_in_luma_samples)
CtbsHigh(sps) == InCtbs(sps, sps.pic_height_in_luma_samples)

(* The crops are coded in chroma samples: sub_w, sub_h.                    *)
SubWidth(sps) == IF sps.chroma_format_idc \in {1, 2} THEN 2 ELSE 1
SubHeight(sps) == IF sps.chroma_format_idc = 1 THEN 2 ELSE 1

Left(total, cropped) == IF cropped > total THEN 0 ELSE total - cropped

(* cropped_size, at the corner the crops leave.                            *)
Window(sps) ==
  [x |-> SubWidth(sps) * sps.crop_left, y |-> SubHeight(sps) * sps.crop_top,
   w |-> Left(sps.pic_width_in_luma_samples,
              SubWidth(sps) * (sps.crop_left + sps.crop_right)),
   h |-> Left(sps.pic_height_in_luma_samples,
              SubHeight(sps) * (sps.crop_top + sps.crop_bottom))]

-----------------------------------------------------------------------------
(* parse_pps                                                               *)

PpsElements ==
  <<"pps_id", "sps_id", "dependent_slice_segments_enabled", "output_flag_present",
    "num_extra_slice_header_bits", "sign_data_hiding_enabled", "cabac_init_present",
    "num_ref_idx_l0_default_active_minus1", "num_ref_idx_l1_default_active_minus1",
    "init_qp_minus26", "constrained_intra_pred", "transform_skip_enabled",
    "cu_qp_delta_enabled", "diff_cu_qp_delta_depth", "pps_cb_qp_offset", "pps_cr_qp_offset",
    "pps_slice_chroma_qp_offsets_present", "weighted_pred", "weighted_bipred",
    "transquant_bypass_enabled", "tiles_enabled", "entropy_coding_sync_enabled",
    "num_tile_columns_minus1", "num_tile_rows_minus1", "uniform_spacing",
    "column_widths_minus1", "row_heights_minus1", "loop_filter_across_tiles_enabled",
    "pps_loop_filter_across_slices_enabled",
    "deblocking_filter_control_present", "deblocking_filter_override_enabled",
    "pps_deblocking_filter_disabled", "pps_beta_offset_div2", "pps_tc_offset_div2",
    "pps_scaling_list_data_present", "lists_modification_present",
    "log2_parallel_merge_level_minus2", "slice_segment_header_extension_present",
    "pps_extension_present">>

PpsCondition ==
  [diff_cu_qp_delta_depth |-> "cu_qp_delta_enabled",
   num_tile_columns_minus1 |-> "tiles_enabled", num_tile_rows_minus1 |-> "tiles_enabled",
   uniform_spacing |-> "tiles_enabled", loop_filter_across_tiles_enabled |-> "tiles_enabled",
   deblocking_filter_override_enabled |-> "deblocking_filter_control_present",
   pps_deblocking_filter_disabled |-> "deblocking_filter_control_present",
   pps_beta_offset_div2 |-> "deblocking_filter_control_present",
   pps_tc_offset_div2 |-> "deblocking_filter_control_present"]

PpsPresent(e, h) ==
  /\ e \in DOMAIN PpsCondition => h[PpsCondition[e]] = 1
  /\ e \in {"column_widths_minus1", "row_heights_minus1"} => h.uniform_spacing = 0
  /\ e \in {"pps_beta_offset_div2", "pps_tc_offset_div2"} =>
       h.pps_deblocking_filter_disabled = 0

PpsMost ==
  [pps_id |-> 63, sps_id |-> 15, num_ref_idx_l0_default_active_minus1 |-> 14,
   num_ref_idx_l1_default_active_minus1 |-> 14, diff_cu_qp_delta_depth |-> 3,
   num_tile_columns_minus1 |-> 18, num_tile_rows_minus1 |-> 20,
   log2_parallel_merge_level_minus2 |-> 4]
PpsSigned ==
  {"init_qp_minus26", "pps_cb_qp_offset", "pps_cr_qp_offset", "pps_beta_offset_div2",
   "pps_tc_offset_div2"}

(* <<n sizes, the length of all>>.                                         *)
Sizes(b, at, n) ==
  LET with(sizes, p, size) == <<Append(sizes, size[1]), p + size[2]>>
      next(acc) == with(acc[1], acc[2], Ue(b, acc[2]))
      read[i \in 0..n] == IF i = 0 THEN <<<<>>, at>> ELSE next(read[i - 1])
  IN ReadFrom(at, read[n])

PpsRead(e, b, at, h) ==
  CASE e \in DOMAIN PpsMost -> Ue(b, at)
    [] e \in PpsSigned -> <<Signed(Ue(b, at)[1]), Ue(b, at)[2]>>
    [] e = "num_extra_slice_header_bits" -> <<U(b, at, 3), 3>>
    [] e = "column_widths_minus1" -> Sizes(b, at, h.num_tile_columns_minus1)
    [] e = "row_heights_minus1" -> Sizes(b, at, h.num_tile_rows_minus1)
    [] OTHER -> <<U(b, at, 1), 1>>

PpsAbsent(e) ==
  CASE e \in {"uniform_spacing", "loop_filter_across_tiles_enabled"} -> 1
    [] e \in {"column_widths_minus1", "row_heights_minus1"} -> <<>>
    [] OTHER -> 0

PpsReadOrAbsent(e, b, at, h) ==
  IF PpsPresent(e, h) THEN PpsRead(e, b, at, h) ELSE <<PpsAbsent(e), 0>>

(* clip_i8; scaling lists and extensions are outside the scope.            *)
PpsAccepts(e, v) ==
  /\ e \in DOMAIN PpsMost => v <= PpsMost[e]
  /\ e \in PpsSigned => v \in -128..127
  /\ e \in {"pps_scaling_list_data_present", "pps_extension_present"} => v = 0

(* [ok, h]                                                                 *)
parse_pps(nal) ==
  LET of(b) == Parse(PpsElements, b, LAMBDA e, h, at : PpsReadOrAbsent(e, b, at, h),
                     LAMBDA e, h, v : PpsAccepts(e, v))
  IN of(BitsOf(PayloadOf(nal).data))

-----------------------------------------------------------------------------
(* parse_slice_header is one pass over a list of syntax elements: each has *)
(* a condition under which it is there, a coding and a check.  The three   *)
(* are tables by element name; parsing folds them over the list.           *)


PocLsbBits(sps) == sps.log2_max_pic_order_cnt_lsb_minus4 + 4
SizeInCtbs(sps) == CtbsWide(sps) * CtbsHigh(sps)

-----------------------------------------------------------------------------
(* The skipped structures: the position behind each, given the one before. *)

(* With index num_short_term_ref_pic_sets, one behind those of the SPS.    *)
AfterRefPicSet(b, at, sps) ==
  parse_st_ref_pic_set(b, at, sps.num_short_term_ref_pic_sets,
                       sps.num_short_term_ref_pic_sets, sps.num_delta_pocs)[2]

(* num_long_term_sps = fromSps of the pictures, then those the slice lists. *)
AfterLongTermPics(b, at, sps, fromSps, more) ==
  LET candidates == sps.num_long_term_ref_pics_sps
      entry(i) == IF i > fromSps THEN PocLsbBits(sps) + 1
                  ELSE IF candidates > 1 THEN CeilLog2(candidates) ELSE 0
      msb(p) == IF Flag(b, p) = 1 THEN p + 1 + Ue(b, p + 1)[2] ELSE p + 1
      pictures[i \in Nat] == IF i = 0 THEN at ELSE msb(pictures[i - 1] + entry(i))
  IN IF fromSps > candidates \/ more > 32 THEN End(b) + 1 ELSE pictures[fromSps + more]

AfterLongTerm(b, at, sps) ==
  LET fromSps == IF sps.num_long_term_ref_pics_sps > 0 THEN Ue(b, at) ELSE <<0, 0>>
      more == Ue(b, at + fromSps[2])
  IN AfterLongTermPics(b, at + fromSps[2] + more[2], sps, fromSps[1], more[1])

-----------------------------------------------------------------------------
(* parse_slice_header                                                      *)

Elements ==
  <<"first", "no_output", "pps_id", "dependent", "address",
    "extra_bits", "slice_type", "pic_output",
    "poc_lsb", "rps_from_sps", "rps", "rps_index", "long_term", "temporal_mvp",
    "sao_luma", "sao_chroma", "qp_delta", "cb_qp_offset", "cr_qp_offset",
    "deblocking_override", "deblocking_disabled", "beta_offset", "tc_offset",
    "loop_filter_across",
    "entry_points", "offset_length", "offsets", "extension", "extension_data",
    "alignment">>

OnlyIndependent == {Elements[k] : k \in 6..24}
OnlyNonIdr == {Elements[k] : k \in 9..14}

Present(e, h, sps, pps, idr) ==
  /\ e \in OnlyIndependent => h.dependent = 0
  /\ e \in OnlyNonIdr => ~idr
  /\ CASE e = "dependent" -> h.first = 0 /\ pps.dependent_slice_segments_enabled = 1
       [] e = "address" -> h.first = 0
       [] e = "pic_output" -> pps.output_flag_present = 1
       [] e = "rps" -> h.rps_from_sps = 0
       [] e = "rps_index" -> h.rps_from_sps = 1 /\ sps.num_short_term_ref_pic_sets > 1
       [] e = "long_term" -> sps.long_term_ref_pics_present = 1
       [] e = "temporal_mvp" -> sps.sps_temporal_mvp_enabled = 1
       [] e = "sao_luma" -> sps.sample_adaptive_offset_enabled = 1
       [] e = "sao_chroma" -> sps.sample_adaptive_offset_enabled = 1 /\ sps.chroma_format_idc # 0
       [] e \in {"cb_qp_offset", "cr_qp_offset"} -> pps.pps_slice_chroma_qp_offsets_present = 1
       [] e = "deblocking_override" ->
            pps.deblocking_filter_control_present = 1
              /\ pps.deblocking_filter_override_enabled = 1
       [] e = "deblocking_disabled" -> h.deblocking_override = 1
       [] e \in {"beta_offset", "tc_offset"} ->
            h.deblocking_override = 1 /\ h.deblocking_disabled = 0
       [] e = "loop_filter_across" ->
            pps.pps_loop_filter_across_slices_enabled = 1
              /\ (h.sao_luma = 1 \/ h.sao_chroma = 1 \/ h.deblocking_disabled = 0)
       [] e = "entry_points" -> pps.tiles_enabled = 1 \/ pps.entropy_coding_sync_enabled = 1
       [] e \in {"offset_length", "offsets"} -> h.entry_points > 0
       [] e \in {"extension", "extension_data"} -> pps.slice_segment_header_extension_present = 1
       [] OTHER -> TRUE

(* Value and length of element e at bit `at`; one that is skipped counts   *)
(* as its length.                                                          *)
Read(e, b, at, h, sps, pps) ==
  CASE e \in {"pps_id", "slice_type", "entry_points", "offset_length", "extension"} ->
         Ue(b, at)
    [] e \in {"qp_delta", "cb_qp_offset", "cr_qp_offset", "beta_offset", "tc_offset"} ->
         <<Signed(Ue(b, at)[1]), Ue(b, at)[2]>>
    [] e = "address" ->
         <<U(b, at, CeilLog2(SizeInCtbs(sps))), CeilLog2(SizeInCtbs(sps))>>
    [] e = "extra_bits" -> Skip(pps.num_extra_slice_header_bits)
    [] e = "poc_lsb" -> Skip(PocLsbBits(sps))
    [] e = "rps" -> Skip(AfterRefPicSet(b, at, sps) - at)
    [] e = "rps_index" -> Skip(CeilLog2(sps.num_short_term_ref_pic_sets))
    [] e = "long_term" -> Skip(AfterLongTerm(b, at, sps) - at)
    [] e = "offsets" -> Skip(h.entry_points * (h.offset_length + 1))
    [] e = "extension_data" -> Skip(8 * h.extension)
    [] OTHER -> <<U(b, at, 1), 1>>

(* What an element that is not there counts as.                            *)
Absent(e, h, pps) ==
  IF h.dependent = 1 THEN 0
  ELSE CASE e = "deblocking_disabled" -> pps.pps_deblocking_filter_disabled
         [] e = "loop_filter_across" -> pps.pps_loop_filter_across_slices_enabled
         [] OTHER -> 0

Accepted(e, v, pps) ==
  CASE e = "pps_id" -> v = pps.pps_id
    [] e = "slice_type" -> v = 2
    [] e \in {"qp_delta", "cb_qp_offset", "cr_qp_offset", "beta_offset", "tc_offset"} ->
         v \in -128..127
    [] e = "entry_points" -> v <= 440
    [] e = "offset_length" -> v <= 31
    [] e = "extension" -> v <= 256
    [] e = "alignment" -> v = 1
    [] OTHER -> TRUE

ReadOrAbsent(e, b, at, h, sps, pps, idr) ==
  IF Present(e, h, sps, pps, idr) THEN Read(e, b, at, h, sps, pps)
  ELSE <<Absent(e, h, pps), 0>>

(* An element that is not there has nothing to be accepted.                *)
ParseElements(b, sps, pps, idr) ==
  Parse(Elements, b,
        LAMBDA e, h, at : ReadOrAbsent(e, b, at, h, sps, pps, idr),
        LAMBDA e, h, v : Present(e, h, sps, pps, idr) => Accepted(e, v, pps))

is_irap(type) == type \in 16..23
is_idr(type) == type \in {19, 20}
NalType(nal) == (nal[1] \div 2) % 64

(* [ok, h, byte_offset, emu] of a NAL unit.                                *)
Header(rbsp, p) ==
  LET bytes == (p.at + 7) \div 8
  IN [ok |-> p.ok, h |-> p.h, byte_offset |-> 2 + bytes, emu |-> EpbCountWithin(rbsp, bytes)]

ParseSliceHeader(nal, sps, pps) ==
  LET of(rbsp) ==
        Header(rbsp, ParseElements(BitsOf(rbsp.data), sps, pps, is_idr(NalType(nal))))
  IN of(PayloadOf(nal))

-----------------------------------------------------------------------------
(* uniform_partition_minus1: the sizes minus one of `count` tile columns   *)
(* (or rows) of `total` CTBs.                                              *)

(* Mutant: every tile gets the rounded-down share.                         *)
UniformPartition_Even(total, count) ==
  [i \in 1..count |-> total \div count - 1]

UniformPartition(total, count) ==
  [i \in 1..count |-> (i * total) \div count - ((i - 1) * total) \div count - 1]
=============================================================================
