----------------------------- MODULE HevcStream -----------------------------
(***************************************************************************)
(* decode_hevc (crates/rawshift-hwdec/src/vaapi/mod.rs) but for the driver *)
(* calls: the walk over the NAL units of the hvcC record and of the        *)
(* payload, the headers (module HevcHeaders), the buffers made of them and *)
(* the window that is read back.                                           *)
(* What VaapiDecoder knows of a request as `scope` and `headers` is what   *)
(* fails here.  A NAL unit is its bytes.                                   *)
(***************************************************************************)
EXTENDS HevcHeaders, SequencesExt

CONSTANTS
  Streams,
  None,       \* no value; a source of which nothing is known
  OutOfScope  \* the source of a stream this decoder does not do

VARIABLES
  stream,    \* [hvcc, payload: sequences of NAL units, source], fixed
  next,      \* the NAL unit the walk is at
  sps, pps,  \* the last ones seen, or None
  slices,    \* the slice segments seen
  headers,   \* their headers, parsed so far
  pic_param, \* the picture parameter buffer, or None
  params,    \* the slice parameter buffers made so far
  frame,     \* [window, full_range] of the picture read back, or None
  pc         \* "walk", "headers", "slices", "read", "done" or "failed"

vars == <<stream, next, sps, pps, slices, headers, pic_param, params, frame, pc>>

E == INSTANCE H265Syntax

Nals == stream.hvcc \o stream.payload

Init ==
  /\ stream \in Streams
  /\ next = 1
  /\ sps = None /\ pps = None
  /\ slices = <<>> /\ headers = <<>> /\ params = <<>>
  /\ pic_param = None /\ frame = None
  /\ pc = "walk"

-----------------------------------------------------------------------------
(* The walk: "later ones win (in-band overrides)".                         *)

Walking == pc = "walk" /\ next <= Len(Nals)
Nal == Nals[next]

(* A type the forbidden bit does not hide.                                 *)
HasType(nal) == nal # <<>> /\ nal[1] < 128

At(types) == Walking /\ HasType(Nal) /\ NalType(Nal) \in types

TakeSps ==
  /\ At({33})
  /\ \E parsed \in {parse_sps(Nal)} :
       IF parsed.ok
       THEN sps' = parsed.h /\ next' = next + 1 /\ UNCHANGED pc
       ELSE pc' = "failed" /\ UNCHANGED <<sps, next>>
  /\ UNCHANGED <<stream, pps, slices, headers, pic_param, params, frame>>

(* Mutant: the record's parameter set is kept when one comes in band.      *)
TakePps_FirstWins ==
  /\ At({34})
  /\ \E parsed \in {parse_pps(Nal)} :
       IF parsed.ok
       THEN pps' = (IF pps = None THEN parsed.h ELSE pps) /\ next' = next + 1 /\ UNCHANGED pc
       ELSE pc' = "failed" /\ UNCHANGED <<pps, next>>
  /\ UNCHANGED <<stream, sps, slices, headers, pic_param, params, frame>>

TakePps ==
  /\ At({34})
  /\ \E parsed \in {parse_pps(Nal)} :
       IF parsed.ok
       THEN pps' = parsed.h /\ next' = next + 1 /\ UNCHANGED pc
       ELSE pc' = "failed" /\ UNCHANGED <<pps, next>>
  /\ UNCHANGED <<stream, sps, slices, headers, pic_param, params, frame>>

TakeSlice ==
  /\ Walking /\ HasType(Nal) /\ is_irap(NalType(Nal))
  /\ slices' = Append(slices, Nal)
  /\ next' = next + 1
  /\ UNCHANGED <<stream, sps, pps, headers, pic_param, params, frame, pc>>

(* VPS, SEI and other types from 32 on.                                    *)
TakeOther ==
  /\ At((32..63) \ {33, 34})
  /\ next' = next + 1
  /\ UNCHANGED <<stream, sps, pps, slices, headers, pic_param, params, frame, pc>>

(* Of no type, or a coded slice that is not of a random access picture.    *)
RefuseNal ==
  /\ Walking
  /\ HasType(Nal) => NalType(Nal) < 32 /\ ~is_irap(NalType(Nal))
  /\ pc' = "failed"
  /\ UNCHANGED <<stream, next, sps, pps, slices, headers, pic_param, params, frame>>

Deeper(set) ==
  LET luma == set.bit_depth_luma_minus8
      chroma == set.bit_depth_chroma_minus8
  IN 8 + (IF luma > chroma THEN luma ELSE chroma)

(* Complete, 4:2:0 or monochrome, at most 10 bits.                         *)
InScope ==
  /\ sps # None /\ pps # None /\ slices # <<>>
  /\ sps.chroma_format_idc <= 1
  /\ Deeper(sps) \in 8..10

EndOfStream ==
  /\ pc = "walk" /\ next > Len(Nals)
  /\ pc' = IF InScope THEN "headers" ELSE "failed"
  /\ UNCHANGED <<stream, next, sps, pps, slices, headers, pic_param, params, frame>>

-----------------------------------------------------------------------------
(* Every slice header, before the GPU is touched.                          *)

ParseHeader ==
  /\ pc = "headers" /\ Len(headers) < Len(slices)
  /\ LET slice == slices[Len(headers) + 1] IN
     \E parsed \in {ParseSliceHeader(slice, sps, pps)} :
       IF parsed.ok
       THEN headers' = Append(headers, parsed) /\ UNCHANGED pc
       ELSE pc' = "failed" /\ UNCHANGED headers
  /\ UNCHANGED <<stream, next, sps, pps, slices, pic_param, params, frame>>

(* Explicit sizes, and what they leave for the last tile; negative is an   *)
(* error.                                                                  *)
ExplicitPartition(total, sizes) ==
  LET used[i \in 0..Len(sizes)] == IF i = 0 THEN 0 ELSE used[i - 1] + sizes[i] + 1
  IN Append(sizes, total - (used[Len(sizes)] + 1))

Partition(total, sizes, count) ==
  IF pps.tiles_enabled = 0 THEN <<>>
  ELSE IF pps.uniform_spacing = 1 THEN UniformPartition(total, count)
  ELSE ExplicitPartition(total, sizes)

Columns == Partition(CtbsWide(sps), pps.column_widths_minus1, pps.num_tile_columns_minus1 + 1)
Rows == Partition(CtbsHigh(sps), pps.row_heights_minus1, pps.num_tile_rows_minus1 + 1)

(* Bits, the lowest first.                                                 *)
Word(bits) == FoldLeftDomain(LAMBDA word, i : word + bits[i] * 2^(i - 1), 0, bits)
Bit(condition) == IF condition THEN 1 ELSE 0

(* separate_colour_plane_flag is 0; the last two are that no picture is    *)
(* reordered, none predicted in two directions.                            *)
PicFields ==
  sps.chroma_format_idc
    + 8 * Word(<<sps.pcm_enabled, sps.scaling_list_enabled, pps.transform_skip_enabled,
                 sps.amp_enabled, sps.strong_intra_smoothing_enabled,
                 pps.sign_data_hiding_enabled, pps.constrained_intra_pred,
                 pps.cu_qp_delta_enabled, pps.weighted_pred, pps.weighted_bipred,
                 pps.transquant_bypass_enabled, pps.tiles_enabled,
                 pps.entropy_coding_sync_enabled, pps.pps_loop_filter_across_slices_enabled,
                 pps.loop_filter_across_tiles_enabled, sps.pcm_loop_filter_disabled, 1, 1>>)

SliceParsing(type) ==
  Word(<<pps.lists_modification_present, sps.long_term_ref_pics_present,
         sps.sps_temporal_mvp_enabled, pps.cabac_init_present, pps.output_flag_present,
         pps.dependent_slice_segments_enabled, pps.pps_slice_chroma_qp_offsets_present,
         sps.sample_adaptive_offset_enabled, pps.deblocking_filter_override_enabled,
         pps.pps_deblocking_filter_disabled, pps.slice_segment_header_extension_present,
         Bit(type \in 16..21), Bit(is_idr(type)), 1>>)

(* What the buffer takes over as it is.                                    *)
FromSps ==
  {"pic_width_in_luma_samples", "pic_height_in_luma_samples",
   "sps_max_dec_pic_buffering_minus1", "bit_depth_luma_minus8", "bit_depth_chroma_minus8",
   "pcm_sample_bit_depth_luma_minus1", "pcm_sample_bit_depth_chroma_minus1",
   "log2_min_luma_coding_block_size_minus3", "log2_diff_max_min_luma_coding_block_size",
   "log2_min_transform_block_size_minus2", "log2_diff_max_min_transform_block_size",
   "log2_min_pcm_luma_coding_block_size_minus3",
   "log2_diff_max_min_pcm_luma_coding_block_size", "max_transform_hierarchy_depth_intra",
   "max_transform_hierarchy_depth_inter", "log2_max_pic_order_cnt_lsb_minus4",
   "num_short_term_ref_pic_sets", "num_long_term_ref_pics_sps"}
FromPps ==
  {"init_qp_minus26", "diff_cu_qp_delta_depth", "pps_cb_qp_offset", "pps_cr_qp_offset",
   "log2_parallel_merge_level_minus2", "num_tile_columns_minus1", "num_tile_rows_minus1",
   "num_ref_idx_l0_default_active_minus1", "num_ref_idx_l1_default_active_minus1",
   "pps_beta_offset_div2", "pps_tc_offset_div2", "num_extra_slice_header_bits"}

build_pic_param(type, st_rps_bits) ==
  [name \in FromSps |-> sps[name]] @@ [name \in FromPps |-> pps[name]]
    @@ [pic_fields |-> PicFields, slice_parsing_fields |-> SliceParsing(type),
        column_width_minus1 |-> Columns, row_height_minus1 |-> Rows,
        st_rps_bits |-> st_rps_bits]

(* With st_rps_bits of the first independent segment, and the type of the  *)
(* first segment.                                                          *)
BuildPicParam ==
  LET independent == SelectSeq(headers, LAMBDA header : header.h.dependent = 0)
      bits == IF independent = <<>> THEN 0 ELSE Head(independent).h.rps
      exceeds == pps.tiles_enabled = 1 /\ (Last(Columns) < 0 \/ Last(Rows) < 0)
                   /\ pps.uniform_spacing = 0
  IN
  /\ pc = "headers" /\ Len(headers) = Len(slices)
  /\ IF exceeds
     THEN pc' = "failed" /\ UNCHANGED pic_param
     ELSE pc' = "slices" /\ pic_param' = build_pic_param(NalType(slices[1]), bits)
  /\ UNCHANGED <<stream, next, sps, pps, slices, headers, params, frame>>

(* build_slice_param, as far as the header goes into it.                   *)
SliceParam(header, last) ==
  [slice_type |-> header.h.slice_type,
   last       |-> last,
   header     |-> header.h,
   ref_idx    |-> <<pps.num_ref_idx_l0_default_active_minus1,
                    pps.num_ref_idx_l1_default_active_minus1>>,
   byte_offset |-> header.byte_offset,
   emu        |-> header.emu]

PushSlice ==
  LET i == Len(params) + 1 IN
  /\ pc = "slices" /\ i <= Len(slices)
  /\ params' = Append(params, SliceParam(headers[i], i = Len(slices)))
  /\ pc' = IF i = Len(slices) THEN "read" ELSE pc
  /\ UNCHANGED <<stream, next, sps, pps, slices, headers, pic_param, frame>>

(* Behind submit: what of the surface is read.                             *)
ReadBack ==
  /\ pc = "read"
  /\ IF Window(sps).w = 0 \/ Window(sps).h = 0
     THEN pc' = "failed" /\ UNCHANGED frame
     ELSE /\ pc' = "done"
          /\ frame' = [window |-> Window(sps), depth |-> Deeper(sps),
                       full_range |-> sps.video_full_range = 1]
  /\ UNCHANGED <<stream, next, sps, pps, slices, headers, pic_param, params>>

Next ==
  \/ TakeSps \/ TakePps \/ TakeSlice \/ TakeOther \/ RefuseNal \/ EndOfStream
  \/ ParseHeader \/ BuildPicParam \/ PushSlice \/ ReadBack

Spec == Init /\ [][Next]_vars

-----------------------------------------------------------------------------
(* What a driver reads out of the picture parameters, in the terms of      *)
(* H265Syntax: the bits of its two words by name, from the lowest on.      *)

PicFlagNames ==
  <<"pcm", "scaling_list", "transform_skip", "amp", "strong_intra_smoothing",
    "sign_data_hiding", "constrained_intra_pred", "cu_qp_delta", "weighted_pred",
    "weighted_bipred", "transquant_bypass", "tiles", "entropy_sync",
    "loop_filter_across_slices", "loop_filter_across_tiles", "pcm_no_filter",
    "no_reordering", "no_bi_pred">>
SliceFlagNames ==
  <<"lists_modification", "long_term", "temporal_mvp", "cabac_init", "output_flag",
    "dependent", "slice_chroma_qp", "sao", "deblocking_override", "deblocking_disabled",
    "header_extension", "rap", "idr", "intra">>

Named(word, names) == {names[i] : i \in {j \in DOMAIN names : (word \div 2^(j - 1)) % 2 = 1}}

DriverPicture(b) ==
  [size |-> <<b.pic_width_in_luma_samples, b.pic_height_in_luma_samples>>,
   chroma_format_idc |-> b.pic_fields % 4,
   flags |-> Named(b.pic_fields \div 8, PicFlagNames)
               \cup Named(b.slice_parsing_fields, SliceFlagNames),
   depths |-> <<b.bit_depth_luma_minus8 + 8, b.bit_depth_chroma_minus8 + 8>>,
   max_dec_pic_buffering_minus1 |-> b.sps_max_dec_pic_buffering_minus1,
   blocks |-> <<b.log2_min_luma_coding_block_size_minus3,
                b.log2_diff_max_min_luma_coding_block_size,
                b.log2_min_transform_block_size_minus2, b.log2_diff_max_min_transform_block_size,
                b.max_transform_hierarchy_depth_inter, b.max_transform_hierarchy_depth_intra>>,
   pcm |-> <<b.pcm_sample_bit_depth_luma_minus1 + 1, b.pcm_sample_bit_depth_chroma_minus1 + 1,
             b.log2_min_pcm_luma_coding_block_size_minus3,
             b.log2_diff_max_min_pcm_luma_coding_block_size>>,
   init_qp |-> b.init_qp_minus26 + 26, cu_qp_delta_depth |-> b.diff_cu_qp_delta_depth,
   qp_offsets |-> <<b.pps_cb_qp_offset, b.pps_cr_qp_offset>>,
   merge_level |-> b.log2_parallel_merge_level_minus2 + 2,
   tiles |-> <<b.num_tile_columns_minus1 + 1, b.num_tile_rows_minus1 + 1>>,
   log2_max_poc_lsb |-> b.log2_max_pic_order_cnt_lsb_minus4 + 4,
   sets |-> <<b.num_short_term_ref_pic_sets, b.num_long_term_ref_pics_sps>>,
   ref_idx |-> <<b.num_ref_idx_l0_default_active_minus1,
                 b.num_ref_idx_l1_default_active_minus1>>,
   offsets |-> <<b.pps_beta_offset_div2, b.pps_tc_offset_div2>>,
   extra_bits |-> b.num_extra_slice_header_bits]

-----------------------------------------------------------------------------

(* A conforming stream says what went into it: the parameter sets that     *)
(* hold and the type of the picture, and of each slice segment `header`,   *)
(* with the values H.265 gives an element that is not coded, the length of *)
(* its explicit reference picture set, and `data`, the offset of its slice *)
(* data in the NAL unit.                                                   *)
Conforming == stream.source \notin {None, OutOfScope}

(* "such streams fail ... rather than decoding incorrectly" (hevc.rs): one *)
(* outside the scope, or that breaks a limit of it, never gets to the      *)
(* driver's result, and one inside it is never refused.                    *)
(* (SPS extensions, which the code does not look for, are not among them.) *)
AcceptsConforming ==
  /\ Conforming => pc # "failed"
  /\ stream.source = OutOfScope => pc # "done"

(* parse_sps, parse_pps and parse_slice_header read everything as it was   *)
(* written, whichever elements the sets switch on and however many bits    *)
(* are skipped: the buffers tell the driver the picture the encoder meant, *)
(* every segment of it, and what is read back is the window it meant.      *)
(* (Deblocking offsets of slices that leave them to the PPS are not asked  *)
(* for: the code leaves them at zero.)                                     *)
PictureExact ==
  LET s == stream.source.sps
      p == stream.source.pps
  IN /\ pic_param # None =>
          /\ DriverPicture(pic_param) = E!PictureOf(s, p, stream.source.type)
          /\ pic_param.st_rps_bits = stream.source.segments[1].rps_bits
     /\ frame # None => frame = [window |-> E!WindowOf(s), full_range |-> E!FullRange(s),
                                 depth |-> IF s.depth > s.depth_chroma THEN s.depth
                                           ELSE s.depth_chroma]

SegmentExact(i) ==
  LET g == stream.source.segments[i].header
      h == params[i].header
  IN /\ h.first = (IF g.first THEN 1 ELSE 0)
     /\ h.dependent = g.dependent /\ h.address = g.address
     /\ h.entry_points = g.entry_points
     /\ params[i].last = (i = Len(stream.source.segments))
     /\ g.dependent = 0 =>
          /\ h.temporal_mvp = g.temporal_mvp
          /\ h.sao_luma = g.sao_luma /\ h.sao_chroma = g.sao_chroma
          /\ h.qp_delta = g.qp_delta
          /\ h.cb_qp_offset = g.cb_qp_offset /\ h.cr_qp_offset = g.cr_qp_offset
          /\ h.deblocking_disabled = g.deblocking_disabled
          /\ g.deblocking_override = 1 /\ g.deblocking_disabled = 0 =>
               h.beta_offset = g.beta_offset /\ h.tc_offset = g.tc_offset
          /\ h.loop_filter_across = g.loop_filter_across
          /\ h.rps = stream.source.segments[i].rps_bits

HeadersExact ==
  Conforming => PictureExact /\ \A i \in DOMAIN params : SegmentExact(i)

(* "so byte offsets in the RBSP can be related back to the escaped stream" *)
(* (bits.rs): slice_data_byte_offset counts de-escaped bytes, and with the *)
(* emulation prevention bytes the driver is told of it is exactly where    *)
(* the slice data begins in the bytes the driver gets.                     *)
DataOffsetExact ==
  Conforming =>
    \A i \in DOMAIN params :
      params[i].byte_offset + params[i].emu = stream.source.segments[i].data

(* The tiles the driver is told of partition the picture: no size is       *)
(* negative (a u32 that wraps) and together they are its CTBs.             *)
TilesCoverPicture ==
  LET sum(s) ==
        LET upTo[i \in 0..Len(s)] == IF i = 0 THEN 0 ELSE upTo[i - 1] + s[i] + 1
        IN upTo[Len(s)]
      cover(sizes, total) ==
        (\A i \in DOMAIN sizes : sizes[i] >= 0) /\ sum(sizes) = total
  IN pic_param # None /\ pps.tiles_enabled = 1 =>
       /\ cover(pic_param.column_width_minus1, CtbsWide(sps))
       /\ cover(pic_param.row_height_minus1, CtbsHigh(sps))

=============================================================================
