----------------------------- MODULE H265Syntax ------------------------------
(***************************************************************************)
(* What an encoder writes for the parameter sets and an intra slice        *)
(* segment of a still picture (ITU-T H.265 7.3.2.2, 7.3.2.3, E.2.1,        *)
(* 7.3.6.1), how it protects the bytes (7.4.2), and what the driver has to *)
(* be told of the parameter sets: the reference the parsers in HevcHeaders *)
(* are checked against.  Nothing here comes from them.                     *)
(*                                                                         *)
(* A sequence parameter set is a record s, a picture parameter set a       *)
(* record p, a slice header a record g of syntax element values, in which  *)
(* the reference picture sets, which the decoder skips, are lists of what  *)
(* they are made of.  A part that may be missing is a sequence of length 0 *)
(* or 1, flags nothing depends on are a set of their names.                *)
(***************************************************************************)
EXTENDS Integers, Sequences, SequencesExt

u(n, v) == [k \in 1..n |-> (v \div 2^(n - k)) % 2]
Zeros(n) == [k \in 1..n |-> 0]

(* 9.2: as many zeros as the bits of v + 1 behind its first, then v + 1.   *)
ue(v) ==
  LET n == CHOOSE n \in 0..31 : 2^n <= v + 1 /\ v + 1 < 2^(n + 1)
  IN Zeros(n) \o u(n + 1, v + 1)

se(v) == ue(IF v > 0 THEN 2 * v - 1 ELSE -2 * v)

(* Bits to tell n values apart: Ceil(Log2(n)).                             *)
CodeLength(n) == CHOOSE l \in 0..31 : 2^l >= n /\ (l = 0 \/ 2^(l - 1) < n)

Bool(b) == <<IF b THEN 1 ELSE 0>>
When(c, bits) == IF c THEN bits ELSE <<>>
Each(s, op(_)) == FlattenSeq([i \in DOMAIN s |-> op(s[i])])
Times(n, bits) == FlattenSeq([i \in 1..n |-> bits])

-----------------------------------------------------------------------------
(* 7.3.7: the set of index idx of num, predicted from an earlier one, or   *)
(* listed.  Only a slice header, whose set is the last, says from which.   *)
RefPicSet(set, idx, num) ==
  When(idx # 0, Bool(set.inter))
    \o IF set.inter
       THEN When(idx = num, ue(set.delta_idx_minus1)) \o u(1, 0) \o ue(0)
              \o Each(set.used, LAMBDA x : IF x = "used" THEN <<1>>
                                           ELSE <<0>> \o Bool(x = "delta"))
       ELSE ue(set.negative) \o ue(Len(set.entries) - set.negative)
              \o Each(set.entries, LAMBDA e : ue(e) \o u(1, 1))

(* The pictures of a set.                                                  *)
NumDeltaPocs(set) ==
  IF set.inter THEN Len(SelectSeq(set.used, LAMBDA x : x # "none")) ELSE Len(set.entries)

-----------------------------------------------------------------------------
(* 7.3.3: the profile, then which sub-layers have one, and theirs.         *)
ProfileTierLevel(layers) ==
  u(8, 3) \o u(8, 112) \o Zeros(72) \o u(8, 30)
    \o Each(layers, LAMBDA l : Bool(l.profile) \o Bool(l.level))
    \o When(layers # <<>>, Zeros(2 * (8 - Len(layers))))
    \o Each(layers, LAMBDA l : When(l.profile, Times(44, <<0, 1>>)) \o When(l.level, u(8, 93)))

(* One entry for each layer, or one for all; a lower layer holds less.     *)
Ordering(s) ==
  Bool(s.ordering_info)
    \o When(s.ordering_info, Times(Len(s.sub_layers), ue(0) \o ue(0) \o ue(2)))
    \o ue(s.max_dec_pic_buffering_minus1) \o ue(0) \o ue(1)

Pcm(pcm) ==
  u(4, pcm.depth - 1) \o u(4, pcm.depth_chroma - 1) \o ue(pcm.min) \o ue(pcm.diff)
    \o Bool(pcm.no_filter)

(* E.2.1: aspect is 0 if it is not said and 255 if it has a size; range    *)
(* is "unspecified", "limited" or "full"; no more than that is present.    *)
Vui(v) ==
  Bool(v.aspect # 0) \o When(v.aspect # 0, u(8, v.aspect))
    \o When(v.aspect = 255, u(16, 4) \o u(16, 3))
    \o Bool(v.overscan) \o When(v.overscan, u(1, 1))
    \o Bool(v.range # "unspecified")
    \o When(v.range # "unspecified", u(3, 5) \o Bool(v.range = "full") \o u(1, 0))
    \o Zeros(7)

SeqParameterSet(s) ==
  u(4, 0) \o u(3, Len(s.sub_layers)) \o u(1, 1) \o ProfileTierLevel(s.sub_layers)
    \o ue(0) \o ue(s.chroma_format_idc) \o When(s.chroma_format_idc = 3, u(1, 0))
    \o ue(s.width) \o ue(s.height) \o Bool(s.crop # <<>>) \o Each(s.crop, ue)
    \o ue(s.depth - 8) \o ue(s.depth_chroma - 8) \o ue(s.log2_max_poc_lsb - 4) \o Ordering(s)
    \o Each(s.blocks, ue)
    \o u(1, 0) \o Bool("amp" \in s.flags) \o Bool(s.sao_enabled)
    \o Bool(s.pcm # <<>>) \o Each(s.pcm, Pcm)
    \o ue(Len(s.rps)) \o FlattenSeq([i \in DOMAIN s.rps |-> RefPicSet(s.rps[i], i - 1, Len(s.rps))])
    \o Bool(s.long_term_ref_pics_present)
    \o When(s.long_term_ref_pics_present,
         ue(s.num_long_term_ref_pics_sps)
           \o Times(s.num_long_term_ref_pics_sps, u(s.log2_max_poc_lsb, 5) \o u(1, 1)))
    \o Bool(s.temporal_mvp_enabled) \o Bool("strong_intra_smoothing" \in s.flags)
    \o Bool(s.vui # <<>>) \o Each(s.vui, Vui) \o u(1, 0)

(* The order of s.blocks: least coding block size - 8, the greatest above  *)
(* it, the same of transform blocks, hierarchy depths inter and intra; all *)
(* sizes as logarithms.                                                    *)
CtbSize(s) == 2^(s.blocks[1] + 3 + s.blocks[2])
CtbsWide(s) == (s.width + CtbSize(s) - 1) \div CtbSize(s)
CtbsHigh(s) == (s.height + CtbSize(s) - 1) \div CtbSize(s)

-----------------------------------------------------------------------------
Tiles(p) ==
  ue(p.columns - 1) \o ue(p.rows - 1) \o Bool(p.uniform_spacing)
    \o When(~p.uniform_spacing, Each(p.column_widths, ue) \o Each(p.row_heights, ue))
    \o Bool(p.loop_filter_across_tiles)

Deblocking(p) ==
  Bool(p.deblocking_override_enabled) \o u(1, p.deblocking_disabled)
    \o When(p.deblocking_disabled = 0, se(p.beta_offset) \o se(p.tc_offset))

PicParameterSet(p) ==
  LET flag(name) == Bool(name \in p.flags) IN
  ue(p.pps_id) \o ue(0) \o Bool(p.dependent_enabled) \o Bool(p.output_flag_present)
    \o u(3, p.num_extra_slice_header_bits) \o flag("sign_data_hiding") \o flag("cabac_init")
    \o ue(p.ref_idx[1]) \o ue(p.ref_idx[2]) \o se(p.init_qp - 26)
    \o flag("constrained_intra_pred") \o flag("transform_skip")
    \o Bool(p.cu_qp_delta_depth # <<>>) \o Each(p.cu_qp_delta_depth, ue)
    \o se(p.cb_qp_offset) \o se(p.cr_qp_offset) \o Bool(p.chroma_qp_offsets_present)
    \o flag("weighted_pred") \o flag("weighted_bipred") \o flag("transquant_bypass")
    \o Bool(p.tiles_enabled) \o Bool(p.entropy_sync_enabled) \o When(p.tiles_enabled, Tiles(p))
    \o Bool(p.loop_filter_across)
    \o Bool(p.deblocking_control_present) \o When(p.deblocking_control_present, Deblocking(p))
    \o u(1, 0) \o flag("lists_modification") \o ue(p.merge_level - 2)
    \o Bool(p.header_extension_present) \o u(1, 0)

-----------------------------------------------------------------------------
(* A one, then zeros up to the byte: byte_alignment() behind a header, the *)
(* trailing bits of a parameter set.                                       *)
Aligned(bits) == bits \o <<1>> \o Zeros((-(Len(bits) + 1)) % 8)

Bytes(bits) ==
  [i \in 1..(Len(bits) \div 8) |->
     LET b == SubSeq(bits, 8 * i - 7, 8 * i)
     IN 128 * b[1] + 64 * b[2] + 32 * b[3] + 16 * b[4]
          + 8 * b[5] + 4 * b[6] + 2 * b[7] + b[8]]

(* 7.4.2: within a NAL unit no two zeros are followed by a byte below 4;   *)
(* a 3 is put before it, and behind two zeros that end the unit.           *)
Escape(rbsp) ==
  LET n == Len(rbsp)
      another(zeros) == IF zeros = 2 THEN 1 ELSE zeros + 1
      (* zeros written in a row before byte i *)
      run[i \in 1..(n + 1)] ==
        IF i = 1 \/ rbsp[i - 1] # 0 THEN 0 ELSE another(run[i - 1])
      guarded(i) == run[i] = 2 /\ rbsp[i] <= 3
      written[i \in 0..n] ==
        IF i = 0 THEN <<>>
        ELSE written[i - 1] \o (IF guarded(i) THEN <<3, rbsp[i]>> ELSE <<rbsp[i]>>)
  IN written[n] \o (IF run[n + 1] = 2 THEN <<3>> ELSE <<>>)

-----------------------------------------------------------------------------
(* What a decoder of the picture has to know, with the values that 7.4.3   *)
(* gives what is not coded.  A random access picture of NAL type `type`.   *)

FlagsOf(s, p) ==
  LET on == [pcm |-> s.pcm # <<>>, pcm_no_filter |-> s.pcm # <<>> /\ s.pcm[1].no_filter,
             cu_qp_delta |-> p.cu_qp_delta_depth # <<>>, tiles |-> p.tiles_enabled,
             entropy_sync |-> p.entropy_sync_enabled,
             loop_filter_across_slices |-> p.loop_filter_across,
             loop_filter_across_tiles |-> p.tiles_enabled => p.loop_filter_across_tiles,
             long_term |-> s.long_term_ref_pics_present, temporal_mvp |-> s.temporal_mvp_enabled,
             output_flag |-> p.output_flag_present, dependent |-> p.dependent_enabled,
             slice_chroma_qp |-> p.chroma_qp_offsets_present, sao |-> s.sao_enabled,
             deblocking_override |-> p.deblocking_override_enabled,
             deblocking_disabled |-> p.deblocking_disabled = 1,
             header_extension |-> p.header_extension_present]
  IN s.flags \cup p.flags \cup {name \in DOMAIN on : on[name]}

(* 7.3.1.2: BLA, IDR and CRA are random access pictures, 19 and 20 IDR.    *)
KindsOf(type) ==
  {"intra"} \cup (IF type <= 21 THEN {"rap"} ELSE {})
            \cup (IF type \in {19, 20} THEN {"idr"} ELSE {})

PictureOf(s, p, type) ==
  [size |-> <<s.width, s.height>>, chroma_format_idc |-> s.chroma_format_idc,
   flags |-> FlagsOf(s, p) \cup KindsOf(type) \cup {"no_reordering", "no_bi_pred"},
   depths |-> <<s.depth, s.depth_chroma>>,
   max_dec_pic_buffering_minus1 |-> s.max_dec_pic_buffering_minus1, blocks |-> s.blocks,
   pcm |-> IF s.pcm = <<>> THEN <<1, 1, 0, 0>>
           ELSE <<s.pcm[1].depth, s.pcm[1].depth_chroma, s.pcm[1].min, s.pcm[1].diff>>,
   init_qp |-> p.init_qp,
   cu_qp_delta_depth |-> IF p.cu_qp_delta_depth = <<>> THEN 0 ELSE p.cu_qp_delta_depth[1],
   qp_offsets |-> <<p.cb_qp_offset, p.cr_qp_offset>>, merge_level |-> p.merge_level,
   tiles |-> <<p.columns, p.rows>>,
   log2_max_poc_lsb |-> s.log2_max_poc_lsb,
   sets |-> <<Len(s.rps), s.num_long_term_ref_pics_sps>>, ref_idx |-> p.ref_idx,
   offsets |-> <<p.beta_offset, p.tc_offset>>,
   extra_bits |-> p.num_extra_slice_header_bits]

(* 7.4.3.2.1: the conformance window in samples, and the range of their       *)
(* values, limited unless said otherwise.                                  *)
ChromaUnit(s) ==
  CASE s.chroma_format_idc = 1 -> <<2, 2>>
    [] s.chroma_format_idc = 2 -> <<2, 1>>
    [] OTHER -> <<1, 1>>

WindowOf(s) ==
  LET c == IF s.crop = <<>> THEN <<0, 0, 0, 0>> ELSE s.crop
      unit == ChromaUnit(s)
  IN [x |-> unit[1] * c[1], y |-> unit[2] * c[3],
      w |-> s.width - unit[1] * (c[1] + c[2]), h |-> s.height - unit[2] * (c[3] + c[4])]

FullRange(s) == s.vui # <<>> /\ s.vui[1].range = "full"

-----------------------------------------------------------------------------
(* The slice segment header                                                *)

LongTerm(sps, lt) ==
  When(sps.num_long_term_ref_pics_sps > 0, ue(lt.from_sps))
    \o ue(Len(lt.msb) - lt.from_sps)
    \o FlattenSeq([i \in DOMAIN lt.msb |->
         (IF i <= lt.from_sps
          THEN u(CodeLength(sps.num_long_term_ref_pics_sps), 0)
          ELSE u(sps.log2_max_poc_lsb, 0) \o u(1, 1))
         \o IF lt.msb[i] THEN <<1>> \o ue(1) ELSE <<0>>])

(* Everything an independent segment has between address and entry points. *)
IndependentPart(g, sps, pps, idr) ==
  u(pps.num_extra_slice_header_bits, 0) \o ue(g.slice_type)
    \o When(pps.output_flag_present, u(1, 1))
    \o When(~idr,
         u(sps.log2_max_poc_lsb, g.poc_lsb)
           \o Bool(g.rps_from_sps)
           \o (IF g.rps_from_sps
               THEN When(Len(sps.rps) > 1, u(CodeLength(Len(sps.rps)), 0))
               ELSE RefPicSet(g.rps, Len(sps.rps), Len(sps.rps)))
           \o When(sps.long_term_ref_pics_present, LongTerm(sps, g.long_term))
           \o When(sps.temporal_mvp_enabled, u(1, g.temporal_mvp)))
    \o When(sps.sao_enabled,
         u(1, g.sao_luma) \o When(sps.chroma_format_idc # 0, u(1, g.sao_chroma)))
    \o se(g.qp_delta)
    \o When(pps.chroma_qp_offsets_present, se(g.cb_qp_offset) \o se(g.cr_qp_offset))
    \o When(pps.deblocking_override_enabled, u(1, g.deblocking_override))
    \o When(g.deblocking_override = 1,
         u(1, g.deblocking_disabled)
           \o When(g.deblocking_disabled = 0, se(g.beta_offset) \o se(g.tc_offset)))
    \o When(pps.loop_filter_across /\ (g.sao_luma = 1 \/ g.sao_chroma = 1
                                         \/ g.deblocking_disabled = 0),
         u(1, g.loop_filter_across))

SegmentHeader(g, sps, pps, idr) ==
  u(1, IF g.first THEN 1 ELSE 0) \o u(1, 0) \o ue(g.pps_id)
    \o When(~g.first,
         When(pps.dependent_enabled, u(1, g.dependent))
           \o u(CodeLength(CtbsWide(sps) * CtbsHigh(sps)), g.address))
    \o When(g.dependent = 0, IndependentPart(g, sps, pps, idr))
    \o When(pps.tiles_enabled \/ pps.entropy_sync_enabled,
         ue(g.entry_points)
           \o When(g.entry_points > 0, ue(15) \o Zeros(16 * g.entry_points)))
    \o When(pps.header_extension_present, ue(g.extension) \o Zeros(8 * g.extension))
=============================================================================
