------------------------------ MODULE Av1Stream ------------------------------
(***************************************************************************)
(* decode_av1 (crates/rawshift-hwdec/src/vaapi/mod.rs) up to the buffers   *)
(* it hands to the driver: the walk over the OBUs of the av1C record and   *)
(* of the payload (parse_still_picture of vaapi/av1.rs), the picture       *)
(* parameters and one slice of each tile.  What VaapiDecoder knows of a    *)
(* request as `scope`, `headers` and `units` is decided here.              *)
(*                                                                         *)
(* An OBU is [type, payload], its bytes having been split off by           *)
(* split_obus (module CodecRecords).                                       *)
(***************************************************************************)
EXTENDS Av1Headers, SequencesExt

CONSTANT Streams

VARIABLES
  stream,    \* [profile: of the record, config, payload: OBUs, source], fixed
  next,      \* the OBU the walk is at
  seq, fh,   \* the sequence header and the frame header, or None
  tiles,     \* the tiles so far
  pic_param, \* the picture parameter buffer, or None
  slices,    \* the slice parameter and data buffers made so far
  pc         \* "record", "walk", "tiles", "done" or "failed"

vars == <<stream, next, seq, fh, tiles, pic_param, slices, pc>>

P == INSTANCE Av1Picture

Obus == stream.config \o stream.payload

Init ==
  /\ stream \in Streams
  /\ next = 1
  /\ seq = None /\ fh = None /\ pic_param = None
  /\ tiles = <<>> /\ slices = <<>>
  /\ pc = "record"

(* The profile that av1C names.                                            *)
OpenRecord ==
  /\ pc = "record"
  /\ pc' = IF stream.profile = 0 THEN "walk" ELSE "failed"
  /\ UNCHANGED <<stream, next, seq, fh, tiles, pic_param, slices>>

-----------------------------------------------------------------------------
(* parse_still_picture                                                     *)

At(type) == pc = "walk" /\ next <= Len(Obus) /\ Obus[next].type = type

Refuse == pc' = "failed" /\ UNCHANGED <<next, seq, fh, tiles>>

Step == next' = next + 1 /\ UNCHANGED pc

(* The last one before the frame counts.                                   *)
TakeSequenceHeader ==
  /\ At("sequence_header")
  /\ IF fh # None
     THEN Step /\ UNCHANGED <<seq, fh, tiles>>
     ELSE \E parsed \in {ParseSequenceHeader(Obus[next].payload)} :
            IF parsed.ok THEN Step /\ seq' = parsed.h /\ UNCHANGED <<fh, tiles>>
            ELSE Refuse
  /\ UNCHANGED <<stream, pic_param, slices>>

(* A repeated one is passed over.                                          *)
TakeFrameHeader ==
  /\ At("frame_header")
  /\ IF fh # None
     THEN Step /\ UNCHANGED <<seq, fh, tiles>>
     ELSE IF seq = None THEN Refuse
     ELSE \E parsed \in {ParseFrameHeader(Obus[next].payload, seq)} :
            IF parsed.ok THEN Step /\ fh' = parsed.h /\ UNCHANGED <<seq, tiles>>
            ELSE Refuse
  /\ UNCHANGED <<stream, pic_param, slices>>

(* The header and, behind it, a tile group.  A second frame ends the walk. *)
TakeFrame ==
  /\ At("frame")
  /\ IF fh # None
     THEN next' = Len(Obus) + 1 /\ UNCHANGED <<seq, fh, tiles, pc>>
     ELSE IF seq = None THEN Refuse
     ELSE \E parsed \in {ParseFrameHeader(Obus[next].payload, seq)} :
            IF ~parsed.ok THEN Refuse
            ELSE \E group \in {ParseTileGroup(SubSeq(Obus[next].payload, parsed.header_bytes + 1,
                                                     Len(Obus[next].payload)), parsed.h, seq)} :
                   IF group.ok
                   THEN Step /\ fh' = parsed.h /\ tiles' = tiles \o group.tiles /\ UNCHANGED seq
                   ELSE Refuse
  /\ UNCHANGED <<stream, pic_param, slices>>

(* One behind the last tile is passed over.                                *)
TakeTileGroup ==
  /\ At("tile_group")
  /\ IF fh = None THEN Refuse
     ELSE IF Len(tiles) >= NumTiles(fh, seq) THEN Step /\ UNCHANGED <<seq, fh, tiles>>
     ELSE \E group \in {ParseTileGroup(Obus[next].payload, fh, seq)} :
            IF group.ok THEN Step /\ tiles' = tiles \o group.tiles /\ UNCHANGED <<seq, fh>>
            ELSE Refuse
  /\ UNCHANGED <<stream, pic_param, slices>>

RefuseTileList ==
  /\ At("tile_list")
  /\ Refuse
  /\ UNCHANGED <<stream, pic_param, slices>>

(* Temporal delimiters, metadata, redundant frame headers, padding.        *)
SkipObu ==
  /\ At("other")
  /\ Step
  /\ UNCHANGED <<stream, seq, fh, tiles, pic_param, slices>>

-----------------------------------------------------------------------------
(* build_pic_param: packed fields are numbers, their bits as the driver's  *)
(* header lays them out.                                                   *)

(* Bits, the lowest first.                                                 *)
Word(bits) == FoldLeftDomain(LAMBDA word, i : word + bits[i] * 2^(i - 1), 0, bits)

SeqInfo(s) ==
  Word(<<s.still_picture, s.use_128x128_superblock, s.enable_filter_intra,
         s.enable_intra_edge_filter, s.enable_interintra_compound, s.enable_masked_compound,
         s.enable_dual_filter, s.enable_order_hint, s.enable_jnt_comp, s.enable_cdef,
         s.mono_chrome, s.color_range, 1, 1, 0, s.film_grain_params_present>>)

ForceIntegerMv == 1

PicInfo(h) ==
  h.frame_type
    + 4 * Word(<<h.show_frame, h.showable_frame, h.error_resilient_mode, h.disable_cdf_update,
                 h.allow_screen_content_tools, ForceIntegerMv, h.allow_intrabc, h.use_superres,
                 0, 0, 0, h.disable_frame_end_update_cdf, h.uniform_tile_spacing>>)

(* Enabled, update_map, not temporal_update, update_data.                  *)
SegmentInfo(h) ==
  Word(<<h.segmentation_enabled, h.segmentation_enabled, 0, h.segmentation_enabled>>)

FeatureSet(h, segment, k) ==
  h.segmentation_enabled = 1 /\ h.features[8 * segment + k] # None
FeatureMask(h) ==
  [segment \in 0..7 |->
     Word([k \in 1..8 |-> IF FeatureSet(h, segment, k) THEN 1 ELSE 0])]
FeatureData(h) ==
  [segment \in 0..7 |->
     [k \in 1..8 |-> IF FeatureSet(h, segment, k) THEN h.features[8 * segment + k] ELSE 0]]

GrainInfo(h) ==
  IF h.apply_grain = 0 THEN 0
  ELSE 1 + 2 * h.chroma_scaling_from_luma + 4 * h.grain_scaling_minus_8 + 16 * h.ar_coeff_lag
       + 64 * h.ar_coeff_shift_minus_6 + 256 * h.grain_scale_shift
       + 1024 * h.overlap_flag + 2048 * h.clip_to_restricted_range

FilmGrainStruct(h) ==
  [info |-> GrainInfo(h), seed |-> h.grain_seed,
   y |-> h.point_y, cb |-> h.point_cb, cr |-> h.point_cr,
   ar_y |-> h.ar_coeffs_y, ar_cb |-> h.ar_coeffs_cb, ar_cr |-> h.ar_coeffs_cr,
   cb_mult |-> <<h.cb_mult, h.cb_luma_mult, h.cb_offset>>,
   cr_mult |-> <<h.cr_mult, h.cr_luma_mult, h.cr_offset>>]

(* The driver takes 63 sizes; the last tile gets what is left.             *)
FirstSizes(sizes) == SubSeq(sizes, 1, Least(Len(sizes), 63))

LoopFilterInfo(h) ==
  h.sharpness + 8 * h.loop_filter_delta_enabled + 16 * h.loop_filter_delta_update

Qmatrix(h) ==
  IF h.using_qmatrix = 1 THEN 1 + 2 * h.qm_y + 32 * h.qm_u + 512 * h.qm_v ELSE 0

(* ONLY_4X4, LARGEST or SELECT.                                            *)
TxMode(h) ==
  IF compute_coded_lossless(h) THEN 0 ELSE IF h.tx_mode_select = 1 THEN 2 ELSE 1

ModeControl(h) ==
  h.delta_q_present + 2 * h.delta_q_res + 8 * h.delta_lf_present + 16 * h.delta_lf_res
    + 64 * h.delta_lf_multi + 128 * TxMode(h) + 1024 * h.reduced_tx_set

(* The arrays have eight entries, zero behind the 2^cdef_bits coded ones.  *)
CdefWords(h) ==
  [i \in 1..8 |->
     IF i <= Len(h.cdef_strengths)
     THEN <<4 * h.cdef_strengths[i].y_pri + h.cdef_strengths[i].y_sec,
            4 * h.cdef_strengths[i].uv_pri + h.cdef_strengths[i].uv_sec>>
     ELSE <<0, 0>>]

LrType(h, plane) == IF plane <= Len(h.lr_type) THEN h.lr_type[plane] ELSE 0
LoopRestoration(h) ==
  LrType(h, 1) + 4 * LrType(h, 2) + 16 * LrType(h, 3) + 64 * h.lr_unit_shift
    + 256 * h.lr_uv_shift

build_pic_param(s, h) ==
  [bit_depth_idx |-> s.high_bitdepth, matrix_coefficients |-> s.matrix_coefficients,
   seq_info |-> SeqInfo(s), pic_info |-> PicInfo(h),
   frame_width_minus1 |-> (UpscaledWidth(h) - 1) % 65536,
   frame_height_minus1 |-> (FrameHeight(h) - 1) % 65536,
   superres_scale_denominator |-> SuperresDenom(h), order_hint |-> h.order_hint,
   segment_info |-> SegmentInfo(h), feature_mask |-> FeatureMask(h),
   feature_data |-> FeatureData(h), film_grain |-> FilmGrainStruct(h),
   tile_cols |-> TileCols(h, s), tile_rows |-> Len(Rows(h, s)),
   width_in_sbs_minus_1 |-> FirstSizes(Columns(h, s)),
   height_in_sbs_minus_1 |-> FirstSizes(Rows(h, s)),
   context_update_tile_id |-> h.context_update_tile_id,
   filter_level |-> <<h.level_0, h.level_1, h.level_u, h.level_v>>,
   loop_filter_info |-> LoopFilterInfo(h), filter_deltas |-> h.loop_filter_deltas,
   quantizer |-> <<h.base_q_idx, h.delta_q_y_dc, h.delta_q_u_dc, h.delta_q_u_ac,
                   h.delta_q_v_dc, h.delta_q_v_ac>>,
   qmatrix |-> Qmatrix(h), mode_control |-> ModeControl(h),
   cdef_damping_minus_3 |-> h.cdef_damping_minus_3, cdef_bits |-> h.cdef_bits,
   cdef_strengths |-> CdefWords(h), loop_restoration |-> LoopRestoration(h)]

-----------------------------------------------------------------------------

(* Mutant: tiles that never came are not missed.                           *)
Complete_AnyTiles == seq # None /\ fh # None /\ tiles # <<>>

Complete == seq # None /\ fh # None /\ Len(tiles) = NumTiles(fh, seq)

EndOfObus ==
  /\ pc = "walk" /\ next > Len(Obus)
  /\ IF Complete
     THEN pc' = "tiles" /\ pic_param' = build_pic_param(seq, fh)
     ELSE pc' = "failed" /\ UNCHANGED pic_param
  /\ UNCHANGED <<stream, next, seq, fh, tiles, slices>>

(* build_tile_param, and the data buffer.                                  *)
TileParam(tile) ==
  [slice_data_size |-> Len(tile.data), tile_row |-> tile.row, tile_column |-> tile.column,
   buffer |-> tile.data]

PushTile ==
  /\ pc = "tiles"
  /\ slices' = Append(slices, TileParam(tiles[Len(slices) + 1]))
  /\ pc' = IF Len(slices') = Len(tiles) THEN "done" ELSE pc
  /\ UNCHANGED <<stream, next, seq, fh, tiles, pic_param>>

Next ==
  \/ OpenRecord
  \/ TakeSequenceHeader \/ TakeFrameHeader \/ TakeFrame \/ TakeTileGroup
  \/ RefuseTileList \/ SkipObu \/ EndOfObus \/ PushTile

Spec == Init /\ [][Next]_vars

-----------------------------------------------------------------------------
(* What a driver reads out of the buffers, in the terms of Av1Picture.     *)

Bit(word, i) == (word \div 2^i) % 2
Field(word, i, n) == (word \div 2^i) % 2^n
KindOf(code) == CASE code = 0 -> "none" [] code = 1 -> "wiener" [] code = 2 -> "sgrproj"
                  [] code = 3 -> "switchable"
TransformOf(code) == CASE code = 0 -> "4x4" [] code = 1 -> "largest" [] code = 2 -> "select"
PlusOne(sizes) == [i \in DOMAIN sizes |-> sizes[i] + 1]

DriverGrain(g) ==
  IF Bit(g.info, 0) = 0 THEN [apply |-> 0]
  ELSE [apply |-> 1, seed |-> g.seed, y |-> g.y, from_luma |-> Bit(g.info, 1), cb |-> g.cb,
        cr |-> g.cr, scaling |-> Field(g.info, 2, 2) + 8, lag |-> Field(g.info, 4, 2),
        ar_y |-> g.ar_y, ar_cb |-> g.ar_cb, ar_cr |-> g.ar_cr,
        shifts |-> <<Field(g.info, 6, 2) + 6, Field(g.info, 8, 2)>>, cb_mult |-> g.cb_mult,
        cr_mult |-> g.cr_mult, overlap |-> Bit(g.info, 10), clip |-> Bit(g.info, 11)]

DriverReads(d) ==
  [size |-> <<d.frame_width_minus1 + 1, d.frame_height_minus1 + 1,
              d.superres_scale_denominator>>,
   sample |-> <<8 + 2 * d.bit_depth_idx, Bit(d.seq_info, 10), Bit(d.seq_info, 11),
                d.matrix_coefficients>>,
   tools |-> <<Bit(d.seq_info, 1), Bit(d.seq_info, 2), Bit(d.seq_info, 3), Bit(d.seq_info, 9),
               Bit(d.seq_info, 15)>>,
   inter |-> [i \in 1..5 |-> Bit(d.seq_info, 3 + i)],
   still |-> Bit(d.seq_info, 0),
   frame |-> <<Field(d.pic_info, 0, 2), Bit(d.pic_info, 2), Bit(d.pic_info, 3)>>,
   order_hint |-> d.order_hint, superres |-> Bit(d.pic_info, 9),
   uniform |-> Bit(d.pic_info, 14),
   cdf |-> <<Bit(d.pic_info, 5), Bit(d.pic_info, 13)>>,
   screen |-> <<Bit(d.pic_info, 6), Bit(d.pic_info, 8)>>,
   columns |-> PlusOne(Front(d.width_in_sbs_minus_1)),
   rows |-> PlusOne(Front(d.height_in_sbs_minus_1)),
   tiles |-> <<d.tile_cols, d.tile_rows, d.context_update_tile_id>>,
   quantizer |-> [base |-> d.quantizer[1], y_dc |-> d.quantizer[2], u_dc |-> d.quantizer[3],
                  u_ac |-> d.quantizer[4], v_dc |-> d.quantizer[5], v_ac |-> d.quantizer[6],
                  qm |-> IF Bit(d.qmatrix, 0) = 0 THEN None
                         ELSE <<Field(d.qmatrix, 1, 4), Field(d.qmatrix, 5, 4),
                                Field(d.qmatrix, 9, 4)>>],
   features |-> [i \in 1..64 |->
                   IF Bit(d.segment_info, 0) = 1
                        /\ Bit(d.feature_mask[(i - 1) \div 8], (i - 1) % 8) = 1
                   THEN d.feature_data[(i - 1) \div 8][((i - 1) % 8) + 1] ELSE None],
   deltas |-> [q |-> IF Bit(d.mode_control, 0) = 1 THEN Field(d.mode_control, 1, 2) ELSE None,
               lf |-> IF Bit(d.mode_control, 3) = 1
                      THEN <<Field(d.mode_control, 4, 2), Bit(d.mode_control, 6)>> ELSE None],
   transform |-> <<TransformOf(Field(d.mode_control, 7, 2)), Bit(d.mode_control, 10)>>,
   filter |-> [levels |-> d.filter_level, sharpness |-> Field(d.loop_filter_info, 0, 3),
               adjusted |-> Bit(d.loop_filter_info, 3), deltas |-> d.filter_deltas],
   cdef |-> [damping |-> d.cdef_damping_minus_3 + 3,
             strengths |-> [i \in 1..2^d.cdef_bits |->
               <<d.cdef_strengths[i][1] \div 4, d.cdef_strengths[i][1] % 4,
                 d.cdef_strengths[i][2] \div 4, d.cdef_strengths[i][2] % 4>>]],
   restoration |-> [kinds |-> [i \in 1..3 |-> KindOf(Field(d.loop_restoration, 2 * (i - 1), 2))],
                    size |-> 64 * 2^Field(d.loop_restoration, 6, 2),
                    chroma_shift |-> Bit(d.loop_restoration, 8)],
   grain |-> DriverGrain(d.film_grain)]

(* A conforming stream says in `source` what its picture means, the        *)
(* bytes of its tiles in raster order, and whether it is error resilient   *)
(* (None in a reduced header, for which the code keeps the default).       *)
Conforming == stream.source # None

(* "far enough to fill VAAPI's VADecPictureParameterBufferAV1 and one      *)
(* VASliceParameterBufferAV1 per tile" (av1.rs): a conforming stream is    *)
(* accepted, the driver is told of every element what the encoder meant,   *)
(* whichever the headers switch on and skip, and gets every tile once, in  *)
(* order, byte for byte, however they are grouped into OBUs.               *)
StillExact ==
  Conforming =>
    /\ pc # "failed"
    /\ pic_param # None =>
         /\ DriverReads(pic_param) = stream.source.meant
         /\ stream.source.resilient \in {None, Bit(pic_param.pic_info, 4)}
    /\ pc = "done" =>
         /\ Len(slices) = Len(stream.source.tiles)
         /\ \A i \in DOMAIN slices :
              /\ slices[i].buffer = stream.source.tiles[i]
              /\ slices[i].slice_data_size = Len(slices[i].buffer)
              /\ slices[i].tile_row * pic_param.tile_cols + slices[i].tile_column = i - 1

(* "Inter frames, OBU_TILE_LIST (large-scale tile), and profiles 1/2 fail" *)
(* (av1.rs), and so does a stream that ends early or lacks something:      *)
(* nothing of it is decoded.                                               *)
OutOfScopeRefused == ~Conforming => pc # "done"

=============================================================================
