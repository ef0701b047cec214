------------------------------ MODULE DngFile ------------------------------
(* The DNG reader, its opcode lists and the DNG writer, as in               *)
(* crates/rawshift-image-dng/src/{decoder,opcodes,encode}.rs.               *)
(*                                                                          *)
(* The container is decoded by gamut-dng, which is external: file.dng is    *)
(* its answer, None when it fails, and otherwise                            *)
(*   size, planes (1 for CFA, 3 for LinearRaw), linear, repeat, pattern,    *)
(*   samples, bits, active_area (None or <<top, left, bottom, right>>),     *)
(*   crop (None or <<origin, size>>), black, white (in tenths),             *)
(*   table (None or the linearization table), opcodes2, profile, raw_extra  *)
(*   and ifd0_extra (the tags it leaves alone).                             *)
EXTENDS RawDecoders

CONSTANT GainUnits  \* the fractions of a gain map are in 1/GainUnits

ASSUME GainUnitsAssumption == GainUnits \in Nat \ {0}

Round(tenths) == (tenths + 5) \div 10

-----------------------------------------------------------------------------
(* Opcode lists.  An opcode is [id, optional, fits, params]: fits is FALSE  *)
(* when its parameters reach past the list, which ends the list.            *)

(* A gain map fits its parameters when they hold all of its gains; one that *)
(* does not is dropped.                                                     *)
parse_gain_map(p) ==
    LET gains == p.points_v * p.points_h * p.map_planes
    IN IF gains > Len(p.gain) THEN None
       ELSE [p EXCEPT !.gain = SubSeq(@, 1, gains)] @@ [kind |-> "GainMap"]

OpcodeOf(op) ==
    CASE op.id = 4 -> [kind |-> "FixBadPixelsConstant"]
      [] op.id = 5 -> [kind |-> "FixBadPixelsList"]
      [] op.id = 9 -> parse_gain_map(op.params)
      [] OTHER -> [kind |-> "Unknown"]

parse_opcodes(list) ==
    LET end == SelectInSeq(list, LAMBDA op : ~op.fits)
        read == IF end = 0 THEN list ELSE SubSeq(list, 1, end - 1)
    IN SelectSeq([i \in DOMAIN read |-> OpcodeOf(read[i])], LAMBDA op : op # None)

(* Where coordinate i of n falls on an axis of the map, in 1/GainUnits of a *)
(* cell: its place in [0, 1] less the origin, over the spacing, kept inside *)
(* the map.  A single row is in the middle.                                 *)
MapIndex(i, n, origin, spacing, points) ==
    LET place == IF n > 1 THEN (i * GainUnits) \div (n - 1) ELSE GainUnits \div 2
    IN Clamped(((place - origin) * GainUnits) \div spacing, 0, (points - 1) * GainUnits)

(* The gain at a map position, between the four nodes around it, in         *)
(* 1/GainUnits^3.                                                           *)
GainAt(g, v, h, plane) ==
    LET r0 == v \div GainUnits
        r1 == Least(r0 + 1, g.points_v - 1)
        c0 == h \div GainUnits
        c1 == Least(c0 + 1, g.points_h - 1)
        dr == v % GainUnits
        dc == h % GainUnits
        Node(r, c) == g.gain[(r * g.points_h * g.map_planes) + (c * g.map_planes) + plane + 1]
    IN (Node(r0, c0) * (GainUnits - dr) * (GainUnits - dc))
       + (Node(r0, c1) * (GainUnits - dr) * dc)
       + (Node(r1, c0) * dr * (GainUnits - dc))
       + (Node(r1, c1) * dr * dc)

(* A gain map over a whole three-channel image.                             *)
ApplyGainMap(g, image) ==
    LET channels == {c \in 0 .. 2 : c >= g.plane /\ c < g.plane + Least(g.planes, 3)}
        MapPlane(c) == IF g.map_planes = 1 THEN 0 ELSE Least(c - g.plane, g.map_planes - 1)
        Gained(v, c, x, y) ==
            Clamped((v * GainAt(g, MapIndex(y, image.h, g.origin_v, g.spacing_v, g.points_v),
                              MapIndex(x, image.w, g.origin_h, g.spacing_h, g.points_h),
                              MapPlane(c))) \div (GainUnits ^ 3), 0, u16_MAX)
        New(i) == LET c == (i - 1) % 3
                      x == ((i - 1) \div 3) % image.w
                      y == ((i - 1) \div 3) \div image.w
                  IN IF c \in channels THEN Gained(image.data[i], c, x, y) ELSE image.data[i]
    IN IF 0 \in {image.w, image.h, g.points_v, g.points_h, g.map_planes} \/ g.gain = <<>>
       THEN image
       ELSE [image EXCEPT !.data = [i \in DOMAIN image.data |-> New(i)]]

(* Only gain maps change the image.                                         *)
apply_to_rgb(opcodes, image) ==
    FoldLeft(LAMBDA img, op : IF op.kind = "GainMap" THEN ApplyGainMap(op, img) ELSE img,
             image, opcodes)

-----------------------------------------------------------------------------
(* Reading.                                                                 *)

(* The compression and photometry of the largest raw directory anywhere.    *)
raw_container_codes(ifds) ==
    LET raws == SelectSeq(flatten_ifds(ifds),
                          LAMBDA d : Or(Scalar(Get(d, "Photometric")), 0) % 65536
                                         \in {32803, 34892})
        best == LargestOf(raws)
    IN IF best = None THEN <<1, 32803>>
       ELSE <<Or(Scalar(Get(best, "Compression")), 1) % 65536,
              Or(Scalar(Get(best, "Photometric")), 32803) % 65536>>

(* The slots of a 2x2 pattern: the cells of the pattern, repeated.          *)
black_levels_array(black) ==
    IF black = <<>> THEN <<0, 0, 0, 0>>
    ELSE [i \in 1 .. 4 |-> Clamped(Round(black[((i - 1) % Len(black)) + 1]), 0, u16_MAX)]

white_level_u16(white) ==
    IF white = <<>> THEN u16_MAX ELSE Clamped(Round(white[1]), 0, u16_MAX)

active_area_rect(a) == from_coords(a[2], a[1], Most(0, a[4] - a[2]), Most(0, a[3] - a[1]))
default_crop_rect(c) == from_coords(c[1][1], c[1][2], c[2][1], c[2][2])

cfa_pattern_of(dng) ==
    IF ~dng.linear /\ dng.repeat = <<2, 2>> /\ Len(dng.pattern) = 4
    THEN from_array(dng.pattern) ELSE None

extra_value(dng, tag) ==
    IF tag \in DOMAIN dng.raw_extra THEN dng.raw_extra[tag]
    ELSE IF tag \in DOMAIN dng.ifd0_extra THEN dng.ifd0_extra[tag] ELSE None

(* Numbers of any numeric type; a ratio over zero is zero.                  *)
value_f64s(value) ==
    IF value = None \/ value.t = "Ascii" THEN None
    ELSE IF value.t \in {"Rational", "SRational"}
         THEN [i \in DOMAIN value.v |->
                  IF value.v[i].d = 0 THEN [n |-> 0, d |-> 1] ELSE value.v[i]]
    ELSE value.v

DngExtract(file, ifds) ==
    LET dng == file.dng
        InIfd0(Read(_), default) == IF ifds = <<>> THEN default ELSE Read(ifds[1])
        MakeOf(d) == Or(ascii_tag(d, "Make"), "")
        ModelOf(d) == Or(ascii_tag(d, "Model"), "")
        name == extra_value(dng, "ProfileName")
    IN [make |-> InIfd0(MakeOf, ""), model |-> InIfd0(ModelOf, ""),
        unique_camera_model |-> dng.profile.unique_camera_model,
        size |-> dng.size,
        active_area |-> IF dng.active_area = None THEN None ELSE active_area_rect(dng.active_area),
        crop |-> IF dng.crop = None THEN None ELSE default_crop_rect(dng.crop),
        bit_depth |-> dng.bits % 256, is_linear_raw |-> dng.linear,
        codes |-> raw_container_codes(ifds),
        color_matrix_1 |-> dng.profile.color_matrix_1,
        color_matrix_2 |-> dng.profile.color_matrix_2,
        as_shot_neutral |-> dng.profile.as_shot_neutral,
        baseline_exposure |-> dng.profile.baseline_exposure,
        black_levels |-> [i \in DOMAIN dng.black |-> Round(dng.black[i])],
        white_levels |-> [i \in DOMAIN dng.white |-> Round(dng.white[i])],
        cfa_pattern |-> cfa_pattern_of(dng), linearization_table |-> dng.table,
        noise_profile |-> value_f64s(extra_value(dng, "NoiseProfile")),
        profile_name |-> IF name # None /\ name.t = "Ascii" THEN name.v[1]
                         ELSE dng.profile.profile_name,
        exif |-> InIfd0(extract_exif, None), datetime |-> InIfd0(extract_datetime, None),
        gps |-> InIfd0(extract_gps, None), lens |-> InIfd0(extract_lens_info, <<None, None>>),
        orientation |-> InIfd0(extract_orientation, None)]

DngParse(file) ==
    IF file.dng = None THEN Error
    ELSE IF parse_tree(file) = None THEN Error
    ELSE DngExtract(file, parse_tree(file))

(* A lookup; samples past the table take its last entry.                    *)
Linearized(table, v) ==
    IF table = None \/ table = <<>> THEN v ELSE table[Least(v, Len(table) - 1) + 1]

DngDecode(file, m) ==
    LET dng == file.dng
        area == Or(m.active_area, from_coords(0, 0, dng.size.w, dng.size.h))
        depth == IF dng.table # None /\ dng.table # <<>> THEN 16 ELSE m.bit_depth
    IN [RawImageNew(m.size, area, depth, Or(m.cfa_pattern, "RGGB")) EXCEPT
            !.black_levels = black_levels_array(dng.black),
            !.white_level = white_level_u16(dng.white),
            !.data = [i \in DOMAIN dng.samples |-> Linearized(dng.table, dng.samples[i])],
            !.baseline_exposure = m.baseline_exposure, !.default_crop = m.crop]

(* The active area of a three-plane image, linearized; what the area has    *)
(* outside the sensor is black.  The second opcode list is then applied.    *)
LinearSamples(dng, area) ==
    LET At(x, y, c) ==
            IF area.x + x < dng.size.w /\ area.y + y < dng.size.h
            THEN Linearized(dng.table,
                     dng.samples[((((area.y + y) * dng.size.w) + area.x + x) * 3) + c + 1])
            ELSE 0
    IN [i \in 1 .. area.w * area.h * 3 |->
            At(((i - 1) \div 3) % area.w, ((i - 1) \div 3) \div area.w, (i - 1) % 3)]

decode_linear_raw(file, m) ==
    LET dng == file.dng
        area == Or(m.active_area, from_coords(0, 0, dng.size.w, dng.size.h))
        image == RgbImageNew(area.w, area.h, LinearSamples(dng, area))
    IN IF ~dng.linear \/ dng.planes # 3 THEN Error
       ELSE IF image = Error THEN Error
       ELSE apply_to_rgb(parse_opcodes(dng.opcodes2),
                         [image EXCEPT !.baseline_exposure = m.baseline_exposure,
                                       !.default_crop = m.crop])

(* The preview of the first directory that says it is reduced and has one,  *)
(* else of IFD0.                                                            *)
DngThumbnail(file) ==
    LET ifds == parse_tree(file)
        reduced == SelectSeq(flatten_ifds(ifds),
                             LAMBDA d : /\ Scalar(Get(d, "NewSubfileType")) = 1
                                        /\ jpeg_thumbnail(file, d) # None)
    IN IF reduced # <<>> THEN jpeg_thumbnail(file, reduced[1])
       ELSE IF ifds = <<>> THEN None ELSE jpeg_thumbnail(file, ifds[1])

DngMetadata(m) ==
    [NoImageMetadata EXCEPT
        !.make = m.make, !.model = m.model, !.unique_camera_model = m.unique_camera_model,
        !.lens = m.lens, !.exif = m.exif, !.datetime = m.datetime, !.gps = m.gps,
        !.as_shot_neutral = m.as_shot_neutral, !.color_matrix_1 = m.color_matrix_1,
        !.color_matrix_2 = m.color_matrix_2, !.baseline_exposure = m.baseline_exposure,
        !.orientation = m.orientation, !.bit_depth = m.bit_depth,
        !.black_levels = m.black_levels,
        !.white_level = IF m.white_levels = <<>> THEN None ELSE m.white_levels[1],
        !.crop = m.crop]

-----------------------------------------------------------------------------
(* Writing: a three-plane image of 16 bits with the levels and the camera   *)
(* profile of the metadata.  The answer is the dng record of the file.      *)

build_raw_image(image, meta) ==
    LET black == IF Len(meta.black_levels) >= 3
                 THEN [i \in 1 .. 3 |-> 10 * meta.black_levels[i]] ELSE <<0, 0, 0>>
        white == 10 * Or(meta.white_level, 65535)
    IN [size |-> Dims(image.w, image.h), planes |-> 3, linear |-> TRUE, repeat |-> <<1, 1>>,
        pattern |-> <<>>, samples |-> image.data, bits |-> 16, active_area |-> None,
        crop |-> None, black |-> black, white |-> <<white, white, white>>, table |-> None,
        opcodes2 |-> <<>>, raw_extra |-> <<>>, ifd0_extra |-> <<>>]

build_camera_profile(meta) ==
    [unique_camera_model |->
        IF meta.unique_camera_model \notin {None, ""} THEN meta.unique_camera_model
        ELSE IF meta.model # "" THEN meta.model ELSE "Unknown Camera",
     color_matrix_1 |-> Or(meta.color_matrix_1, <<1, 0, 0, 0, 1, 0, 0, 0, 1>>),
     color_matrix_2 |-> meta.color_matrix_2,
     as_shot_neutral |->
        IF meta.as_shot_neutral # None /\ \A i \in 1 .. 3 : meta.as_shot_neutral[i].n > 0
        THEN meta.as_shot_neutral ELSE [i \in 1 .. 3 |-> [n |-> 1, d |-> 1]],
     baseline_exposure |-> meta.baseline_exposure, profile_name |-> None]

(* The five capture settings gamut-dng can embed; an ISO past 16 bits is    *)
(* left out.                                                                *)
build_exif_metadata(meta) ==
    IF meta.exif = None THEN None
    ELSE [exposure_time |-> meta.exif.exposure_time, f_number |-> meta.exif.f_number,
          iso_speed |-> IF meta.exif.iso # None /\ meta.exif.iso < 65536 THEN meta.exif.iso
                        ELSE None,
          focal_length |-> meta.exif.focal_length]

encode_dng(image, meta, embed_exif) ==
    [dng |-> build_raw_image(image, meta) @@ [profile |-> build_camera_profile(meta)],
     exif |-> IF embed_exif THEN build_exif_metadata(meta) ELSE None]
=============================================================================
