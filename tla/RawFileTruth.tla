---------------------------- MODULE RawFileTruth ----------------------------
(* What RawFile promises of files whose contents are known.  file.truth is  *)
(* None for a file no decoder should take, and otherwise what the author of *)
(* the file put in:                                                         *)
(*   format, size, samples, black, white, area, crop, orientation, iso,     *)
(*   exposure, thumbnail                                                    *)
(*   pixels    whether the sensor's samples can be decoded                  *)
(*   pattern   the mosaic, or "X-Trans"                                     *)
(*   neutral   the neutral of the scene, fractions                          *)
(*   matrix    [camera, back]: XYZ to camera and its inverse                *)
(*   linear    [samples, up, shaded] of a picture that is no mosaic         *)
(*   flat      the one value of a scene whose odd samples are defects       *)
EXTENDS RawFile

T == file.truth

Same(a, b) == a.n * b.d = b.n * a.d
SameNeutral(a, b) ==
    IF None \in {a, b} THEN a = b ELSE \A c \in 1 .. 3 : Same(a[c], b[c])

-----------------------------------------------------------------------------
(* A file is opened by the decoder of its format and by no other, a file    *)
(* that is none of them by none (detect_format and the parse functions);    *)
(* and what the decoder reports and decodes is what the file holds: every   *)
(* sample at its place, through tiles, strips, tables and byte orders, the  *)
(* levels, mosaic and area of the sensor and not of a preview, the neutral  *)
(* wherever the camera wrote it.                                            *)
Reported ==
    /\ raw.format = T.format
    /\ raw.m.size = T.size
    /\ SameNeutral(metadata.as_shot_neutral, T.neutral)
    /\ metadata.orientation = T.orientation
    /\ Field(metadata.exif, "iso") = T.iso

SensorAsWritten(image) ==
    /\ image.size = T.size /\ image.data = T.samples
    /\ image.black_levels = T.black /\ image.white_level = T.white
    /\ image.active_area = T.area /\ image.default_crop = T.crop
    /\ IF T.pattern = "X-Trans" THEN image.xtrans_pattern = XTransStandard
       ELSE image.xtrans_pattern = None /\ image.cfa_pattern = T.pattern

Answer(call) == answer # None /\ answer.call = call

DecodesAsWritten ==
    (raw # None /\ ~IsReopened) =>
        IF T = None THEN raw = Error
        ELSE /\ raw # Error /\ Reported
             /\ Answer("thumbnail") => answer.value = T.thumbnail
             /\ (Answer("decode_raw") /\ T.linear = None) =>
                    IF T.pixels THEN SensorAsWritten(answer.value) ELSE answer.value = Error

-----------------------------------------------------------------------------
(* The directories the pointers of a file lead to.                          *)
PointersOf(offset) ==
    UNION {ToSet(file.dirs[offset][tag].v) :
              tag \in {t \in ToSet(POINTER_TAGS) \cap DOMAIN file.dirs[offset] :
                           IsPointer(file.dirs[offset][t])}}
Existing(offsets) == (offsets \ {0}) \cap DOMAIN file.dirs

RECURSIVE Reachable(_)
Reachable(offsets) ==
    LET more == Existing(UNION {PointersOf(o) : o \in offsets}) \ offsets
    IN IF more = {} THEN offsets ELSE Reachable(offsets \union more)

(* The sub-directories attached below some directories, with their depth.   *)
RECURSIVE Attached(_, _)
Attached(dirs, depth) ==
    FlattenSeq([i \in DOMAIN dirs |->
        FlattenSeq([g \in DOMAIN dirs[i].subs |->
            [k \in DOMAIN dirs[i].subs[g].ifds |->
                [id |-> dirs[i].subs[g].ifds[k].tags["Id"].v[1], depth |-> depth]]
            \o Attached(dirs[i].subs[g].ifds, depth + 1)])])

(* Whatever directories name each other, in circles too, parse_tree ends;   *)
(* each directory is attached as a sub-directory once at most, none deeper  *)
(* than the limit allows, and unless the limit cuts the tree all of them    *)
(* are there (ifd lib.rs, resolve_pointers).                                *)
TreeAttachesOnce ==
    (raw # None /\ file.chain # None /\ \A o \in DOMAIN file.dirs : "Id" \in DOMAIN file.dirs[o]) =>
        LET attached == Attached(parse_tree(file), 1)
            ids == {attached[i].id : i \in DOMAIN attached}
            named == Existing(UNION {PointersOf(o) : o \in Reachable(ToSet(file.chain))})
        IN /\ Cardinality(ids) = Len(attached)
           /\ \A i \in DOMAIN attached : attached[i].depth <= MAX_SUB_IFD_DEPTH + 1
           /\ ids \subseteq named
           /\ Cardinality(named) <= MAX_SUB_IFD_DEPTH + 1 => ids = named

-----------------------------------------------------------------------------
(* The picture, pixel by pixel from the sensor: a definition of what the    *)
(* stages of process come to together, in which no stage hands an image to  *)
(* the next.                                                                *)

Gains(o) ==
    IF o.white_balance # None THEN o.white_balance
    ELSE IF T.neutral = None THEN [c \in 1 .. 3 |-> Fraction(1, 1)]
    ELSE [c \in 1 .. 3 |-> Fraction(T.neutral[c].d, T.neutral[c].n)]

Gained(v, g) == Least(u16_MAX, (v * g.n) \div g.d)

(* A mosaic position, above the black of its site, with the gain of its     *)
(* colour, on a scale where the sensor's white above black is 65535.        *)
MosaicColour(o, x, y) ==
    LET sample == IF T.flat # None THEN T.flat ELSE T.samples[(T.size.w * y) + x + 1]
        above == Most(0, sample - T.black[(2 * (y % 2)) + (x % 2) + 1])
        color == IF T.pattern = "X-Trans" THEN 1 ELSE bayer_at(T.pattern, x, y)
        value == Least(u16_MAX, (Gained(above, Gains(o)[color + 1]) * u16_MAX)
                                    \div (T.white - T.black[1]))
    IN <<value, value, value>>

(* A position of a linear picture: shading doubles green and blue towards   *)
(* the right edge.                                                          *)
LinearColour(o, x, y) ==
    LET Shaded(c, v) == IF T.linear.shaded /\ c > 1 THEN (v * (T.size.w - 1 + x)) \div (T.size.w - 1)
                        ELSE v
    IN [c \in 1 .. 3 |->
           Gained(Shaded(c, T.linear.samples[(3 * ((T.size.w * y) + x)) + c]) * T.linear.up,
                  Gains(o)[c])]

Row(m, r, v) == (m[(3 * r) + 1] * v[1]) + (m[(3 * r) + 2] * v[2]) + (m[(3 * r) + 3] * v[3])
Times(m, v) == [r \in 1 .. 3 |-> Row(m, r - 1, v)]

Srgb(o, v) ==
    LET n == IF o.color_matrix # None THEN Times(o.color_matrix, v)
             ELSE Times(XYZ_TO_SRGB_D65, Times(T.matrix.back, v))
    IN IF o.color_matrix = None /\ T.matrix = None THEN v
       ELSE [c \in 1 .. 3 |-> Clamped(n[c] \div 1000, 0, u16_MAX)]

Toned(o, v) ==
    IF o.gamma = Fraction(1, 1) THEN v
    ELSE IF o.gamma # None THEN Power(o.gamma, v)
    ELSE Filmic(Or(T.exposure, 0), v)

(* What of the area the crop leaves; one that is not inside it leaves all.  *)
Frame ==
    IF T.crop = None THEN T.area
    ELSE IF T.crop.x + T.crop.w > T.area.w \/ T.crop.y + T.crop.h > T.area.h THEN T.area
    ELSE from_coords(T.area.x + T.crop.x, T.area.y + T.crop.y, T.crop.w, T.crop.h)

(* Exif: the sides of the scene that the first stored row and the first     *)
(* stored column are.                                                       *)
Sides ==
    << <<"top", "left">>, <<"top", "right">>, <<"bottom", "right">>, <<"bottom", "left">>,
       <<"left", "top">>, <<"right", "top">>, <<"right", "bottom">>, <<"left", "bottom">> >>

(* Where the stored pixel is seen in a picture of a size.                   *)
Seen(orientation, size, column, row) ==
    LET sides == Sides[orientation]
        Along(side, i) == CASE side \in {"left", "top"} -> i
                            [] side = "right" -> size.w - 1 - i
                            [] side = "bottom" -> size.h - 1 - i
    IN IF sides[1] \in {"top", "bottom"} THEN <<Along(sides[2], column), Along(sides[1], row)>>
       ELSE <<Along(sides[1], row), Along(sides[2], column)>>

Turned == Or(T.orientation, 1) \in 5 .. 8
SeenSize == IF Turned THEN Dims(Frame.h, Frame.w) ELSE Dims(Frame.w, Frame.h)

ColourOf(o, x, y) ==
    LET sensor == IF T.linear = None THEN MosaicColour(o, x, y) ELSE LinearColour(o, x, y)
    IN [c \in 1 .. 3 |-> Toned(o, Srgb(o, sensor)[c])]

(* Without interpolation there is one answer, and for a flat scene there is *)
(* one with it: the filters and demosaicing have nothing to change but the  *)
(* defects.                                                                 *)
Determined(o) ==
    IF T.flat # None THEN o.bad_pixel_correction # None
    ELSE /\ T.linear # None \/ o.demosaic = "None"
         /\ o.bad_pixel_correction = None /\ o.denoise_sigma = None /\ o.ca_correction = None
         /\ T.pattern = "X-Trans" => o.white_balance = None

(* Every pixel process returns is that of its sensor position: black, gains *)
(* range, colour and tone once each and in this order, for the area and the *)
(* crop of the file, turned to be seen upright; a file whose samples cannot *)
(* be decoded is an error (mod.rs, process).                                *)
RenderedExactly ==
    (Answer("process") /\ ~IsReopened /\ Determined(answer.options)) =>
        LET image == answer.value
        IN IF ~T.pixels /\ T.linear = None THEN image = Error
           ELSE /\ ~Failed(image)
                /\ Dims(image.w, image.h) = SeenSize
                /\ Len(image.data) = 3 * image.w * image.h
                /\ \A column \in 0 .. Frame.w - 1, row \in 0 .. Frame.h - 1 :
                       LET p == Seen(Or(T.orientation, 1), SeenSize, column, row)
                       IN PixelAt(image, p[1], p[2]) =
                              ColourOf(answer.options, Frame.x + column, Frame.y + row)

(* A scene at the level the file says is white is white in the picture.     *)
(* tonemap.rs:7 says of the curve "so that sensor white always maps to      *)
(* display white": process hands it the sensor's white as 65535.            *)
SensorWhiteIsDisplayWhite ==
    (Answer("process") /\ T.flat = T.white) => \A i \in DOMAIN answer.value.data :
                                                   answer.value.data[i] = u16_MAX

-----------------------------------------------------------------------------
(* What is written is the picture: the high byte of every sample, or all of *)
(* it; with the camera's Exif, except that it says upright where the        *)
(* picture was turned, once; with the packet it was given.  A DNG reads     *)
(* back as the same samples, not to be turned (mod.rs, export; encode.rs;   *)
(* metadata exif.rs; dng encode.rs).                                        *)
Pixels8Or16(image, out, depth) ==
    /\ out.w = image.w /\ out.h = image.h
    /\ out.bits = IF out.format \in EightBitFormats THEN 8 ELSE depth
    /\ out.data = [i \in DOMAIN image.data |->
                      IF out.bits = 8 THEN image.data[i] \div 256 ELSE image.data[i]]

ExifAsTaken(tags) ==
    LET Tag(t) == IF t \in DOMAIN tags THEN tags[t] ELSE None
        ifd0 == file.dirs[file.chain[1]]
    IN /\ Tag("Orientation") = IF T.orientation = None THEN None ELSE 1
       /\ Tag("ISOSpeedRatings") = T.iso
       /\ file.chain # None => /\ Tag("Make") = ifd0["Make"].v[1]
                               /\ Tag("Model") = ifd0["Model"].v[1]

(* The codec's file whose location table cannot hold another item.          *)
NoRoom(job) == job.encoding.format = "Avif" /\ BoxOf(job.coded, "iloc").offset_size = 2

ReadsBack(image, dng) ==
    /\ raw.format = "Dng" /\ is_linear_raw_dng
    /\ linear_image.w = image.w /\ linear_image.h = image.h /\ linear_image.data = image.data
    /\ Or(metadata.orientation, 1) = 1 /\ metadata.crop = None
    /\ metadata.unique_camera_model # None

ExportReadsBack ==
    exported # None =>
        LET job == exported.job
            out == exported.file
            opts == job.encoding
        IN IF opts.format = "Dng" THEN (IsReopened /\ Opened) => ReadsBack(exported.image, out.dng)
           ELSE /\ Pixels8Or16(exported.image, out, opts.bit_depth)
                /\ (opts.embed_exif /\ ~NoRoom(job)) => out.exif # None
                /\ out.exif # None => ExifAsTaken(out.exif)
                /\ (opts.embed_xmp /\ job.xmp = "packet") => out.xmp = "packet"

(* After the metadata has been spliced into an AVIF file, in whatever order *)
(* and widths the codec wrote its boxes, every header states the size of    *)
(* its box and the location table still points at the data of every item;   *)
(* the Exif item has an id of its own and describes the primary item, the   *)
(* picture has one colour box, and a property that was there before the     *)
(* colour box was replaced keeps its index (isobmff.rs, icc.rs).            *)
AvifItemsIntact ==
    (exported # None /\ exported.job.encoding.format = "Avif") =>
        LET job == exported.job
            c == exported.file.avif
            items == BoxOf(c, "iinf").items
            exif == {i \in DOMAIN items : items[i].type = "Exif"}
            props == BoxOf(c, "iprp").props
            before == BoxOf(job.coded, "iprp").props
            Colr(s) == {i \in DOMAIN s : s[i].type = "colr"}
        IN /\ SizesTrue(c) /\ ItemsFound(c)
           /\ SubSeq(c.after, 1, Len(job.coded.after)) = job.coded.after
           /\ Cardinality({items[i].id : i \in DOMAIN items}) = Len(items)
           /\ (job.encoding.embed_exif /\ ~NoRoom(job)) => Cardinality(exif) = 1
           /\ \A i \in exif : \E k \in DOMAIN BoxOf(c, "iref").refs :
                  BoxOf(c, "iref").refs[k] = [from |-> items[i].id, to |-> BoxOf(c, "pitm").id]
           /\ find_box(job.coded, "iref") # 0 =>
                  SubSeq(BoxOf(c, "iref").refs, 1, Len(BoxOf(job.coded, "iref").refs))
                      = BoxOf(job.coded, "iref").refs
           /\ job.encoding.embed_icc => Cardinality(Colr(props)) = 1
           /\ Colr(before) # {} => \A i \in DOMAIN before \ Colr(before) : props[i] = before[i]
=============================================================================
