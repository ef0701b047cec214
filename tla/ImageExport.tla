---------------------------- MODULE ImageExport ----------------------------
(* Pictures written to files: formats/encode.rs of                          *)
(* crates/rawshift-image, and the Exif model it embeds                      *)
(* (crates/rawshift-image-metadata/src/{exif,bridge}.rs).                   *)
(*                                                                          *)
(* The codecs themselves are gamut's and external: an encoded file is what  *)
(* they were given, [format, w, h, data, bits, icc, exif, xmp, boxed,       *)
(* avif].  A file that could not be made is Error.                          *)
EXTENDS DngFile, HeifItems

CONSTANTS IccLength, ExifLength, XmpLength  \* what the three blocks occupy

-----------------------------------------------------------------------------
(* Exif: a function from tags to values.                                    *)

Only(table) ==
    LET said == SelectSeq(table, LAMBDA row : row[2] # None)
    IN [t \in {said[i][1] : i \in DOMAIN said} |->
           said[CHOOSE i \in DOMAIN said : said[i][1] = t][2]]

NonEmpty(text) == IF text = "" THEN None ELSE text
Field(record, name) == IF record = None THEN None ELSE record[name]

build_gps(gps) ==
    << <<"GPSLatitude", Field(gps, "latitude")>>, <<"GPSLatitudeRef", Field(gps, "latitude_ref")>>,
       <<"GPSLongitude", Field(gps, "longitude")>>,
       <<"GPSLongitudeRef", Field(gps, "longitude_ref")>>,
       <<"GPSAltitude", Field(gps, "altitude")>>, <<"GPSAltitudeRef", Field(gps, "altitude_ref")>>,
       <<"GPSTimeStamp", Field(gps, "timestamp")>>, <<"GPSDateStamp", Field(gps, "datestamp")>>,
       <<"GPSSpeed", Field(gps, "speed")>>, <<"GPSImgDirection", Field(gps, "img_direction")>> >>

(* ExifBuilder::build: every field that is there becomes its tag.           *)
build(meta) ==
    Only(<< <<"Make", NonEmpty(meta.make)>>, <<"Model", NonEmpty(meta.model)>>,
            <<"LensMake", meta.lens[1]>>, <<"LensModel", meta.lens[2]>>,
            <<"BodySerialNumber", meta.serial_number>>,
            <<"ISOSpeedRatings", Field(meta.exif, "iso")>>,
            <<"ExposureTime", Field(meta.exif, "exposure_time")>>,
            <<"FNumber", Field(meta.exif, "f_number")>>,
            <<"FocalLength", Field(meta.exif, "focal_length")>>,
            <<"FocalLengthIn35mmFilm", Field(meta.exif, "focal_length_35mm")>>,
            <<"ExposureProgram", Field(meta.exif, "exposure_program")>>,
            <<"MeteringMode", Field(meta.exif, "metering_mode")>>,
            <<"Flash", Field(meta.exif, "flash")>>,
            <<"ExposureBiasValue", Field(meta.exif, "exposure_compensation")>>,
            <<"MaxApertureValue", Field(meta.exif, "max_aperture")>>,
            <<"BrightnessValue", Field(meta.exif, "brightness_value")>>,
            <<"DateTimeOriginal", Field(meta.datetime, "datetime_original")>>,
            <<"DateTimeDigitized", Field(meta.datetime, "create_date")>>,
            <<"DateTime", Field(meta.datetime, "modify_date")>>,
            <<"OffsetTime", Field(meta.datetime, "offset_time")>>,
            <<"SubSecTime", Field(meta.datetime, "subsec_time")>> >>
         \o build_gps(meta.gps)
         \o << <<"Orientation", meta.orientation>> >>)

-----------------------------------------------------------------------------
(* Encoding.                                                                *)

EightBitFormats == {"Jpeg", "WebP", "Avif"}

(* The depth a file is written with; the backends of eight bits take 16 and *)
(* write the high bytes, other depths are refused.                          *)
OutputBits(format, depth) ==
    IF depth \notin {8, 16} THEN Error ELSE IF format \in EightBitFormats THEN 8 ELSE depth

(* Mutant: the low byte of a sample.                                        *)
pack_rgb8_LowByte(image) == [i \in DOMAIN image.data |-> image.data[i] % 256]

pack_rgb8(image) == [i \in DOMAIN image.data |-> image.data[i] \div 256]

Picture(image, meta, opts) ==
    LET bits == OutputBits(opts.format, opts.bit_depth)
    IN [format |-> opts.format, w |-> image.w, h |-> image.h, bits |-> bits,
        data |-> IF bits = 8 THEN pack_rgb8(image) ELSE image.data,
        icc |-> opts.embed_icc, exif |-> IF opts.embed_exif THEN build(meta) ELSE None,
        xmp |-> None, boxed |-> FALSE, avif |-> None]

(* XMP is "packet", or "text" that is not one, or "bytes" that are no text; *)
(* what a format cannot carry is left out, and the picture written.         *)
WithXmp(picture, meta, opts, kinds) ==
    IF opts.embed_xmp /\ meta.xmp \in kinds THEN [picture EXCEPT !.xmp = meta.xmp] ELSE picture

encode_png(image, meta, opts) == WithXmp(Picture(image, meta, opts), meta, opts, {"packet", "text"})
encode_jpeg(image, meta, opts) == WithXmp(Picture(image, meta, opts), meta, opts, {"packet"})

(* to_gamut drops a malformed packet.                                       *)
encode_webp(image, meta, opts) == WithXmp(Picture(image, meta, opts), meta, opts, {"packet"})

(* Metadata needs the boxed form, which can be asked for without any.       *)
encode_jxl(image, meta, opts) ==
    LET p == WithXmp(Picture(image, meta, opts), meta, opts, {"packet", "text"})
    IN IF opts.effort \notin 1 .. 10 THEN Error
       ELSE [p EXCEPT !.boxed = opts.use_container \/ p.exif # None \/ p.xmp # None]

(* The profile, then Exif, then XMP are spliced into what the codec wrote;  *)
(* one that cannot be is left out.                                          *)
Tried(c, spliced) == IF spliced = Error THEN c ELSE spliced

WithIcc(c, opts) == IF opts.embed_icc THEN Tried(c, append_icc_to_avif(c, IccLength)) ELSE c
WithExif(c, opts) == IF opts.embed_exif THEN Tried(c, insert_item(c, "Exif", ExifLength)) ELSE c
WithXml(c, opts, xmp) ==
    IF opts.embed_xmp /\ xmp # None THEN Tried(c, append_xmp_to_avif(c, xmp = "packet", XmpLength))
    ELSE c

WithMetadata(coded, opts, xmp) == WithXml(WithExif(WithIcc(coded, opts), opts), opts, xmp)

encode_avif(image, meta, opts, coded) ==
    LET c == WithMetadata(coded, opts, meta.xmp)
        items == BoxOf(c, "iinf").items
        inserted == find_box(c, "iinf") # 0 /\ \E i \in DOMAIN items : items[i].type = "Exif"
        p == WithXmp(Picture(image, meta, opts), meta, opts, {"packet"})
    IN [p EXCEPT !.avif = c, !.icc = @ /\ find_box(c, "iprp") # 0,
                 !.exif = IF inserted THEN @ ELSE None]

encode_rgb_image(image, meta, opts, coded) ==
    IF opts.format # "Dng" /\ OutputBits(opts.format, opts.bit_depth) = Error THEN Error
    ELSE CASE opts.format = "Png"  -> encode_png(image, meta, opts)
           [] opts.format = "Jpeg" -> encode_jpeg(image, meta, opts)
           [] opts.format = "WebP" -> encode_webp(image, meta, opts)
           [] opts.format = "Avif" -> encode_avif(image, meta, opts, coded)
           [] opts.format = "Jxl"  -> encode_jxl(image, meta, opts)
           [] opts.format = "Dng"  -> [format |-> "Dng"] @@ encode_dng(image, meta, opts.embed_exif)
=============================================================================
