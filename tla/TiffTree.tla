------------------------------ MODULE TiffTree ------------------------------
(* The directory tree of a TIFF file, as crates/rawshift-image-ifd builds   *)
(* it (lib.rs): the top-level chain, the sub-directories its pointer tags   *)
(* name, and the readers every TIFF-based decoder takes its tags through.   *)
(*                                                                          *)
(* A file is a record [order, chain, dirs, blobs, len]:                     *)
(*   chain  the offsets of the top-level directories, or None when the      *)
(*          header or the chain itself cannot be read;                      *)
(*   dirs   the directories that can be read, by offset: a function from    *)
(*          tag names to values [t |-> type, v |-> elements];               *)
(*   blobs  what the byte ranges hold, by offset: [size, ...];              *)
(*   len    the length of the file.                                         *)
(* A directory of the tree is [tags, subs]: its fields, and its groups of   *)
(* sub-directories by pointer tag.  Reading the bytes of a directory is     *)
(* gamut-ifd's and external.                                                *)
EXTENDS SensorImage, SequencesExt

CONSTANT MAX_SUB_IFD_DEPTH  \* how deep pointers are followed

ASSUME DepthAssumption == MAX_SUB_IFD_DEPTH \in Nat

POINTER_TAGS == <<"SubIFDs", "Exif", "GPS">>

Value(t, v) == [t |-> t, v |-> v]

Has(dir, tag) == tag \in DOMAIN dir.tags
Get(dir, tag) == IF Has(dir, tag) THEN dir.tags[tag] ELSE None

-----------------------------------------------------------------------------
(* Building the tree.                                                       *)

(* Pointers are LONG, IFD, LONG8 or IFD8; any other type is not a pointer.  *)
IsPointer(value) == value # None /\ value.t \in {"Long", "Ifd", "Long8", "Ifd8"}

(* Mutant: a directory that was visited is read again.                      *)
Follows_Again(offset, visited) == offset # 0

Follows(offset, visited) == offset # 0 /\ offset \notin visited

(* One directory with its pointers resolved, and the offsets visited so     *)
(* far: each offset is visited before it is read, a child that cannot be    *)
(* read is skipped, and a pointer that was looked at is removed.            *)
RECURSIVE resolve_pointers(_, _, _, _)
resolve_pointers(file, dir, visited, depth) ==
    LET Child(acc, offset) ==
            IF ~Follows(offset, acc.visited) THEN acc
            ELSE IF offset \notin DOMAIN file.dirs
                 THEN [acc EXCEPT !.visited = @ \union {offset}]
                 ELSE LET r == resolve_pointers(file, [tags |-> file.dirs[offset], subs |-> <<>>],
                                                acc.visited \union {offset}, depth + 1)
                      IN [visited |-> r.visited, children |-> Append(acc.children, r.dir)]
        Group(acc, tag) ==
            IF ~IsPointer(Get(acc.dir, tag)) THEN acc
            ELSE LET r == FoldLeft(Child, [visited |-> acc.visited, children |-> <<>>],
                                   acc.dir.tags[tag].v)
                 IN [visited |-> r.visited,
                     dir |-> [tags |-> [t \in DOMAIN acc.dir.tags \ {tag} |-> acc.dir.tags[t]],
                              subs |-> IF r.children = <<>> THEN acc.dir.subs
                                       ELSE Append(acc.dir.subs,
                                                   [tag |-> tag, ifds |-> r.children])]]
    IN IF depth > MAX_SUB_IFD_DEPTH THEN [dir |-> dir, visited |-> visited]
       ELSE FoldLeft(Group, [dir |-> dir, visited |-> visited], POINTER_TAGS)

(* The chain with every directory's pointers resolved, one visited list for *)
(* the whole file; None when the chain cannot be read.                      *)
parse_tree(file) ==
    LET Top(acc, offset) ==
            LET r == resolve_pointers(file, [tags |-> file.dirs[offset], subs |-> <<>>],
                                      acc.visited, 0)
            IN [ifds |-> Append(acc.ifds, r.dir), visited |-> r.visited]
    IN IF file.chain = None THEN None
       ELSE FoldLeft(Top, [ifds |-> <<>>, visited |-> {}], file.chain).ifds

(* Every directory of the tree, parents before their children.              *)
RECURSIVE flatten_ifds(_)
flatten_ifds(ifds) ==
    FlattenSeq([i \in DOMAIN ifds |->
        <<ifds[i]>> \o FlattenSeq([g \in DOMAIN ifds[i].subs |->
                                       flatten_ifds(ifds[i].subs[g].ifds)])])

sub_ifd_group(dir, tag) ==
    LET groups == SelectSeq(dir.subs, LAMBDA g : g.tag = tag)
    IN IF groups = <<>> THEN <<>> ELSE groups[1].ifds

FirstOf(s) == IF s = <<>> THEN None ELSE s[1]
exif_ifd(ifd0) == FirstOf(sub_ifd_group(ifd0, "Exif"))
gps_ifd(ifd0)  == FirstOf(sub_ifd_group(ifd0, "GPS"))

-----------------------------------------------------------------------------
(* Reading tags.                                                            *)

(* gamut-ifd's Value::as_u32 and as_u64: the one element of an integer      *)
(* value.                                                                   *)
Scalar(value) ==
    IF value # None /\ value.t \in {"Byte", "Short", "Long", "Ifd"} /\ Len(value.v) = 1
    THEN value.v[1] ELSE None

Or(value, default) == IF value = None THEN default ELSE value

(* The first element of a BYTE, SHORT, LONG or IFD value.                   *)
first_u32(dir, tag) ==
    IF Has(dir, tag) /\ dir.tags[tag].t \in {"Byte", "Short", "Long", "Ifd"}
    THEN FirstOf(dir.tags[tag].v) ELSE None

(* All the elements of an integer value.                                    *)
u32_vec(dir, tag) ==
    IF Has(dir, tag) /\ dir.tags[tag].t \in {"Byte", "Short", "Long", "Ifd"}
    THEN dir.tags[tag].v ELSE None

(* A LONG is cut to its low 16 bits, and a SHORT to 8 in u8_tag.            *)
u16_tag(dir, tag) ==
    IF Has(dir, tag) /\ dir.tags[tag].t \in {"Byte", "Short", "Long"} /\ dir.tags[tag].v # <<>>
    THEN dir.tags[tag].v[1] % 65536 ELSE None
u8_tag(dir, tag) ==
    IF Has(dir, tag) /\ dir.tags[tag].t \in {"Byte", "Short"} /\ dir.tags[tag].v # <<>>
    THEN dir.tags[tag].v[1] % 256 ELSE None

(* Texts are members of a small set; ASCII fields hold one.  Rationals are  *)
(* kept as they are, the first of the field or its first three.             *)
ascii_tag(dir, tag) ==
    IF Has(dir, tag) /\ dir.tags[tag].t = "Ascii" THEN dir.tags[tag].v[1] ELSE None
urational_tag(dir, tag) ==
    IF Has(dir, tag) /\ dir.tags[tag].t = "Rational" THEN FirstOf(dir.tags[tag].v) ELSE None
srational_tag(dir, tag) ==
    IF Has(dir, tag) /\ dir.tags[tag].t = "SRational" THEN FirstOf(dir.tags[tag].v) ELSE None
urational3_tag(dir, tag) ==
    IF Has(dir, tag) /\ dir.tags[tag].t = "Rational" /\ Len(dir.tags[tag].v) >= 3
    THEN SubSeq(dir.tags[tag].v, 1, 3) ELSE None

-----------------------------------------------------------------------------
(* Reading bytes.                                                           *)

(* The range offset..offset+size-1, or None when it leaves the file.        *)
read_range(file, offset, size) ==
    IF offset + size > file.len THEN None
    ELSE IF size = 0 THEN [size |-> 0]
    ELSE IF offset \in DOMAIN file.blobs THEN file.blobs[offset] @@ [size |-> size]
    ELSE [size |-> size]

(* The preview named by the JPEGInterchangeFormat pair: None when a part    *)
(* of the pair is missing or it is empty, an error when it leaves the file. *)
jpeg_thumbnail(file, ifd0) ==
    LET offset == first_u32(ifd0, "JPEGInterchangeFormat")
        length == first_u32(ifd0, "JPEGInterchangeFormatLength")
    IN IF None \in {offset, length} \/ length = 0 THEN None
       ELSE IF read_range(file, offset, length) = None THEN Error
       ELSE offset

-----------------------------------------------------------------------------
(* The metadata every TIFF-based decoder takes.                             *)

extract_exif(ifd0) ==
    LET exif == exif_ifd(ifd0)
    IN IF exif = None THEN None
       ELSE [iso                   |-> u16_tag(exif, "ISOSpeedRatings"),
             exposure_time         |-> urational_tag(exif, "ExposureTime"),
             f_number              |-> urational_tag(exif, "FNumber"),
             focal_length          |-> urational_tag(exif, "FocalLength"),
             focal_length_35mm     |-> u16_tag(exif, "FocalLengthIn35mmFilm"),
             exposure_program      |-> u16_tag(exif, "ExposureProgram"),
             metering_mode         |-> u16_tag(exif, "MeteringMode"),
             flash                 |-> u16_tag(exif, "Flash"),
             exposure_compensation |-> srational_tag(exif, "ExposureBiasValue"),
             max_aperture          |-> urational_tag(exif, "MaxApertureValue"),
             brightness_value      |-> srational_tag(exif, "BrightnessValue")]

extract_datetime(ifd0) ==
    LET exif == exif_ifd(ifd0)
        InExif(tag) == IF exif = None THEN None ELSE ascii_tag(exif, tag)
    IN [modify_date |-> ascii_tag(ifd0, "DateTime"),
        create_date |-> InExif("DateTimeDigitized"),
        datetime_original |-> InExif("DateTimeOriginal"),
        offset_time |-> Or(InExif("OffsetTimeOriginal"), InExif("OffsetTime")),
        subsec_time |-> Or(InExif("SubSecTimeOriginal"), InExif("SubSecTime"))]

extract_gps(ifd0) ==
    LET gps == gps_ifd(ifd0)
    IN IF gps = None THEN None
       ELSE [latitude      |-> urational3_tag(gps, "GPSLatitude"),
             latitude_ref  |-> ascii_tag(gps, "GPSLatitudeRef"),
             longitude     |-> urational3_tag(gps, "GPSLongitude"),
             longitude_ref |-> ascii_tag(gps, "GPSLongitudeRef"),
             altitude      |-> urational_tag(gps, "GPSAltitude"),
             altitude_ref  |-> u8_tag(gps, "GPSAltitudeRef"),
             timestamp     |-> urational3_tag(gps, "GPSTimeStamp"),
             datestamp     |-> ascii_tag(gps, "GPSDateStamp"),
             speed         |-> urational_tag(gps, "GPSSpeed"),
             img_direction |-> urational_tag(gps, "GPSImgDirection")]

extract_lens_info(ifd0) ==
    LET exif == exif_ifd(ifd0)
    IN IF exif = None THEN <<None, None>>
       ELSE <<ascii_tag(exif, "LensMake"), ascii_tag(exif, "LensModel")>>

extract_orientation(ifd0) == u16_tag(ifd0, "Orientation")
=============================================================================
