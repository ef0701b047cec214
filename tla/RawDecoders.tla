---------------------------- MODULE RawDecoders ----------------------------
(* The RAW decoders whose container is a TIFF file: Sony ARW, Canon CR2 and *)
(* Nikon NEF (crates/rawshift-image-{arw,cr2,nef}/src/decoder.rs).  A file  *)
(* is a TiffTree file; parse gives metadata or an error, and decode_raw the *)
(* sensor image.  An error is Error.                                   *)
(*                                                                          *)
(* A blob that is a lossless JPEG stream is [ljpeg |-> samples] with the    *)
(* samples of the picture it holds, or [ljpeg |-> None]: the decoding   *)
(* itself is module LjpegDecoder.  A blob of plain samples is               *)
(* [bytes |-> bytes].                                                       *)
EXTENDS TiffTree

(* The brands the Make texts contain, whatever their case.                  *)
SonyMakes  == {"SONY", "Sony"}
CanonMakes == {"Canon", "CANON"}
NikonMakes == {"NIKON CORPORATION", "Nikon"}

(* All that extract_metadata of a decoder reports, at its defaults.         *)
NoImageMetadata ==
    [make |-> "", model |-> "", unique_camera_model |-> None, lens |-> <<None, None>>,
     serial_number |-> None, exif |-> None, datetime |-> None, gps |-> None, xmp |-> None,
     as_shot_neutral |-> None, color_matrix_1 |-> None, color_matrix_2 |-> None,
     baseline_exposure |-> None, orientation |-> None, bit_depth |-> 14,
     black_levels |-> <<>>, white_level |-> None, crop |-> None]

-----------------------------------------------------------------------------
(* What the decoders share.                                                 *)

Pixels(dir) == Or(first_u32(dir, "ImageWidth"), 0) * Or(first_u32(dir, "ImageLength"), 0)

(* The largest of some directories, the first one of them; None of none.    *)
LargestOf(dirs) ==
    IF dirs = <<>> THEN None
    ELSE dirs[CHOOSE i \in DOMAIN dirs :
                 /\ \A j \in DOMAIN dirs : Pixels(dirs[i]) >= Pixels(dirs[j])
                 /\ \A j \in 1 .. i - 1 : Pixels(dirs[i]) > Pixels(dirs[j])]

SubIfds(ifds) == FlattenSeq([i \in DOMAIN ifds |-> sub_ifd_group(ifds[i], "SubIFDs")])

CfaOf(dir) ==
    LET cells == Get(dir, "CFAPattern")
    IN IF cells # None /\ cells.t \in {"Byte", "Undefined"} /\ Len(cells.v) >= 4
       THEN Or(from_array(SubSeq(cells.v, 1, 4)), "RGGB") ELSE "RGGB"

(* BlackLevel: four values or more are the pattern, one is uniform, and any *)
(* other value of the tag means zero.                                       *)
BlackLevels(dir, default) ==
    LET v == u32_vec(dir, "BlackLevel")
    IN IF ~Has(dir, "BlackLevel") THEN [i \in 1 .. 4 |-> default]
       ELSE IF v # None /\ Len(v) >= 4 THEN [i \in 1 .. 4 |-> v[i] % 65536]
       ELSE IF v # None /\ Len(v) = 1 THEN [i \in 1 .. 4 |-> v[1] % 65536]
       ELSE [i \in 1 .. 4 |-> 0]

(* The one strip; a file with several strips has no scalar to read.         *)
Strip(dir) ==
    IF Has(dir, "StripOffsets") /\ Has(dir, "StripByteCounts")
    THEN [offset |-> Or(Scalar(Get(dir, "StripOffsets")), 0),
          size   |-> Or(Scalar(Get(dir, "StripByteCounts")), 0)]
    ELSE [offset |-> 0, size |-> 0]

(* LjpegDecoder::decode of a blob, asked for w x h samples.                 *)
Ljpeg(blob, w, h) ==
    IF "ljpeg" \notin DOMAIN blob \/ blob.ljpeg = None THEN Error ELSE blob.ljpeg

RawImageOf(m, data) ==
    [RawImageNew(m.size, m.active_area, m.bit_depth, m.cfa_pattern) EXCEPT
        !.black_levels = m.black_levels, !.white_level = m.white_level, !.data = data]

(* One strip of lossless JPEG, which must hold exactly the sensor's samples.*)
DecodeStrip(file, m) ==
    LET blob == read_range(file, m.raw.offset, m.raw.size)
        samples == IF blob = None THEN Error ELSE Ljpeg(blob, m.size.w, m.size.h)
    IN IF samples = Error \/ Len(samples) # num_pixels(m.size) THEN Error
       ELSE RawImageOf(m, samples)

Levels(m) ==
    [NoImageMetadata EXCEPT !.make = m.make, !.model = m.model, !.bit_depth = m.bit_depth,
        !.black_levels = m.black_levels, !.white_level = m.white_level, !.crop = m.active_area]

-----------------------------------------------------------------------------
(* Sony ARW.                                                                *)

ArwRawIfd(ifds) ==
    LargestOf(SelectSeq(SubIfds(ifds),
                        LAMBDA d : Scalar(Get(d, "Photometric")) = 32803))

ArwActiveArea(raw, w, h) ==
    LET origin == u32_vec(raw, "DefaultCropOrigin")
        size   == u32_vec(raw, "DefaultCropSize")
    IN IF None \notin {origin, size} /\ Len(origin) >= 2 /\ Len(size) >= 2
       THEN from_coords(origin[1], origin[2], size[1], size[2])
       ELSE from_coords(0, 0, w, h)

(* Gains R, G, G, B of the camera as the neutral of the scene: green is the *)
(* mean of the two, and the neutral of a channel the green gain over its    *)
(* own, a fraction [n, d].                                                  *)
Neutral(g) ==
    <<[n |-> g[2] + g[3], d |-> 2 * g[1]], [n |-> 1, d |-> 1],
      [n |-> g[2] + g[3], d |-> 2 * g[4]]>>

(* WB_RGGBLevels in the raw directory: the two greens may not both be zero. *)
NeutralOfRawIfd(raw) ==
    LET wb == Get(raw, "WB_RGGBLevels")
    IN IF /\ wb # None /\ wb.t \in {"SShort", "Short"} /\ Len(wb.v) >= 4
          /\ wb.v[1] > 0 /\ wb.v[2] + wb.v[3] > 0 /\ wb.v[4] > 0
       THEN Neutral(wb.v) ELSE None

(* One 0x7313 entry of the maker note, at[offset] being what the bytes of   *)
(* an offset hold: read in the file, and in the note when the file's first  *)
(* two values are zero.  Every value must be positive.                      *)
NeutralOfEntry(file, note, offset, before) ==
    LET In(block) == IF offset \in DOMAIN block THEN block[offset] ELSE None
        inFile == In(file.words)
        found  == inFile # None /\ (inFile[1] > 0 \/ inFile[2] > 0)
        gains  == IF found THEN inFile
                  ELSE IF In(note.words) # None THEN In(note.words)
                  ELSE Or(inFile, <<0, 0, 0, 0>>)
    IN IF \A i \in 1 .. 4 : gains[i] > 0 THEN Neutral(gains) ELSE before

(* The maker note is in the Exif directory, or in IFD0 when there is none;  *)
(* each of its entries is looked at, the last good one wins.                *)
NeutralOfMakerNote(file, ifd0) ==
    LET dir == IF exif_ifd(ifd0) # None THEN exif_ifd(ifd0) ELSE ifd0
        note == Get(dir, "MakerNote")
    IN IF note = None \/ note.t # "Undefined" THEN None
       ELSE FoldLeft(LAMBDA acc, e : IF e.tag = "WB_RGGBLevels"
                                     THEN NeutralOfEntry(file, note.v[1], e.offset, acc) ELSE acc,
                     None, note.v[1].entries)

(* The SR2 directory at an absolute offset, read when nothing else spoke.   *)
NeutralOfSr2(file, ifd0) ==
    LET pointer == Get(ifd0, "SR2Private")
        offset == IF pointer # None /\ pointer.t \in {"Long", "Ifd", "Short"} /\ pointer.v # <<>>
                  THEN pointer.v[1] ELSE None
        wb == IF offset \in DOMAIN file.dirs /\ "WB_RGGBLevels" \in DOMAIN file.dirs[offset]
              THEN file.dirs[offset]["WB_RGGBLevels"] ELSE None
    IN IF /\ wb # None /\ wb.t = "Short" /\ Len(wb.v) >= 4
          /\ \A i \in 1 .. 4 : wb.v[i] > 0
       THEN Neutral(wb.v) ELSE None

ArwNeutral(file, ifd0, raw) ==
    Or(NeutralOfRawIfd(raw), Or(NeutralOfMakerNote(file, ifd0), NeutralOfSr2(file, ifd0)))

ArwExtract(file, ifds, ifd0, raw) ==
    LET w == first_u32(raw, "ImageWidth")
        h == first_u32(raw, "ImageLength")
        depth == Or(Scalar(Get(raw, "BitsPerSample")), 14) % 256
    IN IF None \in {w, h} THEN Error
       ELSE [make |-> Or(ascii_tag(ifd0, "Make"), ""), model |-> Or(ascii_tag(ifd0, "Model"), ""),
             size |-> Dims(w, h), active_area |-> ArwActiveArea(raw, w, h), bit_depth |-> depth,
             cfa_pattern |-> CfaOf(raw),
             compression |-> Or(first_u32(raw, "Compression"), 1) % 65536,
             black_levels |-> BlackLevels(raw, 512),
             white_level |-> Or(Scalar(Get(raw, "WhiteLevel")),
                                white_level_from_bit_depth(depth)) % 65536,
             raw |-> Strip(raw),
             tile |-> Dims(Or(first_u32(raw, "TileWidth"), 0), Or(first_u32(raw, "TileLength"), 0)),
             tile_offsets |-> Or(u32_vec(raw, "TileOffsets"), <<>>),
             tile_byte_counts |-> Or(u32_vec(raw, "TileByteCounts"), <<>>),
             as_shot_neutral |-> ArwNeutral(file, ifd0, raw),
             exif |-> extract_exif(ifd0), datetime |-> extract_datetime(ifd0),
             gps |-> extract_gps(ifd0), lens |-> extract_lens_info(ifd0),
             orientation |-> extract_orientation(ifd0)]

ArwParse(file) ==
    LET ifds == parse_tree(file)
    IN IF ifds = None \/ ifds = <<>> THEN Error
       ELSE IF Or(ascii_tag(ifds[1], "Make"), "") \notin SonyMakes THEN Error
       ELSE IF ArwRawIfd(ifds) = None THEN Error
       ELSE ArwExtract(file, ifds, ifds[1], ArwRawIfd(ifds))

(* The tiles, left to right and top to bottom, each copied to its place and *)
(* clipped to the picture.  A tile that cannot be decoded is black; one     *)
(* that cannot be read fails the picture; one that is missing stays black.  *)
(* A tile behind the last row of the grid changes nothing, as in a release  *)
(* build, where `height - tile_y` wraps (a debug build panics).             *)
TileSamples(file, m, k) ==
    LET blob == read_range(file, m.tile_offsets[k], m.tile_byte_counts[k])
    IN IF blob = None THEN Error
       ELSE IF Ljpeg(blob, m.tile.w, m.tile.h) = Error
            THEN [i \in 1 .. num_pixels(m.tile) |-> 0]
       ELSE Ljpeg(blob, m.tile.w, m.tile.h)

TileAt(m, x, y) ==
    ((y \div m.tile.h) * ((m.size.w + m.tile.w - 1) \div m.tile.w)) + (x \div m.tile.w) + 1
InTile(m, x, y) == ((y % m.tile.h) * m.tile.w) + (x % m.tile.w) + 1

DecodeTiles(file, m) ==
    LET count == Least(Len(m.tile_offsets), Len(m.tile_byte_counts))
        tiles == [k \in 1 .. count |-> TileSamples(file, m, k)]
        At(x, y) == IF TileAt(m, x, y) \in 1 .. count
                       /\ InTile(m, x, y) \in DOMAIN tiles[TileAt(m, x, y)]
                    THEN tiles[TileAt(m, x, y)][InTile(m, x, y)] ELSE 0
    IN IF \E k \in 1 .. count : tiles[k] = Error THEN Error
       ELSE RawImageOf(m, [i \in 1 .. num_pixels(m.size) |->
                               At((i - 1) % m.size.w, (i - 1) \div m.size.w)])

ArwDecode(file, m) ==
    IF m.compression # 7 THEN Error
    ELSE IF m.tile_offsets # <<>> /\ m.tile.w > 0 /\ m.tile.h > 0 THEN DecodeTiles(file, m)
    ELSE DecodeStrip(file, m)

ArwMetadata(m) ==
    [Levels(m) EXCEPT !.lens = m.lens, !.exif = m.exif, !.datetime = m.datetime, !.gps = m.gps,
                      !.as_shot_neutral = m.as_shot_neutral, !.orientation = m.orientation]

ArwThumbnail(file) == jpeg_thumbnail(file, parse_tree(file)[1])

-----------------------------------------------------------------------------
(* Canon CR2.                                                               *)

IsCr2Raw(dir) == Or(first_u32(dir, "Compression"), 0) % 65536 = 6 /\ Pixels(dir) > 0

(* The fourth directory, else the largest one that is compressed like it.   *)
Cr2RawIfd(ifds) ==
    IF Len(ifds) >= 4 /\ IsCr2Raw(ifds[4]) THEN ifds[4]
    ELSE LargestOf(SelectSeq(ifds, IsCr2Raw))

Cr2Extract(ifd0, raw) ==
    LET size == Dims(first_u32(raw, "ImageWidth"), first_u32(raw, "ImageLength"))
        depth == Or(Scalar(Get(raw, "BitsPerSample")), 14) % 256
    IN IF Strip(raw).offset = 0 \/ Strip(raw).size = 0 THEN Error
       ELSE [make |-> Or(ascii_tag(ifd0, "Make"), ""), model |-> Or(ascii_tag(ifd0, "Model"), ""),
             size |-> size, active_area |-> from_coords(0, 0, size.w, size.h),
             bit_depth |-> depth, cfa_pattern |-> CfaOf(raw),
             black_levels |-> BlackLevels(raw, 0),
             white_level |-> white_level_from_bit_depth(depth), raw |-> Strip(raw)]

Cr2Parse(file) ==
    LET ifds == parse_tree(file)
    IN IF ifds = None \/ ifds = <<>> THEN Error
       ELSE IF Or(ascii_tag(ifds[1], "Make"), "") \notin CanonMakes THEN Error
       ELSE IF Cr2RawIfd(ifds) = None THEN Error
       ELSE Cr2Extract(ifds[1], Cr2RawIfd(ifds))

Cr2Decode(file, m) == DecodeStrip(file, m)
Cr2Metadata(m) == Levels(m)
Cr2Thumbnail(file) == jpeg_thumbnail(file, parse_tree(file)[1])

-----------------------------------------------------------------------------
(* Nikon NEF.                                                               *)

NefRawIfd(ifds) ==
    LargestOf(SelectSeq(SubIfds(ifds),
                        LAMBDA d : LET p == Scalar(Get(d, "Photometric"))
                                   IN IF p # None THEN p = 32803 ELSE Has(d, "CFAPattern")))

(* (0.02 * 2^depth) as u16, which saturates at 65535 from 22 bits on, and    *)
(* where the shift is refused, from 32 bits on, as well.                    *)
NefBlack(depth) == IF depth < 22 THEN (2 ^ depth) \div 50 ELSE u16_MAX

NefExtract(ifd0, raw) ==
    LET w == first_u32(raw, "ImageWidth")
        h == first_u32(raw, "ImageLength")
        depth == Or(first_u32(raw, "BitsPerSample"), 14) % 256
    IN IF None \in {w, h} THEN Error
       ELSE [make |-> Or(ascii_tag(ifd0, "Make"), ""), model |-> Or(ascii_tag(ifd0, "Model"), ""),
             size |-> Dims(w, h), active_area |-> from_coords(0, 0, w, h),
             bit_depth |-> depth, cfa_pattern |-> CfaOf(raw),
             black_levels |-> [i \in 1 .. 4 |-> NefBlack(depth)],
             white_level |-> white_level_from_bit_depth(depth), raw |-> Strip(raw),
             compression |-> Or(first_u32(raw, "Compression"), 1) % 65536]

NefParse(file) ==
    LET ifds == parse_tree(file)
    IN IF ifds = None \/ ifds = <<>> THEN Error
       ELSE IF Or(ascii_tag(ifds[1], "Make"), "") \notin NikonMakes THEN Error
       ELSE IF NefRawIfd(ifds) = None THEN Error
       ELSE NefExtract(ifds[1], NefRawIfd(ifds))

(* Pairs of bytes, low byte first; a last odd byte is dropped.              *)
Words_le(bytes) ==
    [i \in 1 .. Len(bytes) \div 2 |-> bytes[(2 * i) - 1] + (256 * bytes[2 * i])]

DecodeWords(file, m) ==
    LET blob == read_range(file, m.raw.offset, m.raw.size)
        samples == IF blob = None \/ "bytes" \notin DOMAIN blob THEN <<>>
                   ELSE Words_le(SubSeq(blob.bytes, 1, Least(blob.size, Len(blob.bytes))))
    IN IF blob = None \/ Len(samples) # num_pixels(m.size) THEN Error
       ELSE RawImageOf(m, samples)

NefDecode(file, m) ==
    CASE m.compression = 1 -> DecodeWords(file, m)
      [] m.compression \in {6, 34713} -> DecodeStrip(file, m)
      [] OTHER -> Error

NefMetadata(m) == Levels(m)
NefThumbnail(file) == jpeg_thumbnail(file, parse_tree(file)[1])
=============================================================================
