--------------------------- MODULE RawContainers ---------------------------
(* The RAW decoders with containers of their own: Canon CR3 (ISO media      *)
(* boxes), Canon CRW (CIFF) and Fujifilm RAF, as in                         *)
(* crates/rawshift-image-{cr3,crw,raf}/src/decoder.rs.  CR3 and CRW read    *)
(* metadata only: their pixels are not decoded.                             *)
EXTENDS RawDecoders

-----------------------------------------------------------------------------
(* CR3.  boxes[pos] is the box header the bytes at pos spell:               *)
(* [size, ext, type], size 0 and 1 being the two escapes of the format;     *)
(* payload[pos] is what a box read there holds.                             *)

Box(type, offset, size) == [type |-> type, payload_offset |-> offset, payload_size |-> size]

(* One header: the end of the input, an error, or a box.                    *)
read_box_header(file, pos) ==
    LET b == file.boxes[pos]
        header == IF b.size = 1 THEN 16 ELSE 8
        total == CASE b.size = 1 -> b.ext
                   [] b.size = 0 -> file.len - pos
                   [] OTHER -> b.size
    IN IF pos + 8 > file.len THEN None
       ELSE IF pos \notin DOMAIN file.boxes THEN Error
       ELSE IF (b.size = 1 /\ pos + 16 > file.len) \/ total < header THEN Error
       ELSE Box(b.type, pos + header, total - header)

(* The boxes from pos up to end; a box that reaches past the end is the     *)
(* last.                                                                    *)
RECURSIVE read_boxes(_, _, _)
read_boxes(file, pos, end) ==
    IF pos >= end THEN <<>>
    ELSE LET b == read_box_header(file, pos)
             next == b.payload_offset + b.payload_size
         IN IF b = None THEN <<>>
            ELSE IF b = Error THEN Error
            ELSE IF next > end THEN <<b>>
            ELSE LET rest == read_boxes(file, next, end)
                 IN IF rest = Error THEN Error ELSE <<b>> \o rest

ChildBoxes(file, box) ==
    read_boxes(file, box.payload_offset, box.payload_offset + box.payload_size)

FirstBox(boxes, type) == FirstOf(SelectSeq(boxes, LAMBDA b : b.type = type))

(* Whether size bytes can be read at a box's payload, and what they are.    *)
Readable(file, box, size) == box.payload_offset + size <= file.len
Payload(file, box) ==
    IF box.payload_offset \in DOMAIN file.payload THEN file.payload[box.payload_offset] ELSE None

(* The TIFF block of a CMT1 box: each tag it has replaces what came before. *)
WithCmt1(file, acc, box) ==
    LET tiff == Payload(file, box)
        dir  == [tags |-> tiff]
        cells == Get(dir, "CFAPattern")
    IN IF ~Readable(file, box, Least(box.payload_size, 65536)) THEN Error
       ELSE IF tiff = None THEN acc
       ELSE [make  |-> Or(ascii_tag(dir, "Make"), acc.make),
             model |-> Or(ascii_tag(dir, "Model"), acc.model),
             cfa   |-> IF cells # None /\ cells.t = "Byte" /\ Len(cells.v) >= 4
                       THEN from_array(SubSeq(cells.v, 1, 4)) ELSE acc.cfa]

parse_canon_cmt_boxes(file, boxes) ==
    FoldLeft(LAMBDA acc, b : IF acc = Error \/ b.type # "CMT1" \/ b.payload_size = 0 THEN acc
                             ELSE WithCmt1(file, acc, b),
             [make |-> "", model |-> "", cfa |-> None], boxes)

(* The first uuid box with Canon's id; without one there are no names.      *)
IsCanon(file, box) == Payload(file, box) # None /\ Payload(file, box).uuid = "Canon"

parse_canon_uuid_boxes(file, boxes) ==
    LET uuids == SelectSeq(boxes, LAMBDA b : b.type = "uuid" /\ b.payload_size >= 16)
        canon == SelectSeq(uuids, LAMBDA b : IsCanon(file, b))
        Inner(b) == read_boxes(file, b.payload_offset + 16, b.payload_offset + b.payload_size)
    IN IF \E i \in DOMAIN uuids : /\ ~Readable(file, uuids[i], 16)
                                  /\ \A j \in 1 .. i - 1 : ~IsCanon(file, uuids[j])
       THEN Error
       ELSE IF canon = <<>> THEN [make |-> "", model |-> "", cfa |-> None]
       ELSE IF Inner(canon[1]) = Error THEN Error
       ELSE parse_canon_cmt_boxes(file, Inner(canon[1]))

(* The picture size in the first entry of stsd.                             *)
parse_stsd_for_size(file, stbl) ==
    LET stsd == FirstBox(stbl, "stsd")
        p == Payload(file, stsd)
    IN IF stsd = None \/ p = None THEN None
       ELSE IF \/ stsd.payload_size < 8 \/ ~Readable(file, stsd, 44)
               \/ p.entry_count = 0 \/ p.entry_size < 28 \/ p.w = 0 \/ p.h = 0
       THEN None ELSE Dims(p.w, p.h)

(* The first chunk offset of co64, or of stco; least is the size of a box   *)
(* with one entry, header the bytes read.                                   *)
ChunkOffset(file, box, least, bytes) ==
    IF box.payload_size < least THEN 0
    ELSE IF ~Readable(file, box, 8) THEN Error
    ELSE IF Payload(file, box).count = 0 THEN 0
    ELSE IF ~Readable(file, box, 8 + bytes) THEN Error
    ELSE Payload(file, box).offset

read_co64(file, box) == ChunkOffset(file, box, 12, 8)
read_stco(file, box) == ChunkOffset(file, box, 8, 4)

(* One size for all samples, or the sum of those the file still holds.      *)
read_stsz_total(file, box) ==
    LET p == Payload(file, box)
        held == Least(p.count, Most(0, (file.len - box.payload_offset - 12) \div 4))
    IN IF box.payload_size < 12 THEN 0
       ELSE IF ~Readable(file, box, 12) THEN Error
       ELSE IF p.sample_size > 0 THEN p.sample_size * p.count
       ELSE FoldLeft(LAMBDA a, b : a + b, 0, SubSeq(p.sizes, 1, held))

NoTrack == [offset |-> 0, size |-> 0, sensor |-> None]

(* mdia, minf and stbl inside each other; a track without one is empty.     *)
RECURSIVE Descend(_, _, _)
Descend(file, box, path) ==
    LET boxes == ChildBoxes(file, box)
    IN IF boxes = Error THEN Error
       ELSE IF path = <<>> THEN boxes
       ELSE IF FirstBox(boxes, path[1]) = None THEN None
       ELSE Descend(file, FirstBox(boxes, path[1]), Tail(path))

TrackOf(file, stbl) ==
    LET sensor == parse_stsd_for_size(file, stbl)
        co64 == FirstBox(stbl, "co64")
        stco == FirstBox(stbl, "stco")
        stsz == FirstBox(stbl, "stsz")
        offset == IF co64 # None THEN read_co64(file, co64) ELSE read_stco(file, stco)
        size == IF stsz = None THEN 0 ELSE read_stsz_total(file, stsz)
    IN IF stbl = Error THEN Error
       ELSE IF stbl = None THEN NoTrack
       ELSE IF co64 = None /\ stco = None THEN [NoTrack EXCEPT !.sensor = sensor]
       ELSE IF Error \in {offset, size} THEN Error
       ELSE [offset |-> offset, size |-> size, sensor |-> sensor]

parse_single_trak(file, trak) == TrackOf(file, Descend(file, trak, <<"mdia", "minf", "stbl">>))

(* The largest track is the raw one; a track with an error is passed over.  *)
Larger(best, track) ==
    IF track = Error THEN best ELSE IF track.size > best.size THEN track ELSE best

parse_trak_boxes(file, boxes) ==
    FoldLeft(LAMBDA best, b : Larger(best, parse_single_trak(file, b)),
             NoTrack, SelectSeq(boxes, LAMBDA b : b.type = "trak"))

Movie(names, track) ==
    LET size == Or(track.sensor, Dims(0, 0))
    IN IF names = Error THEN Error
       ELSE [make |-> names.make, model |-> names.model, size |-> size,
             active_area |-> from_coords(0, 0, size.w, size.h), bit_depth |-> 14,
             cfa_pattern |-> Or(names.cfa, "RGGB"), black_levels |-> <<0, 0, 0, 0>>,
             white_level |-> white_level_from_bit_depth(14),
             raw |-> [offset |-> track.offset, size |-> track.size]]

MovieOf(file, boxes) ==
    IF boxes = Error THEN Error
    ELSE Movie(parse_canon_uuid_boxes(file, boxes), parse_trak_boxes(file, boxes))

parse_moov(file, moov) == MovieOf(file, ChildBoxes(file, moov))

Cr3Parse(file) ==
    LET top == read_boxes(file, 0, file.len)
    IN IF ~file.head.crx \/ top = Error THEN Error
       ELSE IF FirstBox(top, "moov") = None THEN Error
       ELSE parse_moov(file, FirstBox(top, "moov"))

Cr3Metadata(m) == Levels(m)
Cr3Decode(file, m) == Error
Cr3Thumbnail(file) == None

-----------------------------------------------------------------------------
(* CRW: the header is checked, the rest is what cameras of the time had.    *)

CrwParse(file) ==
    IF file.len < 26 \/ ~file.head.ciff THEN Error
    ELSE [make |-> "Canon", model |-> "", size |-> Dims(5616, 3744),
          active_area |-> from_coords(0, 0, 5616, 3744), bit_depth |-> 12,
          cfa_pattern |-> "RGGB", black_levels |-> <<0, 0, 0, 0>>,
          white_level |-> white_level_from_bit_depth(12), raw |-> [offset |-> 0, size |-> 0]]

CrwMetadata(m) == Levels(m)
CrwDecode(file, m) == Error
CrwThumbnail(file) == None

-----------------------------------------------------------------------------
(* RAF: a header of offsets, a JPEG preview with Exif, and 16-bit samples.  *)

XTransModels == {"X-T5", "X-Pro3", "X100V"}
is_xtrans_model(model) == model \in XTransModels

(* The value field of a directory entry, read as four bytes in the file's   *)
(* order whatever the entry's type: a SHORT fills the first two of them.    *)
ValueField(order, entry) ==
    IF entry.t = "Short" /\ order = "MM" THEN entry.v * 65536 ELSE entry.v

(* The entries up to the one that completes the pair.                       *)
parse_tiff_dimensions(tiff) ==
    LET Pair(acc, e) ==
            IF acc.w # None /\ acc.h # None THEN acc
            ELSE IF e.tag = "ImageWidth" THEN [acc EXCEPT !.w = ValueField(tiff.order, e)]
            ELSE IF e.tag = "ImageLength" THEN [acc EXCEPT !.h = ValueField(tiff.order, e)]
            ELSE acc
        size == FoldLeft(Pair, [w |-> None, h |-> None], tiff.entries)
    IN IF tiff.order \notin {"II", "MM"} \/ None \in {size.w, size.h} THEN None
       ELSE IF size.w = 0 \/ size.h = 0 THEN None ELSE size

(* The first APP1 segment must be Exif; a preview that does not begin as a  *)
(* JPEG, or has no such segment, says nothing.                              *)
extract_dimensions_from_jpeg(file, offset, size) ==
    LET jpeg == read_range(file, offset, Least(size, 65536))
        segments == jpeg.segments
        first == CHOOSE i \in DOMAIN segments :
                     /\ segments[i].marker = "APP1"
                     /\ \A j \in 1 .. i - 1 : segments[j].marker # "APP1"
    IN IF jpeg = None \/ "segments" \notin DOMAIN jpeg THEN None
       ELSE IF \A i \in DOMAIN segments : segments[i].marker # "APP1" THEN None
       ELSE IF \E j \in 1 .. first : ~segments[j].ff THEN None
       ELSE IF segments[first].exif = None THEN None
       ELSE parse_tiff_dimensions(segments[first].exif)

RafParse(file) ==
    LET h == file.raf
        size == IF h.jpeg.size > 0
                THEN Or(extract_dimensions_from_jpeg(file, h.jpeg.offset, h.jpeg.size),
                        Dims(6240, 4168))
                ELSE Dims(6240, 4168)
    IN IF file.len < 160 \/ ~file.head.fuji \/ h.raw.offset = 0 THEN Error
       ELSE [make |-> "FUJIFILM", model |-> h.model, size |-> size,
             active_area |-> from_coords(0, 0, size.w, size.h), bit_depth |-> 14,
             cfa_pattern |-> "RGGB",
             xtrans |-> IF is_xtrans_model(h.model) THEN XTransStandard ELSE None,
             black_levels |-> <<512, 512, 512, 512>>, white_level |-> 16383,
             jpeg |-> h.jpeg, raw |-> h.raw]

(* Pairs of bytes, high byte first.                                         *)
unpack_raw_16bit(bytes) ==
    [i \in 1 .. Len(bytes) \div 2 |-> (256 * bytes[(2 * i) - 1]) + bytes[2 * i]]

(* The samples follow a sub-header of 32 bytes, which a block of exactly    *)
(* that size does not have.                                                 *)
RafDecode(file, m) ==
    LET blob == read_range(file, m.raw.offset, m.raw.size)
        all == SubSeq(blob.bytes, 1, Least(m.raw.size, Len(blob.bytes)))
        samples == unpack_raw_16bit(IF Len(all) > 32 THEN SubSeq(all, 33, Len(all)) ELSE all)
    IN IF m.raw.size < 32 \/ blob = None \/ "bytes" \notin DOMAIN blob THEN Error
       ELSE IF Len(samples) # num_pixels(m.size) THEN Error
       ELSE [RawImageOf(m, samples) EXCEPT !.xtrans_pattern = m.xtrans]

RafThumbnail(file) ==
    IF file.raf.jpeg.size = 0 THEN None
    ELSE IF read_range(file, file.raf.jpeg.offset, file.raf.jpeg.size) = None THEN Error
    ELSE file.raf.jpeg.offset

RafMetadata(m) == [Levels(m) EXCEPT !.crop = None]
=============================================================================
