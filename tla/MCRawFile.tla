------------------------------ MODULE MCRawFile ------------------------------
(* RawFile on small files of every format, each written from what it is to  *)
(* hold: file.truth is what RawFileTruth says of it.                        *)
EXTENDS RawFileTruth

W == 5
H == 4
Size == Dims(W, H)
At(i) == <<(i - 1) % W, (i - 1) \div W>>

(* Every position of the sensor has a sample of its own.                    *)
Scene == [i \in 1 .. W * H |-> 700 + (100 * i)]

(* A camera matrix and its inverse.                                         *)
Cam == <<0, 1, 0, 1, 0, 0, 1, 0, 1>>
Matrix == [camera |-> Cam, back |-> <<0, 1, 0, 1, 0, 0, 0, -1, 1>>]

-----------------------------------------------------------------------------
(* Files.                                                                   *)

NoMagic == [fuji |-> FALSE, crx |-> FALSE, ciff |-> FALSE, tiff |-> FALSE, cr2 |-> FALSE]
TiffMagic == [NoMagic EXCEPT !.tiff = TRUE]

Truth == [format |-> None, pixels |-> TRUE, size |-> Size, samples |-> Scene,
          black |-> <<0, 0, 0, 0>>, white |-> 16383, pattern |-> "RGGB",
          area |-> from_coords(0, 0, W, H), crop |-> None, neutral |-> None, linear |-> None,
          matrix |-> None, orientation |-> None, thumbnail |-> None, iso |-> None,
          exposure |-> None, flat |-> None]

Blank == [order |-> "II", chain |-> None, dirs |-> <<>>, blobs |-> <<>>, len |-> 1000,
          words |-> <<>>, head |-> NoMagic, raf |-> None, boxes |-> <<>>, payload |-> <<>>,
          dng |-> None, truth |-> None]

Short(v) == Value("Short", <<v>>)
Long(v) == Value("Long", <<v>>)
Ascii(text) == Value("Ascii", <<text>>)
Ifds(offsets) == Value("Long", offsets)

Camera(make, model, orientation) ==
    [Make |-> Ascii(make), Model |-> Ascii(model),
     JPEGInterchangeFormat |-> Long(300), JPEGInterchangeFormatLength |-> Long(10)]
    @@ (IF orientation = None THEN <<>> ELSE [Orientation |-> Short(orientation)])

SensorTags(compression, depth) ==
    [ImageWidth |-> Short(W), ImageLength |-> Short(H), BitsPerSample |-> Short(depth),
     Compression |-> Short(compression), Photometric |-> Short(32803),
     StripOffsets |-> Long(400), StripByteCounts |-> Long(40)]

Tiff(ifd0, subs, rest) ==
    [Blank EXCEPT !.head = TiffMagic, !.chain = <<8>>,
                  !.dirs = (8 :> (ifd0 @@ [SubIFDs |-> Ifds(subs), Exif |-> Ifds(<<900>>)]))
                           @@ (900 :> [ISOSpeedRatings |-> Short(200)]) @@ rest]

CameraGains == <<4, 2, 2, 1>>

(* ARW: one strip or tiles, and the white balance in one of its four places.*)
Arw(place, orientation, tiled) ==
    LET preview == [ImageWidth |-> Short(9), ImageLength |-> Short(9), Compression |-> Short(6)]
        note == [entries |-> <<[tag |-> "Other", offset |-> 7], [tag |-> "WB_RGGBLevels", offset |-> 7]>>,
                 words |-> IF place = "note" THEN 7 :> CameraGains ELSE <<>>]
        tags == SensorTags(7, 14) @@
                [BlackLevel |-> Value("Short", <<512, 516, 520, 524>>),
                 CFAPattern |-> Value("Byte", <<1, 0, 2, 1>>)]
                @@ (IF place = "ifd" THEN [WB_RGGBLevels |-> Value("SShort", CameraGains)] ELSE <<>>)
                @@ (IF tiled THEN [TileWidth |-> Short(4), TileLength |-> Short(2),
                                   TileOffsets |-> Ifds(<<500, 510, 520, 530>>),
                                   TileByteCounts |-> Ifds(<<10, 10, 10, 10>>)] ELSE <<>>)
        Tile(k) == [j \in 1 .. 8 |->
            LET x == (4 * (k % 2)) + ((j - 1) % 4)
                y == (2 * (k \div 2)) + ((j - 1) \div 4)
            IN IF x < W /\ y < H THEN Scene[(W * y) + x + 1] ELSE 9999]
        f == Tiff(Camera("SONY", "ILCE-1", orientation) @@
                      (IF place = "sr2" THEN [SR2Private |-> Long(950)] ELSE <<>>),
                  <<100, 200>>, (100 :> preview) @@ (200 :> tags))
    IN [f EXCEPT
           !.dirs = [@ EXCEPT ![900] = @ @@ (IF place \in {"file", "note"}
                                             THEN [MakerNote |-> Value("Undefined", <<note>>)] ELSE <<>>)]
                    @@ (IF place = "sr2" THEN 950 :> [WB_RGGBLevels |-> Value("Short", CameraGains)] ELSE <<>>),
           !.words = IF place = "file" THEN 7 :> CameraGains ELSE 7 :> <<0, 0, 0, 0>>,
           !.blobs = (400 :> [ljpeg |-> Scene])
                     @@ [o \in {500, 510, 520, 530} |-> [ljpeg |-> Tile((o - 500) \div 10)]],
           !.truth = [Truth EXCEPT
               !.format = "Arw", !.pattern = "GRBG", !.black = <<512, 516, 520, 524>>,
               !.neutral = IF place = "none" THEN None ELSE <<Fraction(1, 2), Fraction(1, 1), Fraction(2, 1)>>,
               !.orientation = orientation, !.thumbnail = 300, !.iso = 200, !.matrix = Matrix]]

(* CR2: four directories, the raw one last, or sooner when there are fewer. *)
Cr2(count) ==
    LET small == [ImageWidth |-> Short(3), ImageLength |-> Short(3), Compression |-> Short(6)]
        rawtags == SensorTags(6, 14) @@ [BlackLevel |-> Short(128)]
    IN [Blank EXCEPT
           !.head = [TiffMagic EXCEPT !.cr2 = TRUE],
           !.chain = [k \in 1 .. count |-> 10 * k],
           !.dirs = [o \in {10 * k : k \in 1 .. count} |->
                        CASE o = 10 -> Camera("Canon", "EOS", None)
                          [] o # 10 /\ o = 10 * count -> rawtags
                          [] OTHER -> small],
           !.blobs = 400 :> [ljpeg |-> Scene],
           !.truth = [Truth EXCEPT !.format = "Cr2", !.black = <<128, 128, 128, 128>>,
                                   !.thumbnail = 300]]

(* NEF: plain or compressed samples.                                        *)
Nef(compression) ==
    LET f == Tiff(Camera("NIKON CORPORATION", "NIKON Z 8", 6), <<200>>, 200 :> SensorTags(compression, 12))
        bytes == [i \in 1 .. 2 * W * H |-> LET v == Scene[(i + 1) \div 2]
                                           IN IF i % 2 = 1 THEN v % 256 ELSE v \div 256]
    IN [f EXCEPT
           !.blobs = 400 :> IF compression = 1 THEN [bytes |-> bytes] ELSE [ljpeg |-> Scene],
           !.truth = [Truth EXCEPT !.format = "Nef", !.black = <<81, 81, 81, 81>>, !.white = 4095,
                                   !.thumbnail = 300, !.matrix = Matrix]]

(* RAF: big-endian samples behind a sub-header; the size is in the preview. *)
Raf(model, type, order) ==
    LET bytes == [i \in 1 .. 2 * W * H |-> LET v == Scene[(i + 1) \div 2]
                                           IN IF i % 2 = 0 THEN v % 256 ELSE v \div 256]
        exif == [order |-> order, entries |-> <<[tag |-> "ImageWidth", t |-> type, v |-> W],
                                                [tag |-> "ImageLength", t |-> type, v |-> H]>>]
    IN [Blank EXCEPT
           !.head = [NoMagic EXCEPT !.fuji = TRUE],
           !.raf = [model |-> model, jpeg |-> [offset |-> 300, size |-> 20],
                    raw |-> [offset |-> 400, size |-> 32 + Len(bytes)]],
           !.blobs = (300 :> [segments |-> <<[marker |-> "APP0", ff |-> TRUE, exif |-> None],
                                             [marker |-> "APP1", ff |-> TRUE, exif |-> exif]>>])
                     @@ (400 :> [bytes |-> [i \in 1 .. 32 |-> 0] \o bytes]),
           !.truth = [Truth EXCEPT !.format = "Raf", !.black = <<512, 512, 512, 512>>,
                                   !.thumbnail = 300,
                                   !.pattern = IF model = "X-T5" THEN "X-Trans" ELSE "RGGB"]]

(* CR3: moov with the tracks of a preview and of the raw image; the sizes   *)
(* of boxes with the two escapes.                                           *)
Nested(type, size) == [size |-> size, ext |-> 0, type |-> type]
Track(at, w, h, total) ==
    [boxes |-> (at :> Nested("trak", 132)) @@ (at + 8 :> Nested("mdia", 124))
               @@ (at + 16 :> Nested("minf", 116)) @@ (at + 24 :> Nested("stbl", 108))
               @@ (at + 32 :> Nested("stsd", 60)) @@ (at + 92 :> Nested("co64", 20))
               @@ (at + 112 :> Nested("stsz", 20)),
     payload |-> (at + 40 :> [entry_count |-> 1, entry_size |-> 52, w |-> w, h |-> h])
                 @@ (at + 100 :> [count |-> 1, offset |-> 600])
                 @@ (at + 120 :> [sample_size |-> total, count |-> 1])]
Cr3(last) ==
    LET first == Track(104, 3, 2, 50)
        second == Track(236, W, H, 90)
    IN [Blank EXCEPT
           !.head = [NoMagic EXCEPT !.crx = TRUE],
           !.boxes = (0 :> Nested("ftyp", 24)) @@ (24 :> [size |-> 1, ext |-> 344, type |-> "moov"])
                     @@ (40 :> Nested("uuid", 64)) @@ (64 :> Nested("CMT1", 40))
                     @@ (368 :> Nested("mdat", last)) @@ first.boxes @@ second.boxes,
           !.payload = (48 :> [uuid |-> "Canon"]) @@ (72 :> [Make |-> Ascii("Canon"), Model |-> Ascii("R5"),
                                CFAPattern |-> Value("Byte", <<0, 1, 1, 2>>)])
                       @@ first.payload @@ second.payload,
           !.truth = [Truth EXCEPT !.format = "Cr3", !.pixels = FALSE]]

Crw == [Blank EXCEPT !.head = [NoMagic EXCEPT !.ciff = TRUE],
                     !.truth = [Truth EXCEPT !.format = "Crw", !.pixels = FALSE, !.white = 4095,
                                             !.size = Dims(5616, 3744), !.area = from_coords(0, 0, 5616, 3744)]]

(* DNG: the levels, areas, table and opcodes of what gamut-dng decoded.     *)
Profile(neutral, matrix) ==
    [unique_camera_model |-> "Unique", color_matrix_1 |-> None, color_matrix_2 |-> matrix,
     as_shot_neutral |-> neutral, baseline_exposure |-> None, profile_name |-> None]

Dng(orientation, dng, truth) ==
    LET f == Tiff(Camera("SONY", "phone", orientation) @@ [DNGVersion |-> Value("Byte", <<1, 4, 0, 0>>)],
                  <<200>>, 200 :> SensorTags(1, 16))
    IN [f EXCEPT !.dng = dng, !.truth = [truth EXCEPT !.format = "Dng", !.orientation = orientation,
                                                      !.thumbnail = 300, !.iso = 200]]

DngBase == [size |-> Size, planes |-> 1, linear |-> FALSE, repeat |-> <<2, 2>>,
            pattern |-> <<2, 1, 1, 0>>, samples |-> Scene, bits |-> 16, active_area |-> None,
            crop |-> None, black |-> <<1000, 1044, 1080, 1116>>, white |-> <<44690>>, table |-> None,
            opcodes2 |-> <<>>, raw_extra |-> <<>>, ifd0_extra |-> <<>>, profile |-> Profile(None, None)]
DngTruth == [Truth EXCEPT !.pattern = "BGGR", !.black = <<100, 104, 108, 112>>, !.white = 4469]

HalfNeutral == <<Fraction(1, 2), Fraction(1, 1), Fraction(1, 4)>>

DngCfa(orientation) ==
    Dng(orientation, [DngBase EXCEPT !.profile = Profile(HalfNeutral, None)],
        [DngTruth EXCEPT !.neutral = HalfNeutral])

DngAreas(orientation) ==
    Dng(orientation, [DngBase EXCEPT !.active_area = <<1, 1, 4, 5>>, !.crop = <<<<1, 0>>, <<3, 2>>>>,
                                     !.profile = [Profile(None, Cam) EXCEPT !.baseline_exposure = 3]],
        [DngTruth EXCEPT !.area = from_coords(1, 1, 4, 3), !.crop = from_coords(1, 0, 3, 2),
                         !.matrix = Matrix, !.exposure = 3])

(* A grey scene, or a white one, with a dead pixel.                         *)
Flat(value) ==
    LET size == Dims(6, 6)
        scene == [i \in 1 .. 36 |-> IF i = 16 THEN 0 ELSE value]
    IN Dng(None, [DngBase EXCEPT !.size = size, !.samples = scene, !.black = <<0>>],
           [DngTruth EXCEPT !.size = size, !.samples = scene, !.black = <<0, 0, 0, 0>>,
                            !.area = from_coords(0, 0, 6, 6), !.flat = value])

Table == [i \in 1 .. 1500 |-> 2 * i]
DngTable == Dng(None, [DngBase EXCEPT !.table = Table],
                [DngTruth EXCEPT !.samples = [i \in DOMAIN Scene |-> 2 * Least(Scene[i] + 1, 1500)]])

LinearScene == [i \in 1 .. 3 * W * H |-> 10 * i]
LinearBase == [DngBase EXCEPT !.planes = 3, !.linear = TRUE, !.repeat = <<1, 1>>, !.pattern = <<>>,
                              !.samples = LinearScene, !.bits = 12]

(* A map that doubles green and blue at the right edge and leaves them at   *)
(* the left one.                                                            *)
Shading == [id |-> 9, optional |-> FALSE, fits |-> TRUE,
            params |-> [plane |-> 1, planes |-> 2, points_v |-> 1, points_h |-> 2, spacing_v |-> 1,
                        spacing_h |-> GainUnits, origin_v |-> 0, origin_h |-> 0, map_planes |-> 1,
                        gain |-> <<GainUnits, 2 * GainUnits>>]]

Linear(kind, orientation) ==
    LET dng == CASE kind = "plain" -> LinearBase
                 [] kind = "table" -> [LinearBase EXCEPT !.table = [i \in 1 .. 601 |-> 8 * (i - 1)]]
                 [] kind = "shaded" -> [LinearBase EXCEPT !.opcodes2 = <<[Shading EXCEPT !.id = 14], Shading>>]
                 [] kind = "areas" -> [LinearBase EXCEPT !.active_area = <<1, 1, 4, 5>>,
                                                         !.crop = <<<<1, 0>>, <<3, 2>>>>,
                                                         !.profile = Profile(HalfNeutral, Cam)]
        truth == [DngTruth EXCEPT
                     !.pixels = FALSE,
                     !.linear = [samples |-> IF kind = "table" THEN [i \in DOMAIN LinearScene |-> 8 * LinearScene[i]]
                                             ELSE LinearScene,
                                 up |-> IF kind = "table" THEN 1 ELSE 16, shaded |-> kind = "shaded"],
                     !.area = IF kind = "areas" THEN from_coords(1, 1, 4, 3) ELSE @,
                     !.crop = IF kind = "areas" THEN from_coords(1, 0, 3, 2) ELSE @,
                     !.neutral = IF kind = "areas" THEN HalfNeutral ELSE @,
                     !.matrix = IF kind = "areas" THEN Matrix ELSE @]
    IN Dng(orientation, dng, truth)

(* Directories that point at each other: names[k] are the directories that  *)
(* directory k names in its pointer tags; the first one is the chain's.     *)
Graph(subs, exifs) ==
    LET Pointers(tag, s) == IF s = <<>> THEN <<>> ELSE tag :> Ifds([i \in DOMAIN s |-> 10 * s[i]])
    IN [Blank EXCEPT
           !.head = TiffMagic, !.chain = <<10>>,
           !.dirs = [o \in {10 * k : k \in DOMAIN subs} |->
                        (("Id" :> Long(o)) @@ Pointers("SubIFDs", subs[o \div 10])
                         @@ Pointers("Exif", exifs[o \div 10]))
                        @@ IF o = 10 THEN [Make |-> Ascii("SONY")] ELSE <<>>]]

PointerChoices == << <<>>, <<2>>, <<3, 2>>, <<1, 3>>, <<7>> >>
Digit(k, place) == PointerChoices[((k \div place) % 5) + 1]
Graphs3 == [k \in 1 .. 625 |-> Graph(<<Digit(k, 1), Digit(k, 5), Digit(k, 25)>>,
                                     <<Digit(k, 125), <<3>>, <<>>>>)]
Deep == Graph([k \in 1 .. 6 |-> <<k + 1>>], [k \in 1 .. 6 |-> <<>>])

(* Files nobody should take: too short, no raw directory, another maker, a  *)
(* strip that leaves the file, samples that are not as many as the sensor's.*)
Refused ==
    <<[Arw("none", None, FALSE) EXCEPT !.len = 10, !.truth = None],
      [Tiff(Camera("SONY", "x", None), <<>>, <<>>) EXCEPT !.truth = None],
      [Tiff(Camera("Acme", "x", None), <<200>>, 200 :> SensorTags(7, 14)) EXCEPT !.truth = None],
      Blank>>
Damaged ==
    <<[Arw("none", None, FALSE) EXCEPT !.len = 420, !.truth = [@ EXCEPT !.pixels = FALSE]],
      [Arw("none", None, FALSE) EXCEPT !.blobs = 400 :> [ljpeg |-> <<1, 2>>],
                                       !.truth = [@ EXCEPT !.pixels = FALSE]]>>

MCFiles ==
    [k \in 1 .. 5 |-> Arw(<<"ifd", "file", "note", "sr2", "none">>[k], None, FALSE)]
    \o [o \in 1 .. 8 |-> Arw("ifd", o, TRUE)]
    \o <<Cr2(4), Cr2(3), Nef(1), Nef(34713), Raf("X-T5", "Long", "MM"), Raf("GFX", "Short", "II"),
         Cr3(632), Cr3(0), Crw, DngTable, Flat(100)>>
    \o [o \in 1 .. 8 |-> DngCfa(o)] \o [o \in 1 .. 8 |-> DngAreas(o)]
    \o <<Linear("plain", None), Linear("table", 3), Linear("shaded", None), Linear("areas", 6),
         Linear("areas", 7)>>
    \o Refused \o Damaged \o Graphs3 \o <<Deep>>

-----------------------------------------------------------------------------
(* Encoded AVIF files: the order of the boxes, the widths of the location   *)
(* table, a picture in two extents, and whether the codec wrote a colour.   *)
Located(iloc, before, boxes, after) ==
    LET c == [before |-> before, meta |-> [size |-> 0, boxes |-> boxes], after |-> after]
        Data(id) == SetToSortSeq(Whereabouts(c, id), LAMBDA a, b : a.offset < b.offset)
        Entry(id) == [id |-> id, base |-> 0, extents |-> Data(id)]
        filled == WithBox(c, "iloc", [iloc EXCEPT !.entries = [i \in DOMAIN @ |-> Entry(@[i].id)]])
        Sized(b) == [b EXCEPT !.size = BoxLength(b)]
    IN [filled EXCEPT !.meta = [size |-> MetaLength(filled),
                                boxes |-> [i \in DOMAIN @.boxes |-> Sized(@.boxes[i])]]]

AvifFile(color, version, width, linked) ==
    LET pitm == [type |-> "pitm", size |-> 0, version |-> 0, id |-> 1]
        iinf == [type |-> "iinf", size |-> 0, version |-> 0,
                 items |-> <<[id |-> 1, type |-> "av01", version |-> 2],
                             [id |-> 4, type |-> "av01", version |-> 2]>>]
        two == <<[offset |-> 0, length |-> 0], [offset |-> 0, length |-> 0]>>
        iloc == [type |-> "iloc", size |-> 0, version |-> version, offset_size |-> width,
                 length_size |-> 4, base_size |-> 0, index_size |-> 0, count |-> 2,
                 entries |-> <<[id |-> 1, base |-> 0, extents |-> two],
                               [id |-> 4, base |-> 0, extents |-> <<two[1]>>]>>]
        colr == <<[type |-> "colr", length |-> 19]>>
        iprp == [type |-> "iprp", size |-> 0, ipco_size |-> 0, rest |-> 20,
                 props |-> <<[type |-> "ispe", length |-> 20]>> \o (IF color THEN colr ELSE <<>>)
                           \o <<[type |-> "av1C", length |-> 12]>>]
        iref == [type |-> "iref", size |-> 0, version |-> 0, refs |-> <<[from |-> 4, to |-> 1]>>]
        boxes == IF linked THEN <<pitm, iref, iloc, iinf, iprp>> ELSE <<pitm, iprp, iinf, iloc>>
        With(b) == IF b.type = "iprp" THEN [b EXCEPT !.ipco_size = IpcoLength(b)] ELSE b
    IN Located(iloc, 24, [i \in DOMAIN boxes |-> With(boxes[i])],
               <<[type |-> "mdat", length |-> 58,
                  holds |-> <<[id |-> 1, at |-> 8, length |-> 30], [id |-> 4, at |-> 38, length |-> 10],
                              [id |-> 1, at |-> 48, length |-> 10]>>]>>)

MCCoded == {AvifFile(color, version, width, linked) :
                color \in BOOLEAN, version \in {0, 1}, width \in {4, 8}, linked \in BOOLEAN}
           \union {AvifFile(TRUE, 0, 2, TRUE)}

AnAvif == AvifFile(FALSE, 0, 4, TRUE)

-----------------------------------------------------------------------------
(* What the caller asks for.                                                *)

Plain == [demosaic |-> "None", white_balance |-> None, color_matrix |-> None, gamma |-> Fraction(1, 1),
          bad_pixel_correction |-> None, denoise_sigma |-> None, ca_correction |-> None]
Mended == [Plain EXCEPT !.demosaic = "Auto", !.bad_pixel_correction = "Median",
                        !.denoise_sigma = Fraction(1, 2),
                        !.ca_correction = <<Fraction(3, 2), Fraction(1, 1)>>]

MCProcessing ==
    {Plain, Mended, [Plain EXCEPT !.gamma = None],
     [Plain EXCEPT !.white_balance = <<Fraction(2, 1), Fraction(1, 1), Fraction(1, 2)>>],
     [Plain EXCEPT !.color_matrix = [i \in 1 .. 9 |-> 500 * Cam[i]]],
     [Plain EXCEPT !.gamma = Fraction(2, 1), !.bad_pixel_correction = "Average",
                   !.demosaic = "Lmmse"]}

Encoding(format, depth) ==
    [format |-> format, bit_depth |-> depth, embed_icc |-> TRUE, embed_exif |-> TRUE,
     embed_xmp |-> TRUE, effort |-> 7, use_container |-> FALSE]
Job(options, encoding, xmp, coded) ==
    [options |-> options, encoding |-> encoding, xmp |-> xmp, coded |-> coded]

MCExports ==
    {Job(Plain, Encoding(f, 16), None, AnAvif) : f \in {"Png", "Jpeg", "Avif", "Dng"}}
    \union {Job([Plain EXCEPT !.gamma = None], Encoding("Jxl", d), None, None) : d \in {8, 10, 16}}
    \union {Job(Plain, [Encoding("Jxl", 8) EXCEPT !.effort = 11], None, None),
            Job(Plain, [Encoding("Avif", 8) EXCEPT !.embed_icc = FALSE, !.embed_exif = FALSE], None, AnAvif)}

MCEncodes ==
    {Job(Plain, Encoding(f, d), x, None) : f \in {"Png", "Jpeg", "WebP", "Jxl", "Dng"}, d \in {8, 16},
                                           x \in {None, "packet", "text", "bytes"}}
    \union {Job(Plain, Encoding("Avif", 8), x, c) : x \in {"packet", "text"}, c \in MCCoded}

(* A scene at the white level, and a caller who leaves all to the defaults  *)
(* but the dead pixel.                                                      *)
WhiteFile == <<Flat(4469)>>
Defaults == {[Plain EXCEPT !.demosaic = "Auto", !.bad_pixel_correction = "Median"]}
NoJobs == {}

MCCameraDb == <<[model |-> "ILCE-1", color_matrix_1 |-> None, color_matrix_2 |-> Cam],
                [model |-> "Z 8", color_matrix_1 |-> Cam, color_matrix_2 |-> None]>>
MCPartOf == {<<"Z 8", "NIKON Z 8">>}

MCPower(gamma, v) == (v * gamma.d) \div gamma.n
MCFilmic(exposure, v) == Least(u16_MAX, v + ((v * (65535 - v)) \div 65536) + (100 * exposure))
MCLikeness(sigma, distance, difference) == IF difference > 100 THEN 0 ELSE 4 - Least(distance, 3)
=============================================================================
