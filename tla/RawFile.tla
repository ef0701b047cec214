------------------------------ MODULE RawFile ------------------------------
(* RawFile of crates/rawshift-image/src/formats/mod.rs: a file is opened by *)
(* the decoder of its format, and the caller asks it for its preview, its   *)
(* sensor image, the processed picture, or a picture written to a file.     *)
(*                                                                          *)
(* A file is a TiffTree file with the magic numbers it begins with (head),  *)
(* and what the other containers read: boxes and payload (CR3), raf and dng.*)
EXTENDS RawContainers, RgbTransforms, ImageExport

CONSTANTS Files,      \* the files a caller may open, a sequence
          Processing, \* the processing options it may ask for
          Exports,    \* the exports it may ask for: [options, encoding, xmp, coded],
          Encodes,    \* and the encodings of a picture it holds; coded is what the
                      \* AVIF codec writes
          CameraDb,   \* the camera database: [model, color_matrix_1, color_matrix_2]
          PartOf      \* the pairs <<text, longer text that contains it>>

VARIABLES file,     \* the file
          raw,      \* None, Error, or the opened file: [format, m]
          answer,   \* what the last call returned and the caller still holds
          exported  \* None, or the export that was made: its job, the file written
                    \* and, for the properties, the picture it was made of

vars == <<file, raw, answer, exported>>

Failed(a) == a \in {Error, Panic}
Then(a, Stage(_)) == IF Failed(a) THEN a ELSE Stage(a)

(* TLC computes the samples of an image once.                               *)
Stored(image) == [image EXCEPT !.data = SubSeq(@, 1, Len(@))]

-----------------------------------------------------------------------------
(* Opening.                                                                 *)

(* Mutant: DNG files are taken for what their camera's maker says.          *)
FormatOfIfd0_MakeFirst(tags) ==
    LET make == IF "Make" \in DOMAIN tags /\ tags["Make"].t = "Ascii" THEN tags["Make"].v[1] ELSE ""
    IN CASE make \in SonyMakes -> "Arw"
         [] make \in NikonMakes -> "Nef"
         [] make \notin SonyMakes \union NikonMakes /\ "DNGVersion" \in DOMAIN tags -> "Dng"
         [] OTHER -> Error

FormatOfIfd0(tags) ==
    LET make == IF "Make" \in DOMAIN tags /\ tags["Make"].t = "Ascii" THEN tags["Make"].v[1] ELSE ""
    IN CASE "DNGVersion" \in DOMAIN tags -> "Dng"
         [] "DNGVersion" \notin DOMAIN tags /\ make \in SonyMakes -> "Arw"
         [] "DNGVersion" \notin DOMAIN tags /\ make \in NikonMakes -> "Nef"
         [] OTHER -> Error

(* Magic numbers first, the tags of the first directory last.               *)
detect_format(f) ==
    IF f.len < 16 THEN Error
    ELSE IF f.head.fuji THEN "Raf"
    ELSE IF f.head.crx THEN "Cr3"
    ELSE IF f.head.ciff THEN "Crw"
    ELSE IF ~f.head.tiff THEN Error
    ELSE IF f.head.cr2 THEN "Cr2"
    ELSE IF f.chain = None \/ f.chain = <<>> THEN Error
    ELSE FormatOfIfd0(f.dirs[f.chain[1]])

parse(f, format) ==
    CASE format = "Arw" -> ArwParse(f) [] format = "Cr2" -> Cr2Parse(f)
      [] format = "Cr3" -> Cr3Parse(f) [] format = "Crw" -> CrwParse(f)
      [] format = "Dng" -> DngParse(f) [] format = "Nef" -> NefParse(f)
      [] format = "Raf" -> RafParse(f)

OpenedAs(format, m) == IF m = Error THEN Error ELSE [format |-> format, m |-> m]

open(f) ==
    IF detect_format(f) = Error THEN Error
    ELSE OpenedAs(detect_format(f), parse(f, detect_format(f)))

metadata ==
    CASE raw.format = "Arw" -> ArwMetadata(raw.m) [] raw.format = "Cr2" -> Cr2Metadata(raw.m)
      [] raw.format = "Cr3" -> Cr3Metadata(raw.m) [] raw.format = "Crw" -> CrwMetadata(raw.m)
      [] raw.format = "Dng" -> DngMetadata(raw.m) [] raw.format = "Nef" -> NefMetadata(raw.m)
      [] raw.format = "Raf" -> RafMetadata(raw.m)

thumbnail ==
    CASE raw.format = "Arw" -> ArwThumbnail(file) [] raw.format = "Cr2" -> Cr2Thumbnail(file)
      [] raw.format = "Cr3" -> Cr3Thumbnail(file) [] raw.format = "Crw" -> CrwThumbnail(file)
      [] raw.format = "Dng" -> DngThumbnail(file) [] raw.format = "Nef" -> NefThumbnail(file)
      [] raw.format = "Raf" -> RafThumbnail(file)

decode_raw ==
    CASE raw.format = "Arw" -> ArwDecode(file, raw.m) [] raw.format = "Cr2" -> Cr2Decode(file, raw.m)
      [] raw.format = "Cr3" -> Cr3Decode(file, raw.m) [] raw.format = "Crw" -> CrwDecode(file, raw.m)
      [] raw.format = "Dng" -> DngDecode(file, raw.m) [] raw.format = "Nef" -> NefDecode(file, raw.m)
      [] raw.format = "Raf" -> RafDecode(file, raw.m)

is_linear_raw_dng == raw.format = "Dng" /\ raw.m.is_linear_raw

-----------------------------------------------------------------------------
(* process, stage by stage: o is the options, gains the white balance, None *)
(* when neither the options nor the camera say one.                         *)

resolve_white_balance(o) ==
    LET neutral == metadata.as_shot_neutral
    IN IF o.white_balance # None THEN o.white_balance
       ELSE IF neutral # None /\ \A c \in 1 .. 3 : neutral[c].n > 0
            THEN [c \in 1 .. 3 |-> Fraction(neutral[c].d, neutral[c].n)]
       ELSE None

find_camera_calibration(model) ==
    FirstOf(SelectSeq(CameraDb, LAMBDA c : \/ c.model = model \/ <<c.model, model>> \in PartOf
                                           \/ <<model, c.model>> \in PartOf))

(* The second matrix of the file, its first, the database's for the model.  *)
resolve_color_matrix(o) ==
    LET known == find_camera_calibration(metadata.model)
        of_model == IF metadata.model = "" \/ known = None THEN None
                    ELSE Or(known.color_matrix_2, known.color_matrix_1)
        camera == Or(metadata.color_matrix_2, Or(metadata.color_matrix_1, of_model))
    IN IF o.color_matrix # None THEN o.color_matrix
       ELSE IF camera = None THEN None ELSE compute_camera_to_srgb(camera)

(* Samples of fewer bits are moved up, unless a table with values past      *)
(* 12 bits has done it.                                                     *)
linear_image ==
    LET table == raw.m.linearization_table
        scaled == table # None /\ \E i \in DOMAIN table : table[i] > 4095
        shift == IF scaled THEN 0 ELSE Most(0, 16 - raw.m.bit_depth)
        image == decode_linear_raw(file, raw.m)
    IN IF image = Error THEN Error
       ELSE [image EXCEPT !.data = [i \in DOMAIN @ |-> Least(u16_MAX, @[i] * (2 ^ shift))]]

(* v * 65535 / white in whole numbers, with no product past 32 bits.        *)
Rescaled(v, white) ==
    Least(u16_MAX, IF v \div white > 0 THEN u16_MAX ELSE ((v % white) * u16_MAX) \div white)

(* Mutant: the white level is stretched, black and all.                     *)
scaled_to_16_bits_WithBlack(image, white) ==
    IF image.white_level \in 1 .. u16_MAX - 1
    THEN [image EXCEPT !.data = [i \in DOMAIN @ |-> Rescaled(@[i], image.white_level)]] ELSE image

scaled_to_16_bits(image, white) ==
    IF white \in 1 .. u16_MAX - 1
    THEN [image EXCEPT !.data = [i \in DOMAIN @ |-> Rescaled(@[i], white)]] ELSE image

(* Black, bad pixels, white balance, range: then the picture is made of the *)
(* mosaic.  Black of the first site gives the range of all four.            *)
Corrected(image, o) ==
    IF o.bad_pixel_correction = None THEN image
    ELSE Stored(apply_bad_pixel_correction(image, o.bad_pixel_correction))
Balanced(image, gains) == IF gains = None THEN image ELSE apply_white_balance_raw(image, gains)

Mosaic(image, o, gains) ==
    LET white == Most(0, image.white_level - image.black_levels[1])
    IN Stored(scaled_to_16_bits(Stored(Balanced(
           Corrected(Stored(apply_black_level(image)), o), gains)), white))

AsRgb(image, rgb) ==
    IF Failed(rgb) THEN rgb
    ELSE [RgbImageNew(rgb.w, rgb.h, rgb.data) EXCEPT
             !.baseline_exposure = image.baseline_exposure, !.default_crop = image.default_crop]

Developed(image, o, gains) ==
    AsRgb(image, demosaic(to_demosaic(o.demosaic), Mosaic(image, o, gains)))

(* The picture and, for a linear file, the gains it still has to be given.  *)
initial_image(o, gains) ==
    IF is_linear_raw_dng THEN linear_image
    ELSE Then(decode_raw, LAMBDA image : Developed(image, o, gains))

Cropped(image) ==
    IF image.default_crop = None THEN image ELSE apply_crop(image, image.default_crop)
WhiteBalanced(image, gains) == IF gains = None THEN image ELSE apply_white_balance(image, gains)
InSrgb(image, matrix) == IF matrix = None THEN image ELSE apply_color_matrix(image, matrix)
Smooth(image, o) ==
    IF o.denoise_sigma = None THEN image ELSE Stored(apply_bilateral_filter(image, o.denoise_sigma))
WithoutFringes(image, o) ==
    IF o.ca_correction = None THEN image
    ELSE apply_ca_correction(image, o.ca_correction[1], o.ca_correction[2])

(* The same gains are not applied a second time.                            *)
Finished(image, o, later_gains) ==
    LET balanced == Stored(WhiteBalanced(image, later_gains))
        coloured == Stored(InSrgb(balanced, resolve_color_matrix(o)))
        toned == Stored(apply_tone_reproduction(Stored(WithoutFringes(Smooth(coloured, o), o)), o.gamma))
    IN Then(apply_orientation(toned, Or(metadata.orientation, 1)),
            LAMBDA turned : [Stored(turned) EXCEPT !.color = "sRGB"])

process(o) ==
    LET gains == resolve_white_balance(o)
        later == IF is_linear_raw_dng THEN gains ELSE None
    IN Then(initial_image(o, gains),
            LAMBDA image : Then(Cropped(Stored(image)), LAMBDA i : Finished(i, o, later)))

(* The picture is upright now, and says so where the camera said otherwise. *)
exported_metadata ==
    IF Or(metadata.orientation, 1) # 1 THEN [metadata EXCEPT !.orientation = 1] ELSE metadata

-----------------------------------------------------------------------------
(* The calls.  Each starts when the caller has let go of the last answer.   *)

Opened == raw \notin {None, Error}

(* One export is made of a file, and a written file opened and read.        *)
Idle == answer = None /\ exported = None

Init == /\ \E i \in DOMAIN Files : file = Files[i]
        /\ raw = None /\ answer = None /\ exported = None

Open == /\ raw = None
        /\ raw' = open(file)
        /\ UNCHANGED <<file, answer, exported>>

Answered(call, value) == answer' = [call |-> call, value |-> value]

Thumbnail == /\ Opened /\ Idle
             /\ Answered("thumbnail", thumbnail)
             /\ UNCHANGED <<file, raw, exported>>

DecodeRaw == /\ Opened /\ Idle
             /\ Answered("decode_raw", decode_raw)
             /\ UNCHANGED <<file, raw, exported>>

Process(o) == /\ Opened /\ Idle
              /\ answer' = [call |-> "process", value |-> process(o), options |-> o]
              /\ UNCHANGED <<file, raw, exported>>

Concluded(call, job, image, encoded) ==
    /\ exported' = IF Failed(encoded) THEN None ELSE [job |-> job, image |-> image, file |-> encoded]
    /\ Answered(call, IF Failed(encoded) THEN encoded ELSE "ok")
    /\ UNCHANGED <<file, raw>>

(* The picture in memory is written with the metadata of the file and a     *)
(* packet of the caller's (encode_rgb_image_to_vec); a file that cannot be  *)
(* written is an error, and nothing is left of it.                          *)
Encode(job) ==
    /\ Opened /\ answer # None /\ exported = None
    /\ answer.call = "process" /\ answer.options = job.options /\ ~Failed(answer.value)
    /\ Concluded("encode", job, answer.value,
                 encode_rgb_image(answer.value, [exported_metadata EXCEPT !.xmp = job.xmp],
                                  job.encoding, job.coded))

(* The picture is made and written in one call.                             *)
ExportOf(job, image) ==
    Concluded("export", job, image,
              Then(image, LAMBDA i : encode_rgb_image(i, exported_metadata, job.encoding, job.coded)))

Export(job) ==
    /\ Opened /\ Idle
    /\ ExportOf(job, process(job.options))

(* An answer is dropped; a panic takes the opened file with it.             *)
Release == /\ answer # None
           /\ raw' = IF answer.value = Panic THEN None ELSE raw
           /\ answer' = None
           /\ UNCHANGED <<file, exported>>

(* What a DNG that was written reads as: gamut-dng puts the picture in the  *)
(* first directory, and the model it was given in the camera profile.       *)
Written(dng) ==
    [file EXCEPT
        !.order = "II", !.chain = <<8>>, !.len = 1000, !.blobs = <<>>,
        !.dirs = 8 :> [DNGVersion |-> Value("Byte", <<1, 4, 0, 0>>),
                       Photometric |-> Value("Short", <<34892>>)],
        !.head = [fuji |-> FALSE, crx |-> FALSE, ciff |-> FALSE, tiff |-> TRUE, cr2 |-> FALSE],
        !.dng = dng]

IsReopened == exported # None /\ exported.job.encoding.format = "Dng" /\ file.dng = exported.file.dng

Reopen == /\ exported # None /\ answer = None /\ ~IsReopened
          /\ exported.job.encoding.format = "Dng"
          /\ file' = Written(exported.file.dng) /\ raw' = None
          /\ UNCHANGED <<answer, exported>>

Next == \/ Open \/ Thumbnail \/ DecodeRaw \/ Release \/ Reopen
        \/ \E o \in Processing : Process(o)
        \/ \E job \in Exports : Export(job)
        \/ \E job \in Encodes : Encode(job)

Spec == Init /\ [][Next]_vars
=============================================================================
