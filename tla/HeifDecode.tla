----------------------------- MODULE HeifDecode -----------------------------
(***************************************************************************)
(* HeicFile::decode_item and AvifFile::decode_item: the container pipeline *)
(* (gamut, external) asks an adapter for coded pictures of the item; the   *)
(* adapter serializes the configuration, asks the hardware decoder and     *)
(* lifts the surface it gets back into planar samples.                     *)
(*                                                                         *)
(* The hardware decoder is either the libva backend, of which the parsing  *)
(* of the record and of the payload's framing and the copy out of the      *)
(* mapped image are modelled here (the session and the driver calls in     *)
(* VaapiDecoder, which decode_still stands for), or any other that builds  *)
(* a DecodedFrame of planes of its own.                                    *)
(***************************************************************************)
EXTENDS HwFrame, CodecRecords

CONSTANTS
  Files,      \* what HeifContainer / AvifContainer may find (see Item below)
  Surfaces(_),\* driver images that hold a decoded picture
  Frames(_),  \* planes another backend may return for it
  None

(* An item is [codec, config, chroma, units, chunks, rest, pictures], units*)
(* those of its record; a coded picture is [payload, chunks, rest, units,  *)
(* whole, crop, depth, sample], sample a function from component, column   *)
(* and row of the coded picture, and whole whether record and payload are  *)
(* what a conforming writer leaves.                                        *)

-----------------------------------------------------------------------------
(* What `sound` means.  Sample (i, j) of component c of the visible        *)
(* window of picture p; chroma has half the columns and rows.              *)
Sample(p, c, i, j) ==
  LET scale == IF c = "y" THEN 1 ELSE 2
  IN p.sample[c, p.crop.x \div scale + i, p.crop.y \div scale + j]

WindowCols(p, c) == 0..(IF c = "y" THEN p.crop.w ELSE DivCeil2(p.crop.w)) - 1
WindowRows(p, c) == 0..(IF c = "y" THEN p.crop.h ELSE DivCeil2(p.crop.h)) - 1

Components == {"y", "cb", "cr"}
Shown(item) == IF item.chroma = "Monochrome" THEN {"y"} ELSE Components

(* Samples fit their depth, and a window of a picture with chroma begins   *)
(* on a chroma sample.                                                     *)
PictureOK(p, shown) ==
  /\ p.depth \in 8..16
  /\ p.crop.x \in Nat /\ p.crop.y \in Nat
  /\ p.crop.w \in Nat \ {0} /\ p.crop.h \in Nat \ {0}
  /\ shown = Components => p.crop.x % 2 = 0 /\ p.crop.y % 2 = 0
  /\ \A c \in shown : \A i \in WindowCols(p, c), j \in WindowRows(p, c) :
       Sample(p, c, i, j) \in 0..Pow2[p.depth] - 1

(* The bytes from place `at` on are sample v as a surface of format f      *)
(* keeps it: P010 in the high bits of a word, I010 in the low ones.        *)
Stores(data, at, f, depth, v) ==
  IF bytes_per_sample(f) = 1 THEN data[at] = v
  ELSE data[at] + 256 * data[at + 1] = v * (IF f = "P010" THEN Pow2[16 - depth] ELSE 1)

(* A driver image is sound when it is of the depth's format and has every  *)
(* byte of the window, in two planes, the second of pairs.                 *)
ImageFormat(p) == IF p.depth = 8 THEN "Nv12" ELSE "P010"

ImageByte(image, p, c, i, j) ==
  LET n == bytes_per_sample(ImageFormat(p))
  IN 1 + IF c = "y"
         THEN image.offsets[1] + image.pitches[1] * (p.crop.y + j) + (p.crop.x + i) * n
         ELSE image.offsets[2] + image.pitches[2] * (p.crop.y \div 2 + j)
                + (p.crop.x + 2 * i) * n + (IF c = "cr" THEN n ELSE 0)

WholeImage(image, p) ==
  /\ image.num_planes >= 2 /\ image.maps
  /\ image.fourcc = IF p.depth = 8 THEN "NV12" ELSE "P010"
  /\ \A c \in Components : \A i \in WindowCols(p, c), j \in WindowRows(p, c) :
       ImageByte(image, p, c, i, j) + bytes_per_sample(ImageFormat(p)) - 1 <= Len(image.data)

ImageShows(image, p, shown) ==
  \A c \in shown : \A i \in WindowCols(p, c), j \in WindowRows(p, c) :
    Stores(image.data, ImageByte(image, p, c, i, j), ImageFormat(p), p.depth, Sample(p, c, i, j))

(* Another backend's planes are sound when they are as many as the format  *)
(* has and hold the window's rows, one stride apart and not overlapping.   *)
FramePlane(f, c) ==
  f.planes[IF c = "y" THEN 1 ELSE IF c = "cb" THEN 2 ELSE plane_count(f.format)]

FrameByte(f, c, i, j) ==
  LET n == bytes_per_sample(f.format)
  IN 1 + FramePlane(f, c).stride * j
       + IF c = "y" \/ plane_count(f.format) = 3 THEN i * n
         ELSE i * (2 * n) + (IF c = "cr" THEN n ELSE 0)

RowBytes(f, p, k) == PlaneSize(f.format, k, p.crop.w, p.crop.h)[1] * bytes_per_sample(f.format)

WholeFrame(f, p) ==
  /\ supports_bit_depth(f.format, p.depth)
  /\ Len(f.planes) = plane_count(f.format)
  /\ \A k \in 1..plane_count(f.format) :
       /\ RowBytes(f, p, k) <= f.planes[k].stride
       /\ \A j \in 0..PlaneSize(f.format, k, p.crop.w, p.crop.h)[2] - 1 :
            f.planes[k].stride * j + RowBytes(f, p, k) <= Len(f.planes[k].data)

FrameShows(f, p, shown) ==
  \A c \in shown : \A i \in WindowCols(p, c), j \in WindowRows(p, c) :
    Stores(FramePlane(f, c).data, FrameByte(f, c, i, j), f.format, p.depth, Sample(p, c, i, j))

ImageOK(image, p, shown) ==
  /\ image.sound \in BOOLEAN /\ image.num_planes \in Nat /\ image.data \in Seq(Nat)
  /\ \A k \in 1..2 : image.offsets[k] \in Nat /\ image.pitches[k] \in Nat
  /\ image.sound <=> WholeImage(image, p)
  /\ image.sound => ImageShows(image, p, shown)

FrameOK(f, p, shown) ==
  /\ f.sound \in BOOLEAN /\ f.format \in PixelFormat /\ Len(f.planes) \in Nat
  /\ \A k \in 1..Len(f.planes) :
       f.planes[k].stride \in Nat /\ f.planes[k].data \in Seq(Nat)
  /\ f.sound <=> WholeFrame(f, p)
  /\ f.sound => FrameShows(f, p, shown)

ASSUME SurfaceAssumption ==
  \A item \in Files :
    /\ Len(item.pictures) \in Nat
    /\ \A n \in 1..Len(item.pictures) :
         LET p == item.pictures[n]
         IN /\ PictureOK(p, Shown(item))
            /\ \A image \in Surfaces(p) : ImageOK(image, p, Shown(item))
            /\ \A f \in Frames(p) : FrameOK(f, p, Shown(item))

-----------------------------------------------------------------------------
(* What `whole` means: of a record that fits, in scope, and without a rest *)
(* that is no unit (NalsOK and ObusOK, module CodecRecords).               *)

RecordWhole(item) ==
  IF item.codec = "hevc" THEN HvccFits(item.config) /\ item.config.length_size_minus_one # 2
  ELSE item.config.seq_profile = 0 /\ item.rest = <<>>

ASSUME UnitsAssumption ==
  \A item \in Files :
    /\ IF item.codec = "hevc"
       THEN /\ HevcConfigOK(item.config)
            /\ item.units = FlattenSeq([i \in DOMAIN item.config.arrays |->
                                          item.config.arrays[i].nal_units])
       ELSE /\ Av1ConfigOK(item.config)
            /\ ObusOK(item.config.config_obus, item.chunks, item.units, item.rest)
    /\ \A n \in 1..Len(item.pictures) :
         LET p == item.pictures[n]
         IN /\ IF item.codec = "hevc"
               THEN NalsOK(item.config.length_size_minus_one + 1,
                           p.payload, p.chunks, p.units, p.rest)
               ELSE ObusOK(p.payload, p.chunks, p.units, p.rest)
            /\ p.whole = (RecordWhole(item) /\ p.rest = <<>>)

-----------------------------------------------------------------------------
(* The names of errors; what is not an error has none.                     *)
FrameErrors == {"zero size", "depth", "plane count", "plane size",
                "planes", "fourcc", "map", "image too small"}
HwErrors == {"unavailable", "decode", "invalid"} \cup FrameErrors
Failures == {"adapter", "hw", "lift", "pipeline"}

ASSUME NoneAssumption == None \notin HwErrors \cup Failures

-----------------------------------------------------------------------------
VARIABLES
  file,     \* the item and its coded pictures, fixed
  next,     \* the coded picture the pipeline asked for last
  last_error, \* HwHevcAdapter.last_error / HwAv1Adapter.last_error
  seen,     \* the NAL units or OBUs the backend split out of record and payload
  frame,    \* the DecodedFrame of this call
  planar,   \* what decode_intra / decode_still gave the pipeline last
  failed,   \* the call that failed: "adapter", "hw", "lift", "pipeline"
  result,   \* what decode_item returned
  pc        \* "open", "pipeline", "call", "read", "lift", "done"

vars == <<file, next, last_error, seen, frame, planar, failed, result, pc>>

Picture == file.pictures[next]

Init ==
  /\ file \in Files
  /\ next = 1
  /\ last_error = None /\ seen = None /\ frame = None /\ planar = None
  /\ failed = None /\ result = None
  /\ pc = "open"

-----------------------------------------------------------------------------
(* decode_item.                                                            *)

NoDecoder ==
  /\ pc = "open"
  /\ result' = [kind |-> "HwDecoderUnavailable"]
  /\ pc' = "done"
  /\ UNCHANGED <<file, next, last_error, seen, frame, planar, failed>>

(* A decoder and a fresh adapter for this item.                            *)
NewAdapter ==
  /\ pc = "open"
  /\ last_error' = None
  /\ pc' = "pipeline"
  /\ UNCHANGED <<file, next, seen, frame, planar, failed, result>>

(* Mutant: the pipeline's static message hides the decoder's error.        *)
into_raw_error_Source(source) ==
  IF last_error = "unavailable" THEN [kind |-> "HwDecoderUnavailable"]
  ELSE [kind |-> "ImageDecode", from |-> source]

(* into_raw_error: the recorded hardware error wins over the pipeline's.   *)
into_raw_error(source) ==
  CASE last_error = "unavailable" -> [kind |-> "HwDecoderUnavailable"]
    [] last_error \notin {None, "unavailable"} -> [kind |-> "ImageDecode", from |-> last_error]
    [] OTHER -> [kind |-> "ImageDecode", from |-> source]

Ends(source) ==
  /\ result' = into_raw_error(source)
  /\ pc' = "done"

-----------------------------------------------------------------------------
(* The pipeline: it asks for coded pictures in any order, for one more     *)
(* than once or not at all, and gives up with the first that fails, or for *)
(* reasons of its own.                                                     *)

CallAdapter ==
  /\ pc = "pipeline" /\ failed = None
  /\ next' \in 1..Len(file.pictures)
  /\ pc' = "call"
  /\ UNCHANGED <<file, last_error, seen, frame, planar, failed, result>>

PipelineFails ==
  /\ pc = "pipeline"
  /\ failed' = IF failed = None THEN "pipeline" ELSE failed
  /\ Ends(failed')
  /\ UNCHANGED <<file, next, last_error, seen, frame, planar>>

(* rgba8_to_rgb_image of what the pipeline composed, three samples for     *)
(* every pixel, so that RgbImage::new finds nothing to refuse.             *)
PipelineDone ==
  /\ pc = "pipeline" /\ failed = None /\ planar # None
  /\ result' = [kind |-> "RgbImage"]
  /\ pc' = "done"
  /\ UNCHANGED <<file, next, last_error, seen, frame, planar, failed>>

-----------------------------------------------------------------------------
(* decode_intra (HEIC), decode_still (AVIF).                               *)

Record == IF file.codec = "hevc" THEN hvcc_bytes(file.config) ELSE av1c_bytes(file.config)

(* What the backend makes of a request: the units of the record, then      *)
(* those of the payload, as decode_hevc and decode_av1 chain them.         *)
BackendUnits(record, payload) ==
  IF file.codec = "hevc"
  THEN LET hvcc == parse_hvcc(record)
       IN IF ~hvcc.ok THEN Bad
          ELSE LET nals == split_length_prefixed(payload, hvcc.nal_length_size)
               IN IF ~nals.ok THEN Bad
                  ELSE [ok |-> TRUE, units |-> hvcc.nal_units \o nals.units]
  ELSE LET av1c == parse_av1c(record)
       IN IF ~av1c.ok \/ av1c.seq_profile # 0 THEN Bad
          ELSE LET config == split_obus(av1c.config_obus)
                   obus == split_obus(payload)
               IN IF ~config.ok \/ ~obus.ok THEN Bad
                  ELSE [ok |-> TRUE, units |-> config.obus \o obus.obus]

(* Back to the pipeline with a failure.                                    *)
CallFails(where) ==
  /\ failed' = where
  /\ pc' = "pipeline"

RecordDoesNotFit ==
  /\ pc = "call" /\ file.codec = "hevc" /\ ~HvccFits(file.config)
  /\ CallFails("adapter")
  /\ UNCHANGED <<file, next, last_error, seen, frame, planar, result>>

(* decode_still has split record and payload ...                           *)
BackendParses ==
  /\ pc = "call" /\ (file.codec = "hevc" => HvccFits(file.config))
  /\ LET parsed == BackendUnits(Record, Picture.payload)
     IN IF parsed.ok
        THEN /\ seen' = parsed.units
             /\ pc' = "read"
             /\ UNCHANGED <<last_error, failed>>
        ELSE /\ last_error' = "decode"
             /\ CallFails("hw")
             /\ UNCHANGED seen
  /\ UNCHANGED <<file, next, frame, planar, result>>

(* ... and fails, or has no decoder after all.                             *)
HwFails ==
  /\ pc = "read"
  /\ \E error \in {"unavailable", "decode", "invalid"} : last_error' = error
  /\ CallFails("hw")
  /\ UNCHANGED <<file, next, seen, frame, planar, result>>

Returned(answer) ==
  IF answer.ok
  THEN /\ frame' = answer
       /\ pc' = "lift"
       /\ UNCHANGED <<last_error, failed>>
  ELSE /\ last_error' = answer.reason
       /\ CallFails("hw")
       /\ UNCHANGED frame

(* The libva backend copies the finished surface.                          *)
VaapiReturns ==
  /\ pc = "read"
  /\ \E image \in Surfaces(Picture) : Returned(CopyImage(image, Picture.crop, Picture.depth))
  /\ UNCHANGED <<file, next, seen, planar, result>>

OtherBackendReturns ==
  /\ pc = "read"
  /\ \E f \in Frames(Picture) :
       Returned(NewFrame(f.format, Picture.crop.w, Picture.crop.h, Picture.depth, f.planes))
  /\ UNCHANGED <<file, next, seen, planar, result>>

Lifted == IF file.codec = "hevc" THEN hw_frame_to_planar(frame, file.chroma)
          ELSE hw_frame_to_decoded(frame, file.chroma)

(* A failed lift leaves last_error as it was.                              *)
Lift ==
  /\ pc = "lift"
  /\ IF Lifted.ok
     THEN /\ planar' = [of |-> next, lifted |-> Lifted]
          /\ pc' = "pipeline"
          /\ UNCHANGED failed
     ELSE /\ CallFails("lift")
          /\ UNCHANGED planar
  /\ frame' = None /\ seen' = None
  /\ UNCHANGED <<file, next, last_error, result>>

Next ==
  \/ NoDecoder \/ NewAdapter \/ CallAdapter \/ PipelineFails \/ PipelineDone
  \/ RecordDoesNotFit \/ BackendParses \/ HwFails \/ VaapiReturns
  \/ OtherBackendReturns \/ Lift

Spec == Init /\ [][Next]_vars

-----------------------------------------------------------------------------
(* The parameter sets and coded slices that reach the decoder are those of *)
(* the item, in its order, though the record was written anew by the       *)
(* adapter and taken apart again by the backend (hvcc_bytes against        *)
(* parse_hvcc, av1c_bytes against parse_av1c, and the framing they name),  *)
(* and no whole item is refused on the way.                                *)
UnitsDelivered ==
  /\ pc = "read" => seen = file.units \o Picture.units
  /\ pc = "call" /\ Picture.whole => BackendUnits(Record, Picture.payload).ok

(* Component c of the visible window, row by row.                          *)
Window(picture, c, w, h) ==
  [i \in 1..w * h |-> Sample(picture, c, (i - 1) % w, (i - 1) \div w)]

ShowsWindow(lifted, picture, chroma) ==
  LET w == picture.crop.w
      h == picture.crop.h
  IN /\ lifted.y = Window(picture, "y", w, h)
     /\ lifted.depth = picture.depth
     /\ IF chroma = "Monochrome"
        THEN lifted.cb = <<>> /\ lifted.cr = <<>>
        ELSE \A c \in {"cb", "cr"} : lifted[c] = Window(picture, c, DivCeil2(w), DivCeil2(h))

(* The pipeline gets the visible window of the coded picture, sample for   *)
(* sample, whatever the surface's format, pitch, plane offsets and padding *)
(* (copy_plane, hw_planes.rs, hw_frame_to_planar, hw_frame_to_decoded).    *)
LiftedExact ==
  planar # None => ShowsWindow(planar.lifted, file.pictures[planar.of], file.chroma)

(* A surface that holds the whole coded picture is never refused, and none *)
(* that does not is let through: the checks of copy_image_planes,          *)
(* copy_plane and DecodedFrame::new are neither too strict nor too weak    *)
(* for the reads that follow them unchecked.                               *)
SoundSurfacesOnly ==
  pc = "read" =>
    /\ \A image \in Surfaces(Picture) :
         CopyImage(image, Picture.crop, Picture.depth).ok <=> image.sound
    /\ \A f \in Frames(Picture) :
         NewFrame(f.format, Picture.crop.w, Picture.crop.h, Picture.depth, f.planes).ok
           <=> f.sound

(* The caller learns why the item failed: "unavailable" only when there    *)
(* was no decoder to use, the decoder's own error when it was the decoder  *)
(* that failed, and else the pipeline's (into_raw_error, "preferring the   *)
(* rich hardware error captured during the failing call").                 *)
FailureNamed ==
  pc = "done" /\ result.kind # "RgbImage" =>
    IF failed = "hw"
    THEN result = IF last_error = "unavailable" THEN [kind |-> "HwDecoderUnavailable"]
                  ELSE [kind |-> "ImageDecode", from |-> last_error]
    ELSE result = IF failed = None THEN [kind |-> "HwDecoderUnavailable"]
                  ELSE [kind |-> "ImageDecode", from |-> failed]

-----------------------------------------------------------------------------
(* The inductive invariant.                                                *)

TypeOK ==
  /\ file \in Files
  /\ next \in 1..Len(file.pictures) + 1
  /\ pc \in {"open", "pipeline", "call", "read", "lift", "done"}
  /\ failed \in Failures \cup {None} /\ last_error \in HwErrors \cup {None}
  /\ pc \in {"call", "read", "lift"} => next <= Len(file.pictures)

(* last_error is set by a failure of the decoder and by nothing else, and  *)
(* the pipeline calls no adapter after a failure.                          *)
ErrorInv ==
  /\ pc \in {"open", "call", "read", "lift"} => failed = None /\ last_error = None
  /\ pc = "pipeline" =>
       /\ failed \in {None, "adapter", "hw", "lift"}
       /\ IF failed = "hw" THEN last_error \in HwErrors ELSE last_error = None

(* A frame that reached the adapter has the window's geometry, every byte  *)
(* the adapter reads, and the picture's samples in them.                   *)
FrameReady(f, p, shown) ==
  /\ f.format \in PixelFormat
  /\ f.width = p.crop.w /\ f.height = p.crop.h /\ f.depth = p.depth
  /\ \A k \in 1..Len(f.planes) : f.planes[k].stride \in Nat
  /\ WholeFrame(f, p)
  /\ FrameShows(f, p, shown)

FrameInv == pc = "lift" => FrameReady(frame, Picture, Shown(file))

(* What the backend split is split from a whole item.                      *)
SeenInv == pc = "read" => Picture.whole /\ seen = file.units \o Picture.units

IInv == TypeOK /\ ErrorInv /\ FrameInv /\ SeenInv /\ FailureNamed /\ LiftedExact
=============================================================================
