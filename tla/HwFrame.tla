------------------------------ MODULE HwFrame ------------------------------
(***************************************************************************)
(* The pixels of a hardware-decoded still on their way from the driver to  *)
(* the container pipeline: the planes of a mapped VAImage copied into a    *)
(* DecodedFrame (rawshift-hwdec), the checks of DecodedFrame::new, and the *)
(* planes read back into 16-bit planar samples (hw_planes.rs and the two   *)
(* adapters).                                                              *)
(*                                                                         *)
(* A plane is [data, stride], its data a sequence of bytes; offsets count  *)
(* from 0 as in the code.  Result values are [ok |-> TRUE, ...] or         *)
(* Fail(reason).                                                           *)
(***************************************************************************)
EXTENDS Naturals, Sequences

Pow2[i \in Nat] == IF i = 0 THEN 1 ELSE 2 * Pow2[i - 1]

Fail(reason) == [ok |-> FALSE, reason |-> reason]

PixelFormat == {"Nv12", "P010", "I420", "I010"}

plane_count(f) == IF f \in {"Nv12", "P010"} THEN 2 ELSE 3

bytes_per_sample(f) == IF f \in {"Nv12", "I420"} THEN 1 ELSE 2

supports_bit_depth(f, depth) ==
  IF f \in {"Nv12", "I420"} THEN depth = 8 ELSE depth \in 9..16

DivCeil2(n) == (n + 1) \div 2

(* Samples per row and rows of plane i (from 1) of a w x h picture.        *)
PlaneSize(f, i, w, h) ==
  CASE i = 1                       -> <<w, h>>
    [] i = 2 /\ plane_count(f) = 2 -> <<2 * DivCeil2(w), DivCeil2(h)>>
    [] OTHER                       -> <<DivCeil2(w), DivCeil2(h)>>

-----------------------------------------------------------------------------
(* DecodedFrame::new: the checks in their order.                           *)

PlaneFits(plane, row_bytes, rows) ==
  /\ plane.stride >= row_bytes
  /\ Len(plane.data) >= plane.stride * (rows - 1) + row_bytes

NewFrame(f, w, h, depth, planes) ==
  CASE w = 0 \/ h = 0 -> Fail("zero size")
    [] ~supports_bit_depth(f, depth) -> Fail("depth")
    [] Len(planes) # plane_count(f) -> Fail("plane count")
    [] \E i \in 1..Len(planes) :
         LET size == PlaneSize(f, i, w, h)
         IN ~PlaneFits(planes[i], size[1] * bytes_per_sample(f), size[2]) ->
         Fail("plane size")
    [] OTHER -> [ok |-> TRUE, format |-> f, width |-> w, height |-> h,
                 depth |-> depth, planes |-> planes]

-----------------------------------------------------------------------------
(* copy_plane: a window of a plane of the mapped image, or Fail when the   *)
(* image ends before it.                                                   *)

CopyPlane(data, offset, pitch, x_bytes, y_rows, row_bytes, rows) ==
  LET start(row) == offset + pitch * (y_rows + row) + x_bytes
  IN IF \E row \in 0..rows - 1 : start(row) + row_bytes > Len(data)
     THEN Fail("image too small")
     ELSE [ok |-> TRUE, stride |-> row_bytes,
           data |-> [i \in 1..rows * row_bytes |->
                       data[start((i - 1) \div row_bytes) + ((i - 1) % row_bytes) + 1]]]

(* Mutant: the chroma rows are taken from the luma row.                    *)
ImagePlanes_FullHeight(image, crop, f) ==
  LET bps == bytes_per_sample(f)
  IN <<CopyPlane(image.data, image.offsets[1], image.pitches[1],
                 crop.x * bps, crop.y, crop.w * bps, crop.h),
       CopyPlane(image.data, image.offsets[2], image.pitches[2],
                 crop.x * bps, crop.y, 2 * DivCeil2(crop.w) * bps,
                 DivCeil2(crop.h))>>

(* copy_image_planes: crop is [x, y, w, h].  The chroma window starts at   *)
(* the byte of its luma column and half way down.                          *)
ImagePlanes(image, crop, f) ==
  LET bps == bytes_per_sample(f)
  IN <<CopyPlane(image.data, image.offsets[1], image.pitches[1],
                 crop.x * bps, crop.y, crop.w * bps, crop.h),
       CopyPlane(image.data, image.offsets[2], image.pitches[2],
                 crop.x * bps, crop.y \div 2, 2 * DivCeil2(crop.w) * bps,
                 DivCeil2(crop.h))>>

FormatOf(fourcc) == IF fourcc = "NV12" THEN "Nv12" ELSE "P010"

CopyImage(image, crop, depth) ==
  IF image.num_planes < 2 THEN Fail("planes")
  ELSE IF image.fourcc \notin {"NV12", "P010"} THEN Fail("fourcc")
  ELSE IF ~image.maps THEN Fail("map")
  ELSE LET f == FormatOf(image.fourcc)
           planes == ImagePlanes(image, crop, f)
       IN IF \E i \in 1..2 : ~planes[i].ok THEN Fail("image too small")
          ELSE NewFrame(f, crop.w, crop.h, depth, planes)

-----------------------------------------------------------------------------
(* hw_planes.rs: rows of samples out of a plane, in row-major order.       *)

SampleMask(depth) == Pow2[depth] - 1

(* The bytes of column i (from 0) when each of a row's columns has n.      *)
At(plane, width, i, n) == (i \div width) * plane.stride + (i % width) * n + 1

Word(data, at) == data[at] + 256 * data[at + 1]

read_plane_8(plane, width, rows) ==
  [i \in 1..width * rows |-> plane.data[At(plane, width, i - 1, 1)]]

deinterleave_8(plane, width, rows) ==
  [c \in {"cb", "cr"} |->
     [i \in 1..width * rows |->
        plane.data[At(plane, width, i - 1, 2) + (IF c = "cb" THEN 0 ELSE 1)]]]

read_plane_16(plane, width, rows, shift, depth) ==
  [i \in 1..width * rows |->
     (Word(plane.data, At(plane, width, i - 1, 2)) \div Pow2[shift]) % (SampleMask(depth) + 1)]

deinterleave_16(plane, width, rows, shift, depth) ==
  [c \in {"cb", "cr"} |->
     [i \in 1..width * rows |->
        (Word(plane.data, At(plane, width, i - 1, 4) + (IF c = "cb" THEN 0 ELSE 2))
           \div Pow2[shift]) % (SampleMask(depth) + 1)]]

(* Mutant: both word formats are read as if the sample were in the low     *)
(* bits.                                                                   *)
Shift_LowBits(frame) == 0

(* P010 keeps the sample in the high bits, I010 in the low ones.           *)
Shift(frame) == IF frame.format = "P010" THEN 16 - frame.depth ELSE 0

Luma(frame) ==
  IF bytes_per_sample(frame.format) = 1
  THEN read_plane_8(frame.planes[1], frame.width, frame.height)
  ELSE read_plane_16(frame.planes[1], frame.width, frame.height, Shift(frame), frame.depth)

Chroma(frame) ==
  LET cw == DivCeil2(frame.width)
      ch == DivCeil2(frame.height)
      plane(c) == frame.planes[IF c = "cb" THEN 2 ELSE 3]
  IN CASE frame.format = "Nv12" -> deinterleave_8(frame.planes[2], cw, ch)
       [] frame.format = "P010" ->
            deinterleave_16(frame.planes[2], cw, ch, Shift(frame), frame.depth)
       [] frame.format = "I420" ->
            [c \in {"cb", "cr"} |-> read_plane_8(plane(c), cw, ch)]
       [] frame.format = "I010" ->
            [c \in {"cb", "cr"} |->
               read_plane_16(plane(c), cw, ch, Shift(frame), frame.depth)]

(* PlanarFrame::new (external) checks the planes' sizes again: these are    *)
(* the sizes it asks for.                                                  *)
Planar(frame, chroma_format, chroma) ==
  [ok |-> TRUE, width |-> frame.width, height |-> frame.height, depth |-> frame.depth,
   chroma_format |-> chroma_format, y |-> Luma(frame),
   cb |-> chroma.cb, cr |-> chroma.cr]

NoChroma == [cb |-> <<>>, cr |-> <<>>]

(* hw_frame_to_planar (HEIC): the configuration decides whether the chroma *)
(* of the surface is neutral filling; everything else is taken for 4:2:0.  *)
hw_frame_to_planar(frame, coded_chroma) ==
  IF coded_chroma = "Monochrome"
  THEN Planar(frame, "Monochrome", NoChroma)
  ELSE Planar(frame, "Yuv420", Chroma(frame))

(* hw_frame_to_decoded (AVIF) refuses what a 4:2:0 surface cannot carry.   *)
hw_frame_to_decoded(frame, coded_chroma) ==
  CASE coded_chroma = "Monochrome" -> Planar(frame, "Monochrome", NoChroma)
    [] coded_chroma = "Yuv420"     -> Planar(frame, "Yuv420", Chroma(frame))
    [] OTHER                       -> Fail("4:2:0 surface")
=============================================================================
