---------------------------- MODULE SensorImage ----------------------------
(* The vocabulary of sensor images: crates/rawshift-core/src/image.rs.      *)
(* Sizes are [w, h], rectangles [x, y, w, h], images hold their samples in  *)
(* row order.  Colours are 0, 1, 2 for red, green, blue.                    *)
EXTENDS Integers, Sequences, FiniteSets

CONSTANTS None,   \* Rust's None
          Error,  \* an error returned to the caller
          MaxU32  \* the largest coordinate

ASSUME MaxU32Assumption == MaxU32 \in Nat

Least(a, b) == IF a <= b THEN a ELSE b
Most(a, b)  == IF a >= b THEN a ELSE b
Clamped(v, low, high) == Most(low, Least(v, high))

u16_MAX == 65535

(* The largest sample of a depth: 16 and more saturate, 0 has none.         *)
white_level_from_bit_depth(depth) ==
    IF depth >= 16 THEN u16_MAX ELSE IF depth = 0 THEN 0 ELSE (2 ^ depth) - 1

num_pixels(size) == size.w * size.h

Dims(w, h) == [w |-> w, h |-> h]
from_coords(x, y, w, h) == [x |-> x, y |-> y, w |-> w, h |-> h]
right(rect)  == Least(rect.x + rect.w, MaxU32)
bottom(rect) == Least(rect.y + rect.h, MaxU32)

-----------------------------------------------------------------------------
(* The mosaics.                                                             *)

Patterns == {"RGGB", "GRBG", "BGGR", "GBRG"}

to_array(pattern) ==
    CASE pattern = "RGGB" -> <<0, 1, 1, 2>>
      [] pattern = "GRBG" -> <<1, 0, 2, 1>>
      [] pattern = "BGGR" -> <<2, 1, 1, 0>>
      [] pattern = "GBRG" -> <<1, 2, 0, 1>>

from_array(cells) ==
    IF \E p \in Patterns : to_array(p) = cells
    THEN CHOOSE p \in Patterns : to_array(p) = cells ELSE None

XTransStandard ==
    <<<<1, 2, 1, 1, 0, 1>>, <<0, 1, 0, 2, 1, 2>>, <<1, 2, 1, 1, 0, 1>>,
      <<1, 0, 1, 2, 1, 2>>, <<1, 2, 1, 1, 0, 1>>, <<0, 1, 0, 2, 1, 2>>>>

(* The colour of the mosaic at a sensor position; cells hold the X-Trans    *)
(* pattern, or None for a Bayer sensor.                                     *)
color_at(cells, x, y) == cells[(y % 6) + 1][(x % 6) + 1]
bayer_at(pattern, x, y) == to_array(pattern)[((y % 2) * 2) + (x % 2) + 1]

(* The site of a Bayer position: red 0, blue 2, green 1 on a row of red and *)
(* green 3 on a row of blue.                                                *)
cfa_color(pattern, x, y) ==
    IF bayer_at(pattern, x, y) # 1 THEN bayer_at(pattern, x, y)
    ELSE IF bayer_at(pattern, x + 1, y) = 0 THEN 1 ELSE 3

-----------------------------------------------------------------------------
(* RawImage.  What the builder is not told keeps the value of new.          *)

RawImageNew(size, active_area, depth, pattern) ==
    [size |-> size, active_area |-> active_area, bit_depth |-> depth,
     cfa_pattern |-> pattern, xtrans_pattern |-> None, black_levels |-> <<0, 0, 0, 0>>,
     white_level |-> white_level_from_bit_depth(depth),
     data |-> [i \in 1 .. num_pixels(size) |-> 0],
     baseline_exposure |-> None, default_crop |-> None]

get_pixel(raw, x, y) ==
    IF x < raw.size.w /\ y < raw.size.h THEN raw.data[(y * raw.size.w) + x + 1] ELSE None
Or0(sample) == IF sample = None THEN 0 ELSE sample

-----------------------------------------------------------------------------
(* RgbImage: samples R, G, B, R, ... in row order.  new refuses an empty    *)
(* image and a buffer of another size; replace_data refuses them too and    *)
(* then leaves the image as it was.                                         *)

Sound(w, h, data) == w > 0 /\ h > 0 /\ Len(data) = 3 * w * h

RgbImageNew(w, h, data) ==
    IF ~Sound(w, h, data) THEN Error
    ELSE [w |-> w, h |-> h, data |-> data, baseline_exposure |-> None, default_crop |-> None,
          color |-> "unspecified"]

replace_data(image, w, h, data) ==
    IF ~Sound(w, h, data) THEN Error ELSE [image EXCEPT !.w = w, !.h = h, !.data = data]
=============================================================================
