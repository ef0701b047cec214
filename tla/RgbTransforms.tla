--------------------------- MODULE RgbTransforms ---------------------------
(* The corrections of sensor images and of RGB images, as in                *)
(* crates/rawshift-image/src/transforms and processing/color.rs.            *)
(*                                                                          *)
(* Coefficients are fractions [n, d]; the 32-bit floating-point products of *)
(* the code are exact fractions, cut down to a sample as its casts do.  The *)
(* two tone curves are parameters: they are tables of all the samples.      *)
EXTENDS DemosaicKernels

CONSTANTS Power(_, _),  \* Power(gamma, sample): the table of a gamma
          Filmic(_, _), \* Filmic(exposure, sample): the filmic table
          Likeness(_, _, _)  \* Likeness(sigma, distance^2, difference): the two Gaussians

Fraction(n, d) == [n |-> n, d |-> d]

clamp_u16(n, d) == Clamped(n \div d, 0, u16_MAX)

(* What a caller makes of replace_data that expects no error.               *)
Expect(answer) == IF answer = Error THEN Panic ELSE answer

Offset(image, x, y) == 3 * ((y * image.w) + x)
PixelAt(image, x, y) == SubSeq(image.data, Offset(image, x, y) + 1, Offset(image, x, y) + 3)

Positions(image) == (0 .. image.w - 1) \X (0 .. image.h - 1)

-----------------------------------------------------------------------------
(* On the sensor.                                                           *)

Cell(raw, i) == ((((i - 1) \div raw.size.w) % 2) * 2) + (((i - 1) % raw.size.w) % 2) + 1

apply_black_level(raw) ==
    IF \A i \in 1 .. 4 : raw.black_levels[i] = 0 THEN raw
    ELSE [raw EXCEPT !.data = [i \in DOMAIN raw.data |->
             Most(0, raw.data[i] - raw.black_levels[Cell(raw, i)])]]

(* The gains are those of the Bayer pattern, on an X-Trans sensor too.      *)
apply_white_balance_raw(raw, coeffs) ==
    LET Gain(i) == coeffs[to_array(raw.cfa_pattern)[Cell(raw, i)] + 1]
    IN [raw EXCEPT !.data = [i \in DOMAIN raw.data |->
           clamp_u16(raw.data[i] * Gain(i).n, Gain(i).d)]]

(* Bad pixels: the samples of the same site in the 5x5 window.              *)
collect_same_color_neighbors(raw, x, y) ==
    LET Near(k) == <<x - 2 + (k % 5), y - 2 + (k \div 5)>>
        Same(p) == /\ p # <<x, y>>
                   /\ p[1] \in 0 .. raw.size.w - 1 /\ p[2] \in 0 .. raw.size.h - 1
                   /\ cfa_color(raw.cfa_pattern, p[1], p[2]) = cfa_color(raw.cfa_pattern, x, y)
        window == SelectSeq([k \in 1 .. 25 |-> Near(k - 1)], Same)
    IN [i \in DOMAIN window |-> get_pixel(raw, window[i][1], window[i][2])]

median(values) ==
    LET sorted == SortSeq(values, LAMBDA a, b : a < b)
        mid == Len(values) \div 2
    IN IF values = <<>> THEN 0
       ELSE IF Len(values) % 2 = 0 THEN (sorted[mid] + sorted[mid + 1]) \div 2
       ELSE sorted[mid + 1]

average(values) ==
    IF values = <<>> THEN 0 ELSE FoldLeft(LAMBDA a, b : a + b, 0, values) \div Len(values)

(* Bad is what differs from the median by more than half of it.             *)
IsBad(raw, x, y) ==
    LET neighbors == collect_same_color_neighbors(raw, x, y)
    IN /\ median(neighbors) > 0
       /\ 2 * Abs(get_pixel(raw, x, y) - median(neighbors)) > median(neighbors)

detect_bad_pixels(raw) ==
    {p \in (0 .. raw.size.w - 1) \X (0 .. raw.size.h - 1) : IsBad(raw, p[1], p[2])}

Replacement(raw, mode, x, y) ==
    IF mode = "Median" THEN median(collect_same_color_neighbors(raw, x, y))
    ELSE average(collect_same_color_neighbors(raw, x, y))

(* Every replacement is computed before the first one is stored.            *)
apply_bad_pixel_correction(raw, mode) ==
    LET bad == detect_bad_pixels(raw)
        At(i) == <<(i - 1) % raw.size.w, (i - 1) \div raw.size.w>>
    IN [raw EXCEPT !.data = [i \in DOMAIN raw.data |->
           IF At(i) \in bad THEN Replacement(raw, mode, At(i)[1], At(i)[2]) ELSE raw.data[i]]]

-----------------------------------------------------------------------------
(* On the RGB image.                                                        *)

apply_white_balance(image, coeffs) ==
    [image EXCEPT !.data = [i \in DOMAIN image.data |->
        clamp_u16(image.data[i] * coeffs[((i - 1) % 3) + 1].n, coeffs[((i - 1) % 3) + 1].d)]]

(* A matrix is nine numbers in 1/1000, by rows.                             *)
apply_color_matrix(image, m) ==
    LET Row(p, r) == clamp_u16((p[1] * m[(3 * r) + 1]) + (p[2] * m[(3 * r) + 2])
                               + (p[3] * m[(3 * r) + 3]), 1000)
        At(i) == Row(SubSeq(image.data, (3 * ((i - 1) \div 3)) + 1, (3 * ((i - 1) \div 3)) + 3),
                     (i - 1) % 3)
    IN [image EXCEPT !.data = [i \in DOMAIN image.data |-> At(i)]]

XYZ_TO_SRGB_D65 == <<3240, -1537, -499, -969, 1876, 42, 56, -204, 1057>>

(* Matrices of cameras are whole numbers, and their inverses too.           *)
det_3x3(m) ==
    (m[1] * ((m[5] * m[9]) - (m[6] * m[8]))) - (m[2] * ((m[4] * m[9]) - (m[6] * m[7])))
    + (m[3] * ((m[4] * m[8]) - (m[5] * m[7])))

(* The cofactor of an entry, its row and column taken cyclically.           *)
invert_3x3(m) ==
    LET At(r, c) == m[(3 * (r % 3)) + (c % 3) + 1]
        Cofactor(r, c) == (At(r + 1, c + 1) * At(r + 2, c + 2)) - (At(r + 1, c + 2) * At(r + 2, c + 1))
    IN IF det_3x3(m) = 0 THEN None
       ELSE [i \in 1 .. 9 |-> Cofactor((i - 1) % 3, (i - 1) \div 3) \div det_3x3(m)]

multiply_3x3(a, b) ==
    [i \in 1 .. 9 |-> LET r == (i - 1) \div 3
                          c == (i - 1) % 3
                      IN (a[(3 * r) + 1] * b[c + 1]) + (a[(3 * r) + 2] * b[c + 4])
                         + (a[(3 * r) + 3] * b[c + 7])]

compute_camera_to_srgb(xyz_to_camera) ==
    IF invert_3x3(xyz_to_camera) = None THEN None
    ELSE multiply_3x3(XYZ_TO_SRGB_D65, invert_3x3(xyz_to_camera))

(* Noise: every sample becomes the mean of its channel in a window of       *)
(* 2*sigma, weighted by how near and how alike the neighbours are.          *)
apply_bilateral_filter(image, sigma) ==
    LET radius == ((2 * sigma.n) + sigma.d - 1) \div sigma.d
        Window(x, y) == (Most(0, x - radius) .. Least(x + radius, image.w - 1))
                        \X (Most(0, y - radius) .. Least(y + radius, image.h - 1))
        Sample(p, c) == image.data[Offset(image, p[1], p[2]) + c]
        Smoothed(x, y, c) ==
            LET W(p) == Likeness(sigma, ((p[1] - x) ^ 2) + ((p[2] - y) ^ 2),
                                 Abs(Sample(p, c) - Sample(<<x, y>>, c)))
                total == SumFunction([p \in Window(x, y) |-> W(p) * Sample(p, c)])
                weight == SumFunction([p \in Window(x, y) |-> W(p)])
            IN IF weight = 0 THEN Sample(<<x, y>>, c) ELSE ((2 * total) + weight) \div (2 * weight)
    IN [image EXCEPT !.data = [i \in DOMAIN image.data |->
           Smoothed(((i - 1) \div 3) % image.w, ((i - 1) \div 3) \div image.w, ((i - 1) % 3) + 1)]]

(* Chromatic aberration: red and blue are taken from where a zoom about the *)
(* centre puts them, between the four samples around it.  With the scale    *)
(* n/d positions are in 1/(2n) of a pixel; the last step rounds.            *)
bilinear_sample(image, channel, unit, sx, sy) ==
    LET X == Clamped(sx, 0, (image.w - 1) * unit)
        Y == Clamped(sy, 0, (image.h - 1) * unit)
        x0 == X \div unit
        y0 == Y \div unit
        x1 == Least(x0 + 1, image.w - 1)
        y1 == Least(y0 + 1, image.h - 1)
        fx == X % unit
        fy == Y % unit
        P(x, y) == image.data[Offset(image, x, y) + channel]
        total == (((P(x0, y0) * (unit - fx)) + (P(x1, y0) * fx)) * (unit - fy))
                 + (((P(x0, y1) * (unit - fx)) + (P(x1, y1) * fx)) * fy)
    IN (total + ((unit * unit) \div 2)) \div (unit * unit)

apply_ca_correction(image, red_scale, blue_scale) ==
    LET Scaled(i, channel, s) ==
            LET x == ((i - 1) \div 3) % image.w
                y == ((i - 1) \div 3) \div image.w
                Source(v, size) == ((size - 1) * s.n) + (((2 * v) - (size - 1)) * s.d)
            IN IF s.n = s.d THEN image.data[i]
               ELSE bilinear_sample(image, channel, 2 * s.n, Source(x, image.w), Source(y, image.h))
        At(i) == CASE i % 3 = 1 -> Scaled(i, 1, red_scale)
                   [] i % 3 = 2 -> image.data[i]
                   [] i % 3 = 0 -> Scaled(i, 3, blue_scale)
    IN [image EXCEPT !.data = [i \in DOMAIN image.data |-> At(i)]]

(* The curve: a power, which at one changes nothing, or the filmic one with *)
(* the exposure of the image, which is none when it has none.               *)
apply_gamma(image, gamma) ==
    IF gamma = Fraction(1, 1) THEN image
    ELSE [image EXCEPT !.data = [i \in DOMAIN image.data |-> Power(gamma, image.data[i])]]

apply_tonemap(image, exposure) ==
    [image EXCEPT !.data = [i \in DOMAIN image.data |-> Filmic(Or0(exposure), image.data[i])]]

apply_tone_reproduction(image, gamma) ==
    IF gamma # None THEN apply_gamma(image, gamma)
    ELSE apply_tonemap(image, image.baseline_exposure)

-----------------------------------------------------------------------------
(* Orientation and crop.  From(x, y) is where the pixel at x, y of the new  *)
(* image was.                                                               *)

Moved(image, w, h, From(_, _)) ==
    LET Source(i) == From(((i - 1) \div 3) % w, ((i - 1) \div 3) \div w)
    IN [i \in 1 .. 3 * w * h |->
           image.data[Offset(image, Source(i)[1], Source(i)[2]) + ((i - 1) % 3) + 1]]

flip_horizontal(image) ==
    [image EXCEPT !.data = Moved(image, image.w, image.h, LAMBDA x, y : <<image.w - 1 - x, y>>)]
flip_vertical(image) ==
    [image EXCEPT !.data = Moved(image, image.w, image.h, LAMBDA x, y : <<x, image.h - 1 - y>>)]
rotate_180(image) ==
    [image EXCEPT !.data = Moved(image, image.w, image.h,
                                 LAMBDA x, y : <<image.w - 1 - x, image.h - 1 - y>>)]
rotate_90_cw(image) ==
    Expect(replace_data(image, image.h, image.w,
                        Moved(image, image.h, image.w, LAMBDA x, y : <<y, image.h - 1 - x>>)))
rotate_90_ccw(image) ==
    Expect(replace_data(image, image.h, image.w,
                        Moved(image, image.h, image.w, LAMBDA x, y : <<image.w - 1 - y, x>>)))

(* Values that mean nothing leave the image as it is.                       *)
apply_orientation(image, orientation) ==
    CASE orientation = 2 -> flip_horizontal(image)
      [] orientation = 3 -> rotate_180(image)
      [] orientation = 4 -> flip_vertical(image)
      [] orientation = 5 -> rotate_90_ccw(flip_horizontal(image))
      [] orientation = 6 -> rotate_90_cw(image)
      [] orientation = 7 -> rotate_90_cw(flip_horizontal(image))
      [] orientation = 8 -> rotate_90_ccw(image)
      [] OTHER -> image

(* A crop that leaves the image is not done.                                *)
apply_crop(image, crop) ==
    IF crop.x + crop.w > image.w \/ crop.y + crop.h > image.h THEN image
    ELSE Expect(replace_data(image, crop.w, crop.h,
             Moved(image, crop.w, crop.h, LAMBDA x, y : <<crop.x + x, crop.y + y>>)))
=============================================================================
