-------------------------- MODULE DemosaicKernels --------------------------
(* The demosaicing algorithms of crates/rawshift-image/src/processing/      *)
(* demosaic: bilinear.rs, bayer.rs (AMaZE, LMMSE, RCD), xtrans.rs           *)
(* (Markesteijn, its three-pass form, the fast one) and the pass-through of *)
(* mod.rs.                                                                  *)
(*                                                                          *)
(* An algorithm maps a sensor image to the samples R, G, B, R, ... of its   *)
(* active area.  The 32-bit floating-point planes of the code are in 1/Sub  *)
(* of a sample, every quotient rounded down; the guards of the code against *)
(* division by zero (1e-5 in a denominator) are the case of a zero          *)
(* denominator.  Planes are in row order, positions <<x, y>>.               *)
EXTENDS SensorImage, SequencesExt

CONSTANTS Sub,    \* the planes are in 1/Sub of a sample
          Panic   \* the call panics

ASSUME SubAssumption == Sub \in Nat \ {0} /\ Sub % 4 = 0

Quarter == Sub \div 4
Abs(v) == IF v < 0 THEN -v ELSE v

-----------------------------------------------------------------------------
(* What every algorithm but the bilinear one works on: the active area, its *)
(* samples, the mosaic colour of each, and the level its output is cut to.  *)

(* Where the sample of an active-area position is in the sensor's buffer.   *)
Place(raw, x, y) ==
    ((y + raw.active_area.y) * raw.size.w) + x + raw.active_area.x + 1

InSensor(raw) == Place(raw, raw.active_area.w - 1, raw.active_area.h - 1) \in DOMAIN raw.data

(* SubSeq makes TLC compute the sequence once.                              *)
View(raw, Color(_, _)) ==
    LET a == raw.active_area
        n == a.w * a.h
    IN [w |-> a.w, h |-> a.h, white |-> raw.white_level,
        at |-> SubSeq([i \in 1 .. n |-> raw.data[Place(raw, (i - 1) % a.w, (i - 1) \div a.w)]], 1, n),
        fc |-> SubSeq([i \in 1 .. n |-> Color(((i - 1) % a.w) + a.x, ((i - 1) \div a.w) + a.y)], 1, n)]

Plane(s, Value(_, _)) ==
    SubSeq([i \in 1 .. s.w * s.h |-> Value((i - 1) % s.w, (i - 1) \div s.w)], 1, s.w * s.h)

Index(s, x, y) == (y * s.w) + x + 1
fc(s, x, y) == s.fc[Index(s, x, y)]

(* Mutant: outside the active area there are zeros.                         *)
get_ZeroOutside(s, x, y) ==
    IF x \in 0 .. s.w - 1 /\ y \in 0 .. s.h - 1 THEN s.at[Index(s, x, y)] ELSE 0

(* A sample of the active area; positions outside it repeat its border.     *)
get(s, x, y) == s.at[Index(s, Clamped(x, 0, s.w - 1), Clamped(y, 0, s.h - 1))]

(* The sites of a colour in the window of a radius around a position.       *)
Around(s, x, y, radius, color) ==
    {p \in (Most(0, x - radius) .. Least(s.w - 1, x + radius))
           \X (Most(0, y - radius) .. Least(s.h - 1, y + radius)) : fc(s, p[1], p[2]) = color}

(* Planes rounded and cut to the white level, interleaved.                  *)
Rounded(v, white) == Clamped((v + (Sub \div 2)) \div Sub, 0, white)
Truncated(v, white) == Clamped(v, 0, white * Sub) \div Sub
Interleaved(s, To16(_, _), red, green, blue) ==
    LET At(i) == LET p == ((i - 1) \div 3) + 1
                 IN CASE i % 3 = 1 -> To16(red[p], s.white)
                      [] i % 3 = 2 -> To16(green[p], s.white)
                      [] i % 3 = 0 -> To16(blue[p], s.white)
    IN SubSeq([i \in 1 .. 3 * s.w * s.h |-> At(i)], 1, 3 * s.w * s.h)

-----------------------------------------------------------------------------
(* Bilinear: the mean of the nearest samples of each colour, on the sensor. *)

(* A buffer shorter than the sensor, at which the closure panics, is left  *)
(* out: what the decoders hand on has a sample for every position.          *)
GetRaw(raw, x, y) == Or0(get_pixel(raw, x, y))
avg2(a, b) == (a + b) \div 2
avg4(a, b, c, d) == (a + b + c + d) \div 4

(* Before the first row or column stands the first one, after the last one  *)
(* zeros.                                                                   *)
demosaic_pixel_bilinear(raw, x, y) ==
    LET l == Most(0, x - 1)
        u == Most(0, y - 1)
        own == GetRaw(raw, x, y)
        across == avg2(GetRaw(raw, l, y), GetRaw(raw, x + 1, y))
        along  == avg2(GetRaw(raw, x, u), GetRaw(raw, x, y + 1))
        cross  == avg4(GetRaw(raw, x, u), GetRaw(raw, x, y + 1),
                       GetRaw(raw, l, y), GetRaw(raw, x + 1, y))
        corners == avg4(GetRaw(raw, l, u), GetRaw(raw, x + 1, u),
                        GetRaw(raw, l, y + 1), GetRaw(raw, x + 1, y + 1))
    IN CASE cfa_color(raw.cfa_pattern, x, y) = 0 -> <<own, cross, corners>>
         [] cfa_color(raw.cfa_pattern, x, y) = 1 -> <<across, own, along>>
         [] cfa_color(raw.cfa_pattern, x, y) = 2 -> <<corners, cross, own>>
         [] cfa_color(raw.cfa_pattern, x, y) = 3 -> <<along, own, across>>

Bilinear(raw) ==
    LET a == raw.active_area
        At(i) == demosaic_pixel_bilinear(raw, (((i - 1) \div 3) % a.w) + a.x,
                                         (((i - 1) \div 3) \div a.w) + a.y)[((i - 1) % 3) + 1]
    IN [i \in 1 .. 3 * a.w * a.h |-> At(i)]

(* The pass-through: the sample of a position in all three channels.        *)
NoDemosaic(raw) ==
    LET a == raw.active_area
    IN IF ~InSensor(raw) THEN Panic
       ELSE [i \in 1 .. 3 * a.w * a.h |->
                raw.data[Place(raw, ((i - 1) \div 3) % a.w, ((i - 1) \div 3) \div a.w)]]

-----------------------------------------------------------------------------
(* The three Bayer algorithms: green first, from the two directions.        *)

(* Mutant: the mosaic colour is taken relative to the active area.          *)
BayerView_RelativeColour(raw) ==
    View(raw, LAMBDA x, y : cfa_color(raw.cfa_pattern, x - raw.active_area.x,
                                      y - raw.active_area.y))

BayerView(raw) == View(raw, LAMBDA x, y : cfa_color(raw.cfa_pattern, x, y))
GreenAt(s, x, y) == fc(s, x, y) \in {1, 3}

(* The curvature and the gradient of the samples along a direction, and the *)
(* green it predicts: the mean of the neighbours and half the curvature.    *)
Curvature(s, x, y, dx, dy) ==
    (2 * get(s, x, y)) - get(s, x - (2 * dx), y - (2 * dy)) - get(s, x + (2 * dx), y + (2 * dy))
Gradient(s, x, y, dx, dy) ==
    Abs(get(s, x - dx, y - dy) - get(s, x + dx, y + dy)) + Abs(Curvature(s, x, y, dx, dy))
Directional(s, x, y, dx, dy) ==
    IF GreenAt(s, x, y) THEN Sub * get(s, x, y)
    ELSE Quarter * ((2 * (get(s, x - dx, y - dy) + get(s, x + dx, y + dy)))
                    + Curvature(s, x, y, dx, dy))

Weighted(a, wa, b, wb) ==
    IF wa + wb = 0 THEN (a + b) \div 2 ELSE ((wa * a) + (wb * b)) \div (wa + wb)

(* The direction with less than half the gradient of the other, else both,  *)
(* weighted by the gradient of the other.                                   *)
AdaptiveGreen(s) ==
    LET Choice(x, y, dh, dv) ==
            IF 2 * dh < dv THEN Directional(s, x, y, 1, 0)
            ELSE IF 2 * dv < dh THEN Directional(s, x, y, 0, 1)
            ELSE Weighted(Directional(s, x, y, 1, 0), dv, Directional(s, x, y, 0, 1), dh)
        At(x, y) == IF GreenAt(s, x, y) THEN Sub * get(s, x, y)
                    ELSE Most(0, Choice(x, y, Gradient(s, x, y, 1, 0), Gradient(s, x, y, 0, 1)))
    IN Plane(s, At)

(* AMaZE's second opinion, three positions or more from every border: the   *)
(* direction that is more homogeneous in the 3x3 window.                    *)
Unlikeness(s, plane, x, y, p) ==
    Abs(plane[Index(s, p[1], p[2])] - (Sub * get(s, p[1], p[2])))
    + Abs(plane[Index(s, p[1], p[2])] - plane[Index(s, x, y)])

Homogeneous(s, this, other, x, y) ==
    Cardinality({p \in (x - 1 .. x + 1) \X (y - 1 .. y + 1) :
                    Unlikeness(s, this, x, y, p) < Unlikeness(s, other, x, y, p)})

RefinedGreen(s, first, gh, gv) ==
    LET Choice(i, hh, vh) ==
            IF hh > vh + 1 THEN gh[i]
            ELSE IF vh > hh + 1 THEN gv[i]
            ELSE Weighted(gh[i], hh + 1, gv[i], vh + 1)
        At(x, y) == IF GreenAt(s, x, y) \/ x \notin 3 .. s.w - 4 \/ y \notin 3 .. s.h - 4
                    THEN first[Index(s, x, y)]
                    ELSE Most(0, Choice(Index(s, x, y), Homogeneous(s, gh, gv, x, y),
                                        Homogeneous(s, gv, gh, x, y)))
    IN Plane(s, At)

(* Then red and blue, by their difference from green: known at the sites of *)
(* the colour, the mean of the sites next to it elsewhere.  Whichever sites *)
(* the code names for a position (the diagonals at the opposite colour, the *)
(* row or the column at green) are those of the colour in its 3x3 window.   *)
Difference(s, green, color) ==
    Plane(s, LAMBDA x, y : IF fc(s, x, y) = color
                           THEN (Sub * get(s, x, y)) - green[Index(s, x, y)] ELSE 0)

MeanAround(s, plane, x, y, color, none) ==
    LET sites == Around(s, x, y, 1, color)
    IN IF sites = {} THEN none
       ELSE SumFunction([p \in sites |-> plane[Index(s, p[1], p[2])]]) \div Cardinality(sites)

ByDifference(s, green, differences, color) ==
    Plane(s, LAMBDA x, y : IF fc(s, x, y) = color THEN Sub * get(s, x, y)
                           ELSE green[Index(s, x, y)] + MeanAround(s, differences, x, y, color, 0))

(* AMaZE's last pass, two positions or more from every border: a difference *)
(* that stands out of its four neighbours is replaced by their mean.        *)
Unzipped(s, green, plane) ==
    LET D(x, y) == plane[Index(s, x, y)] - green[Index(s, x, y)]
        Smoothed(x, y, near, mean) ==
            IF 2 * Abs(D(x, y) - mean) > (3 * SumFunction([p \in near |-> Abs(D(p[1], p[2]) - mean)])) + (2 * Sub)
            THEN green[Index(s, x, y)] + mean ELSE plane[Index(s, x, y)]
        Cross(x, y) == {<<x - 1, y>>, <<x + 1, y>>, <<x, y - 1>>, <<x, y + 1>>}
        At(x, y) == IF x \notin 2 .. s.w - 3 \/ y \notin 2 .. s.h - 3 THEN plane[Index(s, x, y)]
                    ELSE Smoothed(x, y, Cross(x, y),
                                  SumFunction([p \in Cross(x, y) |-> D(p[1], p[2])]) \div 4)
    IN Plane(s, At)

AmazeColours(s, green) ==
    Interleaved(s, Rounded,
        Unzipped(s, green, ByDifference(s, green, Difference(s, green, 0), 0)), green,
        Unzipped(s, green, ByDifference(s, green, Difference(s, green, 2), 2)))

Direction(s, dx, dy) == Plane(s, LAMBDA x, y : Directional(s, x, y, dx, dy))

AmazeOf(s) ==
    AmazeColours(s, RefinedGreen(s, AdaptiveGreen(s), Direction(s, 1, 0), Direction(s, 0, 1)))

-----------------------------------------------------------------------------
(* LMMSE: the two directions weighted against the variance of what they     *)
(* leave of the samples in the 5x5 window.                                  *)

CutTo(s, plane) == Plane(s, LAMBDA x, y : Clamped(plane[Index(s, x, y)], 0, Sub * s.white))

CutDirection(s, dx, dy) ==
    Plane(s, LAMBDA x, y : IF GreenAt(s, x, y) THEN Sub * get(s, x, y)
                           ELSE Clamped(Directional(s, x, y, dx, dy), 0, Sub * s.white))

(* In quarters of a sample, squared, rounded down.                          *)
Variance(s, plane, x, y) ==
    LET Residue(d) == LET nx == Clamped(x + d[1], 0, s.w - 1)
                          ny == Clamped(y + d[2], 0, s.h - 1)
                      IN ((Sub * get(s, nx, ny)) - plane[Index(s, nx, ny)]) \div Quarter
        window == (-2 .. 2) \X (-2 .. 2)
        total == SumFunction([d \in window |-> Residue(d)])
    IN ((25 * SumFunction([d \in window |-> Residue(d) * Residue(d)])) - (total * total)) \div 625

LmmseGreen(s, gh, gv) ==
    Plane(s, LAMBDA x, y :
        IF GreenAt(s, x, y) THEN gh[Index(s, x, y)]
        ELSE Weighted(gh[Index(s, x, y)], Variance(s, gv, x, y),
                      gv[Index(s, x, y)], Variance(s, gh, x, y)))

LmmseColours(s, green) ==
    Interleaved(s, Rounded, CutTo(s, ByDifference(s, green, Difference(s, green, 0), 0)), green,
                CutTo(s, ByDifference(s, green, Difference(s, green, 2), 2)))

LmmseOf(s) ==
    LmmseColours(s, LmmseGreen(s, CutDirection(s, 1, 0), CutDirection(s, 0, 1)))

(* RCD: red and blue by their ratio to green, which is at least one sample. *)
Ratio(s, green, color) ==
    Plane(s, LAMBDA x, y : IF fc(s, x, y) # color THEN Sub
                           ELSE (Sub * Sub * get(s, x, y)) \div Most(Sub, green[Index(s, x, y)]))

ByRatio(s, green, ratios, color) ==
    Plane(s, LAMBDA x, y :
        IF fc(s, x, y) = color THEN Sub * get(s, x, y)
        ELSE Clamped((green[Index(s, x, y)] * MeanAround(s, ratios, x, y, color, Sub)) \div Sub,
                     0, Sub * s.white))

RcdColours(s, green) ==
    Interleaved(s, Rounded, ByRatio(s, green, Ratio(s, green, 0), 0), green,
                ByRatio(s, green, Ratio(s, green, 2), 2))

RcdOf(s) == RcdColours(s, AdaptiveGreen(s))

-----------------------------------------------------------------------------
(* The three X-Trans algorithms.                                            *)

CellsOf(raw) == IF raw.xtrans_pattern = None THEN XTransStandard ELSE raw.xtrans_pattern
XTransView(raw) == View(raw, LAMBDA x, y : color_at(CellsOf(raw), x, y))

(* The mean of the sites of a colour in a window, each weighted by          *)
(* 1 / (distance^2 + 0.1), in parts of 100 000.                             *)
Weight(x, y, p) ==
    100000 \div ((10 * (((p[1] - x) * (p[1] - x)) + ((p[2] - y) * (p[2] - y)))) + 1)

WeightedMean(s, plane, x, y, sites) ==
    SumFunction([p \in sites |-> plane[Index(s, p[1], p[2])] * Weight(x, y, p)])
        \div SumFunction([p \in sites |-> Weight(x, y, p)])

Samples(s) == Plane(s, LAMBDA x, y : Sub * get(s, x, y))

XTransGreen(s, samples) ==
    LET At(x, y, sites) ==
            IF fc(s, x, y) = 1 \/ sites = {} THEN samples[Index(s, x, y)]
            ELSE WeightedMean(s, samples, x, y, sites)
    IN Plane(s, LAMBDA x, y : At(x, y, Around(s, x, y, 2, 1)))

Spread(s, differences, color) ==
    LET At(x, y, sites) ==
            IF fc(s, x, y) = color THEN differences[Index(s, x, y)]
            ELSE IF sites = {} THEN 0
            ELSE WeightedMean(s, differences, x, y, sites)
    IN Plane(s, LAMBDA x, y : At(x, y, Around(s, x, y, 3, color)))

Differences(s, green, color) == Spread(s, Difference(s, green, color), color)

Added(s, a, b) == Plane(s, LAMBDA x, y : a[Index(s, x, y)] + b[Index(s, x, y)])

MarkesteijnColours(s, green) ==
    Interleaved(s, Truncated, Added(s, green, Differences(s, green, 0)), green,
                Added(s, green, Differences(s, green, 2)))

MarkesteijnOf(s) == MarkesteijnColours(s, XTransGreen(s, Samples(s)))

(* Between two such passes, green at the sites of the other colours moves   *)
(* halfway to what their difference says.                                   *)
Refined(s, green, red_diff, blue_diff) ==
    LET Half(i, v) == (green[i] + v) \div 2
        At(x, y) == CASE fc(s, x, y) = 0 -> Half(Index(s, x, y), (Sub * get(s, x, y)) - red_diff[Index(s, x, y)])
                      [] fc(s, x, y) = 2 -> Half(Index(s, x, y), (Sub * get(s, x, y)) - blue_diff[Index(s, x, y)])
                      [] fc(s, x, y) = 1 -> green[Index(s, x, y)]
    IN Plane(s, At)

ThirdPass(s, green) ==
    MarkesteijnColours(s, Refined(s, green, Differences(s, green, 0), Differences(s, green, 2)))

Markesteijn3PassOf(s) == ThirdPass(s, XTransGreen(s, Samples(s)))

(* The plain mean of the smallest window, up to 7x7, that has the colour.   *)
FastPlane(s, color) ==
    LET Mean(sites) == (Sub * SumFunction([p \in sites |-> get(s, p[1], p[2])])) \div Cardinality(sites)
        Near(x, y, r) == Around(s, x, y, r, color)
        At(x, y) == CASE fc(s, x, y) = color -> Sub * get(s, x, y)
                      [] fc(s, x, y) # color /\ Near(x, y, 1) # {} -> Mean(Near(x, y, 1))
                      [] fc(s, x, y) # color /\ Near(x, y, 1) = {} /\ Near(x, y, 2) # {} ->
                             Mean(Near(x, y, 2))
                      [] fc(s, x, y) # color /\ Near(x, y, 2) = {} /\ Near(x, y, 3) # {} ->
                             Mean(Near(x, y, 3))
                      [] OTHER -> Sub * get(s, x, y)
    IN Plane(s, At)

XTransFastOf(s) ==
    Interleaved(s, Truncated, FastPlane(s, 0), FastPlane(s, 1), FastPlane(s, 2))

-----------------------------------------------------------------------------
(* DemosaicMethod::to_demosaic, and the allocating wrapper around it, which *)
(* panics on the error every algorithm but bilinear and the pass-through    *)
(* gives for an area under 6x6, and on an empty area.                       *)

BayerMethods  == {"Amaze", "Lmmse", "Rcd", "Bilinear"}
XTransMethods == {"Markesteijn", "Markesteijn3Pass", "XTransFast"}

to_demosaic(method) == IF method = "Auto" THEN "Amaze" ELSE method

demosaic_into(method, raw) ==
    CASE method = "Bilinear" -> Bilinear(raw)
      [] method = "None" -> NoDemosaic(raw)
      [] method \notin {"Bilinear", "None"}
         /\ (raw.active_area.w < 6 \/ raw.active_area.h < 6) -> Error
      [] method \notin {"Bilinear", "None"} /\ raw.active_area.w >= 6 /\ raw.active_area.h >= 6
         /\ ~InSensor(raw) -> Panic
      [] OTHER ->
           CASE method = "Amaze" -> AmazeOf(BayerView(raw))
             [] method = "Lmmse" -> LmmseOf(BayerView(raw))
             [] method = "Rcd" -> RcdOf(BayerView(raw))
             [] method = "Markesteijn" -> MarkesteijnOf(XTransView(raw))
             [] method = "Markesteijn3Pass" -> Markesteijn3PassOf(XTransView(raw))
             [] method = "XTransFast" -> XTransFastOf(XTransView(raw))

OrPanic(raw, data) ==
    IF data \in {Error, Panic} \/ data = <<>> THEN Panic
    ELSE [w |-> raw.active_area.w, h |-> raw.active_area.h, data |-> data]

demosaic(method, raw) == OrPanic(raw, demosaic_into(method, raw))
=============================================================================
