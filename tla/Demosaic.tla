------------------------------ MODULE Demosaic ------------------------------
(* The demosaicing algorithms on sensors that photographed known scenes: a  *)
(* sensor keeps at every position one of the three colours the scene has    *)
(* there, and an algorithm is to find the other two.                        *)
EXTENDS DemosaicKernels

CONSTANTS AreaWidth, AreaHeight, \* the size of the active area
          Margin,     \* the sensor has so many rows and columns more
          Origins,    \* where the active area can begin, <<x, y>>
          White,      \* the white level of the sensor
          Scenes,     \* scenes, [shade |-> <<red, green, blue>>, slope |-> n]
          Methods     \* the algorithms

(* The smallest area every algorithm accepts is 6x6.                        *)
ASSUME AreaAssumption ==
    /\ AreaWidth \in Nat /\ AreaWidth >= 6
    /\ AreaHeight \in Nat /\ AreaHeight >= 6
    /\ Margin \in Nat
    /\ Origins \subseteq (0 .. Margin) \X (0 .. Margin)

ASSUME SceneAssumption ==
    /\ White \in 0 .. u16_MAX
    /\ Scenes \subseteq [shade : [1 .. 3 -> 0 .. White], slope : Nat]
    /\ Methods \subseteq BayerMethods \union XTransMethods

(* An error and a panic are no pictures, and None is no sample.             *)
ASSUME OutcomeAssumption == Error \notin Seq(Nat) /\ Panic \notin Seq(Nat) /\ None \notin Nat

VARIABLES shot,   \* the method, the mosaic, the origin and the scene
          image   \* what the algorithm returned, or None

vars == <<shot, image>>

-----------------------------------------------------------------------------
(* A scene has a colour at every sensor position: its shade, and with a     *)
(* slope one that grows with the position.                                  *)

SceneColour(scene, x, y) == [c \in 1 .. 3 |-> scene.shade[c] + (scene.slope * (x + y))]

Mosaics == Patterns \union {"X-Trans"}

MosaicColour(mosaic, x, y) ==
    IF mosaic = "X-Trans" THEN color_at(XTransStandard, x, y) ELSE bayer_at(mosaic, x, y)

Photographed(s) ==
    LET size == Dims(AreaWidth + Margin, AreaHeight + Margin)
        Sample(x, y) == SceneColour(s.scene, x, y)[MosaicColour(s.mosaic, x, y) + 1]
    IN [RawImageNew(size, from_coords(s.origin[1], s.origin[2], AreaWidth, AreaHeight), 8,
                    IF s.mosaic = "X-Trans" THEN "RGGB" ELSE s.mosaic) EXCEPT
            !.xtrans_pattern = IF s.mosaic = "X-Trans" THEN XTransStandard ELSE None,
            !.white_level = White,
            !.data = [i \in 1 .. num_pixels(size) |-> Sample((i - 1) % size.w, (i - 1) \div size.w)]]

Fits(method, mosaic) == (mosaic = "X-Trans") <=> (method \in XTransMethods)

Init == /\ shot \in [method : Methods, mosaic : Mosaics, origin : Origins, scene : Scenes]
        /\ Fits(shot.method, shot.mosaic)
        /\ image = None

Develop == /\ image = None
           /\ image' = demosaic(shot.method, Photographed(shot))
           /\ UNCHANGED shot

Next == Develop
Spec == Init /\ [][Next]_vars

-----------------------------------------------------------------------------
Expected(x, y) == SceneColour(shot.scene, x + shot.origin[1], y + shot.origin[2])
Found(x, y) == [c \in 1 .. 3 |-> image.data[(3 * ((y * image.w) + x)) + c]]

(* The X-Trans algorithms cut off the fraction of a mean of 32-bit floats.  *)
Tolerance == IF shot.method \in XTransMethods THEN 1 ELSE 0
Close(a, b) == \A c \in 1 .. 3 : Abs(a[c] - b[c]) <= Tolerance

Neutral(scene) == scene.slope = 0 /\ \A c \in 1 .. 3 : scene.shade[c] = scene.shade[1]

(* A neutral scene stays neutral up to the very borders of the picture,     *)
(* whatever the mosaic and the parity of the active area's origin: the      *)
(* samples the algorithms take past the border (bayer.rs and xtrans.rs get) *)
(* and the neighbours they leave out may not tint or darken it.  The        *)
(* bilinear one looks at the sensor around the area and is asked only for   *)
(* areas that have one (bilinear.rs get_raw is zero outside).               *)
HasSurroundings ==
    /\ shot.origin[1] > 0 /\ shot.origin[2] > 0
    /\ shot.origin[1] < Margin /\ shot.origin[2] < Margin

GreyStaysGrey ==
    image # None /\ Neutral(shot.scene) /\ (shot.method = "Bilinear" => HasSurroundings) =>
        \A x \in 0 .. AreaWidth - 1, y \in 0 .. AreaHeight - 1 : Close(Found(x, y), Expected(x, y))

(* What the algorithms assume of a scene: RCD ratios of red and blue to     *)
(* green, which 1/Sub is fine enough to tell; the other Bayer algorithms    *)
(* constant differences, on a sensor that is saturated nowhere; X-Trans,    *)
(* whose windows are not symmetric, the same colours everywhere.            *)
RatiosTold(scene) ==
    \A c \in {1, 3} :
        /\ scene.shade[2] = 0 => scene.shade[c] = 0
        /\ scene.shade[2] # 0 => \/ (Sub * scene.shade[c]) % scene.shade[2] = 0
                                \/ 2 * scene.shade[2] <= Sub

Unsaturated(scene) ==
    \A c \in 1 .. 3 :
        scene.shade[c] + (scene.slope * (AreaWidth + AreaHeight + (2 * Margin))) <= White

Suits(method, scene) ==
    /\ scene.slope = 0 \/ (method \in BayerMethods \ {"Rcd"} /\ Unsaturated(scene))
    /\ method = "Rcd" => RatiosTold(scene)

(* Four positions or more from the border an algorithm finds the colours of *)
(* the scenes that suit it: green, the two directions, the differences or   *)
(* ratios and the last smoothing pass must all agree on which site has      *)
(* which colour, at every parity of the active area's origin.               *)
ColoursFoundInside ==
    image # None /\ Suits(shot.method, shot.scene) =>
        \A x \in 4 .. AreaWidth - 5, y \in 4 .. AreaHeight - 5 :
            Close(Found(x, y), Expected(x, y))
=============================================================================
