-------------------------- MODULE HeifDecodeProofs --------------------------
(***************************************************************************)
(* The theorems of the HEIF adapters: which surfaces are refused, what of  *)
(* a surface reaches the pipeline and which error the caller is told, for  *)
(* pictures and windows of any size, any pitch, offset and padding, and    *)
(* every depth and format.                                                 *)
(***************************************************************************)
EXTENDS HeifDecode, CodecRecordsProofs

-----------------------------------------------------------------------------
(* Numbers                                                                 *)

LEMMA PowDoubles ==
  /\ Pow2[0] = 1
  /\ \A i \in Nat : Pow2[i] \in Nat \ {0} /\ Pow2[i + 1] = 2 * Pow2[i]
<1>1. Pow2 = CHOOSE f : f = [i \in Nat |-> IF i = 0 THEN 1 ELSE 2 * f[i - 1]]
  BY DEF Pow2
<1> DEFINE p == Pow2
<1>2. p = CHOOSE f : f = [i \in Nat |-> IF i = 0 THEN 1 ELSE 2 * f[i - 1]]
  BY <1>1
<1> HIDE DEF p
<1>3. p[0] = 1 /\ \A i \in Nat : p[i] \in Nat \ {0} /\ p[i + 1] = 2 * p[i]
  BY <1>2, Doubling
<1> QED
  BY <1>3 DEF p

(* The column and the row of a place in a row-major sequence.              *)
LEMMA RowAndColumn ==
  ASSUME NEW w \in Nat \ {0}, NEW h \in Nat, NEW i \in 1..w * h
  PROVE  /\ (i - 1) % w \in 0..w - 1 /\ (i - 1) \div w \in 0..h - 1
         /\ i - 1 = ((i - 1) \div w) * w + ((i - 1) % w)
<1> DEFINE q == (i - 1) \div w
           r == (i - 1) % w
<1>1. w * h \in Nat /\ i - 1 \in Nat /\ i - 1 < w * h
  OBVIOUS
<1>2. q \in Nat /\ r \in 0..(w - 1) /\ i - 1 = q * w + r
  BY <1>1, Divide
<1> HIDE DEF q, r
<1>3. q < h
  <2>1. SUFFICES ASSUME h <= q PROVE FALSE
    BY <1>2
  <2>2. h * w <= q * w
    BY <1>2, <2>1
  <2> QED
    BY <1>1, <1>2, <2>2
<1> QED
  BY <1>2, <1>3 DEF q, r

(* Rows one pitch apart end before the last one does.                      *)
LEMMA LastRowSuffices ==
  ASSUME NEW a \in Nat, NEW pitch \in Nat, NEW rows \in Nat \ {0}, NEW L \in Nat
  PROVE  (\A j \in 0..rows - 1 : a + pitch * j <= L) <=> a + pitch * (rows - 1) <= L
<1>1. ASSUME NEW j \in 0..rows - 1, a + pitch * (rows - 1) <= L PROVE a + pitch * j <= L
  <2>1. pitch * j <= pitch * (rows - 1)
    OBVIOUS
  <2> QED
    BY <1>1, <2>1
<1> QED
  BY <1>1

LEMMA HalfUp ==
  ASSUME NEW n \in Nat \ {0}
  PROVE  DivCeil2(n) \in Nat \ {0} /\ 2 * DivCeil2(n) \in {n, n + 1}
BY DEF DivCeil2

-----------------------------------------------------------------------------
(* copy_plane                                                              *)

(* Where row j of the window begins.                                       *)
RowStart(offset, pitch, x, y, j) == offset + pitch * (y + j) + x

LEMMA RowStartType ==
  ASSUME NEW offset \in Nat, NEW pitch \in Nat, NEW x \in Nat, NEW y \in Nat
  PROVE  \A j \in Nat : RowStart(offset, pitch, x, y, j) \in Nat
<1> SUFFICES ASSUME NEW j \in Nat PROVE RowStart(offset, pitch, x, y, j) \in Nat
  OBVIOUS
<1>1. pitch * (y + j) \in Nat
  OBVIOUS
<1> QED
  BY <1>1 DEF RowStart

RowsWithin(data, offset, pitch, x, y, n, rows) ==
  \A j \in 0..rows - 1 : RowStart(offset, pitch, x, y, j) + n <= Len(data)

(* It succeeds when every row of the window lies within the image.         *)
LEMMA CopyPlaneSucceeds ==
  ASSUME NEW data, Len(data) \in Nat,
         NEW offset \in Nat, NEW pitch \in Nat, NEW x \in Nat, NEW y \in Nat,
         NEW n \in Nat, NEW rows \in Nat \ {0}
  PROVE  /\ CopyPlane(data, offset, pitch, x, y, n, rows).ok \in BOOLEAN
         /\ CopyPlane(data, offset, pitch, x, y, n, rows).ok
              <=> RowsWithin(data, offset, pitch, x, y, n, rows)
         /\ ~CopyPlane(data, offset, pitch, x, y, n, rows).ok =>
              CopyPlane(data, offset, pitch, x, y, n, rows) = Fail("image too small")
<1> DEFINE Late == \E j \in 0..rows - 1 : RowStart(offset, pitch, x, y, j) + n > Len(data)
           plane == CopyPlane(data, offset, pitch, x, y, n, rows)
<1>1. \E copy : plane = IF Late THEN Fail("image too small")
                        ELSE [ok |-> TRUE, stride |-> n, data |-> copy]
  BY DEF CopyPlane, RowStart
<1>2. Late <=> ~RowsWithin(data, offset, pitch, x, y, n, rows)
  <2>1. ASSUME NEW j \in 0..rows - 1
        PROVE  ~(RowStart(offset, pitch, x, y, j) + n > Len(data))
                 <=> RowStart(offset, pitch, x, y, j) + n <= Len(data)
    <3>0. j \in Nat
      OBVIOUS
    <3>1. RowStart(offset, pitch, x, y, j) \in Nat
      BY <3>0, RowStartType
    <3> DEFINE a == RowStart(offset, pitch, x, y, j)
               L == Len(data)
    <3>2. a \in Nat /\ L \in Nat
      BY <3>1
    <3> HIDE DEF a, L
    <3>3. ~(a + n > L) <=> a + n <= L
      BY <3>2
    <3> QED
      BY <3>3 DEF a, L
  <2> DEFINE In(j) == RowStart(offset, pitch, x, y, j) + n <= Len(data)
             Out(j) == RowStart(offset, pitch, x, y, j) + n > Len(data)
  <2>2. \A j \in 0..rows - 1 : ~Out(j) <=> In(j)
    BY <2>1
  <2> HIDE DEF In, Out
  <2>3. (\E j \in 0..rows - 1 : Out(j)) <=> ~\A j \in 0..rows - 1 : In(j)
    BY <2>2
  <2> QED
    BY <2>3 DEF In, Out, RowsWithin
<1> HIDE DEF Late, plane
<1>3. CASE Late
  <2>1. plane = Fail("image too small")
    BY <1>1, <1>3
  <2>2. plane.ok = FALSE
    BY <2>1 DEF Fail
  <2> QED
    BY <1>2, <1>3, <2>1, <2>2 DEF Late, plane
<1>4. CASE ~Late
  <2>1. plane.ok = TRUE
    BY <1>1, <1>4
  <2> QED
    BY <1>2, <1>4, <2>1 DEF Late, plane
<1> QED
  BY <1>3, <1>4

(* The copy holds the window's bytes, row after row without padding.       *)
HoldsRows(plane, data, offset, pitch, x, y, n, rows) ==
  /\ plane.stride = n
  /\ plane.data \in Seq(Nat) /\ Len(plane.data) = rows * n
  /\ \A j \in 0..rows - 1, b \in 0..n - 1 :
       plane.data[j * n + b + 1] = data[RowStart(offset, pitch, x, y, j) + b + 1]

LEMMA CopyPlaneCopies ==
  ASSUME NEW data \in Seq(Nat),
         NEW offset \in Nat, NEW pitch \in Nat, NEW x \in Nat, NEW y \in Nat,
         NEW n \in Nat \ {0}, NEW rows \in Nat \ {0},
         CopyPlane(data, offset, pitch, x, y, n, rows).ok
  PROVE  HoldsRows(CopyPlane(data, offset, pitch, x, y, n, rows),
                   data, offset, pitch, x, y, n, rows)
<1> DEFINE plane == CopyPlane(data, offset, pitch, x, y, n, rows)
           from(i) == data[RowStart(offset, pitch, x, y, (i - 1) \div n) + ((i - 1) % n) + 1]
           size == rows * n
<1>0. Len(data) \in Nat /\ n \in Nat
  OBVIOUS
<1>1. RowsWithin(data, offset, pitch, x, y, n, rows)
  BY <1>0, CopyPlaneSucceeds
<1>2. plane = [ok |-> TRUE, stride |-> n, data |-> [i \in 1..size |-> from(i)]]
  <2>1. ASSUME NEW j \in 0..rows - 1 PROVE ~(RowStart(offset, pitch, x, y, j) + n > Len(data))
    <3>1. j \in Nat /\ RowStart(offset, pitch, x, y, j) + n <= Len(data)
      BY <1>1 DEF RowsWithin
    <3>2. RowStart(offset, pitch, x, y, j) \in Nat
      BY <3>1, RowStartType
    <3> QED
      BY <1>0, <3>1, <3>2
  <2>2. ~\E j \in 0..rows - 1 : RowStart(offset, pitch, x, y, j) + n > Len(data)
    BY <2>1
  <2> QED
    BY <2>2 DEF CopyPlane, RowStart
<1>3. size \in Nat /\ size = n * rows
  OBVIOUS
<1>4. ASSUME NEW i \in 1..size PROVE from(i) \in Nat
  <2> DEFINE j == (i - 1) \div n
             b == (i - 1) % n
  <2>1. j \in 0..rows - 1 /\ b \in 0..n - 1
    BY <1>3, RowAndColumn
  <2> HIDE DEF j, b
  <2>2. PICK start \in Nat :
          start = RowStart(offset, pitch, x, y, j) /\ start + n <= Len(data)
    <3>1. j \in Nat /\ RowStart(offset, pitch, x, y, j) + n <= Len(data)
      BY <1>1, <2>1 DEF RowsWithin
    <3>2. RowStart(offset, pitch, x, y, j) \in Nat
      BY <3>1, RowStartType
    <3> QED
      BY <3>1, <3>2
  <2>3. start + b + 1 \in 1..Len(data)
    <3>1. start \in Nat /\ start + n <= Len(data) /\ b \in 0..n - 1 /\ Len(data) \in Nat
      BY <1>0, <2>1, <2>2
    <3> DEFINE L == Len(data)
    <3> HIDE DEF L
    <3>2. start \in Nat /\ start + n <= L /\ b \in 0..n - 1 /\ L \in Nat
      BY <3>1 DEF L
    <3>3. start + b + 1 \in 1..L
      BY <3>2
    <3> QED
      BY <3>3 DEF L
  <2>4. data[start + b + 1] \in Nat
    BY <2>3
  <2> QED
    BY <2>2, <2>4 DEF j, b
<1>5. ASSUME NEW j \in 0..rows - 1, NEW b \in 0..n - 1
      PROVE  /\ j * n + b + 1 \in 1..size
             /\ from(j * n + b + 1) = data[RowStart(offset, pitch, x, y, j) + b + 1]
  <2>1. j \in Nat /\ b \in 0..(n - 1)
    OBVIOUS
  <2>2. (j * n + b) \div n = j /\ (j * n + b) % n = b
    BY <2>1, DivideUnique
  <2>3. j * n \in Nat /\ (j * n + b + 1) - 1 = j * n + b
    BY <2>1
  <2>4. j * n + n <= size
    OBVIOUS
  <2>5. j * n + b + 1 \in 1..size
    BY <1>3, <2>1, <2>3, <2>4
  <2> QED
    BY <2>2, <2>3, <2>5
<1> HIDE DEF from, plane, size
<1>6. plane.stride = n /\ plane.data = [i \in 1..size |-> from(i)]
  BY <1>2
<1>7. plane.data \in [1..size -> Nat]
  BY <1>4, <1>6
<1>8. plane.data \in Seq(Nat) /\ Len(plane.data) = size
  <2> DEFINE d == plane.data
  <2>1. size \in Nat /\ d \in [1..size -> Nat]
    BY <1>3, <1>7
  <2> HIDE DEF d
  <2>2. d \in Seq(Nat) /\ Len(d) = size
    BY <2>1
  <2> QED
    BY <2>2 DEF d
<1>9. \A j \in 0..rows - 1, b \in 0..n - 1 :
        plane.data[j * n + b + 1] = data[RowStart(offset, pitch, x, y, j) + b + 1]
  BY <1>5, <1>6
<1> QED
  BY <1>6, <1>8, <1>9 DEF HoldsRows, plane, size

(* The rows lie within the image when every sample of m bytes does.        *)
LEMMA RowsAreSamples ==
  ASSUME NEW data, Len(data) \in Nat,
         NEW offset \in Nat, NEW pitch \in Nat, NEW x \in Nat, NEW y \in Nat,
         NEW m \in {1, 2, 4}, NEW cols \in Nat \ {0}, NEW rows \in Nat \ {0}
  PROVE  RowsWithin(data, offset, pitch, x, y, cols * m, rows)
           <=> \A i \in 0..cols - 1, j \in 0..rows - 1 :
                 RowStart(offset, pitch, x, y, j) + i * m + m <= Len(data)
<1>1. ASSUME NEW s \in Nat, NEW L \in Nat
      PROVE  s + cols * m <= L <=> \A i \in 0..cols - 1 : s + i * m + m <= L
  <2>1. ASSUME NEW i \in 0..cols - 1 PROVE i * m + m <= cols * m
    <3>1. CASE m = 1
      BY <3>1
    <3>2. CASE m = 2
      BY <3>2
    <3>3. CASE m = 4
      BY <3>3
    <3> QED
      BY <3>1, <3>2, <3>3
  <2>2. ASSUME s + cols * m <= L, NEW i \in 0..cols - 1 PROVE s + i * m + m <= L
    BY <2>1, <2>2
  <2>3. cols - 1 \in 0..cols - 1 /\ (cols - 1) * m + m = cols * m
    <3>1. CASE m = 1
      BY <3>1
    <3>2. CASE m = 2
      BY <3>2
    <3>3. CASE m = 4
      BY <3>3
    <3> QED
      BY <3>1, <3>2, <3>3
  <2>4. ASSUME s + (cols - 1) * m + m <= L PROVE s + cols * m <= L
    <3>1. (cols - 1) * m \in Nat
      OBVIOUS
    <3> QED
      BY <2>3, <2>4, <3>1
  <2> DEFINE In(i) == s + i * m + m <= L
  <2>5. ASSUME \A i \in 0..cols - 1 : In(i) PROVE s + cols * m <= L
    <3> HIDE DEF In
    <3>1. In(cols - 1)
      BY <2>3, <2>5
    <3> QED
      BY <2>4, <3>1 DEF In
  <2> QED
    BY <2>2, <2>5
<1> DEFINE start(j) == RowStart(offset, pitch, x, y, j)
           L == Len(data)
<1>2. \A j \in 0..rows - 1 : start(j) \in Nat
  <2>1. \A j \in 0..rows - 1 : j \in Nat
    OBVIOUS
  <2> QED
    BY <2>1, RowStartType
<1>3. L \in Nat
  OBVIOUS
<1> HIDE DEF start, L
<1>4. \A j \in 0..rows - 1 :
        start(j) + cols * m <= L <=> \A i \in 0..cols - 1 : start(j) + i * m + m <= L
  BY <1>1, <1>2, <1>3
<1> DEFINE Whole(j) == start(j) + cols * m <= L
           In(i, j) == start(j) + i * m + m <= L
<1>5. \A j \in 0..rows - 1 : Whole(j) <=> \A i \in 0..cols - 1 : In(i, j)
  BY <1>4
<1> HIDE DEF Whole, In
<1>6. (\A j \in 0..rows - 1 : Whole(j)) <=> \A i \in 0..cols - 1, j \in 0..rows - 1 : In(i, j)
  BY <1>5
<1> QED
  BY <1>6 DEF RowsWithin, Whole, In, start, L

-----------------------------------------------------------------------------
(* DecodedFrame::new                                                       *)

(* A plane fits when its rows do not overlap and each lies within it.      *)
LEMMA PlaneFitsRows ==
  ASSUME NEW plane, plane.stride \in Nat, Len(plane.data) \in Nat,
         NEW n \in Nat, NEW rows \in Nat \ {0}
  PROVE  PlaneFits(plane, n, rows)
           <=> /\ n <= plane.stride
               /\ \A j \in 0..rows - 1 : plane.stride * j + n <= Len(plane.data)
<1> DEFINE stride == plane.stride
           L == Len(plane.data)
<1>1. stride \in Nat /\ L \in Nat
  OBVIOUS
<1> HIDE DEF stride, L
<1>2. (\A j \in 0..rows - 1 : n + stride * j <= L) <=> n + stride * (rows - 1) <= L
  BY <1>1, LastRowSuffices
<1>3. \A j \in 0..rows - 1 : n + stride * j <= L <=> stride * j + n <= L
  BY <1>1
<1> DEFINE A(j) == n + stride * j <= L
           B(j) == stride * j + n <= L
<1>4. \A j \in 0..rows - 1 : A(j) <=> B(j)
  BY <1>3
<1>5. (\A j \in 0..rows - 1 : A(j)) <=> n + stride * (rows - 1) <= L
  BY <1>2
<1> HIDE DEF A, B
<1>6. (\A j \in 0..rows - 1 : B(j)) <=> n + stride * (rows - 1) <= L
  BY <1>4, <1>5
<1>7. n + stride * (rows - 1) <= L <=> L >= stride * (rows - 1) + n
  BY <1>1
<1>8. n <= stride <=> stride >= n
  BY <1>1
<1> QED
  BY <1>6, <1>7, <1>8 DEF PlaneFits, B, stride, L

(* The frame it builds, and the errors it has for what it refuses.         *)
LEMMA NewFrameAnswers ==
  ASSUME NEW f, NEW w, NEW h, NEW depth, NEW planes
  PROVE  LET answer == NewFrame(f, w, h, depth, planes)
             fits == \A k \in 1..Len(planes) :
                       PlaneFits(planes[k], PlaneSize(f, k, w, h)[1] * bytes_per_sample(f),
                                 PlaneSize(f, k, w, h)[2])
         IN \/ /\ w # 0 /\ h # 0 /\ supports_bit_depth(f, depth)
               /\ Len(planes) = plane_count(f) /\ fits
               /\ answer = [ok |-> TRUE, format |-> f, width |-> w, height |-> h,
                            depth |-> depth, planes |-> planes]
            \/ /\ ~(/\ w # 0 /\ h # 0 /\ supports_bit_depth(f, depth)
                    /\ Len(planes) = plane_count(f) /\ fits)
               /\ \E reason \in FrameErrors : answer = Fail(reason)
<1> DEFINE fits == \A k \in 1..Len(planes) :
                     PlaneFits(planes[k], PlaneSize(f, k, w, h)[1] * bytes_per_sample(f),
                               PlaneSize(f, k, w, h)[2])
           good == [ok |-> TRUE, format |-> f, width |-> w, height |-> h,
                    depth |-> depth, planes |-> planes]
<1>1. NewFrame(f, w, h, depth, planes) =
        CASE w = 0 \/ h = 0 -> Fail("zero size")
          [] ~supports_bit_depth(f, depth) -> Fail("depth")
          [] Len(planes) # plane_count(f) -> Fail("plane count")
          [] ~fits -> Fail("plane size")
          [] OTHER -> good
  BY DEF NewFrame
<1> HIDE DEF fits, good
<1> QED
  BY <1>1 DEF FrameErrors, fits, good

-----------------------------------------------------------------------------
(* copy_image_planes                                                       *)

Bps(p) == bytes_per_sample(ImageFormat(p))

LumaWithin(image, p) ==
  RowsWithin(image.data, image.offsets[1], image.pitches[1],
             p.crop.x * Bps(p), p.crop.y, p.crop.w * Bps(p), p.crop.h)

ChromaWithin(image, p) ==
  RowsWithin(image.data, image.offsets[2], image.pitches[2],
             p.crop.x * Bps(p), p.crop.y \div 2, 2 * DivCeil2(p.crop.w) * Bps(p),
             DivCeil2(p.crop.h))

(* The numbers of a picture and of an image that the proofs compute with.  *)
Numbers(image, p) ==
  /\ p.depth \in 8..16
  /\ p.crop.x \in Nat /\ p.crop.y \in Nat
  /\ p.crop.w \in Nat \ {0} /\ p.crop.h \in Nat \ {0}
  /\ image.num_planes \in Nat /\ image.data \in Seq(Nat)
  /\ image.offsets[1] \in Nat /\ image.pitches[1] \in Nat
  /\ image.offsets[2] \in Nat /\ image.pitches[2] \in Nat

LEMMA ImageFormats ==
  ASSUME NEW p
  PROVE  /\ ImageFormat(p) \in {"Nv12", "P010"}
         /\ Bps(p) = IF p.depth = 8 THEN 1 ELSE 2
BY DEF ImageFormat, Bps, bytes_per_sample

(* Where the model's copy finds the bytes of a sample.                     *)
LEMMA ImageBytes ==
  ASSUME NEW image, NEW p, Numbers(image, p), NEW i \in Nat, NEW j \in Nat
  PROVE  LET n == Bps(p)
             luma == RowStart(image.offsets[1], image.pitches[1], p.crop.x * n, p.crop.y, j)
             chroma == RowStart(image.offsets[2], image.pitches[2], p.crop.x * n,
                                p.crop.y \div 2, j)
         IN /\ luma \in Nat /\ chroma \in Nat
            /\ ImageByte(image, p, "y", i, j) = luma + i * n + 1
            /\ ImageByte(image, p, "cb", i, j) = chroma + i * (2 * n) + 1
            /\ ImageByte(image, p, "cr", i, j) = chroma + i * (2 * n) + n + 1
<1> DEFINE n == Bps(p)
           x == p.crop.x
           o1 == image.offsets[1]
           o2 == image.offsets[2]
           p1 == image.pitches[1] * (p.crop.y + j)
           p2 == image.pitches[2] * (p.crop.y \div 2 + j)
<1>1. /\ n \in {1, 2} /\ x \in Nat /\ o1 \in Nat /\ o2 \in Nat
      /\ p1 \in Nat /\ p2 \in Nat
  <2>1. /\ n \in {1, 2} /\ x \in Nat /\ o1 \in Nat /\ o2 \in Nat
        /\ image.pitches[1] \in Nat /\ image.pitches[2] \in Nat /\ p.crop.y \in Nat
    BY ImageFormats DEF Numbers
  <2>2. p.crop.y + j \in Nat /\ p.crop.y \div 2 + j \in Nat
    BY <2>1
  <2>3. \A a, b \in Nat : a * b \in Nat
    OBVIOUS
  <2> QED
    BY <2>1, <2>2, <2>3
<1>2. /\ ImageByte(image, p, "y", i, j) = 1 + (o1 + p1 + (x + i) * n)
      /\ ImageByte(image, p, "cb", i, j) = 1 + (o2 + p2 + (x + 2 * i) * n + 0)
      /\ ImageByte(image, p, "cr", i, j) = 1 + (o2 + p2 + (x + 2 * i) * n + n)
  BY DEF ImageByte, Bps
<1>3. /\ RowStart(image.offsets[1], image.pitches[1], x * n, p.crop.y, j) = o1 + p1 + x * n
      /\ RowStart(image.offsets[2], image.pitches[2], x * n, p.crop.y \div 2, j)
           = o2 + p2 + x * n
  BY DEF RowStart
<1> HIDE DEF n, x, o1, o2, p1, p2
<1>4. /\ o1 + p1 + x * n \in Nat /\ o2 + p2 + x * n \in Nat
      /\ 1 + (o1 + p1 + (x + i) * n) = (o1 + p1 + x * n) + i * n + 1
      /\ 1 + (o2 + p2 + (x + 2 * i) * n + 0) = (o2 + p2 + x * n) + i * (2 * n) + 1
      /\ 1 + (o2 + p2 + (x + 2 * i) * n + n) = (o2 + p2 + x * n) + i * (2 * n) + n + 1
  <2>1. CASE n = 1
    BY <1>1, <2>1
  <2>2. CASE n = 2
    BY <1>1, <2>2
  <2> QED
    BY <1>1, <2>1, <2>2
<1> QED
  BY <1>2, <1>3, <1>4 DEF n, x

LEMMA WindowSizes ==
  ASSUME NEW p
  PROVE  /\ WindowCols(p, "y") = 0..p.crop.w - 1
         /\ WindowRows(p, "y") = 0..p.crop.h - 1
         /\ \A c \in {"cb", "cr"} : /\ WindowCols(p, c) = 0..DivCeil2(p.crop.w) - 1
                                   /\ WindowRows(p, c) = 0..DivCeil2(p.crop.h) - 1
BY DEF WindowCols, WindowRows

(* An image is whole when the two windows copied from it lie within it.    *)
LEMMA WholeImageRows ==
  ASSUME NEW image, NEW p, Numbers(image, p)
  PROVE  WholeImage(image, p)
           <=> /\ image.num_planes >= 2 /\ image.maps
               /\ image.fourcc = IF p.depth = 8 THEN "NV12" ELSE "P010"
               /\ LumaWithin(image, p) /\ ChromaWithin(image, p)
<1> DEFINE n == Bps(p)
           w == p.crop.w
           h == p.crop.h
           cw == DivCeil2(w)
           ch == DivCeil2(h)
           L == Len(image.data)
           luma(j) == RowStart(image.offsets[1], image.pitches[1], p.crop.x * n, p.crop.y, j)
           chroma(j) == RowStart(image.offsets[2], image.pitches[2], p.crop.x * n,
                                 p.crop.y \div 2, j)
           In(c, i, j) == ImageByte(image, p, c, i, j) + bytes_per_sample(ImageFormat(p)) - 1 <= L
<1>1. /\ n \in {1, 2} /\ L \in Nat /\ w \in Nat \ {0} /\ h \in Nat \ {0}
      /\ cw \in Nat \ {0} /\ ch \in Nat \ {0}
      /\ p.crop.x * n \in Nat /\ p.crop.y \in Nat /\ p.crop.y \div 2 \in Nat
  <2>1. /\ n \in {1, 2} /\ image.data \in Seq(Nat) /\ w \in Nat \ {0} /\ h \in Nat \ {0}
        /\ p.crop.x \in Nat /\ p.crop.y \in Nat
    BY ImageFormats DEF Numbers
  <2>2. cw \in Nat \ {0} /\ ch \in Nat \ {0}
    BY <2>1, HalfUp
  <2>3. \A a, b \in Nat : a * b \in Nat
    OBVIOUS
  <2>4. n \in Nat /\ p.crop.y \div 2 \in Nat
    BY <2>1
  <2> QED
    BY <2>1, <2>2, <2>3, <2>4
<1>2. LumaWithin(image, p) <=> \A i \in 0..w - 1, j \in 0..h - 1 : luma(j) + i * n + n <= L
  <2>1. /\ Len(image.data) \in Nat /\ n \in {1, 2, 4}
        /\ image.offsets[1] \in Nat /\ image.pitches[1] \in Nat
    BY <1>1 DEF Numbers
  <2> QED
    BY <1>1, <2>1, RowsAreSamples DEF LumaWithin
<1>3. ChromaWithin(image, p)
        <=> \A i \in 0..cw - 1, j \in 0..ch - 1 : chroma(j) + i * (2 * n) + 2 * n <= L
  <2>1. /\ Len(image.data) \in Nat /\ 2 * n \in {1, 2, 4}
        /\ image.offsets[2] \in Nat /\ image.pitches[2] \in Nat
    BY <1>1 DEF Numbers
  <2>2. 2 * cw * n = cw * (2 * n)
    BY <1>1
  <2>3. ChromaWithin(image, p) = RowsWithin(image.data, image.offsets[2], image.pitches[2],
                                   p.crop.x * n, p.crop.y \div 2, cw * (2 * n), ch)
    BY <2>2 DEF ChromaWithin
  <2> QED
    BY <1>1, <2>1, <2>3, RowsAreSamples
<1>4. ASSUME NEW i \in Nat, NEW j \in Nat
      PROVE  /\ In("y", i, j) <=> luma(j) + i * n + n <= L
             /\ In("cb", i, j) /\ In("cr", i, j) <=> chroma(j) + i * (2 * n) + 2 * n <= L
  <2>1. /\ luma(j) \in Nat /\ chroma(j) \in Nat
        /\ ImageByte(image, p, "y", i, j) = luma(j) + i * n + 1
        /\ ImageByte(image, p, "cb", i, j) = chroma(j) + i * (2 * n) + 1
        /\ ImageByte(image, p, "cr", i, j) = chroma(j) + i * (2 * n) + n + 1
    BY ImageBytes
  <2>2. bytes_per_sample(ImageFormat(p)) = n
    BY DEF Bps
  <2> DEFINE a == luma(j)
             b == chroma(j)
  <2>3. /\ In("y", i, j) <=> a + i * n + 1 + n - 1 <= L
        /\ In("cb", i, j) <=> b + i * (2 * n) + 1 + n - 1 <= L
        /\ In("cr", i, j) <=> b + i * (2 * n) + n + 1 + n - 1 <= L
    BY <2>1, <2>2
  <2>4. a \in Nat /\ b \in Nat /\ n \in {1, 2} /\ L \in Nat
    BY <1>1, <2>1
  <2> HIDE DEF a, b, n, L, In
  <2>5. /\ a + i * n + 1 + n - 1 <= L <=> a + i * n + n <= L
        /\ (b + i * (2 * n) + 1 + n - 1 <= L /\ b + i * (2 * n) + n + 1 + n - 1 <= L)
              <=> b + i * (2 * n) + 2 * n <= L
    <3>1. CASE n = 1
      BY <2>4, <3>1
    <3>2. CASE n = 2
      BY <2>4, <3>2
    <3> QED
      BY <2>4, <3>1, <3>2
  <2> QED
    BY <2>3, <2>5 DEF a, b
<1> DEFINE Luma1(i, j) == luma(j) + i * n + n <= L
           Chroma1(i, j) == chroma(j) + i * (2 * n) + 2 * n <= L
<1>5. /\ LumaWithin(image, p) <=> \A i \in 0..w - 1, j \in 0..h - 1 : Luma1(i, j)
      /\ ChromaWithin(image, p) <=> \A i \in 0..cw - 1, j \in 0..ch - 1 : Chroma1(i, j)
  BY <1>2, <1>3
<1>7. (\A c \in Components : \A i \in WindowCols(p, c), j \in WindowRows(p, c) : In(c, i, j))
        <=> /\ \A i \in 0..w - 1, j \in 0..h - 1 : In("y", i, j)
            /\ \A i \in 0..cw - 1, j \in 0..ch - 1 : In("cb", i, j)
            /\ \A i \in 0..cw - 1, j \in 0..ch - 1 : In("cr", i, j)
  <2> HIDE DEF In
  <2> QED
    BY WindowSizes DEF Components
<1>8. \A a \in Nat \ {0} : 0..a - 1 \subseteq Nat
  OBVIOUS
<1>9. /\ \A i \in 0..w - 1, j \in 0..h - 1 : In("y", i, j) <=> Luma1(i, j)
      /\ \A i \in 0..cw - 1, j \in 0..ch - 1 :
           In("cb", i, j) /\ In("cr", i, j) <=> Chroma1(i, j)
  <2>1. ASSUME NEW i \in 0..w - 1, NEW j \in 0..h - 1 PROVE In("y", i, j) <=> Luma1(i, j)
    <3>1. i \in Nat /\ j \in Nat
      BY <1>1, <1>8
    <3> QED
      BY <1>4, <3>1
  <2>2. ASSUME NEW i \in 0..cw - 1, NEW j \in 0..ch - 1
        PROVE  In("cb", i, j) /\ In("cr", i, j) <=> Chroma1(i, j)
    <3>1. i \in Nat /\ j \in Nat
      BY <1>1, <1>8
    <3> QED
      BY <1>4, <3>1
  <2> HIDE DEF In, Luma1, Chroma1
  <2> QED
    BY <2>1, <2>2
<1> DEFINE AllIn == \A c \in Components : \A i \in WindowCols(p, c), j \in WindowRows(p, c) : In(c, i, j)
<1>10. WholeImage(image, p) <=> /\ image.num_planes >= 2 /\ image.maps
                                /\ image.fourcc = IF p.depth = 8 THEN "NV12" ELSE "P010"
                                /\ AllIn
  BY DEF WholeImage
<1>11. AllIn <=> LumaWithin(image, p) /\ ChromaWithin(image, p)
  <2> HIDE DEF In, Luma1, Chroma1, w, h, cw, ch
  <2>1. (\A i \in 0..w - 1, j \in 0..h - 1 : In("y", i, j))
          <=> \A i \in 0..w - 1, j \in 0..h - 1 : Luma1(i, j)
    BY <1>9
  <2>2. /\ \A i \in 0..cw - 1, j \in 0..ch - 1 : In("cb", i, j)
        /\ \A i \in 0..cw - 1, j \in 0..ch - 1 : In("cr", i, j)
        <=> \A i \in 0..cw - 1, j \in 0..ch - 1 : Chroma1(i, j)
    BY <1>9
  <2> QED
    BY <1>5, <1>7, <2>1, <2>2
<1> HIDE DEF AllIn
<1> QED
  BY <1>10, <1>11

(* The planes copied from an image of the depth's format.                  *)
CopiedLuma(image, p) ==
  CopyPlane(image.data, image.offsets[1], image.pitches[1],
            p.crop.x * Bps(p), p.crop.y, p.crop.w * Bps(p), p.crop.h)

CopiedChroma(image, p) ==
  CopyPlane(image.data, image.offsets[2], image.pitches[2],
            p.crop.x * Bps(p), p.crop.y \div 2, 2 * DivCeil2(p.crop.w) * Bps(p),
            DivCeil2(p.crop.h))

CopiedFrame(image, p) ==
  [ok |-> TRUE, format |-> ImageFormat(p), width |-> p.crop.w, height |-> p.crop.h,
   depth |-> p.depth, planes |-> <<CopiedLuma(image, p), CopiedChroma(image, p)>>]

(* The arguments copy_plane gets are numbers.                              *)
LEMMA CopyArguments ==
  ASSUME NEW image, NEW p, Numbers(image, p)
  PROVE  /\ Len(image.data) \in Nat
         /\ p.crop.x * Bps(p) \in Nat /\ p.crop.y \in Nat /\ p.crop.y \div 2 \in Nat
         /\ p.crop.w * Bps(p) \in Nat \ {0} /\ p.crop.h \in Nat \ {0}
         /\ 2 * DivCeil2(p.crop.w) * Bps(p) \in Nat \ {0} /\ DivCeil2(p.crop.h) \in Nat \ {0}
<1> DEFINE n == Bps(p)
           x == p.crop.x
           y == p.crop.y
           w == p.crop.w
           cw == DivCeil2(w)
<1>1. /\ n \in {1, 2} /\ x \in Nat /\ y \in Nat /\ w \in Nat \ {0} /\ p.crop.h \in Nat \ {0}
      /\ image.data \in Seq(Nat)
  BY ImageFormats DEF Numbers
<1>2. cw \in Nat \ {0} /\ DivCeil2(p.crop.h) \in Nat \ {0}
  BY <1>1, HalfUp
<1> HIDE DEF n, x, y, w, cw
<1>3. x * n \in Nat /\ w * n \in Nat \ {0} /\ 2 * cw * n \in Nat \ {0} /\ y \div 2 \in Nat
  <2>1. CASE n = 1
    BY <1>1, <1>2, <2>1
  <2>2. CASE n = 2
    BY <1>1, <1>2, <2>2
  <2> QED
    BY <1>1, <2>1, <2>2
<1> QED
  BY <1>1, <1>2, <1>3 DEF n, x, y, w, cw

LEMMA CopiedPlanes ==
  ASSUME NEW image, NEW p, Numbers(image, p)
  PROVE  /\ CopiedLuma(image, p).ok <=> LumaWithin(image, p)
         /\ CopiedChroma(image, p).ok <=> ChromaWithin(image, p)
         /\ LumaWithin(image, p) =>
              /\ CopiedLuma(image, p).stride = p.crop.w * Bps(p)
              /\ CopiedLuma(image, p).data \in Seq(Nat)
              /\ Len(CopiedLuma(image, p).data) = p.crop.h * (p.crop.w * Bps(p))
         /\ ChromaWithin(image, p) =>
              /\ CopiedChroma(image, p).stride = 2 * DivCeil2(p.crop.w) * Bps(p)
              /\ CopiedChroma(image, p).data \in Seq(Nat)
              /\ Len(CopiedChroma(image, p).data)
                   = DivCeil2(p.crop.h) * (2 * DivCeil2(p.crop.w) * Bps(p))
<1>1. /\ image.data \in Seq(Nat)
      /\ image.offsets[1] \in Nat /\ image.pitches[1] \in Nat
      /\ image.offsets[2] \in Nat /\ image.pitches[2] \in Nat
  BY DEF Numbers
<1>2. /\ Len(image.data) \in Nat
      /\ p.crop.x * Bps(p) \in Nat /\ p.crop.y \in Nat /\ p.crop.y \div 2 \in Nat
      /\ p.crop.w * Bps(p) \in Nat \ {0} /\ p.crop.h \in Nat \ {0}
      /\ 2 * DivCeil2(p.crop.w) * Bps(p) \in Nat \ {0} /\ DivCeil2(p.crop.h) \in Nat \ {0}
  BY CopyArguments
<1> DEFINE x == p.crop.x * Bps(p)
           half == p.crop.y \div 2
           n == p.crop.w * Bps(p)
           m == 2 * DivCeil2(p.crop.w) * Bps(p)
           ch == DivCeil2(p.crop.h)
           luma == CopyPlane(image.data, image.offsets[1], image.pitches[1],
                             x, p.crop.y, n, p.crop.h)
           chroma == CopyPlane(image.data, image.offsets[2], image.pitches[2], x, half, m, ch)
<1>3. /\ Len(image.data) \in Nat /\ x \in Nat /\ p.crop.y \in Nat /\ half \in Nat
      /\ n \in Nat \ {0} /\ p.crop.h \in Nat \ {0} /\ m \in Nat \ {0} /\ ch \in Nat \ {0}
  BY <1>2
<1>4. /\ luma = CopiedLuma(image, p) /\ chroma = CopiedChroma(image, p)
      /\ LumaWithin(image, p) = RowsWithin(image.data, image.offsets[1], image.pitches[1],
                                            x, p.crop.y, n, p.crop.h)
      /\ ChromaWithin(image, p) = RowsWithin(image.data, image.offsets[2], image.pitches[2],
                                              x, half, m, ch)
  BY DEF CopiedLuma, CopiedChroma, LumaWithin, ChromaWithin
<1> HIDE DEF x, half, n, m, ch
<1>5. n \in Nat /\ m \in Nat
  BY <1>3
<1>6. /\ luma.ok <=> RowsWithin(image.data, image.offsets[1], image.pitches[1],
                                x, p.crop.y, n, p.crop.h)
      /\ chroma.ok <=> RowsWithin(image.data, image.offsets[2], image.pitches[2],
                                  x, half, m, ch)
  BY <1>1, <1>3, <1>5, CopyPlaneSucceeds
<1>7. /\ luma.ok => HoldsRows(luma, image.data, image.offsets[1], image.pitches[1],
                               x, p.crop.y, n, p.crop.h)
      /\ chroma.ok => HoldsRows(chroma, image.data, image.offsets[2], image.pitches[2],
                                 x, half, m, ch)
  BY <1>1, <1>3, CopyPlaneCopies
<1> HIDE DEF luma, chroma
<1> QED
  BY <1>4, <1>6, <1>7 DEF HoldsRows, n, m, ch

(* The libva backend refuses an image exactly when it is not whole, and    *)
(* else returns the two windows.                                           *)
LEMMA CopyImageAnswers ==
  ASSUME NEW image, NEW p, Numbers(image, p)
  PROVE  LET answer == CopyImage(image, p.crop, p.depth)
         IN \/ WholeImage(image, p) /\ answer = CopiedFrame(image, p)
            \/ ~WholeImage(image, p) /\ \E reason \in FrameErrors : answer = Fail(reason)
<1> DEFINE answer == CopyImage(image, p.crop, p.depth)
           f == FormatOf(image.fourcc)
           planes == ImagePlanes(image, p.crop, f)
           Fails == \E reason \in FrameErrors : answer = Fail(reason)
<1>1. /\ image.num_planes \in Nat /\ p.depth \in 8..16
      /\ p.crop.w \in Nat \ {0} /\ p.crop.h \in Nat \ {0}
  BY DEF Numbers
<1>2. CASE image.num_planes < 2 \/ image.fourcc \notin {"NV12", "P010"} \/ ~image.maps
  <2>1. Fails
    BY <1>2 DEF CopyImage, FrameErrors
  <2>2. ~WholeImage(image, p)
    BY <1>1, <1>2 DEF WholeImage
  <2> QED
    BY <2>1, <2>2
<1>3. ASSUME image.num_planes >= 2, image.fourcc \in {"NV12", "P010"}, image.maps
      PROVE  answer = IF \E i \in 1..2 : ~planes[i].ok THEN Fail("image too small")
                      ELSE NewFrame(f, p.crop.w, p.crop.h, p.depth, planes)
  <2>1. ~(image.num_planes < 2)
    BY <1>1, <1>3
  <2>2. answer = IF image.num_planes < 2 THEN Fail("planes")
                 ELSE IF image.fourcc \notin {"NV12", "P010"} THEN Fail("fourcc")
                 ELSE IF ~image.maps THEN Fail("map")
                 ELSE IF \E i \in 1..2 : ~planes[i].ok THEN Fail("image too small")
                 ELSE NewFrame(f, p.crop.w, p.crop.h, p.depth, planes)
    BY DEF CopyImage
  <2> HIDE DEF answer, planes, f
  <2> QED
    BY <1>3, <2>1, <2>2
<1>4. CASE /\ image.num_planes >= 2 /\ image.fourcc \in {"NV12", "P010"} /\ image.maps
           /\ image.fourcc # IF p.depth = 8 THEN "NV12" ELSE "P010"
  <2>1. ~supports_bit_depth(f, p.depth)
    BY <1>1, <1>4 DEF supports_bit_depth, FormatOf
  <2>2. \E reason \in FrameErrors : NewFrame(f, p.crop.w, p.crop.h, p.depth, planes) = Fail(reason)
    BY <2>1, NewFrameAnswers
  <2>3. "image too small" \in FrameErrors
    BY DEF FrameErrors
  <2> HIDE DEF planes, f, answer
  <2>4. Fails
    BY <1>3, <1>4, <2>2, <2>3
  <2>5. ~WholeImage(image, p)
    BY <1>4 DEF WholeImage
  <2> QED
    BY <2>4, <2>5 DEF answer
<1>5. CASE /\ image.num_planes >= 2 /\ image.maps
           /\ image.fourcc = IF p.depth = 8 THEN "NV12" ELSE "P010"
  <2>1. f = ImageFormat(p) /\ bytes_per_sample(f) = Bps(p) /\ image.fourcc \in {"NV12", "P010"}
    BY <1>5 DEF FormatOf, ImageFormat, Bps
  <2>2. planes = <<CopiedLuma(image, p), CopiedChroma(image, p)>>
    BY <2>1 DEF ImagePlanes, CopiedLuma, CopiedChroma
  <2>3. supports_bit_depth(f, p.depth) /\ plane_count(f) = 2
    BY <1>1, <2>1 DEF supports_bit_depth, ImageFormat, plane_count
  <2>4. WholeImage(image, p) <=> LumaWithin(image, p) /\ ChromaWithin(image, p)
    BY <1>5, WholeImageRows
  <2>5. answer = IF \E i \in 1..2 : ~planes[i].ok THEN Fail("image too small")
                 ELSE NewFrame(f, p.crop.w, p.crop.h, p.depth, planes)
    BY <1>3, <1>5, <2>1
  <2>6. ASSUME WholeImage(image, p) PROVE answer = CopiedFrame(image, p)
    <3>1. /\ CopiedLuma(image, p).ok /\ CopiedChroma(image, p).ok
          /\ CopiedLuma(image, p).stride = p.crop.w * Bps(p)
          /\ Len(CopiedLuma(image, p).data) = p.crop.h * (p.crop.w * Bps(p))
          /\ CopiedChroma(image, p).stride = 2 * DivCeil2(p.crop.w) * Bps(p)
          /\ Len(CopiedChroma(image, p).data)
               = DivCeil2(p.crop.h) * (2 * DivCeil2(p.crop.w) * Bps(p))
      BY <2>4, <2>6, CopiedPlanes
    <3>2. ASSUME NEW plane, NEW n \in Nat, NEW rows \in Nat \ {0},
                 plane.stride = n, Len(plane.data) = rows * n
          PROVE  PlaneFits(plane, n, rows)
      <4>1. rows * n = n * (rows - 1) + n
        OBVIOUS
      <4>2. n * (rows - 1) \in Nat
        OBVIOUS
      <4> QED
        BY <3>2, <4>1, <4>2 DEF PlaneFits
    <3>3. /\ p.crop.w * Bps(p) \in Nat /\ 2 * DivCeil2(p.crop.w) * Bps(p) \in Nat
          /\ DivCeil2(p.crop.h) \in Nat \ {0}
      BY CopyArguments
    <3>4. /\ PlaneFits(CopiedLuma(image, p), p.crop.w * Bps(p), p.crop.h)
          /\ PlaneFits(CopiedChroma(image, p), 2 * DivCeil2(p.crop.w) * Bps(p), DivCeil2(p.crop.h))
      BY <1>1, <3>1, <3>2, <3>3
    <3>5. /\ PlaneSize(f, 1, p.crop.w, p.crop.h) = <<p.crop.w, p.crop.h>>
          /\ PlaneSize(f, 2, p.crop.w, p.crop.h) = <<2 * DivCeil2(p.crop.w), DivCeil2(p.crop.h)>>
      BY <2>3 DEF PlaneSize
    <3>6. Len(planes) = 2 /\ planes[1] = CopiedLuma(image, p) /\ planes[2] = CopiedChroma(image, p)
      BY <2>2
    <3> HIDE DEF planes, f
    <3>7. \A k \in 1..2 :
            PlaneFits(planes[k], PlaneSize(f, k, p.crop.w, p.crop.h)[1] * bytes_per_sample(f),
                      PlaneSize(f, k, p.crop.w, p.crop.h)[2])
      <4>1. PlaneFits(planes[1], PlaneSize(f, 1, p.crop.w, p.crop.h)[1] * bytes_per_sample(f),
                      PlaneSize(f, 1, p.crop.w, p.crop.h)[2])
        BY <2>1, <3>4, <3>5, <3>6
      <4>2. PlaneFits(planes[2], PlaneSize(f, 2, p.crop.w, p.crop.h)[1] * bytes_per_sample(f),
                      PlaneSize(f, 2, p.crop.w, p.crop.h)[2])
        BY <2>1, <3>4, <3>5, <3>6
      <4>3. \A k \in 1..2 : k = 1 \/ k = 2
        OBVIOUS
      <4> QED
        BY <4>1, <4>2, <4>3
    <3>8. NewFrame(f, p.crop.w, p.crop.h, p.depth, planes) =
            [ok |-> TRUE, format |-> f, width |-> p.crop.w, height |-> p.crop.h,
             depth |-> p.depth, planes |-> planes]
      BY <1>1, <2>3, <3>6, <3>7, NewFrameAnswers
    <3>9. \A i \in 1..2 : planes[i].ok
      <4>1. \A i \in 1..2 : i = 1 \/ i = 2
        OBVIOUS
      <4> QED
        BY <3>1, <3>6, <4>1
    <3> HIDE DEF answer
    <3> QED
      BY <2>1, <2>2, <2>5, <3>8, <3>9 DEF CopiedFrame
  <2>7. ASSUME ~WholeImage(image, p) PROVE Fails
    <3>1. ~CopiedLuma(image, p).ok \/ ~CopiedChroma(image, p).ok
      BY <2>4, <2>7, CopiedPlanes
    <3>2. planes[1] = CopiedLuma(image, p) /\ planes[2] = CopiedChroma(image, p)
      BY <2>2
    <3> HIDE DEF planes, answer
    <3>3. \E i \in 1..2 : ~planes[i].ok
      <4>1. 1 \in 1..2 /\ 2 \in 1..2
        OBVIOUS
      <4> QED
        BY <3>1, <3>2, <4>1
    <3>4. answer = Fail("image too small")
      BY <2>5, <3>3
    <3> QED
      BY <3>4 DEF FrameErrors
  <2> QED
    BY <2>6, <2>7
<1> QED
  BY <1>1, <1>2, <1>4, <1>5

-----------------------------------------------------------------------------
(* Frames                                                                  *)

(* The numbers of a frame that the proofs compute with.                    *)
FrameNumbers(f, p) ==
  /\ p.depth \in 8..16
  /\ p.crop.w \in Nat \ {0} /\ p.crop.h \in Nat \ {0}
  /\ f.format \in PixelFormat /\ Len(f.planes) \in Nat
  /\ \A k \in 1..Len(f.planes) : f.planes[k].stride \in Nat /\ f.planes[k].data \in Seq(Nat)

LEMMA Formats ==
  ASSUME NEW f \in PixelFormat
  PROVE  /\ bytes_per_sample(f) \in {1, 2} /\ plane_count(f) \in {2, 3}
         /\ plane_count(f) = 2 <=> f \in {"Nv12", "P010"}
         /\ bytes_per_sample(f) = 1 <=> f \in {"Nv12", "I420"}
BY DEF PixelFormat, bytes_per_sample, plane_count

LEMMA PlaneSizes ==
  ASSUME NEW f \in PixelFormat, NEW w \in Nat \ {0}, NEW h \in Nat \ {0}
  PROVE  /\ PlaneSize(f, 1, w, h) = <<w, h>>
         /\ plane_count(f) = 2 => PlaneSize(f, 2, w, h) = <<2 * DivCeil2(w), DivCeil2(h)>>
         /\ plane_count(f) = 3 => /\ PlaneSize(f, 2, w, h) = <<DivCeil2(w), DivCeil2(h)>>
                                  /\ PlaneSize(f, 3, w, h) = <<DivCeil2(w), DivCeil2(h)>>
BY Formats DEF PlaneSize

LEMMA PlaneNumbers ==
  ASSUME NEW f \in PixelFormat, NEW w \in Nat \ {0}, NEW h \in Nat \ {0},
         NEW k \in 1..plane_count(f)
  PROVE  /\ PlaneSize(f, k, w, h)[1] * bytes_per_sample(f) \in Nat \ {0}
         /\ PlaneSize(f, k, w, h)[2] \in Nat \ {0}
<1>1. DivCeil2(w) \in Nat \ {0} /\ DivCeil2(h) \in Nat \ {0}
  BY HalfUp
<1>2. plane_count(f) \in {2, 3} /\ bytes_per_sample(f) \in {1, 2}
  BY Formats
<1>3. k \in {1, 2, 3}
  BY <1>2
<1>4. PlaneSize(f, k, w, h)[1] \in Nat \ {0} /\ PlaneSize(f, k, w, h)[2] \in Nat \ {0}
  <2>1. CASE k = 1
    BY <1>1, <2>1 DEF PlaneSize
  <2>2. CASE k = 2
    BY <1>1, <2>2 DEF PlaneSize
  <2>3. CASE k = 3
    BY <1>1, <2>3 DEF PlaneSize
  <2> QED
    BY <1>3, <2>1, <2>2, <2>3
<1> DEFINE a == PlaneSize(f, k, w, h)[1]
           n == bytes_per_sample(f)
<1>5. a \in Nat \ {0} /\ n \in {1, 2}
  BY <1>2, <1>4
<1> HIDE DEF a, n
<1>6. a * n \in Nat \ {0}
  <2>1. CASE n = 1
    BY <1>5, <2>1
  <2>2. CASE n = 2
    BY <1>5, <2>2
  <2> QED
    BY <1>5, <2>1, <2>2
<1> QED
  BY <1>4, <1>6 DEF a, n

(* A frame is whole exactly when DecodedFrame::new accepts its planes.     *)
LEMMA WholeFrameFits ==
  ASSUME NEW f, NEW p, FrameNumbers(f, p)
  PROVE  WholeFrame(f, p)
           <=> /\ supports_bit_depth(f.format, p.depth)
               /\ Len(f.planes) = plane_count(f.format)
               /\ \A k \in 1..Len(f.planes) :
                    PlaneFits(f.planes[k],
                              PlaneSize(f.format, k, p.crop.w, p.crop.h)[1]
                                * bytes_per_sample(f.format),
                              PlaneSize(f.format, k, p.crop.w, p.crop.h)[2])
<1>1. /\ f.format \in PixelFormat /\ p.crop.w \in Nat \ {0} /\ p.crop.h \in Nat \ {0}
      /\ \A k \in 1..Len(f.planes) : f.planes[k].stride \in Nat /\ Len(f.planes[k].data) \in Nat
  BY DEF FrameNumbers
<1> DEFINE Fits(k) == PlaneFits(f.planes[k],
                        PlaneSize(f.format, k, p.crop.w, p.crop.h)[1] * bytes_per_sample(f.format),
                        PlaneSize(f.format, k, p.crop.w, p.crop.h)[2])
           Rows(k) == /\ RowBytes(f, p, k) <= f.planes[k].stride
                      /\ \A j \in 0..PlaneSize(f.format, k, p.crop.w, p.crop.h)[2] - 1 :
                           f.planes[k].stride * j + RowBytes(f, p, k) <= Len(f.planes[k].data)
<1>2. ASSUME Len(f.planes) = plane_count(f.format), NEW k \in 1..plane_count(f.format)
      PROVE  Fits(k) <=> Rows(k)
  <2> DEFINE n == PlaneSize(f.format, k, p.crop.w, p.crop.h)[1] * bytes_per_sample(f.format)
             rows == PlaneSize(f.format, k, p.crop.w, p.crop.h)[2]
             plane == f.planes[k]
  <2>1. n \in Nat /\ rows \in Nat \ {0}
    BY <1>1, PlaneNumbers
  <2>2. plane.stride \in Nat /\ Len(plane.data) \in Nat
    BY <1>1, <1>2
  <2>3. RowBytes(f, p, k) = n
    BY DEF RowBytes
  <2> HIDE DEF n, rows, plane
  <2>4. PlaneFits(plane, n, rows)
          <=> /\ n <= plane.stride
              /\ \A j \in 0..rows - 1 : plane.stride * j + n <= Len(plane.data)
    BY <2>1, <2>2, PlaneFitsRows
  <2> QED
    BY <2>3, <2>4 DEF n, rows, plane
<1>3. WholeFrame(f, p) <=> /\ supports_bit_depth(f.format, p.depth)
                           /\ Len(f.planes) = plane_count(f.format)
                           /\ \A k \in 1..plane_count(f.format) : Rows(k)
  BY DEF WholeFrame
<1> HIDE DEF Fits, Rows
<1>4. WholeFrame(f, p) <=> /\ supports_bit_depth(f.format, p.depth)
                           /\ Len(f.planes) = plane_count(f.format)
                           /\ \A k \in 1..Len(f.planes) : Fits(k)
  BY <1>2, <1>3
<1> QED
  BY <1>4 DEF Fits

LEMMA NewFrameSound ==
  ASSUME NEW f, NEW p, FrameNumbers(f, p)
  PROVE  LET answer == NewFrame(f.format, p.crop.w, p.crop.h, p.depth, f.planes)
         IN \/ /\ WholeFrame(f, p)
               /\ answer = [ok |-> TRUE, format |-> f.format, width |-> p.crop.w,
                            height |-> p.crop.h, depth |-> p.depth, planes |-> f.planes]
            \/ ~WholeFrame(f, p) /\ \E reason \in FrameErrors : answer = Fail(reason)
<1>1. p.crop.w # 0 /\ p.crop.h # 0
  BY DEF FrameNumbers
<1> DEFINE fits == \A k \in 1..Len(f.planes) :
                     PlaneFits(f.planes[k],
                               PlaneSize(f.format, k, p.crop.w, p.crop.h)[1]
                                 * bytes_per_sample(f.format),
                               PlaneSize(f.format, k, p.crop.w, p.crop.h)[2])
           answer == NewFrame(f.format, p.crop.w, p.crop.h, p.depth, f.planes)
           good == [ok |-> TRUE, format |-> f.format, width |-> p.crop.w,
                    height |-> p.crop.h, depth |-> p.depth, planes |-> f.planes]
<1>2. WholeFrame(f, p) <=> /\ supports_bit_depth(f.format, p.depth)
                           /\ Len(f.planes) = plane_count(f.format) /\ fits
  BY WholeFrameFits
<1>3. \/ /\ p.crop.w # 0 /\ p.crop.h # 0 /\ supports_bit_depth(f.format, p.depth)
         /\ Len(f.planes) = plane_count(f.format) /\ fits
         /\ answer = good
      \/ /\ ~(/\ p.crop.w # 0 /\ p.crop.h # 0 /\ supports_bit_depth(f.format, p.depth)
              /\ Len(f.planes) = plane_count(f.format) /\ fits)
         /\ \E reason \in FrameErrors : answer = Fail(reason)
  BY NewFrameAnswers
<1> HIDE DEF fits, answer, good
<1> QED
  BY <1>1, <1>2, <1>3 DEF answer, good

-----------------------------------------------------------------------------
(* What the libva backend returns                                          *)

(* Rows copied without padding do not overlap and fill the plane.          *)
LEMMA TightRows ==
  ASSUME NEW n \in Nat, NEW rows \in Nat \ {0}
  PROVE  \A j \in 0..rows - 1 : n * j + n <= rows * n
<1>1. ASSUME NEW j \in 0..rows - 1 PROVE n * j + n <= rows * n
  <2>1. n * j + n = n * (j + 1) /\ n * (j + 1) <= n * rows
    OBVIOUS
  <2> QED
    BY <2>1
<1> QED
  BY <1>1

LEMMA CopiedFrameWhole ==
  ASSUME NEW image, NEW p, Numbers(image, p), WholeImage(image, p)
  PROVE  WholeFrame(CopiedFrame(image, p), p)
<1> DEFINE f == CopiedFrame(image, p)
           n1 == p.crop.w * Bps(p)
           n2 == 2 * DivCeil2(p.crop.w) * Bps(p)
           ch == DivCeil2(p.crop.h)
<1>1. /\ n1 \in Nat /\ n2 \in Nat /\ p.crop.h \in Nat \ {0} /\ ch \in Nat \ {0}
  BY CopyArguments
<1>2. /\ f.format = ImageFormat(p) /\ Len(f.planes) = 2
      /\ f.planes[1] = CopiedLuma(image, p) /\ f.planes[2] = CopiedChroma(image, p)
  BY DEF CopiedFrame
<1>3. /\ f.format \in PixelFormat /\ plane_count(f.format) = 2
      /\ bytes_per_sample(f.format) = Bps(p) /\ supports_bit_depth(f.format, p.depth)
  <2>1. p.depth \in 8..16
    BY DEF Numbers
  <2> QED
    BY <1>2, <2>1 DEF ImageFormat, Bps, PixelFormat, plane_count, supports_bit_depth
<1>4. /\ f.planes[1].stride = n1 /\ Len(f.planes[1].data) = p.crop.h * n1
      /\ f.planes[2].stride = n2 /\ Len(f.planes[2].data) = ch * n2
  BY <1>2, CopiedPlanes, WholeImageRows
<1>5. /\ PlaneSize(f.format, 1, p.crop.w, p.crop.h) = <<p.crop.w, p.crop.h>>
      /\ PlaneSize(f.format, 2, p.crop.w, p.crop.h) = <<2 * DivCeil2(p.crop.w), ch>>
  BY <1>3 DEF PlaneSize
<1>6. RowBytes(f, p, 1) = n1 /\ RowBytes(f, p, 2) = n2
  BY <1>3, <1>5 DEF RowBytes
<1> HIDE DEF f, n1, n2, ch
<1> DEFINE Rows(k) == /\ RowBytes(f, p, k) <= f.planes[k].stride
                      /\ \A j \in 0..PlaneSize(f.format, k, p.crop.w, p.crop.h)[2] - 1 :
                           f.planes[k].stride * j + RowBytes(f, p, k) <= Len(f.planes[k].data)
<1>7. Rows(1)
  <2>1. PlaneSize(f.format, 1, p.crop.w, p.crop.h)[2] = p.crop.h
    BY <1>5
  <2>2. \A j \in 0..p.crop.h - 1 : n1 * j + n1 <= p.crop.h * n1
    BY <1>1, TightRows
  <2>3. n1 <= n1
    BY <1>1
  <2> QED
    BY <1>4, <1>6, <2>1, <2>2, <2>3
<1>8. Rows(2)
  <2>1. PlaneSize(f.format, 2, p.crop.w, p.crop.h)[2] = ch
    BY <1>5
  <2>2. \A j \in 0..ch - 1 : n2 * j + n2 <= ch * n2
    BY <1>1, TightRows
  <2>3. n2 <= n2
    BY <1>1
  <2> QED
    BY <1>4, <1>6, <2>1, <2>2, <2>3
<1> HIDE DEF Rows
<1>9. \A k \in 1..2 : Rows(k)
  <2>1. \A k \in 1..2 : k = 1 \/ k = 2
    OBVIOUS
  <2> QED
    BY <1>7, <1>8, <2>1
<1>10. WholeFrame(f, p)
  BY <1>2, <1>3, <1>9 DEF WholeFrame, Rows
<1> QED
  BY <1>10 DEF f

(* A sample of m bytes at byte b of a row is where the copy put the row.   *)
LEMMA SampleCopied ==
  ASSUME NEW plane, NEW data, NEW offset, NEW pitch, NEW x, NEW y,
         NEW n \in Nat \ {0}, NEW rows \in Nat \ {0},
         HoldsRows(plane, data, offset, pitch, x, y, n, rows),
         NEW j \in 0..rows - 1, NEW b \in Nat, NEW m \in {1, 2}, b + m <= n,
         NEW s \in Nat, s = RowStart(offset, pitch, x, y, j),
         NEW f, NEW depth, NEW v, bytes_per_sample(f) = m,
         Stores(data, s + b + 1, f, depth, v)
  PROVE  Stores(plane.data, 1 + plane.stride * j + b, f, depth, v)
<1>1. /\ plane.stride = n
      /\ \A k \in 0..n - 1 : plane.data[j * n + k + 1] = data[RowStart(offset, pitch, x, y, j) + k + 1]
  BY DEF HoldsRows
<1>2. j \in Nat /\ j * n \in Nat /\ b \in 0..n - 1 /\ (m = 2 => b + 1 \in 0..n - 1)
  OBVIOUS
<1>3. plane.data[j * n + b + 1] = data[s + b + 1]
  BY <1>1, <1>2
<1>4. m = 2 => plane.data[j * n + (b + 1) + 1] = data[s + (b + 1) + 1]
  BY <1>1, <1>2
<1> DEFINE at == 1 + n * j + b
<1>5. /\ at = j * n + b + 1 /\ at + 1 = j * n + (b + 1) + 1
      /\ (s + b + 1) + 1 = s + (b + 1) + 1
  BY <1>2
<1> HIDE DEF at
<1>6. plane.data[at] = data[s + b + 1]
  BY <1>3, <1>5
<1>7. m = 2 => plane.data[at + 1] = data[(s + b + 1) + 1]
  BY <1>4, <1>5
<1>8. CASE m = 1
  <2>1. data[s + b + 1] = v
    BY <1>8 DEF Stores
  <2>2. plane.data[at] = v
    BY <1>6, <2>1
  <2>3. Stores(plane.data, at, f, depth, v)
    BY <1>8, <2>2 DEF Stores
  <2> QED
    BY <1>1, <2>3 DEF at
<1>9. CASE m = 2
  <2>1. bytes_per_sample(f) # 1
    BY <1>9
  <2> DEFINE word == v * (IF f = "P010" THEN Pow2[16 - depth] ELSE 1)
             a == s + b + 1
  <2>2. data[a] + 256 * data[a + 1] = word
    BY <2>1 DEF Stores
  <2>3. plane.data[at] = data[a] /\ plane.data[at + 1] = data[a + 1]
    BY <1>6, <1>7, <1>9
  <2> HIDE DEF word, a
  <2>4. plane.data[at] + 256 * plane.data[at + 1] = word
    BY <2>2, <2>3
  <2>5. Stores(plane.data, at, f, depth, v)
    BY <2>1, <2>4 DEF Stores, word
  <2> QED
    BY <1>1, <2>5 DEF at
<1> QED
  BY <1>8, <1>9

(* The windows the copy took, row for row.                                 *)
LEMMA CopiedRows ==
  ASSUME NEW image, NEW p, Numbers(image, p), WholeImage(image, p)
  PROVE  /\ HoldsRows(CopiedLuma(image, p), image.data, image.offsets[1], image.pitches[1],
                      p.crop.x * Bps(p), p.crop.y, p.crop.w * Bps(p), p.crop.h)
         /\ HoldsRows(CopiedChroma(image, p), image.data, image.offsets[2], image.pitches[2],
                      p.crop.x * Bps(p), p.crop.y \div 2, 2 * DivCeil2(p.crop.w) * Bps(p),
                      DivCeil2(p.crop.h))
<1>1. /\ image.data \in Seq(Nat)
      /\ image.offsets[1] \in Nat /\ image.pitches[1] \in Nat
      /\ image.offsets[2] \in Nat /\ image.pitches[2] \in Nat
  BY DEF Numbers
<1> DEFINE x == p.crop.x * Bps(p)
           half == p.crop.y \div 2
           n == p.crop.w * Bps(p)
           m == 2 * DivCeil2(p.crop.w) * Bps(p)
           ch == DivCeil2(p.crop.h)
           luma == CopyPlane(image.data, image.offsets[1], image.pitches[1],
                             x, p.crop.y, n, p.crop.h)
           chroma == CopyPlane(image.data, image.offsets[2], image.pitches[2], x, half, m, ch)
<1>2. /\ x \in Nat /\ p.crop.y \in Nat /\ half \in Nat
      /\ n \in Nat \ {0} /\ p.crop.h \in Nat \ {0} /\ m \in Nat \ {0} /\ ch \in Nat \ {0}
  BY CopyArguments
<1>3. luma = CopiedLuma(image, p) /\ chroma = CopiedChroma(image, p)
  BY DEF CopiedLuma, CopiedChroma
<1>4. CopiedLuma(image, p).ok /\ CopiedChroma(image, p).ok
  BY CopiedPlanes, WholeImageRows
<1>5. luma.ok /\ chroma.ok
  BY <1>3, <1>4
<1> HIDE DEF x, half, n, m, ch
<1>6. /\ HoldsRows(luma, image.data, image.offsets[1], image.pitches[1],
                   x, p.crop.y, n, p.crop.h)
      /\ HoldsRows(chroma, image.data, image.offsets[2], image.pitches[2], x, half, m, ch)
  BY <1>1, <1>2, <1>5, CopyPlaneCopies
<1> QED
  BY <1>3, <1>6 DEF x, half, n, m, ch

(* Bytes of a component's sample within a row, as counted from its start.  *)
LEMMA ByteInRow ==
  ASSUME NEW n \in {1, 2}, NEW cols \in Nat \ {0}, NEW i \in 0..cols - 1
  PROVE  /\ i * n \in Nat /\ i * n + n <= cols * n
         /\ i * (2 * n) \in Nat /\ i * (2 * n) + n <= 2 * cols * n
         /\ i * (2 * n) + n \in Nat /\ (i * (2 * n) + n) + n <= 2 * cols * n
<1>1. CASE n = 1
  BY <1>1
<1>2. CASE n = 2
  BY <1>2
<1> QED
  BY <1>1, <1>2

LEMMA CopiedFrameShows ==
  ASSUME NEW image, NEW p, NEW shown \in SUBSET Components, Numbers(image, p),
         WholeImage(image, p), ImageShows(image, p, shown)
  PROVE  FrameShows(CopiedFrame(image, p), p, shown)
<1> DEFINE fr == CopiedFrame(image, p)
           n == Bps(p)
           x == p.crop.x * n
           half == p.crop.y \div 2
           w == p.crop.w
           h == p.crop.h
           cw == DivCeil2(w)
           ch == DivCeil2(h)
           n1 == w * n
           n2 == 2 * cw * n
           luma(j) == RowStart(image.offsets[1], image.pitches[1], x, p.crop.y, j)
           chroma(j) == RowStart(image.offsets[2], image.pitches[2], x, half, j)
<1>1. /\ n \in {1, 2} /\ n1 \in Nat \ {0} /\ n2 \in Nat \ {0}
      /\ w \in Nat \ {0} /\ h \in Nat \ {0} /\ cw \in Nat \ {0} /\ ch \in Nat \ {0}
  <2>1. w \in Nat \ {0} /\ h \in Nat \ {0}
    BY DEF Numbers
  <2> QED
    BY <2>1, ImageFormats, CopyArguments, HalfUp
<1>2. /\ fr.format = ImageFormat(p) /\ fr.planes[1] = CopiedLuma(image, p)
      /\ fr.planes[2] = CopiedChroma(image, p) /\ plane_count(fr.format) = 2
      /\ bytes_per_sample(fr.format) = n
  BY DEF CopiedFrame, ImageFormat, plane_count, Bps
<1>3. /\ HoldsRows(fr.planes[1], image.data, image.offsets[1], image.pitches[1],
                   x, p.crop.y, n1, h)
      /\ HoldsRows(fr.planes[2], image.data, image.offsets[2], image.pitches[2],
                   x, half, n2, ch)
  BY <1>2, CopiedRows
<1>4. /\ FramePlane(fr, "y") = fr.planes[1]
      /\ \A c \in {"cb", "cr"} : FramePlane(fr, c) = fr.planes[2]
  BY <1>2 DEF FramePlane
<1>5. ASSUME NEW i, NEW j
      PROVE  /\ FrameByte(fr, "y", i, j) = 1 + fr.planes[1].stride * j + i * n
             /\ FrameByte(fr, "cb", i, j) = 1 + fr.planes[2].stride * j + (i * (2 * n) + 0)
             /\ FrameByte(fr, "cr", i, j) = 1 + fr.planes[2].stride * j + (i * (2 * n) + n)
  <2> HIDE DEF fr, n
  <2> QED
    BY <1>2, <1>4 DEF FrameByte
<1>6. ASSUME NEW i \in Nat, NEW j \in Nat
      PROVE  /\ luma(j) \in Nat /\ chroma(j) \in Nat
             /\ ImageByte(image, p, "y", i, j) = luma(j) + i * n + 1
             /\ ImageByte(image, p, "cb", i, j) = chroma(j) + i * (2 * n) + 1
             /\ ImageByte(image, p, "cr", i, j) = chroma(j) + i * (2 * n) + n + 1
  BY ImageBytes
<1> DEFINE Shows(c, i, j) ==
             Stores(FramePlane(fr, c).data, FrameByte(fr, c, i, j), fr.format, p.depth,
                    Sample(p, c, i, j))
           Given(c, i, j) ==
             Stores(image.data, ImageByte(image, p, c, i, j), fr.format, p.depth,
                    Sample(p, c, i, j))
<1>7. ASSUME NEW c \in shown, NEW i \in WindowCols(p, c), NEW j \in WindowRows(p, c)
      PROVE  Given(c, i, j)
  BY <1>2 DEF ImageShows
<1> HIDE DEF fr, n, x, half, w, h, cw, ch, n1, n2
<1>8. ASSUME NEW i \in 0..w - 1, NEW j \in 0..h - 1, Given("y", i, j) PROVE Shows("y", i, j)
  <2>1. i \in Nat /\ j \in Nat
    BY <1>1
  <2> DEFINE s == luma(j)
             b == i * n
             v == Sample(p, "y", i, j)
  <2>2. s \in Nat /\ b \in Nat /\ b + n <= n1
    BY <1>1, <1>6, <2>1, ByteInRow DEF n1
  <2>3. Stores(image.data, s + b + 1, fr.format, p.depth, v)
    BY <1>6, <1>8, <2>1
  <2> HIDE DEF b, v
  <2>4. /\ HoldsRows(fr.planes[1], image.data, image.offsets[1], image.pitches[1],
                     x, p.crop.y, n1, h)
        /\ n1 \in Nat \ {0} /\ h \in Nat \ {0} /\ n \in {1, 2} /\ j \in 0..h - 1
        /\ b \in Nat /\ b + n <= n1 /\ bytes_per_sample(fr.format) = n
        /\ s \in Nat /\ s = RowStart(image.offsets[1], image.pitches[1], x, p.crop.y, j)
        /\ Stores(image.data, s + b + 1, fr.format, p.depth, v)
    BY <1>1, <1>2, <1>3, <2>2, <2>3 DEF s
  <2> HIDE DEF s
  <2>5. Stores(fr.planes[1].data, 1 + fr.planes[1].stride * j + b, fr.format, p.depth, v)
    BY <2>4, SampleCopied
  <2> QED
    BY <1>4, <1>5, <2>5 DEF b, v
<1>9. ASSUME NEW i \in 0..cw - 1, NEW j \in 0..ch - 1, Given("cb", i, j) PROVE Shows("cb", i, j)
  <2>1. i \in Nat /\ j \in Nat
    BY <1>1
  <2> DEFINE s == chroma(j)
             b == i * (2 * n)
             v == Sample(p, "cb", i, j)
  <2>2. s \in Nat /\ b \in Nat /\ b + n <= n2
    BY <1>1, <1>6, <2>1, ByteInRow DEF n2
  <2>3. Stores(image.data, s + b + 1, fr.format, p.depth, v)
    BY <1>6, <1>9, <2>1
  <2>4. b + 0 = b /\ FrameByte(fr, "cb", i, j) = 1 + fr.planes[2].stride * j + b
    BY <1>5, <2>2
  <2> HIDE DEF b, v
  <2>5. /\ HoldsRows(fr.planes[2], image.data, image.offsets[2], image.pitches[2],
                     x, half, n2, ch)
        /\ n2 \in Nat \ {0} /\ ch \in Nat \ {0} /\ n \in {1, 2} /\ j \in 0..ch - 1
        /\ b \in Nat /\ b + n <= n2 /\ bytes_per_sample(fr.format) = n
        /\ s \in Nat /\ s = RowStart(image.offsets[2], image.pitches[2], x, half, j)
        /\ Stores(image.data, s + b + 1, fr.format, p.depth, v)
    BY <1>1, <1>2, <1>3, <2>2, <2>3 DEF s
  <2> HIDE DEF s
  <2>6. Stores(fr.planes[2].data, 1 + fr.planes[2].stride * j + b, fr.format, p.depth, v)
    BY <2>5, SampleCopied
  <2> QED
    BY <1>4, <2>4, <2>6 DEF v
<1>10. ASSUME NEW i \in 0..cw - 1, NEW j \in 0..ch - 1, Given("cr", i, j) PROVE Shows("cr", i, j)
  <2>1. i \in Nat /\ j \in Nat
    BY <1>1
  <2> DEFINE s == chroma(j)
             b == i * (2 * n) + n
             v == Sample(p, "cr", i, j)
  <2>2. s \in Nat /\ b \in Nat /\ b + n <= n2
    BY <1>1, <1>6, <2>1, ByteInRow DEF n2
  <2>3. ImageByte(image, p, "cr", i, j) = s + b + 1
    <3>1. i * (2 * n) \in Nat /\ n \in Nat /\ s \in Nat
      BY <1>1, <2>1, <2>2, ByteInRow
    <3>2. \A a, k, m \in Nat : a + k + m + 1 = a + (k + m) + 1
      OBVIOUS
    <3> QED
      BY <1>6, <2>1, <3>1, <3>2
  <2>4. Stores(image.data, s + b + 1, fr.format, p.depth, v)
    BY <1>10, <2>3
  <2> HIDE DEF b, v
  <2>5. /\ HoldsRows(fr.planes[2], image.data, image.offsets[2], image.pitches[2],
                     x, half, n2, ch)
        /\ n2 \in Nat \ {0} /\ ch \in Nat \ {0} /\ n \in {1, 2} /\ j \in 0..ch - 1
        /\ b \in Nat /\ b + n <= n2 /\ bytes_per_sample(fr.format) = n
        /\ s \in Nat /\ s = RowStart(image.offsets[2], image.pitches[2], x, half, j)
        /\ Stores(image.data, s + b + 1, fr.format, p.depth, v)
    BY <1>1, <1>2, <1>3, <2>2, <2>4 DEF s
  <2> HIDE DEF s
  <2>6. Stores(fr.planes[2].data, 1 + fr.planes[2].stride * j + b, fr.format, p.depth, v)
    BY <2>5, SampleCopied
  <2> QED
    BY <1>4, <1>5, <2>6 DEF b, v
<1> HIDE DEF Shows, Given
<1>11. ASSUME NEW c \in shown, NEW i \in WindowCols(p, c), NEW j \in WindowRows(p, c)
       PROVE  Shows(c, i, j)
  <2>1. Given(c, i, j)
    BY <1>7
  <2>2. c \in {"y", "cb", "cr"}
    BY DEF Components
  <2>3. CASE c = "y"
    BY <1>8, <2>1, <2>3, WindowSizes DEF w, h
  <2>4. CASE c = "cb"
    BY <1>9, <2>1, <2>4, WindowSizes DEF w, h, cw, ch
  <2>5. CASE c = "cr"
    BY <1>10, <2>1, <2>5, WindowSizes DEF w, h, cw, ch
  <2> QED
    BY <2>2, <2>3, <2>4, <2>5
<1> QED
  BY <1>11 DEF FrameShows, Shows, fr

-----------------------------------------------------------------------------
(* hw_planes.rs, hw_frame_to_planar, hw_frame_to_decoded                   *)

(* A stored sample is read back, from the high bits of a word or the low.  *)
LEMMA StoredIsRead ==
  ASSUME NEW data, NEW at, NEW f \in PixelFormat, NEW depth \in 8..16,
         NEW v \in 0..Pow2[depth] - 1, Stores(data, at, f, depth, v)
  PROVE  /\ bytes_per_sample(f) = 1 => data[at] = v
         /\ bytes_per_sample(f) # 1 =>
              (Word(data, at) \div Pow2[IF f = "P010" THEN 16 - depth ELSE 0])
                % (SampleMask(depth) + 1) = v
<1>1. CASE bytes_per_sample(f) = 1
  BY <1>1 DEF Stores
<1>2. CASE bytes_per_sample(f) # 1
  <2> DEFINE k == IF f = "P010" THEN 16 - depth ELSE 0
             a == Pow2[k]
             b == Pow2[depth]
  <2>1. k \in Nat /\ depth \in Nat
    OBVIOUS
  <2>2. a \in Nat \ {0} /\ b \in Nat \ {0} /\ v \in Nat /\ v \in 0..(b - 1)
    BY <2>1, PowDoubles
  <2>3. Word(data, at) = v * a
    <3>1. Word(data, at) = v * (IF f = "P010" THEN Pow2[16 - depth] ELSE 1)
      BY <1>2 DEF Word, Stores
    <3>2. CASE f = "P010"
      BY <3>1, <3>2
    <3>3. CASE f # "P010"
      <4>1. a = 1
        BY <3>3, PowDoubles
      <4> QED
        BY <3>1, <3>3, <4>1
    <3> QED
      BY <3>2, <3>3
  <2>4. SampleMask(depth) + 1 = b
    BY <2>2 DEF SampleMask
  <2> HIDE DEF a, b, k
  <2>5. (v * a) \div a = v
    <3>1. 0 \in 0..(a - 1) /\ v * a + 0 = v * a
      BY <2>2
    <3>2. (v * a + 0) \div a = v
      BY <2>2, <3>1, DivideUnique
    <3> QED
      BY <3>1, <3>2
  <2>6. v % b = v
    <3>1. 0 \in Nat /\ 0 * b + v = v
      BY <2>2
    <3>2. (0 * b + v) % b = v
      BY <2>2, <3>1, DivideUnique
    <3> QED
      BY <3>1, <3>2
  <2>7. (Word(data, at) \div a) % (SampleMask(depth) + 1) = v
    BY <2>3, <2>4, <2>5, <2>6
  <2> QED
    BY <1>2, <2>7 DEF a, k
<1> QED
  BY <1>1, <1>2

(* The reads go to the byte of the sample.                                 *)
LEMMA ReadPlace ==
  ASSUME NEW plane, plane.stride \in Nat, NEW w \in Nat \ {0}, NEW h \in Nat,
         NEW m \in {1, 2, 4}, NEW i \in 1..w * h
  PROVE  /\ (i - 1) % w \in 0..w - 1 /\ (i - 1) \div w \in 0..h - 1
         /\ At(plane, w, i - 1, m)
              = 1 + plane.stride * ((i - 1) \div w) + ((i - 1) % w) * m
<1> DEFINE q == (i - 1) \div w
           r == (i - 1) % w
           stride == plane.stride
<1>1. r \in 0..w - 1 /\ q \in 0..h - 1
  BY RowAndColumn
<1>2. At(plane, w, i - 1, m) = q * stride + r * m + 1
  BY DEF At
<1>3. stride \in Nat
  OBVIOUS
<1> HIDE DEF q, r, stride
<1>4. q * stride + r * m + 1 = 1 + stride * q + r * m
  <2>1. \A a, b \in Nat : a + b + 1 = 1 + a + b
    OBVIOUS
  <2>2. q * stride \in Nat /\ r * m \in Nat /\ q * stride = stride * q
    BY <1>1, <1>3
  <2> QED
    BY <2>1, <2>2
<1> QED
  BY <1>1, <1>2, <1>4 DEF q, r, stride

(* Every sample of a frame that shows a picture is read as it was.         *)
LEMMA SampleRead ==
  ASSUME NEW f, NEW p, NEW shown \in SUBSET Components, PictureOK(p, shown),
         FrameReady(f, p, shown), NEW c \in shown,
         NEW i \in WindowCols(p, c), NEW j \in WindowRows(p, c)
  PROVE  /\ bytes_per_sample(f.format) = 1 =>
              FramePlane(f, c).data[FrameByte(f, c, i, j)] = Sample(p, c, i, j)
         /\ bytes_per_sample(f.format) # 1 =>
              (Word(FramePlane(f, c).data, FrameByte(f, c, i, j)) \div Pow2[Shift(f)])
                % (SampleMask(f.depth) + 1) = Sample(p, c, i, j)
<1>1. /\ f.format \in PixelFormat /\ f.depth = p.depth /\ p.depth \in 8..16
      /\ Sample(p, c, i, j) \in 0..Pow2[p.depth] - 1
  BY DEF FrameReady, PictureOK
<1>2. Stores(FramePlane(f, c).data, FrameByte(f, c, i, j), f.format, p.depth, Sample(p, c, i, j))
  BY DEF FrameReady, FrameShows
<1>3. Shift(f) = IF f.format = "P010" THEN 16 - p.depth ELSE 0
  BY <1>1 DEF Shift
<1> DEFINE data == FramePlane(f, c).data
           at == FrameByte(f, c, i, j)
           v == Sample(p, c, i, j)
<1>4. /\ v \in 0..Pow2[p.depth] - 1 /\ Stores(data, at, f.format, p.depth, v)
  BY <1>1, <1>2
<1> HIDE DEF data, at, v
<1>5. /\ bytes_per_sample(f.format) = 1 => data[at] = v
      /\ bytes_per_sample(f.format) # 1 =>
           (Word(data, at) \div Pow2[IF f.format = "P010" THEN 16 - p.depth ELSE 0])
             % (SampleMask(p.depth) + 1) = v
  <2> DEFINE format == f.format
             d == p.depth
  <2>1. format \in PixelFormat /\ d \in 8..16
    BY <1>1
  <2>2. v \in 0..Pow2[d] - 1 /\ Stores(data, at, format, d, v)
    BY <1>4
  <2> HIDE DEF format, d
  <2>3. /\ bytes_per_sample(format) = 1 => data[at] = v
        /\ bytes_per_sample(format) # 1 =>
             (Word(data, at) \div Pow2[IF format = "P010" THEN 16 - d ELSE 0])
               % (SampleMask(d) + 1) = v
    BY <2>1, <2>2, StoredIsRead
  <2> QED
    BY <2>3 DEF format, d
<1>6. /\ bytes_per_sample(f.format) = 1 => data[at] = v
      /\ bytes_per_sample(f.format) # 1 =>
           (Word(data, at) \div Pow2[Shift(f)]) % (SampleMask(f.depth) + 1) = v
  <2>1. SampleMask(f.depth) = SampleMask(p.depth)
    BY <1>1
  <2> QED
    BY <1>3, <1>5, <2>1
<1> QED
  BY <1>6 DEF data, at, v

LEMMA LumaLifted ==
  ASSUME NEW f, NEW p, NEW shown \in SUBSET Components, "y" \in shown,
         PictureOK(p, shown), FrameReady(f, p, shown)
  PROVE  Luma(f) = Window(p, "y", p.crop.w, p.crop.h)
<1> DEFINE w == p.crop.w
           h == p.crop.h
           plane == f.planes[1]
           n == bytes_per_sample(f.format)
<1>1. /\ w \in Nat \ {0} /\ h \in Nat \ {0} /\ f.width = w /\ f.height = h
      /\ f.format \in PixelFormat
  BY DEF PictureOK, FrameReady
<1>2. n \in {1, 2} /\ plane.stride \in Nat /\ FramePlane(f, "y") = plane
  <2>1. Len(f.planes) = plane_count(f.format) /\ plane_count(f.format) \in {2, 3}
    BY <1>1, Formats DEF FrameReady, WholeFrame
  <2>2. 1 \in 1..Len(f.planes)
    BY <2>1
  <2> QED
    BY <1>1, <2>2, Formats DEF FrameReady, FramePlane
<1>3. ASSUME NEW i \in 1..w * h
      PROVE  /\ n = 1 => plane.data[At(plane, w, i - 1, 1)]
                           = Sample(p, "y", (i - 1) % w, (i - 1) \div w)
             /\ n # 1 => (Word(plane.data, At(plane, w, i - 1, 2)) \div Pow2[Shift(f)])
                            % (SampleMask(f.depth) + 1)
                           = Sample(p, "y", (i - 1) % w, (i - 1) \div w)
  <2> DEFINE c == (i - 1) % w
             j == (i - 1) \div w
  <2>1. /\ c \in 0..w - 1 /\ j \in 0..h - 1
        /\ At(plane, w, i - 1, 1) = 1 + plane.stride * j + c * 1
        /\ At(plane, w, i - 1, 2) = 1 + plane.stride * j + c * 2
    BY <1>1, <1>2, ReadPlace
  <2>2. c \in WindowCols(p, "y") /\ j \in WindowRows(p, "y")
    BY <2>1, WindowSizes
  <2> HIDE DEF c, j, plane, w, h
  <2>3. FrameByte(f, "y", c, j) = 1 + plane.stride * j + c * n
    BY <1>2 DEF FrameByte
  <2>4. /\ n = 1 => FrameByte(f, "y", c, j) = At(plane, w, i - 1, 1)
        /\ n # 1 => FrameByte(f, "y", c, j) = At(plane, w, i - 1, 2)
    BY <1>2, <2>1, <2>3
  <2>5. /\ n = 1 => plane.data[FrameByte(f, "y", c, j)] = Sample(p, "y", c, j)
        /\ n # 1 => (Word(plane.data, FrameByte(f, "y", c, j)) \div Pow2[Shift(f)])
                       % (SampleMask(f.depth) + 1) = Sample(p, "y", c, j)
    BY <1>2, <2>2, SampleRead
  <2> QED
    BY <2>4, <2>5 DEF c, j
<1> HIDE DEF plane, n, w, h
<1>4. CASE n = 1
  <2>1. Luma(f) = [i \in 1..w * h |-> plane.data[At(plane, w, i - 1, 1)]]
    BY <1>1, <1>4 DEF Luma, read_plane_8, n, plane
  <2> QED
    BY <1>3, <1>4, <2>1 DEF Window, w, h
<1>5. CASE n # 1
  <2>1. Luma(f) = [i \in 1..w * h |->
                     (Word(plane.data, At(plane, w, i - 1, 2)) \div Pow2[Shift(f)])
                       % (SampleMask(f.depth) + 1)]
    BY <1>1, <1>5 DEF Luma, read_plane_16, n, plane
  <2> QED
    BY <1>3, <1>5, <2>1 DEF Window, w, h
<1> QED
  BY <1>4, <1>5

(* Chroma comes from the pairs of the second plane or from a plane of its  *)
(* own.                                                                    *)
LEMMA ChromaPlace ==
  ASSUME NEW f, NEW p, NEW shown, PictureOK(p, shown), FrameReady(f, p, shown),
         NEW c \in {"cb", "cr"}, NEW i \in 1..DivCeil2(p.crop.w) * DivCeil2(p.crop.h)
  PROVE  LET cw == DivCeil2(p.crop.w)
             col == (i - 1) % cw
             row == (i - 1) \div cw
             n == bytes_per_sample(f.format)
             own == f.planes[IF c = "cb" THEN 2 ELSE 3]
         IN /\ col \in WindowCols(p, c) /\ row \in WindowRows(p, c)
            /\ plane_count(f.format) = 2 =>
                 /\ FramePlane(f, c) = f.planes[2]
                 /\ FrameByte(f, c, col, row)
                      = At(f.planes[2], cw, i - 1, 2 * n) + (IF c = "cb" THEN 0 ELSE n)
            /\ plane_count(f.format) = 3 =>
                 /\ FramePlane(f, c) = own
                 /\ FrameByte(f, c, col, row) = At(own, cw, i - 1, n)
<1> DEFINE cw == DivCeil2(p.crop.w)
           ch == DivCeil2(p.crop.h)
           col == (i - 1) % cw
           row == (i - 1) \div cw
           n == bytes_per_sample(f.format)
           own == f.planes[IF c = "cb" THEN 2 ELSE 3]
<1>1. /\ p.crop.w \in Nat \ {0} /\ p.crop.h \in Nat \ {0} /\ f.format \in PixelFormat
      /\ Len(f.planes) = plane_count(f.format)
      /\ \A k \in 1..Len(f.planes) : f.planes[k].stride \in Nat
  BY DEF PictureOK, FrameReady, WholeFrame
<1>2. /\ cw \in Nat \ {0} /\ ch \in Nat \ {0} /\ n \in {1, 2} /\ plane_count(f.format) \in {2, 3}
  BY <1>1, HalfUp, Formats
<1>3. i \in 1..cw * ch
  OBVIOUS
<1>4. col \in WindowCols(p, c) /\ row \in WindowRows(p, c) /\ col \in Nat /\ row \in Nat
  <2>1. col \in 0..cw - 1 /\ row \in 0..ch - 1
    BY <1>2, RowAndColumn
  <2>2. WindowCols(p, c) = 0..cw - 1 /\ WindowRows(p, c) = 0..ch - 1
    BY WindowSizes
  <2> HIDE DEF col, row
  <2> QED
    BY <1>2, <2>1, <2>2
<1>5. ASSUME plane_count(f.format) = 2
      PROVE  /\ FramePlane(f, c) = f.planes[2]
             /\ FrameByte(f, c, col, row)
                  = At(f.planes[2], cw, i - 1, 2 * n) + (IF c = "cb" THEN 0 ELSE n)
  <2> DEFINE plane == f.planes[2]
             m == 2 * n
  <2>1. plane.stride \in Nat /\ m \in {1, 2, 4}
    BY <1>1, <1>2, <1>5
  <2>2. FramePlane(f, c) = plane
    BY <1>5 DEF FramePlane
  <2> HIDE DEF plane
  <2>3. At(plane, cw, i - 1, m) = 1 + plane.stride * row + col * m
    <3>1. cw \in Nat \ {0} /\ ch \in Nat /\ i \in 1..cw * ch /\ m \in {1, 2, 4}
      BY <1>2, <1>3, <2>1
    <3> HIDE DEF m, cw, ch
    <3>2. /\ At(plane, cw, i - 1, 1) = 1 + plane.stride * row + col * 1
          /\ At(plane, cw, i - 1, 2) = 1 + plane.stride * row + col * 2
          /\ At(plane, cw, i - 1, 4) = 1 + plane.stride * row + col * 4
      BY <2>1, <3>1, ReadPlace
    <3> HIDE DEF row, col
    <3> QED
      BY <3>1, <3>2
  <2>4. FrameByte(f, c, col, row)
          = 1 + plane.stride * row + (col * m + (IF c = "cr" THEN n ELSE 0))
    <3> HIDE DEF col, row
    <3> QED
      BY <1>5, <2>2 DEF FrameByte
  <2>5. plane.stride * row \in Nat /\ col * m \in Nat /\ n \in Nat
    <3>1. \A a, b \in Nat : a * b \in Nat
      OBVIOUS
    <3>2. m \in Nat /\ n \in Nat
      BY <1>2, <2>1
    <3> HIDE DEF col, row, m
    <3> QED
      BY <1>4, <2>1, <3>1, <3>2
  <2>6. \A a, b, d \in Nat : 1 + a + (b + d) = 1 + a + b + d /\ 1 + a + (b + 0) = 1 + a + b + 0
    OBVIOUS
  <2> HIDE DEF col, row, m, n
  <2>7. CASE c = "cb"
    <3>1. FrameByte(f, c, col, row) = 1 + plane.stride * row + (col * m + 0)
      BY <2>4, <2>7
    <3>2. 1 + plane.stride * row + (col * m + 0) = 1 + plane.stride * row + col * m + 0
      BY <2>5, <2>6
    <3> QED
      BY <2>2, <2>3, <2>7, <3>1, <3>2 DEF plane, m
  <2>8. CASE c = "cr"
    <3>1. FrameByte(f, c, col, row) = 1 + plane.stride * row + (col * m + n)
      BY <2>4, <2>8
    <3>2. 1 + plane.stride * row + (col * m + n) = 1 + plane.stride * row + col * m + n
      BY <2>5, <2>6
    <3> QED
      BY <2>2, <2>3, <2>8, <3>1, <3>2 DEF plane, m
  <2> QED
    BY <2>7, <2>8
<1>6. ASSUME plane_count(f.format) = 3
      PROVE  FramePlane(f, c) = own /\ FrameByte(f, c, col, row) = At(own, cw, i - 1, n)
  <2>1. own.stride \in Nat
    BY <1>1, <1>6
  <2>2. FramePlane(f, c) = own
    BY <1>6 DEF FramePlane
  <2> HIDE DEF own
  <2>3. At(own, cw, i - 1, n) = 1 + own.stride * row + col * n
    <3>1. cw \in Nat \ {0} /\ ch \in Nat /\ i \in 1..cw * ch /\ n \in {1, 2, 4}
      BY <1>2, <1>3
    <3> HIDE DEF n, cw, ch
    <3>2. /\ At(own, cw, i - 1, 1) = 1 + own.stride * row + col * 1
          /\ At(own, cw, i - 1, 2) = 1 + own.stride * row + col * 2
          /\ At(own, cw, i - 1, 4) = 1 + own.stride * row + col * 4
      BY <2>1, <3>1, ReadPlace
    <3> HIDE DEF row, col
    <3> QED
      BY <3>1, <3>2
  <2>4. FrameByte(f, c, col, row) = 1 + own.stride * row + col * n
    <3> HIDE DEF col, row
    <3> QED
      BY <1>6, <2>2 DEF FrameByte
  <2> QED
    BY <2>2, <2>3, <2>4
<1> QED
  BY <1>4, <1>5, <1>6

LEMMA ChromaLifted ==
  ASSUME NEW f, NEW p, PictureOK(p, Components), FrameReady(f, p, Components)
  PROVE  \A c \in {"cb", "cr"} :
           Chroma(f)[c] = Window(p, c, DivCeil2(p.crop.w), DivCeil2(p.crop.h))
<1> SUFFICES ASSUME NEW c \in {"cb", "cr"}
             PROVE  Chroma(f)[c] = Window(p, c, DivCeil2(p.crop.w), DivCeil2(p.crop.h))
  OBVIOUS
<1> DEFINE cw == DivCeil2(p.crop.w)
           ch == DivCeil2(p.crop.h)
           n == bytes_per_sample(f.format)
           pairs == f.planes[2]
           own == f.planes[IF c = "cb" THEN 2 ELSE 3]
           second == IF c = "cb" THEN 0 ELSE n
           col(i) == (i - 1) % cw
           row(i) == (i - 1) \div cw
           Read(data, at) == IF n = 1 THEN data[at]
                             ELSE (Word(data, at) \div Pow2[Shift(f)]) % (SampleMask(f.depth) + 1)
<1>1. /\ f.format \in PixelFormat /\ DivCeil2(f.width) = cw /\ DivCeil2(f.height) = ch
      /\ c \in Components
  BY DEF FrameReady, Components
<1>2. ASSUME NEW i \in 1..cw * ch
      PROVE  /\ plane_count(f.format) = 2 =>
                  Read(pairs.data, At(pairs, cw, i - 1, 2 * n) + second)
                    = Sample(p, c, col(i), row(i))
             /\ plane_count(f.format) = 3 =>
                  Read(own.data, At(own, cw, i - 1, n)) = Sample(p, c, col(i), row(i))
  <2> DEFINE a == col(i)
             b == row(i)
  <2>1. /\ a \in WindowCols(p, c) /\ b \in WindowRows(p, c)
        /\ plane_count(f.format) = 2 =>
             /\ FramePlane(f, c) = pairs
             /\ FrameByte(f, c, a, b) = At(pairs, cw, i - 1, 2 * n) + second
        /\ plane_count(f.format) = 3 =>
             /\ FramePlane(f, c) = own
             /\ FrameByte(f, c, a, b) = At(own, cw, i - 1, n)
    BY ChromaPlace
  <2> HIDE DEF a, b, pairs, own, second, cw, ch
  <2>2. Read(FramePlane(f, c).data, FrameByte(f, c, a, b)) = Sample(p, c, a, b)
    BY <1>1, <2>1, SampleRead
  <2> HIDE DEF Read
  <2> QED
    BY <2>1, <2>2 DEF a, b
<1>3. Window(p, c, cw, ch) = [i \in 1..cw * ch |-> Sample(p, c, col(i), row(i))]
  BY DEF Window
<1>4. /\ f.format \in {"Nv12", "P010", "I420", "I010"}
      /\ plane_count(f.format) = 2 <=> f.format \in {"Nv12", "P010"}
      /\ plane_count(f.format) \in {2, 3}
      /\ n = 1 <=> f.format \in {"Nv12", "I420"}
      /\ n \in {1, 2}
  BY <1>1, Formats DEF PixelFormat
<1>5. CASE f.format = "Nv12"
  <2>1. n = 1 /\ plane_count(f.format) = 2
    BY <1>4, <1>5
  <2>2. Chroma(f)[c] = [i \in 1..cw * ch |-> pairs.data[At(pairs, cw, i - 1, 2) + second]]
    BY <1>1, <1>5, <2>1 DEF Chroma, deinterleave_8
  <2>3. ASSUME NEW i \in 1..cw * ch
        PROVE  pairs.data[At(pairs, cw, i - 1, 2) + second] = Sample(p, c, col(i), row(i))
    <3>1. 2 * n = 2
      BY <2>1
    <3> HIDE DEF pairs, cw, ch, second, col, row
    <3> QED
      BY <1>2, <2>1, <3>1
  <2> HIDE DEF pairs, cw, ch, second, col, row
  <2>4. Chroma(f)[c] = Window(p, c, cw, ch)
    BY <1>3, <2>2, <2>3
  <2> QED
    BY <2>4 DEF cw, ch
<1>6. CASE f.format = "P010"
  <2>1. n = 2 /\ plane_count(f.format) = 2
    BY <1>4, <1>6
  <2>2. Chroma(f)[c] = [i \in 1..cw * ch |->
                          (Word(pairs.data, At(pairs, cw, i - 1, 4) + second)
                             \div Pow2[Shift(f)]) % (SampleMask(f.depth) + 1)]
    BY <1>1, <1>6, <2>1 DEF Chroma, deinterleave_16
  <2>3. ASSUME NEW i \in 1..cw * ch
        PROVE  (Word(pairs.data, At(pairs, cw, i - 1, 4) + second)
                  \div Pow2[Shift(f)]) % (SampleMask(f.depth) + 1) = Sample(p, c, col(i), row(i))
    <3>1. 2 * n = 4
      BY <2>1
    <3> HIDE DEF pairs, cw, ch, second, col, row
    <3> QED
      BY <1>2, <2>1, <3>1
  <2> HIDE DEF pairs, cw, ch, second, col, row
  <2>4. Chroma(f)[c] = Window(p, c, cw, ch)
    BY <1>3, <2>2, <2>3
  <2> QED
    BY <2>4 DEF cw, ch
<1>7. CASE f.format = "I420"
  <2>1. n = 1 /\ plane_count(f.format) = 3
    BY <1>4, <1>7
  <2>2. Chroma(f)[c] = [i \in 1..cw * ch |-> own.data[At(own, cw, i - 1, 1)]]
    BY <1>1, <1>7 DEF Chroma, read_plane_8
  <2>3. ASSUME NEW i \in 1..cw * ch
        PROVE  own.data[At(own, cw, i - 1, 1)] = Sample(p, c, col(i), row(i))
    <3> HIDE DEF own, cw, ch, col, row
    <3> QED
      BY <1>2, <2>1
  <2> HIDE DEF own, cw, ch, col, row
  <2>4. Chroma(f)[c] = Window(p, c, cw, ch)
    BY <1>3, <2>2, <2>3
  <2> QED
    BY <2>4 DEF cw, ch
<1>8. CASE f.format = "I010"
  <2>1. n = 2 /\ plane_count(f.format) = 3
    BY <1>4, <1>8
  <2>2. Chroma(f)[c] = [i \in 1..cw * ch |->
                          (Word(own.data, At(own, cw, i - 1, 2)) \div Pow2[Shift(f)])
                            % (SampleMask(f.depth) + 1)]
    BY <1>1, <1>8 DEF Chroma, read_plane_16
  <2>3. ASSUME NEW i \in 1..cw * ch
        PROVE  (Word(own.data, At(own, cw, i - 1, 2)) \div Pow2[Shift(f)])
                 % (SampleMask(f.depth) + 1) = Sample(p, c, col(i), row(i))
    <3> HIDE DEF own, cw, ch, col, row
    <3> QED
      BY <1>2, <2>1
  <2> HIDE DEF own, cw, ch, col, row
  <2>4. Chroma(f)[c] = Window(p, c, cw, ch)
    BY <1>3, <2>2, <2>3
  <2> QED
    BY <2>4 DEF cw, ch
<1> QED
  BY <1>4, <1>5, <1>6, <1>7, <1>8

-----------------------------------------------------------------------------
(* The steps                                                               *)

(* What the assumptions say of the coded picture the pipeline is at.       *)
LEMMA PictureGiven ==
  ASSUME TypeOK, pc \in {"call", "read", "lift"}
  PROVE  /\ PictureOK(Picture, Shown(file))
         /\ \A image \in Surfaces(Picture) :
              Numbers(image, Picture) /\ ImageOK(image, Picture, Shown(file))
         /\ \A f \in Frames(Picture) :
              FrameNumbers(f, Picture) /\ FrameOK(f, Picture, Shown(file))
<1>1. file \in Files /\ next \in 1..Len(file.pictures)
  <2>1. Len(file.pictures) \in Nat
    BY SurfaceAssumption DEF TypeOK
  <2> QED
    BY <2>1 DEF TypeOK
<1>2. /\ PictureOK(Picture, Shown(file))
      /\ \A image \in Surfaces(Picture) : ImageOK(image, Picture, Shown(file))
      /\ \A f \in Frames(Picture) : FrameOK(f, Picture, Shown(file))
  BY <1>1, SurfaceAssumption DEF Picture
<1>3. ASSUME NEW image \in Surfaces(Picture) PROVE Numbers(image, Picture)
  <2>1. 1 \in 1..2 /\ 2 \in 1..2
    OBVIOUS
  <2> QED
    BY <1>2, <2>1 DEF Numbers, ImageOK, PictureOK
<1>4. ASSUME NEW f \in Frames(Picture) PROVE FrameNumbers(f, Picture)
  BY <1>2 DEF FrameNumbers, FrameOK, PictureOK
<1> QED
  BY <1>2, <1>3, <1>4

LEMMA ShownComponents ==
  Shown(file) \in SUBSET Components /\ "y" \in Shown(file)
BY DEF Shown, Components

(* What the libva backend answers: a frame ready to lift, or an error.     *)
LEMMA VaapiAnswers ==
  ASSUME TypeOK, pc = "read", NEW image \in Surfaces(Picture)
  PROVE  LET answer == CopyImage(image, Picture.crop, Picture.depth)
         IN \/ image.sound /\ answer.ok = TRUE /\ FrameReady(answer, Picture, Shown(file))
            \/ ~image.sound /\ answer.ok = FALSE /\ answer.reason \in FrameErrors
<1> DEFINE p == Picture
           answer == CopyImage(image, p.crop, p.depth)
<1>1. /\ PictureOK(p, Shown(file)) /\ Numbers(image, p)
      /\ image.sound \in BOOLEAN /\ (image.sound <=> WholeImage(image, p))
      /\ image.sound => ImageShows(image, p, Shown(file))
  BY PictureGiven DEF ImageOK
<1>2. \/ WholeImage(image, p) /\ answer = CopiedFrame(image, p)
      \/ ~WholeImage(image, p) /\ \E reason \in FrameErrors : answer = Fail(reason)
  BY <1>1, CopyImageAnswers
<1> HIDE DEF p, answer
<1>3. CASE WholeImage(image, p)
  <2> DEFINE f == CopiedFrame(image, p)
  <2>1. answer = f
    BY <1>2, <1>3
  <2>2. /\ f.ok = TRUE /\ f.format = ImageFormat(p) /\ f.width = p.crop.w
        /\ f.height = p.crop.h /\ f.depth = p.depth
        /\ f.planes = <<CopiedLuma(image, p), CopiedChroma(image, p)>>
    BY DEF CopiedFrame
  <2>3. f.format \in PixelFormat
    BY <2>2, ImageFormats DEF PixelFormat
  <2>4. \A k \in 1..Len(f.planes) : f.planes[k].stride \in Nat
    <3>1. CopiedLuma(image, p).stride \in Nat /\ CopiedChroma(image, p).stride \in Nat
      BY <1>1, <1>3, CopiedPlanes, WholeImageRows, CopyArguments
    <3>2. Len(f.planes) = 2 /\ \A k \in 1..2 : k = 1 \/ k = 2
      BY <2>2
    <3>3. f.planes[1] = CopiedLuma(image, p) /\ f.planes[2] = CopiedChroma(image, p)
      BY <2>2
    <3> HIDE DEF f
    <3> QED
      BY <3>1, <3>2, <3>3
  <2>5. WholeFrame(f, p) /\ FrameShows(f, p, Shown(file))
    BY <1>1, <1>3, CopiedFrameWhole, CopiedFrameShows, ShownComponents
  <2> HIDE DEF f
  <2>6. FrameReady(f, p, Shown(file))
    BY <2>2, <2>3, <2>4, <2>5 DEF FrameReady
  <2> QED
    BY <1>1, <1>3, <2>1, <2>2, <2>6 DEF p, answer
<1>4. CASE ~WholeImage(image, p)
  <2>1. answer.ok = FALSE /\ answer.reason \in FrameErrors
    BY <1>2, <1>4 DEF Fail
  <2> QED
    BY <1>1, <1>4, <2>1 DEF p, answer
<1> QED
  BY <1>3, <1>4

LEMMA OtherAnswers ==
  ASSUME TypeOK, pc = "read", NEW f \in Frames(Picture)
  PROVE  LET answer == NewFrame(f.format, Picture.crop.w, Picture.crop.h, Picture.depth, f.planes)
         IN \/ f.sound /\ answer.ok = TRUE /\ FrameReady(answer, Picture, Shown(file))
            \/ ~f.sound /\ answer.ok = FALSE /\ answer.reason \in FrameErrors
<1> DEFINE p == Picture
           answer == NewFrame(f.format, p.crop.w, p.crop.h, p.depth, f.planes)
           built == [ok |-> TRUE, format |-> f.format, width |-> p.crop.w,
                     height |-> p.crop.h, depth |-> p.depth, planes |-> f.planes]
<1>1. /\ FrameNumbers(f, p) /\ f.sound \in BOOLEAN /\ (f.sound <=> WholeFrame(f, p))
      /\ f.sound => FrameShows(f, p, Shown(file))
  BY PictureGiven DEF FrameOK
<1>2. \/ WholeFrame(f, p) /\ answer = built
      \/ ~WholeFrame(f, p) /\ \E reason \in FrameErrors : answer = Fail(reason)
  BY <1>1, NewFrameSound
<1> HIDE DEF p, answer
<1>3. CASE WholeFrame(f, p)
  <2>1. answer = built
    BY <1>2, <1>3
  <2>2. /\ built.ok = TRUE /\ built.format = f.format /\ built.width = p.crop.w
        /\ built.height = p.crop.h /\ built.depth = p.depth /\ built.planes = f.planes
    OBVIOUS
  <2> HIDE DEF built
  <2>3. WholeFrame(built, p) <=> WholeFrame(f, p)
    BY <2>2 DEF WholeFrame, RowBytes
  <2>4. FrameShows(built, p, Shown(file)) <=> FrameShows(f, p, Shown(file))
    <3>1. \A c, i, j : /\ FramePlane(built, c) = FramePlane(f, c)
                       /\ FrameByte(built, c, i, j) = FrameByte(f, c, i, j)
      BY <2>2 DEF FramePlane, FrameByte
    <3> QED
      BY <2>2, <3>1 DEF FrameShows
  <2>5. f.format \in PixelFormat /\ \A k \in 1..Len(f.planes) : f.planes[k].stride \in Nat
    BY <1>1 DEF FrameNumbers
  <2>6. FrameReady(built, p, Shown(file))
    BY <1>1, <1>3, <2>2, <2>3, <2>4, <2>5 DEF FrameReady
  <2> QED
    BY <1>1, <1>3, <2>1, <2>2, <2>6 DEF p, answer
<1>4. CASE ~WholeFrame(f, p)
  <2>1. answer.ok = FALSE /\ answer.reason \in FrameErrors
    BY <1>2, <1>4 DEF Fail
  <2> QED
    BY <1>1, <1>4, <2>1 DEF p, answer
<1> QED
  BY <1>3, <1>4

-----------------------------------------------------------------------------
(* The inductive invariant                                                 *)

LEMMA HevcUnits ==
  ASSUME TypeOK, next <= Len(file.pictures), file.codec = "hevc"
  PROVE  BackendUnits(Record, Picture.payload)
           = IF file.config.length_size_minus_one # 2 /\ Picture.rest = <<>>
             THEN [ok |-> TRUE, units |-> file.units \o Picture.units] ELSE Bad
<1> DEFINE c == file.config
           p == Picture
           m == c.length_size_minus_one
           hvcc == parse_hvcc(hvcc_bytes(c))
           nals == split_length_prefixed(p.payload, m + 1)
<1>1. /\ HevcConfigOK(c)
      /\ file.units = FlattenSeq([i \in DOMAIN c.arrays |-> c.arrays[i].nal_units])
      /\ NalsOK(m + 1, p.payload, p.chunks, p.units, p.rest)
  <2>1. file \in Files /\ next \in 1..Len(file.pictures)
    BY DEF TypeOK
  <2> QED
    BY <2>1, UnitsAssumption DEF Picture
<1>2. Record = hvcc_bytes(c)
  BY DEF Record
<1>3. hvcc = IF m = 2 THEN Bad
             ELSE [ok |-> TRUE, nal_length_size |-> m + 1, nal_units |-> file.units]
  BY <1>1, HvccRead
<1>4. nals = IF p.rest = <<>> THEN [ok |-> TRUE, pos |-> Len(p.payload), units |-> p.units] ELSE Bad
  <2> DEFINE n == m + 1
  <2>1. m \in 0..3
    BY <1>1 DEF HevcConfigOK
  <2> HIDE DEF m
  <2>2. n \in Nat
    BY <2>1
  <2> HIDE DEF n, c, p
  <2>3. NalsOK(n, p.payload, p.chunks, p.units, p.rest)
    BY <1>1 DEF n
  <2>4. split_length_prefixed(p.payload, n)
          = IF p.rest = <<>> THEN [ok |-> TRUE, pos |-> Len(p.payload), units |-> p.units] ELSE Bad
    BY <2>2, <2>3, NalsRead
  <2> QED
    BY <2>4 DEF n
<1>5. Bad.ok = FALSE
  BY DEF Bad
<1> HIDE DEF c, hvcc
<1>6. BackendUnits(Record, p.payload)
        = IF ~hvcc.ok THEN Bad
          ELSE LET ns == split_length_prefixed(p.payload, hvcc.nal_length_size)
               IN IF ~ns.ok THEN Bad ELSE [ok |-> TRUE, units |-> hvcc.nal_units \o ns.units]
  BY <1>2 DEF BackendUnits, hvcc
<1> HIDE DEF p, m, nals
<1>7. CASE m = 2
  BY <1>3, <1>5, <1>6, <1>7 DEF p, m, c
<1>8. CASE m # 2
  <2>1. hvcc.ok = TRUE /\ hvcc.nal_length_size = m + 1 /\ hvcc.nal_units = file.units
    BY <1>3, <1>8
  <2>2. BackendUnits(Record, p.payload)
          = IF ~nals.ok THEN Bad ELSE [ok |-> TRUE, units |-> file.units \o nals.units]
    BY <1>6, <2>1 DEF nals
  <2>3. BackendUnits(Record, p.payload)
          = IF p.rest = <<>> THEN [ok |-> TRUE, units |-> file.units \o p.units] ELSE Bad
    BY <1>4, <1>5, <2>2
  <2> QED
    BY <1>8, <2>3 DEF p, m, c
<1> QED
  BY <1>7, <1>8

LEMMA Av1Units ==
  ASSUME TypeOK, next <= Len(file.pictures), file.codec # "hevc"
  PROVE  BackendUnits(Record, Picture.payload)
           = IF file.config.seq_profile = 0 /\ file.rest = <<>> /\ Picture.rest = <<>>
             THEN [ok |-> TRUE, units |-> file.units \o Picture.units] ELSE Bad
<1> DEFINE c == file.config
           p == Picture
           s == c.seq_profile
           o == c.config_obus
           av1c == parse_av1c(av1c_bytes(c))
           config == split_obus(o)
           obus == split_obus(p.payload)
<1>1. /\ Av1ConfigOK(c) /\ ObusOK(o, file.chunks, file.units, file.rest)
      /\ ObusOK(p.payload, p.chunks, p.units, p.rest)
  <2>1. file \in Files /\ next \in 1..Len(file.pictures)
    BY DEF TypeOK
  <2> QED
    BY <2>1, UnitsAssumption DEF Picture
<1>2. Record = av1c_bytes(c)
  BY DEF Record
<1> HIDE DEF c, p
<1>3. o \in Seq(Nat)
      /\ config = IF file.rest = <<>> THEN [ok |-> TRUE, pos |-> Len(o), obus |-> file.units] ELSE Bad
  BY <1>1, ObusRead
<1>4. obus = IF p.rest = <<>> THEN [ok |-> TRUE, pos |-> Len(p.payload), obus |-> p.units] ELSE Bad
  BY <1>1, ObusRead
<1>5. av1c = [ok |-> TRUE, seq_profile |-> s, config_obus |-> o]
  BY <1>1, <1>3, Av1cRead
<1>6. Bad.ok = FALSE
  BY DEF Bad
<1> HIDE DEF av1c
<1>7. BackendUnits(Record, p.payload)
        = IF ~av1c.ok \/ av1c.seq_profile # 0 THEN Bad
          ELSE LET cs == split_obus(av1c.config_obus)
                   os == split_obus(p.payload)
               IN IF ~cs.ok \/ ~os.ok THEN Bad ELSE [ok |-> TRUE, units |-> cs.obus \o os.obus]
  BY <1>2 DEF BackendUnits, av1c
<1> HIDE DEF s, o
<1>8. av1c.ok = TRUE /\ av1c.seq_profile = s /\ av1c.config_obus = o
  BY <1>5
<1>9. BackendUnits(Record, p.payload)
        = IF s # 0 \/ ~config.ok \/ ~obus.ok THEN Bad
          ELSE [ok |-> TRUE, units |-> config.obus \o obus.obus]
  BY <1>7, <1>8
<1> HIDE DEF config, obus
<1>10. CASE file.rest = <<>> /\ p.rest = <<>>
  <2>1. config.ok = TRUE /\ config.obus = file.units /\ obus.ok = TRUE /\ obus.obus = p.units
    BY <1>3, <1>4, <1>10
  <2> QED
    BY <1>9, <1>10, <2>1 DEF p, s, c
<1>11. CASE ~(file.rest = <<>> /\ p.rest = <<>>)
  <2>1. config.ok = FALSE \/ obus.ok = FALSE
    BY <1>3, <1>4, <1>6, <1>11
  <2> QED
    BY <1>9, <1>11, <2>1 DEF p, s, c
<1> QED
  BY <1>10, <1>11

(* The backend finds the units of a whole item and refuses any other.      *)
LEMMA BackendAnswers ==
  ASSUME TypeOK, next <= Len(file.pictures), file.codec = "hevc" => HvccFits(file.config)
  PROVE  BackendUnits(Record, Picture.payload)
           = IF Picture.whole THEN [ok |-> TRUE, units |-> file.units \o Picture.units] ELSE Bad
<1>1. Picture.whole = (RecordWhole(file) /\ Picture.rest = <<>>)
  <2>1. file \in Files /\ next \in 1..Len(file.pictures)
    BY DEF TypeOK
  <2> QED
    BY <2>1, UnitsAssumption DEF Picture
<1>2. CASE file.codec = "hevc"
  BY <1>1, <1>2, HevcUnits DEF RecordWhole
<1>3. CASE file.codec # "hevc"
  BY <1>1, <1>3, Av1Units DEF RecordWhole
<1> QED
  BY <1>2, <1>3

LEMMA OnlyFittingIsWhole ==
  ASSUME TypeOK, next <= Len(file.pictures), Picture.whole, file.codec = "hevc"
  PROVE  HvccFits(file.config)
<1>1. file \in Files /\ next \in 1..Len(file.pictures)
  BY DEF TypeOK
<1>2. Picture.whole = (RecordWhole(file) /\ Picture.rest = <<>>)
  BY <1>1, UnitsAssumption DEF Picture
<1> QED
  BY <1>2 DEF RecordWhole

LEMMA PictureCount == TypeOK => Len(file.pictures) \in Nat
BY SurfaceAssumption DEF TypeOK

LEMMA InitInv == Init => IInv
<1> SUFFICES ASSUME Init PROVE IInv
  OBVIOUS
<1>1. file \in Files /\ next = 1 /\ pc = "open" /\ planar = None /\ failed = None /\ last_error = None
  BY DEF Init
<1>2. Len(file.pictures) \in Nat
  BY <1>1, SurfaceAssumption
<1>3. next \in 1..Len(file.pictures) + 1
  BY <1>1, <1>2
<1> QED
  BY <1>1, <1>3 DEF IInv, TypeOK, ErrorInv, FrameInv, SeenInv, FailureNamed, LiftedExact

(* What the pipeline has been given stays what it was.                     *)
LEMMA PlanarKept ==
  ASSUME LiftedExact, UNCHANGED <<file, planar>>
  PROVE  LiftedExact'
BY DEF LiftedExact

(* The error the caller is told, when the call that failed is recorded and *)
(* last_error is set by a failure of the decoder only.                     *)
LEMMA ErrorTold ==
  ASSUME failed \in {None, "adapter", "hw", "lift"},
         IF failed = "hw" THEN last_error \in HwErrors ELSE last_error = None,
         NEW source, source = IF failed = None THEN "pipeline" ELSE failed
  PROVE  into_raw_error(source) =
           IF source = "hw"
           THEN IF last_error = "unavailable" THEN [kind |-> "HwDecoderUnavailable"]
                ELSE [kind |-> "ImageDecode", from |-> last_error]
           ELSE [kind |-> "ImageDecode", from |-> source]
<1>1. None \notin HwErrors /\ None \notin Failures /\ "unavailable" \in HwErrors
  BY NoneAssumption DEF HwErrors
<1>2. CASE failed = "hw"
  <2>1. source = "hw" /\ last_error # None
    BY <1>1, <1>2 DEF Failures
  <2>2. CASE last_error = "unavailable"
    BY <2>1, <2>2 DEF into_raw_error
  <2>3. CASE last_error # "unavailable"
    BY <2>1, <2>3 DEF into_raw_error
  <2> QED
    BY <2>2, <2>3
<1>3. CASE failed # "hw"
  <2>1. last_error = None /\ None # "unavailable" /\ source # "hw"
    BY <1>1, <1>3 DEF Failures
  <2> QED
    BY <2>1 DEF into_raw_error
<1> QED
  BY <1>2, <1>3

(* A step that leaves the item, the pipeline's place and its samples as    *)
(* they are, does not end the call and goes neither to the decoder nor to  *)
(* the lift, keeps what the invariant says beyond the errors.              *)
LEMMA CallKept ==
  ASSUME IInv, UNCHANGED <<file, next, planar>>, pc' \in {"pipeline", "read"},
         pc' = "read" => /\ next <= Len(file.pictures)
                         /\ Picture.whole /\ seen' = file.units \o Picture.units,
         ErrorInv'
  PROVE  IInv'
<1>1. TypeOK'
  BY DEF IInv, TypeOK, ErrorInv, Failures
<1>2. FrameInv' /\ SeenInv' /\ FailureNamed'
  BY DEF FrameInv, SeenInv, Picture, FailureNamed
<1>3. LiftedExact'
  BY PlanarKept DEF IInv
<1> QED
  BY <1>1, <1>2, <1>3 DEF IInv

LEMMA NoDecoderInv == IInv /\ NoDecoder => IInv'
<1> SUFFICES ASSUME IInv, NoDecoder PROVE IInv'
  OBVIOUS
<1>1. /\ failed = None /\ failed' = None /\ pc' = "done" /\ last_error' = last_error
      /\ result' = [kind |-> "HwDecoderUnavailable"] /\ UNCHANGED <<file, next, planar>>
  BY DEF NoDecoder, IInv, ErrorInv
<1>2. None # "hw"
  BY NoneAssumption DEF Failures
<1>3. TypeOK' /\ ErrorInv' /\ FrameInv' /\ SeenInv'
  BY <1>1 DEF IInv, TypeOK, ErrorInv, FrameInv, SeenInv
<1>4. FailureNamed'
  BY <1>1, <1>2 DEF FailureNamed
<1>5. LiftedExact'
  BY <1>1, PlanarKept DEF IInv
<1> QED
  BY <1>3, <1>4, <1>5 DEF IInv

LEMMA NewAdapterInv == IInv /\ NewAdapter => IInv'
<1> SUFFICES ASSUME IInv, NewAdapter PROVE IInv'
  OBVIOUS
<1>1. /\ failed' = None /\ last_error' = None /\ pc' = "pipeline"
      /\ UNCHANGED <<file, next, planar>>
  BY DEF NewAdapter, IInv, ErrorInv
<1>2. None # "hw"
  BY NoneAssumption DEF Failures
<1>3. ErrorInv'
  BY <1>1, <1>2 DEF ErrorInv
<1> QED
  BY <1>1, <1>3, CallKept

LEMMA CallAdapterInv == IInv /\ CallAdapter => IInv'
<1> SUFFICES ASSUME IInv, CallAdapter PROVE IInv'
  OBVIOUS
<1>1. /\ pc = "pipeline" /\ failed = None /\ pc' = "call"
      /\ next' \in 1..Len(file.pictures) /\ Len(file.pictures) \in Nat
      /\ UNCHANGED <<file, last_error, frame, planar, failed>>
  BY PictureCount DEF CallAdapter, IInv
<1>2. None # "hw"
  BY NoneAssumption DEF Failures
<1>3. last_error = None
  BY <1>1, <1>2 DEF IInv, ErrorInv
<1>4. TypeOK' /\ ErrorInv' /\ FrameInv' /\ SeenInv' /\ FailureNamed'
  BY <1>1, <1>3 DEF IInv, TypeOK, ErrorInv, FrameInv, SeenInv, FailureNamed
<1>5. LiftedExact'
  BY <1>1, PlanarKept DEF IInv
<1> QED
  BY <1>4, <1>5 DEF IInv

LEMMA PipelineFailsInv == IInv /\ PipelineFails => IInv'
<1> SUFFICES ASSUME IInv, PipelineFails PROVE IInv'
  OBVIOUS
<1> DEFINE source == IF failed = None THEN "pipeline" ELSE failed
<1>1. /\ pc = "pipeline" /\ failed' = source /\ pc' = "done"
      /\ result' = into_raw_error(source)
      /\ UNCHANGED <<file, next, last_error, frame, planar>>
  BY DEF PipelineFails, Ends, into_raw_error
<1>2. /\ failed \in {None, "adapter", "hw", "lift"}
      /\ IF failed = "hw" THEN last_error \in HwErrors ELSE last_error = None
  BY <1>1 DEF IInv, ErrorInv
<1>3. into_raw_error(source) =
        IF source = "hw"
        THEN IF last_error = "unavailable" THEN [kind |-> "HwDecoderUnavailable"]
             ELSE [kind |-> "ImageDecode", from |-> last_error]
        ELSE [kind |-> "ImageDecode", from |-> source]
  BY <1>2, ErrorTold
<1>4. source # None
  BY NoneAssumption DEF Failures
<1>5. failed' \in Failures
  BY <1>1, <1>2 DEF source, Failures
<1> HIDE DEF source
<1>6. TypeOK' /\ ErrorInv' /\ FrameInv' /\ SeenInv'
  BY <1>1, <1>5 DEF IInv, TypeOK, ErrorInv, FrameInv, SeenInv
<1>7. FailureNamed'
  BY <1>1, <1>3, <1>4 DEF FailureNamed
<1>8. LiftedExact'
  BY <1>1, PlanarKept DEF IInv
<1> QED
  BY <1>6, <1>7, <1>8 DEF IInv

LEMMA PipelineDoneInv == IInv /\ PipelineDone => IInv'
<1> SUFFICES ASSUME IInv, PipelineDone PROVE IInv'
  OBVIOUS
<1>1. /\ result' = [kind |-> "RgbImage"] /\ pc' = "done"
      /\ UNCHANGED <<file, next, planar, failed, last_error>>
  BY DEF PipelineDone
<1>2. TypeOK' /\ ErrorInv' /\ FrameInv' /\ SeenInv' /\ FailureNamed'
  BY <1>1 DEF IInv, TypeOK, ErrorInv, FrameInv, SeenInv, FailureNamed
<1>3. LiftedExact'
  BY <1>1, PlanarKept DEF IInv
<1> QED
  BY <1>2, <1>3 DEF IInv

LEMMA RecordDoesNotFitInv == IInv /\ RecordDoesNotFit => IInv'
<1> SUFFICES ASSUME IInv, RecordDoesNotFit PROVE IInv'
  OBVIOUS
<1>1. /\ pc = "call" /\ failed' = "adapter" /\ pc' = "pipeline"
      /\ UNCHANGED <<file, next, last_error, planar>>
  BY DEF RecordDoesNotFit, CallFails
<1>2. ErrorInv'
  BY <1>1 DEF IInv, ErrorInv
<1> QED
  BY <1>1, <1>2, CallKept

LEMMA BackendParsesInv == IInv /\ BackendParses => IInv'
<1> SUFFICES ASSUME IInv, BackendParses PROVE IInv'
  OBVIOUS
<1> DEFINE parsed == BackendUnits(Record, Picture.payload)
<1>1. /\ pc = "call" /\ UNCHANGED <<file, next, planar>>
      /\ file.codec = "hevc" => HvccFits(file.config)
      /\ IF parsed.ok
         THEN seen' = parsed.units /\ pc' = "read" /\ UNCHANGED <<last_error, failed>>
         ELSE last_error' = "decode" /\ failed' = "hw" /\ pc' = "pipeline"
  BY DEF BackendParses, CallFails
<1>2. TypeOK /\ next <= Len(file.pictures)
  BY <1>1 DEF IInv, TypeOK
<1>3. parsed = IF Picture.whole THEN [ok |-> TRUE, units |-> file.units \o Picture.units] ELSE Bad
  BY <1>1, <1>2, BackendAnswers
<1>4. Bad.ok = FALSE
  BY DEF Bad
<1> HIDE DEF parsed
<1>5. CASE Picture.whole
  <2>1. seen' = file.units \o Picture.units /\ pc' = "read" /\ UNCHANGED <<last_error, failed>>
    BY <1>1, <1>3, <1>5
  <2>2. ErrorInv'
    BY <1>1, <2>1 DEF IInv, ErrorInv
  <2> QED
    BY <1>1, <1>2, <1>5, <2>1, <2>2, CallKept
<1>6. CASE ~Picture.whole
  <2>1. last_error' = "decode" /\ failed' = "hw" /\ pc' = "pipeline"
    BY <1>1, <1>3, <1>4, <1>6
  <2>2. ErrorInv'
    BY <2>1 DEF ErrorInv, HwErrors
  <2> QED
    BY <1>1, <2>1, <2>2, CallKept
<1> QED
  BY <1>5, <1>6

LEMMA HwFailsInv == IInv /\ HwFails => IInv'
<1> SUFFICES ASSUME IInv, HwFails PROVE IInv'
  OBVIOUS
<1>1. /\ last_error' \in {"unavailable", "decode", "invalid"} /\ failed' = "hw"
      /\ pc' = "pipeline" /\ UNCHANGED <<file, next, planar>>
  BY DEF HwFails, CallFails
<1>2. ErrorInv'
  BY <1>1 DEF ErrorInv, HwErrors
<1> QED
  BY <1>1, <1>2, CallKept

(* A frame is kept when it is ready to lift, an error recorded when not.   *)
LEMMA ReturnedInv ==
  ASSUME IInv, pc = "read", NEW answer, Returned(answer), UNCHANGED <<file, next, planar>>,
         \/ answer.ok = TRUE /\ FrameReady(answer, Picture, Shown(file))
         \/ answer.ok = FALSE /\ answer.reason \in FrameErrors
  PROVE  IInv'
<1>1. CASE answer.ok = TRUE
  <2>1. frame' = answer /\ pc' = "lift" /\ UNCHANGED <<last_error, failed>>
    BY <1>1 DEF Returned
  <2>2. TypeOK' /\ ErrorInv' /\ FailureNamed'
    BY <2>1 DEF IInv, TypeOK, ErrorInv, FailureNamed
  <2>3. FrameInv' /\ SeenInv'
    BY <1>1, <2>1 DEF FrameInv, SeenInv, Picture
  <2>4. LiftedExact'
    BY PlanarKept DEF IInv
  <2> QED
    BY <2>2, <2>3, <2>4 DEF IInv
<1>2. CASE answer.ok = FALSE
  <2>1. last_error' = answer.reason /\ failed' = "hw" /\ pc' = "pipeline"
    BY <1>2 DEF Returned, CallFails
  <2>2. ErrorInv'
    BY <1>2, <2>1 DEF ErrorInv, HwErrors
  <2> QED
    BY <2>1, <2>2, CallKept
<1> QED
  BY <1>1, <1>2

LEMMA VaapiReturnsInv == IInv /\ VaapiReturns => IInv'
<1> SUFFICES ASSUME IInv, VaapiReturns PROVE IInv'
  OBVIOUS
<1>1. PICK image \in Surfaces(Picture) :
        Returned(CopyImage(image, Picture.crop, Picture.depth))
  BY DEF VaapiReturns
<1>2. pc = "read" /\ UNCHANGED <<file, next, planar>> /\ TypeOK
  BY DEF VaapiReturns, IInv
<1> QED
  BY <1>1, <1>2, VaapiAnswers, ReturnedInv

LEMMA OtherBackendReturnsInv == IInv /\ OtherBackendReturns => IInv'
<1> SUFFICES ASSUME IInv, OtherBackendReturns PROVE IInv'
  OBVIOUS
<1>1. PICK f \in Frames(Picture) :
        Returned(NewFrame(f.format, Picture.crop.w, Picture.crop.h, Picture.depth, f.planes))
  BY DEF OtherBackendReturns
<1>2. pc = "read" /\ UNCHANGED <<file, next, planar>> /\ TypeOK
  BY DEF OtherBackendReturns, IInv
<1> QED
  BY <1>1, <1>2, OtherAnswers, ReturnedInv

(* What a lift gives for a frame that shows a picture.                     *)
LEMMA LiftedPlanes ==
  ASSUME NEW f, NEW p, PictureOK(p, Shown(file)), FrameReady(f, p, Shown(file)),
         NEW lifted, lifted.ok,
         lifted = IF file.codec = "hevc" THEN hw_frame_to_planar(f, file.chroma)
                  ELSE hw_frame_to_decoded(f, file.chroma)
  PROVE  ShowsWindow(lifted, p, file.chroma)
<1>1. Luma(f) = Window(p, "y", p.crop.w, p.crop.h) /\ f.depth = p.depth
  BY LumaLifted, ShownComponents DEF FrameReady
<1>2. CASE file.chroma = "Monochrome"
  <2>1. lifted = Planar(f, "Monochrome", NoChroma)
    BY <1>2 DEF hw_frame_to_planar, hw_frame_to_decoded
  <2> QED
    BY <1>1, <1>2, <2>1 DEF Planar, NoChroma, ShowsWindow
<1>3. CASE file.chroma # "Monochrome"
  <2>1. lifted = Planar(f, "Yuv420", Chroma(f))
    <3>1. Fail("4:2:0 surface").ok = FALSE
      BY DEF Fail
    <3> QED
      BY <1>3, <3>1 DEF hw_frame_to_planar, hw_frame_to_decoded
  <2>2. Shown(file) = Components
    BY <1>3 DEF Shown
  <2>3. \A c \in {"cb", "cr"} :
          Chroma(f)[c] = Window(p, c, DivCeil2(p.crop.w), DivCeil2(p.crop.h))
    BY <2>2, ChromaLifted
  <2> DEFINE chroma == Chroma(f)
             y == Luma(f)
  <2>4. lifted = [ok |-> TRUE, width |-> f.width, height |-> f.height, depth |-> f.depth,
                  chroma_format |-> "Yuv420", y |-> y, cb |-> chroma["cb"], cr |-> chroma["cr"]]
    BY <2>1 DEF Planar
  <2> HIDE DEF chroma, y
  <2>5. lifted["cb"] = chroma["cb"] /\ lifted["cr"] = chroma["cr"] /\ lifted.y = y /\ lifted.depth = f.depth
    BY <2>4
  <2> QED
    BY <1>1, <1>3, <2>3, <2>5 DEF ShowsWindow, chroma, y
<1> QED
  BY <1>2, <1>3

LEMMA LiftInv == IInv /\ Lift => IInv'
<1> SUFFICES ASSUME IInv, Lift PROVE IInv'
  OBVIOUS
<1>1. pc = "lift" /\ TypeOK /\ next \in 1..Len(file.pictures) /\ Len(file.pictures) \in Nat
  BY PictureCount DEF Lift, IInv, TypeOK
<1>2. failed = None /\ last_error = None
  BY <1>1 DEF IInv, ErrorInv
<1>3. UNCHANGED <<file, last_error>> /\ pc' = "pipeline"
  BY DEF Lift, CallFails
<1>4. CASE Lifted.ok
  <2>1. planar' = [of |-> next, lifted |-> Lifted] /\ next' = next /\ failed' = failed
    BY <1>4 DEF Lift
  <2>2. PICK p : p = Picture
    OBVIOUS
  <2>3. PictureOK(p, Shown(file)) /\ FrameReady(frame, p, Shown(file))
    BY <1>1, <2>2, PictureGiven DEF IInv, FrameInv
  <2>4. PICK lifted :
          /\ lifted = Lifted /\ lifted.ok
          /\ lifted = IF file.codec = "hevc" THEN hw_frame_to_planar(frame, file.chroma)
                      ELSE hw_frame_to_decoded(frame, file.chroma)
    BY <1>4 DEF Lifted
  <2>5. ShowsWindow(lifted, p, file.chroma)
    BY <2>3, <2>4, LiftedPlanes
  <2>6. LiftedExact'
    <3>1. planar'.of = next /\ planar'.lifted = lifted
      BY <2>1, <2>4
    <3>2. p = file'.pictures[planar'.of] /\ file' = file
      BY <1>3, <2>2, <3>1 DEF Picture
    <3> QED
      BY <2>5, <3>1, <3>2 DEF LiftedExact
  <2>7. None # "hw"
    BY NoneAssumption DEF Failures
  <2>8. TypeOK' /\ ErrorInv' /\ FrameInv' /\ SeenInv' /\ FailureNamed'
    BY <1>1, <1>2, <1>3, <2>1, <2>7 DEF TypeOK, ErrorInv, FrameInv, SeenInv, FailureNamed
  <2> QED
    BY <2>6, <2>8 DEF IInv
<1>5. CASE ~Lifted.ok
  <2>1. failed' = "lift" /\ UNCHANGED <<next, planar>>
    BY <1>5 DEF Lift, CallFails
  <2>2. ErrorInv'
    BY <1>2, <1>3, <2>1 DEF ErrorInv
  <2> QED
    BY <1>3, <2>1, <2>2, CallKept
<1> QED
  BY <1>4, <1>5

LEMMA NextInv == IInv /\ [Next]_vars => IInv'
<1> SUFFICES ASSUME IInv, [Next]_vars PROVE IInv'
  OBVIOUS
<1>1. CASE NoDecoder
  BY <1>1, NoDecoderInv
<1>2. CASE NewAdapter
  BY <1>2, NewAdapterInv
<1>3. CASE CallAdapter
  BY <1>3, CallAdapterInv
<1>4. CASE PipelineFails
  BY <1>4, PipelineFailsInv
<1>5. CASE PipelineDone
  BY <1>5, PipelineDoneInv
<1>6. CASE RecordDoesNotFit
  BY <1>6, RecordDoesNotFitInv
<1>7. CASE BackendParses
  BY <1>7, BackendParsesInv
<1>8. CASE HwFails
  BY <1>8, HwFailsInv
<1>9. CASE VaapiReturns
  BY <1>9, VaapiReturnsInv
<1>10. CASE OtherBackendReturns
  BY <1>10, OtherBackendReturnsInv
<1>11. CASE Lift
  BY <1>11, LiftInv
<1>12. CASE UNCHANGED vars
  <2>1. UNCHANGED <<file, next, last_error, seen, frame, planar, failed, result, pc>>
    BY <1>12 DEF vars
  <2>2. LiftedExact'
    BY <2>1, PlanarKept DEF IInv
  <2>3. FrameInv' /\ SeenInv'
    BY <2>1 DEF IInv, FrameInv, SeenInv, FrameReady, FrameShows, WholeFrame, Picture, Shown
  <2>4. TypeOK' /\ ErrorInv' /\ FailureNamed'
    BY <2>1 DEF IInv, TypeOK, ErrorInv, FailureNamed
  <2> QED
    BY <2>2, <2>3, <2>4 DEF IInv
<1> QED
  BY <1>1, <1>2, <1>3, <1>4, <1>5, <1>6, <1>7, <1>8, <1>9, <1>10, <1>11, <1>12 DEF Next

-----------------------------------------------------------------------------
(* The inductive invariant holds whatever the pipeline, the decoder and    *)
(* the driver do in a decode_item call.                                    *)
THEOREM Inductive == Spec => []IInv
BY InitInv, NextInv, PTL DEF Spec

(* Type correctness of a decode_item call.                                 *)
THEOREM TypeCorrect == Spec => []TypeOK
<1>1. IInv => TypeOK
  BY DEF IInv
<1> QED
  BY <1>1, Inductive, PTL

(* The caller is told why the item failed, the decoder's own error when it *)
(* was the decoder that failed (into_raw_error): an error recorded by an   *)
(* earlier picture's call is never taken for a later failure's.            *)
THEOREM FailureAlwaysNamed == Spec => []FailureNamed
<1>1. IInv => FailureNamed
  BY DEF IInv
<1> QED
  BY <1>1, Inductive, PTL

(* The pipeline gets the visible window sample for sample, from a surface  *)
(* of any size, pitch and format (copy_plane, hw_planes.rs and the lifts). *)
THEOREM AlwaysLiftedExact == Spec => []LiftedExact
<1>1. IInv => LiftedExact
  BY DEF IInv
<1> QED
  BY <1>1, Inductive, PTL

(* The checks of copy_plane and DecodedFrame::new refuse a surface if and  *)
(* only if some byte that the lift would read is not in it.                *)
THEOREM OnlySoundSurfaces == Spec => []SoundSurfacesOnly
<1>1. IInv => SoundSurfacesOnly
  <2> SUFFICES ASSUME IInv, pc = "read"
               PROVE  /\ \A image \in Surfaces(Picture) :
                           CopyImage(image, Picture.crop, Picture.depth).ok <=> image.sound
                      /\ \A f \in Frames(Picture) :
                           NewFrame(f.format, Picture.crop.w, Picture.crop.h, Picture.depth,
                                    f.planes).ok <=> f.sound
    BY DEF SoundSurfacesOnly
  <2>1. TypeOK
    BY DEF IInv
  <2>2. ASSUME NEW image \in Surfaces(Picture)
        PROVE  CopyImage(image, Picture.crop, Picture.depth).ok <=> image.sound
    BY <2>1, VaapiAnswers
  <2>3. ASSUME NEW f \in Frames(Picture)
        PROVE  NewFrame(f.format, Picture.crop.w, Picture.crop.h, Picture.depth,
                        f.planes).ok <=> f.sound
    BY <2>1, OtherAnswers
  <2> QED
    BY <2>2, <2>3
<1> QED
  BY <1>1, Inductive, PTL

(* The decoder is given the parameter sets and coded slices of the item,   *)
(* in its order, and of nothing else: the record that hvcc_bytes or        *)
(* av1c_bytes writes is read back by parse_hvcc or parse_av1c, and the     *)
(* payload is split where its writer framed it (split_length_prefixed,     *)
(* split_obus); a whole item is never refused on the way.                  *)
THEOREM UnitsAlwaysDelivered == Spec => []UnitsDelivered
<1>1. IInv => UnitsDelivered
  <2> SUFFICES ASSUME IInv
               PROVE  /\ pc = "read" => seen = file.units \o Picture.units
                      /\ pc = "call" /\ Picture.whole => BackendUnits(Record, Picture.payload).ok
    BY DEF UnitsDelivered
  <2>1. pc = "read" => seen = file.units \o Picture.units
    BY DEF IInv, SeenInv
  <2>2. ASSUME pc = "call", Picture.whole PROVE BackendUnits(Record, Picture.payload).ok
    <3>1. TypeOK /\ next <= Len(file.pictures)
      BY <2>2 DEF IInv, TypeOK
    <3>2. file.codec = "hevc" => HvccFits(file.config)
      BY <2>2, <3>1, OnlyFittingIsWhole
    <3> QED
      BY <2>2, <3>1, <3>2, BackendAnswers
  <2> QED
    BY <2>1, <2>2
<1> QED
  BY <1>1, Inductive, PTL
=============================================================================
