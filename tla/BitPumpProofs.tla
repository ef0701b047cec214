---------------------------- MODULE BitPumpProofs ----------------------------
(***************************************************************************)
(* The bit reader's theorems, for bytes of any size, registers of any even *)
(* number of bytes and any set of inputs.  They rest on the inductive      *)
(* invariant IInv of BitPump: what has gone through the register and what  *)
(* the bytes not yet taken stand for make up the payload.                  *)
(***************************************************************************)
EXTENDS BitPump, NatLemmas

-----------------------------------------------------------------------------
(* Powers of two                                                           *)

(* The recursive definition of Pow2 may be unfolded.                       *)
LEMMA PowUnfolds == Pow2[0] = 1 /\ \A i \in Nat : Pow2[i + 1] = 2 * Pow2[i]
<1>1. Pow2 = CHOOSE f : f = [i \in Nat |-> IF i = 0 THEN 1 ELSE 2 * f[i - 1]]
  BY DEF Pow2
<1> DEFINE p == Pow2
<1>2. p = CHOOSE f : f = [i \in Nat |-> IF i = 0 THEN 1 ELSE 2 * f[i - 1]]
  BY <1>1
<1> HIDE DEF p
<1>3. p[0] = 1 /\ \A i \in Nat : p[i + 1] = 2 * p[i]
  BY <1>2, Doubling
<1> QED
  BY <1>3 DEF p

LEMMA PowType == \A i \in Nat : Pow2[i] \in Nat \ {0}
BY PowUnfolds, DoublesPositive

LEMMA PowSum == \A i, j \in Nat : Pow2[i + j] = Pow2[i] * Pow2[j]
BY PowUnfolds, DoublesAdd

-----------------------------------------------------------------------------
(* Fields of bits                                                          *)

LEMMA FieldType ==
  ASSUME NEW x \in Nat, NEW off \in Nat, NEW count \in Nat
  PROVE  Field(x, off, count) \in 0..(Pow2[count] - 1)
<1>1. Pow2[off] \in Nat \ {0} /\ Pow2[count] \in Nat \ {0}
  BY PowType
<1>2. x \div Pow2[off] \in Nat
  BY <1>1, Divide
<1> QED
  BY <1>1, <1>2, Divide DEF Field

(* Taking bits off the bottom twice.                                       *)
LEMMA DropTwice ==
  ASSUME NEW x \in Nat, NEW i \in Nat, NEW j \in Nat
  PROVE  (x \div Pow2[i]) \div Pow2[j] = x \div Pow2[i + j]
<1> DEFINE a == Pow2[i]
           c == Pow2[j]
<1>1. a \in Nat \ {0} /\ c \in Nat \ {0} /\ Pow2[i + j] = a * c
  BY PowType, PowSum
<1> HIDE DEF a, c
<1>2. x \div (a * c) = (x \div a) \div c
  BY <1>1, DivideParts
<1> QED
  BY <1>1, <1>2 DEF a, c

(* Of the bottom m bits, those from the i-th on, and those below it.       *)
LEMMA ModOfPowers ==
  ASSUME NEW x \in Nat, NEW m \in Nat, NEW i \in 0..m
  PROVE  /\ (x % Pow2[m]) \div Pow2[i] = (x \div Pow2[i]) % Pow2[m - i]
         /\ (x % Pow2[m]) % Pow2[i] = x % Pow2[i]
<1> DEFINE j == m - i
           a == Pow2[i]
           c == Pow2[j]
<1>1. a \in Nat \ {0} /\ c \in Nat \ {0} /\ Pow2[m] = a * c
  <2>1. i \in Nat /\ j \in Nat /\ m = i + j
    OBVIOUS
  <2> QED
    BY <2>1, PowType, PowSum
<1> HIDE DEF a, c
<1>2. (x % (a * c)) \div a = (x \div a) % c /\ (x % (a * c)) % a = x % a
  BY <1>1, ModParts
<1> QED
  BY <1>1, <1>2 DEF a, c

(* A field of a field.                                                     *)
LEMMA FieldOfField ==
  ASSUME NEW x \in Nat, NEW i \in Nat, NEW off \in Nat, NEW count \in Nat,
         NEW size \in Nat, off + count <= size, NEW sum \in Nat, sum = i + off
  PROVE  Field(Field(x, i, size), off, count) = Field(x, sum, count)
<1> DEFINE y == x \div Pow2[i]
           z == y \div Pow2[off]
           high == size - off
<1>1. y \in Nat
  BY PowType, Divide
<1>2. z = x \div Pow2[sum]
  BY DropTwice
<1> HIDE DEF y
<1>3. z \in Nat
  BY <1>1, PowType, Divide
<1>4. high \in Nat /\ high = size - off /\ off \in 0..size /\ count \in 0..high
  OBVIOUS
<1> HIDE DEF high
<1>5. (y % Pow2[size]) \div Pow2[off] = z % Pow2[high]
  BY <1>1, <1>4, ModOfPowers
<1> HIDE DEF z
<1>6. (z % Pow2[high]) % Pow2[count] = z % Pow2[count]
  BY <1>3, <1>4, ModOfPowers
<1>7. Field(x, i, size) = y % Pow2[size]
  BY DEF Field, y
<1> QED
  BY <1>2, <1>5, <1>6, <1>7 DEF Field

LEMMA FieldTop ==
  ASSUME NEW x \in Nat, NEW i \in Nat, NEW count \in Nat, NEW size \in Nat, count <= size
  PROVE  Field(Field(x, i, size), 0, count) = Field(x, i, count)
<1>1. PICK off \in Nat : off = 0
  OBVIOUS
<1>2. i = i + off /\ off + count <= size
  BY <1>1
<1>3. Field(Field(x, i, size), off, count) = Field(x, i, count)
  BY <1>2, FieldOfField
<1> QED
  BY <1>1, <1>3

(* A field, cut in two.                                                    *)
LEMMA FieldSplit ==
  ASSUME NEW x \in Nat, NEW off \in Nat, NEW high \in Nat, NEW low \in Nat,
         NEW both \in Nat, both = high + low, NEW above \in Nat, above = off + low
  PROVE  Field(x, off, both) = Field(x, above, high) * Pow2[low] + Field(x, off, low)
<1> DEFINE y == x \div Pow2[off]
<1>1. y \in Nat
  BY PowType, Divide
<1>2. y \div Pow2[low] = x \div Pow2[off + low]
  BY DropTwice
<1> HIDE DEF y
<1>3. Pow2[high + low] = Pow2[low] * Pow2[high]
  <2>1. high + low = low + high
    OBVIOUS
  <2> QED
    BY <2>1, PowSum
<1>4. y % Pow2[high + low] = ((y \div Pow2[low]) % Pow2[high]) * Pow2[low] + (y % Pow2[low])
  BY <1>1, <1>3, PowType, DivideParts
<1> QED
  BY <1>2, <1>4 DEF Field, y

(* y, of low bits, put below x in a register of width bits.                *)
Put(x, low, width, y) == ((x * Pow2[low]) % Pow2[width]) + y

LEMMA PutBelow ==
  ASSUME NEW x \in Nat, NEW width \in Nat, NEW low \in 0..width, NEW y \in Nat, y < Pow2[low]
  PROVE  /\ Put(x, low, width, y) \in 0..(Pow2[width] - 1)
         /\ Field(Put(x, low, width, y), 0, low) = y
         /\ \A off, count, above \in Nat :
              above = low + off /\ above + count <= width =>
                Field(Put(x, low, width, y), above, count) = Field(x, off, count)
<1> DEFINE high == width - low
           put == Put(x, low, width, y)
<1>0. low \in Nat /\ high \in Nat /\ width = low + high
  OBVIOUS
<1> HIDE DEF high, put
<1>1. /\ put \in 0..(Pow2[width] - 1)
      /\ put \div Pow2[low] = x % Pow2[high]
      /\ put % Pow2[low] = y
  <2> DEFINE a == Pow2[low]
             c == Pow2[high]
             z == x * a
             q == x % c
  <2>1. a \in Nat \ {0} /\ c \in Nat \ {0} /\ y \in 0..(a - 1) /\ Pow2[width] = a * c
    <3>1. Pow2[low] \in Nat \ {0} /\ Pow2[high] \in Nat \ {0}
      BY <1>0, PowType
    <3>2. Pow2[width] = Pow2[low] * Pow2[high]
      BY <1>0, PowSum
    <3>3. y \in 0..(Pow2[low] - 1)
      BY <3>1
    <3> QED
      BY <3>1, <3>2, <3>3
  <2> HIDE DEF a, c
  <2>2. z \in Nat /\ z \div a = x /\ z % a = 0
    <3>1. 0 \in 0..(a - 1) /\ z = x * a + 0 /\ z \in Nat
      BY <2>1
    <3> HIDE DEF z
    <3> QED
      BY <2>1, <3>1, DivideUnique
  <2>3. q \in 0..(c - 1)
    BY <2>1, Divide
  <2> HIDE DEF z
  <2>4. z % (a * c) = ((z \div a) % c) * a + (z % a)
    BY <2>1, <2>2, DivideParts
  <2> HIDE DEF q
  <2>5. z % (a * c) = q * a
    <3>1. z % (a * c) = q * a + (z % a)
      BY <2>2, <2>4 DEF q
    <3> QED
      BY <2>1, <2>2, <2>3, <3>1
  <2>6. q * a + y \in 0..(a * c - 1)
    <3>1. q * a <= (c - 1) * a /\ (c - 1) * a = a * c - a
      BY <2>1, <2>3
    <3> QED
      BY <2>1, <2>3, <3>1
  <2>7. (q * a + y) \div a = q /\ (q * a + y) % a = y
    <3>1. a \in Nat \ {0} /\ y \in 0..(a - 1) /\ q \in Nat
      BY <2>1, <2>3
    <3> QED
      BY <3>1, DivideUnique
  <2>8. put = q * a + y
    <3>1. put = ((x * a) % (a * c)) + y
      BY <2>1 DEF a, put, Put
    <3> QED
      BY <2>5, <3>1 DEF z
  <2>9. put \in 0..(a * c - 1) /\ put \div a = q /\ put % a = y
    BY <2>6, <2>7, <2>8
  <2> QED
    BY <2>1, <2>9 DEF a, c, q
<1>2. put \in Nat
  BY <1>1, PowType
<1>3. Field(put, 0, low) = y
  <2>1. put \div Pow2[0] = put
    BY <1>2, PowUnfolds
  <2> QED
    BY <1>1, <2>1 DEF Field
<1>4. ASSUME NEW off \in Nat, NEW count \in Nat, NEW above \in Nat,
             above = low + off, above + count <= width
      PROVE  Field(put, above, count) = Field(x, off, count)
  <2>0. off + count <= high
    BY <1>0, <1>4
  <2>1. put \div Pow2[above] = (x % Pow2[high]) \div Pow2[off]
    BY <1>0, <1>1, <1>2, <1>4, DropTwice
  <2>2. x % Pow2[high] = Field(x, 0, high)
    <3>1. x \div Pow2[0] = x
      BY PowUnfolds
    <3> QED
      BY <3>1 DEF Field
  <2>3. Field(put, above, count) = Field(Field(x, 0, high), off, count)
    BY <2>1, <2>2 DEF Field
  <2>4. Field(Field(x, 0, high), off, count) = Field(x, off, count)
    <3>1. off = 0 + off
      OBVIOUS
    <3> QED
      BY <1>0, <2>0, <3>1, FieldOfField
  <2> QED
    BY <2>3, <2>4
<1> QED
  BY <1>1, <1>3, <1>4 DEF put

-----------------------------------------------------------------------------
(* Numbers written in bytes                                                *)

(* f reads the digits of t in base B.                                      *)
Reads(f, t, B, N) == f = [m \in 0..N |-> IF m = 0 THEN 0 ELSE f[m - 1] * B + t[m]]

LEMMA ReadsExists ==
  ASSUME NEW N \in Nat, NEW B \in Nat, NEW t \in [1..N -> Nat]
  PROVE  \E f : Reads(f, t, B, N)
<1>1. PICK step \in [0..(N - 1) -> [Nat -> Nat]] :
        \A i \in 0..(N - 1), v \in Nat : step[i][v] = v * B + t[i + 1]
  <2> DEFINE next == [i \in 0..(N - 1) |-> [v \in Nat |-> v * B + t[i + 1]]]
  <2>1. \A i \in 0..(N - 1), v \in Nat : v * B + t[i + 1] \in Nat
    OBVIOUS
  <2>2. next \in [0..(N - 1) -> [Nat -> Nat]]
    BY <2>1
  <2>3. \A i \in 0..(N - 1), v \in Nat : next[i][v] = v * B + t[i + 1]
    OBVIOUS
  <2> QED
    BY <2>2, <2>3
<1>2. PICK g : RecursUpTo(g, N, Nat, 0, step)
  BY RecursionUpTo
<1>3. ASSUME NEW m \in 0..N PROVE g[m] = IF m = 0 THEN 0 ELSE g[m - 1] * B + t[m]
  <2>1. CASE m # 0
    <3>1. PICK k \in 0..(N - 1) : m = k + 1
      <4>1. m - 1 \in 0..(N - 1) /\ m = (m - 1) + 1
        BY <2>1
      <4> QED
        BY <4>1
    <3>2. g[k + 1] = step[k][g[k]] /\ g[k] \in Nat
      <4>1. k \in 0..N
        OBVIOUS
      <4>2. g[k] \in Nat
        BY <1>2, <4>1 DEF RecursUpTo
      <4>3. g[k + 1] = step[k][g[k]]
        BY <1>2 DEF RecursUpTo
      <4> QED
        BY <4>2, <4>3
    <3>3. g[k + 1] = g[k] * B + t[k + 1]
      BY <1>1, <3>2
    <3> QED
      BY <2>1, <3>1, <3>3
  <2> QED
    BY <1>2, <2>1 DEF RecursUpTo
<1>4. g = [m \in 0..N |-> IF m = 0 THEN 0 ELSE g[m - 1] * B + t[m]]
  BY <1>2, <1>3 DEF RecursUpTo
<1> QED
  BY <1>4 DEF Reads

LEMMA ReadsUnfolds ==
  ASSUME NEW N \in Nat, NEW B \in Nat, NEW t \in [1..N -> Nat], NEW f, Reads(f, t, B, N)
  PROVE  /\ f[0] = 0
         /\ \A i \in 0..(N - 1) : f[i + 1] = f[i] * B + t[i + 1]
         /\ \A i \in 0..N : f[i] \in Nat
<1>1. \A m \in 0..N : f[m] = IF m = 0 THEN 0 ELSE f[m - 1] * B + t[m]
  BY DEF Reads
<1>2. f[0] = 0
  BY <1>1
<1>3. ASSUME NEW i \in 0..(N - 1) PROVE f[i + 1] = f[i] * B + t[i + 1]
  <2>1. i + 1 \in 0..N /\ i + 1 # 0 /\ (i + 1) - 1 = i
    OBVIOUS
  <2> QED
    BY <1>1, <2>1
<1>4. \A i \in 0..N : f[i] \in Nat
  <2> DEFINE S == {i \in 0..N : f[i] \in Nat}
  <2>1. 0 \in S
    BY <1>2
  <2>2. ASSUME NEW i \in 0..(N - 1), i \in S PROVE i + 1 \in S
    <3>1. f[i] \in Nat /\ t[i + 1] \in Nat /\ i + 1 \in 0..N
      BY <2>2
    <3>2. f[i] * B \in Nat
      BY <3>1
    <3>3. f[i + 1] = f[i] * B + t[i + 1]
      BY <1>3
    <3>4. f[i + 1] \in Nat
      BY <3>1, <3>2, <3>3
    <3> QED
      BY <3>1, <3>4
  <2> HIDE DEF S
  <2>3. \A i \in 0..N : i \in S
    BY <2>1, <2>2, InductUpTo
  <2> QED
    BY <2>3 DEF S
<1> QED
  BY <1>2, <1>3, <1>4

LEMMA ByteIsNat == Byte \subseteq Nat /\ Pow2[ByteBits] \in Nat \ {0} /\ ByteBits \in Nat \ {0}
BY PumpAssumption, PowType DEF Byte

(* The recursive definition of Number may be unfolded.                     *)
LEMMA NumberUnfolds ==
  ASSUME NEW p \in Seq(Byte)
  PROVE  /\ Number(p)[0] = 0
         /\ \A i \in 0..(Len(p) - 1) : Number(p)[i + 1] = Number(p)[i] * Pow2[ByteBits] + p[i + 1]
         /\ \A i \in 0..Len(p) : Number(p)[i] \in Nat
<1>1. p \in [1..Len(p) -> Nat] /\ Len(p) \in Nat
  <2>1. p \in [1..Len(p) -> Byte] /\ Len(p) \in Nat
    OBVIOUS
  <2> QED
    BY <2>1, ByteIsNat
<1>2. PICK g : Reads(g, p, Pow2[ByteBits], Len(p))
  BY <1>1, ByteIsNat, ReadsExists
<1>3. g = [i \in 0..Len(p) |-> IF i = 0 THEN 0 ELSE g[i - 1] * Pow2[ByteBits] + p[i]]
  BY <1>2 DEF Reads
<1>4. Number(p) = [i \in 0..Len(p) |-> IF i = 0 THEN 0 ELSE Number(p)[i - 1] * Pow2[ByteBits] + p[i]]
  BY <1>3 DEF Number
<1>5. Reads(Number(p), p, Pow2[ByteBits], Len(p))
  BY <1>4 DEF Reads
<1> QED
  BY <1>1, <1>5, ByteIsNat, ReadsUnfolds

(* The recursive definition of BytesAhead may be unfolded.                 *)
LEMMA AheadUnfolds ==
  ASSUME data \in Seq(Byte), pos \in Nat, pos + Word <= Len(data)
  PROVE  /\ BytesAhead[0] = 0
         /\ \A i \in 0..(Word - 1) :
              BytesAhead[i + 1] = BytesAhead[i] * Pow2[ByteBits] + data[pos + (i + 1)]
         /\ \A i \in 0..Word : BytesAhead[i] \in Nat
<1> DEFINE t == [m \in 1..Word |-> data[pos + m]]
<1>1. t \in [1..Word -> Nat] /\ Word \in Nat
  <2>1. Word \in Nat
    BY PumpAssumption
  <2>2. ASSUME NEW m \in 1..Word PROVE data[pos + m] \in Byte
    <3>1. pos + m \in 1..Len(data)
      BY <2>1
    <3> QED
      BY <3>1
  <2> QED
    BY <2>1, <2>2, ByteIsNat
<1>2. \A m \in 1..Word : At(pos + m - 1) = t[m]
  BY <1>1 DEF At
<1>3. \A i \in 0..(Word - 1) : t[i + 1] = data[pos + (i + 1)]
  BY <1>1
<1> HIDE DEF t
<1>4. PICK g : Reads(g, t, Pow2[ByteBits], Word)
  BY <1>1, ByteIsNat, ReadsExists
<1>5. g = [m \in 0..Word |-> IF m = 0 THEN 0 ELSE g[m - 1] * Pow2[ByteBits] + At(pos + m - 1)]
  <2>1. \A m \in 0..Word : m # 0 => At(pos + m - 1) = t[m]
    BY <1>1, <1>2
  <2> QED
    BY <1>4, <2>1 DEF Reads
<1>6. BytesAhead =
        [m \in 0..Word |-> IF m = 0 THEN 0 ELSE BytesAhead[m - 1] * Pow2[ByteBits] + At(pos + m - 1)]
  BY <1>5 DEF BytesAhead
<1>7. Reads(BytesAhead, t, Pow2[ByteBits], Word)
  <2>1. \A m \in 0..Word : m # 0 => At(pos + m - 1) = t[m]
    BY <1>1, <1>2
  <2> QED
    BY <1>6, <2>1 DEF Reads
<1>8. /\ BytesAhead[0] = 0
      /\ \A i \in 0..(Word - 1) : BytesAhead[i + 1] = BytesAhead[i] * Pow2[ByteBits] + t[i + 1]
      /\ \A i \in 0..Word : BytesAhead[i] \in Nat
  BY <1>1, <1>7, ByteIsNat, ReadsUnfolds
<1> QED
  BY <1>3, <1>8

-----------------------------------------------------------------------------
(* What the input stands for                                               *)

(* The recursive definition of Rest may be unfolded.                       *)
RestAt(i, h) ==
  IF i > Len(data) \/ Pair(i, {EndOfImage}) THEN <<>>
  ELSE IF Pair(i, Restart) THEN h[i + 2]
  ELSE <<data[i]>> \o h[IF Pair(i, {Stuffing}) THEN i + 2 ELSE i + 1]

LEMMA RestAtType ==
  ASSUME data \in Seq(Byte), NEW i \in Nat \ {0}, NEW h,
         i <= Len(data) => h[i + 1] \in Seq(Byte) /\ h[i + 2] \in Seq(Byte)
  PROVE  RestAt(i, h) \in Seq(Byte)
<1>1. CASE i > Len(data)
  BY <1>1 DEF RestAt
<1>2. CASE i <= Len(data)
  <2>1. <<data[i]>> \in Seq(Byte)
    BY <1>2
  <2>2. ASSUME NEW s \in Seq(Byte) PROVE <<data[i]>> \o s \in Seq(Byte)
    BY <2>1
  <2>3. <<data[i]>> \o h[i + 1] \in Seq(Byte) /\ <<data[i]>> \o h[i + 2] \in Seq(Byte)
    BY <1>2, <2>2
  <2> QED
    BY <1>2, <2>3 DEF RestAt
<1> QED
  BY <1>1, <1>2

(* It looks at h behind i only, and there only inside 1..Len(data) + 2.    *)
LEMMA RestAtLocal ==
  ASSUME data \in Seq(Byte), NEW i \in Nat \ {0}, NEW g, NEW h,
         i <= Len(data) => g[i + 1] = h[i + 1] /\ g[i + 2] = h[i + 2]
  PROVE  RestAt(i, g) = RestAt(i, h)
<1>1. CASE i > Len(data)
  BY <1>1 DEF RestAt
<1>2. CASE i <= Len(data)
  BY <1>2 DEF RestAt
<1> QED
  BY <1>1, <1>2

LEMMA RestUnfolds ==
  ASSUME data \in Seq(Byte)
  PROVE  \A i \in 1..(Len(data) + 2) : Rest[i] = RestAt(i, Rest) /\ Rest[i] \in Seq(Byte)
<1> DEFINE N == Len(data) + 2
           Part(r, g) == /\ g \in [(N - r)..N -> Seq(Byte)]
                         /\ \A i \in (N - r)..N : g[i] = RestAt(i, g)
           S == {r \in 0..(N - 1) : \E g : Part(r, g)}
<1>1. N \in Nat /\ N - 1 \in Nat
  OBVIOUS
<1>2. 0 \in S
  <2> DEFINE g == [i \in N..N |-> <<>>]
  <2>1. RestAt(N, g) = <<>>
    BY DEF RestAt
  <2>2. <<>> \in Seq(Byte)
    OBVIOUS
  <2>3. g \in [N..N -> Seq(Byte)]
    BY <2>2
  <2>4. \A i \in N..N : i = N /\ g[i] = <<>>
    OBVIOUS
  <2>5. N - 0 = N
    OBVIOUS
  <2>6. Part(0, g)
    <3> HIDE DEF g, N
    <3> QED
      BY <2>1, <2>3, <2>4, <2>5
  <2>7. \E f : Part(0, f)
    <3> HIDE DEF g, N, Part
    <3> QED
      BY <2>6
  <2>8. 0 \in 0..(N - 1)
    BY <1>1
  <2> QED
    <3> HIDE DEF g, N, Part
    <3> QED
      BY <2>7, <2>8
<1>3. ASSUME NEW r \in 0..((N - 1) - 1), r \in S PROVE r + 1 \in S
  <2>1. PICK g : Part(r, g)
    BY <1>3
  <2> DEFINE x == N - (r + 1)
             h == [i \in x..N |-> IF i = x THEN RestAt(x, g) ELSE g[i]]
  <2>2. /\ x \in Nat \ {0} /\ x \notin (N - r)..N /\ x..N = {x} \cup ((N - r)..N)
        /\ x <= Len(data) => x + 1 \in (N - r)..N /\ x + 2 \in (N - r)..N
    OBVIOUS
  <2>3. \A i \in (N - r)..N :
          /\ i \in Nat \ {0}
          /\ i <= Len(data) => i + 1 \in (N - r)..N /\ i + 2 \in (N - r)..N
    OBVIOUS
  <2> HIDE DEF x, N
  <2>4. RestAt(x, g) \in Seq(Byte)
    BY <2>1, <2>2, RestAtType
  <2>5. h \in [x..N -> Seq(Byte)]
    BY <2>1, <2>2, <2>4
  <2>6. h[x] = RestAt(x, g) /\ \A i \in (N - r)..N : h[i] = g[i]
    BY <2>2
  <2> HIDE DEF h
  <2>7. RestAt(x, g) = RestAt(x, h)
    BY <2>2, <2>6, RestAtLocal
  <2>8. ASSUME NEW i \in (N - r)..N PROVE RestAt(i, g) = RestAt(i, h)
    BY <2>3, <2>6, RestAtLocal
  <2>9. \A i \in x..N : h[i] = RestAt(i, h)
    BY <2>1, <2>2, <2>6, <2>7, <2>8
  <2>10. Part(r + 1, h)
    BY <2>5, <2>9 DEF x
  <2>11. r + 1 \in 0..(N - 1)
    BY <1>1
  <2> QED
    BY <2>10, <2>11
<1>4. N - 1 \in S
  <2> HIDE DEF S, N
  <2>1. \A r \in 0..(N - 1) : r \in S
    BY <1>1, <1>2, <1>3, InductUpTo
  <2> QED
    BY <1>1, <2>1
<1>5. PICK g : Part(N - 1, g)
  BY <1>4
<1>6. N - (N - 1) = 1
  OBVIOUS
<1>7. g = [i \in 1..N |-> RestAt(i, g)]
  <2> HIDE DEF N
  <2> QED
    BY <1>5, <1>6
<1>8. Rest = [i \in 1..N |-> RestAt(i, Rest)]
  BY <1>7 DEF Rest, RestAt
<1>9. \A i \in 1..N : Rest[i] = RestAt(i, Rest)
  <2> DEFINE f == Rest
  <2>1. f = [i \in 1..N |-> RestAt(i, f)]
    BY <1>8
  <2> HIDE DEF f, N
  <2>2. \A i \in 1..N : f[i] = RestAt(i, f)
    BY <2>1
  <2> QED
    BY <2>2 DEF f
<1>10. \A i \in 1..N : Rest[i] \in Seq(Byte)
  <2> DEFINE T == {r \in 0..(N - 1) : \A i \in (N - r)..N : Rest[i] \in Seq(Byte)}
  <2>1. 0 \in T
    <3>1. RestAt(N, Rest) = <<>> /\ N \in 1..N
      BY DEF RestAt
    <3>2. Rest[N] \in Seq(Byte)
      <4>1. <<>> \in Seq(Byte)
        OBVIOUS
      <4> HIDE DEF N
      <4> QED
        BY <1>9, <3>1, <4>1
    <3>3. \A i \in (N - 0)..N : i = N
      OBVIOUS
    <3> HIDE DEF N
    <3> QED
      BY <1>1, <3>2, <3>3
  <2>2. ASSUME NEW r \in 0..((N - 1) - 1), r \in T PROVE r + 1 \in T
    <3> DEFINE x == N - (r + 1)
    <3>1. /\ x \in Nat \ {0} /\ x \in 1..N /\ x..N = {x} \cup ((N - r)..N)
          /\ x <= Len(data) => x + 1 \in (N - r)..N /\ x + 2 \in (N - r)..N
      OBVIOUS
    <3>2. \A i \in (N - r)..N : Rest[i] \in Seq(Byte)
      BY <2>2
    <3> HIDE DEF x, N
    <3>3. RestAt(x, Rest) \in Seq(Byte)
      BY <3>1, <3>2, RestAtType
    <3>4. \A i \in x..N : Rest[i] \in Seq(Byte)
      BY <1>9, <3>1, <3>2, <3>3
    <3>5. r + 1 \in 0..(N - 1)
      BY <1>1
    <3> QED
      BY <3>4, <3>5 DEF x
  <2>3. \A r \in 0..(N - 1) : r \in T
    <3> HIDE DEF T, N
    <3> QED
      BY <1>1, <2>1, <2>2, InductUpTo
  <2>4. N - 1 \in T
    <3> HIDE DEF T, N
    <3> QED
      BY <1>1, <2>3
  <2> QED
    BY <1>6, <2>4
<1> QED
  BY <1>9, <1>10

-----------------------------------------------------------------------------
(* The register and the payload, as numbers                                *)

(* A register x with l bits left, t bits after the start of a payload of T *)
(* bits that are the number V, holds the payload's next bits on top.       *)
Agrees(x, l, t, V, T) ==
  LET g == IF t + l <= T THEN l ELSE T - t
  IN  t <= T => Field(x, l - g, g) = Field(V, T - t - g, g)

(* s more bits, the payload's next ones or bits behind its end, with room  *)
(* for them in the register.                                               *)
LEMMA AppendAgrees ==
  ASSUME NEW x \in Nat, NEW l \in Nat, NEW t \in Nat, NEW V \in Nat, NEW T \in Nat,
         NEW s \in Nat, NEW w \in Nat, l + s <= w, NEW y \in Nat, y < Pow2[s],
         Agrees(x, l, t, V, T),
         \/ t + l >= T
         \/ t + l + s <= T /\ Field(V, T - t - l - s, s) = y
  PROVE  Agrees(Put(x, s, w, y), l + s, t, V, T)
<1> DEFINE b == l + s
           put == Put(x, s, w, y)
<1>1. s \in 0..w /\ b \in Nat /\ b = l + s /\ b <= w
  OBVIOUS
<1>2. SUFFICES Agrees(put, b, t, V, T)
  OBVIOUS
<1>3. put \in 0..(Pow2[w] - 1) /\ Field(put, 0, s) = y
  BY <1>1, PutBelow
<1>4. ASSUME NEW off \in Nat, NEW count \in Nat, NEW above \in Nat, above = s + off, above + count <= w
      PROVE  Field(put, above, count) = Field(x, off, count)
  BY <1>1, <1>4, PutBelow
<1> HIDE DEF put, b
<1>5. put \in Nat
  BY <1>1, <1>3, PowType
<1> SUFFICES ASSUME t <= T PROVE Agrees(put, b, t, V, T)
  BY DEF Agrees
<1>6. CASE t + l >= T
  <2> DEFINE g == T - t
             o == l - g
             e == b - g
  <2>1. /\ g \in Nat /\ o \in Nat /\ e \in Nat /\ e + g <= w /\ T - t - g = 0 /\ e = s + o
        /\ t + l <= T => l = g
        /\ t + b <= T => b = g
    BY <1>1, <1>6
  <2> HIDE DEF g
  <2>2. Field(x, o, g) = Field(V, T - t - g, g)
    BY <2>1 DEF Agrees, g
  <2> HIDE DEF o, e
  <2>3. Field(put, e, g) = Field(x, o, g)
    BY <1>4, <2>1
  <2>4. Field(put, b - g, g) = Field(V, T - t - g, g)
    BY <2>2, <2>3 DEF e
  <2> QED
    BY <2>1, <2>4 DEF Agrees, g
<1>7. CASE t + l + s <= T /\ Field(V, T - t - l - s, s) = y
  <2> DEFINE o == T - t - l - s
             e == T - t - l
  <2>1. /\ o \in Nat /\ e \in Nat /\ e = o + s /\ T - t - b = o
        /\ t + l <= T /\ l - l = 0 /\ t + b <= T /\ b - b = 0
    BY <1>1, <1>7
  <2>2. Field(x, 0, l) = Field(V, e, l)
    BY <2>1 DEF Agrees
  <2> HIDE DEF o, e
  <2>3. Field(V, o, b) = Field(V, e, l) * Pow2[s] + Field(V, o, s)
    BY <1>1, <2>1, FieldSplit
  <2>4. Field(put, 0, b) = Field(put, s, l) * Pow2[s] + Field(put, 0, s)
    <3>1. s = 0 + s
      OBVIOUS
    <3> QED
      BY <1>1, <1>5, <2>1, <3>1, FieldSplit
  <2>5. Field(put, s, l) = Field(x, 0, l)
    <3>1. s = s + 0 /\ s + l <= w
      BY <1>1
    <3> QED
      BY <1>4, <3>1
  <2>6. Field(V, o, s) = y
    BY <1>7 DEF o
  <2>7. Field(put, 0, b) = Field(V, o, b)
    BY <1>3, <2>2, <2>3, <2>4, <2>5, <2>6
  <2> QED
    BY <2>1, <2>7 DEF Agrees
<1> QED
  BY <1>6, <1>7

(* u bits are consumed.                                                    *)
LEMMA ConsumeAgrees ==
  ASSUME NEW x \in Nat, NEW l \in Nat, NEW t \in Nat, NEW V \in Nat, NEW T \in Nat,
         NEW u \in 0..l, Agrees(x, l, t, V, T)
  PROVE  Agrees(x, l - u, t + u, V, T)
<1> SUFFICES ASSUME t + u <= T PROVE Agrees(x, l - u, t + u, V, T)
  BY DEF Agrees
<1> DEFINE g == IF t + l <= T THEN l ELSE T - t
           c == g - u
           o == l - g
           e == T - t - g
<1>1. /\ g \in Nat /\ c \in Nat /\ o \in Nat /\ e \in Nat /\ c <= g
      /\ (l - u) - c = o /\ T - (t + u) - c = e
      /\ c = IF (t + u) + (l - u) <= T THEN l - u ELSE T - (t + u)
  OBVIOUS
<1>2. Field(x, o, g) = Field(V, e, g)
  BY DEF Agrees
<1> HIDE DEF g, c, o, e
<1>3. Field(Field(x, o, g), 0, c) = Field(x, o, c)
  BY <1>1, FieldTop
<1>4. Field(Field(V, e, g), 0, c) = Field(V, e, c)
  BY <1>1, FieldTop
<1>5. Field(x, (l - u) - c, c) = Field(V, T - (t + u) - c, c)
  BY <1>1, <1>2, <1>3, <1>4
<1> QED
  BY <1>1, <1>5 DEF Agrees

(* The k bits on top of the lowest l.                                      *)
Top(x, l, k) == Field(x, l - k, k)

(* k bits are looked at.                                                   *)
LEMMA PeekAgrees ==
  ASSUME NEW x \in Nat, NEW l \in Nat, NEW t \in Nat, NEW V \in Nat, NEW T \in Nat,
         NEW k \in 0..l, t + k <= T, Agrees(x, l, t, V, T)
  PROVE  Top(x, l, k) = Field(V, T - t - k, k)
<1> DEFINE g == IF t + l <= T THEN l ELSE T - t
           off == g - k
           o == l - g
           e == T - t - g
           below == l - k
           behind == T - t - k
<1>1. /\ g \in Nat /\ off \in Nat /\ o \in Nat /\ e \in Nat /\ off + k <= g
      /\ below \in Nat /\ behind \in Nat /\ below = o + off /\ behind = e + off
  OBVIOUS
<1>2. Field(x, o, g) = Field(V, e, g)
  BY DEF Agrees
<1> HIDE DEF g, off, o, e, below, behind
<1>3. Field(Field(x, o, g), off, k) = Field(x, below, k)
  BY <1>1, FieldOfField
<1>4. Field(Field(V, e, g), off, k) = Field(V, behind, k)
  BY <1>1, FieldOfField
<1> QED
  BY <1>2, <1>3, <1>4 DEF below, behind, Top

-----------------------------------------------------------------------------
(* Facts about the state                                                   *)

LEMMA Sizes ==
  /\ ByteBits \in Nat \ {0} /\ Word \in Nat \ {0}
  /\ Width \in Nat /\ Half \in Nat /\ Half + Half = Width /\ ByteBits <= Half
<1>1. PICK w \in Nat : Word = w + w /\ w # 0
  <2>1. Word = (Word \div 2) * 2 + (Word % 2) /\ Word \div 2 \in Nat
    BY PumpAssumption
  <2>2. Word = (Word \div 2) + (Word \div 2) /\ Word \div 2 # 0
    BY <2>1, PumpAssumption
  <2> QED
    BY <2>1, <2>2
<1> DEFINE x == w * ByteBits
<1>2. ByteBits \in Nat \ {0} /\ Word \in Nat \ {0}
  BY PumpAssumption
<1>3. Width = x + x /\ x \in Nat /\ ByteBits <= x
  <2>1. ByteBits <= w * ByteBits
    BY <1>1, <1>2
  <2> QED
    BY <1>1, <1>2, <2>1 DEF Width
<1> HIDE DEF x
<1>4. Half = x
  BY <1>3 DEF Half
<1> QED
  BY <1>2, <1>3, <1>4

LEMMA PayloadType ==
  ASSUME data \in Seq(Byte)
  PROVE  /\ Payload \in Seq(Byte) /\ Len(Payload) \in Nat /\ Total \in Nat
         /\ Number(Payload)[Len(Payload)] \in Nat
<1>1. Payload \in Seq(Byte)
  <2>1. 1 \in 1..(Len(data) + 2)
    OBVIOUS
  <2> QED
    BY <2>1, RestUnfolds DEF Payload
<1>2. Len(Payload) \in Nat
  BY <1>1
<1>3. Number(Payload)[Len(Payload)] \in Nat
  BY <1>1, <1>2, NumberUnfolds
<1>4. Total \in Nat
  BY <1>2, Sizes DEF Total
<1> QED
  BY <1>1, <1>2, <1>3, <1>4

(* The number of the first k bytes, from that of m bytes more.             *)
LEMMA NumberPrefix ==
  ASSUME NEW p \in Seq(Byte), NEW k \in 0..Len(p), NEW m \in 0..(Len(p) - k)
  PROVE  Number(p)[k + m] \div Pow2[ByteBits * m] = Number(p)[k]
<1> DEFINE B == ByteBits
           N == Number(p)
           S == {i \in 0..(Len(p) - k) : N[k + i] \div Pow2[B * i] = N[k]}
<1>1. Len(p) \in Nat /\ Len(p) - k \in Nat
  OBVIOUS
<1>2. B \in Nat
  BY Sizes
<1>3. 0 \in S
  <2>1. N[k] \in Nat /\ k + 0 = k /\ B * 0 = 0 /\ Pow2[0] = 1
    BY <1>2, NumberUnfolds, PowUnfolds
  <2>2. N[k] \div 1 = N[k]
    BY <2>1
  <2>3. N[k + 0] \div Pow2[B * 0] = N[k]
    BY <2>1, <2>2
  <2> QED
    BY <1>1, <2>3
<1>4. ASSUME NEW i \in 0..((Len(p) - k) - 1), i \in S PROVE i + 1 \in S
  <2> DEFINE x == N[k + i]
             y == N[k + (i + 1)]
  <2>1. y = x * Pow2[B] + p[k + i + 1] /\ x \in Nat /\ y \in Nat
    <3>1. k + i \in 0..(Len(p) - 1) /\ (k + i) + 1 = k + (i + 1) /\ k + i \in 0..Len(p)
          /\ k + (i + 1) \in 0..Len(p)
      OBVIOUS
    <3> QED
      BY <3>1, NumberUnfolds
  <2>2. p[k + i + 1] \in 0..(Pow2[B] - 1)
    <3>1. k + i + 1 \in 1..Len(p)
      OBVIOUS
    <3>2. p[k + i + 1] \in Byte
      BY <3>1
    <3> QED
      BY <3>2 DEF Byte
  <2> HIDE DEF x, y
  <2>3. y \div Pow2[B] = x
    BY <2>1, <2>2, ByteIsNat, DivideUnique
  <2>4. B * (i + 1) = B + B * i /\ B * i \in Nat
    BY <1>2
  <2>5. (y \div Pow2[B]) \div Pow2[B * i] = y \div Pow2[B + B * i]
    BY <1>2, <2>1, <2>4, DropTwice
  <2>6. y \div Pow2[B * (i + 1)] = N[k]
    BY <1>4, <2>3, <2>4, <2>5 DEF x
  <2> QED
    BY <2>6 DEF y
<1> HIDE DEF S
<1>5. \A i \in 0..(Len(p) - k) : i \in S
  BY <1>1, <1>3, <1>4, InductUpTo
<1> QED
  BY <1>5 DEF S

(* m bytes of a payload, behind its first k.                               *)
LEMMA FieldOfNumber ==
  ASSUME NEW p \in Seq(Byte), NEW k \in Nat, NEW m \in Nat, k + m <= Len(p)
  PROVE  Field(Number(p)[Len(p)], ByteBits * Len(p) - ByteBits * k - ByteBits * m, ByteBits * m)
           = Number(p)[k + m] % Pow2[ByteBits * m]
<1> DEFINE j == k + m
           r == Len(p) - j
<1>1. j \in 0..Len(p) /\ r \in 0..(Len(p) - j) /\ j + r = Len(p)
  OBVIOUS
<1>2. ByteBits * Len(p) - ByteBits * k - ByteBits * m = ByteBits * r
  BY Sizes
<1> HIDE DEF j, r
<1>3. Number(p)[j + r] \div Pow2[ByteBits * r] = Number(p)[j]
  BY <1>1, NumberPrefix
<1> QED
  BY <1>1, <1>2, <1>3 DEF Field, j

LEMMA RegisterIs ==
  RegisterInv = Agrees(bits, left, taken, Number(Payload)[Len(Payload)], Total)
BY DEF RegisterInv, Agrees, Genuine, BitsOf, Total

LEMMA DeliveredIs ==
  ASSUME TypeOK, StreamInv
  PROVE  Delivered \in Nat /\ taken + left = ByteBits * Delivered
<1>1. taken + left \in Nat
  BY Sizes DEF TypeOK
<1>2. /\ (taken + left) \div ByteBits \in Nat
      /\ taken + left = ((taken + left) \div ByteBits) * ByteBits + ((taken + left) % ByteBits)
  BY <1>1, Sizes, Divide
<1> QED
  BY <1>1, <1>2, Sizes DEF Delivered, StreamInv

(* The register after m bytes, worth y, were put into it.                  *)
LEMMA PutBytes ==
  ASSUME TypeOK, StreamInv, RegisterInv,
         NEW m \in Nat, left + ByteBits * m <= Width,
         NEW y \in Nat, y < Pow2[ByteBits * m],
         \/ taken + left >= Total
         \/ /\ Delivered + m <= Len(Payload)
            /\ Number(Payload)[Delivered + m] % Pow2[ByteBits * m] = y,
         bits' = Shifted(bits, ByteBits * m) + y,
         left' = left + ByteBits * m, UNCHANGED <<data, taken>>
  PROVE  RegisterInv' /\ bits' \in 0..(Pow2[Width] - 1)
<1> DEFINE s == ByteBits * m
           V == Number(Payload)[Len(Payload)]
           T == Total
<1>1. /\ bits \in Nat /\ left \in Nat /\ taken \in Nat /\ data \in Seq(Byte)
      /\ Width \in Nat /\ s \in 0..Width /\ s \in Nat /\ left' \in Nat /\ left' = left + s
      /\ left + s <= Width /\ y < Pow2[s]
  <2>1. ByteBits \in Nat /\ Width \in Nat
    BY Sizes
  <2>2. bits \in Nat /\ left \in Nat /\ taken \in Nat /\ data \in Seq(Byte)
    BY <2>1, PowType, PumpAssumption DEF TypeOK
  <2>3. s \in Nat
    BY <2>1
  <2> HIDE DEF s
  <2>4. left' = left + s /\ left + s <= Width /\ y < Pow2[s]
    BY DEF s
  <2> QED
    BY <2>1, <2>2, <2>3, <2>4
<1>2. V \in Nat /\ T \in Nat /\ Len(Payload) \in Nat /\ Payload \in Seq(Byte)
  BY <1>1, PayloadType
<1>3. Delivered \in Nat /\ taken + left = ByteBits * Delivered
  BY DeliveredIs
<1>4. \/ taken + left >= T
      \/ taken + left + s <= T /\ Field(V, T - taken - left - s, s) = y
  <2>1. CASE taken + left >= Total
    BY <2>1
  <2>2. CASE /\ Delivered + m <= Len(Payload)
             /\ Number(Payload)[Delivered + m] % Pow2[ByteBits * m] = y
    <3>1. T - taken - left - s = ByteBits * Len(Payload) - ByteBits * Delivered - s
      BY <1>1, <1>2, <1>3, Sizes DEF Total
    <3>2. Field(V, ByteBits * Len(Payload) - ByteBits * Delivered - ByteBits * m, ByteBits * m)
            = Number(Payload)[Delivered + m] % Pow2[ByteBits * m]
      BY <1>2, <1>3, <2>2, FieldOfNumber
    <3>3. ByteBits * (Delivered + m) <= ByteBits * Len(Payload)
      BY <1>2, <1>3, <2>2, Sizes
    <3>4. taken + left + s <= T
      BY <1>1, <1>2, <1>3, <3>3, Sizes DEF Total
    <3> QED
      BY <2>2, <3>1, <3>2, <3>4
  <2> QED
    BY <2>1, <2>2
<1>5. bits' = Put(bits, s, Width, y)
  BY DEF Shifted, Put
<1>6. Agrees(bits, left, taken, V, T)
  BY RegisterIs
<1> HIDE DEF s, V, T
<1>7. Agrees(bits', left', taken, V, T)
  <2>1. Agrees(Put(bits, s, Width, y), left + s, taken, V, T)
    BY <1>1, <1>2, <1>4, <1>6, AppendAgrees
  <2> QED
    BY <1>1, <1>5, <2>1
<1>8. Payload' = Payload /\ Total' = Total
  BY DEF Payload, Total, Rest, Pair
<1>9. RegisterInv'
  <2>1. RegisterInv' = Agrees(bits', left', taken', Number(Payload')[Len(Payload')], Total')
    BY DEF RegisterInv, Agrees, Genuine, BitsOf, Total
  <2> QED
    BY <1>7, <1>8, <2>1 DEF s, V, T
<1>10. bits' \in 0..(Pow2[Width] - 1)
  <2>1. Put(bits, s, Width, y) \in 0..(Pow2[Width] - 1)
    BY <1>1, PutBelow
  <2> QED
    BY <1>5, <2>1
<1> QED
  BY <1>9, <1>10

-----------------------------------------------------------------------------
(* The payload behind the input                                            *)

LEMMA PairIs ==
  ASSUME data \in Seq(Byte), pos \in Nat, NEW S
  PROVE  Pair(pos + 1, S) <=> At(pos) = Prefix /\ Follows(S)
<1>1. (pos + 1) + 1 = pos + 2
  OBVIOUS
<1> QED
  BY <1>1 DEF Pair, At, Follows

(* The next byte of input is payload.                                      *)
LEMMA ContinuesStep ==
  ASSUME data \in Seq(Byte), NEW k \in Nat, NEW i \in 1..Len(data), NEW j \in 1..(Len(data) + 2),
         Continues(k, i), Rest[i] = <<data[i]>> \o Rest[j]
  PROVE  /\ k + 1 <= Len(Payload) /\ Payload[k + 1] = data[i]
         /\ Continues(k + 1, j)
<1> DEFINE r == Rest[j]
           f == Rest[i]
<1>1. r \in Seq(Byte) /\ data[i] \in Byte /\ f = <<data[i]>> \o r
  BY RestUnfolds
<1>2. Len(Payload) \in Nat
  BY PayloadType
<1> HIDE DEF r, f
<1>3. Len(r) \in Nat /\ Len(f) = Len(r) + 1 /\ f[1] = data[i]
  BY <1>1
<1>4. \A n1 \in 1..Len(r) : f[n1 + 1] = r[n1]
  BY <1>1
<1>5. k + Len(f) = Len(Payload) /\ \A n1 \in 1..Len(f) : Payload[k + n1] = f[n1]
  BY DEF Continues, f
<1>6. k + 1 <= Len(Payload) /\ Payload[k + 1] = data[i]
  BY <1>2, <1>3, <1>5
<1>7. (k + 1) + Len(r) = Len(Payload)
  BY <1>3, <1>5
<1>8. ASSUME NEW n1 \in 1..Len(r) PROVE Payload[(k + 1) + n1] = r[n1]
  <2>1. n1 + 1 \in 1..Len(f) /\ k + (n1 + 1) = (k + 1) + n1
    BY <1>3
  <2> QED
    BY <1>4, <1>5, <2>1
<1> QED
  BY <1>6, <1>7, <1>8 DEF Continues, r

-----------------------------------------------------------------------------
(* The invariant                                                           *)

LEMMA InitIInv == Init => IInv
<1> SUFFICES ASSUME Init PROVE IInv
  OBVIOUS
<1>1. data \in Seq(Byte) /\ data \in Data
  BY PumpAssumption DEF Init
<1>2. TypeOK
  BY <1>1, Sizes, PowType DEF Init, TypeOK
<1>3. StreamInv
  <2>1. (taken + left) % ByteBits = 0 /\ Delivered = 0
    <3>1. 0 \in 0..(ByteBits - 1) /\ 0 = 0 * ByteBits + 0 /\ taken + left = 0
      BY Sizes DEF Init
    <3>2. 0 \div ByteBits = 0 /\ 0 % ByteBits = 0
      BY <3>1, Sizes, DivideUnique
    <3> QED
      BY <3>1, <3>2 DEF Delivered
  <2>2. pos + 1 = 1 /\ Len(Payload) \in Nat
    BY <1>1, PayloadType DEF Init
  <2>3. Continues(0, 1)
    BY <2>2 DEF Continues, Payload
  <2> QED
    BY <2>1, <2>2, <2>3 DEF StreamInv
<1>4. RegisterInv
  <2> DEFINE V == Number(Payload)[Len(Payload)]
  <2>1. bits = 0 /\ left = 0 /\ taken = 0 /\ Total \in Nat /\ V \in Nat
    BY <1>1, PayloadType DEF Init
  <2> HIDE DEF V
  <2>2. Field(0, 0, 0) \in 0..(Pow2[0] - 1) /\ Field(V, Total, 0) \in 0..(Pow2[0] - 1)
    BY <2>1, FieldType
  <2>3. Field(0, 0, 0) = Field(V, Total, 0)
    BY <2>2, PowUnfolds
  <2>4. Agrees(0, 0, 0, V, Total)
    BY <2>1, <2>3 DEF Agrees
  <2> QED
    BY <2>1, <2>4, RegisterIs DEF V
<1>5. ShortInv /\ PeekIsNextBits
  BY DEF Init, ShortInv, PeekIsNextBits
<1> QED
  BY <1>2, <1>3, <1>4, <1>5 DEF IInv

(* A single byte of payload goes into the register.                        *)
LEMMA DataByte ==
  ASSUME IInv, pc = "fill", CanFill, ~Pair(pos + 1, {EndOfImage}), ~Pair(pos + 1, Restart),
         bits' = Shifted(bits, ByteBits) + At(pos), left' = left + ByteBits,
         pos' = (IF Pair(pos + 1, {Stuffing}) THEN pos + 2 ELSE pos + 1),
         UNCHANGED <<data, pc, op, n, result, taken>>
  PROVE  IInv'
<1>1. /\ TypeOK /\ StreamInv /\ RegisterInv /\ data \in Seq(Byte)
      /\ pos \in Nat /\ pos < Len(data) /\ left \in Nat /\ taken \in Nat
      /\ ByteBits \in Nat \ {0} /\ Width \in Nat /\ left + ByteBits <= Width
  BY Sizes, PumpAssumption DEF IInv, TypeOK, CanFill
<1>2. Payload' = Payload /\ Total' = Total /\ Rest' = Rest
  BY DEF Payload, Total, Rest, Pair
<1>3. Delivered \in Nat /\ taken + left = ByteBits * Delivered
  BY <1>1, DeliveredIs
<1>4. /\ Len(Payload) \in Nat /\ Payload \in Seq(Byte) /\ Total = ByteBits * Len(Payload)
  BY <1>1, PayloadType DEF Total
<1>5. At(pos) \in Nat /\ At(pos) < Pow2[ByteBits] /\ At(pos) = data[pos + 1]
  <2>1. pos + 1 \in 1..Len(data)
    BY <1>1
  <2>2. data[pos + 1] \in Byte
    BY <1>1, <2>1
  <2> QED
    BY <2>2, ByteIsNat DEF At, Byte
<1>6. pos' \in Nat /\ pos' <= Len(data) /\ pos' + 1 \in 1..(Len(data) + 2)
  BY <1>1 DEF Pair
<1>7. Rest[pos + 1] = <<data[pos + 1]>> \o Rest[pos' + 1]
  <2>1. pos + 1 \in 1..(Len(data) + 2) /\ ~(pos + 1 > Len(data))
    BY <1>1
  <2>2. pos' + 1 = IF Pair(pos + 1, {Stuffing}) THEN (pos + 1) + 2 ELSE (pos + 1) + 1
    BY <1>1
  <2>3. Rest[pos + 1] = RestAt(pos + 1, Rest)
    BY <1>1, <2>1, RestUnfolds
  <2> QED
    BY <2>1, <2>2, <2>3 DEF RestAt
<1>8. ASSUME Continues(Delivered, pos + 1)
      PROVE  /\ Delivered + 1 <= Len(Payload) /\ Payload[Delivered + 1] = At(pos)
             /\ Continues(Delivered + 1, pos' + 1)
  <2>1. pos + 1 \in 1..Len(data)
    BY <1>1
  <2> QED
    BY <1>1, <1>3, <1>5, <1>6, <1>7, <1>8, <2>1, ContinuesStep
<1>9. Delivered' = Delivered + 1 /\ (taken' + left') % ByteBits = 0
  <2>1. taken' + left' = (Delivered + 1) * ByteBits + 0 /\ 0 \in 0..(ByteBits - 1)
    BY <1>1, <1>3
  <2>2. (taken' + left') \div ByteBits = Delivered + 1 /\ (taken' + left') % ByteBits = 0
    <3> DEFINE q == Delivered + 1
    <3>1. q \in Nat
      BY <1>3
    <3> HIDE DEF q
    <3>2. (q * ByteBits + 0) \div ByteBits = q /\ (q * ByteBits + 0) % ByteBits = 0
      BY <1>1, <2>1, <3>1, DivideUnique
    <3> QED
      BY <2>1, <3>2 DEF q
  <2> QED
    BY <2>2 DEF Delivered
<1>10. StreamInv'
  <2>1. CASE Continues(Delivered, pos + 1)
    <3>1. Continues(Delivered', pos' + 1)
      BY <1>8, <1>9, <2>1
    <3> QED
      BY <1>2, <1>9, <3>1 DEF StreamInv, Continues
  <2>2. CASE HasEndOfImage /\ taken + left >= Total
    <3>1. HasEndOfImage' /\ taken' + left' >= Total'
      BY <1>1, <1>2, <1>4, <2>2 DEF HasEndOfImage, Pair
    <3> QED
      BY <1>9, <3>1 DEF StreamInv
  <2> QED
    BY <1>1, <2>1, <2>2 DEF StreamInv
<1>11. \/ taken + left >= Total
       \/ /\ Delivered + 1 <= Len(Payload)
          /\ Number(Payload)[Delivered + 1] % Pow2[ByteBits] = At(pos)
  <2>1. CASE Continues(Delivered, pos + 1)
    <3> DEFINE k == Delivered
               x == Number(Payload)[k]
    <3>1. k \in 0..(Len(Payload) - 1) /\ k \in 0..Len(Payload) /\ Payload[k + 1] = At(pos)
      BY <1>3, <1>4, <1>8, <2>1
    <3>2. Number(Payload)[k + 1] = x * Pow2[ByteBits] + At(pos) /\ x \in Nat
      BY <1>4, <3>1, NumberUnfolds
    <3>3. At(pos) \in 0..(Pow2[ByteBits] - 1)
      BY <1>5, ByteIsNat
    <3> HIDE DEF x, k
    <3>4. (x * Pow2[ByteBits] + At(pos)) % Pow2[ByteBits] = At(pos)
      BY <3>2, <3>3, ByteIsNat, DivideUnique
    <3> QED
      BY <1>8, <2>1, <3>2, <3>4 DEF k
  <2> QED
    BY <1>1, <2>1 DEF StreamInv
<1>12. RegisterInv' /\ bits' \in 0..(Pow2[Width] - 1)
  <2>1. PICK m \in Nat : m = 1 /\ ByteBits * m = ByteBits
    BY <1>1
  <2> QED
    BY <1>1, <1>5, <1>11, <2>1, PutBytes
<1>13. TypeOK'
  BY <1>1, <1>6, <1>12 DEF IInv, TypeOK
<1>14. ShortInv' /\ PeekIsNextBits'
  BY DEF ShortInv, PeekIsNextBits
<1> QED
  BY <1>10, <1>12, <1>13, <1>14 DEF IInv

(* m bytes ahead are a number of m bytes.                                  *)
LEMMA AheadSmall ==
  ASSUME data \in Seq(Byte), pos \in Nat, pos + Word <= Len(data)
  PROVE  \A m \in 0..Word : BytesAhead[m] \in Nat /\ BytesAhead[m] < Pow2[ByteBits * m]
<1> DEFINE B == Pow2[ByteBits]
           S == {m \in 0..Word : BytesAhead[m] < Pow2[ByteBits * m]}
<1>1. Word \in Nat /\ ByteBits \in Nat /\ B \in Nat \ {0}
  BY Sizes, PowType
<1>2. 0 \in S
  <2>1. ByteBits * 0 = 0 /\ BytesAhead[0] = 0 /\ Pow2[0] = 1
    BY <1>1, AheadUnfolds, PowUnfolds
  <2>2. BytesAhead[0] < Pow2[ByteBits * 0]
    BY <2>1
  <2> QED
    BY <1>1, <2>2
<1>3. ASSUME NEW m \in 0..(Word - 1), m \in S PROVE m + 1 \in S
  <2> DEFINE x == BytesAhead[m]
             y == data[pos + (m + 1)]
             e == ByteBits * m
             d == Pow2[e]
  <2>1. BytesAhead[m + 1] = x * B + y /\ x \in Nat
    <3>1. m \in 0..Word
      BY <1>1
    <3> QED
      BY <3>1, AheadUnfolds
  <2>2. y \in Nat /\ y < B
    <3>1. pos + (m + 1) \in 1..Len(data)
      BY <1>1
    <3>2. y \in Byte
      BY <3>1
    <3> QED
      BY <3>2, ByteIsNat DEF Byte
  <2>3. e \in Nat /\ ByteBits * (m + 1) = e + ByteBits
    BY <1>1
  <2>4. d \in Nat /\ Pow2[ByteBits * (m + 1)] = d * B /\ x < d
    <3>1. x < d
      BY <1>3
    <3> HIDE DEF e
    <3> QED
      BY <1>1, <2>3, <3>1, PowType, PowSum
  <2> HIDE DEF x, y, e, d, B
  <2>5. x * B + y < d * B
    <3>1. (x + 1) * B <= d * B /\ (x + 1) * B = x * B + B
      BY <1>1, <2>1, <2>4
    <3> QED
      BY <1>1, <2>1, <2>2, <2>4, <3>1
  <2>6. m + 1 \in 0..Word
    BY <1>1
  <2> QED
    BY <2>1, <2>4, <2>5, <2>6
<1> HIDE DEF S
<1>4. \A m \in 0..Word : m \in S
  BY <1>1, <1>2, <1>3, InductUpTo
<1> QED
  BY <1>4, AheadUnfolds DEF S

(* The fast path's bytes are payload, each of them.                        *)
LEMMA AheadIsPayload ==
  ASSUME data \in Seq(Byte), pos \in Nat, pos + Word <= Len(data), FastPath,
         NEW k \in Nat, Continues(k, pos + 1)
  PROVE  \A m \in 0..Word :
           /\ k + m <= Len(Payload)
           /\ Continues(k + m, (pos + m) + 1)
           /\ Number(Payload)[k + m] % Pow2[ByteBits * m] = BytesAhead[m]
<1> DEFINE B == Pow2[ByteBits]
           N == Number(Payload)
           S == {m \in 0..Word : /\ k + m <= Len(Payload)
                                 /\ Continues(k + m, (pos + m) + 1)
                                 /\ N[k + m] % Pow2[ByteBits * m] = BytesAhead[m]}
<1>1. Word \in Nat /\ ByteBits \in Nat /\ B \in Nat \ {0} /\ Len(data) \in Nat
  BY Sizes, PowType
<1>2. Payload \in Seq(Byte) /\ Len(Payload) \in Nat
  BY PayloadType
<1>3. 0 \in S
  <2>1. ByteBits * 0 = 0 /\ BytesAhead[0] = 0 /\ Pow2[0] = 1 /\ k + 0 = k /\ pos + 0 = pos
    BY <1>1, AheadUnfolds, PowUnfolds
  <2>2. k <= Len(Payload)
    <3>1. pos + 1 \in 1..(Len(data) + 2)
      BY <1>1
    <3>2. Len(Rest[pos + 1]) \in Nat
      BY <3>1, RestUnfolds
    <3> QED
      BY <1>2, <3>2 DEF Continues
  <2>3. N[k] \in Nat
    BY <1>2, <2>2, NumberUnfolds
  <2>4. N[k] % 1 = 0
    BY <2>3
  <2>5. N[k + 0] % Pow2[ByteBits * 0] = BytesAhead[0]
    BY <2>1, <2>4
  <2> QED
    BY <1>1, <2>1, <2>2, <2>5
<1>4. ASSUME NEW m \in 0..(Word - 1), m \in S PROVE m + 1 \in S
  <2> DEFINE i == (pos + m) + 1
             j == k + m
  <2>1. /\ i \in 1..Len(data) /\ i \in 1..(Len(data) + 2) /\ ~(i > Len(data))
        /\ i + 1 \in 1..(Len(data) + 2)
        /\ i + 1 = (pos + (m + 1)) + 1 /\ j + 1 = k + (m + 1) /\ i = pos + (m + 1)
        /\ j \in Nat
    BY <1>1
  <2>2. \A T : ~Pair(i, T)
    <3>1. pos + m \in pos..(pos + Word - 1)
      BY <1>1
    <3>2. data[i] # Prefix
      BY <3>1 DEF FastPath, At
    <3> QED
      BY <3>2 DEF Pair
  <2> HIDE DEF i, j
  <2>3. Rest[i] = <<data[i]>> \o Rest[i + 1]
    <3>1. Rest[i] = RestAt(i, Rest)
      BY <2>1, RestUnfolds
    <3> QED
      BY <2>1, <2>2, <3>1 DEF RestAt
  <2>4. /\ j + 1 <= Len(Payload) /\ Payload[j + 1] = data[i]
        /\ Continues(j + 1, i + 1)
    <3>1. Continues(j, i)
      BY <1>4 DEF i, j
    <3> QED
      BY <2>1, <2>3, <3>1, ContinuesStep
  <2> DEFINE x == N[j]
             y == data[i]
             e == ByteBits * m
             d == Pow2[e]
  <2>5. N[j + 1] = x * B + y /\ x \in Nat
    <3>1. j \in 0..(Len(Payload) - 1) /\ j \in 0..Len(Payload)
      BY <1>2, <2>1, <2>4
    <3> QED
      BY <1>2, <2>4, <3>1, NumberUnfolds
  <2>6. BytesAhead[m + 1] = BytesAhead[m] * B + y
    BY <2>1, AheadUnfolds
  <2>7. y \in 0..(B - 1)
    <3>1. y \in Byte
      BY <2>1
    <3> QED
      BY <3>1 DEF Byte
  <2>8. e \in Nat /\ ByteBits * (m + 1) = ByteBits + e
    BY <1>1
  <2>9. d \in Nat \ {0} /\ Pow2[ByteBits * (m + 1)] = B * d /\ x % d = BytesAhead[m]
    <3>1. x % d = BytesAhead[m]
      BY <1>4 DEF j
    <3> HIDE DEF e
    <3> QED
      BY <1>1, <2>8, <3>1, PowType, PowSum
  <2> HIDE DEF x, y, e, d, B
  <2>10. (x * B + y) % (B * d) = BytesAhead[m] * B + y
    <3> DEFINE z == x * B + y
    <3>1. z \in Nat
      BY <1>1, <2>5, <2>7
    <3>2. z \div B = x /\ z % B = y
      BY <1>1, <2>5, <2>7, DivideUnique
    <3> HIDE DEF z
    <3>3. z % (B * d) = ((z \div B) % d) * B + (z % B)
      BY <1>1, <2>9, <3>1, DivideParts
    <3>4. z % (B * d) = BytesAhead[m] * B + y
      BY <2>9, <3>2, <3>3
    <3> QED
      BY <3>4 DEF z
  <2>11. N[j + 1] % Pow2[ByteBits * (m + 1)] = BytesAhead[m + 1]
    BY <2>5, <2>6, <2>9, <2>10
  <2>12. m + 1 \in 0..Word
    BY <1>1
  <2> QED
    BY <2>1, <2>4, <2>11, <2>12
<1> HIDE DEF S
<1>5. \A m \in 0..Word : m \in S
  BY <1>1, <1>3, <1>4, InductUpTo
<1> QED
  BY <1>5 DEF S

LEMMA FillFastKeeps ==
  ASSUME IInv, FillFast
  PROVE  IInv'
<1> DEFINE m == BytesToAdd
<1>1. /\ TypeOK /\ StreamInv /\ RegisterInv /\ data \in Seq(Byte)
      /\ pos \in Nat /\ left \in Nat /\ taken \in Nat /\ Len(data) \in Nat
      /\ ByteBits \in Nat \ {0} /\ Width \in Nat /\ Word \in Nat /\ left <= Width
      /\ pos + Word <= Len(data)
  BY Sizes, PumpAssumption DEF IInv, TypeOK, FillFast, FastPath
<1>2. /\ m \in 0..Word /\ m \in Nat /\ left + ByteBits * m <= Width
      /\ ByteBits * m \in Nat /\ m # 0
  <2> DEFINE room == Width - left
  <2>1. room \in Nat /\ room <= Word * ByteBits /\ m = room \div ByteBits
    BY <1>1 DEF Width, BytesToAdd
  <2>2. m # 0
    BY PumpAssumption DEF FillFast, FastPath
  <2> HIDE DEF room, m
  <2>3. m \in Nat /\ room = m * ByteBits + (room % ByteBits) /\ room % ByteBits \in Nat
    <3>1. room \in Nat /\ ByteBits \in Nat \ {0}
      BY <1>1, <2>1
    <3>2. /\ room \div ByteBits \in Nat /\ room % ByteBits \in 0..(ByteBits - 1)
          /\ room = (room \div ByteBits) * ByteBits + (room % ByteBits)
      BY <3>1, Divide
    <3> QED
      BY <2>1, <3>2
  <2>4. m * ByteBits <= room /\ m * ByteBits \in Nat
    BY <1>1, <2>1, <2>3
  <2>5. m <= Word
    <3>1. SUFFICES ASSUME Word + 1 <= m PROVE FALSE
      BY <1>1, <2>3
    <3>2. (Word + 1) * ByteBits <= m * ByteBits
      BY <1>1, <2>3, <3>1
    <3>3. (Word + 1) * ByteBits = Word * ByteBits + ByteBits
      BY <1>1
    <3> QED
      BY <1>1, <2>1, <2>4, <3>2, <3>3
  <2> QED
    BY <1>1, <2>2, <2>3, <2>4, <2>5 DEF room
<1>3. Payload' = Payload /\ Total' = Total /\ Rest' = Rest /\ data' = data
  BY DEF Payload, Total, Rest, Pair, FillFast
<1>4. Delivered \in Nat /\ taken + left = ByteBits * Delivered
  BY <1>1, DeliveredIs
<1> HIDE DEF m
<1>5. /\ bits' = Shifted(bits, ByteBits * m) + BytesAhead[m]
      /\ left' = left + ByteBits * m
      /\ pos' = pos + m /\ pc' = "fill"
      /\ UNCHANGED <<data, pc, op, n, result, taken>>
  <2>1. ByteBits * m = m * ByteBits
    BY <1>1, <1>2
  <2> QED
    BY <2>1 DEF FillFast, m
<1>6. ASSUME Continues(Delivered, pos + 1)
      PROVE  /\ Delivered + m <= Len(Payload)
             /\ Continues(Delivered + m, (pos + m) + 1)
             /\ Number(Payload)[Delivered + m] % Pow2[ByteBits * m] = BytesAhead[m]
  BY <1>1, <1>2, <1>4, <1>6, AheadIsPayload DEF FillFast
<1>7. Delivered' = Delivered + m /\ (taken' + left') % ByteBits = 0
  <2> DEFINE q == Delivered + m
  <2>1. taken' + left' = q * ByteBits + 0 /\ 0 \in 0..(ByteBits - 1) /\ q \in Nat
    <3>1. ByteBits * (Delivered + m) = ByteBits * Delivered + ByteBits * m
      BY <1>1, <1>2, <1>4
    <3>2. ByteBits * (Delivered + m) = (Delivered + m) * ByteBits
      BY <1>1, <1>2, <1>4
    <3> QED
      BY <1>1, <1>2, <1>4, <1>5, <3>1, <3>2
  <2> HIDE DEF q
  <2>2. (q * ByteBits + 0) \div ByteBits = q /\ (q * ByteBits + 0) % ByteBits = 0
    BY <1>1, <2>1, DivideUnique
  <2> QED
    BY <2>1, <2>2 DEF Delivered, q
<1>8. StreamInv'
  <2>1. CASE Continues(Delivered, pos + 1)
    <3>1. Continues(Delivered', pos' + 1)
      BY <1>5, <1>6, <1>7, <2>1
    <3> QED
      BY <1>3, <1>7, <3>1 DEF StreamInv, Continues
  <2>2. CASE HasEndOfImage /\ taken + left >= Total
    <3>1. HasEndOfImage'
      BY <1>3, <2>2 DEF HasEndOfImage, Pair
    <3>2. taken' + left' >= Total'
      <4>1. Total \in Nat
        BY <1>1, PayloadType
      <4> QED
        BY <1>1, <1>2, <1>3, <1>5, <2>2, <4>1
    <3> QED
      BY <1>7, <3>1, <3>2 DEF StreamInv
  <2> QED
    BY <1>1, <2>1, <2>2 DEF StreamInv
<1>9. RegisterInv' /\ bits' \in 0..(Pow2[Width] - 1)
  <2>1. BytesAhead[m] \in Nat /\ BytesAhead[m] < Pow2[ByteBits * m]
    BY <1>1, <1>2, AheadSmall
  <2>2. \/ taken + left >= Total
        \/ /\ Delivered + m <= Len(Payload)
           /\ Number(Payload)[Delivered + m] % Pow2[ByteBits * m] = BytesAhead[m]
    BY <1>1, <1>6 DEF StreamInv
  <2> QED
    BY <1>1, <1>2, <1>5, <2>1, <2>2, PutBytes
<1>10. TypeOK'
  <2>1. left' \in 0..Width /\ pos' \in 0..Len(data)
    BY <1>1, <1>2, <1>5
  <2> QED
    BY <1>1, <1>5, <1>9, <2>1 DEF IInv, TypeOK
<1>11. ShortInv' /\ PeekIsNextBits'
  BY <1>5 DEF ShortInv, PeekIsNextBits
<1> QED
  BY <1>8, <1>9, <1>10, <1>11 DEF IInv

LEMMA FillByteKeeps ==
  ASSUME IInv, FillByte
  PROVE  IInv'
<1>1. data \in Seq(Byte) /\ pos \in Nat /\ TypeOK /\ StreamInv /\ pos < Len(data) /\ Len(data) \in Nat
  BY PumpAssumption DEF IInv, TypeOK, FillByte, CanFill
<1>2. \A S : Pair(pos + 1, S) <=> At(pos) = Prefix /\ Follows(S)
  BY <1>1, PairIs
<1>3. ~Pair(pos + 1, {EndOfImage})
  BY <1>2 DEF FillByte
<1>4. CASE Pair(pos + 1, Restart)
  <2>1. pos' = pos + 2 /\ UNCHANGED <<data, bits, left, pc, op, n, result, taken>> /\ pc = "fill"
    BY <1>2, <1>4 DEF FillByte
  <2>2. Payload' = Payload /\ Total' = Total /\ Rest' = Rest /\ HasEndOfImage' = HasEndOfImage
    BY <2>1 DEF Payload, Total, Rest, Pair, HasEndOfImage
  <2>3. Rest[pos + 1] = Rest[pos' + 1]
    <3>1. /\ pos + 1 \in 1..(Len(data) + 2) /\ ~(pos + 1 > Len(data))
          /\ pos' + 1 = (pos + 1) + 2
      BY <1>1, <2>1
    <3>2. Rest[pos + 1] = RestAt(pos + 1, Rest)
      BY <1>1, <3>1, RestUnfolds
    <3> QED
      BY <1>3, <1>4, <3>1, <3>2 DEF RestAt
  <2>4. StreamInv'
    <3>1. Delivered' = Delivered
      BY <2>1 DEF Delivered
    <3>2. Continues(Delivered, pos + 1) => Continues(Delivered, pos + 1)'
      BY <2>2, <2>3, <3>1 DEF Continues
    <3> QED
      BY <1>1, <2>1, <2>2, <3>2 DEF StreamInv
  <2>5. RegisterInv'
    <3>1. RegisterInv' = RegisterInv
      BY <2>1, <2>2 DEF RegisterInv, Genuine, BitsOf
    <3> QED
      BY <3>1 DEF IInv
  <2>6. TypeOK'
    <3>1. pos' \in 0..Len(data)
      BY <1>1, <1>4, <2>1 DEF Pair
    <3> QED
      BY <1>1, <2>1, <3>1 DEF TypeOK
  <2>7. ShortInv' /\ PeekIsNextBits'
    BY <2>1 DEF ShortInv, PeekIsNextBits
  <2> QED
    BY <2>4, <2>5, <2>6, <2>7 DEF IInv
<1>5. CASE ~Pair(pos + 1, Restart)
  <2>1. /\ bits' = Shifted(bits, ByteBits) + At(pos) /\ left' = left + ByteBits
        /\ pos' = (IF Pair(pos + 1, {Stuffing}) THEN pos + 2 ELSE pos + 1)
        /\ pc = "fill" /\ CanFill /\ UNCHANGED <<data, pc, op, n, result, taken>>
    BY <1>2, <1>5 DEF FillByte
  <2> QED
    BY <1>3, <1>5, <2>1, DataByte
<1> QED
  BY <1>4, <1>5

(* Once the input has no more payload, all of it has been delivered.       *)
LEMMA NoMoreIsAll ==
  ASSUME TypeOK, StreamInv, Rest[pos + 1] = <<>>
  PROVE  taken + left >= Total
<1>1. Delivered \in Nat /\ taken + left = ByteBits * Delivered /\ taken + left \in Nat
  BY DeliveredIs, Sizes
<1>2. data \in Seq(Byte)
  BY PumpAssumption DEF TypeOK
<1>3. Len(Payload) \in Nat /\ Total = ByteBits * Len(Payload) /\ Total \in Nat
  BY <1>2, PayloadType DEF Total
<1>4. CASE Continues(Delivered, pos + 1)
  <2>1. Delivered = Len(Payload)
    BY <1>1, <1>3, <1>4 DEF Continues
  <2> QED
    BY <1>1, <1>3, <2>1
<1> QED
  BY <1>4 DEF StreamInv

(* fill() returns.                                                         *)
LEMMA FillEndKeeps ==
  ASSUME IInv, FillMarker \/ FillDone
  PROVE  IInv'
<1>1. /\ data \in Seq(Byte) /\ pos \in Nat /\ pos <= Len(data) /\ Len(data) \in Nat
      /\ TypeOK /\ StreamInv /\ RegisterInv
  BY PumpAssumption DEF IInv, TypeOK
<1>2. UNCHANGED <<data, bits, left, op, n, result, taken>> /\ pc' = Filled /\ pc = "fill"
  BY DEF FillMarker, FillDone
<1>3. Payload' = Payload /\ Total' = Total /\ Rest' = Rest /\ HasEndOfImage' = HasEndOfImage
  BY <1>2 DEF Payload, Total, Rest, Pair, HasEndOfImage
<1>4. pc' \in {"value", "ready"}
  BY <1>2 DEF Filled
<1>5. RegisterInv'
  <2>1. RegisterInv' = RegisterInv
    BY <1>2, <1>3 DEF RegisterInv, Genuine, BitsOf
  <2> QED
    BY <1>1, <2>1
<1>6. PeekIsNextBits'
  BY <1>4 DEF PeekIsNextBits
<1>7. ASSUME taken + left >= Total PROVE ShortInv'
  BY <1>2, <1>3, <1>7 DEF ShortInv
<1>8. CASE FillMarker
  <2>1. pos + 1 \in 1..Len(data) /\ Pair(pos + 1, {EndOfImage})
    <3>1. At(pos) = Prefix /\ Follows({EndOfImage})
      BY <1>8 DEF FillMarker
    <3> QED
      BY <1>1, <3>1, PairIs DEF Follows
  <2>2. Rest[pos + 1] = <<>>
    <3>1. pos + 1 \in 1..(Len(data) + 2)
      BY <1>1
    <3>2. Rest[pos + 1] = RestAt(pos + 1, Rest)
      BY <1>1, <3>1, RestUnfolds
    <3> QED
      BY <2>1, <3>2 DEF RestAt
  <2>3. taken + left >= Total /\ HasEndOfImage
    BY <1>1, <2>1, <2>2, NoMoreIsAll DEF HasEndOfImage
  <2>4. StreamInv'
    BY <1>1, <1>2, <1>3, <2>3 DEF StreamInv
  <2>5. TypeOK'
    <3>1. pos' \in 0..Len(data)
      BY <1>1, <1>8, <2>1 DEF FillMarker
    <3> QED
      BY <1>1, <1>2, <1>4, <3>1 DEF TypeOK
  <2> QED
    BY <1>5, <1>6, <1>7, <2>3, <2>4, <2>5 DEF IInv
<1>9. CASE FillDone
  <2>1. pos' = pos
    BY <1>9 DEF FillDone
  <2>2. StreamInv'
    <3>1. Delivered' = Delivered
      BY <1>2 DEF Delivered
    <3>2. Continues(Delivered, pos + 1) => Continues(Delivered, pos + 1)'
      BY <1>3, <2>1, <3>1 DEF Continues
    <3> QED
      BY <1>1, <1>2, <1>3, <3>2 DEF StreamInv
  <2>3. TypeOK'
    BY <1>1, <1>2, <1>4, <2>1 DEF TypeOK
  <2>4. ShortInv'
    <3>1. CASE left > Width - ByteBits
      <4>1. n <= left
        <5>1. n <= Half /\ n \in Nat /\ left \in Nat
          BY <1>1, Sizes DEF TypeOK
        <5> QED
          BY <3>1, <5>1, Sizes
      <4>2. ~(left < n)
        BY <1>1, <4>1, Sizes DEF TypeOK
      <4> QED
        BY <1>2, <4>2 DEF ShortInv
    <3>2. CASE left <= Width - ByteBits
      <4>1. pos = Len(data)
        BY <1>1, <1>9, <3>2 DEF FillDone, CanFill
      <4>2. pos + 1 \in 1..(Len(data) + 2) /\ pos + 1 > Len(data)
        BY <1>1, <4>1
      <4>3. Rest[pos + 1] = <<>>
        BY <1>1, <4>2, RestUnfolds DEF RestAt
      <4> QED
        BY <1>1, <1>7, <4>3, NoMoreIsAll
    <3> QED
      BY <1>1, <3>1, <3>2, Sizes DEF TypeOK
  <2> QED
    BY <1>5, <1>6, <2>2, <2>3, <2>4 DEF IInv
<1> QED
  BY <1>8, <1>9

(* A step that moves no bits.                                              *)
LEMMA StreamStays ==
  ASSUME StreamInv, RegisterInv, UNCHANGED <<data, pos, bits, left, taken>>
  PROVE  StreamInv' /\ RegisterInv' /\ Payload' = Payload /\ Total' = Total
<1>1. Payload' = Payload /\ Total' = Total /\ Rest' = Rest /\ HasEndOfImage' = HasEndOfImage
  BY DEF Payload, Total, Rest, Pair, HasEndOfImage
<1>2. Delivered' = Delivered
  BY DEF Delivered
<1>3. Continues(Delivered, pos + 1) => Continues(Delivered, pos + 1)'
  BY <1>1, <1>2 DEF Continues
<1>4. StreamInv'
  BY <1>1, <1>3 DEF StreamInv
<1>5. RegisterInv' = RegisterInv
  BY <1>1 DEF RegisterInv, Genuine, BitsOf
<1> QED
  BY <1>1, <1>4, <1>5

LEMMA PeekKeeps ==
  ASSUME IInv, NEW o \in {"peek", "get"}, NEW k \in 0..Half, Peek(o, k)
  PROVE  IInv'
<1>1. StreamInv' /\ RegisterInv' /\ TypeOK
  BY StreamStays DEF IInv, Peek
<1>2. TypeOK'
  BY <1>1 DEF TypeOK, Peek
<1>3. left \in Nat /\ k \in Nat
  BY <1>1, Sizes DEF TypeOK
<1>4. ShortInv'
  BY <1>3 DEF ShortInv, Peek
<1>5. PeekIsNextBits'
  BY DEF PeekIsNextBits, Peek
<1> QED
  BY <1>1, <1>2, <1>4, <1>5 DEF IInv

LEMMA PowGrows ==
  ASSUME NEW i \in Nat, NEW j \in Nat, i <= j
  PROVE  Pow2[i] <= Pow2[j]
<1> DEFINE d == j - i
           a == Pow2[i]
           c == Pow2[d]
<1>1. a \in Nat \ {0} /\ c \in Nat \ {0} /\ Pow2[j] = a * c
  <2>1. d \in Nat /\ j = i + d
    OBVIOUS
  <2> HIDE DEF d
  <2> QED
    BY <2>1, PowType, PowSum
<1> HIDE DEF a, c
<1>2. a <= a * c
  BY <1>1
<1> QED
  BY <1>1, <1>2 DEF a

(* What peek returns, read off the payload.                                *)
LEMMA PeekValueKeeps ==
  ASSUME IInv, PeekValue
  PROVE  IInv'
<1>1. UNCHANGED <<data, pos, bits, left, op, n, taken>> /\ pc = "value" /\ pc' = "peeked"
  BY DEF PeekValue
<1>2. /\ TypeOK /\ StreamInv /\ RegisterInv /\ ShortInv /\ data \in Seq(Byte)
      /\ bits \in Nat /\ left \in Nat /\ taken \in Nat /\ n \in Nat /\ n <= Half /\ Half \in Nat \ {0}
  BY Sizes, PowType, PumpAssumption DEF IInv, TypeOK
<1>3. StreamInv' /\ RegisterInv' /\ Payload' = Payload /\ Total' = Total
  BY <1>1, <1>2, StreamStays
<1> DEFINE V == Number(Payload)[Len(Payload)]
<1>4. V \in Nat /\ Total \in Nat /\ Agrees(bits, left, taken, V, Total)
  BY <1>2, PayloadType, RegisterIs
<1> HIDE DEF V
<1> DEFINE R == /\ result' \in 0..(Pow2[Half] - 1)
                /\ taken + n <= Total => result' = Field(V, Total - taken - n, n)
<1>5. ASSUME n = 0 PROVE R
  <2>1. result' = 0
    BY <1>5 DEF PeekValue
  <2>2. 0 \in 0..(Pow2[Half] - 1)
    BY <1>2, PowType
  <2>3. ASSUME taken + n <= Total PROVE Field(V, Total - taken - n, n) = 0
    <3> DEFINE off == Total - taken - n
    <3>1. off \in Nat
      BY <1>2, <1>4, <2>3
    <3> HIDE DEF off
    <3>2. Field(V, off, n) \in 0..(Pow2[0] - 1)
      BY <1>2, <1>4, <1>5, <3>1, FieldType
    <3> QED
      BY <3>2, PowUnfolds DEF off
  <2> QED
    BY <2>1, <2>2, <2>3
<1>6. ASSUME n # 0, left < n PROVE R
  <2>1. result' = Padded(n)
    BY <1>6 DEF PeekValue
  <2>2. Padded(n) \in 0..(Pow2[Half] - 1)
    <3> DEFINE e == (n - left) % Half
               x == bits % Pow2[Half]
    <3>1. e \in Nat
      <4>1. n - left \in Nat
        BY <1>2, <1>6
      <4>2. e \in 0..(Half - 1)
        BY <1>2, <4>1, Divide
      <4> QED
        BY <1>2, <4>2
    <3>2. Pow2[Half] \in Nat \ {0} /\ Pow2[e] \in Nat
      <4> HIDE DEF e
      <4> QED
        BY <1>2, <3>1, PowType
    <3>3. x \in Nat
      <4>1. x \in 0..(Pow2[Half] - 1)
        BY <1>2, <3>2, Divide
      <4> QED
        BY <3>2, <4>1
    <3> HIDE DEF x, e
    <3>4. x * Pow2[e] \in Nat
      BY <3>2, <3>3
    <3>5. (x * Pow2[e]) % Pow2[Half] \in 0..(Pow2[Half] - 1)
      BY <3>2, <3>4, Divide
    <3> QED
      BY <3>5 DEF Padded, x, e
  <2>3. ~(taken + n <= Total)
    BY <1>1, <1>2, <1>4, <1>6 DEF ShortInv
  <2> QED
    BY <2>1, <2>2, <2>3
<1>7. ASSUME n # 0, ~(left < n) PROVE R
  <2> DEFINE off == left - n
  <2>1. off \in Nat /\ n \in 0..left
    BY <1>2, <1>7
  <2>2. result' = Field(bits, off, n)
    BY <1>7 DEF PeekValue, Field
  <2>3. Field(bits, off, n) \in 0..(Pow2[Half] - 1)
    <3> HIDE DEF off
    <3>1. Field(bits, off, n) \in 0..(Pow2[n] - 1)
      BY <1>2, <2>1, FieldType
    <3>2. Pow2[n] \in Nat /\ Pow2[Half] \in Nat /\ Pow2[n] <= Pow2[Half]
      BY <1>2, PowType, PowGrows
    <3> QED
      BY <3>1, <3>2
  <2>4. ASSUME taken + n <= Total PROVE Field(bits, off, n) = Field(V, Total - taken - n, n)
    <3>1. /\ bits \in Nat /\ left \in Nat /\ taken \in Nat /\ V \in Nat /\ Total \in Nat
          /\ n \in 0..left /\ taken + n <= Total /\ Agrees(bits, left, taken, V, Total)
      BY <1>2, <1>4, <2>1, <2>4
    <3>2. Top(bits, left, n) = Field(V, Total - taken - n, n)
      BY <3>1, PeekAgrees
    <3> QED
      BY <3>2 DEF Top
  <2> HIDE DEF off
  <2> QED
    BY <2>2, <2>3, <2>4
<1>8. R
  BY <1>5, <1>6, <1>7
<1>9. PeekIsNextBits'
  <2>1. PeekIsNextBits' = (taken + n <= Total => result' = BitsOf(Payload, taken, n))
    BY <1>1, <1>3 DEF PeekIsNextBits, BitsOf
  <2> QED
    BY <1>8, <2>1 DEF BitsOf, Total, V
<1>10. TypeOK'
  BY <1>1, <1>2, <1>8 DEF TypeOK
<1>11. ShortInv'
  BY <1>1, <1>2, <1>3 DEF ShortInv
<1> QED
  BY <1>3, <1>9, <1>10, <1>11 DEF IInv

LEMMA PeekedKeeps ==
  ASSUME IInv, Peeked
  PROVE  IInv'
<1>1. StreamInv' /\ RegisterInv' /\ TypeOK
  BY StreamStays DEF IInv, Peeked
<1>2. TypeOK'
  BY <1>1, Sizes, PowType DEF TypeOK, Peeked
<1>3. ShortInv' /\ PeekIsNextBits'
  BY DEF ShortInv, PeekIsNextBits, Peeked
<1> QED
  BY <1>1, <1>2, <1>3 DEF IInv

LEMMA ConsumeKeeps ==
  ASSUME IInv, NEW k \in 0..Half, Consume(k)
  PROVE  IInv'
<1>1. StreamInv' /\ RegisterInv' /\ TypeOK
  BY StreamStays DEF IInv, Consume
<1>2. TypeOK'
  BY <1>1 DEF TypeOK, Consume
<1>3. ShortInv' /\ PeekIsNextBits'
  BY DEF ShortInv, PeekIsNextBits, Consume
<1> QED
  BY <1>1, <1>2, <1>3 DEF IInv

LEMMA ConsumeBitsKeeps ==
  ASSUME IInv, ConsumeBits
  PROVE  IInv'
<1>1. /\ TypeOK /\ StreamInv /\ RegisterInv /\ data \in Seq(Byte) /\ Width \in Nat /\ Half \in Nat
      /\ bits \in Nat /\ left \in Nat /\ left <= Width /\ taken \in Nat /\ n \in Nat
  BY Sizes, PowType, PumpAssumption DEF IInv, TypeOK
<1>2. PICK u \in 0..left :
        /\ left' = left - u /\ taken' = taken + u
        /\ op' = "none" /\ n' = 0 /\ pc' \in {"fill", "ready"}
        /\ UNCHANGED <<data, pos, bits, result>>
  <2>1. CASE n <= left
    BY <1>1, <2>1 DEF ConsumeBits
  <2>2. CASE ~(n <= left)
    BY <1>1, <2>2 DEF ConsumeBits
  <2> QED
    BY <2>1, <2>2
<1>3. /\ Payload' = Payload /\ Total' = Total /\ Rest' = Rest /\ HasEndOfImage' = HasEndOfImage
  BY <1>2 DEF Payload, Total, Rest, Pair, HasEndOfImage
<1>4. taken' + left' = taken + left /\ left' \in Nat /\ taken' \in Nat /\ left' <= Width
  BY <1>1, <1>2
<1>5. StreamInv'
  <2>1. Delivered' = Delivered
    BY <1>4 DEF Delivered
  <2>2. Continues(Delivered, pos + 1) => Continues(Delivered, pos + 1)'
    BY <1>2, <1>3, <2>1 DEF Continues
  <2> QED
    BY <1>1, <1>2, <1>3, <1>4, <2>2 DEF StreamInv
<1>6. RegisterInv'
  <2> DEFINE V == Number(Payload)[Len(Payload)]
  <2>1. V \in Nat /\ Total \in Nat /\ Agrees(bits, left, taken, V, Total)
    BY <1>1, PayloadType, RegisterIs
  <2> HIDE DEF V
  <2>2. Agrees(bits, left - u, taken + u, V, Total)
    BY <1>1, <2>1, ConsumeAgrees
  <2>3. RegisterInv' = Agrees(bits', left', taken', Number(Payload')[Len(Payload')], Total')
    BY DEF RegisterInv, Agrees, Genuine, BitsOf, Total
  <2> QED
    BY <1>2, <1>3, <2>2, <2>3 DEF V
<1>7. TypeOK'
  BY <1>1, <1>2, <1>4 DEF TypeOK
<1>8. ShortInv' /\ PeekIsNextBits'
  BY <1>2 DEF ShortInv, PeekIsNextBits
<1> QED
  BY <1>5, <1>6, <1>7, <1>8 DEF IInv

LEMMA NextIInv == IInv /\ [Next]_vars => IInv'
<1> SUFFICES ASSUME IInv, [Next]_vars PROVE IInv'
  OBVIOUS
<1>1. CASE FillFast
  BY <1>1, FillFastKeeps
<1>2. CASE FillByte
  BY <1>2, FillByteKeeps
<1>3. CASE FillMarker \/ FillDone
  BY <1>3, FillEndKeeps
<1>4. ASSUME NEW k \in 0..Half, Peek("peek", k) \/ Peek("get", k) \/ Consume(k)
      PROVE  IInv'
  BY <1>4, PeekKeeps, ConsumeKeeps
<1>5. CASE PeekValue
  BY <1>5, PeekValueKeeps
<1>6. CASE Peeked
  BY <1>6, PeekedKeeps
<1>7. CASE ConsumeBits
  BY <1>7, ConsumeBitsKeeps
<1>8. CASE UNCHANGED vars
  <2>1. UNCHANGED <<data, pos, bits, left, taken, pc, op, n, result>>
    BY <1>8 DEF vars
  <2>2. StreamInv' /\ RegisterInv' /\ Payload' = Payload /\ Total' = Total
    BY <2>1, StreamStays DEF IInv
  <2> QED
    BY <2>1, <2>2 DEF IInv, TypeOK, ShortInv, PeekIsNextBits
<1> QED
  BY <1>1, <1>2, <1>3, <1>4, <1>5, <1>6, <1>7, <1>8 DEF Next

-----------------------------------------------------------------------------
(* The theorems                                                            *)

THEOREM Inductive == Spec => []IInv
BY InitIInv, NextIInv, PTL DEF Spec

(* fill, peek, get_bits and consume keep the register within its width,    *)
(* read no byte outside the input, and return what fits a u32, on every    *)
(* input and in every order of calls.                                      *)
THEOREM StaysInBounds == Spec => []TypeOK
<1>1. IInv => TypeOK
  BY DEF IInv
<1> QED
  BY <1>1, Inductive, PTL

(* The register always holds the payload's next bits.                      *)
THEOREM RegisterAlwaysNextBits == Spec => []RegisterIsNextBits
<1>1. ASSUME IInv PROVE RegisterIsNextBits
  <2>1. bits \in Nat /\ left \in Nat /\ taken \in Nat /\ data \in Seq(Byte)
    BY <1>1, Sizes, PowType, PumpAssumption DEF IInv, TypeOK
  <2>2. Total \in Nat
    BY <2>1, PayloadType
  <2>3. ASSUME taken + left <= Total PROVE bits % Pow2[left] = BitsOf(Payload, taken, left)
    <3>1. taken <= Total /\ Genuine = left
      BY <2>1, <2>2, <2>3 DEF Genuine
    <3>2. left - left = 0
      BY <2>1
    <3>3. Field(bits, 0, left) = BitsOf(Payload, taken, left)
      BY <1>1, <3>1, <3>2 DEF IInv, RegisterInv
    <3>4. bits \div Pow2[0] = bits
      BY <2>1, PowUnfolds
    <3> QED
      BY <3>3, <3>4 DEF Field
  <2> QED
    BY <2>3 DEF RegisterIsNextBits
<1> QED
  BY <1>1, Inductive, PTL

(* peek and get_bits return the payload's next n bits.                     *)
THEOREM PeekAlwaysNextBits == Spec => []PeekIsNextBits
<1>1. IInv => PeekIsNextBits
  BY DEF IInv
<1> QED
  BY <1>1, Inductive, PTL

(* Without an EOI, a read runs short only where the input ends.            *)
THEOREM ShortAlwaysAtEnd == Spec => []ShortOnlyAtEnd
<1>1. ASSUME IInv, ~HasEndOfImage PROVE taken + left <= Total
  <2>1. TypeOK /\ StreamInv /\ data \in Seq(Byte) /\ pos \in Nat /\ pos <= Len(data)
    BY <1>1, PumpAssumption DEF IInv, TypeOK
  <2>2. Delivered \in Nat /\ taken + left = ByteBits * Delivered
    BY <2>1, DeliveredIs
  <2>3. Len(Payload) \in Nat /\ Total = ByteBits * Len(Payload)
    BY <2>1, PayloadType DEF Total
  <2>4. Len(Rest[pos + 1]) \in Nat
    <3>1. pos + 1 \in 1..(Len(data) + 2)
      BY <2>1
    <3> QED
      BY <2>1, <3>1, RestUnfolds
  <2>5. Delivered <= Len(Payload)
    BY <1>1, <2>1, <2>2, <2>3, <2>4 DEF StreamInv, Continues
  <2>6. ByteBits * Delivered <= ByteBits * Len(Payload)
    BY <2>2, <2>3, <2>5, Sizes
  <2> QED
    BY <2>2, <2>3, <2>6
<1>2. ASSUME IInv PROVE ShortOnlyAtEnd
  <2>1. taken \in Nat /\ left \in Nat /\ data \in Seq(Byte)
    BY <1>2, Sizes, PumpAssumption DEF IInv, TypeOK
  <2>2. Total \in Nat
    BY <2>1, PayloadType
  <2> QED
    BY <1>1, <1>2, <2>1, <2>2 DEF IInv, ShortInv, ShortOnlyAtEnd
<1> QED
  BY <1>2, Inductive, PTL
=============================================================================
