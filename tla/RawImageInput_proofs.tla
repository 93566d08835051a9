------------------------ MODULE RawImageInput_proofs ------------------------
(***************************************************************************)
(* The scan of an indexed image stays within its data and sees every pixel *)
(* as PNG lays it out, and the outcome is the one the arguments call for:  *)
(* for images of any size that a u32 can express, whatever the width of    *)
(* usize as long as eight times a u32 fits.                                *)
(***************************************************************************)
EXTENDS RawImageInput, TLAPS

\* Where the scan is: at a pixel of an image whose arguments were accepted.
ScanInv ==
    pc = "scan" =>
        /\ call.width \in 1..MaxU32
        /\ call.height \in 1..MaxU32
        /\ Depth(call) \in {1, 2, 4, 8}
        /\ Kind(call) = "indexed" /\ DataLength(call) < UsizeRange
        /\ x \in 0..(call.width - 1)
        /\ row \in 0..call.height

\* The scan begins at the first pixel.
StartInv == pc = "check" => row = 0 /\ x = 0

IInv == TypeOK /\ StartInv /\ ScanInv /\ NeverPanics

\* Two checks in a row pass only if both do.
LEMMA BothPass ==
    ASSUME NEW first, NEW second, (first ?? second) = "none"
    PROVE  first = "none" /\ second = "none"
  BY DEF ??

\* What the checks of the arguments may raise.
LEMMA ArgumentErrors ==
    ASSUME NEW c PROVE ArgumentError(c) \in {"none", "TypeError", "ValueError"}
  <1> DEFINE E == {"none", "TypeError", "ValueError"}
  <1>1. ASSUME NEW a \in E, NEW b \in E PROVE (a ?? b) \in E
    BY DEF ??
  <1>2. ASSUME NEW holds, NEW error \in E PROVE Check(holds, error) \in E
    BY DEF Check
  <1> HIDE DEF E
  <1>3. "none" \in E /\ "TypeError" \in E /\ "ValueError" \in E
    BY DEF E
  <1>4. /\ BitDepth(c) \in E
        /\ KeywordsAllowed(c) \in E
        /\ \A i : Once(c, i) \in E
        /\ \A name, n : Number(c, name, n) \in E
    BY <1>1, <1>2, <1>3 DEF BitDepth, KeywordsAllowed, Once, Number
  <1>5. StableError(c) \in E
    BY <1>1, <1>2, <1>3, <1>4 DEF StableError
  <1>6. CompatError(c) \in E
    BY <1>1, <1>2, <1>3, <1>4 DEF CompatError
  <1>7. TransparentError(c) \in E
    BY <1>1, <1>2, <1>3 DEF TransparentError
  <1>8. PaletteError(c) \in E
    <2> DEFINE shapes == \A i \in DOMAIN Palette(c) : Len(Palette(c)[i]) \in {3, 4}
               samples == \A i \in DOMAIN Palette(c) :
                             \A j \in DOMAIN Palette(c)[i] : Palette(c)[i][j] \in 0..255
    <2>1. Check(shapes, "ValueError") \in E /\ Check(samples, "ValueError") \in E
      BY <1>3 DEF Check
    <2>2. /\ Check(Palette(c) # Omitted, "ValueError") \in E
          /\ Check(Len(Palette(c)) \in 1..256, "ValueError") \in E
          /\ Check("palette" \notin c.bools, "TypeError") \in E
      BY <1>3 DEF Check
    <2> HIDE DEF shapes, samples
    <2>3. Kind(c) = "indexed" =>
              PaletteError(c) = Check(Palette(c) # Omitted, "ValueError")
                                ?? Check(Len(Palette(c)) \in 1..256, "ValueError")
                                ?? Check(shapes, "ValueError")
                                ?? Check("palette" \notin c.bools, "TypeError")
                                ?? Check(samples, "ValueError")
      BY Zenon DEF PaletteError, shapes, samples
    <2> QED
      BY <1>3, <2>1, <2>2, <2>3 DEF PaletteError, ??
  <1>9. PartsError(c) \in E
    BY <1>1, <1>2, <1>3, <1>4, <1>7, <1>8 DEF PartsError
  <1> QED
    BY <1>1, <1>5, <1>6, <1>9 DEF ArgumentError, E

\* What the checks leave: dimensions within u32, a depth that PNG has, and
\* data whose length is a usize.
LEMMA AcceptedShape ==
    ASSUME NEW c, ArgumentError(c) = "none"
    PROVE  /\ c.width \in 1..MaxU32
           /\ c.height \in 1..MaxU32
           /\ Depth(c) \in Depths
           /\ DataLength(c) < UsizeRange
  <1>1. PartsError(c) = "none"
    BY BothPass DEF ArgumentError
  <1>2. Depth(c) \in Depths /\ c.width > 0 /\ c.height > 0 /\ DataLength(c) < UsizeRange
    <2> DEFINE dims == Check(c.width > 0 /\ c.height > 0, "ValueError")
               length == Check(DataLength(c) < UsizeRange, "ValueError")
    <2>1. BitDepth(c) = "none" /\ dims = "none" /\ length = "none"
      <3> HIDE DEF dims, length
      <3>1. (BitDepth(c)
             ?? Check(~c.descriptor \/ IsCompat(c), "ValueError")
             ?? Check(Kind(c) \in Kinds, "ValueError")
             ?? TransparentError(c) ?? PaletteError(c)
             ?? dims
             ?? Check(c.bytesLike, "TypeError")
             ?? length) = "none"
        BY <1>1 DEF PartsError, dims, length
      <3> QED
        BY <3>1 DEF ??
    <2> QED
      BY <2>1 DEF BitDepth, Check, ??
  <1>3. /\ Number(c, "width", c.width) = "none"
        /\ Number(c, "height", c.height) = "none"
    <2>1. CASE IsCompat(c)
      BY <2>1, BothPass DEF ArgumentError, CompatError
    <2>2. CASE ~IsCompat(c)
      BY <2>2, BothPass DEF ArgumentError, StableError
    <2> QED
      BY <2>1, <2>2
  <1>4. c.width \in 0..MaxU32 /\ c.height \in 0..MaxU32
    BY <1>3 DEF Number, Check, ??
  <1> QED
    BY <1>2, <1>4, RawImageAssumption

\* A pixel of a row begins inside the bytes of the row: nothing wraps, and the
\* row has room for the bits of all its pixels.
LEMMA OffsetInRow ==
    ASSUME NEW w \in 1..MaxU32, NEW d \in {1, 2, 4, 8}, NEW col \in 0..(w - 1)
    PROVE  ~(Wrap(col * d) \div 8 >= CeilDiv(Wrap(w * d), 8))
  <1> USE RawImageAssumption
  <1>1. w \in Nat /\ col \in Nat /\ col < w /\ w <= MaxU32
    OBVIOUS
  <1>2. /\ w * d \in Nat /\ w * d < UsizeRange
        /\ col * d \in Nat /\ col * d < UsizeRange
    BY <1>1
  <1>3. Wrap(w * d) = w * d /\ Wrap(col * d) = col * d
    <2>1. ASSUME NEW n \in Nat, n < UsizeRange PROVE n % UsizeRange = n
      BY <2>1
    <2> QED
      BY <1>2, <2>1 DEF Wrap
  <1>4. (col * d) \div 8 < (w * d + 8 - 1) \div 8
    BY <1>1
  <1> QED
    BY <1>3, <1>4 DEF CeilDiv

\* No row begins past the greatest usize: all of them together do not reach it.
LEMMA RowInData ==
    ASSUME NEW b \in Nat, NEW h \in Nat, NEW r \in 0..(h - 1), b * h < UsizeRange
    PROVE  ~(Wrap(r * b) > Wrap(Wrap(r * b) + b))
  <1> USE RawImageAssumption
  <1>1. r * b \in Nat /\ r * b + b \in Nat
    OBVIOUS
  <1>2. r * b + b <= b * h
    <2>1. PICK k \in Nat : h = r + 1 + k
      <3>1. h - (r + 1) \in Nat /\ h = r + 1 + (h - (r + 1))
        OBVIOUS
      <3> QED
        BY <3>1
    <2>2. b * h = r * b + b + k * b /\ k * b >= 0
      BY <2>1
    <2> QED
      BY <1>1, <2>2
  <1>3. ASSUME NEW n \in Nat, n < UsizeRange PROVE n % UsizeRange = n
    BY <1>3
  <1>4. Wrap(r * b) = r * b
    BY <1>1, <1>2, <1>3 DEF Wrap
  <1>5. Wrap(r * b + b) = r * b + b
    BY <1>1, <1>2, <1>3 DEF Wrap
  <1> QED
    BY <1>1, <1>4, <1>5

\* The bytes of a row, as the scan and as the check of the length count them.
LEMMA RowBytesAgree ==
    ASSUME ScanInv, pc = "scan"
    PROVE  /\ ScanRowBytes = RowBytes(call) /\ RowBytes(call) \in Nat
           /\ DataLength(call) = RowBytes(call) * call.height
  <1> DEFINE bits == call.width * Depth(call)
  <1>1. bits \in Nat /\ bits < UsizeRange
    BY RawImageAssumption DEF ScanInv
  <1>2. bits * Channels[Kind(call)] = bits
    BY <1>1 DEF ScanInv, Channels
  <1>3. Wrap(bits) = bits
    BY <1>1, RawImageAssumption DEF Wrap
  <1>4. CeilDiv(bits, 8) \in Nat
    BY <1>1 DEF CeilDiv
  <1> QED
    BY <1>2, <1>3, <1>4 DEF ScanRowBytes, RowBytes, DataLength

\* No pixel has been read.
LEMMA InitIInv == Init => IInv
  BY RawImageAssumption DEF Init, IInv, TypeOK, StartInv, ScanInv, NeverPanics, Outcomes

\* Every step of the scan keeps it within the rows.
LEMMA StepIInv == IInv /\ [Next]_vars => IInv'
  <1> SUFFICES ASSUME IInv, [Next]_vars PROVE IInv'
    OBVIOUS
  <1> USE RawImageAssumption DEF IInv
  <1>1. CASE RejectArguments
    BY <1>1, ArgumentErrors
       DEF RejectArguments, Done, TypeOK, StartInv, ScanInv, NeverPanics, Outcomes
  <1>2. CASE RejectPalette
    BY <1>2 DEF RejectPalette, Done, TypeOK, StartInv, ScanInv, NeverPanics, Outcomes
  <1>3. CASE Accept
    <2>1. row = 0 /\ x = 0 /\ ArgumentError(call) = "none"
      BY <1>3 DEF Accept, StartInv
    <2>2. ScanInv'
      BY <1>3, <2>1, AcceptedShape DEF Accept, ScanInv, Depth, Kind, IsCompat, Depths, DataLength, RowBytes
    <2> QED
      BY <1>3, <2>1, <2>2 DEF Accept, TypeOK, StartInv, ScanInv, NeverPanics, Outcomes
  <1>4. CASE ScanPixel
    <2>1. ~(Start > End \/ Offset \div 8 >= ScanRowBytes)
      <3>1. ~(Offset \div 8 >= ScanRowBytes)
        BY <1>4, OffsetInRow DEF ScanPixel, ScanInv, Offset, ScanRowBytes
      <3>2. call.height \in Nat /\ row \in 0..(call.height - 1)
        BY <1>4 DEF ScanPixel, Exhausted, ScanInv
      <3>3. ~(Start > End)
        BY <1>4, <3>2, RowBytesAgree, RowInData DEF ScanPixel, ScanInv, Start, End
      <3> QED
        BY <3>1, <3>3
    <2>2. CASE Pixel >= Len(Palette(call))
      BY <1>4, <2>1, <2>2 DEF ScanPixel, Done, TypeOK, StartInv, ScanInv, NeverPanics, Outcomes
    <2>3. CASE ~(Pixel >= Len(Palette(call)))
      <3>1. NextPixel /\ UNCHANGED <<call, pc, outcome>> /\ row # call.height /\ pc = "scan"
        BY <1>4, <2>1, <2>3 DEF ScanPixel, Exhausted
      <3>2. ScanInv'
        BY <3>1 DEF NextPixel, ScanInv, Depth, Kind, IsCompat, DataLength, RowBytes
      <3> QED
        BY <3>1, <3>2 DEF TypeOK, StartInv, ScanInv, NeverPanics, Outcomes
    <2> QED
      BY <2>2, <2>3
  <1>5. CASE EndScan
    BY <1>5 DEF EndScan, TypeOK, StartInv, ScanInv, NeverPanics, Outcomes
  <1>6. CASE Build
    BY <1>6 DEF Build, Done, TypeOK, StartInv, ScanInv, NeverPanics, Outcomes
  <1>7. CASE UNCHANGED vars
    BY <1>7 DEF vars, TypeOK, StartInv, ScanInv, NeverPanics, Depth, Kind, IsCompat, DataLength, RowBytes
  <1> QED
    BY <1>1, <1>2, <1>3, <1>4, <1>5, <1>6, <1>7 DEF Next

\* And so in every behaviour.
LEMMA AlwaysIInv == Spec => []IInv
  BY InitIInv, StepIInv, PTL DEF Spec

\* The scan is at a pixel of the image, and ends with one outcome.
THEOREM TypeCorrect == Spec => []TypeOK
  BY AlwaysIInv, PTL DEF IInv

\* No image makes the scan index past its data.
THEOREM ScanNeverPanics == Spec => []NeverPanics
  BY AlwaysIInv, PTL DEF IInv

-----------------------------------------------------------------------------
(* The pixel that the scan cuts out of a byte is the one that PNG lays out  *)
(* bit by bit.                                                             *)

\* The powers that occur are positive.
LEMMA Powers == \A n \in 0..8 : 2 ^ n \in Nat /\ 2 ^ n > 0
  <1>1. ASSUME NEW n \in 0..8
        PROVE  n = 0 \/ n = 1 \/ n = 2 \/ n = 3 \/ n = 4 \/ n = 5 \/ n = 6 \/ n = 7 \/ n = 8
    OBVIOUS
  <1>2. /\ 2 ^ 0 \in Nat /\ 2 ^ 1 \in Nat /\ 2 ^ 2 \in Nat
        /\ 2 ^ 3 \in Nat /\ 2 ^ 4 \in Nat /\ 2 ^ 5 \in Nat
        /\ 2 ^ 6 \in Nat /\ 2 ^ 7 \in Nat /\ 2 ^ 8 \in Nat
    OBVIOUS
  <1>3. /\ 2 ^ 0 > 0 /\ 2 ^ 1 > 0 /\ 2 ^ 2 > 0
        /\ 2 ^ 3 > 0 /\ 2 ^ 4 > 0 /\ 2 ^ 5 > 0
        /\ 2 ^ 6 > 0 /\ 2 ^ 7 > 0 /\ 2 ^ 8 > 0
    OBVIOUS
  <1> QED
    BY <1>1, <1>2, <1>3, Zenon

\* One place further to the right is half as much.
LEMMA Halved ==
    ASSUME NEW b \in Nat, NEW s \in 0..7
    PROVE  b \div 2 ^ (s + 1) = (b \div 2 ^ s) \div 2
  <1>1. s = 0 \/ s = 1 \/ s = 2 \/ s = 3 \/ s = 4 \/ s = 5 \/ s = 6 \/ s = 7
    OBVIOUS
  <1>2. /\ s = 0 => s + 1 = 1
        /\ s = 1 => s + 1 = 2
        /\ s = 2 => s + 1 = 3
        /\ s = 3 => s + 1 = 4
        /\ s = 4 => s + 1 = 5
        /\ s = 5 => s + 1 = 6
        /\ s = 6 => s + 1 = 7
        /\ s = 7 => s + 1 = 8
    OBVIOUS
  <1>3. /\ b \div 2 ^ 1 = (b \div 2 ^ 0) \div 2
        /\ b \div 2 ^ 2 = (b \div 2 ^ 1) \div 2
        /\ b \div 2 ^ 3 = (b \div 2 ^ 2) \div 2
        /\ b \div 2 ^ 4 = (b \div 2 ^ 3) \div 2
        /\ b \div 2 ^ 5 = (b \div 2 ^ 4) \div 2
        /\ b \div 2 ^ 6 = (b \div 2 ^ 5) \div 2
        /\ b \div 2 ^ 7 = (b \div 2 ^ 6) \div 2
        /\ b \div 2 ^ 8 = (b \div 2 ^ 7) \div 2
    OBVIOUS
  <1> QED
    BY <1>1, <1>2, <1>3, Zenon

\* The last of j binary digits, after the ones before it.
LEMMA LastDigit ==
    ASSUME NEW b \in Nat, NEW j \in 1..8
    PROVE  2 * ((b \div 2) % 2 ^ (j - 1)) + (b % 2) = b % 2 ^ j
  <1>1. j = 1 \/ j = 2 \/ j = 3 \/ j = 4 \/ j = 5 \/ j = 6 \/ j = 7 \/ j = 8
    OBVIOUS
  <1>2. /\ j = 1 => j - 1 = 0
        /\ j = 2 => j - 1 = 1
        /\ j = 3 => j - 1 = 2
        /\ j = 4 => j - 1 = 3
        /\ j = 5 => j - 1 = 4
        /\ j = 6 => j - 1 = 5
        /\ j = 7 => j - 1 = 6
        /\ j = 8 => j - 1 = 7
    OBVIOUS
  <1>3. /\ 2 * ((b \div 2) % 2 ^ 0) + (b % 2) = b % 2 ^ 1
        /\ 2 * ((b \div 2) % 2 ^ 1) + (b % 2) = b % 2 ^ 2
        /\ 2 * ((b \div 2) % 2 ^ 2) + (b % 2) = b % 2 ^ 3
        /\ 2 * ((b \div 2) % 2 ^ 3) + (b % 2) = b % 2 ^ 4
        /\ 2 * ((b \div 2) % 2 ^ 4) + (b % 2) = b % 2 ^ 5
        /\ 2 * ((b \div 2) % 2 ^ 5) + (b % 2) = b % 2 ^ 6
        /\ 2 * ((b \div 2) % 2 ^ 6) + (b % 2) = b % 2 ^ 7
        /\ 2 * ((b \div 2) % 2 ^ 7) + (b % 2) = b % 2 ^ 8
    OBVIOUS
  <1> QED
    BY <1>1, <1>2, <1>3, Zenon

\* The first j bits from the k-th on of byte b, as a number.
Digits(b, k, j) == (b \div 2 ^ (8 - k - j)) % 2 ^ j

LEMMA NextDigit ==
    ASSUME NEW b \in Nat, NEW d \in 1..8, NEW k \in 0..(8 - d), NEW j \in 1..d
    PROVE  2 * Digits(b, k, j - 1) + ((b \div 2 ^ (7 - (k + j - 1))) % 2) = Digits(b, k, j)
  <1> DEFINE s == 8 - k - j
             c == b \div 2 ^ s
  <1>1. s \in 0..7 /\ 8 - k - (j - 1) = s + 1 /\ 7 - (k + j - 1) = s /\ j \in 1..8
    OBVIOUS
  <1>2. c \in Nat
    <2>. HIDE DEF s
    <2>1. s \in 0..8
      BY <1>1
    <2>3. 2 ^ s \in Nat /\ 2 ^ s > 0
      BY <2>1, Powers, Zenon
    <2>2. ASSUME NEW n \in Nat, n > 0 PROVE b \div n \in Nat
      BY <2>2
    <2> QED
      BY <2>2, <2>3
  <1>3. b \div 2 ^ (s + 1) = c \div 2
    BY <1>1, Halved
  <1>4. 2 * ((c \div 2) % 2 ^ (j - 1)) + (c % 2) = c % 2 ^ j
    BY <1>1, <1>2, LastDigit
  <1>5. Digits(b, k, j - 1) = (c \div 2) % 2 ^ (j - 1)
    BY <1>1, <1>3 DEF Digits
  <1>6. Digits(b, k, j) = c % 2 ^ j
    BY DEF Digits
  <1>7. (b \div 2 ^ (7 - (k + j - 1))) % 2 = c % 2
    BY <1>1
  <1> HIDE DEF s, c
  <1> QED
    BY <1>4, <1>5, <1>6, <1>7

\* bit holds the d bits from the k-th on, and sum their sums, as PixelAt adds them.
HoldsBits(bit, b, d, k) == \A j \in 1..d : bit[j] = (b \div 2 ^ (7 - (k + j - 1))) % 2
HoldsSums(sum, bit, d) == sum = [j \in 0..d |-> IF j = 0 THEN 0 ELSE 2 * sum[j - 1] + bit[j]]

\* A sum over the bits of a pixel is the number that they write.
LEMMA SumOfBits ==
    \A b \in Nat, d \in {1, 2, 4, 8} : \A k \in 0..(8 - d) : \A bit, sum :
        HoldsBits(bit, b, d, k) /\ HoldsSums(sum, bit, d) => sum[d] = Digits(b, k, d)
  <1> SUFFICES ASSUME NEW b \in Nat, NEW d \in {1, 2, 4, 8}, NEW k \in 0..(8 - d),
                      NEW bit, NEW sum, HoldsBits(bit, b, d, k), HoldsSums(sum, bit, d)
               PROVE  sum[d] = Digits(b, k, d)
    BY Zenon
  <1> USE DEF HoldsBits, HoldsSums
  <1>1. sum[0] = Digits(b, k, 0)
    <2>1. sum[0] = 0
      <3>1. 0 \in 0..d
        OBVIOUS
      <3> QED
        BY <3>1, Zenon
    <2>2. 2 ^ (8 - k - 0) \in Nat /\ 2 ^ (8 - k - 0) > 0
      <3>1. 8 - k - 0 \in 0..8
        OBVIOUS
      <3> QED
        BY <3>1, Powers, Zenon
    <2>3. \A n \in Nat : n > 0 => (b \div n) % 1 = 0
      OBVIOUS
    <2>4. 2 ^ 0 = 1
      OBVIOUS
    <2> QED
      BY <2>1, <2>2, <2>3, <2>4 DEF Digits
  <1>2. ASSUME NEW j \in 1..d, sum[j - 1] = Digits(b, k, j - 1)
        PROVE  sum[j] = Digits(b, k, j)
    <2>1. sum[j] = 2 * sum[j - 1] + bit[j]
      <3>1. j \in 0..d /\ j # 0
        OBVIOUS
      <3> QED
        BY <3>1, Zenon
    <2>2. d \in 1..8
      OBVIOUS
    <2>3. 2 * Digits(b, k, j - 1) + ((b \div 2 ^ (7 - (k + j - 1))) % 2) = Digits(b, k, j)
      BY <2>2, NextDigit
    <2> QED
      BY <1>2, <2>1, <2>3, Zenon
  <1>3. /\ 1 <= d => sum[1] = Digits(b, k, 1)
        /\ 2 <= d => sum[2] = Digits(b, k, 2)
        /\ 3 <= d => sum[3] = Digits(b, k, 3)
        /\ 4 <= d => sum[4] = Digits(b, k, 4)
        /\ 5 <= d => sum[5] = Digits(b, k, 5)
        /\ 6 <= d => sum[6] = Digits(b, k, 6)
        /\ 7 <= d => sum[7] = Digits(b, k, 7)
        /\ 8 <= d => sum[8] = Digits(b, k, 8)
    <2> DEFINE P(j) == sum[j] = Digits(b, k, j)
    <2>1. P(0) /\ \A j \in 1..d : P(j - 1) => P(j)
      BY <1>1, <1>2
    <2> HIDE DEF P
    <2>2. \A i \in 0..7 : i + 1 <= d => i + 1 \in 1..d /\ (i + 1) - 1 = i
      OBVIOUS
    <2>3. \A i \in 0..7 : i + 1 <= d /\ P(i) => P(i + 1)
      BY <2>1, <2>2, Zenon
    <2>4. /\ 1 <= d => P(1)
          /\ 2 <= d => P(2)
          /\ 3 <= d => P(3)
          /\ 4 <= d => P(4)
          /\ 5 <= d => P(5)
          /\ 6 <= d => P(6)
          /\ 7 <= d => P(7)
          /\ 8 <= d => P(8)
      BY <2>1, <2>3
    <2> QED
      BY <2>4 DEF P
  <1> QED
    BY <1>3

-----------------------------------------------------------------------------
(* What the checks of the arguments leave of an indexed image.             *)

LEMMA AcceptedKind ==
    ASSUME NEW c, ArgumentError(c) = "none"
    PROVE  /\ Kind(c) \in Kinds
           /\ TransparentError(c) = "none"
           /\ PaletteError(c) = "none"
  <1>1. PartsError(c) = "none"
    BY BothPass DEF ArgumentError
  <1> DEFINE known == Check(Kind(c) \in Kinds, "ValueError")
             dims == Check(c.width > 0 /\ c.height > 0, "ValueError")
             length == Check(DataLength(c) < UsizeRange, "ValueError")
  <1>2. known = "none" /\ TransparentError(c) = "none" /\ PaletteError(c) = "none"
    <2> HIDE DEF known, dims, length
    <2>1. (BitDepth(c)
           ?? Check(~c.descriptor \/ IsCompat(c), "ValueError")
           ?? known
           ?? TransparentError(c) ?? PaletteError(c)
           ?? dims
           ?? Check(c.bytesLike, "TypeError")
           ?? length) = "none"
      BY <1>1 DEF PartsError, known, dims, length
    <2> QED
      BY <2>1 DEF ??
  <1> QED
    BY <1>2 DEF Check

\* The palette has between one and 256 colours.
LEMMA AcceptedPalette ==
    ASSUME NEW c, ArgumentError(c) = "none", Kind(c) = "indexed"
    PROVE  Len(Palette(c)) \in 1..256
  <1> DEFINE shapes == Check(\A i \in DOMAIN Palette(c) : Len(Palette(c)[i]) \in {3, 4}, "ValueError")
             samples == Check(\A i \in DOMAIN Palette(c) :
                                 \A j \in DOMAIN Palette(c)[i] : Palette(c)[i][j] \in 0..255,
                              "ValueError")
             given == Check(Palette(c) # Omitted, "ValueError")
             size == Check(Len(Palette(c)) \in 1..256, "ValueError")
             nobools == Check("palette" \notin c.bools, "TypeError")
  <1>1. PaletteError(c) = "none"
    BY AcceptedKind
  <1>2. PaletteError(c) = given ?? size ?? shapes ?? nobools ?? samples
    BY Zenon DEF PaletteError
  <1>3. size = "none"
    <2> HIDE DEF shapes, samples, given, size, nobools
    <2> QED
      BY <1>1, <1>2 DEF ??
  <1> HIDE DEF shapes, samples, given, nobools
  <1> QED
    BY <1>3 DEF Check

\* The samples of a transparent colour are within the depth.
LEMMA AcceptedTransparent ==
    ASSUME NEW c, ArgumentError(c) = "none", Transparent(c) # Omitted
    PROVE  Samples(c) \subseteq 0..(2 ^ Depth(c) - 1)
  <1> DEFINE kinds == Check(Kind(c) \in {"grayscale", "rgb"}, "ValueError")
             size == Check(Len(Transparent(c)) = (IF Kind(c) = "rgb" THEN 3 ELSE 1), "ValueError")
             nobools == Check("transparent" \notin c.bools, "TypeError")
             samples == Check(Samples(c) \subseteq 0..MaxSample(Depth(c)), "ValueError")
  <1>1. TransparentError(c) = "none"
    BY AcceptedKind
  <1>2. TransparentError(c) = kinds ?? size ?? nobools ?? samples
    BY Zenon DEF TransparentError
  <1>3. samples = "none"
    <2> HIDE DEF kinds, size, nobools, samples
    <2> QED
      BY <1>1, <1>2 DEF ??
  <1> HIDE DEF kinds, size, nobools
  <1> QED
    BY <1>3, Zenon DEF Check, MaxSample

-----------------------------------------------------------------------------
(* The pixel of the scan is the pixel of the image.                        *)

\* The bits of a pixel are in one byte, from the offset of the pixel on.
LEMMA BitsOfPixel ==
    ASSUME NEW d \in {1, 2, 4, 8}, NEW col \in Nat, NEW j \in 1..d
    PROVE  /\ (col * d + j - 1) \div 8 = (col * d) \div 8
           /\ (col * d + j - 1) % 8 = ((col * d) % 8) + j - 1
           /\ (col * d) % 8 \in 0..(8 - d)
  <1>1. CASE d = 1
    BY <1>1
  <1>2. CASE d = 2
    BY <1>2
  <1>3. CASE d = 4
    BY <1>3
  <1>4. CASE d = 8
    BY <1>4
  <1> QED
    BY <1>1, <1>2, <1>3, <1>4

\* Bit by bit or cut out of a byte, it is the same number.
LEMMA PixelOfByte ==
    ASSUME NEW r \in Nat, NEW col \in Nat, Depth(call) \in {1, 2, 4, 8}, RowBytes(call) \in Nat,
           call.data[r * RowBytes(call) + ((col * Depth(call)) \div 8) + 1] \in Nat
    PROVE  PixelAt(call, r, col) =
               Digits(call.data[r * RowBytes(call) + ((col * Depth(call)) \div 8) + 1],
                      (col * Depth(call)) % 8, Depth(call))
  <1> DEFINE d == Depth(call)
             k == (col * d) % 8
             b == call.data[r * RowBytes(call) + ((col * d) \div 8) + 1]
             bit == [j \in 1..d |-> Bit(call, r, col * d + j - 1)]
             Sums(f) == f = [j \in 0..d |-> IF j = 0 THEN 0 ELSE 2 * f[j - 1] + Bit(call, r, col * d + j - 1)]
  <1>1. PixelAt(call, r, col) = (CHOOSE f : Sums(f))[d]
    BY Zenon DEF PixelAt
  <1>2. b \in Nat /\ d \in {1, 2, 4, 8} /\ k \in 0..(8 - d)
    <2>1. 1 \in 1..d
      OBVIOUS
    <2> QED
      BY <2>1, BitsOfPixel
  <1>3. \A j \in 1..d : bit[j] = (b \div 2 ^ (7 - (k + j - 1))) % 2
    <2> SUFFICES ASSUME NEW j \in 1..d 
                 PROVE  Bit(call, r, col * d + j - 1) = (b \div 2 ^ (7 - (k + j - 1))) % 2
      OBVIOUS
    <2>1. /\ (col * d + j - 1) \div 8 = (col * d) \div 8
          /\ (col * d + j - 1) % 8 = k + j - 1
      BY BitsOfPixel
    <2> QED
      BY <2>1, Zenon DEF Bit
  <1>4. \E f : Sums(f)
    <2> DEFINE g == [j \in 0..d |-> Digits(b, k, j)]
    <2>1. Digits(b, k, 0) = 0
      <3> HIDE DEF b, k, d
      <3>1. 8 - k - 0 \in 0..8
        BY <1>2
      <3>2. 2 ^ (8 - k - 0) \in Nat /\ 2 ^ (8 - k - 0) > 0
        BY <3>1, Powers, Zenon
      <3>3. \A n \in Nat : n > 0 => (b \div n) % 1 = 0
        BY <1>2
      <3>4. 2 ^ 0 = 1
        OBVIOUS
      <3> QED
        BY <3>2, <3>3, <3>4 DEF Digits
    <2>2. ASSUME NEW j \in 1..d
          PROVE  Digits(b, k, j) = 2 * Digits(b, k, j - 1) + Bit(call, r, col * d + j - 1)
      <3> HIDE DEF b, k
      <3>1. bit[j] = Bit(call, r, col * d + j - 1)
        OBVIOUS
      <3>2. 2 * Digits(b, k, j - 1) + ((b \div 2 ^ (7 - (k + j - 1))) % 2) = Digits(b, k, j)
        <4>1. d \in 1..8
          BY <1>2
        <4> HIDE DEF d
        <4> QED
          BY <4>1, <1>2, NextDigit
      <3>3. bit[j] = (b \div 2 ^ (7 - (k + j - 1))) % 2
        BY <1>3
      <3> QED
        BY <3>1, <3>2, <3>3, Zenon
    <2>3. Sums(g)
      <3> HIDE DEF b, k, Digits
      <3>1. ASSUME NEW j \in 0..d
            PROVE  g[j] = IF j = 0 THEN 0 ELSE 2 * g[j - 1] + Bit(call, r, col * d + j - 1)
        <4>1. CASE j = 0
          BY <4>1, <2>1
        <4>2. CASE j # 0
          <5>1. j \in 1..d /\ j - 1 \in 0..d
            BY <1>2, <4>2
          <5>2. g[j] = Digits(b, k, j) /\ g[j - 1] = Digits(b, k, j - 1)
            BY <5>1
          <5> QED
            BY <5>1, <5>2, <4>2, <2>2, Zenon
        <4> QED
          BY <4>1, <4>2
      <3>2. g = [j \in 0..d |-> g[j]]
        OBVIOUS
      <3> HIDE DEF g
      <3> QED
        BY <3>1, <3>2
    <2> QED
      BY <2>3
  <1> DEFINE sum == CHOOSE f : Sums(f)
  <1>5. Sums(sum)
    BY <1>4
  <1>6. sum = [j \in 0..d |-> IF j = 0 THEN 0 ELSE 2 * sum[j - 1] + bit[j]]
    <2> HIDE DEF sum, d
    <2>1. ASSUME NEW j \in 0..d, j # 0 PROVE bit[j] = Bit(call, r, col * d + j - 1)
      <3>1. j \in 1..d
        BY <2>1, <1>2
      <3> QED
        BY <3>1
    <2> HIDE DEF bit
    <2> QED
      BY <1>5, <2>1
  <1> HIDE DEF sum, bit, b, k, d, Sums
  <1>7. sum[d] = Digits(b, k, d)
    <2>1. HoldsBits(bit, b, d, k)
      BY <1>3 DEF HoldsBits
    <2>2. HoldsSums(sum, bit, d)
      BY <1>6, Zenon DEF HoldsSums
    <2> QED
      BY ONLY <1>2, <2>1, <2>2, SumOfBits, Zenon
  <1> QED
    BY <1>1, <1>7 DEF sum, b, k, d

\* Where a row of the scan begins and ends in the data.
LEMMA ScanEnd ==
    ASSUME IInv, pc = "scan", row # call.height
    PROVE  /\ row * RowBytes(call) \in Nat
           /\ (row + 1) * RowBytes(call) = row * RowBytes(call) + RowBytes(call)
           /\ Start = row * RowBytes(call)
           /\ End = (row + 1) * RowBytes(call)
  <1> USE RawImageAssumption
  <1> DEFINE n == RowBytes(call)
  <1>1. /\ call.height \in Nat /\ row \in 0..(call.height - 1) /\ row \in Nat
        /\ DataLength(call) < UsizeRange
    BY DEF IInv, ScanInv
  <1>2. ScanRowBytes = n /\ n \in Nat /\ DataLength(call) = n * call.height
    BY RowBytesAgree DEF IInv
  <1> HIDE DEF n
  <1>3. PICK k \in Nat : call.height = row + 1 + k
    <2>1. call.height - (row + 1) \in Nat /\ call.height = row + 1 + (call.height - (row + 1))
      BY <1>1
    <2> QED
      BY <2>1
  <1>4. n * (row + 1 + k) = row * n + n + k * n /\ k * n >= 0
    BY <1>1, <1>2
  <1>5. row * n \in Nat /\ row * n + n \in Nat /\ (row + 1) * n = row * n + n
    BY <1>1, <1>2
  <1>6. row * n + n < UsizeRange
    BY <1>1, <1>2, <1>3, <1>4, <1>5
  <1>7. ASSUME NEW m \in Nat, m < UsizeRange PROVE Wrap(m) = m
    BY <1>7 DEF Wrap
  <1>8. Start = row * n /\ End = row * n + n
    BY <1>2, <1>5, <1>6, <1>7 DEF Start, End
  <1> QED
    BY <1>5, <1>8 DEF n

\* What the scan computes of the pixel it is at.
LEMMA ScannedPixel ==
    ASSUME IInv, call \in RawCalls, pc = "scan", ~Exhausted
    PROVE  /\ row \in CompleteRows
           /\ Pixel = PixelAt(call, row, x)
           /\ Pixel \in Nat
  <1> USE RawImageAssumption DEF IInv
  <1> DEFINE w == call.width
             d == Depth(call)
             n == RowBytes(call)
  <1>1. /\ w \in 1..MaxU32 /\ d \in {1, 2, 4, 8} /\ x \in 0..(w - 1)
        /\ call.height \in 1..MaxU32 /\ row \in 0..(call.height - 1)
        /\ Kind(call) = "indexed" /\ DataLength(call) < UsizeRange
    BY DEF ScanInv, Exhausted
  <1>2. ASSUME NEW m \in Nat, m < UsizeRange PROVE Wrap(m) = m
    BY <1>2 DEF Wrap
  <1>3. w * d \in Nat /\ w * d < UsizeRange /\ x * d \in Nat /\ x * d < UsizeRange
    BY <1>1
  <1>4. ScanRowBytes = n /\ n \in Nat
    BY RowBytesAgree DEF IInv
  <1>5. row * n \in Nat /\ row * n + n \in Nat /\ (row + 1) * n = row * n + n
    BY <1>1, <1>4, ScanEnd
  <1>6. Start = row * n /\ End = row * n + n
    BY <1>1, <1>5, ScanEnd
  <1>7. Offset = x * d
    BY <1>2, <1>3 DEF Offset
  <1>8. (x * d) \div 8 < n /\ (x * d) \div 8 \in Nat
    BY <1>1, <1>3, <1>4, <1>7, OffsetInRow DEF Offset, ScanRowBytes
  <1>9. call.data \in Seq(0..255) /\ row * n + n <= Len(call.data)
    <2>1. call.data \in Seq(0..255)
      BY BytesAssumption
    <2>2. Len(call.data) \in Nat
      BY <2>1
    <2> QED
      BY <1>5, <1>6, <2>1, <2>2 DEF Exhausted
  <1>10. row \in CompleteRows
    BY <1>1, <1>5, <1>9 DEF CompleteRows
  <1> DEFINE b == call.data[row * n + ((x * d) \div 8) + 1]
  <1>11. b \in 0..255
    <2> DEFINE i == row * n + ((x * d) \div 8) + 1
    <2>1. i \in 1..Len(call.data)
      <3>1. Len(call.data) \in Nat
        BY <1>9
      <3>2. ASSUME NEW m \in Nat, NEW q \in Nat, NEW e \in Nat, NEW l \in Nat, q < e, m + e <= l
            PROVE  m + q + 1 \in 1..l
        BY <3>2
      <3> HIDE DEF n, d
      <3> QED
        BY <3>1, <3>2, <1>4, <1>5, <1>8, <1>9
    <2> HIDE DEF i
    <2>2. ASSUME NEW S, NEW s \in Seq(S), NEW e \in 1..Len(s) PROVE s[e] \in S
      OBVIOUS
    <2>3. call.data[i] \in 0..255
      BY <2>1, <2>2, <1>9
    <2> QED
      BY <2>3 DEF i
  <1>12. PixelAt(call, row, x) = Digits(b, (x * d) % 8, d)
    <2>1. row \in Nat /\ x \in Nat /\ b \in Nat
      BY <1>1, <1>11
    <2> QED
      BY <2>1, <1>1, <1>4, PixelOfByte
  <1>13. Pixel = Digits(b, (x * d) % 8, d)
    <2>1. Shift = 8 - d - ((x * d) % 8) /\ 8 - d - ((x * d) % 8) = 8 - ((x * d) % 8) - d
      BY <1>1, <1>3, <1>7 DEF Shift
    <2>2. call.data[Start + (Offset \div 8) + 1] = b
      BY <1>6, <1>7
    <2> HIDE DEF b
    <2> QED
      BY <2>1, <2>2, Zenon DEF Pixel, Digits
  <1>14. Digits(b, (x * d) % 8, d) \in Nat
    <2> HIDE DEF b
    <2>1. (x * d) % 8 \in 0..(8 - d)
      <3>1. 1 \in 1..d /\ x \in Nat
        BY <1>1
      <3> QED
        BY <3>1, <1>1, BitsOfPixel
    <2> DEFINE k == (x * d) % 8
    <2> HIDE DEF k
    <2>2. 8 - k - d \in 0..8 /\ d \in 0..8
      BY <1>1, <2>1 DEF k
    <2>3. 2 ^ (8 - k - d) \in Nat /\ 2 ^ (8 - k - d) > 0 /\ 2 ^ d \in Nat /\ 2 ^ d > 0
      BY <2>2, Powers, Zenon
    <2>4. \A p, q \in Nat : p > 0 /\ q > 0 => (b \div p) % q \in Nat
      BY <1>11
    <2> HIDE DEF d
    <2>5. Digits(b, k, d) \in Nat
      BY <2>3, <2>4 DEF Digits
    <2> QED
      BY <2>5 DEF k
  <1> QED
    BY <1>10, <1>12, <1>13, <1>14

\* The scan ends behind the last row that the data have in full.
LEMMA RowsEnd ==
    ASSUME IInv, call \in RawCalls, pc = "scan", Exhausted, NEW r \in CompleteRows
    PROVE  r < row
  <1> USE RawImageAssumption DEF IInv
  <1> DEFINE w == call.width
             d == Depth(call)
             n == RowBytes(call)
  <1>1. /\ w \in 1..MaxU32 /\ d \in {1, 2, 4, 8}
        /\ call.height \in 1..MaxU32 /\ row \in 0..call.height
        /\ Kind(call) = "indexed" /\ DataLength(call) < UsizeRange
        /\ r \in 0..(call.height - 1) /\ (r + 1) * n <= Len(call.data)
    BY DEF ScanInv, CompleteRows
  <1>2. Len(call.data) \in Nat
    BY BytesAssumption
  <1>3. CASE row = call.height
    BY <1>1, <1>3
  <1>4. CASE row # call.height /\ End > Len(call.data)
    <2>1. ScanRowBytes = n /\ n \in Nat /\ DataLength(call) = n * call.height
      BY RowBytesAgree DEF IInv
    <2>2. End = (row + 1) * n
      BY <1>1, <1>4, <2>1, ScanEnd
    <2>3. SUFFICES ASSUME r >= row PROVE FALSE
      BY <1>1
    <2> HIDE DEF n, w, d
    <2>4. (row + 1) * n <= (r + 1) * n
      <3>1. PICK k \in Nat : r = row + k
        <4>1. r - row \in Nat /\ r = row + (r - row)
          BY <1>1, <2>3
        <4> QED
          BY <4>1
      <3>2. row \in Nat /\ k * n \in Nat
        BY <1>1, <2>1
      <3>3. (row + k + 1) * n = (row + 1) * n + k * n
        BY <2>1, <3>2
      <3> QED
        BY <2>1, <3>1, <3>2, <3>3
    <2>5. (row + 1) * n \in Nat /\ (r + 1) * n \in Nat
      BY <1>1, <2>1
    <2> QED
      BY <1>1, <1>2, <1>4, <2>2, <2>4, <2>5
  <1> QED
    BY <1>3, <1>4 DEF Exhausted

-----------------------------------------------------------------------------
(* What the scan has seen, and what the outcome says of the call.           *)

\* The pixels before the one that the scan is at have a colour.
SeenInv ==
    pc = "scan" =>
        \A r \in CompleteRows : \A col \in 0..(call.width - 1) :
            r < row \/ (r = row /\ col < x) => PixelAt(call, r, col) < Len(Palette(call))

\* The arguments pass the checks, and so do the pixels of an image that is scanned.
ArgumentsPass ==
    ArgumentError(call) = "none" /\ (Kind(call) = "indexed" => PaletteFits(call))
PixelsPass == Kind(call) = "indexed" /\ Depth(call) <= 8 => PixelsInPalette

\* How far a call has come tells what it has passed, and its outcome where it failed.
PassedInv ==
    /\ pc \in {"scan", "build"} => ArgumentsPass
    /\ pc = "build" => PixelsPass
    /\ outcome \in {"TypeError", "ValueError"} => ~(ArgumentsPass /\ PixelsPass)
    /\ outcome \in {"ok", "PngError"} =>
           /\ ArgumentsPass /\ PixelsPass
           /\ outcome = "ok" <=> /\ DepthFits(Kind(call), Depth(call))
                                 /\ Len(call.data) = DataLength(call)

CallInv == call \in RawCalls

JudgedInv == IInv /\ CallInv /\ SeenInv /\ PassedInv

\* The call does not change, and so what follows from it alone does not.
LEMMA SameCall ==
    ASSUME call' = call
    PROVE  /\ ArgumentsPass' = ArgumentsPass
           /\ PixelsPass' = PixelsPass
           /\ CompleteRows' = CompleteRows
  BY DEF ArgumentsPass, PixelsPass, CompleteRows, PixelsInPalette

\* Before the first step, nothing is known of the call.
LEMMA InitJudged == Init => JudgedInv
  BY InitIInv DEF Init, JudgedInv, CallInv, SeenInv, PassedInv

\* An outcome is given once, by what has passed.
LEMMA StepJudged == JudgedInv /\ [Next]_vars => JudgedInv'
  <1> SUFFICES ASSUME JudgedInv, [Next]_vars PROVE JudgedInv'
    OBVIOUS
  <1>0. IInv /\ IInv'
    BY StepIInv DEF JudgedInv
  <1>1. CASE RejectArguments \/ RejectPalette
    <2>1. call' = call /\ pc' = "done" /\ outcome' \notin {"ok", "PngError"} /\ ~ArgumentsPass
      BY <1>1, ArgumentErrors DEF RejectArguments, RejectPalette, Done, ArgumentsPass
    <2> QED
      BY <1>0, <2>1, SameCall DEF JudgedInv, CallInv, SeenInv, PassedInv
  <1>2. CASE Accept
    <2>1. /\ call' = call /\ outcome' = outcome /\ outcome = "none" /\ ArgumentsPass
          /\ row' = 0 /\ x' = 0
          /\ pc' = IF Kind(call) = "indexed" /\ Depth(call) <= 8 THEN "scan" ELSE "build"
      BY <1>0, <1>2 DEF Accept, ArgumentsPass, IInv, StartInv, TypeOK
    <2>2. pc' = "build" => PixelsPass
      BY <2>1 DEF PixelsPass
    <2>3. SeenInv'
      <3>1. \A r \in CompleteRows : \A col \in 0..(call.width - 1) :
               ~(r < 0 \/ (r = 0 /\ col < 0))
        BY DEF CompleteRows
      <3> QED
        BY <2>1, <3>1, SameCall DEF SeenInv
    <2> QED
      BY <1>0, <2>1, <2>2, <2>3, SameCall DEF JudgedInv, CallInv, PassedInv
  <1>3. CASE ScanPixel
    <2>0. pc = "scan" /\ ~Exhausted /\ call' = call /\ outcome = "none"
      BY <1>0, <1>3 DEF ScanPixel, Done, IInv, TypeOK
    <2>1. ArgumentsPass /\ Kind(call) = "indexed" /\ Depth(call) <= 8 /\ CallInv
      BY <1>0, <2>0 DEF JudgedInv, PassedInv, IInv, ScanInv
    <2>2. /\ row \in CompleteRows /\ Pixel = PixelAt(call, row, x) /\ Pixel \in Nat
          /\ x \in 0..(call.width - 1) /\ call.width \in Nat
          /\ row \in 0..(call.height - 1) /\ call.height \in Nat
      BY <1>0, <2>0, <2>1, ScannedPixel DEF CallInv, IInv, ScanInv, Exhausted
    <2>3. Len(Palette(call)) \in 1..256
      BY <2>1, AcceptedPalette DEF ArgumentsPass
    <2>4. outcome' # "panic"
      BY <1>0 DEF IInv, NeverPanics
    <2>5. CASE Pixel >= Len(Palette(call))
      <3>1. pc' = "done" /\ outcome' = "ValueError"
        BY <1>3, <2>4, <2>5 DEF ScanPixel, Done
      <3>2. ~PixelsPass
        BY <2>1, <2>2, <2>3, <2>5 DEF PixelsPass, PixelsInPalette
      <3> QED
        BY <1>0, <2>0, <2>1, <3>1, <3>2, SameCall DEF JudgedInv, CallInv, SeenInv, PassedInv
    <2>6. CASE ~(Pixel >= Len(Palette(call)))
      <3>1. NextPixel /\ UNCHANGED <<call, pc, outcome>>
        BY <1>3, <2>4, <2>6 DEF ScanPixel, Done
      <3>2. PixelAt(call, row, x) < Len(Palette(call))
        BY <2>2, <2>3, <2>6
      <3>3. ASSUME NEW r \in CompleteRows, NEW col \in 0..(call.width - 1),
                   r < row' \/ (r = row' /\ col < x')
            PROVE  r < row \/ (r = row /\ col < x) \/ (r = row /\ col = x)
        <4>1. r \in Nat
          BY DEF CompleteRows
        <4> QED
          BY <2>2, <3>1, <3>3, <4>1 DEF NextPixel
      <3>4. SeenInv'
        <4> SUFFICES ASSUME NEW r \in CompleteRows, NEW col \in 0..(call.width - 1),
                            r < row' \/ (r = row' /\ col < x')
                     PROVE  PixelAt(call, r, col) < Len(Palette(call))
          BY <2>0, SameCall DEF SeenInv
        <4> QED
          BY <2>0, <3>2, <3>3 DEF JudgedInv, SeenInv
      <3> QED
        BY <1>0, <2>0, <2>1, <3>1, <3>4, SameCall DEF JudgedInv, CallInv, PassedInv
    <2> QED
      BY <2>5, <2>6
  <1>4. CASE EndScan
    <2>0. /\ pc = "scan" /\ Exhausted /\ outcome = "none"
          /\ UNCHANGED <<call, row, x, outcome>> /\ pc' = "build"
      BY <1>0, <1>4 DEF EndScan, IInv, TypeOK
    <2>1. ArgumentsPass /\ CallInv
      BY <2>0 DEF JudgedInv, PassedInv
    <2>2. ASSUME NEW r \in CompleteRows PROVE r < row
      BY <1>0, <2>0, <2>1, <2>2, RowsEnd DEF CallInv
    <2>3. PixelsPass
      BY <2>0, <2>2 DEF JudgedInv, SeenInv, PixelsPass, PixelsInPalette
    <2> QED
      BY <1>0, <2>0, <2>1, <2>3, SameCall DEF JudgedInv, CallInv, SeenInv, PassedInv
  <1>5. CASE Build
    <2>0. /\ pc = "build" /\ call' = call /\ pc' = "done"
          /\ outcome' = IF /\ DepthFits(Kind(call), Depth(call))
                           /\ Len(call.data) = DataLength(call)
                        THEN "ok" ELSE "PngError"
      BY <1>5 DEF Build, Done
    <2>1. ArgumentsPass /\ PixelsPass /\ CallInv
      BY <2>0 DEF JudgedInv, PassedInv
    <2> QED
      BY <1>0, <2>0, <2>1, SameCall DEF JudgedInv, CallInv, SeenInv, PassedInv
  <1>6. CASE UNCHANGED vars
    BY <1>0, <1>6, SameCall DEF vars, JudgedInv, CallInv, SeenInv, PassedInv
  <1> QED
    BY <1>1, <1>2, <1>3, <1>4, <1>5, <1>6 DEF Next

\* And so in every behaviour.
LEMMA AlwaysJudged == Spec => []JudgedInv
  BY InitJudged, StepJudged, PTL DEF Spec

\* PngError is for data that do not fit the shape, after every check of the
\* arguments and of the pixels ("Errors RawImage Can Raise").
THEOREM PngErrorsFollowTheChecks == Spec => []PngErrorMeansBadData
  <1>1. JudgedInv => PngErrorMeansBadData
    BY DEF JudgedInv, PassedInv, ArgumentsPass, PixelsPass, PngErrorMeansBadData
  <1> QED
    BY <1>1, AlwaysJudged, PTL

\* A RawImage is built just when the arguments are well formed, whatever its size.
THEOREM BuildsTheWellFormed == Spec => []BuiltIffWellFormed
  <1>1. ASSUME JudgedInv, pc = "done" PROVE outcome = "ok" <=> WellFormed
    <2> USE <1>1 DEF JudgedInv, PassedInv
    <2>1. outcome \in {"ok", "PngError", "TypeError", "ValueError"}
      BY DEF IInv, TypeOK, NeverPanics, Outcomes
    <2>2. ASSUME outcome = "ok" PROVE WellFormed
      <3>1. /\ ArgumentsPass /\ PixelsPass /\ DepthFits(Kind(call), Depth(call))
            /\ Len(call.data) = DataLength(call)
        BY <2>2
      <3>2. Transparent(call) # Omitted => Samples(call) \subseteq 0..(2 ^ Depth(call) - 1)
        BY <3>1, AcceptedTransparent DEF ArgumentsPass
      <3>3. Kind(call) = "indexed" => Depth(call) <= 8
        BY <3>1 DEF DepthFits
      <3> QED
        BY <3>1, <3>2, <3>3 DEF WellFormed, ArgumentsPass, PixelsPass
    <2>3. ASSUME WellFormed PROVE outcome = "ok"
      BY <2>1, <2>3 DEF WellFormed, ArgumentsPass, PixelsPass
    <2> QED
      BY <2>2, <2>3
  <1>2. JudgedInv => BuiltIffWellFormed
    BY <1>1 DEF BuiltIffWellFormed
  <1> QED
    BY <1>2, AlwaysJudged, PTL
=============================================================================
