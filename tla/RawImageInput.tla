---------------------------- MODULE RawImageInput ----------------------------
(***************************************************************************)
(* The constructor of RawImage (src/lib.rs): its two signatures, the       *)
(* checks of its arguments in the order the code makes them, and the scan  *)
(* of the pixels of an indexed image, in usize arithmetic.                 *)
(*                                                                         *)
(* A call is a record of arguments: how many are positional, which are     *)
(* given by keyword, which are bools, and their values.  Bytes have eight  *)
(* bits; the ranges of u32 and usize are parameters.  oxi::RawImage::new   *)
(* is external.                                                            *)
(***************************************************************************)
EXTENDS Integers, Sequences

CONSTANTS
    RawCalls,   \* the calls of the constructor
    MaxU32,     \* the greatest u32
    UsizeRange, \* how many usize values there are; arithmetic wraps round here
    Omitted     \* an argument that is not given

\* On the platforms that wheels are built for, eight times a u32 fits a usize.
ASSUME RawImageAssumption ==
    /\ MaxU32 \in Nat
    /\ UsizeRange \in Nat
    /\ UsizeRange > 8 * MaxU32

\* The data of a call are bytes.
ASSUME BytesAssumption == \A c \in RawCalls : c.data \in Seq(0..255)

VARIABLES
    call,      \* the arguments
    pc,        \* check, scan or done
    row, x,    \* the pixel that validate_indexed_pixels looks at next
    outcome    \* none, ok, or what was raised; a panic is an exception too

vars == <<call, pc, row, x, outcome>>

Outcomes == {"none", "ok", "TypeError", "ValueError", "PngError", "panic"}

Kinds == {"grayscale", "rgb", "indexed", "grayscale_alpha", "rgba"}
Depths == {1, 2, 4, 8, 16}
Channels == [grayscale |-> 1, rgb |-> 3, indexed |-> 1, grayscale_alpha |-> 2, rgba |-> 4]

CeilDiv(n, d) == (n + d - 1) \div d
Wrap(n) == n % UsizeRange

-----------------------------------------------------------------------------
(* Signatures.                                                             *)

Required == <<"width", "height", "color_type", "bit_depth", "data">>

\* Three positional arguments that begin with bytes are pyoxipng's signature.
IsCompat(c) == c.positional = 3 /\ c.bytesFirst

Allowed(c) == IF IsCompat(c) THEN {"color_type", "bit_depth"}
              ELSE {Required[i] : i \in 1..5} \cup {"palette", "transparent"}

\* What the constructor works with; pyoxipng's has defaults of its own.
Kind(c) ==
    IF IsCompat(c) /\ "color_type" \notin c.keywords THEN "rgba" ELSE c.kind
Depth(c) ==
    IF IsCompat(c) /\ c.keywords \cap {"color_type", "bit_depth"} = {} THEN 8 ELSE c.depth
Palette(c) ==
    IF IsCompat(c) /\ "color_type" \notin c.keywords THEN Omitted ELSE c.palette
Transparent(c) ==
    IF IsCompat(c) /\ "color_type" \notin c.keywords THEN Omitted ELSE c.transparent

-----------------------------------------------------------------------------
(* Checks: "none", or the exception that is raised.                        *)

Check(holds, error) == IF holds THEN "none" ELSE error

\* Checks one after the other: the first that fails counts.
first ?? second == IF first = "none" THEN second ELSE first

\* extract_u32_strict: no bool, and in range.
Number(c, name, n) ==
    Check(name \notin c.bools, "TypeError") ?? Check(n \in 0..MaxU32, "ValueError")

\* raw_image_required_arg: given once, by position or by keyword.
Once(c, i) == Check((i <= c.positional) # (Required[i] \in c.keywords), "TypeError")

KeywordsAllowed(c) == Check(c.keywords \subseteq Allowed(c), "TypeError")

BitDepth(c) ==
    Check("bit_depth" \notin c.bools, "TypeError") ?? Check(Depth(c) \in Depths, "ValueError")

StableError(c) ==
    Check(c.positional <= 5, "TypeError") ?? KeywordsAllowed(c)
    ?? Once(c, 1) ?? Number(c, "width", c.width)
    ?? Once(c, 2) ?? Number(c, "height", c.height)
    ?? Once(c, 3) ?? Once(c, 4) ?? Once(c, 5)

\* The descriptor must come from the compatibility factories.
CompatError(c) ==
    Number(c, "width", c.width) ?? Number(c, "height", c.height)
    ?? Check("color_type" \in c.keywords => c.descriptor, "TypeError")
    ?? KeywordsAllowed(c) ?? BitDepth(c)

\* max_sample_value.
MaxSample(depth) == 2 ^ depth - 1

Samples(c) == {Transparent(c)[i] : i \in DOMAIN Transparent(c)}

\* parse_color_type: the transparent colour is one number, or three.
TransparentError(c) ==
    IF Transparent(c) = Omitted THEN "none"
    ELSE Check(Kind(c) \in {"grayscale", "rgb"}, "ValueError")
         ?? Check(Len(Transparent(c)) = (IF Kind(c) = "rgb" THEN 3 ELSE 1), "ValueError")
         ?? Check("transparent" \notin c.bools, "TypeError")
         ?? Check(Samples(c) \subseteq 0..MaxSample(Depth(c)), "ValueError")

\* parse_palette: the palette of any other kind is not looked at.
PaletteError(c) ==
    IF Kind(c) # "indexed" THEN "none"
    ELSE Check(Palette(c) # Omitted, "ValueError")
         ?? Check(Len(Palette(c)) \in 1..256, "ValueError")
         ?? Check(\A i \in DOMAIN Palette(c) : Len(Palette(c)[i]) \in {3, 4}, "ValueError")
         ?? Check("palette" \notin c.bools, "TypeError")
         ?? Check(\A i \in DOMAIN Palette(c) :
                     \A j \in DOMAIN Palette(c)[i] : Palette(c)[i][j] \in 0..255,
                  "ValueError")

\* validate_raw_image_data_length computes in u128, where nothing wraps.
RowBytes(c) == CeilDiv(c.width * Depth(c) * Channels[Kind(c)], 8)
DataLength(c) == RowBytes(c) * c.height

\* from_parts, up to the pixels.
PartsError(c) ==
    BitDepth(c)
    ?? Check(~c.descriptor \/ IsCompat(c), "ValueError")
    ?? Check(Kind(c) \in Kinds, "ValueError")
    ?? TransparentError(c) ?? PaletteError(c)
    ?? Check(c.width > 0 /\ c.height > 0, "ValueError")
    ?? Check(c.bytesLike, "TypeError")
    ?? Check(DataLength(c) < UsizeRange, "ValueError")

ArgumentError(c) == (IF IsCompat(c) THEN CompatError(c) ELSE StableError(c)) ?? PartsError(c)

\* The palette has a colour for no index that the depth cannot express.
PaletteFits(c) == Len(Palette(c)) <= 2 ^ Depth(c)

-----------------------------------------------------------------------------
(* The constructor.                                                        *)

Init ==
    /\ call \in RawCalls
    /\ pc = "check" /\ row = 0 /\ x = 0
    /\ outcome = "none"

Done(r) ==
    /\ pc' = "done"
    /\ outcome' = r
    /\ UNCHANGED <<call, row, x>>

RejectArguments ==
    /\ pc = "check"
    /\ ArgumentError(call) # "none"
    /\ Done(ArgumentError(call))

RejectPalette ==
    /\ pc = "check"
    /\ ArgumentError(call) = "none"
    /\ Kind(call) = "indexed" /\ ~PaletteFits(call)
    /\ Done("ValueError")

\* Images of 16 bits, or without a palette, are not scanned.
Accept ==
    /\ pc = "check"
    /\ ArgumentError(call) = "none"
    /\ Kind(call) = "indexed" => PaletteFits(call)
    /\ pc' = IF Kind(call) = "indexed" /\ Depth(call) <= 8 THEN "scan" ELSE "build"
    /\ UNCHANGED <<call, row, x, outcome>>

-----------------------------------------------------------------------------
(* validate_indexed_pixels.                                                *)

\* Variant: a row that ends inside a byte loses that byte.
ScanRowBytes_Floor == Wrap(call.width * Depth(call)) \div 8

ScanRowBytes == CeilDiv(Wrap(call.width * Depth(call)), 8)
Start == Wrap(row * ScanRowBytes)
End == Wrap(Start + ScanRowBytes)
Offset == Wrap(x * Depth(call))

\* Variant: the pixels of a byte from the right to the left.
Shift_LittleEndian == Offset % 8

\* The leftmost pixel of a byte is in its high bits.
Shift == 8 - Depth(call) - (Offset % 8)

Pixel == (call.data[Start + (Offset \div 8) + 1] \div 2 ^ Shift) % 2 ^ Depth(call)

\* Data that end before the row does are left to oxipng.
Exhausted == row = call.height \/ End > Len(call.data)

\* Variant: the last pixel of a row is not looked at.
NextPixel_ShortRow ==
    IF x + 2 < call.width THEN x' = x + 1 /\ UNCHANGED row
                          ELSE x' = 0 /\ row' = row + 1

\* Variant: one pixel too many.
NextPixel_LongRow ==
    IF x < call.width THEN x' = x + 1 /\ UNCHANGED row
                      ELSE x' = 0 /\ row' = row + 1

NextPixel ==
    IF x + 1 < call.width THEN x' = x + 1 /\ UNCHANGED row
                          ELSE x' = 0 /\ row' = row + 1

\* A row that ends before it starts panics, and so does indexing past its end.
ScanPixel ==
    /\ pc = "scan"
    /\ ~Exhausted
    /\ IF Start > End \/ Offset \div 8 >= ScanRowBytes THEN Done("panic")
       ELSE IF Pixel >= Len(Palette(call)) THEN Done("ValueError")
       ELSE NextPixel /\ UNCHANGED <<call, pc, outcome>>

EndScan ==
    /\ pc = "scan"
    /\ Exhausted
    /\ pc' = "build"
    /\ UNCHANGED <<call, row, x, outcome>>

\* The depths that PNG has for each kind.
DepthFits(kind, depth) ==
    CASE kind = "grayscale" -> TRUE
      [] kind = "indexed"   -> depth <= 8
      [] OTHER              -> depth >= 8

\* oxi::RawImage::new.
Build ==
    /\ pc = "build"
    /\ Done(IF /\ DepthFits(Kind(call), Depth(call))
               /\ Len(call.data) = DataLength(call)
            THEN "ok" ELSE "PngError")

Next ==
    \/ RejectArguments \/ RejectPalette \/ Accept
    \/ ScanPixel \/ EndScan
    \/ Build

Spec == Init /\ [][Next]_vars

-----------------------------------------------------------------------------
(* Properties.                                                             *)

TypeOK ==
    /\ pc \in {"check", "scan", "build", "done"}
    /\ row \in 0..MaxU32 /\ x \in 0..MaxU32
    /\ pc = "scan" => row <= call.height /\ x < call.width
    /\ outcome \in Outcomes
    /\ pc = "done" <=> outcome # "none"

\* How PNG lays out a row: the bits of its pixels one after the other, from the
\* high bit of every byte.
Bit(c, r, i) == (c.data[r * RowBytes(c) + (i \div 8) + 1] \div 2 ^ (7 - (i % 8))) % 2

PixelAt(c, r, col) ==
    LET d == Depth(c)
        sum[j \in 0..d] == IF j = 0 THEN 0 ELSE 2 * sum[j - 1] + Bit(c, r, col * d + j - 1)
    IN  sum[d]

\* The rows that the data have in full, and their pixels.
CompleteRows == {r \in 0..(call.height - 1) : (r + 1) * RowBytes(call) <= Len(call.data)}
PixelsInPalette ==
    \A r \in CompleteRows : \A col \in 0..(call.width - 1) :
        PixelAt(call, r, col) < Len(Palette(call))

\* What the documentation asks of raw image data (docs/usage/raw-image.md).
WellFormed ==
    /\ ArgumentError(call) = "none"
    /\ Transparent(call) # Omitted => Samples(call) \subseteq 0..(2 ^ Depth(call) - 1)
    /\ DepthFits(Kind(call), Depth(call))
    /\ Kind(call) = "indexed" => PaletteFits(call) /\ PixelsInPalette
    /\ Len(call.data) = DataLength(call)

\* A RawImage is built just when the arguments are well formed: every pixel of
\* an indexed image, padding bits aside, has its colour in the palette, and no
\* image is refused that is in order (validate_indexed_pixels, from_parts).
BuiltIffWellFormed == pc = "done" => (outcome = "ok" <=> WellFormed)

\* The scan never indexes past the data of a row: no size panics
\* (test_raw_image_rejects_huge_dimensions_without_panic).
NeverPanics == outcome # "panic"

\* PngError is for data that do not fit the shape, after every check of the
\* arguments and of the pixels ("Errors RawImage Can Raise").
PngErrorMeansBadData ==
    outcome = "PngError" =>
        /\ ArgumentError(call) = "none"
        /\ Kind(call) = "indexed" => PaletteFits(call)
        /\ Kind(call) = "indexed" /\ Depth(call) <= 8 => PixelsInPalette
        /\ \/ Len(call.data) # DataLength(call)
           \/ ~DepthFits(Kind(call), Depth(call))
=============================================================================
