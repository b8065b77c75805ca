-------------------------------- MODULE Bitmap --------------------------------
(***************************************************************************)
(* Kernel/WindowManager/Bitmap.cpp: a bitmap of width x height pixels in   *)
(* one of six formats.  The constructor computes the pitch (bytes per      *)
(* scanline) as ceiling_divide(width * bpp, 8); scanline_at(y) is the data *)
(* pointer plus pitch * y; color_at(index) reads the palette after two     *)
(* ASSERTs; the MutableBitmap destructor frees the data and palette it     *)
(* owns.  Addresses are byte offsets from the data pointer; a pixel is     *)
(* the run of bpp bits after x * bpp bits of its scanline.                 *)
(***************************************************************************)
EXTENDS Integers

CONSTANTS
    MaxWidth,   \* widths passed to the constructor are 1..MaxWidth
    MaxHeight,  \* heights are 1..MaxHeight
    NoBitmap    \* model value: no bitmap constructed, or destroyed

Formats == {"INDEXED_1_BPP", "INDEXED_2_BPP", "INDEXED_4_BPP", "INDEXED_8_BPP",
            "RGB_24_BPP", "RGBA_32_BPP"}

VARIABLES
    bitmap,   \* the object: [width, height, format, pitch, palette, owns]
    status,   \* "ok" or "assert" (a failed ASSERT in color_at)
    freed     \* buffers released by the destructor

vars == <<bitmap, status, freed>>

BitmapType ==
    [width : 1..MaxWidth, height : 1..MaxHeight, format : Formats,
     pitch : 1..(MaxWidth * 4),
     palette : BOOLEAN, owns : SUBSET {"data", "palette"}]

TypeOK ==
    /\ bitmap \in BitmapType \cup {NoBitmap}
    /\ status \in {"ok", "assert"}
    /\ freed \subseteq {"data", "palette"}

(* Bitmap::bpp.                                                            *)
Bpp(f) ==
    CASE f = "INDEXED_1_BPP" -> 1  [] f = "INDEXED_2_BPP" -> 2
      [] f = "INDEXED_4_BPP" -> 4  [] f = "INDEXED_8_BPP" -> 8
      [] f = "RGB_24_BPP"    -> 24 [] f = "RGBA_32_BPP"   -> 32

(* Variant used to validate TypeOK: the pitch rounded down (0 bytes for a  *)
(* bitmap narrower than a byte).                                           *)
PitchFloor(width, f) == (width * Bpp(f)) \div 8

(* calculate_pitch: ceiling_divide(m_width * bpp(), 8).                    *)
Pitch(width, f) == (width * Bpp(f) + 7) \div 8

(* Variant used to validate PixelsFitScanlines: rows advance by the width *)
(* instead of the pitch.                                                   *)
ScanlineAtWidth(b, y) == b.width * y

(* scanline_at(y), as an offset from m_data.                               *)
ScanlineAt(b, y) == b.pitch * y

Init == bitmap = NoBitmap /\ status = "ok" /\ freed = {}

(* The three constructors (Bitmap, MutableBitmap, BitmapView): store the  *)
(* size and format, compute the pitch; the MutableBitmap one may take      *)
(* ownership of the data and the palette, a BitmapView owns neither.       *)
Construct(w, h, f, palette, owns) ==
    /\ bitmap = NoBitmap /\ status = "ok" /\ freed = {}
    /\ "palette" \in owns => palette
    /\ bitmap' = [width |-> w, height |-> h, format |-> f, pitch |-> Pitch(w, f),
                  palette |-> palette, owns |-> owns]
    /\ UNCHANGED <<status, freed>>

(* index < SET_BIT(bpp()): the indices passed are below 2^9, so formats   *)
(* of more than 8 bpp accept them all.                                     *)
IndexInPalette(index, f) == Bpp(f) > 8 \/ index < 2^Bpp(f)

(* color_at(index): ASSERT a palette, ASSERT index < 2^bpp.                *)
ColorAt(index) ==
    /\ bitmap # NoBitmap /\ status = "ok"
    /\ status' = IF bitmap.palette /\ IndexInPalette(index, bitmap.format)
                 THEN "ok" ELSE "assert"
    /\ UNCHANGED <<bitmap, freed>>

(* ~MutableBitmap: delete[] the data and the palette it owns.             *)
Destroy ==
    /\ bitmap # NoBitmap /\ status = "ok"
    /\ freed' = bitmap.owns
    /\ bitmap' = NoBitmap
    /\ UNCHANGED status

Next ==
    \/ \E w \in 1..MaxWidth, h \in 1..MaxHeight, f \in Formats, p \in BOOLEAN,
          o \in SUBSET {"data", "palette"} : Construct(w, h, f, p, o)
    \/ \E index \in 0..256 : ColorAt(index)
    \/ Destroy

(* A failed ASSERT stops the kernel; a destroyed bitmap is not reused.    *)
Spec == Init /\ [][Next]_vars

-----------------------------------------------------------------------------

(* The pitch calculate_pitch gives and the scanline_at addressing agree:  *)
(* the bpp bits of every pixel (x, y), starting x * bpp bits into          *)
(* scanline_at(y), end before scanline_at(y + 1), so no two rows share a   *)
(* pixel, for every format and every width (also those where width * bpp  *)
(* is not a multiple of 8).                                                *)
PixelsFitScanlines ==
    bitmap # NoBitmap =>
        \A x \in 0..(bitmap.width - 1), y \in 0..(bitmap.height - 1) :
            ScanlineAt(bitmap, y) * 8 + (x + 1) * Bpp(bitmap.format)
                <= ScanlineAt(bitmap, y + 1) * 8

=============================================================================
