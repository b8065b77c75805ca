\* Bitmaps up to 9 pixels wide (a width where 1, 2 and 4 bpp rows end in a
\* partial byte) and 2 rows high.  A bitmap is constructed, read and
\* destroyed once; a failed ASSERT stops the kernel.
CONSTANTS
    MaxWidth = 9
    MaxHeight = 2
    None = None
    NoBitmap <- None
SPECIFICATION Spec
INVARIANTS
    TypeOK
    PixelsFitScanlines
CHECK_DEADLOCK FALSE
