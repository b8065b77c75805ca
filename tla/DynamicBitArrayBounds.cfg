\* Bit counts 0..17 (up to two whole bytes and a partial third), writes at
\* bits 0, 7, 8 and 15, so 2-bit ranges straddle both byte boundaries.
\* A failed ASSERT or a fault stops the kernel: those states are final.
CONSTANTS
    MaxBits = 17
    MaxCount = 2
    Indices = {0, 7, 8, 15}
    NoRange = NoRange
SPECIFICATION Spec
INVARIANT NoOutOfBounds
CHECK_DEADLOCK FALSE
