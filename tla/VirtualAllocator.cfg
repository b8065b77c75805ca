CONSTANTS
    Base = 0
    Size = 4
    MaxRequest = 2

SPECIFICATION Spec
INVARIANT TypeOK
INVARIANT RangesPartition
\* hang() on an allocator error halts the core: the system really stops.
CHECK_DEADLOCK FALSE
