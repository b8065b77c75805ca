------------------------- MODULE MCVirtualAllocator -------------------------
(* Model-checking instance of VirtualAllocator: a range of four units.    *)
EXTENDS VirtualAllocator
=============================================================================
