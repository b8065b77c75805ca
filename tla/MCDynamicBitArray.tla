-------------------------- MODULE MCDynamicBitArray --------------------------
EXTENDS DynamicBitArray
=============================================================================
