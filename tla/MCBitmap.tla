------------------------------- MODULE MCBitmap -------------------------------
EXTENDS Bitmap
CONSTANTS None
===============================================================================
