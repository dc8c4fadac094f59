--------------------------- MODULE MCCaptureClock ---------------------------
EXTENDS CaptureClock
=============================================================================
