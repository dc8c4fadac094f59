--------------------------- MODULE MCTimerPublish ---------------------------
EXTENDS TimerPublish
=============================================================================
