---------------------------- MODULE MCFrameRing ----------------------------
\* Model-checking instance of the capture ring.
EXTENDS FrameRing
=============================================================================
