-------------------------- MODULE MCCaptureChannel --------------------------
\* Model-checking instance of the capture channel's life.
EXTENDS CaptureChannel
=============================================================================
