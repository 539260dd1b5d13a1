---------------------------- MODULE MCVideoPacing ----------------------------
(* A small instance of VideoPacing for TLC. *)
EXTENDS VideoPacing

\* CaptureFrame returns at once, or waits as long as AcquireNextFrame may; a frame of
\* middling length makes the pause before the next one end in the same millisecond.
QuickAndSlow == {0, 500, 33000}
OnTimeOrLate == {0, 15000}
=============================================================================
