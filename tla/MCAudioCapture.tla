--------------------------- MODULE MCAudioCapture ---------------------------
(* Small instances of AudioCapture for TLC. *)
EXTENDS AudioCapture

CONSTANTS s1, s2, s3

TwoSources == {s1, s2}
ThreeSources == {s1, s2, s3}

\* Packets that are shorter than 10 ms, and that are longer.
ShortAndLong == {1, 3}
=============================================================================
