--------------------------- MODULE MCVideoCapture ---------------------------
(* Small instances of VideoCapture for TLC. *)
EXTENDS VideoCapture

CONSTANTS s1, s2, s3

TwoSources == {s1, s2}
ThreeSources == {s1, s2, s3}
=============================================================================
