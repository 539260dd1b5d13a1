----------------------------- MODULE MCEncoders -----------------------------
(* Small instances of Encoders for TLC. *)
EXTENDS Encoders

CONSTANTS f1, f2, a1

OneFrameEncoder == {f1}
TwoFrameEncoders == {f1, f2}
OneAudioEncoder == {a1}
=============================================================================
