---------------------------- MODULE MCSignaling ----------------------------
(* Small instances of Signaling for TLC. *)
EXTENDS Signaling, TLC

CONSTANTS c1, c2

OneConsumer == {c1}
TwoConsumers == {c1, c2}
=============================================================================
