------------------------- MODULE MCWebSocketClient -------------------------
(* Small instances of WebSocketClient for TLC. *)
EXTENDS WebSocketClient

CONSTANTS m1, m2, m3, signaling, other

\* WebRTC's signaling thread makes two calls and a second thread one.  What a
\* single thread does with three calls is among the behaviors.
ThreeMessages == {m1, m2, m3}
TwoThreads == {signaling, other}
TwoCallers == (m1 :> signaling) @@ (m2 :> signaling) @@ (m3 :> other)

\* The program itself: every call is made by the signaling thread.
OneThread == {signaling}
OneCaller == [m \in ThreeMessages |-> signaling]

NoneSilent == {}
FirstSilent == {m1}
=============================================================================
