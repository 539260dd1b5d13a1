------------------------------- MODULE Outbox -------------------------------
(***************************************************************************)
(* What SignalingClient relies on when it hands a message to the signaling *)
(* connection: one stop-and-wait channel to the server.  Messages are      *)
(* delivered in the order they were accepted, the next one only after the  *)
(* sender of the previous one was called back for SENT; the first FAILED   *)
(* is the end of the connection and of all deliveries; a message is        *)
(* CANCELLED only if it was never accepted.  As long as the link is up     *)
(* the status a sender hears is the one it is called back for; once it is  *)
(* lost a sender may hear any.  WebSocketClient implements this as long    *)
(* as nobody calls Disconnect on it.                                       *)
(***************************************************************************)
EXTENDS Naturals, Sequences, SequencesExt

CONSTANT Messages

VARIABLES
  link,       \* "new", "up" or "lost"
  accepted,   \* the messages taken over from their senders, in order
  delivered,  \* the messages the server can read, in order
  verdict,    \* how each message ended
  heard       \* the status its sender was given then

vars == <<link, accepted, delivered, verdict, heard>>

Status == {"QUEUED", "SENDING", "SENT", "FAILED", "CANCELLED"}

Init ==
  /\ link = "new"
  /\ accepted = <<>>
  /\ delivered = <<>>
  /\ verdict = [m \in Messages |-> "none"]
  /\ heard = [m \in Messages |-> "none"]

\* The sender of m, which has heard of no end yet, is called back for s.
End(m, s) ==
  /\ verdict[m] = "none"
  /\ verdict' = [verdict EXCEPT ![m] = s]
  /\ \E h \in Status :
       /\ link = "up" => h = s
       /\ heard' = [heard EXCEPT ![m] = h]

Open ==
  /\ link = "new"
  /\ link' \in {"up", "lost"}
  /\ UNCHANGED <<accepted, delivered, verdict, heard>>

Lose ==
  /\ link = "up"
  /\ link' = "lost"
  /\ UNCHANGED <<accepted, delivered, verdict, heard>>

\* A sender that found the link up may be late.
Accept(m) ==
  /\ link # "new"
  /\ verdict[m] = "none"
  /\ m \notin ToSet(accepted)
  /\ accepted' = Append(accepted, m)
  /\ UNCHANGED <<link, delivered, verdict, heard>>

Refuse(m) ==
  /\ link = "lost"
  /\ m \notin ToSet(accepted)
  /\ End(m, "CANCELLED")
  /\ UNCHANGED <<link, accepted, delivered>>

Deliver ==
  /\ Len(delivered) < Len(accepted)
  /\ \A m \in ToSet(delivered) : verdict[m] = "SENT"
  /\ \A m \in ToSet(accepted) : verdict[m] # "FAILED"
  /\ delivered' = Append(delivered, accepted[Len(delivered) + 1])
  /\ UNCHANGED <<link, accepted, verdict, heard>>

Confirm(m) ==
  /\ m \in ToSet(delivered)
  /\ End(m, "SENT")
  /\ UNCHANGED <<link, accepted, delivered>>

GiveUp(m) ==
  /\ m \in ToSet(accepted) \ ToSet(delivered)
  /\ End(m, "FAILED")
  /\ link' = "lost"
  /\ UNCHANGED <<accepted, delivered>>

Next ==
  \/ Open
  \/ Lose
  \/ Deliver
  \/ \E m \in Messages : Accept(m) \/ Refuse(m) \/ Confirm(m) \/ GiveUp(m)

Spec == Init /\ [][Next]_vars
=============================================================================
