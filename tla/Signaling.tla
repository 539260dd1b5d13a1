------------------------------ MODULE Signaling ------------------------------
(***************************************************************************)
(* Class SignalingClient: one peer connection per consumer, negotiated     *)
(* through a server that relays messages.                                  *)
(*                                                                         *)
(* Two threads run it.  The io thread reads the server's messages and      *)
(* handles one after the other (HandleJSONMessage); the signaling thread   *)
(* of WebRTC runs the observers.  Every call of a PeerConnection from the  *)
(* io thread is carried out by the signaling thread while the io thread    *)
(* waits, so such a call needs a signaling thread that is not busy.        *)
(*                                                                         *)
(* WebRTC, the server and the consumers are external.  While the WebSocket *)
(* connection is up it loses and reorders nothing; it may fail at any      *)
(* moment, and with it what was not sent yet (see WebSocketClient and      *)
(* Outbox).  Then main() gives its client back, which is destroyed with    *)
(* its connections when no observer refers to it any more: by main(), or   *)
(* by the destructor of an observer, on the signaling thread.              *)
(***************************************************************************)
EXTENDS Naturals, Sequences, FiniteSets

CONSTANTS
  Consumers,    \* IDs of consumers
  MaxSessions,  \* bound: peer connections per consumer, and its subscriptions
  NoConnection  \* no entry in m_consumers; nobody on a thread

ASSUME SignalingAssumption ==
  /\ MaxSessions \in Nat \ {0}
  /\ NoConnection \notin Consumers \X (1..MaxSessions)

Connections == Consumers \X (1..MaxSessions)
Consumer(p) == p[1]
Tracks == {"video", "audio"}

VARIABLES
  client,       \* the client: its WebSocket connection, then its destruction
  m_consumers,  \* the connection of every consumer
  adding,       \* io thread: the connection SendOffer adds tracks to
  step,         \* io thread: the track it adds next
  busy,         \* signaling thread: the connection whose CreateOffer has ended, until its
                \* observer is destroyed
  doing,        \* signaling thread: OnSuccess, which has sent the offer ("call"), then what
                \* the destructor does: "release", or "destroy", the client; "drop" busy
  made,         \* external: the number of connections created for each consumer
  tracks,       \* external: the tracks added to a connection
  needed,       \* external: it has reported that negotiation is needed
  offering,     \* external: connections whose CreateOffer is under way
  draft,        \* external: the tracks of that offer
  have,         \* external: signaling state, "stable" or "local" (have-local-offer)
  agreed,       \* external: the tracks of the last offer that was answered
  reached,      \* external: the connections that took a candidate of their consumer
  gathered,     \* external: the connections that have found an ICE candidate
  inbox,        \* external: the server's messages to this client, in order
  mail,         \* external: messages on their way to each consumer, in order
  present,      \* external: the consumers that are connected to the server
  subscribed,   \* external: the number of subscriptions of each consumer
  failed        \* history: connections on which a call of WebRTC failed

ioVars == <<m_consumers, adding, step>>
peerVars == <<made, tracks, needed, offering, draft, have, agreed, gathered, reached,
              failed>>
netVars == <<inbox, mail, present, subscribed>>
vars == <<client, ioVars, busy, doing, peerVars, netVars>>

Lives == {"connected", "lost", "over", "released", "destroying", "destroyed"}

Init ==
  /\ client = "connected"
  /\ m_consumers = [c \in Consumers |-> NoConnection]
  /\ adding = NoConnection /\ step = "video" /\ busy = NoConnection /\ doing = "call"
  /\ made = [c \in Consumers |-> 0]
  /\ tracks = [p \in Connections |-> {}]
  /\ needed = {} /\ offering = {}
  /\ draft = [p \in Connections |-> {}]
  /\ have = [p \in Connections |-> "stable"]
  /\ agreed = [p \in Connections |-> {}]
  /\ gathered = {} /\ reached = {} /\ failed = {}
  /\ inbox = <<>> /\ mail = [c \in Consumers |-> <<>>]
  /\ present = {} /\ subscribed = [c \in Consumers |-> 0]

\* What keeps a connection, its tracks and their capture threads alive: the entry
\* of the map, SendOffer, and the observer of a CreateOffer until it is destroyed.
Held(p) == m_consumers[Consumer(p)] = p \/ adding = p \/ p \in offering \/ busy = p

SendToPeer(c, m) ==
  mail' = IF client = "connected" THEN [mail EXCEPT ![c] = Append(@, m)] ELSE mail

OfferMessage(p) == [type |-> "offer", of |-> p, tracks |-> draft[p]]
CandidateMessage(p) == [type |-> "ice-candidate", of |-> p, tracks |-> {}]
-----------------------------------------------------------------------------
(* The observer of connection p, inside a call that the io thread waits for.  *)
(* The offer is made for the tracks of that moment.                           *)

\* Mutant: only the first need of a connection makes an offer.
OnFirstNegotiationNeeded(p) ==
  LET q == m_consumers[Consumer(p)]
  IN  IF q = NoConnection \/ draft[q] # {}
      THEN UNCHANGED <<offering, draft>>
      ELSE /\ offering' = offering \cup {q}
           /\ draft' = [draft EXCEPT ![q] = tracks'[q]]

OnRenegotiationNeeded(p) ==
  LET q == m_consumers[Consumer(p)]
  IN  IF q = NoConnection
      THEN UNCHANGED <<offering, draft>>
      ELSE /\ offering' = offering \cup {q}
           /\ draft' = [draft EXCEPT ![q] = tracks'[q]]

\* WebRTC reports the need once, in the stable state only.
UpdateNegotiationNeeded(p, need) ==
  IF need
  THEN needed' = needed \cup {p} /\ OnRenegotiationNeeded(p)
  ELSE UNCHANGED <<needed, offering, draft>>
-----------------------------------------------------------------------------
(* The io thread. *)

\* The next message is read while the client is connected; the read that is under way
\* when a write fails may still bring one.
Receives(type) ==
  /\ adding = NoConnection
  /\ client \in {"connected", "lost"}
  /\ client' = IF client = "lost" THEN "over" ELSE client
  /\ inbox # <<>> /\ Head(inbox).type = type
  /\ inbox' = Tail(inbox)

Sender == Head(inbox).from
Peer == m_consumers[Sender]

\* Mutant: the connection is not put into the map.
SubscribeForgets ==
  /\ Receives("subscribe") /\ busy = NoConnection
  /\ Peer = NoConnection /\ made[Sender] < MaxSessions
  /\ made' = [made EXCEPT ![Sender] = @ + 1]
  /\ adding' = <<Sender, made'[Sender]>>
  /\ UNCHANGED <<m_consumers, step, busy, doing, tracks, needed, offering, draft, have,
                 agreed, gathered, reached, failed, mail, present, subscribed>>

\* "subscribe" of an unknown consumer, and SendOffer up to the insertion.  The bound
\* disables nothing: a consumer subscribes no more often than that.
Subscribe ==
  /\ Receives("subscribe") /\ busy = NoConnection
  /\ Peer = NoConnection /\ made[Sender] < MaxSessions
  /\ made' = [made EXCEPT ![Sender] = @ + 1]
  /\ adding' = <<Sender, made'[Sender]>>
  /\ m_consumers' = [m_consumers EXCEPT ![Sender] = adding']
  /\ UNCHANGED <<step, busy, doing, tracks, needed, offering, draft, have, agreed, gathered,
                 reached, failed, mail, present, subscribed>>

\* CreatePeerConnectionOrError fails, or the consumer is connected already.
SubscribeIgnored ==
  /\ Receives("subscribe")
  /\ Peer = NoConnection => busy = NoConnection
  /\ UNCHANGED <<ioVars, busy, doing, peerVars, mail, present, subscribed>>

\* The next statement of SendOffer; none is left after the audio track.
Advance ==
  /\ step' = IF step = "video" THEN "audio" ELSE "video"
  /\ adding' = IF step = "video" THEN adding ELSE NoConnection

AddTrack ==
  /\ adding # NoConnection /\ busy = NoConnection
  /\ tracks' = [tracks EXCEPT ![adding] = @ \cup {step}]
  /\ UpdateNegotiationNeeded(adding, have[adding] = "stable" /\ adding \notin needed)
  /\ Advance
  /\ UNCHANGED <<client, m_consumers, busy, doing, made, have, agreed, gathered, reached,
                 failed, netVars>>

\* AddTrack returns an error, and SendOffer goes on; or the constructor of the track
\* throws, and SendOffer is over.
AddTrackFails ==
  /\ adding # NoConnection
  /\ (busy = NoConnection /\ Advance) \/ (adding' = NoConnection /\ step' = "video")
  /\ failed' = failed \cup {adding}
  /\ UNCHANGED <<client, m_consumers, busy, doing, made, tracks, needed, offering, draft,
                 have, agreed, gathered, reached, netVars>>

\* HandleAnswer.  SetRemoteDescription takes the answer to a local offer with the
\* same tracks; any other answer is an error that is only logged.
Fits(p, answer) == have[p] = "local" /\ draft[p] = answer.tracks

\* The answer makes the connection stable, and the need is computed anew.
Settle(p) ==
  /\ have' = [have EXCEPT ![p] = "stable"]
  /\ agreed' = [agreed EXCEPT ![p] = draft[p]]
  /\ IF tracks[p] # draft[p]
     THEN UNCHANGED needed /\ OnRenegotiationNeeded(p)
     ELSE needed' = needed \ {p} /\ UNCHANGED <<offering, draft>>

HandleAnswer ==
  /\ Receives("answer")
  /\ IF Peer # NoConnection
     THEN /\ busy = NoConnection
          /\ UNCHANGED tracks
          /\ IF Fits(Peer, Head(inbox))
             THEN Settle(Peer)
             ELSE UNCHANGED <<have, agreed, needed, offering, draft>>
     ELSE UNCHANGED <<have, agreed, tracks, needed, offering, draft>>
  /\ UNCHANGED <<ioVars, busy, doing, made, gathered, reached, failed, mail, present,
                 subscribed>>

\* Mutant: the entry is used without a test whether there is one.
ProcessIceCandidateUntested ==
  /\ Receives("ice-candidate")
  /\ busy = NoConnection
  /\ reached' = IF Peer = NoConnection \/ agreed[Peer] # {}
                THEN reached \cup {Peer} ELSE reached
  /\ UNCHANGED <<ioVars, busy, doing, made, tracks, needed, offering, draft, have, agreed,
                 gathered, failed, mail, present, subscribed>>

\* AddIceCandidate fails before a remote description is set.
ProcessIceCandidate ==
  /\ Receives("ice-candidate")
  /\ Peer # NoConnection => busy = NoConnection
  /\ reached' = IF Peer # NoConnection /\ agreed[Peer] # {}
                THEN reached \cup {Peer} ELSE reached
  /\ UNCHANGED <<ioVars, busy, doing, made, tracks, needed, offering, draft, have, agreed,
                 gathered, failed, mail, present, subscribed>>

\* Mutant: the entry stays.
ConsumerDisconnectedStays ==
  /\ Receives("consumer-disconnected")
  /\ UNCHANGED <<ioVars, busy, doing, peerVars, mail, present, subscribed>>

\* Erasing the entry may destroy the connection, which the signaling thread does.
ConsumerDisconnected ==
  /\ Receives("consumer-disconnected")
  /\ (Peer # NoConnection /\ Peer \notin offering \cup {busy}) => busy = NoConnection
  /\ m_consumers' = [m_consumers EXCEPT ![Sender] = NoConnection]
  /\ UNCHANGED <<adding, step, busy, doing, peerVars, mail, present, subscribed>>
-----------------------------------------------------------------------------
(* The signaling thread. *)

\* Mutant: the local description is not set.
OfferCreatedOnly(p) ==
  /\ busy = NoConnection /\ p \in offering
  /\ SendToPeer(Consumer(p), OfferMessage(p))
  /\ busy' = p /\ doing' = "release" /\ offering' = offering \ {p}
  /\ UNCHANGED <<client, ioVars, made, tracks, needed, draft, have, agreed, gathered,
                 reached, failed, inbox, present, subscribed>>

\* CreateSDPOfferObserver::OnSuccess sends the offer first ...
OfferCreated(p) ==
  /\ busy = NoConnection /\ p \in offering
  /\ SendToPeer(Consumer(p), OfferMessage(p))
  /\ busy' = p /\ doing' = "call" /\ offering' = offering \ {p}
  /\ UNCHANGED <<client, ioVars, made, tracks, needed, draft, have, agreed, gathered, reached,
                 failed, inbox, present, subscribed>>

\* ... and then sets the local description.
SetLocalDescription(p) ==
  /\ busy = p /\ doing = "call"
  /\ \/ have' = [have EXCEPT ![p] = "local"] /\ UNCHANGED failed
     \/ failed' = failed \cup {p} /\ UNCHANGED have
  /\ doing' = "release"
  /\ UNCHANGED <<client, ioVars, busy, made, tracks, needed, offering, draft, agreed,
                 gathered, reached, netVars>>

\* OnFailure, or OnSuccess with a description that cannot be serialized.
OfferFails(p) ==
  /\ busy = NoConnection /\ p \in offering
  /\ offering' = offering \ {p} /\ failed' = failed \cup {p}
  /\ busy' = p /\ doing' = "release"
  /\ UNCHANGED <<client, ioVars, made, tracks, needed, draft, have, agreed, gathered,
                 reached, netVars>>

\* SignalingClient::OnIceCandidate
OnIceCandidate(p) ==
  /\ busy = NoConnection /\ Held(p)
  /\ have[p] = "local" \/ agreed[p] # {}
  /\ p \notin gathered
  /\ gathered' = gathered \cup {p}
  /\ SendToPeer(Consumer(p), CandidateMessage(p))
  /\ UNCHANGED <<client, ioVars, busy, doing, made, tracks, needed, offering, draft, have,
                 agreed, reached, failed, inbox, present, subscribed>>
-----------------------------------------------------------------------------
(* Consumers and the server (external). *)

FromServer(type, c, of, t) == [type |-> type, from |-> c, of |-> of, tracks |-> t]
ServerSends(type, c) == inbox' = Append(inbox, FromServer(type, c, NoConnection, {}))

\* A consumer subscribes, or subscribes once more.
Joins(c) ==
  /\ subscribed[c] < MaxSessions
  /\ subscribed' = [subscribed EXCEPT ![c] = @ + 1]
  /\ present' = present \cup {c}
  /\ ServerSends("subscribe", c)
  /\ UNCHANGED <<client, ioVars, busy, doing, peerVars, mail>>

Leaves(c) ==
  /\ c \in present
  /\ present' = present \ {c}
  /\ ServerSends("consumer-disconnected", c)
  /\ UNCHANGED <<client, ioVars, busy, doing, peerVars, mail, subscribed>>

\* A consumer answers every offer, and then sends a candidate of its own; messages to
\* one that has left are dropped.
TakesMail(c) ==
  /\ mail[c] # <<>>
  /\ mail' = [mail EXCEPT ![c] = Tail(@)]
  /\ LET m == Head(mail[c])
     IN  IF c \in present /\ m.type = "offer"
         THEN inbox' = inbox \o <<FromServer("answer", c, m.of, m.tracks),
                                   FromServer("ice-candidate", c, m.of, {})>>
         ELSE UNCHANGED inbox
  /\ UNCHANGED <<client, ioVars, busy, doing, peerVars, present, subscribed>>
-----------------------------------------------------------------------------
(* The end of the WebSocket connection, of main() and of the client. *)

\* A write fails.
LinkLost ==
  /\ client = "connected" /\ client' = "lost"
  /\ UNCHANGED <<ioVars, busy, doing, peerVars, netVars>>

\* The socket had not sent the last message.
NotSent(c) ==
  /\ client # "connected" /\ mail[c] # <<>>
  /\ mail' = [mail EXCEPT ![c] = SubSeq(@, 1, Len(@) - 1)]
  /\ UNCHANGED <<client, ioVars, busy, doing, peerVars, inbox, present, subscribed>>

\* The read fails: ioc.run() has nothing to do any more and returns.
ReadFails ==
  /\ client \in {"connected", "lost"} /\ adding = NoConnection
  /\ client' = "over"
  /\ UNCHANGED <<ioVars, busy, doing, peerVars, netVars>>

\* Mutant: the observer of CreateOffer takes no reference.
NobodyRefers == FALSE

\* The observers of CreateOffer refer to the client, until their destructor releases it.
ObserverRefers ==
  offering # {} \/ (busy # NoConnection /\ doing \in {"call", "release"})

\* ioc.run() has returned, and so does main().
MainReleases ==
  /\ client = "over" /\ adding = NoConnection
  /\ client' = IF ObserverRefers THEN "released" ELSE "destroying"
  /\ UNCHANGED <<ioVars, busy, doing, peerVars, netVars>>

\* The destructor of the observer gives up the client first, and destroys it if it was
\* the last one to refer to it ...
ReleaseClient ==
  /\ busy # NoConnection /\ doing = "release"
  /\ \/ /\ client = "released" /\ offering = {}
        /\ client' = "destroying" /\ doing' = "destroy"
     \/ /\ client # "released" \/ offering # {}
        /\ doing' = "drop" /\ UNCHANGED client
  /\ UNCHANGED <<ioVars, busy, peerVars, netVars>>

\* ... and its connection after that.
DropConnection ==
  /\ busy # NoConnection /\ doing = "drop"
  /\ busy' = NoConnection /\ doing' = "call"
  /\ UNCHANGED <<client, ioVars, peerVars, netVars>>

\* ~SignalingClient destroys m_consumers, one connection after the other.  A connection
\* that nobody else holds is destroyed on the signaling thread, ...
DestroyConnection(c) ==
  /\ client = "destroying" /\ m_consumers[c] # NoConnection
  /\ busy = NoConnection \/ doing = "destroy" \/ busy = m_consumers[c]
  /\ m_consumers' = [m_consumers EXCEPT ![c] = NoConnection]
  /\ UNCHANGED <<client, adding, step, busy, doing, peerVars, netVars>>

\* ... and what the observers use of the client comes last.
DestroyClient ==
  /\ client = "destroying" /\ \A c \in Consumers : m_consumers[c] = NoConnection
  /\ client' = "destroyed"
  /\ doing' = IF doing = "destroy" THEN "drop" ELSE doing
  /\ UNCHANGED <<ioVars, busy, peerVars, netVars>>

Release ==
  \/ MainReleases \/ ReleaseClient \/ DropConnection \/ DestroyClient
  \/ \E c \in Consumers : DestroyConnection(c)
-----------------------------------------------------------------------------
Io ==
  \/ Subscribe \/ SubscribeIgnored \/ AddTrack \/ AddTrackFails
  \/ HandleAnswer \/ ProcessIceCandidate \/ ConsumerDisconnected
Signal ==
  \E p \in Connections :
    OfferCreated(p) \/ SetLocalDescription(p) \/ OfferFails(p) \/ OnIceCandidate(p)
End == LinkLost \/ ReadFails \/ Release
World == \E c \in Consumers : Joins(c) \/ Leaves(c) \/ TakesMail(c) \/ NotSent(c)

Next == Io \/ Signal \/ End \/ World

Spec == Init /\ [][Next]_vars

\* Both threads run, what is on its way to a consumer arrives, and a read on a broken
\* connection fails.
FairSpec ==
  /\ Spec
  /\ WF_vars(Io) /\ WF_vars(client = "lost" /\ ReadFails) /\ WF_vars(Release)
  /\ \A p \in Connections : WF_vars(OfferCreated(p) \/ OfferFails(p))
                            /\ WF_vars(SetLocalDescription(p))
  /\ \A c \in Consumers : WF_vars(TakesMail(c))
-----------------------------------------------------------------------------
(* Properties. *)

\* Every variable has its type.
ServerMessage ==
  [type : {"subscribe", "answer", "ice-candidate", "consumer-disconnected"},
   from : Consumers, of : Connections \cup {NoConnection}, tracks : SUBSET Tracks]
ConsumerMessage ==
  [type : {"offer", "ice-candidate"}, of : Connections, tracks : SUBSET Tracks]
TypeOK ==
  /\ client \in Lives
  /\ m_consumers \in [Consumers -> Connections \cup {NoConnection}]
  /\ adding \in Connections \cup {NoConnection} /\ step \in Tracks
  /\ busy \in Connections \cup {NoConnection}
  /\ doing \in {"call", "release", "destroy", "drop"}
  /\ made \in [Consumers -> 0..MaxSessions]
  /\ tracks \in [Connections -> SUBSET Tracks]
  /\ needed \subseteq Connections /\ offering \subseteq Connections
  /\ draft \in [Connections -> SUBSET Tracks]
  /\ have \in [Connections -> {"stable", "local"}]
  /\ agreed \in [Connections -> SUBSET Tracks]
  /\ gathered \subseteq Connections /\ reached \subseteq Connections
  /\ failed \subseteq Connections
  /\ inbox \in Seq(ServerMessage) /\ mail \in [Consumers -> Seq(ConsumerMessage)]
  /\ present \subseteq Consumers /\ subscribed \in [Consumers -> 0..MaxSessions]

\* The offer was sent: the local description is being set, or set.
Offered(p) == (busy = p /\ doing = "call") \/ have[p] = "local"

\* WebRTC reports a need once, so none may be lost: an offer is on its way through
\* CreateOffer, OnSuccess or the consumer, or a call failed.
NeedIsOffered ==
  \A p \in needed : p \in offering \/ Offered(p) \/ p \in failed

\* Observers use the client through a raw pointer, on the other thread.  When the client
\* is gone, no connection is left that could call them, but the one that the destructor of
\* an observer, which released the client, is about to let go, on the signaling thread.
ClientOutlivesCalls ==
  client = "destroyed" =>
    /\ adding = NoConnection /\ offering = {}
    /\ \A c \in Consumers : m_consumers[c] = NoConnection
    /\ busy # NoConnection => doing = "drop"

\* The offer is sent before the local description is set, and still no reply comes too
\* early: an answer finds the offer it answers, and a candidate a remote description.
RepliesFit ==
  inbox # <<>> /\ Head(inbox).of # NoConnection /\ adding = NoConnection =>
    LET p == Head(inbox).of
    IN  busy = NoConnection /\ Peer = p /\ made[Sender] = 1 /\ p \notin failed =>
          IF Head(inbox).type = "answer" THEN Fits(p, Head(inbox)) ELSE agreed[p] # {}

\* A consumer that stays gets both tracks, in every session, although the first offer is
\* often made before the audio track is there, and although messages of its session before
\* may still be under way.  Nobody asks again after a call of WebRTC that failed.
Served ==
  \A p \in Connections :
    m_consumers[Consumer(p)] = p ~>
      \/ agreed[p] = Tracks \/ p \in failed
      \/ Consumer(p) \notin present \/ m_consumers[Consumer(p)] # p
      \/ client # "connected"

\* When a consumer has left, or the server cannot be heard any more, its connection is
\* destroyed, and with it the threads that capture for it.
Wanted(p) == Consumer(p) \in present /\ client = "connected"
CaptureEnds == \A p \in Connections : Held(p) /\ ~Wanted(p) ~> ~Held(p) \/ Wanted(p)
=============================================================================
