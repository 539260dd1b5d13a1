-------------------------- MODULE SignalingProofs --------------------------
(***************************************************************************)
(* Proofs about Signaling, for any consumers and any number of sessions.   *)
(***************************************************************************)
EXTENDS Signaling, TLAPS, SequenceTheorems

-----------------------------------------------------------------------------
(* The inductive invariant. *)

\* An entry of m_consumers belongs to its key, and SendOffer works on an entry: no
\* message is handled before it is over.
MapInv ==
  /\ \A c \in Consumers : m_consumers[c] # NoConnection => Consumer(m_consumers[c]) = c
  /\ adding # NoConnection => m_consumers[Consumer(adding)] = adding

\* ~SignalingClient begins when nobody refers to the client any more, and nobody can from
\* then on: messages have ended when main() releases it, and with them the reasons for an
\* offer.  A signaling thread that destroys the client is inside the destructor of an
\* observer that has released it.
EndInv ==
  /\ client \in {"released", "destroying", "destroyed"} => adding = NoConnection
  /\ client \in {"destroying", "destroyed"} => ~ObserverRefers
  /\ client = "destroyed" => \A c \in Consumers : m_consumers[c] = NoConnection
  /\ doing = "destroy" => client = "destroying"

LEMMA ConnectionsFacts ==
  /\ NoConnection \notin Connections
  /\ \A p \in Connections : Consumer(p) \in Consumers
  /\ \A c \in Consumers, n \in 1..MaxSessions :
       <<c, n>> \in Connections /\ Consumer(<<c, n>>) = c
  BY SignalingAssumption DEF Connections, Consumer

LEMMA SignalingInit == Init => TypeOK /\ MapInv /\ NeedIsOffered
  <1> SUFFICES ASSUME Init PROVE TypeOK /\ MapInv /\ NeedIsOffered
    OBVIOUS
  <1>1. TypeOK
    <2>1. \A c \in Consumers : <<>> \in Seq(ConsumerMessage)
      OBVIOUS
    <2>2. mail \in [Consumers -> Seq(ConsumerMessage)] /\ inbox \in Seq(ServerMessage)
      BY <2>1 DEF Init
    <2>3. /\ made \in [Consumers -> 0..MaxSessions]
          /\ subscribed \in [Consumers -> 0..MaxSessions]
      BY SignalingAssumption DEF Init
    <2> QED
      BY <2>2, <2>3 DEF Init, TypeOK, Tracks, Lives
  <1>2. MapInv /\ NeedIsOffered
    BY DEF Init, MapInv, NeedIsOffered
  <1> QED
    BY <1>1, <1>2

-----------------------------------------------------------------------------
(* Messages. *)

LEMMA Received ==
  ASSUME TypeOK, NEW t, Receives(t)
  PROVE  /\ adding = NoConnection
         /\ Sender \in Consumers /\ Peer \in Connections \cup {NoConnection}
         /\ inbox' \in Seq(ServerMessage)
         /\ client \in {"connected", "lost"} /\ client' \in {"connected", "lost", "over"}
  <1>1. inbox # <<>> /\ inbox \in Seq(ServerMessage)
    BY DEF Receives, TypeOK
  <1>2. Head(inbox) \in ServerMessage /\ Tail(inbox) \in Seq(ServerMessage)
    BY <1>1
  <1>3. Sender \in Consumers
    BY <1>2 DEF Sender, ServerMessage
  <1>4. client \in {"connected", "lost"} /\ client' \in {"connected", "lost", "over"}
    BY DEF Receives
  <1> QED
    BY <1>2, <1>3, <1>4 DEF Receives, Peer, TypeOK

LEMMA Sent ==
  ASSUME TypeOK, NEW c \in Consumers, NEW m \in ConsumerMessage, SendToPeer(c, m)
  PROVE  mail' \in [Consumers -> Seq(ConsumerMessage)]
  <1>1. mail[c] \in Seq(ConsumerMessage)
    BY DEF TypeOK
  <1>2. Append(mail[c], m) \in Seq(ConsumerMessage)
    BY <1>1
  <1> QED
    BY <1>2 DEF SendToPeer, TypeOK

\* What the observer does for a connection that is its consumer's entry.
LEMMA OffersItself ==
  ASSUME TypeOK, NEW p \in Connections, m_consumers[Consumer(p)] = p,
         OnRenegotiationNeeded(p), tracks' \in [Connections -> SUBSET Tracks]
  PROVE  /\ offering' = offering \cup {p} /\ offering' \subseteq Connections
         /\ draft' \in [Connections -> SUBSET Tracks]
  <1>1. /\ offering' = offering \cup {p}
        /\ draft' = [draft EXCEPT ![p] = tracks'[p]]
    BY ConnectionsFacts DEF OnRenegotiationNeeded
  <1>2. tracks'[p] \in SUBSET Tracks /\ draft \in [Connections -> SUBSET Tracks]
    BY DEF TypeOK
  <1> QED
    BY <1>1, <1>2 DEF TypeOK

-----------------------------------------------------------------------------
(* The steps of the io thread. *)

LEMMA SubscribeStep ==
  ASSUME TypeOK, MapInv, NeedIsOffered, Subscribe
  PROVE  TypeOK' /\ MapInv' /\ NeedIsOffered'
  <1>1. /\ adding = NoConnection /\ Sender \in Consumers
        /\ inbox' \in Seq(ServerMessage) /\ client' \in Lives
    BY Received DEF Subscribe, Lives
  <1>2. made'[Sender] \in 1..MaxSessions /\ made' \in [Consumers -> 0..MaxSessions]
    BY <1>1, SignalingAssumption DEF Subscribe, TypeOK
  <1>3. adding' \in Connections /\ Consumer(adding') = Sender
    BY <1>1, <1>2, ConnectionsFacts DEF Subscribe
  <1>4. /\ m_consumers' = [m_consumers EXCEPT ![Sender] = adding']
        /\ UNCHANGED <<step, busy, doing, tracks, needed, offering, draft, have, agreed,
                       gathered, reached, failed, mail, present, subscribed>>
    BY DEF Subscribe
  <1>5. TypeOK'
    BY <1>1, <1>2, <1>3, <1>4 DEF TypeOK
  <1>6. MapInv'
    BY <1>1, <1>3, <1>4 DEF MapInv, TypeOK
  <1>7. NeedIsOffered'
    BY <1>4 DEF NeedIsOffered, Offered
  <1> QED
    BY <1>5, <1>6, <1>7

LEMMA AddTrackStep ==
  ASSUME TypeOK, MapInv, NeedIsOffered, AddTrack
  PROVE  TypeOK' /\ MapInv' /\ NeedIsOffered'
  <1>1. adding \in Connections /\ m_consumers[Consumer(adding)] = adding
    BY DEF AddTrack, TypeOK, MapInv
  <1>2. /\ tracks' = [tracks EXCEPT ![adding] = @ \cup {step}]
        /\ UNCHANGED <<client, m_consumers, busy, doing, made, have, agreed, gathered, reached,
                       failed, inbox, mail, present, subscribed>>
    BY DEF AddTrack, netVars
  <1>3. tracks' \in [Connections -> SUBSET Tracks]
    <2>1. tracks[adding] \cup {step} \in SUBSET Tracks
      BY <1>1 DEF TypeOK
    <2> QED
      BY <1>2, <2>1 DEF TypeOK
  <1>4. step' \in Tracks /\ adding' \in {adding, NoConnection}
    BY DEF AddTrack, Advance, Tracks
  <1>5. \/ UNCHANGED <<needed, offering, draft>>
        \/ needed' = needed \cup {adding} /\ OnRenegotiationNeeded(adding)
    BY DEF AddTrack, UpdateNegotiationNeeded
  <1>6. /\ needed' \subseteq Connections /\ offering' \subseteq Connections
        /\ draft' \in [Connections -> SUBSET Tracks]
        /\ \A p \in needed' : p \in needed \/ p \in offering'
        /\ offering \subseteq offering'
    <2>1. CASE UNCHANGED <<needed, offering, draft>>
      BY <2>1 DEF TypeOK
    <2>2. CASE needed' = needed \cup {adding} /\ OnRenegotiationNeeded(adding)
      BY <1>1, <1>3, <2>2, OffersItself DEF TypeOK
    <2> QED
      BY <1>5, <2>1, <2>2
  <1>7. TypeOK'
    BY <1>2, <1>3, <1>4, <1>6 DEF TypeOK
  <1>8. MapInv'
    BY <1>2, <1>4 DEF MapInv
  <1>9. NeedIsOffered'
    BY <1>2, <1>6 DEF NeedIsOffered, Offered
  <1> QED
    BY <1>7, <1>8, <1>9

LEMMA AddTrackFailsStep ==
  ASSUME TypeOK, MapInv, NeedIsOffered, AddTrackFails
  PROVE  TypeOK' /\ MapInv' /\ NeedIsOffered'
  <1>1. /\ adding \in Connections /\ failed' = failed \cup {adding}
        /\ step' \in Tracks /\ adding' \in {adding, NoConnection}
        /\ UNCHANGED <<client, m_consumers, busy, doing, made, tracks, needed, offering, draft,
                       have, agreed, gathered, reached, inbox, mail, present, subscribed>>
    BY DEF AddTrackFails, Advance, Tracks, TypeOK, netVars
  <1> QED
    BY <1>1 DEF TypeOK, MapInv, NeedIsOffered, Offered

LEMMA HandleAnswerStep ==
  ASSUME TypeOK, MapInv, NeedIsOffered, HandleAnswer
  PROVE  TypeOK' /\ MapInv' /\ NeedIsOffered'
  <1>1. /\ Sender \in Consumers /\ Peer \in Connections \cup {NoConnection}
        /\ inbox' \in Seq(ServerMessage) /\ client' \in Lives
    BY Received DEF HandleAnswer, Lives
  <1>2. UNCHANGED <<m_consumers, adding, step, busy, doing, made, tracks, gathered, reached,
                    failed, mail, present, subscribed>>
    BY DEF HandleAnswer, ioVars
  <1>3. CASE UNCHANGED <<have, agreed, needed, offering, draft>>
    BY <1>1, <1>2, <1>3 DEF TypeOK, MapInv, NeedIsOffered, Offered
  <1>4. CASE Peer # NoConnection /\ Settle(Peer)
    <2>1. Peer \in Connections /\ m_consumers[Consumer(Peer)] = Peer
      BY <1>1, <1>4 DEF MapInv, Peer
    <2>2. /\ have' = [have EXCEPT ![Peer] = "stable"]
          /\ agreed' = [agreed EXCEPT ![Peer] = draft[Peer]]
      BY <1>4 DEF Settle
    <2>3. /\ needed' \subseteq needed /\ offering \subseteq offering'
          /\ offering' \subseteq Connections
          /\ draft' \in [Connections -> SUBSET Tracks]
          /\ Peer \in needed' => Peer \in offering'
      <3>1. CASE tracks[Peer] # draft[Peer]
        <4>1. needed' = needed /\ OnRenegotiationNeeded(Peer)
          BY <1>4, <3>1 DEF Settle
        <4>2. tracks' \in [Connections -> SUBSET Tracks]
          BY <1>2 DEF TypeOK
        <4> QED
          BY <2>1, <4>1, <4>2, OffersItself
      <3>2. CASE tracks[Peer] = draft[Peer]
        BY <1>4, <3>2 DEF Settle, TypeOK
      <3> QED
        BY <3>1, <3>2
    <2>4. TypeOK'
      BY <1>1, <1>2, <2>1, <2>2, <2>3 DEF TypeOK
    <2>5. NeedIsOffered'
      BY <1>2, <2>2, <2>3 DEF NeedIsOffered, Offered, TypeOK
    <2> QED
      BY <1>2, <2>4, <2>5 DEF MapInv
  <1> QED
    BY <1>3, <1>4 DEF HandleAnswer

LEMMA IoStep == TypeOK /\ MapInv /\ NeedIsOffered /\ Io => TypeOK' /\ MapInv' /\ NeedIsOffered'
  <1> SUFFICES ASSUME TypeOK, MapInv, NeedIsOffered, Io
               PROVE  TypeOK' /\ MapInv' /\ NeedIsOffered'
    OBVIOUS
  <1>1. CASE Subscribe
    BY <1>1, SubscribeStep
  <1>2. CASE SubscribeIgnored
    <2>1. inbox' \in Seq(ServerMessage) /\ client' \in Lives
      BY <1>2, Received DEF SubscribeIgnored, Lives
    <2> QED
      BY <1>2, <2>1 DEF SubscribeIgnored, TypeOK, MapInv, NeedIsOffered, Offered, ioVars, peerVars
  <1>3. CASE AddTrack
    BY <1>3, AddTrackStep
  <1>4. CASE AddTrackFails
    BY <1>4, AddTrackFailsStep
  <1>5. CASE HandleAnswer
    BY <1>5, HandleAnswerStep
  <1>6. CASE ProcessIceCandidate
    <2>1. /\ inbox' \in Seq(ServerMessage) /\ Peer \in Connections \cup {NoConnection}
          /\ client' \in Lives
      BY <1>6, Received DEF ProcessIceCandidate, Lives
    <2>2. /\ UNCHANGED <<m_consumers, adding, step, busy, doing, made, tracks, needed, offering,
                         draft, have, agreed, gathered, failed, mail, present, subscribed>>
          /\ reached' \subseteq Connections
      BY <1>6, <2>1 DEF ProcessIceCandidate, ioVars, TypeOK
    <2> QED
      BY <2>1, <2>2 DEF TypeOK, MapInv, NeedIsOffered, Offered
  <1>7. CASE ConsumerDisconnected
    <2>1. /\ inbox' \in Seq(ServerMessage) /\ Sender \in Consumers
          /\ adding = NoConnection /\ client' \in Lives
      BY <1>7, Received DEF ConsumerDisconnected, Lives
    <2>2. /\ m_consumers' = [m_consumers EXCEPT ![Sender] = NoConnection]
          /\ UNCHANGED <<adding, step, busy, doing, made, tracks, needed, offering, draft, have,
                         agreed, gathered, reached, failed, mail, present, subscribed>>
      BY <1>7 DEF ConsumerDisconnected, peerVars
    <2> QED
      BY <2>1, <2>2 DEF TypeOK, MapInv, NeedIsOffered, Offered
  <1> QED
    BY <1>1, <1>2, <1>3, <1>4, <1>5, <1>6, <1>7 DEF Io

-----------------------------------------------------------------------------
(* The steps of the signaling thread, and of the world. *)

LEMMA SignalStep ==
  ASSUME TypeOK, MapInv, NeedIsOffered, NEW p \in Connections,
         OfferCreated(p) \/ SetLocalDescription(p) \/ OfferFails(p) \/ OnIceCandidate(p)
  PROVE  TypeOK' /\ MapInv' /\ NeedIsOffered'
  <1>0. Consumer(p) \in Consumers /\ p # NoConnection
    BY ConnectionsFacts
  <1>1. CASE OfferCreated(p)
    <2>1. OfferMessage(p) \in ConsumerMessage
      BY DEF OfferMessage, ConsumerMessage, TypeOK
    <2>2. mail' \in [Consumers -> Seq(ConsumerMessage)]
      BY <1>0, <1>1, <2>1, Sent DEF OfferCreated
    <2>3. /\ busy = NoConnection /\ busy' = p /\ offering' = offering \ {p}
          /\ doing' = "call"
          /\ UNCHANGED <<client, m_consumers, adding, step, made, tracks, needed, draft, have,
                         agreed, gathered, reached, failed, inbox, present, subscribed>>
      BY <1>1 DEF OfferCreated, ioVars
    <2> QED
      BY <1>0, <2>2, <2>3, ConnectionsFacts DEF TypeOK, MapInv, NeedIsOffered, Offered
  <1>2. CASE SetLocalDescription(p)
    <2>1. /\ busy = p /\ busy' = busy /\ doing' = "release"
          /\ \/ have' = [have EXCEPT ![p] = "local"] /\ UNCHANGED failed
             \/ failed' = failed \cup {p} /\ UNCHANGED have
          /\ UNCHANGED <<client, m_consumers, adding, step, made, tracks, needed, offering,
                         draft, agreed, gathered, reached, inbox, mail, present, subscribed>>
      BY <1>2 DEF SetLocalDescription, ioVars, netVars
    <2> QED
      BY <2>1 DEF TypeOK, MapInv, NeedIsOffered, Offered
  <1>3. CASE OfferFails(p)
    <2>1. /\ offering' = offering \ {p} /\ failed' = failed \cup {p}
          /\ busy = NoConnection /\ busy' = p /\ doing' = "release"
          /\ UNCHANGED <<client, m_consumers, adding, step, made, tracks, needed, draft, have,
                         agreed, gathered, reached, inbox, mail, present, subscribed>>
      BY <1>3 DEF OfferFails, ioVars, netVars
    <2> QED
      BY <1>0, <2>1, ConnectionsFacts DEF TypeOK, MapInv, NeedIsOffered, Offered
  <1>4. CASE OnIceCandidate(p)
    <2>1. CandidateMessage(p) \in ConsumerMessage
      BY DEF CandidateMessage, ConsumerMessage
    <2>2. mail' \in [Consumers -> Seq(ConsumerMessage)]
      BY <1>0, <1>4, <2>1, Sent DEF OnIceCandidate
    <2>3. /\ gathered' = gathered \cup {p}
          /\ UNCHANGED <<client, m_consumers, adding, step, busy, doing, made, tracks, needed,
                         offering, draft, have, agreed, reached, failed, inbox, present,
                         subscribed>>
      BY <1>4 DEF OnIceCandidate, ioVars
    <2> QED
      BY <2>2, <2>3 DEF TypeOK, MapInv, NeedIsOffered, Offered
  <1> QED
    BY <1>1, <1>2, <1>3, <1>4

LEMMA WorldStep ==
  ASSUME TypeOK, MapInv, NeedIsOffered, NEW c \in Consumers,
         Joins(c) \/ Leaves(c) \/ TakesMail(c) \/ NotSent(c)
  PROVE  TypeOK' /\ MapInv' /\ NeedIsOffered'
  <1>1. UNCHANGED <<client, m_consumers, adding, step, busy, doing, made, tracks, needed,
                    offering, draft, have, agreed, gathered, reached, failed>>
    BY DEF Joins, Leaves, TakesMail, NotSent, ioVars, peerVars
  <1>2. \A t \in {"subscribe", "consumer-disconnected"} :
          FromServer(t, c, NoConnection, {}) \in ServerMessage
    BY DEF FromServer, ServerMessage
  <1>3. inbox' \in Seq(ServerMessage)
    <2>1. CASE Joins(c) \/ Leaves(c)
      <3>1. PICK m \in ServerMessage : inbox' = Append(inbox, m)
        BY <1>2, <2>1 DEF Joins, Leaves, ServerSends
      <3> QED
        BY <3>1 DEF TypeOK
    <2>2. CASE TakesMail(c)
      <3>1. mail[c] \in Seq(ConsumerMessage) /\ mail[c] # <<>>
        BY <2>2 DEF TakesMail, TypeOK
      <3>2. Head(mail[c]) \in ConsumerMessage
        BY <3>1
      <3> DEFINE m == Head(mail[c])
                 a == FromServer("answer", c, m.of, m.tracks)
                 b == FromServer("ice-candidate", c, m.of, {})
      <3>3. a \in ServerMessage /\ b \in ServerMessage
        BY <3>2 DEF FromServer, ServerMessage, ConsumerMessage
      <3>4. inbox' = inbox \/ inbox' = inbox \o <<a, b>>
        BY <2>2 DEF TakesMail
      <3> HIDE DEF a, b
      <3>5. <<a, b>> \in Seq(ServerMessage)
        BY <3>3
      <3>6. inbox \in Seq(ServerMessage) /\ inbox \o <<a, b>> \in Seq(ServerMessage)
        BY <3>5, ConcatProperties DEF TypeOK
      <3> QED
        BY <3>4, <3>6
    <2>3. CASE NotSent(c)
      BY <2>3 DEF NotSent, TypeOK
    <2> QED
      BY <2>1, <2>2, <2>3
  <1>4. mail' \in [Consumers -> Seq(ConsumerMessage)]
    <2>1. CASE TakesMail(c)
      <3>1. mail[c] \in Seq(ConsumerMessage) /\ mail[c] # <<>>
        BY <2>1 DEF TakesMail, TypeOK
      <3>2. Tail(mail[c]) \in Seq(ConsumerMessage)
        BY <3>1
      <3> QED
        BY <2>1, <3>2 DEF TakesMail, TypeOK
    <2>2. CASE Joins(c) \/ Leaves(c)
      BY <2>2 DEF Joins, Leaves, TypeOK
    <2>3. CASE NotSent(c)
      <3>1. mail[c] \in Seq(ConsumerMessage) /\ mail[c] # <<>>
        BY <2>3 DEF NotSent, TypeOK
      <3>2. SubSeq(mail[c], 1, Len(mail[c]) - 1) \in Seq(ConsumerMessage)
        BY <3>1
      <3> QED
        BY <2>3, <3>2 DEF NotSent, TypeOK
    <2> QED
      BY <2>1, <2>2, <2>3
  <1>5. present' \subseteq Consumers /\ subscribed' \in [Consumers -> 0..MaxSessions]
    <2>1. CASE Joins(c)
      <3>1. subscribed[c] \in 0..MaxSessions /\ subscribed[c] < MaxSessions
        BY <2>1 DEF Joins, TypeOK
      <3>2. subscribed[c] + 1 \in 0..MaxSessions
        BY <3>1, SignalingAssumption
      <3> QED
        BY <2>1, <3>2 DEF Joins, TypeOK
    <2>2. CASE Leaves(c) \/ TakesMail(c) \/ NotSent(c)
      BY <2>2 DEF Leaves, TakesMail, NotSent, TypeOK
    <2> QED
      BY <2>1, <2>2
  <1> QED
    BY <1>1, <1>3, <1>4, <1>5 DEF TypeOK, MapInv, NeedIsOffered, Offered

-----------------------------------------------------------------------------
(* The end of the client. *)

LEMMA EndStep ==
  ASSUME TypeOK, MapInv, EndInv, NeedIsOffered, End
  PROVE  TypeOK' /\ MapInv' /\ NeedIsOffered'
  <1>1. CASE LinkLost \/ ReadFails \/ MainReleases
    BY <1>1 DEF LinkLost, ReadFails, MainReleases, TypeOK, Lives, MapInv, NeedIsOffered, Offered,
                ioVars, peerVars, netVars
  <1>2. CASE ReleaseClient \/ DropConnection \/ DestroyClient
    <2>1. /\ UNCHANGED <<m_consumers, adding, step, made, tracks, needed, offering, draft, have,
                         agreed, gathered, reached, failed, inbox, mail, present, subscribed>>
          /\ client' \in Lives /\ busy' \in {busy, NoConnection}
          /\ doing' \in {"call", "release", "destroy", "drop"}
          /\ busy # NoConnection /\ doing = "call" => busy' = busy /\ doing' = "call"
      BY <1>2 DEF ReleaseClient, DropConnection, DestroyClient, TypeOK, Lives, ioVars, peerVars,
                  netVars
    <2> QED
      BY <2>1, ConnectionsFacts DEF TypeOK, MapInv, NeedIsOffered, Offered
  <1>3. ASSUME NEW c \in Consumers, DestroyConnection(c)
        PROVE  TypeOK' /\ MapInv' /\ NeedIsOffered'
    <2>1. /\ client = "destroying" /\ m_consumers' = [m_consumers EXCEPT ![c] = NoConnection]
          /\ UNCHANGED <<client, adding, step, busy, doing, made, tracks, needed, offering,
                         draft, have, agreed, gathered, reached, failed, inbox, mail, present,
                         subscribed>>
      BY <1>3 DEF DestroyConnection, peerVars, netVars
    <2>2. TypeOK' /\ MapInv'
      BY <2>1 DEF TypeOK, MapInv, EndInv
    <2> QED
      BY <2>1, <2>2 DEF NeedIsOffered, Offered
  <1> QED
    BY <1>1, <1>2, <1>3 DEF End, Release

LEMMA EndInvStep == TypeOK /\ EndInv /\ [Next]_vars => EndInv'
  <1> SUFFICES ASSUME TypeOK, EndInv, [Next]_vars PROVE EndInv'
    OBVIOUS
  <1>1. CASE UNCHANGED vars
    BY <1>1 DEF vars, ioVars, peerVars, EndInv, ObserverRefers
  <1>2. CASE Io
    <2>1. client' \in {"connected", "lost", "over"} /\ UNCHANGED <<busy, doing>>
      <3>1. CASE \E t \in {"subscribe", "answer", "ice-candidate", "consumer-disconnected"} :
                   Receives(t)
        BY <1>2, <3>1
        DEF Receives, Io, Subscribe, SubscribeIgnored, AddTrack, AddTrackFails, HandleAnswer,
            ProcessIceCandidate, ConsumerDisconnected
      <3>2. CASE AddTrack \/ AddTrackFails
        BY <3>2 DEF AddTrack, AddTrackFails, EndInv, TypeOK, Lives
      <3> QED
        BY <1>2, <3>1, <3>2
        DEF Io, Subscribe, SubscribeIgnored, HandleAnswer, ProcessIceCandidate,
            ConsumerDisconnected
    <2>2. doing # "destroy"
      <3>1. CASE \E t \in {"subscribe", "answer", "ice-candidate", "consumer-disconnected"} :
                   Receives(t)
        BY <3>1 DEF Receives, EndInv
      <3>2. CASE AddTrack \/ AddTrackFails
        BY <3>2 DEF AddTrack, AddTrackFails, EndInv
      <3> QED
        BY <1>2, <3>1, <3>2
        DEF Io, Subscribe, SubscribeIgnored, HandleAnswer, ProcessIceCandidate,
            ConsumerDisconnected
    <2> QED
      BY <2>1, <2>2 DEF EndInv
  <1>3. CASE Signal
    <2>1. PICK p \in Connections :
            OfferCreated(p) \/ SetLocalDescription(p) \/ OfferFails(p) \/ OnIceCandidate(p)
      BY <1>3 DEF Signal
    <2>2. CASE OfferCreated(p) \/ SetLocalDescription(p) \/ OfferFails(p)
      <3>1. /\ UNCHANGED <<client, m_consumers, adding>>
            /\ ~(client \in {"destroying", "destroyed"})
            /\ busy' = p /\ p # NoConnection /\ doing' # "destroy"
        BY <2>2, ConnectionsFacts
        DEF OfferCreated, SetLocalDescription, OfferFails, EndInv, ObserverRefers, ioVars
      <3> QED
        BY <3>1 DEF EndInv
    <2>3. CASE OnIceCandidate(p)
      BY <2>3 DEF OnIceCandidate, ioVars, EndInv, ObserverRefers
    <2> QED
      BY <2>1, <2>2, <2>3
  <1>4. CASE End
    <2>1. CASE LinkLost \/ ReadFails \/ MainReleases
      BY <2>1 DEF LinkLost, ReadFails, MainReleases, EndInv, ObserverRefers, ioVars, peerVars
    <2>2. CASE ReleaseClient
      BY <2>2 DEF ReleaseClient, EndInv, ObserverRefers, ioVars, peerVars
    <2>3. CASE DropConnection
      BY <2>3 DEF DropConnection, EndInv, ObserverRefers, ioVars, peerVars
    <2>4. ASSUME NEW c \in Consumers, DestroyConnection(c) PROVE EndInv'
      BY <2>4 DEF DestroyConnection, EndInv, ObserverRefers, peerVars
    <2>5. CASE DestroyClient
      BY <2>5 DEF DestroyClient, EndInv, ObserverRefers, ioVars, peerVars
    <2> QED
      BY <1>4, <2>1, <2>2, <2>3, <2>4, <2>5 DEF End, Release
  <1>5. CASE World
    BY <1>5 DEF World, Joins, Leaves, TakesMail, NotSent, ioVars, peerVars, EndInv,
                ObserverRefers
  <1> QED
    BY <1>1, <1>2, <1>3, <1>4, <1>5 DEF Next

LEMMA SignalingStep ==
  TypeOK /\ MapInv /\ EndInv /\ NeedIsOffered /\ [Next]_vars
    => TypeOK' /\ MapInv' /\ NeedIsOffered'
  <1> SUFFICES ASSUME TypeOK, MapInv, EndInv, NeedIsOffered, [Next]_vars
               PROVE  TypeOK' /\ MapInv' /\ NeedIsOffered'
    OBVIOUS
  <1>1. CASE UNCHANGED vars
    BY <1>1 DEF vars, ioVars, peerVars, netVars, TypeOK, MapInv, NeedIsOffered,
                Offered
  <1> QED
    BY <1>1, IoStep, SignalStep, EndStep, WorldStep DEF Next, Signal, World

-----------------------------------------------------------------------------
(* The theorems. *)

LEMMA SignalingInvariant == Spec => [](TypeOK /\ MapInv /\ EndInv /\ NeedIsOffered)
  <1>1. Init => EndInv
    BY DEF Init, EndInv, ObserverRefers
  <1> QED
    BY <1>1, SignalingInit, SignalingStep, EndInvStep, PTL DEF Spec

\* Every variable keeps its type.
THEOREM SignalingTypeCorrect == Spec => []TypeOK
  BY SignalingInvariant, PTL

\* A renegotiation that WebRTC asked for is never forgotten, whichever thread is first:
\* the connection is in the map before a track can ask, and until it was answered.
THEOREM NeedIsOfferedHolds == Spec => []NeedIsOffered
  BY SignalingInvariant, PTL

\* The client exists as long as a connection can call its observers: while it is in the map,
\* or SendOffer, an offer under way or its observer has it.  The destructor of an observer
\* releases the client before its connection, and destroys the client if main() released
\* it; the one connection that is left then is about to go, on the same thread.
THEOREM ClientOutlivesCallsHolds == Spec => []ClientOutlivesCalls
  <1>1. TypeOK /\ EndInv => ClientOutlivesCalls
    BY DEF TypeOK, EndInv, ObserverRefers, ClientOutlivesCalls
  <1> QED
    BY <1>1, SignalingInvariant, PTL
=============================================================================
