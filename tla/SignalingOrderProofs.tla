------------------------ MODULE SignalingOrderProofs ------------------------
(***************************************************************************)
(* Proof that the replies of a consumer fit (RepliesFit), for any          *)
(* consumers and any number of sessions.                                   *)
(*                                                                         *)
(* The argument.  During the first session of a consumer, and as long as   *)
(* no call of WebRTC failed, there is one round of negotiation at a time:  *)
(* an offer is with CreateOffer, then it is sent and on its way in one     *)
(* place, as the offer itself or as its answer, while the local            *)
(* description is being set or set.  The flag of WebRTC that negotiation   *)
(* is needed stays up during the round, so that no track and no answer     *)
(* begins another one before the answer of this one is handled.            *)
(***************************************************************************)
EXTENDS SignalingProofs

First(c) == <<c, 1>>
InFirstSession(c) ==
  made[c] = 1 /\ m_consumers[c] = First(c) /\ First(c) \notin failed

IsOffer(c, i) == mail[c][i].type = "offer"
IsAnswer(c, i) == inbox[i].type = "answer" /\ inbox[i].from = c
IsCandidate(c, i) == inbox[i].type = "ice-candidate" /\ inbox[i].from = c
Replies == {"answer", "ice-candidate"}

-----------------------------------------------------------------------------
(* The inductive invariant. *)

\* Nothing is done for a connection before it was created.
InUse(p) ==
  \/ m_consumers[Consumer(p)] = p \/ adding = p \/ busy = p
  \/ p \in offering \/ p \in needed \/ have[p] = "local"
CreatedInv == \A p \in Connections : InUse(p) => p[2] <= made[Consumer(p)]

\* Only replies are about a connection, and who was sent nothing does not reply.
MessagesInv ==
  /\ \A i \in 1..Len(inbox) : inbox[i].of # NoConnection => inbox[i].type \in Replies
  /\ \A c \in Consumers : made[c] = 0 =>
       /\ mail[c] = <<>>
       /\ \A i \in 1..Len(inbox) : inbox[i].from = c => inbox[i].type \notin Replies

\* The two stages of a round on this side: the offer is being created; it was sent and
\* the local description is being set, or set.
Setting(c) == busy = First(c) /\ doing = "call"
OfferSent(c) == Setting(c) \/ have[First(c)] = "local"

StageInv(c) ==
  /\ First(c) \in offering \/ OfferSent(c) => First(c) \in needed /\ draft[First(c)] # {}
  /\ First(c) \in needed => tracks[First(c)] # {}
  /\ First(c) \in offering => ~OfferSent(c)
  /\ Setting(c) => have[First(c)] = "stable"

\* What was sent and not yet handled: one offer, or one answer with its tracks.
OneOffer(c) ==
  \A i \in 1..Len(mail[c]) : IsOffer(c, i) =>
    /\ OfferSent(c) /\ mail[c][i].tracks = draft[First(c)]
    /\ \A j \in 1..Len(mail[c]) : IsOffer(c, j) => i = j
    /\ \A j \in 1..Len(inbox) : ~IsAnswer(c, j)
OneAnswer(c) ==
  \A i \in 1..Len(inbox) : IsAnswer(c, i) =>
    /\ OfferSent(c) /\ inbox[i].tracks = draft[First(c)]
    /\ \A j \in 1..Len(inbox) : IsAnswer(c, j) => i = j

\* A candidate comes after the first answer.
AfterAnswer(c) ==
  \A i \in 1..Len(inbox) : IsCandidate(c, i) =>
    agreed[First(c)] # {} \/ \E j \in 1..Len(inbox) : j < i /\ IsAnswer(c, j)

RoundOf(c) == StageInv(c) /\ OneOffer(c) /\ OneAnswer(c) /\ AfterAnswer(c)
RoundInv == \A c \in Consumers : InFirstSession(c) => RoundOf(c)

OrderInv == CreatedInv /\ MessagesInv /\ RoundInv
-----------------------------------------------------------------------------
LEMMA FirstFacts ==
  ASSUME NEW c \in Consumers
  PROVE  /\ First(c) \in Connections /\ Consumer(First(c)) = c /\ First(c)[2] = 1
         /\ First(c) # NoConnection
         /\ \A p \in Connections : Consumer(p) = c /\ p[2] <= 1 => p = First(c)
         /\ \A d \in Consumers : First(d) = First(c) => d = c
  BY SignalingAssumption DEF First, Connections, Consumer

LEMMA OrderInit == Init => OrderInv
  <1> SUFFICES ASSUME Init PROVE OrderInv
    OBVIOUS
  <1>1. CreatedInv
    BY ConnectionsFacts DEF Init, CreatedInv, InUse
  <1>2. Len(inbox) = 0
    BY DEF Init
  <1>3. MessagesInv
    BY <1>2 DEF Init, MessagesInv
  <1>4. RoundInv
    BY DEF Init, RoundInv, InFirstSession
  <1> QED
    BY <1>1, <1>3, <1>4 DEF OrderInv

-----------------------------------------------------------------------------
(* Messages that are received, and messages that are added. *)

\* A received message leaves the others one place further ahead.
LEMMA Shifted ==
  ASSUME TypeOK, NEW t, Receives(t)
  PROVE  /\ Len(inbox) \in Nat /\ 1 \in 1..Len(inbox)
         /\ inbox[1].type = t /\ inbox[1].from = Sender
         /\ Len(inbox') = Len(inbox) - 1
         /\ \A i \in 1..Len(inbox') : i + 1 \in 1..Len(inbox) /\ inbox'[i] = inbox[i + 1]
         /\ \A i \in 1..Len(inbox) : i # 1 => i - 1 \in 1..Len(inbox') /\ inbox'[i - 1] = inbox[i]
  <1>1. inbox \in Seq(ServerMessage) /\ inbox # <<>> /\ inbox' = Tail(inbox)
    BY DEF Receives, TypeOK
  <1>2. /\ Len(inbox) \in Nat /\ Len(inbox) # 0 /\ Head(inbox) = inbox[1]
        /\ Len(inbox') = Len(inbox) - 1
        /\ \A i \in 1..(Len(inbox) - 1) : inbox'[i] = inbox[i + 1]
    BY <1>1
  <1>3. inbox[1].type = t /\ inbox[1].from = Sender
    BY <1>2 DEF Receives, Sender
  <1> QED
    BY <1>2, <1>3

\* Nothing about the connection changes but what is on its way.
Same(c) ==
  /\ First(c) \in offering <=> First(c) \in offering'
  /\ First(c) \in needed <=> First(c) \in needed'
  /\ Setting(c) <=> Setting(c)'
  /\ have'[First(c)] = have[First(c)] /\ draft'[First(c)] = draft[First(c)]
  /\ agreed'[First(c)] = agreed[First(c)] /\ tracks'[First(c)] = tracks[First(c)]

LEMMA SameStage ==
  ASSUME NEW c \in Consumers, StageInv(c), Same(c)
  PROVE  StageInv(c)' /\ (OfferSent(c)' <=> OfferSent(c))
  BY DEF StageInv, Same, OfferSent

\* A message that is not an answer of the consumer is received.
LEMMA ReceivedOther ==
  ASSUME TypeOK, NEW t, Receives(t), NEW c \in Consumers, RoundOf(c),
         t = "answer" => Sender # c, Same(c), mail' = mail
  PROVE  RoundOf(c)'
  <1>1. StageInv(c)' /\ (OfferSent(c)' <=> OfferSent(c))
    BY SameStage DEF RoundOf
  <1>2. ~IsAnswer(c, 1)
    BY Shifted DEF IsAnswer
  <1>3. \A i \in 1..Len(inbox') :
          /\ IsAnswer(c, i)' <=> IsAnswer(c, i + 1)
          /\ IsCandidate(c, i)' <=> IsCandidate(c, i + 1)
    BY Shifted DEF IsAnswer, IsCandidate
  <1>4. OneOffer(c)'
    <2>1. \A i \in 1..Len(mail[c]) : IsOffer(c, i)' <=> IsOffer(c, i)
      BY DEF IsOffer
    <2>2. (\A j \in 1..Len(inbox) : ~IsAnswer(c, j))
            => \A j \in 1..Len(inbox') : ~IsAnswer(c, j)'
      BY <1>3, Shifted
    <2>3. \A i \in 1..Len(mail[c]) : IsOffer(c, i) =>
            /\ OfferSent(c)' /\ mail[c][i].tracks = draft'[First(c)]
            /\ \A j \in 1..Len(mail[c]) : IsOffer(c, j) => i = j
            /\ \A j \in 1..Len(inbox') : ~IsAnswer(c, j)'
      BY <1>1, <2>2 DEF RoundOf, OneOffer, Same
    <2> QED
      BY <2>1, <2>3 DEF OneOffer
  <1>5. OneAnswer(c)'
    <2> SUFFICES ASSUME NEW i \in 1..Len(inbox'), IsAnswer(c, i)'
                 PROVE  /\ OfferSent(c)' /\ inbox'[i].tracks = draft'[First(c)]
                        /\ \A j \in 1..Len(inbox') : IsAnswer(c, j)' => i = j
      BY DEF OneAnswer
    <2>1. i + 1 \in 1..Len(inbox) /\ IsAnswer(c, i + 1) /\ inbox'[i] = inbox[i + 1]
      BY <1>3, Shifted
    <2>2. OfferSent(c)' /\ inbox'[i].tracks = draft'[First(c)]
      BY <1>1, <2>1 DEF RoundOf, OneAnswer, Same
    <2>3. ASSUME NEW j \in 1..Len(inbox'), IsAnswer(c, j)' PROVE i = j
      <3>1. j + 1 \in 1..Len(inbox) /\ IsAnswer(c, j + 1)
        BY <1>3, <2>3, Shifted
      <3>2. i + 1 = j + 1
        BY <2>1, <3>1 DEF RoundOf, OneAnswer
      <3> QED
        BY <3>2, Shifted
    <2> QED
      BY <2>2, <2>3
  <1>6. AfterAnswer(c)'
    <2> SUFFICES ASSUME NEW i \in 1..Len(inbox'), IsCandidate(c, i)', agreed'[First(c)] = {}
                 PROVE  \E j \in 1..Len(inbox') : j < i /\ IsAnswer(c, j)'
      BY DEF AfterAnswer
    <2>1. i + 1 \in 1..Len(inbox) /\ IsCandidate(c, i + 1) /\ agreed[First(c)] = {}
      BY <1>3, Shifted DEF Same
    <2>2. PICK j \in 1..Len(inbox) : j < i + 1 /\ IsAnswer(c, j)
      BY <2>1 DEF RoundOf, AfterAnswer
    <2>3. j # 1 /\ j - 1 \in 1..Len(inbox') /\ (j - 1) + 1 = j
      BY <1>2, <2>2, Shifted
    <2>4. IsAnswer(c, j - 1)' /\ j - 1 < i
      BY <1>3, <2>2, <2>3
    <2> QED
      BY <2>3, <2>4
  <1> QED
    BY <1>1, <1>4, <1>5, <1>6 DEF RoundOf

\* Messages are added, none of them an answer or a candidate of the consumer.
Longer(c) ==
  /\ Len(inbox) \in Nat /\ Len(inbox') \in Nat /\ Len(inbox) <= Len(inbox')
  /\ \A i \in 1..Len(inbox) : inbox'[i] = inbox[i]
  /\ \A i \in 1..Len(inbox') :
       i \in 1..Len(inbox) \/ inbox'[i].type \notin Replies \/ inbox'[i].from # c

LEMMA AddedOther ==
  ASSUME NEW c \in Consumers, RoundOf(c), Longer(c), Same(c), mail'[c] = mail[c]
  PROVE  RoundOf(c)'
  <1>1. /\ \A i \in 1..Len(inbox) : i \in 1..Len(inbox')
        /\ \A i \in 1..Len(inbox') : IsAnswer(c, i)' <=> i \in 1..Len(inbox) /\ IsAnswer(c, i)
        /\ \A i \in 1..Len(inbox') :
             IsCandidate(c, i)' <=> i \in 1..Len(inbox) /\ IsCandidate(c, i)
    BY DEF Longer, IsAnswer, IsCandidate, Replies
  <1>2. StageInv(c)' /\ (OfferSent(c)' <=> OfferSent(c))
    BY SameStage DEF RoundOf
  <1>3. OneOffer(c)'
    <2>1. \A i \in 1..Len(mail[c]) : IsOffer(c, i)' <=> IsOffer(c, i)
      BY DEF IsOffer
    <2> QED
      BY <1>1, <1>2, <2>1 DEF RoundOf, OneOffer, Same
  <1>4. OneAnswer(c)'
    BY <1>1, <1>2 DEF RoundOf, OneAnswer, Same, Longer
  <1>5. AfterAnswer(c)'
    BY <1>1 DEF RoundOf, AfterAnswer, Same
  <1> QED
    BY <1>2, <1>3, <1>4, <1>5 DEF RoundOf

\* What the client sends is added at the end, or lost.
LEMMA Appended ==
  ASSUME TypeOK, NEW c \in Consumers, NEW m \in ConsumerMessage, SendToPeer(c, m)
  PROVE  /\ \A d \in Consumers : d # c => mail'[d] = mail[d]
         /\ Len(mail[c]) \in Nat
         /\ \/ mail'[c] = mail[c]
            \/ /\ Len(mail'[c]) = Len(mail[c]) + 1
               /\ \A i \in 1..Len(mail[c]) : mail'[c][i] = mail[c][i]
               /\ mail'[c][Len(mail[c]) + 1] = m
  <1>1. mail \in [Consumers -> Seq(ConsumerMessage)] /\ mail[c] \in Seq(ConsumerMessage)
    BY DEF TypeOK
  <1>2. mail' = mail \/ mail' = [mail EXCEPT ![c] = Append(mail[c], m)]
    BY DEF SendToPeer
  <1>3. CASE mail' = mail
    BY <1>1, <1>3
  <1>4. CASE mail' = [mail EXCEPT ![c] = Append(mail[c], m)]
    <2>1. mail'[c] = Append(mail[c], m) /\ \A d \in Consumers : d # c => mail'[d] = mail[d]
      BY <1>1, <1>4
    <2> QED
      BY <1>1, <2>1
  <1> QED
    BY <1>2, <1>3, <1>4

-----------------------------------------------------------------------------
(* Connections that were not created yet. *)

LEMMA CreatedStep ==
  ASSUME TypeOK, MapInv, CreatedInv, [Next]_vars
  PROVE  CreatedInv'
  <1> SUFFICES ASSUME NEW p \in Connections, InUse(p)'
               PROVE  p[2] <= made'[Consumer(p)]
    BY DEF CreatedInv
  <1>0. /\ Consumer(p) \in Consumers /\ p # NoConnection /\ p = <<Consumer(p), p[2]>>
        /\ made[Consumer(p)] \in Nat /\ p[2] \in Nat
        /\ InUse(p) => p[2] <= made[Consumer(p)]
    BY SignalingAssumption DEF Connections, Consumer, TypeOK, CreatedInv
  <1>1. CASE Subscribe
    <2>1. /\ Sender \in Consumers
          /\ made' = [made EXCEPT ![Sender] = @ + 1] /\ adding' = <<Sender, made'[Sender]>>
          /\ m_consumers' = [m_consumers EXCEPT ![Sender] = adding']
          /\ UNCHANGED <<busy, offering, needed, have>>
      BY <1>1, Received DEF Subscribe
    <2>2. made'[Consumer(p)] \in Nat /\ made'[Consumer(p)] >= made[Consumer(p)]
      BY <1>0, <2>1 DEF TypeOK
    <2>3. CASE p = adding'
      <3>1. p[2] = made'[Sender] /\ Consumer(p) = Sender
        BY <2>1, <2>3 DEF Consumer
      <3> QED
        BY <1>0, <2>2, <3>1
    <2>4. CASE p # adding'
      <3>1. InUse(p)
        BY <1>0, <2>1, <2>4 DEF InUse, TypeOK
      <3> QED
        BY <1>0, <2>2, <3>1
    <2> QED
      BY <2>3, <2>4
  <1>2. CASE AddTrack
    <2>1. adding \in Connections /\ m_consumers[Consumer(adding)] = adding
      BY <1>2 DEF AddTrack, TypeOK, MapInv
    <2>2. /\ adding' \in {adding, NoConnection}
          /\ UNCHANGED <<m_consumers, busy, made, have>>
          /\ \/ UNCHANGED <<needed, offering>>
             \/ needed' = needed \cup {adding} /\ OnRenegotiationNeeded(adding)
      BY <1>2 DEF AddTrack, Advance, UpdateNegotiationNeeded
    <2>3. needed' \subseteq needed \cup {adding} /\ offering' \subseteq offering \cup {adding}
      BY <2>1, <2>2 DEF OnRenegotiationNeeded
    <2>4. InUse(p)
      BY <1>0, <2>1, <2>2, <2>3 DEF InUse
    <2> QED
      BY <1>0, <2>2, <2>4
  <1>3. CASE HandleAnswer
    <2>1. UNCHANGED <<m_consumers, adding, busy, made>>
      BY <1>3 DEF HandleAnswer, ioVars
    <2>2. \/ UNCHANGED <<have, needed, offering>>
          \/ /\ Peer \in Connections /\ m_consumers[Consumer(Peer)] = Peer
             /\ have' = [have EXCEPT ![Peer] = "stable"]
             /\ needed' \subseteq needed /\ offering' \subseteq offering \cup {Peer}
      <3>1. Sender \in Consumers /\ Peer \in Connections \cup {NoConnection}
        BY <1>3, Received DEF HandleAnswer
      <3>2. Peer # NoConnection => Peer \in Connections /\ m_consumers[Consumer(Peer)] = Peer
        BY <3>1 DEF MapInv, Peer
      <3> QED
        BY <1>3, <3>2 DEF HandleAnswer, Settle, OnRenegotiationNeeded
    <2>3. InUse(p)
      BY <1>0, <2>1, <2>2 DEF InUse, TypeOK
    <2> QED
      BY <1>0, <2>1, <2>3
  <1>4. CASE SubscribeIgnored \/ AddTrackFails \/ ProcessIceCandidate \/ World
    <2>1. /\ UNCHANGED <<m_consumers, busy, made, offering, needed, have>>
          /\ adding' \in {adding, NoConnection}
      BY <1>4 DEF SubscribeIgnored, AddTrackFails, Advance, ProcessIceCandidate, World, Joins,
                  Leaves, TakesMail, NotSent, ioVars, peerVars
    <2> QED
      BY <1>0, <2>1 DEF InUse
  <1>5. CASE ConsumerDisconnected \/ End
    <2>1. /\ UNCHANGED <<adding, made, offering, needed, have>>
          /\ busy' \in {busy, NoConnection}
          /\ \/ UNCHANGED m_consumers
             \/ \E c \in Consumers : m_consumers' = [m_consumers EXCEPT ![c] = NoConnection]
      BY <1>5, Received
      DEF ConsumerDisconnected, End, LinkLost, ReadFails, Release, MainReleases, ReleaseClient,
          DropConnection, DestroyConnection, DestroyClient, ioVars, peerVars
    <2>2. m_consumers'[Consumer(p)] = p => m_consumers[Consumer(p)] = p
      BY <1>0, <2>1 DEF TypeOK
    <2> QED
      BY <1>0, <2>1, <2>2 DEF InUse
  <1>6. CASE Signal
    <2>1. PICK q \in Connections :
            OfferCreated(q) \/ SetLocalDescription(q) \/ OfferFails(q) \/ OnIceCandidate(q)
      BY <1>6 DEF Signal
    <2>2. /\ UNCHANGED <<m_consumers, adding, made, needed>> /\ offering' \subseteq offering
          /\ busy' = busy \/ (busy' = q /\ q \in offering)
          /\ have' = have \/ (have' = [have EXCEPT ![q] = "local"] /\ busy = q)
      BY <2>1 DEF OfferCreated, SetLocalDescription, OfferFails, OnIceCandidate, ioVars, netVars
    <2>3. InUse(p)
      BY <1>0, <2>2 DEF InUse, TypeOK
    <2> QED
      BY <1>0, <2>2, <2>3
  <1>7. CASE UNCHANGED vars
    BY <1>0, <1>7 DEF vars, ioVars, peerVars, InUse
  <1> QED
    BY <1>1, <1>2, <1>3, <1>4, <1>5, <1>6, <1>7 DEF Next, Io

-----------------------------------------------------------------------------
(* What each step does to inbox and to the mail of a consumer. *)

\* The io thread takes one message, or none; it sends nothing.
LEMMA IoMessages ==
  ASSUME Io
  PROVE  mail' = mail /\ (UNCHANGED inbox \/ \E t : Receives(t))
  BY DEF Io, Subscribe, SubscribeIgnored, AddTrack, AddTrackFails, HandleAnswer,
         ProcessIceCandidate, ConsumerDisconnected, netVars

\* The server announces a consumer.
LEMMA AnnouncedMessages ==
  ASSUME TypeOK, NEW c \in Consumers, Joins(c) \/ Leaves(c)
  PROVE  /\ mail' = mail /\ \A d \in Consumers : Longer(d)
         /\ \A i \in 1..Len(inbox') : i \in 1..Len(inbox) \/ inbox'[i].of = NoConnection
  <1>1. PICK t \in {"subscribe", "consumer-disconnected"} :
          inbox' = Append(inbox, FromServer(t, c, NoConnection, {}))
    BY DEF Joins, Leaves, ServerSends
  <1> DEFINE m == FromServer(t, c, NoConnection, {})
  <1>2. m \in ServerMessage /\ m.type \notin Replies /\ m.of = NoConnection
    BY <1>1 DEF FromServer, ServerMessage, Replies
  <1> HIDE DEF m
  <1>3. /\ Len(inbox) \in Nat /\ Len(inbox') = Len(inbox) + 1
        /\ inbox'[Len(inbox) + 1] = m /\ \A i \in 1..Len(inbox) : inbox'[i] = inbox[i]
    BY <1>1, <1>2 DEF TypeOK, m
  <1>4. \A i \in 1..Len(inbox') : i \in 1..Len(inbox) \/ i = Len(inbox) + 1
    BY <1>3
  <1>5. \A d \in Consumers : Longer(d)
    BY <1>2, <1>3, <1>4 DEF Longer
  <1>6. mail' = mail
    BY DEF Joins, Leaves
  <1> QED
    BY <1>2, <1>3, <1>4, <1>5, <1>6

\* A consumer takes the first message; if it replies, an answer and a candidate follow.
LEMMA TakenMessages ==
  ASSUME TypeOK, NEW c \in Consumers, TakesMail(c)
  PROVE  /\ \A d \in Consumers : d # c => mail'[d] = mail[d] /\ Longer(d)
         /\ Len(mail[c]) \in Nat /\ 1 \in 1..Len(mail[c])
         /\ Len(mail'[c]) = Len(mail[c]) - 1
         /\ \A i \in 1..Len(mail'[c]) :
              i + 1 \in 1..Len(mail[c]) /\ i + 1 # 1 /\ mail'[c][i] = mail[c][i + 1]
         /\ \/ Longer(c) /\ inbox' = inbox
            \/ /\ IsOffer(c, 1) /\ Len(inbox) \in Nat /\ Len(inbox') = Len(inbox) + 2
               /\ \A i \in 1..Len(inbox) : inbox'[i] = inbox[i]
               /\ inbox'[Len(inbox) + 1] =
                    FromServer("answer", c, mail[c][1].of, mail[c][1].tracks)
               /\ inbox'[Len(inbox) + 2] =
                    FromServer("ice-candidate", c, mail[c][1].of, {})
  <1>1. /\ mail[c] \in Seq(ConsumerMessage) /\ mail[c] # <<>>
        /\ inbox \in Seq(ServerMessage)
        /\ mail'[c] = Tail(mail[c]) /\ \A d \in Consumers : d # c => mail'[d] = mail[d]
    BY DEF TakesMail, TypeOK
  <1>2. /\ Len(mail[c]) \in Nat /\ Len(mail[c]) # 0 /\ Head(mail[c]) = mail[c][1]
        /\ mail[c][1] \in ConsumerMessage
        /\ Len(mail'[c]) = Len(mail[c]) - 1
        /\ \A i \in 1..(Len(mail[c]) - 1) : mail'[c][i] = mail[c][i + 1]
    BY <1>1
  <1>3. \A i \in 1..Len(mail'[c]) :
          i + 1 \in 1..Len(mail[c]) /\ i + 1 # 1 /\ mail'[c][i] = mail[c][i + 1]
    BY <1>2
  <1>4. CASE inbox' = inbox
    <2>1. \A d \in Consumers : Longer(d)
      BY <1>1, <1>4 DEF Longer
    <2> QED
      BY <1>1, <1>2, <1>3, <1>4, <2>1
  <1>5. CASE inbox' # inbox
    <2> DEFINE a == FromServer("answer", c, mail[c][1].of, mail[c][1].tracks)
               b == FromServer("ice-candidate", c, mail[c][1].of, {})
    <2>1. /\ inbox' = inbox \o <<a, b>> /\ IsOffer(c, 1)
      BY <1>2, <1>5 DEF TakesMail, IsOffer
    <2>2. a \in ServerMessage /\ b \in ServerMessage /\ a.from = c /\ b.from = c
      BY <1>2 DEF FromServer, ServerMessage, ConsumerMessage
    <2> HIDE DEF a, b
    <2>3. <<a, b>> \in Seq(ServerMessage) /\ Len(<<a, b>>) = 2
      BY <2>2
    <2>4. /\ Len(inbox') = Len(inbox) + 2 /\ Len(inbox) \in Nat
          /\ \A i \in 1..Len(inbox) + 2 :
               inbox'[i] = IF i <= Len(inbox) THEN inbox[i] ELSE <<a, b>>[i - Len(inbox)]
      BY <1>1, <2>1, <2>3, ConcatProperties
    <2>5. /\ \A i \in 1..Len(inbox) : inbox'[i] = inbox[i]
          /\ inbox'[Len(inbox) + 1] = a /\ inbox'[Len(inbox) + 2] = b
      <3> DEFINE n == Len(inbox)
      <3>1. n \in Nat /\ n + 1 \in 1..n + 2 /\ n + 2 \in 1..n + 2
            /\ ~(n + 1 <= n) /\ ~(n + 2 <= n) /\ (n + 1) - n = 1 /\ (n + 2) - n = 2
            /\ \A i \in 1..n : i \in 1..n + 2 /\ i <= n
        BY <2>4
      <3>2. inbox'[n + 1] = <<a, b>>[1] /\ inbox'[n + 2] = <<a, b>>[2]
        BY <2>4, <3>1
      <3> QED
        BY <2>4, <3>1, <3>2
    <2>6. \A d \in Consumers : d # c => Longer(d)
      <3>1. \A i \in 1..Len(inbox') :
              i \in 1..Len(inbox) \/ i = Len(inbox) + 1 \/ i = Len(inbox) + 2
        BY <2>4
      <3> QED
        BY <2>2, <2>4, <2>5, <3>1 DEF Longer
    <2> QED
      BY <1>1, <1>2, <1>3, <2>1, <2>4, <2>5, <2>6 DEF a, b
  <1> QED
    BY <1>4, <1>5

\* The last message to a consumer is lost with the connection to the server.
LEMMA NotSentMessages ==
  ASSUME TypeOK, NEW c \in Consumers, NotSent(c)
  PROVE  /\ inbox' = inbox /\ \A d \in Consumers : d # c => mail'[d] = mail[d]
         /\ mail[c] # <<>>
         /\ \A i \in 1..Len(mail'[c]) : i \in 1..Len(mail[c]) /\ mail'[c][i] = mail[c][i]
  <1>1. /\ mail[c] \in Seq(ConsumerMessage) /\ mail[c] # <<>> /\ inbox' = inbox
        /\ mail'[c] = SubSeq(mail[c], 1, Len(mail[c]) - 1)
        /\ \A d \in Consumers : d # c => mail'[d] = mail[d]
    BY DEF NotSent, TypeOK
  <1>2. /\ Len(mail[c]) \in Nat /\ Len(mail'[c]) = Len(mail[c]) - 1
        /\ \A i \in 1..Len(mail[c]) - 1 : mail'[c][i] = mail[c][i]
    BY <1>1
  <1> QED
    BY <1>1, <1>2

\* A connection in use belongs to a consumer that has one.
LEMMA UserIsCreated ==
  ASSUME TypeOK, CreatedInv, NEW p \in Connections, InUse(p)
  PROVE  Consumer(p) \in Consumers /\ made[Consumer(p)] # 0
  BY SignalingAssumption DEF CreatedInv, Connections, Consumer, TypeOK

\* The signaling thread sends to the consumer of a connection in use, or nothing.
LEMMA SignalMessages ==
  ASSUME TypeOK, MapInv, NEW p \in Connections,
         OfferCreated(p) \/ SetLocalDescription(p) \/ OfferFails(p) \/ OnIceCandidate(p)
  PROVE  /\ inbox' = inbox
         /\ \/ mail' = mail
            \/ InUse(p) /\ SendToPeer(Consumer(p), OfferMessage(p)) /\ OfferCreated(p)
            \/ InUse(p) /\ SendToPeer(Consumer(p), CandidateMessage(p)) /\ OnIceCandidate(p)
  BY DEF OfferCreated, SetLocalDescription, OfferFails, OnIceCandidate, Held, InUse, netVars

LEMMA MessageTypes ==
  ASSUME TypeOK, NEW p \in Connections
  PROVE  OfferMessage(p) \in ConsumerMessage /\ CandidateMessage(p) \in ConsumerMessage
  BY DEF TypeOK, OfferMessage, CandidateMessage, ConsumerMessage

LEMMA MessagesStep ==
  ASSUME TypeOK, MapInv, CreatedInv, MessagesInv, [Next]_vars
  PROVE  MessagesInv'
  <1>0. \A c \in Consumers : made'[c] = 0 => made[c] = 0
    <2>1. CASE Subscribe
      BY <2>1, Received DEF Subscribe, TypeOK
    <2>2. CASE ~Subscribe
      <3>1. made' = made
        BY <2>2 DEF Next, Io, SubscribeIgnored, AddTrack, AddTrackFails, HandleAnswer,
              ProcessIceCandidate, ConsumerDisconnected, Signal, OfferCreated,
              SetLocalDescription, OfferFails, OnIceCandidate, End, LinkLost, ReadFails, Release,
              MainReleases, ReleaseClient, DropConnection, DestroyConnection, DestroyClient,
              World, Joins, Leaves, TakesMail, NotSent, vars, peerVars
      <3> QED
        BY <3>1
    <2> QED
      BY <2>1, <2>2
  <1>1. CASE \E t : Receives(t) /\ mail' = mail
    <2>1. PICK t : Receives(t) /\ mail' = mail
      BY <1>1
    <2>2. \A i \in 1..Len(inbox') : i + 1 \in 1..Len(inbox) /\ inbox'[i] = inbox[i + 1]
      BY <2>1, Shifted
    <2> QED
      BY <1>0, <2>1, <2>2 DEF MessagesInv
  <1>2. CASE UNCHANGED <<inbox, mail>>
    BY <1>0, <1>2 DEF MessagesInv
  <1>3. CASE Signal
    <2>1. PICK p \in Connections :
            OfferCreated(p) \/ SetLocalDescription(p) \/ OfferFails(p) \/ OnIceCandidate(p)
      BY <1>3 DEF Signal
    <2>2. CASE mail' = mail
      BY <1>2, <2>1, <2>2, SignalMessages
    <2>3. CASE mail' # mail
      <3>1. PICK m \in ConsumerMessage : InUse(p) /\ SendToPeer(Consumer(p), m)
        BY <2>1, <2>3, SignalMessages, MessageTypes
      <3>2. Consumer(p) \in Consumers /\ made[Consumer(p)] # 0
        BY <3>1, UserIsCreated
      <3>3. \A d \in Consumers : made[d] = 0 => mail'[d] = mail[d]
        BY <3>1, <3>2, Appended
      <3>4. inbox' = inbox
        BY <2>1, SignalMessages
      <3> QED
        BY <1>0, <3>3, <3>4 DEF MessagesInv
    <2> QED
      BY <2>2, <2>3
  <1>4. CASE World
    <2>1. PICK c \in Consumers : Joins(c) \/ Leaves(c) \/ TakesMail(c) \/ NotSent(c)
      BY <1>4 DEF World
    <2>2. CASE Joins(c) \/ Leaves(c)
      <3>1. /\ mail' = mail /\ \A d \in Consumers : Longer(d)
            /\ \A i \in 1..Len(inbox') : i \in 1..Len(inbox) \/ inbox'[i].of = NoConnection
        BY <2>2, AnnouncedMessages
      <3>2. \A i \in 1..Len(inbox') : inbox'[i].of # NoConnection => inbox'[i].type \in Replies
        BY <3>1, <2>1 DEF MessagesInv, Longer
      <3> QED
        BY <1>0, <3>1, <3>2 DEF MessagesInv, Longer
    <2>3. CASE TakesMail(c)
      <3>1. mail[c] # <<>> /\ made[c] # 0
        BY <2>3 DEF TakesMail, MessagesInv
      <3>2. \A d \in Consumers : d # c => mail'[d] = mail[d] /\ Longer(d)
        BY <2>3, TakenMessages
      <3>3. \A i \in 1..Len(inbox') : inbox'[i].of # NoConnection => inbox'[i].type \in Replies
        <4>1. CASE inbox' = inbox
          BY <4>1 DEF MessagesInv
        <4>2. CASE inbox' # inbox
          <5>0. \A o, t, r : FromServer(r, c, o, t).type = r
            BY DEF FromServer
          <5>1. /\ Len(inbox) \in Nat /\ Len(inbox') = Len(inbox) + 2
                /\ \A i \in 1..Len(inbox) : inbox'[i] = inbox[i]
                /\ inbox'[Len(inbox) + 1].type = "answer"
                /\ inbox'[Len(inbox) + 2].type = "ice-candidate"
            BY <2>3, <4>2, <5>0, TakenMessages
          <5>2. \A i \in 1..Len(inbox') :
                  i \in 1..Len(inbox) \/ i = Len(inbox) + 1 \/ i = Len(inbox) + 2
            BY <5>1
          <5> QED
            BY <5>1, <5>2 DEF MessagesInv, Replies
        <4> QED
          BY <4>1, <4>2
      <3> QED
        BY <1>0, <3>1, <3>2, <3>3 DEF MessagesInv, Longer
    <2>4. CASE NotSent(c)
      <3>1. /\ inbox' = inbox /\ mail[c] # <<>>
            /\ \A d \in Consumers : d # c => mail'[d] = mail[d]
        BY <2>4, NotSentMessages
      <3> QED
        BY <1>0, <3>1 DEF MessagesInv
    <2> QED
      BY <2>1, <2>2, <2>3, <2>4
  <1>5. CASE End
    BY <1>2, <1>5 DEF End, LinkLost, ReadFails, Release, MainReleases, ReleaseClient,
                      DropConnection, DestroyConnection, DestroyClient, netVars
  <1> QED
    BY <1>1, <1>2, <1>3, <1>4, <1>5, IoMessages DEF Next, vars, netVars

-----------------------------------------------------------------------------
(* The round of a consumer c whose first session it is after the step. *)

\* The session was there before.
LEMMA SessionStays ==
  ASSUME NEW c \in Consumers, InFirstSession(c)', RoundInv, made'[c] = made[c],
         m_consumers'[c] \in {m_consumers[c], NoConnection}, failed \subseteq failed'
  PROVE  InFirstSession(c) /\ RoundOf(c)
  BY FirstFacts DEF InFirstSession, RoundInv

LEMMA SubscribeRound ==
  ASSUME TypeOK, OrderInv, Subscribe, NEW c \in Consumers, InFirstSession(c)'
  PROVE  RoundOf(c)'
  <1>1. /\ Receives("subscribe") /\ Sender \in Consumers
        /\ made' = [made EXCEPT ![Sender] = @ + 1] /\ adding' = <<Sender, made'[Sender]>>
        /\ m_consumers' = [m_consumers EXCEPT ![Sender] = adding']
        /\ UNCHANGED <<busy, doing, tracks, needed, offering, draft, have, agreed, failed, mail>>
    BY Received DEF Subscribe
  <1>2. Same(c)
    BY <1>1 DEF Same, Setting
  <1>3. CASE c # Sender
    <2>1. made'[c] = made[c] /\ m_consumers'[c] = m_consumers[c]
      BY <1>1, <1>3 DEF TypeOK
    <2>2. RoundOf(c)
      BY <1>1, <2>1, SessionStays DEF OrderInv
    <2> QED
      BY <1>1, <1>2, <2>2, ReceivedOther
  <1>4. CASE c = Sender
    <2>1. made[c] = 0
      BY <1>1, <1>4 DEF InFirstSession, TypeOK
    <2>2. ~InUse(First(c))
      BY <2>1, FirstFacts DEF OrderInv, CreatedInv
    <2>3. Len(mail'[c]) = 0
      BY <1>1, <2>1 DEF OrderInv, MessagesInv
    <2>4. \A i \in 1..Len(inbox') : ~IsAnswer(c, i)' /\ ~IsCandidate(c, i)'
      BY <1>1, <2>1, Shifted DEF OrderInv, MessagesInv, IsAnswer, IsCandidate, Replies
    <2>5. StageInv(c)'
      BY <1>1, <2>2, FirstFacts DEF StageInv, InUse, OfferSent, Setting
    <2>6. OneOffer(c)' /\ OneAnswer(c)' /\ AfterAnswer(c)'
      BY <2>3, <2>4 DEF OneOffer, OneAnswer, AfterAnswer
    <2> QED
      BY <2>5, <2>6 DEF RoundOf
  <1> QED
    BY <1>3, <1>4

\* No round is under way: nothing that was sent waits for a reply.
LEMMA NothingSent ==
  ASSUME NEW c, RoundOf(c), ~OfferSent(c)
  PROVE  /\ \A i \in 1..Len(mail[c]) : ~IsOffer(c, i)
         /\ \A i \in 1..Len(inbox) : ~IsAnswer(c, i)
  BY DEF RoundOf, OneOffer, OneAnswer

\* A round begins where nothing that was sent waits for a reply.
LEMMA RoundBegins ==
  ASSUME NEW c \in Consumers, StageInv(c)',
         \A i \in 1..Len(mail'[c]) : ~IsOffer(c, i)',
         \A i \in 1..Len(inbox') : ~IsAnswer(c, i)',
         AfterAnswer(c)'
  PROVE  RoundOf(c)'
  BY DEF RoundOf, OneOffer, OneAnswer

\* A track begins a round only if none is under way: WebRTC's need is down.
LEMMA AddTrackRound ==
  ASSUME TypeOK, MapInv, OrderInv, AddTrack, NEW c \in Consumers, InFirstSession(c)'
  PROVE  RoundOf(c)'
  <1>1. /\ adding \in Connections /\ m_consumers[Consumer(adding)] = adding
        /\ busy = NoConnection
        /\ tracks' = [tracks EXCEPT ![adding] = @ \cup {step}]
        /\ UNCHANGED <<m_consumers, busy, doing, made, have, agreed, failed, inbox, mail>>
    BY DEF AddTrack, TypeOK, MapInv, netVars
  <1>2. RoundOf(c)
    BY <1>1, SessionStays DEF OrderInv
  <1>3. tracks[First(c)] \subseteq tracks'[First(c)] /\ tracks'[adding] # {}
        /\ (adding # First(c) => tracks'[First(c)] = tracks[First(c)])
    BY <1>1, FirstFacts DEF TypeOK
  <1>4. AfterAnswer(c)'
    BY <1>1, <1>2 DEF RoundOf, AfterAnswer, IsAnswer, IsCandidate
  <1>5. CASE adding = First(c) /\ have[adding] = "stable" /\ adding \notin needed
    <2>1. /\ needed' = needed \cup {First(c)} /\ offering' = offering \cup {First(c)}
          /\ draft'[First(c)] = tracks'[First(c)]
      BY <1>1, <1>5, FirstFacts
      DEF AddTrack, UpdateNegotiationNeeded, OnRenegotiationNeeded, TypeOK
    <2>2. ~OfferSent(c) /\ ~OfferSent(c)'
      BY <1>1, <1>5, FirstFacts DEF OfferSent, Setting
    <2>3. StageInv(c)'
      BY <1>1, <1>3, <1>5, <2>1, <2>2 DEF StageInv, OfferSent, Setting
    <2>4. /\ \A i \in 1..Len(mail'[c]) : ~IsOffer(c, i)'
          /\ \A i \in 1..Len(inbox') : ~IsAnswer(c, i)'
      BY <1>1, <1>2, <2>2, NothingSent DEF IsOffer, IsAnswer
    <2> QED
      BY <1>4, <2>3, <2>4, RoundBegins
  <1>6. CASE ~(adding = First(c) /\ have[adding] = "stable" /\ adding \notin needed)
    <2>1. /\ First(c) \in offering <=> First(c) \in offering'
          /\ First(c) \in needed <=> First(c) \in needed'
          /\ draft'[First(c)] = draft[First(c)]
      <3>1. CASE UNCHANGED <<needed, offering, draft>>
        BY <3>1
      <3>2. CASE /\ needed' = needed \cup {adding} /\ OnRenegotiationNeeded(adding)
                 /\ adding # First(c)
        BY <1>1, <3>2, FirstFacts DEF OnRenegotiationNeeded, TypeOK
      <3> QED
        BY <1>6, <3>1, <3>2 DEF AddTrack, UpdateNegotiationNeeded
    <2>2. StageInv(c)' /\ (OfferSent(c)' <=> OfferSent(c))
      BY <1>1, <1>2, <1>3, <2>1 DEF RoundOf, StageInv, OfferSent, Setting
    <2>3. OneOffer(c)' /\ OneAnswer(c)'
      BY <1>1, <1>2, <2>1, <2>2 DEF RoundOf, OneOffer, OneAnswer, IsOffer, IsAnswer
    <2> QED
      BY <1>4, <2>2, <2>3 DEF RoundOf
  <1> QED
    BY <1>5, <1>6

\* The answer of this consumer fits and ends the round; a track that came after the offer
\* begins the next one at once.
LEMMA AnswerFits ==
  ASSUME TypeOK, NEW c \in Consumers, RoundOf(c),
         InFirstSession(c), busy = NoConnection, inbox # <<>>,
         Head(inbox).type = "answer", Sender = c
  PROVE  Peer = First(c) /\ Fits(Peer, Head(inbox))
  <1>1. inbox \in Seq(ServerMessage) /\ Head(inbox) = inbox[1] /\ 1 \in 1..Len(inbox)
    BY DEF TypeOK
  <1>2. IsAnswer(c, 1)
    BY <1>1 DEF IsAnswer, Sender
  <1>3. OfferSent(c) /\ inbox[1].tracks = draft[First(c)]
    BY <1>1, <1>2 DEF RoundOf, OneAnswer
  <1>4. Peer = First(c)
    BY DEF Peer, InFirstSession
  <1> QED
    BY <1>1, <1>3, <1>4, FirstFacts DEF Fits, OfferSent, Setting

LEMMA HandleAnswerRound ==
  ASSUME TypeOK, MapInv, OrderInv, HandleAnswer, NEW c \in Consumers, InFirstSession(c)'
  PROVE  RoundOf(c)'
  <1>1. /\ Receives("answer") /\ Sender \in Consumers
        /\ Peer \in Connections \cup {NoConnection}
        /\ UNCHANGED <<m_consumers, busy, doing, made, tracks, failed, mail>>
    BY Received DEF HandleAnswer, ioVars
  <1>2. InFirstSession(c) /\ RoundOf(c)
    BY <1>1, SessionStays DEF OrderInv
  <1>3. CASE Sender # c
    <2>1. Peer # NoConnection => Consumer(Peer) = Sender /\ m_consumers[Consumer(Peer)] = Peer
      BY <1>1 DEF MapInv, Peer
    <2>2. Peer # First(c)
      BY <1>1, <1>3, <2>1, FirstFacts
    <2>3. Same(c)
      BY <1>1, <2>1, <2>2, FirstFacts
      DEF HandleAnswer, Settle, OnRenegotiationNeeded, Same, Setting, TypeOK
    <2> QED
      BY <1>1, <1>2, <1>3, <2>3, ReceivedOther
  <1>4. CASE Sender = c
    <2>1. Peer = First(c) /\ Peer # NoConnection
      BY <1>2, <1>4, FirstFacts DEF InFirstSession, Peer
    <2>2. busy = NoConnection /\ inbox # <<>> /\ Head(inbox).type = "answer"
      BY <1>1, <2>1 DEF HandleAnswer, Receives
    <2>3. Settle(First(c)) /\ have[First(c)] = "local"
      BY <1>2, <1>4, <2>1, <2>2, AnswerFits DEF HandleAnswer, Fits
    <2>4. OfferSent(c)
      BY <2>3 DEF OfferSent, Setting
    <2>5. /\ First(c) \in needed /\ draft[First(c)] # {} /\ tracks[First(c)] # {}
          /\ First(c) \notin offering
      BY <1>2, <2>4 DEF RoundOf, StageInv
    <2>6. /\ have'[First(c)] = "stable" /\ agreed'[First(c)] = draft[First(c)]
          /\ ~OfferSent(c)'
      BY <1>1, <2>2, <2>3, FirstFacts DEF Settle, TypeOK, OfferSent, Setting
    <2>7. StageInv(c)'
      <3>1. CASE tracks[First(c)] # draft[First(c)]
        <4>1. /\ needed' = needed /\ m_consumers[Consumer(First(c))] # NoConnection
              /\ draft'[First(c)] = tracks'[First(c)]
          BY <1>2, <2>3, <3>1, FirstFacts
          DEF Settle, OnRenegotiationNeeded, InFirstSession, TypeOK
        <4> QED
          BY <1>1, <2>5, <2>6, <4>1 DEF StageInv, OfferSent, Setting
      <3>2. CASE tracks[First(c)] = draft[First(c)]
        BY <2>3, <2>5, <2>6, <3>2 DEF Settle, StageInv, OfferSent, Setting
      <3> QED
        BY <3>1, <3>2
    <2>8. IsAnswer(c, 1)
      BY <1>1, <1>4, Shifted DEF IsAnswer
    <2>9. \A i \in 1..Len(mail'[c]) : ~IsOffer(c, i)'
      BY <1>1, <1>2, <2>8, Shifted DEF RoundOf, OneOffer, IsOffer
    <2>10. \A i \in 1..Len(inbox') : ~IsAnswer(c, i)'
      <3> SUFFICES ASSUME NEW i \in 1..Len(inbox'), IsAnswer(c, i)' PROVE FALSE
        OBVIOUS
      <3>1. i + 1 \in 1..Len(inbox) /\ IsAnswer(c, i + 1)
        BY <1>1, Shifted DEF IsAnswer
      <3>2. i + 1 = 1
        BY <1>1, <1>2, <2>8, <3>1, Shifted DEF RoundOf, OneAnswer
      <3> QED
        BY <3>2
    <2>11. AfterAnswer(c)'
      BY <2>5, <2>6 DEF AfterAnswer
    <2> QED
      BY <2>7, <2>9, <2>10, <2>11, RoundBegins
  <1> QED
    BY <1>3, <1>4

\* Steps that leave the connection alone, and neither take an answer nor send an offer.
LEMMA OtherIoRound ==
  ASSUME TypeOK, OrderInv, SubscribeIgnored \/ ProcessIceCandidate \/ ConsumerDisconnected,
         NEW c \in Consumers, InFirstSession(c)'
  PROVE  RoundOf(c)'
  <1>1. /\ \E t : Receives(t) /\ t # "answer" /\ Sender \in Consumers
        /\ \/ UNCHANGED m_consumers
           \/ m_consumers' = [m_consumers EXCEPT ![Sender] = NoConnection]
        /\ UNCHANGED <<made, tracks, needed, offering, draft, have, agreed, failed, busy, doing,
                       mail>>
    BY Received DEF SubscribeIgnored, ProcessIceCandidate, ConsumerDisconnected, ioVars, peerVars
  <1>2. m_consumers'[c] \in {m_consumers[c], NoConnection}
    BY <1>1 DEF TypeOK
  <1>3. RoundOf(c)
    BY <1>1, <1>2, SessionStays DEF OrderInv
  <1> QED
    BY <1>1, <1>3, ReceivedOther DEF Same, Setting

\* Steps that leave the connection and the messages alone.
LEMMA QuietRound ==
  ASSUME TypeOK, OrderInv, AddTrackFails \/ End \/ UNCHANGED vars,
         NEW c \in Consumers, InFirstSession(c)'
  PROVE  RoundOf(c)'
  <1>1. /\ \/ UNCHANGED m_consumers
           \/ \E d \in Consumers : m_consumers' = [m_consumers EXCEPT ![d] = NoConnection]
        /\ UNCHANGED <<made, tracks, needed, offering, draft, have, agreed, inbox, mail>>
        /\ Setting(c) <=> Setting(c)'
        /\ failed \subseteq failed'
    <2>1. CASE AddTrackFails \/ LinkLost \/ ReadFails \/ MainReleases \/ UNCHANGED vars
      BY <2>1 DEF AddTrackFails, LinkLost, ReadFails, MainReleases, Setting, ioVars, peerVars,
                  netVars, vars
    <2>2. CASE ReleaseClient \/ DropConnection \/ DestroyClient
      BY <2>2, FirstFacts DEF ReleaseClient, DropConnection, DestroyClient, Setting, ioVars,
                              peerVars, netVars
    <2>3. CASE \E d \in Consumers : DestroyConnection(d)
      BY <2>3 DEF DestroyConnection, Setting, peerVars, netVars
    <2> QED
      BY <2>1, <2>2, <2>3 DEF End, Release
  <1>2. m_consumers'[c] \in {m_consumers[c], NoConnection}
    BY <1>1 DEF TypeOK
  <1>3. RoundOf(c)
    BY <1>1, <1>2, SessionStays DEF OrderInv
  <1>4. Len(inbox) \in Nat
    BY DEF TypeOK
  <1>5. Longer(c) /\ Same(c) /\ mail'[c] = mail[c]
    BY <1>1, <1>4 DEF Longer, Same, Setting
  <1> QED
    BY <1>3, <1>5, AddedOther

\* The connection the signaling thread works on is the first one of its consumer, if it
\* is the one of this consumer.
LEMMA SignalsFirst ==
  ASSUME TypeOK, OrderInv, NEW c \in Consumers, InFirstSession(c),
         NEW p \in Connections, InUse(p), Consumer(p) = c
  PROVE  p = First(c)
  BY FirstFacts DEF OrderInv, CreatedInv, InFirstSession

\* The signaling thread changes nothing of the other sessions.
LEMMA SignalRest ==
  ASSUME TypeOK, NEW p \in Connections,
         OfferCreated(p) \/ SetLocalDescription(p) \/ OfferFails(p) \/ OnIceCandidate(p)
  PROVE  /\ UNCHANGED <<m_consumers, made, tracks, needed, draft, agreed, inbox>>
         /\ failed \subseteq failed' /\ InUse(p)
         /\ \A c \in Consumers : p # First(c) => Same(c)
  BY FirstFacts
  DEF OfferCreated, SetLocalDescription, OfferFails, OnIceCandidate, Held, InUse, ioVars, netVars,
      Same, Setting, TypeOK

LEMMA OfferCreatedRound ==
  ASSUME TypeOK, OrderInv, NEW p \in Connections, OfferCreated(p),
         NEW c \in Consumers, InFirstSession(c)'
  PROVE  RoundOf(c)'
  <1>1. /\ UNCHANGED <<m_consumers, made, tracks, needed, draft, have, agreed, failed, inbox>>
        /\ busy = NoConnection /\ busy' = p /\ doing' = "call"
        /\ p \in offering /\ offering' = offering \ {p}
        /\ SendToPeer(Consumer(p), OfferMessage(p)) /\ OfferMessage(p) \in ConsumerMessage
        /\ InUse(p) /\ Consumer(p) \in Consumers
    BY MessageTypes, ConnectionsFacts DEF OfferCreated, ioVars, InUse
  <1>2. InFirstSession(c) /\ RoundOf(c)
    BY <1>1, SessionStays DEF OrderInv
  <1>3. CASE Consumer(p) # c
    <2>1. Same(c)
      BY <1>3, SignalRest, FirstFacts
    <2>2. mail'[c] = mail[c]
      BY <1>1, <1>3, Appended
    <2>3. Longer(c)
      BY <1>1 DEF Longer, TypeOK
    <2> QED
      BY <1>2, <2>1, <2>2, <2>3, AddedOther
  <1>4. CASE Consumer(p) = c
    <2>1. p = First(c)
      BY <1>1, <1>2, <1>4, SignalsFirst
    <2>2. ~OfferSent(c) /\ have[First(c)] = "stable"
      BY <1>1, <1>2, <2>1, FirstFacts DEF RoundOf, StageInv, TypeOK, OfferSent, Setting
    <2>3. OfferSent(c)' /\ StageInv(c)'
      BY <1>1, <1>2, <2>1, <2>2 DEF RoundOf, StageInv, OfferSent, Setting
    <2>4. /\ \A i \in 1..Len(mail[c]) : ~IsOffer(c, i)
          /\ \A i \in 1..Len(inbox) : ~IsAnswer(c, i)
      BY <1>2, <2>2, NothingSent
    <2>5. /\ Len(mail[c]) \in Nat
          /\ \/ mail'[c] = mail[c]
             \/ /\ Len(mail'[c]) = Len(mail[c]) + 1
                /\ \A i \in 1..Len(mail[c]) : mail'[c][i] = mail[c][i]
                /\ mail'[c][Len(mail[c]) + 1] = OfferMessage(p)
      BY <1>1, <1>4, Appended
    <2>6. \A i \in 1..Len(mail'[c]) : IsOffer(c, i)' =>
            i = Len(mail[c]) + 1 /\ mail'[c][i] = OfferMessage(p)
      BY <2>4, <2>5 DEF IsOffer
    <2>7. OfferMessage(p).tracks = draft'[First(c)]
      BY <1>1, <2>1 DEF OfferMessage
    <2>8. OneOffer(c)'
      BY <1>1, <2>3, <2>4, <2>6, <2>7 DEF OneOffer, IsAnswer
    <2>9. OneAnswer(c)'
      BY <1>1, <2>4 DEF OneAnswer, IsAnswer
    <2>10. AfterAnswer(c)'
      BY <1>1, <1>2 DEF RoundOf, AfterAnswer, IsAnswer, IsCandidate
    <2> QED
      BY <2>3, <2>8, <2>9, <2>10 DEF RoundOf
  <1> QED
    BY <1>3, <1>4

\* The mail of the consumer loses messages at its end, or gets a candidate.
LEMMA MailRound ==
  ASSUME NEW c \in Consumers, RoundOf(c), Same(c), inbox' = inbox,
         \A i \in 1..Len(mail'[c]) :
           IsOffer(c, i)' => i \in 1..Len(mail[c]) /\ mail'[c][i] = mail[c][i]
  PROVE  RoundOf(c)'
  <1>1. StageInv(c)' /\ (OfferSent(c)' <=> OfferSent(c))
    BY SameStage DEF RoundOf
  <1>2. \A i \in 1..Len(inbox) : /\ IsAnswer(c, i)' <=> IsAnswer(c, i)
                                 /\ IsCandidate(c, i)' <=> IsCandidate(c, i)
    BY DEF IsAnswer, IsCandidate
  <1>3. \A i \in 1..Len(mail'[c]) : IsOffer(c, i)' => i \in 1..Len(mail[c]) /\ IsOffer(c, i)
    BY DEF IsOffer
  <1>4. OneOffer(c)'
    BY <1>1, <1>2, <1>3 DEF RoundOf, OneOffer, Same
  <1>5. OneAnswer(c)' /\ AfterAnswer(c)'
    BY <1>1, <1>2 DEF RoundOf, OneAnswer, AfterAnswer, Same
  <1> QED
    BY <1>1, <1>4, <1>5 DEF RoundOf

LEMMA OtherSignalRound ==
  ASSUME TypeOK, OrderInv, NEW p \in Connections,
         SetLocalDescription(p) \/ OfferFails(p) \/ OnIceCandidate(p),
         NEW c \in Consumers, InFirstSession(c)'
  PROVE  RoundOf(c)'
  <1>1. /\ UNCHANGED <<m_consumers, made, tracks, needed, draft, agreed, inbox>>
        /\ failed \subseteq failed' /\ InUse(p) /\ Consumer(p) \in Consumers
    BY SignalRest, ConnectionsFacts
  <1>2. InFirstSession(c) /\ RoundOf(c)
    BY <1>1, SessionStays DEF OrderInv
  <1>3. \A i \in 1..Len(mail'[c]) :
          IsOffer(c, i)' => i \in 1..Len(mail[c]) /\ mail'[c][i] = mail[c][i]
    <2>1. CASE mail' = mail
      BY <2>1
    <2>2. CASE OnIceCandidate(p)
      <3>1. /\ SendToPeer(Consumer(p), CandidateMessage(p))
            /\ CandidateMessage(p) \in ConsumerMessage
            /\ CandidateMessage(p).type # "offer"
        BY <2>2, MessageTypes DEF OnIceCandidate, CandidateMessage
      <3>2. CASE Consumer(p) # c
        BY <1>1, <3>1, <3>2, Appended
      <3>3. CASE Consumer(p) = c
        <4>1. \/ mail'[c] = mail[c]
              \/ /\ Len(mail[c]) \in Nat /\ Len(mail'[c]) = Len(mail[c]) + 1
                 /\ \A i \in 1..Len(mail[c]) : mail'[c][i] = mail[c][i]
                 /\ mail'[c][Len(mail[c]) + 1].type # "offer"
          BY <3>1, <3>3, Appended
        <4> QED
          BY <4>1 DEF IsOffer
      <3> QED
        BY <3>2, <3>3
    <2> QED
      BY <2>1, <2>2 DEF SetLocalDescription, OfferFails, netVars
  <1>4. CASE p # First(c) \/ OnIceCandidate(p)
    <2>1. Same(c)
      BY <1>4, SignalRest DEF OnIceCandidate, Same, Setting
    <2> QED
      BY <1>1, <1>2, <1>3, <2>1, MailRound
  <1>5. CASE p = First(c) /\ SetLocalDescription(p)
    <2>1. /\ Setting(c) /\ ~Setting(c)' /\ have'[First(c)] = "local"
          /\ mail' = mail /\ offering' = offering
      BY <1>5, FirstFacts DEF SetLocalDescription, Setting, InFirstSession, TypeOK, netVars
    <2>2. OfferSent(c) /\ OfferSent(c)'
      BY <2>1 DEF OfferSent, Setting
    <2>3. StageInv(c)'
      BY <1>1, <1>2, <2>1, <2>2, FirstFacts DEF RoundOf, StageInv
    <2>4. OneOffer(c)' /\ OneAnswer(c)' /\ AfterAnswer(c)'
      BY <1>1, <1>2, <2>1, <2>2
      DEF RoundOf, OneOffer, OneAnswer, AfterAnswer, IsOffer, IsAnswer, IsCandidate
    <2> QED
      BY <2>3, <2>4 DEF RoundOf
  <1>6. CASE p = First(c) /\ OfferFails(p)
    BY <1>6 DEF OfferFails, InFirstSession
  <1> QED
    BY <1>4, <1>5, <1>6

\* The consumer takes its mail: the offer becomes its answer, and a candidate after it.
LEMMA TakesMailRound ==
  ASSUME TypeOK, NEW c \in Consumers, RoundOf(c), Same(c), TakesMail(c)
  PROVE  RoundOf(c)'
  <1>1. StageInv(c)' /\ (OfferSent(c)' <=> OfferSent(c))
    BY SameStage DEF RoundOf
  <1>2. /\ 1 \in 1..Len(mail[c])
        /\ \A i \in 1..Len(mail'[c]) :
             /\ i + 1 \in 1..Len(mail[c]) /\ i + 1 # 1 /\ mail'[c][i] = mail[c][i + 1]
             /\ IsOffer(c, i)' <=> IsOffer(c, i + 1)
    BY TakenMessages DEF IsOffer
  <1>3. CASE inbox' = inbox
    <2>1. \A i \in 1..Len(inbox) : /\ IsAnswer(c, i)' <=> IsAnswer(c, i)
                                   /\ IsCandidate(c, i)' <=> IsCandidate(c, i)
      BY <1>3 DEF IsAnswer, IsCandidate
    <2>2. OneOffer(c)'
      <3> SUFFICES ASSUME NEW i \in 1..Len(mail'[c]), IsOffer(c, i)'
                   PROVE  /\ OfferSent(c)' /\ mail'[c][i].tracks = draft'[First(c)]
                          /\ \A j \in 1..Len(mail'[c]) : IsOffer(c, j)' => i = j
                          /\ \A j \in 1..Len(inbox') : ~IsAnswer(c, j)'
        BY DEF OneOffer
      <3>1. i + 1 \in 1..Len(mail[c]) /\ IsOffer(c, i + 1) /\ mail'[c][i] = mail[c][i + 1]
        BY <1>2
      <3>2. /\ OfferSent(c)' /\ mail'[c][i].tracks = draft'[First(c)]
            /\ \A j \in 1..Len(inbox') : ~IsAnswer(c, j)'
        BY <1>1, <1>3, <2>1, <3>1 DEF RoundOf, OneOffer, Same
      <3>3. ASSUME NEW j \in 1..Len(mail'[c]), IsOffer(c, j)' PROVE i = j
        <4>1. j + 1 \in 1..Len(mail[c]) /\ IsOffer(c, j + 1)
          BY <1>2, <3>3
        <4>2. i + 1 = j + 1
          BY <3>1, <4>1 DEF RoundOf, OneOffer
        <4> QED
          BY <4>2
      <3> QED
        BY <3>2, <3>3
    <2>3. OneAnswer(c)' /\ AfterAnswer(c)'
      BY <1>1, <1>3, <2>1 DEF RoundOf, OneAnswer, AfterAnswer, Same
    <2> QED
      BY <1>1, <2>2, <2>3 DEF RoundOf
  <1>4. CASE inbox' # inbox
    <2> PICK n \in Nat : n = Len(inbox)
      BY DEF TypeOK
    <2>0. \A o, t, r : /\ FromServer(r, c, o, t).type = r
                       /\ FromServer(r, c, o, t).from = c
                       /\ FromServer(r, c, o, t).tracks = t
      BY DEF FromServer
    <2>1. /\ IsOffer(c, 1) /\ n \in Nat /\ Len(inbox') = n + 2
          /\ \A i \in 1..n : inbox'[i] = inbox[i]
          /\ inbox'[n + 1].type = "answer" /\ inbox'[n + 1].from = c
          /\ inbox'[n + 1].tracks = mail[c][1].tracks
          /\ inbox'[n + 2].type = "ice-candidate"
      BY <1>4, <2>0, TakenMessages
    <2>2. /\ OfferSent(c) /\ mail[c][1].tracks = draft[First(c)]
          /\ \A j \in 1..Len(mail[c]) : IsOffer(c, j) => j = 1
          /\ \A j \in 1..n : ~IsAnswer(c, j)
      BY <1>2, <2>1 DEF RoundOf, OneOffer
    <2>3. \A i \in 1..Len(inbox') : i \in 1..n \/ i = n + 1 \/ i = n + 2
      BY <2>1
    <2>4. /\ \A i \in 1..Len(inbox') : IsAnswer(c, i)' => i = n + 1
          /\ IsAnswer(c, n + 1)' /\ n + 1 \in 1..Len(inbox')
      BY <2>1, <2>2, <2>3 DEF IsAnswer
    <2>5. OneOffer(c)'
      BY <1>2, <2>2 DEF OneOffer
    <2>6. OneAnswer(c)'
      BY <1>1, <2>1, <2>2, <2>4 DEF OneAnswer, Same
    <2>7. AfterAnswer(c)'
      <3> SUFFICES ASSUME NEW i \in 1..Len(inbox'), IsCandidate(c, i)', agreed'[First(c)] = {}
                   PROVE  \E j \in 1..Len(inbox') : j < i /\ IsAnswer(c, j)'
        BY DEF AfterAnswer
      <3>1. CASE i \in 1..n
        <4>1. IsCandidate(c, i) /\ agreed[First(c)] = {}
          BY <2>1, <3>1 DEF IsCandidate, Same
        <4> QED
          BY <2>2, <3>1, <4>1 DEF RoundOf, AfterAnswer
      <3>2. CASE i = n + 1
        BY <2>1, <3>2 DEF IsCandidate
      <3>3. CASE i = n + 2
        BY <2>1, <2>4, <3>3
      <3> QED
        BY <2>3, <3>1, <3>2, <3>3
    <2> QED
      BY <1>1, <2>5, <2>6, <2>7 DEF RoundOf
  <1> QED
    BY <1>3, <1>4

LEMMA WorldRound ==
  ASSUME TypeOK, OrderInv, World, NEW c \in Consumers, InFirstSession(c)'
  PROVE  RoundOf(c)'
  <1>1. UNCHANGED <<m_consumers, made, tracks, needed, offering, draft, have, agreed, busy, doing,
                    failed>>
    BY DEF World, Joins, Leaves, TakesMail, NotSent, ioVars, peerVars
  <1>2. RoundOf(c) /\ Same(c)
    BY <1>1, SessionStays DEF OrderInv, Same, Setting
  <1>3. PICK d \in Consumers : Joins(d) \/ Leaves(d) \/ TakesMail(d) \/ NotSent(d)
    BY DEF World
  <1>4. CASE Joins(d) \/ Leaves(d)
    BY <1>2, <1>4, AnnouncedMessages, AddedOther
  <1>5. CASE TakesMail(d)
    <2>1. CASE d = c
      BY <1>2, <1>5, <2>1, TakesMailRound
    <2>2. CASE d # c
      BY <1>2, <1>5, <2>2, TakenMessages, AddedOther
    <2> QED
      BY <2>1, <2>2
  <1>6. CASE NotSent(d)
    BY <1>2, <1>6, NotSentMessages, MailRound
  <1> QED
    BY <1>3, <1>4, <1>5, <1>6

-----------------------------------------------------------------------------
(* The theorem. *)

LEMMA OrderStep ==
  TypeOK /\ MapInv /\ OrderInv /\ [Next]_vars => OrderInv'
  <1> SUFFICES ASSUME TypeOK, MapInv, OrderInv, [Next]_vars PROVE OrderInv'
    OBVIOUS
  <1>1. CreatedInv' /\ MessagesInv'
    BY CreatedStep, MessagesStep DEF OrderInv
  <1>2. ASSUME NEW c \in Consumers, InFirstSession(c)' PROVE RoundOf(c)'
    <2>1. CASE Io
      BY <1>2, <2>1, SubscribeRound, OtherIoRound, AddTrackRound, QuietRound,
         HandleAnswerRound DEF Io
    <2>2. CASE Signal
      BY <1>2, <2>2, OfferCreatedRound, OtherSignalRound DEF Signal
    <2>3. CASE End \/ UNCHANGED vars
      BY <1>2, <2>3, QuietRound
    <2>4. CASE World
      BY <1>2, <2>4, WorldRound
    <2> QED
      BY <2>1, <2>2, <2>3, <2>4 DEF Next
  <1> QED
    BY <1>1, <1>2 DEF OrderInv, RoundInv

LEMMA OrderInvariant == Spec => [](TypeOK /\ MapInv /\ OrderInv)
  BY SignalingInvariant, OrderInit, OrderStep, PTL DEF Spec

\* A reply never finds its connection too early or too late, in the first session of a
\* consumer and while no call of WebRTC failed, although the offer goes out before the
\* local description is set: the answer finds the offer it answers, and a candidate a
\* remote description.  It holds whenever the io thread could handle the reply.
THEOREM RepliesFitHolds == Spec => []RepliesFit
  <1>1. TypeOK /\ MapInv /\ OrderInv => RepliesFit
    <2> SUFFICES ASSUME TypeOK, MapInv, OrderInv,
                        inbox # <<>>, Head(inbox).of # NoConnection, busy = NoConnection,
                        Peer = Head(inbox).of, made[Sender] = 1, Peer \notin failed
                 PROVE  IF Head(inbox).type = "answer"
                        THEN Fits(Peer, Head(inbox)) ELSE agreed[Peer] # {}
      BY DEF RepliesFit
    <2>1. /\ inbox[1] = Head(inbox) /\ 1 \in 1..Len(inbox) /\ inbox[1] \in ServerMessage
      BY DEF TypeOK
    <2>2. Sender \in Consumers /\ Peer \in Connections /\ Consumer(Peer) = Sender
      BY <2>1 DEF Sender, Peer, ServerMessage, TypeOK, MapInv
    <2>3. Peer = First(Sender)
      <3>1. InUse(Peer)
        BY <2>2 DEF InUse, Peer
      <3> QED
        BY <2>2, <3>1, FirstFacts DEF OrderInv, CreatedInv
    <2>4. InFirstSession(Sender) /\ RoundOf(Sender)
      BY <2>2, <2>3 DEF InFirstSession, OrderInv, RoundInv, Peer
    <2>5. CASE Head(inbox).type = "answer"
      BY <2>2, <2>4, <2>5, AnswerFits
    <2>6. CASE Head(inbox).type # "answer"
      <3>1. IsCandidate(Sender, 1)
        BY <2>1, <2>6 DEF OrderInv, MessagesInv, Replies, IsCandidate, Sender
      <3>2. \A j \in 1..Len(inbox) : ~(j < 1)
        BY <2>1 DEF TypeOK
      <3> QED
        BY <2>1, <2>3, <2>4, <2>6, <3>1, <3>2 DEF RoundOf, AfterAnswer
    <2> QED
      BY <2>5, <2>6
  <1> QED
    BY <1>1, OrderInvariant, PTL
=============================================================================
