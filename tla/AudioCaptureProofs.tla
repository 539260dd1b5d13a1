------------------------- MODULE AudioCaptureProofs -------------------------
(***************************************************************************)
(* Proofs about AudioCapture, for any finite set of sources, any packet    *)
(* sizes and any number of packets.                                        *)
(***************************************************************************)
EXTENDS AudioCapture, TLAPS, FiniteSetTheorems, SequenceTheorems

-----------------------------------------------------------------------------
(* The inductive invariant. *)

\* instance_count and started_, and what Initialize left.
ShareInv ==
  /\ inst = "none" => ~started /\ \A s \in Sources : life[s] = "new"
  /\ ~HasClient => \A s \in Sources : life[s] # "stopped"
  /\ CountIsUsers
  /\ LoopNotCutShort
  /\ QuietWhenUnused

\* A packet is lent to a thread that is about to release it, and knows its size.
ChunkInv ==
  /\ holder # NoSource =>
       packets # <<>> /\ pc[holder] = "hold" /\ avail[holder] = Head(packets)
  /\ \A s \in Sources : got[s] \in 0..Needed
  /\ ChunksFit
  /\ GoneIsQuiet

LEMMA StartTruth == Init => TypeOK /\ ShareInv /\ ChunkInv
  <1> SUFFICES ASSUME Init PROVE TypeOK /\ ShareInv /\ ChunkInv
    OBVIOUS
  <1>1. Users = {}
    BY DEF Init, Users
  <1>2. TypeOK
    <2>1. packets \in Seq(Nat) /\ produced \in 0..MaxPackets
      BY AudioAssumption DEF Init
    <2> QED
      BY <2>1 DEF Init, TypeOK, Instances, Lives, ThreadStates
  <1>3. ShareInv
    BY <1>1, FS_EmptySet
    DEF Init, ShareInv, HasClient, CountIsUsers, LoopNotCutShort, QuietWhenUnused
  <1>4. ChunkInv
    BY AudioAssumption DEF Init, ChunkInv, ChunksFit, GoneIsQuiet
  <1> QED
    BY <1>2, <1>3, <1>4

LEMMA UsersFinite ==
  /\ IsFiniteSet(Users) /\ Cardinality(Users) \in Nat
  /\ Cardinality(Users) = 0 <=> Users = {}
  /\ IsFiniteSet(EverStarted) /\ Cardinality(EverStarted) \in Nat
  <1>1. Users \subseteq Sources /\ EverStarted \subseteq Sources
    BY DEF Users, EverStarted
  <1> QED
    BY <1>1, AudioAssumption, FS_Subset, FS_CardinalityType, FS_EmptySet

-----------------------------------------------------------------------------
(* The count: one lemma per kind of step. *)

\* A step that makes nobody a user, and no user anything else.
LEMMA SameUsers ==
  ASSUME ShareInv, Alive, Users' = Users, EverStarted' = EverStarted, inst # "none",
         UNCHANGED <<inst, started, count>>,
         \A s \in Sources : life'[s] = "stopped" => life[s] = "stopped" \/ HasClient,
         \A s \in Sources : life[s] = "threw" => life'[s] = "threw"
  PROVE  ShareInv'
  BY DEF ShareInv, HasClient, CountIsUsers, LoopNotCutShort, QuietWhenUnused, Alive

LEMMA ConstructShare ==
  ASSUME TypeOK, ShareInv, Alive, NEW s \in Sources, Construct(s)
  PROVE  ShareInv'
  <1>1. CASE GetInstance(s)
    <2>1. Users' = Users /\ EverStarted' = EverStarted
      BY <1>1 DEF GetInstance, Becomes, TypeOK, Users, EverStarted
    <2>2. started' = started /\ count' = count
      BY <1>1 DEF GetInstance
    <2>3. CASE inst = "none"
      <3>1. inst' # "none" /\ started' = FALSE /\ Users' = {} /\ EverStarted' = {}
        BY <1>1, <2>1, <2>2, <2>3
        DEF GetInstance, ShareInv, TypeOK, Users, EverStarted, Instances
      <3>2. \A t \in Sources : life'[t] # "stopped"
        BY <1>1, <2>3 DEF GetInstance, Becomes, ShareInv, TypeOK
      <3>3. count' = 0 /\ Cardinality({}) = 0
        BY <2>1, <2>2, <2>3, <3>1, FS_EmptySet DEF ShareInv, CountIsUsers, HasClient
      <3> QED
        BY <3>1, <3>2, <3>3 DEF ShareInv, CountIsUsers, LoopNotCutShort, QuietWhenUnused
    <2>4. CASE inst # "none"
      BY <1>1, <2>1, <2>2, <2>4, SameUsers DEF GetInstance, Becomes, TypeOK
    <2> QED
      BY <2>3, <2>4
  <1>2. CASE StartStream(s)
    <2>1. inst # "none" /\ inst' = inst /\ started' = TRUE /\ life[s] = "made"
      BY <1>2 DEF StartStream, Becomes, ShareInv
    <2>2. \A t \in Sources : t # s => life'[t] = life[t]
      BY <1>2 DEF StartStream, Becomes, TypeOK
    <2>3. s \notin Users /\ s \notin EverStarted
      BY <2>1 DEF Users, EverStarted
    <2>4. CASE life'[s] = "started"
      <3>1. Users' = Users \cup {s} /\ EverStarted' = EverStarted \cup {s}
        BY <2>2, <2>4 DEF Users, EverStarted
      <3>2. /\ HasClient \/ started => count' = count + 1
            /\ ~HasClient /\ ~started => count' = count
        BY <1>2, <2>4
        DEF StartStream, StartSucceeds, StartFails, Becomes, TypeOK
      <3>3. /\ Cardinality(Users') = Cardinality(Users) + 1
            /\ Cardinality(EverStarted') = Cardinality(EverStarted) + 1
        BY <2>3, <3>1, UsersFinite, FS_AddElement
      <3>4. \A t \in Sources : life'[t] = "stopped" => life[t] = "stopped"
        BY <2>2, <2>4
      <3>5. CountIsUsers'
        <4>1. count \in Nat /\ HasClient' = HasClient
          BY <2>1 DEF TypeOK, HasClient
        <4> QED
          BY <2>1, <3>2, <3>3, <4>1, UsersFinite DEF ShareInv, CountIsUsers
      <3> QED
        BY <2>1, <3>1, <3>4, <3>5 DEF ShareInv, LoopNotCutShort, QuietWhenUnused, HasClient
    <2>5. CASE life'[s] # "started"
      <3>1. life'[s] = "threw" /\ count' = count /\ HasClient
        BY <1>2, <2>5 DEF StartStream, StartFails, Becomes, TypeOK
      <3>2. Users' = Users
        BY <2>1, <2>2, <3>1 DEF Users
      <3> QED
        BY <2>1, <3>1, <3>2
        DEF ShareInv, CountIsUsers, LoopNotCutShort, QuietWhenUnused, HasClient
    <2> QED
      BY <2>4, <2>5
  <1>3. CASE StartCapture(s)
    <2>1. Users' = Users /\ EverStarted' = EverStarted /\ UNCHANGED <<inst, started, count>>
      BY <1>3 DEF StartCapture, Becomes, TypeOK, Users, EverStarted, classVars
    <2>2. inst # "none"
      BY <1>3 DEF StartCapture, Becomes, ShareInv
    <2> QED
      BY <1>3, <2>1, <2>2, SameUsers DEF StartCapture, Becomes, TypeOK
  <1> QED
    BY <1>1, <1>2, <1>3 DEF Construct

LEMMA DestroyShare ==
  ASSUME TypeOK, ShareInv, Alive, NEW s \in Sources, Destroy(s)
  PROVE  ShareInv'
  <1>0. inst # "none"
    BY DEF Destroy, StopStream, StopStreamCounts, StopCapture, Join, Becomes, ShareInv
  <1>1. CASE StopStream(s)
    <2>1. UNCHANGED <<inst, started, count>>
      BY <1>1 DEF StopStream, classVars
    <2>2. CASE ~HasClient
      <3>1. life' = [life EXCEPT ![s] = "leaving"]
        BY <1>1, <2>2 DEF StopStream, StopSucceeds, StopFails, Becomes
      <3>2. Users' \subseteq Users /\ EverStarted' = EverStarted
        <4>1. life[s] = "running"
          BY <1>1, <2>2 DEF StopStream, StopSucceeds, StopFails, Becomes
        <4> QED
          BY <3>1, <4>1 DEF Users, EverStarted, TypeOK
      <3>3. \A t \in Sources : life'[t] = "stopped" => life[t] = "stopped"
        BY <3>1 DEF TypeOK
      <3> QED
        BY <1>0, <2>1, <2>2, <3>2, <3>3
        DEF ShareInv, CountIsUsers, LoopNotCutShort, QuietWhenUnused, HasClient
    <2>3. CASE HasClient /\ StopFails /\ Becomes(s, "running", "terminated")
      <3>1. life' = [life EXCEPT ![s] = "terminated"]
        BY <2>3 DEF Becomes
      <3>2. Users' \subseteq Users /\ ~Alive'
        BY <3>1 DEF Users, TypeOK, Alive
      <3> QED
        BY <1>0, <2>1, <2>3, <3>2
        DEF ShareInv, CountIsUsers, LoopNotCutShort, QuietWhenUnused, HasClient
    <2>4. CASE HasClient /\ StopSucceeds /\ Becomes(s, "running", "stopped")
      <3>1. life[s] = "running" /\ life' = [life EXCEPT ![s] = "stopped"]
        BY <2>4 DEF Becomes
      <3>2. Users' = Users /\ EverStarted' = EverStarted
        BY <3>1 DEF Users, EverStarted, TypeOK
      <3> QED
        BY <1>0, <2>1, <2>4, <3>1, <3>2, SameUsers DEF TypeOK
    <2> QED
      BY <1>1, <2>2, <2>3, <2>4 DEF StopStream, StopSucceeds, StopFails
  <1>2. CASE StopStreamCounts(s)
    <2>1. /\ life[s] = "stopped" /\ life' = [life EXCEPT ![s] = "leaving"]
          /\ count' = count - 1 /\ started' = (started /\ count' # 0) /\ inst' = inst
      BY <1>2 DEF StopStreamCounts, Becomes
    <2>2. HasClient /\ s \in Users /\ Users' = Users \ {s}
      BY <2>1 DEF ShareInv, Users, TypeOK
    <2>3. Cardinality(Users') = Cardinality(Users) - 1
      BY <2>2, UsersFinite, FS_RemoveElement
    <2>4. count' = Cardinality(Users')
      BY <2>1, <2>2, <2>3 DEF ShareInv, CountIsUsers
    <2>5. Users' = {} <=> count' = 0
      BY <2>2, <2>4, UsersFinite, FS_RemoveElement, FS_EmptySet
    <2>6. started
      BY <2>2 DEF ShareInv, LoopNotCutShort
    <2> QED
      BY <1>0, <2>1, <2>2, <2>4, <2>5, <2>6
      DEF ShareInv, CountIsUsers, LoopNotCutShort, QuietWhenUnused, HasClient
  <1>3. CASE StopCapture(s) \/ Join(s)
    <2>1. Users' = Users /\ EverStarted' = EverStarted /\ UNCHANGED <<inst, started, count>>
      BY <1>3 DEF StopCapture, Join, Becomes, TypeOK, Users, EverStarted, classVars
    <2> QED
      BY <1>0, <1>3, <2>1, SameUsers DEF StopCapture, Join, Becomes, TypeOK
  <1> QED
    BY <1>1, <1>2, <1>3 DEF Destroy

LEMMA ShareStep == TypeOK /\ ShareInv /\ [Next]_vars => ShareInv'
  <1> SUFFICES ASSUME TypeOK, ShareInv, [Next]_vars PROVE ShareInv'
    OBVIOUS
  <1>1. CASE UNCHANGED <<inst, started, count, life>>
    BY <1>1 DEF ShareInv, HasClient, CountIsUsers, LoopNotCutShort, QuietWhenUnused, Users,
                EverStarted, Alive
  <1>2. CASE Alive /\ Produce
    BY <1>1, <1>2 DEF Produce, classVars, sourceVars
  <1>3. ASSUME Alive, NEW s \in Sources, Construct(s) \/ Destroy(s) PROVE ShareInv'
    BY <1>3, ConstructShare, DestroyShare
  <1>4. ASSUME NEW s \in Sources, Capture(s) PROVE ShareInv'
    BY <1>1, <1>4
    DEF Capture, LoopCheck, Enter, GetBuffer, ReleaseBuffer, More, Deliver, classVars, sourceVars
  <1>5. CASE Finished \/ UNCHANGED vars
    BY <1>1, <1>5 DEF Finished, vars, classVars, sourceVars
  <1> QED
    BY <1>2, <1>3, <1>4, <1>5 DEF Next

-----------------------------------------------------------------------------
(* The frames: a capture thread never collects more than 10 ms. *)

LEMMA CopyFits ==
  ASSUME TypeOK, ChunkInv, NEW s \in Sources
  PROVE  FramesToCopy(s) \in Nat /\ got[s] + FramesToCopy(s) \in 0..Needed
  BY AudioAssumption DEF ChunkInv, TypeOK, FramesToCopy, AtMost

\* What GetBuffer lends and ReleaseBuffer gives back is the first packet.
LEMMA LentPacket ==
  ASSUME TypeOK
  PROVE  packets # <<>> => Head(packets) \in Nat /\ Tail(packets) \in Seq(Nat)
  <1> SUFFICES ASSUME packets # <<>>
               PROVE  Head(packets) \in Nat /\ Tail(packets) \in Seq(Nat)
    OBVIOUS
  <1>1. packets \in Seq(Nat)
    BY DEF TypeOK
  <1> QED
    BY <1>1

LEMMA ConstructType ==
  ASSUME TypeOK, NEW s \in Sources, Construct(s)
  PROVE  TypeOK'
  <1> USE DEF TypeOK, Becomes, Goes, Lives, ThreadStates, engineVars, classVars,
              sourceVars, threadVars
  <1>1. CASE GetInstance(s)
    BY <1>1 DEF GetInstance, Instances
  <1>2. CASE StartStream(s)
    <2>1. count' = count \/ count' = count + 1
      BY <1>2 DEF StartStream
    <2>2. device' = device \/ device' = "running"
      BY <1>2 DEF StartStream, StartSucceeds, StartFails
    <2>3. \E to \in {"started", "threw"} : life' = [life EXCEPT ![s] = to]
      BY <1>2 DEF StartStream
    <2> QED
      BY <1>2, <2>1, <2>2, <2>3 DEF StartStream
  <1>3. CASE StartCapture(s)
    BY <1>3 DEF StartCapture
  <1> QED
    BY <1>1, <1>2, <1>3 DEF Construct

LEMMA DestroyType ==
  ASSUME TypeOK, ShareInv, Alive, NEW s \in Sources, Destroy(s)
  PROVE  TypeOK'
  <1> USE DEF TypeOK, Becomes, Goes, Lives, ThreadStates, engineVars, classVars,
              sourceVars, threadVars
  <1>1. CASE StopStream(s)
    BY <1>1 DEF StopStream, StopSucceeds, StopFails
  <1>2. CASE StopStreamCounts(s)
    <2>1. HasClient /\ s \in Users
      BY <1>2 DEF StopStreamCounts, ShareInv, Users
    <2>2. count # 0
      BY <2>1, UsersFinite DEF ShareInv, CountIsUsers
    <2> QED
      BY <1>2, <2>2 DEF StopStreamCounts
  <1>3. CASE StopCapture(s) \/ Join(s)
    BY <1>3 DEF StopCapture, Join
  <1> QED
    BY <1>1, <1>2, <1>3 DEF Destroy

\* What a capture thread does to its two counters.
LEMMA CounterType ==
  ASSUME NEW f \in [Sources -> Nat], NEW s \in Sources, NEW n \in Nat
  PROVE  [f EXCEPT ![s] = n] \in [Sources -> Nat] /\ f[s] + n \in Nat
  OBVIOUS

LEMMA CaptureType ==
  ASSUME TypeOK, ChunkInv, NEW s \in Sources, Capture(s)
  PROVE  TypeOK'
  <1> USE DEF TypeOK, Goes, ThreadStates, engineVars, classVars, sourceVars
  <1>1. CASE LoopCheck(s) \/ Enter(s) \/ More(s)
    <2>1. \E to \in ThreadStates : pc' = [pc EXCEPT ![s] = to]
      BY <1>1 DEF LoopCheck, Enter, More
    <2>2. pc' \in [Sources -> ThreadStates]
      BY <2>1
    <2>3. got' = got \/ got' = [got EXCEPT ![s] = 0]
      BY <1>1 DEF LoopCheck, Enter, More
    <2>4. UNCHANGED <<inst, started, count, device, packets, produced, holder, life, running,
                      avail, heard>>
      BY <1>1 DEF LoopCheck, Enter, More
    <2>5. got' \in [Sources -> Nat]
      <3>1. got \in [Sources -> Nat] /\ 0 \in Nat
        OBVIOUS
      <3>2. [got EXCEPT ![s] = 0] \in [Sources -> Nat]
        BY <3>1, CounterType
      <3> QED
        BY <2>3, <3>1, <3>2
    <2> QED
      BY <2>2, <2>4, <2>5
  <1>2. CASE GetBuffer(s)
    <2>1. \E to \in {"check", "more", "hold"} : pc' = [pc EXCEPT ![s] = to]
      BY <1>2 DEF GetBuffer
    <2>2. holder' = holder \/ holder' = s
      BY <1>2 DEF GetBuffer
    <2>3. avail' = avail \/ \E n \in Nat : avail' = [avail EXCEPT ![s] = n]
      BY <1>2, LentPacket DEF GetBuffer
    <2>4. avail' \in [Sources -> Nat]
      <3>1. avail \in [Sources -> Nat]
        OBVIOUS
      <3> QED
        BY <2>3, <3>1, CounterType
    <2>5. pc' \in [Sources -> ThreadStates]
      BY <2>1
    <2>6. UNCHANGED <<inst, started, count, device, packets, produced, life, running, got, heard>>
      BY <1>2 DEF GetBuffer
    <2> QED
      BY <2>2, <2>4, <2>5, <2>6
  <1>3. CASE ReleaseBuffer(s)
    <2>1. /\ packets' \in {packets, Tail(packets)} /\ holder' \in {holder, NoSource}
          /\ packets' = packets \/ packets # <<>>
      BY <1>3, AudioAssumption DEF ReleaseBuffer, GivesBack, ChunkInv
    <2>2. FramesToCopy(s) \in Nat /\ packets' \in Seq(Nat)
      BY <2>1, CopyFits, LentPacket
    <2>3. got' = got \/ got' = [got EXCEPT ![s] = @ + FramesToCopy(s)]
      BY <1>3 DEF ReleaseBuffer
    <2>4. got' \in [Sources -> Nat]
      <3>1. got[s] + FramesToCopy(s) \in Nat
        BY <2>2, CounterType
      <3> QED
        BY <2>3, <3>1, CounterType
    <2>5. pc' \in [Sources -> ThreadStates]
      BY <1>3 DEF ReleaseBuffer
    <2>6. UNCHANGED <<inst, started, count, device, produced, life, running, avail, heard>>
      BY <1>3 DEF ReleaseBuffer
    <2> QED
      BY <2>1, <2>2, <2>4, <2>5, <2>6
  <1>4. CASE Deliver(s)
    <2>1. heard' = heard \/ heard' = heard \cup {got[s]}
      BY <1>4 DEF Deliver
    <2>2. heard' \subseteq Nat
      <3>1. got[s] \in Nat
        OBVIOUS
      <3> QED
        BY <2>1, <3>1
    <2>3. pc' \in [Sources -> ThreadStates]
      BY <1>4 DEF Deliver
    <2>4. UNCHANGED <<inst, started, count, device, packets, produced, holder, life, running,
                      avail, got>>
      BY <1>4 DEF Deliver
    <2> QED
      BY <2>2, <2>3, <2>4
  <1> QED
    BY <1>1, <1>2, <1>3, <1>4 DEF Capture

LEMMA AudioTypeStep == TypeOK /\ ShareInv /\ ChunkInv /\ [Next]_vars => TypeOK'
  <1> SUFFICES ASSUME TypeOK, ShareInv, ChunkInv, [Next]_vars PROVE TypeOK'
    OBVIOUS
  <1>1. CASE Alive /\ Produce
    <2>1. \E n \in PacketSizes : packets' = Append(packets, n) /\ n \in Nat
      BY <1>1, AudioAssumption DEF Produce
    <2>2. packets' \in Seq(Nat)
      BY <2>1 DEF TypeOK
    <2> QED
      BY <1>1, <2>2, AudioAssumption DEF Produce, TypeOK, classVars, sourceVars, threadVars
  <1>2. ASSUME Alive, NEW s \in Sources, Construct(s) \/ Destroy(s) \/ Capture(s)
        PROVE  TypeOK'
    BY <1>2, ConstructType, DestroyType, CaptureType
  <1>3. CASE Finished \/ UNCHANGED vars
    BY <1>3 DEF Finished, vars, TypeOK, classVars, engineVars, sourceVars, threadVars
  <1> QED
    BY <1>1, <1>2, <1>3 DEF Next

LEMMA ChunkStep == TypeOK /\ ChunkInv /\ [Next]_vars => ChunkInv'
  <1> SUFFICES ASSUME TypeOK, ChunkInv, [Next]_vars PROVE ChunkInv'
    OBVIOUS
  <1> USE DEF ChunkInv, ChunksFit, GoneIsQuiet
  <1>1. CASE Alive /\ Produce
    <2>1. PICK n \in PacketSizes : packets' = Append(packets, n)
      BY <1>1 DEF Produce
    <2>2. packets' # <<>> /\ (packets # <<>> => Head(packets') = Head(packets))
      <3>1. packets \in Seq(Nat) /\ n \in Nat
        BY AudioAssumption DEF TypeOK
      <3>2. /\ Append(packets, n) # <<>>
            /\ packets # <<>> => Head(Append(packets, n)) = Head(packets)
        BY <3>1
      <3> QED
        BY <2>1, <3>2
    <2> QED
      BY <1>1, <2>2 DEF Produce, sourceVars, threadVars
  <1>2. ASSUME NEW s \in Sources, GetInstance(s) \/ StartStream(s) PROVE ChunkInv'
    <2>1. UNCHANGED <<packets, holder, pc, avail, got, heard>>
      BY <1>2 DEF GetInstance, StartStream, engineVars, threadVars
    <2>2. \A t \in Sources : life'[t] = "gone" => life[t] = "gone"
      BY <1>2 DEF GetInstance, StartStream, Becomes, TypeOK
    <2> QED
      BY <2>1, <2>2
  <1>3. ASSUME NEW s \in Sources, StartCapture(s) PROVE ChunkInv'
    <2>1. /\ UNCHANGED <<packets, holder, avail, got, heard>>
          /\ life[s] = "started" /\ life'[s] = "running"
          /\ pc[s] = "off"
          /\ \A t \in Sources \ {s} : life'[t] = life[t] /\ pc'[t] = pc[t]
      BY <1>3 DEF StartCapture, Becomes, Goes, TypeOK, engineVars
    <2>2. holder # s
      BY <2>1, AudioAssumption
    <2> QED
      BY <2>1, <2>2 DEF TypeOK
  <1>4. ASSUME NEW s \in Sources, StopStream(s) \/ StopStreamCounts(s) \/ StopCapture(s)
        PROVE  ChunkInv'
    <2>1. UNCHANGED <<packets, holder, pc, avail, got, heard>>
      BY <1>4 DEF StopStream, StopStreamCounts, StopCapture, engineVars, threadVars
    <2>2. \A t \in Sources : life'[t] = "gone" => life[t] = "gone"
      BY <1>4 DEF StopStream, StopStreamCounts, StopCapture, Becomes, TypeOK
    <2> QED
      BY <2>1, <2>2
  <1>5. ASSUME NEW s \in Sources, Join(s) PROVE ChunkInv'
    <2>1. UNCHANGED <<packets, holder, pc, avail, got, heard>> /\ pc[s] = "done"
      BY <1>5 DEF Join, engineVars, threadVars
    <2>2. \A t \in Sources \ {s} : life'[t] = life[t]
      BY <1>5 DEF Join, Becomes, TypeOK
    <2>3. holder # s
      BY <2>1, AudioAssumption
    <2> QED
      BY <2>1, <2>2, <2>3
  <1>6. ASSUME NEW s \in Sources,
               LoopCheck(s) \/ Enter(s) \/ GetBuffer(s) \/ More(s) \/ Deliver(s)
        PROVE  ChunkInv'
    <2>1. UNCHANGED <<packets, life>> /\ pc[s] \notin {"hold", "done"}
      BY <1>6 DEF LoopCheck, Enter, GetBuffer, More, Deliver, Goes, engineVars, sourceVars
    <2>2. holder # s
      BY <2>1, AudioAssumption
    <2>3. life[s] # "gone"
      BY <2>1
    <2>4. \A t \in Sources \ {s} : pc'[t] = pc[t]
      BY <1>6 DEF LoopCheck, Enter, GetBuffer, More, Deliver, Goes, TypeOK
    <2>5. /\ \A t \in Sources \ {s} : avail'[t] = avail[t]
          /\ \/ holder' = holder
             \/ /\ holder' = s /\ packets # <<>> /\ pc'[s] = "hold"
                /\ avail'[s] = Head(packets)
      BY <1>6 DEF LoopCheck, Enter, GetBuffer, More, Deliver, Goes, TypeOK, engineVars
    <2>6. got' = got \/ got' = [got EXCEPT ![s] = 0]
      BY <1>6 DEF LoopCheck, Enter, GetBuffer, More, Deliver
    <2>7. heard' = heard \/ (got[s] # 0 /\ heard' = heard \cup {got[s]})
      BY <1>6 DEF LoopCheck, Enter, GetBuffer, More, Deliver
    <2>8. \A t \in Sources : got'[t] \in 0..Needed
      <3>1. 0 \in 0..Needed /\ got \in [Sources -> Nat]
        BY AudioAssumption DEF TypeOK
      <3> QED
        BY <2>6, <3>1
    <2>9. heard' \subseteq 1..Needed
      <3>1. got[s] # 0 => got[s] \in 1..Needed
        BY AudioAssumption DEF TypeOK
      <3>2. heard \subseteq 1..Needed
        OBVIOUS
      <3>3. ASSUME NEW n \in heard' PROVE n \in 1..Needed
        <4>1. n \in heard \/ (got[s] # 0 /\ n = got[s])
          BY <2>7, <3>3
        <4> QED
          BY <3>1, <3>2, <4>1
      <3> QED
        BY <3>3
    <2> QED
      BY <2>1, <2>2, <2>3, <2>4, <2>5, <2>8, <2>9, AudioAssumption DEF TypeOK
  <1>7. ASSUME NEW s \in Sources, ReleaseBuffer(s) PROVE ChunkInv'
    <2>1. pc[s] = "hold" /\ UNCHANGED <<life, avail, heard>>
      BY <1>7 DEF ReleaseBuffer, Goes, sourceVars
    <2>2. \A t \in Sources : got'[t] \in 0..Needed
      BY <1>7, CopyFits DEF ReleaseBuffer, TypeOK
    <2>3. life[s] # "gone" /\ \A t \in Sources \ {s} : pc'[t] = pc[t]
      BY <1>7, <2>1 DEF ReleaseBuffer, Goes, TypeOK
    <2>4. holder' = NoSource \/ (holder' = holder /\ holder # s /\ packets' = packets)
      BY <1>7, AudioAssumption DEF ReleaseBuffer, GivesBack
    <2> QED
      BY <2>1, <2>2, <2>3, <2>4, AudioAssumption DEF TypeOK
  <1>8. CASE Finished \/ UNCHANGED vars
    BY <1>8 DEF Finished, vars, classVars, engineVars, sourceVars, threadVars
  <1> QED
    BY <1>1, <1>2, <1>3, <1>4, <1>5, <1>6, <1>7, <1>8 DEF Next, Construct, Destroy, Capture

-----------------------------------------------------------------------------
(* The theorems. *)

LEMMA AudioInvariant == Spec => [](TypeOK /\ ShareInv /\ ChunkInv)
  BY StartTruth, AudioTypeStep, ShareStep, ChunkStep, PTL DEF Spec

\* Every variable keeps its type; instance_count is never decremented below zero.
THEOREM AudioTypeCorrect == Spec => []TypeOK
  BY AudioInvariant, PTL

\* instance_count counts the sources that use the stream, for any number of sources that
\* come and go on different threads, if there is an audio client; without one it counts
\* every source that ever started but the first.
THEOREM CountIsUsersHolds == Spec => []CountIsUsers
  <1>1. ShareInv => CountIsUsers
    BY DEF ShareInv
  <1> QED
    BY <1>1, AudioInvariant, PTL

\* No StopStream takes the flag from a source that still uses the stream.
THEOREM LoopNotCutShortHolds == Spec => []LoopNotCutShort
  <1>1. ShareInv => LoopNotCutShort
    BY DEF ShareInv
  <1> QED
    BY <1>1, AudioInvariant, PTL

\* The flag is down when nobody uses the stream, unless Start failed.
THEOREM QuietWhenUnusedHolds == Spec => []QuietWhenUnused
  <1>1. ShareInv => QuietWhenUnused
    BY DEF ShareInv
  <1> QED
    BY <1>1, AudioInvariant, PTL

\* Sinks get at most 10 ms at a time, whatever packets the engine produces and
\* however the capture threads share them.
THEOREM ChunksFitHolds == Spec => []ChunksFit
  <1>1. ChunkInv => ChunksFit
    BY DEF ChunkInv
  <1> QED
    BY <1>1, AudioInvariant, PTL

\* A destroyed source leaves no thread behind and holds no packet.
THEOREM GoneIsQuietHolds == Spec => []GoneIsQuiet
  <1>1. ChunkInv => GoneIsQuiet
    BY DEF ChunkInv
  <1> QED
    BY <1>1, AudioInvariant, PTL
=============================================================================
