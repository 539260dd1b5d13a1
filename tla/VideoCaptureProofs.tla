------------------------- MODULE VideoCaptureProofs -------------------------
(***************************************************************************)
(* Theorems about VideoCapture, for any number of sources, updates and     *)
(* faults.                                                                 *)
(***************************************************************************)
EXTENDS VideoCapture, TLAPS

\* The places of a thread between AcquireNextFrame and ReleaseFrame.
Holding == {"texture", "copy", "convert", "unmap", "release"}

\* The duplication has lent its frame to the thread between the two calls.  This is
\* what makes ContextExclusive inductive.
HolderInv == \A s \in Sources : pc[s] \in Holding <=> holder = s

VideoInv == TypeOK /\ HolderInv /\ GoneIsQuiet

LEMMA VideoStart == Init => VideoInv
  BY VideoAssumption
  DEF Init, VideoInv, TypeOK, HolderInv, GoneIsQuiet, Holding, Lives, ThreadStates, Images

-----------------------------------------------------------------------------
(* Steps of one source. *)

\* A call that fails leaves no image behind, and drops one it had.
LEMMA FailsType ==
  ASSUME TypeOK, NEW s \in Sources, Fails(s)
  PROVE  /\ frame' \in [Sources -> Images \cup {0}]
         /\ faults' \in 0..MaxFaults /\ dropped' \subseteq Images
  <1>1. frame[s] \in Images \cup {0}
    BY DEF TypeOK
  <1>2. faults' \in 0..MaxFaults
    BY VideoAssumption DEF TypeOK, Fails
  <1> QED
    BY <1>1, <1>2 DEF TypeOK, Fails

LEMMA SourceType ==
  ASSUME TypeOK, NEW s \in Sources, Construct(s) \/ StopCapture(s) \/ Join(s) \/ Capture(s)
  PROVE  TypeOK'
  <1> USE DEF TypeOK, sourceVars, threadVars, deviceVars, faultVars
  <1>1. CASE Construct(s) \/ StopCapture(s) \/ Join(s)
    <2>1. \E to \in Lives : life' = [life EXCEPT ![s] = to]
      BY <1>1 DEF Construct, StopCapture, Join, Becomes, Lives
    <2>2. \E b \in BOOLEAN : running' = [running EXCEPT ![s] = b] \/ UNCHANGED running
      BY <1>1 DEF Construct, StopCapture, Join
    <2>3. inst' \in {"none", "failed", "ready"} /\ capturer' \subseteq Sources
      BY <1>1 DEF Construct, GetInstance, StopCapture, Join
    <2>4. UNCHANGED <<frame, seen, holder, access, updates, taken, faults, dropped>>
      BY <1>1 DEF Construct, StopCapture, Join
    <2>5. /\ pc' \in [Sources -> ThreadStates]
          /\ \A t \in Sources : pc'[t] = "deliver" => pc[t] = "deliver"
      BY <1>1 DEF Construct, StopCapture, Join, Goes, ThreadStates
    <2> QED
      BY <1>1, <2>1, <2>2, <2>3, <2>4, <2>5 DEF Construct, StopCapture, Join
  <1>2. CASE Entry(s) \/ LoopCheck(s) \/ Unmap(s)
    BY <1>2 DEF Entry, LoopCheck, Unmap, Goes, ThreadStates
  <1>3. CASE AcquireFails(s) \/ GetTexture(s) \/ Copy(s) \/ Convert(s)
    <2>1. UNCHANGED <<frame, faultVars>> \/ Fails(s)
      BY <1>3 DEF AcquireFails, GetTexture, Copy, Convert
    <2>2. /\ frame' \in [Sources -> Images \cup {0}]
          /\ faults' \in 0..MaxFaults /\ dropped' \subseteq Images
      BY <2>1, FailsType
    <2>3. \E to \in ThreadStates \ {"deliver"} : pc' = [pc EXCEPT ![s] = to]
      BY <1>3 DEF AcquireFails, GetTexture, Copy, Convert, Goes, ThreadStates
    <2>4. pc' \in [Sources -> ThreadStates] /\ pc'[s] # "deliver"
      BY <2>3
    <2>5. \A t \in Sources \ {s} : pc'[t] = pc[t] /\ frame'[t] = frame[t]
      BY <2>1, <2>3 DEF Fails
    <2>6. UNCHANGED <<inst, capturer, life, running, seen, holder, access, updates, taken>>
      BY <1>3 DEF AcquireFails, GetTexture, Copy, Convert
    <2> QED
      BY <2>2, <2>4, <2>5, <2>6
  <1>4. CASE AcquireNextFrame(s)
    BY <1>4 DEF AcquireNextFrame, Goes, ThreadStates
  <1>5. CASE ReleaseFrame(s) \/ Deliver(s)
    <2>1. pc' \in [Sources -> ThreadStates]
      BY <1>5 DEF ReleaseFrame, Deliver, Goes, ThreadStates
    <2>2. pc'[s] = "deliver" => frame[s] # 0 /\ frame' = frame
      BY <1>5 DEF ReleaseFrame, Deliver, Goes
    <2>3. \A t \in Sources \ {s} : pc'[t] = pc[t] /\ frame'[t] = frame[t]
      BY <1>5 DEF ReleaseFrame, Deliver, Goes
    <2> QED
      BY <1>5, <2>1, <2>2, <2>3 DEF ReleaseFrame, Deliver
  <1> QED
    BY <1>1, <1>2, <1>3, <1>4, <1>5 DEF Capture

LEMMA SourceHolder ==
  ASSUME TypeOK, HolderInv, NEW s \in Sources,
         Construct(s) \/ StopCapture(s) \/ Join(s) \/ Capture(s)
  PROVE  HolderInv'
  <1> USE DEF HolderInv, Holding, sourceVars, threadVars, deviceVars
  <1>1. CASE StopCapture(s) \/ Join(s)
    BY <1>1 DEF StopCapture, Join
  <1>2. CASE \/ Construct(s) \/ Entry(s) \/ LoopCheck(s) \/ AcquireFails(s) \/ GetTexture(s)
             \/ Copy(s) \/ Convert(s) \/ Unmap(s) \/ Deliver(s)
    <2>1. holder' = holder
      BY <1>2 DEF Construct, Entry, LoopCheck, AcquireFails, GetTexture, Copy, Convert,
                  Unmap, Deliver
    <2>2. PICK to \in ThreadStates :
            /\ pc' = [pc EXCEPT ![s] = to]
            /\ pc[s] \in Holding <=> to \in Holding
      BY <1>2 DEF Construct, Entry, LoopCheck, AcquireFails, GetTexture, Copy, Convert,
                  Unmap, Deliver, Goes, ThreadStates
    <2> QED
      BY <2>1, <2>2 DEF TypeOK
  <1>3. CASE AcquireNextFrame(s)
    <2>1. holder = NoSource /\ holder' = s /\ pc' = [pc EXCEPT ![s] = "texture"]
      BY <1>3 DEF AcquireNextFrame, CanAcquire, Goes
    <2> QED
      BY <2>1, VideoAssumption DEF TypeOK
  <1>4. CASE ReleaseFrame(s)
    <2>1. holder = s /\ holder' = NoSource
      BY <1>4 DEF ReleaseFrame, Goes
    <2>2. pc'[s] \notin Holding /\ \A t \in Sources \ {s} : pc'[t] = pc[t]
      BY <1>4 DEF ReleaseFrame, Goes, TypeOK
    <2> QED
      BY <2>1, <2>2, VideoAssumption
  <1> QED
    BY <1>1, <1>2, <1>3, <1>4 DEF Capture

\* Only Join makes a source gone; a thread that is done takes no step.
LEMMA SourceGone ==
  ASSUME TypeOK, HolderInv, GoneIsQuiet, NEW s \in Sources,
         Construct(s) \/ StopCapture(s) \/ Join(s) \/ Capture(s)
  PROVE  \A t \in Sources : life'[t] = "gone" => pc'[t] = "done"
  <1> USE DEF GoneIsQuiet
  <1>1. CASE Construct(s) \/ StopCapture(s)
    <2>1. life'[s] # "gone" /\ \A t \in Sources \ {s} : life'[t] = life[t] /\ pc'[t] = pc[t]
      BY <1>1 DEF Construct, StopCapture, Becomes, Goes, TypeOK, threadVars
    <2> QED
      BY <2>1
  <1>2. CASE Join(s)
    <2>1. UNCHANGED pc /\ pc[s] = "done" /\ \A t \in Sources \ {s} : life'[t] = life[t]
      BY <1>2 DEF Join, Becomes, TypeOK, threadVars
    <2> QED
      BY <2>1
  <1>3. CASE Capture(s)
    <2>1. UNCHANGED life /\ pc[s] # "done" /\ \A t \in Sources \ {s} : pc'[t] = pc[t]
      BY <1>3 DEF Capture, Entry, LoopCheck, AcquireFails, AcquireNextFrame, GetTexture, Copy,
                  Convert, Unmap, ReleaseFrame, Deliver, Goes, TypeOK, sourceVars
    <2> QED
      BY <2>1
  <1> QED
    BY <1>1, <1>2, <1>3

LEMMA VideoStep == VideoInv /\ [Next]_vars => VideoInv'
  <1> SUFFICES ASSUME VideoInv, [Next]_vars PROVE VideoInv'
    OBVIOUS
  <1> USE DEF VideoInv
  <1>1. ASSUME NEW s \in Sources, Construct(s) \/ StopCapture(s) \/ Join(s) \/ Capture(s)
        PROVE  VideoInv'
    <2>1. TypeOK' /\ HolderInv'
      BY <1>1, SourceType, SourceHolder
    <2>2. \A t \in Sources : life'[t] = "gone" => pc'[t] = "done"
      BY <1>1, SourceGone
    <2>3. GoneIsQuiet'
      BY <2>1, <2>2 DEF GoneIsQuiet, HolderInv, Holding
    <2> QED
      BY <2>1, <2>3
  <1>2. CASE Update \/ LoseAccess \/ Finished \/ UNCHANGED vars
    <2>1. UNCHANGED <<inst, capturer, life, running, pc, frame, seen, holder, taken, faults,
                      dropped>>
      BY <1>2 DEF Update, LoseAccess, Finished, vars, sourceVars, threadVars, deviceVars,
                  faultVars
    <2>2. access' \in BOOLEAN
      BY <1>2 DEF Update, LoseAccess, Finished, vars, deviceVars, TypeOK
    <2>3. updates' \in Images
      <3>1. updates' = updates \/ (updates < MaxUpdates /\ updates' = updates + 1)
        BY <1>2 DEF Update, LoseAccess, Finished, vars, deviceVars
      <3> QED
        BY <3>1, VideoAssumption DEF TypeOK, Images
    <2>4. TypeOK'
      BY <2>1, <2>2, <2>3 DEF TypeOK
    <2> QED
      BY <2>1, <2>4 DEF HolderInv, GoneIsQuiet
  <1> QED
    BY <1>1, <1>2 DEF Next

LEMMA VideoInvariant == Spec => []VideoInv
  BY VideoStart, VideoStep, PTL DEF Spec

-----------------------------------------------------------------------------
(* The theorems. *)

\* Every variable keeps its type.
THEOREM VideoTypeCorrect == Spec => []TypeOK
  BY VideoInvariant, PTL DEF VideoInv

\* ScreenCapture needs no lock for its Direct3D context, for any number of
\* consumers: only the thread that has the frame is at a call of it.
THEOREM ContextExclusiveHolds == Spec => []ContextExclusive
  <1>1. VideoInv => ContextExclusive
    BY DEF VideoInv, HolderInv, Holding, ContextExclusive, UsesContext
  <1> QED
    BY <1>1, VideoInvariant, PTL

\* When the destructor of a source returns, its thread has ended and has given its
\* frame back.
THEOREM GoneIsQuietHolds == Spec => []GoneIsQuiet
  BY VideoInvariant, PTL DEF VideoInv
=============================================================================
