--------------------------- MODULE EncodersProofs ---------------------------
(***************************************************************************)
(* Theorems about Encoders, for any encoders and any delay of a codec.     *)
(***************************************************************************)
EXTENDS Encoders, TLAPS

Known(e) == life[e] # "new"

\* The count is never too low: it is at least two once two encoders were created or one was
\* destroyed.  So it is one only while the first encoder is alone.
CountInv ==
  /\ \A e \in Encoders : Known(e) => refCount >= 1
  /\ \A e, f \in Encoders : e # f /\ Known(e) /\ Known(f) => refCount >= 2
  /\ \A e \in Encoders : life[e] = "gone" => refCount >= 2
  /\ \A e \in found : Known(e)

\* Close frees what was allocated.  A FrameEncoder has a context only while it is open, so
\* that Open never overwrites one.
LiveInv ==
  /\ \A e \in Encoders : codecContext[e] # "null" => live[e] >= 1
  /\ \A e \in FrameEncoders : codecContext[e] # "null" => isOpen[e]

EncoderInv ==
  TypeOK /\ CountInv /\ NotPulledAway /\ LiveInv /\ OpenHasContext /\ ContextsFreed

LEMMA EncoderStart == Init => EncoderInv
  <1> SUFFICES ASSUME Init PROVE EncoderInv
    OBVIOUS
  <1>1. TypeOK
    <2>1. 0 \in 0..Delay /\ 0 \in 0..MaxOpens
      BY EncoderAssumption
    <2> QED
      BY <2>1 DEF Init, TypeOK
  <1>2. CountInv /\ NotPulledAway
    BY DEF Init, CountInv, Known, NotPulledAway
  <1>3. LiveInv /\ OpenHasContext /\ ContextsFreed
    BY DEF Init, LiveInv, OpenHasContext, ContextsFreed, Encoders
  <1> QED
    BY <1>1, <1>2, <1>3 DEF EncoderInv

-----------------------------------------------------------------------------
(* The libraries. *)

LEMMA ConstructStep ==
  ASSUME TypeOK, CountInv, NotPulledAway, NEW e \in Encoders, Construct(e)
  PROVE  CountInv' /\ NotPulledAway' /\ refCount' \in Nat /\ isInitialized' \in BOOLEAN
  <1>1. /\ refCount \in Nat /\ refCount' = refCount + 1
        /\ isInitialized' = (isInitialized \/ refCount = 0)
        /\ found' = IF isInitialized' THEN found \cup {e} ELSE found
    BY DEF Construct, Initialize, TypeOK
  <1>2. life[e] = "new" /\ life'[e] = "alive" /\ \A f \in Encoders \ {e} : life'[f] = life[f]
    BY DEF Construct, Becomes, TypeOK
  <1>3. CountInv'
    <2>1. \A f \in found' : life'[f] # "new"
      BY <1>1, <1>2 DEF CountInv, Known, TypeOK
    <2>2. \A f \in Encoders : f = e \/ life'[f] = life[f]
      BY <1>2
    <2> QED
      BY <1>1, <1>2, <2>1, <2>2 DEF CountInv, Known
  <1>4. NotPulledAway'
    <2> SUFFICES ASSUME NEW f \in found', life'[f] = "alive" PROVE isInitialized'
      BY DEF NotPulledAway
    <2>1. CASE f = e
      <3>1. e \notin found
        BY <1>2 DEF CountInv, Known
      <3> QED
        BY <1>1, <2>1, <3>1
    <2>2. CASE f # e
      <3>1. f \in found /\ f \in Encoders
        BY <1>1, <2>2 DEF TypeOK
      <3>2. isInitialized
        BY <1>2, <2>2, <3>1 DEF NotPulledAway
      <3> QED
        BY <1>1, <3>2
    <2> QED
      BY <2>1, <2>2
  <1>5. isInitialized' \in BOOLEAN
    BY <1>1
  <1> QED
    BY <1>1, <1>3, <1>4, <1>5

\* The encoder that takes the libraries down is the only one there ever was.
LEMMA DestroyStep ==
  ASSUME TypeOK, CountInv, NotPulledAway, NEW e \in Encoders, Destroy(e)
  PROVE  CountInv' /\ NotPulledAway' /\ refCount' \in Nat /\ isInitialized' \in BOOLEAN
  <1>1. /\ refCount \in Nat /\ refCount' = refCount + 1
        /\ isInitialized' = (isInitialized /\ refCount # 1) /\ found' = found
    BY DEF Destroy, Uninitialize, TypeOK
  <1>2. life[e] = "alive" /\ life'[e] = "gone" /\ \A f \in Encoders \ {e} : life'[f] = life[f]
    BY DEF Destroy, Becomes, TypeOK
  <1>3. refCount >= 1
    BY <1>2 DEF CountInv, Known
  <1>4. CountInv'
    <2>1. \A f \in found' : life'[f] # "new"
      BY <1>1, <1>2 DEF CountInv, Known, TypeOK
    <2>2. \A f \in Encoders : f = e \/ life'[f] = life[f]
      BY <1>2
    <2> QED
      BY <1>1, <1>2, <1>3, <2>1, <2>2 DEF CountInv, Known
  <1>5. NotPulledAway'
    <2> SUFFICES ASSUME NEW f \in found, life'[f] = "alive" PROVE isInitialized'
      BY <1>1 DEF NotPulledAway
    <2>1. f \in Encoders /\ f # e /\ life[f] = "alive"
      BY <1>2 DEF TypeOK
    <2>2. refCount # 1
      BY <1>1, <1>2, <2>1 DEF CountInv, Known
    <2> QED
      BY <1>1, <2>1, <2>2 DEF NotPulledAway
  <1>6. isInitialized' \in BOOLEAN
    BY <1>1
  <1> QED
    BY <1>1, <1>4, <1>5, <1>6

LEMMA OthersStep ==
  ASSUME TypeOK, CountInv, NotPulledAway, UNCHANGED <<systemVars, life>>
  PROVE  CountInv' /\ NotPulledAway' /\ refCount' \in Nat /\ isInitialized' \in BOOLEAN
  BY DEF TypeOK, CountInv, Known, NotPulledAway, systemVars

-----------------------------------------------------------------------------
(* The contexts. *)

\* A step of one encoder that leaves its context, flag and count consistent.
LEMMA ContextStep ==
  ASSUME TypeOK, LiveInv, OpenHasContext, ContextsFreed, NEW e \in Encoders,
         NEW c \in {"null", "allocated", "opened"}, NEW b \in BOOLEAN, NEW n \in Nat,
         b => c = "opened", c # "null" => n >= 1,
         e \in FrameEncoders /\ c # "null" => b,
         e \in FrameEncoders => n = IF c = "null" THEN 0 ELSE 1,
         codecContext' = [codecContext EXCEPT ![e] = c],
         isOpen' = [isOpen EXCEPT ![e] = b],
         live' = [live EXCEPT ![e] = n]
  PROVE  /\ LiveInv' /\ OpenHasContext' /\ ContextsFreed'
         /\ codecContext' \in [Encoders -> {"null", "allocated", "opened"}]
         /\ isOpen' \in [Encoders -> BOOLEAN] /\ live' \in [Encoders -> Nat]
  <1>1. \A f \in FrameEncoders : f \in Encoders
    BY DEF Encoders
  <1>2. OpenHasContext'
    BY DEF TypeOK, OpenHasContext
  <1>3. ContextsFreed'
    BY <1>1 DEF TypeOK, ContextsFreed
  <1>4. LiveInv'
    BY <1>1 DEF TypeOK, LiveInv
  <1> QED
    BY <1>2, <1>3, <1>4 DEF TypeOK

CodecInv == LiveInv /\ OpenHasContext /\ ContextsFreed
CodecTypes ==
  /\ codecContext \in [Encoders -> {"null", "allocated", "opened"}]
  /\ isOpen \in [Encoders -> BOOLEAN] /\ live \in [Encoders -> Nat]
  /\ pending \in [Encoders -> 0..Delay] /\ opens \in [Encoders -> 0..MaxOpens]

LEMMA ClosesStep ==
  ASSUME TypeOK, CodecInv, NEW e \in Encoders, Closes(e)
  PROVE  CodecInv' /\ CodecTypes'
  <1> DEFINE n == IF codecContext[e] = "null" THEN live[e] ELSE live[e] - 1
             b == isOpen[e] /\ codecContext[e] = "null"
  <1>1. codecContext' = [codecContext EXCEPT ![e] = "null"] /\ live' = [live EXCEPT ![e] = n]
    BY DEF Closes
  <1>2. isOpen[e] => codecContext[e] = "opened"
    BY DEF CodecInv, OpenHasContext
  <1>3. isOpen' = [isOpen EXCEPT ![e] = b]
    BY DEF Closes
  <1>4. b = FALSE
    BY <1>2
  <1>5. n \in Nat
    BY DEF TypeOK, CodecInv, LiveInv
  <1>6. e \in FrameEncoders => n = 0
    BY DEF CodecInv, ContextsFreed
  <1> HIDE DEF n, b
  <1>7. /\ CodecInv'
        /\ codecContext' \in [Encoders -> {"null", "allocated", "opened"}]
        /\ isOpen' \in [Encoders -> BOOLEAN] /\ live' \in [Encoders -> Nat]
    BY <1>1, <1>3, <1>4, <1>5, <1>6, ContextStep DEF CodecInv
  <1>8. pending' \in [Encoders -> 0..Delay] /\ opens' \in [Encoders -> 0..MaxOpens]
    BY EncoderAssumption DEF Closes, TypeOK
  <1> QED
    BY <1>7, <1>8 DEF CodecTypes

LEMMA OpensStep ==
  ASSUME TypeOK, CodecInv, NEW e \in Encoders, Open(e) \/ OpenFailsEarly(e) \/ OpenFails(e)
  PROVE  CodecInv' /\ CodecTypes'
  <1>1. /\ isOpen[e] = FALSE /\ live[e] \in Nat
        /\ codecContext[e] \in {"null", "allocated", "opened"}
        /\ isOpen = [isOpen EXCEPT ![e] = FALSE] /\ live = [live EXCEPT ![e] = live[e]]
        /\ codecContext = [codecContext EXCEPT ![e] = codecContext[e]]
    BY DEF Open, OpenFailsEarly, OpenFails, CallsOpen, TypeOK
  <1>2. opens' \in [Encoders -> 0..MaxOpens] /\ pending' \in [Encoders -> 0..Delay]
    <2>1. /\ opens[e] < MaxOpens /\ opens' = [opens EXCEPT ![e] = @ + 1]
          /\ opens \in [Encoders -> 0..MaxOpens] /\ pending' = pending
      BY DEF Open, OpenFailsEarly, OpenFails, CallsOpen, TypeOK
    <2>2. opens[e] + 1 \in 0..MaxOpens
      BY <2>1, EncoderAssumption
    <2> QED
      BY <2>1, <2>2 DEF TypeOK
  <1>3. e \in FrameEncoders => codecContext[e] = "null" /\ live[e] = 0
    BY <1>1 DEF CodecInv, LiveInv, ContextsFreed
  <1>4. codecContext[e] # "null" => live[e] >= 1
    BY DEF CodecInv, LiveInv
  <1>5. \E c \in {"null", "allocated", "opened"}, b \in BOOLEAN, n \in Nat :
          /\ b => c = "opened"
          /\ c # "null" => n >= 1
          /\ e \in FrameEncoders /\ c # "null" => b
          /\ e \in FrameEncoders => n = IF c = "null" THEN 0 ELSE 1
          /\ codecContext' = [codecContext EXCEPT ![e] = c]
          /\ isOpen' = [isOpen EXCEPT ![e] = b]
          /\ live' = [live EXCEPT ![e] = n]
    <2> USE <1>1
    <2>1. CASE Open(e)
      <3>1. /\ codecContext' = [codecContext EXCEPT ![e] = "opened"]
            /\ isOpen' = [isOpen EXCEPT ![e] = TRUE]
            /\ live' = [live EXCEPT ![e] = live[e] + 1]
        BY <2>1 DEF Open, Allocates
      <3> WITNESS "opened" \in {"null", "allocated", "opened"}, TRUE \in BOOLEAN, live[e] + 1 \in Nat
      <3> QED
        BY <1>1, <1>3, <3>1
    <2>2. CASE OpenFailsEarly(e) /\ UNCHANGED <<codecContext, live>>
      <3>1. isOpen' = isOpen
        BY <2>2 DEF OpenFailsEarly
      <3> WITNESS codecContext[e] \in {"null", "allocated", "opened"}, FALSE \in BOOLEAN,
                  live[e] \in Nat
      <3> QED
        BY <1>1, <1>3, <1>4, <2>2, <3>1
    <2>3. CASE OpenFailsEarly(e) /\ Allocates(e, "null")
      <3>1. /\ codecContext' = [codecContext EXCEPT ![e] = "null"]
            /\ isOpen' = isOpen /\ live' = [live EXCEPT ![e] = live[e]]
        BY <2>3 DEF OpenFailsEarly, Allocates
      <3> WITNESS "null" \in {"null", "allocated", "opened"}, FALSE \in BOOLEAN, live[e] \in Nat
      <3> QED
        BY <1>1, <1>3, <3>1
    <2>4. CASE OpenFails(e) /\ e \in AudioEncoders
      <3>1. /\ codecContext' = [codecContext EXCEPT ![e] = "allocated"]
            /\ isOpen' = isOpen /\ live' = [live EXCEPT ![e] = live[e] + 1]
        BY <2>4 DEF OpenFails, LeavesContext, Allocates
      <3>2. e \notin FrameEncoders
        BY <2>4, EncoderAssumption
      <3> WITNESS "allocated" \in {"null", "allocated", "opened"}, FALSE \in BOOLEAN,
                  live[e] + 1 \in Nat
      <3> QED
        BY <1>1, <3>1, <3>2
    <2>5. CASE OpenFails(e) /\ e \notin AudioEncoders
      <3>1. /\ codecContext' = [codecContext EXCEPT ![e] = "null"]
            /\ isOpen' = isOpen /\ live' = live
        BY <2>5 DEF OpenFails, LeavesContext
      <3> WITNESS "null" \in {"null", "allocated", "opened"}, FALSE \in BOOLEAN, live[e] \in Nat
      <3> QED
        BY <1>1, <1>3, <3>1
    <2>6. OpenFailsEarly(e) => UNCHANGED <<codecContext, live>> \/ Allocates(e, "null")
      BY DEF OpenFailsEarly
    <2> QED
      BY <2>1, <2>2, <2>3, <2>4, <2>5, <2>6
  <1>6. /\ CodecInv'
        /\ codecContext' \in [Encoders -> {"null", "allocated", "opened"}]
        /\ isOpen' \in [Encoders -> BOOLEAN] /\ live' \in [Encoders -> Nat]
    BY <1>5, ContextStep DEF CodecInv
  <1> QED
    BY <1>2, <1>6 DEF CodecTypes

LEMMA EncodeStep ==
  ASSUME TypeOK, CodecInv, NEW e \in Encoders, EncodeFrame(e)
  PROVE  CodecInv' /\ CodecTypes'
  <1>1. UNCHANGED <<codecContext, isOpen, live, opens>>
    BY DEF EncodeFrame
  <1>2. pending' \in [Encoders -> 0..Delay]
    <2> DEFINE n == IF HasPacket(pending[e] + 1) THEN pending[e] ELSE pending[e] + 1
    <2>1. pending' = [pending EXCEPT ![e] = n] /\ pending \in [Encoders -> 0..Delay]
      BY DEF EncodeFrame, TypeOK
    <2>2. n \in 0..Delay
      BY <2>1, EncoderAssumption DEF HasPacket
    <2> HIDE DEF n
    <2> QED
      BY <2>1, <2>2
  <1> QED
    BY <1>1, <1>2 DEF CodecInv, LiveInv, OpenHasContext, ContextsFreed, CodecTypes, TypeOK

-----------------------------------------------------------------------------
LEMMA EncoderStep == EncoderInv /\ [Next]_vars => EncoderInv'
  <1> SUFFICES ASSUME EncoderInv, [Next]_vars PROVE EncoderInv'
    OBVIOUS
  <1>0. TypeOK /\ CountInv /\ NotPulledAway /\ CodecInv
    BY DEF EncoderInv, CodecInv
  <1>1. ASSUME CountInv', NotPulledAway', refCount' \in Nat, isInitialized' \in BOOLEAN,
               found' \subseteq Encoders, life' \in [Encoders -> {"new", "alive", "gone"}],
               CodecInv', CodecTypes'
        PROVE  EncoderInv'
    BY <1>1 DEF EncoderInv, CodecInv, CodecTypes, TypeOK
  <1>2. UNCHANGED codecVars => CodecInv' /\ CodecTypes'
    BY <1>0 DEF codecVars, CodecInv, LiveInv, OpenHasContext, ContextsFreed, CodecTypes, TypeOK
  <1>3. UNCHANGED <<systemVars, life>> =>
          found' \subseteq Encoders /\ life' \in [Encoders -> {"new", "alive", "gone"}]
    BY <1>0 DEF systemVars, TypeOK
  <1>4. ASSUME NEW e \in Encoders, Construct(e) PROVE EncoderInv'
    <2>1. found' \subseteq Encoders /\ life' \in [Encoders -> {"new", "alive", "gone"}]
      BY <1>0, <1>4 DEF Construct, Becomes, TypeOK
    <2> QED
      BY <1>0, <1>1, <1>2, <1>4, <2>1, ConstructStep DEF Construct
  <1>5. ASSUME NEW e \in Encoders, Destroy(e) PROVE EncoderInv'
    <2>1. found' \subseteq Encoders /\ life' \in [Encoders -> {"new", "alive", "gone"}]
      BY <1>0, <1>5 DEF Destroy, Becomes, TypeOK
    <2>2. Closes(e)
      BY <1>5 DEF Destroy
    <2> QED
      BY <1>0, <1>1, <1>5, <2>1, <2>2, DestroyStep, ClosesStep
  <1>6. ASSUME NEW e \in Encoders,
               Close(e) \/ Open(e) \/ OpenFailsEarly(e) \/ OpenFails(e) \/ EncodeFrame(e)
        PROVE  EncoderInv'
    <2>1. UNCHANGED <<systemVars, life>>
      BY <1>6 DEF Close, Open, OpenFailsEarly, OpenFails, EncodeFrame
    <2>2. CodecInv' /\ CodecTypes'
      BY <1>0, <1>6, ClosesStep, OpensStep, EncodeStep DEF Close
    <2> QED
      BY <1>0, <1>1, <1>3, <2>1, <2>2, OthersStep
  <1>7. CASE Finished \/ UNCHANGED vars
    <2>1. UNCHANGED <<systemVars, life>> /\ UNCHANGED codecVars
      BY <1>7 DEF Finished, vars
    <2> QED
      BY <1>0, <1>1, <1>2, <1>3, <2>1, OthersStep
  <1> QED
    BY <1>4, <1>5, <1>6, <1>7 DEF Next

LEMMA EncoderInvariant == Spec => []EncoderInv
  BY EncoderStart, EncoderStep, PTL DEF Spec

-----------------------------------------------------------------------------
(* The theorems. *)

\* Every variable keeps its type; no codec is given more frames than it can keep.
THEOREM EncoderTypeCorrect == Spec => []TypeOK
  BY EncoderInvariant, PTL DEF EncoderInv

\* The libraries stay initialized for every encoder that found them so, whichever encoders
\* are created and destroyed meanwhile.
THEOREM NotPulledAwayHolds == Spec => []NotPulledAway
  BY EncoderInvariant, PTL DEF EncoderInv

\* EncodeFrame never uses a context that is not open.
THEOREM OpenHasContextHolds == Spec => []OpenHasContext
  BY EncoderInvariant, PTL DEF EncoderInv

\* No FrameEncoder leaks a context, whatever fails.
THEOREM ContextsFreedHolds == Spec => []ContextsFreed
  BY EncoderInvariant, PTL DEF EncoderInv
=============================================================================
