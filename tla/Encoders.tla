------------------------------ MODULE Encoders ------------------------------
(***************************************************************************)
(* Class FFmpegSystem, which initializes the FFmpeg libraries for the      *)
(* process, and the Encoders that each hold an FFmpegInitializer: when     *)
(* they are created and destroyed on several threads, opened, used,        *)
(* closed, and opened again after a failure.                               *)
(*                                                                         *)
(* Initialize and Uninitialize run under initMutex; everything else of an  *)
(* encoder belongs to the thread that uses it.  The codecs are external.   *)
(***************************************************************************)
EXTENDS Integers

CONSTANTS
  FrameEncoders,  \* the objects of class FrameEncoder
  AudioEncoders,  \* the objects of class AudioEncoder
  Delay,          \* the frames a codec keeps before the first packet
  MaxOpens        \* bound: the calls of Open per encoder that go to FFmpeg

ASSUME EncoderAssumption ==
  /\ FrameEncoders \cap AudioEncoders = {}
  /\ Delay \in Nat /\ MaxOpens \in Nat

Encoders == FrameEncoders \cup AudioEncoders

VARIABLES
  refCount,       \* FFmpegSystem::refCount
  isInitialized,  \* FFmpegSystem::isInitialized
  life,           \* every encoder
  found,          \* the encoders whose FFmpegInitializer found the libraries initialized
  codecContext,   \* "null", "allocated", or "opened" by avcodec_open2
  isOpen,         \* isOpen
  pending,        \* external: the frames a codec has accepted and not yet given a packet for
  opens,          \* the calls of Open so far
  live            \* history: the contexts of an encoder that were allocated and not freed

systemVars == <<refCount, isInitialized, found>>
codecVars == <<codecContext, isOpen, pending, opens, live>>
vars == <<systemVars, life, codecVars>>

Init ==
  /\ refCount = 0 /\ isInitialized = FALSE /\ found = {}
  /\ life = [e \in Encoders |-> "new"]
  /\ codecContext = [e \in Encoders |-> "null"] /\ isOpen = [e \in Encoders |-> FALSE]
  /\ pending = [e \in Encoders |-> 0] /\ opens = [e \in Encoders |-> 0]
  /\ live = [e \in Encoders |-> 0]

Becomes(e, from, to) == life[e] = from /\ life' = [life EXCEPT ![e] = to]
-----------------------------------------------------------------------------
(* FFmpegSystem. *)

Initialize ==
  /\ refCount' = refCount + 1
  /\ isInitialized' = (isInitialized \/ refCount = 0)

\* Mutant: the count is compared after it has changed.
UninitializeLater ==
  /\ refCount' = refCount + 1
  /\ isInitialized' = (isInitialized /\ refCount' # 3)

\* fetch_sub(-1) adds one as well.
Uninitialize ==
  /\ refCount' = refCount + 1
  /\ isInitialized' = (isInitialized /\ refCount # 1)
-----------------------------------------------------------------------------
(* Encoder. *)

Construct(e) ==
  /\ Becomes(e, "new", "alive")
  /\ Initialize
  /\ found' = IF isInitialized' THEN found \cup {e} ELSE found
  /\ UNCHANGED codecVars

\* Mutant: the flag stays.
FreesContext(e) ==
  /\ codecContext' = [codecContext EXCEPT ![e] = "null"]
  /\ live' = [live EXCEPT ![e] = IF codecContext[e] = "null" THEN @ ELSE @ - 1]
  /\ pending' = [pending EXCEPT ![e] = 0]
  /\ UNCHANGED <<isOpen, opens>>

\* Close: the frames the codec still had are lost.
Closes(e) ==
  /\ codecContext' = [codecContext EXCEPT ![e] = "null"]
  /\ live' = [live EXCEPT ![e] = IF codecContext[e] = "null" THEN @ ELSE @ - 1]
  /\ isOpen' = [isOpen EXCEPT ![e] = @ /\ codecContext[e] = "null"]
  /\ pending' = [pending EXCEPT ![e] = 0]
  /\ UNCHANGED opens

Close(e) == life[e] = "alive" /\ Closes(e) /\ UNCHANGED <<systemVars, life>>

\* Both destructors call Close; the FFmpegInitializer goes last.
Destroy(e) ==
  /\ Becomes(e, "alive", "gone")
  /\ Closes(e)
  /\ Uninitialize
  /\ UNCHANGED found

CallsOpen(e) ==
  /\ life[e] = "alive" /\ ~isOpen[e]
  /\ opens[e] < MaxOpens /\ opens' = [opens EXCEPT ![e] = @ + 1]

\* avcodec_alloc_context3 overwrites the pointer, with null if it fails.
Allocates(e, context) ==
  /\ codecContext' = [codecContext EXCEPT ![e] = context]
  /\ live' = [live EXCEPT ![e] = IF context = "null" THEN @ ELSE @ + 1]

Open(e) ==
  /\ CallsOpen(e)
  /\ Allocates(e, "opened")
  /\ isOpen' = [isOpen EXCEPT ![e] = TRUE]
  /\ UNCHANGED <<systemVars, life, pending>>

\* The codec is not found, or there is no memory for a context.
OpenFailsEarly(e) ==
  /\ CallsOpen(e)
  /\ UNCHANGED <<codecContext, live>> \/ Allocates(e, "null")
  /\ UNCHANGED <<systemVars, life, isOpen, pending>>

\* Mutant: FrameEncoder does not free the context either.
KeepsContext(e) == TRUE

\* avcodec_open2 fails.  FrameEncoder frees the context, AudioEncoder keeps it.
LeavesContext(e) == e \in AudioEncoders

OpenFails(e) ==
  /\ CallsOpen(e)
  /\ IF LeavesContext(e)
     THEN Allocates(e, "allocated")
     ELSE codecContext' = [codecContext EXCEPT ![e] = "null"] /\ UNCHANGED live
  /\ UNCHANGED <<systemVars, life, isOpen, pending>>

\* A codec that keeps more than Delay frames has a packet.
HasPacket(n) == n > Delay

\* Mutant: no packet is asked for.
EncodeOnly(e) ==
  /\ life[e] = "alive" /\ isOpen[e]
  /\ pending' = [pending EXCEPT ![e] = @ + 1]
  /\ UNCHANGED <<systemVars, life, codecContext, isOpen, opens, live>>

\* EncodeFrame: avcodec_send_frame fails, or takes the frame; avcodec_receive_packet then
\* gives a packet or fails, either of which ends a frame, or needs more frames.
EncodeFrame(e) ==
  /\ life[e] = "alive" /\ isOpen[e]
  /\ pending' = [pending EXCEPT ![e] = IF HasPacket(@ + 1) THEN @ ELSE @ + 1]
  /\ UNCHANGED <<systemVars, life, codecContext, isOpen, opens, live>>
-----------------------------------------------------------------------------
Finished == (\A e \in Encoders : life[e] = "gone") /\ UNCHANGED vars

Next ==
  \/ \E e \in Encoders :
       \/ Construct(e) \/ Destroy(e) \/ Close(e)
       \/ Open(e) \/ OpenFailsEarly(e) \/ OpenFails(e) \/ EncodeFrame(e)
  \/ Finished

Spec == Init /\ [][Next]_vars
-----------------------------------------------------------------------------
(* Properties. *)

\* Every variable has its type.  A codec never has more frames than its delay, although
\* EncodeFrame asks for one packet at a time: it never has to refuse a frame.
TypeOK ==
  /\ refCount \in Nat /\ isInitialized \in BOOLEAN /\ found \subseteq Encoders
  /\ life \in [Encoders -> {"new", "alive", "gone"}]
  /\ codecContext \in [Encoders -> {"null", "allocated", "opened"}]
  /\ isOpen \in [Encoders -> BOOLEAN]
  /\ pending \in [Encoders -> 0..Delay]
  /\ opens \in [Encoders -> 0..MaxOpens] /\ live \in [Encoders -> Nat]

\* Although the count only ever goes up, no encoder loses the libraries while it lives, if
\* it found them initialized.
NotPulledAway == \A e \in found : life[e] = "alive" => isInitialized

\* EncodeFrame looks at isOpen alone: an encoder that is open has a context that
\* avcodec_open2 has opened, whatever was closed, reopened or failed before.
OpenHasContext == \A e \in Encoders : isOpen[e] => codecContext[e] = "opened"

\* FrameEncoder frees every context it allocates, on every path, and has one at most.
ContextsFreed ==
  \A e \in FrameEncoders : live[e] = IF codecContext[e] = "null" THEN 0 ELSE 1
-----------------------------------------------------------------------------
(* What comments of the source say, and the code does not do. *)

\* Encoder.cpp:9, "FFmpeg is automatically initialized via ffmpegInit member".
InitializedWhileUsed == \A e \in Encoders : life[e] = "alive" => isInitialized
=============================================================================
