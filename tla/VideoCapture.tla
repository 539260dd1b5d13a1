---------------------------- MODULE VideoCapture ----------------------------
(***************************************************************************)
(* The video path: the VideoCaptureSources, one per consumer, each with a  *)
(* capture thread, and the one ScreenCapture they share, with one desktop  *)
(* duplication and one Direct3D context.                                   *)
(*                                                                         *)
(* Nothing in ScreenCapture::CaptureFrame takes a lock: what keeps two     *)
(* threads apart is that the duplication lends one frame at a time.        *)
(*                                                                         *)
(* The duplication and the desktop are external.  Pauses (pacing,          *)
(* back-off) take no step here; their lengths are in VideoPacing.          *)
(***************************************************************************)
EXTENDS Naturals

CONSTANTS
  Sources,     \* the VideoCaptureSources, one per consumer
  NoSource,    \* nobody holds the frame
  MaxUpdates,  \* bound: the images the desktop shows in a behavior
  MaxFaults    \* bound: the calls that fail for no reason the model has

ASSUME VideoAssumption ==
  /\ NoSource \notin Sources
  /\ MaxUpdates \in Nat \ {0} /\ MaxFaults \in Nat

VARIABLES
  inst,      \* ScreenCapture::instance, and whether it has a duplication
  capturer,  \* the sources whose m_screen_capture is not null
  life,      \* the constructor and destructor of every source
  running,   \* running_ of every source
  pc,        \* its capture thread
  frame,     \* the image its call of CaptureFrame is about to return, 0 for none
  seen,      \* the last image its sinks were given
  holder,    \* external: the source that acquired a frame and has not released it
  access,    \* external: the duplication is still valid
  updates,   \* external: the number of images the desktop has shown
  taken,     \* external: the last one that was acquired
  faults,    \* the number of calls that failed
  dropped    \* history: the images acquired by a CaptureFrame that then failed

sourceVars == <<capturer, life, running>>
threadVars == <<pc, frame, seen>>
deviceVars == <<holder, access, updates, taken>>
faultVars == <<faults, dropped>>
vars == <<inst, sourceVars, threadVars, deviceVars, faultVars>>

Images == 1..MaxUpdates
Lives == {"new", "running", "leaving", "gone"}
ThreadStates == {"off", "entry", "check", "acquire", "texture", "copy", "convert",
                 "unmap", "release", "deliver", "done"}

Init ==
  /\ inst = "none" /\ capturer = {}
  /\ life = [s \in Sources |-> "new"]
  /\ running = [s \in Sources |-> FALSE]
  /\ pc = [s \in Sources |-> "off"]
  /\ frame = [s \in Sources |-> 0]
  /\ seen = [s \in Sources |-> 0]
  /\ holder = NoSource /\ access = TRUE /\ updates = 1 /\ taken = 0
  /\ faults = 0 /\ dropped = {}

Becomes(s, from, to) == life[s] = from /\ life' = [life EXCEPT ![s] = to]
Goes(s, from, to) == pc[s] = from /\ pc' = [pc EXCEPT ![s] = to]
-----------------------------------------------------------------------------
(* Construction, on the io thread, and destruction. *)

\* GetInstance returns nullptr only to the caller whose Initialize failed; later
\* callers get the instance, without a duplication.
GetInstance(s) ==
  IF inst = "none"
  THEN /\ inst' \in {"failed", "ready"}
       /\ capturer' = IF inst' = "ready" THEN capturer \cup {s} ELSE capturer
  ELSE UNCHANGED inst /\ capturer' = capturer \cup {s}

Construct(s) ==
  /\ GetInstance(s)
  /\ Becomes(s, "new", "running")
  /\ running' = [running EXCEPT ![s] = TRUE]
  /\ Goes(s, "off", "entry")
  /\ UNCHANGED <<frame, seen, deviceVars, faultVars>>

\* StopCapture: the thread is told to stop, then joined.
StopCapture(s) ==
  /\ Becomes(s, "running", "leaving")
  /\ running' = [running EXCEPT ![s] = FALSE]
  /\ UNCHANGED <<inst, capturer, threadVars, deviceVars, faultVars>>

\* Mutant: the thread is not joined.
JoinAtOnce(s) ==
  /\ Becomes(s, "leaving", "gone")
  /\ UNCHANGED <<inst, capturer, running, threadVars, deviceVars, faultVars>>

Join(s) ==
  /\ Becomes(s, "leaving", "gone")
  /\ pc[s] = "done"
  /\ UNCHANGED <<inst, capturer, running, threadVars, deviceVars, faultVars>>
-----------------------------------------------------------------------------
(* The capture thread: CaptureLoop, and CaptureFrame inside it. *)

Entry(s) ==
  /\ Goes(s, "entry", IF s \in capturer THEN "check" ELSE "done")
  /\ UNCHANGED <<inst, sourceVars, frame, seen, deviceVars, faultVars>>

\* Mutant: the loop does not look at running_.
LoopForever(s) ==
  /\ Goes(s, "check", "acquire")
  /\ UNCHANGED <<inst, sourceVars, frame, seen, deviceVars, faultVars>>

LoopCheck(s) ==
  /\ Goes(s, "check", IF running[s] THEN "acquire" ELSE "done")
  /\ UNCHANGED <<inst, sourceVars, frame, seen, deviceVars, faultVars>>

\* A call fails without a reason in the model; the frame of the call is lost.
Fails(s) ==
  /\ faults < MaxFaults /\ faults' = faults + 1
  /\ dropped' = dropped \cup ({frame[s]} \ {0})
  /\ frame' = [frame EXCEPT ![s] = 0]

\* AcquireNextFrame lends the desktop as it is now, with every update since the frame
\* before.  It waits for an update at most 33 ms.
CanAcquire == inst = "ready" /\ access /\ holder = NoSource /\ taken # updates

\* No duplication, nothing new, another thread holds a frame, or access was lost for
\* good: nobody makes a new duplication.
AcquireFails(s) ==
  /\ Goes(s, "acquire", "check")
  /\ (~CanAcquire /\ UNCHANGED <<frame, faultVars>>) \/ Fails(s)
  /\ UNCHANGED <<inst, sourceVars, seen, deviceVars>>

AcquireNextFrame(s) ==
  /\ Goes(s, "acquire", "texture")
  /\ CanAcquire
  /\ holder' = s /\ taken' = updates
  /\ frame' = [frame EXCEPT ![s] = updates]
  /\ UNCHANGED <<inst, sourceVars, seen, access, updates, faultVars>>

\* The texture of the frame (As) and the one to copy it to (CreateTexture2D).
GetTexture(s) ==
  /\ \/ Goes(s, "texture", "copy") /\ UNCHANGED <<frame, faultVars>>
     \/ Goes(s, "texture", "release") /\ Fails(s)
  /\ UNCHANGED <<inst, sourceVars, seen, deviceVars>>

\* Mutant: the failure path of Map forgets ReleaseFrame.
CopyAndForget(s) ==
  /\ \/ Goes(s, "copy", "convert") /\ UNCHANGED <<frame, faultVars>>
     \/ Goes(s, "copy", "check") /\ Fails(s)
  /\ UNCHANGED <<inst, sourceVars, seen, deviceVars>>

\* CopyResource and Map, on the shared context.
Copy(s) ==
  /\ \/ Goes(s, "copy", "convert") /\ UNCHANGED <<frame, faultVars>>
     \/ Goes(s, "copy", "release") /\ Fails(s)
  /\ UNCHANGED <<inst, sourceVars, seen, deviceVars>>

\* Mutant: the frame is released before the texture is unmapped.
ReleaseThenUnmap(s) ==
  /\ Goes(s, "convert", "unmap")
  /\ UNCHANGED <<frame, faultVars>> \/ Fails(s)
  /\ holder' = NoSource
  /\ UNCHANGED <<inst, sourceVars, seen, access, updates, taken>>

\* ARGBToI420, from the mapped texture to a new buffer.
Convert(s) ==
  /\ Goes(s, "convert", "unmap")
  /\ UNCHANGED <<frame, faultVars>> \/ Fails(s)
  /\ UNCHANGED <<inst, sourceVars, seen, deviceVars>>

\* Unmap, on the shared context.
Unmap(s) ==
  /\ Goes(s, "unmap", "release")
  /\ UNCHANGED <<inst, sourceVars, frame, seen, deviceVars, faultVars>>

\* Mutant: the loop does not look whether CaptureFrame returned an image.
ReleaseAndDeliver(s) ==
  /\ Goes(s, "release", "deliver")
  /\ holder' = NoSource
  /\ UNCHANGED <<inst, sourceVars, frame, seen, access, updates, taken, faultVars>>

\* ReleaseFrame, and what the loop makes of the result: only an image is delivered.
ReleaseFrame(s) ==
  /\ Goes(s, "release", IF frame[s] # 0 THEN "deliver" ELSE "check")
  /\ holder' = NoSource
  /\ UNCHANGED <<inst, sourceVars, frame, seen, access, updates, taken, faultVars>>

\* broadcaster_.OnFrame
Deliver(s) ==
  /\ Goes(s, "deliver", "check")
  /\ seen' = [seen EXCEPT ![s] = frame[s]]
  /\ frame' = [frame EXCEPT ![s] = 0]
  /\ UNCHANGED <<inst, sourceVars, deviceVars, faultVars>>
-----------------------------------------------------------------------------
(* The desktop (external). *)
Update ==
  /\ updates < MaxUpdates /\ updates' = updates + 1
  /\ UNCHANGED <<inst, sourceVars, threadVars, holder, access, taken, faultVars>>

\* DXGI_ERROR_ACCESS_LOST from now on: the display mode changed, or the desktop did.
LoseAccess ==
  /\ access /\ access' = FALSE
  /\ UNCHANGED <<inst, sourceVars, threadVars, holder, updates, taken, faultVars>>
-----------------------------------------------------------------------------
Capture(s) ==
  \/ Entry(s) \/ LoopCheck(s) \/ AcquireFails(s) \/ AcquireNextFrame(s)
  \/ GetTexture(s) \/ Copy(s) \/ Convert(s) \/ Unmap(s) \/ ReleaseFrame(s) \/ Deliver(s)

\* Every consumer has left.
Finished == (\A s \in Sources : life[s] = "gone") /\ UNCHANGED vars

Next ==
  \/ \E s \in Sources : Construct(s) \/ StopCapture(s) \/ Join(s) \/ Capture(s)
  \/ Update \/ LoseAccess \/ Finished

Spec == Init /\ [][Next]_vars

\* Capture threads run, and a join returns when the thread is done.
FairSpec ==
  Spec /\ \A s \in Sources : WF_vars(Capture(s)) /\ WF_vars(Join(s))
-----------------------------------------------------------------------------
(* Properties. *)

\* Every variable has its type, and a thread that delivers has an image: a call that
\* failed halfway returns none, and the sinks are not given what is not there.
TypeOK ==
  /\ inst \in {"none", "failed", "ready"} /\ capturer \subseteq Sources
  /\ life \in [Sources -> Lives] /\ running \in [Sources -> BOOLEAN]
  /\ pc \in [Sources -> ThreadStates]
  /\ frame \in [Sources -> Images \cup {0}] /\ seen \in [Sources -> Images \cup {0}]
  /\ holder \in Sources \cup {NoSource}
  /\ access \in BOOLEAN /\ updates \in Images /\ taken \in Images \cup {0}
  /\ faults \in 0..MaxFaults /\ dropped \subseteq Images
  /\ \A s \in Sources : pc[s] = "deliver" => frame[s] \in Images

\* The Direct3D immediate context is not thread-safe and m_context has no lock: never
\* are two capture threads at calls of it, on any path through CaptureFrame.
UsesContext(s) == pc[s] \in {"copy", "unmap"}
ContextExclusive ==
  \A s, t \in Sources : UsesContext(s) /\ UsesContext(t) => s = t

\* A source that is gone has no thread and no frame left.
GoneIsQuiet ==
  \A s \in Sources : life[s] = "gone" => pc[s] = "done" /\ holder # s

\* Destroying a source does not hang, whichever call of CaptureFrame it meets.
StopEnds == \A s \in Sources : life[s] = "leaving" ~> life[s] = "gone"

\* Capture goes on: while a source runs, an image of the desktop, or a later one,
\* reaches the sinks of some source, although the sources take frames from each other
\* and calls fail halfway.  Only a failed call after the acquisition loses it.
Streaming == inst = "ready" /\ access /\ \E s \in Sources : life[s] = "running" /\ s \in capturer
Shown(n) == \E m \in n..MaxUpdates : m \in dropped \/ \E s \in Sources : seen[s] = m
UpdateShown == \A n \in Images : updates >= n /\ Streaming ~> Shown(n) \/ ~Streaming
=============================================================================
