---------------------------- MODULE AudioCapture ----------------------------
(***************************************************************************)
(* The audio path: class AudioStreamCapture, one instance for the whole    *)
(* process, and the AudioCaptureSources that share it, one per consumer.   *)
(*                                                                         *)
(* A source is constructed on the io thread (SignalingClient::SendOffer)   *)
(* and destroyed on whichever thread drops the last reference to its       *)
(* track, while the capture thread of every other source runs its loop.    *)
(* started_mtx guards started_ and instance_count, except in CaptureAudio  *)
(* and in the first half of StopStream.                                    *)
(*                                                                         *)
(* The audio engine (IAudioClient, IAudioCaptureClient) is external: it    *)
(* fills a buffer with packets while it runs, and lends one packet at a    *)
(* time to whoever calls GetBuffer first; whoever calls ReleaseBuffer      *)
(* gives it back.                                                          *)
(***************************************************************************)
EXTENDS Naturals, Sequences, FiniteSets

CONSTANTS
  Sources,      \* the AudioCaptureSources, one per consumer
  NoSource,     \* nobody holds the packet
  Needed,       \* frames in 10 ms
  PacketSizes,  \* sizes the audio engine gives to its packets
  MaxPackets    \* bound: the packets the engine produces in a behavior

ASSUME AudioAssumption ==
  /\ IsFiniteSet(Sources) /\ NoSource \notin Sources
  /\ Needed \in Nat \ {0}
  /\ PacketSizes \subseteq Nat \ {0}
  /\ MaxPackets \in Nat

VARIABLES
  inst,      \* the instance: how far Initialize got
  started,   \* started_
  count,     \* instance_count
  device,    \* external: the engine is "stopped" or "running"
  packets,   \* external: the sizes of the packets that wait in its buffer
  produced,  \* external: the number of packets so far
  holder,    \* external: the source that called GetBuffer and not yet ReleaseBuffer
  life,      \* the constructor and destructor of every source
  running,   \* running_ of every source
  pc,        \* the capture thread of every source
  avail,     \* framesAvailable of its last GetBuffer
  got,       \* collectedFrames of its call of CaptureAudio
  heard      \* the sizes of the chunks that sinks were given

classVars == <<inst, started, count>>
engineVars == <<device, packets, produced, holder>>
sourceVars == <<life, running>>
threadVars == <<pc, avail, got, heard>>
vars == <<classVars, engineVars, sourceVars, threadVars>>

\* "none": GetInstance was never called.  Initialize failed before it had a
\* client, before the client was initialized, or before it had a capture client.
Instances == {"none", "noclient", "uninitialized", "nocapture", "ready"}
Lives == {"new", "made", "started", "running", "stopped", "leaving", "joining",
          "gone", "threw", "terminated"}
ThreadStates == {"off", "check", "enter", "get", "hold", "more", "deliver", "done"}

Init ==
  /\ inst = "none" /\ started = FALSE /\ count = 0
  /\ device = "stopped" /\ packets = <<>> /\ produced = 0 /\ holder = NoSource
  /\ life = [s \in Sources |-> "new"]
  /\ running = [s \in Sources |-> FALSE]
  /\ pc = [s \in Sources |-> "off"]
  /\ avail = [s \in Sources |-> 0] /\ got = [s \in Sources |-> 0]
  /\ heard = {}

Becomes(s, from, to) == life[s] = from /\ life' = [life EXCEPT ![s] = to]
Goes(s, from, to) == pc[s] = from /\ pc' = [pc EXCEPT ![s] = to]
-----------------------------------------------------------------------------
(* Construction, on the io thread: one source at a time. *)
Constructing == \E s \in Sources : life[s] \in {"made", "started"}

\* GetInstance.  The call that runs Initialize returns nullptr if it fails, and
\* StartCapture then throws; every later call returns the instance as it is.
GetInstance(s) ==
  /\ ~Constructing
  /\ IF inst = "none"
     THEN /\ inst' \in Instances \ {"none"}
          /\ Becomes(s, "new", IF inst' = "ready" THEN "made" ELSE "threw")
     ELSE Becomes(s, "new", "made") /\ UNCHANGED inst
  /\ UNCHANGED <<started, count, engineVars, running, threadVars>>

HasClient == inst # "noclient"

\* IAudioClient::Start and Stop may always fail, and do on a client that is not
\* initialized.
StartSucceeds == HasClient /\ inst # "uninitialized" /\ device' = "running"
StartFails == HasClient /\ UNCHANGED device
StopSucceeds == HasClient /\ inst # "uninitialized" /\ device' = "stopped"
StopFails == HasClient /\ UNCHANGED device

\* Mutant: instance_count is only incremented by the call that starts the device.
StartStreamCountsFirst(s) ==
  /\ started' = TRUE
  /\ \/ started /\ UNCHANGED <<count, device>> /\ Becomes(s, "made", "started")
     \/ ~started /\ ~HasClient /\ UNCHANGED <<count, device>> /\ Becomes(s, "made", "started")
     \/ ~started /\ StartSucceeds /\ count' = count + 1 /\ Becomes(s, "made", "started")
     \/ ~started /\ StartFails /\ UNCHANGED count /\ Becomes(s, "made", "threw")
  /\ UNCHANGED <<inst, packets, produced, holder, running, threadVars>>

\* StartStream, one critical section.  The flag is set before Start is tried.
StartStream(s) ==
  /\ started' = TRUE
  /\ \/ started /\ count' = count + 1 /\ UNCHANGED device /\ Becomes(s, "made", "started")
     \/ ~started /\ ~HasClient /\ UNCHANGED <<count, device>> /\ Becomes(s, "made", "started")
     \/ ~started /\ StartSucceeds /\ count' = count + 1 /\ Becomes(s, "made", "started")
     \/ ~started /\ StartFails /\ UNCHANGED count /\ Becomes(s, "made", "threw")
  /\ UNCHANGED <<inst, packets, produced, holder, running, threadVars>>

\* CaptureSource::StartCapture
StartCapture(s) ==
  /\ Becomes(s, "started", "running")
  /\ running' = [running EXCEPT ![s] = TRUE]
  /\ Goes(s, "off", "check")
  /\ UNCHANGED <<classVars, engineVars, avail, got, heard>>
-----------------------------------------------------------------------------
(* Destruction. *)

\* StopStream before it takes the lock.  What it throws when Stop fails leaves a
\* destructor, and the program with it.
StopStream(s) ==
  /\ \/ ~HasClient /\ UNCHANGED device /\ Becomes(s, "running", "leaving")
     \/ StopSucceeds /\ Becomes(s, "running", "stopped")
     \/ StopFails /\ Becomes(s, "running", "terminated")
  /\ UNCHANGED <<classVars, packets, produced, holder, running, threadVars>>

\* Mutants: every StopStream clears the flag; none does.
StopStreamClears(s) ==
  /\ Becomes(s, "stopped", "leaving")
  /\ count' = count - 1
  /\ started' = FALSE
  /\ UNCHANGED <<inst, engineVars, running, threadVars>>
StopStreamForgets(s) ==
  /\ Becomes(s, "stopped", "leaving")
  /\ count' = count - 1
  /\ UNCHANGED <<inst, started, engineVars, running, threadVars>>

StopStreamCounts(s) ==
  /\ Becomes(s, "stopped", "leaving")
  /\ count' = count - 1
  /\ started' = (started /\ count' # 0)
  /\ UNCHANGED <<inst, engineVars, running, threadVars>>

\* CaptureSource::StopCapture: the thread is told to stop, then joined.
StopCapture(s) ==
  /\ Becomes(s, "leaving", "joining")
  /\ running' = [running EXCEPT ![s] = FALSE]
  /\ UNCHANGED <<classVars, engineVars, threadVars>>

\* Mutant: the thread is not joined.
JoinAtOnce(s) ==
  /\ Becomes(s, "joining", "gone")
  /\ UNCHANGED <<classVars, engineVars, running, threadVars>>

Join(s) ==
  /\ Becomes(s, "joining", "gone")
  /\ pc[s] = "done"
  /\ UNCHANGED <<classVars, engineVars, running, threadVars>>
-----------------------------------------------------------------------------
(* The capture thread: CaptureLoop, and CaptureAudio inside it. *)

\* Mutant: the loop does not look at running_.
LoopCheckStarted(s) ==
  /\ Goes(s, "check", IF started THEN "enter" ELSE "done")
  /\ UNCHANGED <<classVars, engineVars, sourceVars, avail, got, heard>>

LoopCheck(s) ==
  /\ Goes(s, "check", IF running[s] /\ started THEN "enter" ELSE "done")
  /\ UNCHANGED <<classVars, engineVars, sourceVars, avail, got, heard>>

\* CaptureAudio up to the first GetNextPacketSize, which may fail: it throws, and the
\* loop goes on, if there is no capture client or the stream is not started.
Enter(s) ==
  /\ \/ Goes(s, "enter", "get") /\ inst = "ready" /\ started /\ packets # <<>>
     \/ Goes(s, "enter", "check")
  /\ got' = [got EXCEPT ![s] = 0]
  /\ UNCHANGED <<classVars, engineVars, sourceVars, avail, heard>>

\* GetBuffer fails while a packet is lent, or if the device is lost; it succeeds with
\* no frames if another thread has emptied the buffer.
GetBuffer(s) ==
  /\ \/ Goes(s, "get", "check") /\ UNCHANGED <<holder, avail>>
     \/ /\ holder = NoSource /\ Goes(s, "get", "hold")
        /\ holder' = IF packets = <<>> THEN NoSource ELSE s
        /\ avail' = [avail EXCEPT ![s] = IF packets = <<>> THEN 0 ELSE Head(packets)]
  /\ UNCHANGED <<classVars, device, packets, produced, sourceVars, got, heard>>

AtMost(a, b) == IF a < b THEN a ELSE b

\* Mutant: the whole packet is copied.
WholePacket(s) == avail[s]

\* What does not fit into the 10 ms is dropped with the packet.
FramesToCopy(s) == AtMost(avail[s], Needed - got[s])

\* The lent packet is given back: it is consumed, or offered once more if no frame of
\* it was read.
GivesBack(s) ==
  /\ holder' = NoSource
  /\ packets' = IF avail[s] = 0 THEN packets ELSE Tail(packets)

\* ReleaseBuffer(avail[s]) is about the packet that is lent, to whatever thread, and
\* its number of frames must be right, or 0.  It fails if none is lent, except that
\* ReleaseBuffer(0) may succeed; on an own packet only if the device is lost with it.
ReleaseBuffer(s) ==
  /\ \/ /\ Goes(s, "hold", "more") /\ got' = [got EXCEPT ![s] = @ + FramesToCopy(s)]
        /\ \/ holder # NoSource /\ avail[s] \in {0, Head(packets)} /\ GivesBack(s)
           \/ holder = NoSource /\ avail[s] = 0 /\ UNCHANGED <<holder, packets>>
     \/ /\ Goes(s, "hold", "check") /\ UNCHANGED got
        /\ IF holder = s THEN GivesBack(s) ELSE UNCHANGED <<holder, packets>>
  /\ UNCHANGED <<classVars, device, produced, sourceVars, avail, heard>>

\* The next GetNextPacketSize, which may fail, and the condition of the inner loop.
More(s) ==
  /\ \/ Goes(s, "more", "get") /\ packets # <<>> /\ got[s] < Needed
     \/ Goes(s, "more", "deliver")
  /\ UNCHANGED <<classVars, engineVars, sourceVars, avail, got, heard>>

Deliver(s) ==
  /\ Goes(s, "deliver", "check")
  /\ heard' = IF got[s] = 0 THEN heard ELSE heard \cup {got[s]}
  /\ UNCHANGED <<classVars, engineVars, sourceVars, avail, got>>
-----------------------------------------------------------------------------
(* The audio engine (external). *)
Produce ==
  /\ device = "running"
  /\ produced < MaxPackets
  /\ \E n \in PacketSizes : packets' = Append(packets, n)
  /\ produced' = produced + 1
  /\ UNCHANGED <<classVars, device, holder, sourceVars, threadVars>>

-----------------------------------------------------------------------------
Alive == \A s \in Sources : life[s] # "terminated"

\* Nothing is left to do once every source is gone; an exception that leaves a
\* destructor ends the process.
Finished ==
  /\ ~Alive \/ \A s \in Sources : life[s] \in {"gone", "threw"}
  /\ UNCHANGED vars

Construct(s) == GetInstance(s) \/ StartStream(s) \/ StartCapture(s)
Destroy(s) == StopStream(s) \/ StopStreamCounts(s) \/ StopCapture(s) \/ Join(s)
Capture(s) ==
  \/ LoopCheck(s) \/ Enter(s) \/ GetBuffer(s)
  \/ ReleaseBuffer(s) \/ More(s) \/ Deliver(s)

Next ==
  \/ Alive /\ Produce
  \/ \E s \in Sources : Alive /\ (Construct(s) \/ Destroy(s) \/ Capture(s))
  \/ Finished

Spec == Init /\ [][Next]_vars

\* Threads run: a destructor that has begun, and every capture thread.
FairSpec ==
  /\ Spec
  /\ \A s \in Sources :
       /\ WF_vars(Alive /\ (StopStreamCounts(s) \/ StopCapture(s) \/ Join(s)))
       /\ WF_vars(Alive /\ Capture(s))
-----------------------------------------------------------------------------
(* Properties. *)

\* Every variable has its type.
TypeOK ==
  /\ inst \in Instances
  /\ started \in BOOLEAN
  /\ count \in Nat
  /\ device \in {"stopped", "running"}
  /\ packets \in Seq(Nat)
  /\ produced \in 0..MaxPackets
  /\ holder \in Sources \cup {NoSource}
  /\ life \in [Sources -> Lives]
  /\ running \in [Sources -> BOOLEAN]
  /\ pc \in [Sources -> ThreadStates]
  /\ avail \in [Sources -> Nat] /\ got \in [Sources -> Nat]
  /\ heard \subseteq Nat

\* The sources between the end of StartStream and the end of StopStream.
Users == {s \in Sources : life[s] \in {"started", "running", "stopped"}}

\* Those that ever came through StartStream.
EverStarted ==
  Users \cup {s \in Sources : life[s] \in {"leaving", "joining", "gone"}}

\* instance_count is the number of users, although StartStream may throw and sources
\* come and go on different threads.  Without an audio client it is wrong: the source that
\* raises the flag is not counted, every other one is, and none is ever uncounted.
CountIsUsers ==
  Alive => IF HasClient THEN count = Cardinality(Users)
           ELSE count + (IF started THEN 1 ELSE 0) = Cardinality(EverStarted)

\* While a source uses the stream the flag is up, whoever else stops meanwhile:
\* its loop does not end early and CaptureAudio does not throw.
LoopNotCutShort == Users # {} => started

\* When the last source is gone the flag is down, so that the next one starts the
\* device again, unless Start failed before.
QuietWhenUnused ==
  Alive /\ HasClient /\ started => Users # {} \/ \E s \in Sources : life[s] = "threw"

\* Sinks are never given more than 10 ms at once, whatever the packet sizes.
ChunksFit == heard \subseteq 1..Needed

\* A source that is gone has no thread and no packet left.
GoneIsQuiet ==
  \A s \in Sources : life[s] = "gone" => pc[s] = "done" /\ holder # s

\* Destroying a source does not hang: its loop ends and the thread is joined.
StopEnds == \A s \in Sources : life[s] = "leaving" ~> life[s] = "gone" \/ ~Alive
-----------------------------------------------------------------------------
(* What comments of the source say, and the code does not do. *)

\* CaptureSource.h:355, "Add/Remove a sink that will receive the audio data from
\* the track": if Start never failed, the device runs for every source that has
\* started and not begun to stop.
DeviceRunsForAll ==
  (\A s \in Sources : life[s] # "threw") =>
    (\A s \in Sources : inst = "ready" /\ life[s] = "running" => device = "running")
=============================================================================
