# CaptureWindows in TLA+

CaptureWindows (`ScreenUDP`) streams the desktop and the sound of a Windows PC to
browsers over WebRTC. This directory holds TLA+ models of its concurrent parts,
TLC configurations that check them on small instances, and proofs, checked by
TLAPS, of the invariants that matter most. Every definition is translated from the
C++ sources; `PROJECT.json` names the lines behind each definition, and the mutated
definition that shows that a property can fail.

Contents: [inventory](#inventory) · [modules](#modules) · [runs](#runs-and-bounds) ·
[disagreements](#where-code-and-comments-disagree) · [fairness](#fairness) ·
[proofs](#what-is-proved) · [abstractions](#modelling-decisions) ·
[not modelled](#not-modelled) · [plan](#plan)

## Inventory

| Component | State | Operations | What makes it hard |
|---|---|---|---|
| `WebSocketClient` | `m_connectionState`, `m_MessagecurrentStatus` (one for all messages), `m_messageQueue` under `m_queueMutex`, `m_strand`, the Beast stream | `Connect`, `Send`, `DoSend`, `OnWrite`, `Read`, `Disconnect` | `Send` on any thread, handlers on the io thread, both status fields unguarded, the stream fails at any time |
| `SignalingClient` | `m_consumers`, `m_streamerId`; one `PeerConnection` per consumer | `HandleJSONMessage`, `SendOffer`, `HandleAnswer`, `ProcessIceCandidate`, observers `OnRenegotiationNeeded`, `OnSuccess`, `OnFailure`, `OnIceCandidate` | io thread and WebRTC's signaling thread interleave; consumers come, leave and come back during a negotiation; the server may be lost, and the client destroyed, during one |
| `AudioStreamCapture` | one instance for the process: `started_`, `instance_count`, the audio client | `GetInstance`, `StartStream`, `StopStream`, `CaptureAudio` | shared by every consumer's source; initialization and start may fail halfway; some accesses take the lock, some do not |
| `AudioCaptureSource` (and base `CaptureSource`) | `running_`, the capture thread | constructor, `StartCapture`, `CaptureLoop`, `StopCapture`, destructor | created on the io thread, destroyed on the thread that drops the last reference, joined with its own thread |
| `AudioCaptureTrack`, `AudioBroadcaster` | the set of sinks under a mutex, reference counts | `AddSink`, `RemoveSink`, `OnData` | sinks change while data is delivered |
| `VideoCaptureSource`, `VideoCaptureTrack` | frame time, failures, back-off | `CaptureLoop` | pacing and back-off arithmetic, stop during a sleep |
| `ScreenCapture` | one desktop duplication and one Direct3D context for the process | `GetInstance`, `CaptureFrame` | capture threads share both without a lock; each path must release the frame; access may be lost |
| `FFmpegSystem` | `refCount`, `isInitialized` | `Initialize`, `Uninitialize` | the count decides when the library is closed, and never goes down |
| `Encoder`, `FrameEncoder`, `AudioEncoder` | `codecContext`, `isOpen` | `Open`, `EncodeFrame`, `Close` | failures halfway; not used by `main` |
| `main` | - | connects, runs `ioc.run()`, exits | ends when the event loop has no work left |

**How they interact.** `main` calls `SignalingClient::Connect`, which connects the
`WebSocketClient` synchronously, and then becomes the io thread. A message of the
server travels: async read → `OnMessage` → `HandleJSONMessage`. "subscribe" makes a
peer connection, with a video and an audio track; constructing a track starts its
source, hence a capture thread. WebRTC calls back on its signaling thread; the
observers there create offers, set the local description, and call `SendToPeer`,
hence `WebSocketClient::Send`. "consumer-disconnected" erases the map's reference;
with the last reference the connection, its tracks and their sources are destroyed,
which stops and joins the capture threads. All audio sources share one
`AudioStreamCapture`; all video sources one `ScreenCapture`.

**What must hold.** *WebSocketClient*: no two outstanding writes; messages delivered in
order, at most once; a queued message is sent or the connection is lost; each call of `Send`
ends once, as its message did; the event loop lives as long as the connection and no longer. *Signaling*:
no need for negotiation is lost; replies find what they reply to; a consumer that stays
is served; capture for one that left, or when the server is lost, ends; the client outlives
the calls of its observers. *Audio*: the count and the flag agree with
the sources in use; no sink gets too much at once; destruction neither hangs nor leaves
a thread behind. *Video*: the context is used by one thread at a time; images go on arriving;
pauses are bounded from both sides. *Encoders*: what is open has a context; contexts are
freed; the libraries stay for those who use them. The hazards behind these, each at its line, are in `PROJECT.json`.

## Modules

| Module | What it is |
|---|---|
| `WebSocketClient` | the signaling connection, the threads that call `Send`, the io thread, `Disconnect`; the Beast stream and the peer are external |
| `Outbox` | abstract: what the rest of the program may rely on, a stop-and-wait channel |
| `WebSocketClientProofs` | its theorems |
| `OutboxProofs` | the theorem that it implements `Outbox`, and what follows for a sender |
| `AudioCapture` | `AudioStreamCapture` and the `AudioCaptureSource`s; the Windows audio engine is external |
| `AudioCaptureProofs` | its theorems |
| `Signaling` | `SignalingClient`; WebRTC, the server and the consumers are external |
| `SignalingProofs` | its theorems, but for the next |
| `SignalingOrderProofs` | the theorem that replies find what they reply to |
| `VideoCapture` | `VideoCaptureSource`s and the `ScreenCapture` they share; the desktop and its duplication are external |
| `VideoCaptureProofs` | its theorems |
| `VideoPacing` | the clock of one `VideoCaptureSource::CaptureLoop`: pacing and back-off |
| `VideoPacingProofs` | its theorems |
| `Encoders` | `FFmpegSystem` and the encoders; the codecs are external |
| `EncodersProofs` | its theorems |
| `MC*` | constants for TLC |

### WebSocketClient

`connState`, `status` and `queue` are the three fields. `strand` is the list of handlers
ready on the strand; `writes`, `reading`, `closing` the operations outstanding on the
stream. A call of `Send` is `SendToPeer` (first look at the state), then `SendRefused` and
`TellRefused`, or `SendAccepted` (second look), `Push` (the critical section) and
`PostDoSend`: other threads may act in between. On the io thread a posted `DoSend` is
`RunDoSend` (the look under the lock) and `StartWrite` (the callback and the write); `OnWrite`
is `OnWritePop` up to the end of its critical section, `OnWriteSettles`, then `OnWriteFailed` or
`OnWriteSent`, and after the latter `SendNext`, the `DoSend` it calls. `Disconnect` is four
steps: `DisconnectBegins` (test), `DisconnectCloses` (set CLOSING), `DisconnectFlushes` (the
critical section), `DisconnectPosts`.

`Send`, `DoSend` and `OnWrite` assign `m_MessagecurrentStatus` and then read it again for the
argument of the callback (`WebSocketClient.cpp:66,114,150,163`); a refusal on another thread
assigns it without the lock (`:65`). So the assignment and the callback are two steps, and two
histories keep apart what happened from what was said: `outcome` is which report ended a
call, `told` the value its callback got. `EndsOnce`, `EndsTrue` and `Accounted` are about the first,
`ToldRight` says when the second agrees with it: whenever the client is connected at the callback.
After a read error it may not (`ws_cancelled`). `pushed` and `wire` are histories too: the
order in which messages entered the queue, and what the stream wrote.

`Outbox` promises: accepted messages are delivered in order; the next one only after the
sender of the previous one was called back for SENT; FAILED ends everything; CANCELLED is the
end only of messages never accepted; while the link is up a sender hears the end it is called back for,
afterwards it may hear anything. `ImplementsOutbox` instantiates it with
`accepted <- pushed`, `delivered <- wire`, `verdict <- outcome`, `heard <- Heard` (what `told` was at the end) and
`link <- Link` (the connection state). It holds as long as nobody calls `Disconnect` on an open
connection, and in this program nobody does: `~SignalingClient` runs after `ioc.run()`
has returned, and by `ReaderAlive` there is no open connection then.

### AudioCapture

`inst` says how far `Initialize` got when it failed; by `GetInstance`'s double check later
callers get such an instance as well. `life` is the progress of each source's constructor
and destructor, `pc` that of its capture thread inside `CaptureLoop` and `CaptureAudio`.
`StartStream` is one critical section; `StopStream` is two steps, since it stops the
device before it takes the lock. `Start`, `Stop` and every call of the capture client may fail. `packets` are the sizes in the engine's buffer, `holder`
is whoever has called `GetBuffer` and not yet `ReleaseBuffer`, `avail` is what `GetBuffer` said the
packet has: 0 if another thread has emptied the buffer, and then `ReleaseBuffer(0)` is about whatever packet is
lent, possibly to a third thread. `heard` collects the
sizes of the chunks that sinks were given. An exception that leaves `StopStream` leaves a
destructor, which ends the process (`terminated`).

### Signaling

Subscribing is `Subscribe` (up to the insertion into `m_consumers`) and then one `AddTrack` or
`AddTrackFails` per track; `adding` and `step` are where `SendOffer` is. The observers are
`OnRenegotiationNeeded` (inside the call that caused it), `OfferCreated` and
`SetLocalDescription` (the two halves of `OnSuccess`), `OfferFails` and `OnIceCandidate`.
A connection is a pair of a consumer ID and a number, so that a second subscription of an
ID is told apart from the first. `SendToPeer` is the channel `Outbox` promises, while the
connection is up. When it fails, `SendToPeer` drops what it is given, the read that is under way
may bring one message more, and `ioc.run()` returns (`LinkLost`, `ReadFails`). `main` then
releases the client (`MainReleases`); the observers of `CreateOffer` have references too (`ObserverRefers`),
and with the last one `~SignalingClient` destroys the connections one by one (`DestroyConnection`) and itself
(`DestroyClient`). The destructor of an observer releases the client in its body (`ReleaseClient`) and
its connection as a member, afterwards (`DropConnection`); if its reference is the last, the signaling
thread runs `~SignalingClient` in between. `doing` says where the signaling thread is in this. The comment at `SignalingClient.cpp:161` ("We're the answerer, so we
don't create offers") describes another program: the next lines create an offer, and so
does the model.

### VideoCapture and VideoPacing

`VideoCapture` has a step for each call of `CaptureFrame` that another capture thread can tell
apart: `AcquireNextFrame` (or `AcquireFails`), `GetTexture` (`As`, `CreateTexture2D`), `Copy`
(`CopyResource`, `Map`), `Convert`, `Unmap`, `ReleaseFrame`; each may fail, and then continues
on its own path to `ReleaseFrame`. `holder` is who was lent the frame. Images are numbered;
`frame` is the image a call is about to return and `seen` the last one each source delivered; what a
failed call returns is not delivered (part of `TypeOK`).
`life`, `running` and `pc` are as in `AudioCapture`. `CaptureLoop`'s pauses are no steps here.

They are in `VideoPacing`, which has one source and a clock in microseconds: `Pace` is the sleep
before a frame, `Frame` and `NoFrame` the two outcomes of `CaptureFrame`, each with the time it
took, `Stop` is another thread's `StopCapture`. `begun`, `shown`, `frames` and `stopped` are histories.

### Encoders

`Initialize` and `Uninitialize` are what their critical sections do to `refCount` and
`isInitialized`; an encoder's `Construct` and `Destroy` contain them, since `ffmpegInit` is a
member. `Open` has three outcomes (`Open`, `OpenFailsEarly`, `OpenFails`); `LeavesContext` is
where `AudioEncoder` and `FrameEncoder` differ. `live` counts the contexts of an encoder that
exist, `pending` the frames its codec has not given a packet for.

## Runs and bounds

| Run | Instance | Shows |
|---|---|---|
| `ws_program` | 3 messages, 2 threads, no `Disconnect` while running | `SingleWriter`, `Accounted`, `NoLostWakeup`, `ReaderAlive`, `EndsTrue`, refinement of `Outbox`, `Delivered`, `LossEndsRun` |
| `ws_disconnect` | 3 messages, one without a callback, 1 thread, `Disconnect` at any time | `Accounted`, `EndsOnce`, `ToldRight`, `LossEndsRun` also then |
| `audio` | 2 sources, 10 ms = 2 frames, packets of 1 and 3, at most 3 packets | `CountIsUsers`, `LoopNotCutShort`, `QuietWhenUnused`, `GoneIsQuiet`, `ChunksFit`, `StopEnds` |
| `signaling` | 1 consumer ID, 2 sessions, the connection may fail | `NeedIsOffered`, `ClientOutlivesCalls`, `RepliesFit`, `Served`, `CaptureEnds` |
| `video` | 2 sources, 3 images, 2 failing calls, access may be lost | `ContextExclusive`, `GoneIsQuiet`, `StopEnds`, `UpdateShown` |
| `pacing` | 33 333 µs as in the code, back-off 10, 20, 25 ms after 1 failure, 6 iterations | `AtMostTwoPerPeriod`, `NoBusyLoop`, `BackoffFollows`, `StopIsPrompt` |
| `encoders` | 2 frame encoders, 1 audio encoder, a codec delay of 1, 3 calls of `Open` each | `NotPulledAway`, `OpenHasContext`, `ContextsFreed` |
| `ws_two_writes`, `ws_sent`, `ws_cancelled`, `audio_silenced`, `ffmpeg` | as small as the counterexample allows | see the next section |

Every passing run also checks `TypeOK`, but for `ws_disconnect`. It contains what the code could get wrong by a
dropped test: `OnWrite` pops a message or none, never the front of an empty queue; an ICE candidate is added to
a connection, never to the missing entry of a consumer that left; `instance_count` does not go below zero; a failed
`CaptureFrame` is not delivered; the back-off keeps its limits; `pending` stays within the codec's delay.
`CountIsUsers` has two parts. With an audio client the count is the users. Without one (`Initialize` failed early) the
code miscounts, and the property says how: the source that raises the flag is not counted, all others are, and `StopStream`
returns before it uncounts any. The flag then stays up, which makes `QuietWhenUnused` a property of the first part only.
`Served` holds in every session of a consumer; it exempts connections on which a call of WebRTC `failed`.

The largest runs are `ws_disconnect` (666 248 distinct states), `audio` (507 688) and `signaling` (351 126); `video` has 50 090,
`ws_program` 32 786.

Why these bounds. Three messages: one in flight, one behind it, and one that is late or
refused; two calling threads suffice for a refusal on one while the other is between its
look at the state and its push, and a thread's later calls are further messages. Packets
of 1 and 3 frames around 2 give the cases shorter than, longer than and exactly filling
the 10 ms. Two sources are enough for every pair of places in which two threads may meet;
with three, the safety properties of `AudioCapture` were checked as well (packets of two thirds of 10 ms,
two of them, 3 632 673 states), and they are proved for any number. Two sessions
give a consumer that leaves and returns, with the connection failing before, between and
after; consumers interact only through the signaling
thread being busy, and two consumers with one session each were checked as well
while the connection is up (315 897 states). `MaxPackets`, `MaxSessions`, `MaxUpdates` and
`MaxFaults` bound the environment, not the code: an engine that falls silent, consumers that
stop subscribing, a desktop at rest, and calls that fail no more often than that.

Three images let one source take an image while the other holds an older one and the desktop
shows a third; two failures let the release path of both be taken, or one path twice. For
`pacing` the limits are small so that every stage of the back-off, its limit and its reset occur
within six iterations; a capture takes nothing, half a millisecond (so that the rounding of the
sleep shows), or the 33 ms of `AcquireNextFrame`; a sleep is on time or 15 ms late, the
timer granularity of Windows. The theorems have no such limits. Three calls of `Open` give a
failure, a retry and a reopening.

`CHECK_DEADLOCK FALSE` is used for `signaling` only, where everything may stop when every
consumer is served, no one joins and the connection stays up; the other modules have an explicit stuttering step
for the end of the process.

## Where code and comments disagree

Each is a run that TLC must find violated, with a trace that is short for what it shows.

* `ws_two_writes`. "Check if already sending" (`WebSocketClient.cpp:97`): `Send`'s refusal
  (`:65`) writes the status of the whole client. If the read fails while a write is
  under way, a refused `Send` makes the next `DoSend` start the same write again.
* `ws_sent`. "Message was successfully sent" (`WebSocketClient.h:33`): `Disconnect` flushes
  the message in flight as well; `OnWrite` then pops, and reports SENT for, a message that
  a late `Send` pushed.
* `ws_cancelled`. "Message was cancelled (e.g., due to disconnect)" (`WebSocketClient.h:35`): `OnWrite`
  stores SENT and reads the field again for the callback (`:163`). If the read has failed, a
  `Send` that is refused in between stores CANCELLED, and that is what the sender of the message that was
  written hears. Conversely a refused sender may hear SENT (`:66`). The callback the program passes only logs it.
* `audio_silenced`. "Add/Remove a sink that will receive the audio data from the track."
  (`CaptureSource.h:355`): `StopStream` stops the device all sources share, and
  `StartStream` does not start it again while `started_` is up: when one consumer
  leaves, the others go silent, and so does everyone who joins before they all leave.
* `ffmpeg`. "FFmpeg is automatically initialized via ffmpegInit member" (`Encoder.cpp:9`):
  `Uninitialize` (`FFmpegSystem.cpp:27`) calls `fetch_sub(-1)`, which adds one. One encoder
  created and destroyed leaves the count at 2, so that no later `Initialize` finds 0.
  Two encoders created before the first is destroyed never close the libraries at all, which is
  why `NotPulledAway` holds.

Four more were met and have no run, since no document says otherwise, it restates one of the above, or one
call shows it. "WebRTC expects exactly 10ms frames" (`AudioStreamCapture.cpp:187`), but when no packet is waiting
`CaptureAudio` delivers what is there (`More`).
After a failed write, what is left in the queue stays there, and no sender is told
(`WebSocketClient.cpp:154`). A message without a callback, the default (`WebSocketClient.h:68`), leaves
the status at SENDING after it was sent, so that nothing is sent any more; the program passes a callback
every time, and `NoLostWakeup` is stated for that. `AudioEncoder::Open` leaks a context whenever
`avcodec_open2` fails and `Open` is called again (`AudioEncoder.cpp:36`); `ContextsFreed` is
about `FrameEncoder`.

## Fairness

* `WebSocketClient`: the main thread, the io thread and a thread inside `Send` or
  `Disconnect` run; a write and a close complete, with or without an error; a read of a
  failed stream fails. For the write TCP sees to that, for the close it is an assumption
  about the server: the code sets no timeout on the stream, so a server that neither answers
  the close frame nor goes away keeps `async_close` waiting. `LossEndsRun` depends on it
  only where `Disconnect` is called on an open connection (`ws_disconnect`). Nothing makes anyone call `Send`,
  the peer send a message, or the application disconnect.
* `AudioCapture`: a capture thread runs, and a destructor that has begun goes on. Weak
  fairness is enough: no step of theirs is disabled by another thread for good. Nothing
  makes sources come or go, or the engine produce.
* `Signaling`: the io thread and the signaling thread run; `CreateOffer` and
  `SetLocalDescription` end, with or without success; a consumer's mail reaches it. Nothing
  makes a consumer join or leave, a candidate be found, or a working connection fail. A read on a
  connection whose writes fail fails as well (`LossEndsRun` of `WebSocketClient`), and a destructor goes on.
* `VideoCapture`: a capture thread runs and a join returns when its thread is done. Nothing makes
  the desktop change, or calls fail. `AcquireNextFrame` returns within its 33 ms: `AcquireFails` is
  always possible for a thread that finds nothing. `UpdateShown` uses no more: a thread that holds
  the frame comes to `ReleaseFrame`, and any that finds the frame free may take it.

## What is proved

All theorems are for every value of the constants, under the modules' named assumptions
(`ConstantsAssumption`, `AudioAssumption`, `SignalingAssumption`, `VideoAssumption`,
`PacingAssumption`, `EncoderAssumption`), which only say that
`Caller` is a function, that sources are finitely many, that bounds are naturals and that the
"nobody" values are not among the things they stand beside.

* `WebSocketClientProofs`: `TypeCorrect`, `SingleWriterHolds`, `ReaderAliveHolds`,
  `NoLostWakeupHolds` (assuming `Silent = {}`: it is false otherwise, see above),
  `AccountedHolds`, `EndsOnceHolds`, `ToldRightHolds`. `SingleWriter` alone is not inductive: that the
  status is SENDING while something is outstanding depends on who may write it. `StartInv`
  says what can be true before the connection is up. `CycleInv` follows the cycle
  `DoSend` → write → `OnWrite`: while connected, at most one of an outstanding write, a ready
  `OnWrite` and an `OnWrite` past its pop exists, and the status is SENDING then; a refusal,
  which would break it, requires a connection already lost, and a lost connection never
  becomes connected again. `OutcomeInv` relates `pushed`, `queue`, `current`, `call` and `outcome`. `LockInv`
  says that a message `DoSend` has looked at is still there when it calls back, because of the lock. `ToldRight` needs
  that a refusal is the only writer that may come between an assignment and its callback, and that it needs a
  lost connection.
* `OutboxProofs`: `ClientImplementsOutbox`, that every step of the client, of its users and of the
  stream is a step of `Outbox` or invisible there. Assumed are `AppDisconnects = FALSE` and
  `Silent = {}`, which is how the program uses the client: `Disconnect` is
  called only by the destructors `~SignalingClient` and `~WebSocketClient`, after `ioc.run()` has
  returned, and the only caller of `Send` passes a callback. Those calls are not assumed away:
  that they find no open connection (`QuietInv`) is proved from `ReaderAlive`.
  The difficult step is the end of a call: `OnWrite` reports SENT or FAILED to whatever heads the queue, and
  that this is the message the completion is about is nowhere written down. After an error a refusal lets `DoSend`
  start writes it should not (`ws_two_writes`), so that two writes of the same message may be
  outstanding. `FlightInv` says why it does no harm: a write that can succeed needs an open stream, hence
  a connected client, hence it is the only one; so the number of messages written and the
  number taken from the queue differ by at most one, and by one just when a success waits to
  be handled, before any other completion. `BooksInv` draws the consequence: what was written is the beginning of
  `pushed`, the queue its end, and the calls of those in between ended as SENT or FAILED accordingly.
  `LinkInv` ties the connection state to the stream.
  What the channel means for a sender is then proved of the channel alone:
  `EndsTrueHold`, a call ends as SENT only if its message was written, as FAILED or CANCELLED only if
  not. So what `ws_sent` shows cannot happen in this program, only to a
  caller of `Disconnect` on an open connection; what `ws_cancelled` shows can, after a read error.
* `AudioCaptureProofs`: `AudioTypeCorrect`, `CountIsUsersHolds`, `LoopNotCutShortHolds`,
  `QuietWhenUnusedHolds` from `ShareInv`, which relates `count`, `started` and the places
  of all sources, with the cardinality lemmas that adding and removing one user needs
  (`UsersFinite`, `ConstructShare`, `DestroyShare`), with and without an audio client; `ChunksFitHolds` and `GoneIsQuietHolds`
  from `ChunkInv`, which says what each place of the capture thread implies (`CopyFits` is
  the arithmetic of `FramesToCopy`).
* `SignalingProofs`: `SignalingTypeCorrect` and `NeedIsOfferedHolds` from `MapInv`: a
  connection that tracks are being added to is the one in the map (the io thread handles no
  "consumer-disconnected" in the middle of `SendOffer`); so the observer that looks itself up by consumer ID finds itself
  (`OffersItself`), and the need it reports is offered. `ClientOutlivesCallsHolds` from
  `EndInv`: once `~SignalingClient` has begun there is no offer under way and nobody refers to the client, and since
  messages have ended there is no reason for a new offer; a signaling thread that destroys the client is in the
  destructor of an observer that has released it. What is left when the client is destroyed is at most the connection
  that destructor drops next, on the thread that would have to call the observers.
* `SignalingOrderProofs`: `RepliesFitHolds`. `RepliesFit` speaks of the head of `inbox` and must be
  known of every message behind it, and of the offers the consumer has not yet seen. `RoundInv`
  says that a consumer's first connection has one round of negotiation at a time (`StageInv`: an offer is
  being created, or was sent while its local description is being set, or set; WebRTC's flag
  stays up during all of it), that at most one offer is in `mail` or one answer in `inbox` then, with the
  tracks of `draft` (`OneOffer`, `OneAnswer`), and that a candidate comes behind the first
  answer (`AfterAnswer`). `CreatedInv` and `MessagesInv` say that nothing is under way for a connection or a consumer
  before its time, so that a round begins clean.
* `VideoCaptureProofs`: `VideoTypeCorrect`, `ContextExclusiveHolds`, `GoneIsQuietHolds`, from the
  invariant that a thread between acquisition and release is the holder, and the holder is
  one thread; and that a source that is gone has a finished thread. That only an image is delivered is
  inductive as it stands.
* `VideoPacingProofs`: `PacingTypeCorrect`, `AtMostTwoPerPeriodHolds`, `NoBusyLoopHolds`,
  `StopIsPromptHolds`, `BackoffFollowsHolds`. The second needs to know how the last three frames, `last` and the clock
  are ordered: the time that is kept for a frame lies after the frame before it. `NoBusyLoop` follows the
  run of failures back from the present: an iteration either slept, or is one of at most
  `MaxFailures + 1` in a row. `BackoffFollows` compares the back-off with a recursive function,
  `Doublings`. That such a function exists and obeys its equation is itself proved
  (`DoublingsRecursion`): the library's induction theorems cannot be instantiated by the installed provers, but
  its theorem on minimal elements can, and gives induction for a set of numbers (`AllOfNat`).
* `EncodersProofs`: `EncoderTypeCorrect`, `NotPulledAwayHolds`, `OpenHasContextHolds`,
  `ContextsFreedHolds`. That no encoder loses the libraries rests on a lower bound of
  the count: it is at least 1 while an encoder that found them lives, and at least 2 with a second one, or once
  any encoder is gone; and `Uninitialize` acts on 1 alone.

Every invariant and action property that a passing run checks is stated by a theorem, and so is the
refinement. `OrderInv` and `PromiseInv` were checked by TLC on the instances of `signaling` and
`ws_program` before they were proved. Model-checked only: everything under fairness (`Delivered`, `LossEndsRun`, `StopEnds`, `Served`,
`CaptureEnds`, `UpdateShown`), since TLAPS has neither ENABLED nor fairness rules here. The theorems about
`WebSocketClient` do not carry over to `Signaling` by themselves: that its `SendToPeer` is the channel
`Outbox` promises is how it was modelled, not a theorem.

## Modelling decisions

* **Beast.** A second `async_write` during a first one is a broken precondition: a debug
  build asserts, a release build lets it wait for the first. The model has the release
  build, so that what follows a violation is visible.
* **Grain.** A critical section and the accesses that no other thread can tell apart from it are
  one step: `DoSend`'s callback with the end of its section and the `async_write` after it; `CaptureAudio`'s test of
  `started_` with the first `GetNextPacketSize`; the pop in `OnWrite` is a step of its own
  because `Disconnect` and `Send` can come after it. Two accesses are one step where a step
  of another thread in between is the same as one before or after both. In `OnWriteFailed` the
  report and the new connection state are one step: a thread that still sees CONNECTED in
  between might have looked before, a refusal or a flush in between might have come after,
  and CLOSING is overwritten either way. In `SendRefused` the look and the status are one
  step: a connection that is not connected never becomes connected again, so the look
  could as well be made at the time of the write. The test and the assignment in
  `SetConnectionState` are one step: the test only suppresses a callback that logs.
* **Races.** `m_connectionState`, `m_MessagecurrentStatus` and `started_` are read and
  written without a common lock. Each access is one read or one write of a word. A callback
  gets whatever the status field holds when it is called; a build that forwards the value just assigned
  is among the behaviors, as the one in which nobody writes in between. `QueuedMessage::status`, a copy that
  nobody reads, is left out.
* **WebRTC.** A call of a `PeerConnection` on the io thread blocks until the signaling thread
  has executed it; so it needs a signaling thread that is not in an observer (`busy`). The
  need for negotiation is reported once, in the stable state, and again when an answer makes
  the connection stable with tracks that are not in it. An offer describes the tracks of the
  moment `CreateOffer` was called. An answer fits a local offer with the same tracks. A connection lives
  while the map, `SendOffer` or an observer holds it (`Held`); an observer of `CreateOffer` exists until
  `OnSuccess` or `OnFailure` has returned and its destructor has run, on the signaling thread.
* **Stale offers.** After a consumer ID subscribes again, an offer of its old connection may still be
  sent, and the answer is applied to the new one, where it is refused or confuses the
  negotiation. `RepliesFit` is therefore stated for the first connection of an ID.
* **The end.** When `main` returns the process ends, and with it whatever thread still
  runs. The model lets the signaling thread finish instead, which is what the destructors are written
  for, and the harder case. What the socket had accepted and not sent when the connection failed is
  lost from the end (`NotSent`).
* **Construction.** `SendOffer` runs on the io thread, so sources are constructed one after the other and
  `GetInstance` is one step; the double check matters only for what a failed `Initialize` leaves behind.
* **Desktop duplication.** It lends one frame at a time to the process; a second
  `AcquireNextFrame` fails until `ReleaseFrame`. The frame is the desktop as it is, with all updates
  since the last one acquired: each update reaches one source only, so that on a desktop that
  comes to rest a consumer may keep an old image (`UpdateShown` asks for some source). After
  ACCESS_LOST, or a failed `Initialize`, nobody makes a new duplication, and video does not come back.
  `I420Buffer::Create` returns a buffer or ends the process; the code's test for it never fails.
* **Time.** A sleep is never shorter than asked for. `AcquireNextFrame`'s 33 ms are part of the time a
  capture takes; on a desktop at rest they end in a failure, so that the loop backs off up to a second, and
  whoever destroys the source then waits for that second. "60 FPS" (`CaptureSource.cpp:51`) is the
  comment on 33 333 µs: since the time that is kept is that before the sleep, a long sleep is followed by a
  short one, and if captures take no time two frames come in every period (`AtMostTwoPerPeriod`).
* **Codecs.** A codec that has more frames than its delay gives a packet when asked. `EncodeFrame`
  is called with a frame, never with null to drain; what the codec still has is lost at `Close`.

## Not modelled

* `AudioBroadcaster`'s sinks, and `VideoBroadcaster`, which is WebRTC's: who is registered, under
  the broadcaster's mutex. `heard` and `seen` stand for sinks that hear everything.
* Reference counts of tracks, sources and observers: every class overrides `AddRef` and `Release` on one
  counter of its own; what holds what is modelled where it matters (`Held`, `ObserverRefers`).
* Text of SDP and JSON, malformed messages (`error_out` at `SignalingClient.cpp:274` is null, so that an
  answer that cannot be parsed goes to `SetRemoteDescription`, which refuses it: in the model an answer that does not
  fit), `m_streamerId`. Sample formats and bytes (`m_waveFormat` keeps the format that was asked for although
  the closest match may be in use, `AudioStreamCapture.cpp:114`), pixels, `stats_` (written by
  the capture thread, read by `GetStats` without a lock: two independent integers), logging.
* The factories in `main`, and the COM, Direct3D and codec set-up: straight calls with one
  failure path each. The setters of encoders. `AudioData`, which nobody uses.

## Plan

Built first, because everything else goes through it: the signaling connection; then the audio path,
the other place where threads share state; then the negotiation, the video path and the
encoders. Left, in this order:

1. Theorems: what a liveness property rests on and is a safety property, such as that a source being
   destroyed always finds its capture thread able to go on; and that the channel in
   `Signaling` is an `Outbox`, with a mapping of its own.
2. `WebSocketClient`: an action property for the states a connection passes through when `Disconnect`
   meets an error.
3. `AudioBroadcaster`: sinks that come and go while `OnData` delivers, and the mutex that `OnData` holds
   for the whole delivery.
