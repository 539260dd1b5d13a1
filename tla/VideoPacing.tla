----------------------------- MODULE VideoPacing -----------------------------
(***************************************************************************)
(* When one VideoCaptureSource captures: the pacing and the back-off of    *)
(* VideoCaptureSource::CaptureLoop, with a clock in microseconds.  What    *)
(* CaptureFrame does is in VideoCapture; here it takes some time and       *)
(* succeeds or fails.                                                      *)
(*                                                                         *)
(* In the code Target is 33333, MaxFailures 5, InitialBackoff 10 and       *)
(* MaxBackoff 1000.                                                        *)
(***************************************************************************)
EXTENDS Integers, Sequences

CONSTANTS
  Target,          \* target_fps, in microseconds
  MaxFailures,     \* kMaxConsecutiveFailures
  InitialBackoff,  \* kInitialBackoffMs
  MaxBackoff,      \* kMaxBackoffMs
  Works, MaxWork,  \* how long CaptureFrame takes, with delivery; the longest
  Lates, MaxLate,  \* by how much a sleep is late; the latest
  MaxLoops         \* bound: the iterations of the loop

ASSUME PacingAssumption ==
  /\ Target \in Nat /\ MaxFailures \in Nat
  /\ InitialBackoff \in Nat \ {0} /\ MaxBackoff \in Nat /\ InitialBackoff <= MaxBackoff
  /\ MaxWork \in Nat /\ Works \subseteq 0..MaxWork
  /\ MaxLate \in Nat /\ Lates \subseteq 0..MaxLate
  /\ MaxLoops \in Nat

VARIABLES
  clock,     \* rtc::TimeMicros()
  running,   \* running_
  pc,        \* where the capture thread is
  now,       \* now_us
  last,      \* last_capture_time_us_
  failures,  \* consecutive_failures_
  backoff,   \* current_backoff_ms_
  begun,     \* history: when each iteration began
  frames,    \* history: the number of frames delivered
  shown,     \* history: the timestamps of the last three, the latest first
  stopped    \* history: when running_ was cleared

vars == <<clock, running, pc, now, last, failures, backoff, begun, frames, shown, stopped>>

\* The program starts long after the clock, which counts from the start of the PC.
Init ==
  /\ clock = Target /\ running = TRUE /\ pc = "check"
  /\ now = 0 /\ last = 0
  /\ failures = 0 /\ backoff = InitialBackoff
  /\ begun = <<>> /\ frames = 0 /\ shown = [i \in 0..2 |-> 0] /\ stopped = 0

AtMost(a, b) == IF a < b THEN a ELSE b

\* A sleep lasts as long as it was asked to, or longer.
Slept(ms, work) == \E late \in Lates : clock' = clock + work + ms * 1000 + late

LoopCheck ==
  /\ pc = "check"
  /\ IF running
     THEN Len(begun) < MaxLoops /\ pc' = "pace" /\ now' = clock /\ begun' = Append(begun, clock)
     ELSE pc' = "done" /\ UNCHANGED <<now, begun>>
  /\ UNCHANGED <<clock, running, last, failures, backoff, frames, shown, stopped>>

Elapsed == now - last

\* The sleep before a frame, in whole milliseconds.
Pace ==
  /\ pc = "pace" /\ pc' = "capture"
  /\ IF Elapsed < Target
     THEN Slept((Target - Elapsed) \div 1000, 0)
     ELSE UNCHANGED clock
  /\ UNCHANGED <<running, now, last, failures, backoff, begun, frames, shown, stopped>>

\* Mutants: the time of the frame is not kept; the back-off stays as long as it was.
FrameUntimed ==
  /\ pc = "capture" /\ pc' = "check"
  /\ \E work \in Works : clock' = clock + work
  /\ failures' = 0 /\ backoff' = InitialBackoff
  /\ frames' = frames + 1
  /\ shown' = [i \in 0..2 |-> IF i = 0 THEN clock' ELSE shown[i - 1]]
  /\ UNCHANGED <<running, now, last, begun, stopped>>
FrameKeepsBackoff ==
  /\ pc = "capture" /\ pc' = "check"
  /\ \E work \in Works : clock' = clock + work
  /\ failures' = 0 /\ last' = now
  /\ frames' = frames + 1
  /\ shown' = [i \in 0..2 |-> IF i = 0 THEN clock' ELSE shown[i - 1]]
  /\ UNCHANGED <<running, now, backoff, begun, stopped>>

\* CaptureFrame returns an image, which is delivered.  What is kept is the time before
\* the sleep.
Frame ==
  /\ pc = "capture" /\ pc' = "check"
  /\ \E work \in Works : clock' = clock + work
  /\ failures' = 0 /\ backoff' = InitialBackoff /\ last' = now
  /\ frames' = frames + 1
  /\ shown' = [i \in 0..2 |-> IF i = 0 THEN clock' ELSE shown[i - 1]]
  /\ UNCHANGED <<running, now, begun, stopped>>

\* Mutants: the back-off has no limit; it begins one failure late.
Doubled == backoff * 2
TooManyLate == failures' > MaxFailures + 1

NextBackoff == AtMost(backoff * 2, MaxBackoff)
TooMany == failures' > MaxFailures

\* CaptureFrame returns nothing.
NoFrame ==
  /\ pc = "capture" /\ pc' = "check"
  /\ failures' = failures + 1
  /\ \E work \in Works :
       IF TooMany
       THEN Slept(backoff, work) /\ backoff' = NextBackoff
       ELSE clock' = clock + work /\ UNCHANGED backoff
  /\ UNCHANGED <<running, now, last, begun, frames, shown, stopped>>

\* StopCapture, on another thread, at any time.
Stop ==
  /\ running /\ running' = FALSE
  /\ stopped' = clock
  /\ UNCHANGED <<clock, pc, now, last, failures, backoff, begun, frames, shown>>

Finished == pc = "done" /\ UNCHANGED vars

Next == LoopCheck \/ Pace \/ Frame \/ NoFrame \/ Stop \/ Finished

Spec == Init /\ [][Next]_vars
-----------------------------------------------------------------------------
(* Properties. *)

\* Every variable has its type.
TypeOK ==
  /\ clock \in Nat /\ running \in BOOLEAN /\ pc \in {"check", "pace", "capture", "done"}
  /\ now \in Nat /\ last \in Nat
  /\ failures \in Nat /\ backoff \in InitialBackoff..MaxBackoff
  /\ begun \in Seq(Nat) /\ frames \in Nat /\ shown \in [0..2 -> Nat] /\ stopped \in Nat

\* Although the time of a frame is read before its sleep and sleeps are rounded down to
\* milliseconds, of three successive frames the first and the third are a period apart, but
\* for the rounding: at most two per period, which is what "60 FPS" comes down to.
AtMostTwoPerPeriod == frames >= 3 => shown[0] - shown[2] > Target - 1000

\* The loop does not spin, however failures and frames alternate: this many iterations
\* take at least the shortest back-off or a period.
Shortest == AtMost(InitialBackoff * 1000, Target - 999)
NoBusyLoop ==
  \A i \in 1..Len(begun) :
    i + MaxFailures + 2 <= Len(begun) => begun[i + MaxFailures + 2] - begun[i] >= Shortest

\* The back-off is what the number of failures in a row says: nothing but the first value
\* until there are too many, from then on doubled by each, up to its limit; a frame resets
\* it.
Doublings[k \in Nat] == IF k = 0 THEN InitialBackoff ELSE 2 * Doublings[k - 1]
Excess == failures - AtMost(failures, MaxFailures)
BackoffFollows == backoff = AtMost(Doublings[Excess], MaxBackoff)

\* A destructor that stops the source waits for one iteration at most, with the longest
\* back-off.
StopLimit == Target + MaxWork + MaxBackoff * 1000 + 2 * MaxLate
StopIsPrompt == ~running => clock - stopped <= StopLimit
=============================================================================
