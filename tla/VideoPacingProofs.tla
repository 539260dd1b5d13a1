-------------------------- MODULE VideoPacingProofs --------------------------
(***************************************************************************)
(* Theorems about VideoPacing, for every period, back-off and duration.    *)
(***************************************************************************)
EXTENDS VideoPacing, TLAPS, WellFoundedInduction

InLoop == pc \in {"pace", "capture"}

\* What lies between the frames: the time kept for a frame is read after the frame before
\* it was delivered, and capture begins a period, rounded down, after the time kept.
FrameInv ==
  /\ last <= clock /\ now <= clock
  /\ InLoop => last <= now
  /\ pc = "pace" => clock = now
  /\ pc = "capture" => clock - last > Target - 1000
  /\ frames >= 1 => shown[0] <= clock /\ (InLoop => shown[0] <= now)
  /\ frames >= 2 => shown[1] <= last
  /\ AtMostTwoPerPeriod

\* How much of its last iteration the loop has left once it is told to stop.
StopInv ==
  ~running =>
    /\ pc = "pace" => clock = stopped
    /\ pc = "capture" => clock - stopped <= Target + MaxLate
    /\ clock - stopped <= StopLimit

\* The iterations that have ended.  Unless the back-off came last, the time kept is that
\* of the frame that ended the latest one without a failure.
Ended == IF InLoop THEN Len(begun) - 1 ELSE Len(begun)

BusyInv ==
  /\ \A i, j \in 1..Len(begun) : i <= j => begun[i] <= begun[j]
  /\ \A i \in 1..Len(begun) : begun[i] <= clock
  /\ InLoop => Len(begun) >= 1 /\ begun[Len(begun)] = now
  /\ failures <= Ended
  /\ failures <= MaxFailures /\ failures < Ended => last = begun[Ended - failures]
  /\ failures > MaxFailures => clock >= begun[Ended] + InitialBackoff * 1000
  /\ \A i \in 1..Len(begun) : i + MaxFailures + 1 <= Ended => clock - begun[i] >= Shortest
  /\ NoBusyLoop

PacingInv == TypeOK /\ FrameInv /\ StopInv /\ BusyInv

LEMMA PacingStart == Init => PacingInv
  <1> SUFFICES ASSUME Init PROVE PacingInv
    OBVIOUS
  <1>1. TypeOK
    BY PacingAssumption DEF Init, TypeOK
  <1>2. FrameInv /\ StopInv
    BY PacingAssumption DEF Init, FrameInv, StopInv, InLoop, AtMostTwoPerPeriod
  <1>3. BusyInv
    BY PacingAssumption DEF Init, BusyInv, InLoop, Ended, NoBusyLoop
  <1> QED
    BY <1>1, <1>2, <1>3 DEF PacingInv

-----------------------------------------------------------------------------
(* Time. *)

\* A sleep of whole milliseconds is at most a millisecond too short.
LEMMA RoundedDown ==
  ASSUME NEW x \in Nat
  PROVE  /\ x \div 1000 \in Nat
         /\ (x \div 1000) * 1000 <= x /\ (x \div 1000) * 1000 > x - 1000
  OBVIOUS

\* Before the capture a period since the time kept has passed, but for the rounding.
LEMMA PaceTime ==
  ASSUME TypeOK, FrameInv, Pace
  PROVE  /\ clock' \in Nat /\ clock' >= clock
         /\ clock' - last > Target - 1000
         /\ clock' <= clock + Target + MaxLate
  <1>1. /\ clock \in Nat /\ now \in Nat /\ last \in Nat /\ Target \in Nat
        /\ clock = now /\ last <= now
    BY PacingAssumption DEF TypeOK, FrameInv, Pace, InLoop
  <1>2. CASE Elapsed < Target
    <2> DEFINE x == Target - Elapsed
    <2>1. x \in Nat
      BY <1>1, <1>2 DEF Elapsed
    <2>2. PICK late \in Lates : clock' = clock + 0 + (x \div 1000) * 1000 + late
      BY <1>2 DEF Pace, Slept
    <2>3. late \in 0..MaxLate
      BY PacingAssumption
    <2>4. /\ (x \div 1000) \in Nat
          /\ (x \div 1000) * 1000 <= x /\ (x \div 1000) * 1000 > x - 1000
      BY <2>1, RoundedDown
    <2> DEFINE y == (x \div 1000) * 1000
    <2>5. y \in Nat /\ y <= Target - Elapsed /\ y > Target - Elapsed - 1000
          /\ clock' = clock + 0 + y + late
      BY <2>2, <2>4
    <2> HIDE DEF x, y
    <2> QED
      BY <1>1, <2>3, <2>5, PacingAssumption DEF Elapsed
  <1>3. CASE ~(Elapsed < Target)
    BY <1>1, <1>3, PacingAssumption DEF Elapsed, Pace
  <1> QED
    BY <1>2, <1>3

\* A capture takes its time, and a failed one the back-off if there were too many.
LEMMA FrameTime ==
  ASSUME TypeOK, Frame
  PROVE  clock' \in Nat /\ clock' >= clock /\ clock' <= clock + MaxWork
  <1>1. PICK work \in Works : clock' = clock + work
    BY DEF Frame
  <1>2. work \in 0..MaxWork
    BY PacingAssumption
  <1> QED
    BY <1>1, <1>2, PacingAssumption DEF TypeOK

LEMMA NoFrameTime ==
  ASSUME TypeOK, NoFrame
  PROVE  /\ clock' \in Nat /\ clock' >= clock
         /\ clock' <= clock + MaxWork + MaxBackoff * 1000 + MaxLate
         /\ failures' > MaxFailures => clock' >= clock + InitialBackoff * 1000
         /\ backoff' \in InitialBackoff..MaxBackoff
  <1>0. /\ clock \in Nat /\ backoff \in InitialBackoff..MaxBackoff
        /\ InitialBackoff \in Nat /\ MaxBackoff \in Nat /\ MaxLate \in Nat /\ MaxWork \in Nat
        /\ InitialBackoff <= MaxBackoff
    BY PacingAssumption DEF TypeOK
  <1>1. PICK work \in Works :
          IF TooMany
          THEN Slept(backoff, work) /\ backoff' = NextBackoff
          ELSE clock' = clock + work /\ UNCHANGED backoff
    BY DEF NoFrame
  <1>2. work \in 0..MaxWork
    BY PacingAssumption
  <1>3. CASE failures' > MaxFailures
    <2>1. PICK late \in Lates : clock' = clock + work + backoff * 1000 + late
      BY <1>1, <1>3 DEF TooMany, Slept
    <2>2. late \in 0..MaxLate
      BY PacingAssumption
    <2>3. backoff' = AtMost(backoff * 2, MaxBackoff)
      BY <1>1, <1>3 DEF TooMany, NextBackoff
    <2> QED
      BY <1>0, <1>2, <2>1, <2>2, <2>3 DEF AtMost
  <1>4. CASE ~(failures' > MaxFailures)
    BY <1>0, <1>1, <1>2, <1>4 DEF TooMany
  <1> QED
    BY <1>3, <1>4
-----------------------------------------------------------------------------
LEMMA PacingTypeStep == PacingInv /\ [Next]_vars => TypeOK'
  <1> SUFFICES ASSUME PacingInv, [Next]_vars PROVE TypeOK'
    OBVIOUS
  <1>0. TypeOK /\ FrameInv
    BY DEF PacingInv
  <1>1. CASE LoopCheck
    <2>0. clock \in Nat /\ now \in Nat /\ begun \in Seq(Nat)
      BY <1>0 DEF TypeOK
    <2>1. begun' \in Seq(Nat) /\ now' \in Nat
      <3>1. CASE running
        BY <1>1, <2>0, <3>1 DEF LoopCheck
      <3>2. CASE ~running
        BY <1>1, <2>0, <3>2 DEF LoopCheck
      <3> QED
        BY <3>1, <3>2
    <2> QED
      BY <1>0, <1>1, <2>1 DEF LoopCheck, TypeOK
  <1>2. CASE Pace
    BY <1>0, <1>2, PaceTime DEF Pace, TypeOK
  <1>3. CASE Frame
    <2>1. clock' \in Nat /\ InitialBackoff \in InitialBackoff..MaxBackoff
      BY <1>0, <1>3, FrameTime, PacingAssumption
    <2>2. shown' \in [0..2 -> Nat]
      BY <1>0, <1>3, <2>1 DEF Frame, TypeOK
    <2> QED
      BY <1>0, <1>3, <2>1, <2>2 DEF Frame, TypeOK
  <1>4. CASE NoFrame
    BY <1>0, <1>4, NoFrameTime DEF NoFrame, TypeOK
  <1>5. CASE Stop \/ Finished \/ UNCHANGED vars
    BY <1>0, <1>5 DEF Stop, Finished, vars, TypeOK
  <1> QED
    BY <1>1, <1>2, <1>3, <1>4, <1>5 DEF Next

LEMMA FrameStep == PacingInv /\ [Next]_vars => FrameInv'
  <1> SUFFICES ASSUME PacingInv, [Next]_vars PROVE FrameInv'
    OBVIOUS
  <1>0. TypeOK /\ FrameInv
    BY DEF PacingInv
  <1> USE DEF FrameInv, InLoop, AtMostTwoPerPeriod
  <1>1. CASE LoopCheck
    BY <1>0, <1>1 DEF LoopCheck, TypeOK
  <1>2. CASE Pace
    <2>1. /\ clock' \in Nat /\ clock' >= clock
          /\ clock' - last > Target - 1000
      BY <1>0, <1>2, PaceTime
    <2>2. /\ UNCHANGED <<now, last, frames, shown>> /\ pc = "pace" /\ pc' = "capture"
          /\ shown[0] \in Nat /\ now \in Nat /\ last \in Nat /\ clock \in Nat
      BY <1>0, <1>2 DEF Pace, TypeOK
    <2> QED
      BY <1>0, <2>1, <2>2
  <1>3. CASE Frame
    <2>1. clock' \in Nat /\ clock' >= clock
      BY <1>0, <1>3, FrameTime
    <2>2. /\ shown'[0] = clock' /\ shown'[1] = shown[0] /\ shown'[2] = shown[1]
          /\ last' = now /\ now' = now /\ frames' = frames + 1 /\ pc' = "check"
          /\ pc = "capture"
      BY <1>3 DEF Frame
    <2> QED
      BY <1>0, <2>1, <2>2, PacingAssumption DEF TypeOK
  <1>4. CASE NoFrame
    <2>1. clock' \in Nat /\ clock' >= clock
      BY <1>0, <1>4, NoFrameTime
    <2> QED
      BY <1>0, <1>4, <2>1 DEF NoFrame, TypeOK
  <1>5. CASE Stop \/ Finished \/ UNCHANGED vars
    BY <1>0, <1>5 DEF Stop, Finished, vars
  <1> QED
    BY <1>1, <1>2, <1>3, <1>4, <1>5 DEF Next

LEMMA StopStep == PacingInv /\ [Next]_vars => StopInv'
  <1> SUFFICES ASSUME PacingInv, [Next]_vars PROVE StopInv'
    OBVIOUS
  <1>0. /\ TypeOK /\ FrameInv /\ StopInv
        /\ clock \in Nat /\ stopped \in Nat /\ StopLimit = Target + MaxWork + MaxBackoff * 1000 + 2 * MaxLate
        /\ Target \in Nat /\ MaxWork \in Nat /\ MaxBackoff \in Nat /\ MaxLate \in Nat
    BY PacingAssumption DEF PacingInv, TypeOK, StopLimit
  <1> USE DEF StopInv
  <1>1. CASE LoopCheck
    BY <1>0, <1>1 DEF LoopCheck
  <1>2. CASE Pace
    BY <1>0, <1>2, PaceTime DEF Pace
  <1>3. CASE Frame
    BY <1>0, <1>3, FrameTime DEF Frame
  <1>4. CASE NoFrame
    BY <1>0, <1>4, NoFrameTime DEF NoFrame
  <1>5. CASE Stop \/ Finished \/ UNCHANGED vars
    BY <1>0, <1>5 DEF Stop, Finished, vars
  <1> QED
    BY <1>1, <1>2, <1>3, <1>4, <1>5 DEF Next

-----------------------------------------------------------------------------
(* The loop does not spin. *)

\* At the end of an iteration the iteration MaxFailures earlier began at least the shortest
\* pause ago: after it there was a frame, hence pacing, or too many failures, hence a
\* back-off.
LEMMA Paused ==
  ASSUME TypeOK, FrameInv, BusyInv, pc = "capture",
         NEW i \in 1..Len(begun), i + MaxFailures <= Ended
  PROVE  clock - begun[i] >= Shortest
  <1> DEFINE n == Len(begun)
             c == Ended
  <1>1. /\ n \in Nat /\ n >= 1 /\ c = n - 1 /\ clock \in Nat /\ failures \in Nat /\ last \in Nat
        /\ MaxFailures \in Nat /\ Target \in Nat /\ InitialBackoff \in Nat
        /\ i \in 1..c /\ failures <= c /\ begun \in Seq(Nat)
    BY PacingAssumption DEF TypeOK, BusyInv, Ended, InLoop
  <1>2. \A j \in 1..n : begun[j] \in Nat
    BY <1>1
  <1>3. \A j, k \in 1..n : j <= k => begun[j] <= begun[k]
    BY DEF BusyInv
  <1>4. Shortest \in Int /\ Shortest <= InitialBackoff * 1000 /\ Shortest <= Target - 999
    BY <1>1 DEF Shortest, AtMost
  <1>5. CASE failures > MaxFailures
    <2>1. c \in 1..n /\ i <= c
      BY <1>1
    <2>2. begun[i] <= begun[c]
      BY <1>3, <2>1
    <2>3. clock >= begun[c] + InitialBackoff * 1000
      BY <1>5 DEF BusyInv
    <2>4. begun[i] \in Nat /\ begun[c] \in Nat
      BY <1>2, <2>1
    <2> HIDE DEF c, n
    <2> QED
      BY <1>1, <1>4, <2>2, <2>3, <2>4
  <1>6. CASE failures <= MaxFailures
    <2>1. failures < c
      BY <1>1, <1>6
    <2>2. last = begun[c - failures]
      BY <1>6, <2>1 DEF BusyInv
    <2>3. c - failures \in 1..n /\ i <= c - failures
      <3>1. i + MaxFailures <= c
        OBVIOUS
      <3> HIDE DEF c, n
      <3> QED
        BY <1>1, <1>6, <2>1, <3>1
    <2>4. begun[i] <= last
      BY <1>3, <2>2, <2>3
    <2>5. clock - last > Target - 1000
      BY DEF FrameInv
    <2>6. begun[i] \in Nat
      BY <1>1, <1>2
    <2> HIDE DEF c, n
    <2> QED
      BY <1>1, <1>4, <2>4, <2>5, <2>6
  <1> QED
    BY <1>1, <1>5, <1>6

LEMMA BusyStep == PacingInv /\ [Next]_vars => BusyInv'
  <1> SUFFICES ASSUME PacingInv, [Next]_vars PROVE BusyInv'
    OBVIOUS
  <1>0. TypeOK /\ FrameInv /\ BusyInv
    BY DEF PacingInv
  <1> DEFINE n == Len(begun)
  <1>a. /\ n \in Nat /\ clock \in Nat /\ failures \in Nat /\ last \in Nat /\ now \in Nat
        /\ MaxFailures \in Nat /\ InitialBackoff \in Nat /\ begun \in Seq(Nat)
        /\ Shortest \in Int /\ \A i \in 1..n : begun[i] \in Nat
    BY <1>0, PacingAssumption DEF TypeOK, Shortest, AtMost
  <1>1. CASE LoopCheck /\ running
    <2>1. /\ begun' = Append(begun, clock) /\ now' = clock /\ pc = "check" /\ pc' = "pace"
          /\ UNCHANGED <<clock, failures, last>>
      BY <1>1 DEF LoopCheck
    <2>2. Len(begun') = n + 1 /\ Ended' = n /\ Ended = n
      BY <1>a, <2>1 DEF Ended, InLoop
    <2>3. begun'[n + 1] = clock /\ \A i \in 1..n : begun'[i] = begun[i]
      BY <1>a, <2>1
    <2>4. /\ \A i, j \in 1..Len(begun') : i <= j => begun'[i] <= begun'[j]
          /\ \A i \in 1..Len(begun') : begun'[i] <= clock'
      BY <1>0, <1>a, <2>1, <2>2, <2>3 DEF BusyInv
    <2>5. /\ Len(begun') >= 1 /\ begun'[Len(begun')] = now'
          /\ failures' <= Ended'
          /\ failures' <= MaxFailures /\ failures' < Ended' => last' = begun'[Ended' - failures']
          /\ failures' > MaxFailures => clock' >= begun'[Ended'] + InitialBackoff * 1000
      BY <1>0, <1>a, <2>1, <2>2, <2>3 DEF BusyInv
    <2>6. \A i \in 1..Len(begun') :
            i + MaxFailures + 1 <= Ended' => clock' - begun'[i] >= Shortest
      BY <1>0, <1>a, <2>1, <2>2, <2>3 DEF BusyInv
    <2>7. NoBusyLoop'
      <3> SUFFICES ASSUME NEW i \in 1..Len(begun'), i + MaxFailures + 2 <= Len(begun')
                   PROVE  begun'[i + MaxFailures + 2] - begun'[i] >= Shortest
        BY DEF NoBusyLoop, Shortest
      <3>1. CASE i + MaxFailures + 2 = n + 1
        <4>1. i \in 1..n /\ i + MaxFailures + 1 <= Ended'
          BY <1>a, <2>2, <3>1
        <4> QED
          BY <1>a, <2>1, <2>2, <2>3, <2>6, <3>1, <4>1
      <3>2. CASE i + MaxFailures + 2 <= n
        <4>1. i \in 1..n /\ i + MaxFailures + 2 \in 1..n
          BY <1>a, <3>2
        <4>2. begun[i + MaxFailures + 2] - begun[i] >= Shortest
          BY <1>0, <3>2, <4>1 DEF BusyInv, NoBusyLoop
        <4> QED
          BY <2>3, <4>1, <4>2
      <3> QED
        BY <1>a, <2>2, <3>1, <3>2
    <2> QED
      BY <2>4, <2>5, <2>6, <2>7 DEF BusyInv, Shortest
  <1>2. CASE LoopCheck /\ ~running
    BY <1>0, <1>2 DEF LoopCheck, BusyInv, Ended, InLoop, NoBusyLoop, Shortest
  <1>3. CASE Pace
    <2>1. clock' \in Nat /\ clock' >= clock
      BY <1>0, <1>3, PaceTime
    <2>2. UNCHANGED <<begun, failures, last, now>> /\ Ended' = Ended /\ InLoop /\ InLoop'
      BY <1>3 DEF Pace, Ended, InLoop
    <2>3. Ended = n - 1 /\ failures <= Ended /\ n >= 1
      BY <1>0, <2>2 DEF Ended, BusyInv
    <2>4. /\ \A i, j \in 1..n : i <= j => begun[i] <= begun[j]
          /\ begun[n] = now
          /\ failures <= MaxFailures /\ failures < Ended => last = begun[Ended - failures]
          /\ NoBusyLoop
      BY <1>0, <2>2 DEF BusyInv
    <2>5. \A i \in 1..n : begun[i] <= clock'
      BY <1>0, <1>a, <2>1 DEF BusyInv
    <2>6. failures > MaxFailures => clock' >= begun[Ended] + InitialBackoff * 1000
      <3> SUFFICES ASSUME failures > MaxFailures
                   PROVE  clock' >= begun[Ended] + InitialBackoff * 1000
        OBVIOUS
      <3>1. Ended \in 1..n
        BY <1>a, <2>3
      <3>2. clock >= begun[Ended] + InitialBackoff * 1000 /\ begun[Ended] \in Nat
        BY <1>0, <1>a, <3>1 DEF BusyInv
      <3> QED
        BY <1>a, <2>1, <3>2
    <2>7. \A i \in 1..n : i + MaxFailures + 1 <= Ended => clock' - begun[i] >= Shortest
      BY <1>0, <1>a, <2>1 DEF BusyInv
    <2>8. NoBusyLoop'
      BY <2>2, <2>4 DEF NoBusyLoop, Shortest
    <2> QED
      BY <2>2, <2>3, <2>4, <2>5, <2>6, <2>7, <2>8 DEF BusyInv, Shortest
  <1>4. CASE Frame \/ NoFrame
    <2>1. /\ clock' \in Nat /\ clock' >= clock /\ begun' = begun /\ now' = now
          /\ pc = "capture" /\ pc' = "check"
      BY <1>0, <1>4, FrameTime, NoFrameTime DEF Frame, NoFrame
    <2>2. Ended = n - 1 /\ Ended' = n /\ InLoop /\ ~InLoop' /\ n >= 1 /\ begun[n] = now
      BY <1>0, <2>1 DEF Ended, InLoop, BusyInv
    <2>3. \A i \in 1..n : i + MaxFailures + 1 <= n => clock' - begun[i] >= Shortest
      <3> SUFFICES ASSUME NEW i \in 1..n, i + MaxFailures + 1 <= n
                   PROVE  clock' - begun[i] >= Shortest
        OBVIOUS
      <3>1. i + MaxFailures <= Ended
        BY <1>a, <2>2
      <3>2. clock - begun[i] >= Shortest
        BY <1>0, <2>1, <3>1, Paused
      <3> QED
        BY <1>a, <2>1, <3>2
    <2>4. /\ \A i, j \in 1..n : i <= j => begun[i] <= begun[j]
          /\ \A i \in 1..n : begun[i] <= clock
      BY <1>0 DEF BusyInv
    <2>5. \A i \in 1..n : begun[i] <= clock'
      BY <1>a, <2>1, <2>4
    <2>6. /\ failures' <= n
          /\ failures' <= MaxFailures /\ failures' < n => last' = begun[n - failures']
          /\ failures' > MaxFailures => clock' >= begun[n] + InitialBackoff * 1000
      <3>1. CASE Frame
        BY <1>a, <2>2, <3>1 DEF Frame
      <3>2. CASE NoFrame
        <4>1. failures' = failures + 1 /\ last' = last
          BY <3>2 DEF NoFrame
        <4>2. failures <= n - 1
          BY <1>0, <2>2 DEF BusyInv
        <4>3. failures <= MaxFailures /\ failures < n - 1 => last = begun[(n - 1) - failures]
          BY <1>0, <2>2 DEF BusyInv
        <4>4. (n - 1) - failures = n - failures'
          BY <1>a, <4>1
        <4>5. failures' > MaxFailures => clock' >= clock + InitialBackoff * 1000
          BY <1>0, <3>2, NoFrameTime
        <4>6. n \in 1..n /\ begun[n] \in Nat /\ begun[n] <= clock
          BY <1>a, <2>2, <2>4
        <4>7. failures' > MaxFailures => clock' >= begun[n] + InitialBackoff * 1000
          BY <1>a, <2>1, <4>5, <4>6
        <4>8. failures' <= n
          BY <1>a, <4>1, <4>2
        <4>9. failures' <= MaxFailures /\ failures' < n => last' = begun[n - failures']
          BY <1>a, <4>1, <4>3, <4>4
        <4> QED
          BY <4>7, <4>8, <4>9
      <3> QED
        BY <1>4, <3>1, <3>2
    <2>7. NoBusyLoop'
      BY <1>0, <2>1 DEF BusyInv, NoBusyLoop, Shortest
    <2> QED
      BY <2>1, <2>2, <2>3, <2>4, <2>5, <2>6, <2>7 DEF BusyInv, Shortest
  <1>5. CASE Stop \/ Finished \/ UNCHANGED vars
    BY <1>0, <1>5 DEF Stop, Finished, vars, BusyInv, Ended, InLoop, NoBusyLoop, Shortest
  <1> QED
    BY <1>1, <1>2, <1>3, <1>4, <1>5 DEF Next, LoopCheck

-----------------------------------------------------------------------------
(* The back-off doubles: what the recursive function is, and how it grows. *)

NatLess == {ss \in Nat \X Nat : ss[1] < ss[2]}

\* A set of natural numbers has a least element.
LEMMA Least ==
  ASSUME NEW T \in SUBSET Nat, T # {}
  PROVE  \E x \in T : \A y \in T : x <= y
  <1>1. IsWellFoundedOn(NatLess, Nat)
    <2>1. OpToRel(<, Nat) = NatLess
      BY DEF OpToRel, NatLess
    <2> QED
      BY <2>1, NatLessThanWellFounded
  <1>2. PICK x \in T : \A y \in T : ~(<<y, x>> \in NatLess)
    BY <1>1, WFMin
  <1>3. \A y \in T : y \in Nat /\ x \in Nat /\ ~(y < x)
    BY <1>2 DEF NatLess
  <1> QED
    BY <1>2, <1>3

\* Induction, for a set: it holds every number if it holds 0 and with n its successor.
LEMMA AllOfNat ==
  ASSUME NEW S \in SUBSET Nat, 0 \in S, \A n \in S : n + 1 \in S
  PROVE  S = Nat
  <1> SUFFICES ASSUME Nat \ S # {} PROVE FALSE
    OBVIOUS
  <1>1. PICK x \in Nat \ S : \A y \in Nat \ S : x <= y
    <2> DEFINE T == Nat \ S
    <2>1. T \in SUBSET Nat /\ T # {}
      OBVIOUS
    <2> HIDE DEF T
    <2>2. \E x \in T : \A y \in T : x <= y
      BY <2>1, Least
    <2> QED
      BY <2>2 DEF T
  <1>2. x # 0 /\ x - 1 \in Nat /\ ~(x <= x - 1)
    BY <1>1
  <1>3. x - 1 \in S
    BY <1>1, <1>2
  <1>4. (x - 1) + 1 = x
    BY <1>1
  <1> QED
    BY <1>1, <1>3, <1>4

\* A table of the first n + 1 doublings.
Doubles(g, n) ==
  /\ g \in [0..n -> Nat] /\ g[0] = InitialBackoff
  /\ \A k \in 1..n : g[k] = 2 * g[k - 1]

\* There is such a table of every length.
LEMMA DoublesExist == ASSUME NEW n \in Nat PROVE \E g : Doubles(g, n)
  <1> DEFINE S == {m \in Nat : \E g : Doubles(g, m)}
  <1>1. 0 \in S
    <2>1. Doubles([k \in 0..0 |-> InitialBackoff], 0)
      BY PacingAssumption DEF Doubles
    <2> QED
      BY <2>1
  <1>2. ASSUME NEW m \in S PROVE m + 1 \in S
    <2>1. PICK g : Doubles(g, m)
      OBVIOUS
    <2> DEFINE h == [k \in 0..(m + 1) |-> IF k = m + 1 THEN 2 * g[m] ELSE g[k]]
    <2>2. m \in Nat /\ g \in [0..m -> Nat] /\ g[0] = InitialBackoff
          /\ \A k \in 1..m : g[k] = 2 * g[k - 1]
      BY <2>1 DEF Doubles
    <2>3. \A k \in 0..m : h[k] = g[k]
      BY <2>2
    <2>3a. h[m + 1] = 2 * g[m] /\ g[m] \in Nat
      BY <2>2
    <2>4. h \in [0..(m + 1) -> Nat]
      BY <2>2
    <2>5. h[0] = InitialBackoff
      BY <2>2, <2>3
    <2> HIDE DEF h
    <2>6. ASSUME NEW k \in 1..(m + 1) PROVE h[k] = 2 * h[k - 1]
      <3>1. k - 1 \in 0..m
        BY <2>2
      <3>2. CASE k = m + 1
        BY <2>2, <2>3, <2>3a, <3>1, <3>2
      <3>3. CASE k \in 1..m
        BY <2>2, <2>3, <3>1, <3>3
      <3> QED
        BY <2>2, <3>2, <3>3
    <2>7. Doubles(h, m + 1)
      BY <2>4, <2>5, <2>6 DEF Doubles
    <2> QED
      BY <2>2, <2>7
  <1> HIDE DEF S
  <1>3. S = Nat
    <2>1. S \in SUBSET Nat
      BY DEF S
    <2> QED
      BY <1>1, <1>2, <2>1, AllOfNat
  <1> QED
    BY <1>3 DEF S

\* Two tables have the same values where both have one.
LEMMA DoublesAgree ==
  ASSUME NEW n \in Nat, NEW m \in Nat, NEW g, NEW h, Doubles(g, n), Doubles(h, m)
  PROVE  \A k \in Nat : k <= n /\ k <= m => g[k] = h[k]
  <1> DEFINE S == {k \in Nat : k <= n /\ k <= m => g[k] = h[k]}
  <1>1. 0 \in S
    BY DEF Doubles
  <1>2. ASSUME NEW k \in S PROVE k + 1 \in S
    <2> SUFFICES ASSUME k + 1 <= n, k + 1 <= m PROVE g[k + 1] = h[k + 1]
      BY DEF S
    <2>1. k \in Nat /\ g[k] = h[k] /\ k + 1 \in 1..n /\ k + 1 \in 1..m /\ (k + 1) - 1 = k
      OBVIOUS
    <2> QED
      BY <2>1 DEF Doubles
  <1> HIDE DEF S
  <1>3. S = Nat
    <2>1. S \in SUBSET Nat
      BY DEF S
    <2> QED
      BY <1>1, <1>2, <2>1, AllOfNat
  <1> QED
    BY <1>3 DEF S

\* The recursive function exists: it takes its value at n from a table up to n.
LEMMA DoublingsRecursion ==
  Doublings = [k \in Nat |-> IF k = 0 THEN InitialBackoff ELSE 2 * Doublings[k - 1]]
  <1> DEFINE T(n) == CHOOSE g : Doubles(g, n)
             f == [n \in Nat |-> T(n)[n]]
  <1>1. ASSUME NEW n \in Nat PROVE Doubles(T(n), n)
    BY DoublesExist
  <1> HIDE DEF T
  <1>2. ASSUME NEW n \in Nat PROVE f[n] = IF n = 0 THEN InitialBackoff ELSE 2 * f[n - 1]
    <2>1. CASE n = 0
      BY <1>1, <2>1 DEF Doubles
    <2>2. CASE n # 0
      <3>1. n - 1 \in Nat /\ n \in 1..n /\ n - 1 <= n /\ n - 1 <= n - 1
        BY <2>2
      <3>2. T(n)[n] = 2 * T(n)[n - 1]
        BY <1>1, <3>1 DEF Doubles
      <3>3. T(n)[n - 1] = T(n - 1)[n - 1]
        BY <1>1, <3>1, DoublesAgree
      <3> QED
        BY <2>2, <3>1, <3>2, <3>3
    <2> QED
      BY <2>1, <2>2
  <1>3. f = [n \in Nat |-> IF n = 0 THEN InitialBackoff ELSE 2 * f[n - 1]]
    <2> DEFINE r == [n \in Nat |-> IF n = 0 THEN InitialBackoff ELSE 2 * f[n - 1]]
    <2>1. \A n \in Nat : f[n] = r[n]
      BY <1>2
    <2>2. f = [n \in Nat |-> f[n]] /\ r = [n \in Nat |-> r[n]]
      OBVIOUS
    <2> HIDE DEF f, r
    <2>3. DOMAIN f = Nat /\ DOMAIN r = Nat
      BY DEF f, r
    <2>4. f = r
      BY <2>1, <2>2
    <2> QED
      BY <2>4 DEF r
  <1> HIDE DEF f
  <1> QED
    BY <1>3 DEF Doublings

LEMMA DoublingsSteps ==
  /\ Doublings[0] = InitialBackoff
  /\ \A n \in Nat : Doublings[n + 1] = 2 * Doublings[n]
  <1>1. \A n \in Nat : n + 1 # 0 /\ n + 1 \in Nat /\ (n + 1) - 1 = n
    OBVIOUS
  <1> DEFINE body(k) == IF k = 0 THEN InitialBackoff ELSE 2 * Doublings[k - 1]
  <1>2. Doublings = [k \in Nat |-> body(k)]
    BY DoublingsRecursion
  <1> HIDE DEF body
  <1>3. \A k \in Nat : Doublings[k] = body(k)
    BY <1>2
  <1> QED
    BY <1>1, <1>3 DEF body

LEMMA DoublingsType == \A n \in Nat : Doublings[n] \in Nat
  <1> DEFINE S == {n \in Nat : Doublings[n] \in Nat}
  <1>1. 0 \in S
    BY DoublingsSteps, PacingAssumption
  <1>2. ASSUME NEW n \in S PROVE n + 1 \in S
    BY DoublingsSteps
  <1>3. S = Nat
    <2>1. S \in SUBSET Nat
      OBVIOUS
    <2> HIDE DEF S
    <2> QED
      BY <1>1, <1>2, <2>1, AllOfNat
  <1> QED
    BY <1>3

\* Without a failure there are not too many.
LEMMA NoExcess == 0 - AtMost(0, MaxFailures) = 0
  <1>1. AtMost(0, MaxFailures) = 0
    BY PacingAssumption DEF AtMost
  <1> QED
    BY <1>1

\* A failure raises the excess by one once there are too many, and doubles the back-off then.
LEMMA BackoffStep ==
  ASSUME TypeOK, BackoffFollows, [Next]_vars
  PROVE  BackoffFollows'
  <1>0. /\ failures \in Nat /\ backoff \in InitialBackoff..MaxBackoff
        /\ MaxFailures \in Nat /\ InitialBackoff \in Nat /\ MaxBackoff \in Nat
        /\ InitialBackoff <= MaxBackoff
    BY PacingAssumption DEF TypeOK
  <1>1. CASE Frame
    <2>1. failures' = 0 /\ backoff' = InitialBackoff
      BY <1>1 DEF Frame
    <2>2. Excess' = 0
      BY <2>1, NoExcess DEF Excess
    <2> QED
      BY <1>0, <2>1, <2>2, DoublingsSteps DEF BackoffFollows, AtMost
  <1>2. CASE NoFrame
    <2>1. failures' = failures + 1
      BY <1>2 DEF NoFrame
    <2>2. CASE failures' > MaxFailures
      <3>1. Excess \in Nat /\ Excess' = Excess + 1
        BY <1>0, <2>1, <2>2 DEF Excess, AtMost
      <3>2. /\ Doublings[Excess] \in Nat
            /\ Doublings[Excess + 1] = 2 * Doublings[Excess]
        BY <3>1, DoublingsSteps, DoublingsType
      <3>3. backoff' = AtMost(backoff * 2, MaxBackoff)
        BY <1>2, <2>2 DEF NoFrame, TooMany, NextBackoff
      <3> DEFINE d == Doublings[Excess]
      <3>4. d \in Nat /\ backoff = AtMost(d, MaxBackoff)
        BY <3>2 DEF BackoffFollows
      <3>5. Doublings[Excess'] = 2 * d
        BY <3>1, <3>2
      <3> HIDE DEF d
      <3>6. AtMost(AtMost(d, MaxBackoff) * 2, MaxBackoff) = AtMost(2 * d, MaxBackoff)
        BY <1>0, <3>4 DEF AtMost
      <3> QED
        BY <3>3, <3>4, <3>5, <3>6 DEF BackoffFollows
    <2>3. CASE ~(failures' > MaxFailures)
      <3>1. Excess' = 0 /\ Excess = 0
        BY <1>0, <2>1, <2>3 DEF Excess, AtMost
      <3>2. backoff' = backoff
        BY <1>2, <2>3 DEF NoFrame, TooMany
      <3> QED
        BY <3>1, <3>2 DEF BackoffFollows
    <2> QED
      BY <2>2, <2>3
  <1>3. CASE LoopCheck \/ Pace \/ Stop \/ Finished \/ UNCHANGED vars
    BY <1>3 DEF LoopCheck, Pace, Stop, Finished, vars, BackoffFollows, Excess
  <1> QED
    BY <1>1, <1>2, <1>3 DEF Next

-----------------------------------------------------------------------------
(* The theorems. *)

LEMMA PacingInvariant == Spec => []PacingInv
  <1>1. PacingInv /\ [Next]_vars => PacingInv'
    BY PacingTypeStep, FrameStep, StopStep, BusyStep DEF PacingInv
  <1> QED
    BY <1>1, PacingStart, PTL DEF Spec

\* Every variable keeps its type; the back-off stays in its range.
THEOREM PacingTypeCorrect == Spec => []TypeOK
  BY PacingInvariant, PTL DEF PacingInv

\* Two frames per period at most, whatever the durations of captures and sleeps.
THEOREM AtMostTwoPerPeriodHolds == Spec => []AtMostTwoPerPeriod
  <1>1. PacingInv => AtMostTwoPerPeriod
    BY DEF PacingInv, FrameInv
  <1> QED
    BY <1>1, PacingInvariant, PTL

\* MaxFailures + 2 iterations never pass without a pause, in any mix of frames and failures.
THEOREM NoBusyLoopHolds == Spec => []NoBusyLoop
  <1>1. PacingInv => NoBusyLoop
    BY DEF PacingInv, BusyInv
  <1> QED
    BY <1>1, PacingInvariant, PTL

\* The loop ends at most one iteration after it is told to, with the longest back-off.
THEOREM StopIsPromptHolds == Spec => []StopIsPrompt
  <1>1. PacingInv => StopIsPrompt
    BY DEF PacingInv, StopInv, StopIsPrompt
  <1> QED
    BY <1>1, PacingInvariant, PTL

\* The back-off is determined by the number of failures in a row, whatever came before: no
\* order of frames and failures leaves it doubled too often, too seldom or above its limit.
THEOREM BackoffFollowsHolds == Spec => []BackoffFollows
  <1>1. Init => BackoffFollows
    <2> SUFFICES ASSUME Init PROVE BackoffFollows
      OBVIOUS
    <2>1. failures = 0 /\ backoff = InitialBackoff
      BY DEF Init
    <2>2. Excess = 0
      BY <2>1, NoExcess DEF Excess
    <2>3. Doublings[0] = InitialBackoff
      BY DoublingsSteps
    <2> QED
      BY <2>1, <2>2, <2>3, PacingAssumption DEF BackoffFollows, AtMost
  <1>2. PacingInv /\ BackoffFollows /\ [Next]_vars => BackoffFollows'
    BY BackoffStep DEF PacingInv
  <1> QED
    BY <1>1, <1>2, PacingInvariant, PTL DEF Spec
=============================================================================
