----------------------- MODULE WebSocketClientProofs -----------------------
(***************************************************************************)
(* Proofs about WebSocketClient, for any messages, threads and callers,    *)
(* and whether or not the application disconnects.                         *)
(***************************************************************************)
EXTENDS WebSocketClient, TLAPS, SequenceTheorems

-----------------------------------------------------------------------------
(* The inductive invariant. *)

\* Until the handshake is over nothing happens but refused calls.
StartInv ==
  main \in {"start", "connecting"} =>
    /\ ~IsConnected
    /\ disc = "idle"
    /\ status # "SENDING" /\ queue = <<>>
    /\ strand = <<>> /\ io = "idle"
    /\ reading = FALSE /\ writes = <<>> /\ closing = "none"
    /\ \A m \in Messages : call[m] \in {"idle", "dropped"}

\* One write cycle: DoSend starts a write, the write completes, OnWrite pops and
\* reports.  At most one is under way while the client is connected, and the status
\* field says so until OnWrite settles it.
OneOnWrite ==
  \A i, j \in 1..Len(strand) :
    strand[i].op = "OnWrite" /\ strand[j].op = "OnWrite" => i = j

Cycle == writes # <<>> \/ IsReady("OnWrite") \/ io # "idle"
Writing == writes # <<>> \/ IsReady("OnWrite") \/ io \in {"sending", "sent", "failed"}
InOnWrite == io \in {"sent", "failed", "tellSent", "tellFailed"}

\* Nobody is being refused, so that what OnWrite assigned is what its callback gets.
CycleInv ==
  IsConnected =>
    /\ disc \in {"idle", "checked"}
    /\ \A m \in Messages : call[m] # "refusing"
    /\ Len(writes) <= 1
    /\ OneOnWrite
    /\ writes # <<>> => io = "idle" /\ ~IsReady("OnWrite")
    /\ IsReady("OnWrite") => io = "idle"
    /\ Writing => status = "SENDING"
    /\ io = "idle" /\ Cycle => queue # <<>>
    /\ InOnWrite => current # NoMessage
    /\ io = "tellSent" /\ current \notin Silent => status = "SENT"
    /\ io = "tellFailed" /\ current \notin Silent => status = "FAILED"
    /\ Silent = {} /\ status = "SENDING" => Cycle /\ io # "next"

\* DoSend holds the lock until it has called back, so that its message stays at the head.
LockInv == io = "sending" => queue # <<>>

\* A message is in one place: with its sender, in the queue, in OnWrite, or done.
Distinct(q) == \A i, j \in 1..Len(q) : q[i] = q[j] => i = j
Entered(m) == call[m] \in {"pushed", "posted"}
Ended(m) == outcome[m] # "none"

OutcomeInv ==
  /\ Distinct(queue)
  /\ ~InOnWrite => current = NoMessage
  /\ \A m \in Messages :
       /\ m \in Queued \/ m = current => Entered(m) /\ ~Ended(m)
       /\ m \in Queued => m # current
       /\ ~Entered(m) /\ call[m] # "refused" => ~Ended(m)
       /\ m \in ToSet(pushed) => Entered(m)
       /\ m \in ToSet(pushed) => m \in Queued \/ m = current \/ Ended(m)

-----------------------------------------------------------------------------
(* Type correctness. *)

LEMMA TypeInit == Init => TypeOK
  <1> SUFFICES ASSUME Init PROVE TypeOK
    OBVIOUS
  <1> USE DEF Init
  <1>1. /\ connState \in ConnectionState
        /\ status \in MessageStatus
        /\ current \in Messages \cup {NoMessage}
        /\ call \in [Messages -> CallState]
        /\ told \in [Messages -> MessageStatus]
        /\ outcome \in [Messages -> FinalStatus \cup {"none"}]
    BY DEF ConnectionState, MessageStatus, CallState
  <1>2. /\ queue \in Seq(Messages)
        /\ strand \in Seq(Handler)
        /\ writes \in Seq([msg : Messages, live : BOOLEAN])
        /\ pushed \in Seq(Messages)
        /\ wire \in Seq(Messages)
    OBVIOUS
  <1>3. /\ io \in {"idle", "sending", "sent", "failed", "tellSent", "tellFailed", "next"}
        /\ main \in {"start", "connecting", "handshaken", "run", "returned"}
        /\ disc \in {"idle", "checked", "flush", "post", "done"}
        /\ stream \in {"none", "open", "failed"}
        /\ reading \in BOOLEAN
        /\ closing \in {"none", "open", "failed"}
    OBVIOUS
  <1> QED
    BY <1>1, <1>2, <1>3 DEF TypeOK

\* Appending a handler to the strand, and taking the first one off.
LEMMA StrandTypes ==
  ASSUME strand \in Seq(Handler)
  PROVE  /\ \A op \in {"DoSend", "OnWrite", "OnRead", "Close", "OnClose"}, ok \in BOOLEAN :
              Ready(op, ok) \in Seq(Handler)
         /\ strand # <<>> => Tail(strand) \in Seq(Handler) /\ Head(strand) \in Handler
  <1>1. ASSUME NEW op \in {"DoSend", "OnWrite", "OnRead", "Close", "OnClose"},
               NEW ok \in BOOLEAN
        PROVE  Ready(op, ok) \in Seq(Handler)
    <2>1. [op |-> op, ok |-> ok] \in Handler
      BY DEF Handler
    <2> QED
      BY <2>1 DEF Ready
  <1>2. strand # <<>> => Tail(strand) \in Seq(Handler) /\ Head(strand) \in Handler
    OBVIOUS
  <1> QED
    BY <1>1, <1>2

\* What a callback gets is a status, and what a call ends with a final one.
LEMMA NotifyType ==
  ASSUME told \in [Messages -> MessageStatus],
         NEW ms, NEW s \in MessageStatus
  PROVE  Notify(ms, s) \in [Messages -> MessageStatus]
  BY DEF Notify

LEMMA EndsType ==
  ASSUME outcome \in [Messages -> FinalStatus \cup {"none"}],
         NEW ms, NEW s \in FinalStatus
  PROVE  Ends(ms, s) \in [Messages -> FinalStatus \cup {"none"}]
  BY DEF Ends

\* DoSend appends a write of the head of the queue.
LEMMA StartWriteFacts ==
  ASSUME TypeOK, StartWrite, queue # <<>>
  PROVE  /\ Head(queue) = queue[1] /\ queue[1] \in Messages /\ queue[1] \in Queued
         /\ writes' \in Seq([msg : Messages, live : BOOLEAN])
         /\ writes' # <<>> /\ Len(writes') = Len(writes) + 1
         /\ \A i \in 1..Len(writes) : writes'[i] = writes[i]
         /\ writes'[Len(writes) + 1] = [msg |-> queue[1], live |-> stream = "open"]
  <1> DEFINE Write == [msg : Messages, live : BOOLEAN]
             w == [msg |-> queue[1], live |-> stream = "open"]
  <1>1. /\ Head(queue) = queue[1] /\ queue[1] \in Messages /\ queue[1] \in Queued
    BY DEF TypeOK, Queued, ToSet
  <1>2. writes' = Append(writes, w)
    BY <1>1 DEF StartWrite
  <1>3. w \in Write /\ writes \in Seq(Write)
    BY <1>1 DEF TypeOK
  <1> HIDE DEF w, Write
  <1>4. /\ writes' \in Seq(Write) /\ writes' # <<>> /\ Len(writes') = Len(writes) + 1
        /\ \A i \in 1..Len(writes) : writes'[i] = writes[i]
        /\ writes'[Len(writes) + 1] = w
    BY <1>2, <1>3, AppendProperties
  <1> QED
    BY <1>1, <1>4 DEF w, Write

\* What is left of the outstanding writes when the first one completes.
LEMMA WritesType ==
  ASSUME TypeOK, NEW ok \in BOOLEAN, WriteCompletes(ok)
  PROVE  /\ writes' \in Seq([msg : Messages, live : BOOLEAN])
         /\ Len(writes') = Len(writes) - 1
         /\ wire' \in Seq(Messages)
  <1> DEFINE Write == [msg : Messages, live : BOOLEAN]
             n == Len(writes) - 1
  <1>1. writes \in Seq(Write) /\ Len(writes) \in Nat /\ Len(writes) # 0
    BY DEF TypeOK, WriteCompletes
  <1>2. n \in Nat
    BY <1>1
  <1>3. \A i \in 1..n : [msg |-> writes[i + 1].msg, live |-> stream' = "open"] \in Write
    <2> SUFFICES ASSUME NEW i \in 1..n
                 PROVE  [msg |-> writes[i + 1].msg, live |-> stream' = "open"] \in Write
      OBVIOUS
    <2>1. i + 1 \in 1..Len(writes)
      BY <1>1, <1>2
    <2>2. writes[i + 1] \in Write
      <3> HIDE DEF Write
      <3> QED  BY <1>1, <2>1
    <2>3. writes[i + 1].msg \in Messages
      BY <2>2
    <2> QED
      BY <2>3
  <1>4. writes' = [i \in 1..n |-> [msg |-> writes[i + 1].msg, live |-> stream' = "open"]]
    BY DEF WriteCompletes
  <1>5. writes' \in Seq(Write) /\ Len(writes') = n
    BY <1>2, <1>3, <1>4, IsASeq
  <1>6. wire' \in Seq(Messages)
    <2>1. Head(writes) \in Write
      <3> HIDE DEF Write
      <3> QED  BY <1>1
    <2>2. Head(writes).msg \in Messages
      BY <2>1
    <2> QED
      BY <2>2 DEF WriteCompletes, TypeOK
  <1> QED
    BY <1>5, <1>6

LEMMA TypeStep == TypeOK /\ LockInv /\ [Next]_vars => TypeOK'
  <1> SUFFICES ASSUME TypeOK, LockInv, [Next]_vars
               PROVE  TypeOK'
    OBVIOUS
  <1> USE DEF TypeOK
  <1>1. CASE Connect
    BY <1>1 DEF Connect, clientVars, streamVars, historyVars, ConnectionState, SetConnectionState, IsConnected, Read
  <1>2. CASE ConnectFails
    BY <1>2 DEF ConnectFails, clientVars, streamVars, historyVars, ConnectionState, SetConnectionState, IsConnected, Read
  <1>3. CASE Handshake
    BY <1>3 DEF Handshake, clientVars, streamVars, historyVars, ConnectionState, SetConnectionState, IsConnected, Read
  <1>4. CASE StartRead
    BY <1>4 DEF StartRead, clientVars, streamVars, historyVars, ConnectionState, SetConnectionState, IsConnected, Read
  <1>5. CASE RunReturns
    BY <1>5 DEF RunReturns, clientVars, streamVars, historyVars, ConnectionState, SetConnectionState, IsConnected, Read
  <1>6. ASSUME NEW m \in Messages, SendToPeer(m) PROVE TypeOK'
    BY <1>6 DEF SendToPeer, clientVars, streamVars, historyVars, CallState
  <1>7. ASSUME NEW m \in Messages, SendRefused(m) \/ TellRefused(m) PROVE TypeOK'
    <2>1. CASE SendRefused(m)
      BY <2>1 DEF SendRefused, streamVars, historyVars, CallState, MessageStatus
    <2>2. CASE TellRefused(m)
      <3>1. told' \in [Messages -> MessageStatus] /\ outcome' \in [Messages -> FinalStatus \cup {"none"}]
        BY <2>2, NotifyType, EndsType DEF TellRefused, FinalStatus
      <3>2. /\ call' \in [Messages -> CallState]
            /\ UNCHANGED <<clientVars, strand, io, current, main, disc, streamVars, pushed, wire>>
        BY <2>2 DEF TellRefused, CallState
      <3> QED
        BY <3>1, <3>2 DEF clientVars, streamVars
    <2> QED
      BY <1>7, <2>1, <2>2
  <1>8. ASSUME NEW m \in Messages, SendAccepted(m) PROVE TypeOK'
    BY <1>8 DEF SendAccepted, clientVars, streamVars, historyVars, CallState
  <1>9. ASSUME NEW m \in Messages, Push(m) PROVE TypeOK'
    BY <1>9 DEF Push, clientVars, streamVars, historyVars, CallState
  <1>10. ASSUME NEW m \in Messages, PostDoSend(m) PROVE TypeOK'
    BY <1>10 DEF PostDoSend, clientVars, streamVars, historyVars, CallState, Handler, Ready
  <1>11. CASE RunDoSend \/ SendNext
    <2>1. status' \in MessageStatus /\ io' \in {"idle", "sending"}
      BY <1>11 DEF RunDoSend, SendNext, DoSend, MessageStatus
    <2>2. strand' \in Seq(Handler)
      BY <1>11, StrandTypes DEF RunDoSend, SendNext, Runs
    <2>3. UNCHANGED <<connState, queue, current, main, call, disc, streamVars, historyVars>>
      BY <1>11 DEF RunDoSend, SendNext
    <2> QED
      BY <2>1, <2>2, <2>3 DEF streamVars, historyVars
  <1>12. CASE StartWrite
    <2>1. writes' \in Seq([msg : Messages, live : BOOLEAN])
      BY <1>12, StartWriteFacts DEF LockInv, StartWrite
    <2>2. told' \in [Messages -> MessageStatus] /\ io' = "idle"
      BY <1>12, NotifyType DEF StartWrite
    <2>3. UNCHANGED <<clientVars, strand, current, main, call, disc, stream, reading, closing, outcome, pushed, wire>>
      BY <1>12 DEF StartWrite
    <2> QED
      BY <2>1, <2>2, <2>3 DEF clientVars
  <1>13. CASE OnWritePop
    <2>1. queue' \in Seq(Messages) /\ current' \in Messages \cup {NoMessage}
      BY <1>13 DEF OnWritePop
    <2>2. strand' \in Seq(Handler)
      BY <1>13, StrandTypes DEF OnWritePop, Runs
    <2>3. /\ io' \in {"sent", "failed"}
          /\ UNCHANGED <<connState, status, main, call, disc, streamVars, historyVars>>
      BY <1>13 DEF OnWritePop
    <2> QED
      BY <2>1, <2>2, <2>3 DEF streamVars, historyVars
  <1>14. CASE OnWriteSettles
    BY <1>14 DEF OnWriteSettles, Settled, streamVars, historyVars, MessageStatus
  <1>26. CASE OnWriteFailed \/ OnWriteSent
    BY <1>26, NotifyType, EndsType
    DEF OnWriteFailed, OnWriteSent, clientVars, streamVars, FinalStatus, SetConnectionState, ConnectionState
  <1>15. CASE OnRead
    BY <1>15, StrandTypes DEF OnRead, clientVars, streamVars, historyVars, Runs, SetConnectionState, ConnectionState, Read, IsConnected
  <1>16. CASE RunClose
    BY <1>16, StrandTypes DEF RunClose, clientVars, streamVars, historyVars, Runs
  <1>17. CASE OnClose
    BY <1>17, StrandTypes DEF OnClose, clientVars, streamVars, historyVars, Runs, SetConnectionState, ConnectionState
  <1>18. ASSUME NEW ok \in BOOLEAN, WriteCompletes(ok) PROVE TypeOK'
    <2>1. writes' \in Seq([msg : Messages, live : BOOLEAN]) /\ wire' \in Seq(Messages)
      BY <1>18, WritesType
    <2>2. strand' \in Seq(Handler)
      BY <1>18, StrandTypes DEF WriteCompletes
    <2>3. /\ stream' \in {"none", "open", "failed"}
          /\ UNCHANGED <<clientVars, io, current, main, call, disc, reading, closing, told, outcome, pushed>>
      BY <1>18 DEF WriteCompletes
    <2> QED
      BY <2>1, <2>2, <2>3 DEF clientVars
  <1>19. ASSUME NEW ok \in BOOLEAN, ReadCompletes(ok) PROVE TypeOK'
    <2>1. strand' \in Seq(Handler)
      BY <1>19, StrandTypes DEF ReadCompletes
    <2>2. /\ stream' \in {"none", "open", "failed"} /\ reading' = FALSE
          /\ UNCHANGED <<clientVars, io, current, main, call, disc, writes, closing, historyVars>>
      BY <1>19 DEF ReadCompletes
    <2> QED
      BY <2>1, <2>2 DEF clientVars, historyVars
  <1>20. ASSUME NEW ok \in BOOLEAN, CloseCompletes(ok) PROVE TypeOK'
    BY <1>20, StrandTypes DEF CloseCompletes, clientVars, streamVars, historyVars
  <1>21. CASE DisconnectBegins
    BY <1>21 DEF DisconnectBegins, clientVars, streamVars, historyVars
  <1>22. CASE DisconnectCloses
    BY <1>22 DEF DisconnectCloses, clientVars, streamVars, historyVars, SetConnectionState, ConnectionState
  <1>23. CASE DisconnectFlushes
    BY <1>23, NotifyType, EndsType DEF DisconnectFlushes, clientVars, streamVars, historyVars, MessageStatus, FinalStatus
  <1>24. CASE DisconnectPosts
    BY <1>24, StrandTypes DEF DisconnectPosts, clientVars, streamVars, historyVars
  <1>25. CASE Terminated \/ UNCHANGED vars
    BY <1>25 DEF Terminated, vars, clientVars, threadVars, streamVars, historyVars
  <1> QED
    BY <1>1, <1>2, <1>3, <1>4, <1>5, <1>6, <1>7, <1>8, <1>9, <1>10, <1>11, <1>12, <1>13, <1>14, <1>15, <1>16, <1>17, <1>18, <1>19, <1>20, <1>21, <1>22, <1>23, <1>24, <1>25, <1>26
    DEF Next, MainStep, CallStep, IoStep, StreamStep, DisconnectStep

LEMMA LockInit == Init => LockInv
  BY DEF Init, LockInv

LEMMA LockStep == TypeOK /\ LockInv /\ [Next]_vars => LockInv'
  <1> SUFFICES ASSUME TypeOK, LockInv, [Next]_vars
               PROVE  LockInv'
    OBVIOUS
  <1> USE DEF LockInv
  <1>1. CASE MainStep
    BY <1>1 DEF MainStep, Connect, ConnectFails, Handshake, StartRead, RunReturns, clientVars
  <1>2. ASSUME NEW m \in Messages, CallStep(m) PROVE LockInv'
    <2>1. CASE Push(m)
      BY <2>1 DEF Push, Locked
    <2> QED
      BY <1>2, <2>1 DEF CallStep, SendToPeer, SendRefused, TellRefused, SendAccepted, PostDoSend, clientVars
  <1>3. CASE IoStep
    BY <1>3 DEF IoStep, RunDoSend, StartWrite, OnWritePop, OnWriteSettles, OnWriteFailed, OnWriteSent, SendNext, OnRead,
                RunClose, OnClose, DoSend, clientVars
  <1>4. CASE StreamStep
    BY <1>4 DEF StreamStep, WriteCompletes, ReadCompletes, CloseCompletes, clientVars
  <1>5. CASE DisconnectStep
    BY <1>5 DEF DisconnectStep, DisconnectBegins, DisconnectCloses, DisconnectFlushes, DisconnectPosts,
                clientVars, Locked
  <1>6. CASE Terminated \/ UNCHANGED vars
    BY <1>6 DEF Terminated, vars, clientVars, threadVars
  <1> QED
    BY <1>1, <1>2, <1>3, <1>4, <1>5, <1>6 DEF Next

\* Every variable has its type.  That StartWrite has a message to write needs the lock that
\* DoSend holds since its look at the queue (LockInv).
THEOREM TypeCorrect == Spec => []TypeOK
  BY TypeInit, TypeStep, LockInit, LockStep, PTL DEF Spec
-----------------------------------------------------------------------------
(* The strand: what a posted handler and a started handler change. *)

HandlerNames == {"DoSend", "OnWrite", "OnRead", "Close", "OnClose"}

LEMMA Posted ==
  ASSUME TypeOK, NEW op \in HandlerNames, NEW ok \in BOOLEAN, strand' = Ready(op, ok)
  PROVE  /\ \A h \in HandlerNames : IsReady(h)' <=> IsReady(h) \/ h = op
         /\ OneOnWrite /\ (op = "OnWrite" => ~IsReady("OnWrite")) => OneOnWrite'
  <1> DEFINE n == Len(strand)
  <1>1. /\ strand \in Seq(Handler)
        /\ strand' = Append(strand, [op |-> op, ok |-> ok])
        /\ n \in Nat
    BY DEF TypeOK, Ready
  <1>2. /\ Len(strand') = n + 1
        /\ \A i \in 1..n : strand'[i] = strand[i]
        /\ strand'[n + 1].op = op
    BY <1>1
  <1> HIDE DEF n
  <1>3. \A i \in 1..(n + 1) : i \in 1..n \/ i = n + 1
    BY <1>1
  <1>4. 1..n \subseteq 1..(n + 1) /\ n + 1 \in 1..(n + 1) /\ n = Len(strand)
    BY <1>1 DEF n
  <1>5. \A h \in HandlerNames : IsReady(h)' <=> IsReady(h) \/ h = op
    BY <1>2, <1>3, <1>4 DEF IsReady
  <1>6. ASSUME OneOnWrite, op = "OnWrite" => ~IsReady("OnWrite")
        PROVE  OneOnWrite'
    BY <1>2, <1>3, <1>4, <1>6 DEF OneOnWrite, IsReady
  <1> QED
    BY <1>5, <1>6

LEMMA Started ==
  ASSUME TypeOK, NEW op \in HandlerNames, Runs(op)
  PROVE  /\ IsReady(op)
         /\ \A h \in HandlerNames : IsReady(h)' => IsReady(h)
         /\ \A h \in HandlerNames : h # op /\ IsReady(h) => IsReady(h)'
         /\ OneOnWrite => OneOnWrite'
         /\ OneOnWrite /\ op = "OnWrite" => ~IsReady("OnWrite")'
  <1> DEFINE n == Len(strand)
  <1>1. /\ strand \in Seq(Handler) /\ strand # <<>>
        /\ strand' = Tail(strand)
        /\ Head(strand).op = op
        /\ n \in Nat /\ n # 0
    BY DEF TypeOK, Runs
  <1>2. /\ Len(strand') = n - 1
        /\ \A i \in 1..(n - 1) : strand'[i] = strand[i + 1]
        /\ strand[1].op = op
    BY <1>1
  <1> HIDE DEF n
  <1>3. /\ n = Len(strand)
        /\ 1 \in 1..n
        /\ \A i \in 1..(n - 1) : i + 1 \in 1..n /\ i + 1 # 1
        /\ \A i \in 1..n : i # 1 => i - 1 \in 1..(n - 1) /\ (i - 1) + 1 = i
        /\ \A i, j \in 1..(n - 1) : i + 1 = j + 1 => i = j
    BY <1>1 DEF n
  <1>4. IsReady(op)
    BY <1>2, <1>3 DEF IsReady
  <1>5. \A h \in HandlerNames : IsReady(h)' => IsReady(h)
    BY <1>2, <1>3 DEF IsReady
  <1>6. ASSUME NEW h \in HandlerNames, h # op, IsReady(h)
        PROVE  IsReady(h)'
    <2>1. PICK i \in 1..n : strand[i].op = h
      BY <1>3, <1>6 DEF IsReady
    <2>2. i # 1
      BY <1>2, <1>6, <2>1
    <2>3. i - 1 \in 1..(n - 1) /\ strand'[i - 1] = strand[i]
      BY <1>2, <1>3, <2>2
    <2> QED
      BY <1>2, <2>1, <2>3 DEF IsReady
  <1>7. OneOnWrite => OneOnWrite'
    <2> SUFFICES ASSUME OneOnWrite, NEW i \in 1..(n - 1), NEW j \in 1..(n - 1),
                        strand'[i].op = "OnWrite", strand'[j].op = "OnWrite"
                 PROVE  i = j
      BY <1>2 DEF OneOnWrite
    <2>1. /\ i + 1 \in 1..n /\ j + 1 \in 1..n
          /\ strand[i + 1].op = "OnWrite" /\ strand[j + 1].op = "OnWrite"
      BY <1>2, <1>3
    <2>2. i + 1 = j + 1
      BY <1>3, <2>1 DEF OneOnWrite
    <2> QED
      BY <1>3, <2>2
  <1>8. OneOnWrite /\ op = "OnWrite" => ~IsReady("OnWrite")'
    <2> SUFFICES ASSUME OneOnWrite, op = "OnWrite",
                        NEW i \in 1..(n - 1), strand'[i].op = "OnWrite"
                 PROVE  FALSE
      BY <1>2 DEF IsReady
    <2>1. strand[i + 1].op = "OnWrite" /\ i + 1 \in 1..n /\ i + 1 # 1 /\ 1 \in 1..n
      BY <1>2, <1>3
    <2> QED
      BY <1>2, <1>3, <2>1 DEF OneOnWrite
  <1> QED
    BY <1>4, <1>5, <1>6, <1>7, <1>8
-----------------------------------------------------------------------------
(* Before the handshake is over. *)

LEMMA StartStep == TypeOK /\ StartInv /\ [Next]_vars => StartInv'
  <1> SUFFICES ASSUME TypeOK, StartInv, [Next]_vars
               PROVE  StartInv'
    OBVIOUS
  <1> USE DEF StartInv, IsConnected
  <1>1. CASE Connect
    BY <1>1 DEF Connect, clientVars, streamVars, SetConnectionState
  <1>2. CASE ConnectFails
    BY <1>2 DEF ConnectFails, clientVars, streamVars, SetConnectionState
  <1>3. CASE Handshake
    BY <1>3 DEF Handshake, clientVars, streamVars, SetConnectionState
  <1>4. CASE StartRead
    BY <1>4 DEF StartRead, clientVars, streamVars, SetConnectionState
  <1>5. CASE RunReturns
    BY <1>5 DEF RunReturns, clientVars, streamVars, SetConnectionState
  <1>6. ASSUME NEW m \in Messages, SendToPeer(m) PROVE StartInv'
    BY <1>6 DEF SendToPeer, clientVars, streamVars, TypeOK
  <1>7. ASSUME NEW m \in Messages, SendRefused(m) \/ TellRefused(m) PROVE StartInv'
    BY <1>7 DEF SendRefused, TellRefused, clientVars, streamVars, TypeOK
  <1>8. ASSUME NEW m \in Messages, SendAccepted(m) PROVE StartInv'
    BY <1>8 DEF SendAccepted, clientVars, streamVars, TypeOK
  <1>9. ASSUME NEW m \in Messages, Push(m) PROVE StartInv'
    BY <1>9 DEF Push, clientVars, streamVars, TypeOK
  <1>10. ASSUME NEW m \in Messages, PostDoSend(m) PROVE StartInv'
    BY <1>10 DEF PostDoSend, clientVars, streamVars, TypeOK
  <1>11. CASE IoStep
    BY <1>11 DEF IoStep, Runs, RunDoSend, StartWrite, OnWritePop, OnWriteSettles, OnWriteFailed, OnWriteSent, SendNext,
                 OnRead, RunClose, OnClose
  <1>12. CASE StreamStep
    BY <1>12 DEF StreamStep, WriteCompletes, ReadCompletes, CloseCompletes, clientVars, streamVars
  <1>13. CASE DisconnectBegins
    BY <1>13 DEF DisconnectBegins, clientVars, streamVars
  <1>14. CASE DisconnectCloses
    BY <1>14 DEF DisconnectCloses, clientVars, streamVars
  <1>15. CASE DisconnectFlushes
    BY <1>15 DEF DisconnectFlushes, clientVars, streamVars
  <1>16. CASE DisconnectPosts
    BY <1>16 DEF DisconnectPosts, clientVars, streamVars
  <1>17. CASE Terminated \/ UNCHANGED vars
    BY <1>17 DEF Terminated, vars, threadVars, historyVars, clientVars, streamVars
  <1> QED
    BY <1>1, <1>2, <1>3, <1>4, <1>5, <1>6, <1>7, <1>8, <1>9, <1>10, <1>11, <1>12, <1>13, <1>14, <1>15, <1>16, <1>17
    DEF Next, MainStep, CallStep, DisconnectStep
-----------------------------------------------------------------------------
(* One write at a time while the client is connected. *)

LEMMA CycleStep ==
  TypeOK /\ LockInv /\ StartInv /\ CycleInv /\ [Next]_vars => CycleInv'
  <1> SUFFICES ASSUME TypeOK, LockInv, StartInv, CycleInv, [Next]_vars, IsConnected'
               PROVE  CycleInv'
    BY DEF CycleInv
  <1> USE DEF CycleInv, Cycle, Writing, InOnWrite, IsConnected, HandlerNames
  <1>1. CASE Connect \/ ConnectFails
    BY <1>1 DEF Connect, ConnectFails, SetConnectionState
  <1>2. CASE Handshake
    <2>1. /\ disc' = "idle" /\ writes' = <<>> /\ io' = "idle"
          /\ strand' = <<>> /\ status' # "SENDING"
          /\ \A m \in Messages : call'[m] # "refusing"
      BY <1>2 DEF Handshake, StartInv
    <2>2. 1..Len(strand') = {} /\ Len(writes') = 0
      BY <2>1
    <2>3. ~IsReady("OnWrite")' /\ OneOnWrite'
      BY <2>2 DEF IsReady, OneOnWrite
    <2> QED
      BY <2>1, <2>2, <2>3
  <1>3. CASE StartRead \/ RunReturns
    BY <1>3 DEF StartRead, RunReturns, clientVars, streamVars, IsReady, OneOnWrite
  <1>4. ASSUME NEW m \in Messages, SendToPeer(m) PROVE CycleInv'
    BY <1>4 DEF SendToPeer, clientVars, streamVars, IsReady, OneOnWrite, TypeOK
  <1>5. ASSUME NEW m \in Messages, SendRefused(m) \/ TellRefused(m) PROVE CycleInv'
    BY <1>5 DEF SendRefused, TellRefused, clientVars
  <1>6. ASSUME NEW m \in Messages, SendAccepted(m) PROVE CycleInv'
    BY <1>6 DEF SendAccepted, clientVars, streamVars, IsReady, OneOnWrite, TypeOK
  <1>7. ASSUME NEW m \in Messages, Push(m) PROVE CycleInv'
    <2>1. queue' # <<>>
      <3>1. queue' = Append(queue, m) /\ queue \in Seq(Messages)
        BY <1>7 DEF Push, TypeOK
      <3> QED
        BY <3>1, AppendProperties
    <2>2. /\ UNCHANGED <<connState, status, strand, io, current, disc, writes>>
          /\ \A k \in Messages : call'[k] = "refusing" => call[k] = "refusing"
      BY <1>7 DEF Push, streamVars, TypeOK
    <2>3. (IsReady("OnWrite")' <=> IsReady("OnWrite")) /\ (OneOnWrite' <=> OneOnWrite)
      BY <2>2 DEF IsReady, OneOnWrite
    <2> QED
      BY <2>1, <2>2, <2>3
  <1>8. ASSUME NEW m \in Messages, PostDoSend(m) PROVE CycleInv'
    <2>1. /\ UNCHANGED <<connState, status, queue, io, current, disc, writes>>
          /\ \A k \in Messages : call'[k] = "refusing" => call[k] = "refusing"
      BY <1>8 DEF PostDoSend, clientVars, streamVars, TypeOK
    <2>2. (IsReady("OnWrite")' <=> IsReady("OnWrite")) /\ (OneOnWrite => OneOnWrite')
      BY <1>8, Posted DEF PostDoSend
    <2> QED
      BY <2>1, <2>2
  <1>9. CASE RunDoSend
    <2>1. /\ Runs("DoSend") /\ io = "idle" /\ DoSend
          /\ UNCHANGED <<connState, queue, current, disc, writes, call>>
      BY <1>9 DEF RunDoSend, Runs, streamVars
    <2>2. /\ IsReady("OnWrite")' <=> IsReady("OnWrite")
          /\ OneOnWrite'
      BY <2>1, Started
    <2> QED
      BY <2>1, <2>2 DEF DoSend, AlreadySending
  <1>24. CASE StartWrite
    <2>1. /\ io = "sending" /\ io' = "idle" /\ queue # <<>>
          /\ UNCHANGED <<connState, status, queue, strand, current, disc, call>>
      BY <1>24 DEF StartWrite, LockInv, clientVars
    <2>2. writes = <<>> /\ ~IsReady("OnWrite") /\ status = "SENDING"
      BY <2>1
    <2>3. writes' # <<>> /\ Len(writes') = 1
      BY <1>24, <2>1, <2>2, StartWriteFacts
    <2>4. ~IsReady("OnWrite")' /\ OneOnWrite'
      BY <2>1, <2>2 DEF IsReady, OneOnWrite
    <2> QED
      BY <2>1, <2>2, <2>3, <2>4
  <1>10. CASE OnWritePop
    <2>1. /\ Runs("OnWrite")
          /\ io' \in {"sent", "failed"}
          /\ queue # <<>> => current' = Head(queue)
          /\ UNCHANGED <<connState, status, writes, disc, call>>
      BY <1>10 DEF OnWritePop, streamVars
    <2>2. IsReady("OnWrite") /\ ~IsReady("OnWrite")' /\ OneOnWrite'
      BY <2>1, Started
    <2>3. status = "SENDING" /\ queue # <<>> /\ writes = <<>>
      BY <2>1, <2>2
    <2>4. current' # NoMessage
      BY <2>1, <2>3, ConstantsAssumption DEF TypeOK
    <2> QED
      BY <2>1, <2>2, <2>3, <2>4
  <1>11. CASE OnWriteFailed
    BY <1>11 DEF OnWriteFailed, SetConnectionState
  <1>12. CASE OnWriteSettles
    <2>1. /\ io \in {"sent", "failed"}
          /\ IF io = "sent" THEN io' = "tellSent" /\ status' = Settled("SENT")
                            ELSE io' = "tellFailed" /\ status' = Settled("FAILED")
          /\ UNCHANGED <<connState, queue, strand, current, disc, writes, call>>
      BY <1>12 DEF OnWriteSettles, streamVars
    <2>2. /\ writes = <<>> /\ ~IsReady("OnWrite") /\ OneOnWrite
          /\ status = "SENDING" /\ current \in Messages
      BY <2>1 DEF TypeOK
    <2>3. ~IsReady("OnWrite")' /\ OneOnWrite'
      BY <2>1, <2>2 DEF IsReady, OneOnWrite
    <2> QED
      BY <2>1, <2>2, <2>3 DEF Settled
  <1>25. CASE OnWriteSent
    <2>1. /\ io = "tellSent" /\ io' = "next"
          /\ UNCHANGED <<connState, status, queue, strand, disc, writes, call>>
      BY <1>25 DEF OnWriteSent, clientVars, streamVars
    <2>2. writes = <<>> /\ ~IsReady("OnWrite") /\ OneOnWrite
      BY <2>1
    <2>3. Silent = {} => status = "SENT"
      BY <2>1
    <2>4. ~IsReady("OnWrite")' /\ OneOnWrite'
      BY <2>1, <2>2 DEF IsReady, OneOnWrite
    <2> QED
      BY <2>1, <2>2, <2>3, <2>4
  <1>26. CASE SendNext
    <2>1. /\ io = "next" /\ DoSend
          /\ UNCHANGED <<connState, queue, strand, current, disc, writes, call>>
      BY <1>26 DEF SendNext, streamVars
    <2>2. writes = <<>> /\ ~IsReady("OnWrite") /\ OneOnWrite
      BY <2>1
    <2>3. ~IsReady("OnWrite")' /\ OneOnWrite'
      BY <2>1, <2>2 DEF IsReady, OneOnWrite
    <2> QED
      BY <2>1, <2>2, <2>3 DEF DoSend, AlreadySending
  <1>13. CASE OnRead
    BY <1>13, Started DEF OnRead, SetConnectionState
  <1>14. CASE RunClose
    BY <1>14, Started DEF RunClose, clientVars
  <1>15. CASE OnClose
    BY <1>15 DEF OnClose, SetConnectionState
  <1>16. ASSUME NEW ok \in BOOLEAN, WriteCompletes(ok) PROVE CycleInv'
    <2>1. /\ writes # <<>> /\ strand' = Ready("OnWrite", ok)
          /\ UNCHANGED <<connState, status, queue, io, current, disc, call>>
      BY <1>16 DEF WriteCompletes, clientVars
    <2>2. ~IsReady("OnWrite") /\ OneOnWrite /\ io = "idle" /\ Len(writes) <= 1
      BY <2>1
    <2>3. IsReady("OnWrite")' /\ OneOnWrite'
      BY <2>1, <2>2, Posted
    <2>4. writes' = <<>>
      <3>1. Len(writes') = Len(writes) - 1 /\ writes' \in Seq([msg : Messages, live : BOOLEAN])
        BY <1>16, WritesType
      <3> QED
        BY <2>2, <3>1 DEF TypeOK
    <2> QED
      BY <2>1, <2>2, <2>3, <2>4
  <1>17. ASSUME NEW ok \in BOOLEAN, ReadCompletes(ok) PROVE CycleInv'
    BY <1>17, Posted DEF ReadCompletes, clientVars
  <1>18. ASSUME NEW ok \in BOOLEAN, CloseCompletes(ok) PROVE CycleInv'
    BY <1>18, Posted DEF CloseCompletes, clientVars
  <1>19. CASE DisconnectBegins
    BY <1>19 DEF DisconnectBegins, clientVars, streamVars, IsReady, OneOnWrite
  <1>20. CASE DisconnectCloses
    BY <1>20 DEF DisconnectCloses, SetConnectionState
  <1>21. CASE DisconnectFlushes
    BY <1>21 DEF DisconnectFlushes
  <1>22. CASE DisconnectPosts
    BY <1>22 DEF DisconnectPosts, clientVars
  <1>23. CASE Terminated \/ UNCHANGED vars
    BY <1>23 DEF Terminated, vars, threadVars, clientVars, streamVars, IsReady, OneOnWrite
  <1> QED
    BY <1>1, <1>2, <1>3, <1>4, <1>5, <1>6, <1>7, <1>8, <1>9, <1>10, <1>11, <1>12, <1>13, <1>14, <1>15, <1>16, <1>17, <1>18, <1>19, <1>20, <1>21, <1>22, <1>23, <1>24, <1>25, <1>26
    DEF Next, MainStep, CallStep, IoStep, StreamStep, DisconnectStep
-----------------------------------------------------------------------------
(* The read that keeps the event loop alive, and the next DoSend. *)

LEMMA ReaderStep ==
  TypeOK /\ StartInv /\ ReaderAlive /\ [Next]_vars => ReaderAlive'
  <1> SUFFICES ASSUME TypeOK, StartInv, ReaderAlive, [Next]_vars, IsConnected'
               PROVE  ReaderAlive'
    BY DEF ReaderAlive
  <1> USE DEF ReaderAlive, IsConnected, HandlerNames
  <1>1. CASE Connect \/ ConnectFails \/ Handshake
    BY <1>1 DEF Connect, ConnectFails, Handshake, SetConnectionState
  <1>2. CASE StartRead
    BY <1>2 DEF StartRead, Read, clientVars
  <1>3. CASE RunReturns
    BY <1>3 DEF RunReturns, Work, IsReady, clientVars, streamVars
  <1>4. ASSUME NEW m \in Messages, SendToPeer(m) PROVE ReaderAlive'
    BY <1>4 DEF SendToPeer, clientVars, streamVars, IsReady
  <1>5. ASSUME NEW m \in Messages, SendRefused(m) \/ TellRefused(m) PROVE ReaderAlive'
    BY <1>5 DEF SendRefused, TellRefused, clientVars, streamVars, IsReady
  <1>6. ASSUME NEW m \in Messages, SendAccepted(m) PROVE ReaderAlive'
    BY <1>6 DEF SendAccepted, clientVars, streamVars, IsReady
  <1>7. ASSUME NEW m \in Messages, Push(m) PROVE ReaderAlive'
    BY <1>7 DEF Push, clientVars, streamVars, IsReady
  <1>8. ASSUME NEW m \in Messages, PostDoSend(m) PROVE ReaderAlive'
    BY <1>8, Posted DEF PostDoSend, clientVars, streamVars
  <1>9. CASE RunDoSend \/ OnWritePop
    BY <1>9, Started DEF RunDoSend, OnWritePop, streamVars
  <1>10. CASE OnWriteFailed \/ OnClose
    BY <1>10 DEF OnWriteFailed, OnClose, SetConnectionState
  <1>11. CASE StartWrite \/ OnWriteSettles \/ OnWriteSent \/ SendNext
    BY <1>11 DEF StartWrite, OnWriteSettles, OnWriteSent, SendNext, clientVars, streamVars, IsReady
  <1>12. CASE OnRead
    BY <1>12 DEF OnRead, Runs, Read, SetConnectionState
  <1>13. CASE RunClose
    BY <1>13, Started DEF RunClose, clientVars
  <1>14. ASSUME NEW ok \in BOOLEAN, WriteCompletes(ok) PROVE ReaderAlive'
    BY <1>14, Posted DEF WriteCompletes, clientVars
  <1>15. ASSUME NEW ok \in BOOLEAN, ReadCompletes(ok) PROVE ReaderAlive'
    BY <1>15, Posted DEF ReadCompletes, clientVars
  <1>16. ASSUME NEW ok \in BOOLEAN, CloseCompletes(ok) PROVE ReaderAlive'
    BY <1>16, Posted DEF CloseCompletes, clientVars
  <1>17. CASE DisconnectBegins \/ DisconnectFlushes
    BY <1>17 DEF DisconnectBegins, DisconnectFlushes, clientVars, streamVars, IsReady
  <1>18. CASE DisconnectCloses
    BY <1>18 DEF DisconnectCloses, SetConnectionState
  <1>19. CASE DisconnectPosts
    BY <1>19, Posted DEF DisconnectPosts, clientVars, streamVars
  <1>20. CASE Terminated \/ UNCHANGED vars
    BY <1>20 DEF Terminated, vars, threadVars, clientVars, streamVars, IsReady
  <1> QED
    BY <1>1, <1>2, <1>3, <1>4, <1>5, <1>6, <1>7, <1>8, <1>9, <1>10, <1>11, <1>12, <1>13, <1>14, <1>15, <1>16, <1>17, <1>18, <1>19, <1>20
    DEF Next, MainStep, CallStep, IoStep, StreamStep, DisconnectStep

\* The status field is SENDING only during a write cycle if every call has a
\* callback, and then DoSend may return early: the cycle will call it again.
LEMMA WakeupStep ==
  ASSUME Silent = {}
  PROVE  TypeOK /\ LockInv /\ StartInv /\ CycleInv /\ NoLostWakeup /\ [Next]_vars => NoLostWakeup'
  <1> SUFFICES ASSUME TypeOK, LockInv, StartInv, CycleInv, NoLostWakeup, [Next]_vars,
                      IsConnected', queue' # <<>>
               PROVE  SendPending'
    BY DEF NoLostWakeup
  <1> USE DEF NoLostWakeup, SendPending, IsConnected, HandlerNames
  <1>1. CASE Connect \/ ConnectFails \/ Handshake
    BY <1>1 DEF Connect, ConnectFails, Handshake, SetConnectionState, StartInv
  <1>2. CASE StartRead \/ RunReturns
    BY <1>2 DEF StartRead, RunReturns, clientVars, streamVars, IsReady
  <1>3. ASSUME NEW m \in Messages, SendToPeer(m) PROVE SendPending'
    BY <1>3 DEF SendToPeer, clientVars, streamVars, IsReady, TypeOK
  <1>4. ASSUME NEW m \in Messages, SendRefused(m) \/ TellRefused(m) PROVE SendPending'
    BY <1>4 DEF SendRefused, TellRefused, clientVars, streamVars, IsReady, TypeOK
  <1>5. ASSUME NEW m \in Messages, SendAccepted(m) PROVE SendPending'
    BY <1>5 DEF SendAccepted, clientVars, streamVars, IsReady, TypeOK
  <1>6. ASSUME NEW m \in Messages, Push(m) PROVE SendPending'
    BY <1>6 DEF Push, TypeOK
  <1>7. ASSUME NEW m \in Messages, PostDoSend(m) PROVE SendPending'
    BY <1>7, Posted DEF PostDoSend, clientVars, streamVars
  <1>8. CASE RunDoSend
    <2>1. /\ Runs("DoSend") /\ io = "idle" /\ DoSend
          /\ UNCHANGED <<connState, queue, writes>>
      BY <1>8 DEF RunDoSend, Runs, streamVars
    <2>2. IsReady("OnWrite")' <=> IsReady("OnWrite")
      BY <2>1, Started
    <2>3. AlreadySending => writes # <<>> \/ IsReady("OnWrite")
      BY <2>1 DEF AlreadySending, CycleInv, Cycle
    <2> QED
      BY <2>1, <2>2, <2>3 DEF DoSend
  <1>21. CASE StartWrite
    BY <1>21, StartWriteFacts DEF StartWrite, LockInv
  <1>9. CASE OnWritePop \/ OnWriteSettles \/ OnWriteSent
    BY <1>9 DEF OnWritePop, OnWriteSettles, OnWriteSent
  <1>10. CASE OnWriteFailed \/ OnClose
    BY <1>10 DEF OnWriteFailed, OnClose, SetConnectionState
  <1>11. CASE SendNext
    <2>1. io = "next" /\ DoSend /\ UNCHANGED <<connState, queue>>
      BY <1>11 DEF SendNext
    <2>2. ~AlreadySending
      BY <2>1 DEF AlreadySending, CycleInv
    <2> QED
      BY <2>1, <2>2 DEF DoSend
  <1>12. CASE OnRead
    BY <1>12, Started DEF OnRead, SetConnectionState
  <1>13. CASE RunClose
    BY <1>13, Started DEF RunClose, clientVars
  <1>14. ASSUME NEW ok \in BOOLEAN, WriteCompletes(ok) PROVE SendPending'
    BY <1>14, Posted DEF WriteCompletes
  <1>15. ASSUME NEW ok \in BOOLEAN, ReadCompletes(ok) PROVE SendPending'
    BY <1>15, Posted DEF ReadCompletes, clientVars
  <1>16. ASSUME NEW ok \in BOOLEAN, CloseCompletes(ok) PROVE SendPending'
    BY <1>16, Posted DEF CloseCompletes, clientVars
  <1>17. CASE DisconnectBegins \/ DisconnectFlushes
    BY <1>17 DEF DisconnectBegins, DisconnectFlushes, clientVars, streamVars, IsReady
  <1>18. CASE DisconnectCloses
    BY <1>18 DEF DisconnectCloses, SetConnectionState
  <1>19. CASE DisconnectPosts
    BY <1>19, Posted DEF DisconnectPosts, clientVars, streamVars
  <1>20. CASE Terminated \/ UNCHANGED vars
    BY <1>20 DEF Terminated, vars, threadVars, clientVars, streamVars, IsReady
  <1> QED
    BY <1>1, <1>2, <1>3, <1>4, <1>5, <1>6, <1>7, <1>8, <1>9, <1>10, <1>11, <1>12, <1>13, <1>14, <1>15, <1>16, <1>17, <1>18, <1>19, <1>20, <1>21
    DEF Next, MainStep, CallStep, IoStep, StreamStep, DisconnectStep

LEMMA LoopInit == Init => StartInv /\ CycleInv /\ ReaderAlive /\ NoLostWakeup
  BY DEF Init, StartInv, CycleInv, ReaderAlive, NoLostWakeup, IsConnected

\* async_write is called only when the previous write has completed, as long as
\* the client is connected.
THEOREM SingleWriterHolds == Spec => []SingleWriter
  <1>1. CycleInv => SingleWriter
    BY DEF CycleInv, SingleWriter
  <1> QED
    BY <1>1, LoopInit, TypeInit, TypeStep, LockInit, LockStep, StartStep, CycleStep, PTL DEF Spec

\* A connected client is always reading, so ioc.run() does not return under it.
THEOREM ReaderAliveHolds == Spec => []ReaderAlive
  BY LoopInit, TypeInit, TypeStep, LockInit, LockStep, StartStep, ReaderStep, PTL DEF Spec

\* A queued message of a connected client always has a DoSend or a write to come,
\* if every Send has a status callback, as every SendToPeer has.
THEOREM NoLostWakeupHolds ==
  ASSUME Silent = {}
  PROVE  Spec => []NoLostWakeup
  <1>1. TypeOK /\ LockInv /\ StartInv /\ CycleInv /\ NoLostWakeup /\ [Next]_vars => NoLostWakeup'
    BY WakeupStep
  <1> QED
    BY <1>1, LoopInit, TypeInit, TypeStep, LockInit, LockStep, StartStep, CycleStep, PTL DEF Spec
-----------------------------------------------------------------------------
(* One place and one end for every message. *)

LEMMA AppendSet ==
  ASSUME NEW S, NEW q \in Seq(S), NEW e \in S
  PROVE  /\ ToSet(Append(q, e)) = ToSet(q) \cup {e}
         /\ Distinct(q) /\ e \notin ToSet(q) => Distinct(Append(q, e))
  <1> DEFINE n == Len(q)
             r == Append(q, e)
  <1>1. /\ n \in Nat /\ DOMAIN q = 1..n /\ n = Len(q)
        /\ Len(r) = n + 1 /\ DOMAIN r = 1..(n + 1)
        /\ \A i \in 1..n : r[i] = q[i]
        /\ r[n + 1] = e
    OBVIOUS
  <1> HIDE DEF n, r
  <1>2. \A i : i \in 1..(n + 1) <=> i \in 1..n \/ i = n + 1
    BY <1>1
  <1>3. ToSet(r) = ToSet(q) \cup {e}
    BY <1>1, <1>2 DEF ToSet
  <1>4. ASSUME Distinct(q), e \notin ToSet(q)
        PROVE  Distinct(r)
    <2>1. \A i \in 1..n : q[i] # e
      BY <1>1, <1>4 DEF ToSet
    <2> QED
      BY <1>1, <1>2, <1>4, <2>1 DEF Distinct
  <1> QED
    BY <1>3, <1>4 DEF r

LEMMA TailSet ==
  ASSUME NEW S, NEW q \in Seq(S), q # <<>>, Distinct(q)
  PROVE  /\ Head(q) \in ToSet(q)
         /\ ToSet(Tail(q)) = ToSet(q) \ {Head(q)}
         /\ Distinct(Tail(q))
  <1> DEFINE n == Len(q)
             r == Tail(q)
  <1>1. /\ n \in Nat /\ n # 0 /\ DOMAIN q = 1..n /\ n = Len(q)
        /\ Len(r) = n - 1 /\ DOMAIN r = 1..(n - 1)
        /\ \A i \in 1..(n - 1) : r[i] = q[i + 1]
        /\ Head(q) = q[1] /\ 1 \in 1..n
    OBVIOUS
  <1> HIDE DEF n, r
  <1>2. /\ \A i \in 1..(n - 1) : i + 1 \in 1..n /\ i + 1 # 1
        /\ \A i \in 1..n : i # 1 => i - 1 \in 1..(n - 1) /\ (i - 1) + 1 = i
        /\ \A i, j \in 1..(n - 1) : i + 1 = j + 1 => i = j
    BY <1>1
  <1>3. ASSUME NEW m \in ToSet(r) PROVE m \in ToSet(q) \ {Head(q)}
    <2>1. PICK i \in 1..(n - 1) : m = q[i + 1]
      BY <1>1, <1>3 DEF ToSet
    <2>2. q[i + 1] # q[1]
      BY <1>1, <1>2, <2>1 DEF Distinct
    <2> QED
      BY <1>1, <1>2, <2>1, <2>2 DEF ToSet
  <1>4. ASSUME NEW m \in ToSet(q) \ {Head(q)} PROVE m \in ToSet(r)
    <2>1. PICK i \in 1..n : m = q[i]
      BY <1>1, <1>4 DEF ToSet
    <2>2. i - 1 \in 1..(n - 1) /\ r[i - 1] = m
      BY <1>1, <1>2, <1>4, <2>1
    <2> QED
      BY <1>1, <2>2 DEF ToSet
  <1>5. Distinct(r)
    BY <1>1, <1>2 DEF Distinct
  <1>6. Head(q) \in ToSet(q)
    BY <1>1 DEF ToSet
  <1> QED
    BY <1>3, <1>4, <1>5, <1>6 DEF r

LEMMA OutcomeInit == Init => OutcomeInv
  <1> SUFFICES ASSUME Init PROVE OutcomeInv
    OBVIOUS
  <1>1. Queued = {} /\ ToSet(pushed) = {} /\ Distinct(queue)
    BY DEF Init, Queued, ToSet, Distinct
  <1> QED
    BY <1>1, ConstantsAssumption DEF Init, OutcomeInv, Entered, Ended

\* No step changes the end of a call, or calls back afterwards.
Kept ==
  \A m \in Messages : outcome[m] # "none" => outcome'[m] = outcome[m] /\ told'[m] = told[m]

LEMMA OutcomeStep ==
  TypeOK /\ LockInv /\ OutcomeInv /\ [Next]_vars => OutcomeInv' /\ Kept
  <1> SUFFICES ASSUME TypeOK, LockInv, OutcomeInv, [Next]_vars
               PROVE  OutcomeInv' /\ Kept
    OBVIOUS
  <1> USE DEF OutcomeInv, InOnWrite, Entered, Ended, Kept, Queued
  <1>1. CASE Connect
    BY <1>1 DEF Connect, clientVars, streamVars, historyVars
  <1>2. CASE ConnectFails
    BY <1>2 DEF ConnectFails, clientVars, streamVars, historyVars
  <1>3. CASE Handshake
    BY <1>3 DEF Handshake, clientVars, streamVars, historyVars
  <1>4. CASE StartRead
    BY <1>4 DEF StartRead, clientVars, streamVars, historyVars
  <1>5. CASE RunReturns
    BY <1>5 DEF RunReturns, clientVars, streamVars, historyVars
  <1>6. ASSUME NEW m \in Messages, SendToPeer(m) PROVE OutcomeInv' /\ Kept
    BY <1>6 DEF SendToPeer, clientVars, streamVars, historyVars, TypeOK
  <1>7. ASSUME NEW m \in Messages, SendRefused(m) PROVE OutcomeInv' /\ Kept
    BY <1>7 DEF SendRefused, streamVars, historyVars, TypeOK
  <1>22. ASSUME NEW m \in Messages, TellRefused(m) PROVE OutcomeInv' /\ Kept
    <2>1. /\ call[m] = "refusing" /\ call' = [call EXCEPT ![m] = "refused"]
          /\ told' = Notify({m}, status) /\ outcome' = Ends({m}, "CANCELLED")
          /\ UNCHANGED <<queue, io, current, pushed>>
      BY <1>22 DEF TellRefused, clientVars
    <2>2. /\ \A k \in Messages : k # m => call'[k] = call[k] /\ told'[k] = told[k] /\ outcome'[k] = outcome[k]
          /\ call'[m] = "refused"
      BY <2>1 DEF TypeOK, Notify, Ends
    <2>3. m \notin Queued /\ m # current /\ m \notin ToSet(pushed) /\ ~Ended(m)
      BY <2>1
    <2> QED
      BY <2>1, <2>2, <2>3
  <1>8. ASSUME NEW m \in Messages, SendAccepted(m) PROVE OutcomeInv' /\ Kept
    BY <1>8 DEF SendAccepted, clientVars, streamVars, historyVars, TypeOK
  <1>9. ASSUME NEW m \in Messages, Push(m) PROVE OutcomeInv' /\ Kept
    <2>1. /\ call[m] = "accepted" /\ call' = [call EXCEPT ![m] = "pushed"]
          /\ queue' = Append(queue, m) /\ pushed' = Append(pushed, m)
          /\ UNCHANGED <<io, current, told, outcome>>
      BY <1>9 DEF Push
    <2>2. /\ m \notin ToSet(queue) /\ m # current /\ ~Ended(m)
      BY <2>1
    <2>3. /\ ToSet(queue') = ToSet(queue) \cup {m}
          /\ Distinct(queue')
          /\ ToSet(pushed') = ToSet(pushed) \cup {m}
      BY <2>1, <2>2, AppendSet DEF TypeOK
    <2>4. /\ \A k \in Messages : k # m => call'[k] = call[k]
          /\ call'[m] = "pushed"
      BY <2>1 DEF TypeOK
    <2> QED
      BY <2>1, <2>2, <2>3, <2>4
  <1>10. ASSUME NEW m \in Messages, PostDoSend(m) PROVE OutcomeInv' /\ Kept
    BY <1>10 DEF PostDoSend, clientVars, streamVars, historyVars, TypeOK
  <1>11. CASE RunDoSend \/ SendNext \/ OnWriteSettles
    BY <1>11 DEF RunDoSend, SendNext, OnWriteSettles, DoSend, Runs, streamVars, historyVars
  <1>23. CASE StartWrite
    <2>1. /\ io = "sending" /\ io' = "idle" /\ queue # <<>> /\ told' = Notify({Head(queue)}, status)
          /\ UNCHANGED <<queue, current, call, outcome, pushed>>
      BY <1>23 DEF StartWrite, LockInv, clientVars
    <2>2. Head(queue) \in Queued
      BY <1>23, <2>1, StartWriteFacts
    <2>3. \A m \in Messages : m \notin Queued => told'[m] = told[m]
      BY <2>1, <2>2 DEF Notify
    <2> QED
      BY <2>1, <2>3
  <1>12. CASE OnWritePop
    <2>1. /\ io = "idle" /\ current = NoMessage /\ io' \in {"sent", "failed"}
          /\ UNCHANGED <<call, told, outcome, pushed>>
      BY <1>12 DEF OnWritePop, Runs, historyVars
    <2>2. CASE queue = <<>>
      BY <1>12, <2>1, <2>2 DEF OnWritePop
    <2>3. CASE queue # <<>>
      <3>1. /\ current' = Head(queue) /\ queue' = Tail(queue)
        BY <1>12, <2>3 DEF OnWritePop
      <3>2. /\ Head(queue) \in ToSet(queue) /\ Head(queue) \in Messages
            /\ ToSet(queue') = ToSet(queue) \ {Head(queue)}
            /\ Distinct(queue')
        BY <2>3, <3>1, TailSet DEF TypeOK
      <3> QED
        BY <2>1, <3>1, <3>2, ConstantsAssumption
    <2> QED
      BY <2>2, <2>3
  <1>13. CASE OnWriteFailed \/ OnWriteSent
    <2>1. PICK s \in {"FAILED", "SENT"} :
            /\ told' = Notify({current}, status) /\ outcome' = Ends({current}, s)
            /\ io' \in {"idle", "next"} /\ current' = NoMessage
            /\ UNCHANGED <<queue, call, pushed>>
      BY <1>13 DEF OnWriteFailed, OnWriteSent, clientVars
    <2>2. /\ \A m \in Messages : outcome'[m] = IF m = current THEN s ELSE outcome[m]
          /\ \A m \in Messages : m # current => told'[m] = told[m]
      BY <2>1 DEF Notify, Ends
    <2> QED
      BY <2>1, <2>2, ConstantsAssumption
  <1>15. CASE OnRead \/ RunClose \/ OnClose
    BY <1>15 DEF OnRead, RunClose, OnClose, Runs, clientVars, streamVars, historyVars
  <1>16. ASSUME NEW ok \in BOOLEAN, WriteCompletes(ok) PROVE OutcomeInv' /\ Kept
    BY <1>16 DEF WriteCompletes, clientVars, streamVars, historyVars
  <1>17. ASSUME NEW ok \in BOOLEAN, ReadCompletes(ok) PROVE OutcomeInv' /\ Kept
    BY <1>17 DEF ReadCompletes, clientVars, streamVars, historyVars
  <1>18. ASSUME NEW ok \in BOOLEAN, CloseCompletes(ok) PROVE OutcomeInv' /\ Kept
    BY <1>18 DEF CloseCompletes, clientVars, streamVars, historyVars
  <1>19. CASE DisconnectBegins \/ DisconnectCloses \/ DisconnectPosts
    BY <1>19 DEF DisconnectBegins, DisconnectCloses, DisconnectPosts, clientVars, streamVars, historyVars
  <1>20. CASE DisconnectFlushes
    <2>1. /\ told' = Notify(Queued, "CANCELLED") /\ outcome' = Ends(Queued, "CANCELLED")
          /\ queue' = <<>> /\ UNCHANGED <<io, current, call, pushed>>
      BY <1>20 DEF DisconnectFlushes
    <2>2. /\ \A m \in Messages : outcome'[m] = IF m \in Queued THEN "CANCELLED" ELSE outcome[m]
          /\ \A m \in Messages : m \notin Queued => told'[m] = told[m]
      BY <2>1 DEF Notify, Ends
    <2>3. ToSet(queue') = {} /\ Distinct(queue')
      BY <2>1 DEF ToSet, Distinct
    <2> QED
      BY <2>1, <2>2, <2>3
  <1>21. CASE Terminated \/ UNCHANGED vars
    BY <1>21 DEF Terminated, vars, threadVars, clientVars, streamVars, historyVars
  <1> QED
    BY <1>1, <1>2, <1>3, <1>4, <1>5, <1>6, <1>7, <1>8, <1>9, <1>10, <1>11, <1>12, <1>13, <1>15, <1>16, <1>17, <1>18, <1>19, <1>20, <1>21, <1>22, <1>23
    DEF Next, MainStep, CallStep, IoStep, StreamStep, DisconnectStep

\* A message that entered the queue is there, is in OnWrite, or its call has ended.
THEOREM AccountedHolds == Spec => []Accounted
  <1>1. OutcomeInv /\ TypeOK => Accounted
    <2> SUFFICES ASSUME OutcomeInv, TypeOK, NEW m \in ToSet(pushed)
                 PROVE  /\ m \in Queued \/ m = current \/ outcome[m] # "none"
                        /\ m \in Queued => m # current /\ outcome[m] = "none"
                        /\ m = current => outcome[m] = "none"
      BY DEF Accounted
    <2>1. m \in Messages
      BY DEF TypeOK, ToSet
    <2> QED
      BY <2>1 DEF OutcomeInv, Ended
  <1>2. TypeOK /\ LockInv /\ OutcomeInv /\ [Next]_vars => OutcomeInv'
    BY OutcomeStep
  <1> QED
    BY <1>1, <1>2, TypeInit, TypeStep, LockInit, LockStep, OutcomeInit, PTL DEF Spec

\* A call of Send ends once, and its callback is not called any more, whatever OnWrite,
\* DoSend, Send and Disconnect do.
THEOREM EndsOnceHolds == Spec => EndsOnce
  <1>1. TypeOK /\ LockInv /\ OutcomeInv /\ [Next]_vars
          => [\A m \in Messages :
                outcome[m] # "none" => outcome'[m] = outcome[m] /\ told'[m] = told[m]]_vars
    BY OutcomeStep DEF Kept
  <1>2. TypeOK /\ LockInv /\ OutcomeInv /\ [Next]_vars => OutcomeInv'
    BY OutcomeStep
  <1> QED
    BY <1>1, <1>2, TypeInit, TypeStep, LockInit, LockStep, OutcomeInit, PTL DEF Spec, EndsOnce
-----------------------------------------------------------------------------
(* What callbacks are told. *)

Told(m) ==
  /\ outcome'[m] # outcome[m] => told'[m] = outcome'[m]
  /\ outcome'[m] = outcome[m] /\ told'[m] # told[m] => told'[m] = "SENDING"

LEMMA ToldStep ==
  ASSUME TypeOK, LockInv, CycleInv, OutcomeInv, [Next]_vars, IsConnected,
         NEW m \in Messages \ Silent
  PROVE  Told(m)
  <1> USE DEF CycleInv, Told
  <1>1. CASE MainStep \/ StreamStep
    BY <1>1 DEF MainStep, Connect, ConnectFails, Handshake, StartRead, RunReturns, StreamStep,
                WriteCompletes, ReadCompletes, CloseCompletes, historyVars
  <1>2. ASSUME NEW k \in Messages, CallStep(k) PROVE Told(m)
    BY <1>2 DEF CallStep, SendToPeer, SendRefused, TellRefused, SendAccepted, Push, PostDoSend, historyVars
  <1>3. CASE StartWrite
    <2>1. /\ told' = Notify({Head(queue)}, status) /\ outcome' = outcome
          /\ status = "SENDING"
      BY <1>3 DEF StartWrite, Writing
    <2> QED
      BY <2>1 DEF Notify
  <1>4. CASE OnWriteFailed \/ OnWriteSent
    <2>1. PICK s \in {"FAILED", "SENT"} :
            /\ told' = Notify({current}, status) /\ outcome' = Ends({current}, s)
            /\ current \notin Silent => status = s
      BY <1>4 DEF OnWriteFailed, OnWriteSent
    <2>2. m = current => outcome[m] = "none"
      BY DEF OutcomeInv, Ended
    <2> QED
      BY <2>1, <2>2 DEF Notify, Ends
  <1>5. CASE RunDoSend \/ OnWritePop \/ OnWriteSettles \/ SendNext \/ OnRead \/ RunClose \/ OnClose
    BY <1>5 DEF RunDoSend, OnWritePop, OnWriteSettles, SendNext, OnRead, RunClose, OnClose, historyVars
  <1>6. CASE DisconnectStep
    BY <1>6 DEF DisconnectStep, DisconnectBegins, DisconnectCloses, DisconnectFlushes, DisconnectPosts,
                historyVars
  <1>7. CASE Terminated \/ UNCHANGED vars
    BY <1>7 DEF Terminated, vars, historyVars
  <1> QED
    BY <1>1, <1>2, <1>3, <1>4, <1>5, <1>6, <1>7 DEF Next, IoStep

\* Although the status field is read again for the argument of a callback, and Send writes
\* it without a lock, a callback that is called while the client is connected gets the
\* status it is called for.
THEOREM ToldRightHolds == Spec => ToldRight
  <1>1. TypeOK /\ LockInv /\ CycleInv /\ OutcomeInv /\ [Next]_vars
          => [\A m \in Messages \ Silent : IsConnected =>
                /\ outcome'[m] # outcome[m] => told'[m] = outcome'[m]
                /\ outcome'[m] = outcome[m] /\ told'[m] # told[m] => told'[m] = "SENDING"]_vars
    BY ToldStep DEF Told
  <1>2. TypeOK /\ LockInv /\ OutcomeInv /\ [Next]_vars => OutcomeInv'
    BY OutcomeStep
  <1> QED
    BY <1>1, <1>2, LoopInit, TypeInit, TypeStep, LockInit, LockStep, StartStep, CycleStep, OutcomeInit, PTL
    DEF Spec, ToldRight
=============================================================================
