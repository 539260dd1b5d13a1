----------------------------- MODULE OutboxProofs -----------------------------
(***************************************************************************)
(* Proof that WebSocketClient implements Outbox as long as the application *)
(* does not disconnect and every call has a status callback, which is how  *)
(* the program uses it, for any messages, threads and callers.             *)
(*                                                                         *)
(* The argument.  OnWrite takes whatever heads the queue for the message   *)
(* that was written.  It is right because completions come in order, the   *)
(* first completion that is handled while the last written message is      *)
(* still queued is the one of that message, and no write that may succeed  *)
(* is started while another one, or its completion, is outstanding: such a *)
(* write needs an open stream, an open stream a connected client, and that *)
(* one's status field is SENDING from DoSend until OnWrite settles it.     *)
(***************************************************************************)
EXTENDS WebSocketClientProofs

\* How many messages OnWrite has taken from the queue, and the stream has written.
Popped == Len(pushed) - Len(queue)
Written == Len(wire)

\* Completions of a write that succeeded.
IsSuccess(i) == strand[i].op = "OnWrite" /\ strand[i].ok
SuccessReady == \E i \in 1..Len(strand) : IsSuccess(i)
SuccessFirst ==
  \A i, j \in 1..Len(strand) : IsSuccess(i) /\ strand[j].op = "OnWrite" => i <= j
FailureReady ==
  \E i \in 1..Len(strand) : strand[i].op \in {"OnWrite", "OnRead"} /\ ~strand[i].ok

\* The write the stream works on may succeed.
HeadLive == writes # <<>> /\ writes[1].live

-----------------------------------------------------------------------------
(* The inductive invariant. *)

\* Nobody closes the connection.
QuietInv == disc = "idle" /\ closing = "none" /\ ~IsReady("Close") /\ ~IsReady("OnClose")

\* The connection is lost only by an error, and an error is one of the stream.
LinkInv ==
  /\ connState = "DISCONNECTED" <=> main = "start"
  /\ connState = "CONNECTING" <=> main = "connecting"
  /\ connState # "CLOSING"
  /\ stream = "open" => IsConnected
  /\ FailureReady \/ io \in {"failed", "tellFailed"} => stream # "open"

\* The queue is what is left of the accepted messages; what was written is their
\* beginning; the calls whose messages are neither queued nor in OnWrite have ended as
\* SENT if theirs was written and FAILED if not.
BooksInv ==
  /\ Distinct(pushed)
  /\ Len(queue) <= Len(pushed)
  /\ \A i \in 1..Len(queue) : queue[i] = pushed[Popped + i]
  /\ current # NoMessage => Popped >= 1 /\ current = pushed[Popped]
  /\ Written <= Len(pushed)
  /\ \A i \in 1..Written : wire[i] = pushed[i]
  /\ \A i \in 1..Popped : pushed[i] # current =>
       outcome[pushed[i]] = IF i <= Written THEN "SENT" ELSE "FAILED"

\* One message at most was written and is still queued: the first one, and the next
\* OnWrite reports its success.
FlightInv ==
  /\ Written <= Popped + 1
  /\ SuccessReady <=> Written = Popped + 1
  /\ SuccessReady => io \in {"idle", "sending"}
  /\ SuccessFirst
  /\ io \in {"sent", "tellSent"} => Written = Popped /\ current # NoMessage
  /\ io \in {"failed", "tellFailed"} /\ current # NoMessage => Written < Popped
  /\ HeadLive => /\ io \in {"idle", "sending"} /\ ~IsReady("OnWrite") /\ Written = Popped
                 /\ queue # <<>> /\ writes[1].msg = queue[1]
  /\ \A i \in 2..Len(writes) : ~writes[i].live
  /\ stream = "open" => Written >= Popped

PromiseInv == QuietInv /\ LinkInv /\ BooksInv /\ FlightInv

LEMMA PromiseInit == Init => PromiseInv
  <1> SUFFICES ASSUME Init PROVE PromiseInv
    OBVIOUS
  <1>1. Len(strand) = 0 /\ Len(queue) = 0 /\ Len(pushed) = 0 /\ Len(wire) = 0 /\ Len(writes) = 0
    BY DEF Init
  <1>2. QuietInv /\ LinkInv
    BY <1>1 DEF Init, QuietInv, LinkInv, IsReady, FailureReady, IsConnected
  <1>3. BooksInv
    BY <1>1 DEF Init, BooksInv, Distinct, Popped, Written
  <1>4. FlightInv
    BY <1>1 DEF Init, FlightInv, Popped, Written, SuccessReady, SuccessFirst, HeadLive
  <1> QED
    BY <1>2, <1>3, <1>4 DEF PromiseInv

-----------------------------------------------------------------------------
(* What a posted and a started handler change. *)

LEMMA PostedResult ==
  ASSUME TypeOK, NEW op \in HandlerNames, NEW ok \in BOOLEAN, strand' = Ready(op, ok)
  PROVE  /\ SuccessReady' <=> SuccessReady \/ (op = "OnWrite" /\ ok)
         /\ FailureReady' <=> FailureReady \/ (op \in {"OnWrite", "OnRead"} /\ ~ok)
         /\ SuccessFirst /\ (op = "OnWrite" /\ ok => ~IsReady("OnWrite")) => SuccessFirst'
  <1> PICK n \in Nat : n = Len(strand)
    BY DEF TypeOK
  <1>1. /\ Len(strand') = n + 1
        /\ \A i \in 1..n : strand'[i] = strand[i]
        /\ strand'[n + 1].op = op /\ strand'[n + 1].ok = ok
    BY DEF TypeOK, Ready
  <1>2. /\ \A i \in 1..(n + 1) : i \in 1..n \/ i = n + 1
        /\ 1..n \subseteq 1..(n + 1) /\ n + 1 \in 1..(n + 1)
        /\ \A i \in 1..n : i <= n + 1
    OBVIOUS
  <1>3. \A i \in 1..n : IsSuccess(i)' <=> IsSuccess(i)
    BY <1>1 DEF IsSuccess
  <1>4. SuccessReady' <=> SuccessReady \/ (op = "OnWrite" /\ ok)
    BY <1>1, <1>2 DEF SuccessReady, IsSuccess
  <1>5. FailureReady' <=> FailureReady \/ (op \in {"OnWrite", "OnRead"} /\ ~ok)
    BY <1>1, <1>2 DEF FailureReady
  <1>6. ASSUME SuccessFirst, op = "OnWrite" /\ ok => ~IsReady("OnWrite")
        PROVE  SuccessFirst'
    <2> SUFFICES ASSUME NEW i \in 1..(n + 1), NEW j \in 1..(n + 1),
                        IsSuccess(i)', strand'[j].op = "OnWrite"
                 PROVE  i <= j
      BY <1>1 DEF SuccessFirst
    <2>1. CASE i \in 1..n /\ j \in 1..n
      BY <1>1, <1>3, <1>6, <2>1 DEF SuccessFirst
    <2>2. CASE i = n + 1 /\ j \in 1..n
      BY <1>1, <1>6, <2>2 DEF IsSuccess, IsReady
    <2>3. CASE j = n + 1
      BY <1>2, <2>3
    <2> QED
      BY <1>2, <2>1, <2>2, <2>3
  <1> QED
    BY <1>4, <1>5, <1>6

LEMMA StartedResult ==
  ASSUME TypeOK, NEW op \in HandlerNames, Runs(op)
  PROVE  /\ Head(strand).ok \in BOOLEAN
         /\ op # "OnWrite" => (SuccessReady' <=> SuccessReady)
         /\ FailureReady' => FailureReady
         /\ op \in {"OnWrite", "OnRead"} /\ ~Head(strand).ok => FailureReady
         /\ SuccessFirst => SuccessFirst'
         /\ op = "OnWrite" /\ SuccessFirst => ~SuccessReady' /\ (SuccessReady <=> Head(strand).ok)
  <1> PICK n \in Nat : n = Len(strand)
    BY DEF TypeOK
  <1>1. /\ n # 0 /\ Len(strand') = n - 1
        /\ \A i \in 1..(n - 1) : strand'[i] = strand[i + 1]
        /\ strand[1] = Head(strand) /\ strand[1] \in Handler /\ strand[1].op = op
    BY DEF TypeOK, Runs
  <1>2. /\ 1 \in 1..n
        /\ \A i \in 1..(n - 1) : i + 1 \in 1..n /\ i + 1 # 1
        /\ \A i \in 1..n : i # 1 => i - 1 \in 1..(n - 1) /\ (i - 1) + 1 = i
        /\ \A i, j \in 1..(n - 1) : i + 1 <= j + 1 => i <= j
        /\ \A i \in 1..(n - 1) : ~(i + 1 <= 1)
    BY <1>1
  <1>3. \A i \in 1..(n - 1) : IsSuccess(i)' <=> IsSuccess(i + 1)
    BY <1>1 DEF IsSuccess
  <1>4. SuccessReady' => \E i \in 1..(n - 1) : IsSuccess(i + 1)
    BY <1>1, <1>3 DEF SuccessReady
  <1>5. ASSUME op # "OnWrite" PROVE SuccessReady' <=> SuccessReady
    <2>1. ASSUME SuccessReady PROVE SuccessReady'
      <3>1. PICK i \in 1..n : IsSuccess(i)
        BY <2>1 DEF SuccessReady
      <3>2. i # 1
        BY <1>1, <1>5, <3>1 DEF IsSuccess
      <3>3. i - 1 \in 1..(n - 1) /\ IsSuccess(i - 1)'
        BY <1>2, <1>3, <3>1, <3>2
      <3> QED
        BY <1>1, <3>3 DEF SuccessReady
    <2> QED
      BY <1>2, <1>4, <2>1 DEF SuccessReady
  <1>6. FailureReady' => FailureReady
    BY <1>1, <1>2 DEF FailureReady
  <1>7. op \in {"OnWrite", "OnRead"} /\ ~Head(strand).ok => FailureReady
    BY <1>1, <1>2 DEF FailureReady
  <1>8. ASSUME SuccessFirst PROVE SuccessFirst'
    <2> SUFFICES ASSUME NEW i \in 1..(n - 1), NEW j \in 1..(n - 1),
                        IsSuccess(i)', strand'[j].op = "OnWrite"
                 PROVE  i <= j
      BY <1>1 DEF SuccessFirst
    <2>1. i + 1 \in 1..n /\ j + 1 \in 1..n /\ IsSuccess(i + 1) /\ strand[j + 1].op = "OnWrite"
      BY <1>1, <1>2, <1>3
    <2>2. i + 1 <= j + 1
      BY <1>8, <2>1 DEF SuccessFirst
    <2> QED
      BY <1>2, <2>2
  <1>9. ASSUME op = "OnWrite", SuccessFirst
        PROVE  ~SuccessReady' /\ (SuccessReady <=> Head(strand).ok)
    <2>1. \A i \in 1..n : IsSuccess(i) => i <= 1
      BY <1>1, <1>2, <1>9 DEF SuccessFirst
    <2>2. ~SuccessReady'
      BY <1>2, <1>4, <2>1
    <2>3. SuccessReady <=> IsSuccess(1)
      BY <1>2, <2>1 DEF SuccessReady
    <2> QED
      BY <1>1, <1>9, <2>2, <2>3 DEF IsSuccess
  <1> QED
    BY <1>1, <1>5, <1>6, <1>7, <1>8, <1>9 DEF Handler

-----------------------------------------------------------------------------
(* The connection. *)

\* ~SignalingClient finds no open connection to close, because a connected client is
\* always reading, and ioc.run() does not return under it.
LEMMA QuietStep ==
  ASSUME AppDisconnects = FALSE
  PROVE  TypeOK /\ ReaderAlive /\ QuietInv /\ [Next]_vars => QuietInv'
  <1> SUFFICES ASSUME TypeOK, ReaderAlive, QuietInv, [Next]_vars PROVE QuietInv'
    OBVIOUS
  <1> USE DEF QuietInv, HandlerNames
  <1>1. CASE MainStep
    BY <1>1 DEF MainStep, Connect, ConnectFails, Handshake, StartRead, RunReturns, clientVars,
                streamVars, IsReady
  <1>2. ASSUME NEW m \in Messages, CallStep(m) PROVE QuietInv'
    <2>1. CASE PostDoSend(m)
      BY <2>1, Posted DEF PostDoSend, clientVars, streamVars
    <2> QED
      BY <1>2, <2>1 DEF CallStep, SendToPeer, SendRefused, TellRefused, SendAccepted, Push,
                        clientVars, streamVars, IsReady
  <1>3. CASE IoStep
    <2>1. CASE RunDoSend
      BY <2>1, Started DEF RunDoSend, streamVars
    <2>2. CASE OnWritePop
      BY <2>2, Started DEF OnWritePop, streamVars
    <2>3. CASE StartWrite \/ OnWriteSettles \/ OnWriteFailed \/ OnWriteSent \/ SendNext
      BY <2>3 DEF StartWrite, OnWriteSettles, OnWriteFailed, OnWriteSent, SendNext, streamVars,
                  IsReady
    <2>4. CASE OnRead
      BY <2>4, Started DEF OnRead
    <2>5. CASE RunClose \/ OnClose
      BY <2>5, Started DEF RunClose, OnClose
    <2> QED
      BY <1>3, <2>1, <2>2, <2>3, <2>4, <2>5 DEF IoStep
  <1>4. CASE StreamStep
    BY <1>4, Posted DEF StreamStep, WriteCompletes, ReadCompletes, CloseCompletes
  <1>5. CASE DisconnectStep
    BY <1>5 DEF DisconnectStep, DisconnectBegins, DisconnectCloses, DisconnectFlushes,
                DisconnectPosts, ReaderAlive
  <1>6. CASE Terminated \/ UNCHANGED vars
    BY <1>6 DEF Terminated, vars, threadVars, streamVars, IsReady
  <1> QED
    BY <1>1, <1>2, <1>3, <1>4, <1>5, <1>6 DEF Next

LEMMA LinkStep ==
  TypeOK /\ StartInv /\ QuietInv /\ LinkInv /\ [Next]_vars => LinkInv'
  <1> SUFFICES ASSUME TypeOK, StartInv, QuietInv, LinkInv, [Next]_vars PROVE LinkInv'
    OBVIOUS
  <1> USE DEF LinkInv, IsConnected, SetConnectionState, HandlerNames
  <1>0. main \in {"start", "connecting"} => ~FailureReady /\ io = "idle"
    <2>1. strand = <<>> => Len(strand) = 0
      OBVIOUS
    <2> QED
      BY <2>1 DEF StartInv, FailureReady
  <1>1. CASE MainStep
    BY <1>0, <1>1 DEF MainStep, Connect, ConnectFails, Handshake, StartRead, RunReturns,
                      clientVars, streamVars, FailureReady
  <1>2. ASSUME NEW m \in Messages, CallStep(m) PROVE LinkInv'
    <2>1. CASE PostDoSend(m)
      BY <2>1, PostedResult DEF PostDoSend, clientVars, streamVars
    <2> QED
      BY <1>2, <2>1 DEF CallStep, SendToPeer, SendRefused, TellRefused, SendAccepted, Push,
                        clientVars, streamVars, FailureReady
  <1>3. CASE IoStep
    <2>0. main \notin {"start", "connecting"}
      BY <1>3, <1>0 DEF IoStep, RunDoSend, StartWrite, OnWritePop, OnWriteSettles, OnWriteFailed,
                        OnWriteSent, SendNext, OnRead, RunClose, OnClose, Runs
    <2>1. CASE RunDoSend
      BY <2>1, StartedResult DEF RunDoSend, DoSend, Runs, streamVars
    <2>2. CASE OnWritePop
      BY <2>2, StartedResult DEF OnWritePop, streamVars
    <2>3. CASE OnWriteFailed
      BY <2>0, <2>3 DEF OnWriteFailed, streamVars, FailureReady
    <2>4. CASE StartWrite \/ OnWriteSettles \/ OnWriteSent \/ SendNext
      BY <2>4 DEF StartWrite, OnWriteSettles, OnWriteSent, SendNext, DoSend, clientVars,
                  streamVars, FailureReady
    <2>5. CASE OnRead
      BY <2>0, <2>5, StartedResult DEF OnRead
    <2>6. CASE RunClose \/ OnClose
      BY <2>6, Started DEF RunClose, OnClose, QuietInv
    <2> QED
      BY <1>3, <2>1, <2>2, <2>3, <2>4, <2>5, <2>6 DEF IoStep
  <1>4. CASE StreamStep
    <2>1. main \notin {"start", "connecting"}
      BY <1>4 DEF StreamStep, WriteCompletes, ReadCompletes, CloseCompletes, StartInv
    <2>2. ASSUME NEW ok \in BOOLEAN, WriteCompletes(ok) PROVE LinkInv'
      BY <2>2, PostedResult DEF WriteCompletes, clientVars
    <2>3. ASSUME NEW ok \in BOOLEAN, ReadCompletes(ok) PROVE LinkInv'
      BY <2>3, PostedResult DEF ReadCompletes, clientVars
    <2>4. ~ \E ok \in BOOLEAN : CloseCompletes(ok)
      BY DEF CloseCompletes, QuietInv
    <2> QED
      BY <1>4, <2>2, <2>3, <2>4 DEF StreamStep
  <1>5. CASE DisconnectStep
    BY <1>5 DEF DisconnectStep, DisconnectBegins, DisconnectCloses, DisconnectFlushes,
                DisconnectPosts, QuietInv, clientVars, streamVars, FailureReady
  <1>6. CASE Terminated \/ UNCHANGED vars
    BY <1>6 DEF Terminated, vars, clientVars, threadVars, streamVars, FailureReady
  <1> QED
    BY <1>1, <1>2, <1>3, <1>4, <1>5, <1>6 DEF Next

-----------------------------------------------------------------------------
(* The messages. *)

\* What OnWrite has taken is not queued any more, and each message was taken once.
LEMMA TakenOnce ==
  ASSUME TypeOK, BooksInv
  PROVE  /\ Popped \in Nat /\ Written \in Nat /\ Len(queue) \in Nat /\ Len(pushed) \in Nat
         /\ Popped + Len(queue) = Len(pushed)
         /\ \A i \in 1..Popped :
              /\ i \in 1..Len(pushed) /\ pushed[i] \in Messages /\ pushed[i] \notin Queued
              /\ i # Popped => pushed[i] # pushed[Popped]
  <1>1. /\ Popped \in Nat /\ Written \in Nat /\ Len(queue) \in Nat /\ Len(pushed) \in Nat
        /\ Popped + Len(queue) = Len(pushed)
    BY DEF TypeOK, BooksInv, Popped, Written
  <1>2. ASSUME NEW i \in 1..Popped
        PROVE  /\ i \in 1..Len(pushed) /\ pushed[i] \in Messages /\ pushed[i] \notin Queued
               /\ i # Popped => pushed[i] # pushed[Popped]
    <2>1. i \in 1..Len(pushed) /\ Popped \in 1..Len(pushed)
      BY <1>1
    <2>2. pushed[i] \in Messages
      BY <2>1 DEF TypeOK
    <2>3. ASSUME pushed[i] \in Queued PROVE FALSE
      <3>0. DOMAIN queue = 1..Len(queue)
        BY DEF TypeOK
      <3>1. PICK j \in 1..Len(queue) : queue[j] = pushed[i]
        BY <2>3, <3>0 DEF Queued, ToSet
      <3>2. pushed[Popped + j] = pushed[i] /\ Popped + j \in 1..Len(pushed) /\ Popped + j # i
        BY <1>1, <3>1 DEF BooksInv
      <3> QED
        BY <2>1, <3>2 DEF BooksInv, Distinct
    <2> QED
      BY <2>1, <2>2, <2>3 DEF BooksInv, Distinct
  <1> QED
    BY <1>1, <1>2

\* Nothing about the accepted messages changes.
LEMMA BooksKept ==
  ASSUME TypeOK, BooksInv, UNCHANGED <<queue, current, pushed, wire>>,
         \A m \in ToSet(pushed) : outcome'[m] = outcome[m]
  PROVE  BooksInv'
  <1>1. \A i \in 1..Popped : outcome'[pushed[i]] = outcome[pushed[i]]
    <2> SUFFICES ASSUME NEW i \in 1..Popped PROVE outcome'[pushed[i]] = outcome[pushed[i]]
      OBVIOUS
    <2>1. pushed[i] \in ToSet(pushed)
      BY TakenOnce DEF ToSet, TypeOK
    <2> QED
      BY <2>1
  <1> QED
    BY <1>1 DEF BooksInv, Popped, Written

LEMMA PushBooks ==
  ASSUME TypeOK, OutcomeInv, BooksInv, FlightInv, NEW m \in Messages, Push(m)
  PROVE  BooksInv' /\ Popped' = Popped /\ Written' = Written
  <1>1. /\ queue' = Append(queue, m) /\ pushed' = Append(pushed, m) /\ call[m] = "accepted"
        /\ UNCHANGED <<current, outcome, wire>>
    BY DEF Push
  <1>2. m \notin ToSet(pushed)
    BY <1>1 DEF OutcomeInv, Entered
  <1>3. Distinct(pushed')
    BY <1>1, <1>2, AppendSet DEF TypeOK, BooksInv
  <1>4. /\ Len(queue') = Len(queue) + 1 /\ Len(pushed') = Len(pushed) + 1
        /\ \A i \in 1..Len(queue) : queue'[i] = queue[i]
        /\ \A i \in 1..Len(pushed) : pushed'[i] = pushed[i]
        /\ queue'[Len(queue) + 1] = m /\ pushed'[Len(pushed) + 1] = m
    BY <1>1 DEF TypeOK
  <1>5. Popped' = Popped /\ Written' = Written
    BY <1>1, <1>4, TakenOnce DEF Popped, Written
  <1>6. \A i \in 1..Len(queue') : queue'[i] = pushed'[Popped + i]
    <2> SUFFICES ASSUME NEW i \in 1..Len(queue') PROVE queue'[i] = pushed'[Popped + i]
      OBVIOUS
    <2>1. CASE i \in 1..Len(queue)
      <3>1. Popped + i \in 1..Len(pushed)
        BY <2>1, TakenOnce
      <3> QED
        BY <1>4, <2>1, <3>1 DEF BooksInv
    <2>2. CASE i = Len(queue) + 1
      BY <1>4, <2>2, TakenOnce
    <2> QED
      BY <1>4, <2>1, <2>2, TakenOnce
  <1>7. /\ \A i \in 1..Popped : pushed'[i] = pushed[i]
        /\ Popped >= 1 => pushed'[Popped] = pushed[Popped]
        /\ \A i \in 1..Written : pushed'[i] = pushed[i]
        /\ Written <= Len(pushed') /\ Len(queue') <= Len(pushed')
    <2>1. /\ Popped \in Nat /\ Written \in Nat /\ Len(queue) \in Nat /\ Len(pushed) \in Nat
          /\ Popped + Len(queue) = Len(pushed)
      BY TakenOnce
    <2>2. Written <= Len(pushed)
      BY DEF BooksInv
    <2> QED
      BY <1>4, <2>1, <2>2
  <1> QED
    BY <1>1, <1>3, <1>5, <1>6, <1>7 DEF BooksInv

\* OnWrite takes the first queued message.
LEMMA PopBooks ==
  ASSUME TypeOK, OutcomeInv, BooksInv, OnWritePop
  PROVE  /\ BooksInv' /\ Written' = Written
         /\ IF queue = <<>> THEN current' = NoMessage /\ Popped' = Popped
                            ELSE current' # NoMessage /\ Popped' = Popped + 1
  <1>1. io = "idle" /\ current = NoMessage /\ UNCHANGED <<outcome, pushed, wire>>
    BY DEF OnWritePop, Runs, OutcomeInv, InOnWrite, historyVars
  <1>2. CASE queue = <<>>
    <2>1. UNCHANGED <<queue, current>>
      BY <1>1, <1>2 DEF OnWritePop
    <2> QED
      BY <1>1, <1>2, <2>1, BooksKept DEF Popped, Written
  <1>3. CASE queue # <<>>
    <2>1. /\ current' = queue[1] /\ queue[1] \in Messages /\ 1 \in 1..Len(queue)
          /\ Len(queue') = Len(queue) - 1
          /\ \A i \in 1..(Len(queue) - 1) : queue'[i] = queue[i + 1]
      BY <1>3 DEF OnWritePop, TypeOK
    <2>2. Popped' = Popped + 1 /\ Written' = Written
      BY <1>1, <2>1, TakenOnce DEF Popped, Written
    <2>3. current' = pushed[Popped + 1]
      BY <2>1 DEF BooksInv
    <2>4. \A i \in 1..Len(queue') : queue'[i] = pushed[(Popped + 1) + i]
      <3> SUFFICES ASSUME NEW i \in 1..Len(queue') PROVE queue'[i] = pushed[(Popped + 1) + i]
        OBVIOUS
      <3>1. i + 1 \in 1..Len(queue) /\ Popped + (i + 1) = (Popped + 1) + i
        BY <2>1, TakenOnce
      <3>2. queue'[i] = queue[i + 1]
        BY <2>1, TakenOnce
      <3> QED
        BY <3>1, <3>2 DEF BooksInv
    <2>5. \A i \in 1..(Popped + 1) : pushed[i] # current' =>
            outcome[pushed[i]] = IF i <= Written THEN "SENT" ELSE "FAILED"
      <3> SUFFICES ASSUME NEW i \in 1..(Popped + 1), pushed[i] # current'
                   PROVE  outcome[pushed[i]] = IF i <= Written THEN "SENT" ELSE "FAILED"
        OBVIOUS
      <3>1. i \in 1..Popped
        BY <2>3, TakenOnce
      <3>2. pushed[i] # current
        BY <1>1, <3>1, TakenOnce, ConstantsAssumption
      <3> QED
        BY <3>1, <3>2 DEF BooksInv
    <2>6. Len(queue') <= Len(pushed) /\ Popped + 1 >= 1
      BY <2>1, TakenOnce
    <2>7. current' # NoMessage
      BY <2>1, ConstantsAssumption
    <2> QED
      BY <1>1, <1>3, <2>2, <2>3, <2>4, <2>5, <2>6, <2>7 DEF BooksInv, Written
  <1> QED
    BY <1>2, <1>3

\* OnWrite reports its message, and nothing else that was taken.
LEMMA ReportBooks ==
  ASSUME TypeOK, OutcomeInv, BooksInv, NEW s \in {"SENT", "FAILED"},
         UNCHANGED <<queue, pushed, wire>>, current' = NoMessage,
         \A m \in Messages : outcome'[m] = IF m = current THEN s ELSE outcome[m],
         current # NoMessage => s = IF Popped <= Written THEN "SENT" ELSE "FAILED"
  PROVE  BooksInv'
  <1>1. \A i \in 1..Popped : outcome'[pushed[i]] = IF i <= Written THEN "SENT" ELSE "FAILED"
    <2> SUFFICES ASSUME NEW i \in 1..Popped
                 PROVE  outcome'[pushed[i]] = IF i <= Written THEN "SENT" ELSE "FAILED"
      OBVIOUS
    <2>1. /\ pushed[i] \in Messages \ Queued
          /\ i # Popped => pushed[i] # pushed[Popped]
      BY TakenOnce
    <2>2. CASE pushed[i] = current
      <3>1. current # NoMessage /\ current = pushed[Popped]
        BY <2>1, <2>2, ConstantsAssumption DEF BooksInv
      <3> QED
        BY <2>1, <2>2, <3>1
    <2>3. CASE pushed[i] # current
      BY <2>1, <2>3 DEF BooksInv
    <2> QED
      BY <2>2, <2>3
  <1> QED
    BY <1>1 DEF BooksInv, Popped, Written

-----------------------------------------------------------------------------
(* The writes. *)

\* DoSend starts a write that may succeed only where none is outstanding.
LEMMA StartedWrite ==
  ASSUME TypeOK, StartWrite, queue # <<>>,
         \A i \in 2..Len(writes) : ~writes[i].live,
         stream = "open" => writes = <<>>
  PROVE  /\ \A i \in 2..Len(writes') : ~writes'[i].live
         /\ HeadLive' => \/ HeadLive /\ writes'[1] = writes[1]
                         \/ writes = <<>> /\ stream = "open" /\ writes'[1].msg = queue[1]
  <1> PICK n \in Nat : n = Len(writes)
    BY DEF TypeOK
  <1>1. /\ Len(writes') = n + 1 /\ \A i \in 1..n : writes'[i] = writes[i]
        /\ writes'[n + 1].msg = queue[1] /\ writes'[n + 1].live = (stream = "open")
        /\ n = 0 <=> writes = <<>>
    BY StartWriteFacts DEF TypeOK
  <1>2. ASSUME NEW i \in 2..(n + 1) PROVE ~writes'[i].live
    <2>1. CASE i \in 2..n
      BY <1>1, <2>1
    <2>2. CASE i = n + 1
      <3>1. writes # <<>>
        BY <1>1, <2>2
      <3> QED
        BY <1>1, <2>2, <3>1
    <2> QED
      BY <2>1, <2>2
  <1>3. CASE n = 0
    <2>1. writes'[1].msg = queue[1] /\ writes'[1].live = (stream = "open") /\ writes = <<>>
      BY <1>1, <1>3
    <2>2. HeadLive' => stream = "open"
      BY <2>1 DEF HeadLive
    <2> QED
      BY <1>1, <1>2, <2>1, <2>2
  <1>4. CASE n # 0
    <2>1. 1 \in 1..n /\ writes # <<>> /\ writes'[1] = writes[1]
      BY <1>1, <1>4
    <2> QED
      BY <1>1, <1>2, <2>1 DEF HeadLive
  <1> QED
    BY <1>3, <1>4

\* What waits behind a completed write cannot succeed: it was started when the client was
\* not connected any more.
LEMMA WaitingWrites ==
  ASSUME TypeOK, LinkInv, CycleInv, NEW ok \in BOOLEAN, WriteCompletes(ok)
  PROVE  /\ \A i \in 1..Len(writes') : ~writes'[i].live
         /\ ~HeadLive'
         /\ ok => HeadLive
  <1> PICK n \in Nat : n = Len(writes)
    BY DEF TypeOK
  <1>1. /\ n # 0 /\ Head(writes) = writes[1] /\ Len(writes') = n - 1
        /\ ok => HeadLive
    BY WritesType DEF WriteCompletes, HeadLive, TypeOK
  <1>2. \A i \in 1..(n - 1) : writes'[i].live <=> stream' = "open"
    BY DEF WriteCompletes
  <1>3. stream' = "open" => n <= 1
    BY DEF WriteCompletes, LinkInv, CycleInv
  <1>4. \A i \in 1..Len(writes') : ~writes'[i].live
    <2>1. CASE stream' = "open"
      BY <1>1, <1>3, <2>1
    <2>2. CASE stream' # "open"
      BY <1>1, <1>2, <2>2
    <2> QED
      BY <2>1, <2>2
  <1>5. writes' # <<>> => 1 \in 1..Len(writes')
    BY WritesType
  <1> QED
    BY <1>1, <1>4, <1>5 DEF HeadLive

\* The steps that start no write and handle no completion.
FlightVars == <<strand, io, current, queue, pushed, wire, stream, writes>>

LEMMA FlightKept ==
  ASSUME FlightInv, UNCHANGED FlightVars
  PROVE  FlightInv'
  BY DEF FlightVars, FlightInv, Popped, Written, SuccessReady, SuccessFirst, IsSuccess, HeadLive,
         IsReady

LEMMA DoSendFlight ==
  ASSUME TypeOK, FlightInv, RunDoSend
  PROVE  FlightInv'
  <1>1. /\ Runs("DoSend") /\ io = "idle" /\ io' \in {"idle", "sending"}
        /\ UNCHANGED <<queue, current, stream, writes, pushed, wire>>
    BY DEF RunDoSend, DoSend, Runs, streamVars, historyVars
  <1>2. /\ IsReady("OnWrite")' <=> IsReady("OnWrite")
        /\ SuccessReady' <=> SuccessReady
        /\ SuccessFirst'
    BY <1>1, Started, StartedResult DEF HandlerNames, FlightInv
  <1> QED
    BY <1>1, <1>2 DEF FlightInv, Popped, Written, HeadLive

LEMMA StartFlight ==
  ASSUME TypeOK, LockInv, LinkInv, CycleInv, BooksInv, FlightInv, StartWrite
  PROVE  FlightInv'
  <1>1. /\ io = "sending" /\ io' = "idle" /\ queue # <<>>
        /\ UNCHANGED <<queue, strand, current, stream, pushed, wire>>
    BY DEF StartWrite, LockInv, clientVars
  <1>2. /\ IsReady("OnWrite")' <=> IsReady("OnWrite")
        /\ SuccessReady' <=> SuccessReady
        /\ SuccessFirst'
    BY <1>1 DEF SuccessReady, SuccessFirst, IsSuccess, IsReady, FlightInv
  <1>3. stream = "open" => writes = <<>> /\ ~IsReady("OnWrite") /\ Written = Popped
    <2> SUFFICES ASSUME stream = "open"
                 PROVE  writes = <<>> /\ ~IsReady("OnWrite") /\ Written = Popped
      OBVIOUS
    <2>1. writes = <<>> /\ ~IsReady("OnWrite")
      BY <1>1 DEF LinkInv, CycleInv
    <2>2. ~SuccessReady
      BY <2>1 DEF SuccessReady, IsSuccess, IsReady
    <2> QED
      BY <2>1, <2>2, TakenOnce DEF FlightInv
  <1>4. /\ \A i \in 2..Len(writes') : ~writes'[i].live
        /\ HeadLive' => \/ HeadLive /\ writes'[1] = writes[1]
                        \/ writes = <<>> /\ stream = "open" /\ writes'[1].msg = queue[1]
    BY <1>1, <1>3, StartedWrite DEF FlightInv
  <1>5. Popped' = Popped /\ Written' = Written
    BY <1>1 DEF Popped, Written
  <1> QED
    BY <1>1, <1>2, <1>3, <1>4, <1>5 DEF FlightInv

LEMMA PopFlight ==
  ASSUME TypeOK, OutcomeInv, LinkInv, BooksInv, FlightInv, OnWritePop
  PROVE  FlightInv'
  <1>1. /\ Runs("OnWrite") /\ io = "idle" /\ UNCHANGED <<stream, writes>>
        /\ io' = IF Head(strand).ok THEN "sent" ELSE "failed"
    BY DEF OnWritePop, Runs, streamVars
  <1>2. /\ IsReady("OnWrite") /\ ~SuccessReady' /\ SuccessFirst'
        /\ SuccessReady <=> Head(strand).ok
        /\ ~Head(strand).ok => FailureReady
    BY <1>1, Started, StartedResult DEF HandlerNames, FlightInv
  <1>3. ~HeadLive /\ ~HeadLive'
    BY <1>1, <1>2 DEF FlightInv, HeadLive
  <1>4. /\ Written' = Written
        /\ IF queue = <<>> THEN current' = NoMessage /\ Popped' = Popped
                           ELSE current' # NoMessage /\ Popped' = Popped + 1
    BY PopBooks
  <1>5. Popped \in Nat /\ Written \in Nat /\ Popped + Len(queue) = Len(pushed)
        /\ Written <= Len(pushed) /\ (queue = <<>> => Len(queue) = 0)
    BY TakenOnce DEF BooksInv
  <1>6. CASE Head(strand).ok
    <2>1. Written = Popped + 1 /\ queue # <<>>
      BY <1>2, <1>5, <1>6 DEF FlightInv
    <2>2. Written' = Popped' /\ current' # NoMessage
      BY <1>4, <2>1
    <2> QED
      BY <1>1, <1>2, <1>3, <1>4, <1>5, <1>6, <2>1, <2>2 DEF FlightInv
  <1>7. CASE ~Head(strand).ok
    <2>1. Written <= Popped /\ stream # "open"
      BY <1>2, <1>5, <1>7 DEF FlightInv, LinkInv
    <2>2. Written' <= Popped' /\ (current' # NoMessage => Written' < Popped')
      BY <1>4, <1>5, <2>1
    <2>3. Written' <= Popped' + 1 /\ Written' # Popped' + 1
      BY <1>4, <1>5, <2>2
    <2>4. io' = "failed" /\ stream' # "open"
      BY <1>1, <1>7, <2>1
    <2>5. \A i \in 2..Len(writes') : ~writes'[i].live
      BY <1>1 DEF FlightInv
    <2> QED
      BY <1>2, <1>3, <2>2, <2>3, <2>4, <2>5 DEF FlightInv
  <1> QED
    BY <1>6, <1>7

\* The steps of OnWrite after it took the message.
LEMMA ReportFlight ==
  ASSUME FlightInv, OnWriteSettles \/ OnWriteFailed \/ OnWriteSent \/ SendNext
  PROVE  FlightInv'
  <1>1. UNCHANGED <<strand, queue, pushed, wire, stream, writes>>
    BY DEF OnWriteSettles, OnWriteFailed, OnWriteSent, SendNext, clientVars, streamVars, historyVars
  <1>2. /\ io \in {"sent", "failed", "tellSent", "tellFailed", "next"}
        /\ \/ io = "sent" /\ io' = "tellSent" /\ current' = current
           \/ io = "failed" /\ io' = "tellFailed" /\ current' = current
           \/ io' \in {"idle", "sending", "next"}
    BY DEF OnWriteSettles, OnWriteFailed, OnWriteSent, SendNext, DoSend
  <1> QED
    BY <1>1, <1>2 DEF FlightInv, Popped, Written, SuccessReady, SuccessFirst, IsSuccess, HeadLive,
                      IsReady

LEMMA CompletedFlight ==
  ASSUME TypeOK, LinkInv, CycleInv, BooksInv, FlightInv, NEW ok \in BOOLEAN, WriteCompletes(ok)
  PROVE  FlightInv' /\ Popped' = Popped /\ Written' = IF ok THEN Written + 1 ELSE Written
  <1>1. /\ strand' = Ready("OnWrite", ok) /\ stream' = IF ok THEN stream ELSE "failed"
        /\ wire' = IF ok THEN Append(wire, Head(writes).msg) ELSE wire
        /\ UNCHANGED <<queue, io, current, pushed>>
    BY DEF WriteCompletes, clientVars
  <1>2. ~HeadLive' /\ \A i \in 2..Len(writes') : ~writes'[i].live
    <2>1. \A i \in 2..Len(writes') : i \in 1..Len(writes')
      BY WritesType
    <2> QED
      BY <2>1, WaitingWrites
  <1>3. ok => HeadLive
    BY WaitingWrites
  <1>4. Popped' = Popped /\ Written' = IF ok THEN Written + 1 ELSE Written
    <2>1. Head(writes).msg \in Messages
      <3> DEFINE Write == [msg : Messages, live : BOOLEAN]
      <3>1. writes \in Seq(Write) /\ writes # <<>>
        BY DEF WriteCompletes, TypeOK
      <3>2. Head(writes) \in Write
        <4> HIDE DEF Write
        <4> QED  BY <3>1
      <3> QED
        BY <3>2
    <2>2. Len(wire') = IF ok THEN Len(wire) + 1 ELSE Len(wire)
      BY <1>1, <2>1 DEF TypeOK
    <2> QED
      BY <1>1, <2>2 DEF Popped, Written
  <1>5. /\ SuccessReady' <=> SuccessReady \/ ok
        /\ SuccessFirst /\ (ok => ~IsReady("OnWrite")) => SuccessFirst'
    BY <1>1, PostedResult DEF HandlerNames
  <1>6. SuccessReady => IsReady("OnWrite")
    BY DEF SuccessReady, IsSuccess, IsReady
  <1>7. Popped \in Nat /\ Written \in Nat
    BY TakenOnce
  <1>8. CASE ok
    <2>1. io \in {"idle", "sending"} /\ ~IsReady("OnWrite") /\ Written = Popped
      BY <1>3, <1>8 DEF FlightInv
    <2> QED
      BY <1>1, <1>2, <1>4, <1>5, <1>7, <1>8, <2>1 DEF FlightInv
  <1>9. CASE ~ok
    BY <1>1, <1>2, <1>4, <1>5, <1>7, <1>9 DEF FlightInv
  <1> QED
    BY <1>4, <1>8, <1>9

\* A write that succeeds is the one of the first queued message.
LEMMA CompletedBooks ==
  ASSUME TypeOK, LinkInv, CycleInv, BooksInv, FlightInv, WriteCompletes(TRUE)
  PROVE  /\ BooksInv' /\ Written = Popped /\ Len(wire) < Len(pushed)
         /\ wire' = Append(wire, pushed[Written + 1])
  <1>1. /\ queue # <<>> /\ Written = Popped /\ writes[1].msg = queue[1]
    BY WaitingWrites DEF FlightInv
  <1>2. Head(writes) = writes[1] /\ 1 \in 1..Len(queue) /\ queue[1] \in Messages
    BY <1>1 DEF WriteCompletes, TypeOK
  <1>3. queue[1] = pushed[Written + 1]
    BY <1>1, <1>2 DEF BooksInv
  <1>4. /\ wire' = Append(wire, pushed[Written + 1])
        /\ UNCHANGED <<queue, current, pushed, outcome>>
    BY <1>1, <1>2, <1>3 DEF WriteCompletes, clientVars
  <1>5. /\ Written' = Written + 1 /\ \A i \in 1..Written : wire'[i] = wire[i]
        /\ wire'[Written + 1] = pushed[Written + 1]
    BY <1>2, <1>3, <1>4 DEF Written, TypeOK
  <1>6. /\ Popped' = Popped /\ Written + 1 <= Len(pushed) /\ Len(wire) < Len(pushed)
        /\ Popped \in Nat /\ Written \in Nat
    BY <1>1, <1>2, <1>4, TakenOnce DEF Popped, Written
  <1>7. \A i \in 1..(Written + 1) : wire'[i] = pushed[i]
    BY <1>5, <1>6 DEF BooksInv
  <1>8. \A i \in 1..Popped : i <= Written /\ i <= Written + 1
    BY <1>1, <1>6
  <1> QED
    BY <1>1, <1>4, <1>5, <1>6, <1>7, <1>8 DEF BooksInv

-----------------------------------------------------------------------------
(* Every step. *)

LEMMA BooksStep ==
  ASSUME TypeOK, StartInv, CycleInv, OutcomeInv, QuietInv, LinkInv, BooksInv, FlightInv,
         [Next]_vars
  PROVE  BooksInv'
  <1>1. CASE MainStep
    BY <1>1, BooksKept
    DEF MainStep, Connect, ConnectFails, Handshake, StartRead, RunReturns, clientVars, historyVars
  <1>2. ASSUME NEW m \in Messages, CallStep(m) PROVE BooksInv'
    <2>1. CASE Push(m)
      BY <2>1, PushBooks
    <2>2. CASE TellRefused(m)
      <3>1. m \notin ToSet(pushed)
        BY <2>2 DEF TellRefused, OutcomeInv, Entered
      <3>2. /\ UNCHANGED <<queue, current, pushed, wire>>
            /\ \A k \in ToSet(pushed) : outcome'[k] = outcome[k]
        BY <2>2, <3>1 DEF TellRefused, Ends, TypeOK, ToSet, clientVars
      <3> QED
        BY <3>2, BooksKept
    <2> QED
      BY <1>2, <2>1, <2>2, BooksKept
      DEF CallStep, SendToPeer, SendRefused, SendAccepted, PostDoSend, clientVars, historyVars
  <1>3. CASE RunDoSend \/ StartWrite \/ OnWriteSettles \/ SendNext
    BY <1>3, BooksKept DEF RunDoSend, StartWrite, OnWriteSettles, SendNext, clientVars, historyVars
  <1>4. CASE OnWritePop
    BY <1>4, PopBooks
  <1>5. CASE OnWriteFailed
    <2>1. /\ UNCHANGED <<queue, pushed, wire>> /\ current' = NoMessage /\ io = "tellFailed"
          /\ \A m \in Messages : outcome'[m] = IF m = current THEN "FAILED" ELSE outcome[m]
      BY <1>5 DEF OnWriteFailed, Ends
    <2>2. current # NoMessage => ~(Popped <= Written)
      BY <2>1, TakenOnce DEF FlightInv
    <2> QED
      BY <2>1, <2>2, ReportBooks
  <1>6. CASE OnWriteSent
    <2>1. /\ UNCHANGED <<queue, pushed, wire>> /\ current' = NoMessage /\ io = "tellSent"
          /\ \A m \in Messages : outcome'[m] = IF m = current THEN "SENT" ELSE outcome[m]
      BY <1>6 DEF OnWriteSent, Ends, clientVars
    <2>2. Popped <= Written
      BY <2>1, TakenOnce DEF FlightInv
    <2> QED
      BY <2>1, <2>2, ReportBooks
  <1>7. CASE OnRead \/ RunClose \/ OnClose
    BY <1>7, BooksKept DEF OnRead, RunClose, OnClose, clientVars, historyVars
  <1>8. ASSUME NEW ok \in BOOLEAN, WriteCompletes(ok) PROVE BooksInv'
    <2>1. CASE ok = TRUE
      BY <1>8, <2>1, CompletedBooks
    <2>2. CASE ok = FALSE
      BY <1>8, <2>2, BooksKept DEF WriteCompletes, clientVars
    <2> QED
      BY <2>1, <2>2
  <1>9. ASSUME NEW ok \in BOOLEAN, ReadCompletes(ok) \/ CloseCompletes(ok) PROVE BooksInv'
    BY <1>9, BooksKept DEF ReadCompletes, CloseCompletes, clientVars, historyVars
  <1>10. CASE DisconnectStep
    BY <1>10, BooksKept DEF DisconnectStep, DisconnectBegins, DisconnectCloses,
       DisconnectFlushes, DisconnectPosts, QuietInv, clientVars, historyVars
  <1>11. CASE Terminated \/ UNCHANGED vars
    BY <1>11, BooksKept DEF Terminated, vars, clientVars, threadVars, historyVars
  <1> QED
    BY <1>1, <1>2, <1>3, <1>4, <1>5, <1>6, <1>7, <1>8, <1>9, <1>10, <1>11
    DEF Next, IoStep, StreamStep

LEMMA FlightStep ==
  ASSUME TypeOK, LockInv, StartInv, CycleInv, OutcomeInv, QuietInv, LinkInv, BooksInv,
         FlightInv, [Next]_vars
  PROVE  FlightInv'
  <1>1. CASE MainStep
    <2>1. CASE Handshake
      <3>1. \A m \in Messages : ~Entered(m)
        BY <2>1 DEF Handshake, StartInv, Entered
      <3>2. Len(pushed) = 0
        <4>1. \A i \in 1..Len(pushed) : pushed[i] \in Messages /\ pushed[i] \in ToSet(pushed)
          BY DEF TypeOK, ToSet
        <4>2. Len(pushed) \in Nat /\ (Len(pushed) # 0 => 1 \in 1..Len(pushed))
          BY DEF TypeOK
        <4> QED
          BY <3>1, <4>1, <4>2 DEF OutcomeInv
      <3>3. Written >= Popped
        BY <3>2, TakenOnce
      <3>4. UNCHANGED <<strand, io, current, queue, pushed, wire, writes>>
        BY <2>1 DEF Handshake, historyVars
      <3> QED
        BY <3>3, <3>4 DEF FlightInv, Popped, Written, SuccessReady, SuccessFirst, IsSuccess,
                          HeadLive, IsReady
    <2> QED
      BY <1>1, <2>1, FlightKept DEF FlightVars, MainStep, Connect, ConnectFails, StartRead,
         RunReturns, clientVars, streamVars, historyVars
  <1>2. ASSUME NEW m \in Messages, CallStep(m) PROVE FlightInv'
    <2>1. CASE Push(m)
      <3>1. Popped' = Popped /\ Written' = Written
        BY <2>1, PushBooks
      <3>2. UNCHANGED <<strand, io, current, stream, writes>>
        BY <2>1 DEF Push, streamVars
      <3>3. queue # <<>> => queue' # <<>> /\ queue'[1] = queue[1]
        <4>1. queue \in Seq(Messages) /\ queue' = Append(queue, m)
          BY <2>1 DEF Push, TypeOK
        <4>2. queue # <<>> => 1 \in 1..Len(queue)
          BY <4>1
        <4> QED
          BY <4>1, <4>2, AppendProperties
      <3> QED
        BY <3>1, <3>2, <3>3 DEF FlightInv, SuccessReady, SuccessFirst, IsSuccess, HeadLive,
                                IsReady
    <2>2. CASE PostDoSend(m)
      <3>1. /\ strand' = Ready("DoSend", TRUE)
            /\ UNCHANGED <<io, current, queue, pushed, wire, stream, writes>>
        BY <2>2 DEF PostDoSend, clientVars, streamVars, historyVars
      <3>2. /\ SuccessReady' <=> SuccessReady
            /\ SuccessFirst => SuccessFirst'
            /\ IsReady("OnWrite")' <=> IsReady("OnWrite")
        BY <3>1, Posted, PostedResult DEF HandlerNames
      <3> QED
        BY <3>1, <3>2 DEF FlightInv, Popped, Written, HeadLive
    <2> QED
      BY <1>2, <2>1, <2>2, FlightKept DEF FlightVars, CallStep, SendToPeer, SendRefused,
         TellRefused, SendAccepted, clientVars, streamVars, historyVars
  <1>3. CASE RunDoSend \/ StartWrite
    BY <1>3, DoSendFlight, StartFlight
  <1>4. CASE OnWritePop \/ OnWriteSettles \/ OnWriteFailed \/ OnWriteSent \/ SendNext
    BY <1>4, PopFlight, ReportFlight
  <1>5. CASE OnRead
    <2>1. /\ Runs("OnRead") /\ UNCHANGED <<io, current, queue, pushed, wire, stream, writes>>
      BY <1>5 DEF OnRead, historyVars
    <2>2. /\ SuccessReady' <=> SuccessReady
          /\ SuccessFirst => SuccessFirst'
          /\ IsReady("OnWrite")' <=> IsReady("OnWrite")
      BY <2>1, Started, StartedResult DEF HandlerNames
    <2> QED
      BY <2>1, <2>2 DEF FlightInv, Popped, Written, HeadLive
  <1>6. ~RunClose /\ ~OnClose
    BY Started DEF RunClose, OnClose, QuietInv, HandlerNames
  <1>7. ASSUME NEW ok \in BOOLEAN, WriteCompletes(ok) PROVE FlightInv'
    BY <1>7, CompletedFlight
  <1>8. ASSUME NEW ok \in BOOLEAN, ReadCompletes(ok) PROVE FlightInv'
    <2>1. /\ strand' = Ready("OnRead", ok) /\ stream' \in {stream, "failed"}
          /\ UNCHANGED <<io, current, queue, pushed, wire, writes>>
      BY <1>8 DEF ReadCompletes, clientVars, historyVars
    <2>2. /\ SuccessReady' <=> SuccessReady
          /\ SuccessFirst => SuccessFirst'
          /\ IsReady("OnWrite")' <=> IsReady("OnWrite")
      BY <2>1, Posted, PostedResult DEF HandlerNames
    <2> QED
      BY <2>1, <2>2 DEF FlightInv, Popped, Written, HeadLive
  <1>9. ~ \E ok \in BOOLEAN : CloseCompletes(ok)
    BY DEF CloseCompletes, QuietInv
  <1>10. CASE DisconnectStep
    BY <1>10, FlightKept DEF FlightVars, DisconnectStep, DisconnectBegins, DisconnectCloses,
       DisconnectFlushes, DisconnectPosts, QuietInv, clientVars, streamVars, historyVars
  <1>11. CASE Terminated \/ UNCHANGED vars
    BY <1>11, FlightKept DEF FlightVars, Terminated, vars, clientVars, threadVars, streamVars,
       historyVars
  <1> QED
    BY <1>1, <1>2, <1>3, <1>4, <1>5, <1>6, <1>7, <1>8, <1>9, <1>10, <1>11
    DEF Next, IoStep, StreamStep

-----------------------------------------------------------------------------
(* The refinement. *)

LEMMA SameSets == \A s : Promise!ToSet(s) = ToSet(s)
  BY DEF ToSet, Promise!ToSet

LEMMA LinkFacts ==
  /\ Link \in {"new", "up", "lost"}
  /\ Link = "new" <=> connState \in {"DISCONNECTED", "CONNECTING"}
  /\ Link = "up" <=> IsConnected
  BY DEF Link, IsConnected

\* What is heard of a call is what it was told when it ended, because it is told nothing
\* after that.
LEMMA SameHeard ==
  ASSUME Kept, UNCHANGED outcome
  PROVE  UNCHANGED Heard
  BY DEF Kept, Heard

\* A call ends: its sender hears a status, and the right one while the link is up.
LEMMA CallEnds ==
  ASSUME TypeOK, TypeOK', Kept, NEW m \in Messages, NEW s \in FinalStatus,
         outcome[m] = "none", outcome' = Ends({m}, s), IsConnected => Told(m)
  PROVE  Promise!End(m, s)
  <1>1. outcome' = [outcome EXCEPT ![m] = s]
    BY DEF Ends, TypeOK
  <1>2. outcome'[m] = s /\ s # "none" /\ \A k \in Messages : k # m => outcome'[k] = outcome[k]
    BY DEF Ends, FinalStatus
  <1>3. Heard' = [Heard EXCEPT ![m] = told'[m]]
    BY <1>2 DEF Heard, Kept
  <1>4. told'[m] \in Promise!Status
    BY DEF TypeOK, MessageStatus, Promise!Status
  <1>5. Link = "up" => told'[m] = s
    BY <1>2, LinkFacts DEF Told
  <1> QED
    BY <1>1, <1>3, <1>4, <1>5 DEF Promise!End

\* Nothing that the users of the channel see.
LEMMA Invisible ==
  ASSUME Kept, UNCHANGED <<Link, pushed, wire, outcome>>
  PROVE  UNCHANGED Promise!vars
  BY SameHeard DEF Promise!vars

\* An error of the connection loses the link, once.
LEMMA LinkLost ==
  ASSUME Kept, LinkInv, main \notin {"start", "connecting"}, connState' = "CONNECTION_ERROR",
         UNCHANGED <<pushed, wire, outcome>>
  PROVE  [Promise!Next]_(Promise!vars)
  <1>1. Link # "new" /\ Link' = "lost"
    BY DEF LinkInv, Link
  <1>2. CASE Link = "up"
    BY <1>1, <1>2, SameHeard DEF Promise!Next, Promise!Lose
  <1>3. CASE Link = "lost"
    BY <1>1, <1>3, Invisible
  <1> QED
    BY <1>1, <1>2, <1>3, LinkFacts

\* How far the calls of the accepted messages are.
LEMMA MessageStates ==
  ASSUME TypeOK, OutcomeInv, BooksInv, NEW i \in 1..Len(pushed)
  PROVE  /\ pushed[i] \in Messages /\ pushed[i] \in ToSet(pushed)
         /\ i > Popped => outcome[pushed[i]] = "none"
         /\ i <= Popped /\ pushed[i] # current =>
              outcome[pushed[i]] = IF i <= Written THEN "SENT" ELSE "FAILED"
  <1>1. pushed[i] \in Messages /\ pushed[i] \in ToSet(pushed)
    BY DEF TypeOK, ToSet
  <1>2. ASSUME i > Popped PROVE outcome[pushed[i]] = "none"
    <2> PICK j \in 1..Len(queue) : j = i - Popped
      BY <1>2, TakenOnce
    <2>1. queue[j] = pushed[i] /\ DOMAIN queue = 1..Len(queue)
      BY TakenOnce DEF BooksInv, TypeOK
    <2>2. pushed[i] \in Queued
      BY <2>1 DEF Queued, ToSet
    <2> QED
      BY <1>1, <2>2 DEF OutcomeInv, Ended
  <1>3. ASSUME i <= Popped, pushed[i] # current
        PROVE  outcome[pushed[i]] = IF i <= Written THEN "SENT" ELSE "FAILED"
    <2>1. i \in 1..Popped
      BY <1>3, TakenOnce
    <2> QED
      BY <1>3, <2>1 DEF BooksInv
  <1> QED
    BY <1>1, <1>2, <1>3

\* A write succeeds: the server can read the next message.
LEMMA CompletesDelivers ==
  ASSUME TypeOK, Kept, OutcomeInv, CycleInv, LinkInv, BooksInv, FlightInv, WriteCompletes(TRUE)
  PROVE  Promise!Deliver
  <1>1. /\ Written = Popped /\ Len(wire) < Len(pushed)
        /\ wire' = Append(wire, pushed[Len(wire) + 1])
    BY CompletedBooks DEF Written
  <1>2. current = NoMessage
    BY WaitingWrites DEF FlightInv, OutcomeInv, InOnWrite
  <1>3. \A i \in 1..Len(pushed) :
          /\ pushed[i] # current
          /\ i <= Popped => outcome[pushed[i]] = "SENT"
          /\ i > Popped => outcome[pushed[i]] = "none"
    BY <1>1, <1>2, MessageStates, ConstantsAssumption
  <1>4. \A m \in ToSet(pushed) : outcome[m] # "FAILED"
    <2>1. DOMAIN pushed = 1..Len(pushed)
      BY DEF TypeOK
    <2>2. \A i \in 1..Len(pushed) : i <= Popped \/ i > Popped
      BY TakenOnce
    <2> QED
      BY <1>3, <2>1, <2>2 DEF ToSet
  <1>5. \A m \in ToSet(wire) : outcome[m] = "SENT"
    <2>1. DOMAIN wire = 1..Written
      BY DEF TypeOK, Written
    <2>2. \A i \in 1..Written : i <= Popped /\ i \in 1..Len(pushed) /\ wire[i] = pushed[i]
      BY <1>1, TakenOnce DEF BooksInv
    <2> QED
      BY <1>3, <2>1, <2>2 DEF ToSet
  <1>6. UNCHANGED <<Link, pushed, outcome, Heard>>
    BY SameHeard DEF WriteCompletes, clientVars, Link
  <1> QED
    BY <1>1, <1>4, <1>5, <1>6, SameSets DEF Promise!Deliver

\* OnWrite reports SENT: the server can read that message.
LEMMA SentConfirms ==
  ASSUME Silent = {}, TypeOK, TypeOK', Kept, OutcomeInv, BooksInv, FlightInv, OnWriteSent,
         \A m \in Messages : IsConnected => Told(m)
  PROVE  current \in Messages /\ Promise!Confirm(current)
  <1>1. /\ io = "tellSent" /\ outcome' = Ends({current}, "SENT")
        /\ UNCHANGED <<connState, pushed, wire>>
    BY DEF OnWriteSent, clientVars
  <1>2. /\ current \in Messages /\ Written = Popped /\ current = pushed[Popped]
        /\ Popped >= 1 /\ Popped \in 1..Len(pushed)
    BY <1>1, TakenOnce DEF FlightInv, BooksInv, TypeOK
  <1>3. current \in ToSet(wire)
    <2>1. DOMAIN wire = 1..Written /\ Popped \in 1..Written
      BY <1>2, TakenOnce DEF TypeOK, Written
    <2>2. wire[Popped] = current
      BY <1>2, <2>1 DEF BooksInv
    <2> QED
      BY <2>1, <2>2 DEF ToSet
  <1>4. outcome[current] = "none" /\ Link' = Link
    BY <1>1, <1>2 DEF OutcomeInv, Ended, Link
  <1>5. Promise!End(current, "SENT")
    BY <1>1, <1>2, <1>4, CallEnds DEF FinalStatus
  <1> QED
    BY <1>1, <1>2, <1>3, <1>4, <1>5, SameSets DEF Promise!Confirm

\* OnWrite reports FAILED: the server will never read that message.
LEMMA FailedGivesUp ==
  ASSUME Silent = {}, TypeOK, TypeOK', Kept, OutcomeInv, BooksInv, FlightInv, OnWriteFailed,
         current # NoMessage, \A m \in Messages : IsConnected => Told(m)
  PROVE  current \in Messages /\ Promise!GiveUp(current)
  <1>1. /\ io = "tellFailed" /\ connState' = "CONNECTION_ERROR"
        /\ outcome' = Ends({current}, "FAILED") /\ UNCHANGED <<pushed, wire>>
    BY DEF OnWriteFailed, SetConnectionState
  <1>2. /\ current \in Messages /\ Written < Popped /\ current = pushed[Popped]
        /\ Popped \in 1..Len(pushed)
    BY <1>1, TakenOnce DEF FlightInv, BooksInv, TypeOK
  <1>3. current \in ToSet(pushed)
    BY <1>2, MessageStates
  <1>4. current \notin ToSet(wire)
    <2>1. DOMAIN wire = 1..Written
      BY DEF TypeOK, Written
    <2>2. \A i \in 1..Written : wire[i] = pushed[i]
      BY DEF BooksInv
    <2>3. Popped \in Nat /\ Written \in Nat
      BY TakenOnce
    <2>4. \A i \in 1..Written : i \in 1..Popped /\ i # Popped
      BY <1>2, <2>3
    <2>5. \A i \in 1..Written : pushed[i] # pushed[Popped]
      BY <2>4, TakenOnce
    <2> QED
      BY <1>2, <2>1, <2>2, <2>5 DEF ToSet
  <1>5. outcome[current] = "none" /\ Link' = "lost"
    BY <1>1, <1>2 DEF OutcomeInv, Ended, Link
  <1>6. Promise!End(current, "FAILED")
    BY <1>1, <1>2, <1>5, CallEnds DEF FinalStatus
  <1> QED
    BY <1>1, <1>2, <1>3, <1>4, <1>5, <1>6, SameSets DEF Promise!GiveUp

LEMMA CallMaps ==
  ASSUME Silent = {}, TypeOK, TypeOK', Kept, StartInv, CycleInv, OutcomeInv, LinkInv,
         NEW m \in Messages, CallStep(m), IsConnected => Told(m)
  PROVE  [Promise!Next]_(Promise!vars)
  <1>1. CASE SendToPeer(m) \/ SendRefused(m) \/ SendAccepted(m) \/ PostDoSend(m)
    BY <1>1, Invisible
    DEF SendToPeer, SendRefused, SendAccepted, PostDoSend, clientVars, historyVars, Link
  <1>2. ASSUME call[m] \in {"refusing", "accepted"}
        PROVE  Link # "new" /\ outcome[m] = "none" /\ m \notin ToSet(pushed)
    <2>1. main \notin {"start", "connecting"}
      BY <1>2 DEF StartInv
    <2>2. ~Ended(m) /\ m \notin ToSet(pushed)
      BY <1>2 DEF OutcomeInv, Entered
    <2> QED
      BY <2>1, <2>2, LinkFacts DEF LinkInv, Ended
  <1>3. CASE TellRefused(m)
    <2>1. /\ call[m] = "refusing" /\ ~IsConnected
          /\ outcome' = Ends({m}, "CANCELLED") /\ UNCHANGED <<connState, pushed, wire>>
      BY <1>3 DEF TellRefused, CycleInv, clientVars
    <2>2. Promise!End(m, "CANCELLED")
      BY <1>2, <2>1, CallEnds DEF FinalStatus
    <2>3. Link = "lost" /\ Link' = Link
      BY <1>2, <2>1, LinkFacts DEF Link
    <2>4. Promise!Refuse(m)
      BY <1>2, <2>1, <2>2, <2>3, SameSets DEF Promise!Refuse
    <2> QED
      BY <2>4 DEF Promise!Next
  <1>4. CASE Push(m)
    <2>1. /\ call[m] = "accepted" /\ pushed' = Append(pushed, m)
          /\ UNCHANGED <<Link, wire, outcome, Heard>>
      BY <1>4, SameHeard DEF Push, Link
    <2>2. Promise!Accept(m)
      BY <1>2, <2>1, SameSets DEF Promise!Accept
    <2> QED
      BY <2>2 DEF Promise!Next
  <1> QED
    BY <1>1, <1>3, <1>4 DEF CallStep

LEMMA IoMaps ==
  ASSUME Silent = {}, TypeOK, TypeOK', Kept, StartInv, OutcomeInv, QuietInv, LinkInv, BooksInv,
         FlightInv, IoStep, \A m \in Messages : IsConnected => Told(m)
  PROVE  [Promise!Next]_(Promise!vars)
  <1>0. main \notin {"start", "connecting"}
    BY DEF IoStep, RunDoSend, StartWrite, OnWritePop, OnWriteSettles, OnWriteFailed, OnWriteSent,
           SendNext, OnRead, RunClose, OnClose, Runs, StartInv
  <1>1. CASE RunDoSend \/ StartWrite \/ OnWritePop \/ OnWriteSettles \/ SendNext
    BY <1>1, Invisible DEF RunDoSend, StartWrite, OnWritePop, OnWriteSettles, SendNext, clientVars,
       historyVars, Link
  <1>2. CASE OnWriteFailed
    <2>1. CASE current = NoMessage
      <3>1. connState' = "CONNECTION_ERROR" /\ UNCHANGED <<pushed, wire>>
        BY <1>2 DEF OnWriteFailed, SetConnectionState
      <3>2. outcome' = outcome
        BY <1>2, <2>1, ConstantsAssumption DEF OnWriteFailed, Ends, TypeOK
      <3> QED
        BY <1>0, <3>1, <3>2, LinkLost
    <2>2. CASE current # NoMessage
      BY <1>2, <2>2, FailedGivesUp DEF Promise!Next
    <2> QED
      BY <2>1, <2>2
  <1>3. CASE OnWriteSent
    BY <1>3, SentConfirms DEF Promise!Next
  <1>4. CASE OnRead
    <2>1. connState' \in {connState, "CONNECTION_ERROR"} /\ UNCHANGED <<pushed, wire, outcome>>
      BY <1>4 DEF OnRead, historyVars, SetConnectionState
    <2>2. CASE connState' = connState
      BY <2>1, <2>2, Invisible DEF Link
    <2>3. CASE connState' = "CONNECTION_ERROR"
      BY <1>0, <2>1, <2>3, LinkLost
    <2> QED
      BY <2>1, <2>2, <2>3
  <1>5. ~RunClose /\ ~OnClose
    BY Started DEF RunClose, OnClose, QuietInv, HandlerNames
  <1> QED
    BY <1>1, <1>2, <1>3, <1>4, <1>5 DEF IoStep

LEMMA StepMaps ==
  ASSUME Silent = {}, TypeOK, LockInv, StartInv, CycleInv, OutcomeInv, PromiseInv, [Next]_vars
  PROVE  [Promise!Next]_(Promise!vars)
  <1> USE DEF PromiseInv
  <1>0. TypeOK' /\ Kept /\ \A m \in Messages : IsConnected => Told(m)
    BY TypeStep, OutcomeStep, ToldStep
  <1>1. CASE MainStep
    <2>1. CASE Connect
      BY <1>0, <2>1, Invisible DEF Connect, SetConnectionState, LinkInv, Link, historyVars
    <2>2. CASE ConnectFails \/ Handshake
      <3>1. /\ connState' \in {"CONNECTED", "CONNECTION_ERROR"} /\ Link = "new"
            /\ UNCHANGED <<pushed, wire, outcome>>
        BY <2>2, LinkFacts DEF ConnectFails, Handshake, SetConnectionState, LinkInv, historyVars
      <3>2. Link' \in {"up", "lost"} /\ UNCHANGED Heard
        BY <1>0, <3>1, SameHeard DEF Link
      <3> QED
        BY <3>1, <3>2 DEF Promise!Next, Promise!Open
    <2>3. CASE StartRead \/ RunReturns
      BY <1>0, <2>3, Invisible DEF StartRead, RunReturns, clientVars, historyVars, Link
    <2> QED
      BY <1>1, <2>1, <2>2, <2>3 DEF MainStep
  <1>2. ASSUME NEW m \in Messages, CallStep(m) PROVE [Promise!Next]_(Promise!vars)
    BY <1>0, <1>2, CallMaps
  <1>3. CASE IoStep
    BY <1>0, <1>3, IoMaps
  <1>4. ASSUME NEW ok \in BOOLEAN, WriteCompletes(ok) PROVE [Promise!Next]_(Promise!vars)
    <2>1. CASE ok = TRUE
      BY <1>0, <1>4, <2>1, CompletesDelivers DEF Promise!Next
    <2>2. CASE ok = FALSE
      BY <1>0, <1>4, <2>2, Invisible DEF WriteCompletes, clientVars, Link
    <2> QED
      BY <2>1, <2>2
  <1>5. ASSUME NEW ok \in BOOLEAN, ReadCompletes(ok) \/ CloseCompletes(ok)
        PROVE  [Promise!Next]_(Promise!vars)
    BY <1>0, <1>5, Invisible DEF ReadCompletes, CloseCompletes, clientVars, historyVars, Link
  <1>6. CASE DisconnectStep
    BY <1>0, <1>6, Invisible DEF DisconnectStep, DisconnectBegins, DisconnectCloses,
       DisconnectFlushes, DisconnectPosts, QuietInv, clientVars, historyVars, Link
  <1>7. CASE Terminated \/ UNCHANGED vars
    BY <1>0, <1>7, Invisible DEF Terminated, vars, clientVars, historyVars, Link
  <1> QED
    BY <1>1, <1>2, <1>3, <1>4, <1>5, <1>6, <1>7 DEF Next, StreamStep

LEMMA InitMaps == Init => Promise!Init
  BY DEF Init, Promise!Init, Link, Heard

\* What holds of the client in every reachable state, and how it steps in the channel.
LEMMA ClientChannel ==
  ASSUME AppDisconnects = FALSE, Silent = {}
  PROVE  Spec => [](TypeOK /\ PromiseInv) /\ [][Promise!Next]_(Promise!vars)
  <1> DEFINE Inv == /\ TypeOK /\ LockInv /\ StartInv /\ CycleInv /\ OutcomeInv /\ ReaderAlive
                    /\ PromiseInv
  <1>1. Init => Inv
    BY TypeInit, LockInit, LoopInit, OutcomeInit, PromiseInit
  <1>2. Inv /\ [Next]_vars => Inv'
    <2> SUFFICES ASSUME Inv, [Next]_vars PROVE Inv'
      OBVIOUS
    <2>1. TypeOK' /\ LockInv' /\ StartInv' /\ CycleInv' /\ OutcomeInv' /\ ReaderAlive'
      BY TypeStep, LockStep, StartStep, CycleStep, OutcomeStep, ReaderStep
    <2>2. QuietInv' /\ LinkInv' /\ BooksInv' /\ FlightInv'
      BY QuietStep, LinkStep, BooksStep, FlightStep DEF PromiseInv
    <2> QED
      BY <2>1, <2>2 DEF PromiseInv
  <1>3. Inv /\ [Next]_vars => [Promise!Next]_(Promise!vars)
    BY StepMaps
  <1>4. Inv => TypeOK /\ PromiseInv
    OBVIOUS
  <1> HIDE DEF Inv
  <1> QED
    BY <1>1, <1>2, <1>3, <1>4, PTL DEF Spec

\* Every step of the client, of the threads that use it and of the stream is a step of the
\* stop-and-wait channel, or nothing its users can see: messages are delivered in the order
\* in which they were accepted, each one after the call of the previous one ended as SENT;
\* after a FAILED nothing is delivered; CANCELLED means never accepted; and as long as the
\* link is up a sender hears how its call ended, although the status it hears is a second
\* look at a field that all threads write.  Disconnect is excluded, as main() never calls it
\* while it is connected; every SendToPeer has a callback.
THEOREM ClientImplementsOutbox ==
  ASSUME AppDisconnects = FALSE, Silent = {}
  PROVE  Spec => ImplementsOutbox
  <1>1. Spec => Init
    BY DEF Spec
  <1> QED
    BY <1>1, ClientChannel, InitMaps, PTL DEF ImplementsOutbox, Promise!Spec

-----------------------------------------------------------------------------
(* What the channel means for a sender. *)

\* SENT is the end of written messages, FAILED of accepted ones that are not written,
\* CANCELLED of those that were never accepted.
EndInv ==
  /\ ToSet(wire) \subseteq ToSet(pushed)
  /\ \A m \in Messages :
       /\ outcome[m] = "SENT" => m \in ToSet(wire)
       /\ outcome[m] = "FAILED" => m \in ToSet(pushed) \ ToSet(wire)
       /\ outcome[m] = "CANCELLED" => m \notin ToSet(pushed)

\* The channel keeps it so, with no help from the client behind it.
LEMMA EndStep ==
  ASSUME TypeOK, EndInv, [Promise!Next]_(Promise!vars)
  PROVE  EndInv'
  <1>0. wire \in Seq(Messages) /\ pushed \in Seq(Messages) /\ DOMAIN outcome = Messages
    BY DEF TypeOK
  <1>1. ASSUME NEW s \in Seq(Messages), NEW x PROVE ToSet(Append(s, x)) = ToSet(s) \cup {x}
    BY <1>1 DEF ToSet
  <1> USE SameSets DEF EndInv
  <1>2. CASE Promise!Open \/ Promise!Lose
    BY <1>2 DEF Promise!Open, Promise!Lose
  <1>3. CASE Promise!Deliver
    <2> PICK x : x = pushed[Len(wire) + 1]
      OBVIOUS
    <2>1. /\ wire' = Append(wire, x) /\ pushed' = pushed /\ outcome' = outcome
          /\ \A m \in ToSet(pushed) : outcome[m] # "FAILED"
      BY <1>3 DEF Promise!Deliver
    <2>2. x \in ToSet(pushed)
      BY <1>0, <1>3 DEF Promise!Deliver, ToSet
    <2>3. ToSet(wire)' = ToSet(wire) \cup {x}
      BY <1>0, <1>1, <2>1
    <2> QED
      BY <2>1, <2>2, <2>3
  <1>4. ASSUME NEW k \in Messages, Promise!Accept(k) PROVE EndInv'
    <2>1. ToSet(pushed)' = ToSet(pushed) \cup {k} /\ wire' = wire /\ outcome' = outcome
      BY <1>0, <1>1, <1>4 DEF Promise!Accept
    <2> QED
      BY <1>4, <2>1 DEF Promise!Accept
  <1>5. ASSUME NEW k \in Messages, Promise!Refuse(k) \/ Promise!Confirm(k) \/ Promise!GiveUp(k)
        PROVE  EndInv'
    <2>1. PICK s \in {"CANCELLED", "SENT", "FAILED"} :
            /\ outcome' = [outcome EXCEPT ![k] = s] /\ UNCHANGED <<pushed, wire>>
            /\ s = "CANCELLED" => k \notin ToSet(pushed)
            /\ s = "SENT" => k \in ToSet(wire)
            /\ s = "FAILED" => k \in ToSet(pushed) \ ToSet(wire)
      BY <1>5 DEF Promise!Refuse, Promise!Confirm, Promise!GiveUp, Promise!End
    <2> QED
      BY <1>0, <2>1
  <1>6. CASE UNCHANGED Promise!vars
    BY <1>6 DEF Promise!vars
  <1> QED
    BY <1>2, <1>3, <1>4, <1>5, <1>6 DEF Promise!Next

LEMMA EndInvariant ==
  ASSUME AppDisconnects = FALSE, Silent = {}
  PROVE  Spec => []EndInv
  <1>1. Init => EndInv
    BY DEF Init, EndInv, ToSet
  <1>2. Spec => Init
    BY DEF Spec
  <1> QED
    BY <1>1, <1>2, ClientChannel, EndStep, PTL

\* As this program uses the client, a call ends as SENT only if the stream has written its
\* message, and as FAILED or CANCELLED only if it has not and, as a call ends once
\* (EndsOnce), never will.  What the sender is told is that end while the link is up
\* (ToldRight); after a read error it may be another one (the run ws_cancelled), and
\* Disconnect on an open connection breaks even this (the run ws_sent).
THEOREM EndsTrueHold ==
  ASSUME AppDisconnects = FALSE, Silent = {}
  PROVE  Spec => []EndsTrue
  <1>1. EndInv => EndsTrue
    BY DEF EndInv, EndsTrue
  <1> QED
    BY <1>1, EndInvariant, PTL
=============================================================================
