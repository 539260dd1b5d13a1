-------------------------- MODULE WebSocketClient --------------------------
(***************************************************************************)
(* The signaling connection of the streamer: class WebSocketClient, the    *)
(* io_context that runs its handlers, the threads that call Send through   *)
(* SignalingClient::SendToPeer, and the caller of Disconnect.              *)
(*                                                                         *)
(* Threads.  The main thread connects synchronously and then becomes the   *)
(* io thread (ioc.run()), which runs the handlers of `strand` one at a     *)
(* time, in the order they were posted.  WebRTC's signaling thread calls   *)
(* SendToPeer from PeerConnection callbacks.  An application thread may    *)
(* call Disconnect.  m_queueMutex guards only m_messageQueue: the fields   *)
(* m_connectionState and m_MessagecurrentStatus are read and written by    *)
(* all of these threads without it, so a step below ends where the code    *)
(* leaves a critical section, and between two accesses wherever a step of  *)
(* another thread in between could make a difference: a status that was    *)
(* just assigned is read again for the argument of the callback, and       *)
(* another thread may have assigned it since.                              *)
(*                                                                         *)
(* The Beast stream is external.  An operation that is started completes   *)
(* later, with or without an error, by appending its handler to `strand`.  *)
(***************************************************************************)
EXTENDS Naturals, Sequences, FiniteSets, SequencesExt

CONSTANTS
  Messages,       \* the calls of Send; a call and its message are the same thing
  Threads,        \* the threads that make these calls
  Caller,         \* Caller[m]: the thread that makes call m
  Silent,         \* the calls made without a status callback (onStatus = nullptr)
  AppDisconnects, \* TRUE if an application thread may call Disconnect at any time
  NoMessage       \* OnWrite's currentMsg when it found the queue empty

ASSUME ConstantsAssumption ==
  /\ Caller \in [Messages -> Threads]
  /\ Silent \subseteq Messages
  /\ AppDisconnects \in BOOLEAN
  /\ NoMessage \notin Messages

VARIABLES
  connState,  \* m_connectionState
  status,     \* m_MessagecurrentStatus, one field for the whole client
  queue,      \* m_messageQueue
  strand,     \* the handlers that are ready on m_strand, in order
  io,         \* where the io thread is: between handlers, or inside DoSend or OnWrite
  current,    \* OnWrite's local currentMsg
  main,       \* progress of main(): Connect, then ioc.run()
  call,       \* progress of every call of Send
  disc,       \* progress of the call of Disconnect
  stream,     \* external: the state of the Beast stream m_ws
  reading,    \* external: an async_read is outstanding
  writes,     \* external: the outstanding async_writes
  closing,    \* external: the state of the stream when the outstanding async_close
              \* was started, "none" if there is none
  told,       \* the status last passed to the callback of every call
  outcome,    \* history: how every call ended, "none" before that: which of the code's
              \* reports was made to its callback, whatever value it passed
  pushed,     \* history: the messages in the order they entered the queue
  wire        \* history: the messages the stream wrote, in order

clientVars == <<connState, status, queue>>
threadVars == <<strand, io, current, main, call, disc>>
streamVars == <<stream, reading, writes, closing>>
historyVars == <<told, outcome, pushed, wire>>
vars == <<clientVars, threadVars, streamVars, historyVars>>

ConnectionState ==
  {"DISCONNECTED", "CONNECTING", "CONNECTED", "CONNECTION_ERROR", "CLOSING"}
MessageStatus == {"QUEUED", "SENDING", "SENT", "FAILED", "CANCELLED"}
FinalStatus == {"SENT", "FAILED", "CANCELLED"}
Handler == [op : {"DoSend", "OnWrite", "OnRead", "Close", "OnClose"}, ok : BOOLEAN]

\* SendToPeer's refusal, Send's refusal, and the three stops of an accepted call.
CallState ==
  {"idle", "checked", "accepted", "pushed", "posted", "dropped", "refusing", "refused"}
CallOver == {"posted", "dropped", "refused"}

IsConnected == connState = "CONNECTED"
SetConnectionState(newState) == connState' = newState
Ready(handler, ok) == Append(strand, [op |-> handler, ok |-> ok])
IsReady(handler) == \E i \in 1..Len(strand) : strand[i].op = handler

\* Passes s to the callbacks of the messages in ms that have one.
Notify(ms, s) == [m \in Messages |-> IF m \in ms \ Silent THEN s ELSE told[m]]
\* The calls of the messages in ms end so.
Ends(ms, s) == [m \in Messages |-> IF m \in ms THEN s ELSE outcome[m]]

Queued == ToSet(queue)

\* m_queueMutex is held over more than one step only by DoSend, which calls back under it.
Locked == io = "sending"

Init ==
  /\ connState = "DISCONNECTED" /\ status = "QUEUED" /\ queue = <<>>
  /\ strand = <<>> /\ io = "idle" /\ current = NoMessage /\ main = "start"
  /\ call = [m \in Messages |-> "idle"]
  /\ disc = "idle"
  /\ stream = "none" /\ reading = FALSE /\ writes = <<>> /\ closing = "none"
  /\ told = [m \in Messages |-> "QUEUED"]
  /\ outcome = [m \in Messages |-> "none"]
  /\ pushed = <<>> /\ wire = <<>>
-----------------------------------------------------------------------------
(* The main thread: WebSocketClient::Connect, then ioc.run(). *)

Connect ==
  /\ main = "start"
  /\ SetConnectionState("CONNECTING")
  /\ main' = "connecting"
  /\ UNCHANGED <<status, queue, strand, io, current, call, disc, streamVars, historyVars>>

\* resolve, connect or handshake throws
ConnectFails ==
  /\ main = "connecting"
  /\ SetConnectionState("CONNECTION_ERROR")
  /\ main' = "run"
  /\ UNCHANGED <<status, queue, strand, io, current, call, disc, streamVars, historyVars>>

Handshake ==
  /\ main = "connecting"
  /\ stream' = "open"
  /\ SetConnectionState("CONNECTED")
  /\ main' = "handshaken"
  /\ UNCHANGED <<status, queue, strand, io, current, call, disc, reading, writes, closing, historyVars>>

\* Read() starts an async_read only while the state is CONNECTED.
Read == reading' = IsConnected

StartRead ==
  /\ main = "handshaken"
  /\ Read
  /\ main' = "run"
  /\ UNCHANGED <<clientVars, strand, io, current, call, disc, stream, writes, closing, historyVars>>

\* What keeps ioc.run() from returning.
Work == strand # <<>> \/ io # "idle" \/ reading \/ writes # <<>> \/ closing # "none"

RunReturns ==
  /\ main = "run"
  /\ ~Work
  /\ main' = "returned"
  /\ UNCHANGED <<clientVars, strand, io, current, call, disc, streamVars, historyVars>>
-----------------------------------------------------------------------------
(* A thread that sends: SignalingClient::SendToPeer, then Send. *)

ThreadIsFree(t) ==
  \A m \in Messages : Caller[m] = t => call[m] \in CallOver \cup {"idle"}

\* SendToPeer looks at the connection state before it calls Send.
SendToPeer(m) ==
  /\ call[m] = "idle"
  /\ ThreadIsFree(Caller[m])
  /\ call' = [call EXCEPT ![m] = IF IsConnected THEN "checked" ELSE "dropped"]
  /\ UNCHANGED <<clientVars, strand, io, current, main, disc, streamVars, historyVars>>

\* Send looks again.  The refusal writes the status field of the whole client, and reads
\* it again for the callback.
SendRefused(m) ==
  /\ call[m] = "checked"
  /\ ~IsConnected
  /\ call' = [call EXCEPT ![m] = "refusing"]
  /\ status' = IF m \in Silent THEN status ELSE "CANCELLED"
  /\ UNCHANGED <<connState, queue, strand, io, current, main, disc, streamVars, historyVars>>

TellRefused(m) ==
  /\ call[m] = "refusing"
  /\ call' = [call EXCEPT ![m] = "refused"]
  /\ told' = Notify({m}, status)
  /\ outcome' = Ends({m}, "CANCELLED")
  /\ UNCHANGED <<clientVars, strand, io, current, main, disc, streamVars, pushed, wire>>

SendAccepted(m) ==
  /\ call[m] = "checked"
  /\ IsConnected
  /\ call' = [call EXCEPT ![m] = "accepted"]
  /\ UNCHANGED <<clientVars, strand, io, current, main, disc, streamVars, historyVars>>

Push(m) ==
  /\ call[m] = "accepted"
  /\ ~Locked
  /\ queue' = Append(queue, m)
  /\ pushed' = Append(pushed, m)
  /\ call' = [call EXCEPT ![m] = "pushed"]
  /\ UNCHANGED <<connState, status, strand, io, current, main, disc, streamVars, told, outcome, wire>>

PostDoSend(m) ==
  /\ call[m] = "pushed"
  /\ strand' = Ready("DoSend", TRUE)
  /\ call' = [call EXCEPT ![m] = "posted"]
  /\ UNCHANGED <<clientVars, io, current, main, disc, streamVars, historyVars>>
-----------------------------------------------------------------------------
(* The io thread. *)

Runs(handler) ==
  /\ main = "run"
  /\ io = "idle"
  /\ strand # <<>>
  /\ Head(strand).op = handler
  /\ strand' = Tail(strand)

\* Mutant: the guard of DoSend dropped.
NeverSending == FALSE

AlreadySending == status = "SENDING"

\* DoSend's look, under the lock: it takes the head of the queue but leaves it there.
DoSend ==
  IF AlreadySending \/ queue = <<>>
  THEN io' = "idle" /\ UNCHANGED status
  ELSE io' = "sending" /\ status' = "SENDING"

RunDoSend ==
  /\ Runs("DoSend")
  /\ DoSend
  /\ UNCHANGED <<connState, queue, current, main, call, disc, streamVars, historyVars>>

\* The rest of DoSend: the callback, still under the lock, and the write.
StartWrite ==
  /\ io = "sending"
  /\ told' = Notify({Head(queue)}, status)
  /\ writes' = Append(writes, [msg |-> Head(queue), live |-> stream = "open"])
  /\ io' = "idle"
  /\ UNCHANGED <<clientVars, strand, current, main, call, disc, stream, reading, closing,
                 outcome, pushed, wire>>

\* Mutants: OnWrite takes the message but leaves it in the queue; it does not ask whether
\* there is one (what front() of an empty queue refers to is no message).
OnWritePeek ==
  /\ Runs("OnWrite")
  /\ io' = IF Head(strand).ok THEN "sent" ELSE "failed"
  /\ current' = IF queue = <<>> THEN NoMessage ELSE Head(queue)
  /\ UNCHANGED <<connState, status, queue, main, call, disc, streamVars, historyVars>>
OnWriteUnasked ==
  /\ Runs("OnWrite")
  /\ io' = IF Head(strand).ok THEN "sent" ELSE "failed"
  /\ current' = IF queue = <<>> THEN "garbage" ELSE Head(queue)
  /\ queue' = IF queue = <<>> THEN queue ELSE Tail(queue)
  /\ UNCHANGED <<connState, status, main, call, disc, streamVars, historyVars>>

\* OnWrite, up to the end of its critical section.  Whatever heads the queue
\* now is taken for the message that was written.
OnWritePop ==
  /\ Runs("OnWrite")
  /\ io' = IF Head(strand).ok THEN "sent" ELSE "failed"
  /\ current' = IF queue = <<>> THEN NoMessage ELSE Head(queue)
  /\ queue' = IF queue = <<>> THEN queue ELSE Tail(queue)
  /\ UNCHANGED <<connState, status, main, call, disc, streamVars, historyVars>>

\* Mutant: the status field is left as it was.
SettledNever(s) == status

\* OnWrite leaves the status field alone if the message has no callback.
Settled(s) == IF current \in Messages \ Silent THEN s ELSE status

OnWriteSettles ==
  /\ \/ io = "sent" /\ status' = Settled("SENT") /\ io' = "tellSent"
     \/ io = "failed" /\ status' = Settled("FAILED") /\ io' = "tellFailed"
  /\ UNCHANGED <<connState, queue, strand, current, main, call, disc, streamVars, historyVars>>

\* Mutant: a failed write does not change the connection state.
OnWriteFailedQuietly ==
  /\ io = "tellFailed"
  /\ told' = Notify({current}, status)
  /\ outcome' = Ends({current}, "FAILED")
  /\ io' = "idle"
  /\ current' = NoMessage
  /\ UNCHANGED <<clientVars, strand, main, call, disc, streamVars, pushed, wire>>

\* The callback reads the status field again.
OnWriteFailed ==
  /\ io = "tellFailed"
  /\ told' = Notify({current}, status)
  /\ outcome' = Ends({current}, "FAILED")
  /\ SetConnectionState("CONNECTION_ERROR")
  /\ io' = "idle"
  /\ current' = NoMessage
  /\ UNCHANGED <<status, queue, strand, main, call, disc, streamVars, pushed, wire>>

\* Mutant: DoSend is not called for the next message.
OnWriteSentAlone ==
  /\ io = "tellSent"
  /\ told' = Notify({current}, status)
  /\ outcome' = Ends({current}, "SENT")
  /\ io' = "idle"
  /\ current' = NoMessage
  /\ UNCHANGED <<clientVars, strand, main, call, disc, streamVars, pushed, wire>>

OnWriteSent ==
  /\ io = "tellSent"
  /\ told' = Notify({current}, status)
  /\ outcome' = Ends({current}, "SENT")
  /\ io' = "next"
  /\ current' = NoMessage
  /\ UNCHANGED <<clientVars, strand, main, call, disc, streamVars, pushed, wire>>

\* OnWrite calls DoSend for the next message before it returns.
SendNext ==
  /\ io = "next"
  /\ DoSend
  /\ UNCHANGED <<connState, queue, strand, current, main, call, disc, streamVars, historyVars>>

\* Mutants: no read after the first; a read even after an error.
OnReadOnce ==
  /\ Runs("OnRead")
  /\ SetConnectionState(IF Head(strand).ok THEN connState ELSE "CONNECTION_ERROR")
  /\ UNCHANGED <<status, queue, io, current, main, call, disc, streamVars, historyVars>>
OnReadRetries ==
  /\ Runs("OnRead")
  /\ reading' = TRUE
  /\ SetConnectionState(IF Head(strand).ok THEN connState ELSE "CONNECTION_ERROR")
  /\ UNCHANGED <<status, queue, io, current, main, call, disc, stream, writes, closing, historyVars>>

\* The read handler: a message goes to m_onMessage and the next read starts.
OnRead ==
  /\ Runs("OnRead")
  /\ IF Head(strand).ok
     THEN Read /\ UNCHANGED connState
     ELSE SetConnectionState("CONNECTION_ERROR") /\ UNCHANGED reading
  /\ UNCHANGED <<status, queue, io, current, main, call, disc, stream, writes, closing, historyVars>>

\* The function Disconnect posted: it starts the close handshake.
RunClose ==
  /\ Runs("Close")
  /\ closing' = stream
  /\ UNCHANGED <<clientVars, io, current, main, call, disc, stream, reading, writes, historyVars>>

OnClose ==
  /\ Runs("OnClose")
  /\ SetConnectionState(IF Head(strand).ok THEN "DISCONNECTED" ELSE "CONNECTION_ERROR")
  /\ UNCHANGED <<status, queue, io, current, main, call, disc, streamVars, historyVars>>
-----------------------------------------------------------------------------
(* The Beast stream and the peer (external). *)

\* A write that began on an open stream may have left the host before the stream
\* failed; one that begins on a failed stream cannot succeed.  Beast lets a write
\* that is started during another one wait for it, and begins it afterwards.
WriteCompletes(ok) ==
  /\ writes # <<>>
  /\ ok => Head(writes).live
  /\ wire' = IF ok THEN Append(wire, Head(writes).msg) ELSE wire
  /\ stream' = IF ok THEN stream ELSE "failed"
  /\ writes' = [i \in 1..(Len(writes) - 1) |->
                 [msg |-> writes[i + 1].msg, live |-> stream' = "open"]]
  /\ strand' = Ready("OnWrite", ok)
  /\ UNCHANGED <<clientVars, io, current, main, call, disc, reading, closing, told, outcome, pushed>>

ReadCompletes(ok) ==
  /\ reading
  /\ ok => stream = "open"
  /\ stream' = IF ok THEN stream ELSE "failed"
  /\ reading' = FALSE
  /\ strand' = Ready("OnRead", ok)
  /\ UNCHANGED <<clientVars, io, current, main, call, disc, writes, closing, historyVars>>

CloseCompletes(ok) ==
  /\ closing # "none"
  /\ ok => closing = "open"
  /\ stream' = "failed"
  /\ closing' = "none"
  /\ strand' = Ready("OnClose", ok)
  /\ UNCHANGED <<clientVars, io, current, main, call, disc, reading, writes, historyVars>>
-----------------------------------------------------------------------------
(* WebSocketClient::Disconnect, called by an application thread or, once     *)
(* ioc.run() has returned, by ~SignalingClient.                              *)

DisconnectBegins ==
  /\ disc = "idle"
  /\ AppDisconnects \/ main = "returned"
  /\ IsConnected
  /\ disc' = "checked"
  /\ UNCHANGED <<clientVars, strand, io, current, main, call, streamVars, historyVars>>

DisconnectCloses ==
  /\ disc = "checked"
  /\ SetConnectionState("CLOSING")
  /\ disc' = "flush"
  /\ UNCHANGED <<status, queue, strand, io, current, main, call, streamVars, historyVars>>

\* Mutants: the cancelled messages stay queued; messages that left the queue long
\* ago are cancelled too.
DisconnectNotifies ==
  /\ disc = "flush"
  /\ status' = "CANCELLED"
  /\ ~Locked
  /\ told' = Notify(Queued, "CANCELLED")
  /\ outcome' = Ends(Queued, "CANCELLED")
  /\ disc' = "post"
  /\ UNCHANGED <<connState, queue, strand, io, current, main, call, streamVars, pushed, wire>>
DisconnectCancelsAll ==
  /\ disc = "flush"
  /\ status' = "CANCELLED"
  /\ ~Locked
  /\ told' = Notify(ToSet(pushed), "CANCELLED")
  /\ outcome' = Ends(ToSet(pushed), "CANCELLED")
  /\ queue' = <<>>
  /\ disc' = "post"
  /\ UNCHANGED <<connState, strand, io, current, main, call, streamVars, pushed, wire>>

\* Cancels all pending messages, the one being written included.  Their callbacks get the
\* constant CANCELLED, not the field.
DisconnectFlushes ==
  /\ disc = "flush"
  /\ ~Locked
  /\ status' = IF Queued \subseteq Silent THEN status ELSE "CANCELLED"
  /\ told' = Notify(Queued, "CANCELLED")
  /\ outcome' = Ends(Queued, "CANCELLED")
  /\ queue' = <<>>
  /\ disc' = "post"
  /\ UNCHANGED <<connState, strand, io, current, main, call, streamVars, pushed, wire>>

\* Mutant: the close handshake is never started.
DisconnectForgets ==
  /\ disc = "post"
  /\ disc' = "done"
  /\ UNCHANGED <<clientVars, strand, io, current, main, call, streamVars, historyVars>>

DisconnectPosts ==
  /\ disc = "post"
  /\ strand' = Ready("Close", TRUE)
  /\ disc' = "done"
  /\ UNCHANGED <<clientVars, io, current, main, call, streamVars, historyVars>>
-----------------------------------------------------------------------------
\* main() is over and so is every call: the process exits.
Over ==
  /\ main = "returned"
  /\ \A m \in Messages : call[m] \in CallOver
  /\ disc \in {"idle", "done"}

Terminated == Over /\ UNCHANGED vars

MainStep == Connect \/ ConnectFails \/ Handshake \/ StartRead \/ RunReturns
CallStep(m) ==
  \/ SendToPeer(m) \/ SendRefused(m) \/ TellRefused(m)
  \/ SendAccepted(m) \/ Push(m) \/ PostDoSend(m)
IoStep ==
  \/ RunDoSend \/ StartWrite
  \/ OnWritePop \/ OnWriteSettles \/ OnWriteFailed \/ OnWriteSent \/ SendNext
  \/ OnRead \/ RunClose \/ OnClose
StreamStep ==
  \/ \E ok \in BOOLEAN : WriteCompletes(ok)
  \/ \E ok \in BOOLEAN : ReadCompletes(ok)
  \/ \E ok \in BOOLEAN : CloseCompletes(ok)
DisconnectStep ==
  DisconnectBegins \/ DisconnectCloses \/ DisconnectFlushes \/ DisconnectPosts

Next ==
  \/ MainStep
  \/ \E m \in Messages : CallStep(m)
  \/ IoStep
  \/ StreamStep
  \/ DisconnectStep
  \/ Terminated

Spec == Init /\ [][Next]_vars

(***************************************************************************)
(* Fairness.  Threads run: the main thread, the io thread while ioc.run()  *)
(* is active, a thread inside Send or Disconnect.  Of the stream only this *)
(* is assumed: a write and a close complete, with or without an error, and *)
(* a read of a failed stream fails.  Nothing makes a thread call Send,     *)
(* makes the peer send a message or makes the application disconnect.      *)
(***************************************************************************)
FairSpec ==
  /\ Spec
  /\ WF_vars(MainStep)
  /\ WF_vars(IoStep)
  /\ \A m \in Messages :
       WF_vars(SendRefused(m) \/ TellRefused(m) \/ SendAccepted(m) \/ Push(m) \/ PostDoSend(m))
  /\ WF_vars(DisconnectCloses \/ DisconnectFlushes \/ DisconnectPosts)
  /\ WF_vars(\E ok \in BOOLEAN : WriteCompletes(ok))
  /\ WF_vars(stream = "failed" /\ ReadCompletes(FALSE))
  /\ WF_vars(\E ok \in BOOLEAN : CloseCompletes(ok))
-----------------------------------------------------------------------------
(* Properties. *)

\* Every variable has its type.
TypeOK ==
  /\ connState \in ConnectionState
  /\ status \in MessageStatus
  /\ queue \in Seq(Messages)
  /\ strand \in Seq(Handler)
  /\ io \in {"idle", "sending", "sent", "failed", "tellSent", "tellFailed", "next"}
  /\ current \in Messages \cup {NoMessage}
  /\ main \in {"start", "connecting", "handshaken", "run", "returned"}
  /\ call \in [Messages -> CallState]
  /\ disc \in {"idle", "checked", "flush", "post", "done"}
  /\ stream \in {"none", "open", "failed"}
  /\ reading \in BOOLEAN
  /\ writes \in Seq([msg : Messages, live : BOOLEAN])
  /\ closing \in {"none", "open", "failed"}
  /\ told \in [Messages -> MessageStatus]
  /\ outcome \in [Messages -> FinalStatus \cup {"none"}]
  /\ pushed \in Seq(Messages)
  /\ wire \in Seq(Messages)

\* While the client is connected, async_write is never called before the
\* previous one has completed, which Beast requires: the check of the status
\* field at the top of DoSend is enough for that, whoever posts DoSend and when.
SingleWriter == IsConnected => Len(writes) <= 1

\* A message that entered the queue is there, or is what OnWrite has popped, or its call
\* has ended: only one of the three, whichever of OnWrite and Disconnect takes it out.
Accounted ==
  \A m \in ToSet(pushed) :
    /\ m \in Queued \/ m = current \/ outcome[m] # "none"
    /\ m \in Queued => m # current /\ outcome[m] = "none"
    /\ m = current => outcome[m] = "none"

\* A call ends once, by one of the reports of OnWrite, Send and Disconnect, and after that
\* its callback is not called again: no step changes the end or what was heard of it.
EndsOnce ==
  [][\A m \in Messages :
       outcome[m] # "none" => outcome'[m] = outcome[m] /\ told'[m] = told[m]]_vars

\* Every report assigns the status field and then reads it again, which other threads write
\* without a lock.  A callback that is called while the client is connected gets the status
\* it is called for all the same: SENDING when the write starts, then the end of the call.
\* (A refusal, which alone could come in between, needs a connection that is lost.)
ToldRight ==
  [][\A m \in Messages \ Silent : IsConnected =>
       /\ outcome'[m] # outcome[m] => told'[m] = outcome'[m]
       /\ outcome'[m] = outcome[m] /\ told'[m] # told[m] => told'[m] = "SENDING"]_vars

\* Without Disconnect, a call ends as its message did: SENT only if the stream has written
\* it, FAILED or CANCELLED only if not, so that sending it again makes no second copy.
\* OnWrite reports on the head of the queue, whichever write completed.
EndsTrue ==
  \A m \in Messages :
    /\ outcome[m] = "SENT" => m \in ToSet(wire)
    /\ outcome[m] \in {"FAILED", "CANCELLED"} => m \notin ToSet(wire)

\* Somebody will call DoSend after this state, or a write will complete.
SendPending ==
  \/ writes # <<>>
  \/ io # "idle"
  \/ IsReady("DoSend") \/ IsReady("OnWrite")
  \/ \E m \in Messages : call[m] = "pushed"

\* While the client is connected, a queued message is never left with nobody to
\* send it, although DoSend returns early when a write is outstanding.
NoLostWakeup == IsConnected /\ queue # <<>> => SendPending

\* While the client is connected and the io thread runs, a read is outstanding
\* or about to be handled.  It is all that keeps ioc.run() from returning, so
\* main() never ends with an open connection and ~SignalingClient finds none.
ReaderAlive ==
  IsConnected =>
    \/ main = "handshaken"
    \/ main = "run" /\ (reading \/ IsReady("OnRead"))

\* An accepted message is sent unless the connection is lost first.
Delivered ==
  \A m \in Messages : call[m] = "accepted" ~> told[m] = "SENT" \/ ~IsConnected

\* Once the connection is lost or closed the event loop ends, and with it main():
\* nothing keeps reading, writing or closing for ever.
LossEndsRun == main = "run" /\ ~IsConnected ~> main = "returned"

\* Without Disconnect, the client is a stop-and-wait channel: Outbox.
Link ==
  CASE connState \in {"DISCONNECTED", "CONNECTING"} -> "new"
    [] connState = "CONNECTED" -> "up"
    [] OTHER -> "lost"
Heard == [m \in Messages |-> IF outcome[m] = "none" THEN "none" ELSE told[m]]
Promise == INSTANCE Outbox WITH
  link <- Link, accepted <- pushed, delivered <- wire, verdict <- outcome, heard <- Heard

\* Every step of the client, of the threads that use it and of the stream is a
\* step of that channel or is invisible to its users.
ImplementsOutbox == Promise!Spec
-----------------------------------------------------------------------------
(* What comments of the source say, and the code does not do. *)

\* WebSocketClient.cpp:97, "Check if already sending": async_write is not called
\* while a write is outstanding, in whatever state the connection is.
OneWriteAtATime == Len(writes) <= 1

\* WebSocketClient.h:33, "Message was successfully sent": a call ends as SENT only if the
\* stream has written its message.
SentMeansWritten == \A m \in Messages : outcome[m] = "SENT" => m \in ToSet(wire)

\* WebSocketClient.h:35, "Message was cancelled (e.g., due to disconnect)": a message whose
\* sender was told so at the end is not one the stream has written.
CancelledMeansUnsent ==
  \A m \in Messages : outcome[m] # "none" /\ told[m] = "CANCELLED" => m \notin ToSet(wire)
=============================================================================
