--------------------------- MODULE TcpConnection ---------------------------
(***************************************************************************)
(* One TcpConnection (src/src/TcpConnection.cpp) with its Channel          *)
(* (Channel.cpp), its registration in Epoll (Epoll.cpp), the tasks queued  *)
(* for it in its EventLoop, the socket underneath and the threads that use *)
(* it.  The loop is the serial executor that EventLoop is shown to be      *)
(* (Executor): queued tasks run in order, one at a time, between events.   *)
(*                                                                         *)
(* A callback of the channel is one step: of what it reads, only state_ is *)
(* shared, other threads only ever set it to kDisconnecting, and doing so  *)
(* in the middle of a callback is the same as doing so right before or     *)
(* after it.  The calls of other threads are split where the loop thread   *)
(* can come in between: load, exchange, queueInLoop.  A failed assert ends *)
(* the program (the default build keeps them).                             *)
(***************************************************************************)
EXTENDS Naturals, Sequences, FiniteSets, SequencesExt

CONSTANTS
  Threads,        \* threads other than the loop thread that use the connection
  MaxUnits,       \* bound: units of data passed to send() in one behaviour
  MaxLen,         \* bound: units in one send()
  MaxQueue,       \* bound: tasks queued when another thread starts a call
  SndBuf,         \* units the socket's send buffer holds (external)
  HighWaterMark,  \* highWaterMark_, in units
  Used            \* bound: the operations that the application calls

ASSUME BoundsAssumption ==
  /\ MaxUnits \in Nat /\ MaxLen \in Nat \ {0} /\ MaxQueue \in Nat
  /\ SndBuf \in Nat \ {0} /\ HighWaterMark \in Nat
  /\ Used \subseteq {"send", "shutdown", "forceClose", "stopRead", "startRead"}

VARIABLES
  state_,         \* TcpConnection::state_
  events_,        \* Channel::events_, what the channel is interested in
  pooling,        \* Channel::pooling, is the channel in the epoll set?
  revents_,       \* Channel::revents_
  todo,           \* callbacks handleEventWithGuard has still to make
  outputBuffer_,  \* TcpConnection::outputBuffer_
  queue,          \* the loop's pending tasks for this connection, in order
  lpc,            \* the loop thread: "loop", "polled" or "handle"
  user,           \* is the loop thread in application code?
  call,           \* per thread: the rest of its call
  owner,          \* does the server still hold its shared_ptr?
  refs,           \* the threads that hold a shared_ptr
  readable,       \* socket: received data to read (external)
  peerFin,        \* socket: the peer closed its side (external)
  reset,          \* socket: the peer reset the connection (external)
  soError,        \* socket: SO_ERROR is set (external)
  wrShut,         \* socket: shutdown(SHUT_WR) was called (external)
  sndq,           \* socket: units in the send buffer (external)
  made,           \* history: units passed to send() so far
  accepted,       \* history: units sendInLoop took on, in order
  sent,           \* history: units write() took, in order
  closes,         \* history: how often closeCallback_ was called (2: or more)
  late,           \* history: what the connection met at the wrong moment: a
                  \* close between poll() and handleEvents() ("batch"), an
                  \* exchange ("exchange") or a switch of reading
                  \* ("readControl") after it was closed
  aborted         \* the assert that failed, "none" while none has

connVars == <<state_, pooling, closes, owner, user, aborted, late>>
chanVars == <<revents_, todo, lpc>>
dataVars == <<outputBuffer_, accepted, sent, sndq, soError>>
peerVars == <<readable, peerFin, reset>>
callVars == <<call, refs, made>>
vars == <<connVars, chanVars, dataVars, peerVars, callVars, events_, queue, wrShut>>

State == {"kConnecting", "kConnected", "kDisconnecting", "kDisconnected"}
Op == {"send", "shutdown", "forceClose", "stopRead", "startRead",
       "writeComplete", "highWaterMark"}
TaskOf(op) == [op |-> op, data |-> <<>>]
Step == {"none", "exchange", "queue"}
Idle == [step |-> "none", task |-> TaskOf("send")]

TypeOK ==
  /\ state_ \in State
  /\ events_ \in SUBSET {"IN", "PRI", "OUT"}
  /\ revents_ \in SUBSET {"IN", "OUT", "HUP", "ERR"}
  /\ {pooling, owner, user, readable, peerFin, reset, soError, wrShut} \subseteq BOOLEAN
  /\ \A i \in DOMAIN todo : todo[i] \in {"close", "error", "read", "write"}
  /\ lpc \in {"loop", "polled", "handle"}
  /\ \A i \in DOMAIN queue : queue[i].op \in Op
  /\ \A t \in Threads : call[t].step \in Step /\ call[t].task.op \in Op
  /\ refs \subseteq Threads
  /\ sndq \in 0..SndBuf
  /\ made \in 0..MaxUnits
  /\ \A s \in {outputBuffer_, accepted, sent} : Range(s) \subseteq 1..made
  /\ closes \in 0..2
  /\ late \subseteq {"batch", "exchange", "readControl"}

(* The constructor.                                                        *)
Init ==
  /\ state_ = "kConnecting"
  /\ events_ = {} /\ pooling = FALSE /\ revents_ = {} /\ todo = <<>>
  /\ outputBuffer_ = <<>> /\ queue = <<>>
  /\ lpc = "loop" /\ user = FALSE
  /\ call = [t \in Threads |-> Idle]
  /\ owner = TRUE /\ refs = {}
  /\ readable = FALSE /\ peerFin = FALSE /\ reset = FALSE
  /\ soError = FALSE /\ wrShut = FALSE /\ sndq = 0
  /\ made = 0 /\ accepted = <<>> /\ sent = <<>>
  /\ closes = 0 /\ aborted = "none" /\ late = {}

(* Where the loop thread is: between events and tasks, or in user code.    *)
Running == aborted = "none"
AtLoop == Running /\ lpc = "loop" /\ ~user
InUser == Running /\ user

isWriting == "OUT" \in events_
isReading == "IN" \in events_

(* The shared_ptrs to the connection: the server's, the threads', those in *)
(* queued tasks (stopRead and startRead capture a raw this) and the one    *)
(* handleEvents() gets from tie_.  Without one the object, its channel     *)
(* included, has been destroyed.                                           *)
Alive ==
  \/ owner \/ refs # {} \/ lpc = "handle" \/ user
  \/ \E i \in DOMAIN queue : queue[i].op \notin {"stopRead", "startRead"}

-----------------------------------------------------------------------------
(* Pieces of handlers, all in the loop thread.                             *)

(* connectEstablished: the connection is handed to the application.        *)
ConnectEstablished ==
  /\ Running /\ state_ = "kConnecting"
  /\ state_' = "kConnected"
  /\ events_' = {"IN", "PRI"}
  /\ pooling' = TRUE
  /\ refs' = Threads
  /\ user' = TRUE
  /\ UNCHANGED <<chanVars, dataVars, peerVars, call, made, queue, wrShut,
                 closes, owner, aborted, late>>

Abort(where) ==
  /\ aborted' = where
  /\ UNCHANGED <<state_, pooling, closes, owner, user, late>>

(* handleClose called with state_ = s: the server's closeCallback drops    *)
(* its shared_ptr, and runs application code.                              *)
Close(s, inEpoll) ==
  /\ state_' = s
  /\ pooling' = inEpoll
  /\ closes' = IF closes = 0 THEN 1 ELSE 2
  /\ owner' = FALSE
  /\ user' = TRUE
  /\ late' = IF lpc = "polled" THEN late \cup {"batch"} ELSE late
  /\ UNCHANGED aborted

(* Mutated forms: state_ is not set; the channel is not removed.           *)
HandleCloseKeepsState(s) ==
  IF s \in {"kConnected", "kDisconnecting"} THEN Close(s, FALSE)
  ELSE Abort("handleClose")
HandleCloseKeepsChannel(s) ==
  IF s \in {"kConnected", "kDisconnecting"} THEN Close("kDisconnected", pooling)
  ELSE Abort("handleClose")

HandleClose(s) ==
  IF s \in {"kConnected", "kDisconnecting"} THEN Close("kDisconnected", FALSE)
  ELSE Abort("handleClose")

(* Mutated form: pending output is not looked at.                          *)
ShutdownInLoopAlways(s) == wrShut' = (wrShut \/ s # "kDisconnected")

(* shutdownInLoop with state_ = s.                                         *)
ShutdownInLoop(s) == wrShut' = (wrShut \/ (s # "kDisconnected" /\ ~isWriting))

(* write() of data: it takes what fits, or fails with EPIPE or ECONNRESET. *)
WriteFails == wrShut \/ reset
Fits(data) == IF Len(data) < SndBuf - sndq THEN Len(data) ELSE SndBuf - sndq

(* The tasks sendInLoop queues when it adds rest to the output buffer.     *)
HighWaterTasks(rest) ==
  LET old == Len(outputBuffer_)
  IN  IF old < HighWaterMark /\ old + Len(rest) >= HighWaterMark
      THEN <<TaskOf("highWaterMark")>> ELSE <<>>

(* Mutated form: EPOLLOUT is not enabled for the rest.                     *)
BufferedWithoutEnableWrite(data, n) ==
  /\ accepted' = accepted \o data
  /\ sent' = sent \o SubSeq(data, 1, n)
  /\ sndq' = sndq + n
  /\ outputBuffer_' = outputBuffer_ \o SubSeq(data, n + 1, Len(data))
  /\ UNCHANGED <<events_, pooling, soError, state_, closes, owner, user, aborted, late>>

(* Mutated form: after a short write all of data is buffered.              *)
BufferedFromStart(data, n) ==
  /\ accepted' = accepted \o data
  /\ sent' = sent \o SubSeq(data, 1, n)
  /\ sndq' = sndq + n
  /\ outputBuffer_' = IF n = Len(data) THEN outputBuffer_ ELSE outputBuffer_ \o data
  /\ events_' = IF n = Len(data) THEN events_ ELSE events_ \cup {"OUT"}
  /\ pooling' = (pooling \/ n < Len(data))
  /\ UNCHANGED <<soError, state_, closes, owner, user, aborted, late>>

(* The rest of sendInLoop once n units of data are written.                *)
Buffered(data, n) ==
  LET rest == SubSeq(data, n + 1, Len(data)) IN
  /\ accepted' = accepted \o data
  /\ sent' = sent \o SubSeq(data, 1, n)
  /\ sndq' = sndq + n
  /\ outputBuffer_' = outputBuffer_ \o rest
  /\ events_' = IF rest = <<>> THEN events_ ELSE events_ \cup {"OUT"}
  /\ pooling' = (pooling \/ rest # <<>>)
  /\ UNCHANGED <<soError, state_, closes, owner, user, aborted, late>>

(* sendInLoop once it writes to the socket itself; q are the tasks already *)
(* in the queue.                                                           *)
WriteDirectly(data, q) ==
  \/ /\ WriteFails
     /\ HandleClose(state_)
     /\ soError' = FALSE
     /\ queue' = q
     /\ UNCHANGED <<outputBuffer_, accepted, sent, sndq, events_>>
  \/ /\ ~WriteFails
     /\ Buffered(data, Fits(data))
     /\ queue' = q \o (IF Fits(data) = Len(data) THEN <<TaskOf("writeComplete")>>
                       ELSE HighWaterTasks(SubSeq(data, Fits(data) + 1, Len(data))))

(* Mutated form: write() is tried although output is already waiting.      *)
SendInLoopAlwaysWrites(data, q) ==
  \/ /\ state_ = "kDisconnected"
     /\ queue' = q
     /\ UNCHANGED <<connVars, dataVars, events_>>
  \/ /\ state_ # "kDisconnected"
     /\ WriteDirectly(data, q)

SendInLoop(data, q) ==
  \/ /\ state_ = "kDisconnected"
     /\ queue' = q
     /\ UNCHANGED <<connVars, dataVars, events_>>
  \/ /\ state_ # "kDisconnected" /\ ~isWriting
     /\ IF outputBuffer_ = <<>>
        THEN WriteDirectly(data, q)
        ELSE Abort("sendInLoop") /\ queue' = q /\ UNCHANGED <<dataVars, events_>>
  \/ /\ state_ # "kDisconnected" /\ isWriting
     /\ Buffered(data, 0)
     /\ queue' = q \o HighWaterTasks(data)

(* Channel::update(): ADD, MOD or DEL in Epoll::updateChannel.             *)
UpdateChannel(e) ==
  /\ events_' = e
  /\ pooling' = (e # {})

EnableRead == UpdateChannel(events_ \cup {"IN", "PRI"})
DisableRead == UpdateChannel(events_ \ {"IN"})
DisableWrite == UpdateChannel(events_ \ {"OUT"})

(* The body of stopRead and startRead, which look at no state_.            *)
StopReadInLoop ==
  IF isReading THEN DisableRead ELSE UNCHANGED <<events_, pooling>>
StartReadInLoop ==
  IF ~isReading THEN EnableRead ELSE UNCHANGED <<events_, pooling>>
SwitchRead(op) ==
  /\ IF op = "stopRead" THEN StopReadInLoop ELSE StartReadInLoop
  /\ late' = IF closes > 0 THEN late \cup {"readControl"} ELSE late

-----------------------------------------------------------------------------
(* Application code in the loop thread.                                    *)

(* A task, timer or other channel's callback of the application begins.    *)
UserBegin ==
  /\ Running /\ ~user /\ state_ # "kConnecting" /\ Alive
  /\ lpc \in {"loop", "polled"}
  /\ user' = TRUE
  /\ UNCHANGED <<state_, pooling, closes, owner, aborted, late, chanVars, dataVars,
                 peerVars, callVars, events_, queue, wrShut>>

UserReturn ==
  /\ InUser
  /\ user' = FALSE
  /\ UNCHANGED <<state_, pooling, closes, owner, aborted, late, chanVars, dataVars,
                 peerVars, callVars, events_, queue, wrShut>>

Data(n) == [i \in 1..n |-> made + i]

(* send() in the loop thread.                                              *)
UserSend ==
  /\ InUser /\ "send" \in Used /\ state_ = "kConnected"
  /\ \E n \in 1..MaxLen :
       /\ made + n <= MaxUnits
       /\ made' = made + n
       /\ SendInLoop(Data(n), queue)
  /\ UNCHANGED <<chanVars, peerVars, call, refs, wrShut>>

(* shutdown() in the loop thread.  Its assert fails if the connection is   *)
(* closed, for example by a send() in the same callback that met EPIPE.    *)
UserShutdown ==
  /\ InUser /\ "shutdown" \in Used
  /\ \/ /\ state_ = "kDisconnected"
        /\ Abort("shutdown")
        /\ UNCHANGED wrShut
     \/ /\ state_ # "kDisconnected"
        /\ state_' = "kDisconnecting"
        /\ IF state_ = "kConnected" THEN ShutdownInLoop("kDisconnecting")
           ELSE UNCHANGED wrShut
        /\ UNCHANGED <<pooling, closes, owner, user, aborted, late>>
  /\ UNCHANGED <<chanVars, dataVars, peerVars, callVars, events_, queue>>

(* forceClose() in the loop thread.                                        *)
UserForceClose ==
  /\ InUser /\ "forceClose" \in Used /\ state_ # "kDisconnected"
  /\ HandleClose("kDisconnecting")
  /\ UNCHANGED <<chanVars, dataVars, peerVars, callVars, events_, queue, wrShut>>

UserReadControl ==
  /\ InUser
  /\ \E op \in Used \cap {"stopRead", "startRead"} : SwitchRead(op)
  /\ UNCHANGED <<state_, closes, owner, user, aborted, chanVars, dataVars,
                 peerVars, callVars, queue, wrShut>>

-----------------------------------------------------------------------------
(* Epoll::poll and Channel::handleEvents.                                  *)

Ready ==
  {e \in events_ : \/ e = "IN" /\ (readable \/ peerFin \/ reset)
                   \/ e = "OUT" /\ (sndq < SndBuf \/ wrShut \/ reset)}
  \cup (IF (wrShut /\ peerFin) \/ reset THEN {"HUP"} ELSE {})
  \cup (IF soError THEN {"ERR"} ELSE {})

Poll ==
  /\ AtLoop
  /\ pooling /\ Alive /\ Ready # {}
  /\ revents_' = Ready
  /\ lpc' = "polled"
  /\ UNCHANGED <<connVars, todo, dataVars, peerVars, callVars, events_, queue, wrShut>>

(* The callbacks handleEventWithGuard makes, in its order.                 *)
Callbacks(r) ==
  (IF "HUP" \in r /\ "IN" \notin r THEN <<"close">> ELSE <<>>)
  \o (IF "ERR" \in r THEN <<"error">> ELSE <<>>)
  \o (IF "IN" \in r THEN <<"read">> ELSE <<>>)
  \o (IF "OUT" \in r THEN <<"write">> ELSE <<>>)

HandleEvents ==
  /\ Running /\ lpc = "polled" /\ ~user /\ Alive
  /\ todo' = Callbacks(revents_)
  /\ lpc' = "handle"
  /\ UNCHANGED <<connVars, revents_, dataVars, peerVars, callVars, events_, queue, wrShut>>

HandleEventsReturn ==
  /\ Running /\ lpc = "handle" /\ ~user /\ todo = <<>>
  /\ revents_' = {}
  /\ lpc' = "loop"
  /\ UNCHANGED <<connVars, todo, dataVars, peerVars, callVars, events_, queue, wrShut>>

(* The next callback is c.                                                 *)
CallBack(c) ==
  /\ Running /\ lpc = "handle" /\ ~user
  /\ todo # <<>> /\ Head(todo) = c
  /\ todo' = Tail(todo)
  /\ UNCHANGED <<revents_, lpc>>

CloseCallback ==
  /\ CallBack("close")
  /\ HandleClose(state_)
  /\ UNCHANGED <<dataVars, peerVars, callVars, events_, queue, wrShut>>

(* handleError; getsockopt(SO_ERROR) clears the error.                     *)
HandleError ==
  /\ HandleClose(state_)
  /\ soError' = FALSE
  /\ UNCHANGED <<outputBuffer_, accepted, sent, sndq>>

ErrorCallback ==
  /\ CallBack("error")
  /\ HandleError
  /\ UNCHANGED <<peerVars, callVars, events_, queue, wrShut>>

(* handleRead: data for the application, end of file, or an error.         *)
ReadCallback ==
  /\ CallBack("read")
  /\ \/ /\ state_ = "kDisconnected"
        /\ UNCHANGED <<connVars, dataVars, readable>>
     \/ /\ state_ # "kDisconnected" /\ readable
        /\ readable' = FALSE
        /\ user' = TRUE
        /\ UNCHANGED <<state_, pooling, closes, owner, aborted, late, dataVars>>
     \/ /\ state_ # "kDisconnected" /\ ~readable /\ ~reset
        /\ HandleClose(state_)
        /\ UNCHANGED <<dataVars, readable>>
     \/ /\ state_ # "kDisconnected" /\ ~readable /\ reset
        /\ HandleError
        /\ UNCHANGED readable
  /\ UNCHANGED <<peerFin, reset, callVars, events_, queue, wrShut>>

(* handleWrite: what is left after n units were written.                   *)
Flushed(n) ==
  LET rest == SubSeq(outputBuffer_, n + 1, Len(outputBuffer_)) IN
  /\ outputBuffer_' = rest
  /\ sent' = sent \o SubSeq(outputBuffer_, 1, n)
  /\ sndq' = sndq + n
  /\ UNCHANGED <<accepted, soError>>

(* Mutated forms: a pending shutdown() is forgotten; EPOLLOUT stays on.    *)
DrainedWithoutShutdown(n) ==
  /\ n = Len(outputBuffer_)
  /\ DisableWrite
  /\ queue' = Append(queue, TaskOf("writeComplete"))
  /\ UNCHANGED <<state_, closes, owner, user, aborted, late, wrShut>>
DrainedKeepsWriting(n) ==
  /\ n = Len(outputBuffer_)
  /\ wrShut' = (wrShut \/ state_ = "kDisconnecting")
  /\ queue' = Append(queue, TaskOf("writeComplete"))
  /\ UNCHANGED <<state_, pooling, events_, closes, owner, user, aborted, late>>

(* When all is written: stop writing, finish a pending shutdown(), queue   *)
(* the write complete callback.                                            *)
Drained(n) ==
  /\ n = Len(outputBuffer_)
  /\ DisableWrite
  /\ wrShut' = (wrShut \/ state_ = "kDisconnecting")
  /\ queue' = Append(queue, TaskOf("writeComplete"))
  /\ UNCHANGED <<state_, closes, owner, user, aborted, late>>

(* handleWrite past its asserts.                                           *)
WriteOutput ==
  \/ /\ WriteFails
     /\ HandleError
     /\ UNCHANGED <<events_, queue, wrShut>>
  \/ /\ ~WriteFails
     /\ LET n == Fits(outputBuffer_) IN
          /\ Flushed(n)
          /\ \/ Drained(n)
             \/ /\ n < Len(outputBuffer_)
                /\ UNCHANGED <<connVars, events_, queue, wrShut>>

WriteCallback ==
  /\ CallBack("write")
  /\ \/ /\ state_ = "kDisconnected"
        /\ UNCHANGED <<connVars, dataVars, events_, queue, wrShut>>
     \/ /\ state_ # "kDisconnected"
        /\ IF outputBuffer_ # <<>> /\ isWriting THEN WriteOutput
           ELSE Abort("handleWrite") /\ UNCHANGED <<dataVars, events_, queue, wrShut>>
  /\ UNCHANGED <<peerVars, callVars>>

-----------------------------------------------------------------------------
(* The loop runs the next queued task.                                     *)
RunTask ==
  /\ AtLoop
  /\ queue # <<>>
  /\ LET task == Head(queue) IN
     \/ /\ task.op = "send"
        /\ SendInLoop(task.data, Tail(queue))
        /\ UNCHANGED wrShut
     \/ /\ task.op = "shutdown"
        /\ ShutdownInLoop(state_)
        /\ queue' = Tail(queue)
        /\ UNCHANGED <<connVars, dataVars, events_>>
     \/ /\ task.op = "forceClose"
        /\ IF state_ # "kDisconnected" THEN HandleClose(state_) ELSE UNCHANGED connVars
        /\ queue' = Tail(queue)
        /\ UNCHANGED <<dataVars, events_, wrShut>>
     \/ /\ task.op \in {"stopRead", "startRead"}
        /\ Alive
        /\ SwitchRead(task.op)
        /\ queue' = Tail(queue)
        /\ UNCHANGED <<state_, closes, owner, user, aborted, dataVars, wrShut>>
     \/ /\ task.op \in {"writeComplete", "highWaterMark"}
        /\ user' = TRUE
        /\ queue' = Tail(queue)
        /\ UNCHANGED <<state_, pooling, closes, owner, aborted, late, dataVars,
                       events_, wrShut>>
  /\ UNCHANGED <<chanVars, peerVars, callVars>>

-----------------------------------------------------------------------------
(* The calls of other threads.                                             *)

Calls(t) ==
  /\ Running /\ t \in refs /\ call[t].step = "none"
  /\ Len(queue) < MaxQueue

ThreadSend(t) ==
  /\ Calls(t) /\ "send" \in Used /\ state_ = "kConnected"
  /\ \E n \in 1..MaxLen :
       /\ made + n <= MaxUnits
       /\ made' = made + n
       /\ call' = [call EXCEPT ![t] =
                     [step |-> "queue", task |-> [op |-> "send", data |-> Data(n)]]]
  /\ UNCHANGED <<connVars, chanVars, dataVars, peerVars, refs, events_, queue, wrShut>>

(* The first load of shutdown() and of forceClose().                       *)
ThreadShutdown(t) ==
  /\ Calls(t) /\ "shutdown" \in Used
  /\ IF state_ = "kDisconnected"
     THEN Abort("shutdown") /\ UNCHANGED call
     ELSE /\ call' = [call EXCEPT ![t] = [step |-> "exchange", task |-> TaskOf("shutdown")]]
          /\ UNCHANGED connVars
  /\ UNCHANGED <<chanVars, dataVars, peerVars, refs, made, events_, queue, wrShut>>

ThreadForceClose(t) ==
  /\ Calls(t) /\ "forceClose" \in Used
  /\ state_ # "kDisconnected"
  /\ call' = [call EXCEPT ![t] = [step |-> "exchange", task |-> TaskOf("forceClose")]]
  /\ UNCHANGED <<connVars, chanVars, dataVars, peerVars, refs, made, events_, queue, wrShut>>

(* stateAtomicGetAndSet(kDisconnecting), whatever the state is by now.     *)
ThreadExchange(t) ==
  /\ Running /\ call[t].step = "exchange"
  /\ LET goesOn == IF call[t].task.op = "shutdown" THEN state_ = "kConnected"
                   ELSE state_ # "kDisconnected"
     IN  call' = [call EXCEPT ![t] = IF goesOn THEN [@ EXCEPT !.step = "queue"] ELSE Idle]
  /\ state_' = "kDisconnecting"
  /\ late' = IF state_ = "kDisconnected" THEN late \cup {"exchange"} ELSE late
  /\ UNCHANGED <<pooling, closes, owner, user, aborted, chanVars, dataVars,
                 peerVars, refs, made, events_, queue, wrShut>>

ThreadReadControl(t) ==
  /\ Calls(t)
  /\ \E op \in Used \cap {"stopRead", "startRead"} :
       call' = [call EXCEPT ![t] = [step |-> "queue", task |-> TaskOf(op)]]
  /\ UNCHANGED <<connVars, chanVars, dataVars, peerVars, refs, made, events_, queue, wrShut>>

(* queueInLoop ends every call that got this far.                          *)
ThreadQueue(t) ==
  /\ Running /\ call[t].step = "queue"
  /\ queue' = Append(queue, call[t].task)
  /\ call' = [call EXCEPT ![t] = Idle]
  /\ UNCHANGED <<connVars, chanVars, dataVars, peerVars, refs, made, events_, wrShut>>

(* The thread lets go of its shared_ptr.                                   *)
ThreadDrop(t) ==
  /\ Running /\ t \in refs /\ call[t].step = "none"
  /\ refs' = refs \ {t}
  /\ UNCHANGED <<connVars, chanVars, dataVars, peerVars, call, made, events_, queue, wrShut>>

-----------------------------------------------------------------------------
(* The peer and the network (external), as long as there is the socket.    *)

PeerSend ==
  /\ Running /\ Alive /\ ~readable /\ ~peerFin /\ ~reset
  /\ readable' = TRUE
  /\ UNCHANGED <<connVars, chanVars, dataVars, peerFin, reset, callVars, events_, queue, wrShut>>

PeerClose ==
  /\ Running /\ Alive /\ ~peerFin /\ ~reset
  /\ peerFin' = TRUE
  /\ UNCHANGED <<connVars, chanVars, dataVars, readable, reset, callVars, events_, queue, wrShut>>

PeerReset ==
  /\ Running /\ Alive /\ ~reset
  /\ reset' = TRUE
  /\ soError' = TRUE
  /\ UNCHANGED <<connVars, chanVars, outputBuffer_, accepted, sent, sndq, readable,
                 peerFin, callVars, events_, queue, wrShut>>

PeerReceives ==
  /\ Running /\ Alive /\ sndq > 0 /\ ~reset
  /\ sndq' = sndq - 1
  /\ UNCHANGED <<connVars, chanVars, outputBuffer_, accepted, sent, soError,
                 peerVars, callVars, events_, queue, wrShut>>

-----------------------------------------------------------------------------
HandlerStep ==
  \/ HandleEvents \/ HandleEventsReturn
  \/ CloseCallback \/ ErrorCallback \/ ReadCallback \/ WriteCallback

UserStep ==
  \/ UserBegin \/ UserReturn \/ UserSend \/ UserShutdown \/ UserForceClose
  \/ UserReadControl

ThreadStep(t) ==
  \/ ThreadSend(t) \/ ThreadShutdown(t) \/ ThreadForceClose(t)
  \/ ThreadExchange(t) \/ ThreadReadControl(t) \/ ThreadQueue(t) \/ ThreadDrop(t)

PeerStep == PeerSend \/ PeerClose \/ PeerReset \/ PeerReceives

Next ==
  \/ ConnectEstablished \/ Poll \/ HandlerStep \/ RunTask \/ UserStep
  \/ \E t \in Threads : ThreadStep(t)
  \/ PeerStep

(* Each turn of loop() polls and runs the queued tasks, so neither is put  *)
(* off for ever, nor is the connection's turn among the active channels;   *)
(* callbacks return; a thread finishes the call it is in; the peer takes   *)
(* what is sent to it until it goes away.                                  *)
Fairness ==
  /\ WF_vars(HandlerStep \/ UserReturn)
  /\ SF_vars(Poll) /\ SF_vars(HandleEvents)
  /\ SF_vars(RunTask)
  /\ \A t \in Threads : WF_vars(ThreadExchange(t) \/ ThreadQueue(t))
  /\ WF_vars(PeerReceives)

Spec == Init /\ [][Next]_vars /\ Fairness

-----------------------------------------------------------------------------
(* Properties.                                                             *)

(* The asserts of handleWrite and sendInLoop never fail, though they look  *)
(* at events that poll() reported earlier; that of handleClose, to which   *)
(* the close, error, read and write callbacks of one handleEvents() all    *)
(* may come, fails only if reading was stopped (EPOLLHUP and EPOLLERR      *)
(* without EPOLLIN) or the connection was closed in between, or used again *)
(* after it was closed.                                                    *)
AssertsHold ==
  /\ aborted \notin {"handleWrite", "sendInLoop"}
  /\ aborted = "handleClose" => "IN" \notin revents_ \/ late # {}

(* The channel waits for EPOLLOUT exactly while there is output to write:  *)
(* without it data would be stuck, with it and no data epoll_wait spins    *)
(* and handleWrite asserts.                                                *)
WritingIffOutput ==
  state_ # "kDisconnected" => (isWriting <=> outputBuffer_ # <<>>)

(* sendInLoop and handleWrite keep the byte stream: what write() took      *)
(* followed by what outputBuffer_ holds is what sendInLoop took on, nothing*)
(* lost, doubled or overtaken between the direct write and the buffer.     *)
ByteStream == accepted = sent \o outputBuffer_

(* The write side of the socket is shut down only when everything that     *)
(* sendInLoop took on has been written.                                    *)
HalfCloseFlushes == wrShut => sent = accepted

(* closeCallback_ is called at most once in the life of a connection,      *)
(* unless another thread's shutdown() or forceClose() loads state_ before  *)
(* and exchanges it after handleClose(): no event, task or use of the      *)
(* connection besides brings it back.                                      *)
ClosedOnce == closes > 1 => "exchange" \in late

(* A connection that was closed is out of the epoll set for good, through  *)
(* the sends still queued and the rest of its events, unless it was        *)
(* brought back in that way or reading is switched after the close.        *)
ClosedChannelUnregistered ==
  closes > 0 /\ pooling => late \cap {"exchange", "readControl"} # {}

(* shutdown() takes effect: with the peer reading, the write side is shut  *)
(* down in the end, however much output was buffered and whoever calls,    *)
(* unless the connection is closed first or an assert fails.               *)
ShutdownCompletes ==
  state_ = "kDisconnecting" ~> (wrShut \/ closes > 0 \/ ~Running)

(* Whatever sendInLoop took on is written in the end, unless the           *)
(* connection is closed first or an assert fails.                          *)
OutputDrains == outputBuffer_ # <<>> ~> (outputBuffer_ = <<>> \/ closes > 0 \/ ~Running)
=============================================================================
