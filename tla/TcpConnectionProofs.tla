------------------------ MODULE TcpConnectionProofs ------------------------
(***************************************************************************)
(* Proofs about TcpConnection, for every set of threads, size of the send  *)
(* buffer, high water mark and amount of data.                             *)
(***************************************************************************)
EXTENDS TcpConnection, SequenceTheorems, TLAPS

Task == [op : Op, data : Seq(Nat)]

Types ==
  /\ state_ \in State
  /\ outputBuffer_ \in Seq(Nat) /\ accepted \in Seq(Nat) /\ sent \in Seq(Nat)
  /\ queue \in Seq(Task)
  /\ call \in [Threads -> [step : Step, task : Task]]
  /\ sndq \in 0..SndBuf
  /\ made \in Nat

(* Before connectEstablished nobody has the connection.                    *)
Unconnected ==
  state_ = "kConnecting" =>
    /\ outputBuffer_ = <<>> /\ queue = <<>> /\ ~user /\ ~pooling /\ lpc = "loop"
    /\ refs = {} /\ \A t \in Threads : call[t].step = "none"

(* The output side: the byte stream is kept, EPOLLOUT is on exactly while  *)
(* there is output, in every state, and none once the socket is shut down. *)
OutputInv ==
  /\ ByteStream
  /\ isWriting <=> outputBuffer_ # <<>>
  /\ wrShut => outputBuffer_ = <<>>

IInv == Types /\ Unconnected /\ OutputInv

-----------------------------------------------------------------------------
(* What a step can do to the output.                                       *)

(* Nothing; the write side is shut down only while not writing.            *)
Leaves ==
  /\ UNCHANGED <<outputBuffer_, accepted, sent>>
  /\ isWriting' <=> isWriting
  /\ wrShut' => wrShut \/ ~isWriting

(* sendInLoop takes on data and has written n units of it, which it does   *)
(* only with an empty output buffer.                                       *)
TakesOn(data, n) ==
  /\ n = 0 \/ outputBuffer_ = <<>>
  /\ accepted' = accepted \o data
  /\ sent' = sent \o SubSeq(data, 1, n)
  /\ outputBuffer_' = outputBuffer_ \o SubSeq(data, n + 1, Len(data))
  /\ events_' = IF SubSeq(data, n + 1, Len(data)) = <<>> THEN events_ ELSE events_ \cup {"OUT"}
  /\ ~wrShut'

(* handleWrite writes n units of the output buffer.                        *)
Writes(n) ==
  /\ outputBuffer_' = SubSeq(outputBuffer_, n + 1, Len(outputBuffer_))
  /\ sent' = sent \o SubSeq(outputBuffer_, 1, n)
  /\ accepted' = accepted
  /\ \/ n = Len(outputBuffer_) /\ events_' = events_ \ {"OUT"}
     \/ n < Len(outputBuffer_) /\ outputBuffer_ # <<>> /\ events_' = events_ /\ ~wrShut'

OutputStep ==
  \/ Leaves
  \/ \E data \in Seq(Nat) : \E n \in 0..Len(data) : TakesOn(data, n)
  \/ \E n \in 0..Len(outputBuffer_) : Writes(n)

-----------------------------------------------------------------------------
(* Sequences.                                                              *)

(* A sequence cut in two is its two parts, and the second is empty exactly *)
(* if the cut is at the end.                                               *)
LEMMA CutInTwo ==
  ASSUME NEW S, NEW s \in Seq(S), NEW n \in 0..Len(s)
  PROVE  /\ SubSeq(s, 1, n) \in Seq(S) /\ SubSeq(s, n + 1, Len(s)) \in Seq(S)
         /\ SubSeq(s, 1, n) \o SubSeq(s, n + 1, Len(s)) = s
         /\ SubSeq(s, n + 1, Len(s)) = <<>> <=> n = Len(s)
         /\ n = 0 => SubSeq(s, 1, n) = <<>>
<1> DEFINE s1 == SubSeq(s, 1, n)
           s2 == SubSeq(s, n + 1, Len(s))
<1>1. Len(s) \in Nat /\ n \in Nat /\ n <= Len(s) /\ \A i \in 1..Len(s) : s[i] \in S
  BY ElementOfSeq
<1>2. (\A i \in 1..n : s[i] \in S) /\ (\A i \in n + 1..Len(s) : s[i] \in S)
  BY <1>1
<1>3. /\ s1 \in Seq(S) /\ Len(s1) = n
      /\ \A i \in 1..n : s1[i] = s[i]
  BY <1>1, <1>2, SubSeqProperties
<1>4. /\ s2 \in Seq(S) /\ Len(s2) = Len(s) - n
      /\ \A i \in 1..Len(s) - n : s2[i] = s[n + i]
  <2>1. /\ s2 \in Seq(S)
        /\ Len(s2) = IF n + 1 <= Len(s) THEN Len(s) - (n + 1) + 1 ELSE 0
        /\ \A i \in 1..Len(s) - (n + 1) + 1 : s2[i] = s[n + 1 + i - 1]
    BY <1>1, <1>2, SubSeqProperties
  <2> HIDE DEF s2
  <2> QED
    BY <1>1, <2>1
<1> HIDE DEF s1, s2
<1>5. /\ s1 \o s2 \in Seq(S) /\ Len(s1 \o s2) = Len(s1) + Len(s2)
      /\ \A i \in 1..Len(s1) + Len(s2) :
           (s1 \o s2)[i] = IF i <= Len(s1) THEN s1[i] ELSE s2[i - Len(s1)]
  BY <1>3, <1>4, ConcatProperties
<1>6. Len(s1) + Len(s2) = Len(s)
  BY <1>1, <1>3, <1>4
<1>7. ASSUME NEW i \in 1..Len(s) PROVE (s1 \o s2)[i] = s[i]
  <2>1. CASE i <= n
    <3>1. i \in 1..n
      BY <1>1, <2>1
    <3> QED
      BY <1>3, <1>5, <1>6, <2>1, <3>1
  <2>2. CASE ~(i <= n)
    <3>1. i - n \in 1..Len(s) - n /\ n + (i - n) = i
      BY <1>1, <2>2
    <3> QED
      BY <1>3, <1>4, <1>5, <1>6, <2>2, <3>1
  <2> QED
    BY <2>1, <2>2
<1>8. s1 \o s2 = s
  BY <1>5, <1>6, <1>7, SeqEqual
<1>9. s2 = <<>> <=> n = Len(s)
  <2>1. s2 = <<>> <=> Len(s2) = 0
    BY <1>4, EmptySeq
  <2> QED
    BY <1>1, <1>4, <2>1
<1>10. n = 0 => s1 = <<>>
  BY <1>3, EmptySeq
<1> QED
  BY <1>3, <1>4, <1>8, <1>9, <1>10 DEF s1, s2

(* Concatenation is associative.                                           *)
LEMMA Assoc ==
  \A s, t, u \in Seq(Nat) : (s \o t) \o u = s \o (t \o u)
<1> SUFFICES ASSUME NEW s \in Seq(Nat), NEW t \in Seq(Nat), NEW u \in Seq(Nat)
             PROVE  (s \o t) \o u = s \o (t \o u)
  OBVIOUS
<1> QED
  BY ConcatAssociative, SMTT(30)

(* Every such step keeps the output invariant.                             *)
LEMMA OutputStepInv ==
  ASSUME Types, OutputInv, OutputStep
  PROVE  /\ OutputInv'
         /\ outputBuffer_' \in Seq(Nat) /\ accepted' \in Seq(Nat) /\ sent' \in Seq(Nat)
<1>1. /\ outputBuffer_ \in Seq(Nat) /\ accepted \in Seq(Nat) /\ sent \in Seq(Nat)
      /\ accepted = sent \o outputBuffer_
      /\ isWriting <=> outputBuffer_ # <<>>
      /\ wrShut => outputBuffer_ = <<>>
  BY DEF Types, OutputInv, ByteStream
<1>2. CASE Leaves
  BY <1>1, <1>2 DEF Leaves, OutputInv, ByteStream
<1>3. ASSUME NEW data \in Seq(Nat), NEW n \in 0..Len(data), TakesOn(data, n)
      PROVE  /\ OutputInv'
             /\ outputBuffer_' \in Seq(Nat) /\ accepted' \in Seq(Nat) /\ sent' \in Seq(Nat)
  <2> DEFINE s1 == SubSeq(data, 1, n)
             s2 == SubSeq(data, n + 1, Len(data))
  <2>1. /\ s1 \in Seq(Nat) /\ s2 \in Seq(Nat) /\ s1 \o s2 = data
        /\ n = 0 => s1 = <<>>
    BY CutInTwo
  <2>2. /\ n = 0 \/ outputBuffer_ = <<>>
        /\ accepted' = (sent \o outputBuffer_) \o data
        /\ sent' = sent \o s1 /\ outputBuffer_' = outputBuffer_ \o s2
        /\ events_' = IF s2 = <<>> THEN events_ ELSE events_ \cup {"OUT"}
        /\ ~wrShut'
    BY <1>1, <1>3 DEF TakesOn
  <2> HIDE DEF s1, s2
  <2>3. /\ outputBuffer_' \in Seq(Nat) /\ accepted' \in Seq(Nat) /\ sent' \in Seq(Nat)
    BY <1>1, <2>1, <2>2
  <2>4. (sent \o outputBuffer_) \o (s1 \o s2) = (sent \o s1) \o (outputBuffer_ \o s2)
    <3>1. sent \in Seq(Nat) /\ s1 \in Seq(Nat) /\ s2 \in Seq(Nat) /\ outputBuffer_ \in Seq(Nat)
      BY <1>1, <2>1
    <3>2. sent \o <<>> = sent /\ <<>> \o s2 = s2
      BY ONLY <3>1, ConcatEmptySeq
    <3>3. sent \o (s1 \o s2) = (sent \o s1) \o s2
      BY ONLY <3>1, Assoc, ZenonT(60)
    <3>4. (sent \o outputBuffer_) \o s2 = sent \o (outputBuffer_ \o s2)
      BY ONLY <3>1, Assoc, ZenonT(60)
    <3> QED
      BY <2>1, <2>2, <3>2, <3>3, <3>4, Zenon
  <2>5. isWriting' <=> outputBuffer_' # <<>>
    <3>1. outputBuffer_' = <<>> <=> (outputBuffer_ = <<>> /\ s2 = <<>>)
      BY <1>1, <2>1, <2>2
    <3>2. isWriting' <=> (isWriting \/ s2 # <<>>)
      BY <2>2 DEF isWriting
    <3> QED
      BY <1>1, <3>1, <3>2
  <2> QED
    BY <2>1, <2>2, <2>3, <2>4, <2>5 DEF OutputInv, ByteStream
<1>4. ASSUME NEW n \in 0..Len(outputBuffer_), Writes(n)
      PROVE  /\ OutputInv'
             /\ outputBuffer_' \in Seq(Nat) /\ accepted' \in Seq(Nat) /\ sent' \in Seq(Nat)
  <2> DEFINE s1 == SubSeq(outputBuffer_, 1, n)
             s2 == SubSeq(outputBuffer_, n + 1, Len(outputBuffer_))
  <2>1. /\ s1 \in Seq(Nat) /\ s2 \in Seq(Nat) /\ s1 \o s2 = outputBuffer_
        /\ s2 = <<>> <=> n = Len(outputBuffer_)
    BY <1>1, CutInTwo
  <2>2. Len(outputBuffer_) \in Nat
    BY <1>1
  <2>3. /\ outputBuffer_' = s2 /\ sent' = sent \o s1 /\ accepted' = sent \o (s1 \o s2)
        /\ \/ n = Len(outputBuffer_) /\ events_' = events_ \ {"OUT"}
           \/ n < Len(outputBuffer_) /\ outputBuffer_ # <<>> /\ events_' = events_ /\ ~wrShut'
    BY <1>1, <1>4, <2>1 DEF Writes
  <2> HIDE DEF s1, s2
  <2>4. /\ outputBuffer_' \in Seq(Nat) /\ accepted' \in Seq(Nat) /\ sent' \in Seq(Nat)
    BY <1>1, <2>1, <2>3
  <2>5. sent \o (s1 \o s2) = (sent \o s1) \o s2
    <3>1. sent \in Seq(Nat) /\ s1 \in Seq(Nat) /\ s2 \in Seq(Nat)
      BY <1>1, <2>1
    <3> QED
      BY ONLY <3>1, Assoc, ZenonT(60)
  <2>6. CASE n = Len(outputBuffer_) /\ events_' = events_ \ {"OUT"}
    BY <2>1, <2>3, <2>4, <2>5, <2>6 DEF OutputInv, ByteStream, isWriting
  <2>7. CASE n < Len(outputBuffer_) /\ outputBuffer_ # <<>> /\ events_' = events_ /\ ~wrShut'
    <3>1. n # Len(outputBuffer_)
      BY <2>2, <2>7
    <3>2. outputBuffer_' # <<>>
      BY <2>1, <2>3, <3>1
    <3> QED
      BY <1>1, <2>3, <2>4, <2>5, <2>7, <3>2 DEF OutputInv, ByteStream, isWriting
  <2> QED
    BY <2>3, <2>6, <2>7
<1> QED
  BY <1>2, <1>3, <1>4 DEF OutputStep

-----------------------------------------------------------------------------
(* The steps of the specification, by what they share.                     *)

(* The steps that have nothing to do with output.                          *)
Others ==
  \/ ConnectEstablished \/ Poll \/ HandleEvents \/ HandleEventsReturn
  \/ CloseCallback \/ ErrorCallback \/ ReadCallback
  \/ UserBegin \/ UserReturn \/ UserShutdown \/ UserForceClose \/ UserReadControl
  \/ (\E t \in Threads : ThreadStep(t))
  \/ PeerStep

(* The steps other than output, by the variables of the output.            *)
LEMMA OthersLeave ==
  ASSUME IInv, Others
  PROVE  Leaves
<1>1. CASE ConnectEstablished
  <2>1. ~isWriting
    BY <1>1 DEF IInv, Unconnected, OutputInv, ConnectEstablished
  <2>2. UNCHANGED <<outputBuffer_, accepted, sent, wrShut>> /\ ~isWriting'
    BY <1>1 DEF ConnectEstablished, dataVars, isWriting
  <2> QED
    BY <2>1, <2>2 DEF Leaves
<1>2. CASE Poll
  BY <1>2 DEF Poll, Leaves, dataVars, isWriting
<1>3. CASE HandleEvents
  BY <1>3 DEF HandleEvents, Leaves, dataVars, isWriting
<1>4. CASE HandleEventsReturn
  BY <1>4 DEF HandleEventsReturn, Leaves, dataVars, isWriting
<1>5. CASE CloseCallback
  BY <1>5 DEF CloseCallback, Leaves, dataVars, isWriting
<1>6. CASE ErrorCallback
  BY <1>6 DEF ErrorCallback, HandleError, Leaves, dataVars, isWriting
<1>7. CASE ReadCallback
  BY <1>7 DEF ReadCallback, HandleError, Leaves, dataVars, isWriting
<1>8. CASE UserBegin
  BY <1>8 DEF UserBegin, Leaves, dataVars, isWriting
<1>9. CASE UserReturn
  BY <1>9 DEF UserReturn, Leaves, dataVars, isWriting
<1>10. CASE UserShutdown
  BY <1>10 DEF UserShutdown, Abort, ShutdownInLoop, Leaves, dataVars, isWriting
<1>11. CASE UserForceClose
  BY <1>11 DEF UserForceClose, Leaves, dataVars, isWriting
<1>12. CASE UserReadControl
  BY <1>12 DEF UserReadControl, SwitchRead, StopReadInLoop, StartReadInLoop, EnableRead, DisableRead,
     UpdateChannel, Leaves, dataVars, isWriting
<1>13. ASSUME NEW t \in Threads, ThreadStep(t) PROVE Leaves
  BY <1>13 DEF ThreadStep, ThreadSend, ThreadShutdown, ThreadForceClose, ThreadExchange,
     ThreadReadControl, ThreadQueue, ThreadDrop, Leaves, dataVars, isWriting
<1>14. CASE PeerStep
  BY <1>14 DEF PeerStep, PeerSend, PeerClose, PeerReset, PeerReceives, Leaves, dataVars, isWriting
<1> QED
  BY <1>1, <1>2, <1>3, <1>4, <1>5, <1>6, <1>7, <1>8, <1>9, <1>10, <1>11, <1>12, <1>13, <1>14
  DEF Others

(* write() takes no more than there is, nor than fits.                     *)
LEMMA FitsProperties ==
  ASSUME Types, NEW data \in Seq(Nat)
  PROVE  Fits(data) \in 0..Len(data) /\ sndq + Fits(data) \in 0..SndBuf
<1>1. SndBuf \in Nat /\ sndq \in 0..SndBuf /\ Len(data) \in Nat
  BY BoundsAssumption DEF Types
<1> QED
  BY <1>1 DEF Fits

(* The tasks made without data.                                            *)
LEMMA TaskOfProperties ==
  /\ \A op \in Op : TaskOf(op) \in Task /\ TaskOf(op).op = op
  /\ Idle \in [step : Step, task : Task] /\ Idle.step = "none"
<1>1. <<>> \in Seq(Nat)
  BY EmptySeq
<1>2. \A op \in Op : TaskOf(op) \in Task /\ TaskOf(op).op = op
  BY <1>1 DEF TaskOf, Task
<1>3. "send" \in Op /\ "none" \in Step
  BY DEF Op, Step
<1> QED
  BY <1>2, <1>3 DEF Idle

(* sendInLoop leaves the output alone or takes on data; the tasks it       *)
(* queues come last.                                                       *)
LEMMA SendInLoopStep ==
  ASSUME IInv, NEW data \in Seq(Nat), NEW q \in Seq(Task), SendInLoop(data, q), wrShut' = wrShut
  PROVE  /\ OutputStep
         /\ queue' \in Seq(Task) /\ sndq' \in 0..SndBuf
         /\ state_' \in {state_, "kDisconnected"}
<1>1. /\ Types /\ sndq \in 0..SndBuf
      /\ isWriting <=> outputBuffer_ # <<>>
      /\ wrShut => outputBuffer_ = <<>>
  BY DEF IInv, Types, OutputInv
<1>2. /\ Fits(data) \in 0..Len(data) /\ sndq + Fits(data) \in 0..SndBuf
      /\ 0 \in 0..Len(data) /\ sndq + 0 = sndq
  BY <1>1, FitsProperties DEF Types
<1>3. \A r : HighWaterTasks(r) \in Seq(Task)
  BY TaskOfProperties DEF HighWaterTasks, Op
<1>4. <<TaskOf("writeComplete")>> \in Seq(Task)
  BY TaskOfProperties DEF Op
<1>5. ASSUME NEW r \in Seq(Task) PROVE q \o r \in Seq(Task)
  OBVIOUS
<1>6. ASSUME NEW s, HandleClose(s) PROVE state_' \in {state_, "kDisconnected"}
  BY <1>6 DEF HandleClose, Close, Abort
<1>7. ASSUME NEW n \in 0..Len(data), Buffered(data, n), n = 0 \/ outputBuffer_ = <<>>, ~wrShut
      PROVE  OutputStep /\ state_' = state_ /\ sndq' = sndq + n
  <2>1. TakesOn(data, n)
    BY <1>7 DEF Buffered, TakesOn
  <2> QED
    BY <1>7, <2>1 DEF Buffered, OutputStep
<1>8. CASE state_ = "kDisconnected" /\ queue' = q /\ UNCHANGED <<connVars, dataVars, events_>>
  BY <1>1, <1>8 DEF OutputStep, Leaves, dataVars, connVars, isWriting
<1>9. CASE WriteFails /\ HandleClose(state_) /\ queue' = q
           /\ UNCHANGED <<outputBuffer_, accepted, sent, sndq, events_>>
  BY <1>1, <1>6, <1>9 DEF OutputStep, Leaves, isWriting
<1>10. CASE Abort("sendInLoop") /\ queue' = q /\ UNCHANGED <<dataVars, events_>>
  BY <1>1, <1>10 DEF Abort, OutputStep, Leaves, dataVars, isWriting
<1>11. CASE /\ outputBuffer_ = <<>> /\ ~WriteFails /\ Buffered(data, Fits(data))
            /\ queue' = q \o (IF Fits(data) = Len(data) THEN <<TaskOf("writeComplete")>>
                              ELSE HighWaterTasks(SubSeq(data, Fits(data) + 1, Len(data))))
  <2>1. OutputStep /\ state_' = state_ /\ sndq' = sndq + Fits(data)
    BY <1>2, <1>7, <1>11 DEF WriteFails
  <2>2. queue' \in Seq(Task)
    BY <1>3, <1>4, <1>5, <1>11
  <2> QED
    BY <1>2, <2>1, <2>2
<1>12. CASE isWriting /\ Buffered(data, 0) /\ queue' = q \o HighWaterTasks(data)
  <2>1. OutputStep /\ state_' = state_ /\ sndq' = sndq + 0
    BY <1>1, <1>2, <1>7, <1>12
  <2>2. queue' \in Seq(Task)
    BY <1>3, <1>5, <1>12
  <2> QED
    BY <1>1, <1>2, <2>1, <2>2
<1> QED
  BY <1>8, <1>9, <1>10, <1>11, <1>12 DEF SendInLoop, WriteDirectly

(* handleWrite leaves the output alone or writes some of it.               *)
LEMMA WriteCallbackStep ==
  ASSUME IInv, WriteCallback
  PROVE  /\ OutputStep
         /\ queue' \in Seq(Task) /\ sndq' \in 0..SndBuf
         /\ state_' \in {state_, "kDisconnected"}
<1>1. /\ Types /\ sndq \in 0..SndBuf /\ queue \in Seq(Task) /\ outputBuffer_ \in Seq(Nat)
      /\ isWriting <=> outputBuffer_ # <<>>
      /\ wrShut => outputBuffer_ = <<>>
  BY DEF IInv, Types, OutputInv
<1>2. ASSUME NEW s, HandleClose(s) PROVE state_' \in {state_, "kDisconnected"}
  BY <1>2 DEF HandleClose, Close, Abort
<1>3. CASE UNCHANGED <<connVars, dataVars, events_, queue, wrShut>>
  BY <1>1, <1>3 DEF OutputStep, Leaves, dataVars, connVars, isWriting
<1>4. CASE Abort("handleWrite") /\ UNCHANGED <<dataVars, events_, queue, wrShut>>
  BY <1>1, <1>4 DEF Abort, OutputStep, Leaves, dataVars, isWriting
<1>5. CASE WriteFails /\ HandleError /\ UNCHANGED <<events_, queue, wrShut>>
  BY <1>1, <1>2, <1>5 DEF HandleError, OutputStep, Leaves, isWriting
<1>6. ASSUME outputBuffer_ # <<>>, ~WriteFails, NEW n, n = Fits(outputBuffer_), Flushed(n),
             \/ Drained(n)
             \/ n < Len(outputBuffer_) /\ UNCHANGED <<connVars, events_, queue, wrShut>>
      PROVE  /\ OutputStep
             /\ queue' \in Seq(Task) /\ sndq' \in 0..SndBuf
             /\ state_' \in {state_, "kDisconnected"}
  <2>1. n \in 0..Len(outputBuffer_) /\ sndq + n \in 0..SndBuf
    BY <1>1, <1>6, FitsProperties
  <2>2. Writes(n)
    BY <1>6 DEF Flushed, Drained, DisableWrite, UpdateChannel, Writes, WriteFails
  <2>3. queue' \in Seq(Task)
    <3>1. TaskOf("writeComplete") \in Task
      BY TaskOfProperties DEF Op
    <3> QED
      BY <1>1, <1>6, <3>1 DEF Drained
  <2>4. state_' = state_
    BY <1>6 DEF Drained, connVars
  <2>5. sndq' = sndq + n
    BY <1>6 DEF Flushed
  <2> QED
    BY <2>1, <2>2, <2>3, <2>4, <2>5 DEF OutputStep
<1> QED
  BY <1>3, <1>4, <1>5, <1>6 DEF WriteCallback, WriteOutput

(* A queued task leaves the output alone or takes on data.                 *)
LEMMA RunTaskStep ==
  ASSUME IInv, RunTask
  PROVE  /\ OutputStep
         /\ queue' \in Seq(Task) /\ sndq' \in 0..SndBuf
         /\ state_' \in {state_, "kDisconnected"}
<1>1. sndq \in 0..SndBuf /\ queue \in Seq(Task) /\ queue # <<>>
  BY DEF IInv, Types, RunTask
<1>2. Head(queue) \in Task /\ Tail(queue) \in Seq(Task)
  BY <1>1
<1> DEFINE task == Head(queue)
           rest == Tail(queue)
<1>3. ASSUME NEW s, HandleClose(s) PROVE state_' \in {state_, "kDisconnected"}
  BY <1>3 DEF HandleClose, Close, Abort
<1>4. CASE SendInLoop(task.data, rest) /\ UNCHANGED wrShut
  <2>1. task.data \in Seq(Nat)
    BY <1>2 DEF Task
  <2> HIDE DEF task, rest
  <2> QED
    BY <1>2, <1>4, <2>1, SendInLoopStep DEF rest
<1>5. CASE ShutdownInLoop(state_) /\ queue' = rest /\ UNCHANGED <<connVars, dataVars, events_>>
  BY <1>1, <1>2, <1>5
  DEF ShutdownInLoop, OutputStep, Leaves, dataVars, connVars, isWriting
<1>6. CASE /\ IF state_ # "kDisconnected" THEN HandleClose(state_) ELSE UNCHANGED connVars
           /\ queue' = rest /\ UNCHANGED <<dataVars, events_, wrShut>>
  BY <1>1, <1>2, <1>3, <1>6 DEF OutputStep, Leaves, dataVars, connVars, isWriting
<1>7. CASE /\ SwitchRead(task.op)
           /\ queue' = rest /\ UNCHANGED <<state_, dataVars, wrShut>>
  BY <1>1, <1>2, <1>7 DEF SwitchRead, StopReadInLoop, StartReadInLoop, EnableRead, DisableRead,
     UpdateChannel, OutputStep, Leaves, dataVars, isWriting
<1>8. CASE queue' = rest /\ UNCHANGED <<state_, dataVars, events_, wrShut>>
  BY <1>1, <1>2, <1>8 DEF OutputStep, Leaves, dataVars, isWriting
<1> QED
  BY <1>4, <1>5, <1>6, <1>7, <1>8 DEF RunTask

(* send() in the loop thread takes on data, or leaves it to nobody.        *)
LEMMA UserSendStep ==
  ASSUME IInv, UserSend
  PROVE  /\ OutputStep
         /\ queue' \in Seq(Task) /\ sndq' \in 0..SndBuf /\ made' \in Nat
         /\ state_' \in {state_, "kDisconnected"}
<1>1. made \in Nat /\ queue \in Seq(Task)
  BY DEF IInv, Types
<1>2. PICK n \in 1..MaxLen : made' = made + n /\ SendInLoop(Data(n), queue)
  BY DEF UserSend
<1>3. n \in Nat
  BY BoundsAssumption
<1>4. Data(n) \in Seq(Nat)
  BY <1>1, <1>3 DEF Data
<1>5. wrShut' = wrShut
  BY DEF UserSend
<1>6. made' \in Nat
  BY <1>1, <1>2, <1>3
<1> QED
  BY <1>1, <1>2, <1>4, <1>5, <1>6, SendInLoopStep

-----------------------------------------------------------------------------
(* Types and the time before the connection is established.                *)

(* The calls of other threads and the queue they fill.                     *)
LEMMA ThreadTypes ==
  ASSUME IInv, NEW t \in Threads, ThreadStep(t)
  PROVE  /\ state_' \in State /\ queue' \in Seq(Task)
         /\ call' \in [Threads -> [step : Step, task : Task]]
         /\ sndq' \in 0..SndBuf /\ made' \in Nat
<1> DEFINE Call == [step : Step, task : Task]
<1>1. /\ state_ \in State /\ queue \in Seq(Task) /\ call \in [Threads -> Call]
      /\ sndq \in 0..SndBuf /\ made \in Nat
  BY DEF IInv, Types
<1>2. /\ \A op \in Op : TaskOf(op) \in Task
      /\ Idle \in Call
  BY TaskOfProperties
<1>3. ASSUME NEW c \in Call PROVE [call EXCEPT ![t] = c] \in [Threads -> Call]
  BY <1>1
<1>4. CASE ThreadSend(t)
  <2>1. PICK n \in 1..MaxLen :
          /\ made' = made + n
          /\ call' = [call EXCEPT ![t] =
                        [step |-> "queue", task |-> [op |-> "send", data |-> Data(n)]]]
    BY <1>4 DEF ThreadSend
  <2>2. n \in Nat
    BY BoundsAssumption
  <2>3. Data(n) \in Seq(Nat)
    BY <1>1, <2>2 DEF Data
  <2>4. [step |-> "queue", task |-> [op |-> "send", data |-> Data(n)]] \in Call
    BY <2>3 DEF Step, Task, Op
  <2>5. call' \in [Threads -> Call]
    BY <1>3, <2>1, <2>4
  <2>6. made' \in Nat
    BY <1>1, <2>1, <2>2
  <2> QED
    BY <1>1, <1>4, <2>5, <2>6 DEF ThreadSend, connVars, dataVars
<1>5. CASE ThreadShutdown(t)
  <2>1. [step |-> "exchange", task |-> TaskOf("shutdown")] \in Call
    BY <1>2 DEF Step, Op
  <2>2. call' \in [Threads -> Call]
    BY <1>1, <1>3, <1>5, <2>1 DEF ThreadShutdown
  <2> QED
    BY <1>1, <1>5, <2>2 DEF ThreadShutdown, Abort, connVars, dataVars
<1>6. CASE ThreadForceClose(t)
  <2>1. [step |-> "exchange", task |-> TaskOf("forceClose")] \in Call
    BY <1>2 DEF Step, Op
  <2>2. call' \in [Threads -> Call]
    BY <1>3, <1>6, <2>1 DEF ThreadForceClose
  <2> QED
    BY <1>1, <1>6, <2>2 DEF ThreadForceClose, connVars, dataVars
<1>7. CASE ThreadExchange(t)
  <2>1. call[t] \in Call
    BY <1>1
  <2>2. [call[t] EXCEPT !.step = "queue"] \in Call
    BY <2>1 DEF Step
  <2>3. \/ call' = [call EXCEPT ![t] = [call[t] EXCEPT !.step = "queue"]]
        \/ call' = [call EXCEPT ![t] = Idle]
    BY <1>1, <1>7 DEF ThreadExchange
  <2>4. call' \in [Threads -> Call]
    BY <1>2, <1>3, <2>2, <2>3
  <2> QED
    BY <1>1, <1>7, <2>4 DEF ThreadExchange, State, dataVars
<1>8. CASE ThreadReadControl(t)
  <2>1. PICK op \in {"stopRead", "startRead"} :
          call' = [call EXCEPT ![t] = [step |-> "queue", task |-> TaskOf(op)]]
    BY <1>8 DEF ThreadReadControl
  <2>2. [step |-> "queue", task |-> TaskOf(op)] \in Call
    BY <1>2 DEF Step, Op
  <2>3. call' \in [Threads -> Call]
    BY <1>3, <2>1, <2>2
  <2> QED
    BY <1>1, <1>8, <2>3 DEF ThreadReadControl, connVars, dataVars
<1>9. CASE ThreadQueue(t)
  <2>1. call[t].task \in Task
    BY <1>1
  <2>2. queue' \in Seq(Task) /\ call' \in [Threads -> Call]
    BY <1>1, <1>2, <1>3, <1>9, <2>1 DEF ThreadQueue
  <2> QED
    BY <1>1, <1>9, <2>2 DEF ThreadQueue, connVars, dataVars
<1>10. CASE ThreadDrop(t)
  BY <1>1, <1>10 DEF ThreadDrop, connVars, dataVars
<1> QED
  BY <1>4, <1>5, <1>6, <1>7, <1>8, <1>9, <1>10 DEF ThreadStep

(* The steps that have nothing to do with output, by their types.          *)
LEMMA OthersTypes ==
  ASSUME IInv, Others
  PROVE  /\ state_' \in State /\ queue' \in Seq(Task)
         /\ call' \in [Threads -> [step : Step, task : Task]]
         /\ sndq' \in 0..SndBuf /\ made' \in Nat
<1> DEFINE Call == [step : Step, task : Task]
<1>1. /\ state_ \in State /\ queue \in Seq(Task) /\ call \in [Threads -> Call]
      /\ sndq \in 0..SndBuf /\ made \in Nat
  BY DEF IInv, Types
<1> HIDE DEF Call
<1>2. \A s : HandleClose(s) => state_' \in State
  BY <1>1 DEF HandleClose, Close, Abort, State
<1>3. CASE \E t \in Threads : ThreadStep(t)
  BY <1>3, ThreadTypes
<1>4. CASE PeerStep
  <2>1. UNCHANGED <<state_, queue, call, made>>
    BY <1>4 DEF PeerStep, PeerSend, PeerClose, PeerReset, PeerReceives, connVars, callVars
  <2>2. sndq' \in 0..SndBuf
    <3>1. sndq' = sndq \/ (sndq > 0 /\ sndq' = sndq - 1)
      BY <1>4 DEF PeerStep, PeerSend, PeerClose, PeerReset, PeerReceives, dataVars
    <3> QED
      BY <1>1, <3>1, BoundsAssumption
  <2> QED
    BY <1>1, <2>1, <2>2 DEF Call
<1>5. CASE ConnectEstablished \/ Poll \/ HandleEvents \/ HandleEventsReturn
  <2>1. state_' \in State
    BY <1>1, <1>5 DEF ConnectEstablished, Poll, HandleEvents, HandleEventsReturn, connVars, State
  <2>2. UNCHANGED <<queue, call, sndq, made>>
    BY <1>5 DEF ConnectEstablished, Poll, HandleEvents, HandleEventsReturn, callVars, dataVars
  <2> QED
    BY <1>1, <2>1, <2>2 DEF Call
<1>6. CASE CloseCallback \/ ErrorCallback \/ ReadCallback
  <2>1. state_' \in State
    BY <1>1, <1>2, <1>6 DEF CloseCallback, ErrorCallback, ReadCallback, HandleError, connVars
  <2>2. UNCHANGED <<queue, call, sndq, made>>
    BY <1>6 DEF CloseCallback, ErrorCallback, ReadCallback, HandleError, callVars, dataVars
  <2> QED
    BY <1>1, <2>1, <2>2 DEF Call
<1>7. CASE UserBegin \/ UserReturn \/ UserShutdown \/ UserForceClose \/ UserReadControl
  <2>1. state_' \in State
    <3>1. "kDisconnecting" \in State
      BY DEF State
    <3> QED
      BY <1>1, <1>2, <1>7, <3>1
      DEF UserBegin, UserReturn, UserShutdown, Abort, UserForceClose, UserReadControl
  <2>2. UNCHANGED <<queue, call, sndq, made>>
    BY <1>7 DEF UserBegin, UserReturn, UserShutdown, UserForceClose, UserReadControl,
       callVars, dataVars
  <2> QED
    BY <1>1, <2>1, <2>2 DEF Call
<1> QED
  BY <1>3, <1>4, <1>5, <1>6, <1>7 DEF Others

(* Every step keeps the types and the output invariant.                    *)
LEMMA TypesAndOutput ==
  ASSUME IInv, Next
  PROVE  Types' /\ OutputInv'
<1>1. Types /\ OutputInv
  BY DEF IInv
<1>2. /\ state_ \in State /\ call \in [Threads -> [step : Step, task : Task]] /\ made \in Nat
      /\ "kDisconnected" \in State
  BY <1>1 DEF Types, State
<1>3. /\ OutputStep
      /\ state_' \in State /\ queue' \in Seq(Task)
      /\ call' \in [Threads -> [step : Step, task : Task]]
      /\ sndq' \in 0..SndBuf /\ made' \in Nat
  <2>1. CASE Others
    BY <2>1, OthersLeave, OthersTypes DEF OutputStep
  <2>2. CASE WriteCallback
    BY <1>2, <2>2, WriteCallbackStep DEF WriteCallback, callVars
  <2>3. CASE RunTask
    BY <1>2, <2>3, RunTaskStep DEF RunTask, callVars
  <2>4. CASE UserSend
    BY <1>2, <2>4, UserSendStep DEF UserSend
  <2> QED
    BY <2>1, <2>2, <2>3, <2>4 DEF Next, HandlerStep, UserStep, Others
<1> QED
  BY <1>1, <1>3, OutputStepInv DEF Types

(* A connection that was established is never connecting again.            *)
LEMMA NeverConnectingAgain ==
  ASSUME IInv, Next, state_ # "kConnecting"
  PROVE  state_' # "kConnecting"
<1>1. \A s : HandleClose(s) => state_' # "kConnecting"
  BY DEF HandleClose, Close, Abort
<1>2. CASE ConnectEstablished \/ Poll
  BY <1>2 DEF ConnectEstablished, Poll, connVars
<1>3. CASE HandleEvents \/ HandleEventsReturn \/ CloseCallback \/ ErrorCallback \/ ReadCallback
  BY <1>1, <1>3 DEF HandleEvents, HandleEventsReturn, CloseCallback, ErrorCallback,
     ReadCallback, HandleError, connVars
<1>4. CASE UserBegin \/ UserReturn \/ UserShutdown \/ UserForceClose \/ UserReadControl
  BY <1>1, <1>4
  DEF UserBegin, UserReturn, UserShutdown, Abort, UserForceClose, UserReadControl
<1>5. ASSUME NEW t \in Threads, ThreadStep(t) PROVE state_' # "kConnecting"
  BY <1>5 DEF ThreadStep, ThreadSend, ThreadShutdown, ThreadForceClose, ThreadExchange,
     ThreadReadControl, ThreadQueue, ThreadDrop, Abort, connVars
<1>6. CASE PeerStep
  BY <1>6 DEF PeerStep, PeerSend, PeerClose, PeerReset, PeerReceives, connVars
<1>7. CASE WriteCallback
  BY <1>7, WriteCallbackStep
<1>8. CASE RunTask
  BY <1>8, RunTaskStep
<1>9. CASE UserSend
  BY <1>9, UserSendStep
<1> QED
  BY <1>2, <1>3, <1>4, <1>5, <1>6, <1>7, <1>8, <1>9 DEF Next, HandlerStep, UserStep

(* Until a connection is established only the peer does something.         *)
LEMMA UnconnectedStep ==
  ASSUME IInv, Next
  PROVE  Unconnected'
<1>1. CASE state_ = "kConnecting"
  <2>1. /\ outputBuffer_ = <<>> /\ queue = <<>> /\ ~user /\ ~pooling /\ lpc = "loop"
        /\ refs = {} /\ \A t \in Threads : call[t].step = "none"
    BY <1>1 DEF IInv, Unconnected
  <2>2. ~Poll /\ ~RunTask
    BY <2>1 DEF Poll, RunTask
  <2>3. ~HandlerStep
    BY <2>1 DEF HandlerStep, HandleEvents, HandleEventsReturn, CloseCallback, ErrorCallback,
       ReadCallback, WriteCallback, CallBack
  <2>4. ~UserStep
    BY <1>1, <2>1 DEF UserStep, UserBegin, UserReturn, UserSend, UserShutdown, UserForceClose,
       UserReadControl, InUser
  <2>5. \A t \in Threads : ~ThreadStep(t)
    BY <2>1 DEF ThreadStep, ThreadSend, ThreadShutdown, ThreadForceClose, ThreadExchange,
       ThreadReadControl, ThreadQueue, ThreadDrop, Calls
  <2>6. CASE ConnectEstablished
    BY <2>6 DEF ConnectEstablished, Unconnected
  <2>7. CASE PeerStep
    <3>1. UNCHANGED <<outputBuffer_, queue, user, pooling, lpc, refs, call>>
      BY <2>7 DEF PeerStep, PeerSend, PeerClose, PeerReset, PeerReceives, dataVars, connVars,
         chanVars, callVars
    <3> QED
      BY <2>1, <3>1 DEF Unconnected
  <2> QED
    BY <2>2, <2>3, <2>4, <2>5, <2>6, <2>7 DEF Next
<1>2. CASE state_ # "kConnecting"
  BY <1>2, NeverConnectingAgain DEF Unconnected
<1> QED
  BY <1>1, <1>2

-----------------------------------------------------------------------------
(* The output, however the connection is used.                             *)

(* A new connection has no output.                                         *)
LEMMA InitInv == Init => IInv
<1> SUFFICES ASSUME Init PROVE IInv
  OBVIOUS
<1>1. <<>> \in Seq(Nat) /\ <<>> \in Seq(Task) /\ <<>> \o <<>> = <<>>
  BY EmptySeq, ConcatEmptySeq
<1>2. 0 \in 0..SndBuf
  BY BoundsAssumption
<1>3. Types
  BY <1>1, <1>2, TaskOfProperties DEF Init, Types, State
<1>4. Unconnected
  BY TaskOfProperties DEF Init, Unconnected
<1>5. OutputInv
  BY <1>1 DEF Init, OutputInv, ByteStream, isWriting
<1> QED
  BY <1>3, <1>4, <1>5 DEF IInv

(* Every step keeps the invariant.                                         *)
LEMMA StepInv == IInv /\ [Next]_vars => IInv'
<1> SUFFICES ASSUME IInv, [Next]_vars PROVE IInv'
  OBVIOUS
<1>1. CASE Next
  BY <1>1, TypesAndOutput, UnconnectedStep DEF IInv
<1>2. CASE UNCHANGED vars
  BY <1>2 DEF vars, connVars, chanVars, dataVars, callVars, IInv, Types, Unconnected, OutputInv,
     ByteStream, isWriting
<1> QED
  BY <1>1, <1>2

(* The byte stream survives every interleaving of direct writes, buffered  *)
(* output and calls of other threads.                                      *)
THEOREM StreamKept == Spec => []ByteStream
<1>1. IInv => ByteStream
  BY DEF IInv, OutputInv
<1> QED
  BY <1>1, InitInv, StepInv, PTL DEF Spec

(* EPOLLOUT is on exactly while there is output, even if other threads     *)
(* bring a closed connection back to kDisconnecting.                       *)
THEOREM WritingMatchesOutput == Spec => []WritingIffOutput
<1>1. IInv => WritingIffOutput
  BY DEF IInv, OutputInv, WritingIffOutput
<1> QED
  BY <1>1, InitInv, StepInv, PTL DEF Spec

(* A half close never cuts off output.                                     *)
THEOREM HalfCloseAfterOutput == Spec => []HalfCloseFlushes
<1>1. IInv => HalfCloseFlushes
  BY ConcatEmptySeq DEF IInv, Types, OutputInv, ByteStream, HalfCloseFlushes
<1> QED
  BY <1>1, InitInv, StepInv, PTL DEF Spec

-----------------------------------------------------------------------------
(* The close, and the events that poll() reported before it.               *)

Open == state_ \in {"kConnected", "kDisconnecting"}

(* Until an exchange comes late, closed is closed.                         *)
CloseInv ==
  /\ closes \in 0..2
  /\ closes = 0 => late = {} /\ state_ # "kDisconnected"
  /\ state_ = "kConnecting" => closes = 0
  /\ closes > 0 /\ "exchange" \notin late => state_ = "kDisconnected"
  /\ ClosedOnce /\ ClosedChannelUnregistered

(* What poll() reported is still true when it is acted on: output that was *)
(* writable is there until handleWrite, which comes last; a hang-up with   *)
(* EPOLLIN is left to handleRead; and an error with EPOLLIN is handled     *)
(* first, before anything could close the connection.                      *)
EventsInv ==
  /\ lpc = "polled" =>
       /\ late = {} => closes = 0
       /\ "OUT" \in revents_ => isWriting
  /\ lpc = "handle" =>
       /\ todo \in Seq({"close", "error", "read", "write"})
       /\ \A i \in 1..Len(todo) :
            /\ todo[i] = "write" => i = Len(todo) /\ isWriting
            /\ todo[i] = "close" => "IN" \notin revents_
            /\ todo[i] = "error" /\ "IN" \in revents_ /\ late = {} =>
                 i = 1 /\ ~user /\ closes = 0

CInv == IInv /\ CloseInv /\ EventsInv /\ AssertsHold

-----------------------------------------------------------------------------
(* What a step can do to the life of the connection.                       *)

(* It leaves a closed connection closed, unless it is a late exchange, and *)
(* out of the epoll set, unless it is a late switch of reading.            *)
Stays ==
  /\ state_' = "kDisconnected" => state_ = "kDisconnected"
  /\ state_ = "kDisconnected" => state_' = "kDisconnected" \/ "exchange" \in late'
  /\ state_' = "kConnecting" => state_ = "kConnecting"
  /\ closes' = closes
  /\ late \subseteq late' /\ (late' = late \/ closes > 0)
  /\ closes > 0 /\ pooling' => pooling \/ state_ # "kDisconnected" \/ "readControl" \in late'

(* Or it closes an open one.                                               *)
Closes ==
  /\ Open /\ state_' = "kDisconnected" /\ ~pooling'
  /\ closes' = IF closes = 0 THEN 1 ELSE 2
  /\ late \subseteq late' /\ (lpc = "polled" => late' # {})

(* Both keep what is known of the close.                                   *)
LEMMA LifeKeepsCloseInv ==
  ASSUME CloseInv, Stays \/ Closes
  PROVE  CloseInv'
<1> USE DEF CloseInv, ClosedOnce, ClosedChannelUnregistered
<1>1. CASE Stays
  <2>1. /\ closes' = closes /\ late \subseteq late' /\ (late' = late \/ closes > 0)
        /\ closes \in 0..2
    BY <1>1 DEF Stays
  <2>2. closes' = 0 => late' = {} /\ state_' # "kDisconnected"
    BY <1>1, <2>1 DEF Stays
  <2>3. state_' = "kConnecting" => closes' = 0
    BY <1>1, <2>1 DEF Stays
  <2>4. closes' > 0 /\ "exchange" \notin late' => state_' = "kDisconnected"
    BY <1>1, <2>1 DEF Stays
  <2>5. ClosedOnce'
    BY <2>1
  <2>6. ClosedChannelUnregistered'
    BY <1>1, <2>1 DEF Stays
  <2> QED
    BY <2>1, <2>2, <2>3, <2>4, <2>5, <2>6
<1>2. CASE Closes
  <2>1. closes' \in {1, 2} /\ state_' = "kDisconnected" /\ ~pooling'
    BY <1>2 DEF Closes
  <2>2. ClosedOnce'
    <3>1. closes = 0 => closes' = 1
      BY <1>2 DEF Closes
    <3>2. closes > 0 => "exchange" \in late'
      BY <1>2 DEF Closes, Open
    <3> QED
      BY <3>1, <3>2
  <2> QED
    BY <2>1, <2>2
<1> QED
  BY <1>1, <1>2

(* handleClose of an open connection, and of one that is not.              *)
LEMMA HandleCloseLife ==
  ASSUME NEW s, HandleClose(s)
  PROVE  /\ Open /\ s \in {"kConnected", "kDisconnecting"} =>
              Closes /\ aborted' = aborted
         /\ s \notin {"kConnected", "kDisconnecting"} =>
              Stays /\ aborted' = "handleClose" /\ user' = user
<1>1. CASE s \in {"kConnected", "kDisconnecting"}
  BY <1>1 DEF HandleClose, Close, Closes
<1>2. CASE s \notin {"kConnected", "kDisconnecting"}
  BY <1>2 DEF HandleClose, Abort, Stays
<1> QED
  BY <1>1, <1>2

(* The life goes on where a step leaves it alone.                          *)
LEMMA LifeUnchanged ==
  ASSUME UNCHANGED <<state_, pooling, closes, late>>
  PROVE  Stays
BY DEF Stays

(* A change of the channel's events that is no switch of reading of a      *)
(* closed connection.                                                      *)
LEMMA SwitchReadLife ==
  ASSUME NEW op, SwitchRead(op), UNCHANGED <<state_, closes>>
  PROVE  Stays /\ (isWriting => isWriting')
<1>1. Stays
  BY DEF SwitchRead, Stays
<1>2. isWriting => isWriting'
  BY DEF SwitchRead, StopReadInLoop, StartReadInLoop, EnableRead, DisableRead, UpdateChannel,
     isWriting
<1> QED
  BY <1>1, <1>2

(* sendInLoop in an established connection: its assert holds, and it does  *)
(* not stop a write that is under way.                                     *)
LEMMA SendLife ==
  ASSUME IInv, state_ # "kConnecting", NEW data, NEW q, SendInLoop(data, q)
  PROVE  (Stays \/ Closes) /\ (isWriting => isWriting') /\ aborted' = aborted
<1>1. state_ \in State /\ (isWriting <=> outputBuffer_ # <<>>)
  BY DEF IInv, Types, OutputInv
<1>2. CASE UNCHANGED <<connVars, dataVars, events_>>
  BY <1>2, LifeUnchanged DEF connVars, isWriting
<1>3. ASSUME state_ # "kDisconnected", HandleClose(state_), UNCHANGED events_
      PROVE  Closes /\ (isWriting => isWriting') /\ aborted' = aborted
  BY <1>1, <1>3, HandleCloseLife DEF State, Open, isWriting
<1>4. ASSUME state_ # "kDisconnected", NEW n, Buffered(data, n)
      PROVE  Stays /\ (isWriting => isWriting') /\ aborted' = aborted
  BY <1>4 DEF Buffered, Stays, isWriting
<1> QED
  BY <1>1, <1>2, <1>3, <1>4 DEF SendInLoop, WriteDirectly

(* A callback in an established connection.                                *)
LEMMA CallbackLife ==
  ASSUME IInv, state_ # "kConnecting", CloseCallback \/ ErrorCallback \/ ReadCallback
  PROVE  (Stays \/ Closes) /\ (isWriting' <=> isWriting)
<1>1. state_ \in State
  BY DEF IInv, Types
<1>2. isWriting' <=> isWriting
  BY DEF CloseCallback, ErrorCallback, ReadCallback, isWriting
<1>3. \/ HandleClose(state_)
      \/ UNCHANGED <<state_, pooling, closes, late>>
  BY DEF CloseCallback, ErrorCallback, ReadCallback, HandleError, connVars
<1> QED
  BY <1>1, <1>2, <1>3, HandleCloseLife, LifeUnchanged DEF State, Open

(* handleWrite of an open connection past its asserts.                     *)
LEMMA WriteOutputLife ==
  ASSUME IInv, Open, WriteOutput
  PROVE  (Stays \/ Closes) /\ aborted' = aborted
<1>1. CASE HandleClose(state_)
  BY <1>1, HandleCloseLife DEF Open
<1>2. ASSUME NEW n, Drained(n) PROVE Stays /\ aborted' = aborted
  BY <1>2 DEF Drained, Stays, Open
<1>3. CASE UNCHANGED connVars
  BY <1>3, LifeUnchanged DEF connVars
<1> QED
  BY <1>1, <1>2, <1>3 DEF WriteOutput, HandleError

(* A queued task.                                                          *)
LEMMA RunTaskLife ==
  ASSUME IInv, state_ # "kConnecting", RunTask
  PROVE  (Stays \/ Closes) /\ (isWriting => isWriting') /\ aborted' = aborted
<1>1. state_ \in State
  BY DEF IInv, Types
<1>2. CASE SendInLoop(Head(queue).data, Tail(queue))
  BY <1>2, SendLife
<1>3. CASE UNCHANGED <<state_, pooling, closes, late, aborted, events_>>
  BY <1>3, LifeUnchanged DEF isWriting
<1>4. CASE /\ IF state_ # "kDisconnected" THEN HandleClose(state_) ELSE UNCHANGED connVars
           /\ UNCHANGED events_
  BY <1>1, <1>4, HandleCloseLife, LifeUnchanged DEF State, Open, connVars, isWriting
<1>5. CASE SwitchRead(Head(queue).op) /\ UNCHANGED <<state_, closes, aborted>>
  BY <1>5, SwitchReadLife
<1> QED
  BY <1>2, <1>3, <1>4, <1>5 DEF RunTask, connVars

(* Application code in the loop thread.                                    *)
LEMMA UserLife ==
  ASSUME IInv, UserStep
  PROVE  /\ Stays \/ Closes
         /\ isWriting => isWriting'
         /\ aborted' \in {aborted, "shutdown"}
<1>1. state_ \in State /\ state_ # "kConnecting"
  BY DEF IInv, Types, Unconnected, UserStep, UserBegin, UserReturn, UserSend, UserShutdown,
     UserForceClose, UserReadControl, InUser
<1>2. CASE UserBegin \/ UserReturn
  BY <1>2, LifeUnchanged DEF UserBegin, UserReturn, isWriting
<1>3. CASE UserSend
  BY <1>1, <1>3, SendLife DEF UserSend
<1>4. CASE UserShutdown
  BY <1>1, <1>4 DEF UserShutdown, Abort, Stays, isWriting
<1>5. CASE UserForceClose
  BY <1>1, <1>5, HandleCloseLife DEF UserForceClose, State, Open, isWriting
<1>6. CASE UserReadControl
  BY <1>6, SwitchReadLife DEF UserReadControl
<1> QED
  BY <1>2, <1>3, <1>4, <1>5, <1>6 DEF UserStep

(* Other threads and the peer.                                             *)
LEMMA ThreadLife ==
  ASSUME CloseInv, (\E t \in Threads : ThreadStep(t)) \/ PeerStep
  PROVE  /\ Stays /\ closes' = closes /\ user' = user
         /\ UNCHANGED <<chanVars, events_>>
         /\ aborted' \in {aborted, "shutdown"}
<1>1. CASE PeerStep
  BY <1>1, LifeUnchanged DEF PeerStep, PeerSend, PeerClose, PeerReset, PeerReceives, connVars
<1>2. ASSUME NEW t \in Threads, ThreadStep(t)
      PROVE  /\ Stays /\ closes' = closes /\ user' = user
             /\ UNCHANGED <<chanVars, events_>>
             /\ aborted' \in {aborted, "shutdown"}
  <2>1. CASE ThreadSend(t) \/ ThreadForceClose(t) \/ ThreadReadControl(t) \/ ThreadQueue(t)
             \/ ThreadDrop(t)
    BY <2>1, LifeUnchanged DEF ThreadSend, ThreadForceClose, ThreadReadControl, ThreadQueue,
       ThreadDrop, connVars
  <2>2. CASE ThreadShutdown(t)
    BY <2>2, LifeUnchanged DEF ThreadShutdown, Abort, connVars
  <2>3. CASE ThreadExchange(t)
    <3>1. /\ state_' = "kDisconnecting" /\ UNCHANGED <<pooling, closes, user, aborted>>
          /\ late' = IF state_ = "kDisconnected" THEN late \cup {"exchange"} ELSE late
          /\ UNCHANGED <<chanVars, events_>>
      BY <2>3 DEF ThreadExchange
    <3>2. state_ = "kDisconnected" => closes > 0
      BY DEF CloseInv
    <3> QED
      BY <3>1, <3>2 DEF Stays
  <2> QED
    BY <1>2, <2>1, <2>2, <2>3 DEF ThreadStep
<1> QED
  BY <1>1, <1>2

-----------------------------------------------------------------------------
(* The events that poll() reported.                                        *)

(* What the steps of others between poll() and the callbacks leave alone.  *)
Undisturbed ==
  /\ UNCHANGED chanVars
  /\ isWriting => isWriting'
  /\ late \subseteq late'
  /\ lpc = "polled" => closes' = closes \/ late' # {}
  /\ lpc = "handle" => user \/ (closes' = closes /\ ~user')

(* Such steps keep what is known of the events.                            *)
LEMMA UndisturbedEvents ==
  ASSUME EventsInv, Undisturbed
  PROVE  EventsInv'
<1>1. lpc' = lpc /\ revents_' = revents_ /\ todo' = todo
  BY DEF Undisturbed, chanVars
<1>2. late' = {} => late = {}
  BY DEF Undisturbed
<1>3. CASE lpc = "polled"
  BY <1>1, <1>2, <1>3 DEF EventsInv, Undisturbed
<1>4. CASE lpc = "handle"
  BY <1>1, <1>2, <1>4 DEF EventsInv, Undisturbed
<1>5. CASE lpc \notin {"polled", "handle"}
  BY <1>1, <1>5, Zenon DEF EventsInv
<1> QED
  BY <1>3, <1>4, <1>5

(* Nor does a callback disturb the ones that follow it.                    *)
LEMMA CallBackEvents ==
  ASSUME EventsInv, NEW c, CallBack(c), late \subseteq late',
         c # "write" => (isWriting => isWriting')
  PROVE  EventsInv'
<1> DEFINE S == {"close", "error", "read", "write"}
<1>1. /\ lpc = "handle" /\ lpc' = "handle" /\ revents_' = revents_
      /\ todo # <<>> /\ c = Head(todo) /\ todo' = Tail(todo)
  BY DEF CallBack
<1>2. /\ todo \in Seq(S)
      /\ \A i \in 1..Len(todo) :
           /\ todo[i] = "write" => i = Len(todo) /\ isWriting
           /\ todo[i] = "close" => "IN" \notin revents_
           /\ todo[i] = "error" /\ "IN" \in revents_ /\ late = {} => i = 1
  BY <1>1 DEF EventsInv
<1>3. /\ Tail(todo) \in Seq(S) /\ Len(Tail(todo)) = Len(todo) - 1
      /\ \A i \in 1..Len(todo) - 1 : Tail(todo)[i] = todo[i + 1]
      /\ Len(todo) \in Nat /\ Head(todo) = todo[1] /\ Len(todo) >= 1
  <2> HIDE DEF S
  <2> QED
    BY <1>1, <1>2
<1> HIDE DEF S
<1>4. ASSUME NEW i \in 1..Len(Tail(todo))
      PROVE  /\ Tail(todo)[i] = "write" => i = Len(Tail(todo)) /\ isWriting'
             /\ Tail(todo)[i] = "close" => "IN" \notin revents_
             /\ ~(Tail(todo)[i] = "error" /\ "IN" \in revents_ /\ late' = {})
  <2>1. i + 1 \in 1..Len(todo) /\ i + 1 # 1 /\ i \in 1..Len(todo) - 1
    BY <1>3
  <2>2. Tail(todo)[i] = todo[i + 1]
    BY <1>3, <2>1
  <2>3. Tail(todo)[i] = "close" => "IN" \notin revents_
    BY <1>2, <2>1, <2>2
  <2>4. ~(Tail(todo)[i] = "error" /\ "IN" \in revents_ /\ late' = {})
    BY <1>2, <2>1, <2>2
  <2>5. ASSUME Tail(todo)[i] = "write"
        PROVE  i = Len(Tail(todo)) /\ isWriting'
    <3>1. i + 1 = Len(todo) /\ isWriting
      BY <1>2, <2>1, <2>2, <2>5
    <3>2. 1 \in 1..Len(todo) /\ 1 # Len(todo)
      <4>1. Len(todo) \in Nat /\ Len(todo) >= 1
        BY <1>3
      <4> QED
        BY <2>1, <3>1, <4>1
    <3>3. c # "write"
      BY <1>1, <1>2, <1>3, <3>2
    <3>4. i = Len(Tail(todo))
      <4>1. Len(Tail(todo)) = Len(todo) - 1 /\ i \in Int
        BY <1>3
      <4> QED
        BY <3>1, <4>1
    <3> QED
      BY <3>1, <3>3, <3>4
  <2> QED
    BY <2>3, <2>4, <2>5
<1> QED
  BY <1>1, <1>3, <1>4 DEF EventsInv, S

(* t is s, or s with c behind it.                                          *)
Longer(S, s, c, w, t) ==
  /\ t \in Seq(S)
  /\ \A i \in 1..Len(t) :
       \/ i \in 1..Len(s) /\ t[i] = s[i]
       \/ i = Len(t) /\ i = Len(s) + 1 /\ t[i] = c /\ w = <<c>>

(* An optional last element.                                               *)
LEMMA OptionalLast ==
  ASSUME NEW S, NEW s \in Seq(S), NEW c \in S, NEW w, w = <<>> \/ w = <<c>>
  PROVE  Longer(S, s, c, w, s \o w)
<1> USE DEF Longer
<1>1. CASE w = <<>>
  <2>1. s \o w = s
    BY <1>1, ConcatEmptySeq
  <2> QED
    BY <2>1
<1>2. CASE w = <<c>>
  <2>1. w \in Seq(S) /\ Len(w) = 1 /\ w[1] = c
    BY <1>2
  <2>2. /\ s \o w \in Seq(S) /\ Len(s \o w) = Len(s) + 1 /\ Len(s) \in Nat
        /\ \A i \in 1..Len(s) + 1 : (s \o w)[i] = IF i <= Len(s) THEN s[i] ELSE w[i - Len(s)]
    BY <2>1, ConcatProperties
  <2>3. ASSUME NEW i \in 1..Len(s) + 1
        PROVE  \/ i \in 1..Len(s) /\ (s \o w)[i] = s[i]
               \/ i = Len(s) + 1 /\ (s \o w)[i] = c
    <3>1. CASE i <= Len(s)
      BY <2>2, <3>1
    <3>2. CASE ~(i <= Len(s))
      <4>1. i = Len(s) + 1 /\ i - Len(s) = 1
        BY <2>2, <3>2
      <4> QED
        BY <2>1, <2>2, <3>2, <4>1
    <3> QED
      BY <3>1, <3>2
  <2> QED
    BY <1>2, <2>2, <2>3
<1> QED
  BY <1>1, <1>2

(* The callbacks that handleEventWithGuard makes.                          *)
LEMMA CallbacksProperties ==
  ASSUME NEW r
  PROVE  /\ Callbacks(r) \in Seq({"close", "error", "read", "write"})
         /\ \A i \in 1..Len(Callbacks(r)) :
              /\ Callbacks(r)[i] = "write" => i = Len(Callbacks(r)) /\ "OUT" \in r
              /\ Callbacks(r)[i] = "close" => "IN" \notin r
              /\ Callbacks(r)[i] = "error" /\ "IN" \in r => i = 1
<1> DEFINE S == {"close", "error", "read", "write"}
           hup == IF "HUP" \in r /\ "IN" \notin r THEN <<"close">> ELSE <<>>
           error == IF "ERR" \in r THEN <<"error">> ELSE <<>>
           read == IF "IN" \in r THEN <<"read">> ELSE <<>>
           write == IF "OUT" \in r THEN <<"write">> ELSE <<>>
           two == hup \o error
           three == two \o read
           all == three \o write
<1>1. "close" \in S /\ "error" \in S /\ "read" \in S /\ "write" \in S
  OBVIOUS
<1>2. Callbacks(r) = all
  BY DEF Callbacks
<1>3. /\ hup \in Seq(S) /\ \A i \in 1..Len(hup) : hup[i] = "close" /\ "IN" \notin r
      /\ "IN" \in r => Len(hup) = 0
  <2> HIDE DEF S
  <2>1. CASE "HUP" \in r /\ "IN" \notin r
    BY <1>1, <2>1
  <2>2. CASE ~("HUP" \in r /\ "IN" \notin r)
    BY <2>2, EmptySeq
  <2> QED
    BY <2>1, <2>2
<1>4. /\ error = <<>> \/ error = <<"error">>
      /\ read = <<>> \/ read = <<"read">>
      /\ write = <<>> \/ write = <<"write">>
      /\ write = <<"write">> => "OUT" \in r
  BY EmptySeq
<1> HIDE DEF S, hup, error, read, write
<1>5. /\ two \in Seq(S)
      /\ \A i \in 1..Len(two) :
           \/ i \in 1..Len(hup) /\ two[i] = hup[i]
           \/ i = Len(hup) + 1 /\ two[i] = "error"
  <2>1. Longer(S, hup, "error", error, two)
    BY <1>1, <1>3, <1>4, OptionalLast, Zenon
  <2> QED
    BY <1>4, <2>1, Zenon DEF Longer
<1>6. \A i \in 1..Len(two) :
        /\ two[i] \in {"close", "error"}
        /\ two[i] = "close" => "IN" \notin r
        /\ two[i] = "error" /\ "IN" \in r => i = 1
  BY <1>3, <1>5
<1> HIDE DEF two
<1>7. /\ three \in Seq(S)
      /\ \A i \in 1..Len(three) :
           \/ i \in 1..Len(two) /\ three[i] = two[i]
           \/ three[i] = "read"
  <2>1. Longer(S, two, "read", read, three)
    BY <1>1, <1>4, <1>5, OptionalLast, Zenon
  <2> QED
    BY <1>4, <2>1, Zenon DEF Longer
<1> HIDE DEF three
<1>8. /\ all \in Seq(S)
      /\ \A i \in 1..Len(all) :
           \/ i \in 1..Len(three) /\ all[i] = three[i]
           \/ i = Len(all) /\ all[i] = "write" /\ "OUT" \in r
  <2>1. Longer(S, three, "write", write, all)
    BY <1>1, <1>4, <1>7, OptionalLast, Zenon
  <2> QED
    BY <1>4, <2>1, Zenon DEF Longer
<1> HIDE DEF all
<1>9. \A i \in 1..Len(all) :
        /\ all[i] = "write" => i = Len(all) /\ "OUT" \in r
        /\ all[i] = "close" => "IN" \notin r
        /\ all[i] = "error" /\ "IN" \in r => i = 1
  BY <1>6, <1>7, <1>8
<1> QED
  BY <1>2, <1>8, <1>9 DEF S

-----------------------------------------------------------------------------
(* The invariant of the close and of the events, step by step.             *)

(* Nothing happens after a failed assert.                                  *)
LEMMA NextRuns ==
  ASSUME Next
  PROVE  aborted = "none"
BY DEF Next, ConnectEstablished, Poll, AtLoop, HandlerStep, HandleEvents, HandleEventsReturn,
   CloseCallback, ErrorCallback, ReadCallback, WriteCallback, CallBack, RunTask, UserStep,
   UserBegin, UserReturn, UserSend, UserShutdown, UserForceClose, UserReadControl, InUser,
   ThreadStep, ThreadSend, ThreadShutdown, ThreadForceClose, ThreadExchange, ThreadReadControl,
   ThreadQueue, ThreadDrop, Calls, PeerStep, PeerSend, PeerClose, PeerReset, PeerReceives, Running

(* The callback at hand, as handleEvents() finds it.                       *)
LEMMA CallBackNow ==
  ASSUME EventsInv, IInv, NEW c, CallBack(c)
  PROVE  /\ lpc = "handle" /\ state_ # "kConnecting" /\ UNCHANGED <<revents_, lpc>>
         /\ c = "write" => isWriting
         /\ c = "close" => "IN" \notin revents_
         /\ c = "error" /\ "IN" \in revents_ /\ late = {} => closes = 0
<1>1. lpc = "handle" /\ todo # <<>> /\ c = Head(todo) /\ UNCHANGED <<revents_, lpc>>
  BY DEF CallBack
<1>2. state_ # "kConnecting"
  BY <1>1 DEF IInv, Unconnected
<1>3. /\ todo \in Seq({"close", "error", "read", "write"})
      /\ \A i \in 1..Len(todo) :
           /\ todo[i] = "write" => isWriting
           /\ todo[i] = "close" => "IN" \notin revents_
           /\ todo[i] = "error" /\ "IN" \in revents_ /\ late = {} => closes = 0
  BY <1>1 DEF EventsInv
<1>4. 1 \in 1..Len(todo) /\ c = todo[1]
  BY <1>1, <1>3
<1> QED
  BY <1>1, <1>2, <1>3, <1>4

(* The steps of the loop thread between and in callbacks.                  *)
LEMMA HandlerInv ==
  ASSUME CInv, Next, Poll \/ HandlerStep
  PROVE  (Stays \/ Closes) /\ EventsInv' /\ AssertsHold'
<1>1. IInv /\ CloseInv /\ EventsInv /\ aborted = "none" /\ state_ \in State
  BY NextRuns DEF CInv, IInv, Types
<1>2. aborted' = "none" => AssertsHold'
  BY DEF AssertsHold
<1>3. CASE Poll
  <2>1. /\ UNCHANGED <<connVars, events_>> /\ pooling
        /\ lpc' = "polled" /\ revents_' = Ready
    BY <1>3 DEF Poll
  <2>2. late = {} => closes = 0
    BY <1>1, <2>1 DEF CloseInv, ClosedChannelUnregistered
  <2>3. "OUT" \in Ready => isWriting
    BY DEF Ready, isWriting
  <2>4. EventsInv'
    BY <2>1, <2>2, <2>3 DEF EventsInv, connVars, isWriting
  <2> QED
    BY <1>1, <1>2, <2>1, <2>4, LifeUnchanged DEF connVars
<1>4. CASE HandleEvents
  <2>1. /\ UNCHANGED <<connVars, events_, revents_>> /\ ~user
        /\ lpc = "polled" /\ lpc' = "handle" /\ todo' = Callbacks(revents_)
    BY <1>4 DEF HandleEvents
  <2>2. /\ late = {} => closes = 0
        /\ "OUT" \in revents_ => isWriting
    BY <1>1, <2>1 DEF EventsInv
  <2>3. /\ todo' \in Seq({"close", "error", "read", "write"})
        /\ \A i \in 1..Len(todo') :
             /\ todo'[i] = "write" => i = Len(todo') /\ "OUT" \in revents_
             /\ todo'[i] = "close" => "IN" \notin revents_
             /\ todo'[i] = "error" /\ "IN" \in revents_ => i = 1
    BY <2>1, CallbacksProperties
  <2>4. ~user' /\ late' = late /\ closes' = closes /\ (isWriting' <=> isWriting)
    BY <2>1 DEF connVars, isWriting
  <2>5. EventsInv'
    BY <2>1, <2>2, <2>3, <2>4 DEF EventsInv
  <2> QED
    BY <1>1, <1>2, <2>1, <2>5, LifeUnchanged DEF connVars
<1>5. CASE HandleEventsReturn
  <2>1. UNCHANGED connVars /\ lpc' = "loop"
    BY <1>5 DEF HandleEventsReturn
  <2> QED
    BY <1>1, <1>2, <2>1, LifeUnchanged DEF EventsInv, connVars
<1>6. late \subseteq late' \/ ~(Stays \/ Closes)
  BY DEF Stays, Closes
<1>7. CASE CloseCallback
  <2>1. CallBack("close") /\ HandleClose(state_)
    BY <1>7 DEF CloseCallback
  <2>2. "IN" \notin revents_ /\ revents_' = revents_ /\ state_ # "kConnecting"
    BY <1>1, <2>1, CallBackNow
  <2>3. (Stays \/ Closes) /\ (isWriting' <=> isWriting)
    BY <1>1, <1>7, <2>2, CallbackLife
  <2>4. EventsInv'
    BY <1>1, <1>6, <2>1, <2>3, CallBackEvents
  <2>5. aborted' \in {"none", "handleClose"}
    BY <1>1, <2>1 DEF HandleClose, Close, Abort
  <2> QED
    BY <2>2, <2>3, <2>4, <2>5 DEF AssertsHold
<1>8. CASE ErrorCallback
  <2>1. CallBack("error") /\ HandleClose(state_)
    BY <1>8 DEF ErrorCallback, HandleError
  <2>2. /\ revents_' = revents_ /\ state_ # "kConnecting"
        /\ "IN" \in revents_ /\ late = {} => closes = 0
    BY <1>1, <2>1, CallBackNow
  <2>3. (Stays \/ Closes) /\ (isWriting' <=> isWriting)
    BY <1>1, <1>8, <2>2, CallbackLife
  <2>4. EventsInv'
    BY <1>1, <1>6, <2>1, <2>3, CallBackEvents
  <2>5. CASE Open
    BY <1>1, <1>2, <2>1, <2>3, <2>4, <2>5, HandleCloseLife DEF Open
  <2>6. CASE ~Open
    <3>1. state_ = "kDisconnected"
      BY <1>1, <2>2, <2>6 DEF State, Open
    <3>2. aborted' = "handleClose"
      BY <2>1, <3>1, HandleCloseLife
    <3>3. "IN" \notin revents_ \/ late # {}
      BY <1>1, <2>2, <3>1 DEF CloseInv
    <3> QED
      BY <1>6, <2>2, <2>3, <2>4, <3>2, <3>3 DEF AssertsHold
  <2> QED
    BY <2>5, <2>6
<1>9. CASE ReadCallback
  <2>1. CallBack("read")
    BY <1>9 DEF ReadCallback
  <2>2. state_ # "kConnecting"
    BY <1>1, <2>1, CallBackNow
  <2>3. (Stays \/ Closes) /\ (isWriting' <=> isWriting)
    BY <1>1, <1>9, <2>2, CallbackLife
  <2>4. EventsInv'
    BY <1>1, <1>6, <2>1, <2>3, CallBackEvents
  <2>5. \/ UNCHANGED aborted
        \/ state_ # "kDisconnected" /\ HandleClose(state_)
    BY <1>9 DEF ReadCallback, HandleError, connVars
  <2>6. aborted' = aborted
    BY <1>1, <2>2, <2>5, HandleCloseLife DEF State, Open
  <2> QED
    BY <1>1, <1>2, <2>3, <2>4, <2>6
<1>10. CASE WriteCallback
  <2>1. CallBack("write")
    BY <1>10 DEF WriteCallback
  <2>2. state_ # "kConnecting" /\ isWriting /\ outputBuffer_ # <<>>
    BY <1>1, <2>1, CallBackNow DEF IInv, OutputInv
  <2>3. \/ UNCHANGED connVars
        \/ state_ # "kDisconnected" /\ WriteOutput
    BY <1>10, <2>2 DEF WriteCallback
  <2>4. (Stays \/ Closes) /\ aborted' = aborted
    BY <1>1, <2>2, <2>3, LifeUnchanged, WriteOutputLife DEF connVars, State, Open
  <2>5. EventsInv'
    BY <1>1, <1>6, <2>1, <2>4, CallBackEvents
  <2> QED
    BY <1>1, <1>2, <2>4, <2>5
<1> QED
  BY <1>3, <1>4, <1>5, <1>7, <1>8, <1>9, <1>10 DEF HandlerStep

(* All the other steps.                                                    *)
LEMMA OtherInv ==
  ASSUME CInv, Next, ~Poll, ~HandlerStep
  PROVE  (Stays \/ Closes) /\ EventsInv' /\ AssertsHold'
<1>1. IInv /\ CloseInv /\ EventsInv /\ aborted = "none" /\ state_ \in State
  BY NextRuns DEF CInv, IInv, Types
<1>2. aborted' \in {"none", "shutdown"} => AssertsHold'
  BY DEF AssertsHold
<1>3. ASSUME Stays \/ Closes, UNCHANGED chanVars, isWriting => isWriting',
             lpc = "handle" => user \/ (closes' = closes /\ ~user')
      PROVE  EventsInv'
  BY <1>1, <1>3, UndisturbedEvents DEF Undisturbed, Stays, Closes
<1>4. CASE ConnectEstablished
  <2>1. /\ state_ = "kConnecting" /\ state_' = "kConnected"
        /\ UNCHANGED <<chanVars, closes, aborted, late>>
    BY <1>4 DEF ConnectEstablished
  <2>2. lpc = "loop" /\ ~isWriting /\ closes = 0
    BY <1>1, <2>1 DEF IInv, Unconnected, OutputInv, CloseInv
  <2>3. Stays
    BY <2>1, <2>2 DEF Stays
  <2> QED
    BY <1>1, <1>2, <1>3, <2>1, <2>2, <2>3
<1>5. CASE RunTask
  <2>1. state_ # "kConnecting" /\ lpc = "loop" /\ UNCHANGED chanVars
    BY <1>1, <1>5 DEF RunTask, AtLoop, IInv, Unconnected
  <2> QED
    BY <1>1, <1>2, <1>3, <1>5, <2>1, RunTaskLife
<1>6. CASE UserStep
  <2>1. (user \/ lpc \in {"loop", "polled"}) /\ UNCHANGED chanVars
    BY <1>6 DEF UserStep, UserBegin, UserReturn, UserSend, UserShutdown, UserForceClose,
       UserReadControl, InUser
  <2> QED
    BY <1>1, <1>2, <1>3, <1>6, <2>1, UserLife
<1>7. CASE (\E t \in Threads : ThreadStep(t)) \/ PeerStep
  <2>1. /\ Stays /\ closes' = closes /\ user' = user
        /\ UNCHANGED <<chanVars, events_>>
        /\ aborted' \in {aborted, "shutdown"}
    BY <1>1, <1>7, ThreadLife
  <2> QED
    BY <1>1, <1>2, <1>3, <2>1 DEF isWriting
<1> QED
  BY <1>4, <1>5, <1>6, <1>7 DEF Next

(* A new connection is not closed, and nothing is under way.               *)
LEMMA CInit == Init => CInv
<1> SUFFICES ASSUME Init PROVE CloseInv /\ EventsInv /\ AssertsHold
  BY InitInv DEF CInv
<1> QED
  BY DEF Init, CloseInv, EventsInv, AssertsHold, ClosedOnce, ClosedChannelUnregistered

(* Every step keeps the invariant.                                         *)
LEMMA CStep == CInv /\ [Next]_vars => CInv'
<1> SUFFICES ASSUME CInv, [Next]_vars PROVE CInv'
  OBVIOUS
<1>1. IInv'
  BY StepInv DEF CInv
<1>2. CASE Next
  <2>1. (Stays \/ Closes) /\ EventsInv' /\ AssertsHold'
    BY <1>2, HandlerInv, OtherInv
  <2>2. CloseInv'
    BY <2>1, LifeKeepsCloseInv DEF CInv
  <2> QED
    BY <1>1, <2>1, <2>2 DEF CInv
<1>3. CASE UNCHANGED vars
  <2>1. CloseInv' /\ EventsInv' /\ AssertsHold'
    BY <1>3 DEF CInv, vars, connVars, chanVars, CloseInv, EventsInv, AssertsHold, ClosedOnce,
       ClosedChannelUnregistered, isWriting
  <2> QED
    BY <1>1, <2>1 DEF CInv
<1> QED
  BY <1>2, <1>3

(* The asserts of handleWrite and sendInLoop hold in every use; that of    *)
(* handleClose fails only after a stopRead(), a close between poll() and   *)
(* handleEvents(), or a use of a closed connection.                        *)
THEOREM AssertsAlwaysHold == Spec => []AssertsHold
<1>1. CInv => AssertsHold
  BY DEF CInv
<1> QED
  BY <1>1, CInit, CStep, PTL DEF Spec

(* closeCallback_ is called twice only through an exchange of state_ that  *)
(* comes after the close.                                                  *)
THEOREM ClosesOnce == Spec => []ClosedOnce
<1>1. CInv => ClosedOnce
  BY DEF CInv, CloseInv
<1> QED
  BY <1>1, CInit, CStep, PTL DEF Spec

(* A closed connection's channel is back in the epoll set only through     *)
(* such an exchange or a switch of reading after the close.                *)
THEOREM ClosedStaysUnregistered == Spec => []ClosedChannelUnregistered
<1>1. CInv => ClosedChannelUnregistered
  BY DEF CInv, CloseInv
<1> QED
  BY <1>1, CInit, CStep, PTL DEF Spec
=============================================================================
