------------------------- MODULE AsyncLoggingProofs -------------------------
(***************************************************************************)
(* Proofs about AsyncLogging, for any sizes of buffers, files and backlog, *)
(* and any number of lines.                                                *)
(***************************************************************************)
EXTENDS AsyncLogging, SequenceTheorems, WellFoundedInduction, TLAPS

(* No lines are logged during disableAsyncLogging().                       *)
OrderlyStop == ~LogAnytime

(* Besides, every wait of the back end finds something to do.              *)
NeverIdle == OrderlyStop /\ ~IdleTimeout

Buffers == Seq(Seq(Nat))

Types ==
  /\ currentBuffer_ \in Buffers /\ Len(currentBuffer_) <= 1
  /\ buffers_ \in Buffers /\ buffersToWrite \in Buffers
  /\ appended \in Nat
  /\ running_ \in BOOLEAN

(* From stop() on, running_ is FALSE.  The back end leaves its loop only   *)
(* then, takes all that is in the front end, to which nobody adds, and     *)
(* writes it before it ends; the join waits for that.                      *)
FlushInv ==
  /\ running_ <=> spc = "no stop"
  /\ bpc \in {"flush", "last", "done"} => ~running_
  /\ currentBuffer_ = Null => bpc \in {"last", "done"}
  /\ bpc \in {"last", "done"} => Pushed = <<>>
  /\ bpc = "done" => buffersToWrite = <<>>
  /\ spc \notin {"no stop", "join"} => bpc = "done"

(* The front end uses up its spare buffer only when it queues a full one   *)
(* and starts another.  The back end has both its spare buffers when it    *)
(* collects, or it is about to leave the loop; between collecting and      *)
(* recycling it has at least as many buffers as it lacks spare ones.       *)
SpareInv ==
  /\ nextBuffer_ = Null /\ bpc \notin {"last", "done"}
       => buffers_ # <<>> /\ HasLines(currentBuffer_)
  /\ bpc \in {"lock", "wait"} \/ (bpc = "while" /\ running_)
       => newBuffer1 # Null /\ newBuffer2 # Null
  /\ bpc \in {"while", "lock", "wait"} => buffersToWrite = <<>>
  /\ bpc = "write" => Wanted <= Len(buffersToWrite)
  /\ ~aborted

StopIInv == Types /\ FlushInv
IInv == StopIInv /\ SpareInv

-----------------------------------------------------------------------------
(* A pointer to a buffer is not null.                                      *)
LEMMA BufferNotNull ==
  ASSUME NEW b \in Seq(Nat)
  PROVE  <<b>> \in Buffers /\ Len(<<b>>) = 1 /\ <<b>> # Null /\ <<b>>[1] = b
  BY DEF Buffers, Null

(* A pointer that holds a buffer is the sequence of that buffer.           *)
LEMMA HeldBuffer ==
  ASSUME NEW p \in Buffers, p # Null
  PROVE  Len(p) >= 1 /\ p[1] \in Seq(Nat)
<1>1. Len(p) \in Nat /\ Len(p) # 0
  BY EmptySeq, LenProperties DEF Buffers, Null
<1> QED
  BY <1>1, ElementOfSeq DEF Buffers

(* What the back end finds is a sequence of buffers, empty only if none is *)
(* queued and the current one has no lines.                                *)
LEMMA PushedProperties ==
  ASSUME Types
  PROVE  /\ Pushed \in Buffers
         /\ HasLines(currentBuffer_) => Len(Pushed) >= Len(buffers_) + 1
         /\ ~HasLines(currentBuffer_) => Pushed = buffers_
         /\ Pushed = <<>> => buffers_ = <<>> /\ ~HasLines(currentBuffer_)
         /\ buffers_ = <<>> /\ ~HasLines(currentBuffer_) => Pushed = <<>>
<1>1. buffers_ \in Buffers /\ currentBuffer_ \in Buffers
  BY DEF Types
<1>2. Len(buffers_) \in Nat /\ Len(currentBuffer_) \in Nat
  BY <1>1, LenProperties DEF Buffers
<1>3. /\ buffers_ \o currentBuffer_ \in Buffers
      /\ Len(buffers_ \o currentBuffer_) = Len(buffers_) + Len(currentBuffer_)
  BY <1>1, ConcatProperties DEF Buffers
<1>4. HasLines(currentBuffer_) => Len(currentBuffer_) >= 1
  BY <1>1, HeldBuffer DEF HasLines
<1>5. CASE HasLines(currentBuffer_)
  <2>1. Pushed = buffers_ \o currentBuffer_
    BY <1>5 DEF Pushed
  <2>2. Len(Pushed) >= Len(buffers_) + 1 /\ Len(Pushed) # 0
    BY <1>2, <1>3, <1>4, <1>5, <2>1
  <2>3. Pushed # <<>>
    BY <2>2, EmptySeq
  <2> QED
    BY <1>3, <1>5, <2>1, <2>2, <2>3
<1>6. CASE ~HasLines(currentBuffer_)
  BY <1>1, <1>6 DEF Pushed
<1> QED
  BY <1>5, <1>6

(* Of what the back end finds it queues all or, without a newBuffer1, all  *)
(* but the last.                                                           *)
LEMMA QueuedProperties ==
  ASSUME Types
  PROVE  /\ Queued \in Buffers
         /\ newBuffer1 # Null => Queued = Pushed
<1>1. Pushed \in Seq(Seq(Nat))
  BY PushedProperties DEF Buffers
<1>2. CASE newBuffer1 = Null /\ Pushed # <<>>
  <2>1. Len(Pushed) \in Nat \ {0}
    BY <1>1, <1>2, EmptySeq, LenProperties
  <2>2. SubSeq(Pushed, 1, Len(Pushed) - 1) \in Seq(Seq(Nat))
    <3>1. \A i \in 1..(Len(Pushed) - 1) : Pushed[i] \in Seq(Nat)
      BY <1>1, <2>1, ElementOfSeq
    <3> QED BY <1>1, <2>1, <3>1, SubSeqProperties
  <2> QED
    BY <1>2, <2>2 DEF Queued, Front, Buffers
<1>3. CASE ~(newBuffer1 = Null /\ Pushed # <<>>)
  BY <1>1, <1>3 DEF Queued, Buffers
<1> QED
  BY <1>2, <1>3

(* The cut of the backlog leaves at least two buffers.                     *)
LEMMA KeptProperties ==
  ASSUME NEW q \in Buffers
  PROVE  /\ Kept(q) \in Buffers
         /\ \A n \in {1, 2} : Len(q) >= n => Len(Kept(q)) >= n
<1>1. q \in Seq(Seq(Nat)) /\ Len(q) \in Nat
  BY LenProperties DEF Buffers
<1>2. CASE Len(q) > MaxBacklog
  <2>1. Len(q) > 2
    BY <1>1, <1>2, LogSizesAssumption
  <2>2. \A i \in 1..2 : q[i] \in Seq(Nat)
    BY <1>1, <2>1, ElementOfSeq
  <2>3. SubSeq(q, 1, 2) \in Seq(Seq(Nat)) /\ Len(SubSeq(q, 1, 2)) = 2
    BY <1>1, <2>1, <2>2, SubSeqProperties
  <2> QED
    BY <1>2, <2>3 DEF Kept, Buffers
<1>3. CASE ~(Len(q) > MaxBacklog)
  BY <1>1, <1>3 DEF Kept, Buffers
<1> QED
  BY <1>2, <1>3

-----------------------------------------------------------------------------
(* append() to the current buffer: it has lines then, and the spare buffer *)
(* is gone only if a buffer was queued.                                    *)
LEMMA AppendedProperties ==
  ASSUME Types, currentBuffer_ # Null, NEW line \in Nat, Appended(line)
  PROVE  /\ currentBuffer_' \in Buffers /\ Len(currentBuffer_') <= 1
         /\ buffers_' \in Buffers
         /\ HasLines(currentBuffer_')
         /\ nextBuffer_' # nextBuffer_ => buffers_' # <<>>
         /\ buffers_ # <<>> => buffers_' # <<>>
         /\ aborted' = aborted
<1>1. currentBuffer_ \in Buffers /\ buffers_ \in Buffers /\ currentBuffer_[1] \in Seq(Nat)
  BY HeldBuffer DEF Types
<1>2. CASE Len(currentBuffer_[1]) + 1 < KBufferSize
  <2> DEFINE b == Append(currentBuffer_[1], line)
  <2>1. b \in Seq(Nat) /\ b # <<>>
    BY <1>1, AppendProperties
  <2>2. currentBuffer_' = <<b>> /\ UNCHANGED <<nextBuffer_, buffers_, aborted>>
    BY <1>2 DEF Appended
  <2> HIDE DEF b
  <2> QED
    BY <1>1, <2>1, <2>2, BufferNotNull DEF HasLines
<1>3. CASE ~(Len(currentBuffer_[1]) + 1 < KBufferSize)
  <2>1. /\ buffers_' = buffers_ \o currentBuffer_ /\ currentBuffer_' = <<<<line>>>>
        /\ aborted' = aborted
    BY <1>3 DEF Appended
  <2>2. <<line>> \in Seq(Nat) /\ <<line>> # <<>>
    OBVIOUS
  <2>3. /\ buffers_' \in Buffers
        /\ Len(buffers_') = Len(buffers_) + Len(currentBuffer_)
    BY <1>1, <2>1, ConcatProperties DEF Buffers
  <2>4. Len(buffers_') # 0
    BY <1>1, <2>3, HeldBuffer, LenProperties DEF Buffers
  <2>5. buffers_' # <<>>
    BY <2>4, EmptySeq
  <2> QED
    <3>1. /\ currentBuffer_' \in Buffers /\ Len(currentBuffer_') = 1
          /\ currentBuffer_' # Null /\ currentBuffer_'[1] = <<line>>
      BY <2>1, <2>2, BufferNotNull
    <3>2. HasLines(currentBuffer_')
      BY <2>2, <3>1 DEF HasLines
    <3> QED BY <2>1, <2>3, <2>5, <3>1, <3>2
<1> QED
  BY <1>2, <1>3

(* Collecting gives the front end a new current and a new spare buffer.    *)
LEMMA CollectProperties ==
  ASSUME Types, Collect
  PROVE  /\ currentBuffer_' = NewBuffer /\ nextBuffer_' = NewBuffer
         /\ Types'
         /\ ~HasLines(currentBuffer_')
         /\ NewBuffer # Null
<1>1. NewBuffer \in Buffers /\ Len(NewBuffer) = 1 /\ NewBuffer # Null /\ NewBuffer[1] = <<>>
  BY BufferNotNull, EmptySeq DEF NewBuffer
<1>2. /\ currentBuffer_' = NewBuffer /\ nextBuffer_' = NewBuffer
      /\ buffers_' = buffersToWrite /\ buffersToWrite' = Kept(Queued)
      /\ UNCHANGED <<appended, running_>>
  BY DEF Collect, logger
<1>3. buffersToWrite' \in Buffers
  BY <1>2, QueuedProperties, KeptProperties
<1>4. Types'
  <2>1. running_' \in BOOLEAN /\ appended' \in Nat /\ buffers_' \in Buffers
    BY <1>2 DEF Types
  <2>2. currentBuffer_' \in Buffers /\ Len(currentBuffer_') <= 1
    <3>1. currentBuffer_' \in Buffers /\ Len(currentBuffer_') = 1
      BY <1>1, <1>2, Zenon
    <3> QED BY <3>1
  <2> QED BY <1>3, <2>1, <2>2 DEF Types
<1> QED
  BY <1>1, <1>2, <1>4 DEF HasLines

(* Initially every buffer is empty and the back end is in its loop.        *)
LEMMA InitInv == Init => IInv
<1> SUFFICES ASSUME Init PROVE IInv
  OBVIOUS
<1>1. NewBuffer \in Buffers /\ Len(NewBuffer) = 1 /\ NewBuffer # Null /\ NewBuffer[1] = <<>>
  BY BufferNotNull, EmptySeq DEF NewBuffer
<1>2. Types
  <2>1. running_ \in BOOLEAN
    BY DEF Init
  <2>2. /\ currentBuffer_ = NewBuffer /\ buffers_ = <<>> /\ buffersToWrite = <<>>
        /\ appended = 0
    BY DEF Init
  <2>3. <<>> \in Buffers
    BY EmptySeq DEF Buffers
  <2>4. Len(currentBuffer_) = 1
    BY <1>1, <2>2, Zenon
  <2>5. appended \in Nat /\ Len(currentBuffer_) <= 1
    BY <2>2, <2>4
  <2> QED BY <1>1, <2>1, <2>2, <2>3, <2>5, Zenon DEF Types
<1>3. FlushInv
  BY <1>1 DEF Init, FlushInv
<1>4. SpareInv
  BY <1>1 DEF Init, SpareInv
<1> QED
  BY <1>2, <1>3, <1>4 DEF IInv, StopIInv

(* What the back end finds depends on the current and queued buffers only. *)
LEMMA PushedSame ==
  ASSUME UNCHANGED front
  PROVE  Pushed' = Pushed /\ UNCHANGED <<currentBuffer_, nextBuffer_, buffers_>>
  BY DEF front, Pushed

(* Every step of an orderly stop keeps the invariant of stop().            *)
LEMMA StopStep ==
  ASSUME OrderlyStop, StopIInv, [Next]_vars
  PROVE  StopIInv'
<1> USE DEF StopIInv
<1>1. CASE LogLine
  <2>0. spc \in {"no stop", "disabled"}
    BY <1>1 DEF LogLine, OrderlyStop
  <2>1. appended + 1 \in Nat
    BY DEF Types
  <2>2. UNCHANGED <<running_, spc, bpc, buffersToWrite>> /\ appended' \in Nat
    BY <1>1, <2>1 DEF LogLine, back
  <2>3. CASE spc = "disabled"
    <3>1. UNCHANGED front
      BY <1>1, <2>3 DEF LogLine
    <3> QED
      BY <2>2, <3>1, PushedSame DEF Types, FlushInv
  <2>4. CASE spc = "no stop"
    <3>1. Appended(appended + 1)
      BY <1>1, <2>4 DEF LogLine
    <3>2. running_ /\ currentBuffer_ # Null /\ bpc \notin {"flush", "last", "done"}
      BY <2>4 DEF FlushInv
    <3>3. Types' /\ HasLines(currentBuffer_')
      BY <2>1, <2>2, <3>1, <3>2, AppendedProperties DEF Types
    <3>4. currentBuffer_' # Null
      BY <3>3 DEF HasLines
    <3> QED
      BY <2>2, <2>4, <3>2, <3>3, <3>4 DEF FlushInv
  <2> QED
    BY <2>0, <2>3, <2>4
<1>2. CASE Stop
  <2>1. /\ UNCHANGED <<front, bpc, buffersToWrite, appended>> /\ running_' = FALSE
        /\ spc = "no stop" /\ spc' = "join"
    BY <1>2 DEF Stop, back
  <2> QED
    BY <2>1, PushedSame DEF Types, FlushInv
<1>3. CASE Disable
  <2>1. UNCHANGED <<front, bpc, buffersToWrite, appended, running_>>
    BY <1>3 DEF Disable, back
  <2>2. /\ spc # "no stop" /\ spc' # "no stop"
        /\ (spc = "join" => bpc = "done")
    BY <1>3 DEF Disable
  <2> QED
    BY <2>1, <2>2, PushedSame DEF Types, FlushInv
<1>4. CASE BackEnd
  <2>1. UNCHANGED <<running_, spc, appended>>
    BY <1>4 DEF BackEnd, While, Lock, Wake, Collect, WriteBuffer, Recycle, FinalLock,
                FinalWrite, logger
  <2>2. CASE While
    <3>1. UNCHANGED <<front, buffersToWrite>> /\ bpc = "while"
          /\ bpc' = IF running_ THEN "lock" ELSE "flush"
      BY <2>2 DEF While, back
    <3> QED
      BY <2>1, <3>1, PushedSame DEF Types, FlushInv
  <2>3. CASE (bpc \in {"lock", "wait"}) /\ Collect
    <3>1. bpc' \in {"while", "write"}
      BY <2>3 DEF Collect
    <3> QED
      BY <2>1, <2>3, <3>1, CollectProperties DEF FlushInv
  <2>4. CASE Lock /\ ~Collect
    <3>1. UNCHANGED <<front, buffersToWrite>> /\ bpc = "lock" /\ bpc' = "wait"
      BY <2>4 DEF Lock, back
    <3> QED
      BY <2>1, <3>1, PushedSame DEF Types, FlushInv
  <2>5. CASE WriteBuffer
    <3>1. UNCHANGED <<front, buffersToWrite, bpc>>
      BY <2>5 DEF WriteBuffer
    <3> QED
      BY <2>1, <3>1, PushedSame DEF Types, FlushInv
  <2>6. CASE Recycle
    <3>1. /\ UNCHANGED front /\ bpc = "write" /\ bpc' \in {"while", "write"}
          /\ buffersToWrite' \in {buffersToWrite, <<>>}
      BY <2>6 DEF Recycle, back
    <3> QED
      BY <2>1, <3>1, PushedSame, EmptySeq DEF Types, FlushInv, Buffers
  <2>7. CASE FinalLock
    <3>1. /\ bpc = "flush" /\ bpc' = "last" /\ buffers_' = <<>> /\ buffersToWrite' = Pushed
          /\ currentBuffer_' = IF HasLines(currentBuffer_) THEN Null ELSE currentBuffer_
      BY <2>7 DEF FinalLock
    <3>2. ~HasLines(currentBuffer_')
      BY <3>1 DEF HasLines
    <3>3. Pushed' = <<>>
      BY <3>1, <3>2 DEF Pushed
    <3>4. Types'
      BY <2>1, <3>1, PushedProperties, EmptySeq DEF Types, Buffers, Null
    <3> QED
      BY <2>1, <3>1, <3>3, <3>4 DEF FlushInv
  <2>8. CASE FinalWrite
    <3>1. /\ UNCHANGED front /\ bpc = "last" /\ bpc' = "done" /\ buffersToWrite' = <<>>
      BY <2>8 DEF FinalWrite
    <3> QED
      BY <2>1, <3>1, PushedSame, EmptySeq DEF Types, FlushInv, Buffers
  <2> QED
    BY <1>4, <2>2, <2>3, <2>4, <2>5, <2>6, <2>7, <2>8 DEF BackEnd, Lock, Wake
<1>5. CASE Tick
  <2>1. UNCHANGED <<front, bpc, buffersToWrite, appended, running_, spc>>
    BY <1>5 DEF Tick, back, logger
  <2> QED
    BY <2>1, PushedSame DEF Types, FlushInv
<1>6. CASE UNCHANGED vars
  <2>1. UNCHANGED <<front, bpc, buffersToWrite, appended, running_, spc>>
    BY <1>6 DEF vars, back, logger
  <2> QED
    BY <2>1, PushedSame DEF Types, FlushInv
<1> QED
  BY <1>1, <1>2, <1>3, <1>4, <1>5, <1>6 DEF Next

(* Collecting something uses up newBuffer1, and newBuffer2 only if two     *)
(* buffers are there; with nothing to collect stop() has been called.      *)
LEMMA CollectSpares ==
  ASSUME Types, SpareInv, Collect, bpc \in {"lock", "wait"},
         Pushed # <<>> \/ ~running_
  PROVE  SpareInv'
<1>1. newBuffer1 # Null /\ newBuffer2 # Null /\ buffersToWrite = <<>>
  BY DEF SpareInv
<1>2. Queued = Pushed
  BY <1>1, QueuedProperties
<1>3. /\ newBuffer1' = Null /\ buffersToWrite' = Kept(Pushed)
      /\ newBuffer2' = IF nextBuffer_ = Null THEN Null ELSE newBuffer2
      /\ bpc' = IF Pushed = <<>> THEN "while" ELSE "write"
      /\ nextBuffer_' = NewBuffer /\ aborted' = aborted /\ running_' = running_
  BY <1>2 DEF Collect, logger
<1>4. nextBuffer_' # Null /\ ~aborted'
  BY <1>3, CollectProperties DEF SpareInv
<1>5. CASE Pushed = <<>>
  <2>1. ~running_' /\ bpc' = "while"
    BY <1>3, <1>5
  <2>2. buffersToWrite' = <<>>
    <3>1. Len(Pushed) = 0 /\ MaxBacklog >= 0
      BY <1>5, EmptySeq, LogSizesAssumption
    <3> QED BY <1>3, <1>5, <3>1, LogSizesAssumption DEF Kept
  <2> QED
    BY <1>4, <2>1, <2>2 DEF SpareInv
<1>6. CASE Pushed # <<>>
  <2>1. Pushed \in Buffers /\ Len(Pushed) \in Nat /\ Len(Pushed) >= 1
    BY <1>6, PushedProperties, EmptySeq, LenProperties DEF Buffers
  <2>2. nextBuffer_ = Null => Len(Pushed) >= 2
    <3> SUFFICES ASSUME nextBuffer_ = Null PROVE Len(Pushed) >= 2
      OBVIOUS
    <3>1. buffers_ # <<>> /\ HasLines(currentBuffer_)
      BY DEF SpareInv
    <3>2. Len(buffers_) \in Nat \ {0}
      BY <3>1, EmptySeq, LenProperties DEF Types, Buffers
    <3>3. Len(Pushed) >= Len(buffers_) + 1
      BY <3>1, PushedProperties
    <3> QED
      BY <2>1, <3>2, <3>3
  <2>3. Len(buffersToWrite') >= 1 /\ (nextBuffer_ = Null => Len(buffersToWrite') >= 2)
    BY <1>3, <2>1, <2>2, KeptProperties
  <2>4. Wanted' = IF nextBuffer_ = Null THEN 2 ELSE 1
    BY <1>1, <1>3 DEF Wanted
  <2>5. Wanted' <= Len(buffersToWrite') /\ bpc' = "write"
    <3>1. Len(buffersToWrite') \in Nat
      BY <1>3, <2>1, KeptProperties, LenProperties DEF Buffers
    <3> QED BY <1>3, <1>6, <2>3, <2>4, <3>1
  <2> QED
    BY <1>4, <2>5 DEF SpareInv
<1> QED
  BY <1>5, <1>6

(* Every step of an orderly stop, if no wait ends with nothing to do,      *)
(* keeps the count of the spare buffers.                                   *)
LEMMA SpareStep ==
  ASSUME NeverIdle, IInv, [Next]_vars
  PROVE  SpareInv'
<1>0. Types /\ FlushInv /\ SpareInv /\ ~aborted
  BY DEF IInv, StopIInv, SpareInv
<1>1. CASE LogLine
  <2>0. spc \in {"no stop", "disabled"}
    BY <1>1 DEF LogLine, NeverIdle, OrderlyStop
  <2>1. appended + 1 \in Nat
    BY <1>0 DEF Types
  <2>2. UNCHANGED <<running_, bpc, newBuffer1, newBuffer2, buffersToWrite>>
    BY <1>1 DEF LogLine, back
  <2>3. CASE spc = "disabled"
    <3>1. UNCHANGED <<front, aborted>>
      BY <1>1, <2>3 DEF LogLine
    <3> QED
      BY <1>0, <2>2, <3>1 DEF front, SpareInv, HasLines, Wanted
  <2>4. CASE spc = "no stop"
    <3>1. Appended(appended + 1)
      BY <1>1, <2>4 DEF LogLine
    <3>2. currentBuffer_ # Null
      BY <1>0, <2>4 DEF FlushInv
    <3>3. /\ HasLines(currentBuffer_') /\ aborted' = aborted
          /\ nextBuffer_' # nextBuffer_ => buffers_' # <<>>
          /\ buffers_ # <<>> => buffers_' # <<>>
      BY <1>0, <2>1, <3>1, <3>2, AppendedProperties
    <3> QED
      BY <1>0, <2>2, <3>3 DEF SpareInv, HasLines, Wanted
  <2> QED
    BY <2>0, <2>3, <2>4
<1>2. CASE Stop \/ Disable \/ Tick \/ UNCHANGED vars
  <2>1. /\ UNCHANGED <<front, bpc, newBuffer1, newBuffer2, buffersToWrite, aborted>>
        /\ running_' => running_
    <3>1. CASE Stop
      BY <3>1 DEF Stop, back
    <3>2. CASE Disable \/ Tick \/ UNCHANGED vars
      BY <3>2 DEF Disable, Tick, vars, back, logger
    <3> QED BY <1>2, <3>1, <3>2
  <2> QED
    BY <1>0, <2>1 DEF front, SpareInv, HasLines, Wanted
<1>3. CASE While
  <2>1. /\ UNCHANGED <<front, newBuffer1, newBuffer2, buffersToWrite, running_, aborted>>
        /\ bpc = "while" /\ bpc' = IF running_ THEN "lock" ELSE "flush"
    BY <1>3 DEF While, back, logger
  <2> QED
    BY <1>0, <2>1 DEF front, SpareInv, HasLines, Wanted
<1>4. CASE (bpc = "lock" /\ Pushed # <<>>) /\ Collect
  BY <1>0, <1>4, CollectSpares DEF NeverIdle
<1>5. CASE Lock /\ ~(Pushed # <<>> /\ Collect)
  <2>1. /\ UNCHANGED <<front, newBuffer1, newBuffer2, buffersToWrite, running_, aborted>>
        /\ bpc = "lock" /\ bpc' = "wait"
    BY <1>5 DEF Lock, back, logger
  <2> QED
    BY <1>0, <2>1 DEF front, SpareInv, HasLines, Wanted
<1>6. CASE Wake
  BY <1>0, <1>6, CollectSpares DEF NeverIdle, Wake, WaitEnds
<1>7. CASE WriteBuffer
  <2>1. UNCHANGED <<front, bpc, newBuffer1, newBuffer2, buffersToWrite, running_, aborted>>
    BY <1>7 DEF WriteBuffer, logger
  <2> QED
    BY <1>0, <2>1 DEF front, SpareInv, HasLines, Wanted
<1>8. CASE Recycle
  <2>1. Wanted <= Len(buffersToWrite)
    BY <1>0, <1>8 DEF Recycle, SpareInv
  <2>2. /\ UNCHANGED <<front, running_, aborted>> /\ bpc = "write" /\ bpc' = "while"
        /\ newBuffer1' = NewBuffer /\ newBuffer2' = NewBuffer /\ buffersToWrite' = <<>>
    BY <1>8, <2>1 DEF Recycle, logger
  <2>3. NewBuffer # Null
    BY BufferNotNull, EmptySeq DEF NewBuffer
  <2> QED
    BY <1>0, <2>2, <2>3 DEF front, SpareInv, HasLines
<1>9. CASE FinalLock \/ FinalWrite
  <2>1. bpc' \in {"last", "done"} /\ aborted' = aborted
    BY <1>9 DEF FinalLock, FinalWrite
  <2> QED
    BY <1>0, <2>1 DEF SpareInv
<1> QED
  BY <1>1, <1>2, <1>3, <1>4, <1>5, <1>6, <1>7, <1>8, <1>9 DEF Next, BackEnd, Lock

-----------------------------------------------------------------------------
(* stop() returns only when every line is in a file or was given up,       *)
(* whatever the timing of the back end, if nothing is logged while         *)
(* disableAsyncLogging() is at work.                                       *)
THEOREM OrderlyStopFlushes == OrderlyStop /\ Spec => []StopFlushes
<1>1. Init => StopIInv
  BY InitInv DEF IInv
<1>2. OrderlyStop /\ StopIInv /\ [Next]_vars => StopIInv'
  BY StopStep
<1>3. StopIInv => StopFlushes
  <2> SUFFICES ASSUME StopIInv, spc \notin {"no stop", "join"}
               PROVE  Pushed \o buffersToWrite = <<>>
    BY DEF StopFlushes
  <2>1. Pushed = <<>> /\ buffersToWrite = <<>>
    BY DEF StopIInv, FlushInv
  <2> QED
    BY <2>1, ConcatEmptySeq, EmptySeq
<1>4. OrderlyStop => OrderlyStop'
  BY DEF OrderlyStop
<1> QED
  BY <1>1, <1>2, <1>3, <1>4, PTL DEF Spec

(* The asserts of threadFunc hold and append() finds a buffer, if besides  *)
(* something is logged in every flush interval until stop().               *)
THEOREM NeverIdleKeepsAsserts == NeverIdle /\ Spec => []NoAssertionFails
<1>1. NeverIdle /\ IInv /\ [Next]_vars => IInv'
  BY StopStep, SpareStep DEF NeverIdle, IInv
<1>2. IInv => NoAssertionFails
  BY DEF IInv, SpareInv, NoAssertionFails
<1>3. NeverIdle => NeverIdle'
  BY DEF NeverIdle, OrderlyStop
<1> QED
  BY InitInv, <1>1, <1>2, <1>3, PTL DEF Spec

-----------------------------------------------------------------------------
(* Sequences.                                                              *)

(* Induction over the naturals, for a set of them.                         *)
LEMMA NatSet ==
  ASSUME NEW S, 0 \in S, \A n \in Nat : n \in S => n + 1 \in S
  PROVE  Nat \subseteq S
<1> DEFINE T == Nat \ S
<1> SUFFICES ASSUME T # {} PROVE FALSE
  OBVIOUS
<1>1. IsWellFoundedOn(OpToRel(<, Nat), Nat)
  BY NatLessThanWellFounded, Zenon
<1>2. T \subseteq Nat
  OBVIOUS
<1>3. PICK x \in T : \A y \in T : ~(<<y, x>> \in OpToRel(<, Nat))
  BY <1>1, <1>2, WFMin, Zenon
<1>4. x \in Nat /\ x \notin S /\ x # 0
  OBVIOUS
<1>5. x - 1 \in Nat /\ x - 1 < x /\ (x - 1) + 1 = x
  BY <1>4
<1>6. x - 1 \in T
  BY <1>4, <1>5
<1>7. <<x - 1, x>> \in Nat \X Nat /\ <<x - 1, x>>[1] = x - 1 /\ <<x - 1, x>>[2] = x
  BY <1>4, <1>5
<1>8. ~(<<x - 1, x>> \in {ss \in Nat \X Nat : ss[1] < ss[2]})
  BY <1>3, <1>6 DEF OpToRel
<1> QED
  BY ONLY <1>5, <1>7, <1>8

(* f holds the first n of the partial concatenations of q.                 *)
IsFlat(q, f, n) == f = [i \in 1..n |-> IF i = 1 THEN q[i] ELSE f[i - 1] \o q[i]]

Agree(p, q, n) == \A i \in 1..n : p[i] = q[i]

(* They exist ...                                                          *)
LEMMA FlatExists ==
  ASSUME NEW S, NEW q \in Seq(Seq(S))
  PROVE  \A n \in 0..Len(q) : \E f \in [1..n -> Seq(S)] : IsFlat(q, f, n)
<1> DEFINE N == {n \in Nat : n <= Len(q) => \E f \in [1..n -> Seq(S)] : IsFlat(q, f, n)}
<1>0. Len(q) \in Nat /\ \A i \in 1..Len(q) : q[i] \in Seq(S)
  BY LenProperties, ElementOfSeq
<1>1. 0 \in N
  <2> DEFINE f == [i \in 1..0 |-> <<>>]
  <2>1. f \in [1..0 -> Seq(S)] /\ IsFlat(q, f, 0)
    BY DEF IsFlat
  <2> QED
    BY <2>1
<1>2. ASSUME NEW n \in Nat, n \in N
      PROVE  n + 1 \in N
  <2> SUFFICES ASSUME n + 1 <= Len(q)
               PROVE  \E f \in [1..(n + 1) -> Seq(S)] : IsFlat(q, f, n + 1)
    OBVIOUS
  <2>1. PICK f \in [1..n -> Seq(S)] : IsFlat(q, f, n)
    BY <1>0, <1>2
  <2> DEFINE g == [i \in 1..(n + 1) |->
                     IF i <= n THEN f[i] ELSE IF i = 1 THEN q[i] ELSE f[n] \o q[i]]
  <2>2. g \in [1..(n + 1) -> Seq(S)]
    <3> SUFFICES ASSUME NEW i \in 1..(n + 1)
                 PROVE  (IF i <= n THEN f[i] ELSE IF i = 1 THEN q[i] ELSE f[n] \o q[i]) \in Seq(S)
      OBVIOUS
    <3>1. CASE i <= n
      BY <3>1
    <3>2. CASE ~(i <= n)
      <4>1. i = n + 1 /\ q[i] \in Seq(S)
        BY <3>2, <1>0
      <4>2. i # 1 => n \in 1..n /\ f[n] \in Seq(S)
        BY <4>1
      <4>3. i # 1 => f[n] \o q[i] \in Seq(S)
        BY <4>1, <4>2, ConcatProperties
      <4> QED
        BY <3>2, <4>1, <4>3
    <3> QED
      BY <3>1, <3>2
  <2>3. ASSUME NEW i \in 1..(n + 1)
        PROVE  g[i] = IF i = 1 THEN q[i] ELSE g[i - 1] \o q[i]
    <3>1. CASE i <= n
      <4>1. i \in 1..n /\ g[i] = f[i] /\ (i # 1 => i - 1 \in 1..(n + 1) /\ i - 1 <= n)
        BY <3>1
      <4>2. f[i] = IF i = 1 THEN q[i] ELSE f[i - 1] \o q[i]
        BY <2>1, <4>1 DEF IsFlat
      <4>3. i # 1 => g[i - 1] = f[i - 1]
        BY <4>1
      <4> QED
        BY <4>1, <4>2, <4>3
    <3>2. CASE ~(i <= n)
      <4>1. i = n + 1
        BY <3>2
      <4>2. i # 1 => i - 1 = n /\ n \in 1..(n + 1)
        BY <4>1
      <4>3. i # 1 => g[i - 1] = f[n]
        BY <4>2
      <4>4. g[i] = IF i = 1 THEN q[i] ELSE f[n] \o q[i]
        BY <3>2
      <4> QED
        BY <4>3, <4>4
    <3> QED
      BY <3>1, <3>2
  <2> HIDE DEF g
  <2>4. IsFlat(q, g, n + 1)
    BY <2>2, <2>3 DEF IsFlat
  <2> QED
    BY <2>2, <2>4
<1> HIDE DEF N
<1>3. Nat \subseteq N
  BY <1>1, <1>2, NatSet
<1> QED
  BY <1>0, <1>3 DEF N

(* ... and depend on the first elements of q only.                         *)
LEMMA FlatUnique ==
  \A q, p, f, g : \A n, m \in Nat :
    n <= m /\ Agree(p, q, n) /\ IsFlat(q, f, n) /\ IsFlat(p, g, m) => Agree(f, g, n)
<1> SUFFICES ASSUME NEW q, NEW p, NEW f, NEW g, NEW n \in Nat, NEW m \in Nat,
                    n <= m, \A i \in 1..n : p[i] = q[i], IsFlat(q, f, n), IsFlat(p, g, m)
             PROVE  \A i \in 1..n : f[i] = g[i]
  BY DEF Agree
<1> DEFINE N == {i \in Nat : i \in 1..n => f[i] = g[i]}
<1>1. 0 \in N
  OBVIOUS
<1>2. ASSUME NEW i \in Nat, i \in N
      PROVE  i + 1 \in N
  <2> SUFFICES ASSUME i + 1 \in 1..n
               PROVE  f[i + 1] = g[i + 1]
    OBVIOUS
  <2>1. i + 1 \in 1..m /\ (i + 1) - 1 = i /\ (i + 1 # 1 => i \in 1..n)
    OBVIOUS
  <2>2. f[i + 1] = IF i + 1 = 1 THEN q[i + 1] ELSE f[(i + 1) - 1] \o q[i + 1]
    BY DEF IsFlat
  <2>3. g[i + 1] = IF i + 1 = 1 THEN p[i + 1] ELSE g[(i + 1) - 1] \o p[i + 1]
    BY <2>1 DEF IsFlat
  <2> QED
    BY <1>2, <2>1, <2>2, <2>3
<1> HIDE DEF N
<1>3. Nat \subseteq N
  BY <1>1, <1>2, NatSet
<1> QED
  BY <1>3 DEF N

(* The last of them is the concatenation of all.                           *)
LEMMA FlatIsLast ==
  ASSUME NEW S, NEW q \in Seq(Seq(S)), q # <<>>
  PROVE  \E f \in [1..Len(q) -> Seq(S)] : IsFlat(q, f, Len(q)) /\ FlattenSeq(q) = f[Len(q)]
<1>1. Len(q) \in Nat \ {0}
  BY EmptySeq, LenProperties
<1>2. PICK f \in [1..Len(q) -> Seq(S)] : IsFlat(q, f, Len(q))
  <2>1. Len(q) \in 0..Len(q)
    BY <1>1
  <2>2. \A n \in 0..Len(q) : \E f \in [1..n -> Seq(S)] : IsFlat(q, f, n)
    BY FlatExists, Zenon
  <2> QED
    BY <2>1, <2>2, Zenon
<1> DEFINE h == CHOOSE h : h = [i \in 1..Len(q) |-> IF i = 1 THEN q[i] ELSE h[i - 1] \o q[i]]
<1>3. IsFlat(q, h, Len(q))
  BY <1>2, Zenon DEF IsFlat
<1>4. FlattenSeq(q) = h[Len(q)]
  BY <1>1 DEF FlattenSeq
<1> HIDE DEF h
<1>5. \A i \in 1..Len(q) : f[i] = h[i]
  <2>1. Len(q) \in Nat /\ Len(q) <= Len(q) /\ Agree(q, q, Len(q))
    BY <1>1 DEF Agree
  <2>2. Agree(f, h, Len(q))
    BY ONLY <1>2, <1>3, <2>1, FlatUnique
  <2> QED
    BY <2>2 DEF Agree
<1>6. FlattenSeq(q) = f[Len(q)]
  BY <1>1, <1>4, <1>5
<1> QED
  BY <1>2, <1>6, Zenon

(* Nothing to concatenate, and one sequence more.                          *)
LEMMA FlatAppend ==
  ASSUME NEW S
  PROVE  /\ FlattenSeq(<<>>) = <<>>
         /\ \A q \in Seq(Seq(S)) : FlattenSeq(q) \in Seq(S)
         /\ \A q \in Seq(Seq(S)), x \in Seq(S) : FlattenSeq(Append(q, x)) = FlattenSeq(q) \o x
<1>1. FlattenSeq(<<>>) = <<>>
  BY EmptySeq DEF FlattenSeq
<1>2. ASSUME NEW q \in Seq(Seq(S))
      PROVE  FlattenSeq(q) \in Seq(S)
  <2>1. CASE q = <<>>
    BY <1>1, <2>1, EmptySeq
  <2>2. CASE q # <<>>
    <3>1. PICK f \in [1..Len(q) -> Seq(S)] : FlattenSeq(q) = f[Len(q)]
      BY <2>2, FlatIsLast
    <3>2. Len(q) \in 1..Len(q)
      BY <2>2, EmptySeq, LenProperties
    <3> QED
      BY <3>1, <3>2
  <2> QED
    BY <2>1, <2>2
<1>3. ASSUME NEW q \in Seq(Seq(S)), NEW x \in Seq(S)
      PROVE  FlattenSeq(Append(q, x)) = FlattenSeq(q) \o x
  <2> DEFINE p == Append(q, x)
             n == Len(q)
  <2>1. /\ p \in Seq(Seq(S)) /\ Len(p) = n + 1 /\ n \in Nat /\ p[n + 1] = x
        /\ \A i \in 1..n : p[i] = q[i]
    BY AppendProperties, LenProperties
  <2>2. p # <<>>
    BY <2>1, EmptySeq
  <2> HIDE DEF p
  <2>3. PICK g \in [1..Len(p) -> Seq(S)] : IsFlat(p, g, Len(p)) /\ FlattenSeq(p) = g[Len(p)]
    BY <2>1, <2>2, FlatIsLast
  <2>4. g[n + 1] = IF n + 1 = 1 THEN p[n + 1] ELSE g[(n + 1) - 1] \o p[n + 1]
    <3>1. n + 1 \in 1..Len(p)
      BY <2>1
    <3>2. \A i \in 1..Len(p) : g[i] = IF i = 1 THEN p[i] ELSE g[i - 1] \o p[i]
      BY <2>3 DEF IsFlat
    <3> QED
      BY <3>1, <3>2, <2>3, Zenon
  <2>5. CASE q = <<>>
    <3>1. n = 0
      BY <2>5, EmptySeq
    <3>2. FlattenSeq(p) = x
      BY <2>1, <2>3, <2>4, <3>1
    <3>3. <<>> \o x = x
      BY ConcatEmptySeq
    <3> QED
      BY <1>1, <2>5, <3>2, <3>3 DEF p
  <2>6. CASE q # <<>>
    <3>1. PICK f \in [1..n -> Seq(S)] : IsFlat(q, f, n) /\ FlattenSeq(q) = f[n]
      BY <2>6, FlatIsLast
    <3>2. n # 0
      BY <2>6, EmptySeq
    <3>3. n + 1 \in Nat /\ n <= n + 1 /\ n \in 1..n /\ (n + 1) - 1 = n /\ n + 1 # 1
      BY <2>1, <3>2
    <3> HIDE DEF n
    <3>4. \A i \in 1..n : f[i] = g[i]
      <4>1. n \in Nat /\ Len(p) \in Nat /\ n <= Len(p) /\ Agree(p, q, n)
        BY <2>1, <3>3 DEF Agree
      <4>2. IsFlat(q, f, n) /\ IsFlat(p, g, Len(p))
        BY <2>3, <3>1
      <4>3. Agree(f, g, n)
        BY ONLY <4>1, <4>2, FlatUnique
      <4> QED
        BY <4>3 DEF Agree
    <3>5. FlattenSeq(p) = g[n] \o x
      BY <2>1, <2>3, <2>4, <3>3
    <3> QED
      BY <3>1, <3>3, <3>4, <3>5 DEF p
  <2> QED
    BY <2>5, <2>6
<1> QED
  BY <1>1, <1>2, <1>3

(* The same with a sequence of one.                                        *)
LEMMA FlatSnoc ==
  ASSUME NEW S, NEW q \in Seq(Seq(S)), NEW x \in Seq(S)
  PROVE  FlattenSeq(q \o <<x>>) = FlattenSeq(q) \o x /\ FlattenSeq(<<x>>) = x
<1>1. Append(q, x) = q \o <<x>>
  BY AppendIsConcat
<1>2. Append(<<>>, x) = <<x>> /\ <<>> \in Seq(Seq(S)) /\ <<>> \o x = x
  BY EmptySeq, ConcatEmptySeq
<1> QED
  BY <1>1, <1>2, FlatAppend

(* q consists of the n elements of r and of x.                             *)
Ends(q, r, x, n) ==
  q = r \o <<x>> /\ Len(r) = n /\ (\A i \in 1..n : q[i] = r[i]) /\ q[n + 1] = x

(* A sequence that is not empty has a last element.                        *)
LEMMA Peeled ==
  ASSUME NEW T, NEW q \in Seq(T), NEW n \in Nat, Len(q) = n + 1
  PROVE  \E r \in Seq(T), x \in T : Ends(q, r, x, n)
<1> DEFINE r == SubSeq(q, 1, n)
<1>1. n + 1 \in 1..Len(q) /\ 1 \in 1..Len(q) /\ (n + 1) - 1 = n /\ q[n + 1] \in T
  BY ElementOfSeq
<1>2. r \in Seq(T) /\ Len(r) = n /\ \A i \in 1..n : q[i] = r[i]
  <2>1. \A i \in 1..n : q[i] \in T
    BY ElementOfSeq
  <2>2. /\ r \in Seq(T) /\ Len(r) = n
        /\ \A i \in 1..((n - 1) + 1) : r[i] = q[(1 + i) - 1]
    BY <2>1, SubSeqProperties
  <2> QED
    BY <2>2
<1>3. r \o <<q[n + 1]>> = q
  <2>1. SubSeq(q, 1, n + 1) = q
    BY SubSeqFull
  <2>2. SubSeq(q, 1, n + 1) = SubSeq(q, 1, (n + 1) - 1) \o <<q[n + 1]>>
    BY <1>1, SubSeqRecursiveSecond
  <2> QED
    BY <1>1, <2>1, <2>2
<1> HIDE DEF r
<1>4. Ends(q, r, q[n + 1], n)
  BY <1>2, <1>3 DEF Ends
<1> QED
  BY <1>1, <1>2, <1>4

(* Concatenation, under a name that the provers do not look into.          *)
Cat(s, t) == s \o t

(* Concatenation is associative.                                           *)
LEMMA CatAssoc ==
  ASSUME NEW S, NEW s \in Seq(S), NEW t \in Seq(S), NEW u \in Seq(S)
  PROVE  Cat(s, Cat(t, u)) = Cat(Cat(s, t), u)
<1>1. (s \o t) \o u = s \o (t \o u)
  BY ONLY ConcatAssociative
<1> QED
  BY ONLY <1>1 DEF Cat

(* The same of flattened sequences.                                        *)
LEMMA FlatAssoc ==
  ASSUME NEW S, NEW p \in Seq(Seq(S)), NEW r \in Seq(Seq(S)), NEW x \in Seq(S)
  PROVE  Cat(FlattenSeq(p), Cat(FlattenSeq(r), x)) = Cat(Cat(FlattenSeq(p), FlattenSeq(r)), x)
<1>1. FlattenSeq(p) \in Seq(S) /\ FlattenSeq(r) \in Seq(S)
  BY FlatAppend
<1>2. \A s, t \in Seq(S) : Cat(s, Cat(t, x)) = Cat(Cat(s, t), x)
  BY ONLY CatAssoc, x \in Seq(S)
<1> QED
  BY ONLY <1>1, <1>2

(* Concatenations are concatenated.                                        *)
LEMMA FlatConcat ==
  ASSUME NEW S, NEW p \in Seq(Seq(S)), NEW q \in Seq(Seq(S))
  PROVE  FlattenSeq(p \o q) = FlattenSeq(p) \o FlattenSeq(q)
<1> DEFINE N == {n \in Nat : \A r \in Seq(Seq(S)) :
                   Len(r) = n => FlattenSeq(p \o r) = FlattenSeq(p) \o FlattenSeq(r)}
<1>1. 0 \in N
  <2> SUFFICES ASSUME NEW r \in Seq(Seq(S)), Len(r) = 0
               PROVE  FlattenSeq(p \o r) = FlattenSeq(p) \o FlattenSeq(r)
    OBVIOUS
  <2>1. r = <<>>
    BY EmptySeq
  <2>2. p \o <<>> = p /\ FlattenSeq(p) \in Seq(S) /\ FlattenSeq(<<>>) = <<>>
    BY ConcatEmptySeq, FlatAppend
  <2>3. FlattenSeq(p) \o <<>> = FlattenSeq(p)
    BY <2>2, ConcatEmptySeq
  <2> QED
    BY <2>1, <2>2, <2>3
<1>2. ASSUME NEW n \in Nat, n \in N
      PROVE  n + 1 \in N
  <2> SUFFICES ASSUME NEW t \in Seq(Seq(S)), Len(t) = n + 1
               PROVE  FlattenSeq(p \o t) = FlattenSeq(p) \o FlattenSeq(t)
    OBVIOUS
  <2>0. PICK r \in Seq(Seq(S)), x \in Seq(S) : Ends(t, r, x, n)
    BY ONLY Peeled, Len(t) = n + 1, t \in Seq(Seq(S)), n \in Nat
  <2>1. t = r \o <<x>> /\ Len(r) = n /\ (\A i \in 1..n : t[i] = r[i]) /\ t[n + 1] = x
    BY <2>0 DEF Ends
  <2>2. /\ p \o r \in Seq(Seq(S)) /\ <<x>> \in Seq(Seq(S))
        /\ p \o t = (p \o r) \o <<x>>
    <3>1. <<x>> \in Seq(Seq(S))
      OBVIOUS
    <3>2. p \o r \in Seq(Seq(S))
      BY ConcatProperties, Zenon
    <3>3. (p \o r) \o <<x>> = p \o (r \o <<x>>)
      <4> DEFINE e == <<x>>
      <4> HIDE DEF e
      <4>1. e \in Seq(Seq(S))
        BY <3>1 DEF e
      <4>2. Cat(p, Cat(r, e)) = Cat(Cat(p, r), e)
        BY ONLY <4>1, CatAssoc, p \in Seq(Seq(S)), r \in Seq(Seq(S))
      <4> QED
        BY ONLY <4>2 DEF Cat, e
    <3> QED
      BY <2>1, <3>1, <3>2, <3>3, Zenon
  <2>3. /\ FlattenSeq(p \o t) = FlattenSeq(p \o r) \o x
        /\ FlattenSeq(t) = FlattenSeq(r) \o x
    <3>1. \A u \in Seq(Seq(S)) : FlattenSeq(u \o <<x>>) = FlattenSeq(u) \o x
      BY FlatSnoc
    <3> QED
      BY <2>1, <2>2, <3>1
  <2>4. FlattenSeq(p \o r) = FlattenSeq(p) \o FlattenSeq(r)
    BY <1>2, <2>1
  <2>5. FlattenSeq(p) \in Seq(S) /\ FlattenSeq(r) \in Seq(S)
    BY FlatAppend
  <2>6. Cat(FlattenSeq(p), Cat(FlattenSeq(r), x)) = Cat(Cat(FlattenSeq(p), FlattenSeq(r)), x)
    BY ONLY FlatAssoc, p \in Seq(Seq(S)), r \in Seq(Seq(S)), x \in Seq(S)
  <2> QED
    BY ONLY <2>3, <2>4, <2>6 DEF Cat
<1> HIDE DEF N
<1>3. Nat \subseteq N
  BY <1>1, <1>2, NatSet
<1>4. Len(q) \in Nat
  BY LenProperties
<1> QED
  BY <1>3, <1>4 DEF N

(* Empty sequences.                                                        *)
LEMMA FlatEmpties ==
  ASSUME NEW S, NEW q \in Seq(Seq(S)), \A i \in 1..Len(q) : q[i] = <<>>
  PROVE  FlattenSeq(q) = <<>>
<1> DEFINE N == {n \in Nat : \A r \in Seq(Seq(S)) :
                   Len(r) = n /\ (\A i \in 1..n : r[i] = <<>>) => FlattenSeq(r) = <<>>}
<1>1. 0 \in N
  BY EmptySeq, FlatAppend
<1>2. ASSUME NEW n \in Nat, n \in N
      PROVE  n + 1 \in N
  <2> SUFFICES ASSUME NEW t \in Seq(Seq(S)), Len(t) = n + 1,
                      \A i \in 1..(n + 1) : t[i] = <<>>
               PROVE  FlattenSeq(t) = <<>>
    OBVIOUS
  <2>0. PICK r \in Seq(Seq(S)), x \in Seq(S) : Ends(t, r, x, n)
    BY ONLY Peeled, Len(t) = n + 1, t \in Seq(Seq(S)), n \in Nat
  <2>1. t = r \o <<x>> /\ Len(r) = n /\ (\A i \in 1..n : t[i] = r[i]) /\ t[n + 1] = x
    BY <2>0 DEF Ends
  <2>4. \A i \in 1..n : r[i] = <<>>
    BY <2>1
  <2>5. x = <<>>
    BY <2>1
  <2>6. FlattenSeq(r) = <<>>
    BY <1>2, <2>1, <2>4
  <2>7. FlattenSeq(t) = <<>> \o <<>>
    BY <2>1, <2>5, <2>6, FlatSnoc
  <2> QED
    BY <2>7, ConcatEmptySeq, EmptySeq
<1> HIDE DEF N
<1>3. Nat \subseteq N
  BY <1>1, <1>2, NatSet
<1>4. Len(q) \in Nat
  BY LenProperties
<1> QED
  BY <1>3, <1>4 DEF N

(* The elements of a sequence.                                             *)
LEMMA InRange ==
  ASSUME NEW S, NEW s \in Seq(S)
  PROVE  /\ \A x : x \in Range(s) <=> \E i \in 1..Len(s) : s[i] = x
         /\ Range(s) \subseteq S /\ Len(s) \in Nat /\ DOMAIN s = 1..Len(s)
  BY LenProperties, ElementOfSeq DEF Range

(* The elements of a flattened sequence.                                   *)
LEMMA FlatRange ==
  ASSUME NEW S, NEW q \in Seq(Seq(S))
  PROVE  Range(FlattenSeq(q)) = UNION {Range(q[i]) : i \in 1..Len(q)}
<1> DEFINE N == {n \in Nat : \A r \in Seq(Seq(S)) :
                   Len(r) = n => Range(FlattenSeq(r)) = UNION {Range(r[i]) : i \in 1..n}}
<1>1. 0 \in N
  <2> SUFFICES ASSUME NEW r \in Seq(Seq(S)), Len(r) = 0
               PROVE  Range(FlattenSeq(r)) = UNION {Range(r[i]) : i \in 1..0}
    OBVIOUS
  <2>1. FlattenSeq(r) = <<>>
    BY EmptySeq, FlatAppend
  <2>2. Range(<<>>) = {}
    BY DEF Range
  <2> QED
    BY <2>1, <2>2
<1>2. ASSUME NEW n \in Nat, n \in N
      PROVE  n + 1 \in N
  <2> SUFFICES ASSUME NEW t \in Seq(Seq(S)), Len(t) = n + 1
               PROVE  Range(FlattenSeq(t)) = UNION {Range(t[i]) : i \in 1..(n + 1)}
    OBVIOUS
  <2>0. PICK r \in Seq(Seq(S)), x \in Seq(S) : Ends(t, r, x, n)
    BY ONLY Peeled, Len(t) = n + 1, t \in Seq(Seq(S)), n \in Nat
  <2>1. t = r \o <<x>> /\ Len(r) = n /\ (\A i \in 1..n : t[i] = r[i]) /\ t[n + 1] = x
    BY <2>0 DEF Ends
  <2>2. Range(FlattenSeq(r)) = UNION {Range(r[i]) : i \in 1..n}
    BY <1>2, <2>1
  <2>3. FlattenSeq(t) = FlattenSeq(r) \o x /\ FlattenSeq(r) \in Seq(S)
    BY <2>1, FlatSnoc, FlatAppend
  <2>4. Range(FlattenSeq(t)) = Range(FlattenSeq(r)) \cup Range(x)
    BY <2>3, RangeConcatenation
  <2>5. \A i \in 1..(n + 1) : i \in 1..n \/ i = n + 1
    OBVIOUS
  <2>6. \A i \in 1..n : i \in 1..(n + 1)
    OBVIOUS
  <2>7. n + 1 \in 1..(n + 1)
    OBVIOUS
  <2>8. ASSUME NEW y
        PROVE  y \in Range(FlattenSeq(t)) <=> \E i \in 1..(n + 1) : y \in Range(t[i])
    <3>1. y \in Range(FlattenSeq(t)) <=> (\E i \in 1..n : y \in Range(r[i])) \/ y \in Range(x)
      BY ONLY <2>2, <2>4
    <3>2. (\E i \in 1..(n + 1) : y \in Range(t[i]))
            <=> (\E i \in 1..n : y \in Range(t[i])) \/ y \in Range(t[n + 1])
      BY ONLY <2>5, <2>6, <2>7
    <3>3. (\E i \in 1..n : y \in Range(t[i])) <=> (\E i \in 1..n : y \in Range(r[i]))
      BY <2>1
    <3> QED
      BY <2>1, <3>1, <3>2, <3>3
  <2> QED
    BY ONLY <2>8
<1> HIDE DEF N
<1>3. Nat \subseteq N
  BY <1>1, <1>2, NatSet
<1>4. Len(q) \in Nat
  BY LenProperties
<1> QED
  BY <1>3, <1>4 DEF N

(* Empty sequences at the end add nothing.                                 *)
LEMMA FlatLast ==
  ASSUME NEW S, NEW f \in Seq(Seq(S)), NEW k \in 1..Len(f),
         \A i \in (k + 1)..Len(f) : f[i] = <<>>
  PROVE  FlattenSeq(f) = FlattenSeq(SubSeq(f, 1, k - 1)) \o f[k]
<1> DEFINE n == Len(f)
           p == SubSeq(f, 1, k - 1)
           b == SubSeq(f, 1, k)
           e == SubSeq(f, k + 1, n)
<1>1. n \in Nat /\ k \in Nat /\ \A i \in 1..n : f[i] \in Seq(S)
  BY LenProperties, ElementOfSeq
<1>2. p \in Seq(Seq(S)) /\ b \in Seq(Seq(S))
  BY <1>1, SubSeqProperties
<1>3. e \in Seq(Seq(S)) /\ \A i \in 1..Len(e) : e[i] = <<>>
  <2>1. k + 1 \in Int /\ \A i \in (k + 1)..n : f[i] \in Seq(S)
    BY <1>1
  <2>2. /\ e \in Seq(Seq(S))
        /\ Len(e) = IF k + 1 <= n THEN (n - (k + 1)) + 1 ELSE 0
        /\ \A i \in 1..((n - (k + 1)) + 1) : e[i] = f[((k + 1) + i) - 1]
    BY <1>1, <2>1, SubSeqProperties
  <2> HIDE DEF e
  <2>3. ASSUME NEW i \in 1..Len(e)
        PROVE  e[i] = <<>>
    <3>1. i \in 1..((n - (k + 1)) + 1) /\ ((k + 1) + i) - 1 \in (k + 1)..n
      BY <1>1, <2>2
    <3> QED
      BY <2>2, <3>1
  <2> QED
    BY <2>2, <2>3
<1>4. b \o e = f
  <2>1. 1 \in 1..(n + 1) /\ k \in (1 - 1)..n /\ n \in k..n
    BY <1>1
  <2>2. SubSeq(f, 1, k) \o SubSeq(f, k + 1, n) = SubSeq(f, 1, n)
    BY <2>1, ConcatAdjacentSubSeq
  <2> QED
    BY <2>2, SubSeqFull
<1>5. b = p \o <<f[k]>>
  <2>1. 1 \in 1..n /\ k \in 1..n
    BY <1>1
  <2> QED
    BY <2>1, SubSeqRecursiveSecond
<1> HIDE DEF p, b, e
<1>6. FlattenSeq(e) = <<>>
  BY ONLY <1>3, FlatEmpties
<1>7. FlattenSeq(b \o e) = FlattenSeq(b) \o FlattenSeq(e)
  BY ONLY <1>2, <1>3, FlatConcat
<1>8. FlattenSeq(b) = FlattenSeq(p) \o f[k]
  BY <1>1, <1>2, <1>5, FlatSnoc
<1>9. FlattenSeq(b) \o <<>> = FlattenSeq(b)
  BY <1>2, FlatAppend, ConcatEmptySeq
<1> QED
  BY <1>4, <1>6, <1>7, <1>8, <1>9 DEF p

(* A concatenation is ascending if its parts are, one below the other.     *)
LEMMA ConcatAscending ==
  ASSUME NEW s \in Seq(Nat), NEW t \in Seq(Nat)
  PROVE  Ascending(s \o t) <=> /\ Ascending(s) /\ Ascending(t)
                               /\ \A x \in Range(s), y \in Range(t) : x < y
<1> DEFINE m == Len(s)  n == Len(t)  u == s \o t
<1>1. /\ m \in Nat /\ n \in Nat
      /\ \A i \in 1..(m + n) : u[i] = IF i <= m THEN s[i] ELSE t[i - m]
      /\ DOMAIN s = 1..m /\ DOMAIN t = 1..n /\ DOMAIN u = 1..(m + n)
  <2>1. u \in Seq(Nat) /\ Len(u) = m + n
    BY ConcatProperties
  <2>2. DOMAIN u = 1..Len(u)
    BY <2>1, LenProperties
  <2> QED
    BY <2>1, <2>2, ConcatProperties, LenProperties
<1>2. /\ \A x : x \in Range(s) <=> \E i \in 1..m : s[i] = x
      /\ \A x : x \in Range(t) <=> \E i \in 1..n : t[i] = x
  BY InRange
<1> HIDE DEF u, m, n
<1>3. \A i \in 1..m : i \in 1..(m + n) /\ u[i] = s[i]
  BY <1>1
<1>4. \A i \in 1..n : i + m \in 1..(m + n) /\ u[i + m] = t[i]
  BY <1>1
<1>5. ASSUME Ascending(u)
      PROVE  /\ Ascending(s) /\ Ascending(t)
             /\ \A x \in Range(s), y \in Range(t) : x < y
  <2>1. Ascending(s)
    BY <1>1, <1>3, <1>5 DEF Ascending
  <2>2. Ascending(t)
    <3> SUFFICES ASSUME NEW i \in 1..n, NEW j \in 1..n, i < j
                 PROVE  t[i] < t[j]
      BY <1>1 DEF Ascending
    <3>1. i + m < j + m /\ i + m \in DOMAIN u /\ j + m \in DOMAIN u
      BY <1>1, <1>4
    <3>2. u[i + m] < u[j + m]
      BY <1>5, <3>1 DEF Ascending
    <3> QED
      BY <1>4, <3>2
  <2>3. ASSUME NEW i \in 1..m, NEW j \in 1..n
        PROVE  s[i] < t[j]
    <3>1. i < j + m /\ i \in DOMAIN u /\ j + m \in DOMAIN u
      BY <1>1, <1>3, <1>4
    <3>2. u[i] < u[j + m]
      BY <1>5, <3>1 DEF Ascending
    <3> QED
      BY <1>3, <1>4, <3>2
  <2> QED
    BY <1>2, <2>1, <2>2, <2>3
<1>6. ASSUME Ascending(s), Ascending(t), \A x \in Range(s), y \in Range(t) : x < y
      PROVE  Ascending(u)
  <2> SUFFICES ASSUME NEW i \in 1..(m + n), NEW j \in 1..(m + n), i < j
               PROVE  u[i] < u[j]
    BY <1>1 DEF Ascending
  <2>1. CASE j <= m
    <3>1. i \in DOMAIN s /\ j \in DOMAIN s /\ u[i] = s[i] /\ u[j] = s[j]
      BY <1>1, <2>1
    <3> QED
      BY <1>6, <3>1 DEF Ascending
  <2>2. CASE ~(i <= m)
    <3>0. m \in Nat /\ n \in Nat
      BY <1>1
    <3>1. i - m \in 1..n /\ j - m \in 1..n /\ i - m < j - m /\ ~(j <= m)
      BY ONLY <2>2, <3>0, i \in 1..(m + n), j \in 1..(m + n), i < j
    <3>2. u[i] = t[i - m] /\ u[j] = t[j - m] /\ DOMAIN t = 1..n
      BY <1>1, <2>2, <3>1
    <3> QED
      BY <1>6, <3>1, <3>2 DEF Ascending
  <2>3. CASE i <= m /\ ~(j <= m)
    <3>1. i \in 1..m /\ j - m \in 1..n /\ u[i] = s[i] /\ u[j] = t[j - m]
      BY <1>1, <2>3
    <3> QED
      BY <1>2, <1>6, <3>1
  <2> QED
    BY <2>1, <2>2, <2>3
<1> QED
  BY <1>5, <1>6 DEF u

-----------------------------------------------------------------------------
(* The log is complete.                                                    *)

Complete(log, n, gone) == Ascending(log) /\ Range(log) = (1..n) \ gone

(* What is left of buffersToWrite, and what waits in the front end.        *)
ToWrite == SubSeq(buffersToWrite, written + 1, Len(buffersToWrite))
Waiting == FlattenSeq(buffers_ \o currentBuffer_)

LogTypes ==
  /\ written \in 0..Len(buffersToWrite)
  /\ logFile \in Seq(Nat) /\ syncLog \in Seq(Nat)
  /\ second \in Seconds /\ archive \in [Seconds -> Seq(Seq(Nat))]
  /\ lost \subseteq 1..appended

(* Files have been rolled up to now only; buffers are written one by one   *)
(* only in the loop; the Logger writes lines itself only at last.          *)
WriteInv ==
  /\ \A s \in Seconds : s > second => archive[s] = <<>>
  /\ bpc # "write" => written = 0
  /\ bpc = "flush" => buffersToWrite = <<>>
  /\ spc # "disabled" => syncLog = <<>>

IsLog(s) == s \in Seq(Nat)

(* Concatenations of logs.                                                 *)
LEMMA CatLogs ==
  /\ \A s, t, u : IsLog(s) /\ IsLog(t) /\ IsLog(u) => Cat(s, Cat(t, u)) = Cat(Cat(s, t), u)
  /\ \A s, t : IsLog(s) /\ IsLog(t) => IsLog(Cat(s, t))
  /\ \A s : IsLog(s) => Cat(s, <<>>) = s /\ Cat(<<>>, s) = s
  /\ IsLog(<<>>)
<1>1. ASSUME NEW s, NEW t, NEW u, IsLog(s), IsLog(t), IsLog(u)
      PROVE  Cat(s, Cat(t, u)) = Cat(Cat(s, t), u)
  <2>1. s \in Seq(Nat) /\ t \in Seq(Nat) /\ u \in Seq(Nat)
    BY <1>1 DEF IsLog
  <2> QED
    BY ONLY <2>1, CatAssoc
<1>2. ASSUME NEW s, NEW t, IsLog(s), IsLog(t)
      PROVE  IsLog(Cat(s, t))
  BY <1>2, ConcatProperties DEF IsLog, Cat
<1>3. ASSUME NEW s, IsLog(s)
      PROVE  Cat(s, <<>>) = s /\ Cat(<<>>, s) = s
  BY <1>3, ConcatEmptySeq DEF IsLog, Cat
<1>4. IsLog(<<>>)
  BY EmptySeq DEF IsLog
<1> QED
  BY <1>1, <1>2, <1>3, <1>4

(* Their lines and their order.                                            *)
LEMMA CatLines ==
  ASSUME NEW s, NEW t, IsLog(s), IsLog(t)
  PROVE  /\ Range(Cat(s, t)) = Range(s) \cup Range(t)
         /\ Ascending(Cat(s, t)) <=> /\ Ascending(s) /\ Ascending(t)
                                     /\ \A x \in Range(s), y \in Range(t) : x < y
         /\ Range(s) \subseteq Nat /\ Range(t) \subseteq Nat
<1>1. s \in Seq(Nat) /\ t \in Seq(Nat)
  BY DEF IsLog
<1>2. Range(s \o t) = Range(s) \cup Range(t)
  BY ONLY <1>1, RangeConcatenation
<1>3. Ascending(s \o t) <=> /\ Ascending(s) /\ Ascending(t)
                            /\ \A x \in Range(s), y \in Range(t) : x < y
  BY ONLY <1>1, ConcatAscending
<1>4. Range(s) \subseteq Nat /\ Range(t) \subseteq Nat
  BY <1>1, InRange
<1> QED
  BY ONLY <1>2, <1>3, <1>4 DEF Cat

(* Regrouping.                                                             *)
LEMMA Regroup ==
  ASSUME NEW a, NEW l, NEW x, NEW r, IsLog(a), IsLog(l), IsLog(x), IsLog(r)
  PROVE  /\ Cat(a, Cat(l, r)) = Cat(Cat(a, l), r)
         /\ Cat(a, Cat(l, Cat(x, r))) = Cat(a, Cat(Cat(l, x), r))
         /\ Cat(a, Cat(l, Cat(x, r))) = Cat(Cat(a, Cat(l, x)), r)
         /\ Cat(a, Cat(l, Cat(x, r))) = Cat(Cat(a, l), Cat(x, r))
<1>1. IsLog(Cat(l, x)) /\ IsLog(Cat(x, r))
  BY CatLogs
<1> QED
  BY <1>1, CatLogs

(* A new line is the last one.                                             *)
LEMMA CompleteAppend ==
  ASSUME NEW n \in Nat, NEW gone \in SUBSET (1..n), NEW log, IsLog(log), Complete(log, n, gone)
  PROVE  Complete(Cat(log, <<n + 1>>), n + 1, gone)
<1>1. IsLog(<<n + 1>>) /\ Range(<<n + 1>>) = {n + 1} /\ Ascending(<<n + 1>>)
  BY DEF Range, Ascending, IsLog
<1> DEFINE e == <<n + 1>>
<1> HIDE DEF e
<1>2. IsLog(e) /\ Range(e) = {n + 1} /\ Ascending(e)
  BY <1>1 DEF e
<1>3. \A x \in Range(log) : x < n + 1
  BY DEF Complete
<1>4. Ascending(Cat(log, e)) /\ Range(Cat(log, e)) = Range(log) \cup {n + 1}
  BY <1>2, <1>3, CatLines DEF Complete
<1>5. Range(log) \cup {n + 1} = (1..(n + 1)) \ gone
  BY DEF Complete
<1> QED
  BY <1>4, <1>5 DEF Complete, e

(* Lines that are given up.                                                *)
LEMMA CompleteCut ==
  ASSUME NEW n \in Nat, NEW gone, NEW s, NEW x, NEW t, IsLog(s), IsLog(x), IsLog(t),
         Complete(Cat(s, Cat(x, t)), n, gone)
  PROVE  Complete(Cat(s, t), n, gone \cup Range(x)) /\ Range(x) \subseteq 1..n
<1>0. IsLog(Cat(x, t))
  BY CatLogs
<1>1. /\ Range(Cat(x, t)) = Range(x) \cup Range(t)
      /\ Range(Cat(s, Cat(x, t))) = Range(s) \cup Range(Cat(x, t))
      /\ Range(Cat(s, t)) = Range(s) \cup Range(t)
      /\ Range(s) \subseteq Nat /\ Range(t) \subseteq Nat /\ Range(x) \subseteq Nat
  BY <1>0, CatLines
<1>2. /\ Ascending(s) /\ Ascending(Cat(x, t))
      /\ \A y \in Range(s), z \in Range(Cat(x, t)) : y < z
  BY <1>0, CatLines DEF Complete
<1>3. Ascending(t) /\ \A y \in Range(x), z \in Range(t) : y < z
  BY <1>2, CatLines
<1>4. \A y \in Range(s), z \in Range(x) \cup Range(t) : y < z
  BY <1>1, <1>2
<1>5. Ascending(Cat(s, t))
  BY <1>2, <1>3, <1>4, CatLines
<1>6. \A y \in Range(s) \cup Range(t) : y \notin Range(x)
  BY <1>1, <1>3, <1>4
<1>7. Range(s) \cup Range(x) \cup Range(t) = (1..n) \ gone
  BY <1>1 DEF Complete
<1>8. Range(s) \cup Range(t) = (1..n) \ (gone \cup Range(x))
  BY <1>6, <1>7
<1> QED
  BY <1>1, <1>5, <1>7, <1>8 DEF Complete

(* The logs that buffers hold.                                             *)
LEMMA FlatLogs ==
  /\ \A q \in Buffers : IsLog(FlattenSeq(q))
  /\ \A p, q \in Buffers : p \o q \in Buffers /\ FlattenSeq(p \o q) = Cat(FlattenSeq(p), FlattenSeq(q))
  /\ \A x : IsLog(x) => <<x>> \in Buffers /\ FlattenSeq(<<x>>) = x
  /\ FlattenSeq(<<>>) = <<>> /\ <<>> \in Buffers
<1>1. ASSUME NEW q \in Buffers
      PROVE  IsLog(FlattenSeq(q))
  BY FlatAppend DEF Buffers, IsLog
<1>2. ASSUME NEW p \in Buffers, NEW q \in Buffers
      PROVE  p \o q \in Buffers /\ FlattenSeq(p \o q) = Cat(FlattenSeq(p), FlattenSeq(q))
  <2>1. p \in Seq(Seq(Nat)) /\ q \in Seq(Seq(Nat))
    BY DEF Buffers
  <2>2. FlattenSeq(p \o q) = FlattenSeq(p) \o FlattenSeq(q)
    BY ONLY <2>1, FlatConcat
  <2>3. p \o q \in Seq(Seq(Nat))
    BY ONLY <2>1, ConcatProperties
  <2> QED
    BY ONLY <2>2, <2>3 DEF Cat, Buffers
<1>3. ASSUME NEW x, IsLog(x)
      PROVE  <<x>> \in Buffers /\ FlattenSeq(<<x>>) = x
  <2>1. x \in Seq(Nat) /\ <<>> \in Seq(Seq(Nat))
    BY <1>3, EmptySeq DEF IsLog
  <2>2. FlattenSeq(<<x>>) = x
    BY ONLY <2>1, FlatSnoc
  <2> QED
    BY <2>1, <2>2 DEF Buffers
<1>4. FlattenSeq(<<>>) = <<>> /\ <<>> \in Buffers
  BY FlatAppend, EmptySeq DEF Buffers
<1> QED
  BY <1>1, <1>2, <1>3, <1>4

(* The rolled files of each second.                                        *)
Rolled == [i \in 1..(MaxSecond + 1) |-> FlattenSeq(archive[i - 1])]

(* They are logs, one for each second.                                     *)
LEMMA RolledType ==
  ASSUME archive \in [Seconds -> Seq(Seq(Nat))]
  PROVE  /\ Rolled \in Seq(Seq(Nat)) /\ Len(Rolled) = MaxSecond + 1
         /\ \A i \in 1..(MaxSecond + 1) : Rolled[i] = FlattenSeq(archive[i - 1])
         /\ IsLog(Archived)
<1>1. MaxSecond + 1 \in Nat /\ \A i \in 1..(MaxSecond + 1) : i - 1 \in Seconds
  BY LogSizesAssumption DEF Seconds
<1>2. \A i \in 1..(MaxSecond + 1) : FlattenSeq(archive[i - 1]) \in Seq(Nat)
  BY <1>1, FlatAppend
<1>3. Rolled \in [1..(MaxSecond + 1) -> Seq(Nat)]
  BY <1>2 DEF Rolled
<1>4. Rolled \in Seq(Seq(Nat)) /\ Len(Rolled) = MaxSecond + 1
  BY <1>1, <1>2, <1>3, LogSizesAssumption DEF Rolled
<1>5. Archived = FlattenSeq(Rolled)
  BY DEF Archived, Rolled
<1>6. IsLog(Archived)
  BY <1>4, <1>5, FlatLogs DEF Buffers
<1> QED
  BY <1>4, <1>6 DEF Rolled

(* A file that is rolled comes after all the others.                       *)
LEMMA RollArchive ==
  ASSUME archive \in [Seconds -> Seq(Seq(Nat))], second \in Seconds, IsLog(logFile),
         \A s \in Seconds : s > second => archive[s] = <<>>,
         RollFile
  PROVE  /\ archive' \in [Seconds -> Seq(Seq(Nat))]
         /\ \A s \in Seconds : s > second => archive'[s] = <<>>
         /\ Archived' = Cat(Archived, logFile)
<1> DEFINE k == second + 1
<1>1. /\ k \in 1..(MaxSecond + 1) /\ k \in Nat /\ MaxSecond \in Nat
      /\ \A i \in 1..(MaxSecond + 1) : i - 1 \in Seconds
  BY LogSizesAssumption DEF Seconds
<1>2. Append(archive[second], logFile) \in Seq(Seq(Nat))
  BY AppendProperties DEF IsLog
<1>3. archive' = [archive EXCEPT ![second] = Append(archive[second], logFile)]
  BY DEF RollFile
<1>4. archive' \in [Seconds -> Seq(Seq(Nat))]
  BY <1>2, <1>3
<1>5. \A s \in Seconds : s > second => archive'[s] = <<>>
  BY <1>3 DEF Seconds
<1> DEFINE R == Rolled
           T == Rolled'
<1>6. /\ R \in Seq(Seq(Nat)) /\ Len(R) = MaxSecond + 1 /\ Archived = FlattenSeq(R)
      /\ \A i \in 1..(MaxSecond + 1) : R[i] = FlattenSeq(archive[i - 1])
  <2>1. Archived = FlattenSeq(R)
    BY DEF Archived, Rolled
  <2> QED
    BY <2>1, RolledType
<1>7. /\ T \in Seq(Seq(Nat)) /\ Len(T) = MaxSecond + 1 /\ Archived' = FlattenSeq(T)
      /\ \A i \in 1..(MaxSecond + 1) : T[i] = FlattenSeq(archive'[i - 1])
  <2>1. Archived' = FlattenSeq(T)
    BY DEF Archived, Rolled
  <2>2. ASSUME archive' \in [Seconds -> Seq(Seq(Nat))]
        PROVE  /\ Rolled' \in Seq(Seq(Nat)) /\ Len(Rolled') = MaxSecond + 1
               /\ \A i \in 1..(MaxSecond + 1) : Rolled'[i] = FlattenSeq(archive'[i - 1])
    <3>1. \A i \in 1..(MaxSecond + 1) : FlattenSeq(archive'[i - 1]) \in Seq(Nat)
      BY <1>1, <2>2, FlatAppend
    <3>2. Rolled' \in [1..(MaxSecond + 1) -> Seq(Nat)]
      BY <3>1 DEF Rolled
    <3> QED
      BY <1>1, <3>2 DEF Rolled
  <2> QED
    BY <1>4, <2>1, <2>2
<1>8. \A i \in 1..(MaxSecond + 1) : i # k => T[i] = R[i]
  <2> SUFFICES ASSUME NEW i \in 1..(MaxSecond + 1), i # k
               PROVE  archive'[i - 1] = archive[i - 1]
    BY <1>6, <1>7
  <2>1. i - 1 # second /\ i - 1 \in Seconds
    BY <1>1 DEF Seconds
  <2> QED
    BY <1>3, <2>1
<1>9. T[k] = R[k] \o logFile
  <2>1. k - 1 = second /\ archive'[second] = Append(archive[second], logFile)
    BY <1>3 DEF Seconds
  <2>2. FlattenSeq(Append(archive[second], logFile)) = FlattenSeq(archive[second]) \o logFile
    BY FlatAppend DEF IsLog
  <2> QED
    BY <1>1, <1>6, <1>7, <2>1, <2>2
<1>10. \A i \in (k + 1)..(MaxSecond + 1) : R[i] = <<>> /\ T[i] = <<>>
  <2> SUFFICES ASSUME NEW i \in (k + 1)..(MaxSecond + 1)
               PROVE  R[i] = <<>> /\ T[i] = <<>>
    OBVIOUS
  <2>1. i \in 1..(MaxSecond + 1) /\ i # k /\ i - 1 \in Seconds /\ i - 1 > second
    BY <1>1 DEF Seconds
  <2> QED
    BY <1>6, <1>8, <2>1, FlatLogs
<1> HIDE DEF R, T, k
<1>11. FlattenSeq(R) = FlattenSeq(SubSeq(R, 1, k - 1)) \o R[k]
  BY ONLY <1>1, <1>6, <1>10, FlatLast
<1>12. FlattenSeq(T) = FlattenSeq(SubSeq(T, 1, k - 1)) \o T[k]
  BY ONLY <1>1, <1>7, <1>10, FlatLast
<1>13. SubSeq(T, 1, k - 1) = SubSeq(R, 1, k - 1) /\ SubSeq(R, 1, k - 1) \in Buffers
  <2>1. \A i \in 1..(k - 1) : R[i] \in Seq(Nat) /\ T[i] \in Seq(Nat) /\ R[i] = T[i]
    <3>1. \A i \in 1..(k - 1) : i \in 1..(MaxSecond + 1) /\ i # k
      BY <1>1
    <3> QED
      BY <1>6, <1>7, <1>8, <3>1, ElementOfSeq
  <2>2. k - 1 \in Int
    BY <1>1
  <2>3. /\ SubSeq(R, 1, k - 1) \in Seq(Seq(Nat))
        /\ Len(SubSeq(R, 1, k - 1)) = IF 1 <= k - 1 THEN ((k - 1) - 1) + 1 ELSE 0
        /\ \A i \in 1..(((k - 1) - 1) + 1) : SubSeq(R, 1, k - 1)[i] = R[(1 + i) - 1]
    BY <2>1, <2>2, SubSeqProperties
  <2>4. /\ SubSeq(T, 1, k - 1) \in Seq(Seq(Nat))
        /\ Len(SubSeq(T, 1, k - 1)) = IF 1 <= k - 1 THEN ((k - 1) - 1) + 1 ELSE 0
        /\ \A i \in 1..(((k - 1) - 1) + 1) : SubSeq(T, 1, k - 1)[i] = T[(1 + i) - 1]
    BY <2>1, <2>2, SubSeqProperties
  <2>5. ASSUME NEW i \in 1..Len(SubSeq(R, 1, k - 1))
        PROVE  SubSeq(R, 1, k - 1)[i] = SubSeq(T, 1, k - 1)[i]
    <3>1. i \in 1..(((k - 1) - 1) + 1) /\ (1 + i) - 1 = i /\ i \in 1..(k - 1)
      BY <1>1, <2>3
    <3> QED
      BY <2>1, <2>3, <2>4, <3>1
  <2> QED
    BY <2>3, <2>4, <2>5, SeqEqual DEF Buffers
<1>14. IsLog(FlattenSeq(SubSeq(R, 1, k - 1))) /\ IsLog(R[k])
  BY <1>1, <1>6, <1>13, FlatLogs, ElementOfSeq DEF IsLog
<1>15. Cat(FlattenSeq(SubSeq(R, 1, k - 1)), Cat(R[k], logFile))
         = Cat(Cat(FlattenSeq(SubSeq(R, 1, k - 1)), R[k]), logFile)
  BY <1>14, CatLogs
<1>16. Archived' = Cat(Archived, logFile)
  BY ONLY <1>6, <1>7, <1>9, <1>11, <1>12, <1>13, <1>15 DEF Cat
<1> QED
  BY <1>4, <1>5, <1>16

(* What the back end has taken and not yet written, and the whole log.     *)
Pending == FlattenSeq(ToWrite)
Whole == Cat(Archived, Cat(logFile, Cat(Pending, Cat(Waiting, syncLog))))

LogInv == LogTypes /\ WriteInv /\ Complete(Whole, appended, lost)

(* Its parts are logs.                                                     *)
LEMMA Parts ==
  ASSUME Types, LogTypes
  PROVE  /\ IsLog(Archived) /\ IsLog(logFile) /\ IsLog(Pending) /\ IsLog(Waiting)
         /\ IsLog(syncLog) /\ ToWrite \in Buffers
<1>1. IsLog(Archived) /\ IsLog(logFile) /\ IsLog(syncLog)
  BY RolledType DEF LogTypes, IsLog
<1>2. ToWrite \in Buffers
  <2>1. buffersToWrite \in Seq(Seq(Nat)) /\ Len(buffersToWrite) \in Nat
    BY LenProperties DEF Types, Buffers
  <2>2. written + 1 \in Int /\ written + 1 >= 1
    BY <2>1 DEF LogTypes
  <2>3. \A i \in (written + 1)..Len(buffersToWrite) : buffersToWrite[i] \in Seq(Nat)
    BY <2>1, <2>2, ElementOfSeq
  <2> QED
    BY <2>1, <2>2, <2>3, SubSeqProperties DEF ToWrite, Buffers
<1>3. IsLog(Pending)
  BY <1>2, FlatLogs DEF Pending
<1>4. IsLog(Waiting)
  BY FlatLogs DEF Waiting, Types
<1> QED
  BY <1>1, <1>2, <1>3, <1>4

(* A current buffer without lines.                                         *)
LEMMA EmptyPointer ==
  ASSUME Types, ~HasLines(currentBuffer_)
  PROVE  FlattenSeq(currentBuffer_) = <<>>
<1>1. currentBuffer_ \in Buffers /\ Len(currentBuffer_) <= 1
  BY DEF Types
<1>2. CASE currentBuffer_ = Null
  BY <1>2, FlatLogs DEF Null
<1>3. CASE currentBuffer_ # Null
  <2>1. currentBuffer_[1] = <<>> /\ Len(currentBuffer_) >= 1
    BY <1>1, <1>3, HeldBuffer DEF HasLines
  <2>2. Len(currentBuffer_) = 1
    <3> DEFINE n == Len(currentBuffer_)
    <3>1. n \in Nat /\ n <= 1 /\ n >= 1
      BY <1>1, <2>1, LenProperties DEF Buffers
    <3> HIDE DEF n
    <3>2. n = 1
      BY ONLY <3>1
    <3> QED
      BY <3>2 DEF n
  <2>3. currentBuffer_ = <<currentBuffer_[1]>>
    BY <1>1, <2>2 DEF Buffers
  <2> QED
    BY <2>1, <2>3, FlatLogs, CatLogs
<1> QED
  BY <1>2, <1>3

(* What waits in the front end is what the back end would find there.      *)
LEMMA WaitingIsPushed ==
  ASSUME Types
  PROVE  FlattenSeq(Pushed) = Waiting
<1>1. buffers_ \in Buffers /\ currentBuffer_ \in Buffers
  BY DEF Types
<1>2. CASE HasLines(currentBuffer_)
  BY <1>2 DEF Pushed, Waiting
<1>3. CASE ~HasLines(currentBuffer_)
  <2>1. FlattenSeq(currentBuffer_) = <<>>
    BY <1>3, EmptyPointer
  <2>2. Waiting = Cat(FlattenSeq(buffers_), <<>>)
    BY <1>1, <2>1, FlatLogs DEF Waiting
  <2>3. Pushed = buffers_ /\ IsLog(FlattenSeq(buffers_))
    BY <1>1, <1>3, FlatLogs DEF Pushed
  <2> QED
    BY <2>2, <2>3, CatLogs
<1> QED
  BY <1>2, <1>3

(* The log that LogComplete speaks of is the whole log.                    *)
LEMMA WholeLog ==
  ASSUME Types, LogTypes, Complete(Whole, appended, lost)
  PROVE  LogComplete
<1> DEFINE A == Archived  L == logFile  P == Pending  W == Waiting  Y == syncLog
<1>1. /\ IsLog(A) /\ IsLog(L) /\ IsLog(P) /\ IsLog(W) /\ IsLog(Y)
      /\ ToWrite \in Buffers /\ buffers_ \in Buffers /\ currentBuffer_ \in Buffers
  BY Parts DEF Types
<1>2. Unwritten = Cat(P, W)
  <2>1. Unwritten = FlattenSeq((ToWrite \o buffers_) \o currentBuffer_)
    BY DEF Unwritten, ToWrite
  <2>2. Cat(ToWrite, Cat(buffers_, currentBuffer_)) = Cat(Cat(ToWrite, buffers_), currentBuffer_)
    <3>1. /\ ToWrite \in Seq(Seq(Nat)) /\ buffers_ \in Seq(Seq(Nat))
          /\ currentBuffer_ \in Seq(Seq(Nat))
      BY <1>1 DEF Buffers
    <3> QED
      BY ONLY <3>1, CatAssoc
  <2>3. (ToWrite \o buffers_) \o currentBuffer_ = ToWrite \o (buffers_ \o currentBuffer_)
    BY ONLY <2>2 DEF Cat
  <2>4. FlattenSeq(ToWrite \o (buffers_ \o currentBuffer_)) = Cat(P, W)
    <3>1. buffers_ \o currentBuffer_ \in Buffers
      BY <1>1, FlatLogs
    <3> QED
      BY <1>1, <3>1, FlatLogs DEF Pending, Waiting
  <2> QED
    BY ONLY <2>1, <2>3, <2>4
<1>3. InFiles \o Unwritten \o syncLog = Cat(Cat(Cat(A, L), Unwritten), Y)
  BY DEF InFiles, Cat
<1>4. LogComplete <=> Complete(Cat(Cat(Cat(A, L), Cat(P, W)), Y), appended, lost)
  BY ONLY <1>2, <1>3 DEF LogComplete, Complete
<1>5. Whole = Cat(A, Cat(L, Cat(P, Cat(W, Y))))
  BY DEF Whole
<1> HIDE DEF A, L, P, W, Y
<1>6. IsLog(Cat(A, L)) /\ IsLog(Cat(P, W)) /\ IsLog(Cat(W, Y)) /\ IsLog(Cat(P, Cat(W, Y)))
  BY <1>1, CatLogs
<1>7. Cat(P, Cat(W, Y)) = Cat(Cat(P, W), Y)
  BY <1>1, CatLogs
<1>8. Cat(A, Cat(L, Cat(P, Cat(W, Y)))) = Cat(Cat(A, L), Cat(Cat(P, W), Y))
  BY <1>1, <1>6, <1>7, CatLogs
<1>9. Cat(Cat(A, L), Cat(Cat(P, W), Y)) = Cat(Cat(Cat(A, L), Cat(P, W)), Y)
  BY <1>1, <1>6, CatLogs
<1> QED
  BY <1>4, <1>5, <1>8, <1>9

(* A line at the end.                                                      *)
LEMMA AtTheEnd ==
  ASSUME NEW a, NEW l, NEW p, NEW w, NEW e,
         IsLog(a), IsLog(l), IsLog(p), IsLog(w), IsLog(e)
  PROVE  Cat(Cat(a, Cat(l, Cat(p, w))), e) = Cat(a, Cat(l, Cat(p, Cat(w, e))))
<1>1. IsLog(Cat(p, w)) /\ IsLog(Cat(l, Cat(p, w)))
  BY CatLogs
<1>2. Cat(Cat(a, Cat(l, Cat(p, w))), e) = Cat(a, Cat(Cat(l, Cat(p, w)), e))
  BY <1>1, CatLogs
<1>3. Cat(Cat(l, Cat(p, w)), e) = Cat(l, Cat(Cat(p, w), e))
  BY <1>1, CatLogs
<1>4. Cat(Cat(p, w), e) = Cat(p, Cat(w, e))
  BY CatLogs
<1> QED
  BY ONLY <1>2, <1>3, <1>4

(* The back end takes over what waits, or keeps only the first part of it. *)
LEMMA TakenOver ==
  ASSUME NEW a, NEW l, NEW k, NEW d, NEW s,
         IsLog(a), IsLog(l), IsLog(k), IsLog(d), IsLog(s)
  PROVE  /\ Cat(a, Cat(l, Cat(<<>>, Cat(k, s)))) = Cat(a, Cat(l, Cat(k, Cat(<<>>, s))))
         /\ Cat(a, Cat(l, Cat(<<>>, Cat(Cat(k, d), s)))) = Cat(Cat(a, Cat(l, k)), Cat(d, s))
         /\ Cat(a, Cat(l, Cat(k, Cat(<<>>, s)))) = Cat(Cat(a, Cat(l, k)), s)
<1>1. Cat(<<>>, s) = s /\ Cat(<<>>, Cat(k, s)) = Cat(k, s)
  BY CatLogs
<1>2. Cat(a, Cat(l, Cat(k, s))) = Cat(Cat(a, Cat(l, k)), s)
  BY ONLY Regroup, IsLog(a), IsLog(l), IsLog(k), IsLog(s)
<1>3. IsLog(Cat(d, s)) /\ IsLog(Cat(Cat(k, d), s)) /\ Cat(Cat(k, d), s) = Cat(k, Cat(d, s))
  BY CatLogs
<1>4. Cat(a, Cat(l, Cat(k, Cat(d, s)))) = Cat(Cat(a, Cat(l, k)), Cat(d, s))
  BY ONLY Regroup, <1>3, IsLog(a), IsLog(l), IsLog(k)
<1>5. Cat(<<>>, Cat(Cat(k, d), s)) = Cat(k, Cat(d, s))
  BY <1>3, CatLogs
<1> QED
  BY ONLY <1>1, <1>2, <1>4, <1>5

(* The files (a, l) become (b, m), and x is taken from what was pending.   *)
LEMMA Written ==
  ASSUME NEW a, NEW l, NEW b, NEW m, NEW x, NEW p, NEW r,
         IsLog(a), IsLog(l), IsLog(b), IsLog(m), IsLog(x), IsLog(p), IsLog(r),
         Cat(b, m) = Cat(a, l)
  PROVE  /\ Cat(a, Cat(l, Cat(Cat(x, p), r))) = Cat(Cat(a, l), Cat(x, Cat(p, r)))
         /\ Cat(b, Cat(Cat(m, x), Cat(p, r))) = Cat(Cat(a, l), Cat(x, Cat(p, r)))
         /\ Cat(b, Cat(m, Cat(p, r))) = Cat(Cat(a, l), Cat(p, r))
<1>1. IsLog(Cat(p, r)) /\ Cat(Cat(x, p), r) = Cat(x, Cat(p, r)) /\ IsLog(Cat(x, Cat(p, r)))
  BY CatLogs
<1>2. Cat(a, Cat(l, Cat(x, Cat(p, r)))) = Cat(Cat(a, l), Cat(x, Cat(p, r)))
  BY ONLY <1>1, CatLogs, IsLog(a), IsLog(l)
<1>3. Cat(b, Cat(m, Cat(p, r))) = Cat(Cat(b, m), Cat(p, r))
  BY ONLY <1>1, CatLogs, IsLog(b), IsLog(m)
<1>4. Cat(Cat(m, x), Cat(p, r)) = Cat(m, Cat(x, Cat(p, r)))
  BY ONLY <1>1, CatLogs, IsLog(x), IsLog(m)
<1>5. Cat(b, Cat(m, Cat(x, Cat(p, r)))) = Cat(Cat(b, m), Cat(x, Cat(p, r)))
  BY ONLY <1>1, CatLogs, IsLog(b), IsLog(m)
<1> QED
  BY ONLY <1>1, <1>2, <1>3, <1>4, <1>5, Cat(b, m) = Cat(a, l)

(* Initially the log is empty.                                             *)
LEMMA LogInit == Init => LogInv
<1> SUFFICES ASSUME Init PROVE LogInv
  OBVIOUS
<1>0. written = 0 /\ Len(buffersToWrite) = 0
  <2>1. written = 0 /\ buffersToWrite = <<>>
    BY DEF Init
  <2> QED
    BY <2>1, EmptySeq
<1>a. archive = [s \in Seconds |-> <<>>] /\ second = 0
  BY DEF Init
<1>1. LogTypes /\ WriteInv
  <2>1. written \in 0..Len(buffersToWrite)
    BY <1>0
  <2>2. <<>> \in Seq(Nat) /\ <<>> \in Seq(Seq(Nat))
    BY EmptySeq
  <2>3. second \in Seconds /\ archive \in [Seconds -> Seq(Seq(Nat))]
    BY <1>a, <2>2, LogSizesAssumption DEF Seconds
  <2>4. logFile \in Seq(Nat) /\ syncLog \in Seq(Nat) /\ lost \subseteq 1..appended
    BY <2>2 DEF Init
  <2>5. WriteInv
    BY DEF Init, WriteInv
  <2> QED
    BY <2>1, <2>3, <2>4, <2>5 DEF LogTypes
<1>2. Types
  BY InitInv DEF IInv, StopIInv
<1>3. Archived = <<>>
  <2>1. /\ Rolled \in Seq(Seq(Nat)) /\ Len(Rolled) = MaxSecond + 1
        /\ \A i \in 1..(MaxSecond + 1) : Rolled[i] = FlattenSeq(archive[i - 1])
    BY <1>1, RolledType DEF LogTypes
  <2>2. \A i \in 1..(MaxSecond + 1) : archive[i - 1] = <<>>
    BY <1>a, LogSizesAssumption DEF Seconds
  <2>3. \A i \in 1..Len(Rolled) : Rolled[i] = <<>>
    BY <2>1, <2>2, FlatLogs
  <2>4. FlattenSeq(Rolled) = <<>>
    BY <2>1, <2>3, FlatEmpties
  <2> QED
    BY <2>4 DEF Archived, Rolled
<1>4. Pending = <<>>
  <2>1. written + 1 = 1 /\ Len(buffersToWrite) = 0
    BY <1>0
  <2>2. ToWrite = <<>>
    BY <2>1, SubSeqEmpty DEF ToWrite
  <2> QED
    BY <2>2, FlatLogs DEF Pending
<1>5. Waiting = <<>>
  <2>1. NewBuffer[1] = <<>>
    BY DEF NewBuffer
  <2>2. Pushed = <<>>
    BY <2>1 DEF Init, Pushed, HasLines
  <2> QED
    BY <1>2, <2>2, WaitingIsPushed, FlatLogs
<1>6. Whole = <<>>
  <2>1. Cat(<<>>, <<>>) = <<>>
    BY CatLogs
  <2>2. logFile = <<>> /\ syncLog = <<>>
    BY DEF Init
  <2> QED
    BY ONLY <1>3, <1>4, <1>5, <2>1, <2>2 DEF Whole
<1>7. Complete(<<>>, 0, {})
  BY DEF Complete, Ascending, Range
<1> QED
  BY <1>1, <1>6, <1>7 DEF LogInv, Init

(* Steps that leave the log alone.                                         *)
LEMMA LogSame ==
  ASSUME LogInv, second' \in Seconds, second' >= second,
         UNCHANGED <<archive, logFile, buffersToWrite, written, buffers_, currentBuffer_,
                     syncLog, lost, appended>>,
         bpc' # "write" => written = 0,
         bpc' = "flush" => buffersToWrite = <<>>,
         spc' # "disabled" => syncLog = <<>>
  PROVE  LogInv'
<1>1. Whole' = Whole
  BY DEF Whole, Archived, Pending, ToWrite, Waiting
<1>2. LogTypes'
  BY DEF LogInv, LogTypes
<1>3. WriteInv'
  BY DEF LogInv, LogTypes, WriteInv, Seconds
<1> QED
  BY <1>1, <1>2, <1>3 DEF LogInv

(* append() adds the line to what waits.                                   *)
LEMMA WaitingAppended ==
  ASSUME Types, currentBuffer_ # Null, NEW line \in Nat, Appended(line)
  PROVE  Waiting' = Cat(Waiting, <<line>>)
<1> DEFINE c == currentBuffer_[1]
           e == <<line>>
           q == FlattenSeq(buffers_)
<1>1. buffers_ \in Buffers /\ currentBuffer_ \in Buffers /\ Len(currentBuffer_) <= 1
  BY DEF Types
<1>2. IsLog(c) /\ IsLog(e) /\ IsLog(q)
  BY <1>1, HeldBuffer, FlatLogs DEF IsLog
<1>3. currentBuffer_ = <<c>>
  <2> DEFINE n == Len(currentBuffer_)
  <2>1. n \in Nat /\ n <= 1 /\ n >= 1
    BY <1>1, HeldBuffer, LenProperties DEF Buffers
  <2> HIDE DEF n
  <2>2. n = 1
    BY ONLY <2>1
  <2> QED
    BY <1>1, <2>2 DEF Buffers, n
<1>4. Waiting = FlattenSeq(buffers_ \o currentBuffer_) /\ Waiting' = FlattenSeq(buffers_' \o currentBuffer_')
  BY DEF Waiting
<1>5. CASE Len(c) + 1 < KBufferSize
  <2>1. currentBuffer_' = <<Append(c, line)>> /\ buffers_' = buffers_
    BY <1>5 DEF Appended
  <2>2. Append(c, line) = Cat(c, e)
    BY <1>2, AppendIsConcat DEF IsLog, Cat
  <2> HIDE DEF c, e, q
  <2>3. IsLog(Cat(c, e))
    BY <1>2, CatLogs
  <2>4. <<c>> \in Buffers /\ FlattenSeq(<<c>>) = c
    BY <1>2, FlatLogs
  <2>5. <<Cat(c, e)>> \in Buffers /\ FlattenSeq(<<Cat(c, e)>>) = Cat(c, e)
    BY <2>3, FlatLogs
  <2>6. Waiting = Cat(q, c)
    BY <1>1, <1>3, <1>4, <2>4, FlatLogs DEF q
  <2>7. Waiting' = Cat(q, Cat(c, e))
    BY <1>1, <1>4, <2>1, <2>2, <2>5, FlatLogs DEF q
  <2>8. Cat(q, Cat(c, e)) = Cat(Cat(q, c), e)
    BY <1>2, CatLogs
  <2> QED
    BY <2>6, <2>7, <2>8 DEF e
<1>6. CASE ~(Len(c) + 1 < KBufferSize)
  <2>1. currentBuffer_' = <<e>> /\ buffers_' = buffers_ \o currentBuffer_
    BY <1>6 DEF Appended
  <2> HIDE DEF c, e, q
  <2>2. <<e>> \in Buffers /\ FlattenSeq(<<e>>) = e /\ buffers_ \o currentBuffer_ \in Buffers
    BY <1>1, <1>2, FlatLogs
  <2>3. FlattenSeq((buffers_ \o currentBuffer_) \o <<e>>) = Cat(Waiting, e)
    BY <1>4, <2>2, FlatLogs
  <2> QED
    BY <1>4, <2>1, <2>3 DEF e
<1> QED
  BY <1>5, <1>6

(* A line goes to the end of the log.                                      *)
LEMMA LogLineStep ==
  ASSUME NeverIdle, IInv, LogInv, LogLine
  PROVE  LogInv'
<1> DEFINE n == appended
           e == <<n + 1>>
           A == Archived  L == logFile  P == Pending  W == Waiting  Y == syncLog
<1>0. Types /\ FlushInv /\ SpareInv
  BY DEF IInv, StopIInv
<1>1. /\ LogTypes /\ WriteInv /\ Complete(Whole, n, lost)
      /\ IsLog(A) /\ IsLog(L) /\ IsLog(P) /\ IsLog(W) /\ IsLog(Y)
      /\ n \in Nat /\ lost \in SUBSET (1..n)
  BY <1>0, Parts DEF LogInv, LogTypes, Types
<1>2. IsLog(e)
  BY <1>1 DEF IsLog
<1>3. spc \in {"no stop", "disabled"}
  BY DEF LogLine, NeverIdle, OrderlyStop
<1>4. /\ appended' = n + 1
      /\ UNCHANGED <<spc, bpc, second, lost, archive, logFile, buffersToWrite, written>>
      /\ syncLog' = IF spc = "disabled" THEN Append(Y, n + 1) ELSE Y
  BY DEF LogLine, files, back
<1>5. Archived' = A /\ logFile' = L /\ Pending' = P
  BY <1>4 DEF Archived, Pending, ToWrite
<1>6. IsLog(Cat(W, Y)) /\ IsLog(Whole)
  BY <1>1, CatLogs DEF Whole
<1>7. Complete(Cat(Whole, e), n + 1, lost)
  BY <1>1, <1>6, CompleteAppend
<1>8. Cat(Whole, e) = Cat(A, Cat(L, Cat(P, Cat(Cat(W, Y), e))))
  <2>1. Whole = Cat(A, Cat(L, Cat(P, Cat(W, Y))))
    BY DEF Whole
  <2> HIDE DEF A, L, P, W, Y, e
  <2> QED
    BY <1>1, <1>2, <1>6, <2>1, AtTheEnd
<1>9. syncLog' \in Seq(Nat) /\ Cat(Waiting', syncLog') = Cat(Cat(W, Y), e)
      /\ (spc # "disabled" => syncLog' = <<>>)
  <2>1. CASE spc = "disabled"
    <3>1. UNCHANGED front
      BY <2>1 DEF LogLine
    <3>2. Waiting' = W
      BY <3>1 DEF front, Waiting
    <3>3. syncLog' = Append(Y, n + 1) /\ Append(Y, n + 1) \in Seq(Nat)
      BY <1>1, <1>4, <2>1, AppendProperties DEF IsLog
    <3>4. Append(Y, n + 1) = Cat(Y, e)
      BY <1>1, AppendIsConcat DEF IsLog, Cat
    <3> HIDE DEF W, Y, e
    <3>5. Cat(W, Cat(Y, e)) = Cat(Cat(W, Y), e)
      BY <1>1, <1>2, CatLogs
    <3> QED
      BY <2>1, <3>2, <3>3, <3>4, <3>5
  <2>2. CASE spc = "no stop"
    <3>1. Appended(n + 1)
      BY <2>2 DEF LogLine
    <3>2. currentBuffer_ # Null
      BY <1>0, <2>2 DEF FlushInv
    <3>3. n + 1 \in Nat
      BY <1>1
    <3>4. Waiting' = Cat(W, e)
      BY ONLY <1>0, <3>1, <3>2, <3>3, WaitingAppended
    <3>5. syncLog' = <<>> /\ Y = <<>>
      BY <1>1, <1>4, <2>2 DEF WriteInv
    <3> HIDE DEF W, Y, e
    <3>6. Cat(W, Y) = W /\ IsLog(Cat(W, e)) /\ Cat(Cat(W, e), <<>>) = Cat(W, e)
      BY <1>1, <1>2, <3>5, CatLogs
    <3>7. <<>> \in Seq(Nat)
      BY EmptySeq
    <3> QED
      BY <3>4, <3>5, <3>6, <3>7
  <2> QED
    BY <1>3, <2>1, <2>2
<1>10. Complete(Whole', appended', lost')
  <2>1. Whole' = Cat(Archived', Cat(logFile', Cat(Pending', Cat(Waiting', syncLog'))))
    BY DEF Whole
  <2> HIDE DEF A, L, P, W, Y, e
  <2> QED
    BY <1>4, <1>5, <1>7, <1>8, <1>9, <2>1
<1>11. LogTypes'
  BY <1>1, <1>4, <1>9 DEF LogTypes
<1>12. WriteInv'
  BY <1>1, <1>4, <1>9 DEF WriteInv
<1> QED
  BY <1>10, <1>11, <1>12 DEF LogInv

(* The back end takes over what waits, all but the lines of d.             *)
LEMMA TakeOver ==
  ASSUME Types, LogInv, written = 0, buffersToWrite = <<>>,
         NEW d \in Buffers, buffersToWrite' \in Buffers, written' = 0,
         Waiting = Cat(FlattenSeq(buffersToWrite'), FlattenSeq(d)), Waiting' = <<>>,
         UNCHANGED <<archive, logFile, second, syncLog, appended>>,
         lost' = lost \cup Range(FlattenSeq(d))
  PROVE  LogTypes' /\ Complete(Whole', appended', lost')
<1> DEFINE A == Archived  L == logFile  Y == syncLog
           k == FlattenSeq(buffersToWrite')  g == FlattenSeq(d)
<1>1. /\ IsLog(A) /\ IsLog(L) /\ IsLog(Y) /\ IsLog(k) /\ IsLog(g)
      /\ LogTypes /\ Complete(Whole, appended, lost) /\ appended \in Nat
  BY Parts, FlatLogs DEF LogInv, Types
<1>2. Pending = <<>>
  <2>1. written + 1 = 1 /\ Len(buffersToWrite) = 0
    BY EmptySeq
  <2>2. ToWrite = <<>>
    BY <2>1, SubSeqEmpty DEF ToWrite
  <2> QED
    BY <2>2, FlatLogs DEF Pending
<1>3. Pending' = k
  <2>1. written' + 1 = 1
    OBVIOUS
  <2>2. SubSeq(buffersToWrite', 1, Len(buffersToWrite')) = buffersToWrite'
    BY SubSeqFull DEF Buffers
  <2> QED
    BY <2>1, <2>2 DEF Pending, ToWrite
<1>4. Archived' = A /\ logFile' = L /\ syncLog' = Y
  BY DEF Archived
<1>5. /\ Whole = Cat(A, Cat(L, Cat(<<>>, Cat(Cat(k, g), Y))))
      /\ Whole' = Cat(A, Cat(L, Cat(k, Cat(<<>>, Y))))
  BY <1>2, <1>3, <1>4 DEF Whole
<1> HIDE DEF A, L, Y, k, g
<1>6. /\ Whole = Cat(Cat(A, Cat(L, k)), Cat(g, Y))
      /\ Whole' = Cat(Cat(A, Cat(L, k)), Y)
  BY <1>1, <1>5, TakenOver
<1>7. IsLog(Cat(A, Cat(L, k)))
  BY <1>1, CatLogs
<1>8. Complete(Whole', appended, lost \cup Range(g)) /\ Range(g) \subseteq 1..appended
  BY <1>1, <1>6, <1>7, CompleteCut
<1>9. LogTypes'
  <2>1. Len(buffersToWrite') \in Nat
    BY LenProperties DEF Buffers
  <2>2. lost' \subseteq 1..appended'
    BY <1>1, <1>8 DEF LogTypes, g
  <2> QED
    BY <1>1, <2>1, <2>2 DEF LogTypes
<1> QED
  BY <1>8, <1>9 DEF g

(* Of a backlog the first two buffers are kept and the others dropped.     *)
LEMMA KeptDropped ==
  ASSUME NEW q \in Buffers
  PROVE  \E d \in Buffers : /\ FlattenSeq(q) = Cat(FlattenSeq(Kept(q)), FlattenSeq(d))
                            /\ Dropped(q) = Range(FlattenSeq(d))
<1> DEFINE n == Len(q)
<1>1. q \in Seq(Seq(Nat)) /\ n \in Nat /\ \A i \in 1..n : q[i] \in Seq(Nat)
  BY LenProperties, ElementOfSeq DEF Buffers
<1>2. CASE n > MaxBacklog
  <2> DEFINE k == SubSeq(q, 1, 2)
             d == SubSeq(q, 3, n)
  <2>1. n > 2
    BY <1>1, <1>2, LogSizesAssumption
  <2>2. Kept(q) = k /\ Dropped(q) = UNION {Range(q[i]) : i \in 3..n}
    BY <1>2 DEF Kept, Dropped
  <2>3. k \in Buffers
    BY <1>1, <2>1, SubSeqProperties DEF Buffers
  <2>4. d \in Seq(Seq(Nat)) /\ Len(d) = n - 2 /\ \A i \in 1..(n - 2) : d[i] = q[i + 2]
    <3>1. \A i \in 3..n : q[i] \in Seq(Nat)
      BY <1>1
    <3>2. /\ d \in Seq(Seq(Nat)) /\ Len(d) = IF 3 <= n THEN (n - 3) + 1 ELSE 0
          /\ \A i \in 1..((n - 3) + 1) : d[i] = q[(3 + i) - 1]
      BY <1>1, <3>1, SubSeqProperties
    <3> HIDE DEF d, n
    <3>3. (n - 3) + 1 = n - 2 /\ 3 <= n
      BY <1>1, <2>1
    <3>4. ASSUME NEW i \in 1..(n - 2)
          PROVE  d[i] = q[i + 2]
      <4>1. i \in 1..((n - 3) + 1) /\ (3 + i) - 1 = i + 2
        BY <3>3
      <4> QED
        BY <3>2, <4>1
    <3> QED
      BY <3>2, <3>3, <3>4
  <2>5. k \o d = q
    <3>1. 1 \in 1..(n + 1) /\ 2 \in (1 - 1)..n /\ n \in 2..n /\ 2 + 1 = 3
      BY <1>1, <2>1
    <3>2. SubSeq(q, 1, 2) \o SubSeq(q, 2 + 1, n) = SubSeq(q, 1, n)
      BY <1>1, <3>1, ConcatAdjacentSubSeq
    <3>3. SubSeq(q, 1, n) = q
      BY <1>1, SubSeqFull
    <3> QED
      BY <3>1, <3>2, <3>3
  <2> HIDE DEF k, d, n
  <2>6. FlattenSeq(q) = Cat(FlattenSeq(k), FlattenSeq(d)) /\ d \in Buffers
    BY <2>3, <2>4, <2>5, FlatLogs DEF Buffers
  <2>7. Range(FlattenSeq(d)) = UNION {Range(d[i]) : i \in 1..(n - 2)}
    BY <2>4, FlatRange
  <2>8. /\ \A i \in 1..(n - 2) : i + 2 \in 3..n /\ d[i] = q[i + 2]
        /\ \A i \in 3..n : i - 2 \in 1..(n - 2) /\ d[i - 2] = q[i]
    <3>1. \A i \in 1..(n - 2) : i + 2 \in 3..n
      BY <1>1
    <3>2. \A i \in 3..n : i - 2 \in 1..(n - 2) /\ (i - 2) + 2 = i
      BY <1>1
    <3> QED
      BY <2>4, <3>1, <3>2
  <2>9. ASSUME NEW y
        PROVE  (\E i \in 1..(n - 2) : y \in Range(d[i])) <=> (\E i \in 3..n : y \in Range(q[i]))
    <3>1. ASSUME NEW i \in 1..(n - 2), y \in Range(d[i])
          PROVE  \E j \in 3..n : y \in Range(q[j])
      BY <2>8, <3>1
    <3>2. ASSUME NEW i \in 3..n, y \in Range(q[i])
          PROVE  \E j \in 1..(n - 2) : y \in Range(d[j])
      BY <2>8, <3>2
    <3> QED
      BY <3>1, <3>2
  <2>10. UNION {Range(d[i]) : i \in 1..(n - 2)} = UNION {Range(q[i]) : i \in 3..n}
    BY ONLY <2>9
  <2> QED
    BY <2>2, <2>6, <2>7, <2>10
<1>3. CASE ~(n > MaxBacklog)
  <2>1. Kept(q) = q /\ Dropped(q) = {}
    BY <1>3 DEF Kept, Dropped
  <2>2. FlattenSeq(q) = Cat(FlattenSeq(q), <<>>)
    BY FlatLogs, CatLogs
  <2>3. Range(<<>>) = {}
    BY DEF Range
  <2> QED
    BY <2>1, <2>2, <2>3, FlatLogs
<1> QED
  BY <1>2, <1>3

(* Collecting.                                                             *)
LEMMA CollectStep ==
  ASSUME IInv, LogInv, Collect, bpc \in {"lock", "wait"}
  PROVE  LogInv'
<1>0. Types /\ SpareInv /\ LogTypes /\ WriteInv
  BY DEF IInv, StopIInv, LogInv
<1>1. newBuffer1 # Null /\ buffersToWrite = <<>> /\ written = 0
  BY <1>0 DEF SpareInv, WriteInv
<1>2. Queued = Pushed /\ Pushed \in Buffers
  BY <1>0, <1>1, QueuedProperties, PushedProperties
<1>3. /\ currentBuffer_' = NewBuffer /\ buffers_' = <<>> /\ buffersToWrite' = Kept(Pushed)
      /\ lost' = lost \cup Dropped(Pushed) /\ bpc' \in {"while", "write"}
      /\ UNCHANGED <<written, archive, logFile, second, syncLog, appended, spc>>
  BY <1>1, <1>2 DEF Collect, files, logger
<1>4. PICK d \in Buffers : /\ FlattenSeq(Pushed) = Cat(FlattenSeq(Kept(Pushed)), FlattenSeq(d))
                           /\ Dropped(Pushed) = Range(FlattenSeq(d))
  BY <1>2, KeptDropped
<1>5. Waiting' = <<>>
  <2>1. <<>> \o NewBuffer = NewBuffer
    BY ConcatEmptySeq, EmptySeq, BufferNotNull DEF NewBuffer, Buffers
  <2>2. FlattenSeq(NewBuffer) = <<>>
    BY FlatLogs, CatLogs DEF NewBuffer
  <2> QED
    BY <1>3, <2>1, <2>2 DEF Waiting
<1>6. /\ Waiting = Cat(FlattenSeq(buffersToWrite'), FlattenSeq(d))
      /\ lost' = lost \cup Range(FlattenSeq(d))
  BY <1>0, <1>3, <1>4, WaitingIsPushed
<1>7. written' = 0 /\ buffersToWrite' \in Buffers
  BY <1>1, <1>2, <1>3, KeptProperties
<1>8. LogTypes' /\ Complete(Whole', appended', lost')
  BY ONLY <1>0, <1>1, <1>3, <1>5, <1>6, <1>7, LogInv, d \in Buffers, TakeOver
<1>9. WriteInv'
  BY <1>0, <1>1, <1>3 DEF WriteInv
<1> QED
  BY <1>8, <1>9 DEF LogInv

(* The final flush takes everything.                                       *)
LEMMA FinalLockStep ==
  ASSUME IInv, LogInv, FinalLock
  PROVE  LogInv'
<1>0. Types /\ FlushInv /\ LogTypes /\ WriteInv
  BY DEF IInv, StopIInv, LogInv
<1>1. bpc = "flush" /\ buffersToWrite = <<>> /\ written = 0
  BY <1>0 DEF FinalLock, WriteInv
<1>2. /\ buffersToWrite' = Pushed /\ buffers_' = <<>> /\ bpc' = "last"
      /\ currentBuffer_' = IF HasLines(currentBuffer_) THEN Null ELSE currentBuffer_
      /\ UNCHANGED <<written, archive, logFile, second, syncLog, appended, spc, lost>>
  BY DEF FinalLock, files, logger
<1>3. Pushed \in Buffers /\ currentBuffer_ \in Buffers
  BY <1>0, PushedProperties DEF Types
<1>4. Waiting' = <<>>
  <2>1. FlattenSeq(currentBuffer_') = <<>> /\ currentBuffer_' \in Buffers
    <3>1. CASE HasLines(currentBuffer_)
      BY <1>2, <3>1, FlatLogs DEF Null
    <3>2. CASE ~HasLines(currentBuffer_)
      <4>1. FlattenSeq(currentBuffer_) = <<>>
        BY <1>0, <3>2, EmptyPointer
      <4> QED
        BY <1>2, <1>3, <3>2, <4>1
    <3> QED
      BY <3>1, <3>2
  <2>2. <<>> \o currentBuffer_' = currentBuffer_'
    BY <2>1, ConcatEmptySeq DEF Buffers
  <2> QED
    BY <1>2, <2>1, <2>2 DEF Waiting
<1> DEFINE d == <<>>
<1>5. /\ d \in Buffers
      /\ Waiting = Cat(FlattenSeq(buffersToWrite'), FlattenSeq(d))
      /\ lost' = lost \cup Range(FlattenSeq(d))
  <2>1. Range(<<>>) = {}
    BY DEF Range
  <2>2. IsLog(Waiting) /\ FlattenSeq(Pushed) = Waiting
    BY <1>0, Parts, WaitingIsPushed
  <2> QED
    BY <1>2, <2>1, <2>2, FlatLogs, CatLogs
<1> HIDE DEF d
<1>6. written' = 0 /\ buffersToWrite' \in Buffers
  BY <1>1, <1>2, <1>3
<1>7. LogTypes' /\ Complete(Whole', appended', lost')
  BY ONLY <1>0, <1>1, <1>2, <1>4, <1>5, <1>6, LogInv, TakeOver
<1>8. WriteInv'
  BY <1>0, <1>1, <1>2 DEF WriteInv
<1> QED
  BY <1>7, <1>8 DEF LogInv

(* The first lines x of what is pending are written to the file m that is  *)
(* open after a possible roll, or are lost.                                *)
LEMMA WriteOut ==
  ASSUME Types, LogInv, NEW x, NEW m, IsLog(x), IsLog(m), IsLog(Pending'), IsLog(Archived'),
         Pending = Cat(x, Pending'), Cat(Archived', m) = Cat(Archived, logFile),
         \/ logFile' = Cat(m, x) /\ lost' = lost
         \/ logFile' = m /\ lost' = lost \cup Range(x),
         Waiting' = Waiting, syncLog' = syncLog, appended' = appended
  PROVE  /\ Complete(Whole', appended', lost')
         /\ logFile' \in Seq(Nat) /\ lost' \subseteq 1..appended'
<1> DEFINE A == Archived  L == logFile  B == Archived'  p == Pending'
           r == Cat(Waiting, syncLog)
<1>1. /\ IsLog(A) /\ IsLog(L) /\ IsLog(B) /\ IsLog(p) /\ IsLog(r)
      /\ LogTypes /\ Complete(Whole, appended, lost) /\ appended \in Nat
  BY Parts, CatLogs DEF LogInv, Types
<1>2. /\ Whole = Cat(A, Cat(L, Cat(Cat(x, p), r)))
      /\ Whole' = Cat(B, Cat(logFile', Cat(p, r)))
  BY DEF Whole
<1>3. Cat(B, m) = Cat(A, L)
  OBVIOUS
<1> HIDE DEF A, L, B, p, r
<1>4. /\ Whole = Cat(Cat(A, L), Cat(x, Cat(p, r)))
      /\ Cat(B, Cat(Cat(m, x), Cat(p, r))) = Cat(Cat(A, L), Cat(x, Cat(p, r)))
      /\ Cat(B, Cat(m, Cat(p, r))) = Cat(Cat(A, L), Cat(p, r))
  BY ONLY <1>1, <1>2, <1>3, IsLog(x), IsLog(m), Written
<1>5. IsLog(Cat(A, L)) /\ IsLog(Cat(p, r)) /\ IsLog(Cat(m, x))
  BY <1>1, CatLogs
<1>6. CASE logFile' = Cat(m, x) /\ lost' = lost
  <2>1. Whole' = Whole
    BY <1>2, <1>4, <1>6
  <2> QED
    BY <1>1, <1>5, <1>6, <2>1 DEF IsLog, LogTypes
<1>7. CASE logFile' = m /\ lost' = lost \cup Range(x)
  <2>1. Whole' = Cat(Cat(A, L), Cat(p, r))
    BY <1>2, <1>4, <1>7
  <2>2. Complete(Whole', appended, lost \cup Range(x)) /\ Range(x) \subseteq 1..appended
    BY <1>1, <1>4, <1>5, <2>1, CompleteCut
  <2> QED
    BY <1>1, <1>7, <2>2 DEF IsLog, LogTypes
<1> QED
  BY <1>6, <1>7

(* One buffer is written, after a roll perhaps.                            *)
LEMMA WriteBufferStep ==
  ASSUME IInv, LogInv, WriteBuffer
  PROVE  LogInv'
<1> DEFINE q == buffersToWrite
           x == buffersToWrite[written + 1]
           m == StillOpen
<1>0. Types /\ LogTypes /\ WriteInv
  BY DEF IInv, StopIInv, LogInv
<1>1. /\ bpc = "write" /\ written < Len(buffersToWrite) /\ written' = written + 1
      /\ UNCHANGED <<currentBuffer_, buffers_, buffersToWrite, syncLog, appended, spc, bpc, second>>
      /\ RollIfLong
      /\ \/ logFile' = m \o x /\ lost' = lost
         \/ logFile' = m /\ lost' = lost \cup Range(x)
  BY DEF WriteBuffer, front, logger
<1>2. q \in Seq(Seq(Nat)) /\ Len(q) \in Nat /\ written \in Nat /\ written + 1 \in 1..Len(q)
  <2>1. q \in Seq(Seq(Nat)) /\ Len(q) \in Nat
    BY <1>0, LenProperties DEF Types, Buffers
  <2> QED
    BY <1>0, <1>1, <2>1 DEF LogTypes
<1>3. IsLog(x)
  BY <1>2, ElementOfSeq DEF IsLog
<1>4. /\ archive' \in [Seconds -> Seq(Seq(Nat))]
      /\ \A s \in Seconds : s > second => archive'[s] = <<>>
      /\ Cat(Archived', m) = Cat(Archived, logFile) /\ IsLog(m) /\ IsLog(Archived')
  <2>1. IsLog(Archived) /\ IsLog(logFile) /\ IsLog(<<>>)
    BY <1>0, Parts, CatLogs
  <2>2. CASE Len(logFile) >= RollSize
    <3>1. RollFile /\ m = <<>>
      BY <1>1, <2>2 DEF RollIfLong, StillOpen
    <3>2. /\ archive' \in [Seconds -> Seq(Seq(Nat))]
          /\ \A s \in Seconds : s > second => archive'[s] = <<>>
          /\ Archived' = Cat(Archived, logFile)
      BY <1>0, <2>1, <3>1, RollArchive DEF LogTypes, WriteInv
    <3>3. IsLog(Cat(Archived, logFile)) /\ Cat(Cat(Archived, logFile), <<>>) = Cat(Archived, logFile)
      BY <2>1, CatLogs
    <3> QED
      BY <2>1, <3>1, <3>2, <3>3
  <2>3. CASE ~(Len(logFile) >= RollSize)
    <3>1. archive' = archive /\ m = logFile
      BY <1>1, <2>3 DEF RollIfLong, StillOpen
    <3>2. Archived' = Archived
      BY <3>1 DEF Archived
    <3> QED
      BY <1>0, <2>1, <3>1, <3>2 DEF LogTypes, WriteInv
  <2> QED
    BY <2>2, <2>3
<1>5. Waiting' = Waiting
  BY <1>1 DEF Waiting
<1>6. Pending = Cat(x, Pending') /\ IsLog(Pending')
  <2>1. /\ ToWrite = SubSeq(q, written + 1, Len(q))
        /\ ToWrite' = SubSeq(q, (written + 1) + 1, Len(q))
    BY <1>1 DEF ToWrite
  <2>2. ToWrite = <<x>> \o ToWrite'
    <3>1. Len(q) \in (written + 1)..Len(q)
      BY <1>2
    <3> QED
      BY <1>2, <2>1, <3>1, SubSeqRecursiveFirst
  <2>3. ToWrite' \in Buffers
    <3>1. \A i \in ((written + 1) + 1)..Len(q) : q[i] \in Seq(Nat)
      BY <1>2, ElementOfSeq
    <3>2. (written + 1) + 1 \in Int
      BY <1>2
    <3> QED
      BY <1>2, <2>1, <3>1, <3>2, SubSeqProperties DEF Buffers
  <2> HIDE DEF x
  <2>4. <<x>> \in Buffers /\ FlattenSeq(<<x>>) = x
    BY <1>3, FlatLogs
  <2>5. FlattenSeq(<<x>> \o ToWrite') = Cat(x, FlattenSeq(ToWrite')) /\ IsLog(FlattenSeq(ToWrite'))
    BY <2>3, <2>4, FlatLogs
  <2> QED
    BY <2>2, <2>5 DEF Pending
<1>7. \/ logFile' = Cat(m, x) /\ lost' = lost
      \/ logFile' = m /\ lost' = lost \cup Range(x)
  BY <1>1 DEF Cat
<1> HIDE DEF x, m
<1>8. /\ Complete(Whole', appended', lost')
      /\ logFile' \in Seq(Nat) /\ lost' \subseteq 1..appended'
  BY ONLY <1>0, <1>1, <1>3, <1>4, <1>5, <1>6, <1>7, LogInv, WriteOut
<1>9. LogTypes'
  <2>1. written' \in 0..Len(buffersToWrite')
    BY <1>1, <1>2
  <2> QED
    BY <1>0, <1>1, <1>4, <1>8, <2>1 DEF LogTypes
<1>10. WriteInv'
  BY <1>0, <1>1, <1>4 DEF WriteInv
<1> QED
  BY <1>8, <1>9, <1>10 DEF LogInv

(* The last buffers are written at once.                                   *)
LEMMA FinalWriteStep ==
  ASSUME IInv, LogInv, FinalWrite
  PROVE  LogInv'
<1> DEFINE x == FlattenSeq(buffersToWrite)
<1>0. Types /\ LogTypes /\ WriteInv
  BY DEF IInv, StopIInv, LogInv
<1>1. /\ bpc = "last" /\ bpc' = "done" /\ buffersToWrite' = <<>>
      /\ UNCHANGED <<currentBuffer_, buffers_, syncLog, appended, spc, second, archive, written>>
      /\ \/ logFile' = logFile \o x /\ lost' = lost
         \/ logFile' = logFile /\ lost' = lost \cup Range(x)
  BY DEF FinalWrite, front, logger
<1>2. written = 0
  BY <1>0, <1>1 DEF WriteInv
<1>3. Waiting' = Waiting /\ Archived' = Archived
  BY <1>1 DEF Waiting, Archived
<1>4. IsLog(Archived) /\ IsLog(logFile) /\ IsLog(x)
  BY <1>0, Parts, FlatLogs DEF Types
<1>5. Pending' = <<>>
  <2>1. written' + 1 = 1 /\ Len(buffersToWrite') = 0
    BY <1>1, <1>2, EmptySeq
  <2>2. ToWrite' = <<>>
    BY <2>1, SubSeqEmpty DEF ToWrite
  <2> QED
    BY <2>2, FlatLogs DEF Pending
<1>6. Pending = x
  <2>1. written + 1 = 1
    BY <1>2
  <2>2. SubSeq(buffersToWrite, 1, Len(buffersToWrite)) = buffersToWrite
    BY <1>0, SubSeqFull DEF Types, Buffers
  <2> QED
    BY <2>1, <2>2 DEF Pending, ToWrite
<1>7. \/ logFile' = Cat(logFile, x) /\ lost' = lost
      \/ logFile' = logFile /\ lost' = lost \cup Range(x)
  BY <1>1 DEF Cat
<1> HIDE DEF x
<1>8. Pending = Cat(x, Pending') /\ IsLog(Pending') /\ IsLog(Archived')
      /\ Cat(Archived', logFile) = Cat(Archived, logFile)
  BY <1>3, <1>4, <1>5, <1>6, CatLogs
<1>9. /\ Complete(Whole', appended', lost')
      /\ logFile' \in Seq(Nat) /\ lost' \subseteq 1..appended'
  BY ONLY <1>0, <1>1, <1>3, <1>4, <1>7, <1>8, LogInv, WriteOut
<1>10. LogTypes'
  <2>1. written' \in 0..Len(buffersToWrite')
    BY <1>1, <1>2, EmptySeq
  <2> QED
    BY <1>0, <1>1, <1>9, <2>1 DEF LogTypes
<1>11. WriteInv'
  BY <1>0, <1>1, <1>2 DEF WriteInv
<1> QED
  BY <1>9, <1>10, <1>11 DEF LogInv

(* Recycling forgets buffers that are written.                             *)
LEMMA RecycleStep ==
  ASSUME IInv, LogInv, Recycle
  PROVE  LogInv'
<1>0. Types /\ SpareInv /\ LogTypes /\ WriteInv /\ Complete(Whole, appended, lost)
  BY DEF IInv, StopIInv, LogInv
<1>1. Wanted <= Len(buffersToWrite)
  BY <1>0 DEF Recycle, SpareInv
<1>2. /\ written = Len(buffersToWrite) /\ buffersToWrite' = <<>> /\ written' = 0
      /\ bpc' = "while"
      /\ UNCHANGED <<currentBuffer_, buffers_, archive, logFile, syncLog, appended, spc,
                     second, lost>>
  BY <1>1 DEF Recycle, front, files, logger
<1>3. Pending = <<>>
  <2>1. Len(buffersToWrite) \in Nat
    BY <1>0, LenProperties DEF Types, Buffers
  <2>2. written + 1 \in Int /\ Len(buffersToWrite) < written + 1
    BY <1>2, <2>1
  <2>3. ToWrite = <<>>
    BY <2>1, <2>2, SubSeqEmpty DEF ToWrite
  <2> QED
    BY <2>3, FlatLogs DEF Pending
<1>4. Pending' = <<>>
  <2>1. written' + 1 = 1 /\ Len(buffersToWrite') = 0
    BY <1>2, EmptySeq
  <2>2. ToWrite' = <<>>
    BY <2>1, SubSeqEmpty DEF ToWrite
  <2> QED
    BY <2>2, FlatLogs DEF Pending
<1>5. Whole' = Whole
  <2>1. Waiting' = Waiting /\ Archived' = Archived
    BY <1>2 DEF Waiting, Archived
  <2> QED
    BY <1>2, <1>3, <1>4, <2>1 DEF Whole
<1>6. LogTypes'
  <2>1. written' \in 0..Len(buffersToWrite')
    BY <1>2, EmptySeq
  <2> QED
    BY <1>0, <1>2, <2>1 DEF LogTypes
<1>7. WriteInv'
  BY <1>0, <1>2 DEF WriteInv
<1> QED
  BY <1>0, <1>2, <1>5, <1>6, <1>7 DEF LogInv

(* Every step keeps the log complete.                                      *)
LEMMA LogStep ==
  ASSUME NeverIdle, IInv, LogInv, [Next]_vars
  PROVE  LogInv'
<1>0. LogTypes /\ WriteInv /\ SpareInv
  BY DEF LogInv, IInv
<1>1. CASE LogLine
  BY <1>1, LogLineStep
<1>2. CASE Stop \/ Disable \/ UNCHANGED vars
  <2>1. /\ UNCHANGED <<archive, logFile, buffersToWrite, written, buffers_, currentBuffer_,
                       syncLog, lost, appended, bpc, second>>
        /\ spc = "disabled" => spc' = "disabled"
    <3>1. CASE Stop
      BY <3>1 DEF Stop, front, back, files
    <3>2. CASE Disable
      BY <3>2 DEF Disable, front, back, files
    <3>3. CASE UNCHANGED vars
      BY <3>3 DEF vars, front, back, files, logger
    <3> QED
      BY <1>2, <3>1, <3>2, <3>3
  <2>2. second' \in Seconds /\ second' >= second
    BY <1>0, <2>1 DEF LogTypes, Seconds
  <2> QED
    BY <1>0, <2>1, <2>2, LogSame DEF WriteInv
<1>3. CASE Tick
  <2>1. /\ UNCHANGED <<archive, logFile, buffersToWrite, written, buffers_, currentBuffer_,
                       syncLog, lost, appended, bpc, spc>>
        /\ second' = second + 1 /\ second < MaxSecond
    BY <1>3 DEF Tick, front, back, files, logger
  <2>2. second' \in Seconds /\ second' >= second
    BY <1>0, <2>1, LogSizesAssumption DEF LogTypes, Seconds
  <2> QED
    BY <1>0, <2>1, <2>2, LogSame DEF WriteInv
<1>4. CASE While \/ (Lock /\ ~(Pushed # <<>> /\ Collect))
  <2>1. /\ UNCHANGED <<archive, logFile, buffersToWrite, written, buffers_, currentBuffer_,
                       syncLog, lost, appended, second, spc>>
        /\ bpc \in {"while", "lock"} /\ bpc' \in {"lock", "wait", "flush"}
    BY <1>4 DEF While, Lock, front, back, files, logger
  <2>2. second' \in Seconds /\ second' >= second
    BY <1>0, <2>1 DEF LogTypes, Seconds
  <2> QED
    BY <1>0, <2>1, <2>2, LogSame DEF WriteInv, SpareInv
<1>5. CASE Collect /\ bpc \in {"lock", "wait"}
  BY <1>5, CollectStep
<1>6. CASE WriteBuffer
  BY <1>6, WriteBufferStep
<1>7. CASE Recycle
  BY <1>7, RecycleStep
<1>8. CASE FinalLock
  BY <1>8, FinalLockStep
<1>9. CASE FinalWrite
  BY <1>9, FinalWriteStep
<1> QED
  BY <1>1, <1>2, <1>3, <1>4, <1>5, <1>6, <1>7, <1>8, <1>9 DEF Next, BackEnd, Lock, Wake

-----------------------------------------------------------------------------
(* The log is complete and in order: the rolled files, the log file, the   *)
(* buffers and the Logger's own file hold every line once, in the order in *)
(* which they were logged, except for a dropped backlog and failed fopen   *)
(* calls; if something is logged in every flush interval until stop() and  *)
(* nothing while disableAsyncLogging() is at work.                         *)
THEOREM NeverIdleKeepsLog == NeverIdle /\ Spec => []LogComplete
<1>1. Init => IInv /\ LogInv
  BY InitInv, LogInit
<1>2. NeverIdle /\ (IInv /\ LogInv) /\ [Next]_vars => (IInv /\ LogInv)'
  <2> SUFFICES ASSUME NeverIdle, IInv, LogInv, [Next]_vars
               PROVE  IInv' /\ LogInv'
    OBVIOUS
  <2>1. IInv'
    BY StopStep, SpareStep DEF NeverIdle, IInv
  <2> QED
    BY <2>1, LogStep
<1>3. IInv /\ LogInv => LogComplete
  BY WholeLog DEF IInv, StopIInv, LogInv
<1>4. NeverIdle => NeverIdle'
  BY DEF NeverIdle, OrderlyStop
<1> QED
  BY <1>1, <1>2, <1>3, <1>4, PTL DEF Spec
=============================================================================
