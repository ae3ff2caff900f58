---------------------------- MODULE AsyncLogging ----------------------------
(***************************************************************************)
(* AsyncLogging (src/src/AsyncLogging.cpp): the front end's buffers, the   *)
(* back-end thread that collects them, writes them to the log file and     *)
(* recycles them, the rolling of the file, and stop(); and the Logger that *)
(* sends lines there until disableAsyncLogging() (src/src/Logger.cpp).     *)
(*                                                                         *)
(* A log line is a number, in the order in which append() got the mutex;   *)
(* every line has length 1 and a buffer is a sequence of lines.  A         *)
(* BufferPtr is a sequence of at most one buffer, empty for nullptr.       *)
(***************************************************************************)
EXTENDS Integers, Sequences, SequencesExt

CONSTANTS
  KBufferSize,  \* kBufferSize: an append keeps a buffer shorter than this
  RollSize,     \* rollSize_: a file this long is rolled before a write
  MaxBacklog,   \* more buffers than this (25 in the code) are dropped
  MaxLines,     \* bound: lines appended in one behaviour
  MaxSecond,    \* bound: seconds that pass in one behaviour
  IdleTimeout,  \* TRUE: wait_for may time out (or wake spuriously) with
                \* nothing logged; FALSE: something is logged, or stop() is
                \* called, within every flushInterval_
  LogAnytime    \* TRUE: lines are logged during disableAsyncLogging() too

ASSUME LogSizesAssumption ==
  /\ KBufferSize \in Nat /\ KBufferSize > 1
  /\ RollSize \in Nat \ {0}
  /\ MaxBacklog \in Nat /\ MaxBacklog >= 2
  /\ MaxLines \in Nat /\ MaxSecond \in Nat
ASSUME LogFlagsAssumption == {IdleTimeout, LogAnytime} \subseteq BOOLEAN

VARIABLES
  currentBuffer_, nextBuffer_, buffers_,       \* guarded by mutex_
  running_,
  newBuffer1, newBuffer2, buffersToWrite,      \* locals of threadFunc
  written,      \* the buffers of buffersToWrite already written
  bpc,          \* threadFunc is at: "while", "lock", "wait", "write",
                \* "flush" (locks a last time), "last" (writes), "done"
  logFile,      \* the lines of the file <basename_>.log
  archive,      \* archive[s]: the files rolled in second s, by serial number
  second,       \* the wall clock, as far as file names show it
  syncLog,      \* the lines the Logger has written itself
  appended,     \* the number of lines logged so far
  lost,         \* the lines given up: dropped backlog, fopen failures
  spc,          \* disableAsyncLogging(): "no stop", "join", "stopped", "reset"
                \* (the instance is gone) or "disabled" (useAsyncLogging is FALSE)
  aborted       \* an assert has failed, or a null pointer was used

front == <<currentBuffer_, nextBuffer_, buffers_>>
back == <<newBuffer1, newBuffer2, buffersToWrite, written>>
files == <<logFile, archive>>
logger == <<running_, syncLog, appended, spc>>
vars == <<front, back, files, logger, bpc, second, lost, aborted>>

Lines == 1..MaxLines
Null == <<>>
NewBuffer == <<<<>>>>
Seconds == 0..MaxSecond

Init ==
  /\ currentBuffer_ = NewBuffer /\ nextBuffer_ = NewBuffer /\ buffers_ = <<>>
  /\ running_ = TRUE
  /\ newBuffer1 = NewBuffer /\ newBuffer2 = NewBuffer
  /\ buffersToWrite = <<>> /\ written = 0
  /\ bpc = "while"
  /\ logFile = <<>> /\ archive = [s \in Seconds |-> <<>>] /\ second = 0
  /\ syncLog = <<>> /\ appended = 0 /\ lost = {}
  /\ spc = "no stop"
  /\ aborted = FALSE

-----------------------------------------------------------------------------
(* The front end.                                                          *)

(* append(): a buffer that would become full is queued, and the spare one  *)
(* or a new one takes its place.  The notify_one() is one of the ways the  *)
(* wait of the back end ends (Wake).  After the final flush currentBuffer_ *)
(* may be null.                                                            *)
Appended(line) ==
  IF currentBuffer_ = Null
  THEN aborted' = TRUE /\ UNCHANGED front
  ELSE /\ IF Len(currentBuffer_[1]) + 1 < KBufferSize
          THEN /\ currentBuffer_' = <<Append(currentBuffer_[1], line)>>
               /\ UNCHANGED <<nextBuffer_, buffers_>>
          ELSE /\ buffers_' = buffers_ \o currentBuffer_
               /\ currentBuffer_' = <<<<line>>>>
               /\ nextBuffer_' = Null
       /\ UNCHANGED aborted

(* logBase and logSys: by useAsyncLogging and the instance, a line goes to *)
(* append(), nowhere, or to the Logger's own file.                         *)
LogLine ==
  /\ ~aborted /\ appended < MaxLines
  /\ LogAnytime \/ spc \in {"no stop", "disabled"}
  /\ appended' = appended + 1
  /\ syncLog' = IF spc = "disabled" THEN Append(syncLog, appended + 1) ELSE syncLog
  /\ IF spc \in {"reset", "disabled"}
     THEN UNCHANGED <<front, aborted>>
     ELSE Appended(appended + 1)
  /\ UNCHANGED <<running_, spc, back, files, bpc, second, lost>>

(* disableAsyncLogging(): stop() sets the flag and notifies, without the   *)
(* mutex, and joins; the instance is destroyed; useAsyncLogging is reset.  *)
Stop ==
  /\ ~aborted /\ spc = "no stop"
  /\ running_' = FALSE
  /\ spc' = "join"
  /\ UNCHANGED <<syncLog, appended, front, back, files, bpc, second, lost, aborted>>

(* Mutated form: stop() does not join the thread.                          *)
DisableWithoutJoin ==
  /\ \/ spc = "join" /\ spc' = "stopped"
     \/ spc = "stopped" /\ spc' = "reset"
     \/ spc = "reset" /\ spc' = "disabled"
  /\ UNCHANGED <<running_, syncLog, appended, front, back, files, bpc, second, lost, aborted>>

Disable ==
  /\ \/ spc = "join" /\ bpc = "done" /\ spc' = "stopped"
     \/ spc = "stopped" /\ spc' = "reset"
     \/ spc = "reset" /\ spc' = "disabled"
  /\ UNCHANGED <<running_, syncLog, appended, front, back, files, bpc, second, lost, aborted>>

-----------------------------------------------------------------------------
(* The back end: threadFunc().                                             *)

HasLines(pointer) == pointer # Null /\ pointer[1] # <<>>

(* What the back end finds under the mutex: the queued buffers and the     *)
(* current one, if anything is in it.                                      *)
Pushed == IF HasLines(currentBuffer_) THEN buffers_ \o currentBuffer_ ELSE buffers_

While ==
  /\ bpc = "while"
  /\ bpc' = IF running_ THEN "lock" ELSE "flush"
  /\ UNCHANGED <<front, back, files, logger, second, lost, aborted>>

(* Mutated form: newBuffer1 is not looked at.                              *)
QueuedAlwaysReuses == IF Pushed # <<>> THEN Front(Pushed) ELSE Pushed

(* Without a newBuffer1 the last of the queued buffers becomes the new     *)
(* current buffer, and is emptied for that.                                *)
Queued == IF newBuffer1 = Null /\ Pushed # <<>> THEN Front(Pushed) ELSE Pushed

(* A backlog is cut to its first two buffers.                              *)
Kept(queue) == IF Len(queue) > MaxBacklog THEN SubSeq(queue, 1, 2) ELSE queue

Dropped(queue) ==
  IF Len(queue) > MaxBacklog
    THEN UNION {Range(queue[i]) : i \in 3..Len(queue)}
    ELSE {}

(* From the wake-up, or the test that made waiting unnecessary, to the     *)
(* unlock; then the cut of the backlog, which is local to the thread.      *)
Collect ==
  /\ currentBuffer_' = NewBuffer
  /\ newBuffer1' = Null
  /\ buffers_' = buffersToWrite
  /\ buffersToWrite' = Kept(Queued)
  /\ nextBuffer_' = NewBuffer
  /\ newBuffer2' = IF nextBuffer_ = Null THEN Null ELSE newBuffer2
  /\ lost' = lost \cup Dropped(Queued)
  /\ bpc' = IF Queued = <<>> THEN "while" ELSE "write"
  /\ UNCHANGED <<written, files, logger, second, aborted>>

Lock ==
  /\ bpc = "lock"
  /\ \/ Pushed # <<>> /\ Collect
     \/ /\ Pushed = <<>>
        /\ bpc' = "wait"
        /\ UNCHANGED <<front, back, files, logger, second, lost, aborted>>

(* Mutated form: a wait without timeout.                                   *)
WaitEndsNotifiedOnly == IdleTimeout \/ buffers_ # <<>> \/ ~running_

(* Mutated form: the wait goes on until something is logged.               *)
WaitEndsByLinesOnly == IdleTimeout \/ Pushed # <<>>

(* The wait ends by a notification, the timeout or a spurious wake-up.     *)
WaitEnds == IdleTimeout \/ Pushed # <<>> \/ ~running_

Wake == bpc = "wait" /\ WaitEnds /\ Collect

(* Mutated form: the serial number is left out.                            *)
RollFileOverwrites == archive' = [archive EXCEPT ![second] = <<logFile>>]

(* rollFile(): the file is renamed to <basename_>.<second>.log or, when    *)
(* that exists, the first free <basename_>.<second>.<count>.log.           *)
RollFile == archive' = [archive EXCEPT ![second] = Append(@, logFile)]

(* One buffer is written: a long file is rolled, and fopen may fail.       *)
RollIfLong ==
  IF Len(logFile) >= RollSize THEN RollFile ELSE UNCHANGED archive

StillOpen == IF Len(logFile) >= RollSize THEN <<>> ELSE logFile

WriteBuffer ==
  /\ bpc = "write" /\ written < Len(buffersToWrite)
  /\ RollIfLong
  /\ \/ logFile' = StillOpen \o buffersToWrite[written + 1] /\ UNCHANGED lost
     \/ logFile' = StillOpen /\ lost' = lost \cup Range(buffersToWrite[written + 1])
  /\ written' = written + 1
  /\ UNCHANGED <<front, newBuffer1, newBuffer2, buffersToWrite, logger, bpc, second, aborted>>

(* The spare buffers that were used up.                                    *)
Wanted == (IF newBuffer1 = Null THEN 1 ELSE 0) + (IF newBuffer2 = Null THEN 1 ELSE 0)

(* Two of the written buffers at most replace them; two asserts say that   *)
(* there are enough.                                                       *)
Recycle ==
  /\ bpc = "write" /\ written = Len(buffersToWrite)
  /\ IF Wanted <= Len(buffersToWrite)
       THEN /\ newBuffer1' = NewBuffer /\ newBuffer2' = NewBuffer
            /\ buffersToWrite' = <<>> /\ written' = 0
            /\ bpc' = "while"
            /\ UNCHANGED aborted
       ELSE aborted' = TRUE /\ UNCHANGED <<back, bpc>>
  /\ UNCHANGED <<front, files, logger, second, lost>>

(* The final flush: what is left is taken under the mutex, then written    *)
(* without rolling.                                                        *)
FinalLock ==
  /\ bpc = "flush"
  /\ currentBuffer_' = IF HasLines(currentBuffer_) THEN Null ELSE currentBuffer_
  /\ buffers_' = <<>>
  /\ buffersToWrite' = Pushed
  /\ bpc' = "last"
  /\ UNCHANGED <<nextBuffer_, newBuffer1, newBuffer2, written, files, logger, second,
                 lost, aborted>>

FinalWrite ==
  /\ bpc = "last"
  /\ \/ logFile' = logFile \o FlattenSeq(buffersToWrite) /\ UNCHANGED lost
     \/ UNCHANGED logFile /\ lost' = lost \cup Range(FlattenSeq(buffersToWrite))
  /\ buffersToWrite' = <<>>
  /\ bpc' = "done"
  /\ UNCHANGED <<front, newBuffer1, newBuffer2, written, archive, logger, second, aborted>>

Tick ==
  /\ ~aborted /\ bpc # "done" /\ second < MaxSecond
  /\ second' = second + 1
  /\ UNCHANGED <<front, back, files, logger, bpc, lost, aborted>>

BackEnd ==
  ~aborted /\ (While \/ Lock \/ Wake \/ WriteBuffer \/ Recycle \/ FinalLock \/ FinalWrite)

Next == LogLine \/ Stop \/ Disable \/ BackEnd \/ Tick

(* The back-end thread is scheduled and its timed wait ends;               *)
(* disableAsyncLogging() does not stay in a join that can return.          *)
Spec == Init /\ [][Next]_vars /\ WF_vars(BackEnd) /\ WF_vars(Disable)

-----------------------------------------------------------------------------
(* Properties.                                                             *)

IsPointer(p) == Len(p) <= 1
IsBuffer(b) == Len(b) < KBufferSize /\ Range(b) \subseteq Lines

(* Pointers hold at most one buffer, and no buffer outgrows kBufferSize,   *)
(* so that append() never makes a vector reallocate.                       *)
TypeOK ==
  /\ \A p \in {currentBuffer_, nextBuffer_, newBuffer1, newBuffer2} :
       IsPointer(p) /\ \A b \in Range(p) : IsBuffer(b)
  /\ \A b \in Range(buffers_) \cup Range(buffersToWrite) : IsBuffer(b)
  /\ written \in 0..Len(buffersToWrite)
  /\ bpc \in {"while", "lock", "wait", "write", "flush", "last", "done"}
  /\ spc \in {"no stop", "join", "stopped", "reset", "disabled"}
  /\ lost \subseteq Lines /\ appended \in 0..MaxLines

Archived == FlattenSeq([i \in 1..(MaxSecond + 1) |-> FlattenSeq(archive[i - 1])])
InFiles == Archived \o logFile
Unwritten ==
  FlattenSeq(SubSeq(buffersToWrite, written + 1, Len(buffersToWrite))
             \o buffers_ \o currentBuffer_)

Ascending(s) == \A i, j \in DOMAIN s : i < j => s[i] < s[j]

(* The log is complete and in order: the rolled files by their names, the  *)
(* log file, the buffers still to be written and, at last, the Logger's    *)
(* own file hold every line once, in the order in which they were logged,  *)
(* except for a dropped backlog and failed fopen calls.                    *)
LogComplete ==
  LET log == InFiles \o Unwritten \o syncLog IN
  Ascending(log) /\ Range(log) = (1..appended) \ lost

(* The asserts of threadFunc hold (a round that used up both spare buffers *)
(* has written two buffers to recycle), and append() finds a buffer.       *)
NoAssertionFails == ~aborted

(* stop() returns only when every line is in a file or was given up: no    *)
(* buffer with lines is left for the back end, which has written all it    *)
(* took.                                                                   *)
StopFlushes == spc \notin {"no stop", "join"} => Pushed \o buffersToWrite = <<>>

(* A line that was logged reaches a file, or is given up, without help     *)
(* from further lines: the timed wait does flush.                          *)
LineReachesFile ==
  \A line \in Lines :
    appended >= line ~> line \in Range(InFiles \o syncLog) \cup lost

(* stop() returns, although it sets running_ without the mutex and its     *)
(* notification may come before the back end waits; logging is then        *)
(* synchronous.                                                            *)
StopReturns == spc = "join" ~> spc = "disabled"
=============================================================================
