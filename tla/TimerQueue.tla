----------------------------- MODULE TimerQueue -----------------------------
(***************************************************************************)
(* TimerQueue and Timer (src/src/TimerQueue.cpp, include/knetlib/Timer.h)  *)
(* in an EventLoop: the ordered set of timers, the one timerfd that is     *)
(* armed for the earliest, the batch of expired timers handleRead works    *)
(* off, and the Timer objects that callers hold by raw pointer.            *)
(*                                                                         *)
(* Time is relative and counted in the milliseconds that durationFromNow   *)
(* rounds up to: when_[x] is how far ahead timer x is due (negative: late) *)
(* and the timerfd is off, counting down, or at 0 and readable.  The loop  *)
(* runs the tasks other threads queue in order (Executor).                 *)
(***************************************************************************)
EXTENDS Integers, Sequences, FiniteSets, SequencesExt

CONSTANTS
  N,             \* bound: Timer objects allocated in one behaviour
  MaxDelay,      \* bound: the largest delay
  MaxInterval,   \* bound: the largest interval
  MaxLate,       \* bound: lateness is counted up to this (a later timer is
                 \* as late as this one)
  MaxQueue       \* bound: tasks of other threads queued at the same time

ASSUME TimerBoundsAssumption ==
  /\ N \in Nat /\ MaxLate \in Nat /\ MaxQueue \in Nat
  /\ MaxDelay \in Nat \ {0} /\ MaxInterval \in 1..MaxDelay

Timers == 1..N  \* in the order of their addresses
None == 0
Off == -1

VARIABLES
  memory,     \* per Timer object: "unused", "alive" or "freed"
  when_,      \* Timer::when_, relative to now
  interval_,  \* Timer::interval_, 0 for a timer that does not repeat
  canceled_,  \* the timers whose Timer::canceled_ is set
  timers_,    \* TimerQueue::timers_, ordered by when_ and address
  timerfd,    \* time until the timerfd is readable, or Off
  active,     \* is timerChannel_ among the active channels still to handle?
  expired,    \* the entries of handleRead's batch not yet done
  lpc,        \* the loop thread: "loop", "user", "batch" or "callback"
  queue,      \* tasks queued by other threads: <<operation, timer>>
  asked,      \* the timers cancelTimer() was called for
  stray,      \* history: did a cancelTimer() find no entry for its timer?
  fault       \* the undefined behaviour or assert that was met

vars == <<memory, when_, interval_, canceled_, timers_, timerfd, active,
          expired, lpc, queue, asked, stray, fault>>

TypeOK ==
  /\ memory \in [Timers -> {"unused", "alive", "freed"}]
  /\ when_ \in [Timers -> -MaxLate..MaxDelay]
  /\ interval_ \in [Timers -> 0..MaxInterval]
  /\ canceled_ \subseteq Timers /\ timers_ \subseteq Timers /\ asked \subseteq Timers
  /\ timerfd \in {Off} \cup 0..MaxDelay
  /\ active \in BOOLEAN /\ stray \in BOOLEAN
  /\ Range(expired) \subseteq Timers
  /\ lpc \in {"loop", "user", "batch", "callback"}
  /\ Range(queue) \subseteq {"add", "cancel"} \X Timers

Init ==
  /\ memory = [x \in Timers |-> "unused"]
  /\ when_ = [x \in Timers |-> 0]
  /\ interval_ = [x \in Timers |-> 0]
  /\ canceled_ = {} /\ timers_ = {} /\ asked = {}
  /\ timerfd = Off /\ active = FALSE
  /\ expired = <<>>
  /\ lpc = "loop"
  /\ queue = <<>>
  /\ stray = FALSE /\ fault = "none"

Running == fault = "none"
Alive(x) == memory[x] = "alive"

-----------------------------------------------------------------------------
(* The timerfd and the ordered set.                                        *)

(* timerfd_settime: zero disarms the timer, a negative time is refused.    *)
Settime(left) ==
  CASE left > 0 -> left
    [] left = 0 -> Off
    [] left < 0 -> timerfd

(* timerfdSet with durationFromNow: at least one millisecond.              *)
TimerfdSet(left) == Settime(IF left < 1 THEN 1 ELSE left)

Before(x, y) == when_[x] < when_[y] \/ (when_[x] = when_[y] /\ x < y)
IsFirst(x, S) == \A y \in S \ {x} : Before(x, y)

Due == {x \in timers_ : when_[x] <= 0}

(* getExpired: the entries that are due, in order.                         *)
GetExpired(batch) ==
  /\ Range(batch) = Due
  /\ \A i, j \in DOMAIN batch : i < j => Before(batch[i], batch[j])

(* Mutated form: only the first timer of an empty queue arms the timerfd.  *)
InsertArmsOnce(x, left) ==
  /\ timers_' = timers_ \cup {x}
  /\ timerfd' = IF timers_ = {} THEN TimerfdSet(left) ELSE timerfd

(* addTimer's task, for a timer due in left: insert, and arm the timerfd   *)
(* if the new entry is the first one.                                      *)
Insert(x, left) ==
  /\ timers_' = timers_ \cup {x}
  /\ timerfd' = IF \A y \in timers_ : left < when_[y] \/ (left = when_[y] /\ x < y)
                THEN TimerfdSet(left) ELSE timerfd

(* delete; the due time is kept while a queued addTimer still holds it.    *)
Free(x) ==
  /\ memory' = [memory EXCEPT ![x] = "freed"]
  /\ when_' = IF <<"add", x>> \in Range(queue) THEN when_ ELSE [when_ EXCEPT ![x] = 0]

(* Mutated form: the entry stays in the queue.                             *)
CancelWithoutErase(x) ==
  /\ canceled_' = canceled_ \cup {x}
  /\ stray' = (stray \/ x \notin timers_)
  /\ Free(x)
  /\ UNCHANGED <<timers_, fault>>

(* cancelTimer's task: mark, erase if found, delete in any case.           *)
Cancel(x) ==
  /\ stray' = (stray \/ x \notin timers_)
  /\ IF Alive(x) /\ x \notin canceled_
     THEN /\ canceled_' = canceled_ \cup {x}
          /\ timers_' = timers_ \ {x}
          /\ Free(x)
          /\ UNCHANGED fault
     ELSE /\ fault' = IF Alive(x) THEN "assert" ELSE "use after free"
          /\ UNCHANGED <<canceled_, timers_, memory, when_>>

-----------------------------------------------------------------------------
(* Callers: the loop thread's user code (in a timer's callback, that of    *)
(* another channel or a task) and other threads.  cancelTimer() is called  *)
(* at any time, also for a Timer that has run, but once per Timer.         *)

UserBegin ==
  /\ Running /\ lpc = "loop"
  /\ lpc' = "user"
  /\ UNCHANGED <<memory, when_, interval_, canceled_, timers_, timerfd, active,
                 expired, queue, asked, stray, fault>>

UserReturn ==
  /\ Running /\ lpc = "user"
  /\ lpc' = "loop"
  /\ UNCHANGED <<memory, when_, interval_, canceled_, timers_, timerfd, active,
                 expired, queue, asked, stray, fault>>

InUserCode == Running /\ lpc \in {"user", "callback"}

(* new Timer in addTimer (runAt, runAfter, runEvery).                      *)
Allocate(x, delay, interval) ==
  /\ memory[x] = "unused"
  /\ memory' = [memory EXCEPT ![x] = "alive"]
  /\ when_' = [when_ EXCEPT ![x] = delay]
  /\ interval_' = [interval_ EXCEPT ![x] = interval]

(* addTimer in the loop thread: the task is run at once.                   *)
AddTimer(x, delay, interval) ==
  /\ InUserCode
  /\ Allocate(x, delay, interval)
  /\ Insert(x, delay)
  /\ UNCHANGED <<canceled_, active, expired, lpc, queue, asked, stray, fault>>

MayCancel(x) == memory[x] # "unused" /\ x \notin asked

CancelTimer(x) ==
  /\ InUserCode
  /\ MayCancel(x)
  /\ asked' = asked \cup {x}
  /\ Cancel(x)
  /\ UNCHANGED <<interval_, timerfd, active, expired, lpc, queue>>

(* The same calls from another thread: the work is queued.                 *)
ThreadAddTimer(x, delay, interval) ==
  /\ Running /\ Len(queue) < MaxQueue
  /\ Allocate(x, delay, interval)
  /\ queue' = Append(queue, <<"add", x>>)
  /\ UNCHANGED <<canceled_, timers_, timerfd, active, expired, lpc, asked, stray,
                 fault>>

ThreadCancelTimer(x) ==
  /\ Running /\ Len(queue) < MaxQueue
  /\ MayCancel(x)
  /\ asked' = asked \cup {x}
  /\ queue' = Append(queue, <<"cancel", x>>)
  /\ UNCHANGED <<memory, when_, interval_, canceled_, timers_, timerfd, active,
                 expired, lpc, stray, fault>>

-----------------------------------------------------------------------------
(* The loop thread.                                                        *)

RunAdd ==
  /\ Running /\ lpc = "loop" /\ ~active
  /\ queue # <<>> /\ Head(queue)[1] = "add"
  /\ Insert(Head(queue)[2], when_[Head(queue)[2]])
  /\ queue' = Tail(queue)
  /\ UNCHANGED <<memory, when_, interval_, canceled_, active, expired, lpc, asked,
                 stray, fault>>

RunCancel ==
  /\ Running /\ lpc = "loop" /\ ~active
  /\ queue # <<>> /\ Head(queue)[1] = "cancel"
  /\ Cancel(Head(queue)[2])
  /\ queue' = Tail(queue)
  /\ UNCHANGED <<interval_, timerfd, active, expired, lpc, asked>>

(* epoll_wait reports the timerfd.  The callbacks of other channels of the *)
(* same round may come before handleRead, queued tasks come after it.      *)
Poll ==
  /\ Running /\ lpc = "loop" /\ ~active
  /\ timerfd = 0
  /\ active' = TRUE
  /\ UNCHANGED <<memory, when_, interval_, canceled_, timers_, timerfd, expired,
                 lpc, queue, asked, stray, fault>>

(* handleRead, up to the batch: the timerfd, read, is off until set again. *)
(* If a callback before it has set the timerfd meanwhile, the read fails,  *)
(* which is only logged.                                                   *)
HandleRead ==
  /\ Running /\ lpc = "loop" /\ active
  /\ active' = FALSE
  /\ timerfd' = IF timerfd = 0 THEN Off ELSE timerfd
  /\ expired' \in [1..Cardinality(Due) -> Due] /\ GetExpired(expired')
  /\ timers_' = timers_ \ Due
  /\ lpc' = "batch"
  /\ UNCHANGED <<memory, when_, interval_, canceled_, queue, asked, stray, fault>>

(* The next entry: its callback is called, unless it was cancelled.        *)
RunExpired ==
  /\ Running /\ lpc = "batch" /\ expired # <<>>
  /\ IF Alive(Head(expired))
     THEN lpc' = "callback" /\ UNCHANGED fault
     ELSE fault' = "use after free" /\ UNCHANGED lpc
  /\ UNCHANGED <<memory, when_, interval_, canceled_, timers_, timerfd, active,
                 expired, queue, asked, stray>>

(* Mutated form: a timer that has done its work is not deleted.            *)
RestartOrForget(x) ==
  IF interval_[x] > 0
  THEN /\ when_' = [when_ EXCEPT ![x] = @ + interval_[x]]
       /\ timers_' = timers_ \cup {x}
       /\ UNCHANGED memory
  ELSE UNCHANGED <<memory, when_, timers_>>

(* A repeating timer is due one interval after it was due, not after now.  *)
RestartOrDelete(x) ==
  IF interval_[x] > 0
  THEN /\ when_' = [when_ EXCEPT ![x] = @ + interval_[x]]
       /\ timers_' = timers_ \cup {x}
       /\ UNCHANGED memory
  ELSE Free(x) /\ UNCHANGED timers_

(* The callback returns; handleRead looks at the Timer again.              *)
CallbackDone ==
  /\ Running /\ lpc = "callback"
  /\ IF Alive(Head(expired))
     THEN RestartOrDelete(Head(expired)) /\ UNCHANGED fault
     ELSE fault' = "use after free" /\ UNCHANGED <<memory, when_, timers_>>
  /\ expired' = Tail(expired)
  /\ lpc' = "batch"
  /\ UNCHANGED <<interval_, canceled_, timerfd, active, queue, asked, stray>>

(* Mutated form: the timerfd is left off.                                  *)
BatchDoneWithoutArming ==
  /\ Running /\ lpc = "batch" /\ expired = <<>>
  /\ lpc' = "loop"
  /\ UNCHANGED <<memory, when_, interval_, canceled_, timers_, timerfd, active,
                 expired, queue, asked, stray, fault>>

(* The end of handleRead: arm for what is now the first timer.             *)
BatchDone ==
  /\ Running /\ lpc = "batch" /\ expired = <<>>
  /\ lpc' = "loop"
  /\ \/ timers_ = {} /\ UNCHANGED timerfd
     \/ \E x \in timers_ : IsFirst(x, timers_) /\ timerfd' = TimerfdSet(when_[x])
  /\ UNCHANGED <<memory, when_, interval_, canceled_, timers_, active, expired,
                 queue, asked, stray, fault>>

(* A millisecond passes, at any point, for what is in use or in an entry.  *)
Timed(x) == Alive(x) \/ x \in timers_ \/ <<"add", x>> \in Range(queue)

Tick ==
  /\ Running
  /\ when_' = [x \in Timers |-> IF Timed(x) /\ when_[x] > -MaxLate
                                THEN when_[x] - 1 ELSE when_[x]]
  /\ timerfd' = IF timerfd > 0 THEN timerfd - 1 ELSE timerfd
  /\ UNCHANGED <<memory, interval_, canceled_, timers_, active, expired, lpc,
                 queue, asked, stray, fault>>

-----------------------------------------------------------------------------
BatchStep == RunExpired \/ CallbackDone \/ BatchDone
QueueStep == RunAdd \/ RunCancel

Next ==
  \/ UserBegin \/ UserReturn \/ QueueStep \/ Poll \/ HandleRead \/ BatchStep \/ Tick
  \/ \E x \in Timers :
       \/ CancelTimer(x) \/ ThreadCancelTimer(x)
       \/ \E delay \in 0..MaxDelay, interval \in 0..MaxInterval :
            AddTimer(x, delay, interval) \/ ThreadAddTimer(x, delay, interval)

(* Time passes; callbacks return; every turn of loop() polls the timerfd   *)
(* and handles its channel, whatever else the loop thread is asked to do.  *)
Fairness ==
  /\ WF_vars(Tick)
  /\ WF_vars(BatchStep \/ UserReturn)
  /\ SF_vars(Poll \/ HandleRead)

Spec == Init /\ [][Next]_vars /\ Fairness

-----------------------------------------------------------------------------
(* Properties.                                                             *)

(* While a timer is pending and handleRead is not about to re-arm it, the  *)
(* timerfd is on and goes off no later than the first timer is due, or     *)
(* within the millisecond durationFromNow rounds up to: no addTimer,       *)
(* cancelTimer or restart leaves the queue without its alarm.              *)
NoForgottenTimer ==
  lpc \in {"loop", "user"} /\ timers_ # {}
    => timerfd # Off /\ \A x \in timers_ : timerfd <= when_[x] \/ timerfd <= 1

(* No Timer is used after it was deleted, neither by cancelTimer nor by    *)
(* handleRead, which holds raw pointers across the callbacks it makes, nor *)
(* through a queued task, unless some cancelTimer() came to the end of     *)
(* timers_ without finding its Timer and deleted it all the same.          *)
UseAfterFreeOnlyByStray == fault = "use after free" => stray

(* Every Timer that was not deleted is still to be found: pending, in the  *)
(* batch being worked off, or in a queued addTimer.                        *)
NoLeak ==
  \A x \in Timers : Alive(x) =>
    x \in timers_ \cup Range(expired) \/ <<"add", x>> \in Range(queue)

(* A pending timer's callback is run in the end, unless it is cancelled or *)
(* a stray cancelTimer() has ended the program.                            *)
TimerRuns ==
  \A x \in Timers :
    x \in timers_ ~> ((lpc = "callback" /\ Head(expired) = x) \/ ~Alive(x) \/ ~Running)
=============================================================================
