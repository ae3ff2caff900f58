----------------------------- MODULE EventLoop -----------------------------
(***************************************************************************)
(* The reactor core of KnetLib (src/src/EventLoop.cpp, src/src/Epoll.cpp): *)
(* one loop thread that waits in epoll_wait, handles the active channels   *)
(* and then runs the tasks other threads (and its own callbacks) queued.   *)
(*                                                                         *)
(* The step between the unlock in queueInLoop and the write to the eventfd *)
(* (and between the two statements of quit) is a state of its own for the  *)
(* other threads: the loop thread runs freely in between.  The loop        *)
(* thread's own calls are one step: only other threads could see the       *)
(* middle, and they read none of what changes there.  runInLoop is         *)
(* queueInLoop for another thread; for the loop thread it runs the task in *)
(* place, as part of the callback that called it.                          *)
(***************************************************************************)
EXTENDS Naturals, Sequences, FiniteSets

CONSTANTS
  Threads,          \* the threads other than the loop thread
  LoopThread,       \* the thread the EventLoop was constructed in (tid_)
  MaxTasks,         \* bound: queueInLoop calls in one behaviour
  EventfdMax,       \* value at which a write to the eventfd fails with EAGAIN
  QueueBeforeLoop   \* TRUE: the loop thread may queueInLoop outside loop()

ASSUME ThreadsAssumption  == LoopThread \notin Threads
ASSUME MaxTasksAssumption == MaxTasks \in Nat
ASSUME EventfdAssumption  == EventfdMax \in Nat \ {0}
ASSUME QueueBeforeLoopAssumption == QueueBeforeLoop \in BOOLEAN

VARIABLES
  lpc,                \* where the loop thread is
  quit_,              \* EventLoop::quit_
  doingPendingTasks_, \* EventLoop::doingPendingTasks_
  wakeupfd,           \* the counter of the eventfd wakeupfd_
  activeChannels_,    \* the ready channels still to be handled
  pendingTasks_,      \* EventLoop::pendingTasks_
  tasks,              \* the part of doPendingTasks' batch that has not run
  call,               \* per thread: is a wakeup() call still to come?
  enqueued,           \* history: every task queueInLoop accepted, in order
  executed            \* history: every queued task the loop ran, in order

vars == <<lpc, quit_, doingPendingTasks_, wakeupfd, activeChannels_,
          pendingTasks_, tasks, call, enqueued, executed>>

(* "idle": outside loop(), the thread runs user code.  "event", "task": a  *)
(* channel callback, respectively a queued task, is running user code.     *)
LoopPc == {"idle", "while", "poll", "handle", "event", "swap", "tasks", "task"}

(* The loop's own wakeup channel, and one that stands for all the others   *)
(* (sockets, timerfd).                                                     *)
Channel == {"wakeup", "io"}

Task == [by : Threads \cup {LoopThread}, id : 1..MaxTasks]

TypeOK ==
  /\ lpc \in LoopPc
  /\ quit_ \in BOOLEAN
  /\ doingPendingTasks_ \in BOOLEAN
  /\ wakeupfd \in 0..EventfdMax
  /\ activeChannels_ \in SUBSET Channel
  /\ pendingTasks_ \in Seq(Task)
  /\ tasks \in Seq(Task)
  /\ call \in [Threads -> {"none", "wakeup"}]
  /\ enqueued \in Seq(Task)
  /\ executed \in Seq(Task)

(* EventLoop::EventLoop, the state the constructor leaves.                 *)
Init ==
  /\ lpc = "idle"
  /\ quit_ = FALSE
  /\ doingPendingTasks_ = FALSE
  /\ wakeupfd = 0
  /\ activeChannels_ = {}
  /\ pendingTasks_ = <<>>
  /\ tasks = <<>>
  /\ call = [t \in Threads |-> "none"]
  /\ enqueued = <<>>
  /\ executed = <<>>

-----------------------------------------------------------------------------
(* The calls of other threads.                                             *)

(* A write to a non-blocking eventfd: EAGAIN at the limit is only logged.  *)
Written(counter) == IF counter < EventfdMax THEN counter + 1 ELSE counter

NewTask(t) == [by |-> t, id |-> Len(enqueued) + 1]

(* push_back under mutex_.                                                 *)
Push(task) ==
  /\ Len(enqueued) < MaxTasks
  /\ pendingTasks_' = Append(pendingTasks_, task)
  /\ enqueued' = Append(enqueued, task)

(* Mutated form: the wakeup is forgotten.                                  *)
QueueInLoopWithoutWakeup(t) ==
  /\ call[t] = "none"
  /\ Push(NewTask(t))
  /\ UNCHANGED <<lpc, quit_, doingPendingTasks_, wakeupfd, activeChannels_,
                 tasks, call, executed>>

(* queueInLoop, up to the end of the critical section.                     *)
QueueInLoop(t) ==
  /\ call[t] = "none"
  /\ Push(NewTask(t))
  /\ call' = [call EXCEPT ![t] = "wakeup"]
  /\ UNCHANGED <<lpc, quit_, doingPendingTasks_, wakeupfd, activeChannels_,
                 tasks, executed>>

(* Mutated form: the wakeup is forgotten.                                  *)
QuitWithoutWakeup(t) ==
  /\ call[t] = "none"
  /\ quit_' = TRUE
  /\ UNCHANGED <<lpc, doingPendingTasks_, wakeupfd, activeChannels_,
                 pendingTasks_, tasks, call, enqueued, executed>>

(* quit, its first statement.                                              *)
Quit(t) ==
  /\ call[t] = "none"
  /\ quit_' = TRUE
  /\ call' = [call EXCEPT ![t] = "wakeup"]
  /\ UNCHANGED <<lpc, doingPendingTasks_, wakeupfd, activeChannels_,
                 pendingTasks_, tasks, enqueued, executed>>

(* wakeup, which ends both calls.                                          *)
Wakeup(t) ==
  /\ call[t] = "wakeup"
  /\ wakeupfd' = Written(wakeupfd)
  /\ call' = [call EXCEPT ![t] = "none"]
  /\ UNCHANGED <<lpc, quit_, doingPendingTasks_, activeChannels_,
                 pendingTasks_, tasks, enqueued, executed>>

-----------------------------------------------------------------------------
(* The calls of the loop thread's own user code.                           *)

InUserCode == lpc \in {"event", "task"} \cup (IF QueueBeforeLoop THEN {"idle"} ELSE {})

(* Mutated form: no wakeup while queued tasks run either.                  *)
LoopQueueInLoopNeverWakes ==
  /\ InUserCode
  /\ Push(NewTask(LoopThread))
  /\ UNCHANGED <<lpc, quit_, doingPendingTasks_, wakeupfd, activeChannels_,
                 tasks, call, executed>>

(* queueInLoop: no wakeup unless the loop is running queued tasks.         *)
LoopQueueInLoop ==
  /\ InUserCode
  /\ Push(NewTask(LoopThread))
  /\ wakeupfd' = IF doingPendingTasks_ THEN Written(wakeupfd) ELSE wakeupfd
  /\ UNCHANGED <<lpc, quit_, doingPendingTasks_, activeChannels_, tasks,
                 call, executed>>

(* quit: no wakeup, the loop thread is about to test quit_ itself.         *)
LoopQuit ==
  /\ lpc \in {"event", "task"}
  /\ quit_' = TRUE
  /\ UNCHANGED <<lpc, doingPendingTasks_, wakeupfd, activeChannels_,
                 pendingTasks_, tasks, call, enqueued, executed>>

-----------------------------------------------------------------------------
(* loop(), poll() and doPendingTasks().                                    *)

LoopVarsOutsidePc == <<doingPendingTasks_, wakeupfd, pendingTasks_, tasks,
                       call, enqueued, executed>>

EnterLoop ==
  /\ lpc = "idle"
  /\ quit_' = FALSE
  /\ lpc' = "while"
  /\ UNCHANGED <<activeChannels_, LoopVarsOutsidePc>>

(* The test of the while statement; activeChannels_.clear() follows it.    *)
While ==
  /\ lpc = "while"
  /\ lpc' = IF quit_ THEN "idle" ELSE "poll"
  /\ activeChannels_' = {}
  /\ UNCHANGED <<quit_, LoopVarsOutsidePc>>

(* epoll_wait (no timeout) returns because the eventfd is readable; level  *)
(* triggered, so it is reported whenever it is, alone or with others.      *)
PollWakeup ==
  /\ lpc = "poll"
  /\ wakeupfd > 0
  /\ \E others \in SUBSET {"io"} : activeChannels_' = {"wakeup"} \cup others
  /\ lpc' = "handle"
  /\ UNCHANGED <<quit_, LoopVarsOutsidePc>>

(* epoll_wait returns for another channel, or with EINTR for none.         *)
PollOther ==
  /\ lpc = "poll"
  /\ wakeupfd = 0
  /\ activeChannels_' \in SUBSET {"io"}
  /\ lpc' = "handle"
  /\ UNCHANGED <<quit_, LoopVarsOutsidePc>>

(* EventLoop::handleRead, the wakeup channel's read callback: one read     *)
(* sets the counter to 0.                                                  *)
HandleRead ==
  /\ lpc = "handle"
  /\ "wakeup" \in activeChannels_
  /\ wakeupfd' = 0
  /\ activeChannels_' = activeChannels_ \ {"wakeup"}
  /\ UNCHANGED <<lpc, quit_, doingPendingTasks_, pendingTasks_, tasks, call,
                 enqueued, executed>>

(* Another channel's handleEvents(): its callback runs, then returns.      *)
HandleEvents ==
  /\ lpc = "handle"
  /\ "io" \in activeChannels_
  /\ activeChannels_' = activeChannels_ \ {"io"}
  /\ lpc' = "event"
  /\ UNCHANGED <<quit_, LoopVarsOutsidePc>>

EventDone ==
  /\ lpc = "event"
  /\ lpc' = "handle"
  /\ UNCHANGED <<quit_, activeChannels_, LoopVarsOutsidePc>>

AllHandled ==
  /\ lpc = "handle"
  /\ activeChannels_ = {}
  /\ lpc' = "swap"
  /\ UNCHANGED <<quit_, activeChannels_, LoopVarsOutsidePc>>

(* Mutated form: the queue is copied and cleared only when the batch ends. *)
DoPendingTasksCopy ==
  /\ lpc = "swap"
  /\ tasks' = pendingTasks_
  /\ doingPendingTasks_' = TRUE
  /\ lpc' = "tasks"
  /\ UNCHANGED <<quit_, wakeupfd, activeChannels_, pendingTasks_, call,
                 enqueued, executed>>

(* doPendingTasks: the swap under mutex_.                                  *)
DoPendingTasks ==
  /\ lpc = "swap"
  /\ tasks' = pendingTasks_
  /\ pendingTasks_' = <<>>
  /\ doingPendingTasks_' = TRUE
  /\ lpc' = "tasks"
  /\ UNCHANGED <<quit_, wakeupfd, activeChannels_, call, enqueued, executed>>

RunTask ==
  /\ lpc = "tasks"
  /\ tasks # <<>>
  /\ tasks' = Tail(tasks)
  /\ executed' = Append(executed, Head(tasks))
  /\ lpc' = "task"
  /\ UNCHANGED <<quit_, doingPendingTasks_, wakeupfd, activeChannels_,
                 pendingTasks_, call, enqueued>>

TaskDone ==
  /\ lpc = "task"
  /\ lpc' = "tasks"
  /\ UNCHANGED <<quit_, activeChannels_, LoopVarsOutsidePc>>

BatchDone ==
  /\ lpc = "tasks"
  /\ tasks = <<>>
  /\ doingPendingTasks_' = FALSE
  /\ lpc' = "while"
  /\ UNCHANGED <<quit_, wakeupfd, activeChannels_, pendingTasks_, tasks,
                 call, enqueued, executed>>

-----------------------------------------------------------------------------
(* What the loop thread does by itself once it is in loop(): everything    *)
(* but what depends on the outside world (I/O, signals) or on what user    *)
(* code chooses to call.                                                   *)
LoopStep ==
  \/ While \/ PollWakeup \/ HandleRead \/ HandleEvents \/ EventDone
  \/ AllHandled \/ DoPendingTasks \/ RunTask \/ TaskDone \/ BatchDone

LoopUserCode == LoopQueueInLoop \/ LoopQuit \/ EnterLoop

ThreadStep(t) == QueueInLoop(t) \/ Quit(t) \/ Wakeup(t)

Next ==
  \/ LoopStep
  \/ PollOther
  \/ LoopUserCode
  \/ \E t \in Threads : ThreadStep(t)

(* The scheduler runs the loop thread and callbacks return; a thread that  *)
(* has pushed a task or set quit_ goes on to write the eventfd.  Nobody    *)
(* is obliged to call anything, and no I/O need ever happen.               *)
Fairness ==
  /\ WF_vars(LoopStep)
  /\ \A t \in Threads : WF_vars(Wakeup(t))

Spec == Init /\ [][Next]_vars /\ Fairness

-----------------------------------------------------------------------------
(* Properties.                                                             *)

Signalled == wakeupfd > 0 \/ \E t \in Threads : call[t] = "wakeup"

(* While the loop thread is (about to be) blocked in the epoll_wait of     *)
(* Epoll::poll, which has no timeout, with a queued task to run or a quit  *)
(* to obey, the eventfd is readable or some thread is between its push     *)
(* (its quit_ = true) and its write: no wakeup is lost between queueInLoop *)
(* or quit and loop().                                                     *)
NoLostWakeup ==
  lpc = "poll" /\ (pendingTasks_ # <<>> \/ quit_) => Signalled

(* queueInLoop is a FIFO in the order of its critical sections: what ran,  *)
(* what is left of the batch doPendingTasks swapped out and what waits in  *)
(* pendingTasks_ are together exactly the tasks accepted, in order, none   *)
(* lost and none run twice, also across loop() returning and reentering.   *)
Fifo == enqueued = executed \o tasks \o pendingTasks_

(* The executor queueInLoop promises: the batch and the queue together are *)
(* what waits.                                                             *)
Promise == INSTANCE Executor WITH
  running <- lpc # "idle",
  waiting <- tasks \o pendingTasks_,
  done <- executed

(* EventLoop implements a serial executor: tasks run in the order accepted *)
(* and only inside loop(), and as long as loop() runs the next task is     *)
(* always run in the end, with no other event needed to get the loop out   *)
(* of epoll_wait.                                                          *)
ImplementsExecutor == Promise!Spec

(* A quit() called while loop() runs makes loop() return.                  *)
QuitStopsLoop == (quit_ /\ lpc # "idle") ~> lpc = "idle"

(* The parts of the inductive invariant behind NoLostWakeup and Fifo.  The *)
(* stretch from the return of epoll_wait to the swap is where a task may   *)
(* sit in the queue without a signal: the swap is still to come.           *)
BeforeSwap == lpc \in {"handle", "event", "swap"}

PhaseInv ==
  /\ doingPendingTasks_ <=> lpc \in {"tasks", "task"}
  /\ ~doingPendingTasks_ => tasks = <<>>
  /\ lpc \notin {"handle", "event"} => activeChannels_ = {}

SignalInv ==
  /\ pendingTasks_ # <<>> /\ ~BeforeSwap => Signalled
  /\ quit_ /\ lpc = "poll" => Signalled

(* Inductive by itself, whatever QueueBeforeLoop is.                       *)
QueueInv == TypeOK /\ PhaseInv /\ Fifo

IInv == QueueInv /\ SignalInv
=============================================================================
