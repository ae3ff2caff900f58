-------------------------- MODULE EventLoopProofs --------------------------
(***************************************************************************)
(* Proofs about EventLoop and, in the last part, about EventLoopThread,    *)
(* for any set of threads, any number of tasks and any capacity of the     *)
(* eventfd.                                                                *)
(***************************************************************************)
EXTENDS EventLoopThread, SequenceTheorems, TLAPS

(* Appending to the second of two concatenated queues appends to both.     *)
LEMMA AppendToConcat ==
  ASSUME NEW S, NEW s \in Seq(S), NEW t \in Seq(S), NEW e \in S
  PROVE  s \o Append(t, e) = Append(s \o t, e)
<1>1. s \o Append(t, e) \in Seq(S) /\ Append(s \o t, e) \in Seq(S)
  BY ConcatProperties, AppendProperties
<1>2. Len(s \o Append(t, e)) = Len(Append(s \o t, e))
  BY ConcatProperties, AppendProperties
<1>3. \A i \in 1..Len(s \o Append(t, e)) :
        (s \o Append(t, e))[i] = Append(s \o t, e)[i]
  OBVIOUS
<1> QED
  BY <1>1, <1>2, <1>3, SeqEqual

(* Moving the head of one queue to the end of another leaves their         *)
(* concatenation alone: what RunTask does to executed and tasks.           *)
LEMMA MoveHead ==
  ASSUME NEW S, NEW s \in Seq(S), NEW t \in Seq(S), t # <<>>
  PROVE  Append(s, Head(t)) \o Tail(t) = s \o t
<1>1. Head(t) \in S /\ Tail(t) \in Seq(S) /\ Len(Tail(t)) = Len(t) - 1
  BY HeadTailProperties
<1>2. Append(s, Head(t)) \in Seq(S) /\ Len(Append(s, Head(t))) = Len(s) + 1
  BY <1>1, AppendProperties
<1>3. Append(s, Head(t)) \o Tail(t) \in Seq(S) /\ s \o t \in Seq(S)
  BY <1>1, <1>2, ConcatProperties
<1>4. Len(Append(s, Head(t)) \o Tail(t)) = Len(s \o t)
  BY <1>1, <1>2, ConcatProperties, LenProperties
<1>5. \A i \in 1..Len(s \o t) :
        (Append(s, Head(t)) \o Tail(t))[i] = (s \o t)[i]
  <2> SUFFICES ASSUME NEW i \in 1..Len(s \o t)
               PROVE  (Append(s, Head(t)) \o Tail(t))[i] = (s \o t)[i]
    OBVIOUS
  <2>1. CASE i <= Len(s)
    BY <1>1, <1>2, <2>1
  <2>2. CASE i > Len(s)
    BY <1>1, <1>2, <2>2
  <2> QED BY <2>1, <2>2, LenProperties, ConcatProperties
<1> QED
  BY <1>3, <1>4, <1>5, SeqEqual

(* The head of a non-empty queue stays the head when another follows it.   *)
LEMMA HeadOfConcat ==
  ASSUME NEW S, NEW s \in Seq(S), NEW t \in Seq(S), s # <<>>
  PROVE  /\ Head(s \o t) = Head(s)
         /\ Tail(s \o t) = Tail(s) \o t
         /\ s \o t # <<>>
<1>1. /\ Len(s) \in Nat \ {0} /\ Len(t) \in Nat
      /\ s \o t \in Seq(S) /\ Len(s \o t) = Len(s) + Len(t)
  BY EmptySeq, LenProperties, ConcatProperties
<1>2. s \o t # <<>>
  BY <1>1, EmptySeq
<1>3. Head(s \o t) = Head(s)
  BY <1>1, <1>2, ConcatProperties
<1>4. /\ Tail(s) \in Seq(S) /\ Len(Tail(s)) = Len(s) - 1
      /\ Tail(s \o t) \in Seq(S) /\ Len(Tail(s \o t)) = Len(s) + Len(t) - 1
  BY <1>1, <1>2, HeadTailProperties
<1>5. /\ Tail(s) \o t \in Seq(S)
      /\ Len(Tail(s) \o t) = Len(s) + Len(t) - 1
  BY <1>1, <1>4, ConcatProperties
<1>6. \A i \in 1..(Len(s) + Len(t) - 1) : Tail(s \o t)[i] = (Tail(s) \o t)[i]
  BY <1>1, <1>2, <1>4, <1>5
<1> QED
  BY <1>2, <1>3, <1>4, <1>5, <1>6, SeqEqual

-----------------------------------------------------------------------------
(* A task handed to queueInLoop is a Task as long as the bound leaves room.*)
LEMMA NewTaskType ==
  ASSUME TypeOK, Len(enqueued) < MaxTasks, NEW t \in Threads \cup {LoopThread}
  PROVE  NewTask(t) \in Task
BY MaxTasksAssumption DEF NewTask, Task, TypeOK

(* A write never takes the eventfd out of its range and leaves it readable.*)
LEMMA WrittenProperties ==
  ASSUME NEW c \in 0..EventfdMax
  PROVE  Written(c) \in 0..EventfdMax /\ Written(c) > 0
BY EventfdAssumption DEF Written

(* Type correctness: every step of the loop thread and of the others keeps *)
(* the state well typed, the eventfd within its capacity included.         *)
LEMMA TypeStep == TypeOK /\ [Next]_vars => TypeOK'
<1> SUFFICES ASSUME TypeOK, [Next]_vars PROVE TypeOK'
  OBVIOUS
<1> USE DEF TypeOK, LoopPc, Channel, LoopVarsOutsidePc
<1>1. ASSUME NEW t \in Threads, QueueInLoop(t) PROVE TypeOK'
  BY <1>1, NewTaskType DEF QueueInLoop, Push
<1>2. ASSUME NEW t \in Threads, Quit(t) PROVE TypeOK'
  BY <1>2 DEF Quit
<1>3. ASSUME NEW t \in Threads, Wakeup(t) PROVE TypeOK'
  BY <1>3, WrittenProperties DEF Wakeup
<1>4. CASE LoopQueueInLoop
  BY <1>4, NewTaskType, WrittenProperties DEF LoopQueueInLoop, Push
<1>5. CASE LoopQuit
  BY <1>5 DEF LoopQuit
<1>6. CASE EnterLoop
  BY <1>6 DEF EnterLoop
<1>7. CASE While
  BY <1>7 DEF While
<1>8. CASE PollWakeup
  BY <1>8 DEF PollWakeup
<1>9. CASE PollOther
  BY <1>9 DEF PollOther
<1>10. CASE HandleRead
  BY <1>10, EventfdAssumption DEF HandleRead
<1>11. CASE HandleEvents
  BY <1>11 DEF HandleEvents
<1>12. CASE EventDone
  BY <1>12 DEF EventDone
<1>13. CASE AllHandled
  BY <1>13 DEF AllHandled
<1>14. CASE DoPendingTasks
  BY <1>14 DEF DoPendingTasks
<1>15. CASE RunTask
  BY <1>15 DEF RunTask
<1>16. CASE TaskDone
  BY <1>16 DEF TaskDone
<1>17. CASE BatchDone
  BY <1>17 DEF BatchDone
<1>18. CASE UNCHANGED vars
  BY <1>18 DEF vars
<1> QED
  BY <1>1, <1>2, <1>3, <1>4, <1>5, <1>6, <1>7, <1>8, <1>9, <1>10, <1>11,
     <1>12, <1>13, <1>14, <1>15, <1>16, <1>17, <1>18
  DEF Next, LoopStep, LoopUserCode, ThreadStep

(* The initial state is well typed.                                        *)
LEMMA TypeInit == Init => TypeOK
<1> SUFFICES ASSUME Init PROVE TypeOK
  OBVIOUS
<1>1. call \in [Threads -> {"none", "wakeup"}]
  BY DEF Init
<1>2. wakeupfd \in 0..EventfdMax
  BY EventfdAssumption DEF Init
<1>3. /\ pendingTasks_ \in Seq(Task) /\ tasks \in Seq(Task)
      /\ enqueued \in Seq(Task) /\ executed \in Seq(Task)
  BY EmptySeq DEF Init
<1> QED
  BY <1>1, <1>2, <1>3 DEF Init, TypeOK, LoopPc, Channel

(* Every reachable state of the event loop is well typed.                  *)
THEOREM TypeCorrect == Spec => []TypeOK
<1> QED
  BY TypeInit, TypeStep, PTL DEF Spec

-----------------------------------------------------------------------------
(* The batch is empty outside doPendingTasks, so its swap loses nothing.   *)
LEMMA PhaseStep == TypeOK /\ PhaseInv /\ [Next]_vars => PhaseInv'
<1> SUFFICES ASSUME TypeOK, PhaseInv, [Next]_vars PROVE PhaseInv'
  OBVIOUS
<1> USE DEF TypeOK, PhaseInv, LoopVarsOutsidePc
<1>1. ASSUME NEW t \in Threads, ThreadStep(t) PROVE PhaseInv'
  BY <1>1 DEF ThreadStep, QueueInLoop, Quit, Wakeup
<1>2. CASE LoopUserCode
  BY <1>2 DEF LoopUserCode, LoopQueueInLoop, LoopQuit, EnterLoop
<1>3. CASE While \/ PollWakeup \/ PollOther
  BY <1>3 DEF While, PollWakeup, PollOther
<1>4. CASE HandleRead \/ HandleEvents \/ EventDone \/ AllHandled
  BY <1>4 DEF HandleRead, HandleEvents, EventDone, AllHandled
<1>5. CASE DoPendingTasks \/ RunTask \/ TaskDone \/ BatchDone
  BY <1>5 DEF DoPendingTasks, RunTask, TaskDone, BatchDone
<1>6. CASE UNCHANGED vars
  BY <1>6 DEF vars
<1> QED
  BY <1>1, <1>2, <1>3, <1>4, <1>5, <1>6 DEF Next, LoopStep

(* A push appends to what waits: the queue as its users see it.            *)
LEMMA PushWaiting ==
  ASSUME TypeOK, NEW t \in Threads \cup {LoopThread}, Push(NewTask(t)),
         UNCHANGED tasks
  PROVE  (tasks \o pendingTasks_)' = Append(tasks \o pendingTasks_, NewTask(t))
<1>1. NewTask(t) \in Task
  BY NewTaskType DEF Push
<1> QED
  BY <1>1, AppendToConcat DEF Push, TypeOK

(* FIFO is kept by each of the three steps that move a task.               *)
LEMMA FifoStep == TypeOK /\ PhaseInv /\ Fifo /\ [Next]_vars => Fifo'
<1> SUFFICES ASSUME TypeOK, PhaseInv, Fifo, [Next]_vars PROVE Fifo'
  OBVIOUS
<1>1. ASSUME NEW t \in Threads \cup {LoopThread}, Push(NewTask(t)),
             UNCHANGED <<tasks, executed>>
      PROVE  Fifo'
  <2>1. NewTask(t) \in Task /\ tasks \in Seq(Task) /\ pendingTasks_ \in Seq(Task)
    BY <1>1, NewTaskType DEF Push, TypeOK
  <2>2. executed \in Seq(Task) /\ executed \o tasks \in Seq(Task)
    BY <2>1, ConcatProperties DEF TypeOK
  <2>3. (executed \o tasks) \o Append(pendingTasks_, NewTask(t))
          = Append((executed \o tasks) \o pendingTasks_, NewTask(t))
    BY <2>1, <2>2, AppendToConcat
  <2> QED
    BY <1>1, <2>3 DEF Push, Fifo
<1>2. CASE DoPendingTasks
  <2>1. tasks = <<>> /\ tasks' = pendingTasks_ /\ pendingTasks_' = <<>>
    BY <1>2 DEF DoPendingTasks, PhaseInv
  <2>2. executed \o tasks = executed
    BY <2>1, ConcatEmptySeq DEF TypeOK
  <2>3. executed \o pendingTasks_ \in Seq(Task)
    BY ConcatProperties DEF TypeOK
  <2>4. (executed \o pendingTasks_) \o <<>> = executed \o pendingTasks_
    BY <2>3, ConcatEmptySeq
  <2> QED
    BY <1>2, <2>1, <2>2, <2>4 DEF DoPendingTasks, Fifo
<1>3. CASE RunTask
  <2>1. Append(executed, Head(tasks)) \o Tail(tasks) = executed \o tasks
    BY <1>3, MoveHead DEF RunTask, TypeOK
  <2> QED
    BY <1>3, <2>1 DEF RunTask, Fifo
<1>4. CASE UNCHANGED <<enqueued, executed, tasks, pendingTasks_>>
  BY <1>4 DEF Fifo
<1>5. ASSUME NEW t \in Threads, ThreadStep(t) PROVE Fifo'
  BY <1>1, <1>4, <1>5 DEF ThreadStep, QueueInLoop, Quit, Wakeup
<1>6. CASE LoopUserCode
  BY <1>1, <1>4, <1>6
  DEF LoopUserCode, LoopQueueInLoop, LoopQuit, EnterLoop, LoopVarsOutsidePc
<1>7. CASE LoopStep \/ PollOther \/ UNCHANGED vars
  BY <1>2, <1>3, <1>4, <1>7
  DEF LoopStep, While, PollWakeup, PollOther, HandleRead, HandleEvents,
      EventDone, AllHandled, TaskDone, BatchDone, LoopVarsOutsidePc, vars
<1> QED
  BY <1>5, <1>6, <1>7 DEF Next

(* The queue starts out empty and in order.                                *)
LEMMA QueueInit == Init => QueueInv
<1> SUFFICES ASSUME Init PROVE QueueInv
  OBVIOUS
<1>1. Fifo
  BY ConcatEmptySeq, EmptySeq DEF Init, Fifo
<1> QED
  BY <1>1, TypeInit DEF Init, QueueInv, PhaseInv

(* The inductive invariant of the task queue holds in every state.         *)
THEOREM QueueCorrect == Spec => []QueueInv
<1>1. QueueInv /\ [Next]_vars => QueueInv'
  BY TypeStep, PhaseStep, FifoStep DEF QueueInv
<1> QED
  BY QueueInit, <1>1, PTL DEF Spec

(* Tasks are neither lost nor duplicated nor reordered between queueInLoop *)
(* and doPendingTasks, for any number of threads and tasks.                *)
THEOREM TasksAreFifo == Spec => []Fifo
<1>1. QueueInv => Fifo
  BY DEF QueueInv
<1> QED
  BY QueueCorrect, <1>1, PTL

-----------------------------------------------------------------------------
(* No wakeup is lost, provided the loop thread queues only from inside     *)
(* loop().                                                                 *)

(* Whoever has pushed or set quit_ owes a write.                           *)
LEMMA OwedWakeup ==
  ASSUME TypeOK, NEW t \in Threads, QueueInLoop(t) \/ Quit(t)
  PROVE  Signalled'
<1>1. call'[t] = "wakeup"
  BY DEF QueueInLoop, Quit, TypeOK
<1> QED
  BY <1>1 DEF Signalled

(* A step that neither reads the eventfd nor ends a call keeps the signal. *)
LEMMA SignalKept ==
  ASSUME UNCHANGED <<wakeupfd, call>>
  PROVE  Signalled' <=> Signalled
BY DEF Signalled

(* A step of queueInLoop, quit or the loop keeps every waiting task        *)
(* signalled.                                                              *)
LEMMA SignalStep ==
  ASSUME QueueBeforeLoop = FALSE
  PROVE  QueueInv /\ SignalInv /\ [Next]_vars => SignalInv'
<1> SUFFICES ASSUME QueueInv, SignalInv, [Next]_vars PROVE SignalInv'
  OBVIOUS
<1> USE DEF QueueInv, SignalInv, BeforeSwap
<1>1. ASSUME NEW t \in Threads, ThreadStep(t) PROVE SignalInv'
  <2>1. CASE QueueInLoop(t) \/ Quit(t)
    BY <2>1, OwedWakeup
  <2>2. CASE Wakeup(t)
    BY <2>2, WrittenProperties DEF Wakeup, TypeOK, Signalled
  <2> QED
    BY <1>1, <2>1, <2>2 DEF ThreadStep
<1>2. CASE LoopQueueInLoop
  <2>1. CASE lpc = "event"
    BY <1>2, <2>1 DEF LoopQueueInLoop
  <2>2. CASE lpc = "task"
    <3>1. wakeupfd' = Written(wakeupfd) /\ lpc' = "task"
      BY <1>2, <2>2 DEF LoopQueueInLoop, PhaseInv
    <3>2. Signalled'
      BY <3>1, WrittenProperties DEF TypeOK, Signalled
    <3> QED
      BY <3>1, <3>2
  <2> QED
    BY <1>2, <2>1, <2>2 DEF LoopQueueInLoop, InUserCode
<1>3. CASE LoopQuit
  BY <1>3, SignalKept DEF LoopQuit
<1>4. CASE EnterLoop
  BY <1>4, SignalKept DEF EnterLoop, LoopVarsOutsidePc
<1>5. CASE While
  BY <1>5, SignalKept DEF While, LoopVarsOutsidePc
<1>6. CASE PollWakeup \/ PollOther
  BY <1>6 DEF PollWakeup, PollOther
<1>7. CASE HandleRead
  BY <1>7 DEF HandleRead
<1>8. CASE HandleEvents \/ EventDone \/ AllHandled
  BY <1>8 DEF HandleEvents, EventDone, AllHandled
<1>9. CASE DoPendingTasks
  BY <1>9 DEF DoPendingTasks
<1>10. CASE RunTask \/ TaskDone \/ BatchDone
  BY <1>10, SignalKept DEF RunTask, TaskDone, BatchDone, LoopVarsOutsidePc
<1>11. CASE UNCHANGED vars
  BY <1>11, SignalKept DEF vars
<1> QED
  BY <1>1, <1>2, <1>3, <1>4, <1>5, <1>6, <1>7, <1>8, <1>9, <1>10, <1>11
  DEF Next, LoopStep, LoopUserCode

(* loop() never blocks in epoll_wait while a queued task or a quit waits   *)
(* for it and nobody is about to write the eventfd, whatever the threads   *)
(* that call queueInLoop and quit and however their steps interleave.      *)
THEOREM WakeupsAreNotLost ==
  ASSUME QueueBeforeLoop = FALSE
  PROVE  Spec => []NoLostWakeup
<1>1. Init => IInv
  BY QueueInit DEF Init, IInv, SignalInv
<1>2. IInv /\ [Next]_vars => IInv'
  BY SignalStep, TypeStep, PhaseStep, FifoStep
  DEF IInv, QueueInv
<1>3. IInv => NoLostWakeup
  BY DEF IInv, SignalInv, BeforeSwap, NoLostWakeup
<1> QED
  BY <1>1, <1>2, <1>3, PTL DEF Spec

-----------------------------------------------------------------------------
(* The detailed loop implements the serial executor.                       *)

(* The loop starts as an executor with nothing to do.                      *)
LEMMA ExecutorInit == Init => Promise!Init
BY ConcatEmptySeq, EmptySeq DEF Init, Promise!Init

(* Every step of the loop is one of the executor, or none.                 *)
LEMMA ExecutorStep ==
  TypeOK /\ PhaseInv /\ [Next]_vars => [Promise!Next]_(Promise!vars)
<1> SUFFICES ASSUME TypeOK, PhaseInv, [Next]_vars
             PROVE  [Promise!Next]_(Promise!vars)
  OBVIOUS
<1> USE DEF Promise!vars
<1>1. ASSUME NEW t \in Threads \cup {LoopThread}, Push(NewTask(t)),
             UNCHANGED <<lpc, tasks, executed>>
      PROVE  Promise!Next
  <2>1. NewTask(t) \in Task
    BY <1>1, NewTaskType DEF Push
  <2>2. Promise!Accept(NewTask(t))
    BY <1>1, PushWaiting DEF Promise!Accept
  <2> QED
    BY <2>1, <2>2 DEF Promise!Next
<1>2. CASE RunTask
  <2>1. /\ Head(tasks \o pendingTasks_) = Head(tasks)
        /\ Tail(tasks \o pendingTasks_) = Tail(tasks) \o pendingTasks_
        /\ tasks \o pendingTasks_ # <<>>
    BY <1>2, HeadOfConcat DEF RunTask, TypeOK
  <2>2. Promise!Run
    BY <1>2, <2>1 DEF RunTask, Promise!Run
  <2> QED
    BY <2>2 DEF Promise!Next
<1>3. CASE DoPendingTasks
  <2>1. tasks = <<>> /\ tasks' = pendingTasks_ /\ pendingTasks_' = <<>>
    BY <1>3 DEF DoPendingTasks, PhaseInv
  <2>2. (tasks \o pendingTasks_)' = tasks \o pendingTasks_
    BY <2>1, ConcatEmptySeq DEF TypeOK
  <2> QED
    BY <1>3, <2>2 DEF DoPendingTasks
<1>4. CASE EnterLoop
  BY <1>4 DEF EnterLoop, LoopVarsOutsidePc, Promise!Start, Promise!Next
<1>5. CASE While
  BY <1>5 DEF While, LoopVarsOutsidePc, Promise!Stop, Promise!Next
<1>6. CASE /\ UNCHANGED <<executed, tasks, pendingTasks_>>
           /\ (lpc # "idle") <=> (lpc' # "idle")
  BY <1>6
<1>7. ASSUME NEW t \in Threads, ThreadStep(t)
      PROVE  [Promise!Next]_(Promise!vars)
  BY <1>1, <1>6, <1>7 DEF ThreadStep, QueueInLoop, Quit, Wakeup
<1>8. CASE LoopUserCode
  BY <1>1, <1>4, <1>6, <1>8 DEF LoopUserCode, LoopQueueInLoop, LoopQuit
<1>9. CASE LoopStep \/ PollOther \/ UNCHANGED vars
  BY <1>2, <1>3, <1>5, <1>6, <1>9
  DEF LoopStep, PollWakeup, PollOther, HandleRead, HandleEvents, EventDone,
      AllHandled, TaskDone, BatchDone, LoopVarsOutsidePc, vars
<1> QED
  BY <1>7, <1>8, <1>9 DEF Next

(* Every behaviour of the event loop is a behaviour of the serial executor *)
(* (the safety part; that waiting tasks get run is checked by TLC).        *)
THEOREM ImplementsExecutorSafety == Spec => Promise!SafetySpec
<1>1. QueueInv => TypeOK /\ PhaseInv
  BY DEF QueueInv
<1> QED
  BY QueueCorrect, <1>1, ExecutorInit, ExecutorStep, PTL
  DEF Spec, Promise!SafetySpec

-----------------------------------------------------------------------------
(* EventLoopThread.                                                        *)

(* What the owner's thread and the threads it serves do to the EventLoop   *)
(* is what EventLoop allows.                                               *)
LEMMA LifeStepIsLoopStep ==
  ASSUME [LifeNext]_allVars
  PROVE  [Next]_vars
<1>1. CASE Publish \/ ClearLoop \/ DestroyLoop \/ StartLoop \/ StartLoopWaits
           \/ SpuriousWakeup \/ StartLoopReturns \/ Stop \/ StopReturn
  BY <1>1 DEF Publish, ClearLoop, DestroyLoop, StartLoop, StartLoopWaits,
              SpuriousWakeup, StartLoopReturns, Stop, StopReturn
<1>2. CASE RunLoop
  BY <1>2 DEF RunLoop, Next, LoopUserCode
<1>3. CASE InLoop
  BY <1>3 DEF InLoop, Next, LoopUserCode
<1>4. ASSUME NEW t \in Threads, UseLoop(t) PROVE [Next]_vars
  BY <1>4 DEF UseLoop, Next, ThreadStep
<1>5. CASE StopQuit \/ StopWakeup
  BY <1>5, OwnerAssumption DEF StopQuit, StopWakeup, Next, ThreadStep
<1>6. CASE UNCHANGED allVars
  BY <1>6 DEF allVars
<1> QED
  BY <1>1, <1>2, <1>3, <1>4, <1>5, <1>6 DEF LifeNext

(* The queue of a loop that is started and stopped by EventLoopThread is   *)
(* FIFO too: nothing in the life of the thread disturbs it.                *)
THEOREM StartedLoopIsFifo == LifeSpec => []Fifo
<1>1. LifeInit => QueueInv
  BY QueueInit DEF LifeInit
<1>2. QueueInv /\ [Next]_vars => QueueInv'
  BY TypeStep, PhaseStep, FifoStep DEF QueueInv
<1>3. QueueInv => Fifo
  BY DEF QueueInv
<1> QED
  BY <1>1, <1>2, <1>3, LifeStepIsLoopStep, PTL DEF LifeSpec
=============================================================================
