-------------------------- MODULE ThreadPoolProofs --------------------------
(***************************************************************************)
(* Proofs about ThreadPool, for any pool of workers, any threads that add  *)
(* tasks and any number of tasks.                                          *)
(***************************************************************************)
EXTENDS ThreadPool, SequenceTheorems, TLAPS

(* The tasks a worker has taken from the queue are 1..Taken.               *)
Taken == accepted - Len(tasks)

(* The queue holds the tasks accepted last, in the order of acceptance.    *)
QueueInv ==
  Len(tasks) <= accepted /\ \A i \in 1..Len(tasks) : tasks[i] = Taken + i

(* A worker in a task has taken it from the queue, the task has not been   *)
(* run, and no other worker has it.                                        *)
WorkerInv ==
  /\ \A w \in Workers :
       /\ pc[w] \in {"task", "get"} <=> task[w] # NoTask
       /\ task[w] # NoTask => task[w] <= Taken /\ runs[task[w]] = 0
  /\ \A v, w \in Workers : v # w /\ task[v] # NoTask => task[v] # task[w]

(* A task is run once after it was taken, or a worker is at it.            *)
RunsInv ==
  \A k \in Tasks :
    /\ runs[k] <= 1
    /\ k > Taken => runs[k] = 0
    /\ k <= Taken => runs[k] = 1 \/ \E w \in Workers : task[w] = k

(* A worker leaves a pool that is stopped and has an empty queue, and that *)
(* stays so; the destructor returns when all have left.                    *)
EndInv ==
  /\ \A w \in Workers : pc[w] = "exited" => stop /\ tasks = <<>>
  /\ dtor = "done" => \A w \in Workers : pc[w] = "exited"

IInv == TypeOK /\ QueueInv /\ WorkerInv /\ RunsInv /\ EndInv

-----------------------------------------------------------------------------
(* Under the invariant Taken and the length of the queue are numbers.      *)
LEMMA TakenNat ==
  ASSUME TypeOK, QueueInv
  PROVE  Taken \in 0..MaxTasks /\ Len(tasks) \in Nat /\ accepted \in Nat
<1>1. Len(tasks) \in Nat
  BY LenProperties DEF TypeOK
<1> QED
  BY <1>1, BoundsAssumption DEF TypeOK, QueueInv, Taken

(* The pool starts with nothing accepted.                                  *)
LEMMA InitInv == Init => IInv
<1> SUFFICES ASSUME Init PROVE IInv
  OBVIOUS
<1>1. tasks \in Seq(1..accepted) /\ Len(tasks) = 0 /\ accepted = 0
  BY EmptySeq DEF Init
<1>2. QueueInv /\ Taken = 0
  BY <1>1 DEF QueueInv, Taken
<1>3. TypeOK
  <2>1. accepted \in 0..MaxTasks
    BY <1>1, BoundsAssumption
  <2>2. task \in [Workers -> 0..accepted] /\ awaited \in [Workers -> 0..accepted]
    BY DEF Init, NoTask
  <2> QED
    BY <1>1, <2>1, <2>2 DEF Init, TypeOK
<1>4. WorkerInv /\ EndInv
  BY DEF Init, WorkerInv, EndInv, NoTask
<1>5. RunsInv
  BY <1>2, BoundsAssumption DEF Init, RunsInv, Tasks
<1> QED
  BY <1>2, <1>3, <1>4, <1>5 DEF IInv

(* Type correctness is preserved by every step.                            *)
LEMMA TypeStep == TypeOK /\ QueueInv /\ [Next]_vars => TypeOK'
<1> SUFFICES ASSUME TypeOK, QueueInv, [Next]_vars PROVE TypeOK'
  OBVIOUS
<1> USE DEF TypeOK
<1>1. ASSUME NEW w \in Workers, Wait(w) \/ Exit(w) \/ SpuriousWakeup(w) PROVE TypeOK'
  BY <1>1 DEF Wait, Exit, SpuriousWakeup
<1>2. ASSUME NEW w \in Workers, Take(w) PROVE TypeOK'
  <2>1. Head(tasks) \in 1..accepted /\ Tail(tasks) \in Seq(1..accepted)
    BY <1>2, HeadTailProperties DEF Take
  <2> QED
    BY <1>2, <2>1 DEF Take
<1>3. ASSUME NEW w \in Workers, Return(w) PROVE TypeOK'
  <2>1. runs' \in [Tasks -> Nat]
    <3>1. runs' = [k \in Tasks |-> IF k = task[w] THEN runs[k] + 1 ELSE runs[k]]
      BY <1>3 DEF Return
    <3> QED
      BY <3>1
  <2>2. task' \in [Workers -> 0..accepted]
    BY <1>3 DEF Return, NoTask
  <2> QED
    BY <1>3, <2>1, <2>2 DEF Return
<1>4. ASSUME NEW w \in Workers, NEW k \in Tasks, Get(w, k) PROVE TypeOK'
  BY <1>4 DEF Get, Tasks
<1>5. ASSUME NEW w \in Workers, GetReturns(w) PROVE TypeOK'
  BY <1>5 DEF GetReturns, NoTask
<1>6. ASSUME NEW c \in Threads \cup Workers, Add(c) PROVE TypeOK'
  <2>1. accepted' = accepted + 1 /\ accepted' \in 0..MaxTasks
    BY <1>6, BoundsAssumption DEF Add
  <2>2. tasks \in Seq(1..accepted') /\ accepted + 1 \in 1..accepted'
    BY <2>1, SeqMonotonic
  <2>3. tasks' \in Seq(1..accepted')
    BY <1>6, <2>2, AppendProperties DEF Add
  <2> QED
    BY <1>6, <2>1, <2>3 DEF Add
<1>7. ASSUME NEW c \in Threads \cup Workers, NotifyOne(c) PROVE TypeOK'
  BY <1>7 DEF NotifyOne
<1>8. CASE Stop \/ NotifyAll \/ Joined
  BY <1>8 DEF Stop, NotifyAll, Joined
<1>9. CASE UNCHANGED vars
  BY <1>9 DEF vars
<1> QED
  BY <1>1, <1>2, <1>3, <1>4, <1>5, <1>6, <1>7, <1>8, <1>9 DEF Next, WorkerStep

-----------------------------------------------------------------------------
(* Steps that leave queue, tasks and run counts alone move workers between *)
(* places where they have no task, or within their task.                   *)
LEMMA MoveStep ==
  ASSUME IInv, UNCHANGED <<tasks, stop, accepted, task, runs>>,
         pc' \in [Workers -> {"lock", "waiting", "task", "get", "exited"}],
         \A w \in Workers : (pc[w] \in {"task", "get"}) <=> (pc'[w] \in {"task", "get"}),
         \A w \in Workers : pc'[w] = "exited" => stop /\ tasks = <<>>
  PROVE  QueueInv' /\ WorkerInv' /\ RunsInv'
         /\ \A w \in Workers : pc'[w] = "exited" => stop' /\ tasks' = <<>>
<1>1. Taken' = Taken
  BY DEF Taken
<1>2. QueueInv'
  BY <1>1 DEF IInv, QueueInv
<1>3. WorkerInv'
  BY <1>1 DEF IInv, WorkerInv
<1>4. RunsInv'
  BY <1>1 DEF IInv, RunsInv
<1> QED
  BY <1>2, <1>3, <1>4

(* A worker that locks the mutex and finds a task takes the oldest one,    *)
(* which nobody has.                                                       *)
LEMMA TakeStep ==
  ASSUME IInv, NEW w \in Workers, Take(w)
  PROVE  QueueInv' /\ WorkerInv' /\ RunsInv' /\ EndInv'
<1> USE DEF IInv
<1>1. /\ Len(tasks) \in Nat \ {0} /\ accepted \in Nat /\ Taken \in Nat
      /\ Len(tasks') = Len(tasks) - 1 /\ accepted' = accepted
      /\ \A i \in 1..Len(tasks) - 1 : tasks'[i] = tasks[i + 1]
  BY TakenNat, EmptySeq, HeadTailProperties DEF Take, TypeOK
<1>2. Taken' = Taken + 1
  BY <1>1 DEF Taken
<1>3. QueueInv'
  BY <1>1, <1>2 DEF QueueInv
<1>4. Head(tasks) = Taken + 1 /\ Taken + 1 \in Tasks /\ runs[Taken + 1] = 0
  <2>1. Head(tasks) = tasks[1]
    BY DEF Take, TypeOK
  <2>2. tasks[1] = Taken + 1
    BY <1>1 DEF QueueInv
  <2>3. accepted <= MaxTasks
    BY BoundsAssumption DEF TypeOK
  <2>4. Taken + 1 \in Tasks
    BY <1>1, <2>3, BoundsAssumption DEF Taken, Tasks
  <2> QED
    BY <1>1, <2>1, <2>2, <2>4 DEF RunsInv
<1>5. /\ task' = [task EXCEPT ![w] = Taken + 1]
      /\ pc' = [pc EXCEPT ![w] = "task"]
      /\ UNCHANGED <<stop, accepted, runs, dtor>>
  BY <1>4 DEF Take
<1>6. WorkerInv'
  <2>1. \A v \in Workers : task[v] # Taken + 1
    <3> SUFFICES ASSUME NEW v \in Workers, task[v] = Taken + 1 PROVE FALSE
      OBVIOUS
    <3>1. task[v] <= Taken
      BY <1>1 DEF WorkerInv, NoTask
    <3> QED
      BY <1>1, <3>1
  <2>2. \A v \in Workers : v # w => task'[v] = task[v] /\ pc'[v] = pc[v]
    BY <1>5 DEF TypeOK
  <2>3. task'[w] = Taken + 1 /\ pc'[w] = "task"
    BY <1>5 DEF TypeOK
  <2>4. \A v \in Workers :
          /\ pc'[v] \in {"task", "get"} <=> task'[v] # NoTask
          /\ task'[v] # NoTask => task'[v] <= Taken + 1 /\ runs[task'[v]] = 0
    <3> TAKE v \in Workers
    <3>1. CASE v = w
      BY <1>1, <1>4, <2>3, <3>1 DEF NoTask
    <3>2. CASE v # w
      BY <1>1, <2>2, <3>2 DEF WorkerInv, NoTask, TypeOK
    <3> QED BY <3>1, <3>2
  <2>5. \A u, v \in Workers : u # v /\ task'[u] # NoTask => task'[u] # task'[v]
    BY <2>1, <2>2, <2>3 DEF WorkerInv
  <2> QED
    BY <1>2, <1>5, <2>4, <2>5 DEF WorkerInv
<1>7. RunsInv'
  <2> SUFFICES ASSUME NEW k \in Tasks
               PROVE  /\ runs[k] <= 1
                      /\ k > Taken + 1 => runs[k] = 0
                      /\ k <= Taken + 1 => runs[k] = 1 \/ \E v \in Workers : task'[v] = k
    BY <1>2, <1>5 DEF RunsInv
  <2>1. task[w] = NoTask
    BY DEF WorkerInv, Take
  <2>2. CASE k = Taken + 1
    BY <1>1, <1>4, <1>5, <2>2 DEF TypeOK
  <2>3. CASE k <= Taken
    BY <1>1, <1>5, <2>1, <2>3 DEF RunsInv, NoTask, TypeOK, Tasks
  <2>4. CASE k > Taken + 1
    BY <1>1, <2>4 DEF RunsInv, Tasks
  <2> QED
    BY <1>1, <2>2, <2>3, <2>4 DEF Tasks
<1>8. EndInv'
  BY <1>1, EmptySeq DEF EndInv, Take, TypeOK
<1> QED
  BY <1>3, <1>6, <1>7, <1>8

(* A worker whose task returns has run it for the first time.              *)
LEMMA ReturnStep ==
  ASSUME IInv, NEW w \in Workers, Return(w)
  PROVE  QueueInv' /\ WorkerInv' /\ RunsInv' /\ EndInv'
<1> USE DEF IInv
<1>1. Taken' = Taken /\ Taken \in Nat
  BY TakenNat DEF Taken, Return
<1>2. QueueInv' /\ EndInv'
  BY <1>1 DEF QueueInv, EndInv, Return, TypeOK
<1>3. task[w] # NoTask /\ task[w] <= Taken /\ runs[task[w]] = 0
  BY DEF WorkerInv, Return
<1>4. task[w] \in Tasks
  BY <1>3, BoundsAssumption DEF TypeOK, NoTask, Tasks
<1>5. runs' = [runs EXCEPT ![task[w]] = 1]
  BY <1>3 DEF Return
<1>6. WorkerInv'
  <2>1. ASSUME NEW v \in Workers, v # w, task[v] # NoTask
        PROVE  task'[v] = task[v] /\ runs'[task[v]] = 0 /\ task[v] <= Taken
    BY <1>5, <2>1 DEF WorkerInv, Return, TypeOK
  <2> QED
    BY <1>1, <2>1 DEF WorkerInv, Return, TypeOK, NoTask
<1>7. RunsInv'
  <2> SUFFICES ASSUME NEW k \in Tasks
               PROVE  /\ runs'[k] <= 1
                      /\ k > Taken => runs'[k] = 0
                      /\ k <= Taken => runs'[k] = 1 \/ \E v \in Workers : task'[v] = k
    BY <1>1 DEF RunsInv
  <2>1. CASE k = task[w]
    BY <1>1, <1>3, <1>4, <1>5, <2>1 DEF TypeOK, Tasks
  <2>2. CASE k # task[w]
    BY <1>1, <1>5, <2>2 DEF RunsInv, Return, TypeOK, Tasks
  <2> QED
    BY <2>1, <2>2
<1> QED
  BY <1>2, <1>6, <1>7

(* A new task is the last of the queue and changes nothing for the others. *)
LEMMA AddStep ==
  ASSUME IInv, NEW c \in Threads \cup Workers, Add(c)
  PROVE  QueueInv' /\ WorkerInv' /\ RunsInv' /\ EndInv'
<1> USE DEF IInv
<1>1. /\ accepted \in Nat /\ accepted' = accepted + 1
      /\ tasks \in Seq(Nat) /\ tasks' = Append(tasks, accepted + 1)
  BY TakenNat, SeqMonotonic DEF Add, TypeOK
<1>2. /\ Len(tasks) \in Nat /\ Len(tasks') = Len(tasks) + 1
      /\ \A i \in 1..Len(tasks) : tasks'[i] = tasks[i]
      /\ tasks'[Len(tasks) + 1] = accepted + 1
  BY <1>1, AppendProperties, TakenNat
<1>3. Taken' = Taken /\ Taken \in Nat
  BY <1>1, <1>2, TakenNat DEF Taken
<1>4. QueueInv'
  <2>1. /\ Len(tasks) <= accepted /\ Taken + Len(tasks) = accepted
        /\ \A i \in 1..Len(tasks) : tasks[i] = Taken + i
    BY <1>1, <1>2 DEF QueueInv, Taken
  <2>2. \A i \in 1..Len(tasks') : i \in 1..Len(tasks) \/ i = Len(tasks) + 1
    BY <1>2
  <2>3. Taken + (Len(tasks) + 1) = accepted + 1 /\ Len(tasks') <= accepted'
    BY <1>1, <1>2, <1>3, <2>1
  <2>4. \A i \in 1..Len(tasks') : tasks'[i] = Taken + i
    BY <1>2, <2>1, <2>2, <2>3
  <2> QED
    BY <1>3, <2>3, <2>4 DEF QueueInv
<1>5. WorkerInv' /\ RunsInv'
  <2>1. UNCHANGED <<pc, task, runs>>
    BY DEF Add
  <2>2. WorkerInv'
    BY <1>3, <2>1 DEF WorkerInv
  <2>3. RunsInv'
    BY <1>3, <2>1 DEF RunsInv
  <2> QED
    BY <2>2, <2>3
<1>6. EndInv'
  BY DEF EndInv, Add
<1> QED
  BY <1>4, <1>5, <1>6

(* Every step of workers, callers and destructor preserves the invariant.  *)
LEMMA StepInv == IInv /\ [Next]_vars => IInv'
<1> SUFFICES ASSUME IInv, [Next]_vars PROVE IInv'
  OBVIOUS
<1>0. TypeOK'
  BY TypeStep DEF IInv
<1>1. ASSUME NEW w \in Workers, Wait(w) \/ SpuriousWakeup(w) \/ GetReturns(w)
      PROVE  IInv'
  BY <1>0, <1>1, MoveStep DEF Wait, SpuriousWakeup, GetReturns, IInv, TypeOK, EndInv
<1>2. ASSUME NEW w \in Workers, NEW k \in Tasks, Get(w, k) PROVE IInv'
  BY <1>0, <1>2, MoveStep DEF Get, IInv, TypeOK, EndInv
<1>3. ASSUME NEW w \in Workers, Exit(w) PROVE IInv'
  BY <1>0, <1>3, MoveStep DEF Exit, MustEnd, IInv, TypeOK, EndInv
<1>4. ASSUME NEW w \in Workers, Take(w) \/ Return(w) PROVE IInv'
  BY <1>0, <1>4, TakeStep, ReturnStep DEF IInv
<1>5. ASSUME NEW c \in Threads \cup Workers, Add(c) PROVE IInv'
  BY <1>0, <1>5, AddStep DEF IInv
<1>6. ASSUME NEW c \in Threads \cup Workers, NotifyOne(c) PROVE IInv'
  BY <1>0, <1>6, MoveStep DEF NotifyOne, IInv, TypeOK, EndInv
<1>7. CASE NotifyAll \/ Joined
  BY <1>0, <1>7, MoveStep DEF NotifyAll, Joined, IInv, TypeOK, EndInv
<1>8. CASE Stop
  BY <1>0, <1>8 DEF Stop, IInv, QueueInv, WorkerInv, RunsInv, EndInv, Taken
<1>9. CASE UNCHANGED vars
  BY <1>0, <1>9 DEF vars, IInv, QueueInv, WorkerInv, RunsInv, EndInv, Taken
<1> QED
  BY <1>1, <1>2, <1>3, <1>4, <1>5, <1>6, <1>7, <1>8, <1>9 DEF Next, WorkerStep

(* When all workers have left, nothing is queued or being run, so every    *)
(* accepted task has been run.                                             *)
LEMMA InvImplies == IInv => EveryTaskOnce
<1> SUFFICES ASSUME IInv PROVE EveryTaskOnce
  OBVIOUS
<1> USE DEF IInv
<1>1. \A k \in Tasks : runs[k] <= 1
  BY DEF RunsInv
<1>2. ASSUME dtor = "done", NEW k \in 1..accepted PROVE runs[k] = 1
  <2>1. tasks = <<>> /\ \A w \in Workers : task[w] = NoTask
    BY <1>2, WorkersAssumption DEF EndInv, WorkerInv
  <2>2. Taken = accepted
    <3>1. Len(tasks) = 0
      BY <2>1, EmptySeq
    <3> QED
      BY <3>1, TakenNat DEF Taken
  <2>3. k \in Tasks /\ k <= Taken
    BY <2>2, BoundsAssumption DEF TypeOK, Tasks
  <2> QED
    BY <2>1, <2>3 DEF RunsInv, NoTask, Tasks
<1> QED
  BY <1>1, <1>2 DEF EveryTaskOnce

(* Every accepted task is run at most once, and exactly once by the time   *)
(* the destructor returns, whatever the number of workers and tasks, how   *)
(* waits end and which tasks add others or wait for their futures.         *)
THEOREM TasksRunOnce == Spec => []EveryTaskOnce
<1> QED
  BY InitInv, StepInv, InvImplies, PTL DEF Spec
=============================================================================
