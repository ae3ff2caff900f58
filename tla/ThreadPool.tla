----------------------------- MODULE ThreadPool -----------------------------
(***************************************************************************)
(* ThreadPool (src/src/ThreadPool.cpp, src/include/knetlib/ThreadPool.h):  *)
(* workers that take tasks from a queue under task_mtx and wait on cv      *)
(* while there is none; add() by other threads and by tasks; tasks that    *)
(* wait for the future of a later task; and the destructor, which stops    *)
(* the pool and joins the workers.  A step is what is done while the mutex *)
(* is held, or a notification.                                             *)
(***************************************************************************)
EXTENDS Naturals, Sequences, FiniteSets, SequencesExt

CONSTANTS
  Workers,     \* the threads of the pool
  Threads,     \* other threads that call add()
  MaxTasks,    \* bound: tasks accepted in one behaviour
  MaxBlocked   \* how many workers may wait for a future at once

ASSUME WorkersAssumption == IsFiniteSet(Workers) /\ Workers # {}
ASSUME ThreadsAssumption == Threads \cap Workers = {}
ASSUME BoundsAssumption == MaxTasks \in Nat /\ MaxBlocked \in Nat

NoTask == 0
Tasks == 1..MaxTasks  \* numbered in the order of acceptance

VARIABLES
  tasks,     \* ThreadPool::tasks
  stop,      \* ThreadPool::stop
  accepted,  \* how many tasks add() has put into the queue
  pc,        \* per worker: "lock" (about to lock), "waiting" (in cv.wait),
             \* "task" (in a task), "get" (in a task, in future::get) or "exited"
  task,      \* per worker: the task it runs
  awaited,   \* per worker: the task whose future it waits for
  adding,    \* the callers in add() between unlock and notify_one
  runs,      \* per task: how often it was run
  dtor       \* ~ThreadPool: "none", "notify", "join" or "done"

vars == <<tasks, stop, accepted, pc, task, awaited, adding, runs, dtor>>

TypeOK ==
  /\ accepted \in 0..MaxTasks /\ tasks \in Seq(1..accepted)
  /\ stop \in BOOLEAN
  /\ pc \in [Workers -> {"lock", "waiting", "task", "get", "exited"}]
  /\ task \in [Workers -> 0..accepted] /\ awaited \in [Workers -> 0..accepted]
  /\ adding \subseteq Threads \cup Workers
  /\ runs \in [Tasks -> Nat]
  /\ dtor \in {"none", "notify", "join", "done"}

Init ==
  /\ tasks = <<>> /\ stop = FALSE /\ accepted = 0
  /\ pc = [w \in Workers |-> "lock"]
  /\ task = [w \in Workers |-> NoTask] /\ awaited = [w \in Workers |-> NoTask]
  /\ adding = {}
  /\ runs = [k \in Tasks |-> 0]
  /\ dtor = "none"

-----------------------------------------------------------------------------
(* A worker.                                                               *)

(* Mutated form: the queue is not looked at.                               *)
MustEndAtOnce == stop

MustEnd == stop /\ tasks = <<>>

(* Under the mutex: wait while the predicate is false, leave, or take the  *)
(* first task.                                                             *)
Wait(w) ==
  /\ pc[w] = "lock" /\ ~stop /\ tasks = <<>>
  /\ pc' = [pc EXCEPT ![w] = "waiting"]
  /\ UNCHANGED <<tasks, stop, accepted, task, awaited, adding, runs, dtor>>

Exit(w) ==
  /\ pc[w] = "lock" /\ MustEnd
  /\ pc' = [pc EXCEPT ![w] = "exited"]
  /\ UNCHANGED <<tasks, stop, accepted, task, awaited, adding, runs, dtor>>

Take(w) ==
  /\ pc[w] = "lock" /\ tasks # <<>> /\ ~MustEnd
  /\ pc' = [pc EXCEPT ![w] = "task"]
  /\ task' = [task EXCEPT ![w] = Head(tasks)]
  /\ tasks' = Tail(tasks)
  /\ UNCHANGED <<stop, accepted, awaited, adding, runs, dtor>>

(* A wait may end without a notification; the predicate is tested again.   *)
SpuriousWakeup(w) ==
  /\ pc[w] = "waiting"
  /\ pc' = [pc EXCEPT ![w] = "lock"]
  /\ UNCHANGED <<tasks, stop, accepted, task, awaited, adding, runs, dtor>>

(* task() returns, or has thrown: the packaged_task keeps the exception.   *)
Return(w) ==
  /\ pc[w] = "task" /\ w \notin adding
  /\ runs' = [runs EXCEPT ![task[w]] = @ + 1]
  /\ task' = [task EXCEPT ![w] = NoTask]
  /\ pc' = [pc EXCEPT ![w] = "lock"]
  /\ UNCHANGED <<tasks, stop, accepted, awaited, adding, dtor>>

(* The task waits for the future of one that was added later and is not    *)
(* done yet.                                                               *)
Get(w, k) ==
  /\ pc[w] = "task" /\ w \notin adding
  /\ k \in task[w] + 1..accepted /\ runs[k] = 0
  /\ Cardinality({v \in Workers : pc[v] = "get"}) < MaxBlocked
  /\ pc' = [pc EXCEPT ![w] = "get"]
  /\ awaited' = [awaited EXCEPT ![w] = k]
  /\ UNCHANGED <<tasks, stop, accepted, task, adding, runs, dtor>>

GetReturns(w) ==
  /\ pc[w] = "get" /\ runs[awaited[w]] > 0
  /\ pc' = [pc EXCEPT ![w] = "task"]
  /\ awaited' = [awaited EXCEPT ![w] = NoTask]
  /\ UNCHANGED <<tasks, stop, accepted, task, adding, runs, dtor>>

-----------------------------------------------------------------------------
(* add(), by another thread or by a task.                                  *)

InTask(c) == c \in Workers /\ pc[c] = "task"

(* Under the mutex; once the pool is stopped add() throws and changes      *)
(* nothing.                                                                *)
Add(c) ==
  /\ c \in Threads \/ InTask(c)
  /\ c \notin adding /\ ~stop
  /\ accepted < MaxTasks
  /\ accepted' = accepted + 1
  /\ tasks' = Append(tasks, accepted + 1)
  /\ adding' = adding \cup {c}
  /\ UNCHANGED <<stop, pc, task, awaited, runs, dtor>>

(* Mutated form: nobody is woken.                                          *)
NotifyOneLost(c) ==
  /\ c \in adding
  /\ adding' = adding \ {c}
  /\ UNCHANGED <<tasks, stop, accepted, pc, task, awaited, runs, dtor>>

(* cv.notify_one() wakes one of those who wait at this moment.             *)
NotifyOne(c) ==
  /\ c \in adding
  /\ adding' = adding \ {c}
  /\ IF \E w \in Workers : pc[w] = "waiting"
     THEN \E w \in Workers : pc[w] = "waiting" /\ pc' = [pc EXCEPT ![w] = "lock"]
     ELSE UNCHANGED pc
  /\ UNCHANGED <<tasks, stop, accepted, task, awaited, runs, dtor>>

-----------------------------------------------------------------------------
(* ~ThreadPool, by a thread outside, when no other one is in add().        *)

Stop ==
  /\ dtor = "none" /\ adding \cap Threads = {}
  /\ stop' = TRUE
  /\ dtor' = "notify"
  /\ UNCHANGED <<tasks, accepted, pc, task, awaited, adding, runs>>

NotifyAll ==
  /\ dtor = "notify"
  /\ dtor' = "join"
  /\ pc' = [w \in Workers |-> IF pc[w] = "waiting" THEN "lock" ELSE pc[w]]
  /\ UNCHANGED <<tasks, stop, accepted, task, awaited, adding, runs>>

Joined ==
  /\ dtor = "join" /\ \A w \in Workers : pc[w] = "exited"
  /\ dtor' = "done"
  /\ UNCHANGED <<tasks, stop, accepted, pc, task, awaited, adding, runs>>

-----------------------------------------------------------------------------
WorkerStep(w) == Wait(w) \/ Exit(w) \/ Take(w) \/ Return(w) \/ GetReturns(w)

Next ==
  \/ \E w \in Workers : WorkerStep(w) \/ SpuriousWakeup(w) \/ \E k \in Tasks : Get(w, k)
  \/ \E c \in Threads \cup Workers : Add(c) \/ NotifyOne(c)
  \/ Stop \/ NotifyAll \/ Joined

(* Every thread runs, and tasks return once what they wait for is there.   *)
(* Waits need not end without a notification.                              *)
Fairness ==
  /\ \A w \in Workers : WF_vars(WorkerStep(w))
  /\ \A c \in Threads \cup Workers : WF_vars(NotifyOne(c))
  /\ WF_vars(NotifyAll \/ Joined)

Spec == Init /\ [][Next]_vars /\ Fairness

-----------------------------------------------------------------------------
(* Properties.                                                             *)

(* No task is run twice, and when the destructor returns every accepted    *)
(* one has been run, those still queued when the pool was stopped too.     *)
EveryTaskOnce ==
  /\ \A k \in Tasks : runs[k] <= 1
  /\ dtor = "done" => \A k \in 1..accepted : runs[k] = 1

(* No notification is lost: every accepted task is run in the end, also if *)
(* no other one follows and the pool is never destroyed, and the           *)
(* destructor returns.                                                     *)
PoolProgresses ==
  /\ \A k \in Tasks : accepted >= k ~> runs[k] = 1
  /\ dtor = "notify" ~> dtor = "done"
=============================================================================
