------------------------------ MODULE Executor ------------------------------
(***************************************************************************)
(* What EventLoop promises the code that uses queueInLoop and runInLoop    *)
(* (TcpConnection, TimerQueue, TcpServer, TcpClient, applications): a      *)
(* serial executor.  Tasks run one at a time, in the order in which they   *)
(* were accepted, each exactly once, only while loop() runs, and while     *)
(* loop() runs the next one is always run in the end.                      *)
(***************************************************************************)
EXTENDS Sequences

CONSTANT Task

VARIABLES
  running,   \* is the thread inside loop()?
  waiting,   \* the accepted tasks that have not been run
  done       \* the tasks that have been run

vars == <<running, waiting, done>>

Init ==
  /\ running = FALSE
  /\ waiting = <<>>
  /\ done = <<>>

Start ==
  /\ ~running
  /\ running' = TRUE
  /\ UNCHANGED <<waiting, done>>

Stop ==
  /\ running
  /\ running' = FALSE
  /\ UNCHANGED <<waiting, done>>

Accept(task) ==
  /\ waiting' = Append(waiting, task)
  /\ UNCHANGED <<running, done>>

Run ==
  /\ running
  /\ waiting # <<>>
  /\ waiting' = Tail(waiting)
  /\ done' = Append(done, Head(waiting))
  /\ UNCHANGED running

Next ==
  \/ Start
  \/ Stop
  \/ Run
  \/ \E task \in Task : Accept(task)

(* Weak fairness of Run, with its enabling condition spelled out.          *)
Progress == <>[](running /\ waiting # <<>>) => []<><<Run>>_vars

SafetySpec == Init /\ [][Next]_vars

Spec == SafetySpec /\ Progress
=============================================================================
