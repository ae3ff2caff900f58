-------------------------- MODULE EventLoopThread --------------------------
(***************************************************************************)
(* EventLoopThread (src/src/EventLoopThread.cpp): a thread that constructs *)
(* an EventLoop on its stack, publishes it to the owner waiting in         *)
(* startLoop(), runs loop() until the owner's stop() quits it, and takes   *)
(* the EventLoop down again.  The loop itself is EventLoop, step by step:  *)
(* the owner is one of its Threads and stop() makes the two steps of its   *)
(* quit().  stop() reads loop_ without mutex_.  The pointer startLoop()    *)
(* returns is passed on: any thread, and any callback in the loop, may     *)
(* queue tasks and quit() it, also while stop() is under way.  What a call *)
(* on an EventLoop that is gone does is undefined; it is left out of       *)
(* UseLoop and writes into the void in StopQuit and StopWakeup.            *)
(***************************************************************************)
EXTENDS EventLoop

CONSTANTS
  Owner,      \* the thread that calls startLoop() and stop()
  StopEarly   \* TRUE: stop() may come right after startLoop();
              \* FALSE: only once loop() has begun

ASSUME OwnerAssumption == Owner \in Threads
ASSUME StopEarlyAssumption == StopEarly \in BOOLEAN

VARIABLES
  thread,    \* where threadFunc is
  loop_,     \* EventLoopThread::loop_ # nullptr
  exiting_,  \* EventLoopThread::exiting_
  opc        \* where the owner is

lifeVars == <<thread, loop_, exiting_, opc>>
allVars == <<vars, lifeVars>>

LifeTypeOK ==
  /\ TypeOK
  /\ thread \in {"none", "constructing", "ready", "running", "cleared", "exited"}
  /\ loop_ \in BOOLEAN /\ exiting_ \in BOOLEAN
  /\ opc \in {"idle", "starting", "waiting", "started",
             "quit", "wake", "join", "stopped"}

LifeInit ==
  /\ Init
  /\ thread = "none" /\ loop_ = FALSE /\ exiting_ = FALSE /\ opc = "idle"

-----------------------------------------------------------------------------
(* threadFunc.                                                             *)

(* Mutated form: an owner that waits is not notified.                      *)
PublishWithoutNotify ==
  /\ thread = "constructing"
  /\ loop_' = TRUE
  /\ thread' = "ready"
  /\ UNCHANGED <<vars, exiting_, opc>>

(* The EventLoop is constructed; under mutex_, loop_ is set and the owner, *)
(* if it waits, notified: it goes back to the test of loop_.               *)
Publish ==
  /\ thread = "constructing"
  /\ loop_' = TRUE
  /\ thread' = "ready"
  /\ opc' = IF opc = "waiting" THEN "starting" ELSE opc
  /\ UNCHANGED <<vars, exiting_>>

RunLoop ==
  /\ thread = "ready"
  /\ EnterLoop
  /\ thread' = "running"
  /\ UNCHANGED <<loop_, exiting_, opc>>

(* startLoop() has returned the pointer, to the owner and whom it tells.   *)
HandedOut == opc \notin {"idle", "starting", "waiting"}

(* A step of loop(), or of a task or callback in it, which may also quit() *)
(* the loop.  Before the pointer is handed out the loop has no channel but *)
(* its own.                                                                *)
InLoop ==
  /\ thread = "running" /\ lpc # "idle"
  /\ \/ LoopStep \/ LoopQueueInLoop \/ LoopQuit
     \/ PollOther /\ (HandedOut \/ activeChannels_' = {})
  /\ UNCHANGED lifeVars

(* loop() has returned: loop_ = nullptr under mutex_.                      *)
ClearLoop ==
  /\ thread = "running" /\ lpc = "idle"
  /\ loop_' = FALSE
  /\ thread' = "cleared"
  /\ UNCHANGED <<vars, exiting_, opc>>

(* The EventLoop on the stack is destroyed, its eventfd closed.            *)
DestroyLoop ==
  /\ thread = "cleared"
  /\ thread' = "exited"
  /\ UNCHANGED <<vars, loop_, exiting_, opc>>

-----------------------------------------------------------------------------
(* The owner.                                                              *)

StartLoop ==
  /\ opc = "idle"
  /\ thread' = "constructing"
  /\ opc' = "starting"
  /\ UNCHANGED <<vars, loop_, exiting_>>

(* The test of loop_ under mutex_ fails: cond_.wait.                       *)
StartLoopWaits ==
  /\ opc = "starting" /\ ~loop_
  /\ opc' = "waiting"
  /\ UNCHANGED <<vars, thread, loop_, exiting_>>

(* cond_.wait may return without a notify.                                 *)
SpuriousWakeup ==
  /\ opc = "waiting"
  /\ opc' = "starting"
  /\ UNCHANGED <<vars, thread, loop_, exiting_>>

(* The test succeeds: loop_ is returned.                                   *)
StartLoopReturns ==
  /\ opc = "starting" /\ loop_
  /\ opc' = "started"
  /\ UNCHANGED <<vars, thread, loop_, exiting_>>

(* Whoever has the pointer calls queueInLoop and quit; the owner does so   *)
(* only before stop(), the others at any time while the EventLoop exists.  *)
UseLoop(t) ==
  /\ HandedOut /\ thread # "exited"
  /\ t = Owner => opc = "started"
  /\ QueueInLoop(t) \/ Quit(t) \/ Wakeup(t)
  /\ UNCHANGED lifeVars

(* stop(), up to the test of loop_.                                        *)
Stop ==
  /\ opc = "started" /\ ~exiting_
  /\ call[Owner] = "none"
  /\ StopEarly \/ thread # "ready"
  /\ exiting_' = TRUE
  /\ opc' = IF loop_ THEN "quit" ELSE "join"
  /\ UNCHANGED <<vars, thread, loop_>>

(* Mutated form: quit_ is set, the loop is not woken.                      *)
StopQuitWithoutWakeup ==
  /\ opc = "quit"
  /\ QuitWithoutWakeup(Owner)
  /\ opc' = "join"
  /\ UNCHANGED <<thread, loop_, exiting_>>

(* loop_->quit(), its two statements.                                      *)
StopQuit ==
  /\ opc = "quit"
  /\ Quit(Owner)
  /\ opc' = "wake"
  /\ UNCHANGED <<thread, loop_, exiting_>>

StopWakeup ==
  /\ opc = "wake"
  /\ Wakeup(Owner)
  /\ opc' = "join"
  /\ UNCHANGED <<thread, loop_, exiting_>>

(* thread_.join().                                                         *)
StopReturn ==
  /\ opc = "join" /\ thread = "exited"
  /\ opc' = "stopped"
  /\ UNCHANGED <<vars, thread, loop_, exiting_>>

-----------------------------------------------------------------------------
LifeNext ==
  \/ Publish \/ RunLoop \/ InLoop \/ ClearLoop \/ DestroyLoop
  \/ StartLoop \/ StartLoopWaits \/ SpuriousWakeup \/ StartLoopReturns
  \/ \E t \in Threads : UseLoop(t)
  \/ Stop \/ StopQuit \/ StopWakeup \/ StopReturn

(* The threads are scheduled, callbacks return, a call once begun is       *)
(* finished while the EventLoop exists.  Nobody has to call anything.      *)
LifeFairness ==
  /\ WF_allVars(Publish \/ RunLoop \/ ClearLoop \/ DestroyLoop)
  /\ WF_allVars(thread = "running" /\ lpc # "idle" /\ LoopStep /\ UNCHANGED lifeVars)
  /\ WF_allVars(StartLoopWaits \/ StartLoopReturns \/ StopQuit \/ StopWakeup \/ StopReturn)
  /\ \A t \in Threads :
       WF_allVars(UseLoop(t) /\ Wakeup(t))

LifeSpec == LifeInit /\ [][LifeNext]_allVars /\ LifeFairness

-----------------------------------------------------------------------------
(* Properties.                                                             *)

(* startLoop() returns: the publication is not missed, whether it comes    *)
(* before the owner tests loop_ or while it waits.                         *)
StartReturns == opc = "starting" ~> opc = "started"

(* stop() returns: the loop obeys the quit, the thread ends and is joined, *)
(* whoever else queues tasks or quits the loop meanwhile and whether       *)
(* stop() still finds loop_ set or a thread that has ended by itself.      *)
StopReturns == exiting_ ~> opc = "stopped"
=============================================================================
