----------------------------- MODULE TcpServer -----------------------------
(***************************************************************************)
(* TcpServer (src/src/TcpServer.cpp) with the Acceptor inside its          *)
(* TcpServerSingle (Acceptor.cpp, TcpServerSingle.cpp) and its workers     *)
(* (EventLoopThreadPool.cpp).  The base loop accepts, and hands each       *)
(* descriptor to a worker as a queued task that makes the connection.      *)
(* Every loop is the serial executor that EventLoop is shown to be         *)
(* (Executor); a connection is reduced to being open and being closed,     *)
(* TcpConnection has the rest.                                             *)
(*                                                                         *)
(* TcpServer keeps no shared_ptr to a connection and replaces the callback *)
(* with which TcpServerSingle would: connections_ stays empty.  Only the   *)
(* application can keep a connection, from inside connectionCallback_.     *)
(***************************************************************************)
EXTENDS Naturals, Sequences, FiniteSets, SequencesExt

CONSTANTS
  Conns,           \* the connections clients make
  MaxThreads,      \* bound: worker threads
  MaxFds,          \* descriptors the process has for connections (external)
  AppKeeps         \* TRUE: connectionCallback_ stores the connection when it
                   \* is connected and drops it when it is not

ASSUME SizesAssumption == MaxThreads \in Nat /\ MaxFds \in Nat \ {0}
ASSUME AppAssumption == AppKeeps \in BOOLEAN
ASSUME NamesAssumption == Conns \cap {"start", "init"} = {}

VARIABLES
  started_,     \* TcpServer::started_
  numThreads_,  \* EventLoopThreadPool::numThreads_
  next_,        \* EventLoopThreadPool::next_, from 0
  acceptor_,    \* TcpServer::acceptor_: "none", "listening" or "closed"
  loop,         \* per loop: "idle" before loop(), "running" or "stopped"
  queue,        \* per loop: pending tasks; a connection stands for the task
                \* that newConnection queues for it
  server,       \* the object: "alive", "dying" (in its destructor), "gone"
  inited,       \* history: the loops in which threadInitCallback_ ran
  st,           \* per connection: where it is in its life
  ioLoop,       \* per connection: the loop it was given to
  fds,          \* the connections whose descriptor is open
  kept,         \* the connections the application holds
  peerGone,     \* the connections the peer closed (external)
  backlog,      \* completed connections waiting for accept4() (external)
  fault         \* a failed assert or a use of something destroyed

confVars == <<started_, numThreads_, acceptor_, inited, loop, server>>
connVars == <<st, fds, kept>>
peerVars == <<peerGone, backlog>>
vars == <<confVars, connVars, peerVars, next_, ioLoop, queue, fault>>

Base == 0
Loops == 0..MaxThreads
Workers == 1..numThreads_    \* loops_[i] is worker i + 1
Life == {"absent", "backlog", "aborted", "accepted", "connected", "destroyed"}

(* Every variable holds a value of its kind; next_ is an index of loops_.  *)
TypeOK ==
  /\ started_ \in BOOLEAN /\ numThreads_ \in Loops
  /\ next_ \in 0..MaxThreads /\ (next_ = 0 \/ next_ < numThreads_)
  /\ acceptor_ \in {"none", "listening", "closed"}
  /\ loop \in [Loops -> {"idle", "running", "stopped"}]
  /\ \A l \in Loops : Range(queue[l]) \subseteq Conns \cup {"start", "init"}
  /\ server \in {"alive", "dying", "gone"}
  /\ inited \subseteq Loops
  /\ st \in [Conns -> Life] /\ ioLoop \in [Conns -> Loops]
  /\ fds \cup kept \cup peerGone \cup Range(backlog) \subseteq Conns
  /\ fault \in {"none", "startInLoop", "destroyed"}

Init ==
  /\ started_ = FALSE /\ numThreads_ = 0 /\ next_ = 0
  /\ acceptor_ = "none" /\ inited = {} /\ server = "alive"
  /\ loop = [l \in Loops |-> "idle"]
  /\ queue = [l \in Loops |-> <<>>]
  /\ st = [c \in Conns |-> "absent"] /\ ioLoop = [c \in Conns |-> Base]
  /\ fds = {} /\ kept = {} /\ peerGone = {} /\ backlog = <<>>
  /\ fault = "none"

Running(l) == fault = "none" /\ loop[l] = "running"

-----------------------------------------------------------------------------
(* Starting.                                                               *)

(* setNumThread(n), n > 0: 0 is only logged.  Calling it after start()     *)
(* fails its assert; applications configure the server first.              *)
setNumThread(n) ==
  /\ server = "alive" /\ ~started_
  /\ n # numThreads_
  /\ numThreads_' = n
  /\ UNCHANGED <<started_, acceptor_, inited, loop, server, connVars, peerVars,
                 next_, ioLoop, queue, fault>>

(* EventLoopThreadPool::start: every worker thread is in loop().           *)
StartWorkers ==
  loop' = [l \in Loops |-> IF l \in Workers THEN "running" ELSE loop[l]]

(* Acceptor::listen.                                                       *)
Listen == acceptor_' = "listening"

(* Mutated form: the loop over getAllLoops() ends one early.               *)
InitThreadsShort(q) ==
  /\ inited' = {Base}
  /\ queue' = [l \in Loops |-> CASE l = Base -> q
                                 [] l \in Workers \ {numThreads_} -> <<"init">>
                                 [] OTHER -> queue[l]]

(* threadInitCallback_ is called for the base loop, and sent to each       *)
(* worker as a task; the rest of the base loop's queue is q.               *)
InitThreads(q) ==
  /\ inited' = {Base}
  /\ queue' = [l \in Loops |-> CASE l = Base -> q
                                 [] l \in Workers -> <<"init">>
                                 [] OTHER -> queue[l]]

(* startInLoop, with its assert(!acceptor_).                               *)
StartInLoop(q) ==
  IF acceptor_ = "none"
  THEN StartWorkers /\ InitThreads(q) /\ Listen /\ UNCHANGED fault
  ELSE /\ fault' = "startInLoop"
       /\ queue' = [queue EXCEPT ![Base] = q]
       /\ UNCHANGED <<acceptor_, inited, loop>>

(* start(), called in the base loop's thread: runInLoop runs it at once.   *)
StartHere ==
  /\ fault = "none" /\ server = "alive" /\ loop[Base] # "stopped"
  /\ ~started_
  /\ started_' = TRUE
  /\ StartInLoop(queue[Base])
  /\ UNCHANGED <<numThreads_, server, connVars, peerVars, next_, ioLoop>>

(* start(), called in another thread: runInLoop queues it.                 *)
StartElsewhere ==
  /\ fault = "none" /\ server = "alive"
  /\ ~started_
  /\ started_' = TRUE
  /\ queue' = [queue EXCEPT ![Base] = Append(@, "start")]
  /\ UNCHANGED <<numThreads_, acceptor_, inited, loop, server, connVars, peerVars,
                 next_, ioLoop, fault>>

(* The application runs the base loop, with or without its server, and     *)
(* ends it with quit().                                                    *)
BaseLoop ==
  /\ fault = "none" /\ server # "dying" /\ loop[Base] = "idle"
  /\ loop' = [loop EXCEPT ![Base] = "running"]
  /\ UNCHANGED <<started_, numThreads_, acceptor_, inited, server, connVars,
                 peerVars, next_, ioLoop, queue, fault>>

BaseQuit ==
  /\ Running(Base)
  /\ loop' = [loop EXCEPT ![Base] = "stopped"]
  /\ UNCHANGED <<started_, numThreads_, acceptor_, inited, server, connVars,
                 peerVars, next_, ioLoop, queue, fault>>

-----------------------------------------------------------------------------
(* Connections.                                                            *)

(* A client connects, or closes its connection (external).                 *)
PeerConnects(c) ==
  /\ acceptor_ = "listening" /\ st[c] = "absent"
  /\ st' = [st EXCEPT ![c] = "backlog"]
  /\ backlog' = Append(backlog, c)
  /\ UNCHANGED <<confVars, fds, kept, peerGone, next_, ioLoop, queue, fault>>

PeerCloses(c) ==
  /\ st[c] \in {"backlog", "accepted", "connected"} /\ c \notin peerGone
  /\ peerGone' = peerGone \cup {c}
  /\ UNCHANGED <<confVars, connVars, backlog, next_, ioLoop, queue, fault>>

(* The task of newConnection: the connection is made, established and      *)
(* shown to the application; if that does not keep it, the last shared_ptr *)
(* goes with the task, and ~TcpConnection closes the descriptor.           *)
Establish(c) ==
  IF AppKeeps
  THEN /\ st' = [st EXCEPT ![c] = "connected"]
       /\ kept' = kept \cup {c}
       /\ fds' = fds \cup {c}
  ELSE /\ st' = [st EXCEPT ![c] = "destroyed"]
       /\ fds' = fds \ {c}
       /\ UNCHANGED kept

(* getNextLoop: the base loop if there are no workers, else in turn.       *)
NextLoop == IF numThreads_ = 0 THEN Base ELSE next_ + 1
Following == IF next_ + 1 >= numThreads_ THEN 0 ELSE next_ + 1

(* newConnection, in the base loop: runInLoop runs the task at once if the *)
(* base loop is the one chosen, and queues it for a worker otherwise.      *)
NewConnection(c) ==
  /\ ioLoop' = [ioLoop EXCEPT ![c] = NextLoop]
  /\ next_' = Following
  /\ IF NextLoop = Base
     THEN Establish(c) /\ UNCHANGED queue
     ELSE /\ queue' = [queue EXCEPT ![NextLoop] = Append(@, c)]
          /\ st' = [st EXCEPT ![c] = "accepted"]
          /\ fds' = fds \cup {c}
          /\ UNCHANGED kept

(* Acceptor::handleRead: one accept4() for each event.  Without a free     *)
(* descriptor it fails with EMFILE, and the handler returns with nothing   *)
(* changed: the event comes again.                                         *)
Accept ==
  /\ Running(Base) /\ acceptor_ = "listening"
  /\ backlog # <<>> /\ Cardinality(fds) < MaxFds
  /\ backlog' = Tail(backlog)
  /\ NewConnection(Head(backlog))
  /\ UNCHANGED <<confVars, peerGone, fault>>

(* Acceptor::handleRead, ECONNABORTED: the client went away too soon.      *)
AcceptAborted ==
  /\ Running(Base) /\ acceptor_ = "listening"
  /\ backlog # <<>> /\ Head(backlog) \in peerGone
  /\ st' = [st EXCEPT ![Head(backlog)] = "aborted"]
  /\ backlog' = Tail(backlog)
  /\ UNCHANGED <<confVars, fds, kept, peerGone, next_, ioLoop, queue, fault>>

(* doPendingTasks of loop l runs one task; every task has the server's raw *)
(* this, and its callbacks are members of the server.                      *)
RunTask(l) ==
  /\ Running(l) /\ queue[l] # <<>>
  /\ LET task == Head(queue[l])
         rest == [queue EXCEPT ![l] = Tail(@)]
     IN  IF server # "alive"
         THEN /\ fault' = "destroyed"
              /\ UNCHANGED <<acceptor_, inited, loop, queue, connVars>>
         ELSE \/ /\ task = "start"
                 /\ StartInLoop(Tail(queue[l]))
                 /\ UNCHANGED connVars
              \/ /\ task = "init"
                 /\ inited' = inited \cup {l}
                 /\ queue' = rest
                 /\ UNCHANGED <<acceptor_, loop, connVars, fault>>
              \/ /\ task \in Conns
                 /\ Establish(task)
                 /\ queue' = rest
                 /\ UNCHANGED <<acceptor_, inited, loop, fault>>
  /\ UNCHANGED <<started_, numThreads_, server, peerVars, next_, ioLoop>>

(* Mutated form: closeConnection does not call connectionCallback_.        *)
HandleCloseSilently(c) ==
  /\ st[c] = "connected" /\ c \in peerGone /\ Running(ioLoop[c])
  /\ st' = [st EXCEPT ![c] = "destroyed"]
  /\ UNCHANGED <<confVars, peerVars, next_, ioLoop, queue, fault, kept, fds>>

(* Mutated form: ~TcpConnection leaves the descriptor open.                *)
HandleCloseNoClose(c) ==
  /\ st[c] = "connected" /\ c \in peerGone /\ Running(ioLoop[c])
  /\ st' = [st EXCEPT ![c] = "destroyed"]
  /\ kept' = kept \ {c}
  /\ UNCHANGED <<confVars, peerVars, next_, ioLoop, queue, fault, fds>>

(* The loop of c finds that the peer closed it: handleClose, then          *)
(* closeConnection, in which the application drops its shared_ptr; when    *)
(* the handler is done ~TcpConnection closes the descriptor.               *)
HandleClose(c) ==
  /\ st[c] = "connected" /\ c \in peerGone /\ Running(ioLoop[c])
  /\ IF server = "alive"
     THEN /\ st' = [st EXCEPT ![c] = "destroyed"]
          /\ kept' = kept \ {c}
          /\ fds' = fds \ {c}
          /\ UNCHANGED fault
     ELSE fault' = "destroyed" /\ UNCHANGED connVars
  /\ UNCHANGED <<confVars, peerVars, next_, ioLoop, queue>>

-----------------------------------------------------------------------------
(* Destruction, in the base loop's thread and outside its loop(), whatever *)
(* the workers are doing.                                                  *)

(* ~TcpServer: acceptor_->stop() finds connections_ empty.  The callbacks, *)
(* declared last, are destroyed first.                                     *)
Destroy ==
  /\ fault = "none" /\ server = "alive" /\ loop[Base] # "running"
  /\ server' = "dying"
  /\ UNCHANGED <<started_, numThreads_, acceptor_, inited, loop, connVars,
                 peerVars, next_, ioLoop, queue, fault>>

(* Then threadPool_: each EventLoopThread quits its loop and joins, and    *)
(* the tasks its EventLoop still has are dropped.                          *)
StopWorker(l) ==
  /\ fault = "none" /\ server = "dying" /\ loop[l] = "running"
  /\ \A k \in Workers : k < l => loop[k] # "running"
  /\ loop' = [loop EXCEPT ![l] = "stopped"]
  /\ queue' = [queue EXCEPT ![l] = <<>>]
  /\ UNCHANGED <<started_, numThreads_, acceptor_, inited, server, connVars,
                 peerVars, next_, ioLoop, fault>>

(* Then acceptor_: ~Acceptor closes the listening socket.                  *)
DestroyAcceptor ==
  /\ fault = "none" /\ server = "dying"
  /\ \A l \in Workers : loop[l] # "running"
  /\ server' = "gone"
  /\ acceptor_' = IF acceptor_ = "none" THEN "none" ELSE "closed"
  /\ st' = [c \in Conns |-> IF st[c] = "backlog" THEN "aborted" ELSE st[c]]
  /\ backlog' = <<>>
  /\ UNCHANGED <<started_, numThreads_, inited, loop, fds, kept, peerGone,
                 next_, ioLoop, queue, fault>>

-----------------------------------------------------------------------------
Next ==
  \/ \E n \in 1..MaxThreads : setNumThread(n)
  \/ StartHere
  \/ StartElsewhere
  \/ BaseLoop
  \/ BaseQuit
  \/ \E c \in Conns : PeerConnects(c)
  \/ \E c \in Conns : PeerCloses(c)
  \/ Accept
  \/ AcceptAborted
  \/ \E l \in Loops : RunTask(l)
  \/ \E c \in Conns : HandleClose(c)
  \/ Destroy
  \/ \E l \in Loops \ {Base} : StopWorker(l)
  \/ DestroyAcceptor

(* Loops run their tasks and handle their events; clients do not stay for  *)
(* ever, without which those waiting for a descriptor might wait for ever. *)
Fairness ==
  /\ \A l \in Loops : WF_vars(RunTask(l))
  /\ WF_vars(Accept)
  /\ \A c \in Conns : WF_vars(HandleClose(c)) /\ WF_vars(PeerCloses(c))

Spec == Init /\ [][Next]_vars /\ Fairness

-----------------------------------------------------------------------------
(* An application may rely on threadInitCallback_ having run in a loop     *)
(* before that loop shows it its first connection, though both are sent    *)
(* there as tasks (TcpServer::startInLoop, TcpServer::newConnection).      *)
InitBeforeConnections ==
  \A c \in Conns : st[c] \in {"connected", "destroyed"} => ioLoop[c] \in inited

(* No descriptor leaks between accept4() and close(): an open one is in a  *)
(* task that a loop will still run, or in a connection the application     *)
(* holds (Acceptor::handleRead, newConnection, ~TcpConnection).  The one   *)
(* exception is ~TcpServer stopping a worker that never got to the task,   *)
(* which holds the descriptor as a bare int.                               *)
FdsOwned ==
  \A c \in fds :
    \/ c \in kept
    \/ loop[ioLoop[c]] = "running" /\ c \in Range(queue[ioLoop[c]])
    \/ server # "alive" /\ loop[ioLoop[c]] = "stopped" /\ st[c] = "accepted"

(* While the base loop runs, a connection that completed is accepted or    *)
(* found aborted, also when accept4() fails with EMFILE for a while:       *)
(* descriptors come back because closeConnection tells the application to  *)
(* let go.  An accepted one is shown to the application, whatever becomes  *)
(* of the base loop, unless the server is destroyed (Acceptor::handleRead, *)
(* TcpServer::newConnection).                                              *)
Served ==
  \A c \in Conns :
    /\ st[c] = "backlog" ~> (st[c] # "backlog" \/ loop[Base] # "running")
    /\ st[c] = "accepted" ~> (st[c] \in {"connected", "destroyed"} \/ server # "alive")

(* What the echo servers of the repository take for granted: the server    *)
(* does not destroy a connection whose client is still there               *)
(* (TcpServer::newConnection).                                             *)
StaysUntilPeerCloses ==
  \A c \in Conns : st[c] = "destroyed" => c \in peerGone
=============================================================================
