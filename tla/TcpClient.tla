----------------------------- MODULE TcpClient -----------------------------
(***************************************************************************)
(* TcpClient and Connector (src/src/TcpClient.cpp, src/src/Connector.cpp): *)
(* clients in the thread of one EventLoop, each with its non-blocking      *)
(* connect, the timer that gives up an attempt and starts the next with a  *)
(* new Connector, the hand-over of the socket from the Connector to a      *)
(* TcpConnection, and disconnect() from the loop thread or another one.    *)
(*                                                                         *)
(* Of the loop the model keeps what matters here: channels become ready in *)
(* some order (the kernel's ready list is a FIFO), poll() takes them all,  *)
(* and they are handled one by one through raw Channel pointers.  A        *)
(* TcpConnection (module TcpConnection) is its socket; the application     *)
(* keeps no shared_ptr to it, so closing it destroys it.                   *)
(***************************************************************************)
EXTENDS Naturals, Sequences, FiniteSets, SequencesExt, FiniteSetsExt

CONSTANTS
  Clients,
  Fds,             \* bound: the file descriptors of the process, from 1
  SyncConnect,     \* TRUE: connect() may also succeed or fail at once
  AnswerRace,      \* TRUE: an attempt may be answered and time out, both still
                   \* unhandled and the timer's channel before its own
  DisconnectRace   \* TRUE: the connection may close while another thread is
                   \* inside disconnect()

ASSUME FdsAssumption == IsFiniteSet(Fds) /\ Fds = 1..Cardinality(Fds)
ASSUME EnoughFdsAssumption == IsFiniteSet(Clients) /\ Cardinality(Clients) <= Cardinality(Fds)
ASSUME FlagsAssumption == {SyncConnect, AnswerRace, DisconnectRace} \subseteq BOOLEAN

NoFd == 0
NoConnector == [fd |-> NoFd, connected_ |-> FALSE, pooling |-> FALSE]

TimerChannel == <<"timer">>
ConnectorChannel(c) == <<"connector", c>>
ConnectionChannel(c) == <<"connection", c>>
Expired(c) == <<"expired", c>>   \* not a channel: an entry of getExpired()
Dead(c) == <<"dead", c>>         \* the Channel of a Connector that is gone

VARIABLES
  client,       \* "created", "starting" (inside start()), "started", "destroyed"
  connector_,   \* the Connector: socket, connected_ and its channel's pooling
  connection_,  \* the socket of the TcpConnection, or NoFd
  connected_,   \* TcpClient::connected_
  retryTimer_,  \* TcpClient::retryTimer_ # nullptr
  timers,       \* the clients whose repeating Timer exists
  due,          \* those of them that are due
  sock,         \* per descriptor: "free" or the state of its TCP socket
  ready,        \* epoll's ready list
  batch,        \* what is left to do of activeChannels_
  thread,       \* another thread's disconnect(): "idle", "checked", then its task
                \* "queued", or "stale" when the client it captured is gone
  fault         \* the undefined behaviour that was met

timerVars == <<retryTimer_, timers, due>>
clientVars == <<connected_, connection_, timerVars>>
vars == <<client, connector_, clientVars, sock, ready, batch, thread, fault>>

TypeOK ==
  /\ client \in [Clients -> {"created", "starting", "started", "destroyed"}]
  /\ connector_ \in [Clients -> [fd : Fds \cup {NoFd}, connected_ : BOOLEAN, pooling : BOOLEAN]]
  /\ connection_ \in [Clients -> Fds \cup {NoFd}]
  /\ connected_ \in [Clients -> BOOLEAN] /\ retryTimer_ \in [Clients -> BOOLEAN]
  /\ timers \subseteq Clients /\ due \subseteq timers
  /\ sock \in [Fds -> {"free", "new", "connecting", "established", "half",
                       "closed", "reset", "refused", "failed"}]
  /\ thread \in [Clients -> {"idle", "checked", "queued", "stale"}]

-----------------------------------------------------------------------------
(* Sockets and the Connector.                                              *)

(* socket(): the lowest free descriptor.                                   *)
Socket(s) == Min({fd \in Fds : s[fd] = "free"})
Close(s, fd) == [s EXCEPT ![fd] = "free"]

(* Connector::Connector on the sockets s: the object, and the sockets then.*)
NewConnector(s) == [NoConnector EXCEPT !.fd = Socket(s)]
Created(s) == [s EXCEPT ![Socket(s)] = "new"]

(* Mutated form: the socket is not closed.                                 *)
DestroyedLeaky(c) == sock

(* Connector::~Connector: the socket is closed unless it was handed over.  *)
Destroyed(c) == IF connector_[c].connected_ THEN sock ELSE Close(sock, connector_[c].fd)

(* ... and the channel is removed from epoll, whose ready list holds it    *)
(* once at most; a pointer that poll() has delivered already stays behind. *)
Removed(c) == RemoveFirst(ready, ConnectorChannel(c))
LeftBehind(c) ==
  [i \in DOMAIN batch |-> IF batch[i] = ConnectorChannel(c) THEN Dead(c) ELSE batch[i]]

(* Mutated form: the result of the connect is not looked at.               *)
SocketErrorIgnored(state) == FALSE

(* SO_ERROR: only what happened after connect() has returned is kept there.*)
SocketError(state) == state \in {"refused", "reset"}

(* cancelTimer in the loop thread.  On no timer, or on the one whose       *)
(* callback is running, it is undefined.                                   *)
CancelTimer(c, inRetry) ==
  /\ fault' = CASE ~retryTimer_[c] -> "cancelTimer(nullptr)"
                [] retryTimer_[c] /\ inRetry -> "Timer deleted in its callback"
                [] OTHER -> fault
  /\ timers' = timers \ {c} /\ due' = due \ {c}

(* TcpClient::newConnection: cancel the retry timer, make a TcpConnection  *)
(* and register its channel, which is ready if the peer has closed already.*)
NewConnection(c, fd, state, inRetry, list) ==
  /\ CancelTimer(c, inRetry)
  /\ retryTimer_' = [retryTimer_ EXCEPT ![c] = FALSE]
  /\ connected_' = [connected_ EXCEPT ![c] = TRUE]
  /\ connection_' = [connection_ EXCEPT ![c] = fd]
  /\ ready' = IF state = "closed" THEN Append(list, ConnectionChannel(c)) ELSE list

(* Connector::handleWrite for the Connector con and the sockets s: reading *)
(* SO_ERROR clears it, and errorCallback_ gets no say.                     *)
HandleWrite(c, con, s, inRetry, list) ==
  LET failed == SocketError(s[con.fd]) IN
  /\ connector_' =
       [connector_ EXCEPT ![c] = [con EXCEPT !.pooling = FALSE, !.connected_ = ~failed]]
  /\ sock' = IF failed THEN [s EXCEPT ![con.fd] = "failed"] ELSE s
  /\ IF failed
     THEN ready' = list /\ UNCHANGED <<clientVars, fault>>
     ELSE NewConnection(c, con.fd, s[con.fd], inRetry, list)

(* Connector::start for the new Connector con: EINPROGRESS and EPOLLOUT,   *)
(* or an answer at once, which is left to handleWrite.                     *)
ConnectorStart(c, con, s, inRetry, list) ==
  \E now \in IF SyncConnect THEN {"connecting", "established", "new"} ELSE {"connecting"} :
    LET t == [s EXCEPT ![con.fd] = now] IN
    IF now = "connecting"
    THEN /\ connector_' = [connector_ EXCEPT ![c] = [con EXCEPT !.pooling = TRUE]]
         /\ sock' = t
         /\ ready' = list
         /\ UNCHANGED <<clientVars, fault>>
    ELSE HandleWrite(c, con, t, inRetry, list)

-----------------------------------------------------------------------------
(* TcpClient.                                                              *)

Init ==
  /\ client = [c \in Clients |-> "destroyed"]
  /\ connector_ = [c \in Clients |-> NoConnector]
  /\ connection_ = [c \in Clients |-> NoFd]
  /\ connected_ = [c \in Clients |-> FALSE] /\ retryTimer_ = [c \in Clients |-> FALSE]
  /\ timers = {} /\ due = {}
  /\ sock = [fd \in Fds |-> "free"]
  /\ ready = <<>> /\ batch = <<>>
  /\ thread = [c \in Clients |-> "idle"]
  /\ fault = "none"

(* The loop thread is between two batches, and in nobody's start().        *)
Idle == batch = <<>> /\ \A c \in Clients : client[c] # "starting"

(* TcpClient::TcpClient, in the place of one that is gone.                 *)
Create(c) ==
  /\ Idle /\ client[c] = "destroyed"
  /\ client' = [client EXCEPT ![c] = "created"]
  /\ connector_' = [connector_ EXCEPT ![c] = NewConnector(sock)]
  /\ sock' = Created(sock)
  /\ UNCHANGED <<clientVars, ready, batch, thread, fault>>

(* start(): the connector first, then the timer.                           *)
Start(c) ==
  /\ Idle /\ client[c] = "created"
  /\ client' = [client EXCEPT ![c] = "starting"]
  /\ ConnectorStart(c, connector_[c], sock, FALSE, ready)
  /\ UNCHANGED <<batch, thread>>

StartTimer(c) ==
  /\ client[c] = "starting"
  /\ client' = [client EXCEPT ![c] = "started"]
  /\ timers' = timers \cup {c} /\ retryTimer_' = [retryTimer_ EXCEPT ![c] = TRUE]
  /\ UNCHANGED <<connector_, connected_, connection_, due, sock, ready, batch, thread, fault>>

(* TimerQueue::handleRead, up to its loop over the expired timers.         *)
HandleTimers ==
  /\ batch # <<>> /\ Head(batch) = TimerChannel
  /\ \E order \in SetToSeqs({Expired(c) : c \in due}) : batch' = order \o Tail(batch)
  /\ due' = {}
  /\ UNCHANGED <<client, connector_, connected_, connection_, retryTimer_, timers,
                 sock, ready, thread, fault>>

(* Mutated form: the new Connector is not started.                         *)
RetryWithoutStart(c) ==
  /\ connector_' = [connector_ EXCEPT ![c] = NewConnector(Destroyed(c))]
  /\ sock' = Created(Destroyed(c)) /\ ready' = Removed(c)
  /\ UNCHANGED <<clientVars, fault>>

(* retry(): the old Connector goes, a new one is made and started.         *)
Retry(c) ==
  LET s == Destroyed(c) IN
  ConnectorStart(c, NewConnector(s), Created(s), TRUE, Removed(c))

(* The callback of a retry timer; it holds a raw this.                     *)
HandleExpired(c) ==
  /\ batch # <<>> /\ Head(batch) = Expired(c)
  /\ IF client[c] = "destroyed" \/ connected_[c]
     THEN /\ fault' = IF connected_[c] THEN fault ELSE "retry() of a dead client"
          /\ batch' = Tail(batch)
          /\ UNCHANGED <<connector_, clientVars, sock, ready>>
     ELSE Retry(c) /\ batch' = Tail(LeftBehind(c))
  /\ UNCHANGED <<client, thread>>

HandleConnector(c) ==
  /\ batch # <<>> /\ Head(batch) = ConnectorChannel(c)
  /\ batch' = Tail(batch)
  /\ HandleWrite(c, connector_[c], sock, FALSE, ready)
  /\ UNCHANGED <<client, thread>>

(* handleClose of the TcpConnection, with TcpClient::closeConnection.  The *)
(* connection is destroyed and its socket closed when handleEvents is done.*)
HandleClose(c) ==
  /\ batch # <<>> /\ Head(batch) = ConnectionChannel(c)
  /\ DisconnectRace \/ thread[c] # "checked"
  /\ batch' = Tail(batch)
  /\ connected_' = [connected_ EXCEPT ![c] = FALSE]
  /\ connection_' = [connection_ EXCEPT ![c] = NoFd]
  /\ sock' = Close(sock, connection_[c])
  /\ UNCHANGED <<client, connector_, timerVars, ready, thread, fault>>

(* TcpConnection::shutdown: nothing after the first time.                  *)
Shutdown(c) ==
  sock' = [sock EXCEPT ![connection_[c]] = IF @ = "established" THEN "half" ELSE @]

(* disconnect() in the loop thread.                                        *)
Disconnect(c) ==
  /\ Idle /\ connection_[c] # NoFd
  /\ Shutdown(c)
  /\ UNCHANGED <<client, connector_, clientVars, ready, batch, thread, fault>>

(* disconnect() in another thread: connection_ is found to be set ...      *)
ThreadDisconnect(c) ==
  /\ thread[c] = "idle" /\ connection_[c] # NoFd
  /\ thread' = [thread EXCEPT ![c] = "checked"]
  /\ UNCHANGED <<client, connector_, clientVars, sock, ready, batch, fault>>

(* ... and is used, and the rest is queued,                                *)
ThreadQueue(c) ==
  /\ thread[c] = "checked"
  /\ thread' = [thread EXCEPT ![c] = "queued"]
  /\ fault' = IF connection_[c] = NoFd THEN "null connection_" ELSE fault
  /\ UNCHANGED <<client, connector_, clientVars, sock, ready, batch>>

(* ... which the loop runs after a batch.  The task holds a raw this.      *)
RunTask(c) ==
  /\ Idle /\ thread[c] \in {"queued", "stale"}
  /\ thread' = [thread EXCEPT ![c] = "idle"]
  /\ IF thread[c] = "queued" /\ connection_[c] # NoFd THEN Shutdown(c) ELSE UNCHANGED sock
  /\ fault' = IF thread[c] = "stale" THEN "disconnect() of a dead client" ELSE fault
  /\ UNCHANGED <<client, connector_, clientVars, ready, batch>>

(* Mutated form: the timer is left running.                                *)
TimersLeft(c) == timers

(* The timers after ~TcpClient has cancelled retryTimer_.                  *)
TimersAfterDestroy(c) == IF retryTimer_[c] THEN timers \ {c} ELSE timers

(* ~TcpClient in the loop thread, no call being under way: the connection  *)
(* is force-closed (closeConnection included), the timer cancelled, the    *)
(* Connector destroyed.  A disconnect() that has returned may have left    *)
(* its task in the loop's queue.                                           *)
Destroy(c) ==
  /\ Idle /\ client[c] # "destroyed" /\ thread[c] # "checked"
  /\ thread' = [thread EXCEPT ![c] = IF @ = "queued" THEN "stale" ELSE @]
  /\ client' = [client EXCEPT ![c] = "destroyed"]
  /\ timers' = TimersAfterDestroy(c) /\ due' = due \cap timers'
  /\ retryTimer_' = [retryTimer_ EXCEPT ![c] = FALSE]
  /\ connected_' = [connected_ EXCEPT ![c] = FALSE]
  /\ connection_' = [connection_ EXCEPT ![c] = NoFd]
  /\ connector_' = [connector_ EXCEPT ![c] = NoConnector]
  /\ sock' = IF connection_[c] = NoFd THEN Destroyed(c) ELSE Close(Destroyed(c), connection_[c])
  /\ ready' = RemoveFirst(Removed(c), ConnectionChannel(c))
  /\ UNCHANGED <<batch, fault>>

-----------------------------------------------------------------------------
(* The loop and the world.                                                 *)

Poll ==
  /\ Idle /\ ready # <<>>
  /\ batch' = ready /\ ready' = <<>>
  /\ UNCHANGED <<client, connector_, clientVars, sock, thread, fault>>

TimerFirst(c) ==
  LET list == batch \o ready IN
  \E i, j \in DOMAIN list : i < j /\ list[i] = TimerChannel /\ list[j] = ConnectorChannel(c)

(* Three seconds are over: the one timerfd is readable.                    *)
TimerExpires(c) ==
  /\ c \in timers \ due /\ Expired(c) \notin Range(batch)
  /\ AnswerRace \/ ~TimerFirst(c)
  /\ due' = due \cup {c}
  /\ ready' = IF TimerChannel \in Range(ready \o batch) THEN ready ELSE Append(ready, TimerChannel)
  /\ UNCHANGED <<client, connector_, connected_, connection_, retryTimer_, timers,
                 sock, batch, thread, fault>>

(* The peer answers the attempt under way: accepted, or refused.           *)
Answer(c, state) ==
  /\ connector_[c].pooling /\ sock[connector_[c].fd] = "connecting"
  /\ AnswerRace \/ c \notin due
  /\ sock' = [sock EXCEPT ![connector_[c].fd] = state]
  /\ ready' = Append(ready, ConnectorChannel(c))
  /\ UNCHANGED <<client, connector_, clientVars, batch, thread, fault>>

(* The peer of an established socket closes or resets it.  Before the      *)
(* hand-over the connector's channel is ready already.                     *)
PeerCloses(fd, state) ==
  /\ sock[fd] \in {"established", "half"}
  /\ sock' = [sock EXCEPT ![fd] = state]
  /\ \/ \E c \in Clients :
          connection_[c] = fd /\ ready' = Append(ready, ConnectionChannel(c))
     \/ (\A c \in Clients : connection_[c] # fd) /\ UNCHANGED ready
  /\ UNCHANGED <<client, connector_, clientVars, batch, thread, fault>>

-----------------------------------------------------------------------------
Handle ==
  HandleTimers \/ \E c \in Clients : HandleExpired(c) \/ HandleConnector(c) \/ HandleClose(c)

Next ==
  \/ Poll \/ Handle
  \/ \E c \in Clients :
       \/ Create(c) \/ Start(c) \/ StartTimer(c) \/ Disconnect(c) \/ Destroy(c)
       \/ ThreadDisconnect(c) \/ ThreadQueue(c) \/ RunTask(c)
       \/ TimerExpires(c)
       \/ \E state \in {"established", "refused"} : Answer(c, state)
  \/ \E fd \in Fds, state \in {"closed", "reset"} : PeerCloses(fd, state)

(* Loop and threads run, time passes, and of infinitely many attempts one  *)
(* is accepted, and before the timer is due.                               *)
Fairness ==
  /\ SF_vars(Poll) /\ WF_vars(Handle)
  /\ \A c \in Clients :
       /\ WF_vars(StartTimer(c)) /\ WF_vars(ThreadQueue(c)) /\ WF_vars(TimerExpires(c))
       /\ SF_vars(c \notin due /\ Expired(c) \notin Range(batch) /\ Answer(c, "established"))

Spec == Init /\ [][Next]_vars /\ Fairness

-----------------------------------------------------------------------------
(* Properties.                                                             *)

Owners(fd) ==
  {ConnectorChannel(c) : c \in {d \in Clients : connector_[d].fd = fd /\ ~connector_[d].connected_}}
    \cup {ConnectionChannel(c) : c \in {d \in Clients : connection_[d] = fd}}

(* Every open socket has exactly one owner that will close it, through     *)
(* failed attempts, retries, the hand-over from Connector to TcpConnection *)
(* and destruction; a descriptor that is closed has none, so that nobody   *)
(* closes it again after another client got the same number.               *)
SocketOwned ==
  \A fd \in Fds : Cardinality(Owners(fd)) = IF sock[fd] = "free" THEN 0 ELSE 1

(* The repeating timer is there exactly as long as somebody needs it: none *)
(* is left to call retry() on a client that is gone or was not started,    *)
(* and a started client whose Connector has not connected still has its    *)
(* own, so that no failed, refused or abandoned attempt is its last.       *)
TimerFollowsClient ==
  \A c \in Clients :
    /\ c \in timers => client[c] = "started"
    /\ client[c] = "started" /\ ~connector_[c].connected_ => c \in timers

(* A connection is announced only for a socket whose connect succeeded:    *)
(* handleWrite must take every failure for one.                            *)
OnlyRealConnections ==
  \A c \in Clients : connection_[c] # NoFd =>
    sock[connection_[c]] \in {"established", "half", "closed", "reset"} /\ connector_[c].connected_

Refused(c) ==
  LET con == connector_[c] IN
  con.fd # NoFd /\ ~con.connected_ /\ sock[con.fd] \in {"refused", "reset"}

(* Once a client's peer is there for good, refusing and resetting nothing, *)
(* the client gets connected whatever became of its earlier attempts,      *)
(* unless it is destroyed first.                                           *)
KeepsTrying ==
  \A c \in Clients :
    <>[]~Refused(c) =>
      (client[c] = "started" /\ ~connector_[c].connected_)
        ~> (connector_[c].connected_ \/ client[c] # "started")
=============================================================================
