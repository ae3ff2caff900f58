-------------------------- MODULE TcpServerProofs --------------------------
(***************************************************************************)
(* Proofs about TcpServer, for any number of workers, descriptors and      *)
(* clients.                                                                *)
(***************************************************************************)
EXTENDS TcpServer, SequenceTheorems, TLAPS

Tasks == Conns \cup {"start", "init"}

Types ==
  /\ numThreads_ \in 0..MaxThreads
  /\ next_ \in Nat /\ (next_ = 0 \/ next_ < numThreads_)
  /\ loop \in [Loops -> {"idle", "running", "stopped"}]
  /\ queue \in [Loops -> Seq(Tasks)]
  /\ st \in [Conns -> Life] /\ ioLoop \in [Conns -> Loops]
  /\ backlog \in Seq(Conns)
  /\ server \in {"alive", "dying", "gone"}

(* The queue of the base loop holds at most one thing, a start() that has  *)
(* not taken effect; the base loop accepts only while the server lives.    *)
StartInv ==
  /\ queue[Base] \in {<<>>, <<"start">>}
  /\ queue[Base] = <<"start">> => started_ /\ acceptor_ = "none"
  /\ acceptor_ # "none" => started_ /\ Base \in inited
  /\ acceptor_ = "none" => next_ = 0
  /\ server = "dying" => loop[Base] # "running"
  /\ server = "gone" => acceptor_ # "listening"

(* Before startInLoop, and beyond the last worker, nothing runs.  Then the *)
(* workers run as long as the server lives, and each has the task that     *)
(* calls threadInitCallback_ before all others, or it has run.             *)
WorkerInv ==
  \A l \in Loops \ {Base} :
    /\ acceptor_ = "none" \/ l \notin Workers => loop[l] = "idle" /\ queue[l] = <<>>
    /\ acceptor_ # "none" /\ server = "alive" /\ l \in Workers => loop[l] = "running"
    /\ Running(l)
         => \/ l \in inited /\ queue[l] \in Seq(Conns)
            \/ /\ queue[l] # <<>> /\ Head(queue[l]) = "init"
               /\ Tail(queue[l]) \in Seq(Conns)

(* Each element is at one place of s only.                                 *)
Distinct(s) == \A i, j \in 1..Len(s) : s[i] = s[j] => i = j

(* A connection is in the backlog once, and before accept4() it is nowhere *)
(* else; then it is queued once, where it was assigned, until it is made.  *)
ConnInv ==
  /\ acceptor_ = "none" => backlog = <<>> /\ \A c \in Conns : st[c] = "absent"
  /\ Distinct(backlog)
  /\ \A c \in Range(backlog) : st[c] = "backlog"
  /\ \A c \in Conns : \A l \in Loops :
       c \in Range(queue[l]) => ioLoop[c] = l /\ st[c] = "accepted"
  /\ \A l \in Loops : Distinct(queue[l])
  /\ InitBeforeConnections

IInv == Types /\ StartInv /\ WorkerInv /\ ConnInv

(* An open descriptor is that of a connection, after accept4().            *)
OwnedInv ==
  /\ FdsOwned
  /\ \A c \in fds : c \in Conns /\ st[c] \notin {"absent", "backlog"}

-----------------------------------------------------------------------------
(* Sequences and their elements.                                           *)

(* Append adds its argument to the elements.                               *)
LEMMA RangeAppended ==
  ASSUME NEW S, NEW s \in Seq(S), NEW e \in S
  PROVE  Append(s, e) \in Seq(S) /\ Range(Append(s, e)) = Range(s) \cup {e}
<1>1. /\ Append(s, e) \in Seq(S) /\ Len(Append(s, e)) = Len(s) + 1 /\ Len(s) \in Nat
      /\ DOMAIN s = 1..Len(s) /\ DOMAIN Append(s, e) = 1..(Len(s) + 1)
      /\ \A i \in 1..Len(s) : Append(s, e)[i] = s[i]
      /\ Append(s, e)[Len(s) + 1] = e
  BY AppendProperties, LenProperties
<1>2. \A x \in Range(Append(s, e)) : x \in Range(s) \cup {e}
  <2> TAKE x \in Range(Append(s, e))
  <2>1. PICK i \in 1..(Len(s) + 1) : x = Append(s, e)[i]
    BY <1>1 DEF Range
  <2>2. i \in 1..Len(s) \/ i = Len(s) + 1
    BY <1>1
  <2> QED BY <1>1, <2>1, <2>2 DEF Range
<1>3. \A x \in Range(s) \cup {e} : x \in Range(Append(s, e))
  <2> TAKE x \in Range(s) \cup {e}
  <2>1. CASE x = e
    <3>1. Len(s) + 1 \in 1..(Len(s) + 1)
      BY <1>1
    <3> QED BY <1>1, <2>1, <3>1 DEF Range
  <2>2. CASE x \in Range(s)
    <3>1. PICK i \in 1..Len(s) : x = s[i]
      BY <1>1, <2>2 DEF Range
    <3>2. i \in 1..(Len(s) + 1)
      BY <1>1
    <3> QED BY <1>1, <3>1, <3>2 DEF Range
  <2> QED BY <2>1, <2>2
<1> QED
  BY <1>1, <1>2, <1>3

(* A sequence has its head and the elements of its tail.                   *)
LEMMA RangeOfTail ==
  ASSUME NEW S, NEW s \in Seq(S), s # <<>>
  PROVE  /\ Head(s) \in S /\ Tail(s) \in Seq(S)
         /\ Range(s) = {Head(s)} \cup Range(Tail(s))
<1>1. /\ Len(s) \in Nat \ {0} /\ Head(s) \in S /\ Tail(s) \in Seq(S)
      /\ Len(Tail(s)) = Len(s) - 1 /\ Head(s) = s[1]
      /\ DOMAIN s = 1..Len(s) /\ DOMAIN Tail(s) = 1..(Len(s) - 1)
      /\ \A i \in 1..(Len(s) - 1) : Tail(s)[i] = s[i + 1]
  BY EmptySeq, HeadTailProperties, LenProperties
<1>2. \A x \in Range(s) : x \in {Head(s)} \cup Range(Tail(s))
  <2> TAKE x \in Range(s)
  <2>1. PICK i \in 1..Len(s) : x = s[i]
    BY <1>1 DEF Range
  <2>2. CASE i = 1
    BY <1>1, <2>1, <2>2
  <2>3. CASE i # 1
    <3>1. i - 1 \in 1..(Len(s) - 1) /\ (i - 1) + 1 = i
      BY <1>1, <2>3
    <3>2. Tail(s)[i - 1] = x
      BY <1>1, <2>1, <3>1
    <3> QED BY <1>1, <3>1, <3>2 DEF Range
  <2> QED BY <2>2, <2>3
<1>3. \A x \in {Head(s)} \cup Range(Tail(s)) : x \in Range(s)
  <2> TAKE x \in {Head(s)} \cup Range(Tail(s))
  <2>1. CASE x = Head(s)
    <3>1. 1 \in 1..Len(s)
      BY <1>1
    <3> QED BY <1>1, <2>1, <3>1 DEF Range
  <2>2. CASE x \in Range(Tail(s))
    <3>1. PICK i \in 1..(Len(s) - 1) : x = Tail(s)[i]
      BY <1>1, <2>2 DEF Range
    <3>2. i + 1 \in 1..Len(s) /\ x = s[i + 1]
      BY <1>1, <3>1
    <3> QED BY <1>1, <3>2 DEF Range
  <2> QED BY <2>1, <2>2
<1> QED
  BY <1>1, <1>2, <1>3

(* The elements of the shortest sequences.                                 *)
LEMMA RangeOfShort ==
  ASSUME NEW e
  PROVE  /\ Range(<<>>) = {} /\ Range(<<e>>) = {e}
         /\ Head(<<e>>) = e /\ Tail(<<e>>) = <<>>
         /\ Distinct(<<>>) /\ Distinct(<<e>>)
<1>1. Len(<<>>) = 0 /\ Len(<<e>>) = 1
  BY EmptySeq
<1>2. \A i, j \in 1..1 : i = j
  OBVIOUS
<1>3. Distinct(<<>>) /\ Distinct(<<e>>)
  BY <1>1, <1>2 DEF Distinct
<1> QED
  BY <1>3 DEF Range

(* Taking the head of distinct elements leaves the others, distinct.       *)
LEMMA DistinctTail ==
  ASSUME NEW S, NEW s \in Seq(S), s # <<>>, Distinct(s)
  PROVE  Distinct(Tail(s)) /\ Head(s) \notin Range(Tail(s))
<1>1. /\ Len(s) \in Nat \ {0} /\ Len(Tail(s)) = Len(s) - 1 /\ Head(s) = s[1]
      /\ DOMAIN Tail(s) = 1..(Len(s) - 1)
      /\ \A i \in 1..(Len(s) - 1) : Tail(s)[i] = s[i + 1]
  BY EmptySeq, HeadTailProperties, LenProperties
<1>2. \A i \in 1..(Len(s) - 1) : i + 1 \in 1..Len(s) /\ i + 1 # 1
  BY <1>1
<1>3. \A i, j \in 1..(Len(s) - 1) : i + 1 = j + 1 => i = j
  OBVIOUS
<1>4. 1 \in 1..Len(s)
  BY <1>1
<1>5. Distinct(Tail(s))
  BY <1>1, <1>2, <1>3 DEF Distinct
<1>6. \A i \in 1..(Len(s) - 1) : Tail(s)[i] # Head(s)
  BY <1>1, <1>2, <1>4 DEF Distinct
<1> QED
  BY <1>1, <1>5, <1>6 DEF Range

(* Appending a new element keeps the elements distinct.                    *)
LEMMA DistinctAppend ==
  ASSUME NEW S, NEW s \in Seq(S), NEW e \in S, e \notin Range(s), Distinct(s)
  PROVE  Distinct(Append(s, e))
<1>1. /\ Len(Append(s, e)) = Len(s) + 1 /\ Len(s) \in Nat
      /\ DOMAIN s = 1..Len(s)
      /\ \A i \in 1..Len(s) : Append(s, e)[i] = s[i]
      /\ Append(s, e)[Len(s) + 1] = e
  BY AppendProperties, LenProperties
<1>2. \A i \in 1..Len(s) : s[i] # e
  BY <1>1 DEF Range
<1> SUFFICES ASSUME NEW i \in 1..(Len(s) + 1), NEW j \in 1..(Len(s) + 1),
                    Append(s, e)[i] = Append(s, e)[j]
             PROVE  i = j
  BY <1>1 DEF Distinct
<1>3. (i \in 1..Len(s) \/ i = Len(s) + 1) /\ (j \in 1..Len(s) \/ j = Len(s) + 1)
  BY <1>1
<1> QED
  BY <1>1, <1>2, <1>3 DEF Distinct

-----------------------------------------------------------------------------
(* The base loop is not a worker, and workers are loops.                   *)
LEMMA LoopFacts ==
  ASSUME Types
  PROVE  /\ Base \in Loops /\ Base \notin Workers /\ Workers \subseteq Loops \ {Base}
         /\ NextLoop \in Loops /\ (NextLoop # Base => NextLoop \in Workers)
         /\ Following \in Nat /\ (Following = 0 \/ Following < numThreads_)
  BY SizesAssumption DEF Types, Base, Loops, Workers, NextLoop, Following

(* Initially nothing is running, queued or open.                           *)
LEMMA InitInv == Init => IInv /\ OwnedInv
<1> SUFFICES ASSUME Init PROVE IInv /\ OwnedInv
  OBVIOUS
<1>1. Base \in Loops /\ numThreads_ \in 0..MaxThreads /\ next_ \in Nat
  BY SizesAssumption DEF Base, Loops, Init
<1>2. \A S : <<>> \in Seq(S)
  BY EmptySeq
<1>3. Types
  BY <1>1, <1>2 DEF Init, Types, Life
<1>4. queue[Base] = <<>> /\ \A l \in Loops : queue[l] = <<>> /\ loop[l] = "idle"
  BY <1>1 DEF Init
<1>5. StartInv
  BY <1>1, <1>4 DEF Init, StartInv
<1>6. WorkerInv
  BY <1>4 DEF Init, WorkerInv, Running
<1>7. Range(<<>>) = {} /\ Distinct(<<>>)
  <2>1. Len(<<>>) = 0
    BY EmptySeq
  <2>2. Distinct(<<>>)
    BY <2>1 DEF Distinct
  <2> QED BY <2>2 DEF Range
<1>8. ConnInv
  BY <1>4, <1>7 DEF Init, ConnInv, InitBeforeConnections
<1>9. OwnedInv
  BY DEF Init, OwnedInv, FdsOwned
<1> QED
  BY <1>3, <1>5, <1>6, <1>8, <1>9 DEF IInv

(* startInLoop, the first time.                                            *)
LEMMA StartStep ==
  ASSUME IInv, acceptor_ = "none", server = "alive", StartInLoop(<<>>), started_',
         UNCHANGED <<numThreads_, server, connVars, peerVars, next_, ioLoop>>
  PROVE  IInv' /\ (OwnedInv => OwnedInv')
<1>0. Types /\ StartInv /\ WorkerInv /\ ConnInv
  BY DEF IInv
<1>1. /\ loop' = [l \in Loops |-> IF l \in Workers THEN "running" ELSE loop[l]]
      /\ inited' = {Base} /\ acceptor_' = "listening" /\ fault' = fault
      /\ queue' = [l \in Loops |-> CASE l = Base -> <<>>
                                     [] l \in Workers -> <<"init">>
                                     [] OTHER -> queue[l]]
  BY DEF StartInLoop, StartWorkers, InitThreads, Listen
<1>2. UNCHANGED <<numThreads_, server, st, fds, kept, peerGone, backlog, next_, ioLoop>>
  BY DEF connVars, peerVars
<1>3. <<>> \in Seq(Tasks) /\ <<"init">> \in Seq(Tasks) /\ <<>> \in Seq(Conns)
  BY EmptySeq DEF Tasks
<1>4. /\ queue'[Base] = <<>> /\ loop'[Base] = loop[Base]
      /\ \A l \in Loops \ {Base} :
           /\ l \in Workers => queue'[l] = <<"init">> /\ loop'[l] = "running"
           /\ l \notin Workers => queue'[l] = <<>> /\ loop'[l] = "idle"
  BY <1>0, <1>1, LoopFacts DEF WorkerInv
<1>5. Types'
  <2>1. queue' \in [Loops -> Seq(Tasks)]
    BY <1>0, <1>1, <1>3 DEF Types
  <2>2. loop' \in [Loops -> {"idle", "running", "stopped"}]
    BY <1>0, <1>1 DEF Types
  <2> QED BY <1>0, <1>2, <2>1, <2>2 DEF Types
<1>6. StartInv'
  <2>1. queue'[Base] # <<"start">> /\ Base \in inited' /\ server' = "alive"
    BY <1>1, <1>2, <1>4
  <2> QED BY <1>1, <1>4, <2>1 DEF StartInv
<1>7. Head(<<"init">>) = "init" /\ Tail(<<"init">>) = <<>> /\ <<"init">> # <<>>
  OBVIOUS
<1>8. Workers' = Workers
  BY <1>2 DEF Workers
<1>9. WorkerInv'
  BY <1>1, <1>2, <1>3, <1>4, <1>7, <1>8 DEF WorkerInv, Running
<1>10. \A l \in Loops : \A c \in Conns : c \notin Range(queue'[l])
  <2>1. \A l \in Loops : queue'[l] = <<>> \/ queue'[l] = <<"init">>
    BY <1>4
  <2>2. \A l \in Loops : Range(queue'[l]) \subseteq {"init"}
    BY <2>1, RangeOfShort
  <2> QED BY <2>2, NamesAssumption
<1>11. \A c \in Conns : st[c] = "absent" /\ (c \notin fds \/ ~OwnedInv)
  BY <1>0 DEF ConnInv, OwnedInv
<1>12. ConnInv'
  <2>1. \A l \in Loops : Distinct(queue'[l])
    BY <1>4, RangeOfShort
  <2> QED BY <1>0, <1>1, <1>2, <1>10, <2>1 DEF ConnInv, InitBeforeConnections
<1>13. OwnedInv => OwnedInv'
  BY <1>0, <1>1, <1>2, <1>11 DEF OwnedInv, FdsOwned
<1> QED
  BY <1>5, <1>6, <1>9, <1>12, <1>13 DEF IInv

(* A connection that is established is connected and kept, or destroyed    *)
(* and its descriptor closed.                                              *)
LEMMA EstablishProperties ==
  ASSUME NEW c \in Conns, Types, Establish(c)
  PROVE  /\ st' \in [Conns -> Life]
         /\ st'[c] \in {"connected", "destroyed"}
         /\ \A d \in Conns \ {c} : st'[d] = st[d]
         /\ st'[c] = "connected" => c \in kept'
         /\ c \in fds' => c \in kept'
         /\ fds' \subseteq fds \cup {c}
         /\ kept \subseteq kept' /\ kept' \subseteq kept \cup {c}
  BY DEF Establish, Types, Life

(* newConnection for the head of the backlog.                              *)
LEMMA AcceptStep ==
  ASSUME IInv, Accept
  PROVE  IInv' /\ (OwnedInv => OwnedInv')
<1>0. Types /\ StartInv /\ WorkerInv /\ ConnInv
  BY DEF IInv
<1> DEFINE c == Head(backlog)
<1>1. /\ c \in Conns /\ Tail(backlog) \in Seq(Conns)
      /\ Range(backlog) = {c} \cup Range(Tail(backlog))
      /\ Distinct(Tail(backlog)) /\ c \notin Range(Tail(backlog))
  BY <1>0, RangeOfTail, DistinctTail DEF Accept, Types, ConnInv
<1>2. /\ loop[Base] = "running" /\ fault = "none" /\ acceptor_ = "listening"
      /\ backlog' = Tail(backlog) /\ NewConnection(c)
      /\ UNCHANGED <<started_, numThreads_, acceptor_, inited, loop, server, fault>>
  BY DEF Accept, Running, confVars
<1> HIDE DEF c
<1>3. server = "alive" /\ Base \in inited
  BY <1>0, <1>2 DEF StartInv, Types
<1>4. /\ st[c] = "backlog"
      /\ \A l \in Loops : c \notin Range(queue[l])
      /\ OwnedInv => c \notin fds
  BY <1>0, <1>1 DEF ConnInv, OwnedInv
<1>5. ioLoop' = [ioLoop EXCEPT ![c] = NextLoop] /\ next_' = Following
  BY <1>2 DEF NewConnection
<1>6. /\ ioLoop' \in [Conns -> Loops] /\ ioLoop'[c] = NextLoop
      /\ \A d \in Conns \ {c} : ioLoop'[d] = ioLoop[d]
  BY <1>0, <1>1, <1>5, LoopFacts DEF Types
<1>7. /\ next_' \in Nat /\ (next_' = 0 \/ next_' < numThreads_')
      /\ Workers' = Workers
  BY <1>0, <1>2, <1>5, LoopFacts DEF Workers
<1>8. CASE NextLoop = Base
  <2>1. Establish(c) /\ queue' = queue
    BY <1>2, <1>8 DEF NewConnection
  <2>2. /\ st' \in [Conns -> Life]
        /\ st'[c] \in {"connected", "destroyed"}
        /\ \A d \in Conns \ {c} : st'[d] = st[d]
        /\ st'[c] = "connected" => c \in kept'
        /\ c \in fds' => c \in kept'
        /\ fds' \subseteq fds \cup {c}
        /\ kept \subseteq kept'
    BY <1>0, <1>1, <2>1, EstablishProperties
  <2>3. Types'
    BY <1>0, <1>1, <1>2, <1>6, <1>7, <2>1, <2>2 DEF Types
  <2>4. StartInv'
    BY <1>0, <1>2, <2>1 DEF StartInv
  <2>5. WorkerInv'
    BY <1>0, <1>2, <1>7, <2>1 DEF WorkerInv, Running
  <2>6. ConnInv'
    <3>1. acceptor_' # "none" /\ Distinct(backlog')
      BY <1>1, <1>2
    <3>2. \A d \in Range(backlog') : st'[d] = "backlog"
      <4>1. \A d \in Range(backlog') : d \in Range(backlog) /\ d \in Conns \ {c}
        BY <1>0, <1>1, <1>2, RangeOfSeq DEF Types
      <4> QED BY <1>0, <2>2, <4>1 DEF ConnInv
    <3>3. \A d \in Conns : \A l \in Loops :
            d \in Range(queue'[l]) => ioLoop'[d] = l /\ st'[d] = "accepted"
      BY <1>0, <1>4, <1>6, <2>1, <2>2 DEF ConnInv
    <3>4. InitBeforeConnections'
      BY <1>0, <1>2, <1>3, <1>6, <1>8, <2>2 DEF ConnInv, InitBeforeConnections
    <3>5. \A l \in Loops : Distinct(queue'[l])
      BY <1>0, <2>1 DEF ConnInv
    <3> QED BY <3>1, <3>2, <3>3, <3>4, <3>5 DEF ConnInv
  <2>7. OwnedInv => OwnedInv'
    BY <1>0, <1>1, <1>2, <1>3, <1>4, <1>6, <2>1, <2>2 DEF OwnedInv, FdsOwned
  <2> QED
    BY <2>3, <2>4, <2>5, <2>6, <2>7 DEF IInv
<1>9. CASE NextLoop # Base
  <2> DEFINE w == NextLoop
  <2>1. w \in Workers /\ w \in Loops \ {Base} /\ loop[w] = "running"
    BY <1>0, <1>2, <1>3, <1>9, LoopFacts DEF WorkerInv
  <2>2. /\ queue' = [queue EXCEPT ![w] = Append(queue[w], c)]
        /\ st' = [st EXCEPT ![c] = "accepted"]
        /\ fds' = fds \cup {c} /\ kept' = kept
    BY <1>2, <1>9 DEF NewConnection
  <2> HIDE DEF w
  <2>3. ioLoop'[c] = w
    BY <1>6 DEF w
  <2>4. /\ queue[w] \in Seq(Tasks) /\ Append(queue[w], c) \in Seq(Tasks)
        /\ Range(Append(queue[w], c)) = Range(queue[w]) \cup {c}
    <3>1. queue[w] \in Seq(Tasks) /\ c \in Tasks
      BY <1>0, <1>1, <2>1 DEF Types, Tasks
    <3> QED BY <3>1, RangeAppended
  <2>5. /\ queue' \in [Loops -> Seq(Tasks)] /\ queue'[w] = Append(queue[w], c)
        /\ \A l \in Loops \ {w} : queue'[l] = queue[l]
    BY <1>0, <2>1, <2>2, <2>4 DEF Types
  <2>6. /\ st' \in [Conns -> Life] /\ st'[c] = "accepted"
        /\ \A d \in Conns \ {c} : st'[d] = st[d]
    BY <1>0, <1>1, <2>2 DEF Types, Life
  <2>7. Types'
    BY <1>0, <1>1, <1>2, <1>6, <1>7, <2>5, <2>6 DEF Types
  <2>8. StartInv'
    BY <1>0, <1>2, <2>1, <2>5, LoopFacts DEF StartInv
  <2>9. WorkerInv'
    <3>1. \/ w \in inited /\ queue[w] \in Seq(Conns)
          \/ queue[w] # <<>> /\ Head(queue[w]) = "init" /\ Tail(queue[w]) \in Seq(Conns)
      BY <1>0, <1>2, <2>1 DEF WorkerInv, Running
    <3>2. \/ w \in inited' /\ queue'[w] \in Seq(Conns)
          \/ queue'[w] # <<>> /\ Head(queue'[w]) = "init" /\ Tail(queue'[w]) \in Seq(Conns)
      <4>1. CASE w \in inited /\ queue[w] \in Seq(Conns)
        BY <1>1, <1>2, <2>5, <4>1, RangeAppended
      <4>2. CASE queue[w] # <<>> /\ Head(queue[w]) = "init" /\ Tail(queue[w]) \in Seq(Conns)
        <5>1. c \in Tasks
          BY <1>1 DEF Tasks
        <5>2. /\ Head(Append(queue[w], c)) = Head(queue[w])
              /\ Tail(Append(queue[w], c)) = Append(Tail(queue[w]), c)
              /\ Append(queue[w], c) # <<>>
          BY <2>4, <4>2, <5>1, HeadTailAppend, AppendProperties
        <5>3. Append(Tail(queue[w]), c) \in Seq(Conns)
          BY <1>1, <4>2, RangeAppended
        <5> QED BY <2>5, <4>2, <5>2, <5>3
      <4> QED BY <3>1, <4>1, <4>2
    <3> QED
      BY <1>0, <1>2, <1>7, <2>1, <2>5, <3>2 DEF WorkerInv, Running
  <2>10. \A l \in Loops : \A d \in Conns \ {c} :
           d \in Range(queue'[l]) <=> d \in Range(queue[l])
    BY <2>1, <2>4, <2>5
  <2>11. \A l \in Loops : c \in Range(queue'[l]) <=> l = w
    BY <1>4, <2>1, <2>4, <2>5
  <2>12. ConnInv'
    <3>1. acceptor_' # "none" /\ Distinct(backlog')
      BY <1>1, <1>2
    <3>2. \A d \in Range(backlog') : st'[d] = "backlog"
      <4>1. \A d \in Range(backlog') : d \in Range(backlog) /\ d \in Conns \ {c}
        BY <1>0, <1>1, <1>2, RangeOfSeq DEF Types
      <4> QED BY <1>0, <2>6, <4>1 DEF ConnInv
    <3>3. \A d \in Conns : \A l \in Loops :
            d \in Range(queue'[l]) => ioLoop'[d] = l /\ st'[d] = "accepted"
      BY <1>0, <1>6, <2>3, <2>6, <2>10, <2>11 DEF ConnInv
    <3>4. InitBeforeConnections'
      BY <1>0, <1>2, <1>6, <2>6 DEF ConnInv, InitBeforeConnections
    <3>5. \A l \in Loops : Distinct(queue'[l])
      <4>1. c \in Tasks /\ c \notin Range(queue[w]) /\ Distinct(queue[w])
        BY <1>0, <1>1, <1>4, <2>1 DEF ConnInv, Tasks
      <4>2. Distinct(Append(queue[w], c))
        BY <2>4, <4>1, DistinctAppend
      <4> QED BY <1>0, <2>5, <4>2 DEF ConnInv
    <3> QED BY <3>1, <3>2, <3>3, <3>4, <3>5 DEF ConnInv
  <2>13. OwnedInv => OwnedInv'
    <3> SUFFICES ASSUME OwnedInv PROVE OwnedInv'
      OBVIOUS
    <3>1. FdsOwned'
      <4> SUFFICES ASSUME NEW d \in fds'
                   PROVE  \/ d \in kept'
                          \/ loop'[ioLoop'[d]] = "running" /\ d \in Range(queue'[ioLoop'[d]])
        BY DEF FdsOwned
      <4>1. CASE d = c
        BY <1>2, <2>1, <2>3, <2>11, <4>1
      <4>2. CASE d # c
        <5>1. d \in fds /\ d \in Conns /\ ioLoop'[d] = ioLoop[d] /\ ioLoop[d] \in Loops
          BY <1>0, <1>6, <2>2, <4>2 DEF OwnedInv, Types
        <5>2. \/ d \in kept
              \/ loop[ioLoop[d]] = "running" /\ d \in Range(queue[ioLoop[d]])
          BY <1>3, <5>1 DEF OwnedInv, FdsOwned
        <5> QED BY <1>2, <2>2, <2>10, <4>2, <5>1, <5>2
      <4> QED BY <4>1, <4>2
    <3>2. \A d \in fds' : d \in Conns /\ st'[d] \notin {"absent", "backlog"}
      BY <1>1, <2>2, <2>6 DEF OwnedInv
    <3> QED
      BY <3>1, <3>2 DEF OwnedInv
  <2> QED
    BY <2>7, <2>8, <2>9, <2>12, <2>13 DEF IInv
<1> QED
  BY <1>8, <1>9

(* doPendingTasks: one task of the base loop or of a worker.               *)
LEMMA RunTaskStep ==
  ASSUME NEW l \in Loops, IInv, RunTask(l)
  PROVE  IInv' /\ (OwnedInv => OwnedInv')
<1>0. Types /\ StartInv /\ WorkerInv /\ ConnInv
  BY DEF IInv
<1>1. /\ loop[l] = "running" /\ fault = "none" /\ queue[l] # <<>>
      /\ UNCHANGED <<started_, numThreads_, server, peerGone, backlog, next_, ioLoop>>
  BY DEF RunTask, Running, peerVars
<1>2. CASE server # "alive"
  <2>1. UNCHANGED <<started_, numThreads_, acceptor_, inited, loop, server, st, fds, kept,
                    backlog, next_, ioLoop, queue>> /\ fault' = "destroyed"
    BY <1>2 DEF RunTask, connVars, peerVars
  <2>2. Types' /\ StartInv' /\ WorkerInv' /\ ConnInv'
    BY <1>0, <2>1
    DEF Types, StartInv, WorkerInv, Running, Workers, ConnInv, InitBeforeConnections
  <2>3. OwnedInv => OwnedInv'
    BY <2>1 DEF OwnedInv, FdsOwned
  <2> QED BY <2>2, <2>3 DEF IInv
<1>3. CASE server = "alive" /\ l = Base
  <2>1. queue[l] = <<"start">> /\ Head(queue[l]) = "start" /\ Tail(queue[l]) = <<>>
    BY <1>0, <1>1, <1>3, RangeOfShort DEF StartInv
  <2>2. started_ /\ acceptor_ = "none" /\ server = "alive"
    BY <1>0, <1>1, <1>3, <2>1 DEF StartInv
  <2>3. StartInLoop(<<>>) /\ UNCHANGED connVars
    BY <2>1, <2>2, NamesAssumption DEF RunTask
  <2>4. started_' /\ UNCHANGED <<numThreads_, server, connVars, peerVars, next_, ioLoop>>
    BY <1>1, <2>2, <2>3 DEF peerVars
  <2> QED
    BY <2>2, <2>3, <2>4, StartStep
<1>4. CASE server = "alive" /\ l # Base
  <2> DEFINE task == Head(queue[l])
  <2>1. l \in Loops \ {Base} /\ l \in Workers /\ acceptor_ # "none"
    BY <1>0, <1>1, <1>4 DEF WorkerInv
  <2>2. /\ queue[l] \in Seq(Tasks) /\ task \in Tasks /\ Tail(queue[l]) \in Seq(Tasks)
        /\ Range(queue[l]) = {task} \cup Range(Tail(queue[l]))
    BY <1>0, <1>1, RangeOfTail DEF Types
  <2>3. \/ l \in inited /\ task \in Conns /\ Tail(queue[l]) \in Seq(Conns)
        \/ task = "init" /\ Tail(queue[l]) \in Seq(Conns)
    BY <1>0, <1>1, <2>1, RangeOfTail DEF WorkerInv, Running
  <2>4. queue' = [queue EXCEPT ![l] = Tail(queue[l])] /\ UNCHANGED <<acceptor_, loop>>
    BY <1>4, <2>3, NamesAssumption DEF RunTask
  <2>5. \/ /\ task = "init" /\ inited' = inited \cup {l}
           /\ UNCHANGED <<st, fds, kept, fault>>
        \/ /\ task \in Conns /\ Establish(task)
           /\ UNCHANGED <<inited, fault>>
    BY <1>4, <2>3, NamesAssumption DEF RunTask, connVars
  <2> HIDE DEF task
  <2>6. /\ queue' \in [Loops -> Seq(Tasks)] /\ queue'[l] = Tail(queue[l])
        /\ \A k \in Loops \ {l} : queue'[k] = queue[k]
    BY <1>0, <2>2, <2>4 DEF Types
  <2>7. \A k \in Loops : Range(queue'[k]) \subseteq Range(queue[k])
    BY <2>2, <2>6
  <2>8. inited \subseteq inited' /\ Workers' = Workers
    BY <1>1, <2>5 DEF Workers
  <2>9. task \in Conns =>
          ioLoop[task] = l /\ st[task] = "accepted" /\ l \in inited
    <3>1. task \in Range(queue[l])
      BY <2>2
    <3> QED BY <1>0, <2>3, <3>1, NamesAssumption DEF ConnInv
  <2>10. /\ st' \in [Conns -> Life]
         /\ \A d \in Conns : \/ st'[d] = st[d]
                             \/ /\ d = task /\ task \in Conns
                                /\ st'[d] \in {"connected", "destroyed"}
    BY <1>0, <2>5, EstablishProperties DEF Types
  <2>11. Types'
    BY <1>0, <1>1, <2>4, <2>6, <2>10 DEF Types
  <2>12. StartInv'
    <3>1. queue'[Base] = queue[Base]
      BY <1>0, <2>1, <2>6, LoopFacts
    <3> QED BY <1>0, <1>1, <2>4, <2>8, <3>1 DEF StartInv
  <2>13. WorkerInv'
    <3>1. Running(l)' => l \in inited' /\ queue'[l] \in Seq(Conns)
      BY <2>3, <2>5, <2>6, NamesAssumption DEF Running
    <3>2. \A k \in Loops : Running(k)' => Running(k)
      BY <1>1, <2>4, <2>5 DEF Running
    <3> QED
      BY <1>0, <1>1, <2>1, <2>4, <2>6, <2>8, <3>1, <3>2 DEF WorkerInv
  <2>14. ConnInv'
    <3>1. acceptor_' # "none" /\ Distinct(backlog')
      BY <1>0, <1>1, <2>1, <2>4 DEF ConnInv
    <3>2. \A d \in Range(backlog') : st'[d] = "backlog"
      <4>1. \A d \in Range(backlog') : d \in Conns /\ st[d] = "backlog"
        BY <1>0, <1>1, RangeOfSeq DEF Types, ConnInv
      <4> QED BY <2>9, <2>10, <4>1
    <3>3. \A d \in Conns : \A k \in Loops :
            d \in Range(queue'[k]) => ioLoop'[d] = k /\ st'[d] = "accepted"
      <4>1. Distinct(Tail(queue[l])) /\ task \notin Range(Tail(queue[l]))
        BY <1>0, <1>1, <2>2, DistinctTail DEF ConnInv, task
      <4>2. task \in Conns => \A k \in Loops : task \notin Range(queue'[k])
        BY <1>0, <2>6, <2>9, <4>1 DEF ConnInv
      <4> QED BY <1>0, <1>1, <2>7, <2>10, <4>2 DEF ConnInv
    <3>4. InitBeforeConnections'
      BY <1>0, <1>1, <2>8, <2>9, <2>10 DEF ConnInv, InitBeforeConnections
    <3>5. \A k \in Loops : Distinct(queue'[k])
      <4>1. Distinct(Tail(queue[l]))
        BY <1>0, <1>1, <2>2, DistinctTail DEF ConnInv
      <4> QED BY <1>0, <2>6, <4>1 DEF ConnInv
    <3> QED BY <3>1, <3>2, <3>3, <3>4, <3>5 DEF ConnInv
  <2>15. OwnedInv => OwnedInv'
    <3> SUFFICES ASSUME OwnedInv PROVE OwnedInv'
      OBVIOUS
    <3>2. /\ \A d \in Conns : d \in fds' => d \in fds \/ (d = task /\ task \in Conns)
          /\ fds' \subseteq Conns /\ kept \subseteq kept'
          /\ task \in Conns => (task \in fds' => task \in kept')
      BY <1>0, <1>1, <2>5, EstablishProperties, NamesAssumption DEF OwnedInv
    <3>3. FdsOwned'
      <4> SUFFICES ASSUME NEW d \in fds', d \notin kept'
                   PROVE  loop'[ioLoop'[d]] = "running" /\ d \in Range(queue'[ioLoop'[d]])
        BY DEF FdsOwned
      <4>1. d \in Conns /\ d \in fds /\ d # task /\ d \notin kept
        BY <3>2
      <4>2. loop[ioLoop[d]] = "running" /\ d \in Range(queue[ioLoop[d]])
        BY <1>4, <4>1 DEF OwnedInv, FdsOwned
      <4>3. ioLoop[d] \in Loops
        BY <1>0, <4>1 DEF Types
      <4>4. d \in Range(queue'[ioLoop[d]])
        BY <2>2, <2>6, <4>1, <4>2, <4>3
      <4> QED BY <1>1, <2>4, <4>2, <4>4
    <3>4. \A d \in fds' : d \in Conns /\ st'[d] \notin {"absent", "backlog"}
      BY <2>9, <2>10, <3>2 DEF OwnedInv
    <3> QED
      BY <3>3, <3>4 DEF OwnedInv
  <2> QED
    BY <2>11, <2>12, <2>13, <2>14, <2>15 DEF IInv
<1> QED
  BY <1>2, <1>3, <1>4

(* The other steps.                                                        *)
LEMMA OtherStep ==
  ASSUME IInv,
         \/ \E n \in 1..MaxThreads : setNumThread(n)
         \/ StartHere \/ StartElsewhere \/ BaseLoop \/ BaseQuit
         \/ \E c \in Conns : PeerConnects(c) \/ PeerCloses(c) \/ HandleClose(c)
         \/ AcceptAborted \/ Destroy
         \/ \E l \in Loops \ {Base} : StopWorker(l)
         \/ DestroyAcceptor
         \/ UNCHANGED vars
  PROVE  IInv' /\ (OwnedInv => OwnedInv')
<1>0. Types /\ StartInv /\ WorkerInv /\ ConnInv
  BY DEF IInv
<1>1. Base \in Loops /\ Base \notin Workers /\ Workers \subseteq Loops \ {Base}
  BY <1>0, LoopFacts
<1>2. ASSUME NEW n \in 1..MaxThreads, setNumThread(n)
      PROVE  IInv' /\ (OwnedInv => OwnedInv')
  <2>1. /\ server = "alive" /\ acceptor_ = "none" /\ numThreads_' = n
        /\ UNCHANGED <<started_, acceptor_, inited, loop, server, st, fds, kept, peerGone,
                       backlog, next_, ioLoop, queue, fault>>
    BY <1>0, <1>2 DEF setNumThread, StartInv, connVars, peerVars
  <2>2. next_ = 0 /\ n \in 0..MaxThreads
    BY <1>0, <2>1, SizesAssumption DEF StartInv
  <2>3. Types'
    BY <1>0, <2>1, <2>2 DEF Types
  <2>4. StartInv' /\ ConnInv'
    BY <1>0, <2>1 DEF StartInv, ConnInv, InitBeforeConnections
  <2>5. WorkerInv'
    BY <1>0, <2>1 DEF WorkerInv, Running
  <2>6. OwnedInv => OwnedInv'
    BY <2>1 DEF OwnedInv, FdsOwned
  <2> QED BY <2>3, <2>4, <2>5, <2>6 DEF IInv
<1>3. CASE StartHere
  <2>1. /\ server = "alive" /\ ~started_ /\ started_' /\ StartInLoop(queue[Base])
        /\ UNCHANGED <<numThreads_, server, connVars, peerVars, next_, ioLoop>>
    BY <1>3 DEF StartHere
  <2>2. queue[Base] = <<>> /\ acceptor_ = "none"
    BY <1>0, <2>1 DEF StartInv
  <2>3. StartInLoop(<<>>)
    BY <2>1, <2>2
  <2> QED BY <2>1, <2>2, <2>3, StartStep
<1>4. CASE StartElsewhere
  <2>1. /\ server = "alive" /\ ~started_ /\ started_'
        /\ queue' = [queue EXCEPT ![Base] = Append(queue[Base], "start")]
        /\ UNCHANGED <<numThreads_, acceptor_, inited, loop, server, st, fds, kept, peerGone,
                       backlog, next_, ioLoop, fault>>
    BY <1>4 DEF StartElsewhere, connVars, peerVars
  <2>2. queue[Base] = <<>> /\ acceptor_ = "none"
    BY <1>0, <2>1 DEF StartInv
  <2>3. Append(queue[Base], "start") = <<"start">>
    BY <2>2
  <2>4. <<"start">> \in Seq(Tasks)
    BY DEF Tasks
  <2>5. /\ queue' \in [Loops -> Seq(Tasks)] /\ queue'[Base] = <<"start">>
        /\ \A l \in Loops \ {Base} : queue'[l] = queue[l]
    BY <1>0, <1>1, <2>1, <2>3, <2>4 DEF Types
  <2>6. Types'
    BY <1>0, <2>1, <2>5 DEF Types
  <2>7. StartInv'
    BY <1>0, <2>1, <2>2, <2>5 DEF StartInv
  <2>8. WorkerInv'
    BY <1>0, <2>1, <2>5 DEF WorkerInv, Running, Workers
  <2>9. \A l \in Loops : \A c \in Conns : c \in Range(queue'[l]) => c \in Range(queue[l])
    <3>1. Range(queue'[Base]) = {"start"}
      BY <2>5, RangeOfShort
    <3> QED BY <2>5, <3>1, NamesAssumption
  <2>10. ConnInv'
    <3>1. \A l \in Loops : Distinct(queue'[l])
      <4>1. Distinct(<<"start">>)
        BY RangeOfShort
      <4> QED BY <1>0, <2>5, <4>1 DEF ConnInv
    <3> QED BY <1>0, <2>1, <2>9, <3>1 DEF ConnInv, InitBeforeConnections
  <2>11. OwnedInv => OwnedInv'
    <3>1. \A c \in Conns : st[c] = "absent"
      BY <1>0, <2>2 DEF ConnInv
    <3> QED BY <2>1, <3>1 DEF OwnedInv, FdsOwned
  <2> QED BY <2>6, <2>7, <2>8, <2>10, <2>11 DEF IInv
<1>5. CASE BaseLoop \/ BaseQuit
  <2>1. /\ \/ server # "dying" /\ loop' = [loop EXCEPT ![Base] = "running"]
           \/ loop' = [loop EXCEPT ![Base] = "stopped"]
        /\ UNCHANGED <<started_, numThreads_, acceptor_, inited, server, st, fds, kept,
                       peerGone, backlog, next_, ioLoop, queue, fault>>
    BY <1>5 DEF BaseLoop, BaseQuit, connVars, peerVars
  <2>2. /\ loop' \in [Loops -> {"idle", "running", "stopped"}]
        /\ loop'[Base] = "running" => server # "dying"
        /\ \A l \in Loops \ {Base} : loop'[l] = loop[l]
    <3>1. loop \in [Loops -> {"idle", "running", "stopped"}]
      BY <1>0 DEF Types
    <3>2. CASE server # "dying" /\ loop' = [loop EXCEPT ![Base] = "running"]
      BY <1>1, <3>1, <3>2
    <3>3. CASE loop' = [loop EXCEPT ![Base] = "stopped"]
      BY <1>1, <3>1, <3>3
    <3> QED BY <2>1, <3>2, <3>3
  <2>3. Types'
    BY <1>0, <2>1, <2>2 DEF Types
  <2>4. StartInv'
    BY <1>0, <2>1, <2>2 DEF StartInv
  <2>5. WorkerInv'
    BY <1>0, <2>1, <2>2 DEF WorkerInv, Running, Workers
  <2>6. ConnInv'
    BY <1>0, <2>1 DEF ConnInv, InitBeforeConnections
  <2>7. OwnedInv => OwnedInv'
    <3> SUFFICES ASSUME OwnedInv PROVE OwnedInv'
      OBVIOUS
    <3>1. FdsOwned'
      <4> SUFFICES ASSUME NEW c \in fds', c \notin kept'
                   PROVE  \/ loop'[ioLoop'[c]] = "running" /\ c \in Range(queue'[ioLoop'[c]])
                          \/ /\ server' # "alive" /\ loop'[ioLoop'[c]] = "stopped"
                             /\ st'[c] = "accepted"
        BY DEF FdsOwned
      <4>1. c \in fds /\ c \in Conns /\ c \notin kept /\ ioLoop[c] \in Loops
        BY <1>0, <2>1 DEF OwnedInv, Types
      <4>2. \/ loop[ioLoop[c]] = "running" /\ c \in Range(queue[ioLoop[c]])
            \/ server # "alive" /\ loop[ioLoop[c]] = "stopped" /\ st[c] = "accepted"
        BY <4>1 DEF OwnedInv, FdsOwned
      <4>3. c \notin Range(queue[Base])
        BY <1>0, <4>1, RangeOfShort, NamesAssumption DEF StartInv
      <4>4. loop[Base] = "stopped" => loop'[Base] = "stopped"
        BY <1>5, <1>1, <2>2 DEF BaseLoop, BaseQuit, Running
      <4> QED BY <2>1, <2>2, <4>1, <4>2, <4>3, <4>4
    <3> QED BY <2>1, <3>1 DEF OwnedInv
  <2> QED BY <2>3, <2>4, <2>5, <2>6, <2>7 DEF IInv
<1>6. ASSUME NEW c \in Conns, PeerConnects(c)
      PROVE  IInv' /\ (OwnedInv => OwnedInv')
  <2>1. /\ acceptor_ = "listening" /\ st[c] = "absent"
        /\ st' = [st EXCEPT ![c] = "backlog"] /\ backlog' = Append(backlog, c)
        /\ UNCHANGED <<started_, numThreads_, acceptor_, inited, loop, server, fds, kept,
                       next_, ioLoop, queue, fault>>
    BY <1>6 DEF PeerConnects, confVars
  <2>2. /\ st' \in [Conns -> Life] /\ st'[c] = "backlog"
        /\ \A d \in Conns \ {c} : st'[d] = st[d]
    BY <1>0, <2>1 DEF Types, Life
  <2>3. backlog' \in Seq(Conns) /\ Range(backlog') = Range(backlog) \cup {c}
    BY <1>0, <2>1, RangeAppended DEF Types
  <2>4. c \notin Range(backlog) /\ \A d \in Range(backlog) : d \in Conns
    BY <1>0, <2>1, RangeOfSeq DEF ConnInv, Types
  <2>5. Distinct(backlog')
    BY <1>0, <2>1, <2>4, DistinctAppend DEF Types, ConnInv
  <2>6. Types'
    BY <1>0, <2>1, <2>2, <2>3 DEF Types
  <2>7. StartInv' /\ WorkerInv'
    BY <1>0, <2>1 DEF StartInv, WorkerInv, Running, Workers
  <2>8. ConnInv'
    <3>1. \A d \in Range(backlog') : st'[d] = "backlog"
      BY <1>0, <2>2, <2>3, <2>4 DEF ConnInv
    <3>2. \A d \in Conns : \A k \in Loops :
            d \in Range(queue'[k]) => ioLoop'[d] = k /\ st'[d] = "accepted"
      BY <1>0, <2>1, <2>2 DEF ConnInv
    <3>3. InitBeforeConnections'
      BY <1>0, <2>1, <2>2 DEF ConnInv, InitBeforeConnections
    <3>4. \A k \in Loops : Distinct(queue'[k])
      BY <1>0, <2>1 DEF ConnInv
    <3> QED BY <2>1, <2>5, <3>1, <3>2, <3>3, <3>4 DEF ConnInv
  <2>9. OwnedInv => OwnedInv'
    BY <2>1, <2>2 DEF OwnedInv, FdsOwned
  <2> QED BY <2>6, <2>7, <2>8, <2>9 DEF IInv
<1>7. CASE (\E c \in Conns : PeerCloses(c)) \/ UNCHANGED vars
  <2>1. UNCHANGED <<started_, numThreads_, acceptor_, inited, loop, server, st, fds, kept,
                    backlog, next_, ioLoop, queue, fault>>
    BY <1>7 DEF PeerCloses, vars, confVars, connVars, peerVars
  <2>2. Types' /\ StartInv' /\ WorkerInv' /\ ConnInv'
    BY <1>0, <2>1
    DEF Types, StartInv, WorkerInv, Running, Workers, ConnInv, InitBeforeConnections
  <2>3. OwnedInv => OwnedInv'
    BY <2>1 DEF OwnedInv, FdsOwned
  <2> QED BY <2>2, <2>3 DEF IInv
<1>8. ASSUME NEW c \in Conns, HandleClose(c)
      PROVE  IInv' /\ (OwnedInv => OwnedInv')
  <2>1. /\ st[c] = "connected" /\ loop[ioLoop[c]] = "running" /\ fault = "none"
        /\ UNCHANGED <<started_, numThreads_, acceptor_, inited, loop, server, backlog, next_,
                       ioLoop, queue>>
        /\ \/ /\ server = "alive" /\ st' = [st EXCEPT ![c] = "destroyed"]
              /\ kept' = kept \ {c} /\ fds' = fds \ {c} /\ fault' = fault
           \/ server # "alive" /\ fault' = "destroyed" /\ UNCHANGED <<st, fds, kept>>
    BY <1>8 DEF HandleClose, Running, confVars, connVars, peerVars
  <2>2. /\ st' \in [Conns -> Life] /\ st'[c] \in {"connected", "destroyed"}
        /\ \A d \in Conns \ {c} : st'[d] = st[d]
    BY <1>0, <2>1 DEF Types, Life
  <2>3. Types' /\ StartInv'
    BY <1>0, <2>1, <2>2 DEF Types, StartInv
  <2>4. WorkerInv'
    BY <1>0, <2>1 DEF WorkerInv, Running, Workers
  <2>5. ConnInv'
    <3>1. \A d \in Range(backlog') : st'[d] = "backlog"
      <4>1. \A d \in Range(backlog) : d \in Conns /\ st[d] = "backlog"
        BY <1>0, RangeOfSeq DEF ConnInv, Types
      <4> QED BY <2>1, <2>2, <4>1
    <3>2. \A d \in Conns : \A k \in Loops :
            d \in Range(queue'[k]) => ioLoop'[d] = k /\ st'[d] = "accepted"
      BY <1>0, <2>1, <2>2 DEF ConnInv
    <3>3. InitBeforeConnections'
      BY <1>0, <2>1, <2>2 DEF ConnInv, InitBeforeConnections
    <3> QED BY <1>0, <2>1, <3>1, <3>2, <3>3 DEF ConnInv
  <2>6. OwnedInv => OwnedInv'
    BY <2>1, <2>2 DEF OwnedInv, FdsOwned
  <2> QED BY <2>3, <2>4, <2>5, <2>6 DEF IInv
<1>9. CASE AcceptAborted
  <2> DEFINE c == Head(backlog)
  <2>1. /\ acceptor_ = "listening" /\ backlog # <<>>
        /\ st' = [st EXCEPT ![c] = "aborted"] /\ backlog' = Tail(backlog)
        /\ UNCHANGED <<started_, numThreads_, acceptor_, inited, loop, server, fds, kept,
                       next_, ioLoop, queue, fault>>
    BY <1>9 DEF AcceptAborted, confVars
  <2>2. /\ c \in Conns /\ Tail(backlog) \in Seq(Conns)
        /\ Range(backlog) = {c} \cup Range(Tail(backlog))
        /\ Distinct(Tail(backlog)) /\ c \notin Range(Tail(backlog))
    BY <1>0, <2>1, RangeOfTail, DistinctTail DEF Types, ConnInv
  <2> HIDE DEF c
  <2>3. /\ st' \in [Conns -> Life] /\ st'[c] = "aborted"
        /\ \A d \in Conns \ {c} : st'[d] = st[d]
    BY <1>0, <2>1, <2>2 DEF Types, Life
  <2>4. st[c] = "backlog"
    BY <1>0, <2>2 DEF ConnInv
  <2>5. Types' /\ StartInv'
    BY <1>0, <2>1, <2>2, <2>3 DEF Types, StartInv
  <2>6. WorkerInv'
    BY <1>0, <2>1 DEF WorkerInv, Running, Workers
  <2>7. ConnInv'
    <3>1. \A d \in Range(backlog') : st'[d] = "backlog"
      <4>1. \A d \in Range(backlog') : d \in Conns \ {c} /\ st[d] = "backlog"
        BY <1>0, <2>1, <2>2, RangeOfSeq DEF ConnInv, Types
      <4> QED BY <2>3, <4>1
    <3>2. \A d \in Conns : \A k \in Loops :
            d \in Range(queue'[k]) => ioLoop'[d] = k /\ st'[d] = "accepted"
      BY <1>0, <2>1, <2>3, <2>4 DEF ConnInv
    <3>3. InitBeforeConnections'
      BY <1>0, <2>1, <2>3 DEF ConnInv, InitBeforeConnections
    <3>4. \A k \in Loops : Distinct(queue'[k])
      BY <1>0, <2>1 DEF ConnInv
    <3> QED BY <2>1, <2>2, <3>1, <3>2, <3>3, <3>4 DEF ConnInv
  <2>8. OwnedInv => OwnedInv'
    BY <2>1, <2>3, <2>4 DEF OwnedInv, FdsOwned
  <2> QED BY <2>5, <2>6, <2>7, <2>8 DEF IInv
<1>10. CASE Destroy
  <2>1. /\ server = "alive" /\ loop[Base] # "running"
        /\ server' = "dying"
        /\ UNCHANGED <<started_, numThreads_, acceptor_, inited, loop, st, fds, kept,
                       backlog, next_, ioLoop, queue, fault>>
    BY <1>10 DEF Destroy, connVars, peerVars
  <2>2. Types' /\ StartInv' /\ ConnInv'
    BY <1>0, <2>1 DEF Types, StartInv, ConnInv, InitBeforeConnections
  <2>3. WorkerInv'
    BY <1>0, <2>1 DEF WorkerInv, Running, Workers
  <2>4. OwnedInv => OwnedInv'
    BY <2>1 DEF OwnedInv, FdsOwned
  <2> QED BY <2>2, <2>3, <2>4 DEF IInv
<1>11. ASSUME NEW l \in Loops \ {Base}, StopWorker(l)
       PROVE  IInv' /\ (OwnedInv => OwnedInv')
  <2>1. /\ server = "dying" /\ loop[l] = "running"
        /\ loop' = [loop EXCEPT ![l] = "stopped"] /\ queue' = [queue EXCEPT ![l] = <<>>]
        /\ UNCHANGED <<started_, numThreads_, acceptor_, inited, server, st, fds, kept,
                       backlog, next_, ioLoop, fault>>
    BY <1>11 DEF StopWorker, connVars, peerVars
  <2>2. /\ loop' \in [Loops -> {"idle", "running", "stopped"}] /\ loop'[l] = "stopped"
        /\ \A k \in Loops \ {l} : loop'[k] = loop[k] /\ queue'[k] = queue[k]
        /\ queue' \in [Loops -> Seq(Tasks)] /\ queue'[l] = <<>>
    BY <1>0, <2>1, EmptySeq DEF Types
  <2>3. l \in Workers /\ acceptor_ # "none"
    BY <1>0, <2>1 DEF WorkerInv
  <2>4. Types' /\ StartInv'
    BY <1>0, <1>1, <2>1, <2>2 DEF Types, StartInv
  <2>5. WorkerInv'
    BY <1>0, <2>1, <2>2, <2>3 DEF WorkerInv, Running, Workers
  <2>6. \A k \in Loops : Range(queue'[k]) \subseteq Range(queue[k])
    BY <2>2, RangeOfShort
  <2>7. ConnInv'
    <3>1. \A k \in Loops : Distinct(queue'[k])
      BY <1>0, <2>2, RangeOfShort DEF ConnInv
    <3> QED BY <1>0, <2>1, <2>6, <3>1 DEF ConnInv, InitBeforeConnections
  <2>8. OwnedInv => OwnedInv'
    <3> SUFFICES ASSUME OwnedInv PROVE OwnedInv'
      OBVIOUS
    <3>1. FdsOwned'
      <4> SUFFICES ASSUME NEW c \in fds', c \notin kept'
                   PROVE  \/ loop'[ioLoop'[c]] = "running" /\ c \in Range(queue'[ioLoop'[c]])
                          \/ /\ server' # "alive" /\ loop'[ioLoop'[c]] = "stopped"
                             /\ st'[c] = "accepted"
        BY DEF FdsOwned
      <4>1. c \in fds /\ c \in Conns /\ c \notin kept /\ ioLoop[c] \in Loops
        BY <1>0, <2>1 DEF OwnedInv, Types
      <4>2. \/ loop[ioLoop[c]] = "running" /\ c \in Range(queue[ioLoop[c]])
            \/ server # "alive" /\ loop[ioLoop[c]] = "stopped" /\ st[c] = "accepted"
        BY <4>1 DEF OwnedInv, FdsOwned
      <4>3. c \in Range(queue[ioLoop[c]]) => st[c] = "accepted"
        BY <1>0, <4>1 DEF ConnInv
      <4> QED BY <2>1, <2>2, <4>1, <4>2, <4>3
    <3> QED BY <2>1, <3>1 DEF OwnedInv
  <2> QED BY <2>4, <2>5, <2>7, <2>8 DEF IInv
<1>12. CASE DestroyAcceptor
  <2>1. /\ server = "dying" /\ server' = "gone"
        /\ acceptor_' = IF acceptor_ = "none" THEN "none" ELSE "closed"
        /\ st' = [c \in Conns |-> IF st[c] = "backlog" THEN "aborted" ELSE st[c]]
        /\ backlog' = <<>>
        /\ UNCHANGED <<started_, numThreads_, inited, loop, fds, kept, next_, ioLoop, queue,
                       fault>>
    BY <1>12 DEF DestroyAcceptor
  <2>2. /\ st' \in [Conns -> Life]
        /\ \A c \in Conns : st'[c] = IF st[c] = "backlog" THEN "aborted" ELSE st[c]
    BY <1>0, <2>1 DEF Types, Life
  <2>3. Types' /\ StartInv'
    BY <1>0, <2>1, <2>2, EmptySeq DEF Types, StartInv
  <2>4. WorkerInv'
    BY <1>0, <2>1 DEF WorkerInv, Running, Workers
  <2>5. ConnInv'
    <3>1. Distinct(backlog') /\ Range(backlog') = {}
      <4>1. Len(backlog') = 0
        BY <2>1, EmptySeq
      <4>2. Distinct(backlog')
        BY <4>1 DEF Distinct
      <4> QED BY <2>1, <4>2 DEF Range
    <3>2. acceptor_' = "none" => backlog' = <<>> /\ \A c \in Conns : st'[c] = "absent"
      BY <1>0, <2>1, <2>2 DEF ConnInv
    <3>3. \A d \in Conns : \A k \in Loops :
            d \in Range(queue'[k]) => ioLoop'[d] = k /\ st'[d] = "accepted"
      BY <1>0, <2>1, <2>2 DEF ConnInv
    <3>4. InitBeforeConnections'
      BY <1>0, <2>1, <2>2 DEF ConnInv, InitBeforeConnections
    <3>5. \A k \in Loops : Distinct(queue'[k])
      BY <1>0, <2>1 DEF ConnInv
    <3> QED BY <3>1, <3>2, <3>3, <3>4, <3>5 DEF ConnInv
  <2>6. OwnedInv => OwnedInv'
    BY <2>1, <2>2 DEF OwnedInv, FdsOwned
  <2> QED BY <2>3, <2>4, <2>5, <2>6 DEF IInv
<1> QED
  BY <1>2, <1>3, <1>4, <1>5, <1>6, <1>7, <1>8, <1>9, <1>10, <1>11, <1>12

(* Every step keeps the invariants.                                        *)
LEMMA InvStep ==
  ASSUME IInv, [Next]_vars
  PROVE  IInv' /\ (OwnedInv => OwnedInv')
  BY AcceptStep, RunTaskStep, OtherStep DEF Next

-----------------------------------------------------------------------------
(* threadInitCallback_ runs in a loop before that loop shows its first     *)
(* connection, for any number of workers and whatever becomes of the       *)
(* server.                                                                 *)
THEOREM InitComesFirst == Spec => []InitBeforeConnections
<1>1. IInv => InitBeforeConnections
  BY DEF IInv, ConnInv
<1> QED
  BY InitInv, InvStep, <1>1, PTL DEF Spec

(* No descriptor leaks between accept4() and close(), whenever the server  *)
(* is destroyed and however many workers it has, but for those in a task   *)
(* that a stopped worker never got to.                                     *)
THEOREM FdsAlwaysOwned == Spec => []FdsOwned
<1>1. Init => IInv /\ OwnedInv
  BY InitInv
<1>2. IInv /\ OwnedInv /\ [Next]_vars => IInv' /\ OwnedInv'
  BY InvStep
<1>3. OwnedInv => FdsOwned
  BY DEF OwnedInv
<1> QED
  BY <1>1, <1>2, <1>3, PTL DEF Spec
=============================================================================
