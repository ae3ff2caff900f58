-------------------------- MODULE TimerQueueProofs --------------------------
(***************************************************************************)
(* Proofs about TimerQueue, for any number of timers and any delays,       *)
(* intervals and lateness.                                                 *)
(***************************************************************************)
EXTENDS TimerQueue, SequenceTheorems, FiniteSetTheorems, TLAPS

Op == {"add", "cancel"}

Types ==
  /\ memory \in [Timers -> {"unused", "alive", "freed"}]
  /\ when_ \in [Timers -> Int]
  /\ interval_ \in [Timers -> Nat]
  /\ timers_ \in SUBSET Timers
  /\ timerfd \in Int /\ timerfd >= Off
  /\ expired \in Seq(Timers)
  /\ queue \in Seq(Op \X Timers)

(* Pointers are to Timers that were allocated.                             *)
UsedInv ==
  /\ \A x \in timers_ : memory[x] # "unused"
  /\ \A i \in 1..Len(expired) : memory[expired[i]] # "unused"
  /\ \A i \in 1..Len(queue) : memory[queue[i][2]] # "unused"

(* Outside handleRead there is no batch; a callback is that of its head.   *)
BatchInv ==
  /\ lpc \in {"loop", "user"} => expired = <<>>
  /\ lpc = "callback" => expired # <<>>

IInv == Types /\ UsedInv /\ BatchInv /\ NoForgottenTimer /\ NoLeak

(* A Timer is added by one task only.                                      *)
AddedOnce(q) ==
  \A i, j \in 1..Len(q) :
    i < j /\ q[i][1] = "add" /\ q[j][1] = "add" => q[i][2] # q[j][2]

(* What is pending, in the batch or about to be added is alive and in one  *)
(* place.                                                                  *)
AliveInv ==
  /\ \A x \in timers_ : Alive(x)
  /\ \A i \in 1..Len(expired) :
       /\ Alive(expired[i]) /\ expired[i] \notin timers_
       /\ \A j \in 1..Len(expired) : i < j => expired[i] # expired[j]
  /\ \A i \in 1..Len(queue) : queue[i][1] = "add"
       => /\ Alive(queue[i][2]) /\ queue[i][2] \notin timers_
          /\ \A j \in 1..Len(expired) : expired[j] # queue[i][2]
  /\ AddedOnce(queue)

CleanInv == AliveInv /\ fault # "use after free"

(* All is well until a cancelTimer() finds no entry for its Timer.         *)
SafeInv == stray \in BOOLEAN /\ (~stray => CleanInv)

-----------------------------------------------------------------------------
(* What is in a sequence after its head was taken.                         *)
LEMMA TailAt ==
  ASSUME NEW S, NEW s \in Seq(S), s # <<>>
  PROVE  /\ Len(s) \in Nat /\ Len(s) >= 1 /\ Head(s) = s[1] /\ Head(s) \in S
         /\ Tail(s) \in Seq(S) /\ Len(Tail(s)) = Len(s) - 1
         /\ \A i \in 1..Len(Tail(s)) : i + 1 \in 1..Len(s) /\ Tail(s)[i] = s[i + 1]
         /\ \A x \in Range(s) : x = Head(s) \/ x \in Range(Tail(s))
<1>1. /\ Len(s) \in Nat \ {0} /\ Head(s) \in S /\ Tail(s) \in Seq(S)
      /\ Len(Tail(s)) = Len(s) - 1 /\ Head(s) = s[1]
      /\ DOMAIN s = 1..Len(s) /\ DOMAIN Tail(s) = 1..(Len(s) - 1)
      /\ \A i \in 1..(Len(s) - 1) : Tail(s)[i] = s[i + 1]
  BY EmptySeq, HeadTailProperties, LenProperties
<1>2. \A x \in Range(s) : x = Head(s) \/ x \in Range(Tail(s))
  <2> TAKE x \in Range(s)
  <2>1. PICK i \in 1..Len(s) : x = s[i]
    BY <1>1 DEF Range
  <2>2. CASE i = 1
    BY <1>1, <2>1, <2>2
  <2>3. CASE i # 1
    <3>1. i - 1 \in 1..(Len(s) - 1) /\ (i - 1) + 1 = i
      BY <1>1, <2>3
    <3>2. Tail(s)[i - 1] = x
      BY <1>1, <2>1, <3>1
    <3> QED BY <1>1, <3>1, <3>2 DEF Range
  <2> QED BY <2>2, <2>3
<1>3. \A i \in 1..Len(Tail(s)) : i + 1 \in 1..Len(s)
  BY <1>1
<1> QED
  BY <1>1, <1>2, <1>3

(* What is in a sequence after an element was added to it.                 *)
LEMMA AppendAt ==
  ASSUME NEW S, NEW s \in Seq(S), NEW e \in S
  PROVE  /\ Len(s) \in Nat /\ Append(s, e) \in Seq(S) /\ Len(Append(s, e)) = Len(s) + 1
         /\ \A i \in 1..(Len(s) + 1) : \/ i \in 1..Len(s) /\ Append(s, e)[i] = s[i]
                                       \/ i = Len(s) + 1 /\ Append(s, e)[i] = e
         /\ \A x : x \in Range(s) \/ x = e => x \in Range(Append(s, e))
<1>1. /\ Append(s, e) \in Seq(S) /\ Len(Append(s, e)) = Len(s) + 1 /\ Len(s) \in Nat
      /\ DOMAIN s = 1..Len(s) /\ DOMAIN Append(s, e) = 1..(Len(s) + 1)
      /\ \A i \in 1..Len(s) : Append(s, e)[i] = s[i]
      /\ Append(s, e)[Len(s) + 1] = e
  BY AppendProperties, LenProperties
<1>2. /\ \A i \in 1..(Len(s) + 1) : i \in 1..Len(s) \/ i = Len(s) + 1
      /\ \A i \in 1..Len(s) : i \in 1..(Len(s) + 1)
      /\ Len(s) + 1 \in 1..(Len(s) + 1)
  BY <1>1
<1>3. \A x : x \in Range(s) => x \in Range(Append(s, e))
  BY <1>1, <1>2 DEF Range
<1>4. e \in Range(Append(s, e))
  BY <1>1, <1>2 DEF Range
<1> QED
  BY <1>1, <1>2, <1>3, <1>4

(* The elements of a sequence are at its indices.                          *)
LEMMA InRange ==
  ASSUME NEW S, NEW s \in Seq(S)
  PROVE  /\ \A x \in Range(s) : x \in S /\ \E i \in 1..Len(s) : x = s[i]
         /\ \A i \in 1..Len(s) : s[i] \in Range(s) /\ s[i] \in S
<1>1. DOMAIN s = 1..Len(s)
  BY LenProperties
<1>2. \A i \in 1..Len(s) : s[i] \in S
  BY ElementOfSeq
<1> QED
  BY <1>1, <1>2 DEF Range

(* Taking the first task keeps the others apart.                           *)
LEMMA AddedOnceTail ==
  ASSUME NEW S, NEW q \in Seq(S), q # <<>>, AddedOnce(q)
  PROVE  AddedOnce(Tail(q))
<1> SUFFICES ASSUME NEW i \in 1..Len(Tail(q)), NEW j \in 1..Len(Tail(q)),
                    i < j, Tail(q)[i][1] = "add", Tail(q)[j][1] = "add"
             PROVE  Tail(q)[i][2] # Tail(q)[j][2]
  BY DEF AddedOnce
<1>1. i + 1 \in 1..Len(q) /\ j + 1 \in 1..Len(q) /\ i + 1 < j + 1
  BY TailAt
<1>2. Tail(q)[i] = q[i + 1] /\ Tail(q)[j] = q[j + 1]
  BY TailAt
<1> QED
  BY <1>1, <1>2 DEF AddedOnce

(* The timerfd is set to at least one millisecond.                         *)
LEMMA TimerfdSetProperties ==
  ASSUME NEW left \in Int
  PROVE  /\ TimerfdSet(left) \in Int /\ TimerfdSet(left) >= 1
         /\ TimerfdSet(left) <= left \/ TimerfdSet(left) <= 1
  BY DEF TimerfdSet, Settime

(* The timerfd is on and goes off in time for the timers T due at w.       *)
Armed(fd, T, w) == T # {} => fd # Off /\ \A x \in T : fd <= w[x] \/ fd <= 1

(* addTimer's task keeps the alarm in time, also for the new timer.        *)
LEMMA InsertArms ==
  ASSUME Types, NEW x \in Timers, NEW left \in Int, Insert(x, left),
         when_' \in [Timers -> Int], when_'[x] = left,
         \A y \in timers_ : y # x => when_'[y] = when_[y],
         x \in timers_ => when_[x] = left
  PROVE  /\ timers_' \in SUBSET Timers /\ timerfd' \in Int /\ timerfd' >= Off
         /\ Armed(timerfd, timers_, when_) => Armed(timerfd', timers_', when_')
<1>1. timers_' = timers_ \cup {x} /\ timers_' \in SUBSET Timers
  BY DEF Insert, Types
<1>2. \A y \in timers_ : when_'[y] = when_[y] /\ when_[y] \in Int
  BY DEF Types
<1>3. CASE \A y \in timers_ : left < when_[y] \/ (left = when_[y] /\ x < y)
  <2>1. timerfd' = TimerfdSet(left)
    BY <1>3 DEF Insert
  <2>2. /\ timerfd' \in Int /\ timerfd' >= 1
        /\ timerfd' <= left \/ timerfd' <= 1
    BY <2>1, TimerfdSetProperties
  <2>3. \A y \in timers_' : when_'[y] \in Int /\ left <= when_'[y]
    BY <1>1, <1>2, <1>3
  <2>4. \A y \in timers_' : timerfd' <= when_'[y] \/ timerfd' <= 1
    BY <2>2, <2>3
  <2> QED BY <1>1, <2>2, <2>4 DEF Armed, Off
<1>4. CASE ~(\A y \in timers_ : left < when_[y] \/ (left = when_[y] /\ x < y))
  <2>1. timerfd' = timerfd /\ timerfd \in Int /\ timerfd >= Off
    BY <1>4 DEF Insert, Types
  <2>2. PICK y \in timers_ : ~(left < when_[y])
    BY <1>4
  <2>3. when_[y] \in Int /\ when_[y] <= left
    BY <1>2, <2>2
  <2>4. ASSUME Armed(timerfd, timers_, when_)
        PROVE  Armed(timerfd', timers_', when_')
    <3>1. timerfd # Off /\ (timerfd <= when_[y] \/ timerfd <= 1)
      BY <2>4, <2>2 DEF Armed
    <3>2. timerfd <= left \/ timerfd <= 1
      BY <2>1, <2>3, <3>1
    <3>3. \A z \in timers_' : timerfd <= when_'[z] \/ timerfd <= 1
      BY <1>1, <1>2, <2>4, <3>2 DEF Armed
    <3> QED BY <2>1, <3>1, <3>3 DEF Armed
  <2> QED BY <1>1, <2>1, <2>4
<1> QED
  BY <1>3, <1>4

(* The property, by the alarm.                                             *)
LEMMA NoForgotten ==
  NoForgottenTimer <=> (lpc \in {"loop", "user"} => Armed(timerfd, timers_, when_))
  BY DEF NoForgottenTimer, Armed

(* Initially there are no timers.                                          *)
LEMMA InitInv == Init => IInv /\ SafeInv
<1> SUFFICES ASSUME Init PROVE IInv /\ SafeInv
  OBVIOUS
<1>1. /\ Len(expired) = 0 /\ Len(queue) = 0
      /\ expired \in Seq(Timers) /\ queue \in Seq(Op \X Timers)
  BY EmptySeq DEF Init
<1>2. Types
  BY <1>1 DEF Init, Types, Off
<1>3. UsedInv /\ BatchInv /\ NoForgottenTimer /\ NoLeak
  BY <1>1 DEF Init, UsedInv, BatchInv, NoForgottenTimer, NoLeak, Alive
<1>4. SafeInv
  <2>1. stray = FALSE /\ fault = "none" /\ timers_ = {}
    BY DEF Init
  <2>2. AliveInv
    BY <1>1, <2>1 DEF AliveInv, AddedOnce
  <2> QED BY <2>1, <2>2 DEF SafeInv, CleanInv
<1> QED
  BY <1>2, <1>3, <1>4 DEF IInv

-----------------------------------------------------------------------------
(* Steps that touch neither the Timers nor the queues.                     *)
LEMMA PlainStep ==
  ASSUME IInv, UserBegin \/ UserReturn \/ Poll \/ RunExpired \/ UNCHANGED vars
  PROVE  IInv' /\ stray' = stray /\ (CleanInv => CleanInv')
<1>0. Types /\ UsedInv /\ BatchInv /\ NoForgottenTimer /\ NoLeak
  BY DEF IInv
<1>1. UNCHANGED <<memory, when_, interval_, timers_, timerfd, expired, queue, stray>>
  BY DEF UserBegin, UserReturn, Poll, RunExpired, vars
<1>2. \/ lpc' = lpc
      \/ lpc \in {"loop", "user"} /\ lpc' \in {"loop", "user"}
      \/ lpc = "batch" /\ lpc' = "callback" /\ expired # <<>>
  BY DEF UserBegin, UserReturn, Poll, RunExpired, vars
<1>3. Types' /\ UsedInv'
  BY <1>0, <1>1 DEF Types, UsedInv
<1>4. BatchInv'
  BY <1>0, <1>1, <1>2 DEF BatchInv
<1>5. NoForgottenTimer'
  BY <1>0, <1>1, <1>2 DEF NoForgottenTimer
<1>6. NoLeak'
  BY <1>0, <1>1 DEF NoLeak, Alive
<1>7. CleanInv => CleanInv'
  <2> SUFFICES ASSUME CleanInv PROVE CleanInv'
    OBVIOUS
  <2>1. AliveInv'
    BY <1>1 DEF CleanInv, AliveInv, Alive
  <2>2. fault' = fault
    <3>1. CASE RunExpired
      <4>1. lpc = "batch" /\ expired # <<>> /\ (Alive(Head(expired)) => fault' = fault)
        BY <3>1 DEF RunExpired
      <4>2. Head(expired) = expired[1] /\ 1 \in 1..Len(expired)
        BY <1>0, <4>1, TailAt DEF Types
      <4> QED BY <4>1, <4>2 DEF CleanInv, AliveInv
    <3>2. CASE UserBegin \/ UserReturn \/ Poll \/ UNCHANGED vars
      BY <3>2 DEF UserBegin, UserReturn, Poll, vars
    <3> QED BY <3>1, <3>2
  <2> QED BY <2>1, <2>2 DEF CleanInv
<1> QED
  BY <1>1, <1>3, <1>4, <1>5, <1>6, <1>7 DEF IInv

(* cancelTimer's task marks and deletes the Timer, or fails.               *)
LEMMA CancelProperties ==
  ASSUME Types, NEW x \in Timers, Cancel(x)
  PROVE  /\ memory' \in [Timers -> {"unused", "alive", "freed"}]
         /\ when_' \in [Timers -> Int]
         /\ timers_' \in SUBSET timers_
         /\ \A y \in Timers : y # x => memory'[y] = memory[y] /\ when_'[y] = when_[y]
         /\ \A y \in timers_' : when_'[y] = when_[y]
         /\ \A y \in timers_ : y # x => y \in timers_'
         /\ \A y \in Timers : memory[y] # "unused" => memory'[y] # "unused"
         /\ memory'[x] # "alive" \/ UNCHANGED <<memory, timers_>>
         /\ stray' = (stray \/ x \notin timers_)
         /\ \/ UNCHANGED <<memory, timers_>>
            \/ memory'[x] = "freed" /\ timers_' = timers_ \ {x}
         /\ Alive(x) => fault' \in {fault, "assert"}
<1>1. CASE Alive(x) /\ x \notin canceled_
  <2>1. /\ timers_' = timers_ \ {x} /\ fault' = fault
        /\ stray' = (stray \/ x \notin timers_)
        /\ memory' = [memory EXCEPT ![x] = "freed"]
        /\ when_' = when_ \/ when_' = [when_ EXCEPT ![x] = 0]
    BY <1>1 DEF Cancel, Free
  <2>2. /\ memory' \in [Timers -> {"unused", "alive", "freed"}] /\ memory'[x] = "freed"
        /\ when_' \in [Timers -> Int]
        /\ \A y \in Timers : y # x => memory'[y] = memory[y] /\ when_'[y] = when_[y]
    BY <2>1 DEF Types
  <2> QED BY <1>1, <2>1, <2>2 DEF Types
<1>2. CASE ~(Alive(x) /\ x \notin canceled_)
  <2>1. /\ UNCHANGED <<timers_, memory, when_>> /\ stray' = (stray \/ x \notin timers_)
        /\ Alive(x) => fault' = "assert"
    BY <1>2 DEF Cancel
  <2> QED BY <1>2, <2>1 DEF Types
<1> QED
  BY <1>1, <1>2

(* A cancelTimer() that finds its Timer pending leaves the others alone.   *)
LEMMA CancelKeeps ==
  ASSUME Types, SafeInv, NEW x \in Timers, Cancel(x), expired' = expired,
         queue' = queue \/ (queue # <<>> /\ queue' = Tail(queue))
  PROVE  SafeInv'
<1>1. /\ \A y \in Timers : y # x => memory'[y] = memory[y]
      /\ stray' = (stray \/ x \notin timers_)
      /\ \/ UNCHANGED <<memory, timers_>>
         \/ memory'[x] = "freed" /\ timers_' = timers_ \ {x}
      /\ Alive(x) => fault' \in {fault, "assert"}
  BY CancelProperties
<1>2. SUFFICES ASSUME ~stray'
               PROVE  CleanInv'
  BY <1>1 DEF SafeInv
<1>3. CleanInv /\ x \in timers_
  BY <1>1, <1>2 DEF SafeInv
<1>4. Alive(x) /\ fault' # "use after free"
  BY <1>1, <1>3 DEF CleanInv, AliveInv
<1>5. /\ \A i \in 1..Len(expired) : expired[i] \in Timers
      /\ \A i \in 1..Len(queue) : queue[i] \in Op \X Timers
      /\ \A i \in 1..Len(queue) : queue[i][2] \in Timers
  BY InRange DEF Types
<1>6. \A i \in 1..Len(queue') : \E j \in 1..Len(queue) : queue'[i] = queue[j]
  <2>1. CASE queue' = queue
    BY <2>1
  <2>2. CASE queue # <<>> /\ queue' = Tail(queue)
    <3>1. queue \in Seq(Op \X Timers)
      BY DEF Types
    <3>2. \A i \in 1..Len(queue') : i + 1 \in 1..Len(queue) /\ queue'[i] = queue[i + 1]
      BY <2>2, <3>1, TailAt
    <3> QED BY <3>2
  <2> QED BY <2>1, <2>2
<1>7. \A y \in timers_' : memory'[y] = "alive"
  <2>1. timers_ \in SUBSET Timers /\ \A y \in timers_ : memory[y] = "alive"
    BY <1>3 DEF CleanInv, AliveInv, Alive, Types
  <2> QED BY <1>1, <2>1
<1>8. \A i \in 1..Len(expired) :
        /\ memory'[expired[i]] = "alive" /\ expired[i] \notin timers_'
        /\ \A j \in 1..Len(expired) : i < j => expired[i] # expired[j]
  <2>1. \A i \in 1..Len(expired) : expired[i] # x
    BY <1>3 DEF CleanInv, AliveInv
  <2> QED BY <1>1, <1>3, <1>5, <2>1 DEF CleanInv, AliveInv, Alive
<1>9. \A i \in 1..Len(queue) : queue[i][1] = "add"
        => /\ memory'[queue[i][2]] = "alive" /\ queue[i][2] \notin timers_'
           /\ \A j \in 1..Len(expired) : expired[j] # queue[i][2]
  <2> TAKE i \in 1..Len(queue)
  <2> HAVE queue[i][1] = "add"
  <2>1. /\ memory[queue[i][2]] = "alive" /\ queue[i][2] \notin timers_ /\ queue[i][2] # x
        /\ \A j \in 1..Len(expired) : expired[j] # queue[i][2]
    BY <1>3 DEF CleanInv, AliveInv, Alive
  <2> QED BY <1>1, <1>5, <2>1
<1>10. AddedOnce(queue')
  BY <1>3, AddedOnceTail DEF CleanInv, AliveInv, Types
<1>11. AliveInv'
  <2>1. \A i \in 1..Len(queue') : queue'[i][1] = "add"
          => /\ memory'[queue'[i][2]] = "alive" /\ queue'[i][2] \notin timers_'
             /\ \A j \in 1..Len(expired) : expired[j] # queue'[i][2]
    BY <1>6, <1>9
  <2> QED BY <1>7, <1>8, <1>10, <2>1 DEF AliveInv, Alive
<1> QED
  BY <1>4, <1>11 DEF CleanInv

(* cancelTimer() in the loop thread.                                       *)
LEMMA CancelTimerStep ==
  ASSUME IInv, NEW x \in Timers, CancelTimer(x)
  PROVE  IInv' /\ (SafeInv => SafeInv')
<1>0. Types /\ UsedInv /\ BatchInv /\ NoForgottenTimer /\ NoLeak
  BY DEF IInv
<1>1. Cancel(x) /\ UNCHANGED <<interval_, timerfd, expired, lpc, queue>>
  BY DEF CancelTimer
<1>2. /\ memory' \in [Timers -> {"unused", "alive", "freed"}]
      /\ when_' \in [Timers -> Int] /\ timers_' \in SUBSET timers_
      /\ \A y \in Timers : y # x => memory'[y] = memory[y]
      /\ \A y \in timers_' : when_'[y] = when_[y]
      /\ \A y \in timers_ : y # x => y \in timers_'
      /\ \A y \in Timers : memory[y] # "unused" => memory'[y] # "unused"
      /\ memory'[x] # "alive" \/ UNCHANGED <<memory, timers_>>
  BY <1>0, <1>1, CancelProperties
<1>3. /\ \A i \in 1..Len(expired) : expired[i] \in Timers
      /\ \A i \in 1..Len(queue) : queue[i] \in Op \X Timers
  BY <1>0, InRange DEF Types
<1>4. Types'
  BY <1>0, <1>1, <1>2 DEF Types
<1>5. UsedInv' /\ BatchInv'
  BY <1>0, <1>1, <1>2, <1>3 DEF UsedInv, BatchInv, Types
<1>6. NoForgottenTimer'
  BY <1>0, <1>1, <1>2 DEF NoForgottenTimer
<1>7. NoLeak'
  BY <1>0, <1>1, <1>2 DEF NoLeak, Alive
<1>8. SafeInv => SafeInv'
  BY <1>0, <1>1, CancelKeeps
<1> QED
  BY <1>4, <1>5, <1>6, <1>7, <1>8 DEF IInv

(* The loop runs a cancelTimer() of another thread.                        *)
LEMMA RunCancelStep ==
  ASSUME IInv, RunCancel
  PROVE  IInv' /\ (SafeInv => SafeInv')
<1>0. Types /\ UsedInv /\ BatchInv /\ NoForgottenTimer /\ NoLeak
  BY DEF IInv
<1> DEFINE x == Head(queue)[2]
<1>1. /\ lpc = "loop" /\ queue # <<>> /\ Head(queue)[1] = "cancel"
      /\ Cancel(x) /\ queue' = Tail(queue)
      /\ UNCHANGED <<interval_, timerfd, expired, lpc>>
  BY DEF RunCancel
<1>2. /\ Len(queue) \in Nat /\ Len(queue) >= 1 /\ Head(queue) = queue[1]
      /\ Head(queue) \in Op \X Timers
      /\ queue' \in Seq(Op \X Timers) /\ Len(queue') = Len(queue) - 1
      /\ \A i \in 1..Len(queue') : i + 1 \in 1..Len(queue) /\ queue'[i] = queue[i + 1]
      /\ \A y \in Range(queue) : y = Head(queue) \/ y \in Range(queue')
  BY <1>0, <1>1, TailAt DEF Types
<1>3. x \in Timers /\ x = queue[1][2] /\ 1 \in 1..Len(queue)
  BY <1>2
<1> HIDE DEF x
<1>4. /\ memory' \in [Timers -> {"unused", "alive", "freed"}]
      /\ when_' \in [Timers -> Int] /\ timers_' \in SUBSET timers_
      /\ \A y \in Timers : y # x => memory'[y] = memory[y]
      /\ \A y \in timers_' : when_'[y] = when_[y]
      /\ \A y \in timers_ : y # x => y \in timers_'
      /\ \A y \in Timers : memory[y] # "unused" => memory'[y] # "unused"
      /\ memory'[x] # "alive" \/ UNCHANGED <<memory, timers_>>
  BY <1>0, <1>1, <1>3, CancelProperties
<1>5. /\ \A i \in 1..Len(expired) : expired[i] \in Timers
      /\ \A i \in 1..Len(queue) : queue[i] \in Op \X Timers
      /\ \A i \in 1..Len(queue) : queue[i][2] \in Timers
  BY <1>0, InRange DEF Types
<1>6. Types'
  BY <1>0, <1>1, <1>2, <1>4 DEF Types
<1>7. UsedInv' /\ BatchInv'
  BY <1>0, <1>1, <1>2, <1>4, <1>5 DEF UsedInv, BatchInv, Types
<1>8. NoForgottenTimer'
  BY <1>0, <1>1, <1>4 DEF NoForgottenTimer
<1>9. NoLeak'
  <2>1. \A y : <<"add", y>> \in Range(queue) => <<"add", y>> \in Range(queue')
    BY <1>1, <1>2
  <2> QED BY <1>0, <1>1, <1>4, <2>1 DEF NoLeak, Alive
<1>10. SafeInv => SafeInv'
  BY <1>0, <1>1, <1>3, CancelKeeps
<1> QED
  BY <1>6, <1>7, <1>8, <1>9, <1>10 DEF IInv

(* The loop runs an addTimer() of another thread.                          *)
LEMMA RunAddStep ==
  ASSUME IInv, RunAdd
  PROVE  IInv' /\ stray' = stray /\ (CleanInv => CleanInv')
<1>0. Types /\ UsedInv /\ BatchInv /\ NoForgottenTimer /\ NoLeak
  BY DEF IInv
<1> DEFINE x == Head(queue)[2]
<1>1. /\ lpc = "loop" /\ queue # <<>> /\ Head(queue)[1] = "add"
      /\ Insert(x, when_[x]) /\ queue' = Tail(queue)
      /\ UNCHANGED <<memory, when_, interval_, expired, lpc, stray, fault>>
  BY DEF RunAdd
<1>2. /\ Len(queue) \in Nat /\ Len(queue) >= 1 /\ Head(queue) = queue[1]
      /\ Head(queue) \in Op \X Timers
      /\ queue' \in Seq(Op \X Timers) /\ Len(queue') = Len(queue) - 1
      /\ \A i \in 1..Len(queue') : i + 1 \in 1..Len(queue) /\ queue'[i] = queue[i + 1]
      /\ \A y \in Range(queue) : y = Head(queue) \/ y \in Range(queue')
  BY <1>0, <1>1, TailAt DEF Types
<1>3. x \in Timers /\ x = queue[1][2] /\ 1 \in 1..Len(queue)
  BY <1>2
<1> HIDE DEF x
<1>4. timers_' = timers_ \cup {x} /\ when_[x] \in Int
  BY <1>0, <1>1, <1>3 DEF Insert, Types
<1>5. /\ timers_' \in SUBSET Timers /\ timerfd' \in Int /\ timerfd' >= Off
      /\ Armed(timerfd, timers_, when_) => Armed(timerfd', timers_', when_')
  BY <1>0, <1>1, <1>3, <1>4, InsertArms DEF Types
<1>6. Types'
  BY <1>0, <1>1, <1>2, <1>5 DEF Types
<1>7. UsedInv' /\ BatchInv'
  BY <1>0, <1>1, <1>2, <1>3, <1>4 DEF UsedInv, BatchInv
<1>8. NoForgottenTimer'
  BY <1>0, <1>1, <1>5, NoForgotten DEF NoForgottenTimer, Armed
<1>9. NoLeak'
  <2>1. \A y : <<"add", y>> \in Range(queue) => y = x \/ <<"add", y>> \in Range(queue')
    BY <1>2 DEF x
  <2> QED BY <1>0, <1>1, <1>4, <2>1 DEF NoLeak, Alive
<1>10. ASSUME CleanInv
       PROVE  CleanInv'
  <2>0. AliveInv
    BY <1>10 DEF CleanInv
  <2>1. expired = <<>> /\ Len(expired) = 0
    BY <1>0, <1>1, EmptySeq DEF BatchInv
  <2>2. Alive(x)
    BY <1>1, <1>2, <1>3, <2>0 DEF AliveInv
  <2>3. \A i \in 1..Len(queue') : queue'[i][1] = "add"
          => memory[queue'[i][2]] = "alive" /\ queue'[i][2] \notin timers_'
    <3> TAKE i \in 1..Len(queue')
    <3> HAVE queue'[i][1] = "add"
    <3>1. i + 1 \in 1..Len(queue) /\ queue'[i] = queue[i + 1] /\ 1 < i + 1
      BY <1>2
    <3>2. memory[queue'[i][2]] = "alive" /\ queue'[i][2] \notin timers_
      BY <2>0, <3>1 DEF AliveInv, Alive
    <3>3. queue'[i][2] # x
      BY <1>1, <1>2, <1>3, <2>0, <3>1 DEF AliveInv, AddedOnce
    <3> QED BY <1>4, <3>2, <3>3
  <2>4. \A y \in timers_' : memory[y] = "alive"
    BY <1>4, <2>0, <2>2 DEF AliveInv, Alive
  <2>5. AddedOnce(queue')
    BY <1>0, <1>1, <2>0, AddedOnceTail DEF AliveInv, Types
  <2>6. AliveInv'
    <3>1. UNCHANGED <<memory, expired>> /\ Len(expired') = 0
      BY <1>1, <2>1
    <3> QED BY <2>3, <2>4, <2>5, <3>1 DEF AliveInv, Alive
  <2> QED BY <1>1, <1>10, <2>6 DEF CleanInv
<1> QED
  BY <1>1, <1>6, <1>7, <1>8, <1>9, <1>10 DEF IInv

(* new Timer: an unused object, which nobody points to.                    *)
LEMMA AllocateProperties ==
  ASSUME Types, UsedInv, NEW x \in Timers, NEW delay \in 0..MaxDelay,
         NEW interval \in 0..MaxInterval, Allocate(x, delay, interval)
  PROVE  /\ memory[x] = "unused" /\ x \notin timers_
         /\ \A i \in 1..Len(expired) : expired[i] \in Timers /\ expired[i] # x
         /\ \A i \in 1..Len(queue) : queue[i][2] \in Timers /\ queue[i][2] # x
         /\ memory' \in [Timers -> {"unused", "alive", "freed"}] /\ memory'[x] = "alive"
         /\ when_' \in [Timers -> Int] /\ when_'[x] = delay /\ delay \in Int
         /\ interval_' \in [Timers -> Nat]
         /\ \A y \in Timers : y # x => /\ memory'[y] = memory[y] /\ when_'[y] = when_[y]
                                       /\ interval_'[y] = interval_[y]
<1>1. /\ memory[x] = "unused"
      /\ memory' = [memory EXCEPT ![x] = "alive"]
      /\ when_' = [when_ EXCEPT ![x] = delay]
      /\ interval_' = [interval_ EXCEPT ![x] = interval]
  BY DEF Allocate
<1>2. delay \in Int /\ interval \in Nat
  BY TimerBoundsAssumption
<1>3. /\ \A i \in 1..Len(expired) : expired[i] \in Timers
      /\ \A i \in 1..Len(queue) : queue[i] \in Op \X Timers
  BY InRange DEF Types
<1>4. \A i \in 1..Len(queue) : queue[i][2] \in Timers
  BY <1>3
<1>5. /\ memory' \in [Timers -> {"unused", "alive", "freed"}] /\ memory'[x] = "alive"
      /\ \A y \in Timers : y # x => memory'[y] = memory[y]
  BY <1>1 DEF Types
<1>6. /\ when_' \in [Timers -> Int] /\ when_'[x] = delay
      /\ \A y \in Timers : y # x => when_'[y] = when_[y]
  BY <1>1, <1>2 DEF Types
<1>7. /\ interval_' \in [Timers -> Nat]
      /\ \A y \in Timers : y # x => interval_'[y] = interval_[y]
  BY <1>1, <1>2 DEF Types
<1>8. /\ x \notin timers_ /\ \A i \in 1..Len(expired) : expired[i] # x
      /\ \A i \in 1..Len(queue) : queue[i][2] # x
  BY <1>1 DEF UsedInv
<1> QED
  BY <1>1, <1>2, <1>3, <1>4, <1>5, <1>6, <1>7, <1>8

(* Allocating a Timer breaks nothing about the others.                     *)
LEMMA AllocateKeeps ==
  ASSUME Types, UsedInv, AliveInv, NEW x \in Timers, NEW delay \in 0..MaxDelay,
         NEW interval \in 0..MaxInterval, Allocate(x, delay, interval)
  PROVE  /\ \A y \in timers_ : memory'[y] = "alive"
         /\ \A i \in 1..Len(expired) : memory'[expired[i]] = "alive"
         /\ \A i \in 1..Len(queue) : queue[i][1] = "add" => memory'[queue[i][2]] = "alive"
<1> USE AllocateProperties
<1>1. \A y \in timers_ : memory'[y] = "alive"
  BY DEF AliveInv, Alive, Types
<1>2. /\ \A i \in 1..Len(expired) : memory'[expired[i]] = "alive"
      /\ \A i \in 1..Len(queue) : queue[i][1] = "add" => memory'[queue[i][2]] = "alive"
  <2>1. /\ \A i \in 1..Len(expired) : expired[i] \in Timers /\ expired[i] # x
        /\ \A i \in 1..Len(queue) : queue[i][2] \in Timers /\ queue[i][2] # x
        /\ \A y \in Timers : y # x => memory'[y] = memory[y]
    OBVIOUS
  <2>2. /\ \A i \in 1..Len(expired) : memory[expired[i]] = "alive"
        /\ \A i \in 1..Len(queue) : queue[i][1] = "add" => memory[queue[i][2]] = "alive"
    BY ONLY AliveInv DEF AliveInv, Alive
  <2> QED BY ONLY <2>1, <2>2
<1> QED
  BY ONLY <1>1, <1>2

(* addTimer() in the loop thread.                                          *)
LEMMA AddTimerStep ==
  ASSUME IInv, NEW x \in Timers, NEW delay \in 0..MaxDelay, NEW interval \in 0..MaxInterval,
         AddTimer(x, delay, interval)
  PROVE  IInv' /\ stray' = stray /\ (CleanInv => CleanInv')
<1>0. Types /\ UsedInv /\ BatchInv /\ NoForgottenTimer /\ NoLeak
  BY DEF IInv
<1>1. /\ Allocate(x, delay, interval) /\ Insert(x, delay)
      /\ UNCHANGED <<expired, lpc, queue, stray, fault>>
  BY DEF AddTimer
<1>2. /\ memory[x] = "unused" /\ x \notin timers_
      /\ \A i \in 1..Len(expired) : expired[i] \in Timers /\ expired[i] # x
      /\ \A i \in 1..Len(queue) : queue[i][2] \in Timers /\ queue[i][2] # x
      /\ memory' \in [Timers -> {"unused", "alive", "freed"}] /\ memory'[x] = "alive"
      /\ when_' \in [Timers -> Int] /\ when_'[x] = delay /\ delay \in Int
      /\ interval_' \in [Timers -> Nat]
      /\ \A y \in Timers : y # x => memory'[y] = memory[y] /\ when_'[y] = when_[y]
  <2>1. /\ Types /\ UsedInv /\ Allocate(x, delay, interval)
        /\ x \in Timers /\ delay \in 0..MaxDelay /\ interval \in 0..MaxInterval
    BY <1>0, <1>1
  <2> QED BY ONLY <2>1, AllocateProperties
<1>3. timers_' = timers_ \cup {x} /\ timers_ \in SUBSET Timers
  BY <1>0, <1>1 DEF Insert, Types
<1>4. /\ timers_' \in SUBSET Timers /\ timerfd' \in Int /\ timerfd' >= Off
      /\ Armed(timerfd, timers_, when_) => Armed(timerfd', timers_', when_')
  <2>1. /\ Types /\ Insert(x, delay) /\ delay \in Int
        /\ when_' \in [Timers -> Int] /\ when_'[x] = delay
        /\ \A y \in timers_ : y # x => when_'[y] = when_[y]
        /\ x \notin timers_
    BY <1>0, <1>1, <1>2, <1>3
  <2> QED BY <2>1, InsertArms
<1>5. Types'
  BY <1>0, <1>1, <1>2, <1>4 DEF Types
<1>6. UsedInv' /\ BatchInv'
  <2>1. \A y \in timers_' : memory'[y] # "unused"
    BY <1>0, <1>2, <1>3 DEF UsedInv
  <2>2. \A i \in 1..Len(expired) : memory'[expired[i]] # "unused"
    BY <1>0, <1>2 DEF UsedInv
  <2>3. \A i \in 1..Len(queue) : memory'[queue[i][2]] # "unused"
    <3> TAKE i \in 1..Len(queue)
    <3>1. queue[i][2] \in Timers /\ queue[i][2] # x
      BY <1>2
    <3>2. memory'[queue[i][2]] = memory[queue[i][2]] /\ memory[queue[i][2]] # "unused"
      BY <1>0, <1>2, <3>1 DEF UsedInv
    <3> QED BY <3>2
  <2>4. BatchInv'
    BY <1>0, <1>1 DEF BatchInv
  <2> QED BY <1>1, <2>1, <2>2, <2>3, <2>4 DEF UsedInv
<1>7. NoForgottenTimer'
  BY <1>0, <1>1, <1>4, NoForgotten DEF NoForgottenTimer, Armed
<1>8. NoLeak'
  BY <1>0, <1>1, <1>2, <1>3 DEF NoLeak, Alive
<1>9. ASSUME CleanInv
      PROVE  CleanInv'
  <2>0. AliveInv
    BY <1>9 DEF CleanInv
  <2>1. /\ \A y \in timers_ : memory'[y] = "alive"
        /\ \A i \in 1..Len(expired) : memory'[expired[i]] = "alive"
        /\ \A i \in 1..Len(queue) : queue[i][1] = "add" => memory'[queue[i][2]] = "alive"
    BY <1>0, <1>1, <2>0, AllocateKeeps
  <2>2. AliveInv'
    BY <1>1, <1>2, <1>3, <2>0, <2>1 DEF AliveInv, Alive
  <2> QED BY <1>1, <1>9, <2>2 DEF CleanInv
<1> QED
  BY <1>1, <1>5, <1>6, <1>7, <1>8, <1>9 DEF IInv

(* A task is queued behind the others.                                     *)
LEMMA QueueTask ==
  ASSUME Types, NEW op \in Op, NEW x \in Timers, queue' = Append(queue, <<op, x>>)
  PROVE  /\ queue' \in Seq(Op \X Timers) /\ Len(queue) \in Nat /\ Len(queue') = Len(queue) + 1
         /\ \A i \in 1..Len(queue') :
              \/ i \in 1..Len(queue) /\ queue'[i] = queue[i]
              \/ i = Len(queue) + 1 /\ queue'[i][1] = op /\ queue'[i][2] = x
         /\ \A y \in Range(queue) : y \in Range(queue')
         /\ <<op, x>> \in Range(queue')
<1> DEFINE e == <<op, x>>
<1>1. e \in Op \X Timers /\ e[1] = op /\ e[2] = x
  OBVIOUS
<1>2. queue \in Seq(Op \X Timers) /\ queue' = Append(queue, e)
  BY DEF Types
<1> HIDE DEF e
<1>3. /\ Len(queue) \in Nat /\ Append(queue, e) \in Seq(Op \X Timers)
      /\ Len(Append(queue, e)) = Len(queue) + 1
      /\ \A i \in 1..(Len(queue) + 1) :
           \/ i \in 1..Len(queue) /\ Append(queue, e)[i] = queue[i]
           \/ i = Len(queue) + 1 /\ Append(queue, e)[i] = e
      /\ \A y : y \in Range(queue) \/ y = e => y \in Range(Append(queue, e))
  BY <1>1, <1>2, AppendAt
<1>4. e \in Range(queue')
  BY <1>2, <1>3
<1>5. <<op, x>> \in Range(queue')
  BY <1>4 DEF e
<1> QED
  BY <1>1, <1>2, <1>3, <1>5

(* addTimer() in another thread.                                           *)
LEMMA ThreadAddStep ==
  ASSUME IInv, NEW x \in Timers, NEW delay \in 0..MaxDelay, NEW interval \in 0..MaxInterval,
         ThreadAddTimer(x, delay, interval)
  PROVE  IInv' /\ stray' = stray /\ (CleanInv => CleanInv')
<1>0. Types /\ UsedInv /\ BatchInv /\ NoForgottenTimer /\ NoLeak
  BY DEF IInv
<1>1. /\ Allocate(x, delay, interval) /\ queue' = Append(queue, <<"add", x>>)
      /\ UNCHANGED <<timers_, timerfd, expired, lpc, stray, fault>>
  BY DEF ThreadAddTimer
<1>2. /\ memory[x] = "unused" /\ x \notin timers_
      /\ \A i \in 1..Len(expired) : expired[i] \in Timers /\ expired[i] # x
      /\ \A i \in 1..Len(queue) : queue[i][2] \in Timers /\ queue[i][2] # x
      /\ memory' \in [Timers -> {"unused", "alive", "freed"}] /\ memory'[x] = "alive"
      /\ when_' \in [Timers -> Int] /\ interval_' \in [Timers -> Nat]
      /\ \A y \in Timers : y # x => memory'[y] = memory[y] /\ when_'[y] = when_[y]
  BY <1>0, <1>1, AllocateProperties
<1>4. /\ queue' \in Seq(Op \X Timers) /\ Len(queue) \in Nat /\ Len(queue') = Len(queue) + 1
      /\ \A i \in 1..Len(queue') :
           \/ i \in 1..Len(queue) /\ queue'[i] = queue[i]
           \/ i = Len(queue) + 1 /\ queue'[i][1] = "add" /\ queue'[i][2] = x
      /\ \A y \in Range(queue) : y \in Range(queue')
      /\ <<"add", x>> \in Range(queue')
  <2>1. "add" \in Op
    BY DEF Op
  <2> QED BY <1>0, <1>1, <2>1, QueueTask
<1>5. Types'
  BY <1>0, <1>1, <1>2, <1>4 DEF Types
<1>6. UsedInv' /\ BatchInv'
  <2>1. \A i \in 1..Len(queue') : memory'[queue'[i][2]] # "unused"
    <3> TAKE i \in 1..Len(queue')
    <3>1. CASE i \in 1..Len(queue) /\ queue'[i] = queue[i]
      BY <1>0, <1>2, <3>1 DEF UsedInv
    <3>2. CASE queue'[i][2] = x
      BY <1>2, <3>2
    <3> QED BY <1>4, <3>1, <3>2
  <2>2. \A y \in timers_ : memory'[y] # "unused"
    BY <1>0, <1>2 DEF UsedInv, Types
  <2>3. \A i \in 1..Len(expired) : memory'[expired[i]] # "unused"
    BY <1>0, <1>2 DEF UsedInv
  <2>4. BatchInv'
    BY <1>0, <1>1 DEF BatchInv
  <2> QED BY <1>1, <2>1, <2>2, <2>3, <2>4 DEF UsedInv
<1>7. NoForgottenTimer'
  BY <1>0, <1>1, <1>2 DEF NoForgottenTimer, Types
<1>8. NoLeak'
  BY <1>0, <1>1, <1>2, <1>4 DEF NoLeak, Alive
<1>9. ASSUME CleanInv
      PROVE  CleanInv'
  <2>0. AliveInv
    BY <1>9 DEF CleanInv
  <2>1. /\ \A y \in timers_ : memory'[y] = "alive"
        /\ \A i \in 1..Len(expired) : memory'[expired[i]] = "alive"
        /\ \A i \in 1..Len(queue) : queue[i][1] = "add" => memory'[queue[i][2]] = "alive"
    BY <1>0, <1>1, <2>0, AllocateKeeps
  <2>2. \A i \in 1..Len(queue') : queue'[i][1] = "add"
          => /\ memory'[queue'[i][2]] = "alive" /\ queue'[i][2] \notin timers_
             /\ \A j \in 1..Len(expired) : expired[j] # queue'[i][2]
    <3> TAKE i \in 1..Len(queue')
    <3>1. CASE i \in 1..Len(queue) /\ queue'[i] = queue[i]
      BY <2>0, <2>1, <3>1 DEF AliveInv
    <3>2. CASE queue'[i][2] = x
      BY <1>2, <3>2
    <3> QED BY <1>4, <3>1, <3>2
  <2>3. AddedOnce(queue')
    <3> SUFFICES ASSUME NEW i \in 1..Len(queue'), NEW j \in 1..Len(queue'),
                        i < j, queue'[i][1] = "add", queue'[j][1] = "add"
                 PROVE  queue'[i][2] # queue'[j][2]
      BY DEF AddedOnce
    <3>1. i \in 1..Len(queue) /\ queue'[i] = queue[i]
      <4>1. Len(queue) \in Nat /\ Len(queue') = Len(queue) + 1
        BY <1>4
      <4>2. i # Len(queue) + 1
        BY <4>1
      <4> QED BY <1>4, <4>2
    <3>2. CASE queue'[j][2] = x
      BY <1>2, <3>1, <3>2
    <3>3. CASE j \in 1..Len(queue) /\ queue'[j] = queue[j]
      BY <2>0, <3>1, <3>3 DEF AliveInv, AddedOnce
    <3> QED BY <1>4, <3>2, <3>3
  <2>4. AliveInv'
    <3>1. UNCHANGED <<timers_, expired>>
      BY <1>1
    <3>2. \A i \in 1..Len(expired) :
            /\ expired[i] \notin timers_
            /\ \A j \in 1..Len(expired) : i < j => expired[i] # expired[j]
      BY <2>0 DEF AliveInv
    <3> QED BY <2>1, <2>2, <2>3, <3>1, <3>2 DEF AliveInv, Alive
  <2> QED BY <1>1, <1>9, <2>4 DEF CleanInv
<1> QED
  BY <1>1, <1>5, <1>6, <1>7, <1>8, <1>9 DEF IInv

(* cancelTimer() in another thread.                                        *)
LEMMA ThreadCancelStep ==
  ASSUME IInv, NEW x \in Timers, ThreadCancelTimer(x)
  PROVE  IInv' /\ stray' = stray /\ (CleanInv => CleanInv')
<1>0. Types /\ UsedInv /\ BatchInv /\ NoForgottenTimer /\ NoLeak
  BY DEF IInv
<1>1. /\ memory[x] # "unused" /\ queue' = Append(queue, <<"cancel", x>>)
      /\ UNCHANGED <<memory, when_, interval_, timers_, timerfd, expired, lpc, stray, fault>>
  BY DEF ThreadCancelTimer, MayCancel
<1>2. /\ queue' \in Seq(Op \X Timers) /\ Len(queue) \in Nat /\ Len(queue') = Len(queue) + 1
      /\ \A i \in 1..Len(queue') :
           \/ i \in 1..Len(queue) /\ queue'[i] = queue[i]
           \/ i = Len(queue) + 1 /\ queue'[i][1] = "cancel" /\ queue'[i][2] = x
      /\ \A y \in Range(queue) : y \in Range(queue')
  <2>1. "cancel" \in Op
    BY DEF Op
  <2> QED BY <1>0, <1>1, <2>1, QueueTask
<1>3. Types'
  BY <1>0, <1>1, <1>2 DEF Types
<1>4. UsedInv' /\ BatchInv'
  <2>1. \A i \in 1..Len(queue') : memory[queue'[i][2]] # "unused"
    <3> TAKE i \in 1..Len(queue')
    <3>1. CASE i \in 1..Len(queue) /\ queue'[i] = queue[i]
      BY <1>0, <3>1 DEF UsedInv
    <3>2. CASE queue'[i][2] = x
      BY <1>1, <3>2
    <3> QED BY <1>2, <3>1, <3>2
  <2>2. BatchInv'
    BY <1>0, <1>1 DEF BatchInv
  <2> QED BY <1>0, <1>1, <2>1, <2>2 DEF UsedInv
<1>5. NoForgottenTimer'
  BY <1>0, <1>1 DEF NoForgottenTimer
<1>6. NoLeak'
  BY <1>0, <1>1, <1>2 DEF NoLeak, Alive
<1>7. ASSUME CleanInv
      PROVE  CleanInv'
  <2>0. AliveInv
    BY <1>7 DEF CleanInv
  <2>1. \A i \in 1..Len(queue') :
          queue'[i][1] = "add" => i \in 1..Len(queue) /\ queue'[i] = queue[i]
    BY <1>2
  <2>2. AddedOnce(queue')
    BY <2>0, <2>1 DEF AliveInv, AddedOnce
  <2>3. \A i \in 1..Len(queue') : queue'[i][1] = "add"
          => /\ Alive(queue'[i][2]) /\ queue'[i][2] \notin timers_
             /\ \A j \in 1..Len(expired) : expired[j] # queue'[i][2]
    BY <2>0, <2>1 DEF AliveInv
  <2>4. AliveInv'
    BY <1>1, <2>0, <2>2, <2>3 DEF AliveInv, Alive
  <2> QED BY <1>1, <1>7, <2>4 DEF CleanInv
<1> QED
  BY <1>1, <1>3, <1>4, <1>5, <1>6, <1>7 DEF IInv

(* handleRead moves the timers that are due into its batch.                *)
LEMMA HandleReadStep ==
  ASSUME IInv, HandleRead
  PROVE  IInv' /\ stray' = stray /\ (CleanInv => CleanInv')
<1>0. Types /\ UsedInv /\ BatchInv /\ NoForgottenTimer /\ NoLeak
  BY DEF IInv
<1>1. /\ lpc = "loop" /\ lpc' = "batch" /\ timerfd' \in {Off, timerfd}
      /\ expired' \in [1..Cardinality(Due) -> Due] /\ timers_' = timers_ \ Due
      /\ Range(expired') = Due
      /\ \A i, j \in DOMAIN expired' : i < j => Before(expired'[i], expired'[j])
      /\ UNCHANGED <<memory, when_, interval_, queue, stray, fault>>
  BY DEF HandleRead, GetExpired
<1>2. Due \in SUBSET timers_ /\ Due \in SUBSET Timers
  BY <1>0 DEF Due, Types
<1>3. Cardinality(Due) \in Nat
  <2>1. IsFiniteSet(Timers)
    BY FS_Interval, TimerBoundsAssumption DEF Timers
  <2> QED BY <1>2, <2>1, FS_Subset, FS_CardinalityType
<1>4. /\ expired' \in Seq(Timers) /\ Len(expired') = Cardinality(Due)
      /\ \A i \in 1..Len(expired') : expired'[i] \in Due
  <2>1. expired' \in Seq(Due) /\ DOMAIN expired' = 1..Cardinality(Due)
    BY <1>1, <1>3, SeqDef
  <2>2. Len(expired') = Cardinality(Due)
    BY <1>3, <2>1, LenProperties
  <2>3. expired' \in [1..Cardinality(Due) -> Timers]
    BY <1>1, <1>2
  <2>4. expired' \in Seq(Timers)
    BY <1>3, <2>3, SeqDef
  <2> QED BY <1>1, <2>2, <2>4
<1>5. expired = <<>> /\ Range(expired) = {}
  <2>1. expired = <<>>
    BY <1>0, <1>1 DEF BatchInv
  <2> QED BY <2>1 DEF Range
<1>6. Types'
  BY <1>0, <1>1, <1>4 DEF Types, Off
<1>7. UsedInv' /\ BatchInv'
  <2>1. \A i \in 1..Len(expired') : memory[expired'[i]] # "unused"
    BY <1>0, <1>2, <1>4 DEF UsedInv
  <2>2. BatchInv'
    BY <1>1 DEF BatchInv
  <2> QED BY <1>0, <1>1, <2>1, <2>2 DEF UsedInv
<1>8. NoForgottenTimer'
  BY <1>1 DEF NoForgottenTimer
<1>9. NoLeak'
  BY <1>0, <1>1, <1>5 DEF NoLeak, Alive
<1>10. ASSUME CleanInv
       PROVE  CleanInv'
  <2>0. AliveInv
    BY <1>10 DEF CleanInv
  <2>1. \A i \in 1..Len(expired') :
          /\ memory[expired'[i]] = "alive" /\ expired'[i] \notin timers_'
          /\ expired'[i] \in timers_
    BY <1>1, <1>2, <1>4, <2>0 DEF AliveInv, Alive
  <2>2. \A i, j \in 1..Len(expired') : i < j => expired'[i] # expired'[j]
    <3> SUFFICES ASSUME NEW i \in 1..Len(expired'), NEW j \in 1..Len(expired'), i < j
                 PROVE  expired'[i] # expired'[j]
      OBVIOUS
    <3>1. Before(expired'[i], expired'[j])
      BY <1>1, <1>4
    <3>2. expired'[i] \in Timers /\ expired'[i] \in Int /\ when_[expired'[i]] \in Int
      <4>1. expired'[i] \in Timers
        BY <1>2, <1>4
      <4>2. expired'[i] \in Int
        BY <4>1, TimerBoundsAssumption DEF Timers
      <4>3. when_[expired'[i]] \in Int
        BY <1>0, <4>1 DEF Types
      <4> QED BY <4>1, <4>2, <4>3
    <3> QED BY <3>1, <3>2 DEF Before
  <2>3. \A i \in 1..Len(queue) :
          queue[i][1] = "add"
            => /\ memory[queue[i][2]] = "alive" /\ queue[i][2] \notin timers_'
               /\ \A j \in 1..Len(expired') : expired'[j] # queue[i][2]
    BY <1>1, <2>0, <2>1 DEF AliveInv, Alive
  <2>4. \A y \in timers_' : memory[y] = "alive"
    BY <1>1, <2>0 DEF AliveInv, Alive
  <2>5. AliveInv'
    BY <1>1, <2>0, <2>1, <2>2, <2>3, <2>4 DEF AliveInv, Alive
  <2> QED BY <1>1, <1>10, <2>5 DEF CleanInv
<1> QED
  BY <1>1, <1>6, <1>7, <1>8, <1>9, <1>10 DEF IInv

(* handleRead ends and sets the timerfd for the first timer.               *)
LEMMA BatchDoneStep ==
  ASSUME IInv, BatchDone
  PROVE  IInv' /\ stray' = stray /\ (CleanInv => CleanInv')
<1>0. Types /\ UsedInv /\ BatchInv /\ NoForgottenTimer /\ NoLeak
  BY DEF IInv
<1>1. /\ expired = <<>> /\ lpc' = "loop"
      /\ UNCHANGED <<memory, when_, interval_, timers_, expired, queue, stray, fault>>
  BY DEF BatchDone
<1>2. timerfd' \in Int /\ timerfd' >= Off /\ Armed(timerfd', timers_, when_)
  <2>1. CASE timers_ = {} /\ UNCHANGED timerfd
    BY <1>0, <2>1 DEF Armed, Types
  <2>2. ASSUME NEW x \in timers_, IsFirst(x, timers_), timerfd' = TimerfdSet(when_[x])
        PROVE  timerfd' \in Int /\ timerfd' >= Off /\ Armed(timerfd', timers_, when_)
    <3>1. \A y \in timers_ : when_[y] \in Int
      BY <1>0 DEF Types
    <3>2. \A y \in timers_ : when_[x] <= when_[y]
      BY <2>2, <3>1 DEF IsFirst, Before
    <3>3. /\ timerfd' \in Int /\ timerfd' >= 1
          /\ timerfd' <= when_[x] \/ timerfd' <= 1
      BY <2>2, <3>1, TimerfdSetProperties
    <3>4. \A y \in timers_ : timerfd' <= when_[y] \/ timerfd' <= 1
      BY <3>1, <3>2, <3>3
    <3>5. timerfd' # Off /\ timerfd' >= Off
      BY <3>3 DEF Off
    <3> QED BY <3>3, <3>4, <3>5 DEF Armed
  <2> QED BY <2>1, <2>2 DEF BatchDone
<1>3. Types'
  BY <1>0, <1>1, <1>2 DEF Types
<1>4. UsedInv' /\ BatchInv'
  BY <1>0, <1>1 DEF UsedInv, BatchInv
<1>5. NoForgottenTimer'
  BY <1>1, <1>2 DEF NoForgottenTimer, Armed
<1>6. NoLeak'
  BY <1>0, <1>1 DEF NoLeak, Alive
<1>7. CleanInv => CleanInv'
  <2>1. UNCHANGED <<memory, timers_, expired, queue, fault>>
    BY <1>1
  <2> QED BY ONLY <2>1 DEF CleanInv, AliveInv, Alive
<1> QED
  BY <1>1, <1>3, <1>4, <1>5, <1>6, <1>7 DEF IInv

(* Time passes for the timers and for the timerfd alike.                   *)
LEMMA TickStep ==
  ASSUME IInv, Tick
  PROVE  IInv' /\ stray' = stray /\ (CleanInv => CleanInv')
<1>0. Types /\ UsedInv /\ BatchInv /\ NoForgottenTimer /\ NoLeak
  BY DEF IInv
<1>1. /\ when_' = [x \in Timers |-> IF Timed(x) /\ when_[x] > -MaxLate
                                    THEN when_[x] - 1 ELSE when_[x]]
      /\ timerfd' = IF timerfd > 0 THEN timerfd - 1 ELSE timerfd
      /\ UNCHANGED <<memory, interval_, timers_, expired, lpc, queue, stray, fault>>
  BY DEF Tick
<1>2. \A x \in Timers : when_[x] \in Int /\ (when_'[x] = when_[x] - 1 \/ when_'[x] = when_[x])
  BY <1>0, <1>1 DEF Types
<1>3. when_' \in [Timers -> Int]
  <2>1. \A x \in Timers : (IF Timed(x) /\ when_[x] > -MaxLate
                           THEN when_[x] - 1 ELSE when_[x]) \in Int
    BY <1>2
  <2> QED BY <1>1, <2>1
<1>4. timerfd \in Int /\ timerfd >= -1 /\ timerfd' \in Int /\ timerfd' >= -1
  BY <1>0, <1>1 DEF Types, Off
<1>5. Types'
  BY <1>0, <1>1, <1>3, <1>4 DEF Types, Off
<1>6. UsedInv' /\ BatchInv'
  BY <1>0, <1>1 DEF UsedInv, BatchInv
<1>7. NoForgottenTimer'
  <2> SUFFICES ASSUME lpc \in {"loop", "user"}, timers_ # {}
               PROVE  timerfd' # Off /\ \A x \in timers_ : timerfd' <= when_'[x] \/ timerfd' <= 1
    BY <1>1 DEF NoForgottenTimer
  <2>1. timerfd # -1 /\ \A x \in timers_ : timerfd <= when_[x] \/ timerfd <= 1
    BY <1>0 DEF NoForgottenTimer, Off
  <2>2. timerfd' # Off
    BY <1>1, <1>4, <2>1 DEF Off
  <2>3. ASSUME NEW x \in timers_
        PROVE  timerfd' <= when_'[x] \/ timerfd' <= 1
    <3>1. /\ when_[x] \in Int /\ (when_'[x] = when_[x] - 1 \/ when_'[x] = when_[x])
          /\ timerfd <= when_[x] \/ timerfd <= 1
      BY <1>0, <1>2, <2>1 DEF Types
    <3> QED BY <1>1, <1>4, <3>1
  <2> QED BY <2>2, <2>3
<1>8. NoLeak'
  BY <1>0, <1>1 DEF NoLeak, Alive
<1>9. CleanInv => CleanInv'
  BY <1>1 DEF CleanInv, AliveInv, Alive
<1> QED
  BY <1>1, <1>5, <1>6, <1>7, <1>8, <1>9 DEF IInv

(* After a callback: the Timer is put back, deleted, or found deleted.     *)
LEMMA CallbackDoneStep ==
  ASSUME IInv, CallbackDone
  PROVE  IInv' /\ stray' = stray /\ (CleanInv => CleanInv')
<1>0. Types /\ UsedInv /\ BatchInv /\ NoForgottenTimer /\ NoLeak
  BY DEF IInv
<1> DEFINE x == Head(expired)
<1>1. /\ lpc = "callback" /\ lpc' = "batch" /\ expired' = Tail(expired)
      /\ IF Alive(x) THEN RestartOrDelete(x) /\ UNCHANGED fault
                     ELSE UNCHANGED <<memory, when_, timers_>>
      /\ UNCHANGED <<interval_, timerfd, queue, stray>>
  BY DEF CallbackDone
<1>2. expired # <<>>
  BY <1>0, <1>1 DEF BatchInv
<1>3. /\ Len(expired) \in Nat /\ 1 \in 1..Len(expired) /\ x = expired[1] /\ x \in Timers
      /\ expired' \in Seq(Timers) /\ Len(expired') = Len(expired) - 1
      /\ \A i \in 1..Len(expired') : i + 1 \in 1..Len(expired) /\ expired'[i] = expired[i + 1]
      /\ \A y \in Range(expired) : y = x \/ y \in Range(expired')
  <2>1. expired \in Seq(Timers)
    BY <1>0 DEF Types
  <2> QED BY <1>1, <1>2, <2>1, TailAt
<1> HIDE DEF x
<1>4. \/ /\ Alive(x) /\ interval_[x] > 0 /\ timers_' = timers_ \cup {x} /\ fault' = fault
         /\ memory' = memory /\ when_' = [when_ EXCEPT ![x] = @ + interval_[x]]
      \/ /\ Alive(x) /\ ~(interval_[x] > 0) /\ timers_' = timers_ /\ fault' = fault
         /\ memory' = [memory EXCEPT ![x] = "freed"]
         /\ when_' = when_ \/ when_' = [when_ EXCEPT ![x] = 0]
      \/ ~Alive(x) /\ UNCHANGED <<memory, when_, timers_>>
  BY <1>1 DEF RestartOrDelete, Free
<1>5. /\ memory' \in [Timers -> {"unused", "alive", "freed"}]
      /\ \A y \in Timers : y # x => memory'[y] = memory[y]
      /\ \A y \in Timers : memory[y] # "unused" => memory'[y] # "unused"
      /\ memory'[x] = "alive" => x \in timers_'
  <2>1. memory \in [Timers -> {"unused", "alive", "freed"}]
    BY <1>0 DEF Types
  <2> QED BY <1>3, <1>4, <2>1 DEF Alive
<1>6. when_' \in [Timers -> Int]
  <2>1. when_ \in [Timers -> Int] /\ interval_[x] \in Int /\ when_[x] \in Int
    BY <1>0, <1>3 DEF Types
  <2>2. when_[x] + interval_[x] \in Int /\ 0 \in Int
    BY <2>1
  <2> QED BY <1>4, <2>1, <2>2
<1>7. /\ timers_ \in SUBSET Timers /\ timers_' \in SUBSET Timers
      /\ timers_ \subseteq timers_' /\ timers_' \subseteq timers_ \cup {x}
  <2>1. timers_ \in SUBSET Timers
    BY <1>0 DEF Types
  <2> QED BY <1>3, <1>4, <2>1
<1>8. Types'
  BY <1>0, <1>1, <1>3, <1>5, <1>6, <1>7 DEF Types
<1>9. UsedInv' /\ BatchInv'
  <2>1. memory[x] # "unused"
    BY <1>0, <1>3 DEF UsedInv
  <2>2. \A y \in timers_' : memory'[y] # "unused"
    BY <1>0, <1>5, <1>7, <2>1 DEF UsedInv
  <2>3. \A i \in 1..Len(expired') : memory'[expired'[i]] # "unused"
    <3> TAKE i \in 1..Len(expired')
    <3>1. i + 1 \in 1..Len(expired) /\ expired'[i] = expired[i + 1] /\ expired'[i] \in Timers
      BY <1>3, InRange
    <3>2. memory[expired[i + 1]] # "unused"
      BY <1>0, <3>1 DEF UsedInv
    <3> QED BY <1>5, <3>1, <3>2
  <2>4. \A i \in 1..Len(queue) : memory'[queue[i][2]] # "unused"
    <3> TAKE i \in 1..Len(queue)
    <3>1. queue[i] \in Op \X Timers
      BY <1>0, InRange DEF Types
    <3>2. queue[i][2] \in Timers /\ memory[queue[i][2]] # "unused"
      BY <1>0, <3>1 DEF UsedInv
    <3> QED BY <1>5, <3>2
  <2>5. BatchInv'
    BY <1>1 DEF BatchInv
  <2> QED BY <1>1, <2>2, <2>3, <2>4, <2>5 DEF UsedInv
<1>10. NoForgottenTimer'
  BY <1>1 DEF NoForgottenTimer
<1>11. NoLeak'
  <2> SUFFICES ASSUME NEW y \in Timers, memory'[y] = "alive"
               PROVE  y \in timers_' \cup Range(expired') \/ <<"add", y>> \in Range(queue)
    BY <1>1 DEF NoLeak, Alive
  <2>1. CASE y = x
    BY <1>5, <2>1
  <2>2. CASE y # x
    <3>1. y \in timers_ \cup Range(expired) \/ <<"add", y>> \in Range(queue)
      BY <1>0, <1>5, <2>2 DEF NoLeak, Alive
    <3> QED BY <1>3, <1>7, <2>2, <3>1
  <2> QED BY <2>1, <2>2
<1>12. ASSUME CleanInv
       PROVE  CleanInv'
  <2>0. AliveInv
    BY <1>12 DEF CleanInv
  <2>1. Alive(x) /\ x \notin timers_
    BY <1>3, <2>0 DEF AliveInv
  <2>2. \A i \in 1..Len(expired') :
          /\ expired'[i] \in Timers /\ expired'[i] # x
          /\ memory[expired'[i]] = "alive" /\ expired'[i] \notin timers_
          /\ \A j \in 1..Len(expired') : i < j => expired'[i] # expired'[j]
    <3> TAKE i \in 1..Len(expired')
    <3>1. /\ i + 1 \in 1..Len(expired) /\ expired'[i] = expired[i + 1] /\ expired'[i] \in Timers
          /\ 1 < i + 1
      BY <1>3, InRange
    <3>2. expired'[i] # x
      BY <1>3, <2>0, <3>1 DEF AliveInv
    <3>3. memory[expired'[i]] = "alive" /\ expired'[i] \notin timers_
      BY <2>0, <3>1 DEF AliveInv, Alive
    <3>4. ASSUME NEW j \in 1..Len(expired'), i < j
          PROVE  expired'[i] # expired'[j]
      <4>1. j + 1 \in 1..Len(expired) /\ expired'[j] = expired[j + 1] /\ i + 1 < j + 1
        BY <1>3, <3>4
      <4> QED BY <2>0, <3>1, <4>1 DEF AliveInv
    <3> QED BY <3>1, <3>2, <3>3, <3>4
  <2>3. \A i \in 1..Len(queue) : queue[i][1] = "add"
          => /\ memory'[queue[i][2]] = "alive" /\ queue[i][2] \notin timers_'
             /\ \A j \in 1..Len(expired') : expired'[j] # queue[i][2]
    <3> TAKE i \in 1..Len(queue)
    <3> HAVE queue[i][1] = "add"
    <3>1. queue[i] \in Op \X Timers
      BY <1>0, InRange DEF Types
    <3>2. /\ queue[i][2] \in Timers /\ memory[queue[i][2]] = "alive"
          /\ queue[i][2] \notin timers_
          /\ \A j \in 1..Len(expired) : expired[j] # queue[i][2]
      BY <2>0, <3>1 DEF AliveInv, Alive
    <3> QED BY <1>3, <1>5, <1>7, <3>2
  <2>5. \A y \in timers_' : memory'[y] = "alive"
    <3>1. \A y \in timers_ : memory[y] = "alive" /\ y # x
      BY <2>0, <2>1 DEF AliveInv, Alive
    <3>2. x \in timers_' => memory'[x] = "alive"
      BY <1>4, <2>1 DEF Alive
    <3> QED BY <1>5, <1>7, <3>1, <3>2
  <2>6. \A i \in 1..Len(expired') :
          memory'[expired'[i]] = "alive" /\ expired'[i] \notin timers_'
    BY <1>5, <1>7, <2>2
  <2>7. AliveInv'
    BY <1>1, <2>0, <2>2, <2>3, <2>5, <2>6 DEF AliveInv, Alive
  <2>8. fault' = fault
    BY <1>4, <2>1
  <2> QED BY <1>12, <2>7, <2>8 DEF CleanInv
<1> QED
  BY <1>1, <1>8, <1>9, <1>10, <1>11, <1>12 DEF IInv

-----------------------------------------------------------------------------
(* Every step keeps the invariant, and all well until a stray cancelTimer. *)
LEMMA InvStep ==
  ASSUME IInv, [Next]_vars
  PROVE  IInv' /\ (SafeInv => SafeInv')
<1>1. CASE UserBegin \/ UserReturn \/ Poll \/ RunExpired \/ UNCHANGED vars
  BY <1>1, PlainStep DEF SafeInv
<1>2. CASE QueueStep
  BY <1>2, RunAddStep, RunCancelStep DEF QueueStep, SafeInv
<1>3. CASE HandleRead
  BY <1>3, HandleReadStep DEF SafeInv
<1>4. CASE CallbackDone \/ BatchDone
  BY <1>4, CallbackDoneStep, BatchDoneStep DEF SafeInv
<1>5. CASE Tick
  BY <1>5, TickStep DEF SafeInv
<1>6. ASSUME NEW x \in Timers, CancelTimer(x) \/ ThreadCancelTimer(x)
      PROVE  IInv' /\ (SafeInv => SafeInv')
  BY <1>6, CancelTimerStep, ThreadCancelStep DEF SafeInv
<1>7. ASSUME NEW x \in Timers, NEW delay \in 0..MaxDelay, NEW interval \in 0..MaxInterval,
             AddTimer(x, delay, interval) \/ ThreadAddTimer(x, delay, interval)
      PROVE  IInv' /\ (SafeInv => SafeInv')
  BY <1>7, AddTimerStep, ThreadAddStep DEF SafeInv
<1> QED
  BY <1>1, <1>2, <1>3, <1>4, <1>5, <1>6, <1>7 DEF Next, BatchStep

(* However timers are added and cancelled, by whichever thread, a pending  *)
(* timer always has its alarm: addTimer's task, cancelTimer's and the end  *)
(* of handleRead between them never leave the timerfd off or set too late. *)
THEOREM TimersNeverForgotten == Spec => []NoForgottenTimer
<1>1. Init => IInv
  BY InitInv
<1>2. IInv /\ [Next]_vars => IInv'
  BY InvStep
<1>3. IInv => NoForgottenTimer
  BY DEF IInv
<1> QED
  BY <1>1, <1>2, <1>3, PTL DEF Spec

(* However timers are added and cancelled, no Timer is lost: until it is   *)
(* deleted it is pending, in handleRead's batch or in a queued addTimer.   *)
THEOREM TimersNeverLeak == Spec => []NoLeak
<1>1. Init => IInv
  BY InitInv
<1>2. IInv /\ [Next]_vars => IInv'
  BY InvStep
<1>3. IInv => NoLeak
  BY DEF IInv
<1> QED
  BY <1>1, <1>2, <1>3, PTL DEF Spec

(* In every use, with cancelTimer() called by any thread for any Timer,    *)
(* pending, in the batch, queued, run or deleted: until some cancelTimer() *)
(* finds no entry for its Timer and deletes it all the same, nobody meets  *)
(* a deleted Timer; the raw pointers in timers_, in the batch and in the   *)
(* queued tasks are good.                                                  *)
THEOREM UseAfterFreeNeedsStray == Spec => []UseAfterFreeOnlyByStray
<1>1. Init => IInv /\ SafeInv
  BY InitInv
<1>2. IInv /\ SafeInv /\ [Next]_vars => IInv' /\ SafeInv'
  BY InvStep
<1>3. SafeInv => UseAfterFreeOnlyByStray
  BY DEF SafeInv, CleanInv, UseAfterFreeOnlyByStray
<1> QED
  BY <1>1, <1>2, <1>3, PTL DEF Spec
=============================================================================
