-------------------------- MODULE TcpClientProofs --------------------------
(***************************************************************************)
(* Proofs about TcpClient and Connector, for any number of clients and     *)
(* descriptors.                                                            *)
(***************************************************************************)
EXTENDS TcpClient, SequenceTheorems, FiniteSetTheorems, WellFoundedInduction, TLAPS

Channels ==
  {TimerChannel} \cup {ConnectorChannel(c) : c \in Clients}
    \cup {ConnectionChannel(c) : c \in Clients}

Entries == Channels \cup {Expired(c) : c \in Clients} \cup {Dead(c) : c \in Clients}

SocketStates == {"free", "new", "connecting", "established", "half",
                 "closed", "reset", "refused", "failed"}

Types == TypeOK /\ ready \in Seq(Channels) /\ batch \in Seq(Entries)

(* What a client knows of its connection; a channel is polled only while   *)
(* its Connector owns the socket.                                          *)
ClientOK(c) ==
  /\ connection_[c] # NoFd => connector_[c].connected_
  /\ connected_[c] <=> connection_[c] # NoFd
  /\ client[c] = "destroyed" => connector_[c] = NoConnector
  /\ client[c] # "destroyed" => connector_[c].fd # NoFd
  /\ client[c] = "created" => ~connector_[c].connected_ /\ ~connector_[c].pooling
  /\ connector_[c].pooling => connector_[c].fd # NoFd /\ ~connector_[c].connected_

(* start() is not interrupted by the handling of events.                   *)
BatchInv == batch # <<>> => \A c \in Clients : client[c] # "starting"

(* The one socket that a client has to close, or NoFd.                     *)
SockOf(c) == IF connector_[c].connected_ THEN connection_[c] ELSE connector_[c].fd

OwnInv ==
  /\ \A c, d \in Clients : SockOf(c) = SockOf(d) /\ SockOf(c) # NoFd => c = d
  /\ \A fd \in Fds : sock[fd] = "free" <=> \A c \in Clients : SockOf(c) # fd

(* x is at one place of s at most.                                         *)
Once(s, x) == \A i, j \in 1..Len(s) : s[i] = x /\ s[j] = x => i = j

(* A channel waits once, in the ready list or among the active channels.   *)
ListInv ==
  \A x \in Channels :
    Once(batch, x) /\ Once(ready, x) /\ (x \in Range(batch) => x \notin Range(ready))

Active(x) == x \in Range(batch) \/ x \in Range(ready)

(* The object that a waiting channel belongs to is there and has something *)
(* to handle.                                                              *)
ActiveLive(c) ==
  /\ Active(ConnectorChannel(c))
       => /\ connector_[c].pooling
          /\ sock[connector_[c].fd] \in {"established", "refused", "closed", "reset"}
  /\ Active(ConnectionChannel(c))
       => connection_[c] # NoFd /\ sock[connection_[c]] \in {"closed", "reset"}

(* The timer of a client exists from start() to newConnection() or         *)
(* destruction, and its callback waits only for a client that was started. *)
StartedInv ==
  \A c \in Clients :
    /\ c \in timers <=> retryTimer_[c]
    /\ retryTimer_[c] => client[c] = "started"
    /\ Expired(c) \in Range(batch) => client[c] = "started"

IInv ==
  /\ Types /\ BatchInv /\ OwnInv /\ ListInv
  /\ \A c \in Clients : ClientOK(c) /\ ActiveLive(c)

Before(s, x, y) == \E i, j \in 1..Len(s) : i < j /\ s[i] = x /\ s[j] = y

Callbacks == {Expired(c) : c \in Clients}

(* Callbacks of timers are handled before any channel that is left.        *)
OrderInv == \A x \in Entries, y \in Callbacks : Before(batch, x, y) => x \in Callbacks

(* A callback waits once, and for a timer that exists.                     *)
WaitInv ==
  \A c \in Clients : Expired(c) \in Range(batch) => retryTimer_[c] /\ Once(batch, Expired(c))

(* Who has been started and is not connected has a timer.                  *)
NeedInv ==
  \A c \in Clients : client[c] = "started" /\ ~connector_[c].connected_ => retryTimer_[c]

(* t keeps some elements of s, in their order.                             *)
Thinned(t, s) ==
  /\ Range(t) \subseteq Range(s)
  /\ \A x : Once(s, x) => Once(t, x)
  /\ \A x, y : Before(t, x, y) => Before(s, x, y)

-----------------------------------------------------------------------------
(* Channels, sequences and descriptors.                                    *)

(* The entries of the lists tell what they stand for and for which client. *)
LEMMA Tags ==
  \A c, d :
    /\ ConnectorChannel(c) = ConnectorChannel(d) => c = d
    /\ ConnectionChannel(c) = ConnectionChannel(d) => c = d
    /\ Expired(c) = Expired(d) => c = d
    /\ ConnectorChannel(c) # ConnectionChannel(d)
    /\ TimerChannel \notin {ConnectorChannel(c), ConnectionChannel(c), Expired(c), Dead(c)}
    /\ Expired(c) \notin {ConnectorChannel(d), ConnectionChannel(d), Dead(d)}
    /\ Dead(c) \notin {ConnectorChannel(d), ConnectionChannel(d)}
  BY DEF TimerChannel, ConnectorChannel, ConnectionChannel, Expired, Dead

(* The kinds of entries.                                                   *)
LEMMA Kinds ==
  /\ TimerChannel \in Channels /\ Channels \subseteq Entries
  /\ \A c \in Clients :
       /\ ConnectorChannel(c) \in Channels /\ ConnectionChannel(c) \in Channels
       /\ Expired(c) \in Entries /\ Dead(c) \in Entries
  /\ \A c : Expired(c) \notin Channels /\ Dead(c) \notin Channels
<1>1. \A c, d : /\ TimerChannel \notin {Expired(c), Dead(c)}
                /\ Expired(c) \notin {ConnectorChannel(d), ConnectionChannel(d)}
                /\ Dead(c) \notin {ConnectorChannel(d), ConnectionChannel(d)}
  BY Tags
<1> QED
  BY <1>1 DEF Channels, Entries

(* The elements of a sequence.                                             *)
LEMMA InRange ==
  ASSUME NEW S, NEW s \in Seq(S)
  PROVE  /\ \A x : x \in Range(s) <=> \E i \in 1..Len(s) : s[i] = x
         /\ Range(s) \subseteq S /\ Len(s) \in Nat /\ DOMAIN s = 1..Len(s)
  BY LenProperties, ElementOfSeq DEF Range

(* Tail, and the head that is gone.                                        *)
LEMMA TailThinned ==
  ASSUME NEW S, NEW s \in Seq(S), s # <<>>
  PROVE  /\ Tail(s) \in Seq(S) /\ Thinned(Tail(s), s)
         /\ Head(s) \in Range(s)
         /\ Once(s, Head(s)) => Head(s) \notin Range(Tail(s))
<1>1. /\ Tail(s) \in Seq(S) /\ Len(s) \in Nat \ {0} /\ Len(Tail(s)) = Len(s) - 1
      /\ Head(s) = s[1]
      /\ \A i \in 1..Len(Tail(s)) : Tail(s)[i] = s[i+1] /\ i + 1 \in 1..Len(s) /\ i + 1 # 1
  <2>1. Len(s) \in Nat \ {0} /\ Head(s) = s[1]
    BY EmptySeq, LenProperties
  <2>2. /\ Tail(s) \in Seq(S) /\ Len(Tail(s)) = Len(s) - 1
        /\ \A i \in 1..Len(Tail(s)) : Tail(s)[i] = s[i+1]
    BY HeadTailProperties
  <2> QED
    BY <2>1, <2>2
<1>2. /\ \A x : x \in Range(s) <=> \E i \in 1..Len(s) : s[i] = x
      /\ \A x : x \in Range(Tail(s)) <=> \E i \in 1..Len(Tail(s)) : Tail(s)[i] = x
  <2>1. Tail(s) \in Seq(S)
    BY <1>1
  <2>2. \A x : x \in Range(s) <=> \E i \in 1..Len(s) : s[i] = x
    BY InRange
  <2>3. \A x : x \in Range(Tail(s)) <=> \E i \in 1..Len(Tail(s)) : Tail(s)[i] = x
    BY ONLY <2>1, InRange
  <2> QED
    BY <2>2, <2>3
<1>3. Range(Tail(s)) \subseteq Range(s)
  BY <1>1, <1>2
<1>4. \A x : Once(s, x) => Once(Tail(s), x)
  <2> TAKE x
  <2> HAVE Once(s, x)
  <2> SUFFICES ASSUME NEW i \in 1..Len(Tail(s)), NEW j \in 1..Len(Tail(s)),
                      Tail(s)[i] = x, Tail(s)[j] = x
               PROVE  i = j
    BY DEF Once
  <2>1. s[i+1] = x /\ s[j+1] = x /\ i + 1 \in 1..Len(s) /\ j + 1 \in 1..Len(s)
    BY <1>1
  <2>2. i + 1 = j + 1
    BY <2>1 DEF Once
  <2> QED
    BY <2>2
<1>5. \A x, y : Before(Tail(s), x, y) => Before(s, x, y)
  <2> TAKE x, y
  <2> HAVE Before(Tail(s), x, y)
  <2>1. PICK i \in 1..Len(Tail(s)), j \in 1..Len(Tail(s)) :
          i < j /\ Tail(s)[i] = x /\ Tail(s)[j] = y
    BY DEF Before
  <2>2. /\ s[i+1] = x /\ s[j+1] = y /\ i + 1 \in 1..Len(s) /\ j + 1 \in 1..Len(s)
        /\ i + 1 < j + 1
    BY <1>1, <2>1
  <2> QED
    BY <2>2 DEF Before
<1>6. Once(s, Head(s)) => Head(s) \notin Range(Tail(s))
  <2> SUFFICES ASSUME Once(s, Head(s)), NEW i \in 1..Len(Tail(s)), Tail(s)[i] = Head(s)
               PROVE  FALSE
    BY <1>2
  <2>1. s[i+1] = Head(s) /\ i + 1 \in 1..Len(s) /\ i + 1 # 1 /\ s[1] = Head(s) /\ 1 \in 1..Len(s)
    BY <1>1
  <2> QED
    BY <2>1 DEF Once
<1> QED
  BY <1>1, <1>2, <1>3, <1>4, <1>5, <1>6 DEF Thinned

(* Append.                                                                 *)
LEMMA Appended ==
  ASSUME NEW S, NEW s \in Seq(S), NEW e \in S
  PROVE  /\ Append(s, e) \in Seq(S) /\ Range(Append(s, e)) = Range(s) \cup {e}
         /\ \A x : Once(s, x) /\ (x # e \/ e \notin Range(s)) => Once(Append(s, e), x)
         /\ \A x, y : y # e /\ Before(Append(s, e), x, y) => Before(s, x, y)
<1> DEFINE t == Append(s, e)  n == Len(s)
<1>1. /\ t \in Seq(S) /\ n \in Nat /\ Len(t) = n + 1
      /\ \A i \in 1..n : t[i] = s[i]
      /\ t[n + 1] = e
  BY AppendProperties, LenProperties
<1> HIDE DEF t
<1>2. /\ \A x : x \in Range(s) <=> \E i \in 1..n : s[i] = x
      /\ \A x : x \in Range(t) <=> \E i \in 1..(n + 1) : t[i] = x
  <2>1. \A x : x \in Range(s) <=> \E i \in 1..n : s[i] = x
    BY InRange
  <2>2. t \in Seq(S) /\ Len(t) = n + 1
    BY <1>1
  <2>3. \A x : x \in Range(t) <=> \E i \in 1..Len(t) : t[i] = x
    BY ONLY <2>2, InRange
  <2> QED
    BY <2>1, <2>2, <2>3
<1> HIDE DEF n
<1>3. \A i \in 1..(n + 1) : i # n + 1 => i \in 1..n
  BY <1>1
<1>4. 1..n \subseteq 1..(n + 1) /\ n + 1 \in 1..(n + 1)
  BY <1>1
<1>5. Range(t) = Range(s) \cup {e}
  BY <1>1, <1>2, <1>3, <1>4
<1>6. \A x : Once(s, x) /\ (x # e \/ e \notin Range(s)) => Once(t, x)
  <2> SUFFICES ASSUME NEW x, Once(s, x), x # e \/ e \notin Range(s),
                      NEW i \in 1..(n + 1), NEW j \in 1..(n + 1), t[i] = x, t[j] = x
               PROVE  i = j
    BY <1>1 DEF Once
  <2>1. CASE i = n + 1 \/ j = n + 1
    BY <2>1, <1>1, <1>2, <1>3
  <2>2. CASE i # n + 1 /\ j # n + 1
    BY <2>2, <1>1, <1>3 DEF Once, n
  <2> QED
    BY <2>1, <2>2
<1>7. \A x, y : y # e /\ Before(t, x, y) => Before(s, x, y)
  <2> SUFFICES ASSUME NEW x, NEW y, y # e,
                      NEW i \in 1..(n + 1), NEW j \in 1..(n + 1), i < j, t[i] = x, t[j] = y
               PROVE  Before(s, x, y)
    BY <1>1 DEF Before
  <2>1. j \in 1..n /\ i \in 1..n
    BY <1>1, <1>3
  <2>2. s[i] = x /\ s[j] = y
    BY <2>1, <1>1
  <2> QED
    BY <2>1, <2>2 DEF Before, n
<1> QED
  BY <1>1, <1>5, <1>6, <1>7 DEF t

(* A set of naturals that is not empty has a least element.                *)
LEMMA HasMin ==
  ASSUME NEW S, S \subseteq Nat, S # {}
  PROVE  Min(S) \in S
<1>1. IsWellFoundedOn(OpToRel(<, Nat), Nat)
  BY NatLessThanWellFounded, Zenon
<1>2. PICK x \in S : \A y \in S : ~(<<y, x>> \in OpToRel(<, Nat))
  BY <1>1, WFMin, Zenon
<1>3. \A y \in S : x <= y
  <2> TAKE y \in S
  <2>1. ~(<<y, x>> \in {ss \in Nat \X Nat : ss[1] < ss[2]})
    BY <1>2 DEF OpToRel
  <2>2. x \in Nat /\ y \in Nat
    OBVIOUS
  <2>3. <<y, x>> \in Nat \X Nat /\ <<y, x>>[1] = y /\ <<y, x>>[2] = x
    BY <2>2
  <2>4. ~(y < x)
    BY ONLY <2>1, <2>3
  <2> QED
    BY <2>2, <2>4
<1> QED
  BY <1>3 DEF Min

(* RemoveAt leaves out one position.                                       *)
LEMMA RemovedAt ==
  ASSUME NEW S, NEW s \in Seq(S), NEW k \in 1..Len(s)
  PROVE  /\ RemoveAt(s, k) \in Seq(S) /\ Len(RemoveAt(s, k)) = Len(s) - 1
         /\ \A i \in 1..(Len(s) - 1) :
              RemoveAt(s, k)[i] = IF i < k THEN s[i] ELSE s[i+1]
<1> DEFINE a == SubSeq(s, 1, k - 1)  b == SubSeq(s, k + 1, Len(s))
<1>1. /\ Len(s) \in Nat /\ k \in Nat /\ k >= 1 /\ k <= Len(s)
      /\ \A i \in 1..Len(s) : s[i] \in S
  BY LenProperties, ElementOfSeq
<1>2. /\ a \in Seq(S) /\ Len(a) = k - 1
      /\ \A i \in 1..(k - 1) : a[i] = s[i]
  <2>1. /\ a \in Seq(S) /\ Len(a) = IF 1 <= k - 1 THEN (k - 1) - 1 + 1 ELSE 0
        /\ \A i \in 1..((k - 1) - 1 + 1) : a[i] = s[1 + i - 1]
    <3>1. 1 \in Int /\ k - 1 \in Int /\ \A i \in 1..(k - 1) : s[i] \in S
      BY <1>1
    <3> QED
      BY <3>1, SubSeqProperties
  <2>2. (k - 1) - 1 + 1 = k - 1 /\ \A i \in 1..(k - 1) : 1 + i - 1 = i
    BY <1>1
  <2> HIDE DEF a
  <2> QED
    BY <1>1, <2>1, <2>2
<1>3. /\ b \in Seq(S) /\ Len(b) = Len(s) - k
      /\ \A i \in 1..(Len(s) - k) : b[i] = s[k + i]
  <2>1. /\ b \in Seq(S) /\ Len(b) = IF k + 1 <= Len(s) THEN Len(s) - (k + 1) + 1 ELSE 0
        /\ \A i \in 1..(Len(s) - (k + 1) + 1) : b[i] = s[(k + 1) + i - 1]
    <3>1. k + 1 \in Int /\ Len(s) \in Int /\ \A i \in (k + 1)..Len(s) : s[i] \in S
      BY <1>1
    <3> QED
      BY <3>1, SubSeqProperties
  <2>2. /\ Len(s) - (k + 1) + 1 = Len(s) - k
        /\ \A i \in 1..(Len(s) - k) : (k + 1) + i - 1 = k + i
    BY <1>1
  <2> HIDE DEF b
  <2>3. Len(s) \in Nat /\ k \in Nat /\ k <= Len(s)
    BY <1>1
  <2>4. Len(b) = Len(s) - k
    <3>1. CASE k + 1 <= Len(s)
      BY ONLY <2>1, <2>2, <3>1
    <3>2. CASE ~(k + 1 <= Len(s))
      <4>1. Len(s) - k = 0
        BY ONLY <2>3, <3>2
      <4> QED
        BY ONLY <2>1, <3>2, <4>1
    <3> QED
      BY <3>1, <3>2
  <2>5. \A i \in 1..(Len(s) - k) : b[i] = s[k + i]
    BY ONLY <2>1, <2>2, Zenon
  <2> QED
    BY <2>1, <2>4, <2>5
<1> HIDE DEF a, b
<1>4. /\ a \o b \in Seq(S) /\ Len(a \o b) = Len(a) + Len(b)
      /\ \A i \in 1..(Len(a) + Len(b)) :
           (a \o b)[i] = IF i <= Len(a) THEN a[i] ELSE b[i - Len(a)]
  BY <1>2, <1>3, ConcatProperties
<1>5. RemoveAt(s, k) = a \o b
  BY DEF RemoveAt, a, b
<1>6. Len(a) + Len(b) = Len(s) - 1
  BY <1>1, <1>2, <1>3
<1>7. \A i \in 1..(Len(s) - 1) : (a \o b)[i] = IF i < k THEN s[i] ELSE s[i+1]
  <2> TAKE i \in 1..(Len(s) - 1)
  <2>1. (a \o b)[i] = IF i <= k - 1 THEN a[i] ELSE b[i - (k - 1)]
    BY <1>2, <1>4, <1>6
  <2>2. CASE i < k
    BY <2>1, <2>2, <1>1, <1>2
  <2>3. CASE ~(i < k)
    <3>1. /\ i - (k - 1) \in 1..(Len(s) - k) /\ k + (i - (k - 1)) = i + 1 /\ ~(i <= k - 1)
      BY <2>3, <1>1
    <3>2. b[i - (k - 1)] = s[k + (i - (k - 1))]
      BY <3>1, <1>3
    <3> QED
      BY <2>1, <2>3, <3>1, <3>2
  <2> QED
    BY <2>2, <2>3
<1> QED
  BY <1>4, <1>5, <1>6, <1>7

(* RemoveFirst, of something that is there once at most.                   *)
LEMMA RemoveThinned ==
  ASSUME NEW S, NEW s \in Seq(S), NEW e, Once(s, e)
  PROVE  /\ RemoveFirst(s, e) \in Seq(S) /\ Thinned(RemoveFirst(s, e), s)
         /\ e \notin Range(RemoveFirst(s, e))
<1>0. /\ \A x : x \in Range(s) <=> \E i \in 1..Len(s) : s[i] = x
      /\ Len(s) \in Nat
  BY InRange
<1>1. CASE ~\E i \in 1..Len(s) : s[i] = e
  <2>1. RemoveFirst(s, e) = s
    BY <1>1 DEF RemoveFirst
  <2> QED
    BY <1>0, <1>1, <2>1 DEF Thinned
<1>2. CASE \E i \in 1..Len(s) : s[i] = e
  <2>1. PICK k \in 1..Len(s) : s[k] = e
    BY <1>2
  <2>2. \A i \in 1..Len(s) : s[i] = e => i = k
    BY <2>1 DEF Once
  <2>3. {i \in 1..Len(s) : s[i] = e} = {k}
    BY <2>1, <2>2
  <2>4. Min({k}) = k
    <3>1. {k} \subseteq Nat /\ {k} # {}
      BY <1>0
    <3>2. Min({k}) \in {k}
      BY ONLY <3>1, HasMin
    <3> QED
      BY <3>2
  <2>5. SelectInSeq(s, LAMBDA v : v = e) = k
    BY <2>3, <2>4 DEF SelectInSeq
  <2> DEFINE t == RemoveFirst(s, e)
  <2>6. t = RemoveAt(s, k)
    BY <1>2, <2>5 DEF RemoveFirst
  <2> HIDE DEF t
  <2>7. /\ t \in Seq(S) /\ Len(t) = Len(s) - 1
        /\ \A i \in 1..Len(t) : t[i] = IF i < k THEN s[i] ELSE s[i+1]
    BY <2>6, RemovedAt
  <2>8. \A x : x \in Range(t) <=> \E i \in 1..Len(t) : t[i] = x
    <3>1. t \in Seq(S)
      BY <2>7
    <3> QED
      BY ONLY <3>1, InRange
  <2> DEFINE At(i) == IF i < k THEN i ELSE i + 1
  <2>9. /\ \A i \in 1..Len(t) : t[i] = s[At(i)]
        /\ \A i \in 1..Len(t) : At(i) \in 1..Len(s) /\ At(i) # k
    BY <1>0, <2>7
  <2>10. \A i, j \in 1..Len(t) : /\ At(i) = At(j) => i = j
                                 /\ i < j => At(i) < At(j)
    BY <1>0, <2>7
  <2> HIDE DEF At
  <2>11. Range(t) \subseteq Range(s) /\ e \notin Range(t)
    BY <1>0, <2>2, <2>8, <2>9
  <2>12. \A x : Once(s, x) => Once(t, x)
    BY <2>9, <2>10 DEF Once
  <2>13. \A x, y : Before(t, x, y) => Before(s, x, y)
    BY <2>9, <2>10 DEF Before
  <2> QED
    BY <2>7, <2>11, <2>12, <2>13 DEF Thinned, t
<1> QED
  BY <1>1, <1>2

(* Descriptors are numbers, and NoFd is none of them.                      *)
LEMMA FdFacts == Fds \subseteq Nat /\ NoFd \notin Fds
  BY FdsAssumption, FS_CardinalityType DEF NoFd

(* A Connector that is not there, and a new one.                           *)
LEMMA ConnectorFacts ==
  /\ NoConnector.fd = NoFd /\ ~NoConnector.connected_ /\ ~NoConnector.pooling
  /\ NoConnector \in [fd : {NoFd}, connected_ : BOOLEAN, pooling : BOOLEAN]
  /\ \A n : LET k == [NoConnector EXCEPT !.fd = n] IN
       /\ k.fd = n /\ ~k.connected_ /\ ~k.pooling
       /\ k \in [fd : {n}, connected_ : BOOLEAN, pooling : BOOLEAN]
<1>1. NoConnector.fd = NoFd
  BY DEF NoConnector
<1>2. ~NoConnector.connected_ /\ ~NoConnector.pooling
  BY Zenon DEF NoConnector
<1>3. NoConnector \in [fd : {NoFd}, connected_ : BOOLEAN, pooling : BOOLEAN]
  BY DEF NoConnector
<1>4. ASSUME NEW n
      PROVE  LET k == [NoConnector EXCEPT !.fd = n] IN
             /\ k.fd = n /\ ~k.connected_ /\ ~k.pooling
             /\ k \in [fd : {n}, connected_ : BOOLEAN, pooling : BOOLEAN]
  BY <1>2, <1>3
<1> QED
  BY <1>1, <1>2, <1>3, <1>4

(* There is a descriptor for each client, whatever the others have.        *)
LEMMA SpareFd ==
  ASSUME NEW c \in Clients
  PROVE  \E fd \in Fds : \A d \in Clients \ {c} : SockOf(d) # fd
<1> SUFFICES ASSUME \A fd \in Fds : \E d \in Clients \ {c} : SockOf(d) = fd
             PROVE  FALSE
  OBVIOUS
<1> DEFINE Others == Clients \ {c}
           f == [fd \in Fds |-> CHOOSE d \in Others : SockOf(d) = fd]
<1>1. /\ IsFiniteSet(Others) /\ Cardinality(Others) = Cardinality(Clients) - 1
      /\ IsFiniteSet(Clients)
  BY EnoughFdsAssumption, FS_RemoveElement
<1>2. Cardinality(Clients) \in Nat /\ Cardinality(Fds) \in Nat
  BY EnoughFdsAssumption, FdsAssumption, FS_CardinalityType
<1>3. Cardinality(Others) < Cardinality(Fds)
  BY <1>1, <1>2, EnoughFdsAssumption
<1>4. f \in [Fds -> Others] /\ \A fd \in Fds : SockOf(f[fd]) = fd
  OBVIOUS
<1> HIDE DEF f, Others
<1>5. \E x, y \in Fds : x # y /\ f[x] = f[y]
  BY <1>1, <1>3, <1>4, FdsAssumption, FS_PigeonHole
<1> QED
  BY <1>4, <1>5

(* socket() finds a free descriptor when all but those of the other        *)
(* clients are free.                                                       *)
LEMMA SocketIsFree ==
  ASSUME NEW c \in Clients, NEW s,
         \A fd \in Fds : (\A d \in Clients \ {c} : SockOf(d) # fd) => s[fd] = "free"
  PROVE  Socket(s) \in Fds /\ s[Socket(s)] = "free"
<1> DEFINE F == {fd \in Fds : s[fd] = "free"}
<1>1. F \subseteq Nat /\ F # {}
  BY SpareFd, FdFacts
<1>2. Min(F) \in F
  BY ONLY <1>1, HasMin
<1> QED
  BY <1>2 DEF Socket

-----------------------------------------------------------------------------
(* A step of one client.                                                   *)

(* It leaves the other clients and their sockets alone,                    *)
OthersKept(c) ==
  \A d \in Clients \ {c} :
    /\ client'[d] = client[d] /\ connector_'[d] = connector_[d]
    /\ connection_'[d] = connection_[d] /\ connected_'[d] = connected_[d]
    /\ SockOf(d) # NoFd => sock'[SockOf(d)] = sock[SockOf(d)]

(* ... makes none of their channels ready,                                 *)
ActiveKept(c) ==
  \A d \in Clients \ {c} :
    /\ Active(ConnectorChannel(d))' => Active(ConnectorChannel(d))
    /\ Active(ConnectionChannel(d))' => Active(ConnectionChannel(d))

(* ... and the open sockets are theirs and the one the client has then.    *)
OwnStep(c) ==
  /\ SockOf(c)' = NoFd \/ \A d \in Clients \ {c} : SockOf(d) # SockOf(c)'
  /\ \A fd \in Fds :
       sock'[fd] = "free" <=> fd # SockOf(c)' /\ \A d \in Clients \ {c} : SockOf(d) # fd

(* Such a step preserves the invariant if it does for its own client.      *)
LEMMA StepKeeps ==
  ASSUME IInv, NEW c \in Clients, OthersKept(c), ActiveKept(c), OwnStep(c),
         Types', BatchInv', ListInv', ClientOK(c)', ActiveLive(c)'
  PROVE  IInv'
<1>1. \A d \in Clients \ {c} : SockOf(d)' = SockOf(d)
  BY DEF OthersKept, SockOf
<1>2. OwnInv'
  <2>1. \A d, e \in Clients : SockOf(d)' = SockOf(e)' /\ SockOf(d)' # NoFd => d = e
    <3> SUFFICES ASSUME NEW d \in Clients, NEW e \in Clients, SockOf(d)' = SockOf(e)',
                        SockOf(d)' # NoFd
                 PROVE  d = e
      OBVIOUS
    <3>1. CASE d # c /\ e # c
      BY <3>1, <1>1 DEF IInv, OwnInv
    <3>2. CASE d = c \/ e = c
      BY <3>2, <1>1 DEF OwnStep
    <3> QED
      BY <3>1, <3>2
  <2>2. \A fd \in Fds : sock'[fd] = "free" <=> \A d \in Clients : SockOf(d)' # fd
    BY <1>1 DEF OwnStep
  <2> QED
    BY <2>1, <2>2 DEF OwnInv
<1>3. ASSUME NEW d \in Clients \ {c}
      PROVE  ClientOK(d)'
  BY <1>3 DEF IInv, ClientOK, OthersKept
<1>4. ASSUME NEW d \in Clients \ {c}
      PROVE  ActiveLive(d)'
  <2>1. ASSUME Active(ConnectorChannel(d))'
        PROVE  /\ connector_'[d].pooling
               /\ sock'[connector_'[d].fd] \in {"established", "refused", "closed", "reset"}
    <3>1. Active(ConnectorChannel(d))
      BY <2>1 DEF ActiveKept
    <3>2. connector_[d].pooling /\ SockOf(d) = connector_[d].fd /\ SockOf(d) # NoFd
      BY <3>1 DEF IInv, ActiveLive, ClientOK, SockOf
    <3> QED
      BY <3>1, <3>2 DEF IInv, ActiveLive, OthersKept
  <2>2. ASSUME Active(ConnectionChannel(d))'
        PROVE  connection_'[d] # NoFd /\ sock'[connection_'[d]] \in {"closed", "reset"}
    <3>1. Active(ConnectionChannel(d))
      BY <2>2 DEF ActiveKept
    <3>2. connection_[d] # NoFd /\ SockOf(d) = connection_[d]
      BY <3>1 DEF IInv, ActiveLive, ClientOK, SockOf
    <3> QED
      BY <3>1, <3>2 DEF IInv, ActiveLive, OthersKept
  <2> QED
    BY <2>1, <2>2 DEF ActiveLive
<1> QED
  BY <1>2, <1>3, <1>4 DEF IInv

(* What a client has is a descriptor or NoFd, and nobody else's.           *)
LEMMA SockFacts ==
  ASSUME IInv, NEW c \in Clients
  PROVE  /\ SockOf(c) \in Fds \cup {NoFd}
         /\ SockOf(c) # NoFd => /\ sock[SockOf(c)] # "free"
                                /\ \A d \in Clients \ {c} : SockOf(d) # SockOf(c)
         /\ connection_[c] # NoFd => SockOf(c) = connection_[c]
         /\ connector_[c].pooling => SockOf(c) = connector_[c].fd /\ SockOf(c) # NoFd
         /\ \A fd \in Fds : sock[fd] = "free" => SockOf(c) # fd
<1>1. SockOf(c) \in Fds \cup {NoFd}
  BY DEF IInv, Types, TypeOK, SockOf
<1>2. connection_[c] # NoFd => SockOf(c) = connection_[c]
  BY DEF IInv, ClientOK, SockOf
<1>3. connector_[c].pooling => SockOf(c) = connector_[c].fd /\ SockOf(c) # NoFd
  BY DEF IInv, ClientOK, SockOf
<1> QED
  BY <1>1, <1>2, <1>3 DEF IInv, OwnInv

(* The client keeps its socket, and no socket is opened or closed.         *)
LEMMA OwnSame ==
  ASSUME IInv, NEW c \in Clients, SockOf(c)' = SockOf(c),
         \A fd \in Fds : sock'[fd] = "free" <=> sock[fd] = "free"
  PROVE  OwnStep(c)
<1>1. SockOf(c) = NoFd \/ \A d \in Clients \ {c} : SockOf(d) # SockOf(c)
  BY SockFacts
<1>2. \A fd \in Fds :
        sock[fd] = "free" <=> fd # SockOf(c) /\ \A d \in Clients \ {c} : SockOf(d) # fd
  BY DEF IInv, OwnInv
<1> QED
  BY <1>1, <1>2 DEF OwnStep

(* Only the socket of the client changes.                                  *)
LEMMA SockStep ==
  ASSUME IInv, NEW c \in Clients, SockOf(c) # NoFd, NEW v,
         sock' = [sock EXCEPT ![SockOf(c)] = v]
  PROVE  /\ \A d \in Clients \ {c} : SockOf(d) # NoFd => sock'[SockOf(d)] = sock[SockOf(d)]
         /\ sock'[SockOf(c)] = v
         /\ v # "free" => \A fd \in Fds : sock'[fd] = "free" <=> sock[fd] = "free"
         /\ v \in SocketStates => sock' \in [Fds -> SocketStates]
<1>1. /\ SockOf(c) \in Fds /\ sock[SockOf(c)] # "free"
      /\ \A d \in Clients \ {c} : SockOf(d) # SockOf(c)
      /\ \A d \in Clients : SockOf(d) \in Fds \cup {NoFd}
  BY SockFacts
<1>2. sock \in [Fds -> SocketStates]
  BY DEF IInv, Types, TypeOK, SocketStates
<1> QED
  BY <1>1, <1>2

(* Shrinking lists.                                                        *)
LEMMA ListsShrink ==
  ASSUME IInv, Thinned(batch', batch) \/ batch' = batch,
         Thinned(ready', ready) \/ ready' = ready
  PROVE  /\ ListInv' /\ \A x : Active(x)' => Active(x)
<1>1. /\ Range(batch') \subseteq Range(batch) /\ \A x : Once(batch, x) => Once(batch', x)
      /\ Range(ready') \subseteq Range(ready) /\ \A x : Once(ready, x) => Once(ready', x)
  BY DEF Thinned
<1>2. ListInv
  BY DEF IInv
<1>3. ListInv'
  BY <1>1, <1>2 DEF ListInv
<1> QED
  BY <1>1, <1>3 DEF Active

(* One more channel is ready.                                              *)
LEMMA ListsGrow ==
  ASSUME IInv, NEW e \in Channels, ~Active(e), batch' = batch, ready' = Append(ready, e)
  PROVE  /\ ready' \in Seq(Channels) /\ ListInv' /\ \A x : Active(x)' => Active(x) \/ x = e
<1>1. ready \in Seq(Channels) /\ e \notin Range(ready) /\ e \notin Range(batch) /\ ListInv
  BY DEF IInv, Types, Active
<1>2. /\ ready' \in Seq(Channels) /\ Range(ready') = Range(ready) \cup {e}
      /\ \A x : Once(ready, x) => Once(ready', x)
  BY <1>1, Appended
<1>3. ListInv'
  BY <1>1, <1>2 DEF ListInv
<1> QED
  BY <1>2, <1>3 DEF Active

-----------------------------------------------------------------------------
(* Every action preserves the invariant.                                   *)

(* Initially there is no client.                                           *)
LEMMA InitIInv == Init => IInv
<1> SUFFICES ASSUME Init PROVE IInv
  OBVIOUS
<1>1. \A S : <<>> \in Seq(S)
  BY EmptySeq
<1>2. Range(<<>>) = {} /\ Len(<<>>) = 0
  BY DEF Range
<1>3. Types
  BY <1>1 DEF Init, Types, TypeOK, NoConnector, NoFd
<1>4. BatchInv
  BY DEF Init, BatchInv
<1>5. \A c \in Clients : SockOf(c) = NoFd
  BY DEF Init, SockOf, NoConnector
<1>6. OwnInv
  BY <1>5, FdFacts DEF Init, OwnInv
<1>7. ListInv
  BY <1>2 DEF Init, ListInv, Once
<1>8. \A c \in Clients : ClientOK(c)
  BY DEF Init, ClientOK, NoConnector
<1>9. \A c \in Clients : ActiveLive(c)
  BY <1>2 DEF Init, ActiveLive, Active
<1> QED
  BY <1>3, <1>4, <1>6, <1>7, <1>8, <1>9 DEF IInv

(* Steps that leave clients, sockets and lists as they are.                *)
LEMMA SameKeeps ==
  ASSUME IInv, UNCHANGED <<client, connector_, connection_, connected_, sock, ready, batch>>,
         TypeOK'
  PROVE  IInv'
  BY DEF IInv, Types, BatchInv, OwnInv, SockOf, ListInv, ClientOK, ActiveLive, Active

(* The steps of disconnect() in another thread before the loop's turn.     *)
LEMMA ThreadKeeps ==
  ASSUME IInv, NEW c \in Clients, ThreadDisconnect(c) \/ ThreadQueue(c)
  PROVE  IInv'
<1>1. TypeOK'
  BY DEF IInv, Types, TypeOK, ThreadDisconnect, ThreadQueue, clientVars, timerVars
<1>2. UNCHANGED <<client, connector_, connection_, connected_, sock, ready, batch>>
  BY DEF ThreadDisconnect, ThreadQueue, clientVars, timerVars
<1> QED
  BY <1>1, <1>2, SameKeeps

(* The ready list becomes the batch.                                       *)
LEMMA PollKeeps ==
  ASSUME IInv, Poll
  PROVE  IInv'
<1>1. /\ batch' = ready /\ ready' = <<>> /\ batch = <<>>
      /\ \A c \in Clients : client[c] # "starting"
      /\ UNCHANGED <<client, connector_, connected_, connection_, retryTimer_, timers, due,
                     sock, thread>>
  BY DEF Poll, Idle, clientVars, timerVars
<1>2. Range(<<>>) = {} /\ Len(<<>>) = 0
  BY DEF Range
<1>3. Types'
  <2>1. ready' \in Seq(Channels)
    BY <1>1, EmptySeq
  <2>2. batch' \in Seq(Entries)
    BY <1>1, Kinds, SeqMonotonic DEF IInv, Types
  <2> QED
    BY <1>1, <2>1, <2>2 DEF IInv, Types, TypeOK
<1>4. ListInv' /\ \A x : Active(x)' => Active(x)
  BY <1>1, <1>2 DEF IInv, ListInv, Active, Once
<1>5. BatchInv' /\ OwnInv'
  BY <1>1 DEF IInv, BatchInv, OwnInv, SockOf
<1>6. \A c \in Clients : ClientOK(c)'
  BY <1>1 DEF IInv, ClientOK
<1>7. \A c \in Clients : ActiveLive(c)'
  BY <1>1, <1>4 DEF IInv, ActiveLive
<1> QED
  BY <1>3, <1>4, <1>5, <1>6, <1>7 DEF IInv

(* What getExpired() returns is a sequence of the clients that are due.    *)
LEMMA ExpiredList ==
  ASSUME IInv, NEW order \in SetToSeqs({Expired(c) : c \in due})
  PROVE  order \in Seq({Expired(c) : c \in due}) /\ \A x : Once(order, x)
<1> DEFINE E == {Expired(c) : c \in due}
<1>1. due \in SUBSET Clients /\ IsFiniteSet(Clients)
  BY EnoughFdsAssumption DEF IInv, Types, TypeOK
<1>2. IsFiniteSet(due)
  BY ONLY <1>1, FS_Subset
<1>3. [c \in due |-> Expired(c)] \in Surjection(due, E)
  BY DEF Surjection
<1>4. IsFiniteSet(E)
  BY ONLY <1>2, <1>3, FS_Surjection
<1>5. Cardinality(E) \in Nat
  BY <1>4, FS_CardinalityType
<1>6. /\ order \in [1..Cardinality(E) -> E]
      /\ \A i, j \in 1..Cardinality(E) : i # j => order[i] # order[j]
  BY DEF SetToSeqs
<1> HIDE DEF E
<1>7. order \in Seq(E)
  BY <1>5, <1>6, SeqDef
<1>8. Len(order) = Cardinality(E)
  BY <1>5, <1>6, <1>7, LenProperties
<1>9. \A x : Once(order, x)
  BY <1>6, <1>8 DEF Once
<1> QED
  BY <1>7, <1>9 DEF E

(* A concatenation, of whose first part x is no element.                   *)
LEMMA OnceConcat ==
  ASSUME NEW S, NEW s \in Seq(S), NEW t \in Seq(S), NEW x, x \notin Range(s), Once(t, x)
  PROVE  Once(s \o t, x)
<1>1. /\ Len(s) \in Nat /\ Len(t) \in Nat
      /\ \A i \in 1..Len(s) : s[i] # x
  BY InRange, LenProperties
<1>2. /\ Len(s \o t) = Len(s) + Len(t)
      /\ \A i \in 1..(Len(s) + Len(t)) :
           (s \o t)[i] = IF i <= Len(s) THEN s[i] ELSE t[i - Len(s)]
  BY ConcatProperties
<1> SUFFICES ASSUME NEW i \in 1..(Len(s) + Len(t)), NEW j \in 1..(Len(s) + Len(t)),
                    (s \o t)[i] = x, (s \o t)[j] = x
             PROVE  i = j
  BY <1>2 DEF Once
<1>3. ~(i <= Len(s)) /\ ~(j <= Len(s))
  BY <1>1, <1>2
<1>4. i - Len(s) \in 1..Len(t) /\ j - Len(s) \in 1..Len(t)
  BY <1>1, <1>3
<1>5. t[i - Len(s)] = x /\ t[j - Len(s)] = x
  BY <1>2, <1>3
<1>6. i - Len(s) = j - Len(s)
  BY <1>4, <1>5 DEF Once
<1> QED
  BY <1>1, <1>6

(* The batch when the expired timers take the place of their channel.      *)
LEMMA TimersBatch ==
  ASSUME IInv, HandleTimers
  PROVE  /\ \E order \in Seq(Entries) :
              /\ batch' = order \o Tail(batch)
              /\ Range(order) \subseteq {Expired(c) : c \in due}
              /\ Range(batch') = Range(order) \cup Range(Tail(batch))
              /\ \A x : Once(order, x)
         /\ batch' \in Seq(Entries) /\ Tail(batch) \in Seq(Entries)
         /\ Thinned(Tail(batch), batch)
<1> DEFINE E == {Expired(c) : c \in due}
<1>1. PICK order \in SetToSeqs(E) : batch' = order \o Tail(batch)
  BY DEF HandleTimers
<1>2. batch # <<>> /\ batch \in Seq(Entries) /\ due \subseteq Clients
  BY DEF HandleTimers, IInv, Types, TypeOK
<1>3. order \in Seq(E) /\ \A x : Once(order, x)
  BY <1>1, ExpiredList
<1>4. E \subseteq Entries
  BY <1>2, Kinds
<1> HIDE DEF E
<1>5. order \in Seq(Entries)
  BY ONLY <1>3, <1>4, SeqMonotonic
<1>6. Range(order) \subseteq E
  BY ONLY <1>3, InRange
<1>7. Tail(batch) \in Seq(Entries) /\ Thinned(Tail(batch), batch)
  BY <1>2, TailThinned
<1>8. order \o Tail(batch) \in Seq(Entries)
  BY ONLY <1>5, <1>7, ConcatProperties
<1>9. Range(order \o Tail(batch)) = Range(order) \cup Range(Tail(batch))
  <2> DEFINE u == Tail(batch)
  <2>1. u \in Seq(Entries)
    BY <1>7
  <2> HIDE DEF u
  <2>2. Range(order \o u) = Range(order) \cup Range(u)
    BY ONLY <1>5, <2>1, RangeConcatenation
  <2> QED
    BY <2>2 DEF u
<1> QED
  BY <1>1, <1>3, <1>5, <1>6, <1>7, <1>8, <1>9 DEF E

(* The expired timers take the place of the timers' channel.               *)
LEMMA HandleTimersKeeps ==
  ASSUME IInv, HandleTimers
  PROVE  IInv'
<1> DEFINE E == {Expired(c) : c \in due}
<1>1. PICK order \in Seq(Entries) :
        /\ batch' = order \o Tail(batch)
        /\ Range(order) \subseteq E
        /\ Range(batch') = Range(order) \cup Range(Tail(batch))
  BY TimersBatch
<1>2. /\ batch # <<>> /\ due' = {} /\ batch \in Seq(Entries) /\ due \subseteq Clients
      /\ UNCHANGED <<client, connector_, connected_, connection_, retryTimer_, timers,
                     sock, ready, thread>>
  BY DEF HandleTimers, IInv, Types, TypeOK
<1>3. E \cap Channels = {}
  BY <1>2, Kinds
<1> HIDE DEF E
<1>4. /\ batch' \in Seq(Entries) /\ Tail(batch) \in Seq(Entries)
      /\ Thinned(Tail(batch), batch)
  BY TimersBatch
<1>5. Types'
  BY <1>2, <1>4 DEF IInv, Types, TypeOK
<1>6. \A x \in Channels : x \in Range(batch') => x \in Range(batch)
  BY <1>1, <1>3, <1>4 DEF Thinned
<1>7. ListInv'
  <2> SUFFICES ASSUME NEW x \in Channels
               PROVE  Once(batch', x) /\ Once(ready', x) /\ (x \in Range(batch') => x \notin Range(ready'))
    BY DEF ListInv
  <2>1. Once(batch, x) /\ Once(ready, x) /\ (x \in Range(batch) => x \notin Range(ready))
    BY DEF IInv, ListInv
  <2>2. Once(Tail(batch), x) /\ x \notin Range(order)
    BY <2>1, <1>1, <1>3, <1>4 DEF Thinned
  <2>3. Once(batch', x)
    BY <2>2, <1>1, <1>4, OnceConcat
  <2> QED
    BY <2>1, <2>3, <1>2, <1>6
<1>8. BatchInv' /\ OwnInv'
  BY <1>2 DEF IInv, BatchInv, OwnInv, SockOf
<1>9. \A c \in Clients : ClientOK(c)'
  BY <1>2 DEF IInv, ClientOK
<1>10. \A c \in Clients : ActiveLive(c)'
  BY <1>2, <1>6, Kinds DEF IInv, ActiveLive, Active
<1> QED
  BY <1>5, <1>7, <1>8, <1>9, <1>10 DEF IInv

(* start() is over.                                                        *)
LEMMA StartTimerKeeps ==
  ASSUME IInv, NEW c \in Clients, StartTimer(c)
  PROVE  IInv'
<1>1. /\ client[c] = "starting" /\ client' = [client EXCEPT ![c] = "started"]
      /\ timers' = timers \cup {c} /\ retryTimer_' = [retryTimer_ EXCEPT ![c] = TRUE]
      /\ UNCHANGED <<connector_, connected_, connection_, due, sock, ready, batch, thread>>
  BY DEF StartTimer
<1>2. Types'
  BY <1>1 DEF IInv, Types, TypeOK
<1>3. \A d \in Clients : client'[d] = IF d = c THEN "started" ELSE client[d]
  BY <1>1 DEF IInv, Types, TypeOK
<1>4. BatchInv' /\ OwnInv' /\ ListInv'
  BY <1>1, <1>3 DEF IInv, BatchInv, OwnInv, SockOf, ListInv
<1>5. \A d \in Clients : ClientOK(d)'
  BY <1>1, <1>3 DEF IInv, ClientOK
<1>6. \A d \in Clients : ActiveLive(d)'
  BY <1>1 DEF IInv, ActiveLive, Active
<1> QED
  BY <1>2, <1>4, <1>5, <1>6 DEF IInv

(* A timer is due, and the timerfd readable.                               *)
LEMMA TimerExpiresKeeps ==
  ASSUME IInv, NEW c \in Clients, TimerExpires(c)
  PROVE  IInv'
<1>1. /\ c \in timers /\ due' = due \cup {c}
      /\ ready' = IF TimerChannel \in Range(ready \o batch) THEN ready
                  ELSE Append(ready, TimerChannel)
      /\ UNCHANGED <<client, connector_, connected_, connection_, retryTimer_, timers,
                     sock, batch, thread>>
  BY DEF TimerExpires
<1>2. TypeOK'
  BY <1>1 DEF IInv, Types, TypeOK
<1>3. CASE TimerChannel \in Range(ready \o batch)
  BY <1>1, <1>2, <1>3, SameKeeps
<1>4. CASE TimerChannel \notin Range(ready \o batch)
  <2>1. ~Active(TimerChannel)
    <3>1. ready \in Seq(Entries) /\ batch \in Seq(Entries)
      BY Kinds, SeqMonotonic DEF IInv, Types
    <3>2. Range(ready \o batch) = Range(ready) \cup Range(batch)
      BY ONLY <3>1, RangeConcatenation
    <3> QED
      BY <1>4, <3>2 DEF Active
  <2>2. ready' = Append(ready, TimerChannel)
    BY <1>1, <1>4
  <2>3. ready' \in Seq(Channels) /\ ListInv' /\ \A x : Active(x)' => Active(x) \/ x = TimerChannel
    BY <2>1, <2>2, <1>1, Kinds, ListsGrow
  <2>4. Types'
    BY <1>1, <1>2, <2>3 DEF IInv, Types
  <2>5. BatchInv' /\ OwnInv'
    BY <1>1 DEF IInv, BatchInv, OwnInv, SockOf
  <2>6. \A d \in Clients : ClientOK(d)'
    BY <1>1 DEF IInv, ClientOK
  <2>7. \A d \in Clients : ActiveLive(d)'
    BY <1>1, <2>3, Tags DEF IInv, ActiveLive
  <2> QED
    BY <2>3, <2>4, <2>5, <2>6, <2>7 DEF IInv
<1> QED
  BY <1>3, <1>4

(* The socket of a client changes its state, and nothing else but the      *)
(* ready list and another thread.                                          *)
LEMMA SocketChanges ==
  ASSUME IInv, NEW c \in Clients, SockOf(c) # NoFd, NEW v \in SocketStates \ {"free"},
         sock' = [sock EXCEPT ![SockOf(c)] = v],
         UNCHANGED <<client, connector_, clientVars, batch>>,
         thread' \in [Clients -> {"idle", "checked", "queued", "stale"}],
         ready' \in Seq(Channels), ListInv', ActiveKept(c), ActiveLive(c)'
  PROVE  IInv' /\ OthersKept(c)
<1>1. UNCHANGED <<client, connector_, connected_, connection_, retryTimer_, timers, due, batch>>
  BY DEF clientVars, timerVars
<1>2. /\ \A d \in Clients \ {c} : SockOf(d) # NoFd => sock'[SockOf(d)] = sock[SockOf(d)]
      /\ \A fd \in Fds : sock'[fd] = "free" <=> sock[fd] = "free"
      /\ sock' \in [Fds -> SocketStates]
  BY SockStep
<1>3. OthersKept(c)
  BY <1>1, <1>2 DEF OthersKept
<1>4. SockOf(c)' = SockOf(c)
  BY <1>1 DEF SockOf
<1>5. OwnStep(c)
  BY <1>2, <1>4, OwnSame
<1>6. Types'
  BY <1>1, <1>2 DEF IInv, Types, TypeOK, SocketStates
<1>7. BatchInv' /\ ClientOK(c)'
  BY <1>1 DEF IInv, BatchInv, ClientOK
<1> QED
  BY <1>3, <1>5, <1>6, <1>7, StepKeeps

(* TcpConnection::shutdown.                                                *)
LEMMA ShutdownKeeps ==
  ASSUME IInv, NEW c \in Clients, connection_[c] # NoFd, Shutdown(c),
         UNCHANGED <<client, connector_, clientVars, ready, batch>>,
         thread' \in [Clients -> {"idle", "checked", "queued", "stale"}]
  PROVE  IInv' /\ OthersKept(c)
<1>1. SockOf(c) = connection_[c] /\ SockOf(c) \in Fds /\ sock[SockOf(c)] # "free"
  BY SockFacts
<1> DEFINE v == IF sock[SockOf(c)] = "established" THEN "half" ELSE sock[SockOf(c)]
<1>2. sock' = [sock EXCEPT ![SockOf(c)] = v]
  BY <1>1 DEF Shutdown
<1>3. v \in SocketStates \ {"free"}
  BY <1>1 DEF IInv, Types, TypeOK, SocketStates
<1>4. ready' \in Seq(Channels) /\ ListInv' /\ \A x : Active(x)' <=> Active(x)
  BY DEF IInv, Types, ListInv, Active
<1>5. ActiveKept(c)
  BY <1>4 DEF ActiveKept
<1>6. sock'[SockOf(c)] = v
  BY <1>1, <1>2, SockStep
<1>7. connector_' = connector_ /\ connection_' = connection_
  BY DEF clientVars
<1>8. ActiveLive(c)'
  <2>1. connector_[c].connected_ /\ ~connector_[c].pooling
    BY DEF IInv, ClientOK
  <2>2. ActiveLive(c)
    BY DEF IInv
  <2> QED
    BY <1>1, <1>4, <1>6, <1>7, <2>1, <2>2 DEF ActiveLive
<1> HIDE DEF v
<1> QED
  BY <1>1, <1>2, <1>3, <1>4, <1>5, <1>8, FdFacts, SocketChanges

(* disconnect() in the loop thread, called there or queued.                *)
LEMMA DisconnectKeeps ==
  ASSUME IInv, NEW c \in Clients, Disconnect(c) \/ RunTask(c)
  PROVE  IInv'
<1>1. thread' \in [Clients -> {"idle", "checked", "queued", "stale"}]
  BY DEF IInv, Types, TypeOK, Disconnect, RunTask
<1>2. UNCHANGED <<client, connector_, clientVars, ready, batch>>
  BY DEF Disconnect, RunTask
<1>3. CASE connection_[c] # NoFd /\ Shutdown(c)
  BY <1>1, <1>2, <1>3, ShutdownKeeps
<1>4. CASE sock' = sock
  <2>1. TypeOK'
    BY <1>1, <1>2, <1>4 DEF IInv, Types, TypeOK, clientVars, timerVars
  <2> QED
    BY <1>2, <1>4, <2>1, SameKeeps DEF clientVars
<1>5. (connection_[c] # NoFd /\ Shutdown(c)) \/ sock' = sock
  BY DEF Disconnect, RunTask
<1> QED
  BY <1>3, <1>4, <1>5

(* The attempt is answered.                                                *)
LEMMA AnswerKeeps ==
  ASSUME IInv, NEW c \in Clients, NEW state \in {"established", "refused"}, Answer(c, state)
  PROVE  IInv' /\ OthersKept(c)
<1>1. /\ connector_[c].pooling /\ sock[connector_[c].fd] = "connecting"
      /\ sock' = [sock EXCEPT ![connector_[c].fd] = state]
      /\ ready' = Append(ready, ConnectorChannel(c))
      /\ UNCHANGED <<client, connector_, clientVars, batch, thread>>
  BY DEF Answer
<1>2. SockOf(c) = connector_[c].fd /\ SockOf(c) # NoFd
  BY <1>1, SockFacts
<1>3. ~Active(ConnectorChannel(c))
  BY <1>1 DEF IInv, ActiveLive
<1>4. /\ ready' \in Seq(Channels) /\ ListInv'
      /\ \A x : Active(x)' => Active(x) \/ x = ConnectorChannel(c)
  BY <1>1, <1>3, Kinds, ListsGrow
<1>5. ActiveKept(c)
  BY <1>4, Tags DEF ActiveKept
<1>6. state \in SocketStates \ {"free"} /\ thread' \in [Clients -> {"idle", "checked", "queued", "stale"}]
  BY <1>1 DEF IInv, Types, TypeOK, SocketStates
<1>7. sock'[SockOf(c)] = state
  <2>1. sock' = [sock EXCEPT ![SockOf(c)] = state]
    BY <1>1, <1>2
  <2> QED
    BY <1>2, <2>1, SockStep
<1>8. connector_' = connector_ /\ connection_' = connection_
  BY <1>1 DEF clientVars
<1>9. ActiveLive(c)'
  <2>1. ConnectionChannel(c) # ConnectorChannel(c)
    BY Tags
  <2>2. connection_[c] = NoFd /\ ActiveLive(c)
    BY <1>1 DEF IInv, ClientOK
  <2>3. ~Active(ConnectionChannel(c))'
    BY <1>4, <2>1, <2>2 DEF ActiveLive
  <2> QED
    BY <1>1, <1>2, <1>7, <1>8, <2>3 DEF ActiveLive
<1> QED
  BY <1>1, <1>2, <1>4, <1>5, <1>6, <1>9, SocketChanges

(* The peer of an established socket closes or resets it.                  *)
LEMMA PeerClosesKeeps ==
  ASSUME IInv, NEW fd \in Fds, NEW state \in {"closed", "reset"}, PeerCloses(fd, state)
  PROVE  IInv'
<1>1. /\ sock[fd] \in {"established", "half"}
      /\ sock' = [sock EXCEPT ![fd] = state]
      /\ UNCHANGED <<client, connector_, clientVars, batch, thread>>
      /\ \/ \E c \in Clients : connection_[c] = fd /\ ready' = Append(ready, ConnectionChannel(c))
         \/ (\A c \in Clients : connection_[c] # fd) /\ ready' = ready
  BY DEF PeerCloses
<1>2. PICK c \in Clients : SockOf(c) = fd
  BY <1>1 DEF IInv, OwnInv
<1>3. SockOf(c) # NoFd
  BY <1>2, FdFacts
<1>4. state \in SocketStates \ {"free"} /\ thread' \in [Clients -> {"idle", "checked", "queued", "stale"}]
  BY <1>1 DEF IInv, Types, TypeOK, SocketStates
<1>5. sock'[fd] = state
  BY <1>1, <1>2, <1>3, SockStep
<1>6. connector_' = connector_ /\ connection_' = connection_
  BY <1>1 DEF clientVars
<1>7. CASE \E d \in Clients : connection_[d] = fd
  <2>1. \A d \in Clients : connection_[d] = fd => d = c
    BY <1>2, <1>3, FdFacts, SockFacts DEF IInv, OwnInv
  <2>2. connection_[c] = fd /\ ready' = Append(ready, ConnectionChannel(c))
    BY <1>1, <1>7, <2>1
  <2>3. ActiveLive(c) /\ connection_[c] # NoFd /\ ~connector_[c].pooling
    BY <2>2, <1>2, <1>3 DEF IInv, ClientOK
  <2>4. ~Active(ConnectionChannel(c)) /\ ~Active(ConnectorChannel(c))
    BY <1>1, <2>2, <2>3 DEF ActiveLive
  <2>5. /\ ready' \in Seq(Channels) /\ ListInv'
        /\ \A x : Active(x)' => Active(x) \/ x = ConnectionChannel(c)
    BY <1>1, <2>2, <2>4, Kinds, ListsGrow
  <2>6. ActiveKept(c) /\ ~Active(ConnectorChannel(c))'
    BY <2>4, <2>5, Tags DEF ActiveKept
  <2>7. ActiveLive(c)'
    BY <1>5, <1>6, <2>2, <2>3, <2>6 DEF ActiveLive
  <2> QED
    BY <1>1, <1>2, <1>3, <1>4, <2>5, <2>6, <2>7, SocketChanges
<1>8. CASE \A d \in Clients : connection_[d] # fd
  <2>1. ready' = ready
    BY <1>1, <1>8
  <2>2. ready' \in Seq(Channels) /\ ListInv' /\ \A x : Active(x)' <=> Active(x)
    BY <1>1, <2>1 DEF IInv, Types, ListInv, Active
  <2>3. ActiveKept(c)
    BY <2>2 DEF ActiveKept
  <2>4. ActiveLive(c) /\ connection_[c] = NoFd
    BY <1>2, <1>8, SockFacts DEF IInv
  <2>5. connector_[c].fd = fd \/ ~connector_[c].pooling
    BY <1>2, SockFacts
  <2>6. ActiveLive(c)'
    BY <1>5, <1>6, <2>2, <2>4, <2>5 DEF ActiveLive
  <2> QED
    BY <1>1, <1>2, <1>3, <1>4, <2>2, <2>3, <2>6, SocketChanges
<1> QED
  BY <1>7, <1>8

(* The client gives its socket back: it is free then, the others' sockets  *)
(* are what they were.                                                     *)
LEMMA SocketClosed ==
  ASSUME IInv, NEW c \in Clients, SockOf(c)' = NoFd,
         sock' = IF SockOf(c) = NoFd THEN sock ELSE [sock EXCEPT ![SockOf(c)] = "free"]
  PROVE  /\ OwnStep(c) /\ sock' \in [Fds -> SocketStates]
         /\ \A d \in Clients \ {c} : SockOf(d) # NoFd => sock'[SockOf(d)] = sock[SockOf(d)]
<1>1. /\ SockOf(c) \in Fds \cup {NoFd} /\ sock \in [Fds -> SocketStates]
      /\ SockOf(c) # NoFd => \A d \in Clients \ {c} : SockOf(d) # SockOf(c)
      /\ \A fd \in Fds : sock[fd] = "free" <=> \A d \in Clients : SockOf(d) # fd
  BY SockFacts DEF IInv, Types, TypeOK, SocketStates, OwnInv
<1>2. /\ sock' \in [Fds -> SocketStates]
      /\ \A d \in Clients \ {c} : SockOf(d) # NoFd => sock'[SockOf(d)] = sock[SockOf(d)]
  BY <1>1, SockFacts DEF SocketStates
<1>3. \A fd \in Fds : sock'[fd] = "free" <=> \A d \in Clients \ {c} : SockOf(d) # fd
  <2> TAKE fd \in Fds
  <2>1. fd # NoFd
    BY FdFacts
  <2>2. CASE fd = SockOf(c)
    BY <2>1, <2>2, <1>1
  <2>3. CASE fd # SockOf(c)
    BY <2>3, <1>1
  <2> QED
    BY <2>2, <2>3
<1> QED
  BY <1>2, <1>3, FdFacts DEF OwnStep

(* The connection is closed and destroyed.                                 *)
LEMMA HandleCloseKeeps ==
  ASSUME IInv, NEW c \in Clients, HandleClose(c)
  PROVE  IInv' /\ OthersKept(c)
<1>1. /\ batch # <<>> /\ Head(batch) = ConnectionChannel(c) /\ batch' = Tail(batch)
      /\ connected_' = [connected_ EXCEPT ![c] = FALSE]
      /\ connection_' = [connection_ EXCEPT ![c] = NoFd]
      /\ sock' = [sock EXCEPT ![connection_[c]] = "free"]
      /\ UNCHANGED <<client, connector_, retryTimer_, timers, due, ready, thread>>
  BY DEF HandleClose, Close, timerVars
<1>2. /\ Tail(batch) \in Seq(Entries) /\ Thinned(Tail(batch), batch)
      /\ ConnectionChannel(c) \in Range(batch)
      /\ Once(batch, ConnectionChannel(c)) => ConnectionChannel(c) \notin Range(Tail(batch))
  <2>1. batch \in Seq(Entries) /\ batch # <<>>
    BY <1>1 DEF IInv, Types
  <2> QED
    BY <1>1, <2>1, TailThinned
<1>3. connection_[c] # NoFd /\ SockOf(c) = connection_[c] /\ connector_[c].connected_
  <2>1. Active(ConnectionChannel(c))
    BY <1>2 DEF Active
  <2>2. connection_[c] # NoFd
    BY <2>1 DEF IInv, ActiveLive
  <2> QED
    BY <2>2, SockFacts DEF IInv, ClientOK
<1>4. ListInv' /\ \A x : Active(x)' => Active(x)
  BY <1>1, <1>2, ListsShrink
<1>5. ~Active(ConnectionChannel(c))'
  BY <1>1, <1>2, Kinds DEF IInv, ListInv, Active
<1>6. \A d \in Clients : /\ connection_'[d] = IF d = c THEN NoFd ELSE connection_[d]
                         /\ connected_'[d] = IF d = c THEN FALSE ELSE connected_[d]
  BY <1>1 DEF IInv, Types, TypeOK
<1>7. SockOf(c)' = NoFd
  BY <1>1, <1>3, <1>6 DEF SockOf
<1>8. /\ OwnStep(c) /\ sock' \in [Fds -> SocketStates]
      /\ \A d \in Clients \ {c} : SockOf(d) # NoFd => sock'[SockOf(d)] = sock[SockOf(d)]
  BY <1>1, <1>3, <1>7, SocketClosed
<1>9. OthersKept(c)
  BY <1>1, <1>6, <1>8 DEF OthersKept
<1>10. ActiveKept(c)
  BY <1>4 DEF ActiveKept
<1>11. Types'
  BY <1>1, <1>2, <1>8 DEF IInv, Types, TypeOK, SocketStates
<1>12. BatchInv'
  BY <1>1 DEF IInv, BatchInv
<1>13. ClientOK(c)'
  BY <1>1, <1>6 DEF IInv, ClientOK
<1>14. ActiveLive(c)'
  <2>1. ~connector_[c].pooling
    BY <1>3 DEF IInv, ClientOK
  <2> QED
    BY <1>4, <1>5, <2>1 DEF IInv, ActiveLive
<1> QED
  BY <1>4, <1>8, <1>9, <1>10, <1>11, <1>12, <1>13, <1>14, StepKeeps

(* A new client, with the socket of its Connector.                         *)
LEMMA CreateKeeps ==
  ASSUME IInv, NEW c \in Clients, Create(c)
  PROVE  IInv' /\ OthersKept(c)
<1> DEFINE n == Socket(sock)
<1>1. /\ batch = <<>> /\ client[c] = "destroyed"
      /\ client' = [client EXCEPT ![c] = "created"]
      /\ connector_' = [connector_ EXCEPT ![c] = [NoConnector EXCEPT !.fd = n]]
      /\ sock' = [sock EXCEPT ![n] = "new"]
      /\ UNCHANGED <<connected_, connection_, retryTimer_, timers, due, ready, batch, thread>>
  BY DEF Create, Idle, NewConnector, Created, clientVars, timerVars
<1>2. connector_[c] = NoConnector /\ connection_[c] = NoFd /\ SockOf(c) = NoFd
  BY <1>1, ConnectorFacts DEF IInv, ClientOK, SockOf
<1>3. n \in Fds /\ sock[n] = "free"
  <2>1. \A fd \in Fds : (\A d \in Clients \ {c} : SockOf(d) # fd) => sock[fd] = "free"
    BY <1>2, FdFacts DEF IInv, OwnInv
  <2> QED
    BY <2>1, SocketIsFree
<1> HIDE DEF n
<1> DEFINE k == [NoConnector EXCEPT !.fd = n]
<1>4. /\ k.fd = n /\ ~k.connected_ /\ ~k.pooling
      /\ k \in [fd : {n}, connected_ : BOOLEAN, pooling : BOOLEAN]
  BY ConnectorFacts
<1>0. connector_' = [connector_ EXCEPT ![c] = k]
  BY <1>1
<1> HIDE DEF k
<1>5. \A d \in Clients :
        /\ client'[d] = IF d = c THEN "created" ELSE client[d]
        /\ connector_'[d] = IF d = c THEN k ELSE connector_[d]
  BY <1>0, <1>1 DEF IInv, Types, TypeOK
<1>6. SockOf(c)' = n
  BY <1>4, <1>5 DEF SockOf
<1>7. \A d \in Clients : SockOf(d) # n
  BY <1>3, SockFacts
<1>8. sock \in [Fds -> SocketStates]
  BY DEF IInv, Types, TypeOK, SocketStates
<1>9. OwnStep(c)
  <2>1. \A fd \in Fds : sock[fd] = "free" <=> \A d \in Clients : SockOf(d) # fd
    BY DEF IInv, OwnInv
  <2>2. \A fd \in Fds : sock'[fd] = IF fd = n THEN "new" ELSE sock[fd]
    BY <1>1, <1>8
  <2> QED
    BY <1>2, <1>6, <1>7, <2>1, <2>2, FdFacts DEF OwnStep
<1>10. OthersKept(c)
  BY <1>1, <1>5, <1>7, <1>8, SockFacts DEF OthersKept
<1>11. Types'
  <2>1. connector_' \in [Clients -> [fd : Fds \cup {NoFd}, connected_ : BOOLEAN, pooling : BOOLEAN]]
    BY <1>0, <1>3, <1>4 DEF IInv, Types, TypeOK
  <2>2. sock' \in [Fds -> SocketStates]
    BY <1>1, <1>8 DEF SocketStates
  <2> QED
    BY <1>1, <2>1, <2>2 DEF IInv, Types, TypeOK, SocketStates
<1>12. BatchInv' /\ ListInv' /\ \A x : Active(x)' <=> Active(x)
  BY <1>1 DEF IInv, BatchInv, ListInv, Active
<1>13. ActiveKept(c)
  BY <1>12 DEF ActiveKept
<1>14. ClientOK(c)'
  <2>1. ~connected_[c] /\ n # NoFd
    BY <1>2, <1>3, FdFacts DEF IInv, ClientOK
  <2> QED
    BY <1>1, <1>2, <1>4, <1>5, <2>1 DEF ClientOK
<1>15. ActiveLive(c)'
  <2>1. ~Active(ConnectorChannel(c)) /\ ~Active(ConnectionChannel(c))
    BY <1>2 DEF IInv, ActiveLive, NoConnector
  <2> QED
    BY <1>12, <2>1 DEF ActiveLive
<1> QED
  BY <1>9, <1>10, <1>11, <1>12, <1>13, <1>14, <1>15, StepKeeps

(* The ready list without the channels of a client.                        *)
LEMMA BothRemoved ==
  ASSUME IInv, NEW c \in Clients, NEW list, list = RemoveFirst(Removed(c), ConnectionChannel(c))
  PROVE  /\ list \in Seq(Channels) /\ Thinned(list, ready)
         /\ ConnectorChannel(c) \notin Range(list) /\ ConnectionChannel(c) \notin Range(list)
<1>1. ready \in Seq(Channels) /\ Once(ready, ConnectorChannel(c)) /\ Once(ready, ConnectionChannel(c))
  BY Kinds DEF IInv, Types, ListInv
<1>2. /\ Removed(c) \in Seq(Channels) /\ Thinned(Removed(c), ready)
      /\ ConnectorChannel(c) \notin Range(Removed(c))
  BY <1>1, RemoveThinned DEF Removed
<1>3. Once(Removed(c), ConnectionChannel(c))
  BY <1>1, <1>2 DEF Thinned
<1>4. list \in Seq(Channels) /\ Thinned(list, Removed(c)) /\ ConnectionChannel(c) \notin Range(list)
  BY <1>2, <1>3, RemoveThinned
<1> QED
  BY <1>2, <1>4 DEF Thinned

(* The client is destroyed, with the connection, the timer, the Connector. *)
LEMMA DestroyKeeps ==
  ASSUME IInv, NEW c \in Clients, Destroy(c)
  PROVE  IInv' /\ OthersKept(c)
<1>1. /\ batch = <<>>
      /\ client' = [client EXCEPT ![c] = "destroyed"]
      /\ timers' \subseteq timers /\ due' = due \cap timers'
      /\ retryTimer_' = [retryTimer_ EXCEPT ![c] = FALSE]
      /\ connected_' = [connected_ EXCEPT ![c] = FALSE]
      /\ connection_' = [connection_ EXCEPT ![c] = NoFd]
      /\ connector_' = [connector_ EXCEPT ![c] = NoConnector]
      /\ sock' = IF connection_[c] = NoFd THEN Destroyed(c) ELSE Close(Destroyed(c), connection_[c])
      /\ ready' = RemoveFirst(Removed(c), ConnectionChannel(c))
      /\ thread' = [thread EXCEPT ![c] = IF @ = "queued" THEN "stale" ELSE @]
      /\ batch' = batch
  BY DEF Destroy, Idle, TimersAfterDestroy
<1>2. sock \in [Fds -> SocketStates] /\ ClientOK(c) /\ NoFd \notin Fds
  BY FdFacts DEF IInv, Types, TypeOK, SocketStates
<1>3. sock' = IF SockOf(c) = NoFd THEN sock ELSE [sock EXCEPT ![SockOf(c)] = "free"]
  <2>1. CASE connector_[c].connected_
    BY <2>1, <1>1 DEF Destroyed, Close, SockOf
  <2>2. CASE ~connector_[c].connected_
    <3>1. connection_[c] = NoFd /\ SockOf(c) = connector_[c].fd
      BY <2>2, <1>2 DEF ClientOK, SockOf
    <3>2. sock' = [sock EXCEPT ![SockOf(c)] = "free"]
      BY <2>2, <3>1, <1>1 DEF Destroyed, Close
    <3>3. [sock EXCEPT ![NoFd] = "free"] = sock
      BY <1>2
    <3> QED
      BY <3>2, <3>3
  <2> QED
    BY <2>1, <2>2
<1>4. /\ ready' \in Seq(Channels) /\ Range(ready') \subseteq Range(ready)
      /\ ConnectorChannel(c) \notin Range(ready') /\ ConnectionChannel(c) \notin Range(ready')
      /\ \A x : Once(ready, x) => Once(ready', x)
  BY <1>1, BothRemoved DEF Thinned
<1>5. /\ ListInv' /\ \A x : Active(x)' => Active(x)
      /\ ~Active(ConnectorChannel(c))' /\ ~Active(ConnectionChannel(c))'
  <2>1. Range(<<>>) = {}
    BY DEF Range
  <2> QED
    BY <1>1, <1>4, <2>1 DEF IInv, ListInv, Active
<1>6. \A d \in Clients : /\ client'[d] = IF d = c THEN "destroyed" ELSE client[d]
                         /\ connector_'[d] = IF d = c THEN NoConnector ELSE connector_[d]
                         /\ connection_'[d] = IF d = c THEN NoFd ELSE connection_[d]
                         /\ connected_'[d] = IF d = c THEN FALSE ELSE connected_[d]
  BY <1>1 DEF IInv, Types, TypeOK
<1>7. SockOf(c)' = NoFd
  BY <1>6, ConnectorFacts DEF SockOf
<1>8. /\ OwnStep(c) /\ sock' \in [Fds -> SocketStates]
      /\ \A d \in Clients \ {c} : SockOf(d) # NoFd => sock'[SockOf(d)] = sock[SockOf(d)]
  BY <1>3, <1>7, SocketClosed
<1>9. OthersKept(c)
  BY <1>6, <1>8 DEF OthersKept
<1>10. ActiveKept(c) /\ ActiveLive(c)'
  BY <1>5 DEF ActiveKept, ActiveLive
<1>11. Types'
  <2>1. NoConnector \in [fd : Fds \cup {NoFd}, connected_ : BOOLEAN, pooling : BOOLEAN]
    BY DEF NoConnector
  <2>2. connector_' \in [Clients -> [fd : Fds \cup {NoFd}, connected_ : BOOLEAN, pooling : BOOLEAN]]
    BY <1>1, <2>1 DEF IInv, Types, TypeOK
  <2> QED
    BY <1>1, <1>4, <1>8, <2>2 DEF IInv, Types, TypeOK, SocketStates
<1>12. BatchInv'
  BY <1>1 DEF BatchInv
<1>13. ClientOK(c)'
  BY <1>6, ConnectorFacts DEF ClientOK
<1> QED
  BY <1>5, <1>8, <1>9, <1>10, <1>11, <1>12, <1>13, StepKeeps

-----------------------------------------------------------------------------
(* A Connector at work.                                                    *)

(* The Connector con of client c has a socket of its own among the sockets *)
(* s, and its channel is not in the ready list.                            *)
Prepared(c, con, s, list) ==
  /\ con \in [fd : Fds, connected_ : BOOLEAN, pooling : BOOLEAN] /\ ~con.connected_
  /\ s \in [Fds -> SocketStates] /\ connection_[c] = NoFd
  /\ \A d \in Clients \ {c} :
       SockOf(d) # con.fd /\ (SockOf(d) # NoFd => s[SockOf(d)] = sock[SockOf(d)])
  /\ \A fd \in Fds : s[fd] = "free" <=> fd # con.fd /\ \A d \in Clients \ {c} : SockOf(d) # fd
  /\ list \in Seq(Channels) /\ ConnectorChannel(c) \notin Range(list)
  /\ Range(list) \subseteq Range(ready) /\ \A x \in Channels : Once(list, x)

(* The rest of a step in which the Connector does something.               *)
BatchStep(c) ==
  /\ batch' \in Seq(Entries) /\ ConnectorChannel(c) \notin Range(batch')
  /\ \A x \in Channels : Once(batch', x) /\ (x \in Range(batch') => x \in Range(batch))
  /\ client' \in [Clients -> {"created", "starting", "started", "destroyed"}]
  /\ client'[c] \notin {"created", "destroyed"}
  /\ \A d \in Clients \ {c} : client'[d] = client[d]
  /\ BatchInv' /\ thread' = thread

(* It stays so while the state of the socket changes.                      *)
LEMMA PreparedNow ==
  ASSUME IInv, NEW c \in Clients, NEW con, NEW s, NEW list, Prepared(c, con, s, list),
         NEW now \in SocketStates \ {"free"}
  PROVE  /\ Prepared(c, con, [s EXCEPT ![con.fd] = now], list)
         /\ [s EXCEPT ![con.fd] = now][con.fd] = now
<1> DEFINE t == [s EXCEPT ![con.fd] = now]
<1>1. /\ con.fd \in Fds /\ s \in [Fds -> SocketStates]
      /\ \A d \in Clients \ {c} : SockOf(d) # con.fd
  BY DEF Prepared
<1>2. /\ t \in [Fds -> SocketStates] /\ t[con.fd] = now
      /\ \A fd \in Fds : fd # con.fd => t[fd] = s[fd]
  BY <1>1
<1>3. s[con.fd] # "free"
  BY <1>1 DEF Prepared
<1> HIDE DEF t
<1>4. \A d \in Clients \ {c} :
        SockOf(d) # con.fd /\ (SockOf(d) # NoFd => t[SockOf(d)] = sock[SockOf(d)])
  BY <1>1, <1>2, SockFacts DEF Prepared
<1>5. \A fd \in Fds : t[fd] = "free" <=> fd # con.fd /\ \A d \in Clients \ {c} : SockOf(d) # fd
  <2> TAKE fd \in Fds
  <2>1. CASE fd = con.fd
    BY <2>1, <1>2
  <2>2. CASE fd # con.fd
    BY <2>2, <1>2 DEF Prepared
  <2> QED
    BY <2>1, <2>2
<1>6. Prepared(c, con, t, list)
  BY <1>2, <1>4, <1>5 DEF Prepared
<1> QED
  BY <1>2, <1>6 DEF t

(* The client has the socket of con then, in its Connector or, after the   *)
(* hand-over, in its connection.                                           *)
LEMMA AttachKeeps ==
  ASSUME IInv, NEW c \in Clients, NEW con, NEW s, NEW list, Prepared(c, con, s, list),
         BatchStep(c), sock' = s,
         NEW k \in [fd : Fds, connected_ : BOOLEAN, pooling : BOOLEAN],
         k.fd = con.fd, k.pooling => ~k.connected_,
         connector_' = [connector_ EXCEPT ![c] = k],
         retryTimer_' \in [Clients -> BOOLEAN], timers' \subseteq Clients, due' \subseteq timers',
         \/ /\ ~k.connected_ /\ ready' = list
            /\ connection_' = connection_ /\ connected_' = connected_
         \/ /\ k.connected_
            /\ connection_' = [connection_ EXCEPT ![c] = con.fd]
            /\ connected_' = [connected_ EXCEPT ![c] = TRUE]
            /\ ready' = IF s[con.fd] = "closed" THEN Append(list, ConnectionChannel(c)) ELSE list
  PROVE  IInv' /\ OthersKept(c)
<1>1. /\ con.fd \in Fds /\ con.fd # NoFd /\ connection_[c] = NoFd /\ ~connected_[c]
      /\ s \in [Fds -> SocketStates] /\ list \in Seq(Channels)
  BY FdFacts DEF Prepared, IInv, ClientOK
<1>2. \A d \in Clients : connector_'[d] = IF d = c THEN k ELSE connector_[d]
  BY DEF IInv, Types, TypeOK
<1>3. /\ connection_'[c] = IF k.connected_ THEN con.fd ELSE NoFd
      /\ connected_'[c] <=> k.connected_
      /\ \A d \in Clients \ {c} : connection_'[d] = connection_[d] /\ connected_'[d] = connected_[d]
  BY <1>1 DEF IInv, Types, TypeOK
<1>4. SockOf(c)' = con.fd
  BY <1>2, <1>3 DEF SockOf
<1>5. OwnStep(c)
  BY <1>4 DEF OwnStep, Prepared
<1>6. OthersKept(c)
  BY <1>2, <1>3 DEF OthersKept, Prepared, BatchStep
<1>7. ~Active(ConnectionChannel(c)) /\ ConnectionChannel(c) \in Channels
  BY <1>1, Kinds DEF IInv, ActiveLive
<1>8. ConnectionChannel(c) \notin Range(list)
  BY <1>7 DEF Prepared, Active
<1>9. /\ ready' \in Seq(Channels) /\ \A x \in Channels : Once(ready', x)
      /\ Range(ready') \subseteq Range(list) \cup {ConnectionChannel(c)}
      /\ ConnectionChannel(c) \in Range(ready') => k.connected_ /\ s[con.fd] = "closed"
  <2>1. CASE ready' = list
    BY <2>1, <1>8 DEF Prepared
  <2>2. CASE ready' = Append(list, ConnectionChannel(c)) /\ k.connected_ /\ s[con.fd] = "closed"
    <3>1. \A x \in Channels : Once(list, x)
      BY DEF Prepared
    <3>2. /\ Append(list, ConnectionChannel(c)) \in Seq(Channels)
          /\ Range(Append(list, ConnectionChannel(c))) = Range(list) \cup {ConnectionChannel(c)}
          /\ \A x : Once(list, x) => Once(Append(list, ConnectionChannel(c)), x)
      BY <1>1, <1>7, <1>8, Appended
    <3> QED
      BY <2>2, <3>1, <3>2
  <2> QED
    BY <2>1, <2>2
<1>10. ListInv' /\ ActiveKept(c) /\ ~Active(ConnectorChannel(c))'
  <2>1. \A x \in Channels : x \in Range(batch') => x \in Range(batch) /\ x \notin Range(ready)
    BY DEF BatchStep, IInv, ListInv
  <2>2. \A x \in Channels : x \in Range(batch') => x # ConnectionChannel(c)
    BY <1>7, <2>1 DEF Active
  <2>3. Range(list) \subseteq Range(ready)
    BY DEF Prepared
  <2>4. ListInv'
    BY <1>9, <2>1, <2>2, <2>3 DEF ListInv, BatchStep
  <2>5. ActiveKept(c)
    BY <1>9, <2>1, <2>3, Kinds, Tags DEF ActiveKept, Active
  <2>6. ~Active(ConnectorChannel(c))'
    BY <1>9, Tags DEF Active, Prepared, BatchStep
  <2> QED
    BY <2>4, <2>5, <2>6
<1>11. ActiveLive(c)'
  <2>1. ConnectionChannel(c) \notin Range(batch')
    BY <1>7 DEF BatchStep, Active
  <2>2. Active(ConnectionChannel(c))' => k.connected_ /\ s[con.fd] = "closed"
    BY <1>9, <2>1 DEF Active
  <2> QED
    BY <1>1, <1>3, <1>10, <2>2 DEF ActiveLive
<1>12. ClientOK(c)'
  BY <1>1, <1>2, <1>3 DEF ClientOK, BatchStep
<1>13. Types'
  <2>1. connector_' \in [Clients -> [fd : Fds \cup {NoFd}, connected_ : BOOLEAN, pooling : BOOLEAN]]
    BY DEF IInv, Types, TypeOK
  <2>2. connection_' \in [Clients -> Fds \cup {NoFd}] /\ connected_' \in [Clients -> BOOLEAN]
    BY <1>1 DEF IInv, Types, TypeOK
  <2> QED
    BY <1>1, <1>9, <2>1, <2>2 DEF IInv, Types, TypeOK, BatchStep, SocketStates
<1>14. BatchInv'
  BY DEF BatchStep
<1> QED
  BY <1>5, <1>6, <1>10, <1>11, <1>12, <1>13, <1>14, StepKeeps

(* Connector::handleWrite, with newConnection().                           *)
LEMMA HandleWriteKeeps ==
  ASSUME IInv, NEW c \in Clients, NEW con, NEW s, NEW inRetry, NEW list,
         Prepared(c, con, s, list), BatchStep(c), HandleWrite(c, con, s, inRetry, list)
  PROVE  IInv' /\ OthersKept(c)
<1> DEFINE failed == SocketError(s[con.fd])
           k == [con EXCEPT !.pooling = FALSE, !.connected_ = ~failed]
<1>1. con \in [fd : Fds, connected_ : BOOLEAN, pooling : BOOLEAN]
  BY DEF Prepared
<1>2. failed \in BOOLEAN
  BY DEF SocketError
<1>3. connector_' = [connector_ EXCEPT ![c] = k]
  BY DEF HandleWrite
<1>4. /\ sock' = IF failed THEN [s EXCEPT ![con.fd] = "failed"] ELSE s
      /\ failed => ready' = list /\ UNCHANGED clientVars
      /\ ~failed => NewConnection(c, con.fd, s[con.fd], inRetry, list)
  BY DEF HandleWrite
<1> HIDE DEF failed
<1>5. /\ k \in [fd : Fds, connected_ : BOOLEAN, pooling : BOOLEAN]
      /\ k.fd = con.fd /\ ~k.pooling /\ (k.connected_ <=> ~failed)
  BY <1>1, <1>2
<1> HIDE DEF k
<1>6. CASE failed
  <2>1. "failed" \in SocketStates \ {"free"}
    BY DEF SocketStates
  <2>2. Prepared(c, con, sock', list)
    BY <2>1, <1>4, <1>6, PreparedNow
  <2>3. /\ ready' = list
        /\ UNCHANGED <<connected_, connection_, retryTimer_, timers, due>>
    BY <1>4, <1>6 DEF clientVars, timerVars
  <2>4. retryTimer_' \in [Clients -> BOOLEAN] /\ timers' \subseteq Clients /\ due' \subseteq timers'
    BY <2>3 DEF IInv, Types, TypeOK
  <2> QED
    BY <1>3, <1>5, <1>6, <2>2, <2>3, <2>4, AttachKeeps
<1>7. CASE ~failed
  <2>1. /\ retryTimer_' = [retryTimer_ EXCEPT ![c] = FALSE]
        /\ timers' = timers \ {c} /\ due' = due \ {c}
        /\ connected_' = [connected_ EXCEPT ![c] = TRUE]
        /\ connection_' = [connection_ EXCEPT ![c] = con.fd]
        /\ ready' = IF s[con.fd] = "closed" THEN Append(list, ConnectionChannel(c)) ELSE list
    BY <1>4, <1>7 DEF NewConnection, CancelTimer
  <2>2. retryTimer_' \in [Clients -> BOOLEAN] /\ timers' \subseteq Clients /\ due' \subseteq timers'
    BY <2>1 DEF IInv, Types, TypeOK
  <2>3. sock' = s
    BY <1>4, <1>7
  <2> QED
    BY <1>3, <1>5, <1>7, <2>1, <2>2, <2>3, AttachKeeps
<1> QED
  BY <1>6, <1>7

(* Connector::start.                                                       *)
LEMMA ConnectorStartKeeps ==
  ASSUME IInv, NEW c \in Clients, NEW con, NEW s, NEW inRetry, NEW list,
         Prepared(c, con, s, list), BatchStep(c), ConnectorStart(c, con, s, inRetry, list)
  PROVE  IInv' /\ OthersKept(c)
<1>1. PICK now \in {"connecting", "established", "new"} :
        LET t == [s EXCEPT ![con.fd] = now] IN
        IF now = "connecting"
        THEN /\ connector_' = [connector_ EXCEPT ![c] = [con EXCEPT !.pooling = TRUE]]
             /\ sock' = t
             /\ ready' = list
             /\ UNCHANGED <<clientVars, fault>>
        ELSE HandleWrite(c, con, t, inRetry, list)
  BY DEF ConnectorStart
<1> DEFINE t == [s EXCEPT ![con.fd] = now]
<1>2. Prepared(c, con, t, list)
  <2>1. now \in SocketStates \ {"free"}
    BY DEF SocketStates
  <2> QED
    BY <2>1, PreparedNow
<1>3. CASE now # "connecting"
  <2>1. HandleWrite(c, con, t, inRetry, list)
    BY <1>1, <1>3
  <2> HIDE DEF t
  <2> QED
    BY <1>2, <2>1, HandleWriteKeeps
<1>4. CASE now = "connecting"
  <2> DEFINE k == [con EXCEPT !.pooling = TRUE]
  <2>1. /\ connector_' = [connector_ EXCEPT ![c] = k] /\ sock' = t /\ ready' = list
        /\ UNCHANGED <<connected_, connection_, retryTimer_, timers, due>>
    BY <1>1, <1>4 DEF clientVars, timerVars
  <2>2. /\ k \in [fd : Fds, connected_ : BOOLEAN, pooling : BOOLEAN]
        /\ k.fd = con.fd /\ k.pooling /\ ~k.connected_
    BY DEF Prepared
  <2>3. retryTimer_' \in [Clients -> BOOLEAN] /\ timers' \subseteq Clients /\ due' \subseteq timers'
    BY <2>1 DEF IInv, Types, TypeOK
  <2> HIDE DEF k, t
  <2> QED
    BY <1>2, <2>1, <2>2, <2>3, AttachKeeps
<1> QED
  BY <1>3, <1>4

(* A Connector that has not handed its socket over.                        *)
LEMMA OwnConnector ==
  ASSUME IInv, NEW c \in Clients, connector_[c].fd # NoFd, ~connector_[c].connected_,
         ConnectorChannel(c) \notin Range(ready)
  PROVE  Prepared(c, connector_[c], sock, ready)
<1>1. connector_[c] \in [fd : Fds, connected_ : BOOLEAN, pooling : BOOLEAN]
  BY DEF IInv, Types, TypeOK
<1>2. sock \in [Fds -> SocketStates] /\ ready \in Seq(Channels)
  BY DEF IInv, Types, TypeOK, SocketStates
<1>3. SockOf(c) = connector_[c].fd /\ connection_[c] = NoFd
  BY DEF SockOf, IInv, ClientOK
<1>4. \A d \in Clients \ {c} : SockOf(d) # connector_[c].fd
  BY <1>3, SockFacts
<1>5. \A fd \in Fds :
        sock[fd] = "free" <=> fd # connector_[c].fd /\ \A d \in Clients \ {c} : SockOf(d) # fd
  BY <1>3 DEF IInv, OwnInv
<1>6. \A x \in Channels : Once(ready, x)
  BY DEF IInv, ListInv
<1> QED
  BY <1>1, <1>2, <1>3, <1>4, <1>5, <1>6 DEF Prepared

(* The Connector that retry() makes after the old one is gone.             *)
LEMMA NextConnector ==
  ASSUME IInv, NEW c \in Clients, ~connected_[c]
  PROVE  Prepared(c, NewConnector(Destroyed(c)), Created(Destroyed(c)), Removed(c))
<1> DEFINE s == Destroyed(c)
<1>1. /\ connection_[c] = NoFd /\ SockOf(c) \in Fds \cup {NoFd} /\ NoFd \notin Fds
      /\ sock \in [Fds -> SocketStates]
  BY SockFacts, FdFacts DEF IInv, ClientOK, Types, TypeOK, SocketStates
<1>2. s = IF SockOf(c) = NoFd THEN sock ELSE [sock EXCEPT ![SockOf(c)] = "free"]
  <2>1. CASE connector_[c].connected_
    BY <2>1, <1>1 DEF Destroyed, SockOf
  <2>2. CASE ~connector_[c].connected_
    <3>1. s = [sock EXCEPT ![SockOf(c)] = "free"]
      BY <2>2 DEF Destroyed, Close, SockOf
    <3>2. [sock EXCEPT ![NoFd] = "free"] = sock
      BY <1>1
    <3> QED
      BY <3>1, <3>2
  <2> QED
    BY <2>1, <2>2
<1> HIDE DEF s
<1>3. /\ s \in [Fds -> SocketStates]
      /\ \A d \in Clients \ {c} : SockOf(d) # NoFd => s[SockOf(d)] = sock[SockOf(d)]
  <2>1. SockOf(c) # NoFd => \A d \in Clients \ {c} : SockOf(d) # SockOf(c)
    BY SockFacts
  <2>2. \A d \in Clients : SockOf(d) \in Fds \cup {NoFd}
    BY SockFacts
  <2> QED
    BY <1>1, <1>2, <2>1, <2>2 DEF SocketStates
<1>4. \A fd \in Fds : s[fd] = "free" <=> \A d \in Clients \ {c} : SockOf(d) # fd
  <2>1. \A fd \in Fds : sock[fd] = "free" <=> \A d \in Clients : SockOf(d) # fd
    BY DEF IInv, OwnInv
  <2> TAKE fd \in Fds
  <2>2. CASE fd = SockOf(c)
    <3>1. s[fd] = "free"
      BY <1>1, <1>2, <2>2
    <3>2. \A d \in Clients \ {c} : SockOf(d) # fd
      BY <1>1, <2>2, SockFacts
    <3> QED
      BY <3>1, <3>2
  <2>3. CASE fd # SockOf(c)
    <3>1. s[fd] = sock[fd]
      BY <1>1, <1>2, <2>3
    <3> QED
      BY <2>1, <2>3, <3>1
  <2> QED
    BY <2>2, <2>3
<1> DEFINE n == Socket(s)  con == [NoConnector EXCEPT !.fd = n]  t == [s EXCEPT ![n] = "new"]
<1>5. n \in Fds /\ s[n] = "free"
  BY <1>4, SocketIsFree
<1>6. NewConnector(s) = con /\ Created(s) = t
  BY DEF NewConnector, Created
<1> HIDE DEF n
<1>7. /\ con.fd = n /\ ~con.connected_
      /\ con \in [fd : {n}, connected_ : BOOLEAN, pooling : BOOLEAN]
  BY ConnectorFacts
<1> HIDE DEF con
<1>8. con \in [fd : Fds, connected_ : BOOLEAN, pooling : BOOLEAN]
  BY <1>5, <1>7
<1>9. t \in [Fds -> SocketStates] /\ \A fd \in Fds : t[fd] = IF fd = n THEN "new" ELSE s[fd]
  BY <1>3, <1>5 DEF SocketStates
<1> HIDE DEF t
<1>10. \A d \in Clients \ {c} : SockOf(d) # n
  BY <1>4, <1>5
<1>11. \A d \in Clients \ {c} :
         SockOf(d) # con.fd /\ (SockOf(d) # NoFd => t[SockOf(d)] = sock[SockOf(d)])
  <2> TAKE d \in Clients \ {c}
  <2>1. SockOf(d) \in Fds \cup {NoFd}
    BY SockFacts
  <2> QED
    BY <1>3, <1>7, <1>9, <1>10, <2>1
<1>12. \A fd \in Fds : t[fd] = "free" <=> fd # con.fd /\ \A d \in Clients \ {c} : SockOf(d) # fd
  BY <1>4, <1>7, <1>9
<1>13. /\ Removed(c) \in Seq(Channels) /\ ConnectorChannel(c) \notin Range(Removed(c))
       /\ Thinned(Removed(c), ready)
  <2>1. ready \in Seq(Channels) /\ Once(ready, ConnectorChannel(c))
    BY Kinds DEF IInv, Types, ListInv
  <2> QED
    BY <2>1, RemoveThinned DEF Removed
<1>14. Range(Removed(c)) \subseteq Range(ready) /\ \A x \in Channels : Once(Removed(c), x)
  BY <1>13 DEF IInv, ListInv, Thinned
<1>15. Prepared(c, con, t, Removed(c))
  BY <1>1, <1>7, <1>8, <1>9, <1>11, <1>12, <1>13, <1>14 DEF Prepared
<1> QED
  BY <1>6, <1>15 DEF s

(* start(): the first Connector.                                           *)
LEMMA StartKeeps ==
  ASSUME IInv, NEW c \in Clients, Start(c)
  PROVE  IInv' /\ OthersKept(c)
<1>1. /\ batch = <<>> /\ client[c] = "created"
      /\ client' = [client EXCEPT ![c] = "starting"]
      /\ ConnectorStart(c, connector_[c], sock, FALSE, ready)
      /\ batch' = batch /\ thread' = thread
  BY DEF Start, Idle
<1>2. connector_[c].fd # NoFd /\ ~connector_[c].connected_ /\ ~connector_[c].pooling
  BY <1>1 DEF IInv, ClientOK
<1>3. ConnectorChannel(c) \notin Range(ready)
  BY <1>2 DEF IInv, ActiveLive, Active
<1>4. Prepared(c, connector_[c], sock, ready)
  BY <1>2, <1>3, OwnConnector
<1>5. BatchStep(c)
  <2>1. Range(<<>>) = {}
    BY DEF Range
  <2> QED
    BY <1>1, <2>1 DEF BatchStep, BatchInv, IInv, Types, TypeOK, ListInv
<1> QED
  BY <1>1, <1>4, <1>5, ConnectorStartKeeps

(* The batch without its head.                                             *)
LEMMA BatchTail ==
  ASSUME IInv, batch # <<>>
  PROVE  /\ Tail(batch) \in Seq(Entries) /\ Thinned(Tail(batch), batch)
         /\ Head(batch) \in Range(batch)
         /\ Head(batch) \in Channels => Head(batch) \notin Range(Tail(batch))
         /\ \A x \in Channels : Once(Tail(batch), x)
<1>1. batch \in Seq(Entries)
  BY DEF IInv, Types
<1>2. \A x \in Channels : Once(batch, x)
  BY DEF IInv, ListInv
<1>3. /\ Tail(batch) \in Seq(Entries) /\ Thinned(Tail(batch), batch)
      /\ Head(batch) \in Range(batch)
      /\ Once(batch, Head(batch)) => Head(batch) \notin Range(Tail(batch))
  BY <1>1, TailThinned
<1> QED
  BY <1>2, <1>3 DEF Thinned

(* The channel of the Connector is handled.                                *)
LEMMA HandleConnectorKeeps ==
  ASSUME IInv, NEW c \in Clients, HandleConnector(c)
  PROVE  IInv' /\ OthersKept(c)
<1>1. /\ batch # <<>> /\ Head(batch) = ConnectorChannel(c) /\ batch' = Tail(batch)
      /\ HandleWrite(c, connector_[c], sock, FALSE, ready)
      /\ client' = client /\ thread' = thread
  BY DEF HandleConnector
<1>2. /\ Tail(batch) \in Seq(Entries) /\ Thinned(Tail(batch), batch)
      /\ ConnectorChannel(c) \in Range(batch) /\ ConnectorChannel(c) \notin Range(Tail(batch))
      /\ \A x \in Channels : Once(Tail(batch), x)
  BY <1>1, BatchTail, Kinds
<1>3. connector_[c].pooling /\ ConnectorChannel(c) \notin Range(ready)
  BY <1>2, Kinds DEF IInv, ActiveLive, Active, ListInv
<1>4. connector_[c].fd # NoFd /\ ~connector_[c].connected_ /\ client[c] \notin {"created", "destroyed"}
  <2>1. ClientOK(c)
    BY DEF IInv
  <2> QED
    BY <1>3, <2>1, ConnectorFacts DEF ClientOK
<1>5. Prepared(c, connector_[c], sock, ready)
  BY <1>3, <1>4, OwnConnector
<1>6. BatchStep(c)
  <2>1. BatchInv'
    BY <1>1 DEF IInv, BatchInv
  <2> QED
    BY <1>1, <1>2, <1>4, <2>1 DEF BatchStep, IInv, Types, TypeOK, Thinned
<1> QED
  BY <1>1, <1>5, <1>6, HandleWriteKeeps

(* The batch after the channel of a Connector that is gone was left behind.*)
LEMMA DeadLeft ==
  ASSUME IInv, NEW c \in Clients
  PROVE  /\ LeftBehind(c) \in Seq(Entries) /\ Len(LeftBehind(c)) = Len(batch)
         /\ ConnectorChannel(c) \notin Range(LeftBehind(c))
         /\ \A x \in Channels : Once(LeftBehind(c), x)
         /\ \A x : x \in Range(LeftBehind(c)) => x \in Range(batch) \/ x = Dead(c)
<1> DEFINE b == LeftBehind(c)
<1>1. /\ batch \in Seq(Entries) /\ Len(batch) \in Nat /\ DOMAIN batch = 1..Len(batch)
      /\ \A i \in 1..Len(batch) : batch[i] \in Entries
  BY LenProperties, ElementOfSeq DEF IInv, Types
<1>2. b = [i \in 1..Len(batch) |-> IF batch[i] = ConnectorChannel(c) THEN Dead(c) ELSE batch[i]]
  BY <1>1 DEF LeftBehind
<1>3. Dead(c) \in Entries /\ Dead(c) \notin Channels /\ Dead(c) # ConnectorChannel(c)
  BY Kinds, Tags
<1> HIDE DEF b
<1>4. /\ b \in Seq(Entries) /\ Len(b) = Len(batch)
      /\ \A i \in 1..Len(batch) :
           b[i] = IF batch[i] = ConnectorChannel(c) THEN Dead(c) ELSE batch[i]
  <2>1. b \in [1..Len(batch) -> Entries]
    BY <1>1, <1>2, <1>3
  <2>2. b \in Seq(Entries)
    BY <1>1, <2>1, SeqDef
  <2>3. Len(b) = Len(batch)
    BY <1>1, <2>1, <2>2, LenProperties
  <2> QED
    BY <1>2, <2>2, <2>3
<1>5. \A x : x \in Range(b) <=> \E i \in 1..Len(b) : b[i] = x
  <2>1. b \in Seq(Entries)
    BY <1>4
  <2> QED
    BY ONLY <2>1, InRange
<1>6. \A x : x \in Range(batch) <=> \E i \in 1..Len(batch) : batch[i] = x
  BY <1>1, InRange
<1>7. ConnectorChannel(c) \notin Range(b)
  BY <1>3, <1>4, <1>5
<1>8. \A x : x \in Range(b) => x \in Range(batch) \/ x = Dead(c)
  BY <1>4, <1>5, <1>6
<1>9. \A x \in Channels : Once(b, x)
  BY <1>3, <1>4 DEF IInv, ListInv, Once
<1> QED
  BY <1>4, <1>7, <1>8, <1>9 DEF b

(* retry(), or nothing on a client that is connected or gone.              *)
LEMMA HandleExpiredKeeps ==
  ASSUME IInv, StartedInv, NEW c \in Clients, HandleExpired(c)
  PROVE  IInv' /\ OthersKept(c)
<1>1. batch # <<>> /\ client' = client /\ thread' = thread
  BY DEF HandleExpired
<1>2. CASE client[c] = "destroyed" \/ connected_[c]
  <2>1. /\ batch' = Tail(batch)
        /\ UNCHANGED <<connector_, connected_, connection_, retryTimer_, timers, due, sock, ready>>
    BY <1>2 DEF HandleExpired, clientVars, timerVars
  <2>2. Tail(batch) \in Seq(Entries) /\ Thinned(Tail(batch), batch)
    BY <1>1, BatchTail
  <2>3. ListInv' /\ \A x : Active(x)' => Active(x)
    BY <2>1, <2>2, ListsShrink
  <2>4. Types'
    BY <1>1, <2>1, <2>2 DEF IInv, Types, TypeOK
  <2>5. BatchInv' /\ OwnInv'
    BY <1>1, <2>1 DEF IInv, BatchInv, OwnInv, SockOf
  <2>6. \A d \in Clients : ClientOK(d)'
    BY <1>1, <2>1 DEF IInv, ClientOK
  <2>7. \A d \in Clients : ActiveLive(d)'
    BY <2>1, <2>3 DEF IInv, ActiveLive
  <2>8. OthersKept(c)
    BY <1>1, <2>1 DEF OthersKept
  <2> QED
    BY <2>3, <2>4, <2>5, <2>6, <2>7, <2>8 DEF IInv
<1>3. CASE client[c] # "destroyed" /\ ~connected_[c]
  <2>1. Retry(c) /\ batch' = Tail(LeftBehind(c))
    BY <1>3 DEF HandleExpired
  <2>2. Prepared(c, NewConnector(Destroyed(c)), Created(Destroyed(c)), Removed(c))
    BY <1>3, NextConnector
  <2>3. ConnectorStart(c, NewConnector(Destroyed(c)), Created(Destroyed(c)), TRUE, Removed(c))
    BY <2>1 DEF Retry
  <2>4. /\ LeftBehind(c) \in Seq(Entries) /\ Len(LeftBehind(c)) = Len(batch)
        /\ ConnectorChannel(c) \notin Range(LeftBehind(c))
        /\ \A x \in Channels : Once(LeftBehind(c), x)
        /\ \A x \in Channels : x \in Range(LeftBehind(c)) => x \in Range(batch)
    BY DeadLeft, Kinds
  <2>5. LeftBehind(c) # <<>>
    <3>1. Len(batch) # 0
      BY <1>1, EmptySeq DEF IInv, Types
    <3> QED
      BY <2>4, <3>1
  <2>6. batch' \in Seq(Entries) /\ Thinned(batch', LeftBehind(c))
    BY <2>1, <2>4, <2>5, TailThinned
  <2>7. BatchStep(c)
    <3>1. BatchInv'
      BY <1>1 DEF IInv, BatchInv
    <3>2. Head(batch) = Expired(c) /\ Head(batch) \in Range(batch)
      BY <1>1, BatchTail DEF HandleExpired
    <3>3. client[c] = "started"
      BY <3>2 DEF StartedInv
    <3> QED
      BY <1>1, <2>4, <2>6, <3>1, <3>3 DEF BatchStep, IInv, Types, TypeOK, Thinned
  <2> QED
    BY <2>2, <2>3, <2>7, ConnectorStartKeeps
<1> QED
  BY <1>2, <1>3

-----------------------------------------------------------------------------
(* Timers and starts.                                                      *)

(* Working on a Connector leaves the timers alone or cancels that of its   *)
(* client.                                                                 *)
LEMMA TimerEffect ==
  ASSUME NEW c, NEW con, NEW s, NEW inRetry, NEW list,
         \/ HandleWrite(c, con, s, inRetry, list)
         \/ ConnectorStart(c, con, s, inRetry, list)
  PROVE  \/ UNCHANGED <<timers, retryTimer_>>
         \/ timers' = timers \ {c} /\ retryTimer_' = [retryTimer_ EXCEPT ![c] = FALSE]
<1>1. ASSUME NEW t, HandleWrite(c, con, t, inRetry, list)
      PROVE  \/ UNCHANGED <<timers, retryTimer_>>
             \/ timers' = timers \ {c} /\ retryTimer_' = [retryTimer_ EXCEPT ![c] = FALSE]
  BY <1>1 DEF HandleWrite, NewConnection, CancelTimer, clientVars, timerVars
<1>2. CASE ConnectorStart(c, con, s, inRetry, list)
  <2>1. PICK now :
          LET t == [s EXCEPT ![con.fd] = now] IN
          \/ UNCHANGED <<clientVars, fault>>
          \/ HandleWrite(c, con, t, inRetry, list)
    BY <1>2 DEF ConnectorStart
  <2> QED
    BY <1>1, <2>1 DEF clientVars, timerVars
<1> QED
  BY <1>1, <1>2

(* Every step preserves StartedInv.                                        *)
LEMMA StartedKeeps ==
  ASSUME IInv, StartedInv, Next
  PROVE  StartedInv'
<1> DEFINE Waits(b) == \A c \in Clients : Expired(c) \in Range(b) => Expired(c) \in Range(batch)
<1>1. /\ client \in [Clients -> {"created", "starting", "started", "destroyed"}]
      /\ retryTimer_ \in [Clients -> BOOLEAN] /\ due \subseteq timers /\ timers \subseteq Clients
      /\ batch \in Seq(Entries)
  BY DEF IInv, Types, TypeOK
<1>2. ASSUME UNCHANGED <<client, timers, retryTimer_>>, Waits(batch')
      PROVE  StartedInv'
  BY <1>2 DEF StartedInv
<1>3. ASSUME NEW c \in Clients, Waits(batch'),
             \A d \in Clients \ {c} : client'[d] = client[d],
             client'[c] = "started" \/ (~retryTimer_'[c] /\ Expired(c) \notin Range(batch')),
             \/ UNCHANGED <<timers, retryTimer_>>
             \/ timers' = timers \ {c} /\ retryTimer_' = [retryTimer_ EXCEPT ![c] = FALSE]
      PROVE  StartedInv'
  BY <1>1, <1>3 DEF StartedInv
<1>4. batch # <<>> => Waits(Tail(batch))
  BY BatchTail DEF Thinned
<1>5. Waits(batch) /\ Range(<<>>) = {}
  BY DEF Range
<1>6. CASE Poll
  <2>1. \A c \in Clients : Expired(c) \notin Range(batch')
    BY <1>6, Kinds, InRange DEF Poll, IInv, Types
  <2> QED
    BY <1>2, <1>6, <2>1 DEF Poll, clientVars, timerVars
<1>7. CASE HandleTimers
  <2>1. PICK order \in Seq(Entries) :
          /\ Range(order) \subseteq {Expired(c) : c \in due}
          /\ Range(batch') = Range(order) \cup Range(Tail(batch))
    BY <1>7, TimersBatch
  <2>2. batch # <<>>
    BY <1>7 DEF HandleTimers
  <2>3. \A c \in Clients : Expired(c) \in Range(batch') => c \in due \/ Expired(c) \in Range(batch)
    <3> TAKE c \in Clients
    <3>1. Expired(c) \in {Expired(d) : d \in due} => c \in due
      BY ONLY Tags
    <3>2. Expired(c) \in Range(Tail(batch)) => Expired(c) \in Range(batch)
      BY <1>4, <2>2
    <3> QED
      BY ONLY <2>1, <3>1, <3>2
  <2> QED
    BY <1>1, <1>7, <2>3 DEF HandleTimers, StartedInv
<1>8. ASSUME NEW c \in Clients, HandleExpired(c)
      PROVE  StartedInv'
  <2>1. client' = client /\ batch # <<>> /\ Expired(c) \in Range(batch)
    BY <1>8, BatchTail DEF HandleExpired
  <2>2. client[c] = "started"
    BY <2>1 DEF StartedInv
  <2>3. CASE connected_[c]
    BY <1>2, <1>4, <1>8, <2>1, <2>3 DEF HandleExpired, clientVars, timerVars
  <2>4. CASE ~connected_[c]
    <3>1. Retry(c) /\ batch' = Tail(LeftBehind(c))
      BY <1>8, <2>2, <2>4 DEF HandleExpired
    <3>2. /\ LeftBehind(c) \in Seq(Entries) /\ Len(LeftBehind(c)) = Len(batch)
          /\ \A x : x \in Range(LeftBehind(c)) => x \in Range(batch) \/ x = Dead(c)
      BY DeadLeft
    <3>3. LeftBehind(c) # <<>>
      <4>1. Len(batch) # 0
        BY <1>1, <2>1, EmptySeq
      <4> QED
        BY <3>2, <4>1
    <3>4. Thinned(batch', LeftBehind(c))
      BY <3>1, <3>2, <3>3, TailThinned
    <3>5. Waits(batch')
      BY <3>2, <3>4, Tags DEF Thinned
    <3>6. \/ UNCHANGED <<timers, retryTimer_>>
          \/ timers' = timers \ {c} /\ retryTimer_' = [retryTimer_ EXCEPT ![c] = FALSE]
      BY <3>1, TimerEffect DEF Retry
    <3> QED
      BY <1>3, <2>1, <2>2, <3>5, <3>6
  <2> QED
    BY <2>3, <2>4
<1>9. ASSUME NEW c \in Clients, HandleConnector(c)
      PROVE  StartedInv'
  <2>1. client' = client /\ batch # <<>> /\ batch' = Tail(batch)
    BY <1>9 DEF HandleConnector
  <2>2. \/ UNCHANGED <<timers, retryTimer_>>
        \/ timers' = timers \ {c} /\ retryTimer_' = [retryTimer_ EXCEPT ![c] = FALSE]
    BY <1>9, TimerEffect DEF HandleConnector
  <2> QED
    BY <1>1, <1>4, <2>1, <2>2 DEF StartedInv
<1>10. ASSUME NEW c \in Clients, HandleClose(c)
       PROVE  StartedInv'
  BY <1>2, <1>4, <1>10 DEF HandleClose, timerVars
<1>11. ASSUME NEW c \in Clients, Create(c) \/ Destroy(c)
       PROVE  StartedInv'
  <2>1. batch = <<>> /\ batch' = batch
    BY <1>11 DEF Create, Destroy, Idle
  <2>2. CASE Create(c)
    BY <1>1, <1>5, <2>1, <2>2 DEF Create, StartedInv, clientVars, timerVars
  <2>3. CASE Destroy(c)
    <3>1. /\ client' = [client EXCEPT ![c] = "destroyed"]
          /\ retryTimer_' = [retryTimer_ EXCEPT ![c] = FALSE]
          /\ timers' = IF retryTimer_[c] THEN timers \ {c} ELSE timers
      BY <2>3 DEF Destroy, TimersAfterDestroy
    <3> QED
      BY <1>1, <1>5, <2>1, <3>1 DEF StartedInv
  <2> QED
    BY <1>11, <2>2, <2>3
<1>12. ASSUME NEW c \in Clients, Start(c)
       PROVE  StartedInv'
  <2>1. /\ batch = <<>> /\ batch' = batch /\ client[c] = "created"
        /\ client' = [client EXCEPT ![c] = "starting"]
    BY <1>12 DEF Start, Idle
  <2>2. \/ UNCHANGED <<timers, retryTimer_>>
        \/ timers' = timers \ {c} /\ retryTimer_' = [retryTimer_ EXCEPT ![c] = FALSE]
    BY <1>12, TimerEffect DEF Start
  <2> QED
    BY <1>1, <1>5, <2>1, <2>2 DEF StartedInv
<1>13. ASSUME NEW c \in Clients, StartTimer(c)
       PROVE  StartedInv'
  BY <1>1, <1>13 DEF StartTimer, StartedInv
<1>14. ASSUME NEW c \in Clients,
              \/ Disconnect(c) \/ ThreadDisconnect(c) \/ ThreadQueue(c) \/ RunTask(c)
              \/ TimerExpires(c) \/ \E state \in {"established", "refused"} : Answer(c, state)
       PROVE  StartedInv'
  <2>1. UNCHANGED <<client, timers, retryTimer_, batch>>
    BY <1>14 DEF Disconnect, ThreadDisconnect, ThreadQueue, RunTask, TimerExpires, Answer,
                 clientVars, timerVars
  <2> QED
    BY <1>2, <2>1
<1>15. ASSUME NEW fd \in Fds, NEW state \in {"closed", "reset"}, PeerCloses(fd, state)
       PROVE  StartedInv'
  BY <1>2, <1>15 DEF PeerCloses, clientVars, timerVars
<1> QED
  BY <1>6, <1>7, <1>8, <1>9, <1>10, <1>11, <1>12, <1>13, <1>14, <1>15 DEF Next, Handle

(* Every step preserves the invariant.                                     *)
LEMMA NextKeeps == IInv /\ StartedInv /\ [Next]_vars => IInv' /\ StartedInv'
<1> SUFFICES ASSUME IInv, StartedInv, [Next]_vars
             PROVE  IInv' /\ StartedInv'
  OBVIOUS
<1>1. CASE Next
  <2>1. ASSUME Poll
        PROVE  IInv'
    BY <2>1, PollKeeps
  <2>2. ASSUME Handle
        PROVE  IInv'
    BY <2>2, HandleTimersKeeps, HandleExpiredKeeps, HandleConnectorKeeps, HandleCloseKeeps
       DEF Handle
  <2>3. ASSUME NEW c \in Clients,
               \/ Create(c) \/ Start(c) \/ StartTimer(c) \/ Disconnect(c) \/ Destroy(c)
               \/ ThreadDisconnect(c) \/ ThreadQueue(c) \/ RunTask(c)
               \/ TimerExpires(c)
               \/ \E state \in {"established", "refused"} : Answer(c, state)
        PROVE  IInv'
    BY <2>3, CreateKeeps, StartKeeps, StartTimerKeeps, DisconnectKeeps, DestroyKeeps,
       ThreadKeeps, TimerExpiresKeeps, AnswerKeeps
  <2>4. ASSUME NEW fd \in Fds, NEW state \in {"closed", "reset"}, PeerCloses(fd, state)
        PROVE  IInv'
    BY <2>4, PeerClosesKeeps
  <2>5. IInv'
    BY <1>1, <2>1, <2>2, <2>3, <2>4 DEF Next
  <2> QED
    BY <1>1, <2>5, StartedKeeps
<1>2. CASE UNCHANGED vars
  <2>1. UNCHANGED <<client, connector_, connection_, connected_, sock, ready, batch,
                    retryTimer_, timers, due, thread>>
    BY <1>2 DEF vars, clientVars, timerVars
  <2>2. TypeOK'
    BY <2>1 DEF IInv, Types, TypeOK
  <2>3. StartedInv'
    BY <2>1 DEF StartedInv
  <2> QED
    BY <2>1, <2>2, <2>3, SameKeeps
<1> QED
  BY <1>1, <1>2

(* It holds initially.                                                     *)
LEMMA InitInv == Init => IInv /\ StartedInv
<1>1. Range(<<>>) = {}
  BY DEF Range
<1>2. Init => StartedInv
  BY <1>1 DEF Init, StartedInv
<1> QED
  BY <1>2, InitIInv

(* The invariant holds, whichever races are possible.                      *)
LEMMA Invariant == Spec => [](IInv /\ StartedInv)
  BY InitInv, NextKeeps, PTL DEF Spec

(* The types of the state are what TypeOK says; in particular socket()     *)
(* always finds a descriptor, as a client needs one at most.               *)
THEOREM TypeCorrect == Spec => []TypeOK
<1>1. IInv => TypeOK
  BY DEF IInv, Types
<1> QED
  BY <1>1, Invariant, PTL

(* Every open socket has exactly one owner that will close it, and a       *)
(* closed one none: whichever races are possible, retries, hand-over and   *)
(* destruction neither leak a socket nor close one that is not theirs.     *)
THEOREM SocketOwnedTheorem == Spec => []SocketOwned
<1>1. IInv => SocketOwned
  <2> SUFFICES ASSUME IInv, NEW fd \in Fds
               PROVE  Cardinality(Owners(fd)) = IF sock[fd] = "free" THEN 0 ELSE 1
    BY DEF SocketOwned
  <2>1. fd # NoFd
    BY FdFacts
  <2> DEFINE A == {d \in Clients : connector_[d].fd = fd /\ ~connector_[d].connected_}
             B == {d \in Clients : connection_[d] = fd}
  <2>2. Owners(fd) = {ConnectorChannel(c) : c \in A} \cup {ConnectionChannel(c) : c \in B}
    BY DEF Owners
  <2>3. \A d \in Clients : /\ d \in A \/ d \in B <=> SockOf(d) = fd
                           /\ ~(d \in A /\ d \in B)
    BY <2>1 DEF IInv, ClientOK, SockOf
  <2>4. A \subseteq Clients /\ B \subseteq Clients
    OBVIOUS
  <2> HIDE DEF A, B
  <2>5. CASE sock[fd] = "free"
    <3>1. A = {} /\ B = {}
      BY <2>3, <2>4, <2>5 DEF IInv, OwnInv
    <3>2. Owners(fd) = {}
      BY <2>2, <3>1
    <3> QED
      BY <2>5, <3>2, FS_EmptySet
  <2>6. CASE sock[fd] # "free"
    <3>1. PICK c \in Clients : SockOf(c) = fd
      BY <2>6 DEF IInv, OwnInv
    <3>2. \A d \in Clients : SockOf(d) = fd => d = c
      BY <2>1, <3>1 DEF IInv, OwnInv
    <3>3. \/ A = {c} /\ B = {}
          \/ A = {} /\ B = {c}
      BY <2>3, <2>4, <3>1, <3>2
    <3>4. Owners(fd) = {ConnectorChannel(c)} \/ Owners(fd) = {ConnectionChannel(c)}
      BY <2>2, <3>3
    <3> QED
      BY <2>6, <3>4, FS_Singleton
  <2> QED
    BY <2>5, <2>6
<1> QED
  BY <1>1, Invariant, PTL

-----------------------------------------------------------------------------
(* Connections are real.                                                   *)

(* connect() always takes its time.                                        *)
AsyncConnect == ~SyncConnect

RealSock(c) ==
  connection_[c] # NoFd => sock[connection_[c]] \in {"established", "half", "closed", "reset"}

(* The connections of the others stay what they are.                       *)
LEMMA OthersReal ==
  ASSUME IInv, \A d \in Clients : RealSock(d), NEW c \in Clients, OthersKept(c), RealSock(c)'
  PROVE  \A d \in Clients : RealSock(d)'
<1> SUFFICES ASSUME NEW d \in Clients \ {c}
             PROVE  RealSock(d)'
  OBVIOUS
<1>1. connection_'[d] = connection_[d] /\ (SockOf(d) # NoFd => sock'[SockOf(d)] = sock[SockOf(d)])
  BY DEF OthersKept
<1>2. connection_[d] # NoFd => SockOf(d) = connection_[d]
  BY SockFacts
<1> QED
  BY <1>1, <1>2 DEF RealSock

(* Without an answer at once Connector::start only waits.                  *)
LEMMA StartWaits ==
  ASSUME AsyncConnect, NEW c, NEW con, NEW s, NEW inRetry, NEW list,
         ConnectorStart(c, con, s, inRetry, list)
  PROVE  /\ connector_' = [connector_ EXCEPT ![c] = [con EXCEPT !.pooling = TRUE]]
         /\ sock' = [s EXCEPT ![con.fd] = "connecting"] /\ ready' = list
         /\ UNCHANGED <<connected_, connection_, retryTimer_, timers, due, fault>>
  BY DEF AsyncConnect, ConnectorStart, clientVars, timerVars

(* Every step leaves only real connections.                                *)
LEMMA RealKeeps ==
  ASSUME IInv, StartedInv, AsyncConnect, \A d \in Clients : RealSock(d), Next
  PROVE  \A d \in Clients : RealSock(d)'
<1>1. ASSUME UNCHANGED <<connection_, sock>>
      PROVE  \A d \in Clients : RealSock(d)'
  BY <1>1 DEF RealSock
<1>2. ASSUME NEW c \in Clients, connection_'[c] = NoFd, OthersKept(c)
      PROVE  \A d \in Clients : RealSock(d)'
  BY <1>2, OthersReal DEF RealSock
<1>3. CASE Poll \/ HandleTimers
  BY <1>1, <1>3 DEF Poll, HandleTimers, clientVars
<1>4. ASSUME NEW c \in Clients, HandleExpired(c)
      PROVE  \A d \in Clients : RealSock(d)'
  <2>1. CASE client[c] = "destroyed" \/ connected_[c]
    BY <1>1, <1>4, <2>1 DEF HandleExpired, clientVars
  <2>2. CASE client[c] # "destroyed" /\ ~connected_[c]
    <3>1. connection_' = connection_
      BY <1>4, <2>2, StartWaits DEF HandleExpired, Retry
    <3>2. connection_[c] = NoFd
      BY <2>2 DEF IInv, ClientOK
    <3> QED
      BY <1>2, <1>4, <3>1, <3>2, HandleExpiredKeeps
  <2> QED
    BY <2>1, <2>2
<1>5. ASSUME NEW c \in Clients, HandleConnector(c)
      PROVE  \A d \in Clients : RealSock(d)'
  <2>1. OthersKept(c)
    BY <1>5, HandleConnectorKeeps
  <2>2. Active(ConnectorChannel(c))
    BY <1>5, BatchTail DEF HandleConnector, Active
  <2>3. /\ connection_[c] = NoFd
        /\ sock[connector_[c].fd] \in {"established", "refused", "closed", "reset"}
    BY <2>2 DEF IInv, ActiveLive, ClientOK
  <2>4. HandleWrite(c, connector_[c], sock, FALSE, ready)
    BY <1>5 DEF HandleConnector
  <2>5. CASE SocketError(sock[connector_[c].fd])
    <3>1. connection_' = connection_
      BY <2>4, <2>5 DEF HandleWrite, clientVars
    <3> QED
      BY <1>2, <2>1, <2>3, <3>1
  <2>6. CASE ~SocketError(sock[connector_[c].fd])
    <3>1. sock' = sock /\ connection_' = [connection_ EXCEPT ![c] = connector_[c].fd]
      BY <2>4, <2>6 DEF HandleWrite, NewConnection
    <3>2. connection_'[c] = connector_[c].fd
      BY <3>1 DEF IInv, Types, TypeOK
    <3>3. sock[connector_[c].fd] \in {"established", "closed"}
      BY <2>3, <2>6 DEF SocketError
    <3>4. RealSock(c)'
      BY <3>1, <3>2, <3>3 DEF RealSock
    <3> QED
      BY <2>1, <3>4, OthersReal
  <2> QED
    BY <2>5, <2>6
<1>6. ASSUME NEW c \in Clients, HandleClose(c) \/ Destroy(c)
      PROVE  \A d \in Clients : RealSock(d)'
  <2>1. connection_'[c] = NoFd
    BY <1>6 DEF HandleClose, Destroy, IInv, Types, TypeOK
  <2> QED
    BY <1>2, <1>6, <2>1, HandleCloseKeeps, DestroyKeeps
<1>7. ASSUME NEW c \in Clients, Create(c)
      PROVE  \A d \in Clients : RealSock(d)'
  <2>1. connection_' = connection_
    BY <1>7 DEF Create, clientVars
  <2>2. connection_[c] = NoFd
    BY <1>7, ConnectorFacts DEF Create, IInv, ClientOK
  <2> QED
    BY <1>2, <1>7, <2>1, <2>2, CreateKeeps
<1>8. ASSUME NEW c \in Clients, Start(c)
      PROVE  \A d \in Clients : RealSock(d)'
  <2>1. connection_' = connection_
    BY <1>8, StartWaits DEF Start
  <2>2. connection_[c] = NoFd
    BY <1>8 DEF Start, IInv, ClientOK
  <2> QED
    BY <1>2, <1>8, <2>1, <2>2, StartKeeps
<1>9. ASSUME NEW c \in Clients,
             StartTimer(c) \/ ThreadDisconnect(c) \/ ThreadQueue(c) \/ TimerExpires(c)
      PROVE  \A d \in Clients : RealSock(d)'
  BY <1>1, <1>9 DEF StartTimer, ThreadDisconnect, ThreadQueue, TimerExpires, clientVars
<1>10. ASSUME NEW c \in Clients, Disconnect(c) \/ RunTask(c)
       PROVE  \A d \in Clients : RealSock(d)'
  <2>1. connection_' = connection_
    BY <1>10 DEF Disconnect, RunTask, clientVars
  <2>2. sock' = sock \/ (connection_[c] # NoFd /\ Shutdown(c))
    BY <1>10 DEF Disconnect, RunTask
  <2>3. CASE connection_[c] # NoFd /\ Shutdown(c)
    <3> SUFFICES ASSUME NEW d \in Clients, connection_[d] # NoFd
                 PROVE  sock'[connection_[d]] \in {"established", "half", "closed", "reset"}
      BY <2>1 DEF RealSock
    <3>1. sock[connection_[d]] \in {"established", "half", "closed", "reset"}
      BY DEF RealSock
    <3>2. connection_[d] \in Fds /\ connection_[c] \in Fds /\ DOMAIN sock = Fds
      BY <2>3 DEF IInv, Types, TypeOK
    <3> QED
      BY <2>3, <3>1, <3>2 DEF Shutdown
  <2> QED
    BY <1>1, <2>1, <2>2, <2>3
<1>11. ASSUME NEW c \in Clients, NEW state \in {"established", "refused"}, Answer(c, state)
       PROVE  \A d \in Clients : RealSock(d)'
  <2>1. connection_' = connection_
    BY <1>11 DEF Answer, clientVars
  <2>2. connection_[c] = NoFd
    BY <1>11 DEF Answer, IInv, ClientOK
  <2>3. OthersKept(c)
    BY <1>11, AnswerKeeps
  <2> QED
    BY <1>2, <2>1, <2>2, <2>3
<1>12. ASSUME NEW fd \in Fds, NEW state \in {"closed", "reset"}, PeerCloses(fd, state)
       PROVE  \A d \in Clients : RealSock(d)'
  <2>1. connection_' = connection_ /\ sock' = [sock EXCEPT ![fd] = state]
    BY <1>12 DEF PeerCloses, clientVars
  <2> SUFFICES ASSUME NEW d \in Clients, connection_[d] # NoFd
               PROVE  sock'[connection_[d]] \in {"established", "half", "closed", "reset"}
    BY <2>1 DEF RealSock
  <2>2. connection_[d] \in Fds /\ DOMAIN sock = Fds
    BY DEF IInv, Types, TypeOK
  <2>3. sock[connection_[d]] \in {"established", "half", "closed", "reset"}
    BY DEF RealSock
  <2> QED
    BY <2>1, <2>2, <2>3
<1> QED
  BY <1>3, <1>4, <1>5, <1>6, <1>7, <1>8, <1>9, <1>10, <1>11, <1>12 DEF Next, Handle

(* A connection is announced only for a socket whose connect succeeded,    *)
(* through retries and descriptors used again, when connect() takes its    *)
(* time.                                                                   *)
THEOREM OnlyRealConnectionsTheorem == AsyncConnect /\ Spec => []OnlyRealConnections
<1> DEFINE Inv == IInv /\ StartedInv /\ \A d \in Clients : RealSock(d)
<1>1. Init => Inv
  <2>1. Init => \A d \in Clients : RealSock(d)
    BY DEF Init, RealSock
  <2> QED
    BY <2>1, InitInv
<1>2. AsyncConnect /\ Inv /\ [Next]_vars => Inv'
  <2> SUFFICES ASSUME AsyncConnect, Inv, [Next]_vars
               PROVE  Inv'
    OBVIOUS
  <2>1. IInv' /\ StartedInv'
    BY NextKeeps
  <2>2. CASE Next
    BY <2>1, <2>2, RealKeeps
  <2>3. CASE UNCHANGED vars
    BY <2>1, <2>3 DEF vars, clientVars, RealSock
  <2> QED
    BY <2>2, <2>3
<1>3. Inv => OnlyRealConnections
  BY DEF IInv, ClientOK, RealSock, OnlyRealConnections
<1>4. AsyncConnect => AsyncConnect'
  BY DEF AsyncConnect
<1> HIDE DEF Inv
<1> QED
  BY <1>1, <1>2, <1>3, <1>4, PTL DEF Spec

-----------------------------------------------------------------------------
(* Every client that needs a timer has one, and nobody else.               *)

(* The head comes before the rest.                                         *)
LEMMA HeadFirst ==
  ASSUME NEW S, NEW s \in Seq(S), s # <<>>, NEW y \in Range(Tail(s))
  PROVE  Before(s, Head(s), y)
<1>1. /\ Tail(s) \in Seq(S) /\ Len(s) \in Nat \ {0} /\ Len(Tail(s)) = Len(s) - 1
      /\ Head(s) = s[1]
  BY EmptySeq, LenProperties, HeadTailProperties
<1>2. PICK i \in 1..Len(Tail(s)) : Tail(s)[i] = y
  <2>1. Tail(s) \in Seq(S)
    BY <1>1
  <2> QED
    BY ONLY <2>1, y \in Range(Tail(s)), InRange
<1>3. s[i+1] = y /\ i + 1 \in 1..Len(s) /\ 1 < i + 1 /\ 1 \in 1..Len(s)
  <2>1. Tail(s)[i] = s[i+1]
    BY HeadTailProperties
  <2> QED
    BY <1>1, <1>2, <2>1
<1> QED
  BY <1>1, <1>3 DEF Before

(* What comes before an element of the first part only is in it.           *)
LEMMA BeforeConcat ==
  ASSUME NEW S, NEW s \in Seq(S), NEW t \in Seq(S), NEW x, NEW y, y \notin Range(t),
         Before(s \o t, x, y)
  PROVE  x \in Range(s)
<1>1. /\ Len(s) \in Nat /\ Len(t) \in Nat
      /\ Len(s \o t) = Len(s) + Len(t)
      /\ \A i \in 1..(Len(s) + Len(t)) :
           (s \o t)[i] = IF i <= Len(s) THEN s[i] ELSE t[i - Len(s)]
  BY ConcatProperties, LenProperties
<1>2. PICK i \in 1..(Len(s) + Len(t)), j \in 1..(Len(s) + Len(t)) :
        i < j /\ (s \o t)[i] = x /\ (s \o t)[j] = y
  BY <1>1 DEF Before
<1>3. \A k \in 1..Len(t) : t[k] # y
  BY InRange
<1>4. j <= Len(s)
  <2> SUFFICES ASSUME ~(j <= Len(s)) PROVE FALSE
    OBVIOUS
  <2>1. t[j - Len(s)] = y /\ j - Len(s) \in 1..Len(t)
    BY <1>1, <1>2
  <2> QED
    BY <1>3, <2>1
<1>5. s[i] = x /\ i \in 1..Len(s)
  BY <1>1, <1>2, <1>4
<1> QED
  BY <1>5, InRange

(* No callback is left once a channel is handled.                          *)
LEMMA NoCallback ==
  ASSUME IInv, OrderInv, batch # <<>>, Head(batch) \notin Callbacks
  PROVE  \A c \in Clients : Expired(c) \notin Range(Tail(batch))
<1> SUFFICES ASSUME NEW c \in Clients, Expired(c) \in Range(Tail(batch))
             PROVE  FALSE
  OBVIOUS
<1>1. batch \in Seq(Entries) /\ Head(batch) \in Entries
  BY HeadTailProperties DEF IInv, Types
<1>2. Before(batch, Head(batch), Expired(c))
  BY <1>1, HeadFirst
<1> QED
  BY <1>1, <1>2 DEF OrderInv, Callbacks

(* The callbacks come before all that is left.                             *)
LEMMA TimersOrder ==
  ASSUME IInv, OrderInv, HandleTimers
  PROVE  OrderInv'
<1>1. PICK order \in Seq(Entries) :
        batch' = order \o Tail(batch) /\ Range(order) \subseteq {Expired(c) : c \in due}
  BY TimersBatch
<1>2. due \subseteq Clients /\ batch # <<>> /\ Head(batch) = TimerChannel
  BY DEF HandleTimers, IInv, Types, TypeOK
<1>3. Range(order) \subseteq Callbacks
  BY <1>1, <1>2 DEF Callbacks
<1>4. \A y \in Callbacks : y \notin Range(Tail(batch))
  <2>1. Head(batch) \notin Callbacks
    BY <1>2, Tags DEF Callbacks
  <2> QED
    BY <1>2, <2>1, NoCallback DEF Callbacks
<1>5. Tail(batch) \in Seq(Entries)
  BY TimersBatch
<1>6. ASSUME NEW x \in Entries, NEW y \in Callbacks, Before(batch', x, y)
      PROVE  x \in Callbacks
  <2>1. Before(order \o Tail(batch), x, y) /\ y \notin Range(Tail(batch))
    BY <1>1, <1>4, <1>6
  <2>2. x \in Range(order)
    BY ONLY <2>1, <1>5, order \in Seq(Entries), BeforeConcat
  <2> QED
    BY <1>3, <2>2
<1> QED
  BY <1>6 DEF OrderInv

(* Entries that are handled keep the order and the callbacks that wait.    *)
LEMMA BatchShrinks ==
  ASSUME OrderInv, WaitInv, retryTimer_' = retryTimer_, batch' = batch \/ Thinned(batch', batch)
  PROVE  OrderInv' /\ WaitInv'
<1>1. /\ \A x, y : Before(batch', x, y) => Before(batch, x, y)
      /\ \A x : Once(batch, x) => Once(batch', x)
      /\ Range(batch') \subseteq Range(batch)
  BY DEF Thinned
<1> QED
  BY <1>1 DEF OrderInv, WaitInv

(* No callback waits.                                                      *)
LEMMA NoneWaits ==
  ASSUME batch' \in Seq(Entries), \A c \in Clients : Expired(c) \notin Range(batch')
  PROVE  OrderInv' /\ WaitInv'
<1>1. \A x : \A y \in Callbacks : ~Before(batch', x, y)
  BY InRange DEF Before, Callbacks
<1> QED
  BY <1>1 DEF OrderInv, WaitInv

(* The first part of a concatenation holds what the second does not.       *)
LEMMA OnceFirst ==
  ASSUME NEW S, NEW s \in Seq(S), NEW t \in Seq(S), NEW x, Once(s, x), x \notin Range(t)
  PROVE  Once(s \o t, x)
<1>1. /\ Len(s) \in Nat /\ Len(t) \in Nat
      /\ \A i \in 1..Len(t) : t[i] # x
  BY InRange, LenProperties
<1>2. /\ Len(s \o t) = Len(s) + Len(t)
      /\ \A i \in 1..(Len(s) + Len(t)) :
           (s \o t)[i] = IF i <= Len(s) THEN s[i] ELSE t[i - Len(s)]
  BY ConcatProperties
<1> SUFFICES ASSUME NEW i \in 1..(Len(s) + Len(t)), NEW j \in 1..(Len(s) + Len(t)),
                    (s \o t)[i] = x, (s \o t)[j] = x
             PROVE  i = j
  BY <1>2 DEF Once
<1>3. \A k \in 1..(Len(s) + Len(t)) : (s \o t)[k] = x => k <= Len(s)
  <2> SUFFICES ASSUME NEW k \in 1..(Len(s) + Len(t)), (s \o t)[k] = x, ~(k <= Len(s))
               PROVE  FALSE
    OBVIOUS
  <2>1. t[k - Len(s)] = x /\ k - Len(s) \in 1..Len(t)
    BY <1>1, <1>2
  <2> QED
    BY <1>1, <2>1
<1>4. i \in 1..Len(s) /\ j \in 1..Len(s) /\ s[i] = x /\ s[j] = x
  BY <1>1, <1>2, <1>3
<1> QED
  BY <1>4 DEF Once

(* Each timer that is due gets one callback.                               *)
LEMMA TimersWait ==
  ASSUME IInv, StartedInv, OrderInv, HandleTimers
  PROVE  WaitInv'
<1>1. PICK order \in Seq(Entries) :
        /\ batch' = order \o Tail(batch) /\ Range(order) \subseteq {Expired(c) : c \in due}
        /\ Range(batch') = Range(order) \cup Range(Tail(batch))
        /\ \A x : Once(order, x)
  BY TimersBatch
<1>2. /\ batch # <<>> /\ Head(batch) = TimerChannel /\ due \subseteq timers /\ due \subseteq Clients
      /\ retryTimer_' = retryTimer_ /\ Tail(batch) \in Seq(Entries)
  BY TimersBatch DEF HandleTimers, IInv, Types, TypeOK
<1>3. \A c \in Clients : Expired(c) \notin Range(Tail(batch))
  <2>1. Head(batch) \notin Callbacks
    BY <1>2, Tags DEF Callbacks
  <2> QED
    BY <1>2, <2>1, NoCallback
<1> SUFFICES ASSUME NEW c \in Clients, Expired(c) \in Range(batch')
             PROVE  retryTimer_'[c] /\ Once(batch', Expired(c))
  BY DEF WaitInv
<1>4. retryTimer_[c]
  <2>1. Expired(c) \in {Expired(d) : d \in due}
    BY <1>1, <1>3
  <2>2. c \in due
    BY <2>1, Tags
  <2> QED
    BY <1>2, <2>2 DEF StartedInv
<1>5. Once(order \o Tail(batch), Expired(c))
  <2>1. Once(order, Expired(c)) /\ Expired(c) \notin Range(Tail(batch))
    BY <1>1, <1>3
  <2> QED
    BY ONLY <2>1, <1>2, order \in Seq(Entries), OnceFirst
<1> QED
  BY <1>1, <1>2, <1>4, <1>5

(* The timer is cancelled only when the Connector has connected.           *)
LEMMA CancelEffect ==
  ASSUME IInv, NEW c \in Clients, NEW con, NEW s, NEW inRetry, NEW list,
         con \in [fd : Fds, connected_ : BOOLEAN, pooling : BOOLEAN],
         \/ HandleWrite(c, con, s, inRetry, list)
         \/ ConnectorStart(c, con, s, inRetry, list)
  PROVE  \/ retryTimer_' = retryTimer_
         \/ retryTimer_' = [retryTimer_ EXCEPT ![c] = FALSE] /\ connector_'[c].connected_
<1>1. ASSUME NEW t, HandleWrite(c, con, t, inRetry, list)
      PROVE  \/ retryTimer_' = retryTimer_
             \/ retryTimer_' = [retryTimer_ EXCEPT ![c] = FALSE] /\ connector_'[c].connected_
  <2> DEFINE failed == SocketError(t[con.fd])
             k == [con EXCEPT !.pooling = FALSE, !.connected_ = ~failed]
  <2>1. connector_' = [connector_ EXCEPT ![c] = k]
    BY <1>1 DEF HandleWrite
  <2>2. \/ failed /\ retryTimer_' = retryTimer_
        \/ ~failed /\ retryTimer_' = [retryTimer_ EXCEPT ![c] = FALSE]
    BY <1>1 DEF HandleWrite, NewConnection, clientVars, timerVars
  <2>3. ~failed => k.connected_
    OBVIOUS
  <2> HIDE DEF k
  <2>4. connector_'[c] = k
    BY <2>1 DEF IInv, Types, TypeOK
  <2> QED
    BY <2>2, <2>3, <2>4
<1>2. CASE ConnectorStart(c, con, s, inRetry, list)
  <2>1. PICK now :
          LET t == [s EXCEPT ![con.fd] = now] IN
          \/ UNCHANGED <<clientVars, fault>>
          \/ HandleWrite(c, con, t, inRetry, list)
    BY <1>2 DEF ConnectorStart
  <2> QED
    BY <1>1, <2>1 DEF clientVars, timerVars
<1> QED
  BY <1>1, <1>2

(* What retry() leaves of the batch has the order and the callbacks of it. *)
LEMMA LeftOrder ==
  ASSUME IInv, OrderInv, WaitInv, NEW c \in Clients, batch # <<>>, Head(batch) = Expired(c)
  PROVE  LET b == Tail(LeftBehind(c)) IN
         /\ \A x \in Entries, y \in Callbacks : Before(b, x, y) => x \in Callbacks
         /\ \A d \in Clients :
              Expired(d) \in Range(b) => d # c /\ Expired(d) \in Range(batch) /\ Once(b, Expired(d))
<1> DEFINE b == LeftBehind(c)
<1>1. /\ batch \in Seq(Entries) /\ Len(batch) \in Nat \ {0} /\ DOMAIN batch = 1..Len(batch)
      /\ \A i \in 1..Len(batch) : batch[i] \in Entries
      /\ Head(batch) = batch[1]
  BY LenProperties, ElementOfSeq, EmptySeq DEF IInv, Types
<1>2. /\ b \in Seq(Entries) /\ Len(b) = Len(batch)
      /\ \A i \in 1..Len(batch) :
           b[i] = IF batch[i] = ConnectorChannel(c) THEN Dead(c) ELSE batch[i]
  BY <1>1, DeadLeft DEF LeftBehind
<1> HIDE DEF b
<1>3. /\ \A x : x \in Range(batch) <=> \E i \in 1..Len(batch) : batch[i] = x
      /\ \A x : x \in Range(b) <=> \E i \in 1..Len(b) : b[i] = x
  <2>1. \A x : x \in Range(batch) <=> \E i \in 1..Len(batch) : batch[i] = x
    BY <1>1, InRange
  <2>2. b \in Seq(Entries)
    BY <1>2
  <2>3. \A x : x \in Range(b) <=> \E i \in 1..Len(b) : b[i] = x
    BY ONLY <2>2, InRange
  <2> QED
    BY <2>1, <2>3
<1>4. b # <<>> /\ Head(b) = Expired(c)
  <2>1. b[1] = Expired(c)
    BY <1>1, <1>2, Tags
  <2> QED
    BY <1>1, <1>2, <2>1
<1>5. \A d \in Clients, i \in 1..Len(batch) : b[i] = Expired(d) <=> batch[i] = Expired(d)
  BY <1>2, Tags
<1>6. /\ Thinned(Tail(b), b)
      /\ Once(b, Expired(c)) => Expired(c) \notin Range(Tail(b))
  BY <1>2, <1>4, TailThinned
<1>7. \A d \in Clients : Expired(d) \in Range(b) => Expired(d) \in Range(batch) /\ Once(b, Expired(d))
  <2> SUFFICES ASSUME NEW d \in Clients, Expired(d) \in Range(b)
               PROVE  Expired(d) \in Range(batch) /\ Once(b, Expired(d))
    OBVIOUS
  <2>1. Expired(d) \in Range(batch)
    BY <1>2, <1>3, <1>5
  <2>2. Once(batch, Expired(d))
    BY <2>1 DEF WaitInv
  <2> QED
    BY <1>2, <1>5, <2>1, <2>2 DEF Once
<1>8. ASSUME NEW x \in Entries, NEW y \in Callbacks, Before(b, x, y)
      PROVE  x \in Callbacks
  <2>1. PICK i \in 1..Len(batch), j \in 1..Len(batch) : i < j /\ b[i] = x /\ b[j] = y
    BY <1>2, <1>8 DEF Before
  <2>2. batch[j] = y
    BY <1>5, <2>1 DEF Callbacks
  <2>3. batch[i] \in Callbacks
    BY <1>1, <2>1, <2>2 DEF OrderInv, Before
  <2>4. batch[i] # ConnectorChannel(c)
    BY <2>3, Tags DEF Callbacks
  <2> QED
    BY <1>2, <2>1, <2>3, <2>4
<1>9. \A x \in Entries, y \in Callbacks : Before(Tail(b), x, y) => x \in Callbacks
  BY <1>6, <1>8 DEF Thinned
<1>10. \A d \in Clients :
         Expired(d) \in Range(Tail(b))
           => d # c /\ Expired(d) \in Range(batch) /\ Once(Tail(b), Expired(d))
  <2>1. Expired(c) \in Range(batch)
    BY <1>1, <1>3
  <2>2. Expired(c) \notin Range(Tail(b))
    <3>1. Expired(c) \in Range(b)
      BY <1>2, <1>3, <1>4, <1>5, <2>1
    <3> QED
      BY <3>1, <1>6, <1>7
  <2> QED
    BY <2>2, <1>6, <1>7 DEF Thinned
<1> QED
  BY <1>9, <1>10 DEF b

(* retry() keeps the timer, unless it connects at once.                    *)
LEMMA ExpiredTimer ==
  ASSUME IInv, StartedInv, OrderInv, WaitInv, NeedInv, NEW c \in Clients, HandleExpired(c)
  PROVE  OrderInv' /\ WaitInv' /\ NeedInv'
<1>1. /\ batch # <<>> /\ Head(batch) = Expired(c) /\ Expired(c) \in Range(batch)
      /\ client' = client
  BY BatchTail DEF HandleExpired
<1>2. retryTimer_[c] /\ client[c] = "started" /\ retryTimer_ \in [Clients -> BOOLEAN]
  BY <1>1 DEF WaitInv, StartedInv, IInv, Types, TypeOK
<1>3. CASE connected_[c]
  <2>1. batch' = Tail(batch) /\ UNCHANGED <<connector_, retryTimer_>>
    BY <1>3 DEF HandleExpired, clientVars, timerVars
  <2>2. Thinned(batch', batch)
    BY <1>1, <2>1, BatchTail
  <2>3. NeedInv'
    BY <1>1, <2>1 DEF NeedInv
  <2> QED
    BY <2>1, <2>2, <2>3, BatchShrinks
<1>4. CASE ~connected_[c]
  <2>1. Retry(c) /\ batch' = Tail(LeftBehind(c))
    BY <1>2, <1>4 DEF HandleExpired
  <2>2. NewConnector(Destroyed(c)) \in [fd : Fds, connected_ : BOOLEAN, pooling : BOOLEAN]
    BY <1>4, NextConnector DEF Prepared
  <2>3. \/ retryTimer_' = retryTimer_
        \/ retryTimer_' = [retryTimer_ EXCEPT ![c] = FALSE] /\ connector_'[c].connected_
    BY <2>1, <2>2, CancelEffect DEF Retry
  <2>4. \A d \in Clients \ {c} : connector_'[d] = connector_[d] /\ retryTimer_'[d] = retryTimer_[d]
    BY <1>2, <2>3, HandleExpiredKeeps DEF OthersKept
  <2>5. NeedInv'
    BY <1>1, <1>2, <2>3, <2>4 DEF NeedInv
  <2>6. /\ \A x \in Entries, y \in Callbacks : Before(batch', x, y) => x \in Callbacks
        /\ \A d \in Clients :
             Expired(d) \in Range(batch')
               => d # c /\ Expired(d) \in Range(batch) /\ Once(batch', Expired(d))
    BY <1>1, <2>1, LeftOrder
  <2>7. OrderInv'
    BY <2>6 DEF OrderInv
  <2>8. WaitInv'
    BY <2>4, <2>6 DEF WaitInv
  <2> QED
    BY <2>5, <2>7, <2>8
<1> QED
  BY <1>3, <1>4

(* The timer goes when the attempt has succeeded.                          *)
LEMMA ConnectorTimer ==
  ASSUME IInv, OrderInv, NeedInv, NEW c \in Clients, HandleConnector(c)
  PROVE  OrderInv' /\ WaitInv' /\ NeedInv'
<1>1. /\ batch # <<>> /\ Head(batch) = ConnectorChannel(c) /\ batch' = Tail(batch)
      /\ HandleWrite(c, connector_[c], sock, FALSE, ready)
      /\ client' = client
  BY DEF HandleConnector
<1>2. OrderInv' /\ WaitInv'
  <2>1. batch' \in Seq(Entries)
    BY <1>1, BatchTail
  <2>2. \A d \in Clients : Expired(d) \notin Range(batch')
    BY <1>1, NoCallback, Tags DEF Callbacks
  <2> QED
    BY <2>1, <2>2, NoneWaits
<1>3. connector_[c] \in [fd : Fds, connected_ : BOOLEAN, pooling : BOOLEAN] /\ ~connector_[c].connected_
  <2>1. connector_[c].pooling
    BY <1>1, BatchTail DEF IInv, ActiveLive, Active
  <2> QED
    BY <2>1 DEF IInv, ClientOK, Types, TypeOK
<1>4. \/ retryTimer_' = retryTimer_
      \/ retryTimer_' = [retryTimer_ EXCEPT ![c] = FALSE] /\ connector_'[c].connected_
  BY <1>1, <1>3, CancelEffect
<1>5. \A d \in Clients \ {c} : connector_'[d] = connector_[d] /\ retryTimer_'[d] = retryTimer_[d]
  BY <1>4, HandleConnectorKeeps DEF OthersKept, IInv, Types, TypeOK
<1>6. NeedInv'
  BY <1>1, <1>3, <1>4, <1>5 DEF NeedInv
<1> QED
  BY <1>2, <1>6

(* Clients come, start and go between two batches.                         *)
LEMMA LifeTimer ==
  ASSUME IInv, OrderInv, WaitInv, NeedInv, NEW c \in Clients,
         Create(c) \/ Start(c) \/ StartTimer(c) \/ Destroy(c)
  PROVE  OrderInv' /\ WaitInv' /\ NeedInv'
<1>1. /\ batch' = batch /\ batch \in Seq(Entries)
      /\ client \in [Clients -> {"created", "starting", "started", "destroyed"}]
      /\ retryTimer_ \in [Clients -> BOOLEAN]
  BY DEF Create, Start, StartTimer, Destroy, IInv, Types, TypeOK
<1>2. CASE StartTimer(c)
  <2>1. batch = <<>>
    BY <1>2 DEF StartTimer, IInv, BatchInv
  <2>2. \A d \in Clients : Expired(d) \notin Range(batch')
    BY <1>1, <2>1 DEF Range
  <2>3. NeedInv'
    BY <1>1, <1>2 DEF StartTimer, NeedInv
  <2> QED
    BY <1>1, <2>2, <2>3, NoneWaits
<1>3. CASE Create(c) \/ Start(c) \/ Destroy(c)
  <2>1. batch = <<>>
    BY <1>3 DEF Create, Start, Destroy, Idle
  <2>2. \A d \in Clients : Expired(d) \notin Range(batch')
    BY <1>1, <2>1 DEF Range
  <2>3. OthersKept(c) /\ client'[c] # "started"
    BY <1>1, <1>3, CreateKeeps, StartKeeps, DestroyKeeps DEF Create, Start, Destroy
  <2>4. \A d \in Clients \ {c} : retryTimer_'[d] = retryTimer_[d]
    <3>1. CASE Create(c)
      BY <3>1 DEF Create, clientVars, timerVars
    <3>2. CASE Start(c)
      BY <1>1, <3>2, TimerEffect DEF Start
    <3>3. CASE Destroy(c)
      BY <1>1, <3>3 DEF Destroy
    <3> QED
      BY <1>3, <3>1, <3>2, <3>3
  <2>5. NeedInv'
    BY <2>3, <2>4 DEF NeedInv, OthersKept
  <2> QED
    BY <1>1, <2>2, <2>5, NoneWaits
<1> QED
  BY <1>2, <1>3

(* Every step keeps the timers, and the callbacks in front.                *)
LEMMA TimerKeeps ==
  ASSUME IInv, StartedInv, OrderInv, WaitInv, NeedInv, Next
  PROVE  OrderInv' /\ WaitInv' /\ NeedInv'
<1>1. CASE Poll
  <2>1. batch' = ready /\ UNCHANGED <<client, connector_, retryTimer_>>
    BY <1>1 DEF Poll, clientVars, timerVars
  <2>2. batch' \in Seq(Entries) /\ \A c \in Clients : Expired(c) \notin Range(batch')
    BY <2>1, InRange, Kinds, SeqMonotonic DEF IInv, Types
  <2>3. NeedInv'
    BY <2>1 DEF NeedInv
  <2> QED
    BY <2>2, <2>3, NoneWaits
<1>2. CASE HandleTimers
  <2>1. NeedInv'
    BY <1>2 DEF HandleTimers, NeedInv
  <2> QED
    BY <1>2, <2>1, TimersOrder, TimersWait
<1>3. ASSUME NEW c \in Clients, HandleExpired(c) \/ HandleConnector(c)
      PROVE  OrderInv' /\ WaitInv' /\ NeedInv'
  BY <1>3, ExpiredTimer, ConnectorTimer
<1>4. ASSUME NEW c \in Clients, HandleClose(c)
      PROVE  OrderInv' /\ WaitInv' /\ NeedInv'
  <2>1. batch # <<>> /\ batch' = Tail(batch) /\ UNCHANGED <<client, connector_, retryTimer_>>
    BY <1>4 DEF HandleClose, timerVars
  <2>2. Thinned(batch', batch)
    BY <2>1, BatchTail
  <2>3. NeedInv'
    BY <2>1 DEF NeedInv
  <2> QED
    BY <2>1, <2>2, <2>3, BatchShrinks
<1>5. ASSUME NEW c \in Clients, Create(c) \/ Start(c) \/ StartTimer(c) \/ Destroy(c)
      PROVE  OrderInv' /\ WaitInv' /\ NeedInv'
  BY <1>5, LifeTimer
<1>6. ASSUME UNCHANGED <<client, connector_, retryTimer_, batch>>
      PROVE  OrderInv' /\ WaitInv' /\ NeedInv'
  BY <1>6 DEF OrderInv, WaitInv, NeedInv
<1>7. ASSUME NEW c \in Clients,
             \/ Disconnect(c) \/ ThreadDisconnect(c) \/ ThreadQueue(c) \/ RunTask(c)
             \/ TimerExpires(c) \/ \E state \in {"established", "refused"} : Answer(c, state)
      PROVE  OrderInv' /\ WaitInv' /\ NeedInv'
  <2>1. UNCHANGED <<client, connector_, retryTimer_, batch>>
    BY <1>7 DEF Disconnect, ThreadDisconnect, ThreadQueue, RunTask, TimerExpires, Answer,
                clientVars, timerVars
  <2> QED
    BY <1>6, <2>1
<1>8. ASSUME NEW fd \in Fds, NEW state \in {"closed", "reset"}, PeerCloses(fd, state)
      PROVE  OrderInv' /\ WaitInv' /\ NeedInv'
  BY <1>6, <1>8 DEF PeerCloses, clientVars, timerVars
<1> QED
  BY <1>1, <1>2, <1>3, <1>4, <1>5, <1>7, <1>8 DEF Next, Handle

(* The repeating timer exists only for a client that is started, and does  *)
(* for every started client whose Connector has not connected: through     *)
(* every retry(), hand-over and destruction, whichever races are possible. *)
THEOREM TimerFollowsClientTheorem == Spec => []TimerFollowsClient
<1> DEFINE Inv == IInv /\ StartedInv /\ OrderInv /\ WaitInv /\ NeedInv
<1>1. Init => Inv
  <2> SUFFICES ASSUME Init PROVE Inv
    OBVIOUS
  <2>1. Range(<<>>) = {} /\ Len(<<>>) = 0
    BY DEF Range
  <2>2. OrderInv /\ WaitInv /\ NeedInv
    BY <2>1 DEF Init, OrderInv, WaitInv, NeedInv, Before
  <2> QED
    BY <2>2, InitInv
<1>2. Inv /\ [Next]_vars => Inv'
  <2> SUFFICES ASSUME Inv, [Next]_vars
               PROVE  Inv'
    OBVIOUS
  <2>1. IInv' /\ StartedInv'
    BY NextKeeps
  <2>2. CASE Next
    BY <2>1, <2>2, TimerKeeps
  <2>3. CASE UNCHANGED vars
    BY <2>1, <2>3 DEF vars, clientVars, timerVars, OrderInv, WaitInv, NeedInv
  <2> QED
    BY <2>2, <2>3
<1>3. Inv => TimerFollowsClient
  BY DEF StartedInv, NeedInv, TimerFollowsClient
<1> HIDE DEF Inv
<1> QED
  BY <1>1, <1>2, <1>3, PTL DEF Spec
=============================================================================
