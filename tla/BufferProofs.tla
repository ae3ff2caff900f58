---------------------------- MODULE BufferProofs ----------------------------
(***************************************************************************)
(* Proofs about Buffer, for every base, size of the reserved and initial   *)
(* space, length of the arguments and size of the vector.                  *)
(***************************************************************************)
EXTENDS Buffer, SequenceTheorems, WellFoundedInduction, TLAPS

(* The indices are in order and the vector, which never shrinks, holds the *)
(* reserved space.                                                         *)
WellFormed(b) == IsBuffer(b) /\ kCheapPrepend <= b.size

IInv == WellFormed(buf) /\ WellFormed(rhs)

-----------------------------------------------------------------------------
(* Sequences of bytes.                                                     *)

(* A function on 1..n is a sequence of length n.                           *)
LEMMA FunctionIsSeq ==
  ASSUME NEW S, NEW n \in Nat, NEW f \in [1..n -> S]
  PROVE  f \in Seq(S) /\ Len(f) = n
OBVIOUS

(* What the actions are given are sequences of bytes.                      *)
LEMMA DataAreBytes ==
  ASSUME NEW n \in Nat, NEW bytes \in Data(n)
  PROVE  bytes \in Seq(Byte) /\ Len(bytes) \in 0..n
<1>1. PICK k \in 0..n : bytes \in [1..k -> Byte]
  BY DEF Data
<1> QED
  BY <1>1, FunctionIsSeq

(* What stands where in a concatenation.                                   *)
LEMMA ConcatAt ==
  ASSUME NEW S, NEW s1 \in Seq(S), NEW s2 \in Seq(S)
  PROVE  /\ s1 \o s2 \in Seq(S) /\ Len(s1 \o s2) = Len(s1) + Len(s2)
         /\ \A i \in 1..Len(s1) : (s1 \o s2)[i] = s1[i]
         /\ \A i \in 1..Len(s2) : (s1 \o s2)[Len(s1) + i] = s2[i]
<1>1. Len(s1) \in Nat /\ Len(s2) \in Nat
  OBVIOUS
<1>2. /\ s1 \o s2 \in Seq(S) /\ Len(s1 \o s2) = Len(s1) + Len(s2)
      /\ \A i \in 1..Len(s1) + Len(s2) :
           (s1 \o s2)[i] = IF i <= Len(s1) THEN s1[i] ELSE s2[i - Len(s1)]
  BY ConcatProperties
<1>3. ASSUME NEW i \in 1..Len(s1) PROVE (s1 \o s2)[i] = s1[i]
  <2>1. i \in 1..Len(s1) + Len(s2) /\ i <= Len(s1)
    BY <1>1
  <2> QED
    BY <1>2, <2>1
<1>4. ASSUME NEW i \in 1..Len(s2) PROVE (s1 \o s2)[Len(s1) + i] = s2[i]
  <2>1. /\ Len(s1) + i \in 1..Len(s1) + Len(s2) /\ ~(Len(s1) + i <= Len(s1))
        /\ (Len(s1) + i) - Len(s1) = i
    BY <1>1
  <2> QED
    BY <1>2, <2>1
<1> QED
  BY <1>2, <1>3, <1>4

(* Concatenation, under a name that the provers do not look into.          *)
Cat(s, t) == s \o t

(* Concatenation is associative.                                           *)
LEMMA CatAssoc ==
  ASSUME NEW S, NEW s \in Seq(S), NEW t \in Seq(S), NEW u \in Seq(S)
  PROVE  Cat(s, Cat(t, u)) = Cat(Cat(s, t), u)
<1>1. (s \o t) \o u = s \o (t \o u)
  BY ONLY ConcatAssociative
<1> QED
  BY ONLY <1>1 DEF Cat

(* A sequence cut in two is its two parts.                                 *)
LEMMA CutInTwo ==
  ASSUME NEW S, NEW s \in Seq(S), NEW n \in Nat, n <= Len(s)
  PROVE  /\ SubSeq(s, 1, n) \in Seq(S) /\ Len(SubSeq(s, 1, n)) = n
         /\ SubSeq(s, n + 1, Len(s)) \in Seq(S)
         /\ SubSeq(s, 1, n) \o SubSeq(s, n + 1, Len(s)) = s
<1> DEFINE s1 == SubSeq(s, 1, n)
           s2 == SubSeq(s, n + 1, Len(s))
<1>1. Len(s) \in Nat /\ \A i \in 1..Len(s) : s[i] \in S
  BY ElementOfSeq
<1>2. (\A i \in 1..n : s[i] \in S) /\ (\A i \in n + 1..Len(s) : s[i] \in S)
  BY <1>1
<1>3. /\ s1 \in Seq(S) /\ Len(s1) = n
      /\ \A i \in 1..n : s1[i] = s[i]
  BY <1>1, <1>2, SubSeqProperties
<1>4. /\ s2 \in Seq(S) /\ Len(s2) = Len(s) - n
      /\ \A i \in 1..Len(s) - n : s2[i] = s[n + i]
  <2>1. /\ s2 \in Seq(S)
        /\ Len(s2) = IF n + 1 <= Len(s) THEN Len(s) - (n + 1) + 1 ELSE 0
        /\ \A i \in 1..Len(s) - (n + 1) + 1 : s2[i] = s[n + 1 + i - 1]
    BY <1>1, <1>2, SubSeqProperties
  <2> HIDE DEF s2
  <2> QED
    BY <1>1, <2>1
<1> HIDE DEF s1, s2
<1>5. /\ s1 \o s2 \in Seq(S) /\ Len(s1 \o s2) = Len(s)
      /\ \A i \in 1..n : (s1 \o s2)[i] = s1[i]
      /\ \A i \in 1..Len(s) - n : (s1 \o s2)[n + i] = s2[i]
  <2>1. Len(s1) + Len(s2) = Len(s)
    BY <1>1, <1>3, <1>4
  <2> QED
    BY <1>3, <1>4, <2>1, ConcatAt
<1>6. ASSUME NEW i \in 1..Len(s) PROVE (s1 \o s2)[i] = s[i]
  <2>1. CASE i <= n
    BY <1>1, <1>3, <1>5, <2>1
  <2>2. CASE ~(i <= n)
    <3>1. i - n \in 1..Len(s) - n /\ n + (i - n) = i
      BY <1>1, <2>2
    <3> QED
      BY <1>4, <1>5, <3>1
  <2> QED
    BY <2>1, <2>2
<1>7. s1 \o s2 = s
  BY <1>5, <1>6, SeqEqual
<1> QED
  BY <1>3, <1>4, <1>7 DEF s1, s2

-----------------------------------------------------------------------------
(* The parts of a buffer.                                                  *)

(* The members of a buffer and the sizes computed from them.               *)
LEMMA Members ==
  ASSUME NEW b, WellFormed(b)
  PROVE  /\ b.size \in Nat /\ b.readerIndex_ \in Nat /\ b.writerIndex_ \in Nat
         /\ b.data \in [0..b.size - 1 -> Byte]
         /\ b.readerIndex_ <= b.writerIndex_ /\ b.writerIndex_ <= b.size
         /\ kCheapPrepend <= b.size /\ kCheapPrepend \in Nat
         /\ ReadableBytes(b) = b.writerIndex_ - b.readerIndex_ /\ ReadableBytes(b) \in Nat
         /\ WritableBytes(b) = b.size - b.writerIndex_ /\ WritableBytes(b) \in Nat
         /\ PrependableBytes(b) = b.readerIndex_
<1>1. kCheapPrepend \in Nat
  BY SizesAssumption
<1> QED
  BY <1>1 DEF WellFormed, IsBuffer, ReadableBytes, WritableBytes, PrependableBytes

(* The place of the i-th readable byte.                                    *)
LEMMA PlaceOfByte ==
  ASSUME NEW size \in Nat, NEW r \in Nat, NEW w \in Nat, r <= w, w <= size,
         NEW i \in 1..w - r
  PROVE  r + i - 1 \in 0..size - 1 /\ r + i - 1 < w /\ r + i - 1 >= r
OBVIOUS

(* The contents are the bytes between the two indices.                     *)
LEMMA ContentsAreBytes ==
  ASSUME NEW b, WellFormed(b)
  PROVE  /\ Contents(b) \in Seq(Byte) /\ Len(Contents(b)) = ReadableBytes(b)
         /\ \A i \in 1..ReadableBytes(b) : Contents(b)[i] = b.data[b.readerIndex_ + i - 1]
<1>1. /\ b.size \in Nat /\ b.readerIndex_ \in Nat /\ b.writerIndex_ \in Nat
      /\ b.data \in [0..b.size - 1 -> Byte]
      /\ b.readerIndex_ <= b.writerIndex_ /\ b.writerIndex_ <= b.size
      /\ ReadableBytes(b) = b.writerIndex_ - b.readerIndex_ /\ ReadableBytes(b) \in Nat
  BY Members
<1>2. \A i \in 1..ReadableBytes(b) : b.readerIndex_ + i - 1 \in 0..b.size - 1
  BY <1>1, PlaceOfByte
<1>3. Contents(b) \in [1..ReadableBytes(b) -> Byte]
  BY <1>1, <1>2 DEF Contents, Peek
<1>4. Contents(b) \in Seq(Byte) /\ Len(Contents(b)) = ReadableBytes(b)
  BY <1>1, <1>3, FunctionIsSeq
<1> QED
  BY <1>4 DEF Contents, Peek

(* Contents that agree with a sequence at every place are that sequence.   *)
LEMMA ContentsEqual ==
  ASSUME NEW b, WellFormed(b), NEW s \in Seq(Byte), Len(s) = ReadableBytes(b),
         \A i \in 1..Len(s) : b.data[b.readerIndex_ + i - 1] = s[i]
  PROVE  Contents(b) = s
<1>1. Contents(b) \in Seq(Byte) /\ Len(Contents(b)) = Len(s)
  BY ContentsAreBytes
<1>2. \A i \in 1..Len(s) : Contents(b)[i] = s[i]
  BY ContentsAreBytes
<1> QED
  BY <1>1, <1>2, SeqEqual

(* The same for two sequences that lie one behind the other.               *)
LEMMA ContentsConcat ==
  ASSUME NEW b, WellFormed(b), NEW s1 \in Seq(Byte), NEW s2 \in Seq(Byte),
         ReadableBytes(b) = Len(s1) + Len(s2),
         \A i \in 1..Len(s1) : b.data[b.readerIndex_ + i - 1] = s1[i],
         \A i \in 1..Len(s2) : b.data[b.readerIndex_ + Len(s1) + i - 1] = s2[i]
  PROVE  Contents(b) = s1 \o s2
<1>1. /\ s1 \o s2 \in Seq(Byte) /\ Len(s1 \o s2) = Len(s1) + Len(s2)
      /\ \A i \in 1..Len(s1) : (s1 \o s2)[i] = s1[i]
      /\ \A i \in 1..Len(s2) : (s1 \o s2)[Len(s1) + i] = s2[i]
  BY ConcatAt
<1>2. b.readerIndex_ \in Nat /\ Len(s1) \in Nat /\ Len(s2) \in Nat
  BY Members
<1>3. ASSUME NEW i \in 1..Len(s1) + Len(s2)
      PROVE  b.data[b.readerIndex_ + i - 1] = (s1 \o s2)[i]
  <2>1. CASE i <= Len(s1)
    <3>1. i \in 1..Len(s1)
      BY <1>2, <2>1
    <3> QED
      BY <1>1, <3>1
  <2>2. CASE ~(i <= Len(s1))
    <3>1. i - Len(s1) \in 1..Len(s2) /\ Len(s1) + (i - Len(s1)) = i
      BY <1>2, <2>2
    <3>2. b.readerIndex_ + Len(s1) + (i - Len(s1)) - 1 = b.readerIndex_ + i - 1
      BY <1>2
    <3> QED
      BY <1>1, <3>1, <3>2
  <2> QED
    BY <2>1, <2>2
<1> QED
  BY <1>1, <1>3, ContentsEqual

(* A buffer with other indices is one, if they are in order.               *)
LEMMA AtProperties ==
  ASSUME NEW b, WellFormed(b), NEW r \in Nat, NEW w \in Nat, r <= w, w <= b.size
  PROVE  /\ WellFormed(At(b, r, w))
         /\ At(b, r, w).size = b.size /\ At(b, r, w).data = b.data
         /\ At(b, r, w).readerIndex_ = r /\ At(b, r, w).writerIndex_ = w
BY DEF WellFormed, IsBuffer, At

(* Copying writes the bytes in their place and nothing else.               *)
LEMMA CopyProperties ==
  ASSUME NEW b, WellFormed(b), NEW at \in Nat, NEW bytes \in Seq(Byte),
         at + Len(bytes) <= b.size
  PROVE  /\ WellFormed(Copy(b, at, bytes))
         /\ Copy(b, at, bytes).size = b.size
         /\ Copy(b, at, bytes).readerIndex_ = b.readerIndex_
         /\ Copy(b, at, bytes).writerIndex_ = b.writerIndex_
         /\ \A i \in 1..Len(bytes) : Copy(b, at, bytes).data[at + i - 1] = bytes[i]
         /\ \A i \in 0..b.size - 1 : i < at => Copy(b, at, bytes).data[i] = b.data[i]
         /\ \A i \in 0..b.size - 1 : i >= at + Len(bytes) =>
              Copy(b, at, bytes).data[i] = b.data[i]
<1> DEFINE d == [i \in 0..b.size - 1 |->
                   IF i - at \in 0..Len(bytes) - 1 THEN bytes[i - at + 1] ELSE b.data[i]]
<1>1. b.size \in Nat /\ b.data \in [0..b.size - 1 -> Byte] /\ Len(bytes) \in Nat
  BY Members
<1>2. d \in [0..b.size - 1 -> Byte]
  <2>1. ASSUME NEW i \in 0..b.size - 1
        PROVE  (IF i - at \in 0..Len(bytes) - 1 THEN bytes[i - at + 1] ELSE b.data[i]) \in Byte
    <3>1. CASE i - at \in 0..Len(bytes) - 1
      <4>1. i - at + 1 \in 1..Len(bytes)
        BY <1>1, <3>1
      <4> QED
        BY <3>1, <4>1, ElementOfSeq
    <3>2. CASE i - at \notin 0..Len(bytes) - 1
      BY <1>1, <3>2
    <3> QED
      BY <3>1, <3>2
  <2> QED
    BY <2>1
<1>3. \A i \in 1..Len(bytes) : d[at + i - 1] = bytes[i]
  <2> SUFFICES ASSUME NEW i \in 1..Len(bytes) PROVE d[at + i - 1] = bytes[i]
    OBVIOUS
  <2>1. /\ at + i - 1 \in 0..b.size - 1 /\ (at + i - 1) - at \in 0..Len(bytes) - 1
        /\ (at + i - 1) - at + 1 = i
    BY <1>1
  <2> QED
    BY <2>1
<1>4. /\ \A i \in 0..b.size - 1 : i < at => d[i] = b.data[i]
      /\ \A i \in 0..b.size - 1 : i >= at + Len(bytes) => d[i] = b.data[i]
  BY <1>1
<1>5. /\ Copy(b, at, bytes).size = b.size /\ Copy(b, at, bytes).data = d
      /\ Copy(b, at, bytes).readerIndex_ = b.readerIndex_
      /\ Copy(b, at, bytes).writerIndex_ = b.writerIndex_
  BY DEF Copy
<1> HIDE DEF d
<1>6. WellFormed(Copy(b, at, bytes))
  BY <1>2, <1>5 DEF WellFormed, IsBuffer
<1> QED
  BY <1>3, <1>4, <1>5, <1>6

-----------------------------------------------------------------------------
(* Making space.                                                           *)

(* A vector that grows keeps its bytes, and the buffer its contents.       *)
LEMMA ResizeProperties ==
  ASSUME NEW b, WellFormed(b), NEW n \in Nat, b.size <= n
  PROVE  /\ WellFormed(Resize(b, n)) /\ WritableBytes(Resize(b, n)) = n - b.writerIndex_
         /\ Contents(Resize(b, n)) = Contents(b)
<1> DEFINE d == [i \in 0..n - 1 |-> IF i < b.size THEN b.data[i] ELSE 0]
           e == Resize(b, n)
<1>1. /\ b.size \in Nat /\ b.readerIndex_ \in Nat /\ b.writerIndex_ \in Nat
      /\ b.data \in [0..b.size - 1 -> Byte]
      /\ b.readerIndex_ <= b.writerIndex_ /\ b.writerIndex_ <= b.size
      /\ ReadableBytes(b) = b.writerIndex_ - b.readerIndex_ /\ ReadableBytes(b) \in Nat
  BY Members
<1>2. 0 \in Byte
  BY BaseAssumption DEF Byte
<1>3. d \in [0..n - 1 -> Byte]
  <2>1. \A i \in 0..n - 1 : i < b.size => b.data[i] \in Byte
    BY <1>1
  <2> QED
    BY <1>2, <2>1
<1>4. \A i \in 0..b.size - 1 : d[i] = b.data[i]
  BY <1>1
<1>5. e.size = n /\ e.data = d /\ e.readerIndex_ = b.readerIndex_ /\ e.writerIndex_ = b.writerIndex_
  BY DEF Resize
<1> HIDE DEF d, e
<1>6. WellFormed(e)
  <2>1. b.writerIndex_ <= n /\ kCheapPrepend <= n
    BY <1>1, Members
  <2>2. e = [size |-> n, data |-> d, readerIndex_ |-> b.readerIndex_, writerIndex_ |-> b.writerIndex_]
    BY DEF Resize, e, d
  <2> QED
    BY <1>1, <1>3, <1>5, <2>1, <2>2 DEF WellFormed, IsBuffer
<1>7. WritableBytes(e) = n - b.writerIndex_ /\ ReadableBytes(e) = ReadableBytes(b)
  BY <1>5 DEF WritableBytes, ReadableBytes
<1>8. \A i \in 1..ReadableBytes(b) : e.data[e.readerIndex_ + i - 1] = Contents(b)[i]
  <2> SUFFICES ASSUME NEW i \in 1..ReadableBytes(b)
               PROVE  e.data[e.readerIndex_ + i - 1] = Contents(b)[i]
    OBVIOUS
  <2>1. b.readerIndex_ + i - 1 \in 0..b.size - 1
    BY <1>1, PlaceOfByte
  <2> QED
    BY <1>4, <1>5, <2>1, ContentsAreBytes
<1>9. Contents(e) = Contents(b)
  BY <1>6, <1>7, <1>8, ContentsEqual, ContentsAreBytes
<1> QED
  BY <1>6, <1>7, <1>9 DEF e

(* Moving the contents to the front frees what was before them.            *)
LEMMA MoveToFrontProperties ==
  ASSUME NEW b, WellFormed(b), kCheapPrepend <= b.readerIndex_
  PROVE  /\ WellFormed(MoveToFront(b))
         /\ MoveToFront(b).size = b.size
         /\ WritableBytes(MoveToFront(b)) = WritableBytes(b) + b.readerIndex_ - kCheapPrepend
         /\ Contents(MoveToFront(b)) = Contents(b)
<1> DEFINE n == ReadableBytes(b)
           c == Copy(b, kCheapPrepend, Contents(b))
           e == At(c, kCheapPrepend, kCheapPrepend + n)
<1>1. /\ b.size \in Nat /\ b.readerIndex_ \in Nat /\ b.writerIndex_ \in Nat
      /\ b.readerIndex_ <= b.writerIndex_ /\ b.writerIndex_ <= b.size
      /\ kCheapPrepend \in Nat
      /\ n = b.writerIndex_ - b.readerIndex_ /\ n \in Nat
  BY Members
<1>2. Contents(b) \in Seq(Byte) /\ Len(Contents(b)) = n
  BY ContentsAreBytes
<1>3. MoveToFront(b) = e
  BY DEF MoveToFront, Contents
<1> HIDE DEF n, c, e
<1>4. kCheapPrepend + Len(Contents(b)) <= b.size
  BY <1>1, <1>2
<1>5. /\ WellFormed(c) /\ c.size = b.size
      /\ \A i \in 1..Len(Contents(b)) : c.data[kCheapPrepend + i - 1] = Contents(b)[i]
  <2>1. /\ WellFormed(Copy(b, kCheapPrepend, Contents(b)))
        /\ Copy(b, kCheapPrepend, Contents(b)).size = b.size
        /\ \A i \in 1..Len(Contents(b)) :
             Copy(b, kCheapPrepend, Contents(b)).data[kCheapPrepend + i - 1] = Contents(b)[i]
    <3>1. kCheapPrepend \in Nat /\ Contents(b) \in Seq(Byte) /\ WellFormed(b)
      BY <1>1, <1>2
    <3> QED
      BY ONLY <1>4, <3>1, CopyProperties
  <2> QED
    BY <2>1 DEF c
<1>6. kCheapPrepend + n \in Nat /\ kCheapPrepend <= kCheapPrepend + n /\ kCheapPrepend + n <= c.size
  BY <1>1, <1>2, <1>4, <1>5
<1>7. /\ WellFormed(e) /\ e.size = b.size /\ e.data = c.data
      /\ e.readerIndex_ = kCheapPrepend /\ e.writerIndex_ = kCheapPrepend + n
  <2>1. WellFormed(c) /\ kCheapPrepend \in Nat /\ c.size = b.size
    BY <1>1, <1>5
  <2> QED
    BY <1>6, <2>1, AtProperties DEF e
<1>8. ReadableBytes(e) = n
  BY <1>1, <1>7 DEF ReadableBytes
<1>9. WritableBytes(e) = WritableBytes(b) + b.readerIndex_ - kCheapPrepend
  BY <1>1, <1>7 DEF WritableBytes
<1>10. Contents(e) = Contents(b)
  BY <1>2, <1>5, <1>7, <1>8, ContentsEqual
<1> QED
  BY <1>3, <1>7, <1>9, <1>10

(* ensureWritableBytes makes the room asked for and keeps the contents;    *)
(* what it moves to the front lies behind the reserved space.              *)
LEMMA EnsureProperties ==
  ASSUME NEW b, WellFormed(b), NEW n \in Nat
  PROVE  /\ WellFormed(EnsureWritableBytes(b, n))
         /\ WritableBytes(EnsureWritableBytes(b, n)) >= n
         /\ Contents(EnsureWritableBytes(b, n)) = Contents(b)
         /\ WritableBytes(b) < n /\ ~TooSmall(b, n) => kCheapPrepend < b.readerIndex_
<1>1. /\ b.size \in Nat /\ b.readerIndex_ \in Nat /\ b.writerIndex_ \in Nat
      /\ b.writerIndex_ <= b.size /\ kCheapPrepend \in Nat
      /\ WritableBytes(b) = b.size - b.writerIndex_ /\ WritableBytes(b) \in Nat
      /\ PrependableBytes(b) = b.readerIndex_
  BY Members
<1>2. WritableBytes(b) < n /\ ~TooSmall(b, n) => kCheapPrepend < b.readerIndex_
  BY <1>1 DEF TooSmall
<1>3. CASE WritableBytes(b) >= n
  BY <1>1, <1>2, <1>3 DEF EnsureWritableBytes
<1>4. CASE WritableBytes(b) < n /\ TooSmall(b, n)
  <2>1. EnsureWritableBytes(b, n) = Resize(b, b.writerIndex_ + n)
    BY <1>4 DEF EnsureWritableBytes, MakeSpace
  <2>2. b.writerIndex_ + n \in Nat /\ b.size <= b.writerIndex_ + n
    BY <1>1, <1>4
  <2>3. (b.writerIndex_ + n) - b.writerIndex_ >= n
    BY <1>1
  <2> QED
    BY <1>2, <2>1, <2>2, <2>3, ResizeProperties
<1>5. CASE WritableBytes(b) < n /\ ~TooSmall(b, n)
  <2>1. EnsureWritableBytes(b, n) = MoveToFront(b)
    BY <1>5 DEF EnsureWritableBytes, MakeSpace
  <2>2. kCheapPrepend <= b.readerIndex_
    BY <1>1, <1>2, <1>5
  <2>3. WritableBytes(b) + b.readerIndex_ - kCheapPrepend >= n
    BY <1>1, <1>5 DEF TooSmall
  <2> QED
    BY <1>2, <2>1, <2>2, <2>3, MoveToFrontProperties
<1> QED
  BY <1>1, <1>3, <1>4, <1>5

-----------------------------------------------------------------------------
(* Writing and reading.                                                    *)

(* Bytes that fit, written behind the contents, extend them.               *)
LEMMA WrittenProperties ==
  ASSUME NEW b, WellFormed(b), NEW bytes \in Seq(Byte), Len(bytes) <= WritableBytes(b)
  PROVE  LET e == HasWritten(Copy(b, b.writerIndex_, bytes), Len(bytes)) IN
         /\ WellFormed(e) /\ e.size = b.size
         /\ e.writerIndex_ = b.writerIndex_ + Len(bytes)
         /\ Contents(e) = Contents(b) \o bytes
<1> DEFINE c == Copy(b, b.writerIndex_, bytes)
           w == b.writerIndex_ + Len(bytes)
           e == At(c, b.readerIndex_, w)
<1>1. /\ b.size \in Nat /\ b.readerIndex_ \in Nat /\ b.writerIndex_ \in Nat
      /\ b.readerIndex_ <= b.writerIndex_ /\ b.writerIndex_ <= b.size
      /\ WritableBytes(b) = b.size - b.writerIndex_
      /\ ReadableBytes(b) = b.writerIndex_ - b.readerIndex_ /\ ReadableBytes(b) \in Nat
      /\ Len(bytes) \in Nat
  BY Members
<1>2. b.writerIndex_ + Len(bytes) <= b.size
  BY <1>1
<1>3. /\ Contents(b) \in Seq(Byte) /\ Len(Contents(b)) = ReadableBytes(b)
      /\ \A i \in 1..ReadableBytes(b) : Contents(b)[i] = b.data[b.readerIndex_ + i - 1]
  BY ContentsAreBytes
<1>4. /\ WellFormed(c) /\ c.size = b.size
      /\ c.readerIndex_ = b.readerIndex_ /\ c.writerIndex_ = b.writerIndex_
      /\ \A i \in 1..Len(bytes) : c.data[b.writerIndex_ + i - 1] = bytes[i]
      /\ \A i \in 0..b.size - 1 : i < b.writerIndex_ => c.data[i] = b.data[i]
  <2>1. WellFormed(b) /\ b.writerIndex_ \in Nat /\ bytes \in Seq(Byte)
    BY <1>1
  <2> QED
    BY ONLY <1>2, <2>1, CopyProperties
<1>5. HasWritten(c, Len(bytes)) = e
  BY <1>4 DEF HasWritten
<1> HIDE DEF c, w, e
<1>6. w \in Nat /\ b.readerIndex_ <= w /\ w <= c.size
  BY <1>1, <1>2, <1>4 DEF w
<1>7. /\ WellFormed(e) /\ e.size = b.size /\ e.data = c.data
      /\ e.readerIndex_ = b.readerIndex_ /\ e.writerIndex_ = w
  BY <1>1, <1>4, <1>6, AtProperties DEF e
<1>8. ReadableBytes(e) = Len(Contents(b)) + Len(bytes)
  BY <1>1, <1>3, <1>7 DEF ReadableBytes, w
<1>9. ASSUME NEW i \in 1..ReadableBytes(b)
      PROVE  e.data[e.readerIndex_ + i - 1] = Contents(b)[i]
  <2>1. b.readerIndex_ + i - 1 \in 0..b.size - 1 /\ b.readerIndex_ + i - 1 < b.writerIndex_
    BY <1>1, PlaceOfByte
  <2> QED
    BY <1>3, <1>4, <1>7, <2>1
<1>10. ASSUME NEW i \in 1..Len(bytes)
       PROVE  e.data[e.readerIndex_ + Len(Contents(b)) + i - 1] = bytes[i]
  <2>1. b.readerIndex_ + ReadableBytes(b) + i - 1 = b.writerIndex_ + i - 1
    BY <1>1
  <2> QED
    BY <1>3, <1>4, <1>7, <2>1
<1>11. Contents(e) = Contents(b) \o bytes
  <2>1. \A i \in 1..Len(Contents(b)) : e.data[e.readerIndex_ + i - 1] = Contents(b)[i]
    BY <1>3, <1>9
  <2>2. WellFormed(e) /\ Contents(b) \in Seq(Byte) /\ bytes \in Seq(Byte)
    BY <1>3, <1>7
  <2> QED
    BY ONLY <1>8, <1>10, <2>1, <2>2, ContentsConcat
<1> QED
  BY <1>5, <1>7, <1>11 DEF c, w

(* Appending extends the contents, whatever room there was.                *)
LEMMA AppendBytesProperties ==
  ASSUME NEW b, WellFormed(b), NEW bytes \in Seq(Byte)
  PROVE  /\ WellFormed(AppendBytes(b, bytes))
         /\ Contents(AppendBytes(b, bytes)) = Contents(b) \o bytes
<1> DEFINE e == EnsureWritableBytes(b, Len(bytes))
<1>1. Len(bytes) \in Nat
  OBVIOUS
<1>2. WellFormed(e) /\ WritableBytes(e) >= Len(bytes) /\ Contents(e) = Contents(b)
  BY <1>1, EnsureProperties
<1>3. AppendBytes(b, bytes) = HasWritten(Copy(e, e.writerIndex_, bytes), Len(bytes))
  BY DEF AppendBytes
<1> HIDE DEF e
<1>4. WritableBytes(e) \in Nat
  BY <1>2, Members
<1>5. Len(bytes) <= WritableBytes(e)
  BY <1>1, <1>2, <1>4
<1>6. /\ WellFormed(HasWritten(Copy(e, e.writerIndex_, bytes), Len(bytes)))
      /\ Contents(HasWritten(Copy(e, e.writerIndex_, bytes), Len(bytes))) = Contents(e) \o bytes
  BY <1>2, <1>5, WrittenProperties
<1> QED
  BY <1>2, <1>3, <1>6

(* A byte in front of the reader index for every byte prepended.           *)
LEMMA PrependProperties ==
  ASSUME NEW b, WellFormed(b), NEW bytes \in Seq(Byte), Len(bytes) <= PrependableBytes(b)
  PROVE  /\ WellFormed(PrependBytes(b, bytes))
         /\ Contents(PrependBytes(b, bytes)) = bytes \o Contents(b)
<1> DEFINE r == b.readerIndex_ - Len(bytes)
           a == At(b, r, b.writerIndex_)
           e == Copy(a, r, bytes)
<1>1. /\ b.size \in Nat /\ b.readerIndex_ \in Nat /\ b.writerIndex_ \in Nat
      /\ b.readerIndex_ <= b.writerIndex_ /\ b.writerIndex_ <= b.size
      /\ PrependableBytes(b) = b.readerIndex_
      /\ ReadableBytes(b) = b.writerIndex_ - b.readerIndex_ /\ ReadableBytes(b) \in Nat
      /\ Len(bytes) \in Nat
  BY Members
<1>2. /\ r \in Nat /\ r + Len(bytes) = b.readerIndex_ /\ r <= b.writerIndex_
      /\ r + Len(bytes) <= b.size
  BY <1>1
<1>3. /\ Contents(b) \in Seq(Byte) /\ Len(Contents(b)) = ReadableBytes(b)
      /\ \A i \in 1..ReadableBytes(b) : Contents(b)[i] = b.data[b.readerIndex_ + i - 1]
  BY ContentsAreBytes
<1>4. PrependBytes(b, bytes) = e
  BY DEF PrependBytes
<1> HIDE DEF r, a, e
<1>5. /\ WellFormed(a) /\ a.size = b.size /\ a.data = b.data
      /\ a.readerIndex_ = r /\ a.writerIndex_ = b.writerIndex_
  BY <1>1, <1>2, AtProperties DEF a
<1>6. /\ WellFormed(e) /\ e.readerIndex_ = r /\ e.writerIndex_ = b.writerIndex_
      /\ \A i \in 1..Len(bytes) : e.data[r + i - 1] = bytes[i]
      /\ \A i \in 0..b.size - 1 : i >= r + Len(bytes) => e.data[i] = b.data[i]
  <2>1. WellFormed(a) /\ r \in Nat /\ bytes \in Seq(Byte) /\ r + Len(bytes) <= a.size
    BY <1>2, <1>5
  <2>2. /\ WellFormed(Copy(a, r, bytes))
        /\ Copy(a, r, bytes).readerIndex_ = a.readerIndex_
        /\ Copy(a, r, bytes).writerIndex_ = a.writerIndex_
        /\ \A i \in 1..Len(bytes) : Copy(a, r, bytes).data[r + i - 1] = bytes[i]
        /\ \A i \in 0..a.size - 1 : i >= r + Len(bytes) => Copy(a, r, bytes).data[i] = a.data[i]
    BY ONLY <2>1, CopyProperties
  <2> QED
    BY <1>5, <2>2 DEF e
<1>7. ReadableBytes(e) = Len(bytes) + Len(Contents(b))
  BY <1>1, <1>2, <1>3, <1>6 DEF ReadableBytes
<1>8. ASSUME NEW i \in 1..ReadableBytes(b)
      PROVE  e.data[e.readerIndex_ + Len(bytes) + i - 1] = Contents(b)[i]
  <2>1. r + Len(bytes) + i - 1 = b.readerIndex_ + i - 1
    BY <1>2
  <2>2. /\ b.readerIndex_ + i - 1 \in 0..b.size - 1
        /\ b.readerIndex_ + i - 1 >= b.readerIndex_
    BY <1>1, PlaceOfByte
  <2>3. b.readerIndex_ + i - 1 >= r + Len(bytes)
    BY <1>2, <2>2
  <2> QED
    BY <1>3, <1>6, <2>1, <2>2, <2>3
<1>9. Contents(e) = bytes \o Contents(b)
  <2>1. \A i \in 1..Len(bytes) : e.data[e.readerIndex_ + i - 1] = bytes[i]
    BY <1>6
  <2>2. \A i \in 1..Len(Contents(b)) :
          e.data[e.readerIndex_ + Len(bytes) + i - 1] = Contents(b)[i]
    BY <1>3, <1>8
  <2>3. WellFormed(e) /\ Contents(b) \in Seq(Byte) /\ bytes \in Seq(Byte)
    BY <1>3, <1>6
  <2> QED
    BY ONLY <1>7, <2>1, <2>2, <2>3, ContentsConcat
<1> QED
  BY <1>4, <1>6, <1>9

(* readFd appends what readv() delivered, whether or not it went through   *)
(* extrabuf.                                                               *)
LEMMA ReadFdProperties ==
  ASSUME NEW b, WellFormed(b), NEW bytes \in Seq(Byte)
  PROVE  /\ WellFormed(ReadFd(b, bytes))
         /\ Contents(ReadFd(b, bytes)) = Contents(b) \o bytes
<1> DEFINE w == WritableBytes(b)
           s1 == SubSeq(bytes, 1, w)
           s2 == SubSeq(bytes, w + 1, Len(bytes))
           c == Copy(b, b.writerIndex_, s1)
           full == At(c, b.readerIndex_, b.size)
<1>1. /\ b.size \in Nat /\ b.readerIndex_ \in Nat /\ b.writerIndex_ \in Nat
      /\ w = b.size - b.writerIndex_ /\ w \in Nat /\ Len(bytes) \in Nat
  BY Members
<1>2. CASE Len(bytes) <= w
  BY <1>2, WrittenProperties DEF ReadFd
<1>3. CASE ~(Len(bytes) <= w)
  <2>1. ReadFd(b, bytes) = AppendBytes(full, s2)
    BY <1>3 DEF ReadFd
  <2>2. /\ s1 \in Seq(Byte) /\ Len(s1) = w /\ s2 \in Seq(Byte) /\ s1 \o s2 = bytes
    <3> HIDE DEF w
    <3>1. w <= Len(bytes)
      BY <1>1, <1>3
    <3> QED
      BY <1>1, <3>1, CutInTwo
  <2>3. HasWritten(c, w) = At(c, c.readerIndex_, c.writerIndex_ + w)
    BY DEF HasWritten
  <2>4. c.readerIndex_ = b.readerIndex_ /\ c.writerIndex_ = b.writerIndex_
    BY DEF Copy
  <2> HIDE DEF w, s1, s2, c
  <2>5. HasWritten(c, Len(s1)) = full
    <3>1. c.writerIndex_ + w = b.size
      BY <1>1, <2>4
    <3> QED
      BY <2>2, <2>3, <2>4, <3>1
  <2>6. WellFormed(full) /\ Contents(full) = Contents(b) \o s1
    <3>1. Len(s1) <= WritableBytes(b)
      BY <1>1, <2>2 DEF w
    <3> HIDE DEF full
    <3> QED
      BY <2>2, <2>5, <3>1, WrittenProperties DEF c
  <2> HIDE DEF full
  <2>7. /\ WellFormed(ReadFd(b, bytes))
        /\ Contents(ReadFd(b, bytes)) = Contents(full) \o s2
    BY <2>1, <2>2, <2>6, AppendBytesProperties
  <2>8. (Contents(b) \o s1) \o s2 = Contents(b) \o (s1 \o s2)
    <3>1. Contents(b) \in Seq(Byte)
      BY ContentsAreBytes
    <3>2. s1 \in Seq(Byte) /\ s2 \in Seq(Byte)
      BY <2>2
    <3> DEFINE s0 == Contents(b)
    <3> HIDE DEF s0
    <3>3. s0 \in Seq(Byte)
      BY <3>1 DEF s0
    <3>4. Cat(s0, Cat(s1, s2)) = Cat(Cat(s0, s1), s2)
      BY ONLY <3>2, <3>3, CatAssoc
    <3> QED
      BY ONLY <3>4 DEF Cat, s0
  <2> QED
    BY <2>2, <2>6, <2>7, <2>8
<1> QED
  BY <1>2, <1>3

(* Reading drops bytes at the front; a buffer that is emptied starts again *)
(* behind the reserved space.                                              *)
LEMMA RetrieveProperties ==
  ASSUME NEW b, WellFormed(b), NEW n \in 0..ReadableBytes(b)
  PROVE  /\ WellFormed(Retrieve(b, n))
         /\ Contents(Retrieve(b, n)) = SubSeq(Contents(b), n + 1, ReadableBytes(b))
<1> DEFINE e == At(b, b.readerIndex_ + n, b.writerIndex_)
           s == SubSeq(Contents(b), n + 1, ReadableBytes(b))
<1>1. /\ b.size \in Nat /\ b.readerIndex_ \in Nat /\ b.writerIndex_ \in Nat
      /\ b.readerIndex_ <= b.writerIndex_ /\ b.writerIndex_ <= b.size
      /\ kCheapPrepend \in Nat /\ kCheapPrepend <= b.size
      /\ ReadableBytes(b) = b.writerIndex_ - b.readerIndex_ /\ ReadableBytes(b) \in Nat
      /\ n \in Nat /\ n <= ReadableBytes(b)
  BY Members
<1>2. /\ Contents(b) \in Seq(Byte) /\ Len(Contents(b)) = ReadableBytes(b)
      /\ \A i \in 1..ReadableBytes(b) : Contents(b)[i] = b.data[b.readerIndex_ + i - 1]
  BY ContentsAreBytes
<1>3. /\ s \in Seq(Byte) /\ Len(s) = ReadableBytes(b) - n
      /\ \A i \in 1..ReadableBytes(b) - n : s[i] = Contents(b)[n + i]
  BY <1>1, <1>2, SubSeqProperties
<1> HIDE DEF s
<1>4. CASE n < ReadableBytes(b)
  <2>1. Retrieve(b, n) = e
    BY <1>4 DEF Retrieve
  <2>2. /\ b.readerIndex_ + n \in Nat /\ b.readerIndex_ + n <= b.writerIndex_
    BY <1>1
  <2>3. /\ WellFormed(e) /\ e.data = b.data
        /\ e.readerIndex_ = b.readerIndex_ + n /\ e.writerIndex_ = b.writerIndex_
    BY <1>1, <2>2, AtProperties
  <2> HIDE DEF e
  <2>4. ReadableBytes(e) = Len(s)
    BY <1>1, <1>3, <2>3 DEF ReadableBytes
  <2>5. ASSUME NEW i \in 1..Len(s) PROVE e.data[e.readerIndex_ + i - 1] = s[i]
    <3>1. /\ i \in 1..ReadableBytes(b) - n /\ n + i \in 1..ReadableBytes(b)
          /\ b.readerIndex_ + n + i - 1 = b.readerIndex_ + (n + i) - 1
      BY <1>1, <1>3
    <3> QED
      BY <1>2, <1>3, <2>3, <3>1
  <2> QED
    BY <1>3, <2>1, <2>3, <2>4, <2>5, ContentsEqual DEF s
<1>5. CASE n = ReadableBytes(b)
  <2> DEFINE a == At(b, kCheapPrepend, kCheapPrepend)
  <2>1. Retrieve(b, n) = a
    BY <1>1, <1>5 DEF Retrieve, RetrieveAll
  <2>2. /\ WellFormed(a) /\ a.readerIndex_ = kCheapPrepend /\ a.writerIndex_ = kCheapPrepend
    BY <1>1, AtProperties
  <2> HIDE DEF a
  <2>3. ReadableBytes(a) = Len(s) /\ Len(s) = 0
    BY <1>1, <1>3, <1>5, <2>2 DEF ReadableBytes
  <2>4. \A i \in 1..Len(s) : a.data[a.readerIndex_ + i - 1] = s[i]
    BY <2>3
  <2>5. Contents(a) = s
    BY <1>3, <2>2, <2>3, <2>4, ContentsEqual
  <2> QED
    BY <2>1, <2>2, <2>5 DEF s
<1> QED
  BY <1>1, <1>4, <1>5

-----------------------------------------------------------------------------
(* Numbers and their digits.                                               *)

(* Induction over the naturals, for a set of them.                         *)
LEMMA NatSet ==
  ASSUME NEW S, 0 \in S, \A n \in Nat : n \in S => n + 1 \in S
  PROVE  Nat \subseteq S
<1> DEFINE T == Nat \ S
<1> SUFFICES ASSUME T # {} PROVE FALSE
  OBVIOUS
<1>1. IsWellFoundedOn(OpToRel(<, Nat), Nat)
  BY NatLessThanWellFounded, Zenon
<1>2. T \subseteq Nat
  OBVIOUS
<1>3. PICK x \in T : \A y \in T : ~(<<y, x>> \in OpToRel(<, Nat))
  BY <1>1, <1>2, WFMin, Zenon
<1>4. x \in Nat /\ x \notin S /\ x # 0
  OBVIOUS
<1>5. x - 1 \in Nat /\ x - 1 < x /\ (x - 1) + 1 = x
  BY <1>4
<1>6. x - 1 \in T
  BY <1>4, <1>5
<1>7. <<x - 1, x>> \in Nat \X Nat /\ <<x - 1, x>>[1] = x - 1 /\ <<x - 1, x>>[2] = x
  BY <1>4, <1>5
<1>8. ~(<<x - 1, x>> \in {ss \in Nat \X Nat : ss[1] < ss[2]})
  BY <1>3, <1>6 DEF OpToRel
<1> QED
  BY ONLY <1>5, <1>7, <1>8

(* q consists of the n elements of r and of x.                             *)
Ends(q, r, x, n) ==
  q = r \o <<x>> /\ Len(r) = n /\ (\A i \in 1..n : q[i] = r[i]) /\ q[n + 1] = x

(* A sequence that is not empty has a last element.                        *)
LEMMA Peeled ==
  ASSUME NEW T, NEW q \in Seq(T), NEW n \in Nat, Len(q) = n + 1
  PROVE  \E r \in Seq(T), x \in T : Ends(q, r, x, n)
<1> DEFINE r == SubSeq(q, 1, n)
<1>1. n + 1 \in 1..Len(q) /\ 1 \in 1..Len(q) /\ (n + 1) - 1 = n /\ q[n + 1] \in T
  BY ElementOfSeq
<1>2. r \in Seq(T) /\ Len(r) = n /\ \A i \in 1..n : q[i] = r[i]
  <2>1. \A i \in 1..n : q[i] \in T
    BY ElementOfSeq
  <2>2. /\ r \in Seq(T) /\ Len(r) = n
        /\ \A i \in 1..((n - 1) + 1) : r[i] = q[(1 + i) - 1]
    BY <2>1, SubSeqProperties
  <2> QED
    BY <2>2
<1>3. r \o <<q[n + 1]>> = q
  <2>1. SubSeq(q, 1, n + 1) = q
    BY SubSeqFull
  <2>2. SubSeq(q, 1, n + 1) = SubSeq(q, 1, (n + 1) - 1) \o <<q[n + 1]>>
    BY <1>1, SubSeqRecursiveSecond
  <2> QED
    BY <1>1, <2>1, <2>2
<1> HIDE DEF r
<1>4. Ends(q, r, q[n + 1], n)
  BY <1>2, <1>3 DEF Ends
<1> QED
  BY <1>1, <1>2, <1>4

(* f holds the numbers made by the first n digits of s.                    *)
IsValue(a, s, f, n) == f = [i \in 0..n |-> IF i = 0 THEN a ELSE f[i - 1] * Base + s[i]]

Agree(f, g, n) == \A i \in 0..n : f[i] = g[i]

HasValues(a, s, n) == \E f \in [0..n -> Nat] : IsValue(a, s, f, n)

(* A digit more.                                                           *)
LEMMA ShiftAdd ==
  ASSUME NEW u \in Nat, NEW x \in Nat
  PROVE  u * Base + x \in Nat
<1>1. Base \in Nat
  BY BaseAssumption
<1> QED
  BY <1>1

(* They exist ...                                                          *)
LEMMA ValueExists ==
  ASSUME NEW a \in Nat, NEW s \in Seq(Nat)
  PROVE  \A n \in 0..Len(s) : HasValues(a, s, n)
<1> DEFINE N == {n \in Nat : n <= Len(s) => HasValues(a, s, n)}
<1>0. Len(s) \in Nat /\ (\A i \in 1..Len(s) : s[i] \in Nat) /\ Base \in Nat
  BY LenProperties, ElementOfSeq, BaseAssumption
<1>1. 0 \in N
  <2> DEFINE f == [i \in 0..0 |-> a]
  <2>1. f \in [0..0 -> Nat] /\ IsValue(a, s, f, 0)
    BY DEF IsValue
  <2> QED
    BY <2>1 DEF HasValues
<1>2. ASSUME NEW n \in Nat, n \in N
      PROVE  n + 1 \in N
  <2> SUFFICES ASSUME n + 1 <= Len(s)
               PROVE  HasValues(a, s, n + 1)
    OBVIOUS
  <2>0. n <= Len(s)
    BY <1>0
  <2>1. PICK f \in [0..n -> Nat] : IsValue(a, s, f, n)
    BY <1>2, <2>0 DEF HasValues
  <2>2. n \in 0..n /\ f[n] \in Nat /\ s[n + 1] \in Nat
    BY <1>0
  <2> DEFINE y == f[n] * Base + s[n + 1]
  <2>3. y \in Nat
    BY ONLY <2>2, ShiftAdd
  <2> DEFINE g == [i \in 0..(n + 1) |-> IF i <= n THEN f[i] ELSE y]
  <2>4. g \in [0..(n + 1) -> Nat]
    BY <2>3
  <2>5. ASSUME NEW i \in 0..(n + 1)
        PROVE  g[i] = IF i = 0 THEN a ELSE g[i - 1] * Base + s[i]
    <3>1. CASE i <= n
      <4>1. i \in 0..n /\ g[i] = f[i] /\ (i # 0 => i - 1 \in 0..(n + 1) /\ i - 1 <= n)
        BY <3>1
      <4>2. f[i] = IF i = 0 THEN a ELSE f[i - 1] * Base + s[i]
        BY <2>1, <4>1 DEF IsValue
      <4>3. i # 0 => g[i - 1] = f[i - 1]
        BY <4>1
      <4> QED
        BY <4>1, <4>2, <4>3
    <3>2. CASE ~(i <= n)
      <4>1. i = n + 1 /\ i # 0 /\ i - 1 = n /\ n \in 0..(n + 1)
        BY <3>2
      <4>2. g[i - 1] = f[n]
        BY <4>1
      <4>3. g[i] = y
        BY <3>2
      <4> QED
        BY <4>1, <4>2, <4>3
    <3> QED
      BY <3>1, <3>2
  <2> HIDE DEF g
  <2>6. IsValue(a, s, g, n + 1)
    BY <2>4, <2>5 DEF IsValue
  <2> QED
    BY <2>4, <2>6 DEF HasValues
<1> HIDE DEF N
<1>3. Nat \subseteq N
  BY <1>1, <1>2, NatSet
<1> QED
  BY <1>0, <1>3 DEF N

(* ... and depend on these digits only.                                    *)
LEMMA ValueUnique ==
  \A a, s, t, f, g : \A n, m \in Nat :
    n <= m /\ (\A i \in 1..n : s[i] = t[i]) /\ IsValue(a, s, f, n) /\ IsValue(a, t, g, m)
      => Agree(f, g, n)
<1> SUFFICES ASSUME NEW a, NEW s, NEW t, NEW f, NEW g, NEW n \in Nat, NEW m \in Nat,
                    n <= m, \A i \in 1..n : s[i] = t[i],
                    IsValue(a, s, f, n), IsValue(a, t, g, m)
             PROVE  \A i \in 0..n : f[i] = g[i]
  BY DEF Agree
<1> DEFINE N == {i \in Nat : i \in 0..n => f[i] = g[i]}
<1>1. 0 \in N
  <2>1. 0 \in 0..n /\ 0 \in 0..m
    OBVIOUS
  <2>2. f[0] = a /\ g[0] = a
    BY <2>1 DEF IsValue
  <2> QED
    BY <2>2
<1>2. ASSUME NEW i \in Nat, i \in N
      PROVE  i + 1 \in N
  <2> SUFFICES ASSUME i + 1 \in 0..n
               PROVE  f[i + 1] = g[i + 1]
    OBVIOUS
  <2>1. i + 1 \in 0..m /\ i + 1 # 0 /\ (i + 1) - 1 = i /\ i \in 0..n /\ i + 1 \in 1..n
    OBVIOUS
  <2>2. f[i + 1] = IF i + 1 = 0 THEN a ELSE f[(i + 1) - 1] * Base + s[i + 1]
    BY DEF IsValue
  <2>3. g[i + 1] = IF i + 1 = 0 THEN a ELSE g[(i + 1) - 1] * Base + t[i + 1]
    BY <2>1 DEF IsValue
  <2> QED
    BY <1>2, <2>1, <2>2, <2>3
<1> HIDE DEF N
<1>3. Nat \subseteq N
  BY <1>1, <1>2, NatSet
<1> QED
  BY <1>3 DEF N

(* The last of them is the number.                                         *)
LEMMA DigitsIsLast ==
  ASSUME NEW a \in Nat, NEW s \in Seq(Nat)
  PROVE  \E f \in [0..Len(s) -> Nat] : IsValue(a, s, f, Len(s)) /\ Digits(a, s) = f[Len(s)]
<1>1. Len(s) \in Nat
  BY LenProperties
<1>2. PICK f \in [0..Len(s) -> Nat] : IsValue(a, s, f, Len(s))
  <2>1. Len(s) \in 0..Len(s)
    BY <1>1
  <2>2. \A n \in 0..Len(s) : HasValues(a, s, n)
    BY ValueExists
  <2>3. HasValues(a, s, Len(s))
    BY <2>1, <2>2
  <2> QED
    BY <2>3 DEF HasValues
<1> DEFINE h == CHOOSE h : h = [i \in 0..Len(s) |-> IF i = 0 THEN a ELSE h[i - 1] * Base + s[i]]
<1>3. IsValue(a, s, h, Len(s))
  BY <1>2, Zenon DEF IsValue
<1>4. Digits(a, s) = h[Len(s)]
  BY DEF Digits
<1> HIDE DEF h
<1>5. Agree(f, h, Len(s))
  <2>1. Len(s) <= Len(s) /\ \A i \in 1..Len(s) : s[i] = s[i]
    BY <1>1
  <2> QED
    BY ONLY <1>1, <1>2, <1>3, <2>1, ValueUnique
<1>6. Digits(a, s) = f[Len(s)]
  BY <1>1, <1>4, <1>5 DEF Agree
<1> QED
  BY <1>2, <1>6, Zenon

(* No digits, and one digit more.                                          *)
LEMMA DigitsSnoc ==
  ASSUME NEW a \in Nat
  PROVE  /\ Digits(a, <<>>) = a
         /\ \A s \in Seq(Nat) : Digits(a, s) \in Nat
         /\ \A s \in Seq(Nat), x \in Nat : Digits(a, s \o <<x>>) = Digits(a, s) * Base + x
<1>1. Digits(a, <<>>) = a
  <2>1. <<>> \in Seq(Nat) /\ Len(<<>>) = 0
    BY EmptySeq
  <2>2. PICK f \in [0..0 -> Nat] : IsValue(a, <<>>, f, 0) /\ Digits(a, <<>>) = f[0]
    BY <2>1, DigitsIsLast
  <2> QED
    BY <2>2 DEF IsValue
<1>2. ASSUME NEW s \in Seq(Nat)
      PROVE  Digits(a, s) \in Nat
  <2>1. PICK f \in [0..Len(s) -> Nat] : Digits(a, s) = f[Len(s)]
    BY DigitsIsLast
  <2>2. Len(s) \in 0..Len(s)
    BY LenProperties
  <2> QED
    BY <2>1, <2>2
<1>3. ASSUME NEW s \in Seq(Nat), NEW x \in Nat
      PROVE  Digits(a, s \o <<x>>) = Digits(a, s) * Base + x
  <2> DEFINE t == s \o <<x>>
             n == Len(s)
  <2>1. /\ t \in Seq(Nat) /\ Len(t) = n + 1 /\ n \in Nat /\ t[n + 1] = x
        /\ \A i \in 1..n : s[i] = t[i]
    <3>1. Append(s, x) = t
      BY AppendIsConcat
    <3> QED
      BY <3>1, AppendProperties, LenProperties
  <2> HIDE DEF t
  <2>2. PICK g \in [0..Len(t) -> Nat] : IsValue(a, t, g, Len(t)) /\ Digits(a, t) = g[Len(t)]
    BY <2>1, DigitsIsLast
  <2>3. PICK f \in [0..n -> Nat] : IsValue(a, s, f, n) /\ Digits(a, s) = f[n]
    BY DigitsIsLast
  <2> HIDE DEF n
  <2>4. n + 1 \in 0..Len(t) /\ n + 1 # 0 /\ (n + 1) - 1 = n /\ n \in 0..n
    BY <2>1
  <2>5. g[n + 1] = g[n] * Base + x
    <3>1. \A i \in 0..Len(t) : g[i] = IF i = 0 THEN a ELSE g[i - 1] * Base + t[i]
      BY <2>2 DEF IsValue
    <3>2. g[n + 1] = IF n + 1 = 0 THEN a ELSE g[(n + 1) - 1] * Base + t[n + 1]
      BY <2>4, <3>1, Zenon
    <3> QED
      BY <2>1, <2>4, <3>2
  <2>6. Agree(f, g, n)
    <3>1. n \in Nat /\ Len(t) \in Nat /\ n <= Len(t) /\ \A i \in 1..n : s[i] = t[i]
      BY <2>1
    <3> QED
      BY ONLY <2>2, <2>3, <3>1, ValueUnique
  <2>7. f[n] = g[n]
    BY <2>4, <2>6 DEF Agree
  <2> QED
    BY <2>1, <2>2, <2>3, <2>5, <2>7 DEF t
<1> QED
  BY <1>1, <1>2, <1>3

(* Digits are digits of natural numbers.                                   *)
LEMMA BytesAreNumbers ==
  Byte \subseteq Nat /\ \A s \in Seq(Byte) : s \in Seq(Nat)
<1>1. Byte \subseteq Nat
  BY BaseAssumption DEF Byte
<1> QED
  BY <1>1, SeqMonotonic

(* The powers of the base.                                                 *)
LEMMA Powers ==
  /\ Power(0) = 1
  /\ \A n \in Nat : Power(n) \in Nat /\ Power(n) > 0 /\ Power(n + 1) = Power(n) * Base
<1>0. Base \in Nat /\ Base > 1
  BY BaseAssumption
<1> DEFINE zeros(n) == [i \in 1..n |-> 0]
<1>1. zeros(0) = <<>>
  OBVIOUS
<1>2. Power(0) = 1
  BY <1>1, DigitsSnoc DEF Power
<1>3. ASSUME NEW n \in Nat
      PROVE  Power(n) \in Nat /\ Power(n + 1) = Power(n) * Base
  <2>1. zeros(n) \in Seq(Nat) /\ zeros(n + 1) \in Seq(Nat) /\ Len(zeros(n)) = n
    OBVIOUS
  <2>2. zeros(n + 1) = zeros(n) \o <<0>>
    OBVIOUS
  <2>3. Digits(1, zeros(n)) \in Nat
    BY <2>1, DigitsSnoc
  <2>4. Digits(1, zeros(n) \o <<0>>) = Digits(1, zeros(n)) * Base + 0
    BY <2>1, DigitsSnoc
  <2>5. Power(n) = Digits(1, zeros(n)) /\ Power(n + 1) = Digits(1, zeros(n + 1))
    BY DEF Power
  <2> HIDE DEF zeros
  <2>6. Power(n + 1) = Power(n) * Base + 0 /\ Power(n) \in Nat
    BY <2>2, <2>3, <2>4, <2>5
  <2> QED
    BY <1>0, <2>6
<1> DEFINE N == {n \in Nat : Power(n) > 0}
<1>4. 0 \in N
  BY <1>2
<1>5. ASSUME NEW n \in Nat, n \in N
      PROVE  n + 1 \in N
  <2>1. Power(n) \in Nat /\ Power(n) > 0 /\ Power(n + 1) = Power(n) * Base
    BY <1>3, <1>5
  <2>2. Power(n) * Base > 0
    BY ONLY <1>0, <2>1
  <2> QED
    BY <2>1, <2>2
<1> HIDE DEF N
<1>6. Nat \subseteq N
  BY <1>4, <1>5, NatSet
<1> QED
  BY <1>2, <1>3, <1>6 DEF N

(* A number of w digits is less than Base^w, and digits in front of it     *)
(* count multiples of that.                                                *)
LEMMA UnsignedBelow ==
  ASSUME NEW s \in Seq(Byte)
  PROVE  /\ Unsigned(s) \in 0..Power(Len(s)) - 1
         /\ \A a \in Nat : Digits(a, s) = a * Power(Len(s)) + Unsigned(s)
<1> DEFINE N == {n \in Nat : \A r \in Seq(Byte) :
                   Len(r) = n => /\ Unsigned(r) \in 0..Power(n) - 1
                                 /\ \A a \in Nat : Digits(a, r) = a * Power(n) + Unsigned(r)}
<1>0. Base \in Nat /\ Base > 1
  BY BaseAssumption
<1>1. 0 \in N
  <2> SUFFICES ASSUME NEW r \in Seq(Byte), Len(r) = 0
               PROVE  /\ Unsigned(r) \in 0..Power(0) - 1
                      /\ \A a \in Nat : Digits(a, r) = a * Power(0) + Unsigned(r)
    OBVIOUS
  <2>1. r = <<>>
    BY EmptySeq
  <2>2. Power(0) = 1 /\ Unsigned(r) = 0 /\ \A a \in Nat : Digits(a, r) = a
    BY <2>1, Powers, DigitsSnoc DEF Unsigned
  <2> QED
    BY <2>2
<1>2. ASSUME NEW n \in Nat, n \in N
      PROVE  n + 1 \in N
  <2> SUFFICES ASSUME NEW t \in Seq(Byte), Len(t) = n + 1
               PROVE  /\ Unsigned(t) \in 0..Power(n + 1) - 1
                      /\ \A a \in Nat : Digits(a, t) = a * Power(n + 1) + Unsigned(t)
    OBVIOUS
  <2>1. PICK r \in Seq(Byte), x \in Byte : Ends(t, r, x, n)
    BY ONLY Peeled, Len(t) = n + 1, t \in Seq(Byte), n \in Nat
  <2>2. t = r \o <<x>> /\ Len(r) = n /\ r \in Seq(Nat) /\ x \in Nat /\ x <= Base - 1
    BY <1>0, <2>1, BytesAreNumbers DEF Ends, Byte
  <2> DEFINE u == Unsigned(r)
             m == Power(n)
  <2>3. u \in 0..m - 1 /\ \A a \in Nat : Digits(a, r) = a * m + u
    BY <1>2, <2>2
  <2>4. m \in Nat /\ Power(n + 1) = m * Base
    BY Powers
  <2>5. \A a \in Nat : Digits(a, t) = Digits(a, r) * Base + x /\ Digits(a, r) \in Nat
    <3>1. \A a \in Nat : Digits(a, r \o <<x>>) = Digits(a, r) * Base + x
      BY ONLY <2>2, DigitsSnoc
    <3>2. \A a \in Nat : Digits(a, r) \in Nat
      BY ONLY <2>2, DigitsSnoc
    <3> QED
      BY ONLY <2>2, <3>1, <3>2
  <2>6. Unsigned(t) = u * Base + x
    BY <2>5 DEF Unsigned
  <2> HIDE DEF u, m
  <2>7. u * Base + x \in 0..(m * Base) - 1
    <3>1. u \in Nat /\ u <= m - 1
      BY <2>3, <2>4
    <3>2. u * Base <= (m - 1) * Base
      BY ONLY <1>0, <2>4, <3>1
    <3>3. (m - 1) * Base = (m * Base) - Base
      BY ONLY <1>0, <2>4
    <3>4. u * Base \in Nat /\ m * Base \in Nat
      BY ONLY <1>0, <2>4, <3>1
    <3> QED
      BY ONLY <1>0, <2>2, <3>2, <3>3, <3>4
  <2>8. ASSUME NEW a \in Nat
        PROVE  Digits(a, t) = a * (m * Base) + (u * Base + x)
    <3>1. Digits(a, t) = (a * m + u) * Base + x /\ u \in Nat
      BY <2>3, <2>4, <2>5
    <3>2. (a * m + u) * Base = a * (m * Base) + u * Base
      BY ONLY <1>0, <2>4, <3>1, a \in Nat
    <3>3. a * (m * Base) \in Nat /\ u * Base \in Nat
      BY ONLY <1>0, <2>4, <3>1, a \in Nat
    <3> QED
      BY ONLY <2>2, <3>1, <3>2, <3>3
  <2> QED
    BY <2>4, <2>6, <2>7, <2>8
<1> HIDE DEF N
<1>3. Nat \subseteq N
  BY <1>1, <1>2, NatSet
<1>4. Len(s) \in Nat
  BY LenProperties
<1> QED
  BY <1>3, <1>4 DEF N

(* The digits of two sequences, one after the other.                       *)
LEMMA DigitsConcat ==
  ASSUME NEW p \in Seq(Byte), NEW t \in Seq(Byte)
  PROVE  Unsigned(p \o t) = Digits(Unsigned(p), t)
<1> DEFINE N == {n \in Nat : \A r \in Seq(Byte) :
                   Len(r) = n => Unsigned(p \o r) = Digits(Unsigned(p), r)}
<1>0. p \in Seq(Nat) /\ Unsigned(p) \in Nat
  BY BytesAreNumbers, DigitsSnoc DEF Unsigned
<1>1. 0 \in N
  <2> SUFFICES ASSUME NEW r \in Seq(Byte), Len(r) = 0
               PROVE  Unsigned(p \o r) = Digits(Unsigned(p), r)
    OBVIOUS
  <2>1. r = <<>>
    BY EmptySeq
  <2>2. p \o <<>> = p
    BY ConcatEmptySeq
  <2> QED
    BY <1>0, <2>1, <2>2, DigitsSnoc
<1>2. ASSUME NEW n \in Nat, n \in N
      PROVE  n + 1 \in N
  <2> SUFFICES ASSUME NEW s \in Seq(Byte), Len(s) = n + 1
               PROVE  Unsigned(p \o s) = Digits(Unsigned(p), s)
    OBVIOUS
  <2>1. PICK r \in Seq(Byte), x \in Byte : Ends(s, r, x, n)
    BY ONLY Peeled, Len(s) = n + 1, s \in Seq(Byte), n \in Nat
  <2>2. s = r \o <<x>> /\ Len(r) = n /\ r \in Seq(Nat) /\ x \in Nat
    BY <2>1, BytesAreNumbers DEF Ends
  <2>3. p \o s = (p \o r) \o <<x>> /\ p \o r \in Seq(Nat)
    <3> DEFINE e == <<x>>
    <3>1. e \in Seq(Nat)
      BY <2>2
    <3>2. s = r \o e
      BY <2>2
    <3> HIDE DEF e
    <3>3. (p \o r) \o e = p \o (r \o e)
      <4>1. p \in Seq(Nat) /\ r \in Seq(Nat) /\ e \in Seq(Nat)
        BY <1>0, <2>2, <3>1
      <4>2. Cat(p, Cat(r, e)) = Cat(Cat(p, r), e)
        BY ONLY <4>1, CatAssoc
      <4> QED
        BY ONLY <4>2 DEF Cat
    <3>4. p \o r \in Seq(Nat)
      BY ONLY <1>0, <2>2, ConcatProperties
    <3> QED
      BY ONLY <3>2, <3>3, <3>4 DEF e
  <2>4. Unsigned(p \o s) = Unsigned(p \o r) * Base + x
    <3> DEFINE v == p \o r
    <3>1. v \in Seq(Nat) /\ x \in Nat /\ 0 \in Nat /\ p \o s = v \o <<x>>
      BY <2>2, <2>3
    <3> HIDE DEF v
    <3>2. Digits(0, v \o <<x>>) = Digits(0, v) * Base + x
      BY ONLY <3>1, DigitsSnoc
    <3> QED
      BY <3>1, <3>2 DEF Unsigned, v
  <2>5. Digits(Unsigned(p), s) = Digits(Unsigned(p), r) * Base + x
    <3>1. \A a \in Nat : Digits(a, r \o <<x>>) = Digits(a, r) * Base + x
      BY ONLY <2>2, DigitsSnoc
    <3> QED
      BY ONLY <1>0, <2>2, <3>1
  <2>6. Unsigned(p \o r) = Digits(Unsigned(p), r)
    BY <1>2, <2>2
  <2> QED
    BY <2>4, <2>5, <2>6
<1> HIDE DEF N
<1>3. Nat \subseteq N
  BY <1>1, <1>2, NatSet
<1>4. Len(t) \in Nat
  BY LenProperties
<1> QED
  BY <1>3, <1>4 DEF N

(* The quotient and the remainder of a division.                           *)
LEMMA Division ==
  ASSUME NEW m \in Nat, m > 0, NEW h \in Nat, NEW r \in 0..m - 1
  PROVE  (h * m + r) \div m = h /\ (h * m + r) % m = r
OBVIOUS

(* A digit is a quotient and a remainder.                                  *)
LEMMA DigitAt ==
  ASSUME NEW s \in Seq(Byte), NEW i \in 1..Len(s)
  PROVE  (Unsigned(s) \div Power(Len(s) - i)) % Base = s[i]
<1> DEFINE w == Len(s)
           p == SubSeq(s, 1, i)
           q == SubSeq(s, 1, i - 1)
           t == SubSeq(s, i + 1, w)
           m == Power(w - i)
<1>0. Base \in Nat /\ Base > 1 /\ w \in Nat /\ s[i] \in Byte /\ i \in Nat /\ i <= w
  BY BaseAssumption, LenProperties, ElementOfSeq
<1>1. p \in Seq(Byte) /\ t \in Seq(Byte) /\ p \o t = s /\ Len(p) = i
  BY <1>0, CutInTwo
<1>2. Len(t) = w - i
  <2>1. Len(p \o t) = Len(p) + Len(t) /\ Len(t) \in Nat
    BY ONLY <1>1, ConcatProperties, LenProperties
  <2> QED
    BY <1>0, <1>1, <2>1
<1>3. q \in Seq(Byte) /\ p = q \o <<s[i]>>
  <2>1. i - 1 \in Nat /\ i - 1 <= w
    BY <1>0
  <2>2. q \in Seq(Byte)
    BY <2>1, CutInTwo
  <2>3. 1 \in 1..w /\ i \in 1..w
    BY <1>0
  <2> QED
    BY <2>2, <2>3, SubSeqRecursiveSecond
<1> HIDE DEF p, q, t
<1>4. Unsigned(p) = Unsigned(q) * Base + s[i] /\ Unsigned(q) \in Nat /\ Unsigned(p) \in Nat
  <2>1. q \in Seq(Nat) /\ p \in Seq(Nat) /\ s[i] \in Nat
    BY <1>0, <1>1, <1>3, BytesAreNumbers
  <2> DEFINE y == s[i]
  <2> HIDE DEF y
  <2>2. y \in Nat /\ p = q \o <<y>> /\ 0 \in Nat
    BY <1>3, <2>1 DEF y
  <2>3. Digits(0, q \o <<y>>) = Digits(0, q) * Base + y
    BY ONLY <2>1, <2>2, DigitsSnoc
  <2>4. Digits(0, q) \in Nat /\ Digits(0, p) \in Nat
    BY ONLY <2>1, <2>2, DigitsSnoc
  <2> QED
    BY <2>2, <2>3, <2>4 DEF Unsigned, y
<1>5. Unsigned(s) = Unsigned(p) * m + Unsigned(t) /\ Unsigned(t) \in 0..m - 1
  <2>1. Unsigned(p \o t) = Digits(Unsigned(p), t)
    BY ONLY <1>1, DigitsConcat
  <2>2. /\ Unsigned(t) \in 0..Power(Len(t)) - 1
        /\ \A a \in Nat : Digits(a, t) = a * Power(Len(t)) + Unsigned(t)
    BY ONLY <1>1, UnsignedBelow
  <2> QED
    BY <1>1, <1>2, <1>4, <2>1, <2>2
<1>6. m \in Nat /\ m > 0
  <2>1. w - i \in Nat
    BY <1>0
  <2> QED
    BY <2>1, Powers
<1> HIDE DEF m, w
<1>7. Unsigned(s) \div m = Unsigned(p)
  BY <1>4, <1>5, <1>6, Division
<1>8. (Unsigned(q) * Base + s[i]) % Base = s[i]
  <2>1. s[i] \in 0..Base - 1 /\ Base > 0
    BY <1>0 DEF Byte
  <2> QED
    BY ONLY <1>0, <1>4, <2>1, Division
<1> QED
  BY <1>4, <1>7, <1>8 DEF m, w

(* The encoding of an integer of w bytes is w bytes.                       *)
LEMMA EncodeIsBytes ==
  ASSUME NEW w \in Nat, NEW x \in Int
  PROVE  Encode(x, w) \in Seq(Byte) /\ Len(Encode(x, w)) = w
<1>1. Base \in Nat /\ Base > 1
  BY BaseAssumption
<1>2. ASSUME NEW i \in 1..w PROVE ((x % Power(w)) \div Power(w - i)) % Base \in Byte
  <2> DEFINE m == Power(w)
             n == Power(w - i)
  <2>1. w - i \in Nat
    OBVIOUS
  <2>2. m \in Nat /\ m > 0 /\ n \in Nat /\ n > 0
    BY <2>1, Powers
  <2> HIDE DEF m, n
  <2>3. x % m \in Nat
    BY <2>2
  <2>4. (x % m) \div n \in Nat
    BY ONLY <2>2, <2>3
  <2>5. ((x % m) \div n) % Base \in Byte
    BY ONLY <1>1, <2>4 DEF Byte
  <2> QED
    BY <2>5 DEF m, n
<1>3. Encode(x, w) \in [1..w -> Byte]
  BY <1>2 DEF Encode
<1> QED
  BY <1>3, FunctionIsSeq

(* Two's complement: what is read is an integer of w bytes, and its bytes  *)
(* are those that were read.                                               *)
LEMMA ReadBack ==
  ASSUME NEW b, WellFormed(b), NEW w \in Nat \ {0}, w <= ReadableBytes(b)
  PROVE  PeekInt(b, w) \in IntOf(w) /\ Encode(PeekInt(b, w), w) = Peek(b, w)
<1> DEFINE s == Peek(b, w)
           u == Unsigned(s)
           m == Power(w)
           x == PeekInt(b, w)
<1>1. s \in Seq(Byte) /\ Len(s) = w /\ s \in [1..w -> Byte]
  <2>1. s \in [1..w -> Byte]
    <3> SUFFICES ASSUME NEW i \in 1..w
                 PROVE  b.data[b.readerIndex_ + i - 1] \in Byte
      BY DEF Peek
    <3>1. /\ b.size \in Nat /\ b.readerIndex_ \in Nat /\ b.writerIndex_ \in Nat
          /\ b.data \in [0..b.size - 1 -> Byte]
          /\ b.readerIndex_ <= b.writerIndex_ /\ b.writerIndex_ <= b.size
      BY DEF WellFormed, IsBuffer
    <3>2. i \in 1..b.writerIndex_ - b.readerIndex_
      BY <3>1 DEF ReadableBytes
    <3>3. b.readerIndex_ + i - 1 \in 0..b.size - 1
      BY ONLY <3>1, <3>2, PlaceOfByte
    <3> QED
      BY <3>1, <3>3
  <2> QED
    BY <2>1, FunctionIsSeq
<1>2. u \in 0..m - 1
  BY <1>1, UnsignedBelow
<1>3. m \in Nat /\ m > 0 /\ \E k \in Nat : m = 2 * k
  <2> DEFINE n == Power(w - 1)
  <2>1. w - 1 \in Nat /\ (w - 1) + 1 = w
    OBVIOUS
  <2>2. m \in Nat /\ m > 0 /\ n \in Nat /\ m = n * Base
    BY <2>1, Powers
  <2> HIDE DEF m, n
  <2>3. PICK h \in Nat : Base = 2 * h
    BY BaseAssumption, SignAssumption
  <2>4. n * Base = 2 * (n * h) /\ n * h \in Nat
    BY ONLY <2>2, <2>3
  <2> QED
    BY <2>2, <2>4
<1>4. x = IF 2 * u >= m THEN u - m ELSE u
  BY DEF PeekInt
<1>5. IntOf(w) = -(m \div 2)..(m \div 2) - 1
  BY DEF IntOf
<1> HIDE DEF u, m, x
<1>6. PICK k \in Nat : m = 2 * k /\ m \div 2 = k
  BY <1>3
<1>7. x \in IntOf(w) /\ x \in Int
  BY <1>2, <1>4, <1>5, <1>6
<1>8. x % m = u
  <2>1. (u - m) % m = u /\ u % m = u
    BY ONLY <1>2, <1>3
  <2> QED
    BY <1>4, <2>1
<1>9. ASSUME NEW i \in 1..w
      PROVE  ((x % m) \div Power(w - i)) % Base = s[i]
  BY <1>1, <1>8, <1>9, DigitAt DEF u
<1>10. Encode(x, w) = [i \in 1..w |-> ((x % m) \div Power(w - i)) % Base]
  BY DEF Encode, m
<1>11. Encode(x, w) = s
  <2> HIDE DEF s
  <2> QED
    BY <1>1, <1>9, <1>10
<1> QED
  BY <1>7, <1>11 DEF x

(* A line end that was found lies within the contents.                     *)
LEMMA FoundInContents ==
  ASSUME NEW b, WellFormed(b), NEW start
  PROVE  /\ \A i \in FindCRLF(b, start) : i + 2 \in 0..ReadableBytes(b)
         /\ \A i \in FindEOL(b, start) : i + 1 \in 0..ReadableBytes(b)
<1>1. ReadableBytes(b) \in Nat
  BY Members
<1>2. \A pattern : Find(b, start, pattern) \subseteq 0..ReadableBytes(b) - Len(pattern)
  BY DEF Find, Occurrences
<1>3. Len(<<CR, LF>>) = 2 /\ Len(<<LF>>) = 1
  OBVIOUS
<1>4. ASSUME NEW i \in FindCRLF(b, start) PROVE i + 2 \in 0..ReadableBytes(b)
  <2>1. i \in 0..ReadableBytes(b) - 2
    BY <1>2, <1>3 DEF FindCRLF
  <2> QED
    BY <1>1, <2>1
<1>5. ASSUME NEW i \in FindEOL(b, start) PROVE i + 1 \in 0..ReadableBytes(b)
  <2>1. i \in 0..ReadableBytes(b) - 1
    BY <1>2, <1>3 DEF FindEOL
  <2> QED
    BY <1>1, <2>1
<1> QED
  BY <1>4, <1>5

-----------------------------------------------------------------------------
(* The invariant and the theorems.                                         *)

(* The constructor makes a buffer.                                         *)
LEMMA InitInv == Init => IInv
<1> SUFFICES ASSUME Init PROVE WellFormed(NewBuffer)
  BY DEF Init, IInv
<1>1. kCheapPrepend \in Nat /\ kInitialSize \in Nat
  BY SizesAssumption
<1>2. 0 \in Byte
  BY BaseAssumption DEF Byte
<1>3. [i \in 0..kCheapPrepend + kInitialSize - 1 |-> 0]
        \in [0..kCheapPrepend + kInitialSize - 1 -> Byte]
  BY <1>2
<1> QED
  BY <1>1, <1>3 DEF NewBuffer, WellFormed, IsBuffer

(* Every operation, with every argument, makes a buffer of a buffer.       *)
LEMMA StepInv == IInv /\ [Next]_vars => IInv'
<1> SUFFICES ASSUME IInv, [Next]_vars PROVE IInv'
  OBVIOUS
<1>1. WellFormed(buf) /\ WellFormed(rhs)
  BY DEF IInv
<1>2. MaxLen \in Nat /\ kCheapPrepend \in Nat /\ Widths \subseteq Nat
  BY SizesAssumption, WidthsAssumption
<1>3. ReadableBytes(buf) \in Nat /\ kCheapPrepend <= buf.size
  BY <1>1, Members
<1>4. ASSUME NEW b, WellFormed(b), Becomes(b) PROVE IInv'
  BY <1>1, <1>4 DEF Becomes, IInv, WellFormed, IsBuffer
<1>5. ASSUME NEW w \in Widths, NEW x \in IntOf(w)
      PROVE  Encode(x, w) \in Seq(Byte) /\ Len(Encode(x, w)) = w
  BY <1>2, EncodeIsBytes DEF IntOf
<1>6. ASSUME NEW n \in 0..ReadableBytes(buf) PROVE WellFormed(Retrieve(buf, n))
  BY <1>1, RetrieveProperties
<1>7. CASE append
  BY <1>1, <1>2, <1>4, <1>7, DataAreBytes, AppendBytesProperties DEF append
<1>8. CASE appendInt
  BY <1>1, <1>4, <1>5, <1>8, AppendBytesProperties DEF appendInt
<1>9. CASE ensureWritableBytes
  BY <1>1, <1>2, <1>4, <1>9, EnsureProperties DEF ensureWritableBytes
<1>10. CASE hasWritten
  BY <1>1, <1>2, <1>4, <1>10, DataAreBytes, WrittenProperties DEF hasWritten
<1>11. CASE readFd
  BY <1>1, <1>2, <1>4, <1>11, DataAreBytes, ReadFdProperties DEF readFd
<1>12. CASE prepend
  BY <1>1, <1>2, <1>4, <1>12, DataAreBytes, PrependProperties DEF prepend
<1>13. CASE prependInt
  BY <1>1, <1>4, <1>5, <1>13, PrependProperties DEF prependInt
<1>14. CASE retrieve
  BY <1>4, <1>6, <1>14 DEF retrieve
<1>15. CASE readInt
  <2>1. PICK w \in Widths : w <= ReadableBytes(buf) /\ Becomes(Retrieve(buf, w))
    BY <1>15 DEF readInt
  <2>2. w \in 0..ReadableBytes(buf)
    BY <1>2, <1>3, <2>1
  <2> QED
    BY <1>4, <1>6, <2>1, <2>2
<1>16. CASE retrieveAll
  BY <1>1, <1>2, <1>3, <1>4, <1>16, AtProperties DEF retrieveAll, RetrieveAll
<1>17. CASE retrieveUntil
  <2>1. PICK n : n \in 0..ReadableBytes(buf) /\ Becomes(Retrieve(buf, n))
    BY <1>1, <1>17, FoundInContents DEF retrieveUntil
  <2> QED
    BY <1>4, <1>6, <2>1
<1>18. CASE swap
  BY <1>1, <1>18 DEF swap, IInv, WellFormed, IsBuffer
<1>19. CASE UNCHANGED vars
  BY <1>1, <1>19 DEF vars, IInv, WellFormed, IsBuffer
<1> QED
  BY <1>7, <1>8, <1>9, <1>10, <1>11, <1>12, <1>13, <1>14, <1>15, <1>16, <1>17, <1>18, <1>19
  DEF Next

(* The invariant gives the two properties: each is what the lemmas say of  *)
(* a well-formed buffer.                                                   *)
LEMMA InvImplies == IInv => SpaceIsMade /\ ActsAsByteQueue
<1> SUFFICES ASSUME IInv PROVE SpaceIsMade /\ ActsAsByteQueue
  OBVIOUS
<1>1. WellFormed(buf) /\ MaxLen \in Nat
  BY SizesAssumption DEF IInv
<1>2. SpaceIsMade
  <2> SUFFICES ASSUME NEW n \in 0..MaxLen
               PROVE  /\ IsBuffer(EnsureWritableBytes(buf, n))
                      /\ WritableBytes(EnsureWritableBytes(buf, n)) >= n
                      /\ WritableBytes(buf) < n /\ ~TooSmall(buf, n) =>
                           kCheapPrepend < buf.readerIndex_
    BY DEF SpaceIsMade
  <2> QED
    BY <1>1, EnsureProperties DEF WellFormed
<1>3. ASSUME NEW bytes \in Data(MaxLen)
      PROVE  /\ Contents(AppendBytes(buf, bytes)) = Contents(buf) \o bytes
             /\ Contents(ReadFd(buf, bytes)) = Contents(buf) \o bytes
             /\ Len(bytes) <= PrependableBytes(buf) =>
                  Contents(PrependBytes(buf, bytes)) = bytes \o Contents(buf)
  <2>1. bytes \in Seq(Byte)
    BY <1>1, DataAreBytes
  <2> QED
    BY <1>1, <2>1, AppendBytesProperties, ReadFdProperties, PrependProperties
<1>4. ASSUME NEW n \in 0..MaxLen
      PROVE  Contents(EnsureWritableBytes(buf, n)) = Contents(buf)
  BY <1>1, EnsureProperties
<1>5. ASSUME NEW n \in 0..ReadableBytes(buf)
      PROVE  Contents(Retrieve(buf, n)) = SubSeq(Contents(buf), n + 1, ReadableBytes(buf))
  BY <1>1, RetrieveProperties
<1> QED
  BY <1>2, <1>3, <1>4, <1>5 DEF ActsAsByteQueue

(* The asserts of makeSpace hold and there is room, for every length: the  *)
(* contents that makeSpace moves always lie behind the reserved space.     *)
THEOREM SpaceAlwaysMade == Spec => []SpaceIsMade
<1>1. IInv => SpaceIsMade
  BY InvImplies
<1> QED
  BY <1>1, InitInv, StepInv, PTL DEF Spec

(* A buffer is a queue of bytes: no sequence of appends, prepends, reads,  *)
(* moves to the front, growths and swaps loses, repeats or reorders one.   *)
THEOREM AlwaysAByteQueue == Spec => []ActsAsByteQueue
<1>1. IInv => ActsAsByteQueue
  BY InvImplies
<1> QED
  BY <1>1, InitInv, StepInv, PTL DEF Spec

(* Integers are read back as they were written, negative ones included, at *)
(* any place of any buffer: the bytes that peekInt and readInt take for an *)
(* integer are the bytes that appendInt or prependInt lay down for it.     *)
THEOREM IntegersAlwaysReadBack == Spec => []IntegersReadBack
<1>1. IInv => IntegersReadBack
  <2> SUFFICES ASSUME IInv, NEW w \in Widths, w <= ReadableBytes(buf)
               PROVE  PeekInt(buf, w) \in IntOf(w) /\ Encode(PeekInt(buf, w), w) = Peek(buf, w)
    BY DEF IntegersReadBack
  <2>1. w \in Nat \ {0} /\ WellFormed(buf)
    BY SizesAssumption, WidthsAssumption DEF IInv
  <2> QED
    BY <2>1, ReadBack
<1> QED
  BY <1>1, InitInv, StepInv, PTL DEF Spec
=============================================================================
