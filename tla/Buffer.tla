------------------------------- MODULE Buffer -------------------------------
(***************************************************************************)
(* Buffer (src/include/knetlib/Buffer.h, src/src/Buffer.cpp): a vector of  *)
(* bytes with a reader and a writer index.  Space that was read is used    *)
(* again by moving the contents to the front, the vector grows only when   *)
(* that is not enough, and the bytes before the reader index take what is  *)
(* prepended.  The operations are functions of a buffer; the actions apply *)
(* them, with every argument the asserts allow, to one buffer, which can   *)
(* be swapped with a second one.                                           *)
(***************************************************************************)
EXTENDS Integers, Sequences, FiniteSetsExt

CONSTANTS
  Base,          \* a byte is a number below Base (256 in the program)
  CR, LF,        \* '\r' and '\n'
  kCheapPrepend, \* space kept in front of the contents
  kInitialSize,  \* space for contents at the start
  ExtraSize,     \* size of readFd's extrabuf
  Widths,        \* the sizes of the integers, in bytes
  MaxLen,        \* bound: bytes given in one call
  MaxSize,       \* bound: size of the vector
  MaxSwap        \* bound: size of a vector that is swapped

ASSUME BaseAssumption == Base \in Nat /\ Base > 1 /\ {CR, LF} \subseteq 0..Base - 1 /\ CR # LF
ASSUME SignAssumption == Base % 2 = 0  \* half of the first bytes start a negative integer
ASSUME SizesAssumption ==
  {kCheapPrepend, kInitialSize, ExtraSize, MaxLen, MaxSize, MaxSwap} \subseteq Nat
ASSUME WidthsAssumption == Widths \subseteq 1..kCheapPrepend

Byte == 0..Base - 1

VARIABLES
  buf,  \* the Buffer: its vector (size and data) and two indices
  rhs   \* the Buffer that swap() exchanges it with

vars == <<buf, rhs>>

IsBuffer(b) ==
  /\ b.size \in Nat /\ b.data \in [0..b.size - 1 -> Byte]
  /\ b.readerIndex_ \in Nat /\ b.writerIndex_ \in Nat
  /\ b.readerIndex_ <= b.writerIndex_ /\ b.writerIndex_ <= b.size

TypeOK == IsBuffer(buf) /\ IsBuffer(rhs)

(* Buffer::Buffer: the vector is filled with zeros.                        *)
NewBuffer ==
  [size |-> kCheapPrepend + kInitialSize,
   data |-> [i \in 0..kCheapPrepend + kInitialSize - 1 |-> 0],
   readerIndex_ |-> kCheapPrepend,
   writerIndex_ |-> kCheapPrepend]

(* The buffer with other indices.                                          *)
At(b, r, w) == [size |-> b.size, data |-> b.data, readerIndex_ |-> r, writerIndex_ |-> w]

-----------------------------------------------------------------------------
(* Looking.                                                                *)

ReadableBytes(b) == b.writerIndex_ - b.readerIndex_
WritableBytes(b) == b.size - b.writerIndex_
PrependableBytes(b) == b.readerIndex_

(* peek(), n bytes of it.                                                  *)
Peek(b, n) == [i \in 1..n |-> b.data[b.readerIndex_ + i - 1]]

(* The offsets at which the pattern starts in the contents: std::search    *)
(* and memchr, hence findCRLF and findEOL, return the first one from start *)
(* on, or nullptr if there is none.                                        *)
Occurrences(b, pattern) ==
  {i \in 0..ReadableBytes(b) - Len(pattern) :
     Peek(At(b, b.readerIndex_ + i, b.writerIndex_), Len(pattern)) = pattern}
Find(b, start, pattern) ==
  LET found == {i \in Occurrences(b, pattern) : i >= start}
  IN {i \in found : i = Min(found)}
FindCRLF(b, start) == Find(b, start, <<CR, LF>>)
FindEOL(b, start) == Find(b, start, <<LF>>)

(* The number whose digits to this base are those of a and then s; one is  *)
(* a power of the base, a 1 and then zeros.                                *)
Digits(a, s) ==
  LET value[i \in 0..Len(s)] == IF i = 0 THEN a ELSE value[i - 1] * Base + s[i]
  IN value[Len(s)]
Power(n) == Digits(1, [i \in 1..n |-> 0])

(* htobe16, htobe32, htobe64: the bytes of a two's complement integer of   *)
(* w bytes, the most significant one first.                                *)
Encode(x, w) == [i \in 1..w |-> ((x % Power(w)) \div Power(w - i)) % Base]

Unsigned(s) == Digits(0, s)

(* Mutated form: the sign bit is taken for a digit.                        *)
PeekIntUnsigned(b, w) == Unsigned(Peek(b, w))

(* peekInt8 to peekInt64, with be16toh and the like.                       *)
PeekInt(b, w) ==
  LET u == Unsigned(Peek(b, w)) IN IF 2 * u >= Power(w) THEN u - Power(w) ELSE u

(* The integers of w bytes.                                                *)
IntOf(w) == -(Power(w) \div 2)..(Power(w) \div 2) - 1

-----------------------------------------------------------------------------
(* Reading.                                                                *)

RetrieveAll(b) == At(b, kCheapPrepend, kCheapPrepend)

Retrieve(b, n) ==
  IF n < ReadableBytes(b) THEN At(b, b.readerIndex_ + n, b.writerIndex_) ELSE RetrieveAll(b)

-----------------------------------------------------------------------------
(* Writing.                                                                *)

(* Bytes copied to the vector at index at.                                 *)
Copy(b, at, bytes) ==
  [size |-> b.size,
   data |-> [i \in 0..b.size - 1 |->
               IF i - at \in 0..Len(bytes) - 1 THEN bytes[i - at + 1] ELSE b.data[i]],
   readerIndex_ |-> b.readerIndex_, writerIndex_ |-> b.writerIndex_]

(* Mutated form: the space that must stay in front is not counted.         *)
TooSmallWithoutReserve(b, n) == WritableBytes(b) + PrependableBytes(b) < n

TooSmall(b, n) == WritableBytes(b) + PrependableBytes(b) < n + kCheapPrepend

Resize(b, n) ==
  [size |-> n, data |-> [i \in 0..n - 1 |-> IF i < b.size THEN b.data[i] ELSE 0],
   readerIndex_ |-> b.readerIndex_, writerIndex_ |-> b.writerIndex_]

(* Mutated form: the writer index is moved as if nothing was readable.     *)
MoveToFrontShort(b) ==
  At(Copy(b, kCheapPrepend, Peek(b, ReadableBytes(b))), kCheapPrepend, kCheapPrepend)

MoveToFront(b) ==
  At(Copy(b, kCheapPrepend, Peek(b, ReadableBytes(b))),
     kCheapPrepend, kCheapPrepend + ReadableBytes(b))

MakeSpace(b, n) == IF TooSmall(b, n) THEN Resize(b, b.writerIndex_ + n) ELSE MoveToFront(b)

EnsureWritableBytes(b, n) == IF WritableBytes(b) < n THEN MakeSpace(b, n) ELSE b

HasWritten(b, n) == At(b, b.readerIndex_, b.writerIndex_ + n)

AppendBytes(b, bytes) ==
  LET e == EnsureWritableBytes(b, Len(bytes))
  IN HasWritten(Copy(e, e.writerIndex_, bytes), Len(bytes))

PrependBytes(b, bytes) ==
  LET r == b.readerIndex_ - Len(bytes) IN Copy(At(b, r, b.writerIndex_), r, bytes)

(* readFd, when readv() delivers these bytes: what does not fit into the   *)
(* vector has gone to extrabuf and is appended.                            *)
ReadFd(b, bytes) ==
  LET w == WritableBytes(b)
      full == At(Copy(b, b.writerIndex_, SubSeq(bytes, 1, w)), b.readerIndex_, b.size)
  IN IF Len(bytes) <= w
     THEN HasWritten(Copy(b, b.writerIndex_, bytes), Len(bytes))
     ELSE AppendBytes(full, SubSeq(bytes, w + 1, Len(bytes)))

-----------------------------------------------------------------------------
(* The operations as actions.                                              *)

Init == buf = NewBuffer /\ rhs = NewBuffer

Becomes(b) == b.size <= MaxSize /\ buf' = b /\ UNCHANGED rhs

Data(n) == UNION {[1..k -> Byte] : k \in 0..n}

append == \E bytes \in Data(MaxLen) : Becomes(AppendBytes(buf, bytes))
appendInt == \E w \in Widths : \E x \in IntOf(w) : Becomes(AppendBytes(buf, Encode(x, w)))

(* The caller writes at beginWrite() itself.                               *)
ensureWritableBytes == \E n \in 0..MaxLen : Becomes(EnsureWritableBytes(buf, n))
hasWritten ==
  \E bytes \in Data(MaxLen) :
    /\ Len(bytes) <= WritableBytes(buf)
    /\ Becomes(HasWritten(Copy(buf, buf.writerIndex_, bytes), Len(bytes)))

readFd ==
  \E bytes \in Data(MaxLen) :
    /\ Len(bytes) <= WritableBytes(buf) + (IF WritableBytes(buf) < ExtraSize THEN ExtraSize ELSE 0)
    /\ Becomes(ReadFd(buf, bytes))

prepend ==
  \E bytes \in Data(MaxLen) :
    Len(bytes) <= PrependableBytes(buf) /\ Becomes(PrependBytes(buf, bytes))
prependInt ==
  \E w \in Widths : \E x \in IntOf(w) :
    w <= PrependableBytes(buf) /\ Becomes(PrependBytes(buf, Encode(x, w)))

(* retrieveAsString takes its copy with peek().                            *)
retrieve == \E n \in 0..ReadableBytes(buf) : Becomes(Retrieve(buf, n))
readInt == \E w \in Widths : w <= ReadableBytes(buf) /\ Becomes(Retrieve(buf, w))
retrieveAll == Becomes(RetrieveAll(buf))

(* Up to a line end found from some offset on.                             *)
retrieveUntil ==
  \E start \in 0..ReadableBytes(buf) :
    \E end \in {i + 2 : i \in FindCRLF(buf, start)} \cup {i + 1 : i \in FindEOL(buf, start)} :
      Becomes(Retrieve(buf, end))

swap ==
  /\ buf.size <= MaxSwap /\ rhs.size <= MaxSwap
  /\ buf' = rhs /\ rhs' = buf

Next ==
  \/ append \/ appendInt \/ ensureWritableBytes \/ hasWritten \/ readFd
  \/ prepend \/ prependInt
  \/ retrieve \/ readInt \/ retrieveAll \/ retrieveUntil
  \/ swap

Spec == Init /\ [][Next]_vars

-----------------------------------------------------------------------------
(* Properties.                                                             *)

Contents(b) == Peek(b, ReadableBytes(b))

(* A buffer in any state acts as a queue of bytes: growing, moving the     *)
(* contents to the front and the detour through extrabuf lose, repeat and  *)
(* reorder nothing, and reading and prepending touch nothing else.         *)
ActsAsByteQueue ==
  /\ \A bytes \in Data(MaxLen) :
       /\ Contents(AppendBytes(buf, bytes)) = Contents(buf) \o bytes
       /\ Contents(ReadFd(buf, bytes)) = Contents(buf) \o bytes
       /\ Len(bytes) <= PrependableBytes(buf) =>
            Contents(PrependBytes(buf, bytes)) = bytes \o Contents(buf)
  /\ \A n \in 0..MaxLen : Contents(EnsureWritableBytes(buf, n)) = Contents(buf)
  /\ \A n \in 0..ReadableBytes(buf) :
       Contents(Retrieve(buf, n)) = SubSeq(Contents(buf), n + 1, ReadableBytes(buf))

(* The indices stay in order within the vector, and makeSpace keeps its    *)
(* asserts for every length: it moves only contents that lie behind the    *)
(* reserved space, and there is room afterwards.                           *)
SpaceIsMade ==
  \A n \in 0..MaxLen :
    LET b == EnsureWritableBytes(buf, n) IN
    /\ IsBuffer(b) /\ WritableBytes(b) >= n
    /\ WritableBytes(buf) < n /\ ~TooSmall(buf, n) => kCheapPrepend < buf.readerIndex_

(* The integers read are the integers written: reading is the inverse of   *)
(* what appendInt and prependInt lay down, negative numbers included.      *)
IntegersReadBack ==
  \A w \in Widths : w <= ReadableBytes(buf) =>
    PeekInt(buf, w) \in IntOf(w) /\ Encode(PeekInt(buf, w), w) = Peek(buf, w)
=============================================================================
