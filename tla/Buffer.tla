------------------------------- MODULE Buffer -------------------------------
(***************************************************************************)
(* Buffer (src/net/Buffer.h, Buffer.cpp): a byte queue in one vector, with *)
(* room kept in front of the content.  The operations work on the record   *)
(* b = [size, bytes, reader, writer] (buffer_, readerIndex_, writerIndex_);*)
(* content is the reference: the byte sequence the caller has put in and   *)
(* not taken out, to which the operations are applied as on a queue.       *)
(*                                                                         *)
(* Data: a byte is a member of Byte.  Positions in the vector count from 0 *)
(* as in the code, positions in a sequence of bytes from 1.                *)
(***************************************************************************)
EXTENDS Integers, Sequences

CONSTANTS Byte,           \* values of a char
          Zero,           \* the value that vector fills new elements with
          kCheapPrepend,
          kInitialSize,
          Inputs,         \* byte sequences a caller may put in
          MaxContent,     \* bound: nothing is put into a longer content
          ShrinkAtFront   \* callers shrink only while the content is at kCheapPrepend

ASSUME ByteAssumption == Zero \in Byte

ASSUME SizesAssumption == kCheapPrepend \in Nat /\ kInitialSize \in Nat

ASSUME InputsAssumption == Inputs \subseteq Seq(Byte)

ASSUME MaxContentAssumption == MaxContent \in Nat

ASSUME ShrinkAssumption == ShrinkAtFront \in BOOLEAN

VARIABLES b,        \* the Buffer
          content   \* what it stands for

vars == <<b, content>>

readableBytes(x) == x.writer - x.reader

writableBytes(x) == x.size - x.writer

prependableBytes(x) == x.reader

\* The bytes that peek() points to.
Content(x) == [i \in 1..readableBytes(x) |-> x.bytes[x.reader + i - 1]]

\* std::copy(data, data + len, begin() + at)
Copied(x, data, at) ==
    [i \in 0..(x.size - 1) |->
        IF at <= i /\ i < at + Len(data) THEN data[i - at + 1] ELSE x.bytes[i]]

\* buffer_.resize(n) with n at least the size.
Resized(x, n) ==
    [size |-> n,
     bytes |-> [i \in 0..(n - 1) |-> IF i < x.size THEN x.bytes[i] ELSE Zero],
     reader |-> x.reader, writer |-> x.writer]

\* The content moved to kCheapPrepend.
Moved(x) ==
    [size |-> x.size, bytes |-> Copied(x, Content(x), kCheapPrepend),
     reader |-> kCheapPrepend, writer |-> kCheapPrepend + readableBytes(x)]

\* Mutant of MustGrow: the cheap prepend area is given to the content.
MustGrowIgnoringPrepend(x, len) == writableBytes(x) + prependableBytes(x) < len

\* Moving the content would not make room for len bytes.
MustGrow(x, len) == writableBytes(x) + prependableBytes(x) < len + kCheapPrepend

makeSpace(x, len) == IF MustGrow(x, len) THEN Resized(x, x.writer + len) ELSE Moved(x)

ensureWritableBytes(x, len) == IF writableBytes(x) < len THEN makeSpace(x, len) ELSE x

\* std::copy to beginWrite() and hasWritten.
Written(x, data) ==
    [size |-> x.size, bytes |-> Copied(x, data, x.writer),
     reader |-> x.reader, writer |-> x.writer + Len(data)]

append(x, data) == Written(ensureWritableBytes(x, Len(data)), data)

\* Mutant of ReadIn: writerIndex_ is not moved before the rest is appended.
ReadInRestOnly(x, data) ==
    LET w == writableBytes(x)
    IN  IF Len(data) <= w THEN Written(x, data)
        ELSE append(Written(x, SubSeq(data, 1, w)), SubSeq(data, 1, Len(data) - w))

\* readFd when readv delivered data: as much as fits directly behind the
\* content, the rest in extrabuf, from where it is appended.
ReadIn(x, data) ==
    LET w == writableBytes(x)
    IN  IF Len(data) <= w THEN Written(x, data)
        ELSE append(Written(x, SubSeq(data, 1, w)), SubSeq(data, w + 1, Len(data)))

\* The copy goes in front of the content.
Prepended(x, data) ==
    [size |-> x.size, bytes |-> Copied(x, data, x.reader - Len(data)),
     reader |-> x.reader - Len(data), writer |-> x.writer]

WithIndices(x, r, w) == [size |-> x.size, bytes |-> x.bytes, reader |-> r, writer |-> w]

\* shrink copies the content to kCheapPrepend of a new vector ...
ShrunkBytes(x, reserve) ==
    [i \in 0..(kCheapPrepend + readableBytes(x) + reserve - 1) |->
        IF kCheapPrepend <= i /\ i < kCheapPrepend + readableBytes(x)
        THEN x.bytes[x.reader + i - kCheapPrepend] ELSE Zero]

\* ... and leaves the indices as they were.
Shrunk(x, reserve) ==
    [size |-> kCheapPrepend + readableBytes(x) + reserve,
     bytes |-> ShrunkBytes(x, reserve),
     reader |-> x.reader, writer |-> x.writer]

\* Buffer()
NewBuffer ==
    [size |-> kCheapPrepend + kInitialSize,
     bytes |-> [i \in 0..(kCheapPrepend + kInitialSize - 1) |-> Zero],
     reader |-> kCheapPrepend,
     writer |-> kCheapPrepend]

Init ==
    /\ b = NewBuffer
    /\ content = <<>>

-----------------------------------------------------------------------------
Append_(data) ==
    /\ Len(content) <= MaxContent
    /\ b' = append(b, data)
    /\ content' = content \o data

\* A readv that fails changes nothing.
ReadFd(data) ==
    /\ Len(content) <= MaxContent
    /\ b' = ReadIn(b, data)
    /\ content' = content \o data

\* assert(len <= prependableBytes()) is the caller's to keep.
Prepend(data) ==
    /\ Len(content) <= MaxContent
    /\ Len(data) <= prependableBytes(b)
    /\ b' = Prepended(b, data)
    /\ content' = data \o content

\* retrieve and retrieveUntil; assert(len <= readableBytes()) likewise.
Retrieve(len) ==
    /\ len <= readableBytes(b)
    /\ b' = WithIndices(b, b.reader + len, b.writer)
    /\ content' = SubSeq(content, len + 1, Len(content))

\* retrieveAll and retrieveAsString.
RetrieveAll ==
    /\ b' = WithIndices(b, kCheapPrepend, kCheapPrepend)
    /\ content' = <<>>

EnsureWritableBytes(len) ==
    /\ Len(content) <= MaxContent
    /\ b' = ensureWritableBytes(b, len)
    /\ UNCHANGED content

\* The code takes any buffer; what the caller must see to is in ShrinkAtFront.
Shrink(reserve) ==
    /\ ShrinkAtFront => b.reader = kCheapPrepend
    /\ b' = Shrunk(b, reserve)
    /\ UNCHANGED content

Lengths == {Len(data) : data \in Inputs}

Next ==
    \/ \E data \in Inputs : Append_(data) \/ ReadFd(data) \/ Prepend(data)
    \/ \E len \in 0..readableBytes(b) : Retrieve(len)
    \/ \E len \in Lengths : EnsureWritableBytes(len) \/ Shrink(len)
    \/ RetrieveAll

Spec == Init /\ [][Next]_vars

-----------------------------------------------------------------------------
(* Properties.                                                             *)

\* A vector of size bytes with 0 <= readerIndex <= writerIndex <= size
\* (Buffer.h:19), in which retrieveAll can always put the indices back.
WellFormed(x) ==
    /\ x = [size |-> x.size, bytes |-> x.bytes, reader |-> x.reader, writer |-> x.writer]
    /\ x.size \in Nat /\ x.reader \in Nat /\ x.writer \in Nat
    /\ x.bytes \in [0..(x.size - 1) -> Byte]
    /\ x.reader <= x.writer
    /\ x.writer <= x.size
    /\ kCheapPrepend <= x.size

\* No byte is lost, repeated, reordered or taken from outside of the content:
\* after any sequence of operations, through growing, moving and both parts of
\* a scattered read, peek() shows exactly what the queue holds, provided that
\* nobody shrinks a buffer after a retrieve or a prepend (ShrinkAtFront).
HoldsContent ==
    /\ WellFormed(b)
    /\ content \in Seq(Byte)
    /\ Content(b) = content

\* The asserts of makeSpace and ensureWritableBytes hold for every length: the
\* content is moved only towards the front, and the room asked for is there.
SpaceIsMade ==
    \A len \in Lengths :
        /\ writableBytes(b) < len /\ ~MustGrow(b, len) => kCheapPrepend < b.reader
        /\ writableBytes(ensureWritableBytes(b, len)) >= len

\* The class comment's 0 <= readerIndex <= writerIndex <= size (Buffer.h:19).
\* shrink (Buffer.h:127-131) replaces the vector by one that may be shorter and
\* leaves the indices into the old one.
IndicesInRange == 0 <= b.reader /\ b.reader <= b.writer /\ b.writer <= b.size

=============================================================================
