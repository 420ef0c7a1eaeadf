---------------------------- MODULE BufferProofs ----------------------------
(* Buffer holds exactly the queue's content, for every byte type, every     *)
(* size of the prepend area and every initial size, as long as shrink is    *)
(* only called while the content is at kCheapPrepend: the hypothesis        *)
(* ShrinkAtFront, without which the code loses content.                     *)
EXTENDS Buffer, TLAPS

\* The readable bytes are a sequence of as many bytes.
LEMMA ContentIsSeq ==
  ASSUME NEW x, WellFormed(x)
  PROVE  Content(x) \in Seq(Byte) /\ Len(Content(x)) = readableBytes(x)
<1>1. readableBytes(x) \in Nat BY DEF WellFormed, readableBytes
<1>2. \A i \in 1..readableBytes(x) : x.bytes[x.reader + i - 1] \in Byte
  BY DEF WellFormed, readableBytes
<1> QED BY <1>1, <1>2 DEF Content

\* Two sequences with the same elements are equal.
LEMMA SameSeq ==
  ASSUME NEW S, NEW s \in Seq(S), NEW u \in Seq(S), Len(s) = Len(u),
         \A i \in 1..Len(s) : s[i] = u[i]
  PROVE  s = u
OBVIOUS

\* Concatenation is associative.
LEMMA ConcatAssoc ==
  ASSUME NEW S, NEW s \in Seq(S), NEW u \in Seq(S), NEW v \in Seq(S)
  PROVE  (s \o u) \o v = s \o (u \o v)
<1> DEFINE l == (s \o u) \o v
           r == s \o (u \o v)
<1>1. l \in Seq(S) /\ r \in Seq(S) /\ Len(l) = Len(r) OBVIOUS
<1>2. \A i \in 1..Len(l) : l[i] = r[i] OBVIOUS
<1> HIDE DEF l, r
<1>3. l = r BY <1>1, <1>2, SameSeq
<1> QED BY <1>3 DEF l, r

\* A sequence is its first w elements followed by the others.
LEMMA SubSeqSplit ==
  ASSUME NEW S, NEW s \in Seq(S), NEW w \in Nat, w <= Len(s)
  PROVE  SubSeq(s, 1, w) \o SubSeq(s, w + 1, Len(s)) = s
<1> DEFINE d == SubSeq(s, 1, w)
           e == SubSeq(s, w + 1, Len(s))
           u == d \o e
<1>1. d \in Seq(S) /\ Len(d) = w /\ \A i \in 1..w : d[i] = s[i] OBVIOUS
<1>2. e \in Seq(S) /\ Len(e) = Len(s) - w /\ \A i \in 1..(Len(s) - w) : e[i] = s[w + i]
  OBVIOUS
<1> HIDE DEF d, e
<1>3. u \in Seq(S) /\ Len(u) = Len(s) BY <1>1, <1>2
<1>4. ASSUME NEW i \in 1..Len(u) PROVE u[i] = s[i]
  <2>1. CASE i <= w BY <1>1, <1>2, <1>3, <2>1
  <2>2. CASE i > w
    <3>1. u[i] = e[i - w] BY <1>1, <1>2, <1>3, <2>2
    <3>2. i - w \in 1..(Len(s) - w) /\ w + (i - w) = i BY <1>3, <2>2
    <3> QED BY <3>1, <3>2, <1>2
  <2>3. i <= w \/ i > w BY <1>3
  <2> QED BY <2>1, <2>2, <2>3
<1> HIDE DEF u
<1>5. u = s BY <1>3, <1>4, SameSeq
<1> QED BY <1>5 DEF u, d, e

\* std::copy inside the vector yields a vector of the same size.
LEMMA CopiedType ==
  ASSUME NEW x, WellFormed(x), NEW data \in Seq(Byte), NEW at \in Nat
  PROVE  Copied(x, data, at) \in [0..(x.size - 1) -> Byte]
<1> SUFFICES ASSUME NEW i \in 0..(x.size - 1)
             PROVE  (IF at <= i /\ i < at + Len(data) THEN data[i - at + 1]
                     ELSE x.bytes[i]) \in Byte
  BY DEF Copied
<1>1. CASE at <= i /\ i < at + Len(data)
  <2>1. i - at + 1 \in 1..Len(data) BY <1>1 DEF WellFormed
  <2> QED BY <2>1, <1>1
<1>2. CASE ~(at <= i /\ i < at + Len(data)) BY <1>2 DEF WellFormed
<1> QED BY <1>1, <1>2

\* resize keeps the indices and the content.
LEMMA ResizedContent ==
  ASSUME NEW x, WellFormed(x), NEW n \in Nat, n >= x.size
  PROVE  /\ WellFormed(Resized(x, n))
         /\ Content(Resized(x, n)) = Content(x)
         /\ writableBytes(Resized(x, n)) = n - x.writer
<1> DEFINE y == Resized(x, n)
<1>1. y.size = n /\ y.reader = x.reader /\ y.writer = x.writer
      /\ y.bytes = [i \in 0..(n - 1) |-> IF i < x.size THEN x.bytes[i] ELSE Zero]
      /\ y = [size |-> y.size, bytes |-> y.bytes, reader |-> y.reader, writer |-> y.writer]
  BY DEF WellFormed, Resized
<1>2. y.bytes \in [0..(n - 1) -> Byte]
  <2>1. \A i \in 0..(n - 1) : (IF i < x.size THEN x.bytes[i] ELSE Zero) \in Byte
    BY ByteAssumption DEF WellFormed
  <2> QED BY <1>1, <2>1
<1>3. WellFormed(y) BY <1>1, <1>2, SizesAssumption DEF WellFormed
<1>4. readableBytes(y) = readableBytes(x) BY <1>1 DEF readableBytes
<1>5. \A i \in 1..readableBytes(x) : y.bytes[y.reader + i - 1] = x.bytes[x.reader + i - 1]
  BY <1>1 DEF WellFormed, readableBytes
<1>6. Content(y) = Content(x) BY <1>4, <1>5 DEF Content
<1> QED BY <1>1, <1>3, <1>6 DEF writableBytes

\* Moving the content towards the front keeps it.
LEMMA MovedContent ==
  ASSUME NEW x, WellFormed(x), kCheapPrepend <= x.reader
  PROVE  /\ WellFormed(Moved(x))
         /\ Content(Moved(x)) = Content(x)
         /\ writableBytes(Moved(x)) = x.size - kCheapPrepend - readableBytes(x)
<1> DEFINE y == Moved(x)
<1>0. readableBytes(x) \in Nat /\ kCheapPrepend \in Nat
  BY SizesAssumption DEF WellFormed, readableBytes
<1>1. y.size = x.size /\ y.reader = kCheapPrepend
      /\ y.writer = kCheapPrepend + readableBytes(x)
      /\ y.bytes = Copied(x, Content(x), kCheapPrepend)
      /\ y = [size |-> y.size, bytes |-> y.bytes, reader |-> y.reader, writer |-> y.writer]
  BY DEF WellFormed, Moved
<1>2. y.bytes \in [0..(x.size - 1) -> Byte]
  BY <1>0, <1>1, ContentIsSeq, CopiedType
<1>3. y.writer <= y.size BY <1>0, <1>1 DEF WellFormed, readableBytes
<1>4. WellFormed(y)
  BY <1>0, <1>1, <1>2, <1>3 DEF WellFormed
<1>5. readableBytes(y) = readableBytes(x) BY <1>0, <1>1 DEF readableBytes
<1>6. ASSUME NEW i \in 1..readableBytes(x)
      PROVE  y.bytes[y.reader + i - 1] = x.bytes[x.reader + i - 1]
  <2> DEFINE k == kCheapPrepend + i - 1
  <2>1. k \in 0..(x.size - 1) /\ kCheapPrepend <= k
        /\ k < kCheapPrepend + readableBytes(x) /\ k - kCheapPrepend + 1 = i
    BY <1>0, <1>3, <1>1 DEF WellFormed
  <2>2. y.bytes[k] = Content(x)[k - kCheapPrepend + 1]
    BY <1>1, <2>1, ContentIsSeq DEF Copied
  <2>3. Content(x)[i] = x.bytes[x.reader + i - 1] BY DEF Content
  <2> QED BY <1>1, <2>1, <2>2, <2>3
<1>7. Content(y) = Content(x) BY <1>5, <1>6 DEF Content
<1> QED BY <1>0, <1>1, <1>4, <1>7 DEF writableBytes, WellFormed, readableBytes

\* ensureWritableBytes makes the room it is asked for and keeps the content.
LEMMA EnsureContent ==
  ASSUME NEW x, WellFormed(x), NEW len \in Nat
  PROVE  /\ WellFormed(ensureWritableBytes(x, len))
         /\ Content(ensureWritableBytes(x, len)) = Content(x)
         /\ writableBytes(ensureWritableBytes(x, len)) >= len
<1>1. CASE writableBytes(x) >= len
  <2>1. ~(writableBytes(x) < len) BY <1>1 DEF WellFormed, writableBytes
  <2> QED BY <2>1, <1>1 DEF ensureWritableBytes
<1>2. CASE writableBytes(x) < len /\ MustGrow(x, len)
  <2>1. ensureWritableBytes(x, len) = Resized(x, x.writer + len)
    BY <1>2 DEF ensureWritableBytes, makeSpace
  <2>2. x.writer + len \in Nat /\ x.writer + len >= x.size /\ (x.writer + len) - x.writer = len
    BY <1>2 DEF WellFormed, writableBytes
  <2> QED BY <2>1, <2>2, ResizedContent
<1>3. CASE writableBytes(x) < len /\ ~MustGrow(x, len)
  <2>1. ensureWritableBytes(x, len) = Moved(x)
    BY <1>3 DEF ensureWritableBytes, makeSpace
  <2>2. kCheapPrepend <= x.reader /\ x.size - kCheapPrepend - readableBytes(x) >= len
    BY <1>3, SizesAssumption
    DEF WellFormed, writableBytes, MustGrow, prependableBytes, readableBytes
  <2> QED BY <2>1, <2>2, MovedContent
<1>4. writableBytes(x) >= len \/ writableBytes(x) < len
  BY DEF WellFormed, writableBytes
<1> QED BY <1>1, <1>2, <1>3, <1>4

\* Bytes copied behind the content extend it.
LEMMA WrittenContent ==
  ASSUME NEW x, WellFormed(x), NEW data \in Seq(Byte), Len(data) <= writableBytes(x)
  PROVE  /\ WellFormed(Written(x, data))
         /\ Content(Written(x, data)) = Content(x) \o data
         /\ writableBytes(Written(x, data)) = writableBytes(x) - Len(data)
<1> DEFINE y == Written(x, data)
           n == readableBytes(x)
<1>0. n \in Nat /\ Len(data) \in Nat BY DEF WellFormed, readableBytes
<1>1. y.size = x.size /\ y.reader = x.reader /\ y.writer = x.writer + Len(data)
      /\ y.bytes = Copied(x, data, x.writer)
      /\ y = [size |-> y.size, bytes |-> y.bytes, reader |-> y.reader, writer |-> y.writer]
  BY DEF WellFormed, Written
<1>2. y.bytes \in [0..(x.size - 1) -> Byte]
  BY <1>1, CopiedType DEF WellFormed
<1>3. WellFormed(y)
  BY <1>0, <1>1, <1>2 DEF WellFormed, writableBytes
<1>4. readableBytes(y) = n + Len(data)
  BY <1>0, <1>1 DEF readableBytes, WellFormed
<1>5. Content(y) \in Seq(Byte) /\ Len(Content(y)) = n + Len(data)
  BY <1>3, <1>4, ContentIsSeq
<1>6. Content(x) \in Seq(Byte) /\ Len(Content(x)) = n
  BY ContentIsSeq
<1>7. Content(x) \o data \in Seq(Byte) /\ Len(Content(x) \o data) = n + Len(data)
  BY <1>6
<1>8. ASSUME NEW i \in 1..(n + Len(data))
      PROVE  Content(y)[i] = (Content(x) \o data)[i]
  <2> DEFINE k == x.reader + i - 1
  <2>1. k \in 0..(x.size - 1)
    BY <1>0 DEF WellFormed, readableBytes, writableBytes
  <2>2. Content(y)[i] = Copied(x, data, x.writer)[k]
    BY <1>1, <1>4 DEF Content
  <2>3. CASE i <= n
    <3>1. ~(x.writer <= k /\ k < x.writer + Len(data))
      BY <2>3, <1>0 DEF WellFormed, readableBytes
    <3>2. Copied(x, data, x.writer)[k] = x.bytes[k] BY <2>1, <3>1 DEF Copied
    <3>3. Content(x)[i] = x.bytes[k] BY <2>3 DEF Content
    <3>4. (Content(x) \o data)[i] = Content(x)[i] BY <2>3, <1>6
    <3> QED BY <2>2, <3>2, <3>3, <3>4
  <2>4. CASE i > n
    <3>1. x.writer <= k /\ k < x.writer + Len(data) /\ k - x.writer + 1 = i - n
      BY <2>4, <1>0 DEF WellFormed, readableBytes
    <3>2. Copied(x, data, x.writer)[k] = data[i - n] BY <2>1, <3>1 DEF Copied
    <3>3. (Content(x) \o data)[i] = data[i - n] BY <2>4, <1>6
    <3> QED BY <2>2, <3>2, <3>3
  <2>5. i <= n \/ i > n BY <1>0
  <2> QED BY <2>3, <2>4, <2>5
<1>9. Content(y) = Content(x) \o data
  <2> DEFINE s == Content(y)
             u == Content(x) \o data
  <2>1. s \in Seq(Byte) /\ u \in Seq(Byte) /\ Len(s) = Len(u) BY <1>5, <1>7
  <2>2. \A i \in 1..Len(s) : s[i] = u[i] BY <1>5, <1>8
  <2> HIDE DEF s, u
  <2>3. s = u BY <2>1, <2>2, SameSeq
  <2> QED BY <2>3 DEF s, u
<1> QED BY <1>0, <1>1, <1>3, <1>9 DEF writableBytes, WellFormed

\* append appends, whether or not it has to make room first.
LEMMA AppendContent ==
  ASSUME NEW x, WellFormed(x), NEW data \in Seq(Byte)
  PROVE  WellFormed(append(x, data)) /\ Content(append(x, data)) = Content(x) \o data
<1> DEFINE y == ensureWritableBytes(x, Len(data))
<1>1. WellFormed(y) /\ Content(y) = Content(x) /\ writableBytes(y) >= Len(data)
  BY EnsureContent
<1>2. Len(data) <= writableBytes(y) BY <1>1 DEF WellFormed, writableBytes
<1>3. WellFormed(Written(y, data)) /\ Content(Written(y, data)) = Content(y) \o data
  <2> HIDE DEF y
  <2> QED BY <1>1, <1>2, WrittenContent
<1> QED BY <1>1, <1>3 DEF append

\* A scattered read appends what it read, in order.
LEMMA ReadInContent ==
  ASSUME NEW x, WellFormed(x), NEW data \in Seq(Byte)
  PROVE  WellFormed(ReadIn(x, data)) /\ Content(ReadIn(x, data)) = Content(x) \o data
<1> DEFINE w == writableBytes(x)
<1>0. w \in Nat /\ Len(data) \in Nat BY DEF WellFormed, writableBytes
<1>1. CASE Len(data) <= w
  BY <1>1, WrittenContent DEF ReadIn
<1>2. CASE ~(Len(data) <= w)
  <2> DEFINE d == SubSeq(data, 1, w)
             e == SubSeq(data, w + 1, Len(data))
             y == Written(x, d)
  <2>1. d \in Seq(Byte) /\ Len(d) = w /\ e \in Seq(Byte) BY <1>0, <1>2
  <2>2. d \o e = data
    <3>1. w \in Nat /\ w <= Len(data) BY <1>0, <1>2
    <3> HIDE DEF w
    <3> QED BY <3>1, SubSeqSplit
  <2>3. Len(d) <= writableBytes(x) BY <2>1, <1>0
  <2>4. WellFormed(y) /\ Content(y) = Content(x) \o d
    BY <2>1, <2>3, WrittenContent
  <2>5. WellFormed(append(y, e)) /\ Content(append(y, e)) = Content(y) \o e
    <3> HIDE DEF y, e
    <3> QED BY <2>1, <2>4, AppendContent
  <2>6. (Content(x) \o d) \o e = Content(x) \o (d \o e)
    <3> HIDE DEF d, e
    <3>1. Content(x) \in Seq(Byte) BY ContentIsSeq
    <3> QED BY <3>1, <2>1, ConcatAssoc
  <2>7. ReadIn(x, data) = append(y, e) BY <1>2 DEF ReadIn
  <2> QED BY <2>2, <2>4, <2>5, <2>6, <2>7
<1> QED BY <1>1, <1>2

\* Bytes copied in front of the content come before it.
LEMMA PrependedContent ==
  ASSUME NEW x, WellFormed(x), NEW data \in Seq(Byte), Len(data) <= prependableBytes(x)
  PROVE  /\ WellFormed(Prepended(x, data))
         /\ Content(Prepended(x, data)) = data \o Content(x)
<1> DEFINE y == Prepended(x, data)
           n == readableBytes(x)
           m == x.reader - Len(data)
<1>0. n \in Nat /\ Len(data) \in Nat /\ m \in Nat
  BY DEF WellFormed, readableBytes, prependableBytes
<1>1. y.size = x.size /\ y.reader = m /\ y.writer = x.writer
      /\ y.bytes = Copied(x, data, m)
      /\ y = [size |-> y.size, bytes |-> y.bytes, reader |-> y.reader, writer |-> y.writer]
  BY DEF WellFormed, Prepended
<1>2. y.bytes \in [0..(x.size - 1) -> Byte]
  BY <1>0, <1>1, CopiedType
<1>3. WellFormed(y)
  BY <1>0, <1>1, <1>2 DEF WellFormed
<1>4. readableBytes(y) = n + Len(data)
  BY <1>0, <1>1 DEF readableBytes, WellFormed
<1>5. Content(y) \in Seq(Byte) /\ Len(Content(y)) = n + Len(data)
  BY <1>3, <1>4, ContentIsSeq
<1>6. Content(x) \in Seq(Byte) /\ Len(Content(x)) = n
  BY ContentIsSeq
<1>7. data \o Content(x) \in Seq(Byte) /\ Len(data \o Content(x)) = n + Len(data)
  BY <1>0, <1>6
<1>8. ASSUME NEW i \in 1..(n + Len(data))
      PROVE  Content(y)[i] = (data \o Content(x))[i]
  <2> DEFINE k == m + i - 1
  <2>1. k \in 0..(x.size - 1)
    BY <1>0 DEF WellFormed, readableBytes
  <2>2. Content(y)[i] = Copied(x, data, m)[k]
    BY <1>1, <1>4 DEF Content
  <2>3. CASE i <= Len(data)
    <3>1. m <= k /\ k < m + Len(data) /\ k - m + 1 = i
      BY <2>3, <1>0
    <3>2. Copied(x, data, m)[k] = data[i] BY <2>1, <3>1 DEF Copied
    <3>3. (data \o Content(x))[i] = data[i] BY <2>3, <1>6
    <3> QED BY <2>2, <3>2, <3>3
  <2>4. CASE i > Len(data)
    <3>1. ~(m <= k /\ k < m + Len(data)) BY <2>4, <1>0
    <3>2. Copied(x, data, m)[k] = x.bytes[k] BY <2>1, <3>1 DEF Copied
    <3>3. i - Len(data) \in 1..n /\ x.reader + (i - Len(data)) - 1 = k
      BY <2>4, <1>0 DEF WellFormed
    <3>4. Content(x)[i - Len(data)] = x.bytes[k] BY <3>3 DEF Content
    <3>5. (data \o Content(x))[i] = Content(x)[i - Len(data)] BY <2>4, <1>6
    <3> QED BY <2>2, <3>2, <3>4, <3>5
  <2>5. i <= Len(data) \/ i > Len(data) BY <1>0
  <2> QED BY <2>3, <2>4, <2>5
<1>9. Content(y) = data \o Content(x)
  <2> DEFINE s == Content(y)
             u == data \o Content(x)
  <2>1. s \in Seq(Byte) /\ u \in Seq(Byte) /\ Len(s) = Len(u) BY <1>5, <1>7
  <2>2. \A i \in 1..Len(s) : s[i] = u[i] BY <1>5, <1>8
  <2> HIDE DEF s, u
  <2>3. s = u BY <2>1, <2>2, SameSeq
  <2> QED BY <2>3 DEF s, u
<1> QED BY <1>3, <1>9

\* Advancing readerIndex_ drops the front of the content.
LEMMA RetrievedContent ==
  ASSUME NEW x, WellFormed(x), NEW len \in 0..readableBytes(x)
  PROVE  LET y == WithIndices(x, x.reader + len, x.writer)
         IN  /\ WellFormed(y)
             /\ Content(y) = SubSeq(Content(x), len + 1, Len(Content(x)))
<1> DEFINE y == WithIndices(x, x.reader + len, x.writer)
           n == readableBytes(x)
           u == SubSeq(Content(x), len + 1, Len(Content(x)))
<1>0. n \in Nat /\ len \in Nat /\ len <= n BY DEF WellFormed, readableBytes
<1>1. y.size = x.size /\ y.reader = x.reader + len /\ y.writer = x.writer
      /\ y.bytes = x.bytes
      /\ y = [size |-> y.size, bytes |-> y.bytes, reader |-> y.reader, writer |-> y.writer]
  BY DEF WithIndices
<1>2. WellFormed(y) BY <1>0, <1>1 DEF WellFormed, readableBytes
<1>3. readableBytes(y) = n - len BY <1>0, <1>1 DEF readableBytes, WellFormed
<1>4. Content(y) \in Seq(Byte) /\ Len(Content(y)) = n - len
  BY <1>2, <1>3, ContentIsSeq
<1>5. Content(x) \in Seq(Byte) /\ Len(Content(x)) = n
  BY ContentIsSeq
<1>6. u \in Seq(Byte) /\ Len(u) = n - len
  BY <1>0, <1>5
<1>7. ASSUME NEW i \in 1..(n - len)
      PROVE  Content(y)[i] = u[i]
  <2>1. Content(y)[i] = x.bytes[x.reader + len + i - 1]
    BY <1>1, <1>3 DEF Content
  <2>2. u[i] = Content(x)[len + i] BY <1>0, <1>5
  <2>3. len + i \in 1..n BY <1>0
  <2>4. Content(x)[len + i] = x.bytes[x.reader + (len + i) - 1] BY <2>3 DEF Content
  <2>5. x.reader + (len + i) - 1 = x.reader + len + i - 1 BY <1>0 DEF WellFormed
  <2> QED BY <2>1, <2>2, <2>4, <2>5
<1>8. Content(y) = u
  <2> DEFINE s == Content(y)
  <2>1. s \in Seq(Byte) /\ u \in Seq(Byte) /\ Len(s) = Len(u) BY <1>4, <1>6
  <2>2. \A i \in 1..Len(s) : s[i] = u[i] BY <1>4, <1>7
  <2> HIDE DEF s, u
  <2>3. s = u BY <2>1, <2>2, SameSeq
  <2> QED BY <2>3 DEF s
<1> QED BY <1>2, <1>8

\* shrink keeps a content that is at kCheapPrepend already.
LEMMA ShrunkContent ==
  ASSUME NEW x, WellFormed(x), NEW reserve \in Nat, x.reader = kCheapPrepend
  PROVE  WellFormed(Shrunk(x, reserve)) /\ Content(Shrunk(x, reserve)) = Content(x)
<1> DEFINE y == Shrunk(x, reserve)
           n == readableBytes(x)
           z == kCheapPrepend + n + reserve
<1>0. n \in Nat /\ kCheapPrepend \in Nat /\ z \in Nat /\ x.writer = kCheapPrepend + n
  BY SizesAssumption DEF WellFormed, readableBytes
<1>1. y.size = z /\ y.reader = x.reader /\ y.writer = x.writer
      /\ y.bytes = [i \in 0..(z - 1) |->
                      IF kCheapPrepend <= i /\ i < kCheapPrepend + n
                      THEN x.bytes[x.reader + i - kCheapPrepend] ELSE Zero]
      /\ y = [size |-> y.size, bytes |-> y.bytes, reader |-> y.reader, writer |-> y.writer]
  <2>1. y.size = z /\ y.reader = x.reader /\ y.writer = x.writer
        /\ y.bytes = ShrunkBytes(x, reserve)
        /\ y = [size |-> y.size, bytes |-> y.bytes, reader |-> y.reader, writer |-> y.writer]
    BY DEF Shrunk
  <2>2. ShrunkBytes(x, reserve)
          = [i \in 0..(z - 1) |->
               IF kCheapPrepend <= i /\ i < kCheapPrepend + n
               THEN x.bytes[x.reader + i - kCheapPrepend] ELSE Zero]
    <3>1. kCheapPrepend + n + reserve - 1 = z - 1 BY <1>0
    <3> QED BY <3>1 DEF ShrunkBytes
  <2> HIDE DEF y, z, n
  <2> QED BY <2>1, <2>2
<1>2. y.bytes \in [0..(z - 1) -> Byte]
  <2> SUFFICES ASSUME NEW i \in 0..(z - 1)
               PROVE  (IF kCheapPrepend <= i /\ i < kCheapPrepend + n
                       THEN x.bytes[x.reader + i - kCheapPrepend] ELSE Zero) \in Byte
    BY <1>1
  <2>1. CASE kCheapPrepend <= i /\ i < kCheapPrepend + n
    <3>1. x.reader + i - kCheapPrepend \in 0..(x.size - 1)
      BY <1>0, <2>1 DEF WellFormed
    <3> QED BY <2>1, <3>1 DEF WellFormed
  <2>2. CASE ~(kCheapPrepend <= i /\ i < kCheapPrepend + n)
    BY <2>2, ByteAssumption
  <2> QED BY <2>1, <2>2
<1>3. WellFormed(y) BY <1>0, <1>1, <1>2 DEF WellFormed
<1>4. readableBytes(y) = n BY <1>1 DEF readableBytes
<1>5. ASSUME NEW i \in 1..n
      PROVE  y.bytes[y.reader + i - 1] = x.bytes[x.reader + i - 1]
  <2>1. kCheapPrepend + i - 1 \in 0..(z - 1) /\ kCheapPrepend <= kCheapPrepend + i - 1
        /\ kCheapPrepend + i - 1 < kCheapPrepend + n
        /\ x.reader + (kCheapPrepend + i - 1) - kCheapPrepend = x.reader + i - 1
    BY <1>0
  <2>2. y.bytes[kCheapPrepend + i - 1]
          = x.bytes[x.reader + (kCheapPrepend + i - 1) - kCheapPrepend]
    BY <1>1, <2>1
  <2> QED BY <1>1, <2>1, <2>2
<1>6. Content(y) = Content(x) BY <1>4, <1>5 DEF Content
<1> QED BY <1>3, <1>6

\* No byte between the indices is the empty sequence.
LEMMA EmptyContent ==
  ASSUME NEW x, WellFormed(x), readableBytes(x) = 0
  PROVE  Content(x) = <<>>
<1>1. Content(x) \in Seq(Byte) /\ Len(Content(x)) = 0 BY ContentIsSeq
<1> HIDE DEF Content
<1> QED BY <1>1

-----------------------------------------------------------------------------
\* Every operation does to the vector and its indices what it does to the queue.
LEMMA HoldsContentStep ==
  ASSUME ShrinkAtFront, HoldsContent, [Next]_vars
  PROVE  HoldsContent'
<1>0. WellFormed(b) /\ content \in Seq(Byte) /\ Content(b) = content
      /\ Len(content) = readableBytes(b) /\ readableBytes(b) \in Nat
  BY ContentIsSeq DEF HoldsContent, WellFormed, readableBytes
<1>1. ASSUME NEW data \in Inputs, Append_(data) PROVE HoldsContent'
  <2>1. data \in Seq(Byte) BY InputsAssumption
  <2>2. content' \in Seq(Byte) BY <1>0, <1>1, <2>1 DEF Append_
  <2>3. WellFormed(append(b, data)) /\ Content(append(b, data)) = content \o data
    BY <1>0, <2>1, AppendContent
  <2> QED BY <1>1, <2>2, <2>3 DEF Append_, HoldsContent, WellFormed, Content, readableBytes
<1>2. ASSUME NEW data \in Inputs, ReadFd(data) PROVE HoldsContent'
  <2>1. data \in Seq(Byte) BY InputsAssumption
  <2>2. content' \in Seq(Byte) BY <1>0, <1>2, <2>1 DEF ReadFd
  <2>3. WellFormed(ReadIn(b, data)) /\ Content(ReadIn(b, data)) = content \o data
    BY <1>0, <2>1, ReadInContent
  <2> QED BY <1>2, <2>2, <2>3 DEF ReadFd, HoldsContent, WellFormed, Content, readableBytes
<1>3. ASSUME NEW data \in Inputs, Prepend(data) PROVE HoldsContent'
  <2>1. data \in Seq(Byte) BY InputsAssumption
  <2>2. content' \in Seq(Byte) BY <1>0, <1>3, <2>1 DEF Prepend
  <2>3. WellFormed(Prepended(b, data)) /\ Content(Prepended(b, data)) = data \o content
    BY <1>0, <1>3, <2>1, PrependedContent DEF Prepend
  <2> QED BY <1>3, <2>2, <2>3 DEF Prepend, HoldsContent, WellFormed, Content, readableBytes
<1>4. ASSUME NEW len \in 0..readableBytes(b), Retrieve(len) PROVE HoldsContent'
  <2> DEFINE y == WithIndices(b, b.reader + len, b.writer)
  <2>1. WellFormed(y) /\ Content(y) = SubSeq(content, len + 1, Len(content))
    BY <1>0, RetrievedContent
  <2>2. b' = y /\ content' = SubSeq(content, len + 1, Len(content))
    BY <1>4 DEF Retrieve
  <2>3. content' \in Seq(Byte) BY <2>1, <2>2, ContentIsSeq
  <2> HIDE DEF y
  <2> QED BY <2>1, <2>2, <2>3 DEF HoldsContent, WellFormed, Content, readableBytes
<1>5. ASSUME NEW len \in Lengths, EnsureWritableBytes(len) PROVE HoldsContent'
  <2>1. len \in Nat BY InputsAssumption DEF Lengths
  <2>2. WellFormed(ensureWritableBytes(b, len)) /\ Content(ensureWritableBytes(b, len)) = content
    BY <1>0, <2>1, EnsureContent
  <2> QED BY <1>0, <1>5, <2>2 DEF EnsureWritableBytes, HoldsContent, WellFormed, Content,
                                  readableBytes
<1>6. ASSUME NEW len \in Lengths, Shrink(len) PROVE HoldsContent'
  <2>1. len \in Nat BY InputsAssumption DEF Lengths
  <2>2. WellFormed(Shrunk(b, len)) /\ Content(Shrunk(b, len)) = content
    BY <1>0, <1>6, <2>1, ShrunkContent DEF Shrink
  <2> QED BY <1>0, <1>6, <2>2 DEF Shrink, HoldsContent, WellFormed, Content, readableBytes
<1>7. CASE RetrieveAll
  <2> DEFINE y == WithIndices(b, kCheapPrepend, kCheapPrepend)
  <2>1. b' = y /\ content' = <<>> BY <1>7 DEF RetrieveAll
  <2>2. WellFormed(y) BY <1>0, SizesAssumption DEF WellFormed, WithIndices
  <2>3. readableBytes(y) = 0 BY SizesAssumption DEF readableBytes, WithIndices
  <2>4. Content(y) = <<>> BY <2>2, <2>3, EmptyContent
  <2> HIDE DEF y
  <2> QED BY <2>1, <2>2, <2>4 DEF HoldsContent, WellFormed, Content, readableBytes
<1>8. CASE UNCHANGED vars
  BY <1>8 DEF vars, HoldsContent, WellFormed, Content, readableBytes
<1> QED BY <1>1, <1>2, <1>3, <1>4, <1>5, <1>6, <1>7, <1>8 DEF Next

\* A new Buffer is empty.
LEMMA HoldsContentInit == Init => HoldsContent
<1> SUFFICES ASSUME Init PROVE HoldsContent OBVIOUS
<1>1. b = NewBuffer /\ content = <<>> BY DEF Init
<1>2. WellFormed(NewBuffer)
  BY ByteAssumption, SizesAssumption DEF NewBuffer, WellFormed
<1>3. readableBytes(NewBuffer) = 0 BY SizesAssumption DEF NewBuffer, readableBytes
<1>4. Content(NewBuffer) = <<>> BY <1>2, <1>3, EmptyContent
<1> QED BY <1>1, <1>2, <1>4 DEF HoldsContent

\* Buffer is a byte queue: peek() shows what was put in and not taken out, for
\* every size of the vector and of its prepend area, if its callers shrink it
\* only while the content is at kCheapPrepend.
THEOREM ContentPreserved ==
  ASSUME ShrinkAtFront
  PROVE  Spec => []HoldsContent
<1>1. Init => HoldsContent BY HoldsContentInit
<1>2. HoldsContent /\ [Next]_vars => HoldsContent' BY HoldsContentStep
<1> QED BY <1>1, <1>2, PTL DEF Spec

\* The asserts of makeSpace and ensureWritableBytes (Buffer.h:104, 154) hold,
\* under the same condition.
THEOREM SpaceMade ==
  ASSUME ShrinkAtFront
  PROVE  Spec => []SpaceIsMade
<1>1. HoldsContent => SpaceIsMade
  <2> SUFFICES ASSUME HoldsContent, NEW len \in Lengths
               PROVE  /\ writableBytes(b) < len /\ ~MustGrow(b, len) => kCheapPrepend < b.reader
                      /\ writableBytes(ensureWritableBytes(b, len)) >= len
    BY DEF SpaceIsMade
  <2>1. len \in Nat BY InputsAssumption DEF Lengths
  <2>2. b.size \in Nat /\ b.reader \in Nat /\ b.writer \in Nat /\ kCheapPrepend \in Nat
        /\ b.reader <= b.writer /\ b.writer <= b.size
    BY SizesAssumption DEF HoldsContent, WellFormed
  <2>3. writableBytes(b) < len /\ ~MustGrow(b, len) => kCheapPrepend < b.reader
    BY <2>1, <2>2 DEF writableBytes, MustGrow, prependableBytes
  <2>4. writableBytes(ensureWritableBytes(b, len)) >= len
    BY <2>1, EnsureContent DEF HoldsContent
  <2> QED BY <2>3, <2>4
<1>2. Spec => []HoldsContent BY ContentPreserved
<1> QED BY <1>1, <1>2, PTL

=============================================================================
