---------------------------- MODULE BufferProofs ----------------------------
(***************************************************************************)
(* Buffer is a first-in first-out queue of bytes, for every alphabet, every*)
(* size of reserve, initial room and extrabuf, and every string of bytes.  *)
(***************************************************************************)
EXTENDS Buffer, SequenceTheorems, TLAPS

\* r and w are offsets of d, in order.
IsPart(d, r, w) ==
  /\ d \in Seq(Byte) /\ r \in Nat /\ w \in Nat
  /\ r <= w /\ w <= Len(d)

\* There is room for s behind offset w.
Fits(d, w, s) == s \in Seq(Byte) /\ w + Len(s) <= Len(d)

\* n is a size that d may grow to.
IsSize(d, n) == n \in Nat /\ Len(d) <= n

\* The part of a vector between two offsets, byte by byte.
LEMMA Part ==
  ASSUME NEW d, NEW r, NEW w, IsPart(d, r, w)
  PROVE  /\ Slice(d, r, w) \in Seq(Byte)
         /\ Len(Slice(d, r, w)) = w - r
         /\ \A i \in 1 .. w - r : Slice(d, r, w)[i] = d[r + i]
<1>1. /\ d \in Seq(Byte) /\ r \in Nat /\ w \in Nat /\ Len(d) \in Nat
      /\ r <= w /\ w <= Len(d)
  BY LenProperties DEF IsPart
<1>2. \A i \in r + 1 .. w : d[i] \in Byte
  BY <1>1, ElementOfSeq
<1>3. QED
  BY <1>1, <1>2, SubSeqProperties DEF Slice

\* Concatenation of strings of bytes is associative.
LEMMA Regroup ==
  ASSUME NEW a \in Seq(Byte), NEW b \in Seq(Byte), NEW c \in Seq(Byte)
  PROVE  (a \o b) \o c = a \o (b \o c)
  BY ConcatAssociative

\* std::copy inside the vector writes its bytes and nothing else.
LEMMA CopyBytes ==
  ASSUME NEW d \in Seq(Byte), NEW at \in Nat, NEW s \in Seq(Byte)
  PROVE  /\ Copy(d, at, s) \in Seq(Byte)
         /\ Len(Copy(d, at, s)) = Len(d)
         /\ \A i \in 1 .. Len(d) :
              Copy(d, at, s)[i] = IF at < i /\ i <= at + Len(s) THEN s[i - at] ELSE d[i]
<1>1. \A i \in 1 .. Len(d) :
        (IF at < i /\ i <= at + Len(s) THEN s[i - at] ELSE d[i]) \in Byte
  BY ElementOfSeq, LenProperties
<1>2. Len(d) \in Nat
  BY LenProperties
<1>3. QED
  BY <1>1, <1>2 DEF Copy

\* resize keeps the old bytes.
LEMMA ResizeBytes ==
  ASSUME NEW d \in Seq(Byte), NEW n \in Nat, Len(d) <= n
  PROVE  /\ Resize(d, n) \in Seq(Byte)
         /\ Len(Resize(d, n)) = n
         /\ \A i \in 1 .. Len(d) : Resize(d, n)[i] = d[i]
<1>1. \A i \in 1 .. n : (IF i <= Len(d) THEN d[i] ELSE Zero) \in Byte
  BY ZeroAssumption, ElementOfSeq, LenProperties
<1>2. Len(d) \in Nat
  BY LenProperties
<1>3. QED
  BY <1>1, <1>2 DEF Resize

\* Copying s behind the readable part appends it to that part.
LEMMA CopyBehind ==
  ASSUME NEW d, NEW r, NEW w, IsPart(d, r, w), NEW s, Fits(d, w, s)
  PROVE  Slice(Copy(d, w, s), r, w + Len(s)) = Slice(d, r, w) \o s
<1> DEFINE e == Copy(d, w, s)
           old == Slice(d, r, w)
<1>1. /\ d \in Seq(Byte) /\ s \in Seq(Byte) /\ Len(s) \in Nat /\ Len(d) \in Nat
      /\ r \in Nat /\ w \in Nat /\ r <= w /\ w + Len(s) <= Len(d)
  BY LenProperties DEF IsPart, Fits
<1>2. PICK v \in Nat : v = w + Len(s)
  BY <1>1
<1> DEFINE new == Slice(e, r, v)
<1>3. /\ e \in Seq(Byte) /\ Len(e) = Len(d)
      /\ \A i \in 1 .. Len(d) : e[i] = IF w < i /\ i <= v THEN s[i - w] ELSE d[i]
  BY <1>1, <1>2, CopyBytes
<1> HIDE DEF e
<1>4. /\ old \in Seq(Byte) /\ Len(old) = w - r
      /\ \A i \in 1 .. w - r : old[i] = d[r + i]
  BY Part
<1>5. /\ new \in Seq(Byte) /\ Len(new) = v - r
      /\ \A i \in 1 .. v - r : new[i] = e[r + i]
  <2>1. IsPart(e, r, v)
    BY <1>1, <1>2, <1>3 DEF IsPart
  <2>2. QED
    BY <2>1, Part
<1> HIDE DEF old, new
<1>6. /\ old \o s \in Seq(Byte) /\ Len(old \o s) = Len(old) + Len(s)
      /\ \A i \in 1 .. Len(old) + Len(s) :
           (old \o s)[i] = IF i <= Len(old) THEN old[i] ELSE s[i - Len(old)]
  BY <1>1, <1>4, ConcatProperties
<1>7. ASSUME NEW i \in 1 .. Len(new)
      PROVE  new[i] = (old \o s)[i]
  <2>1. PICK j \in 1 .. Len(d) : j = r + i
    BY <1>1, <1>2, <1>5
  <2>2. i \in 1 .. v - r /\ i \in 1 .. Len(old) + Len(s) /\ j <= v
    BY <1>1, <1>2, <1>4, <1>5, <2>1
  <2>3. new[i] = e[j]
    BY <1>5, <2>1, <2>2
  <2>4. e[j] = IF w < j THEN s[j - w] ELSE d[j]
    BY <1>3, <2>2
  <2>5. (old \o s)[i] = IF i <= Len(old) THEN old[i] ELSE s[i - Len(old)]
    BY <1>6, <2>2
  <2>6. CASE i <= w - r
    <3>1. i \in 1 .. w - r /\ ~(w < j) /\ i <= Len(old)
      BY <1>1, <1>4, <2>1, <2>6
    <3>2. old[i] = d[j]
      BY <1>4, <2>1, <3>1
    <3>3. QED
      BY <2>3, <2>4, <2>5, <3>1, <3>2
  <2>7. CASE ~(i <= w - r)
    <3>1. w < j /\ ~(i <= Len(old)) /\ j - w = i - Len(old)
      BY <1>1, <1>4, <2>1, <2>7
    <3>2. QED
      BY <2>3, <2>4, <2>5, <3>1
  <2>8. QED
    BY <2>6, <2>7
<1>8. Len(new) = Len(old \o s)
  BY <1>1, <1>2, <1>4, <1>5, <1>6
<1>9. new = old \o s
  BY <1>5, <1>6, <1>7, <1>8, SeqEqual
<1>10. QED
  BY <1>2, <1>9 DEF new, old, e

\* Copying the readable part to the front keeps it.
LEMMA CopyFront ==
  ASSUME NEW d, NEW r, NEW w, IsPart(d, r, w), NEW k, IsPart(d, k, r)
  PROVE  Slice(Copy(d, k, Slice(d, r, w)), k, k + (w - r))
           = Slice(d, r, w)
<1> DEFINE s == Slice(d, r, w)
           e == Copy(d, k, s)
           new == Slice(e, k, k + (w - r))
<1>0. /\ d \in Seq(Byte) /\ Len(d) \in Nat /\ r \in Nat /\ w \in Nat /\ k \in Nat
      /\ k <= r /\ r <= w /\ w <= Len(d)
  BY LenProperties DEF IsPart
<1>1. /\ s \in Seq(Byte) /\ Len(s) = w - r
      /\ \A i \in 1 .. w - r : s[i] = d[r + i]
  BY Part
<1> HIDE DEF s
<1>2. /\ e \in Seq(Byte) /\ Len(e) = Len(d)
      /\ \A i \in 1 .. Len(d) :
           e[i] = IF k < i /\ i <= k + Len(s) THEN s[i - k] ELSE d[i]
  BY <1>0, <1>1, CopyBytes
<1> HIDE DEF e
<1>3. k + (w - r) \in Nat /\ k <= k + (w - r) /\ k + (w - r) <= Len(e)
  BY <1>0, <1>2
<1>4. /\ new \in Seq(Byte) /\ Len(new) = w - r
      /\ \A i \in 1 .. w - r : new[i] = e[k + i]
  <2>1. IsPart(e, k, k + (w - r))
    BY <1>0, <1>2, <1>3 DEF IsPart
  <2>2. (k + (w - r)) - k = w - r
    BY <1>0
  <2>3. /\ new \in Seq(Byte) /\ Len(new) = (k + (w - r)) - k
        /\ \A i \in 1 .. (k + (w - r)) - k : new[i] = e[k + i]
    BY <2>1, Part
  <2> HIDE DEF new
  <2>4. QED
    BY <2>2, <2>3
<1> HIDE DEF new
<1>5. ASSUME NEW i \in 1 .. w - r
      PROVE  new[i] = s[i]
  <2>1. PICK j \in 1 .. Len(d) : j = k + i
    BY <1>0, <1>1
  <2>2. k < j /\ j <= k + Len(s) /\ j - k = i
    BY <1>0, <1>1, <2>1
  <2>3. new[i] = e[j]
    BY <1>4, <2>1
  <2>4. e[j] = s[j - k]
    BY <1>2, <2>2
  <2>5. QED
    BY <2>2, <2>3, <2>4
<1>6. new = s
  BY <1>1, <1>4, <1>5, SeqEqual
<1>7. QED
  BY <1>6 DEF new, e, s

\* Growing the vector keeps the readable part.
LEMMA ResizeKeeps ==
  ASSUME NEW d, NEW r, NEW w, IsPart(d, r, w), NEW n, IsSize(d, n)
  PROVE  Slice(Resize(d, n), r, w) = Slice(d, r, w)
<1> DEFINE e == Resize(d, n)
           old == Slice(d, r, w)
           new == Slice(e, r, w)
<1>0. /\ d \in Seq(Byte) /\ Len(d) \in Nat /\ r \in Nat /\ w \in Nat
      /\ r <= w /\ w <= Len(d) /\ n \in Nat /\ Len(d) <= n
  BY LenProperties DEF IsPart, IsSize
<1>1. e \in Seq(Byte) /\ Len(e) = n /\ \A i \in 1 .. Len(d) : e[i] = d[i]
  BY <1>0, ResizeBytes
<1> HIDE DEF e
<1>2. /\ old \in Seq(Byte) /\ Len(old) = w - r
      /\ \A i \in 1 .. w - r : old[i] = d[r + i]
  BY Part
<1>3. /\ new \in Seq(Byte) /\ Len(new) = w - r
      /\ \A i \in 1 .. w - r : new[i] = e[r + i]
  <2>1. IsPart(e, r, w)
    BY <1>0, <1>1 DEF IsPart
  <2>2. QED
    BY <2>1, Part
<1> HIDE DEF old, new
<1>4. ASSUME NEW i \in 1 .. w - r
      PROVE  new[i] = old[i]
  <2>1. r + i \in 1 .. Len(d)
    BY <1>0
  <2>2. QED
    BY <1>1, <1>2, <1>3, <2>1
<1>5. new = old
  BY <1>2, <1>3, <1>4, SeqEqual
<1>6. QED
  BY <1>5 DEF new, old, e

-----------------------------------------------------------------------------
(* The member functions.                                                    *)

USE SizeAssumption

\* A well laid out buffer, as numbers.
LEMMA Numbers ==
  ASSUME NEW b \in BufferType, LaidOut(b)
  PROVE  /\ b.data \in Seq(Byte) /\ Len(b.data) \in Nat
         /\ b.reader \in Nat /\ b.writer \in Nat
         /\ kCheapPrepend <= b.reader /\ b.reader <= b.writer
         /\ b.writer <= Len(b.data)
         /\ b = [data |-> b.data, reader |-> b.reader, writer |-> b.writer]
  BY LenProperties DEF BufferType, LaidOut

\* Writing s where there is room appends it to the readable bytes.
LEMMA FillCorrect ==
  ASSUME NEW b \in BufferType, LaidOut(b), NEW s \in Seq(Byte),
         Len(s) <= writableBytes(b)
  PROVE  /\ Fill(b, s) \in BufferType
         /\ LaidOut(Fill(b, s))
         /\ Readable(Fill(b, s)) = Readable(b) \o s
         /\ Len(Fill(b, s).data) = Len(b.data)
         /\ readableBytes(Fill(b, s)) = readableBytes(b) + Len(s)
<1> DEFINE d == b.data
           r == b.reader
           w == b.writer
           n == Len(s)
<1>1. /\ d \in Seq(Byte) /\ Len(d) \in Nat /\ r \in Nat /\ w \in Nat /\ n \in Nat
      /\ kCheapPrepend <= r /\ r <= w /\ w + n <= Len(d)
  BY Numbers, LenProperties DEF writableBytes
<1>2. Fill(b, s) = [data |-> Copy(d, w, s), reader |-> r, writer |-> w + n]
  BY DEF Fill, BufferType
<1>3. Copy(d, w, s) \in Seq(Byte) /\ Len(Copy(d, w, s)) = Len(d)
  BY <1>1, CopyBytes
<1> HIDE DEF d, r, w, n
<1>4. Slice(Copy(d, w, s), r, w + n) = Slice(d, r, w) \o s
  <2>1. IsPart(d, r, w) /\ Fits(d, w, s)
    BY <1>1 DEF IsPart, Fits, n
  <2>2. QED
    BY <2>1, CopyBehind DEF n
<1>5. Fill(b, s) \in BufferType /\ LaidOut(Fill(b, s))
  BY <1>1, <1>2, <1>3 DEF BufferType, LaidOut
<1>6. Readable(Fill(b, s)) = Readable(b) \o s
  <2>1. /\ Fill(b, s).data = Copy(d, w, s)
        /\ Fill(b, s).reader = r
        /\ Fill(b, s).writer = w + n
    BY <1>2
  <2>2. Readable(Fill(b, s)) = Slice(Copy(d, w, s), r, w + n)
    BY <2>1 DEF Readable
  <2>3. Readable(b) = Slice(d, r, w)
    BY Zenon DEF Readable, d, r, w
  <2>4. QED
    BY <1>4, <2>2, <2>3
<1>7. /\ Len(Fill(b, s).data) = Len(b.data)
      /\ readableBytes(Fill(b, s)) = readableBytes(b) + Len(s)
  <2>1. (w + n) - r = (w - r) + n
    BY <1>1
  <2>2. QED
    BY <1>2, <1>3, <2>1 DEF readableBytes, d, r, w, n
<1>8. QED
  BY <1>5, <1>6, <1>7

\* makeSpace makes room for len bytes without touching the readable ones, and
\* grows the vector only if they would not fit behind the reserve.
LEMMA MakeSpaceCorrect ==
  ASSUME NEW b \in BufferType, LaidOut(b), NEW len \in Nat, writableBytes(b) < len
  PROVE  /\ makeSpace(b, len) \in BufferType
         /\ LaidOut(makeSpace(b, len))
         /\ Readable(makeSpace(b, len)) = Readable(b)
         /\ len <= writableBytes(makeSpace(b, len))
         /\ readableBytes(makeSpace(b, len)) = readableBytes(b)
         /\ Len(makeSpace(b, len).data) > Len(b.data)
              => readableBytes(b) + len > Len(b.data) - kCheapPrepend
<1> DEFINE d == b.data
           r == b.reader
           w == b.writer
           k == kCheapPrepend
           m == makeSpace(b, len)
<1>1. /\ d \in Seq(Byte) /\ Len(d) \in Nat /\ r \in Nat /\ w \in Nat /\ k \in Nat
      /\ k <= r /\ r <= w /\ w <= Len(d) /\ Len(d) - w < len
  BY Numbers DEF writableBytes
<1>2. CASE (Len(d) - w) + r < len + k
  <2>1. m = [data |-> Resize(d, w + len), reader |-> r, writer |-> w]
    BY <1>2, Numbers DEF makeSpace, writableBytes, prependableBytes
  <2> HIDE DEF d, r, w, k, m
  <2>2. w + len \in Nat /\ Len(d) <= w + len
    BY <1>1
  <2>3. Resize(d, w + len) \in Seq(Byte) /\ Len(Resize(d, w + len)) = w + len
    BY <1>1, <2>2, ResizeBytes
  <2>4. Slice(Resize(d, w + len), r, w) = Slice(d, r, w)
    <3>1. IsPart(d, r, w) /\ IsSize(d, w + len)
      BY <1>1, <2>2 DEF IsPart, IsSize
    <3>2. QED
      BY <3>1, ResizeKeeps
  <2>5. (w - r) + len > Len(d) - k /\ len <= (w + len) - w
    BY <1>1, <1>2
  <2>6. m \in BufferType /\ LaidOut(m)
    BY <1>1, <2>1, <2>2, <2>3 DEF BufferType, LaidOut, k
  <2>7. Readable(m) = Readable(b) /\ readableBytes(m) = readableBytes(b)
    BY <2>1, <2>4 DEF Readable, readableBytes, d, r, w
  <2>8. len <= writableBytes(m)
    BY <2>1, <2>3, <2>5 DEF writableBytes
  <2>9. readableBytes(b) + len > Len(b.data) - kCheapPrepend
    BY <2>5 DEF readableBytes, d, r, w, k
  <2>10. QED
    BY <2>6, <2>7, <2>8, <2>9 DEF m
<1>3. CASE ~((Len(d) - w) + r < len + k)
  <2> DEFINE e == Copy(d, k, Slice(d, r, w))
  <2>1. m = [data |-> e, reader |-> k, writer |-> k + (w - r)]
    BY <1>3, Numbers DEF makeSpace, writableBytes, prependableBytes,
                         readableBytes, Readable
  <2> HIDE DEF d, r, w, k, m, e
  <2>2. Slice(d, r, w) \in Seq(Byte)
    <3>1. IsPart(d, r, w)
      BY <1>1 DEF IsPart
    <3>2. QED
      BY <3>1, Part
  <2>3. e \in Seq(Byte) /\ Len(e) = Len(d)
    BY <1>1, <2>2, CopyBytes DEF e
  <2>4. Slice(e, k, k + (w - r)) = Slice(d, r, w)
    <3>1. IsPart(d, r, w) /\ IsPart(d, k, r)
      BY <1>1 DEF IsPart
    <3>2. QED
      BY <3>1, CopyFront DEF e
  <2>5. /\ k + (w - r) \in Nat /\ k <= k + (w - r) /\ k + (w - r) <= Len(d)
        /\ (k + (w - r)) - k = w - r
        /\ len <= Len(d) - (k + (w - r))
    BY <1>1, <1>3
  <2>6. m \in BufferType /\ LaidOut(m)
    BY <1>1, <2>1, <2>3, <2>5 DEF BufferType, LaidOut, k
  <2>7. Readable(m) = Readable(b) /\ readableBytes(m) = readableBytes(b)
    BY <2>1, <2>4, <2>5 DEF Readable, readableBytes, d, r, w
  <2>8. len <= writableBytes(m) /\ ~(Len(m.data) > Len(b.data))
    BY <1>1, <2>1, <2>3, <2>5 DEF writableBytes, d
  <2>9. QED
    BY <2>6, <2>7, <2>8 DEF m
<1>4. QED
  BY <1>2, <1>3

\* append, whatever room there is.
LEMMA AppendCorrect ==
  ASSUME NEW b \in BufferType, LaidOut(b), NEW s \in Seq(Byte)
  PROVE  /\ append(b, s) \in BufferType
         /\ LaidOut(append(b, s))
         /\ Readable(append(b, s)) = Readable(b) \o s
         /\ readableBytes(append(b, s)) = readableBytes(b) + Len(s)
         /\ Len(append(b, s).data) > Len(b.data)
              => readableBytes(b) + Len(s) > Len(b.data) - kCheapPrepend
<1> DEFINE len == Len(s)
           m == ensureWritableBytes(b, len)
<1>1. len \in Nat
  BY LenProperties
<1>2. writableBytes(b) \in Nat /\ Len(b.data) \in Nat
  BY Numbers DEF writableBytes
<1>3. /\ m \in BufferType /\ LaidOut(m)
      /\ Readable(m) = Readable(b) /\ readableBytes(m) = readableBytes(b)
      /\ len <= writableBytes(m)
      /\ Len(m.data) > Len(b.data)
           => readableBytes(b) + len > Len(b.data) - kCheapPrepend
  <2>1. CASE writableBytes(b) < len
    <3>1. m = makeSpace(b, len)
      BY <2>1 DEF ensureWritableBytes
    <3> HIDE DEF m, len
    <3>2. QED
      BY <1>1, <2>1, <3>1, MakeSpaceCorrect
  <2>2. CASE ~(writableBytes(b) < len)
    <3>1. m = b
      BY <2>2 DEF ensureWritableBytes
    <3> HIDE DEF m, len
    <3>2. QED
      BY <1>1, <1>2, <2>2, <3>1
  <2>3. QED
    BY <2>1, <2>2
<1>4. append(b, s) = Fill(m, s)
  BY DEF append
<1> HIDE DEF m
<1>5. QED
  BY <1>3, <1>4, FillCorrect

\* readFd puts everything readv returned behind the readable bytes, in order.
LEMMA ReadFdCorrect ==
  ASSUME NEW b \in BufferType, LaidOut(b), NEW s \in Seq(Byte)
  PROVE  /\ readFd(b, s) \in BufferType
         /\ LaidOut(readFd(b, s))
         /\ Readable(readFd(b, s)) = Readable(b) \o s
         /\ readableBytes(readFd(b, s)) = readableBytes(b) + Len(s)
         /\ Len(readFd(b, s).data) > Len(b.data)
              => readableBytes(b) + Len(s) > Len(b.data) - kCheapPrepend
<1> DEFINE room == writableBytes(b)
<1>1. room \in Nat /\ Len(b.data) \in Nat /\ Len(s) \in Nat /\ readableBytes(b) \in Nat
  BY Numbers, LenProperties DEF writableBytes, readableBytes
<1>2. CASE Len(s) <= room
  <2>1. readFd(b, s) = Fill(b, s)
    BY <1>2 DEF readFd
  <2>2. QED
    BY <1>1, <1>2, <2>1, FillCorrect
<1>3. CASE ~(Len(s) <= room)
  <2> DEFINE s1 == SubSeq(s, 1, room)
             s2 == SubSeq(s, room + 1, Len(s))
             first == Fill(b, s1)
  <2>1. readFd(b, s) = append(first, s2)
    BY <1>3 DEF readFd
  <2>2. /\ s1 \in Seq(Byte) /\ Len(s1) = room
        /\ s2 \in Seq(Byte) /\ Len(s2) = Len(s) - room
    <3>1. \A i \in 1 .. Len(s) : s[i] \in Byte
      BY ElementOfSeq
    <3>2. s1 \in Seq(Byte) /\ Len(s1) = room
      BY <1>1, <1>3, <3>1, SubSeqProperties
    <3>3. s2 \in Seq(Byte) /\ Len(s2) = Len(s) - room
      BY <1>1, <1>3, <3>1, SubSeqProperties
    <3>4. QED
      BY <3>2, <3>3
  <2>3. s1 \o s2 = s
    <3>1. SubSeq(s, 1, room) \o SubSeq(s, room + 1, Len(s)) = SubSeq(s, 1, Len(s))
      BY <1>1, <1>3, ConcatAdjacentSubSeq
    <3>2. SubSeq(s, 1, Len(s)) = s
      BY SubSeqFull
    <3>3. QED
      BY <3>1, <3>2
  <2> HIDE DEF s1, s2
  <2>4. /\ first \in BufferType /\ LaidOut(first)
        /\ Readable(first) = Readable(b) \o s1
        /\ Len(first.data) = Len(b.data)
        /\ readableBytes(first) = readableBytes(b) + room
    <3>1. Len(s1) <= writableBytes(b)
      BY <1>1, <2>2
    <3>2. QED
      BY <2>2, <3>1, FillCorrect
  <2> HIDE DEF first
  <2>5. /\ append(first, s2) \in BufferType
        /\ LaidOut(append(first, s2))
        /\ Readable(append(first, s2)) = Readable(first) \o s2
        /\ readableBytes(append(first, s2)) = readableBytes(first) + Len(s2)
        /\ Len(append(first, s2).data) > Len(first.data)
             => readableBytes(first) + Len(s2) > Len(first.data) - kCheapPrepend
    BY <2>2, <2>4, AppendCorrect
  <2>6. Readable(b) \in Seq(Byte)
    <3>1. IsPart(b.data, b.reader, b.writer)
      BY Numbers DEF IsPart
    <3>2. QED
      BY <3>1, Part DEF Readable
  <2>7. (Readable(b) \o s1) \o s2 = Readable(b) \o s
    <3>1. (Readable(b) \o s1) \o s2 = Readable(b) \o (s1 \o s2)
      BY <2>2, <2>6, Regroup
    <3>2. QED
      BY <2>3, <3>1
  <2>8. readableBytes(first) + Len(s2) = readableBytes(b) + Len(s)
    BY <1>1, <2>2, <2>4
  <2>9. QED
    BY <2>1, <2>4, <2>5, <2>7, <2>8
<1>4. QED
  BY <1>2, <1>3

\* retrieve takes bytes from the front, all of them when fewer are there.
LEMMA RetrieveCorrect ==
  ASSUME NEW b \in BufferType, LaidOut(b), NEW len \in Nat
  PROVE  /\ retrieve(b, len) \in BufferType
         /\ LaidOut(retrieve(b, len))
         /\ retrieve(b, len).data = b.data
         /\ len < readableBytes(b) =>
              Readable(retrieve(b, len)) = Slice(b.data, b.reader + len, b.writer)
         /\ ~(len < readableBytes(b)) => Readable(retrieve(b, len)) = <<>>
<1>1. CASE len < readableBytes(b)
  <2>1. retrieve(b, len) =
          [data |-> b.data, reader |-> b.reader + len, writer |-> b.writer]
    BY <1>1 DEF retrieve
  <2>2. retrieve(b, len) \in BufferType /\ LaidOut(retrieve(b, len))
    BY <1>1, <2>1, Numbers DEF BufferType, LaidOut, readableBytes
  <2>3. QED
    BY <1>1, <2>1, <2>2 DEF Readable
<1>2. CASE ~(len < readableBytes(b))
  <2>1. retrieve(b, len) =
          [data |-> b.data, reader |-> kCheapPrepend, writer |-> kCheapPrepend]
    BY <1>2 DEF retrieve, retrieveAll
  <2>2. retrieve(b, len) \in BufferType /\ LaidOut(retrieve(b, len))
    BY <2>1, Numbers DEF BufferType, LaidOut
  <2>3. SubSeq(b.data, kCheapPrepend + 1, kCheapPrepend) = <<>>
    BY SubSeqEmpty
  <2>4. Readable(retrieve(b, len)) = <<>>
    BY <2>1, <2>3 DEF Readable, Slice
  <2>5. QED
    BY <1>2, <2>1, <2>2, <2>4
<1>3. QED
  BY <1>1, <1>2

-----------------------------------------------------------------------------
(* The specification.                                                       *)

\* What is left of a history is a part of it.
LEMMA RestIsSlice ==
  ASSUME NEW h, NEW c
  PROVE  Rest(h, c) = Slice(h, c, Len(h))
  BY DEF Rest, Slice

\* What is unread of a history that got longer by s.
LEMMA SliceConcat ==
  ASSUME NEW h, NEW c, IsPart(h, c, Len(h)), NEW s \in Seq(Byte)
  PROVE  Slice(h \o s, c, Len(h \o s)) = Slice(h, c, Len(h)) \o s
<1> DEFINE hs == h \o s
           old == Slice(h, c, Len(h))
           new == Slice(hs, c, Len(hs))
<1>1. /\ h \in Seq(Byte) /\ Len(h) \in Nat /\ Len(s) \in Nat
      /\ c \in Nat /\ c <= Len(h)
  BY LenProperties DEF IsPart
<1>2. /\ hs \in Seq(Byte) /\ Len(hs) = Len(h) + Len(s)
      /\ \A i \in 1 .. Len(h) + Len(s) :
           hs[i] = IF i <= Len(h) THEN h[i] ELSE s[i - Len(h)]
  BY <1>1, ConcatProperties
<1> HIDE DEF hs
<1>3. /\ old \in Seq(Byte) /\ Len(old) = Len(h) - c
      /\ \A i \in 1 .. Len(h) - c : old[i] = h[c + i]
  BY Part
<1>4. /\ new \in Seq(Byte) /\ Len(new) = Len(hs) - c
      /\ \A i \in 1 .. Len(hs) - c : new[i] = hs[c + i]
  <2>1. IsPart(hs, c, Len(hs))
    BY <1>1, <1>2 DEF IsPart
  <2>2. QED
    BY <2>1, Part
<1> HIDE DEF old, new
<1>5. /\ old \o s \in Seq(Byte) /\ Len(old \o s) = Len(old) + Len(s)
      /\ \A i \in 1 .. Len(old) + Len(s) :
           (old \o s)[i] = IF i <= Len(old) THEN old[i] ELSE s[i - Len(old)]
  BY <1>3, ConcatProperties
<1>6. ASSUME NEW i \in 1 .. Len(new)
      PROVE  new[i] = (old \o s)[i]
  <2>1. PICK j \in 1 .. Len(h) + Len(s) : j = c + i
    BY <1>1, <1>2, <1>4
  <2>2. i \in 1 .. Len(hs) - c /\ i \in 1 .. Len(old) + Len(s)
    BY <1>1, <1>2, <1>3, <1>4
  <2>3. new[i] = hs[j]
    BY <1>4, <2>1, <2>2
  <2>4. hs[j] = IF j <= Len(h) THEN h[j] ELSE s[j - Len(h)]
    BY <1>2
  <2>5. (old \o s)[i] = IF i <= Len(old) THEN old[i] ELSE s[i - Len(old)]
    BY <1>5, <2>2
  <2>6. CASE i <= Len(h) - c
    <3>1. i \in 1 .. Len(h) - c /\ j <= Len(h) /\ i <= Len(old)
      BY <1>1, <1>3, <2>1, <2>6
    <3>2. old[i] = h[j]
      BY <1>3, <2>1, <3>1
    <3>3. QED
      BY <2>3, <2>4, <2>5, <3>1, <3>2
  <2>7. CASE ~(i <= Len(h) - c)
    <3>1. ~(j <= Len(h)) /\ ~(i <= Len(old)) /\ j - Len(h) = i - Len(old)
      BY <1>1, <1>3, <2>1, <2>7
    <3>2. QED
      BY <2>3, <2>4, <2>5, <3>1
  <2>8. QED
    BY <2>6, <2>7
<1>7. Len(new) = Len(old \o s)
  BY <1>1, <1>2, <1>3, <1>4, <1>5
<1>8. new = old \o s
  BY <1>4, <1>5, <1>6, <1>7, SeqEqual
<1>9. QED
  BY <1>8 DEF new, old, hs

\* Equal parts have equal lengths.
LEMMA SliceLength ==
  ASSUME NEW d, NEW r, NEW w, IsPart(d, r, w),
         NEW h, NEW c, NEW n, IsPart(h, c, n),
         Slice(d, r, w) = Slice(h, c, n)
  PROVE  w - r = n - c
<1>1. Len(Slice(d, r, w)) = w - r
  BY Part
<1>2. Len(Slice(h, c, n)) = n - c
  BY Part
<1>3. QED
  BY <1>1, <1>2

\* Equal parts stay equal when both lose their first len bytes.
LEMMA SliceShift ==
  ASSUME NEW d, NEW r, NEW w, IsPart(d, r, w),
         NEW h, NEW c, NEW n, IsPart(h, c, n),
         Slice(d, r, w) = Slice(h, c, n),
         NEW len \in Nat, len <= w - r
  PROVE  Slice(d, r + len, w) = Slice(h, c + len, n)
<1> DEFINE sd == Slice(d, r, w)
           sh == Slice(h, c, n)
           r2 == r + len
           c2 == c + len
           td == Slice(d, r2, w)
           th == Slice(h, c2, n)
<1>1. /\ d \in Seq(Byte) /\ Len(d) \in Nat /\ h \in Seq(Byte) /\ Len(h) \in Nat
      /\ r \in Nat /\ w \in Nat /\ r <= w /\ w <= Len(d)
      /\ c \in Nat /\ n \in Nat /\ c <= n /\ n <= Len(h)
  BY LenProperties DEF IsPart
<1>2. Len(sd) = w - r /\ \A i \in 1 .. w - r : sd[i] = d[r + i]
  BY Part
<1>3. Len(sh) = n - c /\ \A i \in 1 .. n - c : sh[i] = h[c + i]
  BY Part
<1>4. sd = sh
  OBVIOUS
<1> HIDE DEF sd, sh
<1>5. w - r = n - c
  BY <1>2, <1>3, <1>4
<1>6. /\ r2 \in Nat /\ c2 \in Nat /\ r2 = r + len /\ c2 = c + len
      /\ IsPart(d, r2, w) /\ IsPart(h, c2, n) /\ w - r2 = n - c2
  BY <1>1, <1>5 DEF IsPart
<1> HIDE DEF r2, c2
<1>7. /\ td \in Seq(Byte) /\ Len(td) = w - r2
      /\ \A i \in 1 .. w - r2 : td[i] = d[r2 + i]
  BY <1>6, Part
<1>8. /\ th \in Seq(Byte) /\ Len(th) = n - c2
      /\ \A i \in 1 .. n - c2 : th[i] = h[c2 + i]
  BY <1>6, Part
<1> HIDE DEF td, th
<1>9. ASSUME NEW i \in 1 .. Len(td)
      PROVE  td[i] = th[i]
  <2>1. /\ i \in 1 .. w - r2 /\ i \in 1 .. n - c2
        /\ len + i \in 1 .. w - r /\ len + i \in 1 .. n - c
        /\ r + (len + i) = r2 + i /\ c + (len + i) = c2 + i
    BY <1>1, <1>5, <1>6, <1>7
  <2>2. sd[len + i] = d[r + (len + i)] /\ sh[len + i] = h[c + (len + i)]
    BY <1>2, <1>3, <2>1
  <2>3. td[i] = d[r2 + i] /\ th[i] = h[c2 + i]
    BY <1>7, <1>8, <2>1
  <2>4. QED
    BY <1>4, <2>1, <2>2, <2>3
<1>10. Len(td) = Len(th)
  BY <1>6, <1>7, <1>8
<1>11. td = th
  BY <1>7, <1>8, <1>9, <1>10, SeqEqual
<1>12. QED
  BY <1>11 DEF td, th, r2, c2

\* What the three properties say together.
BufferInvariant == TypeOK /\ Layout /\ Contents

\* Appending and reading from the descriptor keep the queue.
LEMMA PutStep ==
  ASSUME BufferInvariant, NEW s \in Chunks, AppendData(s) \/ ReadFd(s)
  PROVE  BufferInvariant'
<1>1. s \in Seq(Byte)
  BY ChunkAssumption
<1>2. /\ buf' \in BufferType /\ LaidOut(buf') /\ Readable(buf') = Readable(buf) \o s
      /\ received' = received \o s /\ consumed' = consumed
  BY <1>1, AppendCorrect, ReadFdCorrect
  DEF BufferInvariant, TypeOK, Layout, AppendData, ReadFd
<1>3. /\ received \in Seq(Byte) /\ consumed \in Nat /\ consumed <= Len(received)
      /\ Readable(buf) = Rest(received, consumed)
  BY DEF BufferInvariant, TypeOK, Contents
<1>4. received \o s \in Seq(Byte) /\ Len(received \o s) = Len(received) + Len(s)
  BY <1>1, <1>3, ConcatProperties
<1>5. consumed <= Len(received \o s)
  BY <1>1, <1>3, <1>4, LenProperties
<1>6. Readable(buf) \o s = Rest(received \o s, consumed)
  <2>1. IsPart(received, consumed, Len(received))
    BY <1>3, LenProperties DEF IsPart
  <2>2. Rest(received \o s, consumed) = Slice(received \o s, consumed, Len(received \o s))
    BY RestIsSlice
  <2>3. Rest(received, consumed) = Slice(received, consumed, Len(received))
    BY RestIsSlice
  <2>4. Slice(received \o s, consumed, Len(received \o s))
          = Slice(received, consumed, Len(received)) \o s
    BY <1>1, <2>1, SliceConcat
  <2>5. QED
    BY <1>3, <2>2, <2>3, <2>4
<1>7. TypeOK' /\ Layout'
  BY <1>2, <1>3, <1>4 DEF TypeOK, Layout, LaidOut
<1>8. Contents'
  BY <1>2, <1>5, <1>6 DEF Contents, Readable
<1>9. QED
  BY <1>7, <1>8 DEF BufferInvariant

\* Retrieving keeps the queue.
LEMMA RetrieveStep ==
  ASSUME BufferInvariant, NEW len \in Nat, Retrieve(len)
  PROVE  BufferInvariant'
<1>0. /\ buf \in BufferType /\ LaidOut(buf)
      /\ received \in Seq(Byte) /\ consumed \in Nat /\ consumed <= Len(received)
      /\ Readable(buf) = Rest(received, consumed)
      /\ buf' = retrieve(buf, len) /\ received' = received
  BY DEF BufferInvariant, TypeOK, Layout, Contents, Retrieve
<1>1. /\ buf.data \in Seq(Byte) /\ buf.reader \in Nat /\ buf.writer \in Nat
      /\ buf.reader <= buf.writer /\ buf.writer <= Len(buf.data)
      /\ Len(received) \in Nat
  BY <1>0, Numbers, LenProperties
<1>2. /\ buf' \in BufferType /\ LaidOut(buf')
      /\ len < readableBytes(buf) =>
           Readable(buf') = Slice(buf.data, buf.reader + len, buf.writer)
      /\ ~(len < readableBytes(buf)) => Readable(buf') = <<>>
  BY <1>0, RetrieveCorrect
<1>3. /\ IsPart(buf.data, buf.reader, buf.writer)
      /\ IsPart(received, consumed, Len(received))
      /\ Slice(buf.data, buf.reader, buf.writer) = Slice(received, consumed, Len(received))
  <2>1. IsPart(buf.data, buf.reader, buf.writer)
    BY <1>1 DEF IsPart
  <2>2. IsPart(received, consumed, Len(received))
    BY <1>0, <1>1 DEF IsPart
  <2>3. Rest(received, consumed) = Slice(received, consumed, Len(received))
    BY RestIsSlice
  <2>4. QED
    BY <1>0, <2>1, <2>2, <2>3 DEF Readable
<1>4. /\ consumed' \in Nat /\ consumed' <= Len(received)
      /\ Readable(buf') = Rest(received, consumed')
  <2>1. CASE len < readableBytes(buf)
    <3>1. consumed' = consumed + len /\ len <= buf.writer - buf.reader
      BY <1>1, <2>1 DEF Retrieve, readableBytes
    <3>2. buf.writer - buf.reader = Len(received) - consumed
      BY <1>3, SliceLength
    <3>3. Slice(buf.data, buf.reader + len, buf.writer)
            = Slice(received, consumed + len, Len(received))
      BY <1>3, <3>1, SliceShift
    <3>4. Rest(received, consumed + len) = Slice(received, consumed + len, Len(received))
      BY RestIsSlice
    <3>5. Readable(buf') = Rest(received, consumed')
      BY <1>2, <2>1, <3>1, <3>3, <3>4
    <3>6. consumed' \in Nat /\ consumed' <= Len(received)
      BY <1>0, <1>1, <3>1, <3>2
    <3>7. QED
      BY <3>5, <3>6
  <2>2. CASE ~(len < readableBytes(buf))
    <3>1. consumed' = consumed + (buf.writer - buf.reader)
      BY <1>1, <2>2 DEF Retrieve, readableBytes
    <3>2. buf.writer - buf.reader = Len(received) - consumed
      BY <1>3, SliceLength
    <3>3. consumed' = Len(received)
      BY <1>0, <1>1, <3>1, <3>2
    <3>4. SubSeq(received, Len(received) + 1, Len(received)) = <<>>
      BY <1>1, SubSeqEmpty
    <3>5. QED
      BY <1>1, <1>2, <2>2, <3>3, <3>4 DEF Rest
  <2>3. QED
    BY <2>1, <2>2
<1>5. TypeOK' /\ Layout'
  BY <1>0, <1>2, <1>4 DEF TypeOK, Layout, LaidOut
<1>6. Contents'
  BY <1>0, <1>4 DEF Contents, Readable
<1>7. QED
  BY <1>5, <1>6 DEF BufferInvariant

\* The buffer is a first-in first-out queue, and its indices stay in order.
THEOREM BufferIsQueue == Spec => [](TypeOK /\ Layout /\ Contents)
<1>1. Init => BufferInvariant
  <2> SUFFICES ASSUME Init PROVE BufferInvariant
    OBVIOUS
  <2>1. [i \in 1 .. kCheapPrepend + kInitialSize |-> Zero] \in Seq(Byte)
    BY ZeroAssumption
  <2>2. Len([i \in 1 .. kCheapPrepend + kInitialSize |-> Zero])
          = kCheapPrepend + kInitialSize
    OBVIOUS
  <2>3. TypeOK /\ Layout
    BY <2>1, <2>2 DEF Init, TypeOK, BufferType, Layout, LaidOut
  <2>4. SubSeq(buf.data, kCheapPrepend + 1, kCheapPrepend) = <<>>
    BY SubSeqEmpty
  <2>5. SubSeq(received, 0 + 1, 0) = <<>>
    BY SubSeqEmpty
  <2>6. Contents
    BY <2>4, <2>5 DEF Init, Contents, Readable, Slice, Rest
  <2>7. QED
    BY <2>3, <2>6 DEF BufferInvariant
<1>2. BufferInvariant /\ [Next]_vars => BufferInvariant'
  <2> SUFFICES ASSUME BufferInvariant, [Next]_vars PROVE BufferInvariant'
    OBVIOUS
  <2>1. CASE UNCHANGED vars
    BY <2>1 DEF vars, BufferInvariant, TypeOK, Layout, LaidOut, Contents, Readable
  <2>2. CASE \E s \in Chunks : AppendData(s) \/ ReadFd(s)
    BY <2>2, PutStep
  <2>3. CASE \E len \in 0 .. MaxBytes : Retrieve(len)
    BY <2>3, RetrieveStep
  <2>4. QED
    BY <2>1, <2>2, <2>3 DEF Next
<1>3. BufferInvariant <=> TypeOK /\ Layout /\ Contents
  BY DEF BufferInvariant
<1>4. QED
  BY <1>1, <1>2, <1>3, PTL DEF Spec

\* makeSpace grows the vector only when the bytes would not fit.
THEOREM BufferGrowth == Spec => GrowsOnlyWhenNeeded
<1>1. TypeOK /\ Layout /\ [Next]_vars
        => [Len(buf'.data) > Len(buf.data)
              => readableBytes(buf') > Len(buf.data) - kCheapPrepend]_vars
  <2> SUFFICES ASSUME TypeOK, Layout, Next, Len(buf'.data) > Len(buf.data)
               PROVE  readableBytes(buf') > Len(buf.data) - kCheapPrepend
    OBVIOUS
  <2>1. buf \in BufferType /\ LaidOut(buf) /\ Len(buf.data) \in Nat
    BY Numbers DEF TypeOK, Layout
  <2>2. ASSUME NEW s \in Chunks, AppendData(s) \/ ReadFd(s)
        PROVE  readableBytes(buf') > Len(buf.data) - kCheapPrepend
    <3>1. s \in Seq(Byte)
      BY ChunkAssumption
    <3>2. CASE AppendData(s)
      BY <2>1, <3>1, <3>2, AppendCorrect DEF AppendData
    <3>3. CASE ReadFd(s)
      BY <2>1, <3>1, <3>3, ReadFdCorrect DEF ReadFd
    <3>4. QED
      BY <2>2, <3>2, <3>3
  <2>3. ASSUME NEW len \in 0 .. MaxBytes, Retrieve(len)
        PROVE  FALSE
    <3>1. len \in Nat /\ buf' = retrieve(buf, len)
      BY <2>3 DEF Retrieve
    <3>2. buf'.data = buf.data
      BY <2>1, <3>1, RetrieveCorrect
    <3>3. QED
      BY <2>1, <3>2
  <2>4. QED
    BY <2>2, <2>3 DEF Next
<1>2. QED
  BY <1>1, BufferIsQueue, PTL DEF Spec, GrowsOnlyWhenNeeded

\* The reserve, readerIndex_, writerIndex_ and the size stay in this order, so
\* no difference of indices wraps round.
THEOREM BufferLayout == Spec => []Layout
  BY BufferIsQueue, PTL
=============================================================================
