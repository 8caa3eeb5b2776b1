------------------------------- MODULE Buffer -------------------------------
(***************************************************************************)
(* The byte buffer of a connection (src/src/Buffer.h, Buffer.cc): a vector *)
(* with a reader and a writer index.  Offsets count from 0 as in the code; *)
(* the byte at offset i of the vector is data[i + 1].                      *)
(***************************************************************************)
EXTENDS Naturals, Sequences

CONSTANTS Byte,            \* the bytes that travel
          Zero,            \* what resize() fills new storage with
          Chunks,          \* the byte strings that may be appended or read
          kCheapPrepend,   \* bytes kept free in front
          kInitialSize,    \* initial room for data
          ExtraSize,       \* sizeof(extrabuf) in readFd
          MaxBytes         \* bound: bytes put into the buffer in a behaviour

ASSUME ChunkAssumption == Chunks \subseteq Seq(Byte)
ASSUME ZeroAssumption == Zero \in Byte
ASSUME SizeAssumption ==
  /\ kCheapPrepend \in Nat
  /\ kInitialSize \in Nat
  /\ ExtraSize \in Nat
  /\ MaxBytes \in Nat

VARIABLES
  buf,        \* the Buffer: buffer_, readerIndex_, writerIndex_
  received,   \* history: every byte put in
  consumed    \* history: how many of them have been taken out

vars == <<buf, received, consumed>>

-----------------------------------------------------------------------------
(* The member functions, on a Buffer b.                                     *)

readableBytes(b) == b.writer - b.reader
writableBytes(b) == Len(b.data) - b.writer
prependableBytes(b) == b.reader

\* The bytes of d from offset r up to offset w.
Slice(d, r, w) == SubSeq(d, r + 1, w)

\* The readable bytes, from peek() on: what retrieveAsString copies out and
\* what writeFd offers to write().
Readable(b) == Slice(b.data, b.reader, b.writer)

\* vector::resize to a larger size.
Resize(d, n) == [i \in 1 .. n |-> IF i <= Len(d) THEN d[i] ELSE Zero]

\* std::copy of s to offset `at`; writing past the end is lost.
Copy(d, at, s) ==
  [i \in 1 .. Len(d) |-> IF at < i /\ i <= at + Len(s) THEN s[i - at] ELSE d[i]]

\* Fault: the reserve in front is not counted, so the bytes may not fit.
makeSpaceGreedy(b, len) ==
  IF writableBytes(b) + prependableBytes(b) < len
  THEN [data |-> Resize(b.data, b.writer + len),
        reader |-> b.reader,
        writer |-> b.writer]
  ELSE [data |-> Copy(b.data, kCheapPrepend, Readable(b)),
        reader |-> kCheapPrepend,
        writer |-> kCheapPrepend + readableBytes(b)]

\* Fault: always grows.
makeSpaceGrows(b, len) ==
  [data |-> Resize(b.data, b.writer + len), reader |-> b.reader, writer |-> b.writer]

\* Grow when the free bytes on both sides do not suffice, else move the
\* readable bytes to the front.
makeSpace(b, len) ==
  IF writableBytes(b) + prependableBytes(b) < len + kCheapPrepend
  THEN [data |-> Resize(b.data, b.writer + len),
        reader |-> b.reader,
        writer |-> b.writer]
  ELSE [data |-> Copy(b.data, kCheapPrepend, Readable(b)),
        reader |-> kCheapPrepend,
        writer |-> kCheapPrepend + readableBytes(b)]

ensureWritableBytes(b, len) ==
  IF writableBytes(b) < len THEN makeSpace(b, len) ELSE b

\* Bytes written behind the readable ones, which is where beginWrite() points.
Fill(b, s) ==
  [data |-> Copy(b.data, b.writer, s),
   reader |-> b.reader,
   writer |-> b.writer + Len(s)]

append(b, s) == Fill(ensureWritableBytes(b, Len(s)), s)

retrieveAll(b) ==
  [data |-> b.data, reader |-> kCheapPrepend, writer |-> kCheapPrepend]

retrieve(b, len) ==
  IF len < readableBytes(b)
  THEN [data |-> b.data, reader |-> b.reader + len, writer |-> b.writer]
  ELSE retrieveAll(b)

\* Fault: the second block starts with the byte after the first one's end.
readFdSkips(b, s) ==
  LET room == writableBytes(b)
      first == Fill(b, SubSeq(s, 1, room))
  IN  IF Len(s) <= room THEN Fill(b, s)
                        ELSE append(first, SubSeq(s, room + 2, Len(s)))

\* readFd: readv fills the writable part, then extrabuf, which is appended.
readFd(b, s) ==
  LET room == writableBytes(b)
      first == Fill(b, SubSeq(s, 1, room))
  IN  IF Len(s) <= room THEN Fill(b, s)
                        ELSE append(first, SubSeq(s, room + 1, Len(s)))

\* The most that one readv can return: extrabuf takes part only when the
\* writable part is smaller than it.
ReadLimit(b) ==
  writableBytes(b) + (IF writableBytes(b) < ExtraSize THEN ExtraSize ELSE 0)

-----------------------------------------------------------------------------
Init ==
  /\ buf = [data |-> [i \in 1 .. kCheapPrepend + kInitialSize |-> Zero],
            reader |-> kCheapPrepend,
            writer |-> kCheapPrepend]
  /\ received = <<>>
  /\ consumed = 0

AppendData(s) ==
  /\ Len(received) + Len(s) <= MaxBytes
  /\ buf' = append(buf, s)
  /\ received' = received \o s
  /\ UNCHANGED consumed

\* n > 0 bytes arrive; readFd leaves the buffer alone when n <= 0.
ReadFd(s) ==
  /\ Len(received) + Len(s) <= MaxBytes
  /\ Len(s) <= ReadLimit(buf)
  /\ buf' = readFd(buf, s)
  /\ received' = received \o s
  /\ UNCHANGED consumed

\* retrieve(len); len may exceed what is readable.  Left out: the string that
\* retrieveAsString(len) copies before it, which would then run past the readable
\* bytes; no caller passes such a len to it.
Retrieve(len) ==
  /\ buf' = retrieve(buf, len)
  /\ consumed' = consumed + (IF len < readableBytes(buf) THEN len
                                                         ELSE readableBytes(buf))
  /\ UNCHANGED received

Next ==
  \/ \E s \in Chunks : AppendData(s) \/ ReadFd(s)
  \/ \E len \in 0 .. MaxBytes : Retrieve(len)

Spec == Init /\ [][Next]_vars

-----------------------------------------------------------------------------
(* Properties.                                                              *)

BufferType ==
  [data : Seq(Byte), reader : Nat, writer : Nat]

\* Types: buffer_ holds bytes only (resize fills with zeros) and neither index
\* goes below zero.
TypeOK ==
  /\ buf \in BufferType
  /\ received \in Seq(Byte)
  /\ consumed \in Nat

\* kCheapPrepend <= readerIndex_ <= writerIndex_ <= buffer_.size(): no
\* sequence of calls makes an unsigned difference wrap, so what is appended or
\* moved stays in the vector.
LaidOut(b) ==
  /\ kCheapPrepend <= b.reader
  /\ b.reader <= b.writer
  /\ b.writer <= Len(b.data)

\* The buffer's indices stay in that order.
Layout == LaidOut(buf)

\* What is left of h after its first n bytes.
Rest(h, n) == SubSeq(h, n + 1, Len(h))

\* First in, first out: the readable bytes are exactly the bytes put in and
\* not yet taken out, in order, across moves, growth and two-block reads.
Contents ==
  /\ consumed <= Len(received)
  /\ Readable(buf) = Rest(received, consumed)

\* makeSpace enlarges the vector only when the readable bytes together with
\* the new ones do not fit behind the reserve, so a connection that is drained
\* does not make its buffer grow.
GrowsOnlyWhenNeeded ==
  [][Len(buf'.data) > Len(buf.data)
       => readableBytes(buf') > Len(buf.data) - kCheapPrepend]_vars
=============================================================================
