-------------------------- MODULE ConnectionOutput --------------------------
(***************************************************************************)
(* The sending side of one TcpConnection (src/src/TcpConnection.cc: send,  *)
(* sendInLoop, handleWrite, shutdown, shutdownInLoop) with the threads     *)
(* that use it.  A byte is its message and its place in it; which value a  *)
(* byte has is left out.  Functors of the loop run in order (module        *)
(* Executor); state_ is the only other thing the threads share.            *)
(***************************************************************************)
EXTENDS Integers, Sequences, FiniteSets

CONSTANTS Callers,        \* threads other than the loop's that hold the connection
          Lens,           \* lengths of messages
          highWaterMark,  \* highWaterMark_
          MaxMessages     \* bound: calls of send() that pass the test of state_

ASSUME LenAssumption == Lens \subseteq Nat \ {0}
ASSUME BoundAssumption == MaxMessages \in Nat /\ highWaterMark \in Nat

VARIABLES
  state,      \* state_
  writing,    \* events_ of the channel has kWriteEvent
  out,        \* readable bytes of outputBuffer_
  pending,    \* functors of the loop about this connection
  call,       \* per caller: the test of state_ in send() or shutdown() is passed
  shutWrite,  \* socket_ is shut down for writing
  dead,       \* the other end is gone: every write fails
  closed,     \* handleClose has run
  sends,      \* number of messages so far
  accepted,   \* history: the bytes sendInLoop was given while not kDisconnected
  wire,       \* history: the bytes write() took
  completes   \* history: times writeCompleteCallback_ was queued

connVars == <<state, writing, out, shutWrite, closed>>
history == <<accepted, wire, completes>>
vars == <<connVars, pending, call, dead, sends, history>>

Message == 1 .. MaxMessages
Byte == Message \X (Nat \ {0})
Bytes(m, from, to) == [i \in 1 .. (to - from + 1) |-> <<m, from + i - 1>>]

NoCall == [op |-> "none", msg |-> 0]

Init ==
  /\ state = "kConnected"
  /\ writing = FALSE
  /\ out = <<>>
  /\ pending = <<>>
  /\ call = [t \in Callers |-> NoCall]
  /\ shutWrite = FALSE
  /\ dead = FALSE
  /\ closed = FALSE
  /\ sends = 0
  /\ accepted = <<>>
  /\ wire = <<>>
  /\ completes = 0

-----------------------------------------------------------------------------
(* write() of len bytes: all of them, fewer (a signal or the end of the     *)
(* connection comes in between), an error of the connection (EPIPE,         *)
(* ECONNRESET), or another error (EINTR, EAGAIN).  The process ignores      *)
(* SIGPIPE.                                                                 *)

\* Fault: nwrote keeps the -1 of a failed write.
FailsRaw(e) == [n |-> -1, err |-> e]

Took(n) == [n |-> n, err |-> "none"]
Fails(e) == [n |-> 0, err |-> e]

WriteResults(len) ==
  IF dead \/ shutWrite THEN {Fails("fault")}
  ELSE {Took(n) : n \in 1 .. len} \cup {Fails("other")}

\* Fault: writeCompleteCallback_ after any write that took something.
DirectWritePartial(m, len, r) ==
  /\ wire' = wire \o Bytes(m, 1, r.n)
  /\ completes' = completes + (IF r.err = "none" THEN 1 ELSE 0)

\* sendInLoop writes at once when nothing is buffered.  r.n bytes of the len
\* are taken; writeCompleteCallback_ is queued when that is all of them.
DirectWrite(m, len, r) ==
  /\ wire' = wire \o Bytes(m, 1, r.n)
  /\ completes' = completes + (IF r.n = len THEN 1 ELSE 0)

CompleteQueued == IF completes' > completes THEN <<[op |-> "callback"]>> ELSE <<>>

\* Fault: the remainder is appended without asking for EPOLLOUT.
KeepRemainderSilent(m, n, remaining, fault) ==
  IF /\ fault /\ remaining > 0
     /\ Len(out) + remaining >= highWaterMark /\ Len(out) < highWaterMark
  THEN /\ out' = out \o Bytes(m, n + 1, n + remaining)
       /\ UNCHANGED writing
  ELSE UNCHANGED <<out, writing>>

\* Fault: after a write that did not fail the remainder is kept, but from the
\* start of the message.
KeepRemainderFromStart(m, n, remaining, fault) ==
  IF remaining > 0
  THEN /\ out' = out \o Bytes(m, 1, remaining)
       /\ writing' = TRUE
  ELSE UNCHANGED <<out, writing>>

\* What sendInLoop does with the rest: it is kept, and EPOLLOUT asked for, only
\* after a fault and when it crosses the high-water mark (and the user has set
\* highWaterMarkCallback_, which is queued then); otherwise it is dropped.
KeepRemainder(m, n, remaining, fault) ==
  IF /\ fault /\ remaining > 0
     /\ Len(out) + remaining >= highWaterMark /\ Len(out) < highWaterMark
  THEN /\ out' = out \o Bytes(m, n + 1, n + remaining)
       /\ writing' = TRUE
  ELSE UNCHANGED <<out, writing>>

HighWaterQueued == IF out' # out THEN <<[op |-> "callback"]>> ELSE <<>>

\* sendInLoop(message m, len), leaving the functors `rest` before its own.  A
\* failed write leaves remaining at len - (-1).
SendInLoop(m, len, rest) ==
  \/ /\ state = "kDisconnected"
     /\ pending' = rest
     /\ UNCHANGED <<out, writing, history>>
  \/ /\ state # "kDisconnected"
     /\ ~writing /\ out = <<>>
     /\ accepted' = accepted \o Bytes(m, 1, len)
     /\ \E r \in WriteResults(len) :
          /\ DirectWrite(m, len, r)
          /\ KeepRemainder(m, r.n, IF r.err = "none" THEN len - r.n ELSE len + 1,
                           r.err = "fault")
     /\ pending' = rest \o CompleteQueued \o HighWaterQueued
  \/ /\ state # "kDisconnected"
     /\ writing \/ out # <<>>
     /\ accepted' = accepted \o Bytes(m, 1, len)
     /\ KeepRemainder(m, 0, len, FALSE)
     /\ pending' = rest
     /\ UNCHANGED <<wire, completes>>

-----------------------------------------------------------------------------
(* send() and shutdown() from another thread: the test of state_, then the  *)
(* functor; and from a callback on the loop's own thread, at once.          *)

SendTest(t) ==
  /\ call[t] = NoCall /\ state = "kConnected"
  /\ sends < MaxMessages
  /\ sends' = sends + 1
  /\ call' = [call EXCEPT ![t] = [op |-> "send", msg |-> sends + 1]]
  /\ UNCHANGED <<connVars, pending, dead, history>>

SendPost(t, len) ==
  /\ call[t].op = "send"
  /\ pending' = Append(pending, [op |-> "send", msg |-> call[t].msg, len |-> len])
  /\ call' = [call EXCEPT ![t] = NoCall]
  /\ UNCHANGED <<connVars, dead, sends, history>>

SendInline(len) ==
  /\ state = "kConnected"
  /\ sends < MaxMessages
  /\ sends' = sends + 1
  /\ SendInLoop(sends + 1, len, pending)
  /\ UNCHANGED <<state, shutWrite, closed, call, dead>>

ShutdownTest(t) ==
  /\ call[t] = NoCall /\ state = "kConnected"
  /\ call' = [call EXCEPT ![t] = [op |-> "shutdown", msg |-> 0]]
  /\ UNCHANGED <<connVars, pending, dead, sends, history>>

ShutdownPost(t) ==
  /\ call[t].op = "shutdown"
  /\ state' = "kDisconnecting"
  /\ pending' = Append(pending, [op |-> "shutdown"])
  /\ call' = [call EXCEPT ![t] = NoCall]
  /\ UNCHANGED <<writing, out, shutWrite, closed, dead, sends, history>>

\* Fault: the write end is closed whatever is still buffered.
shutdownInLoopAlways == shutWrite' = TRUE

shutdownInLoop == shutWrite' = (shutWrite \/ ~writing)

-----------------------------------------------------------------------------
(* The loop.                                                                *)

RunSend ==
  /\ pending # <<>> /\ Head(pending).op = "send"
  /\ SendInLoop(Head(pending).msg, Head(pending).len, Tail(pending))
  /\ UNCHANGED <<state, shutWrite, closed, call, dead, sends>>

RunShutdown ==
  /\ pending # <<>> /\ Head(pending).op = "shutdown"
  /\ shutdownInLoop
  /\ pending' = Tail(pending)
  /\ UNCHANGED <<state, writing, out, closed, call, dead, sends, history>>

\* writeCompleteCallback_ or highWaterMarkCallback_ runs.
RunCallback ==
  /\ pending # <<>> /\ Head(pending).op = "callback"
  /\ pending' = Tail(pending)
  /\ UNCHANGED <<connVars, call, dead, sends, history>>

\* Buffer::writeFd: write() of the readable bytes with result r.
writeFd(r) == wire' = wire \o SubSeq(out, 1, r.n)

\* handleWrite, when the socket of a channel with EPOLLOUT is ready (or has
\* failed): bytes leave the buffer, and the last one ends the interest.
HandleWrite ==
  /\ writing
  /\ \E r \in WriteResults(Len(out)) :
       /\ writeFd(r)
       /\ out' = SubSeq(out, r.n + 1, Len(out))
       /\ writing' = (out' # <<>>)
  /\ IF writing' THEN UNCHANGED <<pending, completes, shutWrite>>
     ELSE /\ pending' = Append(pending, [op |-> "callback"])
          /\ completes' = completes + 1
          /\ shutWrite' = (shutWrite \/ state = "kDisconnecting")
  /\ UNCHANGED <<state, closed, call, dead, sends, accepted>>

\* handleClose (its part here; module TcpServer has the rest), when the other
\* end has closed or reset the connection.
HandleClose ==
  /\ ~closed
  /\ closed' = TRUE
  /\ state' = "kDisconnected"
  /\ writing' = FALSE
  /\ UNCHANGED <<out, shutWrite, pending, call, dead, sends, history>>

\* The other end goes away.
PeerGone ==
  /\ ~dead
  /\ dead' = TRUE
  /\ UNCHANGED <<connVars, pending, call, sends, history>>

Next ==
  \/ \E t \in Callers :
       SendTest(t) \/ ShutdownTest(t) \/ ShutdownPost(t)
       \/ \E len \in Lens : SendPost(t, len)
  \/ \E len \in Lens : SendInline(len)
  \/ RunSend \/ RunShutdown \/ RunCallback \/ HandleWrite \/ HandleClose \/ PeerGone

Spec == Init /\ [][Next]_vars

-----------------------------------------------------------------------------
(* Properties.                                                              *)

Functor ==
  [op : {"send"}, msg : Message, len : Lens] \cup [op : {"shutdown", "callback"}]

\* The bytes of s lie at most `extra` places behind the end of a message.
Within(s, extra) == \A i \in DOMAIN s : \E len \in Lens : s[i][2] <= len + extra

\* Types: in particular what sendInLoop was given and what write() took are bytes
\* that a message has, and completions never outnumber the calls of send().
\* outputBuffer_ may hold one byte more than a message has: after a failed write
\* remaining is len - (-1), and so many bytes are appended.
TypeOK ==
  /\ state \in {"kConnected", "kDisconnecting", "kDisconnected"}
  /\ {writing, shutWrite, dead, closed} \subseteq BOOLEAN
  /\ out \in Seq(Byte) /\ accepted \in Seq(Byte) /\ wire \in Seq(Byte)
  /\ Within(accepted, 0) /\ Within(wire, 0) /\ Within(out, 1)
  /\ call \in [Callers -> [op : {"none", "send", "shutdown"}, msg : 0 .. MaxMessages]]
  /\ pending \in Seq(Functor)
  /\ sends \in 0 .. MaxMessages
  /\ completes \in 0 .. sends

\* While the connection is open EPOLLOUT is asked for exactly when there is
\* something in outputBuffer_: otherwise bytes would wait for ever, or the loop
\* would spin on a socket that is always writable.  sendInLoop and handleWrite
\* keep this together from both sides.
WatchedWhileBuffered == ~closed => (writing <=> out # <<>>)

PlaceOf(b) == CHOOSE i \in DOMAIN accepted : accepted[i] = b

\* What goes out was accepted by sendInLoop, so never the byte a failed write
\* reads past the end of its message; it goes out in the order in which it was
\* accepted, no byte twice; and a message goes out from its first byte and with
\* no gap, unmixed with those of the other threads.  That all of it goes out is
\* RestSaved.
SentInOrder ==
  /\ \A i \in DOMAIN wire : \E j \in DOMAIN accepted : accepted[j] = wire[i]
  /\ \A i, j \in DOMAIN wire : i < j => PlaceOf(wire[i]) < PlaceOf(wire[j])
  /\ \A i \in DOMAIN wire :
       wire[i][2] > 1 => i > 1 /\ wire[i - 1] = <<wire[i][1], wire[i][2] - 1>>

\* What the comments of sendInLoop say: what write() has not taken is saved in
\* outputBuffer_ to be sent from there.  So while the connection is open at both
\* ends everything accepted is on the wire or buffered behind it.
RestSaved ==
  (~closed /\ ~dead /\ ~shutWrite) => accepted = wire \o out

\* The messages with a byte in s, and the places of those bytes.
MessagesOf(s) == {s[i][1] : i \in DOMAIN s}
PlacesIn(s, m) == {i \in DOMAIN s : s[i][1] = m}

Whole(m) ==
  /\ PlacesIn(wire, m) # {}
  /\ Cardinality(PlacesIn(wire, m)) = Cardinality(PlacesIn(accepted, m))

\* writeCompleteCallback_ is queued once for each message that has been handed
\* to the kernel whole, and never for one that was cut short.
CompleteMeansSent == completes = Cardinality({m \in Message : Whole(m)})

\* An open connection is shut down for writing only when outputBuffer_ has been
\* sent: shutdownInLoop leaves it to handleWrite otherwise, whichever of
\* shutdown(), send() and their functors come first.
FlushedBeforeShutdown ==
  [][(shutWrite' /\ ~shutWrite /\ ~closed) => out' = <<>>]_vars

-----------------------------------------------------------------------------
(* What is proved by induction (module ConnectionOutputProofs).             *)

\* EPOLLOUT is asked for only with something in outputBuffer_, and something is
\* in it only when no write can succeed any more.
OnlyAfterFault ==
  /\ writing => out # <<>>
  /\ out # <<>> => dead \/ shutWrite

Sending == {t \in Callers : call[t].op = "send"}
SendsIn(q) == {k \in DOMAIN q : q[k].op = "send"}

\* A message is on its way once, in the hands of a caller or in a functor of q,
\* and sendInLoop has not had it before.
OnTheWayIn(q) ==
  /\ \A t \in Sending : call[t].msg \in (1 .. sends) \ MessagesOf(accepted)
  /\ \A k \in SendsIn(q) : q[k].msg \in (1 .. sends) \ MessagesOf(accepted)
  /\ \A t, u \in Sending : call[t].msg = call[u].msg => t = u
  /\ \A k, l \in SendsIn(q) : q[k].msg = q[l].msg => k = l
  /\ \A t \in Sending, k \in SendsIn(q) : call[t].msg # q[k].msg

OnTheWayOnce == MessagesOf(accepted) \subseteq 1 .. sends /\ OnTheWayIn(pending)

\* So no byte is given to sendInLoop twice.
AcceptedOnce ==
  \A i, j \in DOMAIN accepted : accepted[i] = accepted[j] => i = j

OutputInvariant ==
  /\ TypeOK /\ WatchedWhileBuffered /\ OnlyAfterFault
  /\ OnTheWayOnce /\ AcceptedOnce /\ SentInOrder /\ CompleteMeansSent
=============================================================================
