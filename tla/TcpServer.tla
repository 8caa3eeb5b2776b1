------------------------------ MODULE TcpServer ------------------------------
(***************************************************************************)
(* The life of the connections of a TcpServer (src/src/TcpServer.cc,       *)
(* TcpConnection.cc, EventLoopThreadPool.cc, Acceptor.cc): accepted on the *)
(* base loop, handed to a sub-loop, closed there, taken out of the         *)
(* server's map on the base loop and destroyed on their own loop again.    *)
(*                                                                         *)
(* A loop is the executor of module Executor (EventLoopProofs shows that   *)
(* EventLoop implements it): a queue of functors, swapped and run after    *)
(* the events of each poll.  A channel is what module Poller says of it:   *)
(* the kernel watches it exactly while its index_ is kAdded.  Steps of a   *)
(* loop that touch only what its own thread touches are taken together;    *)
(* they are split where another thread can read state_ in between.         *)
(***************************************************************************)
EXTENDS Integers, Sequences, FiniteSets

CONSTANTS Conn,      \* connections
          Base,      \* the loop of the server and of its acceptor
          SubLoops,  \* the loops the thread pool can start, in order
          ThreadNums, \* the values setThreadNum() may have given numThreads_
          Listen,    \* the acceptor's channel
          None,      \* no connection
          Shared     \* connections that another thread may shut down

SubLoop == {SubLoops[i] : i \in DOMAIN SubLoops}
Loop == {Base} \cup SubLoop

ASSUME LoopAssumption ==
  /\ SubLoops \in Seq(SubLoop) /\ Base \notin SubLoop
  /\ \A i, j \in DOMAIN SubLoops : SubLoops[i] = SubLoops[j] => i = j
ASSUME ThreadAssumption == ThreadNums \subseteq 0 .. Len(SubLoops)
ASSUME ConnAssumption == None \notin Conn \cup Loop /\ Listen \notin Conn
ASSUME SharedAssumption == Shared \subseteq Conn

VARIABLES
  started,      \* started_, not counted further than the first call of start()
  loops, next,  \* loops_ and next_ (counted from 1) of the thread pool
  connections,  \* connections_: the connections in the server's map
  state,        \* state_, "none" before the connection is constructed
  loop,         \* loop_ of a connection
  index,        \* index_ of its channel
  reading,      \* events_ of its channel has kReadEvent
  revents,      \* revents_ of its channel
  shutWrite,    \* socket_ has been shut down for writing
  phase,        \* per loop: where loop() is
  active,       \* per loop: activeChannels_ that are not handled yet
  pending,      \* per loop: pendingFunctors_
  batch,        \* per loop: the functors doPendingFunctors has still to run
  destroying,   \* per loop: the connection inside connnectionDestroyed
  shutting,     \* per connection: another thread is inside shutdown()
  peer,         \* what the other end has done with the connection
  data,         \* unread bytes have arrived
  sockErr,      \* SO_ERROR is set
  reports       \* history: connected() in each call of connectionCallback_

poolVars == <<started, loops, next>>
connVars == <<state, loop, index, reading, revents, shutWrite>>
loopVars == <<phase, active, pending, batch, destroying>>
peerVars == <<peer, data, sockErr>>
vars == <<poolVars, connections, connVars, loopVars, shutting, peerVars, reports>>

State == {"kDisconnected", "kConnecting", "kConnected", "kDisconnecting"}
Index == {"kNew", "kAdded", "kDeleted"}
Functor == [op : {"established", "remove", "destroyed", "shutdown"}, conn : Conn]

Created(c) == state[c] # "none"

Init ==
  /\ started = 0
  /\ loops = <<>>
  /\ next = 1
  /\ connections = {}
  /\ state = [c \in Conn |-> "none"]
  /\ loop = [c \in Conn |-> None]
  /\ index = [c \in Conn |-> "kNew"]
  /\ reading = [c \in Conn |-> FALSE]
  /\ revents = [c \in Conn |-> {}]
  /\ shutWrite = [c \in Conn |-> FALSE]
  /\ phase = [l \in Loop |-> IF l = Base THEN "functors" ELSE "poll"]
  /\ active = [l \in Loop |-> {}]
  /\ pending = [l \in Loop |-> <<>>]
  /\ batch = [l \in Loop |-> <<>>]
  /\ destroying = [l \in Loop |-> None]
  /\ shutting = [c \in Conn |-> FALSE]
  /\ peer = [c \in Conn |-> "none"]
  /\ data = [c \in Conn |-> FALSE]
  /\ sockErr = [c \in Conn |-> FALSE]
  /\ reports = [c \in Conn |-> <<>>]

-----------------------------------------------------------------------------
(* The index_ that enableReading, disableAll and remove leave, from         *)
(* EpollPoller::updateChannel and removeChannel.  disableAll registers a    *)
(* channel that is not registered, for no event.                            *)

Enabled(i) == "kAdded"
Disabled(i) == IF i = "kAdded" THEN "kDeleted" ELSE "kAdded"
Removed(i) == "kNew"

Post(q, l, name, c) == [q EXCEPT ![l] = Append(@, [op |-> name, conn |-> c])]

-----------------------------------------------------------------------------
(* TcpServer.                                                               *)

\* Socket::accept gives a connection that its client has begun; Socket::shutdownWrite
\* closes the write end.
accept(c) == ~Created(c) /\ peer[c] # "none"
shutdownWrite(c) == shutWrite' = [shutWrite EXCEPT ![c] = TRUE]

\* start(), on the thread of the base loop, with numThreads_ = n.  Calls after
\* the first do nothing but count.  The first starts the pool's threads (module
\* EventLoopThreadPool), whose loops then exist, and the acceptor listens.
Start(n) ==
  /\ phase[Base] # "poll"
  /\ started' = 1
  /\ loops' = IF started = 0 THEN SubSeq(SubLoops, 1, n) ELSE loops
  /\ UNCHANGED <<next, connections, connVars, loopVars, shutting, peerVars, reports>>

\* EventLoopThreadPool::getNextLoop: the loop it returns, and next_ after it.
getNextLoop == IF loops = <<>> THEN Base ELSE loops[next]

\* Fault: next_ is not reset at the end.
nextPastEnd == IF loops = <<>> THEN next ELSE next + 1

nextAfter ==
  IF loops = <<>> THEN next ELSE IF next + 1 > Len(loops) THEN 1 ELSE next + 1

\* TcpConnection::connectionEstablished.
Established(c) ==
  /\ state' = [state EXCEPT ![c] = "kConnected"]
  /\ index' = [index EXCEPT ![c] = Enabled(@)]
  /\ reading' = [reading EXCEPT ![c] = TRUE]
  /\ reports' = [reports EXCEPT ![c] = Append(@, TRUE)]

\* Acceptor::handleRead with a connection, and TcpServer::newConnection:
\* connectionEstablished runs at once when the connection stays on this loop.
NewConnection(c) ==
  /\ phase[Base] = "handle" /\ Listen \in active[Base]
  /\ accept(c)
  /\ active' = [active EXCEPT ![Base] = @ \ {Listen}]
  /\ next' = nextAfter
  /\ loop' = [loop EXCEPT ![c] = getNextLoop]
  /\ connections' = connections \cup {c}
  /\ IF getNextLoop = Base
     THEN Established(c) /\ UNCHANGED pending
     ELSE /\ state' = [state EXCEPT ![c] = "kConnecting"]
          /\ pending' = Post(pending, getNextLoop, "established", c)
          /\ UNCHANGED <<index, reading, reports>>
  /\ UNCHANGED <<started, loops, revents, shutWrite, phase, batch, destroying,
                 shutting, peerVars>>

\* Acceptor::handleRead when accept fails (EMFILE, or the peer has gone).
AcceptFails ==
  /\ phase[Base] = "handle" /\ Listen \in active[Base]
  /\ active' = [active EXCEPT ![Base] = @ \ {Listen}]
  /\ UNCHANGED <<poolVars, connections, connVars, phase, pending, batch,
                 destroying, shutting, peerVars, reports>>

\* Fault: the map is left alone.
RemoveConnectionKeeps(c) ==
  /\ UNCHANGED connections
  /\ pending' = Post(pending, loop[c], "destroyed", c)

\* removeConnectionInLoop.
RemoveConnectionInLoop(c) ==
  /\ connections' = connections \ {c}
  /\ pending' = Post(pending, loop[c], "destroyed", c)

\* removeConnection, the closeCallback_ of every connection, on loop l:
\* inline on the base loop, a functor for it from a sub-loop.
RemoveConnection(l, c) ==
  IF l = Base THEN RemoveConnectionInLoop(c)
  ELSE /\ pending' = Post(pending, Base, "remove", c)
       /\ UNCHANGED connections

-----------------------------------------------------------------------------
(* TcpConnection: the channel's callbacks.                                  *)

\* handleError reads SO_ERROR, which clears it.
ErrorLeft(c) == sockErr[c] /\ "err" \notin revents[c]

\* The connection is closed on a hang-up without input, or when read returns 0.
SeesClose(c) ==
  \/ "hup" \in revents[c] /\ "in" \notin revents[c]
  \/ "in" \in revents[c] /\ ~data[c] /\ ~ErrorLeft(c) /\ peer[c] \in {"closed", "reset"}

\* The active channel c of loop l has its turn.
Handling(l, c) ==
  /\ phase[l] = "handle" /\ c \in active[l]
  /\ active' = [active EXCEPT ![l] = @ \ {c}]
  /\ revents' = [revents EXCEPT ![c] = {}]

\* handleRead with bytes: messageCallback_, which may call shutdown().
HandleMessage(l, c, shut) ==
  /\ Handling(l, c)
  /\ "in" \in revents[c] /\ data[c]
  /\ data' = [data EXCEPT ![c] = FALSE]
  /\ sockErr' = [sockErr EXCEPT ![c] = ErrorLeft(c)]
  /\ IF shut /\ state[c] = "kConnected"
     THEN /\ state' = [state EXCEPT ![c] = "kDisconnecting"]
          /\ shutdownWrite(c)
     ELSE UNCHANGED <<state, shutWrite>>
  /\ UNCHANGED <<poolVars, connections, loop, index, reading, phase, pending,
                 batch, destroying, shutting, peer, reports>>

\* handleRead with an error that arrived after the poll: it is only logged.
HandleReadError(l, c) ==
  /\ Handling(l, c)
  /\ "in" \in revents[c] /\ ~data[c] /\ ErrorLeft(c)
  /\ sockErr' = [sockErr EXCEPT ![c] = FALSE]
  /\ UNCHANGED <<poolVars, connections, state, loop, index, reading, shutWrite,
                 phase, pending, batch, destroying, shutting, peer, data, reports>>

\* Fault: the channel keeps its events.
HandleCloseStillEnabled(l, c) ==
  /\ Handling(l, c)
  /\ SeesClose(c)
  /\ sockErr' = [sockErr EXCEPT ![c] = ErrorLeft(c)]
  /\ state' = [state EXCEPT ![c] = "kDisconnected"]
  /\ reports' = [reports EXCEPT ![c] = Append(@, state'[c] = "kConnected")]
  /\ RemoveConnection(l, c)
  /\ UNCHANGED <<poolVars, loop, index, reading, shutWrite, phase, batch, destroying,
                 shutting, peer, data>>

\* Fault: closeCallback_ is not called.
HandleCloseForgets(l, c) ==
  /\ Handling(l, c)
  /\ SeesClose(c)
  /\ sockErr' = [sockErr EXCEPT ![c] = ErrorLeft(c)]
  /\ state' = [state EXCEPT ![c] = "kDisconnected"]
  /\ index' = [index EXCEPT ![c] = Disabled(@)]
  /\ reading' = [reading EXCEPT ![c] = FALSE]
  /\ reports' = [reports EXCEPT ![c] = Append(@, state'[c] = "kConnected")]
  /\ UNCHANGED <<poolVars, connections, loop, shutWrite, phase, pending, batch,
                 destroying, shutting, peer, data>>

\* Fault: a connection that this side is shutting down is not closed again.
HandleCloseOnlyConnected(l, c) ==
  /\ Handling(l, c)
  /\ SeesClose(c)
  /\ sockErr' = [sockErr EXCEPT ![c] = ErrorLeft(c)]
  /\ IF state[c] = "kConnected"
     THEN /\ state' = [state EXCEPT ![c] = "kDisconnected"]
          /\ index' = [index EXCEPT ![c] = Disabled(@)]
          /\ reading' = [reading EXCEPT ![c] = FALSE]
          /\ reports' = [reports EXCEPT ![c] = Append(@, state'[c] = "kConnected")]
          /\ RemoveConnection(l, c)
     ELSE UNCHANGED <<connections, state, index, reading, reports, pending>>
  /\ UNCHANGED <<poolVars, loop, shutWrite, phase, batch, destroying, shutting,
                 peer, data>>

\* handleClose, reached through handleRead or Channel::closeCallback_.
HandleClose(l, c) ==
  /\ Handling(l, c)
  /\ SeesClose(c)
  /\ sockErr' = [sockErr EXCEPT ![c] = ErrorLeft(c)]
  /\ state' = [state EXCEPT ![c] = "kDisconnected"]
  /\ index' = [index EXCEPT ![c] = Disabled(@)]
  /\ reading' = [reading EXCEPT ![c] = FALSE]
  /\ reports' = [reports EXCEPT ![c] = Append(@, state'[c] = "kConnected")]
  /\ RemoveConnection(l, c)
  /\ UNCHANGED <<poolVars, loop, shutWrite, phase, batch, destroying, shutting,
                 peer, data>>

-----------------------------------------------------------------------------
(* The functors, run one after the other by doPendingFunctors.              *)

Running(l, name, c) ==
  /\ phase[l] = "functors" /\ destroying[l] = None
  /\ batch[l] # <<>> /\ Head(batch[l]) = [op |-> name, conn |-> c]

Ran(l) == batch' = [batch EXCEPT ![l] = Tail(@)]

RunEstablished(l, c) ==
  /\ Running(l, "established", c)
  /\ Ran(l)
  /\ Established(c)
  /\ UNCHANGED <<poolVars, connections, loop, revents, shutWrite, phase, active,
                 pending, destroying, shutting, peerVars>>

RunRemoveConnection(l, c) ==
  /\ Running(l, "remove", c)
  /\ Ran(l)
  /\ RemoveConnectionInLoop(c)
  /\ UNCHANGED <<poolVars, connVars, phase, active, destroying, shutting,
                 peerVars, reports>>

\* shutdownInLoop; nothing is being written (module ConnectionOutput has the
\* case of a channel that is).
RunShutdown(l, c) ==
  /\ Running(l, "shutdown", c)
  /\ Ran(l)
  /\ shutdownWrite(c)
  /\ UNCHANGED <<poolVars, connections, state, loop, index, reading, revents,
                 phase, active, pending, destroying, shutting, peerVars, reports>>

\* connnectionDestroyed: the condition assigns kConnected to state_ and holds.
DestroyedTest(l, c) ==
  /\ Running(l, "destroyed", c)
  /\ destroying' = [destroying EXCEPT ![l] = c]
  /\ state' = [state EXCEPT ![c] = "kConnected"]
  /\ UNCHANGED <<poolVars, connections, loop, index, reading, revents, shutWrite,
                 phase, active, pending, batch, shutting, peerVars, reports>>

\* Fault: the channel is removed before it is disabled.
DestroyedRemovesFirst(l, c) ==
  /\ destroying[l] = c
  /\ destroying' = [destroying EXCEPT ![l] = None]
  /\ Ran(l)
  /\ state' = [state EXCEPT ![c] = "kDisconnected"]
  /\ index' = [index EXCEPT ![c] = Disabled(Removed(@))]
  /\ reading' = [reading EXCEPT ![c] = FALSE]
  /\ RemoveConnection(l, c)
  /\ UNCHANGED <<poolVars, loop, revents, shutWrite, phase, active, shutting,
                 peerVars, reports>>

\* The rest of it: kDisconnected, disableAll, closeCallback_ once more, and the
\* channel is removed.
DestroyedBody(l, c) ==
  /\ destroying[l] = c
  /\ destroying' = [destroying EXCEPT ![l] = None]
  /\ Ran(l)
  /\ state' = [state EXCEPT ![c] = "kDisconnected"]
  /\ index' = [index EXCEPT ![c] = Removed(Disabled(@))]
  /\ reading' = [reading EXCEPT ![c] = FALSE]
  /\ RemoveConnection(l, c)
  /\ UNCHANGED <<poolVars, loop, revents, shutWrite, phase, active, shutting,
                 peerVars, reports>>

-----------------------------------------------------------------------------
(* loop().                                                                  *)

Revents(c) ==
  (IF reading[c] /\ (data[c] \/ peer[c] \in {"closed", "reset"}) THEN {"in"} ELSE {})
    \cup (IF sockErr[c] THEN {"err"} ELSE {})
    \cup (IF peer[c] = "reset" \/ (peer[c] = "closed" /\ shutWrite[c])
          THEN {"hup"} ELSE {})

ReadyConns(l) == {c \in Conn : loop[c] = l /\ index[c] = "kAdded" /\ Revents(c) # {}}

\* Acceptor::listen has run, in place, in the first start(): the socket listens
\* and its channel is enabled for reading.
Listening == started > 0

\* A connection waits for the acceptor.
ReadyListen(l) ==
  IF l = Base /\ Listening /\ \E c \in Conn : accept(c)
  THEN {Listen} ELSE {}

\* epoll_wait returns with every channel that is ready, or because a functor's
\* wake-up made it.  (When it times out the loop goes round without effect.)
Poll(l) ==
  /\ phase[l] = "poll"
  /\ active' = [active EXCEPT ![l] = ReadyConns(l) \cup ReadyListen(l)]
  /\ active'[l] # {} \/ pending[l] # <<>>
  /\ revents' = [c \in Conn |-> IF c \in ReadyConns(l) THEN Revents(c) ELSE revents[c]]
  /\ phase' = [phase EXCEPT ![l] = "handle"]
  /\ UNCHANGED <<poolVars, connections, state, loop, index, reading, shutWrite,
                 pending, batch, destroying, shutting, peerVars, reports>>

Swap(l) ==
  /\ phase[l] = "handle" /\ active[l] = {}
  /\ phase' = [phase EXCEPT ![l] = "functors"]
  /\ batch' = [batch EXCEPT ![l] = pending[l]]
  /\ pending' = [pending EXCEPT ![l] = <<>>]
  /\ UNCHANGED <<poolVars, connections, connVars, active, destroying, shutting,
                 peerVars, reports>>

FunctorsDone(l) ==
  /\ phase[l] = "functors" /\ batch[l] = <<>>
  /\ phase' = [phase EXCEPT ![l] = "poll"]
  /\ UNCHANGED <<poolVars, connections, connVars, active, pending, batch,
                 destroying, shutting, peerVars, reports>>

LoopStep(l) ==
  \/ Poll(l) \/ Swap(l) \/ FunctorsDone(l)
  \/ \E c \in Conn :
       \/ \E shut \in BOOLEAN : HandleMessage(l, c, shut)
       \/ HandleReadError(l, c) \/ HandleClose(l, c)
       \/ RunEstablished(l, c) \/ RunRemoveConnection(l, c) \/ RunShutdown(l, c)
       \/ DestroyedTest(l, c) \/ DestroyedBody(l, c)

AcceptStep == AcceptFails \/ \E c \in Conn : NewConnection(c)

-----------------------------------------------------------------------------
(* Another thread of the program calls shutdown() on a connection that      *)
(* connectionCallback_ gave it: the test of state_, then the rest.          *)

ShutdownTest(c) ==
  /\ c \in Shared
  /\ reports[c] # <<>> /\ ~shutting[c]
  /\ state[c] = "kConnected"
  /\ shutting' = [shutting EXCEPT ![c] = TRUE]
  /\ UNCHANGED <<poolVars, connections, connVars, loopVars, peerVars, reports>>

ShutdownBody(c) ==
  /\ shutting[c]
  /\ shutting' = [shutting EXCEPT ![c] = FALSE]
  /\ state' = [state EXCEPT ![c] = "kDisconnecting"]
  /\ pending' = Post(pending, loop[c], "shutdown", c)
  /\ UNCHANGED <<poolVars, connections, loop, index, reading, revents, shutWrite,
                 phase, active, batch, destroying, peerVars, reports>>

-----------------------------------------------------------------------------
(* The other end: it connects, sends, closes or resets, before or after the *)
(* connection is accepted.                                                  *)

PeerConnect(c) ==
  /\ peer[c] = "none"
  /\ peer' = [peer EXCEPT ![c] = "open"]
  /\ UNCHANGED <<poolVars, connections, connVars, loopVars, shutting, data,
                 sockErr, reports>>

PeerSend(c) ==
  /\ peer[c] = "open"
  /\ data' = [data EXCEPT ![c] = TRUE]
  /\ UNCHANGED <<poolVars, connections, connVars, loopVars, shutting, peer,
                 sockErr, reports>>

PeerClose(c) ==
  /\ peer[c] = "open"
  /\ peer' = [peer EXCEPT ![c] = "closed"]
  /\ UNCHANGED <<poolVars, connections, connVars, loopVars, shutting, data,
                 sockErr, reports>>

PeerReset(c) ==
  /\ peer[c] \in {"open", "closed"}
  /\ peer' = [peer EXCEPT ![c] = "reset"]
  /\ sockErr' = [sockErr EXCEPT ![c] = TRUE]
  /\ UNCHANGED <<poolVars, connections, connVars, loopVars, shutting, data, reports>>

PeerStep(c) == PeerConnect(c) \/ PeerSend(c) \/ PeerClose(c) \/ PeerReset(c)

Next ==
  \/ \E n \in ThreadNums : Start(n)
  \/ AcceptStep
  \/ \E l \in Loop : LoopStep(l)
  \/ \E c \in Conn : ShutdownTest(c) \/ ShutdownBody(c) \/ PeerStep(c)

Spec == Init /\ [][Next]_vars

\* Every loop's thread is scheduled.  Nothing is assumed of the other end, of
\* accept() or of the thread that calls shutdown().
Fairness ==
  /\ \A l \in Loop : WF_vars(LoopStep(l))
  /\ WF_vars(AcceptStep)

LiveSpec == Spec /\ Fairness

-----------------------------------------------------------------------------
(* Properties.                                                              *)

\* Types: in particular state_ and index_ keep to their enumerations, and
\* next_ stays inside loops_ (getNextLoop indexes with it).
TypeOK ==
  /\ started \in 0 .. 1
  /\ loops \in {SubSeq(SubLoops, 1, n) : n \in 0 .. Len(SubLoops)}
  /\ next \in DOMAIN SubLoops \cup {1}
  /\ connections \subseteq Conn
  /\ state \in [Conn -> State \cup {"none"}]
  /\ loop \in [Conn -> Loop \cup {None}]
  /\ index \in [Conn -> Index]
  /\ reading \in [Conn -> BOOLEAN]
  /\ revents \in [Conn -> SUBSET {"in", "err", "hup"}]
  /\ shutWrite \in [Conn -> BOOLEAN]
  /\ phase \in [Loop -> {"poll", "handle", "functors"}]
  /\ active \in [Loop -> SUBSET (Conn \cup {Listen})]
  /\ pending \in [Loop -> Seq(Functor)]
  /\ batch \in [Loop -> Seq(Functor)]
  /\ destroying \in [Loop -> Conn \cup {None}]
  /\ shutting \in [Conn -> BOOLEAN]
  /\ peer \in [Conn -> {"none", "open", "closed", "reset"}]
  /\ data \in [Conn -> BOOLEAN]
  /\ sockErr \in [Conn -> BOOLEAN]
  /\ reports \in [Conn -> Seq(BOOLEAN)]

\* connectionCallback_ tells the user of each connection once that it is up
\* and once, later, that it is down, and connected() says so each time:
\* whatever the other end does, however late the sub-loop establishes it, and
\* with shutdown() from another thread writing state_ in between.
ReportedOnce ==
  \A c \in Conn : reports[c] \in {<<>>, <<TRUE>>, <<TRUE, FALSE>>}

Up(c) == reports[c] = <<TRUE>>
Down(c) == Len(reports[c]) > 1

\* The functors in queue q that are about connection c and have one of `names`.
Queued(q, c, names) ==
  {p \in UNION {{l} \X DOMAIN q[l] : l \in Loop} :
     q[p[1]][p[2]] \in [op : names, conn : {c}]}

Teardown(c) ==
  Cardinality(Queued(pending, c, {"remove", "destroyed"}))
    + Cardinality(Queued(batch, c, {"remove", "destroyed"}))

\* A connection is taken apart by one functor at a time, and only once it is
\* down: handleClose on its own loop, removal on the base loop and destruction
\* on its loop again never run twice side by side, on whichever loops they are.
OneTeardown ==
  \A c \in Conn : Teardown(c) = IF Down(c) THEN 1 ELSE 0

\* The map holds a connection from newConnection until, after it went down,
\* the base loop has run its removal: a connection in use is never forgotten.
MapTracks ==
  \A c \in Conn :
    /\ c \in connections => Created(c)
    /\ Created(c) /\ c \notin connections => Down(c)
    /\ c \in connections /\ Down(c) =>
         Queued(pending, c, {"remove"}) \cup Queued(batch, c, {"remove"}) # {}

\* A loop blocked in epoll_wait watches the connections that are up and none
\* that is down.  A closed socket stays ready for ever (EPOLLHUP needs no
\* interest), so one left in the epoll set would be closed again and again;
\* connnectionDestroyed itself registers the channel once more before it
\* removes it.
WatchedWhileUp ==
  \A c \in Conn :
    Created(c) /\ phase[loop[c]] = "poll" =>
      /\ Up(c) => index[c] = "kAdded" /\ reading[c]
      /\ Down(c) => index[c] # "kAdded"

On(l) == {c \in Conn : loop[c] = l}
Assigned(l) == Cardinality(On(l))

\* The loops getNextLoop chooses from.
Chosen == IF loops = <<>> THEN {Base} ELSE {loops[i] : i \in DOMAIN loops}

\* newConnection spreads the connections evenly over the sub-loops: none has two
\* more than another.  (Nothing is said of the base loop.)
SpreadEvenly ==
  \A i, j \in DOMAIN loops : Assigned(loops[i]) <= Assigned(loops[j]) + 1

\* A connection whose other end has closed or reset it is reported down, with
\* unread bytes, a pending error or a concurrent shutdown() in between.
CloseReported ==
  \A c \in Conn : (Created(c) /\ peer[c] \in {"closed", "reset"}) ~> Down(c)

\* A connection that is down leaves the server's map.
Forgotten ==
  \A c \in Conn : Down(c) ~> c \notin connections

-----------------------------------------------------------------------------
(* What is proved by induction (module TcpServerProofs): the four stages of *)
(* a connection's life, each with the functors that are on their way to it. *)

Nowhere(c, names) ==
  Queued(pending, c, names) = {} /\ Queued(batch, c, names) = {}

\* One functor, in one queue of one loop.
InOnePlace(c, names) ==
  \E p \in Queued(pending, c, names) \cup Queued(batch, c, names) :
    \/ Queued(pending, c, names) = {p} /\ Queued(batch, c, names) = {}
    \/ Queued(pending, c, names) = {} /\ Queued(batch, c, names) = {p}

TearingDown == {"remove", "destroyed"}

NotAccepted(c) ==
  /\ ~Created(c) /\ loop[c] = None /\ c \notin connections /\ ~shutting[c]
  /\ index[c] = "kNew" /\ reports[c] = <<>>
  /\ Nowhere(c, {"established"}) /\ Nowhere(c, TearingDown)

Opening(c) ==
  /\ Created(c) /\ loop[c] \in Loop /\ c \in connections /\ ~shutting[c]
  /\ index[c] = "kNew" /\ reports[c] = <<>>
  /\ InOnePlace(c, {"established"}) /\ Nowhere(c, TearingDown)

Serving(c) ==
  /\ Created(c) /\ loop[c] \in Loop /\ c \in connections
  /\ index[c] = "kAdded" /\ reading[c] /\ reports[c] = <<TRUE>>
  /\ Nowhere(c, {"established"}) /\ Nowhere(c, TearingDown)

Dismantled(c) ==
  /\ Created(c) /\ loop[c] \in Loop
  /\ c \in connections => Nowhere(c, {"destroyed"})
  /\ index[c] # "kAdded" /\ reports[c] = <<TRUE, FALSE>>
  /\ Nowhere(c, {"established"}) /\ InOnePlace(c, TearingDown)

Stages == \A c \in Conn : NotAccepted(c) \/ Opening(c) \/ Serving(c) \/ Dismantled(c)

\* A channel is handled on the loop of its connection and while that is up; the
\* functors of a round have run before the next poll; connnectionDestroyed is
\* the functor at the head of the batch.
LoopInvariant ==
  \A l \in Loop :
    /\ \A c \in Conn : c \in active[l] => loop[c] = l /\ Serving(c)
    /\ Listen \in active[l] => Listening
    /\ phase[l] # "functors" => batch[l] = <<>>
    /\ destroying[l] # None =>
         /\ phase[l] = "functors" /\ batch[l] # <<>>
         /\ Head(batch[l]) = [op |-> "destroyed", conn |-> destroying[l]]

\* Before start() there is no connection and no sub-loop.  The loops before next_
\* have one connection more than the others.
PoolInvariant ==
  /\ started = 0 => loops = <<>> /\ next = 1 /\ \A c \in Conn : ~Created(c)
  /\ IF loops = <<>> THEN next = 1 ELSE next \in DOMAIN loops
  /\ \A l \in Loop : IsFiniteSet(On(l))
  /\ \A l \in Loop \ Chosen : On(l) = {}
  /\ \A i, j \in DOMAIN loops :
       Assigned(loops[i]) =
         Assigned(loops[j]) + (IF i < next THEN 1 ELSE 0) - (IF j < next THEN 1 ELSE 0)

\* The loop on whose thread a functor has to run: the map is the base loop's, all
\* else is the connection's own loop's.
Home(f) == IF f.op = "remove" THEN Base ELSE loop[f.conn]

\* Every functor is queued at its home, so that no two threads are ever inside the
\* map, or inside one connection's channel and buffers.
OnOwnLoop ==
  \A l \in Loop :
    /\ \A j \in DOMAIN pending[l] : Home(pending[l][j]) = l
    /\ \A j \in DOMAIN batch[l] : Home(batch[l][j]) = l

ServerInvariant == TypeOK /\ Stages /\ LoopInvariant /\ PoolInvariant /\ OnOwnLoop
=============================================================================
