------------------------------ MODULE HttpServer ------------------------------
(***************************************************************************)
(* The HTTP server of bck/: the main loop (bck/src/main.cpp), the pool of  *)
(* worker threads with its queue, lock and semaphore                       *)
(* (bck/include/threadpool.h, bck/src/locker.cpp), and the descriptor side *)
(* of http_conn (bck/src/http_conn.cpp).  A connection is owned in turn by *)
(* epoll, by the main thread, by the queue and by a worker: EPOLLONESHOT   *)
(* disarms it when its event is fetched and modfd arms it again.  What is  *)
(* parsed and what is sent is HttpConnection; here a call of read, process *)
(* or write has one of its outcomes.                                       *)
(***************************************************************************)
EXTENDS Integers, Sequences, FiniteSets

CONSTANTS
  Fds,           \* the descriptors the process can have for connections, numbers
  Workers,       \* m_threads
  Main,          \* the main thread
  Listen,        \* lfd
  None,          \* no descriptor, no thread
  m_max_requests,
  MAX_FD,
  MaxClients     \* bound: clients that ever connect

ASSUME ServerAssumption ==
  /\ Fds \subseteq Nat /\ IsFiniteSet(Fds) /\ IsFiniteSet(Workers)
  /\ m_max_requests \in Nat \ {0} /\ MAX_FD \in Nat /\ MaxClients \in Nat
  /\ Main \notin Workers /\ None \notin Workers \cup Fds \cup {Main}
  /\ Listen \notin Fds

VARIABLES
  clients,    \* clients that have connected, for the bound
  backlog,    \* those that wait to be accepted
  open,       \* connected descriptors
  hup,        \* those whose peer has gone
  armed,      \* per descriptor: what epoll watches it for
  sock,       \* descriptors whose object has m_sockfd # -1
  count,      \* m_user_count
  batch,      \* events fetched by epoll_wait and not handled yet
  main,       \* where the main thread is, and the connection in its hands
  queue,      \* m_workqueue
  qlock,      \* the holder of m_queuelocker
  sem,        \* m_queuestat
  worker,     \* per worker: where it is, its request, m_user_count as read
  refused,    \* history: connections append() did not take
  phantom,    \* history: times init() was called for a failed accept
  overtaken   \* history: a connection was opened or closed while a worker was
              \* between closing one and leaving process()

clientVars == <<clients, backlog, hup>>
connVars == <<open, armed, sock, count>>
poolVars == <<queue, qlock, sem, worker>>
history == <<refused, phantom, overtaken>>
vars == <<clientVars, connVars, poolVars, batch, main, history>>

Idle == [at |-> "wait", fd |-> None, seen |-> 0]
Loop == [at |-> "loop", fd |-> None]

Init ==
  /\ clients = 0 /\ backlog = 0 /\ hup = {}
  /\ open = {} /\ armed = [f \in Fds |-> "none"] /\ sock = {} /\ count = 0
  /\ batch = {} /\ main = [at |-> "create", fd |-> None]
  /\ queue = <<>> /\ qlock = None /\ sem = 0
  /\ worker = [w \in Workers |-> [Idle EXCEPT !.at = "none"]]
  /\ refused = {} /\ phantom = 0 /\ overtaken = FALSE

-----------------------------------------------------------------------------
(* The clients.                                                             *)

Connect ==
  /\ clients < MaxClients
  /\ clients' = clients + 1
  /\ backlog' = backlog + 1
  /\ UNCHANGED <<hup, connVars, poolVars, batch, main, history>>

HangUp(f) ==
  /\ f \in open \ hup
  /\ hup' = hup \cup {f}
  /\ UNCHANGED <<clients, backlog, connVars, poolVars, batch, main, history>>

-----------------------------------------------------------------------------
(* class locker, on m_queuelocker, and class sem, on m_queuestat.           *)

lock(t) == qlock = None /\ qlock' = t
unlock == qlock' = None
wait == sem > 0 /\ sem' = sem - 1
post == sem' = sem + 1

-----------------------------------------------------------------------------
(* The threadpool constructor, called by main before the loop.              *)

CreateThread(w) ==
  /\ main.at = "create" /\ worker[w].at = "none"
  /\ worker' = [worker EXCEPT ![w] = Idle]
  /\ main' = IF \A v \in Workers \ {w} : worker[v].at # "none" THEN Loop ELSE main
  /\ UNCHANGED <<clientVars, connVars, queue, qlock, sem, batch, history>>

\* pthread_create or pthread_detach fails: the constructor throws and main exits.
CreateFails ==
  /\ main.at = "create"
  /\ main' = [main EXCEPT !.at = "exit"]
  /\ UNCHANGED <<clientVars, connVars, poolVars, batch, history>>

-----------------------------------------------------------------------------
(* http_conn: the descriptor and its registration.                          *)

Closing == {w \in Workers : worker[w].at \in {"forget", "uncount", "rearm"}}
Touched == overtaken' = (overtaken \/ Closing # {})

\* modfd(m_epollfd, m_sockfd, ev): nothing is changed for descriptor -1.
modfd(f, ev) == [armed EXCEPT ![f] = IF f \in sock THEN ev ELSE @]

\* http_conn::init(sockfd, addr), with addfd: EPOLLIN | EPOLLRDHUP | EPOLLONESHOT.
init(f) ==
  /\ open' = open \cup {f}
  /\ sock' = sock \cup {f}
  /\ armed' = [armed EXCEPT ![f] = "in"]
  /\ count' = count + 1

\* close_conn with rmfd, on the main thread; nothing the second time.
close_conn(f) ==
  /\ IF f \in sock
       THEN /\ open' = open \ {f}
            /\ sock' = sock \ {f}
            /\ armed' = [armed EXCEPT ![f] = "none"]
            /\ count' = count - 1
            /\ hup' = hup \ {f}
            /\ Touched
       ELSE UNCHANGED <<connVars, hup, overtaken>>
  /\ UNCHANGED <<clients, backlog, refused, phantom>>

-----------------------------------------------------------------------------
(* The main loop.                                                           *)

\* Fault: EPOLLRDHUP is not asked for.
EventNoHup(f) ==
  IF f = Listen THEN "listen" ELSE armed[f]

\* What the kernel reports of a watched descriptor; addfd and modfd ask for
\* EPOLLRDHUP too.
Event(f) ==
  IF f = Listen THEN "listen" ELSE IF f \in hup THEN "hup" ELSE armed[f]

\* Ready for sure, the peer having gone; ready perhaps, the socket being readable
\* or writable when the peer has sent or read enough.
Gone == {f \in hup : armed[f] \in {"in", "out"}}
Perhaps == {f \in Fds \ hup : armed[f] \in {"in", "out"}}

\* Fault: the events are not one-shot.
EpollWaitKeeps ==
  /\ main = Loop /\ batch = {}
  /\ \E some \in SUBSET Perhaps :
       LET ready == Gone \cup some \cup {f \in {Listen} : backlog > 0} IN
       /\ ready # {}
       /\ batch' = {[fd |-> f, ev |-> Event(f)] : f \in ready}
  /\ UNCHANGED <<clientVars, connVars, poolVars, main, history>>

\* epoll_wait: every ready descriptor, disarmed.
EpollWait ==
  /\ main = Loop /\ batch = {}
  /\ \E some \in SUBSET Perhaps :
       LET ready == Gone \cup some \cup {f \in {Listen} : backlog > 0} IN
       /\ ready # {}
       /\ batch' = {[fd |-> f, ev |-> Event(f)] : f \in ready}
       /\ armed' = [f \in Fds |-> IF f \in ready THEN "off" ELSE armed[f]]
  /\ UNCHANGED <<clientVars, open, sock, count, poolVars, main, history>>

\* The loop over events[] takes event e.
Take(e) ==
  /\ main = Loop /\ e \in batch
  /\ batch' = batch \ {e}
  /\ UNCHANGED poolVars

\* accept() gives the lowest free descriptor; with MAX_FD users it is closed at
\* once.
Accept(e) ==
  /\ e.ev = "listen" /\ Take(e)
  /\ backlog' = backlog - 1
  /\ \E f \in Fds \ open :
       /\ \A g \in Fds \ open : f <= g
       /\ IF count >= MAX_FD
            THEN UNCHANGED <<connVars, history>>
            ELSE /\ init(f)
                 /\ refused' = refused \ {f}
                 /\ Touched
                 /\ UNCHANGED phantom
  /\ UNCHANGED <<clients, hup, main>>

\* accept() fails, for want of descriptors or memory: users[-1] is initialised,
\* which registers nothing and counts a user.
AcceptFails(e) ==
  /\ e.ev = "listen" /\ Take(e)
  /\ IF count >= MAX_FD
       THEN UNCHANGED <<count, history>>
       ELSE /\ count' = count + 1
            /\ phantom' = phantom + 1
            /\ Touched
            /\ UNCHANGED refused
  /\ UNCHANGED <<clientVars, open, armed, sock, main>>

\* EPOLLRDHUP, EPOLLHUP or EPOLLERR.
PeerGone(e) ==
  /\ e.ev = "hup" /\ Take(e)
  /\ close_conn(e.fd)
  /\ UNCHANGED main

\* EPOLLIN and read() succeeds: on to append().
Read(e) ==
  /\ e.ev = "in" /\ Take(e)
  /\ e.fd \in sock
  /\ main' = [at |-> "lock", fd |-> e.fd]
  /\ UNCHANGED <<clientVars, connVars, history>>

\* EPOLLIN and read() fails: end of file, an error, or a full buffer.
ReadFails(e) ==
  /\ e.ev = "in" /\ Take(e)
  /\ close_conn(e.fd)
  /\ UNCHANGED main

\* EPOLLOUT and write() returns true: more later, or the answer is complete
\* (or was empty) and the connection is kept.
Write(e) ==
  /\ e.ev = "out" /\ Take(e)
  /\ \E ev \in {"in", "out"} : armed' = modfd(e.fd, ev)
  /\ UNCHANGED <<clientVars, open, sock, count, main, history>>

\* EPOLLOUT and write() returns false, after modfd when the answer is complete.
WriteEnds(e) ==
  /\ e.ev = "out" /\ Take(e)
  /\ close_conn(e.fd)
  /\ UNCHANGED main

\* append(): m_queuelocker.lock().
AppendLock ==
  /\ main.at = "lock" /\ lock(Main)
  /\ main' = [main EXCEPT !.at = "append"]
  /\ UNCHANGED <<clientVars, connVars, queue, sem, worker, batch, history>>

\* Fault: the semaphore is posted for a request that was refused, too.
AppendPostsRefused ==
  /\ main.at = "append"
  /\ main' = [at |-> "post", fd |-> None]
  /\ IF Len(queue) > m_max_requests
       THEN refused' = refused \cup {main.fd} /\ UNCHANGED queue
       ELSE queue' = Append(queue, main.fd) /\ UNCHANGED refused
  /\ unlock
  /\ UNCHANGED <<clientVars, connVars, sem, worker, batch, phantom, overtaken>>

\* Refuse, which the main loop does not look at, or push; unlock.
append ==
  /\ main.at = "append"
  /\ IF Len(queue) > m_max_requests
       THEN /\ main' = Loop
            /\ refused' = refused \cup {main.fd}
            /\ UNCHANGED queue
       ELSE /\ queue' = Append(queue, main.fd)
            /\ main' = [at |-> "post", fd |-> None]
            /\ UNCHANGED refused
  /\ unlock
  /\ UNCHANGED <<clientVars, connVars, sem, worker, batch, phantom, overtaken>>

\* m_queuestat.post().
Post ==
  /\ main.at = "post" /\ post
  /\ main' = Loop
  /\ UNCHANGED <<clientVars, connVars, queue, qlock, worker, batch, history>>

-----------------------------------------------------------------------------
(* A worker in run().                                                       *)

\* m_queuestat.wait().
SemWait(w) ==
  /\ worker[w].at = "wait" /\ wait
  /\ worker' = [worker EXCEPT ![w].at = "lock"]
  /\ UNCHANGED <<clientVars, connVars, queue, qlock, batch, main, history>>

\* m_queuelocker.lock().
Lock(w) ==
  /\ worker[w].at = "lock" /\ lock(w)
  /\ worker' = [worker EXCEPT ![w].at = "pop"]
  /\ UNCHANGED <<clientVars, connVars, queue, sem, batch, main, history>>

\* Take the front of the queue, unless it is empty; unlock.
Pop(w) ==
  /\ worker[w].at = "pop"
  /\ IF queue = <<>>
       THEN /\ worker' = [worker EXCEPT ![w] = Idle]
            /\ UNCHANGED queue
       ELSE /\ worker' = [worker EXCEPT ![w].at = "process", ![w].fd = Head(queue)]
            /\ queue' = Tail(queue)
  /\ unlock
  /\ UNCHANGED <<clientVars, connVars, sem, batch, main, history>>

\* process(): the request is incomplete (EPOLLIN), or an answer is ready
\* (EPOLLOUT).
Process(w) ==
  /\ worker[w].at = "process"
  /\ \E ev \in {"in", "out"} : armed' = modfd(worker[w].fd, ev)
  /\ worker' = [worker EXCEPT ![w] = Idle]
  /\ UNCHANGED <<clientVars, open, sock, count, queue, qlock, sem, batch, main, history>>

\* process() could not build the answer: close_conn() from the worker.  rmfd ...
ProcessCloses(w) ==
  LET f == worker[w].fd IN
  /\ worker[w].at = "process"
  /\ f \in sock
  /\ open' = open \ {f}
  /\ armed' = [armed EXCEPT ![f] = "none"]
  /\ hup' = hup \ {f}
  /\ worker' = [worker EXCEPT ![w].at = "forget"]
  /\ Touched
  /\ UNCHANGED <<clients, backlog, sock, count, queue, qlock, sem, batch, main, refused, phantom>>

\* ... m_sockfd = -1, and m_user_count is read ...
Forget(w) ==
  /\ worker[w].at = "forget"
  /\ sock' = sock \ {worker[w].fd}
  /\ worker' = [worker EXCEPT ![w].at = "uncount", ![w].seen = count]
  /\ UNCHANGED <<clientVars, open, armed, count, queue, qlock, sem, batch, main, history>>

\* Fault: the user is not counted off.
UncountSkipped(w) ==
  /\ worker[w].at = "uncount"
  /\ worker' = [worker EXCEPT ![w].at = "rearm"]
  /\ UNCHANGED <<clientVars, connVars, queue, qlock, sem, batch, main, history>>

\* ... and written ...
Uncount(w) ==
  /\ worker[w].at = "uncount"
  /\ count' = worker[w].seen - 1
  /\ worker' = [worker EXCEPT ![w].at = "rearm"]
  /\ UNCHANGED <<clientVars, open, armed, sock, queue, qlock, sem, batch, main, history>>

\* ... and modfd(m_sockfd, EPOLLOUT) all the same.
Rearm(w) ==
  /\ worker[w].at = "rearm"
  /\ armed' = modfd(worker[w].fd, "out")
  /\ worker' = [worker EXCEPT ![w] = Idle]
  /\ UNCHANGED <<clientVars, open, sock, count, queue, qlock, sem, batch, main, history>>

-----------------------------------------------------------------------------

MainStep ==
  \/ \E w \in Workers : CreateThread(w)
  \/ EpollWait
  \/ \E e \in batch : \/ Accept(e) \/ AcceptFails(e) \/ PeerGone(e)
                      \/ Read(e) \/ ReadFails(e) \/ Write(e) \/ WriteEnds(e)
  \/ AppendLock \/ append \/ Post

WorkerStep(w) ==
  \/ SemWait(w) \/ Lock(w) \/ Pop(w)
  \/ Process(w) \/ ProcessCloses(w) \/ Forget(w) \/ Uncount(w) \/ Rearm(w)

Next ==
  \/ Connect
  \/ \E f \in Fds : HangUp(f)
  \/ CreateFails
  \/ MainStep
  \/ \E w \in Workers : WorkerStep(w)

Spec == Init /\ [][Next]_vars

\* Every thread goes on.  No fairness of m_queuelocker is needed: a thread that
\* is kept from it is kept from it by others that do its work.
Fairness ==
  /\ WF_vars(MainStep)
  /\ \A w \in Workers : WF_vars(WorkerStep(w))

LiveSpec == Spec /\ Fairness

-----------------------------------------------------------------------------

MainType ==
  [at : {"create", "exit", "loop", "lock", "append", "post"}, fd : Fds \cup {None}]
WorkerType ==
  [at : {"none", "wait", "lock", "pop", "process", "forget", "uncount", "rearm"},
   fd : Fds \cup {None}, seen : Int]
EventType == [fd : Fds \cup {Listen}, ev : {"listen", "hup", "in", "out"}]

ConnTyped ==
  /\ clients \in 0 .. MaxClients /\ backlog \in 0 .. MaxClients
  /\ open \subseteq Fds /\ hup \subseteq open /\ sock \subseteq Fds
  /\ armed \in [Fds -> {"none", "off", "in", "out"}]
  /\ count \in Int /\ refused \subseteq Fds /\ phantom \in Nat
LoopTyped ==
  /\ batch \subseteq EventType /\ main \in MainType
  /\ main.at \in {"lock", "append"} => main.fd \in Fds
PoolTyped ==
  /\ queue \in Seq(Fds) /\ sem \in Nat /\ qlock \in Workers \cup {Main, None}
  /\ worker \in [Workers -> WorkerType]

\* The types of the variables.
TypeOK == ConnTyped /\ LoopTyped /\ PoolTyped /\ overtaken \in BOOLEAN

\* Who may touch connection f next: epoll, an event already fetched, the main
\* thread on its way to append(), places of the queue, workers.
AtEpoll(f) == armed[f] \in {"in", "out"}
EventsOf(f) == {e \in batch : e.fd = f}
PlacesOf(f) == {i \in DOMAIN queue : queue[i] = f}
WorkersOn(f) == {w \in Workers : worker[w].at = "process" /\ worker[w].fd = f}

Holders(f) ==
  {x \in {<<"epoll", f>>} : AtEpoll(f)}
    \cup {<<"event", e>> : e \in EventsOf(f)}
    \cup {x \in {<<"main", f>>} : main.fd = f}
    \cup {<<"queue", i>> : i \in PlacesOf(f)}
    \cup {<<"worker", w>> : w \in WorkersOn(f)}

\* EPOLLONESHOT and modfd hand a connection over: an open connection has
\* exactly one holder, a closed one none.  Two exceptions: a connection that
\* append() refused has no holder any more, for good; and once a descriptor has
\* been opened or closed while a worker was still inside close_conn()/process()
\* for a closed one, nothing is promised.
OneHolder ==
  ~overtaken =>
    \A f \in Fds :
      Cardinality(Holders(f)) = IF f \in open \ refused THEN 1 ELSE 0

\* Workers between the semaphore and the end of their critical section.
LetThrough == {w \in Workers : worker[w].at \in {"lock", "pop"}}

\* The semaphore and the queue agree: every request in the queue has a post,
\* made or about to be made, or a worker already let through for it, so no
\* worker that got the lock finds the queue empty and no request is left without
\* a worker to come, when append() refuses one included.  (How long the queue may
\* become is another question.)
QueueAccounted ==
  Len(queue) = sem + Cardinality(LetThrough) + (IF main.at = "post" THEN 1 ELSE 0)

\* An accept() that is still to be made has a connection to take: the listening
\* socket's event is fetched only with one in the backlog, once, and nobody else
\* accepts.
AcceptHasClient ==
  /\ backlog <= clients
  /\ \A e \in batch : e.ev = "listen" => e.fd = Listen /\ backlog > 0

\* What is proved by induction (module HttpServerProofs).
QueueInvariant == TypeOK /\ AcceptHasClient /\ QueueAccounted

\* Workers that have closed a connection and not written m_user_count yet, and
\* those that have not reset m_sockfd either.
Uncounted == {w \in Workers : worker[w].at \in {"forget", "uncount"}}
Forgetting == {w \in Workers : worker[w].at = "forget"}

\* m_user_count is the number of open connections, of those a worker has closed
\* and not counted off yet, and of the users counted for failed accepts, which
\* nothing takes back; an update is lost only when a worker was overtaken.
UsersCounted ==
  ~overtaken => count = Cardinality(open) + phantom + Cardinality(Uncounted)

\* Why: at most one worker is closing a connection, its view of m_user_count is
\* current, and m_sockfd is set for the open connections and the one it closes.
ClosingAlone ==
  ~overtaken =>
    /\ \A v, w \in Closing : v = w
    /\ \A w \in Uncounted : worker[w].at = "uncount" => worker[w].seen = count
    /\ \A w \in Forgetting : worker[w].fd \notin open
    /\ sock = open \cup {worker[w].fd : w \in Forgetting}

\* What is proved by induction, on top of TypeOK.
CountInvariant == ClosingAlone /\ UsersCounted

\* Nobody holds f; exactly one of the five does, and holds it once.
Unheld(f) ==
  ~AtEpoll(f) /\ EventsOf(f) = {} /\ main.fd # f /\ PlacesOf(f) = {} /\ WorkersOn(f) = {}
HeldOnce(f) ==
  \/ AtEpoll(f) /\ EventsOf(f) = {} /\ main.fd # f /\ PlacesOf(f) = {} /\ WorkersOn(f) = {}
  \/ /\ \E e \in batch : EventsOf(f) = {e}
     /\ ~AtEpoll(f) /\ main.fd # f /\ PlacesOf(f) = {} /\ WorkersOn(f) = {}
  \/ main.fd = f /\ ~AtEpoll(f) /\ EventsOf(f) = {} /\ PlacesOf(f) = {} /\ WorkersOn(f) = {}
  \/ /\ \E i \in DOMAIN queue : PlacesOf(f) = {i}
     /\ ~AtEpoll(f) /\ EventsOf(f) = {} /\ main.fd # f /\ WorkersOn(f) = {}
  \/ /\ \E w \in Workers : WorkersOn(f) = {w}
     /\ ~AtEpoll(f) /\ EventsOf(f) = {} /\ main.fd # f /\ PlacesOf(f) = {}

\* A thread has a descriptor in its hands exactly where the code has one, and
\* an event that is not the listening socket's is a connection's.
HandsTyped ==
  /\ main.at \notin {"lock", "append"} => main.fd = None
  /\ \A e \in batch : e.ev # "listen" => e.fd \in Fds
  /\ \A w \in Workers :
       worker[w].at \in {"process", "forget", "uncount", "rearm"} => worker[w].fd \in Fds

\* Why OneHolder holds: the hand-over itself, and that the last modfd of a worker
\* that has closed its connection finds it closed.
HandOver ==
  ~overtaken =>
    /\ \A f \in Fds : IF f \in open \ refused THEN HeldOnce(f) ELSE Unheld(f)
    /\ \A w \in Closing : worker[w].fd \notin open

\* What is proved by induction, on top of QueueInvariant and CountInvariant.
HolderInvariant == HandsTyped /\ HandOver

\* A connection whose peer has gone is closed, whoever holds it at that time,
\* unless append() refused it.
HangUpCloses ==
  \A f \in Fds : (f \in hup) ~> (f \notin hup \/ f \in refused \/ overtaken)
=============================================================================
