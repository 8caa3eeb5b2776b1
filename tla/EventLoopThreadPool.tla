------------------------ MODULE EventLoopThreadPool ------------------------
(***************************************************************************)
(* Starting and stopping the threads of the sub-loops (src/src/            *)
(* EventLoopThreadPool.cc, EventLoopThread.cc, Thread.cc, and loop() and   *)
(* quit() of EventLoop.cc).  The owner of the pool starts its threads one  *)
(* after the other, each with a semaphore and a condition variable, deals  *)
(* their loops out in turn, and destroys them in the same order.  A critical section of mutex_ is one   *)
(* step; what the destructor reads without the lock is a step of its own.  *)
(***************************************************************************)
EXTENDS Naturals, Sequences

CONSTANTS numThreads,  \* numThreads_
          MaxDeals     \* bound: times getNextLoop returns one loop

ASSUME ThreadsAssumption == numThreads \in Nat
ASSUME DealsAssumption == MaxDeals \in Nat

Worker == 1 .. numThreads

VARIABLES
  owner,    \* where the owner is
  k,        \* the thread it is busy with
  loops,    \* loops_: the threads whose loop startLoop has returned, 0 for null
  next,     \* next_, counted from 1
  dealt,    \* history: times getNextLoop has returned a loop, 0 for baseloop_
  worker,   \* per thread: where it is
  sem,      \* per thread: the semaphore of Thread::start
  tid,      \* per thread: tid_ is set
  loop,     \* per thread: loop_ is not null
  waiting,  \* per thread: the owner waits on cond_
  exists,   \* per thread: its EventLoop has been constructed and not destroyed
  inited,   \* per thread: ThreadInitCallback has returned
  quit,     \* per thread: quit_ of its loop
  eventfd   \* per thread: the wake-up of its loop is pending

threadVars == <<worker, sem, tid, inited>>
loopVars == <<loop, exists, quit, eventfd>>
dealVars == <<next, dealt>>
vars == <<owner, k, loops, dealVars, threadVars, loopVars, waiting>>

OwnerPoint == {"start", "sem", "lock", "wait", "running",
               "dtor", "quit", "wakeup", "join", "gone"}
WorkerPoint == {"none", "spawned", "post", "construct", "callback", "publish",
                "begin", "check", "poll", "clear", "destroy", "done"}

Init ==
  /\ owner = IF numThreads = 0 THEN "running" ELSE "start"
  /\ k = 1
  /\ loops = <<>>
  /\ next = 1
  /\ dealt = [i \in 0 .. numThreads |-> 0]
  /\ worker = [i \in Worker |-> "none"]
  /\ sem = [i \in Worker |-> 0]
  /\ tid = [i \in Worker |-> FALSE]
  /\ loop = [i \in Worker |-> FALSE]
  /\ waiting = [i \in Worker |-> FALSE]
  /\ exists = [i \in Worker |-> FALSE]
  /\ inited = [i \in Worker |-> FALSE]
  /\ quit = [i \in Worker |-> FALSE]
  /\ eventfd = [i \in Worker |-> FALSE]

-----------------------------------------------------------------------------
(* The owner in EventLoopThreadPool::start, EventLoopThread::startLoop.     *)

\* Thread::start creates the thread ...
ThreadStart ==
  /\ owner = "start"
  /\ worker' = [worker EXCEPT ![k] = "spawned"]
  /\ owner' = "sem"
  /\ UNCHANGED <<k, loops, sem, tid, inited, loopVars, waiting, dealVars>>

\* ... and waits on the semaphore until its tid is known.
SemWait ==
  /\ owner = "sem"
  /\ sem[k] > 0
  /\ sem' = [sem EXCEPT ![k] = @ - 1]
  /\ owner' = "lock"
  /\ UNCHANGED <<k, loops, worker, tid, inited, loopVars, waiting, dealVars>>

\* The loop of thread k goes into loops_, and the next thread is started.
Return(ptr) ==
  /\ loops' = Append(loops, ptr)
  /\ owner' = IF k = numThreads THEN "running" ELSE "start"
  /\ k' = IF k = numThreads THEN 1 ELSE k + 1

Wait ==
  /\ owner' = "wait"
  /\ waiting' = [waiting EXCEPT ![k] = TRUE]
  /\ UNCHANGED <<k, loops>>

\* Fault: the thread waits first and looks at loop_ afterwards.
StartLoopWaits ==
  /\ owner = "lock"
  /\ Wait
  /\ UNCHANGED <<threadVars, loopVars, dealVars>>

\* With the lock: loop_, or cond_.wait until there is one.
StartLoop ==
  /\ owner = "lock"
  /\ IF loop[k] THEN Return(k) /\ UNCHANGED waiting ELSE Wait
  /\ UNCHANGED <<threadVars, loopVars, dealVars>>

\* cond_.wait returns, notified or spuriously, and the condition is tested
\* again (in StartLoop).
Woken ==
  /\ owner = "wait"
  /\ waiting' = [waiting EXCEPT ![k] = FALSE]
  /\ owner' = "lock"
  /\ UNCHANGED <<k, loops, threadVars, loopVars, dealVars>>

-----------------------------------------------------------------------------
(* getNextLoop, while the pool runs: TcpServer::newConnection asks it for   *)
(* the loop of each connection.                                             *)

\* Fault: next_ is set back one loop too early.
nextSkipsLast ==
  IF loops = <<>> THEN next ELSE IF next + 1 >= Len(loops) THEN 1 ELSE next + 1

\* next_ afterwards.
nextAfter ==
  IF loops = <<>> THEN next ELSE IF next + 1 > Len(loops) THEN 1 ELSE next + 1

getNextLoop == IF loops = <<>> THEN 0 ELSE loops[next]

Deal ==
  /\ owner = "running"
  /\ dealt[getNextLoop] < MaxDeals
  /\ dealt' = [dealt EXCEPT ![getNextLoop] = @ + 1]
  /\ next' = nextAfter
  /\ UNCHANGED <<owner, k, loops, threadVars, loopVars, waiting>>

-----------------------------------------------------------------------------
(* The owner destroys the pool: ~EventLoopThread for each thread in turn.   *)

StopPool ==
  /\ owner = "running" /\ loops # <<>>
  /\ owner' = "dtor"
  /\ UNCHANGED <<k, loops, threadVars, loopVars, waiting, dealVars>>

\* The members of thread k die and the next thread has its turn.
NextThread ==
  /\ owner' = IF k = numThreads THEN "gone" ELSE "dtor"
  /\ k' = IF k = numThreads THEN k ELSE k + 1

\* exiting_ is set (nobody reads it) and loop_ is read without the lock; when
\* it is null the thread is not joined but detached.
ReadLoop ==
  /\ owner = "dtor"
  /\ IF loop[k] THEN owner' = "quit" /\ UNCHANGED k ELSE NextThread
  /\ UNCHANGED <<loops, threadVars, loopVars, waiting, dealVars>>

\* quit(): the flag ...
SetQuit ==
  /\ owner = "quit"
  /\ quit' = [quit EXCEPT ![k] = TRUE]
  /\ owner' = "wakeup"
  /\ UNCHANGED <<k, loops, threadVars, loop, exists, eventfd, waiting, dealVars>>

\* Fault: quit() does not wake the loop up.
WakeupSkipped ==
  /\ owner = "wakeup"
  /\ owner' = "join"
  /\ UNCHANGED <<k, loops, threadVars, loopVars, waiting, dealVars>>

\* ... and wakeup(), which uses wakeupFd_ of a loop that may be gone.
Wakeup ==
  /\ owner = "wakeup"
  /\ eventfd' = [eventfd EXCEPT ![k] = exists[k]]
  /\ owner' = "join"
  /\ UNCHANGED <<k, loops, threadVars, loop, exists, quit, waiting, dealVars>>

\* Fault: join() is left out, so the members die under the running thread.
JoinSkipped ==
  /\ owner = "join"
  /\ NextThread
  /\ UNCHANGED <<loops, threadVars, loopVars, waiting, dealVars>>

\* thread_.join().
Join ==
  /\ owner = "join"
  /\ worker[k] = "done"
  /\ NextThread
  /\ UNCHANGED <<loops, threadVars, loopVars, waiting, dealVars>>

OwnerStep ==
  \/ ThreadStart \/ SemWait \/ StartLoop \/ Woken
  \/ ReadLoop \/ SetQuit \/ Wakeup \/ Join

-----------------------------------------------------------------------------
(* A thread: the lambda of Thread::start and EventLoopThread::threadFunc_.  *)

Goto(i, from, to) == worker[i] = from /\ worker' = [worker EXCEPT ![i] = to]

SetTid(i) ==
  /\ Goto(i, "spawned", "post")
  /\ tid' = [tid EXCEPT ![i] = TRUE]
  /\ UNCHANGED <<owner, k, loops, sem, inited, loopVars, waiting, dealVars>>

SemPost(i) ==
  /\ Goto(i, "post", "construct")
  /\ sem' = [sem EXCEPT ![i] = @ + 1]
  /\ UNCHANGED <<owner, k, loops, tid, inited, loopVars, waiting, dealVars>>

\* Fault: the pointer is published before the callback has run.
ConstructPublishes(i) ==
  /\ Goto(i, "construct", "callback")
  /\ exists' = [exists EXCEPT ![i] = TRUE]
  /\ loop' = [loop EXCEPT ![i] = TRUE]
  /\ UNCHANGED <<owner, k, loops, sem, tid, inited, quit, eventfd, waiting, dealVars>>

Construct(i) ==
  /\ Goto(i, "construct", "callback")
  /\ exists' = [exists EXCEPT ![i] = TRUE]
  /\ UNCHANGED <<owner, k, loops, sem, tid, inited, loop, quit, eventfd, waiting, dealVars>>

Callback(i) ==
  /\ Goto(i, "callback", "publish")
  /\ inited' = [inited EXCEPT ![i] = TRUE]
  /\ UNCHANGED <<owner, k, loops, sem, tid, loopVars, waiting, dealVars>>

\* With the lock: loop_ = &loop and notify_one.
Publish(i) ==
  /\ Goto(i, "publish", "begin")
  /\ loop' = [loop EXCEPT ![i] = TRUE]
  /\ waiting' = [waiting EXCEPT ![i] = FALSE]
  /\ UNCHANGED <<owner, k, loops, sem, tid, inited, exists, quit, eventfd, dealVars>>

\* loop() starts by clearing quit_.
LoopBegin(i) ==
  /\ Goto(i, "begin", "check")
  /\ quit' = [quit EXCEPT ![i] = FALSE]
  /\ UNCHANGED <<owner, k, loops, sem, tid, inited, loop, exists, eventfd, waiting, dealVars>>

CheckQuit(i) ==
  /\ Goto(i, "check", IF quit[i] THEN "clear" ELSE "poll")
  /\ UNCHANGED <<owner, k, loops, sem, tid, inited, loopVars, waiting, dealVars>>

\* epoll_wait returns and the events and functors are served.
Served(i) ==
  /\ Goto(i, "poll", "check")
  /\ eventfd' = [eventfd EXCEPT ![i] = FALSE]
  /\ UNCHANGED <<owner, k, loops, sem, tid, inited, loop, exists, quit, waiting, dealVars>>

\* With the lock: loop_ = nullptr.
Clear(i) ==
  /\ Goto(i, "clear", "destroy")
  /\ loop' = [loop EXCEPT ![i] = FALSE]
  /\ UNCHANGED <<owner, k, loops, sem, tid, inited, exists, quit, eventfd, waiting, dealVars>>

\* The EventLoop on the thread's stack is destroyed and the thread ends.
DestroyLoop(i) ==
  /\ Goto(i, "destroy", "done")
  /\ exists' = [exists EXCEPT ![i] = FALSE]
  /\ eventfd' = [eventfd EXCEPT ![i] = FALSE]
  /\ UNCHANGED <<owner, k, loops, sem, tid, inited, loop, quit, waiting, dealVars>>

WorkerStep(i) ==
  \/ SetTid(i) \/ SemPost(i) \/ Construct(i) \/ Callback(i) \/ Publish(i)
  \/ LoopBegin(i) \/ CheckQuit(i) \/ Clear(i) \/ DestroyLoop(i)

Next ==
  \/ OwnerStep
  \/ Deal \/ StopPool
  \/ \E i \in Worker : WorkerStep(i) \/ Served(i)

Spec == Init /\ [][Next]_vars

\* Threads are scheduled, except that the owner need not use or stop the pool, a
\* waiter need not wake up before it is notified, and epoll_wait need not
\* return before the eventfd is written.
Fairness ==
  /\ WF_vars(OwnerStep /\ ~(owner = "wait" /\ waiting[k]))
  /\ \A i \in Worker : WF_vars(WorkerStep(i)) /\ WF_vars(Served(i) /\ eventfd[i])

LiveSpec == Spec /\ Fairness

-----------------------------------------------------------------------------
(* Properties.                                                              *)

\* Types: in particular loops_ never holds a null pointer (startLoop's
\* while), a semaphore is posted at most once and next_ stays inside loops_.
TypeOK ==
  /\ owner \in OwnerPoint
  /\ k \in Worker \cup {1}
  /\ loops \in Seq(Worker)
  /\ next \in Worker \cup {1}
  /\ dealt \in [0 .. numThreads -> Nat]
  /\ worker \in [Worker -> WorkerPoint]
  /\ sem \in [Worker -> 0 .. 1]
  /\ tid \in [Worker -> BOOLEAN] /\ inited \in [Worker -> BOOLEAN]
  /\ loop \in [Worker -> BOOLEAN] /\ exists \in [Worker -> BOOLEAN]
  /\ quit \in [Worker -> BOOLEAN] /\ eventfd \in [Worker -> BOOLEAN]
  /\ waiting \in [Worker -> BOOLEAN]

\* Every loop that startLoop has returned exists, belongs to a thread whose
\* tid is known and has been through ThreadInitCallback, until its thread is
\* told to quit: whichever of the owner and the thread reaches mutex_ first,
\* and with spurious wake-ups.
LoopsUsable ==
  \A n \in DOMAIN loops :
    LET i == loops[n] IN
      /\ i = n
      /\ tid[i] /\ inited[i]
      /\ exists[i] \/ quit[i]

\* A thread's object dies only when the thread has ended: while threadFunc_ can
\* still touch mutex_ and loop_, the destructor has not passed thread i.
JoinedBeforeGone ==
  \A i \in Worker :
    (owner = "gone" \/ (owner \in {"dtor", "quit", "wakeup", "join"} /\ i < k))
      => worker[i] = "done"

\* getNextLoop deals the sub-loops out in turn: over any number of rounds, and
\* wherever next_ stands in one, no sub-loop is more than one connection ahead of
\* another.  (Nothing is said of baseloop_.)
Balanced == \A i, j \in Worker : dealt[i] <= dealt[j] + 1

\* What makes these inductive.  The loops before next_ have been dealt once more
\* than the others ...
Turn(i) == IF i < next THEN 1 ELSE 0
InTurn == \A i, j \in Worker : dealt[i] + Turn(j) = dealt[j] + Turn(i)

\* ... the loops are returned in order, thread k
\* being the one in hand ...
Starting == owner \in {"start", "sem", "lock", "wait"}
InOrder ==
  /\ Len(loops) = IF Starting THEN k - 1 ELSE numThreads
  /\ \A n \in DOMAIN loops : loops[n] = n
  /\ \A i \in Worker : Starting /\ i > k => worker[i] = "none"
  /\ owner = "start" => worker[k] = "none" /\ sem[k] = 0
  /\ ~Starting /\ owner # "running" => k \in Worker
  /\ Starting => k \in Worker
  /\ owner = "running" => k = 1

\* ... what a thread has done is what its position says ...
WorkerState ==
  \A i \in Worker :
    /\ tid[i] <=> worker[i] \notin {"none", "spawned"}
    /\ inited[i] <=> worker[i] \notin {"none", "spawned", "post", "construct", "callback"}
    /\ exists[i] <=> worker[i] \in {"callback", "publish", "begin", "check", "poll",
                                    "clear", "destroy"}
    /\ loop[i] <=> worker[i] \in {"begin", "check", "poll", "clear"}
    /\ worker[i] \in {"none", "spawned", "post"} => sem[i] = 0

\* ... and a loop is left only after quit(), which only the destructor calls.
Quitting ==
  \A i \in Worker :
    /\ worker[i] \in {"clear", "destroy", "done"} => quit[i]
    /\ quit[i] => \/ owner \in {"dtor", "quit", "wakeup", "join", "gone"} /\ i < k
                  \/ owner \in {"wakeup", "join", "gone"} /\ i = k
    /\ i <= Len(loops) => worker[i] \in {"begin", "check", "poll", "clear", "destroy", "done"}

\* The inductive invariant of startLoop, threadFunc_ and the destructor.
PoolInvariant ==
  /\ TypeOK
  /\ InTurn
  /\ InOrder
  /\ WorkerState
  /\ Quitting
  /\ JoinedBeforeGone

\* EventLoopThreadPool::start returns: the notification is not lost.
StartReturns == <>(Len(loops) = numThreads)

\* A thread whose loop() is already running when quit() comes is joined,
\* blocked in epoll_wait or not.
RunningIsJoined ==
  \A i \in Worker :
    (owner = "join" /\ k = i /\ quit[i] /\ worker[i] # "begin") ~> (owner = "gone" \/ k > i)
=============================================================================
