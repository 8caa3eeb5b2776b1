--------------------------- MODULE HttpServerProofs ---------------------------
(***************************************************************************)
(* For any number of descriptors, workers and clients and any limit of the *)
(* queue: the types of HttpServer, a client for every accept() that is     *)
(* still to be made, the agreement of the pool's semaphore with its queue, *)
(* m_user_count, and one holder for every connection.                      *)
(***************************************************************************)
EXTENDS HttpServer, FiniteSetTheorems, TLAPS

\* The workers let through by the semaphore are finitely many.
LEMMA ThroughFinite ==
  IsFiniteSet(LetThrough) /\ Cardinality(LetThrough) \in Nat
<1>1. IsFiniteSet(LetThrough)
  BY ServerAssumption, FS_Subset DEF LetThrough
<1> QED
  BY <1>1, FS_CardinalityType

\* Initially nothing is queued and no worker exists.
LEMMA QueueInit == Init => QueueInvariant
<1> SUFFICES ASSUME Init PROVE QueueInvariant
  OBVIOUS
<1> USE ServerAssumption DEF Init
<1>1. TypeOK
  <2>1. ConnTyped /\ LoopTyped
    BY DEF ConnTyped, LoopTyped, MainType
  <2>2. PoolTyped
    BY DEF PoolTyped, WorkerType, Idle
  <2> QED
    BY <2>1, <2>2 DEF TypeOK
<1>2. AcceptHasClient
  BY DEF AcceptHasClient
<1>3. LetThrough = {}
  BY DEF LetThrough, Idle
<1>4. QueueAccounted
  BY <1>3, FS_EmptySet DEF QueueAccounted
<1> QED
  BY <1>1, <1>2, <1>4 DEF QueueInvariant

\* The connections, their registrations and the counters keep their types.
LEMMA ConnStep == TypeOK /\ AcceptHasClient /\ [Next]_vars => ConnTyped'
<1> SUFFICES ASSUME TypeOK, AcceptHasClient, [Next]_vars PROVE ConnTyped'
  OBVIOUS
<1> USE DEF TypeOK, ConnTyped, clientVars, connVars, history
<1>1. CASE Connect
  BY <1>1, ServerAssumption DEF Connect, AcceptHasClient
<1>2. ASSUME NEW f \in Fds, HangUp(f) PROVE ConnTyped'
  BY <1>2 DEF HangUp
<1>3. CASE EpollWait
  BY <1>3 DEF EpollWait
<1>4. ASSUME NEW e \in batch, Accept(e) PROVE ConnTyped'
  <2>1. backlog' \in 0 .. MaxClients
    BY <1>4, ServerAssumption DEF Accept, AcceptHasClient
  <2>2. PICK f \in Fds \ open : \/ UNCHANGED <<connVars, history>>
                                \/ init(f) /\ refused' = refused \ {f} /\ UNCHANGED phantom
    BY <1>4 DEF Accept
  <2> QED
    BY <1>4, <2>1, <2>2 DEF Accept, init
<1>5. ASSUME NEW e \in batch, AcceptFails(e) PROVE ConnTyped'
  BY <1>5 DEF AcceptFails
<1>6. ASSUME NEW f, close_conn(f) PROVE ConnTyped'
  BY <1>6 DEF close_conn
<1>7. ASSUME NEW f, NEW ev \in {"in", "out"}, armed' = modfd(f, ev),
             UNCHANGED <<clientVars, open, sock, count, history>>
      PROVE  ConnTyped'
  BY <1>7 DEF modfd
<1>8. ASSUME NEW w \in Workers, ProcessCloses(w) PROVE ConnTyped'
  BY <1>8 DEF ProcessCloses
<1>9. ASSUME NEW w \in Workers, Forget(w) PROVE ConnTyped'
  BY <1>9 DEF Forget
<1>10. ASSUME NEW w \in Workers, Uncount(w) PROVE ConnTyped'
  BY <1>10 DEF Uncount, PoolTyped, WorkerType
<1>11. CASE append
  BY <1>11 DEF append, LoopTyped, MainType
<1>12. CASE UNCHANGED <<clientVars, connVars, refused, phantom>>
  BY <1>12
<1> QED
  BY <1>1, <1>2, <1>3, <1>4, <1>5, <1>6, <1>7, <1>8, <1>9, <1>10, <1>11, <1>12
     DEF Next, MainStep, WorkerStep, CreateThread, CreateFails, PeerGone, Read, ReadFails,
         Write, WriteEnds, AppendLock, Post, SemWait, Lock, Pop, Process, Rearm, vars

\* The main thread and the events it has fetched; every accept() to come has a
\* client.
LEMMA MainThreadStep ==
  TypeOK /\ AcceptHasClient /\ [Next]_vars => LoopTyped' /\ AcceptHasClient'
<1> SUFFICES ASSUME TypeOK, AcceptHasClient, [Next]_vars
             PROVE  LoopTyped' /\ AcceptHasClient'
  OBVIOUS
<1> USE DEF TypeOK, LoopTyped, AcceptHasClient, MainType, clientVars, Loop
<1>1. CASE Connect
  BY <1>1 DEF Connect, ConnTyped
<1>2. ASSUME NEW w \in Workers, CreateThread(w) PROVE LoopTyped' /\ AcceptHasClient'
  BY <1>2 DEF CreateThread
<1>3. CASE CreateFails
  BY <1>3 DEF CreateFails
<1>4. CASE EpollWait
  <2>1. PICK some \in SUBSET Perhaps :
          batch' = {[fd |-> f, ev |-> Event(f)] :
                      f \in Gone \cup some \cup {f \in {Listen} : backlog > 0}}
    BY <1>4 DEF EpollWait
  <2>2. \A f \in Gone \cup some \cup {f \in {Listen} : backlog > 0} :
          \/ f \in Fds /\ Event(f) \in {"hup", "in", "out"}
          \/ f = Listen /\ Event(f) = "listen" /\ backlog > 0
    BY ServerAssumption DEF Gone, Perhaps, Event, ConnTyped
  <2>3. \A e \in batch' : /\ e \in EventType
                          /\ e.ev = "listen" => e.fd = Listen /\ backlog > 0
    BY <2>1, <2>2 DEF EventType
  <2> QED
    BY <1>4, <2>3 DEF EpollWait
<1>5. ASSUME NEW e \in batch, Accept(e) PROVE LoopTyped' /\ AcceptHasClient'
  <2>1. \A d \in batch' : d.ev # "listen"
    BY <1>5 DEF Accept, Take, EventType
  <2>2. backlog' <= clients'
    BY <1>5 DEF Accept, ConnTyped
  <2> QED
    BY <1>5, <2>1, <2>2 DEF Accept, Take
<1>6. ASSUME NEW e \in batch, Take(e), UNCHANGED <<clients, backlog>>,
             main' = main \/ \E f \in Fds : main' = [at |-> "lock", fd |-> f]
      PROVE  LoopTyped' /\ AcceptHasClient'
  BY <1>6 DEF Take
<1>7. CASE AppendLock
  BY <1>7 DEF AppendLock
<1>8. CASE append
  BY <1>8 DEF append
<1>9. CASE Post
  BY <1>9 DEF Post
<1>10. CASE UNCHANGED <<clients, backlog, batch, main>>
  BY <1>10
<1>11. ASSUME NEW w \in Workers, WorkerStep(w) PROVE UNCHANGED <<clients, backlog, batch, main>>
  BY <1>11 DEF WorkerStep, SemWait, Lock, Pop, Process, ProcessCloses, Forget, Uncount, Rearm
<1>12. ASSUME NEW e \in batch,
              \/ AcceptFails(e) \/ PeerGone(e) \/ Read(e) \/ ReadFails(e)
              \/ Write(e) \/ WriteEnds(e)
       PROVE  /\ Take(e) /\ UNCHANGED <<clients, backlog>>
              /\ main' = main \/ \E f \in Fds : main' = [at |-> "lock", fd |-> f]
  BY <1>12 DEF AcceptFails, PeerGone, Read, ReadFails, Write, WriteEnds, close_conn, ConnTyped
<1> QED
  BY <1>1, <1>2, <1>3, <1>4, <1>5, <1>6, <1>7, <1>8, <1>9, <1>10, <1>11, <1>12
     DEF Next, MainStep, HangUp, vars

\* The queue, the lock, the semaphore and the workers keep their types.
LEMMA PoolTypeStep == TypeOK /\ [Next]_vars => PoolTyped'
<1> SUFFICES ASSUME TypeOK, [Next]_vars PROVE PoolTyped'
  OBVIOUS
<1> USE DEF TypeOK, PoolTyped, WorkerType, Idle, poolVars, lock, unlock, wait, post
<1>1. ASSUME NEW w \in Workers, CreateThread(w) PROVE PoolTyped'
  BY <1>1 DEF CreateThread
<1>2. CASE AppendLock
  BY <1>2 DEF AppendLock
<1>3. CASE append
  <2>1. CASE Len(queue) > m_max_requests
    BY <1>3, <2>1 DEF append
  <2>2. CASE ~(Len(queue) > m_max_requests)
    <3>1. main.fd \in Fds
      BY <1>3 DEF append, LoopTyped
    <3>2. queue' \in Seq(Fds)
      BY <1>3, <2>2, <3>1 DEF append
    <3> QED
      BY <1>3, <3>2 DEF append
  <2> QED
    BY <2>1, <2>2
<1>4. CASE Post
  BY <1>4 DEF Post
<1>5. ASSUME NEW w \in Workers, SemWait(w) PROVE PoolTyped'
  <2>1. sem' \in Nat /\ UNCHANGED <<queue, qlock>>
    BY <1>5 DEF SemWait
  <2>2. worker' \in [Workers -> WorkerType]
    BY <1>5 DEF SemWait
  <2> QED
    BY <2>1, <2>2
<1>6. ASSUME NEW w \in Workers, Lock(w) PROVE PoolTyped'
  BY <1>6 DEF Lock
<1>7. ASSUME NEW w \in Workers, Pop(w) PROVE PoolTyped'
  <2>1. CASE queue = <<>>
    BY <1>7, <2>1 DEF Pop
  <2>2. CASE queue # <<>>
    <3>1. Head(queue) \in Fds /\ Tail(queue) \in Seq(Fds)
      BY <2>2
    <3>2. PICK x \in WorkerType : worker' = [worker EXCEPT ![w] = x]
      <4>1. [worker[w] EXCEPT !.at = "process", !.fd = Head(queue)] \in WorkerType
        BY <3>1
      <4> QED
        BY <1>7, <2>2, <4>1 DEF Pop
    <3> QED
      BY <1>7, <2>2, <3>1, <3>2 DEF Pop
  <2> QED
    BY <2>1, <2>2
<1>8. ASSUME NEW w \in Workers, Process(w) \/ Rearm(w) PROVE PoolTyped'
  <2>1. worker' = [worker EXCEPT ![w] = Idle] /\ UNCHANGED <<queue, qlock, sem>>
    BY <1>8 DEF Process, Rearm
  <2>2. Idle \in WorkerType
    OBVIOUS
  <2> QED
    BY <2>1, <2>2
<1>9. ASSUME NEW w \in Workers, ProcessCloses(w) \/ Uncount(w) PROVE PoolTyped'
  <2>1. UNCHANGED <<queue, qlock, sem>>
    BY <1>9 DEF ProcessCloses, Uncount
  <2>2. PICK p \in {"forget", "rearm"} : worker' = [worker EXCEPT ![w].at = p]
    BY <1>9 DEF ProcessCloses, Uncount
  <2>3. worker' \in [Workers -> WorkerType]
    BY <2>2
  <2> QED
    BY <2>1, <2>3
<1>10. ASSUME NEW w \in Workers, Forget(w) PROVE PoolTyped'
  <2>1. UNCHANGED <<queue, qlock, sem>>
    BY <1>10 DEF Forget
  <2>2. worker' = [worker EXCEPT ![w].at = "uncount", ![w].seen = count] /\ count \in Int
    BY <1>10 DEF Forget, ConnTyped
  <2>3. worker' \in [Workers -> WorkerType]
    BY <2>2
  <2> QED
    BY <2>1, <2>3
<1>11. CASE UNCHANGED poolVars
  BY <1>11
<1> QED
  BY <1>1, <1>2, <1>3, <1>4, <1>5, <1>6, <1>7, <1>8, <1>9, <1>10, <1>11
     DEF Next, MainStep, WorkerStep, Connect, HangUp, CreateFails, EpollWait, Take, Accept,
         AcceptFails, PeerGone, Read, ReadFails, Write, WriteEnds, vars

\* overtaken is a Boolean.
LEMMA FlagStep == TypeOK /\ [Next]_vars => overtaken' \in BOOLEAN
<1> SUFFICES ASSUME TypeOK, [Next]_vars PROVE overtaken' \in BOOLEAN
  OBVIOUS
<1>1. overtaken' = overtaken \/ Touched
  BY DEF Next, MainStep, WorkerStep, Connect, HangUp, CreateThread, CreateFails, EpollWait,
         Accept, AcceptFails, close_conn, PeerGone, Read, ReadFails, Write, WriteEnds,
         AppendLock, append, Post, SemWait, Lock, Pop, Process, ProcessCloses, Forget,
         Uncount, Rearm, history, vars
<1> QED
  BY <1>1, Zenon DEF Touched, TypeOK

\* A worker passes the semaphore: one more is let through.
LEMMA ThroughMore ==
  ASSUME NEW w, w \notin LetThrough, LetThrough' = LetThrough \cup {w}
  PROVE  Cardinality(LetThrough') = Cardinality(LetThrough) + 1
  BY ThroughFinite, FS_AddElement

\* A worker leaves its critical section: one less.
LEMMA ThroughLess ==
  ASSUME NEW w, w \in LetThrough, LetThrough' = LetThrough \ {w}
  PROVE  /\ Cardinality(LetThrough') = Cardinality(LetThrough) - 1
         /\ Cardinality(LetThrough) > 0
<1>1. Cardinality(LetThrough') = Cardinality(LetThrough) - 1
  BY ThroughFinite, FS_RemoveElement
<1>2. Cardinality(LetThrough) # 0
  BY ThroughFinite, FS_EmptySet
<1> QED
  BY <1>1, <1>2, ThroughFinite

\* Push and post, wait and pop keep the semaphore and the queue in agreement.
LEMMA QueueStep ==
  TypeOK /\ QueueAccounted /\ [Next]_vars => QueueAccounted'
<1> SUFFICES ASSUME TypeOK, QueueAccounted, [Next]_vars PROVE QueueAccounted'
  OBVIOUS
<1>a. /\ sem \in Nat /\ Len(queue) \in Nat /\ Cardinality(LetThrough) \in Nat
      /\ m_max_requests \in Nat
  BY ThroughFinite, ServerAssumption DEF TypeOK, PoolTyped
<1> USE DEF QueueAccounted
<1>1. ASSUME NEW w \in Workers, CreateThread(w) PROVE QueueAccounted'
  <2>1. LetThrough' = LetThrough
    BY <1>1 DEF CreateThread, LetThrough, Idle, TypeOK, PoolTyped, WorkerType
  <2>2. main.at # "post" /\ main'.at # "post" /\ UNCHANGED <<sem, queue>>
    BY <1>1 DEF CreateThread, Loop
  <2> QED
    BY <2>1, <2>2
<1>2. CASE AppendLock
  <2>1. main.at # "post" /\ main'.at # "post" /\ UNCHANGED <<sem, queue, worker>>
    BY <1>2 DEF AppendLock, TypeOK, LoopTyped, MainType
  <2> QED
    BY <2>1 DEF LetThrough
<1>3. CASE append
  <2>1. main.at # "post" /\ UNCHANGED <<sem, worker>>
    BY <1>3 DEF append
  <2>2. CASE Len(queue) > m_max_requests
    BY <1>3, <2>1, <2>2 DEF append, Loop, LetThrough
  <2>3. CASE ~(Len(queue) > m_max_requests)
    <3>1. queue' = Append(queue, main.fd) /\ main'.at = "post"
      BY <1>3, <2>3 DEF append
    <3>2. Len(queue') = Len(queue) + 1
      BY <3>1 DEF TypeOK, PoolTyped
    <3>3. LetThrough' = LetThrough
      BY <2>1 DEF LetThrough
    <3> QED
      BY <1>a, <2>1, <2>3, <3>1, <3>2, <3>3
  <2> QED
    BY <2>2, <2>3
<1>4. CASE Post
  <2>1. main.at = "post" /\ main'.at # "post" /\ sem' = sem + 1 /\ UNCHANGED <<queue, worker>>
    BY <1>4 DEF Post, post, Loop
  <2>2. LetThrough' = LetThrough
    BY <2>1 DEF LetThrough
  <2> QED
    BY <1>a, <2>1, <2>2
<1>5. ASSUME NEW w \in Workers, SemWait(w) PROVE QueueAccounted'
  <2>1. sem' = sem - 1 /\ UNCHANGED <<queue, main>>
    BY <1>5 DEF SemWait, wait
  <2>2. w \notin LetThrough /\ LetThrough' = LetThrough \cup {w}
    BY <1>5 DEF SemWait, LetThrough, TypeOK, PoolTyped, WorkerType
  <2>3. Cardinality(LetThrough') = Cardinality(LetThrough) + 1
    BY <2>2, ThroughMore
  <2> QED
    BY <1>a, <2>1, <2>3
<1>6. ASSUME NEW w \in Workers, Lock(w) PROVE QueueAccounted'
  <2>1. LetThrough' = LetThrough /\ UNCHANGED <<queue, main, sem>>
    BY <1>6 DEF Lock, LetThrough, TypeOK, PoolTyped, WorkerType
  <2> QED
    BY <2>1
<1>7. ASSUME NEW w \in Workers, Pop(w) PROVE QueueAccounted'
  <2>1. w \in LetThrough /\ LetThrough' = LetThrough \ {w}
    BY <1>7 DEF Pop, LetThrough, Idle, TypeOK, PoolTyped, WorkerType
  <2>2. queue # <<>>
    BY <1>a, <2>1, ThroughLess
  <2>3. Len(queue') = Len(queue) - 1 /\ UNCHANGED <<sem, main>>
    BY <1>7, <2>2 DEF Pop, TypeOK, PoolTyped
  <2>4. Cardinality(LetThrough') = Cardinality(LetThrough) - 1
    BY <2>1, ThroughLess
  <2> QED
    BY <1>a, <2>3, <2>4
<1>8. ASSUME NEW w \in Workers,
             Process(w) \/ ProcessCloses(w) \/ Forget(w) \/ Uncount(w) \/ Rearm(w)
      PROVE  QueueAccounted'
  <2>1. UNCHANGED <<queue, main, sem>>
    BY <1>8 DEF Process, ProcessCloses, Forget, Uncount, Rearm
  <2>2. w \notin LetThrough
    BY <1>8 DEF Process, ProcessCloses, Forget, Uncount, Rearm, LetThrough
  <2>3. worker'[w].at \notin {"lock", "pop"} /\ \A v \in Workers \ {w} : worker'[v] = worker[v]
    <3>1. CASE Process(w) \/ Rearm(w)
      BY <3>1 DEF Process, Rearm, Idle, TypeOK, PoolTyped
    <3>2. CASE ProcessCloses(w) \/ Uncount(w)
      BY <3>2 DEF ProcessCloses, Uncount, TypeOK, PoolTyped, WorkerType
    <3>3. CASE Forget(w)
      BY <3>3 DEF Forget, TypeOK, PoolTyped, WorkerType
    <3> QED
      BY <1>8, <3>1, <3>2, <3>3
  <2>4. LetThrough' = LetThrough
    BY <2>2, <2>3 DEF LetThrough
  <2> QED
    BY <2>1, <2>4
<1>9. CASE UNCHANGED poolVars /\ (main.at = "post" <=> main'.at = "post")
  BY <1>9 DEF poolVars, LetThrough
<1>10. ASSUME NEW e \in batch,
              \/ Accept(e) \/ AcceptFails(e) \/ PeerGone(e) \/ Read(e) \/ ReadFails(e)
              \/ Write(e) \/ WriteEnds(e)
       PROVE  UNCHANGED poolVars /\ (main.at = "post" <=> main'.at = "post")
  BY <1>10 DEF Accept, AcceptFails, PeerGone, Read, ReadFails, Write, WriteEnds, Take, Loop
<1>11. ASSUME Connect \/ (\E f \in Fds : HangUp(f)) \/ CreateFails \/ EpollWait \/ UNCHANGED vars
       PROVE  UNCHANGED poolVars /\ (main.at = "post" <=> main'.at = "post")
  BY <1>11 DEF Connect, HangUp, CreateFails, EpollWait, vars, TypeOK, LoopTyped, MainType
<1> QED
  BY <1>1, <1>2, <1>3, <1>4, <1>5, <1>6, <1>7, <1>8, <1>9, <1>10, <1>11
     DEF Next, MainStep, WorkerStep

\* The inductive invariant of the main loop and the worker pool together.
THEOREM QueueCorrect == Spec => []QueueInvariant
<1>1. QueueInvariant /\ [Next]_vars => QueueInvariant'
  BY ConnStep, MainThreadStep, PoolTypeStep, FlagStep, QueueStep DEF QueueInvariant, TypeOK
<1> QED
  BY <1>1, QueueInit, PTL DEF Spec

\* The variables of the HTTP server keep their types for any number of
\* descriptors, workers and clients.
THEOREM ServerTypes == Spec => []TypeOK
<1>1. QueueInvariant => TypeOK
  BY DEF QueueInvariant
<1> QED
  BY <1>1, QueueCorrect, PTL

\* threadpool::append and run: every request in the queue has its post or its
\* worker, and no worker that was let through finds the queue empty.
THEOREM QueueAgreesWithSemaphore == Spec => []QueueAccounted
<1>1. QueueInvariant => QueueAccounted
  BY DEF QueueInvariant
<1> QED
  BY <1>1, QueueCorrect, PTL

-----------------------------------------------------------------------------
(* m_user_count.                                                            *)

\* Nothing un-overtakes a worker, and an opening or a closing that overtakes
\* none finds none closing.
LEMMA Untouched ==
  ASSUME TypeOK, [Next]_vars, ~overtaken'
  PROVE  ~overtaken /\ (Touched => Closing = {})
<1>1. overtaken' = overtaken \/ Touched
  BY DEF Next, MainStep, WorkerStep, Connect, HangUp, CreateThread, CreateFails, EpollWait,
         Accept, AcceptFails, close_conn, PeerGone, Read, ReadFails, Write, WriteEnds,
         AppendLock, append, Post, SemWait, Lock, Pop, Process, ProcessCloses, Forget,
         Uncount, Rearm, history, vars
<1> QED
  BY <1>1, Zenon DEF Touched, TypeOK

\* Closing workers are among the finitely many workers.
LEMMA CountFinite ==
  ASSUME TypeOK
  PROVE  /\ IsFiniteSet(open) /\ Cardinality(open) \in Nat
         /\ IsFiniteSet(Uncounted) /\ Cardinality(Uncounted) \in Nat
<1>1. IsFiniteSet(open) /\ IsFiniteSet(Uncounted)
  BY ServerAssumption, FS_Subset DEF TypeOK, ConnTyped, Uncounted
<1> QED
  BY <1>1, FS_CardinalityType

\* A step that changes no connection, no counter and no closing worker.
LEMMA QuietStep ==
  ASSUME TypeOK, CountInvariant, ~overtaken, UNCHANGED <<open, sock, count, phantom>>,
         \A w \in Workers :
            worker'[w] = worker[w]
              \/ (w \notin Closing /\ worker'[w].at \notin {"forget", "uncount", "rearm"})
  PROVE  CountInvariant'
<1>1. Closing' = Closing /\ Uncounted' = Uncounted /\ Forgetting' = Forgetting
  BY DEF Closing, Uncounted, Forgetting
<1>2. \A w \in Closing : worker'[w] = worker[w]
  BY DEF Closing
<1>3. Uncounted \subseteq Closing /\ Forgetting \subseteq Closing
  BY DEF Closing, Uncounted, Forgetting
<1>4. {worker'[w].fd : w \in Forgetting'} = {worker[w].fd : w \in Forgetting}
  BY <1>1, <1>2, <1>3
<1>5. ClosingAlone'
  BY <1>1, <1>2, <1>3, <1>4 DEF CountInvariant, ClosingAlone
<1>6. UsersCounted'
  BY <1>1 DEF CountInvariant, UsersCounted
<1> QED
  BY <1>5, <1>6 DEF CountInvariant

\* A step of the main thread that opens or closes a connection, or counts one,
\* while no worker is closing any.
LEMMA MainCounts ==
  ASSUME TypeOK, CountInvariant, ~overtaken, Closing = {}, UNCHANGED worker,
         sock' = open',
         count' - count = (Cardinality(open') - Cardinality(open)) + (phantom' - phantom),
         count' \in Int, phantom' \in Int, Cardinality(open') \in Int
  PROVE  CountInvariant'
<1>1. Closing' = {} /\ Uncounted = {} /\ Uncounted' = {} /\ Forgetting' = {}
  BY DEF Closing, Uncounted, Forgetting
<1>2. ClosingAlone'
  BY <1>1 DEF ClosingAlone
<1>3. UsersCounted'
  <2>1. count \in Int /\ phantom \in Int /\ Cardinality(open) \in Int
    BY CountFinite DEF TypeOK, ConnTyped
  <2>2. Cardinality(Uncounted) = 0 /\ Cardinality(Uncounted') = 0
    BY <1>1, FS_EmptySet
  <2>3. count = Cardinality(open) + phantom
    BY <2>1, <2>2 DEF CountInvariant, UsersCounted
  <2>4. count' = Cardinality(open') + phantom'
    BY <2>1, <2>3
  <2> QED
    BY <2>2, <2>4 DEF UsersCounted
<1> QED
  BY <1>2, <1>3 DEF CountInvariant

\* Every action keeps m_user_count exact, unless a worker is overtaken.
LEMMA CountStep == TypeOK /\ CountInvariant /\ [Next]_vars => CountInvariant'
<1> SUFFICES ASSUME TypeOK, CountInvariant, [Next]_vars PROVE CountInvariant'
  OBVIOUS
<1>1. CASE overtaken'
  BY <1>1 DEF CountInvariant, ClosingAlone, UsersCounted
<1> SUFFICES ASSUME ~overtaken' PROVE CountInvariant'
  BY <1>1
<1>2. ~overtaken /\ (Touched => Closing = {})
  BY Untouched
<1>3. ASSUME NEW w \in Workers, CreateThread(w) \/ SemWait(w) \/ Lock(w) \/ Pop(w) \/ Process(w)
      PROVE  CountInvariant'
  <2>1. UNCHANGED <<open, sock, count, phantom>>
    BY <1>3 DEF CreateThread, SemWait, Lock, Pop, Process, connVars, history
  <2>2. w \notin Closing
    BY <1>3 DEF CreateThread, SemWait, Lock, Pop, Process, Closing
  <2>3. /\ worker'[w].at \notin {"forget", "uncount", "rearm"}
        /\ \A v \in Workers \ {w} : worker'[v] = worker[v]
    <3>1. CASE CreateThread(w) \/ Process(w)
      BY <3>1 DEF CreateThread, Process, Idle, TypeOK, PoolTyped
    <3>2. CASE SemWait(w) \/ Lock(w)
      BY <3>2 DEF SemWait, Lock, TypeOK, PoolTyped, WorkerType
    <3>3. CASE Pop(w)
      BY <3>3 DEF Pop, Idle, TypeOK, PoolTyped, WorkerType
    <3> QED
      BY <1>3, <3>1, <3>2, <3>3
  <2> QED
    BY <1>2, <2>1, <2>2, <2>3, QuietStep
<1>4. CASE UNCHANGED <<open, sock, count, phantom, worker>>
  BY <1>2, <1>4, QuietStep
<1>5. ASSUME NEW e \in batch, Accept(e) PROVE CountInvariant'
  <2>1. CASE UNCHANGED <<connVars, history>>
    BY <1>4, <1>5, <2>1 DEF Accept, Take, connVars, history, poolVars
  <2>2. ASSUME NEW f \in Fds \ open, init(f), Touched, UNCHANGED phantom
        PROVE  CountInvariant'
    <3>1. Closing = {} /\ UNCHANGED worker
      BY <1>2, <1>5, <2>2 DEF Accept, Take, poolVars
    <3>2. sock = open
      BY <1>2, <3>1 DEF CountInvariant, ClosingAlone, Forgetting, Closing
    <3>3. sock' = open' /\ open' = open \cup {f} /\ count' = count + 1
      BY <2>2, <3>2 DEF init
    <3>4. Cardinality(open') = Cardinality(open) + 1
      BY <3>3, CountFinite, FS_AddElement
    <3> QED
      BY <1>2, <2>2, <3>1, <3>3, <3>4, CountFinite, MainCounts DEF TypeOK, ConnTyped
  <2> QED
    BY <1>5, <2>1, <2>2 DEF Accept
<1>6. ASSUME NEW e \in batch, AcceptFails(e) PROVE CountInvariant'
  <2>1. CASE UNCHANGED <<count, history>>
    BY <1>4, <1>6, <2>1 DEF AcceptFails, Take, history, poolVars
  <2>2. CASE count' = count + 1 /\ phantom' = phantom + 1 /\ Touched
    <3>1. Closing = {} /\ UNCHANGED <<worker, open, sock>>
      BY <1>2, <1>6, <2>2 DEF AcceptFails, Take, poolVars
    <3>2. sock = open
      BY <1>2, <3>1 DEF CountInvariant, ClosingAlone, Forgetting, Closing
    <3> QED
      BY <1>2, <2>2, <3>1, <3>2, CountFinite, MainCounts DEF TypeOK, ConnTyped
  <2> QED
    BY <1>6, <2>1, <2>2 DEF AcceptFails
<1>7. ASSUME NEW f, close_conn(f), UNCHANGED poolVars PROVE CountInvariant'
  <2>1. CASE f \notin sock
    BY <1>4, <1>7, <2>1 DEF close_conn, connVars, poolVars
  <2>2. CASE f \in sock
    <3>1. Closing = {} /\ UNCHANGED <<worker, phantom>>
      BY <1>2, <1>7, <2>2 DEF close_conn, poolVars
    <3>2. sock = open
      BY <1>2, <3>1 DEF CountInvariant, ClosingAlone, Forgetting, Closing
    <3>3. sock' = open' /\ open' = open \ {f} /\ count' = count - 1
      BY <1>7, <2>2, <3>2 DEF close_conn
    <3>4. Cardinality(open') = Cardinality(open) - 1
      BY <2>2, <3>2, <3>3, CountFinite, FS_RemoveElement
    <3> QED
      BY <1>2, <3>1, <3>3, <3>4, CountFinite, MainCounts DEF TypeOK, ConnTyped
  <2> QED
    BY <2>1, <2>2
<1>8. ASSUME NEW w \in Workers, ProcessCloses(w) PROVE CountInvariant'
  <2>1. Closing = {}
    BY <1>2, <1>8 DEF ProcessCloses
  <2>2. sock = open /\ Uncounted = {}
    BY <1>2, <2>1 DEF CountInvariant, ClosingAlone, Forgetting, Closing, Uncounted
  <2>3. /\ worker'[w].at = "forget" /\ worker'[w].fd = worker[w].fd
        /\ \A v \in Workers \ {w} : worker'[v] = worker[v]
    BY <1>8 DEF ProcessCloses, TypeOK, PoolTyped, WorkerType
  <2>4. Closing' = {w} /\ Uncounted' = {w} /\ Forgetting' = {w}
    BY <2>1, <2>3 DEF Closing, Uncounted, Forgetting
  <2>5. /\ worker[w].fd \in open /\ open' = open \ {worker[w].fd}
        /\ UNCHANGED <<sock, count, phantom>>
    BY <1>8, <2>2 DEF ProcessCloses
  <2>6. ClosingAlone'
    BY <2>2, <2>3, <2>4, <2>5 DEF ClosingAlone
  <2>7. Cardinality(open') = Cardinality(open) - 1
    BY <2>5, CountFinite, FS_RemoveElement
  <2>8. Cardinality(Uncounted) = 0 /\ Cardinality(Uncounted') = 1
    BY <2>2, <2>4, FS_EmptySet, FS_Singleton
  <2>9. UsersCounted'
    BY <1>2, <2>5, <2>7, <2>8, CountFinite DEF CountInvariant, UsersCounted, TypeOK, ConnTyped
  <2> QED
    BY <2>6, <2>9 DEF CountInvariant
<1>9. ASSUME NEW w \in Workers, Forget(w) PROVE CountInvariant'
  <2>1. w \in Closing /\ w \in Uncounted /\ w \in Forgetting
    BY <1>9 DEF Forget, Closing, Uncounted, Forgetting
  <2>2. /\ worker'[w].at = "uncount" /\ worker'[w].seen = count
        /\ \A v \in Workers \ {w} : worker'[v] = worker[v]
    BY <1>9 DEF Forget, TypeOK, PoolTyped, WorkerType
  <2>3. \A v \in Closing : v = w
    BY <1>2, <2>1 DEF CountInvariant, ClosingAlone
  <2>4. Closing' = Closing /\ Uncounted' = Uncounted /\ Forgetting = {w} /\ Forgetting' = {}
    BY <2>1, <2>2, <2>3 DEF Closing, Uncounted, Forgetting
  <2>5. sock = open \cup {worker[w].fd} /\ worker[w].fd \notin open
    BY <1>2, <2>4 DEF CountInvariant, ClosingAlone
  <2>6. sock' = open' /\ UNCHANGED <<open, count, phantom>>
    BY <1>9, <2>5 DEF Forget, history
  <2>7. Uncounted \subseteq Closing
    BY DEF Uncounted, Closing
  <2>8. ClosingAlone'
    BY <2>2, <2>3, <2>4, <2>6, <2>7 DEF ClosingAlone
  <2>9. UsersCounted'
    BY <1>2, <2>4, <2>6 DEF CountInvariant, UsersCounted
  <2> QED
    BY <2>8, <2>9 DEF CountInvariant
<1>10. ASSUME NEW w \in Workers, Uncount(w) PROVE CountInvariant'
  <2>1. w \in Closing /\ w \in Uncounted /\ w \notin Forgetting /\ worker[w].seen = count
    BY <1>2, <1>10 DEF Uncount, Closing, Uncounted, Forgetting, CountInvariant, ClosingAlone
  <2>2. /\ worker'[w].at = "rearm"
        /\ \A v \in Workers \ {w} : worker'[v] = worker[v]
    BY <1>10 DEF Uncount, TypeOK, PoolTyped, WorkerType
  <2>3. \A v \in Closing : v = w
    BY <1>2, <2>1 DEF CountInvariant, ClosingAlone
  <2>4. /\ Closing' = Closing /\ Uncounted = {w} /\ Uncounted' = {}
        /\ Forgetting = {} /\ Forgetting' = {}
    BY <2>1, <2>2, <2>3 DEF Closing, Uncounted, Forgetting
  <2>5. count' = count - 1 /\ UNCHANGED <<open, sock, phantom>>
    BY <1>10, <2>1 DEF Uncount, history
  <2>6. sock = open
    BY <1>2, <2>4 DEF CountInvariant, ClosingAlone
  <2>7. ClosingAlone'
    BY <2>3, <2>4, <2>5, <2>6 DEF ClosingAlone
  <2>8. Cardinality(Uncounted) = 1 /\ Cardinality(Uncounted') = 0
    BY <2>4, FS_EmptySet, FS_Singleton
  <2>9. UsersCounted'
    BY <1>2, <2>5, <2>8, CountFinite DEF CountInvariant, UsersCounted, TypeOK, ConnTyped
  <2> QED
    BY <2>7, <2>9 DEF CountInvariant
<1>11. ASSUME NEW w \in Workers, Rearm(w) PROVE CountInvariant'
  <2>1. w \in Closing /\ w \notin Uncounted /\ w \notin Forgetting
    BY <1>11 DEF Rearm, Closing, Uncounted, Forgetting
  <2>2. /\ worker'[w].at = "wait"
        /\ \A v \in Workers \ {w} : worker'[v] = worker[v]
    BY <1>11 DEF Rearm, Idle, TypeOK, PoolTyped
  <2>3. \A v \in Closing : v = w
    BY <1>2, <2>1 DEF CountInvariant, ClosingAlone
  <2>4. /\ Closing' = {} /\ Uncounted = {} /\ Uncounted' = {}
        /\ Forgetting = {} /\ Forgetting' = {}
    BY <2>1, <2>2, <2>3 DEF Closing, Uncounted, Forgetting
  <2>5. UNCHANGED <<open, sock, count, phantom>>
    BY <1>11 DEF Rearm, history
  <2>6. ClosingAlone'
    BY <1>2, <2>4, <2>5 DEF CountInvariant, ClosingAlone
  <2>7. UsersCounted'
    BY <1>2, <2>4, <2>5 DEF CountInvariant, UsersCounted
  <2> QED
    BY <2>6, <2>7 DEF CountInvariant
<1>12. ASSUME NEW e \in batch, PeerGone(e) \/ ReadFails(e) \/ WriteEnds(e) PROVE CountInvariant'
  BY <1>7, <1>12 DEF PeerGone, ReadFails, WriteEnds, Take
<1>13. ASSUME \/ Connect \/ (\E f \in Fds : HangUp(f)) \/ CreateFails \/ EpollWait
              \/ (\E e \in batch : Read(e) \/ Write(e))
              \/ AppendLock \/ append \/ Post \/ UNCHANGED vars
       PROVE  UNCHANGED <<open, sock, count, phantom, worker>>
  BY <1>13 DEF Connect, HangUp, CreateFails, EpollWait, Read, Write, Take, AppendLock, append,
               Post, connVars, poolVars, history, vars
<1> QED
  BY <1>3, <1>4, <1>5, <1>6, <1>8, <1>9, <1>10, <1>11, <1>12, <1>13
     DEF Next, MainStep, WorkerStep

\* The inductive invariant of m_user_count.
THEOREM CountCorrect == Spec => []CountInvariant
<1>1. Init => CountInvariant
  <2> SUFFICES ASSUME Init PROVE CountInvariant
    OBVIOUS
  <2>1. Closing = {} /\ Uncounted = {} /\ Forgetting = {}
    BY DEF Init, Idle, Closing, Uncounted, Forgetting
  <2> QED
    BY <2>1, FS_EmptySet DEF Init, CountInvariant, ClosingAlone, UsersCounted
<1> QED
  BY <1>1, CountStep, ServerTypes, PTL DEF Spec

\* m_user_count is exact for any number of descriptors and workers, failed
\* accepts counted, as long as no connection is opened or closed while a worker
\* is still inside close_conn() or process() for one it closed.
THEOREM UserCountExact == Spec => []UsersCounted
<1>1. CountInvariant => UsersCounted
  BY DEF CountInvariant
<1> QED
  BY <1>1, CountCorrect, PTL

-----------------------------------------------------------------------------
(* One holder for each connection.                                          *)

\* The main thread's and the workers' descriptors, and the fetched events.
LEMMA HandsStep == TypeOK /\ HandsTyped /\ [Next]_vars => HandsTyped'
<1> SUFFICES ASSUME TypeOK, HandsTyped, [Next]_vars PROVE HandsTyped'
  OBVIOUS
<1> DEFINE MainHand == main.at \notin {"lock", "append"} => main.fd = None
           EventHand == \A e \in batch : e.ev # "listen" => e.fd \in Fds
           WorkerHand(w) == worker[w].at \in {"process", "forget", "uncount", "rearm"}
                              => worker[w].fd \in Fds
<1>1. MainHand'
  <2>1. CASE main' = main
    BY <2>1 DEF HandsTyped
  <2>2. ASSUME NEW w \in Workers, CreateThread(w) PROVE MainHand'
    BY <2>2 DEF CreateThread, Loop, HandsTyped
  <2>3. CASE CreateFails
    BY <2>3 DEF CreateFails, HandsTyped, TypeOK, LoopTyped, MainType
  <2>4. ASSUME NEW e \in batch, Read(e) PROVE MainHand'
    BY <2>4 DEF Read
  <2>5. CASE AppendLock
    BY <2>5 DEF AppendLock, TypeOK, LoopTyped, MainType
  <2>6. CASE append \/ Post
    BY <2>6 DEF append, Post, Loop
  <2> HIDE DEF MainHand
  <2> QED
    BY <2>1, <2>2, <2>3, <2>4, <2>5, <2>6
       DEF Next, MainStep, WorkerStep, Connect, HangUp, EpollWait, Accept, AcceptFails,
           PeerGone, ReadFails, Write, WriteEnds, SemWait, Lock, Pop, Process, ProcessCloses,
           Forget, Uncount, Rearm, vars
<1>2. EventHand'
  <2>1. CASE batch' \subseteq batch
    BY <2>1 DEF HandsTyped
  <2>2. CASE EpollWait
    <3>1. \A f \in Gone \cup Perhaps : f \in Fds
      BY DEF Gone, Perhaps, TypeOK, ConnTyped
    <3>2. \A e \in batch' : \/ e.fd \in Gone \cup Perhaps
                            \/ e = [fd |-> Listen, ev |-> Event(Listen)]
      BY <2>2 DEF EpollWait
    <3> QED
      BY <3>1, <3>2 DEF Event
  <2> QED
    BY <2>1, <2>2
       DEF Next, MainStep, WorkerStep, Connect, HangUp, CreateThread, CreateFails,
           Accept, AcceptFails, PeerGone, Read, ReadFails, Write, WriteEnds, Take, AppendLock,
           append, Post, SemWait, Lock, Pop, Process, ProcessCloses, Forget, Uncount, Rearm,
           vars
<1>3. \A w \in Workers : WorkerHand(w)'
  <2>1. CASE worker' = worker
    BY <2>1 DEF HandsTyped
  <2>2. ASSUME NEW w \in Workers, WorkerHand(w)', \A v \in Workers \ {w} : worker'[v] = worker[v]
        PROVE  \A v \in Workers : WorkerHand(v)'
    BY <2>2 DEF HandsTyped
  <2>3. ASSUME NEW w \in Workers, CreateThread(w) \/ Process(w) \/ Rearm(w)
        PROVE  \A v \in Workers : WorkerHand(v)'
    <3>1. worker' = [worker EXCEPT ![w] = Idle]
      BY <2>3 DEF CreateThread, Process, Rearm
    <3> QED
      BY <2>2, <3>1 DEF Idle, TypeOK, PoolTyped
  <2>4. ASSUME NEW w \in Workers, SemWait(w) \/ Lock(w)
        PROVE  \A v \in Workers : WorkerHand(v)'
    BY <2>2, <2>4 DEF SemWait, Lock, TypeOK, PoolTyped, WorkerType
  <2>5. ASSUME NEW w \in Workers, Pop(w)
        PROVE  \A v \in Workers : WorkerHand(v)'
    <3>1. CASE queue = <<>>
      BY <2>2, <2>5, <3>1 DEF Pop, Idle, TypeOK, PoolTyped
    <3>2. CASE queue # <<>>
      <4>1. Head(queue) \in Fds
        BY <3>2 DEF TypeOK, PoolTyped
      <4>2. worker' = [worker EXCEPT ![w].at = "process", ![w].fd = Head(queue)]
        BY <2>5, <3>2 DEF Pop
      <4>3. worker'[w].fd \in Fds /\ \A v \in Workers \ {w} : worker'[v] = worker[v]
        BY <4>1, <4>2 DEF TypeOK, PoolTyped, WorkerType
      <4> QED
        BY <2>2, <4>3
    <3> QED
      BY <3>1, <3>2
  <2>6. ASSUME NEW w \in Workers, ProcessCloses(w) \/ Uncount(w)
        PROVE  \A v \in Workers : WorkerHand(v)'
    <3>1. worker[w].fd \in Fds
      BY <2>6 DEF ProcessCloses, Uncount, HandsTyped
    <3>2. PICK p \in {"forget", "rearm"} : worker' = [worker EXCEPT ![w].at = p]
      BY <2>6 DEF ProcessCloses, Uncount
    <3>3. worker'[w].fd = worker[w].fd /\ \A v \in Workers \ {w} : worker'[v] = worker[v]
      BY <3>2 DEF TypeOK, PoolTyped, WorkerType
    <3> QED
      BY <2>2, <3>1, <3>3
  <2>7. ASSUME NEW w \in Workers, Forget(w)
        PROVE  \A v \in Workers : WorkerHand(v)'
    <3>1. worker[w].fd \in Fds
      BY <2>7 DEF Forget, HandsTyped
    <3>2. worker' = [worker EXCEPT ![w].at = "uncount", ![w].seen = count]
      BY <2>7 DEF Forget
    <3>3. worker'[w].fd = worker[w].fd /\ \A v \in Workers \ {w} : worker'[v] = worker[v]
      BY <3>2 DEF TypeOK, PoolTyped, WorkerType
    <3> QED
      BY <2>2, <3>1, <3>3
  <2> QED
    BY <2>1, <2>3, <2>4, <2>5, <2>6, <2>7
       DEF Next, MainStep, WorkerStep, Connect, HangUp, CreateFails, EpollWait,
           Accept, AcceptFails, PeerGone, Read, ReadFails, Write, WriteEnds, Take, AppendLock,
           append, Post, poolVars, vars
<1> QED
  BY <1>1, <1>2, <1>3 DEF HandsTyped
\* Who holds f does not change.
LEMMA SameHolder ==
  ASSUME NEW f, AtEpoll(f)' <=> AtEpoll(f), EventsOf(f)' = EventsOf(f),
         (main'.fd = f) <=> (main.fd = f), PlacesOf(f)' = PlacesOf(f),
         WorkersOn(f)' = WorkersOn(f)
  PROVE  (HeldOnce(f) => HeldOnce(f)') /\ (Unheld(f) => Unheld(f)')
<1>1. Unheld(f) => Unheld(f)'
  BY DEF Unheld
<1>2. \A e : EventsOf(f) = {e} => e \in batch'
  BY DEF EventsOf
<1>3. \A i : PlacesOf(f) = {i} => i \in DOMAIN queue'
  BY DEF PlacesOf
<1>4. HeldOnce(f) => HeldOnce(f)'
  BY <1>2, <1>3 DEF HeldOnce
<1> QED
  BY <1>1, <1>4

\* Who has been shown to hold f is its only holder.
LEMMA OnlyHolder ==
  ASSUME NEW f, HeldOnce(f)
  PROVE  /\ AtEpoll(f) => EventsOf(f) = {} /\ main.fd # f /\ PlacesOf(f) = {} /\ WorkersOn(f) = {}
         /\ \A e \in EventsOf(f) : /\ EventsOf(f) = {e}
                                   /\ ~AtEpoll(f) /\ main.fd # f
                                   /\ PlacesOf(f) = {} /\ WorkersOn(f) = {}
         /\ main.fd = f => /\ ~AtEpoll(f) /\ EventsOf(f) = {}
                           /\ PlacesOf(f) = {} /\ WorkersOn(f) = {}
         /\ \A i \in PlacesOf(f) : /\ PlacesOf(f) = {i}
                                   /\ ~AtEpoll(f) /\ main.fd # f
                                   /\ EventsOf(f) = {} /\ WorkersOn(f) = {}
         /\ \A w \in WorkersOn(f) : /\ WorkersOn(f) = {w}
                                    /\ ~AtEpoll(f) /\ main.fd # f
                                    /\ EventsOf(f) = {} /\ PlacesOf(f) = {}
  BY DEF HeldOnce

\* A worker that has closed its connection leaves close_conn() and process()
\* before the descriptor is given out again, unless it is overtaken.
LEMMA ClosedStep ==
  ASSUME TypeOK, HandOver, [Next]_vars, ~overtaken'
  PROVE  \A w \in Closing' : worker'[w].fd \notin open'
<1> DEFINE Goal == \A w \in Closing' : worker'[w].fd \notin open'
<1>1. ~overtaken /\ (Touched => Closing = {})
  BY Untouched
<1>2. \A w \in Closing : worker[w].fd \notin open
  BY <1>1 DEF HandOver
<1>3. CASE worker' = worker /\ open' \subseteq open
  BY <1>2, <1>3 DEF Closing
<1>4. ASSUME NEW w \in Workers, open' \subseteq open,
             \A v \in Workers \ {w} : worker'[v] = worker[v],
             \/ worker'[w].at \notin {"forget", "uncount", "rearm"}
             \/ w \in Closing /\ worker'[w].fd = worker[w].fd
             \/ worker'[w].fd \notin open'
      PROVE  Goal
  BY <1>2, <1>4 DEF Closing
<1>5. ASSUME NEW w \in Workers, CreateThread(w) \/ Process(w) \/ Rearm(w) PROVE Goal
  <2>1. worker' = [worker EXCEPT ![w] = Idle] /\ open' = open
    BY <1>5 DEF CreateThread, Process, Rearm, connVars
  <2> QED
    BY <1>4, <2>1 DEF Idle, TypeOK, PoolTyped
<1>6. ASSUME NEW w \in Workers, SemWait(w) \/ Lock(w) PROVE Goal
  BY <1>4, <1>6 DEF SemWait, Lock, connVars, TypeOK, PoolTyped, WorkerType
<1>7. ASSUME NEW w \in Workers, Pop(w) PROVE Goal
  <2>1. open' = open /\ \A v \in Workers \ {w} : worker'[v] = worker[v]
    BY <1>7 DEF Pop, connVars, TypeOK, PoolTyped
  <2>2. worker'[w].at \notin {"forget", "uncount", "rearm"}
    BY <1>7 DEF Pop, Idle, TypeOK, PoolTyped, WorkerType
  <2> QED
    BY <1>4, <2>1, <2>2
<1>8. ASSUME NEW w \in Workers, ProcessCloses(w) PROVE Goal
  BY <1>4, <1>8 DEF ProcessCloses, TypeOK, PoolTyped, WorkerType
<1>9. ASSUME NEW w \in Workers, Forget(w) \/ Uncount(w) PROVE Goal
  <2>1. w \in Closing
    BY <1>9 DEF Forget, Uncount, Closing
  <2>2. /\ worker'[w].fd = worker[w].fd /\ open' = open
        /\ \A v \in Workers \ {w} : worker'[v] = worker[v]
    BY <1>9 DEF Forget, Uncount, TypeOK, PoolTyped, WorkerType
  <2> QED
    BY <1>4, <2>1, <2>2
<1>10. ASSUME NEW e \in batch, Accept(e) PROVE Goal
  <2>1. worker' = worker
    BY <1>10 DEF Accept, Take, poolVars
  <2>2. CASE open' = open
    BY <1>3, <2>1, <2>2
  <2>3. CASE Touched
    BY <1>1, <2>1, <2>3 DEF Closing
  <2> QED
    BY <1>10, <2>2, <2>3 DEF Accept, connVars
<1>11. ASSUME NEW e \in batch, \/ AcceptFails(e) \/ PeerGone(e) \/ Read(e) \/ ReadFails(e)
                               \/ Write(e) \/ WriteEnds(e)
       PROVE  Goal
  <2>1. worker' = worker /\ open' \subseteq open
    BY <1>11 DEF AcceptFails, PeerGone, Read, ReadFails, Write, WriteEnds, Take, close_conn,
                 connVars, poolVars
  <2> QED
    BY <1>3, <2>1
<1>12. ASSUME \/ Connect \/ (\E f \in Fds : HangUp(f)) \/ CreateFails \/ EpollWait
              \/ AppendLock \/ append \/ Post \/ UNCHANGED vars
       PROVE  Goal
  <2>1. worker' = worker /\ open' = open
    BY <1>12 DEF Connect, HangUp, CreateFails, EpollWait, AppendLock, append, Post,
                 connVars, poolVars, vars
  <2> QED
    BY <1>3, <2>1
<1> QED
  BY <1>5, <1>6, <1>7, <1>8, <1>9, <1>10, <1>11, <1>12 DEF Next, MainStep, WorkerStep

\* A worker's step outside process(): what it holds there is what it held.
LEMMA SameWorkers ==
  ASSUME NEW w \in Workers, \A v \in Workers \ {w} : worker'[v] = worker[v],
         worker[w].at # "process", worker'[w].at # "process"
  PROVE  \A f : WorkersOn(f)' = WorkersOn(f)
  BY DEF WorkersOn

\* Every action hands a connection from its one holder to the next, or takes it
\* out of the world with its holder.
LEMMA HolderStep ==
  ASSUME TypeOK, AcceptHasClient, CountInvariant, HolderInvariant, [Next]_vars
  PROVE  HandOver'
<1> SUFFICES ASSUME ~overtaken' PROVE HandOver'
  BY DEF HandOver
<1> DEFINE Live(f) == f \in open \ refused
           Status(f) == IF Live(f) THEN HeldOnce(f) ELSE Unheld(f)
           Goal == \A f \in Fds : Status(f)'
<1>1. ~overtaken /\ (Touched => Closing = {})
  BY Untouched
<1>2. (\A f \in Fds : Status(f)) /\ open \subseteq sock
  BY <1>1 DEF HolderInvariant, HandOver, CountInvariant, ClosingAlone
<1>3. ASSUME NEW f \in Fds, AtEpoll(f)' <=> AtEpoll(f), EventsOf(f)' = EventsOf(f),
             (main'.fd = f) <=> (main.fd = f), PlacesOf(f)' = PlacesOf(f),
             WorkersOn(f)' = WorkersOn(f), Live(f)' <=> Live(f)
      PROVE  Status(f)'
  BY <1>2, <1>3, SameHolder
<1>4. ASSUME UNCHANGED <<open, refused, armed, batch, queue>>,
             \A f \in Fds : (main'.fd = f) <=> (main.fd = f),
             \A f \in Fds : WorkersOn(f)' = WorkersOn(f)
      PROVE  Goal
  <2> SUFFICES ASSUME NEW f \in Fds PROVE Status(f)'
    OBVIOUS
  <2>1. AtEpoll(f)' = AtEpoll(f) /\ EventsOf(f)' = EventsOf(f) /\ PlacesOf(f)' = PlacesOf(f)
    BY <1>4 DEF AtEpoll, EventsOf, PlacesOf
  <2> QED
    BY <1>3, <1>4, <2>1
<1>5. ASSUME \/ Connect \/ (\E f \in Fds : HangUp(f)) \/ CreateFails
             \/ AppendLock \/ Post \/ UNCHANGED vars
      PROVE  Goal
  <2>1. UNCHANGED <<open, refused, armed, batch, queue, worker>>
    BY <1>5 DEF Connect, HangUp, CreateFails, AppendLock, Post, connVars, poolVars, history, vars
  <2>2. main'.fd = main.fd
    BY <1>5 DEF Connect, HangUp, CreateFails, AppendLock, Post, vars, Loop, HolderInvariant,
                HandsTyped, TypeOK, LoopTyped, MainType
  <2> QED
    BY <1>4, <2>1, <2>2 DEF WorkersOn
<1>6. ASSUME NEW w \in Workers, CreateThread(w) PROVE Goal
  <2>1. UNCHANGED <<open, refused, armed, batch, queue>>
    BY <1>6 DEF CreateThread, connVars, history
  <2>2. main'.fd = main.fd
    BY <1>6 DEF CreateThread, Loop, HolderInvariant, HandsTyped
  <2>3. \A f : WorkersOn(f)' = WorkersOn(f)
    BY <1>6, SameWorkers DEF CreateThread, Idle, TypeOK, PoolTyped
  <2> QED
    BY <1>4, <2>1, <2>2, <2>3
<1>7. ASSUME NEW w \in Workers, SemWait(w) \/ Lock(w) \/ Forget(w) \/ Uncount(w) PROVE Goal
  <2>1. UNCHANGED <<open, refused, armed, batch, queue, main>>
    BY <1>7 DEF SemWait, Lock, Forget, Uncount, connVars, history
  <2>2. /\ \A v \in Workers \ {w} : worker'[v] = worker[v]
        /\ worker[w].at # "process" /\ worker'[w].at # "process"
    BY <1>7 DEF SemWait, Lock, Forget, Uncount, TypeOK, PoolTyped, WorkerType
  <2> QED
    BY <1>4, <2>1, <2>2, SameWorkers
<1>8. ASSUME NEW w \in Workers, Rearm(w) PROVE Goal
  <2>1. w \in Closing /\ w \notin Forgetting
    BY <1>8 DEF Rearm, Closing, Forgetting
  <2>2. worker[w].fd \notin sock
    <3>1. Forgetting = {}
      BY <1>1, <2>1 DEF CountInvariant, ClosingAlone, Closing, Forgetting
    <3>2. worker[w].fd \notin open
      BY <1>1, <2>1 DEF HolderInvariant, HandOver
    <3> QED
      BY <1>1, <3>1, <3>2 DEF CountInvariant, ClosingAlone
  <2>3. armed' = armed
    BY <1>8, <2>2 DEF Rearm, modfd, TypeOK, ConnTyped
  <2>4. UNCHANGED <<open, refused, batch, queue, main>>
    BY <1>8 DEF Rearm, history
  <2>5. \A f : WorkersOn(f)' = WorkersOn(f)
    BY <1>8, SameWorkers DEF Rearm, Idle, TypeOK, PoolTyped
  <2> QED
    BY <1>4, <2>3, <2>4, <2>5
<1>9. ASSUME EpollWait PROVE Goal
  <2> SUFFICES ASSUME NEW f \in Fds PROVE Status(f)'
    OBVIOUS
  <2>1. PICK ready :
          /\ ready \subseteq Gone \cup Perhaps \cup {Listen}
          /\ batch' = {[fd |-> g, ev |-> Event(g)] : g \in ready}
          /\ armed' = [g \in Fds |-> IF g \in ready THEN "off" ELSE armed[g]]
    BY <1>9 DEF EpollWait
  <2>2. /\ UNCHANGED <<open, refused, queue, worker>>
        /\ main' = main /\ main = Loop /\ batch = {}
    BY <1>9 DEF EpollWait, poolVars, history
  <2>3. EventsOf(f) = {} /\ main.fd # f /\ main'.fd # f
    BY <2>2, ServerAssumption DEF EventsOf, Loop
  <2>4. PlacesOf(f)' = PlacesOf(f) /\ WorkersOn(f)' = WorkersOn(f)
    BY <2>2 DEF PlacesOf, WorkersOn
  <2>5. CASE f \in ready
    <3>1. AtEpoll(f) /\ ~AtEpoll(f)'
      BY <2>1, <2>5, ServerAssumption DEF AtEpoll, Gone, Perhaps
    <3>2. Live(f) /\ Live(f)' /\ HeldOnce(f)
      BY <1>2, <2>2, <3>1 DEF Unheld
    <3>3. PlacesOf(f) = {} /\ WorkersOn(f) = {}
      BY <3>1, <3>2, OnlyHolder
    <3>4. EventsOf(f)' = {[fd |-> f, ev |-> Event(f)]}
      BY <2>1, <2>5 DEF EventsOf
    <3>5. [fd |-> f, ev |-> Event(f)] \in batch'
      BY <2>1, <2>5
    <3>6. HeldOnce(f)'
      BY <2>3, <2>4, <3>1, <3>3, <3>4, <3>5 DEF HeldOnce
    <3> QED
      BY <3>2, <3>6
  <2>6. CASE f \notin ready
    <3>1. AtEpoll(f)' <=> AtEpoll(f)
      BY <2>1, <2>6 DEF AtEpoll
    <3>2. EventsOf(f)' = {}
      BY <2>1, <2>6 DEF EventsOf
    <3> QED
      BY <1>3, <2>2, <2>3, <2>4, <3>1, <3>2
  <2> QED
    BY <2>5, <2>6
<1>10. ASSUME NEW e \in batch, Take(e), e.ev = "listen", UNCHANGED <<main, refused>>,
              UNCHANGED <<open, armed>>
       PROVE  Goal
  <2> SUFFICES ASSUME NEW g \in Fds PROVE Status(g)'
    OBVIOUS
  <2>1. EventsOf(g)' = EventsOf(g)
    BY <1>10, ServerAssumption DEF Take, EventsOf, AcceptHasClient
  <2>2. PlacesOf(g)' = PlacesOf(g) /\ WorkersOn(g)' = WorkersOn(g) /\ AtEpoll(g)' = AtEpoll(g)
    BY <1>10 DEF Take, poolVars, PlacesOf, WorkersOn, AtEpoll
  <2> QED
    BY <1>3, <1>10, <2>1, <2>2
<1>11. ASSUME NEW e \in batch, Accept(e) PROVE Goal
  <2>1. CASE UNCHANGED <<connVars, history>>
    BY <1>10, <1>11, <2>1 DEF Accept, connVars, history
  <2>2. ASSUME NEW f \in Fds \ open, init(f), refused' = refused \ {f} PROVE Goal
    <3> SUFFICES ASSUME NEW g \in Fds PROVE Status(g)'
      OBVIOUS
    <3>1. EventsOf(g)' = EventsOf(g) /\ main' = main
      BY <1>11, ServerAssumption DEF Accept, Take, EventsOf, AcceptHasClient
    <3>2. PlacesOf(g)' = PlacesOf(g) /\ WorkersOn(g)' = WorkersOn(g)
      BY <1>11 DEF Accept, Take, poolVars, PlacesOf, WorkersOn
    <3>3. CASE g = f
      <4>1. AtEpoll(g)' /\ Live(g)'
        BY <2>2, <3>3 DEF init, AtEpoll, TypeOK, ConnTyped
      <4>2. Unheld(g)
        BY <1>2, <2>2, <3>3
      <4>3. HeldOnce(g)'
        BY <3>1, <3>2, <4>1, <4>2 DEF Unheld, HeldOnce
      <4> QED
        BY <4>1, <4>3
    <3>4. CASE g # f
      <4>1. (AtEpoll(g)' <=> AtEpoll(g)) /\ (Live(g)' <=> Live(g))
        BY <2>2, <3>4 DEF init, AtEpoll, TypeOK, ConnTyped
      <4> QED
        BY <1>3, <3>1, <3>2, <4>1
    <3> QED
      BY <3>3, <3>4
  <2> QED
    BY <1>11, <2>1, <2>2 DEF Accept
<1>12. ASSUME NEW e \in batch, AcceptFails(e) PROVE Goal
  BY <1>10, <1>12 DEF AcceptFails, history
<1>13. ASSUME NEW e \in batch, e.ev # "listen"
       PROVE  /\ e.fd \in Fds /\ e.fd \in sock /\ Live(e.fd)
              /\ EventsOf(e.fd) = {e} /\ ~AtEpoll(e.fd) /\ main.fd # e.fd
              /\ PlacesOf(e.fd) = {} /\ WorkersOn(e.fd) = {}
  <2>1. e.fd \in Fds /\ e \in EventsOf(e.fd)
    BY <1>13 DEF HolderInvariant, HandsTyped, EventsOf
  <2>2. Live(e.fd) /\ HeldOnce(e.fd)
    BY <1>2, <2>1 DEF Unheld
  <2> QED
    BY <1>2, <2>1, <2>2, OnlyHolder
<1>14. ASSUME NEW e \in batch, e.ev # "listen", Take(e), UNCHANGED main, close_conn(e.fd)
       PROVE  Goal
  <2> SUFFICES ASSUME NEW g \in Fds PROVE Status(g)'
    OBVIOUS
  <2>1. PlacesOf(g)' = PlacesOf(g) /\ WorkersOn(g)' = WorkersOn(g)
    BY <1>14 DEF Take, poolVars, PlacesOf, WorkersOn
  <2>2. /\ open' = open \ {e.fd} /\ refused' = refused
        /\ armed' = [armed EXCEPT ![e.fd] = "none"]
    BY <1>13, <1>14 DEF close_conn
  <2>3. CASE g = e.fd
    <3>1. EventsOf(g)' = {}
      BY <1>13, <1>14, <2>3 DEF Take, EventsOf
    <3>2. ~AtEpoll(g)' /\ ~Live(g)'
      BY <2>2, <2>3 DEF AtEpoll, TypeOK, ConnTyped
    <3>3. Unheld(g)'
      BY <1>13, <1>14, <2>1, <2>3, <3>1, <3>2 DEF Unheld
    <3> QED
      BY <3>2, <3>3
  <2>4. CASE g # e.fd
    <3>1. EventsOf(g)' = EventsOf(g)
      BY <1>14, <2>4 DEF Take, EventsOf
    <3>2. (AtEpoll(g)' <=> AtEpoll(g)) /\ (Live(g)' <=> Live(g))
      BY <2>2, <2>4 DEF AtEpoll, TypeOK, ConnTyped
    <3> QED
      BY <1>3, <1>14, <2>1, <3>1, <3>2
  <2> QED
    BY <2>3, <2>4
<1>15. ASSUME NEW e \in batch, PeerGone(e) \/ ReadFails(e) \/ WriteEnds(e) PROVE Goal
  BY <1>14, <1>15 DEF PeerGone, ReadFails, WriteEnds
<1>16. ASSUME NEW e \in batch, Read(e) PROVE Goal
  <2> SUFFICES ASSUME NEW g \in Fds PROVE Status(g)'
    OBVIOUS
  <2>1. /\ PlacesOf(g)' = PlacesOf(g) /\ WorkersOn(g)' = WorkersOn(g)
        /\ AtEpoll(g)' = AtEpoll(g) /\ Live(g)' = Live(g)
    BY <1>16 DEF Read, Take, connVars, poolVars, history, PlacesOf, WorkersOn, AtEpoll
  <2>2. main.fd = None /\ main'.fd = e.fd
    BY <1>16 DEF Read, Take, Loop
  <2>3. CASE g = e.fd
    <3>1. EventsOf(g)' = {}
      BY <1>13, <1>16, <2>3 DEF Read, Take, EventsOf
    <3>2. HeldOnce(g)' /\ Live(g)'
      BY <1>13, <1>16, <2>1, <2>2, <2>3, <3>1 DEF Read, HeldOnce
    <3> QED
      BY <3>2
  <2>4. CASE g # e.fd
    <3>1. EventsOf(g)' = EventsOf(g)
      BY <1>16, <2>4 DEF Read, Take, EventsOf
    <3> QED
      BY <1>3, <2>1, <2>2, <2>4, <3>1, ServerAssumption
  <2> QED
    BY <2>3, <2>4
<1>17. ASSUME NEW e \in batch, Write(e) PROVE Goal
  <2> SUFFICES ASSUME NEW g \in Fds PROVE Status(g)'
    OBVIOUS
  <2>1. /\ PlacesOf(g)' = PlacesOf(g) /\ WorkersOn(g)' = WorkersOn(g)
        /\ main' = main /\ Live(g)' = Live(g)
    BY <1>17 DEF Write, Take, poolVars, history, PlacesOf, WorkersOn
  <2>2. PICK ev \in {"in", "out"} : armed' = [armed EXCEPT ![e.fd] = ev]
    BY <1>13, <1>17 DEF Write, modfd
  <2>3. CASE g = e.fd
    <3>1. EventsOf(g)' = {}
      BY <1>13, <1>17, <2>3 DEF Write, Take, EventsOf
    <3>2. AtEpoll(g)'
      BY <2>2, <2>3 DEF AtEpoll, TypeOK, ConnTyped
    <3>3. HeldOnce(g)' /\ Live(g)'
      BY <1>13, <1>17, <2>1, <2>3, <3>1, <3>2 DEF Write, HeldOnce
    <3> QED
      BY <3>3
  <2>4. CASE g # e.fd
    <3>1. EventsOf(g)' = EventsOf(g)
      BY <1>17, <2>4 DEF Write, Take, EventsOf
    <3>2. AtEpoll(g)' = AtEpoll(g)
      BY <2>2, <2>4 DEF AtEpoll, TypeOK, ConnTyped
    <3> QED
      BY <1>3, <2>1, <3>1, <3>2
  <2> QED
    BY <2>3, <2>4
<1>18. ASSUME append PROVE Goal
  <2> SUFFICES ASSUME NEW g \in Fds PROVE Status(g)'
    OBVIOUS
  <2>1. main.fd \in Fds
    BY <1>18 DEF append, TypeOK, LoopTyped
  <2>2. /\ EventsOf(g)' = EventsOf(g) /\ WorkersOn(g)' = WorkersOn(g)
        /\ AtEpoll(g)' = AtEpoll(g) /\ open' = open
    BY <1>18 DEF append, connVars, EventsOf, WorkersOn, AtEpoll
  <2>3. main'.fd = None
    BY <1>18 DEF append, Loop
  <2>4. main.fd = g => /\ Live(g) /\ ~AtEpoll(g) /\ EventsOf(g) = {}
                       /\ PlacesOf(g) = {} /\ WorkersOn(g) = {}
    BY <1>2, OnlyHolder DEF Unheld
  <2>5. CASE Len(queue) > m_max_requests
    <3>1. queue' = queue /\ refused' = refused \cup {main.fd}
      BY <1>18, <2>5 DEF append
    <3>2. PlacesOf(g)' = PlacesOf(g)
      BY <3>1 DEF PlacesOf
    <3>3. CASE g = main.fd
      <4>1. ~Live(g)'
        BY <3>1, <3>3
      <4>2. Unheld(g)'
        BY <2>2, <2>3, <2>4, <3>2, <3>3, ServerAssumption DEF Unheld
      <4> QED
        BY <4>1, <4>2
    <3>4. CASE g # main.fd
      <4>1. Live(g)' = Live(g)
        BY <2>2, <3>1, <3>4
      <4> QED
        BY <1>3, <2>2, <2>3, <3>2, <3>4, <4>1, ServerAssumption
    <3> QED
      BY <3>3, <3>4
  <2>6. CASE ~(Len(queue) > m_max_requests)
    <3>1. queue' = Append(queue, main.fd) /\ refused' = refused
      BY <1>18, <2>6 DEF append
    <3>2. /\ DOMAIN queue' = 1 .. Len(queue) + 1 /\ queue'[Len(queue) + 1] = main.fd
          /\ DOMAIN queue = 1 .. Len(queue) /\ \A i \in 1 .. Len(queue) : queue'[i] = queue[i]
          /\ Len(queue) \in Nat
      BY <2>1, <3>1 DEF TypeOK, PoolTyped
    <3>3. CASE g = main.fd
      <4>1. PlacesOf(g)' = {Len(queue) + 1} /\ Len(queue) + 1 \in DOMAIN queue'
        BY <2>4, <3>2, <3>3 DEF PlacesOf
      <4>2. HeldOnce(g)' /\ Live(g)'
        BY <2>2, <2>3, <2>4, <3>1, <3>3, <4>1, ServerAssumption DEF HeldOnce
      <4> QED
        BY <4>2
    <3>4. CASE g # main.fd
      <4>1. PlacesOf(g)' = PlacesOf(g)
        BY <3>2, <3>4 DEF PlacesOf
      <4> QED
        BY <1>3, <2>2, <2>3, <3>1, <3>4, <4>1, ServerAssumption
    <3> QED
      BY <3>3, <3>4
  <2> QED
    BY <2>5, <2>6
<1>19. ASSUME NEW w \in Workers, Pop(w) PROVE Goal
  <2>1. UNCHANGED <<open, refused, armed, batch, main>>
    BY <1>19 DEF Pop, connVars, history
  <2>2. CASE queue = <<>>
    <3>1. \A f : WorkersOn(f)' = WorkersOn(f)
      BY <1>19, <2>2, SameWorkers DEF Pop, Idle, TypeOK, PoolTyped
    <3> QED
      BY <1>4, <1>19, <2>1, <2>2, <3>1 DEF Pop
  <2>3. CASE queue # <<>>
    <3> SUFFICES ASSUME NEW g \in Fds PROVE Status(g)'
      OBVIOUS
    <3>1. /\ worker'[w].at = "process" /\ worker'[w].fd = Head(queue)
          /\ \A v \in Workers \ {w} : worker'[v] = worker[v]
      BY <1>19, <2>3 DEF Pop, TypeOK, PoolTyped, WorkerType
    <3>2. /\ Head(queue) = queue[1] /\ 1 \in DOMAIN queue
          /\ DOMAIN queue = 1 .. Len(queue) /\ Len(queue) \in Nat
          /\ DOMAIN queue' = 1 .. Len(queue) - 1
          /\ \A i \in 1 .. Len(queue) - 1 : queue'[i] = queue[i + 1]
      BY <1>19, <2>3 DEF Pop, TypeOK, PoolTyped
    <3>3. EventsOf(g)' = EventsOf(g) /\ AtEpoll(g)' = AtEpoll(g) /\ Live(g)' = Live(g)
      BY <2>1 DEF EventsOf, AtEpoll
    <3>4. CASE g = queue[1]
      <4>1. 1 \in PlacesOf(g)
        BY <3>2, <3>4 DEF PlacesOf
      <4>2. Live(g) /\ HeldOnce(g)
        BY <1>2, <4>1 DEF Unheld
      <4>3. /\ PlacesOf(g) = {1} /\ ~AtEpoll(g) /\ EventsOf(g) = {} /\ main.fd # g
            /\ WorkersOn(g) = {}
        BY <4>1, <4>2, OnlyHolder
      <4>4. PlacesOf(g)' = {}
        <5>1. \A i \in DOMAIN queue' : i + 1 \in DOMAIN queue /\ i + 1 # 1 /\ queue'[i] = queue[i + 1]
          BY <3>2
        <5>2. \A i \in DOMAIN queue : queue[i] = g => i = 1
          BY <4>3 DEF PlacesOf
        <5> QED
          BY <5>1, <5>2 DEF PlacesOf
      <4>5. WorkersOn(g)' = {w}
        BY <3>1, <3>2, <3>4, <4>3 DEF WorkersOn
      <4>6. HeldOnce(g)'
        BY <2>1, <3>3, <4>3, <4>4, <4>5 DEF HeldOnce
      <4> QED
        BY <3>3, <4>2, <4>6
    <3>5. CASE g # queue[1]
      <4>1. WorkersOn(g)' = WorkersOn(g)
        <5>1. w \notin WorkersOn(g) /\ w \notin WorkersOn(g)'
          BY <1>19, <3>1, <3>2, <3>5 DEF Pop, WorkersOn
        <5> QED
          BY <3>1, <5>1 DEF WorkersOn
      <4>2. \A i \in DOMAIN queue' : i + 1 \in DOMAIN queue /\ queue'[i] = queue[i + 1]
        BY <3>2
      <4>3. \A i \in DOMAIN queue : queue[i] = g => i - 1 \in DOMAIN queue' /\ queue'[i - 1] = g
        BY <3>2, <3>5
      <4>4. PlacesOf(g) = {} => PlacesOf(g)' = {}
        BY <4>2 DEF PlacesOf
      <4>5. ASSUME NEW i \in DOMAIN queue, PlacesOf(g) = {i}
            PROVE  i - 1 \in DOMAIN queue' /\ PlacesOf(g)' = {i - 1}
        <5>1. i \in 1 .. Len(queue) /\ queue[i] = g /\ \A j \in DOMAIN queue : queue[j] = g => j = i
          BY <3>2, <4>5 DEF PlacesOf
        <5>2. i - 1 \in DOMAIN queue' /\ queue'[i - 1] = g
          BY <4>3, <5>1
        <5>3. \A k \in DOMAIN queue' : queue'[k] = g => k = i - 1
          BY <3>2, <4>2, <5>1
        <5> QED
          BY <5>2, <5>3 DEF PlacesOf
      <4>6. (HeldOnce(g) => HeldOnce(g)') /\ (Unheld(g) => Unheld(g)')
        <5>1. CASE PlacesOf(g) = {}
          <6>1. PlacesOf(g)' = PlacesOf(g)
            BY <4>4, <5>1
          <6> QED
            BY <2>1, <3>3, <4>1, <6>1, SameHolder
        <5>2. CASE PlacesOf(g) # {}
          <6>1. ~Unheld(g)
            BY <5>2 DEF Unheld
          <6>2. ASSUME HeldOnce(g) PROVE HeldOnce(g)'
            <7>1. PICK i \in DOMAIN queue : PlacesOf(g) = {i}
              BY <5>2, <6>2 DEF HeldOnce
            <7>2. ~AtEpoll(g) /\ EventsOf(g) = {} /\ main.fd # g /\ WorkersOn(g) = {}
              BY <6>2, <7>1, OnlyHolder
            <7>3. i - 1 \in DOMAIN queue' /\ PlacesOf(g)' = {i - 1}
              BY <4>5, <7>1
            <7> QED
              BY <2>1, <3>3, <4>1, <7>2, <7>3 DEF HeldOnce
          <6> QED
            BY <6>1, <6>2
        <5> QED
          BY <5>1, <5>2
      <4> QED
        BY <1>2, <3>3, <4>6
    <3> QED
      BY <3>4, <3>5
  <2> QED
    BY <2>2, <2>3
<1>20. ASSUME NEW w \in Workers, worker[w].at = "process"
       PROVE  LET f == worker[w].fd IN
              /\ f \in Fds /\ f \in sock /\ Live(f)
              /\ WorkersOn(f) = {w} /\ ~AtEpoll(f) /\ main.fd # f
              /\ EventsOf(f) = {} /\ PlacesOf(f) = {}
  <2>1. worker[w].fd \in Fds /\ w \in WorkersOn(worker[w].fd)
    BY <1>20 DEF HolderInvariant, HandsTyped, WorkersOn
  <2>2. Live(worker[w].fd) /\ HeldOnce(worker[w].fd)
    BY <1>2, <2>1 DEF Unheld
  <2> QED
    BY <1>2, <2>1, <2>2, OnlyHolder
<1>21. ASSUME NEW w \in Workers, worker[w].at = "process", worker'[w].at # "process",
              \A v \in Workers \ {w} : worker'[v] = worker[v]
       PROVE  \A g : WorkersOn(g)' = IF g = worker[w].fd THEN {} ELSE WorkersOn(g)
  <2>1. WorkersOn(worker[w].fd) = {w}
    BY <1>20, <1>21
  <2> QED
    BY <1>21, <2>1 DEF WorkersOn
<1>22. ASSUME NEW w \in Workers, Process(w) PROVE Goal
  <2> SUFFICES ASSUME NEW g \in Fds PROVE Status(g)'
    OBVIOUS
  <2> DEFINE f == worker[w].fd
  <2>1. /\ EventsOf(g)' = EventsOf(g) /\ PlacesOf(g)' = PlacesOf(g)
        /\ main' = main /\ Live(g)' = Live(g)
    BY <1>22 DEF Process, history, EventsOf, PlacesOf
  <2>2. /\ worker[w].at = "process" /\ worker'[w].at # "process"
        /\ \A v \in Workers \ {w} : worker'[v] = worker[v]
    BY <1>22 DEF Process, Idle, TypeOK, PoolTyped
  <2>3. PICK ev \in {"in", "out"} : armed' = [armed EXCEPT ![f] = ev]
    BY <1>20, <1>22 DEF Process, modfd
  <2>4. CASE g = f
    <3>1. WorkersOn(g)' = {}
      BY <1>21, <2>2, <2>4
    <3>2. AtEpoll(g)'
      BY <2>3, <2>4 DEF AtEpoll, TypeOK, ConnTyped
    <3>3. HeldOnce(g)' /\ Live(g)'
      BY <1>20, <2>1, <2>2, <2>4, <3>1, <3>2 DEF HeldOnce
    <3> QED
      BY <3>3
  <2>5. CASE g # f
    <3>1. WorkersOn(g)' = WorkersOn(g)
      BY <1>21, <2>2, <2>5
    <3>2. AtEpoll(g)' = AtEpoll(g)
      BY <2>3, <2>5 DEF AtEpoll, TypeOK, ConnTyped
    <3> QED
      BY <1>3, <2>1, <3>1, <3>2
  <2> QED
    BY <2>4, <2>5
<1>23. ASSUME NEW w \in Workers, ProcessCloses(w) PROVE Goal
  <2> SUFFICES ASSUME NEW g \in Fds PROVE Status(g)'
    OBVIOUS
  <2> DEFINE f == worker[w].fd
  <2>1. /\ EventsOf(g)' = EventsOf(g) /\ PlacesOf(g)' = PlacesOf(g) /\ main' = main
        /\ open' = open \ {f} /\ refused' = refused /\ armed' = [armed EXCEPT ![f] = "none"]
    BY <1>23 DEF ProcessCloses, EventsOf, PlacesOf
  <2>2. /\ worker[w].at = "process" /\ worker'[w].at # "process"
        /\ \A v \in Workers \ {w} : worker'[v] = worker[v]
    BY <1>23 DEF ProcessCloses, TypeOK, PoolTyped, WorkerType
  <2>3. CASE g = f
    <3>1. WorkersOn(g)' = {}
      BY <1>21, <2>2, <2>3
    <3>2. ~AtEpoll(g)' /\ ~Live(g)'
      BY <2>1, <2>3 DEF AtEpoll, TypeOK, ConnTyped
    <3>3. Unheld(g)'
      BY <1>20, <2>1, <2>2, <2>3, <3>1, <3>2 DEF Unheld
    <3> QED
      BY <3>2, <3>3
  <2>4. CASE g # f
    <3>1. WorkersOn(g)' = WorkersOn(g)
      BY <1>21, <2>2, <2>4
    <3>2. (AtEpoll(g)' <=> AtEpoll(g)) /\ (Live(g)' <=> Live(g))
      BY <2>1, <2>4 DEF AtEpoll, TypeOK, ConnTyped
    <3> QED
      BY <1>3, <2>1, <3>1, <3>2
  <2> QED
    BY <2>3, <2>4
<1>24. Goal
  <2> HIDE DEF Goal
  <2> QED
    BY <1>5, <1>6, <1>7, <1>8, <1>9, <1>11, <1>12, <1>15, <1>16, <1>17, <1>18, <1>19, <1>22, <1>23
       DEF Next, MainStep, WorkerStep
<1> QED
  BY <1>24, ClosedStep DEF HandOver, HolderInvariant

\* A connection that nobody holds has no holder, one that is held once has one.
LEMMA CountHolders ==
  ASSUME NEW f
  PROVE  /\ Unheld(f) => Cardinality(Holders(f)) = 0
         /\ HeldOnce(f) => Cardinality(Holders(f)) = 1
<1>1. Unheld(f) => Holders(f) = {}
  BY DEF Unheld, Holders
<1>2. HeldOnce(f) => \E x : Holders(f) = {x}
  <2> SUFFICES ASSUME HeldOnce(f) PROVE \E x : Holders(f) = {x}
    OBVIOUS
  <2>1. CASE AtEpoll(f)
    <3>1. Holders(f) = {<<"epoll", f>>}
      BY <2>1, OnlyHolder DEF Holders
    <3> QED
      BY <3>1
  <2>2. ASSUME NEW e \in batch, EventsOf(f) = {e} PROVE \E x : Holders(f) = {x}
    <3>1. Holders(f) = {<<"event", e>>}
      BY <2>2, OnlyHolder DEF Holders
    <3> QED
      BY <3>1
  <2>3. CASE main.fd = f
    <3>1. Holders(f) = {<<"main", f>>}
      BY <2>3, OnlyHolder DEF Holders
    <3> QED
      BY <3>1
  <2>4. ASSUME NEW i \in DOMAIN queue, PlacesOf(f) = {i} PROVE \E x : Holders(f) = {x}
    <3>1. Holders(f) = {<<"queue", i>>}
      BY <2>4, OnlyHolder DEF Holders
    <3> QED
      BY <3>1
  <2>5. ASSUME NEW w \in Workers, WorkersOn(f) = {w} PROVE \E x : Holders(f) = {x}
    <3>1. Holders(f) = {<<"worker", w>>}
      BY <2>5, OnlyHolder DEF Holders
    <3> QED
      BY <3>1
  <2> QED
    BY <2>1, <2>2, <2>3, <2>4, <2>5 DEF HeldOnce
<1> QED
  BY <1>1, <1>2, FS_EmptySet, FS_Singleton

\* The inductive invariant of the hand-over.
THEOREM HandOverCorrect == Spec => []HolderInvariant
<1>1. Init => HolderInvariant
  <2> SUFFICES ASSUME Init PROVE HolderInvariant
    OBVIOUS
  <2>1. HandsTyped
    BY DEF Init, Idle, HandsTyped
  <2>2. \A f \in Fds : Unheld(f)
    BY ServerAssumption
       DEF Init, Idle, Unheld, AtEpoll, EventsOf, PlacesOf, WorkersOn
  <2>3. HandOver
    BY <2>2 DEF Init, HandOver
  <2> QED
    BY <2>1, <2>3 DEF HolderInvariant
<1>2. TypeOK /\ AcceptHasClient /\ CountInvariant /\ HolderInvariant /\ [Next]_vars
        => HolderInvariant'
  BY HandsStep, HolderStep DEF HolderInvariant
<1>3. QueueInvariant => TypeOK /\ AcceptHasClient
  BY DEF QueueInvariant
<1> QED
  BY <1>1, <1>2, <1>3, QueueCorrect, CountCorrect, PTL DEF Spec

\* EPOLLONESHOT, modfd and the queue hand a connection over: for any number of
\* descriptors, workers and clients an open connection that append() has not
\* refused has exactly one holder and any other none, until a connection is
\* opened or closed while a worker is still inside close_conn() or process()
\* for one it closed.
THEOREM OneHolderAlways == Spec => []OneHolder
<1>1. HolderInvariant => OneHolder
  BY CountHolders DEF HolderInvariant, HandOver, OneHolder
<1> QED
  BY <1>1, HandOverCorrect, PTL
=============================================================================
