---------------------- MODULE EventLoopThreadPoolProofs ----------------------
(***************************************************************************)
(* The pool hands out only usable loops and outlives its threads, for any  *)
(* number of them.                                                         *)
(***************************************************************************)
EXTENDS EventLoopThreadPool, SequenceTheorems, TLAPS

\* A new pool has started nothing.
LEMMA PoolInit == Init => PoolInvariant
<1> SUFFICES ASSUME Init PROVE PoolInvariant
    OBVIOUS
<1> USE ThreadsAssumption DEF Init
<1>1. TypeOK
  <2>1. loops \in Seq(Worker) /\ k \in Worker \cup {1} /\ owner \in OwnerPoint
    BY DEF OwnerPoint
  <2>2. /\ worker \in [Worker -> WorkerPoint]
        /\ sem \in [Worker -> 0 .. 1]
    BY DEF WorkerPoint
  <2>3. next \in Worker \cup {1} /\ dealt \in [0 .. numThreads -> Nat]
    OBVIOUS
  <2> QED
    BY <2>1, <2>2, <2>3 DEF TypeOK
<1> USE DEF Worker
<1>2. InOrder
  BY DEF InOrder, Starting
<1>3. WorkerState
  BY DEF WorkerState
<1>4. Quitting
  BY DEF Quitting
<1>5. JoinedBeforeGone
  BY DEF JoinedBeforeGone
<1>6. InTurn
  BY DEF InTurn, Turn
<1> QED
  BY <1>1, <1>2, <1>3, <1>4, <1>5, <1>6 DEF PoolInvariant

\* getNextLoop takes the loop whose turn it is, so the turns stay even.
LEMMA DealInTurn ==
  ASSUME TypeOK, InOrder, InTurn, Deal
  PROVE  TypeOK' /\ InTurn'
<1> USE ThreadsAssumption DEF Worker
<1>1. /\ owner = "running" /\ dealt' = [dealt EXCEPT ![getNextLoop] = @ + 1]
      /\ next' = nextAfter /\ UNCHANGED <<owner, k, loops, threadVars, loopVars, waiting>>
  BY DEF Deal
<1>2. Len(loops) = numThreads /\ DOMAIN loops = 1 .. numThreads /\ loops \in Seq(Worker)
  BY <1>1 DEF InOrder, Starting, TypeOK
<1>3. CASE loops = <<>>
  <2>1. numThreads = 0 /\ getNextLoop = 0 /\ next' = next
    BY <1>1, <1>2, <1>3 DEF getNextLoop, nextAfter
  <2>2. dealt' \in [0 .. numThreads -> Nat]
    BY <1>1, <2>1 DEF TypeOK
  <2>3. InTurn'
    BY <2>1 DEF InTurn
  <2> QED
    BY <1>1, <2>1, <2>2, <2>3 DEF TypeOK, threadVars, loopVars
<1>4. CASE loops # <<>>
  <2>1. next \in 1 .. numThreads /\ numThreads > 0
    BY <1>2, <1>4 DEF TypeOK
  <2>2. getNextLoop = next /\ next \in 0 .. numThreads
    BY <1>2, <1>4, <2>1 DEF getNextLoop, InOrder
  <2>3. next' = IF next = numThreads THEN 1 ELSE next + 1
    BY <1>1, <1>2, <1>4, <2>1 DEF nextAfter
  <2>4. /\ dealt' \in [0 .. numThreads -> Nat] /\ dealt'[next] = dealt[next] + 1
        /\ \A i \in Worker : i # next => dealt'[i] = dealt[i]
    BY <1>1, <2>2 DEF TypeOK
  <2>5. ASSUME NEW i \in Worker, NEW j \in Worker
        PROVE  dealt'[i] + Turn(j)' = dealt'[j] + Turn(i)'
    <3>1. /\ dealt[i] + Turn(j) = dealt[j] + Turn(i)
          /\ dealt[i] + Turn(next) = dealt[next] + Turn(i)
          /\ dealt[j] + Turn(next) = dealt[next] + Turn(j)
      BY <2>1 DEF InTurn
    <3>2. dealt[i] \in Nat /\ dealt[j] \in Nat /\ dealt[next] \in Nat
      BY <2>2 DEF TypeOK
    <3> QED
      BY <2>1, <2>3, <2>4, <3>1, <3>2, SMTT(30) DEF Turn
  <2>6. InTurn'
    BY <2>5 DEF InTurn
  <2> QED
    BY <1>1, <2>1, <2>3, <2>4, <2>6, SMTT(30) DEF TypeOK, threadVars, loopVars
<1> QED
  BY <1>3, <1>4

\* Every step of the owner and of a thread preserves the invariant.
LEMMA PoolStep == PoolInvariant /\ [Next]_vars => PoolInvariant'
<1> SUFFICES ASSUME PoolInvariant, [Next]_vars PROVE PoolInvariant'
    OBVIOUS
<1> USE ThreadsAssumption
        DEF Worker, PoolInvariant, TypeOK, OwnerPoint, WorkerPoint, InOrder,
            Starting, WorkerState, Quitting, JoinedBeforeGone, threadVars, loopVars, dealVars
<1>0. ASSUME UNCHANGED dealVars PROVE InTurn'
  BY <1>0 DEF InTurn, Turn
<1>1. CASE ThreadStart
  <2>1. TypeOK'
    BY <1>1 DEF ThreadStart
  <2>2. InOrder'
    BY <1>1 DEF ThreadStart
  <2>3. WorkerState'
    BY <1>1 DEF ThreadStart
  <2>4. Quitting'
    BY <1>1 DEF ThreadStart
  <2>5. JoinedBeforeGone'
    BY <1>1 DEF ThreadStart
  <2>6. InTurn'
    BY <1>0, <1>1 DEF ThreadStart
  <2> QED
    BY <2>1, <2>2, <2>3, <2>4, <2>5, <2>6
<1>2. CASE SemWait
  <2>1. TypeOK'
    BY <1>2 DEF SemWait
  <2>2. InOrder'
    BY <1>2 DEF SemWait
  <2>3. WorkerState'
    BY <1>2 DEF SemWait
  <2>4. Quitting'
    BY <1>2 DEF SemWait
  <2>5. JoinedBeforeGone'
    BY <1>2 DEF SemWait
  <2>6. InTurn'
    BY <1>0, <1>2 DEF SemWait
  <2> QED
    BY <2>1, <2>2, <2>3, <2>4, <2>5, <2>6
<1>3. CASE StartLoop
  <2>1. CASE loop[k]
    <3>1. /\ loops' = Append(loops, k) /\ k \in Worker
          /\ owner' = (IF k = numThreads THEN "running" ELSE "start")
          /\ k' = (IF k = numThreads THEN 1 ELSE k + 1)
          /\ UNCHANGED <<threadVars, loopVars, waiting, dealVars>>
      BY <1>3, <2>1 DEF StartLoop, Return
    <3>2. /\ Len(loops') = k
          /\ \A n \in DOMAIN loops' : loops'[n] = n
          /\ loops' \in Seq(Worker)
      BY <1>3, <3>1, SMTT(30) DEF StartLoop
    <3>3. TypeOK'
      <4>1. owner' \in OwnerPoint /\ k' \in Worker \cup {1} /\ next' \in Worker \cup {1}
        BY <3>1 DEF dealVars
      <4> QED
        BY <3>1, <3>2, <4>1 DEF TypeOK, threadVars, loopVars, dealVars
    <3>4. InOrder'
      BY <1>3, <3>1, <3>2 DEF StartLoop
    <3>5. WorkerState'
      BY <3>1
    <3>6. Quitting'
      BY <1>3, <2>1, <3>1, <3>2 DEF StartLoop
    <3>7. JoinedBeforeGone'
      BY <3>1
    <3>8. InTurn'
      BY <1>0, <1>3 DEF StartLoop
    <3> QED
      BY <3>3, <3>4, <3>5, <3>6, <3>7, <3>8
  <2>2. CASE ~loop[k]
    <3>1. /\ owner' = "wait" /\ waiting' = [waiting EXCEPT ![k] = TRUE]
          /\ UNCHANGED <<k, loops, threadVars, loopVars, dealVars>>
      BY <1>3, <2>2 DEF StartLoop, Wait
    <3>2. TypeOK'
      BY <3>1
    <3>3. InOrder'
      BY <1>3, <3>1 DEF StartLoop
    <3>4. WorkerState'
      BY <3>1
    <3>5. Quitting'
      BY <1>3, <3>1 DEF StartLoop
    <3>6. JoinedBeforeGone'
      BY <3>1
    <3>7. InTurn'
      BY <1>0, <1>3 DEF StartLoop
    <3> QED
      BY <3>2, <3>3, <3>4, <3>5, <3>6, <3>7
  <2> QED
    BY <2>1, <2>2
<1>4. CASE Woken
  <2>1. TypeOK'
    BY <1>4 DEF Woken
  <2>2. InOrder'
    BY <1>4 DEF Woken
  <2>3. WorkerState'
    BY <1>4 DEF Woken
  <2>4. Quitting'
    BY <1>4 DEF Woken
  <2>5. JoinedBeforeGone'
    BY <1>4 DEF Woken
  <2>6. InTurn'
    BY <1>0, <1>4 DEF Woken
  <2> QED
    BY <2>1, <2>2, <2>3, <2>4, <2>5, <2>6
<1>5. CASE ReadLoop
  <2>1. TypeOK'
    BY <1>5, SMTT(30) DEF ReadLoop, NextThread
  <2>2. InOrder'
    BY <1>5, SMTT(30) DEF ReadLoop, NextThread
  <2>3. WorkerState'
    BY <1>5 DEF ReadLoop, NextThread
  <2>4. Quitting'
    BY <1>5, SMTT(30) DEF ReadLoop, NextThread
  <2>5. JoinedBeforeGone'
    BY <1>5 DEF ReadLoop, NextThread
  <2>6. InTurn'
    BY <1>0, <1>5 DEF ReadLoop
  <2> QED
    BY <2>1, <2>2, <2>3, <2>4, <2>5, <2>6
<1>6. CASE SetQuit
  <2>1. TypeOK'
    BY <1>6 DEF SetQuit
  <2>2. InOrder'
    BY <1>6 DEF SetQuit
  <2>3. WorkerState'
    BY <1>6 DEF SetQuit
  <2>4. Quitting'
    BY <1>6 DEF SetQuit
  <2>5. JoinedBeforeGone'
    BY <1>6 DEF SetQuit
  <2>6. InTurn'
    BY <1>0, <1>6 DEF SetQuit
  <2> QED
    BY <2>1, <2>2, <2>3, <2>4, <2>5, <2>6
<1>7. CASE Wakeup
  <2>1. TypeOK'
    BY <1>7 DEF Wakeup
  <2>2. InOrder'
    BY <1>7 DEF Wakeup
  <2>3. WorkerState'
    BY <1>7 DEF Wakeup
  <2>4. Quitting'
    BY <1>7 DEF Wakeup
  <2>5. JoinedBeforeGone'
    BY <1>7 DEF Wakeup
  <2>6. InTurn'
    BY <1>0, <1>7 DEF Wakeup
  <2> QED
    BY <2>1, <2>2, <2>3, <2>4, <2>5, <2>6
<1>8. CASE Join
  <2>1. TypeOK'
    BY <1>8, SMTT(30) DEF Join, NextThread
  <2>2. InOrder'
    BY <1>8 DEF Join, NextThread
  <2>3. WorkerState'
    BY <1>8 DEF Join, NextThread
  <2>4. Quitting'
    BY <1>8 DEF Join, NextThread
  <2>5. JoinedBeforeGone'
    BY <1>8, SMTT(30) DEF Join, NextThread
  <2>6. InTurn'
    BY <1>0, <1>8 DEF Join
  <2> QED
    BY <2>1, <2>2, <2>3, <2>4, <2>5, <2>6
<1>9. CASE StopPool
  <2>1. TypeOK'
    BY <1>9 DEF StopPool
  <2>2. InOrder'
    BY <1>9 DEF StopPool
  <2>3. WorkerState'
    BY <1>9 DEF StopPool
  <2>4. Quitting'
    BY <1>9 DEF StopPool
  <2>5. JoinedBeforeGone'
    BY <1>9 DEF StopPool
  <2>6. InTurn'
    BY <1>0, <1>9 DEF StopPool
  <2> QED
    BY <2>1, <2>2, <2>3, <2>4, <2>5, <2>6
<1>10. ASSUME NEW i \in Worker, SetTid(i) PROVE PoolInvariant'
  <2>1. TypeOK'
    BY <1>10 DEF SetTid, Goto
  <2>2. InOrder'
    BY <1>10 DEF SetTid, Goto
  <2>3. WorkerState'
    <3>1. UNCHANGED <<sem, inited, exists, loop>>
      BY <1>10 DEF SetTid, loopVars
    <3>2. worker[i] = "spawned" /\ worker'[i] = "post" /\ tid'[i] = TRUE
      BY <1>10 DEF SetTid, Goto, TypeOK
    <3>3. \A j \in Worker : j # i => worker'[j] = worker[j] /\ tid'[j] = tid[j]
      BY <1>10 DEF SetTid, Goto, TypeOK
    <3> QED
      BY <3>1, <3>2, <3>3 DEF WorkerState
  <2>4. Quitting'
    <3>1. UNCHANGED <<owner, k, loops, quit>>
      BY <1>10 DEF SetTid, Goto
    <3>2. worker[i] = "spawned" /\ worker'[i] = "post"
      BY <1>10 DEF SetTid, Goto, TypeOK
    <3>3. \A j \in Worker : j # i => worker'[j] = worker[j]
      BY <1>10 DEF SetTid, Goto, TypeOK
    <3> QED
      BY <3>1, <3>2, <3>3 DEF Quitting
  <2>5. JoinedBeforeGone'
    BY <1>10 DEF SetTid, Goto
  <2>6. InTurn'
    BY <1>0, <1>10 DEF SetTid
  <2> QED
    BY <2>1, <2>2, <2>3, <2>4, <2>5, <2>6
<1>11. ASSUME NEW i \in Worker, SemPost(i) PROVE PoolInvariant'
  <2>1. TypeOK'
    BY <1>11 DEF SemPost, Goto
  <2>2. InOrder'
    BY <1>11 DEF SemPost, Goto
  <2>3. WorkerState'
    BY <1>11, SMTT(30) DEF SemPost, Goto
  <2>4. Quitting'
    <3>1. UNCHANGED <<owner, k, loops, quit>>
      BY <1>11 DEF SemPost, Goto
    <3>2. worker[i] = "post" /\ worker'[i] = "construct"
      BY <1>11 DEF SemPost, Goto, TypeOK
    <3>3. \A j \in Worker : j # i => worker'[j] = worker[j]
      BY <1>11 DEF SemPost, Goto, TypeOK
    <3> QED
      BY <3>1, <3>2, <3>3 DEF Quitting
  <2>5. JoinedBeforeGone'
    BY <1>11 DEF SemPost, Goto
  <2>6. InTurn'
    BY <1>0, <1>11 DEF SemPost
  <2> QED
    BY <2>1, <2>2, <2>3, <2>4, <2>5, <2>6
<1>12. ASSUME NEW i \in Worker, Construct(i) PROVE PoolInvariant'
  <2>1. TypeOK'
    BY <1>12 DEF Construct, Goto
  <2>2. InOrder'
    BY <1>12 DEF Construct, Goto
  <2>3. WorkerState'
    BY <1>12 DEF Construct, Goto
  <2>4. Quitting'
    <3>1. UNCHANGED <<owner, k, loops, quit>>
      BY <1>12 DEF Construct, Goto
    <3>2. worker[i] = "construct" /\ worker'[i] = "callback"
      BY <1>12 DEF Construct, Goto, TypeOK
    <3>3. \A j \in Worker : j # i => worker'[j] = worker[j]
      BY <1>12 DEF Construct, Goto, TypeOK
    <3> QED
      BY <3>1, <3>2, <3>3 DEF Quitting
  <2>5. JoinedBeforeGone'
    BY <1>12 DEF Construct, Goto
  <2>6. InTurn'
    BY <1>0, <1>12 DEF Construct
  <2> QED
    BY <2>1, <2>2, <2>3, <2>4, <2>5, <2>6
<1>13. ASSUME NEW i \in Worker, Callback(i) PROVE PoolInvariant'
  <2>1. TypeOK'
    BY <1>13 DEF Callback, Goto
  <2>2. InOrder'
    BY <1>13 DEF Callback, Goto
  <2>3. WorkerState'
    <3>1. UNCHANGED <<sem, tid, exists, loop>>
      BY <1>13 DEF Callback, loopVars
    <3>2. worker[i] = "callback" /\ worker'[i] = "publish" /\ inited'[i] = TRUE
      BY <1>13 DEF Callback, Goto, TypeOK
    <3>3. \A j \in Worker : j # i => worker'[j] = worker[j] /\ inited'[j] = inited[j]
      BY <1>13 DEF Callback, Goto, TypeOK
    <3> QED
      BY <3>1, <3>2, <3>3 DEF WorkerState
  <2>4. Quitting'
    <3>1. UNCHANGED <<owner, k, loops, quit>>
      BY <1>13 DEF Callback, Goto
    <3>2. worker[i] = "callback" /\ worker'[i] = "publish"
      BY <1>13 DEF Callback, Goto, TypeOK
    <3>3. \A j \in Worker : j # i => worker'[j] = worker[j]
      BY <1>13 DEF Callback, Goto, TypeOK
    <3> QED
      BY <3>1, <3>2, <3>3 DEF Quitting
  <2>5. JoinedBeforeGone'
    BY <1>13 DEF Callback, Goto
  <2>6. InTurn'
    BY <1>0, <1>13 DEF Callback
  <2> QED
    BY <2>1, <2>2, <2>3, <2>4, <2>5, <2>6
<1>14. ASSUME NEW i \in Worker, Publish(i) PROVE PoolInvariant'
  <2>1. TypeOK'
    BY <1>14 DEF Publish, Goto
  <2>2. InOrder'
    BY <1>14 DEF Publish, Goto
  <2>3. WorkerState'
    <3>1. UNCHANGED <<sem, tid, inited, exists>>
      BY <1>14 DEF Publish
    <3>2. worker[i] = "publish" /\ worker'[i] = "begin" /\ loop'[i] = TRUE
      BY <1>14 DEF Publish, Goto, TypeOK
    <3>3. \A j \in Worker : j # i => worker'[j] = worker[j] /\ loop'[j] = loop[j]
      BY <1>14 DEF Publish, Goto, TypeOK
    <3> QED
      BY <3>1, <3>2, <3>3 DEF WorkerState
  <2>4. Quitting'
    <3>1. UNCHANGED <<owner, k, loops, quit>>
      BY <1>14 DEF Publish, Goto
    <3>2. worker[i] = "publish" /\ worker'[i] = "begin"
      BY <1>14 DEF Publish, Goto, TypeOK
    <3>3. \A j \in Worker : j # i => worker'[j] = worker[j]
      BY <1>14 DEF Publish, Goto, TypeOK
    <3> QED
      BY <3>1, <3>2, <3>3 DEF Quitting
  <2>5. JoinedBeforeGone'
    BY <1>14 DEF Publish, Goto
  <2>6. InTurn'
    BY <1>0, <1>14 DEF Publish
  <2> QED
    BY <2>1, <2>2, <2>3, <2>4, <2>5, <2>6
<1>15. ASSUME NEW i \in Worker, LoopBegin(i) PROVE PoolInvariant'
  <2>1. TypeOK'
    BY <1>15 DEF LoopBegin, Goto
  <2>2. InOrder'
    BY <1>15 DEF LoopBegin, Goto
  <2>3. WorkerState'
    <3>1. /\ worker[i] = "begin" /\ worker'[i] = "check"
          /\ \A j \in Worker : j # i => worker'[j] = worker[j]
          /\ tid' = tid /\ inited' = inited /\ exists' = exists /\ loop' = loop /\ sem' = sem
      BY <1>15 DEF LoopBegin, Goto
    <3> QED
      BY <1>15, <3>1 DEF WorkerState
  <2>4. Quitting'
    BY <1>15 DEF LoopBegin, Goto
  <2>5. JoinedBeforeGone'
    BY <1>15 DEF LoopBegin, Goto
  <2>6. InTurn'
    BY <1>0, <1>15 DEF LoopBegin
  <2> QED
    BY <2>1, <2>2, <2>3, <2>4, <2>5, <2>6
<1>16. ASSUME NEW i \in Worker, CheckQuit(i) PROVE PoolInvariant'
  <2>1. TypeOK'
    BY <1>16 DEF CheckQuit, Goto
  <2>2. InOrder'
    BY <1>16 DEF CheckQuit, Goto
  <2>3. WorkerState'
    BY <1>16 DEF CheckQuit, Goto
  <2>4. Quitting'
    BY <1>16 DEF CheckQuit, Goto
  <2>5. JoinedBeforeGone'
    BY <1>16 DEF CheckQuit, Goto
  <2>6. InTurn'
    BY <1>0, <1>16 DEF CheckQuit
  <2> QED
    BY <2>1, <2>2, <2>3, <2>4, <2>5, <2>6
<1>17. ASSUME NEW i \in Worker, Served(i) PROVE PoolInvariant'
  <2>1. TypeOK'
    BY <1>17 DEF Served, Goto
  <2>2. InOrder'
    BY <1>17 DEF Served, Goto
  <2>3. WorkerState'
    <3>1. UNCHANGED <<sem, tid, inited, exists, loop>>
      BY <1>17 DEF Served
    <3>2. worker[i] = "poll" /\ worker'[i] = "check"
      BY <1>17 DEF Served, Goto, TypeOK
    <3>3. \A j \in Worker : j # i => worker'[j] = worker[j]
      BY <1>17 DEF Served, Goto, TypeOK
    <3> QED
      BY <3>1, <3>2, <3>3 DEF WorkerState
  <2>4. Quitting'
    BY <1>17 DEF Served, Goto
  <2>5. JoinedBeforeGone'
    BY <1>17 DEF Served, Goto
  <2>6. InTurn'
    BY <1>0, <1>17 DEF Served
  <2> QED
    BY <2>1, <2>2, <2>3, <2>4, <2>5, <2>6
<1>18. ASSUME NEW i \in Worker, Clear(i) PROVE PoolInvariant'
  <2>1. TypeOK'
    BY <1>18 DEF Clear, Goto
  <2>2. InOrder'
    BY <1>18 DEF Clear, Goto
  <2>3. WorkerState'
    BY <1>18 DEF Clear, Goto
  <2>4. Quitting'
    BY <1>18 DEF Clear, Goto
  <2>5. JoinedBeforeGone'
    BY <1>18 DEF Clear, Goto
  <2>6. InTurn'
    BY <1>0, <1>18 DEF Clear
  <2> QED
    BY <2>1, <2>2, <2>3, <2>4, <2>5, <2>6
<1>19. ASSUME NEW i \in Worker, DestroyLoop(i) PROVE PoolInvariant'
  <2>1. TypeOK'
    BY <1>19 DEF DestroyLoop, Goto
  <2>2. InOrder'
    BY <1>19 DEF DestroyLoop, Goto
  <2>3. WorkerState'
    BY <1>19, SMTT(30) DEF DestroyLoop, Goto
  <2>4. Quitting'
    BY <1>19, SMTT(30) DEF DestroyLoop, Goto
  <2>5. JoinedBeforeGone'
    BY <1>19 DEF DestroyLoop, Goto
  <2>6. InTurn'
    BY <1>0, <1>19 DEF DestroyLoop
  <2> QED
    BY <2>1, <2>2, <2>3, <2>4, <2>5, <2>6
<1>20. CASE UNCHANGED vars
  BY <1>0, <1>20 DEF vars
<1>21. CASE Deal
  <2>1. TypeOK' /\ InTurn'
    BY <1>21, DealInTurn
  <2>2. InOrder'
    BY <1>21 DEF Deal
  <2>3. WorkerState'
    BY <1>21 DEF Deal
  <2>4. Quitting'
    BY <1>21 DEF Deal
  <2>5. JoinedBeforeGone'
    BY <1>21 DEF Deal
  <2> QED
    BY <2>1, <2>2, <2>3, <2>4, <2>5
<1> QED
  BY <1>1, <1>2, <1>3, <1>4, <1>5, <1>6, <1>7, <1>8, <1>9, <1>10, <1>11, <1>12,
     <1>13, <1>14, <1>15, <1>16, <1>17, <1>18, <1>19, <1>20, <1>21
     DEF Next, OwnerStep, WorkerStep

\* The invariant of EventLoopThreadPool::start, startLoop, threadFunc_ and
\* ~EventLoopThread together.
THEOREM PoolCorrect == Spec => []PoolInvariant
  BY PoolInit, PoolStep, PTL DEF Spec

\* A pool of any size hands out only loops that exist, have been initialised
\* and have a known thread until they are told to quit, and its destructor
\* passes no thread that is still running.
THEOREM PoolHandshake == Spec => [](LoopsUsable /\ JoinedBeforeGone)
<1>1. PoolInvariant => LoopsUsable /\ JoinedBeforeGone
  <2> SUFFICES ASSUME PoolInvariant PROVE LoopsUsable
      BY DEF PoolInvariant
  <2> SUFFICES ASSUME NEW n \in DOMAIN loops
               PROVE  /\ loops[n] = n /\ tid[n] /\ inited[n]
                      /\ exists[n] \/ quit[n]
      BY DEF LoopsUsable, PoolInvariant, InOrder
  <2>0. loops \in Seq(Worker) /\ loops[n] = n
    BY DEF PoolInvariant, TypeOK, InOrder
  <2>1. n \in Worker /\ n <= Len(loops) /\ loops[n] = n
    BY <2>0, ElementOfSeq, LenProperties
  <2> QED
    BY <2>1 DEF PoolInvariant, WorkerState, Quitting
<1> QED
  BY <1>1, PoolCorrect, PTL

\* getNextLoop deals connections evenly over the sub-loops of a pool of any size,
\* however many there have been.
THEOREM PoolBalanced == Spec => []Balanced
<1>1. PoolInvariant => Balanced
  <2> SUFFICES ASSUME PoolInvariant, NEW i \in Worker, NEW j \in Worker
               PROVE  dealt[i] <= dealt[j] + 1
    BY DEF Balanced
  <2>1. dealt[i] + Turn(j) = dealt[j] + Turn(i)
    BY DEF PoolInvariant, InTurn
  <2>2. dealt[i] \in Nat /\ dealt[j] \in Nat
    BY ThreadsAssumption DEF PoolInvariant, TypeOK, Worker
  <2> QED
    BY <2>1, <2>2 DEF Turn
<1> QED
  BY <1>1, PoolCorrect, PTL

\* ~EventLoopThread passes no thread whose loop it has seen before the thread
\* has ended.
THEOREM PoolJoined == Spec => []JoinedBeforeGone
<1>1. PoolInvariant => JoinedBeforeGone
  BY DEF PoolInvariant
<1> QED
  BY <1>1, PoolCorrect, PTL
=============================================================================
