--------------------------- MODULE EventLoopProofs --------------------------
(***************************************************************************)
(* Proofs about EventLoop, for any number of calling threads and functors: *)
(* the type invariant, no lost wake-up, conservation of functors and the   *)
(* refinement of Executor; and about the Poller that a loop owns.          *)
(***************************************************************************)
EXTENDS EventLoop, Poller, SequenceTheorems, TLAPS

USE ThreadAssumption, BoundAssumption

\* The empty vector is a vector of functors.
LEMMA EmptyVector == <<>> \in Seq(Functor)
  OBVIOUS

\* An emplace_back, torn or not, leaves a vector of functors.
LEMMA EmplaceType ==
  ASSUME TypeOK, NEW t \in Thread, Emplaced(t)
  PROVE  pending' \in Seq(Functor) /\ queued' \in Seq(Functor)
<1>1. arg[t] \in Functor /\ snap[t] \in Seq(Functor)
  BY DEF TypeOK, Emplaced
<1>2. Append(pending, arg[t]) \in Seq(Functor)
  BY <1>1, AppendProperties DEF TypeOK
<1>3. Append(snap[t], arg[t]) \in Seq(Functor)
  BY <1>1, AppendProperties DEF TypeOK
<1>4. Append(queued, arg[t]) \in Seq(Functor)
  BY <1>1, AppendProperties DEF TypeOK
<1>5. QED
  BY <1>2, <1>3, <1>4 DEF TypeOK, Emplaced, EmplaceOutcomes

\* Every step of the loop and its callers keeps the types.
LEMMA TypeStep == TypeOK /\ [Next]_vars => TypeOK'
<1> SUFFICES ASSUME TypeOK, [Next]_vars
             PROVE  TypeOK'
  OBVIOUS
<1> USE DEF TypeOK, LoopPoint, CallPoint
<1>1. CASE LoopBegin
  BY <1>1 DEF LoopBegin, OwnerAt
<1>2. CASE CheckQuit
  BY <1>2 DEF CheckQuit, OwnerAt
<1>3. CASE HandleEvent
  BY <1>3 DEF HandleEvent, OwnerAt
<1>4. CASE SwapBegin
  BY <1>4 DEF SwapBegin, OwnerAt, EnterVector, InVector, Thread
<1>5. CASE SwapEnd
  <2>1. Owner \in Thread
    BY DEF Thread
  <2>2. QED
    BY <1>5, <2>1, EmptyVector DEF SwapEnd
<1>6. CASE RunFunctor
  <2>1. Tail(functor) \in Seq(Functor) /\ Head(functor) \in Functor
    BY <1>6, HeadTailProperties DEF RunFunctor
  <2>2. Append(ran, Head(functor)) \in Seq(Functor)
    BY <2>1, AppendProperties
  <2>3. QED
    BY <1>6, <2>1, <2>2 DEF RunFunctor, OwnerAt
<1>7. CASE PendingDone
  BY <1>7 DEF PendingDone, OwnerAt
<1>8. ASSUME NEW io \in {{}, {"io"}}, PollEvents(io)
      PROVE  TypeOK'
  BY <1>8 DEF PollEvents, OwnerAt, Ready, Channel
<1>9. CASE PollNothing
  BY <1>9 DEF PollNothing, OwnerAt
<1>10. ASSUME NEW t \in Thread, QueueInLoop(t)
       PROVE  TypeOK'
  BY <1>10 DEF QueueInLoop, MayCall, EnterVector, InVector, Functor
<1>11. ASSUME NEW t \in Thread, Quit(t)
       PROVE  TypeOK'
  BY <1>11 DEF Quit, MayCall
<1>12. ASSUME NEW t \in Thread, Emplaced(t)
       PROVE  TypeOK'
  <2>1. pending' \in Seq(Functor) /\ queued' \in Seq(Functor)
    BY <1>12, EmplaceType
  <2>2. arg' \in [Thread -> 0 .. MaxFunctors]
    BY <1>12 DEF Emplaced
  <2>3. snap' \in [Thread -> Seq(Functor)]
    BY <1>12, EmptyVector DEF Emplaced
  <2>4. call' \in [Thread -> CallPoint]
    BY <1>12 DEF Emplaced
  <2>5. \A u \in Thread : call'[u] = "emplacing" => arg'[u] \in Functor
    BY <1>12 DEF Emplaced
  <2>6. QED
    BY <1>12, <2>1, <2>2, <2>3, <2>4, <2>5 DEF Emplaced
<1>13. ASSUME NEW t \in Thread, Wakeup(t)
       PROVE  TypeOK'
  BY <1>13 DEF Wakeup
<1>14. CASE Crash
  BY <1>14 DEF Crash
<1>15. CASE UNCHANGED vars
  BY <1>15 DEF vars
<1>16. QED
  BY <1>1, <1>2, <1>3, <1>4, <1>5, <1>6, <1>7, <1>8, <1>9, <1>10, <1>11,
     <1>12, <1>13, <1>14, <1>15 DEF Next, OwnerStep, CallStep

\* The initial state has the types.
LEMMA TypeInit == Init => TypeOK
<1> SUFFICES ASSUME Init PROVE TypeOK
  OBVIOUS
<1>1. snap \in [Thread -> Seq(Functor)]
  BY EmptyVector DEF Init
<1>2. call \in [Thread -> CallPoint] /\ loopPc \in LoopPoint
  BY DEF Init, CallPoint, LoopPoint
<1>3. arg \in [Thread -> 0 .. MaxFunctors] /\ submitted \in 0 .. MaxFunctors
  BY DEF Init
<1>4. \A t \in Thread : call[t] # "emplacing"
  BY DEF Init
<1>5. QED
  BY <1>1, <1>2, <1>3, <1>4, EmptyVector DEF Init, TypeOK

\* The type invariant of the loop.
THEOREM TypeInvariance == Spec => []TypeOK
  BY TypeInit, TypeStep, PTL DEF Spec

-----------------------------------------------------------------------------
(* The inductive invariant.                                                 *)

\* The owner is inside a call only where MayCall and SwapBegin let it be.
LEMMA OwnerControlStep ==
  TypeOK /\ OwnerControl /\ [Next]_vars => OwnerControl'
<1> SUFFICES ASSUME TypeOK, OwnerControl, [Next]_vars
             PROVE  OwnerControl'
  OBVIOUS
<1>0. Owner \in Thread
  BY DEF Thread
<1> USE <1>0 DEF TypeOK, OwnerControl
<1>1. CASE OwnerStep
  BY <1>1 DEF OwnerStep, LoopBegin, CheckQuit, HandleEvent, SwapBegin, SwapEnd,
              RunFunctor, PendingDone, OwnerAt
<1>2. ASSUME NEW io \in {{}, {"io"}}, PollEvents(io)
      PROVE  OwnerControl'
  BY <1>2 DEF PollEvents, OwnerAt
<1>3. CASE PollNothing
  BY <1>3 DEF PollNothing, OwnerAt
<1>4. ASSUME NEW t \in Thread, QueueInLoop(t) \/ Quit(t)
      PROVE  OwnerControl'
  BY <1>4 DEF QueueInLoop, Quit, MayCall, Thread
<1>5. ASSUME NEW t \in Thread, CallStep(t)
      PROVE  OwnerControl'
  BY <1>5 DEF CallStep, Emplaced, Wakeup
<1>6. CASE Crash
  BY <1>6 DEF Crash
<1>7. CASE UNCHANGED vars
  BY <1>7 DEF vars
<1>8. QED
  BY <1>1, <1>2, <1>3, <1>4, <1>5, <1>6, <1>7 DEF Next

\* A functor that appears in the vector after the swap brings its wake-up, and
\* the wake-up is consumed only before the next swap.
LEMMA WakeupOwedStep ==
  TypeOK /\ OwnerControl /\ WakeupOwed /\ [Next]_vars => WakeupOwed'
<1> SUFFICES ASSUME TypeOK, OwnerControl, WakeupOwed, [Next]_vars
             PROVE  WakeupOwed'
  OBVIOUS
<1> USE DEF TypeOK, WakeupOwed
<1>1. CASE LoopBegin \/ CheckQuit \/ RunFunctor \/ PendingDone
  BY <1>1 DEF LoopBegin, CheckQuit, RunFunctor, PendingDone, OwnerAt
<1>2. CASE HandleEvent \/ SwapBegin
  BY <1>2 DEF HandleEvent, SwapBegin, OwnerAt
<1>3. CASE SwapEnd
  BY <1>3 DEF SwapEnd
<1>4. ASSUME NEW io \in {{}, {"io"}}, PollEvents(io)
      PROVE  WakeupOwed'
  BY <1>4 DEF PollEvents
<1>5. CASE PollNothing
  BY <1>5 DEF PollNothing
<1>6. ASSUME NEW t \in Thread, QueueInLoop(t) \/ Quit(t)
      PROVE  WakeupOwed'
  BY <1>6 DEF QueueInLoop, Quit, MayCall
<1>7. ASSUME NEW t \in Thread, Emplaced(t)
      PROVE  WakeupOwed'
  \* Outside doPendingFunctors only another thread gets this far, and it wakes
  \* the owner; inside, callingPendingFunctors_ makes the owner wake itself.
  <2>1. CASE t # Owner \/ calling
    BY <1>7, <2>1 DEF Emplaced
  <2>2. CASE t = Owner /\ ~calling
    BY <1>7, <2>2 DEF Emplaced, OwnerControl
  <2>3. QED
    BY <2>1, <2>2
<1>8. ASSUME NEW t \in Thread, Wakeup(t)
      PROVE  WakeupOwed'
  BY <1>8 DEF Wakeup
<1>9. CASE Crash \/ UNCHANGED vars
  BY <1>9 DEF Crash, vars
<1>10. QED
  BY <1>1, <1>2, <1>3, <1>4, <1>5, <1>6, <1>7, <1>8, <1>9
  DEF Next, OwnerStep, CallStep

\* A thread that finds another one inside the vector tears it, so as long as it
\* is not torn nobody changes it under a thread that is inside.
LEMMA AloneInVectorStep ==
  TypeOK /\ OwnerControl /\ AloneInVector /\ [Next]_vars => AloneInVector'
<1> SUFFICES ASSUME TypeOK, OwnerControl, AloneInVector, [Next]_vars
             PROVE  AloneInVector'
  OBVIOUS
<1>0. Owner \in Thread
  BY DEF Thread
<1> USE <1>0 DEF TypeOK, AloneInVector, InVector
<1>1. CASE LoopBegin \/ CheckQuit \/ HandleEvent \/ RunFunctor \/ PendingDone
  BY <1>1 DEF LoopBegin, CheckQuit, HandleEvent, RunFunctor, PendingDone
<1>2. CASE SwapBegin
  BY <1>2 DEF SwapBegin, EnterVector
<1>3. CASE SwapEnd
  BY <1>3 DEF SwapEnd
<1>4. ASSUME NEW io \in {{}, {"io"}}, PollEvents(io)
      PROVE  AloneInVector'
  BY <1>4 DEF PollEvents
<1>5. CASE PollNothing
  BY <1>5 DEF PollNothing
<1>6. ASSUME NEW t \in Thread, QueueInLoop(t)
      PROVE  AloneInVector'
  BY <1>6 DEF QueueInLoop, EnterVector
<1>7. ASSUME NEW t \in Thread, Quit(t)
      PROVE  AloneInVector'
  BY <1>7 DEF Quit
<1>8. ASSUME NEW t \in Thread, Emplaced(t)
      PROVE  AloneInVector'
  BY <1>8 DEF Emplaced
<1>9. ASSUME NEW t \in Thread, Wakeup(t)
      PROVE  AloneInVector'
  BY <1>9 DEF Wakeup
<1>10. CASE Crash \/ UNCHANGED vars
  BY <1>10 DEF Crash, vars
<1>11. QED
  BY <1>1, <1>2, <1>3, <1>4, <1>5, <1>6, <1>7, <1>8, <1>9, <1>10
  DEF Next, OwnerStep, CallStep

\* The local vector of doPendingFunctors is filled by the swap and drained
\* before the loop goes on.
LEMMA LocalVectorStep ==
  TypeOK /\ OwnerControl /\ LocalVector /\ [Next]_vars => LocalVector'
  BY DEF TypeOK, OwnerControl, LocalVector, Next, OwnerStep, LoopBegin,
         CheckQuit, HandleEvent, SwapBegin, SwapEnd, RunFunctor, PendingDone,
         OwnerAt, PollEvents, PollNothing, QueueInLoop, Quit, CallStep,
         Emplaced, Wakeup, Crash, vars

\* The inductive invariant of the loop.
THEOREM LoopInvariance == Spec => [](TypeOK /\ LoopInvariant)
<1>1. Init => LoopInvariant
  BY DEF Init, LoopInvariant, OwnerControl, WakeupOwed, AloneInVector, InVector,
         LocalVector, Thread
<1>2. TypeOK /\ LoopInvariant /\ [Next]_vars => LoopInvariant'
  BY OwnerControlStep, WakeupOwedStep, AloneInVectorStep, LocalVectorStep
  DEF LoopInvariant
<1>3. QED
  BY <1>1, <1>2, TypeInit, TypeStep, PTL DEF Spec

\* No lost wake-up: whatever the threads do, the owner never blocks in
\* epoll_wait on a functor that nobody is going to wake it for.
THEOREM WakeupNeverLost == Spec => []NoLostWakeup
<1>1. TypeOK /\ LoopInvariant => NoLostWakeup
  BY DEF TypeOK, LoopInvariant, OwnerControl, WakeupOwed, NoLostWakeup, Thread
<1>2. QED
  BY <1>1, LoopInvariance, PTL

-----------------------------------------------------------------------------
(* Conservation of functors.                                                *)

\* Appending to the last part of a concatenation appends to the whole.
LEMMA AppendLast ==
  ASSUME NEW a \in Seq(Functor), NEW b \in Seq(Functor), NEW e \in Functor
  PROVE  Append(a \o b, e) = a \o Append(b, e)
<1>1. a \o b \in Seq(Functor) /\ <<e>> \in Seq(Functor)
  BY ConcatProperties
<1>2. Append(a \o b, e) = (a \o b) \o <<e>>
  BY <1>1, AppendIsConcat
<1>3. Append(b, e) = b \o <<e>>
  BY AppendIsConcat
<1>4. (a \o b) \o <<e>> = a \o (b \o <<e>>)
  BY <1>1, ConcatAssociative
<1>5. QED
  BY <1>2, <1>3, <1>4

\* Moving the head of the second part behind the first keeps the whole.
LEMMA HeadMoves ==
  ASSUME NEW S, NEW a \in Seq(S), NEW b \in Seq(S), b # <<>>
  PROVE  a \o b = Append(a, Head(b)) \o Tail(b)
<1>1. Head(b) \in S /\ Tail(b) \in Seq(S) /\ <<Head(b)>> \in Seq(S)
  BY HeadTailProperties
<1>2. b = <<Head(b)>> \o Tail(b)
  BY <1>1, HeadTailProperties, ConcatProperties
<1>3. Append(a, Head(b)) = a \o <<Head(b)>>
  BY <1>1, AppendIsConcat
<1>4. QED
  BY <1>1, <1>2, <1>3, ConcatAssociative

\* The element behind a prefix is the head of what follows.
LEMMA HeadBehind ==
  ASSUME NEW S, NEW a \in Seq(S), NEW b \in Seq(S), NEW c \in Seq(S), b # <<>>
  PROVE  /\ Len(a) < Len(a \o b \o c)
         /\ (a \o b \o c)[Len(a) + 1] = Head(b)
<1>1. a \o b \in Seq(S) /\ Len(a \o b) = Len(a) + Len(b)
  BY ConcatProperties
<1>2. Len(a) \in Nat /\ Len(b) \in Nat \ {0} /\ Len(c) \in Nat
  BY EmptySeq, LenProperties
<1>3. Len(a \o b \o c) = Len(a) + Len(b) + Len(c)
  BY <1>1, ConcatProperties
<1>4. (a \o b \o c)[Len(a) + 1] = (a \o b)[Len(a) + 1]
  BY <1>1, <1>2, ConcatProperties
<1>5. (a \o b)[Len(a) + 1] = b[1]
  BY <1>2, ConcatProperties
<1>6. QED
  BY <1>2, <1>3, <1>4, <1>5

\* Every step conserves the functors as long as the vector is not torn.
LEMMA ConservationStep ==
  TypeOK /\ LoopInvariant /\ Conservation /\ [Next]_vars => Conservation'
<1> SUFFICES ASSUME TypeOK, LoopInvariant, Conservation, [Next]_vars
             PROVE  Conservation'
  OBVIOUS
<1> USE DEF Conservation
<1>1. CASE LoopBegin \/ CheckQuit \/ HandleEvent \/ PendingDone
  BY <1>1 DEF LoopBegin, CheckQuit, HandleEvent, PendingDone
<1>2. CASE SwapBegin
  BY <1>2 DEF SwapBegin, EnterVector, TypeOK
<1>3. CASE SwapEnd
  <2> SUFFICES ASSUME ~torn
               PROVE  queued = ran \o functor' \o <<>>
    BY <1>3 DEF SwapEnd
  <2>1. functor = <<>>
    BY <1>3 DEF SwapEnd, LoopInvariant, OwnerControl, LocalVector
  <2>2. functor' = pending
    BY <1>3 DEF SwapEnd, LoopInvariant, AloneInVector, InVector, Thread
  <2>3. ran \o functor = ran /\ ran \o pending \in Seq(Functor)
    BY <2>1, ConcatEmptySeq, ConcatProperties DEF TypeOK
  <2>4. ran \o pending \o <<>> = ran \o pending
    BY <2>3, ConcatEmptySeq
  <2>5. QED
    BY <2>2, <2>3, <2>4
<1>4. CASE RunFunctor
  BY <1>4, HeadMoves DEF RunFunctor, TypeOK
<1>5. ASSUME NEW io \in {{}, {"io"}}, PollEvents(io)
      PROVE  Conservation'
  BY <1>5 DEF PollEvents
<1>6. CASE PollNothing
  BY <1>6 DEF PollNothing
<1>7. ASSUME NEW t \in Thread, QueueInLoop(t)
      PROVE  Conservation'
  BY <1>7 DEF QueueInLoop, EnterVector, TypeOK
<1>8. ASSUME NEW t \in Thread, Quit(t) \/ Wakeup(t)
      PROVE  Conservation'
  BY <1>8 DEF Quit, Wakeup
<1>9. ASSUME NEW t \in Thread, Emplaced(t)
      PROVE  Conservation'
  <2> SUFFICES ASSUME ~torn
               PROVE  queued' = ran \o functor \o pending'
    BY <1>9 DEF Emplaced
  <2>1. snap[t] = pending
    BY <1>9 DEF Emplaced, LoopInvariant, AloneInVector, InVector
  <2>2. pending' = Append(pending, arg[t]) /\ queued' = Append(queued, arg[t])
    BY <1>9, <2>1 DEF Emplaced, EmplaceOutcomes
  <2>3. arg[t] \in Functor
    BY <1>9 DEF Emplaced, TypeOK
  <2> DEFINE front == ran \o functor
  <2>4. front \in Seq(Functor) /\ pending \in Seq(Functor)
    BY ConcatProperties DEF TypeOK
  <2>5. Append(front \o pending, arg[t]) = front \o Append(pending, arg[t])
    BY <2>3, <2>4, AppendLast, Zenon
  <2>6. QED
    BY <2>2, <2>5
<1>10. CASE Crash \/ UNCHANGED vars
  BY <1>10 DEF Crash, vars
<1>11. QED
  BY <1>1, <1>2, <1>3, <1>4, <1>5, <1>6, <1>7, <1>8, <1>9, <1>10
  DEF Next, OwnerStep, CallStep

\* Until two threads meet inside pendingFunctors_ no functor is lost, repeated
\* or overtaken.
THEOREM FunctorsConserved == Spec => []Conservation
<1>1. Init => Conservation
  <2>1. <<>> \o <<>> = <<>>
    BY EmptyVector, ConcatEmptySeq
  <2>2. QED
    BY <2>1 DEF Init, Conservation
<1>2. QED
  BY <1>1, ConservationStep, LoopInvariance, PTL DEF Spec

-----------------------------------------------------------------------------
(* Refinement.                                                              *)

\* The loop implements the executor its callers rely on: accepted functors run
\* at most once and in order, until the vector is torn.
THEOREM LoopImplementsExecutor == Spec => ImplementsExecutor
<1>1. Init => Exec!ExecInit
  BY DEF Init, Exec!ExecInit
<1>2. TypeOK /\ LoopInvariant /\ Conservation /\ [Next]_vars
        => [Exec!ExecNext]_(Exec!execVars)
  <2> SUFFICES ASSUME TypeOK, LoopInvariant, Conservation, [Next]_vars
               PROVE  Exec!ExecNext \/ UNCHANGED <<queued, ran, torn>>
    BY DEF Exec!execVars
  <2>1. CASE RunFunctor
    <3>1. CASE torn
      BY <2>1, <3>1 DEF RunFunctor, Exec!ExecNext
    <3>2. CASE ~torn
      <4>1. functor # <<>> /\ ran' = Append(ran, Head(functor))
        BY <2>1 DEF RunFunctor
      <4>2. /\ ran \in Seq(Functor)
            /\ functor \in Seq(Functor)
            /\ pending \in Seq(Functor)
            /\ queued = ran \o functor \o pending
        BY <3>2 DEF Conservation, TypeOK
      <4>3. Len(ran) < Len(queued) /\ queued[Len(ran) + 1] = Head(functor)
        BY <4>1, <4>2, HeadBehind, Zenon
      <4>4. Exec!Execute
        BY <2>1, <4>1, <4>3 DEF RunFunctor, Exec!Execute
      <4>5. QED
        BY <4>4 DEF Exec!ExecNext
    <3>3. QED
      BY <3>1, <3>2
  <2>2. ASSUME NEW t \in Thread, Emplaced(t)
        PROVE  Exec!ExecNext
    <3>1. arg[t] \in Functor /\ Exec!Accept(arg[t])
      BY <2>2 DEF Emplaced, TypeOK, Exec!Accept
    <3>2. QED
      BY <3>1 DEF Exec!ExecNext
  <2>3. CASE SwapBegin \/ \E t \in Thread : QueueInLoop(t)
    <3>1. torn' \in {torn, TRUE} /\ UNCHANGED <<queued, ran>>
      BY <2>3 DEF SwapBegin, QueueInLoop, EnterVector, TypeOK
    <3>2. QED
      BY <3>1 DEF Exec!ExecNext, Exec!Break
  <2>4. CASE UNCHANGED <<queued, ran, torn>>
    BY <2>4
  <2>5. QED
    BY <2>1, <2>2, <2>3, <2>4
    DEF Next, OwnerStep, CallStep, LoopBegin, CheckQuit, HandleEvent, SwapEnd,
        PendingDone, PollEvents, PollNothing, Quit, Wakeup, Crash, vars
<1>3. QED
  BY <1>1, <1>2, LoopInvariance, FunctorsConserved, PTL
  DEF Spec, ImplementsExecutor, Exec!ExecSpec

-----------------------------------------------------------------------------
(* The channels of a loop and its poller: index_, channels_ and the kernel's *)
(* epoll set agree after any sequence of channel operations, for any number  *)
(* of channels and descriptors.                                              *)

USE NoneAssumption, SlotsAssumption

\* Invariants hold of the empty poller.
LEMMA PollerInitCorrect == PollerInit => PollerInvariant
<1> SUFFICES ASSUME PollerInit PROVE PollerInvariant
  OBVIOUS
<1>1. PollerTypeOK
  BY DEF PollerInit, PollerTypeOK, Index, Phase
<1>2. MapAgrees /\ KernelAgrees
  BY DEF PollerInit, MapAgrees, KernelAgrees
<1>3. Ownership
  BY DEF PollerInit, Ownership, Alive
<1>4. CtlNeverFails /\ NoDangling /\ EventsFirst
  BY DEF PollerInit, CtlNeverFails, NoDangling, EventsFirst
<1> QED
  BY <1>1, <1>2, <1>3, <1>4 DEF PollerInvariant, Agreement

\* updateChannel: the branch that index_ selects is the one the kernel accepts.
LEMMA UpdateStep ==
  ASSUME PollerInvariant, NEW c \in Chan, NEW e \in SUBSET Event, Alive(c),
         UpdateChannel(c, e)
  PROVE  PollerInvariant'
<1>0. fd[c] \in Fd /\ fd' = fd
  BY DEF PollerInvariant, PollerTypeOK, Alive, UpdateChannel
<1> USE <1>0 DEF PollerInvariant, UpdateChannel, loopVars
<1>1. CASE AddChannel(c, e)
  <2>1. ptr[fd[c]] = None
    BY <1>1 DEF AddChannel, Agreement, KernelAgrees, Ownership, Alive, PollerTypeOK
  <2>2. /\ ptr' = [ptr EXCEPT ![fd[c]] = c]
        /\ mask' = [mask EXCEPT ![fd[c]] = e]
        /\ UNCHANGED ctlFailed
    BY <1>1, <2>1 DEF AddChannel, CtlAdd
  <2>3. PollerTypeOK'
    BY <1>1, <2>2 DEF AddChannel, PollerTypeOK, Index
  <2>4. MapAgrees'
    BY <1>1 DEF AddChannel, Agreement, MapAgrees, Ownership, PollerTypeOK, Alive
  <2>5. KernelAgrees'
    BY <1>1, <2>2 DEF AddChannel, Agreement, KernelAgrees, Ownership, PollerTypeOK, Alive
  <2>6. Ownership'
    BY <1>1 DEF AddChannel, Agreement, Ownership, PollerTypeOK, Alive
  <2>7. NoDangling' /\ CtlNeverFails' /\ EventsFirst'
    BY <1>1, <2>2 DEF NoDangling, CtlNeverFails, EventsFirst, PollerTypeOK, Alive
  <2>8. QED
    BY <2>3, <2>4, <2>5, <2>6, <2>7 DEF Agreement
<1>2. CASE ModChannel(c, e)
  <2>1. ptr[fd[c]] = c
    BY <1>2 DEF ModChannel, Agreement, KernelAgrees
  <2>2. /\ ptr' = ptr
        /\ mask' = [mask EXCEPT ![fd[c]] = e]
        /\ UNCHANGED ctlFailed
    BY <1>2, <2>1 DEF ModChannel, CtlMod, PollerTypeOK
  <2>3. PollerTypeOK'
    BY <1>2, <2>2 DEF ModChannel, PollerTypeOK
  <2>4. MapAgrees'
    BY <1>2 DEF ModChannel, Agreement, MapAgrees
  <2>5. KernelAgrees'
    BY <1>2, <2>2 DEF ModChannel, Agreement, KernelAgrees, PollerTypeOK
  <2>6. Ownership'
    BY <1>2 DEF ModChannel, Agreement, Ownership, PollerTypeOK, Alive
  <2>7. NoDangling' /\ CtlNeverFails' /\ EventsFirst'
    BY <1>2, <2>2 DEF NoDangling, CtlNeverFails, EventsFirst, PollerTypeOK, Alive
  <2>8. QED
    BY <2>3, <2>4, <2>5, <2>6, <2>7 DEF Agreement
<1>3. CASE DropChannel(c, e)
  <2>1. ptr[fd[c]] = c
    BY <1>3 DEF DropChannel, Agreement, KernelAgrees
  <2>2. /\ ptr' = [ptr EXCEPT ![fd[c]] = None]
        /\ mask' = [mask EXCEPT ![fd[c]] = {}]
        /\ UNCHANGED ctlFailed
    BY <1>3, <2>1 DEF DropChannel, CtlDel
  <2>3. PollerTypeOK'
    BY <1>3, <2>2 DEF DropChannel, PollerTypeOK, Index
  <2>4. MapAgrees'
    BY <1>3 DEF DropChannel, Agreement, MapAgrees, PollerTypeOK
  <2>5. KernelAgrees'
    BY <1>3, <2>2 DEF DropChannel, Agreement, KernelAgrees, PollerTypeOK
  <2>6. Ownership'
    BY <1>3 DEF DropChannel, Agreement, Ownership, PollerTypeOK, Alive
  <2>7. NoDangling' /\ CtlNeverFails' /\ EventsFirst'
    BY <1>3, <2>2 DEF NoDangling, CtlNeverFails, EventsFirst, PollerTypeOK, Alive
  <2>8. QED
    BY <2>3, <2>4, <2>5, <2>6, <2>7 DEF Agreement
<1>4. QED
  BY <1>1, <1>2, <1>3

\* removeChannel deletes from the kernel exactly what is there.
LEMMA RemoveStep ==
  ASSUME PollerInvariant, NEW c \in Chan, Remove(c)
  PROVE  PollerInvariant'
<1>0. fd[c] \in Fd /\ fd' = fd
  BY DEF PollerInvariant, PollerTypeOK, Alive, Remove
<1>1. /\ ptr' = [ptr EXCEPT ![fd[c]] = IF index[c] = "kAdded" THEN None ELSE @]
      /\ mask' = [mask EXCEPT ![fd[c]] = IF index[c] = "kAdded" THEN {} ELSE @]
      /\ UNCHANGED ctlFailed
  BY <1>0 DEF PollerInvariant, Remove, CtlDel, Agreement, KernelAgrees, PollerTypeOK,
              epollVars
<1> USE <1>0, <1>1 DEF PollerInvariant, Remove, loopVars
<1>2. PollerTypeOK'
  BY DEF PollerTypeOK, Index
<1>3. MapAgrees'
  BY DEF Agreement, MapAgrees, Ownership, PollerTypeOK, Alive
<1>4. KernelAgrees'
  BY DEF Agreement, KernelAgrees, PollerTypeOK
<1>5. Ownership'
  BY DEF Agreement, Ownership, PollerTypeOK, Alive
<1>6. NoDangling' /\ CtlNeverFails' /\ EventsFirst'
  BY DEF NoDangling, CtlNeverFails, EventsFirst, PollerTypeOK, Alive
<1>7. QED
  BY <1>2, <1>3, <1>4, <1>5, <1>6 DEF Agreement

\* A new channel takes a descriptor nobody has; a dead one leaves nothing.
LEMMA LifetimeStep ==
  ASSUME PollerInvariant, NEW c \in Chan, NEW f \in Fd,
         Construct(c, f) \/ Destroy(c)
  PROVE  PollerInvariant'
<1> USE DEF PollerInvariant, loopVars, epollVars
<1>1. CASE Construct(c, f)
  <2> USE <1>1 DEF Construct
  <2>1. PollerTypeOK'
    BY DEF PollerTypeOK, Index
  <2>2. MapAgrees'
    BY DEF Agreement, MapAgrees, Ownership, PollerTypeOK, Alive
  <2>3. KernelAgrees'
    BY DEF Agreement, KernelAgrees, Ownership, PollerTypeOK, Alive
  <2>4. Ownership'
    BY DEF Agreement, Ownership, PollerTypeOK, Alive
  <2>5. NoDangling' /\ CtlNeverFails' /\ EventsFirst'
    BY DEF NoDangling, CtlNeverFails, EventsFirst, PollerTypeOK, Alive
  <2>6. QED
    BY <2>1, <2>2, <2>3, <2>4, <2>5 DEF Agreement
<1>2. CASE Destroy(c)
  <2> USE <1>2 DEF Destroy
  <2>0. fd[c] \in Fd
    BY DEF PollerTypeOK, Alive
  <2> USE <2>0
  <2>1. PollerTypeOK'
    BY DEF PollerTypeOK
  <2>2. MapAgrees'
    BY DEF Agreement, MapAgrees, PollerTypeOK
  <2>3. KernelAgrees'
    <3>1. ptr[fd[c]] = None
      BY DEF Agreement, KernelAgrees, Ownership, Alive, PollerTypeOK
    <3>2. QED
      BY <3>1 DEF Agreement, KernelAgrees, PollerTypeOK
  <2>4. Ownership'
    BY DEF Agreement, Ownership, PollerTypeOK, Alive
  <2>5. NoDangling' /\ CtlNeverFails' /\ EventsFirst'
    BY DEF NoDangling, CtlNeverFails, EventsFirst, PollerTypeOK, Alive, Agreement, KernelAgrees
  <2>6. QED
    BY <2>1, <2>2, <2>3, <2>4, <2>5 DEF Agreement
<1>3. QED
  BY <1>1, <1>2

\* index_, channels_ and the kernel agree in every reachable state, epoll_ctl
\* never fails and no destroyed channel is pointed to.
THEOREM PollerCorrect == PollerSpec => []PollerInvariant
<1>1. PollerInvariant /\ [PollerNext]_pollerVars => PollerInvariant'
  <2> SUFFICES ASSUME PollerInvariant, [PollerNext]_pollerVars
               PROVE  PollerInvariant'
    OBVIOUS
  <2>1. ASSUME NEW c \in Chan, NEW f \in Fd, Construct(c, f)
        PROVE  PollerInvariant'
    BY <2>1, LifetimeStep
  <2>2. ASSUME NEW c \in Chan,
               \/ EnableReading(c) \/ DisableReading(c)
               \/ EnableWriting(c) \/ DisableWriting(c) \/ DisableAll(c)
        PROVE  PollerInvariant'
    <3>1. PICK e \in SUBSET Event : UpdateChannel(c, e)
      BY <2>2 DEF EnableReading, DisableReading, EnableWriting, DisableWriting,
                  DisableAll, Event, PollerInvariant, PollerTypeOK
    <3>2. Alive(c)
      BY <2>2 DEF EnableReading, DisableReading, EnableWriting, DisableWriting,
                  DisableAll
    <3>3. QED
      BY <3>1, <3>2, UpdateStep
  <2>3. ASSUME NEW c \in Chan, Remove(c)
        PROVE  PollerInvariant'
    BY <2>3, RemoveStep
  <2>4. ASSUME NEW c \in Chan, Destroy(c)
        PROVE  PollerInvariant'
    <3>1. fd[c] \in Fd
      BY <2>4 DEF Destroy, Alive, PollerInvariant, PollerTypeOK
    <3>2. QED
      BY <2>4, <3>1, LifetimeStep
  <2> USE DEF PollerInvariant, PollerTypeOK, Phase, objVars, epollVars, loopVars,
              Agreement, MapAgrees, KernelAgrees, Ownership, CtlNeverFails,
              NoDangling, EventsFirst, Alive
  <2>5. ASSUME NEW c \in Chan, Handled(c)
        PROVE  PollerInvariant'
    BY <2>5 DEF Handled
  <2>6. CASE BeginPoll \/ BeginFunctors
    BY <2>6 DEF BeginPoll, BeginFunctors
  <2>7. ASSUME NEW ready \in SUBSET {f \in Fd : ptr[f] # None}, Poll(ready)
        PROVE  PollerInvariant'
    <3>1. activeChannels' \subseteq Chan /\ \A c \in activeChannels' : Alive(c)
      BY <2>7 DEF Poll
    <3>2. slots' \in Nat \ {0}
      BY <2>7 DEF Poll
    <3>3. QED
      BY <2>7, <3>1, <3>2 DEF Poll
  <2>8. CASE UNCHANGED pollerVars
    BY <2>8 DEF pollerVars
  <2>9. QED
    BY <2>1, <2>2, <2>3, <2>4, <2>5, <2>6, <2>7, <2>8 DEF PollerNext
<1>2. QED
  BY <1>1, PollerInitCorrect, PTL DEF PollerSpec

\* What loop(), updateChannel and removeChannel rely on: agreement of index_,
\* channels_ and the epoll set, no failing epoll_ctl, no dead channel handled.
THEOREM PollerAgreement == PollerSpec => [](Agreement /\ CtlNeverFails /\ NoDangling)
<1>1. PollerInvariant => Agreement /\ CtlNeverFails /\ NoDangling
  BY DEF PollerInvariant
<1>2. QED
  BY <1>1, PollerCorrect, PTL

\* loop() calls handlelEvent only on channels that are alive, although
\* fillActiveChannel takes their addresses from the kernel.
THEOREM NoDeadChannel == PollerSpec => []NoDangling
<1>1. PollerInvariant => NoDangling
  BY DEF PollerInvariant
<1>2. QED
  BY <1>1, PollerCorrect, PTL
=============================================================================
