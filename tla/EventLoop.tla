----------------------------- MODULE EventLoop ------------------------------
(***************************************************************************)
(* One EventLoop object (src/src/EventLoop.{h,cc}): the loop of its owner  *)
(* thread, the queue of functors that other threads hand to it, the        *)
(* eventfd that wakes it up, and quit().                                   *)
(*                                                                         *)
(* The lines                                                               *)
(*     std::unique_lock<std::mutex>(mutex_);                               *)
(* in queueInLoop and doPendingFunctors declare an unlocked local variable *)
(* named mutex_; they do not lock the member.  Access to pendingFunctors_  *)
(* is therefore split into a begin and an end step that other threads can  *)
(* come between, and an overlap (torn) has the outcomes that unsynchronised*)
(* emplace_back and swap can produce, a crash included.                    *)
(***************************************************************************)
EXTENDS Naturals, Sequences

CONSTANTS Callers,      \* the threads other than the owner of the loop
          Owner,        \* the thread that constructed the loop and calls loop()
          MaxFunctors,  \* bound: calls of queueInLoop in a behaviour
          MaxWakeups    \* bound: no new quit() while the eventfd counts this much

ASSUME ThreadAssumption == Owner \notin Callers
ASSUME BoundAssumption == MaxFunctors \in Nat /\ MaxWakeups \in Nat

VARIABLES
  quit,             \* quit_
  calling,          \* callingPendingFunctors_
  pending,          \* pendingFunctors_
  functor,          \* the local vector of doPendingFunctors, what is left of it
  eventfd,          \* the counter of wakeupFd_
  active,           \* activeChannels_ that are not handled yet
  loopPc,           \* where the owner is in loop()
  call,             \* per thread: where it is in queueInLoop, quit or the swap
  arg,              \* per thread: the functor it is queueing, 0 outside a call
  snap,             \* per thread: pendingFunctors_ as read on entry, <<>> outside
  submitted,        \* number of queueInLoop calls so far
  torn,             \* two threads have been inside pendingFunctors_ at once
  crashed,          \* the process has died
  queued, ran       \* history: functors emplaced, functors executed

vars == <<quit, calling, pending, functor, eventfd, active, loopPc, call, arg,
          snap, submitted, torn, crashed, queued, ran>>

Thread == Callers \cup {Owner}
Functor == 1 .. MaxFunctors
Channel == {"wakeup", "io"}

LoopPoint == {"start", "check", "poll", "handle", "pending", "run", "exit"}
CallPoint == {"none", "emplacing", "waking", "swapping"}

Init ==
  /\ quit = FALSE
  /\ calling = FALSE
  /\ pending = <<>>
  /\ functor = <<>>
  /\ eventfd = 0
  /\ active = {}
  /\ loopPc = "start"
  /\ call = [t \in Thread |-> "none"]
  /\ arg = [t \in Thread |-> 0]
  /\ snap = [t \in Thread |-> <<>>]
  /\ submitted = 0
  /\ torn = FALSE
  /\ crashed = FALSE
  /\ queued = <<>>
  /\ ran = <<>>

-----------------------------------------------------------------------------
(* Access to pendingFunctors_, by the threads in call "emplacing" or        *)
(* "swapping".                                                              *)

InVector(t) == call[t] \in {"emplacing", "swapping"}

EnterVector(t) ==
  /\ torn' = (torn \/ \E u \in Thread \ {t} : InVector(u))
  /\ snap' = [snap EXCEPT ![t] = pending]

\* What an emplace_back that began when the vector was `before` leaves there:
\* the new element behind the vector as it is now, or behind the vector that
\* it read on entry (storage reallocated from stale pointers), or, after an
\* overlap, nothing (two threads constructed in the same slot).
EmplaceOutcomes(before, f) ==
  {Append(pending, f), Append(before, f)} \cup (IF torn THEN {pending} ELSE {})

-----------------------------------------------------------------------------
(* Who may call into the loop: another thread at any time, the owner from   *)
(* inside a channel's callback or a functor.                                *)

MayCall(t) ==
  /\ call[t] = "none"
  /\ \/ t \in Callers
     \/ loopPc = "handle" /\ "io" \in active
     \/ loopPc = "run" /\ functor # <<>>

\* queueInLoop, and runInLoop from another thread, up to the emplace_back.
QueueInLoop(t) ==
  /\ MayCall(t)
  /\ submitted < MaxFunctors
  /\ submitted' = submitted + 1
  /\ call' = [call EXCEPT ![t] = "emplacing"]
  /\ arg' = [arg EXCEPT ![t] = submitted + 1]
  /\ EnterVector(t)
  /\ UNCHANGED <<quit, calling, pending, functor, eventfd, active, loopPc,
                 crashed, queued, ran>>

\* Fault: the condition on callingPendingFunctors_ is missing.
EmplacedOwnerSilent(t) ==
  /\ call[t] = "emplacing"
  /\ pending' \in EmplaceOutcomes(snap[t], arg[t])
  /\ queued' = Append(queued, arg[t])
  /\ call' = [call EXCEPT ![t] = IF t # Owner THEN "waking" ELSE "none"]
  /\ arg' = [arg EXCEPT ![t] = 0]
  /\ snap' = [snap EXCEPT ![t] = <<>>]
  /\ UNCHANGED <<quit, calling, functor, eventfd, active, loopPc, submitted,
                 torn, crashed, ran>>

\* The element is in; the thread goes on to wakeup() unless it is the owner
\* outside doPendingFunctors.
Emplaced(t) ==
  /\ call[t] = "emplacing"
  /\ pending' \in EmplaceOutcomes(snap[t], arg[t])
  /\ queued' = Append(queued, arg[t])
  /\ call' = [call EXCEPT ![t] = IF t # Owner \/ calling THEN "waking" ELSE "none"]
  /\ arg' = [arg EXCEPT ![t] = 0]
  /\ snap' = [snap EXCEPT ![t] = <<>>]
  /\ UNCHANGED <<quit, calling, functor, eventfd, active, loopPc, submitted,
                 torn, crashed, ran>>

\* Fault: quit() from another thread does not wake the owner.
QuitSilent(t) ==
  /\ MayCall(t)
  /\ eventfd < MaxWakeups
  /\ quit' = TRUE
  /\ UNCHANGED <<calling, pending, functor, eventfd, active, loopPc, call, arg,
                 snap, submitted, torn, crashed, queued, ran>>

\* quit(): the flag, and wakeup() when called from another thread.
Quit(t) ==
  /\ MayCall(t)
  /\ eventfd < MaxWakeups
  /\ quit' = TRUE
  /\ call' = [call EXCEPT ![t] = IF t # Owner THEN "waking" ELSE "none"]
  /\ UNCHANGED <<calling, pending, functor, eventfd, active, loopPc, arg, snap,
                 submitted, torn, crashed, queued, ran>>

\* wakeup(): write 1 to the eventfd.
Wakeup(t) ==
  /\ call[t] = "waking"
  /\ eventfd' = eventfd + 1
  /\ call' = [call EXCEPT ![t] = "none"]
  /\ UNCHANGED <<quit, calling, pending, functor, active, loopPc, arg, snap,
                 submitted, torn, crashed, queued, ran>>

-----------------------------------------------------------------------------
(* loop() on the owner thread.                                              *)

OwnerAt(point) == loopPc = point /\ call[Owner] = "none"

LoopBegin ==
  /\ OwnerAt("start")
  /\ quit' = FALSE
  /\ loopPc' = "check"
  /\ UNCHANGED <<calling, pending, functor, eventfd, active, call, arg, snap,
                 submitted, torn, crashed, queued, ran>>

\* while (!quit_): leave, or clear activeChannels_ and block in epoll_wait.
CheckQuit ==
  /\ OwnerAt("check")
  /\ loopPc' = IF quit THEN "exit" ELSE "poll"
  /\ active' = {}
  /\ UNCHANGED <<quit, calling, pending, functor, eventfd, call, arg, snap,
                 submitted, torn, crashed, queued, ran>>

Ready(io) == (IF eventfd > 0 THEN {"wakeup"} ELSE {}) \cup io

\* epoll_wait returns with events: the wakeup channel is among them exactly
\* when the eventfd is readable; any other channel may be.
PollEvents(io) ==
  /\ OwnerAt("poll")
  /\ Ready(io) # {}
  /\ active' = Ready(io)
  /\ loopPc' = "handle"
  /\ UNCHANGED <<quit, calling, pending, functor, eventfd, call, arg, snap,
                 submitted, torn, crashed, queued, ran>>

\* epoll_wait returns without events: the time-out, or a signal.
PollNothing ==
  /\ OwnerAt("poll")
  /\ loopPc' = "handle"
  /\ UNCHANGED <<quit, calling, pending, functor, eventfd, active, call, arg,
                 snap, submitted, torn, crashed, queued, ran>>

\* handleRead() on the wakeup channel resets the eventfd; the callback of any
\* other channel is the user's, and may queue functors or quit (MayCall).
HandleEvent ==
  /\ OwnerAt("handle")
  /\ \E c \in active :
       /\ active' = active \ {c}
       /\ eventfd' = IF c = "wakeup" THEN 0 ELSE eventfd
  /\ UNCHANGED <<quit, calling, pending, functor, loopPc, call, arg, snap,
                 submitted, torn, crashed, queued, ran>>

\* doPendingFunctors() up to the swap.
SwapBegin ==
  /\ OwnerAt("handle")
  /\ active = {}
  /\ loopPc' = "pending"
  /\ calling' = TRUE
  /\ call' = [call EXCEPT ![Owner] = "swapping"]
  /\ EnterVector(Owner)
  /\ UNCHANGED <<quit, pending, functor, eventfd, active, arg, submitted,
                 crashed, queued, ran>>

\* Fault: the vector is copied instead of swapped.
SwapEndCopies ==
  /\ call[Owner] = "swapping"
  /\ functor' \in {pending, snap[Owner]}
  /\ loopPc' = "run"
  /\ call' = [call EXCEPT ![Owner] = "none"]
  /\ snap' = [snap EXCEPT ![Owner] = <<>>]
  /\ UNCHANGED <<quit, calling, pending, eventfd, active, arg, submitted, torn,
                 crashed, queued, ran>>

\* The swap; after an overlap it can have read the pointers of the vector
\* before the other thread's write, which is then overwritten.
SwapEnd ==
  /\ call[Owner] = "swapping"
  /\ functor' \in {pending, snap[Owner]}
  /\ pending' = <<>>
  /\ loopPc' = "run"
  /\ call' = [call EXCEPT ![Owner] = "none"]
  /\ snap' = [snap EXCEPT ![Owner] = <<>>]
  /\ UNCHANGED <<quit, calling, eventfd, active, arg, submitted, torn,
                 crashed, queued, ran>>

\* Fault: the local vector is consumed from its back.
RunFunctorFromBack ==
  /\ OwnerAt("run")
  /\ functor # <<>>
  /\ ran' = Append(ran, functor[Len(functor)])
  /\ functor' = SubSeq(functor, 1, Len(functor) - 1)
  /\ UNCHANGED <<quit, calling, pending, eventfd, active, loopPc, call, arg,
                 snap, submitted, torn, crashed, queued>>

RunFunctor ==
  /\ OwnerAt("run")
  /\ functor # <<>>
  /\ ran' = Append(ran, Head(functor))
  /\ functor' = Tail(functor)
  /\ UNCHANGED <<quit, calling, pending, eventfd, active, loopPc, call, arg,
                 snap, submitted, torn, crashed, queued>>

PendingDone ==
  /\ OwnerAt("run")
  /\ functor = <<>>
  /\ calling' = FALSE
  /\ loopPc' = "check"
  /\ UNCHANGED <<quit, pending, functor, eventfd, active, call, arg, snap,
                 submitted, torn, crashed, queued, ran>>

\* The process dies of a vector torn by two threads.
Crash ==
  /\ torn
  /\ crashed' = TRUE
  /\ UNCHANGED <<quit, calling, pending, functor, eventfd, active, loopPc,
                 call, arg, snap, submitted, torn, queued, ran>>

-----------------------------------------------------------------------------
\* The steps of loop() that do not wait for anything.
OwnerStep ==
  \/ LoopBegin \/ CheckQuit \/ HandleEvent
  \/ SwapBegin \/ SwapEnd \/ RunFunctor \/ PendingDone

\* The steps a thread takes inside a call it has begun.
CallStep(t) == Emplaced(t) \/ Wakeup(t)

Next ==
  /\ ~crashed
  /\ \/ OwnerStep
     \/ \E io \in {{}, {"io"}} : PollEvents(io)
     \/ PollNothing
     \/ \E t \in Thread : QueueInLoop(t) \/ Quit(t) \/ CallStep(t)
     \/ Crash

Spec == Init /\ [][Next]_vars

\* Running threads are scheduled: the owner keeps taking the steps of loop()
\* and a call that has begun goes on.  epoll_wait is obliged to return only
\* when the eventfd is readable: other sockets may stay silent, and neither
\* the 10 s time-out nor a signal is relied on.
Fairness ==
  /\ WF_vars(~crashed /\ OwnerStep)
  /\ WF_vars(~crashed /\ eventfd > 0 /\ \E io \in {{}, {"io"}} : PollEvents(io))
  /\ \A t \in Thread : WF_vars(~crashed /\ CallStep(t))

LiveSpec == Spec /\ Fairness

-----------------------------------------------------------------------------
(* Properties.                                                              *)

\* Types: the members of EventLoop, and a functor in the hand of every thread
\* inside emplace_back.
TypeOK ==
  /\ quit \in BOOLEAN
  /\ calling \in BOOLEAN
  /\ pending \in Seq(Functor)
  /\ functor \in Seq(Functor)
  /\ eventfd \in Nat
  /\ active \in SUBSET Channel
  /\ loopPc \in LoopPoint
  /\ call \in [Thread -> CallPoint]
  /\ arg \in [Thread -> 0 .. MaxFunctors]
  /\ \A t \in Thread : call[t] = "emplacing" => arg[t] \in Functor
  /\ snap \in [Thread -> Seq(Functor)]
  /\ submitted \in 0 .. MaxFunctors
  /\ torn \in BOOLEAN
  /\ crashed \in BOOLEAN
  /\ queued \in Seq(Functor)
  /\ ran \in Seq(Functor)

\* Inductive strengthenings (the first three for NoLostWakeup, all of them for
\* Conservation; EventLoopProofs has the proofs).
\* Where the owner is inside a call, and when callingPendingFunctors_ is set.
OwnerControl ==
  /\ call[Owner] = "swapping" <=> loopPc = "pending"
  /\ calling <=> loopPc \in {"pending", "run"}
  /\ call[Owner] # "none" => loopPc \in {"handle", "pending", "run"}

\* From the swap to the next epoll_wait a pending functor has its wake-up
\* written or on the way.
WakeupOwed ==
  (loopPc \in {"start", "check", "poll", "run"} /\ pending # <<>>)
    => eventfd > 0 \/ \E t \in Thread : call[t] = "waking"

\* Until the vector is torn a thread inside it is alone there and its view of
\* the vector is current.
AloneInVector ==
  ~torn => \A t \in Thread : InVector(t) =>
             /\ snap[t] = pending
             /\ \A u \in Thread : InVector(u) => t = u

\* The local vector is empty except while doPendingFunctors runs it.
LocalVector == loopPc # "run" => functor = <<>>

\* The inductive invariant of loop(), queueInLoop and doPendingFunctors.
LoopInvariant ==
  /\ OwnerControl
  /\ WakeupOwed
  /\ AloneInVector
  /\ LocalVector

\* No lost wake-up: the owner never blocks in epoll_wait (EventLoop::loop) with
\* a functor in pendingFunctors_ unless the eventfd is readable or the thread
\* that must write it is on its way from queueInLoop to wakeup().  The check
\* of callingPendingFunctors_ in queueInLoop is there for this, and it has to
\* hold even when unsynchronised accesses have damaged the vector.
NoLostWakeup ==
  (loopPc = "poll" /\ pending # <<>>)
    => eventfd > 0 \/ \E t \in Callers : call[t] = "waking"

\* Conservation: until two threads meet inside pendingFunctors_, what has been
\* emplaced is what has run, what doPendingFunctors still holds and what is
\* pending, in that order: nothing is lost, repeated or overtaken, functors
\* queued by functors included.
Conservation ==
  ~torn => queued = ran \o functor \o pending

\* The loop implements the executor that its callers rely on.
Exec == INSTANCE Executor WITH broken <- torn
ImplementsExecutor == Exec!ExecSpec

Occurs(f, s) == \E i \in DOMAIN s : s[i] = f

\* A functor that is pending is executed by the wake-up alone, without help
\* from the poll time-out, unless the vector was torn or loop() returned first.
PendingRuns ==
  \A f \in Functor :
    Occurs(f, pending) ~> (Occurs(f, ran) \/ torn \/ loopPc = "exit")

\* quit() on a loop that is running makes loop() return, from whichever thread
\* it is called and wherever the owner is, blocked in epoll_wait included.
QuitStops ==
  (quit /\ loopPc # "start") ~> (loopPc = "exit" \/ crashed)

\* EventLoop.h says of mutex_ that it protects the vector between threads.
VectorExclusive ==
  \A t, u \in Thread : InVector(t) /\ InVector(u) => t = u
=============================================================================
