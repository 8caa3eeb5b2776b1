------------------------------- MODULE Poller -------------------------------
(***************************************************************************)
(* The channels of one loop and its EpollPoller (src/src/Channel.{h,cc},   *)
(* Poller.cc, EpollPoller.cc): a channel's index_ says where it stands in  *)
(* channels_ and in the kernel's epoll set.  Channels come and go, and the *)
(* kernel hands the descriptor of a closed one to the next.                *)
(***************************************************************************)
EXTENDS Naturals, FiniteSets

CONSTANTS Chan,        \* channel objects
          Fd,          \* file descriptors
          None,        \* no channel / no descriptor
          InitSlots    \* kInitEventListSize

ASSUME NoneAssumption == None \notin Chan \cup Fd
ASSUME SlotsAssumption == InitSlots \in Nat \ {0}

VARIABLES
  fd,         \* fd_ of a channel, None while the object does not exist
  events,     \* events_
  index,      \* index_
  channels,   \* channels_: descriptor -> channel
  ptr,        \* kernel: the channel registered for a descriptor (data.ptr)
  mask,       \* kernel: the events registered for a descriptor
  slots,      \* events_.size() of the poller
  activeChannels,  \* activeChannels_ that are not handled yet
  phase,      \* where the loop is
  ctlFailed   \* an epoll_ctl has returned an error

objVars == <<fd, events, index>>
epollVars == <<ptr, mask>>
loopVars == <<slots, activeChannels, phase>>
pollerVars == <<objVars, channels, epollVars, loopVars, ctlFailed>>

Event == {"in", "out"}
Index == {"kNew", "kAdded", "kDeleted"}
Phase == {"poll", "handle", "functors"}

Alive(c) == fd[c] # None

PollerInit ==
  /\ fd = [c \in Chan |-> None]
  /\ events = [c \in Chan |-> {}]
  /\ index = [c \in Chan |-> "kNew"]
  /\ channels = [f \in Fd |-> None]
  /\ ptr = [f \in Fd |-> None]
  /\ mask = [f \in Fd |-> {}]
  /\ slots = InitSlots
  /\ activeChannels = {}
  /\ phase = "functors"
  /\ ctlFailed = FALSE

-----------------------------------------------------------------------------
(* EpollPoller::update: epoll_ctl on the descriptor of channel c, with the  *)
(* events e the channel now has.  The kernel refuses to add a descriptor    *)
(* twice and to modify or delete one that is not there; the code only logs. *)

CtlAdd(c, e) ==
  IF ptr[fd[c]] = None
  THEN /\ ptr' = [ptr EXCEPT ![fd[c]] = c]
       /\ mask' = [mask EXCEPT ![fd[c]] = e]
       /\ UNCHANGED ctlFailed
  ELSE /\ ctlFailed' = TRUE
       /\ UNCHANGED epollVars

CtlMod(c, e) ==
  IF ptr[fd[c]] # None
  THEN /\ ptr' = [ptr EXCEPT ![fd[c]] = c]
       /\ mask' = [mask EXCEPT ![fd[c]] = e]
       /\ UNCHANGED ctlFailed
  ELSE /\ ctlFailed' = TRUE
       /\ UNCHANGED epollVars

CtlDel(c) ==
  IF ptr[fd[c]] # None
  THEN /\ ptr' = [ptr EXCEPT ![fd[c]] = None]
       /\ mask' = [mask EXCEPT ![fd[c]] = {}]
       /\ UNCHANGED ctlFailed
  ELSE /\ ctlFailed' = TRUE
       /\ UNCHANGED epollVars

-----------------------------------------------------------------------------
(* EpollPoller::updateChannel for a channel whose events_ become e.         *)

\* A kNew or kDeleted channel is registered, whatever its events_ are: with
\* disableAll on such a channel, for no event at all.
AddChannel(c, e) ==
  /\ index[c] \in {"kNew", "kDeleted"}
  /\ channels' = IF index[c] = "kNew" THEN [channels EXCEPT ![fd[c]] = c]
                                      ELSE channels
  /\ index' = [index EXCEPT ![c] = "kAdded"]
  /\ CtlAdd(c, e)

ModChannel(c, e) ==
  /\ index[c] = "kAdded" /\ e # {}
  /\ CtlMod(c, e)
  /\ UNCHANGED <<channels, index>>

DropChannel(c, e) ==
  /\ index[c] = "kAdded" /\ e = {}
  /\ CtlDel(c)
  /\ index' = [index EXCEPT ![c] = "kDeleted"]
  /\ UNCHANGED channels

UpdateChannel(c, e) ==
  /\ events' = [events EXCEPT ![c] = e]
  /\ AddChannel(c, e) \/ ModChannel(c, e) \/ DropChannel(c, e)
  /\ UNCHANGED <<fd, loopVars>>

-----------------------------------------------------------------------------
(* The operations of Channel.  They run on the thread of the loop, in a     *)
(* callback of a channel or in a functor.                                   *)

InCallback == phase \in {"handle", "functors"}

\* A connection, an acceptor or the loop itself creates its channel on a
\* descriptor that no open channel has.
Construct(c, f) ==
  /\ InCallback
  /\ ~Alive(c)
  /\ \A d \in Chan : fd[d] # f
  /\ fd' = [fd EXCEPT ![c] = f]
  /\ events' = [events EXCEPT ![c] = {}]
  /\ index' = [index EXCEPT ![c] = "kNew"]
  /\ UNCHANGED <<channels, epollVars, slots, activeChannels, phase, ctlFailed>>

EnableReading(c)  == InCallback /\ Alive(c) /\ UpdateChannel(c, events[c] \cup {"in"})
DisableReading(c) == InCallback /\ Alive(c) /\ UpdateChannel(c, events[c] \ {"in"})
EnableWriting(c)  == InCallback /\ Alive(c) /\ UpdateChannel(c, events[c] \cup {"out"})
DisableWriting(c) == InCallback /\ Alive(c) /\ UpdateChannel(c, events[c] \ {"out"})
DisableAll(c)     == InCallback /\ Alive(c) /\ UpdateChannel(c, {})

\* Fault: the channel is only deleted from epoll when it was not registered.
RemoveForgetsEpoll(c) ==
  /\ InCallback
  /\ Alive(c)
  /\ channels' = [channels EXCEPT ![fd[c]] = None]
  /\ index' = [index EXCEPT ![c] = "kNew"]
  /\ UNCHANGED <<epollVars, ctlFailed, fd, events, loopVars>>

\* EpollPoller::removeChannel.
Remove(c) ==
  /\ InCallback
  /\ Alive(c)
  /\ channels' = [channels EXCEPT ![fd[c]] = None]
  /\ IF index[c] = "kAdded" THEN CtlDel(c) ELSE UNCHANGED <<epollVars, ctlFailed>>
  /\ index' = [index EXCEPT ![c] = "kNew"]
  /\ UNCHANGED <<fd, events, loopVars>>

\* The owner of a removed channel dies, in a functor: the object is gone and
\* its descriptor closed, which takes it out of the epoll set in any case.
Destroy(c) ==
  /\ phase = "functors"
  /\ Alive(c)
  /\ index[c] = "kNew"
  /\ ptr' = [ptr EXCEPT ![fd[c]] = None]
  /\ mask' = [mask EXCEPT ![fd[c]] = {}]
  /\ fd' = [fd EXCEPT ![c] = None]
  /\ events' = [events EXCEPT ![c] = {}]
  /\ UNCHANGED <<index, channels, loopVars, ctlFailed>>

-----------------------------------------------------------------------------
(* The loop.                                                                *)

BeginPoll ==
  /\ phase = "functors"
  /\ phase' = "poll"
  /\ UNCHANGED <<objVars, channels, epollVars, slots, activeChannels, ctlFailed>>

\* epoll_wait returns with some registered descriptors (those with an event
\* that was asked for, an error or a hang-up) and fillActiveChannel takes each
\* channel from the pointer the kernel kept.  A full list is doubled.
Poll(ready) ==
  /\ phase = "poll"
  /\ Cardinality(ready) <= slots
  /\ slots' = IF ready # {} /\ Cardinality(ready) = slots THEN slots * 2 ELSE slots
  /\ activeChannels' = {ptr[f] : f \in ready}
  /\ phase' = "handle"
  /\ UNCHANGED <<objVars, channels, epollVars, ctlFailed>>

\* Channel::handlelEvent has run the callbacks of c.
Handled(c) ==
  /\ phase = "handle"
  /\ c \in activeChannels
  /\ activeChannels' = activeChannels \ {c}
  /\ UNCHANGED <<objVars, channels, epollVars, slots, phase, ctlFailed>>

\* Fault: doPendingFunctors inside the loop over activeChannels_.
BeginFunctorsEarly ==
  /\ phase = "handle"
  /\ phase' = "functors"
  /\ UNCHANGED <<objVars, channels, epollVars, slots, activeChannels, ctlFailed>>

BeginFunctors ==
  /\ phase = "handle"
  /\ activeChannels = {}
  /\ phase' = "functors"
  /\ UNCHANGED <<objVars, channels, epollVars, slots, activeChannels, ctlFailed>>

PollerNext ==
  \/ \E c \in Chan :
       \/ \E f \in Fd : Construct(c, f)
       \/ EnableReading(c) \/ DisableReading(c)
       \/ EnableWriting(c) \/ DisableWriting(c)
       \/ DisableAll(c) \/ Remove(c) \/ Destroy(c) \/ Handled(c)
  \/ BeginPoll
  \/ \E ready \in SUBSET {f \in Fd : ptr[f] # None} : Poll(ready)
  \/ BeginFunctors

PollerSpec == PollerInit /\ [][PollerNext]_pollerVars

-----------------------------------------------------------------------------
(* Properties.                                                              *)

\* Types: a channel's events_ and index_ stay in their ranges and the poller's
\* event list never loses its last slot.
PollerTypeOK ==
  /\ fd \in [Chan -> Fd \cup {None}]
  /\ events \in [Chan -> SUBSET Event]
  /\ index \in [Chan -> Index]
  /\ channels \in [Fd -> Chan \cup {None}]
  /\ ptr \in [Fd -> Chan \cup {None}]
  /\ mask \in [Fd -> SUBSET Event]
  /\ slots \in Nat \ {0}
  /\ activeChannels \in SUBSET Chan
  /\ phase \in Phase
  /\ ctlFailed \in BOOLEAN

\* hasChannel: the map has exactly the channels whose index_ is not kNew, each
\* under its own descriptor, however descriptors are reused.
MapAgrees ==
  \A f \in Fd, c \in Chan :
    channels[f] = c <=> fd[c] = f /\ index[c] # "kNew"

\* The kernel watches exactly the channels whose index_ is kAdded, each under
\* its own descriptor and for the events the channel asks for now.
KernelAgrees ==
  /\ \A f \in Fd, c \in Chan : ptr[f] = c <=> fd[c] = f /\ index[c] = "kAdded"
  /\ \A f \in Fd : ptr[f] # None => mask[f] = events[ptr[f]]

\* No two channels share a descriptor and only live ones are deleted or added.
Ownership ==
  /\ \A c, d \in Chan : Alive(c) /\ fd[c] = fd[d] => c = d
  /\ \A c \in Chan : ~Alive(c) => index[c] = "kNew"
  /\ \A c \in Chan : index[c] = "kDeleted" => events[c] = {}

\* index_, channels_ and the kernel's epoll set agree after every updateChannel
\* and removeChannel.
Agreement == MapAgrees /\ KernelAgrees /\ Ownership

\* update() never meets an epoll_ctl that fails: what index_ says always
\* decides between ADD, MOD and DEL the way the kernel's set requires, after
\* any sequence of enabling, disabling, removing and reuse of a descriptor.
CtlNeverFails == ~ctlFailed

\* The loop never handles a channel that has been destroyed, and the kernel
\* never holds a pointer to one.
NoDangling ==
  /\ \A c \in activeChannels : Alive(c)
  /\ \A f \in Fd : ptr[f] # None => Alive(ptr[f])

\* Functors run, and channels die in them, when every event is handled.
EventsFirst == phase # "handle" => activeChannels = {}

\* The inductive invariant of the channels and their poller.
PollerInvariant ==
  /\ PollerTypeOK
  /\ Agreement
  /\ CtlNeverFails
  /\ NoDangling
  /\ EventsFirst
=============================================================================
