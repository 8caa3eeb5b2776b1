------------------------------ MODULE EpollEcho ------------------------------
(***************************************************************************)
(* The exercise "bck/train/chapter 4/epoll.c": an echo server on one       *)
(* thread, whose listening socket is level-triggered and whose connections *)
(* are non-blocking and edge-triggered, so that a connection is reported   *)
(* when something arrives and not again until more does.  The kernel's     *)
(* side (readiness, what read and write return after a close or a reset)   *)
(* is modelled as Linux has it.                                            *)
(***************************************************************************)
EXTENDS Integers, Sequences, FiniteSets, SequencesExt

CONSTANTS
  Fds,         \* descriptors the process can have for connections
  fd_s,        \* the listening socket
  BUFSIZE,
  MaxClients,  \* bound: clients that ever connect
  MaxBytes     \* bound: bytes that ever arrive

ASSUME EchoAssumption ==
  /\ Fds \subseteq Nat /\ IsFiniteSet(Fds) /\ fd_s \notin Fds
  /\ BUFSIZE \in Nat \ {0} /\ MaxClients \in Nat /\ MaxBytes \in Nat

VARIABLES
  clients, bytes,  \* how many there have been, for the bounds
  backlog,         \* connections not accepted yet
  open,            \* accepted and not closed
  inbox,           \* per descriptor: bytes arrived and not read
  peer,            \* per descriptor: "up"; "eof": it has closed; "reset", "lost":
                   \* an error is pending; "dead": reset, and the error reported
  ready,           \* the sockets on epoll's list of those to be reported
  at,              \* "wait": in epoll_wait; "loop": in the for loop; "end"
  events, i, ret,  \* the array, the index and the bound of the for loop
  missed,          \* history: connections whose event was never looked at,
  paused,          \* ... left by the break with bytes unread,
  leaked           \* ... or never closed after a reset

kernel == <<clients, bytes, backlog>>
conns == <<open, inbox, peer>>
loop == <<at, events, i, ret>>
history == <<missed, paused, leaked>>
vars == <<kernel, conns, ready, loop, history>>

Init ==
  /\ clients = 0 /\ bytes = 0 /\ backlog = 0
  /\ open = {} /\ inbox = [f \in Fds |-> <<>>] /\ peer = [f \in Fds |-> "up"]
  /\ ready = {}
  /\ at = "wait" /\ events = <<>> /\ i = 1 /\ ret = 0
  /\ missed = {} /\ paused = {} /\ leaked = {}

-----------------------------------------------------------------------------
(* The clients and the kernel.                                              *)

\* Something new on f: it is reported (again).
Edge(f) ==
  /\ ready' = ready \cup {f}
  /\ missed' = missed \ {f} /\ paused' = paused \ {f}
  /\ UNCHANGED leaked

Connect ==
  /\ clients < MaxClients
  /\ clients' = clients + 1 /\ backlog' = backlog + 1
  /\ ready' = ready \cup {fd_s}
  /\ UNCHANGED <<bytes, conns, loop, history>>

Arrive(f, b) ==
  /\ f \in open /\ peer[f] = "up" /\ bytes < MaxBytes
  /\ bytes' = bytes + 1
  /\ inbox' = [inbox EXCEPT ![f] = Append(@, b)]
  /\ Edge(f)
  /\ UNCHANGED <<clients, backlog, open, peer, loop>>

\* FIN; RST, which after a FIN only shows when something is written; a time-out.
PeerChange(f, from, to) ==
  /\ f \in open /\ peer[f] = from
  /\ peer' = [peer EXCEPT ![f] = to]
  /\ Edge(f)
  /\ UNCHANGED <<kernel, open, inbox, loop>>

PeerGoes(f) ==
  \/ PeerChange(f, "up", "eof")
  \/ PeerChange(f, "up", "reset")
  \/ PeerChange(f, "up", "lost")
  \/ PeerChange(f, "eof", "dead")

-----------------------------------------------------------------------------
(* The server.                                                              *)

Readable(f) ==
  \/ f = fd_s /\ backlog > 0
  \/ f \in open /\ (inbox[f] # <<>> \/ peer[f] # "up")

Reported == {f \in ready : Readable(f)}

\* Fault: the loop starts one too low.
EpollWaitFromZero ==
  /\ at = "wait" /\ Reported # {}
  /\ events' \in SetToSeqs(Reported)
  /\ ret' = Cardinality(Reported) /\ i' = 0
  /\ ready' = Reported \cap {fd_s}
  /\ at' = "loop"
  /\ UNCHANGED <<kernel, conns, history>>

\* epoll_wait: what is listed and still readable, in some order; the listening
\* socket, being level-triggered, stays listed.
EpollWait ==
  /\ at = "wait" /\ Reported # {}
  /\ events' \in SetToSeqs(Reported)
  /\ ret' = Cardinality(Reported) /\ i' = 1
  /\ ready' = Reported \cap {fd_s}
  /\ at' = "loop"
  /\ UNCHANGED <<kernel, conns, history>>

LoopEnds ==
  /\ at = "loop" /\ i > ret
  /\ at' = "wait" /\ events' = <<>> /\ i' = 1 /\ ret' = 0
  /\ UNCHANGED <<kernel, conns, ready, history>>

At(f) == at = "loop" /\ i <= ret /\ events[i] = f

Leave ==
  /\ at' = "end" /\ events' = <<>> /\ i' = 1 /\ ret' = 0

\* A new connection, on the lowest descriptor that is free.  The results of fcntl
\* and epoll_ctl, 0, are put in ret, which is the bound of the loop: it ends here.
Accept ==
  /\ At(fd_s)
  /\ \E f \in Fds \ open :
       /\ \A g \in Fds \ open : f <= g
       /\ open' = open \cup {f}
       /\ inbox' = [inbox EXCEPT ![f] = <<>>] /\ peer' = [peer EXCEPT ![f] = "up"]
  /\ backlog' = backlog - 1
  /\ i' = i + 1 /\ ret' = 0
  /\ missed' = missed \cup {events[j] : j \in i + 1 .. ret}
  /\ UNCHANGED <<clients, bytes, ready, at, events, paused, leaked>>

\* accept fails: main returns.
AcceptFails ==
  /\ At(fd_s)
  /\ Leave
  /\ UNCHANGED <<kernel, conns, ready, history>>

LF == "\n"
Chunk(f) == SubSeq(inbox[f], 1, IF BUFSIZE < Len(inbox[f]) THEN BUFSIZE ELSE Len(inbox[f]))
Rest(f) == SubSeq(inbox[f], Len(Chunk(f)) + 1, Len(inbox[f]))

\* Fault: one read for each event.
EchoOnce(f) ==
  /\ At(f) /\ Chunk(f) \notin {<<>>, <<LF>>} /\ peer[f] # "dead"
  /\ inbox' = [inbox EXCEPT ![f] = Rest(f)]
  /\ peer' = [peer EXCEPT ![f] = IF @ \in {"reset", "lost"} THEN "dead" ELSE @]
  /\ i' = i + 1
  /\ UNCHANGED <<kernel, open, ready, at, events, ret, history>>

\* read gives something, write sends it back, and the while loop goes on.  A
\* pending error is reported by write, and ignored.
Echo(f) ==
  /\ At(f) /\ Chunk(f) \notin {<<>>, <<LF>>} /\ peer[f] # "dead"
  /\ inbox' = [inbox EXCEPT ![f] = Rest(f)]
  /\ peer' = [peer EXCEPT ![f] = IF @ \in {"reset", "lost"} THEN "dead" ELSE @]
  /\ UNCHANGED <<kernel, open, ready, loop, history>>

\* write after the reset was reported: SIGPIPE, which nothing handles.
EchoKills(f) ==
  /\ At(f) /\ Chunk(f) \notin {<<>>, <<LF>>} /\ peer[f] = "dead"
  /\ inbox' = [inbox EXCEPT ![f] = Rest(f)]
  /\ Leave
  /\ UNCHANGED <<kernel, open, peer, ready, history>>

\* A read of a single newline breaks out of the while loop.
Newline(f) ==
  /\ At(f) /\ Chunk(f) = <<LF>>
  /\ inbox' = [inbox EXCEPT ![f] = Rest(f)]
  /\ i' = i + 1
  /\ paused' = IF Rest(f) # <<>> \/ peer[f] # "up" THEN paused \cup {f} ELSE paused
  /\ UNCHANGED <<kernel, open, peer, ready, at, events, ret, missed, leaked>>

\* Fault: the while loop tries again.
EagainSpins(f) ==
  /\ At(f) /\ inbox[f] = <<>> /\ peer[f] = "up"
  /\ UNCHANGED vars

\* EAGAIN.
Eagain(f) ==
  /\ At(f) /\ inbox[f] = <<>> /\ peer[f] = "up"
  /\ i' = i + 1
  /\ UNCHANGED <<kernel, conns, ready, at, events, ret, history>>

\* ECONNRESET: reported as a close, but nothing is closed.
ReadReset(f) ==
  /\ At(f) /\ inbox[f] = <<>> /\ peer[f] = "reset"
  /\ peer' = [peer EXCEPT ![f] = "dead"]
  /\ i' = i + 1
  /\ leaked' = leaked \cup {f}
  /\ UNCHANGED <<kernel, open, inbox, ready, at, events, ret, missed, paused>>

\* Any other error: main returns.
ReadFails(f) ==
  /\ At(f) /\ inbox[f] = <<>> /\ peer[f] = "lost"
  /\ Leave
  /\ UNCHANGED <<kernel, conns, ready, history>>

\* Fault: the closed descriptor is read again.
ReadEofStays(f) ==
  /\ At(f) /\ inbox[f] = <<>> /\ peer[f] \in {"eof", "dead"}
  /\ open' = open \ {f}
  /\ ready' = ready \ {f}
  /\ missed' = missed \ {f} /\ paused' = paused \ {f} /\ leaked' = leaked \ {f}
  /\ UNCHANGED <<kernel, inbox, peer, loop>>

\* End of file: EPOLL_CTL_DEL and close.
ReadEof(f) ==
  /\ At(f) /\ inbox[f] = <<>> /\ peer[f] \in {"eof", "dead"}
  /\ open' = open \ {f}
  /\ ready' = ready \ {f}
  /\ i' = i + 1
  /\ missed' = missed \ {f} /\ paused' = paused \ {f} /\ leaked' = leaked \ {f}
  /\ UNCHANGED <<kernel, inbox, peer, at, events, ret>>

Server ==
  \/ EpollWait \/ LoopEnds \/ Accept \/ AcceptFails
  \/ \E f \in Fds :
       \/ Echo(f) \/ EchoKills(f) \/ Newline(f) \/ Eagain(f)
       \/ ReadReset(f) \/ ReadFails(f) \/ ReadEof(f)

Next ==
  \/ Connect
  \/ \E f \in Fds, b \in {"x", LF} : Arrive(f, b)
  \/ \E f \in Fds : PeerGoes(f)
  \/ Server

\* The one thread goes on.
Spec == Init /\ [][Next]_vars /\ WF_vars(Server)

-----------------------------------------------------------------------------

\* The types of the variables.
TypeOK ==
  /\ clients \in 0 .. MaxClients /\ bytes \in 0 .. MaxBytes /\ backlog \in 0 .. MaxClients
  /\ open \subseteq Fds
  /\ inbox \in [Fds -> Seq({"x", LF})]
  /\ peer \in [Fds -> {"up", "eof", "reset", "lost", "dead"}]
  /\ ready \subseteq Fds \cup {fd_s} /\ events \in Seq(Fds \cup {fd_s})
  /\ at \in {"wait", "loop", "end"} /\ i \in 1 .. Len(events) + 1 /\ ret \in 0 .. Len(events)
  /\ missed \subseteq Fds /\ paused \subseteq Fds /\ leaked \subseteq Fds

\* Reported now, or at the next epoll_wait.
Awaited(f) == f \in ready \/ \E j \in i .. ret : events[j] = f

\* Edge-triggered events are not forgotten: bytes, an end of file or an error on
\* a connection will be looked at, with exactly three exceptions: its event came
\* after a new connection's in the same array, the break on a newline left it, or
\* it was reset and is never closed.
NothingForgotten ==
  at # "end" =>
    \A f \in open :
      (inbox[f] # <<>> \/ peer[f] # "up") /\ ~Awaited(f) => f \in missed \cup paused \cup leaked

\* The events still to be handled are of open connections, each once, although
\* descriptors are closed and given out again within one round.
EventsCurrent ==
  \A j \in i .. ret :
    /\ events[j] \in open \cup {fd_s}
    /\ \A k \in i .. ret : events[k] = events[j] => k = j

\* A connection closed by its client is closed by the server, or the server ends,
\* but for the connections NothingForgotten excepts.  Clients send finitely much.
EofCloses ==
  \A f \in Fds :
    (f \in open /\ peer[f] = "eof") ~>
      (f \notin open \/ at = "end" \/ f \in missed \cup paused \cup leaked)

-----------------------------------------------------------------------------
(* What is proved by induction (module EpollEchoProofs): epoll lists no      *)
(* closed connection, outside the for loop there is nothing to handle, and   *)
(* an event of the listening socket means that a connection waits.           *)

ListedOpen == ready \subseteq open \cup {fd_s}

IdleOutside == at # "loop" => events = <<>> /\ i = 1 /\ ret = 0

BacklogCounted ==
  /\ backlog <= clients
  /\ \A j \in i .. ret : events[j] = fd_s => backlog > 0

EchoInvariant ==
  /\ TypeOK /\ ListedOpen /\ IdleOutside /\ BacklogCounted
  /\ EventsCurrent /\ NothingForgotten
=============================================================================
