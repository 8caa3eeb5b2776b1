--------------------------- MODULE EpollEchoProofs ---------------------------
(***************************************************************************)
(* For any number of clients, bytes and descriptors and any buffer: what   *)
(* EpollEcho promises of edge-triggered events.                            *)
(***************************************************************************)
EXTENDS EpollEcho, FiniteSetTheorems, FunctionTheorems, SequenceTheorems, TLAPS

\* The array epoll_wait fills has everything it reports, each once.
LEMMA Enumerated ==
  ASSUME NEW S, IsFiniteSet(S), NEW es \in SetToSeqs(S)
  PROVE  /\ es \in Seq(S) /\ Len(es) = Cardinality(S) /\ Cardinality(S) \in Nat
         /\ \A j \in 1 .. Len(es) : es[j] \in S
         /\ \A j, k \in 1 .. Len(es) : es[j] = es[k] => j = k
         /\ \A f \in S : \E j \in 1 .. Len(es) : es[j] = f
<1> DEFINE n == Cardinality(S)
<1>1. n \in Nat
  BY FS_CardinalityType
<1>2. es \in [1 .. n -> S] /\ \A j, k \in 1 .. n : j # k => es[j] # es[k]
  BY DEF SetToSeqs
<1>3. IsFiniteSet(1 .. n) /\ Cardinality(1 .. n) = n
  BY <1>1, FS_Interval
<1> HIDE DEF n
<1>4. es \in Seq(S)
  BY <1>1, <1>2, SeqDef
<1>5. Len(es) = n
  BY <1>1, <1>2, <1>4
<1>6. es \in Injection(1 .. n, S)
  BY <1>2 DEF Injection, IsInjective
<1>7. es \in Surjection(1 .. n, S)
  BY <1>3, <1>6, FS_Injection DEF n
<1>8. \A f \in S : \E j \in 1 .. n : es[j] = f
  BY <1>7 DEF Surjection
<1> QED
  BY <1>1, <1>2, <1>4, <1>5, <1>8 DEF n

\* What read takes and what it leaves.
LEMMA ReadParts ==
  ASSUME TypeOK, NEW f \in Fds
  PROVE  Rest(f) \in Seq({"x", LF})
<1>1. inbox[f] \in Seq({"x", LF}) /\ Len(inbox[f]) \in Nat
  BY DEF TypeOK
<1>2. Len(Chunk(f)) \in Nat
  BY <1>1, EchoAssumption DEF Chunk
<1> QED
  BY <1>1, <1>2 DEF Rest

\* The parts of EchoInvariant that are about the for loop and its array.
LoopPart ==
  /\ at \in {"wait", "loop", "end"} /\ events \in Seq(Fds \cup {fd_s})
  /\ i \in 1 .. Len(events) + 1 /\ ret \in 0 .. Len(events)
  /\ IdleOutside /\ EventsCurrent
  /\ \A j \in i .. ret : events[j] = fd_s => backlog > 0

\* The rest of it.
ConnPart ==
  /\ clients \in 0 .. MaxClients /\ bytes \in 0 .. MaxBytes /\ backlog \in 0 .. clients
  /\ open \subseteq Fds
  /\ inbox \in [Fds -> Seq({"x", LF})]
  /\ peer \in [Fds -> {"up", "eof", "reset", "lost", "dead"}]
  /\ ready \subseteq open \cup {fd_s}
  /\ missed \subseteq Fds /\ paused \subseteq Fds /\ leaked \subseteq Fds
  /\ NothingForgotten

\* EchoInvariant, in these two parts.
LEMMA Parts == EchoInvariant <=> LoopPart /\ ConnPart
<1>1. ASSUME EchoInvariant PROVE LoopPart /\ ConnPart
  <2>1. backlog \in 0 .. clients
    BY <1>1, EchoAssumption DEF EchoInvariant, TypeOK, BacklogCounted
  <2> QED
    BY <1>1, <2>1 DEF EchoInvariant, TypeOK, BacklogCounted, ListedOpen, LoopPart, ConnPart
<1>2. ASSUME LoopPart, ConnPart PROVE EchoInvariant
  <2>1. backlog \in 0 .. MaxClients /\ backlog <= clients
    BY <1>2, EchoAssumption DEF ConnPart
  <2> QED
    BY <1>2, <2>1 DEF EchoInvariant, TypeOK, BacklogCounted, ListedOpen, LoopPart, ConnPart
<1> QED
  BY <1>1, <1>2

\* The loop goes on to the next event, and no event ahead is of a connection that
\* is closed.
LEMMA LoopAdvances ==
  ASSUME LoopPart, NEW f, At(f), i' = i + 1, ret' \in {0, ret}, UNCHANGED <<at, events>>,
         ret' = ret => backlog' = backlog,
         \A g \in open : g # f => g \in open'
  PROVE  LoopPart'
<1>1. /\ Len(events) \in Nat /\ i \in 1 .. Len(events) /\ ret \in 0 .. Len(events)
      /\ at = "loop" /\ events[i] = f
  BY DEF LoopPart, At
<1>2. i' \in 1 .. Len(events) + 1 /\ ret' \in 0 .. Len(events) /\ i \in i .. ret
  BY <1>1 DEF At
<1>3. CASE ret' = 0
  <2>1. i' .. ret' = {}
    BY <1>1, <1>3
  <2> QED
    BY <1>1, <1>2, <1>3, <2>1 DEF LoopPart, IdleOutside, EventsCurrent
<1>4. CASE ret' = ret /\ backlog' = backlog
  <2>1. \A j \in i' .. ret' : j \in i .. ret /\ j # i
    BY <1>1, <1>4
  <2>2. \A j \in i' .. ret' : events[j] # f
    BY <1>1, <1>2, <2>1 DEF LoopPart, EventsCurrent
  <2>3. \A j \in i' .. ret' : events[j] \in open' \cup {fd_s}
    BY <2>1, <2>2 DEF LoopPart, EventsCurrent
  <2>4. EventsCurrent'
    BY <2>1, <2>3 DEF LoopPart, EventsCurrent
  <2> QED
    BY <1>1, <1>2, <1>4, <2>1, <2>4 DEF LoopPart, IdleOutside
<1> QED
  BY <1>3, <1>4

\* main returns, or the loop is over.
LEMMA LoopLeft ==
  ASSUME at' \in {"wait", "end"}, events' = <<>>, i' = 1, ret' = 0
  PROVE  LoopPart'
<1>1. i' .. ret' = {} /\ <<>> \in Seq(Fds \cup {fd_s}) /\ Len(<<>>) = 0
  OBVIOUS
<1> QED
  BY <1>1 DEF LoopPart, IdleOutside, EventsCurrent

\* The loop stands where it was, or is not reached.
LEMMA LoopStays ==
  ASSUME LoopPart, UNCHANGED <<at, events, i, ret>>, open \subseteq open',
         backlog > 0 => backlog' > 0
  PROVE  LoopPart'
<1>1. EventsCurrent'
  BY DEF LoopPart, EventsCurrent
<1> QED
  BY <1>1 DEF LoopPart, IdleOutside

\* Connections other than f, of which nothing changes, are forgotten no more than
\* before when the events of the loop are kept, but for the one being handled.
LEMMA StillAwaited ==
  ASSUME LoopPart, NEW f, At(f), UNCHANGED <<at, events, ret>>, i' \in {i, i + 1},
         NEW g, g # f, Awaited(g), g \in ready => g \in ready'
  PROVE  Awaited(g)'
<1>1. i \in Nat /\ ret \in Nat /\ events[i] = f
  BY DEF LoopPart, At
<1>2. CASE g \in ready
  BY <1>2 DEF Awaited
<1>3. CASE g \notin ready
  <2>1. PICK j \in i .. ret : events[j] = g
    BY <1>3 DEF Awaited
  <2>2. j \in i' .. ret' /\ events'[j] = g
    BY <1>1, <2>1
  <2> QED
    BY <2>2 DEF Awaited
<1> QED
  BY <1>2, <1>3

\* Something new on f, with the loop where it was.
LEMMA EdgeStep ==
  ASSUME LoopPart, ConnPart, NEW f \in open, Edge(f), UNCHANGED <<open, loop>>,
         \A g \in Fds : g # f => inbox'[g] = inbox[g] /\ peer'[g] = peer[g]
  PROVE  /\ ready' \subseteq open' \cup {fd_s}
         /\ missed' \subseteq Fds /\ paused' \subseteq Fds /\ leaked' \subseteq Fds
         /\ NothingForgotten'
<1>1. /\ ready' = ready \cup {f} /\ missed' = missed \ {f} /\ paused' = paused \ {f}
      /\ leaked' = leaked /\ UNCHANGED <<open, at, events, i, ret>>
  BY DEF Edge, loop
<1>2. ASSUME at' # "end", NEW g \in open', inbox'[g] # <<>> \/ peer'[g] # "up", ~Awaited(g)'
      PROVE  g \in missed' \cup paused' \cup leaked'
  <2>1. g # f /\ ~Awaited(g) /\ g \in open /\ g \in Fds
    BY <1>1, <1>2 DEF Awaited, ConnPart
  <2>2. g \in missed \cup paused \cup leaked
    BY <1>1, <1>2, <2>1 DEF ConnPart, NothingForgotten
  <2> QED
    BY <1>1, <2>1, <2>2
<1> QED
  BY <1>1, <1>2 DEF ConnPart, NothingForgotten

\* Clients and the kernel keep the invariant.
LEMMA ClientStep ==
  ASSUME LoopPart, ConnPart,
         \/ Connect
         \/ \E f \in Fds, b \in {"x", LF} : Arrive(f, b)
         \/ \E f \in Fds : PeerGoes(f)
  PROVE  LoopPart' /\ ConnPart'
<1>0. /\ clients \in Nat /\ bytes \in Nat /\ backlog \in Nat /\ MaxClients \in Nat
      /\ MaxBytes \in Nat /\ open \subseteq Fds
  BY EchoAssumption DEF ConnPart
<1>1. CASE Connect
  <2>1. /\ clients' = clients + 1 /\ backlog' = backlog + 1 /\ ready' = ready \cup {fd_s}
        /\ clients < MaxClients
        /\ UNCHANGED <<bytes, open, inbox, peer, at, events, i, ret, missed, paused, leaked>>
    BY <1>1 DEF Connect, conns, loop, history
  <2>2. LoopPart'
    BY <1>0, <2>1, LoopStays
  <2>3. \A g : Awaited(g) => Awaited(g)'
    BY <2>1 DEF Awaited
  <2>4. NothingForgotten'
    BY <2>1, <2>3 DEF ConnPart, NothingForgotten
  <2>5. clients' \in 0 .. MaxClients /\ backlog' \in 0 .. clients'
    BY <1>0, <2>1 DEF ConnPart
  <2> QED
    BY <2>1, <2>2, <2>4, <2>5 DEF ConnPart
<1>2. ASSUME NEW f \in Fds, NEW b \in {"x", LF}, Arrive(f, b) PROVE LoopPart' /\ ConnPart'
  <2>1. /\ f \in open /\ bytes' = bytes + 1 /\ bytes < MaxBytes /\ Edge(f)
        /\ inbox' = [inbox EXCEPT ![f] = Append(@, b)]
        /\ UNCHANGED <<clients, backlog, open, peer, loop>>
    BY <1>2 DEF Arrive
  <2>2. LoopPart'
    BY <2>1, LoopStays DEF loop
  <2>3. inbox' \in [Fds -> Seq({"x", LF})] /\ bytes' \in 0 .. MaxBytes
    BY <1>0, <1>2, <2>1 DEF ConnPart
  <2>4. \A g \in Fds : g # f => inbox'[g] = inbox[g] /\ peer'[g] = peer[g]
    BY <2>1 DEF ConnPart
  <2>5. /\ ready' \subseteq open' \cup {fd_s}
        /\ missed' \subseteq Fds /\ paused' \subseteq Fds /\ leaked' \subseteq Fds
        /\ NothingForgotten'
    BY <2>1, <2>4, EdgeStep
  <2> QED
    BY <2>1, <2>2, <2>3, <2>5 DEF ConnPart
<1>3. ASSUME NEW f \in Fds, PeerGoes(f) PROVE LoopPart' /\ ConnPart'
  <2>1. PICK from \in {"up", "eof"}, to \in {"eof", "reset", "lost", "dead"} : PeerChange(f, from, to)
    BY <1>3 DEF PeerGoes
  <2>2. /\ f \in open /\ Edge(f) /\ peer' = [peer EXCEPT ![f] = to]
        /\ UNCHANGED <<clients, bytes, backlog, open, inbox, loop>>
    BY <2>1 DEF PeerChange, kernel
  <2>3. LoopPart'
    BY <2>2, LoopStays DEF loop
  <2>4. peer' \in [Fds -> {"up", "eof", "reset", "lost", "dead"}]
    BY <2>1, <2>2 DEF ConnPart
  <2>5. \A g \in Fds : g # f => inbox'[g] = inbox[g] /\ peer'[g] = peer[g]
    BY <2>2 DEF ConnPart
  <2>6. /\ ready' \subseteq open' \cup {fd_s}
        /\ missed' \subseteq Fds /\ paused' \subseteq Fds /\ leaked' \subseteq Fds
        /\ NothingForgotten'
    BY <2>2, <2>5, EdgeStep
  <2> QED
    BY <2>2, <2>3, <2>4, <2>6 DEF ConnPart
<1> QED
  BY <1>1, <1>2, <1>3

\* Everything that is reported gets into the array, and the array is new.
LEMMA WaitStep ==
  ASSUME LoopPart, ConnPart, EpollWait
  PROVE  LoopPart' /\ ConnPart'
<1>1. /\ at = "wait" /\ at' = "loop" /\ events' \in SetToSeqs(Reported)
      /\ ret' = Cardinality(Reported) /\ i' = 1 /\ ready' = Reported \cap {fd_s}
      /\ UNCHANGED <<clients, bytes, backlog, open, inbox, peer, missed, paused, leaked>>
  BY DEF EpollWait, kernel, conns, history
<1>2. Reported \subseteq Fds \cup {fd_s} /\ IsFiniteSet(Reported)
  <2>1. Reported \subseteq Fds \cup {fd_s}
    BY DEF Reported, ConnPart
  <2>2. IsFiniteSet(Fds \cup {fd_s})
    BY EchoAssumption, FS_AddElement
  <2> QED
    BY <2>1, <2>2, FS_Subset
<1>3. /\ events' \in Seq(Reported) /\ Len(events') = ret' /\ ret' \in Nat
      /\ \A j \in 1 .. Len(events') : events'[j] \in Reported
      /\ \A j, k \in 1 .. Len(events') : events'[j] = events'[k] => j = k
      /\ \A f \in Reported : \E j \in 1 .. Len(events') : events'[j] = f
  BY <1>1, <1>2, Enumerated
<1>4. \A f \in Reported : f \in open \cup {fd_s} /\ (f = fd_s => backlog > 0)
  BY EchoAssumption DEF Reported, Readable, ConnPart
<1>5. events' \in Seq(Fds \cup {fd_s})
  BY <1>2, <1>3, SeqMonotonic
<1>6. LoopPart'
  <2>1. i' .. ret' = 1 .. Len(events')
    BY <1>1, <1>3
  <2>2. EventsCurrent'
    BY <1>1, <1>3, <1>4, <2>1 DEF EventsCurrent
  <2>3. i' \in 1 .. Len(events') + 1 /\ ret' \in 0 .. Len(events')
    BY <1>1, <1>3
  <2> QED
    BY <1>1, <1>3, <1>4, <1>5, <2>1, <2>2, <2>3 DEF LoopPart, IdleOutside
<1>7. NothingForgotten'
  <2> SUFFICES ASSUME NEW f \in open, inbox[f] # <<>> \/ peer[f] # "up", ~Awaited(f)'
               PROVE  f \in missed \cup paused \cup leaked
    BY <1>1 DEF NothingForgotten
  <2>1. f \notin ready
    <3> SUFFICES ASSUME f \in ready PROVE FALSE
      OBVIOUS
    <3>1. f \in Reported
      BY DEF Reported, Readable
    <3>2. \E j \in i' .. ret' : events'[j] = f
      BY <1>1, <1>3, <3>1
    <3> QED
      BY <3>2 DEF Awaited
  <2>2. i .. ret = {}
    BY <1>1 DEF LoopPart, IdleOutside
  <2>3. ~Awaited(f)
    BY <2>1, <2>2 DEF Awaited
  <2> QED
    BY <1>1, <2>3 DEF ConnPart, NothingForgotten
<1> QED
  BY <1>1, <1>4, <1>6, <1>7 DEF ConnPart

\* A new connection: the events behind it in the array are given up, and noted.
LEMMA AcceptStep ==
  ASSUME LoopPart, ConnPart, Accept
  PROVE  LoopPart' /\ ConnPart'
<1>1. PICK f \in Fds \ open :
        /\ open' = open \cup {f}
        /\ inbox' = [inbox EXCEPT ![f] = <<>>] /\ peer' = [peer EXCEPT ![f] = "up"]
  BY DEF Accept
<1>2. /\ At(fd_s) /\ backlog' = backlog - 1 /\ i' = i + 1 /\ ret' = 0
      /\ missed' = missed \cup {events[j] : j \in i + 1 .. ret}
      /\ UNCHANGED <<clients, bytes, ready, at, events, paused, leaked>>
  BY DEF Accept
<1>3. /\ i \in Nat \ {0} /\ ret \in Nat /\ i <= ret /\ i \in i .. ret /\ events[i] = fd_s
      /\ backlog > 0 /\ open \subseteq Fds
  BY <1>2 DEF LoopPart, ConnPart, At
<1>4. LoopPart'
  <2>1. ret' \in {0, ret} /\ ~(ret' = ret) /\ \A g \in open : g # fd_s => g \in open'
    BY <1>1, <1>2, <1>3
  <2> QED
    BY <1>2, <2>1, LoopAdvances
<1>5. \A j \in i + 1 .. ret : events[j] \in open
  <2>1. \A j \in i + 1 .. ret : j \in i .. ret /\ j # i
    BY <1>3
  <2> QED
    BY <1>3, <2>1 DEF LoopPart, EventsCurrent
<1>6. missed' \subseteq Fds
  BY <1>2, <1>3, <1>5 DEF ConnPart
<1>7. /\ inbox' \in [Fds -> Seq({"x", LF})] /\ inbox'[f] = <<>>
      /\ peer' \in [Fds -> {"up", "eof", "reset", "lost", "dead"}] /\ peer'[f] = "up"
      /\ \A g \in Fds : g # f => inbox'[g] = inbox[g] /\ peer'[g] = peer[g]
  BY <1>1 DEF ConnPart
<1>8. NothingForgotten'
  <2> SUFFICES ASSUME NEW g \in open', inbox'[g] # <<>> \/ peer'[g] # "up", ~Awaited(g)'
               PROVE  g \in missed' \cup paused' \cup leaked'
    BY DEF NothingForgotten
  <2>1. g # f /\ g \in open /\ g \in Fds /\ g # fd_s
    BY <1>1, <1>3, <1>7, EchoAssumption
  <2>2. inbox[g] # <<>> \/ peer[g] # "up"
    BY <1>7, <2>1
  <2>3. CASE Awaited(g)
    <3>1. PICK j \in i .. ret : events[j] = g
      BY <1>2, <2>3 DEF Awaited
    <3>2. j \in i + 1 .. ret
      BY <1>3, <2>1, <3>1
    <3> QED
      BY <1>2, <3>1, <3>2
  <2>4. CASE ~Awaited(g)
    <3>1. at # "end"
      BY <1>2 DEF At
    <3>2. g \in missed \cup paused \cup leaked
      BY <2>1, <2>2, <2>4, <3>1 DEF ConnPart, NothingForgotten
    <3> QED
      BY <1>2, <3>2
  <2> QED
    BY <2>3, <2>4
<1>9. backlog' \in 0 .. clients' /\ clients' \in 0 .. MaxClients
  BY <1>2, <1>3, EchoAssumption DEF ConnPart
<1>10. open' \subseteq Fds /\ ready' \subseteq open' \cup {fd_s}
  BY <1>1, <1>2 DEF ConnPart
<1> QED
  BY <1>2, <1>4, <1>6, <1>7, <1>8, <1>9, <1>10 DEF ConnPart

\* The event of f is handled: what the code does with f is all that has to be shown
\* of the rest.
LEMMA HandledStep ==
  ASSUME LoopPart, ConnPart, NEW f \in Fds, At(f),
         UNCHANGED <<clients, bytes, backlog, at, events, ret>>, i' \in {i, i + 1},
         inbox' \in [Fds -> Seq({"x", LF})],
         peer' \in [Fds -> {"up", "eof", "reset", "lost", "dead"}],
         \A g \in Fds : g # f => inbox'[g] = inbox[g] /\ peer'[g] = peer[g],
         \/ UNCHANGED <<open, ready>>
         \/ i' = i + 1 /\ open' = open \ {f} /\ ready' = ready \ {f},
         missed' \in {missed, missed \ {f}},
         paused' \in {paused, paused \cup {f}, paused \ {f}},
         leaked' \in {leaked, leaked \cup {f}, leaked \ {f}},
         \/ i' = i \/ f \notin open' \/ (inbox'[f] = <<>> /\ peer'[f] = "up")
         \/ f \in paused' \cup leaked'
  PROVE  LoopPart' /\ ConnPart'
<1>1. LoopPart'
  <2>1. CASE i' = i + 1
    <3>1. \A g \in open : g # f => g \in open'
      OBVIOUS
    <3> QED
      BY <2>1, <3>1, LoopAdvances
  <2>2. CASE i' = i
    <3>1. i # i + 1
      BY DEF LoopPart
    <3>2. open' = open
      BY <2>2, <3>1
    <3> QED
      BY <2>2, <3>2, LoopStays
  <2> QED
    BY <2>1, <2>2
<1>2. NothingForgotten'
  <2> SUFFICES ASSUME NEW g \in open', inbox'[g] # <<>> \/ peer'[g] # "up", ~Awaited(g)'
               PROVE  g \in missed' \cup paused' \cup leaked'
    BY DEF NothingForgotten
  <2>1. CASE g = f
    <3>1. i' # i
      <4> SUFFICES ASSUME i' = i PROVE FALSE
        OBVIOUS
      <4>1. i \in i .. ret /\ events[i] = f
        BY DEF At, LoopPart
      <4> QED
        BY <2>1, <4>1 DEF Awaited
    <3> QED
      BY <2>1, <3>1
  <2>2. CASE g # f
    <3>1. g \in open /\ g \in Fds /\ (inbox[g] # <<>> \/ peer[g] # "up")
      BY <2>2 DEF ConnPart
    <3>2. ~Awaited(g)
      BY <2>2, StillAwaited
    <3>3. at # "end"
      BY DEF At
    <3>4. g \in missed \cup paused \cup leaked
      BY <3>1, <3>2, <3>3 DEF ConnPart, NothingForgotten
    <3> QED
      BY <2>2, <3>4
  <2> QED
    BY <2>1, <2>2
<1>3. open' \subseteq Fds /\ ready' \subseteq open' \cup {fd_s}
  BY EchoAssumption DEF ConnPart
<1>4. missed' \subseteq Fds /\ paused' \subseteq Fds /\ leaked' \subseteq Fds
  BY DEF ConnPart
<1> QED
  BY <1>1, <1>2, <1>3, <1>4 DEF ConnPart

\* The server keeps the invariant.
LEMMA ServerStep ==
  ASSUME LoopPart, ConnPart, Server
  PROVE  LoopPart' /\ ConnPart'
<1> USE DEF kernel, conns, loop, history
<1>0. /\ inbox \in [Fds -> Seq({"x", LF})]
      /\ peer \in [Fds -> {"up", "eof", "reset", "lost", "dead"}]
      /\ at \in {"wait", "loop", "end"}
  BY DEF ConnPart, LoopPart
<1>r. \A f \in Fds : Rest(f) \in Seq({"x", LF})
  <2>1. TypeOK
    BY Parts DEF EchoInvariant
  <2> QED
    BY <2>1, ReadParts
<1>1. CASE EpollWait
  BY <1>1, WaitStep
<1>2. CASE Accept
  BY <1>2, AcceptStep
<1>3. CASE LoopEnds
  <2>1. LoopPart'
    BY <1>3, LoopLeft DEF LoopEnds
  <2>2. i .. ret = {}
    BY <1>3 DEF LoopEnds, LoopPart
  <2>3. \A g : Awaited(g) => Awaited(g)'
    BY <1>3, <2>2 DEF LoopEnds, Awaited
  <2>4. NothingForgotten'
    BY <1>3, <2>3 DEF LoopEnds, ConnPart, NothingForgotten
  <2> QED
    BY <1>3, <2>1, <2>4 DEF LoopEnds, ConnPart
<1>4. ASSUME Leave, UNCHANGED <<clients, bytes, backlog, open, peer, ready, missed, paused, leaked>>,
             inbox' \in [Fds -> Seq({"x", LF})]
      PROVE  LoopPart' /\ ConnPart'
  <2>1. LoopPart'
    BY <1>4, LoopLeft DEF Leave
  <2>2. NothingForgotten'
    BY <1>4 DEF Leave, NothingForgotten
  <2> QED
    BY <1>4, <2>1, <2>2 DEF ConnPart
<1>5. CASE AcceptFails
  BY <1>0, <1>4, <1>5 DEF AcceptFails
<1>6. ASSUME NEW f \in Fds, Echo(f) PROVE LoopPart' /\ ConnPart'
  <2>1. inbox' \in [Fds -> Seq({"x", LF})] /\ \A g \in Fds : g # f => inbox'[g] = inbox[g]
    BY <1>0, <1>r, <1>6 DEF Echo
  <2>2. /\ peer' \in [Fds -> {"up", "eof", "reset", "lost", "dead"}]
        /\ \A g \in Fds : g # f => peer'[g] = peer[g]
    BY <1>0, <1>6 DEF Echo
  <2> QED
    BY <1>6, <2>1, <2>2, HandledStep DEF Echo
<1>7. ASSUME NEW f \in Fds, EchoKills(f) PROVE LoopPart' /\ ConnPart'
  <2>1. inbox' \in [Fds -> Seq({"x", LF})]
    BY <1>0, <1>r, <1>7 DEF EchoKills
  <2> QED
    BY <1>4, <1>7, <2>1 DEF EchoKills
<1>8. ASSUME NEW f \in Fds, Newline(f) PROVE LoopPart' /\ ConnPart'
  <2>1. /\ inbox' \in [Fds -> Seq({"x", LF})] /\ \A g \in Fds : g # f => inbox'[g] = inbox[g]
        /\ inbox'[f] = Rest(f)
    BY <1>0, <1>r, <1>8 DEF Newline
  <2>2. /\ paused' \in {paused, paused \cup {f}}
        /\ (inbox'[f] = <<>> /\ peer'[f] = "up") \/ f \in paused'
    BY <1>8, <2>1 DEF Newline
  <2> QED
    BY <1>0, <1>8, <2>1, <2>2, HandledStep DEF Newline
<1>9. ASSUME NEW f \in Fds, Eagain(f) PROVE LoopPart' /\ ConnPart'
  BY <1>0, <1>9, HandledStep DEF Eagain
<1>10. ASSUME NEW f \in Fds, ReadReset(f) PROVE LoopPart' /\ ConnPart'
  <2>1. /\ peer' \in [Fds -> {"up", "eof", "reset", "lost", "dead"}]
        /\ \A g \in Fds : g # f => peer'[g] = peer[g]
    BY <1>0, <1>10 DEF ReadReset
  <2> QED
    BY <1>0, <1>10, <2>1, HandledStep DEF ReadReset
<1>11. ASSUME NEW f \in Fds, ReadFails(f) PROVE LoopPart' /\ ConnPart'
  BY <1>0, <1>4, <1>11 DEF ReadFails
<1>12. ASSUME NEW f \in Fds, ReadEof(f) PROVE LoopPart' /\ ConnPart'
  BY <1>0, <1>12, HandledStep DEF ReadEof
<1> QED
  BY <1>1, <1>2, <1>3, <1>5, <1>6, <1>7, <1>8, <1>9, <1>10, <1>11, <1>12 DEF Server

\* Before the first client.
LEMMA EchoInit == Init => EchoInvariant
<1> SUFFICES ASSUME Init PROVE EchoInvariant
  OBVIOUS
<1>1. LoopPart
  BY DEF Init, LoopPart, IdleOutside, EventsCurrent
<1>2. ConnPart
  <2>1. <<>> \in Seq({"x", LF})
    OBVIOUS
  <2> QED
    BY <2>1, EchoAssumption DEF Init, ConnPart, NothingForgotten
<1> QED
  BY <1>1, <1>2, Parts

\* EchoInvariant is inductive.
LEMMA EchoStep == EchoInvariant /\ [Next]_vars => EchoInvariant'
<1> SUFFICES ASSUME EchoInvariant, [Next]_vars PROVE LoopPart' /\ ConnPart'
  <2>1. (EchoInvariant <=> LoopPart /\ ConnPart)'
    BY Parts, PTL
  <2> QED
    BY <2>1
<1>1. LoopPart /\ ConnPart
  BY Parts
<1>2. CASE UNCHANGED vars
  BY <1>1, <1>2 DEF vars, kernel, conns, loop, history, LoopPart, ConnPart, IdleOutside,
    EventsCurrent, NothingForgotten, Awaited
<1>3. CASE Server
  BY <1>1, <1>3, ServerStep
<1>4. CASE Next /\ ~Server
  BY <1>1, <1>4, ClientStep DEF Next
<1> QED
  BY <1>2, <1>3, <1>4

\* For any number of clients, bytes and descriptors: the invariant holds.
THEOREM EchoCorrect == Spec => []EchoInvariant
  BY EchoInit, EchoStep, PTL DEF Spec

\* The types, among them that the for loop stays inside the array.
THEOREM EchoTypes == Spec => []TypeOK
<1>1. EchoInvariant => TypeOK
  BY DEF EchoInvariant
<1> QED
  BY <1>1, EchoCorrect, PTL

\* An edge-triggered event is forgotten in exactly the three ways NothingForgotten
\* names.
THEOREM EdgesKept == Spec => []NothingForgotten
<1>1. EchoInvariant => NothingForgotten
  BY DEF EchoInvariant
<1> QED
  BY <1>1, EchoCorrect, PTL

\* The events still to be handled are of open connections, each once.
THEOREM ArrayCurrent == Spec => []EventsCurrent
<1>1. EchoInvariant => EventsCurrent
  BY DEF EchoInvariant
<1> QED
  BY <1>1, EchoCorrect, PTL
=============================================================================
