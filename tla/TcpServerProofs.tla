--------------------------- MODULE TcpServerProofs ---------------------------
(***************************************************************************)
(* For any number of connections and of sub-loops: what TcpServer promises *)
(* of the life of its connections.                                         *)
(***************************************************************************)
EXTENDS TcpServer, FiniteSetTheorems, SequenceTheorems, TLAPS

Queues == [Loop -> Seq(Functor)]

-----------------------------------------------------------------------------
(* The queues of the loops.                                                 *)

\* A functor about c is at place <<l, j>> of a queue.
IsAt(q, c, names, l, j) ==
  l \in Loop /\ j \in 1 .. Len(q[l]) /\ q[l][j].op \in names /\ q[l][j].conn = c

\* Queued is the set of those places.
LEMMA QueuedPlaces ==
  ASSUME NEW q \in Queues, NEW c, NEW names
  PROVE  /\ \A l, j : <<l, j>> \in Queued(q, c, names) <=> IsAt(q, c, names, l, j)
         /\ \A p \in Queued(q, c, names) : p = <<p[1], p[2]>>
<1> DEFINE All == UNION {{l} \X DOMAIN q[l] : l \in Loop}
<1>1. \A l \in Loop : DOMAIN q[l] = 1 .. Len(q[l]) /\ \A j \in 1 .. Len(q[l]) : q[l][j] \in Functor
  BY DEF Queues
<1>2. \A l, j : <<l, j>> \in All <=> l \in Loop /\ j \in DOMAIN q[l]
  OBVIOUS
<1>3. \A p \in All : p = <<p[1], p[2]>>
  OBVIOUS
<1>4. \A f \in Functor : f \in [op : names, conn : {c}] <=> f.op \in names /\ f.conn = c
  BY DEF Functor
<1> HIDE DEF All
<1>5. Queued(q, c, names) = {p \in All : q[p[1]][p[2]] \in [op : names, conn : {c}]}
  BY DEF Queued, All
<1>6. ASSUME NEW l, NEW j
      PROVE <<l, j>> \in Queued(q, c, names) <=> IsAt(q, c, names, l, j)
  <2>1. <<l, j>> \in Queued(q, c, names) <=>
          <<l, j>> \in All /\ q[l][j] \in [op : names, conn : {c}]
    BY <1>5
  <2> QED
    BY <2>1, <1>1, <1>2, <1>4 DEF IsAt
<1> QED
  BY <1>3, <1>5, <1>6

\* A functor that is posted has the last place of its loop's queue.
LEMMA PostQueued ==
  ASSUME NEW q \in Queues, NEW l \in Loop, NEW d \in Conn,
         NEW name \in {"established", "remove", "destroyed", "shutdown"},
         NEW c, NEW names
  PROVE  /\ Post(q, l, name, d) \in Queues
         /\ ~(d = c /\ name \in names) =>
              Queued(Post(q, l, name, d), c, names) = Queued(q, c, names)
         /\ d = c /\ name \in names =>
              Queued(Post(q, l, name, d), c, names)
                = Queued(q, c, names) \cup {<<l, Len(q[l]) + 1>>}
<1> DEFINE f == [op |-> name, conn |-> d]
           r == Post(q, l, name, d)
<1>1. f \in Functor /\ f.op = name /\ f.conn = d
  BY DEF Functor
<1>2. r = [q EXCEPT ![l] = Append(@, f)]
  BY DEF Post
<1> HIDE DEF f, r
<1>3. r \in Queues /\ r[l] = Append(q[l], f) /\ \A m \in Loop \ {l} : r[m] = q[m]
  BY <1>1, <1>2 DEF Queues
<1>4. q[l] \in Seq(Functor)
  BY DEF Queues
<1>5. /\ Len(r[l]) = Len(q[l]) + 1 /\ Len(q[l]) \in Nat
      /\ \A j \in 1 .. Len(q[l]) : r[l][j] = q[l][j]
      /\ r[l][Len(q[l]) + 1] = f
  BY <1>1, <1>3, <1>4
<1>6. \A m, j : IsAt(r, c, names, m, j) <=>
        IsAt(q, c, names, m, j)
          \/ (m = l /\ j = Len(q[l]) + 1 /\ d = c /\ name \in names)
  BY <1>1, <1>3, <1>5 DEF IsAt
<1>7. \A m, j : <<m, j>> \in Queued(r, c, names) <=>
        <<m, j>> \in Queued(q, c, names)
          \/ (m = l /\ j = Len(q[l]) + 1 /\ d = c /\ name \in names)
  BY <1>3, <1>6, QueuedPlaces
<1>8. /\ \A p \in Queued(q, c, names) : p = <<p[1], p[2]>>
      /\ \A p \in Queued(r, c, names) : p = <<p[1], p[2]>>
  BY <1>3, QueuedPlaces
<1>9. ASSUME ~(d = c /\ name \in names) PROVE Queued(r, c, names) = Queued(q, c, names)
  BY <1>7, <1>8, <1>9
<1>10. ASSUME d = c /\ name \in names
       PROVE Queued(r, c, names) = Queued(q, c, names) \cup {<<l, Len(q[l]) + 1>>}
  BY <1>7, <1>8, <1>10
<1> QED
  BY <1>3, <1>9, <1>10 DEF r

\* The first functor of a queue is about c.
Gone(q, l, c, names) == Head(q[l]).op \in names /\ Head(q[l]).conn = c

\* doPendingFunctors goes on: the places of the loop's batch move up by one.
LEMMA TailQueued ==
  ASSUME NEW q \in Queues, NEW l \in Loop, q[l] # <<>>, NEW c, NEW names
  PROVE  /\ [q EXCEPT ![l] = Tail(@)] \in Queues
         /\ Queued(q, c, names) = {} =>
              Queued([q EXCEPT ![l] = Tail(@)], c, names) = {} /\ ~Gone(q, l, c, names)
         /\ Gone(q, l, c, names) => <<l, 1>> \in Queued(q, c, names)
         /\ \A p : Queued(q, c, names) = {p} =>
              /\ Gone(q, l, c, names) => Queued([q EXCEPT ![l] = Tail(@)], c, names) = {}
              /\ ~Gone(q, l, c, names) =>
                   \E s : Queued([q EXCEPT ![l] = Tail(@)], c, names) = {s}
<1> DEFINE r == [q EXCEPT ![l] = Tail(@)]
           gone == Gone(q, l, c, names)
<1>1. q[l] \in Seq(Functor)
  BY DEF Queues
<1>2. r \in Queues /\ r[l] = Tail(q[l]) /\ \A m \in Loop \ {l} : r[m] = q[m]
  BY <1>1 DEF Queues
<1> HIDE DEF r
<1>3. /\ Len(q[l]) \in Nat \ {0} /\ Len(r[l]) = Len(q[l]) - 1
      /\ \A j \in 1 .. Len(q[l]) - 1 : r[l][j] = q[l][j + 1]
      /\ Head(q[l]) = q[l][1]
  BY <1>1, <1>2
<1>4. \A m, j : IsAt(r, c, names, m, j) <=>
        (m # l /\ IsAt(q, c, names, m, j))
          \/ (m = l /\ j \in Nat \ {0} /\ IsAt(q, c, names, l, j + 1))
  <2>1. \A m, j : m # l => (IsAt(r, c, names, m, j) <=> IsAt(q, c, names, m, j))
    BY <1>2 DEF IsAt
  <2>2. ASSUME NEW j
        PROVE IsAt(r, c, names, l, j) <=> j \in Nat \ {0} /\ IsAt(q, c, names, l, j + 1)
    <3>1. CASE j \in 1 .. Len(q[l]) - 1
      <4>1. r[l][j] = q[l][j + 1] /\ j \in Nat \ {0} /\ j + 1 \in 1 .. Len(q[l])
        BY <1>3, <3>1
      <4> QED
        BY <1>3, <3>1, <4>1 DEF IsAt
    <3>2. CASE j \notin 1 .. Len(q[l]) - 1
      <4>1. j \in Nat \ {0} => j + 1 \notin 1 .. Len(q[l])
        BY <1>3, <3>2
      <4> QED
        BY <1>3, <3>2, <4>1 DEF IsAt
    <3> QED
      BY <3>1, <3>2
  <2> QED
    BY <2>1, <2>2
<1>5. gone <=> IsAt(q, c, names, l, 1)
  BY <1>3 DEF IsAt, Gone
<1> HIDE DEF gone
<1>6. \A m, j : <<m, j>> \in Queued(r, c, names) <=>
        (m # l /\ <<m, j>> \in Queued(q, c, names))
          \/ (m = l /\ j \in Nat \ {0} /\ <<l, j + 1>> \in Queued(q, c, names))
  BY <1>2, <1>4, QueuedPlaces
<1>7. gone <=> <<l, 1>> \in Queued(q, c, names)
  BY <1>5, QueuedPlaces
<1>8. /\ \A p \in Queued(q, c, names) : p = <<p[1], p[2]>>
      /\ \A p \in Queued(r, c, names) : p = <<p[1], p[2]>>
  BY <1>2, QueuedPlaces
<1>9. ASSUME Queued(q, c, names) = {} PROVE Queued(r, c, names) = {} /\ ~gone
  BY <1>6, <1>7, <1>8, <1>9
<1>10. ASSUME NEW p, Queued(q, c, names) = {p}
       PROVE  /\ gone => Queued(r, c, names) = {}
              /\ ~gone => \E s : Queued(r, c, names) = {s}
  <2>1. ASSUME gone PROVE Queued(r, c, names) = {}
    BY <1>6, <1>7, <1>8, <1>10, <2>1
  <2>2. ASSUME ~gone PROVE \E s : Queued(r, c, names) = {s}
    <3>1. PICK m, j : p = <<m, j>>
      BY <1>8, <1>10
    <3>2. IsAt(q, c, names, m, j)
      BY <1>10, <3>1, QueuedPlaces
    <3>3. j \in Nat \ {0} /\ (m = l => j # 1)
      BY <1>5, <2>2, <3>2 DEF IsAt, Queues
    <3>4. CASE m = l
      <4>1. \A n, k : <<n, k>> \in Queued(r, c, names) <=> n = l /\ k = j - 1
        <5>1. \A k \in Nat \ {0} : k + 1 = j <=> k = j - 1
          BY <3>3
        <5>2. j - 1 \in Nat \ {0}
          BY <3>3, <3>4
        <5>3. \A n, k : <<n, k>> \in Queued(q, c, names) <=> n = l /\ k = j
          BY <1>10, <3>1, <3>4
        <5>4. ASSUME NEW n, NEW k
              PROVE <<n, k>> \in Queued(r, c, names) <=> n = l /\ k \in Nat \ {0} /\ k + 1 = j
          <6>1. <<l, k + 1>> \in Queued(q, c, names) <=> k + 1 = j
            BY <5>3
          <6>2. n # l => <<n, k>> \notin Queued(q, c, names)
            BY <5>3
          <6> QED
            BY <1>6, <6>1, <6>2
        <5> QED
          BY <5>1, <5>2, <5>4, Zenon
      <4>2. Queued(r, c, names) = {<<l, j - 1>>}
        BY <1>8, <4>1
      <4> QED
        BY <4>2
    <3>5. CASE m # l
      <4>1. \A n, k : <<n, k>> \in Queued(r, c, names) <=> n = m /\ k = j
        BY <1>6, <1>10, <3>1, <3>5
      <4>2. Queued(r, c, names) = {<<m, j>>}
        BY <1>8, <4>1
      <4> QED
        BY <4>2
    <3> QED
      BY <3>4, <3>5
  <2> QED
    BY <2>1, <2>2
<1>11. gone => <<l, 1>> \in Queued(q, c, names)
  BY <1>7
<1> QED
  BY <1>2, <1>9, <1>10, <1>11 DEF r, gone

\* No functor, or one, in two queues taken together.
Empty(p, b, c, names) == Queued(p, c, names) = {} /\ Queued(b, c, names) = {}
Single(p, b, c, names) ==
  \E x : \/ Queued(p, c, names) = {x} /\ Queued(b, c, names) = {}
         \/ Queued(p, c, names) = {} /\ Queued(b, c, names) = {x}

\* Posting a functor adds it to those that are queued and changes nothing else.
LEMMA PostEffect ==
  ASSUME NEW p \in Queues, NEW b \in Queues, NEW l \in Loop, NEW d \in Conn,
         NEW name \in {"established", "remove", "destroyed", "shutdown"},
         NEW c, NEW names
  PROVE  /\ ~(d = c /\ name \in names) =>
              /\ Empty(p, b, c, names) => Empty(Post(p, l, name, d), b, c, names)
              /\ Single(p, b, c, names) => Single(Post(p, l, name, d), b, c, names)
         /\ d = c /\ name \in names /\ Empty(p, b, c, names) =>
              Single(Post(p, l, name, d), b, c, names)
<1>1. ASSUME ~(d = c /\ name \in names)
      PROVE  /\ Empty(p, b, c, names) => Empty(Post(p, l, name, d), b, c, names)
             /\ Single(p, b, c, names) => Single(Post(p, l, name, d), b, c, names)
  <2>1. Queued(Post(p, l, name, d), c, names) = Queued(p, c, names)
    BY <1>1, PostQueued
  <2> QED
    BY <2>1 DEF Empty, Single
<1>2. ASSUME d = c, name \in names, Empty(p, b, c, names)
      PROVE  Single(Post(p, l, name, d), b, c, names)
  <2>1. Queued(Post(p, l, name, d), c, names) = {<<l, Len(p[l]) + 1>>}
    <3>1. Queued(Post(p, l, name, d), c, names)
            = Queued(p, c, names) \cup {<<l, Len(p[l]) + 1>>}
      BY <1>2, PostQueued
    <3> QED
      BY <1>2, <3>1 DEF Empty
  <2> QED
    BY <1>2, <2>1 DEF Empty, Single
<1> QED
  BY <1>1, <1>2

\* Running the first functor of a batch takes it from those that are queued and
\* changes nothing else.
LEMMA RanEffect ==
  ASSUME NEW p \in Queues, NEW b \in Queues, NEW l \in Loop, b[l] # <<>>,
         NEW name, NEW d, Head(b[l]) = [op |-> name, conn |-> d],
         NEW c, NEW names
  PROVE  /\ Empty(p, b, c, names) =>
              Empty(p, [b EXCEPT ![l] = Tail(@)], c, names) /\ ~(d = c /\ name \in names)
         /\ ~(d = c /\ name \in names) =>
              (Single(p, b, c, names) =>
                Single(p, [b EXCEPT ![l] = Tail(@)], c, names))
         /\ d = c /\ name \in names =>
              (Single(p, b, c, names) =>
                Empty(p, [b EXCEPT ![l] = Tail(@)], c, names))
<1> DEFINE gone == Gone(b, l, c, names)
           r == [b EXCEPT ![l] = Tail(@)]
<1>1. gone <=> d = c /\ name \in names
  BY DEF Gone
<1>2. /\ Queued(b, c, names) = {} => Queued(r, c, names) = {} /\ ~gone
      /\ gone => <<l, 1>> \in Queued(b, c, names)
      /\ \A x : Queued(b, c, names) = {x} =>
           /\ gone => Queued(r, c, names) = {}
           /\ ~gone => \E s : Queued(r, c, names) = {s}
  BY TailQueued, Zenon
<1> HIDE DEF gone, r
<1>3. Empty(p, b, c, names) => Empty(p, r, c, names) /\ ~gone
  BY <1>2 DEF Empty
<1>4. ASSUME ~gone, Single(p, b, c, names) PROVE Single(p, r, c, names)
  BY <1>2, <1>4 DEF Single
<1>5. ASSUME gone, Single(p, b, c, names) PROVE Empty(p, r, c, names)
  BY <1>2, <1>5 DEF Single, Empty
<1> QED
  BY <1>1, <1>3, <1>4, <1>5 DEF r

\* The swap of doPendingFunctors moves functors from one queue to the other.
LEMMA SwapEffect ==
  ASSUME NEW p \in Queues, NEW b \in Queues, NEW l \in Loop, b[l] = <<>>,
         NEW c, NEW names
  PROVE  /\ Empty(p, b, c, names) =>
              Empty([p EXCEPT ![l] = <<>>], [b EXCEPT ![l] = p[l]], c, names)
         /\ Single(p, b, c, names) =>
              Single([p EXCEPT ![l] = <<>>], [b EXCEPT ![l] = p[l]], c, names)
<1> DEFINE p2 == [p EXCEPT ![l] = <<>>]
           b2 == [b EXCEPT ![l] = p[l]]
           P == Queued(p, c, names)
           B == Queued(b, c, names)
           P2 == Queued(p2, c, names)
           B2 == Queued(b2, c, names)
<1>1. /\ p2 \in Queues /\ p2[l] = <<>> /\ \A m \in Loop \ {l} : p2[m] = p[m]
      /\ b2 \in Queues /\ b2[l] = p[l] /\ \A m \in Loop \ {l} : b2[m] = b[m]
  BY DEF Queues
<1> HIDE DEF p2, b2
<1>2. \A m, j : IsAt(p2, c, names, m, j) <=> m # l /\ IsAt(p, c, names, m, j)
  BY <1>1 DEF IsAt
<1>3. \A m, j : IsAt(b2, c, names, m, j) <=>
        (m # l /\ IsAt(b, c, names, m, j)) \/ (m = l /\ IsAt(p, c, names, m, j))
  BY <1>1 DEF IsAt
<1>4. \A j : ~IsAt(b, c, names, l, j)
  BY DEF IsAt
<1>5. \A m, j : <<m, j>> \in P2 <=> m # l /\ <<m, j>> \in P
  BY <1>1, <1>2, QueuedPlaces
<1>6. \A m, j : <<m, j>> \in B2 <=>
        (m # l /\ <<m, j>> \in B) \/ (m = l /\ <<m, j>> \in P)
  BY <1>1, <1>3, QueuedPlaces
<1>7. \A j : <<l, j>> \notin B
  BY <1>4, QueuedPlaces
<1>8. /\ \A x \in P : x = <<x[1], x[2]>>
      /\ \A x \in B : x = <<x[1], x[2]>>
      /\ \A x \in P2 : x = <<x[1], x[2]>>
      /\ \A x \in B2 : x = <<x[1], x[2]>>
  BY <1>1, QueuedPlaces
<1> HIDE DEF P, B, P2, B2
<1>9. ASSUME P = {}, B = {} PROVE P2 = {} /\ B2 = {}
  BY <1>5, <1>6, <1>8, <1>9
<1>10. ASSUME NEW m, NEW j, P = {<<m, j>>}, B = {}
       PROVE  \/ P2 = {<<m, j>>} /\ B2 = {}
              \/ P2 = {} /\ B2 = {<<m, j>>}
  <2>1. ASSUME NEW n, NEW k
        PROVE  /\ <<n, k>> \in P2 <=> m # l /\ n = m /\ k = j
               /\ <<n, k>> \in B2 <=> m = l /\ n = m /\ k = j
    <3>1. <<n, k>> \in P <=> n = m /\ k = j
      BY <1>10
    <3> QED
      BY <1>5, <1>6, <1>10, <3>1
  <2> QED
    BY <1>8, <2>1
<1>11. ASSUME NEW m, NEW j, P = {}, B = {<<m, j>>}
       PROVE  P2 = {} /\ B2 = {<<m, j>>}
  <2>1. m # l
    BY <1>7, <1>11
  <2>2. ASSUME NEW n, NEW k PROVE <<n, k>> \in B2 <=> n = m /\ k = j
    <3>1. <<n, k>> \in B <=> n = m /\ k = j
      BY <1>11
    <3> QED
      BY <1>6, <1>11, <2>1, <3>1
  <2>3. P2 = {}
    BY <1>5, <1>8, <1>11
  <2> QED
    BY <1>8, <2>2, <2>3
<1>12. ASSUME NEW x, (P = {x} /\ B = {}) \/ (P = {} /\ B = {x})
       PROVE  \E y : (P2 = {y} /\ B2 = {}) \/ (P2 = {} /\ B2 = {y})
  <2>1. PICK m, j : x = <<m, j>>
    BY <1>8, <1>12
  <2> QED
    BY <1>10, <1>11, <1>12, <2>1
<1> QED
  BY <1>9, <1>12 DEF Empty, Single, P, B, P2, B2, p2, b2

-----------------------------------------------------------------------------
(* Types.                                                                   *)

\* The loops of the pool are the first of SubLoops.
PoolPrefix ==
  /\ loops \in Seq(SubLoop) /\ Len(loops) <= Len(SubLoops) /\ Len(loops) \in Nat
  /\ DOMAIN loops = 1 .. Len(loops) /\ DOMAIN SubLoops = 1 .. Len(SubLoops)
  /\ Len(SubLoops) \in Nat
  /\ \A i \in DOMAIN loops : loops[i] = SubLoops[i] /\ loops[i] \in SubLoop

\* That is what TypeOK says of them.
LEMMA LoopsPrefix == TypeOK => PoolPrefix
<1> SUFFICES ASSUME TypeOK PROVE PoolPrefix
  OBVIOUS
<1>1. SubLoops \in Seq(SubLoop)
  BY LoopAssumption
<1>2. PICK n \in 0 .. Len(SubLoops) : loops = SubSeq(SubLoops, 1, n)
  BY DEF TypeOK
<1>3. /\ Len(SubLoops) \in Nat /\ DOMAIN SubLoops = 1 .. Len(SubLoops)
      /\ \A i \in 1 .. Len(SubLoops) : SubLoops[i] \in SubLoop
  BY <1>1
<1>4. \A i \in 1 .. n : i \in 1 .. Len(SubLoops)
  BY <1>2, <1>3
<1>5. loops \in Seq(SubLoop) /\ Len(loops) = n /\ \A i \in 1 .. n : loops[i] = SubLoops[i]
  BY <1>1, <1>2, <1>3, <1>4
<1> QED
  BY <1>2, <1>3, <1>4, <1>5 DEF PoolPrefix

\* The loop a new connection gets is one of the server's.
LEMMA NextLoop ==
  ASSUME TypeOK, PoolInvariant
  PROVE  /\ getNextLoop \in Loop /\ getNextLoop \in Chosen
         /\ nextAfter \in DOMAIN SubLoops \cup {1}
         /\ IF loops = <<>> THEN nextAfter = 1 ELSE nextAfter \in DOMAIN loops
<1>1. CASE loops = <<>>
  BY <1>1 DEF getNextLoop, nextAfter, Loop, Chosen, PoolInvariant
<1>2. CASE loops # <<>>
  <2>1. /\ loops \in Seq(SubLoop) /\ Len(loops) <= Len(SubLoops) /\ Len(loops) \in Nat
        /\ DOMAIN loops = 1 .. Len(loops) /\ DOMAIN SubLoops = 1 .. Len(SubLoops)
        /\ Len(SubLoops) \in Nat /\ \A i \in DOMAIN loops : loops[i] \in SubLoop
    BY LoopsPrefix DEF PoolPrefix
  <2>2. next \in 1 .. Len(loops)
    BY <1>2, <2>1 DEF PoolInvariant
  <2>3. nextAfter \in 1 .. Len(loops)
    BY <1>2, <2>1, <2>2 DEF nextAfter
  <2>4. getNextLoop = loops[next] /\ getNextLoop \in SubLoop
    BY <1>2, <2>1, <2>2 DEF getNextLoop
  <2> QED
    BY <1>2, <2>1, <2>2, <2>3, <2>4 DEF Loop, Chosen
<1> QED
  BY <1>1, <1>2

\* A functor posted to any loop leaves queues of functors.
LEMMA PostType ==
  ASSUME NEW q \in Queues, NEW l, NEW d \in Conn,
         NEW name \in {"established", "remove", "destroyed", "shutdown"}
  PROVE  Post(q, l, name, d) \in Queues
<1>1. CASE l \in Loop
  BY <1>1, PostQueued
<1>2. CASE l \notin Loop
  <2>1. Post(q, l, name, d) = q
    BY <1>2 DEF Post, Queues
  <2> QED
    BY <2>1
<1> QED
  BY <1>1, <1>2

\* The types of the queues after a functor has run.
LEMMA RanType ==
  ASSUME TypeOK, NEW l \in Loop, batch[l] # <<>>, Ran(l)
  PROVE  batch' \in [Loop -> Seq(Functor)]
<1>1. batch \in Queues
  BY DEF TypeOK, Queues
<1> QED
  BY <1>1, TailQueued DEF Ran, Queues

\* The types after closeCallback_.
LEMMA RemoveType ==
  ASSUME TypeOK, NEW l \in Loop, NEW c \in Conn, RemoveConnection(l, c)
  PROVE  pending' \in [Loop -> Seq(Functor)] /\ connections' \subseteq Conn
<1>1. pending \in Queues /\ connections \subseteq Conn
  BY DEF TypeOK, Queues
<1>2. CASE l = Base
  <2>1. connections' = connections \ {c} /\ pending' = Post(pending, loop[c], "destroyed", c)
    BY <1>2 DEF RemoveConnection, RemoveConnectionInLoop
  <2>2. pending' \in Queues
    BY <1>1, <2>1, PostType
  <2> QED
    BY <1>1, <2>1, <2>2 DEF Queues
<1>3. CASE l # Base
  <2>1. connections' = connections /\ pending' = Post(pending, Base, "remove", c)
    BY <1>3 DEF RemoveConnection
  <2>2. pending' \in Queues
    BY <1>1, <2>1, PostType
  <2> QED
    BY <1>1, <2>1, <2>2 DEF Queues
<1> QED
  BY <1>2, <1>3

\* Every step keeps the types.
LEMMA TypeStep ==
  ASSUME TypeOK, PoolInvariant, LoopInvariant, [Next]_vars
  PROVE  TypeOK'
<1> USE DEF poolVars, connVars, loopVars, peerVars, Index, State
<1>q. pending \in Queues /\ batch \in Queues
  BY DEF TypeOK, Queues
<1>1. CASE UNCHANGED vars
  BY <1>1 DEF vars, TypeOK
<1>2. ASSUME NEW n \in ThreadNums, Start(n) PROVE TypeOK'
  <2>1. started' \in 0 .. 1
    BY <1>2 DEF Start
  <2>2. loops' \in {SubSeq(SubLoops, 1, k) : k \in 0 .. Len(SubLoops)}
    BY <1>2, ThreadAssumption DEF Start, TypeOK
  <2> QED
    BY <1>2, <2>1, <2>2 DEF Start, TypeOK
<1>3. CASE AcceptFails
  BY <1>3 DEF AcceptFails, TypeOK
<1>4. ASSUME NEW c \in Conn, NewConnection(c) PROVE TypeOK'
  <2>1. getNextLoop \in Loop /\ nextAfter \in DOMAIN SubLoops \cup {1}
    BY NextLoop
  <2>2. pending' \in [Loop -> Seq(Functor)]
    <3>1. pending' = pending \/ pending' = Post(pending, getNextLoop, "established", c)
      BY <1>4 DEF NewConnection
    <3>2. Post(pending, getNextLoop, "established", c) \in Queues
      BY <1>q, PostType
    <3>3. pending' \in Queues
      BY <1>q, <3>1, <3>2
    <3> QED
      BY <3>3 DEF Queues
  <2>3. reports' \in [Conn -> Seq(BOOLEAN)]
    <3>1. reports \in [Conn -> Seq(BOOLEAN)]
      BY DEF TypeOK
    <3>2. reports' = reports \/ reports' = [reports EXCEPT ![c] = Append(@, TRUE)]
      BY <1>4 DEF NewConnection, Established
    <3>3. Append(reports[c], TRUE) \in Seq(BOOLEAN)
      BY <3>1
    <3>4. CASE reports' = [reports EXCEPT ![c] = Append(@, TRUE)]
      BY <3>1, <3>3, <3>4
    <3> QED
      BY <3>1, <3>2, <3>4
  <2>4. /\ state' \in [Conn -> State \cup {"none"}] /\ index' \in [Conn -> Index]
        /\ reading' \in [Conn -> BOOLEAN]
    <3>1. \/ state' = [state EXCEPT ![c] = "kConnecting"] /\ UNCHANGED <<index, reading>>
          \/ /\ state' = [state EXCEPT ![c] = "kConnected"]
             /\ index' = [index EXCEPT ![c] = "kAdded"]
             /\ reading' = [reading EXCEPT ![c] = TRUE]
      BY <1>4 DEF NewConnection, Established, Enabled
    <3>2. /\ state \in [Conn -> State \cup {"none"}] /\ index \in [Conn -> Index]
          /\ reading \in [Conn -> BOOLEAN]
      BY DEF TypeOK
    <3>3. CASE state' = [state EXCEPT ![c] = "kConnecting"] /\ UNCHANGED <<index, reading>>
      BY <3>2, <3>3
    <3>4. CASE /\ state' = [state EXCEPT ![c] = "kConnected"]
               /\ index' = [index EXCEPT ![c] = "kAdded"]
               /\ reading' = [reading EXCEPT ![c] = TRUE]
      BY <3>2, <3>4
    <3> QED
      BY <3>1, <3>3, <3>4
  <2>5. /\ active' \in [Loop -> SUBSET (Conn \cup {Listen})] /\ next' \in DOMAIN SubLoops \cup {1}
        /\ loop' \in [Conn -> Loop \cup {None}] /\ connections' \subseteq Conn
    BY <1>4, <2>1 DEF NewConnection, TypeOK
  <2>6. UNCHANGED <<started, loops, revents, shutWrite, phase, batch, destroying, shutting, peerVars>>
    BY <1>4 DEF NewConnection
  <2> QED
    BY <2>2, <2>3, <2>4, <2>5, <2>6 DEF TypeOK
<1>5. ASSUME NEW l \in Loop, Poll(l) PROVE TypeOK'
  <2>1. Listen \in Conn \cup {Listen} /\ ReadyConns(l) \cup ReadyListen(l) \subseteq Conn \cup {Listen}
    BY DEF ReadyConns, ReadyListen
  <2>2. \A c \in Conn : Revents(c) \in SUBSET {"in", "err", "hup"}
    BY DEF Revents
  <2> QED
    BY <1>5, <2>1, <2>2 DEF Poll, TypeOK
<1>6. ASSUME NEW l \in Loop, Swap(l) PROVE TypeOK'
  BY <1>6 DEF Swap, TypeOK
<1>7. ASSUME NEW l \in Loop, FunctorsDone(l) PROVE TypeOK'
  BY <1>7 DEF FunctorsDone, TypeOK
<1>8. ASSUME NEW l \in Loop, NEW c \in Conn, NEW shut \in BOOLEAN, HandleMessage(l, c, shut)
      PROVE TypeOK'
  BY <1>8 DEF HandleMessage, Handling, ErrorLeft, shutdownWrite, TypeOK
<1>9. ASSUME NEW l \in Loop, NEW c \in Conn, HandleReadError(l, c) PROVE TypeOK'
  BY <1>9 DEF HandleReadError, Handling, TypeOK
<1>10. ASSUME NEW l \in Loop, NEW c \in Conn, HandleClose(l, c) PROVE TypeOK'
  <2>1. pending' \in [Loop -> Seq(Functor)] /\ connections' \subseteq Conn
    BY <1>10, RemoveType DEF HandleClose
  <2>2. reports' \in [Conn -> Seq(BOOLEAN)]
    <3>1. (state'[c] = "kConnected") \in BOOLEAN
      OBVIOUS
    <3> QED
      BY <1>10, <3>1 DEF HandleClose, TypeOK
  <2>3. ErrorLeft(c) \in BOOLEAN
    BY DEF ErrorLeft
  <2> QED
    BY <1>10, <2>1, <2>2, <2>3 DEF HandleClose, Handling, Disabled, TypeOK
<1>11. ASSUME NEW l \in Loop, NEW c \in Conn, RunEstablished(l, c) PROVE TypeOK'
  <2>1. batch' \in [Loop -> Seq(Functor)]
    BY <1>11, RanType DEF RunEstablished, Running
  <2>2. reports' \in [Conn -> Seq(BOOLEAN)]
    BY <1>11 DEF RunEstablished, Established, TypeOK
  <2> QED
    BY <1>11, <2>1, <2>2 DEF RunEstablished, Established, Enabled, TypeOK
<1>12. ASSUME NEW l \in Loop, NEW c \in Conn, RunRemoveConnection(l, c) PROVE TypeOK'
  <2>1. batch' \in [Loop -> Seq(Functor)]
    BY <1>12, RanType DEF RunRemoveConnection, Running
  <2>2. pending' \in [Loop -> Seq(Functor)] /\ connections' \subseteq Conn
    BY <1>q, <1>12, PostType DEF RunRemoveConnection, RemoveConnectionInLoop, Queues, TypeOK
  <2> QED
    BY <1>12, <2>1, <2>2 DEF RunRemoveConnection, TypeOK
<1>13. ASSUME NEW l \in Loop, NEW c \in Conn, RunShutdown(l, c) PROVE TypeOK'
  <2>1. batch' \in [Loop -> Seq(Functor)]
    BY <1>13, RanType DEF RunShutdown, Running
  <2> QED
    BY <1>13, <2>1 DEF RunShutdown, shutdownWrite, TypeOK
<1>14. ASSUME NEW l \in Loop, NEW c \in Conn, DestroyedTest(l, c) PROVE TypeOK'
  BY <1>14 DEF DestroyedTest, TypeOK
<1>15. ASSUME NEW l \in Loop, NEW c \in Conn, DestroyedBody(l, c) PROVE TypeOK'
  <2>1. batch[l] # <<>>
    BY <1>15, ConnAssumption DEF DestroyedBody, LoopInvariant
  <2>2. batch' \in [Loop -> Seq(Functor)]
    BY <1>15, <2>1, RanType DEF DestroyedBody
  <2>3. pending' \in [Loop -> Seq(Functor)] /\ connections' \subseteq Conn
    BY <1>15, RemoveType DEF DestroyedBody
  <2> QED
    BY <1>15, <2>2, <2>3 DEF DestroyedBody, Disabled, Removed, TypeOK
<1>16. ASSUME NEW c \in Conn, ShutdownTest(c) PROVE TypeOK'
  BY <1>16 DEF ShutdownTest, TypeOK
<1>17. ASSUME NEW c \in Conn, ShutdownBody(c) PROVE TypeOK'
  <2>1. pending' \in [Loop -> Seq(Functor)]
    BY <1>q, <1>17, PostType DEF ShutdownBody, Queues
  <2> QED
    BY <1>17, <2>1 DEF ShutdownBody, TypeOK
<1>18. ASSUME NEW c \in Conn, PeerStep(c) PROVE TypeOK'
  <2>1. CASE PeerConnect(c)
    BY <2>1 DEF PeerConnect, TypeOK
  <2>2. CASE PeerSend(c)
    BY <2>2 DEF PeerSend, TypeOK
  <2>3. CASE PeerClose(c)
    BY <2>3 DEF PeerClose, TypeOK
  <2>4. CASE PeerReset(c)
    BY <2>4 DEF PeerReset, TypeOK
  <2> QED
    BY <1>18, <2>1, <2>2, <2>3, <2>4 DEF PeerStep
<1> QED
  BY <1>1, <1>2, <1>3, <1>4, <1>5, <1>6, <1>7, <1>8, <1>9, <1>10, <1>11, <1>12, <1>13,
     <1>14, <1>15, <1>16, <1>17, <1>18 DEF Next, AcceptStep, LoopStep

-----------------------------------------------------------------------------
(* The stages of a connection.                                              *)

NameSets == {{"established"}, TearingDown, {"destroyed"}}

\* The functors on their way to c stay what they are, wherever they are.
Kept(c) ==
  \A names \in NameSets :
    /\ Empty(pending, batch, c, names) => Empty(pending', batch', c, names)
    /\ Single(pending, batch, c, names) => Single(pending', batch', c, names)

\* Nothing of what a stage says of c changes.
Same(c) ==
  /\ loop'[c] = loop[c] /\ index'[c] = index[c] /\ reading'[c] = reading[c]
  /\ reports'[c] = reports[c] /\ (c \in connections' <=> c \in connections)
  /\ (state'[c] # "none" <=> state[c] # "none")
  /\ reports[c] = <<>> => shutting'[c] = shutting[c]
  /\ Kept(c)

\* Nowhere and InOnePlace, before and after a step, in terms of the queues.
LEMMA PlacesStep ==
  ASSUME NEW c, NEW names
  PROVE  /\ Nowhere(c, names) <=> Empty(pending, batch, c, names)
         /\ Nowhere(c, names)' <=> Empty(pending', batch', c, names)
         /\ InOnePlace(c, names) <=> Single(pending, batch, c, names)
         /\ InOnePlace(c, names)' <=> Single(pending', batch', c, names)
<1>1. \A P, B : (\E p \in P \cup B : (P = {p} /\ B = {}) \/ (P = {} /\ B = {p}))
                  <=> \E p : (P = {p} /\ B = {}) \/ (P = {} /\ B = {p})
  OBVIOUS
<1> QED
  BY <1>1 DEF Nowhere, InOnePlace, Empty, Single, Queued

\* A connection of which nothing changes stays in its stage.
LEMMA SameStage ==
  ASSUME NEW c \in Conn, Same(c)
  PROVE  /\ NotAccepted(c) => NotAccepted(c)'
         /\ Opening(c) => Opening(c)'
         /\ Serving(c) => Serving(c)'
         /\ Dismantled(c) => Dismantled(c)'
<1> DEFINE E == {"established"}
           D == {"destroyed"}
<1>1. /\ Nowhere(c, E) => Nowhere(c, E)'
      /\ Nowhere(c, D) => Nowhere(c, D)'
      /\ Nowhere(c, TearingDown) => Nowhere(c, TearingDown)'
      /\ InOnePlace(c, E) => InOnePlace(c, E)'
      /\ InOnePlace(c, TearingDown) => InOnePlace(c, TearingDown)'
  BY PlacesStep DEF Same, Kept, NameSets
<1>2. (Created(c) <=> Created(c)')
  BY DEF Same, Created
<1>3. NotAccepted(c) => NotAccepted(c)'
  BY <1>1, <1>2 DEF NotAccepted, Same
<1>4. Opening(c) => Opening(c)'
  BY <1>1, <1>2 DEF Opening, Same
<1>5. Serving(c) => Serving(c)'
  BY <1>1, <1>2 DEF Serving, Same
<1>6. Dismantled(c) => Dismantled(c)'
  BY <1>1, <1>2 DEF Dismantled, Same
<1> QED
  BY <1>3, <1>4, <1>5, <1>6

\* A connection is in one stage at most, which its reports and its state tell.
LEMMA OneStage ==
  ASSUME NEW c \in Conn, Stages
  PROVE  /\ ~Created(c) => NotAccepted(c)
         /\ reports[c] = <<TRUE>> => Serving(c)
         /\ index[c] = "kAdded" => Serving(c)
         /\ shutting[c] => loop[c] \in Loop /\ Created(c)
         /\ ~Nowhere(c, {"established"}) => Opening(c)
         /\ ~Nowhere(c, TearingDown) => Dismantled(c)
         /\ Created(c) => loop[c] \in Loop
         /\ Len(reports[c]) > 1 => Dismantled(c)
<1>1. NotAccepted(c) \/ Opening(c) \/ Serving(c) \/ Dismantled(c)
  BY DEF Stages
<1>2. /\ <<>> # <<TRUE>> /\ <<TRUE, FALSE>> # <<TRUE>> /\ <<TRUE, FALSE>> # <<>>
      /\ Len(<<>>) = 0 /\ Len(<<TRUE>>) = 1 /\ Len(<<TRUE, FALSE>>) = 2
  OBVIOUS
<1>3. InOnePlace(c, {"established"}) => ~Nowhere(c, {"established"})
  BY DEF InOnePlace, Nowhere
<1>4. InOnePlace(c, TearingDown) => ~Nowhere(c, TearingDown)
  BY DEF InOnePlace, Nowhere
<1>5. CASE NotAccepted(c)
  BY <1>2, <1>5 DEF NotAccepted
<1>6. CASE Opening(c)
  BY <1>2, <1>3, <1>6 DEF Opening
<1>7. CASE Serving(c)
  BY <1>2, <1>7 DEF Serving
<1>8. CASE Dismantled(c)
  BY <1>2, <1>4, <1>8 DEF Dismantled
<1> QED
  BY <1>1, <1>5, <1>6, <1>7, <1>8

-----------------------------------------------------------------------------
(* What the actions do to the queues.                                       *)

\* Steps that leave the queues alone.
LEMMA QueuesSame ==
  ASSUME UNCHANGED <<pending, batch>>
  PROVE  \A c : Kept(c)
  BY DEF Kept

\* A functor about d is posted.
LEMMA QueuesPost ==
  ASSUME TypeOK, NEW l \in Loop, NEW d \in Conn,
         NEW name \in {"established", "remove", "destroyed", "shutdown"},
         pending' = Post(pending, l, name, d), batch' = batch
  PROVE  /\ \A c : (c # d \/ name = "shutdown") => Kept(c)
         /\ \A names :
              /\ name \notin names => (Empty(pending, batch, d, names) => Empty(pending', batch', d, names))
              /\ name \in names => (Empty(pending, batch, d, names) => Single(pending', batch', d, names))
<1>1. pending \in Queues /\ batch \in Queues
  BY DEF TypeOK, Queues
<1>2. ASSUME NEW c, NEW names, c # d \/ name \notin names
      PROVE  /\ Empty(pending, batch, c, names) => Empty(pending', batch', c, names)
             /\ Single(pending, batch, c, names) => Single(pending', batch', c, names)
  BY <1>1, <1>2, PostEffect
<1>3. ASSUME NEW names, name \in names
      PROVE  Empty(pending, batch, d, names) => Single(pending', batch', d, names)
  BY <1>1, <1>3, PostEffect
<1>4. ASSUME NEW c, c # d \/ name = "shutdown" PROVE Kept(c)
  <2>1. \A names \in NameSets : c # d \/ name \notin names
    BY <1>4 DEF NameSets, TearingDown
  <2> QED
    BY <1>2, <2>1 DEF Kept
<1> QED
  BY <1>2, <1>3, <1>4

\* A functor about d runs.
LEMMA QueuesRan ==
  ASSUME TypeOK, NEW l \in Loop, batch[l] # <<>>, NEW d \in Conn, NEW name,
         Head(batch[l]) = [op |-> name, conn |-> d], Ran(l)
  PROVE  /\ \A c, names : (c # d \/ name \notin names) =>
              /\ Empty(pending, batch, c, names) => Empty(pending, batch', c, names)
              /\ Single(pending, batch, c, names) => Single(pending, batch', c, names)
         /\ \A names : name \in names =>
              /\ ~Empty(pending, batch, d, names)
              /\ Single(pending, batch, d, names) => Empty(pending, batch', d, names)
<1>1. pending \in Queues /\ batch \in Queues
  BY DEF TypeOK, Queues
<1>2. batch' = [batch EXCEPT ![l] = Tail(@)]
  BY DEF Ran
<1>3. ASSUME NEW c, NEW names, c # d \/ name \notin names
      PROVE  /\ Empty(pending, batch, c, names) => Empty(pending, batch', c, names)
             /\ Single(pending, batch, c, names) => Single(pending, batch', c, names)
  <2> DEFINE r == [batch EXCEPT ![l] = Tail(@)]
  <2>1. /\ Empty(pending, batch, c, names) => Empty(pending, r, c, names)
        /\ ~(d = c /\ name \in names) =>
             (Single(pending, batch, c, names) => Single(pending, r, c, names))
    BY <1>1, RanEffect
  <2> QED
    BY <1>2, <1>3, <2>1
<1>4. ASSUME NEW names, name \in names
      PROVE  /\ ~Empty(pending, batch, d, names)
             /\ Single(pending, batch, d, names) => Empty(pending, batch', d, names)
  BY <1>1, <1>2, <1>4, RanEffect
<1> QED
  BY <1>3, <1>4

\* A functor about d runs and posts the next.
LEMMA QueuesRanPost ==
  ASSUME TypeOK, NEW l \in Loop, batch[l] # <<>>, NEW d \in Conn, NEW name \in TearingDown,
         Head(batch[l]) = [op |-> name, conn |-> d], Ran(l),
         NEW m \in Loop, NEW name2 \in TearingDown,
         pending' = Post(pending, m, name2, d), batch' \in Queues
  PROVE  /\ \A c : c # d => Kept(c)
         /\ ~Empty(pending, batch, d, TearingDown)
         /\ Single(pending, batch, d, TearingDown) => Single(pending', batch', d, TearingDown)
         /\ Empty(pending, batch, d, {"established"}) => Empty(pending', batch', d, {"established"})
         /\ name2 # "destroyed" /\ Single(pending, batch, d, TearingDown) =>
              Empty(pending', batch', d, {"destroyed"})
<1>1. pending \in Queues /\ batch \in Queues
  BY DEF TypeOK, Queues
<1>2. name2 \in {"established", "remove", "destroyed", "shutdown"}
  BY DEF TearingDown
<1>3. ASSUME NEW c, NEW names, c # d \/ name2 \notin names
      PROVE  /\ Empty(pending, batch', c, names) => Empty(pending', batch', c, names)
             /\ Single(pending, batch', c, names) => Single(pending', batch', c, names)
  BY <1>1, <1>2, <1>3, PostEffect
<1>4. ASSUME NEW names, name2 \in names
      PROVE  Empty(pending, batch', d, names) => Single(pending', batch', d, names)
  BY <1>1, <1>2, <1>4, PostEffect
<1>5. /\ \A c, names : (c # d \/ name \notin names) =>
           /\ Empty(pending, batch, c, names) => Empty(pending, batch', c, names)
           /\ Single(pending, batch, c, names) => Single(pending, batch', c, names)
      /\ \A names : name \in names =>
           /\ ~Empty(pending, batch, d, names)
           /\ Single(pending, batch, d, names) => Empty(pending, batch', d, names)
  BY QueuesRan
<1>6. ASSUME NEW c, c # d PROVE Kept(c)
  BY <1>3, <1>5, <1>6 DEF Kept
<1>7. /\ ~Empty(pending, batch, d, TearingDown)
      /\ Single(pending, batch, d, TearingDown) => Empty(pending, batch', d, TearingDown)
      /\ Single(pending, batch, d, TearingDown) => Single(pending', batch', d, TearingDown)
  BY <1>4, <1>5
<1>8. Empty(pending, batch, d, {"established"}) => Empty(pending', batch', d, {"established"})
  <2>1. name \notin {"established"} /\ name2 \notin {"established"}
    BY DEF TearingDown
  <2> QED
    BY <1>3, <1>5, <2>1
<1>9. ASSUME name2 # "destroyed", Single(pending, batch, d, TearingDown)
      PROVE  Empty(pending', batch', d, {"destroyed"})
  <2>1. Empty(pending, batch', d, TearingDown)
    BY <1>7, <1>9
  <2>2. \A q : Queued(q, d, {"destroyed"}) \subseteq Queued(q, d, TearingDown)
    BY DEF Queued, TearingDown
  <2>3. Empty(pending, batch', d, {"destroyed"})
    BY <2>1, <2>2 DEF Empty
  <2> QED
    BY <1>3, <1>9, <2>3
<1> QED
  BY <1>6, <1>7, <1>8, <1>9

-----------------------------------------------------------------------------
(* What the actions do to the stages.                                       *)

\* The steps that move no connection from one stage to another.
Quiet ==
  \/ \E n \in ThreadNums : Start(n)
  \/ AcceptFails
  \/ \E l \in Loop :
       \/ Poll(l) \/ Swap(l) \/ FunctorsDone(l)
       \/ \E c \in Conn :
            \/ \E shut \in BOOLEAN : HandleMessage(l, c, shut)
            \/ HandleReadError(l, c) \/ RunShutdown(l, c) \/ DestroyedTest(l, c)
  \/ \E c \in Conn : ShutdownTest(c) \/ ShutdownBody(c) \/ PeerStep(c)
  \/ UNCHANGED vars

\* None of them changes what a stage says.
LEMMA QuietStage ==
  ASSUME TypeOK, Stages, LoopInvariant, Quiet, NEW d \in Conn
  PROVE  Same(d)
<1> USE DEF poolVars, connVars, loopVars, peerVars
<1>0. state \in [Conn -> State \cup {"none"}] /\ shutting \in [Conn -> BOOLEAN]
  BY DEF TypeOK
<1>1. ASSUME NEW n \in ThreadNums, Start(n) PROVE Same(d)
  BY <1>1, QueuesSame DEF Start, Same
<1>2. CASE AcceptFails
  BY <1>2, QueuesSame DEF AcceptFails, Same
<1>3. ASSUME NEW l \in Loop, Poll(l) PROVE Same(d)
  BY <1>3, QueuesSame DEF Poll, Same
<1>4. ASSUME NEW l \in Loop, Swap(l) PROVE Same(d)
  <2>1. pending \in Queues /\ batch \in Queues /\ batch[l] = <<>>
    BY <1>4 DEF TypeOK, Queues, Swap, LoopInvariant
  <2>2. pending' = [pending EXCEPT ![l] = <<>>] /\ batch' = [batch EXCEPT ![l] = pending[l]]
    BY <1>4 DEF Swap
  <2>3. ASSUME NEW names
        PROVE  /\ Empty(pending, batch, d, names) => Empty(pending', batch', d, names)
               /\ Single(pending, batch, d, names) => Single(pending', batch', d, names)
    BY <2>1, <2>2, SwapEffect
  <2> QED
    BY <1>4, <2>3 DEF Swap, Same, Kept
<1>5. ASSUME NEW l \in Loop, FunctorsDone(l) PROVE Same(d)
  BY <1>5, QueuesSame DEF FunctorsDone, Same
<1>6. ASSUME NEW l \in Loop, NEW c \in Conn, NEW shut \in BOOLEAN, HandleMessage(l, c, shut)
      PROVE Same(d)
  <2>1. state'[d] # "none" <=> state[d] # "none"
    BY <1>0, <1>6 DEF HandleMessage
  <2> QED
    BY <1>6, <2>1, QueuesSame DEF HandleMessage, Same
<1>7. ASSUME NEW l \in Loop, NEW c \in Conn, HandleReadError(l, c) PROVE Same(d)
  BY <1>7, QueuesSame DEF HandleReadError, Same
<1>8. ASSUME NEW l \in Loop, NEW c \in Conn, RunShutdown(l, c) PROVE Same(d)
  <2>1. /\ batch[l] # <<>> /\ Head(batch[l]) = [op |-> "shutdown", conn |-> c] /\ Ran(l)
        /\ pending' = pending
    BY <1>8 DEF RunShutdown, Running
  <2>2. \A names \in NameSets : "shutdown" \notin names
    BY DEF NameSets, TearingDown
  <2>3. Kept(d)
    BY <2>1, <2>2, QueuesRan DEF Kept
  <2> QED
    BY <1>8, <2>3 DEF RunShutdown, Same
<1>9. ASSUME NEW l \in Loop, NEW c \in Conn, DestroyedTest(l, c) PROVE Same(d)
  <2>1. batch[l] # <<>> /\ Head(batch[l]) = [op |-> "destroyed", conn |-> c]
    BY <1>9 DEF DestroyedTest, Running
  <2>2. ~Empty(pending, batch, c, TearingDown)
    <3>1. pending \in Queues /\ batch \in Queues
      BY DEF TypeOK, Queues
    <3>2. "destroyed" \in TearingDown
      BY DEF TearingDown
    <3> QED
      BY <2>1, <3>1, <3>2, RanEffect
  <2>3. Created(c)
    BY <2>2, PlacesStep, OneStage DEF Dismantled
  <2>4. state'[d] # "none" <=> state[d] # "none"
    BY <1>0, <1>9, <2>3 DEF DestroyedTest, Created
  <2> QED
    BY <1>9, <2>4, QueuesSame DEF DestroyedTest, Same
<1>10. ASSUME NEW c \in Conn, ShutdownTest(c) PROVE Same(d)
  <2>1. reports[d] = <<>> => shutting'[d] = shutting[d]
    BY <1>0, <1>10 DEF ShutdownTest
  <2> QED
    BY <1>10, <2>1, QueuesSame DEF ShutdownTest, Same
<1>11. ASSUME NEW c \in Conn, ShutdownBody(c) PROVE Same(d)
  <2>1. loop[c] \in Loop /\ Created(c) /\ shutting[c]
    BY <1>11, OneStage DEF ShutdownBody
  <2>2. Kept(d)
    BY <1>11, <2>1, QueuesPost DEF ShutdownBody
  <2>3. state'[d] # "none" <=> state[d] # "none"
    BY <1>0, <1>11, <2>1 DEF ShutdownBody, Created
  <2>4. reports[d] = <<>> => shutting'[d] = shutting[d]
    <3>1. NotAccepted(c) \/ Opening(c) \/ Serving(c) \/ Dismantled(c)
      BY DEF Stages
    <3>2. <<TRUE>> # <<>> /\ <<TRUE, FALSE>> # <<>>
      OBVIOUS
    <3>3. reports[c] # <<>>
      BY <2>1, <3>1, <3>2 DEF NotAccepted, Opening, Serving, Dismantled
    <3> QED
      BY <1>0, <1>11, <3>3 DEF ShutdownBody
  <2> QED
    BY <1>11, <2>2, <2>3, <2>4 DEF ShutdownBody, Same
<1>12. ASSUME NEW c \in Conn, PeerStep(c) PROVE Same(d)
  BY <1>12, QueuesSame DEF PeerStep, PeerConnect, PeerSend, PeerClose, PeerReset, Same
<1>13. CASE UNCHANGED vars
  BY <1>13, QueuesSame DEF vars, Same
<1> QED
  BY <1>1, <1>2, <1>3, <1>4, <1>5, <1>6, <1>7, <1>8, <1>9, <1>10, <1>11, <1>12, <1>13 DEF Quiet

\* connectionEstablished on a connection that was not up.
LEMMA EstablishedEffect ==
  ASSUME TypeOK, NEW c \in Conn, reports[c] = <<>>, Established(c)
  PROVE  /\ state'[c] = "kConnected" /\ index'[c] = "kAdded" /\ reading'[c]
         /\ reports'[c] = <<TRUE>>
         /\ \A d \in Conn : d # c =>
              /\ state'[d] = state[d] /\ index'[d] = index[d] /\ reading'[d] = reading[d]
              /\ reports'[d] = reports[d]
<1>1. /\ state' = [state EXCEPT ![c] = "kConnected"] /\ index' = [index EXCEPT ![c] = "kAdded"]
      /\ reading' = [reading EXCEPT ![c] = TRUE]
      /\ reports' = [reports EXCEPT ![c] = Append(@, TRUE)]
  BY DEF Established, Enabled
<1>2. Append(<<>>, TRUE) = <<TRUE>>
  OBVIOUS
<1> QED
  BY <1>1, <1>2 DEF TypeOK

\* newConnection: the connection is up, or on its way to its loop.
LEMMA AcceptStage ==
  ASSUME TypeOK, Stages, PoolInvariant, NEW c \in Conn, NewConnection(c)
  PROVE  /\ NotAccepted(c) /\ (Serving(c)' \/ Opening(c)')
         /\ \A d \in Conn : d # c => Same(d)
<1>0. getNextLoop \in Loop
  BY NextLoop
<1>1. NotAccepted(c)
  BY OneStage DEF NewConnection, accept
<1>2. loop'[c] = getNextLoop /\ c \in connections' /\ shutting' = shutting /\ ~shutting'[c]
  BY <1>1 DEF NewConnection, NotAccepted, TypeOK
<1>3. \A d \in Conn : d # c =>
        loop'[d] = loop[d] /\ (d \in connections' <=> d \in connections) /\ shutting'[d] = shutting[d]
  BY DEF NewConnection, TypeOK
<1>4. CASE getNextLoop = Base
  <2>1. Established(c) /\ UNCHANGED <<pending, batch>>
    BY <1>4 DEF NewConnection
  <2>2. \A d : Kept(d)
    BY <2>1, QueuesSame
  <2>3. /\ state'[c] = "kConnected" /\ index'[c] = "kAdded" /\ reading'[c]
        /\ reports'[c] = <<TRUE>>
        /\ \A d \in Conn : d # c =>
             /\ state'[d] = state[d] /\ index'[d] = index[d] /\ reading'[d] = reading[d]
             /\ reports'[d] = reports[d]
    BY <1>1, <2>1, EstablishedEffect DEF NotAccepted
  <2>4. Nowhere(c, {"established"})' /\ Nowhere(c, TearingDown)'
    BY <1>1, <2>2, PlacesStep DEF NotAccepted, Kept, NameSets
  <2>5. Serving(c)'
    BY <1>0, <1>2, <2>3, <2>4 DEF Serving, Created
  <2>6. \A d \in Conn : d # c => Same(d)
    BY <1>3, <2>2, <2>3 DEF Same
  <2> QED
    BY <1>1, <2>5, <2>6
<1>5. CASE getNextLoop # Base
  <2>1. /\ state' = [state EXCEPT ![c] = "kConnecting"]
        /\ pending' = Post(pending, getNextLoop, "established", c)
        /\ UNCHANGED <<index, reading, reports, batch>>
    BY <1>5 DEF NewConnection
  <2>2. /\ \A d : d # c => Kept(d)
        /\ Single(pending', batch', c, {"established"})
        /\ Empty(pending', batch', c, TearingDown)
    <3>1. Empty(pending, batch, c, {"established"}) /\ Empty(pending, batch, c, TearingDown)
      BY <1>1, PlacesStep DEF NotAccepted
    <3>2. "established" \notin TearingDown /\ "established" \in {"established"}
      BY DEF TearingDown
    <3> QED
      BY <1>0, <2>1, <3>1, <3>2, QueuesPost
  <2>3. InOnePlace(c, {"established"})' /\ Nowhere(c, TearingDown)'
    BY <2>2, PlacesStep
  <2>4. state'[c] = "kConnecting" /\ \A d \in Conn : d # c => state'[d] = state[d]
    BY <2>1 DEF TypeOK
  <2>5. Opening(c)'
    BY <1>0, <1>1, <1>2, <2>1, <2>3, <2>4 DEF Opening, Created, NotAccepted
  <2>6. \A d \in Conn : d # c => Same(d)
    BY <1>3, <2>1, <2>2, <2>4 DEF Same
  <2> QED
    BY <1>1, <2>5, <2>6
<1> QED
  BY <1>4, <1>5

\* A connection that its loop establishes was on its way there, and is up.
LEMMA EstablishedStage ==
  ASSUME TypeOK, Stages, NEW l \in Loop, NEW c \in Conn, RunEstablished(l, c)
  PROVE  /\ Opening(c) /\ Serving(c)'
         /\ \A d \in Conn : d # c => Same(d)
<1>1. /\ batch[l] # <<>> /\ Head(batch[l]) = [op |-> "established", conn |-> c]
      /\ Ran(l) /\ Established(c)
      /\ UNCHANGED <<connections, loop, pending, shutting>>
  BY DEF RunEstablished, Running
<1>2. "established" \notin TearingDown /\ "established" \in {"established"}
  BY DEF TearingDown
<1>3. /\ \A d, names : (d # c \/ "established" \notin names) =>
           /\ Empty(pending, batch, d, names) => Empty(pending, batch', d, names)
           /\ Single(pending, batch, d, names) => Single(pending, batch', d, names)
      /\ \A names : "established" \in names =>
           /\ ~Empty(pending, batch, c, names)
           /\ Single(pending, batch, c, names) => Empty(pending, batch', c, names)
  BY <1>1, QueuesRan
<1>4. Opening(c)
  <2>1. ~Empty(pending, batch, c, {"established"})
    BY <1>2, <1>3
  <2> QED
    BY <2>1, PlacesStep, OneStage
<1>5. Empty(pending', batch', c, {"established"}) /\ Empty(pending', batch', c, TearingDown)
  <2>1. Single(pending, batch, c, {"established"}) /\ Empty(pending, batch, c, TearingDown)
    BY <1>4, PlacesStep DEF Opening
  <2> QED
    BY <1>1, <1>2, <1>3, <2>1
<1>6. Nowhere(c, {"established"})' /\ Nowhere(c, TearingDown)'
  BY <1>5, PlacesStep
<1>7. /\ state'[c] = "kConnected" /\ index'[c] = "kAdded" /\ reading'[c]
      /\ reports'[c] = <<TRUE>>
      /\ \A d \in Conn : d # c =>
           /\ state'[d] = state[d] /\ index'[d] = index[d] /\ reading'[d] = reading[d]
           /\ reports'[d] = reports[d]
  BY <1>1, <1>4, EstablishedEffect DEF Opening
<1>8. Serving(c)'
  BY <1>1, <1>4, <1>6, <1>7 DEF Serving, Opening, Created
<1>9. ASSUME NEW d \in Conn, d # c PROVE Same(d)
  <2>1. Kept(d)
    BY <1>1, <1>3, <1>9 DEF Kept
  <2> QED
    BY <1>1, <1>7, <1>9, <2>1 DEF Same
<1> QED
  BY <1>4, <1>8, <1>9

\* closeCallback_ of c posts one functor, and leaves the map to it or clears it.
LEMMA RemoveEffect ==
  ASSUME NEW l \in Loop, NEW c \in Conn, loop[c] \in Loop, RemoveConnection(l, c)
  PROVE  \E m \in Loop, name \in TearingDown :
           /\ pending' = Post(pending, m, name, c)
           /\ \A d \in Conn : d # c => (d \in connections' <=> d \in connections)
           /\ c \in connections' => name # "destroyed"
<1>1. CASE l = Base
  <2>1. pending' = Post(pending, loop[c], "destroyed", c) /\ connections' = connections \ {c}
    BY <1>1 DEF RemoveConnection, RemoveConnectionInLoop
  <2> QED
    BY <2>1 DEF TearingDown
<1>2. CASE l # Base
  <2>1. pending' = Post(pending, Base, "remove", c) /\ connections' = connections
    BY <1>2 DEF RemoveConnection
  <2>2. Base \in Loop
    BY DEF Loop
  <2> QED
    BY <2>1, <2>2 DEF TearingDown
<1> QED
  BY <1>1, <1>2

\* A second report behind the first.
LEMMA TwoReports ==
  ASSUME NEW S, NEW a \in S, NEW b \in S
  PROVE  Append(<<a>>, b) = <<a, b>>
<1>1. /\ Append(<<a>>, b) \in Seq(S) /\ <<a, b>> \in Seq(S)
      /\ Len(Append(<<a>>, b)) = 2 /\ Len(<<a, b>>) = 2
      /\ Append(<<a>>, b)[1] = a /\ Append(<<a>>, b)[2] = b
      /\ <<a, b>>[1] = a /\ <<a, b>>[2] = b
  OBVIOUS
<1>2. \A i \in 1 .. 2 : i = 1 \/ i = 2
  OBVIOUS
<1> DEFINE s == Append(<<a>>, b)
           t == <<a, b>>
<1> HIDE DEF s, t
<1>3. s \in Seq(S) /\ t \in Seq(S) /\ Len(s) = Len(t) /\ \A i \in 1 .. Len(s) : s[i] = t[i]
  BY <1>1, <1>2 DEF s, t
<1>4. s = t
  BY <1>3, SeqEqual
<1> QED
  BY <1>4 DEF s, t

\* handleClose: a connection that was up is down, and one functor takes it apart.
LEMMA CloseStage ==
  ASSUME TypeOK, Stages, LoopInvariant, NEW l \in Loop, NEW c \in Conn, HandleClose(l, c)
  PROVE  /\ Serving(c) /\ Dismantled(c)'
         /\ \A d \in Conn : d # c => Same(d)
<1>1. Serving(c)
  BY DEF HandleClose, Handling, LoopInvariant
<1>2. /\ state' = [state EXCEPT ![c] = "kDisconnected"]
      /\ index' = [index EXCEPT ![c] = Disabled(@)]
      /\ reading' = [reading EXCEPT ![c] = FALSE]
      /\ reports' = [reports EXCEPT ![c] = Append(@, state'[c] = "kConnected")]
      /\ RemoveConnection(l, c)
      /\ UNCHANGED <<loop, batch, shutting>>
  BY DEF HandleClose
<1>3. state'[c] = "kDisconnected" /\ index'[c] = "kDeleted"
  BY <1>1, <1>2 DEF TypeOK, Serving, Disabled
<1>4. reports'[c] = <<TRUE, FALSE>>
  <2>1. (state'[c] = "kConnected") = FALSE
    BY <1>3
  <2>2. reports' = [reports EXCEPT ![c] = Append(@, FALSE)]
    BY <1>2, <2>1, Zenon
  <2>3. Append(<<TRUE>>, FALSE) = <<TRUE, FALSE>>
    <3>1. TRUE \in BOOLEAN /\ FALSE \in BOOLEAN
      OBVIOUS
    <3> QED
      BY <3>1, TwoReports, Zenon
  <2> QED
    BY <1>1, <2>2, <2>3 DEF TypeOK, Serving
<1>5. \A d \in Conn : d # c =>
        /\ state'[d] = state[d] /\ index'[d] = index[d] /\ reading'[d] = reading[d]
        /\ reports'[d] = reports[d]
  BY <1>2 DEF TypeOK
<1>6. PICK m \in Loop, name \in TearingDown :
        /\ pending' = Post(pending, m, name, c)
        /\ \A d \in Conn : d # c => (d \in connections' <=> d \in connections)
        /\ c \in connections' => name # "destroyed"
  BY <1>1, <1>2, RemoveEffect DEF Serving
<1>7. name \in {"established", "remove", "destroyed", "shutdown"} /\ name # "established"
  BY DEF TearingDown
<1>8. /\ \A d : d # c => Kept(d)
      /\ \A names :
           /\ name \notin names => (Empty(pending, batch, c, names) => Empty(pending', batch', c, names))
           /\ name \in names => (Empty(pending, batch, c, names) => Single(pending', batch', c, names))
  BY <1>2, <1>6, <1>7, QueuesPost
<1>9. /\ Empty(pending, batch, c, {"established"}) /\ Empty(pending, batch, c, TearingDown)
      /\ Empty(pending, batch, c, {"destroyed"})
  <2>1. Empty(pending, batch, c, {"established"}) /\ Empty(pending, batch, c, TearingDown)
    BY <1>1, PlacesStep DEF Serving
  <2>2. \A q : Queued(q, c, {"destroyed"}) \subseteq Queued(q, c, TearingDown)
    BY DEF Queued, TearingDown
  <2> QED
    BY <2>1, <2>2 DEF Empty
<1>10. /\ Empty(pending', batch', c, {"established"})
       /\ Single(pending', batch', c, TearingDown)
       /\ c \in connections' => Empty(pending', batch', c, {"destroyed"})
  BY <1>6, <1>7, <1>8, <1>9
<1>11. /\ Nowhere(c, {"established"})' /\ InOnePlace(c, TearingDown)'
       /\ (c \in connections => Nowhere(c, {"destroyed"}))'
  BY <1>10, PlacesStep
<1>12. Dismantled(c)'
  BY <1>1, <1>2, <1>3, <1>4, <1>11 DEF Dismantled, Serving, Created
<1>13. \A d \in Conn : d # c => Same(d)
  BY <1>2, <1>5, <1>6, <1>8 DEF Same
<1> QED
  BY <1>1, <1>12, <1>13

\* The functors that take a connection apart follow one another, on the base loop
\* and on its own: it stays down, with one of them on its way.
LEMMA DismantleStage ==
  ASSUME TypeOK, Stages, LoopInvariant, NEW l \in Loop, NEW c \in Conn,
         RunRemoveConnection(l, c) \/ DestroyedBody(l, c)
  PROVE  /\ Dismantled(c) /\ Dismantled(c)'
         /\ \A d \in Conn : d # c => Same(d)
<1>1. PICK name \in TearingDown :
        batch[l] # <<>> /\ Head(batch[l]) = [op |-> name, conn |-> c]
  <2>1. CASE RunRemoveConnection(l, c)
    BY <2>1 DEF RunRemoveConnection, Running, TearingDown
  <2>2. CASE DestroyedBody(l, c)
    BY <2>2, ConnAssumption DEF DestroyedBody, LoopInvariant, TearingDown
  <2> QED
    BY <2>1, <2>2
<1>2. Ran(l) /\ UNCHANGED <<loop, shutting, reports>>
  BY DEF RunRemoveConnection, DestroyedBody, connVars
<1>3. batch' \in Queues
  BY <1>1, <1>2, RanType DEF Queues
<1>4. ~Empty(pending, batch, c, TearingDown)
  BY <1>1, <1>2, QueuesRan
<1>5. Dismantled(c)
  BY <1>4, PlacesStep, OneStage
<1>6. PICK m \in Loop, name2 \in TearingDown :
        /\ pending' = Post(pending, m, name2, c)
        /\ \A d \in Conn : d # c => (d \in connections' <=> d \in connections)
        /\ c \in connections' => name2 # "destroyed"
  <2>1. CASE RunRemoveConnection(l, c)
    <3>1. pending' = Post(pending, loop[c], "destroyed", c) /\ connections' = connections \ {c}
      BY <2>1 DEF RunRemoveConnection, RemoveConnectionInLoop
    <3> QED
      BY <1>5, <3>1 DEF TearingDown, Dismantled
  <2>2. CASE DestroyedBody(l, c)
    BY <1>5, <2>2, RemoveEffect DEF DestroyedBody, Dismantled
  <2> QED
    BY <2>1, <2>2
<1>7. /\ \A d : d # c => Kept(d)
      /\ Single(pending, batch, c, TearingDown) => Single(pending', batch', c, TearingDown)
      /\ Empty(pending, batch, c, {"established"}) => Empty(pending', batch', c, {"established"})
      /\ name2 # "destroyed" /\ Single(pending, batch, c, TearingDown) =>
           Empty(pending', batch', c, {"destroyed"})
  BY <1>1, <1>2, <1>3, <1>6, QueuesRanPost
<1>8. Single(pending, batch, c, TearingDown) /\ Empty(pending, batch, c, {"established"})
  BY <1>5, PlacesStep DEF Dismantled
<1>9. /\ Nowhere(c, {"established"})' /\ InOnePlace(c, TearingDown)'
      /\ (c \in connections => Nowhere(c, {"destroyed"}))'
  BY <1>6, <1>7, <1>8, PlacesStep
<1>10. /\ index'[c] # "kAdded" /\ state'[c] # "none"
       /\ \A d \in Conn : d # c =>
            state'[d] = state[d] /\ index'[d] = index[d] /\ reading'[d] = reading[d]
  <2>1. CASE RunRemoveConnection(l, c)
    BY <1>5, <2>1 DEF RunRemoveConnection, connVars, Dismantled, Created
  <2>2. CASE DestroyedBody(l, c)
    BY <2>2 DEF DestroyedBody, Removed, TypeOK
  <2> QED
    BY <2>1, <2>2
<1>11. Dismantled(c)'
  BY <1>2, <1>5, <1>9, <1>10 DEF Dismantled, Created
<1>12. \A d \in Conn : d # c => Same(d)
  BY <1>2, <1>6, <1>7, <1>10 DEF Same
<1> QED
  BY <1>5, <1>11, <1>12

\* What a step does to the stages.
LEMMA StageMoves ==
  ASSUME TypeOK, Stages, LoopInvariant, PoolInvariant, [Next]_vars
  PROVE  \/ Quiet /\ \A d \in Conn : Same(d)
         \/ \E c \in Conn :
              /\ \/ NewConnection(c) /\ NotAccepted(c) /\ (Serving(c)' \/ Opening(c)')
                 \/ \E l \in Loop :
                      \/ RunEstablished(l, c) /\ Opening(c) /\ Serving(c)'
                      \/ HandleClose(l, c) /\ Serving(c) /\ Dismantled(c)'
                      \/ /\ RunRemoveConnection(l, c) \/ DestroyedBody(l, c)
                         /\ Dismantled(c) /\ Dismantled(c)'
              /\ \A d \in Conn : d # c => Same(d)
<1>1. CASE Quiet
  BY <1>1, QuietStage
<1>2. CASE \E c \in Conn : NewConnection(c)
  BY <1>2, AcceptStage
<1>3. CASE \E l \in Loop, c \in Conn : RunEstablished(l, c)
  BY <1>3, EstablishedStage
<1>4. CASE \E l \in Loop, c \in Conn : HandleClose(l, c)
  BY <1>4, CloseStage
<1>5. CASE \E l \in Loop, c \in Conn : RunRemoveConnection(l, c) \/ DestroyedBody(l, c)
  BY <1>5, DismantleStage
<1> QED
  BY <1>1, <1>2, <1>3, <1>4, <1>5 DEF Next, LoopStep, AcceptStep, Quiet

\* Every step keeps every connection in a stage of its life.
LEMMA StageStep ==
  ASSUME TypeOK, Stages, LoopInvariant, PoolInvariant, [Next]_vars
  PROVE  Stages'
<1> SUFFICES ASSUME NEW d \in Conn
             PROVE (NotAccepted(d) \/ Opening(d) \/ Serving(d) \/ Dismantled(d))'
  BY DEF Stages
<1>1. CASE Same(d)
  BY <1>1, SameStage DEF Stages
<1>2. CASE ~Same(d)
  BY <1>2, StageMoves
<1> QED
  BY <1>1, <1>2

-----------------------------------------------------------------------------
(* The loops.                                                               *)

\* The parts of LoopInvariant that are about the loop alone.
Tidy(l) ==
  /\ Listen \in active[l] => Listening
  /\ phase[l] # "functors" => batch[l] = <<>>
  /\ destroying[l] # None =>
       /\ phase[l] = "functors" /\ batch[l] # <<>>
       /\ Head(batch[l]) = [op |-> "destroyed", conn |-> destroying[l]]

\* Channels become active in a poll only.
FromPoll(l) ==
  \A c \in Conn : c \in active'[l] =>
    c \in active[l] \/ (loop[c] = l /\ index[c] = "kAdded" /\ loop'[c] = loop[c] /\ Quiet)

\* Every step keeps a loop tidy.
LEMMA TidyStep ==
  ASSUME TypeOK, LoopInvariant, [Next]_vars, NEW m \in Loop
  PROVE  Tidy(m)' /\ FromPoll(m)
<1> USE DEF poolVars, connVars, loopVars, peerVars
<1>0. Tidy(m) /\ started \in Nat
  BY DEF LoopInvariant, Tidy, TypeOK
<1>a. /\ active \in [Loop -> SUBSET (Conn \cup {Listen})] /\ batch \in [Loop -> Seq(Functor)]
      /\ phase \in [Loop -> {"poll", "handle", "functors"}]
      /\ destroying \in [Loop -> Conn \cup {None}]
  BY DEF TypeOK
<1>1. CASE UNCHANGED vars
  BY <1>0, <1>1 DEF vars, Tidy, FromPoll, Listening
<1>2. ASSUME NEW n \in ThreadNums, Start(n) PROVE Tidy(m)' /\ FromPoll(m)
  BY <1>0, <1>2 DEF Start, Tidy, FromPoll, Listening
<1>3. CASE AcceptFails
  BY <1>0, <1>a, <1>3 DEF AcceptFails, Tidy, FromPoll, Listening
<1>4. ASSUME NEW c \in Conn, NewConnection(c) PROVE Tidy(m)' /\ FromPoll(m)
  <2>1. UNCHANGED <<started, phase, batch, destroying>>
    BY <1>4 DEF NewConnection
  <2>2. active'[m] \subseteq active[m]
    BY <1>a, <1>4 DEF NewConnection
  <2> QED
    BY <1>0, <2>1, <2>2 DEF Tidy, FromPoll, Listening
<1>5. ASSUME NEW l \in Loop, Poll(l) PROVE Tidy(m)' /\ FromPoll(m)
  <2>1. /\ active' = [active EXCEPT ![l] = ReadyConns(l) \cup ReadyListen(l)]
        /\ phase' = [phase EXCEPT ![l] = "handle"] /\ phase[l] = "poll"
        /\ UNCHANGED <<started, loop, batch, destroying>>
    BY <1>5 DEF Poll
  <2>2. Listen \in ReadyConns(l) \cup ReadyListen(l) => Listening
    BY ConnAssumption DEF ReadyConns, ReadyListen
  <2>3. \A c \in Conn : c \in ReadyConns(l) \cup ReadyListen(l) => loop[c] = l /\ index[c] = "kAdded"
    BY ConnAssumption DEF ReadyConns, ReadyListen
  <2>4. Quiet
    BY <1>5 DEF Quiet
  <2>5. CASE m = l
    BY <1>0, <1>a, <2>1, <2>2, <2>3, <2>4, <2>5 DEF Tidy, FromPoll, Listening
  <2>6. CASE m # l
    BY <1>0, <1>a, <2>1, <2>6 DEF Tidy, FromPoll, Listening
  <2> QED
    BY <2>5, <2>6
<1>6. ASSUME NEW l \in Loop, Swap(l) PROVE Tidy(m)' /\ FromPoll(m)
  <2>1. destroying[l] = None
    BY <1>6 DEF Swap, LoopInvariant
  <2> QED
    BY <1>0, <1>a, <1>6, <2>1 DEF Swap, Tidy, FromPoll, Listening
<1>7. ASSUME NEW l \in Loop, FunctorsDone(l) PROVE Tidy(m)' /\ FromPoll(m)
  BY <1>0, <1>a, <1>7 DEF FunctorsDone, Tidy, FromPoll, Listening
<1>8. ASSUME NEW l \in Loop, NEW c \in Conn, Handling(l, c),
             UNCHANGED <<started, phase, batch, destroying>>
      PROVE Tidy(m)' /\ FromPoll(m)
  <2>1. active'[m] \subseteq active[m]
    BY <1>a, <1>8 DEF Handling
  <2> QED
    BY <1>0, <1>8, <2>1 DEF Tidy, FromPoll, Listening
<1>9. ASSUME NEW l \in Loop, NEW c \in Conn,
             \/ \E shut \in BOOLEAN : HandleMessage(l, c, shut)
             \/ HandleReadError(l, c) \/ HandleClose(l, c)
      PROVE Tidy(m)' /\ FromPoll(m)
  BY <1>8, <1>9 DEF HandleMessage, HandleReadError, HandleClose
<1>10. ASSUME NEW l \in Loop, phase[l] = "functors", Ran(l), destroying'[l] = None,
              \A k \in Loop \ {l} : destroying'[k] = destroying[k],
              UNCHANGED <<started, phase, active>>
       PROVE Tidy(m)' /\ FromPoll(m)
  <2>1. \A k \in Loop \ {l} : batch'[k] = batch[k]
    BY <1>a, <1>10 DEF Ran
  <2>2. CASE m = l
    BY <1>0, <1>10, <2>2 DEF Tidy, FromPoll, Listening
  <2>3. CASE m # l
    BY <1>0, <1>10, <2>1, <2>3 DEF Tidy, FromPoll, Listening
  <2> QED
    BY <2>2, <2>3
<1>11. ASSUME NEW l \in Loop, NEW c \in Conn,
              RunEstablished(l, c) \/ RunRemoveConnection(l, c) \/ RunShutdown(l, c)
       PROVE Tidy(m)' /\ FromPoll(m)
  <2>1. /\ phase[l] = "functors" /\ Ran(l) /\ destroying[l] = None
        /\ UNCHANGED <<started, phase, active, destroying>>
    BY <1>11 DEF RunEstablished, RunRemoveConnection, RunShutdown, Running
  <2> QED
    BY <1>10, <2>1
<1>12. ASSUME NEW l \in Loop, NEW c \in Conn, DestroyedTest(l, c) PROVE Tidy(m)' /\ FromPoll(m)
  BY <1>0, <1>a, <1>12 DEF DestroyedTest, Running, Tidy, FromPoll, Listening
<1>13. ASSUME NEW l \in Loop, NEW c \in Conn, DestroyedBody(l, c) PROVE Tidy(m)' /\ FromPoll(m)
  <2>1. phase[l] = "functors"
    BY <1>13, ConnAssumption DEF DestroyedBody, LoopInvariant
  <2>2. /\ Ran(l) /\ destroying'[l] = None /\ \A k \in Loop \ {l} : destroying'[k] = destroying[k]
        /\ UNCHANGED <<started, phase, active>>
    BY <1>a, <1>13 DEF DestroyedBody
  <2> QED
    BY <1>10, <2>1, <2>2
<1>14. ASSUME NEW c \in Conn, ShutdownTest(c) \/ ShutdownBody(c) PROVE Tidy(m)' /\ FromPoll(m)
  BY <1>0, <1>14 DEF ShutdownTest, ShutdownBody, Tidy, FromPoll, Listening
<1>15. ASSUME NEW c \in Conn, PeerStep(c) PROVE Tidy(m)' /\ FromPoll(m)
  <2>1. UNCHANGED <<started, loopVars>>
    BY <1>15 DEF PeerStep, PeerConnect, PeerSend, PeerClose, PeerReset
  <2> QED
    BY <1>0, <2>1 DEF Tidy, FromPoll, Listening
<1> QED
  BY <1>1, <1>2, <1>3, <1>4, <1>5, <1>6, <1>7, <1>9, <1>11, <1>12, <1>13, <1>14, <1>15
     DEF Next, AcceptStep, LoopStep

\* A connection that is up stays up until handleClose takes it out of the active
\* channels of its loop.
LEMMA UpUntilClose ==
  ASSUME TypeOK, Stages, LoopInvariant, PoolInvariant, [Next]_vars,
         NEW c \in Conn, Serving(c)
  PROVE  \/ loop'[c] = loop[c] /\ Serving(c)'
         \/ \E l \in Loop : HandleClose(l, c)
<1>1. CASE Same(c)
  BY <1>1, SameStage DEF Same
<1>2. CASE ~Same(c)
  <2>1. ~NotAccepted(c) /\ ~Opening(c) /\ ~Dismantled(c)
    <3>1. <<TRUE>> # <<>> /\ <<TRUE, FALSE>> # <<TRUE>>
      OBVIOUS
    <3> QED
      BY <3>1 DEF Serving, NotAccepted, Opening, Dismantled
  <2> QED
    BY <1>2, <2>1, StageMoves
<1> QED
  BY <1>1, <1>2

\* Every step keeps LoopInvariant.
LEMMA LoopInvariantStep ==
  ASSUME TypeOK, Stages, LoopInvariant, PoolInvariant, [Next]_vars
  PROVE  LoopInvariant'
<1> SUFFICES ASSUME NEW m \in Loop
             PROVE (/\ \A c \in Conn : c \in active[m] => loop[c] = m /\ Serving(c)
                    /\ Tidy(m))'
  BY DEF LoopInvariant, Tidy
<1>1. Tidy(m)' /\ FromPoll(m)
  BY TidyStep
<1>2. ASSUME NEW c \in Conn, c \in active'[m] PROVE loop'[c] = m /\ Serving(c)'
  <2>1. CASE c \in active[m]
    <3>1. loop[c] = m /\ Serving(c)
      BY <2>1 DEF LoopInvariant
    <3>2. ASSUME NEW l \in Loop, HandleClose(l, c) PROVE FALSE
      <4>1. c \in active[l] /\ active' = [active EXCEPT ![l] = @ \ {c}]
        BY <3>2 DEF HandleClose, Handling
      <4>2. l = m
        BY <3>1, <4>1 DEF LoopInvariant
      <4> QED
        BY <1>2, <4>1, <4>2 DEF TypeOK
    <3> QED
      BY <3>1, <3>2, UpUntilClose
  <2>2. CASE c \notin active[m]
    <3>1. loop[c] = m /\ index[c] = "kAdded" /\ loop'[c] = loop[c] /\ Quiet
      BY <1>1, <1>2, <2>2 DEF FromPoll
    <3>2. Serving(c)
      BY <3>1, OneStage
    <3> QED
      BY <3>1, <3>2, QuietStage, SameStage
  <2> QED
    BY <2>1, <2>2
<1> QED
  BY <1>1, <1>2

-----------------------------------------------------------------------------
(* The pool: who gets the next connection.                                  *)

\* The connections of a loop after a step, and how many they are.
NewOn(l) == {c \in Conn : loop'[c] = l}
NewAssigned(l) == Cardinality(NewOn(l))

\* 1 for the loops that have had their turn in this round.
Turn(i, n) == IF i < n THEN 1 ELSE 0

\* Steps that give no loop a connection and leave the pool alone.
LEMMA PoolSame ==
  ASSUME PoolInvariant, UNCHANGED <<poolVars, loop>>,
         started = 0 => \A c \in Conn : ~Created(c)'
  PROVE  PoolInvariant'
  BY DEF PoolInvariant, poolVars, On, Assigned, Chosen

\* The first start() finds no connections and deals from the first loop.
LEMMA PoolStart ==
  ASSUME TypeOK, TypeOK', Stages, PoolInvariant, NEW n \in ThreadNums, Start(n)
  PROVE  PoolInvariant'
<1>1. started' = 1 /\ started \in Nat /\ UNCHANGED <<next, loop, state>>
  BY DEF Start, connVars, TypeOK
<1>2. CASE started > 0
  <2>1. loops' = loops /\ started' # 0
    BY <1>1, <1>2 DEF Start
  <2> QED
    BY <1>1, <2>1 DEF PoolInvariant, On, Assigned, Chosen
<1>3. CASE started = 0
  <2>1. next = 1 /\ \A c \in Conn : loop[c] = None
    BY <1>3, OneStage DEF PoolInvariant, NotAccepted
  <2>2. \A l \in Loop : NewOn(l) = {}
    BY <1>1, <2>1, ConnAssumption DEF NewOn
  <2>3. \A l \in Loop : IsFiniteSet(NewOn(l)) /\ NewAssigned(l) = 0
    BY <2>2, FS_EmptySet DEF NewAssigned
  <2>4. /\ DOMAIN loops' = 1 .. Len(loops') /\ Len(loops') \in Nat /\ loops' \in Seq(SubLoop)
        /\ \A i \in DOMAIN loops' : loops'[i] \in Loop
    <3>1. PoolPrefix'
      BY LoopsPrefix, PTL
    <3> QED
      BY <3>1 DEF PoolPrefix, Loop
  <2>5. loops' # <<>> => 1 \in DOMAIN loops'
    BY <2>4
  <2>6. \A i \in DOMAIN loops' : ~(i < 1)
    BY <2>4
  <2>7. ASSUME NEW i \in DOMAIN loops', NEW j \in DOMAIN loops'
        PROVE  NewAssigned(loops'[i])
                 = NewAssigned(loops'[j]) + (IF i < 1 THEN 1 ELSE 0) - (IF j < 1 THEN 1 ELSE 0)
    BY <2>3, <2>4, <2>6
  <2>8. started' # 0 /\ next' = 1
    BY <1>1, <2>1
  <2> QED
    BY <2>2, <2>3, <2>5, <2>7, <2>8 DEF PoolInvariant, On, Assigned, NewOn, NewAssigned
<1> QED
  BY <1>1, <1>2, <1>3

\* getNextLoop deals in turn: the loop that gets the connection has one more.
LEMMA PoolDeals ==
  ASSUME TypeOK, Stages, LoopInvariant, PoolInvariant, NEW c \in Conn, NewConnection(c)
  PROVE  PoolInvariant'
<1> DEFINE g == getNextLoop
<1>1. /\ g \in Loop /\ g \in Chosen
      /\ IF loops = <<>> THEN nextAfter = 1 ELSE nextAfter \in DOMAIN loops
  BY NextLoop
<1>2. loop' = [loop EXCEPT ![c] = g] /\ next' = nextAfter /\ UNCHANGED <<started, loops>>
  BY DEF NewConnection
<1>3. started # 0
  <2>1. Listen \in active[Base] /\ Base \in Loop
    BY DEF NewConnection, Loop
  <2> QED
    <3>1. Listening
      BY <2>1 DEF LoopInvariant
    <3> QED
      BY <3>1 DEF Listening
<1>4. loop[c] = None /\ None \notin Loop /\ loop \in [Conn -> Loop \cup {None}]
  BY OneStage, ConnAssumption DEF NewConnection, accept, NotAccepted, TypeOK
<1>g. g = IF loops = <<>> THEN Base ELSE loops[next]
  BY DEF getNextLoop
<1> HIDE DEF g
<1>5. /\ NewOn(g) = On(g) \cup {c} /\ c \notin On(g)
      /\ \A l \in Loop \ {g} : NewOn(l) = On(l)
  BY <1>1, <1>2, <1>4 DEF NewOn, On
<1>6. \A l \in Loop : IsFiniteSet(On(l)) /\ Assigned(l) \in Nat
  BY FS_CardinalityType DEF PoolInvariant, Assigned
<1>7. /\ \A l \in Loop : IsFiniteSet(NewOn(l))
      /\ NewAssigned(g) = Assigned(g) + 1
      /\ \A l \in Loop \ {g} : NewAssigned(l) = Assigned(l)
  <2>1. IsFiniteSet(NewOn(g)) /\ Cardinality(NewOn(g)) = Cardinality(On(g)) + 1
    BY <1>1, <1>5, <1>6, FS_AddElement
  <2> QED
    BY <1>5, <1>6, <2>1 DEF NewAssigned, Assigned
<1>8. \A l \in Loop \ Chosen : NewOn(l) = {}
  BY <1>1, <1>5 DEF PoolInvariant
<1>9. ASSUME NEW i \in DOMAIN loops, NEW j \in DOMAIN loops
      PROVE  NewAssigned(loops[i])
               = NewAssigned(loops[j]) + Turn(i, nextAfter) - Turn(j, nextAfter)
  <2>1. /\ loops # <<>> /\ DOMAIN loops = 1 .. Len(loops) /\ Len(loops) \in Nat
        /\ next \in DOMAIN loops
        /\ \A k \in DOMAIN loops :
             loops[k] \in Loop /\ loops[k] = SubLoops[k] /\ k \in DOMAIN SubLoops
    <3>1. loops # <<>>
      BY <1>9
    <3> QED
      BY <3>1, LoopsPrefix DEF PoolInvariant, Loop, PoolPrefix
  <2>2. g = loops[next]
    BY <1>g, <2>1
  <2>3. \A k \in DOMAIN loops : loops[k] = g <=> k = next
    BY <2>1, <2>2, LoopAssumption
  <2>4. \A k \in DOMAIN loops :
          NewAssigned(loops[k]) = Assigned(loops[k]) + (IF k = next THEN 1 ELSE 0)
    BY <1>6, <1>7, <2>1, <2>3
  <2>5. Assigned(loops[i]) = Assigned(loops[j]) + Turn(i, next) - Turn(j, next)
    BY DEF PoolInvariant, Turn
  <2>6. \A k \in DOMAIN loops : k \in Nat /\ Assigned(loops[k]) \in Nat
    BY <1>6, <2>1
  <2>7. nextAfter = IF next = Len(loops) THEN 1 ELSE next + 1
    BY <2>1 DEF nextAfter
  <2> HIDE DEF Assigned, NewAssigned
  <2>8. NewAssigned(loops[i]) = Assigned(loops[i]) + (IF i = next THEN 1 ELSE 0)
    BY <2>4
  <2>9. NewAssigned(loops[j]) = Assigned(loops[j]) + (IF j = next THEN 1 ELSE 0)
    BY <2>4
  <2>10. CASE next = Len(loops)
    <3>1. \A k \in DOMAIN loops : Turn(k, nextAfter) = 0
      BY <2>1, <2>7, <2>10 DEF Turn
    <3>2. \A k \in DOMAIN loops : Turn(k, next) + (IF k = next THEN 1 ELSE 0) = 1
      BY <2>1, <2>10 DEF Turn
    <3>3. \A k \in DOMAIN loops : Turn(k, next) \in Nat
      BY DEF Turn
    <3> QED
      BY <2>5, <2>6, <2>8, <2>9, <3>1, <3>2, <3>3
  <2>11. CASE next # Len(loops)
    <3>1. \A k \in DOMAIN loops :
            Turn(k, nextAfter) = Turn(k, next) + (IF k = next THEN 1 ELSE 0)
      BY <2>1, <2>7, <2>11 DEF Turn
    <3>2. \A k \in DOMAIN loops : Turn(k, next) \in Nat
      BY DEF Turn
    <3> QED
      BY <2>5, <2>6, <2>8, <2>9, <3>1, <3>2
  <2> QED
    BY <2>10, <2>11
<1>10. IF loops' = <<>> THEN next' = 1 ELSE next' \in DOMAIN loops'
  BY <1>1, <1>2
<1>11. \A l \in Loop \ Chosen' : NewOn(l) = {}
  BY <1>2, <1>8 DEF Chosen
<1>12. \A i, j \in DOMAIN loops' :
         NewAssigned(loops'[i])
           = NewAssigned(loops'[j]) + (IF i < next' THEN 1 ELSE 0) - (IF j < next' THEN 1 ELSE 0)
  BY <1>2, <1>9 DEF Turn
<1>13. started' # 0
  BY <1>2, <1>3
<1> QED
  BY <1>7, <1>10, <1>11, <1>12, <1>13 DEF PoolInvariant, On, Assigned, NewOn, NewAssigned

\* Every step keeps PoolInvariant.
LEMMA PoolStep ==
  ASSUME TypeOK, TypeOK', Stages, LoopInvariant, PoolInvariant, [Next]_vars
  PROVE  PoolInvariant'
<1> USE DEF poolVars, connVars
<1>1. CASE \E n \in ThreadNums : Start(n)
  BY <1>1, PoolStart
<1>2. CASE \E c \in Conn : NewConnection(c)
  BY <1>2, PoolDeals
<1>3. CASE ~(\E n \in ThreadNums : Start(n)) /\ ~(\E c \in Conn : NewConnection(c))
  <2>1. UNCHANGED <<poolVars, loop>>
    BY <1>3 DEF Next, LoopStep, AcceptStep, AcceptFails, Poll, Swap, FunctorsDone, HandleMessage,
      HandleReadError, HandleClose, RunEstablished, RunRemoveConnection, RunShutdown,
      DestroyedTest, DestroyedBody, ShutdownTest, ShutdownBody, PeerStep, PeerConnect,
      PeerSend, PeerClose, PeerReset, vars
  <2>2. ASSUME started = 0, NEW c \in Conn PROVE ~Created(c)'
    <3>1. \A d \in Conn : ~Created(d)
      BY <2>2 DEF PoolInvariant
    <3>2. Same(c)
      BY <1>3, <3>1, StageMoves DEF Opening, Serving, Dismantled
    <3> QED
      BY <3>1, <3>2 DEF Same, Created
  <2> QED
    BY <2>1, <2>2, PoolSame
<1> QED
  BY <1>1, <1>2, <1>3

-----------------------------------------------------------------------------
(* The loops on which the functors run.                                     *)

\* The functors of a queue are at their homes, when the connections' loops are lp.
AtHome(q, lp) ==
  \A l \in Loop : \A j \in 1 .. Len(q[l]) :
    (IF q[l][j].op = "remove" THEN Base ELSE lp[q[l][j].conn]) = l

\* OnOwnLoop, before and after a step, in these terms.
LEMMA HomeStep ==
  /\ TypeOK => (OnOwnLoop <=> AtHome(pending, loop) /\ AtHome(batch, loop))
  /\ TypeOK' => (OnOwnLoop' <=> AtHome(pending', loop') /\ AtHome(batch', loop'))
<1>1. TypeOK => \A l \in Loop : DOMAIN pending[l] = 1 .. Len(pending[l]) /\ DOMAIN batch[l] = 1 .. Len(batch[l])
  BY DEF TypeOK
<1>2. TypeOK' => \A l \in Loop : DOMAIN pending'[l] = 1 .. Len(pending'[l]) /\ DOMAIN batch'[l] = 1 .. Len(batch'[l])
  BY DEF TypeOK
<1>3. TypeOK => (OnOwnLoop <=> AtHome(pending, loop) /\ AtHome(batch, loop))
  BY <1>1 DEF OnOwnLoop, AtHome, Home
<1>4. TypeOK' => (OnOwnLoop' <=> AtHome(pending', loop') /\ AtHome(batch', loop'))
  BY <1>2 DEF OnOwnLoop, AtHome, Home
<1> QED
  BY <1>3, <1>4

\* A functor that is posted to its home.
LEMMA HomePost ==
  ASSUME NEW q \in Queues, NEW lp, AtHome(q, lp), NEW l \in Loop, NEW d \in Conn,
         NEW name \in {"established", "remove", "destroyed", "shutdown"},
         (IF name = "remove" THEN Base ELSE lp[d]) = l
  PROVE  AtHome(Post(q, l, name, d), lp)
<1> DEFINE f == [op |-> name, conn |-> d]
           r == Post(q, l, name, d)
<1>1. f \in Functor /\ f.op = name /\ f.conn = d
  BY DEF Functor
<1>2. r = [q EXCEPT ![l] = Append(@, f)]
  BY DEF Post
<1> HIDE DEF f, r
<1>3. r[l] = Append(q[l], f) /\ q[l] \in Seq(Functor) /\ \A m \in Loop \ {l} : r[m] = q[m]
  BY <1>1, <1>2 DEF Queues
<1>4. /\ Len(r[l]) = Len(q[l]) + 1 /\ Len(q[l]) \in Nat
      /\ \A j \in 1 .. Len(q[l]) : r[l][j] = q[l][j]
      /\ r[l][Len(q[l]) + 1] = f
  BY <1>1, <1>3
<1>5. \A j \in 1 .. Len(r[l]) : j \in 1 .. Len(q[l]) \/ j = Len(q[l]) + 1
  BY <1>4
<1>6. ASSUME NEW m \in Loop, NEW j \in 1 .. Len(r[m])
      PROVE  (IF r[m][j].op = "remove" THEN Base ELSE lp[r[m][j].conn]) = m
  <2>1. CASE m # l
    BY <1>3, <1>6, <2>1 DEF AtHome
  <2>2. CASE m = l /\ j \in 1 .. Len(q[l])
    <3>1. r[m][j] = q[l][j]
      BY <1>4, <2>2
    <3> QED
      BY <2>2, <3>1 DEF AtHome
  <2>3. CASE m = l /\ j = Len(q[l]) + 1
    <3>1. r[m][j] = f
      BY <1>4, <2>3
    <3> QED
      BY <1>1, <2>3, <3>1
  <2> QED
    BY <1>5, <1>6, <2>1, <2>2, <2>3
<1> QED
  BY <1>6 DEF r, AtHome

\* The functors that are left when one has run.
LEMMA HomeTail ==
  ASSUME NEW q \in Queues, NEW lp, AtHome(q, lp), NEW l \in Loop, q[l] # <<>>
  PROVE  AtHome([q EXCEPT ![l] = Tail(@)], lp)
<1> DEFINE r == [q EXCEPT ![l] = Tail(@)]
<1>1. q[l] \in Seq(Functor) /\ r[l] = Tail(q[l]) /\ \A m \in Loop \ {l} : r[m] = q[m]
  BY DEF Queues
<1> HIDE DEF r
<1>2. /\ Len(q[l]) \in Nat \ {0} /\ Len(r[l]) = Len(q[l]) - 1
      /\ \A j \in 1 .. Len(q[l]) - 1 : r[l][j] = q[l][j + 1]
  BY <1>1
<1>3. \A j \in 1 .. Len(r[l]) : r[l][j] = q[l][j + 1] /\ j + 1 \in 1 .. Len(q[l])
  BY <1>2
<1>4. ASSUME NEW m \in Loop, NEW j \in 1 .. Len(r[m])
      PROVE  (IF r[m][j].op = "remove" THEN Base ELSE lp[r[m][j].conn]) = m
  <2>1. CASE m # l
    BY <1>1, <1>4, <2>1 DEF AtHome
  <2>2. CASE m = l
    <3>1. r[m][j] = q[l][j + 1] /\ j + 1 \in 1 .. Len(q[l])
      BY <1>3, <1>4, <2>2
    <3> QED
      BY <2>2, <3>1 DEF AtHome
  <2> QED
    BY <2>1, <2>2
<1> QED
  BY <1>4 DEF r, AtHome

\* The swap leaves every functor at its loop.
LEMMA HomeSwap ==
  ASSUME NEW p \in Queues, NEW b \in Queues, NEW lp, AtHome(p, lp), AtHome(b, lp), NEW l \in Loop
  PROVE  AtHome([p EXCEPT ![l] = <<>>], lp) /\ AtHome([b EXCEPT ![l] = p[l]], lp)
  BY DEF AtHome, Queues

\* A connection that gets its loop has no functor yet.
LEMMA HomeNew ==
  ASSUME NEW q \in Queues, AtHome(q, loop),
         \A c \in Conn : loop[c] \in Loop => loop'[c] = loop[c]
  PROVE  AtHome(q, loop')
<1>1. \A l \in Loop : \A j \in 1 .. Len(q[l]) : q[l][j].conn \in Conn
  <2> SUFFICES ASSUME NEW l \in Loop, NEW j \in 1 .. Len(q[l]) PROVE q[l][j].conn \in Conn
    OBVIOUS
  <2>1. q[l] \in Seq(Functor)
    BY DEF Queues
  <2>2. q[l][j] \in Functor
    BY <2>1
  <2> QED
    BY <2>2 DEF Functor
<1> QED
  BY <1>1 DEF AtHome

\* Every step keeps the functors at their homes.
LEMMA OnOwnLoopStep ==
  ASSUME TypeOK, TypeOK', Stages, LoopInvariant, PoolInvariant, OnOwnLoop, [Next]_vars
  PROVE  OnOwnLoop'
<1> USE DEF connVars, loopVars
<1>0. /\ pending \in Queues /\ batch \in Queues
      /\ AtHome(pending, loop) /\ AtHome(batch, loop) /\ Base \in Loop
  BY HomeStep DEF TypeOK, Queues, Loop
<1> SUFFICES AtHome(pending', loop') /\ AtHome(batch', loop')
  BY HomeStep
<1>1. CASE UNCHANGED <<pending, batch, loop>>
  BY <1>0, <1>1
<1>2. ASSUME NEW c \in Conn, NewConnection(c) PROVE AtHome(pending', loop') /\ AtHome(batch', loop')
  <2>1. getNextLoop \in Loop
    BY NextLoop
  <2>2. loop' = [loop EXCEPT ![c] = getNextLoop] /\ batch' = batch
    BY <1>2 DEF NewConnection
  <2>3. loop[c] = None /\ None \notin Loop
    BY <1>2, OneStage, ConnAssumption DEF NewConnection, accept, NotAccepted
  <2>4. loop'[c] = getNextLoop /\ \A d \in Conn : loop[d] \in Loop => loop'[d] = loop[d]
    BY <2>2, <2>3 DEF TypeOK
  <2>5. AtHome(pending, loop') /\ AtHome(batch, loop')
    BY <1>0, <2>4, HomeNew
  <2>6. pending' = pending \/ pending' = Post(pending, getNextLoop, "established", c)
    BY <1>2 DEF NewConnection
  <2>7. AtHome(Post(pending, getNextLoop, "established", c), loop')
    BY <1>0, <2>1, <2>4, <2>5, HomePost
  <2> QED
    BY <2>2, <2>5, <2>6, <2>7
<1>3. ASSUME NEW l \in Loop, Swap(l) PROVE AtHome(pending', loop') /\ AtHome(batch', loop')
  <2>1. /\ pending' = [pending EXCEPT ![l] = <<>>] /\ batch' = [batch EXCEPT ![l] = pending[l]]
        /\ loop' = loop
    BY <1>3 DEF Swap
  <2> QED
    BY <1>0, <2>1, HomeSwap
<1>4. ASSUME NEW l \in Loop, NEW c \in Conn, loop[c] \in Loop, RemoveConnection(l, c)
      PROVE  AtHome(pending', loop)
  <2>1. CASE l = Base
    <3>1. pending' = Post(pending, loop[c], "destroyed", c)
      BY <1>4, <2>1 DEF RemoveConnection, RemoveConnectionInLoop
    <3> QED
      BY <1>0, <1>4, <3>1, HomePost
  <2>2. CASE l # Base
    <3>1. pending' = Post(pending, Base, "remove", c)
      BY <1>4, <2>2 DEF RemoveConnection
    <3> QED
      BY <1>0, <3>1, HomePost
  <2> QED
    BY <2>1, <2>2
<1>5. ASSUME NEW l \in Loop, batch[l] # <<>>, Ran(l) PROVE AtHome(batch', loop)
  BY <1>0, <1>5, HomeTail DEF Ran
<1>6. ASSUME NEW l \in Loop, NEW c \in Conn, HandleClose(l, c)
      PROVE  AtHome(pending', loop') /\ AtHome(batch', loop')
  <2>1. /\ loop[c] \in Loop /\ RemoveConnection(l, c) /\ UNCHANGED <<batch, loop>>
    BY <1>6 DEF HandleClose, Handling, LoopInvariant
  <2> QED
    BY <1>0, <1>4, <2>1
<1>7. ASSUME NEW l \in Loop, NEW c \in Conn, RunEstablished(l, c) \/ RunShutdown(l, c)
      PROVE  AtHome(pending', loop') /\ AtHome(batch', loop')
  <2>1. batch[l] # <<>> /\ Ran(l) /\ UNCHANGED <<pending, loop>>
    BY <1>7 DEF RunEstablished, RunShutdown, Running
  <2> QED
    BY <1>0, <1>5, <2>1
<1>8. ASSUME NEW l \in Loop, NEW c \in Conn, RunRemoveConnection(l, c)
      PROVE  AtHome(pending', loop') /\ AtHome(batch', loop')
  <2>1. /\ batch[l] # <<>> /\ Ran(l) /\ loop' = loop
        /\ pending' = Post(pending, loop[c], "destroyed", c)
    BY <1>8 DEF RunRemoveConnection, Running, RemoveConnectionInLoop
  <2>2. loop[c] \in Loop
    BY <1>8, DismantleStage DEF Dismantled
  <2>3. AtHome(pending', loop)
    BY <1>0, <2>1, <2>2, HomePost
  <2> QED
    BY <1>5, <2>1, <2>3
<1>9. ASSUME NEW l \in Loop, NEW c \in Conn, DestroyedBody(l, c)
      PROVE  AtHome(pending', loop') /\ AtHome(batch', loop')
  <2>1. Ran(l) /\ RemoveConnection(l, c) /\ loop' = loop
    BY <1>9 DEF DestroyedBody
  <2>2. batch[l] # <<>>
    BY <1>9, ConnAssumption DEF DestroyedBody, LoopInvariant
  <2>3. loop[c] \in Loop
    BY <1>9, DismantleStage DEF Dismantled
  <2> QED
    BY <1>4, <1>5, <2>1, <2>2, <2>3
<1>10. ASSUME NEW c \in Conn, ShutdownBody(c) PROVE AtHome(pending', loop') /\ AtHome(batch', loop')
  <2>1. pending' = Post(pending, loop[c], "shutdown", c) /\ UNCHANGED <<batch, loop>> /\ shutting[c]
    BY <1>10 DEF ShutdownBody
  <2>2. loop[c] \in Loop
    BY <2>1, OneStage
  <2> QED
    BY <1>0, <2>1, <2>2, HomePost
<1>11. CASE /\ ~\E c \in Conn : NewConnection(c) \/ ShutdownBody(c)
            /\ ~\E l \in Loop : Swap(l)
            /\ ~\E l \in Loop, c \in Conn :
                  \/ HandleClose(l, c) \/ RunEstablished(l, c) \/ RunShutdown(l, c)
                  \/ RunRemoveConnection(l, c) \/ DestroyedBody(l, c)
  <2>1. UNCHANGED <<pending, batch, loop>>
    BY <1>11 DEF Next, LoopStep, AcceptStep, Start, AcceptFails, Poll, FunctorsDone,
      HandleMessage, HandleReadError, DestroyedTest, ShutdownTest, PeerStep, PeerConnect,
      PeerSend, PeerClose, PeerReset, vars
  <2> QED
    BY <1>1, <2>1
<1> QED
  BY <1>2, <1>3, <1>6, <1>7, <1>8, <1>9, <1>10, <1>11

-----------------------------------------------------------------------------
(* The theorems.                                                            *)

\* A server that has not been started.
LEMMA ServerInit == Init => ServerInvariant
<1> SUFFICES ASSUME Init PROVE ServerInvariant
  OBVIOUS
<1>0. /\ <<>> \in Seq(Functor) /\ <<>> \in Seq(BOOLEAN) /\ Len(<<>>) = 0
      /\ Base \in Loop
  BY DEF Loop
<1>1. TypeOK
  <2>1. Len(SubLoops) \in Nat /\ 0 \in 0 .. Len(SubLoops) /\ SubSeq(SubLoops, 1, 0) = <<>>
    BY LoopAssumption
  <2>2. loops \in {SubSeq(SubLoops, 1, n) : n \in 0 .. Len(SubLoops)}
    BY <2>1 DEF Init
  <2>3. pending \in [Loop -> Seq(Functor)] /\ batch \in [Loop -> Seq(Functor)]
    BY <1>0 DEF Init
  <2>4. reports \in [Conn -> Seq(BOOLEAN)]
    BY <1>0 DEF Init
  <2>5. started \in 0 .. 1 /\ next \in DOMAIN SubLoops \cup {1} /\ connections \subseteq Conn
    BY <1>0 DEF Init
  <2>6. /\ state \in [Conn -> State \cup {"none"}] /\ loop \in [Conn -> Loop \cup {None}]
        /\ index \in [Conn -> Index] /\ peer \in [Conn -> {"none", "open", "closed", "reset"}]
    BY DEF Init, Index
  <2>7. /\ reading \in [Conn -> BOOLEAN] /\ shutWrite \in [Conn -> BOOLEAN]
        /\ shutting \in [Conn -> BOOLEAN] /\ data \in [Conn -> BOOLEAN]
        /\ sockErr \in [Conn -> BOOLEAN] /\ revents \in [Conn -> SUBSET {"in", "err", "hup"}]
    BY DEF Init
  <2>8. /\ phase \in [Loop -> {"poll", "handle", "functors"}]
        /\ active \in [Loop -> SUBSET (Conn \cup {Listen})]
        /\ destroying \in [Loop -> Conn \cup {None}]
    BY DEF Init
  <2> QED
    BY <2>2, <2>3, <2>4, <2>5, <2>6, <2>7, <2>8 DEF TypeOK
<1>2. Stages
  <2> SUFFICES ASSUME NEW c \in Conn PROVE NotAccepted(c)
    BY DEF Stages
  <2>1. pending \in Queues /\ batch \in Queues
    BY <1>1 DEF TypeOK, Queues
  <2>2. \A q : q \in Queues /\ (\A l \in Loop : q[l] = <<>>) =>
          \A names : Queued(q, c, names) = {}
    <3> SUFFICES ASSUME NEW q \in Queues, \A l \in Loop : q[l] = <<>>, NEW names
                 PROVE  Queued(q, c, names) = {}
      OBVIOUS
    <3>1. \A l, j : ~IsAt(q, c, names, l, j)
      BY DEF IsAt
    <3> QED
      BY <3>1, QueuedPlaces
  <2>3. Nowhere(c, {"established"}) /\ Nowhere(c, TearingDown)
    BY <2>1, <2>2 DEF Nowhere, Init
  <2> QED
    BY <2>3 DEF NotAccepted, Created, Init
<1>3. LoopInvariant
  BY DEF LoopInvariant, Init
<1>4. PoolInvariant
  <2>1. \A l \in Loop : On(l) = {}
    BY ConnAssumption DEF On, Init
  <2>2. \A l \in Loop : IsFiniteSet(On(l))
    BY <2>1, FS_EmptySet
  <2>3. DOMAIN loops = {}
    BY DEF Init
  <2> QED
    BY <2>1, <2>2, <2>3 DEF PoolInvariant, Init, Created
<1>5. OnOwnLoop
  BY <1>0 DEF OnOwnLoop, Init
<1> QED
  BY <1>1, <1>2, <1>3, <1>4, <1>5 DEF ServerInvariant

\* ServerInvariant is inductive.
LEMMA ServerStep == ServerInvariant /\ [Next]_vars => ServerInvariant'
  BY TypeStep, StageStep, LoopInvariantStep, PoolStep, OnOwnLoopStep DEF ServerInvariant

\* Every connection of every server is in one of the four stages of its life, with
\* the functors on their way to it that belong to that stage, its loop handles it
\* only while it is up, and the loops before next_ have one connection more.
THEOREM ServerCorrect == Spec => []ServerInvariant
  BY ServerInit, ServerStep, PTL DEF Spec

\* The types, among them that next_ stays inside loops_.
THEOREM ServerTypes == Spec => []TypeOK
<1>1. ServerInvariant => TypeOK
  BY DEF ServerInvariant
<1> QED
  BY <1>1, ServerCorrect, PTL

\* connectionCallback_ reports each connection up once and then down once.
THEOREM ReportsExact == Spec => []ReportedOnce
<1>1. ServerInvariant => ReportedOnce
  BY DEF ServerInvariant, Stages, ReportedOnce, NotAccepted, Opening, Serving, Dismantled
<1> QED
  BY <1>1, ServerCorrect, PTL

\* What the stage of a connection says of its reports.
LEMMA StageReports ==
  ASSUME Stages, NEW c \in Conn
  PROVE  /\ Down(c) <=> Dismantled(c)
         /\ Up(c) <=> Serving(c)
<1>1. NotAccepted(c) \/ Opening(c) \/ Serving(c) \/ Dismantled(c)
  BY DEF Stages
<1>2. /\ <<>> # <<TRUE>> /\ <<TRUE, FALSE>> # <<TRUE>> /\ <<TRUE, FALSE>> # <<>>
      /\ Len(<<>>) = 0 /\ Len(<<TRUE>>) = 1 /\ Len(<<TRUE, FALSE>>) = 2
  OBVIOUS
<1>3. CASE NotAccepted(c) \/ Opening(c)
  <2>1. reports[c] = <<>>
    BY <1>3 DEF NotAccepted, Opening
  <2>2. ~Down(c) /\ ~Up(c)
    BY <1>2, <2>1 DEF Up, Down
  <2>3. ~Serving(c) /\ ~Dismantled(c)
    BY <1>2, <2>1 DEF Serving, Dismantled
  <2> QED
    BY <2>2, <2>3
<1>4. CASE Serving(c)
  BY <1>2, <1>4 DEF Serving, Dismantled, Up, Down
<1>5. CASE Dismantled(c)
  BY <1>2, <1>5 DEF Serving, Dismantled, Up, Down
<1> QED
  BY <1>1, <1>3, <1>4, <1>5

\* A connection is taken apart by one functor at a time, and only once it is down.
THEOREM TeardownOnce == Spec => []OneTeardown
<1>1. ServerInvariant => OneTeardown
  <2> SUFFICES ASSUME ServerInvariant, NEW c \in Conn
               PROVE  Teardown(c) = IF Down(c) THEN 1 ELSE 0
    BY DEF OneTeardown
  <2>1. Stages
    BY DEF ServerInvariant
  <2> DEFINE P == Queued(pending, c, TearingDown)
             B == Queued(batch, c, TearingDown)
  <2>2. Teardown(c) = Cardinality(P) + Cardinality(B)
    BY DEF Teardown, TearingDown
  <2>3. Cardinality({}) = 0 /\ \A x : Cardinality({x}) = 1
    BY FS_EmptySet, FS_Singleton
  <2>4. CASE Down(c)
    <3>1. InOnePlace(c, TearingDown)
      BY <2>1, <2>4, StageReports DEF Dismantled
    <3>2. PICK x : (P = {x} /\ B = {}) \/ (P = {} /\ B = {x})
      BY <3>1 DEF InOnePlace
    <3> HIDE DEF P, B
    <3>3. Cardinality(P) + Cardinality(B) = 1
      <4>1. Cardinality({x}) = 1
        BY FS_Singleton, Zenon
      <4>2. CASE P = {x} /\ B = {}
        <5>1. Cardinality(P) = 1 /\ Cardinality(B) = 0
          BY <2>3, <4>1, <4>2
        <5> QED
          BY <5>1
      <4>3. CASE P = {} /\ B = {x}
        <5>1. Cardinality(P) = 0 /\ Cardinality(B) = 1
          BY <2>3, <4>1, <4>3
        <5> QED
          BY <5>1
      <4> QED
        BY <3>2, <4>2, <4>3
    <3> QED
      BY <2>2, <2>4, <3>3
  <2>5. CASE ~Down(c)
    <3>1. Nowhere(c, TearingDown)
      BY <2>1, <2>5, StageReports DEF Stages, NotAccepted, Opening, Serving
    <3>2. P = {} /\ B = {}
      BY <3>1 DEF Nowhere
    <3> QED
      BY <2>2, <2>3, <2>5, <3>2
  <2> QED
    BY <2>4, <2>5
<1> QED
  BY <1>1, ServerCorrect, PTL

\* The server's map holds a connection until its removal has run on the base loop,
\* after it went down.
THEOREM MapExact == Spec => []MapTracks
<1>1. ServerInvariant => MapTracks
  <2> SUFFICES ASSUME ServerInvariant, NEW c \in Conn
               PROVE  /\ c \in connections => Created(c)
                      /\ Created(c) /\ c \notin connections => Down(c)
                      /\ c \in connections /\ Down(c) =>
                           Queued(pending, c, {"remove"}) \cup Queued(batch, c, {"remove"}) # {}
    BY DEF MapTracks
  <2>1. Stages /\ pending \in Queues /\ batch \in Queues
    BY DEF ServerInvariant, TypeOK, Queues
  <2>2. NotAccepted(c) \/ Opening(c) \/ Serving(c) \/ Dismantled(c)
    BY <2>1 DEF Stages
  <2>3. c \in connections => Created(c)
    BY <2>2 DEF NotAccepted, Opening, Serving, Dismantled
  <2>4. Created(c) /\ c \notin connections => Down(c)
    BY <2>1, <2>2, StageReports DEF NotAccepted, Opening, Serving
  <2>5. ASSUME c \in connections, Down(c)
        PROVE  Queued(pending, c, {"remove"}) \cup Queued(batch, c, {"remove"}) # {}
    <3>1. Nowhere(c, {"destroyed"}) /\ InOnePlace(c, TearingDown)
      BY <2>1, <2>5, StageReports DEF Dismantled
    <3>2. ASSUME NEW q \in Queues, Queued(q, c, {"destroyed"}) = {}
          PROVE  Queued(q, c, TearingDown) \subseteq Queued(q, c, {"remove"})
      BY <3>2 DEF Queued, TearingDown
    <3>3. Queued(pending, c, TearingDown) \cup Queued(batch, c, TearingDown) # {}
      BY <3>1 DEF InOnePlace
    <3> QED
      BY <2>1, <3>1, <3>2, <3>3 DEF Nowhere
  <2> QED
    BY <2>3, <2>4, <2>5
<1> QED
  BY <1>1, ServerCorrect, PTL

\* A loop in epoll_wait watches the connections that are up and none that is down.
THEOREM WatchExact == Spec => []WatchedWhileUp
<1>1. ServerInvariant => WatchedWhileUp
  BY StageReports DEF ServerInvariant, WatchedWhileUp, Serving, Dismantled
<1> QED
  BY <1>1, ServerCorrect, PTL

\* Every functor runs on the thread it has to run on: what touches the map on the
\* base loop's, what touches a connection on that of its own loop.
THEOREM RunsAtHome == Spec => []OnOwnLoop
<1>1. ServerInvariant => OnOwnLoop
  BY DEF ServerInvariant
<1> QED
  BY <1>1, ServerCorrect, PTL

\* newConnection spreads connections evenly over the sub-loops, for any number of
\* either.
THEOREM DealtEvenly == Spec => []SpreadEvenly
<1>1. ServerInvariant => SpreadEvenly
  <2> SUFFICES ASSUME ServerInvariant, NEW i \in DOMAIN loops, NEW j \in DOMAIN loops
               PROVE  Assigned(loops[i]) <= Assigned(loops[j]) + 1
    BY DEF SpreadEvenly
  <2>0. TypeOK /\ PoolInvariant
    BY DEF ServerInvariant
  <2>1. loops[i] \in Loop /\ loops[j] \in Loop
    BY <2>0, LoopsPrefix DEF PoolPrefix, Loop
  <2>2. Assigned(loops[i]) \in Nat /\ Assigned(loops[j]) \in Nat
    BY <2>0, <2>1, FS_CardinalityType DEF PoolInvariant, Assigned
  <2>3. Assigned(loops[i])
          = Assigned(loops[j]) + (IF i < next THEN 1 ELSE 0) - (IF j < next THEN 1 ELSE 0)
    BY <2>0 DEF PoolInvariant
  <2> QED
    BY <2>2, <2>3
<1> QED
  BY <1>1, ServerCorrect, PTL
=============================================================================
