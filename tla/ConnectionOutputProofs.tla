------------------------ MODULE ConnectionOutputProofs ------------------------
(***************************************************************************)
(* For any number of callers and messages, any lengths and any high-water  *)
(* mark: what ConnectionOutput promises of a connection's output.          *)
(***************************************************************************)
EXTENDS ConnectionOutput, FiniteSetTheorems, SequenceTheorems, TLAPS

\* The first n bytes of a message are a sequence of bytes, one for each place.
LEMMA BytesProperties ==
  ASSUME NEW m \in Message, NEW n \in Nat
  PROVE  /\ Bytes(m, 1, n) \in Seq(Byte) /\ Len(Bytes(m, 1, n)) = n
         /\ \A i \in 1 .. n : Bytes(m, 1, n)[i] = <<m, i>>
<1> DEFINE b == Bytes(m, 1, n)
<1>1. b = [i \in 1 .. n |-> <<m, 1 + i - 1>>]
  BY DEF Bytes
<1>2. \A i \in 1 .. n : 1 + i - 1 = i /\ <<m, i>> \in Byte
  BY DEF Byte
<1>3. b \in [1 .. n -> Byte] /\ \A i \in 1 .. n : b[i] = <<m, i>>
  BY <1>1, <1>2
<1> HIDE DEF b
<1>4. b \in Seq(Byte)
  BY <1>3, SeqDef
<1>5. Len(b) = n
  BY <1>3, <1>4
<1> QED
  BY <1>3, <1>4, <1>5 DEF b

\* What follows from the ends of a sequence of bytes and the bytes put behind it.
LEMMA ConcatPlaces ==
  ASSUME NEW s \in Seq(Byte), NEW b \in Seq(Byte)
  PROVE  /\ s \o b \in Seq(Byte) /\ Len(s \o b) = Len(s) + Len(b)
         /\ DOMAIN s = 1 .. Len(s) /\ DOMAIN (s \o b) = 1 .. Len(s) + Len(b)
         /\ \A i \in 1 .. Len(s) : (s \o b)[i] = s[i]
         /\ \A i \in 1 .. Len(b) : (s \o b)[Len(s) + i] = b[i]
         /\ Len(s) \in Nat /\ Len(b) \in Nat
  BY ConcatProperties

\* What a step does to the histories: nothing, or message m of len bytes is
\* accepted and n of its bytes are written, the message being complete when
\* these are all.
Delivers(m, len, n) ==
  /\ accepted' = accepted \o Bytes(m, 1, len)
  /\ wire' = wire \o Bytes(m, 1, n)
  /\ completes' = completes + (IF n = len THEN 1 ELSE 0)

\* A sequence of callbacks only.
Callbacks == Seq([op : {"callback"}])

\* Callbacks are functors, none of them a send.
LEMMA CallbacksAreFunctors ==
  /\ Callbacks \subseteq Seq(Functor)
  /\ \A cb \in Callbacks : \A k \in DOMAIN cb : cb[k].op = "callback"
<1>1. [op : {"callback"}] \subseteq Functor
  BY DEF Functor
<1>2. Callbacks \subseteq Seq(Functor)
  BY <1>1, SeqMonotonic DEF Callbacks
<1>3. ASSUME NEW cb \in Callbacks, NEW k \in DOMAIN cb PROVE cb[k] \in [op : {"callback"}]
  <2>1. k \in 1 .. Len(cb)
    BY <1>3, LenProperties DEF Callbacks
  <2> QED
    BY <2>1, ElementOfSeq DEF Callbacks
<1> QED
  BY <1>2, <1>3

\* Bytes put behind nothing at all.
LEMMA NoBytes ==
  ASSUME NEW m, NEW s \in Seq(Byte)
  PROVE  s \o Bytes(m, 1, 0) = s
<1>1. Bytes(m, 1, 0) = <<>>
  BY DEF Bytes
<1> QED
  BY <1>1, ConcatEmptySeq

\* sendInLoop, whichever way it goes: at most one delivery, only callbacks
\* behind the functors it was given, and a remainder only after a fault.
LEMMA SendEffect ==
  ASSUME TypeOK, OnlyAfterFault, WatchedWhileBuffered,
         NEW m \in Message, NEW len \in Lens, NEW rest \in Seq(Functor),
         SendInLoop(m, len, rest)
  PROVE  /\ \/ UNCHANGED history
            \/ \E n \in 0 .. len : Delivers(m, len, n)
         /\ \E cb \in Callbacks : pending' = rest \o cb
         /\ \/ UNCHANGED <<out, writing>>
            \/ /\ out' \in Seq(Byte) /\ out' # <<>> /\ writing' = TRUE
               /\ Within(out', 1) /\ (dead \/ shutWrite)
<1>l. len \in Nat \ {0}
  BY LenAssumption
<1>e. <<>> \in Callbacks /\ rest \o <<>> = rest
  BY ConcatEmptySeq DEF Callbacks
<1>1. CASE state = "kDisconnected" /\ pending' = rest /\ UNCHANGED <<out, writing, history>>
  BY <1>1, <1>e
<1>2. CASE /\ accepted' = accepted \o Bytes(m, 1, len)
           /\ KeepRemainder(m, 0, len, FALSE) /\ pending' = rest
           /\ UNCHANGED <<wire, completes>>
  <2>1. UNCHANGED <<out, writing>>
    BY <1>2 DEF KeepRemainder
  <2>2. wire' = wire \o Bytes(m, 1, 0)
    BY <1>2, NoBytes DEF TypeOK
  <2>3. Delivers(m, len, 0)
    BY <1>2, <1>l, <2>2 DEF Delivers, TypeOK
  <2>4. \E n \in 0 .. len : Delivers(m, len, n)
    BY <1>l, <2>3
  <2>5. \E cb \in Callbacks : pending' = rest \o cb
    BY <1>2, <1>e
  <2> QED
    BY <2>1, <2>4, <2>5
<1>3. ASSUME /\ out = <<>>
             /\ accepted' = accepted \o Bytes(m, 1, len)
             /\ pending' = rest \o CompleteQueued \o HighWaterQueued,
             NEW r \in WriteResults(len), DirectWrite(m, len, r),
             KeepRemainder(m, r.n, IF r.err = "none" THEN len - r.n ELSE len + 1,
                           r.err = "fault")
      PROVE  /\ \E n \in 0 .. len : Delivers(m, len, n)
             /\ \E cb \in Callbacks : pending' = rest \o cb
             /\ \/ UNCHANGED <<out, writing>>
                \/ /\ out' \in Seq(Byte) /\ out' # <<>> /\ writing' = TRUE
                   /\ Within(out', 1) /\ (dead \/ shutWrite)
  <2>1. /\ r.n \in 0 .. len
        /\ r.err = "fault" => (dead \/ shutWrite) /\ r.n = 0
    BY <1>3, <1>l DEF WriteResults, Took, Fails
  <2>2. Delivers(m, len, r.n)
    BY <1>3 DEF Delivers, DirectWrite
  <2>3. \E cb \in Callbacks : pending' = rest \o cb
    <3>1. CompleteQueued \in Callbacks /\ HighWaterQueued \in Callbacks
      <4>1. <<>> \in Callbacks /\ <<[op |-> "callback"]>> \in Callbacks
        BY DEF Callbacks
      <4> QED
        BY <4>1 DEF CompleteQueued, HighWaterQueued
    <3>2. CompleteQueued \in Seq(Functor) /\ HighWaterQueued \in Seq(Functor)
      BY <3>1, CallbacksAreFunctors
    <3>3. rest \o CompleteQueued \o HighWaterQueued = rest \o (CompleteQueued \o HighWaterQueued)
      BY <3>2, ConcatAssociative
    <3>4. CompleteQueued \o HighWaterQueued \in Callbacks
      BY <3>1, ConcatProperties DEF Callbacks
    <3> QED
      BY <1>3, <3>3, <3>4
  <2>4. \/ UNCHANGED <<out, writing>>
        \/ /\ out' \in Seq(Byte) /\ out' # <<>> /\ writing' = TRUE
           /\ Within(out', 1) /\ (dead \/ shutWrite)
    <3>1. CASE UNCHANGED <<out, writing>>
      BY <3>1
    <3>2. CASE ~UNCHANGED <<out, writing>>
      <4>1. /\ r.err = "fault" /\ writing' = TRUE
            /\ out' = out \o Bytes(m, r.n + 1, r.n + (len + 1))
        BY <1>3, <3>2 DEF KeepRemainder
      <4>2. r.n + 1 = 1 /\ r.n + (len + 1) = len + 1 /\ len + 1 \in Nat
        BY <1>l, <2>1, <4>1
      <4>3. /\ Bytes(m, 1, len + 1) \in Seq(Byte) /\ Len(Bytes(m, 1, len + 1)) = len + 1
            /\ \A i \in 1 .. len + 1 : Bytes(m, 1, len + 1)[i] = <<m, i>>
        BY <4>2, BytesProperties
      <4>4. out' = Bytes(m, 1, len + 1)
        BY <1>3, <4>1, <4>2, <4>3, ConcatEmptySeq
      <4>5. out' \in Seq(Byte) /\ out' # <<>>
        BY <1>l, <4>3, <4>4
      <4>6. Within(out', 1)
        <5>1. DOMAIN out' = 1 .. len + 1 /\ \A i \in 1 .. len + 1 : out'[i] = <<m, i>>
          BY <4>3, <4>4, LenProperties
        <5>2. \A i \in DOMAIN out' : out'[i][2] <= len + 1
          BY <1>l, <5>1
        <5> QED
          BY <5>2 DEF Within
      <4> QED
        BY <2>1, <4>1, <4>5, <4>6
    <3> QED
      BY <3>1, <3>2
  <2> QED
    BY <2>1, <2>2, <2>3, <2>4
<1> QED
  BY <1>1, <1>2, <1>3 DEF SendInLoop

\* t is s with n bytes of a message m behind it that s has nothing of.
Extended(s, t, m, n) ==
  /\ t \in Seq(Byte) /\ DOMAIN t = 1 .. Len(s) + n /\ DOMAIN s = 1 .. Len(s)
  /\ Len(s) \in Nat
  /\ \A i \in 1 .. Len(s) : t[i] = s[i] /\ s[i][1] # m
  /\ \A i \in 1 .. n : t[Len(s) + i] = <<m, i>>

\* Bytes of a new message put behind a sequence extend it.
LEMMA PlacesAfter ==
  ASSUME NEW s \in Seq(Byte), NEW m \in Message, m \notin MessagesOf(s), NEW n \in Nat
  PROVE  Extended(s, s \o Bytes(m, 1, n), m, n)
<1> DEFINE b == Bytes(m, 1, n)
           t == s \o b
<1>1. b \in Seq(Byte) /\ Len(b) = n /\ \A i \in 1 .. n : b[i] = <<m, i>>
  BY BytesProperties
<1> HIDE DEF b
<1>2. /\ t \in Seq(Byte) /\ DOMAIN t = 1 .. Len(s) + Len(b) /\ DOMAIN s = 1 .. Len(s)
      /\ \A i \in 1 .. Len(s) : t[i] = s[i]
      /\ \A i \in 1 .. Len(b) : t[Len(s) + i] = b[i]
      /\ Len(s) \in Nat
  BY <1>1, ConcatPlaces
<1>3. \A i \in 1 .. Len(s) : s[i][1] # m
  BY <1>2 DEF MessagesOf
<1> HIDE DEF t
<1>4. Extended(s, t, m, n)
  BY <1>1, <1>2, <1>3 DEF Extended
<1> QED
  BY <1>4 DEF t, b

\* The same, said of the sets.
LEMMA MessagesAfter ==
  ASSUME NEW s \in Seq(Byte), NEW m \in Message, m \notin MessagesOf(s), NEW n \in Nat,
         NEW t, Extended(s, t, m, n)
  PROVE  /\ MessagesOf(t) \subseteq MessagesOf(s) \cup {m}
         /\ PlacesIn(t, m) = Len(s) + 1 .. Len(s) + n
         /\ \A k : k # m => PlacesIn(t, k) = PlacesIn(s, k)
<1>1. /\ DOMAIN t = 1 .. Len(s) + n /\ DOMAIN s = 1 .. Len(s) /\ Len(s) \in Nat
      /\ \A i \in 1 .. Len(s) : t[i] = s[i] /\ s[i][1] # m
      /\ \A i \in 1 .. n : t[Len(s) + i] = <<m, i>>
  BY DEF Extended
<1>2. \A i \in DOMAIN t : \/ i \in 1 .. Len(s) /\ t[i][1] = s[i][1] /\ s[i][1] # m
                          \/ i \in Len(s) + 1 .. Len(s) + n /\ t[i][1] = m
  <2> SUFFICES ASSUME NEW i \in DOMAIN t, i \notin 1 .. Len(s)
               PROVE  i \in Len(s) + 1 .. Len(s) + n /\ t[i][1] = m
    BY <1>1
  <2>1. i \in Len(s) + 1 .. Len(s) + n /\ i - Len(s) \in 1 .. n /\ Len(s) + (i - Len(s)) = i
    BY <1>1
  <2>2. t[i] = <<m, i - Len(s)>>
    BY <1>1, <2>1
  <2> QED
    BY <2>1, <2>2
<1>3. MessagesOf(t) \subseteq MessagesOf(s) \cup {m}
  BY <1>1, <1>2 DEF MessagesOf
<1>4. PlacesIn(t, m) = Len(s) + 1 .. Len(s) + n
  <2>1. Len(s) + 1 .. Len(s) + n \subseteq DOMAIN t
    BY <1>1
  <2>2. \A i \in Len(s) + 1 .. Len(s) + n : i \notin 1 .. Len(s)
    BY <1>1
  <2> QED
    BY <1>2, <2>1, <2>2 DEF PlacesIn
<1>5. \A k : k # m => PlacesIn(t, k) = PlacesIn(s, k)
  <2>1. DOMAIN s \subseteq DOMAIN t
    BY <1>1
  <2> QED
    BY <1>1, <1>2, <2>1 DEF PlacesIn
<1> QED
  BY <1>3, <1>4, <1>5

\* A delivery keeps the accepted bytes apart and what is on the wire in order.
LEMMA DeliveryInOrder ==
  ASSUME TypeOK, AcceptedOnce, SentInOrder,
         NEW m \in Message, m \notin MessagesOf(accepted),
         NEW len \in Lens, NEW n \in 0 .. len, Delivers(m, len, n)
  PROVE  /\ accepted' \in Seq(Byte) /\ wire' \in Seq(Byte)
         /\ Within(accepted', 0) /\ Within(wire', 0)
         /\ AcceptedOnce' /\ SentInOrder'
<1>l. len \in Nat /\ n \in Nat /\ n <= len
  BY LenAssumption
<1>w. m \notin MessagesOf(wire)
  BY DEF MessagesOf, SentInOrder
<1> DEFINE a == Len(accepted)
           w == Len(wire)
<1>1. /\ accepted' \in Seq(Byte) /\ DOMAIN accepted' = 1 .. a + len
      /\ DOMAIN accepted = 1 .. a /\ a \in Nat
      /\ \A i \in 1 .. a : accepted'[i] = accepted[i] /\ accepted[i][1] # m
      /\ \A i \in 1 .. len : accepted'[a + i] = <<m, i>>
  <2>1. Extended(accepted, accepted', m, len)
    BY <1>l, PlacesAfter DEF Delivers, TypeOK
  <2> QED
    BY <2>1 DEF Extended
<1>2. /\ wire' \in Seq(Byte) /\ DOMAIN wire' = 1 .. w + n
      /\ DOMAIN wire = 1 .. w /\ w \in Nat
      /\ \A i \in 1 .. w : wire'[i] = wire[i] /\ wire[i][1] # m
      /\ \A i \in 1 .. n : wire'[w + i] = <<m, i>>
  <2>1. Extended(wire, wire', m, n)
    BY <1>l, <1>w, PlacesAfter DEF Delivers, TypeOK
  <2> QED
    BY <2>1 DEF Extended
<1> HIDE DEF a, w
<1>3. \A i \in DOMAIN accepted' :
        \/ i \in 1 .. a
        \/ i \notin 1 .. a /\ i - a \in 1 .. len /\ accepted'[i] = <<m, i - a>>
  <2> SUFFICES ASSUME NEW i \in DOMAIN accepted', i \notin 1 .. a
               PROVE  i - a \in 1 .. len /\ accepted'[i] = <<m, i - a>>
    OBVIOUS
  <2>1. i - a \in 1 .. len /\ a + (i - a) = i
    BY <1>1, <1>l
  <2> QED
    BY <1>1, <2>1
<1>4. AcceptedOnce'
  <2> SUFFICES ASSUME NEW i \in DOMAIN accepted', NEW j \in DOMAIN accepted',
                      accepted'[i] = accepted'[j]
               PROVE  i = j
    BY DEF AcceptedOnce
  <2>1. CASE i \in 1 .. a /\ j \in 1 .. a
    BY <1>1, <2>1 DEF AcceptedOnce
  <2>2. CASE i \notin 1 .. a /\ j \notin 1 .. a
    <3>1. i - a = j - a
      BY <1>3, <2>2
    <3> QED
      BY <1>1, <3>1
  <2>3. CASE ~(i \in 1 .. a <=> j \in 1 .. a)
    BY <1>1, <1>3, <2>3
  <2> QED
    BY <2>1, <2>2, <2>3
<1>5. ASSUME NEW i \in DOMAIN accepted' PROVE PlaceOf(accepted[i])' = i
  BY <1>4, <1>5 DEF PlaceOf, AcceptedOnce
<1>6. ASSUME NEW i \in DOMAIN accepted PROVE PlaceOf(accepted[i]) = i
  BY <1>6 DEF PlaceOf, AcceptedOnce
<1>7. ASSUME NEW i \in 1 .. w
      PROVE  \E j \in 1 .. a : accepted[j] = wire[i] /\ accepted'[j] = wire'[i]
  <2>1. PICK j \in DOMAIN accepted : accepted[j] = wire[i]
    BY <1>2, <1>7 DEF SentInOrder
  <2>2. j \in 1 .. a /\ accepted'[j] = accepted[j] /\ wire'[i] = wire[i]
    BY <1>1, <1>2, <1>7, <2>1
  <2> QED
    BY <2>1, <2>2
<1>8. \A i \in DOMAIN wire' :
        \/ i \in 1 .. w
        \/ i \notin 1 .. w /\ i - w \in 1 .. n /\ wire'[i] = <<m, i - w>>
  <2> SUFFICES ASSUME NEW i \in DOMAIN wire', i \notin 1 .. w
               PROVE  i - w \in 1 .. n /\ wire'[i] = <<m, i - w>>
    OBVIOUS
  <2>1. i - w \in 1 .. n /\ w + (i - w) = i
    BY <1>2, <1>l
  <2> QED
    BY <1>2, <2>1
<1>9. ASSUME NEW i \in DOMAIN wire', i \notin 1 .. w
      PROVE  a + (i - w) \in DOMAIN accepted' /\ accepted'[a + (i - w)] = wire'[i]
  <2>1. i - w \in 1 .. n /\ i - w \in 1 .. len
    BY <1>8, <1>9, <1>l
  <2>2. wire'[i] = <<m, i - w>>
    BY <1>8, <1>9
  <2>3. accepted'[a + (i - w)] = <<m, i - w>>
    BY <1>1, <2>1
  <2>4. a + (i - w) \in 1 .. a + len
    BY <1>1, <1>l, <2>1
  <2> QED
    BY <1>1, <2>2, <2>3, <2>4
<1>10. \A i \in DOMAIN wire' : \E j \in DOMAIN accepted' : accepted'[j] = wire'[i]
  <2>1. 1 .. a \subseteq DOMAIN accepted'
    BY <1>1, <1>l
  <2> QED
    BY <1>7, <1>9, <2>1
<1>11. ASSUME NEW i \in DOMAIN wire', NEW j \in DOMAIN wire', i < j
       PROVE  PlaceOf(wire[i])' < PlaceOf(wire[j])'
  <2>1. ASSUME NEW k \in 1 .. w PROVE /\ PlaceOf(wire[k])' = PlaceOf(wire[k])
                                     /\ PlaceOf(wire[k])' \in 1 .. a
    <3>1. PICK p \in 1 .. a : accepted[p] = wire[k] /\ accepted'[p] = wire'[k]
      BY <1>7, <2>1
    <3>2. p \in DOMAIN accepted' /\ p \in DOMAIN accepted
      BY <1>1, <1>l, <3>1
    <3> QED
      BY <1>5, <1>6, <3>1, <3>2
  <2>2. ASSUME NEW k \in DOMAIN wire', k \notin 1 .. w PROVE PlaceOf(wire[k])' = a + (k - w)
    BY <1>5, <1>9, <2>2
  <2>3. CASE i \in 1 .. w /\ j \in 1 .. w
    <3>1. PlaceOf(wire[i]) < PlaceOf(wire[j])
      BY <1>2, <1>11, <2>3 DEF SentInOrder
    <3> QED
      BY <2>1, <2>3, <3>1
  <2>4. CASE i \in 1 .. w /\ j \notin 1 .. w
    <3>1. j - w \in 1 .. n /\ a + (j - w) > a
      BY <1>1, <1>2, <1>8, <2>4
    <3>2. PlaceOf(wire[i])' \in 1 .. a /\ PlaceOf(wire[j])' = a + (j - w)
      BY <2>1, <2>2, <2>4
    <3> QED
      BY <1>1, <3>1, <3>2
  <2>5. CASE i \notin 1 .. w /\ j \notin 1 .. w
    <3>1. PlaceOf(wire[i])' = a + (i - w) /\ PlaceOf(wire[j])' = a + (j - w)
      BY <2>2, <2>5
    <3> QED
      BY <1>1, <1>2, <1>11, <3>1
  <2>6. ~(i \notin 1 .. w /\ j \in 1 .. w)
    BY <1>2, <1>11
  <2> QED
    BY <2>3, <2>4, <2>5, <2>6
<1>12. ASSUME NEW i \in DOMAIN wire', wire'[i][2] > 1
       PROVE  i > 1 /\ wire'[i - 1] = <<wire'[i][1], wire'[i][2] - 1>>
  <2>1. CASE i \in 1 .. w
    <3>1. i > 1 /\ wire[i - 1] = <<wire[i][1], wire[i][2] - 1>>
      BY <1>2, <1>12, <2>1 DEF SentInOrder
    <3>2. i - 1 \in 1 .. w
      BY <1>2, <2>1, <3>1
    <3> QED
      BY <1>2, <2>1, <3>1, <3>2
  <2>2. CASE i \notin 1 .. w
    <3>1. i - w \in 1 .. n /\ wire'[i] = <<m, i - w>>
      BY <1>8, <2>2
    <3>2. i - w > 1
      BY <1>12, <3>1
    <3>3. i - 1 \in DOMAIN wire' /\ i - 1 \notin 1 .. w /\ i > 1 /\ (i - 1) - w = (i - w) - 1
      BY <1>2, <1>l, <3>1, <3>2
    <3>4. wire'[i - 1] = <<m, (i - 1) - w>>
      BY <1>8, <3>3
    <3> QED
      BY <3>1, <3>3, <3>4
  <2> QED
    BY <2>1, <2>2
<1>13. SentInOrder'
  BY <1>10, <1>11, <1>12 DEF SentInOrder
<1>14. Within(accepted', 0)
  <2> SUFFICES ASSUME NEW i \in DOMAIN accepted'
               PROVE  \E l \in Lens : accepted'[i][2] <= l + 0
    BY DEF Within
  <2>1. CASE i \in 1 .. a
    BY <1>1, <2>1 DEF TypeOK, Within
  <2>2. CASE i \notin 1 .. a
    <3>1. i - a \in 1 .. len /\ accepted'[i] = <<m, i - a>>
      BY <1>3, <2>2
    <3>2. accepted'[i][2] <= len + 0
      BY <1>l, <3>1
    <3> QED
      BY <3>2
  <2> QED
    BY <2>1, <2>2
<1>15. Within(wire', 0)
  BY <1>10, <1>14 DEF Within
<1> QED
  BY <1>1, <1>2, <1>4, <1>13, <1>14, <1>15

\* A delivery is counted complete when it is.
LEMMA DeliveryCounted ==
  ASSUME TypeOK, SentInOrder, CompleteMeansSent,
         NEW m \in Message, m \notin MessagesOf(accepted),
         NEW len \in Lens, NEW n \in 0 .. len, Delivers(m, len, n)
  PROVE  CompleteMeansSent'
<1>l. len \in Nat \ {0} /\ n \in Nat /\ n <= len
  BY LenAssumption
<1>w. m \notin MessagesOf(wire)
  BY DEF MessagesOf, SentInOrder
<1>1. /\ PlacesIn(accepted', m) = Len(accepted) + 1 .. Len(accepted) + len
      /\ \A k : k # m => PlacesIn(accepted', k) = PlacesIn(accepted, k)
  <2>1. Extended(accepted, accepted', m, len)
    BY <1>l, PlacesAfter DEF Delivers, TypeOK
  <2> QED
    BY <1>l, <2>1, MessagesAfter DEF TypeOK
<1>2. /\ PlacesIn(wire', m) = Len(wire) + 1 .. Len(wire) + n
      /\ \A k : k # m => PlacesIn(wire', k) = PlacesIn(wire, k)
  <2>1. Extended(wire, wire', m, n)
    BY <1>l, <1>w, PlacesAfter DEF Delivers, TypeOK
  <2> QED
    BY <1>l, <1>w, <2>1, MessagesAfter DEF TypeOK
<1>3. \A k \in Message : k # m => (Whole(k)' <=> Whole(k))
  BY <1>1, <1>2 DEF Whole
<1>4. ~Whole(m)
  BY <1>w DEF Whole, PlacesIn, MessagesOf
<1>5. Whole(m)' <=> n = len
  <2>0. Len(wire) \in Nat /\ Len(accepted) \in Nat
    BY DEF TypeOK
  <2>1. /\ Cardinality(PlacesIn(wire', m)) = n
        /\ Cardinality(PlacesIn(accepted', m)) = len
    <3>1. ASSUME NEW x \in Nat, NEW d \in Nat PROVE Cardinality(x + 1 .. x + d) = d
      BY FS_Interval
    <3> QED
      BY <1>1, <1>2, <1>l, <2>0, <3>1
  <2>2. n = len => Len(wire) + 1 \in PlacesIn(wire', m)
    BY <1>2, <1>l, <2>0
  <2> QED
    BY <2>1, <2>2 DEF Whole
<1> DEFINE W == {k \in Message : Whole(k)}
<1>6. IsFiniteSet(W) /\ m \notin W
  <2>1. IsFiniteSet(Message)
    BY BoundAssumption, FS_Interval DEF Message
  <2> QED
    BY <1>4, <2>1, FS_Subset
<1>7. CASE n = len
  <2>1. W' = W \cup {m}
    BY <1>3, <1>5, <1>7
  <2>2. Cardinality(W') = Cardinality(W) + 1
    BY <1>6, <2>1, FS_AddElement
  <2> QED
    BY <1>7, <2>2 DEF CompleteMeansSent, Delivers
<1>8. CASE n # len
  <2>1. W' = W
    BY <1>3, <1>4, <1>5, <1>8
  <2>2. completes' = completes
    BY <1>8 DEF Delivers, TypeOK
  <2> QED
    BY <2>1, <2>2 DEF CompleteMeansSent
<1> QED
  BY <1>7, <1>8

\* Only messages given to sendInLoop are complete.
LEMMA CompletesBounded ==
  sends \in Nat /\ MessagesOf(accepted) \subseteq 1 .. sends /\ SentInOrder /\ CompleteMeansSent
    => completes \in 0 .. sends
<1> SUFFICES ASSUME sends \in Nat, MessagesOf(accepted) \subseteq 1 .. sends, SentInOrder,
                    CompleteMeansSent
             PROVE  completes \in 0 .. sends
  OBVIOUS
<1> DEFINE W == {k \in Message : Whole(k)}
<1>1. W \subseteq 1 .. sends
  <2> SUFFICES ASSUME NEW k \in Message, Whole(k) PROVE k \in 1 .. sends
    OBVIOUS
  <2>1. PICK i \in DOMAIN wire : wire[i][1] = k
    BY DEF Whole, PlacesIn
  <2>2. PICK j \in DOMAIN accepted : accepted[j] = wire[i]
    BY DEF SentInOrder
  <2> QED
    BY <2>1, <2>2 DEF MessagesOf
<1>2. IsFiniteSet(1 .. sends) /\ Cardinality(1 .. sends) = sends
  BY FS_Interval
<1>3. Cardinality(W) <= sends /\ Cardinality(W) \in Nat
  BY <1>1, <1>2, FS_Subset, FS_CardinalityType
<1> QED
  BY <1>3 DEF CompleteMeansSent

\* Callbacks behind a queue bring no message.
LEMMA CallbacksBehind ==
  ASSUME NEW q \in Seq(Functor), NEW cb \in Callbacks
  PROVE  /\ q \o cb \in Seq(Functor)
         /\ SendsIn(q \o cb) = SendsIn(q)
         /\ \A k \in SendsIn(q) : (q \o cb)[k] = q[k]
<1>1. cb \in Seq(Functor) /\ \A k \in DOMAIN cb : cb[k].op # "send"
  BY CallbacksAreFunctors
<1>2. /\ q \o cb \in Seq(Functor) /\ DOMAIN q = 1 .. Len(q) /\ DOMAIN cb = 1 .. Len(cb)
      /\ DOMAIN (q \o cb) = 1 .. Len(q) + Len(cb)
      /\ \A k \in 1 .. Len(q) : (q \o cb)[k] = q[k]
      /\ \A k \in 1 .. Len(cb) : (q \o cb)[Len(q) + k] = cb[k]
      /\ Len(q) \in Nat /\ Len(cb) \in Nat
  BY <1>1, ConcatProperties
<1>3. ASSUME NEW k \in DOMAIN (q \o cb), k \notin 1 .. Len(q) PROVE (q \o cb)[k].op # "send"
  <2>1. k - Len(q) \in 1 .. Len(cb) /\ Len(q) + (k - Len(q)) = k
    BY <1>2, <1>3
  <2>2. (q \o cb)[k] = cb[k - Len(q)]
    BY <1>2, <2>1
  <2> QED
    BY <1>1, <1>2, <2>1, <2>2
<1>4. 1 .. Len(q) \subseteq DOMAIN (q \o cb)
  BY <1>2
<1> QED
  BY <1>2, <1>3, <1>4 DEF SendsIn

\* The first functor is taken off the queue.
LEMMA TailSends ==
  ASSUME NEW q \in Seq(Functor), q # <<>>
  PROVE  /\ Head(q) \in Functor /\ Tail(q) \in Seq(Functor) /\ Head(q) = q[1]
         /\ 1 \in DOMAIN q
         /\ \A k \in SendsIn(Tail(q)) : /\ k + 1 \in SendsIn(q) /\ Tail(q)[k] = q[k + 1]
                                        /\ k \in Nat /\ k + 1 # 1
<1>1. /\ Head(q) \in Functor /\ Tail(q) \in Seq(Functor) /\ Head(q) = q[1]
      /\ DOMAIN q = 1 .. Len(q) /\ DOMAIN Tail(q) = 1 .. Len(q) - 1 /\ Len(q) \in Nat
      /\ Len(q) > 0
      /\ \A k \in 1 .. Len(q) - 1 : Tail(q)[k] = q[k + 1]
  OBVIOUS
<1>2. \A k \in DOMAIN Tail(q) : k + 1 \in DOMAIN q /\ Tail(q)[k] = q[k + 1] /\ k \in Nat /\ k + 1 # 1
  BY <1>1
<1> QED
  BY <1>1, <1>2 DEF SendsIn

\* A queue whose messages are all in another one is no worse.
LEMMA TailOnTheWay ==
  ASSUME pending \in Seq(Functor), pending # <<>>, OnTheWayIn(pending)
  PROVE  OnTheWayIn(Tail(pending))
<1> DEFINE q == Tail(pending)
<1>1. \A k \in SendsIn(q) : k + 1 \in SendsIn(pending) /\ q[k] = pending[k + 1] /\ k \in Nat
  BY TailSends
<1>2. \A k, l \in SendsIn(q) : q[k].msg = q[l].msg => k = l
  <2> SUFFICES ASSUME NEW k \in SendsIn(q), NEW l \in SendsIn(q), q[k].msg = q[l].msg
               PROVE  k = l
    OBVIOUS
  <2>1. /\ k + 1 \in SendsIn(pending) /\ l + 1 \in SendsIn(pending) /\ k \in Nat /\ l \in Nat
        /\ pending[k + 1].msg = pending[l + 1].msg
    BY <1>1
  <2>2. \A i, j \in SendsIn(pending) : pending[i].msg = pending[j].msg => i = j
    BY DEF OnTheWayIn
  <2>3. k + 1 = l + 1
    BY <2>1, <2>2
  <2> QED
    BY <2>1, <2>3
<1> HIDE DEF q
<1>3. OnTheWayIn(q)
  BY <1>1, <1>2 DEF OnTheWayIn
<1> QED
  BY <1>3 DEF q

\* sendInLoop of a message that is on its way nowhere else keeps the invariant.
LEMMA SendStep ==
  ASSUME OutputInvariant,
         NEW m \in Message, NEW len \in Lens, NEW rest \in Seq(Functor),
         SendInLoop(m, len, rest), UNCHANGED <<state, shutWrite, closed, call, dead>>,
         sends' \in sends .. MaxMessages, m \in 1 .. sends', m \notin MessagesOf(accepted),
         \A t \in Sending : call[t].msg # m,
         OnTheWayIn(rest), \A k \in SendsIn(rest) : rest[k].msg # m
  PROVE  OutputInvariant'
<1> USE DEF OutputInvariant
<1>0. sends \in Nat /\ sends' \in Nat /\ sends <= sends'
  BY BoundAssumption DEF TypeOK
<1>1. /\ \/ UNCHANGED history
         \/ \E n \in 0 .. len : Delivers(m, len, n)
      /\ \E cb \in Callbacks : pending' = rest \o cb
      /\ \/ UNCHANGED <<out, writing>>
         \/ /\ out' \in Seq(Byte) /\ out' # <<>> /\ writing' = TRUE
            /\ Within(out', 1) /\ (dead \/ shutWrite)
  BY SendEffect
<1>2. /\ accepted' \in Seq(Byte) /\ wire' \in Seq(Byte)
      /\ Within(accepted', 0) /\ Within(wire', 0)
      /\ AcceptedOnce' /\ SentInOrder' /\ CompleteMeansSent'
      /\ MessagesOf(accepted') \subseteq MessagesOf(accepted) \cup {m}
  <2>1. CASE UNCHANGED history
    BY <2>1 DEF TypeOK, history, AcceptedOnce, SentInOrder, PlaceOf, CompleteMeansSent, Whole
  <2>2. ASSUME NEW n \in 0 .. len, Delivers(m, len, n)
        PROVE  /\ accepted' \in Seq(Byte) /\ wire' \in Seq(Byte)
               /\ Within(accepted', 0) /\ Within(wire', 0)
               /\ AcceptedOnce' /\ SentInOrder' /\ CompleteMeansSent'
               /\ MessagesOf(accepted') \subseteq MessagesOf(accepted) \cup {m}
    <3>1. /\ accepted' \in Seq(Byte) /\ wire' \in Seq(Byte)
          /\ Within(accepted', 0) /\ Within(wire', 0)
          /\ AcceptedOnce' /\ SentInOrder'
      BY <2>2, DeliveryInOrder
    <3>2. CompleteMeansSent'
      BY <2>2, DeliveryCounted
    <3>3. len \in Nat
      BY LenAssumption
    <3>4. Extended(accepted, accepted', m, len)
      BY <2>2, <3>3, PlacesAfter DEF Delivers, TypeOK
    <3>5. MessagesOf(accepted') \subseteq MessagesOf(accepted) \cup {m}
      BY <3>3, <3>4, MessagesAfter DEF TypeOK
    <3> QED
      BY <3>1, <3>2, <3>5
  <2> QED
    BY <1>1, <2>1, <2>2
<1>3. pending' \in Seq(Functor) /\ OnTheWayOnce'
  <2>1. PICK cb \in Callbacks : pending' = rest \o cb
    BY <1>1
  <2>2. /\ pending' \in Seq(Functor) /\ SendsIn(pending') = SendsIn(rest)
        /\ \A k \in SendsIn(rest) : pending'[k] = rest[k]
    BY <2>1, CallbacksBehind
  <2>3. \A x \in (1 .. sends) \ MessagesOf(accepted) :
           x # m => x \in (1 .. sends') \ MessagesOf(accepted')
    BY <1>0, <1>2
  <2>4. Sending' = Sending
    BY DEF Sending
  <2>5. MessagesOf(accepted') \subseteq 1 .. sends'
    BY <1>0, <1>2 DEF OnTheWayOnce
  <2>6. /\ \A t \in Sending' : call'[t].msg \in (1 .. sends') \ MessagesOf(accepted')
        /\ \A t, u \in Sending' : call'[t].msg = call'[u].msg => t = u
    BY <2>3, <2>4 DEF OnTheWayIn
  <2>7. /\ \A k \in SendsIn(pending') : pending'[k].msg \in (1 .. sends') \ MessagesOf(accepted')
        /\ \A k, l \in SendsIn(pending') : pending'[k].msg = pending'[l].msg => k = l
        /\ \A t \in Sending', k \in SendsIn(pending') : call'[t].msg # pending'[k].msg
    <3>1. ASSUME NEW k \in SendsIn(pending')
          PROVE  pending'[k].msg \in (1 .. sends') \ MessagesOf(accepted')
      BY <2>2, <2>3 DEF OnTheWayIn
    <3>2. ASSUME NEW k \in SendsIn(pending'), NEW l \in SendsIn(pending'),
                 pending'[k].msg = pending'[l].msg
          PROVE  k = l
      BY <2>2, <3>2 DEF OnTheWayIn
    <3>3. ASSUME NEW t \in Sending', NEW k \in SendsIn(pending')
          PROVE  call'[t].msg # pending'[k].msg
      BY <2>2, <2>4 DEF OnTheWayIn
    <3> QED
      BY <3>1, <3>2, <3>3
  <2>8. OnTheWayIn(pending)'
    BY <2>6, <2>7 DEF OnTheWayIn
  <2> QED
    BY <2>2, <2>5, <2>8 DEF OnTheWayOnce
<1>4. completes' \in 0 .. sends'
  <2>1. (sends \in Nat /\ MessagesOf(accepted) \subseteq 1 .. sends /\ SentInOrder
           /\ CompleteMeansSent => completes \in 0 .. sends)'
    BY CompletesBounded, PTL
  <2> QED
    BY <1>0, <1>2, <1>3, <2>1 DEF OnTheWayOnce
<1>5. TypeOK'
  <2>1. {writing', shutWrite', dead', closed'} \subseteq BOOLEAN
    BY <1>1, Zenon DEF TypeOK
  <2>2. out' \in Seq(Byte) /\ Within(out', 1)
    BY <1>1 DEF TypeOK
  <2> QED
    BY <1>0, <1>2, <1>3, <1>4, <2>1, <2>2 DEF TypeOK
<1>6. WatchedWhileBuffered' /\ OnlyAfterFault'
  BY <1>1 DEF WatchedWhileBuffered, OnlyAfterFault
<1> QED
  BY <1>2, <1>3, <1>5, <1>6

\* Initially nothing has been sent.
LEMMA OutputInit == Init => OutputInvariant
<1> SUFFICES ASSUME Init PROVE OutputInvariant
  OBVIOUS
<1> USE DEF Init
<1>1. TypeOK
  <2>1. /\ <<>> \in Seq(Byte) /\ <<>> \in Seq(Functor)
    OBVIOUS
  <2>2. {writing, shutWrite, dead, closed} \subseteq BOOLEAN
    OBVIOUS
  <2>3. call \in [Callers -> [op : {"none", "send", "shutdown"}, msg : 0 .. MaxMessages]]
    BY BoundAssumption DEF NoCall
  <2> QED
    BY <2>1, <2>2, <2>3, BoundAssumption DEF TypeOK, Within
<1>2. WatchedWhileBuffered /\ OnlyAfterFault
  BY DEF WatchedWhileBuffered, OnlyAfterFault
<1>3. OnTheWayOnce
  BY DEF OnTheWayOnce, OnTheWayIn, Sending, SendsIn, MessagesOf, NoCall
<1>4. AcceptedOnce /\ SentInOrder
  BY DEF AcceptedOnce, SentInOrder
<1>5. CompleteMeansSent
  <2>1. {m \in Message : Whole(m)} = {}
    BY DEF Whole, PlacesIn
  <2> QED
    BY <2>1, FS_EmptySet DEF CompleteMeansSent
<1> QED
  BY <1>1, <1>2, <1>3, <1>4, <1>5 DEF OutputInvariant

\* What a step that writes nothing and accepts nothing has to keep.
LEMMA QuietStep ==
  ASSUME OutputInvariant, UNCHANGED history, sends' \in sends .. MaxMessages,
         state' \in {"kConnected", "kDisconnecting", "kDisconnected"},
         {writing', shutWrite', dead', closed'} \subseteq BOOLEAN,
         out' = out, pending' \in Seq(Functor),
         call' \in [Callers -> [op : {"none", "send", "shutdown"}, msg : 0 .. MaxMessages]],
         WatchedWhileBuffered', OnlyAfterFault', OnTheWayIn(pending)'
  PROVE  OutputInvariant'
<1> USE DEF OutputInvariant
<1>1. AcceptedOnce' /\ SentInOrder' /\ CompleteMeansSent'
  BY DEF history, AcceptedOnce, SentInOrder, PlaceOf, CompleteMeansSent, Whole
<1>2. sends \in Nat /\ sends' \in 0 .. MaxMessages /\ sends <= sends'
  BY BoundAssumption DEF TypeOK
<1>3. OnTheWayOnce'
  <2>1. MessagesOf(accepted)' \subseteq 1 .. sends'
    BY <1>2 DEF OnTheWayOnce, history
  <2> QED
    BY <2>1 DEF OnTheWayOnce
<1>4. TypeOK'
  BY <1>2 DEF TypeOK, history
<1> QED
  BY <1>1, <1>3, <1>4

\* The functor at the head of the queue goes and brings no message.
LEMMA DropHead ==
  ASSUME OutputInvariant, pending # <<>>, pending' = Tail(pending),
         UNCHANGED <<call, sends, accepted>>
  PROVE  pending' \in Seq(Functor) /\ OnTheWayIn(pending)'
<1>1. pending' \in Seq(Functor)
  BY TailSends DEF OutputInvariant, TypeOK
<1>2. OnTheWayIn(Tail(pending))
  BY TailOnTheWay DEF OutputInvariant, TypeOK, OnTheWayOnce
<1>3. OnTheWayIn(pending)'
  BY <1>2 DEF OnTheWayIn, Sending
<1> QED
  BY <1>1, <1>3

\* handleWrite finds nothing it can do: what is in outputBuffer_ came there after
\* a fault, and every later write fails too.
LEMMA HandleWriteIdle ==
  ASSUME TypeOK, OnlyAfterFault, HandleWrite
  PROVE  UNCHANGED vars
<1>1. out # <<>> /\ (dead \/ shutWrite) /\ writing
  BY DEF HandleWrite, OnlyAfterFault
<1>2. wire' = wire \o SubSeq(out, 1, 0) /\ out' = SubSeq(out, 0 + 1, Len(out))
  BY <1>1 DEF HandleWrite, WriteResults, Fails, writeFd
<1>3. out' = out
  BY <1>2 DEF TypeOK
<1>4. wire' = wire
  <2>1. SubSeq(out, 1, 0) = <<>>
    BY DEF TypeOK
  <2> QED
    BY <1>2, <2>1, ConcatEmptySeq DEF TypeOK
<1>5. writing' = TRUE /\ writing = TRUE
  <2>1. writing' = (out' # <<>>)
    BY DEF HandleWrite
  <2>2. writing \in BOOLEAN
    BY DEF TypeOK
  <2> QED
    BY <1>1, <1>3, <2>1, <2>2, Zenon
<1> QED
  BY <1>3, <1>4, <1>5 DEF HandleWrite, vars, connVars, history

\* Every action keeps the invariant.
LEMMA OutputStep == OutputInvariant /\ [Next]_vars => OutputInvariant'
<1> SUFFICES ASSUME OutputInvariant, [Next]_vars PROVE OutputInvariant'
  OBVIOUS
<1>0. /\ TypeOK /\ sends \in Nat /\ MaxMessages \in Nat /\ sends \in sends .. MaxMessages
      /\ OnTheWayIn(pending)
  BY BoundAssumption DEF OutputInvariant, TypeOK, OnTheWayOnce
<1>1. CASE UNCHANGED vars
  BY <1>0, <1>1, QuietStep
     DEF OutputInvariant, TypeOK, vars, connVars, history, WatchedWhileBuffered,
         OnlyAfterFault, OnTheWayIn, Sending
<1>2. ASSUME NEW t \in Callers, SendTest(t) PROVE OutputInvariant'
  <2>1. /\ call[t].op # "send" /\ sends' = sends + 1 /\ sends < MaxMessages
        /\ call' = [call EXCEPT ![t] = [op |-> "send", msg |-> sends + 1]]
        /\ UNCHANGED <<connVars, pending, dead, history>>
    BY <1>2 DEF SendTest, NoCall
  <2>2. call' \in [Callers -> [op : {"none", "send", "shutdown"}, msg : 0 .. MaxMessages]]
    BY <1>0, <2>1 DEF TypeOK
  <2>3. /\ Sending' = Sending \cup {t} /\ call'[t].msg = sends + 1
        /\ \A u \in Sending : u # t /\ call'[u] = call[u]
    BY <1>0, <2>1 DEF Sending, TypeOK
  <2>4. MessagesOf(accepted) \subseteq 1 .. sends /\ accepted' = accepted /\ pending' = pending
    BY <2>1 DEF OutputInvariant, OnTheWayOnce, history
  <2>5. /\ sends + 1 \in (1 .. sends') \ MessagesOf(accepted)
        /\ \A x \in (1 .. sends) \ MessagesOf(accepted) :
              x # sends + 1 /\ x \in (1 .. sends') \ MessagesOf(accepted)
    BY <1>0, <2>1, <2>4
  <2>6. /\ \A v \in Sending' : call'[v].msg \in (1 .. sends') \ MessagesOf(accepted')
        /\ \A u, v \in Sending' : call'[u].msg = call'[v].msg => u = v
    BY <1>0, <2>3, <2>4, <2>5 DEF OnTheWayIn
  <2>7. /\ \A k \in SendsIn(pending') : pending'[k].msg \in (1 .. sends') \ MessagesOf(accepted')
        /\ \A k, l \in SendsIn(pending') : pending'[k].msg = pending'[l].msg => k = l
        /\ \A v \in Sending', k \in SendsIn(pending') : call'[v].msg # pending'[k].msg
    BY <1>0, <2>3, <2>4, <2>5 DEF OnTheWayIn
  <2>8. OnTheWayIn(pending)'
    BY <2>6, <2>7 DEF OnTheWayIn
  <2> QED
    BY <1>0, <2>1, <2>2, <2>8, QuietStep
       DEF OutputInvariant, TypeOK, connVars, WatchedWhileBuffered, OnlyAfterFault
<1>3. ASSUME NEW t \in Callers, NEW len \in Lens, SendPost(t, len) PROVE OutputInvariant'
  <2> DEFINE f == [op |-> "send", msg |-> call[t].msg, len |-> len]
  <2>1. /\ t \in Sending /\ pending' = Append(pending, f)
        /\ call' = [call EXCEPT ![t] = NoCall]
        /\ UNCHANGED <<connVars, dead, sends, history>>
    BY <1>3 DEF SendPost, Sending
  <2>2. call[t].msg \in (1 .. sends) \ MessagesOf(accepted) /\ f \in Functor
    BY <1>0, <2>1 DEF OnTheWayIn, Functor, Message, TypeOK
  <2>3. call' \in [Callers -> [op : {"none", "send", "shutdown"}, msg : 0 .. MaxMessages]]
    BY <1>0, <2>1 DEF TypeOK, NoCall
  <2>4. Sending' = Sending \ {t} /\ \A u \in Sending' : call'[u] = call[u]
    BY <1>0, <2>1 DEF Sending, TypeOK, NoCall
  <2> HIDE DEF f
  <2>5. /\ pending' \in Seq(Functor) /\ DOMAIN pending' = 1 .. Len(pending) + 1
        /\ DOMAIN pending = 1 .. Len(pending) /\ pending'[Len(pending) + 1] = f
        /\ \A k \in 1 .. Len(pending) : pending'[k] = pending[k]
        /\ Len(pending) \in Nat
    BY <1>0, <2>1, <2>2 DEF TypeOK
  <2>6. f.msg = call[t].msg /\ f.op = "send"
    BY DEF f
  <2>7. \A k \in SendsIn(pending') : \/ k \in SendsIn(pending) /\ pending'[k] = pending[k]
                                     \/ k = Len(pending) + 1 /\ pending'[k] = f
    BY <2>5 DEF SendsIn
  <2>8. \A k \in SendsIn(pending) : pending[k].msg # f.msg
    BY <1>0, <2>1, <2>6 DEF OnTheWayIn
  <2>9. \A u \in Sending' : call'[u].msg # f.msg
    BY <1>0, <2>1, <2>4, <2>6 DEF OnTheWayIn
  <2>10. accepted' = accepted /\ sends' = sends
    BY <2>1 DEF history
  <2>11. /\ \A k \in SendsIn(pending') : pending'[k].msg \in (1 .. sends) \ MessagesOf(accepted)
         /\ \A u \in Sending', k \in SendsIn(pending') : call'[u].msg # pending'[k].msg
    BY <1>0, <2>2, <2>4, <2>6, <2>7, <2>9 DEF OnTheWayIn
  <2>12. \A k, l \in SendsIn(pending') : pending'[k].msg = pending'[l].msg => k = l
    BY <1>0, <2>7, <2>8 DEF OnTheWayIn
  <2>13. OnTheWayIn(pending)'
    BY <1>0, <2>4, <2>10, <2>11, <2>12 DEF OnTheWayIn
  <2> QED
    BY <1>0, <2>1, <2>3, <2>5, <2>13, QuietStep
       DEF OutputInvariant, TypeOK, connVars, WatchedWhileBuffered, OnlyAfterFault
<1>4. ASSUME NEW len \in Lens, SendInline(len) PROVE OutputInvariant'
  <2>1. /\ SendInLoop(sends + 1, len, pending) /\ sends' = sends + 1 /\ sends < MaxMessages
        /\ UNCHANGED <<state, shutWrite, closed, call, dead>>
    BY <1>4 DEF SendInline
  <2>2. /\ sends + 1 \in Message /\ sends' \in sends .. MaxMessages /\ sends + 1 \in 1 .. sends'
        /\ sends + 1 \notin 1 .. sends
    BY <1>0, <2>1 DEF Message
  <2>3. sends + 1 \notin MessagesOf(accepted)
    BY <2>2 DEF OutputInvariant, OnTheWayOnce
  <2>4. /\ \A t \in Sending : call[t].msg # sends + 1
        /\ \A k \in SendsIn(pending) : pending[k].msg # sends + 1
    BY <1>0, <2>2 DEF OnTheWayIn
  <2> QED
    BY <1>0, <2>1, <2>2, <2>3, <2>4, SendStep DEF TypeOK
<1>5. CASE RunSend
  <2> DEFINE m == Head(pending).msg
             len == Head(pending).len
  <2>1. /\ pending # <<>> /\ Head(pending).op = "send" /\ SendInLoop(m, len, Tail(pending))
        /\ UNCHANGED <<state, shutWrite, closed, call, dead, sends>>
    BY <1>5 DEF RunSend
  <2>2. /\ Head(pending) = pending[1] /\ 1 \in SendsIn(pending)
        /\ m \in Message /\ len \in Lens /\ Tail(pending) \in Seq(Functor)
    BY <1>0, <2>1, TailSends DEF TypeOK, Functor, SendsIn
  <2>3. m \in (1 .. sends) \ MessagesOf(accepted) /\ \A t \in Sending : call[t].msg # m
    BY <1>0, <2>2 DEF OnTheWayIn
  <2>4. \A k \in SendsIn(Tail(pending)) : Tail(pending)[k].msg # m
    <3>1. \A k \in SendsIn(Tail(pending)) :
            k + 1 \in SendsIn(pending) /\ Tail(pending)[k] = pending[k + 1] /\ k + 1 # 1
      BY <1>0, <2>1, TailSends DEF TypeOK
    <3> QED
      BY <1>0, <2>2, <3>1 DEF OnTheWayIn
  <2>5. OnTheWayIn(Tail(pending))
    BY <1>0, <2>1, TailOnTheWay DEF TypeOK
  <2> HIDE DEF m, len
  <2> QED
    BY <1>0, <2>1, <2>2, <2>3, <2>4, <2>5, SendStep
<1>6. ASSUME NEW t \in Callers, ShutdownTest(t) PROVE OutputInvariant'
  <2>1. /\ call[t].op # "send" /\ call' = [call EXCEPT ![t] = [op |-> "shutdown", msg |-> 0]]
        /\ UNCHANGED <<connVars, pending, dead, sends, history>>
    BY <1>6 DEF ShutdownTest, NoCall
  <2>2. call' \in [Callers -> [op : {"none", "send", "shutdown"}, msg : 0 .. MaxMessages]]
    BY <1>0, <2>1 DEF TypeOK
  <2>3. Sending' = Sending /\ \A u \in Sending : call'[u] = call[u]
    BY <1>0, <2>1 DEF Sending, TypeOK
  <2>4. OnTheWayIn(pending)'
    BY <1>0, <2>1, <2>3 DEF OnTheWayIn, history
  <2> QED
    BY <1>0, <2>1, <2>2, <2>4, QuietStep
       DEF OutputInvariant, TypeOK, connVars, WatchedWhileBuffered, OnlyAfterFault
<1>7. ASSUME NEW t \in Callers, ShutdownPost(t) PROVE OutputInvariant'
  <2> DEFINE f == [op |-> "shutdown"]
  <2>1. /\ call[t].op = "shutdown" /\ pending' = Append(pending, f)
        /\ call' = [call EXCEPT ![t] = NoCall] /\ state' = "kDisconnecting"
        /\ UNCHANGED <<writing, out, shutWrite, closed, dead, sends, history>>
    BY <1>7 DEF ShutdownPost
  <2>2. call' \in [Callers -> [op : {"none", "send", "shutdown"}, msg : 0 .. MaxMessages]]
    BY <1>0, <2>1 DEF TypeOK, NoCall
  <2>3. Sending' = Sending /\ \A u \in Sending : call'[u] = call[u]
    BY <1>0, <2>1 DEF Sending, TypeOK, NoCall
  <2>4. f \in Functor /\ f.op # "send"
    BY DEF Functor
  <2> HIDE DEF f
  <2>5. /\ pending' \in Seq(Functor) /\ DOMAIN pending' = 1 .. Len(pending) + 1
        /\ DOMAIN pending = 1 .. Len(pending) /\ pending'[Len(pending) + 1] = f
        /\ \A k \in 1 .. Len(pending) : pending'[k] = pending[k]
        /\ Len(pending) \in Nat
    BY <1>0, <2>1, <2>4 DEF TypeOK
  <2>6. \A k \in SendsIn(pending') : k \in SendsIn(pending) /\ pending'[k] = pending[k]
    BY <2>4, <2>5 DEF SendsIn
  <2>7. accepted' = accepted /\ sends' = sends
    BY <2>1 DEF history
  <2>8. /\ \A k \in SendsIn(pending') : pending'[k].msg \in (1 .. sends) \ MessagesOf(accepted)
        /\ \A u \in Sending', k \in SendsIn(pending') : call'[u].msg # pending'[k].msg
        /\ \A k, l \in SendsIn(pending') : pending'[k].msg = pending'[l].msg => k = l
    BY <1>0, <2>3, <2>6 DEF OnTheWayIn
  <2>9. OnTheWayIn(pending)'
    BY <1>0, <2>3, <2>7, <2>8 DEF OnTheWayIn
  <2> QED
    BY <1>0, <2>1, <2>2, <2>5, <2>9, QuietStep
       DEF OutputInvariant, TypeOK, WatchedWhileBuffered, OnlyAfterFault
<1>8. CASE RunShutdown
  <2>1. /\ pending # <<>> /\ pending' = Tail(pending) /\ shutWrite' = (shutWrite \/ ~writing)
        /\ UNCHANGED <<state, writing, out, closed, call, dead, sends, history>>
    BY <1>8 DEF RunShutdown, shutdownInLoop
  <2>2. pending' \in Seq(Functor) /\ OnTheWayIn(pending)'
    BY <2>1, DropHead DEF history
  <2>3. shutWrite' \in BOOLEAN
    BY <2>1, Zenon
  <2>4. WatchedWhileBuffered' /\ OnlyAfterFault'
    BY <2>1 DEF OutputInvariant, WatchedWhileBuffered, OnlyAfterFault
  <2> QED
    BY <1>0, <2>1, <2>2, <2>3, <2>4, QuietStep DEF TypeOK
<1>9. CASE RunCallback
  <2>1. /\ pending # <<>> /\ pending' = Tail(pending)
        /\ UNCHANGED <<connVars, call, dead, sends, history>>
    BY <1>9 DEF RunCallback
  <2>2. pending' \in Seq(Functor) /\ OnTheWayIn(pending)'
    BY <2>1, DropHead DEF history
  <2> QED
    BY <1>0, <2>1, <2>2, QuietStep
       DEF OutputInvariant, TypeOK, connVars, WatchedWhileBuffered, OnlyAfterFault
<1>10. CASE HandleWrite
  BY <1>1, <1>10, HandleWriteIdle DEF OutputInvariant
<1>11. CASE HandleClose
  <2>1. OnTheWayIn(pending)'
    BY <1>0, <1>11 DEF HandleClose, history, OnTheWayIn, Sending
  <2> QED
    BY <1>0, <1>11, <2>1, QuietStep
       DEF HandleClose, OutputInvariant, TypeOK, WatchedWhileBuffered, OnlyAfterFault
<1>12. CASE PeerGone
  <2>1. OnTheWayIn(pending)'
    BY <1>0, <1>12 DEF PeerGone, history, OnTheWayIn, Sending
  <2> QED
    BY <1>0, <1>12, <2>1, QuietStep
       DEF PeerGone, OutputInvariant, TypeOK, connVars, WatchedWhileBuffered, OnlyAfterFault
<1> QED
  BY <1>1, <1>2, <1>3, <1>4, <1>5, <1>6, <1>7, <1>8, <1>9, <1>10, <1>11, <1>12 DEF Next

\* The inductive invariant of a connection's output.
THEOREM OutputCorrect == Spec => []OutputInvariant
  BY OutputInit, OutputStep, PTL DEF Spec

\* The state of the output keeps its types: only bytes that a message has are
\* accepted and written, outputBuffer_ is at most one byte past the end of one, and
\* there are no more completions than calls of send().
THEOREM OutputTypes == Spec => []TypeOK
<1>1. OutputInvariant => TypeOK
  BY DEF OutputInvariant
<1> QED
  BY <1>1, OutputCorrect, PTL

\* sendInLoop and handleWrite: EPOLLOUT is asked for exactly while outputBuffer_
\* of an open connection holds something.
THEOREM EpolloutMatchesBuffer == Spec => []WatchedWhileBuffered
<1>1. OutputInvariant => WatchedWhileBuffered
  BY DEF OutputInvariant
<1> QED
  BY <1>1, OutputCorrect, PTL

\* send() from any number of threads: what goes out was accepted, in the order in
\* which it was, no byte twice, and each message from its first byte without a gap.
THEOREM WireInOrder == Spec => []SentInOrder
<1>1. OutputInvariant => SentInOrder
  BY DEF OutputInvariant
<1> QED
  BY <1>1, OutputCorrect, PTL

\* writeCompleteCallback_ is queued once for each message the kernel took whole
\* and for no other.
THEOREM CompletionsExact == Spec => []CompleteMeansSent
<1>1. OutputInvariant => CompleteMeansSent
  BY DEF OutputInvariant
<1> QED
  BY <1>1, OutputCorrect, PTL

\* shutdown(): an open connection is shut down for writing only with nothing
\* left in outputBuffer_.
THEOREM ShutdownAfterFlush == Spec => FlushedBeforeShutdown
<1>1. OutputInvariant /\ [Next]_vars
        => [(shutWrite' /\ ~shutWrite /\ ~closed) => out' = <<>>]_vars
  <2> SUFFICES ASSUME OutputInvariant, Next, shutWrite', ~shutWrite, ~closed PROVE out' = <<>>
    OBVIOUS
  <2>1. CASE RunShutdown
    BY <2>1 DEF RunShutdown, shutdownInLoop, OutputInvariant, WatchedWhileBuffered
  <2>2. CASE HandleWrite
    BY <2>2, HandleWriteIdle DEF OutputInvariant, vars, connVars
  <2>3. CASE UNCHANGED shutWrite
    BY <2>3
  <2> QED
    BY <2>1, <2>2, <2>3
       DEF Next, SendTest, SendPost, SendInline, ShutdownTest, ShutdownPost, RunSend,
           RunCallback, HandleClose, PeerGone, connVars
<1> QED
  BY <1>1, OutputCorrect, PTL DEF Spec, FlushedBeforeShutdown
=============================================================================
